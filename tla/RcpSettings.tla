---------------------------- MODULE RcpSettings ----------------------------
(***************************************************************************)
(* The settings of a switch and the copy of them in flash: the functions   *)
(* of apps/rcp_gwd.c that set bits of a switch register or of the PHY of a *)
(* port, the commands of apps/rcp_switch_cli.c that call them, and the two *)
(* threads that write settings without being asked: the RCP loop monitor,  *)
(* which shuts a port that loops, and the RCP monitor, which restores the  *)
(* saved settings of a switch that comes online.                           *)
(*                                                                         *)
(* A setting is a field of a 16 bit register, written by reading the       *)
(* register and writing it back; the channel lock of RcpRegAccess is held  *)
(* for one access only, so other threads come between the two.  PHY        *)
(* registers are reached through three more registers: data in, data out   *)
(* and control.  A PHY access takes microseconds and a frame to the switch *)
(* and back far longer, so it is done when the next access comes and the   *)
(* busy bit is never seen set.  An access fails when the switch does not   *)
(* answer; a write may also be lost without an error.  The bytes of the    *)
(* EEPROM are written likewise, through a register for the data and one    *)
(* for the address; what comes while it is busy with another byte is left  *)
(* out, and so is reading it, which is only to show what it holds.         *)
(*                                                                         *)
(* A thread runs as the list of accesses it has still to make, one step    *)
(* each.  VLANs, which have their own model RcpVlan, are left out, with    *)
(* the isolation bit that is saved along.  The switch has at most 15 ports:*)
(* the learning bit of a sixteenth would fall outside its register.        *)
(***************************************************************************)
EXTENDS Naturals, Sequences, FiniteSets, FiniteSetsExt, SequencesExt

CONSTANTS
  Sessions,        \* CLI sessions
  NumPorts,        \* numOfPorts
  Commands,        \* what may be entered in each session: [cmd, ports, value]
  gusSwitchCfgRegAddrArray,  \* the registers that are saved; an instance may keep fewer than the code
  EepromBytes,     \* the bytes of the EEPROM; an instance may keep fewer than 2048
  MaxInputs        \* bound: commands, accesses that fail for no visible reason, writes
                   \*   that are lost, cables pulled, loops, restarts of the ONU

Ports == 1 .. NumPorts
Actors == Sessions \union {"loop monitor", "RCP monitor"}

VARIABLES
  reg,            \* the registers of the switch and of its PHYs, words of 16 bits
  phyData,        \* ACCESS_WRITE and ACCESS_READ
  linked, uplink, \* hardware: the cable to the ONU is in, and the port it is in
  looped,         \* hardware: the ports whose frames come back
  known,          \* of RCP_DEV: the switch has come online since the start or since it went
  upLinkPort, previousUplinkPort, loopStatus, loopAndDown,  \* of RCP_DEV
  buf, flash,     \* gpusSwitchCfgFileBuf, and what the flash holds
  todo,           \* what each actor has still to do, in order
  crossed,        \* history: the actors that have lost a write of the access under way,
                  \*   or had another write between that used the same register
  torn,           \* history: a save or an erasure came upon another one
  inputs

hardVars == <<linked, uplink, looped>>
devVars == <<known, upLinkPort, previousUplinkPort>>
loopVars == <<loopStatus, loopAndDown>>
fileVars == <<buf, flash, torn>>
vars == <<reg, phyData, hardVars, devVars, loopVars, fileVars, todo, crossed, inputs>>
-----------------------------------------------------------------------------
\* Fields of registers.  The PHY registers are numbered past the switch's own.
Field(addr, pos, len) == [addr |-> addr, pos |-> pos, len |-> len]
PhyField(p, r, pos) == Field(65536 + 32 * p + r, pos, 1)

\* One bit for each port, and the ports two by two with `width` bits each.
PortBit(base, p) == Field(base, p - 1, 1)
Halved(base, width, p, pos, len) ==
  Field(base + (p - 1) \div 2, pos + width * ((p - 1) % 2), len)

FullDuplexFC == Field(\h0607, 0, 1)
BroadcastFC == Field(\h0607, 2, 1)
MulticastFC == Field(\h0607, 3, 1)
BroadcastStormFilter == Field(\h0607, 4, 1)
LoopDetect == Field(\h0200, 2, 1)
IGMPSnooping == Field(\h0308, 0, 1)
MIBRxObject(p) == Halved(\h0700, 6, p, 0, 2)
MIBTxObject(p) == Halved(\h0700, 6, p, 2, 2)
MIBDnObject(p) == Halved(\h0700, 6, p, 4, 2)
PortDisable(p) == PortBit(\h0608, p)
PortSpeedConfig(p) == Halved(\h060A, 8, p, 0, 4)
PortPauseFC(p) == Halved(\h060A, 8, p, 5, 1)
PortAutoNegoEnable(p) == Halved(\h060A, 8, p, 7, 1)
PortRxBandwidth(p) == Halved(\h020A, 8, p, 0, 4)
PortTxBandwidth(p) == Halved(\h020A, 8, p, 4, 4)
QosDiffPriority == Field(\h0400, 0, 1)
QosVlanPriority == Field(\h0400, 1, 1)
QosMapMode == Field(\h0400, 0, 2)
QosAdapterFC == Field(\h0400, 2, 1)
QosPrioRatio == Field(\h0400, 3, 2)
QosPortPriority(p) == PortBit(\h0401, p)
VlanUnicastLeaky == Field(\h030B, 1, 1)
VlanArpLeaky == Field(\h030B, 2, 1)
VlanMulticastLeaky == Field(\h030B, 3, 1)
VlanIngressFilter == Field(\h030B, 6, 1)
MirrorPort(p) == PortBit(\h0219, p)
MirrorRxPort(p) == PortBit(\h021B, p)
MirrorTxPort(p) == PortBit(\h021D, p)
AtuAgingEnable == Field(\h0300, 0, 1)
AtuFastAgingEnable == Field(\h0300, 1, 1)
AtuCtrlFrameFilter == Field(\h0300, 2, 1)
\* The bit is one too high: it is the next port's.
AtuLearning(p) == Field(\h0301, p, 1)
PhySpeed(p) == PhyField(p, 0, 13)
PhyAutoNegoEnable(p) == PhyField(p, 0, 12)
PhyPowerDown(p) == PhyField(p, 0, 11)
PhyReAutoNego(p) == PhyField(p, 0, 9)
PhyDuplex(p) == PhyField(p, 0, 8)
Phy100F(p) == PhyField(p, 4, 8)
Phy100H(p) == PhyField(p, 4, 7)
Phy10F(p) == PhyField(p, 4, 6)
Phy10H(p) == PhyField(p, 4, 5)

\* A byte of the EEPROM, numbered past the PHYs, and the register for its data.
Eeprom(b) == Field(131072 + b, 0, 8)
EepromWrite == Field(\h0218, 0, 8)

IsEeprom(f) == f.addr >= 131072
IsPhy(f) == f.addr >= 65536 /\ ~IsEeprom(f)
Direct(f) == f.addr < 65536

Addrs ==
  {\h0200, \h0218, \h0300, \h0301, \h0308, \h030B, \h0400, \h0401, \h0607, \h0608, \h0219, \h021B, \h021D}
    \union {PortSpeedConfig(p).addr : p \in Ports} \union {PortRxBandwidth(p).addr : p \in Ports}
    \union {MIBRxObject(p).addr : p \in Ports}
    \union {PhySpeed(p).addr : p \in Ports} \union {Phy10H(p).addr : p \in Ports}
    \union {Eeprom(b).addr : b \in EepromBytes}

\* What is saved: of these all but the choice of counters and the PHYs.
Kept == Range(gusSwitchCfgRegAddrArray)

ASSUME SettingsAssumption ==
  /\ NumPorts \in 1 .. 15
  /\ gusSwitchCfgRegAddrArray \in Seq({a \in Addrs : a < \h0700 /\ a # EepromWrite.addr})
  /\ \A b \in EepromBytes : b \in 0 .. 2047
  /\ MaxInputs \in Nat
  /\ "loop monitor" \notin Sessions /\ "RCP monitor" \notin Sessions

\* Out of reset ports are on and negotiate; loops are not detected.
Default ==
  [a \in Addrs |-> CASE a \in {PhySpeed(p).addr : p \in Ports} -> \h3100
                     [] a \in {Phy10H(p).addr : p \in Ports} -> \h01E0
                     [] a \in {PortSpeedConfig(p).addr : p \in Ports} -> \hAFAF
                     [] OTHER -> 0]

\* A file of settings: whether it counts, what it holds, and the words the
\* registers held when the save came to them.
NotSeen == 65536
NoSettings == [valid |-> FALSE, data |-> [a \in Kept |-> 0], seen |-> [a \in Kept |-> NotSeen]]

Init ==
  /\ reg = Default
  /\ phyData = [in |-> 0, out |-> 0]
  /\ linked = TRUE /\ uplink = 1 /\ looped = {}
  /\ known = FALSE /\ upLinkPort = 1 /\ previousUplinkPort = 1
  /\ loopStatus = {} /\ loopAndDown = {}
  /\ buf = NoSettings /\ flash = NoSettings /\ torn = FALSE
  /\ todo = [a \in Actors |-> <<>>]
  /\ crossed = {}
  /\ inputs = 0
-----------------------------------------------------------------------------
\* Words and their fields.
FieldOf(word, f) == (word \div 2^f.pos) % 2^f.len

WithField(word, f, v) == word - FieldOf(word, f) * 2^f.pos + (v % 2^f.len) * 2^f.pos

\* The switch answers while the port towards the ONU is on.
Reachable ==
  /\ linked
  /\ FieldOf(reg[PortDisable(uplink).addr], PortDisable(uplink)) = 0
  /\ FieldOf(reg[PhyPowerDown(uplink).addr], PhyPowerDown(uplink)) = 0
-----------------------------------------------------------------------------
\* What there may be to do.  A failed access ends what is done up to the next mark.
Access(op, f, v) == [op |-> op, field |-> f, value |-> v]
Put(f, v, read) == [op |-> "put", field |-> f, value |-> v, read |-> read]
Set(f, v) == Access("set", f, v)
If(f, v, yes, no) == [op |-> "if", field |-> f, value |-> v, yes |-> yes, no |-> no]
Step(op) == [op |-> op]
Next_ == Step("next")

Doing(a, op) == todo[a] # <<>> /\ Head(todo[a]).op = op

\* The list from the first step that `Is`.
From(list, Is(_)) ==
  LET which == {i \in DOMAIN list : Is(list[i])}
  IN  IF which = {} THEN <<>> ELSE SubSeq(list, Min(which), Len(list))

IsMark(step) == step.op = "next"
PastMarks(list) == From(list, LAMBDA step : ~IsMark(step))
AfterMark(list) == PastMarks(From(list, IsMark))

\* An actor goes on, with `more` before the rest.
Goon(a, more) == todo' = [todo EXCEPT ![a] = PastMarks(more \o Tail(@))]

Input == inputs < MaxInputs /\ inputs' = inputs + 1

\* What the access under way of an actor relies on, from its first read or write
\* to its last.
ACCESS_READ == \h0502
ACCESS_WRITE == \h0501

Uses(a) ==
  LET do == Head(todo[a])
  IN  CASE Doing(a, "put") -> {do.field.addr}
        [] Doing(a, "fetch") -> {do.field.addr, ACCESS_READ}
        [] Doing(a, "go") -> IF IsPhy(do.field) THEN {do.field.addr, ACCESS_WRITE} ELSE {EepromWrite.addr}
        [] OTHER -> {}

\* The other actors whose access is crossed by a write of a register.
Crosses(a, addr) == {b \in Actors \ {a} : addr \in Uses(b)}

\* What a reset does to the registers; the EEPROM stays.
FromReset ==
  /\ reg' = [a \in Addrs |-> IF IsEeprom([addr |-> a]) THEN reg[a] ELSE Default[a]]
  /\ crossed' = crossed \union {a \in Actors : Uses(a) # {}}

\* The result of a write is never told.
Arrives == Reachable /\ UNCHANGED inputs
IsLost == Input \/ (~Reachable /\ UNCHANGED inputs)

\* RCP_SetRegisterField reads the register,
SetField(a) ==
  /\ Doing(a, "set") /\ Direct(Head(todo[a]).field)
  /\ Reachable
  /\ LET do == Head(todo[a])
     IN  Goon(a, <<Put(do.field, do.value, reg[do.field.addr])>>)
  /\ crossed' = crossed \ {a}
  /\ UNCHANGED <<reg, phyData, hardVars, devVars, loopVars, fileVars, inputs>>

\* and writes it back with the field changed.
PutField(a) ==
  /\ Doing(a, "put") /\ Direct(Head(todo[a]).field)
  /\ LET do == Head(todo[a])
         addr == do.field.addr
     IN  /\ \/ /\ Arrives
               /\ reg' = [reg EXCEPT ![addr] = WithField(do.read, do.field, do.value)]
               /\ crossed' = (crossed \ {a}) \union Crosses(a, addr)
            \/ IsLost /\ UNCHANGED reg /\ crossed' = crossed \union {a}
  /\ Goon(a, <<>>)
  /\ UNCHANGED <<phyData, hardVars, devVars, loopVars, fileVars>>

\* RCP_SetPhyRegField: the register is fetched into ACCESS_READ,
StartPhy(a) ==
  /\ Doing(a, "get") \/ (Doing(a, "set") /\ IsPhy(Head(todo[a]).field))
  /\ Reachable
  /\ LET do == Head(todo[a])
     IN  /\ \/ /\ Arrives
               /\ phyData' = [phyData EXCEPT !.out = reg[do.field.addr]]
               /\ crossed' = (crossed \ {a}) \union Crosses(a, ACCESS_READ)
            \/ Input /\ UNCHANGED phyData /\ crossed' = crossed \union {a}
         /\ Goon(a, IF do.op = "get" THEN <<>> ELSE <<Access("fetch", do.field, do.value)>>)
  /\ UNCHANGED <<reg, hardVars, devVars, loopVars, fileVars>>

\* Mutant of FetchPhy: the register for writing is read.
FetchPhyWritten(a) ==
  /\ Doing(a, "fetch")
  /\ Reachable
  /\ LET do == Head(todo[a]) IN Goon(a, <<Put(do.field, do.value, phyData.in)>>)
  /\ UNCHANGED <<reg, phyData, hardVars, devVars, loopVars, fileVars, crossed, inputs>>

\* read there,
FetchPhy(a) ==
  /\ Doing(a, "fetch")
  /\ Reachable
  /\ LET do == Head(todo[a]) IN Goon(a, <<Put(do.field, do.value, phyData.out)>>)
  /\ UNCHANGED <<reg, phyData, hardVars, devVars, loopVars, fileVars, crossed, inputs>>

\* put into ACCESS_WRITE with the field changed,
PutPhy(a) ==
  /\ Doing(a, "put") /\ IsPhy(Head(todo[a]).field)
  /\ LET do == Head(todo[a])
     IN  /\ \/ /\ Arrives
               /\ phyData' = [phyData EXCEPT !.in = WithField(do.read, do.field, do.value)]
               /\ crossed' = crossed \union Crosses(a, ACCESS_WRITE)
            \/ IsLost /\ UNCHANGED phyData /\ crossed' = crossed \union {a}
         /\ Goon(a, <<Access("go", do.field, do.value)>>)
  /\ UNCHANGED <<reg, hardVars, devVars, loopVars, fileVars>>

\* and written from there; a byte of the EEPROM from the register for its data.
Latched(f) == IF IsPhy(f) THEN phyData.in ELSE FieldOf(reg[EepromWrite.addr], EepromWrite)

GoPhy(a) ==
  /\ Doing(a, "go")
  /\ Reachable
  /\ LET do == Head(todo[a])
         addr == do.field.addr
     IN  \/ /\ Arrives
            /\ reg' = [reg EXCEPT ![addr] = Latched(do.field)]
            /\ crossed' = (crossed \ {a}) \union Crosses(a, addr)
         \/ Input /\ UNCHANGED <<reg, crossed>>
  /\ Goon(a, <<>>)
  /\ UNCHANGED <<phyData, hardVars, devVars, loopVars, fileVars>>

\* A word of a PHY that is entered needs no reading.
SetPhyWord(p, r, word) ==
  <<Put([PhyField(p, r, 0) EXCEPT !.len = 16], word, 0)>>

\* RCP_SetEepromValue
SetEeprom(b, v) == <<Set(EepromWrite, v), Access("go", Eeprom(b), v)>>

\* A function that gets a setting, and what is done by it.
GetField(a) ==
  /\ Doing(a, "if")
  /\ Reachable
  /\ LET do == Head(todo[a])
     IN  Goon(a, IF FieldOf(reg[do.field.addr], do.field) = do.value THEN do.yes ELSE do.no)
  /\ UNCHANGED <<reg, phyData, hardVars, devVars, loopVars, fileVars, crossed, inputs>>

\* RCP_Write_Reg of a whole word: one that is entered, or one of the saved ones.
PutWord(a) ==
  /\ Doing(a, "word") \/ Doing(a, "restore")
  /\ LET do == Head(todo[a])
         word == IF do.op = "word" THEN do.word ELSE buf.data[do.addr]
     IN  \/ /\ Arrives
            /\ reg' = [reg EXCEPT ![do.addr] = word]
            /\ crossed' = crossed \union Crosses(a, do.addr)
         \/ IsLost /\ UNCHANGED <<reg, crossed>>
  /\ Goon(a, <<>>)
  /\ UNCHANGED <<phyData, hardVars, devVars, loopVars, fileVars>>

\* RCP_SysHWReset
HWReset(a) ==
  /\ Doing(a, "reset")
  /\ Reachable
  /\ \/ Arrives /\ FromReset
     \/ Input /\ UNCHANGED <<reg, crossed>>
  /\ Goon(a, <<>>)
  /\ UNCHANGED <<phyData, hardVars, devVars, loopVars, fileVars>>

\* An access fails: no answer, or no frame out.
Reads == {"set", "fetch", "go", "if", "reset", "loops", "get"}

Fail(a) ==
  /\ todo[a] # <<>>
  /\ \/ Head(todo[a]).op \in Reads \union {"put", "word", "restore"} /\ Input
     \/ Head(todo[a]).op \in Reads /\ ~Reachable /\ UNCHANGED inputs
  /\ todo' = [todo EXCEPT ![a] = AfterMark(@)]
  /\ UNCHANGED <<reg, phyData, hardVars, devVars, loopVars, fileVars, crossed>>
-----------------------------------------------------------------------------
\* The file of settings.
Saving(a) == Doing(a, "save word") \/ Doing(a, "file")

\* Who comes upon another one tears the file.
Tears(a) == torn' = (torn \/ \E b \in Actors \ {a} : Saving(b))

\* saveAllRcpDevCfgToFlash of a switch that is online.
Save(a) ==
  /\ Doing(a, "save")
  /\ Tears(a)
  /\ IF known
     THEN /\ buf' = [NoSettings EXCEPT !.valid = TRUE]
          /\ Goon(a, [i \in DOMAIN gusSwitchCfgRegAddrArray |->
                       [op |-> "save word", addr |-> gusSwitchCfgRegAddrArray[i]]]
                     \o <<Step("file")>>)
     ELSE Goon(a, <<Step("file")>>) /\ UNCHANGED buf
  /\ UNCHANGED <<reg, phyData, hardVars, devVars, loopVars, flash, crossed, inputs>>

SaveWord(a) ==
  /\ Doing(a, "save word")
  /\ Reachable
  /\ LET addr == Head(todo[a]).addr
     IN  buf' = [buf EXCEPT !.data[addr] = reg[addr], !.seen[addr] = reg[addr]]
  /\ Goon(a, <<>>)
  /\ UNCHANGED <<reg, phyData, hardVars, devVars, loopVars, flash, torn, crossed, inputs>>

\* Mutant of SaveWordFails: the settings stay valid.
SaveWordFailsStillValid(a) ==
  /\ Doing(a, "save word")
  /\ Input \/ (~Reachable /\ UNCHANGED inputs)
  /\ Goon(a, <<>>)
  /\ UNCHANGED <<reg, phyData, hardVars, devVars, loopVars, fileVars, crossed>>

\* A register that cannot be read makes all of the settings invalid.
SaveWordFails(a) ==
  /\ Doing(a, "save word")
  /\ Input \/ (~Reachable /\ UNCHANGED inputs)
  /\ buf' = [buf EXCEPT !.valid = FALSE]
  /\ Goon(a, <<>>)
  /\ UNCHANGED <<reg, phyData, hardVars, devVars, loopVars, flash, torn, crossed>>

\* device_conf_write_switch_conf_to_flash
File(a) ==
  /\ Doing(a, "file")
  /\ flash' = buf
  /\ Goon(a, <<>>)
  /\ UNCHANGED <<reg, phyData, hardVars, devVars, loopVars, buf, torn, crossed, inputs>>

\* ereaseRcpDevCfgInFlash writes as many bytes as a variable says that was never set:
\* so many that all is cleared, or a number that is refused three times.
Clear(a) ==
  /\ Doing(a, "clear file")
  /\ Tears(a)
  /\ buf' = NoSettings
  /\ flash' \in {NoSettings, flash}
  /\ Goon(a, <<>>)
  /\ UNCHANGED <<reg, phyData, hardVars, devVars, loopVars, crossed, inputs>>

\* restoreRcpDevCfgFromFlash.  A file that is being saved counts as valid: the
\* device id of this switch, GH1508, is the 0 a save starts with.
Restore ==
  IF buf.valid
  THEN [i \in DOMAIN gusSwitchCfgRegAddrArray |->
          [op |-> "restore", addr |-> gusSwitchCfgRegAddrArray[i]]] \o <<Next_>>
  ELSE <<>>
-----------------------------------------------------------------------------
\* The functions of several fields.
SetPortEnable(p, v) == <<Set(PhyPowerDown(p), v), Set(PortDisable(p), v)>>

SetPortSpeedConfig(p, v) ==
  <<Set(PortSpeedConfig(p), 0), Set(PortAutoNegoEnable(p), 0), Set(PortSpeedConfig(p), v)>>

Forced(p, speed, duplex, able, v) ==
  <<Set(PhyAutoNegoEnable(p), 1), Set(PhyReAutoNego(p), 1), Set(PhyAutoNegoEnable(p), 0),
    Set(PhySpeed(p), speed), Set(PhyDuplex(p), duplex), Set(able, 1)>> \o SetPortSpeedConfig(p, v)

SetPortMode100F(p) == Forced(p, 1, 1, Phy100F(p), 15)
SetPortMode100H(p) == Forced(p, 1, 0, Phy100H(p), 7)
SetPortMode10F(p) == Forced(p, 0, 1, Phy10F(p), 3)
SetPortMode10H(p) == Forced(p, 0, 0, Phy10H(p), 1)

SetPortAutoNegoEnable(p, v) ==
  <<Set(PhyAutoNegoEnable(p), 1), Set(PhyReAutoNego(p), 1),
    Set(PortAutoNegoEnable(p), v), Set(PortSpeedConfig(p), 15)>>
-----------------------------------------------------------------------------
\* The commands, from the list of the ports and the value.  On and off are 1 and 0.
ForPorts(list, Do(_)) == FlattenSeq([i \in DOMAIN list |-> Do(list[i])])

AllPorts == [p \in Ports |-> p]

\* Most refuse a list with the port towards the ONU and stop at the first failure;
\* some go on with the next port.
UserPorts(list, Do(_)) == IF upLinkPort \in Range(list) THEN <<>> ELSE ForPorts(list, Do)
EachPort(list, Do(_)) == ForPorts(list, LAMBDA p : Do(p) \o <<Next_>>)

port_en(c) == UserPorts(c.ports, LAMBDA p : SetPortEnable(p, 1 - c.value))
port_fc(c) == UserPorts(c.ports, LAMBDA p : <<Set(PortPauseFC(p), c.value)>>)

port_mode(c) ==
  UserPorts(c.ports,
            LAMBDA p : CASE c.value = 0 -> SetPortAutoNegoEnable(p, 1)
                         [] c.value = 8 -> SetPortMode100F(p)
                         [] c.value = 9 -> SetPortMode100H(p)
                         [] c.value = 10 -> SetPortMode10F(p)
                         [] c.value = 11 -> SetPortMode10H(p))

ingress_rate(c) == EachPort(c.ports, LAMBDA p : <<Set(PortRxBandwidth(p), c.value)>>)
egress_rate(c) == EachPort(c.ports, LAMBDA p : <<Set(PortTxBandwidth(p), c.value)>>)

\* One port receives copies of the frames of others.  It is set when none is.
port_mirror_to(c) ==
  LET p == Head(c.ports)
      set == <<Set(MirrorPort(p), c.value)>>
      \* if none of the last n ports receives copies
      IfNone[n \in 0 .. NumPorts] ==
        IF n = 0 THEN set ELSE <<If(MirrorPort(NumPorts + 1 - n), 1, <<>>, IfNone[n - 1])>>
  IN  IF p = upLinkPort THEN <<>>
      ELSE IF c.value = 0 THEN set
      ELSE IfNone[NumPorts]

\* The ports whose frames are copied, those received ("i"), those sent ("e") or all.
port_mirror_from(c) ==
  UserPorts(c.ports,
            LAMBDA p : (IF c.value[1] \in {"i", "a"} THEN <<Set(MirrorRxPort(p), c.value[2])>> ELSE <<>>)
                         \o (IF c.value[1] \in {"e", "a"} THEN <<Set(MirrorTxPort(p), c.value[2])>>
                             ELSE <<>>))

\* The counter a port keeps: asking for the one it keeps reads it, for another one changes it.
Counter(object, v) == If(object, v, <<If(object, v, <<>>, <<>>), Next_>>, <<Set(object, v), Next_>>)
stat_rx(c) == ForPorts(c.ports, LAMBDA p : <<Counter(MIBRxObject(p), c.value)>>)
stat_tx(c) == ForPorts(c.ports, LAMBDA p : <<Counter(MIBTxObject(p), c.value)>>)
stat_diag(c) == ForPorts(c.ports, LAMBDA p : <<Counter(MIBDnObject(p), c.value)>>)

vlan_leaky(c) ==
  CASE c.value[1] = "unicast" -> <<Set(VlanUnicastLeaky, c.value[2])>>
    [] c.value[1] = "multicast" -> <<Set(VlanMulticastLeaky, c.value[2])>>
    [] c.value[1] = "arp" -> <<Set(VlanArpLeaky, c.value[2])>>

vlan_ingress_filtering(c) == <<Set(VlanIngressFilter, c.value)>>
vlan_acceptable_frame_types(c) == <<Set(VlanIngressFilter, c.value)>>

\* These bits switch off.
broadcast_storm_filter(c) == <<Set(BroadcastStormFilter, 1 - c.value)>>
atu_learning(c) ==
  ForPorts(IF c.ports = <<>> THEN AllPorts ELSE c.ports, LAMBDA p : <<Set(AtuLearning(p), 1 - c.value)>>)

broadcast_fc(c) == <<Set(BroadcastFC, c.value)>>
multicast_fc(c) == <<Set(MulticastFC, c.value)>>
igmp_snooping(c) == <<Set(IGMPSnooping, c.value)>>
loopback_auto_detect(c) == <<Set(LoopDetect, c.value)>>

qos_dscp(c) ==
  (IF c.value = 1 THEN <<Set(QosMapMode, 0)>> ELSE <<>>) \o <<Set(QosDiffPriority, c.value)>>
qos_user_priority(c) ==
  (IF c.value = 1 THEN <<Set(QosMapMode, 0)>> ELSE <<>>) \o <<Set(QosVlanPriority, c.value)>>
qos_adapted_fc(c) == <<Set(QosAdapterFC, c.value)>>
qos_priority_ratio(c) == <<Set(QosPrioRatio, c.value)>>
qos_port_priority(c) == UserPorts(c.ports, LAMBDA p : <<Set(QosPortPriority(p), c.value)>>)

atu_aging(c) ==
  CASE c.value = "disable" -> <<Set(AtuAgingEnable, 1)>>
    [] c.value = "default" -> <<Set(AtuAgingEnable, 0), Set(AtuFastAgingEnable, 0)>>
    [] c.value = "fastaging" -> <<Set(AtuAgingEnable, 0), Set(AtuFastAgingEnable, 1)>>
atu_filter(c) == <<Set(AtuCtrlFrameFilter, c.value)>>

mgt_reset(c) == <<Step("reset")>>
set_rcpphy(c) == SetPhyWord(c.value[1], c.value[2], c.value[3])
get_rcpphy(c) == <<[op |-> "get", field |-> PhyField(c.value[1], c.value[2], 0)]>>
set_rcpeeprom(c) == SetEeprom(c.value[1], c.value[2])

set_rcpreg(c) == <<[op |-> "word", addr |-> c.value[1], word |-> c.value[2]]>>

\* config-file save|clear
config_file(c) == IF c.value = "save" THEN <<Step("save")>> ELSE <<Step("clear file")>>

Does(c) ==
  CASE c.cmd = "port enable" -> port_en(c)
    [] c.cmd = "port flow_control" -> port_fc(c)
    [] c.cmd = "port mode" -> port_mode(c)
    [] c.cmd = "port ingress_rate" -> ingress_rate(c)
    [] c.cmd = "port egress_rate" -> egress_rate(c)
    [] c.cmd = "mirror to" -> port_mirror_to(c)
    [] c.cmd = "mirror from" -> port_mirror_from(c)
    [] c.cmd = "stat rx" -> stat_rx(c)
    [] c.cmd = "stat tx" -> stat_tx(c)
    [] c.cmd = "stat diag" -> stat_diag(c)
    [] c.cmd = "vlan leaky" -> vlan_leaky(c)
    [] c.cmd = "vlan ingress_filtering" -> vlan_ingress_filtering(c)
    [] c.cmd = "vlan acceptable_frame_types" -> vlan_acceptable_frame_types(c)
    [] c.cmd = "storm filter" -> broadcast_storm_filter(c)
    [] c.cmd = "broadcast flow_control" -> broadcast_fc(c)
    [] c.cmd = "multicast flow_control" -> multicast_fc(c)
    [] c.cmd = "igmp snooping" -> igmp_snooping(c)
    [] c.cmd = "loopback auto_detect" -> loopback_auto_detect(c)
    [] c.cmd = "qos dscp" -> qos_dscp(c)
    [] c.cmd = "qos user_priority" -> qos_user_priority(c)
    [] c.cmd = "qos adapted_flow_control" -> qos_adapted_fc(c)
    [] c.cmd = "qos ratio" -> qos_priority_ratio(c)
    [] c.cmd = "qos port_priority" -> qos_port_priority(c)
    [] c.cmd = "atu learning" -> atu_learning(c)
    [] c.cmd = "atu aging" -> atu_aging(c)
    [] c.cmd = "atu filter" -> atu_filter(c)
    [] c.cmd = "mgt reset" -> mgt_reset(c)
    [] c.cmd = "rcpreg" -> set_rcpreg(c)
    [] c.cmd = "rcpphy" -> set_rcpphy(c)
    [] c.cmd = "get rcpphy" -> get_rcpphy(c)
    [] c.cmd = "rcpeeprom" -> set_rcpeeprom(c)
    [] c.cmd = "config-file" -> config_file(c)

Cmds ==
  {"port enable", "port flow_control", "port mode", "port ingress_rate", "port egress_rate",
   "mirror to", "mirror from", "stat rx", "stat tx", "stat diag", "vlan leaky",
   "vlan ingress_filtering", "vlan acceptable_frame_types", "storm filter",
   "broadcast flow_control", "multicast flow_control", "igmp snooping", "loopback auto_detect",
   "qos dscp", "qos user_priority", "qos adapted_flow_control", "qos ratio", "qos port_priority",
   "atu learning", "atu aging", "atu filter", "mgt reset", "rcpreg", "rcpphy", "get rcpphy",
   "rcpeeprom", "config-file"}

ASSUME CommandsAssumption ==
  \A s \in Sessions : \A c \in Commands[s] :
    /\ c.cmd \in Cmds
    /\ c.ports \in Seq(Ports)
    /\ c.cmd = "port mode" => c.value \in {0, 8, 9, 10, 11}
    /\ c.cmd = "vlan leaky" => c.value[1] \in {"unicast", "multicast", "arp"}
    /\ c.cmd = "atu aging" => c.value \in {"disable", "default", "fastaging"}

\* Commands other than that on the file are for a switch that has been seen.
Enter(s, c) ==
  /\ todo[s] = <<>>
  /\ Input
  /\ known \/ c.cmd = "config-file"
  /\ todo' = [todo EXCEPT ![s] = Does(c)]
  /\ crossed' = crossed \ {s}
  /\ UNCHANGED <<reg, phyData, hardVars, devVars, loopVars, fileVars>>
-----------------------------------------------------------------------------
\* rcp_loopdetect_monitor.  The switch tells the ports that loop while they are on.
Reported ==
  {p \in looped : /\ FieldOf(reg[LoopDetect.addr], LoopDetect) = 1
                  /\ FieldOf(reg[PortDisable(p).addr], PortDisable(p)) = 0}

\* Which port is the one towards the ONU is asked once a round.  A round that
\* finds nothing changes nothing.
LoopRound ==
  /\ known
  /\ todo["loop monitor"] = <<>>
  /\ Reported # {} \/ loopAndDown # {}
  /\ todo' = [todo EXCEPT !["loop monitor"] = <<[op |-> "loops", mgtPort |-> upLinkPort]>>]
  /\ UNCHANGED <<reg, phyData, hardVars, devVars, loopVars, fileVars, crossed, inputs>>

MarkLoop(of, p, on) == [op |-> "mark", of |-> of, port |-> p, on |-> on]

\* A port shut before: has someone turned it on since?
LookAgain(p) ==
  IF p \in loopAndDown
  THEN <<If(PortDisable(p), 0, <<MarkLoop("down", p, FALSE)>>, <<MarkLoop("status", p, FALSE)>>), Next_>>
  ELSE <<>>

\* Mutant of Shut: the PHY is powered down and the port is left on.
ShutPhy(p) ==
  <<MarkLoop("status", p, TRUE), Set(PhyPowerDown(p), 1), MarkLoop("down", p, TRUE), Next_>>

Shut(p) ==
  <<MarkLoop("status", p, TRUE)>> \o SetPortEnable(p, 1) \o <<MarkLoop("down", p, TRUE), Next_>>

LookAtLoops(a) ==
  /\ Doing(a, "loops")
  /\ Reachable
  /\ LET mgtPort == Head(todo[a]).mgtPort
     IN  Goon(a, ForPorts(AllPorts,
                          LAMBDA p : LookAgain(p)
                                       \o (IF p \in Reported \ {mgtPort} THEN Shut(p) ELSE <<>>)))
  /\ UNCHANGED <<reg, phyData, hardVars, devVars, loopVars, fileVars, crossed, inputs>>

PutMark(a) ==
  /\ Doing(a, "mark")
  /\ LET do == Head(todo[a])
         Marked(set) == IF do.on THEN set \union {do.port} ELSE set \ {do.port}
     IN  \/ do.of = "status" /\ loopStatus' = Marked(loopStatus) /\ UNCHANGED loopAndDown
         \/ do.of = "down" /\ loopAndDown' = Marked(loopAndDown) /\ UNCHANGED loopStatus
  /\ Goon(a, <<>>)
  /\ UNCHANGED <<reg, phyData, hardVars, devVars, fileVars, crossed, inputs>>

\* rcp_dev_status_check: the port towards the ONU is not copied and goes first.
UplinkMoved(current, previous) ==
  <<Set(MirrorRxPort(current), 0), Next_, Set(MirrorTxPort(current), 0), Next_,
    Set(QosPortPriority(current), 1), Next_, Set(QosPortPriority(previous), 0), Next_,
    [op |-> "uplink", port |-> current]>>

\* The answer to a hello of the RCP monitor.
Hello ==
  /\ Reachable
  /\ todo["RCP monitor"] = <<>>
  /\ ~known \/ previousUplinkPort # uplink
  /\ known' = TRUE
  /\ upLinkPort' = uplink
  /\ todo' = [todo EXCEPT !["RCP monitor"] =
                (IF known THEN <<>> ELSE Restore) \o UplinkMoved(uplink, previousUplinkPort)]
  /\ UNCHANGED <<reg, phyData, hardVars, previousUplinkPort, loopVars, fileVars, crossed, inputs>>

PutUplink(a) ==
  /\ Doing(a, "uplink")
  /\ previousUplinkPort' = Head(todo[a]).port
  /\ Goon(a, <<>>)
  /\ UNCHANGED <<reg, phyData, hardVars, known, upLinkPort, loopVars, fileVars, crossed, inputs>>

\* No answer for long enough.
GoesOffline ==
  /\ ~Reachable /\ known
  /\ todo["RCP monitor"] = <<>>
  /\ known' = FALSE
  /\ UNCHANGED <<reg, phyData, hardVars, upLinkPort, previousUplinkPort, loopVars, fileVars, todo,
                 crossed, inputs>>
-----------------------------------------------------------------------------
\* What happens outside.
Unplug ==
  /\ Input
  /\ linked /\ linked' = FALSE
  /\ UNCHANGED <<reg, phyData, uplink, looped, devVars, loopVars, fileVars, todo, crossed>>

\* The switch may have lost its power meanwhile.
PlugIn ==
  /\ ~linked /\ linked' = TRUE
  /\ uplink' \in Ports \ looped
  /\ \/ FromReset
     \/ UNCHANGED <<reg, crossed>>
  /\ UNCHANGED <<phyData, looped, devVars, loopVars, fileVars, todo, inputs>>

LoopComesOrGoes ==
  /\ Input
  /\ \E p \in Ports \ {uplink} :
        looped' = IF p \in looped THEN looped \ {p} ELSE looped \union {p}
  /\ UNCHANGED <<reg, phyData, linked, uplink, devVars, loopVars, fileVars, todo, crossed>>

\* RCP_Init reads the file; who was at work is gone.
Restart ==
  /\ Input
  /\ known' = FALSE /\ upLinkPort' = 1 /\ previousUplinkPort' = 1
  /\ loopStatus' = {} /\ loopAndDown' = {}
  /\ buf' = flash
  /\ todo' = [a \in Actors |-> <<>>]
  /\ crossed' = {}
  /\ UNCHANGED <<reg, phyData, hardVars, flash, torn>>
-----------------------------------------------------------------------------
Work(a) ==
  /\ todo[a] # <<>>
  /\ \/ SetField(a) \/ PutField(a) \/ StartPhy(a) \/ FetchPhy(a) \/ PutPhy(a) \/ GoPhy(a)
     \/ GetField(a) \/ PutWord(a) \/ HWReset(a) \/ Fail(a)
     \/ Save(a) \/ SaveWord(a) \/ SaveWordFails(a) \/ File(a) \/ Clear(a)
     \/ LookAtLoops(a) \/ PutMark(a) \/ PutUplink(a)

Next ==
  \/ \E a \in Actors : Work(a)
  \/ \E s \in Sessions : \E c \in Commands[s] : Enter(s, c)
  \/ LoopRound \/ Hello \/ GoesOffline
  \/ Unplug \/ PlugIn \/ LoopComesOrGoes \/ Restart

\* The threads of the monitors run, and start over again and again.
Fairness ==
  /\ WF_vars(Work("loop monitor") \/ LoopRound)
  /\ WF_vars(Work("RCP monitor") \/ Hello)

Spec == Init /\ [][Next]_vars /\ Fairness
-----------------------------------------------------------------------------
\* A setting is changed by reading its register and writing it back, that of a PHY
\* or of the EEPROM through registers all share, step by step and without a lock
\* (RCP_SetRegisterField, RCP_SetPhyRegValue, RCP_SetEepromValue).  Still the last
\* step changes this setting and leaves all others as they are at that moment,
\* unless another actor came in between with a write of what the access uses, or
\* a write of its own was lost.
SettingsKept ==
  [][\A a \in Actors : (todo[a] # <<>> /\ todo'[a] # todo[a]) =>
       LET do == Head(todo[a])
           last == do.op = "go" \/ (do.op = "put" /\ Direct(do.field))
       IN  (last /\ a \notin crossed /\ reg' # reg) =>
             reg' = [reg EXCEPT ![do.field.addr] = WithField(@, do.field, do.value)]]_vars

\* Settings that count as valid are what the registers held when the save came
\* to them, all of them, however accesses failed, sessions saved in turn and
\* the ONU restarted in the middle; only two saves at a time tear the file.
SavedIsTrue ==
  ~torn =>
    \A f \in {flash} \union (IF \E a \in Actors : Saving(a) THEN {} ELSE {buf}) :
      f.valid => f.data = f.seen

\* Loops at the ports of a switch that detects loops are cut by the loop
\* monitor, whatever it, sessions and a restart do to the ports meanwhile.
Loops == Reachable /\ Reported \ {uplink} # {}
LoopsAreCut == Loops ~> ~Loops

=============================================================================
