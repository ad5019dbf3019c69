------------------------------ MODULE RcpVlan ------------------------------
(***************************************************************************)
(* The 802.1Q VLAN table of a switch: the commands of apps/rcp_switch_cli.c*)
(* that change it, on the functions of apps/rcp_gwd.c they call, and the   *)
(* RCP monitor, which refreshes the copy of the table that RCP_DEV keeps.  *)
(*                                                                         *)
(* The switch has MAX_RCP_VLAN_NUM entries, each a VID and a set of member *)
(* ports; VID 0 marks a free entry, entry 0 is the default VLAN.  Each     *)
(* port has an index of the entry whose VID it gives to untagged frames    *)
(* and two settings of how it tags.  Commands decide by the copy, vlanVid  *)
(* and vlanPort, which no lock protects.                                   *)
(*                                                                         *)
(* A command runs as the list of register accesses it has still to make,   *)
(* one step each, so that other sessions and the monitor come between any  *)
(* two.  An access may fail, and the command returns there with what it    *)
(* has done so far; a write may be lost on the way to the switch without   *)
(* an error, for nothing confirms it.  The switch has at most 16 ports, so *)
(* that the members of an entry are one register.                          *)
(***************************************************************************)
EXTENDS Naturals, Sequences, FiniteSets, FiniteSetsExt, SequencesExt

CONSTANTS
  Sessions,      \* CLI sessions
  NumPorts,      \* numOfPorts
  MgtPort,       \* the port towards the ONU, which Rcp_Get_MGT_Port finds
  MAX_RCP_VLAN_NUM,
  Vids,          \* the VIDs commands name
  PortLists,     \* the port lists they name
  MaxCommands,   \* bound: the commands given
  MaxFaults      \* bound: the accesses that fail and the writes that are lost

Ports == 1 .. NumPorts
Nums == 0 .. MAX_RCP_VLAN_NUM - 1

ASSUME VlanAssumption ==
  /\ NumPorts \in 1 .. 16 /\ MgtPort \in Ports
  /\ MAX_RCP_VLAN_NUM \in Nat /\ MAX_RCP_VLAN_NUM >= NumPorts
  /\ Vids \subseteq 2 .. 4094
  /\ PortLists \subseteq Seq(Ports)
  /\ {MaxCommands, MaxFaults} \subseteq Nat

\* Every VID an entry may have: isolation of ports makes its own.
AllVids == Vids \union 0 .. NumPorts

VARIABLES
  vid, member,        \* registers of the switch: the entries of the table,
  pvid, insert, tag,  \*   the index, PVID insertion and output tag of a port
  dot1q,              \*   and the 802.1Q aware bit
  vlanVid, vlanPort,  \* the copy in RCP_DEV
  vlanPortIsolate,    \* set in RCP_DEV while ports are isolated
  todo,               \* what each session has still to do, in order
  scan,               \* the monitor's refresh: the entry, what of it, the value read
  overtaken,          \* history: a command changed what the refresh had read
  commands, errors, lost

regVars == <<vid, member, pvid, insert, tag, dot1q>>
devVars == <<vlanVid, vlanPort, vlanPortIsolate>>
countVars == <<commands, errors, lost>>
vars == <<regVars, devVars, todo, scan, overtaken, countVars>>

None == [of |-> "none"]

Init ==
  /\ vid = [n \in Nums |-> IF n = 0 THEN 1 ELSE 0]
  /\ member = [n \in Nums |-> IF n = 0 THEN Ports ELSE {}]
  /\ pvid = [p \in Ports |-> 0]
  /\ insert = [p \in Ports |-> FALSE]
  /\ dot1q \in BOOLEAN
  /\ tag = [p \in Ports |-> IF dot1q THEN 0 ELSE 3]
  /\ vlanVid = [n \in Nums |-> 0]
  /\ vlanPort = [n \in Nums |-> {}]
  /\ vlanPortIsolate = FALSE
  /\ todo = [s \in Sessions |-> <<>>]
  /\ scan = [n |-> 0, of |-> "vid", read |-> None]
  /\ overtaken = FALSE
  /\ commands = 0 /\ errors = 0 /\ lost = 0
-----------------------------------------------------------------------------
\* Searches of the copy.
VlanExist(v) == \E n \in Nums : vlanVid[n] = v

VlanNumFromVID(v) == IF VlanExist(v) THEN Min({n \in Nums : vlanVid[n] = v}) ELSE 0

\* No idle entry is told by 0.
VlanIdleNum ==
  LET idle == {n \in Nums \ {0} : vlanVid[n] = 0}
  IN  IF idle = {} THEN 0 ELSE Min(idle)

\* What a command may have to do.
VID(n, v) == [op |-> "vid", num |-> n, vid |-> v]
Members(n, ports) == [op |-> "members", num |-> n, ports |-> ports]
AddPort(p, n) == [op |-> "add", port |-> p, num |-> n]
DeletePort(p, n) == [op |-> "delete", port |-> p, num |-> n]
PVID(p, v) == [op |-> "pvid", port |-> p, vid |-> v]
Insert(p, on) == [op |-> "insert", port |-> p, on |-> on]
InsertNone == [op |-> "put_insert", of |-> [p \in Ports |-> FALSE]]
OutTag(p, t) == [op |-> "tag", port |-> p, tag |-> t]
Aware(on) == [op |-> "dot1q", on |-> on]
Isolated(on) == [op |-> "isolated", on |-> on]
Eeprom == [op |-> "eeprom"]

\* One turn of a loop.
Turn(does) == [op |-> "turn", does |-> does]

\* A session goes on, with `more` before the rest.
Goon(s, more) == todo' = [todo EXCEPT ![s] = more \o Tail(@)]

Doing(s, op) == todo[s] # <<>> /\ Head(todo[s]).op = op

\* A write that reaches the switch, or one that does not.
Written(register, value) ==
  \/ register' = value /\ UNCHANGED lost
  \/ errors + lost < MaxFaults /\ lost' = lost + 1 /\ UNCHANGED register

\* The commands' stores to the copy, which the refresh may be about to undo.
Overtake(n, what) ==
  overtaken' = (overtaken \/ (scan.read # None /\ scan.n = n /\ scan.of = what))
-----------------------------------------------------------------------------
\* RCP_SetVlanVID and RCP_SetVlanPort: the register, then the copy.
SetVlanVID(s) ==
  /\ Doing(s, "vid")
  /\ LET do == Head(todo[s])
     IN  /\ Written(vid, [vid EXCEPT ![do.num] = do.vid])
         /\ Goon(s, <<[do EXCEPT !.op = "store_vid"]>>)
  /\ UNCHANGED <<member, pvid, insert, tag, dot1q, devVars, scan, overtaken, commands, errors>>

StoreVlanVID(s) ==
  /\ Doing(s, "store_vid")
  /\ LET do == Head(todo[s])
     IN  /\ vlanVid' = [vlanVid EXCEPT ![do.num] = do.vid]
         /\ Overtake(do.num, "vid")
  /\ Goon(s, <<>>)
  /\ UNCHANGED <<regVars, vlanPort, vlanPortIsolate, scan, countVars>>

SetVlanPort(s) ==
  /\ Doing(s, "members")
  /\ LET do == Head(todo[s])
     IN  /\ Written(member, [member EXCEPT ![do.num] = do.ports])
         /\ Goon(s, <<[do EXCEPT !.op = "store_members"]>>)
  /\ UNCHANGED <<vid, pvid, insert, tag, dot1q, devVars, scan, overtaken, commands, errors>>

StoreVlanPort(s) ==
  /\ Doing(s, "store_members")
  /\ LET do == Head(todo[s])
     IN  /\ vlanPort' = [vlanPort EXCEPT ![do.num] = do.ports]
         /\ Overtake(do.num, "members")
  /\ Goon(s, <<>>)
  /\ UNCHANGED <<regVars, vlanVid, vlanPortIsolate, scan, countVars>>

\* RCP_SetVlanPortAdd and RCP_SetVlanPortDelete read the members and then write them.
SetVlanPortAdd(s) ==
  /\ Doing(s, "add")
  /\ LET do == Head(todo[s]) IN Goon(s, <<Members(do.num, member[do.num] \union {do.port})>>)
  /\ UNCHANGED <<regVars, devVars, scan, overtaken, countVars>>

SetVlanPortDelete(s) ==
  /\ Doing(s, "delete")
  /\ LET do == Head(todo[s]) IN Goon(s, <<Members(do.num, member[do.num] \ {do.port})>>)
  /\ UNCHANGED <<regVars, devVars, scan, overtaken, countVars>>

\* Settings of ports are fields of registers: one holds the indices of two ports,
\* the tags of eight, or whether the PVID is inserted for all of them.
\* RCP_SetRegisterField reads the register and writes it with the field changed.
Together(p, k) == {q \in Ports : (q - 1) \div k = (p - 1) \div k}

FieldsPut(of, register) == [q \in Ports |-> IF q \in DOMAIN of THEN of[q] ELSE register[q]]

SetVlanPVID(s) ==
  /\ Doing(s, "pvid")
  /\ LET do == Head(todo[s])
     IN  Goon(s, <<[op |-> "put_pvid",
                    of |-> [q \in Together(do.port, 2) |->
                              IF q = do.port THEN VlanNumFromVID(do.vid) ELSE pvid[q]]]>>)
  /\ UNCHANGED <<regVars, devVars, scan, overtaken, countVars>>

PutPVID(s) ==
  /\ Doing(s, "put_pvid")
  /\ Written(pvid, FieldsPut(Head(todo[s]).of, pvid))
  /\ Goon(s, <<>>)
  /\ UNCHANGED <<vid, member, insert, tag, dot1q, devVars, scan, overtaken, commands, errors>>

SetVlanInsertPVID(s) ==
  /\ Doing(s, "insert")
  /\ LET do == Head(todo[s])
     IN  Goon(s, <<[op |-> "put_insert", of |-> [insert EXCEPT ![do.port] = do.on]]>>)
  /\ UNCHANGED <<regVars, devVars, scan, overtaken, countVars>>

PutInsert(s) ==
  /\ Doing(s, "put_insert")
  /\ Written(insert, Head(todo[s]).of)
  /\ Goon(s, <<>>)
  /\ UNCHANGED <<vid, member, pvid, tag, dot1q, devVars, scan, overtaken, commands, errors>>

SetVlanOutPortTag(s) ==
  /\ Doing(s, "tag")
  /\ LET do == Head(todo[s])
     IN  Goon(s, <<[op |-> "put_tag",
                    of |-> [q \in Together(do.port, 8) |->
                              IF q = do.port THEN do.tag ELSE tag[q]]]>>)
  /\ UNCHANGED <<regVars, devVars, scan, overtaken, countVars>>

PutTag(s) ==
  /\ Doing(s, "put_tag")
  /\ Written(tag, FieldsPut(Head(todo[s]).of, tag))
  /\ Goon(s, <<>>)
  /\ UNCHANGED <<vid, member, pvid, insert, dot1q, devVars, scan, overtaken, commands, errors>>

SetVlan8021Q(s) ==
  /\ Doing(s, "dot1q")
  /\ Written(dot1q, Head(todo[s]).on)
  /\ Goon(s, <<>>)
  /\ UNCHANGED <<vid, member, pvid, insert, tag, devVars, scan, overtaken, commands, errors>>

SetVlanPortIsolate(s) ==
  /\ Doing(s, "isolated")
  /\ vlanPortIsolate' = Head(todo[s]).on
  /\ Goon(s, <<>>)
  /\ UNCHANGED <<regVars, vlanVid, vlanPort, scan, overtaken, countVars>>

\* The settings the switch starts with are not modelled.
SetEepromValue(s) ==
  /\ Doing(s, "eeprom")
  /\ Goon(s, <<>>)
  /\ UNCHANGED <<regVars, devVars, scan, overtaken, countVars>>

\* An access fails, and so does the command.
Fail(s) ==
  /\ todo[s] # <<>>
  /\ Head(todo[s]).op \notin {"store_vid", "store_members", "join", "part", "quit", "isolated", "turn"}
  /\ errors + lost < MaxFaults
  /\ errors' = errors + 1
  /\ todo' = [todo EXCEPT ![s] = <<>>]
  /\ UNCHANGED <<regVars, devVars, scan, overtaken, commands, lost>>
-----------------------------------------------------------------------------
\* Steps of a command between accesses.

\* A loop goes on.
TakeTurn(s) ==
  /\ Doing(s, "turn")
  /\ Goon(s, Head(todo[s]).does)
  /\ UNCHANGED <<regVars, devVars, scan, overtaken, countVars>>

\* cli_int_vlan_dotlq_port_add, one port of the list.  An untagged member
\* leaves all other entries, one after the other.
Join(s) ==
  /\ Doing(s, "join")
  /\ LET do == Head(todo[s])
         p == do.port
         n == VlanNumFromVID(do.vid)
     IN  Goon(s, IF do.tagged
                 THEN <<Insert(p, TRUE), AddPort(p, n), OutTag(p, 3)>>
                 ELSE (IF p = MgtPort THEN <<>> ELSE <<Insert(p, FALSE), PVID(p, do.vid)>>)
                        \o <<AddPort(p, n), [op |-> "quit", port |-> p, num |-> n, from |-> 0],
                             OutTag(p, 0)>>)
  /\ UNCHANGED <<regVars, devVars, scan, overtaken, countVars>>

\* Mutant of Quit: the entry just joined is left as well.
QuitAll(s) ==
  /\ Doing(s, "quit")
  /\ LET do == Head(todo[s])
         others == {n \in Nums : n >= do.from /\ do.port \in vlanPort[n]}
     IN  Goon(s, IF others = {} THEN <<>>
                 ELSE <<DeletePort(do.port, Min(others)), [do EXCEPT !.from = Min(others) + 1]>>)
  /\ UNCHANGED <<regVars, devVars, scan, overtaken, countVars>>

Quit(s) ==
  /\ Doing(s, "quit")
  /\ LET do == Head(todo[s])
         others == {n \in Nums : n >= do.from /\ n # do.num /\ do.port \in vlanPort[n]}
     IN  Goon(s, IF others = {} THEN <<>>
                 ELSE <<DeletePort(do.port, Min(others)), [do EXCEPT !.from = Min(others) + 1]>>)
  /\ UNCHANGED <<regVars, devVars, scan, overtaken, countVars>>

\* cli_int_vlan_dotlq_del (whole) and cli_int_vlan_dotlq_port_del, one port.
\* The latter ends with the first port that is not a member.
Part(s) ==
  /\ Doing(s, "part")
  /\ LET do == Head(todo[s])
         leave == [do EXCEPT !.op = "leave"]
     IN  IF do.port \in vlanPort[do.num]
         THEN Goon(s, IF do.whole THEN <<leave>> ELSE <<leave, DeletePort(do.port, do.num)>>)
         ELSE IF do.whole THEN Goon(s, <<>>) ELSE todo' = [todo EXCEPT ![s] = <<>>]
  /\ UNCHANGED <<regVars, devVars, scan, overtaken, countVars>>

\* Mutant of Leave: the index is not set back.
LeaveKeepsPVID(s) ==
  /\ Doing(s, "leave")
  /\ LET do == Head(todo[s])
         p == do.port
     IN  Goon(s, IF tag[p] = 0
                 THEN (IF do.whole THEN <<>> ELSE <<OutTag(p, 0)>>) \o <<AddPort(p, 0)>>
                 ELSE <<[op |-> "leave_tagged", port |-> p, vid |-> do.vid,
                         in |-> Cardinality({n \in Nums : p \in vlanPort[n]})]>>)
  /\ UNCHANGED <<regVars, devVars, scan, overtaken, countVars>>

\* A port whose tags are removed goes back to the default VLAN at once; of any
\* other one the entries it is in are counted first.
Leave(s) ==
  /\ Doing(s, "leave")
  /\ LET do == Head(todo[s])
         p == do.port
     IN  Goon(s, IF tag[p] = 0
                 THEN <<PVID(p, 1)>> \o (IF do.whole THEN <<>> ELSE <<OutTag(p, 0)>>)
                        \o <<AddPort(p, 0)>>
                 ELSE <<[op |-> "leave_tagged", port |-> p, vid |-> do.vid,
                         in |-> Cardinality({n \in Nums : p \in vlanPort[n]})]>>)
  /\ UNCHANGED <<regVars, devVars, scan, overtaken, countVars>>

\* It goes back when this was its last VLAN, or its last but the default one.
\* For port 1 this is decided in another way.
LeaveTagged(s) ==
  /\ Doing(s, "leave_tagged")
  /\ LET do == Head(todo[s])
         p == do.port
         own == vid[pvid[p]]
         back == <<Insert(p, FALSE), OutTag(p, 0), AddPort(p, 0)>>
         last == do.in = 1 \/ (do.in = 2 /\ own = 1)
     IN  Goon(s, (IF ~last THEN <<>>
                  ELSE IF p # 1 THEN <<PVID(p, 1)>> \o back
                  ELSE IF do.in = 2 /\ p \in vlanPort[0] THEN <<Insert(p, FALSE), OutTag(p, 0)>>
                  ELSE IF do.in = 1 /\ p \notin vlanPort[0] THEN back
                  ELSE <<>>)
                 \o (IF own = do.vid THEN <<PVID(p, 1)>> ELSE <<>>))
  /\ UNCHANGED <<regVars, devVars, scan, overtaken, countVars>>
-----------------------------------------------------------------------------
\* The commands.

Command(s, does) ==
  /\ todo[s] = <<>>
  /\ commands < MaxCommands
  /\ commands' = commands + 1
  /\ todo' = [todo EXCEPT ![s] = does]
  /\ UNCHANGED <<regVars, devVars, scan, overtaken, errors, lost>>

\* The commands on VLANs work while 802.1Q is on and ports are not isolated.
Allowed == dot1q /\ ~vlanPortIsolate

Dot1qAdd(s, v) ==
  /\ Allowed /\ ~VlanExist(v)
  /\ Command(s, <<VID(VlanIdleNum, v)>>)

Dot1qPortAdd(s, v, list, tagged) ==
  /\ Allowed /\ VlanExist(v)
  /\ Command(s, [i \in DOMAIN list |-> [op |-> "join", port |-> list[i], vid |-> v, tagged |-> tagged]])

Parts(v, whole, list) ==
  [i \in DOMAIN list |->
     [op |-> "part", port |-> list[i], vid |-> v, num |-> VlanNumFromVID(v), whole |-> whole]]

Dot1qDel(s, v) ==
  /\ Allowed /\ VlanExist(v)
  /\ LET n == VlanNumFromVID(v)
     IN  Command(s, Parts(v, TRUE, [p \in Ports |-> p]) \o <<Members(n, {}), VID(n, 0)>>)

Dot1qPortDel(s, v, list) ==
  /\ Allowed /\ VlanExist(v)
  /\ Command(s, Parts(v, FALSE, list))

Default == <<VID(0, 1), Members(0, Ports)>>

\* Entries 1 to `last`, one after the other, are given back.
Clear(last) == [n \in 1 .. last |-> Turn(<<VID(n, 0), Members(n, {})>>)]

SetVlan8021QEnable(on) ==
  IF on THEN [p \in Ports |-> OutTag(p, 0)] \o <<Aware(TRUE)>>
  ELSE Default \o Clear(MAX_RCP_VLAN_NUM - 1)
         \o [p \in Ports |-> Turn(<<PVID(p, 1), OutTag(p, 3)>>)]
         \o <<InsertNone, Eeprom, Isolated(FALSE), Aware(FALSE)>>

Dot1q(s, on) == on # dot1q /\ Command(s, SetVlan8021QEnable(on))

\* RCP_SetVlanMgtPortIsolate: an entry for each port with the management port.
EntryOf(p) == IF p < MgtPort THEN p ELSE p - 1

OwnEntry(p) ==
  IF p = MgtPort THEN <<OutTag(p, 0)>>
  ELSE <<OutTag(p, 0), Members(EntryOf(p), {MgtPort, p}), VID(EntryOf(p), EntryOf(p) + 1),
         PVID(p, EntryOf(p) + 1)>>

Unused == [n \in 1 .. MAX_RCP_VLAN_NUM - NumPorts |->
             Turn(<<Members(NumPorts + n - 1, {}), VID(NumPorts + n - 1, 0)>>)]

SetVlanPortIsolateEn(on) ==
  IF on THEN Default \o [p \in Ports |-> Turn(OwnEntry(p))] \o Unused
               \o <<PVID(MgtPort, 1), InsertNone, Isolated(TRUE)>>
  ELSE Default \o [p \in Ports |-> Turn(<<Insert(p, FALSE), PVID(p, 1)>>)] \o Clear(NumPorts - 1)
         \o <<Isolated(FALSE)>>

PortIsolate(s, on) == dot1q /\ on # vlanPortIsolate /\ Command(s, SetVlanPortIsolateEn(on))
-----------------------------------------------------------------------------
\* Mutant of NextScan: the last entry is left out.
NextScanShort ==
  scan' = IF scan.of = "vid" THEN [n |-> scan.n, of |-> "members", read |-> None]
          ELSE [n |-> (scan.n + 1) % (MAX_RCP_VLAN_NUM - 1), of |-> "vid", read |-> None]

\* rcp_dev_monitor reads the VID and the members of each entry into the copy,
\* entry by entry, again and again.  What cannot be read stays as it is.
NextScan ==
  scan' = IF scan.of = "vid" THEN [n |-> scan.n, of |-> "members", read |-> None]
          ELSE [n |-> (scan.n + 1) % MAX_RCP_VLAN_NUM, of |-> "vid", read |-> None]

ScanRead ==
  /\ scan.read = None
  /\ scan' = [scan EXCEPT !.read = IF scan.of = "vid" THEN [of |-> "vid", value |-> vid[scan.n]]
                                   ELSE [of |-> "members", value |-> member[scan.n]]]
  /\ UNCHANGED <<regVars, devVars, todo, overtaken, countVars>>

ScanStore ==
  /\ scan.read # None
  /\ IF scan.of = "vid"
     THEN vlanVid' = [vlanVid EXCEPT ![scan.n] = scan.read.value] /\ UNCHANGED vlanPort
     ELSE vlanPort' = [vlanPort EXCEPT ![scan.n] = scan.read.value] /\ UNCHANGED vlanVid
  /\ NextScan
  /\ UNCHANGED <<regVars, vlanPortIsolate, todo, overtaken, countVars>>

ScanFail ==
  /\ scan.read = None
  /\ errors + lost < MaxFaults
  /\ errors' = errors + 1
  /\ NextScan
  /\ UNCHANGED <<regVars, devVars, todo, overtaken, commands, lost>>
-----------------------------------------------------------------------------
Refresh == ScanRead \/ ScanStore \/ ScanFail

Access(s) ==
  \/ SetVlanVID(s) \/ StoreVlanVID(s) \/ SetVlanPort(s) \/ StoreVlanPort(s)
  \/ SetVlanPortAdd(s) \/ SetVlanPortDelete(s) \/ SetVlanPVID(s) \/ PutPVID(s)
  \/ SetVlanInsertPVID(s) \/ PutInsert(s) \/ SetVlanOutPortTag(s) \/ PutTag(s)
  \/ SetVlan8021Q(s) \/ SetVlanPortIsolate(s) \/ SetEepromValue(s)

Session(s) ==
  \/ Access(s) \/ Fail(s) \/ TakeTurn(s)
  \/ Join(s) \/ Quit(s) \/ Part(s) \/ Leave(s) \/ LeaveTagged(s)

Give(s) ==
  \/ \E on \in BOOLEAN : Dot1q(s, on) \/ PortIsolate(s, on)
  \/ \E v \in Vids :
       \/ Dot1qAdd(s, v) \/ Dot1qDel(s, v)
       \/ \E list \in PortLists :
            Dot1qPortDel(s, v, list) \/ \E tagged \in BOOLEAN : Dot1qPortAdd(s, v, list, tagged)

Next == Refresh \/ \E s \in Sessions : Session(s) \/ Give(s)

SafeSpec == Init /\ [][Next]_vars

\* The monitor and the sessions run.
Spec == SafeSpec /\ WF_vars(Refresh) /\ \A s \in Sessions : WF_vars(Session(s))
-----------------------------------------------------------------------------
\* Every variable holds values of its kind; no access names an entry or a port
\* that is not there (the commands of apps/rcp_switch_cli.c).
TypeOK ==
  /\ vid \in [Nums -> AllVids] /\ vlanVid \in [Nums -> AllVids]
  /\ member \in [Nums -> SUBSET Ports] /\ vlanPort \in [Nums -> SUBSET Ports]
  /\ pvid \in [Ports -> Nums] /\ insert \in [Ports -> BOOLEAN] /\ tag \in [Ports -> {0, 3}]
  /\ {dot1q, vlanPortIsolate, overtaken} \subseteq BOOLEAN
  /\ \A s \in Sessions : \A i \in DOMAIN todo[s] :
       LET do == todo[s][i] IN /\ "port" \in DOMAIN do => do.port \in Ports
                               /\ "num" \in DOMAIN do => do.num \in Nums
  /\ scan.n \in Nums /\ scan.of \in {"vid", "members"}
  /\ commands \in 0 .. MaxCommands /\ {errors, lost} \subseteq 0 .. MaxFaults

\* At every moment, in the middle of a command and after one that failed half-way
\* too, every port is a member of a VLAN in the switch: a port joins one before it
\* leaves another ("set the untagged port back to default vlan",
\* cli_int_vlan_dotlq_port_del).  It holds of one session that adds no VLAN to a full
\* table, and up to the second failure: nothing undoes a write that was lost, or one
\* the refresh of the copy overtook, and a command that failed may leave an entry
\* members and no VID, which after a second failure may be all a port is in.
PortsKeepVlan ==
  lost = 0 /\ ~overtaken /\ errors =< 1 => \A p \in Ports : \E n \in Nums : vid[n] # 0 /\ p \in member[n]

\* When the commands are done the untagged frames of a port get the VID of a VLAN
\* the port is in, or of the default VLAN: no entry that was given back is still
\* named (cli_int_vlan_dotlq_del, cli_int_vlan_dotlq_port_del, RCP_SetVlanPVID).
PvidIsMember ==
  (\A s \in Sessions : todo[s] = <<>>) /\ lost = 0 /\ ~overtaken /\ errors = 0
    => \A p \in Ports : pvid[p] = 0 \/ (vid[pvid[p]] # 0 /\ p \in member[pvid[p]])

\* In the end the copy is what the switch has, whatever was lost, failed or was
\* overtaken before (rcp_dev_monitor).
CacheCatchesUp == <>[](vlanVid = vid /\ vlanPort = member)
=============================================================================
