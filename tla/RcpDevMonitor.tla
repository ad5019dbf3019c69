---------------------------- MODULE RcpDevMonitor ----------------------------
(***************************************************************************)
(* The switches at the user ports of the ONU (apps/rcp_switch_cli.c and    *)
(* apps/rcp_gwd.c).  The monitor thread says hello to every switch it      *)
(* knows, counts the hellos of a switch without an answer, tells from that *)
(* which are online, and pushes an alarm when one registers, goes offline  *)
(* or comes back (rcp_dev_monitor, rcp_dev_status_check).  The alarms go   *)
(* to the OLT at the end of a check, when the ONU is registered.  The RCP  *)
(* thread writes what a switch answers into the same entries               *)
(* (RCP_DevList_Update); the monitor takes no semaphore for them.          *)
(*                                                                         *)
(* A hello reaches the switch at once or is lost; its answer waits in the  *)
(* queue of the RCP thread, of which the model keeps one answer for each   *)
(* port.  A hello to a known switch carries the switch's MAC, and no other *)
(* switch answers it.  Ports with a switch are up.  Alarms are masked all  *)
(* or none.  Left out: the VLAN and uplink settings written to the switch  *)
(* after it registers, which change no state here, sending turned off by   *)
(* g_onu_tx_policy, and the command that lets only switches of one vendor  *)
(* in.                                                                     *)
(***************************************************************************)
EXTENDS Naturals, Sequences, FiniteSets

CONSTANTS
  NumPorts,       \* ports are 1 .. NumPorts, MAX_RRCP_SWITCH_TO_MANAGE - 1
  Macs,           \* MACs of switches
  NoMac,          \* the null MAC
  Null,           \* an entry of rcpDevList not yet made
  KeepAlive,      \* RCP_KEEP_ALIVE_TIMEOUT_DEF
  Discovery,      \* RCP_DISCOVERY_PERIOD_DEF
  MaxMoves,       \* bound: switches plugged in or out, hellos and answers lost, rounds
                  \* that go on before an answer has been handled
  MaxUpsets,      \* bound: commands (deleting a switch, masking its alarms, turning the monitor
                  \* off or on),
                  \* failures of Rcp_Get_Device_Info, no memory for an entry
  Registered      \* TRUE: the ONU is always registered and alarms can be sent

ASSUME MonitorAssumption ==
  /\ {NumPorts, KeepAlive, Discovery} \subseteq Nat \ {0} /\ {MaxMoves, MaxUpsets} \subseteq Nat
  /\ NoMac \notin Macs /\ IsFiniteSet(Macs)
  /\ Registered \in BOOLEAN

VARIABLES
  rcpDevList,   \* what is known of the switch at each port
  devlist_sem,  \* value of semAccessRcpDevList
  updating,     \* port whose entry the RCP thread is writing, 0 when none
  reply,        \* reply[p]: MAC in the answer from port p that is waiting, or NoMac
  plugged,      \* plugged[p]: MAC of the switch at port p, or NoMac
  enabled,      \* gulEnableEpswitchMgt
  gucRcpAlarmMask,   \* the mask of a switch that answers
  pc, port, other, iDiscovreyPeriod,   \* of the monitor thread
  alarms,       \* the alarm FIFO, oldest first
  told,         \* history: told[p]: MAC of the switch that is at port p by all alarms pushed
  late,         \* history: a check has begun before an answer has been handled
  moves, upsets    \* number of each

entryVars == <<rcpDevList, devlist_sem, updating>>
alarmVars == <<alarms, told>>
outVars == <<plugged, enabled, gucRcpAlarmMask, late, moves, upsets>>
monVars == <<pc, port, other, iDiscovreyPeriod>>
vars == <<entryVars, reply, monVars, alarmVars, outVars>>

Ports == 1 .. NumPorts
\* Set by RCP_Init; the list has an entry 0 that no port uses.
LengthLimitMax == 2 * (NumPorts + 1)

\* RCP_DEV, as far as the monitor goes.
Dev == [switchMac : Macs \union {NoMac}, previousswitchMac : Macs \union {NoMac},
        onlineStatus : 0 .. 1, previousOnlineStatus : 0 .. 1,
        timeoutFlag : 0 .. 1, timeoutCounter : 0 .. KeepAlive,
        alarmStatus : SUBSET {"REG", "REREG", "OFFLINE"}, alarmMask : BOOLEAN]
NewDev == [switchMac |-> NoMac, previousswitchMac |-> NoMac, onlineStatus |-> 0,
           previousOnlineStatus |-> 0, timeoutFlag |-> 0, timeoutCounter |-> 0, alarmStatus |-> {},
           alarmMask |-> FALSE]

\* RCP_Init
Init ==
  /\ rcpDevList = [p \in Ports |-> Null] /\ devlist_sem = 1 /\ updating = 0
  /\ reply = [p \in Ports |-> NoMac] /\ plugged = [p \in Ports |-> NoMac]
  /\ enabled = TRUE /\ gucRcpAlarmMask = FALSE
  /\ pc = "hello" /\ port = 1 /\ other = 1 /\ iDiscovreyPeriod = Discovery
  /\ alarms = <<>> /\ told = [p \in Ports |-> NoMac]
  /\ late = FALSE /\ moves = 0 /\ upsets = 0

\* RCP_Dev_Is_Valid and RCP_Dev_Is_Exist, of an entry that has been made.
Valid(p) == rcpDevList[p] # Null /\ rcpDevList[p].switchMac # NoMac
Exists(p) == plugged[p] # NoMac /\ rcpDevList[p].onlineStatus = 1

Moves(n) == moves + n =< MaxMoves /\ moves' = moves + n
Upset == upsets < MaxUpsets /\ upsets' = upsets + 1

\* RCP_Say_Hello, to some ports: the switch at port p that has one of the MACs
\* answers, unless the hello or the answer is lost.
SayHello(ps, macs) ==
  LET answering == {p \in ps : plugged[p] \in macs \ {NoMac}}
  IN  \E heard \in SUBSET answering :
        /\ Moves(Cardinality(answering \ heard))
        /\ reply' = [p \in Ports |-> IF p \in heard THEN plugged[p] ELSE reply[p]]

Goto(label) == pc' = label
\* pushOneSwitchStatusChgMsg, for a sequence of alarms that are not masked.
Push(pushed) ==
  LET room == LengthLimitMax - Len(alarms)
      new == IF rcpDevList[port].alarmMask THEN <<>> ELSE pushed
      n == IF Len(new) =< room THEN Len(new) ELSE room
      last == new[n]
  IN  /\ alarms' = alarms \o SubSeq(new, 1, n)
      /\ told' = IF n = 0 THEN told
                 ELSE [told EXCEPT ![port] = IF last.type = "OFFLINE" THEN NoMac ELSE last.mac]
Alarm(type, mac) == [port |-> port, type |-> type, mac |-> mac]
-----------------------------------------------------------------------------
\* Switches come and go.
Plug(p, m) ==
  /\ Moves(1)
  /\ plugged[p] = NoMac /\ \A q \in Ports : plugged[q] # m
  /\ plugged' = [plugged EXCEPT ![p] = m]
  /\ UNCHANGED <<entryVars, reply, monVars, alarmVars, enabled, gucRcpAlarmMask, late, upsets>>

Unplug(p) ==
  /\ Moves(1)
  /\ plugged[p] # NoMac
  /\ plugged' = [plugged EXCEPT ![p] = NoMac]
  /\ UNCHANGED <<entryVars, reply, monVars, alarmVars, enabled, gucRcpAlarmMask, late, upsets>>

\* The command that turns the monitor off and on.
CliEnable ==
  /\ Upset
  /\ enabled' = ~enabled
  /\ UNCHANGED <<entryVars, reply, monVars, alarmVars, plugged, gucRcpAlarmMask, late, moves>>

\* The command that forgets a switch that is not there.
CliDelete(p) ==
  /\ Upset
  /\ rcpDevList[p] # Null /\ ~Exists(p)
  /\ rcpDevList' = [rcpDevList EXCEPT ![p] =
       [@ EXCEPT !.switchMac = NoMac, !.previousswitchMac = NoMac,
                 !.onlineStatus = 0, !.previousOnlineStatus = 0, !.timeoutFlag = 1]]
  /\ UNCHANGED <<devlist_sem, updating, reply, monVars, alarmVars, plugged, enabled, gucRcpAlarmMask, late, moves>>

\* The command that masks the alarms of a switch.  For all switches it sets the mask
\* they get with their next answers, and that of this one, which "this" alone keeps
\* only until then.
CliMask(p, all, mask) ==
  /\ Upset
  /\ Valid(p)
  /\ gucRcpAlarmMask' = IF all THEN mask ELSE gucRcpAlarmMask
  /\ rcpDevList' = [rcpDevList EXCEPT ![p].alarmMask = mask]
  /\ UNCHANGED <<devlist_sem, updating, reply, monVars, alarmVars, plugged, enabled, late, moves>>
-----------------------------------------------------------------------------
\* RCP_DevList_Update: the entry is made when there is none, and the MAC set.
DevListUpdate(p) ==
  /\ reply[p] # NoMac /\ devlist_sem = 1 /\ updating = 0
  /\ devlist_sem' = 0 /\ updating' = p
  /\ LET dev == IF rcpDevList[p] = Null THEN NewDev ELSE rcpDevList[p]
     IN  rcpDevList' = [rcpDevList EXCEPT ![p] = [dev EXCEPT !.switchMac = reply[p]]]
  /\ reply' = [reply EXCEPT ![p] = NoMac]
  /\ UNCHANGED <<monVars, alarmVars, outVars>>

\* Without memory it returns with the semaphore taken.
DevListNoMemory(p) ==
  /\ Upset
  /\ reply[p] # NoMac /\ devlist_sem = 1 /\ updating = 0
  /\ rcpDevList[p] = Null
  /\ devlist_sem' = 0
  /\ reply' = [reply EXCEPT ![p] = NoMac]
  /\ UNCHANGED <<rcpDevList, updating, monVars, alarmVars, plugged, enabled, gucRcpAlarmMask, late, moves>>

\* Mutant of DevListDone: the flag is left as it was.
DevListDoneFlagKept ==
  /\ updating # 0
  /\ rcpDevList' = [rcpDevList EXCEPT ![updating].timeoutCounter = 0,
                                        ![updating].alarmMask = gucRcpAlarmMask]
  /\ devlist_sem' = 1 /\ updating' = 0
  /\ UNCHANGED <<reply, monVars, alarmVars, outVars>>

\* The key of the switch has been set; the switch is alive.
DevListDone ==
  /\ updating # 0
  /\ rcpDevList' = [rcpDevList EXCEPT ![updating].timeoutFlag = 0, ![updating].timeoutCounter = 0,
                                        ![updating].alarmMask = gucRcpAlarmMask]
  /\ devlist_sem' = 1 /\ updating' = 0
  /\ UNCHANGED <<reply, monVars, alarmVars, outVars>>
-----------------------------------------------------------------------------
\* rcp_dev_monitor.  A round begins with hellos when the monitor is on.
NextPort == IF port < NumPorts THEN port' = port + 1 /\ Goto("hello") ELSE port' = 1 /\ Goto("discover")

RoundOff ==
  /\ pc = "hello" /\ port = 1 /\ ~enabled
  /\ Goto("sleep")
  /\ UNCHANGED <<entryVars, reply, port, other, iDiscovreyPeriod, alarmVars, outVars>>

HelloSkip ==
  /\ pc = "hello" /\ (port = 1 => enabled)
  /\ ~Valid(port)
  /\ NextPort
  /\ UNCHANGED <<entryVars, reply, other, iDiscovreyPeriod, alarmVars, outVars>>

Hello ==
  /\ pc = "hello" /\ (port = 1 => enabled)
  /\ Valid(port)
  /\ SayHello({port}, {rcpDevList[port].switchMac})
  /\ rcpDevList' = [rcpDevList EXCEPT ![port] =
       IF @.timeoutCounter < KeepAlive THEN [@ EXCEPT !.timeoutCounter = @ + 1]
       ELSE [@ EXCEPT !.timeoutFlag = 1]]
  /\ Goto("status")
  /\ UNCHANGED <<devlist_sem, updating, port, other, iDiscovreyPeriod, alarmVars, plugged, enabled, gucRcpAlarmMask, late, upsets>>

Status ==
  /\ pc = "status"
  /\ rcpDevList' = [rcpDevList EXCEPT ![port] =
       [@ EXCEPT !.previousOnlineStatus = rcpDevList[port].onlineStatus,
                 !.onlineStatus = 1 - rcpDevList[port].timeoutFlag]]
  /\ NextPort
  /\ UNCHANGED <<devlist_sem, updating, reply, other, iDiscovreyPeriod, alarmVars, outVars>>

\* Every Discovery rounds a hello goes to all ports that are up.
Discover ==
  /\ pc = "discover"
  /\ IF iDiscovreyPeriod > 1
     THEN iDiscovreyPeriod' = iDiscovreyPeriod - 1 /\ UNCHANGED <<reply, moves>>
     ELSE iDiscovreyPeriod' = Discovery /\ SayHello(Ports, Macs)
  /\ Goto("sleep")
  /\ UNCHANGED <<entryVars, port, other, alarmVars, plugged, enabled, gucRcpAlarmMask, late, upsets>>

\* The delay of a round is long enough for answers to come and be handled; one
\* that is late is a move.
Sleep ==
  /\ pc = "sleep"
  /\ IF updating # 0 \/ (devlist_sem = 1 /\ \E p \in Ports : reply[p] # NoMac)
     THEN Moves(1) /\ late' = TRUE
     ELSE UNCHANGED <<moves, late>>
  /\ Goto(IF enabled THEN "check" ELSE "hello")
  /\ UNCHANGED <<entryVars, reply, port, other, iDiscovreyPeriod, alarmVars, plugged, enabled, gucRcpAlarmMask, upsets>>
-----------------------------------------------------------------------------
\* rcp_dev_status_check, port by port.
NextCheck == IF port < NumPorts THEN port' = port + 1 /\ Goto("check") ELSE port' = 1 /\ Goto("pop")

CheckSkip ==
  /\ pc = "check" /\ ~Valid(port)
  /\ NextCheck
  /\ UNCHANGED <<entryVars, reply, other, iDiscovreyPeriod, alarmVars, outVars>>

\* The switch is not there: the alarm goes out in the round it went offline.
CheckOffline ==
  /\ pc = "check" /\ Valid(port) /\ ~Exists(port)
  /\ LET dev == rcpDevList[port]
         edge == dev.onlineStatus = 0 /\ dev.previousOnlineStatus = 1
     IN  /\ IF edge THEN Push(<<Alarm("OFFLINE", dev.switchMac)>>) ELSE UNCHANGED alarmVars
         /\ rcpDevList' = [rcpDevList EXCEPT ![port] =
              IF ~edge THEN @
              ELSE [@ EXCEPT !.alarmStatus = @ \union {"OFFLINE"},
                             !.previousOnlineStatus = 0, !.timeoutFlag = 1]]
         /\ IF edge \/ "OFFLINE" \in dev.alarmStatus
            THEN Goto("moved") /\ other' = 1 /\ UNCHANGED port
            ELSE NextCheck /\ UNCHANGED other
  /\ UNCHANGED <<devlist_sem, updating, reply, iDiscovreyPeriod, outVars>>

\* Has it moved?  A port that is not known is asked first, which takes a while.
MovedAsk ==
  /\ pc = "moved" /\ rcpDevList[other] = Null
  /\ SayHello({other}, Macs)
  /\ Goto("asked")
  /\ UNCHANGED <<entryVars, port, other, iDiscovreyPeriod, alarmVars, plugged, enabled, gucRcpAlarmMask, late, upsets>>

Moved ==
  /\ \/ pc = "asked"
     \/ pc = "moved" /\ rcpDevList[other] # Null
  /\ LET exists == IF pc = "asked" THEN rcpDevList[other] # Null ELSE Exists(other)
     IN  rcpDevList' = [rcpDevList EXCEPT ![port] =
           IF exists /\ other # port /\ @.switchMac = rcpDevList[other].switchMac
           THEN [@ EXCEPT !.switchMac = NoMac, !.previousswitchMac = NoMac, !.onlineStatus = 0,
                          !.previousOnlineStatus = 0, !.timeoutFlag = 1]
           ELSE @]
  /\ IF other < NumPorts
     THEN other' = other + 1 /\ Goto("moved") /\ UNCHANGED port
     ELSE UNCHANGED other /\ NextCheck
  /\ UNCHANGED <<devlist_sem, updating, reply, iDiscovreyPeriod, alarmVars, outVars>>

\* The module type in the EEPROM of a switch cannot be read, or is none that is known.
GetDeviceInfoFails == Upset

\* Another switch than before: its module type is read from it.
CheckInfo ==
  /\ pc = "check" /\ Valid(port) /\ Exists(port)
  /\ rcpDevList[port].switchMac # rcpDevList[port].previousswitchMac
  /\ \/ Goto("report") /\ UNCHANGED <<port, upsets>>
     \/ /\ GetDeviceInfoFails
        /\ Goto("hello") /\ port' = 1      \* the check ends
  /\ UNCHANGED <<entryVars, reply, other, iDiscovreyPeriod, alarmVars, plugged, enabled, gucRcpAlarmMask, late, moves>>

ReportNew ==
  /\ pc = "report" /\ rcpDevList[port].previousswitchMac = NoMac
  /\ Push(<<Alarm("REG", rcpDevList[port].switchMac)>>)
  /\ rcpDevList' = [rcpDevList EXCEPT ![port] =
       [@ EXCEPT !.previousOnlineStatus = 1, !.onlineStatus = 1]]
  /\ Goto("copy")
  /\ UNCHANGED <<devlist_sem, updating, reply, port, other, iDiscovreyPeriod, outVars>>

ReportChanged ==
  /\ pc = "report" /\ rcpDevList[port].previousswitchMac # NoMac
  /\ LET dev == rcpDevList[port]
         handled == "OFFLINE" \in dev.alarmStatus
     IN  /\ Push((IF handled THEN <<>> ELSE <<Alarm("OFFLINE", dev.previousswitchMac)>>)
                  \o <<Alarm("REG", dev.switchMac)>>)
         /\ rcpDevList' = [rcpDevList EXCEPT ![port] =
              [@ EXCEPT !.timeoutFlag = IF handled THEN dev.timeoutFlag ELSE 1, !.alarmStatus = {"REG"}]]
  /\ Goto("copy")
  /\ UNCHANGED <<devlist_sem, updating, reply, port, other, iDiscovreyPeriod, outVars>>

\* What it was called last; the MAC may have changed once more by now.
Copy ==
  /\ pc = "copy"
  /\ rcpDevList' = [rcpDevList EXCEPT ![port] =
       [@ EXCEPT !.previousswitchMac = rcpDevList[port].switchMac,
                 !.previousOnlineStatus = rcpDevList[port].onlineStatus]]
  /\ NextCheck
  /\ UNCHANGED <<devlist_sem, updating, reply, other, iDiscovreyPeriod, alarmVars, outVars>>

\* Mutant of CheckBack: that it was online in the last round is not looked at.
CheckBackAnyTime ==
  /\ pc = "check" /\ Valid(port) /\ Exists(port)
  /\ rcpDevList[port].switchMac = rcpDevList[port].previousswitchMac
  /\ LET dev == rcpDevList[port]
     IN  /\ Push(IF "OFFLINE" \in dev.alarmStatus THEN <<Alarm("REREG", dev.switchMac)>> ELSE <<>>)
         /\ rcpDevList' = [rcpDevList EXCEPT ![port] =
              [@ EXCEPT !.previousOnlineStatus = 1, !.alarmStatus = {"REREG"}]]
  /\ NextCheck
  /\ UNCHANGED <<devlist_sem, updating, reply, other, iDiscovreyPeriod, outVars>>

\* The same switch as before, which may have come back.
CheckBack ==
  /\ pc = "check" /\ Valid(port) /\ Exists(port)
  /\ rcpDevList[port].switchMac = rcpDevList[port].previousswitchMac
  /\ LET dev == rcpDevList[port]
     IN  IF dev.previousOnlineStatus = 0
         THEN /\ Push(IF "OFFLINE" \in dev.alarmStatus THEN <<Alarm("REREG", dev.switchMac)>> ELSE <<>>)
              /\ rcpDevList' = [rcpDevList EXCEPT ![port] =
                   [@ EXCEPT !.previousOnlineStatus = 1, !.alarmStatus = {"REREG"}]]
         ELSE UNCHANGED <<rcpDevList, alarmVars>>
  /\ NextCheck
  /\ UNCHANGED <<devlist_sem, updating, reply, other, iDiscovreyPeriod, outVars>>

\* popAllSwitchStatusChgMsg, up to the first alarm that cannot be sent.
Pop ==
  /\ pc = "pop"
  /\ \E n \in (IF Registered THEN {Len(alarms)} ELSE 0 .. Len(alarms)) :
       alarms' = SubSeq(alarms, n + 1, Len(alarms))
  /\ Goto("hello")
  /\ UNCHANGED <<entryVars, reply, port, other, iDiscovreyPeriod, told, outVars>>
-----------------------------------------------------------------------------
Monitor ==
  \/ RoundOff \/ HelloSkip \/ Hello \/ Status \/ Discover \/ Sleep
  \/ CheckSkip \/ CheckOffline \/ MovedAsk \/ Moved
  \/ CheckInfo \/ ReportNew \/ ReportChanged \/ Copy \/ CheckBack \/ Pop

RcpThread == (\E p \in Ports : DevListUpdate(p) \/ DevListNoMemory(p)) \/ DevListDone

Outside ==
  \/ \E p \in Ports : Unplug(p) \/ CliDelete(p) \/ \E m \in Macs : Plug(p, m)
  \/ CliEnable
  \/ \E p \in Ports, all, mask \in BOOLEAN : CliMask(p, all, mask)

Next == Monitor \/ RcpThread \/ Outside

SafeSpec == Init /\ [][Next]_vars

\* Both threads run.
Spec ==
  /\ SafeSpec /\ WF_vars(Monitor) /\ WF_vars(DevListDone)
  /\ \A p \in Ports : SF_vars(DevListUpdate(p))
-----------------------------------------------------------------------------
\* A switch comes back only where the last alarm of the port told that it was
\* gone (rcp_dev_status_check pushes RE_REGISTER only after OFFLINE), whatever is
\* late or lost.  It holds while no command deletes a switch or stops the monitor
\* and switches that are there can be read: the branch for a new switch leaves an
\* old OFFLINE behind.
BackOnlyAfterOffline ==
  [][\A p \in Ports : upsets = 0 /\ Len(alarms') > Len(alarms) /\ alarms'[Len(alarms')].type = "REREG" /\ port = p
                       => told[p] = NoMac]_vars

\* When switches stop moving and no more hellos are lost, and neither a command
\* nor a failed read has come between, the alarms have told in the end what is
\* plugged in where (rcp_dev_monitor, rcp_dev_status_check).  Not so if an answer
\* of another switch comes between the alarm and the copy of the MAC it named.
ToldCatchesUp == <>[](upsets = 0 /\ ~ late => told = plugged)
=============================================================================
