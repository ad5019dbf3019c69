----------------------------- MODULE LoopDetect -----------------------------
(***************************************************************************)
(* Loop detection at the user ports: apps/gwd_eth_loop_detect.c, the       *)
(* request of the OLT that sets, starts and stops it (apps/oam.c), and the *)
(* table of threads it uses (system/gw_os_api_core.c).                     *)
(*                                                                         *)
(* Two threads detect loops.  The detection task goes round: it wakes      *)
(* ports that were shut, looks for its own address in the MAC table of     *)
(* each VLAN and reports what it found.  The packet thread handles the     *)
(* detection frames that come back, and also the requests of the OLT.      *)
(* Either marks a port in the node of the VLAN, and shuts it first when    *)
(* the policy says so.  A semaphore protects the nodes; the state of the   *)
(* ports and the settings are read and changed without it.                 *)
(*                                                                         *)
(* The packet thread stops the task by gw_thread_delete, which cancels the *)
(* thread of an id and waits for its end.  A cancelled thread ends where   *)
(* it next waits, sends, logs or asks the device, also in the middle of a  *)
(* section the semaphore protects.                                         *)
(*                                                                         *)
(* What a thread does under the semaphore is one step: what it does to a   *)
(* port there and the record of it could not be told from one step by a    *)
(* thread that has no semaphore.  The detection frames sent, and what an   *)
(* alarm says of the OLT and ONU a frame came from, are left out.          *)
(***************************************************************************)
EXTENDS Naturals, Sequences, FiniteSets, FiniteSetsExt, Functions

CONSTANTS
  Ports, Vlans,      \* user ports and the VLANs of the switch, numbers from 1 on
  PonPort,           \* the port towards the OLT
  ClearLimit,        \* rounds without a loop that clear a mark, 10
  GaveUp,            \* 255, for a port that is not woken any more
  Policies, VidSettings, WakeSettings,  \* what the OLT sets
  MaxRequests, MaxFrames,   \* bounds: requests and detection frames
  MaxOperator,       \* bound: ports the operator opens
  MaxFaults          \* bound: calls of the device and of malloc that fail

ASSUME LoopDetectAssumption ==
  /\ Ports \subseteq Nat \ {0} /\ Ports # {} /\ Vlans \subseteq 1 .. 4094
  /\ PonPort \notin Ports
  /\ VidSettings \subseteq Vlans \union {0}
  /\ ClearLimit \in Nat \ {0}
  /\ {GaveUp, MaxRequests, MaxFrames, MaxOperator, MaxFaults} \subseteq Nat
  /\ WakeSettings \subseteq [wait : Nat, max : 0 .. GaveUp - 1]

VARIABLES
  set,          \* oam_onu_lpb_detect_frame: enable, vid, policy, wait, max
  parses,       \* the handler of detection frames is registered
  timeCounter,
  listed, stat, \* the VLANs that have a node, and the nodes
  recFlag,      \* gulLoopRecFlag: a frame came back since the last alarm
  admin,        \* admin state of the ports: TRUE for up
  sem,          \* gw_lpb_sem: free between sections, or lost with the thread that had it
  threads,      \* the table of threads: who runs under an id, the timers under 0
  loopId,       \* gwd_loop_thread_id
  task, todo,   \* the detection task, and what its round has still to do
  pkt,          \* what the packet thread has still to do
  led,          \* the loop LED
  alarms,       \* history: the last alarm the OLT was sent of a port and VLAN: 1 of a
                \*   loop, 2 of its end; Stale if a loop's mark was freed without a word
  shut,         \* history: ports shut as looped and not opened since
  forgotten,    \* history: of these, ports that a failed call left without a record
  reached,      \* history: ports that reached the wake-up threshold in a VLAN and were shut for good
  ended,        \* history: threads that gw_thread_delete ended
  unmatched,    \* history: the OLT stopped what was not started
  requests, frames, operations, faults

setVars == <<set, parses>>
portVars == <<admin, shut, forgotten, reached>>
nodeVars == <<listed, stat, recFlag, alarms>>
threadVars == <<threads, loopId, ended, unmatched>>
countVars == <<requests, frames, operations, faults>>
vars == <<setVars, timeCounter, nodeVars, portVars, sem, threadVars, task, todo, pkt, led, countVars>>

Stale == 3

Clear == [mask |-> FALSE, down |-> FALSE, clr |-> 0, wake |-> 0, slp |-> 0]

ThreadIds == 0 .. 2

Init ==
  /\ \E w \in WakeSettings :
       set = [enable |-> FALSE, vid |-> 0, policy |-> 1, wait |-> w.wait, max |-> w.max]
  /\ parses = FALSE /\ timeCounter = 0
  /\ listed = {} /\ stat = [v \in Vlans |-> [p \in Ports |-> Clear]]
  /\ recFlag = [p \in Ports |-> FALSE]
  /\ admin = [p \in Ports \union {PonPort} |-> TRUE]
  /\ sem = "free"
  /\ threads = [i \in ThreadIds |-> IF i = 0 THEN "timer" ELSE "free"]
  /\ loopId = 0
  /\ task = "none" /\ todo = <<>> /\ pkt = <<>> /\ led = FALSE
  /\ alarms = [v \in Vlans |-> [p \in Ports |-> 0]]
  /\ shut = {} /\ forgotten = {} /\ reached = {} /\ ended = {} /\ unmatched = FALSE
  /\ requests = 0 /\ frames = 0 /\ operations = 0 /\ faults = 0
-----------------------------------------------------------------------------
\* The policy of the OLT counts: the local setting is never enabled.
Shutting == set.policy % 2 = 1

Opened(ports) ==
  /\ admin' = [p \in DOMAIN admin |-> admin[p] \/ p \in ports]
  /\ shut' = shut \ ports

\* An alarm of what = 1 for a loop, 2 for its end, of each of some ports.
Alarm(v, what, ports) ==
  /\ alarms' = [alarms EXCEPT ![v] = [p \in Ports |-> IF p \in ports THEN what ELSE @[p]]]
  /\ recFlag' = [p \in Ports |-> recFlag[p] /\ p \notin ports]

\* What setPortLpbStatus does to the entry of a port in the node of its VLAN.
WakeCount(e) ==
  CASE e.wake < set.max -> [wake |-> e.wake, slp |-> 0]
    [] e.wake >= set.max /\ e.wake = GaveUp -> [wake |-> 0, slp |-> 0]
    [] OTHER -> [wake |-> GaveUp, slp |-> e.slp]

\* Mutant of Marked: a port that is marked already is left as it is.
MarkedOnce(e, shutdown) ==
  IF e.mask THEN [e EXCEPT !.clr = 0] ELSE [e EXCEPT !.mask = TRUE, !.clr = 0, !.down = shutdown]

Marked(e, shutdown) ==
  LET count == IF shutdown THEN WakeCount(e) ELSE e
  IN  [mask |-> TRUE, down |-> shutdown, clr |-> 0, wake |-> count.wake, slp |-> count.slp]

NewMark(shutdown) == [Clear EXCEPT !.mask = TRUE, !.down = shutdown]

setPortLpbStatus(v, p, shutdown) ==
  \/ /\ listed' = listed \union {v}
     /\ stat' = [stat EXCEPT ![v][p] = IF v \in listed THEN Marked(@, shutdown) ELSE NewMark(shutdown)]
     /\ forgotten' = IF ~shutdown /\ stat[v][p].down THEN forgotten \union ({p} \intersect shut) ELSE forgotten
     /\ reached' = IF shutdown /\ p \in shut /\ stat'[v][p].wake = GaveUp THEN reached \union {p} ELSE reached
     /\ UNCHANGED faults
  \/ /\ v \notin listed  \* malloc fails
     /\ faults < MaxFaults /\ faults' = faults + 1
     /\ forgotten' = IF shutdown THEN forgotten \union ({p} \intersect shut) ELSE forgotten
     /\ UNCHANGED <<listed, stat, reached>>

\* The ports of v that lpbDetectWakeupPorts finds free of loops and those it wakes.
Quiet(v) == {p \in Ports : stat[v][p].mask /\ stat[v][p].clr >= ClearLimit}

\* Mutant of Asleep: only ports without a loop for ClearLimit rounds.
AsleepIfClear(v) ==
  {p \in Ports \ Quiet(v) : stat[v][p].down /\ stat[v][p].wake < set.max /\ stat[v][p].clr >= ClearLimit}

Asleep(v) ==
  {p \in Ports \ Quiet(v) : stat[v][p].mask /\ stat[v][p].down /\ stat[v][p].wake < set.max}

Woken(v) == {p \in Asleep(v) : stat[v][p].slp + 1 >= set.wait}

AfterWakeup(v, p) ==
  LET e == stat[v][p]
  IN  CASE p \in Quiet(v) -> [Clear EXCEPT !.down = e.down]
        [] p \in Woken(v) -> [mask |-> TRUE, down |-> FALSE, clr |-> e.clr, wake |-> e.wake + 1, slp |-> 0]
        [] p \in Asleep(v) \ Woken(v) -> [e EXCEPT !.slp = @ + 1]
        [] OTHER -> e

WakeupPorts(v) ==
  IF v \notin listed THEN UNCHANGED <<nodeVars, portVars, faults>>
  ELSE \E failed \in SUBSET Woken(v) :
         /\ faults + Cardinality(failed) <= MaxFaults
         /\ faults' = faults + Cardinality(failed)
         /\ Opened(Woken(v) \ failed)
         /\ forgotten' = (forgotten \ Woken(v)) \union (failed \intersect shut)
         /\ Alarm(v, 2, Quiet(v) \union Woken(v))
         /\ stat' = [stat EXCEPT ![v] = [p \in Ports |-> AfterWakeup(v, p)]]
         /\ UNCHANGED <<listed, reached>>

clsPortLpbStatus(v) ==
  /\ stat' = [stat EXCEPT ![v] = [p \in Ports |->
       IF v \in listed /\ stat[v][p].mask /\ ~stat[v][p].down /\ ~recFlag[p]
       THEN [stat[v][p] EXCEPT !.clr = @ + 1] ELSE stat[v][p]]]
  /\ UNCHANGED <<listed, recFlag, alarms, portVars, faults>>

\* Mutant of DeletesNode: a node without ports that are shut goes.
DeletesNodeUnlessShut(v) == \A p \in Ports : ~stat[v][p].down

DeletesNode(v) == \A p \in Ports : ~stat[v][p].mask

reportPortsLpbStatus(v) ==
  IF v \notin listed THEN UNCHANGED <<listed, stat, recFlag, alarms>>
  ELSE /\ Alarm(v, 1, {p \in Ports : stat[v][p].mask /\ stat[v][p].clr = 0 /\ timeCounter = 1})
       /\ listed' = IF DeletesNode(v) THEN listed \ {v} ELSE listed
       /\ stat' = [stat EXCEPT ![v] =
            IF DeletesNode(v) THEN [p \in Ports |-> Clear]
            ELSE [p \in Ports |-> [stat[v][p] EXCEPT !.down = @ /\ ~admin[p]]]]

\* resetLpbPort opens every port that was shut, when the policy is 0 or by force;
\* an entry is cleared if its alarm was sent.
ShutEntries == {e \in listed \X Ports : stat[e[1]][e[2]].down}

resetLpbPort(force) ==
  IF ~force /\ set.policy # 0 THEN UNCHANGED <<nodeVars, portVars, faults>>
  ELSE \E unsent \in SUBSET ShutEntries, failed \in SUBSET {e[2] : e \in ShutEntries} :
         /\ faults' = faults + Cardinality(unsent) + Cardinality(failed)
         /\ faults' <= MaxFaults
         /\ Opened({e[2] : e \in ShutEntries} \ failed)
         /\ forgotten' = (forgotten \ {e[2] : e \in ShutEntries}) \union (failed \intersect shut)
         /\ alarms' = [v \in Vlans |-> [p \in Ports |->
              IF <<v, p>> \in ShutEntries \ unsent THEN 2 ELSE alarms[v][p]]]
         /\ recFlag' = [p \in Ports |-> recFlag[p] /\ \A v \in listed : <<v, p>> \notin ShutEntries]
         /\ stat' = [v \in Vlans |-> [p \in Ports |->
              IF <<v, p>> \in ShutEntries \ unsent
              THEN [mask |-> FALSE, down |-> FALSE, clr |-> 0, wake |-> stat[v][p].wake, slp |-> stat[v][p].slp]
              ELSE stat[v][p]]]
         /\ reached' = reached \ {e[2] : e \in ShutEntries}
         /\ UNCHANGED listed

freeLpbStatusList ==
  /\ listed' = {}
  /\ stat' = [v \in Vlans |-> [p \in Ports |-> Clear]]
  /\ alarms' = [v \in Vlans |-> [p \in Ports |-> IF alarms[v][p] = 1 THEN Stale ELSE alarms[v][p]]]
  /\ UNCHANGED recFlag
-----------------------------------------------------------------------------
\* What is left to do, of the task's round or of the packet thread's work.
Do(op) == [op |-> op]
DoVlan(op, v) == [op |-> op, vid |-> v]
DoReset(force) == [op |-> "reset", force |-> force]
DoMark(v, p, shutdown) == [op |-> "mark", vid |-> v, port |-> p, shutdown |-> shutdown]
DoShut(v, p, at) == [op |-> "shut", vid |-> v, port |-> p, at |-> at]

Doing(work, op) == work # <<>> /\ Head(work).op = op

\* The VLAN of a step: the one set, when the round is for that one, as it is now.
VidOf(do) == IF do.vid = 0 THEN set.vid ELSE do.vid

\* LIB_IF_PORT_ADMIN_SET for a port found looped: the device may refuse.
ShutPort(p) ==
  /\ admin' = [admin EXCEPT ![p] = FALSE]
  /\ shut' = shut \union {p}
  /\ UNCHANGED <<forgotten, reached>>

\* A port marked without being shut again is forgotten as one that is shut.
Mark(do) ==
  /\ setPortLpbStatus(do.vid, do.port, do.shutdown)
  /\ UNCHANGED <<recFlag, alarms, admin, shut>>

\* The sections of the semaphore.
Section(do) ==
  CASE do.op = "reset" -> resetLpbPort(do.force)
    [] do.op = "free" -> freeLpbStatusList /\ UNCHANGED <<portVars, faults>>
    [] do.op = "wake" -> WakeupPorts(VidOf(do))
    [] do.op = "cls" -> clsPortLpbStatus(VidOf(do))
    [] do.op = "mark" -> Mark(do)
    [] do.op = "report" -> reportPortsLpbStatus(VidOf(do)) /\ UNCHANGED <<portVars, faults>>
    [] do.op = "led" -> UNCHANGED <<nodeVars, portVars, faults>>

Sections == {"reset", "free", "wake", "cls", "mark", "report", "led"}

\* Mutant of SemAfter: a report of a VLAN without a node returns with the semaphore.
SemAfterKept(do) == IF do.op = "report" /\ VidOf(do) \notin listed THEN "taken" ELSE "free"

SemAfter(do) == "free"

\* In these a thread logs, sends or asks the device, and may be cancelled there.
CancelledIn == {"reset", "wake", "mark", "report"}
-----------------------------------------------------------------------------
\* EthPortLoopBackDetectTask: a round, or the end.
Running == task \in {"run", "cancelled"}

TaskRound ==
  /\ Running /\ todo = <<>>
  /\ IF set.enable
     THEN timeCounter' = 1 - timeCounter /\ todo' = <<Do("call")>> /\ UNCHANGED task
     ELSE task' = "over" /\ UNCHANGED <<timeCounter, todo>>
  /\ UNCHANGED <<set, parses, nodeVars, portVars, sem, threadVars, pkt, led, countVars>>

\* ethLoopBackDetectActionCall: it gets `enable` as it is by now.
ActionCall ==
  /\ Running /\ Doing(todo, "call")
  /\ todo' = IF set.enable THEN <<DoReset(FALSE), Do("plan")>>
             ELSE <<DoReset(TRUE), Do("free"), Do("led")>>
  /\ UNCHANGED <<set, parses, timeCounter, nodeVars, portVars, sem, threadVars, task, pkt, led, countVars>>

VlanRound(v) == <<DoVlan("wake", v), DoVlan("links", v), DoVlan("report", v)>>

Plan ==
  /\ Running /\ Doing(todo, "plan")
  /\ todo' = (IF set.vid # 0
              THEN <<DoVlan("wake", 0), DoVlan("check", 0), DoVlan("report", 0)>>
              ELSE <<DoVlan("next", 0)>>)
             \o <<Do("led")>>
  /\ UNCHANGED <<set, parses, timeCounter, nodeVars, portVars, sem, threadVars, task, pkt, led, countVars>>

\* LIB_IF_VLAN_ENTRY_GETNEXT: the VLANs in turn.
VlansAfter(v) == {w \in Vlans : v < w}

NextVlan ==
  /\ Running /\ Doing(todo, "next")
  /\ LET after == VlansAfter(Head(todo).vid)
     IN  todo' = IF after = {} THEN Tail(todo)
                 ELSE VlanRound(Min(after)) \o <<DoVlan("next", Min(after))>> \o Tail(todo)
  /\ UNCHANGED <<set, parses, timeCounter, nodeVars, portVars, sem, threadVars, task, pkt, led, countVars>>

\* A VLAN none of whose ports is up is not looked up.
Links ==
  /\ Running /\ Doing(todo, "links")
  /\ \E next \in {"check", "cls"} : todo' = <<DoVlan(next, Head(todo).vid)>> \o Tail(todo)
  /\ UNCHANGED <<set, parses, timeCounter, nodeVars, portVars, sem, threadVars, task, pkt, led, countVars>>

\* The MAC table may know the ONU's own address from any port of the VLAN, also
\* one that is down by now, or from none.
gtGetSrcPortForMac(v) == IF v = 0 THEN {} ELSE Ports

CheckMacTable ==
  /\ Running /\ Doing(todo, "check")
  /\ LET v == VidOf(Head(todo))
         Found(p) == IF ~Shutting THEN <<DoMark(v, p, FALSE)>>
                     ELSE IF admin[p] THEN <<DoShut(v, p, p)>> ELSE <<>>
     IN  \E first \in {<<DoVlan("cls", v)>>} \union {Found(p) : p \in gtGetSrcPortForMac(v)} :
           todo' = first \o Tail(todo)
  /\ UNCHANGED <<set, parses, timeCounter, nodeVars, portVars, sem, threadVars, task, pkt, led, countVars>>

TaskShuts ==
  /\ Running /\ Doing(todo, "shut")
  /\ LET do == Head(todo)
     IN  \/ ShutPort(do.at) /\ UNCHANGED faults
            /\ todo' = <<DoMark(do.vid, do.port, TRUE)>> \o Tail(todo)
         \/ faults < MaxFaults /\ faults' = faults + 1
            /\ todo' = Tail(todo) /\ UNCHANGED portVars
  /\ UNCHANGED <<set, parses, timeCounter, nodeVars, sem, threadVars, task, pkt, led, requests, frames, operations>>

\* gwdEthPortLoopLedAction sets the LED by any mark.
TaskSection ==
  /\ Running /\ todo # <<>> /\ Head(todo).op \in Sections
  /\ sem = "free" /\ sem' = SemAfter(Head(todo))
  /\ Section(Head(todo))
  /\ led' = IF Doing(todo, "led") THEN \E v \in listed, p \in Ports : stat[v][p].mask ELSE led
  /\ todo' = Tail(todo)
  /\ UNCHANGED <<set, parses, timeCounter, threadVars, task, pkt, requests, frames, operations>>

\* The task ends where it was cancelled, and may leave the semaphore taken.
TaskCancelled ==
  /\ task = "cancelled"
  /\ task' = "over" /\ todo' = <<>>
  /\ \/ UNCHANGED sem
     \/ /\ sem = "free" /\ sem' = "lost"
        /\ todo # <<>> /\ Head(todo).op \in CancelledIn
  /\ forgotten' = IF Doing(todo, "mark") /\ Head(todo).shutdown
                  THEN forgotten \union ({Head(todo).port} \intersect shut) ELSE forgotten
  /\ UNCHANGED <<set, parses, timeCounter, nodeVars, admin, shut, reached, threadVars, pkt, led, countVars>>
-----------------------------------------------------------------------------
\* ONU_LPB_DETECT: the settings one by one, and then EthLoopbackDetectControl.
Request ==
  /\ pkt = <<>> /\ requests < MaxRequests /\ requests' = requests + 1
  /\ \E v \in VidSettings, policy \in Policies, w \in WakeSettings, enable \in BOOLEAN :
       pkt' = <<[op |-> "set", new |-> [vid |-> v]], [op |-> "set", new |-> [policy |-> policy]],
                [op |-> "set", new |-> w], [op |-> "control", enable |-> enable]>>
  /\ UNCHANGED <<set, parses, timeCounter, nodeVars, portVars, sem, threadVars, task, todo, led, frames, operations, faults>>

Store ==
  /\ Doing(pkt, "set")
  /\ LET new == Head(pkt).new
     IN  set' = [f \in DOMAIN set |-> IF f \in DOMAIN new THEN new[f] ELSE set[f]]
  /\ pkt' = Tail(pkt)
  /\ UNCHANGED <<parses, timeCounter, nodeVars, portVars, sem, threadVars, task, todo, led, countVars>>

\* Mutant of ThreadCreated: the caller's id is not set.
ThreadCreatedNoId(id) == threads' = [threads EXCEPT ![id] = "loop"] /\ UNCHANGED loopId

\* gw_thread_create with the lowest free id.
ThreadCreated(id) == threads' = [threads EXCEPT ![id] = "loop"] /\ loopId' = id

\* gulLoopDetectFrameHandleRegister always equals enable here, so it is left out.
Start ==
  /\ Doing(pkt, "control") /\ Head(pkt).enable
  /\ pkt' = Tail(pkt)
  /\ IF set.enable THEN UNCHANGED <<set, parses, threadVars, task, faults>>
     ELSE /\ set' = [set EXCEPT !.enable = TRUE]
          /\ parses' = TRUE
          /\ \/ /\ ThreadCreated(Min({i \in ThreadIds : threads[i] = "free"}))
                /\ task' = "run"
                /\ UNCHANGED <<ended, unmatched, faults>>
             \/ /\ faults < MaxFaults /\ faults' = faults + 1
                /\ UNCHANGED <<threadVars, task>>
  /\ UNCHANGED <<timeCounter, nodeVars, portVars, sem, todo, led, requests, frames, operations>>

Stop ==
  /\ Doing(pkt, "control") /\ ~Head(pkt).enable
  /\ set' = [set EXCEPT !.enable = FALSE]
  /\ pkt' = <<Do("delete")>>
  /\ unmatched' = (unmatched \/ task = "none")
  /\ UNCHANGED <<parses, timeCounter, nodeVars, portVars, sem, threads, loopId, ended, task, todo, led, countVars>>

\* gw_thread_delete: cancel the thread of the id, if there is one, and join it
\* under the lock of the table.
Delete ==
  /\ Doing(pkt, "delete")
  /\ pkt' = IF threads[loopId] = "free" THEN <<>> ELSE <<Do("join")>>
  /\ task' = IF threads[loopId] = "loop" /\ task = "run" THEN "cancelled" ELSE task
  /\ UNCHANGED <<setVars, timeCounter, nodeVars, portVars, sem, threadVars, todo, led, countVars>>

Join ==
  /\ Doing(pkt, "join")
  /\ threads[loopId] = "loop" => task = "over"
  /\ ended' = ended \union {threads[loopId]}
  /\ task' = IF threads[loopId] = "loop" THEN "none" ELSE task
  /\ threads' = [threads EXCEPT ![loopId] = "free"]
  /\ pkt' = <<>>
  /\ UNCHANGED <<setVars, timeCounter, nodeVars, portVars, sem, loopId, unmatched, todo, led, countVars>>

\* lpbDetectRevPacketHandle.  A frame back from the PON side counts for the first
\* port of the VLAN, but it is the port it came from that is shut.
FirstPortOnVlan == Min(Ports)

Frame(p, v) ==
  /\ parses /\ pkt = <<>>
  /\ frames < MaxFrames /\ frames' = frames + 1
  /\ LET port == IF p = PonPort THEN FirstPortOnVlan ELSE p
     IN  /\ recFlag' = [recFlag EXCEPT ![port] = TRUE]
         /\ pkt' = IF ~Shutting THEN <<DoMark(v, port, FALSE)>>
                   ELSE IF admin[p] THEN <<DoShut(v, port, p)>> ELSE <<>>
  /\ UNCHANGED <<setVars, timeCounter, listed, stat, alarms, portVars, sem, threadVars, task, todo, led, requests, operations, faults>>

PacketShuts ==
  /\ Doing(pkt, "shut")
  /\ LET do == Head(pkt)
     IN  \/ ShutPort(do.at) /\ UNCHANGED faults
            /\ pkt' = <<DoMark(do.vid, do.port, TRUE), DoVlan("report", do.vid)>>
         \/ faults < MaxFaults /\ faults' = faults + 1
            /\ pkt' = <<>> /\ UNCHANGED portVars
  /\ UNCHANGED <<setVars, timeCounter, nodeVars, sem, threadVars, task, todo, led, requests, frames, operations>>

PacketSection ==
  /\ pkt # <<>> /\ Head(pkt).op \in Sections
  /\ sem = "free" /\ sem' = SemAfter(Head(pkt))
  /\ Section(Head(pkt))
  /\ pkt' = Tail(pkt)
  /\ UNCHANGED <<setVars, timeCounter, threadVars, task, todo, led, requests, frames, operations>>
-----------------------------------------------------------------------------
\* The operator opens a port.
OperatorOpens(p) ==
  /\ ~admin[p] /\ operations < MaxOperator /\ operations' = operations + 1
  /\ Opened({p})
  /\ forgotten' = forgotten \ {p} /\ reached' = reached \ {p}
  /\ UNCHANGED <<setVars, timeCounter, nodeVars, sem, threadVars, task, todo, pkt, led, requests, frames, faults>>

TaskSteps == TaskRound \/ ActionCall \/ Plan \/ NextVlan \/ Links \/ CheckMacTable \/ TaskShuts

PacketSteps == Store \/ Start \/ Stop \/ Delete \/ Join \/ PacketShuts

Next ==
  \/ TaskRound \/ ActionCall \/ Plan \/ NextVlan \/ Links \/ CheckMacTable
  \/ TaskShuts \/ TaskSection \/ TaskCancelled
  \/ Request \/ Store \/ Start \/ Stop \/ Delete \/ Join
  \/ \E p \in Ports \union {PonPort}, v \in Vlans : Frame(p, v)
  \/ PacketShuts \/ PacketSection
  \/ \E p \in Ports : OperatorOpens(p)

\* Both threads are scheduled; one that waits for the semaphore gets it in the end,
\* though the other may take it often.
Spec == Init /\ [][Next]_vars
        /\ WF_vars(TaskSteps) /\ SF_vars(TaskSection) /\ WF_vars(TaskCancelled)
        /\ WF_vars(PacketSteps) /\ SF_vars(PacketSection)
-----------------------------------------------------------------------------
\* The nodes, and what is left of the work, are of the types of the C structures:
\* no counter of a port passes its unsigned char, and no mark clears late.
TypeOK ==
  /\ listed \subseteq Vlans
  /\ \A v \in Vlans, p \in Ports :
       /\ stat[v][p].clr \in 0 .. ClearLimit
       /\ stat[v][p].wake \in 0 .. Max({w.max : w \in WakeSettings}) \union {GaveUp}
       /\ stat[v][p].slp \in 0 .. Max({w.wait : w \in WakeSettings})
       /\ v \notin listed => stat[v][p] = Clear
  /\ sem \in {"free", "lost"} /\ task \in {"none", "run", "cancelled", "over"}
  /\ shut = {p \in shut : ~admin[p]} /\ forgotten \subseteq shut

\* A user port that a detector shut is recorded as such in the node of some VLAN,
\* or the thread that shut it is about to record it, so that waking finds it.  Only
\* a failed call, a mark without shutting and cancelling the task forget a port.
ShutIsRecorded ==
  \A p \in (shut \intersect Ports) \ forgotten :
    \/ \E v \in listed : stat[v][p].down
    \/ \E v \in Vlans \union {0} :
         {DoMark(v, p, TRUE), DoShut(v, p, p)} \intersect (Range(todo) \union Range(pkt)) # {}

\* An alarm of a loop that the OLT has got stands only while the port is marked: the
\* OLT is told when the mark goes, but that a stop frees the marks without a word.
AlarmHasMark ==
  \A v \in Vlans, p \in Ports : alarms[v][p] = 1 => v \in listed /\ stat[v][p].mask

\* gw_thread_delete ends no thread but the detection task, if the OLT stops only
\* what it started.
EndsOnlyTheTask == unmatched \/ ended \subseteq {"loop"}

\* A port that reached the wake-up threshold stays shut until the operator opens it
\* (gwd_eth_loop_detect.c:1696, "wakeup all the shutdown ports which have not
\* reached wakeup threshold").
ReachedStaysShut == \A p \in reached : ~admin[p]

\* The packet thread gets done with a frame or a request, unless the task was
\* cancelled while it had the semaphore.
PacketsGoOn == pkt # <<>> ~> (pkt = <<>> \/ sem = "lost")

\* A shut port below the threshold is woken, while its VLAN is under detection.
Sleeping(v, p) == v \in listed /\ stat[v][p].down /\ stat[v][p].wake < set.max /\ ~admin[p]

PortsWake ==
  \A v \in Vlans, p \in Ports :
    Sleeping(v, p) ~> (admin[p] \/ p \in forgotten \/ ~set.enable \/ set.vid \notin {0, v}
                       \/ task # "run" \/ sem = "lost" \/ stat[v][p].wake >= set.max)

=============================================================================
