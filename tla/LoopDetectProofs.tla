-------------------------- MODULE LoopDetectProofs --------------------------
(***************************************************************************)
(* Theorems about LoopDetect: what the two detectors, the requests of the  *)
(* OLT and the table of threads agree on, for any number of ports, VLANs,  *)
(* requests, frames and failed calls, and any wake-up settings.            *)
(*                                                                         *)
(* The inductive invariant Inv has five parts.  ThreadInv says under which *)
(* id the task is kept and that only a thread that is stopping the task    *)
(* sees it switched off; FreeInv needs it, to know that nobody marks a     *)
(* port between the reset by force and the free of the nodes; NodeInv      *)
(* relates marks, records and alarms; ShutInv the ports that are shut to   *)
(* their records, and needs the other three.                               *)
(*                                                                         *)
(* What is done under the semaphore is treated once, for both threads, by  *)
(* one lemma for each section (SectionStep); then there is one lemma for   *)
(* each action.                                                            *)
(***************************************************************************)
EXTENDS LoopDetect, WellFoundedInduction, TLAPS

\* A nonempty set of naturals has a least element.
LEMMA LeastNatural ==
  ASSUME NEW S, S \subseteq Nat, S # {}
  PROVE  \E x \in S : \A y \in S : x =< y
<1> DEFINE R == OpToRel(<, Nat)
<1>1. IsWellFoundedOn(R, Nat)
  BY NatLessThanWellFounded
<1>2. \A x, y \in Nat : y < x => <<y, x>> \in R
  BY DEF OpToRel
<1> HIDE DEF R
<1>3. PICK x \in S : \A y \in S : ~ (<<y, x>> \in R)
  BY <1>1, WFMin
<1>4. \A y \in S : ~ (y < x)
  BY <1>2, <1>3
<1>5. \A y \in S : x =< y
  BY <1>4
<1> QED
  BY <1>5
-----------------------------------------------------------------------------

\* What a thread may have to do.
Work ==
  {Do(op) : op \in {"call", "plan", "free", "led", "delete", "join"}}
  \union {DoReset(force) : force \in BOOLEAN}
  \union {DoVlan(op, v) : op \in {"wake", "links", "check", "cls", "report", "next"}, v \in Vlans \union {0}}
  \union {DoMark(v, p, shutdown) : v \in Vlans, p \in Ports, shutdown \in BOOLEAN}
  \union {DoShut(v, p, p) : v \in Vlans, p \in Ports}
  \union {DoShut(v, p, PonPort) : v \in Vlans, p \in Ports}

\* The settings of a request.
NewSettings == {[vid |-> v] : v \in VidSettings} \union {[policy |-> x] : x \in Policies} \union WakeSettings

\* What a request leaves to do.
Messages ==
  {[op |-> "set", new |-> n] : n \in NewSettings} \union {[op |-> "control", enable |-> b] : b \in BOOLEAN}

\* The settings.
Settings == [enable : BOOLEAN, vid : Vlans \union {0}, policy : Policies \union {1}, wait : Nat, max : Nat]

\* The entry of a port in a node.
Entry == [mask : BOOLEAN, down : BOOLEAN, clr : Nat, wake : Nat, slp : Nat]

\* The types of the nodes and ports.
NodeType ==
  /\ listed \subseteq Vlans /\ stat \in [Vlans -> [Ports -> Entry]]
  /\ alarms \in [Vlans -> [Ports -> 0 .. 3]]
  /\ DOMAIN admin = Ports \union {PonPort}

\* The types.
TypeInv ==
  /\ set \in Settings
  /\ NodeType
  /\ threads \in [ThreadIds -> {"free", "loop", "timer"}] /\ loopId \in ThreadIds
  /\ task \in {"none", "run", "cancelled", "over"}
  /\ todo \in Seq(Work) /\ pkt \in Seq(Work \union Messages)

\* What the packet thread has to do when it is not stopping the task.
Waiting == (Work \union Messages) \ {Do("delete"), Do("join"), Do("free")}

\* The packet thread is stopping the task.
Stopping == pkt \in {<<Do("delete")>>, <<Do("join")>>}

\* The table of threads has the task, under the id that was kept, while it is
\* there; the OLT stops it before it may start another one.
ThreadInv ==
  /\ \A i \in ThreadIds : threads[i] = "timer" => i = 0
  /\ \A i \in ThreadIds : threads[i] = "loop" <=> (i = loopId /\ task # "none")
  /\ ~set.enable /\ task # "none" => Stopping
  /\ Stopping /\ task = "none" => unmatched
  /\ Stopping \/ pkt \in Seq(Waiting)
  /\ task \in {"none", "over"} => todo = <<>>
  /\ unmatched \/ ended \subseteq {"loop"}

\* When the nodes are about to be freed every port has been opened, or forgotten,
\* and the packet thread marks none.
FreeInv ==
  \/ todo \in Seq(Work \ {Do("free")})
  \/ Stopping /\ todo = <<DoReset(TRUE), Do("free"), Do("led")>>
  \/ Stopping /\ todo = <<Do("free"), Do("led")>> /\ shut \intersect Ports \subseteq forgotten

\* A port that is recorded as shut has its mark, which does not age; an alarm of a loop has one.
NodeInv ==
  /\ \A v \in Vlans \ listed, p \in Ports : stat[v][p] = Clear
  /\ \A v \in Vlans, p \in Ports : stat[v][p].down => stat[v][p].mask /\ stat[v][p].clr = 0
  /\ AlarmHasMark
  /\ \A p \in shut : p \in Ports \union {PonPort} /\ ~admin[p]

\* The port is recorded as shut.
Recorded(p) == \E v \in listed : stat[v][p].down

\* Recording the port is the next thing to do.
MarkNext(work, p) == work # <<>> /\ \E v \in Vlans : Head(work) = DoMark(v, p, TRUE)

\* A port that was shut is recorded, or the thread that shut it records it next.
ShutInv ==
  \A p \in Ports : p \in shut \ forgotten => Recorded(p) \/ MarkNext(todo, p) \/ MarkNext(pkt, p)

\* The inductive invariant.
Inv == TypeInv /\ ThreadInv /\ FreeInv /\ NodeInv /\ ShutInv

USE DEF Settings, setVars, portVars, nodeVars, threadVars, countVars

\* What the fields of a thing to do are.
LEMMA WorkHas ==
  ASSUME NEW d \in Work
  PROVE  /\ d.op \in {"wake", "links", "check", "cls", "report", "next"} => d.vid \in Vlans \union {0}
         /\ d.op = "mark" => /\ d.vid \in Vlans /\ d.port \in Ports /\ d.shutdown \in BOOLEAN
                             /\ d = DoMark(d.vid, d.port, d.shutdown)
         /\ d.op = "shut" => /\ d.vid \in Vlans /\ d.port \in Ports /\ d.at \in {d.port, PonPort}
                             /\ d = DoShut(d.vid, d.port, d.at)
         /\ d.op = "reset" => d.force \in BOOLEAN /\ d = DoReset(d.force)
         /\ d.op \in {"call", "plan", "free", "led", "delete", "join"} => d = Do(d.op)
BY DEF Work, Do, DoReset, DoVlan, DoMark, DoShut

\* Whatever the threads put down to do is of the type, and is not the free of the nodes.
LEMMA WorkIs ==
  /\ \A op \in {"call", "plan", "led", "delete", "join"} : Do(op) \in Work \ {Do("free")}
  /\ Do("free") \in Work
  /\ \A force \in BOOLEAN : DoReset(force) \in Work \ {Do("free")}
  /\ \A op \in {"wake", "links", "check", "cls", "report", "next"}, v \in Vlans \union {0} :
       DoVlan(op, v) \in Work \ {Do("free")}
  /\ \A v \in Vlans, p \in Ports, s \in BOOLEAN : DoMark(v, p, s) \in Work \ {Do("free")}
  /\ \A v \in Vlans, p \in Ports, at \in Ports \union {PonPort} :
       at \in {p, PonPort} => DoShut(v, p, at) \in Work \ {Do("free")}
<1> DEFINE e == Do("free")
<1>1. e.op = "free"
  BY DEF Do
<1>2. /\ \A op : Do(op).op = op
      /\ \A force : DoReset(force).op = "reset"
      /\ \A op, v : DoVlan(op, v).op = op
      /\ \A v, p, s : DoMark(v, p, s).op = "mark" /\ DoShut(v, p, s).op = "shut"
  BY DEF Do, DoReset, DoVlan, DoMark, DoShut
<1> QED
  BY <1>1, <1>2 DEF Work

\* What the fields of a message of the OLT are.
LEMMA PktHas ==
  ASSUME NEW d \in Work \union Messages
  PROVE  /\ d.op = "set" => d.new \in NewSettings
         /\ d.op = "control" => d.enable \in BOOLEAN
         /\ d.op \notin {"set", "control"} => d \in Work
BY DEF Work, Messages, Do, DoReset, DoVlan, DoMark, DoShut

\* Storing a setting of a request (Store) keeps the type of the settings and does not
\* switch the detection on or off.
LEMMA SettingsKept ==
  ASSUME TypeInv, NEW n \in NewSettings, set' = [f \in DOMAIN set |-> IF f \in DOMAIN n THEN n[f] ELSE set[f]]
  PROVE  /\ set' \in Settings
         /\ set'.enable = set.enable
<1>1. set \in Settings
  BY DEF TypeInv
<1>2. CASE n \in {[vid |-> v] : v \in VidSettings}
  BY <1>1, <1>2, LoopDetectAssumption DEF LoopDetectAssumption
<1>3. CASE n \in {[policy |-> x] : x \in Policies}
  BY <1>1, <1>3
<1>4. CASE n \in WakeSettings
  <2>1. n \in [wait : Nat, max : Nat]
    BY <1>4, LoopDetectAssumption DEF LoopDetectAssumption
  <2> QED
    BY <1>1, <2>1
<1> QED
  BY <1>2, <1>3, <1>4 DEF NewSettings

-----------------------------------------------------------------------------
\* Ports that stay shut and remembered stay recorded.
Remembers == \A p \in Ports : p \in shut' \ forgotten' => p \in shut \ forgotten /\ (Recorded(p) => Recorded(p)')

\* What a section other than the free keeps.
SectionKeeps == NodeType' /\ NodeInv' /\ Remembers

\* An entry that was cleared.
LEMMA ClearEntry == Clear \in Entry /\ ~Clear.mask /\ ~Clear.down /\ Clear.clr = 0
BY DEF Clear, Entry

\* Ports that are opened are not shut; the others stay as they were.
LEMMA OpenedKeeps ==
  ASSUME NodeType, NodeInv, NEW ports, Opened(ports)
  PROVE  /\ DOMAIN admin' = Ports \union {PonPort}
         /\ shut' = shut \ ports
         /\ \A p \in shut' : p \in Ports \union {PonPort} /\ ~admin'[p]
BY DEF NodeType, NodeInv, Opened

\* A step that leaves nodes and ports alone.
LEMMA NodesSame ==
  ASSUME NodeType, NodeInv, UNCHANGED <<nodeVars, portVars>>
  PROVE  SectionKeeps
BY DEF NodeType, NodeInv, SectionKeeps, Remembers, Recorded, AlarmHasMark

\* An alarm changes what the OLT knows of these ports of one VLAN.
LEMMA AlarmDoes ==
  ASSUME NodeType, NEW v \in Vlans, NEW what \in 0 .. 3, NEW ports, Alarm(v, what, ports)
  PROVE  /\ alarms' \in [Vlans -> [Ports -> 0 .. 3]]
         /\ \A p \in Ports : alarms'[v][p] = IF p \in ports THEN what ELSE alarms[v][p]
         /\ \A w \in Vlans \ {v}, p \in Ports : alarms'[w][p] = alarms[w][p]
BY DEF NodeType, Alarm

\* lpbDetectWakeupPorts opens the ports it wakes, or forgets those the device refuses.
LEMMA WakeStep ==
  ASSUME NodeType, NodeInv, set.max \in Nat, NEW v \in Vlans \union {0}, WakeupPorts(v)
  PROVE  SectionKeeps
<1>1. CASE v \notin listed
  BY <1>1, NodesSame DEF WakeupPorts
<1>2. CASE v \in listed
  <2>0. v \in Vlans
    BY <1>2 DEF NodeType
  <2>1. PICK failed \in SUBSET Woken(v) :
          /\ Opened(Woken(v) \ failed)
          /\ forgotten' = (forgotten \ Woken(v)) \union (failed \intersect shut)
          /\ Alarm(v, 2, Quiet(v) \union Woken(v))
          /\ stat' = [stat EXCEPT ![v] = [p \in Ports |-> AfterWakeup(v, p)]]
          /\ listed' = listed
    BY <1>2 DEF WakeupPorts
  <2>2. \A p \in Ports : stat[v][p] \in Entry
    BY <2>0 DEF NodeType
  <2>3. Quiet(v) \subseteq Ports /\ Asleep(v) \subseteq Ports \ Quiet(v) /\ Woken(v) \subseteq Asleep(v)
    BY DEF Quiet, Asleep, Woken
  <2>4. ASSUME NEW p \in Ports
        PROVE  /\ AfterWakeup(v, p) \in Entry
               /\ AfterWakeup(v, p).down <=> stat[v][p].down /\ p \notin Woken(v)
               /\ AfterWakeup(v, p).mask <=> stat[v][p].mask /\ p \notin Quiet(v)
               /\ AfterWakeup(v, p).clr = IF p \in Quiet(v) THEN 0 ELSE stat[v][p].clr
    <3>1. stat[v][p] \in Entry
      BY <2>2
    <3>2. CASE p \in Quiet(v)
      BY <2>3, <3>1, <3>2 DEF AfterWakeup, Entry, Clear
    <3>3. CASE p \in Woken(v)
      <4>1. stat[v][p].mask = TRUE
        BY <2>3, <3>1, <3>3 DEF Asleep, Entry, Woken
      <4> QED
        BY <2>3, <3>1, <3>3, <4>1 DEF AfterWakeup, Entry
    <3>4. CASE p \notin Quiet(v) \union Woken(v)
      BY <2>3, <3>1, <3>4 DEF AfterWakeup, Entry
    <3> QED
      BY <3>2, <3>3, <3>4
  <2>5. /\ \A p \in Ports : stat'[v][p] = AfterWakeup(v, p)
        /\ \A w \in Vlans \ {v}, p \in Ports : stat'[w][p] = stat[w][p]
    BY <2>0, <2>1 DEF NodeType
  <2>6. stat' \in [Vlans -> [Ports -> Entry]]
    BY <2>0, <2>1, <2>4 DEF NodeType
  <2>7. \A p \in Quiet(v) : ~stat[v][p].down
    <3>1. ClearLimit \in Nat \ {0}
      BY LoopDetectAssumption DEF LoopDetectAssumption
    <3>2. \A p \in Quiet(v) : stat[v][p].clr >= ClearLimit
      BY DEF Quiet
    <3>3. \A p \in Ports : stat[v][p].down => stat[v][p].clr = 0
      BY <2>0 DEF NodeInv
    <3> QED
      BY <2>3, <3>1, <3>2, <3>3
  <2>a. /\ alarms' \in [Vlans -> [Ports -> 0 .. 3]]
        /\ \A p \in Ports : alarms'[v][p] = IF p \in Quiet(v) \union Woken(v) THEN 2 ELSE alarms[v][p]
        /\ \A w \in Vlans \ {v}, p \in Ports : alarms'[w][p] = alarms[w][p]
    <3>1. 2 \in 0 .. 3
      OBVIOUS
    <3> QED
      BY <2>0, <2>1, <3>1, AlarmDoes
  <2>b. DOMAIN admin' = Ports \union {PonPort} /\ shut' = shut \ (Woken(v) \ failed)
        /\ \A p \in shut' : p \in Ports \union {PonPort} /\ ~admin'[p]
    BY <2>1, OpenedKeeps
  <2>8. NodeType'
    BY <2>0, <2>1, <2>6, <2>a, <2>b DEF NodeType
  <2>9. NodeInv'
    <3>1. \A w \in Vlans \ listed', p \in Ports : stat'[w][p] = Clear
      BY <1>2, <2>1, <2>5 DEF NodeInv
    <3>2. \A w \in Vlans, p \in Ports : stat'[w][p].down => stat'[w][p].mask /\ stat'[w][p].clr = 0
      BY <2>0, <2>4, <2>5, <2>7 DEF NodeInv
    <3>3. \A w \in Vlans, p \in Ports : alarms'[w][p] = 1 => w \in listed' /\ stat'[w][p].mask
      BY <2>0, <2>1, <2>4, <2>5, <2>a DEF NodeInv, AlarmHasMark
    <3> QED
      BY <2>b, <3>1, <3>2, <3>3 DEF NodeInv, AlarmHasMark
  <2>10. ASSUME NEW p \in Ports, p \in shut' \ forgotten'
         PROVE  p \in shut \ forgotten /\ (Recorded(p) => Recorded(p)')
    <3>1. p \in shut /\ p \notin Woken(v) /\ p \notin forgotten
      BY <2>1, <2>10, <2>b
    <3> QED
      BY <2>0, <2>1, <2>4, <2>5, <3>1 DEF Recorded, NodeType
  <2> QED
    BY <2>8, <2>9, <2>10 DEF SectionKeeps, Remembers
<1> QED
  BY <1>1, <1>2

\* clsPortLpbStatus ages only marks of ports that are not shut.
LEMMA ClsStep ==
  ASSUME NodeType, NodeInv, NEW v \in Vlans \union {0}, clsPortLpbStatus(v)
  PROVE  SectionKeeps
<1> DEFINE F(p) == IF v \in listed /\ stat[v][p].mask /\ ~stat[v][p].down /\ ~recFlag[p]
                   THEN [stat[v][p] EXCEPT !.clr = @ + 1] ELSE stat[v][p]
<1>1. stat' = [stat EXCEPT ![v] = [p \in Ports |-> F(p)]] /\ UNCHANGED <<listed, alarms, portVars>>
  BY DEF clsPortLpbStatus
<1>2. ASSUME v \in Vlans, NEW p \in Ports
      PROVE  /\ F(p) \in Entry
             /\ F(p).down <=> stat[v][p].down
             /\ F(p).mask <=> stat[v][p].mask
             /\ stat[v][p].down => F(p) = stat[v][p]
             /\ v \notin listed => F(p) = stat[v][p]
  <2>1. stat[v][p] \in Entry
    BY <1>2 DEF NodeType
  <2> QED
    BY <2>1 DEF Entry
<1>3. /\ stat' \in [Vlans -> [Ports -> Entry]]
      /\ v \in Vlans => \A p \in Ports : stat'[v][p] = F(p)
      /\ \A w \in Vlans \ {v}, p \in Ports : stat'[w][p] = stat[w][p]
  BY <1>1, <1>2 DEF NodeType
<1> HIDE DEF F
<1>4. NodeType'
  BY <1>1, <1>3 DEF NodeType
<1>5. NodeInv'
  <2>1. \A w \in Vlans \ listed', p \in Ports : stat'[w][p] = Clear
    BY <1>1, <1>2, <1>3 DEF NodeInv
  <2>2. \A w \in Vlans, p \in Ports : stat'[w][p].down => stat'[w][p].mask /\ stat'[w][p].clr = 0
    BY <1>2, <1>3 DEF NodeInv
  <2>3. \A w \in Vlans, p \in Ports : alarms'[w][p] = 1 => w \in listed' /\ stat'[w][p].mask
    BY <1>1, <1>2, <1>3 DEF NodeInv, AlarmHasMark
  <2> QED
    BY <1>1, <2>1, <2>2, <2>3 DEF NodeInv, AlarmHasMark
<1>6. ASSUME NEW p \in Ports, p \in shut' \ forgotten'
      PROVE  p \in shut \ forgotten /\ (Recorded(p) => Recorded(p)')
  BY <1>1, <1>2, <1>3, <1>6 DEF Recorded, NodeType
<1> QED
  BY <1>4, <1>5, <1>6 DEF SectionKeeps, Remembers

\* reportPortsLpbStatus takes the record only of ports that are up, and frees a node
\* only when no port is marked.
LEMMA ReportStep ==
  ASSUME NodeType, NodeInv, NEW v \in Vlans \union {0}, reportPortsLpbStatus(v), UNCHANGED portVars
  PROVE  SectionKeeps
<1>1. CASE v \notin listed
  BY <1>1, NodesSame DEF reportPortsLpbStatus
<1>2. CASE v \in listed
  <2>0. v \in Vlans
    BY <1>2 DEF NodeType
  <2> DEFINE F(p) == IF DeletesNode(v) THEN Clear ELSE [stat[v][p] EXCEPT !.down = @ /\ ~admin[p]]
             looped == {p \in Ports : stat[v][p].mask /\ stat[v][p].clr = 0 /\ timeCounter = 1}
  <2>1. /\ Alarm(v, 1, looped)
        /\ listed' = IF DeletesNode(v) THEN listed \ {v} ELSE listed
        /\ stat' = [stat EXCEPT ![v] = [p \in Ports |-> F(p)]]
        /\ UNCHANGED portVars
    BY <1>2 DEF reportPortsLpbStatus
  <2>2. ASSUME NEW p \in Ports
        PROVE  /\ F(p) \in Entry
               /\ F(p).down => stat[v][p].down
               /\ stat[v][p].down /\ ~admin[p] => F(p).down
               /\ F(p).mask <=> stat[v][p].mask
               /\ stat[v][p].mask => ~DeletesNode(v)
               /\ F(p).down => F(p).clr = stat[v][p].clr
    <3>1. stat[v][p] \in Entry
      BY <2>0 DEF NodeType
    <3>2. CASE DeletesNode(v)
      <4>1. ~stat[v][p].mask /\ F(p) = Clear
        BY <3>2 DEF DeletesNode
      <4>2. ~stat[v][p].down
        BY <2>0, <4>1 DEF NodeInv
      <4> HIDE DEF F
      <4> QED
        BY <4>1, <4>2, ClearEntry
    <3>3. CASE ~DeletesNode(v)
      BY <3>1, <3>3 DEF Entry
    <3> QED
      BY <3>2, <3>3
  <2>3. /\ stat' \in [Vlans -> [Ports -> Entry]]
        /\ \A p \in Ports : stat'[v][p] = F(p)
        /\ \A w \in Vlans \ {v}, p \in Ports : stat'[w][p] = stat[w][p]
    BY <2>0, <2>1, <2>2 DEF NodeType
  <2>4. DeletesNode(v) => \A p \in Ports : F(p) = Clear
    OBVIOUS
  <2>a. /\ alarms' \in [Vlans -> [Ports -> 0 .. 3]]
        /\ \A p \in Ports : alarms'[v][p] = IF p \in looped THEN 1 ELSE alarms[v][p]
        /\ \A w \in Vlans \ {v}, p \in Ports : alarms'[w][p] = alarms[w][p]
    <3>1. 1 \in 0 .. 3
      OBVIOUS
    <3> QED
      BY <2>0, <2>1, <3>1, AlarmDoes
  <2>b. \A p \in looped : stat[v][p].mask
    OBVIOUS
  <2> HIDE DEF F, looped
  <2>5. NodeType'
    BY <2>1, <2>3, <2>a DEF NodeType
  <2>6. NodeInv'
    <3>1. \A w \in Vlans \ listed', p \in Ports : stat'[w][p] = Clear
      BY <2>1, <2>3, <2>4, <1>2 DEF NodeInv
    <3>2. \A w \in Vlans, p \in Ports : stat'[w][p].down => stat'[w][p].mask /\ stat'[w][p].clr = 0
      BY <2>0, <2>2, <2>3 DEF NodeInv
    <3>3. \A w \in Vlans, p \in Ports : alarms'[w][p] = 1 => w \in listed' /\ stat'[w][p].mask
      BY <2>0, <1>2, <2>1, <2>2, <2>3, <2>a, <2>b DEF NodeInv, AlarmHasMark
    <3> QED
      BY <2>1, <3>1, <3>2, <3>3 DEF NodeInv, AlarmHasMark
  <2>7. ASSUME NEW p \in Ports, p \in shut' \ forgotten'
        PROVE  p \in shut \ forgotten /\ (Recorded(p) => Recorded(p)')
    <3>1. p \in shut /\ p \notin forgotten /\ ~admin[p]
      BY <2>1, <2>7 DEF NodeInv
    <3>2. ASSUME NEW w \in listed, stat[w][p].down PROVE Recorded(p)'
      <4>1. w \in Vlans /\ stat[w][p].mask
        BY <3>2 DEF NodeType, NodeInv
      <4>2. w \in listed' /\ stat'[w][p].down
        BY <2>1, <2>2, <2>3, <3>1, <3>2, <4>1
      <4> QED
        BY <4>2 DEF Recorded
    <3> QED
      BY <3>1, <3>2 DEF Recorded
  <2> QED
    BY <2>5, <2>6, <2>7 DEF SectionKeeps, Remembers
<1> QED
  BY <1>1, <1>2

\* setPortLpbStatus records a port that was shut, or forgets it when malloc fails.
LEMMA MarkStep ==
  ASSUME NodeType, NodeInv, NEW v \in Vlans, NEW p0 \in Ports, NEW shutdown \in BOOLEAN, set.max \in Nat, GaveUp \in Nat,
         Mark(DoMark(v, p0, shutdown))
  PROVE  SectionKeeps /\ (shutdown /\ p0 \in shut' \ forgotten' => Recorded(p0)')
<1>1. setPortLpbStatus(v, p0, shutdown) /\ UNCHANGED <<alarms, admin, shut>>
  BY DEF Mark, DoMark
<1>2. CASE v \notin listed /\ UNCHANGED <<listed, stat, reached>>
           /\ forgotten' = IF shutdown THEN forgotten \union ({p0} \intersect shut) ELSE forgotten
  <2>1. NodeType' /\ NodeInv'
    BY <1>1, <1>2 DEF NodeType, NodeInv, AlarmHasMark
  <2>2. Remembers /\ (shutdown => p0 \notin shut' \ forgotten')
    BY <1>1, <1>2 DEF Remembers, Recorded
  <2> QED
    BY <2>1, <2>2 DEF SectionKeeps
<1>3. CASE /\ listed' = listed \union {v}
           /\ stat' = [stat EXCEPT ![v][p0] = IF v \in listed THEN Marked(@, shutdown) ELSE NewMark(shutdown)]
           /\ forgotten' = IF ~shutdown /\ stat[v][p0].down THEN forgotten \union ({p0} \intersect shut) ELSE forgotten
  <2> DEFINE F == IF v \in listed THEN Marked(stat[v][p0], shutdown) ELSE NewMark(shutdown)
  <2>1. F \in Entry /\ F.mask /\ F.clr = 0 /\ (F.down <=> shutdown)
    <3>1. stat[v][p0] \in Entry
      BY DEF NodeType
    <3>2. CASE v \in listed
      BY <3>1, <3>2 DEF Marked, WakeCount, Entry
    <3>3. CASE v \notin listed
      BY <3>3 DEF NewMark, Clear, Entry
    <3> QED
      BY <3>2, <3>3
  <2>2. /\ stat' \in [Vlans -> [Ports -> Entry]]
        /\ stat'[v][p0] = F
        /\ \A w \in Vlans, p \in Ports : w # v \/ p # p0 => stat'[w][p] = stat[w][p]
    BY <1>3, <2>1 DEF NodeType
  <2> HIDE DEF F
  <2>3. NodeType'
    BY <1>1, <1>3, <2>2 DEF NodeType
  <2>4. NodeInv'
    <3>1. \A w \in Vlans \ listed', p \in Ports : stat'[w][p] = Clear
      BY <1>3, <2>2 DEF NodeInv
    <3>2. \A w \in Vlans, p \in Ports : stat'[w][p].down => stat'[w][p].mask /\ stat'[w][p].clr = 0
      BY <2>1, <2>2 DEF NodeInv
    <3>3. \A w \in Vlans, p \in Ports : alarms'[w][p] = 1 => w \in listed' /\ stat'[w][p].mask
      BY <1>1, <1>3, <2>1, <2>2 DEF NodeInv, AlarmHasMark
    <3> QED
      BY <1>1, <3>1, <3>2, <3>3 DEF NodeInv, AlarmHasMark
  <2>5. ASSUME NEW p \in Ports, p \in shut' \ forgotten'
        PROVE  p \in shut \ forgotten /\ (Recorded(p) => Recorded(p)')
    <3>1. p \in shut /\ p \notin forgotten /\ (p = p0 /\ stat[v][p0].down => shutdown)
      BY <1>1, <1>3, <2>5
    <3>2. ASSUME NEW w \in listed, stat[w][p].down PROVE Recorded(p)'
      <4>1. w \in Vlans /\ w \in listed'
        BY <1>3, <3>2 DEF NodeType
      <4>2. stat'[w][p].down
        BY <2>1, <2>2, <3>1, <3>2, <4>1
      <4> QED
        BY <4>1, <4>2 DEF Recorded
    <3> QED
      BY <3>1, <3>2 DEF Recorded
  <2>6. shutdown => Recorded(p0)'
    BY <1>3, <2>1, <2>2 DEF Recorded
  <2> QED
    BY <2>3, <2>4, <2>5, <2>6 DEF SectionKeeps, Remembers
<1> QED
  BY <1>1, <1>2, <1>3 DEF setPortLpbStatus

\* resetLpbPort opens, or forgets, every port that is recorded.
LEMMA ResetStep ==
  ASSUME NodeType, NodeInv, NEW force \in BOOLEAN, resetLpbPort(force)
  PROVE  SectionKeeps /\ (force => \A p \in Ports : Recorded(p) => p \notin shut' \ forgotten')
<1>1. CASE ~force /\ set.policy # 0
  BY <1>1, NodesSame DEF resetLpbPort
<1>2. CASE ~(~force /\ set.policy # 0)
  <2>1. PICK unsent \in SUBSET ShutEntries, failed \in SUBSET {e[2] : e \in ShutEntries} :
          /\ Opened({e[2] : e \in ShutEntries} \ failed)
          /\ forgotten' = (forgotten \ {e[2] : e \in ShutEntries}) \union (failed \intersect shut)
          /\ alarms' = [v \in Vlans |-> [p \in Ports |->
               IF <<v, p>> \in ShutEntries \ unsent THEN 2 ELSE alarms[v][p]]]
          /\ stat' = [v \in Vlans |-> [p \in Ports |->
               IF <<v, p>> \in ShutEntries \ unsent
               THEN [mask |-> FALSE, down |-> FALSE, clr |-> 0, wake |-> stat[v][p].wake, slp |-> stat[v][p].slp]
               ELSE stat[v][p]]]
          /\ listed' = listed
    BY <1>2 DEF resetLpbPort
  <2> DEFINE had == {e[2] : e \in ShutEntries}
             R(v, p) == <<v, p>> \in ShutEntries \ unsent
  <2>2. \A v \in Vlans, p \in Ports : <<v, p>> \in ShutEntries <=> v \in listed /\ stat[v][p].down
    BY DEF ShutEntries
  <2>3. ASSUME NEW v \in Vlans, NEW p \in Ports
        PROVE  /\ stat'[v][p] \in Entry
               /\ stat'[v][p].down => ~R(v, p) /\ stat'[v][p] = stat[v][p]
               /\ ~R(v, p) => stat'[v][p] = stat[v][p] /\ alarms'[v][p] = alarms[v][p]
               /\ R(v, p) => alarms'[v][p] = 2 /\ v \in listed
    <3>1. stat[v][p] \in Entry
      BY DEF NodeType
    <3>2. CASE R(v, p)
      <4>1. stat'[v][p] = [mask |-> FALSE, down |-> FALSE, clr |-> 0, wake |-> stat[v][p].wake, slp |-> stat[v][p].slp]
        BY <2>1, <3>2
      <4> QED
        BY <2>1, <2>2, <3>1, <3>2, <4>1 DEF Entry
    <3>3. CASE ~R(v, p)
      BY <2>1, <3>1, <3>3
    <3> QED
      BY <3>2, <3>3
  <2>4. stat' \in [Vlans -> [Ports -> Entry]]
    <3> DEFINE G(v, p) == IF R(v, p)
               THEN [mask |-> FALSE, down |-> FALSE, clr |-> 0, wake |-> stat[v][p].wake, slp |-> stat[v][p].slp]
               ELSE stat[v][p]
    <3>1. stat' = [v \in Vlans |-> [p \in Ports |-> G(v, p)]]
      BY <2>1
    <3>2. \A v \in Vlans, p \in Ports : G(v, p) \in Entry
      BY DEF NodeType, Entry
    <3> HIDE DEF G
    <3> QED
      BY <3>1, <3>2
  <2>5. alarms' \in [Vlans -> [Ports -> 0 .. 3]]
    BY <2>1 DEF NodeType
  <2>b. DOMAIN admin' = Ports \union {PonPort} /\ shut' = shut \ (had \ failed)
        /\ \A p \in shut' : p \in Ports \union {PonPort} /\ ~admin'[p]
    BY <2>1, OpenedKeeps
  <2>6. \A p \in Ports : p \in shut' \ forgotten' => p \in shut \ forgotten /\ p \notin had
    BY <2>1, <2>b
  <2>7. \A v \in Vlans, p \in Ports : p \notin had => ~R(v, p)
    BY DEF ShutEntries
  <2>8. \A p \in Ports : Recorded(p) => p \in had
    <3>1. ASSUME NEW p \in Ports, NEW v \in listed, stat[v][p].down PROVE p \in had
      <4>1. <<v, p>> \in ShutEntries
        BY <2>2, <3>1 DEF NodeType
      <4> QED
        BY <4>1
    <3> QED
      BY <3>1 DEF Recorded
  <2> HIDE DEF had, R
  <2>9. NodeType'
    BY <2>1, <2>4, <2>5, <2>b DEF NodeType
  <2>10. NodeInv'
    <3>1. ASSUME NEW w \in Vlans \ listed', NEW p \in Ports PROVE stat'[w][p] = Clear
      <4>1. w \in Vlans /\ w \notin listed /\ ~R(w, p)
        BY <2>1, <2>3
      <4>2. stat'[w][p] = stat[w][p]
        BY <2>3, <4>1
      <4> QED
        BY <4>1, <4>2 DEF NodeInv
    <3>2. \A w \in Vlans, p \in Ports : stat'[w][p].down => stat'[w][p].mask /\ stat'[w][p].clr = 0
      BY <2>3 DEF NodeInv
    <3>3. \A w \in Vlans, p \in Ports : alarms'[w][p] = 1 => w \in listed' /\ stat'[w][p].mask
      BY <2>1, <2>3 DEF NodeInv, AlarmHasMark
    <3> QED
      BY <2>b, <3>1, <3>2, <3>3 DEF NodeInv, AlarmHasMark
  <2> QED
    BY <2>6, <2>8, <2>9, <2>10 DEF SectionKeeps, Remembers
<1> QED
  BY <1>1, <1>2

\* freeLpbStatusList frees all nodes and leaves the ports as they are.
LEMMA FreeStep ==
  ASSUME NodeType, NodeInv, freeLpbStatusList, UNCHANGED portVars
  PROVE  NodeType' /\ NodeInv' /\ UNCHANGED <<shut, forgotten>>
<1>1. \A v \in Vlans, p \in Ports : stat'[v][p] = Clear /\ alarms'[v][p] = IF alarms[v][p] = 1 THEN 3 ELSE alarms[v][p]
  BY DEF freeLpbStatusList, Stale
<1>2. \A v \in Vlans, p \in Ports : alarms'[v][p] # 1
  BY <1>1
<1>3. stat' \in [Vlans -> [Ports -> Entry]] /\ listed' = {} /\ UNCHANGED <<admin, shut, forgotten>>
  BY ClearEntry DEF freeLpbStatusList
<1>4. alarms' \in [Vlans -> [Ports -> 0 .. 3]]
  BY DEF freeLpbStatusList, NodeType, Stale
<1> QED
  BY <1>1, <1>2, <1>3, <1>4, ClearEntry DEF NodeType, NodeInv, AlarmHasMark

\* What a thread does under the semaphore.
LEMMA SectionStep ==
  ASSUME TypeInv, NodeInv, NEW d \in Work, d.op \in Sections, Section(d)
  PROVE  /\ NodeType' /\ NodeInv'
         /\ d.op # "free" => Remembers
         /\ d.op = "free" => UNCHANGED <<shut, forgotten>>
         /\ \A p \in Ports : (\E v \in Vlans : d = DoMark(v, p, TRUE)) /\ p \in shut' \ forgotten' => Recorded(p)'
         /\ d = DoReset(TRUE) => \A p \in Ports : Recorded(p) => p \notin shut' \ forgotten'
<1> USE DEF Section, Sections
<1>0. /\ NodeType /\ set.max \in Nat /\ GaveUp \in Nat
      /\ d.op \in {"wake", "cls", "report"} => VidOf(d) \in Vlans \union {0}
  BY WorkHas, LoopDetectAssumption DEF TypeInv, LoopDetectAssumption, VidOf
<1>a. /\ d.op # "mark" => \A p \in Ports, v \in Vlans : d # DoMark(v, p, TRUE)
      /\ d.op # "reset" => d # DoReset(TRUE)
  BY DEF DoMark, DoReset
<1>1. CASE d.op = "reset"
  <2>1. resetLpbPort(d.force) /\ d.force \in BOOLEAN
    BY <1>1, WorkHas
  <2>2. d = DoReset(TRUE) => d.force
    BY DEF DoReset
  <2> QED
    BY <1>0, <1>1, <1>a, <2>1, <2>2, ResetStep DEF SectionKeeps
<1>2. CASE d.op = "free"
  BY <1>0, <1>2, <1>a, FreeStep
<1>3. CASE d.op = "wake"
  <2>1. WakeupPorts(VidOf(d))
    BY <1>3
  <2> QED
    BY <1>0, <1>3, <1>a, <2>1, WakeStep DEF SectionKeeps
<1>4. CASE d.op = "cls"
  <2>1. clsPortLpbStatus(VidOf(d))
    BY <1>4
  <2> QED
    BY <1>0, <1>4, <1>a, <2>1, ClsStep DEF SectionKeeps
<1>5. CASE d.op = "mark"
  <2>1. Mark(d) /\ d.vid \in Vlans /\ d.port \in Ports /\ d.shutdown \in BOOLEAN /\ d = DoMark(d.vid, d.port, d.shutdown)
    BY <1>5, WorkHas
  <2>2. SectionKeeps /\ (d.shutdown /\ d.port \in shut' \ forgotten' => Recorded(d.port)')
    <3> DEFINE v == d.vid
               p == d.port
               s == d.shutdown
    <3>1. Mark(DoMark(v, p, s)) /\ v \in Vlans /\ p \in Ports /\ s \in BOOLEAN
      BY <2>1
    <3> HIDE DEF v, p, s
    <3>2. SectionKeeps /\ (s /\ p \in shut' \ forgotten' => Recorded(p)')
      BY <1>0, <3>1, MarkStep
    <3> QED
      BY <3>2 DEF v, p, s
  <2>3. \A p \in Ports, v \in Vlans : d = DoMark(v, p, TRUE) => d.shutdown /\ d.port = p
    BY DEF DoMark
  <2> QED
    BY <1>5, <1>a, <2>2, <2>3 DEF SectionKeeps
<1>6. CASE d.op = "report"
  <2>1. reportPortsLpbStatus(VidOf(d)) /\ UNCHANGED portVars
    BY <1>6
  <2> QED
    BY <1>0, <1>6, <1>a, <2>1, ReportStep DEF SectionKeeps
<1>7. CASE d.op = "led"
  BY <1>0, <1>7, <1>a, NodesSame DEF SectionKeeps
<1> QED
  BY <1>1, <1>2, <1>3, <1>4, <1>5, <1>6, <1>7

-----------------------------------------------------------------------------
\* All work but the free of the nodes.
Plain == Work \ {Do("free")}

\* What is left to do after the first thing frees nothing, but after a reset.
LEMMA RestOfTodo ==
  ASSUME TypeInv, FreeInv, todo # <<>>
  PROVE  /\ Head(todo) \in Work
         /\ Tail(todo) \in Seq(Work)
         /\ Head(todo).op \notin {"reset", "free"} => Tail(todo) \in Seq(Plain)
<1>1. todo \in Seq(Work)
  BY DEF TypeInv
<1>2. Head(todo) \in Work /\ Tail(todo) \in Seq(Work)
  BY <1>1
<1>3. CASE todo \in Seq(Plain)
  BY <1>2, <1>3
<1>4. CASE Head(todo).op \in {"reset", "free"}
  BY <1>2, <1>4
<1> QED
  BY <1>2, <1>3, <1>4 DEF FreeInv, Plain, DoReset, Do

\* Plain work is work.
LEMMA PlainIsWork == \A s : s \in Seq(Plain) => s \in Seq(Work)
BY DEF Plain

\* The task has looked at something and has other things to do.
LEMMA TaskMoves ==
  ASSUME Inv, Running, UNCHANGED <<set, nodeVars, portVars, threadVars, task, pkt>>,
         todo # <<>> => Head(todo).op # "mark",
         todo' \in Seq(Plain) \/ (Stopping /\ todo' = <<DoReset(TRUE), Do("free"), Do("led")>>)
  PROVE  Inv'
<1>1. todo' \in Seq(Work)
  <2>1. <<DoReset(TRUE), Do("free"), Do("led")>> \in Seq(Work)
    <3> DEFINE reset == DoReset(TRUE)
    <3>1. reset \in Work /\ Do("free") \in Work /\ Do("led") \in Work
      BY WorkIs
    <3> HIDE DEF reset
    <3>2. <<reset, Do("free"), Do("led")>> \in Seq(Work)
      BY <3>1
    <3> QED
      BY <3>2 DEF reset
  <2> QED
    BY <2>1, PlainIsWork
<1>2. TypeInv' /\ NodeInv'
  BY <1>1, NodesSame DEF Inv, TypeInv, SectionKeeps
<1>3. ThreadInv' /\ FreeInv'
  BY DEF Inv, ThreadInv, FreeInv, Stopping, Running, Plain
<1>4. \A p \in Ports : ~MarkNext(todo, p)
  BY DEF MarkNext, DoMark
<1>5. ShutInv'
  BY <1>4 DEF Inv, ShutInv, MarkNext, Recorded
<1> QED
  BY <1>2, <1>3, <1>5 DEF Inv

\* EthPortLoopBackDetectTask starts a round or ends.
LEMMA TaskRoundStep == Inv /\ TaskRound => Inv'
<1> SUFFICES ASSUME Inv, TaskRound PROVE Inv'
  OBVIOUS
<1>1. CASE set.enable
  <2>1. todo' \in Seq(Plain)
    <3>1. Do("call") \in Plain /\ todo' = <<Do("call")>>
      BY <1>1, WorkIs DEF TaskRound, Plain
    <3> QED
      BY <3>1
  <2> QED
    BY <1>1, <2>1, TaskMoves DEF TaskRound
<1>2. CASE ~set.enable
  <2>1. todo' = <<>> /\ task' = "over" /\ Running /\ UNCHANGED <<set, nodeVars, portVars, threadVars, todo, pkt>>
    BY <1>2 DEF TaskRound
  <2>2. TypeInv' /\ NodeInv'
    BY <2>1, NodesSame DEF Inv, TypeInv, SectionKeeps
  <2>3. ThreadInv' /\ FreeInv' /\ ShutInv'
    BY <2>1 DEF Inv, ThreadInv, FreeInv, ShutInv, Recorded, MarkNext, Stopping, Running
  <2> QED
    BY <2>2, <2>3 DEF Inv
<1> QED
  BY <1>1, <1>2

\* ethLoopBackDetectActionCall: the end is planned only when the task is being stopped.
LEMMA ActionCallStep == Inv /\ ActionCall => Inv'
<1> SUFFICES ASSUME Inv, ActionCall PROVE Inv'
  OBVIOUS
<1>1. todo # <<>> /\ Head(todo).op # "mark" /\ Running /\ UNCHANGED <<set, nodeVars, portVars, threadVars, task, pkt>>
  BY DEF ActionCall, Doing
<1>2. CASE set.enable
  <2>1. todo' \in Seq(Plain)
    <3> DEFINE reset == DoReset(FALSE)
    <3>1. reset \in Plain /\ Do("plan") \in Plain /\ todo' = <<reset, Do("plan")>>
      BY <1>2, WorkIs DEF ActionCall, Plain
    <3> HIDE DEF reset
    <3> QED
      BY <3>1
  <2> QED
    BY <1>1, <2>1, TaskMoves
<1>3. CASE ~set.enable
  <2>1. Stopping /\ todo' = <<DoReset(TRUE), Do("free"), Do("led")>>
    BY <1>1, <1>3 DEF ActionCall, Inv, ThreadInv, Running
  <2> QED
    BY <1>1, <2>1, TaskMoves
<1> QED
  BY <1>2, <1>3

\* ethLoopBackDetectActionCall plans a round.
LEMMA PlanStep == Inv /\ Plan => Inv'
<1> SUFFICES ASSUME Inv, Plan PROVE Inv'
  OBVIOUS
<1>1. todo # <<>> /\ Head(todo).op # "mark" /\ Running /\ UNCHANGED <<set, nodeVars, portVars, threadVars, task, pkt>>
  BY DEF Plan, Doing
<1>2. /\ <<DoVlan("wake", 0), DoVlan("check", 0), DoVlan("report", 0)>> \in Seq(Plain)
      /\ <<DoVlan("next", 0)>> \in Seq(Plain) /\ <<Do("led")>> \in Seq(Plain)
  BY WorkIs DEF Plain
<1>3. todo' \in Seq(Plain)
  BY <1>2 DEF Plan
<1> QED
  BY <1>1, <1>3, TaskMoves

\* ethLoopBackDetectActionCall goes on to the next VLAN.
LEMMA NextVlanStep == Inv /\ NextVlan => Inv'
<1> SUFFICES ASSUME Inv, NextVlan PROVE Inv'
  OBVIOUS
<1>1. todo # <<>> /\ Head(todo).op = "next" /\ Running /\ UNCHANGED <<set, nodeVars, portVars, threadVars, task, pkt>>
  BY DEF NextVlan, Doing
<1>2. Tail(todo) \in Seq(Plain)
  BY <1>1, RestOfTodo DEF Inv
<1> DEFINE after == VlansAfter(Head(todo).vid)
<1>3. CASE after = {}
  BY <1>1, <1>2, <1>3, TaskMoves DEF NextVlan
<1>4. CASE after # {}
  <2>1. after \subseteq Vlans /\ after \subseteq Nat
    <3>1. Vlans \subseteq Nat
      BY LoopDetectAssumption DEF LoopDetectAssumption
    <3> QED
      BY <3>1 DEF VlansAfter
  <2>2. \E v \in after : \A w \in after : v =< w
    BY <1>4, <2>1, LeastNatural
  <2>3. Min(after) \in Vlans
    BY <2>1, <2>2 DEF Min
  <2> DEFINE v == Min(after)
  <2>4. v \in Vlans
    BY <2>3
  <2>5. todo' = VlanRound(v) \o <<DoVlan("next", v)>> \o Tail(todo)
    BY <1>4 DEF NextVlan
  <2> HIDE DEF v
  <2>6. VlanRound(v) \in Seq(Plain) /\ <<DoVlan("next", v)>> \in Seq(Plain)
    BY <2>4, WorkIs DEF Plain, VlanRound
  <2>7. todo' \in Seq(Plain)
    BY <1>2, <2>5, <2>6
  <2> QED
    BY <1>1, <2>7, TaskMoves
<1> QED
  BY <1>3, <1>4

\* The links of a VLAN are looked at.
LEMMA LinksStep == Inv /\ Links => Inv'
<1> SUFFICES ASSUME Inv, Links PROVE Inv'
  OBVIOUS
<1>1. todo # <<>> /\ Head(todo).op = "links" /\ Running /\ UNCHANGED <<set, nodeVars, portVars, threadVars, task, pkt>>
  BY DEF Links, Doing
<1>2. Tail(todo) \in Seq(Plain) /\ Head(todo).vid \in Vlans \union {0}
  BY <1>1, RestOfTodo, WorkHas DEF Inv
<1>3. PICK next \in {"check", "cls"} : todo' = <<DoVlan(next, Head(todo).vid)>> \o Tail(todo)
  BY DEF Links
<1>4. DoVlan(next, Head(todo).vid) \in Plain
  BY <1>2, WorkIs DEF Plain
<1>5. todo' \in Seq(Plain)
  BY <1>2, <1>3, <1>4
<1> QED
  BY <1>1, <1>5, TaskMoves

\* The MAC table is looked at.
LEMMA CheckMacTableStep == Inv /\ CheckMacTable => Inv'
<1> SUFFICES ASSUME Inv, CheckMacTable PROVE Inv'
  OBVIOUS
<1>1. todo # <<>> /\ Head(todo).op = "check" /\ Running /\ UNCHANGED <<set, nodeVars, portVars, threadVars, task, pkt>>
  BY DEF CheckMacTable, Doing
<1>2. Tail(todo) \in Seq(Plain) /\ Head(todo).vid \in Vlans \union {0}
  BY <1>1, RestOfTodo, WorkHas DEF Inv
<1> DEFINE v == VidOf(Head(todo))
           Found(p) == IF ~Shutting THEN <<DoMark(v, p, FALSE)>>
                       ELSE IF admin[p] THEN <<DoShut(v, p, p)>> ELSE <<>>
<1>3. v \in Vlans \union {0}
  BY <1>2 DEF VidOf, Inv, TypeInv
<1>4. PICK first \in {<<DoVlan("cls", v)>>} \union {Found(p) : p \in gtGetSrcPortForMac(v)} : todo' = first \o Tail(todo)
  BY DEF CheckMacTable
<1>5. first \in Seq(Plain)
  <2>1. <<DoVlan("cls", v)>> \in Seq(Plain)
    BY <1>3, WorkIs DEF Plain
  <2>2. ASSUME NEW p \in gtGetSrcPortForMac(v) PROVE Found(p) \in Seq(Plain)
    <3>1. p \in Ports /\ v \in Vlans
      BY <1>3, <2>2 DEF gtGetSrcPortForMac
    <3>2. DoMark(v, p, FALSE) \in Plain /\ DoShut(v, p, p) \in Plain
      BY <3>1, WorkIs DEF Plain
    <3> DEFINE mark == DoMark(v, p, FALSE)
               shuts == DoShut(v, p, p)
    <3>3. Found(p) \in {<<>>, <<mark>>, <<shuts>>} /\ mark \in Plain /\ shuts \in Plain
      BY <3>2
    <3> HIDE DEF v, mark, shuts, Found
    <3>4. <<>> \in Seq(Plain) /\ <<mark>> \in Seq(Plain) /\ <<shuts>> \in Seq(Plain)
      BY <3>3
    <3> QED
      BY <3>3, <3>4
  <2> QED
    BY <1>4, <2>1, <2>2
<1>6. todo' \in Seq(Plain)
  BY <1>2, <1>4, <1>5
<1> QED
  BY <1>1, <1>6, TaskMoves

\* A sequence with one more in front.
LEMMA InFront ==
  ASSUME NEW S, NEW x \in S, NEW s \in Seq(S)
  PROVE  <<x>> \o s \in Seq(S) /\ <<x>> \o s # <<>> /\ Head(<<x>> \o s) = x /\ Tail(<<x>> \o s) = s
OBVIOUS

\* A port the task shuts is what it records next.
LEMMA TaskShutsStep == Inv /\ TaskShuts => Inv'
<1> SUFFICES ASSUME Inv, TaskShuts PROVE Inv'
  OBVIOUS
<1> DEFINE d == Head(todo)
<1>1. /\ todo # <<>> /\ d.op = "shut" /\ Running /\ UNCHANGED <<set, nodeVars, threadVars, task, pkt>>
      /\ Tail(todo) \in Seq(Plain)
      /\ d.vid \in Vlans /\ d.port \in Ports /\ d.at \in {d.port, PonPort}
  BY RestOfTodo, WorkHas DEF TaskShuts, Doing, Inv
<1>2. CASE todo' = Tail(todo) /\ UNCHANGED portVars
  BY <1>1, <1>2, TaskMoves
<1>3. CASE ShutPort(d.at) /\ todo' = <<DoMark(d.vid, d.port, TRUE)>> \o Tail(todo)
  <2> DEFINE mark == DoMark(d.vid, d.port, TRUE)
  <2>1. mark \in Plain
    BY <1>1, WorkIs DEF Plain
  <2>2. mark = DoMark(d.vid, d.port, TRUE) /\ todo' = <<mark>> \o Tail(todo)
    BY <1>3
  <2> HIDE DEF mark
  <2>3. todo' \in Seq(Plain) /\ todo' # <<>> /\ Head(todo') = mark
    BY <1>1, <2>1, <2>2, InFront
  <2>4. /\ DOMAIN admin' = DOMAIN admin /\ shut' = shut \union {d.at} /\ forgotten' = forgotten
        /\ \A p \in shut' : p \in Ports \union {PonPort} /\ ~admin'[p]
    BY <1>1, <1>3 DEF ShutPort, Inv, TypeInv, NodeType, NodeInv
  <2>5. TypeInv' /\ NodeInv'
    BY <1>1, <2>3, <2>4, PlainIsWork DEF Inv, TypeInv, NodeType, NodeInv, AlarmHasMark
  <2>6. ThreadInv' /\ FreeInv'
    BY <1>1, <2>3 DEF Inv, ThreadInv, FreeInv, Stopping, Running, Plain
  <2>7. ASSUME NEW p \in Ports, p \in shut' \ forgotten'
        PROVE  Recorded(p)' \/ MarkNext(todo', p) \/ MarkNext(pkt', p)
    <3>1. CASE p = d.at
      <4>1. p = d.port
        BY <1>1, <2>7, <3>1, LoopDetectAssumption DEF LoopDetectAssumption
      <4> QED
        BY <1>1, <2>2, <2>3, <4>1 DEF MarkNext
    <3>2. CASE p # d.at
      <4>1. p \in shut \ forgotten /\ ~MarkNext(todo, p)
        BY <1>1, <2>4, <2>7, <3>2 DEF MarkNext, DoMark
      <4> QED
        BY <1>1, <4>1 DEF Inv, ShutInv, Recorded, MarkNext
    <3> QED
      BY <3>1, <3>2
  <2> QED
    BY <2>5, <2>6, <2>7 DEF Inv, ShutInv
<1> QED
  BY <1>2, <1>3 DEF TaskShuts

\* A section of the task; the free of the nodes comes after a reset by force.
LEMMA TaskSectionStep == Inv /\ TaskSection => Inv'
<1> SUFFICES ASSUME Inv, TaskSection PROVE Inv'
  OBVIOUS
<1> DEFINE d == Head(todo)
<1>1. /\ todo # <<>> /\ d.op \in Sections /\ Section(d) /\ Running /\ todo' = Tail(todo)
      /\ UNCHANGED <<set, threadVars, task, pkt>>
  BY DEF TaskSection
<1>2. d \in Work /\ Tail(todo) \in Seq(Work) /\ (d.op \notin {"reset", "free"} => Tail(todo) \in Seq(Plain))
  BY <1>1, RestOfTodo DEF Inv
<1>3. /\ NodeType' /\ NodeInv'
      /\ d.op # "free" => Remembers
      /\ d.op = "free" => UNCHANGED <<shut, forgotten>>
      /\ \A p \in Ports : (\E v \in Vlans : d = DoMark(v, p, TRUE)) /\ p \in shut' \ forgotten' => Recorded(p)'
      /\ d = DoReset(TRUE) => \A p \in Ports : Recorded(p) => p \notin shut' \ forgotten'
  BY <1>1, <1>2, SectionStep DEF Inv
<1>4. TypeInv'
  BY <1>1, <1>2, <1>3 DEF Inv, TypeInv
<1>5. ThreadInv'
  BY <1>1 DEF Inv, ThreadInv, Stopping, Running
<1>6. CASE todo \in Seq(Plain)
  <2>1. d \in Plain /\ Tail(todo) \in Seq(Plain)
    BY <1>1, <1>6
  <2>2. d.op # "free"
    BY <2>1, WorkHas DEF Plain
  <2>3. FreeInv'
    BY <1>1, <2>1 DEF FreeInv, Plain
  <2>4. ASSUME NEW p \in Ports, p \in shut' \ forgotten'
        PROVE  Recorded(p)' \/ MarkNext(pkt', p)
    BY <1>1, <1>3, <2>2, <2>4 DEF Remembers, MarkNext, Inv, ShutInv
  <2> QED
    BY <1>3, <1>4, <1>5, <2>3, <2>4 DEF Inv, ShutInv
<1>7. CASE Stopping /\ todo = <<DoReset(TRUE), Do("free"), Do("led")>>
  <2>1. d = DoReset(TRUE) /\ Tail(todo) = <<Do("free"), Do("led")>>
    BY <1>7
  <2>2. d.op = "reset" /\ \A p \in Ports : ~MarkNext(todo, p) /\ ~MarkNext(pkt, p)
    <3>1. d.op = "reset" /\ pkt # <<>> /\ Head(pkt).op \in {"delete", "join"}
      BY <1>7, <2>1 DEF DoReset, Stopping, Do
    <3>2. \A v \in Vlans, p \in Ports : DoMark(v, p, TRUE).op = "mark"
      BY DEF DoMark
    <3> QED
      BY <3>1, <3>2 DEF MarkNext
  <2>3. ASSUME NEW p \in Ports PROVE p \notin shut' \ forgotten'
    BY <1>3, <2>1, <2>2 DEF Remembers, Inv, ShutInv
  <2>4. FreeInv'
    BY <1>1, <1>7, <2>1, <2>3 DEF FreeInv, Stopping
  <2> QED
    BY <1>3, <1>4, <1>5, <2>3, <2>4 DEF Inv, ShutInv
<1>8. CASE Stopping /\ todo = <<Do("free"), Do("led")>> /\ shut \intersect Ports \subseteq forgotten
  <2>1. d = Do("free") /\ Tail(todo) = <<Do("led")>> /\ d.op = "free"
    BY <1>8 DEF Do
  <2>2. Do("led") \in Plain
    BY WorkIs DEF Plain
  <2>3. Tail(todo) \in Seq(Plain)
    <3>1. <<Do("led")>> \in Seq(Plain)
      BY <2>2
    <3> QED
      BY <2>1, <3>1
  <2>4. FreeInv' /\ \A p \in Ports : p \notin shut' \ forgotten'
    BY <1>1, <1>3, <1>8, <2>1, <2>3 DEF FreeInv, Plain
  <2> QED
    BY <1>3, <1>4, <1>5, <2>4 DEF Inv, ShutInv
<1> QED
  BY <1>6, <1>7, <1>8 DEF Inv, FreeInv, Plain

\* A cancelled task forgets the port it was to record.
LEMMA TaskCancelledStep == Inv /\ TaskCancelled => Inv'
<1> SUFFICES ASSUME Inv, TaskCancelled PROVE Inv'
  OBVIOUS
<1>1. /\ task = "cancelled" /\ task' = "over" /\ todo' = <<>>
      /\ forgotten' = IF Doing(todo, "mark") /\ Head(todo).shutdown
                      THEN forgotten \union ({Head(todo).port} \intersect shut) ELSE forgotten
      /\ UNCHANGED <<set, nodeVars, admin, shut, threadVars, pkt>>
  BY DEF TaskCancelled
<1>2. TypeInv' /\ NodeInv'
  BY <1>1 DEF Inv, TypeInv, NodeType, NodeInv, AlarmHasMark
<1>3. ThreadInv' /\ FreeInv'
  BY <1>1 DEF Inv, ThreadInv, FreeInv, Stopping
<1>4. ASSUME NEW p \in Ports, p \in shut' \ forgotten' PROVE Recorded(p)' \/ MarkNext(pkt', p)
  <2>1. p \in shut \ forgotten
    BY <1>1, <1>4
  <2>2. ~MarkNext(todo, p)
    BY <1>1, <1>4, <2>1 DEF MarkNext, DoMark, Doing
  <2> QED
    BY <1>1, <2>1, <2>2 DEF Inv, ShutInv, Recorded, MarkNext
<1> QED
  BY <1>2, <1>3, <1>4 DEF Inv, ShutInv

-----------------------------------------------------------------------------
\* What the packet thread may have waiting.
LEMMA WaitingHas ==
  /\ \A d \in Waiting : d \in Work \union Messages /\ d.op \notin {"delete", "join", "free"}
  /\ \A d \in Plain : d.op \notin {"delete", "join"} => d \in Waiting
  /\ Messages \subseteq Waiting
<1>1. \A d \in Messages : d.op \in {"set", "control"} /\ d # Do("delete") /\ d # Do("join") /\ d # Do("free")
  BY DEF Messages, Do
<1>2. ASSUME NEW d \in Work \union Messages, d.op \in {"delete", "join", "free"}
      PROVE  d \in {Do("delete"), Do("join"), Do("free")}
  BY <1>1, <1>2, PktHas, WorkHas
<1>3. Do("delete").op = "delete" /\ Do("join").op = "join" /\ Do("free").op = "free"
  BY DEF Do
<1> QED
  BY <1>1, <1>2, <1>3 DEF Waiting, Plain

\* A packet thread that is not stopping the task goes on with what is waiting.
LEMMA RestOfPkt ==
  ASSUME TypeInv, ThreadInv, pkt # <<>>, Head(pkt).op \notin {"delete", "join"}
  PROVE  Head(pkt) \in Waiting /\ Tail(pkt) \in Seq(Waiting) /\ pkt \in Seq(Waiting) /\ ~Stopping
<1>1. ~Stopping
  BY DEF Stopping, Do
<1>2. pkt \in Seq(Waiting)
  BY <1>1 DEF ThreadInv
<1> QED
  BY <1>1, <1>2

\* What is waiting is of the type.
LEMMA WaitingIsWork == \A s : s \in Seq(Waiting) => s \in Seq(Work \union Messages)
BY DEF Waiting

\* With other things to do the packet thread is not stopping the task.
LEMMA NotStopping ==
  ASSUME pkt' \in Seq(Waiting)
  PROVE  ~Stopping'
<1>1. Do("delete") \notin Waiting /\ Do("join") \notin Waiting
  BY DEF Waiting
<1> QED
  BY <1>1 DEF Stopping

\* While the packet thread is not stopping the task, no node is about to be freed.
LEMMA NothingFreed ==
  ASSUME Inv, ~Stopping
  PROVE  todo \in Seq(Plain)
BY DEF Inv, FreeInv, Plain

\* The packet thread goes on with other things and has changed nothing yet.
LEMMA PacketMoves ==
  ASSUME Inv, UNCHANGED <<nodeVars, portVars, threadVars, task, todo>>,
         set' \in Settings,
         set'.enable = set.enable,
         pkt # <<>> => Head(pkt).op \notin {"mark", "delete", "join"},
         pkt' \in Seq(Waiting)
  PROVE  Inv'
<1>1. ~Stopping /\ todo \in Seq(Plain)
  <2>1. Stopping => pkt # <<>> /\ Head(pkt).op \in {"delete", "join"}
    BY DEF Stopping, Do
  <2> QED
    BY <2>1, NothingFreed
<1>2. TypeInv' /\ NodeInv'
  BY NodesSame, WaitingIsWork DEF Inv, TypeInv, SectionKeeps
<1>3. ThreadInv' /\ FreeInv'
  <2>1. ThreadInv'
    <3>1. Waiting' = Waiting
      BY DEF Waiting
    <3>2. Stopping' \/ pkt' \in Seq(Waiting')
      BY <3>1
    <3>3. ~set'.enable /\ task' # "none" => Stopping'
      BY <1>1 DEF Inv, ThreadInv
    <3>4. Stopping' /\ task' = "none" => unmatched'
      BY NotStopping
    <3> QED
      BY <3>2, <3>3, <3>4 DEF Inv, ThreadInv
  <2>2. FreeInv'
    BY <1>1 DEF Inv, FreeInv, Plain
  <2> QED
    BY <2>1, <2>2
<1>4. \A p \in Ports : ~MarkNext(pkt, p)
  BY DEF MarkNext, DoMark
<1>5. ShutInv'
  BY <1>4 DEF Inv, ShutInv, MarkNext, Recorded
<1> QED
  BY <1>2, <1>3, <1>5 DEF Inv

\* A request of the OLT arrives.
LEMMA RequestStep == Inv /\ Request => Inv'
<1> SUFFICES ASSUME Inv, Request PROVE Inv'
  OBVIOUS
<1>1. PICK v \in VidSettings, policy \in Policies, w \in WakeSettings, enable \in BOOLEAN :
        pkt' = <<[op |-> "set", new |-> [vid |-> v]], [op |-> "set", new |-> [policy |-> policy]],
                 [op |-> "set", new |-> w], [op |-> "control", enable |-> enable]>>
  BY DEF Request
<1>2. /\ pkt = <<>> /\ UNCHANGED <<set, nodeVars, portVars, threadVars, task, todo>>
      /\ set \in Settings
  BY DEF Request, Inv, TypeInv
<1>3. /\ [op |-> "set", new |-> [vid |-> v]] \in Waiting /\ [op |-> "set", new |-> [policy |-> policy]] \in Waiting
      /\ [op |-> "set", new |-> w] \in Waiting /\ [op |-> "control", enable |-> enable] \in Waiting
  BY WaitingHas DEF Messages, NewSettings
<1>4. pkt' \in Seq(Waiting)
  BY <1>1, <1>3
<1> QED
  BY <1>2, <1>4, PacketMoves

\* A setting of a request is stored.
LEMMA StoreStep == Inv /\ Store => Inv'
<1> SUFFICES ASSUME Inv, Store PROVE Inv'
  OBVIOUS
<1>1. pkt # <<>> /\ Head(pkt).op = "set" /\ pkt' = Tail(pkt) /\ UNCHANGED <<nodeVars, portVars, threadVars, task, todo>>
  BY DEF Store, Doing
<1>2. Head(pkt) \in Waiting /\ Tail(pkt) \in Seq(Waiting)
  BY <1>1, RestOfPkt DEF Inv
<1>3. Head(pkt).new \in NewSettings
  BY <1>1, <1>2, WaitingHas, PktHas
<1> DEFINE n == Head(pkt).new
<1>4. n \in NewSettings /\ set' = [f \in DOMAIN set |-> IF f \in DOMAIN n THEN n[f] ELSE set[f]]
  BY <1>3 DEF Store
<1> HIDE DEF n
<1>5. /\ set' \in Settings
      /\ set'.enable = set.enable
  BY <1>4, SettingsKept DEF Inv
<1> QED
  BY <1>1, <1>2, <1>5, PacketMoves

\* EthLoopbackDetectControl starts the task under a free id.
LEMMA StartStep == Inv /\ Start => Inv'
<1> SUFFICES ASSUME Inv, Start PROVE Inv'
  OBVIOUS
<1>1. /\ pkt # <<>> /\ Head(pkt).op = "control" /\ pkt' = Tail(pkt)
      /\ UNCHANGED <<nodeVars, portVars, todo>>
  BY DEF Start, Doing
<1>2. Tail(pkt) \in Seq(Waiting) /\ ~Stopping /\ todo \in Seq(Plain)
  BY <1>1, RestOfPkt, NothingFreed DEF Inv
<1>3. set \in Settings
  BY DEF Inv, TypeInv
<1>4. CASE set.enable
  <2>1. UNCHANGED <<set, threadVars, task>>
    BY <1>4 DEF Start
  <2> QED
    BY <1>1, <1>2, <1>3, <2>1, PacketMoves
<1>5. CASE ~set.enable
  <2>1. task = "none"
    BY <1>2, <1>5 DEF Inv, ThreadInv
  <2>2. set' = [set EXCEPT !.enable = TRUE]
    BY <1>5 DEF Start
  <2>3. /\ set' \in Settings
        /\ set'.enable
    BY <1>3, <2>2
  <2> DEFINE id == Min({i \in ThreadIds : threads[i] = "free"})
  <2>4. id \in ThreadIds /\ threads[id] = "free"
    <3> DEFINE S == {i \in ThreadIds : threads[i] = "free"}
    <3>1. 1 \in S
      BY <2>1 DEF Inv, TypeInv, ThreadInv, ThreadIds
    <3>2. S \subseteq ThreadIds /\ S \subseteq Nat
      BY DEF ThreadIds
    <3>3. \E i \in S : \A j \in S : i =< j
      BY <3>1, <3>2, LeastNatural
    <3>4. Min(S) \in S
      BY <3>3 DEF Min
    <3> QED
      BY <3>4
  <2> HIDE DEF id
  <2>5. \/ threads' = [threads EXCEPT ![id] = "loop"] /\ loopId' = id /\ task' = "run" /\ UNCHANGED <<ended, unmatched>>
        \/ UNCHANGED <<threadVars, task>>
    BY <1>5 DEF Start, ThreadCreated, id
  <2>6. TypeInv' /\ NodeInv'
    <3>1. threads' \in [ThreadIds -> {"free", "loop", "timer"}] /\ loopId' \in ThreadIds
          /\ task' \in {"none", "run", "cancelled", "over"}
      BY <2>4, <2>5 DEF Inv, TypeInv
    <3> QED
      BY <1>1, <1>2, <2>3, <3>1, NodesSame, WaitingIsWork DEF Inv, TypeInv, SectionKeeps
  <2>7. ThreadInv'
    <3>1. pkt' \in Seq(Waiting') /\ ~Stopping'
      BY <1>1, <1>2, NotStopping DEF Waiting
    <3>2. /\ \A i \in ThreadIds : threads'[i] = "timer" => i = 0
          /\ \A i \in ThreadIds : threads'[i] = "loop" <=> (i = loopId' /\ task' # "none")
      BY <2>1, <2>4, <2>5 DEF Inv, TypeInv, ThreadInv
    <3>3. /\ task' \in {"none", "over"} => todo' = <<>>
          /\ unmatched' \/ ended' \subseteq {"loop"}
      BY <1>1, <2>1, <2>5 DEF Inv, ThreadInv
    <3> QED
      BY <2>3, <3>1, <3>2, <3>3 DEF ThreadInv
  <2>8. FreeInv' /\ ShutInv'
    <3>1. \A p \in Ports : ~MarkNext(pkt, p)
      BY <1>1 DEF MarkNext, DoMark
    <3> QED
      BY <1>1, <1>2, <3>1 DEF Inv, FreeInv, ShutInv, MarkNext, Recorded, Plain
  <2> QED
    BY <2>6, <2>7, <2>8 DEF Inv
<1> QED
  BY <1>4, <1>5

\* EthLoopbackDetectControl switches the detection off, before it stops the task.
LEMMA StopStep == Inv /\ Stop => Inv'
<1> SUFFICES ASSUME Inv, Stop PROVE Inv'
  OBVIOUS
<1>1. /\ pkt # <<>> /\ Head(pkt).op = "control" /\ pkt' = <<Do("delete")>> /\ set' = [set EXCEPT !.enable = FALSE]
      /\ unmatched' = (unmatched \/ task = "none")
      /\ UNCHANGED <<nodeVars, portVars, threads, loopId, ended, task, todo>>
  BY DEF Stop, Doing
<1>2. ~Stopping /\ todo \in Seq(Plain)
  BY <1>1, RestOfPkt, NothingFreed DEF Inv
<1>3. set' \in Settings
  BY <1>1 DEF Inv, TypeInv
<1>4. pkt' \in Seq(Work \union Messages)
  BY <1>1, WorkIs
<1>5. TypeInv' /\ NodeInv'
  BY <1>1, <1>3, <1>4, NodesSame DEF Inv, TypeInv, SectionKeeps
<1>6. Stopping' /\ (task = "none" => unmatched') /\ (unmatched => unmatched')
  BY <1>1 DEF Stopping
<1>7. ThreadInv'
  BY <1>1, <1>6 DEF Inv, ThreadInv
<1>8. FreeInv' /\ ShutInv'
  <2>1. \A p \in Ports : ~MarkNext(pkt, p)
    BY <1>1 DEF MarkNext, DoMark
  <2> QED
    BY <1>1, <1>2, <2>1 DEF Inv, FreeInv, ShutInv, MarkNext, Recorded, Plain
<1> QED
  BY <1>5, <1>7, <1>8 DEF Inv

\* Whatever the packet thread does to the task, it has marked nothing.
LEMMA StopMoves ==
  ASSUME Inv, Stopping, ThreadInv', UNCHANGED <<set, nodeVars, portVars>>,
         threads' \in [ThreadIds -> {"free", "loop", "timer"}], loopId' \in ThreadIds,
         task' \in {"none", "run", "cancelled", "over"},
         pkt' \in Seq(Work \union Messages), todo' = todo,
         todo = <<>> \/ Stopping'
  PROVE  Inv'
<1>1. TypeInv' /\ NodeInv'
  BY NodesSame DEF Inv, TypeInv, SectionKeeps
<1>2. FreeInv'
  <2>1. CASE todo = <<>>
    BY <2>1 DEF FreeInv
  <2>2. CASE Stopping'
    BY <2>2 DEF Inv, FreeInv, Plain
  <2> QED
    BY <2>1, <2>2
<1>3. \A p \in Ports : ~MarkNext(pkt, p)
  BY DEF MarkNext, DoMark, Stopping, Do
<1>4. ShutInv'
  BY <1>3 DEF Inv, ShutInv, MarkNext, Recorded
<1> QED
  BY <1>1, <1>2, <1>4 DEF Inv

\* A thread is deleted or joined only by a packet thread that has nothing else to do.
LEMMA DoingStops ==
  ASSUME TypeInv, ThreadInv, pkt # <<>>, Head(pkt).op \in {"delete", "join"}
  PROVE  Stopping
<1>1. CASE pkt \in Seq(Waiting)
  <2>1. Head(pkt) \in Waiting
    BY <1>1
  <2> QED
    BY <2>1, WaitingHas
<1> QED
  BY <1>1 DEF ThreadInv

\* gw_thread_delete cancels the task.
LEMMA DeleteStep == Inv /\ Delete => Inv'
<1> SUFFICES ASSUME Inv, Delete PROVE Inv'
  OBVIOUS
<1>1. /\ pkt # <<>> /\ Head(pkt).op = "delete"
      /\ pkt' = IF threads[loopId] = "free" THEN <<>> ELSE <<Do("join")>>
      /\ task' = IF threads[loopId] = "loop" /\ task = "run" THEN "cancelled" ELSE task
      /\ UNCHANGED <<set, nodeVars, portVars, threadVars, todo>>
  BY DEF Delete, Doing
<1>2. Stopping
  BY <1>1, DoingStops DEF Inv
<1>3. pkt' \in Seq(Work \union Messages) /\ task' \in {"none", "run", "cancelled", "over"}
  <2>1. task' \in {"none", "run", "cancelled", "over"}
    BY <1>1 DEF Inv, TypeInv
  <2>2. Do("join") \in Work \union Messages
    BY WorkIs
  <2>3. <<>> \in Seq(Work \union Messages) /\ <<Do("join")>> \in Seq(Work \union Messages)
    BY <2>2
  <2> QED
    BY <1>1, <2>1, <2>3
<1>4. task = "none" <=> task' = "none"
  BY <1>1
<1>5. CASE threads[loopId] = "free"
  <2>1. task = "none" /\ task' = "none" /\ todo = <<>> /\ pkt' = <<>>
    BY <1>1, <1>5 DEF Inv, ThreadInv, TypeInv
  <2>2. ThreadInv'
    BY <1>1, <2>1 DEF Inv, ThreadInv, Stopping
  <2> QED
    BY <1>1, <1>2, <1>3, <2>1, <2>2, StopMoves DEF Inv, TypeInv
<1>6. CASE threads[loopId] # "free"
  <2>1. Stopping'
    BY <1>1, <1>6 DEF Stopping
  <2>2. ThreadInv'
    BY <1>1, <1>2, <1>4, <2>1 DEF Inv, ThreadInv
  <2> QED
    BY <1>1, <1>2, <1>3, <2>1, <2>2, StopMoves DEF Inv, TypeInv
<1> QED
  BY <1>5, <1>6

\* gw_thread_delete finds the task ended and frees its id.
LEMMA JoinStep == Inv /\ Join => Inv'
<1> SUFFICES ASSUME Inv, Join PROVE Inv'
  OBVIOUS
<1>1. /\ pkt # <<>> /\ Head(pkt).op = "join" /\ pkt' = <<>>
      /\ threads[loopId] = "loop" => task = "over"
      /\ ended' = ended \union {threads[loopId]}
      /\ task' = IF threads[loopId] = "loop" THEN "none" ELSE task
      /\ threads' = [threads EXCEPT ![loopId] = "free"]
      /\ UNCHANGED <<set, nodeVars, portVars, loopId, unmatched, todo>>
  BY DEF Join, Doing
<1>2. Stopping
  BY <1>1, DoingStops DEF Inv
<1>3. todo = <<>> /\ task' = "none"
  BY <1>1 DEF Inv, ThreadInv, TypeInv
<1>4. /\ threads' \in [ThreadIds -> {"free", "loop", "timer"}]
      /\ \A i \in ThreadIds : threads'[i] = IF i = loopId THEN "free" ELSE threads[i]
  BY <1>1 DEF Inv, TypeInv
<1>5. ThreadInv'
  <2>1. /\ \A i \in ThreadIds : threads'[i] = "timer" => i = 0
        /\ \A i \in ThreadIds : threads'[i] # "loop"
    BY <1>4 DEF Inv, ThreadInv
  <2>2. unmatched' \/ ended' \subseteq {"loop"}
    BY <1>1, <1>2 DEF Inv, ThreadInv, TypeInv
  <2>3. ~Stopping' /\ pkt' \in Seq(Waiting')
    BY <1>1 DEF Stopping
  <2> QED
    BY <1>3, <2>1, <2>2, <2>3, <1>1 DEF ThreadInv
<1> QED
  BY <1>1, <1>2, <1>3, <1>4, <1>5, StopMoves DEF Inv, TypeInv

\* The port that a frame from the PON side counts for is a user port.
LEMMA FirstIsPort == FirstPortOnVlan \in Ports
<1>1. Ports \subseteq Nat /\ Ports # {}
  BY LoopDetectAssumption DEF LoopDetectAssumption
<1>2. \E p \in Ports : \A q \in Ports : p =< q
  BY <1>1, LeastNatural
<1> QED
  BY <1>2 DEF FirstPortOnVlan, Min

\* lpbDetectRevPacketHandle takes a frame.
LEMMA FrameStep == ASSUME Inv, NEW p \in Ports \union {PonPort}, NEW v \in Vlans, Frame(p, v) PROVE Inv'
<1> DEFINE port == IF p = PonPort THEN FirstPortOnVlan ELSE p
           mark == DoMark(v, port, FALSE)
           shuts == DoShut(v, port, p)
<1>1. /\ pkt = <<>> /\ pkt' \in {<<>>, <<mark>>, <<shuts>>}
      /\ UNCHANGED <<set, listed, stat, alarms, portVars, threadVars, task, todo>>
  BY DEF Frame
<1>2. port \in Ports /\ p \in {port, PonPort}
  BY FirstIsPort
<1>3. mark \in Waiting /\ shuts \in Waiting
  <2>1. mark \in Plain /\ shuts \in Plain
    BY <1>2, WorkIs DEF Plain
  <2>2. mark.op = "mark" /\ shuts.op = "shut"
    BY DEF DoMark, DoShut
  <2> HIDE DEF mark, shuts
  <2> QED
    BY <2>1, <2>2, WaitingHas
<1> HIDE DEF mark, shuts, port
<1>4. pkt' \in Seq(Waiting)
  <2>1. <<>> \in Seq(Waiting) /\ <<mark>> \in Seq(Waiting) /\ <<shuts>> \in Seq(Waiting)
    BY <1>3
  <2> QED
    BY <1>1, <2>1
<1>5. ~Stopping' /\ ~Stopping /\ todo \in Seq(Plain)
  BY <1>1, <1>4, NotStopping, NothingFreed DEF Stopping
<1>6. TypeInv' /\ NodeInv'
  BY <1>1, <1>4, WaitingIsWork DEF Inv, TypeInv, NodeType, NodeInv, AlarmHasMark
<1>7. ThreadInv'
  <2>1. Waiting' = Waiting
    BY DEF Waiting
  <2> QED
    BY <1>1, <1>4, <1>5, <2>1 DEF Inv, ThreadInv
<1>8. FreeInv'
  BY <1>1, <1>5 DEF FreeInv, Plain
<1>9. ShutInv'
  BY <1>1 DEF Inv, ShutInv, MarkNext, Recorded
<1> QED
  BY <1>6, <1>7, <1>8, <1>9 DEF Inv

\* A user port the packet thread shuts is what it records next; the port towards the
\* OLT may be shut in its place, and is no user port.
LEMMA PacketShutsStep == Inv /\ PacketShuts => Inv'
<1> SUFFICES ASSUME Inv, PacketShuts PROVE Inv'
  OBVIOUS
<1> DEFINE d == Head(pkt)
<1>1. /\ pkt # <<>> /\ d.op = "shut" /\ UNCHANGED <<set, nodeVars, threadVars, task, todo>>
  BY DEF PacketShuts, Doing
<1>2. d \in Waiting /\ ~Stopping /\ todo \in Seq(Plain)
  BY <1>1, RestOfPkt, NothingFreed DEF Inv
<1>3. d \in Work
  BY <1>1, <1>2, PktHas, WaitingHas
<1>4. d.vid \in Vlans /\ d.port \in Ports /\ d.at \in {d.port, PonPort}
  BY <1>1, <1>3, WorkHas
<1>5. CASE pkt' = <<>> /\ UNCHANGED portVars
  <2>1. <<>> \in Seq(Waiting) /\ set \in Settings
    BY DEF Inv, TypeInv
  <2> QED
    BY <1>1, <1>5, <2>1, PacketMoves
<1>6. CASE ShutPort(d.at) /\ pkt' = <<DoMark(d.vid, d.port, TRUE), DoVlan("report", d.vid)>>
  <2> DEFINE mark == DoMark(d.vid, d.port, TRUE)
             report == DoVlan("report", d.vid)
  <2>1. mark \in Waiting /\ report \in Waiting
    <3>1. mark \in Plain /\ report \in Plain
      BY <1>4, WorkIs DEF Plain
    <3>2. mark.op = "mark" /\ report.op = "report"
      BY DEF DoMark, DoVlan
    <3> HIDE DEF mark, report
    <3> QED
      BY <3>1, <3>2, WaitingHas
  <2>2. mark = DoMark(d.vid, d.port, TRUE) /\ pkt' = <<mark, report>>
    BY <1>6
  <2> HIDE DEF mark, report
  <2>3. pkt' \in Seq(Waiting) /\ pkt' # <<>> /\ Head(pkt') = mark
    <3>1. <<mark, report>> \in Seq(Waiting) /\ <<mark, report>> # <<>> /\ Head(<<mark, report>>) = mark
      BY <2>1
    <3> QED
      BY <2>2, <3>1
  <2>4. /\ DOMAIN admin' = DOMAIN admin /\ shut' = shut \union {d.at} /\ forgotten' = forgotten
        /\ \A p \in shut' : p \in Ports \union {PonPort} /\ ~admin'[p]
    BY <1>4, <1>6 DEF ShutPort, Inv, TypeInv, NodeType, NodeInv
  <2>5. TypeInv' /\ NodeInv'
    BY <1>1, <2>3, <2>4, WaitingIsWork DEF Inv, TypeInv, NodeType, NodeInv, AlarmHasMark
  <2>6. ThreadInv'
    <3>1. Waiting' = Waiting
      BY DEF Waiting
    <3> QED
      BY <1>1, <1>2, <2>3, <3>1, NotStopping DEF Inv, ThreadInv
  <2>7. FreeInv'
    BY <1>1, <1>2 DEF FreeInv, Plain
  <2>8. ASSUME NEW p \in Ports, p \in shut' \ forgotten'
        PROVE  Recorded(p)' \/ MarkNext(todo', p) \/ MarkNext(pkt', p)
    <3>1. CASE p = d.at
      <4>1. p = d.port
        BY <1>4, <2>8, <3>1, LoopDetectAssumption DEF LoopDetectAssumption
      <4> QED
        BY <1>4, <2>2, <2>3, <4>1 DEF MarkNext
    <3>2. CASE p # d.at
      <4>1. p \in shut \ forgotten /\ ~MarkNext(pkt, p)
        BY <1>1, <2>4, <2>8, <3>2 DEF MarkNext, DoMark
      <4> QED
        BY <1>1, <4>1 DEF Inv, ShutInv, Recorded, MarkNext
    <3> QED
      BY <3>1, <3>2
  <2> QED
    BY <2>5, <2>6, <2>7, <2>8 DEF Inv, ShutInv
<1> QED
  BY <1>5, <1>6 DEF PacketShuts

\* A section of the packet thread, which frees no node.
LEMMA PacketSectionStep == Inv /\ PacketSection => Inv'
<1> SUFFICES ASSUME Inv, PacketSection PROVE Inv'
  OBVIOUS
<1> DEFINE d == Head(pkt)
<1>1. /\ pkt # <<>> /\ d.op \in Sections /\ Section(d) /\ pkt' = Tail(pkt)
      /\ UNCHANGED <<set, threadVars, task, todo>>
  BY DEF PacketSection
<1>2. d \in Waiting /\ ~Stopping /\ todo \in Seq(Plain) /\ pkt' \in Seq(Waiting) /\ pkt' \in Seq(Work \union Messages)
  BY <1>1, RestOfPkt, NothingFreed, WaitingIsWork DEF Inv, Sections
<1>3. d \in Work
  BY <1>1, <1>2, PktHas, WaitingHas DEF Sections
<1>4. CASE d.op # "free"
  <2>1. /\ NodeType' /\ NodeInv' /\ Remembers
        /\ \A p \in Ports : (\E v \in Vlans : d = DoMark(v, p, TRUE)) /\ p \in shut' \ forgotten' => Recorded(p)'
    BY <1>1, <1>3, <1>4, SectionStep DEF Inv
  <2>2. TypeInv'
    BY <1>1, <1>2, <2>1 DEF Inv, TypeInv
  <2>3. ThreadInv'
    <3>1. Waiting' = Waiting
      BY DEF Waiting
    <3> QED
      BY <1>1, <1>2, <3>1, NotStopping DEF Inv, ThreadInv
  <2>4. FreeInv'
    BY <1>1, <1>2 DEF FreeInv, Plain
  <2>5. ASSUME NEW p \in Ports, p \in shut' \ forgotten'
        PROVE  Recorded(p)' \/ MarkNext(todo', p)
    BY <1>1, <2>1, <2>5 DEF Remembers, MarkNext, Inv, ShutInv
  <2> QED
    BY <2>1, <2>2, <2>3, <2>4, <2>5 DEF Inv, ShutInv
<1> QED
  BY <1>2, <1>4, WaitingHas

\* The operator opens a port.
LEMMA OperatorStep == ASSUME Inv, NEW p \in Ports, OperatorOpens(p) PROVE Inv'
<1>1. /\ Opened({p}) /\ forgotten' = forgotten \ {p}
      /\ UNCHANGED <<set, nodeVars, threadVars, task, todo, pkt>>
  BY DEF OperatorOpens
<1>2. /\ DOMAIN admin' = Ports \union {PonPort} /\ shut' = shut \ {p}
      /\ \A q \in shut' : q \in Ports \union {PonPort} /\ ~admin'[q]
  BY <1>1, OpenedKeeps DEF Inv, TypeInv
<1>3. TypeInv' /\ NodeInv'
  BY <1>1, <1>2 DEF Inv, TypeInv, NodeType, NodeInv, AlarmHasMark
<1>4. ThreadInv' /\ FreeInv'
  BY <1>1, <1>2 DEF Inv, ThreadInv, FreeInv, Stopping, Plain
<1>5. ShutInv'
  BY <1>1, <1>2 DEF Inv, ShutInv, MarkNext, Recorded
<1> QED
  BY <1>3, <1>4, <1>5 DEF Inv

\* The program starts in a state of the invariant.
LEMMA InitInv == Init => Inv
<1> SUFFICES ASSUME Init PROVE Inv
  OBVIOUS
<1>1. PICK w \in WakeSettings :
        set = [enable |-> FALSE, vid |-> 0, policy |-> 1, wait |-> w.wait, max |-> w.max]
  BY DEF Init
<1>2. w \in [wait : Nat, max : Nat]
  BY LoopDetectAssumption DEF LoopDetectAssumption
<1>3. set \in Settings
  BY <1>1, <1>2
<1>4. /\ listed = {} /\ stat = [v \in Vlans |-> [p \in Ports |-> Clear]]
      /\ alarms = [v \in Vlans |-> [p \in Ports |-> 0]]
      /\ admin = [p \in Ports \union {PonPort} |-> TRUE]
      /\ threads = [i \in ThreadIds |-> IF i = 0 THEN "timer" ELSE "free"] /\ loopId = 0
      /\ task = "none" /\ todo = <<>> /\ pkt = <<>> /\ shut = {} /\ ended = {}
  BY DEF Init
<1>5. NodeType /\ NodeInv
  <2>1. stat \in [Vlans -> [Ports -> Entry]]
    BY <1>4, ClearEntry
  <2>2. alarms \in [Vlans -> [Ports -> 0 .. 3]]
    BY <1>4
  <2>3. \A v \in Vlans, p \in Ports : stat[v][p] = Clear /\ alarms[v][p] = 0
    BY <1>4
  <2> QED
    BY <1>4, <2>1, <2>2, <2>3, ClearEntry DEF NodeType, NodeInv, AlarmHasMark
<1>6. TypeInv
  BY <1>3, <1>4, <1>5 DEF TypeInv, ThreadIds
<1>7. ThreadInv
  <2>1. ~Stopping /\ pkt \in Seq(Waiting)
    BY <1>4 DEF Stopping
  <2> QED
    BY <1>1, <1>4, <2>1 DEF ThreadInv, ThreadIds
<1>8. FreeInv /\ ShutInv
  BY <1>4 DEF FreeInv, ShutInv
<1> QED
  BY <1>5, <1>6, <1>7, <1>8 DEF Inv

\* Every step keeps the invariant.
LEMMA NextInv == Inv /\ [Next]_vars => Inv'
<1> SUFFICES ASSUME Inv, [Next]_vars PROVE Inv'
  OBVIOUS
<1>1. CASE TaskRound \/ ActionCall \/ Plan \/ NextVlan \/ Links \/ CheckMacTable \/ TaskShuts \/ TaskSection \/ TaskCancelled
  BY <1>1, TaskRoundStep, ActionCallStep, PlanStep, NextVlanStep, LinksStep, CheckMacTableStep, TaskShutsStep,
     TaskSectionStep, TaskCancelledStep
<1>2. CASE Request \/ Store \/ Start \/ Stop \/ Delete \/ Join \/ PacketShuts \/ PacketSection
  BY <1>2, RequestStep, StoreStep, StartStep, StopStep, DeleteStep, JoinStep, PacketShutsStep, PacketSectionStep
<1>3. CASE \E p \in Ports \union {PonPort}, v \in Vlans : Frame(p, v)
  BY <1>3, FrameStep
<1>4. CASE \E p \in Ports : OperatorOpens(p)
  BY <1>4, OperatorStep
<1>5. CASE UNCHANGED vars
  <2>1. UNCHANGED <<set, nodeVars, portVars, threadVars, task, todo, pkt>>
    BY <1>5 DEF vars
  <2>2. TypeInv' /\ NodeInv'
    BY <2>1, NodesSame DEF Inv, TypeInv, SectionKeeps
  <2>3. ThreadInv' /\ FreeInv' /\ ShutInv'
    BY <2>1 DEF Inv, ThreadInv, FreeInv, ShutInv, Recorded, MarkNext, Stopping, Waiting
  <2> QED
    BY <2>2, <2>3 DEF Inv
<1> QED
  BY <1>1, <1>2, <1>3, <1>4, <1>5 DEF Next

\* The invariant holds in every reachable state.
LEMMA InvHolds == Spec => []Inv
BY InitInv, NextInv, PTL DEF Spec

\* The first thing to do is among the things to do.
LEMMA HeadIsInRange == ASSUME NEW S, NEW s \in Seq(S), s # <<>> PROVE Head(s) \in Range(s)
BY DEF Range

\* The invariant says more than ShutIsRecorded: the record is the very next thing done.
LEMMA ShutInvSays == Inv => ShutIsRecorded
<1> SUFFICES ASSUME Inv, NEW p \in Ports, p \in shut, p \notin forgotten
             PROVE  \/ \E v \in listed : stat[v][p].down
                    \/ \E v \in Vlans \union {0} :
                         {DoMark(v, p, TRUE), DoShut(v, p, p)} \intersect (Range(todo) \union Range(pkt)) # {}
  BY DEF ShutIsRecorded
<1>1. Recorded(p) \/ MarkNext(todo, p) \/ MarkNext(pkt, p)
  BY DEF Inv, ShutInv
<1>2. CASE MarkNext(todo, p)
  <2>1. Head(todo) \in Range(todo)
    BY <1>2, HeadIsInRange DEF MarkNext, Inv, TypeInv
  <2> QED
    BY <1>2, <2>1 DEF MarkNext
<1>3. CASE MarkNext(pkt, p)
  <2>1. Head(pkt) \in Range(pkt)
    BY <1>3, HeadIsInRange DEF MarkNext, Inv, TypeInv
  <2> QED
    BY <1>3, <2>1 DEF MarkNext
<1> QED
  BY <1>1, <1>2, <1>3 DEF Recorded

\* A user port that a detector shut has its record in the node of a VLAN, or the
\* thread that shut it has yet to write it: setPortLpbStatus after LIB_IF_PORT_ADMIN_SET,
\* in both threads, whatever the requests, failed calls and ends of the task between.
THEOREM ShutIsRecordedCorrect == Spec => []ShutIsRecorded
BY InvHolds, ShutInvSays, PTL

\* An alarm of a loop that the OLT has got stands only while the port is marked, but
\* for a stop: reportPortsLpbStatus, lpbDetectWakeupPorts, resetLpbPort.
THEOREM AlarmHasMarkCorrect == Spec => []AlarmHasMark
<1>1. Inv => AlarmHasMark
  BY DEF Inv, NodeInv
<1> QED
  BY <1>1, InvHolds, PTL

\* gw_thread_delete of gwd_loop_thread_id ends the detection task and no other thread,
\* unless the OLT stops a detection it has not started.
THEOREM EndsOnlyTheTaskCorrect == Spec => []EndsOnlyTheTask
<1>1. Inv => EndsOnlyTheTask
  BY DEF Inv, ThreadInv, EndsOnlyTheTask
<1> QED
  BY <1>1, InvHolds, PTL

=============================================================================
