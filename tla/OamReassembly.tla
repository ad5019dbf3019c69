---------------------------- MODULE OamReassembly ----------------------------
(***************************************************************************)
(* Reassembly of OAM messages in apps/oam.c: CommOnuMsgReveive with the    *)
(* message list it keeps, the timer of each incomplete message             *)
(* (OamMessageRecevTimeOut), Gwd_Oam_Handle, which serves a complete       *)
(* message and frees it, and the OAM thread of apps/oam_core.c, which      *)
(* serves and frees command line requests later.                           *)
(*                                                                         *)
(* Three threads share the list.  OamListSem protects its links, so one    *)
(* walk of the list is one step; but a node found by a walk is used after  *)
(* the semaphore is given back, while another thread may free it.  The     *)
(* packet thread alone adds nodes.  Timers are those OneShotTimers         *)
(* specifies, named by their address, which malloc may give out again;     *)
(* the durations of their callbacks, and what may come of recording them,  *)
(* are left out.  Where the code would use freed memory the model sets     *)
(* undefined and stops.  Lengths are counted in units and a payload has no *)
(* content; a sender keeps every fragment within its message.  A node that *)
(* cannot be allocated drops the packet and changes nothing; a timer that  *)
(* cannot be leaves its message without one.                               *)
(***************************************************************************)
EXTENDS Naturals, Sequences, FiniteSets

CONSTANTS
  SerNos,         \* serial numbers of requests
  CliSerNos,      \* those whose opcode is CLI_REQ_TRANSMIT
  Nodes,          \* addresses malloc may give a message node
  Timers,         \* addresses malloc may give a timer
  Null,           \* the NULL pointer
  MaxLen,         \* longest message, in units of one fragment
  AsyncDepth      \* g_oam_async_queue_deepth

ASSUME OamAssumption ==
  /\ CliSerNos \subseteq SerNos
  /\ Null \notin SerNos \union Nodes \union Timers
  /\ MaxLen \in Nat \ {0}
  /\ AsyncDepth \in Nat \ {0}

VARIABLES
  calm,          \* TRUE, for good: timers expire between packets only, there is memory for
                 \*   timers, malloc gives a new timer the block of one just freed, and
                 \*   no fragment of a complete message arrives
  list,          \* GwOamMessageListHead: the listed nodes, head first
  alloc,         \* the nodes that are allocated
  SendSerNo, RevPktLen, WholePktLen, TimerID,   \* fields of a node
  timer,         \* state of each timer, as in OneShotTimers
  data,          \* data[t]: the node whose SendSerNo the timer points to
  untimed,       \* history: messages whose last gw_timer_add failed
  astray,        \* history: gw_timer_del has been given the handle of another timer than
                 \*   the one that runs for the message
  rx_pc, rx_node, rx_pkt,            \* the packet thread, its pMessageNode
  to_pc, to_timer, to_ser, to_node,  \* the timer thread in the callback
  async_queue,   \* messages queued for the OAM thread
  as_pc, as_node,                    \* the OAM thread
  lost,          \* history: messages the full queue has refused
  undefined      \* history: freed memory has been used

fields == <<SendSerNo, RevPktLen, WholePktLen, TimerID>>
nodeVars == <<list, alloc, fields>>
timerVars == <<timer, data, untimed, astray>>
rxVars == <<rx_pc, rx_node, rx_pkt>>
toVars == <<to_pc, to_timer, to_ser, to_node>>
asVars == <<async_queue, as_pc, as_node, lost>>
vars == <<calm, nodeVars, timerVars, rxVars, toVars, asVars, undefined>>

T == INSTANCE OneShotTimers WITH NoTimer <- Null, took <- 0, past <- Null, peek <- 0

Listed == {list[i] : i \in DOMAIN list}
Complete(n) == RevPktLen[n] = WholePktLen[n]

\* GwOamMessageListGetNode: the nodes the walk may stop at, one at most when
\* serial numbers are unique in the list.
GetNode(ser) == {n \in Listed : SendSerNo[n] = ser}

-----------------------------------------------------------------------------
NoPkt == [offset |-> 0, len |-> 0]

Init ==
  /\ calm \in BOOLEAN
  /\ list = <<>> /\ alloc = {}
  /\ SendSerNo = [n \in Nodes |-> Null]
  /\ RevPktLen = [n \in Nodes |-> 0]
  /\ WholePktLen = [n \in Nodes |-> 0]
  /\ TimerID = [n \in Nodes |-> Null]
  /\ timer = [t \in Timers |-> "free"]
  /\ data = [t \in Timers |-> Null]
  /\ untimed = {} /\ astray = FALSE
  /\ rx_pc = "idle" /\ rx_node = Null /\ rx_pkt = NoPkt
  /\ to_pc = "idle" /\ to_timer = Null /\ to_ser = Null /\ to_node = Null
  /\ async_queue = <<>> /\ as_pc = "idle" /\ as_node = Null
  /\ lost = {}
  /\ undefined = FALSE

\* Freed memory is used: nothing is known of what follows.
Undefined ==
  /\ undefined' = TRUE
  /\ UNCHANGED <<nodeVars, timerVars, rxVars, toVars, asVars>>

TimersQuiet == to_pc = "idle" /\ \A t \in Timers : timer[t] \in {"free", "armed"}
MayReceive == rx_pc = "idle" /\ (calm => TimersQuiet)

\* gw_timer_add for the node n returns t, an address malloc chooses, or NULL.
AddTimer(t, n) ==
  \/ /\ t # Null
     /\ T!Add(t)
     /\ data' = [data EXCEPT ![t] = n]
     /\ untimed' = untimed \ {n}
     /\ UNCHANGED astray
  \/ /\ t = Null /\ ~calm
     /\ untimed' = untimed \union {n}
     /\ UNCHANGED <<timer, data, astray, undefined>>

ForgetTimer(t) ==
  /\ data' = [data EXCEPT ![t] = Null]
  /\ UNCHANGED untimed

\* GwOamMessageListNodeRem and the two frees, of a node the caller holds.
Rem(n) ==
  IF n \in Listed
  THEN LET i == CHOOSE i \in DOMAIN list : list[i] = n
       IN  list' = [j \in 1 .. Len(list) - 1 |-> IF j < i THEN list[j] ELSE list[j + 1]]
  ELSE UNCHANGED list

Free(n) ==
  /\ n \in alloc
  /\ alloc' = alloc \ {n}
  /\ SendSerNo' = [SendSerNo EXCEPT ![n] = Null]
  /\ RevPktLen' = [RevPktLen EXCEPT ![n] = 0]
  /\ WholePktLen' = [WholePktLen EXCEPT ![n] = 0]
  /\ TimerID' = [TimerID EXCEPT ![n] = Null]
  /\ untimed' = untimed \ {n}
  /\ UNCHANGED <<list, timer, data, astray>>
-----------------------------------------------------------------------------
\* Mutant of ReceiveFirst: the serial number is not looked up.
ReceiveFirstTwice(ser, len, whole, n) ==
  /\ MayReceive
  /\ len =< whole
  /\ n \notin alloc
  /\ alloc' = alloc \union {n}
  /\ SendSerNo' = [SendSerNo EXCEPT ![n] = ser]
  /\ RevPktLen' = [RevPktLen EXCEPT ![n] = len]
  /\ WholePktLen' = [WholePktLen EXCEPT ![n] = whole]
  /\ list' = <<n>> \o list
  /\ rx_node' = n
  /\ rx_pc' = IF len = whole THEN "dispatch" ELSE "arm"
  /\ UNCHANGED <<TimerID, timerVars, rx_pkt, toVars, asVars, undefined>>

\* CommOnuMsgReveive, offset 0: a new node is filled and listed unless the
\* serial number is in the list already.  A message in one fragment is
\* complete, a longer one gets a timer next.
ReceiveFirst(ser, len, whole, n) ==
  /\ MayReceive
  /\ len =< whole
  /\ GetNode(ser) = {}
  /\ n \notin alloc
  /\ alloc' = alloc \union {n}
  /\ SendSerNo' = [SendSerNo EXCEPT ![n] = ser]
  /\ RevPktLen' = [RevPktLen EXCEPT ![n] = len]
  /\ WholePktLen' = [WholePktLen EXCEPT ![n] = whole]
  /\ list' = <<n>> \o list
  /\ rx_node' = n
  /\ rx_pc' = IF len = whole THEN "dispatch" ELSE "arm"
  /\ UNCHANGED <<TimerID, timerVars, rx_pkt, toVars, asVars, undefined>>

\* Mutant of Arm: the timer is not started.
ArmUntimed(t) ==
  /\ rx_pc = "arm"
  /\ rx_pc' = "idle" /\ rx_node' = Null
  /\ UNCHANGED <<nodeVars, timerVars, rx_pkt, toVars, asVars, undefined>>

Arm(t) ==
  /\ rx_pc = "arm"
  /\ IF rx_node \in alloc
     THEN /\ AddTimer(t, rx_node)
          /\ TimerID' = [TimerID EXCEPT ![rx_node] = t]
          /\ rx_pc' = "idle" /\ rx_node' = Null
          /\ UNCHANGED <<list, alloc, SendSerNo, RevPktLen, WholePktLen, rx_pkt, toVars, asVars>>
     ELSE Undefined

\* CommOnuMsgReveive, offset > 0: the walk finds the node, and the packet is
\* checked against it once the semaphore is given back.
ReceiveNext(ser, offset, len) ==
  /\ MayReceive
  /\ \E n \in GetNode(ser) : (calm => ~Complete(n)) /\ rx_node' = n
  /\ rx_pc' = "check"
  /\ rx_pkt' = [offset |-> offset, len |-> len]
  /\ UNCHANGED <<nodeVars, timerVars, toVars, asVars, undefined>>

Check ==
  /\ rx_pc = "check"
  /\ IF rx_node \notin alloc THEN Undefined
     ELSE /\ IF \/ RevPktLen[rx_node] + rx_pkt.len > WholePktLen[rx_node]
                \/ RevPktLen[rx_node] # rx_pkt.offset
             THEN rx_pc' = "idle" /\ rx_node' = Null /\ rx_pkt' = NoPkt
             ELSE rx_pc' = "delete" /\ UNCHANGED <<rx_node, rx_pkt>>
          /\ UNCHANGED <<nodeVars, timerVars, toVars, asVars, undefined>>

\* Mutant of DeleteTimer: the timer is left running.
DeleteTimerMissing ==
  /\ rx_pc = "delete"
  /\ rx_pc' = "append"
  /\ UNCHANGED <<nodeVars, timerVars, rx_node, rx_pkt, toVars, asVars, undefined>>

\* TimerID[n] is the handle of the timer that runs for n, if one does.
OwnHandle(n) == IF TimerID[n] = Null THEN n \in untimed ELSE data[TimerID[n]] = n

\* gw_timer_del(pMessageNode->TimerID), in both branches that take a fragment.
DeleteTimer ==
  /\ rx_pc = "delete"
  /\ rx_node \in alloc
  /\ IF TimerID[rx_node] = Null THEN UNCHANGED <<timer, data, untimed, undefined>>
     ELSE /\ T!Delete(TimerID[rx_node])
          /\ ForgetTimer(TimerID[rx_node])
  /\ astray' = (astray \/ ~OwnHandle(rx_node))
  /\ rx_pc' = "append"
  /\ UNCHANGED <<nodeVars, rx_node, rx_pkt, toVars, asVars>>

DeleteInactive ==
  /\ rx_pc = "delete"
  /\ rx_node \in alloc => (TimerID[rx_node] # Null /\ timer[TimerID[rx_node]] # "armed")
  /\ Undefined

\* The fragment is copied.  The last one completes the message; before any
\* other one a new timer is started, whose handle is not kept.
AppendLast ==
  /\ rx_pc = "append"
  /\ rx_node \in alloc
  /\ RevPktLen[rx_node] + rx_pkt.len = WholePktLen[rx_node]
  /\ RevPktLen' = [RevPktLen EXCEPT ![rx_node] = WholePktLen[rx_node]]
  /\ rx_pc' = "dispatch"
  /\ rx_pkt' = NoPkt
  /\ UNCHANGED <<list, alloc, SendSerNo, WholePktLen, TimerID, timerVars, rx_node, toVars, asVars, undefined>>

AppendMore(t) ==
  /\ rx_pc = "append"
  /\ rx_node \in alloc
  /\ RevPktLen[rx_node] + rx_pkt.len # WholePktLen[rx_node]
  /\ calm => t = TimerID[rx_node]
  /\ AddTimer(t, rx_node)
  /\ RevPktLen' = [RevPktLen EXCEPT ![rx_node] = @ + rx_pkt.len]
  /\ rx_pc' = "idle" /\ rx_node' = Null /\ rx_pkt' = NoPkt
  /\ UNCHANGED <<list, alloc, SendSerNo, WholePktLen, TimerID, toVars, asVars>>

AppendFreed == rx_pc = "append" /\ rx_node \notin alloc /\ Undefined

\* Gwd_Oam_Handle serves the message itself, or passes a command line request
\* on without looking at the result of the put.
Dispatch ==
  /\ rx_pc = "dispatch"
  /\ IF rx_node \notin alloc THEN Undefined
     ELSE /\ IF SendSerNo[rx_node] \in CliSerNos
             THEN /\ IF Len(async_queue) < AsyncDepth
                     THEN async_queue' = Append(async_queue, rx_node) /\ UNCHANGED lost
                     ELSE lost' = lost \union {rx_node} /\ UNCHANGED async_queue
                  /\ rx_pc' = "idle" /\ rx_node' = Null
             ELSE rx_pc' = "rem" /\ UNCHANGED <<async_queue, lost, rx_node>>
          /\ UNCHANGED <<nodeVars, timerVars, rx_pkt, toVars, as_pc, as_node, undefined>>

\* GwOamMessageListNodeFree in the packet thread: out of the list, then freed.
RxRem ==
  /\ rx_pc = "rem"
  /\ IF rx_node \notin alloc THEN Undefined
     ELSE /\ Rem(rx_node)
          /\ rx_pc' = "free"
          /\ UNCHANGED <<alloc, fields, timerVars, rx_node, rx_pkt, toVars, asVars, undefined>>

RxFree ==
  /\ rx_pc = "free"
  /\ IF rx_node \notin alloc THEN Undefined
     ELSE /\ Free(rx_node)
          /\ rx_pc' = "idle" /\ rx_node' = Null
          /\ UNCHANGED <<rx_pkt, toVars, asVars, undefined>>
-----------------------------------------------------------------------------
\* The timer thread: some timers are due, and their callbacks follow.
Expire(due) ==
  /\ due # {} /\ to_pc = "idle"
  /\ calm => rx_pc = "idle"
  /\ T!Expire(due)
  /\ UNCHANGED <<nodeVars, data, untimed, astray, rxVars, toVars, asVars>>

\* OamMessageRecevTimeOut reads the serial number through its argument,
\* which points into the node, looks the node up by it and frees it.
TimeOut(t) ==
  /\ to_pc = "idle"
  /\ IF timer[t] = "due" /\ data[t] \notin alloc THEN Undefined
     ELSE /\ T!Call(t)
          /\ to_timer' = t
          /\ to_ser' = SendSerNo[data[t]]
          /\ to_pc' = "find"
          /\ UNCHANGED <<nodeVars, data, untimed, astray, rxVars, to_node, asVars>>

ToFind ==
  /\ to_pc = "find"
  /\ IF GetNode(to_ser) = {} THEN to_pc' = "done" /\ UNCHANGED to_node
     ELSE to_node' \in GetNode(to_ser) /\ to_pc' = "rem"
  /\ UNCHANGED <<nodeVars, timerVars, rxVars, to_timer, to_ser, asVars, undefined>>

ToRem ==
  /\ to_pc = "rem"
  /\ Rem(to_node)
  /\ to_pc' = "free"
  /\ UNCHANGED <<alloc, fields, timerVars, rxVars, to_timer, to_ser, to_node, asVars, undefined>>

ToFree ==
  /\ to_pc = "free"
  /\ IF to_node \notin alloc THEN Undefined
     ELSE /\ Free(to_node)
          /\ to_pc' = "done"
          /\ UNCHANGED <<rxVars, to_timer, to_ser, to_node, asVars, undefined>>

\* The timer frees itself after its callback.
ToDone ==
  /\ to_pc = "done"
  /\ T!Retire(to_timer)
  /\ ForgetTimer(to_timer)
  /\ UNCHANGED astray
  /\ to_pc' = "idle" /\ to_timer' = Null /\ to_ser' = Null /\ to_node' = Null
  /\ UNCHANGED <<nodeVars, rxVars, asVars>>
-----------------------------------------------------------------------------
\* gw_oam_async_thread_entry: serve a command line request, then free it.
AsTake ==
  /\ as_pc = "idle"
  /\ async_queue # <<>>
  /\ as_node' = Head(async_queue)
  /\ async_queue' = Tail(async_queue)
  /\ as_pc' = "rem"
  /\ UNCHANGED <<nodeVars, timerVars, rxVars, toVars, lost, undefined>>

\* Mutant of AsRem: the node leaves the list and is not freed.
AsRemOnly ==
  /\ as_pc = "rem"
  /\ as_node \in alloc
  /\ Rem(as_node)
  /\ as_pc' = "idle" /\ as_node' = Null
  /\ UNCHANGED <<alloc, fields, timerVars, rxVars, toVars, async_queue, lost, undefined>>

AsRem ==
  /\ as_pc = "rem"
  /\ IF as_node \notin alloc THEN Undefined
     ELSE /\ Rem(as_node)
          /\ as_pc' = "free"
          /\ UNCHANGED <<alloc, fields, timerVars, rxVars, toVars, async_queue, as_node, lost, undefined>>

\* Mutant of AsFree: the message is never freed.
AsFreeMissing ==
  /\ as_pc = "free"
  /\ as_pc' = "idle" /\ as_node' = Null
  /\ UNCHANGED <<nodeVars, timerVars, rxVars, toVars, async_queue, lost, undefined>>

AsFree ==
  /\ as_pc = "free"
  /\ IF as_node \notin alloc THEN Undefined
     ELSE /\ Free(as_node)
          /\ as_pc' = "idle" /\ as_node' = Null
          /\ UNCHANGED <<rxVars, toVars, async_queue, lost, undefined>>
-----------------------------------------------------------------------------
Receive ==
  \E ser \in SerNos, len \in 1 .. MaxLen :
    \/ \E whole \in 1 .. MaxLen, n \in Nodes : ReceiveFirst(ser, len, whole, n)
    \/ \E offset \in 1 .. MaxLen - 1 : ReceiveNext(ser, offset, len)

PacketThread ==
  \/ \E t \in Timers \union {Null} : Arm(t) \/ AppendMore(t)
  \/ Check \/ DeleteTimer \/ DeleteInactive \/ AppendLast \/ AppendFreed \/ Dispatch \/ RxRem \/ RxFree

TimerThread ==
  \/ \E due \in SUBSET Timers : Expire(due)
  \/ \E t \in Timers : TimeOut(t)
  \/ ToFind \/ ToRem \/ ToFree \/ ToDone

OamThread == AsTake \/ AsRem \/ AsFree

Going == ~undefined /\ UNCHANGED calm

Next == Going /\ (Receive \/ PacketThread \/ TimerThread \/ OamThread)

SafeSpec == Init /\ [][Next]_vars

\* When calm each thread goes on while it can, and a timer that stays armed expires.
Spec ==
  /\ SafeSpec
  /\ WF_vars(calm /\ Going /\ PacketThread)
  /\ WF_vars(calm /\ Going /\ OamThread)
  /\ WF_vars(calm /\ Going /\ (ToFind \/ ToRem \/ ToFree \/ ToDone))
  /\ \A t \in Timers : SF_vars(calm /\ Going /\ TimeOut(t))
  /\ \A t \in Timers : SF_vars(calm /\ Going /\ \E due \in SUBSET Timers : t \in due /\ Expire(due))
-----------------------------------------------------------------------------
\* The walk of the list that precedes an add is a section of its own, yet no
\* serial number is ever listed twice and no freed node is listed
\* (CommOnuMsgReveive, GwOamMessageListNodeAdd, GwOamMessageListNodeFree).
ListSound == ~astray =>
  /\ Cardinality({SendSerNo[n] : n \in Listed}) = Len(list)
  /\ Listed \subseteq alloc

\* A node that is allocated is listed or about to be freed, and a complete
\* one is being served, is queued, or was refused by the full queue: the
\* refusal is the only leak (Gwd_Oam_Handle, gwd_oam_async_trans).
OnlyRefusedLeak == ~astray =>
  LET hands == {rx_node, to_node, as_node}
      queued == {async_queue[i] : i \in DOMAIN async_queue}
  IN  /\ alloc \subseteq Listed \union hands
      /\ \A n \in Listed : Complete(n) => n \in hands \union queued \union lost

\* The timers that may still look up the message they were started for.
Pending(t) == timer[t] \in {"armed", "due"} \/ (to_timer = t /\ to_pc = "find")

\* An incomplete message always has a timer that will end it, or the packet
\* thread is about to start one, or its timer could not be allocated
\* (CommOnuMsgReveive).
IncompleteHasTimer ==
  \A n \in Listed : ~Complete(n) =>
    \/ \E t \in Timers : Pending(t) /\ data[t] = n
    \/ (rx_node = n /\ rx_pc \in {"arm", "append"})
    \/ (to_node = n /\ to_pc \in {"rem", "free"})
    \/ n \in untimed

\* No timer is left that could free a complete message under the thread that
\* serves it (CommOnuMsgReveive stops the timer before it completes).
CompleteHasNoTimer ==
  \A t \in Timers : (Pending(t) /\ data[t] \in alloc) => ~Complete(data[t])

\* A message has a timer that may end it exactly while it is incomplete
\* (CommOnuMsgReveive, OamMessageRecevTimeOut).
TimerIffIncomplete == ~astray => IncompleteHasTimer /\ CompleteHasNoTimer

\* When calm, freed memory is never used.
NeverUndefined == calm => ~undefined

\* When calm, every message received is freed, unless the full queue refused it.
MessagesEnd ==
  \A n \in Nodes : (calm /\ n \in alloc) ~> (n \notin alloc \/ n \in lost)
=============================================================================
