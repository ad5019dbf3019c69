---------------------------- MODULE RcpRegAccess ----------------------------
(***************************************************************************)
(* Access to the registers of an RCP switch (apps/rcp_gwd.c).  A thread    *)
(* that reads a register lists a node with a semaphore of its own, sends a *)
(* request and waits; the RCP thread finds the node a reply is for, fills  *)
(* it and gives its semaphore (RCP_RegList_Update).  RCP_Read_Reg takes    *)
(* the semaphore of the list for every change, RCP_Read_32bit_Reg does     *)
(* not.  RCP_Write_Reg only sends.                                         *)
(*                                                                         *)
(* All of them build the packet in one buffer, gucTxRcpPktBuf, before they *)
(* take semAccessRcpChannel; and they go on, and give it in the end, when  *)
(* that take has timed out.  The switch and the link to it may lose or     *)
(* delay what is sent.  Semaphores come from the table of                  *)
(* system/gw_os_api_core.c, whose first free entry a create takes; a post  *)
(* to a free entry has no effect.  A reply's value is the register it is   *)
(* of.  Where the code would use a freed node the model sets undefined and *)
(* stops; malloc always has memory, one node's worth for each thread.      *)
(***************************************************************************)
EXTENDS Naturals, FiniteSets

CONSTANTS
  Threads,      \* threads that access registers
  Rcp,          \* the RCP thread
  Null,
  Ops,          \* what threads do: "read16", "read32", "write"
  Regs,         \* registers
  ListSize,     \* MAX_RTL_REG_TO_ACCESS
  NumSems,      \* free entries of the semaphore table
  MaxOps,       \* bound: operations begun by all threads
  ChannelSlow,  \* TRUE: a take of the channel may time out
  ReplySlow     \* TRUE: a wait may time out although the reply is on its way

ASSUME RcpAssumption ==
  /\ IsFiniteSet(Threads)
  /\ {Rcp, Null} \intersect Threads = {} /\ Rcp # Null
  /\ Ops \subseteq {"read16", "read32", "write"}
  /\ {ListSize, NumSems, MaxOps} \subseteq Nat
  /\ ChannelSlow \in BOOLEAN /\ ReplySlow \in BOOLEAN

VARIABLES
  rcpRegList,   \* the nodes listed, Null where an entry is free
  list_sem,     \* who holds semAccessRcpRegList
  node,         \* node[t]: the RCP_REG of thread t, Null when it has none
  sem,          \* sem[s]: value of a semaphore, Null when the entry is free
  channel,      \* value of semAccessRcpChannel
  txbuf,        \* gucTxRcpPktBuf
  net,          \* packets on their way to and from the switch
  pc, op, reg, index, result,   \* of each thread
  rcp_pc, rcp_reply, rcp_node,  \* of the RCP thread
  begun,        \* number of operations begun
  timed_out,    \* history: number of takes of the channel that timed out
  undefined     \* history: freed memory has been used

listVars == <<rcpRegList, list_sem, node, sem>>
linkVars == <<channel, txbuf, net, timed_out>>
rcpVars == <<rcp_pc, rcp_reply, rcp_node>>
vars == <<listVars, linkVars, pc, op, reg, index, result, rcpVars, begun, undefined>>

Entries == 1 .. ListSize
Sems == 1 .. NumSems

\* RCP_REG; a read starts with value and validFlag cleared.
Node == [address : Regs, value : Regs \union {Null}, validFlag : 0 .. 1, semAccess : Sems]

\* What a read returns when it returns no register.
Failures == {"fail", "unknown", "timeout", "no resource"}

\* NULL and a failure can be told from what they stand in for.
ASSUME NullAssumption ==
  /\ Null \notin Node \union Nat \union Regs \union {"read16", "read32", "write"}
  /\ (Failures \union {"ok"}) \intersect Regs = {}

LeastOf(S) == CHOOSE i \in S : \A j \in S : i =< j
FreeSems == {s \in Sems : sem[s] = Null}
FreeEntries == {i \in Entries : rcpRegList[i] = Null}
NodesFor(r) == {i \in Entries : rcpRegList[i] # Null /\ node[rcpRegList[i]] # Null
                                 /\ node[rcpRegList[i]].address = r}

Get(r) == [kind |-> "get", reg |-> r]
SetMsg(r) == [kind |-> "set", reg |-> r]
Reply(r) == [kind |-> "reply", reg |-> r]

\* RCP_Init
Init ==
  /\ rcpRegList = [i \in Entries |-> Null] /\ list_sem = Null
  /\ node = [t \in Threads |-> Null]
  /\ sem = [s \in Sems |-> Null]
  /\ channel = 1 /\ txbuf = Null /\ net = {}
  /\ timed_out = 0
  /\ pc = [t \in Threads |-> "idle"]
  /\ op = [t \in Threads |-> Null] /\ reg = [t \in Threads |-> Null]
  /\ index = [t \in Threads |-> 0] /\ result = [t \in Threads |-> Null]
  /\ rcp_pc = "idle" /\ rcp_reply = Null /\ rcp_node = Null
  /\ begun = 0 /\ undefined = FALSE

Step(t, from, to) == pc[t] = from /\ pc' = [pc EXCEPT ![t] = to]
Return(t, r) == result' = [result EXCEPT ![t] = r]

\* RCP_Read_Reg alone locks the list.
Lock(t) == IF op[t] = "read16" THEN list_sem = Null /\ list_sem' = t ELSE UNCHANGED list_sem
Unlock(t) == IF op[t] = "read16" THEN list_sem' = Null ELSE UNCHANGED list_sem

\* gw_semaphore_post
Post(s) == sem' = IF sem[s] = Null THEN sem ELSE [sem EXCEPT ![s] = @ + 1]
Destroy(s) == sem' = [sem EXCEPT ![s] = Null]
-----------------------------------------------------------------------------
BeginWrite(t, r) ==
  /\ begun < MaxOps /\ "write" \in Ops
  /\ Step(t, "idle", "fill")
  /\ op' = [op EXCEPT ![t] = "write"] /\ reg' = [reg EXCEPT ![t] = r]
  /\ begun' = begun + 1
  /\ Return(t, Null)
  /\ UNCHANGED <<listVars, linkVars, index, rcpVars, undefined>>

\* No semaphore is left: RCP_Read_Reg frees its node.  (The result it tests is
\* that of a void function, gw_rcp_sem_create: what the last call in it left,
\* 0 when there was a semaphore, what gw_printf returns when not.)  NumSems
\* spares RCP_Read_32bit_Reg the case, in which it would use semaphore 0.
BeginReadFull(t, r) ==
  /\ begun < MaxOps /\ "read16" \in Ops
  /\ pc[t] = "idle" /\ FreeSems = {}
  /\ op' = [op EXCEPT ![t] = "read16"] /\ reg' = [reg EXCEPT ![t] = r]
  /\ begun' = begun + 1
  /\ Return(t, "fail")
  /\ UNCHANGED <<listVars, linkVars, pc, index, rcpVars, undefined>>

\* The node and its semaphore.
BeginRead(t, o, r) ==
  /\ begun < MaxOps /\ o \in Ops \ {"write"}
  /\ FreeSems # {}
  /\ LET s == LeastOf(FreeSems)
     IN  /\ node' = [node EXCEPT ![t] = [address |-> r, value |-> Null, validFlag |-> 0, semAccess |-> s]]
         /\ sem' = [sem EXCEPT ![s] = 0]
  /\ Step(t, "idle", "insert")
  /\ op' = [op EXCEPT ![t] = o] /\ reg' = [reg EXCEPT ![t] = r]
  /\ begun' = begun + 1
  /\ Return(t, Null)
  /\ UNCHANGED <<rcpRegList, list_sem, linkVars, index, rcpVars, undefined>>

\* RCP_RegList_Insert: find a free entry, then store; or none is free.
InsertFind(t) ==
  /\ FreeEntries # {}
  /\ Step(t, "insert", "store")
  /\ Lock(t)
  /\ index' = [index EXCEPT ![t] = LeastOf(FreeEntries)]
  /\ UNCHANGED <<rcpRegList, node, sem, linkVars, op, reg, result, rcpVars, begun, undefined>>

InsertStore(t) ==
  /\ Step(t, "store", "fill")
  /\ rcpRegList' = [rcpRegList EXCEPT ![index[t]] = t]
  /\ Unlock(t)
  /\ UNCHANGED <<node, sem, linkVars, op, reg, index, result, rcpVars, begun, undefined>>

\* Mutant of InsertFull: the semaphore of the node is not destroyed.
InsertFullKeepsSem(t) ==
  /\ FreeEntries = {}
  /\ Step(t, "insert", "idle")
  /\ IF op[t] = "read16" THEN list_sem = Null ELSE TRUE
  /\ node' = [node EXCEPT ![t] = Null]
  /\ Return(t, "no resource")
  /\ UNCHANGED <<rcpRegList, list_sem, sem, linkVars, op, reg, index, rcpVars, begun, undefined>>

\* RCP_Read_32bit_Reg leaves without freeing the node or its semaphore.
InsertFull(t) ==
  /\ FreeEntries = {}
  /\ Step(t, "insert", "idle")
  /\ IF op[t] = "read16" THEN list_sem = Null /\ Destroy(node[t].semAccess) ELSE UNCHANGED sem
  /\ node' = [node EXCEPT ![t] = Null]
  /\ Return(t, "no resource")
  /\ UNCHANGED <<rcpRegList, list_sem, linkVars, op, reg, index, rcpVars, begun, undefined>>
-----------------------------------------------------------------------------
\* The packet is built before the channel is taken.
Fill(t) ==
  /\ Step(t, "fill", "take")
  /\ txbuf' = IF op[t] = "write" THEN SetMsg(reg[t]) ELSE Get(reg[t])
  /\ UNCHANGED <<listVars, channel, net, timed_out, op, reg, index, result, rcpVars, begun, undefined>>

\* A take that times out is reported and nothing more.
Take(t) ==
  /\ Step(t, "take", "send")
  /\ \/ channel > 0 /\ channel' = channel - 1 /\ UNCHANGED timed_out
     \/ channel = 0 /\ ChannelSlow /\ timed_out' = timed_out + 1 /\ UNCHANGED channel
  /\ UNCHANGED <<listVars, txbuf, net, op, reg, index, result, rcpVars, begun, undefined>>

\* Mutant of Send: a 32-bit read that cannot send skips the give.
SendSkipsGive(t) ==
  /\ pc[t] = "send"
  /\ \/ /\ net' = net \union {txbuf}
        /\ Step(t, "send", IF op[t] = "write" THEN "give" ELSE "wait")
        /\ IF op[t] = "write" THEN Return(t, "ok") ELSE UNCHANGED result
     \/ /\ Step(t, "send", IF op[t] = "write" THEN "give" ELSE "destroy")
        /\ Return(t, "fail")
        /\ UNCHANGED net
  /\ UNCHANGED <<listVars, channel, txbuf, timed_out, op, reg, index, rcpVars, begun, undefined>>

\* What the buffer holds by now is sent, or sending fails.
Send(t) ==
  /\ pc[t] = "send"
  /\ \/ /\ net' = net \union {txbuf}
        /\ Step(t, "send", IF op[t] = "write" THEN "give" ELSE "wait")
        /\ IF op[t] = "write" THEN Return(t, "ok") ELSE UNCHANGED result
     \/ /\ Step(t, "send", IF op[t] = "read16" THEN "destroy" ELSE "give")
        /\ Return(t, "fail")
        /\ UNCHANGED net
  /\ UNCHANGED <<listVars, channel, txbuf, timed_out, op, reg, index, rcpVars, begun, undefined>>

\* Where both kinds of read go when they no longer wait.
Cleanup(t) == IF op[t] = "read16" THEN "destroy" ELSE "give"

\* The semaphore is taken, the node read, and the semaphore given again.
Answered(t) ==
  /\ Step(t, "wait", Cleanup(t))
  /\ sem[node[t].semAccess] \notin {0, Null}
  /\ Return(t, IF node[t].validFlag = 1 THEN node[t].value ELSE "unknown")
  /\ UNCHANGED <<listVars, linkVars, op, reg, index, rcpVars, begun, undefined>>

WaitTimesOut(t) ==
  /\ Step(t, "wait", Cleanup(t))
  /\ sem[node[t].semAccess] \in {0, Null}
  /\ ReplySlow \/ (rcp_pc = "idle" /\ net \intersect {Get(reg[t]), Reply(reg[t])} = {})
  /\ Return(t, "timeout")
  /\ UNCHANGED <<listVars, linkVars, op, reg, index, rcpVars, begun, undefined>>

\* The ways out: RCP_Read_Reg destroys, unlists and frees, then gives the
\* channel; RCP_Read_32bit_Reg gives it first.
Give(t) ==
  /\ Step(t, "give", IF op[t] = "read32" THEN "destroy" ELSE "idle")
  /\ channel' = channel + 1
  /\ UNCHANGED <<listVars, txbuf, net, timed_out, op, reg, index, result, rcpVars, begun, undefined>>

DestroySem(t) ==
  /\ Step(t, "destroy", "unlist")
  /\ Destroy(node[t].semAccess)
  /\ UNCHANGED <<rcpRegList, list_sem, node, linkVars, op, reg, index, result, rcpVars, begun, undefined>>

\* Mutant of Unlist: RCP_Read_Reg frees its node without taking the list.
UnlistUnlocked(t) ==
  /\ Step(t, "unlist", IF op[t] = "read16" THEN "give" ELSE "idle")
  /\ rcpRegList' = [i \in Entries |-> IF rcpRegList[i] = t THEN Null ELSE rcpRegList[i]]
  /\ node' = [node EXCEPT ![t] = Null]
  /\ UNCHANGED <<list_sem, sem, linkVars, op, reg, index, result, rcpVars, begun, undefined>>

\* RCP_RegList_Delete and free.
Unlist(t) ==
  /\ Step(t, "unlist", IF op[t] = "read16" THEN "give" ELSE "idle")
  /\ op[t] = "read16" => list_sem = Null
  /\ rcpRegList' = [i \in Entries |-> IF rcpRegList[i] = t THEN Null ELSE rcpRegList[i]]
  /\ node' = [node EXCEPT ![t] = Null]
  /\ UNCHANGED <<list_sem, sem, linkVars, op, reg, index, result, rcpVars, begun, undefined>>
-----------------------------------------------------------------------------
\* The switch answers a request; anything on its way may get lost.
Switch ==
  /\ \E r \in Regs :
       \/ Get(r) \in net /\ net' = (net \ {Get(r)}) \union {Reply(r)}
       \/ \E msg \in {Get(r), SetMsg(r), Reply(r)} : msg \in net /\ net' = net \ {msg}
  /\ UNCHANGED <<listVars, channel, txbuf, timed_out, pc, op, reg, index, result, rcpVars, begun, undefined>>

\* Mutant of RcpFind: the first node is taken, whatever its register.
RcpFindAny(r) ==
  /\ rcp_pc = "idle"
  /\ Reply(r) \in net /\ net' = net \ {Reply(r)}
  /\ list_sem = Null
  /\ LET used == {i \in Entries : rcpRegList[i] # Null}
     IN  /\ used # {}
         /\ list_sem' = Rcp
         /\ rcp_node' = rcpRegList[LeastOf(used)]
         /\ rcp_reply' = r /\ rcp_pc' = "fill"
  /\ UNCHANGED <<rcpRegList, node, sem, channel, txbuf, timed_out, pc, op, reg, index, result, begun, undefined>>

\* RCP_RegList_Update: take the list and find the node the reply is for.
RcpFind(r) ==
  /\ rcp_pc = "idle"
  /\ Reply(r) \in net /\ net' = net \ {Reply(r)}
  /\ list_sem = Null
  /\ NodesFor(r) # {}
  /\ list_sem' = Rcp
  /\ rcp_node' = rcpRegList[LeastOf(NodesFor(r))]
  /\ rcp_reply' = r /\ rcp_pc' = "fill"
  /\ UNCHANGED <<rcpRegList, node, sem, channel, txbuf, timed_out, pc, op, reg, index, result, begun, undefined>>

RcpNotFound(r) ==
  /\ rcp_pc = "idle"
  /\ Reply(r) \in net /\ net' = net \ {Reply(r)}
  /\ list_sem = Null
  /\ NodesFor(r) = {}
  /\ UNCHANGED <<listVars, channel, txbuf, timed_out, pc, op, reg, index, result, rcpVars, begun, undefined>>

RcpFill ==
  /\ rcp_pc = "fill"
  /\ node[rcp_node] # Null
  /\ node' = [node EXCEPT ![rcp_node].value = rcp_reply, ![rcp_node].validFlag = 1]
  /\ rcp_pc' = "give"
  /\ UNCHANGED <<rcpRegList, list_sem, sem, linkVars, pc, op, reg, index, result, rcp_reply, rcp_node, begun, undefined>>

\* Mutant of RcpGive: the list is kept when the semaphore is gone already.
RcpGiveKeepsList ==
  /\ rcp_pc = "give"
  /\ node[rcp_node] # Null
  /\ Post(node[rcp_node].semAccess)
  /\ list_sem' = IF sem[node[rcp_node].semAccess] = Null THEN list_sem ELSE Null
  /\ rcp_pc' = "idle" /\ rcp_reply' = Null /\ rcp_node' = Null
  /\ UNCHANGED <<rcpRegList, node, linkVars, pc, op, reg, index, result, begun, undefined>>

RcpGive ==
  /\ rcp_pc = "give"
  /\ node[rcp_node] # Null
  /\ Post(node[rcp_node].semAccess)
  /\ list_sem' = Null
  /\ rcp_pc' = "idle" /\ rcp_reply' = Null /\ rcp_node' = Null
  /\ UNCHANGED <<rcpRegList, node, linkVars, pc, op, reg, index, result, begun, undefined>>

\* RCP_Read_32bit_Reg has freed the node the RCP thread holds.
RcpUndefined ==
  /\ rcp_pc # "idle"
  /\ node[rcp_node] = Null
  /\ undefined' = TRUE
  /\ UNCHANGED <<listVars, linkVars, pc, op, reg, index, result, rcpVars, begun>>
-----------------------------------------------------------------------------
Goes(t) ==
  \/ InsertFind(t) \/ InsertStore(t) \/ InsertFull(t)
  \/ Fill(t) \/ Take(t) \/ Send(t)
  \/ Answered(t) \/ WaitTimesOut(t)
  \/ Give(t) \/ DestroySem(t) \/ Unlist(t)

RcpThread == (\E r \in Regs : RcpFind(r) \/ RcpNotFound(r)) \/ RcpFill \/ RcpGive \/ RcpUndefined

Begins(t) ==
  \E r \in Regs : BeginWrite(t, r) \/ BeginReadFull(t, r) \/ \E o \in Ops : BeginRead(t, o, r)

Next ==
  /\ ~undefined
  /\ (\E t \in Threads : Begins(t) \/ Goes(t)) \/ Switch \/ RcpThread

SafeSpec == Init /\ [][Next]_vars

WaitsForSem(t) == InsertFind(t) \/ InsertFull(t) \/ Unlist(t) \/ Take(t)

\* Threads run and semaphores are fair; the switch may never answer.
Spec ==
  /\ SafeSpec
  /\ \A t \in Threads : WF_vars(~undefined /\ Goes(t))
  /\ \A t \in Threads : SF_vars(~undefined /\ WaitsForSem(t))
  /\ WF_vars(~undefined /\ (RcpFill \/ RcpGive \/ RcpUndefined))
-----------------------------------------------------------------------------
\* Every variable holds values of its kind.
TypeOK ==
  /\ rcpRegList \in [Entries -> Threads \union {Null}]
  /\ list_sem \in Threads \union {Rcp, Null}
  /\ node \in [Threads -> Node \union {Null}]
  /\ sem \in [Sems -> Nat \union {Null}]
  /\ channel \in Nat /\ timed_out \in Nat
  /\ txbuf \in {Null} \union [kind : {"get", "set"}, reg : Regs]
  /\ net \subseteq [kind : {"get", "set", "reply"}, reg : Regs]
  /\ pc \in [Threads -> {"idle", "insert", "store", "fill", "take", "send", "wait", "give", "destroy", "unlist"}]
  /\ op \in [Threads -> {Null, "read16", "read32", "write"}]
  /\ reg \in [Threads -> Regs \union {Null}] /\ index \in [Threads -> 0 .. ListSize]
  /\ result \in [Threads -> {Null, "ok"} \union Failures \union Regs]
  /\ rcp_pc \in {"idle", "fill", "give"} /\ rcp_reply \in Regs \union {Null}
  /\ rcp_node \in Threads \union {Null} /\ begun \in 0 .. MaxOps /\ undefined \in BOOLEAN

\* A read that succeeds returns a value the switch gave for its own register,
\* although replies come late, are for others, or post a semaphore that was
\* destroyed and has another owner by now (RCP_RegList_Update).
RightRegister ==
  \A t \in Threads : result[t] \in Regs => result[t] = reg[t]

\* With RCP_Read_Reg alone the list holds exactly the nodes between insert and
\* delete, each once (RCP_RegList_Insert, RCP_RegList_Delete).
ListedOnce ==
  \A t \in Threads : Cardinality({i \in Entries : rcpRegList[i] = t}) =
    IF op[t] # "write" /\ pc[t] \in {"fill", "take", "send", "wait", "give", "destroy", "unlist"}
         /\ node[t] # Null
    THEN 1 ELSE 0

\* With RCP_Read_Reg alone every semaphore in use belongs to one node that is
\* not past its delete: none leaks and none is shared (RCP_Read_Reg).
SemsOwned ==
  \A s \in Sems : Cardinality({t \in Threads : /\ node[t] # Null /\ node[t].semAccess = s
                                               /\ pc[t] # "unlist"})
                    = IF sem[s] = Null THEN 0 ELSE 1

\* With RCP_Read_Reg alone, whatever way a read ends, its node and semaphore are
\* listed and owned once while it waits and neither is after it (RCP_Read_Reg).
NodesAndSems == ListedOnce /\ SemsOwned

\* The channel lets one request at a time through until a take times out; each
\* take that times out lets one more through, for good, on every way out of an
\* operation (RCP_Read_Reg, RCP_Read_32bit_Reg, RCP_Write_Reg).
Inside(t) ==
  pc[t] \in {"send", "wait", "give"} \/ (op[t] = "read16" /\ pc[t] \in {"destroy", "unlist"})
Users == {t \in Threads : Inside(t)}
ChannelWidth == channel + Cardinality(Users) = 1 + timed_out

\* With RCP_Read_Reg alone no freed node is used (RCP_RegList_Update holds the
\* list while it uses one).
NeverUndefined == ~undefined

\* Every operation returns: all waits but that for the list are bounded, and
\* the list is never kept (RCP_Read_Reg, RCP_RegList_Update).
OperationsEnd ==
  \A t \in Threads : pc[t] # "idle" ~> (pc[t] = "idle" \/ undefined)
=============================================================================
