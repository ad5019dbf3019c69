------------------------- MODULE RcpRegAccessProofs -------------------------
(***************************************************************************)
(* Proofs about RcpRegAccess, whatever the threads, registers and sizes.   *)
(*                                                                         *)
(* The channel lets one operation through, and one more for each take that *)
(* timed out.  An operation changes who is inside in two actions: Take     *)
(* adds the thread and Give removes it; the others move a thread within or *)
(* without.  This needs no more than that pc and op are functions on       *)
(* Threads and the two counters are numbers.                               *)
(*                                                                         *)
(* Where no thread does RCP_Read_32bit_Reg, a read returns the value of    *)
(* its own register, nodes and semaphores are neither lost nor shared, and *)
(* no freed node is used.  The argument has three layers, each resting on  *)
(* the one before: the types and who has a node (TypeInv); who holds the   *)
(* list and what is in it (LockInv, ListInv); whose the semaphores are and *)
(* what the nodes hold (SemInv, ValueInv).                                 *)
(***************************************************************************)
EXTENDS RcpRegAccess, FiniteSetTheorems, WellFoundedInduction, TLAPS

\* A nonempty set of naturals has a least element.
LEMMA LeastNatural ==
  ASSUME NEW S, S \subseteq Nat, S # {}
  PROVE  \E x \in S : \A y \in S : x =< y
<1> DEFINE R == OpToRel(<, Nat)
<1>1. IsWellFoundedOn(R, Nat)
  BY NatLessThanWellFounded
<1>2. \A x, y \in Nat : y < x => <<y, x>> \in R
  BY DEF OpToRel
<1> HIDE DEF R
<1>3. PICK x \in S : \A y \in S : ~ (<<y, x>> \in R)
  BY <1>1, WFMin
<1>4. \A y \in S : ~ (y < x)
  BY <1>2, <1>3
<1>5. \A y \in S : x =< y
  BY <1>4
<1> QED
  BY <1>5

\* A set has one element exactly when it has some and no two.
LEMMA OneElement ==
  ASSUME NEW S, NEW x \in S, \A y \in S : y = x
  PROVE  IsFiniteSet(S) /\ Cardinality(S) = 1
<1>1. S = {x}
  OBVIOUS
<1> QED
  BY <1>1, FS_Singleton
-----------------------------------------------------------------------------

ChannelType ==
  /\ channel \in Nat /\ timed_out \in Nat
  /\ DOMAIN pc = Threads /\ pc = [t \in Threads |-> pc[t]]
  /\ DOMAIN op = Threads /\ op = [t \in Threads |-> op[t]]

ChannelInv == ChannelType /\ ChannelWidth

\* There are finitely many threads inside, as there are finitely many threads.
LEMMA UsersFinite == IsFiniteSet(Users) /\ Cardinality(Users) \in Nat
<1>1. Users \subseteq Threads
  BY DEF Users
<1>2. IsFiniteSet(Users)
  BY <1>1, RcpAssumption, FS_Subset DEF RcpAssumption
<1> QED
  BY <1>2, FS_CardinalityType

\* Comes in: the number of users grows by one (Take).
LEMMA UserAdded ==
  ASSUME NEW t \in Threads, ~Inside(t), Users' = Users \union {t}
  PROVE  Cardinality(Users') = Cardinality(Users) + 1
<1>1. t \notin Users
  BY DEF Users
<1> QED
  BY <1>1, UsersFinite, FS_AddElement

\* Leaves: the number of users falls by one (Give).
LEMMA UserRemoved ==
  ASSUME NEW t \in Threads, Inside(t), Users' = Users \ {t}
  PROVE  Cardinality(Users) = Cardinality(Users') + 1
<1>1. t \in Users
  BY DEF Users
<1>2. Cardinality(Users') = Cardinality(Users) - 1
  BY <1>1, UsersFinite, FS_RemoveElement
<1> QED
  BY <1>2, UsersFinite

\* A step of a thread that keeps it inside, or outside, keeps the users.
LEMMA UsersKept ==
  ASSUME NEW t \in Threads, Inside(t) <=> Inside(t)',
         \A u \in Threads \ {t} : Inside(u) <=> Inside(u)'
  PROVE  Users' = Users
BY DEF Users

\* The others stay where they are in a step of t.
LEMMA OthersStay ==
  ASSUME ChannelType, NEW t \in Threads, NEW from, NEW to, Step(t, from, to),
         op' = op \/ \E o : op' = [op EXCEPT ![t] = o]
  PROVE  /\ \A u \in Threads \ {t} : Inside(u) <=> Inside(u)'
         /\ pc[t] = from /\ pc'[t] = to
         /\ DOMAIN pc' = Threads /\ pc' = [u \in Threads |-> pc'[u]]
         /\ DOMAIN op' = Threads /\ op' = [u \in Threads |-> op'[u]]
BY DEF ChannelType, Step, Inside

\* A step of a thread that leaves the channel alone.
LEMMA MovesOnly ==
  ASSUME ChannelInv, NEW t \in Threads, NEW from, NEW to, Step(t, from, to),
         op' = op \/ \E o : op' = [op EXCEPT ![t] = o],
         Inside(t) <=> Inside(t)',
         UNCHANGED <<channel, timed_out>>
  PROVE  ChannelInv'
<1>1. ChannelType' /\ Users' = Users
  BY OthersStay, UsersKept DEF ChannelInv, ChannelType
<1> QED
  BY <1>1 DEF ChannelInv, ChannelWidth

\* A step that moves no thread and leaves the channel alone.
LEMMA MovesNone ==
  ASSUME ChannelInv, UNCHANGED <<channel, timed_out, pc>>,
         op' = op \/ \E t \in Threads : pc[t] = "idle" /\ op' = [op EXCEPT ![t] = "read16"]
  PROVE  ChannelInv'
<1>1. ChannelType'
  BY DEF ChannelInv, ChannelType
<1>2. Users' = Users
  BY DEF Users, Inside, ChannelInv, ChannelType
<1> QED
  BY <1>1, <1>2 DEF ChannelInv, ChannelWidth

\* Every step keeps the channel's width (Next).
LEMMA ChannelInvStep == ChannelInv /\ [Next]_vars => ChannelInv'
<1> SUFFICES ASSUME ChannelInv, [Next]_vars PROVE ChannelInv'
  OBVIOUS
<1> USE DEF linkVars
<1>1. ASSUME NEW t \in Threads, Begins(t) PROVE ChannelInv'
  <2>1. PICK r \in Regs : BeginWrite(t, r) \/ BeginReadFull(t, r) \/ \E o \in Ops : BeginRead(t, o, r)
    BY <1>1 DEF Begins
  <2>2. CASE BeginWrite(t, r)
    <3>1. Step(t, "idle", "fill") /\ op' = [op EXCEPT ![t] = "write"] /\ UNCHANGED <<channel, timed_out>>
      BY <2>2 DEF BeginWrite
    <3>2. pc[t] = "idle" /\ pc'[t] = "fill"
      BY <3>1 DEF Step, ChannelInv, ChannelType
    <3>3. ~Inside(t) /\ ~Inside(t)'
      BY <3>2 DEF Inside
    <3> QED
      BY <3>1, <3>3, MovesOnly
  <2>3. CASE BeginReadFull(t, r)
    BY <2>3, MovesNone DEF BeginReadFull
  <2>4. ASSUME NEW o \in Ops, BeginRead(t, o, r) PROVE ChannelInv'
    <3>1. Step(t, "idle", "insert") /\ op' = [op EXCEPT ![t] = o] /\ UNCHANGED <<channel, timed_out>>
      BY <2>4 DEF BeginRead
    <3>2. pc[t] = "idle" /\ pc'[t] = "insert"
      BY <3>1 DEF Step, ChannelInv, ChannelType
    <3>3. ~Inside(t) /\ ~Inside(t)'
      BY <3>2 DEF Inside
    <3> QED
      BY <3>1, <3>3, MovesOnly
  <2> QED
    BY <2>1, <2>2, <2>3, <2>4
<1>2. ASSUME NEW t \in Threads, Goes(t) PROVE ChannelInv'
  <2>1. CASE InsertFind(t)
    <3>1. Step(t, "insert", "store") /\ op' = op /\ UNCHANGED <<channel, timed_out>>
      BY <2>1 DEF InsertFind
    <3>2. ~Inside(t) /\ ~Inside(t)'
      BY <3>1, OthersStay DEF ChannelInv, Inside
    <3> QED
      BY <3>1, <3>2, MovesOnly
  <2>2. CASE InsertStore(t)
    <3>1. Step(t, "store", "fill") /\ op' = op /\ UNCHANGED <<channel, timed_out>>
      BY <2>2 DEF InsertStore
    <3>2. ~Inside(t) /\ ~Inside(t)'
      BY <3>1, OthersStay DEF ChannelInv, Inside
    <3> QED
      BY <3>1, <3>2, MovesOnly
  <2>3. CASE InsertFull(t)
    <3>1. Step(t, "insert", "idle") /\ op' = op /\ UNCHANGED <<channel, timed_out>>
      BY <2>3 DEF InsertFull
    <3>2. ~Inside(t) /\ ~Inside(t)'
      BY <3>1, OthersStay DEF ChannelInv, Inside
    <3> QED
      BY <3>1, <3>2, MovesOnly
  <2>4. CASE Fill(t)
    <3>1. Step(t, "fill", "take") /\ op' = op /\ UNCHANGED <<channel, timed_out>>
      BY <2>4 DEF Fill
    <3>2. ~Inside(t) /\ ~Inside(t)'
      BY <3>1, OthersStay DEF ChannelInv, Inside
    <3> QED
      BY <3>1, <3>2, MovesOnly
  <2>5. CASE Take(t)
    <3>1. Step(t, "take", "send") /\ op' = op
      BY <2>5 DEF Take
    <3>2. ~Inside(t) /\ Inside(t)'
      BY <3>1, OthersStay DEF ChannelInv, Inside
    <3>3. Users' = Users \union {t}
      BY <3>1, <3>2, OthersStay DEF ChannelInv, Users
    <3>4. Cardinality(Users') = Cardinality(Users) + 1
      BY <3>2, <3>3, UserAdded
    <3>5. \/ channel > 0 /\ channel' = channel - 1 /\ timed_out' = timed_out
          \/ channel' = channel /\ timed_out' = timed_out + 1
      BY <2>5 DEF Take
    <3>6. ChannelType'
      BY <3>1, <3>5, OthersStay DEF ChannelInv, ChannelType
    <3>7. ChannelWidth'
      BY <3>4, <3>5, UsersFinite DEF ChannelInv, ChannelType, ChannelWidth
    <3> QED
      BY <3>6, <3>7 DEF ChannelInv
  <2>6. CASE Send(t)
    <3>1. PICK to \in {"give", "wait", "destroy"} :
             Step(t, "send", to) /\ (to = "destroy" => op[t] = "read16")
      BY <2>6 DEF Send
    <3>2. op' = op /\ UNCHANGED <<channel, timed_out>>
      BY <2>6 DEF Send
    <3>3. Inside(t) /\ Inside(t)'
      BY <3>1, <3>2, OthersStay DEF ChannelInv, Inside
    <3> QED
      BY <3>1, <3>2, <3>3, MovesOnly
  <2>7. CASE Answered(t) \/ WaitTimesOut(t)
    <3>1. Step(t, "wait", Cleanup(t)) /\ op' = op /\ UNCHANGED <<channel, timed_out>>
      BY <2>7 DEF Answered, WaitTimesOut
    <3>2. Inside(t) /\ Inside(t)'
      BY <3>1, OthersStay DEF ChannelInv, Inside, Cleanup
    <3> QED
      BY <3>1, <3>2, MovesOnly
  <2>8. CASE Give(t)
    <3>1. PICK to \in {"idle", "destroy"} :
             Step(t, "give", to) /\ (to = "destroy" => op[t] = "read32")
      BY <2>8 DEF Give
    <3>2. op' = op /\ channel' = channel + 1 /\ timed_out' = timed_out
      BY <2>8 DEF Give
    <3>3. Inside(t) /\ ~Inside(t)'
      BY <3>1, <3>2, OthersStay DEF ChannelInv, Inside
    <3>4. Users' = Users \ {t}
      BY <3>1, <3>2, <3>3, OthersStay DEF ChannelInv, Users
    <3>5. Cardinality(Users) = Cardinality(Users') + 1
      BY <3>3, <3>4, UserRemoved
    <3>6. IsFiniteSet(Users') /\ Cardinality(Users') \in Nat
      BY <3>4, UsersFinite, FS_Subset, FS_CardinalityType
    <3>7. ChannelType'
      BY <3>1, <3>2, OthersStay DEF ChannelInv, ChannelType
    <3>8. ChannelWidth'
      BY <3>2, <3>5, <3>6, UsersFinite DEF ChannelInv, ChannelType, ChannelWidth
    <3> QED
      BY <3>7, <3>8 DEF ChannelInv
  <2>9. CASE DestroySem(t)
    <3>1. Step(t, "destroy", "unlist") /\ op' = op /\ UNCHANGED <<channel, timed_out>>
      BY <2>9 DEF DestroySem
    <3>2. Inside(t) <=> Inside(t)'
      BY <3>1, OthersStay DEF ChannelInv, Inside
    <3> QED
      BY <3>1, <3>2, MovesOnly
  <2>10. CASE Unlist(t)
    <3>1. PICK to \in {"give", "idle"} :
             Step(t, "unlist", to) /\ (to = "give" <=> op[t] = "read16")
      BY <2>10 DEF Unlist
    <3>2. op' = op /\ UNCHANGED <<channel, timed_out>>
      BY <2>10 DEF Unlist
    <3>3. Inside(t) <=> Inside(t)'
      BY <3>1, <3>2, OthersStay DEF ChannelInv, Inside
    <3> QED
      BY <3>1, <3>2, <3>3, MovesOnly
  <2> QED
    BY <1>2, <2>1, <2>2, <2>3, <2>4, <2>5, <2>6, <2>7, <2>8, <2>9, <2>10 DEF Goes
<1>3. CASE Switch
  BY <1>3, MovesNone DEF Switch
<1>4. CASE RcpThread
  <2>1. UNCHANGED <<channel, timed_out, pc, op>>
    BY <1>4 DEF RcpThread, RcpFind, RcpNotFound, RcpFill, RcpGive, RcpUndefined
  <2> QED
    BY <2>1, MovesNone
<1>5. CASE UNCHANGED vars
  BY <1>5, MovesNone DEF vars
<1> QED
  BY <1>1, <1>2, <1>3, <1>4, <1>5 DEF Next

\* One operation is between take and give of the channel, and one more for
\* each take that has timed out (RCP_Read_Reg, RCP_Write_Reg).
THEOREM ChannelWidthCorrect == SafeSpec => []ChannelWidth
<1>1. Init => ChannelInv
  <2> SUFFICES ASSUME Init PROVE ChannelInv
    OBVIOUS
  <2>1. Users = {}
    BY DEF Init, Users, Inside
  <2>2. Cardinality(Users) = 0
    BY <2>1, FS_EmptySet
  <2> QED
    BY <2>2 DEF Init, ChannelInv, ChannelType, ChannelWidth
<1>2. ChannelInv => ChannelWidth
  BY DEF ChannelInv
<1> QED
  BY <1>1, <1>2, ChannelInvStep, PTL DEF SafeSpec
-----------------------------------------------------------------------------
\* The searches of gw_semaphore_create and RCP_RegList_* end on what they look for.
LEMMA LeastOfIsIn ==
  ASSUME NEW S, S \subseteq Nat, S # {}
  PROVE  LeastOf(S) \in S
<1>1. \E i \in S : \A j \in S : i =< j
  BY LeastNatural
<1> QED
  BY <1>1 DEF LeastOf

\* The semaphore a read creates was free (gw_semaphore_create).
LEMMA FreeSemIsFree ==
  ASSUME FreeSems # {}
  PROVE  LeastOf(FreeSems) \in Sems /\ sem[LeastOf(FreeSems)] = Null
<1>1. FreeSems \subseteq Nat
  BY DEF FreeSems, Sems
<1>2. LeastOf(FreeSems) \in FreeSems
  BY <1>1, LeastOfIsIn
<1> QED
  BY <1>2 DEF FreeSems

\* The entry a read is to be stored in was free (RCP_RegList_Insert).
LEMMA FreeEntryIsFree ==
  ASSUME FreeEntries # {}
  PROVE  LeastOf(FreeEntries) \in Entries /\ rcpRegList[LeastOf(FreeEntries)] = Null
<1>1. FreeEntries \subseteq Nat
  BY DEF FreeEntries, Entries
<1>2. LeastOf(FreeEntries) \in FreeEntries
  BY <1>1, LeastOfIsIn
<1> QED
  BY <1>2 DEF FreeEntries

\* The node RCP_RegList_Update fills is listed and of the reply's register.
LEMMA NodeForIsListed ==
  ASSUME NEW r, NodesFor(r) # {}
  PROVE  LET i == LeastOf(NodesFor(r))
         IN  i \in Entries /\ rcpRegList[i] # Null /\ node[rcpRegList[i]] # Null
             /\ node[rcpRegList[i]].address = r
<1>1. NodesFor(r) \subseteq Nat
  BY DEF NodesFor, Entries
<1>2. LeastOf(NodesFor(r)) \in NodesFor(r)
  BY <1>1, LeastOfIsIn
<1> QED
  BY <1>2 DEF NodesFor

\* A node as a read makes it.
LEMMA NodeMade ==
  ASSUME NEW r \in Regs, NEW s \in Sems
  PROVE  [address |-> r, value |-> Null, validFlag |-> 0, semAccess |-> s] \in Node
BY DEF Node

\* A node as RCP_RegList_Update fills it.
LEMMA NodeFilled ==
  ASSUME NEW n \in Node, NEW r \in Regs
  PROVE  /\ [n EXCEPT !.value = r, !.validFlag = 1] \in Node
         /\ [n EXCEPT !.value = r, !.validFlag = 1].value = r
         /\ [n EXCEPT !.value = r, !.validFlag = 1].address = n.address
         /\ [n EXCEPT !.value = r, !.validFlag = 1].semAccess = n.semAccess
<1> DEFINE m == [n EXCEPT !.value = r]
<1>1. m \in Node
  BY DEF Node
<1>2. m.value = r /\ m.address = n.address /\ m.semAccess = n.semAccess
  BY DEF Node
<1>3. [n EXCEPT !.value = r, !.validFlag = 1] = [m EXCEPT !.validFlag = 1]
  OBVIOUS
<1> HIDE DEF m
<1>4. [m EXCEPT !.validFlag = 1] \in Node
  BY <1>1 DEF Node
<1>5. /\ [m EXCEPT !.validFlag = 1].value = m.value
      /\ [m EXCEPT !.validFlag = 1].address = m.address
      /\ [m EXCEPT !.validFlag = 1].semAccess = m.semAccess
  BY <1>1 DEF Node
<1> QED
  BY <1>2, <1>3, <1>4, <1>5

\* What a node is made of; no node is Null.
LEMMA NodeFields ==
  ASSUME NEW n \in Node
  PROVE  /\ n # Null /\ n.address \in Regs /\ n.value \in Regs \union {Null}
         /\ n.validFlag \in {0, 1} /\ n.semAccess \in Sems
BY NullAssumption DEF Node, NullAssumption

\* A thread has its node from the begin of a read until it is unlisted.
HasNode(t) ==
  \/ pc[t] \in {"insert", "store", "wait", "destroy", "unlist"}
  \/ op[t] # "write" /\ pc[t] \in {"fill", "take", "send"}
  \/ op[t] = "read32" /\ pc[t] = "give"

\* The types, and which thread has a node and has filled the buffer.
TypeInv ==
  /\ TypeOK
  /\ \A t \in Threads :
       /\ HasNode(t) => node[t] \in Node
       /\ ~HasNode(t) => node[t] = Null
       /\ op[t] \in Ops \union {Null}
       /\ pc[t] # "idle" => op[t] # Null /\ reg[t] \in Regs
       /\ op[t] = "write" => pc[t] \in {"idle", "fill", "take", "send", "give"}
       /\ pc[t] \in {"take", "send"} => txbuf \in [kind : {"get", "set"}, reg : Regs]
  /\ rcp_pc # "idle" => rcp_node \in Threads /\ rcp_reply \in Regs

USE DEF listVars, linkVars, rcpVars

\* Every step keeps the types, whatever threads do (Next).
LEMMA TypeStep == TypeInv /\ [Next]_vars => TypeInv'
<1> SUFFICES ASSUME TypeInv, [Next]_vars PROVE TypeInv'
  OBVIOUS
<1> USE RcpAssumption, NullAssumption DEF RcpAssumption, NullAssumption
<1> USE DEF TypeInv, TypeOK, HasNode, Step, Return
<1>1. ASSUME NEW t \in Threads, NEW r \in Regs, BeginWrite(t, r) PROVE TypeInv'
  BY <1>1 DEF BeginWrite
<1>2. ASSUME NEW t \in Threads, NEW r \in Regs, BeginReadFull(t, r) PROVE TypeInv'
  <2>1. result' \in [Threads -> {Null, "ok"} \union Failures \union Regs]
    BY <1>2 DEF BeginReadFull, Failures
  <2> QED
    BY <1>2, <2>1 DEF BeginReadFull
<1>3. ASSUME NEW t \in Threads, NEW r \in Regs, NEW o \in Ops, BeginRead(t, o, r) PROVE TypeInv'
  <2>1. PICK s \in Sems : /\ node' = [node EXCEPT ![t] = [address |-> r, value |-> Null, validFlag |-> 0, semAccess |-> s]]
                          /\ sem' = [sem EXCEPT ![s] = 0]
    BY <1>3, FreeSemIsFree DEF BeginRead
  <2>2. PICK n \in Node : node' = [node EXCEPT ![t] = n]
    BY <2>1, NodeMade
  <2>3. TypeOK'
    BY <1>3, <2>1, <2>2 DEF BeginRead
  <2> QED
    BY <1>3, <2>2, <2>3 DEF BeginRead
<1>4. ASSUME NEW t \in Threads, InsertFind(t) PROVE TypeInv'
  <2>1. PICK i \in Entries : index' = [index EXCEPT ![t] = i]
    BY <1>4, FreeEntryIsFree DEF InsertFind
  <2> QED
    BY <1>4, <2>1 DEF InsertFind, Lock, Entries
<1>5. ASSUME NEW t \in Threads, InsertStore(t) PROVE TypeInv'
  BY <1>5 DEF InsertStore, Unlock
<1>6. ASSUME NEW t \in Threads, InsertFull(t) PROVE TypeInv'
  BY <1>6 DEF InsertFull, Failures, Destroy
<1>7. ASSUME NEW t \in Threads, Fill(t) PROVE TypeInv'
  <2>1. txbuf' \in [kind : {"get", "set"}, reg : Regs]
    BY <1>7 DEF Fill, Get, SetMsg
  <2> QED
    BY <1>7, <2>1 DEF Fill
<1>8. ASSUME NEW t \in Threads, Take(t) PROVE TypeInv'
  <2>1. channel' \in Nat /\ timed_out' \in Nat
    BY <1>8 DEF Take
  <2> QED
    BY <1>8, <2>1 DEF Take
<1>9. ASSUME NEW t \in Threads, Send(t) PROVE TypeInv'
  <2>1. PICK to \in {"wait", "destroy", "give"} :
            /\ Step(t, "send", to)
            /\ op[t] = "write" => to = "give"
            /\ op[t] = "read16" => to # "give"
    BY <1>9 DEF Send
  <2>2. PICK x \in {"ok", "fail", result[t]} : result' = [result EXCEPT ![t] = x]
    BY <1>9 DEF Send
  <2>3. net' \subseteq [kind : {"get", "set", "reply"}, reg : Regs]
    BY <1>9 DEF Send
  <2>4. result' \in [Threads -> {Null, "ok"} \union Failures \union Regs]
    BY <2>2 DEF Failures
  <2>5. UNCHANGED <<listVars, channel, txbuf, timed_out, op, reg, index, rcpVars, begun, undefined>>
    BY <1>9 DEF Send
  <2>6. TypeOK'
    BY <2>1, <2>3, <2>4, <2>5
  <2> QED
    BY <2>1, <2>5, <2>6
<1>10. ASSUME NEW t \in Threads, Answered(t) \/ WaitTimesOut(t) PROVE TypeInv'
  <2>1. node[t] \in Node
    BY <1>10 DEF Answered, WaitTimesOut
  <2>2. result' \in [Threads -> {Null, "ok"} \union Failures \union Regs]
    <3>1. PICK x \in Regs \union {Null, "unknown", "timeout"} : result' = [result EXCEPT ![t] = x]
      BY <1>10, <2>1, NodeFields DEF Answered, WaitTimesOut
    <3> QED
      BY <3>1 DEF Failures
  <2>3. UNCHANGED <<listVars, linkVars, op, reg, index, rcpVars, begun, undefined>>
    BY <1>10 DEF Answered, WaitTimesOut
  <2>4. Step(t, "wait", IF op[t] = "read16" THEN "destroy" ELSE "give")
    BY <1>10 DEF Answered, WaitTimesOut, Cleanup
  <2> QED
    BY <2>2, <2>3, <2>4
<1>12. ASSUME NEW t \in Threads, Give(t) PROVE TypeInv'
  BY <1>12 DEF Give
<1>13. ASSUME NEW t \in Threads, DestroySem(t) PROVE TypeInv'
  BY <1>13 DEF DestroySem, Destroy
<1>14. ASSUME NEW t \in Threads, Unlist(t) PROVE TypeInv'
  BY <1>14 DEF Unlist
<1>15. CASE Switch
  BY <1>15 DEF Switch, Get, SetMsg, Reply
<1>16. ASSUME NEW r \in Regs, RcpFind(r) PROVE TypeInv'
  <2>1. rcp_node' \in Threads
    BY <1>16, NodeForIsListed DEF RcpFind
  <2> QED
    BY <1>16, <2>1 DEF RcpFind
<1>17. ASSUME NEW r \in Regs, RcpNotFound(r) PROVE TypeInv'
  BY <1>17 DEF RcpNotFound
<1>18. CASE RcpFill
  <2>1. node[rcp_node] \in Node
    BY <1>18 DEF RcpFill
  <2>2. PICK n \in Node : node' = [node EXCEPT ![rcp_node] = n]
    <3>1. node' = [node EXCEPT ![rcp_node] = [node[rcp_node] EXCEPT !.value = rcp_reply, !.validFlag = 1]]
      BY <1>18 DEF RcpFill
    <3> QED
      BY <1>18, <2>1, <3>1, NodeFilled DEF RcpFill
  <2>3. node' \in [Threads -> Node \union {Null}] /\ \A t \in Threads : node'[t] \in Node <=> node[t] \in Node
    BY <2>1, <2>2, <1>18 DEF RcpFill
  <2>4. rcp_pc' = "give" /\ rcp_node \in Threads /\ rcp_reply \in Regs
        /\ UNCHANGED <<rcpRegList, list_sem, sem, linkVars, pc, op, reg, index, result, rcp_reply, rcp_node, begun, undefined>>
    BY <1>18 DEF RcpFill
  <2> QED
    BY <2>3, <2>4
<1>19. CASE RcpGive
  <2>1. sem' \in [Sems -> Nat \union {Null}]
    <3>1. PICK s : sem' = IF sem[s] = Null THEN sem ELSE [sem EXCEPT ![s] = sem[s] + 1]
      BY <1>19 DEF RcpGive, Post
    <3>2. CASE s \in Sems /\ sem[s] # Null
      <4>1. sem[s] + 1 \in Nat
        BY <3>2
      <4> QED
        BY <3>1, <3>2, <4>1
    <3>3. CASE s \notin Sems \/ sem[s] = Null
      BY <3>1, <3>3
    <3> QED
      BY <3>2, <3>3
  <2> QED
    BY <1>19, <2>1 DEF RcpGive
<1>20. CASE RcpUndefined
  BY <1>20 DEF RcpUndefined
<1>21. CASE UNCHANGED vars
  BY <1>21 DEF vars
<1> QED
  BY <1>1, <1>2, <1>3, <1>4, <1>5, <1>6, <1>7, <1>8, <1>9, <1>10, <1>12, <1>13, <1>14,
     <1>15, <1>16, <1>17, <1>18, <1>19, <1>20, <1>21 DEF Next, Begins, Goes, RcpThread

-----------------------------------------------------------------------------
\* A read is listed between RCP_RegList_Insert and RCP_RegList_Delete.
Listed(t) == op[t] # "write" /\ pc[t] \in {"fill", "take", "send", "wait", "destroy", "unlist"}

\* Who holds the list, and what RCP_RegList_Update works on is listed meanwhile.
LockInv ==
  /\ \A t \in Threads : list_sem = t <=> pc[t] = "store"
  /\ list_sem = Rcp <=> rcp_pc # "idle"
  /\ rcp_pc # "idle" => Listed(rcp_node)

\* The list holds what is listed, each once.
ListInv ==
  /\ \A i \in Entries : rcpRegList[i] # Null => Listed(rcpRegList[i])
  /\ \A i, j \in Entries : rcpRegList[i] # Null /\ rcpRegList[i] = rcpRegList[j] => i = j
  /\ \A t \in Threads : Listed(t) => \E i \in Entries : rcpRegList[i] = t
  /\ \A t \in Threads : pc[t] = "store" => index[t] \in Entries /\ rcpRegList[index[t]] = Null

\* What the steps of the list need of TypeInv when no thread reads 32 bits.
TypeFacts ==
  /\ rcpRegList \in [Entries -> Threads \union {Null}]
  /\ list_sem \in Threads \union {Rcp, Null}
  /\ DOMAIN pc = Threads /\ DOMAIN op = Threads /\ DOMAIN index = Threads 
  /\ rcp_pc # "idle" => rcp_node \in Threads
  /\ \A t \in Threads : op[t] # "read32" /\ (op[t] # "write" /\ pc[t] # "idle" => op[t] = "read16")
  /\ \A t \in Threads : op[t] = "write" => pc[t] \in {"idle", "fill", "take", "send", "give"}
  /\ {Rcp, Null} \intersect Threads = {} /\ Rcp # Null

\* A thread that does not write does RCP_Read_Reg.
LEMMA Facts ==
  ASSUME TypeInv, "read32" \notin Ops
  PROVE  TypeFacts
<1>1. \A t \in Threads : op[t] # "read32" /\ (op[t] # "write" /\ pc[t] # "idle" => op[t] = "read16")
  <2>1. \A o \in Ops : o = "read16" \/ o = "write"
    BY RcpAssumption DEF RcpAssumption
  <2>2. \A t \in Threads : op[t] \in Ops \union {Null} /\ (pc[t] # "idle" => op[t] # Null)
    BY DEF TypeInv
  <2>3. Null # "read32"
    BY NullAssumption DEF NullAssumption
  <2> QED
    BY <2>1, <2>2, <2>3
<1> QED
  BY <1>1, RcpAssumption DEF RcpAssumption, TypeInv, TypeOK, TypeFacts

\* What a step of t leaves alone.
LEMMA ThreadMoves ==
  ASSUME TypeFacts, NEW t \in Threads, NEW from, NEW to, Step(t, from, to),
         op' = op \/ \E o : op' = [op EXCEPT ![t] = o]
  PROVE  /\ pc[t] = from /\ pc'[t] = to
         /\ \A u \in Threads \ {t} : pc'[u] = pc[u] /\ op'[u] = op[u]
BY DEF TypeFacts, Step

\* A step that leaves the list alone, and who is in it.
LEMMA ListKept ==
  ASSUME TypeFacts, LockInv, ListInv,
         \A u \in Threads : (Listed(u)' <=> Listed(u)) /\ (pc'[u] = "store" <=> pc[u] = "store"),
         UNCHANGED <<rcpRegList, list_sem, index, rcp_pc, rcp_node>>
  PROVE  LockInv' /\ ListInv'
<1>1. LockInv'
  BY DEF LockInv, TypeFacts
<1>2. \A i \in Entries : rcpRegList[i] # Null => rcpRegList[i] \in Threads
  BY DEF TypeFacts
<1>3. ListInv'
  BY <1>2 DEF ListInv
<1> QED
  BY <1>1, <1>3

\* A step of t that leaves it listed, or unlisted.
LEMMA ListMoves ==
  ASSUME TypeFacts, LockInv, ListInv, NEW t \in Threads, NEW from, NEW to, Step(t, from, to),
         op' = op \/ \E o : op' = [op EXCEPT ![t] = o],
         Listed(t)' <=> Listed(t), from # "store", to # "store",
         UNCHANGED <<rcpRegList, list_sem, index, rcp_pc, rcp_node>>
  PROVE  LockInv' /\ ListInv'
<1>1. \A u \in Threads : (Listed(u)' <=> Listed(u)) /\ (pc'[u] = "store" <=> pc[u] = "store")
  BY ThreadMoves DEF Listed
<1> QED
  BY <1>1, ListKept

\* Every step keeps the list (RCP_RegList_Insert, _Delete and _Update under the
\* semaphore of the list).
LEMMA ListStep ==
  ASSUME TypeFacts, LockInv, ListInv, [Next]_vars
  PROVE  LockInv' /\ ListInv'
<1> DEFINE Good == LockInv' /\ ListInv'
<1>1. ASSUME NEW t \in Threads, NEW r \in Regs, BeginWrite(t, r) PROVE Good
  <2>1. Step(t, "idle", "fill") /\ op' = [op EXCEPT ![t] = "write"] /\ UNCHANGED <<rcpRegList, list_sem, index, rcp_pc, rcp_node>>
    BY <1>1 DEF BeginWrite
  <2>2. pc[t] = "idle" /\ op'[t] = "write"
    BY <2>1 DEF Step, TypeFacts
  <2>3. ~Listed(t) /\ ~Listed(t)'
    BY <2>2 DEF Listed
  <2> QED
    BY <2>1, <2>3, ListMoves
<1>2. ASSUME NEW t \in Threads, NEW r \in Regs, BeginReadFull(t, r) PROVE Good
  <2>1. \A u \in Threads : (Listed(u)' <=> Listed(u)) /\ (pc'[u] = "store" <=> pc[u] = "store")
    BY <1>2 DEF BeginReadFull, Listed, TypeFacts
  <2> QED
    BY <1>2, <2>1, ListKept DEF BeginReadFull
<1>3. ASSUME NEW t \in Threads, NEW r \in Regs, NEW o \in Ops, BeginRead(t, o, r) PROVE Good
  <2>1. Step(t, "idle", "insert") /\ op' = [op EXCEPT ![t] = o] /\ UNCHANGED <<rcpRegList, list_sem, index, rcp_pc, rcp_node>>
    BY <1>3 DEF BeginRead
  <2>2. pc[t] = "idle" /\ pc'[t] = "insert"
    BY <2>1 DEF Step, TypeFacts
  <2>3. ~Listed(t) /\ ~Listed(t)'
    BY <2>2 DEF Listed
  <2> QED
    BY <2>1, <2>3, ListMoves
<1>4. ASSUME NEW t \in Threads, InsertFind(t) PROVE Good
  <2>1. PICK i \in Entries : index' = [index EXCEPT ![t] = i] /\ rcpRegList[i] = Null
    BY <1>4, FreeEntryIsFree DEF InsertFind
  <2>2. Step(t, "insert", "store") /\ UNCHANGED <<rcpRegList, op, rcp_pc, rcp_node>>
    BY <1>4 DEF InsertFind
  <2>3. list_sem = Null /\ list_sem' = t
    BY <1>4, <2>2, ThreadMoves DEF InsertFind, Lock, TypeFacts
  <2>4. \A u \in Threads : (Listed(u)' <=> Listed(u)) /\ (pc'[u] = "store" <=> u = t \/ pc[u] = "store")
    BY <2>2, ThreadMoves DEF Listed
  <2>5. \A u \in Threads : index'[u] = IF u = t THEN i ELSE index[u]
    BY <2>1 DEF TypeFacts
  <2>6. LockInv'
    BY <2>2, <2>3, <2>4 DEF LockInv, TypeFacts
  <2>7. ListInv'
    BY <2>1, <2>2, <2>4, <2>5 DEF ListInv, TypeFacts
  <2> QED
    BY <2>6, <2>7
<1>5. ASSUME NEW t \in Threads, InsertStore(t) PROVE Good
  <2>1. Step(t, "store", "fill") /\ UNCHANGED <<op, index, rcp_pc, rcp_node>>
        /\ rcpRegList' = [rcpRegList EXCEPT ![index[t]] = t]
    BY <1>5 DEF InsertStore
  <2>2. op[t] = "read16" /\ pc[t] = "store"
    BY <2>1, ThreadMoves DEF TypeFacts
  <2>3. list_sem = t /\ list_sem' = Null
    BY <1>5, <2>2 DEF InsertStore, Unlock, LockInv
  <2>4. \A u \in Threads : /\ Listed(u)' <=> u = t \/ Listed(u)
                           /\ pc'[u] # "store"
    BY <2>1, <2>2, <2>3, ThreadMoves DEF Listed, LockInv
  <2>5. index[t] \in Entries /\ rcpRegList[index[t]] = Null /\ ~Listed(t)
    BY <2>2 DEF ListInv, Listed
  <2>6. \A i \in Entries : rcpRegList'[i] = IF i = index[t] THEN t ELSE rcpRegList[i]
    BY <2>1 DEF TypeFacts
  <2>7. LockInv'
    BY <2>1, <2>3, <2>4 DEF LockInv, TypeFacts
  <2>8. ListInv'
    <3>1. \A i \in Entries : rcpRegList'[i] # Null => rcpRegList'[i] \in Threads /\ Listed(rcpRegList[i])'
      BY <2>4, <2>6 DEF ListInv, TypeFacts, Listed
    <3>2. \A i, j \in Entries : rcpRegList'[i] # Null /\ rcpRegList'[i] = rcpRegList'[j] => i = j
      BY <2>5, <2>6 DEF ListInv, TypeFacts
    <3>3. \A u \in Threads : Listed(u)' => \E i \in Entries : rcpRegList'[i] = u
      BY <2>4, <2>5, <2>6 DEF ListInv, TypeFacts
    <3> QED
      BY <2>4, <3>1, <3>2, <3>3 DEF ListInv
  <2> QED
    BY <2>7, <2>8
<1>6. ASSUME NEW t \in Threads, InsertFull(t) PROVE Good
  <2>1. Step(t, "insert", "idle") /\ op' = op /\ UNCHANGED <<rcpRegList, list_sem, index, rcp_pc, rcp_node>>
    BY <1>6 DEF InsertFull
  <2>2. ~Listed(t) /\ ~Listed(t)'
    BY <2>1, ThreadMoves DEF Listed
  <2> QED
    BY <2>1, <2>2, ListMoves
<1>7. ASSUME NEW t \in Threads, Fill(t) PROVE Good
  <2>1. Step(t, "fill", "take") /\ op' = op /\ UNCHANGED <<rcpRegList, list_sem, index, rcp_pc, rcp_node>>
    BY <1>7 DEF Fill
  <2>2. Listed(t)' <=> Listed(t)
    BY <2>1, ThreadMoves DEF Listed
  <2> QED
    BY <2>1, <2>2, ListMoves
<1>8. ASSUME NEW t \in Threads, Take(t) PROVE Good
  <2>1. Step(t, "take", "send") /\ op' = op /\ UNCHANGED <<rcpRegList, list_sem, index, rcp_pc, rcp_node>>
    BY <1>8 DEF Take
  <2>2. Listed(t)' <=> Listed(t)
    BY <2>1, ThreadMoves DEF Listed
  <2> QED
    BY <2>1, <2>2, ListMoves
<1>9. ASSUME NEW t \in Threads, DestroySem(t) PROVE Good
  <2>1. Step(t, "destroy", "unlist") /\ op' = op /\ UNCHANGED <<rcpRegList, list_sem, index, rcp_pc, rcp_node>>
    BY <1>9 DEF DestroySem
  <2>2. Listed(t)' <=> Listed(t)
    BY <2>1, ThreadMoves DEF Listed
  <2> QED
    BY <2>1, <2>2, ListMoves
<1>10. ASSUME NEW t \in Threads, Send(t) PROVE Good
  <2>1. op' = op /\ pc[t] = "send" /\ UNCHANGED <<rcpRegList, list_sem, index, rcp_pc, rcp_node>>
    BY <1>10 DEF Send
  <2>2. PICK to \in {"give", "wait", "destroy"} : Step(t, "send", to) /\ (to = "give" <=> op[t] = "write")
    BY <1>10, <2>1 DEF Send, TypeFacts
  <2>3. Listed(t)' <=> Listed(t)
    BY <2>1, <2>2, ThreadMoves DEF Listed
  <2> QED
    BY <2>1, <2>2, <2>3, ListMoves
<1>11. ASSUME NEW t \in Threads, Answered(t) \/ WaitTimesOut(t) PROVE Good
  <2>1. Step(t, "wait", Cleanup(t)) /\ op' = op /\ UNCHANGED <<rcpRegList, list_sem, index, rcp_pc, rcp_node>>
    BY <1>11 DEF Answered, WaitTimesOut
  <2>2. Cleanup(t) = "destroy"
    BY <2>1 DEF Cleanup, Step, TypeFacts
  <2>3. Listed(t)' <=> Listed(t)
    BY <2>1, <2>2, ThreadMoves DEF Listed
  <2> QED
    BY <2>1, <2>2, <2>3, ListMoves
<1>12. ASSUME NEW t \in Threads, Give(t) PROVE Good
  <2>1. Step(t, "give", "idle") /\ op' = op /\ UNCHANGED <<rcpRegList, list_sem, index, rcp_pc, rcp_node>>
    BY <1>12 DEF Give, TypeFacts
  <2>2. ~Listed(t) /\ ~Listed(t)'
    BY <2>1, ThreadMoves DEF Listed
  <2> QED
    BY <2>1, <2>2, ListMoves
<1>14. ASSUME NEW t \in Threads, Unlist(t) PROVE Good
  <2>1. Step(t, "unlist", "give") /\ UNCHANGED <<op, list_sem, index, rcp_pc, rcp_node>> /\ list_sem = Null
        /\ rcpRegList' = [i \in Entries |-> IF rcpRegList[i] = t THEN Null ELSE rcpRegList[i]]
    BY <1>14 DEF Unlist, TypeFacts, Step
  <2>2. \A u \in Threads : (Listed(u)' <=> u # t /\ Listed(u)) /\ pc[u] # "store" /\ pc'[u] # "store"
    BY <2>1, ThreadMoves DEF Listed, LockInv, TypeFacts
  <2>3. LockInv'
    BY <2>1, <2>2 DEF LockInv, TypeFacts
  <2>4. ListInv'
    BY <2>1, <2>2 DEF ListInv, TypeFacts
  <2> QED
    BY <2>3, <2>4
<1>15. CASE Switch
  BY <1>15, ListKept DEF Switch, Listed
<1>16. ASSUME NEW r \in Regs, RcpFind(r) PROVE Good
  <2>1. PICK i \in Entries : rcp_node' = rcpRegList[i] /\ rcpRegList[i] # Null
    BY <1>16, NodeForIsListed DEF RcpFind
  <2>2. list_sem = Null /\ list_sem' = Rcp /\ rcp_pc' = "fill" /\ UNCHANGED <<rcpRegList, index, pc, op>>
    BY <1>16 DEF RcpFind
  <2>3. LockInv'
    BY <2>1, <2>2 DEF LockInv, ListInv, Listed, TypeFacts
  <2>4. ListInv'
    BY <2>2 DEF ListInv, Listed
  <2> QED
    BY <2>3, <2>4
<1>17. ASSUME NEW r \in Regs, RcpNotFound(r) PROVE Good
  BY <1>17, ListKept DEF RcpNotFound, Listed
<1>18. CASE RcpFill
  <2>1. list_sem = Rcp /\ rcp_pc' = "give" /\ UNCHANGED <<rcpRegList, list_sem, index, pc, op, rcp_node>>
    BY <1>18 DEF RcpFill, LockInv
  <2> QED
    BY <1>18, <2>1 DEF RcpFill, LockInv, ListInv, Listed
<1>19. CASE RcpGive
  <2>1. list_sem = Rcp /\ list_sem' = Null /\ rcp_pc' = "idle" /\ UNCHANGED <<rcpRegList, index, pc, op>>
    BY <1>19 DEF RcpGive, LockInv
  <2> QED
    BY <2>1 DEF LockInv, ListInv, Listed, TypeFacts
<1>20. CASE RcpUndefined
  BY <1>20, ListKept DEF RcpUndefined, Listed
<1>21. CASE UNCHANGED vars
  BY <1>21, ListKept DEF vars, Listed
<1> QED
  BY <1>1, <1>2, <1>3, <1>4, <1>5, <1>6, <1>7, <1>8, <1>9, <1>10, <1>11, <1>12, <1>14,
     <1>15, <1>16, <1>17, <1>18, <1>19, <1>20, <1>21 DEF Next, Begins, Goes, RcpThread

-----------------------------------------------------------------------------
HoldsSem(t) == HasNode(t) /\ pc[t] # "unlist"

\* Every semaphore in use is that of one node, and the nodes have one each.
SemInv ==
  /\ \A t \in Threads : HoldsSem(t) => sem[node[t].semAccess] # Null
  /\ \A t, u \in Threads : HoldsSem(t) /\ HoldsSem(u) /\ node[t].semAccess = node[u].semAccess => t = u
  /\ \A s \in Sems : sem[s] # Null => \E t \in Threads : HoldsSem(t) /\ node[t].semAccess = s

\* A node is for the register of its thread and holds nothing else.
ValueInv ==
  /\ \A t \in Threads : HasNode(t) =>
       node[t].address = reg[t] /\ (node[t].validFlag = 1 => node[t].value = reg[t])
  /\ rcp_pc # "idle" => node[rcp_node].address = rcp_reply

\* What the steps of the nodes need of TypeInv.
NodeFacts ==
  /\ DOMAIN node = Threads /\ DOMAIN sem = Sems /\ DOMAIN reg = Threads /\ DOMAIN result = Threads
  /\ \A t \in Threads : HasNode(t) => node[t] \in Node
  /\ \A s \in Sems : sem[s] \in Nat \union {Null}
  /\ Null \notin Nat /\ 0 # Null /\ Null \notin Regs /\ {"fail", "unknown", "timeout", "no resource", "ok"} \intersect Regs = {}

\* A node and a semaphore are where the types say.
LEMMA NodeFactsHold ==
  ASSUME TypeInv
  PROVE  NodeFacts
<1>1. 0 \in Nat
  OBVIOUS
<1>2. Null \notin Nat /\ 0 # Null
  BY <1>1, NullAssumption, Zenon DEF NullAssumption
<1> QED
  BY <1>2, NullAssumption DEF NullAssumption, Failures, TypeInv, TypeOK, NodeFacts

\* A step that leaves the semaphores and their owners alone.
LEMMA SemsKept ==
  ASSUME SemInv, NodeFacts,
         \A u \in Threads : (HoldsSem(u)' <=> HoldsSem(u)) /\ (HoldsSem(u) => node'[u].semAccess = node[u].semAccess),
         \A s \in Sems : sem'[s] = Null <=> sem[s] = Null
  PROVE  SemInv'
<1>1. \A u \in Threads : HoldsSem(u) => node[u].semAccess \in Sems
  BY NodeFields DEF NodeFacts, HoldsSem
<1>2. \A t \in Threads : HoldsSem(t)' => sem'[node'[t].semAccess] # Null
  BY <1>1 DEF SemInv
<1>3. \A t, u \in Threads : HoldsSem(t)' /\ HoldsSem(u)' /\ node'[t].semAccess = node'[u].semAccess => t = u
  BY DEF SemInv
<1>4. \A s \in Sems : sem'[s] # Null => \E t \in Threads : HoldsSem(t)' /\ node'[t].semAccess = s
  BY DEF SemInv
<1> QED
  BY <1>2, <1>3, <1>4 DEF SemInv

\* The semaphore of t is destroyed.
LEMMA SemDropped ==
  ASSUME SemInv, NodeFacts, NEW t \in Threads, HoldsSem(t), ~HoldsSem(t)',
         sem' = [sem EXCEPT ![node[t].semAccess] = Null],
         \A u \in Threads \ {t} : (HoldsSem(u)' <=> HoldsSem(u)) /\ node'[u] = node[u]
  PROVE  SemInv'
<1>1. \A u \in Threads : HoldsSem(u) => node[u].semAccess \in Sems
  BY NodeFields DEF NodeFacts, HoldsSem
<1>2. \A s \in Sems : sem'[s] = IF s = node[t].semAccess THEN Null ELSE sem[s]
  BY DEF NodeFacts
<1>3. \A u \in Threads : HoldsSem(u)' => sem'[node'[u].semAccess] # Null
  BY <1>1, <1>2 DEF SemInv
<1>4. \A u, v \in Threads : HoldsSem(u)' /\ HoldsSem(v)' /\ node'[u].semAccess = node'[v].semAccess => u = v
  BY DEF SemInv
<1>5. \A s \in Sems : sem'[s] # Null => \E u \in Threads : HoldsSem(u)' /\ node'[u].semAccess = s
  BY <1>1, <1>2 DEF SemInv
<1> QED
  BY <1>3, <1>4, <1>5 DEF SemInv

\* A step that fills no node and returns no register.
LEMMA ValuesKept ==
  ASSUME ValueInv, RightRegister, LockInv, NodeFacts,
         \A u \in Threads : HasNode(u)' => HasNode(u) /\ node'[u] = node[u],
         \A u \in Threads : result'[u] \notin Regs \/ result'[u] = result[u],
         rcp_pc # "idle" => node'[rcp_node] = node[rcp_node],
         UNCHANGED <<reg, rcp_pc, rcp_node, rcp_reply>>
  PROVE  ValueInv' /\ RightRegister'
BY DEF ValueInv, RightRegister

\* A read has its node while it is listed and until it is.
LEMMA HasSome ==
  ASSUME TypeFacts, NEW t \in Threads
  PROVE  HasNode(t) <=> \/ pc[t] \in {"insert", "store"} \/ Listed(t)
BY DEF TypeFacts, HasNode, Listed

\* A step of t that moves nothing but t, or returns a failure.
LEMMA NodesMove ==
  ASSUME SemInv, ValueInv, RightRegister, LockInv, TypeFacts, NodeFacts,
         NEW t \in Threads, NEW from, NEW to, Step(t, from, to), op' = op,
         HoldsSem(t)' <=> HoldsSem(t), HasNode(t)' <=> HasNode(t),
         result' = result \/ \E x : x \notin Regs /\ result' = [result EXCEPT ![t] = x],
         UNCHANGED <<node, sem, reg, rcp_pc, rcp_node, rcp_reply>>
  PROVE  SemInv' /\ ValueInv' /\ RightRegister'
<1>1. \A u \in Threads : (HoldsSem(u)' <=> HoldsSem(u)) /\ (HasNode(u)' <=> HasNode(u))
  BY ThreadMoves DEF HoldsSem, HasNode
<1>2. \A u \in Threads : result'[u] \notin Regs \/ result'[u] = result[u]
  BY DEF NodeFacts
<1> QED
  BY <1>1, <1>2, SemsKept, ValuesKept

\* Every step keeps the nodes, their semaphores and their values.
LEMMA NodesStep ==
  ASSUME TypeInv, TypeInv', TypeFacts, LockInv, ListInv, SemInv, ValueInv, RightRegister, [Next]_vars
  PROVE  SemInv' /\ ValueInv' /\ RightRegister'
<1> DEFINE Good == SemInv' /\ ValueInv' /\ RightRegister'
<1>0. NodeFacts /\ NodeFacts'
  BY NodeFactsHold, PTL
<1>a. rcp_pc # "idle" => HasNode(rcp_node) /\ rcp_node \in Threads
  BY HasSome DEF LockInv, TypeFacts
<1>1. ASSUME NEW t \in Threads, NEW r \in Regs, BeginWrite(t, r) PROVE Good
  <2>1. Step(t, "idle", "fill") /\ op' = [op EXCEPT ![t] = "write"] /\ UNCHANGED <<node, sem, rcp_pc, rcp_node, rcp_reply>>
        /\ reg' = [reg EXCEPT ![t] = r] /\ result' = [result EXCEPT ![t] = Null]
    BY <1>1 DEF BeginWrite, Return
  <2>2. \A u \in Threads : (HoldsSem(u)' <=> HoldsSem(u)) /\ (HasNode(u)' <=> HasNode(u))
    BY <2>1 DEF HoldsSem, HasNode, TypeFacts, Step
  <2>3. ~HasNode(t)
    BY <2>1 DEF Step, HasNode
  <2>4. SemInv'
    BY <1>0, <2>1, <2>2, SemsKept
  <2> QED
    BY <1>0, <2>1, <2>2, <2>3, <2>4 DEF ValueInv, RightRegister, NodeFacts
<1>2. ASSUME NEW t \in Threads, NEW r \in Regs, BeginReadFull(t, r) PROVE Good
  <2>1. op' = [op EXCEPT ![t] = "read16"] /\ pc[t] = "idle" /\ UNCHANGED <<pc, node, sem, rcp_pc, rcp_node, rcp_reply>>
        /\ reg' = [reg EXCEPT ![t] = r] /\ result' = [result EXCEPT ![t] = "fail"]
    BY <1>2 DEF BeginReadFull, Return
  <2>2. \A u \in Threads : (HoldsSem(u)' <=> HoldsSem(u)) /\ (HasNode(u)' <=> HasNode(u))
    BY <2>1 DEF HoldsSem, HasNode, TypeFacts
  <2>3. ~HasNode(t)
    BY <2>1 DEF HasNode
  <2>4. SemInv'
    BY <1>0, <2>1, <2>2, SemsKept
  <2> QED
    BY <1>0, <2>1, <2>2, <2>3, <2>4 DEF ValueInv, RightRegister, NodeFacts
<1>3. ASSUME NEW t \in Threads, NEW r \in Regs, NEW o \in Ops, BeginRead(t, o, r) PROVE Good
  <2>1. PICK s \in Sems : /\ node' = [node EXCEPT ![t] = [address |-> r, value |-> Null, validFlag |-> 0, semAccess |-> s]]
                          /\ sem' = [sem EXCEPT ![s] = 0] /\ sem[s] = Null
    BY <1>3, FreeSemIsFree DEF BeginRead
  <2>2. Step(t, "idle", "insert") /\ op' = [op EXCEPT ![t] = o] /\ UNCHANGED <<rcp_pc, rcp_node, rcp_reply>>
        /\ reg' = [reg EXCEPT ![t] = r] /\ result' = [result EXCEPT ![t] = Null]
    BY <1>3 DEF BeginRead, Return
  <2>3. pc[t] = "idle" /\ pc'[t] = "insert"
    BY <2>2 DEF Step, TypeFacts
  <2>4. \A u \in Threads \ {t} : pc'[u] = pc[u] /\ op'[u] = op[u] /\ node'[u] = node[u] /\ reg'[u] = reg[u] /\ result'[u] = result[u]
    BY <1>0, <2>1, <2>2 DEF Step, TypeFacts, NodeFacts
  <2>5. node'[t].address = r /\ node'[t].validFlag = 0 /\ node'[t].semAccess = s /\ reg'[t] = r /\ result'[t] = Null
    BY <1>0, <2>1, <2>2 DEF NodeFacts
  <2>6. ~HasNode(t) /\ HasNode(t)' /\ ~HoldsSem(t) /\ HoldsSem(t)'
    BY <2>3 DEF HasNode, HoldsSem
  <2>7. \A u \in Threads \ {t} : (HoldsSem(u)' <=> HoldsSem(u)) /\ (HasNode(u)' <=> HasNode(u))
    BY <2>4 DEF HasNode, HoldsSem
  <2>8. \A x \in Sems : sem'[x] = IF x = s THEN 0 ELSE sem[x]
    BY <1>0, <2>1 DEF NodeFacts
  <2>9. \A u \in Threads : HoldsSem(u) => node[u].semAccess \in Sems /\ node[u].semAccess # s
    BY <1>0, <2>1, NodeFields DEF NodeFacts, HoldsSem, SemInv
  <2>10. SemInv'
    <3>1. \A u \in Threads : HoldsSem(u)' => sem'[node'[u].semAccess] # Null
      <4>1. sem'[node'[t].semAccess] # Null
        BY <1>0, <2>5, <2>8 DEF NodeFacts
      <4>2. ASSUME NEW u \in Threads \ {t}, HoldsSem(u)' PROVE sem'[node'[u].semAccess] # Null
        BY <4>2, <2>4, <2>7, <2>8, <2>9 DEF SemInv
      <4> QED
        BY <4>1, <4>2
    <3>2. \A u, v \in Threads : HoldsSem(u)' /\ HoldsSem(v)' /\ node'[u].semAccess = node'[v].semAccess => u = v
      BY <2>4, <2>5, <2>7, <2>9 DEF SemInv
    <3>3. \A x \in Sems : sem'[x] # Null => \E u \in Threads : HoldsSem(u)' /\ node'[u].semAccess = x
      <4> SUFFICES ASSUME NEW x \in Sems, sem'[x] # Null PROVE \E u \in Threads : HoldsSem(u)' /\ node'[u].semAccess = x
        OBVIOUS
      <4>1. CASE x = s
        BY <4>1, <2>5, <2>6
      <4>2. CASE x # s
        <5>1. PICK u \in Threads : HoldsSem(u) /\ node[u].semAccess = x
          BY <4>2, <2>8 DEF SemInv
        <5> QED
          BY <5>1, <2>4, <2>6, <2>7
      <4> QED
        BY <4>1, <4>2
    <3> QED
      BY <3>1, <3>2, <3>3 DEF SemInv
  <2>11. RightRegister'
    BY <1>0, <2>4, <2>5 DEF RightRegister, NodeFacts
  <2>12. rcp_pc # "idle" => node'[rcp_node] = node[rcp_node]
    BY <1>a, <2>4, <2>6
  <2>13. ValueInv'
    BY <2>2, <2>4, <2>5, <2>7, <2>12 DEF ValueInv
  <2> QED
    BY <2>10, <2>11, <2>13
<1>4. ASSUME NEW t \in Threads, InsertFind(t) PROVE Good
  <2>1. Step(t, "insert", "store") /\ UNCHANGED <<op, node, sem, reg, result, rcp_pc, rcp_node, rcp_reply>>
    BY <1>4 DEF InsertFind
  <2>2. (HoldsSem(t)' <=> HoldsSem(t)) /\ (HasNode(t)' <=> HasNode(t))
    BY <2>1, ThreadMoves DEF HoldsSem, HasNode
  <2> QED
    BY <1>0, <2>1, <2>2, NodesMove
<1>5. ASSUME NEW t \in Threads, InsertStore(t) PROVE Good
  <2>1. Step(t, "store", "fill") /\ UNCHANGED <<op, node, sem, reg, result, rcp_pc, rcp_node, rcp_reply>>
    BY <1>5 DEF InsertStore
  <2>2. (HoldsSem(t)' <=> HoldsSem(t)) /\ (HasNode(t)' <=> HasNode(t))
    BY <2>1, ThreadMoves DEF HoldsSem, HasNode, TypeFacts
  <2> QED
    BY <1>0, <2>1, <2>2, NodesMove
<1>6. ASSUME NEW t \in Threads, InsertFull(t) PROVE Good
  <2>1. Step(t, "insert", "idle") /\ UNCHANGED <<op, reg, rcp_pc, rcp_node, rcp_reply>>
        /\ node' = [node EXCEPT ![t] = Null] /\ result' = [result EXCEPT ![t] = "no resource"]
    BY <1>6 DEF InsertFull, Return
  <2>a. pc[t] = "insert" /\ pc'[t] = "idle" /\ op[t] # "write" /\ op[t] = "read16"
    BY <2>1 DEF Step, TypeFacts
  <2>2. sem' = [sem EXCEPT ![node[t].semAccess] = Null] /\ list_sem = Null
    BY <1>6, <2>a DEF InsertFull, Destroy
  <2>3. HoldsSem(t) /\ ~HoldsSem(t)' /\ ~HasNode(t)' /\ ~Listed(t)
    BY <2>a DEF HoldsSem, HasNode, Listed
  <2>4. \A u \in Threads \ {t} : (HoldsSem(u)' <=> HoldsSem(u)) /\ (HasNode(u)' <=> HasNode(u)) /\ node'[u] = node[u]
    BY <1>0, <2>1, ThreadMoves DEF HoldsSem, HasNode, NodeFacts
  <2>5. SemInv'
    BY <1>0, <2>2, <2>3, <2>4, SemDropped
  <2>6. rcp_pc = "idle"
    BY <2>2 DEF LockInv, TypeFacts
  <2>7. \A u \in Threads : result'[u] \notin Regs \/ result'[u] = result[u]
    BY <1>0, <2>1 DEF NodeFacts
  <2> QED
    BY <1>0, <2>1, <2>3, <2>4, <2>5, <2>6, <2>7, ValuesKept
<1>7. ASSUME NEW t \in Threads, Fill(t) \/ Take(t) PROVE Good
  <2>1. PICK from \in {"fill", "take"}, to \in {"take", "send"} : Step(t, from, to)
    BY <1>7 DEF Fill, Take
  <2>2. UNCHANGED <<op, node, sem, reg, result, rcp_pc, rcp_node, rcp_reply>>
    BY <1>7 DEF Fill, Take
  <2>3. (HoldsSem(t)' <=> HoldsSem(t)) /\ (HasNode(t)' <=> HasNode(t))
    BY <2>1, <2>2, ThreadMoves DEF HoldsSem, HasNode
  <2> QED
    BY <1>0, <2>1, <2>2, <2>3, NodesMove
<1>8. ASSUME NEW t \in Threads, Send(t) PROVE Good
  <2>1. op' = op /\ pc[t] = "send" /\ UNCHANGED <<node, sem, reg, rcp_pc, rcp_node, rcp_reply>>
    BY <1>8 DEF Send
  <2>2. PICK to \in {"give", "wait", "destroy"} : Step(t, "send", to) /\ (to = "give" <=> op[t] = "write")
    BY <1>8, <2>1 DEF Send, TypeFacts
  <2>3. (HoldsSem(t)' <=> HoldsSem(t)) /\ (HasNode(t)' <=> HasNode(t))
    BY <2>1, <2>2, ThreadMoves DEF HoldsSem, HasNode, TypeFacts
  <2>4. result' = result \/ \E x : x \notin Regs /\ result' = [result EXCEPT ![t] = x]
    BY <1>0, <1>8 DEF Send, Return, NodeFacts
  <2> QED
    BY <1>0, <2>1, <2>2, <2>3, <2>4, NodesMove
<1>9. ASSUME NEW t \in Threads, WaitTimesOut(t) PROVE Good
  <2>1. Step(t, "wait", Cleanup(t)) /\ UNCHANGED <<op, node, sem, reg, rcp_pc, rcp_node, rcp_reply>>
        /\ result' = [result EXCEPT ![t] = "timeout"]
    BY <1>9 DEF WaitTimesOut, Return
  <2>2. Cleanup(t) = "destroy"
    BY <2>1 DEF Cleanup, Step, TypeFacts
  <2>3. (HoldsSem(t)' <=> HoldsSem(t)) /\ (HasNode(t)' <=> HasNode(t))
    BY <2>1, <2>2, ThreadMoves DEF HoldsSem, HasNode
  <2>4. "timeout" \notin Regs
    BY <1>0 DEF NodeFacts
  <2> QED
    BY <1>0, <2>1, <2>3, <2>4, NodesMove
<1>10. ASSUME NEW t \in Threads, Answered(t) PROVE Good
  <2>1. Step(t, "wait", Cleanup(t)) /\ UNCHANGED <<op, node, sem, reg, rcp_pc, rcp_node, rcp_reply>>
        /\ result' = [result EXCEPT ![t] = IF node[t].validFlag = 1 THEN node[t].value ELSE "unknown"]
    BY <1>10 DEF Answered, Return
  <2>2. Cleanup(t) = "destroy" /\ HasNode(t)
    BY <2>1 DEF Cleanup, Step, TypeFacts, HasNode
  <2>3. \A u \in Threads : (HoldsSem(u)' <=> HoldsSem(u)) /\ (HasNode(u)' <=> HasNode(u))
    BY <2>1, <2>2, ThreadMoves DEF HoldsSem, HasNode
  <2>4. SemInv'
    BY <1>0, <2>1, <2>3, SemsKept
  <2>5. RightRegister'
    BY <1>0, <2>1, <2>2 DEF ValueInv, RightRegister, NodeFacts
  <2> QED
    BY <2>1, <2>3, <2>4, <2>5 DEF ValueInv
<1>11. ASSUME NEW t \in Threads, Give(t) PROVE Good
  <2>1. Step(t, "give", "idle") /\ UNCHANGED <<op, node, sem, reg, result, rcp_pc, rcp_node, rcp_reply>>
    BY <1>11 DEF Give, TypeFacts
  <2>2. (HoldsSem(t)' <=> HoldsSem(t)) /\ (HasNode(t)' <=> HasNode(t))
    BY <2>1, ThreadMoves DEF HoldsSem, HasNode, TypeFacts
  <2> QED
    BY <1>0, <2>1, <2>2, NodesMove
<1>13. ASSUME NEW t \in Threads, DestroySem(t) PROVE Good
  <2>1. Step(t, "destroy", "unlist") /\ UNCHANGED <<op, node, reg, result, rcp_pc, rcp_node, rcp_reply>>
        /\ sem' = [sem EXCEPT ![node[t].semAccess] = Null]
    BY <1>13 DEF DestroySem, Destroy
  <2>2. HoldsSem(t) /\ ~HoldsSem(t)'
    BY <2>1, ThreadMoves DEF HoldsSem, HasNode
  <2>3. \A u \in Threads \ {t} : (HoldsSem(u)' <=> HoldsSem(u)) /\ node'[u] = node[u]
    BY <2>1, ThreadMoves DEF HoldsSem, HasNode
  <2>4. SemInv'
    BY <1>0, <2>1, <2>2, <2>3, SemDropped
  <2>5. \A u \in Threads : HasNode(u)' => HasNode(u)
    BY <2>1, ThreadMoves DEF HasNode
  <2> QED
    BY <1>0, <2>1, <2>4, <2>5, ValuesKept
<1>14. ASSUME NEW t \in Threads, Unlist(t) PROVE Good
  <2>1. Step(t, "unlist", "give") /\ list_sem = Null /\ UNCHANGED <<op, sem, reg, result, rcp_pc, rcp_node, rcp_reply>>
        /\ node' = [node EXCEPT ![t] = Null]
    BY <1>14 DEF Unlist, TypeFacts, Step
  <2>2. ~HoldsSem(t) /\ ~HoldsSem(t)' /\ ~HasNode(t)'
    BY <2>1, ThreadMoves DEF HoldsSem, HasNode, TypeFacts
  <2>3. \A u \in Threads \ {t} : (HoldsSem(u)' <=> HoldsSem(u)) /\ (HasNode(u)' <=> HasNode(u)) /\ node'[u] = node[u]
    BY <1>0, <2>1, ThreadMoves DEF HoldsSem, HasNode, NodeFacts
  <2>4. SemInv'
    BY <1>0, <2>1, <2>2, <2>3, SemsKept
  <2>5. rcp_pc = "idle"
    BY <2>1 DEF LockInv, TypeFacts
  <2> QED
    BY <1>0, <2>1, <2>2, <2>3, <2>4, <2>5, ValuesKept
<1>15. CASE UNCHANGED <<node, sem, pc, op, reg, result, rcpVars>>
  <2>1. \A u \in Threads : (HoldsSem(u)' <=> HoldsSem(u)) /\ (HasNode(u)' <=> HasNode(u))
    BY <1>15 DEF HoldsSem, HasNode
  <2> QED
    BY <1>0, <1>15, <2>1, SemsKept, ValuesKept
<1>16. ASSUME NEW r \in Regs, RcpFind(r) PROVE Good
  <2>1. node[rcp_node'].address = r /\ rcp_reply' = r
    BY <1>16, NodeForIsListed DEF RcpFind
  <2>2. UNCHANGED <<node, sem, pc, op, reg, result>>
    BY <1>16 DEF RcpFind
  <2>3. \A u \in Threads : (HoldsSem(u)' <=> HoldsSem(u)) /\ (HasNode(u)' <=> HasNode(u))
    BY <2>2 DEF HoldsSem, HasNode
  <2>4. SemInv'
    BY <1>0, <2>2, <2>3, SemsKept
  <2> QED
    BY <2>1, <2>2, <2>3, <2>4 DEF ValueInv, RightRegister
<1>18. CASE RcpFill
  <2>1. UNCHANGED <<sem, pc, op, reg, result, rcp_reply, rcp_node>> /\ rcp_pc = "fill" 
        /\ node' = [node EXCEPT ![rcp_node] = [node[rcp_node] EXCEPT !.value = rcp_reply, !.validFlag = 1]]
    BY <1>18 DEF RcpFill
  <2>2. node[rcp_node] \in Node /\ rcp_node \in Threads /\ rcp_reply \in Regs
    BY <1>a, <1>0, <2>1 DEF NodeFacts, TypeInv
  <2>3. node'[rcp_node].value = rcp_reply /\ node'[rcp_node].address = node[rcp_node].address
        /\ node'[rcp_node].semAccess = node[rcp_node].semAccess
    BY <1>0, <2>1, <2>2, NodeFilled DEF NodeFacts
  <2>4. \A u \in Threads \ {rcp_node} : node'[u] = node[u]
    BY <1>0, <2>1 DEF NodeFacts
  <2>5. \A u \in Threads : (HoldsSem(u)' <=> HoldsSem(u)) /\ (HasNode(u)' <=> HasNode(u))
    BY <2>1 DEF HoldsSem, HasNode
  <2>6. SemInv'
    BY <1>0, <2>1, <2>3, <2>4, <2>5, SemsKept
  <2>7. node[rcp_node].address = rcp_reply /\ node[rcp_node].address = reg[rcp_node]
    BY <1>a, <2>1 DEF ValueInv
  <2> QED
    BY <2>1, <2>2, <2>3, <2>4, <2>5, <2>6, <2>7 DEF ValueInv, RightRegister
<1>19. CASE RcpGive
  <2>1. rcp_pc' = "idle" /\ UNCHANGED <<node, pc, op, reg, result>>
    BY <1>19 DEF RcpGive
  <2>2. \A s \in Sems : sem'[s] = Null <=> sem[s] = Null
    <3>1. PICK x : sem' = IF sem[x] = Null THEN sem ELSE [sem EXCEPT ![x] = sem[x] + 1]
      BY <1>19 DEF RcpGive, Post
    <3>2. CASE x \in Sems /\ sem[x] # Null
      <4>1. sem[x] + 1 \in Nat
        <5>1. sem[x] \in Nat
          BY <1>0, <3>2 DEF NodeFacts
        <5> QED
          BY <5>1
      <4>2. sem'[x] # Null /\ \A s \in Sems \ {x} : sem'[s] = sem[s]
        BY <1>0, <3>1, <3>2, <4>1 DEF NodeFacts
      <4> QED
        BY <3>2, <4>2
    <3>3. CASE x \notin Sems \/ sem[x] = Null
      BY <1>0, <3>1, <3>3 DEF NodeFacts
    <3> QED
      BY <3>2, <3>3
  <2>3. \A u \in Threads : (HoldsSem(u)' <=> HoldsSem(u)) /\ (HasNode(u)' <=> HasNode(u))
    BY <2>1 DEF HoldsSem, HasNode
  <2>4. SemInv'
    BY <1>0, <2>1, <2>2, <2>3, SemsKept
  <2> QED
    BY <2>1, <2>3, <2>4 DEF ValueInv, RightRegister
<1>20. CASE Switch \/ RcpUndefined \/ UNCHANGED vars \/ \E r \in Regs : RcpNotFound(r)
  <2>1. UNCHANGED <<node, sem, pc, op, reg, result, rcpVars>>
    BY <1>20 DEF Switch, RcpUndefined, vars, RcpNotFound
  <2> QED
    BY <2>1, <1>15
<1> QED
  BY <1>1, <1>2, <1>3, <1>4, <1>5, <1>6, <1>7, <1>8, <1>9, <1>10, <1>11, <1>13, <1>14,
     <1>16, <1>18, <1>19, <1>20 DEF Next, Begins, Goes, RcpThread

-----------------------------------------------------------------------------
\* What RCP_Read_Reg keeps, alone on the list.
Inv ==
  /\ TypeInv /\ LockInv /\ ListInv /\ SemInv /\ ValueInv
  /\ RightRegister /\ NeverUndefined

\* RCP_Init leaves everything of its kind.
LEMMA TypeInit == Init => TypeInv
<1> SUFFICES ASSUME Init PROVE TypeInv
  OBVIOUS
<1>1. ListSize \in Nat /\ MaxOps \in Nat
  BY RcpAssumption DEF RcpAssumption
<1>2. TypeOK
  <2>1. /\ rcpRegList \in [Entries -> Threads \union {Null}] /\ node \in [Threads -> Node \union {Null}]
        /\ sem \in [Sems -> Nat \union {Null}] /\ index \in [Threads -> 0 .. ListSize]
    BY <1>1 DEF Init
  <2>2. /\ op \in [Threads -> {Null, "read16", "read32", "write"}]
        /\ reg \in [Threads -> Regs \union {Null}]
        /\ result \in [Threads -> {Null, "ok"} \union Failures \union Regs]
    BY DEF Init
  <2>3. pc \in [Threads -> {"idle", "insert", "store", "fill", "take", "send", "wait", "give", "destroy", "unlist"}]
    BY DEF Init
  <2>4. /\ list_sem \in Threads \union {Rcp, Null} /\ channel \in Nat /\ timed_out \in Nat
        /\ txbuf \in {Null} \union [kind : {"get", "set"}, reg : Regs]
        /\ net \subseteq [kind : {"get", "set", "reply"}, reg : Regs]
    BY DEF Init
  <2>5. /\ rcp_pc \in {"idle", "fill", "give"} /\ rcp_reply \in Regs \union {Null}
        /\ rcp_node \in Threads \union {Null} /\ begun \in 0 .. MaxOps
    BY <1>1 DEF Init
  <2>6. undefined \in BOOLEAN
    BY Zenon DEF Init
  <2> QED
    BY <2>1, <2>2, <2>3, <2>4, <2>5, <2>6 DEF TypeOK
<1> QED
  BY <1>2 DEF Init, TypeInv, HasNode

\* Every variable holds values of its kind, for 16-bit and 32-bit reads and
\* writes alike (RCP_Read_Reg, RCP_Read_32bit_Reg, RCP_Write_Reg).
THEOREM TypeCorrect == SafeSpec => []TypeOK
<1>1. TypeInv => TypeOK
  BY DEF TypeInv
<1> QED
  BY <1>1, TypeInit, TypeStep, PTL DEF SafeSpec

\* At RCP_Init the list is empty and every semaphore is free.
LEMMA InvInit == Init => Inv
<1> SUFFICES ASSUME Init PROVE Inv
  OBVIOUS
<1>1. /\ \A t \in Threads : pc[t] = "idle" /\ result[t] = Null
      /\ \A i \in Entries : rcpRegList[i] = Null
      /\ \A s \in Sems : sem[s] = Null
      /\ list_sem = Null /\ rcp_pc = "idle" /\ ~undefined
  BY DEF Init
<1>2. LockInv /\ ListInv /\ SemInv /\ ValueInv
  BY <1>1, RcpAssumption DEF RcpAssumption, LockInv, ListInv, SemInv, ValueInv, Listed, HasNode, HoldsSem
<1>3. RightRegister /\ NeverUndefined
  BY <1>1, NullAssumption DEF NullAssumption, RightRegister, NeverUndefined
<1> QED
  BY <1>2, <1>3, TypeInit DEF Inv

\* Without 32-bit reads every step keeps Inv: the RCP thread never finds its
\* node freed, as it is listed for as long as the thread holds the list.
LEMMA InvStep ==
  ASSUME "read32" \notin Ops, Inv, [Next]_vars
  PROVE  Inv'
<1>1. TypeInv' /\ TypeFacts
  BY TypeStep, Facts DEF Inv
<1>2. LockInv' /\ ListInv'
  BY <1>1, ListStep DEF Inv
<1>3. SemInv' /\ ValueInv' /\ RightRegister'
  BY <1>1, NodesStep DEF Inv
<1>4. ~RcpUndefined
  <2>1. rcp_pc # "idle" => rcp_node \in Threads /\ HasNode(rcp_node)
    BY <1>1, HasSome DEF Inv, LockInv, TypeFacts
  <2>2. rcp_pc # "idle" => node[rcp_node] \in Node
    BY <2>1 DEF Inv, TypeInv
  <2> QED
    BY <2>2, NodeFields DEF RcpUndefined
<1>5. undefined' = undefined
  BY <1>4 DEF Next, Begins, Goes, RcpThread, vars, BeginWrite, BeginReadFull, BeginRead, InsertFind, InsertStore,
     InsertFull, Fill, Take, Send, Answered, WaitTimesOut, Give, DestroySem, Unlist, Switch, RcpFind, RcpNotFound,
     RcpFill, RcpGive
<1> QED
  BY <1>1, <1>2, <1>3, <1>5 DEF Inv, NeverUndefined

\* The counts of NodesAndSems follow from the entries being distinct.
LEMMA InvNodesAndSems ==
  ASSUME "read32" \notin Ops, Inv
  PROVE  NodesAndSems
<1>0. TypeFacts /\ NodeFacts
  BY Facts, NodeFactsHold DEF Inv
<1>a. \A t \in Threads : (node[t] # Null <=> HasNode(t)) /\ (HasNode(t) => node[t].semAccess \in Sems)
  BY NodeFields DEF Inv, TypeInv
<1>1. ASSUME NEW t \in Threads
      PROVE  Cardinality({i \in Entries : rcpRegList[i] = t}) =
               IF op[t] # "write" /\ pc[t] \in {"fill", "take", "send", "wait", "give", "destroy", "unlist"}
                    /\ node[t] # Null
               THEN 1 ELSE 0
  <2> DEFINE At == {i \in Entries : rcpRegList[i] = t}
  <2>1. Listed(t) <=> op[t] # "write" /\ pc[t] \in {"fill", "take", "send", "wait", "give", "destroy", "unlist"}
                        /\ node[t] # Null
    BY <1>0, <1>a DEF Listed, HasNode, TypeFacts
  <2>2. CASE Listed(t)
    <3>1. PICK i \in Entries : rcpRegList[i] = t
      BY <2>2 DEF Inv, ListInv
    <3>2. i \in At /\ \A j \in At : j = i
      BY <3>1, <1>0 DEF Inv, ListInv, TypeFacts
    <3>3. Cardinality(At) = 1
      BY <3>2, OneElement
    <3> QED
      BY <2>1, <2>2, <3>3
  <2>3. CASE ~Listed(t)
    <3>1. At = {}
      BY <2>3, <1>0 DEF Inv, ListInv, TypeFacts
    <3> QED
      BY <2>1, <2>3, <3>1, FS_EmptySet
  <2> QED
    BY <2>2, <2>3
<1>2. ASSUME NEW s \in Sems
      PROVE  Cardinality({t \in Threads : node[t] # Null /\ node[t].semAccess = s /\ pc[t] # "unlist"})
               = IF sem[s] = Null THEN 0 ELSE 1
  <2> DEFINE Of == {t \in Threads : node[t] # Null /\ node[t].semAccess = s /\ pc[t] # "unlist"}
  <2>1. Of = {t \in Threads : HoldsSem(t) /\ node[t].semAccess = s}
    BY <1>a DEF HoldsSem
  <2>2. CASE sem[s] # Null
    <3>1. PICK t \in Threads : HoldsSem(t) /\ node[t].semAccess = s
      BY <2>2 DEF Inv, SemInv
    <3>2. t \in Of /\ \A u \in Of : u = t
      BY <2>1, <3>1 DEF Inv, SemInv
    <3>3. Cardinality(Of) = 1
      BY <3>2, OneElement
    <3> QED
      BY <2>2, <3>3
  <2>3. CASE sem[s] = Null
    <3>1. Of = {}
      BY <2>1, <2>3 DEF Inv, SemInv
    <3> QED
      BY <2>3, <3>1, FS_EmptySet
  <2> QED
    BY <2>2, <2>3
<1> QED
  BY <1>1, <1>2 DEF NodesAndSems, ListedOnce, SemsOwned

\* The invariant holds always where nobody does RCP_Read_32bit_Reg.
LEMMA InvHolds ==
  ASSUME "read32" \notin Ops
  PROVE  SafeSpec => []Inv
<1>1. Inv /\ [Next]_vars => Inv'
  BY InvStep
<1> QED
  BY <1>1, InvInit, PTL DEF SafeSpec

\* Whichever threads read and however late or misdirected a reply comes, a read
\* that succeeds returns the value of its own register (RCP_RegList_Update fills
\* the listed nodes of the reply's address, RCP_Read_Reg).
THEOREM RightRegisterCorrect ==
  ASSUME "read32" \notin Ops
  PROVE  SafeSpec => []RightRegister
<1>1. Inv => RightRegister
  BY DEF Inv
<1> QED
  BY <1>1, InvHolds, PTL

\* On every way out of a read its node is taken from the list and its semaphore
\* destroyed, and neither is lost or shared before (RCP_RegList_Insert,
\* RCP_RegList_Delete, RCP_Read_Reg).
THEOREM NodesAndSemsCorrect ==
  ASSUME "read32" \notin Ops
  PROVE  SafeSpec => []NodesAndSems
<1>1. Inv => NodesAndSems
  BY InvNodesAndSems
<1> QED
  BY <1>1, InvHolds, PTL

\* No node is freed under the RCP thread, which holds the list from its search to
\* its post (RCP_RegList_Update, RCP_RegList_Delete).
THEOREM NeverUndefinedCorrect ==
  ASSUME "read32" \notin Ops
  PROVE  SafeSpec => []NeverUndefined
<1>1. Inv => NeverUndefined
  BY DEF Inv
<1> QED
  BY <1>1, InvHolds, PTL
=============================================================================
