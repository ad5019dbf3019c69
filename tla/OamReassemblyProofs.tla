------------------------ MODULE OamReassemblyProofs ------------------------
(***************************************************************************)
(* Theorems about OamReassembly: the list, the timers and the owners of a  *)
(* message agree, whatever the number of nodes, timers, serial numbers and *)
(* queue entries, and however the three threads interleave.                *)
(*                                                                         *)
(* They hold of messages of any length until the packet thread stops a     *)
(* timer by a handle that is not that of the timer of its message: the one *)
(* started before a third fragment is not kept in TimerID                  *)
(* (CommOnuMsgReveive).  HandlesKept says that this needs a third          *)
(* fragment, and never happens when calm.                                  *)
(*                                                                         *)
(* The inductive invariant is TypeInv with the four parts of Rest.  There  *)
(* is one lemma for each action; each first says what the action does to   *)
(* every node and timer, then takes the parts in turn.                     *)
(***************************************************************************)
EXTENDS OamReassembly, FiniteSetTheorems, TLAPS

\* Sequences without repetition: lists of nodes, queues of messages.
Elements(s) == {s[i] : i \in DOMAIN s}
Distinct(s) == \A i, j \in DOMAIN s : s[i] = s[j] => i = j

\* A sequence without its i-th element.
Drop(s, i) == [j \in 1 .. Len(s) - 1 |-> IF j < i THEN s[j] ELSE s[j + 1]]

\* A new element at the head.
LEMMA PrependDistinct ==
  ASSUME NEW S, NEW s \in Seq(S), Distinct(s), NEW x \in S, x \notin Elements(s)
  PROVE  /\ <<x>> \o s \in Seq(S) /\ Len(<<x>> \o s) = Len(s) + 1
         /\ Distinct(<<x>> \o s) /\ Elements(<<x>> \o s) = Elements(s) \union {x}
<1> DEFINE l == <<x>> \o s
<1>1. l \in Seq(S) /\ Len(l) = Len(s) + 1 /\ Len(s) \in Nat
  OBVIOUS
<1>2. \A i \in 1 .. Len(l) : l[i] = IF i = 1 THEN x ELSE s[i - 1]
  OBVIOUS
<1>3. DOMAIN l = 1 .. Len(l) /\ DOMAIN s = 1 .. Len(s)
  OBVIOUS
<1> HIDE DEF l
<1>4. Elements(l) = Elements(s) \union {x}
  <2>1. ASSUME NEW y \in Elements(s) PROVE y \in Elements(l)
    <3>1. PICK i \in 1 .. Len(s) : y = s[i]
      BY <1>3 DEF Elements
    <3>2. i + 1 \in 1 .. Len(l) /\ l[i + 1] = y
      BY <1>1, <1>2, <3>1
    <3> QED
      BY <1>3, <3>2 DEF Elements
  <2>2. x \in Elements(l)
    <3>1. 1 \in 1 .. Len(l) /\ l[1] = x
      BY <1>1, <1>2
    <3> QED
      BY <1>3, <3>1 DEF Elements
  <2>3. ASSUME NEW y \in Elements(l) PROVE y = x \/ y \in Elements(s)
    <3>1. PICK i \in 1 .. Len(l) : y = l[i]
      BY <1>3 DEF Elements
    <3>2. CASE i # 1
      <4>1. i - 1 \in 1 .. Len(s) /\ y = s[i - 1]
        BY <1>1, <1>2, <3>1, <3>2
      <4> QED
        BY <1>3, <4>1 DEF Elements
    <3> QED
      BY <1>2, <3>1, <3>2
  <2> QED
    BY <2>1, <2>2, <2>3
<1>5. Distinct(l)
  <2>1. \A i \in 1 .. Len(s) : s[i] # x
    BY <1>3 DEF Elements
  <2>2. \A i, j \in 1 .. Len(s) : s[i] = s[j] => i = j
    BY <1>3 DEF Distinct
  <2>3. \A i \in 1 .. Len(l) : i # 1 => i - 1 \in 1 .. Len(s) /\ l[i] = s[i - 1]
    BY <1>1, <1>2
  <2>4. ASSUME NEW i \in 1 .. Len(l), NEW j \in 1 .. Len(l), l[i] = l[j] PROVE i = j
    <3>1. CASE i = 1 \/ j = 1
      BY <1>2, <2>1, <2>3, <2>4, <3>1
    <3>2. CASE i # 1 /\ j # 1
      <4>1. i - 1 = j - 1
        BY <2>2, <2>3, <2>4, <3>2
      <4> QED
        BY <1>1, <4>1
    <3> QED
      BY <3>1, <3>2
  <2> QED
    BY <1>3, <2>4 DEF Distinct
<1> QED
  BY <1>1, <1>4, <1>5 DEF l

\* A new element at the tail.
LEMMA AppendDistinct ==
  ASSUME NEW S, NEW s \in Seq(S), Distinct(s), NEW x \in S, x \notin Elements(s)
  PROVE  /\ Append(s, x) \in Seq(S) /\ Len(Append(s, x)) = Len(s) + 1
         /\ Distinct(Append(s, x)) /\ Elements(Append(s, x)) = Elements(s) \union {x}
<1> DEFINE l == Append(s, x)
<1>1. l \in Seq(S) /\ Len(l) = Len(s) + 1 /\ Len(s) \in Nat
  OBVIOUS
<1>2. \A i \in 1 .. Len(l) : l[i] = IF i = Len(s) + 1 THEN x ELSE s[i]
  OBVIOUS
<1>3. DOMAIN l = 1 .. Len(l) /\ DOMAIN s = 1 .. Len(s)
  OBVIOUS
<1> HIDE DEF l
<1>4. Elements(l) = Elements(s) \union {x}
  <2>1. ASSUME NEW y \in Elements(s) PROVE y \in Elements(l)
    BY <1>1, <1>2, <1>3 DEF Elements
  <2>2. x \in Elements(l)
    <3>1. Len(l) \in 1 .. Len(l) /\ l[Len(l)] = x
      BY <1>1, <1>2
    <3> QED
      BY <1>3, <3>1 DEF Elements
  <2>3. ASSUME NEW y \in Elements(l) PROVE y = x \/ y \in Elements(s)
    <3>1. PICK i \in 1 .. Len(l) : y = l[i]
      BY <1>3 DEF Elements
    <3>2. CASE i # Len(s) + 1
      <4>1. i \in 1 .. Len(s) /\ y = s[i]
        BY <1>1, <1>2, <3>1, <3>2
      <4> QED
        BY <1>3, <4>1 DEF Elements
    <3> QED
      BY <1>2, <3>1, <3>2
  <2> QED
    BY <2>1, <2>2, <2>3
<1>5. Distinct(l)
  <2>1. \A i \in 1 .. Len(s) : s[i] # x
    BY <1>3 DEF Elements
  <2>2. \A i, j \in 1 .. Len(s) : s[i] = s[j] => i = j
    BY <1>3 DEF Distinct
  <2>3. \A i \in 1 .. Len(l) : i # Len(s) + 1 => i \in 1 .. Len(s) /\ l[i] = s[i]
    BY <1>1, <1>2
  <2>4. ASSUME NEW i \in 1 .. Len(l), NEW j \in 1 .. Len(l), l[i] = l[j] PROVE i = j
    BY <1>2, <2>1, <2>2, <2>3, <2>4
  <2> QED
    BY <1>3, <2>4 DEF Distinct
<1> QED
  BY <1>1, <1>4, <1>5 DEF l

\* The i-th element leaves.
LEMMA DropDistinct ==
  ASSUME NEW S, NEW s \in Seq(S), Distinct(s), NEW i \in DOMAIN s
  PROVE  /\ Drop(s, i) \in Seq(S) /\ Len(Drop(s, i)) = Len(s) - 1
         /\ Distinct(Drop(s, i)) /\ Elements(Drop(s, i)) = Elements(s) \ {s[i]}
<1>1. DOMAIN s = 1 .. Len(s) /\ Len(s) \in Nat /\ i \in 1 .. Len(s) /\ \A j \in 1 .. Len(s) : s[j] \in S
  OBVIOUS
<1> DEFINE l == Drop(s, i)
<1>2. \A j \in 1 .. Len(s) - 1 : l[j] = (IF j < i THEN s[j] ELSE s[j + 1]) /\ l[j] \in S
  BY <1>1 DEF Drop
<1>3. l \in Seq(S) /\ Len(l) = Len(s) - 1 /\ DOMAIN l = 1 .. Len(s) - 1
  <2>1. Len(s) - 1 \in Nat
    BY <1>1
  <2>2. l \in [1 .. Len(s) - 1 -> S]
    BY <1>2 DEF Drop
  <2> QED
    BY <2>1, <2>2
<1> HIDE DEF l
<1>4. Elements(l) = Elements(s) \ {s[i]}
  <2>1. ASSUME NEW y \in Elements(s), y # s[i] PROVE y \in Elements(l)
    <3>1. PICK k \in 1 .. Len(s) : y = s[k] /\ k # i
      BY <1>1, <2>1 DEF Elements
    <3>2. CASE k < i
      <4>1. k \in 1 .. Len(s) - 1 /\ l[k] = y
        BY <1>1, <1>2, <3>1, <3>2
      <4> QED
        BY <1>3, <4>1 DEF Elements
    <3>3. CASE k > i
      <4>1. k - 1 \in 1 .. Len(s) - 1 /\ ~(k - 1 < i) /\ (k - 1) + 1 = k
        BY <1>1, <3>3
      <4>2. l[k - 1] = y
        BY <1>2, <3>1, <4>1
      <4> QED
        BY <1>3, <4>1, <4>2 DEF Elements
    <3> QED
      BY <1>1, <3>1, <3>2, <3>3
  <2>2. ASSUME NEW y \in Elements(l) PROVE y \in Elements(s) /\ y # s[i]
    <3>1. PICK k \in 1 .. Len(s) - 1 : y = l[k]
      BY <1>3 DEF Elements
    <3>2. PICK m \in 1 .. Len(s) : y = s[m] /\ m # i
      BY <1>1, <1>2, <3>1
    <3> QED
      BY <1>1, <3>2 DEF Elements, Distinct
  <2> QED
    BY <2>1, <2>2
<1>5. Distinct(l)
  <2>1. \A j, k \in 1 .. Len(s) : s[j] = s[k] => j = k
    BY <1>1 DEF Distinct
  <2>2. ASSUME NEW j \in 1 .. Len(s) - 1, NEW k \in 1 .. Len(s) - 1, l[j] = l[k] PROVE j = k
    <3> DEFINE a == IF j < i THEN j ELSE j + 1
               b == IF k < i THEN k ELSE k + 1
    <3>1. a \in 1 .. Len(s) /\ b \in 1 .. Len(s) /\ l[j] = s[a] /\ l[k] = s[b]
      BY <1>1, <1>2
    <3>2. a = b
      BY <2>1, <2>2, <3>1
    <3> QED
      BY <1>1, <3>2
  <2> QED
    BY <1>3, <2>2 DEF Distinct
<1> QED
  BY <1>3, <1>4, <1>5 DEF l

\* The head leaves.
LEMMA TailDistinct ==
  ASSUME NEW S, NEW s \in Seq(S), Distinct(s), s # <<>>
  PROVE  /\ Head(s) \in Elements(s) /\ Tail(s) \in Seq(S) /\ Len(Tail(s)) = Len(s) - 1
         /\ Distinct(Tail(s)) /\ Elements(Tail(s)) = Elements(s) \ {Head(s)}
<1>1. 1 \in DOMAIN s /\ Head(s) = s[1]
  OBVIOUS
<1>2. Tail(s) = Drop(s, 1)
  <2>1. Tail(s) = [j \in 1 .. Len(s) - 1 |-> s[j + 1]]
    <3>1. Tail(s) \in Seq(S) /\ Len(Tail(s)) = Len(s) - 1
      OBVIOUS
    <3>2. \A j \in 1 .. Len(s) - 1 : Tail(s)[j] = s[j + 1]
      OBVIOUS
    <3>3. Tail(s) = [j \in 1 .. Len(Tail(s)) |-> Tail(s)[j]]
      <4> HIDE <3>2
      <4>1. \A q \in Seq(S) : q = [j \in 1 .. Len(q) |-> q[j]]
        OBVIOUS
      <4> QED
        BY <3>1, <4>1, Zenon
    <3> QED
      BY <3>1, <3>2, <3>3, Zenon
  <2>2. Drop(s, 1) = [j \in 1 .. Len(s) - 1 |-> s[j + 1]]
    BY DEF Drop
  <2> QED
    BY <2>1, <2>2
<1>3. /\ Drop(s, 1) \in Seq(S) /\ Len(Drop(s, 1)) = Len(s) - 1
      /\ Distinct(Drop(s, 1)) /\ Elements(Drop(s, 1)) = Elements(s) \ {s[1]}
  BY <1>1, DropDistinct
<1>4. s[1] \in Elements(s)
  BY <1>1 DEF Elements
<1> QED
  BY <1>1, <1>2, <1>3, <1>4, Zenon

\* A set that an injective f maps the elements onto has one element per place.
LEMMA DistinctLength ==
  ASSUME NEW S, NEW s \in Seq(S), Distinct(s), NEW R, NEW f \in [Elements(s) -> R],
         \A x, y \in Elements(s) : f[x] = f[y] => x = y,
         \A y \in R : \E x \in Elements(s) : f[x] = y
  PROVE  Cardinality(R) = Len(s)
<1> DEFINE g == [i \in 1 .. Len(s) |-> f[s[i]]]
<1>1. DOMAIN s = 1 .. Len(s) /\ Len(s) \in Nat
  OBVIOUS
<1>2. g \in Bijection(1 .. Len(s), R)
  <2>1. \A i \in 1 .. Len(s) : s[i] \in Elements(s) /\ g[i] = f[s[i]]
    BY <1>1 DEF Elements
  <2>2. g \in [1 .. Len(s) -> R]
    BY <2>1
  <2>3. \A i, j \in 1 .. Len(s) : g[i] = g[j] => i = j
    BY <1>1, <2>1 DEF Distinct
  <2>4. ASSUME NEW y \in R PROVE \E i \in 1 .. Len(s) : g[i] = y
    <3>1. PICK x \in Elements(s) : y = f[x]
      BY <2>4
    <3>2. PICK i \in 1 .. Len(s) : x = s[i]
      BY <1>1, <3>1 DEF Elements
    <3> QED
      BY <2>1, <3>1, <3>2
  <2> HIDE DEF g
  <2> QED
    BY <2>2, <2>3, <2>4 DEF Bijection, Injection, Surjection, IsInjective
<1>3. ExistsBijection(1 .. Len(s), R)
  BY <1>2 DEF ExistsBijection
<1> QED
  BY <1>1, <1>3, FS_CountingElements
-----------------------------------------------------------------------------

\* The types; a thread that is not idle has the node or the timer it is at.
TypeInv ==
  /\ calm \in BOOLEAN /\ astray \in BOOLEAN
  /\ list \in Seq(Nodes) /\ alloc \subseteq Nodes
  /\ SendSerNo \in [Nodes -> SerNos \union {Null}]
  /\ RevPktLen \in [Nodes -> Nat] /\ WholePktLen \in [Nodes -> Nat]
  /\ TimerID \in [Nodes -> Timers \union {Null}]
  /\ timer \in [Timers -> T!States]
  /\ data \in [Timers -> Nodes \union {Null}]
  /\ untimed \subseteq Nodes
  /\ rx_pc \in {"idle", "arm", "check", "delete", "append", "dispatch", "rem", "free"}
  /\ rx_node \in Nodes \union {Null} /\ rx_pkt \in [offset : Nat, len : Nat]
  /\ to_pc \in {"idle", "find", "rem", "free", "done"}
  /\ to_timer \in Timers \union {Null} /\ to_ser \in SerNos \union {Null} /\ to_node \in Nodes \union {Null}
  /\ async_queue \in Seq(Nodes)
  /\ as_pc \in {"idle", "rem", "free"} /\ as_node \in Nodes \union {Null}
  /\ lost \subseteq Nodes
  /\ rx_pc # "idle" => rx_node \in Nodes
  /\ to_pc # "idle" => to_timer \in Timers
  /\ as_pc # "idle" => as_node \in Nodes

\* Who frees n, once it is out of the list.
Freeing(n) ==
  \/ rx_pc = "free" /\ rx_node = n
  \/ to_pc = "free" /\ to_node = n
  \/ as_pc = "free" /\ as_node = n

\* The list holds what is allocated and not about to be freed, each node and
\* each serial number once.
ListInv ==
  /\ Distinct(list)
  /\ Listed \subseteq alloc
  /\ \A n, m \in Listed : SendSerNo[n] = SendSerNo[m] => n = m
  /\ \A n \in alloc : n \notin Listed => Freeing(n)

\* A message has a fragment and no more than it may have; what is to be copied fits.
LengthInv ==
  /\ \A n \in alloc : 1 =< RevPktLen[n] /\ RevPktLen[n] =< WholePktLen[n] /\ WholePktLen[n] =< MaxLen
  /\ rx_pc \in {"check", "delete", "append"} => 1 =< rx_pkt.len
  /\ rx_pc \in {"delete", "append"} /\ rx_node \in alloc =>
       RevPktLen[rx_node] + rx_pkt.len =< WholePktLen[rx_node]

Queued == Elements(async_queue)
RxServes(n) == rx_pc \in {"dispatch", "rem", "free"} /\ rx_node = n
AsServes(n) == as_pc \in {"rem", "free"} /\ as_node = n

\* A complete message is with one of: the packet thread, the queue, the OAM
\* thread, or those the full queue refused.
ServedInv ==
  /\ Distinct(async_queue)
  /\ Queued \union lost \subseteq {n \in Listed : Complete(n)}
  /\ Queued \intersect lost = {}
  /\ \A n \in Nodes : RxServes(n) =>
       n \in alloc /\ Complete(n) /\ n \notin Queued \union lost /\ (n \in Listed <=> rx_pc # "free") /\ ~AsServes(n)
  /\ \A n \in Nodes : AsServes(n) =>
       n \in alloc /\ Complete(n) /\ n \notin Queued \union lost /\ (n \in Listed <=> as_pc # "free")
  /\ \A n \in Listed : Complete(n) => n \in Queued \union lost \/ RxServes(n) \/ AsServes(n)

\* A timer that will end its message, or is doing so.
Ends(t) == timer[t] \in {"armed", "due"} \/ (to_timer = t /\ to_pc \in {"find", "rem", "free"})

\* Timers and incomplete messages belong to each other, but for a message
\* that waits for its timer or for which there was none.
TimerInv ==
  /\ to_pc # "idle" => timer[to_timer] = "called"
  /\ \A t \in Timers : Ends(t) =>
       /\ data[t] \in alloc /\ ~Complete(data[t]) /\ data[t] \notin untimed
       /\ data[t] \in Listed <=> ~(to_timer = t /\ to_pc = "free")
       /\ rx_pc \in {"arm", "append"} => data[t] # rx_node
  /\ \A t, u \in Timers : Ends(t) /\ Ends(u) /\ data[t] = data[u] => t = u
  /\ to_pc = "find" => to_ser = SendSerNo[data[to_timer]]
  /\ to_pc \in {"rem", "free"} => to_node = data[to_timer]
  /\ rx_pc \in {"arm", "append"} => rx_node \in Listed /\ ~Complete(rx_node)
  /\ \A n \in alloc : ~Complete(n) =>
       \/ rx_pc \in {"arm", "append"} /\ rx_node = n
       \/ n \in untimed
       \/ \E t \in Timers : Ends(t) /\ data[t] = n

\* The parts of the invariant beside the types.
Rest == ListInv /\ LengthInv /\ ServedInv /\ TimerInv

\* Where TimerID always names the timer of its message: a message has a second
\* timer, whose handle is not kept, only if it has more than two fragments, and
\* when calm that timer has the address of the first.
Fits == calm \/ MaxLen =< 2

HandleInv ==
  /\ ~astray
  /\ \A t \in Timers : Ends(t) => TimerID[data[t]] = t
  /\ \A n \in untimed : TimerID[n] = Null

-----------------------------------------------------------------------------
USE DEF nodeVars, fields, timerVars, rxVars, toVars, asVars

\* The list as a sequence without duplicates.
LEMMA ListedIsElements == Listed = Elements(list)
BY DEF Listed, Elements

\* A node that is listed leaves the list (GwOamMessageListNodeRem).
LEMMA RemDrops ==
  ASSUME TypeInv, Distinct(list), NEW n \in Listed, Rem(n)
  PROVE  list' \in Seq(Nodes) /\ Distinct(list') /\ Listed' = Listed \ {n}
<1>1. PICK i \in DOMAIN list : list[i] = n /\ list' = Drop(list, i)
  BY DEF Rem, Listed, Drop
<1>2. list \in Seq(Nodes)
  BY DEF TypeInv
<1>3. /\ Drop(list, i) \in Seq(Nodes) /\ Distinct(Drop(list, i))
      /\ Elements(Drop(list, i)) = Elements(list) \ {list[i]}
  BY <1>1, <1>2, DropDistinct
<1> QED
  BY <1>1, <1>3 DEF Listed, Elements

\* What is listed or queued is a node.
LEMMA NodesAre ==
  ASSUME TypeInv
  PROVE  Listed \subseteq Nodes /\ Queued \subseteq Nodes
<1>1. list \in Seq(Nodes) /\ async_queue \in Seq(Nodes)
  BY DEF TypeInv
<1> QED
  BY <1>1 DEF Listed, Queued, Elements

\* What freeing n leaves alone.
FreedOf(n) ==
  /\ n \in alloc /\ alloc' = alloc \ {n} /\ UNCHANGED <<list, timer, data>>
  /\ \A m \in Nodes \ {n} : /\ SendSerNo'[m] = SendSerNo[m] /\ RevPktLen'[m] = RevPktLen[m]
                            /\ WholePktLen'[m] = WholePktLen[m] /\ TimerID'[m] = TimerID[m]
                            /\ m \in untimed' <=> m \in untimed

\* Free (GwOamMessageListNodeFree) disturbs the fields of one node.
LEMMA FreeDoes ==
  ASSUME TypeInv, NEW n \in Nodes, Free(n)
  PROVE  /\ FreedOf(n)
         /\ SendSerNo' \in [Nodes -> SerNos \union {Null}]
         /\ RevPktLen' \in [Nodes -> Nat] /\ WholePktLen' \in [Nodes -> Nat]
         /\ TimerID' \in [Nodes -> Timers \union {Null}]
         /\ untimed' \subseteq Nodes /\ astray' = astray
BY DEF Free, FreedOf, TypeInv

\* The types hold once the module is initialised.
LEMMA TypeInit == Init => TypeInv
<1> SUFFICES ASSUME Init PROVE TypeInv
  OBVIOUS
<1>1. <<>> \in Seq(Nodes)
  OBVIOUS
<1>2. NoPkt \in [offset : Nat, len : Nat]
  BY DEF NoPkt
<1> QED
  BY <1>1, <1>2 DEF Init, TypeInv, T!States

\* A length is a number.
LEMMA MaxLenNat == MaxLen \in Nat
BY OamAssumption DEF OamAssumption

\* Every handler keeps the types; a node taken out of the list is one of the list.
LEMMA TypeStep ==
  ASSUME TypeInv, ListInv, ServedInv, TimerInv, [Next]_vars
  PROVE  TypeInv'
<1> USE DEF TypeInv
<1>0. ASSUME Undefined, calm' = calm PROVE TypeInv'
  BY <1>0 DEF Undefined
<1>a. ASSUME NEW ser \in SerNos, NEW len \in 1 .. MaxLen, NEW whole \in 1 .. MaxLen, NEW n \in Nodes, calm' = calm,
             ReceiveFirst(ser, len, whole, n)
      PROVE  TypeInv'
  <2>1. len \in Nat /\ whole \in Nat
    BY MaxLenNat
  <2>2. list' \in Seq(Nodes)
    BY <1>a DEF ReceiveFirst
  <2>3. /\ SendSerNo' \in [Nodes -> SerNos \union {Null}]
        /\ RevPktLen' \in [Nodes -> Nat] /\ WholePktLen' \in [Nodes -> Nat]
    BY <1>a, <2>1 DEF ReceiveFirst
  <2> QED
    BY <1>a, <2>2, <2>3 DEF ReceiveFirst
<1>b. ASSUME NEW ser \in SerNos, NEW len \in 1 .. MaxLen, NEW offset \in 1 .. MaxLen - 1, calm' = calm,
             ReceiveNext(ser, offset, len)
      PROVE  TypeInv'
  <2>1. len \in Nat /\ offset \in Nat
    BY MaxLenNat
  <2>2. rx_node' \in Nodes
    BY <1>b, NodesAre DEF ReceiveNext, GetNode
  <2> QED
    BY <1>b, <2>1, <2>2 DEF ReceiveNext
<1>c. ASSUME NEW t \in Timers \union {Null}, NEW n \in Nodes, AddTimer(t, n)
      PROVE  /\ timer' \in [Timers -> T!States] /\ data' \in [Timers -> Nodes \union {Null}]
             /\ untimed' \subseteq Nodes /\ astray' = astray
  BY <1>c DEF AddTimer, T!Add, T!Move, T!States
<1>d. ASSUME NEW t \in Timers \union {Null}, calm' = calm, Arm(t) PROVE TypeInv'
  <2>1. CASE rx_node \in alloc
    <3>1. rx_node \in Nodes /\ AddTimer(t, rx_node)
      BY <1>d, <2>1 DEF Arm
    <3>2. TimerID' \in [Nodes -> Timers \union {Null}]
      BY <1>d, <2>1 DEF Arm
    <3> QED
      BY <1>c, <1>d, <2>1, <3>1, <3>2 DEF Arm
  <2> QED
    BY <1>0, <1>d, <2>1 DEF Arm
<1>e. ASSUME calm' = calm, Check PROVE TypeInv'
  <2>1. CASE rx_node \in alloc
    BY <1>e, <2>1 DEF Check, NoPkt
  <2> QED
    BY <1>0, <1>e, <2>1 DEF Check
<1>f. ASSUME calm' = calm, DeleteTimer PROVE TypeInv'
  <2>1. /\ timer' \in [Timers -> T!States] /\ data' \in [Timers -> Nodes \union {Null}]
        /\ untimed' = untimed /\ astray' \in BOOLEAN
    BY <1>f DEF DeleteTimer, ForgetTimer, T!Delete, T!Move, T!States
  <2> QED
    BY <1>f, <2>1 DEF DeleteTimer
<1>g. ASSUME calm' = calm, DeleteInactive \/ AppendFreed PROVE TypeInv'
  BY <1>0, <1>g DEF DeleteInactive, AppendFreed
<1>h. ASSUME calm' = calm, AppendLast PROVE TypeInv'
  BY <1>h DEF AppendLast, NoPkt
<1>i. ASSUME NEW t \in Timers \union {Null}, calm' = calm, AppendMore(t) PROVE TypeInv'
  <2>1. RevPktLen' \in [Nodes -> Nat]
    BY <1>i DEF AppendMore
  <2>2. rx_node \in Nodes /\ AddTimer(t, rx_node)
    BY <1>i DEF AppendMore
  <2>3. /\ timer' \in [Timers -> T!States] /\ data' \in [Timers -> Nodes \union {Null}]
        /\ untimed' \subseteq Nodes /\ astray' = astray
    BY <1>c, <2>2
  <2> QED
    BY <1>i, <2>1, <2>3 DEF AppendMore, NoPkt
<1>j. ASSUME calm' = calm, Dispatch PROVE TypeInv'
  <2>1. CASE rx_node \in alloc
    <3>1. async_queue' \in Seq(Nodes) /\ lost' \subseteq Nodes
      <4>1. async_queue' \in {async_queue, Append(async_queue, rx_node)} /\ lost' \in {lost, lost \union {rx_node}}
        BY <1>j, <2>1 DEF Dispatch
      <4>2. rx_node \in Nodes /\ Append(async_queue, rx_node) \in Seq(Nodes)
        BY <2>1
      <4> QED
        BY <4>1, <4>2
    <3> QED
      BY <1>j, <2>1, <3>1 DEF Dispatch
  <2> QED
    BY <1>0, <1>j, <2>1 DEF Dispatch
<1>k. ASSUME calm' = calm, RxRem PROVE TypeInv'
  <2>1. rx_node \in Listed /\ rx_node \in alloc
    BY <1>k DEF RxRem, ServedInv, RxServes
  <2>2. list' \in Seq(Nodes)
    BY <1>k, <2>1, RemDrops DEF RxRem, ListInv
  <2> QED
    BY <1>k, <2>1, <2>2 DEF RxRem
<1>l. ASSUME calm' = calm, RxFree PROVE TypeInv'
  <2>1. CASE rx_node \in alloc
    BY <1>l, <2>1, FreeDoes DEF FreedOf, RxFree
  <2> QED
    BY <1>0, <1>l, <2>1 DEF RxFree
<1>m. ASSUME NEW due \in SUBSET Timers, calm' = calm, Expire(due) PROVE TypeInv'
  BY <1>m DEF Expire, T!Expire, T!States
<1>n. ASSUME NEW t \in Timers, calm' = calm, TimeOut(t) PROVE TypeInv'
  <2>1. CASE timer[t] = "due" /\ data[t] \notin alloc
    BY <1>0, <1>n, <2>1 DEF TimeOut
  <2>2. CASE ~(timer[t] = "due" /\ data[t] \notin alloc)
    <3>1. timer[t] = "due" /\ timer' = [timer EXCEPT ![t] = "called"]
      BY <1>n, <2>2 DEF TimeOut, T!Call, T!Move
    <3>2. SendSerNo[data[t]] \in SerNos \union {Null}
      BY <2>2, <3>1
    <3>3. timer' \in [Timers -> T!States]
      BY <3>1 DEF T!States
    <3> QED
      BY <1>n, <2>2, <3>2, <3>3 DEF TimeOut
  <2> QED
    BY <2>1, <2>2
<1>o. ASSUME calm' = calm, ToFind PROVE TypeInv'
  BY <1>o, NodesAre DEF ToFind, GetNode
<1>p. ASSUME calm' = calm, ToRem PROVE TypeInv'
  <2>1. to_node \in Listed
    BY <1>p DEF ToRem, TimerInv, Ends
  <2>2. list' \in Seq(Nodes)
    BY <1>p, <2>1, RemDrops DEF ToRem, ListInv
  <2> QED
    BY <1>p, <2>2 DEF ToRem
<1>q. ASSUME calm' = calm, ToFree PROVE TypeInv'
  <2>1. CASE to_node \in alloc
    BY <1>q, <2>1, FreeDoes DEF FreedOf, ToFree
  <2> QED
    BY <1>0, <1>q, <2>1 DEF ToFree
<1>r. ASSUME calm' = calm, ToDone PROVE TypeInv'
  BY <1>r DEF ToDone, T!Retire, T!Move, T!States, ForgetTimer
<1>s. ASSUME calm' = calm, AsTake PROVE TypeInv'
  <2>1. async_queue \in Seq(Nodes) /\ async_queue # <<>>
    BY <1>s DEF AsTake
  <2>2. Head(async_queue) \in Nodes /\ Tail(async_queue) \in Seq(Nodes)
    BY <2>1
  <2> QED
    BY <1>s, <2>2 DEF AsTake
<1>t. ASSUME calm' = calm, AsRem PROVE TypeInv'
  <2>1. as_node \in Listed /\ as_node \in alloc
    BY <1>t DEF AsRem, ServedInv, AsServes
  <2>2. list' \in Seq(Nodes)
    BY <1>t, <2>1, RemDrops DEF AsRem, ListInv
  <2> QED
    BY <1>t, <2>1, <2>2 DEF AsRem
<1>u. ASSUME calm' = calm, AsFree PROVE TypeInv'
  <2>1. CASE as_node \in alloc
    BY <1>u, <2>1, FreeDoes DEF FreedOf, AsFree
  <2> QED
    BY <1>0, <1>u, <2>1 DEF AsFree
<1>v. CASE UNCHANGED vars
  BY <1>v DEF vars
<1> QED
  BY <1>a, <1>b, <1>d, <1>e, <1>f, <1>g, <1>h, <1>i, <1>j, <1>k, <1>l, <1>m, <1>n, <1>o, <1>p, <1>q, <1>r, <1>s, <1>t, <1>u, <1>v
  DEF Next, Going, Receive, PacketThread, TimerThread, OamThread

-----------------------------------------------------------------------------
\* ListInv holds on while the list stays and whoever frees a node goes on to.
LEMMA ListKept ==
  ASSUME ListInv, UNCHANGED <<list, alloc, SendSerNo>>, \A n \in alloc : Freeing(n) => Freeing(n)'
  PROVE  ListInv'
BY DEF ListInv, Listed

\* LengthInv holds on while no length changes.
LEMMA LengthKept ==
  ASSUME LengthInv, alloc' \subseteq alloc, \A n \in alloc' : UNCHANGED <<RevPktLen[n], WholePktLen[n]>>, calm' = calm,
         UNCHANGED rxVars \/ rx_pc' \notin {"check", "delete", "append"}
  PROVE  LengthInv'
BY DEF LengthInv

\* ServedInv holds on while the servers stay where they are.
LEMMA ServedKept ==
  ASSUME ServedInv, UNCHANGED <<list, alloc, RevPktLen, WholePktLen, async_queue, lost>>,
         UNCHANGED <<rx_pc, rx_node>> \/ (rx_pc \notin {"dispatch", "rem", "free"} /\ rx_pc' \notin {"dispatch", "rem", "free"}),
         UNCHANGED <<as_pc, as_node>>
  PROVE  ServedInv'
BY DEF ServedInv, Queued, RxServes, AsServes, Complete, Listed

\* TimerInv holds on while the timers stay and nobody waits for one.
LEMMA TimerKept ==
  ASSUME TimerInv, TypeInv,
         UNCHANGED <<list, alloc, SendSerNo, RevPktLen, WholePktLen, TimerID, timerVars, toVars>>,
         UNCHANGED <<rx_pc, rx_node>> \/ (rx_pc \notin {"arm", "append"} /\ rx_pc' \notin {"arm", "append"})
  PROVE  TimerInv'
BY DEF TimerInv, Ends, Complete, Listed

\* CommOnuMsgReveive, up to the first unlock: a first fragment lists a new node, a
\* later one finds its node.
LEMMA ReceiveStep ==
  ASSUME TypeInv, Rest, Receive, Going
  PROVE  Rest'
<1> USE DEF Rest, Going
<1>a. ASSUME NEW ser \in SerNos, NEW len \in 1 .. MaxLen, NEW whole \in 1 .. MaxLen, NEW n \in Nodes, calm' = calm,
             ReceiveFirst(ser, len, whole, n)
      PROVE  Rest'
  <2>1. /\ rx_pc = "idle" /\ len =< whole /\ n \notin alloc /\ \A m \in Listed : SendSerNo[m] # ser
        /\ alloc' = alloc \union {n} /\ list' = <<n>> \o list
        /\ rx_node' = n /\ rx_pc' = (IF len = whole THEN "dispatch" ELSE "arm")
        /\ UNCHANGED <<TimerID, timerVars, rx_pkt, toVars, asVars, undefined>>
    BY <1>a DEF ReceiveFirst, MayReceive, GetNode
  <2>2. /\ \A m \in Nodes \ {n} : /\ SendSerNo'[m] = SendSerNo[m] /\ RevPktLen'[m] = RevPktLen[m] /\ WholePktLen'[m] = WholePktLen[m]
        /\ SendSerNo'[n] = ser /\ RevPktLen'[n] = len /\ WholePktLen'[n] = whole
    BY <1>a DEF ReceiveFirst, TypeInv
  <2>3. n \notin Listed /\ Listed \subseteq Nodes /\ Queued \subseteq Nodes
    BY <2>1, NodesAre DEF ListInv
  <2>4. Distinct(list') /\ Listed' = Listed \union {n}
    <3>1. list \in Seq(Nodes)
      BY DEF TypeInv
    <3>2. Distinct(list) /\ n \notin Elements(list)
      BY <2>3, ListedIsElements DEF ListInv
    <3>3. Distinct(list') /\ Elements(list') = Elements(list) \union {n}
      BY <2>1, <3>1, <3>2, PrependDistinct
    <3> QED
      BY <3>3 DEF Listed, Elements
  <2>5. ListInv'
    BY <2>1, <2>2, <2>3, <2>4 DEF ListInv, Freeing, TypeInv
  <2>6. LengthInv'
    BY <1>a, <2>1, <2>2, MaxLenNat DEF LengthInv, TypeInv
  <2>7. \A m \in Nodes \ {n} : Complete(m)' <=> Complete(m)
    BY <2>2 DEF Complete
  <2>8. Complete(n)' <=> len = whole
    BY <2>2 DEF Complete
  <2>9. ServedInv'
    BY <2>1, <2>3, <2>4, <2>7, <2>8 DEF ServedInv, Queued, RxServes, AsServes, ListInv
  <2>10. TimerInv'
    BY <2>1, <2>2, <2>3, <2>4, <2>7, <2>8 DEF TimerInv, Ends, TypeInv
  <2> QED
    BY <2>5, <2>6, <2>9, <2>10
<1>b. ASSUME NEW ser \in SerNos, NEW len \in 1 .. MaxLen, NEW offset \in 1 .. MaxLen - 1, calm' = calm,
             ReceiveNext(ser, offset, len)
      PROVE  Rest'
  <2>1. /\ rx_pc = "idle" /\ rx_pc' = "check" /\ rx_node' \in Listed /\ (calm => ~Complete(rx_node')) /\ rx_pkt' = [offset |-> offset, len |-> len]
        /\ UNCHANGED <<nodeVars, timerVars, toVars, asVars, undefined>>
    BY <1>b DEF ReceiveNext, GetNode, MayReceive
  <2>2. ListInv'
    BY <2>1, ListKept DEF Freeing
  <2>3. LengthInv'
    BY <1>b, <2>1, MaxLenNat DEF LengthInv
  <2>4. ServedInv'
    BY <2>1, ServedKept
  <2>5. TimerInv'
    BY <2>1, TimerKept
  <2> QED
    BY <2>2, <2>3, <2>4, <2>5
<1> QED
  BY <1>a, <1>b DEF Receive

\* gw_timer_add for the message that waits for it.
LEMMA TimerAdded ==
  ASSUME TypeInv, ListInv, TimerInv, NEW t \in Timers \union {Null}, rx_pc \in {"arm", "append"}, rx_node \in Nodes,
         AddTimer(t, rx_node), rx_pc' = "idle", UNCHANGED <<list, alloc, SendSerNo, toVars>>,
         \A n \in Nodes : Complete(n)' <=> Complete(n)
  PROVE  TimerInv'
<1>1. rx_node \in Listed /\ ~Complete(rx_node) /\ \A u \in Timers : Ends(u) => data[u] # rx_node
  BY DEF TimerInv
<1>2. \A n \in alloc : ~Complete(n) => n = rx_node \/ n \in untimed \/ \E u \in Timers : Ends(u) /\ data[u] = n
  BY DEF TimerInv
<1>3. \A u \in Timers : Ends(u) => data[u] \in alloc /\ data[u] \in Nodes /\ data[u] \notin untimed
  BY DEF TimerInv, TypeInv
<1>4. CASE t \in Timers /\ t # Null
  <2>1. /\ timer[t] = "free" /\ timer' = [timer EXCEPT ![t] = "armed"] /\ data' = [data EXCEPT ![t] = rx_node]
        /\ untimed' = untimed \ {rx_node}
    BY <1>4 DEF AddTimer, T!Add, T!Move
  <2>2. /\ timer'[t] = "armed" /\ data'[t] = rx_node
        /\ \A u \in Timers \ {t} : timer'[u] = timer[u] /\ data'[u] = data[u]
    BY <1>4, <2>1 DEF TypeInv
  <2>3. to_pc # "idle" => to_timer # t /\ to_timer \in Timers
    BY <2>1 DEF TimerInv, TypeInv
  <2>4. ~Ends(t) /\ Ends(t)' /\ \A u \in Timers \ {t} : Ends(u)' <=> Ends(u)
    BY <1>4, <2>1, <2>2, <2>3 DEF Ends
  <2>5. \A n \in alloc : ~Complete(n) => n \in untimed' \/ \E u \in Timers : Ends(u)' /\ data'[u] = n
    <3>1. ASSUME NEW n \in alloc, ~Complete(n) PROVE n \in untimed' \/ \E u \in Timers : Ends(u)' /\ data'[u] = n
      <4>1. CASE n = rx_node
        BY <1>4, <2>2, <2>4, <4>1
      <4>2. ASSUME NEW u \in Timers, Ends(u), data[u] = n PROVE Ends(u)' /\ data'[u] = n
        BY <2>2, <2>4, <4>2
      <4> QED
        BY <1>2, <2>1, <3>1, <4>1, <4>2
    <3> QED
      BY <3>1
  <2>6. \A u \in Timers : Ends(u)' =>
          /\ data'[u] \in alloc /\ ~Complete(data'[u]) /\ data'[u] \notin untimed'
          /\ data'[u] \in Listed' <=> ~(to_timer = u /\ to_pc = "free")
    <3>1. ASSUME NEW u \in Timers \ {t}, Ends(u)
          PROVE  /\ data[u] \in alloc /\ ~Complete(data[u]) /\ data[u] \notin untimed'
                 /\ data[u] \in Listed' <=> ~(to_timer = u /\ to_pc = "free")
      BY <1>3, <2>1, <3>1 DEF TimerInv, Listed
    <3>2. /\ rx_node \in alloc /\ ~Complete(rx_node) /\ rx_node \notin untimed' /\ rx_node \in Listed'
          /\ ~(to_timer = t /\ to_pc = "free")
      <4>1. rx_node \in alloc /\ rx_node \in Listed'
        BY <1>1 DEF ListInv, Listed
      <4>2. rx_node \notin untimed' /\ ~(to_timer = t /\ to_pc = "free")
        BY <2>1, <2>3
      <4> QED
        BY <1>1, <4>1, <4>2
    <3> QED
      <4>1. ASSUME NEW u \in Timers, Ends(u)', u = t
            PROVE  /\ data'[u] \in alloc /\ ~Complete(data'[u]) /\ data'[u] \notin untimed'
                   /\ data'[u] \in Listed' <=> ~(to_timer = u /\ to_pc = "free")
        BY <2>2, <3>2, <4>1
      <4>2. ASSUME NEW u \in Timers \ {t}, Ends(u)'
            PROVE  /\ data'[u] \in alloc /\ ~Complete(data'[u]) /\ data'[u] \notin untimed'
                   /\ data'[u] \in Listed' <=> ~(to_timer = u /\ to_pc = "free")
        BY <2>2, <2>4, <3>1, <4>2
      <4> QED
        BY <4>1, <4>2
  <2>7. \A u, v \in Timers : Ends(u)' /\ Ends(v)' /\ data'[u] = data'[v] => u = v
    <3>1. \A u, v \in Timers : Ends(u) /\ Ends(v) /\ data[u] = data[v] => u = v
      BY DEF TimerInv
    <3> QED
      BY <1>1, <2>2, <2>4, <3>1
  <2>8. /\ to_pc # "idle" => timer'[to_timer] = "called"
        /\ to_pc = "find" => to_ser = SendSerNo[data'[to_timer]]
        /\ to_pc \in {"rem", "free"} => to_node = data'[to_timer]
    BY <2>2, <2>3 DEF TimerInv
  <2> QED
    <3>1. TypeInv => rx_node \in Nodes /\ alloc \subseteq Nodes /\ DOMAIN RevPktLen = Nodes
      BY DEF TypeInv
    <3> QED
      BY <2>5, <2>6, <2>7, <2>8, <3>1 DEF TimerInv, Complete
<1>5. CASE t = Null \/ t \notin Timers
  <2>1. t = Null /\ UNCHANGED <<timer, data>> /\ untimed' = untimed \union {rx_node}
    BY <1>5 DEF AddTimer
  <2>2. \A u \in Timers : Ends(u)' <=> Ends(u)
    BY <2>1 DEF Ends
  <2> QED
    BY <1>1, <1>2, <1>3, <2>1, <2>2 DEF TimerInv, Listed, TypeInv
<1> QED
  BY <1>4, <1>5

\* gw_timer_add for a first fragment.
LEMMA ArmStep ==
  ASSUME TypeInv, Rest, Going, NEW t \in Timers \union {Null}, Arm(t)
  PROVE  Rest'
<1> USE DEF Rest, Going
<1>1. rx_pc = "arm" /\ rx_node \in Nodes /\ rx_node \in Listed /\ rx_node \in alloc /\ ~Complete(rx_node)
  BY DEF Arm, TypeInv, TimerInv, ListInv
<1>2. /\ AddTimer(t, rx_node) /\ TimerID' = [TimerID EXCEPT ![rx_node] = t]
      /\ rx_pc' = "idle" /\ rx_node' = Null
      /\ UNCHANGED <<calm, list, alloc, SendSerNo, RevPktLen, WholePktLen, rx_pkt, toVars, asVars>>
  BY <1>1 DEF Arm
<1>3. \A n \in Nodes : Complete(n)' <=> Complete(n)
  BY <1>2 DEF Complete
<1>4. ListInv' /\ LengthInv' /\ ServedInv'
  BY <1>1, <1>2, ListKept, LengthKept, ServedKept DEF Freeing
<1>5. TimerInv'
  BY <1>1, <1>2, <1>3, TimerAdded
<1> QED
  BY <1>4, <1>5

\* The checks of a later fragment against the node the walk found.
LEMMA CheckStep ==
  ASSUME TypeInv, Rest, Going, Check
  PROVE  Rest'
<1> USE DEF Rest, Going
<1>1. rx_pc = "check" /\ rx_node \in Nodes
  BY DEF Check, TypeInv
<1>2. CASE rx_node \notin alloc
  <2>1. UNCHANGED <<calm, nodeVars, timerVars, rxVars, toVars, asVars>>
    BY <1>1, <1>2 DEF Check, Undefined
  <2> QED
    BY <2>1, ListKept, LengthKept, ServedKept, TimerKept DEF Freeing
<1>3. CASE rx_node \in alloc
  <2>1. UNCHANGED <<calm, nodeVars, timerVars, toVars, asVars, undefined>> /\ rx_pc' \in {"idle", "delete"}
    BY <1>3 DEF Check
  <2>2. rx_pc' = "delete" => /\ RevPktLen[rx_node] + rx_pkt.len =< WholePktLen[rx_node] /\ UNCHANGED <<rx_node, rx_pkt>>
    <3>1. RevPktLen[rx_node] \in Nat /\ WholePktLen[rx_node] \in Nat /\ rx_pkt.len \in Nat
      BY <1>1 DEF TypeInv
    <3> QED
      BY <1>3, <3>1 DEF Check
  <2>3. LengthInv'
    BY <1>1, <2>1, <2>2 DEF LengthInv
  <2> QED
    BY <1>1, <2>1, <2>2, <2>3, ListKept, ServedKept, TimerKept DEF Freeing
<1> QED
  BY <1>2, <1>3

\* A message that still misses a fragment is not complete.
LEMMA MissesSome ==
  ASSUME TypeInv, LengthInv, rx_pc \in {"delete", "append"}, rx_node \in alloc
  PROVE  /\ rx_node \in Nodes /\ ~Complete(rx_node)
         /\ rx_pkt.len \in Nat /\ 1 =< rx_pkt.len /\ RevPktLen[rx_node] \in Nat /\ 1 =< RevPktLen[rx_node]
         /\ WholePktLen[rx_node] \in Nat /\ RevPktLen[rx_node] + rx_pkt.len =< WholePktLen[rx_node]
BY DEF TypeInv, LengthInv, Complete

\* gw_timer_del of an armed timer: the message waits for its next timer, or completes.
LEMMA DeleteStep ==
  ASSUME TypeInv, Rest, Going, DeleteTimer, ~astray'
  PROVE  Rest'
<1> USE DEF Rest, Going
<1>1. rx_pc = "delete" /\ rx_node \in Nodes /\ rx_node \in alloc /\ ~Complete(rx_node) /\ rx_pc' = "append"
      /\ UNCHANGED <<calm, nodeVars, rx_node, rx_pkt, toVars, asVars>>
  BY MissesSome DEF DeleteTimer
<1>3. ListInv' /\ ServedInv'
  BY <1>1, ListKept, ServedKept DEF Freeing
<1>4. LengthInv'
  BY <1>1 DEF LengthInv
<1>5. OwnHandle(rx_node)
  BY DEF DeleteTimer
<1>a. rx_node \in Listed
  <2>1. ASSUME rx_node \notin Listed PROVE FALSE
    <3>1. to_pc = "free" /\ to_node = rx_node
      BY <1>1, <2>1 DEF ListInv, Freeing, ServedInv, AsServes
    <3>2. data[to_timer] = rx_node /\ timer[to_timer] = "called" /\ to_timer \in Timers /\ Ends(to_timer)
      BY <3>1 DEF TimerInv, Ends, TypeInv
    <3>3. rx_node \notin untimed
      BY <3>2 DEF TimerInv
    <3>4. TimerID[rx_node] \in Timers /\ data[TimerID[rx_node]] = rx_node
      BY <1>1, <1>5, <3>3 DEF OwnHandle, TypeInv
    <3>5. timer[TimerID[rx_node]] = "armed"
      BY <3>4, OamAssumption DEF OamAssumption, DeleteTimer, T!Delete, T!Move
    <3>6. Ends(TimerID[rx_node])
      BY <3>5 DEF Ends
    <3>7. TimerID[rx_node] = to_timer
      BY <3>2, <3>4, <3>6 DEF TimerInv
    <3> QED
      BY <3>2, <3>5, <3>7
  <2> QED
    BY <2>1
<1>6. CASE TimerID[rx_node] = Null
  <2>1. UNCHANGED <<timer, data, untimed>>
    BY <1>6 DEF DeleteTimer
  <2>2. \A t \in Timers : Ends(t) => data[t] # rx_node
    BY <1>5, <1>6 DEF OwnHandle, TimerInv
  <2>3. TimerInv'
    BY <1>1, <1>a, <2>1, <2>2 DEF TimerInv, Ends, Complete, Listed, TypeInv
  <2> QED
    BY <1>3, <1>4, <2>3
<1>7. ASSUME NEW t \in Timers, t = TimerID[rx_node], t # Null PROVE Rest'
  <2>1. /\ timer[t] = "armed" /\ timer' = [timer EXCEPT ![t] = "free"]
        /\ data' = [data EXCEPT ![t] = Null] /\ untimed' = untimed
    BY <1>7 DEF DeleteTimer, T!Delete, T!Move, ForgetTimer
  <2>2. Ends(t) /\ data[t] = rx_node
    BY <1>5, <1>7, <2>1 DEF OwnHandle, Ends
  <2>3. timer'[t] = "free" /\ \A u \in Timers \ {t} : timer'[u] = timer[u] /\ data'[u] = data[u]
    BY <2>1 DEF TypeInv
  <2>4. to_pc # "idle" => to_timer # t /\ to_timer \in Timers
    BY <2>1 DEF TimerInv, TypeInv
  <2>5. ~Ends(t)' /\ \A u \in Timers \ {t} : (Ends(u)' <=> Ends(u)) /\ (Ends(u) => data[u] # rx_node)
    <3>1. \A u \in Timers \ {t} : Ends(u) => data[u] # rx_node
      BY <2>2 DEF TimerInv
    <3> QED
      BY <1>1, <2>3, <2>4, <3>1 DEF Ends
  <2>6. TimerInv'
    <3>1. ASSUME NEW n \in alloc, ~Complete(n)
          PROVE n = rx_node \/ n \in untimed \/ \E u \in Timers : Ends(u)' /\ data'[u] = n
      <4>1. ASSUME NEW u \in Timers, Ends(u), data[u] = n, n # rx_node PROVE Ends(u)' /\ data'[u] = n
        BY <2>2, <2>3, <2>5, <4>1
      <4> QED
        BY <1>1, <3>1, <4>1 DEF TimerInv
    <3>2. \A u \in Timers : Ends(u)' =>
            /\ data'[u] \in alloc /\ ~Complete(data'[u]) /\ data'[u] \notin untimed
            /\ data'[u] \in Listed <=> ~(to_timer = u /\ to_pc = "free")
            /\ data'[u] # rx_node
      BY <2>3, <2>5 DEF TimerInv
    <3>3. \A u, v \in Timers : Ends(u)' /\ Ends(v)' /\ data'[u] = data'[v] => u = v
      BY <2>3, <2>5 DEF TimerInv
    <3>4. /\ to_pc # "idle" => timer'[to_timer] = "called"
          /\ to_pc = "find" => to_ser = SendSerNo[data'[to_timer]]
          /\ to_pc \in {"rem", "free"} => to_node = data'[to_timer]
      BY <2>3, <2>4 DEF TimerInv
    <3> QED
      BY <1>1, <1>a, <2>1, <3>1, <3>2, <3>3, <3>4 DEF TimerInv, Complete, Listed
  <2> QED
    BY <1>3, <1>4, <2>6
<1> QED
  BY <1>1, <1>6, <1>7 DEF TypeInv

\* gw_timer_del of a timer that has gone off, or of a freed node.
LEMMA InactiveStep ==
  ASSUME TypeInv, Rest, Going, DeleteInactive
  PROVE  Rest'
<1> USE DEF Rest, Going
<1>1. rx_pc = "delete" /\ UNCHANGED <<calm, nodeVars, timerVars, rxVars, toVars, asVars>>
  BY DEF DeleteInactive, Undefined
<1> QED
  BY <1>1, ListKept, LengthKept, ServedKept, TimerKept DEF Freeing

\* The last fragment: the message is complete, its timer is gone.
LEMMA AppendLastStep ==
  ASSUME TypeInv, Rest, Going, AppendLast
  PROVE  Rest'
<1> USE DEF Rest, Going
<1>1. rx_pc = "append" /\ rx_node \in Nodes /\ rx_node \in alloc /\ ~Complete(rx_node) /\ rx_node \in Listed
      /\ rx_pc' = "dispatch" /\ RevPktLen' = [RevPktLen EXCEPT ![rx_node] = WholePktLen[rx_node]]
      /\ UNCHANGED <<calm, list, alloc, SendSerNo, WholePktLen, TimerID, timerVars, rx_node, toVars, asVars, undefined>>
  BY MissesSome DEF AppendLast, TimerInv
<1>2. RevPktLen'[rx_node] = WholePktLen[rx_node] /\ \A n \in Nodes \ {rx_node} : RevPktLen'[n] = RevPktLen[n]
  BY <1>1 DEF TypeInv
<1>3. Complete(rx_node)' /\ \A n \in Nodes \ {rx_node} : Complete(n)' <=> Complete(n)
  BY <1>1, <1>2 DEF Complete
<1>4. ListInv'
  BY <1>1, ListKept DEF Freeing
<1>5. LengthInv'
  BY <1>1, <1>2 DEF LengthInv, TypeInv
<1>6. ServedInv'
  BY <1>1, <1>3, NodesAre DEF ServedInv, Queued, RxServes, AsServes, Listed
<1>7. TimerInv'
  <2>1. \A t \in Timers : Ends(t)' <=> Ends(t)
    BY <1>1 DEF Ends
  <2>2. \A t \in Timers : Ends(t) => data[t] \in Nodes \ {rx_node}
    BY <1>1 DEF TimerInv, TypeInv
  <2>3. \A t \in Timers : Ends(t)' =>
          /\ data[t] \in alloc /\ ~Complete(data[t])' /\ data[t] \notin untimed
          /\ data[t] \in Listed <=> ~(to_timer = t /\ to_pc = "free")
    BY <1>1, <1>3, <2>1, <2>2 DEF TimerInv
  <2>4. \A n \in alloc : ~Complete(n)' => n \in untimed \/ \E t \in Timers : Ends(t)' /\ data[t] = n
    BY <1>1, <1>3, <2>1 DEF TimerInv, TypeInv
  <2>5. \A t, u \in Timers : Ends(t)' /\ Ends(u)' /\ data[t] = data[u] => t = u
    BY <2>1 DEF TimerInv
  <2> QED
    BY <1>1, <2>3, <2>4, <2>5 DEF TimerInv, Listed, Complete
<1> QED
  BY <1>4, <1>5, <1>6, <1>7

\* A fragment that is not the last: the message has its next timer.
LEMMA AppendMoreStep ==
  ASSUME TypeInv, Rest, Going, NEW t \in Timers \union {Null}, AppendMore(t)
  PROVE  Rest'
<1> USE DEF Rest, Going
<1>1. rx_pc = "append" /\ rx_node \in Nodes /\ rx_node \in alloc /\ ~Complete(rx_node) /\ rx_node \in Listed
      /\ rx_pc' = "idle" /\ rx_node' = Null /\ rx_pkt' = NoPkt /\ AddTimer(t, rx_node)
      /\ RevPktLen' = [RevPktLen EXCEPT ![rx_node] = RevPktLen[rx_node] + rx_pkt.len]
      /\ RevPktLen[rx_node] + rx_pkt.len # WholePktLen[rx_node]
      /\ UNCHANGED <<calm, list, alloc, SendSerNo, WholePktLen, TimerID, toVars, asVars>>
  BY MissesSome DEF AppendMore, TimerInv
<1>2. /\ rx_pkt.len \in Nat /\ 1 =< rx_pkt.len /\ RevPktLen[rx_node] \in Nat /\ 1 =< RevPktLen[rx_node]
      /\ WholePktLen[rx_node] \in Nat /\ RevPktLen[rx_node] + rx_pkt.len < WholePktLen[rx_node]
  BY <1>1, MissesSome
<1>3. RevPktLen'[rx_node] = RevPktLen[rx_node] + rx_pkt.len /\ \A n \in Nodes \ {rx_node} : RevPktLen'[n] = RevPktLen[n]
  BY <1>1 DEF TypeInv
<1>4. \A n \in Nodes : Complete(n)' <=> Complete(n)
  BY <1>1, <1>2, <1>3 DEF Complete
<1>5. ListInv'
  BY <1>1, ListKept DEF Freeing
<1>6. LengthInv'
  BY <1>1, <1>2, <1>3 DEF LengthInv, TypeInv
<1>7. ServedInv'
  BY <1>1, <1>4, NodesAre DEF ServedInv, Queued, RxServes, AsServes, Listed
<1>8. TimerInv'
  BY <1>1, <1>4, TimerAdded
<1> QED
  BY <1>5, <1>6, <1>7, <1>8

\* Gwd_Oam_Handle: the message is served here, queued, or refused.
LEMMA DispatchStep ==
  ASSUME TypeInv, Rest, Going, Dispatch
  PROVE  Rest'
<1> USE DEF Rest, Going
<1>1. rx_pc = "dispatch" /\ rx_node \in Nodes /\ RxServes(rx_node)
  BY DEF Dispatch, TypeInv, RxServes
<1>2. /\ rx_node \in alloc /\ Complete(rx_node) /\ rx_node \notin Queued \union lost /\ rx_node \in Listed
      /\ ~AsServes(rx_node)
  BY <1>1 DEF ServedInv
<1>3. rx_pc' \in {"idle", "rem"} /\ UNCHANGED <<calm, nodeVars, timerVars, rx_pkt, toVars, as_pc, as_node, undefined>>
  BY <1>2 DEF Dispatch
<1>4. ListInv' /\ LengthInv' /\ TimerInv'
  BY <1>1, <1>3, ListKept, LengthKept, TimerKept DEF Freeing
<1>5. ServedInv'
  <2>1. CASE rx_pc' = "rem" /\ UNCHANGED <<async_queue, lost, rx_node>>
    BY <1>1, <1>2, <1>3, <2>1 DEF ServedInv, Queued, RxServes, AsServes, Listed, Complete
  <2>2. CASE rx_pc' = "idle" /\ rx_node' = Null /\ lost' = lost \union {rx_node} /\ UNCHANGED async_queue
    BY <1>1, <1>2, <1>3, <2>2 DEF ServedInv, Queued, RxServes, AsServes, Listed, Complete
  <2>3. CASE rx_pc' = "idle" /\ rx_node' = Null /\ UNCHANGED lost /\ async_queue' = Append(async_queue, rx_node)
    <3>1. async_queue \in Seq(Nodes)
      BY DEF TypeInv
    <3>2. Distinct(async_queue') /\ Queued' = Queued \union {rx_node}
      BY <1>1, <1>2, <2>3, <3>1, AppendDistinct DEF ServedInv, Queued
    <3> QED
      BY <1>1, <1>2, <1>3, <2>3, <3>2 DEF ServedInv, RxServes, AsServes, Listed, Complete
  <2> QED
    BY <1>2, <2>1, <2>2, <2>3 DEF Dispatch
<1> QED
  BY <1>4, <1>5

\* The packet thread takes the message it has served out of the list.
LEMMA RxRemStep ==
  ASSUME TypeInv, Rest, Going, RxRem
  PROVE  Rest'
<1> USE DEF Rest, Going
<1>1. rx_pc = "rem" /\ rx_node \in Nodes /\ RxServes(rx_node)
  BY DEF RxRem, TypeInv, RxServes
<1>2. /\ rx_node \in alloc /\ Complete(rx_node) /\ rx_node \notin Queued \union lost /\ rx_node \in Listed
      /\ ~AsServes(rx_node)
  BY <1>1 DEF ServedInv
<1>3. /\ Rem(rx_node) /\ rx_pc' = "free"
      /\ UNCHANGED <<calm, alloc, fields, timerVars, rx_node, rx_pkt, toVars, asVars, undefined>>
  BY <1>2 DEF RxRem
<1>4. Distinct(list') /\ Listed' = Listed \ {rx_node}
  BY <1>2, <1>3, RemDrops DEF ListInv
<1>5. ListInv'
  BY <1>1, <1>3, <1>4 DEF ListInv, Freeing
<1>6. LengthInv'
  BY <1>1, <1>3, LengthKept
<1>7. ServedInv'
  BY <1>1, <1>2, <1>3, <1>4 DEF ServedInv, Queued, RxServes, AsServes, Complete
<1>8. TimerInv'
  BY <1>1, <1>2, <1>3, <1>4 DEF TimerInv, Ends, Complete
<1> QED
  BY <1>5, <1>6, <1>7, <1>8

\* A complete message is freed: no timer is for it.
LEMMA TimerFreed ==
  ASSUME TypeInv, TimerInv, NEW n \in Nodes, FreedOf(n), Complete(n), n \notin Listed, UNCHANGED toVars,
         UNCHANGED <<rx_pc, rx_node>> \/ (rx_pc \notin {"arm", "append"} /\ rx_pc' \notin {"arm", "append"})
  PROVE  TimerInv'
<1>1. \A u \in Timers : (Ends(u)' <=> Ends(u)) /\ (Ends(u) => data[u] \in Nodes \ {n})
  BY DEF FreedOf, Ends, TimerInv, TypeInv
<1>2. \A m \in Nodes \ {n} : Complete(m)' <=> Complete(m)
  BY DEF FreedOf, Complete
<1>3. \A u \in Timers : Ends(u)' =>
        /\ data[u] \in alloc' /\ ~Complete(data[u])' /\ data[u] \notin untimed'
        /\ data[u] \in Listed <=> ~(to_timer = u /\ to_pc = "free")
        /\ rx_pc' \in {"arm", "append"} => data[u] # rx_node'
  BY <1>1, <1>2 DEF FreedOf, TimerInv
<1>4. ASSUME NEW m \in alloc', ~Complete(m)'
      PROVE  \/ rx_pc' \in {"arm", "append"} /\ rx_node' = m
             \/ m \in untimed'
             \/ \E u \in Timers : Ends(u)' /\ data[u] = m
  <2>1. m \in Nodes \ {n} /\ m \in alloc /\ ~Complete(m)
    BY <1>2, <1>4 DEF FreedOf, TypeInv
  <2>2. m \in untimed' <=> m \in untimed
    BY <2>1 DEF FreedOf
  <2>3. \/ rx_pc \in {"arm", "append"} /\ rx_node = m
        \/ m \in untimed
        \/ \E u \in Timers : Ends(u) /\ data[u] = m
    BY <2>1 DEF TimerInv
  <2> QED
    BY <1>1, <2>2, <2>3
<1>9. \A t, u \in Timers : Ends(t)' /\ Ends(u)' /\ data[t] = data[u] => t = u
  BY <1>1 DEF TimerInv
<1>5. \A u \in Timers : Ends(u) /\ to_timer = u => data[u] \in Nodes \ {n}
  BY <1>1
<1>6. rx_pc' \in {"arm", "append"} => rx_node \in Listed /\ rx_node # n /\ rx_node' = rx_node
  BY DEF TimerInv
<1>7. /\ to_pc # "idle" => timer'[to_timer] = "called"
      /\ to_pc = "find" => to_ser = SendSerNo'[data[to_timer]]
      /\ to_pc \in {"rem", "free"} => to_node = data[to_timer]
  <2>1. to_pc = "find" => to_timer \in Timers /\ Ends(to_timer)
    BY DEF Ends, TypeInv
  <2> QED
    BY <1>5, <2>1 DEF FreedOf, TimerInv
<1>8. rx_pc' \in {"arm", "append"} => rx_node' \in Listed /\ ~Complete(rx_node)'
  <2>1. rx_pc' \in {"arm", "append"} => ~Complete(rx_node)
    BY DEF TimerInv
  <2> QED
    BY <1>2, <1>6, <2>1, NodesAre
<1> QED
  BY <1>3, <1>4, <1>7, <1>8, <1>9 DEF FreedOf, TimerInv, Complete, Listed

\* The packet thread frees the message it has served.
LEMMA RxFreeStep ==
  ASSUME TypeInv, Rest, Going, RxFree
  PROVE  Rest'
<1> USE DEF Rest, Going
<1>1. rx_pc = "free" /\ rx_node \in Nodes /\ RxServes(rx_node)
  BY DEF RxFree, TypeInv, RxServes
<1>2. /\ rx_node \in alloc /\ Complete(rx_node) /\ rx_node \notin Queued \union lost /\ rx_node \notin Listed
      /\ ~AsServes(rx_node)
  BY <1>1 DEF ServedInv
<1>3. /\ Free(rx_node) /\ rx_pc' = "idle" /\ rx_node' = Null
      /\ UNCHANGED <<calm, rx_pkt, toVars, asVars, undefined>>
  BY <1>2 DEF RxFree
<1>4. FreedOf(rx_node)
  BY <1>1, <1>3, FreeDoes DEF FreedOf
<1>5. ListInv'
  BY <1>1, <1>2, <1>3, <1>4, NodesAre DEF FreedOf, ListInv, Freeing, Listed
<1>6. LengthInv'
  BY <1>3, <1>4, LengthKept DEF FreedOf, TypeInv
<1>7. ServedInv'
  BY <1>1, <1>2, <1>3, <1>4, NodesAre DEF FreedOf, ServedInv, Queued, RxServes, AsServes, Listed, Complete
<1>8. TimerInv'
  BY <1>1, <1>2, <1>3, <1>4, TimerFreed
<1> QED
  BY <1>5, <1>6, <1>7, <1>8

\* Timers become due.
LEMMA ExpireStep ==
  ASSUME TypeInv, Rest, Going, NEW due \in SUBSET Timers, Expire(due)
  PROVE  Rest'
<1> USE DEF Rest, Going
<1>1. /\ due # {} /\ to_pc = "idle" /\ (calm => rx_pc = "idle") /\ UNCHANGED <<calm, undefined>>
      /\ UNCHANGED <<nodeVars, data, untimed, rxVars, toVars, asVars>>
  BY DEF Expire, T!Expire
<1>2. \A t \in Timers : timer'[t] = (IF t \in due THEN "due" ELSE timer[t]) /\ (t \in due => timer[t] = "armed")
  BY DEF Expire, T!Expire
<1>3. \A t \in Timers : Ends(t)' <=> Ends(t)
  BY <1>1, <1>2 DEF Ends
<1>4. ListInv' /\ LengthInv' /\ ServedInv'
  BY <1>1, ListKept, LengthKept, ServedKept DEF Freeing
<1>5. TimerInv'
  BY <1>1, <1>3 DEF TimerInv, Complete, Listed
<1> QED
  BY <1>4, <1>5

\* OamMessageRecevTimeOut reads the serial number.
LEMMA TimeOutStep ==
  ASSUME TypeInv, Rest, Going, NEW t \in Timers, TimeOut(t)
  PROVE  Rest'
<1> USE DEF Rest, Going
<1>1. ~(timer[t] = "due" /\ data[t] \notin alloc)
  BY DEF TimerInv, Ends
<1>2. /\ to_pc = "idle" /\ timer[t] = "due" /\ timer' = [timer EXCEPT ![t] = "called"]
      /\ to_timer' = t /\ to_ser' = SendSerNo[data[t]] /\ to_pc' = "find"
      /\ UNCHANGED <<calm, nodeVars, data, untimed, rxVars, to_node, asVars, undefined>>
  BY <1>1 DEF TimeOut, T!Call, T!Move
<1>3. timer'[t] = "called" /\ \A u \in Timers \ {t} : timer'[u] = timer[u]
  BY <1>2 DEF TypeInv
<1>4. \A u \in Timers : (Ends(u)' <=> Ends(u)) /\ ~(to_timer = u /\ to_pc = "free")
  BY <1>2, <1>3 DEF Ends
<1>5. ListInv' /\ LengthInv' /\ ServedInv'
  BY <1>2, ListKept, LengthKept, ServedKept DEF Freeing
<1>6. TimerInv'
  BY <1>2, <1>3, <1>4 DEF TimerInv, Complete, Listed
<1> QED
  BY <1>5, <1>6

\* OamMessageRecevTimeOut finds the message of its timer, and no other.
LEMMA ToFindStep ==
  ASSUME TypeInv, Rest, Going, ToFind
  PROVE  Rest'
<1> USE DEF Rest, Going
<1>1. to_pc = "find" /\ to_timer \in Timers /\ Ends(to_timer) /\ UNCHANGED <<calm, nodeVars, timerVars, rxVars, to_timer, to_ser, asVars, undefined>>
  BY DEF ToFind, Ends, TypeInv
<1>2. data[to_timer] \in Listed /\ SendSerNo[data[to_timer]] = to_ser
  BY <1>1 DEF TimerInv
<1>3. GetNode(to_ser) = {data[to_timer]}
  BY <1>2 DEF GetNode, ListInv
<1>4. to_node' = data[to_timer] /\ to_pc' = "rem"
  BY <1>3 DEF ToFind
<1>5. ListInv' /\ LengthInv' /\ ServedInv'
  BY <1>1, <1>4, ListKept, LengthKept, ServedKept DEF Freeing
<1>6. \A u \in Timers : (Ends(u)' <=> Ends(u))
  BY <1>1, <1>4 DEF Ends
<1>7. TimerInv'
  BY <1>1, <1>4, <1>6 DEF TimerInv, Complete, Listed
<1> QED
  BY <1>5, <1>7

\* The timer thread frees the message its timer is for.
LEMMA ToHolds ==
  ASSUME TypeInv, TimerInv, ServedInv, to_pc \in {"rem", "free"}
  PROVE  /\ to_timer \in Timers /\ Ends(to_timer) /\ to_node = data[to_timer]
         /\ to_node \in Nodes /\ to_node \in alloc /\ ~Complete(to_node)
         /\ to_node \in Listed <=> to_pc # "free"
         /\ rx_pc \in {"arm", "append"} => to_node # rx_node
         /\ to_node \notin Queued \union lost /\ ~RxServes(to_node) /\ ~AsServes(to_node)
<1>1. to_timer \in Timers /\ Ends(to_timer) /\ to_node = data[to_timer]
  BY DEF TypeInv, TimerInv, Ends
<1>2. to_node \in alloc /\ ~Complete(to_node) /\ (to_node \in Listed <=> to_pc # "free")
      /\ (rx_pc \in {"arm", "append"} => to_node # rx_node)
  BY <1>1 DEF TimerInv
<1>3. to_node \in Nodes
  BY <1>2 DEF TypeInv
<1> QED
  BY <1>1, <1>2, <1>3 DEF ServedInv

\* OamMessageRecevTimeOut takes the message out of the list.
LEMMA ToRemStep ==
  ASSUME TypeInv, Rest, Going, ToRem
  PROVE  Rest'
<1> USE DEF Rest, Going
<1>1. to_pc = "rem" /\ Rem(to_node) /\ to_pc' = "free"
      /\ UNCHANGED <<calm, alloc, fields, timerVars, rxVars, to_timer, to_ser, to_node, asVars, undefined>>
  BY DEF ToRem
<1>2. /\ to_timer \in Timers /\ Ends(to_timer) /\ to_node = data[to_timer]
      /\ to_node \in Nodes /\ to_node \in alloc /\ ~Complete(to_node)
      /\ to_node \in Listed
      /\ rx_pc \in {"arm", "append"} => to_node # rx_node
      /\ to_node \notin Queued \union lost /\ ~RxServes(to_node) /\ ~AsServes(to_node)
  BY <1>1, ToHolds
<1>3. Distinct(list') /\ Listed' = Listed \ {to_node}
  BY <1>1, <1>2, RemDrops DEF ListInv
<1>4. ListInv'
  BY <1>1, <1>3 DEF ListInv, Freeing
<1>5. LengthInv'
  BY <1>1, LengthKept
<1>6. ServedInv'
  BY <1>1, <1>2, <1>3 DEF ServedInv, Queued, RxServes, AsServes, Complete
<1>7. \A u \in Timers : (Ends(u)' <=> Ends(u)) /\ (Ends(u) /\ u # to_timer => data[u] # to_node)
  BY <1>1, <1>2 DEF Ends, TimerInv
<1>8. TimerInv'
  BY <1>1, <1>2, <1>3, <1>7 DEF TimerInv, Complete
<1> QED
  BY <1>4, <1>5, <1>6, <1>8

\* OamMessageRecevTimeOut frees the message.
LEMMA ToFreeStep ==
  ASSUME TypeInv, Rest, Going, ToFree
  PROVE  Rest'
<1> USE DEF Rest, Going
<1>1. to_pc = "free"
  BY DEF ToFree
<1>2. /\ to_timer \in Timers /\ Ends(to_timer) /\ to_node = data[to_timer]
      /\ to_node \in Nodes /\ to_node \in alloc /\ ~Complete(to_node)
      /\ to_node \notin Listed
      /\ rx_pc \in {"arm", "append"} => to_node # rx_node
      /\ to_node \notin Queued \union lost /\ ~RxServes(to_node) /\ ~AsServes(to_node)
  BY <1>1, ToHolds
<1>3. Free(to_node) /\ to_pc' = "done" /\ UNCHANGED <<calm, rxVars, to_timer, to_ser, to_node, asVars, undefined>>
  BY <1>2 DEF ToFree
<1>4. FreedOf(to_node)
  BY <1>2, <1>3, FreeDoes
<1>5. ListInv'
  <2>1. Listed' = Listed /\ Listed \subseteq Nodes \ {to_node}
    BY <1>2, <1>4, NodesAre DEF FreedOf, Listed
  <2>2. \A n \in alloc' : n # to_node /\ (Freeing(n) => Freeing(n)')
    BY <1>1, <1>3, <1>4 DEF FreedOf, Freeing
  <2> QED
    BY <1>4, <2>1, <2>2 DEF FreedOf, ListInv
<1>6. LengthInv'
  BY <1>3, <1>4, LengthKept DEF FreedOf, TypeInv
<1>7. ServedInv'
  BY <1>1, <1>2, <1>3, <1>4, NodesAre DEF FreedOf, ServedInv, Queued, RxServes, AsServes, Listed, Complete
<1>8. TimerInv'
  <2>1. \A u \in Timers : (Ends(u)' <=> Ends(u) /\ u # to_timer) /\ (Ends(u)' => data[u] \in Nodes \ {to_node})
    <3>1. \A u \in Timers : Ends(u)' <=> Ends(u) /\ u # to_timer
      BY <1>1, <1>2, <1>3, <1>4 DEF FreedOf, Ends, TimerInv
    <3>2. \A u \in Timers : Ends(u) /\ u # to_timer => data[u] \in Nodes /\ data[u] # to_node
      BY <1>2 DEF TimerInv, TypeInv
    <3> QED
      BY <3>1, <3>2
  <2>2. timer'[to_timer] = "called"
    BY <1>1, <1>4 DEF FreedOf, TimerInv
  <2>3. \A m \in Nodes \ {to_node} : Complete(m)' <=> Complete(m)
    BY <1>4 DEF FreedOf, Complete
  <2>4. \A u \in Timers : Ends(u)' =>
          /\ data[u] \in alloc' /\ ~Complete(data[u])' /\ data[u] \notin untimed'
          /\ data[u] \in Listed
          /\ rx_pc \in {"arm", "append"} => data[u] # rx_node
    BY <1>4, <2>1, <2>3 DEF FreedOf, TimerInv
  <2>5. ASSUME NEW m \in alloc', ~Complete(m)'
        PROVE  \/ rx_pc \in {"arm", "append"} /\ rx_node = m
               \/ m \in untimed'
               \/ \E u \in Timers : Ends(u)' /\ data[u] = m
    <3>1. m \in Nodes \ {to_node} /\ m \in alloc /\ ~Complete(m)
      BY <1>4, <2>3, <2>5 DEF FreedOf, TypeInv
    <3>2. m \in untimed' <=> m \in untimed
      BY <1>4, <3>1 DEF FreedOf
    <3>3. \/ rx_pc \in {"arm", "append"} /\ rx_node = m
          \/ m \in untimed
          \/ \E u \in Timers : Ends(u) /\ data[u] = m
      BY <3>1 DEF TimerInv
    <3>4. \A u \in Timers : data[u] = m => u # to_timer
      BY <1>2, <3>1
    <3> QED
      BY <2>1, <3>2, <3>3, <3>4
  <2>7. \A t, u \in Timers : Ends(t)' /\ Ends(u)' /\ data[t] = data[u] => t = u
    BY <2>1 DEF TimerInv
  <2>6. rx_pc \in {"arm", "append"} => rx_node \in Listed /\ ~Complete(rx_node)'
    BY <1>2, <1>3, <2>3, NodesAre DEF TimerInv
  <2> QED
    BY <1>3, <1>4, <2>2, <2>4, <2>5, <2>6, <2>7 DEF FreedOf, TimerInv, Complete, Listed
<1> QED
  BY <1>5, <1>6, <1>7, <1>8

\* The timer frees itself after its callback.
LEMMA ToDoneStep ==
  ASSUME TypeInv, Rest, Going, ToDone
  PROVE  Rest'
<1> USE DEF Rest, Going
<1>1. /\ to_pc = "done" /\ to_timer \in Timers /\ timer' = [timer EXCEPT ![to_timer] = "free"] /\ timer[to_timer] = "called"
      /\ data' = [data EXCEPT ![to_timer] = Null] /\ UNCHANGED <<untimed, undefined>>
      /\ to_pc' = "idle" /\ to_timer' = Null
      /\ UNCHANGED <<calm, nodeVars, rxVars, asVars>>
  BY DEF ToDone, T!Retire, T!Move, ForgetTimer, TypeInv
<1>2. timer'[to_timer] = "free" /\ \A u \in Timers \ {to_timer} : timer'[u] = timer[u] /\ data'[u] = data[u]
  BY <1>1 DEF TypeInv
<1>3. \A u \in Timers : (Ends(u)' <=> Ends(u)) /\ (Ends(u) => u # to_timer)
  BY <1>1, <1>2 DEF Ends
<1>4. ListInv' /\ LengthInv' /\ ServedInv'
  BY <1>1, ListKept, LengthKept, ServedKept DEF Freeing
<1>5. TimerInv'
  BY <1>1, <1>2, <1>3 DEF TimerInv, Complete, Listed
<1> QED
  BY <1>4, <1>5

\* gw_oam_async_thread_entry takes a request from the queue.
LEMMA AsTakeStep ==
  ASSUME TypeInv, Rest, Going, AsTake
  PROVE  Rest'
<1> USE DEF Rest, Going
<1>1. /\ as_pc = "idle" /\ async_queue # <<>> /\ as_node' = Head(async_queue) /\ async_queue' = Tail(async_queue)
      /\ as_pc' = "rem" /\ UNCHANGED <<calm, nodeVars, timerVars, rxVars, toVars, lost, undefined>>
  BY DEF AsTake
<1>2. async_queue \in Seq(Nodes)
  BY DEF TypeInv
<1>3. as_node' \in Queued /\ Distinct(async_queue') /\ Queued' = Queued \ {as_node'}
  BY <1>1, <1>2, TailDistinct DEF ServedInv, Queued
<1>4. ListInv' /\ LengthInv' /\ TimerInv'
  BY <1>1, ListKept, LengthKept, TimerKept DEF Freeing
<1>5. ServedInv'
  BY <1>1, <1>3 DEF ServedInv, RxServes, AsServes, Listed, Complete, ListInv
<1> QED
  BY <1>4, <1>5

\* The OAM thread takes the request it has served out of the list.
LEMMA AsRemStep ==
  ASSUME TypeInv, Rest, Going, AsRem
  PROVE  Rest'
<1> USE DEF Rest, Going
<1>1. as_pc = "rem" /\ as_node \in Nodes /\ AsServes(as_node)
  BY DEF AsRem, TypeInv, AsServes
<1>2. /\ as_node \in alloc /\ Complete(as_node) /\ as_node \notin Queued \union lost /\ as_node \in Listed
      /\ ~RxServes(as_node)
  BY <1>1 DEF ServedInv
<1>3. /\ Rem(as_node) /\ as_pc' = "free"
      /\ UNCHANGED <<calm, alloc, fields, timerVars, rxVars, toVars, async_queue, as_node, lost, undefined>>
  BY <1>2 DEF AsRem
<1>4. Distinct(list') /\ Listed' = Listed \ {as_node}
  BY <1>2, <1>3, RemDrops DEF ListInv
<1>5. ListInv'
  BY <1>1, <1>3, <1>4 DEF ListInv, Freeing
<1>6. LengthInv'
  BY <1>3, LengthKept
<1>7. ServedInv'
  BY <1>1, <1>2, <1>3, <1>4 DEF ServedInv, Queued, RxServes, AsServes, Complete
<1>8. TimerInv'
  BY <1>1, <1>2, <1>3, <1>4 DEF TimerInv, Ends, Complete
<1> QED
  BY <1>5, <1>6, <1>7, <1>8

\* The OAM thread frees the request it has served.
LEMMA AsFreeStep ==
  ASSUME TypeInv, Rest, Going, AsFree
  PROVE  Rest'
<1> USE DEF Rest, Going
<1>1. as_pc = "free" /\ as_node \in Nodes /\ AsServes(as_node)
  BY DEF AsFree, TypeInv, AsServes
<1>2. /\ as_node \in alloc /\ Complete(as_node) /\ as_node \notin Queued \union lost /\ as_node \notin Listed
      /\ ~RxServes(as_node)
  BY <1>1 DEF ServedInv
<1>3. /\ Free(as_node) /\ as_pc' = "idle" /\ as_node' = Null
      /\ UNCHANGED <<calm, rxVars, toVars, async_queue, lost, undefined>>
  BY <1>2 DEF AsFree
<1>4. FreedOf(as_node)
  BY <1>1, <1>3, FreeDoes
<1>5. ListInv'
  BY <1>1, <1>2, <1>3, <1>4, NodesAre DEF FreedOf, ListInv, Freeing, Listed
<1>6. LengthInv'
  BY <1>3, <1>4, LengthKept DEF FreedOf, TypeInv
<1>7. ServedInv'
  BY <1>1, <1>2, <1>3, <1>4, NodesAre DEF FreedOf, ServedInv, Queued, RxServes, AsServes, Listed, Complete
<1>8. TimerInv'
  BY <1>1, <1>2, <1>3, <1>4, TimerFreed
<1> QED
  BY <1>5, <1>6, <1>7, <1>8
-----------------------------------------------------------------------------
\* The invariant holds at the start.
LEMMA InvInit == Init => TypeInv /\ Rest
<1> SUFFICES ASSUME Init PROVE Rest
  BY TypeInit
<1>1. Listed = {} /\ Queued = {} /\ Distinct(list) /\ Distinct(async_queue)
  BY DEF Init, Listed, Queued, Elements, Distinct
<1> QED
  BY <1>1 DEF Init, Rest, ListInv, LengthInv, ServedInv, TimerInv, RxServes, AsServes, Ends, Freeing

\* Every step of the three threads keeps the invariant, up to a handle gone astray.
LEMMA InvStep ==
  ASSUME TypeInv, Rest, [Next]_vars, ~astray'
  PROVE  TypeInv' /\ Rest'
<1>1. TypeInv'
  BY TypeStep DEF Rest
<1>2. CASE UNCHANGED vars
  <2>1. ListInv' /\ LengthInv' /\ ServedInv'
    BY <1>2, ListKept, LengthKept, ServedKept DEF vars, Rest, Freeing
  <2>2. TimerInv'
    BY <1>2, TimerKept DEF vars, Rest
  <2> QED
    BY <1>1, <2>1, <2>2 DEF Rest
<1>3. ASSUME Next PROVE Rest'
  <2>1. ASSUME Going, AppendFreed PROVE FALSE
    BY <2>1 DEF AppendFreed, Rest, TimerInv, ListInv
  <2> QED
    BY <1>3, <2>1, ReceiveStep, ArmStep, CheckStep, DeleteStep, InactiveStep, AppendLastStep, AppendMoreStep, DispatchStep,
       RxRemStep, RxFreeStep, ExpireStep, TimeOutStep, ToFindStep, ToRemStep, ToFreeStep, ToDoneStep, AsTakeStep,
       AsRemStep, AsFreeStep DEF Next, PacketThread, TimerThread, OamThread
<1> QED
  BY <1>1, <1>2, <1>3

\* A handle that has gone astray has done so for good.
LEMMA AstrayStays ==
  ASSUME [Next]_vars, astray
  PROVE  astray'
<1>1. ASSUME NEW t, NEW n, AddTimer(t, n) PROVE astray' = astray
  BY <1>1 DEF AddTimer
<1>2. ASSUME NEW n, Free(n) PROVE astray' = astray
  BY <1>2 DEF Free
<1>3. ASSUME Receive \/ Check \/ DeleteInactive \/ AppendLast \/ AppendFreed \/ Dispatch \/ RxRem PROVE astray' = astray
  BY <1>3 DEF Receive, ReceiveFirst, ReceiveNext, Check, DeleteInactive, AppendLast, AppendFreed, Dispatch, RxRem, Undefined
<1>4. ASSUME NEW t, Arm(t) \/ AppendMore(t) \/ TimeOut(t) PROVE astray' = astray
  BY <1>1, <1>4 DEF Arm, AppendMore, TimeOut, Undefined
<1>5. ASSUME NEW due, Expire(due) PROVE astray' = astray
  BY <1>5 DEF Expire
<1>6. ASSUME RxFree \/ ToFree \/ AsFree PROVE astray' = astray
  BY <1>2, <1>6 DEF RxFree, ToFree, AsFree, Undefined
<1>7. ASSUME ToFind \/ ToRem \/ ToDone \/ AsTake \/ AsRem PROVE astray' = astray
  BY <1>7 DEF ToFind, ToRem, ToDone, AsTake, AsRem, Undefined
<1>8. ASSUME DeleteTimer PROVE astray'
  BY <1>8 DEF DeleteTimer
<1>9. CASE UNCHANGED vars
  BY <1>9 DEF vars
<1> QED
  BY <1>3, <1>4, <1>5, <1>6, <1>7, <1>8, <1>9 DEF Next, PacketThread, TimerThread, OamThread

\* The invariant holds until a handle goes astray.
LEMMA InvHolds == SafeSpec => [](~astray => TypeInv /\ Rest)
<1>1. Init => (~astray => TypeInv /\ Rest)
  BY InvInit
<1>2. (~astray => TypeInv /\ Rest) /\ [Next]_vars => (~astray => TypeInv /\ Rest)'
  BY InvStep, AstrayStays
<1> QED
  BY <1>1, <1>2, PTL DEF SafeSpec

\* Unique serial numbers make the list as long as the set of them.
LEMMA ListIsSound ==
  ASSUME TypeInv, Rest
  PROVE  ListSound
<1>1. list \in Seq(Nodes) /\ Distinct(list)
  BY DEF TypeInv, Rest, ListInv
<1> DEFINE f == [n \in Elements(list) |-> SendSerNo[n]]
           R == {SendSerNo[n] : n \in Listed}
<1>2. f \in [Elements(list) -> R]
  BY ListedIsElements
<1>3. \A n, m \in Elements(list) : f[n] = f[m] => n = m
  BY ListedIsElements DEF Rest, ListInv
<1>4. \A y \in R : \E n \in Elements(list) : f[n] = y
  BY ListedIsElements
<1> HIDE DEF f, R
<1>5. Cardinality(R) = Len(list)
  BY <1>1, <1>2, <1>3, <1>4, DistinctLength
<1> QED
  BY <1>5 DEF R, ListSound, Rest, ListInv

\* The owners of the invariant are those OnlyRefusedLeak names.
LEMMA OnlyRefusedLeaks ==
  ASSUME TypeInv, Rest
  PROVE  OnlyRefusedLeak
<1>1. alloc \subseteq Listed \union {rx_node, to_node, as_node}
  BY DEF Rest, ListInv, Freeing
<1>2. \A n \in Listed : Complete(n) => n \in {rx_node, to_node, as_node} \union Queued \union lost
  BY DEF Rest, ServedInv, RxServes, AsServes
<1> QED
  BY <1>1, <1>2 DEF OnlyRefusedLeak, Queued, Elements

\* The timers of the invariant are those TimerIffIncomplete names.
LEMMA TimersMatch ==
  ASSUME TypeInv, Rest
  PROVE  TimerIffIncomplete
<1>1. CompleteHasNoTimer
  BY DEF CompleteHasNoTimer, Pending, Rest, TimerInv, Ends
<1>2. ASSUME NEW n \in Listed, ~Complete(n)
      PROVE  \/ \E t \in Timers : Pending(t) /\ data[t] = n
             \/ (rx_node = n /\ rx_pc \in {"arm", "append"})
             \/ (to_node = n /\ to_pc \in {"rem", "free"})
             \/ n \in untimed
  <2>1. n \in alloc
    BY DEF Rest, ListInv
  <2>2. ASSUME NEW t \in Timers, Ends(t), data[t] = n
        PROVE  (Pending(t) /\ data[t] = n) \/ (to_node = n /\ to_pc \in {"rem", "free"})
    BY <2>2 DEF Ends, Pending, Rest, TimerInv
  <2> QED
    BY <1>2, <2>1, <2>2 DEF Rest, TimerInv
<1> QED
  BY <1>1, <1>2 DEF TimerIffIncomplete, IncompleteHasTimer

-----------------------------------------------------------------------------
\* However the threads interleave, no serial number is listed twice and no freed
\* node is listed, though CommOnuMsgReveive looks a serial number up and adds the
\* node in two sections of OamListSem; until a handle goes astray.
THEOREM ListSoundCorrect == SafeSpec => []ListSound
<1>1. (~astray => TypeInv /\ Rest) => ListSound
  BY ListIsSound DEF ListSound
<1> QED
  BY <1>1, InvHolds, PTL

\* A node that is allocated has exactly one owner who will free it, unless the
\* full queue refused it (Gwd_Oam_Handle, gwd_oam_async_trans); until a handle
\* goes astray.
THEOREM OnlyRefusedLeakCorrect == SafeSpec => []OnlyRefusedLeak
<1>1. (~astray => TypeInv /\ Rest) => OnlyRefusedLeak
  BY OnlyRefusedLeaks DEF OnlyRefusedLeak
<1> QED
  BY <1>1, InvHolds, PTL

\* An incomplete message has a timer that will end it and a complete one has
\* none (CommOnuMsgReveive, OamMessageRecevTimeOut); until a handle goes astray.
THEOREM TimerIffIncompleteCorrect == SafeSpec => []TimerIffIncomplete
<1>1. (~astray => TypeInv /\ Rest) => TimerIffIncomplete
  BY TimersMatch DEF TimerIffIncomplete
<1> QED
  BY <1>1, InvHolds, PTL
-----------------------------------------------------------------------------
\* gw_timer_add for the message that waits for it, whose handle is kept.
LEMMA HandleAdded ==
  ASSUME TypeInv, TimerInv, HandleInv, NEW t \in Timers \union {Null}, NEW n \in Nodes, AddTimer(t, n), UNCHANGED toVars,
         TimerID' = [TimerID EXCEPT ![n] = t], \A u \in Timers : Ends(u) => data[u] # n
  PROVE  HandleInv'
<1>1. \A m \in Nodes : TimerID'[m] = IF m = n THEN t ELSE TimerID[m]
  BY DEF TypeInv
<1>2. \A u \in Timers : Ends(u) => data[u] \in Nodes /\ TimerID[data[u]] = u
  BY DEF HandleInv, TimerInv, TypeInv
<1>3. CASE t \in Timers /\ t # Null
  <2>1. /\ timer[t] = "free" /\ timer' = [timer EXCEPT ![t] = "armed"] /\ data' = [data EXCEPT ![t] = n]
        /\ untimed' = untimed \ {n} /\ astray' = astray
    BY <1>3 DEF AddTimer, T!Add, T!Move
  <2>2. data'[t] = n /\ \A u \in Timers \ {t} : timer'[u] = timer[u] /\ data'[u] = data[u]
    BY <1>3, <2>1 DEF TypeInv
  <2>3. \A u \in Timers \ {t} : Ends(u)' <=> Ends(u)
    BY <2>2 DEF Ends
  <2>4. \A u \in Timers : Ends(u)' => TimerID'[data'[u]] = u
    BY <1>1, <1>2, <2>2, <2>3
  <2> QED
    BY <1>1, <2>1, <2>4 DEF HandleInv, TypeInv
<1>4. CASE t = Null \/ t \notin Timers
  <2>1. t = Null /\ UNCHANGED <<timer, data, astray>> /\ untimed' = untimed \union {n}
    BY <1>4 DEF AddTimer
  <2>2. \A u \in Timers : Ends(u)' <=> Ends(u)
    BY <2>1 DEF Ends
  <2> QED
    BY <1>1, <1>2, <2>1, <2>2 DEF HandleInv, TypeInv
<1> QED
  BY <1>3, <1>4

\* While it fits, no handler gives gw_timer_del another handle than the message's.
LEMMA HandleStep ==
  ASSUME TypeInv, Rest, HandleInv, Fits, [Next]_vars
  PROVE  HandleInv'
<1> USE DEF Rest
<1>0. ASSUME UNCHANGED <<TimerID, data, untimed, astray>>, \A t \in Timers : Ends(t)' => Ends(t) PROVE HandleInv'
  BY <1>0 DEF HandleInv
<1>a. ASSUME UNCHANGED <<TimerID, timerVars, toVars>> PROVE HandleInv'
  BY <1>a DEF HandleInv, Ends
<1>b. ASSUME Receive \/ Check \/ DeleteInactive \/ AppendLast \/ AppendFreed \/ Dispatch \/ RxRem PROVE HandleInv'
  <2>1. UNCHANGED <<TimerID, timerVars, toVars>>
    BY <1>b DEF Receive, ReceiveFirst, ReceiveNext, Check, DeleteInactive, AppendLast, AppendFreed, Dispatch, RxRem, Undefined
  <2> QED
    BY <1>a, <2>1
<1>c. ASSUME NEW t \in Timers \union {Null}, Arm(t) PROVE HandleInv'
  <2>1. rx_pc = "arm" /\ rx_node \in Nodes /\ rx_node \in alloc /\ \A u \in Timers : Ends(u) => data[u] # rx_node
    BY <1>c DEF Arm, TypeInv, TimerInv, ListInv
  <2> QED
    BY <1>c, <2>1, HandleAdded DEF Arm
<1>d. ASSUME NEW t \in Timers \union {Null}, AppendMore(t) PROVE HandleInv'
  <2>1. rx_pc = "append" /\ rx_node \in Nodes /\ rx_node \in alloc /\ \A u \in Timers : Ends(u) => data[u] # rx_node
    BY <1>d DEF AppendMore, TypeInv, TimerInv
  <2>2. calm
    <3>1. WholePktLen[rx_node] \in Nat /\ RevPktLen[rx_node] \in Nat /\ rx_pkt.len \in Nat
          /\ 1 =< RevPktLen[rx_node] /\ 1 =< rx_pkt.len /\ RevPktLen[rx_node] + rx_pkt.len =< WholePktLen[rx_node]
      BY <2>1, MissesSome
    <3>2. WholePktLen[rx_node] =< MaxLen /\ MaxLen \in Nat
      BY <2>1, MaxLenNat DEF LengthInv
    <3>3. RevPktLen[rx_node] + rx_pkt.len # WholePktLen[rx_node]
      BY <1>d DEF AppendMore
    <3>4. ~(MaxLen =< 2)
      BY <3>1, <3>2, <3>3
    <3> QED
      BY <3>4 DEF Fits
  <2>3. t = TimerID[rx_node] /\ TimerID' = TimerID /\ AddTimer(t, rx_node) /\ UNCHANGED toVars
    BY <1>d, <2>2 DEF AppendMore
  <2>4. TimerID' = [TimerID EXCEPT ![rx_node] = t]
    BY <2>1, <2>3 DEF TypeInv
  <2> QED
    BY <2>1, <2>3, <2>4, HandleAdded
<1>e. ASSUME DeleteTimer PROVE HandleInv'
  <2>1. rx_pc = "delete" /\ rx_node \in Nodes /\ rx_node \in alloc /\ ~Complete(rx_node) /\ UNCHANGED <<nodeVars, toVars>>
    BY <1>e, MissesSome DEF DeleteTimer
  <2>2. OwnHandle(rx_node)
    <3>1. CASE rx_node \in untimed
      BY <3>1 DEF HandleInv, OwnHandle
    <3>2. ASSUME NEW t \in Timers, Ends(t), data[t] = rx_node PROVE OwnHandle(rx_node)
      <4>1. TimerID[rx_node] = t
        BY <3>2 DEF HandleInv
      <4> QED
        BY <3>2, <4>1, OamAssumption DEF OamAssumption, OwnHandle
    <3> QED
      BY <2>1, <3>1, <3>2 DEF TimerInv
  <2>3. astray' = astray
    <3>1. astray = FALSE /\ astray' = (astray \/ ~OwnHandle(rx_node))
      BY <1>e DEF DeleteTimer, HandleInv, TypeInv
    <3> QED
      BY <2>2, <3>1, Zenon
  <2>4. CASE TimerID[rx_node] = Null
    BY <1>a, <1>e, <2>1, <2>3, <2>4 DEF DeleteTimer
  <2>5. ASSUME NEW t \in Timers, t = TimerID[rx_node], t # Null PROVE HandleInv'
    <3>1. timer' = [timer EXCEPT ![t] = "free"] /\ timer[t] = "armed" /\ data' = [data EXCEPT ![t] = Null] /\ untimed' = untimed
      BY <1>e, <2>5 DEF DeleteTimer, T!Delete, T!Move, ForgetTimer
    <3>2. timer'[t] = "free" /\ \A u \in Timers \ {t} : timer'[u] = timer[u] /\ data'[u] = data[u]
      BY <3>1 DEF TypeInv
    <3>3. to_pc # "idle" => to_timer # t
      BY <3>1 DEF TimerInv
    <3>4. \A u \in Timers : Ends(u)' => u # t /\ Ends(u)
      BY <2>1, <3>2, <3>3 DEF Ends
    <3> QED
      BY <2>1, <2>3, <3>1, <3>2, <3>4 DEF HandleInv
  <2> QED
    BY <2>1, <2>4, <2>5 DEF TypeInv
<1>f. ASSUME NEW n \in Nodes, Free(n),
             (Complete(n) /\ to_pc' = to_pc /\ to_timer' = to_timer) \/ (to_pc = "free" /\ n = to_node /\ to_pc' = "done")
      PROVE  HandleInv'
  <2>1. FreedOf(n) /\ untimed' = untimed \ {n} /\ astray' = astray
    BY <1>f, FreeDoes DEF Free
  <2>2. \A t \in Timers : Ends(t)' => Ends(t)
    BY <1>f, <2>1 DEF FreedOf, Ends
  <2>3. \A t \in Timers : Ends(t)' => data[t] \in Nodes \ {n}
    <3>1. ASSUME NEW t \in Timers, Ends(t)', data[t] = n PROVE FALSE
      <4>1. Ends(t) /\ ~Complete(n)
        BY <2>2, <3>1 DEF TimerInv
      <4>2. to_pc = "free" /\ to_pc' = "done" /\ n = to_node /\ to_timer \in Timers /\ Ends(to_timer) /\ data[to_timer] = n
        BY <1>f, <4>1, ToHolds
      <4>3. t = to_timer
        BY <3>1, <4>1, <4>2 DEF TimerInv
      <4>4. timer'[t] = "called"
        BY <2>1, <4>2, <4>3 DEF FreedOf, TimerInv
      <4> QED
        BY <3>1, <4>2, <4>4 DEF Ends
    <3>2. \A t \in Timers : Ends(t) => data[t] \in Nodes
      BY DEF TimerInv, TypeInv
    <3> QED
      BY <2>2, <3>1, <3>2
  <2> QED
    BY <2>1, <2>2, <2>3 DEF FreedOf, HandleInv, TypeInv
<1>g. ASSUME RxFree \/ ToFree \/ AsFree PROVE HandleInv'
  <2>1. CASE Undefined
    BY <1>a, <2>1 DEF Undefined
  <2>2. CASE RxFree /\ ~Undefined
    <3>1. rx_node \in Nodes /\ RxServes(rx_node) /\ Free(rx_node) /\ to_pc' = to_pc /\ to_timer' = to_timer
      BY <2>2 DEF RxFree, TypeInv, RxServes
    <3>2. Complete(rx_node)
      BY <3>1 DEF ServedInv
    <3> QED
      BY <1>f, <3>1, <3>2
  <2>3. CASE AsFree /\ ~Undefined
    <3>1. as_node \in Nodes /\ AsServes(as_node) /\ Free(as_node) /\ to_pc' = to_pc /\ to_timer' = to_timer
      BY <2>3 DEF AsFree, TypeInv, AsServes
    <3>2. Complete(as_node)
      BY <3>1 DEF ServedInv
    <3> QED
      BY <1>f, <3>1, <3>2
  <2>4. CASE ToFree /\ ~Undefined
    <3>1. Free(to_node) /\ to_pc = "free" /\ to_pc' = "done" /\ to_node \in Nodes
      BY <2>4, ToHolds DEF ToFree
    <3> QED
      BY <1>f, <3>1
  <2> QED
    BY <1>g, <2>1, <2>2, <2>3, <2>4
<1>h. ASSUME NEW due \in SUBSET Timers, Expire(due) PROVE HandleInv'
  <2>1. \A t \in Timers : timer'[t] = (IF t \in due THEN "due" ELSE timer[t]) /\ (t \in due => timer[t] = "armed")
    BY <1>h DEF Expire, T!Expire
  <2> QED
    BY <1>0, <1>h, <2>1 DEF Expire, Ends
<1>i. ASSUME NEW t \in Timers, TimeOut(t) PROVE HandleInv'
  <2>1. CASE Undefined
    BY <1>a, <2>1 DEF Undefined
  <2>2. CASE ~Undefined
    <3>1. /\ to_timer' = t /\ UNCHANGED <<nodeVars, data, untimed, astray>>
          /\ timer[t] = "due" /\ timer' = [timer EXCEPT ![t] = "called"]
      BY <1>i, <2>2 DEF TimeOut, T!Call, T!Move
    <3>2. \A u \in Timers : Ends(u)' => Ends(u)
      BY <3>1 DEF Ends, TypeInv
    <3> QED
      BY <1>0, <3>1, <3>2
  <2> QED
    BY <2>1, <2>2
<1>j. ASSUME ToFind \/ ToRem PROVE HandleInv'
  BY <1>0, <1>j DEF ToFind, ToRem, Ends
<1>k. ASSUME ToDone PROVE HandleInv'
  <2>1. /\ to_timer \in Timers /\ timer' = [timer EXCEPT ![to_timer] = "free"] /\ data' = [data EXCEPT ![to_timer] = Null]
        /\ to_pc' = "idle" /\ UNCHANGED <<nodeVars, untimed, astray>>
    BY <1>k DEF ToDone, T!Retire, T!Move, ForgetTimer, TypeInv
  <2>2. timer'[to_timer] = "free" /\ \A u \in Timers \ {to_timer} : timer'[u] = timer[u] /\ data'[u] = data[u]
    BY <2>1 DEF TypeInv
  <2>3. \A u \in Timers : Ends(u)' => u # to_timer /\ Ends(u)
    BY <2>1, <2>2 DEF Ends
  <2> QED
    BY <2>1, <2>2, <2>3 DEF HandleInv
<1>l. ASSUME AsTake \/ AsRem PROVE HandleInv'
  BY <1>a, <1>l DEF AsTake, AsRem, Undefined
<1>m. CASE UNCHANGED vars
  BY <1>a, <1>m DEF vars
<1> QED
  BY <1>b, <1>c, <1>d, <1>e, <1>g, <1>h, <1>i, <1>j, <1>k, <1>l, <1>m DEF Next, PacketThread, TimerThread, OamThread

\* No handle goes astray while messages have at most two fragments, nor when calm:
\* the theorems above then hold without condition (CommOnuMsgReveive).
THEOREM HandlesKept == SafeSpec => [](Fits => ~astray)
<1> DEFINE I == (~astray => TypeInv /\ Rest) /\ (Fits => HandleInv)
<1>1. Init => I
  <2>1. Init => HandleInv
    BY DEF Init, HandleInv, Ends
  <2> QED
    BY <2>1, InvInit
<1>2. I /\ [Next]_vars => I'
  <2>1. ASSUME [Next]_vars, Fits' PROVE Fits
    BY <2>1 DEF Fits, Next, Going, vars
  <2>2. HandleInv => ~astray
    BY DEF HandleInv
  <2> QED
    BY <2>1, <2>2, InvStep, AstrayStays, HandleStep
<1>3. I => (Fits => ~astray)
  BY DEF HandleInv
<1> QED
  BY <1>1, <1>2, <1>3, PTL DEF SafeSpec
=============================================================================
