--------------------------- MODULE PktPathProofs ---------------------------
(***************************************************************************)
(* Theorems about PktPath: no buffer is lost or freed twice, every packet  *)
(* has one fate, and the handlers see the packets of a type in order, for  *)
(* any number of buffers, packets and queue entries, and wherever the      *)
(* initialisation has got to.                                              *)
(*                                                                         *)
(* The inductive invariant Inv has three layers.  OwnInv puts every        *)
(* buffer in one of six places.  NumInv needs it: of the buffers that hold *)
(* a packet one bears it, the others are only still to be freed.  OrderInv *)
(* needs both: a packet that waits in the packet queue is younger than     *)
(* every other of its type that is on its way or was handled, as long as   *)
(* it did not go round; so is one that is about to join the RCP queue, and *)
(* the RCP queue is in order.                                              *)
(*                                                                         *)
(* There is one lemma for each action.  An action that only drops or frees *)
(* a packet needs NumSame or NumDrop, and OrderSame.                       *)
(***************************************************************************)
EXTENDS PktPath, FiniteSetTheorems, TLAPS

\* Sequences without repetition: lists of nodes, queues of messages.
Elements(s) == {s[i] : i \in DOMAIN s}
Distinct(s) == \A i, j \in DOMAIN s : s[i] = s[j] => i = j

\* A sequence without its i-th element.
Drop(s, i) == [j \in 1 .. Len(s) - 1 |-> IF j < i THEN s[j] ELSE s[j + 1]]

\* A new element at the tail.
LEMMA AppendDistinct ==
  ASSUME NEW S, NEW s \in Seq(S), Distinct(s), NEW x \in S, x \notin Elements(s)
  PROVE  /\ Append(s, x) \in Seq(S) /\ Len(Append(s, x)) = Len(s) + 1
         /\ Distinct(Append(s, x)) /\ Elements(Append(s, x)) = Elements(s) \union {x}
<1> DEFINE l == Append(s, x)
<1>1. l \in Seq(S) /\ Len(l) = Len(s) + 1 /\ Len(s) \in Nat
  OBVIOUS
<1>2. \A i \in 1 .. Len(l) : l[i] = IF i = Len(s) + 1 THEN x ELSE s[i]
  OBVIOUS
<1>3. DOMAIN l = 1 .. Len(l) /\ DOMAIN s = 1 .. Len(s)
  OBVIOUS
<1> HIDE DEF l
<1>4. Elements(l) = Elements(s) \union {x}
  <2>1. ASSUME NEW y \in Elements(s) PROVE y \in Elements(l)
    BY <1>1, <1>2, <1>3 DEF Elements
  <2>2. x \in Elements(l)
    <3>1. Len(l) \in 1 .. Len(l) /\ l[Len(l)] = x
      BY <1>1, <1>2
    <3> QED
      BY <1>3, <3>1 DEF Elements
  <2>3. ASSUME NEW y \in Elements(l) PROVE y = x \/ y \in Elements(s)
    <3>1. PICK i \in 1 .. Len(l) : y = l[i]
      BY <1>3 DEF Elements
    <3>2. CASE i # Len(s) + 1
      <4>1. i \in 1 .. Len(s) /\ y = s[i]
        BY <1>1, <1>2, <3>1, <3>2
      <4> QED
        BY <1>3, <4>1 DEF Elements
    <3> QED
      BY <1>2, <3>1, <3>2
  <2> QED
    BY <2>1, <2>2, <2>3
<1>5. Distinct(l)
  <2>1. \A i \in 1 .. Len(s) : s[i] # x
    BY <1>3 DEF Elements
  <2>2. \A i, j \in 1 .. Len(s) : s[i] = s[j] => i = j
    BY <1>3 DEF Distinct
  <2>3. \A i \in 1 .. Len(l) : i # Len(s) + 1 => i \in 1 .. Len(s) /\ l[i] = s[i]
    BY <1>1, <1>2
  <2>4. ASSUME NEW i \in 1 .. Len(l), NEW j \in 1 .. Len(l), l[i] = l[j] PROVE i = j
    BY <1>2, <2>1, <2>2, <2>3, <2>4
  <2> QED
    BY <1>3, <2>4 DEF Distinct
<1> QED
  BY <1>1, <1>4, <1>5 DEF l

\* The i-th element leaves.
LEMMA DropDistinct ==
  ASSUME NEW S, NEW s \in Seq(S), Distinct(s), NEW i \in DOMAIN s
  PROVE  /\ Drop(s, i) \in Seq(S) /\ Len(Drop(s, i)) = Len(s) - 1
         /\ Distinct(Drop(s, i)) /\ Elements(Drop(s, i)) = Elements(s) \ {s[i]}
<1>1. DOMAIN s = 1 .. Len(s) /\ Len(s) \in Nat /\ i \in 1 .. Len(s) /\ \A j \in 1 .. Len(s) : s[j] \in S
  OBVIOUS
<1> DEFINE l == Drop(s, i)
<1>2. \A j \in 1 .. Len(s) - 1 : l[j] = (IF j < i THEN s[j] ELSE s[j + 1]) /\ l[j] \in S
  BY <1>1 DEF Drop
<1>3. l \in Seq(S) /\ Len(l) = Len(s) - 1 /\ DOMAIN l = 1 .. Len(s) - 1
  <2>1. Len(s) - 1 \in Nat
    BY <1>1
  <2>2. l \in [1 .. Len(s) - 1 -> S]
    BY <1>2 DEF Drop
  <2> QED
    BY <2>1, <2>2
<1> HIDE DEF l
<1>4. Elements(l) = Elements(s) \ {s[i]}
  <2>1. ASSUME NEW y \in Elements(s), y # s[i] PROVE y \in Elements(l)
    <3>1. PICK k \in 1 .. Len(s) : y = s[k] /\ k # i
      BY <1>1, <2>1 DEF Elements
    <3>2. CASE k < i
      <4>1. k \in 1 .. Len(s) - 1 /\ l[k] = y
        BY <1>1, <1>2, <3>1, <3>2
      <4> QED
        BY <1>3, <4>1 DEF Elements
    <3>3. CASE k > i
      <4>1. k - 1 \in 1 .. Len(s) - 1 /\ ~(k - 1 < i) /\ (k - 1) + 1 = k
        BY <1>1, <3>3
      <4>2. l[k - 1] = y
        BY <1>2, <3>1, <4>1
      <4> QED
        BY <1>3, <4>1, <4>2 DEF Elements
    <3> QED
      BY <1>1, <3>1, <3>2, <3>3
  <2>2. ASSUME NEW y \in Elements(l) PROVE y \in Elements(s) /\ y # s[i]
    <3>1. PICK k \in 1 .. Len(s) - 1 : y = l[k]
      BY <1>3 DEF Elements
    <3>2. PICK m \in 1 .. Len(s) : y = s[m] /\ m # i
      BY <1>1, <1>2, <3>1
    <3> QED
      BY <1>1, <3>2 DEF Elements, Distinct
  <2> QED
    BY <2>1, <2>2
<1>5. Distinct(l)
  <2>1. \A j, k \in 1 .. Len(s) : s[j] = s[k] => j = k
    BY <1>1 DEF Distinct
  <2>2. ASSUME NEW j \in 1 .. Len(s) - 1, NEW k \in 1 .. Len(s) - 1, l[j] = l[k] PROVE j = k
    <3> DEFINE a == IF j < i THEN j ELSE j + 1
               b == IF k < i THEN k ELSE k + 1
    <3>1. a \in 1 .. Len(s) /\ b \in 1 .. Len(s) /\ l[j] = s[a] /\ l[k] = s[b]
      BY <1>1, <1>2
    <3>2. a = b
      BY <2>1, <2>2, <3>1
    <3> QED
      BY <1>1, <3>2
  <2> QED
    BY <1>3, <2>2 DEF Distinct
<1> QED
  BY <1>3, <1>4, <1>5 DEF l

\* The head leaves.
LEMMA TailDistinct ==
  ASSUME NEW S, NEW s \in Seq(S), Distinct(s), s # <<>>
  PROVE  /\ Head(s) \in Elements(s) /\ Tail(s) \in Seq(S) /\ Len(Tail(s)) = Len(s) - 1
         /\ Distinct(Tail(s)) /\ Elements(Tail(s)) = Elements(s) \ {Head(s)}
<1>1. 1 \in DOMAIN s /\ Head(s) = s[1]
  OBVIOUS
<1>2. Tail(s) = Drop(s, 1)
  <2>1. Tail(s) = [j \in 1 .. Len(s) - 1 |-> s[j + 1]]
    <3>1. Tail(s) \in Seq(S) /\ Len(Tail(s)) = Len(s) - 1
      OBVIOUS
    <3>2. \A j \in 1 .. Len(s) - 1 : Tail(s)[j] = s[j + 1]
      OBVIOUS
    <3>3. Tail(s) = [j \in 1 .. Len(Tail(s)) |-> Tail(s)[j]]
      <4> HIDE <3>2
      <4>1. \A q \in Seq(S) : q = [j \in 1 .. Len(q) |-> q[j]]
        OBVIOUS
      <4> QED
        BY <3>1, <4>1, Zenon
    <3> QED
      BY <3>1, <3>2, <3>3, Zenon
  <2>2. Drop(s, 1) = [j \in 1 .. Len(s) - 1 |-> s[j + 1]]
    BY DEF Drop
  <2> QED
    BY <2>1, <2>2
<1>3. /\ Drop(s, 1) \in Seq(S) /\ Len(Drop(s, 1)) = Len(s) - 1
      /\ Distinct(Drop(s, 1)) /\ Elements(Drop(s, 1)) = Elements(s) \ {s[1]}
  BY <1>1, DropDistinct
<1>4. s[1] \in Elements(s)
  BY <1>1 DEF Elements
<1> QED
  BY <1>1, <1>2, <1>3, <1>4, Zenon

\* One sequence for each of some names: the queues of the priorities, the packets
\* of each type that were handled.  Nothing is in two places.
Bands(q) == UNION {Elements(q[r]) : r \in DOMAIN q}
BandsDistinct(q) ==
  /\ \A r \in DOMAIN q : Distinct(q[r])
  /\ \A r, s \in DOMAIN q : r # s => Elements(q[r]) \intersect Elements(q[s]) = {}

\* A new element in the sequence named r; its head leaves.
BandAppend(q, r, x) == [q EXCEPT ![r] = Append(@, x)]
BandTail(q, r) == [q EXCEPT ![r] = Tail(@)]

\* A new element at the tail of one.
LEMMA BandPut ==
  ASSUME NEW S, NEW P, NEW q \in [P -> Seq(S)], BandsDistinct(q),
         NEW r \in P, NEW x \in S, x \notin Bands(q)
  PROVE  /\ BandAppend(q, r, x) \in [P -> Seq(S)] /\ BandsDistinct(BandAppend(q, r, x))
         /\ Bands(BandAppend(q, r, x)) = Bands(q) \union {x}
         /\ \A s \in P \ {r} : BandAppend(q, r, x)[s] = q[s]
         /\ BandAppend(q, r, x)[r] = Append(q[r], x)
<1> DEFINE q2 == BandAppend(q, r, x)
<1>0. q2 = [q EXCEPT ![r] = Append(@, x)]
  BY DEF BandAppend
<1> HIDE DEF q2
<1>1. x \notin Elements(q[r]) /\ q[r] \in Seq(S) /\ Distinct(q[r]) /\ q2[r] = Append(q[r], x)
  BY <1>0 DEF Bands, BandsDistinct
<1>2. q2[r] \in Seq(S) /\ Distinct(q2[r]) /\ Elements(q2[r]) = Elements(q[r]) \union {x}
  BY <1>1, AppendDistinct
<1>3. \A s \in P \ {r} : q2[s] = q[s]
  BY <1>0
<1>4. q2 \in [P -> Seq(S)]
  BY <1>0, <1>2
<1>5. Bands(q2) = Bands(q) \union {x}
  <2>1. DOMAIN q = P /\ DOMAIN q2 = P
    BY <1>0
  <2> QED
    <3>1. Bands(q) = UNION {Elements(q[s]) : s \in P} /\ Bands(q2) = UNION {Elements(q2[s]) : s \in P}
      BY <2>1 DEF Bands
    <3>2. \A y : y \in Bands(q) <=> \E s \in P : y \in Elements(q[s])
      BY <3>1
    <3>3. \A y : y \in Bands(q2) <=> \E s \in P : y \in Elements(q2[s])
      BY <3>1
    <3> QED
      BY <1>2, <1>3, <3>2, <3>3
<1>6. BandsDistinct(q2)
  <2>1. \A s \in P : x \notin Elements(q[s])
    BY DEF Bands
  <2>2. DOMAIN q = P /\ DOMAIN q2 = P
    BY <1>0
  <2>3. \A s \in P : Distinct(q2[s])
    BY <1>2, <1>3, <2>2 DEF BandsDistinct
  <2>4. \A s, u \in P : s # u => Elements(q2[s]) \intersect Elements(q2[u]) = {}
    <3> SUFFICES ASSUME NEW s \in P, NEW u \in P, s # u
                 PROVE  Elements(q2[s]) \intersect Elements(q2[u]) = {}
      OBVIOUS
    <3>1. Elements(q[s]) \intersect Elements(q[u]) = {} /\ x \notin Elements(q[s]) /\ x \notin Elements(q[u])
      BY <2>1, <2>2 DEF BandsDistinct
    <3>2. CASE s = r
      <4>1. q2[u] = q[u] /\ Elements(q2[s]) = Elements(q[s]) \union {x}
        BY <1>2, <1>3, <3>2
      <4> QED
        BY <3>1, <4>1
    <3>3. CASE u = r
      <4>1. q2[s] = q[s] /\ Elements(q2[u]) = Elements(q[u]) \union {x}
        BY <1>2, <1>3, <3>3
      <4> QED
        BY <3>1, <4>1
    <3>4. CASE s # r /\ u # r
      <4>1. q2[s] = q[s] /\ q2[u] = q[u]
        BY <1>3, <3>4
      <4> QED
        BY <3>1, <4>1
    <3> QED
      BY <3>2, <3>3, <3>4
  <2> QED
    BY <2>2, <2>3, <2>4 DEF BandsDistinct
<1> QED
  BY <1>1, <1>2, <1>3, <1>4, <1>5, <1>6 DEF q2

\* The head of one leaves.
LEMMA BandTake ==
  ASSUME NEW S, NEW P, NEW q \in [P -> Seq(S)], BandsDistinct(q),
         NEW r \in P, q[r] # <<>>
  PROVE  /\ BandTail(q, r) \in [P -> Seq(S)] /\ BandsDistinct(BandTail(q, r))
         /\ Bands(BandTail(q, r)) = Bands(q) \ {Head(q[r])}
         /\ Head(q[r]) \in S /\ Head(q[r]) \in Bands(q) /\ Head(q[r]) \in Elements(q[r])
         /\ \A s \in P \ {r} : BandTail(q, r)[s] = q[s]
         /\ BandTail(q, r)[r] = Tail(q[r])
<1> DEFINE q2 == BandTail(q, r)
<1>0. q2 = [q EXCEPT ![r] = Tail(@)]
  BY DEF BandTail
<1> HIDE DEF q2
<1>1. q[r] \in Seq(S) /\ Distinct(q[r]) /\ q2[r] = Tail(q[r]) /\ Head(q[r]) \in S
  BY <1>0 DEF BandsDistinct
<1>2. /\ Head(q[r]) \in Elements(q[r]) /\ q2[r] \in Seq(S)
      /\ Distinct(q2[r]) /\ Elements(q2[r]) = Elements(q[r]) \ {Head(q[r])}
  BY <1>1, TailDistinct
<1>3. \A s \in P \ {r} : q2[s] = q[s]
  BY <1>0
<1>4. q2 \in [P -> Seq(S)]
  BY <1>0, <1>2
<1>5. \A s \in P \ {r} : Head(q[r]) \notin Elements(q[s])
  BY <1>2 DEF BandsDistinct
<1>6. Bands(q2) = Bands(q) \ {Head(q[r])} /\ Head(q[r]) \in Bands(q)
  BY <1>2, <1>3, <1>4, <1>5 DEF Bands
<1>7. BandsDistinct(q2)
  BY <1>2, <1>3, <1>4 DEF BandsDistinct
<1> QED
  BY <1>1, <1>2, <1>3, <1>4, <1>6, <1>7 DEF q2

\* What is ordered in a sequence stays so when its head leaves, and the head is
\* before the rest.
LEMMA TailPlaces ==
  ASSUME NEW S, NEW s \in Seq(S), s # <<>>
  PROVE  /\ DOMAIN s = 1 .. Len(s) /\ Len(s) \in Nat \ {0} /\ Head(s) = s[1]
         /\ DOMAIN Tail(s) = 1 .. Len(s) - 1
         /\ \A i \in DOMAIN Tail(s) : i + 1 \in DOMAIN s /\ Tail(s)[i] = s[i + 1]
OBVIOUS

\* The places of a sequence that got a new last element.
LEMMA AppendPlaces ==
  ASSUME NEW S, NEW s \in Seq(S), NEW x
  PROVE  /\ DOMAIN s = 1 .. Len(s) /\ Len(s) \in Nat
         /\ DOMAIN Append(s, x) = 1 .. Len(s) + 1
         /\ \A i \in 1 .. Len(s) : Append(s, x)[i] = s[i]
         /\ Append(s, x)[Len(s) + 1] = x
OBVIOUS
-----------------------------------------------------------------------------

\* The types; a thread that is not idle has a packet.
TypeInv ==
  /\ heap \in [Bufs -> Pkt \union {NoPkt}]
  /\ {data, copy, pkt_msg, rcp_msg} \subseteq Bufs \union {Null}
  /\ pkt_pc \in {"idle", "dispatch", "rcp_put", "free"} /\ (pkt_pc # "idle" => pkt_msg \in Bufs)
  /\ rcp_pc \in {"idle", "handle", "free"} /\ (rcp_pc # "idle" => rcp_msg \in Bufs)
  /\ copy # Null <=> pkt_pc = "rcp_put"
  /\ pkt_queue \in [PQ!Pri -> Seq(Bufs)] /\ pkt_floor \in 0 .. 8
  /\ rcp_queue \in [RQ!Pri -> Seq(Bufs)] /\ rcp_floor \in 0 .. 3
  /\ accepted \in 0 .. MaxPkts /\ handled \in [Types -> Seq(1 .. MaxPkts)]

\* The buffers in each place.
DataHand == {data} \ {Null}
CopyHand == {copy} \ {Null}
PktHand == IF pkt_pc = "idle" THEN {} ELSE {pkt_msg}
RcpHand == IF rcp_pc = "idle" THEN {} ELSE {rcp_msg}

\* Every buffer that is allocated is in one place, and every place has such buffers.
OwnInv ==
  /\ BandsDistinct(pkt_queue) /\ BandsDistinct(rcp_queue)
  /\ {b \in Bufs : heap[b] # NoPkt}
       = DataHand \union CopyHand \union PktHand \union RcpHand \union Bands(pkt_queue) \union Bands(rcp_queue)
  /\ DataHand \intersect (CopyHand \union PktHand \union RcpHand \union Bands(pkt_queue)
         \union Bands(rcp_queue)) = {}
  /\ CopyHand \intersect (PktHand \union RcpHand \union Bands(pkt_queue) \union Bands(rcp_queue)) = {}
  /\ PktHand \intersect (RcpHand \union Bands(pkt_queue) \union Bands(rcp_queue)) = {}
  /\ RcpHand \intersect (Bands(pkt_queue) \union Bands(rcp_queue)) = {}
  /\ Bands(pkt_queue) \intersect Bands(rcp_queue) = {}

\* The packets that the packet thread and the RCP thread have yet to pass on or handle.
Dispatching == IF pkt_pc = "dispatch" THEN {pkt_msg} ELSE {}
Handling == IF rcp_pc = "handle" THEN {rcp_msg} ELSE {}

\* The buffers whose packet is still to be handled, and their packets.
Bearers ==
  DataHand \union CopyHand \union Bands(pkt_queue) \union Bands(rcp_queue) \union Dispatching \union Handling
Borne == {heap[b].no : b \in Bearers}

\* Every packet is borne by one buffer, was handled once or is dropped.
NumInv ==
  /\ \A b, c \in Bearers : heap[b].no = heap[c].no => b = c
  /\ BandsDistinct(handled)
  /\ 1 .. accepted = Borne \union Bands(handled) \union dropped
  /\ Borne \intersect Bands(handled) = {} /\ Borne \intersect dropped = {}
         /\ Bands(handled) \intersect dropped = {}

\* A packet that did not go round.
Fresh(b) == heap[b].no \notin looped

\* Packets of a type that wait in the packet queue and did not go round.
Queued(type) == {b \in Bands(pkt_queue) : heap[b].type = type /\ Fresh(b)}

\* Packets on their way from the packet thread, and those the RCP thread has or will have.
Coming == CopyHand \union Dispatching
InRcp == Elements(rcp_queue[0]) \union Handling

\* The packet of b is younger than those of a type that were handled.
AfterHandled(b, type) == \A n \in Elements(handled[type]) : n < heap[b].no

\* Where which packets are.
PlaceInv ==
  /\ data # Null => heap[data].no = accepted /\ Fresh(data)
  /\ looped \subseteq 1 .. accepted
  /\ \A b \in Bands(rcp_queue) \union CopyHand \union RcpHand : heap[b].type = "rcp"
  /\ rcp_queue[1] = <<>> /\ rcp_queue[2] = <<>>

\* A packet that waits and did not go round has all older ones of its type ahead of it.
AheadInv ==
  \A type \in Types : \A b \in Queued(type) :
    /\ b \in Elements(pkt_queue[Pri(type)])
    /\ AfterHandled(b, type)
    /\ \A c \in Bearers \ (DataHand \union Queued(type)) : heap[c].type = type => heap[c].no < heap[b].no

\* Those that wait at the same priority wait in the order they arrived.
LineInv ==
  \A type \in Types : \A i, j \in DOMAIN pkt_queue[Pri(type)] :
    i < j /\ {pkt_queue[Pri(type)][i], pkt_queue[Pri(type)][j]} \subseteq Queued(type)
      => heap[pkt_queue[Pri(type)][i]].no < heap[pkt_queue[Pri(type)][j]].no

\* A packet that is about to be handled or to join the RCP queue comes after the rest.
ComingInv ==
  \A b \in Coming : Fresh(b) =>
    /\ AfterHandled(b, heap[b].type)
    /\ heap[b].type = "rcp" => \A c \in InRcp : heap[c].no < heap[b].no

\* The RCP queue and the hand of its thread are in order.
RcpInv ==
  /\ \A i, j \in DOMAIN rcp_queue[0] :
       i < j /\ Fresh(rcp_queue[0][j]) => heap[rcp_queue[0][i]].no < heap[rcp_queue[0][j]].no
  /\ \A b \in InRcp : Fresh(b) => AfterHandled(b, "rcp")
  /\ \A b \in Elements(rcp_queue[0]), c \in Handling : Fresh(b) => heap[c].no < heap[b].no

\* Who may be ahead of whom, in all places.
OrderInv == PlaceInv /\ AheadInv /\ LineInv /\ ComingInv /\ RcpInv /\ InOrder

\* The inductive invariant.
Inv == TypeInv /\ OwnInv /\ NumInv /\ OrderInv

USE DEF regVars, pktVars, rcpVars, history

-----------------------------------------------------------------------------
\* The packets still to be handled are in places.
LEMMA PlacesHave ==
  ASSUME TypeInv, OwnInv
  PROVE  /\ Null \notin Bufs
         /\ Dispatching \subseteq PktHand /\ Handling \subseteq RcpHand
         /\ \A b \in Bearers \union PktHand \union RcpHand : b \in Bufs /\ heap[b] # NoPkt /\ heap[b] \in Pkt
         /\ \A b \in Bufs : heap[b] = NoPkt => b \notin Bearers \union PktHand \union RcpHand
<1>1. Null \notin Bufs
  BY PktAssumption DEF PktAssumption
<1>2. Dispatching \subseteq PktHand /\ Handling \subseteq RcpHand
  BY DEF Dispatching, Handling, PktHand, RcpHand
<1>3. \A b \in Bufs : heap[b] # NoPkt <=> b \in {c \in Bufs : heap[c] # NoPkt}
  OBVIOUS
<1>4. \A b \in Bearers \union PktHand \union RcpHand : b \in Bufs /\ heap[b] # NoPkt
  BY <1>2 DEF Bearers, OwnInv
<1> QED
  BY <1>1, <1>2, <1>4 DEF TypeInv

\* What is at a place of a queue is in that queue.
LEMMA PlacesInBands ==
  ASSUME TypeInv
  PROVE  /\ \A r \in PQ!Pri : \A k \in DOMAIN pkt_queue[r] :
              pkt_queue[r][k] \in Elements(pkt_queue[r]) /\ pkt_queue[r][k] \in Bands(pkt_queue)
         /\ \A r \in RQ!Pri : \A k \in DOMAIN rcp_queue[r] :
              rcp_queue[r][k] \in Elements(rcp_queue[r]) /\ rcp_queue[r][k] \in Bands(rcp_queue)
         /\ 0 \in RQ!Pri /\ 0 \in PQ!Pri /\ \A type \in Types : Pri(type) \in PQ!Pri
<1>1. DOMAIN pkt_queue = PQ!Pri /\ DOMAIN rcp_queue = RQ!Pri
  BY DEF TypeInv
<1>2. \A r \in PQ!Pri : Elements(pkt_queue[r]) \subseteq Bands(pkt_queue)
  BY <1>1 DEF Bands
<1>3. \A r \in RQ!Pri : Elements(rcp_queue[r]) \subseteq Bands(rcp_queue)
  BY <1>1 DEF Bands
<1>4. \A r \in PQ!Pri : \A k \in DOMAIN pkt_queue[r] : pkt_queue[r][k] \in Elements(pkt_queue[r])
  BY DEF Elements
<1>5. \A r \in RQ!Pri : \A k \in DOMAIN rcp_queue[r] : rcp_queue[r][k] \in Elements(rcp_queue[r])
  BY DEF Elements
<1>6. 0 \in RQ!Pri /\ 0 \in PQ!Pri
  BY DEF RQ!Pri, PQ!Pri
<1>7. \A type \in Types : Pri(type) \in PQ!Pri
  BY DEF Pri, Types, PQ!Pri
<1> QED
  BY <1>2, <1>3, <1>4, <1>5, <1>6, <1>7

\* Every packet still to be handled has a number, and no other buffer has it.
LEMMA BearerNumbers ==
  ASSUME TypeInv, OwnInv, NumInv, NEW b \in Bearers
  PROVE  /\ heap[b].no \in 1 .. accepted /\ heap[b].type \in Types
         /\ heap[b].no \notin Bands(handled) /\ heap[b].no \notin dropped
         /\ \A c \in Bearers \ {b} : heap[c].no # heap[b].no
<1>1. heap[b] \in Pkt
  BY PlacesHave
<1>2. heap[b].no \in Borne
  BY DEF Borne
<1> QED
  BY <1>1, <1>2 DEF NumInv, Pkt

\* Packets move about, and none is handled or dropped.
LEMMA NumSame ==
  ASSUME NumInv, Bearers' = Bearers, \A b \in Bearers : heap'[b] = heap[b], UNCHANGED <<accepted, handled, dropped>>
  PROVE  NumInv'
<1>1. Borne' = Borne
  BY DEF Borne
<1> QED
  BY <1>1 DEF NumInv

\* A packet is dropped.
LEMMA NumDrop ==
  ASSUME TypeInv, OwnInv, NumInv, NEW b \in Bearers, Bearers' = Bearers \ {b},
         \A c \in Bearers \ {b} : heap'[c] = heap[c],
         dropped' = dropped \union {heap[b].no}, UNCHANGED <<accepted, handled>>
  PROVE  NumInv'
<1>1. Borne' = Borne \ {heap[b].no} /\ heap[b].no \in Borne
  BY BearerNumbers DEF Borne
<1> QED
  BY <1>1 DEF NumInv

\* A packet is handled.
LEMMA NumHandle ==
  ASSUME TypeInv, OwnInv, NumInv, NEW b \in Bearers, Bearers' = Bearers \ {b},
         \A c \in Bearers \ {b} : heap'[c] = heap[c], NEW type \in Types,
         handled' = [handled EXCEPT ![type] = Append(@, heap[b].no)], UNCHANGED <<accepted, dropped>>
  PROVE  /\ NumInv' /\ handled' \in [Types -> Seq(1 .. MaxPkts)]
         /\ Elements(handled'[type]) = Elements(handled[type]) \union {heap[b].no}
         /\ \A t \in Types \ {type} : handled'[t] = handled[t]
         /\ handled'[type] = Append(handled[type], heap[b].no)
<1>1. Borne' = Borne \ {heap[b].no} /\ heap[b].no \in Borne
  BY BearerNumbers DEF Borne
<1> DEFINE no == heap[b].no
           Numbers == 1 .. MaxPkts
<1>2. handled \in [Types -> Seq(Numbers)] /\ BandsDistinct(handled) /\ no \in Numbers
          /\ no \notin Bands(handled)
  <2>1. heap[b] \in Pkt
    BY PlacesHave
  <2> QED
    BY <2>1, BearerNumbers DEF TypeInv, NumInv, Pkt
<1>3. handled' = BandAppend(handled, type, no)
  BY DEF BandAppend
<1>4. Borne' = Borne \ {no} /\ no \in Borne
  BY <1>1
<1> HIDE DEF no, Numbers
<1> DEFINE now == BandAppend(handled, type, no)
<1>5. /\ now \in [Types -> Seq(Numbers)] /\ BandsDistinct(now) /\ Bands(now) = Bands(handled) \union {no}
      /\ Elements(Append(handled[type], no)) = Elements(handled[type]) \union {no}
      /\ \A t \in Types \ {type} : now[t] = handled[t]
      /\ now[type] = Append(handled[type], no)
  <2>1. now \in [Types -> Seq(Numbers)] /\ BandsDistinct(now) /\ Bands(now) = Bands(handled) \union {no}
        /\ now[type] = Append(handled[type], no) /\ \A t \in Types \ {type} : now[t] = handled[t]
    BY <1>2, BandPut
  <2>2. Elements(Append(handled[type], no)) = Elements(handled[type]) \union {no}
    <3>1. handled[type] \in Seq(Numbers) /\ Distinct(handled[type]) /\ no \notin Elements(handled[type])
      BY <1>2 DEF BandsDistinct, Bands
    <3> QED
      BY <1>2, <3>1, AppendDistinct
  <2> QED
    BY <2>1, <2>2
<1> HIDE DEF now
<1>6. handled' = now
  BY <1>3 DEF now
<1>7. NumInv'
  <2>1. /\ \A c, d \in Bearers : heap[c].no = heap[d].no => c = d
        /\ 1 .. accepted = Borne \union Bands(handled) \union dropped
        /\ Borne \intersect Bands(handled) = {} /\ Borne \intersect dropped = {}
        /\ Bands(handled) \intersect dropped = {}
    BY DEF NumInv
  <2>2. \A c, d \in Bearers' : heap'[c].no = heap'[d].no => c = d
    BY <2>1
  <2>3. 1 .. accepted = Borne' \union Bands(now) \union dropped
    BY <1>4, <1>5, <2>1, Zenon
  <2>4. /\ Borne' \intersect Bands(now) = {} /\ Borne' \intersect dropped = {}
        /\ Bands(now) \intersect dropped = {}
    BY <1>4, <1>5, <2>1, Zenon
  <2> QED
    BY <1>5, <1>6, <2>2, <2>3, <2>4 DEF NumInv
<1> QED
  BY <1>5, <1>6, <1>7 DEF no, Numbers

\* Nothing moves in a queue, and no packet comes nearer to a handler.
LEMMA OrderSame ==
  ASSUME TypeInv, OwnInv, OrderInv, UNCHANGED <<pkt_queue, rcp_queue, handled, looped>>,
         \A b \in Bands(pkt_queue) \union Bands(rcp_queue) \union CopyHand' \union RcpHand'
             \union Dispatching' : heap'[b] = heap[b],
         CopyHand' \subseteq CopyHand, RcpHand' \subseteq RcpHand,
         Dispatching' \subseteq Dispatching, Handling' \subseteq Handling,
         data' # Null => heap'[data'].no = accepted' /\ heap'[data'].no \notin looped,
         1 .. accepted \subseteq 1 .. accepted'
  PROVE  OrderInv'
<1>0. Handling' \subseteq RcpHand' /\ Elements(rcp_queue[0]) \subseteq Bands(rcp_queue)
  <2>1. 0 \in RQ!Pri /\ DOMAIN rcp_queue = RQ!Pri
    <3>1. DOMAIN rcp_queue = RQ!Pri
      BY DEF TypeInv
    <3>2. 0 \in RQ!Pri
      BY DEF RQ!Pri
    <3> QED
      BY <3>1, <3>2
  <2>2. 0 \in DOMAIN rcp_queue
    BY <2>1
  <2> QED
    BY <2>2 DEF Handling, RcpHand, Bands
<1>1. \A type : Queued(type)' = Queued(type)
  BY DEF Queued, Fresh
<1>2. PlaceInv'
  BY DEF OrderInv, PlaceInv, Fresh
<1>3. AheadInv'
  <2>1. \A type : Bearers' \ (DataHand \union Queued(type))' \subseteq Bearers \ (DataHand \union Queued(type))
    <3>1. /\ DataHand \intersect (CopyHand \union PktHand \union RcpHand \union Bands(pkt_queue)
                 \union Bands(rcp_queue)) = {}
          /\ Dispatching \subseteq PktHand /\ Handling \subseteq RcpHand
      BY PlacesHave DEF OwnInv
    <3> QED
      BY <1>1, <3>1 DEF Bearers
  <2>2. \A type : Queued(type) \subseteq Bands(pkt_queue)
    BY DEF Queued
  <2>3. \A c \in Bearers' \ DataHand' : heap'[c] = heap[c]
    BY <1>0 DEF Bearers
  <2>4. \A type \in Types : \A b \in Queued(type) :
          /\ b \in Elements(pkt_queue[Pri(type)])
          /\ AfterHandled(b, type)
          /\ \A c \in Bearers \ (DataHand \union Queued(type)) : heap[c].type = type => heap[c].no < heap[b].no
    BY DEF OrderInv, AheadInv
  <2>5. \A type \in Types : \A b \in Queued(type) : AfterHandled(b, type)'
    BY <2>2, <2>4 DEF AfterHandled
  <2>6. \A type \in Types : \A b \in Queued(type) :
          \A c \in Bearers' \ (DataHand \union Queued(type))' : heap'[c].type = type
              => heap'[c].no < heap'[b].no
    BY <1>1, <2>1, <2>2, <2>3, <2>4
  <2> QED
    BY <1>1, <2>4, <2>5, <2>6 DEF AheadInv, Pri
<1>4. LineInv'
  <2>1. \A type \in Types : \A b \in Queued(type) : heap'[b] = heap[b]
    BY DEF Queued
  <2>2. SUFFICES ASSUME NEW type \in Types, NEW i \in DOMAIN pkt_queue[Pri(type)],
                        NEW j \in DOMAIN pkt_queue[Pri(type)],
                        i < j, pkt_queue[Pri(type)][i] \in Queued(type), pkt_queue[Pri(type)][j] \in Queued(type)
                 PROVE  heap'[pkt_queue[Pri(type)][i]].no < heap'[pkt_queue[Pri(type)][j]].no
    <3>1. \A type \in Types : Pri(type)' = Pri(type) /\ Queued(type)' = Queued(type)
      BY <1>1 DEF Pri
    <3> QED
      BY <3>1 DEF LineInv
  <2>3. heap[pkt_queue[Pri(type)][i]].no < heap[pkt_queue[Pri(type)][j]].no
    BY <2>2 DEF OrderInv, LineInv
  <2> QED
    BY <2>1, <2>2, <2>3
<1>5. Coming' \subseteq Coming /\ InRcp' \subseteq InRcp /\ \A b \in Coming' \union InRcp' : heap'[b] = heap[b]
  BY <1>0 DEF Coming, InRcp
<1>6. ComingInv'
  BY <1>5 DEF OrderInv, ComingInv, AfterHandled, Fresh
<1>7. RcpInv'
  <2>1. \A i \in DOMAIN rcp_queue[0] : rcp_queue[0][i] \in Elements(rcp_queue[0])
    BY DEF Elements
  <2>2. \A b \in InRcp' : Fresh(b)' => AfterHandled(b, "rcp")'
    BY <1>5 DEF OrderInv, RcpInv, AfterHandled, Fresh
  <2>3. \A b \in Elements(rcp_queue[0]), c \in Handling' : Fresh(b)' => heap'[c].no < heap'[b].no
    BY <1>0 DEF OrderInv, RcpInv, Fresh
  <2>4. \A i, j \in DOMAIN rcp_queue[0] :
          i < j /\ Fresh(rcp_queue[0][j])' => heap'[rcp_queue[0][i]].no < heap'[rcp_queue[0][j]].no
    BY <1>0, <2>1 DEF OrderInv, RcpInv, Fresh
  <2> QED
    BY <2>2, <2>3, <2>4 DEF RcpInv
<1>8. InOrder'
  BY DEF OrderInv, InOrder
<1> QED
  BY <1>2, <1>3, <1>4, <1>6, <1>7, <1>8 DEF OrderInv

-----------------------------------------------------------------------------
\* A packet joins the packet queue.
LEMMA PktQueuePut ==
  ASSUME TypeInv, OwnInv, NEW r \in PQ!Pri, NEW b \in Bufs, b \notin Bands(pkt_queue),
         pkt_queue' = [pkt_queue EXCEPT ![r] = Append(@, b)]
  PROVE  /\ pkt_queue' \in [PQ!Pri -> Seq(Bufs)] /\ BandsDistinct(pkt_queue)'
         /\ Bands(pkt_queue)' = Bands(pkt_queue) \union {b}
         /\ pkt_queue'[r] = Append(pkt_queue[r], b) /\ \A s \in PQ!Pri : s # r => pkt_queue'[s] = pkt_queue[s]
         /\ Elements(pkt_queue'[r]) = Elements(pkt_queue[r]) \union {b}
<1>1. pkt_queue \in [PQ!Pri -> Seq(Bufs)] /\ BandsDistinct(pkt_queue)
  BY DEF TypeInv, OwnInv
<1> DEFINE now == BandAppend(pkt_queue, r, b)
<1>2. pkt_queue' = now
  BY DEF BandAppend
<1>3. /\ now \in [PQ!Pri -> Seq(Bufs)] /\ BandsDistinct(now) /\ Bands(now) = Bands(pkt_queue) \union {b}
      /\ now[r] = Append(pkt_queue[r], b) /\ \A s \in PQ!Pri \ {r} : now[s] = pkt_queue[s]
  BY <1>1, BandPut
<1> HIDE DEF now
<1>4. pkt_queue[r] \in Seq(Bufs) /\ Distinct(pkt_queue[r]) /\ b \notin Elements(pkt_queue[r])
  BY <1>1 DEF BandsDistinct, Bands
<1>5. Elements(Append(pkt_queue[r], b)) = Elements(pkt_queue[r]) \union {b}
  BY <1>4, AppendDistinct
<1> QED
  BY <1>2, <1>3, <1>5

\* The packet thread takes a packet from the packet queue.
LEMMA PktQueueTake ==
  ASSUME TypeInv, OwnInv, NEW r \in PQ!Pri, pkt_queue[r] # <<>>,
         pkt_queue' = [pkt_queue EXCEPT ![r] = Tail(@)]
  PROVE  /\ pkt_queue' \in [PQ!Pri -> Seq(Bufs)] /\ BandsDistinct(pkt_queue)'
         /\ Bands(pkt_queue)' = Bands(pkt_queue) \ {Head(pkt_queue[r])}
         /\ pkt_queue'[r] = Tail(pkt_queue[r]) /\ \A s \in PQ!Pri : s # r => pkt_queue'[s] = pkt_queue[s]
         /\ Head(pkt_queue[r]) \in Bufs /\ Head(pkt_queue[r]) \in Bands(pkt_queue)
         /\ Elements(pkt_queue'[r]) = Elements(pkt_queue[r]) \ {Head(pkt_queue[r])}
         /\ \A s \in PQ!Pri : s # r => Head(pkt_queue[r]) \notin Elements(pkt_queue[s])
<1>1. pkt_queue \in [PQ!Pri -> Seq(Bufs)] /\ BandsDistinct(pkt_queue)
  BY DEF TypeInv, OwnInv
<1> DEFINE now == BandTail(pkt_queue, r)
<1>2. pkt_queue' = now
  BY DEF BandTail
<1>3. /\ now \in [PQ!Pri -> Seq(Bufs)] /\ BandsDistinct(now)
             /\ Bands(now) = Bands(pkt_queue) \ {Head(pkt_queue[r])}
      /\ now[r] = Tail(pkt_queue[r]) /\ \A s \in PQ!Pri \ {r} : now[s] = pkt_queue[s]
  <2>1. now \in [PQ!Pri -> Seq(Bufs)] /\ BandsDistinct(now)
            /\ Bands(now) = Bands(pkt_queue) \ {Head(pkt_queue[r])}
    BY <1>1, BandTake
  <2>2. now[r] = Tail(pkt_queue[r]) /\ \A s \in PQ!Pri \ {r} : now[s] = pkt_queue[s]
    BY <1>1 DEF BandTail
  <2> QED
    BY <2>1, <2>2
<1> HIDE DEF now
<1>4. pkt_queue[r] \in Seq(Bufs) /\ Distinct(pkt_queue[r])
  BY <1>1 DEF BandsDistinct, Bands
<1>5. /\ Elements(Tail(pkt_queue[r])) = Elements(pkt_queue[r]) \ {Head(pkt_queue[r])}
      /\ Head(pkt_queue[r]) \in Elements(pkt_queue[r])
  BY <1>4, TailDistinct
<1>6. /\ Head(pkt_queue[r]) \in Bufs /\ Head(pkt_queue[r]) \in Bands(pkt_queue)
      /\ \A s \in PQ!Pri : s # r => Head(pkt_queue[r]) \notin Elements(pkt_queue[s])
  BY <1>1, <1>4, <1>5 DEF BandsDistinct, Bands
<1> QED
  BY <1>2, <1>3, <1>5, <1>6

\* A packet joins the RCP queue.
LEMMA RcpQueuePut ==
  ASSUME TypeInv, OwnInv, NEW r \in RQ!Pri, NEW b \in Bufs, b \notin Bands(rcp_queue),
         rcp_queue' = [rcp_queue EXCEPT ![r] = Append(@, b)]
  PROVE  /\ rcp_queue' \in [RQ!Pri -> Seq(Bufs)] /\ BandsDistinct(rcp_queue)'
         /\ Bands(rcp_queue)' = Bands(rcp_queue) \union {b}
         /\ rcp_queue'[r] = Append(rcp_queue[r], b) /\ \A s \in RQ!Pri : s # r => rcp_queue'[s] = rcp_queue[s]
         /\ Elements(rcp_queue'[r]) = Elements(rcp_queue[r]) \union {b}
<1>1. rcp_queue \in [RQ!Pri -> Seq(Bufs)] /\ BandsDistinct(rcp_queue)
  BY DEF TypeInv, OwnInv
<1> DEFINE now == BandAppend(rcp_queue, r, b)
<1>2. rcp_queue' = now
  BY DEF BandAppend
<1>3. /\ now \in [RQ!Pri -> Seq(Bufs)] /\ BandsDistinct(now) /\ Bands(now) = Bands(rcp_queue) \union {b}
      /\ now[r] = Append(rcp_queue[r], b) /\ \A s \in RQ!Pri \ {r} : now[s] = rcp_queue[s]
  BY <1>1, BandPut
<1> HIDE DEF now
<1>4. rcp_queue[r] \in Seq(Bufs) /\ Distinct(rcp_queue[r]) /\ b \notin Elements(rcp_queue[r])
  BY <1>1 DEF BandsDistinct, Bands
<1>5. Elements(Append(rcp_queue[r], b)) = Elements(rcp_queue[r]) \union {b}
  BY <1>4, AppendDistinct
<1> QED
  BY <1>2, <1>3, <1>5

\* The RCP thread takes a packet from the RCP queue.
LEMMA RcpQueueTake ==
  ASSUME TypeInv, OwnInv, NEW r \in RQ!Pri, rcp_queue[r] # <<>>,
         rcp_queue' = [rcp_queue EXCEPT ![r] = Tail(@)]
  PROVE  /\ rcp_queue' \in [RQ!Pri -> Seq(Bufs)] /\ BandsDistinct(rcp_queue)'
         /\ Bands(rcp_queue)' = Bands(rcp_queue) \ {Head(rcp_queue[r])}
         /\ rcp_queue'[r] = Tail(rcp_queue[r]) /\ \A s \in RQ!Pri : s # r => rcp_queue'[s] = rcp_queue[s]
         /\ Head(rcp_queue[r]) \in Bufs /\ Head(rcp_queue[r]) \in Bands(rcp_queue)
         /\ Elements(rcp_queue'[r]) = Elements(rcp_queue[r]) \ {Head(rcp_queue[r])}
         /\ \A s \in RQ!Pri : s # r => Head(rcp_queue[r]) \notin Elements(rcp_queue[s])
<1>1. rcp_queue \in [RQ!Pri -> Seq(Bufs)] /\ BandsDistinct(rcp_queue)
  BY DEF TypeInv, OwnInv
<1> DEFINE now == BandTail(rcp_queue, r)
<1>2. rcp_queue' = now
  BY DEF BandTail
<1>3. /\ now \in [RQ!Pri -> Seq(Bufs)] /\ BandsDistinct(now)
             /\ Bands(now) = Bands(rcp_queue) \ {Head(rcp_queue[r])}
      /\ now[r] = Tail(rcp_queue[r]) /\ \A s \in RQ!Pri \ {r} : now[s] = rcp_queue[s]
  <2>1. now \in [RQ!Pri -> Seq(Bufs)] /\ BandsDistinct(now)
            /\ Bands(now) = Bands(rcp_queue) \ {Head(rcp_queue[r])}
    BY <1>1, BandTake
  <2>2. now[r] = Tail(rcp_queue[r]) /\ \A s \in RQ!Pri \ {r} : now[s] = rcp_queue[s]
    BY <1>1 DEF BandTail
  <2> QED
    BY <2>1, <2>2
<1> HIDE DEF now
<1>4. rcp_queue[r] \in Seq(Bufs) /\ Distinct(rcp_queue[r])
  BY <1>1 DEF BandsDistinct, Bands
<1>5. /\ Elements(Tail(rcp_queue[r])) = Elements(rcp_queue[r]) \ {Head(rcp_queue[r])}
      /\ Head(rcp_queue[r]) \in Elements(rcp_queue[r])
  BY <1>4, TailDistinct
<1>6. /\ Head(rcp_queue[r]) \in Bufs /\ Head(rcp_queue[r]) \in Bands(rcp_queue)
      /\ \A s \in RQ!Pri : s # r => Head(rcp_queue[r]) \notin Elements(rcp_queue[s])
  BY <1>1, <1>4, <1>5 DEF BandsDistinct, Bands
<1> QED
  BY <1>2, <1>3, <1>5, <1>6

-----------------------------------------------------------------------------
\* Only what concerns no packet changes.
LEMMA QuietStep ==
  ASSUME Inv, UNCHANGED <<heap, data, pkt_queue, pkt_pc, copy, rcp_queue, rcp_pc, history>>,
         pkt_msg' \in Bufs \union {Null}, pkt_pc # "idle" => pkt_msg' = pkt_msg, pkt_floor' \in 0 .. 8,
         rcp_msg' \in Bufs \union {Null}, rcp_pc # "idle" => rcp_msg' = rcp_msg, rcp_floor' \in 0 .. 3
  PROVE  Inv'
<1>1. TypeInv'
  BY DEF Inv, TypeInv
<1>2. UNCHANGED <<DataHand, CopyHand, PktHand, RcpHand, Dispatching, Handling>>
  BY DEF DataHand, CopyHand, PktHand, RcpHand, Dispatching, Handling
<1>3. UNCHANGED Bearers
  BY <1>2 DEF Bearers
<1>4. OwnInv'
  BY <1>2 DEF Inv, OwnInv
<1>5. NumInv'
  BY <1>3, NumSame DEF Inv
<1>6. OrderInv'
  BY <1>2, OrderSame DEF Inv, OrderInv, PlaceInv, Fresh
<1> QED
  BY <1>1, <1>4, <1>5, <1>6 DEF Inv

\* Parsers, handlers and the RCP queue are set up.
LEMMA SetUpStep == Inv /\ (Register \/ CreateRcpQueue \/ RegisterLpb) => Inv'
<1> SUFFICES ASSUME Inv, Register \/ CreateRcpQueue \/ RegisterLpb PROVE Inv'
  OBVIOUS
<1>1. UNCHANGED <<heap, data, pktVars, pkt_pc, copy, rcpVars, rcp_pc, history>>
  BY DEF Register, CreateRcpQueue, RegisterLpb
<1> QED
  BY <1>1, QuietStep DEF Inv, TypeInv

\* gwlib_sendPktToQueue copies a packet.
LEMMA CopyStep ==
  ASSUME Inv, NEW type \in Types, NEW b \in Bufs, Copy(type, b)
  PROVE  Inv'
<1> DEFINE pkt == [no |-> accepted + 1, type |-> type]
<1>1. /\ accepted < MaxPkts /\ data = Null /\ heap[b] = NoPkt /\ data' = b /\ accepted' = accepted + 1
      /\ heap' = [heap EXCEPT ![b] = pkt]
      /\ UNCHANGED <<pktVars, pkt_pc, copy, rcpVars, rcp_pc, handled, dropped, looped>>
  BY DEF Copy, Alloc
<1>2. /\ b # Null /\ b \notin Bearers \union PktHand \union RcpHand
      /\ Dispatching \subseteq PktHand /\ Handling \subseteq RcpHand
  BY <1>1, PlacesHave DEF Inv
<1>3. accepted \in Nat /\ accepted + 1 \in 1 .. MaxPkts /\ accepted + 1 \in 0 .. MaxPkts
  <2>1. MaxPkts \in Nat /\ accepted \in 0 .. MaxPkts
    BY PktAssumption DEF Inv, TypeInv, PktAssumption
  <2> QED
    BY <1>1, <2>1
<1>4. pkt \in Pkt /\ pkt # NoPkt
  BY <1>3 DEF Pkt, NoPkt
<1>5. /\ heap' \in [Bufs -> Pkt \union {NoPkt}] /\ heap'[b] = pkt
      /\ \A c \in Bufs \ {b} : heap'[c] = heap[c]
  BY <1>1, <1>4 DEF Inv, TypeInv
<1>6. /\ DataHand = {} /\ DataHand' = {b} /\ UNCHANGED <<CopyHand, PktHand, RcpHand, Dispatching, Handling>>
  BY <1>1, <1>2 DEF DataHand, CopyHand, PktHand, RcpHand, Dispatching, Handling
<1>7. Bearers' = Bearers \union {b}
  BY <1>1, <1>6 DEF Bearers
<1>8. \A c \in Bearers \union PktHand \union RcpHand : c \in Bufs /\ heap'[c] = heap[c] /\ c # b
  BY <1>2, <1>5, PlacesHave DEF Inv
<1>9. TypeInv'
  BY <1>1, <1>3, <1>5 DEF Inv, TypeInv
<1>10. OwnInv'
  <2>1. {c \in Bufs : heap'[c] # NoPkt} = {c \in Bufs : heap[c] # NoPkt} \union {b}
    BY <1>4, <1>5
  <2> QED
    BY <1>1, <1>2, <1>6, <2>1 DEF Inv, OwnInv, Bearers
<1>11. NumInv'
  <2>1. Borne' = Borne \union {accepted + 1}
    BY <1>5, <1>7, <1>8 DEF Borne
  <2>2. 1 .. accepted' = 1 .. accepted \union {accepted + 1} /\ accepted + 1 \notin 1 .. accepted
    BY <1>1, <1>3
  <2>3. \A c \in Bearers : heap[c].no \in Borne
    BY DEF Borne
  <2>4. accepted + 1 \notin Borne \union Bands(handled) \union dropped
    BY <2>2 DEF Inv, NumInv
  <2>5. \A c, d \in Bearers' : heap'[c].no = heap'[d].no => c = d
    BY <1>5, <1>7, <1>8, <2>3, <2>4 DEF Inv, NumInv
  <2>6. 1 .. accepted' = Borne' \union Bands(handled) \union dropped
    BY <2>1, <2>2 DEF Inv, NumInv
  <2> QED
    BY <1>1, <2>1, <2>4, <2>5, <2>6 DEF Inv, NumInv
<1>12. OrderInv'
  <2>1. \A c \in Bands(pkt_queue) \union Bands(rcp_queue) \union CopyHand \union RcpHand
            \union Dispatching : heap'[c] = heap[c]
    BY <1>2, <1>8 DEF Bearers
  <2> QED
    <3>1. 1 .. accepted \subseteq 1 .. accepted' /\ heap'[data'].no = accepted'
              /\ accepted' \notin 1 .. accepted
      BY <1>1, <1>3, <1>5
    <3>2. heap'[data'].no \notin looped
      BY <3>1 DEF Inv, OrderInv, PlaceInv
    <3> QED
      BY <1>1, <1>6, <2>1, <3>1, <3>2, OrderSame DEF Inv
<1> QED
  BY <1>9, <1>10, <1>11, <1>12 DEF Inv

\* A buffer is freed.
LEMMA FreeDoes ==
  ASSUME TypeInv, NEW b \in Bufs, Free(b)
  PROVE  /\ heap' \in [Bufs -> Pkt \union {NoPkt}]
         /\ {c \in Bufs : heap'[c] # NoPkt} = {c \in Bufs : heap[c] # NoPkt} \ {b}
         /\ \A c \in Bufs : c # b => heap'[c] = heap[c]
<1>1. heap' = [heap EXCEPT ![b] = NoPkt] /\ heap \in [Bufs -> Pkt \union {NoPkt}]
  BY DEF Free, TypeInv
<1>2. /\ heap' \in [Bufs -> Pkt \union {NoPkt}] /\ heap'[b] = NoPkt
      /\ \A c \in Bufs : c # b => heap'[c] = heap[c]
  BY <1>1
<1> QED
  BY <1>2

\* The packet that gwlib_sendPktToQueue has copied is the last one.
LEMMA DataIsLast ==
  ASSUME Inv, data # Null
  PROVE  /\ data \in Bufs /\ data \in Bearers /\ heap[data].type \in Types /\ Fresh(data) /\ DataHand = {data}
         /\ data \notin CopyHand \union PktHand \union RcpHand \union Bands(pkt_queue) \union Bands(rcp_queue)
         /\ \A c \in Bearers : c # data => heap[c].no < heap[data].no
         /\ \A type \in Types : AfterHandled(data, type)
<1>1. DataHand = {data} /\ data \in Bearers /\ data \in Bufs
  BY DEF DataHand, Bearers, Inv, TypeInv
<1>2. data \notin CopyHand \union PktHand \union RcpHand \union Bands(pkt_queue) \union Bands(rcp_queue)
  BY <1>1 DEF Inv, OwnInv
<1>3. heap[data].no = accepted /\ Fresh(data) /\ accepted \in Nat
  <2>1. accepted \in 0 .. MaxPkts /\ MaxPkts \in Nat
    BY PktAssumption DEF PktAssumption, Inv, TypeInv
  <2>2. heap[data].no = accepted /\ Fresh(data)
    BY DEF Inv, OrderInv, PlaceInv
  <2> QED
    BY <2>1, <2>2
<1>4. \A c \in Bearers : c # data => heap[c].no < heap[data].no
  <2>1. \A c \in Bearers : heap[c].no \in 1 .. accepted /\ (c # data => heap[c].no # heap[data].no)
    BY <1>1, BearerNumbers DEF Inv
  <2> QED
    BY <1>3, <2>1
<1>5. \A type \in Types : AfterHandled(data, type)
  <2>1. heap[data].no \notin Bands(handled) /\ Bands(handled) \subseteq 1 .. accepted
    BY <1>1, BearerNumbers DEF Inv, NumInv
  <2>2. \A type \in Types : Elements(handled[type]) \subseteq Bands(handled)
    BY DEF Bands, Inv, TypeInv
  <2>3. \A n \in Bands(handled) : n < heap[data].no
    BY <1>3, <2>1
  <2> QED
    BY <2>2, <2>3 DEF AfterHandled
<1> QED
  BY <1>1, <1>2, <1>3, <1>4, <1>5, BearerNumbers DEF Inv

\* gwlib_sendPktToQueue queues the copy by the priority of its type.
LEMMA QueueStep == Inv /\ Queue => Inv'
<1> SUFFICES ASSUME Inv, Queue PROVE Inv'
  OBVIOUS
<1> DEFINE type == heap[data].type
           r == Pri(type)
<1>1. /\ data # Null /\ data' = Null /\ pkt_queue' = [pkt_queue EXCEPT ![r] = Append(@, data)]
      /\ UNCHANGED <<heap, copy, pkt_floor, pkt_msg, pkt_pc, rcpVars, rcp_pc, history>>
  BY DEF Queue, PQ!Put
<1>2. /\ data \in Bufs /\ data \in Bearers /\ type \in Types /\ Fresh(data) /\ DataHand = {data}
      /\ data \notin CopyHand \union PktHand \union RcpHand \union Bands(pkt_queue) \union Bands(rcp_queue)
      /\ \A c \in Bearers : c # data => heap[c].no < heap[data].no
      /\ \A t \in Types : AfterHandled(data, t)
  BY <1>1, DataIsLast
<1>3. r \in PQ!Pri /\ \A t \in Types : Pri(t) \in PQ!Pri /\ (Pri(t) = r => t = type)
  BY <1>2 DEF Pri, PQ!Pri, Types
<1>4. TypeInv /\ OwnInv /\ NumInv /\ OrderInv
  BY DEF Inv
<1> HIDE DEF type, r
<1>5. /\ pkt_queue' \in [PQ!Pri -> Seq(Bufs)] /\ BandsDistinct(pkt_queue)'
      /\ Bands(pkt_queue)' = Bands(pkt_queue) \union {data}
      /\ pkt_queue'[r] = Append(pkt_queue[r], data) /\ \A s \in PQ!Pri : s # r => pkt_queue'[s] = pkt_queue[s]
      /\ Elements(pkt_queue'[r]) = Elements(pkt_queue[r]) \union {data}
  BY <1>1, <1>2, <1>3, <1>4, PktQueuePut
<1>6. DataHand' = {} /\ UNCHANGED <<CopyHand, PktHand, RcpHand, Dispatching, Handling>>
  BY <1>1 DEF DataHand, CopyHand, PktHand, RcpHand, Dispatching, Handling
<1>7. Bearers' = Bearers
  BY <1>1, <1>2, <1>5, <1>6 DEF Bearers
<1>8. TypeInv'
  BY <1>1, <1>4, <1>5 DEF TypeInv
<1>9. OwnInv'
  BY <1>1, <1>2, <1>4, <1>5, <1>6 DEF OwnInv
<1>10. NumInv'
  BY <1>1, <1>4, <1>7, NumSame
<1>11. \A t \in Types : Queued(t)' = Queued(t) \union (IF t = type THEN {data} ELSE {})
  BY <1>1, <1>2, <1>5 DEF Queued, Fresh, type
<1>12. PlaceInv'
  BY <1>1, <1>4, <1>6 DEF OrderInv, PlaceInv
<1>13. AheadInv'
  <2> SUFFICES ASSUME NEW t \in Types, NEW b \in Queued(t)'
               PROVE  /\ b \in Elements(pkt_queue'[Pri(t)])
                      /\ AfterHandled(b, t)
                      /\ \A c \in Bearers \ Queued(t)' : heap[c].type = t => heap[c].no < heap[b].no
    BY <1>1, <1>6, <1>7 DEF AheadInv, AfterHandled, Pri
  <2>1. CASE b = data
    <3>1. b \in Elements(pkt_queue'[Pri(t)])
      BY <1>2, <1>5, <1>11, <2>1 DEF Queued, r
    <3> QED
      BY <1>2, <1>11, <2>1, <3>1
  <2>2. CASE b # data
    <3>1. b \in Queued(t)
      BY <1>11, <2>2
    <3>2. /\ b \in Elements(pkt_queue[Pri(t)]) /\ AfterHandled(b, t)
          /\ \A c \in Bearers \ (DataHand \union Queued(t)) : heap[c].type = t => heap[c].no < heap[b].no
      BY <1>4, <3>1 DEF OrderInv, AheadInv
    <3>3. b \in Elements(pkt_queue'[Pri(t)])
      BY <1>3, <1>5, <3>2
    <3>4. \A c \in Bearers \ Queued(t)' : heap[c].type = t => c \notin DataHand \union Queued(t)
      BY <1>2, <1>11 DEF type
    <3> QED
      BY <3>2, <3>3, <3>4
  <2> QED
    BY <2>1, <2>2
<1>14. LineInv'
  <2> SUFFICES ASSUME NEW t \in Types, NEW i \in DOMAIN pkt_queue'[Pri(t)],
                      NEW j \in DOMAIN pkt_queue'[Pri(t)], i < j,
                      pkt_queue'[Pri(t)][i] \in Queued(t)', pkt_queue'[Pri(t)][j] \in Queued(t)'
               PROVE  heap[pkt_queue'[Pri(t)][i]].no < heap[pkt_queue'[Pri(t)][j]].no
    BY <1>1 DEF LineInv, Pri
  <2>1. CASE Pri(t) # r
    <3>1. pkt_queue'[Pri(t)] = pkt_queue[Pri(t)] /\ Queued(t)' = Queued(t)
      BY <1>3, <1>5, <1>11, <2>1 DEF r
    <3> QED
      BY <1>4, <3>1 DEF OrderInv, LineInv
  <2>2. CASE Pri(t) = r
    <3>1. pkt_queue[r] \in Seq(Bufs) /\ pkt_queue'[r] = Append(pkt_queue[r], data)
      BY <1>3, <1>4, <1>5 DEF TypeInv
    <3>2. /\ DOMAIN pkt_queue[r] = 1 .. Len(pkt_queue[r]) /\ Len(pkt_queue[r]) \in Nat
          /\ DOMAIN pkt_queue'[r] = 1 .. Len(pkt_queue[r]) + 1
          /\ \A k \in 1 .. Len(pkt_queue[r]) : pkt_queue'[r][k] = pkt_queue[r][k]
          /\ pkt_queue'[r][Len(pkt_queue[r]) + 1] = data
      BY <3>1, AppendPlaces
    <3>3. i \in DOMAIN pkt_queue[r] /\ pkt_queue'[r][i] = pkt_queue[r][i]
      BY <2>2, <3>2
    <3>4. \A k \in DOMAIN pkt_queue[r] : pkt_queue[r][k] \in Bands(pkt_queue)
      BY <1>3, <1>4, PlacesInBands
    <3>5. pkt_queue[r][i] \in Queued(t) /\ pkt_queue[r][i] \in Bearers /\ pkt_queue[r][i] # data
      BY <1>2, <1>11, <2>2, <3>3, <3>4 DEF Bearers
    <3>6. CASE j = Len(pkt_queue[r]) + 1
      BY <1>2, <2>2, <3>2, <3>3, <3>5, <3>6
    <3>7. CASE j \in DOMAIN pkt_queue[r]
      <4>1. pkt_queue'[r][j] = pkt_queue[r][j] /\ pkt_queue[r][j] \in Queued(t)
        BY <1>2, <1>11, <2>2, <3>2, <3>4, <3>7
      <4> QED
        BY <1>4, <2>2, <3>3, <3>5, <3>7, <4>1 DEF OrderInv, LineInv
    <3> QED
      BY <2>2, <3>2, <3>6, <3>7
  <2> QED
    BY <2>1, <2>2
<1>15. ComingInv' /\ RcpInv' /\ InOrder'
  <2>1. Coming' = Coming /\ InRcp' = InRcp
    BY <1>1, <1>6 DEF Coming, InRcp
  <2> QED
    BY <1>1, <1>4, <1>6, <2>1 DEF OrderInv, ComingInv, RcpInv, InOrder, AfterHandled, Fresh
<1> QED
  BY <1>8, <1>9, <1>10, <1>12, <1>13, <1>14, <1>15 DEF Inv, OrderInv

\* gwlib_sendPktToQueue frees the copy that was not queued.
LEMMA QueueFailsStep == Inv /\ QueueFails => Inv'
<1> SUFFICES ASSUME Inv, QueueFails PROVE Inv'
  OBVIOUS
<1>1. /\ data # Null /\ data' = Null /\ dropped' = dropped \union {heap[data].no} /\ Free(data)
      /\ UNCHANGED <<pktVars, pkt_pc, copy, rcpVars, rcp_pc, accepted, handled, looped>>
  BY DEF QueueFails
<1>2. /\ data \in Bufs /\ data \in Bearers /\ DataHand = {data}
      /\ data \notin CopyHand \union PktHand \union RcpHand \union Bands(pkt_queue) \union Bands(rcp_queue)
  BY <1>1, DataIsLast
<1>3. TypeInv /\ OwnInv /\ NumInv /\ OrderInv
  BY DEF Inv
<1>4. /\ heap' \in [Bufs -> Pkt \union {NoPkt}]
      /\ {c \in Bufs : heap'[c] # NoPkt} = {c \in Bufs : heap[c] # NoPkt} \ {data}
      /\ \A c \in Bufs : c # data => heap'[c] = heap[c]
  BY <1>1, <1>2, <1>3, FreeDoes
<1>5. DataHand' = {} /\ UNCHANGED <<CopyHand, PktHand, RcpHand, Dispatching, Handling>>
  BY <1>1 DEF DataHand, CopyHand, PktHand, RcpHand, Dispatching, Handling
<1>6. /\ Dispatching \subseteq PktHand /\ Handling \subseteq RcpHand
      /\ \A c \in Bearers \union PktHand \union RcpHand : c \in Bufs
  BY <1>3, PlacesHave
<1>7. Bearers' = Bearers \ {data}
  BY <1>1, <1>2, <1>5, <1>6 DEF Bearers
<1>8. TypeInv'
  BY <1>1, <1>3, <1>4 DEF TypeInv
<1>9. OwnInv'
  BY <1>1, <1>2, <1>3, <1>4, <1>5 DEF OwnInv
<1>10. \A c \in (Bearers \union PktHand \union RcpHand) \ {data} : heap'[c] = heap[c]
  BY <1>4, <1>6
<1>11. NumInv'
  BY <1>1, <1>2, <1>3, <1>7, <1>10, NumDrop
<1>12. OrderInv'
  <2>1. \A c \in Bands(pkt_queue) \union Bands(rcp_queue) \union CopyHand \union RcpHand \union Dispatching :
           heap'[c] = heap[c]
    BY <1>2, <1>6, <1>10 DEF Bearers
  <2> QED
    BY <1>1, <1>3, <1>5, <2>1, OrderSame
<1> QED
  BY <1>8, <1>9, <1>11, <1>12 DEF Inv

\* The packet thread frees the packet it is done with.
LEMMA PktFreeStep == Inv /\ PktFree => Inv'
<1> SUFFICES ASSUME Inv, PktFree PROVE Inv'
  OBVIOUS
<1>1. /\ pkt_pc = "free" /\ pkt_pc' = "idle" /\ Free(pkt_msg)
      /\ UNCHANGED <<data, pktVars, copy, rcpVars, rcp_pc, history>>
  BY DEF PktFree
<1>2. TypeInv /\ OwnInv /\ NumInv /\ OrderInv
  BY DEF Inv
<1>3. pkt_msg \in Bufs /\ PktHand = {pkt_msg} /\ PktHand' = {} /\ Dispatching = {} /\ Dispatching' = {}
          /\ CopyHand = {}
  BY <1>1, <1>2 DEF TypeInv, PktHand, Dispatching, CopyHand
<1>4. /\ heap' \in [Bufs -> Pkt \union {NoPkt}]
      /\ {c \in Bufs : heap'[c] # NoPkt} = {c \in Bufs : heap[c] # NoPkt} \ {pkt_msg}
      /\ \A c \in Bufs : c # pkt_msg => heap'[c] = heap[c]
  BY <1>1, <1>2, <1>3, FreeDoes
<1>5. UNCHANGED <<DataHand, CopyHand, RcpHand, Handling>>
  BY <1>1 DEF DataHand, CopyHand, RcpHand, Handling
<1>6. /\ Handling \subseteq RcpHand
      /\ \A c \in Bearers \union PktHand \union RcpHand : c \in Bufs
  BY <1>2, PlacesHave
<1>7. Bearers' = Bearers
  BY <1>1, <1>3, <1>5 DEF Bearers
<1>8. pkt_msg \notin DataHand \union CopyHand \union RcpHand \union Bands(pkt_queue) \union Bands(rcp_queue)
  BY <1>2, <1>3 DEF OwnInv
<1>9. TypeInv'
  BY <1>1, <1>2, <1>4 DEF TypeInv
<1>10. OwnInv'
  BY <1>1, <1>2, <1>3, <1>4, <1>5, <1>8 DEF OwnInv
<1>11. pkt_msg \notin Bearers \union RcpHand /\ \A c \in Bearers \union RcpHand : heap'[c] = heap[c]
  <2>1. pkt_msg \notin Bearers \union RcpHand
    BY <1>3, <1>6, <1>8 DEF Bearers
  <2> QED
    BY <1>4, <1>6, <2>1
<1>12. NumInv'
  BY <1>1, <1>2, <1>7, <1>11, NumSame
<1>13. OrderInv'
  <2>1. \A c \in Bands(pkt_queue) \union Bands(rcp_queue) \union CopyHand \union RcpHand \union Dispatching' :
           heap'[c] = heap[c]
    BY <1>3, <1>11 DEF Bearers
  <2>2. data # Null => heap'[data].no = accepted' /\ heap'[data].no \notin looped
    <3>1. data # Null => data \in Bearers
      BY DEF Bearers, DataHand
    <3> QED
      BY <1>1, <1>2, <1>11, <3>1 DEF OrderInv, PlaceInv, Fresh
  <2> QED
    BY <1>1, <1>2, <1>3, <1>5, <2>1, <2>2, OrderSame
<1> QED
  BY <1>9, <1>10, <1>12, <1>13 DEF Inv

\* The RCP thread frees the packet it has handled.
LEMMA RcpFreeStep == Inv /\ RcpFree => Inv'
<1> SUFFICES ASSUME Inv, RcpFree PROVE Inv'
  OBVIOUS
<1>1. /\ rcp_pc = "free" /\ rcp_pc' = "idle" /\ Free(rcp_msg)
      /\ UNCHANGED <<data, pktVars, pkt_pc, copy, rcpVars, history>>
  BY DEF RcpFree
<1>2. TypeInv /\ OwnInv /\ NumInv /\ OrderInv
  BY DEF Inv
<1>3. rcp_msg \in Bufs /\ RcpHand = {rcp_msg} /\ RcpHand' = {} /\ Handling = {} /\ Handling' = {}
  BY <1>1, <1>2 DEF TypeInv, RcpHand, Handling
<1>4. /\ heap' \in [Bufs -> Pkt \union {NoPkt}]
      /\ {c \in Bufs : heap'[c] # NoPkt} = {c \in Bufs : heap[c] # NoPkt} \ {rcp_msg}
      /\ \A c \in Bufs : c # rcp_msg => heap'[c] = heap[c]
  BY <1>1, <1>2, <1>3, FreeDoes
<1>5. UNCHANGED <<DataHand, CopyHand, PktHand, Dispatching>>
  BY <1>1 DEF DataHand, CopyHand, PktHand, Dispatching
<1>6. /\ Dispatching \subseteq PktHand
      /\ \A c \in Bearers \union PktHand \union RcpHand : c \in Bufs
  BY <1>2, PlacesHave
<1>7. Bearers' = Bearers
  BY <1>1, <1>3, <1>5 DEF Bearers
<1>8. rcp_msg \notin DataHand \union CopyHand \union PktHand \union Bands(pkt_queue) \union Bands(rcp_queue)
  BY <1>2, <1>3 DEF OwnInv
<1>9. TypeInv'
  BY <1>1, <1>2, <1>4 DEF TypeInv
<1>10. OwnInv'
  BY <1>1, <1>2, <1>3, <1>4, <1>5, <1>8 DEF OwnInv
<1>11. rcp_msg \notin Bearers /\ \A c \in Bearers : heap'[c] = heap[c]
  <2>1. rcp_msg \notin Bearers
    BY <1>3, <1>6, <1>8 DEF Bearers
  <2> QED
    BY <1>4, <1>6, <2>1
<1>12. NumInv'
  BY <1>1, <1>2, <1>7, <1>11, NumSame
<1>13. OrderInv'
  <2>1. \A c \in Bands(pkt_queue) \union Bands(rcp_queue) \union CopyHand \union RcpHand' \union Dispatching :
           heap'[c] = heap[c]
    BY <1>3, <1>11 DEF Bearers
  <2>2. data # Null => heap'[data].no = accepted' /\ heap'[data].no \notin looped
    <3>1. data # Null => data \in Bearers
      BY DEF Bearers, DataHand
    <3> QED
      BY <1>1, <1>2, <1>11, <3>1 DEF OrderInv, PlaceInv, Fresh
  <2> QED
    BY <1>1, <1>2, <1>3, <1>5, <2>1, <2>2, OrderSame
<1> QED
  BY <1>9, <1>10, <1>12, <1>13 DEF Inv

\* The packet thread frees the copy that the RCP queue did not take.
LEMMA RcpPutFailsStep == Inv /\ RcpPutFails => Inv'
<1> SUFFICES ASSUME Inv, RcpPutFails PROVE Inv'
  OBVIOUS
<1>1. /\ pkt_pc = "rcp_put" /\ pkt_pc' = "free" /\ copy' = Null /\ Free(copy)
      /\ dropped' = dropped \union {heap[copy].no}
      /\ UNCHANGED <<data, pktVars, rcpVars, rcp_pc, accepted, handled, looped>>
  BY DEF RcpPutFails
<1>2. TypeInv /\ OwnInv /\ NumInv /\ OrderInv
  BY DEF Inv
<1>3. copy \in Bufs /\ CopyHand = {copy} /\ CopyHand' = {} /\ PktHand' = PktHand /\ Dispatching = {}
          /\ Dispatching' = {}
  BY <1>1, <1>2 DEF TypeInv, CopyHand, PktHand, Dispatching
<1>4. /\ heap' \in [Bufs -> Pkt \union {NoPkt}]
      /\ {c \in Bufs : heap'[c] # NoPkt} = {c \in Bufs : heap[c] # NoPkt} \ {copy}
      /\ \A c \in Bufs : c # copy => heap'[c] = heap[c]
  BY <1>1, <1>2, <1>3, FreeDoes
<1>5. UNCHANGED <<DataHand, RcpHand, Handling>>
  BY <1>1 DEF DataHand, RcpHand, Handling
<1>6. /\ Handling \subseteq RcpHand
      /\ \A c \in Bearers \union PktHand \union RcpHand : c \in Bufs
  BY <1>2, PlacesHave
<1>7. copy \notin DataHand \union PktHand \union RcpHand \union Bands(pkt_queue) \union Bands(rcp_queue)
  BY <1>2, <1>3 DEF OwnInv
<1>8. copy \in Bearers /\ Bearers' = Bearers \ {copy}
  BY <1>1, <1>3, <1>5, <1>6, <1>7 DEF Bearers
<1>9. TypeInv'
  BY <1>1, <1>2, <1>4 DEF TypeInv
<1>10. OwnInv'
  BY <1>1, <1>2, <1>3, <1>4, <1>5, <1>7 DEF OwnInv
<1>11. \A c \in (Bearers \union RcpHand) \ {copy} : heap'[c] = heap[c]
  BY <1>4, <1>6
<1>12. NumInv'
  BY <1>1, <1>2, <1>8, <1>11, NumDrop
<1>13. OrderInv'
  <2>1. \A c \in Bands(pkt_queue) \union Bands(rcp_queue) \union CopyHand' \union RcpHand \union Dispatching' :
           heap'[c] = heap[c]
    BY <1>3, <1>7, <1>11 DEF Bearers
  <2>2. data # Null => heap'[data].no = accepted' /\ heap'[data].no \notin looped
    <3>1. data # Null => data \in Bearers \ {copy}
      BY <1>7 DEF Bearers, DataHand
    <3> QED
      BY <1>1, <1>2, <1>11, <3>1 DEF OrderInv, PlaceInv, Fresh
  <2> QED
    BY <1>1, <1>2, <1>3, <1>5, <2>1, <2>2, OrderSame
<1> QED
  BY <1>9, <1>10, <1>12, <1>13 DEF Inv

-----------------------------------------------------------------------------
\* The packet that the packet thread looks at, and the one it has copied.
LEMMA ThreadHas ==
  ASSUME Inv
  PROVE  /\ pkt_pc = "dispatch" =>
              /\ pkt_msg \in Bufs /\ pkt_msg \in Bearers /\ heap[pkt_msg].type \in Types
              /\ PktHand = {pkt_msg} /\ Dispatching = {pkt_msg} /\ CopyHand = {} /\ Coming = {pkt_msg}
              /\ pkt_msg \notin DataHand \union RcpHand \union Bands(pkt_queue) \union Bands(rcp_queue)
                     \union Handling
         /\ copy # Null =>
              /\ copy \in Bufs /\ copy \in Bearers /\ heap[copy].type = "rcp"
              /\ CopyHand = {copy} /\ Dispatching = {} /\ Coming = {copy}
              /\ copy \notin DataHand \union PktHand \union RcpHand \union Bands(pkt_queue)
                     \union Bands(rcp_queue) \union Handling
<1>1. TypeInv /\ OwnInv /\ NumInv /\ Handling \subseteq RcpHand
  BY PlacesHave DEF Inv
<1>2. ASSUME pkt_pc = "dispatch"
      PROVE  /\ pkt_msg \in Bufs /\ pkt_msg \in Bearers
             /\ PktHand = {pkt_msg} /\ Dispatching = {pkt_msg} /\ CopyHand = {} /\ Coming = {pkt_msg}
  BY <1>1, <1>2 DEF TypeInv, PktHand, CopyHand, Dispatching, Coming, Bearers
<1>3. ASSUME pkt_pc = "dispatch"
      PROVE  pkt_msg \notin DataHand \union RcpHand \union Bands(pkt_queue) \union Bands(rcp_queue)
                 \union Handling
  BY <1>1, <1>2, <1>3 DEF OwnInv
<1>4. ASSUME copy # Null
      PROVE  copy \in Bufs /\ copy \in Bearers /\ CopyHand = {copy} /\ Dispatching = {} /\ Coming = {copy}
  BY <1>1, <1>4 DEF TypeInv, CopyHand, Dispatching, Coming, Bearers
<1>5. ASSUME copy # Null
      PROVE  /\ heap[copy].type = "rcp"
             /\ copy \notin DataHand \union PktHand \union RcpHand \union Bands(pkt_queue)
                    \union Bands(rcp_queue) \union Handling
  BY <1>1, <1>4, <1>5 DEF OwnInv, Inv, OrderInv, PlaceInv
<1> QED
  BY <1>1, <1>2, <1>3, <1>4, <1>5, BearerNumbers

\* The packet thread gives up the packet it has taken.
LEMMA GiveUp ==
  ASSUME Inv, pkt_pc = "dispatch", pkt_pc' = "free", dropped' = dropped \union {heap[pkt_msg].no},
         UNCHANGED <<heap, data, pktVars, copy, rcpVars, rcp_pc, accepted, handled, looped>>
  PROVE  Inv'
<1>1. TypeInv /\ OwnInv /\ NumInv /\ OrderInv
  BY DEF Inv
<1>2. /\ pkt_msg \in Bufs /\ pkt_msg \in Bearers /\ PktHand = {pkt_msg} /\ Dispatching = {pkt_msg}
      /\ pkt_msg \notin DataHand \union RcpHand \union Bands(pkt_queue) \union Bands(rcp_queue) \union Handling
      /\ CopyHand = {}
  BY ThreadHas
<1>3. Dispatching' = {} /\ PktHand' = PktHand /\ UNCHANGED <<DataHand, CopyHand, RcpHand, Handling>>
  BY <1>1 DEF Dispatching, PktHand, DataHand, CopyHand, RcpHand, Handling
<1>4. Bearers' = Bearers \ {pkt_msg}
  BY <1>2, <1>3 DEF Bearers
<1>5. TypeInv'
  BY <1>1, <1>2 DEF TypeInv
<1>6. OwnInv'
  BY <1>1, <1>3 DEF OwnInv
<1>7. NumInv'
  BY <1>1, <1>2, <1>4, NumDrop
<1>8. OrderInv'
  <2>1. data # Null => heap'[data].no = accepted' /\ heap'[data].no \notin looped
    BY <1>1 DEF OrderInv, PlaceInv, Fresh
  <2> QED
    BY <1>1, <1>3, <2>1, OrderSame
<1> QED
  BY <1>5, <1>6, <1>7, <1>8 DEF Inv

\* A handler is given a packet that none of its type that waits is older than.
LEMMA HandleOrder ==
  ASSUME Inv, NEW b \in Bearers, NEW type \in Types, heap[b].type = type,
         b \notin DataHand \union Bands(pkt_queue), Fresh(b) => AfterHandled(b, type),
         handled' = [handled EXCEPT ![type] = Append(@, heap[b].no)],
         Elements(handled'[type]) = Elements(handled[type]) \union {heap[b].no},
         \A t \in Types \ {type} : handled'[t] = handled[t],
         handled'[type] = Append(handled[type], heap[b].no),
         Bearers' \subseteq Bearers, DataHand' = DataHand, UNCHANGED <<heap, pkt_queue, looped>>
  PROVE  AheadInv' /\ LineInv' /\ InOrder'
<1>1. TypeInv /\ OwnInv /\ NumInv /\ AheadInv /\ LineInv /\ InOrder
  BY DEF Inv, OrderInv
<1>2. \A t \in Types : Queued(t)' = Queued(t) /\ Queued(t) \subseteq Bands(pkt_queue)
  BY DEF Queued, Fresh
<1>3. AheadInv'
  <2> SUFFICES ASSUME NEW t \in Types, NEW c \in Queued(t)
               PROVE  /\ c \in Elements(pkt_queue[Pri(t)])
                      /\ AfterHandled(c, t)'
                      /\ \A d \in Bearers' \ (DataHand \union Queued(t)) : heap[d].type = t
                             => heap[d].no < heap[c].no
    BY <1>2 DEF AheadInv, Pri
  <2>1. /\ c \in Elements(pkt_queue[Pri(t)]) /\ AfterHandled(c, t)
        /\ \A d \in Bearers \ (DataHand \union Queued(t)) : heap[d].type = t => heap[d].no < heap[c].no
    BY <1>1 DEF AheadInv
  <2>2. AfterHandled(c, t)'
    <3>1. CASE t = type
      <4>1. heap[b].no < heap[c].no
        BY <1>2, <2>1, <3>1
      <4> QED
        BY <2>1, <3>1, <4>1 DEF AfterHandled
    <3>2. CASE t # type
      BY <2>1, <3>2 DEF AfterHandled
    <3> QED
      BY <3>1, <3>2
  <2> QED
    BY <2>1, <2>2
<1>4. LineInv'
  <2>1. \A t \in Types : Pri(t)' = Pri(t)
    BY DEF Pri
  <2> SUFFICES ASSUME NEW t \in Types, NEW i \in DOMAIN pkt_queue[Pri(t)],
                      NEW j \in DOMAIN pkt_queue[Pri(t)], i < j,
                      pkt_queue[Pri(t)][i] \in Queued(t), pkt_queue[Pri(t)][j] \in Queued(t)
               PROVE  heap[pkt_queue[Pri(t)][i]].no < heap[pkt_queue[Pri(t)][j]].no
    BY <1>2, <2>1 DEF LineInv
  <2> QED
    BY <1>1 DEF LineInv
<1>5. InOrder'
  <2> SUFFICES ASSUME NEW t \in Types, NEW i \in DOMAIN handled'[t], NEW j \in DOMAIN handled'[t],
                      i < j, handled'[t][i] > handled'[t][j]
               PROVE  handled'[t][j] \in looped
    BY DEF InOrder
  <2>1. CASE t # type
    BY <1>1, <2>1 DEF InOrder
  <2>2. CASE t = type
    <3> DEFINE s == handled[type]
    <3>1. s \in Seq(1 .. MaxPkts)
      BY <1>1 DEF TypeInv
    <3>2. /\ DOMAIN s = 1 .. Len(s) /\ Len(s) \in Nat /\ DOMAIN handled'[t] = 1 .. Len(s) + 1
          /\ \A k \in 1 .. Len(s) : handled'[t][k] = s[k]
          /\ handled'[t][Len(s) + 1] = heap[b].no
      BY <2>2, <3>1, AppendPlaces
    <3>3. i \in 1 .. Len(s) /\ handled'[t][i] = s[i]
      BY <3>2
    <3>4. CASE j = Len(s) + 1
      <4>1. ASSUME Fresh(b) PROVE FALSE
        <5>1. s[i] \in Elements(s)
          BY <3>2, <3>3 DEF Elements
        <5>2. s[i] < heap[b].no
          BY <4>1, <5>1 DEF AfterHandled
        <5>3. s[i] > heap[b].no
          BY <3>2, <3>3, <3>4
        <5>4. s[i] \in Nat
          <6>1. s[i] \in 1 .. MaxPkts /\ MaxPkts \in Nat
            BY <3>1, <3>2, <3>3, PktAssumption DEF PktAssumption
          <6> QED
            BY <6>1
        <5>5. heap[b].no \in Nat
          BY <1>1, BearerNumbers
        <5> QED
          BY <5>2, <5>3, <5>4, <5>5
      <4> QED
        BY <3>2, <3>4, <4>1 DEF Fresh
    <3>5. CASE j # Len(s) + 1
      <4>1. j \in 1 .. Len(s) /\ handled'[t][j] = s[j]
        BY <3>2, <3>5
      <4>2. s[i] > s[j]
        BY <3>3, <4>1
      <4> QED
        BY <1>1, <3>2, <3>3, <4>1, <4>2 DEF InOrder
    <3> QED
      BY <3>4, <3>5
  <2> QED
    BY <2>1, <2>2
<1> QED
  BY <1>3, <1>4, <1>5

\* gw_pkt_handler_call: the handler of the packet's type, or none.
LEMMA DispatchStep == Inv /\ Dispatch => Inv'
<1> SUFFICES ASSUME Inv, Dispatch PROVE Inv'
  OBVIOUS
<1> DEFINE type == heap[pkt_msg].type
<1>1. /\ pkt_pc = "dispatch" /\ pkt_pc' = "free"
      /\ UNCHANGED <<heap, data, pktVars, copy, rcpVars, rcp_pc, accepted, looped>>
      /\ \/ /\ type # "rcp" /\ handled' = [handled EXCEPT ![type] = Append(@, heap[pkt_msg].no)]
            /\ dropped' = dropped
         \/ dropped' = dropped \union {heap[pkt_msg].no} /\ handled' = handled
  BY DEF Dispatch
<1>2. CASE dropped' = dropped \union {heap[pkt_msg].no} /\ handled' = handled
  BY <1>1, <1>2, GiveUp
<1>3. CASE /\ type # "rcp" /\ handled' = [handled EXCEPT ![type] = Append(@, heap[pkt_msg].no)]
           /\ dropped' = dropped
  <2>1. TypeInv /\ OwnInv /\ NumInv /\ OrderInv
    BY DEF Inv
  <2>2. /\ pkt_msg \in Bufs /\ pkt_msg \in Bearers /\ type \in Types
        /\ PktHand = {pkt_msg} /\ Dispatching = {pkt_msg} /\ CopyHand = {} /\ Coming = {pkt_msg}
        /\ pkt_msg \notin DataHand \union RcpHand \union Bands(pkt_queue) \union Bands(rcp_queue)
               \union Handling
    BY <1>1, ThreadHas
  <2>3. Dispatching' = {} /\ PktHand' = PktHand /\ UNCHANGED <<DataHand, CopyHand, RcpHand, Handling>>
    BY <1>1 DEF Dispatching, PktHand, DataHand, CopyHand, RcpHand, Handling
  <2>4. Bearers' = Bearers \ {pkt_msg} /\ UNCHANGED <<Bands(pkt_queue), Bands(rcp_queue)>>
    BY <1>1, <2>2, <2>3 DEF Bearers
  <2> HIDE DEF type
  <2>5. /\ NumInv' /\ handled' \in [Types -> Seq(1 .. MaxPkts)]
        /\ Elements(handled'[type]) = Elements(handled[type]) \union {heap[pkt_msg].no}
        /\ \A t \in Types \ {type} : handled'[t] = handled[t]
        /\ handled'[type] = Append(handled[type], heap[pkt_msg].no)
    BY <1>1, <1>3, <2>1, <2>2, <2>4, NumHandle
  <2>6. TypeInv'
    BY <1>1, <2>1, <2>2, <2>5 DEF TypeInv
  <2>7. OwnInv'
    BY <1>1, <2>1, <2>3 DEF OwnInv
  <2>8. PlaceInv'
    BY <1>1, <2>1, <2>3 DEF OrderInv, PlaceInv, Fresh
  <2>9. AheadInv' /\ LineInv' /\ InOrder'
    <3>1. Fresh(pkt_msg) => AfterHandled(pkt_msg, type)
      BY <2>1, <2>2 DEF OrderInv, ComingInv, type
    <3>2. heap[pkt_msg].type = type
      BY DEF type
    <3> QED
      BY <1>1, <1>3, <2>2, <2>3, <2>4, <2>5, <3>1, <3>2, HandleOrder
  <2>10. ComingInv'
    BY <2>2, <2>3 DEF ComingInv, Coming
  <2>11. RcpInv'
    <3>1. handled'["rcp"] = handled["rcp"] /\ InRcp' = InRcp
      BY <1>1, <1>3, <2>3, <2>5 DEF Types, InRcp
    <3> QED
      BY <1>1, <2>1, <2>3, <3>1 DEF OrderInv, RcpInv, AfterHandled, Fresh
  <2> QED
    BY <2>5, <2>6, <2>7, <2>8, <2>9, <2>10, <2>11 DEF Inv, OrderInv
<1> QED
  BY <1>1, <1>2, <1>3

\* gw_rcppktHandler finds no memory for the copy.
LEMMA DispatchRcpNoMemoryStep == Inv /\ DispatchRcpNoMemory => Inv'
<1> SUFFICES ASSUME Inv, DispatchRcpNoMemory PROVE Inv'
  OBVIOUS
<1>1. /\ pkt_pc = "dispatch" /\ pkt_pc' = "free" /\ dropped' = dropped \union {heap[pkt_msg].no}
      /\ UNCHANGED <<heap, data, pktVars, copy, rcpVars, rcp_pc, accepted, handled, looped>>
  BY DEF DispatchRcpNoMemory
<1> QED
  BY <1>1, GiveUp

\* gw_rcppktHandler copies the packet: the copy takes its place.
LEMMA DispatchRcpStep ==
  ASSUME Inv, NEW b \in Bufs, DispatchRcp(b)
  PROVE  Inv'
<1>1. /\ pkt_pc = "dispatch" /\ pkt_pc' = "rcp_put" /\ copy' = b /\ heap[pkt_msg].type = "rcp"
      /\ heap[b] = NoPkt /\ heap' = [heap EXCEPT ![b] = heap[pkt_msg]]
      /\ UNCHANGED <<data, pktVars, rcpVars, rcp_pc, history>>
  BY DEF DispatchRcp, Alloc
<1>0. UNCHANGED <<data, pktVars, rcpVars, rcp_pc, history>>
  BY <1>1
<1>2. TypeInv /\ OwnInv /\ NumInv /\ OrderInv
  BY DEF Inv
<1>3. /\ pkt_msg \in Bufs /\ pkt_msg \in Bearers
      /\ PktHand = {pkt_msg} /\ Dispatching = {pkt_msg} /\ CopyHand = {} /\ Coming = {pkt_msg}
      /\ pkt_msg \notin DataHand \union RcpHand \union Bands(pkt_queue) \union Bands(rcp_queue) \union Handling
  BY <1>1, ThreadHas
<1>4. /\ b # Null /\ b \notin Bearers \union PktHand \union RcpHand
      /\ Dispatching \subseteq PktHand /\ Handling \subseteq RcpHand
      /\ heap[pkt_msg] \in Pkt /\ heap[pkt_msg] # NoPkt
      /\ \A c \in Bearers \union PktHand \union RcpHand : c \in Bufs
  BY <1>1, <1>2, <1>3, PlacesHave
<1>5. /\ heap' \in [Bufs -> Pkt \union {NoPkt}] /\ heap'[b] = heap[pkt_msg]
      /\ \A c \in Bufs \ {b} : heap'[c] = heap[c]
  BY <1>1, <1>2, <1>4 DEF TypeInv
<1>6. /\ CopyHand' = {b} /\ Dispatching' = {} /\ Coming' = {b}
      /\ UNCHANGED <<DataHand, PktHand, RcpHand, Handling>>
  BY <1>1, <1>4 DEF DataHand, CopyHand, PktHand, RcpHand, Dispatching, Handling, Coming
<1>7. Bearers' = (Bearers \ {pkt_msg}) \union {b}
  BY <1>1, <1>3, <1>6 DEF Bearers
<1>8. \A c \in Bearers \union PktHand \union RcpHand : c # b /\ heap'[c] = heap[c]
  BY <1>4, <1>5
<1>9. TypeInv'
  BY <1>1, <1>2, <1>4, <1>5 DEF TypeInv
<1>10. OwnInv'
  <2>1. {c \in Bufs : heap'[c] # NoPkt} = {c \in Bufs : heap[c] # NoPkt} \union {b}
    BY <1>4, <1>5
  <2>2. b \notin DataHand \union PktHand \union RcpHand \union Bands(pkt_queue) \union Bands(rcp_queue)
    BY <1>4 DEF Bearers
  <2> QED
    BY <1>1, <1>2, <1>3, <1>6, <2>1, <2>2 DEF OwnInv
<1>11. NumInv'
  <2>1. Borne' = Borne
    BY <1>3, <1>5, <1>7, <1>8 DEF Borne
  <2>2. \A c, d \in Bearers' : heap'[c].no = heap'[d].no => c = d
    <3>1. \A c, d \in Bearers : heap[c].no = heap[d].no => c = d
      BY <1>2 DEF NumInv
    <3>2. \A c \in Bearers' : c # b => c \in Bearers /\ c # pkt_msg /\ heap'[c] = heap[c]
      BY <1>7, <1>8
    <3> QED
      BY <1>3, <1>5, <3>1, <3>2
  <2> QED
    BY <1>0, <1>2, <2>1, <2>2 DEF NumInv
<1>12. \A t \in Types : Queued(t)' = Queued(t) /\ Queued(t) \subseteq Bands(pkt_queue)
  <2>1. \A c \in Bands(pkt_queue) : heap'[c] = heap[c]
    BY <1>8 DEF Bearers
  <2> QED
    BY <1>0, <2>1 DEF Queued, Fresh
<1>13. PlaceInv'
  <2>1. data # Null => heap'[data] = heap[data]
    <3>1. data # Null => data \in Bearers
      BY DEF Bearers, DataHand
    <3> QED
      BY <1>8, <3>1
  <2>2. \A c \in Bands(rcp_queue) \union RcpHand : heap'[c] = heap[c]
    BY <1>8 DEF Bearers
  <2>3. data' # Null => heap'[data'].no = accepted' /\ Fresh(data)'
    BY <1>0, <1>2, <2>1 DEF OrderInv, PlaceInv, Fresh
  <2>4. heap'[b].type = "rcp"
    BY <1>1, <1>5
  <2>5. \A c \in Bands(rcp_queue) \union CopyHand' \union RcpHand' : heap'[c].type = "rcp"
    BY <1>0, <1>2, <1>6, <2>2, <2>4 DEF OrderInv, PlaceInv
  <2> QED
    BY <1>0, <1>2, <2>3, <2>5 DEF OrderInv, PlaceInv
<1>14. AheadInv'
  <2> SUFFICES ASSUME NEW t \in Types, NEW c \in Queued(t)
               PROVE  /\ c \in Elements(pkt_queue[Pri(t)])
                      /\ AfterHandled(c, t)'
                      /\ \A d \in Bearers' \ (DataHand \union Queued(t)) : heap'[d].type = t
                             => heap'[d].no < heap'[c].no
    BY <1>0, <1>6, <1>12 DEF AheadInv, Pri
  <2>1. /\ c \in Elements(pkt_queue[Pri(t)]) /\ AfterHandled(c, t)
        /\ \A d \in Bearers \ (DataHand \union Queued(t)) : heap[d].type = t => heap[d].no < heap[c].no
    BY <1>2 DEF OrderInv, AheadInv
  <2>2. c \in Bearers /\ heap'[c] = heap[c]
    BY <1>8, <1>12 DEF Bearers
  <2>3. ASSUME NEW d \in Bearers' \ (DataHand \union Queued(t)), heap'[d].type = t
        PROVE heap'[d].no < heap'[c].no
    <3>1. CASE d = b
      BY <1>3, <1>5, <1>12, <2>1, <2>2, <2>3, <3>1
    <3>2. CASE d # b
      BY <1>7, <1>8, <2>1, <2>2, <2>3, <3>2
    <3> QED
      BY <3>1, <3>2
  <2> QED
    BY <1>0, <2>1, <2>2, <2>3 DEF AfterHandled
<1>15. LineInv'
  <2>1. \A t \in Types : Pri(t)' = Pri(t)
    BY DEF Pri
  <2> SUFFICES ASSUME NEW t \in Types, NEW i \in DOMAIN pkt_queue[Pri(t)],
                      NEW j \in DOMAIN pkt_queue[Pri(t)], i < j,
                      pkt_queue[Pri(t)][i] \in Queued(t), pkt_queue[Pri(t)][j] \in Queued(t)
               PROVE  heap'[pkt_queue[Pri(t)][i]].no < heap'[pkt_queue[Pri(t)][j]].no
    BY <1>0, <1>12, <2>1 DEF LineInv
  <2>2. \A c \in Queued(t) : heap'[c] = heap[c]
    BY <1>8, <1>12 DEF Bearers
  <2> QED
    BY <1>2, <2>2 DEF OrderInv, LineInv
<1>16. InRcp' = InRcp /\ \A c \in InRcp \union Bands(rcp_queue) : heap'[c] = heap[c]
  <2>1. Elements(rcp_queue[0]) \subseteq Bands(rcp_queue)
    BY <1>2, PlacesInBands DEF Elements
  <2> QED
    BY <1>0, <1>6, <1>8, <2>1 DEF InRcp, Bearers
<1>17. ComingInv'
  BY <1>0, <1>2, <1>3, <1>5, <1>6, <1>16 DEF OrderInv, ComingInv, AfterHandled, Fresh
<1>18. RcpInv'
  <2>1. \A i \in DOMAIN rcp_queue[0] : rcp_queue[0][i] \in InRcp
    BY DEF InRcp, Elements
  <2>2. \A i, j \in DOMAIN rcp_queue[0] :
          i < j /\ Fresh(rcp_queue[0][j])' => heap'[rcp_queue[0][i]].no < heap'[rcp_queue[0][j]].no
    BY <1>0, <1>2, <1>16, <2>1 DEF OrderInv, RcpInv, Fresh
  <2>3. \A c \in InRcp : Fresh(c)' => AfterHandled(c, "rcp")'
    BY <1>0, <1>2, <1>16 DEF OrderInv, RcpInv, AfterHandled, Fresh
  <2>4. \A c \in Elements(rcp_queue[0]), d \in Handling : Fresh(c)' => heap'[d].no < heap'[c].no
    <3>1. Elements(rcp_queue[0]) \subseteq InRcp /\ Handling \subseteq InRcp
      BY DEF InRcp
    <3> QED
      BY <1>0, <1>2, <1>16, <3>1 DEF OrderInv, RcpInv, Fresh
  <2> QED
    BY <1>0, <1>6, <1>16, <2>2, <2>3, <2>4 DEF RcpInv
<1>19. InOrder'
  BY <1>0, <1>2 DEF OrderInv, InOrder
<1> QED
  BY <1>9, <1>10, <1>11, <1>13, <1>14, <1>15, <1>17, <1>18, <1>19 DEF Inv, OrderInv

\* RcpFrameRevHandle is given the packet that the RCP thread has taken.
LEMMA RcpHandleStep == Inv /\ RcpHandle => Inv'
<1> SUFFICES ASSUME Inv, RcpHandle PROVE Inv'
  OBVIOUS
<1>1. /\ rcp_pc = "handle" /\ rcp_pc' = "free"
      /\ handled' = [handled EXCEPT !["rcp"] = Append(@, heap[rcp_msg].no)]
      /\ UNCHANGED <<heap, data, pktVars, pkt_pc, copy, rcpVars, accepted, dropped, looped>>
  BY DEF RcpHandle
<1>2. TypeInv /\ OwnInv /\ NumInv /\ OrderInv
  BY DEF Inv
<1>3. /\ rcp_msg \in Bufs /\ rcp_msg \in Bearers /\ RcpHand = {rcp_msg} /\ Handling = {rcp_msg}
      /\ heap[rcp_msg].type = "rcp" /\ "rcp" \in Types /\ rcp_msg \in InRcp
  BY <1>1, <1>2 DEF TypeInv, RcpHand, Handling, Bearers, OrderInv, PlaceInv, Types, InRcp
<1>4. rcp_msg \notin DataHand \union CopyHand \union PktHand \union Bands(pkt_queue) \union Bands(rcp_queue)
          \union Dispatching
  BY <1>2, <1>3, PlacesHave DEF OwnInv
<1>5. Handling' = {} /\ RcpHand' = RcpHand /\ UNCHANGED <<DataHand, CopyHand, PktHand, Dispatching>>
  BY <1>1 DEF Handling, RcpHand, DataHand, CopyHand, PktHand, Dispatching
<1>6. Bearers' = Bearers \ {rcp_msg}
  BY <1>1, <1>3, <1>4, <1>5 DEF Bearers
<1>7. /\ NumInv' /\ handled' \in [Types -> Seq(1 .. MaxPkts)]
      /\ Elements(handled'["rcp"]) = Elements(handled["rcp"]) \union {heap[rcp_msg].no}
      /\ \A t \in Types \ {"rcp"} : handled'[t] = handled[t]
      /\ handled'["rcp"] = Append(handled["rcp"], heap[rcp_msg].no)
  BY <1>1, <1>2, <1>3, <1>6, NumHandle
<1>8. TypeInv'
  BY <1>1, <1>2, <1>3, <1>7 DEF TypeInv
<1>9. OwnInv'
  BY <1>1, <1>2, <1>5 DEF OwnInv
<1>10. PlaceInv'
  BY <1>1, <1>2, <1>5 DEF OrderInv, PlaceInv, Fresh
<1>11. AheadInv' /\ LineInv' /\ InOrder'
  <2>1. Fresh(rcp_msg) => AfterHandled(rcp_msg, "rcp")
    BY <1>2, <1>3 DEF OrderInv, RcpInv
  <2> QED
    BY <1>1, <1>3, <1>4, <1>5, <1>6, <1>7, <2>1, HandleOrder
<1>12. InRcp' = Elements(rcp_queue[0]) /\ InRcp' \subseteq InRcp /\ Coming' = Coming
  BY <1>1, <1>5 DEF InRcp, Coming
<1>13. ComingInv'
  <2> SUFFICES ASSUME NEW c \in Coming, Fresh(c)
               PROVE  /\ AfterHandled(c, heap[c].type)'
                      /\ heap[c].type = "rcp" => \A d \in InRcp' : heap[d].no < heap[c].no
    BY <1>1, <1>12 DEF ComingInv, Fresh
  <2>1. /\ AfterHandled(c, heap[c].type)
        /\ heap[c].type = "rcp" => \A d \in InRcp : heap[d].no < heap[c].no
    BY <1>2 DEF OrderInv, ComingInv
  <2>2. heap[c].type \in Types
    <3>1. c \in Bearers
      BY DEF Coming, Bearers
    <3> QED
      BY <1>2, <3>1, BearerNumbers
  <2>3. AfterHandled(c, heap[c].type)'
    BY <1>1, <1>3, <1>7, <2>1, <2>2 DEF AfterHandled
  <2> QED
    BY <1>12, <2>1, <2>3
<1>14. RcpInv'
  <2>1. ASSUME NEW c \in InRcp', Fresh(c) PROVE AfterHandled(c, "rcp")'
    <3>1. AfterHandled(c, "rcp") /\ heap[rcp_msg].no < heap[c].no
      BY <1>2, <1>3, <1>12, <2>1 DEF OrderInv, RcpInv
    <3> QED
      BY <1>1, <1>7, <3>1 DEF AfterHandled
  <2> QED
    BY <1>1, <1>2, <1>5, <2>1 DEF OrderInv, RcpInv, Fresh
<1> QED
  BY <1>7, <1>8, <1>9, <1>10, <1>11, <1>13, <1>14 DEF Inv, OrderInv

-----------------------------------------------------------------------------
\* Nothing happens in the packet queue or to the packets in it.
LEMMA PktOrderSame ==
  ASSUME OrderInv, UNCHANGED <<heap, pkt_queue, handled, looped, Bearers, DataHand>>
  PROVE  AheadInv' /\ LineInv' /\ InOrder'
<1>1. AheadInv /\ LineInv /\ InOrder
  BY DEF OrderInv
<1>2. \A t \in Types : Queued(t)' = Queued(t) /\ Pri(t)' = Pri(t)
  BY DEF Queued, Fresh, Pri
<1>3. AheadInv'
  BY <1>1, <1>2 DEF AheadInv, AfterHandled
<1>4. LineInv'
  BY <1>1, <1>2 DEF LineInv
<1> QED
  BY <1>1, <1>3, <1>4 DEF InOrder

\* What the RCP thread has or will have is in its queue or its hand.
LEMMA InRcpHas ==
  ASSUME TypeInv, OwnInv, OrderInv
  PROVE  /\ Elements(rcp_queue[0]) \subseteq Bands(rcp_queue)
         /\ InRcp \subseteq Bearers \ (DataHand \union CopyHand \union Bands(pkt_queue) \union Dispatching)
         /\ \A c \in InRcp : heap[c].type = "rcp"
<1>1. Elements(rcp_queue[0]) \subseteq Bands(rcp_queue)
  BY PlacesInBands DEF Elements
<1>2. Dispatching \subseteq PktHand /\ Handling \subseteq RcpHand
  BY PlacesHave
<1>3. InRcp \subseteq Bands(rcp_queue) \union RcpHand /\ InRcp \subseteq Bearers
  BY <1>1, <1>2 DEF InRcp, Bearers
<1>4. \A c \in InRcp : heap[c].type = "rcp"
  BY <1>3 DEF OrderInv, PlaceInv
<1>5. \A c \in InRcp : c \notin DataHand \union CopyHand \union Bands(pkt_queue) \union Dispatching
  BY <1>2, <1>3 DEF OwnInv
<1> QED
  BY <1>1, <1>3, <1>4, <1>5

\* gw_rcppktHandler queues the copy for the RCP thread.
LEMMA RcpQueuedStep ==
  ASSUME Inv, copy # Null, rcp_queue' = BandAppend(rcp_queue, 0, copy),
         copy' = Null, pkt_pc' = "free",
         UNCHANGED <<heap, data, pktVars, rcp_floor, rcp_msg, rcp_pc, history>>
  PROVE  Inv'
<1>1. rcp_queue' = BandAppend(rcp_queue, 0, copy) /\ UNCHANGED <<rcp_floor, rcp_msg>>
  OBVIOUS
<1>2. TypeInv /\ OwnInv /\ NumInv /\ OrderInv
  BY DEF Inv
<1>3. /\ copy \in Bufs /\ copy \in Bearers /\ heap[copy].type = "rcp"
      /\ CopyHand = {copy} /\ Dispatching = {} /\ Coming = {copy}
      /\ copy \notin DataHand \union PktHand \union RcpHand \union Bands(pkt_queue) \union Bands(rcp_queue)
             \union Handling
  BY ThreadHas
<1>4. 0 \in RQ!Pri /\ 1 \in RQ!Pri /\ 2 \in RQ!Pri
  <2>1. RQ!Pri = 0 .. 2
    BY DEF RQ!Pri
  <2> QED
    BY <2>1
<1>5. /\ rcp_queue' \in [RQ!Pri -> Seq(Bufs)] /\ BandsDistinct(rcp_queue)'
      /\ Bands(rcp_queue)' = Bands(rcp_queue) \union {copy}
      /\ rcp_queue'[0] = Append(rcp_queue[0], copy) /\ \A s \in RQ!Pri : s # 0 => rcp_queue'[s] = rcp_queue[s]
      /\ Elements(rcp_queue'[0]) = Elements(rcp_queue[0]) \union {copy}
  BY <1>1, <1>2, <1>3, <1>4, RcpQueuePut DEF BandAppend
<1>6. /\ CopyHand' = {} /\ Dispatching' = {} /\ PktHand' = PktHand /\ Coming' = {}
      /\ UNCHANGED <<DataHand, RcpHand, Handling>>
  <2>1. pkt_pc # "idle"
    BY <1>2 DEF TypeInv
  <2> QED
    BY <1>1, <2>1 DEF CopyHand, Dispatching, PktHand, Coming, DataHand, RcpHand, Handling
<1>7. Bearers' = Bearers /\ InRcp' = InRcp \union {copy}
  BY <1>3, <1>5, <1>6 DEF Bearers, InRcp
<1>8. TypeInv'
  BY <1>1, <1>2, <1>5 DEF TypeInv
<1>9. OwnInv'
  BY <1>2, <1>3, <1>5, <1>6 DEF OwnInv
<1>10. NumInv'
  BY <1>2, <1>7, NumSame
<1>11. PlaceInv'
  <2>1. \A b \in Bands(rcp_queue)' \union CopyHand' \union RcpHand' : heap[b].type = "rcp"
    BY <1>2, <1>3, <1>5, <1>6 DEF OrderInv, PlaceInv
  <2>2. rcp_queue'[1] = <<>> /\ rcp_queue'[2] = <<>>
    <3>1. rcp_queue'[1] = rcp_queue[1] /\ rcp_queue'[2] = rcp_queue[2]
      BY <1>4, <1>5
    <3> QED
      BY <1>2, <3>1 DEF OrderInv, PlaceInv
  <2> QED
    BY <1>2, <2>1, <2>2 DEF OrderInv, PlaceInv, Fresh
<1>12. AheadInv' /\ LineInv' /\ InOrder'
  BY <1>2, <1>6, <1>7, PktOrderSame
<1>13. ComingInv'
  BY <1>6 DEF ComingInv
<1>14. RcpInv'
  <2>1. Fresh(copy) => AfterHandled(copy, "rcp") /\ \A c \in InRcp : heap[c].no < heap[copy].no
    BY <1>2, <1>3 DEF OrderInv, ComingInv
  <2>2. \A b \in InRcp' : Fresh(b) => AfterHandled(b, "rcp")
    BY <1>2, <1>7, <2>1 DEF OrderInv, RcpInv
  <2>3. \A b \in Elements(rcp_queue'[0]), c \in Handling : Fresh(b) => heap[c].no < heap[b].no
    BY <1>2, <1>5, <2>1 DEF OrderInv, RcpInv, InRcp
  <2>4. ASSUME NEW i \in DOMAIN rcp_queue'[0], NEW j \in DOMAIN rcp_queue'[0], i < j, Fresh(rcp_queue'[0][j])
        PROVE  heap[rcp_queue'[0][i]].no < heap[rcp_queue'[0][j]].no
    <3> DEFINE s == rcp_queue[0]
    <3>1. s \in Seq(Bufs) /\ rcp_queue'[0] = Append(s, copy)
      BY <1>2, <1>4, <1>5 DEF TypeInv
    <3> HIDE DEF s
    <3>2. /\ DOMAIN s = 1 .. Len(s) /\ Len(s) \in Nat /\ DOMAIN rcp_queue'[0] = 1 .. Len(s) + 1
          /\ \A k \in 1 .. Len(s) : rcp_queue'[0][k] = s[k]
          /\ rcp_queue'[0][Len(s) + 1] = copy
      BY <3>1, AppendPlaces
    <3>3. i \in DOMAIN s /\ rcp_queue'[0][i] = s[i]
      BY <2>4, <3>2
    <3>4. s[i] \in InRcp
      BY <3>3 DEF InRcp, Elements, s
    <3>5. CASE j = Len(s) + 1
      BY <2>1, <2>4, <3>2, <3>3, <3>4, <3>5
    <3>6. CASE j # Len(s) + 1
      <4>1. j \in DOMAIN s /\ rcp_queue'[0][j] = s[j]
        BY <3>2, <3>6
      <4>2. heap[s[i]].no < heap[s[j]].no
        BY <1>2, <2>4, <3>3, <4>1 DEF OrderInv, RcpInv, s
      <4> QED
        BY <3>3, <4>1, <4>2
    <3> QED
      BY <3>5, <3>6
  <2> QED
    BY <1>6, <2>2, <2>3, <2>4 DEF RcpInv, AfterHandled, Fresh
<1> QED
  BY <1>8, <1>9, <1>10, <1>11, <1>12, <1>13, <1>14 DEF Inv, OrderInv

\* While rcp_rcv_queue_id is 0 the copy joins the packet queue at priority 0.
LEMMA LoopedStep ==
  ASSUME Inv, copy # Null, pkt_queue' = BandAppend(pkt_queue, 0, copy),
         looped' = looped \union {heap[copy].no}, copy' = Null, pkt_pc' = "free",
         UNCHANGED <<heap, data, pkt_floor, pkt_msg, rcpVars, rcp_pc, accepted, handled, dropped>>
  PROVE  Inv'
<1>1. pkt_queue' = BandAppend(pkt_queue, 0, copy) /\ UNCHANGED <<pkt_floor, pkt_msg>>
  OBVIOUS
<1>2. TypeInv /\ OwnInv /\ NumInv /\ OrderInv
  BY DEF Inv
<1>3. /\ copy \in Bufs /\ copy \in Bearers /\ heap[copy].type = "rcp"
      /\ CopyHand = {copy} /\ Dispatching = {} /\ Coming = {copy}
      /\ copy \notin DataHand \union PktHand \union RcpHand \union Bands(pkt_queue) \union Bands(rcp_queue)
             \union Handling
  BY ThreadHas
<1>4. 0 \in PQ!Pri /\ \A t \in Types : Pri(t) \in PQ!Pri
  BY <1>2, PlacesInBands
<1>5. /\ pkt_queue' \in [PQ!Pri -> Seq(Bufs)] /\ BandsDistinct(pkt_queue)'
      /\ Bands(pkt_queue)' = Bands(pkt_queue) \union {copy}
      /\ pkt_queue'[0] = Append(pkt_queue[0], copy) /\ \A s \in PQ!Pri : s # 0 => pkt_queue'[s] = pkt_queue[s]
      /\ Elements(pkt_queue'[0]) = Elements(pkt_queue[0]) \union {copy}
  BY <1>1, <1>2, <1>3, <1>4, PktQueuePut DEF BandAppend
<1>6. /\ CopyHand' = {} /\ Dispatching' = {} /\ PktHand' = PktHand /\ Coming' = {}
      /\ UNCHANGED <<DataHand, RcpHand, Handling>>
  <2>1. pkt_pc # "idle"
    BY <1>2 DEF TypeInv
  <2> QED
    BY <1>1, <2>1 DEF CopyHand, Dispatching, PktHand, Coming, DataHand, RcpHand, Handling
<1>7. Bearers' = Bearers /\ InRcp' = InRcp
  BY <1>3, <1>5, <1>6 DEF Bearers, InRcp
<1>8. TypeInv'
  BY <1>1, <1>2, <1>5 DEF TypeInv
<1>9. OwnInv'
  BY <1>2, <1>3, <1>5, <1>6 DEF OwnInv
<1>10. NumInv'
  BY <1>2, <1>7, NumSame
<1>11. heap[copy].no \in looped' /\ \A c \in Bearers \ {copy} : heap[c].no \in looped' <=> heap[c].no \in looped
  <2>1. \A c \in Bearers \ {copy} : heap[c].no # heap[copy].no
    BY <1>2, <1>3, BearerNumbers
  <2> QED
    BY <2>1
<1>12. \A t \in Types : Queued(t)' = Queued(t) /\ copy \notin Queued(t)
  <2>1. Bands(pkt_queue) \subseteq Bearers \ {copy} /\ copy \notin Bands(pkt_queue)
    BY <1>3 DEF Bearers
  <2>2. \A c : c \in Bands(pkt_queue)' /\ heap[c].no \notin looped' <=> c \in Bands(pkt_queue)
            /\ heap[c].no \notin looped
    BY <1>5, <1>11, <2>1
  <2>3. \A t : Queued(t) = {c \in Bands(pkt_queue) : heap[c].type = t /\ heap[c].no \notin looped}
    BY DEF Queued, Fresh
  <2>4. \A t : Queued(t)' = {c \in Bands(pkt_queue)' : heap[c].type = t /\ heap[c].no \notin looped'}
    BY DEF Queued, Fresh
  <2> QED
    BY <2>1, <2>2, <2>3, <2>4
<1>13. PlaceInv'
  <2>1. data # Null => data \in Bearers \ {copy}
    BY <1>3 DEF Bearers, DataHand
  <2>2. looped' \subseteq 1 .. accepted
    BY <1>2, <1>3, BearerNumbers DEF OrderInv, PlaceInv
  <2> QED
    BY <1>2, <1>6, <1>11, <2>1, <2>2 DEF OrderInv, PlaceInv, Fresh
<1>14. AheadInv'
  <2> SUFFICES ASSUME NEW t \in Types, NEW c \in Queued(t)
               PROVE  /\ c \in Elements(pkt_queue'[Pri(t)])
                      /\ AfterHandled(c, t)
                      /\ \A d \in Bearers \ (DataHand \union Queued(t)) : heap[d].type = t
                             => heap[d].no < heap[c].no
    BY <1>6, <1>7, <1>12 DEF AheadInv, AfterHandled, Pri
  <2>1. /\ c \in Elements(pkt_queue[Pri(t)]) /\ AfterHandled(c, t)
        /\ \A d \in Bearers \ (DataHand \union Queued(t)) : heap[d].type = t => heap[d].no < heap[c].no
    BY <1>2 DEF OrderInv, AheadInv
  <2>2. c \in Elements(pkt_queue'[Pri(t)])
    BY <1>4, <1>5, <2>1
  <2> QED
    BY <2>1, <2>2
<1>15. LineInv'
  <2>1. \A t \in Types : Pri(t)' = Pri(t)
    BY DEF Pri
  <2> SUFFICES ASSUME NEW t \in Types, NEW i \in DOMAIN pkt_queue'[Pri(t)],
                      NEW j \in DOMAIN pkt_queue'[Pri(t)], i < j,
                      pkt_queue'[Pri(t)][i] \in Queued(t), pkt_queue'[Pri(t)][j] \in Queued(t)
               PROVE  heap[pkt_queue'[Pri(t)][i]].no < heap[pkt_queue'[Pri(t)][j]].no
    BY <1>12, <2>1 DEF LineInv
  <2>2. CASE Pri(t) # 0
    <3>1. pkt_queue'[Pri(t)] = pkt_queue[Pri(t)]
      BY <1>4, <1>5, <2>2
    <3> QED
      BY <1>2, <3>1 DEF OrderInv, LineInv
  <2>3. CASE Pri(t) = 0
    <3> DEFINE s == pkt_queue[0]
    <3>1. s \in Seq(Bufs) /\ pkt_queue'[0] = Append(s, copy)
      BY <1>2, <1>4, <1>5 DEF TypeInv
    <3> HIDE DEF s
    <3>2. /\ DOMAIN s = 1 .. Len(s) /\ Len(s) \in Nat /\ DOMAIN pkt_queue'[0] = 1 .. Len(s) + 1
          /\ \A k \in 1 .. Len(s) : pkt_queue'[0][k] = s[k]
          /\ pkt_queue'[0][Len(s) + 1] = copy
      BY <3>1, AppendPlaces
    <3>3. i # Len(s) + 1 /\ j # Len(s) + 1
      BY <1>12, <2>3, <3>2
    <3>4. /\ i \in DOMAIN s /\ j \in DOMAIN s
          /\ pkt_queue'[0][i] = s[i] /\ pkt_queue'[0][j] = s[j]
      BY <2>3, <3>2, <3>3
    <3>5. s[i] \in Queued(t) /\ s[j] \in Queued(t)
      BY <2>3, <3>4
    <3> QED
      BY <1>2, <2>3, <3>4, <3>5 DEF OrderInv, LineInv, s
  <2> QED
    BY <2>2, <2>3
<1>16. ComingInv'
  BY <1>6 DEF ComingInv
<1>17. RcpInv'
  <2>1. InRcp \subseteq Bearers \ {copy}
    BY <1>2, <1>3, InRcpHas
  <2>2. \A c \in InRcp : heap[c].no \in looped' <=> heap[c].no \in looped
    BY <1>11, <2>1
  <2>3. \A i \in DOMAIN rcp_queue[0] : rcp_queue[0][i] \in InRcp
    BY DEF InRcp, Elements
  <2>4. Elements(rcp_queue[0]) \subseteq InRcp
    BY DEF InRcp
  <2> QED
    BY <1>2, <1>6, <1>7, <2>2, <2>3, <2>4 DEF OrderInv, RcpInv, AfterHandled, Fresh
<1>18. InOrder'
  BY <1>2 DEF OrderInv, InOrder
<1> QED
  BY <1>8, <1>9, <1>10, <1>13, <1>14, <1>15, <1>16, <1>17, <1>18 DEF Inv, OrderInv

\* gw_rcppktHandler queues the copy.
LEMMA RcpPutStep == Inv /\ RcpPut => Inv'
<1> SUFFICES ASSUME Inv, RcpPut PROVE Inv'
  OBVIOUS
<1>0. copy # Null
  BY DEF RcpPut, Inv, TypeInv
<1>1. CASE PQ!Put(0, copy) /\ looped' = looped \union {heap[copy].no} /\ UNCHANGED rcpVars
  BY <1>0, <1>1, LoopedStep DEF RcpPut, PQ!Put, BandAppend
<1>2. CASE RQ!Put(0, copy) /\ UNCHANGED <<pktVars, looped>>
  BY <1>0, <1>2, RcpQueuedStep DEF RcpPut, RQ!Put, BandAppend
<1> QED
  BY <1>1, <1>2 DEF RcpPut

-----------------------------------------------------------------------------
\* An element moves from one of six disjoint sets to an empty one.
LEMMA MoveOne ==
  ASSUME NEW D, NEW C, NEW P, NEW R, NEW K, NEW Q, NEW b \in K,
         D \intersect (C \union P \union R \union K \union Q) = {}, C \intersect (P \union R \union K
             \union Q) = {},
         P \intersect (R \union K \union Q) = {}, R \intersect (K \union Q) = {}, K \intersect Q = {}
  PROVE  /\ D \intersect (C \union {b} \union R \union (K \ {b}) \union Q) = {}
         /\ C \intersect ({b} \union R \union (K \ {b}) \union Q) = {}
         /\ {b} \intersect (R \union (K \ {b}) \union Q) = {} /\ R \intersect ((K \ {b}) \union Q) = {}
         /\ (K \ {b}) \intersect Q = {}
OBVIOUS

\* gw_pkt_proc_main takes a packet from the packet queue.
LEMMA PktTaken ==
  ASSUME Inv, pkt_pc = "idle", pkt_pc' = "dispatch", NEW r \in PQ!Pri, pkt_queue[r] # <<>>,
         pkt_msg' = Head(pkt_queue[r]), pkt_queue' = [pkt_queue EXCEPT ![r] = Tail(@)], pkt_floor' \in 0 .. 8,
         UNCHANGED <<heap, data, copy, rcpVars, rcp_pc, history>>
  PROVE  Inv'
<1> DEFINE b == Head(pkt_queue[r])
<1>1. TypeInv /\ OwnInv /\ NumInv /\ OrderInv
  BY DEF Inv
<1>2. /\ pkt_queue' \in [PQ!Pri -> Seq(Bufs)] /\ BandsDistinct(pkt_queue)'
      /\ Bands(pkt_queue)' = Bands(pkt_queue) \ {b}
      /\ pkt_queue'[r] = Tail(pkt_queue[r]) /\ \A s \in PQ!Pri : s # r => pkt_queue'[s] = pkt_queue[s]
      /\ b \in Bufs /\ b \in Bands(pkt_queue)
      /\ Elements(pkt_queue'[r]) = Elements(pkt_queue[r]) \ {b}
      /\ \A s \in PQ!Pri : s # r => b \notin Elements(pkt_queue[s])
  BY <1>1, PktQueueTake
<1>3. pkt_msg' = b /\ \A t \in Types : Pri(t) \in PQ!Pri /\ Pri(t)' = Pri(t)
  BY <1>1, PlacesInBands DEF Pri
<1>4. /\ DOMAIN pkt_queue[r] = 1 .. Len(pkt_queue[r]) /\ Len(pkt_queue[r]) \in Nat \ {0} /\ b = pkt_queue[r][1]
      /\ DOMAIN Tail(pkt_queue[r]) = 1 .. Len(pkt_queue[r]) - 1
      /\ \A i \in DOMAIN Tail(pkt_queue[r]) : i + 1 \in DOMAIN pkt_queue[r]
             /\ Tail(pkt_queue[r])[i] = pkt_queue[r][i + 1]
  <2>1. pkt_queue[r] \in Seq(Bufs)
    BY <1>1 DEF TypeInv
  <2> QED
    BY <2>1, TailPlaces
<1> HIDE DEF b
<1>5. CopyHand = {} /\ PktHand = {} /\ Dispatching = {}
  BY <1>1 DEF TypeInv, CopyHand, PktHand, Dispatching
<1>6. /\ CopyHand' = {} /\ PktHand' = {b} /\ Dispatching' = {b} /\ Coming' = {b}
      /\ UNCHANGED <<DataHand, RcpHand, Handling, InRcp, Bands(rcp_queue)>>
  BY <1>3, <1>5 DEF CopyHand, PktHand, Dispatching, Coming, DataHand, RcpHand, Handling, InRcp
<1>7. Bearers' = Bearers
  BY <1>2, <1>5, <1>6 DEF Bearers
<1>8. TypeInv'
  BY <1>1, <1>2, <1>3 DEF TypeInv
<1>9. OwnInv'
  <2>1. b \notin DataHand \union CopyHand \union RcpHand \union Bands(rcp_queue)
    BY <1>1, <1>2 DEF OwnInv
  <2>2. UNCHANGED {c \in Bufs : heap[c] # NoPkt} /\ UNCHANGED BandsDistinct(rcp_queue)
    OBVIOUS
  <2>3. CopyHand' = CopyHand
    BY <1>5, <1>6
  <2>4. {c \in Bufs : heap[c] # NoPkt}
          = DataHand \union CopyHand \union {b} \union RcpHand \union (Bands(pkt_queue) \ {b})
              \union Bands(rcp_queue)
    BY <1>1, <1>2, <1>5 DEF OwnInv
  <2>11. Bands(pkt_queue)' \subseteq Bands(pkt_queue) /\ b \notin Bands(pkt_queue)' /\ b \in Bands(pkt_queue)
    BY <1>2
  <2>12. /\ DataHand \intersect (CopyHand \union PktHand \union RcpHand \union Bands(pkt_queue)
                \union Bands(rcp_queue)) = {}
         /\ CopyHand \intersect (PktHand \union RcpHand \union Bands(pkt_queue) \union Bands(rcp_queue)) = {}
         /\ PktHand \intersect (RcpHand \union Bands(pkt_queue) \union Bands(rcp_queue)) = {}
         /\ RcpHand \intersect (Bands(pkt_queue) \union Bands(rcp_queue)) = {}
         /\ Bands(pkt_queue) \intersect Bands(rcp_queue) = {}
    BY <1>1 DEF OwnInv
  <2>13. /\ DataHand' = DataHand /\ CopyHand' = CopyHand /\ RcpHand' = RcpHand /\ PktHand' = {b}
         /\ Bands(rcp_queue)' = Bands(rcp_queue)
    BY <1>6, <2>3
  <2>5. {c \in Bufs : heap[c] # NoPkt}'
          = DataHand' \union CopyHand' \union PktHand' \union RcpHand' \union Bands(pkt_queue)'
              \union Bands(rcp_queue)'
    BY <1>2, <1>6, <2>2, <2>3, <2>4
  <2>6. /\ DataHand \intersect (CopyHand \union {b} \union RcpHand \union (Bands(pkt_queue) \ {b})
               \union Bands(rcp_queue)) = {}
        /\ CopyHand \intersect ({b} \union RcpHand \union (Bands(pkt_queue) \ {b}) \union Bands(rcp_queue)) = {}
        /\ {b} \intersect (RcpHand \union (Bands(pkt_queue) \ {b}) \union Bands(rcp_queue)) = {}
        /\ RcpHand \intersect ((Bands(pkt_queue) \ {b}) \union Bands(rcp_queue)) = {}
        /\ (Bands(pkt_queue) \ {b}) \intersect Bands(rcp_queue) = {}
    BY <2>11, <2>12, MoveOne
  <2>10. BandsDistinct(pkt_queue)' /\ BandsDistinct(rcp_queue)'
    BY <1>1, <1>2, <2>2 DEF OwnInv
  <2> QED
    BY <1>2, <2>5, <2>6, <2>10, <2>13 DEF OwnInv
<1>10. NumInv'
  BY <1>1, <1>7, NumSame
<1>11. \A t \in Types : Queued(t)' = Queued(t) \ {b} /\ Queued(t) \subseteq Bands(pkt_queue)
  BY <1>2 DEF Queued, Fresh
<1>12. PlaceInv'
  BY <1>1, <1>5, <1>6 DEF OrderInv, PlaceInv, Fresh
<1>13. b \in Bearers /\ b \notin DataHand
  BY <1>1, <1>2 DEF Bearers, OwnInv
<1>14. ASSUME NEW t \in Types, b \in Queued(t),
              NEW k \in DOMAIN pkt_queue[Pri(t)], pkt_queue[Pri(t)][k] \in Queued(t) \ {b}
       PROVE  heap[b].no < heap[pkt_queue[Pri(t)][k]].no
  <2>1. b \in Elements(pkt_queue[Pri(t)])
    BY <1>1, <1>14 DEF OrderInv, AheadInv
  <2>2. Pri(t) = r
    BY <1>2, <1>3, <2>1
  <2>3. k # 1 /\ 1 < k /\ 1 \in DOMAIN pkt_queue[r]
    BY <1>4, <1>14, <2>2
  <2> QED
    BY <1>1, <1>4, <1>14, <2>2, <2>3 DEF OrderInv, LineInv
<1>15. AheadInv'
  <2> SUFFICES ASSUME NEW t \in Types, NEW c \in Queued(t) \ {b}
               PROVE  /\ c \in Elements(pkt_queue'[Pri(t)])
                      /\ AfterHandled(c, t)
                      /\ \A d \in Bearers \ (DataHand \union (Queued(t) \ {b})) : heap[d].type = t
                             => heap[d].no < heap[c].no
    BY <1>3, <1>6, <1>7, <1>11 DEF AheadInv, AfterHandled
  <2>1. /\ c \in Elements(pkt_queue[Pri(t)]) /\ AfterHandled(c, t)
        /\ \A d \in Bearers \ (DataHand \union Queued(t)) : heap[d].type = t => heap[d].no < heap[c].no
    BY <1>1 DEF OrderInv, AheadInv
  <2>2. c \in Elements(pkt_queue'[Pri(t)])
    BY <1>2, <1>3, <2>1
  <2>3. b \in Queued(t) => heap[b].no < heap[c].no
    <3>1. PICK k \in DOMAIN pkt_queue[Pri(t)] : c = pkt_queue[Pri(t)][k]
      BY <2>1 DEF Elements
    <3> QED
      BY <1>14, <3>1
  <2> QED
    BY <2>1, <2>2, <2>3
<1>16. LineInv'
  <2> SUFFICES ASSUME NEW t \in Types, NEW i \in DOMAIN pkt_queue'[Pri(t)],
                      NEW j \in DOMAIN pkt_queue'[Pri(t)], i < j,
                      pkt_queue'[Pri(t)][i] \in Queued(t), pkt_queue'[Pri(t)][j] \in Queued(t)
               PROVE  heap[pkt_queue'[Pri(t)][i]].no < heap[pkt_queue'[Pri(t)][j]].no
    BY <1>3, <1>11 DEF LineInv
  <2>1. CASE Pri(t) # r
    <3>1. pkt_queue'[Pri(t)] = pkt_queue[Pri(t)]
      BY <1>2, <1>3, <2>1
    <3> QED
      BY <1>1, <3>1 DEF OrderInv, LineInv
  <2>2. CASE Pri(t) = r
    <3>1. i \in DOMAIN Tail(pkt_queue[r]) /\ j \in DOMAIN Tail(pkt_queue[r])
      BY <1>2, <2>2
    <3>2. /\ i + 1 \in DOMAIN pkt_queue[r] /\ j + 1 \in DOMAIN pkt_queue[r]
          /\ pkt_queue'[r][i] = pkt_queue[r][i + 1] /\ pkt_queue'[r][j] = pkt_queue[r][j + 1]
      BY <1>2, <1>4, <3>1
    <3>3. i + 1 < j + 1
      BY <1>4, <3>1
    <3> QED
      BY <1>1, <2>2, <3>2, <3>3 DEF OrderInv, LineInv
  <2> QED
    BY <2>1, <2>2
<1>17. ComingInv'
  <2> SUFFICES ASSUME Fresh(b)
               PROVE  /\ AfterHandled(b, heap[b].type)
                      /\ heap[b].type = "rcp" => \A c \in InRcp : heap[c].no < heap[b].no
    BY <1>6 DEF ComingInv, AfterHandled, Fresh
  <2>1. heap[b].type \in Types
    BY <1>1, <1>13, BearerNumbers
  <2>2. b \in Queued(heap[b].type)
    BY <1>2 DEF Queued
  <2>3. /\ AfterHandled(b, heap[b].type)
        /\ \A c \in Bearers \ (DataHand \union Queued(heap[b].type)) : heap[c].type = heap[b].type
               => heap[c].no < heap[b].no
    BY <1>1, <2>1, <2>2 DEF OrderInv, AheadInv
  <2>4. \A c \in InRcp : c \in Bearers \ (DataHand \union Queued(heap[b].type)) /\ heap[c].type = "rcp"
    BY <1>1, <1>11, <2>1, InRcpHas
  <2> QED
    BY <2>3, <2>4
<1>18. RcpInv' /\ InOrder'
  BY <1>1, <1>6 DEF OrderInv, RcpInv, InOrder, AfterHandled, Fresh
<1> QED
  BY <1>8, <1>9, <1>10, <1>12, <1>15, <1>16, <1>17, <1>18 DEF Inv, OrderInv

\* gw_pkt_proc_main waits for a packet and takes it.
LEMMA PktGetStep == Inv /\ PktGet => Inv'
<1> SUFFICES ASSUME Inv, PktGet PROVE Inv'
  OBVIOUS
<1>1. pkt_pc = "idle" /\ UNCHANGED <<heap, data, copy, rcpVars, rcp_pc, history>> /\ pkt_floor \in 0 .. 8
  BY DEF PktGet, Inv, TypeInv
<1>2. CASE PQ!BeginGet /\ UNCHANGED pkt_pc
  <2>1. pkt_floor' \in PQ!Pri /\ pkt_msg' = Null /\ pkt_queue' = pkt_queue
    BY <1>2 DEF PQ!BeginGet
  <2>2. pkt_floor' \in 0 .. 8
    BY <2>1 DEF PQ!Pri
  <2> QED
    BY <1>1, <1>2, <2>1, <2>2, QuietStep DEF Inv, TypeInv
<1>3. CASE PQ!EndGet /\ pkt_pc' = "dispatch"
  <2>1. PICK r \in pkt_floor .. 8 - 1 :
          /\ pkt_queue[r] # <<>> /\ pkt_msg' = Head(pkt_queue[r])
          /\ pkt_queue' = [pkt_queue EXCEPT ![r] = Tail(@)]
    BY <1>3 DEF PQ!EndGet
  <2>2. r \in PQ!Pri
    BY <1>1 DEF PQ!Pri
  <2>3. pkt_floor' \in 0 .. 8
    BY <1>3 DEF PQ!EndGet
  <2> QED
    BY <1>1, <1>3, <2>1, <2>2, <2>3, PktTaken
<1> QED
  BY <1>2, <1>3 DEF PktGet

\* The same for the other queue and hand.
LEMMA MoveOther ==
  ASSUME NEW D, NEW C, NEW P, NEW R, NEW Q, NEW K, NEW b \in K,
         D \intersect (C \union P \union R \union Q \union K) = {}, C \intersect (P \union R \union Q
             \union K) = {},
         P \intersect (R \union Q \union K) = {}, R \intersect (Q \union K) = {}, Q \intersect K = {}
  PROVE  /\ D \intersect (C \union P \union {b} \union Q \union (K \ {b})) = {}
         /\ C \intersect (P \union {b} \union Q \union (K \ {b})) = {}
         /\ P \intersect ({b} \union Q \union (K \ {b})) = {}
         /\ {b} \intersect (Q \union (K \ {b})) = {}
         /\ Q \intersect (K \ {b}) = {}
OBVIOUS

\* rcp_rcv_handll_thread takes a packet from the RCP queue.
LEMMA RcpTaken ==
  ASSUME Inv, rcp_pc = "idle", rcp_pc' = "handle", NEW r \in RQ!Pri, r = 0, rcp_queue[r] # <<>>,
         rcp_msg' = Head(rcp_queue[r]), rcp_queue' = [rcp_queue EXCEPT ![r] = Tail(@)], rcp_floor' \in 0 .. 3,
         UNCHANGED <<heap, data, pktVars, pkt_pc, copy, history>>
  PROVE  Inv'
<1> DEFINE b == Head(rcp_queue[r])
<1>1. TypeInv /\ OwnInv /\ NumInv /\ OrderInv
  BY DEF Inv
<1>2. /\ rcp_queue' \in [RQ!Pri -> Seq(Bufs)] /\ BandsDistinct(rcp_queue)'
      /\ Bands(rcp_queue)' = Bands(rcp_queue) \ {b}
      /\ rcp_queue'[r] = Tail(rcp_queue[r]) /\ \A s \in RQ!Pri : s # r => rcp_queue'[s] = rcp_queue[s]
      /\ b \in Bufs /\ b \in Bands(rcp_queue)
      /\ Elements(rcp_queue'[r]) = Elements(rcp_queue[r]) \ {b}
      /\ \A s \in RQ!Pri : s # r => b \notin Elements(rcp_queue[s])
  BY <1>1, RcpQueueTake
<1>3. rcp_msg' = b
  OBVIOUS
<1>4. /\ DOMAIN rcp_queue[r] = 1 .. Len(rcp_queue[r]) /\ Len(rcp_queue[r]) \in Nat \ {0} /\ b = rcp_queue[r][1]
      /\ DOMAIN Tail(rcp_queue[r]) = 1 .. Len(rcp_queue[r]) - 1
      /\ \A i \in DOMAIN Tail(rcp_queue[r]) : i + 1 \in DOMAIN rcp_queue[r]
             /\ Tail(rcp_queue[r])[i] = rcp_queue[r][i + 1]
  <2>1. rcp_queue[r] \in Seq(Bufs)
    BY <1>1 DEF TypeInv
  <2> QED
    BY <2>1, TailPlaces
<1> HIDE DEF b
<1>5. RcpHand = {} /\ Handling = {}
  BY DEF RcpHand, Handling
<1>6. /\ RcpHand' = {b} /\ Handling' = {b}
      /\ UNCHANGED <<DataHand, CopyHand, PktHand, Dispatching, Coming, Bands(pkt_queue)>>
  BY <1>3 DEF CopyHand, PktHand, Dispatching, Coming, DataHand, RcpHand, Handling
<1>7. b \in Elements(rcp_queue[r])
  BY <1>4 DEF Elements
<1>8. Bearers' = Bearers /\ InRcp' = InRcp
  BY <1>2, <1>5, <1>6, <1>7 DEF Bearers, InRcp
<1>9. TypeInv'
  BY <1>1, <1>2, <1>3 DEF TypeInv
<1>10. OwnInv'
  <2>1. b \notin DataHand \union CopyHand \union PktHand \union Bands(pkt_queue)
    BY <1>1, <1>2 DEF OwnInv
  <2>2. UNCHANGED {c \in Bufs : heap[c] # NoPkt} /\ UNCHANGED BandsDistinct(pkt_queue)
    OBVIOUS
  <2>3. CopyHand' = CopyHand
    BY <1>5, <1>6
  <2>4. {c \in Bufs : heap[c] # NoPkt}
          = DataHand \union CopyHand \union {b} \union PktHand \union (Bands(rcp_queue) \ {b})
              \union Bands(pkt_queue)
    BY <1>1, <1>2, <1>5 DEF OwnInv
  <2>11. Bands(rcp_queue)' \subseteq Bands(rcp_queue) /\ b \notin Bands(rcp_queue)' /\ b \in Bands(rcp_queue)
    BY <1>2
  <2>12. /\ DataHand \intersect (CopyHand \union PktHand \union RcpHand \union Bands(pkt_queue)
                \union Bands(rcp_queue)) = {}
         /\ CopyHand \intersect (PktHand \union RcpHand \union Bands(pkt_queue) \union Bands(rcp_queue)) = {}
         /\ PktHand \intersect (RcpHand \union Bands(pkt_queue) \union Bands(rcp_queue)) = {}
         /\ RcpHand \intersect (Bands(pkt_queue) \union Bands(rcp_queue)) = {}
         /\ Bands(pkt_queue) \intersect Bands(rcp_queue) = {}
    BY <1>1 DEF OwnInv
  <2>13. /\ DataHand' = DataHand /\ CopyHand' = CopyHand /\ PktHand' = PktHand /\ RcpHand' = {b}
         /\ Bands(pkt_queue)' = Bands(pkt_queue)
    BY <1>6, <2>3
  <2>5. {c \in Bufs : heap[c] # NoPkt}'
          = DataHand' \union CopyHand' \union PktHand' \union RcpHand' \union Bands(pkt_queue)'
              \union Bands(rcp_queue)'
    BY <1>2, <1>6, <2>2, <2>3, <2>4
  <2>6. /\ DataHand \intersect (CopyHand \union PktHand \union {b} \union Bands(pkt_queue)
               \union (Bands(rcp_queue) \ {b})) = {}
        /\ CopyHand \intersect (PktHand \union {b} \union Bands(pkt_queue) \union (Bands(rcp_queue) \ {b})) = {}
        /\ PktHand \intersect ({b} \union Bands(pkt_queue) \union (Bands(rcp_queue) \ {b})) = {}
        /\ {b} \intersect (Bands(pkt_queue) \union (Bands(rcp_queue) \ {b})) = {}
        /\ Bands(pkt_queue) \intersect (Bands(rcp_queue) \ {b}) = {}
    BY <2>11, <2>12, MoveOther
  <2>10. BandsDistinct(pkt_queue)' /\ BandsDistinct(rcp_queue)'
    BY <1>1, <1>2, <2>2 DEF OwnInv
  <2> QED
    BY <1>2, <2>5, <2>6, <2>10, <2>13 DEF OwnInv
<1>11. NumInv'
  BY <1>1, <1>8, NumSame
<1>12. PlaceInv'
  <2>1. 1 \in RQ!Pri /\ 2 \in RQ!Pri
    <3>1. RQ!Pri = 0 .. 2
      BY DEF RQ!Pri
    <3> QED
      BY <3>1
  <2>2. rcp_queue'[1] = rcp_queue[1] /\ rcp_queue'[2] = rcp_queue[2]
    BY <1>2, <2>1
  <2> QED
    BY <1>1, <1>2, <1>5, <1>6, <2>2 DEF OrderInv, PlaceInv, Fresh
<1>13. AheadInv' /\ LineInv' /\ InOrder'
  BY <1>1, <1>6, <1>8, PktOrderSame
<1>14. ComingInv'
  BY <1>1, <1>6, <1>8 DEF OrderInv, ComingInv, AfterHandled, Fresh
<1>15. \A i, j \in DOMAIN rcp_queue[r] : i < j /\ Fresh(rcp_queue[r][j])
           => heap[rcp_queue[r][i]].no < heap[rcp_queue[r][j]].no
  BY <1>1 DEF OrderInv, RcpInv
<1>16. \A i, j \in DOMAIN rcp_queue'[r] : i < j /\ Fresh(rcp_queue'[r][j])
           => heap[rcp_queue'[r][i]].no < heap[rcp_queue'[r][j]].no
  <2> SUFFICES ASSUME NEW i \in DOMAIN rcp_queue'[r],
                      NEW j \in DOMAIN rcp_queue'[r], i < j, Fresh(rcp_queue'[r][j])
               PROVE  heap[rcp_queue'[r][i]].no < heap[rcp_queue'[r][j]].no
    OBVIOUS
  <2>1. i \in DOMAIN Tail(rcp_queue[r]) /\ j \in DOMAIN Tail(rcp_queue[r])
    BY <1>2
  <2>2. /\ i + 1 \in DOMAIN rcp_queue[r] /\ j + 1 \in DOMAIN rcp_queue[r]
        /\ rcp_queue'[r][i] = rcp_queue[r][i + 1] /\ rcp_queue'[r][j] = rcp_queue[r][j + 1]
    BY <1>2, <1>4, <2>1
  <2>3. i + 1 < j + 1
    BY <1>4, <2>1
  <2> QED
    BY <1>15, <2>2, <2>3
<1>17. \A c \in Elements(rcp_queue'[r]) : Fresh(c) => heap[b].no < heap[c].no
  <2> SUFFICES ASSUME NEW c \in Elements(rcp_queue'[r]), Fresh(c) PROVE heap[b].no < heap[c].no
    OBVIOUS
  <2>1. c \in Elements(rcp_queue[r]) /\ c # b
    BY <1>2
  <2>2. PICK k \in DOMAIN rcp_queue[r] : c = rcp_queue[r][k]
    BY <2>1 DEF Elements
  <2>3. 1 < k /\ 1 \in DOMAIN rcp_queue[r]
    BY <1>4, <2>1, <2>2
  <2> QED
    BY <1>4, <1>15, <2>2, <2>3
<1>18. RcpInv'
  <2>1. \A c \in InRcp : Fresh(c) => AfterHandled(c, "rcp")
    BY <1>1 DEF OrderInv, RcpInv
  <2>2. \A c \in Elements(rcp_queue'[r]), d \in {b} : Fresh(c) => heap[d].no < heap[c].no
    BY <1>17
  <2>3. RcpInv' <=>
          /\ \A i, j \in DOMAIN rcp_queue'[r] : i < j /\ Fresh(rcp_queue'[r][j])
                 => heap[rcp_queue'[r][i]].no < heap[rcp_queue'[r][j]].no
          /\ \A c \in InRcp : Fresh(c) => AfterHandled(c, "rcp")
          /\ \A c \in Elements(rcp_queue'[r]), d \in {b} : Fresh(c) => heap[d].no < heap[c].no
    BY <1>6, <1>8 DEF RcpInv, AfterHandled, Fresh
  <2> QED
    BY <1>16, <2>1, <2>2, <2>3
<1> QED
  BY <1>9, <1>10, <1>11, <1>12, <1>13, <1>14, <1>18 DEF Inv, OrderInv

\* rcp_rcv_handll_thread waits for a packet and takes it.
LEMMA RcpGetStep == Inv /\ RcpGet => Inv'
<1> SUFFICES ASSUME Inv, RcpGet PROVE Inv'
  OBVIOUS
<1>1. rcp_pc = "idle" /\ UNCHANGED <<heap, data, pktVars, pkt_pc, copy, history>> /\ rcp_floor \in 0 .. 3
  BY DEF RcpGet, Inv, TypeInv
<1>2. CASE RQ!BeginGet /\ UNCHANGED rcp_pc
  <2>1. rcp_floor' \in RQ!Pri /\ rcp_msg' = Null /\ rcp_queue' = rcp_queue
    BY <1>2 DEF RQ!BeginGet
  <2>2. rcp_floor' \in 0 .. 3
    BY <2>1 DEF RQ!Pri
  <2> QED
    BY <1>1, <1>2, <2>1, <2>2, QuietStep DEF Inv, TypeInv
<1>3. CASE RQ!EndGet /\ rcp_pc' = "handle"
  <2>1. PICK r \in rcp_floor .. 3 - 1 :
          /\ rcp_queue[r] # <<>> /\ rcp_msg' = Head(rcp_queue[r])
          /\ rcp_queue' = [rcp_queue EXCEPT ![r] = Tail(@)]
    BY <1>3 DEF RQ!EndGet
  <2>2. r \in RQ!Pri
    BY <1>1 DEF RQ!Pri
  <2>3. r = 0
    <3>1. rcp_queue[1] = <<>> /\ rcp_queue[2] = <<>>
      BY DEF Inv, OrderInv, PlaceInv
    <3>2. r \in 0 .. 2
      BY <1>1
    <3> QED
      BY <2>1, <3>1, <3>2
  <2>4. rcp_floor' \in 0 .. 3
    BY <1>3 DEF RQ!EndGet
  <2> QED
    BY <1>1, <1>3, <2>1, <2>2, <2>3, <2>4, RcpTaken
<1> QED
  BY <1>2, <1>3 DEF RcpGet

-----------------------------------------------------------------------------
\* There is no packet at first.
LEMMA InitInv == Init => Inv
<1> SUFFICES ASSUME Init PROVE Inv
  OBVIOUS
<1>1. /\ heap = [b \in Bufs |-> NoPkt] /\ data = Null /\ copy = Null
      /\ pkt_queue = [pri \in PQ!Pri |-> <<>>] /\ pkt_floor = 8 /\ pkt_msg = Null /\ pkt_pc = "idle"
      /\ rcp_queue = [pri \in RQ!Pri |-> <<>>] /\ rcp_floor = 3 /\ rcp_msg = Null /\ rcp_pc = "idle"
      /\ accepted = 0 /\ handled = [type \in Types |-> <<>>] /\ dropped = {} /\ looped = {}
  BY DEF Init, PQ!Init, RQ!Init
<1>2. TypeInv
  <2>1. MaxPkts \in Nat
    BY PktAssumption DEF PktAssumption
  <2> QED
    BY <1>1, <2>1 DEF TypeInv
<1>3. /\ DataHand = {} /\ CopyHand = {} /\ PktHand = {} /\ RcpHand = {} /\ Dispatching = {} /\ Handling = {}
  BY <1>1 DEF DataHand, CopyHand, PktHand, RcpHand, Dispatching, Handling
<1>4. /\ Bands(pkt_queue) = {} /\ BandsDistinct(pkt_queue)
      /\ Bands(rcp_queue) = {} /\ BandsDistinct(rcp_queue)
      /\ Bands(handled) = {} /\ BandsDistinct(handled)
  <2>1. Elements(<<>>) = {} /\ Distinct(<<>>)
    BY DEF Elements, Distinct
  <2>2. ASSUME NEW P PROVE Bands([p \in P |-> <<>>]) = {} /\ BandsDistinct([p \in P |-> <<>>])
    BY <2>1 DEF Bands, BandsDistinct
  <2> QED
    BY <1>1, <2>2
<1>5. Bearers = {} /\ Borne = {}
  BY <1>3, <1>4 DEF Bearers, Borne
<1>6. OwnInv
  <2>1. {b \in Bufs : heap[b] # NoPkt} = {}
    BY <1>1
  <2> QED
    BY <1>3, <1>4, <2>1 DEF OwnInv
<1>7. NumInv
  BY <1>1, <1>4, <1>5 DEF NumInv
<1>8. PlaceInv
  <2>1. 1 \in RQ!Pri /\ 2 \in RQ!Pri
    <3>1. RQ!Pri = 0 .. 2
      BY DEF RQ!Pri
    <3> QED
      BY <3>1
  <2> QED
    BY <1>1, <1>3, <1>4, <2>1 DEF PlaceInv
<1>9. AheadInv /\ LineInv
  <2>1. \A t : Queued(t) = {}
    BY <1>4 DEF Queued
  <2> QED
    BY <2>1 DEF AheadInv, LineInv
<1>10. ComingInv
  BY <1>3 DEF ComingInv, Coming
<1>11. RcpInv
  <2>1. rcp_queue[0] = <<>> /\ Elements(rcp_queue[0]) = {}
    BY <1>1, <1>2, PlacesInBands DEF Elements
  <2> QED
    BY <1>3, <2>1 DEF RcpInv, InRcp
<1>12. InOrder
  BY <1>1 DEF InOrder
<1> QED
  BY <1>2, <1>6, <1>7, <1>8, <1>9, <1>10, <1>11, <1>12 DEF Inv, OrderInv

\* Every step keeps the invariant.
LEMMA NextInv == Inv /\ [Next]_vars => Inv'
<1> SUFFICES ASSUME Inv, [Next]_vars PROVE Inv'
  OBVIOUS
<1>1. CASE Register \/ CreateRcpQueue \/ RegisterLpb
  BY <1>1, SetUpStep
<1>2. CASE \E type \in Types, b \in Bufs : Copy(type, b)
  BY <1>2, CopyStep
<1>3. CASE Queue
  BY <1>3, QueueStep
<1>4. CASE QueueFails
  BY <1>4, QueueFailsStep
<1>5. CASE PktGet
  BY <1>5, PktGetStep
<1>6. CASE Dispatch
  BY <1>6, DispatchStep
<1>7. CASE \E b \in Bufs : DispatchRcp(b)
  BY <1>7, DispatchRcpStep
<1>8. CASE DispatchRcpNoMemory
  BY <1>8, DispatchRcpNoMemoryStep
<1>9. CASE RcpPut
  BY <1>9, RcpPutStep
<1>10. CASE RcpPutFails
  BY <1>10, RcpPutFailsStep
<1>11. CASE PktFree
  BY <1>11, PktFreeStep
<1>12. CASE RcpGet
  BY <1>12, RcpGetStep
<1>13. CASE RcpHandle
  BY <1>13, RcpHandleStep
<1>14. CASE RcpFree
  BY <1>14, RcpFreeStep
<1>15. CASE UNCHANGED vars
  BY <1>15, QuietStep DEF vars, Inv, TypeInv
<1> QED
  BY <1>1, <1>2, <1>3, <1>4, <1>5, <1>6, <1>7, <1>8, <1>9, <1>10, <1>11, <1>12, <1>13, <1>14, <1>15
     DEF Next, InitThread, Driver, PktThread, RcpThread

\* The invariant holds in every state of every run, whatever is fair.
LEMMA InvHolds == Spec => []Inv
BY InitInv, NextInv, PTL DEF Spec, SafeSpec

-----------------------------------------------------------------------------
\* A handler is given the packets of its type in the order they arrived; only an
\* RCP packet that went round while there was no RCP queue may be overtaken
\* (gw_get_pkt_pri, gw_pkt_handler_call, gw_rcppktHandler).
THEOREM InOrderCorrect == Spec => []InOrder
<1>1. Inv => InOrder
  BY DEF Inv, OrderInv
<1> QED
  BY <1>1, InvHolds, PTL

\* Who holds a buffer, one kind of holder at a time.
LEMMA HoldersAre ==
  ASSUME TypeInv, NEW b \in Bufs, NEW h
  PROVE  h \in Holders(b) <=>
           \/ h = <<"driver", b>> /\ b \in DataHand
           \/ h = <<"copy", b>> /\ b \in CopyHand
           \/ h = <<"pkt_thread", b>> /\ b \in PktHand
           \/ h = <<"rcp_thread", b>> /\ b \in RcpHand
           \/ \E r \in PQ!Pri : \E i \in DOMAIN pkt_queue[r] : h = <<"pkt_queue", r, i, b>>
                  /\ pkt_queue[r][i] = b
           \/ \E r \in RQ!Pri : \E i \in DOMAIN rcp_queue[r] : h = <<"rcp_queue", r, i, b>>
                  /\ rcp_queue[r][i] = b
<1>1. b # Null /\ DOMAIN pkt_queue = PQ!Pri /\ DOMAIN rcp_queue = RQ!Pri
  BY PktAssumption DEF PktAssumption, TypeInv
<1>2. h \in Holders(b) <=>
        \/ h \in Hands /\ h[2] = b
        \/ h \in Slots("pkt_queue", pkt_queue) /\ h[4] = b
        \/ h \in Slots("rcp_queue", rcp_queue) /\ h[4] = b
  BY DEF Holders
<1>3. h \in Hands /\ h[2] = b <=>
        \/ h = <<"driver", b>> /\ data = b
        \/ h = <<"copy", b>> /\ copy = b
        \/ h = <<"pkt_thread", b>> /\ b = IF pkt_pc = "idle" THEN Null ELSE pkt_msg
        \/ h = <<"rcp_thread", b>> /\ b = IF rcp_pc = "idle" THEN Null ELSE rcp_msg
  BY DEF Hands
<1>4. /\ b \in DataHand <=> data = b
      /\ b \in CopyHand <=> copy = b
      /\ b \in PktHand <=> b = IF pkt_pc = "idle" THEN Null ELSE pkt_msg
      /\ b \in RcpHand <=> b = IF rcp_pc = "idle" THEN Null ELSE rcp_msg
  BY <1>1 DEF DataHand, CopyHand, PktHand, RcpHand
<1>5. h \in Slots("pkt_queue", pkt_queue) /\ h[4] = b <=>
        \E r \in PQ!Pri : \E i \in DOMAIN pkt_queue[r] : h = <<"pkt_queue", r, i, b>> /\ pkt_queue[r][i] = b
  BY <1>1 DEF Slots
<1>6. h \in Slots("rcp_queue", rcp_queue) /\ h[4] = b <=>
        \E r \in RQ!Pri : \E i \in DOMAIN rcp_queue[r] : h = <<"rcp_queue", r, i, b>> /\ rcp_queue[r][i] = b
  BY <1>1 DEF Slots
<1> QED
  BY <1>2, <1>3, <1>4, <1>5, <1>6

\* A buffer in one place has one holder.
LEMMA OneHolder ==
  ASSUME TypeInv, OwnInv, NEW b \in Bufs
  PROVE  /\ heap[b] = NoPkt => Holders(b) = {}
         /\ heap[b] # NoPkt => \E h : Holders(b) = {h}
<1>1. heap[b] # NoPkt <=>
        b \in DataHand \union CopyHand \union PktHand \union RcpHand \union Bands(pkt_queue)
            \union Bands(rcp_queue)
  <2>1. heap[b] # NoPkt <=> b \in {c \in Bufs : heap[c] # NoPkt}
    OBVIOUS
  <2> QED
    BY <2>1 DEF OwnInv
<1>2. /\ b \in Bands(pkt_queue) <=> \E r \in PQ!Pri : \E i \in DOMAIN pkt_queue[r] : pkt_queue[r][i] = b
      /\ b \in Bands(rcp_queue) <=> \E r \in RQ!Pri : \E i \in DOMAIN rcp_queue[r] : rcp_queue[r][i] = b
  <2>1. DOMAIN pkt_queue = PQ!Pri /\ DOMAIN rcp_queue = RQ!Pri
    BY DEF TypeInv
  <2> QED
    BY <2>1 DEF Bands, Elements
<1>3. ASSUME heap[b] = NoPkt PROVE Holders(b) = {}
  <2>1. \A h : h \notin Holders(b)
    <3> SUFFICES ASSUME NEW h, h \in Holders(b) PROVE FALSE
      OBVIOUS
    <3> QED
      BY <1>1, <1>2, <1>3, HoldersAre
  <2> QED
    BY <2>1
<1>4. \A h : /\ b \in DataHand => h \in Holders(b) <=> h = <<"driver", b>>
             /\ b \in CopyHand => h \in Holders(b) <=> h = <<"copy", b>>
             /\ b \in PktHand => h \in Holders(b) <=> h = <<"pkt_thread", b>>
             /\ b \in RcpHand => h \in Holders(b) <=> h = <<"rcp_thread", b>>
  <2> SUFFICES ASSUME NEW h
               PROVE  /\ b \in DataHand => h \in Holders(b) <=> h = <<"driver", b>>
                      /\ b \in CopyHand => h \in Holders(b) <=> h = <<"copy", b>>
                      /\ b \in PktHand => h \in Holders(b) <=> h = <<"pkt_thread", b>>
                      /\ b \in RcpHand => h \in Holders(b) <=> h = <<"rcp_thread", b>>
    OBVIOUS
  <2>1. /\ b \in DataHand => b \notin CopyHand \union PktHand \union RcpHand \union Bands(pkt_queue)
               \union Bands(rcp_queue)
        /\ b \in CopyHand => b \notin DataHand \union PktHand \union RcpHand \union Bands(pkt_queue)
               \union Bands(rcp_queue)
        /\ b \in PktHand => b \notin DataHand \union CopyHand \union RcpHand \union Bands(pkt_queue)
               \union Bands(rcp_queue)
        /\ b \in RcpHand => b \notin DataHand \union CopyHand \union PktHand \union Bands(pkt_queue)
               \union Bands(rcp_queue)
    BY DEF OwnInv
  <2>2. h \in Holders(b) =>
           \/ h = <<"driver", b>> /\ b \in DataHand
           \/ h = <<"copy", b>> /\ b \in CopyHand
           \/ h = <<"pkt_thread", b>> /\ b \in PktHand
           \/ h = <<"rcp_thread", b>> /\ b \in RcpHand
           \/ b \in Bands(pkt_queue) \/ b \in Bands(rcp_queue)
    BY <1>2, HoldersAre
  <2>3. \/ h = <<"driver", b>> /\ b \in DataHand
        \/ h = <<"copy", b>> /\ b \in CopyHand
        \/ h = <<"pkt_thread", b>> /\ b \in PktHand
        \/ h = <<"rcp_thread", b>> /\ b \in RcpHand
        => h \in Holders(b)
    BY HoldersAre
  <2> QED
    BY <2>1, <2>2, <2>3
<1>5. ASSUME b \in Bands(pkt_queue) PROVE \E h : Holders(b) = {h}
  <2>1. b \notin DataHand \union CopyHand \union PktHand \union RcpHand \union Bands(rcp_queue)
    BY <1>5 DEF OwnInv
  <2>2. PICK r \in PQ!Pri : \E i \in DOMAIN pkt_queue[r] : pkt_queue[r][i] = b
    BY <1>2, <1>5
  <2>3. PICK i \in DOMAIN pkt_queue[r] : pkt_queue[r][i] = b
    BY <2>2
  <2>4. \A s \in PQ!Pri : \A j \in DOMAIN pkt_queue[s] : pkt_queue[s][j] = b => s = r /\ j = i
    <3>1. DOMAIN pkt_queue = PQ!Pri
      BY DEF TypeInv
    <3>2. \A s \in PQ!Pri : \A j \in DOMAIN pkt_queue[s] : pkt_queue[s][j] = b => b \in Elements(pkt_queue[s])
      BY DEF Elements
    <3>3. b \in Elements(pkt_queue[r])
      BY <2>3, <3>2
    <3>4. \A s \in PQ!Pri : s # r => b \notin Elements(pkt_queue[s])
      BY <3>1, <3>3 DEF OwnInv, BandsDistinct
    <3>5. \A j \in DOMAIN pkt_queue[r] : pkt_queue[r][j] = b => j = i
      BY <2>3, <3>1 DEF OwnInv, BandsDistinct, Distinct
    <3> QED
      BY <3>2, <3>4, <3>5
  <2>5. ASSUME NEW h PROVE h \in Holders(b) <=> h = <<"pkt_queue", r, i, b>>
    BY <1>2, <2>1, <2>3, <2>4, HoldersAre
  <2>6. Holders(b) = {<<"pkt_queue", r, i, b>>}
    BY <2>5
  <2> QED
    BY <2>6
<1>6. ASSUME b \in Bands(rcp_queue) PROVE \E h : Holders(b) = {h}
  <2>1. b \notin DataHand \union CopyHand \union PktHand \union RcpHand \union Bands(pkt_queue)
    BY <1>6 DEF OwnInv
  <2>2. PICK r \in RQ!Pri : \E i \in DOMAIN rcp_queue[r] : rcp_queue[r][i] = b
    BY <1>2, <1>6
  <2>3. PICK i \in DOMAIN rcp_queue[r] : rcp_queue[r][i] = b
    BY <2>2
  <2>4. \A s \in RQ!Pri : \A j \in DOMAIN rcp_queue[s] : rcp_queue[s][j] = b => s = r /\ j = i
    <3>1. DOMAIN rcp_queue = RQ!Pri
      BY DEF TypeInv
    <3>2. \A s \in RQ!Pri : \A j \in DOMAIN rcp_queue[s] : rcp_queue[s][j] = b => b \in Elements(rcp_queue[s])
      BY DEF Elements
    <3>3. b \in Elements(rcp_queue[r])
      BY <2>3, <3>2
    <3>4. \A s \in RQ!Pri : s # r => b \notin Elements(rcp_queue[s])
      BY <3>1, <3>3 DEF OwnInv, BandsDistinct
    <3>5. \A j \in DOMAIN rcp_queue[r] : rcp_queue[r][j] = b => j = i
      BY <2>3, <3>1 DEF OwnInv, BandsDistinct, Distinct
    <3> QED
      BY <3>2, <3>4, <3>5
  <2>5. ASSUME NEW h PROVE h \in Holders(b) <=> h = <<"rcp_queue", r, i, b>>
    BY <1>2, <2>1, <2>3, <2>4, HoldersAre
  <2>6. Holders(b) = {<<"rcp_queue", r, i, b>>}
    BY <2>5
  <2> QED
    BY <2>6
<1>7. ASSUME b \in DataHand \union CopyHand \union PktHand \union RcpHand PROVE \E h : Holders(b) = {h}
  <2>1. /\ b \in DataHand => Holders(b) = {<<"driver", b>>}
        /\ b \in CopyHand => Holders(b) = {<<"copy", b>>}
        /\ b \in PktHand => Holders(b) = {<<"pkt_thread", b>>}
        /\ b \in RcpHand => Holders(b) = {<<"rcp_thread", b>>}
    BY <1>4
  <2> QED
    BY <1>7, <2>1
<1> QED
  BY <1>1, <1>3, <1>5, <1>6, <1>7

\* Every buffer that is allocated is in one place only, and no place refers to a
\* buffer that is free (gwlib_sendPktToQueue, gw_pkt_proc_main, gw_rcppktHandler).
THEOREM BuffersOwnedCorrect == Spec => []BuffersOwned
<1>1. Inv => BuffersOwned
  <2> SUFFICES ASSUME Inv, NEW b \in Bufs PROVE Cardinality(Holders(b)) = IF heap[b] = NoPkt THEN 0 ELSE 1
    BY DEF BuffersOwned
  <2>1. /\ heap[b] = NoPkt => Holders(b) = {}
        /\ heap[b] # NoPkt => \E h : Holders(b) = {h}
    BY OneHolder DEF Inv
  <2>2. Cardinality({}) = 0 /\ \A h : Cardinality({h}) = 1
    BY FS_EmptySet, FS_Singleton
  <2> QED
    BY <2>1, <2>2
<1> QED
  BY <1>1, InvHolds, PTL

\* The packets that wait are those of the buffers that bear one.
LEMMA WaitingAre ==
  ASSUME Inv, NEW no \in 1 .. accepted
  PROVE  Waiting(no) = UNION {Holders(b) : b \in {c \in Bearers : heap[c].no = no}}
<1> DEFINE served == (IF pkt_pc \in {"rcp_put", "free"} THEN {pkt_msg} ELSE {})
                        \union (IF rcp_pc = "free" THEN {rcp_msg} ELSE {})
           bufs == {b \in Bufs : heap[b].no = no}
<1>1. TypeInv /\ OwnInv
  BY DEF Inv
<1>2. no # 0
  BY <1>1 DEF TypeInv
<1>3. served = (PktHand \ Dispatching) \union (RcpHand \ Handling)
  BY <1>1 DEF TypeInv, PktHand, Dispatching, RcpHand, Handling
<1> HIDE DEF served
<1>4. Bearers \intersect served = {}
  <2>1. Dispatching \subseteq PktHand /\ Handling \subseteq RcpHand
    BY <1>1, PlacesHave
  <2>2. PktHand \ Dispatching = {} \/ Dispatching = {}
    BY DEF PktHand, Dispatching
  <2>3. RcpHand \ Handling = {} \/ Handling = {}
    BY DEF RcpHand, Handling
  <2>4. /\ DataHand \intersect (PktHand \union RcpHand) = {}
        /\ CopyHand \intersect (PktHand \union RcpHand) = {}
        /\ Bands(pkt_queue) \intersect (PktHand \union RcpHand) = {}
        /\ Bands(rcp_queue) \intersect (PktHand \union RcpHand) = {}
        /\ PktHand \intersect RcpHand = {}
    BY <1>1 DEF OwnInv
  <2> QED
    BY <1>3, <2>1, <2>2, <2>3, <2>4 DEF Bearers
<1>5. \A b \in Bufs : heap[b] # NoPkt => b \in Bearers \union served
  <2>1. \A b \in Bufs : heap[b] # NoPkt => b \in {c \in Bufs : heap[c] # NoPkt}
    OBVIOUS
  <2> QED
    BY <1>1, <1>3, <2>1 DEF OwnInv, Bearers
<1>6. \A b \in Bufs : heap[b].no = no => heap[b] # NoPkt
  BY <1>2 DEF NoPkt
<1>7. Bearers \subseteq Bufs
  BY <1>1, PlacesHave
<1>8. bufs \ served = {c \in Bearers : heap[c].no = no}
  BY <1>4, <1>5, <1>6, <1>7
<1> HIDE DEF bufs
<1>9. Waiting(no) = UNION {Holders(b) : b \in bufs \ served}
  BY DEF Waiting, bufs, served
<1> QED
  BY <1>8, <1>9

\* A packet that was handled was handled once.
LEMMA HandledOnce ==
  ASSUME Inv, NEW no
  PROVE  /\ no \notin Bands(handled) => Handlings(no) = {}
         /\ no \in Bands(handled) => \E h : Handlings(no) = {h}
<1>1. DOMAIN handled = Types /\ BandsDistinct(handled)
  BY DEF Inv, TypeInv, NumInv
<1>2. \A h : h \in Handlings(no) <=> \E type \in Types : \E i \in DOMAIN handled[type] : h = <<type, i>>
          /\ handled[type][i] = no
  BY DEF Handlings
<1>3. \A type \in Types : \A i \in DOMAIN handled[type] : handled[type][i] \in Elements(handled[type])
  BY DEF Elements
<1>4. ASSUME no \notin Bands(handled) PROVE Handlings(no) = {}
  <2>1. \A type \in Types : no \notin Elements(handled[type])
    BY <1>1, <1>4 DEF Bands
  <2> QED
    BY <1>2, <1>3, <2>1
<1>5. ASSUME no \in Bands(handled) PROVE \E h : Handlings(no) = {h}
  <2>1. PICK t \in Types : no \in Elements(handled[t])
    BY <1>1, <1>5 DEF Bands
  <2>2. PICK i \in DOMAIN handled[t] : handled[t][i] = no
    BY <2>1 DEF Elements
  <2>3. \A type \in Types : type # t => no \notin Elements(handled[type])
    BY <1>1, <2>1 DEF BandsDistinct
  <2>4. \A j \in DOMAIN handled[t] : handled[t][j] = no => j = i
    BY <1>1, <2>2 DEF BandsDistinct, Distinct
  <2>5. \A h : h \in Handlings(no) <=> h = <<t, i>>
    BY <1>2, <1>3, <2>2, <2>3, <2>4
  <2>6. Handlings(no) = {<<t, i>>}
    BY <2>5
  <2> QED
    BY <2>6
<1> QED
  BY <1>4, <1>5

\* A packet that was copied is waiting, was handled or was dropped: one of these and
\* once only, whichever put fails and however often it goes round (gw_pkt_handler_call).
THEOREM ExactlyOnceCorrect == Spec => []ExactlyOnce
<1>1. Inv => ExactlyOnce
  <2> SUFFICES ASSUME Inv, NEW no \in 1 .. accepted
               PROVE  Cardinality(Waiting(no)) + Cardinality(Handlings(no)) + (IF no \in dropped THEN 1 ELSE 0) = 1
    BY DEF ExactlyOnce
  <2>1. TypeInv /\ OwnInv /\ NumInv
    BY DEF Inv
  <2>2. Cardinality({}) = 0 /\ \A h : Cardinality({h}) = 1
    BY FS_EmptySet, FS_Singleton
  <2>3. /\ 1 .. accepted = Borne \union Bands(handled) \union dropped
        /\ Borne \intersect Bands(handled) = {} /\ Borne \intersect dropped = {}
               /\ Bands(handled) \intersect dropped = {}
    BY <2>1 DEF NumInv
  <2>4. /\ no \notin Bands(handled) => Cardinality(Handlings(no)) = 0
        /\ no \in Bands(handled) => Cardinality(Handlings(no)) = 1
    BY <2>2, HandledOnce
  <2>5. no \notin Borne => Cardinality(Waiting(no)) = 0
    <3> SUFFICES ASSUME no \notin Borne PROVE Cardinality(Waiting(no)) = 0
      OBVIOUS
    <3>1. {c \in Bearers : heap[c].no = no} = {}
      BY DEF Borne
    <3>2. Waiting(no) = {}
      BY <3>1, WaitingAre
    <3> QED
      BY <2>2, <3>2
  <2>6. no \in Borne => Cardinality(Waiting(no)) = 1
    <3> SUFFICES ASSUME no \in Borne PROVE Cardinality(Waiting(no)) = 1
      OBVIOUS
    <3>1. PICK b \in Bearers : heap[b].no = no
      BY DEF Borne
    <3>2. {c \in Bearers : heap[c].no = no} = {b}
      BY <2>1, <3>1 DEF NumInv
    <3>3. Waiting(no) = Holders(b)
      BY <3>2, WaitingAre
    <3>4. b \in Bufs /\ heap[b] # NoPkt
      BY <2>1, PlacesHave
    <3>5. \E h : Holders(b) = {h}
      BY <2>1, <3>4, OneHolder
    <3> QED
      BY <2>2, <3>3, <3>5
  <2> QED
    BY <2>3, <2>4, <2>5, <2>6
<1> QED
  BY <1>1, InvHolds, PTL

=============================================================================
