---------------------------- MODULE OsalProofs ----------------------------
(***************************************************************************)
(* Proofs about the timers and the priority queues of the OSAL.            *)
(*                                                                         *)
(* Timers (GwTimer): an allocated timer is in one place, timers are        *)
(* neither late nor early by more than the code explains, and the lists    *)
(* and the two sections of a deletion implement the one-shot timers a      *)
(* caller is promised (OneShotTimers).                                     *)
(*                                                                         *)
(* Queues (OsalPriQueue, the second half): tokens, depth and order, and    *)
(* that they implement PriQueue.                                           *)
(***************************************************************************)
EXTENDS GwTimer, OsalPriQueue, FiniteSetTheorems, WellFoundedInduction, TLAPS

\* A nonempty set of naturals has a least element.
LEMMA LeastNatural ==
  ASSUME NEW S, S \subseteq Nat, S # {}
  PROVE  \E x \in S : \A y \in S : x =< y
<1> DEFINE R == OpToRel(<, Nat)
<1>1. IsWellFoundedOn(R, Nat)
  BY NatLessThanWellFounded
<1>2. \A x, y \in Nat : y < x => <<y, x>> \in R
  BY DEF OpToRel
<1> HIDE DEF R
<1>3. PICK x \in S : \A y \in S : ~ (<<y, x>> \in R)
  BY <1>1, WFMin
<1>4. \A y \in S : ~ (y < x)
  BY <1>2, <1>3
<1>5. \A y \in S : x =< y
  BY <1>4
<1> QED
  BY <1>5

\* Sequences without repetition: lists of nodes, queues of messages.
Elements(s) == {s[i] : i \in DOMAIN s}
Distinct(s) == \A i, j \in DOMAIN s : s[i] = s[j] => i = j

\* A sequence without its i-th element.
Drop(s, i) == [j \in 1 .. Len(s) - 1 |-> IF j < i THEN s[j] ELSE s[j + 1]]

\* A new element at the tail.
LEMMA AppendDistinct ==
  ASSUME NEW S, NEW s \in Seq(S), Distinct(s), NEW x \in S, x \notin Elements(s)
  PROVE  /\ Append(s, x) \in Seq(S) /\ Len(Append(s, x)) = Len(s) + 1
         /\ Distinct(Append(s, x)) /\ Elements(Append(s, x)) = Elements(s) \union {x}
<1> DEFINE l == Append(s, x)
<1>1. l \in Seq(S) /\ Len(l) = Len(s) + 1 /\ Len(s) \in Nat
  OBVIOUS
<1>2. \A i \in 1 .. Len(l) : l[i] = IF i = Len(s) + 1 THEN x ELSE s[i]
  OBVIOUS
<1>3. DOMAIN l = 1 .. Len(l) /\ DOMAIN s = 1 .. Len(s)
  OBVIOUS
<1> HIDE DEF l
<1>4. Elements(l) = Elements(s) \union {x}
  <2>1. ASSUME NEW y \in Elements(s) PROVE y \in Elements(l)
    BY <1>1, <1>2, <1>3 DEF Elements
  <2>2. x \in Elements(l)
    <3>1. Len(l) \in 1 .. Len(l) /\ l[Len(l)] = x
      BY <1>1, <1>2
    <3> QED
      BY <1>3, <3>1 DEF Elements
  <2>3. ASSUME NEW y \in Elements(l) PROVE y = x \/ y \in Elements(s)
    <3>1. PICK i \in 1 .. Len(l) : y = l[i]
      BY <1>3 DEF Elements
    <3>2. CASE i # Len(s) + 1
      <4>1. i \in 1 .. Len(s) /\ y = s[i]
        BY <1>1, <1>2, <3>1, <3>2
      <4> QED
        BY <1>3, <4>1 DEF Elements
    <3> QED
      BY <1>2, <3>1, <3>2
  <2> QED
    BY <2>1, <2>2, <2>3
<1>5. Distinct(l)
  <2>1. \A i \in 1 .. Len(s) : s[i] # x
    BY <1>3 DEF Elements
  <2>2. \A i, j \in 1 .. Len(s) : s[i] = s[j] => i = j
    BY <1>3 DEF Distinct
  <2>3. \A i \in 1 .. Len(l) : i # Len(s) + 1 => i \in 1 .. Len(s) /\ l[i] = s[i]
    BY <1>1, <1>2
  <2>4. ASSUME NEW i \in 1 .. Len(l), NEW j \in 1 .. Len(l), l[i] = l[j] PROVE i = j
    BY <1>2, <2>1, <2>2, <2>3, <2>4
  <2> QED
    BY <1>3, <2>4 DEF Distinct
<1> QED
  BY <1>1, <1>4, <1>5 DEF l

\* The i-th element leaves.
LEMMA DropDistinct ==
  ASSUME NEW S, NEW s \in Seq(S), Distinct(s), NEW i \in DOMAIN s
  PROVE  /\ Drop(s, i) \in Seq(S) /\ Len(Drop(s, i)) = Len(s) - 1
         /\ Distinct(Drop(s, i)) /\ Elements(Drop(s, i)) = Elements(s) \ {s[i]}
<1>1. DOMAIN s = 1 .. Len(s) /\ Len(s) \in Nat /\ i \in 1 .. Len(s) /\ \A j \in 1 .. Len(s) : s[j] \in S
  OBVIOUS
<1> DEFINE l == Drop(s, i)
<1>2. \A j \in 1 .. Len(s) - 1 : l[j] = (IF j < i THEN s[j] ELSE s[j + 1]) /\ l[j] \in S
  BY <1>1 DEF Drop
<1>3. l \in Seq(S) /\ Len(l) = Len(s) - 1 /\ DOMAIN l = 1 .. Len(s) - 1
  <2>1. Len(s) - 1 \in Nat
    BY <1>1
  <2>2. l \in [1 .. Len(s) - 1 -> S]
    BY <1>2 DEF Drop
  <2> QED
    BY <2>1, <2>2
<1> HIDE DEF l
<1>4. Elements(l) = Elements(s) \ {s[i]}
  <2>1. ASSUME NEW y \in Elements(s), y # s[i] PROVE y \in Elements(l)
    <3>1. PICK k \in 1 .. Len(s) : y = s[k] /\ k # i
      BY <1>1, <2>1 DEF Elements
    <3>2. CASE k < i
      <4>1. k \in 1 .. Len(s) - 1 /\ l[k] = y
        BY <1>1, <1>2, <3>1, <3>2
      <4> QED
        BY <1>3, <4>1 DEF Elements
    <3>3. CASE k > i
      <4>1. k - 1 \in 1 .. Len(s) - 1 /\ ~(k - 1 < i) /\ (k - 1) + 1 = k
        BY <1>1, <3>3
      <4>2. l[k - 1] = y
        BY <1>2, <3>1, <4>1
      <4> QED
        BY <1>3, <4>1, <4>2 DEF Elements
    <3> QED
      BY <1>1, <3>1, <3>2, <3>3
  <2>2. ASSUME NEW y \in Elements(l) PROVE y \in Elements(s) /\ y # s[i]
    <3>1. PICK k \in 1 .. Len(s) - 1 : y = l[k]
      BY <1>3 DEF Elements
    <3>2. PICK m \in 1 .. Len(s) : y = s[m] /\ m # i
      BY <1>1, <1>2, <3>1
    <3> QED
      BY <1>1, <3>2 DEF Elements, Distinct
  <2> QED
    BY <2>1, <2>2
<1>5. Distinct(l)
  <2>1. \A j, k \in 1 .. Len(s) : s[j] = s[k] => j = k
    BY <1>1 DEF Distinct
  <2>2. ASSUME NEW j \in 1 .. Len(s) - 1, NEW k \in 1 .. Len(s) - 1, l[j] = l[k] PROVE j = k
    <3> DEFINE a == IF j < i THEN j ELSE j + 1
               b == IF k < i THEN k ELSE k + 1
    <3>1. a \in 1 .. Len(s) /\ b \in 1 .. Len(s) /\ l[j] = s[a] /\ l[k] = s[b]
      BY <1>1, <1>2
    <3>2. a = b
      BY <2>1, <2>2, <3>1
    <3> QED
      BY <1>1, <3>2
  <2> QED
    BY <1>3, <2>2 DEF Distinct
<1> QED
  BY <1>3, <1>4, <1>5 DEF l

\* The head leaves.
LEMMA TailDistinct ==
  ASSUME NEW S, NEW s \in Seq(S), Distinct(s), s # <<>>
  PROVE  /\ Head(s) \in Elements(s) /\ Tail(s) \in Seq(S) /\ Len(Tail(s)) = Len(s) - 1
         /\ Distinct(Tail(s)) /\ Elements(Tail(s)) = Elements(s) \ {Head(s)}
<1>1. 1 \in DOMAIN s /\ Head(s) = s[1]
  OBVIOUS
<1>2. Tail(s) = Drop(s, 1)
  <2>1. Tail(s) = [j \in 1 .. Len(s) - 1 |-> s[j + 1]]
    <3>1. Tail(s) \in Seq(S) /\ Len(Tail(s)) = Len(s) - 1
      OBVIOUS
    <3>2. \A j \in 1 .. Len(s) - 1 : Tail(s)[j] = s[j + 1]
      OBVIOUS
    <3>3. Tail(s) = [j \in 1 .. Len(Tail(s)) |-> Tail(s)[j]]
      <4> HIDE <3>2
      <4>1. \A q \in Seq(S) : q = [j \in 1 .. Len(q) |-> q[j]]
        OBVIOUS
      <4> QED
        BY <3>1, <4>1, Zenon
    <3> QED
      BY <3>1, <3>2, <3>3, Zenon
  <2>2. Drop(s, 1) = [j \in 1 .. Len(s) - 1 |-> s[j + 1]]
    BY DEF Drop
  <2> QED
    BY <2>1, <2>2
<1>3. /\ Drop(s, 1) \in Seq(S) /\ Len(Drop(s, 1)) = Len(s) - 1
      /\ Distinct(Drop(s, 1)) /\ Elements(Drop(s, 1)) = Elements(s) \ {s[1]}
  BY <1>1, DropDistinct
<1>4. s[1] \in Elements(s)
  BY <1>1 DEF Elements
<1> QED
  BY <1>1, <1>2, <1>3, <1>4, Zenon

\* A set that an injective f maps the elements onto has one element per place.
LEMMA DistinctLength ==
  ASSUME NEW S, NEW s \in Seq(S), Distinct(s), NEW R, NEW f \in [Elements(s) -> R],
         \A x, y \in Elements(s) : f[x] = f[y] => x = y,
         \A y \in R : \E x \in Elements(s) : f[x] = y
  PROVE  Cardinality(R) = Len(s)
<1> DEFINE g == [i \in 1 .. Len(s) |-> f[s[i]]]
<1>1. DOMAIN s = 1 .. Len(s) /\ Len(s) \in Nat
  OBVIOUS
<1>2. g \in Bijection(1 .. Len(s), R)
  <2>1. \A i \in 1 .. Len(s) : s[i] \in Elements(s) /\ g[i] = f[s[i]]
    BY <1>1 DEF Elements
  <2>2. g \in [1 .. Len(s) -> R]
    BY <2>1
  <2>3. \A i, j \in 1 .. Len(s) : g[i] = g[j] => i = j
    BY <1>1, <2>1 DEF Distinct
  <2>4. ASSUME NEW y \in R PROVE \E i \in 1 .. Len(s) : g[i] = y
    <3>1. PICK x \in Elements(s) : y = f[x]
      BY <2>4
    <3>2. PICK i \in 1 .. Len(s) : x = s[i]
      BY <1>1, <3>1 DEF Elements
    <3> QED
      BY <2>1, <3>1, <3>2
  <2> HIDE DEF g
  <2> QED
    BY <2>2, <2>3, <2>4 DEF Bijection, Injection, Surjection, IsInjective
<1>3. ExistsBijection(1 .. Len(s), R)
  BY <1>2 DEF ExistsBijection
<1> QED
  BY <1>1, <1>3, FS_CountingElements
-----------------------------------------------------------------------------

\* The walk of Selected, place by place.
Walk(list, S, n, g) ==
  g = [i \in 0 .. n |-> IF i = 0 THEN <<>>
                        ELSE IF list[i] \in S THEN Append(g[i - 1], list[i]) ELSE g[i - 1]]

\* Every list has one, by the least length that has none.
LEMMA WalkExists ==
  ASSUME NEW list, NEW S, NEW n \in Nat
  PROVE  \E g : Walk(list, S, n, g)
<1> DEFINE bad == {m \in Nat : ~ \E g : Walk(list, S, m, g)}
<1>1. ASSUME bad # {} PROVE FALSE
  <2>1. PICK m \in bad : \A k \in bad : m =< k
    BY <1>1, LeastNatural
  <2>2. CASE m = 0
    <3> DEFINE g == [i \in 0 .. 0 |-> <<>>]
    <3>1. Walk(list, S, 0, g)
      BY DEF Walk
    <3> QED
      BY <2>1, <2>2, <3>1
  <2>3. CASE m # 0
    <3>1. m - 1 \in Nat /\ m - 1 \notin bad
      BY <2>1, <2>3
    <3>2. PICK g : Walk(list, S, m - 1, g)
      BY <3>1
    <3> DEFINE h == [i \in 0 .. m |->
                       IF i < m THEN g[i]
                       ELSE IF list[i] \in S THEN Append(g[i - 1], list[i]) ELSE g[i - 1]]
    <3>3. \A i \in 0 .. m - 1 :
            g[i] = IF i = 0 THEN <<>>
                   ELSE IF list[i] \in S THEN Append(g[i - 1], list[i]) ELSE g[i - 1]
      BY <3>1, <3>2 DEF Walk
    <3>4. \A i \in 0 .. m :
            h[i] = IF i = 0 THEN <<>>
                   ELSE IF list[i] \in S THEN Append(h[i - 1], list[i]) ELSE h[i - 1]
      <4> TAKE i \in 0 .. m
      <4>1. CASE i = 0
        BY <2>1, <2>3, <3>1, <3>3, <4>1
      <4>2. CASE i # 0
        <5>1. i - 1 \in 0 .. m /\ i - 1 < m /\ h[i - 1] = g[i - 1]
          BY <2>1, <4>2
        <5>2. CASE i < m
          <6>1. i \in 0 .. m - 1 /\ h[i] = g[i]
            BY <2>1, <5>2
          <6> QED
            BY <3>3, <4>2, <5>1, <6>1
        <5>3. CASE i = m
          BY <4>2, <5>1, <5>3
        <5> QED
          BY <2>1, <5>2, <5>3
      <4> QED
        BY <4>1, <4>2
    <3>5. h = [i \in 0 .. m |-> h[i]]
      OBVIOUS
    <3> HIDE DEF h
    <3>6. Walk(list, S, m, h)
      BY <3>4, <3>5 DEF Walk
    <3> QED
      BY <2>1, <3>6
  <2> QED
    BY <2>2, <2>3
<1> QED
  BY <1>1

\* Selected is where the walk ends.
LEMMA SelectedWalk ==
  ASSUME NEW list, NEW S, Len(list) \in Nat
  PROVE  \E g : Walk(list, S, Len(list), g) /\ Selected(list, S) = g[Len(list)]
<1> DEFINE n == Len(list)
           F == CHOOSE g : Walk(list, S, n, g)
<1>1. Walk(list, S, n, F)
  BY WalkExists
<1>2. Selected(list, S) = F[n]
  BY DEF Selected, Walk
<1> QED
  BY <1>1, <1>2

\* What a walk selects: the elements of the list that are in S, each once if the
\* list has each once.
LEMMA SelectedElements ==
  ASSUME NEW T, NEW list \in Seq(T), Distinct(list), NEW S
  PROVE  /\ Selected(list, S) \in Seq(T) /\ Distinct(Selected(list, S))
         /\ Elements(Selected(list, S)) = Elements(list) \intersect S
<1> DEFINE n == Len(list)
           First(i) == {list[j] : j \in 1 .. i} \intersect S
<1>1. n \in Nat /\ DOMAIN list = 1 .. n /\ \A i \in 1 .. n : list[i] \in T
  OBVIOUS
<1>2. PICK g : Walk(list, S, n, g) /\ Selected(list, S) = g[n]
  BY <1>1, SelectedWalk
<1>3. g[0] = <<>>
  BY <1>1, <1>2 DEF Walk
<1>4. \A i \in 1 .. n : g[i] = IF list[i] \in S THEN Append(g[i - 1], list[i]) ELSE g[i - 1]
  <2>1. \A m \in Nat : Walk(list, S, m, g) =>
          \A i \in 1 .. m : g[i] = IF list[i] \in S THEN Append(g[i - 1], list[i]) ELSE g[i - 1]
    <3> SUFFICES ASSUME NEW m \in Nat, Walk(list, S, m, g), NEW i \in 1 .. m
                 PROVE  g[i] = IF list[i] \in S THEN Append(g[i - 1], list[i]) ELSE g[i - 1]
      OBVIOUS
    <3>1. i \in 0 .. m /\ i # 0
      OBVIOUS
    <3> QED
      BY <3>1 DEF Walk
  <2> QED
    BY <1>1, <1>2, <2>1
<1>5. \A i, j \in 1 .. n : list[i] = list[j] => i = j
  BY <1>1 DEF Distinct
<1> HIDE <1>2
<1> DEFINE Right(i) == g[i] \in Seq(T) /\ Distinct(g[i]) /\ Elements(g[i]) = First(i)
           bad == {i \in 0 .. n : ~ Right(i)}
<1>6. ASSUME bad # {} PROVE FALSE
  <2>1. bad \subseteq Nat
    BY <1>1
  <2>2. PICK i \in bad : \A k \in bad : i =< k
    BY <1>6, <2>1, LeastNatural
  <2>3. CASE i = 0
    <3>1. <<>> \in Seq(T) /\ Distinct(<<>>) /\ Elements(<<>>) = {}
      BY DEF Distinct, Elements
    <3>2. First(0) = {}
      BY <1>1
    <3> QED
      BY <1>3, <2>2, <2>3, <3>1, <3>2
  <2>4. CASE i # 0
    <3>1. i \in 1 .. n /\ i - 1 \in 0 .. n /\ i - 1 < i
      BY <1>1, <2>2, <2>4
    <3>2. Right(i - 1)
      <4> HIDE DEF Right
      <4>1. i - 1 \notin bad
        BY <2>1, <2>2, <3>1
      <4> QED
        BY <3>1, <4>1
    <3>3. list[i] \notin First(i - 1)
      BY <1>5, <3>1
    <3>4. First(i) = First(i - 1) \union ({list[i]} \intersect S)
      BY <1>1, <3>1
    <3>5. list[i] \in T
      BY <1>1, <3>1
    <3> HIDE DEF First
    <3>6. CASE list[i] \in S
      <4>1. g[i] = Append(g[i - 1], list[i])
        BY <1>4, <3>1, <3>6
      <4>2. Right(i)
        BY <3>2, <3>3, <3>4, <3>5, <3>6, <4>1, AppendDistinct
      <4> QED
        BY <2>2, <4>2
    <3>7. CASE list[i] \notin S
      <4>1. g[i] = g[i - 1]
        BY <1>4, <3>1, <3>7
      <4>2. First(i) = First(i - 1)
        BY <3>4, <3>7
      <4> QED
        BY <2>2, <3>2, <4>1, <4>2
    <3> QED
      BY <3>6, <3>7
  <2> QED
    BY <2>3, <2>4
<1>7. Right(n)
  BY <1>1, <1>6
<1>8. First(n) = Elements(list) \intersect S
  BY <1>1 DEF Elements
<1> HIDE DEF First
<1> QED
  BY <1>2, <1>7, <1>8

\* The list with t where gw_start_timer puts it.
LEMMA InsertSortedElements ==
  ASSUME NEW T, NEW list \in Seq(T), Distinct(list), NEW t \in T, t \notin Elements(list), NEW n
  PROVE  /\ InsertSorted(list, t, n) \in Seq(T) /\ Distinct(InsertSorted(list, t, n))
         /\ Elements(InsertSorted(list, t, n)) = Elements(list) \union {t}
<1> DEFINE longer == {i \in DOMAIN list : remain_interval[list[i]] > n}
           place == IF longer = {} THEN Len(list) + 1
                    ELSE CHOOSE i \in longer : \A j \in longer : i =< j
           l == InsertSorted(list, t, n)
<1>1. Len(list) \in Nat /\ DOMAIN list = 1 .. Len(list) /\ \A i \in 1 .. Len(list) : list[i] \in T
  OBVIOUS
<1>2. place \in 1 .. Len(list) + 1
  <2>1. CASE longer # {}
    <3>1. longer \subseteq 1 .. Len(list) /\ longer \subseteq Nat
      BY <1>1
    <3>2. \E i \in longer : \A j \in longer : i =< j
      BY <2>1, <3>1, LeastNatural
    <3>3. place \in longer
      BY <2>1, <3>2
    <3> QED
      BY <1>1, <3>1, <3>3
  <2>2. CASE longer = {}
    BY <1>1, <2>2
  <2> QED
    BY <2>1, <2>2
<1>3. l = [i \in 1 .. Len(list) + 1 |->
             IF i < place THEN list[i] ELSE IF i = place THEN t ELSE list[i - 1]]
  BY DEF InsertSorted
<1> HIDE DEF l, place
<1>4. \A i \in 1 .. Len(list) : i < place => l[i] = list[i]
  BY <1>1, <1>2, <1>3
<1>5. \A i \in 1 .. Len(list) : ~ (i < place) => l[i + 1] = list[i]
  BY <1>1, <1>2, <1>3
<1>6. l[place] = t
  BY <1>1, <1>2, <1>3
<1>7. \A i \in 1 .. Len(list) + 1 :
        i = place \/ \E k \in 1 .. Len(list) : l[i] = list[k] /\ i = (IF k < place THEN k ELSE k + 1)
  <2> TAKE i \in 1 .. Len(list) + 1
  <2>1. CASE i < place
    BY <1>1, <1>2, <1>4, <2>1
  <2>2. CASE i > place
    <3>1. i - 1 \in 1 .. Len(list) /\ ~ (i - 1 < place) /\ (i - 1) + 1 = i
      BY <1>1, <1>2, <2>2
    <3> QED
      BY <1>5, <3>1
  <2> QED
    BY <1>1, <1>2, <2>1, <2>2
<1>8. l \in Seq(T) /\ DOMAIN l = 1 .. Len(list) + 1
  <2>1. \A i \in 1 .. Len(list) + 1 : l[i] \in T
    BY <1>1, <1>6, <1>7
  <2>2. DOMAIN l = 1 .. Len(list) + 1 /\ l = [i \in 1 .. Len(list) + 1 |-> l[i]]
    BY <1>3
  <2>3. l \in [1 .. Len(list) + 1 -> T] /\ Len(list) + 1 \in Nat
    BY <1>1, <2>1, <2>2
  <2> QED
    BY <2>2, <2>3
<1>9. Elements(l) = Elements(list) \union {t}
  <2>1. ASSUME NEW y \in Elements(list) PROVE y \in Elements(l)
    <3>1. PICK k \in 1 .. Len(list) : y = list[k]
      BY <1>1 DEF Elements
    <3>2. k \in 1 .. Len(list) + 1 /\ k + 1 \in 1 .. Len(list) + 1
      BY <1>1
    <3>3. y = l[k] \/ y = l[k + 1]
      BY <1>4, <1>5, <3>1
    <3> QED
      BY <1>8, <3>2, <3>3 DEF Elements
  <2>2. t \in Elements(l)
    BY <1>2, <1>6, <1>8 DEF Elements
  <2>3. ASSUME NEW y \in Elements(l) PROVE y = t \/ y \in Elements(list)
    <3>1. PICK i \in 1 .. Len(list) + 1 : y = l[i]
      BY <1>8 DEF Elements
    <3>2. i = place \/ \E k \in 1 .. Len(list) : y = list[k]
      BY <1>7, <3>1
    <3> QED
      BY <1>1, <1>6, <3>1, <3>2 DEF Elements
  <2> QED
    BY <2>1, <2>2, <2>3
<1>10. Distinct(l)
  <2>1. \A k \in 1 .. Len(list) : list[k] # t
    BY <1>1 DEF Elements
  <2>2. \A j, k \in 1 .. Len(list) : list[j] = list[k] => j = k
    BY <1>1 DEF Distinct
  <2>3. ASSUME NEW i \in 1 .. Len(list) + 1, NEW j \in 1 .. Len(list) + 1, l[i] = l[j] PROVE i = j
    BY <1>6, <1>7, <2>1, <2>2, <2>3
  <2> QED
    BY <1>8, <2>3 DEF Distinct
<1> QED
  BY <1>8, <1>9, <1>10 DEF l
-----------------------------------------------------------------------------
\* The inductive invariant.

\* Where allocated timers are: each once in one list or with the timer thread,
\* and one that is in no such place is being deleted by a client.
ListInv ==
  /\ Distinct(timer_list) /\ Distinct(expire_list)
  /\ Elements(timer_list) \intersect Elements(expire_list) = {}
  /\ cur \notin Elements(timer_list) /\ cur \notin Elements(expire_list)
  /\ Elements(timer_list) \subseteq live /\ Elements(expire_list) \subseteq live
  /\ cur # NoTimer => cur \in live
  /\ \A t \in live : t \in Elements(timer_list) \/ t \in Elements(expire_list) \/ t = cur
                       \/ \E c \in Clients : target[c] = t

\* Whoever has told a timer to stop has yet to destroy it.
FlagInv ==
  \A t \in live : stop_flag[t] = "stopped" =>
    \E c \in Clients : target[c] = t /\ pc[c] \in {"stop", "remove", "destroy"}

ThreadInv ==
  /\ tick_pc \in {"delay", "tick"} => expire_list = <<>>
  /\ cur = NoTimer <=> tick_pc \in {"delay", "tick", "expire", "measure"}
  /\ tick_pc \in {"finish", "start", "measure"} => past \in Timers

ClientInv ==
  \A c \in Clients :
    /\ pc[c] = "idle" <=> target[c] = NoTimer
    /\ found[c] => pc[c] \in {"remove", "destroy", "free"}
    /\ pc[c] = "remove" => found[c]

\* What is left of an interval, what the timer has lived of it, and what is taken
\* off for ticks before its time make up the interval and what the next pass
\* takes off.
ClockInv ==
  \A t \in Elements(timer_list) : remain_interval[t] + age[t] + ahead[t] = interval[t] + Pending

Inv ==
  /\ TypeOK /\ ThreadInv /\ ClientInv /\ ClockInv
  /\ ~ undefined => ListInv /\ FlagInv

LEMMA ListedElements == Listed = Elements(timer_list) /\ Listed' = Elements(timer_list)'
BY DEF Listed, Elements

\* The invariant holds at first.
LEMMA InitInv == Init => Inv
<1> SUFFICES ASSUME Init PROVE Inv
  OBVIOUS
<1> USE DEF Init
<1>1. <<>> \in Seq(Timers) /\ Distinct(<<>>) /\ Elements(<<>>) = {}
  BY DEF Distinct, Elements
<1>2. TypeOK
  BY <1>1 DEF TypeOK
<1>3. ThreadInv /\ ClientInv
  BY DEF ThreadInv, ClientInv
<1>4. ClockInv /\ ListInv /\ FlagInv
  BY <1>1, TimerAssumption DEF ClockInv, ListInv, FlagInv
<1> QED
  BY <1>2, <1>3, <1>4 DEF Inv

\* Nothing that the parts of the invariant are about has changed.
LEMMA ListKept ==
  ASSUME ListInv, UNCHANGED <<live, timer_list, expire_list, cur, target>>
  PROVE  ListInv'
BY DEF ListInv, Elements, Distinct

LEMMA FlagKept ==
  ASSUME FlagInv, UNCHANGED <<live, stop_flag, target, pc>>
  PROVE  FlagInv'
BY DEF FlagInv

LEMMA ClientKept ==
  ASSUME ClientInv, UNCHANGED clientVars
  PROVE  ClientInv'
BY DEF ClientInv, clientVars

LEMMA ClockKept ==
  ASSUME ClockInv, UNCHANGED <<interval, remain_interval, timer_list, ageVars>>, Pending' = Pending
  PROVE  ClockInv'
BY DEF ClockInv, Elements, ageVars

LEMMA ThreadKept ==
  ASSUME ThreadInv, UNCHANGED <<expire_list, tick_pc, cur, past>>
  PROVE  ThreadInv'
BY DEF ThreadInv

LEMMA PendingKept ==
  ASSUME UNCHANGED <<tick_pc, delta, spent>>
  PROVE  Pending' = Pending
BY DEF Pending
-----------------------------------------------------------------------------
\* A timer that is started counts from now.
LEMMA StartTimerDoes ==
  ASSUME TypeOK, ClockInv, Distinct(timer_list), NEW t \in Timers, t \notin Elements(timer_list),
         NEW n \in Nat, StartTimer(t, n),
         \A u \in Timers \ {t} : interval'[u] = interval[u], interval'[t] = n, Pending' = Pending
  PROVE  /\ timer_list' \in Seq(Timers) /\ remain_interval' \in [Timers -> Nat]
         /\ age' \in [Timers -> Nat] /\ ahead' \in [Timers -> Nat]
         /\ Distinct(timer_list') /\ Elements(timer_list') = Elements(timer_list) \union {t}
         /\ ClockInv'
<1>1. timer_list \in Seq(Timers)
  BY DEF TypeOK
<1>2. timer_list' = InsertSorted(timer_list, t, n)
  BY DEF StartTimer
<1>3. /\ timer_list' \in Seq(Timers) /\ Distinct(timer_list')
      /\ Elements(timer_list') = Elements(timer_list) \union {t}
  BY <1>1, <1>2, InsertSortedElements
<1>4. Pending \in Nat
  BY DEF TypeOK, Pending
<1>5. /\ remain_interval' = [remain_interval EXCEPT ![t] = n]
      /\ age' = [age EXCEPT ![t] = 0] /\ ahead' = [ahead EXCEPT ![t] = Pending]
  BY DEF StartTimer
<1>6. /\ remain_interval \in [Timers -> Nat] /\ age \in [Timers -> Nat] /\ ahead \in [Timers -> Nat]
      /\ interval \in [Timers -> Intervals \union {0}]
  BY DEF TypeOK
<1>7. /\ remain_interval' \in [Timers -> Nat] /\ age' \in [Timers -> Nat] /\ ahead' \in [Timers -> Nat]
  BY <1>4, <1>5, <1>6
<1>8. Elements(timer_list) \subseteq Timers
  BY <1>1 DEF Elements
<1>9. ClockInv'
  <2> SUFFICES ASSUME NEW u \in Elements(timer_list')
               PROVE  remain_interval'[u] + age'[u] + ahead'[u] = interval'[u] + Pending'
    BY DEF ClockInv, Elements
  <2>1. CASE u = t
    <3>1. remain_interval'[u] = n /\ age'[u] = 0 /\ ahead'[u] = Pending
      BY <1>5, <1>6, <2>1
    <3> QED
      BY <1>4, <2>1, <3>1
  <2>2. CASE u # t
    <3>1. u \in Elements(timer_list) /\ u \in Timers
      BY <1>3, <1>8, <2>2
    <3>2. remain_interval'[u] = remain_interval[u] /\ age'[u] = age[u] /\ ahead'[u] = ahead[u]
      BY <1>5, <1>6, <2>2
    <3>3. remain_interval[u] + age[u] + ahead[u] = interval[u] + Pending
      BY <3>1 DEF ClockInv
    <3> QED
      BY <2>2, <3>1, <3>2, <3>3
  <2> QED
    BY <2>1, <2>2
<1> QED
  BY <1>3, <1>7, <1>9

\* A new timer is in no place before and in the list after.
LEMMA AddKeeps ==
  ASSUME Inv, ~ undefined, NEW c \in Clients, NEW t \in Timers, NEW type \in {"once", "circle"},
         NEW n \in Intervals, Add(c, t, type, n)
  PROVE  Inv'
<1> USE DEF Inv
<1>1. /\ pc[c] = "idle" /\ t \notin live /\ live' = live \union {t}
      /\ timer_type' = [timer_type EXCEPT ![t] = type]
      /\ interval' = [interval EXCEPT ![t] = n]
      /\ stop_flag' = [stop_flag EXCEPT ![t] = "running"]
      /\ StartTimer(t, n)
      /\ held' = [held EXCEPT ![c] = IF type \in Deletable THEN @ \union {t} ELSE @]
      /\ UNCHANGED <<expire_list, delta, spent, tick_pc, cur, pc, target, found, took, past, peek, undefined>>
  BY DEF Add, threadVars, peekVars
<1>2. n \in Nat /\ t \notin Elements(timer_list)
  BY <1>1, TimerAssumption DEF ListInv
<1>3. /\ interval \in [Timers -> Intervals \union {0}]
      /\ \A u \in Timers \ {t} : interval'[u] = interval[u]
      /\ interval'[t] = n
  BY <1>1 DEF TypeOK
<1>4. Pending' = Pending
  BY <1>1, PendingKept
<1>5. /\ timer_list' \in Seq(Timers) /\ remain_interval' \in [Timers -> Nat]
      /\ age' \in [Timers -> Nat] /\ ahead' \in [Timers -> Nat]
      /\ Distinct(timer_list') /\ Elements(timer_list') = Elements(timer_list) \union {t}
      /\ ClockInv'
  BY <1>1, <1>2, <1>3, <1>4, StartTimerDoes DEF ListInv
<1>6. TypeOK'
  <2>1. held' \in [Clients -> SUBSET Timers]
    BY <1>1 DEF TypeOK
  <2>2. /\ timer_type' \in [Timers -> {"once", "circle"}] /\ interval' \in [Timers -> Intervals \union {0}]
        /\ stop_flag' \in [Timers -> {"running", "stopped", "destroyed"}] /\ live' \subseteq Timers
    BY <1>1 DEF TypeOK
  <2> QED
    BY <1>1, <1>5, <2>1, <2>2 DEF TypeOK
<1>7. ThreadInv' /\ ClientInv'
  BY <1>1, ThreadKept, ClientKept DEF ThreadInv, ClientInv
<1>8. ListInv'
  <2>1. Elements(expire_list') = Elements(expire_list) /\ Distinct(expire_list')
    BY <1>1 DEF ListInv
  <2>2. t # cur /\ t \notin Elements(expire_list)
    BY <1>1, TimerAssumption DEF ListInv
  <2>3. cur' = cur /\ target' = target
    BY <1>1
  <2> HIDE DEF Inv
  <2>4. ListInv
    BY DEF Inv
  <2> QED
    BY <1>1, <1>5, <2>1, <2>2, <2>3, <2>4 DEF ListInv
<1>9. FlagInv'
  <2>1. \A u \in live : stop_flag'[u] = "stopped" => stop_flag[u] = "stopped"
    BY <1>1 DEF TypeOK
  <2>2. stop_flag'[t] = "running"
    BY <1>1 DEF TypeOK
  <2> QED
    BY <1>1, <2>1, <2>2 DEF FlagInv
<1> QED
  BY <1>5, <1>6, <1>7, <1>8, <1>9
-----------------------------------------------------------------------------
\* The five steps of a deletion.
LEMMA DelBeginKeeps ==
  ASSUME Inv, ~ undefined, NEW c \in Clients, NEW t \in Timers, DelBegin(c, t)
  PROVE  Inv'
<1> USE DEF Inv
<1>1. /\ pc[c] = "idle" /\ pc' = [pc EXCEPT ![c] = "stop"]
      /\ target' = [target EXCEPT ![c] = t]
      /\ held' = [held EXCEPT ![c] = @ \ {t}]
      /\ undefined' = (t \notin live)
      /\ stop_flag' = [stop_flag EXCEPT ![t] = "stopped"]
      /\ UNCHANGED <<live, timer_type, interval, remain_interval, timer_list, expire_list,
                     delta, spent, tick_pc, cur, found, age, ahead, took, past, peek>>
  BY DEF DelBegin, DelStep, SetFlag, threadVars, ageVars, peekVars
<1>2. TypeOK'
  BY <1>1 DEF TypeOK
<1>3. ThreadInv'
  BY <1>1, ThreadKept
<1>4. ClientInv'
  BY <1>1, TimerAssumption DEF ClientInv, TypeOK
<1>5. Pending' = Pending
  BY <1>1, PendingKept
<1>6. ClockInv'
  BY <1>1, <1>5, ClockKept DEF ageVars
<1>7. ListInv'
  <2>1. target[c] = NoTimer
    BY <1>1 DEF ClientInv
  <2>2. \A u \in Timers, d \in Clients : target[d] = u => target'[d] = u
    BY <1>1, <2>1, TimerAssumption DEF TypeOK
  <2>3. live \subseteq Timers
    BY DEF TypeOK
  <2>4. ListInv
    OBVIOUS
  <2> HIDE DEF Inv
  <2>5. Elements(timer_list') = Elements(timer_list) /\ Elements(expire_list') = Elements(expire_list)
    BY <1>1
  <2> QED
    BY <1>1, <2>2, <2>3, <2>4, <2>5 DEF ListInv
<1>8. FlagInv'
  <2>1. target'[c] = t /\ pc'[c] = "stop"
    BY <1>1 DEF TypeOK
  <2>2. \A d \in Clients : d # c => target'[d] = target[d] /\ pc'[d] = pc[d]
    BY <1>1 DEF TypeOK
  <2>3. \A u \in live : u # t => stop_flag'[u] = stop_flag[u]
    BY <1>1 DEF TypeOK
  <2>4. FlagInv /\ pc[c] \notin {"stop", "remove", "destroy"}
    BY <1>1
  <2> QED
    BY <1>1, <2>1, <2>2, <2>3, <2>4 DEF FlagInv
<1> QED
  BY <1>2, <1>3, <1>4, <1>6, <1>7, <1>8

LEMMA DelLookupKeeps ==
  ASSUME Inv, ~ undefined, NEW c \in Clients, DelLookup(c)
  PROVE  Inv'
<1> USE DEF Inv
<1>1. /\ pc[c] = "stop"
      /\ pc' = [pc EXCEPT ![c] = IF target[c] \in Listed THEN "remove" ELSE "destroy"]
      /\ found' = [found EXCEPT ![c] = target[c] \in Listed]
      /\ UNCHANGED <<live, timer_type, interval, remain_interval, stop_flag, timer_list, expire_list,
                     delta, spent, tick_pc, cur, held, target, age, ahead, took, past, peek, undefined>>
  BY DEF DelLookup, DelStep, threadVars, ageVars, fields, peekVars
<1>2. TypeOK'
  <2>1. (target[c] \in Listed) \in BOOLEAN
    OBVIOUS
  <2>2. found' \in [Clients -> BOOLEAN]
    BY <1>1, <2>1 DEF TypeOK
  <2>3. pc' \in [Clients -> {"idle", "stop", "remove", "destroy", "free"}]
    BY <1>1 DEF TypeOK
  <2> QED
    BY <1>1, <2>2, <2>3 DEF TypeOK
<1>3. ThreadInv'
  BY <1>1, ThreadKept
<1>4. ClientInv'
  <2>1. \/ found'[c] = TRUE /\ pc'[c] = "remove"
        \/ found'[c] = FALSE /\ pc'[c] = "destroy"
    <3>1. CASE target[c] \in Listed
      <4>1. found' = [found EXCEPT ![c] = TRUE] /\ pc' = [pc EXCEPT ![c] = "remove"]
        BY <1>1, <3>1, Zenon
      <4> QED
        BY <4>1 DEF TypeOK
    <3>2. CASE target[c] \notin Listed
      <4>0. (target[c] \in Listed) = FALSE
        BY <3>2
      <4>1. found' = [found EXCEPT ![c] = FALSE] /\ pc' = [pc EXCEPT ![c] = "destroy"]
        BY <1>1, <4>0, Zenon
      <4> QED
        BY <4>1 DEF TypeOK
    <3> QED
      BY <3>1, <3>2
  <2>2. \A d \in Clients : d # c => found'[d] = found[d] /\ pc'[d] = pc[d]
    BY <1>1 DEF TypeOK
  <2>3. target[c] # NoTimer
    BY <1>1 DEF ClientInv
  <2>4. \A d \in Clients : /\ pc'[d] = "idle" <=> target'[d] = NoTimer
                           /\ found'[d] => pc'[d] \in {"remove", "destroy", "free"}
                           /\ pc'[d] = "remove" => found'[d]
    <3> TAKE d \in Clients
    <3>1. CASE d = c
      BY <1>1, <2>1, <2>3, <3>1
    <3>2. CASE d # c
      BY <1>1, <2>2, <3>2 DEF ClientInv
    <3> QED
      BY <3>1, <3>2
  <2> QED
    BY <2>4 DEF ClientInv
<1>5. Pending' = Pending
  BY <1>1, PendingKept
<1>6. ClockInv'
  BY <1>1, <1>5, ClockKept DEF ageVars
<1>7. ListInv'
  BY <1>1, ListKept
<1>8. FlagInv'
  <2>1. pc'[c] \in {"stop", "remove", "destroy"}
    BY <1>1 DEF TypeOK
  <2>2. \A d \in Clients : d # c => pc'[d] = pc[d]
    BY <1>1 DEF TypeOK
  <2> QED
    BY <1>1, <2>1, <2>2 DEF FlagInv
<1> QED
  BY <1>1, <1>2, <1>3, <1>4, <1>6, <1>7, <1>8

LEMMA DelRemoveKeeps ==
  ASSUME Inv, ~ undefined, NEW c \in Clients, DelRemove(c)
  PROVE  Inv'
<1> USE DEF Inv
<1>1. /\ pc[c] = "remove" /\ pc' = [pc EXCEPT ![c] = "destroy"]
      /\ undefined' = (target[c] \notin Listed)
      /\ timer_list' = Without(timer_list, target[c])
      /\ age' = [age EXCEPT ![target[c]] = 0]
      /\ ahead' = [ahead EXCEPT ![target[c]] = 0]
      /\ UNCHANGED <<live, timer_type, interval, remain_interval, stop_flag, expire_list,
                     delta, spent, tick_pc, cur, held, target, found, took, past, peek>>
  BY DEF DelRemove, DelStep, threadVars, fields, peekVars
<1>2. target[c] \in Timers
  BY <1>1 DEF ClientInv, TypeOK
<1>3. /\ timer_list' \in Seq(Timers) /\ Distinct(timer_list')
      /\ Elements(timer_list') = Elements(timer_list) \ {target[c]}
  <2>1. timer_list \in Seq(Timers) /\ Distinct(timer_list)
    BY DEF TypeOK, ListInv
  <2>2. Elements(timer_list) \subseteq Timers
    BY <2>1 DEF Elements
  <2> QED
    BY <1>1, <2>1, <2>2, SelectedElements DEF Without
<1>4. TypeOK'
  BY <1>1, <1>3 DEF TypeOK
<1>5. ThreadInv'
  BY <1>1, ThreadKept
<1>6. ClientInv'
  BY <1>1 DEF ClientInv, TypeOK
<1>7. Pending' = Pending
  BY <1>1, PendingKept
<1>8. ClockInv'
  <2>1. Elements(timer_list) \subseteq live /\ live \subseteq Timers
    BY DEF ListInv, TypeOK
  <2>2. \A u \in Elements(timer_list) \ {target[c]} : age'[u] = age[u] /\ ahead'[u] = ahead[u]
    BY <1>1, <2>1 DEF TypeOK
  <2> QED
    BY <1>1, <1>3, <1>7, <2>2 DEF ClockInv
<1>9. ListInv'
  <2>1. ListInv
    OBVIOUS
  <2>2. Elements(expire_list') = Elements(expire_list) /\ Distinct(expire_list')
    BY <1>1 DEF ListInv
  <2>3. cur' = cur /\ live' = live /\ target' = target
    BY <1>1
  <2> HIDE DEF Inv
  <2> QED
    BY <1>3, <2>1, <2>2, <2>3 DEF ListInv
<1>10. FlagInv'
  BY <1>1 DEF FlagInv, TypeOK
<1> QED
  BY <1>4, <1>5, <1>6, <1>8, <1>9, <1>10

LEMMA DelDestroyKeeps ==
  ASSUME Inv, ~ undefined, NEW c \in Clients, DelDestroy(c)
  PROVE  Inv'
<1> USE DEF Inv
<1>1. /\ pc[c] = "destroy" /\ pc' = [pc EXCEPT ![c] = "free"]
      /\ undefined' = (target[c] \notin live)
      /\ stop_flag' = [stop_flag EXCEPT ![target[c]] = "destroyed"]
      /\ UNCHANGED <<live, timer_type, interval, remain_interval, timer_list, expire_list,
                     delta, spent, tick_pc, cur, held, target, found, age, ahead, took, past, peek>>
  BY DEF DelDestroy, DelStep, SetFlag, threadVars, ageVars, peekVars
<1>2. TypeOK'
  BY <1>1 DEF TypeOK
<1>3. ThreadInv'
  BY <1>1, ThreadKept
<1>4. ClientInv'
  BY <1>1 DEF ClientInv, TypeOK
<1>5. Pending' = Pending
  BY <1>1, PendingKept
<1>6. ClockInv'
  BY <1>1, <1>5, ClockKept DEF ageVars
<1>7. ListInv'
  BY <1>1, ListKept
<1>8. FlagInv'
  <2>1. \A u \in live : u # target[c] => stop_flag'[u] = stop_flag[u]
    BY <1>1 DEF TypeOK
  <2>2. target[c] \in live => stop_flag'[target[c]] = "destroyed"
    BY <1>1 DEF TypeOK
  <2>3. \A d \in Clients : d # c => pc'[d] = pc[d]
    BY <1>1 DEF TypeOK
  <2> QED
    BY <1>1, <2>1, <2>2, <2>3 DEF FlagInv
<1> QED
  BY <1>2, <1>3, <1>4, <1>6, <1>7, <1>8

LEMMA DelFreeKeeps ==
  ASSUME Inv, ~ undefined, NEW c \in Clients, DelFree(c)
  PROVE  Inv'
<1> USE DEF Inv
<1>1. /\ pc[c] = "free" /\ pc' = [pc EXCEPT ![c] = "idle"]
      /\ target' = [target EXCEPT ![c] = NoTimer]
      /\ found' = [found EXCEPT ![c] = FALSE]
      /\ UNCHANGED <<timer_type, interval, remain_interval, stop_flag, timer_list, expire_list,
                     delta, spent, tick_pc, cur, held, age, ahead, took, past, peek>>
  BY DEF DelFree, DelStep, threadVars, ageVars, fields, peekVars
<1>2. \/ target[c] \in Listed /\ live' = live /\ undefined' = undefined
      \/ /\ target[c] \notin Listed /\ live' = live \ {target[c]}
         /\ undefined' = (target[c] \notin live \/ target[c] \in Expiring)
  BY DEF DelFree
<1>3. TypeOK'
  <2>1. undefined' \in BOOLEAN
    BY <1>2 DEF TypeOK
  <2> QED
    BY <1>1, <1>2, <2>1 DEF TypeOK
<1>4. ThreadInv'
  BY <1>1, ThreadKept
<1>5. ClientInv'
  BY <1>1 DEF ClientInv, TypeOK
<1>6. Pending' = Pending
  BY <1>1, PendingKept
<1>7. ClockInv'
  BY <1>1, <1>6, ClockKept DEF ageVars
<1>8. \A d \in Clients : d # c => target'[d] = target[d] /\ pc'[d] = pc[d]
  BY <1>1 DEF TypeOK
<1>9. live' \subseteq live /\ \A u \in live' : u = target[c] => u \in Elements(timer_list)
  BY <1>2, ListedElements
<1>10. ASSUME ~ undefined' PROVE ListInv'
  <2>1. ListInv
    OBVIOUS
  <2>2. /\ Elements(timer_list') = Elements(timer_list) /\ Elements(expire_list') = Elements(expire_list)
        /\ Distinct(timer_list') /\ Distinct(expire_list') /\ cur' = cur
    BY <1>1 DEF ListInv
  <2>3. \/ live' = live
        \/ live' = live \ {target[c]} /\ target[c] \notin Elements(timer_list)
           /\ target[c] \notin Elements(expire_list) /\ (cur # NoTimer => target[c] # cur)
    BY <1>2, <1>10, ListedElements DEF Expiring, Elements
  <2> HIDE DEF Inv
  <2>4. \A t \in live' : \/ t \in Elements(timer_list) \/ t \in Elements(expire_list) \/ t = cur
                         \/ \E d \in Clients : target'[d] = t
    BY <1>8, <1>9, <2>1 DEF ListInv
  <2> QED
    BY <2>1, <2>2, <2>3, <2>4 DEF ListInv
<1>11. FlagInv'
  BY <1>1, <1>8, <1>9 DEF FlagInv
<1> QED
  BY <1>3, <1>4, <1>5, <1>7, <1>10, <1>11
-----------------------------------------------------------------------------
\* The timer thread.

\* Times are numbers of ticks.
LEMMA NaturalTimes ==
  ASSUME TypeOK
  PROVE  /\ \A t \in Timers : /\ remain_interval[t] \in Nat /\ age[t] \in Nat
                              /\ ahead[t] \in Nat /\ interval[t] \in Nat
         /\ Pending \in Nat
<1>1. Intervals \union {0} \subseteq Nat
  BY TimerAssumption
<1>2. \A t \in Timers : interval[t] \in Intervals \union {0}
  BY DEF TypeOK
<1>3. Pending \in Nat
  BY DEF TypeOK, Pending
<1>4. \A t \in Timers : remain_interval[t] \in Nat /\ age[t] \in Nat /\ ahead[t] \in Nat
  BY DEF TypeOK
<1> QED
  BY <1>1, <1>2, <1>3, <1>4

\* Time goes by for every listed timer, and for the next pass.
LEMMA ElapseKeeps ==
  ASSUME TypeOK, ClockInv, NEW n \in Nat, Elapse(n), Pending' = Pending + n,
         UNCHANGED <<interval, remain_interval, timer_list, ahead>>
  PROVE  ClockInv' /\ age' \in [Timers -> Nat]
<1>1. age' = [t \in Timers |-> IF t \in Elements(timer_list) THEN age[t] + n ELSE age[t]]
  BY ListedElements DEF Elapse
<1>2. age \in [Timers -> Nat] /\ Pending \in Nat
  BY NaturalTimes DEF TypeOK
<1>3. Elements(timer_list) \subseteq Timers
  BY DEF TypeOK, Elements
<1>4. ASSUME NEW t \in Elements(timer_list)
      PROVE  remain_interval[t] + age'[t] + ahead[t] = interval[t] + Pending'
  <2>1. age'[t] = age[t] + n
    BY <1>1, <1>3
  <2>2. remain_interval[t] + age[t] + ahead[t] = interval[t] + Pending
    BY DEF ClockInv
  <2>3. age[t] \in Nat /\ remain_interval[t] \in Nat /\ ahead[t] \in Nat /\ interval[t] \in Nat
    BY <1>3, NaturalTimes
  <2> QED
    BY <1>2, <2>1, <2>2, <2>3
<1>5. ClockInv'
  BY <1>4 DEF ClockInv, Elements
<1> QED
  BY <1>1, <1>2, <1>5

LEMMA DelayKeeps ==
  ASSUME Inv, ~ undefined, Delay
  PROVE  Inv'
<1> USE DEF Inv
<1>1. /\ tick_pc = "delay" /\ tick_pc' = "tick" /\ Elapse(1)
      /\ UNCHANGED <<live, timer_type, interval, remain_interval, stop_flag, timer_list, expire_list,
                     delta, spent, cur, held, pc, target, found, ahead, took, past, peek, undefined>>
  BY DEF Delay, fields, clientVars, peekVars
<1>2. Pending' = Pending + 1
  BY <1>1 DEF Pending, TypeOK
<1>3. ClockInv' /\ age' \in [Timers -> Nat]
  BY <1>1, <1>2, ElapseKeeps
<1>4. TypeOK'
  BY <1>1, <1>3 DEF TypeOK
<1>5. ThreadInv'
  BY <1>1 DEF ThreadInv
<1>6. ClientInv'
  BY <1>1, ClientKept DEF clientVars
<1>7. ListInv'
  BY <1>1, ListKept
<1>8. FlagInv'
  BY <1>1, FlagKept
<1> QED
  BY <1>3, <1>4, <1>5, <1>6, <1>7, <1>8

\* What a pass leaves of a timer that is not due, and when a timer is due.
LEMMA DecrementDoes ==
  ASSUME TypeOK, tick_pc = "tick", NEW r \in Nat
  PROVE  /\ Decrement(r) \in Nat
         /\ Decrement(r) < 1 <=> r =< Pending
         /\ ~ (Decrement(r) < 1) => r = Decrement(r) + Pending
<1>1. delta \in Nat /\ Pending = delta + 1
  BY DEF TypeOK, Pending
<1> QED
  BY <1>1 DEF Decrement

\* The timers that are due in this pass.
DueNow == {t \in Timers : Decrement(remain_interval[t]) < 1}

\* What a pass does: the timers that are due change lists, the rest count down.
LEMMA TickDoes ==
  ASSUME Inv, ~ undefined, Tick
  PROVE  /\ tick_pc = "tick" /\ tick_pc' = "expire" /\ spent' = 0
         /\ remain_interval' = [t \in Timers |-> IF t \in Elements(timer_list)
                                                 THEN Decrement(remain_interval[t]) ELSE remain_interval[t]]
         /\ age' = [t \in Timers |-> IF t \in Elements(timer_list) /\ t \in DueNow THEN 0 ELSE age[t]]
         /\ ahead' = [t \in Timers |-> IF t \in Elements(timer_list) /\ t \in DueNow THEN 0 ELSE ahead[t]]
         /\ UNCHANGED <<live, timer_type, interval, stop_flag, delta, cur, held, pc, target, found,
                        took, past, peek, undefined>>
         /\ expire_list' \in Seq(Timers) /\ timer_list' \in Seq(Timers)
         /\ Distinct(expire_list') /\ Distinct(timer_list')
         /\ Elements(expire_list') = Elements(timer_list) \intersect DueNow
         /\ Elements(timer_list') = Elements(timer_list) \ DueNow
         /\ expire_list = <<>> /\ cur = NoTimer
<1> USE DEF Inv
<1>1. /\ tick_pc = "tick" /\ tick_pc' = "expire" /\ spent' = 0
      /\ remain_interval' = [t \in Timers |-> IF t \in Elements(timer_list)
                                              THEN Decrement(remain_interval[t]) ELSE remain_interval[t]]
      /\ age' = [t \in Timers |-> IF t \in Elements(timer_list) /\ t \in DueNow THEN 0 ELSE age[t]]
      /\ ahead' = [t \in Timers |-> IF t \in Elements(timer_list) /\ t \in DueNow THEN 0 ELSE ahead[t]]
      /\ UNCHANGED <<live, timer_type, interval, stop_flag, delta, cur, held, pc, target, found,
                     took, past, peek, undefined>>
      /\ expire_list' = Selected(timer_list, DueNow)
      /\ timer_list' = Selected(timer_list, Timers \ DueNow)
  BY ListedElements DEF Tick, DueNow, clientVars, peekVars
<1>2. timer_list \in Seq(Timers) /\ Distinct(timer_list)
  BY DEF TypeOK, ListInv
<1>3. Elements(timer_list) \subseteq Timers
  BY <1>2 DEF Elements
<1>4. /\ expire_list' \in Seq(Timers) /\ Distinct(expire_list')
      /\ Elements(expire_list') = Elements(timer_list) \intersect DueNow
  BY <1>1, <1>2, SelectedElements
<1>5. /\ timer_list' \in Seq(Timers) /\ Distinct(timer_list')
      /\ Elements(timer_list') = Elements(timer_list) \ DueNow
  BY <1>1, <1>2, <1>3, SelectedElements
<1>6. expire_list = <<>> /\ cur = NoTimer
  BY <1>1 DEF ThreadInv
<1> QED
  BY <1>1, <1>4, <1>5, <1>6

LEMMA TickKeeps ==
  ASSUME Inv, ~ undefined, Tick
  PROVE  Inv'
<1> USE DEF Inv
<1>1. /\ tick_pc = "tick" /\ tick_pc' = "expire" /\ spent' = 0
      /\ remain_interval' = [t \in Timers |-> IF t \in Elements(timer_list)
                                              THEN Decrement(remain_interval[t]) ELSE remain_interval[t]]
      /\ age' = [t \in Timers |-> IF t \in Elements(timer_list) /\ t \in DueNow THEN 0 ELSE age[t]]
      /\ ahead' = [t \in Timers |-> IF t \in Elements(timer_list) /\ t \in DueNow THEN 0 ELSE ahead[t]]
  BY TickDoes
<1>2. UNCHANGED <<live, timer_type, interval, stop_flag, delta, cur, held, pc, target, found,
                  took, past, peek, undefined>>
  BY TickDoes
<1>3. /\ expire_list' \in Seq(Timers) /\ timer_list' \in Seq(Timers)
      /\ Distinct(expire_list') /\ Distinct(timer_list')
      /\ Elements(expire_list') = Elements(timer_list) \intersect DueNow
      /\ Elements(timer_list') = Elements(timer_list) \ DueNow
      /\ expire_list = <<>> /\ cur = NoTimer
  BY TickDoes
<1>4. Elements(timer_list) \subseteq Timers
  BY DEF TypeOK, Elements
<1>5. \A t \in Timers : Decrement(remain_interval[t]) \in Nat
  BY <1>1, DecrementDoes DEF TypeOK
<1>6. TypeOK'
  <2>1. /\ remain_interval' \in [Timers -> Nat] /\ age' \in [Timers -> Nat] /\ ahead' \in [Timers -> Nat]
    BY <1>1, <1>5 DEF TypeOK
  <2> QED
    BY <1>1, <1>2, <1>3, <2>1 DEF TypeOK
<1>7. ThreadInv'
  BY <1>1, <1>2, <1>3 DEF ThreadInv
<1>8. ClientInv'
  BY <1>2, ClientKept DEF clientVars
<1>9. ClockInv'
  <2>1. Pending' = 0
    BY <1>1 DEF Pending
  <2> SUFFICES ASSUME NEW t \in Elements(timer_list')
               PROVE  remain_interval'[t] + age'[t] + ahead'[t] = interval'[t] + 0
    BY <2>1 DEF ClockInv, Elements
  <2>2. t \in Elements(timer_list) /\ t \notin DueNow /\ t \in Timers
    BY <1>3, <1>4
  <2>3. /\ remain_interval'[t] = Decrement(remain_interval[t]) /\ age'[t] = age[t] /\ ahead'[t] = ahead[t]
        /\ interval'[t] = interval[t]
    BY <1>1, <1>2, <2>2
  <2>4. /\ remain_interval[t] \in Nat /\ age[t] \in Nat /\ ahead[t] \in Nat /\ interval[t] \in Nat
        /\ Pending \in Nat
    BY <2>2, NaturalTimes
  <2>5. ~ (Decrement(remain_interval[t]) < 1)
    BY <2>2 DEF DueNow
  <2>6. remain_interval[t] = Decrement(remain_interval[t]) + Pending /\ Decrement(remain_interval[t]) \in Nat
    BY <1>1, <2>4, <2>5, DecrementDoes
  <2>7. remain_interval[t] + age[t] + ahead[t] = interval[t] + Pending
    BY <2>2 DEF ClockInv
  <2> HIDE DEF Decrement
  <2> QED
    BY <2>3, <2>4, <2>6, <2>7
<1>10. ListInv'
  <2>1. ListInv
    OBVIOUS
  <2>2. NoTimer \notin Elements(timer_list)
    BY <1>3 DEF ListInv
  <2>3. Elements(expire_list) = {}
    BY <1>3 DEF Elements
  <2> HIDE DEF Inv
  <2> QED
    BY <1>2, <1>3, <2>1, <2>2, <2>3 DEF ListInv
<1>11. FlagInv'
  BY <1>2, FlagKept
<1> QED
  BY <1>6, <1>7, <1>8, <1>9, <1>10, <1>11

LEMMA TakeKeeps ==
  ASSUME Inv, ~ undefined, Take
  PROVE  Inv'
<1> USE DEF Inv
<1>1. /\ tick_pc = "expire" /\ expire_list # <<>> /\ tick_pc' = "check"
      /\ cur' = Head(expire_list) /\ expire_list' = Tail(expire_list)
      /\ UNCHANGED <<live, timer_type, interval, remain_interval, stop_flag, timer_list, delta, spent,
                     held, pc, target, found, age, ahead, took, past, peek, undefined>>
  BY DEF Take, fields, clientVars, ageVars, peekVars
<1>2. expire_list \in Seq(Timers) /\ Distinct(expire_list) /\ cur = NoTimer
  BY <1>1 DEF TypeOK, ListInv, ThreadInv
<1>3. /\ Head(expire_list) \in Elements(expire_list) /\ Tail(expire_list) \in Seq(Timers)
      /\ Distinct(Tail(expire_list))
      /\ Elements(Tail(expire_list)) = Elements(expire_list) \ {Head(expire_list)}
  BY <1>1, <1>2, TailDistinct
<1>4. Elements(expire_list) \subseteq Timers
  BY <1>2 DEF Elements
<1>5. cur' \in Timers
  BY <1>1, <1>3, <1>4
<1>6. TypeOK'
  BY <1>1, <1>3, <1>5 DEF TypeOK
<1>7. ThreadInv'
  BY <1>1, <1>5, TimerAssumption DEF ThreadInv
<1>8. ClientInv'
  BY <1>1, ClientKept DEF clientVars
<1>9. Pending' = Pending
  BY <1>1 DEF Pending
<1>10. ClockInv'
  BY <1>1, <1>9, ClockKept DEF ageVars
<1>11. ListInv'
  <2>1. ListInv
    OBVIOUS
  <2>2. /\ Elements(expire_list') = Elements(expire_list) \ {cur'} /\ Distinct(expire_list')
        /\ cur' \in Elements(expire_list)
    BY <1>1, <1>3
  <2>3. Elements(timer_list') = Elements(timer_list) /\ Distinct(timer_list')
    BY <1>1 DEF ListInv
  <2>4. live' = live /\ target' = target
    BY <1>1
  <2>5. \A t \in live : t # cur
    BY <1>2, TimerAssumption DEF TypeOK
  <2> HIDE DEF Inv
  <2> QED
    BY <2>1, <2>2, <2>3, <2>4, <2>5 DEF ListInv
<1>12. FlagInv'
  BY <1>1, FlagKept
<1> QED
  BY <1>6, <1>7, <1>8, <1>10, <1>11, <1>12

\* While a timer is with the timer thread.
LEMMA CurTimer ==
  ASSUME Inv, tick_pc \in {"check", "call", "finish", "start"}
  PROVE  cur \in Timers
BY DEF Inv, TypeOK, ThreadInv

\* The timer thread is done with a timer that it has freed, or that a client is
\* deleting: it is in no list.
LEMMA CurLeaves ==
  ASSUME Inv, ~ undefined, cur \in Timers, cur' = NoTimer,
         UNCHANGED <<timer_list, expire_list, target>>,
         \/ live' = live \ {cur}
         \/ live' = live /\ \E c \in Clients : target[c] = cur
  PROVE  ListInv'
<1>1. ListInv
  BY DEF Inv
<1>2. /\ Elements(timer_list') = Elements(timer_list) /\ Distinct(timer_list')
      /\ Elements(expire_list') = Elements(expire_list) /\ Distinct(expire_list')
  BY <1>1 DEF ListInv
<1>3. NoTimer \notin Elements(timer_list) /\ NoTimer \notin Elements(expire_list)
  BY TimerAssumption DEF Inv, TypeOK, Elements
<1>4. \A t \in live' : t = cur => \E c \in Clients : target[c] = t
  OBVIOUS
<1>5. \A t \in live' : t \in live
  OBVIOUS
<1>6. cur \notin Elements(timer_list) /\ cur \notin Elements(expire_list)
  BY <1>1 DEF ListInv
<1>7. /\ Elements(timer_list') \subseteq live' /\ Elements(expire_list') \subseteq live'
  BY <1>1, <1>2, <1>6 DEF ListInv
<1>8. target' = target
  OBVIOUS
<1>9. \A t \in live' : t \in Elements(timer_list) \/ t \in Elements(expire_list)
                         \/ \E c \in Clients : target[c] = t
  BY <1>1, <1>4, <1>5 DEF ListInv
<1> QED
  BY <1>1, <1>2, <1>3, <1>7, <1>8, <1>9 DEF ListInv

LEMMA CheckFlagKeeps ==
  ASSUME Inv, ~ undefined, CheckFlag
  PROVE  Inv'
<1> USE DEF Inv
<1>1. /\ tick_pc = "check"
      /\ UNCHANGED <<timer_type, interval, remain_interval, timer_list, expire_list, delta, spent,
                     held, pc, target, found, age, ahead, took, past, peek, undefined>>
  BY DEF CheckFlag, clientVars, ageVars, peekVars
<1>2. \/ /\ stop_flag[cur] # "running"
         /\ live' = IF stop_flag[cur] = "destroyed" THEN live \ {cur} ELSE live
         /\ tick_pc' = "expire" /\ cur' = NoTimer /\ stop_flag' = stop_flag
      \/ /\ stop_flag' = [stop_flag EXCEPT ![cur] = "running"]
         /\ tick_pc' = "call" /\ live' = live /\ cur' = cur
  BY DEF CheckFlag
<1>3. cur \in Timers
  BY <1>1, CurTimer
<1>4. TypeOK'
  BY <1>1, <1>2 DEF TypeOK
<1>5. ThreadInv'
  BY <1>1, <1>2 DEF ThreadInv
<1>6. ClientInv'
  BY <1>1, ClientKept DEF clientVars
<1>7. Pending' = Pending
  BY <1>1, <1>2 DEF Pending
<1>8. ClockInv'
  BY <1>1, <1>7, ClockKept DEF ageVars
<1>9. CASE tick_pc' = "expire"
  <2>1. /\ stop_flag[cur] # "running" /\ cur' = NoTimer /\ stop_flag' = stop_flag
        /\ live' = IF stop_flag[cur] = "destroyed" THEN live \ {cur} ELSE live
    BY <1>2, <1>9
  <2>2. cur \in live /\ stop_flag[cur] \in {"running", "stopped", "destroyed"}
    BY <1>3, TimerAssumption DEF ListInv, TypeOK
  <2>3. stop_flag[cur] = "destroyed" \/ \E c \in Clients : target[c] = cur
    BY <2>1, <2>2 DEF FlagInv
  <2>4. ListInv'
    BY <1>1, <1>3, <2>1, <2>3, CurLeaves
  <2>5. live' \subseteq live
    BY <2>1
  <2>6. FlagInv'
    BY <1>1, <2>1, <2>5 DEF FlagInv
  <2> QED
    BY <1>4, <1>5, <1>6, <1>8, <2>4, <2>6
<1>10. CASE tick_pc' = "call"
  <2>1. stop_flag' = [stop_flag EXCEPT ![cur] = "running"] /\ live' = live /\ cur' = cur
    BY <1>2, <1>10
  <2>2. ListInv'
    BY <1>1, <2>1, ListKept
  <2>3. \A t \in live : stop_flag'[t] = "stopped" => stop_flag[t] = "stopped"
    BY <2>1 DEF TypeOK
  <2>4. FlagInv'
    BY <1>1, <2>1, <2>3 DEF FlagInv
  <2> QED
    BY <1>4, <1>5, <1>6, <1>8, <2>2, <2>4
<1> QED
  BY <1>2, <1>9, <1>10

LEMMA CallKeeps ==
  ASSUME Inv, ~ undefined, Call
  PROVE  Inv'
<1> USE DEF Inv
<1>1. /\ tick_pc = "call" /\ tick_pc' = "finish" /\ past' = cur
      /\ UNCHANGED <<live, timer_type, interval, remain_interval, stop_flag, timer_list, expire_list, delta,
                     cur, held, pc, target, found, ahead, peek, undefined>>
  BY DEF Call, fields, clientVars
<1>2. PICK n \in 0 .. SlowTicks : spent' = spent + n /\ took' = n /\ Elapse(n)
  BY DEF Call
<1>3. n \in Nat
  BY TimerAssumption
<1>4. Pending' = Pending + n /\ spent' \in Nat
  BY <1>1, <1>2, <1>3 DEF Pending, TypeOK
<1>5. ClockInv' /\ age' \in [Timers -> Nat]
  BY <1>1, <1>2, <1>3, <1>4, ElapseKeeps
<1>6. TypeOK'
  BY <1>1, <1>2, <1>3, <1>4, <1>5 DEF TypeOK
<1>7. ThreadInv'
  BY <1>1, CurTimer DEF ThreadInv
<1>8. ClientInv'
  BY <1>1, ClientKept DEF clientVars
<1>9. ListInv'
  BY <1>1, ListKept
<1>10. FlagInv'
  BY <1>1, FlagKept
<1> QED
  BY <1>5, <1>6, <1>7, <1>8, <1>9, <1>10

LEMMA FinishOnceKeeps ==
  ASSUME Inv, ~ undefined, FinishOnce
  PROVE  Inv'
<1> USE DEF Inv
<1>1. /\ tick_pc = "finish" /\ tick_pc' = "measure" /\ cur' = NoTimer /\ live' = live \ {cur}
      /\ stop_flag' = [stop_flag EXCEPT ![cur] = "destroyed"]
      /\ UNCHANGED <<timer_type, interval, remain_interval, timer_list, expire_list, delta, spent,
                     held, pc, target, found, age, ahead, took, past, peek, undefined>>
  BY DEF FinishOnce, clientVars, ageVars, peekVars
<1>2. cur \in Timers
  BY <1>1, CurTimer
<1>3. TypeOK'
  BY <1>1 DEF TypeOK
<1>4. ThreadInv'
  BY <1>1 DEF ThreadInv
<1>5. ClientInv'
  BY <1>1, ClientKept DEF clientVars
<1>6. Pending' = Pending
  BY <1>1 DEF Pending
<1>7. ClockInv'
  BY <1>1, <1>6, ClockKept DEF ageVars
<1>8. ListInv'
  BY <1>1, <1>2, CurLeaves
<1>9. FlagInv'
  <2>1. \A t \in live' : t \in live /\ stop_flag'[t] = stop_flag[t]
    BY <1>1 DEF TypeOK
  <2> QED
    BY <1>1, <2>1 DEF FlagInv
<1> QED
  BY <1>3, <1>4, <1>5, <1>7, <1>8, <1>9

LEMMA FinishCircleKeeps ==
  ASSUME Inv, ~ undefined, FinishCircle
  PROVE  Inv'
<1> USE DEF Inv
<1>1. /\ tick_pc = "finish" /\ tick_pc' = "start"
      /\ stop_flag' = [stop_flag EXCEPT ![cur] = "running"]
      /\ UNCHANGED <<live, timer_type, interval, remain_interval, timer_list, expire_list, delta, spent,
                     cur, held, pc, target, found, age, ahead, took, past, peek, undefined>>
  BY DEF FinishCircle, clientVars, ageVars, peekVars
<1>2. TypeOK'
  BY <1>1 DEF TypeOK
<1>3. ThreadInv'
  BY <1>1 DEF ThreadInv
<1>4. ClientInv'
  BY <1>1, ClientKept DEF clientVars
<1>5. Pending' = Pending
  BY <1>1 DEF Pending
<1>6. ClockInv'
  BY <1>1, <1>5, ClockKept DEF ageVars
<1>7. ListInv'
  BY <1>1, ListKept
<1>8. FlagInv'
  <2>1. \A t \in live : stop_flag'[t] = "stopped" => stop_flag[t] = "stopped"
    BY <1>1 DEF TypeOK
  <2> QED
    BY <1>1, <2>1 DEF FlagInv
<1> QED
  BY <1>2, <1>3, <1>4, <1>6, <1>7, <1>8

LEMMA RestartKeeps ==
  ASSUME Inv, ~ undefined, Restart
  PROVE  Inv'
<1> USE DEF Inv
<1>1. /\ tick_pc = "start" /\ tick_pc' = "measure" /\ cur' = NoTimer /\ StartTimer(cur, interval[cur])
      /\ UNCHANGED <<live, timer_type, interval, stop_flag, expire_list, delta, spent,
                     held, pc, target, found, took, past, peek, undefined>>
  BY DEF Restart, clientVars, peekVars
<1>2. cur \in Timers /\ cur \in live
  BY <1>1, CurTimer, TimerAssumption DEF ListInv
<1>3. cur \notin Elements(timer_list) /\ cur \notin Elements(expire_list) /\ Distinct(timer_list)
  BY DEF ListInv
<1>4. interval[cur] \in Nat
  BY <1>2, NaturalTimes
<1>5. Pending' = Pending
  BY <1>1 DEF Pending
<1>6. /\ timer_list' \in Seq(Timers) /\ remain_interval' \in [Timers -> Nat]
      /\ age' \in [Timers -> Nat] /\ ahead' \in [Timers -> Nat]
      /\ Distinct(timer_list') /\ Elements(timer_list') = Elements(timer_list) \union {cur}
      /\ ClockInv'
  BY <1>1, <1>2, <1>3, <1>4, <1>5, StartTimerDoes
<1>7. TypeOK'
  BY <1>1, <1>6 DEF TypeOK
<1>8. ThreadInv'
  BY <1>1 DEF ThreadInv
<1>9. ClientInv'
  BY <1>1, ClientKept DEF clientVars
<1>10. ListInv'
  <2>1. ListInv
    OBVIOUS
  <2>2. Elements(expire_list') = Elements(expire_list) /\ Distinct(expire_list')
    BY <1>1 DEF ListInv
  <2>3. NoTimer \notin Elements(timer_list) /\ NoTimer \notin Elements(expire_list) /\ NoTimer # cur
    BY <1>2, TimerAssumption DEF TypeOK, Elements
  <2>4. cur' = NoTimer /\ live' = live /\ target' = target
    BY <1>1
  <2> HIDE DEF Inv
  <2> QED
    BY <1>2, <1>3, <1>6, <2>1, <2>2, <2>3, <2>4 DEF ListInv
<1>11. FlagInv'
  BY <1>1, FlagKept
<1> QED
  BY <1>6, <1>7, <1>8, <1>9, <1>10, <1>11

LEMMA MeasureKeeps ==
  ASSUME Inv, ~ undefined, Measure
  PROVE  Inv'
<1> USE DEF Inv
<1>1. /\ tick_pc = "measure" /\ tick_pc' = "expire"
      /\ undefined' = (took > peek /\ past \notin live)
      /\ peek' = IF took > peek THEN took ELSE peek
      /\ took' = 0 /\ past' = NoTimer
      /\ UNCHANGED <<live, timer_type, interval, remain_interval, stop_flag, timer_list, expire_list, delta,
                     spent, cur, held, pc, target, found, age, ahead>>
  BY DEF Measure, fields, clientVars, ageVars
<1>2. undefined' \in BOOLEAN /\ peek' \in Nat
  BY <1>1 DEF TypeOK
<1>3. TypeOK'
  BY <1>1, <1>2 DEF TypeOK
<1>4. ThreadInv'
  BY <1>1 DEF ThreadInv
<1>5. ClientInv'
  BY <1>1, ClientKept DEF clientVars
<1>6. Pending' = Pending
  BY <1>1 DEF Pending
<1>7. ClockInv'
  BY <1>1, <1>6, ClockKept DEF ageVars
<1>8. ListInv'
  BY <1>1, ListKept
<1>9. FlagInv'
  BY <1>1, FlagKept
<1> QED
  BY <1>3, <1>4, <1>5, <1>7, <1>8, <1>9

LEMMA EndPassKeeps ==
  ASSUME Inv, ~ undefined, EndPass
  PROVE  Inv'
<1> USE DEF Inv
<1>1. /\ tick_pc = "expire" /\ expire_list = <<>> /\ tick_pc' = "delay" /\ delta' = spent /\ spent' = 0
      /\ UNCHANGED <<live, timer_type, interval, remain_interval, stop_flag, timer_list, expire_list, cur,
                     held, pc, target, found, age, ahead, took, past, peek, undefined>>
  BY DEF EndPass, fields, clientVars, ageVars, peekVars
<1>2. TypeOK'
  BY <1>1 DEF TypeOK
<1>3. ThreadInv'
  BY <1>1 DEF ThreadInv
<1>4. ClientInv'
  BY <1>1, ClientKept DEF clientVars
<1>5. Pending' = Pending
  BY <1>1 DEF Pending, TypeOK
<1>6. ClockInv'
  BY <1>1, <1>5, ClockKept DEF ageVars
<1>7. ListInv'
  BY <1>1, ListKept
<1>8. FlagInv'
  BY <1>1, FlagKept
<1> QED
  BY <1>2, <1>3, <1>4, <1>6, <1>7, <1>8

\* Every step keeps the invariant.
LEMMA NextInv == Inv /\ [Next]_vars => Inv'
<1> SUFFICES ASSUME Inv, [Next]_vars PROVE Inv'
  OBVIOUS
<1>1. CASE UNCHANGED vars
  <2>1. /\ UNCHANGED <<live, timer_type, interval, remain_interval, stop_flag, timer_list, expire_list, delta,
                       spent, tick_pc, cur, held, pc, target, found, age, ahead, took, past, peek, undefined>>
    BY <1>1 DEF vars, fields, threadVars, clientVars, ageVars, peekVars
  <2>2. TypeOK' /\ ThreadInv' /\ ClientInv'
    BY <2>1, ThreadKept, ClientKept DEF Inv, TypeOK, clientVars
  <2>3. Pending' = Pending
    BY <2>1, PendingKept
  <2>4. ClockInv'
    BY <2>1, <2>3, ClockKept DEF Inv, ageVars
  <2>5. ~ undefined' => ListInv' /\ FlagInv'
    BY <2>1, ListKept, FlagKept DEF Inv
  <2> QED
    BY <2>2, <2>4, <2>5 DEF Inv
<1>2. CASE Next
  <2>1. ~ undefined
    BY <1>2 DEF Next
  <2>2. CASE TimerThread
    BY <2>1, <2>2, DelayKeeps, TickKeeps, TakeKeeps, CheckFlagKeeps, CallKeeps, FinishOnceKeeps,
       FinishCircleKeeps, RestartKeeps, MeasureKeeps, EndPassKeeps DEF TimerThread
  <2>3. ASSUME NEW c \in Clients, Client(c) PROVE Inv'
    BY <2>1, <2>3, AddKeeps, DelBeginKeeps, DelLookupKeeps, DelRemoveKeeps, DelDestroyKeeps, DelFreeKeeps
       DEF Client, Delete
  <2> QED
    BY <1>2, <2>2, <2>3 DEF Next
<1> QED
  BY <1>1, <1>2

\* The invariant holds in every state of every run, whatever is fair.
LEMMA InvHolds == Spec => []Inv
BY InitInv, NextInv, PTL DEF Spec, SafeSpec
-----------------------------------------------------------------------------
\* A list without repetition has as many elements as places.
LEMMA ElementsLength ==
  ASSUME NEW T, NEW s \in Seq(T), Distinct(s)
  PROVE  IsFiniteSet(Elements(s)) /\ Cardinality(Elements(s)) = Len(s)
<1> DEFINE f == [x \in Elements(s) |-> x]
<1>1. Cardinality(Elements(s)) = Len(s)
  <2>1. f \in [Elements(s) -> Elements(s)]
    OBVIOUS
  <2>2. \A x, y \in Elements(s) : f[x] = f[y] => x = y
    OBVIOUS
  <2>3. \A y \in Elements(s) : \E x \in Elements(s) : f[x] = y
    OBVIOUS
  <2> HIDE DEF f
  <2> QED
    BY <2>1, <2>2, <2>3, DistinctLength
<1>2. IsFiniteSet(Elements(s))
  <2>1. DOMAIN s = 1 .. Len(s) /\ IsFiniteSet(1 .. Len(s))
    <3>1. Len(s) \in Nat /\ DOMAIN s = 1 .. Len(s)
      OBVIOUS
    <3> QED
      BY <3>1, FS_Interval
  <2> DEFINE g == [i \in DOMAIN s |-> s[i]]
  <2>2. g \in Surjection(DOMAIN s, Elements(s))
    BY DEF Surjection, Elements
  <2> QED
    BY <2>1, <2>2, FS_Surjection
<1> QED
  BY <1>1, <1>2

\* An allocated timer is in one place only, and no place holds one that was freed
\* (gw_process_timer, gw_start_timer, gw_destroy_timer).
THEOREM OnePlaceCorrect == Spec => []OnePlace
<1>1. Inv => OnePlace
  <2> SUFFICES ASSUME Inv, ~ undefined
               PROVE  /\ Cardinality(Listed) = Len(timer_list)
                      /\ Cardinality(Expiring) = Len(expire_list) + (IF cur = NoTimer THEN 0 ELSE 1)
                      /\ Listed \intersect Expiring = {}
                      /\ Listed \union Expiring \subseteq live
                      /\ live \subseteq Listed \union Expiring \union {target[c] : c \in Clients}
    BY DEF OnePlace
  <2>1. Listed = Elements(timer_list) /\ Expiring = Elements(expire_list) \union ({cur} \ {NoTimer})
    BY DEF Listed, Expiring, Elements
  <2>2. timer_list \in Seq(Timers) /\ expire_list \in Seq(Timers) /\ ListInv
    BY DEF Inv, TypeOK
  <2>3. Cardinality(Elements(timer_list)) = Len(timer_list)
    BY <2>2, ElementsLength DEF ListInv
  <2>4. IsFiniteSet(Elements(expire_list)) /\ Cardinality(Elements(expire_list)) = Len(expire_list)
    BY <2>2, ElementsLength DEF ListInv
  <2>5. cur \notin Elements(expire_list) /\ cur \notin Elements(timer_list)
    BY <2>2 DEF ListInv
  <2>6. Cardinality(Expiring) = Len(expire_list) + (IF cur = NoTimer THEN 0 ELSE 1)
    <3>1. CASE cur = NoTimer
      <4>1. Expiring = Elements(expire_list)
        BY <2>1, <3>1
      <4> QED
        BY <2>2, <2>4, <3>1, <4>1
    <3>2. CASE cur # NoTimer
      <4>1. Expiring = Elements(expire_list) \union {cur}
        BY <2>1, <3>2
      <4> QED
        BY <2>4, <2>5, <3>2, <4>1, FS_AddElement
    <3> QED
      BY <3>1, <3>2
  <2>7. NoTimer \notin Elements(timer_list)
    BY <2>2, TimerAssumption DEF Elements
  <2>8. Listed \intersect Expiring = {}
    BY <2>1, <2>2, <2>5 DEF ListInv
  <2>9. Listed \union Expiring \subseteq live
    BY <2>1, <2>2 DEF ListInv
  <2>10. NoTimer \notin live
    BY TimerAssumption DEF Inv, TypeOK
  <2>11. live \subseteq Listed \union Expiring \union {target[c] : c \in Clients}
    BY <2>1, <2>2, <2>10 DEF ListInv
  <2> QED
    BY <2>1, <2>3, <2>6, <2>8, <2>9, <2>11
<1> QED
  BY <1>1, InvHolds, PTL

\* What slow callbacks cost a listed timer is taken off again: it is due when its
\* interval is over (gw_process_timer).
THEOREM NeverLateCorrect == Spec => []NeverLate
<1>1. Inv => NeverLate
  <2> SUFFICES ASSUME Inv, NEW t \in Elements(timer_list)
               PROVE  remain_interval[t] + age[t] =< interval[t] + Pending
    BY ListedElements DEF NeverLate
  <2>1. t \in Timers
    BY DEF Inv, TypeOK, Elements
  <2>2. /\ remain_interval[t] \in Nat /\ age[t] \in Nat /\ ahead[t] \in Nat /\ interval[t] \in Nat
        /\ Pending \in Nat
    BY <2>1, NaturalTimes DEF Inv
  <2>3. remain_interval[t] + age[t] + ahead[t] = interval[t] + Pending
    BY DEF Inv, ClockInv
  <2> QED
    BY <2>2, <2>3
<1> QED
  BY <1>1, InvHolds, PTL

\* A timer comes early by the ticks that had gone by when it was started and were
\* yet to be taken off, and by no more (gw_process_timer).
THEOREM NeverEarlyCorrect == Spec => NeverEarly
<1> DEFINE Early == \A t \in Timers : (t \in Listed /\ tick_pc = "tick" /\ tick_pc' = "expire"
                                        /\ t \notin Listed') => age[t] + ahead[t] >= interval[t]
<1>1. Inv /\ [Next]_vars => [Early]_vars
  <2> SUFFICES ASSUME Inv, Next, NEW t \in Timers, t \in Elements(timer_list),
                      tick_pc = "tick", tick_pc' = "expire", t \notin Elements(timer_list)'
               PROVE  age[t] + ahead[t] >= interval[t]
    BY ListedElements
  <2>1. ~ undefined
    BY DEF Next
  <2>2. Tick
    <3>1. CASE TimerThread
      BY <3>1 DEF TimerThread, Delay, Take, CheckFlag, Call, FinishOnce, FinishCircle, Restart, Measure, EndPass
    <3>2. ASSUME NEW c \in Clients, Client(c) PROVE FALSE
      BY <3>2 DEF Client, Delete, Add, DelBegin, DelLookup, DelRemove, DelDestroy, DelFree, threadVars
    <3> QED
      BY <3>1, <3>2 DEF Next
  <2>3. t \in DueNow
    BY <2>1, <2>2, TickDoes
  <2>4. /\ remain_interval[t] \in Nat /\ age[t] \in Nat /\ ahead[t] \in Nat /\ interval[t] \in Nat
        /\ Pending \in Nat
    BY NaturalTimes DEF Inv
  <2>5. remain_interval[t] =< Pending
    BY <2>3, <2>4, DecrementDoes DEF DueNow, Inv
  <2>6. remain_interval[t] + age[t] + ahead[t] = interval[t] + Pending
    BY DEF Inv, ClockInv
  <2> QED
    BY <2>4, <2>5, <2>6
<1> QED
  BY <1>1, InvHolds, PTL DEF Spec, SafeSpec, NeverEarly
-----------------------------------------------------------------------------
\* The refinement.

\* The timers a client is deleting that were listed when it looked.
Gone == {t \in Timers : \E c \in Clients : target[c] = t /\ found[c] /\ pc[c] \in {"destroy", "free"}}

\* A timer's state, now and in the next state.
LEMMA TimerNow ==
  ASSUME ListInv, NEW t \in Timers
  PROVE  timer[t] = IF t \notin live \/ t \in Gone THEN "free"
                    ELSE IF cur = t /\ tick_pc # "check" THEN "called"
                    ELSE IF t \in Elements(timer_list) THEN "armed" ELSE "due"
<1>1. Expiring = Elements(expire_list) \union ({cur} \ {NoTimer}) /\ Listed = Elements(timer_list)
  BY DEF Expiring, Listed, Elements
<1>2. Listed \ Expiring = Elements(timer_list)
  BY <1>1 DEF ListInv
<1> QED
  BY <1>2 DEF timer, TimerState, Gone

\* The same of the next state.
LEMMA TimerNext ==
  ASSUME ListInv', NEW t \in Timers
  PROVE  timer'[t] = IF t \notin live' \/ t \in Gone' THEN "free"
                     ELSE IF cur' = t /\ tick_pc' # "check" THEN "called"
                     ELSE IF t \in Elements(timer_list') THEN "armed" ELSE "due"
<1>1. /\ Expiring' = Elements(expire_list') \union ({cur'} \ {NoTimer})
      /\ Listed' = Elements(timer_list')
  BY DEF Expiring, Listed, Elements
<1>2. Listed' \ Expiring' = Elements(timer_list')
  BY <1>1 DEF ListInv
<1> QED
  BY <1>2 DEF timer, TimerState, Gone

\* Every timer has a state the abstract specification knows.
LEMMA TimerStates == timer \in [Timers -> Abstract!States] /\ timer' \in [Timers -> Abstract!States]
BY DEF timer, TimerState, Abstract!States

\* A state that is not armed: that of a timer not allocated, or not listed.
LEMMA NotArmed ==
  ASSUME ListInv, NEW t \in Timers, t \notin live \/ t \notin Elements(timer_list)
  PROVE  timer[t] # "armed"
BY TimerNow

\* Which timers are being deleted depends on the clients only.
LEMMA GoneKept ==
  ASSUME UNCHANGED <<target, found, pc>>
  PROVE  Gone' = Gone
BY DEF Gone

\* Timers whose places are the same are in the same state.
LEMMA SameState ==
  ASSUME ListInv, ListInv', NEW t \in Timers,
         t \in live' <=> t \in live, t \in Gone' <=> t \in Gone,
         cur' = t /\ tick_pc' # "check" <=> cur = t /\ tick_pc # "check",
         t \in Elements(timer_list') <=> t \in Elements(timer_list)
  PROVE  timer'[t] = timer[t]
BY TimerNow, TimerNext

\* One timer moves, or none.
LEMMA MoveStep ==
  ASSUME ~ undefined, UNCHANGED <<took, past, peek, undefined>>, NEW t \in Timers, NEW from, NEW to,
         timer[t] = from, timer'[t] = to, \A u \in Timers \ {t} : timer'[u] = timer[u]
  PROVE  Abstract!Move(t, from, to)
<1>1. timer' = [timer EXCEPT ![t] = to]
  BY TimerStates
<1> QED
  BY <1>1 DEF Abstract!Move, Abstract!record

\* No timer moves.
LEMMA StutterStep ==
  ASSUME UNCHANGED <<took, past, peek, undefined>>, \A u \in Timers : timer'[u] = timer[u]
  PROVE  UNCHANGED Abstract!vars
<1>1. timer' = timer
  BY TimerStates
<1> QED
  BY <1>1 DEF Abstract!vars, Abstract!record

\* A timer that is not armed is deleted: anything may follow.
LEMMA BadStep ==
  ASSUME NEW t \in Timers, timer[t] # "armed", undefined' = TRUE
  PROVE  Abstract!Next
BY TimerStates DEF Abstract!Next, Abstract!BadDelete, Abstract!Damage

\* The moves the abstract specification allows.
LEMMA MovesAreSteps ==
  ASSUME NEW t \in Timers
  PROVE  /\ Abstract!Move(t, "free", "armed") => Abstract!Next
         /\ Abstract!Move(t, "armed", "free") => Abstract!Next
         /\ Abstract!Move(t, "due", "called") => Abstract!Next
         /\ Abstract!Move(t, "called", "free") => Abstract!Next
         /\ Abstract!Move(t, "called", "armed") => Abstract!Next
         /\ Abstract!Move(t, "due", "free") => Abstract!Next
<1>1. Abstract!Move(t, "free", "armed") => Abstract!Next
  BY DEF Abstract!Next, Abstract!Add
<1>2. Abstract!Move(t, "armed", "free") => Abstract!Next
  BY DEF Abstract!Next, Abstract!Delete
<1>3. Abstract!Move(t, "due", "called") => Abstract!Next
  BY DEF Abstract!Next, Abstract!Call
<1>4. Abstract!Move(t, "called", "free") => Abstract!Next
  BY DEF Abstract!Next, Abstract!Retire
<1>5. Abstract!Move(t, "called", "armed") => Abstract!Next
  BY DEF Abstract!Next, Abstract!Rearm
<1>6. Abstract!Move(t, "due", "free") => Abstract!Next
  BY DEF Abstract!Next, Abstract!Discard
<1> QED
  BY <1>1, <1>2, <1>3, <1>4, <1>5, <1>6

\* A new timer is armed, or another client, which deletes the one that was at its
\* address, hides it for now.
LEMMA AddImplements ==
  ASSUME Inv, Inv', ~ undefined, NEW c \in Clients, NEW t \in Timers, NEW type \in {"once", "circle"},
         NEW n \in Intervals, Add(c, t, type, n)
  PROVE  Abstract!Next \/ UNCHANGED Abstract!vars
<1>1. /\ t \notin live /\ live' = live \union {t} /\ StartTimer(t, n)
      /\ UNCHANGED <<tick_pc, cur, pc, target, found, took, past, peek, undefined>>
  BY DEF Add, threadVars, peekVars
<1>2. ListInv /\ ListInv'
  BY <1>1 DEF Inv
<1>3. t \notin Elements(timer_list) /\ (cur # NoTimer => cur # t)
  BY <1>1, <1>2 DEF ListInv
<1>4. Elements(timer_list') = Elements(timer_list) \union {t}
  BY <1>2, <1>3, InsertSortedElements, <1>1 DEF StartTimer, ListInv, Inv, TypeOK
<1>5. Gone' = Gone
  BY <1>1, GoneKept
<1>6. \A u \in Timers \ {t} : timer'[u] = timer[u]
  BY <1>1, <1>2, <1>4, <1>5, SameState
<1>7. timer[t] = "free"
  BY <1>1, <1>2, TimerNow
<1>8. timer'[t] = IF t \in Gone THEN "free" ELSE "armed"
  BY <1>1, <1>2, <1>3, <1>4, <1>5, TimerNext, TimerAssumption
<1>9. CASE t \in Gone
  BY <1>1, <1>6, <1>7, <1>8, <1>9, StutterStep
<1>10. CASE t \notin Gone
  BY <1>1, <1>6, <1>7, <1>8, <1>10, MoveStep, MovesAreSteps
<1> QED
  BY <1>9, <1>10

\* A deletion that begins shows only if the timer is freed already.
LEMMA DelBeginImplements ==
  ASSUME Inv, Inv', ~ undefined, NEW c \in Clients, NEW t \in Timers, DelBegin(c, t)
  PROVE  Abstract!Next \/ UNCHANGED Abstract!vars
<1>1. /\ pc[c] = "idle" /\ pc' = [pc EXCEPT ![c] = "stop"]
      /\ target' = [target EXCEPT ![c] = t]
      /\ undefined' = (t \notin live)
      /\ UNCHANGED <<live, timer_list, tick_pc, cur, found, took, past, peek>>
  BY DEF DelBegin, DelStep, SetFlag, threadVars, peekVars
<1>2. ListInv
  BY DEF Inv
<1>3. CASE t \notin live
  <2>1. undefined' = TRUE
    BY <1>1, <1>3
  <2> QED
    BY <1>2, <1>3, <2>1, NotArmed, BadStep
<1>4. CASE t \in live
  <2>1. undefined' = FALSE
    BY <1>1, <1>4
  <2>2. ListInv'
    BY <2>1 DEF Inv
  <2>3. ~ found[c] /\ pc'[c] = "stop"
    BY <1>1 DEF Inv, ClientInv, TypeOK
  <2>4. \A d \in Clients : d # c => pc'[d] = pc[d] /\ target'[d] = target[d]
    BY <1>1 DEF Inv, TypeOK
  <2>5. Gone' = Gone
    BY <1>1, <2>3, <2>4 DEF Gone
  <2>6. \A u \in Timers : timer'[u] = timer[u]
    BY <1>1, <1>2, <2>2, <2>5, SameState
  <2>7. undefined' = undefined
    BY <2>1 DEF Inv, TypeOK
  <2> QED
    BY <1>1, <2>6, <2>7, StutterStep
<1> QED
  BY <1>3, <1>4

\* Looking a timer up shows nothing.
LEMMA DelLookupImplements ==
  ASSUME Inv, Inv', ~ undefined, NEW c \in Clients, DelLookup(c)
  PROVE  Abstract!Next \/ UNCHANGED Abstract!vars
<1>1. /\ pc[c] = "stop"
      /\ pc' = [pc EXCEPT ![c] = IF target[c] \in Listed THEN "remove" ELSE "destroy"]
      /\ found' = [found EXCEPT ![c] = target[c] \in Listed]
      /\ UNCHANGED <<live, timer_list, tick_pc, cur, target, took, past, peek, undefined>>
  BY DEF DelLookup, DelStep, threadVars, peekVars
<1>2. ListInv /\ ListInv'
  BY <1>1 DEF Inv
<1>3. ~ (found'[c] /\ pc'[c] \in {"destroy", "free"})
  BY <1>1 DEF Inv, TypeOK
<1>4. \A d \in Clients : d # c => pc'[d] = pc[d] /\ found'[d] = found[d]
  BY <1>1 DEF Inv, TypeOK
<1>5. Gone' = Gone
  BY <1>1, <1>3, <1>4 DEF Gone
<1>6. \A u \in Timers : timer'[u] = timer[u]
  BY <1>1, <1>2, <1>5, SameState
<1> QED
  BY <1>1, <1>6, StutterStep

\* A listed timer that is taken out is deleted from now on; taking out another one is
\* undefined.
LEMMA DelRemoveImplements ==
  ASSUME Inv, Inv', ~ undefined, NEW c \in Clients, DelRemove(c)
  PROVE  Abstract!Next \/ UNCHANGED Abstract!vars
<1>1. /\ pc[c] = "remove" /\ pc' = [pc EXCEPT ![c] = "destroy"]
      /\ undefined' = (target[c] \notin Listed)
      /\ timer_list' = Without(timer_list, target[c])
      /\ UNCHANGED <<live, tick_pc, cur, target, found, took, past, peek>>
  BY DEF DelRemove, DelStep, threadVars, peekVars
<1>2. ListInv /\ target[c] \in Timers /\ found[c]
  BY <1>1 DEF Inv, ClientInv, TypeOK
<1> DEFINE t == target[c]
<1>3. CASE t \notin Elements(timer_list)
  <2>1. undefined' = TRUE
    BY <1>1, <1>3, ListedElements
  <2> QED
    BY <1>2, <1>3, <2>1, NotArmed, BadStep
<1>4. CASE t \in Elements(timer_list)
  <2>1. undefined' = FALSE
    BY <1>1, <1>4, ListedElements
  <2>2. ListInv'
    BY <2>1 DEF Inv
  <2>3. Elements(timer_list') = Elements(timer_list) \ {t}
    <3>1. timer_list \in Seq(Timers) /\ Distinct(timer_list)
      BY <1>2 DEF Inv, TypeOK, ListInv
    <3>2. Elements(timer_list) \subseteq Timers
      BY <3>1 DEF Elements
    <3> QED
      BY <1>1, <3>1, <3>2, SelectedElements DEF Without
  <2>4. pc'[c] = "destroy" /\ \A d \in Clients : d # c => pc'[d] = pc[d]
    BY <1>1 DEF Inv, TypeOK
  <2>5. Gone' = Gone \union {t}
    BY <1>1, <1>2, <2>4 DEF Gone
  <2>6. \A u \in Timers \ {t} : timer'[u] = timer[u]
    BY <1>1, <1>2, <2>2, <2>3, <2>5, SameState
  <2>7. timer'[t] = "free"
    BY <1>2, <2>2, <2>5, TimerNext
  <2>8. t \in live /\ cur # t
    BY <1>2, <1>4 DEF ListInv
  <2>9. timer[t] = IF t \in Gone THEN "free" ELSE "armed"
    BY <1>2, <1>4, <2>8, TimerNow
  <2>10. undefined' = undefined
    BY <2>1 DEF Inv, TypeOK
  <2> HIDE DEF t
  <2>11. t \in Timers
    BY <1>2 DEF t
  <2>12. CASE t \in Gone
    BY <1>1, <2>6, <2>7, <2>9, <2>10, <2>12, StutterStep
  <2>13. CASE t \notin Gone
    BY <1>1, <2>6, <2>7, <2>9, <2>10, <2>11, <2>13, MoveStep, MovesAreSteps
  <2> QED
    BY <2>12, <2>13
<1> QED
  BY <1>3, <1>4

\* The flag shows only if the timer is freed already.
LEMMA DelDestroyImplements ==
  ASSUME Inv, Inv', ~ undefined, NEW c \in Clients, DelDestroy(c)
  PROVE  Abstract!Next \/ UNCHANGED Abstract!vars
<1>1. /\ pc[c] = "destroy" /\ pc' = [pc EXCEPT ![c] = "free"]
      /\ undefined' = (target[c] \notin live)
      /\ UNCHANGED <<live, timer_list, tick_pc, cur, target, found, took, past, peek>>
  BY DEF DelDestroy, DelStep, SetFlag, threadVars, peekVars
<1>2. ListInv /\ target[c] \in Timers
  BY <1>1 DEF Inv, ClientInv, TypeOK
<1>3. CASE target[c] \notin live
  <2>1. undefined' = TRUE
    BY <1>1, <1>3
  <2> QED
    BY <1>2, <1>3, <2>1, NotArmed, BadStep
<1>4. CASE target[c] \in live
  <2>1. undefined' = FALSE
    BY <1>1, <1>4
  <2>2. ListInv'
    BY <2>1 DEF Inv
  <2>3. pc'[c] = "free" /\ \A d \in Clients : d # c => pc'[d] = pc[d]
    BY <1>1 DEF Inv, TypeOK
  <2>4. Gone' = Gone
    BY <1>1, <2>3 DEF Gone
  <2>5. \A u \in Timers : timer'[u] = timer[u]
    BY <1>1, <1>2, <2>2, <2>4, SameState
  <2>6. undefined' = undefined
    BY <2>1 DEF Inv, TypeOK
  <2> QED
    BY <1>1, <2>5, <2>6, StutterStep
<1> QED
  BY <1>3, <1>4

\* The end of a deletion: the timer was deleted before, or is due and now discarded, or
\* is listed again and shows, or freeing it is undefined.
LEMMA DelFreeImplements ==
  ASSUME Inv, Inv', ~ undefined, NEW c \in Clients, DelFree(c)
  PROVE  Abstract!Next \/ UNCHANGED Abstract!vars
<1>1. /\ pc[c] = "free" /\ pc' = [pc EXCEPT ![c] = "idle"]
      /\ target' = [target EXCEPT ![c] = NoTimer]
      /\ found' = [found EXCEPT ![c] = FALSE]
      /\ UNCHANGED <<timer_list, tick_pc, cur, took, past, peek>>
  BY DEF DelFree, DelStep, threadVars, peekVars
<1>2. \/ target[c] \in Listed /\ live' = live /\ undefined' = undefined
      \/ /\ target[c] \notin Listed /\ live' = live \ {target[c]}
         /\ undefined' = (target[c] \notin live \/ target[c] \in Expiring)
  BY DEF DelFree
<1>3. ListInv /\ target[c] \in Timers
  BY <1>1 DEF Inv, ClientInv, TypeOK
<1> DEFINE t == target[c]
<1>4. /\ pc'[c] = "idle"
      /\ \A d \in Clients : d # c => pc'[d] = pc[d] /\ target'[d] = target[d] /\ found'[d] = found[d]
  BY <1>1 DEF Inv, TypeOK
<1>5. \A u \in Timers \ {t} : u \in Gone' <=> u \in Gone
  BY <1>4 DEF Gone
<1>6. t \in Gone' => t \in Gone
  BY <1>4 DEF Gone
<1>7. ASSUME ~ undefined', t \in live' <=> t \in Elements(timer_list),
             \A u \in Timers \ {t} : u \in live' <=> u \in live
      PROVE  \A u \in Timers \ {t} : timer'[u] = timer[u]
  <2>1. ListInv'
    BY <1>7 DEF Inv
  <2> QED
    BY <1>1, <1>3, <1>5, <1>7, <2>1, SameState
<1>8. CASE t \in Elements(timer_list)
  <2>1. live' = live /\ undefined' = undefined
    BY <1>2, <1>8, ListedElements
  <2>2. t \in live /\ cur # t
    BY <1>3, <1>8 DEF ListInv
  <2>3. \A u \in Timers \ {t} : timer'[u] = timer[u]
    BY <1>7, <1>8, <2>1, <2>2
  <2>4. ListInv'
    BY <2>1 DEF Inv
  <2>5. timer[t] = IF t \in Gone THEN "free" ELSE "armed"
    BY <1>3, <1>8, <2>2, TimerNow
  <2>6. timer'[t] = IF t \in Gone' THEN "free" ELSE "armed"
    BY <1>1, <1>3, <1>8, <2>1, <2>2, <2>4, TimerNext
  <2> HIDE DEF t
  <2>7. t \in Timers
    BY <1>3 DEF t
  <2>8. CASE t \in Gone /\ t \notin Gone'
    BY <1>1, <2>1, <2>3, <2>5, <2>6, <2>7, <2>8, MoveStep, MovesAreSteps
  <2>9. CASE t \in Gone <=> t \in Gone'
    BY <1>1, <2>1, <2>3, <2>5, <2>6, <2>9, StutterStep
  <2> QED
    BY <1>6, <2>8, <2>9
<1>9. CASE t \notin Elements(timer_list)
  <2>1. live' = live \ {t} /\ undefined' = (t \notin live \/ t \in Expiring)
    BY <1>2, <1>9, ListedElements
  <2>2. CASE t \notin live \/ t \in Expiring
    <3>1. undefined' = TRUE
      BY <2>1, <2>2
    <3> QED
      BY <1>3, <1>9, <3>1, NotArmed, BadStep
  <2>3. CASE ~ (t \notin live \/ t \in Expiring)
    <3>1. undefined' = FALSE
      BY <2>1, <2>3
    <3>2. \A u \in Timers \ {t} : timer'[u] = timer[u]
      BY <1>7, <1>9, <2>1, <3>1
    <3>3. ListInv'
      BY <3>1 DEF Inv
    <3>4. cur # t
      BY <1>3, <2>3, TimerAssumption DEF Expiring
    <3>5. timer[t] = IF t \in Gone THEN "free" ELSE "due"
      BY <1>3, <1>9, <2>3, <3>4, TimerNow
    <3>6. timer'[t] = "free"
      BY <1>3, <2>1, <3>3, TimerNext
    <3>7. undefined' = undefined
      BY <3>1 DEF Inv, TypeOK
    <3> HIDE DEF t
    <3>8. t \in Timers
      BY <1>3 DEF t
    <3>9. CASE t \in Gone
      BY <1>1, <3>2, <3>5, <3>6, <3>7, <3>9, StutterStep
    <3>10. CASE t \notin Gone
      BY <1>1, <3>2, <3>5, <3>6, <3>7, <3>8, <3>10, MoveStep, MovesAreSteps
    <3> QED
      BY <3>9, <3>10
  <2> QED
    BY <2>2, <2>3
<1> QED
  BY <1>8, <1>9

\* The timers that are due are so at once.
LEMMA TickImplements ==
  ASSUME Inv, Inv', ~ undefined, Tick
  PROVE  Abstract!Next \/ UNCHANGED Abstract!vars
<1>1. /\ tick_pc = "tick" /\ tick_pc' = "expire"
      /\ UNCHANGED <<live, cur, pc, target, found, took, past, peek, undefined>>
      /\ Elements(timer_list') = Elements(timer_list) \ DueNow
      /\ cur = NoTimer
  BY TickDoes
<1>2. ListInv /\ ListInv'
  BY <1>1 DEF Inv
<1>3. Gone' = Gone
  BY <1>1, GoneKept
<1> DEFINE due == {t \in Elements(timer_list) \intersect DueNow : t \notin Gone}
<1>4. due \in SUBSET Timers /\ \A t \in due : t \in Timers /\ t \in live /\ t # cur
  BY <1>2 DEF ListInv, DueNow
<1>5. \A t \in due : timer[t] = "armed"
  BY <1>1, <1>2, <1>4, TimerNow
<1>6. \A t \in due : timer'[t] = "due"
  BY <1>1, <1>2, <1>3, <1>4, TimerNext
<1>7. ASSUME NEW t \in Timers, t \notin due PROVE timer'[t] = timer[t]
  <2>1. CASE t \in Gone
    BY <1>2, <1>3, <2>1, TimerNow, TimerNext
  <2>2. CASE t \notin Gone
    <3>1. t \in Elements(timer_list') <=> t \in Elements(timer_list)
      BY <1>1, <1>7, <2>2
    <3>2. cur # t /\ cur' # t
      BY <1>1, TimerAssumption
    <3> QED
      BY <1>1, <1>2, <1>3, <3>1, <3>2, SameState
  <2> QED
    BY <2>1, <2>2
<1> HIDE DEF due
<1>8. timer' = [t \in Timers |-> IF t \in due THEN "due" ELSE timer[t]]
  BY <1>6, <1>7, TimerStates
<1>9. Abstract!Expire(due)
  BY <1>1, <1>5, <1>8 DEF Abstract!Expire, Abstract!record
<1>10. Abstract!Next
  BY <1>4, <1>9 DEF Abstract!Next
<1> QED
  BY <1>10

\* Which timer is called next shows nothing.
LEMMA TakeImplements ==
  ASSUME Inv, Inv', ~ undefined, Take
  PROVE  Abstract!Next \/ UNCHANGED Abstract!vars
<1>1. /\ tick_pc = "expire" /\ tick_pc' = "check"
      /\ UNCHANGED <<live, timer_list, pc, target, found, took, past, peek, undefined>>
  BY DEF Take, clientVars, peekVars
<1>2. ListInv /\ ListInv' /\ cur = NoTimer
  BY <1>1 DEF Inv, ThreadInv
<1>3. Gone' = Gone
  BY <1>1, GoneKept
<1>4. \A u \in Timers : timer'[u] = timer[u]
  BY <1>1, <1>2, <1>3, SameState, TimerAssumption
<1> QED
  BY <1>1, <1>4, StutterStep

\* The timer with the timer thread is in no list, so its state shows where the
\* thread is.
LEMMA CurMoves ==
  ASSUME Inv, Inv', ~ undefined, UNCHANGED <<took, past, peek, undefined>>, cur \in Timers,
         UNCHANGED <<pc, target, found>>,
         \A u \in Timers \ {cur} : /\ u \in live' <=> u \in live
                                   /\ u \in Elements(timer_list') <=> u \in Elements(timer_list),
         cur' = cur \/ cur' = NoTimer,
         NEW from \in {"due", "called"}, from = (IF tick_pc = "check" THEN "due" ELSE "called"),
         NEW to \in {"free", "armed", "due", "called"},
         cur \notin Gone => timer'[cur] = to,
         \/ from = to
         \/ from = "due" /\ to \in {"called", "free"}
         \/ from = "called" /\ to \in {"free", "armed"}
  PROVE  Abstract!Next \/ UNCHANGED Abstract!vars
<1>1. ListInv /\ ListInv' /\ Gone' = Gone
  BY GoneKept DEF Inv
<1>2. \A u \in Timers \ {cur} : timer'[u] = timer[u]
  BY <1>1, SameState, TimerAssumption
<1>3. cur \in live /\ cur \notin Elements(timer_list)
  BY <1>1, TimerAssumption DEF ListInv
<1>4. CASE cur \in Gone
  <2>1. timer[cur] = "free" /\ timer'[cur] = "free"
    BY <1>1, <1>4, TimerNow, TimerNext
  <2>2. \A u \in Timers : timer'[u] = timer[u]
    BY <1>2, <2>1
  <2> QED
    BY <2>2, StutterStep
<1>5. CASE cur \notin Gone
  <2>1. timer[cur] = from /\ timer'[cur] = to
    BY <1>1, <1>3, <1>5, TimerNow
  <2>2. CASE from = to
    <3>1. \A u \in Timers : timer'[u] = timer[u]
      BY <1>2, <2>1, <2>2
    <3> QED
      BY <3>1, StutterStep
  <2>3. CASE from # to
    <3>1. Abstract!Move(cur, from, to)
      BY <1>2, <2>1, MoveStep
    <3>2. \/ from = "due" /\ to = "called"
          \/ from = "called" /\ to = "free"
          \/ from = "called" /\ to = "armed"
          \/ from = "due" /\ to = "free"
      BY <2>3
    <3> QED
      BY <3>1, <3>2, MovesAreSteps
  <2> QED
    BY <2>2, <2>3
<1> QED
  BY <1>4, <1>5

\* A timer that is due is called, or discarded, or left to the client that stopped it.
LEMMA CheckFlagImplements ==
  ASSUME Inv, Inv', ~ undefined, CheckFlag
  PROVE  Abstract!Next \/ UNCHANGED Abstract!vars
<1>1. /\ tick_pc = "check"
      /\ UNCHANGED <<timer_list, pc, target, found, took, past, peek, undefined>>
  BY DEF CheckFlag, clientVars, peekVars
<1>2. \/ /\ live' = live \ {cur} \/ live' = live
         /\ tick_pc' = "expire" /\ cur' = NoTimer
      \/ /\ tick_pc' = "call" /\ live' = live /\ cur' = cur
  BY DEF CheckFlag
<1>3. cur \in Timers /\ ListInv /\ ListInv' /\ Gone' = Gone
  BY <1>1, CurTimer, GoneKept DEF Inv
<1>4. cur \in live /\ cur \notin Elements(timer_list)
  BY <1>3, TimerAssumption DEF ListInv
<1> DEFINE to == IF tick_pc' = "call" THEN "called" ELSE IF cur \in live' THEN "due" ELSE "free"
<1>5. cur \notin Gone => timer'[cur] = to
  BY <1>1, <1>2, <1>3, <1>4, TimerNext, TimerAssumption
<1>6. to \in {"free", "due", "called"}
  OBVIOUS
<1>7. \A u \in Timers \ {cur} : /\ u \in live' <=> u \in live
                                /\ u \in Elements(timer_list') <=> u \in Elements(timer_list)
  BY <1>1, <1>2
<1>8. cur' = cur \/ cur' = NoTimer
  BY <1>2
<1>9. "due" = to \/ to \in {"called", "free"}
  OBVIOUS
<1> HIDE DEF to
<1> QED
  BY <1>1, <1>3, <1>5, <1>6, <1>7, <1>8, <1>9, CurMoves

\* Time and flags show nothing.
LEMMA PassImplements ==
  ASSUME Inv, Inv', ~ undefined, Delay \/ EndPass \/ FinishCircle
  PROVE  Abstract!Next \/ UNCHANGED Abstract!vars
<1>1. UNCHANGED <<live, timer_list, cur, pc, target, found, took, past, peek, undefined>>
  BY DEF Delay, EndPass, FinishCircle, fields, clientVars, peekVars
<1>2. tick_pc # "check" /\ tick_pc' # "check"
  BY DEF Delay, EndPass, FinishCircle
<1>3. ListInv /\ ListInv' /\ Gone' = Gone
  BY <1>1, GoneKept DEF Inv
<1>4. \A u \in Timers : timer'[u] = timer[u]
  BY <1>1, <1>2, <1>3, SameState
<1> QED
  BY <1>1, <1>4, StutterStep

\* A callback takes its time.
LEMMA CallImplements ==
  ASSUME Inv, Inv', ~ undefined, Call
  PROVE  Abstract!Next \/ UNCHANGED Abstract!vars
<1>1. /\ tick_pc = "call" /\ tick_pc' = "finish" /\ past' = cur
      /\ UNCHANGED <<live, timer_list, cur, pc, target, found, peek, undefined>>
  BY DEF Call, clientVars
<1>2. took' \in Nat
  BY TimerAssumption DEF Call
<1>3. ListInv /\ ListInv' /\ Gone' = Gone /\ cur \in Timers
  BY <1>1, GoneKept, CurTimer DEF Inv
<1>4. \A u \in Timers : timer'[u] = timer[u]
  BY <1>1, <1>3, SameState
<1>5. timer' = timer
  BY <1>4, TimerStates
<1>6. timer[cur] \in {"called", "free"}
  BY <1>1, <1>3, TimerNow
<1>7. Abstract!Run(cur)
  BY <1>1, <1>2, <1>5, <1>6 DEF Abstract!Run
<1> QED
  BY <1>3, <1>7 DEF Abstract!Next

\* A callback is recorded; if it was the longest and its timer is freed, the record
\* is undefined.
LEMMA MeasureImplements ==
  ASSUME Inv, Inv', ~ undefined, Measure
  PROVE  Abstract!Next \/ UNCHANGED Abstract!vars
<1>1. /\ tick_pc = "measure" /\ tick_pc' = "expire"
      /\ undefined' = (took > peek /\ past \notin live)
      /\ peek' = IF took > peek THEN took ELSE peek
      /\ took' = 0 /\ past' = NoTimer
      /\ UNCHANGED <<live, timer_list, cur, pc, target, found>>
  BY DEF Measure, clientVars
<1>2. past \in Timers
  BY <1>1 DEF Inv, ThreadInv
<1>3. CASE took > peek /\ past \notin live
  <2>1. timer[past] = "free"
    BY <1>2, <1>3 DEF timer, TimerState
  <2>2. Abstract!BadRecord
    BY <1>1, <1>2, <1>3, <2>1, TimerStates DEF Abstract!BadRecord, Abstract!Damage
  <2> QED
    BY <2>2 DEF Abstract!Next
<1>4. CASE ~ (took > peek /\ past \notin live)
  <2>1. undefined' = FALSE /\ undefined' = undefined
    BY <1>1, <1>4 DEF Inv, TypeOK
  <2>2. ListInv /\ ListInv' /\ Gone' = Gone
    BY <1>1, <2>1, GoneKept DEF Inv
  <2>3. \A u \in Timers : timer'[u] = timer[u]
    BY <1>1, <2>2, SameState
  <2>4. timer' = timer
    BY <2>3, TimerStates
  <2>5. Abstract!Record
    BY <1>1, <2>1, <2>4 DEF Abstract!Record
  <2> QED
    BY <2>5 DEF Abstract!Next
<1> QED
  BY <1>3, <1>4

\* A once timer that was called is retired.
LEMMA FinishOnceImplements ==
  ASSUME Inv, Inv', ~ undefined, FinishOnce
  PROVE  Abstract!Next \/ UNCHANGED Abstract!vars
<1>1. /\ tick_pc = "finish" /\ cur' = NoTimer /\ live' = live \ {cur}
      /\ UNCHANGED <<timer_list, pc, target, found, took, past, peek, undefined>>
  BY DEF FinishOnce, clientVars, peekVars
<1>2. cur \in Timers /\ ListInv'
  BY <1>1, CurTimer DEF Inv
<1>3. timer'[cur] = "free"
  BY <1>1, <1>2, TimerNext
<1>4. \A u \in Timers \ {cur} : /\ u \in live' <=> u \in live
                                /\ u \in Elements(timer_list') <=> u \in Elements(timer_list)
  BY <1>1
<1> QED
  BY <1>1, <1>2, <1>3, <1>4, CurMoves

\* A circle timer that was called is armed again.
LEMMA RestartImplements ==
  ASSUME Inv, Inv', ~ undefined, Restart
  PROVE  Abstract!Next \/ UNCHANGED Abstract!vars
<1>1. /\ tick_pc = "start" /\ cur' = NoTimer /\ StartTimer(cur, interval[cur])
      /\ UNCHANGED <<live, pc, target, found, took, past, peek, undefined>>
  BY DEF Restart, clientVars, peekVars
<1>2. cur \in Timers /\ ListInv /\ ListInv' /\ Gone' = Gone
  BY <1>1, CurTimer, GoneKept DEF Inv
<1>3. cur \in live /\ cur \notin Elements(timer_list) /\ Distinct(timer_list) /\ timer_list \in Seq(Timers)
  BY <1>2, TimerAssumption DEF ListInv, Inv, TypeOK
<1>4. Elements(timer_list') = Elements(timer_list) \union {cur}
  BY <1>1, <1>2, <1>3, InsertSortedElements DEF StartTimer
<1>5. cur \notin Gone => timer'[cur] = "armed"
  BY <1>1, <1>2, <1>3, <1>4, TimerNext, TimerAssumption
<1>6. \A u \in Timers \ {cur} : /\ u \in live' <=> u \in live
                                /\ u \in Elements(timer_list') <=> u \in Elements(timer_list)
  BY <1>1, <1>4
<1> QED
  BY <1>1, <1>2, <1>5, <1>6, CurMoves

\* Between add and delete the lists, the sections of a delete and the steps of an
\* expiry behave as one state per timer, until a timer that is not armed is
\* deleted or a callback that took longer than every one before is recorded whose
\* timer is freed (gw_timer_add, gw_timer_del, gw_process_timer, gw_timer_app_callback).
THEOREM ImplementsCorrect == Spec => ImplementsOneShotTimers
<1>1. Init => Abstract!Init
  <2> SUFFICES ASSUME Init PROVE Abstract!Init
    OBVIOUS
  <2>1. \A t \in Timers : TimerState(t) = "free"
    BY DEF Init, TimerState
  <2> QED
    BY <2>1 DEF Abstract!Init, timer, Init
<1>2. Inv /\ Inv' /\ [Next]_vars => [Abstract!Next]_Abstract!vars
  <2> SUFFICES ASSUME Inv, Inv', [Next]_vars PROVE Abstract!Next \/ UNCHANGED Abstract!vars
    OBVIOUS
  <2>1. CASE UNCHANGED vars
    <3>1. UNCHANGED <<live, timer_list, expire_list, cur, tick_pc, pc, target, found, took, past, peek, undefined>>
      BY <2>1 DEF vars, fields, threadVars, clientVars, peekVars
    <3>2. timer' = timer
      BY <3>1 DEF timer, TimerState, Listed, Expiring
    <3> QED
      BY <3>1, <3>2 DEF Abstract!vars, Abstract!record
  <2>2. CASE Next
    <3>1. ~ undefined
      BY <2>2 DEF Next
    <3>2. CASE TimerThread
      BY <3>1, <3>2, TickImplements, TakeImplements, CheckFlagImplements, PassImplements,
         CallImplements, MeasureImplements, FinishOnceImplements, RestartImplements DEF TimerThread
    <3>3. ASSUME NEW c \in Clients, Client(c) PROVE Abstract!Next \/ UNCHANGED Abstract!vars
      BY <3>1, <3>3, AddImplements, DelBeginImplements, DelLookupImplements, DelRemoveImplements,
         DelDestroyImplements, DelFreeImplements DEF Client, Delete
    <3> QED
      BY <2>2, <3>2, <3>3 DEF Next
  <2> QED
    BY <2>1, <2>2
<1> QED
  BY <1>1, <1>2, InvHolds, PTL DEF Spec, SafeSpec, ImplementsOneShotTimers, Abstract!Spec
-----------------------------------------------------------------------------
(***************************************************************************)
(* Proofs about the priority queues of OsalPriQueue, for every number of   *)
(* producers, priorities, every depth and every bound on the puts.  The    *)
(* safety properties follow from one inductive invariant, QueueInv, whose  *)
(* parts are named for what they say; from it the queue is shown to        *)
(* implement PriQueue.  Timers and queues share no state.                  *)
(***************************************************************************)
USE DEF Pri
-----------------------------------------------------------------------------
(* The inductive invariant *)

\* A producer inside a put has numbered its message.
PutNumbered == \A p \in Producers : put_pc[p] # "idle" => put_no[p] # 0

\* Whoever is inside a list owns that list's mutex.
InsideOwns ==
  /\ \A p \in Producers : put_pc[p] \in {"locked", "added"}
                            => queue_mutex[put_pri[p]] = p
  /\ get_pc \in {"locked", "taken"} => queue_mutex[get_i] = Consumer

\* The token count is exact, and the set it counts is finite.
CountExact == IsFiniteSet(Slots) /\ TokensMatchMessages

\* The consumer holding a token has a message at or below the priority it is
\* looking at, the best of those that were there when it took the token.
ScanHasMessage ==
  /\ Holding => /\ get_floor \in 0 .. get_i
                /\ queue_list[get_floor] # <<>>
  /\ ~ Holding => get_floor = PriNum
  /\ get_pc \in {"found", "locked"} => queue_list[get_i] # <<>>
  /\ get_error = 0
  /\ get_pc \in {"taken", "copy"} => pbuf \in Message

QueueInv ==
  /\ QueueTypeOK
  /\ PutNumbered
  /\ InsideOwns
  /\ CountExact
  /\ ScanHasMessage
  /\ DepthOvershootBounded
-----------------------------------------------------------------------------
(* Lemmas about the operators *)

\* BestQueued finds the most urgent nonempty list whenever there is one.
LEMMA BestQueuedIsBest ==
  ASSUME NEW j \in Pri, queue_list[j] # <<>>
  PROVE  /\ BestQueued \in Pri
         /\ queue_list[BestQueued] # <<>>
         /\ \A pri \in Pri : pri > BestQueued => queue_list[pri] = <<>>
<1> USE QueueAssumption
<1> DEFINE Gap == {n \in Nat : \E pri \in Pri : n = PriNum - 1 - pri /\ queue_list[pri] # <<>>}
<1>1. \A pri \in Pri : queue_list[pri] # <<>> => PriNum - 1 - pri \in Gap
  OBVIOUS
<1>2. PICK g \in Gap : \A n \in Gap : g =< n
  BY <1>1, LeastNatural
<1>3. PICK best \in Pri : g = PriNum - 1 - best /\ queue_list[best] # <<>>
  BY <1>2
<1>4. \A pri \in Pri : pri > best => queue_list[pri] = <<>>
  <2> SUFFICES ASSUME NEW pri \in Pri, pri > best, queue_list[pri] # <<>>
               PROVE  FALSE
    OBVIOUS
  <2>1. PriNum - 1 - best =< PriNum - 1 - pri
    BY <1>1, <1>2, <1>3
  <2> QED BY <2>1
<1> HIDE DEF Gap
<1> QED BY <1>3, <1>4 DEF BestQueued

\* What the lists hold, slot by slot.
LEMMA SlotsAre ==
  ASSUME NEW s
  PROVE  s \in Slots <=> \E pri \in Pri : \E k \in 1 .. Len(queue_list[pri]) : s = <<pri, k>>
BY DEF Slots

\* An append adds one slot, a removal of the head takes one away.
LEMMA AppendAddsSlot ==
  ASSUME queue_list \in [Pri -> Seq(Message)], IsFiniteSet(Slots),
         NEW pri \in Pri, NEW m \in Message,
         queue_list' = [queue_list EXCEPT ![pri] = Append(@, m)]
  PROVE  IsFiniteSet(Slots') /\ Cardinality(Slots') = Cardinality(Slots) + 1
<1> DEFINE new == <<pri, Len(queue_list[pri]) + 1>>
<1>1. /\ Len(queue_list'[pri]) = Len(queue_list[pri]) + 1
      /\ \A q \in Pri : q # pri => queue_list'[q] = queue_list[q]
      /\ \A q \in Pri : Len(queue_list[q]) \in Nat
  OBVIOUS
<1>2. Slots' = Slots \union {new}
  <2>1. ASSUME NEW s PROVE s \in Slots' <=> s \in Slots \union {new}
    BY <1>1 DEF Slots
  <2> QED BY <2>1
<1>3. new \notin Slots
  BY <1>1 DEF Slots
<1> HIDE DEF new
<1> QED BY <1>2, <1>3, FS_AddElement

LEMMA TailDropsSlot ==
  ASSUME queue_list \in [Pri -> Seq(Message)], IsFiniteSet(Slots),
         NEW pri \in Pri, queue_list[pri] # <<>>,
         queue_list' = [queue_list EXCEPT ![pri] = Tail(@)]
  PROVE  IsFiniteSet(Slots') /\ Cardinality(Slots') = Cardinality(Slots) - 1
<1> DEFINE last == <<pri, Len(queue_list[pri])>>
<1>1. /\ Len(queue_list'[pri]) = Len(queue_list[pri]) - 1
      /\ Len(queue_list[pri]) \in Nat \ {0}
      /\ \A q \in Pri : q # pri => queue_list'[q] = queue_list[q]
      /\ \A q \in Pri : Len(queue_list[q]) \in Nat
  OBVIOUS
<1>2. Slots' = Slots \ {last}
  <2>1. ASSUME NEW s PROVE s \in Slots' <=> s \in Slots \ {last}
    BY <1>1 DEF Slots
  <2> QED BY <2>1
<1>3. last \in Slots
  BY <1>1 DEF Slots
<1> HIDE DEF last
<1> QED BY <1>2, <1>3, FS_RemoveElement

\* An append never yields the empty list.
LEMMA AppendNotEmpty ==
  ASSUME NEW S, NEW s \in Seq(S), NEW m
  PROVE  Append(s, m) # <<>>
<1>1. Len(Append(s, m)) = Len(s) + 1 /\ Len(s) \in Nat
  OBVIOUS
<1> QED BY <1>1

\* A subset of the producers is finite, and has as many members as there are
\* producers only when it is all of them.
LEMMA ProducerSets ==
  ASSUME NEW S, S \subseteq Producers
  PROVE  /\ IsFiniteSet(S)
         /\ Cardinality(S) \in Nat
         /\ Cardinality(S) =< Cardinality(Producers)
         /\ Cardinality(Producers) \in Nat
BY QueueAssumption, FS_Subset, FS_CardinalityType

\* Adding one producer to, or taking one from, a set of them.
LEMMA AddProducer ==
  ASSUME NEW S, S \subseteq Producers, NEW p \in Producers, p \notin S
  PROVE  Cardinality(S \union {p}) = Cardinality(S) + 1
BY ProducerSets, FS_AddElement

LEMMA DropProducer ==
  ASSUME NEW S, S \subseteq Producers, NEW p \in S
  PROVE  Cardinality(S \ {p}) = Cardinality(S) - 1
BY ProducerSets, FS_RemoveElement
-----------------------------------------------------------------------------
(* The invariant is inductive: one lemma for each of its parts *)

LEMMA QueueInitInv == QueueInit => QueueInv
<1> SUFFICES ASSUME QueueInit PROVE QueueInv
  OBVIOUS
<1> USE QueueAssumption DEF QueueInit
<1>1. QueueTypeOK
  BY DEF QueueTypeOK, Threads
<1>2. PutNumbered /\ InsideOwns
  BY DEF PutNumbered, InsideOwns
<1>3. CountExact
  <2>1. Slots = {}
    BY DEF Slots
  <2>2. Posting = {}
    BY DEF Posting
  <2> QED BY <2>1, <2>2, FS_EmptySet DEF CountExact, TokensMatchMessages, Holding
<1>4. ScanHasMessage
  BY DEF ScanHasMessage, Holding
<1>5. DepthOvershootBounded
  <2> SUFFICES ASSUME NEW pri \in Pri
               PROVE  Len(queue_list[pri]) + Cardinality(Committed(pri))
                        =< Depth + Cardinality(Producers) - 1
    BY DEF DepthOvershootBounded
  <2>1. Committed(pri) = {}
    BY DEF Committed
  <2> QED BY <2>1, FS_EmptySet, FS_CardinalityType
<1> QED BY <1>1, <1>2, <1>3, <1>4, <1>5 DEF QueueInv

\* Every variable keeps its shape, and no step is taken with an unnumbered put.
LEMMA TypeStep ==
  ASSUME QueueInv, [QueueNext]_queueVars
  PROVE  QueueTypeOK' /\ PutNumbered'
<1> USE QueueAssumption DEF QueueInv, QueueTypeOK, PutNumbered
<1>1. ASSUME NEW p \in Producers, NEW pri \in Pri, PutBegin(p, pri)
      PROVE  QueueTypeOK' /\ PutNumbered'
  BY SMTT(30), <1>1 DEF PutBegin, PutStep, getVars
<1>2. ASSUME NEW p \in Producers, PutLock(p)
      PROVE  QueueTypeOK' /\ PutNumbered'
  BY <1>2 DEF PutLock, PutStep, Lock, getVars, Threads
<1>3. ASSUME NEW p \in Producers, PutAdd(p)
      PROVE  QueueTypeOK' /\ PutNumbered'
  <2>1. PutMessage(p) \in Message
    BY <1>3 DEF PutAdd, PutStep, PutMessage, Message
  <2>2. queue_list' \in [Pri -> Seq(Message)]
    BY <1>3, <2>1 DEF PutAdd
  <2> QED BY <1>3, <2>2 DEF PutAdd, PutStep, getVars
<1>4. ASSUME NEW p \in Producers, PutUnlock(p)
      PROVE  QueueTypeOK' /\ PutNumbered'
  BY <1>4 DEF PutUnlock, PutStep, Unlock, getVars
<1>5. ASSUME NEW p \in Producers, PutPost(p)
      PROVE  QueueTypeOK' /\ PutNumbered'
  BY <1>5 DEF PutPost, PutStep, getVars
<1>6. CASE GetWait
  <2>1. cnt_sem' \in Nat
    BY <1>6 DEF GetWait
  <2>2. BestQueued \in Pri \union {PriNum}
    BY BestQueuedIsBest DEF BestQueued
  <2> QED BY <1>6, <2>1, <2>2 DEF GetWait, GetStep, putVars
<1>7. CASE GetSkip
  BY SMTT(30), <1>7 DEF GetSkip, GetStep, putVars
<1>8. CASE GetFound
  BY <1>8 DEF GetFound, GetStep, putVars
<1>9. CASE GetLock
  BY <1>9 DEF GetLock, GetStep, Lock, putVars, Threads
<1>10. CASE GetTake
  <2>1. queue_list' \in [Pri -> Seq(Message)]
    BY <1>10 DEF GetTake
  <2>2. pbuf' \in Message \union {NullBuf}
    BY <1>10 DEF GetTake
  <2> QED BY <1>10, <2>1, <2>2 DEF GetTake, GetStep, putVars
<1>11. CASE GetUnlock
  BY <1>11 DEF GetUnlock, GetStep, Unlock, putVars
<1>12. CASE GetReturn
  BY <1>12 DEF GetReturn, GetStep, putVars
<1>13. CASE UNCHANGED queueVars
  BY <1>13 DEF queueVars, putVars, getVars
<1> QED
  BY <1>1, <1>2, <1>3, <1>4, <1>5, <1>6, <1>7, <1>8, <1>9, <1>10, <1>11, <1>12, <1>13
     DEF QueueNext, Put, Get

\* Nobody enters a list without its mutex, and the release is the owner's.
LEMMA InsideStep ==
  ASSUME QueueInv, [QueueNext]_queueVars
  PROVE  InsideOwns'
<1> USE QueueAssumption DEF QueueInv, QueueTypeOK, InsideOwns
<1>1. ASSUME NEW p \in Producers, NEW pri \in Pri, PutBegin(p, pri)
      PROVE  InsideOwns'
  BY <1>1 DEF PutBegin, PutStep, getVars
<1>2. ASSUME NEW p \in Producers, PutLock(p)
      PROVE  InsideOwns'
  BY <1>2 DEF PutLock, PutStep, Lock, getVars, Threads
<1>3. ASSUME NEW p \in Producers, PutAdd(p) \/ PutPost(p)
      PROVE  InsideOwns'
  BY <1>3 DEF PutAdd, PutPost, PutStep, getVars
<1>4. ASSUME NEW p \in Producers, PutUnlock(p)
      PROVE  InsideOwns'
  BY <1>4 DEF PutUnlock, PutStep, Unlock, getVars
<1>5. CASE GetWait \/ GetSkip \/ GetFound \/ GetTake \/ GetReturn
  BY <1>5 DEF GetWait, GetSkip, GetFound, GetTake, GetReturn, GetStep, putVars
<1>6. CASE GetLock
  BY <1>6 DEF GetLock, GetStep, Lock, putVars, Threads
<1>7. CASE GetUnlock
  BY <1>7 DEF GetUnlock, GetStep, Unlock, putVars
<1>8. CASE UNCHANGED queueVars
  BY <1>8 DEF queueVars, putVars, getVars
<1> QED
  BY <1>1, <1>2, <1>3, <1>4, <1>5, <1>6, <1>7, <1>8 DEF QueueNext, Put, Get

\* Every step moves one message, one token and one announcement together.
LEMMA CountStep ==
  ASSUME QueueInv, [QueueNext]_queueVars
  PROVE  CountExact'
<1> USE QueueAssumption DEF QueueInv, QueueTypeOK, CountExact, TokensMatchMessages
<1>1. /\ Posting \subseteq Producers
      /\ Cardinality(Posting) \in Nat
      /\ IsFiniteSet(Slots)
      /\ Cardinality(Slots) \in Nat
  BY ProducerSets, FS_CardinalityType DEF Posting
<1>a. queue_list' = queue_list => Slots' = Slots
  BY DEF Slots
<1>b. put_pc' = put_pc => Posting' = Posting
  BY DEF Posting
<1>d. get_pc' = get_pc => Holding' = Holding
  BY DEF Holding
<1> HIDE DEF CountExact
<1>c. ASSUME Slots' = Slots, Posting' = Posting, cnt_sem' = cnt_sem, Holding' = Holding
      PROVE  CountExact'
  BY <1>c DEF CountExact
<1>2. ASSUME NEW p \in Producers, (\E pri \in Pri : PutBegin(p, pri)) \/ PutLock(p) \/ PutUnlock(p)
      PROVE  CountExact'
  <2>1. Posting' = Posting
    BY <1>2 DEF PutBegin, PutLock, PutUnlock, PutStep, Posting
  <2>2. queue_list' = queue_list /\ cnt_sem' = cnt_sem /\ get_pc' = get_pc
    BY <1>2 DEF PutBegin, PutLock, PutUnlock, getVars
  <2> QED BY <1>a, <1>c, <1>d, <2>1, <2>2
<1>3. ASSUME NEW p \in Producers, PutAdd(p)
      PROVE  CountExact'
  <2>1. Posting' = Posting \union {p} /\ p \notin Posting
    BY <1>3 DEF PutAdd, PutStep, Posting
  <2>2. PutMessage(p) \in Message
    BY <1>3 DEF PutAdd, PutStep, PutMessage, Message, PutNumbered
  <2>3. IsFiniteSet(Slots') /\ Cardinality(Slots') = Cardinality(Slots) + 1
    BY <1>1, <1>3, <2>2, AppendAddsSlot DEF PutAdd
  <2>4. Cardinality(Posting') = Cardinality(Posting) + 1
    BY <1>1, <2>1, AddProducer
  <2>5. cnt_sem' = cnt_sem /\ Holding' = Holding
    BY <1>3 DEF PutAdd, getVars, Holding
  <2> QED BY <1>1, <2>3, <2>4, <2>5 DEF CountExact
<1>4. ASSUME NEW p \in Producers, PutPost(p)
      PROVE  CountExact'
  <2>1. Posting' = Posting \ {p} /\ p \in Posting
    BY <1>4 DEF PutPost, PutStep, Posting
  <2>2. Cardinality(Posting') = Cardinality(Posting) - 1
    BY <1>1, <2>1, DropProducer
  <2>3. Slots' = Slots /\ cnt_sem' = cnt_sem + 1 /\ Holding' = Holding
    BY <1>4, <1>a DEF PutPost, getVars, Holding
  <2> QED BY <1>1, <2>2, <2>3 DEF CountExact
<1>5. CASE GetWait
  <2>1. Slots' = Slots /\ Posting' = Posting /\ cnt_sem' = cnt_sem - 1
    BY <1>5, <1>a, <1>b DEF GetWait, putVars
  <2>2. ~ Holding /\ Holding'
    BY <1>5 DEF GetWait, GetStep, Holding
  <2> QED BY <1>1, <1>5, <2>1, <2>2 DEF CountExact, GetWait
<1>6. CASE GetSkip
  <2>1. get_i # 0
    BY <1>6 DEF GetSkip, GetStep, ScanHasMessage, Holding
  <2>2. queue_list' = queue_list /\ put_pc' = put_pc /\ cnt_sem' = cnt_sem
    BY <1>6 DEF GetSkip, putVars
  <2>3. Holding' = Holding
    BY <1>6, <2>1 DEF GetSkip, GetStep, Holding
  <2> QED BY <1>a, <1>b, <1>c, <2>2, <2>3
<1>7. CASE GetTake
  <2>1. queue_list[get_i] # <<>>
    BY <1>7 DEF GetTake, GetStep, ScanHasMessage
  <2>2. IsFiniteSet(Slots') /\ Cardinality(Slots') = Cardinality(Slots) - 1
    BY <1>1, <1>7, <2>1, TailDropsSlot DEF GetTake
  <2>3. Posting' = Posting /\ cnt_sem' = cnt_sem /\ Holding /\ ~ Holding'
    BY <1>7, <1>b DEF GetTake, GetStep, putVars, Holding
  <2> QED BY <1>1, <2>2, <2>3 DEF CountExact
<1>8. CASE GetFound \/ GetLock \/ GetUnlock \/ GetReturn
  <2>1. queue_list' = queue_list /\ put_pc' = put_pc /\ cnt_sem' = cnt_sem
    BY <1>8 DEF GetFound, GetLock, GetUnlock, GetReturn, putVars
  <2>2. Holding' = Holding
    BY <1>8 DEF GetFound, GetLock, GetUnlock, GetReturn, GetStep, Holding
  <2> QED BY <1>a, <1>b, <1>c, <2>1, <2>2
<1>9. CASE UNCHANGED queueVars
  BY <1>9, <1>a, <1>b, <1>c DEF queueVars, putVars, getVars, Holding
<1> QED
  BY <1>2, <1>3, <1>4, <1>5, <1>6, <1>7, <1>8, <1>9 DEF QueueNext, Put, Get

\* The consumer's token is always backed by a message it has not passed: only
\* the consumer removes, and it passes a list only while that list is empty.
LEMMA ScanStep ==
  ASSUME QueueInv, [QueueNext]_queueVars
  PROVE  ScanHasMessage'
<1> USE QueueAssumption DEF QueueInv, QueueTypeOK
<1>a. ASSUME UNCHANGED <<queue_list, getVars>>
      PROVE  ScanHasMessage'
  BY <1>a DEF ScanHasMessage, Holding, getVars
<1>1. ASSUME NEW p \in Producers,
             (\E pri \in Pri : PutBegin(p, pri)) \/ PutLock(p) \/ PutUnlock(p) \/ PutPost(p)
      PROVE  ScanHasMessage'
  BY <1>1, <1>a DEF PutBegin, PutLock, PutUnlock, PutPost
<1>2. ASSUME NEW p \in Producers, PutAdd(p)
      PROVE  ScanHasMessage'
  <2>1. ASSUME NEW pri \in Pri, queue_list[pri] # <<>>
        PROVE  queue_list'[pri] # <<>>
    <3>1. Append(queue_list[pri], PutMessage(p)) # <<>>
      BY AppendNotEmpty
    <3> QED BY <1>2, <2>1, <3>1 DEF PutAdd
  <2>2. UNCHANGED getVars
    BY <1>2 DEF PutAdd
  <2> QED BY <2>1, <2>2 DEF ScanHasMessage, Holding, getVars
<1>3. CASE GetWait
  <2>1. Cardinality(Slots) # 0 /\ IsFiniteSet(Slots)
    BY <1>3, ProducerSets DEF GetWait, GetStep, CountExact, TokensMatchMessages, Holding, Posting
  <2>2. PICK s : s \in Slots
    BY <2>1, FS_EmptySet
  <2>3. PICK j \in Pri : queue_list[j] # <<>>
    BY <2>2 DEF Slots
  <2>4. BestQueued \in Pri /\ queue_list[BestQueued] # <<>>
    BY <2>3, BestQueuedIsBest
  <2> QED BY <1>3, <2>4 DEF GetWait, GetStep, ScanHasMessage, Holding
<1>4. CASE GetSkip
  <2>1. Holding /\ get_floor # get_i /\ get_i # 0
    BY <1>4 DEF GetSkip, GetStep, ScanHasMessage, Holding
  <2>2. get_floor \in 0 .. get_i - 1
    BY <2>1 DEF ScanHasMessage
  <2> QED BY <1>4, <2>1, <2>2 DEF GetSkip, GetStep, ScanHasMessage, Holding
<1>5. CASE GetFound \/ GetLock
  BY <1>5 DEF GetFound, GetLock, GetStep, ScanHasMessage, Holding
<1>6. CASE GetTake
  <2>1. queue_list[get_i] # <<>>
    BY <1>6 DEF GetTake, GetStep, ScanHasMessage
  <2>2. Head(queue_list[get_i]) \in Message
    BY <2>1
  <2> QED BY <1>6, <2>1, <2>2 DEF GetTake, GetStep, ScanHasMessage, Holding
<1>7. CASE GetUnlock \/ GetReturn
  BY <1>7 DEF GetUnlock, GetReturn, GetStep, ScanHasMessage, Holding
<1>8. CASE UNCHANGED queueVars
  BY <1>8, <1>a DEF queueVars
<1> QED
  BY <1>1, <1>2, <1>3, <1>4, <1>5, <1>6, <1>7, <1>8 DEF QueueNext, Put, Get

\* Each check lets one producer through while there is room for it; each add
\* turns one committed producer into one message.
LEMMA DepthStep ==
  ASSUME QueueInv, [QueueNext]_queueVars
  PROVE  DepthOvershootBounded'
<1> SUFFICES ASSUME NEW pri \in Pri
             PROVE  Len(queue_list'[pri]) + Cardinality(Committed(pri)')
                      =< Depth + Cardinality(Producers) - 1
  BY DEF DepthOvershootBounded
<1> USE QueueAssumption DEF QueueInv, QueueTypeOK
<1>1. /\ Committed(pri) \subseteq Producers
      /\ Cardinality(Committed(pri)) \in Nat
      /\ Cardinality(Producers) \in Nat
      /\ Len(queue_list[pri]) \in Nat
      /\ Len(queue_list[pri]) + Cardinality(Committed(pri)) =< Depth + Cardinality(Producers) - 1
  BY ProducerSets DEF Committed, DepthOvershootBounded
<1>a. ASSUME queue_list'[pri] = queue_list[pri], Committed(pri)' = Committed(pri)
      PROVE  Len(queue_list'[pri]) + Cardinality(Committed(pri)')
               =< Depth + Cardinality(Producers) - 1
  BY <1>1, <1>a
<1>2. ASSUME NEW p \in Producers, NEW q \in Pri, PutBegin(p, q)
      PROVE  Len(queue_list'[pri]) + Cardinality(Committed(pri)')
               =< Depth + Cardinality(Producers) - 1
  <2>1. queue_list' = queue_list /\ p \notin Committed(pri)
    BY <1>2 DEF PutBegin, PutStep, Committed
  <2>2. CASE q = pri /\ put_pc'[p] = "checked"
    <3>1. Len(queue_list[pri]) < Depth
      BY <1>1, <1>2, <2>2 DEF PutBegin, PutStep
    <3>2. Committed(pri)' = Committed(pri) \union {p}
      BY <1>2, <2>2 DEF PutBegin, PutStep, Committed
    <3>3. Cardinality(Committed(pri)') = Cardinality(Committed(pri)) + 1
      BY <1>1, <2>1, <3>2, AddProducer
    <3>4. Committed(pri)' \subseteq Producers
      BY <1>1, <3>2
    <3>5. Cardinality(Committed(pri)') =< Cardinality(Producers)
      BY <3>4, ProducerSets
    <3> QED BY <1>1, <2>1, <3>1, <3>3, <3>5
  <2>3. CASE ~ (q = pri /\ put_pc'[p] = "checked")
    <3>1. Committed(pri)' = Committed(pri)
      BY <1>2, <2>1, <2>3 DEF PutBegin, PutStep, Committed
    <3> QED BY <1>a, <2>1, <3>1
  <2> QED BY <2>2, <2>3
<1>3. ASSUME NEW p \in Producers, PutAdd(p)
      PROVE  Len(queue_list'[pri]) + Cardinality(Committed(pri)')
               =< Depth + Cardinality(Producers) - 1
  <2>1. CASE put_pri[p] = pri
    <3>1. p \in Committed(pri) /\ Committed(pri)' = Committed(pri) \ {p}
      BY <1>3, <2>1 DEF PutAdd, PutStep, Committed
    <3>2. Len(queue_list'[pri]) = Len(queue_list[pri]) + 1
      BY <1>3, <2>1 DEF PutAdd
    <3>3. Cardinality(Committed(pri)') = Cardinality(Committed(pri)) - 1
      BY <1>1, <3>1, DropProducer
    <3> QED BY <1>1, <3>2, <3>3
  <2>2. CASE put_pri[p] # pri
    <3>1. Committed(pri)' = Committed(pri)
      BY <1>3, <2>2 DEF PutAdd, PutStep, Committed
    <3>2. queue_list'[pri] = queue_list[pri]
      BY <1>3, <2>2 DEF PutAdd
    <3> QED BY <1>a, <3>1, <3>2
  <2> QED BY <2>1, <2>2
<1>4. ASSUME NEW p \in Producers, PutLock(p) \/ PutUnlock(p) \/ PutPost(p)
      PROVE  Len(queue_list'[pri]) + Cardinality(Committed(pri)')
               =< Depth + Cardinality(Producers) - 1
  <2>1. Committed(pri)' = Committed(pri)
    BY <1>4 DEF PutLock, PutUnlock, PutPost, PutStep, Committed
  <2>2. queue_list' = queue_list
    BY <1>4 DEF PutLock, PutUnlock, PutPost
  <2> QED BY <1>a, <2>1, <2>2
<1>5. CASE Get
  <2>1. Committed(pri)' = Committed(pri)
    BY <1>5 DEF Get, GetWait, GetSkip, GetFound, GetLock, GetTake, GetUnlock, GetReturn,
                putVars, Committed
  <2>2. CASE GetTake
    <3>1. Len(queue_list'[pri]) \in Nat /\ Len(queue_list'[pri]) =< Len(queue_list[pri])
      BY <2>2 DEF GetTake
    <3> QED BY <1>1, <2>1, <3>1
  <2>3. CASE ~ GetTake
    <3>1. queue_list' = queue_list
      BY <1>5, <2>3 DEF Get, GetWait, GetSkip, GetFound, GetLock, GetUnlock, GetReturn
    <3> QED BY <1>a, <2>1, <3>1
  <2> QED BY <2>2, <2>3
<1>6. CASE UNCHANGED queueVars
  BY <1>6, <1>a DEF queueVars, putVars, Committed
<1> QED
  BY <1>2, <1>3, <1>4, <1>5, <1>6 DEF QueueNext, Put
-----------------------------------------------------------------------------
(* Theorems *)

\* The invariant holds in every reachable state.
THEOREM QueueInvariant == QueueSafeSpec => []QueueInv
<1>1. QueueInv /\ [QueueNext]_queueVars => QueueInv'
  BY TypeStep, InsideStep, CountStep, ScanStep, DepthStep DEF QueueInv
<1> QED BY QueueInitInv, <1>1, PTL DEF QueueSafeSpec

\* Every variable of the queue keeps its shape.
THEOREM TypeCorrect == QueueSafeSpec => []QueueTypeOK
<1>1. QueueInv => QueueTypeOK
  BY DEF QueueInv
<1> QED BY QueueInvariant, <1>1, PTL

\* The token counting of gw_pri_queue_put and gw_pri_queue_get is exact.
THEOREM TokensCorrect == QueueSafeSpec => []TokensMatchMessages
<1>1. QueueInv => TokensMatchMessages
  BY DEF QueueInv, CountExact
<1> QED BY QueueInvariant, <1>1, PTL

\* A get that took a token never comes back empty-handed from its unlocked scan.
THEOREM GetNeverFails == QueueSafeSpec => []GetFindsMessage
<1>1. QueueInv => GetFindsMessage
  BY QueueAssumption DEF QueueInv, ScanHasMessage, GetFindsMessage, Message, NullBuf
<1> QED BY QueueInvariant, <1>1, PTL

\* No two threads are ever inside the list of one priority.
THEOREM ListsAreExclusive == QueueSafeSpec => []ListsExclusive
<1>1. QueueInv => ListsExclusive
  BY DEF QueueInv, InsideOwns, ListsExclusive, InList
<1> QED BY QueueInvariant, <1>1, PTL

\* The unlocked depth check overshoots by less than the number of producers.
THEOREM DepthBound == QueueSafeSpec => []DepthOvershootBounded
<1>1. QueueInv => DepthOvershootBounded
  BY DEF QueueInv
<1> QED BY QueueInvariant, <1>1, PTL

\* gw_pri_queue_put and gw_pri_queue_get implement the abstract queue PriQueue:
\* the add is its Put, taking a token its BeginGet, cutting the node its EndGet.
THEOREM Refinement == QueueSafeSpec => ImplementsPriQueue
<1>1. QueueInit => AbstractQueue!Init
  BY DEF QueueInit, AbstractQueue!Init, AbstractQueue!Pri
<1>2. QueueInv /\ QueueInv' /\ [QueueNext]_queueVars => [AbstractQueue!Next]_AbstractQueue!vars
  <2> SUFFICES ASSUME QueueInv, QueueInv', [QueueNext]_queueVars
               PROVE  [AbstractQueue!Next]_AbstractQueue!vars
    OBVIOUS
  <2> USE QueueAssumption DEF AbstractQueue!vars, AbstractQueue!Pri
  <2>1. ASSUME NEW p \in Producers,
               (\E pri \in Pri : PutBegin(p, pri)) \/ PutLock(p) \/ PutUnlock(p) \/ PutPost(p)
        PROVE  UNCHANGED AbstractQueue!vars
    BY <2>1 DEF PutBegin, PutLock, PutUnlock, PutPost, getVars
  <2>2. ASSUME NEW p \in Producers, PutAdd(p)
        PROVE  AbstractQueue!Next
    <3>1. put_pri[p] \in Pri /\ PutMessage(p) \in Message
      BY <2>2 DEF PutAdd, PutStep, PutMessage, Message, QueueInv, QueueTypeOK, PutNumbered
    <3>2. p \in Committed(put_pri[p]) /\ Committed(put_pri[p]) \subseteq Producers
      BY <2>2 DEF PutAdd, PutStep, Committed
    <3>3. Cardinality(Committed(put_pri[p])) \in Nat \ {0}
      BY <3>2, ProducerSets, QueueAssumption, FS_Subset, FS_EmptySet
    <3>4. Len(queue_list[put_pri[p]]) + Cardinality(Committed(put_pri[p]))
            =< Depth + Cardinality(Producers) - 1
      BY <3>1 DEF QueueInv, DepthOvershootBounded
    <3>5. Len(queue_list[put_pri[p]]) \in Nat /\ Cardinality(Producers) \in Nat
      BY <3>1, ProducerSets DEF QueueInv, QueueTypeOK
    <3>6. Len(queue_list[put_pri[p]]) < Depth + Cardinality(Producers) - 1
      BY <3>3, <3>4, <3>5
    <3>7. AbstractQueue!Put(put_pri[p], PutMessage(p))
      BY <2>2, <3>6 DEF PutAdd, AbstractQueue!Put, getVars
    <3> QED BY <3>1, <3>7 DEF AbstractQueue!Next
  <2>3. CASE GetWait
    <3>1. get_floor = PriNum /\ get_floor' \in Pri /\ queue_list[get_floor'] # <<>>
      BY <2>3 DEF GetWait, GetStep, QueueInv, QueueTypeOK, ScanHasMessage, Holding
    <3>2. \A pri \in Pri : pri > get_floor' => queue_list[pri] = <<>>
      BY <2>3, <3>1, BestQueuedIsBest DEF GetWait
    <3>3. AbstractQueue!BeginGet
      BY <2>3, <3>1, <3>2 DEF GetWait, AbstractQueue!BeginGet
    <3> QED BY <3>3 DEF AbstractQueue!Next
  <2>4. CASE GetTake
    <3>1. /\ get_i \in get_floor .. PriNum - 1
          /\ queue_list[get_i] # <<>>
          /\ get_floor # PriNum
      BY <2>4 DEF GetTake, GetStep, QueueInv, QueueTypeOK, ScanHasMessage, Holding
    <3>2. AbstractQueue!EndGet
      BY <2>4, <3>1 DEF GetTake, AbstractQueue!EndGet
    <3> QED BY <3>2 DEF AbstractQueue!Next
  <2>5. CASE GetSkip \/ GetFound \/ GetLock \/ GetUnlock \/ GetReturn
    BY <2>5 DEF GetSkip, GetFound, GetLock, GetUnlock, GetReturn
  <2>6. CASE UNCHANGED queueVars
    BY <2>6 DEF queueVars, getVars
  <2> QED
    BY <2>1, <2>2, <2>3, <2>4, <2>5, <2>6 DEF QueueNext, Put, Get
<1> QED
  BY <1>1, <1>2, QueueInvariant, PTL DEF QueueSafeSpec, ImplementsPriQueue, AbstractQueue!SafeSpec
-----------------------------------------------------------------------------
(* First in, first out for each producer *)

\* m was numbered before the put its producer is in the middle of, when the
\* producers' counters are no and their places in the code are at.
OldAt(m, no, at) ==
  /\ m \in Message
  /\ m.no =< no[m.from]
  /\ at[m.from] \in {"checked", "locked"} => m.no < no[m.from]

\* m is ahead of every message of its producer in the list q.
Ahead(m, q) == \A k \in 1 .. Len(q) : q[k].from = m.from => m.no < q[k].no

\* The messages queued, the one in the consumer's hands and those delivered are
\* old, and ahead of one another in that order.
FifoInv ==
  /\ \A pri \in Pri : \A k \in 1 .. Len(queue_list[pri]) :
       /\ queue_list[pri][k].pri = pri
       /\ OldAt(queue_list[pri][k], put_no, put_pc)
       /\ \A j \in 1 .. k - 1 : queue_list[pri][j].from = queue_list[pri][k].from
                                  => queue_list[pri][j].no < queue_list[pri][k].no
  /\ \A d \in got : OldAt(d, put_no, put_pc) /\ Ahead(d, queue_list[d.pri])
  /\ get_pc \in {"taken", "copy"} => OldAt(pbuf, put_no, put_pc) /\ Ahead(pbuf, queue_list[pbuf.pri])

\* The fields of a message.
LEMMA MessageFields ==
  ASSUME NEW m \in Message
  PROVE  m.from \in Producers /\ m.no \in Nat /\ m.pri \in Pri
BY QueueAssumption DEF Message

\* No step makes an old message young again.
LEMMA OldStaysOld ==
  ASSUME QueueInv, [QueueNext]_queueVars, NEW m, OldAt(m, put_no, put_pc)
  PROVE  OldAt(m, put_no', put_pc')
<1> USE QueueAssumption DEF QueueInv, QueueTypeOK, OldAt
<1>m. m.from \in Producers /\ m.no \in Nat
  BY MessageFields
<1>a. ASSUME UNCHANGED <<put_pc, put_no>> PROVE OldAt(m, put_no', put_pc')
  BY <1>a
<1>1. ASSUME NEW p \in Producers, NEW pri \in Pri, PutBegin(p, pri) PROVE OldAt(m, put_no', put_pc')
  BY SMTT(30), <1>m, <1>1 DEF PutBegin, PutStep
<1>2. ASSUME NEW p \in Producers, PutLock(p) PROVE OldAt(m, put_no', put_pc')
  BY <1>m, <1>2 DEF PutLock, PutStep
<1>3. ASSUME NEW p \in Producers, PutAdd(p) PROVE OldAt(m, put_no', put_pc')
  BY <1>m, <1>3 DEF PutAdd, PutStep
<1>4. ASSUME NEW p \in Producers, PutUnlock(p) PROVE OldAt(m, put_no', put_pc')
  BY <1>m, <1>4 DEF PutUnlock, PutStep
<1>5. ASSUME NEW p \in Producers, PutPost(p) PROVE OldAt(m, put_no', put_pc')
  BY <1>m, <1>5 DEF PutPost, PutStep
<1>6. CASE Get
  BY <1>a, <1>6 DEF Get, GetWait, GetSkip, GetFound, GetLock, GetTake, GetUnlock, GetReturn,
                    putVars
<1>7. CASE UNCHANGED queueVars
  BY <1>a, <1>7 DEF queueVars, putVars
<1> QED
  BY <1>1, <1>2, <1>3, <1>4, <1>5, <1>6, <1>7 DEF QueueNext, Put

LEMMA FifoStep ==
  ASSUME QueueInv, [QueueNext]_queueVars, FifoInv
  PROVE  FifoInv'
<1> USE QueueAssumption DEF QueueInv, QueueTypeOK
<1>o. \A m : OldAt(m, put_no, put_pc) => OldAt(m, put_no', put_pc')
  BY OldStaysOld
<1>a. ASSUME UNCHANGED <<queue_list, got, pbuf>>,
             get_pc' \in {"taken", "copy"} => get_pc \in {"taken", "copy"}
      PROVE  FifoInv'
  BY <1>a, <1>o DEF FifoInv, Ahead
<1>1. ASSUME NEW p \in Producers,
             (\E pri \in Pri : PutBegin(p, pri)) \/ PutLock(p) \/ PutUnlock(p) \/ PutPost(p)
      PROVE  FifoInv'
  BY <1>1, <1>a DEF PutBegin, PutLock, PutUnlock, PutPost, getVars
<1>2. ASSUME NEW p \in Producers, PutAdd(p)
      PROVE  FifoInv'
  <2> DEFINE new == PutMessage(p)
             at == put_pri[p]
  <2>1. /\ put_pc[p] = "locked" /\ at \in Pri /\ new \in Message
        /\ new.from = p /\ new.no = put_no[p] /\ new.pri = at
    BY <1>2 DEF PutAdd, PutStep, PutMessage, Message, PutNumbered
  <2>2. /\ queue_list'[at] = Append(queue_list[at], new)
        /\ \A pri \in Pri : pri # at => queue_list'[pri] = queue_list[pri]
        /\ UNCHANGED getVars
    BY <1>2 DEF PutAdd
  <2>3. OldAt(new, put_no', put_pc')
    BY <1>2, <2>1 DEF PutAdd, PutStep, OldAt
  <2>4. \A m : OldAt(m, put_no, put_pc) /\ m.from = p => m.no < new.no
    BY <2>1 DEF OldAt
  <2> HIDE DEF new, at
  <2>5. /\ Len(queue_list'[at]) = Len(queue_list[at]) + 1
        /\ queue_list'[at][Len(queue_list[at]) + 1] = new
        /\ \A k \in 1 .. Len(queue_list[at]) : queue_list'[at][k] = queue_list[at][k]
        /\ Len(queue_list[at]) \in Nat
    BY <2>1, <2>2
  <2>6. ASSUME NEW m, OldAt(m, put_no, put_pc), Ahead(m, queue_list[m.pri])
        PROVE  Ahead(m, queue_list'[m.pri])
    <3>1. m.pri \in Pri
      BY <2>6, MessageFields DEF OldAt
    <3>2. CASE m.pri # at
      BY <2>2, <2>6, <3>1, <3>2
    <3>3. CASE m.pri = at
      <4> SUFFICES ASSUME NEW k \in 1 .. Len(queue_list'[at]), queue_list'[at][k].from = m.from
                   PROVE  m.no < queue_list'[at][k].no
        BY <3>3 DEF Ahead
      <4>1. CASE k \in 1 .. Len(queue_list[at])
        BY <2>5, <2>6, <3>3, <4>1 DEF Ahead
      <4>2. CASE k = Len(queue_list[at]) + 1
        BY <2>1, <2>4, <2>5, <2>6, <4>2
      <4> QED BY SMTT(30), <2>5, <4>1, <4>2
    <3> QED BY <3>2, <3>3
  <2>7. ASSUME NEW pri \in Pri, NEW k \in 1 .. Len(queue_list'[pri])
        PROVE  /\ queue_list'[pri][k].pri = pri
               /\ OldAt(queue_list'[pri][k], put_no', put_pc')
               /\ \A j \in 1 .. k - 1 : queue_list'[pri][j].from = queue_list'[pri][k].from
                                          => queue_list'[pri][j].no < queue_list'[pri][k].no
    <3>1. CASE pri # at
      BY <1>o, <2>2, <3>1 DEF FifoInv
    <3>2. CASE pri = at /\ k \in 1 .. Len(queue_list[at])
      <4>1. /\ queue_list'[pri][k] = queue_list[at][k]
            /\ \A j \in 1 .. k - 1 : queue_list'[pri][j] = queue_list[at][j]
        BY <2>5, <3>2
      <4>2. /\ queue_list[at][k].pri = at
            /\ OldAt(queue_list[at][k], put_no, put_pc)
            /\ \A j \in 1 .. k - 1 : queue_list[at][j].from = queue_list[at][k].from
                                       => queue_list[at][j].no < queue_list[at][k].no
        BY <2>1, <3>2 DEF FifoInv
      <4> QED BY <1>o, <3>2, <4>1, <4>2
    <3>3. CASE pri = at /\ k = Len(queue_list[at]) + 1
      <4>1. \A j \in 1 .. k - 1 : /\ j \in 1 .. Len(queue_list[at])
                                 /\ queue_list'[pri][j] = queue_list[at][j]
                                 /\ OldAt(queue_list[at][j], put_no, put_pc)
        BY <2>1, <2>5, <3>3 DEF FifoInv
      <4> QED BY <2>1, <2>3, <2>4, <2>5, <3>3, <4>1
    <3>4. pri = at => k \in 1 .. Len(queue_list[at]) \/ k = Len(queue_list[at]) + 1
      BY <2>5
    <3> QED BY <3>1, <3>2, <3>3, <3>4
  <2>8. \A d \in got' : OldAt(d, put_no', put_pc') /\ Ahead(d, queue_list'[d.pri])
    BY <1>o, <2>2, <2>6 DEF FifoInv, getVars
  <2>9. get_pc' \in {"taken", "copy"} => OldAt(pbuf, put_no', put_pc') /\ Ahead(pbuf, queue_list'[pbuf.pri])
    BY <1>o, <2>2, <2>6 DEF FifoInv, getVars
  <2>10. pbuf' = pbuf
    BY <2>2 DEF getVars
  <2> QED BY <2>7, <2>8, <2>9, <2>10 DEF FifoInv, Ahead, OldAt
<1>3. CASE GetWait \/ GetSkip \/ GetFound \/ GetLock \/ GetUnlock
  <2>1. CASE GetWait
    BY <1>o, <2>1 DEF GetWait, GetStep, FifoInv, Ahead
  <2>2. CASE GetSkip \/ GetFound \/ GetLock \/ GetUnlock
    BY <1>a, <2>2 DEF GetSkip, GetFound, GetLock, GetUnlock, GetStep
  <2> QED BY <1>3, <2>1, <2>2
<1>4. CASE GetTake
  <2>1. queue_list[get_i] # <<>>
    BY <1>4 DEF GetTake, GetStep, ScanHasMessage
  <2>2. /\ pbuf' = queue_list[get_i][1]
        /\ queue_list'[get_i] = Tail(queue_list[get_i])
        /\ \A pri \in Pri : pri # get_i => queue_list'[pri] = queue_list[pri]
        /\ got' = got
    BY <1>4, <2>1 DEF GetTake
  <2>3. /\ Len(queue_list[get_i]) \in Nat \ {0}
        /\ Len(queue_list'[get_i]) = Len(queue_list[get_i]) - 1
        /\ \A k \in 1 .. Len(queue_list'[get_i]) : queue_list'[get_i][k] = queue_list[get_i][k + 1]
    BY <2>1, <2>2
  <2>4. OldAt(pbuf', put_no', put_pc') /\ pbuf'.pri = get_i /\ Ahead(pbuf', queue_list'[get_i])
    <3>1. OldAt(pbuf', put_no, put_pc) /\ pbuf'.pri = get_i
      <4>1. 1 \in 1 .. Len(queue_list[get_i])
        BY <2>3
      <4>2. queue_list[get_i][1].pri = get_i /\ OldAt(queue_list[get_i][1], put_no, put_pc)
        BY <4>1 DEF FifoInv
      <4> QED BY <2>2, <4>2
    <3>2. ASSUME NEW k \in 1 .. Len(queue_list'[get_i]), queue_list'[get_i][k].from = pbuf'.from
          PROVE  pbuf'.no < queue_list'[get_i][k].no
      <4>1. k + 1 \in 1 .. Len(queue_list[get_i]) /\ 1 \in 1 .. (k + 1) - 1
        BY <2>3
      <4>2. queue_list'[get_i][k] = queue_list[get_i][k + 1]
        BY <2>3
      <4>3. queue_list[get_i][1].from = queue_list[get_i][k + 1].from
              => queue_list[get_i][1].no < queue_list[get_i][k + 1].no
        BY <2>1, <4>1 DEF FifoInv
      <4> QED BY <2>2, <3>2, <4>2, <4>3
    <3> QED BY <1>o, <3>1, <3>2 DEF Ahead
  <2>5. ASSUME NEW pri \in Pri, NEW k \in 1 .. Len(queue_list'[pri])
        PROVE  /\ queue_list'[pri][k].pri = pri
               /\ OldAt(queue_list'[pri][k], put_no', put_pc')
               /\ \A j \in 1 .. k - 1 : queue_list'[pri][j].from = queue_list'[pri][k].from
                                          => queue_list'[pri][j].no < queue_list'[pri][k].no
    <3>1. CASE pri # get_i
      BY <1>o, <2>2, <3>1 DEF FifoInv
    <3>2. CASE pri = get_i
      <4>1. k + 1 \in 1 .. Len(queue_list[get_i])
        BY <2>3, <3>2
      <4>2. \A j \in 1 .. k - 1 : j + 1 \in 1 .. (k + 1) - 1 /\ j \in 1 .. Len(queue_list'[get_i])
        BY <2>3, <3>2
      <4>3. queue_list'[pri][k] = queue_list[get_i][k + 1]
        BY <2>3, <3>2
      <4>4. \A j \in 1 .. k - 1 : queue_list'[pri][j] = queue_list[get_i][j + 1]
        BY <2>3, <4>2, <3>2
      <4>5. ASSUME NEW j \in 1 .. k - 1, queue_list'[pri][j].from = queue_list'[pri][k].from
            PROVE  queue_list'[pri][j].no < queue_list'[pri][k].no
        <5>1. queue_list[get_i][j + 1].from = queue_list[get_i][k + 1].from
          BY <4>3, <4>4, <4>5
        <5>2. queue_list[get_i][j + 1].no < queue_list[get_i][k + 1].no
          BY <4>1, <4>2, <5>1 DEF FifoInv
        <5> QED BY <4>3, <4>4, <5>2
      <4>6. queue_list[get_i][k + 1].pri = get_i /\ OldAt(queue_list[get_i][k + 1], put_no, put_pc)
        BY <4>1 DEF FifoInv
      <4> QED BY <1>o, <3>2, <4>3, <4>5, <4>6
    <3> QED BY <3>1, <3>2
  <2>6. ASSUME NEW d \in got'
        PROVE  OldAt(d, put_no', put_pc') /\ Ahead(d, queue_list'[d.pri])
    <3>1. OldAt(d, put_no, put_pc) /\ Ahead(d, queue_list[d.pri]) /\ d.pri \in Pri
      BY <2>2, <2>6, MessageFields DEF FifoInv, OldAt
    <3>2. CASE d.pri # get_i
      BY <1>o, <2>2, <3>1, <3>2
    <3>3. CASE d.pri = get_i
      <4>1. \A k \in 1 .. Len(queue_list'[get_i]) : k + 1 \in 1 .. Len(queue_list[get_i])
        BY <2>3
      <4>2. Ahead(d, queue_list'[get_i])
        <5> SUFFICES ASSUME NEW k \in 1 .. Len(queue_list'[get_i]),
                            queue_list'[get_i][k].from = d.from
                     PROVE  d.no < queue_list'[get_i][k].no
          BY DEF Ahead
        <5>1. queue_list'[get_i][k] = queue_list[get_i][k + 1]
          BY <2>3
        <5> QED BY <3>1, <3>3, <4>1, <5>1 DEF Ahead
      <4> QED BY <1>o, <3>1, <3>3, <4>2
    <3> QED BY <3>2, <3>3
  <2> QED BY <2>4, <2>5, <2>6 DEF FifoInv, Ahead, OldAt
<1>5. CASE GetReturn
  <2>1. /\ got' = got \union {pbuf}
        /\ UNCHANGED <<queue_list, put_no, put_pc, pbuf>>
        /\ get_pc = "copy" /\ get_pc' = "idle"
    BY <1>5 DEF GetReturn, GetStep, putVars
  <2>2. \A d \in got' : OldAt(d, put_no, put_pc) /\ Ahead(d, queue_list[d.pri])
    BY <2>1 DEF FifoInv
  <2> QED BY <2>1, <2>2 DEF FifoInv, Ahead, OldAt
<1>6. CASE UNCHANGED queueVars
  BY <1>6, <1>a DEF queueVars, getVars
<1> QED
  BY <1>1, <1>2, <1>3, <1>4, <1>5, <1>6 DEF QueueNext, Put, Get

\* What one producer puts at one priority is queued and delivered in that order.
THEOREM FifoCorrect == QueueSafeSpec => []FifoPerProducer
<1>1. QueueInit => FifoInv
  BY QueueAssumption DEF QueueInit, FifoInv
<1>2. QueueInv /\ FifoInv /\ [QueueNext]_queueVars => FifoInv'
  BY FifoStep
<1>3. FifoInv => FifoPerProducer
  BY SMTT(30) DEF FifoInv, FifoPerProducer, Ahead
<1> QED BY <1>1, <1>2, <1>3, QueueInvariant, PTL DEF QueueSafeSpec
=============================================================================
