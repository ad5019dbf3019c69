-------------------------- MODULE RcpSettingsProofs --------------------------
(***************************************************************************)
(* Proofs about the settings of a switch in flash (RcpSettings), for any   *)
(* sessions, ports, saved registers and commands: settings that count as   *)
(* valid are what the registers held when the save came to them.           *)
(***************************************************************************)
EXTENDS RcpSettings, WellFoundedInduction, TLAPS

\* A nonempty set of naturals has a least element.
LEMMA LeastNatural ==
  ASSUME NEW S, S \subseteq Nat, S # {}
  PROVE  \E x \in S : \A y \in S : x =< y
<1> DEFINE R == OpToRel(<, Nat)
<1>1. IsWellFoundedOn(R, Nat)
  BY NatLessThanWellFounded
<1>2. \A x, y \in Nat : y < x => <<y, x>> \in R
  BY DEF OpToRel
<1> HIDE DEF R
<1>3. PICK x \in S : \A y \in S : ~ (<<y, x>> \in R)
  BY <1>1, WFMin
<1>4. \A y \in S : ~ (y < x)
  BY <1>2, <1>3
<1>5. \A y \in S : x =< y
  BY <1>4
<1> QED
  BY <1>5

\* A sequence of whatever it holds.
IsSeq(s) == \E S : s \in Seq(S)

LEMMA ConcatSeq ==
  ASSUME NEW s, IsSeq(s), NEW t, IsSeq(t)
  PROVE  /\ IsSeq(s \o t) /\ Len(s \o t) = Len(s) + Len(t) /\ Len(s) \in Nat /\ Len(t) \in Nat
         /\ \A i \in 1 .. Len(s) + Len(t) : (s \o t)[i] = IF i <= Len(s) THEN s[i] ELSE t[i - Len(s)]
<1>1. PICK S : s \in Seq(S)
  BY DEF IsSeq
<1>2. PICK U : t \in Seq(U)
  BY DEF IsSeq
<1> DEFINE T == S \union U
<1>3. s \in Seq(T) /\ t \in Seq(T)
  BY <1>1, <1>2
<1> HIDE DEF T
<1>4. s \o t \in Seq(T)
  BY <1>3
<1> QED
  BY <1>3, <1>4 DEF IsSeq

LEMMA EmptyIsSeq == IsSeq(<<>>) /\ Len(<<>>) = 0
<1>1. \A x : <<>> \in Seq({x})
  OBVIOUS
<1> QED
  BY <1>1 DEF IsSeq

\* A function on the first n numbers is a sequence of length n.
LEMMA MakesSeq ==
  ASSUME NEW n \in Nat, NEW s, s = [i \in 1 .. n |-> s[i]]
  PROVE  IsSeq(s) /\ Len(s) = n
<1> DEFINE S == {s[i] : i \in 1 .. n}
<1>1. s \in [1 .. n -> S]
  OBVIOUS
<1> HIDE DEF S
<1>2. s \in Seq(S)
  BY <1>1
<1>3. DOMAIN s = 1 .. n /\ DOMAIN s = 1 .. Len(s) /\ Len(s) \in Nat
  BY <1>1, <1>2
<1> QED
  BY <1>2, <1>3 DEF IsSeq

\* The least of some numbers.
LEMMA MinIsLeast ==
  ASSUME NEW S, S \subseteq Nat, S # {}
  PROVE  Min(S) \in S /\ \A y \in S : Min(S) <= y
<1>1. PICK x \in S : \A y \in S : x =< y
  BY LeastNatural
<1>2. \E z \in S : \A y \in S : z <= y
  BY <1>1
<1> QED
  BY <1>2 DEF Min

LEMMA PartSeq ==
  ASSUME NEW s, IsSeq(s), NEW m \in Nat \ {0}, NEW n \in Nat, n <= Len(s)
  PROVE  /\ IsSeq(SubSeq(s, m, n)) /\ Len(SubSeq(s, m, n)) = IF m <= n THEN n - m + 1 ELSE 0
         /\ Len(s) \in Nat
         /\ \A i \in 1 .. n - m + 1 : SubSeq(s, m, n)[i] = s[m + i - 1]
<1>1. PICK S : s \in Seq(S)
  BY DEF IsSeq
<1>2. SubSeq(s, m, n) \in Seq(S)
  BY <1>1
<1> QED
  BY <1>1, <1>2 DEF IsSeq

\* A sequence is the function on its places, and another one with the same elements is it.
LEMMA SeqIsFunction ==
  ASSUME NEW s, IsSeq(s)
  PROVE  Len(s) \in Nat /\ DOMAIN s = 1 .. Len(s) /\ s = [i \in 1 .. Len(s) |-> s[i]]
  BY DEF IsSeq

LEMMA SameSeq ==
  ASSUME NEW s, IsSeq(s), NEW t, IsSeq(t), Len(s) = Len(t), \A i \in 1 .. Len(s) : s[i] = t[i]
  PROVE  s = t
<1>1. s = [i \in 1 .. Len(s) |-> s[i]] /\ t = [i \in 1 .. Len(t) |-> t[i]]
  BY SeqIsFunction
<1> QED
  BY <1>1

LEMMA TailSeq ==
  ASSUME NEW s, IsSeq(s), s # <<>>
  PROVE  /\ IsSeq(Tail(s)) /\ Len(Tail(s)) = Len(s) - 1 /\ Len(s) \in Nat \ {0}
         /\ \A i \in 1 .. Len(s) - 1 : Tail(s)[i] = s[i + 1]
         /\ Head(s) = s[1]
<1>1. PICK S : s \in Seq(S)
  BY DEF IsSeq
<1>2. Tail(s) \in Seq(S)
  BY <1>1
<1> QED
  BY <1>1, <1>2 DEF IsSeq
-----------------------------------------------------------------------------
(* Lists of steps without a save or an erasure. *)

FileOps == {"save", "save word", "file", "clear file"}

\* Lists whose steps do not touch the file, and whose `if`s go on with such lists.
Closed(Q) ==
  \A l \in Q :
    /\ IsSeq(l)
    /\ \A i \in 1 .. Len(l) :
         /\ l[i].op \notin FileOps
         /\ l[i].op = "if" => l[i].yes \in Q /\ l[i].no \in Q

Quiet(l) == \E Q : l \in Q /\ Closed(Q)
QuietStep(step) == step.op \notin FileOps /\ (step.op = "if" => Quiet(step.yes) /\ Quiet(step.no))

\* A list is quiet when its steps are.
LEMMA QuietIs ==
  ASSUME NEW l
  PROVE  Quiet(l) <=> IsSeq(l) /\ \A i \in 1 .. Len(l) : QuietStep(l[i])
<1>1. ASSUME Quiet(l) PROVE IsSeq(l) /\ \A i \in 1 .. Len(l) : QuietStep(l[i])
  BY <1>1 DEF Quiet, Closed, QuietStep
<1>2. ASSUME IsSeq(l), \A i \in 1 .. Len(l) : QuietStep(l[i]) PROVE Quiet(l)
  <2> DEFINE Of(m) == CHOOSE Q : m \in Q /\ Closed(Q)
             Yes == UNION {Of(l[i].yes) : i \in {j \in 1 .. Len(l) : l[j].op = "if"}}
             No == UNION {Of(l[i].no) : i \in {j \in 1 .. Len(l) : l[j].op = "if"}}
  <2>1. \A m : Quiet(m) => m \in Of(m) /\ Closed(Of(m))
    BY DEF Quiet
  <2> HIDE DEF Of
  <2>2. \A i \in 1 .. Len(l) : l[i].op = "if" => Quiet(l[i].yes) /\ Quiet(l[i].no)
    BY <1>2 DEF QuietStep
  <2>3. \A i \in 1 .. Len(l) : l[i].op = "if" => l[i].yes \in Yes /\ l[i].no \in No
    BY <2>1, <2>2
  <2>4. ASSUME NEW m \in Yes \union No
        PROVE  \E Q : m \in Q /\ Closed(Q) /\ Q \subseteq Yes \union No
    BY <2>1, <2>2
  <2> HIDE DEF Yes, No
  <2> DEFINE Q == {l} \union Yes \union No
  <2>5. ASSUME NEW m \in Q
        PROVE  /\ IsSeq(m)
               /\ \A i \in 1 .. Len(m) :
                    /\ m[i].op \notin FileOps
                    /\ m[i].op = "if" => m[i].yes \in Q /\ m[i].no \in Q
    <3>1. CASE m = l
      BY <1>2, <2>3, <3>1 DEF QuietStep
    <3>2. CASE m # l
      <4>1. PICK P : m \in P /\ Closed(P) /\ P \subseteq Yes \union No
        BY <2>4, <2>5, <3>2
      <4> QED
        BY <4>1 DEF Closed
    <3> QED
      BY <3>1, <3>2
  <2>6. l \in Q /\ Closed(Q)
    BY <2>5 DEF Closed
  <2> QED
    BY <2>6 DEF Quiet
<1> QED
  BY <1>1, <1>2

LEMMA QuietParts ==
  ASSUME NEW l, Quiet(l)
  PROVE  IsSeq(l) /\ Len(l) \in Nat /\ DOMAIN l = 1 .. Len(l) /\ \A i \in 1 .. Len(l) : QuietStep(l[i])
  BY QuietIs, SeqIsFunction

LEMMA QuietEmpty == Quiet(<<>>)
<1>1. IsSeq(<<>>) /\ Len(<<>>) = 0
  BY EmptyIsSeq
<1> QED
  BY <1>1, QuietIs

LEMMA QuietConcat ==
  ASSUME NEW l, Quiet(l), NEW m, Quiet(m)
  PROVE  Quiet(l \o m)
<1>1. IsSeq(l) /\ IsSeq(m)
  BY QuietParts
<1>2. /\ IsSeq(l \o m) /\ Len(l \o m) = Len(l) + Len(m) /\ Len(l) \in Nat /\ Len(m) \in Nat
      /\ \A i \in 1 .. Len(l) + Len(m) : (l \o m)[i] = IF i <= Len(l) THEN l[i] ELSE m[i - Len(l)]
  BY <1>1, ConcatSeq
<1>3. ASSUME NEW i \in 1 .. Len(l) + Len(m) PROVE QuietStep((l \o m)[i])
  <2>1. CASE i <= Len(l)
    BY <1>2, <2>1, QuietParts
  <2>2. CASE ~(i <= Len(l))
    <3>1. i - Len(l) \in 1 .. Len(m)
      BY <1>2, <2>2
    <3> QED
      BY <1>2, <2>2, <3>1, QuietParts
  <2> QED
    BY <2>1, <2>2
<1> QED
  BY <1>2, <1>3, QuietIs

LEMMA QuietPart ==
  ASSUME NEW l, Quiet(l), NEW m \in 1 .. Len(l)
  PROVE  Quiet(SubSeq(l, m, Len(l)))
<1>1. IsSeq(l) /\ Len(l) \in Nat
  BY QuietParts
<1>2. m \in Nat \ {0} /\ m <= Len(l)
  BY <1>1
<1> DEFINE part == SubSeq(l, m, Len(l))
<1>3. /\ IsSeq(part) /\ Len(part) = Len(l) - m + 1
      /\ \A i \in 1 .. Len(l) - m + 1 : part[i] = l[m + i - 1]
  BY <1>1, <1>2, PartSeq
<1> HIDE DEF part
<1>4. ASSUME NEW i \in 1 .. Len(l) - m + 1 PROVE QuietStep(part[i])
  <2>1. m + i - 1 \in 1 .. Len(l)
    BY <1>1, <1>2
  <2> QED
    BY <1>3, <2>1, QuietParts
<1>5. Quiet(part)
  BY <1>3, <1>4, QuietIs
<1> QED
  BY <1>5 DEF part

LEMMA QuietTail ==
  ASSUME NEW l, Quiet(l), l # <<>>
  PROVE  Quiet(Tail(l)) /\ QuietStep(Head(l))
<1>1. IsSeq(l)
  BY QuietParts
<1>2. /\ IsSeq(Tail(l)) /\ Len(Tail(l)) = Len(l) - 1 /\ Len(l) \in Nat \ {0}
      /\ \A i \in 1 .. Len(l) - 1 : Tail(l)[i] = l[i + 1]
      /\ Head(l) = l[1]
  BY <1>1, TailSeq
<1>3. ASSUME NEW i \in 1 .. Len(l) - 1 PROVE QuietStep(Tail(l)[i])
  <2>1. i + 1 \in 1 .. Len(l)
    BY <1>2
  <2> QED
    BY <1>2, <2>1, QuietParts
<1>4. QuietStep(l[1])
  BY <1>2, QuietParts
<1> QED
  BY <1>2, <1>3, <1>4, QuietIs

\* What goes on after marks are passed, or after the next one.
LEMMA PastMarksIs ==
  ASSUME NEW l, IsSeq(l)
  PROVE  /\ l = <<>> => PastMarks(l) = <<>>
         /\ l # <<>> /\ l[1].op # "next" => PastMarks(l) = l
         /\ PastMarks(l) = <<>> \/ \E m \in 1 .. Len(l) : PastMarks(l) = SubSeq(l, m, Len(l))
<1> DEFINE which == {i \in DOMAIN l : ~(l[i].op = "next")}
<1>1. PastMarks(l) = IF which = {} THEN <<>> ELSE SubSeq(l, Min(which), Len(l))
  BY DEF PastMarks, From, IsMark
<1>2. Len(l) \in Nat /\ DOMAIN l = 1 .. Len(l)
  BY SeqIsFunction
<1>3. which \subseteq 1 .. Len(l) /\ which \subseteq Nat
  BY <1>2
<1>4. ASSUME which # {} PROVE Min(which) \in which /\ \A i \in which : Min(which) <= i
  BY <1>3, <1>4, MinIsLeast
<1>5. ASSUME l = <<>> PROVE PastMarks(l) = <<>>
  <2>1. which = {}
    BY <1>2, <1>5, EmptyIsSeq
  <2> QED
    BY <1>1, <2>1
<1>6. ASSUME l # <<>>, l[1].op # "next" PROVE PastMarks(l) = l
  <2>1. 1 \in 1 .. Len(l)
    <3>1. Len(l) # 0
      BY <1>6, EmptyIsSeq, SameSeq
    <3> QED
      BY <1>2, <3>1
  <2>2. 1 \in which
    BY <1>2, <1>6, <2>1
  <2>3. Min(which) = 1
    BY <1>3, <1>4, <2>2
  <2>4. /\ IsSeq(SubSeq(l, 1, Len(l))) /\ Len(SubSeq(l, 1, Len(l))) = Len(l)
        /\ \A i \in 1 .. Len(l) : SubSeq(l, 1, Len(l))[i] = l[i]
    BY <1>2, <2>1, PartSeq
  <2>5. SubSeq(l, 1, Len(l)) = l
    BY <2>4, SameSeq
  <2> QED
    BY <1>1, <2>2, <2>3, <2>5
<1> QED
  BY <1>1, <1>3, <1>4, <1>5, <1>6

LEMMA QuietPastMarks ==
  ASSUME NEW l, Quiet(l)
  PROVE  Quiet(PastMarks(l))
<1>1. PastMarks(l) = <<>> \/ \E m \in 1 .. Len(l) : PastMarks(l) = SubSeq(l, m, Len(l))
  BY QuietParts, PastMarksIs
<1> QED
  BY <1>1, QuietEmpty, QuietPart

LEMMA QuietAfterMark ==
  ASSUME NEW l, Quiet(l)
  PROVE  Quiet(AfterMark(l))
<1> DEFINE which == {i \in DOMAIN l : l[i].op = "next"}
           rest == IF which = {} THEN <<>> ELSE SubSeq(l, Min(which), Len(l))
<1>1. AfterMark(l) = PastMarks(rest)
  BY DEF AfterMark, From, IsMark
<1>2. Len(l) \in Nat /\ DOMAIN l = 1 .. Len(l)
  BY QuietParts
<1>3. which # {} => Min(which) \in 1 .. Len(l)
  <2>1. which \subseteq 1 .. Len(l) /\ which \subseteq Nat
    BY <1>2
  <2> QED
    BY <2>1, MinIsLeast
<1>4. Quiet(rest)
  BY <1>3, QuietEmpty, QuietPart
<1> QED
  BY <1>1, <1>4, QuietPastMarks

\* Lists one after the other.  The first n of them make one list, by the least n for which they do not.
Joined(ls, n, f) == f = [i \in 1 .. n |-> IF i = 1 THEN ls[i] ELSE f[i - 1] \o ls[i]]

LEMMA JoinedExists ==
  ASSUME NEW ls, NEW n \in Nat
  PROVE  \E f : Joined(ls, n, f)
<1> DEFINE bad == {m \in Nat : ~ \E f : Joined(ls, m, f)}
<1>1. ASSUME bad # {} PROVE FALSE
  <2>1. PICK m \in bad : \A k \in bad : m =< k
    BY <1>1, LeastNatural
  <2>2. CASE m = 0
    <3> DEFINE f == [i \in 1 .. 0 |-> ls[i]]
    <3>1. f = [i \in 1 .. 0 |-> IF i = 1 THEN ls[i] ELSE f[i - 1] \o ls[i]]
      OBVIOUS
    <3> HIDE DEF f
    <3>2. Joined(ls, 0, f)
      BY <3>1 DEF Joined
    <3> QED
      BY <2>1, <2>2, <3>2
  <2>3. CASE m # 0
    <3>1. m - 1 \in Nat /\ m - 1 \notin bad
      BY <2>1, <2>3
    <3>2. PICK f : Joined(ls, m - 1, f)
      BY <3>1
    <3> DEFINE With(list, i) == list \o ls[i]
    <3>3. \A i \in 1 .. m - 1 : f[i] = IF i = 1 THEN ls[i] ELSE With(f[i - 1], i)
      BY <3>1, <3>2 DEF Joined
    <3> DEFINE h == [i \in 1 .. m |-> IF i < m THEN f[i] ELSE IF i = 1 THEN ls[i] ELSE With(f[i - 1], i)]
    <3>4. Joined(ls, m, h) <=> h = [i \in 1 .. m |-> IF i = 1 THEN ls[i] ELSE With(h[i - 1], i)]
      BY DEF Joined
    <3> HIDE DEF With
    <3>5. \A i \in 1 .. m : h[i] = IF i = 1 THEN ls[i] ELSE With(h[i - 1], i)
      <4> TAKE i \in 1 .. m
      <4>1. CASE i = 1
        <5>1. h[i] = IF i < m THEN f[i] ELSE ls[i]
          BY <4>1
        <5>2. i < m => i \in 1 .. m - 1
          BY <2>1
        <5> QED
          BY <3>3, <4>1, <5>1, <5>2
      <4>2. CASE i # 1
        <5>1. i - 1 \in 1 .. m /\ i - 1 < m /\ h[i - 1] = f[i - 1]
          BY <2>1, <4>2
        <5>2. CASE i < m
          <6>1. i \in 1 .. m - 1 /\ h[i] = f[i]
            BY <2>1, <5>2
          <6> QED
            BY <3>3, <4>2, <5>1, <6>1
        <5>3. CASE i = m
          <6>1. h[i] = With(f[i - 1], i)
            BY <2>1, <4>2, <5>3
          <6> QED
            BY <4>2, <5>1, <6>1
        <5> QED
          BY <2>1, <5>2, <5>3
      <4> QED
        BY <4>1, <4>2
    <3>6. h = [i \in 1 .. m |-> h[i]]
      OBVIOUS
    <3> HIDE DEF h
    <3>7. h = [i \in 1 .. m |-> IF i = 1 THEN ls[i] ELSE With(h[i - 1], i)]
      BY <3>5, <3>6
    <3> QED
      BY <2>1, <3>4, <3>7
  <2> QED
    BY <2>2, <2>3
<1> QED
  BY <1>1

LEMMA QuietFlatten ==
  ASSUME NEW ls, IsSeq(ls), \A i \in 1 .. Len(ls) : Quiet(ls[i])
  PROVE  Quiet(FlattenSeq(ls))
<1>1. Len(ls) \in Nat
  BY SeqIsFunction
<1>2. CASE Len(ls) = 0
  <2>1. FlattenSeq(ls) = ls
    BY <1>2 DEF FlattenSeq
  <2> QED
    BY <1>2, <2>1, QuietIs
<1>3. CASE Len(ls) # 0
  <2> DEFINE flatten == CHOOSE f : Joined(ls, Len(ls), f)
  <2>1. Joined(ls, Len(ls), flatten)
    BY <1>1, JoinedExists
  <2>2. FlattenSeq(ls) = flatten[Len(ls)]
    BY <1>3 DEF FlattenSeq, Joined
  <2> HIDE DEF flatten
  <2>3. \A i \in 1 .. Len(ls) : flatten[i] = IF i = 1 THEN ls[i] ELSE flatten[i - 1] \o ls[i]
    BY <2>1 DEF Joined
  <2> DEFINE bad == {i \in 1 .. Len(ls) : ~Quiet(flatten[i])}
  <2>4. ASSUME bad # {} PROVE FALSE
    <3>1. PICK i \in bad : \A j \in bad : i =< j
      <4>1. bad \subseteq Nat
        BY <1>1
      <4> QED
        BY <2>4, <4>1, LeastNatural
    <3>2. i # 1
      BY <2>3, <3>1
    <3>3. i - 1 \in 1 .. Len(ls) /\ i - 1 \notin bad
      BY <1>1, <3>1, <3>2
    <3>4. Quiet(flatten[i - 1]) /\ Quiet(ls[i])
      BY <3>1, <3>3
    <3>5. Quiet(flatten[i - 1] \o ls[i])
      BY <3>4, QuietConcat
    <3> QED
      BY <2>3, <3>1, <3>2, <3>5
  <2>5. Len(ls) \in 1 .. Len(ls)
    BY <1>1, <1>3
  <2> QED
    BY <2>2, <2>4, <2>5
<1> QED
  BY <1>2, <1>3

\* What is done for the ports of a list.
LEMMA QuietPorts ==
  ASSUME NEW list, IsSeq(list), NEW ls, ls = [i \in DOMAIN list |-> ls[i]],
         \A i \in DOMAIN list : Quiet(ls[i])
  PROVE  Quiet(FlattenSeq(ls))
<1>1. Len(list) \in Nat /\ DOMAIN list = 1 .. Len(list)
  BY SeqIsFunction
<1>2. IsSeq(ls) /\ Len(ls) = Len(list)
  BY <1>1, MakesSeq
<1> QED
  BY <1>1, <1>2, QuietFlatten
-----------------------------------------------------------------------------
\* Short lists.
LEMMA QuietSteps ==
  /\ \A x : QuietStep(x) => Quiet(<<x>>)
  /\ \A x, y : QuietStep(x) /\ QuietStep(y) => Quiet(<<x, y>>)
  /\ \A x, y, z : QuietStep(x) /\ QuietStep(y) /\ QuietStep(z) => Quiet(<<x, y, z>>)
<1>1. ASSUME NEW x, QuietStep(x) PROVE Quiet(<<x>>)
  <2>1. <<x>> \in Seq({x}) /\ Len(<<x>>) = 1 /\ \A i \in 1 .. 1 : <<x>>[i] = x
    OBVIOUS
  <2>2. IsSeq(<<x>>)
    BY <2>1 DEF IsSeq
  <2> QED
    BY <1>1, <2>1, <2>2, QuietIs
<1>2. ASSUME NEW x, NEW y, QuietStep(x), QuietStep(y) PROVE Quiet(<<x, y>>)
  <2>1. <<x, y>> \in Seq({x, y}) /\ Len(<<x, y>>) = 2 /\ \A i \in 1 .. 2 : <<x, y>>[i] \in {x, y}
    OBVIOUS
  <2>2. IsSeq(<<x, y>>)
    BY <2>1 DEF IsSeq
  <2> QED
    BY <1>2, <2>1, <2>2, QuietIs
<1>3. ASSUME NEW x, NEW y, NEW z, QuietStep(x), QuietStep(y), QuietStep(z) PROVE Quiet(<<x, y, z>>)
  <2>1. <<x, y, z>> \in Seq({x, y, z}) /\ Len(<<x, y, z>>) = 3 /\ \A i \in 1 .. 3 : <<x, y, z>>[i] \in {x, y, z}
    OBVIOUS
  <2>2. IsSeq(<<x, y, z>>)
    BY <2>1 DEF IsSeq
  <2> QED
    BY <1>3, <2>1, <2>2, QuietIs
<1> QED
  BY <1>1, <1>2, <1>3

\* Steps that are no `if` and do not touch the file.
LEMMA PlainStep ==
  ASSUME NEW step, step.op \notin FileOps, step.op # "if"
  PROVE  QuietStep(step)
  BY DEF QuietStep

LEMMA PlainSteps ==
  /\ \A f, v : QuietStep(Set(f, v))
  /\ \A f, v, read : QuietStep(Put(f, v, read))
  /\ \A f, v : QuietStep(Access("go", f, v)) /\ QuietStep(Access("fetch", f, v))
  /\ QuietStep(Next_)
  /\ QuietStep(Step("reset"))
  /\ \A of, p, on : QuietStep(MarkLoop(of, p, on))
  BY DEF QuietStep, FileOps, Set, Access, Put, Next_, Step, MarkLoop

LEMMA QuietIf ==
  ASSUME NEW f, NEW v, NEW yes, NEW no, Quiet(yes), Quiet(no)
  PROVE  QuietStep(If(f, v, yes, no))
  BY DEF QuietStep, FileOps, If
-----------------------------------------------------------------------------
\* The functions of several fields.
LEMMA QuietSets ==
  /\ \A f, v : Quiet(<<Set(f, v)>>)
  /\ \A f, v, g, w : Quiet(<<Set(f, v), Set(g, w)>>)
  /\ \A f, v, g, w, h, x : Quiet(<<Set(f, v), Set(g, w), Set(h, x)>>)
  BY QuietSteps, PlainSteps

LEMMA QuietFunctions ==
  /\ \A p, v : Quiet(SetPortEnable(p, v)) /\ Quiet(SetPortSpeedConfig(p, v))
  /\ \A p, speed, duplex, able, v : Quiet(Forced(p, speed, duplex, able, v))
  /\ \A p, v : Quiet(SetPortAutoNegoEnable(p, v))
<1>1. ASSUME NEW p, NEW v PROVE Quiet(SetPortEnable(p, v)) /\ Quiet(SetPortSpeedConfig(p, v))
  BY QuietSets DEF SetPortEnable, SetPortSpeedConfig
<1>2. ASSUME NEW p, NEW speed, NEW duplex, NEW able, NEW v
      PROVE  Quiet(Forced(p, speed, duplex, able, v))
  <2> DEFINE list == <<Set(PhyAutoNegoEnable(p), 1), Set(PhyReAutoNego(p), 1), Set(PhyAutoNegoEnable(p), 0),
                       Set(PhySpeed(p), speed), Set(PhyDuplex(p), duplex), Set(able, 1)>>
             a == Set(PhyAutoNegoEnable(p), 1)
             b == Set(PhyReAutoNego(p), 1)
             c == Set(PhyAutoNegoEnable(p), 0)
             d == Set(PhySpeed(p), speed)
             e == Set(PhyDuplex(p), duplex)
             f == Set(able, 1)
  <2>1. QuietStep(a) /\ QuietStep(b) /\ QuietStep(c) /\ QuietStep(d) /\ QuietStep(e) /\ QuietStep(f)
    BY PlainSteps
  <2>2. Forced(p, speed, duplex, able, v) = <<a, b, c, d, e, f>> \o SetPortSpeedConfig(p, v)
    BY DEF Forced
  <2> HIDE DEF a, b, c, d, e, f
  <2>3. /\ <<a, b, c, d, e, f>> \in Seq({a, b, c, d, e, f}) /\ Len(<<a, b, c, d, e, f>>) = 6
        /\ \A i \in 1 .. 6 : <<a, b, c, d, e, f>>[i] \in {a, b, c, d, e, f}
    OBVIOUS
  <2>4. Quiet(<<a, b, c, d, e, f>>)
    BY <2>1, <2>3, QuietIs DEF IsSeq
  <2> QED
    BY <1>1, <2>2, <2>4, QuietConcat
<1>3. ASSUME NEW p, NEW v PROVE Quiet(SetPortAutoNegoEnable(p, v))
  <2> DEFINE a == Set(PhyAutoNegoEnable(p), 1)
             b == Set(PhyReAutoNego(p), 1)
             c == Set(PortAutoNegoEnable(p), v)
             d == Set(PortSpeedConfig(p), 15)
  <2>1. QuietStep(a) /\ QuietStep(b) /\ QuietStep(c) /\ QuietStep(d)
    BY PlainSteps
  <2>2. SetPortAutoNegoEnable(p, v) = <<a, b, c, d>>
    BY DEF SetPortAutoNegoEnable
  <2> HIDE DEF a, b, c, d
  <2>3. /\ <<a, b, c, d>> \in Seq({a, b, c, d}) /\ Len(<<a, b, c, d>>) = 4
        /\ \A i \in 1 .. 4 : <<a, b, c, d>>[i] \in {a, b, c, d}
    OBVIOUS
  <2> QED
    BY <2>1, <2>2, <2>3, QuietIs DEF IsSeq
<1> QED
  BY <1>1, <1>2, <1>3

LEMMA PortsCounted == NumPorts \in Nat
<1>1. NumPorts \in 1 .. 15
  BY SettingsAssumption
<1> QED
  BY <1>1

LEMMA AllPortsSeq == IsSeq(AllPorts)
<1>1. NumPorts \in Nat /\ AllPorts = [p \in 1 .. NumPorts |-> AllPorts[p]]
  BY PortsCounted DEF AllPorts, Ports
<1> QED
  BY <1>1, MakesSeq

\* A command that stops at the first failure, or one that goes on with the next port.
LEMMA QuietCounter ==
  ASSUME NEW f, NEW v
  PROVE  Quiet(<<Counter(f, v)>>)
<1>1. Quiet(<<If(f, v, <<>>, <<>>), Next_>>)
  BY QuietEmpty, QuietIf, PlainSteps, QuietSteps
<1>2. Quiet(<<Set(f, v), Next_>>)
  BY PlainSteps, QuietSteps
<1> QED
  BY <1>1, <1>2, QuietIf, QuietSteps DEF Counter

\* Asking one port after the other whether it receives copies.
Asking(set, n, g) ==
  g = [m \in 0 .. n |-> IF m = 0 THEN set
                        ELSE <<If(MirrorPort(NumPorts + 1 - m), 1, <<>>, g[m - 1])>>]

LEMMA AskingExists ==
  ASSUME NEW set, NEW n \in Nat
  PROVE  \E g : Asking(set, n, g)
<1> DEFINE bad == {m \in Nat : ~ \E g : Asking(set, m, g)}
<1>1. ASSUME bad # {} PROVE FALSE
  <2>1. PICK m \in bad : \A k \in bad : m =< k
    BY <1>1, LeastNatural
  <2>2. CASE m = 0
    <3> DEFINE g == [k \in 0 .. 0 |-> set]
    <3>1. Asking(set, 0, g)
      BY DEF Asking
    <3> QED
      BY <2>1, <2>2, <3>1
  <2>3. CASE m # 0
    <3>1. m - 1 \in Nat /\ m - 1 \notin bad
      BY <2>1, <2>3
    <3>2. PICK g : Asking(set, m - 1, g)
      BY <3>1
    <3> DEFINE Ask(k, rest) == <<If(MirrorPort(NumPorts + 1 - k), 1, <<>>, rest)>>
    <3>3. \A k \in 0 .. m - 1 : g[k] = IF k = 0 THEN set ELSE Ask(k, g[k - 1])
      BY <3>1, <3>2 DEF Asking
    <3> DEFINE h == [k \in 0 .. m |-> IF k < m THEN g[k] ELSE Ask(k, g[k - 1])]
    <3>4. Asking(set, m, h) <=> h = [k \in 0 .. m |-> IF k = 0 THEN set ELSE Ask(k, h[k - 1])]
      BY DEF Asking
    <3> HIDE DEF Ask
    <3>5. \A k \in 0 .. m : h[k] = IF k = 0 THEN set ELSE Ask(k, h[k - 1])
      <4> TAKE k \in 0 .. m
      <4>1. CASE k = 0
        BY <2>1, <2>3, <3>1, <3>3, <4>1
      <4>2. CASE k # 0
        <5>1. k - 1 \in 0 .. m /\ k - 1 < m /\ h[k - 1] = g[k - 1]
          BY <2>1, <4>2
        <5>2. CASE k < m
          <6>1. k \in 0 .. m - 1 /\ h[k] = g[k]
            BY <2>1, <5>2
          <6> QED
            BY <3>3, <4>2, <5>1, <6>1
        <5>3. CASE k = m
          <6>1. h[k] = Ask(k, g[k - 1])
            BY <2>1, <5>3
          <6> QED
            BY <4>2, <5>1, <6>1
        <5> QED
          BY <2>1, <5>2, <5>3
      <4> QED
        BY <4>1, <4>2
    <3>6. h = [k \in 0 .. m |-> h[k]]
      OBVIOUS
    <3> HIDE DEF h
    <3>7. h = [k \in 0 .. m |-> IF k = 0 THEN set ELSE Ask(k, h[k - 1])]
      BY <3>5, <3>6
    <3> QED
      BY <2>1, <3>4, <3>7
  <2> QED
    BY <2>2, <2>3
<1> QED
  BY <1>1

LEMMA QuietMirrorTo ==
  ASSUME NEW c
  PROVE  Quiet(port_mirror_to(c))
<1> DEFINE set == <<Set(MirrorPort(Head(c.ports)), c.value)>>
           IfNone == CHOOSE g : Asking(set, NumPorts, g)
<1>1. NumPorts \in Nat
  BY PortsCounted
<1>2. Asking(set, NumPorts, IfNone)
  BY <1>1, AskingExists
<1>3. port_mirror_to(c) = <<>> \/ port_mirror_to(c) = set \/ port_mirror_to(c) = IfNone[NumPorts]
  BY DEF port_mirror_to, Asking
<1>4. Quiet(set)
  BY QuietSets
<1> HIDE DEF set, IfNone
<1> DEFINE Ask(m, rest) == <<If(MirrorPort(NumPorts + 1 - m), 1, <<>>, rest)>>
<1>5. IfNone = [m \in 0 .. NumPorts |-> IF m = 0 THEN set ELSE Ask(m, IfNone[m - 1])]
  BY <1>2 DEF Asking
<1> HIDE DEF Ask
<1>6. IfNone[0] = set /\ \A m \in 1 .. NumPorts : IfNone[m] = Ask(m, IfNone[m - 1])
  <2>1. \A m \in 0 .. NumPorts : IfNone[m] = IF m = 0 THEN set ELSE Ask(m, IfNone[m - 1])
    BY <1>5
  <2> QED
    BY <1>1, <2>1
<1> DEFINE bad == {m \in 0 .. NumPorts : ~Quiet(IfNone[m])}
<1>7. ASSUME bad # {} PROVE FALSE
  <2>1. PICK m \in bad : \A k \in bad : m =< k
    <3>1. bad \subseteq Nat
      BY <1>1
    <3> QED
      BY <1>7, <3>1, LeastNatural
  <2>2. m # 0
    BY <1>4, <1>6, <2>1
  <2>3. m - 1 \in 0 .. NumPorts /\ m - 1 \notin bad /\ m \in 1 .. NumPorts
    BY <1>1, <2>1, <2>2
  <2>4. Quiet(IfNone[m - 1])
    BY <2>3
  <2>5. Quiet(Ask(m, IfNone[m - 1]))
    BY <2>4, QuietEmpty, QuietIf, QuietSteps DEF Ask
  <2> QED
    BY <1>6, <2>1, <2>3, <2>5
<1>8. Quiet(IfNone[NumPorts])
  BY <1>1, <1>7
<1> QED
  BY <1>3, <1>4, <1>8, QuietEmpty
-----------------------------------------------------------------------------
(* The commands. *)

LEMMA QuietUserPorts ==
  ASSUME NEW list, IsSeq(list), NEW ls, ls = [i \in DOMAIN list |-> ls[i]],
         \A i \in DOMAIN list : Quiet(ls[i])
  PROVE  Quiet(IF upLinkPort \in Range(list) THEN <<>> ELSE FlattenSeq(ls))
  BY QuietPorts, QuietEmpty

\* Commands on a list of ports without the one towards the ONU, and on any list.
LEMMA QuietPortCommands ==
  ASSUME NEW c, IsSeq(c.ports)
  PROVE  /\ Quiet(port_en(c)) /\ Quiet(port_fc(c)) /\ Quiet(qos_port_priority(c))
         /\ Quiet(port_mirror_from(c))
         /\ Quiet(ingress_rate(c)) /\ Quiet(egress_rate(c))
         /\ Quiet(stat_rx(c)) /\ Quiet(stat_tx(c)) /\ Quiet(stat_diag(c))

<1>1. Quiet(port_en(c))
  <2> DEFINE ls == [i \in DOMAIN c.ports |-> SetPortEnable(c.ports[i], 1 - c.value)]
  <2>1. port_en(c) = IF upLinkPort \in Range(c.ports) THEN <<>> ELSE FlattenSeq(ls)
    BY DEF port_en, UserPorts, ForPorts
  <2>2. \A i \in DOMAIN c.ports : Quiet(ls[i])
    BY QuietFunctions
  <2>3. ls = [i \in DOMAIN c.ports |-> ls[i]]
    OBVIOUS
  <2> HIDE DEF ls
  <2> QED
    BY <2>1, <2>2, <2>3, QuietUserPorts
<1>2. Quiet(port_fc(c))
  <2> DEFINE ls == [i \in DOMAIN c.ports |-> <<Set(PortPauseFC(c.ports[i]), c.value)>>]
  <2>1. port_fc(c) = IF upLinkPort \in Range(c.ports) THEN <<>> ELSE FlattenSeq(ls)
    BY DEF port_fc, UserPorts, ForPorts
  <2>2. \A i \in DOMAIN c.ports : Quiet(ls[i])
    BY QuietSets
  <2>3. ls = [i \in DOMAIN c.ports |-> ls[i]]
    OBVIOUS
  <2> HIDE DEF ls
  <2> QED
    BY <2>1, <2>2, <2>3, QuietUserPorts
<1>3. Quiet(qos_port_priority(c))
  <2> DEFINE ls == [i \in DOMAIN c.ports |-> <<Set(QosPortPriority(c.ports[i]), c.value)>>]
  <2>1. qos_port_priority(c) = IF upLinkPort \in Range(c.ports) THEN <<>> ELSE FlattenSeq(ls)
    BY DEF qos_port_priority, UserPorts, ForPorts
  <2>2. \A i \in DOMAIN c.ports : Quiet(ls[i])
    BY QuietSets
  <2>3. ls = [i \in DOMAIN c.ports |-> ls[i]]
    OBVIOUS
  <2> HIDE DEF ls
  <2> QED
    BY <2>1, <2>2, <2>3, QuietUserPorts
<1>4. Quiet(ingress_rate(c))
  <2> DEFINE ls == [i \in DOMAIN c.ports |-> <<Set(PortRxBandwidth(c.ports[i]), c.value)>> \o <<Next_>>]
  <2>1. ingress_rate(c) = FlattenSeq(ls)
    BY DEF ingress_rate, EachPort, ForPorts
  <2>2. \A i \in DOMAIN c.ports : Quiet(ls[i])
    BY QuietSets, QuietSteps, PlainSteps, QuietConcat
  <2>3. ls = [i \in DOMAIN c.ports |-> ls[i]]
    OBVIOUS
  <2> HIDE DEF ls
  <2> QED
    BY <2>1, <2>2, <2>3, QuietPorts
<1>5. Quiet(egress_rate(c))
  <2> DEFINE ls == [i \in DOMAIN c.ports |-> <<Set(PortTxBandwidth(c.ports[i]), c.value)>> \o <<Next_>>]
  <2>1. egress_rate(c) = FlattenSeq(ls)
    BY DEF egress_rate, EachPort, ForPorts
  <2>2. \A i \in DOMAIN c.ports : Quiet(ls[i])
    BY QuietSets, QuietSteps, PlainSteps, QuietConcat
  <2>3. ls = [i \in DOMAIN c.ports |-> ls[i]]
    OBVIOUS
  <2> HIDE DEF ls
  <2> QED
    BY <2>1, <2>2, <2>3, QuietPorts
<1>6. Quiet(stat_rx(c))
  <2> DEFINE ls == [i \in DOMAIN c.ports |-> <<Counter(MIBRxObject(c.ports[i]), c.value)>>]
  <2>1. stat_rx(c) = FlattenSeq(ls)
    BY DEF stat_rx, ForPorts
  <2>2. \A i \in DOMAIN c.ports : Quiet(ls[i])
    BY QuietCounter
  <2>3. ls = [i \in DOMAIN c.ports |-> ls[i]]
    OBVIOUS
  <2> HIDE DEF ls
  <2> QED
    BY <2>1, <2>2, <2>3, QuietPorts
<1>7. Quiet(stat_tx(c))
  <2> DEFINE ls == [i \in DOMAIN c.ports |-> <<Counter(MIBTxObject(c.ports[i]), c.value)>>]
  <2>1. stat_tx(c) = FlattenSeq(ls)
    BY DEF stat_tx, ForPorts
  <2>2. \A i \in DOMAIN c.ports : Quiet(ls[i])
    BY QuietCounter
  <2>3. ls = [i \in DOMAIN c.ports |-> ls[i]]
    OBVIOUS
  <2> HIDE DEF ls
  <2> QED
    BY <2>1, <2>2, <2>3, QuietPorts
<1>8. Quiet(stat_diag(c))
  <2> DEFINE ls == [i \in DOMAIN c.ports |-> <<Counter(MIBDnObject(c.ports[i]), c.value)>>]
  <2>1. stat_diag(c) = FlattenSeq(ls)
    BY DEF stat_diag, ForPorts
  <2>2. \A i \in DOMAIN c.ports : Quiet(ls[i])
    BY QuietCounter
  <2>3. ls = [i \in DOMAIN c.ports |-> ls[i]]
    OBVIOUS
  <2> HIDE DEF ls
  <2> QED
    BY <2>1, <2>2, <2>3, QuietPorts
<1>9. Quiet(port_mirror_from(c))
  <2> DEFINE ls == [i \in DOMAIN c.ports |-> (IF c.value[1] \in {"i", "a"}
                                       THEN <<Set(MirrorRxPort(c.ports[i]), c.value[2])>> ELSE <<>>)
                                      \o (IF c.value[1] \in {"e", "a"}
                                         THEN <<Set(MirrorTxPort(c.ports[i]), c.value[2])>> ELSE <<>>)]
  <2>1. port_mirror_from(c) = IF upLinkPort \in Range(c.ports) THEN <<>> ELSE FlattenSeq(ls)
    BY DEF port_mirror_from, UserPorts, ForPorts
  <2>2. \A i \in DOMAIN c.ports : Quiet(ls[i])
    BY QuietSets, QuietEmpty, QuietConcat
  <2>3. ls = [i \in DOMAIN c.ports |-> ls[i]]
    OBVIOUS
  <2> HIDE DEF ls
  <2> QED
    BY <2>1, <2>2, <2>3, QuietUserPorts
<1> QED
  BY <1>1, <1>2, <1>3, <1>4, <1>5, <1>6, <1>7, <1>8, <1>9

LEMMA QuietPortMode ==
  ASSUME NEW c, IsSeq(c.ports), c.value \in {0, 8, 9, 10, 11}
  PROVE  Quiet(port_mode(c))
<1> DEFINE Mode(p) == CASE c.value = 0 -> SetPortAutoNegoEnable(p, 1)
                        [] c.value = 8 -> SetPortMode100F(p)
                        [] c.value = 9 -> SetPortMode100H(p)
                        [] c.value = 10 -> SetPortMode10F(p)
                        [] c.value = 11 -> SetPortMode10H(p)
           ls == [i \in DOMAIN c.ports |-> Mode(c.ports[i])]
<1>1. port_mode(c) = IF upLinkPort \in Range(c.ports) THEN <<>> ELSE FlattenSeq(ls)
  BY DEF port_mode, UserPorts, ForPorts
<1>2. ASSUME NEW p PROVE Quiet(Mode(p))
  <2>1. /\ Quiet(SetPortAutoNegoEnable(p, 1)) /\ Quiet(SetPortMode100F(p)) /\ Quiet(SetPortMode100H(p))
        /\ Quiet(SetPortMode10F(p)) /\ Quiet(SetPortMode10H(p))
    BY QuietFunctions DEF SetPortMode100F, SetPortMode100H, SetPortMode10F, SetPortMode10H
  <2> QED
    BY <2>1
<1> HIDE DEF Mode
<1>3. (\A i \in DOMAIN c.ports : Quiet(ls[i])) /\ ls = [i \in DOMAIN c.ports |-> ls[i]]
  BY <1>2
<1> HIDE DEF ls
<1> QED
  BY <1>1, <1>3, QuietUserPorts

LEMMA QuietLearning ==
  ASSUME NEW c, IsSeq(c.ports)
  PROVE  Quiet(atu_learning(c))
<1> DEFINE list == IF c.ports = <<>> THEN AllPorts ELSE c.ports
           ls == [i \in DOMAIN list |-> <<Set(AtuLearning(list[i]), 1 - c.value)>>]
<1>1. atu_learning(c) = FlattenSeq(ls)
  BY DEF atu_learning, ForPorts
<1>2. IsSeq(list)
  BY AllPortsSeq
<1> HIDE DEF list
<1>3. (\A i \in DOMAIN list : Quiet(ls[i])) /\ ls = [i \in DOMAIN list |-> ls[i]]
  BY QuietSets
<1> HIDE DEF ls
<1> QED
  BY <1>1, <1>2, <1>3, QuietPorts

\* Commands on the switch as a whole, and on words of registers.
LEMMA QuietSwitchCommands ==
  ASSUME NEW c
  PROVE  /\ Quiet(vlan_ingress_filtering(c)) /\ Quiet(vlan_acceptable_frame_types(c))
         /\ Quiet(broadcast_storm_filter(c)) /\ Quiet(broadcast_fc(c)) /\ Quiet(multicast_fc(c))
         /\ Quiet(igmp_snooping(c)) /\ Quiet(loopback_auto_detect(c))
         /\ Quiet(qos_dscp(c)) /\ Quiet(qos_user_priority(c)) /\ Quiet(qos_adapted_fc(c))
         /\ Quiet(qos_priority_ratio(c)) /\ Quiet(atu_filter(c))
         /\ Quiet(mgt_reset(c)) /\ Quiet(set_rcpphy(c)) /\ Quiet(get_rcpphy(c))
         /\ Quiet(set_rcpeeprom(c)) /\ Quiet(set_rcpreg(c))
         /\ c.value[1] \in {"unicast", "multicast", "arp"} => Quiet(vlan_leaky(c))
         /\ c.value \in {"disable", "default", "fastaging"} => Quiet(atu_aging(c))
<1>1. /\ Quiet(vlan_ingress_filtering(c)) /\ Quiet(vlan_acceptable_frame_types(c))
      /\ Quiet(broadcast_storm_filter(c)) /\ Quiet(broadcast_fc(c)) /\ Quiet(multicast_fc(c))
      /\ Quiet(igmp_snooping(c)) /\ Quiet(loopback_auto_detect(c)) /\ Quiet(qos_adapted_fc(c))
      /\ Quiet(qos_priority_ratio(c)) /\ Quiet(atu_filter(c))
  BY QuietSets DEF vlan_ingress_filtering, vlan_acceptable_frame_types, broadcast_storm_filter,
    broadcast_fc, multicast_fc, igmp_snooping, loopback_auto_detect, qos_adapted_fc,
    qos_priority_ratio, atu_filter
<1>2. Quiet(qos_dscp(c)) /\ Quiet(qos_user_priority(c))
  BY QuietSets, QuietEmpty, QuietConcat DEF qos_dscp, qos_user_priority
<1>3. Quiet(mgt_reset(c)) /\ Quiet(set_rcpphy(c)) /\ Quiet(set_rcpeeprom(c))
  BY QuietSteps, PlainSteps DEF mgt_reset, set_rcpphy, SetPhyWord, set_rcpeeprom, SetEeprom
<1>4. Quiet(get_rcpphy(c)) /\ Quiet(set_rcpreg(c))
  <2>1. \A f : QuietStep([op |-> "get", field |-> f])
    BY DEF QuietStep, FileOps
  <2>2. \A a, x : QuietStep([op |-> "word", addr |-> a, word |-> x])
    BY DEF QuietStep, FileOps
  <2> QED
    BY <2>1, <2>2, QuietSteps DEF get_rcpphy, set_rcpreg
<1>5. ASSUME c.value[1] \in {"unicast", "multicast", "arp"} PROVE Quiet(vlan_leaky(c))
  BY <1>5, QuietSets DEF vlan_leaky
<1>6. ASSUME c.value \in {"disable", "default", "fastaging"} PROVE Quiet(atu_aging(c))
  BY <1>6, QuietSets DEF atu_aging
<1> QED
  BY <1>1, <1>2, <1>3, <1>4, <1>5, <1>6

\* What a save or an erasure starts with.
Pending(l) == l = <<Step("save")>> \/ l = <<Step("clear file")>>

\* What a command does, is quiet or a save or an erasure.
LEMMA CommandDoes ==
  ASSUME NEW s \in Sessions, NEW c \in Commands[s]
  PROVE  Quiet(Does(c)) \/ Pending(Does(c))
<1>1. /\ c.cmd \in Cmds
      /\ c.ports \in Seq(Ports)
      /\ c.cmd = "port mode" => c.value \in {0, 8, 9, 10, 11}
      /\ c.cmd = "vlan leaky" => c.value[1] \in {"unicast", "multicast", "arp"}
      /\ c.cmd = "atu aging" => c.value \in {"disable", "default", "fastaging"}
  BY CommandsAssumption
<1>2. IsSeq(c.ports)
  BY <1>1 DEF IsSeq
<1>3. Pending(config_file(c))
  BY DEF Pending, config_file
<1>4. c.cmd = "port mode" => Quiet(port_mode(c))
  BY <1>1, <1>2, QuietPortMode
<1>5. /\ c.cmd = "vlan leaky" => Quiet(vlan_leaky(c))
      /\ c.cmd = "atu aging" => Quiet(atu_aging(c))
  BY <1>1, QuietSwitchCommands
<1>6. c.cmd \in Cmds \ {"config-file"} => Quiet(Does(c))
  BY <1>2, <1>4, <1>5, QuietPortCommands, QuietMirrorTo, QuietLearning, QuietSwitchCommands DEF Cmds, Does
<1>7. c.cmd = "config-file" => Does(c) = config_file(c)
  BY DEF Does
<1> QED
  BY <1>1, <1>3, <1>6, <1>7
-----------------------------------------------------------------------------
(* What the monitors do. *)

LEMMA QuietShut ==
  ASSUME NEW p
  PROVE  Quiet(Shut(p))
<1>1. Quiet(<<MarkLoop("status", p, TRUE)>>) /\ Quiet(<<MarkLoop("down", p, TRUE), Next_>>)
  BY QuietSteps, PlainSteps
<1> QED
  BY <1>1, QuietFunctions, QuietConcat DEF Shut

LEMMA QuietLookAgain ==
  ASSUME NEW p
  PROVE  Quiet(LookAgain(p))
<1>1. Quiet(<<MarkLoop("down", p, FALSE)>>) /\ Quiet(<<MarkLoop("status", p, FALSE)>>)
  BY QuietSteps, PlainSteps
<1>2. Quiet(<<If(PortDisable(p), 0, <<MarkLoop("down", p, FALSE)>>, <<MarkLoop("status", p, FALSE)>>), Next_>>)
  BY <1>1, QuietIf, QuietSteps, PlainSteps
<1> QED
  BY <1>2, QuietEmpty DEF LookAgain

\* The round of the loop monitor over the ports.
Round(mgtPort) ==
  ForPorts(AllPorts,
           LAMBDA p : LookAgain(p) \o (IF p \in Reported \ {mgtPort} THEN Shut(p) ELSE <<>>))

LEMMA QuietRound ==
  ASSUME NEW mgtPort
  PROVE  Quiet(Round(mgtPort))
<1> DEFINE ls == [i \in DOMAIN AllPorts |->
                    LookAgain(AllPorts[i])
                      \o (IF AllPorts[i] \in Reported \ {mgtPort} THEN Shut(AllPorts[i]) ELSE <<>>)]
<1>1. Round(mgtPort) = FlattenSeq(ls)
  BY DEF Round, ForPorts
<1>2. (\A i \in DOMAIN AllPorts : Quiet(ls[i])) /\ ls = [i \in DOMAIN AllPorts |-> ls[i]]
  BY QuietLookAgain, QuietShut, QuietEmpty, QuietConcat
<1> HIDE DEF ls
<1> QED
  BY <1>1, <1>2, AllPortsSeq, QuietPorts

\* The registers that are saved.
LEMMA KeptSeq ==
  /\ IsSeq(gusSwitchCfgRegAddrArray) /\ Len(gusSwitchCfgRegAddrArray) \in Nat
  /\ DOMAIN gusSwitchCfgRegAddrArray = 1 .. Len(gusSwitchCfgRegAddrArray)
  /\ Kept = {gusSwitchCfgRegAddrArray[i] : i \in 1 .. Len(gusSwitchCfgRegAddrArray)}
<1>1. gusSwitchCfgRegAddrArray \in Seq({a \in Addrs : a < \h0700 /\ a # EepromWrite.addr})
  BY SettingsAssumption, Zenon
<1>2. IsSeq(gusSwitchCfgRegAddrArray)
  BY <1>1 DEF IsSeq
<1>3. /\ Len(gusSwitchCfgRegAddrArray) \in Nat
      /\ DOMAIN gusSwitchCfgRegAddrArray = 1 .. Len(gusSwitchCfgRegAddrArray)
  BY <1>2, SeqIsFunction
<1> QED
  BY <1>2, <1>3 DEF Kept, Range

LEMMA QuietRestore == Quiet(Restore)
<1> DEFINE step(i) == [op |-> "restore", addr |-> gusSwitchCfgRegAddrArray[i]]
           ls == [i \in DOMAIN gusSwitchCfgRegAddrArray |-> step(i)]
<1>1. Restore = IF buf.valid THEN ls \o <<Next_>> ELSE <<>>
  BY DEF Restore
<1>2. \A i : QuietStep(step(i))
  BY DEF QuietStep, FileOps
<1> HIDE DEF step
<1>3. /\ ls = [i \in 1 .. Len(gusSwitchCfgRegAddrArray) |-> ls[i]]
      /\ Len(gusSwitchCfgRegAddrArray) \in Nat
      /\ \A i \in 1 .. Len(gusSwitchCfgRegAddrArray) : QuietStep(ls[i])
  BY <1>2, KeptSeq
<1> HIDE DEF ls
<1>4. IsSeq(ls) /\ Len(ls) = Len(gusSwitchCfgRegAddrArray)
  BY <1>3, MakesSeq
<1>5. Quiet(ls)
  BY <1>3, <1>4, QuietIs
<1>6. Quiet(ls \o <<Next_>>)
  BY <1>5, QuietSteps, PlainSteps, QuietConcat
<1> QED
  BY <1>1, <1>6, QuietEmpty

LEMMA QuietUplinkMoved ==
  ASSUME NEW current, NEW previous
  PROVE  Quiet(UplinkMoved(current, previous))
<1> DEFINE a == Set(MirrorRxPort(current), 0)
           b == Set(MirrorTxPort(current), 0)
           c == Set(QosPortPriority(current), 1)
           d == Set(QosPortPriority(previous), 0)
           e == [op |-> "uplink", port |-> current]
<1>1. QuietStep(a) /\ QuietStep(b) /\ QuietStep(c) /\ QuietStep(d) /\ QuietStep(e) /\ QuietStep(Next_)
  <2>1. QuietStep(e)
    BY DEF QuietStep, FileOps
  <2> QED
    BY <2>1, PlainSteps
<1>2. UplinkMoved(current, previous) = <<a, Next_, b, Next_, c, Next_, d, Next_, e>>
  BY DEF UplinkMoved
<1> HIDE DEF a, b, c, d, e
<1> DEFINE list == <<a, Next_, b, Next_, c, Next_, d, Next_, e>>
<1>3. /\ list \in Seq({a, b, c, d, e, Next_}) /\ Len(list) = 9
      /\ \A i \in 1 .. 9 : list[i] \in {a, b, c, d, e, Next_}
  OBVIOUS
<1> HIDE DEF list
<1>4. Quiet(list)
  BY <1>1, <1>3, QuietIs DEF IsSeq
<1> QED
  BY <1>2, <1>4 DEF list
-----------------------------------------------------------------------------
(* The lists of a save that has begun, by the register that is next. *)

KeptLen == Len(gusSwitchCfgRegAddrArray)
SaveStep(i) ==
  IF i = KeptLen + 1 THEN Step("file") ELSE [op |-> "save word", addr |-> gusSwitchCfgRegAddrArray[i]]
Words(k) == [i \in 1 .. KeptLen + 2 - k |-> SaveStep(k + i - 1)]

LEMMA WordsSeq ==
  ASSUME NEW k \in 1 .. KeptLen + 1
  PROVE  /\ IsSeq(Words(k)) /\ Len(Words(k)) = KeptLen + 2 - k /\ Words(k) # <<>>
         /\ \A i \in 1 .. KeptLen + 2 - k : Words(k)[i] = SaveStep(k + i - 1)
         /\ Head(Words(k)) = SaveStep(k) /\ KeptLen \in Nat
<1> DEFINE list == Words(k)
<1>1. KeptLen \in Nat
  BY KeptSeq DEF KeptLen
<1>2. list = [i \in 1 .. KeptLen + 2 - k |-> list[i]] /\ \A i \in 1 .. KeptLen + 2 - k : list[i] = SaveStep(k + i - 1)
  BY DEF Words
<1> HIDE DEF list
<1>3. KeptLen + 2 - k \in Nat \ {0}
  BY <1>1
<1>4. IsSeq(list) /\ Len(list) = KeptLen + 2 - k
  BY <1>2, <1>3, MakesSeq
<1>5. list # <<>>
  BY <1>3, <1>4, EmptyIsSeq
<1>6. Head(list) = list[1]
  BY <1>4, <1>5, TailSeq
<1>7. list[1] = SaveStep(k)
  <2>1. 1 \in 1 .. KeptLen + 2 - k /\ k + 1 - 1 = k
    BY <1>3
  <2> QED
    BY <1>2, <2>1
<1> QED
  BY <1>1, <1>2, <1>4, <1>5, <1>6, <1>7 DEF list

\* The next register leaves the list of the register after it, the file nothing.
LEMMA WordsTail ==
  ASSUME NEW k \in 1 .. KeptLen + 1
  PROVE  /\ k # KeptLen + 1 => k + 1 \in 1 .. KeptLen + 1 /\ Tail(Words(k)) = Words(k + 1)
         /\ k = KeptLen + 1 => Tail(Words(k)) = <<>>
<1>1. KeptLen \in Nat /\ IsSeq(Words(k)) /\ Len(Words(k)) = KeptLen + 2 - k /\ Words(k) # <<>>
  BY WordsSeq
<1>2. /\ IsSeq(Tail(Words(k))) /\ Len(Tail(Words(k))) = KeptLen + 1 - k
      /\ \A i \in 1 .. KeptLen + 1 - k : Tail(Words(k))[i] = Words(k)[i + 1]
  BY <1>1, TailSeq
<1>3. ASSUME k # KeptLen + 1
      PROVE  k + 1 \in 1 .. KeptLen + 1 /\ Tail(Words(k)) = Words(k + 1)
  <2>1. k + 1 \in 1 .. KeptLen + 1
    BY <1>1, <1>3
  <2>2. /\ IsSeq(Words(k + 1)) /\ Len(Words(k + 1)) = KeptLen + 2 - (k + 1)
        /\ \A i \in 1 .. KeptLen + 2 - (k + 1) : Words(k + 1)[i] = SaveStep((k + 1) + i - 1)
    BY <2>1, WordsSeq
  <2>3. KeptLen + 2 - (k + 1) = KeptLen + 1 - k
    BY <1>1
  <2>4. ASSUME NEW i \in 1 .. KeptLen + 1 - k PROVE Tail(Words(k))[i] = Words(k + 1)[i]
    <3>1. i + 1 \in 1 .. KeptLen + 2 - k /\ k + (i + 1) - 1 = (k + 1) + i - 1
      BY <1>1
    <3>2. Words(k)[i + 1] = SaveStep(k + (i + 1) - 1)
      BY <3>1, WordsSeq
    <3> QED
      BY <1>2, <2>2, <2>3, <3>1, <3>2
  <2>5. Tail(Words(k)) = Words(k + 1)
    BY <1>2, <2>2, <2>3, <2>4, SameSeq
  <2> QED
    BY <2>1, <2>5
<1>4. ASSUME k = KeptLen + 1 PROVE Tail(Words(k)) = <<>>
  <2>1. Len(Tail(Words(k))) = 0
    BY <1>1, <1>2, <1>4
  <2> QED
    BY <1>2, <2>1, EmptyIsSeq, SameSeq
<1> QED
  BY <1>3, <1>4

\* A save of the registers, and a save of what the buffer holds.
LEMMA WordsStart ==
  /\ 1 \in 1 .. KeptLen + 1 /\ KeptLen + 1 \in 1 .. KeptLen + 1
  /\ [i \in DOMAIN gusSwitchCfgRegAddrArray |->
       [op |-> "save word", addr |-> gusSwitchCfgRegAddrArray[i]]] \o <<Step("file")>> = Words(1)
  /\ <<Step("file")>> = Words(KeptLen + 1)
<1>1. /\ KeptLen \in Nat /\ 1 \in 1 .. KeptLen + 1 /\ KeptLen + 1 \in 1 .. KeptLen + 1
      /\ DOMAIN gusSwitchCfgRegAddrArray = 1 .. KeptLen
  BY KeptSeq DEF KeptLen
<1> DEFINE file == Step("file")
           word(i) == [op |-> "save word", addr |-> gusSwitchCfgRegAddrArray[i]]
           ls == [i \in 1 .. KeptLen |-> word(i)]
<1>2. /\ IsSeq(<<file>>) /\ Len(<<file>>) = 1 /\ <<file>>[1] = file
  <2>1. <<file>> \in Seq({file})
    OBVIOUS
  <2> QED
    BY <2>1 DEF IsSeq
<1>3. \A i : SaveStep(i) = IF i = KeptLen + 1 THEN file ELSE word(i)
  BY DEF SaveStep
<1>4. \A i \in 1 .. KeptLen + 1 : IsSeq(Words(i)) /\ Len(Words(i)) = KeptLen + 2 - i
  BY WordsSeq
<1>5. ls \o <<file>> = Words(1)
  <2> HIDE DEF file, word
  <2>1. ls = [i \in 1 .. KeptLen |-> ls[i]] /\ \A i \in 1 .. KeptLen : ls[i] = word(i)
    OBVIOUS
  <2> HIDE DEF ls
  <2>2. IsSeq(ls) /\ Len(ls) = KeptLen
    BY <1>1, <2>1, MakesSeq
  <2>3. /\ IsSeq(ls \o <<file>>) /\ Len(ls \o <<file>>) = KeptLen + 1
        /\ \A i \in 1 .. KeptLen + 1 :
             (ls \o <<file>>)[i] = IF i <= KeptLen THEN ls[i] ELSE <<file>>[i - KeptLen]
    BY <1>2, <2>2, ConcatSeq
  <2>4. ASSUME NEW i \in 1 .. KeptLen + 1 PROVE (ls \o <<file>>)[i] = Words(1)[i]
    <3>1. Words(1)[i] = SaveStep(i)
      <4>1. KeptLen + 2 - 1 = KeptLen + 1 /\ 1 + i - 1 = i
        BY <1>1
      <4> QED
        BY <1>1, <4>1, WordsSeq
    <3>2. CASE i = KeptLen + 1
      <4>1. (ls \o <<file>>)[i] = <<file>>[i - KeptLen] /\ i - KeptLen = 1
        BY <1>1, <2>3, <3>2
      <4> QED
        BY <1>2, <1>3, <3>1, <3>2, <4>1
    <3>3. CASE i # KeptLen + 1
      <4>1. i <= KeptLen /\ i \in 1 .. KeptLen
        BY <1>1, <3>3
      <4> QED
        BY <1>3, <2>1, <2>3, <3>1, <3>3, <4>1
    <3> QED
      BY <3>2, <3>3
  <2>5. Len(Words(1)) = KeptLen + 1
    BY <1>1, <1>4
  <2> QED
    BY <1>1, <1>4, <2>3, <2>4, <2>5, SameSeq
<1>6. <<file>> = Words(KeptLen + 1)
  <2>1. Len(Words(KeptLen + 1)) = 1 /\ Words(KeptLen + 1)[1] = SaveStep(KeptLen + 1)
    <3>1. KeptLen + 2 - (KeptLen + 1) = 1 /\ 1 \in 1 .. 1 /\ (KeptLen + 1) + 1 - 1 = KeptLen + 1
      BY <1>1
    <3> QED
      BY <1>1, <3>1, WordsSeq
  <2> HIDE DEF file, word
  <2> QED
    BY <1>1, <1>2, <1>3, <1>4, <2>1, SameSeq
<1> QED
  BY <1>1, <1>5, <1>6

\* A list other than that of a save that has begun.
Rest(l) == Quiet(l) \/ Pending(l)

LEMMA RestHead ==
  ASSUME NEW l, Rest(l), l # <<>>
  PROVE  /\ Head(l).op \notin {"save word", "file"}
         /\ Head(l).op \notin FileOps => Quiet(l) /\ Quiet(Tail(l))
         /\ Head(l).op \in {"save", "clear file"} => Tail(l) = <<>>
<1>1. CASE Quiet(l)
  <2>1. Head(l).op \notin FileOps /\ Quiet(Tail(l))
    BY <1>1, QuietTail DEF QuietStep
  <2> QED
    BY <1>1, <2>1 DEF FileOps
<1>2. CASE Pending(l)
  <2>1. \A x : Head(<<x>>) = x /\ Tail(<<x>>) = <<>>
    OBVIOUS
  <2>2. Step("save").op = "save" /\ Step("clear file").op = "clear file"
    BY DEF Step
  <2>3. Head(l).op \in {"save", "clear file"} /\ Tail(l) = <<>>
    BY <1>2, <2>1, <2>2 DEF Pending
  <2> QED
    BY <2>3 DEF FileOps
<1> QED
  BY <1>1, <1>2 DEF Rest

LEMMA EmptyRests == Rest(<<>>)
  BY QuietEmpty DEF Rest

\* The list of a save that has begun starts with the register that is next, or with the file.
LEMMA WordsHead ==
  ASSUME NEW k \in 1 .. KeptLen + 1
  PROVE  /\ Words(k) # <<>>
         /\ k = KeptLen + 1 => Head(Words(k)).op = "file"
         /\ k # KeptLen + 1 => /\ Head(Words(k)).op = "save word"
                               /\ Head(Words(k)).addr = gusSwitchCfgRegAddrArray[k]
         /\ ~Rest(Words(k))
<1>1. Words(k) # <<>> /\ Head(Words(k)) = SaveStep(k)
  BY WordsSeq
<1>2. /\ k = KeptLen + 1 => SaveStep(k).op = "file"
      /\ k # KeptLen + 1 => SaveStep(k).op = "save word" /\ SaveStep(k).addr = gusSwitchCfgRegAddrArray[k]
  BY DEF SaveStep, Step
<1>3. ~Rest(Words(k))
  BY <1>1, <1>2, RestHead
<1> QED
  BY <1>1, <1>2, <1>3

\* The lists are told apart by their lengths.
LEMMA WordsDiffer ==
  ASSUME NEW j \in 1 .. KeptLen + 1, NEW k \in 1 .. KeptLen + 1, Words(j) = Words(k)
  PROVE  j = k
<1>1. Len(Words(j)) = KeptLen + 2 - j /\ Len(Words(k)) = KeptLen + 2 - k /\ KeptLen \in Nat
  BY WordsSeq
<1> QED
  BY <1>1

\* Nothing of such a list is passed over.
LEMMA WordsGoOn ==
  /\ \A k \in 1 .. KeptLen + 1 : PastMarks(Words(k)) = Words(k)
  /\ PastMarks(<<>>) = <<>>
<1>1. ASSUME NEW k \in 1 .. KeptLen + 1 PROVE PastMarks(Words(k)) = Words(k)
  <2>1. IsSeq(Words(k)) /\ Words(k) # <<>>
    BY WordsSeq
  <2>2. Head(Words(k)).op # "next"
    BY WordsHead
  <2>3. Head(Words(k)) = Words(k)[1]
    BY <2>1, TailSeq
  <2> QED
    BY <2>1, <2>2, <2>3, PastMarksIs
<1>2. PastMarks(<<>>) = <<>>
  BY EmptyIsSeq, PastMarksIs
<1> QED
  BY <1>1, <1>2

\* Nothing before a list and nothing after it.
LEMMA ConcatEmpty ==
  ASSUME NEW l, IsSeq(l)
  PROVE  <<>> \o l = l /\ l \o <<>> = l
<1>1. PICK S : l \in Seq(S)
  BY DEF IsSeq
<1> QED
  BY <1>1
-----------------------------------------------------------------------------
(* The invariant. *)

\* The save of a goes on with register k.
At(a, k) == todo[a] = Words(k)

FileOk(f) ==
  /\ f = [valid |-> f.valid, data |-> f.data, seen |-> f.seen]
  /\ f.valid \in BOOLEAN
  /\ f.data = [r \in Kept |-> f.data[r]] /\ f.seen = [r \in Kept |-> f.seen[r]]

ListsOk ==
  /\ todo = [a \in Actors |-> todo[a]]
  /\ \A a \in Actors : Rest(todo[a]) \/ \E k \in 1 .. KeptLen + 1 : At(a, k)

\* What is valid is true up to the register that is next.
TrueUpTo(k) ==
  buf.valid => \A i \in 1 .. k - 1 :
                 buf.data[gusSwitchCfgRegAddrArray[i]] = buf.seen[gusSwitchCfgRegAddrArray[i]]

OneSaves == \A a, b \in Actors : Saving(a) /\ Saving(b) => a = b

Untorn ==
  /\ OneSaves
  /\ flash.valid => flash.data = flash.seen
  /\ (\A a \in Actors : ~Saving(a)) => (buf.valid => buf.data = buf.seen)
  /\ \A a \in Actors : \A k \in 1 .. KeptLen + 1 : At(a, k) => TrueUpTo(k)

Inv ==
  /\ FileOk(buf) /\ FileOk(flash)
  /\ torn \in BOOLEAN
  /\ ListsOk
  /\ ~torn => Untorn

\* Who saves has the list of a save.
LEMMA SavingIs ==
  ASSUME ListsOk, NEW a \in Actors
  PROVE  /\ Saving(a) <=> \E k \in 1 .. KeptLen + 1 : At(a, k)
         /\ Rest(todo[a]) => ~Saving(a)
<1>1. ASSUME Rest(todo[a]) PROVE ~Saving(a) /\ ~ \E k \in 1 .. KeptLen + 1 : At(a, k)
  <2>1. ~Saving(a)
    BY <1>1, RestHead DEF Saving, Doing
  <2> QED
    BY <1>1, <2>1, WordsHead DEF At
<1>2. ASSUME NEW k \in 1 .. KeptLen + 1, At(a, k) PROVE Saving(a)
  BY <1>2, WordsHead DEF At, Saving, Doing
<1> QED
  BY <1>1, <1>2 DEF ListsOk

LEMMA InitKeeps == Init => Inv
<1> SUFFICES ASSUME Init PROVE Inv
  OBVIOUS
<1>1. FileOk(NoSettings) /\ ~NoSettings.valid
  BY DEF FileOk, NoSettings
<1>2. buf = NoSettings /\ flash = NoSettings /\ torn = FALSE /\ todo = [a \in Actors |-> <<>>]
  BY DEF Init
<1>3. \A a \in Actors : Rest(todo[a]) /\ ~Saving(a)
  BY <1>2, EmptyRests DEF Saving, Doing
<1>4. ListsOk
  BY <1>2, <1>3 DEF ListsOk
<1>5. Untorn
  BY <1>1, <1>2, <1>3 DEF Untorn, OneSaves, TrueUpTo
<1> QED
  BY <1>1, <1>2, <1>4, <1>5 DEF Inv

\* One actor's list changes.
LEMMA ListMoves ==
  ASSUME ListsOk, NEW a \in Actors, NEW l, todo' = [todo EXCEPT ![a] = l],
         Rest(l) \/ \E k \in 1 .. KeptLen + 1 : l = Words(k)
  PROVE  /\ ListsOk' /\ todo'[a] = l
         /\ Rest(l) => ~Saving(a)' /\ \A k \in 1 .. KeptLen + 1 : ~At(a, k)'
         /\ \A b \in Actors \ {a} :
              (Saving(b)' <=> Saving(b)) /\ \A k \in 1 .. KeptLen + 1 : At(b, k)' <=> At(b, k)
<1>1. todo'[a] = l /\ \A b \in Actors \ {a} : todo'[b] = todo[b]
  BY DEF ListsOk
<1>2. ListsOk'
  BY <1>1 DEF ListsOk, At
<1>3. ASSUME Rest(l) PROVE ~Saving(a)' /\ \A k \in 1 .. KeptLen + 1 : ~At(a, k)'
  BY <1>1, <1>3, RestHead, WordsHead DEF Saving, Doing, At
<1>4. \A b \in Actors \ {a} :
        (Saving(b)' <=> Saving(b)) /\ \A k \in 1 .. KeptLen + 1 : At(b, k)' <=> At(b, k)
  BY <1>1 DEF Saving, Doing, At
<1> QED
  BY <1>1, <1>2, <1>3, <1>4

\* Who does not save goes on to something that is no save.
LEMMA RestMoveKeeps ==
  ASSUME Inv, NEW a \in Actors, ~Saving(a), NEW l, Rest(l), todo' = [todo EXCEPT ![a] = l],
         UNCHANGED fileVars
  PROVE  Inv'
<1>1. ListsOk
  BY DEF Inv
<1>2. /\ ListsOk'
      /\ ~Saving(a)' /\ \A k \in 1 .. KeptLen + 1 : ~At(a, k)'
      /\ \A b \in Actors \ {a} :
           (Saving(b)' <=> Saving(b)) /\ \A k \in 1 .. KeptLen + 1 : At(b, k)' <=> At(b, k)
  BY <1>1, ListMoves
<1>3. buf' = buf /\ flash' = flash /\ torn' = torn
  BY DEF fileVars
<1>4. ASSUME ~torn' PROVE Untorn'
  <2>1. Untorn
    BY <1>3, <1>4 DEF Inv
  <2>2. OneSaves'
    BY <1>2, <2>1 DEF Untorn, OneSaves
  <2>3. flash'.valid => flash'.data = flash'.seen
    BY <1>3, <2>1 DEF Untorn
  <2>4. (\A b \in Actors : ~Saving(b)') => (buf'.valid => buf'.data = buf'.seen)
    BY <1>2, <1>3, <2>1 DEF Untorn
  <2>5. ASSUME NEW b \in Actors, NEW k \in 1 .. KeptLen + 1, At(b, k)' PROVE TrueUpTo(k)'
    <3>1. At(b, k)
      BY <1>2, <2>5
    <3>2. TrueUpTo(k)
      BY <2>1, <3>1 DEF Untorn
    <3> QED
      BY <1>3, <3>2 DEF TrueUpTo
  <2> QED
    BY <2>2, <2>3, <2>4, <2>5 DEF Untorn
<1> QED
  BY <1>2, <1>3, <1>4 DEF Inv, FileOk

LEMMA StillKeeps ==
  ASSUME Inv, UNCHANGED <<todo, fileVars>>
  PROVE  Inv'
<1>1. todo' = todo /\ buf' = buf /\ flash' = flash /\ torn' = torn
  BY DEF fileVars
<1>2. ListsOk' /\ \A a \in Actors : Saving(a)' <=> Saving(a)
  BY <1>1 DEF Inv, ListsOk, At, Saving, Doing
<1>3. ASSUME ~torn' PROVE Untorn'
  <2>1. Untorn
    BY <1>1, <1>3 DEF Inv
  <2> QED
    BY <1>1, <1>2, <2>1 DEF Untorn, OneSaves, TrueUpTo, At
<1> QED
  BY <1>1, <1>2, <1>3 DEF Inv, FileOk

\* Who is at a step that does not touch the file.
LEMMA QuietHead ==
  ASSUME Inv, NEW a \in Actors, todo[a] # <<>>, Head(todo[a]).op \notin FileOps
  PROVE  Quiet(todo[a]) /\ Quiet(Tail(todo[a])) /\ QuietStep(Head(todo[a])) /\ ~Saving(a)
<1>1. ListsOk
  BY DEF Inv
<1>2. ~Saving(a)
  BY DEF Saving, Doing, FileOps
<1>3. Rest(todo[a])
  BY <1>1, <1>2, SavingIs DEF ListsOk
<1>4. Quiet(todo[a])
  BY <1>3, RestHead
<1> QED
  BY <1>2, <1>4, QuietTail

LEMMA QuietGoonKeeps ==
  ASSUME Inv, NEW a \in Actors, todo[a] # <<>>, Head(todo[a]).op \notin FileOps,
         NEW more, Quiet(more), Goon(a, more), UNCHANGED fileVars
  PROVE  Inv'
<1>1. Quiet(Tail(todo[a])) /\ ~Saving(a)
  BY QuietHead
<1> DEFINE l == PastMarks(more \o Tail(todo[a]))
<1>2. Rest(l)
  BY <1>1, QuietConcat, QuietPastMarks DEF Rest
<1>3. todo' = [todo EXCEPT ![a] = l]
  BY DEF Goon
<1> HIDE DEF l
<1> QED
  BY <1>1, <1>2, <1>3, RestMoveKeeps
-----------------------------------------------------------------------------
(* The steps that leave the file alone. *)

LEMMA AccessesKeep ==
  ASSUME Inv, NEW a \in Actors,
         \/ SetField(a) \/ PutField(a) \/ StartPhy(a) \/ FetchPhy(a) \/ PutPhy(a) \/ GoPhy(a)
         \/ GetField(a) \/ PutWord(a) \/ HWReset(a)
  PROVE  Inv'
<1> DEFINE do == Head(todo[a])
<1>1. \A op : Doing(a, op) => todo[a] # <<>> /\ do.op = op
  BY DEF Doing
<1> HIDE DEF do
<1> USE DEF FileOps
<1>2. ASSUME SetField(a) PROVE Inv'
  <2> DEFINE more == <<Put(do.field, do.value, reg[do.field.addr])>>
  <2>1. do.op = "set" /\ todo[a] # <<>> /\ Goon(a, more) /\ UNCHANGED fileVars
    BY <1>1, <1>2 DEF SetField, do
  <2>2. Quiet(more)
    BY PlainSteps, QuietSteps
  <2> HIDE DEF more
  <2> QED
    BY <2>1, <2>2, QuietGoonKeeps DEF do
<1>3. ASSUME PutField(a) PROVE Inv'
  <2>1. do.op = "put" /\ todo[a] # <<>> /\ Goon(a, <<>>) /\ UNCHANGED fileVars
    BY <1>1, <1>3 DEF PutField
  <2> QED
    BY <2>1, QuietEmpty, QuietGoonKeeps DEF do
<1>4. ASSUME StartPhy(a) PROVE Inv'
  <2> DEFINE more == IF do.op = "get" THEN <<>> ELSE <<Access("fetch", do.field, do.value)>>
  <2>1. do.op \in {"get", "set"} /\ todo[a] # <<>> /\ Goon(a, more) /\ UNCHANGED fileVars
    BY <1>1, <1>4 DEF StartPhy, do
  <2>2. Quiet(more)
    BY PlainSteps, QuietSteps, QuietEmpty
  <2> HIDE DEF more
  <2> QED
    BY <2>1, <2>2, QuietGoonKeeps DEF do
<1>5. ASSUME FetchPhy(a) PROVE Inv'
  <2> DEFINE more == <<Put(do.field, do.value, phyData.out)>>
  <2>1. do.op = "fetch" /\ todo[a] # <<>> /\ Goon(a, more) /\ UNCHANGED fileVars
    BY <1>1, <1>5 DEF FetchPhy, do
  <2>2. Quiet(more)
    BY PlainSteps, QuietSteps
  <2> HIDE DEF more
  <2> QED
    BY <2>1, <2>2, QuietGoonKeeps DEF do
<1>6. ASSUME PutPhy(a) PROVE Inv'
  <2> DEFINE more == <<Access("go", do.field, do.value)>>
  <2>1. do.op = "put" /\ todo[a] # <<>> /\ Goon(a, more) /\ UNCHANGED fileVars
    BY <1>1, <1>6 DEF PutPhy, do
  <2>2. Quiet(more)
    BY PlainSteps, QuietSteps
  <2> HIDE DEF more
  <2> QED
    BY <2>1, <2>2, QuietGoonKeeps DEF do
<1>7. ASSUME GoPhy(a) PROVE Inv'
  <2>1. do.op = "go" /\ todo[a] # <<>> /\ Goon(a, <<>>) /\ UNCHANGED fileVars
    BY <1>1, <1>7 DEF GoPhy
  <2> QED
    BY <2>1, QuietEmpty, QuietGoonKeeps DEF do
<1>8. ASSUME GetField(a) PROVE Inv'
  <2> DEFINE more == IF FieldOf(reg[do.field.addr], do.field) = do.value THEN do.yes ELSE do.no
  <2>1. do.op = "if" /\ todo[a] # <<>> /\ Goon(a, more) /\ UNCHANGED fileVars
    BY <1>1, <1>8 DEF GetField, do
  <2>2. QuietStep(do)
    BY <2>1, QuietHead DEF do
  <2>3. Quiet(more)
    BY <2>1, <2>2 DEF QuietStep
  <2> HIDE DEF more
  <2> QED
    BY <2>1, <2>3, QuietGoonKeeps DEF do
<1>9. ASSUME PutWord(a) PROVE Inv'
  <2>1. do.op \in {"word", "restore"} /\ todo[a] # <<>> /\ Goon(a, <<>>) /\ UNCHANGED fileVars
    BY <1>1, <1>9 DEF PutWord
  <2> QED
    BY <2>1, QuietEmpty, QuietGoonKeeps DEF do
<1>10. ASSUME HWReset(a) PROVE Inv'
  <2>1. do.op = "reset" /\ todo[a] # <<>> /\ Goon(a, <<>>) /\ UNCHANGED fileVars
    BY <1>1, <1>10 DEF HWReset
  <2> QED
    BY <2>1, QuietEmpty, QuietGoonKeeps DEF do
<1> QED
  BY <1>2, <1>3, <1>4, <1>5, <1>6, <1>7, <1>8, <1>9, <1>10

LEMMA FailKeeps ==
  ASSUME Inv, NEW a \in Actors, Fail(a)
  PROVE  Inv'
<1>1. /\ todo[a] # <<>> /\ Head(todo[a]).op \in Reads \union {"put", "word", "restore"}
      /\ todo' = [todo EXCEPT ![a] = AfterMark(todo[a])] /\ UNCHANGED fileVars
  BY DEF Fail
<1>2. Head(todo[a]).op \notin FileOps
  BY <1>1 DEF Reads, FileOps
<1>3. Quiet(todo[a]) /\ ~Saving(a)
  BY <1>1, <1>2, QuietHead
<1>4. Rest(AfterMark(todo[a]))
  BY <1>3, QuietAfterMark DEF Rest
<1> QED
  BY <1>1, <1>3, <1>4, RestMoveKeeps

LEMMA MarksKeep ==
  ASSUME Inv, NEW a \in Actors, LookAtLoops(a) \/ PutMark(a) \/ PutUplink(a)
  PROVE  Inv'
<1> USE DEF FileOps
<1>1. ASSUME LookAtLoops(a) PROVE Inv'
  <2> DEFINE more == Round(Head(todo[a]).mgtPort)
  <2>1. Head(todo[a]).op = "loops" /\ todo[a] # <<>> /\ Goon(a, more) /\ UNCHANGED fileVars
    BY <1>1 DEF LookAtLoops, Doing, Round
  <2>2. Quiet(more)
    BY QuietRound
  <2> HIDE DEF more
  <2> QED
    BY <2>1, <2>2, QuietGoonKeeps
<1>2. ASSUME PutMark(a) PROVE Inv'
  <2>1. Head(todo[a]).op = "mark" /\ todo[a] # <<>> /\ Goon(a, <<>>) /\ UNCHANGED fileVars
    BY <1>2 DEF PutMark, Doing
  <2> QED
    BY <2>1, QuietEmpty, QuietGoonKeeps
<1>3. ASSUME PutUplink(a) PROVE Inv'
  <2>1. Head(todo[a]).op = "uplink" /\ todo[a] # <<>> /\ Goon(a, <<>>) /\ UNCHANGED fileVars
    BY <1>3 DEF PutUplink, Doing
  <2> QED
    BY <2>1, QuietEmpty, QuietGoonKeeps
<1> QED
  BY <1>1, <1>2, <1>3

\* Who has nothing to do gets something to do.
LEMMA StartKeeps ==
  ASSUME Inv, NEW a \in Actors, todo[a] = <<>>, NEW l, Rest(l), todo' = [todo EXCEPT ![a] = l],
         UNCHANGED fileVars
  PROVE  Inv'
<1>1. ~Saving(a)
  BY DEF Saving, Doing
<1> QED
  BY <1>1, RestMoveKeeps

LEMMA StartsKeep ==
  ASSUME Inv, LoopRound \/ Hello \/ \E s \in Sessions : \E c \in Commands[s] : Enter(s, c)
  PROVE  Inv'
<1>1. "loop monitor" \in Actors /\ "RCP monitor" \in Actors /\ Sessions \subseteq Actors
  BY DEF Actors
<1>2. ASSUME LoopRound PROVE Inv'
  <2> DEFINE l == <<[op |-> "loops", mgtPort |-> upLinkPort]>>
  <2>1. QuietStep([op |-> "loops", mgtPort |-> upLinkPort])
    BY DEF QuietStep, FileOps
  <2>2. Rest(l)
    BY <2>1, QuietSteps DEF Rest
  <2>3. todo["loop monitor"] = <<>> /\ todo' = [todo EXCEPT !["loop monitor"] = l] /\ UNCHANGED fileVars
    BY <1>2 DEF LoopRound
  <2> HIDE DEF l
  <2> QED
    BY <1>1, <2>2, <2>3, StartKeeps
<1>3. ASSUME Hello PROVE Inv'
  <2> DEFINE l == (IF known THEN <<>> ELSE Restore) \o UplinkMoved(uplink, previousUplinkPort)
  <2>1. Rest(l)
    BY QuietEmpty, QuietRestore, QuietUplinkMoved, QuietConcat DEF Rest
  <2>2. todo["RCP monitor"] = <<>> /\ todo' = [todo EXCEPT !["RCP monitor"] = l] /\ UNCHANGED fileVars
    BY <1>3 DEF Hello
  <2> HIDE DEF l
  <2> QED
    BY <1>1, <2>1, <2>2, StartKeeps
<1>4. ASSUME NEW s \in Sessions, NEW c \in Commands[s], Enter(s, c) PROVE Inv'
  <2>1. Rest(Does(c))
    BY CommandDoes DEF Rest
  <2>2. todo[s] = <<>> /\ todo' = [todo EXCEPT ![s] = Does(c)] /\ UNCHANGED fileVars
    BY <1>4 DEF Enter
  <2> QED
    BY <1>1, <2>1, <2>2, StartKeeps
<1> QED
  BY <1>2, <1>3, <1>4

\* The cable, the loops, and a switch that does not answer.
LEMMA OutsideKeeps ==
  ASSUME Inv, GoesOffline \/ Unplug \/ PlugIn \/ LoopComesOrGoes
  PROVE  Inv'
<1>1. UNCHANGED <<todo, fileVars>>
  BY DEF GoesOffline, Unplug, PlugIn, LoopComesOrGoes
<1> QED
  BY <1>1, StillKeeps
-----------------------------------------------------------------------------
(* The steps of a save, an erasure, and a restart. *)

\* A save comes upon nobody who saves, unless it tears the file.
LEMMA SaveKeeps ==
  ASSUME Inv, NEW a \in Actors, Save(a)
  PROVE  Inv'
<1>1. ListsOk /\ FileOk(buf) /\ FileOk(flash) /\ torn \in BOOLEAN
  BY DEF Inv
<1>2. todo[a] # <<>> /\ Head(todo[a]).op = "save" /\ flash' = flash
  BY DEF Save, Doing
<1>3. ~Saving(a)
  BY <1>2 DEF Saving, Doing
<1>4. Rest(todo[a]) /\ Tail(todo[a]) = <<>>
  <2>1. Rest(todo[a])
    BY <1>1, <1>3, SavingIs DEF ListsOk
  <2> QED
    BY <1>2, <2>1, RestHead
<1>5. PICK k \in 1 .. KeptLen + 1 :
        /\ todo' = [todo EXCEPT ![a] = Words(k)]
        /\ \/ k = 1 /\ buf' = [NoSettings EXCEPT !.valid = TRUE]
           \/ k = KeptLen + 1 /\ buf' = buf
  <2>1. \A j \in 1 .. KeptLen + 1 : PastMarks(Words(j) \o <<>>) = Words(j)
    BY WordsSeq, ConcatEmpty, WordsGoOn
  <2>2. CASE known
    <3>1. Goon(a, Words(1)) /\ buf' = [NoSettings EXCEPT !.valid = TRUE]
      BY <2>2, WordsStart DEF Save
    <3>2. todo' = [todo EXCEPT ![a] = Words(1)]
      BY <1>4, <2>1, <3>1, WordsStart DEF Goon
    <3> QED
      BY <3>1, <3>2, WordsStart
  <2>3. CASE ~known
    <3>1. Goon(a, Words(KeptLen + 1)) /\ buf' = buf
      BY <2>3, WordsStart DEF Save
    <3>2. todo' = [todo EXCEPT ![a] = Words(KeptLen + 1)]
      BY <1>4, <2>1, <3>1, WordsStart DEF Goon
    <3> QED
      BY <3>1, <3>2, WordsStart
  <2> QED
    BY <2>2, <2>3
<1>6. /\ ListsOk' /\ todo'[a] = Words(k)
      /\ \A b \in Actors \ {a} :
           (Saving(b)' <=> Saving(b)) /\ \A j \in 1 .. KeptLen + 1 : At(b, j)' <=> At(b, j)
  BY <1>1, <1>5, ListMoves
<1>7. FileOk(buf')
  BY <1>1, <1>5 DEF FileOk, NoSettings
<1>8. torn' = (torn \/ \E b \in Actors \ {a} : Saving(b))
  BY DEF Save, Tears
<1>9. ASSUME ~torn' PROVE Untorn'
  <2>1. Untorn /\ \A b \in Actors : ~Saving(b)
    BY <1>3, <1>8, <1>9 DEF Inv
  <2>2. \A b \in Actors \ {a} : ~Saving(b)' /\ \A j \in 1 .. KeptLen + 1 : ~At(b, j)'
    BY <1>1, <1>6, <2>1, SavingIs
  <2>3. Saving(a)'
    BY <1>6, WordsHead DEF Saving, Doing
  <2>4. TrueUpTo(k)'
    <3>1. CASE k = 1
      <4>1. 1 .. k - 1 = {}
        BY <3>1
      <4> QED
        BY <4>1 DEF TrueUpTo
    <3>2. CASE buf' = buf
      <4>1. buf.valid => buf.data = buf.seen
        BY <2>1 DEF Untorn
      <4> QED
        BY <3>2, <4>1 DEF TrueUpTo
    <3> QED
      BY <1>5, <3>1, <3>2
  <2>5. \A j \in 1 .. KeptLen + 1 : At(a, j)' => j = k
    BY <1>6, WordsDiffer DEF At
  <2>6. flash'.valid => flash'.data = flash'.seen
    BY <1>2, <2>1 DEF Untorn
  <2> QED
    BY <2>2, <2>3, <2>4, <2>5, <2>6 DEF Untorn, OneSaves
<1>10. FileOk(flash') /\ torn' \in BOOLEAN
  BY <1>1, <1>2, <1>8
<1> QED
  BY <1>6, <1>7, <1>9, <1>10 DEF Inv, FileOk

\* A save goes on with the next register, when what was read was put into the
\* buffer or made it invalid.
LEMMA NextWordKeeps ==
  ASSUME Inv, NEW a \in Actors, NEW k \in 1 .. KeptLen + 1, At(a, k), k # KeptLen + 1, Goon(a, <<>>),
         FileOk(buf'), TrueUpTo(k) => TrueUpTo(k + 1)', UNCHANGED <<flash, torn>>
  PROVE  Inv'
<1>1. ListsOk /\ FileOk(flash) /\ torn \in BOOLEAN
  BY DEF Inv
<1>2. k + 1 \in 1 .. KeptLen + 1 /\ todo' = [todo EXCEPT ![a] = Words(k + 1)]
  <2>1. k + 1 \in 1 .. KeptLen + 1 /\ Tail(todo[a]) = Words(k + 1)
    BY WordsTail DEF At
  <2>2. PastMarks(<<>> \o Words(k + 1)) = Words(k + 1)
    BY <2>1, WordsSeq, ConcatEmpty, WordsGoOn
  <2> QED
    BY <2>1, <2>2 DEF Goon
<1>3. /\ ListsOk' /\ todo'[a] = Words(k + 1)
      /\ \A b \in Actors \ {a} :
           (Saving(b)' <=> Saving(b)) /\ \A j \in 1 .. KeptLen + 1 : At(b, j)' <=> At(b, j)
  BY <1>1, <1>2, ListMoves
<1>4. ASSUME ~torn' PROVE Untorn'
  <2>1. Untorn /\ Saving(a)
    BY <1>1, <1>4, SavingIs DEF Inv
  <2>2. \A b \in Actors \ {a} : ~Saving(b)
    BY <2>1 DEF Untorn, OneSaves
  <2>3. \A b \in Actors \ {a} : ~Saving(b)' /\ \A j \in 1 .. KeptLen + 1 : ~At(b, j)'
    BY <1>1, <1>3, <2>2, SavingIs
  <2>4. Saving(a)'
    BY <1>2, <1>3, WordsHead DEF Saving, Doing
  <2>5. TrueUpTo(k + 1)'
    BY <2>1 DEF Untorn
  <2>6. \A j \in 1 .. KeptLen + 1 : At(a, j)' => j = k + 1
    BY <1>2, <1>3, WordsDiffer DEF At
  <2>7. flash'.valid => flash'.data = flash'.seen
    BY <2>1 DEF Untorn
  <2> QED
    BY <2>3, <2>4, <2>5, <2>6, <2>7 DEF Untorn, OneSaves
<1> QED
  BY <1>1, <1>3, <1>4 DEF Inv, FileOk

LEMMA AtWord ==
  ASSUME Inv, NEW a \in Actors, Doing(a, "save word")
  PROVE  \E k \in 1 .. KeptLen + 1 :
           At(a, k) /\ k # KeptLen + 1 /\ Head(todo[a]).addr = gusSwitchCfgRegAddrArray[k]
<1>1. Saving(a) /\ Head(todo[a]).op = "save word" /\ ListsOk
  BY DEF Saving, Doing, Inv
<1>2. PICK k \in 1 .. KeptLen + 1 : At(a, k)
  BY <1>1, SavingIs
<1> QED
  BY <1>1, <1>2, WordsHead DEF At

LEMMA SaveWordKeeps ==
  ASSUME Inv, NEW a \in Actors, SaveWord(a) \/ SaveWordFails(a)
  PROVE  Inv'
<1>1. PICK k \in 1 .. KeptLen + 1 :
        At(a, k) /\ k # KeptLen + 1 /\ Head(todo[a]).addr = gusSwitchCfgRegAddrArray[k]
  BY AtWord DEF SaveWord, SaveWordFails
<1>2. FileOk(buf) /\ Goon(a, <<>>) /\ UNCHANGED <<flash, torn>>
  BY DEF Inv, SaveWord, SaveWordFails
<1>3. KeptLen \in Nat
  BY KeptSeq DEF KeptLen
<1>4. \A i \in 1 .. k : gusSwitchCfgRegAddrArray[i] \in Kept
  BY <1>1, <1>3, KeptSeq DEF KeptLen
<1>5. ASSUME SaveWord(a) PROVE FileOk(buf') /\ (TrueUpTo(k) => TrueUpTo(k + 1)')
  <2> DEFINE addr == gusSwitchCfgRegAddrArray[k]
             word == reg[addr]
  <2>1. buf' = [buf EXCEPT !.data[addr] = word, !.seen[addr] = word]
    BY <1>1, <1>5 DEF SaveWord
  <2> HIDE DEF word
  <2>2. /\ buf'.valid = buf.valid /\ buf' = [valid |-> buf'.valid, data |-> buf'.data, seen |-> buf'.seen]
        /\ buf'.data = [buf.data EXCEPT ![addr] = word] /\ buf'.seen = [buf.seen EXCEPT ![addr] = word]
    BY <1>2, <2>1 DEF FileOk
  <2>3. FileOk(buf')
    BY <1>2, <2>2 DEF FileOk
  <2>4. \A r \in Kept : /\ buf'.data[r] = IF r = addr THEN word ELSE buf.data[r]
                        /\ buf'.seen[r] = IF r = addr THEN word ELSE buf.seen[r]
    BY <1>2, <2>2 DEF FileOk
  <2>5. ASSUME TrueUpTo(k), buf'.valid, NEW i \in 1 .. (k + 1) - 1
        PROVE  buf'.data[gusSwitchCfgRegAddrArray[i]] = buf'.seen[gusSwitchCfgRegAddrArray[i]]
    <3>1. i \in 1 .. k /\ gusSwitchCfgRegAddrArray[i] \in Kept
      BY <1>3, <1>4
    <3>2. CASE i = k
      BY <2>4, <3>1, <3>2
    <3>3. CASE i # k
      <4>1. i \in 1 .. k - 1
        BY <1>3, <3>1, <3>3
      <4>2. buf.data[gusSwitchCfgRegAddrArray[i]] = buf.seen[gusSwitchCfgRegAddrArray[i]]
        BY <2>2, <2>5, <4>1 DEF TrueUpTo
      <4> QED
        BY <2>4, <3>1, <4>2
    <3> QED
      BY <3>2, <3>3
  <2> QED
    BY <2>3, <2>5 DEF TrueUpTo
<1>6. ASSUME SaveWordFails(a) PROVE FileOk(buf') /\ (TrueUpTo(k) => TrueUpTo(k + 1)')
  <2>1. buf' = [buf EXCEPT !.valid = FALSE]
    BY <1>6 DEF SaveWordFails
  <2>2. FileOk(buf') /\ buf'.valid = FALSE
    BY <1>2, <2>1 DEF FileOk
  <2> QED
    BY <2>2 DEF TrueUpTo
<1> QED
  BY <1>1, <1>2, <1>5, <1>6, NextWordKeeps

LEMMA FileKeeps ==
  ASSUME Inv, NEW a \in Actors, File(a)
  PROVE  Inv'
<1>1. ListsOk /\ FileOk(buf) /\ torn \in BOOLEAN
  BY DEF Inv
<1>2. Doing(a, "file") /\ Goon(a, <<>>) /\ flash' = buf /\ buf' = buf /\ torn' = torn
  BY DEF File
<1>3. Saving(a)
  BY <1>2 DEF Saving
<1>4. At(a, KeptLen + 1)
  <2>1. PICK k \in 1 .. KeptLen + 1 : At(a, k)
    BY <1>1, <1>3, SavingIs
  <2>2. Head(Words(k)).op = "file"
    BY <1>2, <2>1 DEF At, Doing
  <2> QED
    BY <2>1, <2>2, WordsHead
<1>5. todo' = [todo EXCEPT ![a] = <<>>]
  <2>1. Tail(todo[a]) = <<>>
    BY <1>4, WordsStart, WordsTail DEF At
  <2>2. PastMarks(<<>> \o <<>>) = <<>>
    BY EmptyIsSeq, ConcatEmpty, WordsGoOn
  <2> QED
    BY <1>2, <2>1, <2>2 DEF Goon
<1>6. /\ ListsOk' /\ ~Saving(a)' /\ \A j \in 1 .. KeptLen + 1 : ~At(a, j)'
      /\ \A b \in Actors \ {a} :
           (Saving(b)' <=> Saving(b)) /\ \A j \in 1 .. KeptLen + 1 : At(b, j)' <=> At(b, j)
  BY <1>1, <1>5, EmptyRests, ListMoves
<1>7. ASSUME ~torn' PROVE Untorn'
  <2>1. Untorn
    BY <1>2, <1>7 DEF Inv
  <2>2. \A b \in Actors : ~Saving(b)' /\ \A j \in 1 .. KeptLen + 1 : ~At(b, j)'
    BY <1>1, <1>3, <1>6, <2>1, SavingIs DEF Untorn, OneSaves
  <2>3. buf.valid => buf.data = buf.seen
    <3>1. TrueUpTo(KeptLen + 1)
      BY <1>4, <2>1, WordsStart DEF Untorn
    <3>2. KeptLen \in Nat /\ KeptLen + 1 - 1 = KeptLen
      BY KeptSeq DEF KeptLen
    <3>3. ASSUME buf.valid, NEW r \in Kept PROVE buf.data[r] = buf.seen[r]
      BY <3>1, <3>2, <3>3, KeptSeq DEF TrueUpTo, KeptLen
    <3> QED
      BY <1>1, <3>3 DEF FileOk
  <2> QED
    BY <1>2, <2>2, <2>3 DEF Untorn, OneSaves
<1> QED
  BY <1>1, <1>2, <1>6, <1>7 DEF Inv, FileOk

LEMMA ClearKeeps ==
  ASSUME Inv, NEW a \in Actors, Clear(a)
  PROVE  Inv'
<1>1. ListsOk /\ FileOk(flash) /\ FileOk(NoSettings) /\ ~NoSettings.valid /\ torn \in BOOLEAN
  BY DEF Inv, FileOk, NoSettings
<1>2. /\ todo[a] # <<>> /\ Head(todo[a]).op = "clear file" /\ Goon(a, <<>>)
      /\ buf' = NoSettings /\ flash' \in {NoSettings, flash}
      /\ torn' = (torn \/ \E b \in Actors \ {a} : Saving(b))
  BY DEF Clear, Doing, Tears
<1>3. ~Saving(a)
  BY <1>2 DEF Saving, Doing
<1>4. todo' = [todo EXCEPT ![a] = <<>>]
  <2>1. Rest(todo[a])
    BY <1>1, <1>3, SavingIs DEF ListsOk
  <2>2. Tail(todo[a]) = <<>>
    BY <1>2, <2>1, RestHead
  <2>3. PastMarks(<<>> \o <<>>) = <<>>
    BY EmptyIsSeq, ConcatEmpty, WordsGoOn
  <2> QED
    BY <1>2, <2>2, <2>3 DEF Goon
<1>5. /\ ListsOk' /\ ~Saving(a)' /\ \A j \in 1 .. KeptLen + 1 : ~At(a, j)'
      /\ \A b \in Actors \ {a} :
           (Saving(b)' <=> Saving(b)) /\ \A j \in 1 .. KeptLen + 1 : At(b, j)' <=> At(b, j)
  BY <1>1, <1>4, EmptyRests, ListMoves
<1>6. ASSUME ~torn' PROVE Untorn'
  <2>1. Untorn /\ \A b \in Actors \ {a} : ~Saving(b)
    BY <1>2, <1>6 DEF Inv
  <2>2. \A b \in Actors : ~Saving(b)' /\ \A j \in 1 .. KeptLen + 1 : ~At(b, j)'
    BY <1>1, <1>5, <2>1, SavingIs
  <2> QED
    BY <1>1, <1>2, <2>1, <2>2 DEF Untorn, OneSaves
<1> QED
  BY <1>1, <1>2, <1>5, <1>6 DEF Inv, FileOk

LEMMA RestartKeeps ==
  ASSUME Inv, Restart
  PROVE  Inv'
<1>1. buf' = flash /\ flash' = flash /\ torn' = torn /\ todo' = [a \in Actors |-> <<>>]
  BY DEF Restart
<1>2. \A a \in Actors : Rest(todo'[a]) /\ ~Saving(a)' /\ \A k \in 1 .. KeptLen + 1 : ~At(a, k)'
  BY <1>1, EmptyRests, WordsHead DEF Saving, Doing, At
<1>3. ListsOk'
  BY <1>1, <1>2 DEF ListsOk
<1>4. ASSUME ~torn' PROVE Untorn'
  BY <1>1, <1>2, <1>4 DEF Inv, Untorn, OneSaves
<1> QED
  BY <1>1, <1>3, <1>4 DEF Inv, FileOk
-----------------------------------------------------------------------------
LEMMA StepKeeps ==
  ASSUME Inv, [Next]_vars
  PROVE  Inv'
<1>1. ASSUME NEW a \in Actors, Work(a) PROVE Inv'
  <2>1. CASE SetField(a) \/ PutField(a) \/ StartPhy(a) \/ FetchPhy(a) \/ PutPhy(a) \/ GoPhy(a)
               \/ GetField(a) \/ PutWord(a) \/ HWReset(a)
    BY <2>1, AccessesKeep
  <2>2. CASE Fail(a)
    BY <2>2, FailKeeps
  <2>3. CASE Save(a)
    BY <2>3, SaveKeeps
  <2>4. CASE SaveWord(a) \/ SaveWordFails(a)
    BY <2>4, SaveWordKeeps
  <2>5. CASE File(a)
    BY <2>5, FileKeeps
  <2>6. CASE Clear(a)
    BY <2>6, ClearKeeps
  <2>7. CASE LookAtLoops(a) \/ PutMark(a) \/ PutUplink(a)
    BY <2>7, MarksKeep
  <2> QED
    BY <1>1, <2>1, <2>2, <2>3, <2>4, <2>5, <2>6, <2>7 DEF Work
<1>2. CASE LoopRound \/ Hello \/ \E s \in Sessions : \E c \in Commands[s] : Enter(s, c)
  BY <1>2, StartsKeep
<1>3. CASE GoesOffline \/ Unplug \/ PlugIn \/ LoopComesOrGoes
  BY <1>3, OutsideKeeps
<1>4. CASE Restart
  BY <1>4, RestartKeeps
<1>5. CASE UNCHANGED vars
  <2>1. UNCHANGED <<todo, fileVars>>
    BY <1>5 DEF vars
  <2> QED
    BY <2>1, StillKeeps
<1> QED
  BY <1>1, <1>2, <1>3, <1>4, <1>5 DEF Next

\* Settings that count as valid are what the registers held when the save came
\* to them, all of them, whatever registers are saved, however many sessions
\* there are, whatever they enter, however accesses fail and the ONU restarts;
\* only two saves at a time, or a save and an erasure, tear the file
\* (rcp_gwd.c:6331-6490, rcp_switch_cli.c:5854-6005).
THEOREM SavedIsTrueCorrect == Spec => []SavedIsTrue
<1>1. Inv => SavedIsTrue
  BY DEF Inv, Untorn, SavedIsTrue
<1>2. Spec => []Inv
  BY InitKeeps, StepKeeps, PTL DEF Spec
<1> QED
  BY <1>1, <1>2, PTL
=============================================================================
