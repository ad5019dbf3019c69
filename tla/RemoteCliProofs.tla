-------------------------- MODULE RemoteCliProofs --------------------------
(***************************************************************************)
(* Proofs about the command lines of RemoteCli, for every tree of          *)
(* commands, every text, any length of a line and any number of sessions:  *)
(* the buffer holds what was typed, a session is in a mode of              *)
(* configuration only with privilege, a session and its shell end each     *)
(* other, and a command typed in full is run.                              *)
(***************************************************************************)
EXTENDS RemoteCli, FiniteSetTheorems, WellFoundedInduction, TLAPS

\* A nonempty set of naturals has a least element.
LEMMA LeastNatural ==
  ASSUME NEW S, S \subseteq Nat, S # {}
  PROVE  \E x \in S : \A y \in S : x =< y
<1> DEFINE R == OpToRel(<, Nat)
<1>1. IsWellFoundedOn(R, Nat)
  BY NatLessThanWellFounded
<1>2. \A x, y \in Nat : y < x => <<y, x>> \in R
  BY DEF OpToRel
<1> HIDE DEF R
<1>3. PICK x \in S : \A y \in S : ~ (<<y, x>> \in R)
  BY <1>1, WFMin
<1>4. \A y \in S : ~ (y < x)
  BY <1>2, <1>3
<1>5. \A y \in S : x =< y
  BY <1>4
<1> QED
  BY <1>5

\* A sequence of whatever it holds.
IsSeq(s) == \E S : s \in Seq(S)

LEMMA AppendSeq ==
  ASSUME NEW s, IsSeq(s), NEW x
  PROVE  /\ IsSeq(Append(s, x)) /\ Len(Append(s, x)) = Len(s) + 1 /\ Len(s) \in Nat
         /\ \A i \in 1 .. Len(s) + 1 : Append(s, x)[i] = IF i = Len(s) + 1 THEN x ELSE s[i]
<1>1. PICK S : s \in Seq(S)
  BY DEF IsSeq
<1> DEFINE T == S \union {x}
<1>2. s \in Seq(T) /\ x \in T
  BY <1>1
<1> HIDE DEF T
<1>3. Append(s, x) \in Seq(T)
  BY <1>2
<1> QED
  BY <1>2, <1>3 DEF IsSeq

LEMMA ConcatSeq ==
  ASSUME NEW s, IsSeq(s), NEW t, IsSeq(t)
  PROVE  /\ IsSeq(s \o t) /\ Len(s \o t) = Len(s) + Len(t) /\ Len(s) \in Nat /\ Len(t) \in Nat
         /\ \A i \in 1 .. Len(s) + Len(t) : (s \o t)[i] = IF i <= Len(s) THEN s[i] ELSE t[i - Len(s)]
<1>1. PICK S : s \in Seq(S)
  BY DEF IsSeq
<1>2. PICK U : t \in Seq(U)
  BY DEF IsSeq
<1> DEFINE T == S \union U
<1>3. s \in Seq(T) /\ t \in Seq(T)
  BY <1>1, <1>2
<1> HIDE DEF T
<1>4. s \o t \in Seq(T)
  BY <1>3
<1> QED
  BY <1>3, <1>4 DEF IsSeq

LEMMA PartSeq ==
  ASSUME NEW s, IsSeq(s), NEW m \in Nat \ {0}, NEW n \in Nat, n <= Len(s)
  PROVE  /\ IsSeq(SubSeq(s, m, n)) /\ Len(SubSeq(s, m, n)) = IF m <= n THEN n - m + 1 ELSE 0
         /\ Len(s) \in Nat
         /\ \A i \in 1 .. n - m + 1 : SubSeq(s, m, n)[i] = s[m + i - 1]
<1>1. PICK S : s \in Seq(S)
  BY DEF IsSeq
<1>2. SubSeq(s, m, n) \in Seq(S)
  BY <1>1
<1> QED
  BY <1>1, <1>2 DEF IsSeq

LEMMA EmptyIsSeq == IsSeq(<<>>) /\ Len(<<>>) = 0
<1>1. \A x : <<>> \in Seq({x})
  OBVIOUS
<1> QED
  BY <1>1 DEF IsSeq

\* A function on the first n numbers is a sequence of length n.
LEMMA MakesSeq ==
  ASSUME NEW n \in Nat, NEW s, s = [i \in 1 .. n |-> s[i]]
  PROVE  IsSeq(s) /\ Len(s) = n
<1> DEFINE S == {s[i] : i \in 1 .. n}
<1>1. s \in [1 .. n -> S]
  OBVIOUS
<1> HIDE DEF S
<1>2. s \in Seq(S)
  BY <1>1
<1>3. DOMAIN s = 1 .. n /\ DOMAIN s = 1 .. Len(s) /\ Len(s) \in Nat
  BY <1>1, <1>2
<1> QED
  BY <1>2, <1>3 DEF IsSeq

LEMMA SeqIsFunction ==
  ASSUME NEW s, IsSeq(s)
  PROVE  Len(s) \in Nat /\ s = [i \in 1 .. Len(s) |-> s[i]]
  BY DEF IsSeq

\* Its places are finitely many.
LEMMA SeqFinite ==
  ASSUME NEW s, IsSeq(s)
  PROVE  IsFiniteSet(DOMAIN s)
<1> DEFINE n == Len(s)
<1>1. DOMAIN s = 1 .. n /\ n \in Nat
  BY DEF IsSeq
<1> HIDE DEF n
<1>2. IsFiniteSet(1 .. n)
  BY <1>1, FS_Interval
<1> QED
  BY <1>1, <1>2, Zenon
-----------------------------------------------------------------------------

\* A bounded set of numbers has a greatest.
LEMMA GreatestNatural ==
  ASSUME NEW n \in Nat, NEW S, S \subseteq 0 .. n, S # {}
  PROVE  Max(S) \in S /\ \A y \in S : y <= Max(S)
<1> DEFINE left == {k \in 0 .. n : n - k \in S}
<1>1. left \subseteq Nat
  OBVIOUS
<1>2. left # {}
  <2>1. PICK x \in S : TRUE
    OBVIOUS
  <2>2. n - x \in left
    BY <2>1
  <2> QED
    BY <2>2
<1>3. PICK k \in left : \A j \in left : k =< j
  BY <1>1, <1>2, LeastNatural
<1>4. \A y \in S : n - k >= y
  <2> TAKE y \in S
  <2>1. n - y \in left
    OBVIOUS
  <2> QED
    BY <1>3, <2>1
<1>5. Max(S) \in S /\ \A y \in S : Max(S) >= y
  BY <1>3, <1>4 DEF Max
<1> QED
  BY <1>5

\* The greatest of a bounded set, in the words of the model.
LEMMA GreatestIs ==
  ASSUME NEW n \in Nat, NEW S, S \subseteq 0 .. n, S # {}
  PROVE  Greatest(S) \in S /\ \A y \in S : y <= Greatest(S)
<1>1. Max(S) \in S /\ \A y \in S : y <= Max(S)
  BY GreatestNatural
<1> QED
  BY <1>1 DEF Greatest

LEMMA LeastIs ==
  ASSUME NEW S, S \subseteq Nat, NEW i \in S, \A j \in S : i <= j
  PROVE  Least(S) = i
<1>1. Least(S) \in S /\ \A j \in S : Least(S) <= j
  BY DEF Least
<1>2. Least(S) <= i /\ i <= Least(S) /\ Least(S) \in Nat /\ i \in Nat
  BY <1>1
<1> QED
  BY <1>2

\* The lesser of two numbers.
LEMMA LesserOfTwo ==
  ASSUME NEW a \in Nat, NEW b \in Nat
  PROVE  Min({a, b}) \in Nat /\ Min({a, b}) <= a /\ Min({a, b}) <= b
<1> DEFINE m == IF a <= b THEN a ELSE b
           S == {a, b}
<1>1. m \in S /\ \A y \in S : m <= y
  OBVIOUS
<1>2. S \subseteq Nat
  OBVIOUS
<1>3. a \in S /\ b \in S
  OBVIOUS
<1> HIDE DEF S, m
<1>4. Min(S) \in S /\ \A y \in S : Min(S) <= y
  BY <1>1 DEF Min
<1> QED
  BY <1>2, <1>3, <1>4 DEF S
-----------------------------------------------------------------------------
\* The line editor: what the buffer, the length and the cursor are to the text.
Buffer(cmd) == DOMAIN cmd = 0 .. MaxLine - 1

\* Every line, also one that no longer follows its buffer.
LineType(line) ==
  /\ DOMAIN line = {"cmd", "l", "cursor", "esc", "in_history", "left", "right", "garbled"}
  /\ Buffer(line.cmd)
  /\ line.l \in Nat /\ line.cursor \in Nat /\ line.cursor <= line.l
  /\ line.in_history \in -1 .. MaxHistory - 1

\* The buffer holds l characters, the text left and right of the cursor, and
\* nothing behind them.
Holds(cmd, l, cursor, left, right) ==
  /\ l \in 0 .. MaxLine - 1 /\ cursor \in 0 .. l
  /\ IsSeq(left) /\ IsSeq(right) /\ Len(left) = cursor /\ Len(right) = l - cursor
  /\ \A i \in 0 .. l - 1 : cmd[i] # NUL
  /\ \A i \in 0 .. cursor - 1 : cmd[i] = left[i + 1]
  /\ \A i \in cursor .. l - 1 : cmd[i] = right[i - cursor + 1]
  /\ \A i \in l .. MaxLine - 1 : cmd[i] = NUL

Bond(line) == Holds(line.cmd, line.l, line.cursor, line.left, line.right)

LineInv(line) == LineType(line) /\ (line.garbled \/ Bond(line))

\* Backspace, in the buffer and in the text.
LEMMA EraseHolds ==
  ASSUME NEW cmd, NEW l, NEW cursor, NEW left, NEW right, Holds(cmd, l, cursor, left, right),
         cursor # 0, cursor < l => l + 1 < MaxLine,
         NEW new,
         \A i \in 0 .. cursor - 2 : new[i] = cmd[i],
         cursor = l => new[cursor - 1] = NUL /\ \A i \in l .. MaxLine - 1 : new[i] = cmd[i],
         cursor < l => /\ \A i \in cursor - 1 .. l : new[i] = cmd[i + 1]
                       /\ \A i \in l + 1 .. MaxLine - 1 : new[i] = cmd[i]
  PROVE  Holds(new, l - 1, cursor - 1, SubSeq(left, 1, Len(left) - 1), right)
<1> USE DEF Holds
<1> DEFINE front == SubSeq(left, 1, Len(left) - 1)
<1>1. IsSeq(front) /\ Len(front) = cursor - 1 /\ \A i \in 1 .. cursor - 1 : front[i] = left[i]
  BY PartSeq, LineAssumption
<1> HIDE DEF front
<1>2. \A i \in 0 .. cursor - 2 : new[i] = front[i + 1]
  BY <1>1
<1>3. \A i \in cursor - 1 .. l - 2 : new[i] = right[i - (cursor - 1) + 1] /\ new[i] # NUL
  <2> TAKE i \in cursor - 1 .. l - 2
  <2>1. cursor < l /\ i \in cursor - 1 .. l /\ i + 1 \in cursor .. l - 1 /\ i + 1 \in 0 .. l - 1
    BY LineAssumption
  <2>2. (i + 1) - cursor + 1 = i - (cursor - 1) + 1
    BY <2>1
  <2> QED
    BY <2>1, <2>2
<1>4. \A i \in l - 1 .. MaxLine - 1 : new[i] = NUL
  <2> TAKE i \in l - 1 .. MaxLine - 1
  <2>0. l \in Int /\ MaxLine \in Int /\ i \in Int /\ l - 1 <= i /\ i <= MaxLine - 1
    BY LineAssumption
  <2>1. CASE cursor = l
    <3>1. i = l - 1 \/ i \in l .. MaxLine - 1
      <4> HIDE DEF Holds
      <4> QED
        BY <2>0
    <3> QED
      BY <2>1, <3>1
  <2>2. CASE cursor < l /\ i <= l
    <3>1. i \in cursor - 1 .. l /\ i + 1 \in l .. MaxLine - 1
      BY <2>2, LineAssumption
    <3> QED
      BY <2>2, <3>1
  <2>3. CASE cursor < l /\ i > l
    <3>1. i \in l + 1 .. MaxLine - 1 /\ i \in l .. MaxLine - 1
      BY <2>3, LineAssumption
    <3> QED
      BY <2>3, <3>1
  <2> QED
    BY <2>1, <2>2, <2>3, LineAssumption
<1>5. l - 1 \in 0 .. MaxLine - 1 /\ cursor - 1 \in 0 .. l - 1 /\ Len(right) = (l - 1) - (cursor - 1)
  BY LineAssumption
<1>6. \A i \in 0 .. l - 2 : new[i] # NUL
  <2> TAKE i \in 0 .. l - 2
  <2>0. l \in Nat /\ cursor \in Nat /\ cursor <= l
    BY LineAssumption
  <2>1. CASE i < cursor - 1
    <3>1. i \in 0 .. cursor - 2 /\ i \in 0 .. l - 1
      BY <2>0, <2>1
    <3> QED
      BY <3>1
  <2>2. CASE ~ (i < cursor - 1)
    <3>1. i \in cursor - 1 .. l - 2
      BY <2>0, <2>2
    <3> QED
      BY <1>3, <3>1
  <2> QED
    BY <2>1, <2>2
<1> QED
  BY <1>1, <1>2, <1>3, <1>4, <1>5, <1>6 DEF front

LEMMA EraseOneKeeps ==
  ASSUME NEW line, LineInv(line), line.cursor # 0
  PROVE  LineInv(EraseOne(line)) /\ EraseOne(line).cursor = line.cursor - 1
<1> DEFINE cursor == line.cursor
           l == line.l
           cmd == line.cmd
           next == [i \in 0 .. MaxLine - 1 |-> IF i + 1 < MaxLine THEN cmd[i + 1] ELSE Junk]
           moved == [i \in 0 .. MaxLine - 1 |-> IF i \in cursor - 1 .. l THEN next[i] ELSE cmd[i]]
           new == EraseOne(line)
<1>1. LineType(line)
  BY DEF LineInv
<1>2. DOMAIN new = DOMAIN line /\ new.in_history = line.in_history
  BY <1>1 DEF EraseOne, LineType
<1>3. /\ new.l = l - 1 /\ new.cursor = cursor - 1
      /\ new.left = SubSeq(line.left, 1, Len(line.left) - 1) /\ new.right = line.right
      /\ ~ new.garbled => ~ line.garbled /\ ~ (cursor < l /\ l + 1 = MaxLine)
  BY <1>1 DEF EraseOne, LineType
<1>4. new.cmd = IF cursor = l THEN [cmd EXCEPT ![cursor - 1] = NUL] ELSE moved
  BY <1>1 DEF EraseOne, LineType
<1>5. l \in Nat /\ cursor \in Nat /\ cursor <= l /\ cursor # 0 /\ DOMAIN cmd = 0 .. MaxLine - 1
  BY <1>1 DEF LineType, Buffer
<1> HIDE DEF new, cmd, l, cursor
<1>6. DOMAIN new.cmd = 0 .. MaxLine - 1
  BY <1>4, <1>5
<1>7. LineType(new)
  BY <1>1, <1>2, <1>3, <1>5, <1>6 DEF LineType, Buffer
<1>8. ASSUME ~ new.garbled PROVE Bond(new)
  <2>1. Holds(cmd, l, cursor, line.left, line.right)
    BY <1>3, <1>8 DEF LineInv, Bond, cmd, l, cursor
  <2>2. l \in 0 .. MaxLine - 1 /\ (cursor < l => l + 1 < MaxLine)
    BY <1>3, <1>8, <2>1, LineAssumption DEF Holds
  <2>3. \A i \in 0 .. cursor - 2 : new.cmd[i] = cmd[i]
    BY <1>4, <1>5, <2>2, LineAssumption
  <2>4. cursor = l => new.cmd[cursor - 1] = NUL /\ \A i \in l .. MaxLine - 1 : new.cmd[i] = cmd[i]
    BY <1>4, <1>5, <2>2, LineAssumption
  <2>5. cursor < l => /\ \A i \in cursor - 1 .. l : new.cmd[i] = cmd[i + 1]
                      /\ \A i \in l + 1 .. MaxLine - 1 : new.cmd[i] = cmd[i]
    BY <1>4, <1>5, <2>2, LineAssumption
  <2>6. Holds(new.cmd, l - 1, cursor - 1, SubSeq(line.left, 1, Len(line.left) - 1), line.right)
    BY <1>5, <2>1, <2>2, <2>3, <2>4, <2>5, EraseHolds
  <2> QED
    BY <1>3, <2>6 DEF Bond
<1> QED
  BY <1>3, <1>7, <1>8 DEF LineInv, new, cursor

\* The other changes of a bound line: every one gives the buffer, the length, the
\* cursor and the text anew.
LEMMA BondKept ==
  ASSUME NEW old, NEW new, LineType(old), DOMAIN new = DOMAIN old,
         new.in_history = old.in_history, Buffer(new.cmd),
         new.l \in Nat, new.cursor \in Nat, new.cursor <= new.l,
         ~ new.garbled => Holds(new.cmd, new.l, new.cursor, new.left, new.right)
  PROVE  LineInv(new)
  BY DEF LineInv, LineType, Bond

\* A line that is another string as a whole.
LEMMA WithStringKeeps ==
  ASSUME NEW line, LineType(line), NEW s, IsSeq(s), Len(s) < MaxLine, \A i \in 1 .. Len(s) : s[i] # NUL
  PROVE  LineInv(WithString(line, s))
<1> DEFINE new == WithString(line, s)
<1>1. Len(s) \in Nat
  BY DEF IsSeq
<1>2. /\ DOMAIN new = DOMAIN line /\ new.in_history = line.in_history /\ new.l = Len(s) /\ new.cursor = Len(s)
             /\ new.left = s /\ new.right = <<>>
      /\ new.cmd = [i \in 0 .. MaxLine - 1 |-> IF i < Len(s) THEN s[i + 1] ELSE NUL]
  BY DEF WithString, LineType
<1> HIDE DEF new
<1>3. IsSeq(<<>>) /\ Len(<<>>) = 0
  <2>1. <<>> \in Seq({})
    OBVIOUS
  <2> QED
    BY <2>1 DEF IsSeq
<1>4. Buffer(new.cmd)
  BY <1>2 DEF Buffer
<1>5. Holds(new.cmd, Len(s), Len(s), s, <<>>)
  BY <1>1, <1>2, <1>3, LineAssumption DEF Holds
<1> QED
  BY <1>1, <1>2, <1>4, <1>5, BondKept DEF new

\* A character at the end of the text.
LEMMA AppendHolds ==
  ASSUME NEW cmd, NEW l, NEW left, NEW right, Holds(cmd, l, l, left, right), l < MaxLine - 1,
         NEW c, c # NUL, NEW new, new[l] = c, \A i \in 0 .. MaxLine - 1 : i # l => new[i] = cmd[i]
  PROVE  Holds(new, l + 1, l + 1, Append(left, c), right)
<1>1. IsSeq(left) /\ Len(left) = l
  BY DEF Holds
<1>2. /\ IsSeq(Append(left, c)) /\ Len(Append(left, c)) = l + 1
      /\ \A i \in 1 .. l + 1 : Append(left, c)[i] = IF i = l + 1 THEN c ELSE left[i]
  BY <1>1, AppendSeq
<1> QED
  BY <1>1, <1>2, LineAssumption DEF Holds

\* A character within the text.
LEMMA InsertHolds ==
  ASSUME NEW cmd, NEW l, NEW cursor, NEW left, NEW right, Holds(cmd, l, cursor, left, right),
         cursor < l, l < MaxLine - 2, NEW c, c # NUL, NEW new, new[cursor] = c,
         \A i \in cursor + 1 .. l + 1 : new[i] = cmd[i - 1],
         \A i \in 0 .. MaxLine - 1 : ~ (i \in cursor .. l + 1) => new[i] = cmd[i]
  PROVE  Holds(new, l + 1, cursor + 1, Append(left, c), right)
<1> USE DEF Holds
<1>1. /\ IsSeq(Append(left, c)) /\ Len(Append(left, c)) = cursor + 1
      /\ \A i \in 1 .. cursor + 1 : Append(left, c)[i] = IF i = cursor + 1 THEN c ELSE left[i]
  BY AppendSeq
<1>2. l \in Nat /\ cursor \in Nat
  BY LineAssumption
<1>3. \A i \in 0 .. cursor : new[i] = Append(left, c)[i + 1] /\ new[i] # NUL
  <2> TAKE i \in 0 .. cursor
  <2>1. CASE i = cursor
    BY <1>1, <1>2, <2>1
  <2>2. CASE i # cursor
    <3>1. i \in 0 .. cursor - 1 /\ i \in 0 .. MaxLine - 1 /\ ~ (i \in cursor .. l + 1) /\ i \in 0 .. l - 1
      BY <1>2, <2>2, LineAssumption
    <3>2. Append(left, c)[i + 1] = left[i + 1]
      BY <1>1, <1>2, <3>1
    <3> QED
      BY <3>1, <3>2
  <2> QED
    BY <2>1, <2>2
<1>4. \A i \in cursor + 1 .. l : new[i] = right[i - (cursor + 1) + 1] /\ new[i] # NUL
  <2> TAKE i \in cursor + 1 .. l
  <2>1. i \in cursor + 1 .. l + 1 /\ i - 1 \in cursor .. l - 1 /\ i - 1 \in 0 .. l - 1
    BY <1>2
  <2>2. (i - 1) - cursor + 1 = i - (cursor + 1) + 1
    BY <1>2
  <2> QED
    BY <2>1, <2>2
<1>5. \A i \in l + 1 .. MaxLine - 1 : new[i] = NUL
  <2> TAKE i \in l + 1 .. MaxLine - 1
  <2>1. CASE i = l + 1
    BY <1>2, <2>1, LineAssumption
  <2>2. CASE i # l + 1
    BY <1>2, <2>2, LineAssumption
  <2> QED
    BY <2>1, <2>2
<1>6. \A i \in 0 .. l : new[i] # NUL
  <2> TAKE i \in 0 .. l
  <2>1. i \in 0 .. cursor \/ i \in cursor + 1 .. l
    BY <1>2
  <2> QED
    BY <1>3, <1>4, <2>1
<1>7. l + 1 \in 0 .. MaxLine - 1 /\ cursor + 1 \in 0 .. l + 1 /\ Len(right) = (l + 1) - (cursor + 1)
  BY <1>2, LineAssumption
<1> QED
  BY <1>1, <1>2, <1>3, <1>4, <1>5, <1>6, <1>7

LEMMA InsertKeeps ==
  ASSUME NEW line, LineInv(line), NEW c, c # NUL
  PROVE  LineInv(Insert(line, c)) /\ Insert(line, c).l # 0
<1> DEFINE cursor == line.cursor
           l == line.l
           cmd == line.cmd
           new == Insert(line, c)
<1>1. /\ LineType(line)
      /\ ~ line.garbled => Holds(cmd, l, cursor, line.left, line.right)
  BY DEF LineInv, Bond
<1>2. l \in Nat /\ cursor \in Nat /\ cursor <= l /\ DOMAIN cmd = 0 .. MaxLine - 1
  BY <1>1 DEF LineType, Buffer
<1>3. ~ line.garbled => l < MaxLine
  BY <1>1, LineAssumption DEF Holds
<1>4. CASE cursor = l
  <2> DEFINE place == IF cursor < MaxLine THEN cursor ELSE 0
  <2>1. CASE place < MaxLine - 1
    <3>1. new = [line EXCEPT !.cmd[place] = c, !.l = place + 1, !.cursor = place + 1, !.left = Append(@, c)]
      BY <1>4, <2>1 DEF Insert
    <3>2. /\ DOMAIN new = DOMAIN line /\ new.in_history = line.in_history
                 /\ new.cmd = [cmd EXCEPT ![place] = c] /\ new.l = place + 1 /\ new.cursor = place + 1
          /\ new.left = Append(line.left, c) /\ new.right = line.right /\ new.garbled = line.garbled
      BY <1>1, <3>1 DEF LineType
    <3>3. place \in 0 .. MaxLine - 2
      BY <1>2, <2>1, LineAssumption
    <3>4. Buffer(new.cmd) /\ new.cmd[place] = c /\ \A i \in 0 .. MaxLine - 1 : i # place => new.cmd[i] = cmd[i]
      BY <1>2, <3>2, <3>3, LineAssumption DEF Buffer
    <3>5. ~ line.garbled => place = l
      BY <1>3, <1>4
    <3>6. ~ line.garbled => Holds(new.cmd, place + 1, place + 1, Append(line.left, c), line.right)
      <4> SUFFICES ASSUME ~ line.garbled
          PROVE Holds(new.cmd, place + 1, place + 1, Append(line.left, c), line.right)
        OBVIOUS
      <4> HIDE DEF new, place, l, cursor, cmd
      <4>1. Holds(cmd, place, place, line.left, line.right) /\ place < MaxLine - 1
        BY <1>1, <1>4, <2>1, <3>5
      <4> QED
        BY <3>4, <4>1, AppendHolds
    <3> HIDE DEF new, place
    <3>7. LineInv(new)
      <4>1. ~ new.garbled => Holds(new.cmd, new.l, new.cursor, new.left, new.right)
        BY <3>2, <3>6
      <4>2. new.l \in Nat /\ new.cursor \in Nat /\ new.cursor <= new.l
        BY <3>2, <3>3
      <4> QED
        BY <1>1, <3>2, <3>4, <4>1, <4>2, BondKept
    <3> QED
      BY <3>2, <3>3, <3>7 DEF new
  <2>2. CASE ~ (place < MaxLine - 1)
    <3>1. new = [line EXCEPT !.cmd[MaxLine - 1] = NUL]
      BY <1>4, <2>2 DEF Insert
    <3>2. /\ DOMAIN new = DOMAIN line /\ new.in_history = line.in_history
                 /\ new.cmd = [cmd EXCEPT ![MaxLine - 1] = NUL] /\ new.l = l
          /\ new.cursor = cursor /\ new.left = line.left /\ new.right = line.right /\ new.garbled = line.garbled
      BY <1>1, <3>1 DEF LineType
    <3>3. cursor = MaxLine - 1 /\ l # 0
      BY <1>2, <1>4, <2>2, LineAssumption
    <3>4. Buffer(new.cmd) /\ \A i \in 0 .. MaxLine - 1 : new.cmd[i] = IF i = MaxLine - 1 THEN NUL ELSE cmd[i]
      BY <1>2, <3>2 DEF Buffer
    <3>5. ~ line.garbled => Holds(new.cmd, l, cursor, line.left, line.right)
      <4> HIDE DEF new, l, cursor, cmd
      <4> QED
        BY <1>1, <1>2, <1>4, <3>3, <3>4, LineAssumption DEF Holds
    <3> HIDE DEF new
    <3>6. LineInv(new)
      BY <1>1, <1>2, <3>2, <3>4, <3>5, BondKept
    <3> QED
      BY <3>2, <3>3, <3>6 DEF new
  <2> QED
    BY <2>1, <2>2
<1>5. CASE cursor # l
  <2> DEFINE m == IF l >= MaxLine - 2 THEN l - 1 ELSE l
             moved == [i \in 0 .. MaxLine - 1 |->
                         IF i = cursor THEN c ELSE IF i \in cursor + 1 .. m + 1 THEN cmd[i - 1] ELSE cmd[i]]
  <2>1. new = [line EXCEPT !.cmd = moved, !.l = m + 1, !.cursor = @ + 1, !.left = Append(@, c),
                           !.garbled = @ \/ l >= MaxLine - 2]
    BY <1>5 DEF Insert
  <2>2. /\ DOMAIN new = DOMAIN line /\ new.in_history = line.in_history /\ new.cmd = moved /\ new.l = m + 1
               /\ new.cursor = cursor + 1
        /\ new.left = Append(line.left, c) /\ new.right = line.right
        /\ ~ new.garbled => ~ line.garbled /\ ~ (l >= MaxLine - 2)
    BY <1>1, <2>1 DEF LineType
  <2>3. m + 1 \in Nat /\ cursor + 1 <= m + 1 /\ m + 1 # 0
    BY <1>2, <1>5, LineAssumption
  <2>4. Buffer(new.cmd)
    BY <2>2 DEF Buffer
  <2>5. ~ new.garbled => Holds(new.cmd, m + 1, cursor + 1, Append(line.left, c), line.right)
    <3> SUFFICES ASSUME ~ new.garbled PROVE Holds(new.cmd, m + 1, cursor + 1, Append(line.left, c), line.right)
      OBVIOUS
    <3>1. Holds(cmd, l, cursor, line.left, line.right) /\ l < MaxLine - 2 /\ m = l /\ cursor < l
      BY <1>1, <1>2, <1>5, <2>2, LineAssumption
    <3>2. /\ moved[cursor] = c /\ \A i \in cursor + 1 .. l + 1 : moved[i] = cmd[i - 1]
          /\ \A i \in 0 .. MaxLine - 1 : ~ (i \in cursor .. l + 1) => moved[i] = cmd[i]
      BY <1>2, <3>1, LineAssumption
    <3> HIDE DEF moved, m, new, l, cursor, cmd
    <3> QED
      BY <2>2, <3>1, <3>2, InsertHolds
  <2> HIDE DEF new, m, moved
  <2>6. LineInv(new)
    <3>1. ~ new.garbled => Holds(new.cmd, new.l, new.cursor, new.left, new.right)
      BY <2>2, <2>5
    <3>2. new.l \in Nat /\ new.cursor \in Nat /\ new.cursor <= new.l
      BY <1>2, <2>2, <2>3
    <3> QED
      BY <1>1, <2>2, <2>4, <3>1, <3>2, BondKept
  <2> QED
    BY <2>2, <2>3, <2>6 DEF new
<1> QED
  BY <1>4, <1>5

\* ^U, ^K and ^Z.
LEMMA ClearKeeps ==
  ASSUME NEW line, LineInv(line)
  PROVE  LineInv(ClearLine(line)) /\ LineInv(KillToEnd(line)) /\ LineInv(DropLine(line))
<1> DEFINE cursor == line.cursor
           l == line.l
           cmd == line.cmd
           Cut(from) == [i \in 0 .. MaxLine - 1 |-> IF from <= i /\ i < l THEN NUL ELSE cmd[i]]
<1>1. /\ LineType(line)
      /\ ~ line.garbled => Holds(cmd, l, cursor, line.left, line.right)
  BY DEF LineInv, Bond
<1>2. l \in Nat /\ cursor \in Nat /\ cursor <= l /\ DOMAIN cmd = 0 .. MaxLine - 1
  BY <1>1 DEF LineType, Buffer
<1>3. \A from : Buffer(Cut(from))
  BY DEF Buffer
<1>4. ~ line.garbled => Holds(Cut(0), 0, 0, <<>>, <<>>)
  <2> SUFFICES ASSUME Holds(cmd, l, cursor, line.left, line.right) PROVE Holds(Cut(0), 0, 0, <<>>, <<>>)
    BY <1>1
  <2>1. \A i \in 0 .. MaxLine - 1 : Cut(0)[i] = NUL
    BY <1>2 DEF Holds
  <2> HIDE DEF Cut
  <2> QED
    BY <2>1, EmptyIsSeq, LineAssumption DEF Holds
<1>5. ~ line.garbled => Holds(Cut(cursor), cursor, cursor, line.left, <<>>)
  <2> SUFFICES ASSUME Holds(cmd, l, cursor, line.left, line.right)
               PROVE  Holds(Cut(cursor), cursor, cursor, line.left, <<>>)
    BY <1>1
  <2>1. \A i \in 0 .. MaxLine - 1 : Cut(cursor)[i] = IF i < cursor THEN cmd[i] ELSE NUL
    BY <1>2, LineAssumption DEF Holds
  <2> HIDE DEF Cut, cmd, l, cursor
  <2> QED
    BY <1>2, <2>1, EmptyIsSeq, LineAssumption DEF Holds
<1>6. ~ line.garbled /\ ~ (l > 0) => Holds(Cut(0), l, cursor, line.left, line.right)
  BY <1>1, LineAssumption DEF Holds
<1>7. LineInv(ClearLine(line))
  <2> DEFINE new == ClearLine(line)
  <2>1. /\ DOMAIN new = DOMAIN line /\ new.in_history = line.in_history /\ new.cmd = Cut(0) /\ new.l = 0
               /\ new.cursor = 0
        /\ new.left = <<>> /\ new.right = <<>> /\ new.garbled = line.garbled
    BY <1>1 DEF ClearLine, Without, LineType
  <2> HIDE DEF new, Cut
  <2> QED
    BY <1>1, <1>3, <1>4, <2>1, BondKept DEF new
<1>8. LineInv(KillToEnd(line))
  <2> DEFINE new == KillToEnd(line)
  <2>1. /\ DOMAIN new = DOMAIN line /\ new.in_history = line.in_history /\ new.cmd = Cut(cursor)
               /\ new.l = cursor /\ new.cursor = cursor
        /\ new.left = line.left /\ new.right = <<>> /\ new.garbled = line.garbled
    BY <1>1 DEF KillToEnd, Without, LineType
  <2> HIDE DEF new, Cut
  <2> QED
    BY <1>1, <1>2, <1>3, <1>5, <2>1, BondKept DEF new
<1>9. LineInv(DropLine(line))
  <2> DEFINE new == DropLine(line)
  <2>1. /\ DOMAIN new = DOMAIN line /\ new.in_history = line.in_history /\ new.cmd = Cut(0) /\ new.l = l
               /\ new.cursor = cursor
        /\ new.left = line.left /\ new.right = line.right
        /\ ~ new.garbled => ~ line.garbled /\ ~ (l > 0)
    BY <1>1 DEF DropLine, Without, LineType
  <2> HIDE DEF new, Cut
  <2>2. ~ new.garbled => Holds(new.cmd, new.l, new.cursor, new.left, new.right)
    BY <1>6, <2>1
  <2>3. new.l \in Nat /\ new.cursor \in Nat /\ new.cursor <= new.l
    BY <1>2, <2>1
  <2> QED
    BY <1>1, <1>3, <2>1, <2>2, <2>3, BondKept DEF new
<1> QED
  BY <1>7, <1>8, <1>9

\* The cursor.
LEMMA MoveHolds ==
  ASSUME NEW cmd, NEW l, NEW cursor, NEW left, NEW right, Holds(cmd, l, cursor, left, right), NEW to \in 0 .. l
  PROVE  /\ Len(left \o right) = l
         /\ Holds(cmd, l, to, SubSeq(left \o right, 1, to), SubSeq(left \o right, to + 1, l))
<1> DEFINE text == left \o right
           a == SubSeq(text, 1, to)
           b == SubSeq(text, to + 1, l)
<1>1. l \in Nat /\ cursor \in Nat /\ cursor <= l /\ Len(left) = cursor /\ Len(right) = l - cursor
          /\ IsSeq(left) /\ IsSeq(right)
  BY LineAssumption DEF Holds
<1>2. /\ IsSeq(text) /\ Len(text) = l
      /\ \A i \in 1 .. l : text[i] = IF i <= cursor THEN left[i] ELSE right[i - cursor]
  <2>1. /\ IsSeq(text) /\ Len(text) = Len(left) + Len(right)
        /\ \A i \in 1 .. Len(left) + Len(right) :
              text[i] = IF i <= Len(left) THEN left[i] ELSE right[i - Len(left)]
    BY <1>1, ConcatSeq
  <2>2. Len(left) + Len(right) = l
    BY <1>1
  <2> QED
    BY <1>1, <2>1, <2>2
<1>3. \A i \in 0 .. l - 1 : cmd[i] = text[i + 1]
  BY <1>1, <1>2 DEF Holds
<1> HIDE DEF text
<1>4. IsSeq(a) /\ Len(a) = to /\ \A i \in 1 .. to : a[i] = text[i]
  BY <1>1, <1>2, PartSeq
<1>5. IsSeq(b) /\ Len(b) = l - to /\ \A i \in 1 .. l - to : b[i] = text[to + i]
  BY <1>1, <1>2, PartSeq
<1> HIDE DEF a, b
<1>6. Holds(cmd, l, to, a, b)
  BY <1>1, <1>3, <1>4, <1>5, LineAssumption DEF Holds
<1> QED
  BY <1>2, <1>6 DEF a, b, text

LEMMA MoveToKeeps ==
  ASSUME NEW line, LineInv(line), NEW to \in 0 .. line.l
  PROVE  LineInv(MoveTo(line, to))
<1> DEFINE text == line.left \o line.right
           k == IF to <= Len(text) THEN to ELSE Len(text)
           new == MoveTo(line, to)
<1>1. LineType(line)
  BY DEF LineInv
<1>2. /\ DOMAIN new = DOMAIN line /\ new.in_history = line.in_history /\ new.cmd = line.cmd /\ new.l = line.l
             /\ new.cursor = to
      /\ new.left = SubSeq(text, 1, k) /\ new.right = SubSeq(text, k + 1, Len(text))
             /\ new.garbled = line.garbled
  BY <1>1 DEF MoveTo, LineType
<1>3. line.l \in Nat /\ Buffer(line.cmd)
  BY <1>1 DEF LineType
<1> HIDE DEF new
<1>4. ASSUME ~ line.garbled PROVE Holds(new.cmd, new.l, new.cursor, new.left, new.right)
  <2>1. /\ Len(text) = line.l
        /\ Holds(line.cmd, line.l, to, SubSeq(text, 1, to), SubSeq(text, to + 1, line.l))
    BY <1>4, MoveHolds DEF LineInv, Bond
  <2> HIDE DEF text
  <2>2. k = to
    BY <1>3, <2>1
  <2> HIDE DEF k
  <2> QED
    BY <1>2, <2>1, <2>2
<1> HIDE DEF text, k
<1>5. ~ new.garbled => Holds(new.cmd, new.l, new.cursor, new.left, new.right)
  BY <1>2, <1>4
<1>6. new.l \in Nat /\ new.cursor \in Nat /\ new.cursor <= new.l /\ Buffer(new.cmd)
  BY <1>2, <1>3
<1>7. LineInv(new)
  BY <1>1, <1>2, <1>5, <1>6, BondKept
<1> QED
  BY <1>7 DEF new

\* ^W: no more than there is before the cursor.
LEMMA WordBackWithin ==
  ASSUME NEW line, line.cursor \in Nat
  PROVE  WordBack(line) \in 0 .. line.cursor
<1> DEFINE text == {i \in 1 .. line.cursor : line.cmd[i - 1] # SP} \union {0}
           last == Max(text)
           spaces == {i \in 1 .. last : line.cmd[i - 1] = SP} \union {0}
           start == Max(spaces)
<1>1. WordBack(line) = line.cursor - start
  BY Zenon DEF WordBack
<1>2. last \in 0 .. line.cursor
  <2>1. text \subseteq 0 .. line.cursor /\ text # {}
    OBVIOUS
  <2> HIDE DEF text
  <2>2. Max(text) \in text
    BY <2>1, GreatestNatural
  <2> QED
    BY <2>1, <2>2
<1> HIDE DEF last
<1>3. start \in 0 .. last
  <2>1. spaces \subseteq 0 .. last /\ spaces # {} /\ last \in Nat
    BY <1>2
  <2> HIDE DEF spaces
  <2>2. Max(spaces) \in spaces
    BY <2>1, GreatestNatural
  <2> QED
    BY <2>1, <2>2
<1> HIDE DEF start
<1> QED
  BY <1>1, <1>2, <1>3

\* Backspaces, one after the other.
Erasing(line, n, g) == g = [k \in 0 .. n |-> IF k = 0 THEN line ELSE EraseOne(g[k - 1])]

\* They have an outcome, by the least number that has none.
LEMMA ErasingExists ==
  ASSUME NEW line, NEW n \in Nat
  PROVE  \E g : Erasing(line, n, g)
<1> DEFINE bad == {m \in Nat : ~ \E g : Erasing(line, m, g)}
<1>1. ASSUME bad # {} PROVE FALSE
  <2>1. PICK m \in bad : \A k \in bad : m =< k
    BY <1>1, LeastNatural
  <2>2. CASE m = 0
    <3> DEFINE g == [k \in 0 .. 0 |-> line]
    <3>1. Erasing(line, 0, g)
      BY DEF Erasing
    <3> QED
      BY <2>1, <2>2, <3>1
  <2>3. CASE m # 0
    <3>1. m - 1 \in Nat /\ m - 1 \notin bad
      BY <2>1, <2>3
    <3>2. PICK g : Erasing(line, m - 1, g)
      BY <3>1
    <3> DEFINE h == [k \in 0 .. m |-> IF k < m THEN g[k] ELSE EraseOne(g[k - 1])]
    <3>3. \A k \in 0 .. m - 1 : g[k] = IF k = 0 THEN line ELSE EraseOne(g[k - 1])
      BY <3>1, <3>2 DEF Erasing
    <3>4. \A k \in 0 .. m : h[k] = IF k = 0 THEN line ELSE EraseOne(h[k - 1])
      <4> TAKE k \in 0 .. m
      <4>1. CASE k = 0
        BY <2>1, <2>3, <3>1, <3>3, <4>1
      <4>2. CASE k # 0
        <5>1. k - 1 \in 0 .. m /\ k - 1 < m /\ h[k - 1] = g[k - 1]
          BY <2>1, <4>2
        <5>2. CASE k < m
          <6>1. k \in 0 .. m - 1 /\ h[k] = g[k]
            BY <2>1, <5>2
          <6> QED
            BY <3>3, <4>2, <5>1, <6>1
        <5>3. CASE k = m
          BY <4>2, <5>1, <5>3
        <5> QED
          BY <2>1, <5>2, <5>3
      <4> QED
        BY <4>1, <4>2
    <3>5. h = [k \in 0 .. m |-> h[k]]
      OBVIOUS
    <3> HIDE DEF h
    <3>6. Erasing(line, m, h)
      BY <3>4, <3>5 DEF Erasing
    <3> QED
      BY <2>1, <3>6
  <2> QED
    BY <2>2, <2>3
<1> QED
  BY <1>1

\* No more of them than there are characters before the cursor.
LEMMA EraseKeeps ==
  ASSUME NEW line, LineInv(line), NEW n \in 0 .. line.cursor
  PROVE  LineInv(Erase(line, n))
<1>1. line.cursor \in Nat /\ n \in Nat
  BY DEF LineInv, LineType
<1> DEFINE erased == CHOOSE g : Erasing(line, n, g)
<1>2. Erasing(line, n, erased)
  BY <1>1, ErasingExists
<1>3. Erase(line, n) = erased[n]
  BY DEF Erase, Erasing
<1> HIDE DEF erased
<1>4. \A k \in 0 .. n : erased[k] = IF k = 0 THEN line ELSE EraseOne(erased[k - 1])
  BY <1>2 DEF Erasing
<1> DEFINE bad == {k \in 0 .. n : ~ (LineInv(erased[k]) /\ erased[k].cursor = line.cursor - k)}
<1>5. ASSUME bad # {} PROVE FALSE
  <2>1. PICK k \in bad : \A j \in bad : k =< j
    <3>1. bad \subseteq Nat
      BY <1>1
    <3> QED
      BY <1>5, <3>1, LeastNatural
  <2>2. k # 0
    BY <1>1, <1>4, <2>1
  <2>3. k - 1 \in 0 .. n /\ k - 1 \notin bad
    BY <1>1, <2>1, <2>2
  <2>4. LineInv(erased[k - 1]) /\ erased[k - 1].cursor = line.cursor - (k - 1)
    BY <2>3
  <2>5. erased[k - 1].cursor # 0
    BY <1>1, <2>1, <2>4
  <2>6. LineInv(EraseOne(erased[k - 1])) /\ EraseOne(erased[k - 1]).cursor = erased[k - 1].cursor - 1
    BY <2>4, <2>5, EraseOneKeeps
  <2>7. erased[k] = EraseOne(erased[k - 1])
    BY <1>4, <2>1, <2>2
  <2> QED
    BY <1>1, <2>1, <2>4, <2>6, <2>7
<1> QED
  BY <1>1, <1>3, <1>5
-----------------------------------------------------------------------------
\* The string of a line that holds its text is the text.
LEMMA StringHolds ==
  ASSUME NEW cmd, NEW l, NEW cursor, NEW left, NEW right, Holds(cmd, l, cursor, left, right)
  PROVE  String(cmd) = [i \in 1 .. l |-> cmd[i - 1]] /\ String(cmd) = left \o right
<1> DEFINE ends == {i \in 0 .. MaxLine - 1 : cmd[i] = NUL} \union {MaxLine}
           s == String(cmd)
           text == left \o right
<1>1. l \in Nat /\ l < MaxLine /\ cursor \in 0 .. l /\ Len(left) = cursor /\ Len(right) = l - cursor
  BY LineAssumption DEF Holds
<1>2. l \in ends /\ \A i \in ends : l <= i
  <2>1. l \in ends
    BY <1>1, LineAssumption DEF Holds
  <2>2. \A i \in ends : i \in Nat /\ ~ (i < l)
    <3> TAKE i \in ends
    <3>1. i \in 0 .. MaxLine
      BY LineAssumption
    <3>2. i < l => cmd[i] = NUL
      BY <1>1, <3>1, LineAssumption
    <3> QED
      BY <1>1, <3>1, <3>2, LineAssumption DEF Holds
  <2> QED
    BY <1>1, <2>1, <2>2
<1>3. Min(ends) = l
  <2>1. ends \subseteq Nat
    BY LineAssumption
  <2> HIDE DEF ends
  <2>2. \A x \in ends : (\A y \in ends : x =< y) => x = l
    BY <1>1, <1>2, <2>1
  <2>3. \E x \in ends : \A y \in ends : x =< y
    BY <1>2
  <2> QED
    BY <2>2, <2>3 DEF Min
<1>4. s = [i \in 1 .. Min(ends) |-> cmd[i - 1]]
  BY DEF String
<1> HIDE DEF ends, s
<1>5. s = [i \in 1 .. l |-> cmd[i - 1]]
  BY <1>3, <1>4
<1>6. IsSeq(text) /\ Len(text) = l
          /\ \A i \in 1 .. l : text[i] = IF i <= cursor THEN left[i] ELSE right[i - cursor]
  <2>1. IsSeq(left) /\ IsSeq(right)
    BY DEF Holds
  <2>2. /\ IsSeq(text) /\ Len(text) = Len(left) + Len(right)
        /\ \A i \in 1 .. Len(left) + Len(right) :
              text[i] = IF i <= Len(left) THEN left[i] ELSE right[i - Len(left)]
    BY <2>1, ConcatSeq
  <2>3. Len(left) + Len(right) = l
    BY <1>1
  <2> QED
    BY <1>1, <2>2, <2>3
<1>7. text = [i \in 1 .. l |-> text[i]]
  BY <1>6, SeqIsFunction
<1>8. \A i \in 1 .. l : cmd[i - 1] = text[i]
  <2> TAKE i \in 1 .. l
  <2>1. CASE i <= cursor
    <3>1. i - 1 \in 0 .. cursor - 1 /\ (i - 1) + 1 = i
      BY <1>1, <2>1
    <3> HIDE DEF text
    <3> QED
      BY <1>6, <2>1, <3>1 DEF Holds
  <2>2. CASE ~ (i <= cursor)
    <3>1. i - 1 \in cursor .. l - 1 /\ (i - 1) - cursor + 1 = i - cursor
      BY <1>1, <2>2
    <3> HIDE DEF text
    <3> QED
      BY <1>6, <2>2, <3>1 DEF Holds
  <2> QED
    BY <2>1, <2>2
<1> HIDE DEF text
<1>9. s = text
  BY <1>5, <1>7, <1>8
<1> QED
  BY <1>5, <1>9 DEF s, text

\* The last of the words of a line begins behind its last space.
LEMMA LastWord ==
  ASSUME NEW s, NEW l \in Nat \ {0}, s = [i \in 1 .. l |-> s[i]], s[l] # SP,
         NEW start \in 0 .. l - 1, start > 0 => s[start] = SP, \A i \in start + 1 .. l : s[i] # SP
  PROVE  /\ Len(Words(s)) \in Nat \ {0} /\ IsSeq(Words(s))
         /\ Len(Words(s)[Len(Words(s))]) = l - start
<1> DEFINE starts == {i \in DOMAIN s : s[i] # SP /\ (i > 1 => s[i - 1] = SP)}
           Stretch(i) == {j \in i .. Len(s) : \A k \in i .. j : s[k] # SP}
           WordAt(i) == SubSeq(s, i, Max(Stretch(i)))
           Nth(n) == CHOOSE i \in starts : Cardinality({j \in starts : j <= i}) = n
           n == Cardinality(starts)
           words == Words(s)
<1>1. words = [k \in 1 .. n |-> WordAt(Nth(k))]
  BY Zenon DEF Words
<1>2. s[l] # SP /\ (start > 0 => s[start] = SP) /\ \A i \in start + 1 .. l : s[i] # SP
  OBVIOUS
<1> HIDE DEF words
<1>3. DOMAIN s = 1 .. l /\ IsSeq(s) /\ Len(s) = l
  BY MakesSeq
<1> DEFINE f == start + 1
<1>a. f \in Nat /\ f # 0 /\ f <= l /\ l \in Nat /\ f - 1 = start /\ start \in Nat
  OBVIOUS
<1>4. f \in starts /\ \A i \in starts : i \in 1 .. l /\ i <= f
  <2>1. f \in DOMAIN s /\ s[f] # SP
    BY <1>2, <1>3, <1>a
  <2>2. f > 1 => s[f - 1] = SP
    BY <1>2, <1>a
  <2>3. f \in starts
    BY <2>1, <2>2
  <2>4. ASSUME NEW i \in starts PROVE i \in 1 .. l /\ i <= f
    <3>1. i \in 1 .. l /\ (i > 1 => s[i - 1] = SP)
      BY <1>3
    <3>2. i > f => i - 1 \in f .. l /\ i > 1
      BY <1>a, <3>1
    <3> QED
      BY <1>2, <1>a, <3>1, <3>2
  <2> QED
    BY <2>3, <2>4
<1> HIDE DEF f
<1>5. IsFiniteSet(starts) /\ n \in Nat /\ n # 0
  <2>1. starts \subseteq 1 .. l
    BY <1>3
  <2> HIDE DEF starts
  <2>2. IsFiniteSet(starts)
    <3>1. 1 \in Int /\ l \in Int /\ starts \in SUBSET (1 .. l)
      BY <2>1
    <3>2. IsFiniteSet(1 .. l)
      BY <3>1, FS_Interval
    <3> QED
      BY <3>1, <3>2, FS_Subset
  <2>3. n \in Nat /\ (n = 0 => starts = {})
    BY <2>2, FS_CardinalityType, FS_EmptySet
  <2> QED
    BY <1>4, <2>2, <2>3
<1>6. Nth(n) = f
  <2>1. {j \in starts : j <= f} = starts
    BY <1>4
  <2>2. \A i \in starts : Cardinality({j \in starts : j <= i}) = n => i = f
    <3> SUFFICES ASSUME NEW i \in starts, Cardinality({j \in starts : j <= i}) = n PROVE i = f
      OBVIOUS
    <3> DEFINE T == {j \in starts : j <= i}
    <3>1. i \in 1 .. l
      BY <1>4
    <3> HIDE DEF starts
    <3>2. T \in SUBSET starts
      OBVIOUS
    <3>3. T = starts
      <4> HIDE DEF T
      <4>1. Cardinality(starts) = Cardinality(T)
        BY DEF T
      <4> QED
        BY <1>5, <3>2, <4>1, FS_Subset
    <3>4. f <= i /\ i <= f
      BY <1>4, <3>3
    <3> QED
      BY <1>4, <3>1, <3>4
  <2> HIDE DEF starts, f
  <2>3. f \in starts /\ Cardinality({j \in starts : j <= f}) = n
    BY <1>4, <2>1
  <2> QED
    BY <2>2, <2>3
<1>7. Max(Stretch(f)) = l
  <2> DEFINE ends == Stretch(f)
  <2>1. l \in ends /\ ends \subseteq 0 .. l /\ \A j \in ends : j <= l
    <3>1. \A j \in f .. l : s[j] # SP
      BY <1>2 DEF f
    <3> QED
      BY <1>3, <1>a, <3>1
  <2> HIDE DEF ends
  <2>2. \A x \in ends : (\A y \in ends : x >= y) => x = l
    BY <2>1
  <2>3. l \in ends /\ \A y \in ends : l >= y
    BY <2>1
  <2>4. Max(ends) = l
    BY <2>2, <2>3 DEF Max
  <2> QED
    BY <2>4 DEF ends
<1>8. WordAt(f) = SubSeq(s, f, l)
  BY <1>7
<1> HIDE DEF WordAt, Nth, starts, n
<1>9. words[n] = SubSeq(s, f, l)
  BY <1>1, <1>5, <1>6, <1>8
<1>10. Len(SubSeq(s, f, l)) = l - start
  <2>1. f \in Nat \ {0} /\ f <= l
    BY <1>a
  <2>2. Len(SubSeq(s, f, l)) = IF f <= l THEN l - f + 1 ELSE 0
    BY <1>3, <2>1, PartSeq
  <2>3. l - f + 1 = l - start
    BY <1>a
  <2> QED
    BY <2>1, <2>2, <2>3
<1>11. IsSeq(words) /\ Len(words) = n
  <2>1. words = [k \in 1 .. n |-> words[k]]
    BY <1>1
  <2> QED
    BY <1>5, <2>1, MakesSeq
<1> QED
  BY <1>5, <1>9, <1>10, <1>11 DEF words

\* The words of a line are a sequence.
LEMMA WordsSeq ==
  ASSUME NEW s, IsFiniteSet(DOMAIN s)
  PROVE  IsSeq(Words(s)) /\ Len(Words(s)) \in Nat
<1> DEFINE starts == {i \in DOMAIN s : s[i] # SP /\ (i > 1 => s[i - 1] = SP)}
           WordAt(i) == SubSeq(s, i, Max({j \in i .. Len(s) : \A k \in i .. j : s[k] # SP}))
           Nth(n) == CHOOSE i \in starts : Cardinality({j \in starts : j <= i}) = n
           word(n) == WordAt(Nth(n))
           words == Words(s)
<1>1. Cardinality(starts) \in Nat
  BY FS_Subset, FS_CardinalityType
<1>2. words = [n \in 1 .. Cardinality(starts) |-> word(n)]
  BY Zenon DEF Words
<1> HIDE DEF starts, word, words
<1>3. words = [n \in 1 .. Cardinality(starts) |-> words[n]]
  BY <1>2
<1> QED
  BY <1>1, <1>3, MakesSeq DEF words

\* TAB in a line that holds its text: the word to complete begins behind its last
\* space.
LEMMA WordToComplete ==
  ASSUME NEW cmd, NEW l, NEW left, NEW right, Holds(cmd, l, l, left, right)
  PROVE  LET words == WordsToComplete(String(cmd))
             start == Max({i \in 1 .. l : cmd[i - 1] = SP} \union {0})
         IN  Len(words) \in Nat \ {0} /\ start \in 0 .. l /\ Len(words[Len(words)]) = l - start
<1> DEFINE s == String(cmd)
           spaces == {i \in 1 .. l : cmd[i - 1] = SP} \union {0}
           start == Max(spaces)
           words == WordsToComplete(s)
           before == Words(s)
<1>1. l \in Nat
  BY LineAssumption DEF Holds
<1>2. s = [i \in 1 .. l |-> cmd[i - 1]]
  BY StringHolds
<1> HIDE DEF s
<1>3. s = [i \in 1 .. l |-> s[i]] /\ \A i \in 1 .. l : s[i] = cmd[i - 1]
  BY <1>2
<1>4. IsSeq(s) /\ Len(s) = l
  BY <1>1, <1>3, MakesSeq
<1>5. start \in spaces /\ \A y \in spaces : y <= start
  <2>1. spaces \subseteq 0 .. l /\ spaces # {}
    BY <1>1
  <2> HIDE DEF spaces
  <2> QED
    BY <1>1, <2>1, GreatestNatural
<1> HIDE DEF start
<1>6. /\ start \in 0 .. l
      /\ start > 0 => s[start] = SP
      /\ \A i \in start + 1 .. l : s[i] # SP
  <2>1. start \in 0 .. l /\ (start > 0 => cmd[start - 1] = SP)
    BY <1>1, <1>5
  <2>2. \A i \in 1 .. l : cmd[i - 1] = SP => i <= start
    BY <1>5
  <2> HIDE DEF spaces
  <2>3. start > 0 => start \in 1 .. l
    BY <1>1, <2>1
  <2>4. ASSUME NEW i \in start + 1 .. l PROVE s[i] # SP
    <3>1. i \in 1 .. l /\ ~ (i <= start)
      BY <1>1, <2>1
    <3> QED
      BY <1>3, <2>2, <3>1
  <2> QED
    BY <1>3, <2>1, <2>3, <2>4
<1> HIDE DEF spaces
<1>7. IsSeq(before) /\ Len(before) \in Nat
  <2>1. IsFiniteSet(DOMAIN s)
    <3>1. DOMAIN s = 1 .. l /\ 1 \in Int /\ l \in Int
      BY <1>1, <1>3
    <3> QED
      BY <3>1, FS_Interval
  <2> QED
    BY <2>1, WordsSeq
<1>8. CASE s = <<>> \/ Last(s) = SP
  <2>1. words = Append(before, <<>>)
    BY <1>8 DEF WordsToComplete
  <2> HIDE DEF before
  <2>2. /\ Len(words) = Len(before) + 1
        /\ \A i \in 1 .. Len(before) + 1 : words[i] = IF i = Len(before) + 1 THEN <<>> ELSE before[i]
    BY <1>7, <2>1, AppendSeq
  <2> HIDE DEF words
  <2>3. Len(before) + 1 \in 1 .. Len(before) + 1 /\ Len(before) + 1 \in Nat \ {0}
    BY <1>7
  <2>4. words[Len(words)] = <<>>
    BY <2>2, <2>3
  <2>5. l = start
    <3>1. CASE s = <<>>
      <4>1. l = 0
        BY <1>4, <3>1, EmptyIsSeq
      <4> QED
        BY <1>6, <4>1
    <3>2. CASE s # <<>> /\ Last(s) = SP
      <4>1. s[l] = SP
        BY <1>4, <3>2 DEF Last
      <4> QED
        BY <1>1, <1>6, <4>1
    <3> QED
      BY <1>8, <3>1, <3>2
  <2> QED
    BY <1>1, <1>6, <2>2, <2>3, <2>4, <2>5, EmptyIsSeq DEF words, s, start, spaces
<1>9. CASE ~ (s = <<>> \/ Last(s) = SP)
  <2>1. words = before
    BY <1>9 DEF WordsToComplete
  <2>2. l # 0
    <3>1. l = 0 => s = <<>>
      BY <1>3
    <3> QED
      BY <1>9, <3>1
  <2>3. s[l] # SP
    BY <1>4, <1>9 DEF Last
  <2>4. l \in Nat \ {0} /\ start \in 0 .. l - 1
    BY <1>1, <1>6, <2>2, <2>3
  <2> HIDE DEF words, before
  <2>5. Len(Words(s)) \in Nat \ {0} /\ Len(Words(s)[Len(Words(s))]) = l - start
    BY <1>3, <1>6, <2>3, <2>4, LastWord
  <2>6. Len(words) \in Nat \ {0} /\ Len(words[Len(words)]) = l - start
    BY <2>1, <2>5 DEF before
  <2> QED
    BY <1>6, <2>6 DEF words, s, start, spaces
<1> QED
  BY <1>8, <1>9

\* What completes a line begins with its last word.
LEMMA CompletionsBegin ==
  ASSUME NEW words, NEW vty, NEW c \in Completions(words, vty)
  PROVE  Len(words) # 0 /\ c \in DOMAIN Tree /\ Begins(words[Len(words)], c)
  BY Zenon DEF Completions, Children

LEMMA SpaceIsText == SP # NUL
  BY Zenon DEF SP, NUL

\* A completion that fits: the text up to the last space, the name and a space.
LEMMA CompleteHolds ==
  ASSUME NEW cmd, NEW l, NEW left, NEW right, Holds(cmd, l, l, left, right),
         NEW name \in Seq(Chars), NEW start \in 0 .. l, l - start <= Len(name), start + Len(name) + 1 < MaxLine,
         NEW new,
         \A i \in 0 .. start - 1 : new[i] = cmd[i],
         \A i \in start .. start + Len(name) - 1 : new[i] = name[i - start + 1],
         new[start + Len(name)] = SP,
         \A i \in start + Len(name) + 1 .. MaxLine - 1 : new[i] = cmd[i]
  PROVE  Holds(new, start + Len(name) + 1, start + Len(name) + 1,
               SubSeq(left, 1, start) \o name \o <<SP>>, right)
<1> DEFINE n == Len(name)
           end == start + n
           front == SubSeq(left, 1, start)
           text == front \o name
           whole == text \o <<SP>>
<1>1. n \in Nat /\ IsSeq(name) /\ \A i \in 1 .. n : name[i] # NUL
  BY DEF IsSeq, Chars
<1> HIDE DEF n
<1>2. l \in Nat /\ start \in Nat /\ start <= l /\ l - start <= n /\ end + 1 < MaxLine
  BY LineAssumption DEF Holds, n
<1>3. IsSeq(left) /\ Len(left) = l
  BY DEF Holds
<1>4. IsSeq(front) /\ Len(front) = start /\ \A i \in 1 .. start : front[i] = left[i]
  BY <1>2, <1>3, PartSeq
<1> HIDE DEF front
<1>5. /\ IsSeq(text) /\ Len(text) = end
      /\ \A i \in 1 .. end : text[i] = IF i <= start THEN front[i] ELSE name[i - start]
  <2>1. /\ IsSeq(text) /\ Len(text) = Len(front) + Len(name)
        /\ \A i \in 1 .. Len(front) + Len(name) :
              text[i] = IF i <= Len(front) THEN front[i] ELSE name[i - Len(front)]
    <3>1. IsSeq(name) /\ IsSeq(front)
      BY <1>1, <1>4
    <3> HIDE <1>1, <1>4
    <3> QED
      BY <3>1, ConcatSeq
  <2>2. Len(front) + Len(name) = end
    BY <1>4 DEF n
  <2> QED
    BY <1>4, <2>1, <2>2
<1> HIDE DEF text
<1>6. IsSeq(<<SP>>) /\ Len(<<SP>>) = 1 /\ <<SP>>[1] = SP
  <2>1. <<SP>> \in Seq({SP})
    OBVIOUS
  <2> QED
    BY <2>1 DEF IsSeq
<1>7. /\ IsSeq(whole) /\ Len(whole) = end + 1
      /\ \A i \in 1 .. end + 1 : whole[i] = IF i <= end THEN text[i] ELSE <<SP>>[i - end]
  <2>1. /\ IsSeq(whole) /\ Len(whole) = Len(text) + Len(<<SP>>)
        /\ \A i \in 1 .. Len(text) + Len(<<SP>>) :
              whole[i] = IF i <= Len(text) THEN text[i] ELSE <<SP>>[i - Len(text)]
    BY <1>5, <1>6, ConcatSeq
  <2> HIDE DEF whole, end
  <2> QED
    BY <1>5, <1>6, <2>1
<1> HIDE DEF whole
<1>8. \A i \in 0 .. end : new[i] = whole[i + 1] /\ new[i] # NUL
  <2> TAKE i \in 0 .. end
  <2>1. CASE i < start
    <3>1. i \in 0 .. start - 1 /\ i + 1 \in 1 .. start /\ i + 1 <= start /\ i + 1 <= end /\ i + 1 \in 1 .. end
          /\ i \in 0 .. l - 1 /\ i + 1 \in 1 .. end + 1
      BY <1>1, <1>2, <2>1
    <3>2. whole[i + 1] = left[i + 1] /\ new[i] = cmd[i]
      BY <1>4, <1>5, <1>7, <3>1
    <3> QED
      BY <3>1, <3>2 DEF Holds
  <2>2. CASE start <= i /\ i < end
    <3>1. /\ i + 1 \in 1 .. end /\ i + 1 \in 1 .. end + 1 /\ i + 1 <= end /\ ~ (i + 1 <= start)
          /\ i + 1 - start \in 1 .. n /\ i - start + 1 = i + 1 - start
      BY <1>1, <1>2, <2>2
    <3>2. whole[i + 1] = name[i + 1 - start]
      BY <1>5, <1>7, <3>1
    <3>3. new[i] = name[i - start + 1]
      BY <1>1, <1>2, <2>2 DEF n
    <3> QED
      BY <1>1, <3>1, <3>2, <3>3
  <2>3. CASE i = end
    <3>1. end + 1 \in 1 .. end + 1 /\ ~ (end + 1 <= end) /\ (end + 1) - end = 1
      BY <1>1, <1>2
    <3>2. whole[end + 1] = <<SP>>[1]
      BY <1>7, <3>1
    <3>3. new[end] = SP
      BY DEF n
    <3> QED
      BY <1>6, <2>3, <3>2, <3>3, SpaceIsText
  <2>4. i \in Int /\ end \in Int /\ start \in Int /\ i <= end
    BY <1>1, <1>2
  <2>5. i < start \/ (start <= i /\ i < end) \/ i = end
    <3> HIDE DEF end
    <3> QED
      BY <2>4
  <2> QED
    BY <2>1, <2>2, <2>3, <2>5
<1>9. \A i \in end + 1 .. MaxLine - 1 : new[i] = NUL
  <2> TAKE i \in end + 1 .. MaxLine - 1
  <2>1. i \in l .. MaxLine - 1
    BY <1>1, <1>2, LineAssumption
  <2>2. new[i] = cmd[i]
    BY DEF n
  <2> QED
    BY <2>1, <2>2 DEF Holds
<1>10. IsSeq(right) /\ Len(right) = 0
  BY <1>2 DEF Holds
<1>11. Holds(new, end + 1, end + 1, whole, right)
  <2>1. end \in Nat /\ end + 1 \in 0 .. MaxLine - 1 /\ end + 1 \in 0 .. end + 1 /\ end + 1 - 1 = end
            /\ (end + 1) - (end + 1) = 0
        /\ end + 1 .. end = {}
    BY <1>1, <1>2, LineAssumption
  <2> HIDE DEF end
  <2>2. \A i \in 0 .. (end + 1) - 1 : new[i] # NUL /\ new[i] = whole[i + 1]
    BY <1>8, <2>1
  <2>3. \A i \in end + 1 .. (end + 1) - 1 : new[i] = right[i - (end + 1) + 1]
    BY <2>1
  <2> QED
    BY <1>7, <1>9, <1>10, <2>1, <2>2, <2>3 DEF Holds
<1> QED
  BY <1>11 DEF whole, text, front, n

\* TAB: the name is no shorter than the word it replaces, so that nothing of the
\* word is left behind it.
LEMMA CompleteKeeps ==
  ASSUME NEW line, LineInv(line), NEW vty
  PROVE  LineInv(Complete(line, vty))
<1> DEFINE s == String(line.cmd)
           words == WordsToComplete(s)
           commands == Completions(words, vty)
           new == Complete(line, vty)
           l == line.l
           cmd == line.cmd
           name == Tree[CHOOSE c \in commands : TRUE].name
           spaces == {i \in 1 .. l : cmd[i - 1] = SP} \union {0}
           start == Max(spaces)
           end == start + Len(name)
           completed == [i \in 0 .. MaxLine - 1 |->
                           IF i < start THEN cmd[i] ELSE IF i < end THEN name[i - start + 1]
                           ELSE IF i = end THEN SP ELSE cmd[i]]
<1>1. LineType(line) /\ l \in Nat
  BY DEF LineInv, LineType
<1>2. new = IF line.cursor # l \/ Cardinality(commands) # 1 THEN line
            ELSE [line EXCEPT
                    !.cmd = completed, !.l = end + 1, !.cursor = end + 1,
                    !.left = SubSeq(@, 1, start) \o name \o <<SP>>,
                    !.garbled = @ \/ end + 1 >= MaxLine]
  BY DEF Complete, Completed
<1>3. CASE line.cursor # l \/ Cardinality(commands) # 1
  BY <1>2, <1>3
<1>4. CASE ~ (line.cursor # l \/ Cardinality(commands) # 1)
  <2>1. PICK c \in commands : name = Tree[c].name
    <3>1. commands # {}
      <4> HIDE DEF commands
      <4> QED
        BY <1>4, FS_EmptySet
    <3> HIDE DEF commands
    <3> QED
      BY <3>1
  <2>2. c \in DOMAIN Tree /\ Begins(words[Len(words)], c)
    <3> HIDE DEF words
    <3> QED
      BY <2>1, CompletionsBegin
  <2>3. name \in Seq(Chars)
    BY <2>1, <2>2, TreeAssumption
  <2>4. Len(words[Len(words)]) <= Len(name)
    BY <2>1, <2>2 DEF Begins
  <2>5. start \in 0 .. l
    <3>1. spaces \subseteq 0 .. l /\ spaces # {}
      BY <1>1
    <3> HIDE DEF spaces
    <3> QED
      BY <1>1, <3>1, GreatestNatural
  <2> HIDE DEF name, words, commands, start, spaces
  <2>6. Len(name) \in Nat /\ end \in Nat
    BY <1>1, <2>3, <2>5
  <2>7. /\ DOMAIN new = DOMAIN line /\ new.in_history = line.in_history /\ new.cmd = completed
               /\ new.l = end + 1 /\ new.cursor = end + 1
        /\ new.left = SubSeq(line.left, 1, start) \o name \o <<SP>> /\ new.right = line.right
        /\ ~ new.garbled => ~ line.garbled /\ ~ (end + 1 >= MaxLine)
    BY <1>1, <1>2, <1>4 DEF LineType
  <2>8. Buffer(new.cmd)
    BY <2>7 DEF Buffer
  <2>9. ASSUME ~ new.garbled PROVE Holds(new.cmd, new.l, new.cursor, new.left, new.right)
    <3>1. Holds(cmd, l, l, line.left, line.right) /\ end + 1 < MaxLine
      BY <1>4, <2>6, <2>7, <2>9, LineAssumption DEF LineInv, Bond
    <3>2. Len(words[Len(words)]) = l - start
      BY <3>1, WordToComplete DEF words, start, spaces
    <3>3. l - start <= Len(name)
      BY <2>4, <3>2
    <3>4. /\ \A i \in 0 .. start - 1 : completed[i] = cmd[i]
          /\ \A i \in start .. start + Len(name) - 1 : completed[i] = name[i - start + 1]
          /\ completed[start + Len(name)] = SP
          /\ \A i \in start + Len(name) + 1 .. MaxLine - 1 : completed[i] = cmd[i]
      BY <1>1, <2>5, <2>6, <3>1, LineAssumption
    <3> HIDE DEF completed, l, cmd, new
    <3>5. Holds(completed, end + 1, end + 1, SubSeq(line.left, 1, start) \o name \o <<SP>>, line.right)
      BY <2>3, <2>5, <3>1, <3>3, <3>4, CompleteHolds
    <3> QED
      BY <2>7, <3>5
  <2>10. end + 1 \in Nat /\ end + 1 <= end + 1
    BY <2>6
  <2> HIDE DEF completed, new, end
  <2>11. new.l \in Nat /\ new.cursor \in Nat /\ new.cursor <= new.l
    BY <2>7, <2>10
  <2>12. LineInv(new)
    BY <1>1, <2>7, <2>8, <2>9, <2>11, BondKept
  <2> QED
    BY <2>12 DEF new
<1> QED
  BY <1>3, <1>4
-----------------------------------------------------------------------------
\* What a line may be recalled from: text, without the terminator.
Text(s) == IsSeq(s) /\ \A i \in 1 .. Len(s) : s[i] # NUL

HistoryInv(history) ==
  DOMAIN history = 0 .. MaxHistory - 1 /\ \A i \in 0 .. MaxHistory - 1 : Text(history[i])

LEMMA EmptyText == Text(<<>>)
  BY EmptyIsSeq DEF Text

\* What a buffer holds is text, whether or not it is what was typed.
LEMMA StringText ==
  ASSUME NEW cmd
  PROVE  Text(String(cmd))
<1> DEFINE ends == {i \in 0 .. MaxLine - 1 : cmd[i] = NUL} \union {MaxLine}
           s == String(cmd)
           n == Min(ends)
<1>1. ends \subseteq Nat /\ ends # {} /\ \A i \in ends : i <= MaxLine
  BY LineAssumption
<1>2. s = [i \in 1 .. n |-> cmd[i - 1]]
  BY DEF String
<1>3. n \in ends /\ \A i \in ends : n <= i
  <2> HIDE DEF ends
  <2> QED
    BY <1>1, LeastNatural DEF Min
<1>4. n \in Nat /\ n <= MaxLine
  BY <1>1, <1>3
<1>5. \A i \in 1 .. n : cmd[i - 1] # NUL
  <2> SUFFICES ASSUME NEW i \in 1 .. n, cmd[i - 1] = NUL PROVE FALSE
    OBVIOUS
  <2> HIDE DEF n
  <2>1. i - 1 \in 0 .. MaxLine - 1 /\ ~ (n <= i - 1)
    BY <1>4, LineAssumption
  <2> QED
    BY <1>3, <2>1
<1> HIDE DEF n, s, ends
<1>6. s = [i \in 1 .. n |-> s[i]] /\ \A i \in 1 .. n : s[i] # NUL
  BY <1>2, <1>5
<1>7. IsSeq(s) /\ Len(s) = n
  BY <1>4, <1>6, MakesSeq
<1> QED
  BY <1>6, <1>7 DEF Text, s

\* The history holds text.
LEMMA AddHistoryKeeps ==
  ASSUME NEW history, HistoryInv(history), NEW s, Text(s)
  PROVE  HistoryInv(AddHistory(history, s))
<1> DEFINE free == {i \in 0 .. MaxHistory - 1 : history[i] = <<>>}
           last == [j \in 0 .. MaxHistory - 1 |-> IF j < MaxHistory - 1 THEN history[j + 1] ELSE s]
           noted(i) == [history EXCEPT ![i] = s]
<1> HIDE DEF free
<1>1. AddHistory(history, s) \in {last, history, noted(Min(free))}
  BY DEF AddHistory, free
<1>2. HistoryInv(last)
  <2> SUFFICES ASSUME NEW j \in 0 .. MaxHistory - 1 PROVE Text(last[j])
    BY DEF HistoryInv
  <2>1. j < MaxHistory - 1 => j + 1 \in 0 .. MaxHistory - 1
    BY LineAssumption
  <2> QED
    BY <2>1 DEF HistoryInv
<1>3. \A i : HistoryInv(noted(i))
  BY DEF HistoryInv
<1> QED
  BY <1>1, <1>2, <1>3

LEMMA NoHistoryInv == HistoryInv(NoHistory)
  BY EmptyText DEF HistoryInv, NoHistory

\* ^P and ^N.
LEMMA HistoryAtWithin ==
  ASSUME NEW line, line.in_history \in -1 .. MaxHistory - 1, NEW key, NEW history
  PROVE  HistoryAt(line, key, history) \in -1 .. MaxHistory - 1
<1> DEFINE used == {i \in 0 .. MaxHistory - 1 : history[i] # <<>>}
           all == used \union {-1}
           shifted == {i + 1 : i \in all}
<1>1. Max(all) \in -1 .. MaxHistory - 1
  <2>1. CASE used = {}
    <3>1. all = {-1}
      BY <2>1
    <3> HIDE DEF all
    <3>2. Max(all) = -1
      BY <3>1 DEF Max
    <3> QED
      BY <3>2, LineAssumption
  <2>2. CASE used # {}
    <3>1. used \subseteq 0 .. MaxHistory - 1 /\ MaxHistory - 1 \in Nat
      BY LineAssumption
    <3>2. Max(used) \in used /\ \A y \in used : y <= Max(used)
      <4> HIDE DEF used
      <4> QED
        BY <2>2, <3>1, GreatestNatural
    <3>3. Max(used) \in all /\ \A y \in all : Max(used) >= y
      <4> DEFINE m == Max(used)
      <4> HIDE DEF m
      <4>1. m \in used /\ \A y \in used : y <= m
        BY <3>2 DEF m
      <4>2. m \in 0 .. MaxHistory - 1
        BY <3>1, <4>1
      <4>3. m \in all /\ \A y \in all : m >= y
        BY <3>1, <4>1, <4>2
      <4> QED
        BY <4>3 DEF m
    <3>4. all \subseteq -1 .. MaxHistory - 1
      BY <3>1
    <3> HIDE DEF all, used
    <3>5. \E x \in all : \A y \in all : x >= y
      BY <3>3
    <3>6. Max(all) \in all
      BY <3>5 DEF Max
    <3> QED
      BY <3>4, <3>6
  <2> QED
    BY <2>1, <2>2
<1> HIDE DEF all
<1> DEFINE h == IF key = "^P" THEN line.in_history - 1 ELSE line.in_history + 1
<1>2. HistoryAt(line, key, history) =
        IF key = "^P" THEN IF h >= 0 THEN h ELSE Max(all)
        ELSE IF h >= MaxHistory THEN 0 ELSE IF history[h] = <<>> THEN 0 ELSE h
  BY DEF HistoryAt, all
<1> QED
  BY <1>1, <1>2, LineAssumption

LEMMA RecallKeeps ==
  ASSUME NEW line, LineInv(line), NEW key, NEW history, HistoryInv(history)
  PROVE  LineInv(Recall(line, key, history))
<1> DEFINE h == HistoryAt(line, key, history)
           moved == [line EXCEPT !.in_history = h]
           n == Min({Len(history[h]), MaxLine - 1})
           s == SubSeq(history[h], 1, n)
<1>1. LineType(line)
  BY DEF LineInv
<1>2. h \in -1 .. MaxHistory - 1
  BY <1>1, HistoryAtWithin DEF LineType
<1> HIDE DEF h
<1>3. /\ DOMAIN moved = DOMAIN line /\ moved.cmd = line.cmd /\ moved.l = line.l /\ moved.cursor = line.cursor
      /\ moved.left = line.left /\ moved.right = line.right /\ moved.in_history = h
      /\ ~ moved.garbled => ~ line.garbled
  BY <1>1 DEF LineType
<1> HIDE DEF moved
<1>4. LineType(moved)
  BY <1>1, <1>2, <1>3 DEF LineType
<1>5. LineInv(moved)
  <2>1. ~ moved.garbled => Bond(line)
    BY <1>3 DEF LineInv
  <2>2. ~ moved.garbled => Bond(moved)
    BY <1>3, <2>1 DEF Bond
  <2> QED
    BY <1>4, <2>2 DEF LineInv
<1>6. ~ (h < 0) => LineInv(WithString(moved, s))
  <2> SUFFICES ASSUME ~ (h < 0) PROVE LineInv(WithString(moved, s))
    OBVIOUS
  <2> DEFINE e == history[h]
  <2>1. Text(e)
    <3>1. h \in 0 .. MaxHistory - 1
      BY <1>2, LineAssumption
    <3> QED
      BY <3>1 DEF HistoryInv
  <2>2. IsSeq(e) /\ Len(e) \in Nat /\ \A i \in 1 .. Len(e) : e[i] # NUL
    BY <2>1, SeqIsFunction DEF Text
  <2>3. MaxLine - 1 \in Nat
    BY LineAssumption
  <2> HIDE DEF e
  <2>4. n \in Nat /\ n <= Len(e) /\ n <= MaxLine - 1
    BY <2>2, <2>3, LesserOfTwo DEF e
  <2> HIDE DEF n
  <2>5. IsSeq(s) /\ Len(s) = n /\ \A i \in 1 .. n : s[i] = e[i]
    BY <2>2, <2>4, PartSeq DEF e
  <2> HIDE DEF s
  <2>6. Len(s) < MaxLine /\ \A i \in 1 .. Len(s) : s[i] # NUL
    <3>1. \A i \in 1 .. n : i \in 1 .. Len(e)
      BY <2>2, <2>4
    <3>2. n < MaxLine
      BY <2>4, LineAssumption
    <3> QED
      BY <2>2, <2>5, <3>1, <3>2
  <2> QED
    BY <1>4, <2>5, <2>6, WithStringKeeps
<1>7. Recall(line, key, history) =
        IF h < 0 THEN moved ELSE IF history[h] = <<>> THEN moved ELSE WithString(moved, s)
  BY DEF Recall, h, moved
<1> HIDE DEF s
<1> QED
  BY <1>5, <1>6, <1>7
-----------------------------------------------------------------------------
\* A new line, and the line before it without its question.
LEMMA FreshKeeps == LineInv(FreshLine)
<1> DEFINE new == FreshLine
<1>1. /\ new.cmd = [i \in 0 .. MaxLine - 1 |-> NUL] /\ new.l = 0 /\ new.cursor = 0
      /\ new.left = <<>> /\ new.right = <<>> /\ new.in_history = 0
      /\ DOMAIN new = {"cmd", "l", "cursor", "esc", "in_history", "left", "right", "garbled"}
  BY DEF FreshLine
<1> HIDE DEF new
<1>2. LineType(new)
  BY <1>1, LineAssumption DEF LineType, Buffer
<1>3. Bond(new)
  BY <1>1, EmptyIsSeq, LineAssumption DEF Bond, Holds
<1> QED
  BY <1>2, <1>3 DEF LineInv, new

SameOf(asked) ==
  [asked EXCEPT !.cmd[asked.l - 1] = NUL, !.l = asked.l - 1, !.cursor = asked.l - 1, !.esc = "no",
                !.in_history = 0, !.left = SubSeq(@, 1, Len(@) - 1)]

LEMMA SameKeeps ==
  ASSUME NEW asked, LineInv(asked), asked.l # 0, asked.cursor = asked.l
  PROVE  LineInv(SameOf(asked))
<1> DEFINE new == SameOf(asked)
           l == asked.l
           cmd == asked.cmd
<1>1. LineType(asked) /\ l \in Nat /\ l # 0 /\ l - 1 \in Nat /\ DOMAIN cmd = 0 .. MaxLine - 1
  BY DEF LineInv, LineType, Buffer
<1>2. /\ DOMAIN new = DOMAIN asked /\ new.cmd = [cmd EXCEPT ![l - 1] = NUL] /\ new.l = l - 1
             /\ new.cursor = l - 1
      /\ new.in_history = 0 /\ new.left = SubSeq(asked.left, 1, Len(asked.left) - 1)
      /\ new.right = asked.right
      /\ ~ new.garbled => ~ asked.garbled
  BY <1>1 DEF SameOf, LineType
<1>3. \A i \in 0 .. MaxLine - 1 : new.cmd[i] = IF i = l - 1 THEN NUL ELSE cmd[i]
  BY <1>1, <1>2
<1>4. DOMAIN new.cmd = 0 .. MaxLine - 1
  BY <1>1, <1>2
<1> HIDE DEF new
<1>5. LineType(new)
  BY <1>1, <1>2, <1>4, LineAssumption DEF LineType, Buffer
<1>6. ASSUME ~ new.garbled PROVE Bond(new)
  <2>1. Holds(cmd, l, l, asked.left, asked.right)
    BY <1>2, <1>6 DEF LineInv, Bond
  <2> HIDE DEF cmd, l
  <2>2. l <= MaxLine - 1
    BY <2>1, LineAssumption DEF Holds
  <2>3. \A i \in 0 .. l - 2 : new.cmd[i] = cmd[i]
    BY <1>1, <1>3, <2>2, LineAssumption
  <2>4. new.cmd[l - 1] = NUL /\ \A i \in l .. MaxLine - 1 : new.cmd[i] = cmd[i]
    BY <1>1, <1>3, <2>2, LineAssumption
  <2>5. Holds(new.cmd, l - 1, l - 1, SubSeq(asked.left, 1, Len(asked.left) - 1), asked.right)
    <3>1. ~ (l < l) /\ l # 0
      BY <1>1 DEF l
    <3> DEFINE c == new.cmd
    <3>2. /\ \A i \in 0 .. l - 2 : c[i] = cmd[i]
          /\ c[l - 1] = NUL
          /\ \A i \in l .. MaxLine - 1 : c[i] = cmd[i]
      BY <2>3, <2>4
    <3> HIDE DEF c
    <3>3. Holds(c, l - 1, l - 1, SubSeq(asked.left, 1, Len(asked.left) - 1), asked.right)
      BY <2>1, <3>1, <3>2, EraseHolds
    <3> QED
      BY <3>3 DEF c
  <2> QED
    BY <1>2, <2>5 DEF Bond
<1> QED
  BY <1>5, <1>6 DEF LineInv, new

\* Every key.
LEMMA EditedKeeps ==
  ASSUME NEW line, LineInv(line), NEW key, NEW sh, HistoryInv(sh.history)
  PROVE  LineInv(Edited(line, key, sh))
<1> DEFINE backspace == IF line.cursor = 0 THEN line ELSE Erase(line, 1)
           word == IF line.cursor = 0 THEN line ELSE Erase(line, WordBack(line))
           end == IF line.l = 0 THEN WithString(line, <<"q">>) ELSE line
           drop(t) == IF t THEN DropLine(line) ELSE line
           back == IF line.cursor = 0 THEN line ELSE MoveTo(line, line.cursor - 1)
           forward == IF line.cursor = line.l THEN line ELSE MoveTo(line, line.cursor + 1)
           home == MoveTo(line, 0)
           last == MoveTo(line, line.l)
           complete == Complete(line, sh.vty)
           recall == Recall(line, key, sh.history)
<1>1. LineType(line) /\ line.l \in Nat /\ line.cursor \in Nat /\ line.cursor <= line.l
  BY DEF LineInv, LineType
<1>2. LineInv(backspace) /\ LineInv(word)
  <2>1. line.cursor # 0 => 1 \in 0 .. line.cursor
    BY <1>1
  <2>2. WordBack(line) \in 0 .. line.cursor
    BY <1>1, WordBackWithin
  <2> QED
    BY <2>1, <2>2, EraseKeeps
<1>3. LineInv(ClearLine(line)) /\ LineInv(KillToEnd(line)) /\ \A t : LineInv(drop(t))
  BY ClearKeeps
<1>4. LineInv(end)
  <2> DEFINE q == <<"q">>
  <2>1. q \in Seq({"q"}) /\ Len(q) = 1 /\ \A i \in 1 .. 1 : q[i] = "q"
    OBVIOUS
  <2>2. "q" # NUL
    BY DEF NUL
  <2>3. Len(q) < MaxLine
    BY <2>1, LineAssumption
  <2> HIDE DEF q
  <2>4. IsSeq(q) /\ \A i \in 1 .. Len(q) : q[i] # NUL
    BY <2>1, <2>2 DEF IsSeq
  <2>5. LineInv(WithString(line, q))
    BY <1>1, <2>3, <2>4, WithStringKeeps
  <2> QED
    BY <2>5 DEF q
<1>5. LineInv(back) /\ LineInv(forward) /\ LineInv(home) /\ LineInv(last)
  <2>1. /\ line.cursor # 0 => line.cursor - 1 \in 0 .. line.l
        /\ line.cursor # line.l => line.cursor + 1 \in 0 .. line.l
        /\ 0 \in 0 .. line.l /\ line.l \in 0 .. line.l
    BY <1>1
  <2> QED
    BY <2>1, MoveToKeeps
<1>6. LineInv(complete) /\ LineInv(recall)
  BY CompleteKeeps, RecallKeeps
<1>7. key # NUL => LineInv(Insert(line, key))
  BY InsertKeeps
<1> DEFINE text == sh.vty.mode # MODE_EXEC
           insert == Insert(line, key)
           clear == ClearLine(line)
           kill == KillToEnd(line)
           out ==
             CASE key = NUL -> line
               [] key = "BS" -> backspace
               [] key = "^W" -> word
               [] key = "^U" -> clear
               [] key = "^K" -> kill
               [] key = "^D" -> end
               [] key = "^Z" -> drop(text)
               [] key = "TAB" -> complete
               [] key \in {"^P", "^N"} -> recall
               [] key = "^B" -> back
               [] key = "^F" -> forward
               [] key = "^A" -> home
               [] key = "^E" -> last
               [] OTHER -> insert
<1>8. Edited(line, key, sh) = out
  BY Zenon DEF Edited
<1> HIDE DEF backspace, word, clear, kill, end, drop, complete, recall, back, forward, home, last, insert, text
<1>9. LineInv(clear) /\ LineInv(kill) /\ (key # NUL => LineInv(insert))
  BY <1>3, <1>7 DEF clear, kill, insert
<1>10. LineInv(drop(text))
  BY <1>3
<1>11. LineInv(out)
  <2> HIDE DEF LineInv
  <2> QED
    BY <1>2, <1>4, <1>5, <1>6, <1>9, <1>10, Zenon
<1> QED
  BY <1>8, <1>11
-----------------------------------------------------------------------------
\* What a lookup finds at a word depends on the answers for the next word below
\* the commands of the tree, in the mode it is in or in CONFIG; and it stays among
\* modes that hold the one it is in and, if that is beyond CONFIG, CONFIG.
LEMMA FindAtAsks ==
  ASSUME NEW unique, NEW words, NEW vty, NEW i, NEW parent, NEW mode, NEW f
  PROVE  /\ \A g :
              (i # Len(words) =>
                 \A c \in DOMAIN Tree, m \in {mode, MODE_CONFIG} : f[<<i + 1, c, m>>] = g[<<i + 1, c, m>>]) =>
                FindAt(f, unique, words, vty, i, parent, mode) = FindAt(g, unique, words, vty, i, parent, mode)
         /\ \A S :
              /\ mode \in S
              /\ mode > MODE_CONFIG => MODE_CONFIG \in S
              /\ i # Len(words) => \A c \in DOMAIN Tree, m \in S : f[<<i + 1, c, m>>].mode \in S
              => FindAt(f, unique, words, vty, i, parent, mode).mode \in S
<1> DEFINE named == {c \in Children(parent) : Allowed(vty, c) /\ Names(words[i], c, unique)}
           here == {c \in named : Tree[c].mode \in {mode, MODE_ANY}}
           other == IF mode > MODE_CONFIG THEN {c \in named : Tree[c].mode = MODE_CONFIG} ELSE {}
           c == IF here # {} THEN Least(here) ELSE Greatest(other)
           now == IF here # {} THEN mode ELSE MODE_CONFIG
           runs == Tree[c].does # "nothing"
           Run(m) == Found("run", c, SubSeq(words, i + 1, Len(words)), m)
           Answer(rest) ==
             IF Last(words[i]) = "?" THEN Found("help", 0, <<>>, mode)
             ELSE IF here = {} /\ other = {} THEN Found("argument", 0, <<>>, mode)
             ELSE IF Children(c) = {} \/ i = Len(words)
                  THEN IF runs THEN Run(now) ELSE Found("error", 0, <<>>, now)
             ELSE IF rest.out = "argument" /\ runs THEN Run(rest.mode) ELSE rest
<1>1. \A g : FindAt(g, unique, words, vty, i, parent, mode) = Answer(g[<<i + 1, c, now>>])
  BY DEF FindAt
<1>2. here # {} \/ other # {} => c \in DOMAIN Tree
  <2>1. here \subseteq DOMAIN Tree /\ here \subseteq Nat /\ other \subseteq 0 .. Len(Tree) /\ other \subseteq DOMAIN Tree
    BY TreeAssumption DEF Children
  <2>2. Len(Tree) \in Nat
    BY TreeAssumption
  <2> HIDE DEF here, other
  <2>3. here # {} => Least(here) \in here
    BY <2>1, LeastNatural DEF Least
  <2>4. other # {} => Greatest(other) \in other
    BY <2>1, <2>2, GreatestIs
  <2> QED
    BY <2>1, <2>3, <2>4
<1>3. now \in {mode, MODE_CONFIG} /\ (here # {} \/ other # {} => now = mode \/ mode > MODE_CONFIG)
  OBVIOUS
<1>4. \A m : Run(m).mode = m
  BY DEF Found
<1>5. Found("help", 0, <<>>, mode).mode = mode /\ Found("argument", 0, <<>>, mode).mode = mode
      /\ Found("error", 0, <<>>, now).mode = now
  BY DEF Found
<1> HIDE DEF named, here, other, c, now, runs, Run
<1>6. ASSUME NEW g, i # Len(words) =>
               \A d \in DOMAIN Tree, m \in {mode, MODE_CONFIG} : f[<<i + 1, d, m>>] = g[<<i + 1, d, m>>]
      PROVE  Answer(f[<<i + 1, c, now>>]) = Answer(g[<<i + 1, c, now>>])
  <2>1. CASE here = {} /\ other = {}
    BY <2>1
  <2>2. CASE i = Len(words)
    BY <2>2
  <2>3. CASE ~ (here = {} /\ other = {}) /\ i # Len(words)
    BY <1>2, <1>3, <1>6, <2>3
  <2> QED
    BY <2>1, <2>2, <2>3
<1>7. ASSUME NEW S, mode \in S, mode > MODE_CONFIG => MODE_CONFIG \in S,
             i # Len(words) => \A d \in DOMAIN Tree, m \in S : f[<<i + 1, d, m>>].mode \in S
      PROVE  Answer(f[<<i + 1, c, now>>]).mode \in S
  <2>1. CASE here = {} /\ other = {}
    BY <1>5, <1>7, <2>1
  <2>2. CASE ~ (here = {} /\ other = {})
    <3>1. now \in S /\ c \in DOMAIN Tree
      BY <1>2, <1>3, <1>7, <2>2
    <3>2. i # Len(words) => f[<<i + 1, c, now>>].mode \in S
      BY <1>7, <3>1
    <3> DEFINE rest == f[<<i + 1, c, now>>]
    <3>3. i # Len(words) => rest.mode \in S
      BY <3>2
    <3> HIDE DEF rest
    <3>4. Answer(rest).mode \in S
      BY <1>4, <1>5, <1>7, <3>1, <3>3
    <3> QED
      BY <3>4 DEF rest
  <2> QED
    BY <2>1, <2>2
<1> HIDE DEF Answer
<1> QED
  BY <1>1, <1>6, <1>7

\* The answers to all questions about the last k words of a line.
Places(words, vty, k) ==
  (Len(words) - k + 1 .. Len(words)) \X (0 .. Len(Tree)) \X {vty.mode, MODE_CONFIG}

Answers(unique, words, vty, k, g) ==
  g = [p \in Places(words, vty, k) |-> FindAt(g, unique, words, vty, p[1], p[2], p[3])]

\* There are some, by the least number of words without.
LEMMA AnswersExist ==
  ASSUME NEW unique, NEW words, Len(words) \in Nat, NEW vty, NEW m \in 0 .. Len(words)
  PROVE  \E g : Answers(unique, words, vty, m, g)
<1> DEFINE n == Len(words)
           bad == {k \in 0 .. n : ~ \E g : Answers(unique, words, vty, k, g)}
<1>1. ASSUME bad # {} PROVE FALSE
  <2>1. PICK k \in bad : \A j \in bad : k =< j
    <3>1. bad \subseteq Nat
      OBVIOUS
    <3> QED
      BY <1>1, <3>1, LeastNatural
  <2>2. CASE k = 0
    <3>1. Places(words, vty, 0) = {}
      BY DEF Places
    <3> DEFINE none == [p \in Places(words, vty, 0) |-> 0]
    <3>2. Answers(unique, words, vty, 0, none)
      BY <3>1 DEF Answers
    <3> QED
      BY <2>1, <2>2, <3>2
  <2>3. CASE k # 0
    <3>1. k - 1 \in 0 .. n /\ k - 1 \notin bad
      BY <2>1, <2>3
    <3>2. PICK g : Answers(unique, words, vty, k - 1, g)
      BY <3>1
    <3> DEFINE h == [p \in Places(words, vty, k) |-> FindAt(g, unique, words, vty, p[1], p[2], p[3])]
    <3>3. \A p \in Places(words, vty, k - 1) : p \in Places(words, vty, k) /\ h[p] = g[p]
      <4> TAKE p \in Places(words, vty, k - 1)
      <4>1. p \in Places(words, vty, k)
        BY <2>1, <2>3 DEF Places
      <4>2. g[p] = FindAt(g, unique, words, vty, p[1], p[2], p[3])
        BY <3>2, Zenon DEF Answers
      <4> QED
        BY <4>1, <4>2
    <3>4. \A p \in Places(words, vty, k) :
            FindAt(h, unique, words, vty, p[1], p[2], p[3]) = FindAt(g, unique, words, vty, p[1], p[2], p[3])
      <4> TAKE p \in Places(words, vty, k)
      <4>1. p[1] \in Nat /\ n - k + 1 <= p[1] /\ p[1] <= n /\ p[3] \in {vty.mode, MODE_CONFIG}
        BY <2>1 DEF Places
      <4>2. \A c \in DOMAIN Tree, mode \in {p[3], MODE_CONFIG} :
              p[1] # n => <<p[1] + 1, c, mode>> \in Places(words, vty, k - 1)
        BY <2>1, <2>3, <4>1, TreeAssumption DEF Places
      <4> HIDE DEF h, n
      <4>3. p[1] # Len(words) =>
              \A c \in DOMAIN Tree, mode \in {p[3], MODE_CONFIG} :
                h[<<p[1] + 1, c, mode>>] = g[<<p[1] + 1, c, mode>>]
        BY <3>3, <4>2 DEF n
      <4> DEFINE i == p[1]
                 parent == p[2]
                 mode == p[3]
      <4> HIDE DEF i, parent, mode
      <4>4. FindAt(h, unique, words, vty, i, parent, mode) = FindAt(g, unique, words, vty, i, parent, mode)
        <5>1. i # Len(words) =>
                \A c \in DOMAIN Tree, m0 \in {mode, MODE_CONFIG} : h[<<i + 1, c, m0>>] = g[<<i + 1, c, m0>>]
          BY <4>3 DEF i, mode
        <5> QED
          BY <5>1, FindAtAsks
      <4> QED
        BY <4>4 DEF i, parent, mode
    <3>5. Answers(unique, words, vty, k, h)
      BY <3>4, Zenon DEF Answers
    <3> QED
      BY <2>1, <3>5
  <2> QED
    BY <2>2, <2>3
<1> QED
  BY <1>1

\* What a lookup finds is one of these answers.
LEMMA FindAnswers ==
  ASSUME NEW unique, NEW words, Len(words) \in Nat \ {0}, NEW vty
  PROVE  \E find :
           /\ FindBy(unique, words, vty) = find[<<1, 0, vty.mode>>]
           /\ \A i \in 1 .. Len(words), c \in 0 .. Len(Tree), mode \in {vty.mode, MODE_CONFIG} :
                find[<<i, c, mode>>] = FindAt(find, unique, words, vty, i, c, mode)
<1> DEFINE n == Len(words)
           find == CHOOSE g : Answers(unique, words, vty, n, g)
<1>1. Answers(unique, words, vty, n, find)
  <2>1. n \in 0 .. n
    OBVIOUS
  <2> QED
    BY <2>1, AnswersExist, Zenon
<1>2. FindBy(unique, words, vty) = find[<<1, 0, vty.mode>>]
  <2>1. Places(words, vty, n) = (1 .. n) \X (0 .. Len(Tree)) \X {vty.mode, MODE_CONFIG}
    BY DEF Places
  <2> QED
    BY <2>1, Zenon DEF FindBy, Answers
<1> HIDE DEF find
<1>3. \A i \in 1 .. n, c \in 0 .. Len(Tree), mode \in {vty.mode, MODE_CONFIG} :
        find[<<i, c, mode>>] = FindAt(find, unique, words, vty, i, c, mode)
  <2> TAKE i \in 1 .. n, c \in 0 .. Len(Tree), mode \in {vty.mode, MODE_CONFIG}
  <2> DEFINE p == <<i, c, mode>>
  <2>1. p \in Places(words, vty, n) /\ p[1] = i /\ p[2] = c /\ p[3] = mode
    BY DEF Places
  <2>2. find[p] = FindAt(find, unique, words, vty, p[1], p[2], p[3])
    BY <1>1, <2>1, Zenon DEF Answers
  <2> QED
    BY <2>1, <2>2
<1> QED
  BY <1>2, <1>3

\* A lookup leaves its mode for CONFIG alone, and from beyond CONFIG alone.
LEMMA FindStays ==
  ASSUME NEW unique, NEW words, Len(words) \in Nat \ {0}, NEW vty,
         NEW S, S \subseteq {vty.mode, MODE_CONFIG}, vty.mode \in S,
         \A mode \in S : mode > MODE_CONFIG => MODE_CONFIG \in S
  PROVE  FindBy(unique, words, vty).mode \in S
<1> DEFINE n == Len(words)
<1>1. PICK find :
        /\ FindBy(unique, words, vty) = find[<<1, 0, vty.mode>>]
        /\ \A i \in 1 .. n, c \in 0 .. Len(Tree), mode \in {vty.mode, MODE_CONFIG} :
             find[<<i, c, mode>>] = FindAt(find, unique, words, vty, i, c, mode)
  BY FindAnswers
<1> DEFINE bad == {k \in 0 .. n - 1 : \E c \in 0 .. Len(Tree), mode \in S : find[<<n - k, c, mode>>].mode \notin S}
<1>4. ASSUME bad # {} PROVE FALSE
  <2>1. PICK k \in bad : \A j \in bad : k =< j
    <3>1. bad \subseteq Nat
      OBVIOUS
    <3> QED
      BY <1>4, <3>1, LeastNatural
  <2>2. PICK c \in 0 .. Len(Tree), mode \in S : find[<<n - k, c, mode>>].mode \notin S
    BY <2>1
  <2>3. n - k \in 1 .. n
    BY <2>1
  <2>4. n - k # n => \A d \in DOMAIN Tree, m \in S : find[<<n - k + 1, d, m>>].mode \in S
    <3> SUFFICES ASSUME n - k # n, NEW d \in DOMAIN Tree, NEW m \in S
                 PROVE  find[<<n - k + 1, d, m>>].mode \in S
      OBVIOUS
    <3>1. k \in 0 .. n - 1 /\ k - 1 \in 0 .. n - 1 /\ k - 1 < k /\ n - (k - 1) = n - k + 1
      BY <2>1
    <3>2. k - 1 \notin bad
      <4> HIDE DEF bad
      <4> QED
        BY <2>1, <3>1
    <3>3. d \in 0 .. Len(Tree)
      BY TreeAssumption
    <3>4. find[<<n - (k - 1), d, m>>].mode \in S
      BY <3>1, <3>2, <3>3
    <3> QED
      BY <3>1, <3>4
  <2>5. FindAt(find, unique, words, vty, n - k, c, mode).mode \in S
    <3> DEFINE i == n - k
    <3>1. i # n => \A d \in DOMAIN Tree, m \in S : find[<<i + 1, d, m>>].mode \in S
      BY <2>4
    <3> HIDE DEF i
    <3>2. FindAt(find, unique, words, vty, i, c, mode).mode \in S
      BY <3>1, FindAtAsks, Zenon
    <3> QED
      BY <3>2 DEF i
  <2> QED
    BY <1>1, <2>2, <2>3, <2>5
<1>5. n - 1 \in 0 .. n - 1 /\ n - (n - 1) = 1 /\ 0 \in 0 .. Len(Tree)
  BY TreeAssumption
<1>6. find[<<n - (n - 1), 0, vty.mode>>].mode \in S
  BY <1>4, <1>5
<1> QED
  BY <1>1, <1>5, <1>6
-----------------------------------------------------------------------------
\* A session that is in a mode of configuration only with privilege.
VtyInv(v) ==
  /\ v \in Vtys
  /\ v.mode # MODE_EXEC => v.privilege = Privileged

Modes == {MODE_EXEC, MODE_CONFIG, MODE_SWITCH, MODE_DEBUG}

LEMMA VtyParts == Vtys = [mode : Modes, privilege : {Unprivileged, Privileged}, quit : BOOLEAN]
<1> DEFINE R == [mode : Modes, privilege : {Unprivileged, Privileged}, quit : BOOLEAN]
<1>1. Vtys \subseteq R
  BY DEF Vtys, Modes
<1>2. ASSUME NEW v \in R PROVE v \in Vtys
  <2>1. /\ v.mode \in Modes /\ v.privilege \in {Unprivileged, Privileged} /\ v.quit \in BOOLEAN
        /\ v = [mode |-> v.mode, privilege |-> v.privilege, quit |-> v.quit]
    OBVIOUS
  <2>2. \A m \in Modes, p \in {Unprivileged, Privileged}, q \in BOOLEAN :
          [mode |-> m, privilege |-> p, quit |-> q] \in Vtys
    BY DEF Vtys, Modes
  <2> DEFINE w == [mode |-> v.mode, privilege |-> v.privilege, quit |-> v.quit]
  <2>3. w \in Vtys
    BY <2>1, <2>2
  <2>4. v = w
    BY <2>1
  <2> HIDE DEF w
  <2> QED
    BY <2>3, <2>4
<1> QED
  BY <1>1, <1>2

\* Some of its parts changed, and sessions as they start.
LEMMA VtyChanged ==
  ASSUME NEW v \in Vtys, NEW m \in Modes, NEW p \in {Unprivileged, Privileged}
  PROVE  /\ [v EXCEPT !.mode = m] \in Vtys /\ [v EXCEPT !.mode = m].mode = m
         /\ [v EXCEPT !.mode = m].privilege = v.privilege
         /\ [v EXCEPT !.mode = m, !.quit = FALSE] \in Vtys /\ [v EXCEPT !.mode = m, !.quit = FALSE].mode = m
         /\ [v EXCEPT !.mode = m, !.quit = FALSE].privilege = v.privilege
         /\ [v EXCEPT !.mode = m, !.privilege = p] \in Vtys /\ [v EXCEPT !.mode = m, !.privilege = p].mode = m
         /\ [v EXCEPT !.mode = m, !.privilege = p].privilege = p
  BY VtyParts DEF Modes

LEMMA NewVtys == VtyInv(NewVty) /\ VtyInv(ShellVty)
<1>1. VtyInv(NewVty)
  BY VtyParts DEF VtyInv, Modes, NewVty
<1>2. ShellVty \in Vtys /\ ShellVty.mode = MODE_EXEC
  BY <1>1, VtyParts DEF VtyInv, Modes, NewVty, ShellVty
<1> QED
  BY <1>1, <1>2 DEF VtyInv

\* No command makes it another.
LEMMA CallbackKeeps ==
  ASSUME NEW v, VtyInv(v), NEW does, NEW args
  PROVE  VtyInv(Callback(v, does, args))
<1>0. MODE_EXEC \in Modes /\ MODE_CONFIG \in Modes /\ MODE_SWITCH \in Modes /\ MODE_DEBUG \in Modes
  BY DEF Modes
<1>1. VtyInv(quit(v))
  BY VtyParts DEF VtyInv, Modes, quit
<1>2. VtyInv(disable(v))
  BY <1>0, VtyChanged DEF VtyInv, disable
<1>3. VtyInv(enable(v))
  BY <1>0, VtyChanged DEF VtyInv, enable
<1>4. VtyInv(exit(v))
  <2>1. CASE v.mode = MODE_EXEC
    BY <1>1, <2>1 DEF exit
  <2>2. CASE v.mode # MODE_EXEC
    <3> DEFINE m == IF v.mode > MODE_CONFIG THEN MODE_CONFIG ELSE MODE_EXEC
    <3>1. m \in Modes /\ exit(v) = [v EXCEPT !.mode = m]
      BY <1>0, <2>2 DEF exit
    <3> HIDE DEF m
    <3>2. v \in Vtys /\ v.privilege = Privileged /\ Privileged \in {Unprivileged, Privileged}
      BY <2>2 DEF VtyInv
    <3>3. [v EXCEPT !.mode = m] \in Vtys /\ [v EXCEPT !.mode = m].privilege = v.privilege
      BY <3>1, <3>2, VtyChanged
    <3> QED
      BY <3>1, <3>2, <3>3 DEF VtyInv
  <2> QED
    BY <2>1, <2>2
<1>5. VtyInv(configure(v)) /\ VtyInv(debug(v)) /\ VtyInv(switch(v))
  BY <1>0, VtyChanged DEF VtyInv, configure, debug, switch
<1> HIDE DEF VtyInv
<1> QED
  BY <1>1, <1>2, <1>3, <1>4, <1>5, Zenon DEF Callback

\* No line does: a lookup may leave a mode, and enters none from EXEC.
LEMMA RunWordsKeeps ==
  ASSUME NEW v, VtyInv(v), NEW n \in Nat
  PROVE  VtyInv(RunWords(OwnWords(n), v))
<1> DEFINE words == OwnWords(n)
           f == Find(words, v)
           moved == [v EXCEPT !.mode = f.mode, !.quit = FALSE]
<1>1. CASE words = <<>>
  BY <1>1 DEF RunWords
<1>2. CASE words # <<>>
  <2>1. Len(words) \in Nat \ {0}
    BY <1>2 DEF OwnWords
  <2>2. v.mode = MODE_EXEC => f.mode = MODE_EXEC
    <3> HIDE DEF words
    <3>1. SUFFICES ASSUME v.mode = MODE_EXEC PROVE f.mode \in {MODE_EXEC}
      OBVIOUS
    <3> DEFINE S == {MODE_EXEC}
    <3>2. S \subseteq {v.mode, MODE_CONFIG} /\ v.mode \in S /\ \A mode \in S : mode > MODE_CONFIG => MODE_CONFIG \in S
      BY <3>1 DEF MODE_EXEC, MODE_CONFIG
    <3> HIDE DEF S
    <3>3. f.mode \in S
      BY <2>1, <3>2, FindStays DEF Find
    <3> QED
      BY <3>3 DEF S
  <2>3. f.mode \in Modes
    <3> HIDE DEF words
    <3> DEFINE S == {v.mode, MODE_CONFIG}
    <3>1. S \subseteq {v.mode, MODE_CONFIG} /\ v.mode \in S /\ \A mode \in S : mode > MODE_CONFIG => MODE_CONFIG \in S
      OBVIOUS
    <3>2. S \subseteq Modes
      BY VtyParts DEF VtyInv, Modes
    <3> HIDE DEF S
    <3>3. f.mode \in S
      BY <2>1, <3>1, FindStays DEF Find
    <3> QED
      BY <3>2, <3>3
  <2> HIDE DEF f
  <2>4. VtyInv(moved)
    BY <2>2, <2>3, VtyChanged DEF VtyInv
  <2>5. VtyInv(IF f.out = "run" THEN Callback(moved, Tree[f.command].does, f.args) ELSE moved)
    <3> HIDE DEF moved
    <3> QED
      BY <2>4, CallbackKeeps
  <2>6. RunWords(words, v) = IF f.out = "run" THEN Callback(moved, Tree[f.command].does, f.args) ELSE moved
    BY <1>2 DEF RunWords, RunFound, f
  <2> QED
    BY <2>5, <2>6
<1> QED
  BY <1>1, <1>2
-----------------------------------------------------------------------------
\* The inductive invariant.

\* A shell that runs, as a thread.
Running == {"reading", "finding", "closing"}

ShellType(sh) ==
  /\ DOMAIN sh = {"at", "line", "history", "vty", "n", "asked"}
  /\ sh.at \in {None, "ended"} \union Running
  /\ sh.n \in Nat

Messages ==
  {Packet(s, code, text) : s \in Sessions, code \in {"CONREQ", "FREEREQ", "KPL", "DATA"},
                           text \in Texts \union {<<>>}} \union {Notice, Tick}

TypeInv ==
  /\ ShellType(shell)
  /\ DOMAIN async = {"at", "n"} /\ async.n \in Nat
  /\ queue \in Seq(Messages) /\ requests \in Seq(Commands)

\* Nobody is in a mode of configuration without privilege.
PrivilegeInv == VtyInv(shell.vty) /\ VtyInv(oamVty)

\* The shell's thread is there while the shell has not been deleted, and only for
\* a session or until the main thread has deleted it.
ThreadInv ==
  /\ shell.at # None => thread
  /\ thread => session # None \/ at = "deleting"

\* Between the end of a session and the deletion there is no session, and none
\* ends that is not there.
EndInv ==
  /\ at = "deleting" => session = None
  /\ at = "told" => session # None

\* A session without a running shell will hear of it.
NoticeInv ==
  session # None /\ shell.at \notin Running => Notice \in Range(queue) \/ at = "told" \/ lost

Inv == TypeInv /\ PrivilegeInv /\ ThreadInv /\ EndInv /\ NoticeInv
-----------------------------------------------------------------------------
\* A message that is put into the queue, and the next one taken out.
LEMMA PutKeeps ==
  ASSUME NEW M, NEW q \in Seq(M), NEW m \in M
  PROVE  /\ Put(q, m) \in Seq(M)
         /\ Range(q) \subseteq Range(Put(q, m))
         /\ ~ Full(q) => m \in Range(Put(q, m))
<1>1. CASE Full(q)
  BY <1>1, QueueAssumption DEF Put, Full
<1>2. CASE ~ Full(q)
  <2>1. Put(q, m) = Append(q, m)
    BY <1>2, QueueAssumption DEF Put, Full
  <2>2. \A i \in DOMAIN q : i \in DOMAIN Append(q, m) /\ Append(q, m)[i] = q[i]
    OBVIOUS
  <2>3. Len(q) + 1 \in DOMAIN Append(q, m) /\ Append(q, m)[Len(q) + 1] = m /\ Append(q, m) \in Seq(M)
    OBVIOUS
  <2> QED
    BY <2>1, <2>2, <2>3 DEF Range
<1> QED
  BY <1>1, <1>2

LEMMA TakeKeeps ==
  ASSUME NEW M, NEW q \in Seq(M), q # <<>>
  PROVE  /\ Tail(q) \in Seq(M) /\ Head(q) \in M
         /\ \A m \in Range(q) : m # Head(q) => m \in Range(Tail(q))
<1>1. Tail(q) \in Seq(M) /\ Head(q) \in M
  OBVIOUS
<1>2. ASSUME NEW m \in Range(q), m # Head(q) PROVE m \in Range(Tail(q))
  <2>1. PICK i \in 1 .. Len(q) : m = q[i]
    BY DEF Range
  <2>2. i # 1 /\ i - 1 \in DOMAIN Tail(q) /\ Tail(q)[i - 1] = m
    BY <1>2, <2>1
  <2> QED
    BY <2>2 DEF Range
<1> QED
  BY <1>1, <1>2

\* What the main thread finds in a message.
LEMMA MessageKinds ==
  ASSUME NEW m \in Messages
  PROVE  /\ m.kind = "notice" <=> m = Notice
         /\ m.kind = "packet" => m.session \in Sessions /\ m.session # None
<1>1. CASE m \in {Notice, Tick}
  BY <1>1 DEF Notice, Tick
<1>2. CASE m \notin {Notice, Tick}
  <2>1. PICK s \in Sessions, code \in {"CONREQ", "FREEREQ", "KPL", "DATA"}, text \in Texts \union {<<>>} :
          m = Packet(s, code, text)
    BY <1>2 DEF Messages
  <2> QED
    BY <2>1, SessionsAssumption DEF Packet, Notice
<1> QED
  BY <1>1, <1>2

\* The shell between two lines.
LEMMA NextLineKeeps ==
  ASSUME NEW sh, ShellType(sh), VtyInv(sh.vty)
  PROVE  /\ ShellType(NextLine(sh)) /\ NextLine(sh).at = "reading" /\ NextLine(sh).vty = sh.vty
         /\ ShellType(SameLine(sh)) /\ SameLine(sh).at = "reading" /\ SameLine(sh).vty = sh.vty
<1>1. ShellType(NextLine(sh)) /\ NextLine(sh).at = "reading" /\ NextLine(sh).vty = sh.vty
  BY DEF NextLine, ShellType, Running
<1> DEFINE same(line) == [sh EXCEPT !.at = "reading", !.line = line]
<1>2. \A line : ShellType(same(line)) /\ same(line).at = "reading" /\ same(line).vty = sh.vty
  BY DEF ShellType, Running
<1>3. PICK line : SameLine(sh) = same(line)
  BY DEF SameLine
<1> QED
  BY <1>1, <1>2, <1>3
-----------------------------------------------------------------------------
\* The shell's steps.

\* The end of a line.
LEMMA EnterKeeps ==
  ASSUME NEW sh, ShellType(sh), VtyInv(sh.vty), NEW line, NEW asked, Enter(sh, line, asked)
  PROVE  ShellType(shell') /\ shell'.at \in Running /\ shell'.vty = sh.vty
<1> DEFINE s == String(line.cmd)
           entered == [sh EXCEPT !.line = line, !.asked = asked]
           noted == IF line.cmd[line.l - 1] = "?" \/ s = <<"h">> THEN entered
                    ELSE [entered EXCEPT !.history = AddHistory(@, s)]
<1>1. ShellType(entered) /\ entered.vty = sh.vty
  BY DEF ShellType
<1> HIDE DEF entered
<1>2. ShellType(noted) /\ noted.vty = sh.vty
  BY <1>1 DEF ShellType
<1> HIDE DEF s, noted
<1>3. \/ shell' = [entered EXCEPT !.at = "closing"]
      \/ shell' = NextLine(entered)
      \/ shell' = [noted EXCEPT !.at = "finding", !.n = Len(Words(s))]
  BY DEF Enter, s, entered, noted
<1>4. CASE shell' = [entered EXCEPT !.at = "closing"]
  BY <1>1, <1>4 DEF ShellType, Running
<1>5. CASE shell' = NextLine(entered)
  BY <1>1, <1>5, NextLineKeeps DEF Running
<1>6. CASE shell' = [noted EXCEPT !.at = "finding", !.n = Len(Words(s))]
  <2>1. Len(Words(s)) \in Nat
    BY StringText, SeqFinite, WordsSeq DEF s, Text
  <2> QED
    BY <1>2, <1>6, <2>1 DEF ShellType, Running
<1> QED
  BY <1>3, <1>4, <1>5, <1>6

\* A key.
LEMMA TypedKeeps ==
  ASSUME TypeInv, PrivilegeInv, shell.at \in Running, NEW line, NEW key, NEW edited, Typed(line, key, edited)
  PROVE  ShellType(shell') /\ shell'.at \in Running /\ VtyInv(shell'.vty)
<1> DEFINE sh == IF key = "^Z" THEN [shell EXCEPT !.vty.mode = MODE_EXEC] ELSE shell
<1>1. ShellType(sh) /\ VtyInv(sh.vty) /\ sh.at \in Running
  <2>1. ShellType(shell) /\ VtyInv(shell.vty)
    BY DEF TypeInv, PrivilegeInv
  <2>2. VtyInv([shell.vty EXCEPT !.mode = MODE_EXEC])
    BY <2>1, VtyChanged DEF VtyInv, Modes
  <2> DEFINE out == [shell EXCEPT !.vty = [shell.vty EXCEPT !.mode = MODE_EXEC]]
  <2>3. [shell EXCEPT !.vty.mode = MODE_EXEC] = out
    OBVIOUS
  <2>4. ShellType(out) /\ out.vty = [shell.vty EXCEPT !.mode = MODE_EXEC] /\ out.at = shell.at
    BY <2>1 DEF ShellType
  <2> HIDE DEF out
  <2> QED
    BY <2>1, <2>2, <2>3, <2>4
<1> HIDE DEF sh
<1>2. Enter(sh, edited, key = "?") \/ shell' = [sh EXCEPT !.line = edited]
  BY DEF Typed, sh
<1>3. CASE Enter(sh, edited, key = "?")
  BY <1>1, <1>3, EnterKeeps
<1>4. CASE shell' = [sh EXCEPT !.line = edited]
  BY <1>1, <1>4 DEF ShellType
<1> QED
  BY <1>2, <1>3, <1>4

\* A line that is run.
LEMMA AfterRunKeeps ==
  ASSUME TypeInv, PrivilegeInv, RunCommand
  PROVE  ShellType(shell') /\ shell'.at \in Running /\ VtyInv(shell'.vty)
<1> DEFINE ran == [shell EXCEPT !.vty = RunWords(OwnWords(shell.n), shell.vty)]
<1>1. ShellType(shell) /\ VtyInv(shell.vty) /\ shell.n \in Nat
  BY DEF TypeInv, PrivilegeInv, ShellType
<1>2. VtyInv(RunWords(OwnWords(shell.n), shell.vty))
  BY <1>1, RunWordsKeeps
<1>3. ShellType(ran) /\ VtyInv(ran.vty)
  BY <1>1, <1>2 DEF ShellType
<1>4. shell' = AfterRun(ran)
  BY DEF RunCommand
<1> HIDE DEF ran
<1>5. shell' \in {[ran EXCEPT !.at = "closing"], SameLine(ran), NextLine(ran)}
  BY <1>4 DEF AfterRun
<1>6. CASE shell' = [ran EXCEPT !.at = "closing"]
  BY <1>3, <1>6 DEF ShellType, Running
<1> QED
  BY <1>3, <1>5, <1>6, NextLineKeeps DEF Running
-----------------------------------------------------------------------------
\* Every step preserves the invariant.

LEMMA InitInv == Init => Inv
<1> SUFFICES ASSUME Init PROVE Inv
  OBVIOUS
<1>1. TypeInv
  BY DEF Init, TypeInv, NoShell, ShellType, Running
<1>2. PrivilegeInv
  BY NewVtys DEF Init, PrivilegeInv, NoShell
<1> QED
  BY <1>1, <1>2 DEF Inv, Init, ThreadInv, EndInv, NoticeInv, NoShell

\* A step of nobody but the OLT, the timer or the async thread.
LEMMA OutsideKeeps ==
  ASSUME Inv, UNCHANGED <<session, at, thread, shell, lost>>,
         queue' \in Seq(Messages), Notice \in Range(queue) => Notice \in Range(queue'),
         DOMAIN async' = {"at", "n"}, async'.n \in Nat, requests' \in Seq(Commands), VtyInv(oamVty')
  PROVE  Inv'
  BY DEF Inv, TypeInv, PrivilegeInv, ThreadInv, EndInv, NoticeInv

LEMMA InputKeeps ==
  ASSUME Inv,
         \/ \E s \in Sessions :
              \/ \E code \in {"CONREQ", "FREEREQ", "KPL"} : PtyTrans(s, code, <<>>)
              \/ \E text \in Texts : PtyTrans(s, "DATA", text)
         \/ \E c \in Commands : AsyncTrans(c)
         \/ ShellTimerNoti
  PROVE  Inv'
<1> USE DEF Inv, TypeInv, PrivilegeInv
<1>1. ASSUME NEW m \in Messages, queue' = Put(queue, m),
             UNCHANGED <<session, at, thread, shellVars, oamVars, lost>>
      PROVE  Inv'
  <2>1. queue' \in Seq(Messages) /\ (Notice \in Range(queue) => Notice \in Range(queue'))
    BY <1>1, PutKeeps
  <2> HIDE DEF Inv
  <2> QED
    BY <1>1, <2>1, OutsideKeeps DEF shellVars, oamVars, Inv
<1>2. ASSUME NEW s \in Sessions, NEW code \in {"CONREQ", "FREEREQ", "KPL"}, PtyTrans(s, code, <<>>) PROVE Inv'
  <2>1. Packet(s, code, <<>>) \in Messages
    BY DEF Messages
  <2> QED
    BY <1>1, <1>2, <2>1 DEF PtyTrans
<1>3. ASSUME NEW s \in Sessions, NEW text \in Texts, PtyTrans(s, "DATA", text) PROVE Inv'
  <2>1. Packet(s, "DATA", text) \in Messages
    BY DEF Messages
  <2> QED
    BY <1>1, <1>3, <2>1 DEF PtyTrans
<1>4. ASSUME NEW c \in Commands, AsyncTrans(c) PROVE Inv'
  <2>1. requests' \in Seq(Commands)
    BY <1>4, PutKeeps DEF AsyncTrans
  <2> HIDE DEF Inv
  <2> QED
    BY <1>4, <2>1, OutsideKeeps DEF AsyncTrans, ptyVars, shellVars, Inv
<1>5. CASE ShellTimerNoti
  <2>1. Tick \in Messages
    BY DEF Messages
  <2>2. queue' = Put(queue, Tick)
    BY <1>5, QueueAssumption DEF ShellTimerNoti, Put, Full
  <2> QED
    BY <1>1, <1>5, <2>1, <2>2 DEF ShellTimerNoti
<1> QED
  BY <1>2, <1>3, <1>4, <1>5

\* Requests, which no shell sees.
LEMMA AsyncKeeps ==
  ASSUME Inv, Async
  PROVE  Inv'
<1> USE DEF Inv, TypeInv, PrivilegeInv
<1>1. CASE TakeRequest
  <2>1. requests' = Tail(requests) /\ requests # <<>> /\ Head(requests) \in Seq(STRING)
    BY <1>1, CommandsAssumption DEF TakeRequest
  <2>2. IsFiniteSet(DOMAIN Head(requests))
    BY <2>1, SeqFinite DEF IsSeq
  <2>3. Len(Words(Head(requests))) \in Nat
    BY <2>2, WordsSeq
  <2>4. async' = [at |-> "finding", n |-> Len(Words(Head(requests)))]
    BY <1>1 DEF TakeRequest
  <2>5. DOMAIN async' = {"at", "n"} /\ async'.n \in Nat
    BY <2>3, <2>4
  <2>6. requests' \in Seq(Commands)
    BY <2>1
  <2> HIDE DEF Inv
  <2> QED
    BY <1>1, <2>5, <2>6, OutsideKeeps DEF TakeRequest, ptyVars, shellVars, Inv
<1>2. CASE RunRequest
  <2>1. VtyInv(oamVty')
    BY <1>2, RunWordsKeeps DEF RunRequest
  <2>2. DOMAIN async' = {"at", "n"} /\ async'.n \in Nat
    BY <1>2 DEF RunRequest
  <2> HIDE DEF Inv
  <2> QED
    BY <1>2, <2>1, <2>2, OutsideKeeps DEF RunRequest, ptyVars, shellVars, Inv
<1> QED
  BY <1>1, <1>2 DEF Async

\* The shell: it ends with a notice, if there is room for one.
LEMMA ShellKeeps ==
  ASSUME Inv, Shell
  PROVE  Inv'
<1> USE DEF Inv, TypeInv, PrivilegeInv, ThreadInv, EndInv, NoticeInv
<1>1. ASSUME UNCHANGED <<ptyVars, oamVars, lost>>, shell.at \in Running,
             ShellType(shell') /\ shell'.at \in Running /\ VtyInv(shell'.vty)
      PROVE  Inv'
  BY <1>1 DEF ptyVars, oamVars, Running, None
<1>2. CASE ReadKey
  <2>1. PICK line, key, edited : Typed(line, key, edited)
    BY <1>2 DEF ReadKey
  <2>2. shell.at \in Running
    BY <1>2 DEF ReadKey, Running
  <2> HIDE DEF Inv, ThreadInv, EndInv, NoticeInv, TypeInv, PrivilegeInv
  <2>3. ShellType(shell') /\ shell'.at \in Running /\ VtyInv(shell'.vty)
    BY <2>1, <2>2, TypedKeeps DEF Inv
  <2> QED
    BY <1>1, <1>2, <2>2, <2>3 DEF ReadKey
<1>3. CASE RunCommand
  <2>1. shell.at \in Running
    BY <1>3 DEF RunCommand, Running
  <2> HIDE DEF Inv, ThreadInv, EndInv, NoticeInv, TypeInv, PrivilegeInv
  <2>2. ShellType(shell') /\ shell'.at \in Running /\ VtyInv(shell'.vty)
    BY <1>3, AfterRunKeeps DEF Inv
  <2> QED
    BY <1>1, <1>3, <2>1, <2>2 DEF RunCommand
<1>4. CASE ShellCloseNoti
  <2>1. /\ shell.at = "closing" /\ queue' = Put(queue, Notice) /\ lost' = (lost \/ Full(queue))
        /\ shell' = [NoShell EXCEPT !.at = "ended", !.vty = shell.vty]
        /\ UNCHANGED <<session, at, thread, requests, async, oamVty>>
    BY <1>4 DEF ShellCloseNoti, oamVars
  <2>2. Notice \in Messages
    BY DEF Messages
  <2>3. queue' \in Seq(Messages) /\ (Notice \in Range(queue') \/ lost')
    BY <2>1, <2>2, PutKeeps
  <2>4. ShellType(shell') /\ shell'.at = "ended" /\ shell'.vty = shell.vty
    BY <2>1 DEF NoShell, ShellType
  <2>5. shell.at # None
    BY <2>1 DEF None
  <2> QED
    BY <2>1, <2>3, <2>4, <2>5
<1> QED
  BY <1>2, <1>3, <1>4 DEF Shell

\* The main thread's steps on the session, the shell left alone.
LEMMA MainKeeps ==
  ASSUME Inv, MainThread
  PROVE  Inv'
<1> USE DEF Inv, TypeInv, PrivilegeInv, ThreadInv, EndInv, NoticeInv
<1>1. ASSUME Take
      PROVE  /\ at = "idle" /\ queue' \in Seq(Messages) /\ Head(queue) \in Messages
             /\ Head(queue).kind # "notice" /\ Notice \in Range(queue) => Notice \in Range(queue')
             /\ Head(queue).kind = "packet" => Head(queue).session # None
  BY <1>1, TakeKeeps, MessageKinds DEF Take, Notice
<1>2. ASSUME Take, Head(queue).kind # "notice", at' \notin {"deleting", "told"},
             UNCHANGED <<session, thread, shell, oamVars, lost>>
      PROVE  Inv'
  BY <1>1, <1>2 DEF oamVars
<1>3. ASSUME at \notin {"deleting", "told"}, at' \notin {"deleting", "told"},
             queue' \in Seq(Messages), Notice \in Range(queue) => Notice \in Range(queue'),
             UNCHANGED <<session, thread, shell, oamVars, lost>>
      PROVE  Inv'
  BY <1>3 DEF oamVars
<1>4. CASE TimerMsgProcess
  BY <1>2, <1>4 DEF TimerMsgProcess, Took, shellVars
<1>5. CASE CloseSilent
  <2>1. queue' \in Seq(Messages) /\ (Notice \in Range(queue) => Notice \in Range(queue'))
    BY <1>5, PutKeeps DEF CloseSilent, Messages
  <2> QED
    BY <1>3, <1>5, <2>1 DEF CloseSilent, shellVars
<1>6. CASE NotiMsgProcess
  BY <1>1, <1>6 DEF NotiMsgProcess, Took, shellVars, oamVars
<1>7. CASE CloseSession
  BY <1>7 DEF CloseSession, shellVars, oamVars
<1>8. CASE DeleteShell
  <2>1. at = "deleting" /\ session = None /\ session' = None /\ thread' = FALSE /\ at' = "idle"
            /\ queue' = queue
    BY <1>8 DEF DeleteShell
  <2>2. shell'.at = None /\ ShellType(shell') /\ VtyInv(shell'.vty)
    BY <1>8, NewVtys DEF DeleteShell, NoShell, ShellType
  <2> QED
    BY <1>8, <2>1, <2>2 DEF DeleteShell, oamVars
<1>9. CASE ConnectReqPro
  <2>1. Take /\ Head(queue).kind = "packet" /\ at' = at
    BY <1>9 DEF ConnectReqPro, TookPacket, Took
  <2>2. CASE session # None
    BY <1>2, <1>9, <2>1, <2>2, <1>1 DEF ConnectReqPro
  <2>3. CASE session = None
    <3>1. ~ thread /\ shell.at = None /\ session' = Head(queue).session /\ session' # None
      BY <1>1, <1>9, <2>1, <2>3 DEF ConnectReqPro
    <3>2. CASE thread' = TRUE /\ shell' = NewShell /\ lost' = lost
      <4>1. ShellType(shell') /\ shell'.at = "reading" /\ VtyInv(shell'.vty)
        BY <3>2, NewVtys DEF NewShell, NoShell, ShellType, Running
      <4> QED
        BY <1>1, <1>9, <2>1, <3>1, <3>2, <4>1 DEF ConnectReqPro, oamVars, Running
    <3>3. CASE lost' = TRUE /\ UNCHANGED <<thread, shell>>
      BY <1>1, <1>9, <2>1, <3>1, <3>3 DEF ConnectReqPro, oamVars
    <3> QED
      BY <1>9, <2>3, <3>1, <3>2, <3>3 DEF ConnectReqPro
  <2> QED
    BY <2>2, <2>3
<1>10. CASE ConFreeReqPro
  BY <1>2, <1>10 DEF ConFreeReqPro, TookPacket, Took, shellVars
<1>11. CASE TypeQuit
  BY <1>3, <1>11 DEF TypeQuit
<1>12. CASE Data
  BY <1>1, <1>2, <1>12 DEF Data, TookPacket, Took
<1>13. CASE KeepAlive
  BY <1>1, <1>2, <1>13 DEF KeepAlive, TookPacket, Took, shellVars
<1> QED
  BY <1>4, <1>5, <1>6, <1>7, <1>8, <1>9, <1>10, <1>11, <1>12, <1>13 DEF MainThread

LEMMA InvHolds == Spec => []Inv
<1>1. Inv /\ [Next]_vars => Inv'
  <2> SUFFICES ASSUME Inv, [Next]_vars PROVE Inv'
    OBVIOUS
  <2>1. CASE UNCHANGED vars
    BY <2>1 DEF vars, ptyVars, shellVars, oamVars, Inv, TypeInv, PrivilegeInv, ThreadInv, EndInv, NoticeInv
  <2>2. CASE Next
    BY <2>2, InputKeeps, MainKeeps, ShellKeeps, AsyncKeeps DEF Next
  <2> QED
    BY <2>1, <2>2
<1> QED
  BY <1>1, InitInv, PTL DEF Spec
-----------------------------------------------------------------------------
\* The shell's line and history; a line that is run is not empty, and one that
\* asked has its cursor behind the question.
ShellLine(sh) ==
  /\ LineInv(sh.line) /\ HistoryInv(sh.history)
  /\ sh.at = "finding" => sh.line.l # 0
  /\ sh.at = "finding" /\ sh.asked => sh.line.cursor = sh.line.l

LineShellInv == ShellLine(shell)

LEMMA NextLineLine ==
  ASSUME NEW sh, ShellType(sh), HistoryInv(sh.history)
  PROVE  ShellLine(NextLine(sh))
<1>1. NextLine(sh).line = FreshLine /\ NextLine(sh).history = sh.history /\ NextLine(sh).at = "reading"
  BY DEF NextLine, ShellType
<1> QED
  BY <1>1, FreshKeeps DEF ShellLine

LEMMA SameLineLine ==
  ASSUME NEW sh, ShellType(sh), ShellLine(sh), sh.line.l # 0, sh.line.cursor = sh.line.l
  PROVE  ShellLine(SameLine(sh))
<1> DEFINE same == SameOf(sh.line)
<1>1. SameLine(sh) = [sh EXCEPT !.at = "reading", !.line = same]
  BY DEF SameLine, SameOf
<1> HIDE DEF same
<1>2. SameLine(sh).line = same /\ SameLine(sh).history = sh.history /\ SameLine(sh).at = "reading"
  BY <1>1 DEF ShellType
<1>3. LineInv(same)
  BY SameKeeps DEF ShellLine, same
<1> QED
  BY <1>2, <1>3 DEF ShellLine

LEMMA EnterLine ==
  ASSUME NEW sh, ShellType(sh), HistoryInv(sh.history), NEW line, LineInv(line),
         NEW asked, asked => line.cursor = line.l, Enter(sh, line, asked)
  PROVE  ShellLine(shell')
<1> DEFINE s == String(line.cmd)
           entered == [sh EXCEPT !.line = line, !.asked = asked]
           noted == IF line.cmd[line.l - 1] = "?" \/ s = <<"h">> THEN entered
                    ELSE [entered EXCEPT !.history = AddHistory(@, s)]
<1>1. ShellType(entered) /\ entered.line = line /\ entered.history = sh.history /\ (entered.asked => asked)
  BY DEF ShellType
<1>2. HistoryInv(AddHistory(entered.history, s))
  BY <1>1, StringText, AddHistoryKeeps
<1> HIDE DEF entered, s
<1>3. ShellType(noted) /\ noted.line = line /\ HistoryInv(noted.history) /\ (noted.asked => asked)
  BY <1>1, <1>2 DEF ShellType
<1> HIDE DEF noted
<1>4. \/ shell' = [entered EXCEPT !.at = "closing"]
      \/ shell' = NextLine(entered)
      \/ line.l # 0 /\ shell' = [noted EXCEPT !.at = "finding", !.n = Len(Words(s))]
  BY DEF Enter, s, entered, noted
<1>5. CASE shell' = [entered EXCEPT !.at = "closing"]
  <2>1. shell'.line = line /\ shell'.history = sh.history /\ shell'.at = "closing"
    BY <1>1, <1>5 DEF ShellType
  <2> QED
    BY <2>1 DEF ShellLine
<1>6. CASE shell' = NextLine(entered)
  BY <1>1, <1>6, NextLineLine
<1>7. CASE line.l # 0 /\ shell' = [noted EXCEPT !.at = "finding", !.n = Len(Words(s))]
  <2>1. shell'.line = line /\ shell'.history = noted.history /\ (shell'.asked => noted.asked)
    BY <1>3, <1>7 DEF ShellType
  <2> QED
    BY <1>3, <1>7, <2>1 DEF ShellLine
<1> QED
  BY <1>4, <1>5, <1>6, <1>7

LEMMA TypedLine ==
  ASSUME ShellType(shell), LineShellInv, shell.at = "reading",
         NEW line, NEW key, NEW edited, LineInv(edited), Typed(line, key, edited)
  PROVE  ShellLine(shell')
<1> DEFINE sh == IF key = "^Z" THEN [shell EXCEPT !.vty.mode = MODE_EXEC] ELSE shell
<1>1. ShellType(sh) /\ sh.at = "reading" /\ HistoryInv(sh.history)
  <2> DEFINE Out(v) == [shell EXCEPT !.vty = v]
  <2>1. \A v : ShellType(Out(v)) /\ Out(v).at = shell.at /\ Out(v).history = shell.history
    BY DEF ShellType
  <2>2. [shell EXCEPT !.vty.mode = MODE_EXEC] = Out([shell.vty EXCEPT !.mode = MODE_EXEC])
    OBVIOUS
  <2> HIDE DEF Out
  <2> QED
    BY <2>1, <2>2 DEF LineShellInv, ShellLine
<1> HIDE DEF sh
<1>2. \/ Ends(line, key, edited) /\ Enter(sh, edited, key = "?")
      \/ shell' = [sh EXCEPT !.line = edited]
  BY DEF Typed, sh
<1>3. CASE Ends(line, key, edited) /\ Enter(sh, edited, key = "?")
  <2>1. key = "?" => edited.cursor = edited.l
    BY <1>3 DEF Ends
  <2> QED
    BY <1>1, <1>3, <2>1, EnterLine
<1>4. CASE shell' = [sh EXCEPT !.line = edited]
  <2>1. shell'.line = edited /\ shell'.history = sh.history /\ shell'.at = "reading"
    BY <1>1, <1>4 DEF ShellType
  <2> QED
    BY <1>1, <2>1 DEF ShellLine
<1> QED
  BY <1>2, <1>3, <1>4

LEMMA ReadKeyLine ==
  ASSUME ShellType(shell), LineShellInv, ReadKey
  PROVE  ShellLine(shell')
<1> DEFINE c == Head(socket)
           line == [shell.line EXCEPT !.esc = EscAfter(shell.line, c)]
           key == KeySeen(shell.line, c)
           edited == IF key = "CR" THEN line ELSE Edited(line, key, shell)
<1>1. shell.at = "reading" /\ Typed(line, key, edited)
  BY DEF ReadKey
<1>2. LineInv(shell.line) /\ HistoryInv(shell.history)
  BY DEF LineShellInv, ShellLine
<1> HIDE DEF key
<1>3. LineInv(line)
  <2> DEFINE e == EscAfter(shell.line, c)
  <2> HIDE DEF e
  <2> DEFINE new == [shell.line EXCEPT !.esc = e]
  <2>1. LineType(shell.line)
    BY <1>2 DEF LineInv
  <2>2. /\ DOMAIN new = DOMAIN shell.line /\ new.cmd = shell.line.cmd /\ new.l = shell.line.l
        /\ new.cursor = shell.line.cursor /\ new.in_history = shell.line.in_history
        /\ new.left = shell.line.left /\ new.right = shell.line.right
        /\ ~ new.garbled => ~ shell.line.garbled
    BY <2>1 DEF LineType
  <2> HIDE DEF new
  <2>3. LineType(new)
    BY <2>1, <2>2 DEF LineType
  <2>4. ~ new.garbled => Bond(new)
    BY <1>2, <2>2 DEF LineInv, Bond
  <2> QED
    BY <2>3, <2>4 DEF LineInv, new, e
<1> HIDE DEF line
<1>4. LineInv(edited)
  BY <1>2, <1>3, EditedKeeps
<1> HIDE DEF edited
<1> QED
  BY <1>1, <1>4, TypedLine

LEMMA RunCommandLine ==
  ASSUME ShellType(shell), LineShellInv, RunCommand
  PROVE  ShellLine(shell')
<1> DEFINE v == RunWords(OwnWords(shell.n), shell.vty)
           ran == [shell EXCEPT !.vty = v]
<1>1. shell.at = "finding" /\ shell' = AfterRun(ran)
  BY DEF RunCommand
<1> HIDE DEF v
<1>2. /\ ShellType(ran) /\ ran.line = shell.line /\ ran.history = shell.history /\ ran.at = shell.at
      /\ ran.asked => shell.asked
  BY DEF ShellType
<1> HIDE DEF ran
<1>3. \/ shell' = [ran EXCEPT !.at = "closing"]
      \/ ran.asked /\ shell' = SameLine(ran)
      \/ shell' = NextLine(ran)
  BY <1>1 DEF AfterRun
<1>4. ShellLine(ran) /\ HistoryInv(ran.history) /\ LineInv(ran.line)
  BY <1>2 DEF LineShellInv, ShellLine
<1>5. CASE shell' = [ran EXCEPT !.at = "closing"]
  <2>1. shell'.line = ran.line /\ shell'.history = ran.history /\ shell'.at = "closing"
    BY <1>2, <1>5 DEF ShellType
  <2> QED
    BY <1>4, <2>1 DEF ShellLine
<1>6. CASE ran.asked /\ shell' = SameLine(ran)
  <2>1. ran.line.l # 0 /\ ran.line.cursor = ran.line.l
    BY <1>1, <1>2, <1>4, <1>6 DEF ShellLine
  <2> QED
    BY <1>2, <1>4, <1>6, <2>1, SameLineLine
<1>7. CASE shell' = NextLine(ran)
  BY <1>2, <1>4, <1>7, NextLineLine
<1> QED
  BY <1>3, <1>5, <1>6, <1>7

LEMMA NoShellLine ==
  ASSUME NEW sh, sh.line = FreshLine, sh.history = NoHistory, sh.at # "finding"
  PROVE  ShellLine(sh)
  BY FreshKeeps, NoHistoryInv DEF ShellLine

LEMMA LineShellKeeps ==
  ASSUME Inv, LineShellInv, [Next]_vars
  PROVE  LineShellInv'
<1>1. ShellType(shell)
  BY DEF Inv, TypeInv
<1>2. CASE UNCHANGED shell
  BY <1>2 DEF LineShellInv
<1>3. CASE ReadKey
  BY <1>1, <1>3, ReadKeyLine DEF LineShellInv
<1>4. CASE RunCommand
  BY <1>1, <1>4, RunCommandLine DEF LineShellInv
<1>5. CASE ShellCloseNoti
  <2>1. shell' = [NoShell EXCEPT !.at = "ended", !.vty = shell.vty]
    BY <1>5 DEF ShellCloseNoti
  <2>2. shell'.line = FreshLine /\ shell'.history = NoHistory /\ shell'.at # "finding"
    BY <2>1 DEF NoShell
  <2> QED
    BY <2>2, NoShellLine DEF LineShellInv
<1>6. CASE shell' \in {NoShell, NewShell}
  <2>1. shell'.line = FreshLine /\ shell'.history = NoHistory /\ shell'.at # "finding"
    <3>1. NoShell.line = FreshLine /\ NoShell.history = NoHistory /\ NoShell.at # "finding"
      BY DEF NoShell, None
    <3>2. NewShell.line = FreshLine /\ NewShell.history = NoHistory /\ NewShell.at # "finding"
      BY DEF NoShell, NewShell
    <3> QED
      BY <1>6, <3>1, <3>2
  <2> QED
    BY <2>1, NoShellLine DEF LineShellInv
<1>7. CASE DeleteShell
  BY <1>2, <1>6, <1>7 DEF DeleteShell
<1>8. CASE ConnectReqPro
  BY <1>2, <1>6, <1>8 DEF ConnectReqPro
<1>9. CASE MainThread /\ ~ DeleteShell /\ ~ ConnectReqPro
  BY <1>2, <1>9
     DEF MainThread, TimerMsgProcess, CloseSilent, NotiMsgProcess, CloseSession, ConFreeReqPro, TypeQuit,
         Data, KeepAlive, shellVars
<1>10. CASE Async
  BY <1>2, <1>10 DEF Async, TakeRequest, RunRequest, shellVars
<1>11. CASE UNCHANGED vars
  BY <1>2, <1>11 DEF vars, shellVars
<1>12. CASE Next /\ ~ (MainThread \/ Shell \/ Async)
  <2>1. UNCHANGED shell
    BY <1>12 DEF Next, PtyTrans, AsyncTrans, ShellTimerNoti, shellVars
  <2> QED
    BY <1>2, <2>1
<1> QED
  BY <1>3, <1>4, <1>5, <1>7, <1>8, <1>9, <1>10, <1>11, <1>12 DEF Shell
-----------------------------------------------------------------------------
\* Every key of the editor changes the buffer, the length and the cursor in its
\* own way (gw_cli_loop), in every order of keys and whatever is recalled or
\* completed: until a full buffer, an overlong completion or ^Z over a typed line
\* break the bond, they are the text that was typed.
THEOREM LineIsWhatWasTypedCorrect == Spec => []LineIsWhatWasTyped
<1>1. Init => LineShellInv
  <2> SUFFICES ASSUME Init PROVE LineShellInv
    OBVIOUS
  <2>1. shell.line = FreshLine /\ shell.history = NoHistory /\ shell.at # "finding"
    BY DEF Init, NoShell, None
  <2> QED
    BY <2>1, NoShellLine DEF LineShellInv
<1>2. Inv /\ LineShellInv /\ [Next]_vars => LineShellInv'
  BY LineShellKeeps
<1>3. LineShellInv => LineIsWhatWasTyped
  <2> SUFFICES ASSUME LineShellInv, ~ shell.line.garbled
               PROVE  /\ String(shell.line.cmd) = shell.line.left \o shell.line.right
                      /\ shell.line.cursor = Len(shell.line.left)
                      /\ shell.line.l = shell.line.cursor + Len(shell.line.right)
    BY DEF LineIsWhatWasTyped
  <2> DEFINE line == shell.line
  <2>1. LineInv(line) /\ ~ line.garbled
    BY DEF LineShellInv, ShellLine
  <2> HIDE DEF line
  <2>2. Holds(line.cmd, line.l, line.cursor, line.left, line.right)
    BY <2>1 DEF LineInv, Bond
  <2>3. line.cursor = Len(line.left) /\ line.l = line.cursor + Len(line.right)
    BY <2>2, LineAssumption DEF Holds
  <2>4. String(line.cmd) = line.left \o line.right
    <3>1. \A cmd, l, cursor, left, right :
            Holds(cmd, l, cursor, left, right) => String(cmd) = left \o right
      BY StringHolds
    <3> QED
      BY <2>2, <3>1, Zenon
  <2> QED
    BY <2>3, <2>4 DEF line
<1> QED
  BY <1>1, <1>2, <1>3, InvHolds, PTL DEF Spec

\* No sequence of commands, in full or cut short, of ^Z and of lookups that leave
\* a mode brings a session without privilege into a mode of configuration,
\* whatever the tree of commands (gw_cli_run_command, cli_int_*).
THEOREM ConfigNeedsPrivilegeCorrect == Spec => []ConfigNeedsPrivilege
<1>1. Inv => ConfigNeedsPrivilege
  BY DEF Inv, PrivilegeInv, VtyInv, ConfigNeedsPrivilege
<1> QED
  BY <1>1, InvHolds, PTL

\* A shell runs only for a session or while its end is under way, and a session
\* whose shell has ended hears of it unless the notice found the queue full
\* (OamPtyNotiMsgProcess, OamPtyConnectReqPro, OamPtyShellCloseNoti).
THEOREM ShellFollowsSessionCorrect == Spec => []ShellFollowsSession
<1>1. Inv => ShellFollowsSession
  BY DEF Inv, ThreadInv, NoticeInv, ShellFollowsSession, Running, None
<1> QED
  BY <1>1, InvHolds, PTL
-----------------------------------------------------------------------------
\* The names of commands: what tells each from the others.

\* A name and a word that begins it.
Prefix(s, t) == IsSeq(s) /\ IsSeq(t) /\ Len(s) <= Len(t) /\ \A i \in 1 .. Len(s) : t[i] = s[i]

\* A part of a sequence from its start.
LEMMA StartOf ==
  ASSUME NEW t, IsSeq(t), NEW n \in Nat, n <= Len(t)
  PROVE  /\ Prefix(SubSeq(t, 1, n), t) /\ Len(SubSeq(t, 1, n)) = n
         /\ SubSeq(t, 1, n) = [i \in 1 .. n |-> t[i]]
<1> DEFINE s == SubSeq(t, 1, n)
<1>1. IsSeq(s) /\ Len(s) = n /\ \A i \in 1 .. n : s[i] = t[i]
  BY PartSeq
<1>2. s = [i \in 1 .. n |-> s[i]]
  BY <1>1, SeqIsFunction
<1>3. s = [i \in 1 .. n |-> t[i]]
  BY <1>1, <1>2
<1> QED
  BY <1>1, <1>3 DEF Prefix

LEMMA PrefixIsStart ==
  ASSUME NEW s, NEW t, Prefix(s, t)
  PROVE  s = SubSeq(t, 1, Len(s)) /\ Len(s) \in Nat /\ Len(t) \in Nat
<1>1. Len(s) \in Nat /\ Len(t) \in Nat /\ s = [i \in 1 .. Len(s) |-> s[i]]
  BY SeqIsFunction DEF Prefix
<1>2. SubSeq(t, 1, Len(s)) = [i \in 1 .. Len(s) |-> t[i]]
  BY <1>1, StartOf DEF Prefix
<1>3. [i \in 1 .. Len(s) |-> t[i]] = [i \in 1 .. Len(s) |-> s[i]]
  BY DEF Prefix
<1> QED
  BY <1>1, <1>2, <1>3

\* The letters two names share: no more than either has, and all of one that
\* begins the other.
LEMMA SharedLength ==
  ASSUME NEW s, NEW t, IsSeq(s), IsSeq(t)
  PROVE  /\ Len(LongestCommonPrefix({t, s})) \in 0 .. Len(t)
         /\ Prefix(s, t) => Len(LongestCommonPrefix({t, s})) >= Len(s)
<1> DEFINE C == CommonPrefixes({t, s})
           N == {Len(x) : x \in C}
           m == Len(t)
<1>1. Len(s) \in Nat /\ Len(t) \in Nat /\ m \in Nat
  BY SeqIsFunction
<1>2. \A x \in C : Len(x) \in 0 .. Len(t)
  <2> TAKE x \in C
  <2>1. PICK seq \in {t, s} : x \in Prefixes(seq)
    BY DEF CommonPrefixes
  <2>2. IsSeq(seq) /\ Len(seq) \in Nat
    BY <1>1, <2>1
  <2>3. PICK l \in 0 .. Len(seq) : x = SubSeq(seq, 1, l)
    BY <2>1 DEF Prefixes
  <2>4. l \in Nat /\ l <= Len(seq)
    BY <2>2, <2>3
  <2>5. Len(SubSeq(seq, 1, l)) = l
    BY <2>2, <2>4, StartOf
  <2>6. Len(x) <= Len(t)
    BY DEF CommonPrefixes, IsPrefix
  <2> QED
    BY <1>1, <2>3, <2>4, <2>5, <2>6
<1>3. \A x : Prefix(x, t) /\ Prefix(x, s) => x \in C
  <2> SUFFICES ASSUME NEW x, Prefix(x, t), Prefix(x, s) PROVE x \in C
    OBVIOUS
  <2>1. x = SubSeq(t, 1, Len(x)) /\ x = SubSeq(s, 1, Len(x)) /\ Len(x) \in Nat /\ Len(x) <= Len(t) /\ Len(x) <= Len(s)
    BY PrefixIsStart DEF Prefix
  <2>2. x \in Prefixes(t)
    <3> DEFINE l == Len(x)
    <3>1. l \in 0 .. Len(t) /\ x = SubSeq(t, 1, l)
      BY <1>1, <2>1
    <3> HIDE DEF l
    <3> QED
      BY <3>1 DEF Prefixes
  <2>3. SubSeq(x, 1, Len(x)) = x
    <3>1. IsSeq(x)
      BY DEF Prefix
    <3>2. SubSeq(x, 1, Len(x)) = [i \in 1 .. Len(x) |-> x[i]]
      BY <2>1, <3>1, StartOf
    <3> QED
      BY <3>1, <3>2, SeqIsFunction
  <2>4. \A y \in {t, s} : IsPrefix(x, y)
    BY <2>1, <2>3 DEF IsPrefix
  <2> QED
    BY <2>2, <2>4 DEF CommonPrefixes
<1>4. C # {}
  <2>1. Prefix(<<>>, t) /\ Prefix(<<>>, s)
    BY <1>1, EmptyIsSeq DEF Prefix
  <2> HIDE DEF C
  <2> QED
    BY <1>3, <2>1
<1> DEFINE best == LongestCommonPrefix({t, s})
<1>5. best \in C /\ \A x \in C : Len(x) <= Len(best)
  <2> HIDE DEF C
  <2>1. N \subseteq 0 .. m /\ N # {}
    BY <1>2, <1>4
  <2> HIDE DEF N, m
  <2>2. Max(N) \in N /\ \A y \in N : y <= Max(N)
    BY <1>1, <2>1, GreatestNatural
  <2>3. PICK x \in C : Max(N) = Len(x)
    BY <2>2 DEF N
  <2>4. \A y \in C : Len(y) <= Len(x)
    BY <2>2, <2>3 DEF N
  <2>5. best = CHOOSE longest \in C : \A other \in C : Len(other) <= Len(longest)
    BY DEF LongestCommonPrefix, C
  <2> HIDE DEF best
  <2> QED
    BY <2>3, <2>4, <2>5
<1> HIDE DEF best
<1>6. Len(best) \in 0 .. Len(t)
  BY <1>2, <1>5
<1>7. ASSUME Prefix(s, t) PROVE Len(best) >= Len(s)
  <2>1. Prefix(s, s)
    BY <1>1 DEF Prefix
  <2>2. s \in C
    BY <1>3, <1>7, <2>1
  <2>3. Len(s) <= Len(best)
    BY <1>5, <2>2
  <2> QED
    BY <1>1, <1>6, <2>3
<1> QED
  BY <1>6, <1>7 DEF best

\* A command's name in full is more than another's that begins it.
Longer(c, i) == Prefix(Tree[i].name, Tree[c].name) /\ Tree[i].name # Tree[c].name

LEMMA NamesAreSeqs ==
  ASSUME NEW i \in DOMAIN Tree
  PROVE  /\ IsSeq(Tree[i].name) /\ Len(Tree[i].name) \in Nat /\ i \in Nat \ {0}
         /\ Tree[i].under \in Nat /\ Tree[i].under < i
  BY TreeAssumption DEF IsSeq

\* The letters that tell a name from the others in a list are more than the name
\* of any of these that begins it has.
LEMMA ShortestTells ==
  ASSUME NEW list, list \subseteq DOMAIN Tree, NEW c \in DOMAIN Tree, NEW i \in list, Longer(c, i)
  PROVE  Shortest(c, list) \in Nat /\ Shortest(c, list) > Len(Tree[i].name)
<1> DEFINE shared(p) == Len(LongestCommonPrefix({Tree[c].name, Tree[p].name}))
           S == {1} \union {1 + shared(p) : p \in list \ {c}}
           n == 1 + Len(Tree[c].name)
<1>1. n \in Nat /\ \A p \in list : shared(p) \in 0 .. Len(Tree[c].name)
  <2>1. n \in Nat /\ IsSeq(Tree[c].name)
    BY NamesAreSeqs
  <2>2. ASSUME NEW p \in list PROVE shared(p) \in 0 .. Len(Tree[c].name)
    <3>1. IsSeq(Tree[p].name)
      BY NamesAreSeqs
    <3> QED
      BY <2>1, <3>1, SharedLength
  <2> QED
    BY <2>1, <2>2
<1>2. shared(i) >= Len(Tree[i].name) /\ i # c /\ i \in list
  BY NamesAreSeqs, SharedLength DEF Longer
<1>3. Len(Tree[i].name) \in Nat /\ Len(Tree[c].name) \in Nat
  BY NamesAreSeqs
<1>4. Shortest(c, list) = Greatest(S)
  BY DEF Shortest
<1> HIDE DEF shared
<1>5. S \subseteq 0 .. n /\ S # {} /\ 1 + shared(i) \in S
  BY <1>1, <1>2, <1>3
<1> HIDE DEF S, n
<1>6. Greatest(S) \in S /\ \A y \in S : y <= Greatest(S)
  BY <1>1, <1>5, GreatestIs
<1> DEFINE g == Greatest(S)
<1>7. g \in Nat /\ 1 + shared(i) <= g
  <2>1. g \in 0 .. n
    BY <1>5, <1>6
  <2> HIDE DEF g
  <2> QED
    BY <1>1, <1>5, <1>6, <2>1 DEF g
<1>8. shared(i) \in Nat
  BY <1>1, <1>2, <1>3
<1> HIDE DEF g
<1> QED
  BY <1>2, <1>3, <1>4, <1>7, <1>8 DEF g
-----------------------------------------------------------------------------
\* A registration, gw_cli_build_shortest: the list it is given, and what is below.
Top(n) ==
  IF Tree[n].under = 0 THEN Children(0) \intersect (1 .. n)
  ELSE {j \in Children(Tree[Tree[n].under].under) \intersect (1 .. n) : j >= Tree[n].under}

Below(top, n, g) == g = [j \in 0 .. n |-> j \in top \/ (j > 0 /\ g[Tree[j].under])]

LEMMA BelowExists ==
  ASSUME NEW top, NEW n \in 0 .. Len(Tree)
  PROVE  \E g : Below(top, n, g)
<1> DEFINE bad == {m \in 0 .. Len(Tree) : ~ \E g : Below(top, m, g)}
<1>1. ASSUME bad # {} PROVE FALSE
  <2>1. PICK m \in bad : \A k \in bad : m =< k
    <3>1. bad \subseteq Nat
      OBVIOUS
    <3> QED
      BY <1>1, <3>1, LeastNatural
  <2>2. CASE m = 0
    <3> DEFINE g == [j \in 0 .. 0 |-> j \in top]
    <3>1. \A j \in 0 .. 0 : g[j] = (j \in top \/ (j > 0 /\ g[Tree[j].under]))
      OBVIOUS
    <3>2. g = [j \in 0 .. 0 |-> g[j]]
      OBVIOUS
    <3> HIDE DEF g
    <3>3. Below(top, 0, g)
      BY <3>1, <3>2 DEF Below
    <3> QED
      BY <2>1, <2>2, <3>3
  <2>3. CASE m # 0
    <3>1. m - 1 \in 0 .. Len(Tree) /\ m - 1 \notin bad
      BY <2>1, <2>3, TreeAssumption
    <3>2. PICK g : Below(top, m - 1, g)
      BY <3>1
    <3> DEFINE h == [j \in 0 .. m |-> IF j < m THEN g[j] ELSE (m \in top \/ g[Tree[m].under])]
    <3>3. \A j \in 0 .. m - 1 : g[j] = (j \in top \/ (j > 0 /\ g[Tree[j].under]))
      BY <3>2, Zenon DEF Below
    <3>4. \A j \in 0 .. m : h[j] = (j \in top \/ (j > 0 /\ h[Tree[j].under]))
      <4> TAKE j \in 0 .. m
      <4>1. j > 0 => Tree[j].under \in 0 .. m /\ Tree[j].under < m
        BY <2>1, TreeAssumption
      <4>2. j > 0 => h[Tree[j].under] = g[Tree[j].under]
        BY <4>1
      <4>3. CASE j < m
        <5>1. j \in 0 .. m - 1 /\ h[j] = g[j]
          BY <2>1, <4>3
        <5> QED
          BY <3>3, <4>2, <5>1, Zenon
      <4>4. CASE j = m
        <5>1. h[j] = (m \in top \/ g[Tree[m].under]) /\ j > 0
          BY <2>1, <2>3, <4>4
        <5> QED
          BY <4>2, <4>4, <5>1, Zenon
      <4> QED
        BY <2>1, <4>3, <4>4
    <3>5. h = [j \in 0 .. m |-> h[j]]
      OBVIOUS
    <3> HIDE DEF h
    <3>6. Below(top, m, h)
      BY <3>4, <3>5, Zenon DEF Below
    <3> QED
      BY <2>1, <3>6
  <2> QED
    BY <2>2, <2>3
<1> QED
  BY <1>1

LEMMA RegistrationOf ==
  ASSUME NEW n \in DOMAIN Tree, NEW unique
  PROVE  \E below :
           /\ Below(Top(n), n, below)
           /\ AfterRegistration(unique, n) =
                [c \in 1 .. n |->
                   IF c \in Top(n) THEN Shortest(c, Top(n))
                   ELSE IF below[c] THEN Shortest(c, Children(Tree[c].under) \intersect (1 .. n))
                   ELSE unique[c]]
<1> DEFINE below == CHOOSE g : Below(Top(n), n, g)
<1>1. Below(Top(n), n, below)
  <2>1. n \in 0 .. Len(Tree)
    BY TreeAssumption
  <2> QED
    BY <2>1, BelowExists, Zenon
<1>2. AfterRegistration(unique, n) =
        [c \in 1 .. n |->
           IF c \in Top(n) THEN Shortest(c, Top(n))
           ELSE IF below[c] THEN Shortest(c, Children(Tree[c].under) \intersect (1 .. n))
           ELSE unique[c]]
  BY Zenon DEF AfterRegistration, Top, Below
<1> QED
  BY <1>1, <1>2, Zenon

\* A command is told from every later one of its list whose name begins its own.
TellsApart(unique, n) ==
  \A c, i \in 1 .. n :
    c < i /\ Tree[c].under = Tree[i].under /\ Longer(c, i) =>
      unique[c] \in Nat /\ unique[c] > Len(Tree[i].name)

\* A registration recomputes a command with all the later ones of its list or
\* leaves it alone, and one of another command of its list recomputes it.
LEMMA RegistrationTells ==
  ASSUME NEW n \in DOMAIN Tree, NEW unique, TellsApart(unique, n - 1)
  PROVE  TellsApart(AfterRegistration(unique, n), n)
<1>1. PICK below :
        /\ Below(Top(n), n, below)
        /\ AfterRegistration(unique, n) =
             [c \in 1 .. n |->
                IF c \in Top(n) THEN Shortest(c, Top(n))
                ELSE IF below[c] THEN Shortest(c, Children(Tree[c].under) \intersect (1 .. n))
                ELSE unique[c]]
  BY RegistrationOf, Zenon
<1> SUFFICES ASSUME NEW c \in 1 .. n, NEW i \in 1 .. n,
                    c < i, Tree[c].under = Tree[i].under, Longer(c, i)
             PROVE  /\ AfterRegistration(unique, n)[c] \in Nat
                    /\ AfterRegistration(unique, n)[c] > Len(Tree[i].name)
  BY DEF TellsApart
<1> DEFINE list == Children(Tree[c].under) \intersect (1 .. n)
           parent == Tree[n].under
<1>2. /\ n \in Nat \ {0} /\ c \in DOMAIN Tree /\ i \in DOMAIN Tree
      /\ parent \in 0 .. n - 1 /\ \A j \in DOMAIN Tree : Tree[j].under \in 0 .. j - 1
      /\ 1 .. n \subseteq DOMAIN Tree
  BY TreeAssumption
<1>3. list \subseteq DOMAIN Tree /\ i \in list /\ Top(n) \subseteq DOMAIN Tree
  BY <1>2 DEF Children, Top
<1>4. Shortest(c, list) \in Nat /\ Shortest(c, list) > Len(Tree[i].name)
  BY <1>2, <1>3, ShortestTells
<1>5. CASE c \in Top(n)
  <2>1. i \in Top(n)
    BY <1>2, <1>5 DEF Top, Children
  <2>2. Shortest(c, Top(n)) \in Nat /\ Shortest(c, Top(n)) > Len(Tree[i].name)
    BY <1>2, <1>3, <2>1, ShortestTells
  <2> QED
    BY <1>1, <1>5, <2>2
<1>6. CASE c \notin Top(n) /\ below[c]
  BY <1>1, <1>4, <1>6
<1>7. CASE c \notin Top(n) /\ ~ below[c]
  <2>1. \A j \in 0 .. n : below[j] = (j \in Top(n) \/ (j > 0 /\ below[Tree[j].under]))
    BY <1>1, Zenon DEF Below
  <2>2. i # n
    <3>1. SUFFICES ASSUME i = n PROVE FALSE
      OBVIOUS
    <3>2. Tree[c].under = parent
      BY <3>1
    <3>3. parent # 0
      BY <1>2, <1>7, <3>2 DEF Top, Children
    <3>4. parent \in Top(n) /\ parent \in 0 .. n /\ c \in 0 .. n /\ c > 0
      BY <1>2, <3>3 DEF Top, Children
    <3>5. below[parent]
      BY <2>1, <3>4, Zenon
    <3> HIDE DEF parent
    <3>6. below[c]
      BY <2>1, <3>2, <3>4, <3>5, Zenon
    <3> QED
      BY <1>7, <3>6
  <2>3. c \in 1 .. n - 1 /\ i \in 1 .. n - 1
    BY <1>2, <2>2
  <2>4. unique[c] \in Nat /\ unique[c] > Len(Tree[i].name)
    BY <2>3 DEF TellsApart
  <2>5. AfterRegistration(unique, n)[c] = unique[c]
    BY <1>1, <1>7, Zenon
  <2> QED
    BY <2>4, <2>5
<1> QED
  BY <1>5, <1>6, <1>7
\* The registrations, one after the other.
Registering(n, g) ==
  g = [k \in 0 .. n |-> IF k = 0 THEN <<>> ELSE AfterRegistration(g[k - 1], k)]

LEMMA RegisteringExists ==
  ASSUME NEW n \in Nat
  PROVE  \E g : Registering(n, g)
<1> DEFINE bad == {m \in Nat : ~ \E g : Registering(m, g)}
<1>1. ASSUME bad # {} PROVE FALSE
  <2>1. PICK m \in bad : \A k \in bad : m =< k
    BY <1>1, LeastNatural
  <2>2. CASE m = 0
    <3> DEFINE g == [k \in 0 .. 0 |-> <<>>]
    <3>1. Registering(0, g)
      BY DEF Registering
    <3> QED
      BY <2>1, <2>2, <3>1
  <2>3. CASE m # 0
    <3>1. m - 1 \in Nat /\ m - 1 \notin bad
      BY <2>1, <2>3
    <3>2. PICK g : Registering(m - 1, g)
      BY <3>1
    <3> DEFINE h == [k \in 0 .. m |-> IF k < m THEN g[k] ELSE AfterRegistration(g[k - 1], k)]
    <3>3. \A k \in 0 .. m - 1 : g[k] = IF k = 0 THEN <<>> ELSE AfterRegistration(g[k - 1], k)
      BY <3>1, <3>2 DEF Registering
    <3>4. \A k \in 0 .. m : h[k] = IF k = 0 THEN <<>> ELSE AfterRegistration(h[k - 1], k)
      <4> TAKE k \in 0 .. m
      <4>1. CASE k = 0
        BY <2>1, <2>3, <3>1, <3>3, <4>1
      <4>2. CASE k # 0
        <5>1. k - 1 \in 0 .. m /\ k - 1 < m /\ h[k - 1] = g[k - 1]
          BY <2>1, <4>2
        <5>2. CASE k < m
          <6>1. k \in 0 .. m - 1 /\ h[k] = g[k]
            BY <2>1, <5>2
          <6> QED
            BY <3>3, <4>2, <5>1, <6>1
        <5>3. CASE k = m
          BY <4>2, <5>1, <5>3
        <5> QED
          BY <2>1, <5>2, <5>3
      <4> QED
        BY <4>1, <4>2
    <3>5. h = [k \in 0 .. m |-> h[k]]
      OBVIOUS
    <3> HIDE DEF h
    <3>6. Registering(m, h)
      BY <3>4, <3>5 DEF Registering
    <3> QED
      BY <2>1, <3>6
  <2> QED
    BY <2>2, <2>3
<1> QED
  BY <1>1

\* After the last registration every command is told from the later ones.
LEMMA UniqueTells == TellsApart(unique_len, Len(Tree))
<1> DEFINE N == Len(Tree)
<1>1. Registering(N, Registered)
  <2>1. Registered = CHOOSE g : Registering(N, g)
    BY Zenon DEF Registered, Registering
  <2>2. N \in Nat
    BY TreeAssumption
  <2> QED
    BY <2>1, <2>2, RegisteringExists, Zenon
<1>2. /\ N \in Nat /\ DOMAIN Tree = 1 .. N
      /\ \A k \in 0 .. N : Registered[k] = IF k = 0 THEN <<>> ELSE AfterRegistration(Registered[k - 1], k)
  BY <1>1, TreeAssumption DEF Registering
<1> DEFINE bad == {k \in 0 .. N : ~ TellsApart(Registered[k], k)}
<1> HIDE DEF N
<1>3. ASSUME bad # {} PROVE FALSE
  <2>1. PICK k \in bad : \A j \in bad : k =< j
    <3>1. bad \subseteq Nat
      BY <1>2
    <3> HIDE DEF bad
    <3> QED
      BY <1>3, <3>1, LeastNatural
  <2>2. CASE k = 0
    BY <2>1, <2>2 DEF TellsApart
  <2>3. CASE k # 0
    <3>1. k \in DOMAIN Tree /\ k - 1 \in 0 .. N /\ k - 1 \notin bad
      BY <1>2, <2>1, <2>3
    <3>2. TellsApart(Registered[k - 1], k - 1)
      BY <3>1
    <3>3. Registered[k] = AfterRegistration(Registered[k - 1], k)
      BY <1>2, <2>1, <2>3
    <3> QED
      BY <2>1, <3>1, <3>2, <3>3, RegistrationTells
  <2> QED
    BY <2>2, <2>3
<1>4. N \in 0 .. N
  BY <1>2
<1> QED
  BY <1>3, <1>4 DEF unique_len, N
-----------------------------------------------------------------------------
\* A name in full is its own command's, and no earlier one's of the list unless
\* that has the same name.
LEMMA NamesItself ==
  ASSUME NEW i \in DOMAIN Tree, NEW unique
  PROVE  Names(Tree[i].name, i, unique)
  BY NamesAreSeqs DEF Names, Begins, SameUpTo

LEMMA NamesNoOther ==
  ASSUME NEW unique, TellsApart(unique, Len(Tree)), NEW i \in DOMAIN Tree, NEW c \in DOMAIN Tree, c < i,
         Tree[c].under = Tree[i].under, Names(Tree[i].name, c, unique)
  PROVE  Tree[c].name = Tree[i].name
<1> DEFINE name == Tree[c].name
           word == Tree[i].name
           Cut(s, n) == IF n < Len(s) THEN SubSeq(s, 1, n) ELSE s
<1>1. IsSeq(name) /\ IsSeq(word) /\ Len(name) \in Nat /\ Len(word) \in Nat
  BY NamesAreSeqs
<1>2. /\ Len(word) <= Len(name)
      /\ Cut(name, Len(word)) = Cut(word, Len(word)) /\ Cut(name, unique[c]) = Cut(word, unique[c])
  BY DEF Names, Begins, SameUpTo
<1>3. SUFFICES ASSUME name # word PROVE FALSE
  OBVIOUS
<1> HIDE DEF name, word
<1>4. Len(word) < Len(name) /\ SubSeq(name, 1, Len(word)) = word
  <2>1. Cut(word, Len(word)) = word
    BY <1>1
  <2>2. CASE Len(word) < Len(name)
    <3>1. Cut(name, Len(word)) = SubSeq(name, 1, Len(word))
      BY <2>2
    <3> HIDE DEF Cut
    <3> QED
      BY <1>2, <2>1, <2>2, <3>1
  <2>3. CASE ~ (Len(word) < Len(name))
    <3>1. Cut(name, Len(word)) = name
      BY <2>3
    <3> HIDE DEF Cut
    <3> QED
      BY <1>2, <1>3, <2>1, <3>1
  <2> QED
    BY <2>2, <2>3
<1>5. Prefix(SubSeq(name, 1, Len(word)), name)
  BY <1>1, <1>2, StartOf
<1>6. Longer(c, i)
  BY <1>3, <1>4, <1>5 DEF Longer, name, word
<1>7. unique[c] \in Nat /\ unique[c] > Len(word)
  <2>1. c \in 1 .. Len(Tree) /\ i \in 1 .. Len(Tree)
    BY TreeAssumption
  <2> QED
    BY <1>6, <2>1 DEF TellsApart, word
<1> DEFINE u == unique[c]
<1>8. u \in Nat /\ u > Len(word)
  BY <1>7
<1> HIDE DEF u
<1>9. Cut(word, u) = word
  BY <1>1, <1>8
<1>10. u < Len(name) => Len(SubSeq(name, 1, u)) = u
  BY <1>1, <1>8, StartOf
<1>11. Len(Cut(name, u)) > Len(word)
  BY <1>1, <1>4, <1>8, <1>10
<1>12. Cut(name, u) = word
  BY <1>2, <1>9 DEF u
<1> HIDE DEF Cut
<1>13. Len(word) > Len(word)
  BY <1>11, <1>12
<1> QED
  BY <1>1, <1>13

\* A command's name in full, in its mode and with its privilege, calls it: alone,
\* if it is the last word, else with the commands below it.
AnswerOf(f, words, k, i, mode) ==
  IF Children(i) = {} \/ k = Len(words)
  THEN IF Tree[i].does # "nothing" THEN Found("run", i, SubSeq(words, k + 1, Len(words)), mode)
       ELSE Found("error", 0, <<>>, mode)
  ELSE IF f[<<k + 1, i, mode>>].out = "argument" /\ Tree[i].does # "nothing"
       THEN Found("run", i, SubSeq(words, k + 1, Len(words)), f[<<k + 1, i, mode>>].mode)
  ELSE f[<<k + 1, i, mode>>]

CalledInFull(unique, vty, words, k, i) ==
  /\ TellsApart(unique, Len(Tree)) /\ i \in DOMAIN Tree /\ InMode(vty, i) /\ First(vty, i)
  /\ words[k] = Tree[i].name /\ Last(words[k]) # "?"

LEMMA FullNameHere ==
  ASSUME NEW unique, NEW vty, NEW words, NEW k, NEW i, CalledInFull(unique, vty, words, k, i), NEW f
  PROVE  FindAt(f, unique, words, vty, k, Tree[i].under, vty.mode) = AnswerOf(f, words, k, i, vty.mode)
<1>0. /\ TellsApart(unique, Len(Tree)) /\ i \in DOMAIN Tree /\ InMode(vty, i) /\ First(vty, i)
      /\ words[k] = Tree[i].name /\ Last(words[k]) # "?"
  BY DEF CalledInFull
<1> DEFINE mode == vty.mode
           parent == Tree[i].under
           named == {c \in Children(parent) : Allowed(vty, c) /\ Names(words[k], c, unique)}
           here == {c \in named : Tree[c].mode \in {mode, MODE_ANY}}
           other == IF mode > MODE_CONFIG THEN {c \in named : Tree[c].mode = MODE_CONFIG} ELSE {}
           c == IF here # {} THEN Least(here) ELSE Greatest(other)
           now == IF here # {} THEN mode ELSE MODE_CONFIG
           runs == Tree[c].does # "nothing"
           Run(m) == Found("run", c, SubSeq(words, k + 1, Len(words)), m)
           rest == f[<<k + 1, c, now>>]
<1>1. FindAt(f, unique, words, vty, k, parent, mode) =
        IF Last(words[k]) = "?" THEN Found("help", 0, <<>>, mode)
        ELSE IF here = {} /\ other = {} THEN Found("argument", 0, <<>>, mode)
        ELSE IF Children(c) = {} \/ k = Len(words)
             THEN IF runs THEN Run(now) ELSE Found("error", 0, <<>>, now)
        ELSE IF rest.out = "argument" /\ runs THEN Run(rest.mode) ELSE rest
  BY DEF FindAt
<1>2. i \in here
  BY <1>0, NamesItself DEF Children, InMode
<1>3. \A j \in here : i <= j
  <2> SUFFICES ASSUME NEW j \in here, j < i PROVE FALSE
    BY <1>0, <1>2, TreeAssumption DEF Children
  <2>1. j \in DOMAIN Tree /\ Tree[j].under = Tree[i].under /\ Names(Tree[i].name, j, unique)
    BY <1>0 DEF Children
  <2>2. Tree[j].name = Tree[i].name
    BY <1>0, <2>1, NamesNoOther
  <2>3. InMode(vty, j) /\ j \in Children(Tree[i].under)
    BY DEF InMode
  <2> QED
    BY <1>0, <2>2, <2>3 DEF First
<1>4. c = i /\ now = mode
  <2>1. here \subseteq Nat
    BY TreeAssumption DEF Children
  <2> HIDE DEF here
  <2> QED
    BY <1>2, <1>3, <2>1, LeastIs
<1>5. here # {}
  BY <1>2
<1> HIDE DEF here, other, c, now
<1>6. FindAt(f, unique, words, vty, k, parent, mode) = AnswerOf(f, words, k, i, mode)
  BY <1>0, <1>1, <1>4, <1>5, Zenon DEF AnswerOf
<1> QED
  BY <1>6
-----------------------------------------------------------------------------
\* The words of a command in full.
Walking(n, g) == g = [i \in 0 .. n |-> IF i = 0 THEN <<>> ELSE Append(g[Tree[i].under], Tree[i].name)]

LEMMA WalkingExists ==
  ASSUME NEW n \in 0 .. Len(Tree)
  PROVE  \E g : Walking(n, g)
<1> DEFINE bad == {m \in 0 .. Len(Tree) : ~ \E g : Walking(m, g)}
<1>1. ASSUME bad # {} PROVE FALSE
  <2>1. PICK m \in bad : \A k \in bad : m =< k
    <3>1. bad \subseteq Nat
      OBVIOUS
    <3> QED
      BY <1>1, <3>1, LeastNatural
  <2>2. CASE m = 0
    <3> DEFINE g == [j \in 0 .. 0 |-> <<>>]
    <3>1. Walking(0, g)
      BY DEF Walking
    <3> QED
      BY <2>1, <2>2, <3>1
  <2>3. CASE m # 0
    <3>1. m - 1 \in 0 .. Len(Tree) /\ m - 1 \notin bad
      BY <2>1, <2>3, TreeAssumption
    <3>2. PICK g : Walking(m - 1, g)
      BY <3>1
    <3> DEFINE h == [j \in 0 .. m |-> IF j < m THEN g[j] ELSE Append(g[Tree[m].under], Tree[m].name)]
    <3>3. \A j \in 0 .. m - 1 : g[j] = IF j = 0 THEN <<>> ELSE Append(g[Tree[j].under], Tree[j].name)
      BY <3>2, Zenon DEF Walking
    <3>4. \A j \in 0 .. m : h[j] = IF j = 0 THEN <<>> ELSE Append(h[Tree[j].under], Tree[j].name)
      <4> TAKE j \in 0 .. m
      <4>1. j > 0 => Tree[j].under \in 0 .. m /\ Tree[j].under < m
        BY <2>1, TreeAssumption
      <4>2. j > 0 => h[Tree[j].under] = g[Tree[j].under]
        BY <4>1
      <4>3. CASE j < m
        <5>1. j \in 0 .. m - 1 /\ h[j] = g[j] /\ (j # 0 => j > 0)
          BY <2>1, <4>3
        <5> QED
          BY <3>3, <4>2, <5>1, Zenon
      <4>4. CASE j = m
        <5>1. h[j] = Append(g[Tree[m].under], Tree[m].name) /\ j > 0 /\ j # 0
          BY <2>1, <2>3, <4>4
        <5> QED
          BY <4>2, <4>4, <5>1, Zenon
      <4> QED
        BY <2>1, <4>3, <4>4
    <3>5. h = [j \in 0 .. m |-> h[j]]
      OBVIOUS
    <3> HIDE DEF h
    <3>6. Walking(m, h)
      BY <3>4, <3>5, Zenon DEF Walking
    <3> QED
      BY <2>1, <3>6
  <2> QED
    BY <2>2, <2>3
<1> QED
  BY <1>1

\* They are those of the command above it and its name.
LEMMA PathIs ==
  /\ Path[0] = <<>>
  /\ \A i \in DOMAIN Tree : Path[i] = Append(Path[Tree[i].under], Tree[i].name)
  /\ \A i \in 0 .. Len(Tree) : IsSeq(Path[i])
<1> DEFINE N == Len(Tree)
<1>1. N \in Nat /\ N \in 0 .. N /\ DOMAIN Tree = 1 .. N /\ \A i \in 1 .. N : Tree[i].under \in 0 .. i - 1
  BY TreeAssumption
<1>2. Walking(N, Path)
  <2>1. Path = CHOOSE g : Walking(N, g)
    BY Zenon DEF Path, Walking
  <2> QED
    BY <1>1, <2>1, WalkingExists, Zenon
<1>3. \A i \in 0 .. N : Path[i] = IF i = 0 THEN <<>> ELSE Append(Path[Tree[i].under], Tree[i].name)
  BY <1>2, Zenon DEF Walking
<1> HIDE DEF N
<1>4. Path[0] = <<>> /\ \A i \in 1 .. N : Path[i] = Append(Path[Tree[i].under], Tree[i].name)
  <2>1. 0 \in 0 .. N /\ \A i \in 1 .. N : i \in 0 .. N /\ i # 0
    BY <1>1
  <2> QED
    BY <1>3, <2>1, Zenon
<1> DEFINE bad == {i \in 0 .. N : ~ IsSeq(Path[i])}
<1>5. ASSUME bad # {} PROVE FALSE
  <2>1. PICK k \in bad : \A j \in bad : k =< j
    <3>1. bad \subseteq Nat
      BY <1>1
    <3> HIDE DEF bad
    <3> QED
      BY <1>5, <3>1, LeastNatural
  <2>2. CASE k = 0
    BY <1>4, <2>1, <2>2, EmptyIsSeq
  <2>3. CASE k # 0
    <3>1. k \in 1 .. N /\ Tree[k].under \in 0 .. k - 1 /\ Tree[k].under \in 0 .. N
      BY <1>1, <2>1, <2>3
    <3>2. ~ (k =< Tree[k].under)
      BY <1>1, <3>1
    <3>3. IsSeq(Path[Tree[k].under])
      BY <2>1, <3>1, <3>2
    <3>4. IsSeq(Append(Path[Tree[k].under], Tree[k].name))
      BY <3>3, AppendSeq
    <3>5. IsSeq(Path[k])
      BY <1>4, <3>1, <3>4
    <3> QED
      BY <2>1, <3>5
  <2> QED
    BY <2>2, <2>3
<1> QED
  BY <1>1, <1>4, <1>5 DEF N

\* The sessions that may go there.
Going(n, g) ==
  g = [i \in 0 .. n |->
         IF i = 0 THEN Vtys ELSE {vty \in g[Tree[i].under] : InMode(vty, i) /\ First(vty, i)}]

LEMMA GoingExists ==
  ASSUME NEW n \in 0 .. Len(Tree)
  PROVE  \E g : Going(n, g)
<1> DEFINE bad == {m \in 0 .. Len(Tree) : ~ \E g : Going(m, g)}
<1>1. ASSUME bad # {} PROVE FALSE
  <2>1. PICK m \in bad : \A k \in bad : m =< k
    <3>1. bad \subseteq Nat
      OBVIOUS
    <3> QED
      BY <1>1, <3>1, LeastNatural
  <2>2. CASE m = 0
    <3> DEFINE g == [j \in 0 .. 0 |-> Vtys]
    <3>1. Going(0, g)
      BY DEF Going
    <3> QED
      BY <2>1, <2>2, <3>1
  <2>3. CASE m # 0
    <3>1. m - 1 \in 0 .. Len(Tree) /\ m - 1 \notin bad
      BY <2>1, <2>3, TreeAssumption
    <3>2. PICK g : Going(m - 1, g)
      BY <3>1
    <3> DEFINE h == [j \in 0 .. m |-> IF j < m THEN g[j] ELSE {vty \in g[Tree[m].under] : InMode(vty, m) /\ First(vty, m)}]
    <3>3. \A j \in 0 .. m - 1 : g[j] = IF j = 0 THEN Vtys ELSE {vty \in g[Tree[j].under] : InMode(vty, j) /\ First(vty, j)}
      BY <3>2, Zenon DEF Going
    <3>4. \A j \in 0 .. m : h[j] = IF j = 0 THEN Vtys ELSE {vty \in h[Tree[j].under] : InMode(vty, j) /\ First(vty, j)}
      <4> TAKE j \in 0 .. m
      <4>1. j > 0 => Tree[j].under \in 0 .. m /\ Tree[j].under < m
        BY <2>1, TreeAssumption
      <4>2. j > 0 => h[Tree[j].under] = g[Tree[j].under]
        BY <4>1
      <4>3. CASE j < m
        <5>1. j \in 0 .. m - 1 /\ h[j] = g[j] /\ (j # 0 => j > 0)
          BY <2>1, <4>3
        <5> QED
          BY <3>3, <4>2, <5>1, Zenon
      <4>4. CASE j = m
        <5>1. h[j] = {vty \in g[Tree[m].under] : InMode(vty, m) /\ First(vty, m)} /\ j > 0 /\ j # 0
          BY <2>1, <2>3, <4>4
        <5> QED
          BY <4>2, <4>4, <5>1, Zenon
      <4> QED
        BY <2>1, <4>3, <4>4
    <3>5. h = [j \in 0 .. m |-> h[j]]
      OBVIOUS
    <3> HIDE DEF h
    <3>6. Going(m, h)
      BY <3>4, <3>5, Zenon DEF Going
    <3> QED
      BY <2>1, <3>6
  <2> QED
    BY <2>2, <2>3
<1> QED
  BY <1>1

LEMMA ReachedIs ==
  ASSUME NEW i \in DOMAIN Tree
  PROVE  /\ Reached[i] = {vty \in Reached[Tree[i].under] : InMode(vty, i) /\ First(vty, i)}
         /\ Reached[0] = Vtys
<1> DEFINE N == Len(Tree)
<1>1. N \in 0 .. N /\ i \in 0 .. N /\ i # 0 /\ 0 \in 0 .. N
  BY TreeAssumption
<1>2. Going(N, Reached)
  <2>1. Reached = CHOOSE g : Going(N, g)
    BY Zenon DEF Reached, Going
  <2> QED
    BY <1>1, <2>1, GoingExists, Zenon
<1>3. \A j \in 0 .. N :
        Reached[j] = IF j = 0 THEN Vtys
                     ELSE {vty \in Reached[Tree[j].under] : InMode(vty, j) /\ First(vty, j)}
  BY <1>2, Zenon DEF Going
<1> QED
  BY <1>1, <1>3, Zenon
-----------------------------------------------------------------------------
\* The lookup of a line that begins with a command's words in full gets to the
\* command, and its answer is the one for the words after them unless they are
\* an argument.
Leads(vty, words, i) ==
  /\ vty \in Reached[i] /\ Children(i) # {} /\ Len(Path[i]) < Len(words)
  /\ \A k \in 1 .. Len(Path[i]) : words[k] = Path[i][k]

Answering(unique, words, vty, find) ==
  \A i \in 1 .. Len(words), c \in 0 .. Len(Tree), mode \in {vty.mode, MODE_CONFIG} :
    find[<<i, c, mode>>] = FindAt(find, unique, words, vty, i, c, mode)

LEMMA WordsLead ==
  ASSUME NEW unique, TellsApart(unique, Len(Tree)), NEW vty \in Vtys, NEW words, Len(words) \in Nat \ {0},
         NEW find, Answering(unique, words, vty, find), NEW i \in 0 .. Len(Tree), Leads(vty, words, i),
         find[<<Len(Path[i]) + 1, i, vty.mode>>].out # "argument"
  PROVE  find[<<1, 0, vty.mode>>] = find[<<Len(Path[i]) + 1, i, vty.mode>>]
<1> DEFINE N == Len(Tree)
           mode == vty.mode
           At(c) == find[<<Len(Path[c]) + 1, c, mode>>]
           Lost(c) == Leads(vty, words, c) /\ At(c).out # "argument" /\ find[<<1, 0, mode>>] # At(c)
           bad == {c \in 0 .. N : Lost(c)}
<1>1. ASSUME bad # {} PROVE FALSE
  <2>1. PICK c \in bad : \A j \in bad : c =< j
    <3>1. bad \subseteq Nat
      OBVIOUS
    <3> HIDE DEF bad
    <3> QED
      BY <1>1, <3>1, LeastNatural
  <2>2. /\ find[<<1, 0, mode>>] # At(c) /\ c \in 0 .. N /\ At(c).out # "argument"
        /\ vty \in Reached[c] /\ Children(c) # {} /\ Len(Path[c]) < Len(words)
        /\ \A k \in 1 .. Len(Path[c]) : words[k] = Path[c][k]
    BY <2>1 DEF Leads
  <2>3. CASE c = 0
    <3>1. Len(Path[0]) + 1 = 1
      BY PathIs, EmptyIsSeq
    <3> QED
      BY <2>2, <2>3, <3>1
  <2>4. CASE c # 0
    <3> DEFINE p == Tree[c].under
               path == Path[p]
               L == Len(path) + 1
    <3>1. c \in DOMAIN Tree /\ p \in 0 .. N /\ p < c /\ c \in Nat /\ p \in Nat
      BY <2>2, <2>4, TreeAssumption
    <3>2. IsSeq(path) /\ Len(path) \in Nat /\ Path[c] = Append(path, Tree[c].name)
      BY <3>1, PathIs, SeqIsFunction
    <3> HIDE DEF path
    <3>3. /\ Len(Append(path, Tree[c].name)) = L
          /\ \A k \in 1 .. L : Append(path, Tree[c].name)[k] = IF k = L THEN Tree[c].name ELSE path[k]
      BY <3>2, AppendSeq
    <3>4. /\ L \in 1 .. Len(words) /\ L < Len(words) /\ words[L] = Tree[c].name
          /\ \A k \in 1 .. Len(path) : words[k] = path[k]
      <4>1. Len(Path[c]) = L /\ \A k \in 1 .. L : Path[c][k] = IF k = L THEN Tree[c].name ELSE path[k]
        BY <3>2, <3>3
      <4>2. \A k \in 1 .. L : words[k] = IF k = L THEN Tree[c].name ELSE path[k]
        BY <2>2, <4>1
      <4> QED
        BY <2>2, <3>2, <4>1, <4>2
    <3>5. At(c) = find[<<L + 1, c, mode>>] /\ At(c).out # "argument"
      BY <2>2, <3>2, <3>3
    <3>6. vty \in Reached[p] /\ InMode(vty, c) /\ First(vty, c)
      BY <2>2, <3>1, ReachedIs
    <3>7. Last(words[L]) # "?"
      BY <3>1, <3>4, NamesAssumption
    <3> HIDE DEF At, L
    <3>8. find[<<L, p, mode>>] = FindAt(find, unique, words, vty, L, p, mode)
      BY <3>1, <3>4 DEF Answering
    <3>9. FindAt(find, unique, words, vty, L, p, mode) = find[<<L + 1, c, mode>>]
      <4>1. Children(c) # {} /\ L # Len(words) /\ find[<<L + 1, c, vty.mode>>].out # "argument"
        BY <2>2, <3>4, <3>5
      <4>2. L \in Nat
        BY <3>4
      <4>3. c \in DOMAIN Tree /\ InMode(vty, c) /\ First(vty, c) /\ words[L] = Tree[c].name /\ Last(words[L]) # "?"
        BY <3>1, <3>4, <3>6, <3>7
      <4>4. FindAt(find, unique, words, vty, L, p, mode) = AnswerOf(find, words, L, c, mode)
        <5>1. CalledInFull(unique, vty, words, L, c)
          BY <4>3 DEF CalledInFull
        <5> QED
          BY <5>1, FullNameHere
      <4>5. AnswerOf(find, words, L, c, mode) = find[<<L + 1, c, mode>>]
        BY <4>1, Zenon DEF AnswerOf
      <4> QED
        BY <4>4, <4>5
    <3>10. At(p) = At(c)
      BY <3>5, <3>8, <3>9 DEF At, L, path
    <3>11. Children(p) # {}
      BY <3>1 DEF Children
    <3>12. Lost(p)
      BY <2>2, <3>4, <3>2, <3>5, <3>6, <3>10, <3>11 DEF L, path, Leads
    <3>13. p \notin bad
      <4>1. ~ (c =< p)
        BY <3>1
      <4> HIDE DEF bad
      <4> QED
        BY <2>1, <4>1
    <3> QED
      BY <3>1, <3>12, <3>13
  <2> QED
    BY <2>3, <2>4
<1>2. ~ Lost(i)
  BY <1>1
<1> QED
  BY <1>2

\* In every session of the type, every command is found by its name in full.
LEMMA AllFoundInFull == Vtys \subseteq FoundInFull
<1> SUFFICES ASSUME NEW vty \in Vtys, NEW i \in DOMAIN Tree, vty \in Reached[i], Tree[i].does # "nothing"
             PROVE  Find(Path[i], vty).out = "run" /\ Find(Path[i], vty).command = i
                    /\ Find(Path[i], vty).args = <<>>
  BY DEF FoundInFull
<1> DEFINE words == Path[i]
           mode == vty.mode
           p == Tree[i].under
           above == Path[p]
           L == Len(above) + 1
<1>1. p \in 0 .. Len(Tree) /\ i \in 0 .. Len(Tree)
  BY TreeAssumption
<1>2. IsSeq(above) /\ Len(above) \in Nat /\ words = Append(above, Tree[i].name) /\ IsSeq(words)
  BY <1>1, PathIs, SeqIsFunction
<1>3. /\ Len(words) = L /\ L \in Nat \ {0} /\ L \in 1 .. L
      /\ words[L] = Tree[i].name /\ \A k \in 1 .. Len(above) : words[k] = above[k]
  <2> HIDE DEF above
  <2>1. /\ Len(Append(above, Tree[i].name)) = L
        /\ \A k \in 1 .. L : Append(above, Tree[i].name)[k] = IF k = L THEN Tree[i].name ELSE above[k]
    BY <1>2, AppendSeq
  <2> HIDE DEF words
  <2> QED
    BY <1>2, <2>1
<1> HIDE DEF words
<1>4. PICK find :
        /\ FindBy(unique_len, words, vty) = find[<<1, 0, vty.mode>>]
        /\ Answering(unique_len, words, vty, find)
  BY <1>3, FindAnswers DEF Answering
<1>5. vty \in Reached[p] /\ InMode(vty, i) /\ First(vty, i)
  BY ReachedIs
<1>6. Last(words[L]) # "?"
  BY <1>3, NamesAssumption
<1>7. find[<<L, p, mode>>] = FindAt(find, unique_len, words, vty, L, p, mode)
  BY <1>1, <1>3, <1>4 DEF Answering
<1>8. SubSeq(words, L + 1, Len(words)) = <<>>
  BY <1>2, <1>3 DEF IsSeq
<1>9. FindAt(find, unique_len, words, vty, L, p, mode) = Found("run", i, <<>>, mode)
  <2>1. words[L] = Tree[i].name /\ L = Len(words) /\ L \in Nat
    BY <1>3
  <2>2. InMode(vty, i) /\ First(vty, i)
    BY <1>5
  <2> HIDE DEF L
  <2>3. FindAt(find, unique_len, words, vty, L, p, mode) = AnswerOf(find, words, L, i, mode)
    <3>1. CalledInFull(unique_len, vty, words, L, i)
      BY <1>6, <2>1, <2>2, UniqueTells DEF CalledInFull
    <3> QED
      BY <3>1, FullNameHere
  <2>4. AnswerOf(find, words, L, i, mode) = Found("run", i, <<>>, mode)
    BY <1>8, <2>1, Zenon DEF AnswerOf
  <2> QED
    BY <2>3, <2>4
<1> DEFINE f == Found("run", i, <<>>, mode)
<1>10. f.out = "run" /\ f.command = i /\ f.args = <<>> /\ f.out # "argument"
  BY DEF Found
<1> HIDE DEF f
<1>11. find[<<L, p, mode>>] = f
  BY <1>7, <1>9 DEF f
<1>12. Children(p) # {}
  BY DEF Children
<1>13. find[<<1, 0, vty.mode>>] = find[<<Len(Path[p]) + 1, p, vty.mode>>]
  <2>1. Len(words) \in Nat \ {0} /\ Leads(vty, words, p)
    BY <1>2, <1>3, <1>5, <1>12 DEF Leads
  <2>2. find[<<Len(Path[p]) + 1, p, vty.mode>>].out # "argument"
    BY <1>10, <1>11
  <2> HIDE DEF p
  <2> QED
    BY <1>1, <1>4, <2>1, <2>2, UniqueTells, WordsLead
<1>14. Find(words, vty) = f
  BY <1>4, <1>11, <1>13 DEF Find
<1> QED
  BY <1>10, <1>14 DEF words
-----------------------------------------------------------------------------
\* Abbreviations, modes and the order of registration never hide a command that
\* is typed in full (gw_cli_build_shortest, gw_cli_find_command): in the mode it
\* belongs to its name runs it, whatever the tree, unless one registered before
\* it has the same name there.
THEOREM FullNamesRunCorrect == Spec => []FullNamesRun
<1>1. Inv => FullNamesRun
  BY AllFoundInFull DEF Inv, PrivilegeInv, VtyInv, FullNamesRun
<1> QED
  BY <1>1, InvHolds, PTL
==============================================================================
