--------------------------- MODULE RcpVlanProofs ---------------------------
(***************************************************************************)
(* Theorems about RcpVlan: no port is left without a VLAN (PortsKeepVlan), *)
(* and the index of a port is of a VLAN the port is in (PvidIsMember), of  *)
(* the one session Cli.                                                    *)
(*                                                                         *)
(* Work, what the command in progress has still to do, is of one of three  *)
(* kinds, and the invariant says of each what it may still contain and in  *)
(* which order.  A command that sets the table up (SetUp) makes all ports  *)
(* members of the default VLAN first.  One by which ports join a VLAN      *)
(* (Joins) takes a port out of the others only when it is a member there.  *)
(* One by which ports part from an entry (PartsFrom), which may be given   *)
(* back then, has put each port into another VLAN before it takes it out.  *)
(* The decisions are made by the copy: CopyInv and ScanInv say that it is  *)
(* the table of the switch until a write is lost or a store is overtaken.  *)
(* A free entry has no members; after one access that failed it may have   *)
(* some, which are in the default VLAN too (Leftovers).                    *)
(*                                                                         *)
(* For the indices, Work is of one of four kinds.  All of them are set     *)
(* back, one by one (Resetting); each port gets the index of an entry of   *)
(* its own, after the entry has its VID and its member (Isolating); a port *)
(* gets the index of the entry it is about to join, and has it when it     *)
(* quits the others (Indexing); the indices of an entry are set back       *)
(* before ports part from it (Unindexing).  An index is found by a search  *)
(* of the copy for a VID: NumOf and OwnNum say which entry that is.        *)
(*                                                                         *)
(* First lemmas about sequences, then the invariant, a lemma for each step *)
(* between accesses and for each access, the commands, and the theorems;   *)
(* then the same of the indices.                                           *)
(***************************************************************************)
EXTENDS RcpVlan, FiniteSetTheorems, WellFoundedInduction, TLAPS

\* A nonempty set of naturals has a least element.
LEMMA LeastNatural ==
  ASSUME NEW S, S \subseteq Nat, S # {}
  PROVE  \E x \in S : \A y \in S : x =< y
<1> DEFINE R == OpToRel(<, Nat)
<1>1. IsWellFoundedOn(R, Nat)
  BY NatLessThanWellFounded
<1>2. \A x, y \in Nat : y < x => <<y, x>> \in R
  BY DEF OpToRel
<1> HIDE DEF R
<1>3. PICK x \in S : \A y \in S : ~ (<<y, x>> \in R)
  BY <1>1, WFMin
<1>4. \A y \in S : ~ (y < x)
  BY <1>2, <1>3
<1>5. \A y \in S : x =< y
  BY <1>4
<1> QED
  BY <1>5

\* A set has one element exactly when it has some and no two.
LEMMA OneElement ==
  ASSUME NEW S, NEW x \in S, \A y \in S : y = x
  PROVE  IsFiniteSet(S) /\ Cardinality(S) = 1
<1>1. S = {x}
  OBVIOUS
<1> QED
  BY <1>1, FS_Singleton

\* A sequence of whatever it holds.
IsSeq(s) == \E S : s \in Seq(S)

LEMMA ConcatSeq ==
  ASSUME NEW s, IsSeq(s), NEW t, IsSeq(t)
  PROVE  /\ IsSeq(s \o t) /\ Len(s \o t) = Len(s) + Len(t) /\ Len(s) \in Nat /\ Len(t) \in Nat
         /\ \A i \in 1 .. Len(s) + Len(t) : (s \o t)[i] = IF i <= Len(s) THEN s[i] ELSE t[i - Len(s)]
<1>1. PICK S : s \in Seq(S)
  BY DEF IsSeq
<1>2. PICK U : t \in Seq(U)
  BY DEF IsSeq
<1> DEFINE T == S \union U
<1>3. s \in Seq(T) /\ t \in Seq(T)
  BY <1>1, <1>2
<1> HIDE DEF T
<1>4. s \o t \in Seq(T)
  BY <1>3
<1> QED
  BY <1>3, <1>4 DEF IsSeq

LEMMA EmptyIsSeq == IsSeq(<<>>) /\ Len(<<>>) = 0
<1>1. \A x : <<>> \in Seq({x})
  OBVIOUS
<1> QED
  BY <1>1 DEF IsSeq

\* A function on the first n numbers is a sequence of length n.
LEMMA MakesSeq ==
  ASSUME NEW n \in Nat, NEW s, s = [i \in 1 .. n |-> s[i]]
  PROVE  IsSeq(s) /\ Len(s) = n
<1> DEFINE S == {s[i] : i \in 1 .. n}
<1>1. s \in [1 .. n -> S]
  OBVIOUS
<1> HIDE DEF S
<1>2. s \in Seq(S)
  BY <1>1
<1>3. DOMAIN s = 1 .. n /\ DOMAIN s = 1 .. Len(s) /\ Len(s) \in Nat
  BY <1>1, <1>2
<1> QED
  BY <1>2, <1>3 DEF IsSeq

\* The least of some numbers.
LEMMA MinIsLeast ==
  ASSUME NEW S, S \subseteq Nat, S # {}
  PROVE  Min(S) \in S /\ \A y \in S : Min(S) <= y
<1>1. PICK x \in S : \A y \in S : x =< y
  BY LeastNatural
<1>2. \E z \in S : \A y \in S : z <= y
  BY <1>1
<1> QED
  BY <1>2 DEF Min

\* What is left to do when `more` comes in place of the first step.
LEMMA GoonMakes ==
  ASSUME NEW w, IsSeq(w), w # <<>>, NEW more, IsSeq(more)
  PROVE  LET u == more \o Tail(w)
         IN  /\ IsSeq(u) /\ Len(u) = Len(more) + Len(w) - 1
             /\ Len(w) \in Nat \ {0} /\ Len(more) \in Nat
             /\ DOMAIN u = 1 .. Len(u) /\ DOMAIN w = 1 .. Len(w) /\ DOMAIN more = 1 .. Len(more)
             /\ \A i \in 1 .. Len(more) : u[i] = more[i]
             /\ \A i \in 2 .. Len(w) : u[Len(more) + i - 1] = w[i]
             /\ Head(w) = w[1]
<1>1. PICK S : w \in Seq(S)
  BY DEF IsSeq
<1>2. /\ Tail(w) \in Seq(S) /\ Len(Tail(w)) = Len(w) - 1 /\ Len(w) \in Nat \ {0}
      /\ DOMAIN w = 1 .. Len(w) /\ \A i \in 1 .. Len(w) - 1 : Tail(w)[i] = w[i + 1]
      /\ Head(w) = w[1]
  BY <1>1
<1>3. IsSeq(Tail(w))
  BY <1>2 DEF IsSeq
<1> DEFINE t == Tail(w)
<1> HIDE DEF t
<1>4. /\ IsSeq(more \o t) /\ Len(more \o t) = Len(more) + Len(t) /\ Len(more) \in Nat /\ Len(t) \in Nat
      /\ \A i \in 1 .. Len(more) + Len(t) : (more \o t)[i] = IF i <= Len(more) THEN more[i] ELSE t[i - Len(more)]
  BY <1>3, ConcatSeq DEF t
<1>5. DOMAIN (more \o t) = 1 .. Len(more \o t) /\ DOMAIN more = 1 .. Len(more)
  BY <1>4 DEF IsSeq
<1>6. Len(t) = Len(w) - 1 /\ \A i \in 1 .. Len(w) - 1 : t[i] = w[i + 1]
  BY <1>2 DEF t
<1>7. \A i \in 1 .. Len(more) : (more \o t)[i] = more[i]
  BY <1>4
<1>8. ASSUME NEW i \in 2 .. Len(w) PROVE (more \o t)[Len(more) + i - 1] = w[i]
  <2>1. Len(more) + i - 1 \in 1 .. Len(more) + Len(t) /\ ~(Len(more) + i - 1 <= Len(more))
        /\ Len(more) + i - 1 - Len(more) = i - 1 /\ i - 1 \in 1 .. Len(w) - 1 /\ (i - 1) + 1 = i
    BY <1>2, <1>4, <1>6
  <2>2. (more \o t)[Len(more) + i - 1] = t[i - 1]
    BY <2>1, <1>4
  <2> QED
    BY <2>1, <2>2, <1>6
<1> QED
  BY <1>2, <1>4, <1>5, <1>6, <1>7, <1>8 DEF t
-----------------------------------------------------------------------------
\* The one session, and what it has still to do.
Cli == CHOOSE s \in Sessions : TRUE
Work == todo[Cli]

OneSession == \E s : Sessions = {s}

\* A VLAN is added while the table has a free entry: that of a full one is told by 0.
FindsIdle == \A s \in Sessions, v \in Vids : Dot1qAdd(s, v) => VlanIdleNum # 0

\* What sets ports or the switch and neither entries nor members.
SettingOps ==
  {"insert", "put_insert", "tag", "put_tag", "pvid", "put_pvid", "dot1q", "isolated", "eeprom"}

\* What leaves the registers of entries as they are.
QuietOps == SettingOps \union {"store_vid", "store_members"}

OfVID(x) == x.op \in {"vid", "store_vid"}
OfMembers(x) == x.op \in {"members", "store_members"}

\* A step names entries, ports and VIDs that there are.  VID 1 is of entry 0 only.
Typed(x) ==
  /\ OfVID(x) => x \in [op : {"vid", "store_vid"}, num : Nums, vid : Nat] /\ (x.num = 0 <=> x.vid = 1)
  /\ OfMembers(x) => x \in [op : {"members", "store_members"}, num : Nums, ports : SUBSET Ports]
  /\ x.op \in {"add", "delete"} => x \in [op : {"add", "delete"}, port : Ports, num : Nums]
  /\ x.op = "join" => x \in [op : {"join"}, port : Ports, vid : Vids, tagged : BOOLEAN]
  /\ x.op = "quit" => x \in [op : {"quit"}, port : Ports, num : Nums, from : Nat]
  /\ x.op \in {"part", "leave"} =>
       x \in [op : {"part", "leave"}, port : Ports, vid : Vids, num : Nums, whole : BOOLEAN]
  /\ x.op = "leave_tagged" => x \in [op : {"leave_tagged"}, port : Ports, vid : Vids, in : Nat]

\* An entry gets members together with a VID, and loses both together.
GivesBoth(l) ==
  \A i \in DOMAIN l : l[i].op = "members" /\ l[i].num # 0 /\ l[i].ports # {} =>
    /\ i + 1 \in DOMAIN l /\ l[i + 1].op = "vid" /\ l[i + 1].num = l[i].num
    /\ \A j \in DOMAIN l : l[j].op = "vid" => l[j].vid # 0

TakesBoth(l, i) ==
  \/ i - 1 \in DOMAIN l /\ OfMembers(l[i - 1]) /\ l[i - 1].num = l[i].num /\ l[i - 1].ports = {}
  \/ i + 1 \in DOMAIN l /\ l[i + 1] = Members(l[i].num, {})

\* A turn of the loops that give entries back or give ports their own ones.
TurnOK(l) ==
  /\ IsSeq(l)
  /\ \A i \in DOMAIN l :
       /\ Typed(l[i]) /\ l[i].op \in SettingOps \union {"vid", "members"}
       /\ l[i].op \in {"vid", "members"} => l[i].num # 0
       /\ l[i].op = "vid" /\ l[i].vid = 0 => TakesBoth(l, i)
  /\ GivesBoth(l)

ScanType ==
  /\ scan \in [n : Nums, of : {"vid", "members"},
               read : {None} \union [of : {"vid"}, value : Nat] \union [of : {"members"}, value : SUBSET Ports]]
  /\ scan.read # None => scan.read.of = scan.of

TypeInv ==
  /\ DOMAIN todo = Sessions /\ IsSeq(Work)
  /\ vid \in [Nums -> Nat] /\ vlanVid \in [Nums -> Nat]
  /\ member \in [Nums -> SUBSET Ports] /\ vlanPort \in [Nums -> SUBSET Ports]
  /\ ScanType
  /\ errors \in Nat /\ lost \in Nat
  /\ \A i \in DOMAIN Work :
       /\ Typed(Work[i])
       /\ Work[i].op = "turn" => TurnOK(Work[i].does)
       /\ Work[i].op \in {"store_vid", "store_members"} => i = 1

\* Entry 0 is the default VLAN, with VID 1, and no other one is.
DefaultInv == vid[0] = 1 /\ \A n \in Nums \ {0} : vid[n] # 1

\* The copy is what the switch has, but for what is being stored and for the
\* default VLAN before the monitor has read it.
Storing(op, n) == Work # <<>> /\ Work[1].op = op /\ Work[1].num = n

CopyInv ==
  /\ \A n \in Nums : vlanVid[n] = vid[n] \/ (n = 0 /\ vlanVid[n] = 0) \/ Storing("store_vid", n)
  /\ \A n \in Nums : vlanPort[n] = member[n] \/ (n = 0 /\ vlanPort[n] = {}) \/ Storing("store_members", n)
  /\ \A i \in DOMAIN Work : Work[i].op = "store_vid" => vid[Work[i].num] = Work[i].vid
  /\ \A i \in DOMAIN Work : Work[i].op = "store_members" => member[Work[i].num] = Work[i].ports

ScanInv ==
  scan.read # None =>
    IF scan.of = "vid" THEN scan.read.value = vid[scan.n] \/ Storing("store_vid", scan.n)
    ELSE scan.read.value = member[scan.n] \/ Storing("store_members", scan.n)

\* Every port is in a VLAN.
Keeps == \A p \in Ports : \E n \in Nums : vid[n] # 0 /\ p \in member[n]

\* A VLAN of the port besides entry n.
Other(p, n) == \E m \in Nums \ {n} : vid[m] # 0 /\ p \in member[m]

\* An entry that is given back has no members or is about to lose them.
GivesBack ==
  \A i \in DOMAIN Work : Work[i].op = "vid" /\ Work[i].vid = 0 =>
    member[Work[i].num] = {} \/ TakesBoth(Work, i)

\* Free entries have no members, or, after an access that failed, members that
\* are in the default VLAN as well.
Tidy == \A n \in Nums : vid[n] = 0 => member[n] = {}
Leftovers == \A n \in Nums, p \in Ports : vid[n] = 0 /\ p \in member[n] => p \in member[0]
-----------------------------------------------------------------------------
\* The command sets the table up: from the default VLAN on all ports are in it.
Tidies(i, n) ==
  i \in DOMAIN Work /\ (Work[i] = Members(n, {}) \/ (Work[i].op = "vid" /\ Work[i].num = n /\ Work[i].vid # 0))

AllInDefault ==
  \/ member[0] = Ports
  \/ 1 \in DOMAIN Work /\ Work[1] = Members(0, Ports)
  \/ 2 \in DOMAIN Work /\ OfVID(Work[1]) /\ Work[1].num = 0 /\ Work[2] = Members(0, Ports)

SetUp ==
  /\ \A i \in DOMAIN Work :
       Work[i].op \in SettingOps \union {"vid", "store_vid", "members", "store_members", "turn"}
  /\ \A i, j \in DOMAIN Work : i < j /\ Work[i].op = "turn" => Work[j].op \in SettingOps \union {"turn"}
  /\ \A i \in DOMAIN Work : Work[i].op = "members" /\ Work[i].num = 0 => Work[i].ports = Ports
  /\ AllInDefault
  /\ GivesBoth(Work)
  /\ errors = 0 => \A n \in Nums : vid[n] = 0 => member[n] = {} \/ Tidies(1, n) \/ Tidies(2, n)
  /\ Leftovers

\* Ports join entries.  An untagged one has joined before it quits others.
Adds(x, p, n) ==
  \/ x.op = "add" /\ x.port = p /\ x.num = n
  \/ x.op = "members" /\ x.num = n /\ p \in x.ports

QuitsNext(n) ==
  /\ 2 \in DOMAIN Work /\ Work[2].op = "quit"
  /\ Work[2].num # n /\ Work[2].from = n + 1

\* The port is about to quit entry n.
QuitsLater(p, n) ==
  \/ \E i \in {1, 2} : i \in DOMAIN Work /\ Work[i].op = "quit" /\ Work[i].port = p /\ Work[i].from <= n
  \/ 1 \in DOMAIN Work /\ Work[1].op = "delete" /\ Work[1].port = p /\ Work[1].num = n
  \/ 1 \in DOMAIN Work /\ Work[1].op = "members" /\ Work[1].num = n /\ p \notin Work[1].ports

Joins ==
  /\ \A i \in DOMAIN Work :
       /\ Work[i].op \in SettingOps \union {"join", "add", "quit", "members", "store_members", "delete"}
       /\ Work[i].op = "join" => \E n \in Nums : vid[n] = Work[i].vid
       /\ Work[i].op = "add" => vid[Work[i].num] # 0
       /\ Work[i].op \in {"members", "delete"} => i = 1
  /\ \A i, j \in DOMAIN Work : i < j /\ Work[i].op = "join" => Work[j].op = "join"
  /\ \A i \in DOMAIN Work : Work[i].op = "quit" =>
       /\ vid[Work[i].num] # 0
       /\ \/ Work[i].port \in member[Work[i].num]
          \/ \E j \in DOMAIN Work : j < i /\ Adds(Work[j], Work[i].port, Work[i].num)
       /\ \A j \in DOMAIN Work : j > i => Work[j].op \in {"tag", "join"}
  /\ 1 \in DOMAIN Work /\ Work[1].op = "delete" => QuitsNext(Work[1].num) /\ Work[2].port = Work[1].port
  /\ 1 \in DOMAIN Work /\ Work[1].op = "members" =>
       \/ vid[Work[1].num] # 0 /\ member[Work[1].num] \subseteq Work[1].ports
       \/ QuitsNext(Work[1].num) /\ Work[1].ports = member[Work[1].num] \ {Work[2].port}
  /\ errors = 0 => Tidy
  /\ \A n \in Nums, p \in Ports : vid[n] = 0 /\ p \in member[n] => p \in member[0] \/ QuitsLater(p, n)

\* Ports part from entry n, which may be given back then.  A port is in another
\* VLAN before it leaves this one.
Takes(x, p, n) ==
  \/ x.op = "delete" /\ x.port = p
  \/ x.op = "members" /\ x.num = n /\ p \notin x.ports

Saves(x, p) ==
  \/ x.op \in {"part", "leave", "leave_tagged", "add"} /\ x.port = p
  \/ x.op = "members" /\ x.num = 0 /\ p \in x.ports

PartsFrom(n) ==
  /\ \A i \in DOMAIN Work :
       /\ Work[i].op \in SettingOps \union {"part", "leave", "leave_tagged", "add", "delete",
                                            "members", "store_members", "vid", "store_vid"}
       /\ Work[i].op \in {"leave", "leave_tagged"} => i = 1 /\ Work[i].port \in member[n]
       /\ Work[i].op = "leave_tagged" => Work[i].in > 0 /\ (Work[i].in > 1 => Other(Work[i].port, n))
       /\ Work[i].op \in {"part", "leave", "delete", "vid"} => Work[i].num = n
       /\ Work[i].op = "vid" => i + 1 \notin DOMAIN Work
       /\ Work[i].op = "add" => Work[i].num = 0
       /\ Work[i].op = "members" =>
            \/ i = 1 /\ Work[i].num = 0 /\ member[0] \subseteq Work[i].ports
            \/ Work[i].num = n /\ (i = 1 \/ Work[i].ports = {}) /\ Work[i].ports \subseteq member[n]
  /\ \A i \in DOMAIN Work : \A p \in member[n] : Takes(Work[i], p, n) =>
       Other(p, n) \/ \E j \in DOMAIN Work : j < i /\ Saves(Work[j], p)
  /\ errors = 0 => Tidy
  /\ Leftovers

Parting == \E n \in Nums \ {0} : PartsFrom(n)

Safe == lost = 0 /\ ~overtaken /\ errors =< 1

TableInv == CopyInv /\ ScanInv /\ Keeps /\ GivesBack /\ (SetUp \/ Joins \/ Parting)

Inv == TypeInv /\ DefaultInv /\ (Safe => TableInv)
-----------------------------------------------------------------------------
LEMMA Constants ==
  /\ 0 \in Nums /\ Nums \subseteq Nat /\ Ports \subseteq Nat /\ MgtPort \in Ports
  /\ MAX_RCP_VLAN_NUM \in Nat /\ NumPorts \in Nat /\ Ports = 1 .. NumPorts
  /\ Nums = 0 .. MAX_RCP_VLAN_NUM - 1 /\ MAX_RCP_VLAN_NUM >= NumPorts /\ NumPorts >= 1
  /\ Vids \subseteq 2 .. 4094
  BY VlanAssumption DEF Nums, Ports

LEMMA CliIsOne ==
  ASSUME OneSession
  PROVE  Cli \in Sessions /\ \A s \in Sessions : s = Cli
  BY DEF OneSession, Cli

\* The session goes on with `more`.
LEMMA GoesOn ==
  ASSUME OneSession, TypeInv, Work # <<>>, NEW more, IsSeq(more), Goon(Cli, more)
  PROVE  /\ DOMAIN todo' = Sessions /\ IsSeq(Work') /\ Len(Work') = Len(more) + Len(Work) - 1
         /\ Len(Work) \in Nat \ {0} /\ Len(more) \in Nat
         /\ DOMAIN Work' = 1 .. Len(Work') /\ DOMAIN Work = 1 .. Len(Work) /\ DOMAIN more = 1 .. Len(more)
         /\ \A i \in 1 .. Len(more) : Work'[i] = more[i]
         /\ \A i \in 2 .. Len(Work) : Work'[Len(more) + i - 1] = Work[i]
         /\ Head(todo[Cli]) = Work[1] /\ todo[Cli] = Work
<1>1. Cli \in Sessions /\ DOMAIN todo = Sessions
  BY CliIsOne DEF TypeInv
<1>2. todo' = [todo EXCEPT ![Cli] = more \o Tail(Work)]
  BY DEF Goon, Work
<1>3. Work' = more \o Tail(Work) /\ DOMAIN todo' = Sessions
  BY <1>1, <1>2 DEF Work
<1>4. IsSeq(Work)
  BY DEF TypeInv
<1> DEFINE w == Work
<1>5. Head(w) = w[1] /\ todo[Cli] = w
  BY <1>4, GoonMakes DEF Work
<1> QED
  BY <1>3, <1>4, <1>5, GoonMakes

\* It goes on with nothing more or with one step.
LEMMA Pops ==
  ASSUME OneSession, TypeInv, Work # <<>>, Goon(Cli, <<>>)
  PROVE  /\ DOMAIN todo' = Sessions /\ IsSeq(Work') /\ Len(Work) \in Nat \ {0}
         /\ DOMAIN Work' = 1 .. Len(Work) - 1 /\ DOMAIN Work = 1 .. Len(Work) /\ Len(Work') = Len(Work) - 1
         /\ \A i \in 1 .. Len(Work) - 1 : Work'[i] = Work[i + 1]
<1>1. IsSeq(<<>>) /\ Len(<<>>) = 0
  BY EmptyIsSeq
<1> DEFINE more == <<>>
<1>2. IsSeq(more) /\ Len(more) = 0 /\ Goon(Cli, more)
  BY <1>1
<1> HIDE DEF more
<1>3. /\ DOMAIN todo' = Sessions /\ IsSeq(Work') /\ Len(Work') = Len(Work) - 1
      /\ Len(Work) \in Nat \ {0}
      /\ DOMAIN Work' = 1 .. Len(Work') /\ DOMAIN Work = 1 .. Len(Work)
      /\ \A i \in 2 .. Len(Work) : Work'[Len(more) + i - 1] = Work[i]
  BY <1>2, GoesOn
<1>4. ASSUME NEW i \in 1 .. Len(Work) - 1 PROVE Work'[i] = Work[i + 1]
  <2>1. i + 1 \in 2 .. Len(Work) /\ Len(more) + (i + 1) - 1 = i
    BY <1>2, <1>3
  <2> QED
    BY <1>3, <2>1
<1> QED
  BY <1>3, <1>4

LEMMA Replaces ==
  ASSUME OneSession, TypeInv, Work # <<>>, NEW x, Goon(Cli, <<x>>)
  PROVE  /\ DOMAIN todo' = Sessions /\ IsSeq(Work') /\ Len(Work) \in Nat \ {0}
         /\ DOMAIN Work' = 1 .. Len(Work) /\ DOMAIN Work = 1 .. Len(Work) /\ Len(Work') = Len(Work)
         /\ Work'[1] = x /\ \A i \in 2 .. Len(Work) : Work'[i] = Work[i]
<1> DEFINE more == <<x>>
<1>1. more \in Seq({x}) /\ Len(more) = 1 /\ more[1] = x
  OBVIOUS
<1>2. IsSeq(more) /\ Goon(Cli, more)
  BY <1>1 DEF IsSeq
<1> HIDE DEF more
<1>3. /\ DOMAIN todo' = Sessions /\ IsSeq(Work') /\ Len(Work') = Len(more) + Len(Work) - 1
      /\ Len(Work) \in Nat \ {0}
      /\ DOMAIN Work' = 1 .. Len(Work') /\ DOMAIN Work = 1 .. Len(Work)
      /\ \A i \in 1 .. Len(more) : Work'[i] = more[i]
      /\ \A i \in 2 .. Len(Work) : Work'[Len(more) + i - 1] = Work[i]
  BY <1>2, GoesOn
<1>4. ASSUME NEW i \in 2 .. Len(Work) PROVE Work'[i] = Work[i]
  <2>1. Len(more) + i - 1 = i
    BY <1>1, <1>3
  <2> QED
    BY <1>3, <2>1
<1>5. Len(Work') = Len(Work) /\ 1 \in 1 .. Len(more)
  BY <1>1, <1>3
<1> QED
  BY <1>1, <1>3, <1>4, <1>5
-----------------------------------------------------------------------------
\* A setting is made, or a part of it, or the copy is: the other steps stay in their order.
LEMMA QuietStep ==
  ASSUME OneSession, Inv, Work # <<>>, Work[1].op \in QuietOps,
         DOMAIN todo' = Sessions, IsSeq(Work'), NEW k \in {0, 1},
         Work[1].op \in SettingOps \/ k = 1,
         \A i \in DOMAIN Work' : IF i + k > 1 THEN i + k \in DOMAIN Work /\ Work'[i] = Work[i + k]
                                 ELSE Work'[i].op \in SettingOps,
         \A i \in DOMAIN Work : i > 1 => i - k \in DOMAIN Work' /\ Work'[i - k] = Work[i],
         UNCHANGED <<vid, member, scan, errors>>, lost' \in {lost, lost + 1},
         vlanVid' \in [Nums -> Nat], vlanPort' \in [Nums -> SUBSET Ports], overtaken => overtaken'
  PROVE  TypeInv' /\ DefaultInv' /\ (Safe' => CopyInv /\ ScanInv /\ (CopyInv' /\ ScanInv' => TableInv'))
<1>1. TypeInv /\ DefaultInv /\ (Safe => TableInv)
  BY DEF Inv
<1>2. DOMAIN Work = 1 .. Len(Work) /\ DOMAIN Work' = 1 .. Len(Work') /\ Len(Work) \in Nat /\ Len(Work') \in Nat
  BY <1>1 DEF TypeInv, IsSeq
<1>3. TypeInv'
  <2>1. \A i \in DOMAIN Work' : /\ Typed(Work'[i])
                                /\ Work'[i].op = "turn" => TurnOK(Work'[i].does)
                                /\ Work'[i].op \in {"store_vid", "store_members"} => i = 1
    <3> TAKE i \in DOMAIN Work'
    <3> DEFINE x == Work'[i]
    <3>1. CASE x.op \in SettingOps
      <4> HIDE DEF x
      <4>1. Typed(x) /\ x.op # "turn" /\ x.op \notin {"store_vid", "store_members"}
        BY <3>1 DEF SettingOps, Typed, OfVID, OfMembers
      <4> QED
        BY <4>1 DEF x
    <3>2. CASE i + k \in DOMAIN Work /\ i + k > 1 /\ Work'[i] = Work[i + k]
      BY <1>1, <3>2 DEF TypeInv
    <3> QED
      BY <3>1, <3>2
  <2> QED
    BY <1>1, <2>1 DEF TypeInv, ScanType
<1>4. DefaultInv'
  BY <1>1 DEF DefaultInv
<1> SUFFICES ASSUME Safe' PROVE CopyInv /\ ScanInv /\ (CopyInv' /\ ScanInv' => TableInv')
  BY <1>3, <1>4
<1>5. Safe /\ TableInv
  BY <1>1 DEF Safe, TypeInv
<1>9. Keeps'
  BY <1>5 DEF TableInv, Keeps
\* What needs its neighbour keeps it.
<1>10. ASSUME NEW i \in DOMAIN Work, i > 1, TakesBoth(Work, i), member[Work[i].num] # {}
       PROVE  TakesBoth(Work', i - k)
  <2>1. i - k \in DOMAIN Work' /\ Work'[i - k] = Work[i]
    BY <1>10
  <2>2. CASE i - 1 \in DOMAIN Work /\ OfMembers(Work[i - 1]) /\ Work[i - 1].num = Work[i].num /\ Work[i - 1].ports = {}
    <3>1. ASSUME i - 1 = 1 PROVE FALSE
      <4>1. Work[1].op = "store_members" /\ 1 \in DOMAIN Work
        BY <2>2, <3>1 DEF OfMembers, QuietOps, SettingOps
      <4>2. member[Work[1].num] = Work[1].ports
        BY <1>5, <4>1 DEF TableInv, CopyInv
      <4> QED
        BY <1>10, <2>2, <3>1, <4>2
    <3>2. i - 1 > 1 /\ (i - 1) - k = (i - k) - 1
      BY <1>2, <2>2, <3>1
    <3>3. (i - k) - 1 \in DOMAIN Work' /\ Work'[(i - k) - 1] = Work[i - 1]
      BY <2>2, <3>2
    <3> QED
      BY <2>1, <2>2, <3>3 DEF TakesBoth
  <2>3. CASE i + 1 \in DOMAIN Work /\ Work[i + 1] = Members(Work[i].num, {})
    <3>1. i + 1 > 1 /\ (i + 1) - k = (i - k) + 1
      BY <1>2, <1>10
    <3>2. (i - k) + 1 \in DOMAIN Work' /\ Work'[(i - k) + 1] = Work[i + 1]
      BY <2>3, <3>1
    <3> QED
      BY <2>1, <2>3, <3>2 DEF TakesBoth
  <2> QED
    BY <1>10, <2>2, <2>3 DEF TakesBoth
<1>11. Work[1].op \notin {"vid", "members"}
  BY DEF QuietOps, SettingOps
<1>12. \A i \in DOMAIN Work' : Work'[i].op \notin SettingOps =>
         /\ i + k \in DOMAIN Work /\ i + k > 1 /\ Work'[i] = Work[i + k] /\ (i + k) - k = i
  BY <1>2
<1>13. \A i \in DOMAIN Work : Work[i].op \notin QuietOps =>
         i > 1 /\ i - k \in DOMAIN Work' /\ Work'[i - k] = Work[i] /\ (i - k) + k = i
  BY <1>2
<1>14. GivesBack'
  <2>1. ASSUME NEW i \in DOMAIN Work', Work'[i].op = "vid", Work'[i].vid = 0
        PROVE  member[Work'[i].num] = {} \/ TakesBoth(Work', i)
    <3>1. i + k \in DOMAIN Work /\ i + k > 1 /\ Work'[i] = Work[i + k] /\ (i + k) - k = i
      BY <1>12, <2>1 DEF SettingOps
    <3>2. member[Work'[i].num] = {} \/ TakesBoth(Work, i + k)
      BY <1>5, <2>1, <3>1 DEF TableInv, GivesBack
    <3> QED
      BY <1>10, <2>1, <3>1, <3>2
  <2> QED
    BY <2>1 DEF GivesBack
<1>15. ASSUME SetUp PROVE SetUp'
  <2>1. \A i \in DOMAIN Work' :
          Work'[i].op \in SettingOps \union {"vid", "store_vid", "members", "store_members", "turn"}
    BY <1>12, <1>15 DEF SetUp
  <2>2. \A i, j \in DOMAIN Work' : i < j /\ Work'[i].op = "turn" => Work'[j].op \in SettingOps \union {"turn"}
    <3> TAKE i \in DOMAIN Work', j \in DOMAIN Work'
    <3>1. i < j => i + k < j + k
      BY <1>2
    <3>2. "turn" \notin SettingOps
      BY DEF SettingOps
    <3> QED
      BY <1>12, <1>15, <3>1, <3>2 DEF SetUp
  <2>3. \A i \in DOMAIN Work' : Work'[i].op = "members" /\ Work'[i].num = 0 => Work'[i].ports = Ports
    BY <1>12, <1>15 DEF SetUp, SettingOps
  <2>4. AllInDefault'
    <3>1. CASE member[0] = Ports
      BY <3>1 DEF AllInDefault
    <3>2. CASE 1 \in DOMAIN Work /\ Work[1] = Members(0, Ports)
      BY <1>11, <3>2 DEF Members
    <3>3. CASE 2 \in DOMAIN Work /\ OfVID(Work[1]) /\ Work[1].num = 0 /\ Work[2] = Members(0, Ports)
      <4>1. k = 1
        BY <3>3 DEF OfVID, SettingOps
      <4>2. 2 - k = 1 /\ 1 \in DOMAIN Work' /\ Work'[1] = Work[2]
        BY <3>3, <4>1
      <4> QED
        BY <3>3, <4>2 DEF AllInDefault, Members
    <3> QED
      BY <1>15, <3>1, <3>2, <3>3 DEF SetUp, AllInDefault
  <2>5. GivesBoth(Work')
    <3> SUFFICES ASSUME NEW i \in DOMAIN Work', Work'[i].op = "members", Work'[i].num # 0, Work'[i].ports # {}
                 PROVE  /\ i + 1 \in DOMAIN Work' /\ Work'[i + 1].op = "vid" /\ Work'[i + 1].num = Work'[i].num
                        /\ \A j \in DOMAIN Work' : Work'[j].op = "vid" => Work'[j].vid # 0
      BY DEF GivesBoth
    <3>1. i + k \in DOMAIN Work /\ Work'[i] = Work[i + k]
      BY <1>12 DEF SettingOps
    <3>2. /\ (i + k) + 1 \in DOMAIN Work /\ Work[(i + k) + 1].op = "vid" /\ Work[(i + k) + 1].num = Work'[i].num
          /\ \A j \in DOMAIN Work : Work[j].op = "vid" => Work[j].vid # 0
      BY <1>15, <3>1 DEF SetUp, GivesBoth
    <3>3. ((i + k) + 1) - k = i + 1
      BY <1>2
    <3>4. i + 1 \in DOMAIN Work' /\ Work'[i + 1] = Work[(i + k) + 1]
      BY <1>13, <3>2, <3>3 DEF SettingOps, QuietOps
    <3> QED
      BY <1>12, <3>2, <3>4 DEF SettingOps
  <2>6. ASSUME NEW n, Tidies(1, n) \/ Tidies(2, n) PROVE (Tidies(1, n) \/ Tidies(2, n))'
    <3>1. ~Tidies(1, n)
      BY <1>11 DEF Tidies, Members
    <3>2. Tidies(2, n) => Tidies(2 - k, n)'
      BY DEF Tidies
    <3> QED
      BY <2>6, <3>1, <3>2
  <2>7. errors' = 0 => \A n \in Nums : vid'[n] = 0 => member'[n] = {} \/ Tidies(1, n)' \/ Tidies(2, n)'
    BY <1>15, <2>6 DEF SetUp
  <2>8. Leftovers'
    BY <1>15 DEF SetUp, Leftovers
  <2> QED
    BY <2>1, <2>2, <2>3, <2>4, <2>5, <2>7, <2>8 DEF SetUp
<1>16. ASSUME Joins PROVE Joins'
  <2>1. \A i \in DOMAIN Work' :
          /\ Work'[i].op \in SettingOps \union {"join", "add", "quit", "members", "store_members", "delete"}
          /\ Work'[i].op = "join" => \E n \in Nums : vid'[n] = Work'[i].vid
          /\ Work'[i].op = "add" => vid'[Work'[i].num] # 0
          /\ Work'[i].op \notin {"members", "delete"}
    BY <1>12, <1>16 DEF Joins, SettingOps
  <2>6. ASSUME NEW i \in DOMAIN Work', NEW j \in DOMAIN Work', i < j, Work'[i].op = "join"
        PROVE  Work'[j].op = "join"
    <3>1. i + k \in DOMAIN Work /\ Work'[i] = Work[i + k]
      BY <1>12, <2>6 DEF SettingOps
    <3>2. j + k > 1 /\ i + k < j + k
      BY <1>2, <2>6
    <3>3. j + k \in DOMAIN Work /\ Work'[j] = Work[j + k]
      BY <3>2
    <3> QED
      BY <1>16, <2>6, <3>1, <3>2, <3>3 DEF Joins
  <2>2. ASSUME NEW i \in DOMAIN Work', Work'[i].op = "quit"
        PROVE  /\ vid'[Work'[i].num] # 0
               /\ \/ Work'[i].port \in member'[Work'[i].num]
                  \/ \E j \in DOMAIN Work' : j < i /\ Adds(Work'[j], Work'[i].port, Work'[i].num)
               /\ \A j \in DOMAIN Work' : j > i => Work'[j].op \in {"tag", "join"}
    <3>1. i + k \in DOMAIN Work /\ i + k > 1 /\ Work'[i] = Work[i + k] /\ (i + k) - k = i
      <4>1. Work'[i].op \notin SettingOps
        BY <2>2 DEF SettingOps
      <4> QED
        BY <1>12, <4>1
    <3>2. /\ vid[Work'[i].num] # 0
          /\ \/ Work'[i].port \in member[Work'[i].num]
             \/ \E j \in DOMAIN Work : j < i + k /\ Adds(Work[j], Work'[i].port, Work'[i].num)
          /\ \A j \in DOMAIN Work : j > i + k => Work[j].op \in {"tag", "join"}
      BY <1>16, <2>2, <3>1 DEF Joins
    <3>3. ASSUME NEW j \in DOMAIN Work, j < i + k, Adds(Work[j], Work'[i].port, Work'[i].num)
          PROVE  \E j2 \in DOMAIN Work' : j2 < i /\ Adds(Work'[j2], Work'[i].port, Work'[i].num)
      <4>1. j - k \in DOMAIN Work' /\ Work'[j - k] = Work[j]
        BY <1>13, <3>3 DEF Adds, SettingOps, QuietOps
      <4>2. j - k < i
        BY <1>2, <3>3
      <4> QED
        BY <3>3, <4>1, <4>2
    <3>4. ASSUME NEW j \in DOMAIN Work', j > i PROVE Work'[j].op \in {"tag", "join"}
      <4>1. j > 1 /\ j + k > i + k
        BY <1>2, <3>4
      <4>2. j + k \in DOMAIN Work /\ Work'[j] = Work[j + k]
        BY <1>2, <4>1
      <4> QED
        BY <3>2, <4>1, <4>2
    <3> QED
      BY <3>2, <3>3, <3>4
  <2>3. \A n \in Nums, p \in Ports : QuitsLater(p, n) => QuitsLater(p, n)'
    <3> SUFFICES ASSUME NEW n \in Nums, NEW p \in Ports, QuitsLater(p, n) PROVE QuitsLater(p, n)'
      OBVIOUS
    <3>1. 2 \in DOMAIN Work /\ Work[2].op = "quit" /\ Work[2].port = p /\ Work[2].from <= n
      BY DEF QuitsLater, SettingOps, QuietOps
    <3>2. 2 - k \in DOMAIN Work' /\ Work'[2 - k] = Work[2] /\ 2 - k \in {1, 2}
      BY <3>1
    <3> QED
      BY <3>1, <3>2 DEF QuitsLater
  <2>4. errors' = 0 => Tidy'
    BY <1>16 DEF Joins, Tidy
  <2>5. \A n \in Nums, p \in Ports : vid'[n] = 0 /\ p \in member'[n] => p \in member'[0] \/ QuitsLater(p, n)'
    BY <1>16, <2>3 DEF Joins
  <2> QED
    BY <2>1, <2>2, <2>4, <2>5, <2>6 DEF Joins
<1>17. ASSUME NEW n \in Nums \ {0}, PartsFrom(n) PROVE PartsFrom(n)'
  <2>1. \A i \in DOMAIN Work' :
          /\ Work'[i].op \in SettingOps \union {"part", "leave", "leave_tagged", "add", "delete",
                                                "members", "store_members", "vid", "store_vid"}
          /\ Work'[i].op \notin {"leave", "leave_tagged"}
          /\ Work'[i].op \in {"part", "leave", "delete", "vid"} => Work'[i].num = n
          /\ Work'[i].op = "add" => Work'[i].num = 0
          /\ Work'[i].op = "members" => Work'[i].num = n /\ Work'[i].ports = {}
    BY <1>12, <1>17 DEF PartsFrom, SettingOps
  <2>4. ASSUME NEW i \in DOMAIN Work', Work'[i].op = "vid", i + 1 \in DOMAIN Work' PROVE FALSE
    <3>1. i + k \in DOMAIN Work /\ Work'[i] = Work[i + k]
      BY <1>12, <2>4 DEF SettingOps
    <3>2. (i + 1) + k > 1 /\ (i + 1) + k = (i + k) + 1
      BY <1>2
    <3>3. (i + k) + 1 \in DOMAIN Work
      BY <2>4, <3>2
    <3> QED
      BY <1>17, <2>4, <3>1, <3>3 DEF PartsFrom
  <2>2. ASSUME NEW i \in DOMAIN Work', NEW p \in member'[n], Takes(Work'[i], p, n)
        PROVE  Other(p, n)' \/ \E j \in DOMAIN Work' : j < i /\ Saves(Work'[j], p)
    <3>1. i + k \in DOMAIN Work /\ i + k > 1 /\ Work'[i] = Work[i + k] /\ (i + k) - k = i
      BY <1>12, <2>2 DEF SettingOps, Takes
    <3>2. Other(p, n) \/ \E j \in DOMAIN Work : j < i + k /\ Saves(Work[j], p)
      BY <1>17, <2>2, <3>1 DEF PartsFrom
    <3>3. ASSUME NEW j \in DOMAIN Work, j < i + k, Saves(Work[j], p)
          PROVE  \E j2 \in DOMAIN Work' : j2 < i /\ Saves(Work'[j2], p)
      <4>1. j - k \in DOMAIN Work' /\ Work'[j - k] = Work[j]
        BY <1>13, <3>3 DEF Saves, SettingOps, QuietOps
      <4>2. j - k < i
        BY <1>2, <3>3
      <4> QED
        BY <3>3, <4>1, <4>2
    <3>4. Other(p, n) => Other(p, n)'
      BY DEF Other
    <3> QED
      BY <3>2, <3>3, <3>4
  <2>3. (errors' = 0 => Tidy') /\ Leftovers'
    BY <1>17 DEF PartsFrom, Tidy, Leftovers
  <2> QED
    BY <2>1, <2>2, <2>3, <2>4 DEF PartsFrom
<1> QED
  BY <1>5, <1>9, <1>14, <1>15, <1>16, <1>17 DEF TableInv, Parting

LEMMA HeadIsFirst ==
  ASSUME OneSession, TypeInv, NEW op, Doing(Cli, op)
  PROVE  /\ Work # <<>> /\ Work[1].op = op /\ Head(todo[Cli]) = Work[1] /\ todo[Cli] = Work
         /\ 1 \in DOMAIN Work /\ Typed(Work[1]) /\ DOMAIN Work = 1 .. Len(Work) /\ Len(Work) \in Nat \ {0}
<1>1. Work = todo[Cli] /\ Work # <<>> /\ IsSeq(Work)
  BY DEF Work, Doing, TypeInv
<1> DEFINE w == Work
<1>2. Head(w) = w[1] /\ DOMAIN w = 1 .. Len(w) /\ Len(w) \in Nat \ {0}
  BY <1>1, EmptyIsSeq, GoonMakes
<1>3. 1 \in DOMAIN Work
  BY <1>2
<1> QED
  BY <1>1, <1>2, <1>3 DEF Doing, TypeInv

LEMMA SameCopy ==
  ASSUME TypeInv, Work[1].op \in SettingOps, CopyInv, ScanInv,
         UNCHANGED <<vid, member, vlanVid, vlanPort, scan>>, NEW k,
         \A i \in DOMAIN Work' : IF i + k > 1 THEN i + k \in DOMAIN Work /\ Work'[i] = Work[i + k]
                                 ELSE Work'[i].op \in SettingOps
  PROVE  CopyInv' /\ ScanInv'
<1>1. \A n : ~Storing("store_vid", n) /\ ~Storing("store_members", n)
  BY DEF Storing, SettingOps
<1>2. \A i \in DOMAIN Work' : Work'[i].op \notin {"store_vid", "store_members"}
  BY DEF TypeInv, SettingOps
<1>3. /\ \A n \in Nums : vlanVid'[n] = vid'[n] \/ (n = 0 /\ vlanVid'[n] = 0)
      /\ \A n \in Nums : vlanPort'[n] = member'[n] \/ (n = 0 /\ vlanPort'[n] = {})
      /\ scan'.read # None => IF scan'.of = "vid" THEN scan'.read.value = vid'[scan'.n]
                              ELSE scan'.read.value = member'[scan'.n]
  BY <1>1 DEF CopyInv, ScanInv
<1> QED
  BY <1>2, <1>3 DEF CopyInv, ScanInv

\* What is done with a setting of a port or of the switch.
LEMMA SettingMade ==
  ASSUME OneSession, Inv, NEW op \in SettingOps, Doing(Cli, op), Goon(Cli, <<>>),
         UNCHANGED <<vid, member, vlanVid, vlanPort, scan, overtaken, errors>>, lost' \in {lost, lost + 1}
  PROVE  Inv'
<1>1. TypeInv
  BY DEF Inv
<1>2. Work # <<>> /\ Work[1].op \in SettingOps
  BY <1>1, HeadIsFirst
<1>3. /\ DOMAIN todo' = Sessions /\ IsSeq(Work') /\ Len(Work) \in Nat \ {0}
      /\ DOMAIN Work' = 1 .. Len(Work) - 1 /\ DOMAIN Work = 1 .. Len(Work)
      /\ \A i \in 1 .. Len(Work) - 1 : Work'[i] = Work[i + 1]
  BY <1>1, <1>2, Pops
<1> DEFINE k == 1
<1>4. k \in {0, 1}
  OBVIOUS
<1>5. \A i \in DOMAIN Work' : IF i + k > 1 THEN i + k \in DOMAIN Work /\ Work'[i] = Work[i + k]
                              ELSE Work'[i].op \in SettingOps
  BY <1>3
<1>6. ASSUME NEW i \in DOMAIN Work, i > 1 PROVE i - k \in DOMAIN Work' /\ Work'[i - k] = Work[i]
  <2>1. i - k \in 1 .. Len(Work) - 1 /\ (i - k) + 1 = i
    BY <1>3, <1>6
  <2> QED
    BY <1>3, <2>1
<1> HIDE DEF k
<1>7. Work[1].op \in QuietOps
  BY <1>2 DEF QuietOps
<1>8. vlanVid' \in [Nums -> Nat] /\ vlanPort' \in [Nums -> SUBSET Ports]
  BY <1>1 DEF TypeInv
<1>9. TypeInv' /\ DefaultInv' /\ (Safe' => CopyInv /\ ScanInv /\ (CopyInv' /\ ScanInv' => TableInv'))
  BY <1>2, <1>3, <1>4, <1>5, <1>6, <1>7, <1>8, QuietStep
<1>10. CopyInv /\ ScanInv => CopyInv' /\ ScanInv'
  BY <1>1, <1>2, <1>5, SameCopy
<1> QED
  BY <1>9, <1>10 DEF Inv

LEMMA SettingRead ==
  ASSUME OneSession, Inv, NEW op \in SettingOps, Doing(Cli, op), NEW x, x.op \in SettingOps, Goon(Cli, <<x>>),
         UNCHANGED <<vid, member, vlanVid, vlanPort, scan, overtaken, errors>>, lost' \in {lost, lost + 1}
  PROVE  Inv'
<1>1. TypeInv
  BY DEF Inv
<1>2. Work # <<>> /\ Work[1].op \in SettingOps
  BY <1>1, HeadIsFirst
<1>3. /\ DOMAIN todo' = Sessions /\ IsSeq(Work') /\ Len(Work) \in Nat \ {0}
      /\ DOMAIN Work' = 1 .. Len(Work) /\ DOMAIN Work = 1 .. Len(Work)
      /\ Work'[1] = x /\ \A i \in 2 .. Len(Work) : Work'[i] = Work[i]
  BY <1>1, <1>2, Replaces
<1> DEFINE k == 0
<1>4. k \in {0, 1}
  OBVIOUS
<1>5. \A i \in DOMAIN Work' : IF i + k > 1 THEN i + k \in DOMAIN Work /\ Work'[i] = Work[i + k]
                              ELSE Work'[i].op \in SettingOps
  BY <1>3
<1>6. \A i \in DOMAIN Work : i > 1 => i - k \in DOMAIN Work' /\ Work'[i - k] = Work[i]
  BY <1>3
<1> HIDE DEF k
<1>7. Work[1].op \in QuietOps
  BY <1>2 DEF QuietOps
<1>8. vlanVid' \in [Nums -> Nat] /\ vlanPort' \in [Nums -> SUBSET Ports]
  BY <1>1 DEF TypeInv
<1>9. TypeInv' /\ DefaultInv' /\ (Safe' => CopyInv /\ ScanInv /\ (CopyInv' /\ ScanInv' => TableInv'))
  BY <1>2, <1>3, <1>4, <1>5, <1>6, <1>7, <1>8, QuietStep
<1>10. CopyInv /\ ScanInv => CopyInv' /\ ScanInv'
  BY <1>1, <1>2, <1>5, SameCopy
<1> QED
  BY <1>9, <1>10 DEF Inv

LEMMA SettingSteps ==
  ASSUME OneSession, Inv,
         \/ SetVlanPVID(Cli) \/ PutPVID(Cli) \/ SetVlanInsertPVID(Cli) \/ PutInsert(Cli)
         \/ SetVlanOutPortTag(Cli) \/ PutTag(Cli) \/ SetVlan8021Q(Cli)
         \/ SetVlanPortIsolate(Cli) \/ SetEepromValue(Cli)
  PROVE  Inv'
<1>1. CASE SetVlanPVID(Cli)
  <2>1. \E x : Doing(Cli, "pvid") /\ x.op = "put_pvid" /\ Goon(Cli, <<x>>)
    BY <1>1 DEF SetVlanPVID
  <2> QED
    BY <1>1, <2>1, SettingRead DEF SetVlanPVID, SettingOps, regVars, devVars, countVars
<1>2. CASE SetVlanInsertPVID(Cli)
  <2>1. \E x : Doing(Cli, "insert") /\ x.op = "put_insert" /\ Goon(Cli, <<x>>)
    BY <1>2 DEF SetVlanInsertPVID
  <2> QED
    BY <1>2, <2>1, SettingRead DEF SetVlanInsertPVID, SettingOps, regVars, devVars, countVars
<1>3. CASE SetVlanOutPortTag(Cli)
  <2>1. \E x : Doing(Cli, "tag") /\ x.op = "put_tag" /\ Goon(Cli, <<x>>)
    BY <1>3 DEF SetVlanOutPortTag
  <2> QED
    BY <1>3, <2>1, SettingRead DEF SetVlanOutPortTag, SettingOps, regVars, devVars, countVars
<1>4. CASE PutPVID(Cli)
  BY <1>4, SettingMade DEF PutPVID, SettingOps, devVars, Written
<1>5. CASE PutInsert(Cli)
  BY <1>5, SettingMade DEF PutInsert, SettingOps, devVars, Written
<1>6. CASE PutTag(Cli)
  BY <1>6, SettingMade DEF PutTag, SettingOps, devVars, Written
<1>7. CASE SetVlan8021Q(Cli)
  BY <1>7, SettingMade DEF SetVlan8021Q, SettingOps, devVars, Written
<1>8. CASE SetVlanPortIsolate(Cli)
  BY <1>8, SettingMade DEF SetVlanPortIsolate, SettingOps, regVars, countVars
<1>9. CASE SetEepromValue(Cli)
  BY <1>9, SettingMade DEF SetEepromValue, SettingOps, regVars, devVars, countVars
<1> QED
  BY <1>1, <1>2, <1>3, <1>4, <1>5, <1>6, <1>7, <1>8, <1>9
-----------------------------------------------------------------------------
\* The rules of the commands are about the registers, the work and the errors.
LEMMA SameRules ==
  ASSUME TypeInv, DefaultInv, Safe, Keeps, GivesBack, SetUp \/ Joins \/ Parting,
         UNCHANGED <<vid, member, todo>>, errors' \in {errors, errors + 1}
  PROVE  Keeps' /\ GivesBack' /\ (SetUp' \/ Joins' \/ Parting')
<1>1. Work' = Work /\ errors \in Nat
  BY DEF Work, TypeInv
<1>2. errors' = 0 => errors = 0
  BY <1>1
<1>3. Keeps' /\ GivesBack'
  BY <1>1 DEF Keeps, GivesBack
<1>4. ASSUME SetUp PROVE SetUp'
  BY <1>1, <1>2, <1>4 DEF SetUp, AllInDefault, Leftovers, Tidies
<1>5. ASSUME Joins PROVE Joins'
  BY <1>1, <1>2, <1>5 DEF Joins, QuitsNext, QuitsLater, Tidy
<1>6. ASSUME NEW n \in Nums \ {0}, PartsFrom(n) PROVE PartsFrom(n)'
  BY <1>1, <1>2, <1>6 DEF PartsFrom, Other, Tidy, Leftovers
<1> QED
  BY <1>3, <1>4, <1>5, <1>6 DEF Parting

LEMMA Remainder ==
  ASSUME NEW n \in Nums
  PROVE  (n + 1) % MAX_RCP_VLAN_NUM \in Nums
  BY Constants

LEMMA RefreshStep ==
  ASSUME Inv, Refresh
  PROVE  Inv'
<1>1. TypeInv /\ DefaultInv /\ (Safe => TableInv)
  BY DEF Inv
<1>2. /\ UNCHANGED <<vid, member, todo, lost, overtaken>> /\ errors' \in {errors, errors + 1}
      /\ errors \in Nat
  BY <1>1 DEF Refresh, ScanRead, ScanStore, ScanFail, TypeInv, regVars, devVars, countVars
<1>3. Work' = Work
  BY <1>2 DEF Work
<1>4. scan.n \in Nums /\ scan.of \in {"vid", "members"}
  BY <1>1 DEF TypeInv, ScanType
<1>5. ScanType' /\ vlanVid' \in [Nums -> Nat] /\ vlanPort' \in [Nums -> SUBSET Ports]
  <2>1. NextScan => ScanType' /\ scan'.read = None
    BY <1>4, Remainder DEF NextScan, ScanType
  <2>2. CASE ScanRead
    BY <1>1, <2>2 DEF ScanRead, TypeInv, ScanType, regVars, devVars
  <2>3. CASE ScanStore
    BY <1>1, <2>1, <2>3 DEF ScanStore, TypeInv, ScanType, None
  <2>4. CASE ScanFail
    BY <1>1, <2>1, <2>4 DEF ScanFail, TypeInv, devVars
  <2> QED
    BY <2>2, <2>3, <2>4 DEF Refresh
<1>6. TypeInv'
  BY <1>1, <1>2, <1>3, <1>5 DEF TypeInv
<1>7. DefaultInv'
  BY <1>1, <1>2 DEF DefaultInv
<1> SUFFICES ASSUME Safe' PROVE TableInv'
  BY <1>6, <1>7 DEF Inv
<1>8. Safe /\ TableInv
  BY <1>1, <1>2 DEF Safe
<1>9. \A op, n : Storing(op, n)' <=> Storing(op, n)
  BY <1>3 DEF Storing
<1>10. ScanInv'
  <2>1. NextScan => scan'.read = None
    BY DEF NextScan
  <2>2. CASE ScanRead
    BY <1>1, <2>2 DEF ScanRead, TypeInv, ScanType, ScanInv, regVars
  <2> QED
    BY <2>1, <2>2 DEF Refresh, ScanStore, ScanFail, ScanInv
<1>11. CopyInv'
  <2>1. CASE ScanRead \/ ScanFail
    BY <1>2, <1>3, <1>8, <1>9, <2>1 DEF ScanRead, ScanFail, devVars, TableInv, CopyInv
  <2>2. CASE ScanStore /\ scan.of = "vid"
    <3>1. /\ vlanVid' = [vlanVid EXCEPT ![scan.n] = scan.read.value] /\ vlanPort' = vlanPort
          /\ scan.read.value = vid[scan.n] \/ Storing("store_vid", scan.n)
      BY <1>8, <2>2 DEF ScanStore, TableInv, ScanInv
    <3>2. \A n \in Nums : vlanVid'[n] = vid'[n] \/ (n = 0 /\ vlanVid'[n] = 0) \/ Storing("store_vid", n)'
      BY <1>1, <1>2, <1>8, <1>9, <3>1 DEF TypeInv, TableInv, CopyInv
    <3> QED
      BY <1>2, <1>3, <1>8, <1>9, <3>1, <3>2 DEF TableInv, CopyInv
  <2>3. CASE ScanStore /\ scan.of # "vid"
    <3>1. /\ vlanPort' = [vlanPort EXCEPT ![scan.n] = scan.read.value] /\ vlanVid' = vlanVid
          /\ scan.read.value = member[scan.n] \/ Storing("store_members", scan.n)
      BY <1>8, <2>3 DEF ScanStore, TableInv, ScanInv
    <3>2. \A n \in Nums : vlanPort'[n] = member'[n] \/ (n = 0 /\ vlanPort'[n] = {}) \/ Storing("store_members", n)'
      BY <1>1, <1>2, <1>8, <1>9, <3>1 DEF TypeInv, TableInv, CopyInv
    <3> QED
      BY <1>2, <1>3, <1>8, <1>9, <3>1, <3>2 DEF TableInv, CopyInv
  <2> QED
    BY <2>1, <2>2, <2>3 DEF Refresh
<1>12. Keeps' /\ GivesBack' /\ (SetUp' \/ Joins' \/ Parting')
  BY <1>1, <1>2, <1>8, SameRules DEF TableInv
<1> QED
  BY <1>10, <1>11, <1>12 DEF TableInv
-----------------------------------------------------------------------------
LEMMA WorkStarts ==
  ASSUME TypeInv, Work # <<>>
  PROVE  1 \in DOMAIN Work /\ DOMAIN Work = 1 .. Len(Work) /\ Len(Work) \in Nat \ {0}
<1> DEFINE w == Work
<1>1. IsSeq(w)
  BY DEF TypeInv
<1>2. DOMAIN w = 1 .. Len(w) /\ Len(w) \in Nat \ {0}
  BY <1>1, EmptyIsSeq, GoonMakes
<1> QED
  BY <1>2

\* A command ends early.
LEMMA EndStep ==
  ASSUME OneSession, Inv, Work # <<>>, Work[1].op \notin {"store_vid", "store_members"},
         todo' = [todo EXCEPT ![Cli] = <<>>],
         UNCHANGED <<vid, member, vlanVid, vlanPort, scan, overtaken, lost>>,
         errors' = errors + 1 \/ (errors' = errors /\ Work[1].op = "part")
  PROVE  Inv'
<1>1. TypeInv /\ DefaultInv /\ (Safe => TableInv) /\ errors \in Nat /\ errors' \in Nat
  BY DEF Inv, TypeInv
<1>2. Work' = <<>> /\ DOMAIN todo' = Sessions /\ IsSeq(Work') /\ DOMAIN Work' = {}
  BY <1>1, CliIsOne, EmptyIsSeq DEF Work, TypeInv
<1>3. TypeInv'
  BY <1>1, <1>2 DEF TypeInv, ScanType
<1>4. DefaultInv'
  BY <1>1 DEF DefaultInv
<1> SUFFICES ASSUME Safe' PROVE TableInv'
  BY <1>3, <1>4 DEF Inv
<1>5. Safe /\ TableInv
  BY <1>1 DEF Safe
<1>6. \A op, n : ~Storing(op, n) \/ op \notin {"store_vid", "store_members"}
  BY DEF Storing
<1>7. CopyInv' /\ ScanInv' /\ Keeps' /\ GivesBack'
  <2>1. CopyInv'
    BY <1>2, <1>5, <1>6 DEF TableInv, CopyInv
  <2>2. ScanInv'
    BY <1>2, <1>5, <1>6 DEF TableInv, ScanInv
  <2> QED
    BY <1>2, <1>5, <2>1, <2>2 DEF TableInv, Keeps, GivesBack
<1>8. Leftovers /\ (errors' = 0 => Tidy)
  <2>1. CASE SetUp
    <3>1. 1 \in DOMAIN Work
      BY <1>1, WorkStarts
    <3>2. Work[1].op # "part"
      BY <2>1, <3>1 DEF SetUp, SettingOps
    <3> QED
      BY <1>1, <2>1, <3>2 DEF SetUp
  <2>2. CASE Joins
    <3>1. 1 \in DOMAIN Work
      BY <1>1, WorkStarts
    <3>2. Work[1].op # "part"
      BY <2>2, <3>1 DEF Joins, SettingOps
    <3>3. errors = 0
      BY <1>1, <3>2 DEF Safe
    <3> QED
      BY <1>1, <2>2, <3>2, <3>3 DEF Joins, Tidy, Leftovers
  <2>3. CASE Parting
    BY <1>1, <2>3 DEF Parting, PartsFrom
  <2> QED
    BY <1>5, <2>1, <2>2, <2>3 DEF TableInv
<1>9. Joins'
  <2>1. Leftovers' /\ (errors' = 0 => Tidy')
    BY <1>8 DEF Leftovers, Tidy
  <2> QED
    BY <1>2, <2>1 DEF Joins, Leftovers
<1> QED
  BY <1>7, <1>9 DEF TableInv

LEMMA FailStep ==
  ASSUME OneSession, Inv, Fail(Cli)
  PROVE  Inv'
<1>1. TypeInv
  BY DEF Inv
<1>2. todo[Cli] # <<>> /\ Head(todo[Cli]).op \notin {"store_vid", "store_members"}
  BY DEF Fail
<1>3. Work # <<>> /\ Work[1].op \notin {"store_vid", "store_members"}
  BY <1>1, <1>2, HeadIsFirst DEF Doing
<1> QED
  BY <1>3, EndStep DEF Fail, regVars, devVars
-----------------------------------------------------------------------------
\* The VID of an entry is written.
LEMMA VIDWritten ==
  ASSUME OneSession, Inv, SetVlanVID(Cli)
  PROVE  Inv'
<1> DEFINE x == Work[1]
           y == [x EXCEPT !.op = "store_vid"]
<1>1. TypeInv /\ DefaultInv /\ (Safe => TableInv)
  BY DEF Inv
<1>2. /\ Work # <<>> /\ x.op = "vid" /\ Head(todo[Cli]) = x /\ todo[Cli] = Work
      /\ Typed(x) /\ 1 \in DOMAIN Work /\ DOMAIN Work = 1 .. Len(Work) /\ Len(Work) \in Nat \ {0}
  BY <1>1, HeadIsFirst DEF SetVlanVID
<1>3. x \in [op : {"vid", "store_vid"}, num : Nums, vid : Nat] /\ (x.num = 0 <=> x.vid = 1)
  BY <1>2 DEF Typed, OfVID
<1>4. y.op = "store_vid" /\ y.num = x.num /\ y.vid = x.vid
      /\ y \in [op : {"vid", "store_vid"}, num : Nums, vid : Nat]
  BY <1>3
<1>5. Goon(Cli, <<y>>)
  BY <1>2 DEF SetVlanVID
<1>6. /\ DOMAIN todo' = Sessions /\ IsSeq(Work')
      /\ DOMAIN Work' = DOMAIN Work
      /\ Work'[1] = y /\ \A i \in 2 .. Len(Work) : Work'[i] = Work[i]
  BY <1>1, <1>2, <1>5, Replaces
<1>7. /\ UNCHANGED <<member, vlanVid, vlanPort, scan, overtaken, errors>>
      /\ \/ vid' = [vid EXCEPT ![x.num] = x.vid] /\ lost' = lost
         \/ vid' = vid /\ lost' = lost + 1
  BY <1>2 DEF SetVlanVID, Written, devVars
<1> HIDE DEF x, y
<1>8. \A i \in DOMAIN Work' : i # 1 => i \in DOMAIN Work /\ Work'[i] = Work[i]
  BY <1>2, <1>6
<1>9. TypeInv'
  <2>1. Typed(y)
    BY <1>3, <1>4 DEF Typed, OfVID, OfMembers
  <2>2. \A i \in DOMAIN Work' : /\ Typed(Work'[i])
                                /\ Work'[i].op = "turn" => TurnOK(Work'[i].does)
                                /\ Work'[i].op \in {"store_vid", "store_members"} => i = 1
    BY <1>1, <1>4, <1>6, <1>8, <2>1 DEF TypeInv
  <2>3. vid' \in [Nums -> Nat] /\ lost' \in Nat
    BY <1>1, <1>3, <1>7 DEF TypeInv
  <2> QED
    BY <1>1, <1>6, <1>7, <2>2, <2>3 DEF TypeInv, ScanType
<1>10. DefaultInv'
  <2>1. vid' = [vid EXCEPT ![x.num] = x.vid] => DefaultInv'
    <3>1. 0 \in Nums /\ x.num \in Nums /\ (x.num = 0 <=> x.vid = 1) /\ vid \in [Nums -> Nat]
      BY <1>1, <1>3, Constants DEF TypeInv
    <3> QED
      BY <1>1, <3>1 DEF DefaultInv
  <2> QED
    BY <1>1, <1>7, <2>1 DEF DefaultInv
<1> SUFFICES ASSUME Safe' PROVE TableInv'
  BY <1>9, <1>10 DEF Inv
<1>11. Safe /\ TableInv /\ vid' = [vid EXCEPT ![x.num] = x.vid]
  BY <1>1, <1>7 DEF Safe, TypeInv
<1>12. /\ vid'[x.num] = x.vid /\ \A n \in Nums : n # x.num => vid'[n] = vid[n]
       /\ Storing("store_vid", x.num)' /\ \A op, n : Storing(op, n)' => op = "store_vid" /\ n = x.num
       /\ \A n : ~Storing("store_vid", n) /\ ~Storing("store_members", n)
  BY <1>1, <1>2, <1>3, <1>4, <1>6, <1>11 DEF Storing, TypeInv, x
<1>13. CopyInv' /\ ScanInv'
  <2>1. \A n \in Nums : vlanVid'[n] = vid'[n] \/ (n = 0 /\ vlanVid'[n] = 0) \/ Storing("store_vid", n)'
    BY <1>7, <1>11, <1>12 DEF TableInv, CopyInv
  <2>2. \A n \in Nums : vlanPort'[n] = member'[n] \/ (n = 0 /\ vlanPort'[n] = {}) \/ Storing("store_members", n)'
    BY <1>7, <1>11, <1>12 DEF TableInv, CopyInv
  <2>3. /\ \A i \in DOMAIN Work' : Work'[i].op = "store_vid" => vid'[Work'[i].num] = Work'[i].vid
        /\ \A i \in DOMAIN Work' : Work'[i].op = "store_members" => member'[Work'[i].num] = Work'[i].ports
    BY <1>1, <1>4, <1>6, <1>8, <1>12 DEF TypeInv
  <2>4. ScanInv'
    <3>1. scan.n \in Nums
      BY <1>1 DEF TypeInv, ScanType
    <3> QED
      BY <1>7, <1>11, <1>12, <3>1 DEF TableInv, ScanInv
  <2> QED
    BY <2>1, <2>2, <2>3, <2>4 DEF CopyInv
<1>14. x.num \in Nums /\ vid[0] = 1 /\ 0 \in Nums /\ 2 # 1 /\ x.op = "vid" /\ Work[1] = x
  BY <1>1, <1>2, <1>3, Constants DEF DefaultInv, x
\* An entry that is given back is empty or is emptied next.
<1>15. x.vid = 0 => member[x.num] = {} \/ (2 \in DOMAIN Work /\ Work[2] = Members(x.num, {}))
  <2>1. x.vid = 0 => member[x.num] = {} \/ TakesBoth(Work, 1)
    BY <1>2, <1>11, <1>14 DEF TableInv, GivesBack
  <2>2. 1 - 1 \notin DOMAIN Work /\ 1 + 1 = 2
    BY <1>2
  <2> QED
    BY <1>14, <2>1, <2>2 DEF TakesBoth
<1>16. GivesBack'
  <2> SUFFICES ASSUME NEW i \in DOMAIN Work', Work'[i].op = "vid", Work'[i].vid = 0
               PROVE  member'[Work'[i].num] = {} \/ TakesBoth(Work', i)
    BY DEF GivesBack
  <2>1. i # 1 /\ i \in DOMAIN Work /\ Work'[i] = Work[i]
    BY <1>4, <1>6, <1>8
  <2>2. member[Work[i].num] = {} \/ TakesBoth(Work, i)
    BY <1>11, <2>1 DEF TableInv, GivesBack
  <2>3. i \in Nat /\ i + 1 # 1
    BY <1>2, <2>1
  <2>4. TakesBoth(Work, i) => TakesBoth(Work', i)
    BY <1>2, <1>6, <1>14, <2>1, <2>3 DEF TakesBoth, OfMembers
  <2> QED
    BY <1>7, <2>1, <2>2, <2>4
<1>17. ASSUME SetUp PROVE SetUp' /\ Keeps'
  <2>1. x.num # 0 => member[0] = Ports
    BY <1>14, <1>17 DEF SetUp, AllInDefault, Members
  <2>2. x.num = 0 => vid' = vid
    BY <1>1, <1>3, <1>11, <1>14 DEF TypeInv
  <2>3. AllInDefault'
    BY <1>4, <1>6, <1>7, <1>8, <1>14, <1>17, <2>1 DEF SetUp, AllInDefault, OfVID, Members
  <2>4. GivesBoth(Work')
    <3> SUFFICES ASSUME NEW i \in DOMAIN Work', Work'[i].op = "members", Work'[i].num # 0, Work'[i].ports # {}
                 PROVE  /\ i + 1 \in DOMAIN Work' /\ Work'[i + 1].op = "vid" /\ Work'[i + 1].num = Work'[i].num
                        /\ \A j \in DOMAIN Work' : Work'[j].op = "vid" => Work'[j].vid # 0
      BY DEF GivesBoth
    <3>1. i # 1 /\ i \in DOMAIN Work /\ Work'[i] = Work[i]
      BY <1>4, <1>6, <1>8
    <3>2. /\ i + 1 \in DOMAIN Work /\ Work[i + 1].op = "vid" /\ Work[i + 1].num = Work[i].num
          /\ \A j \in DOMAIN Work : Work[j].op = "vid" => Work[j].vid # 0
      BY <1>17, <3>1 DEF SetUp, GivesBoth
    <3>3. i + 1 # 1
      BY <1>2, <3>1
    <3> QED
      BY <1>4, <1>6, <1>8, <3>1, <3>2, <3>3
  <2>5. ASSUME errors' = 0, NEW n \in Nums, vid'[n] = 0
        PROVE  member'[n] = {} \/ Tidies(1, n)' \/ Tidies(2, n)'
    <3>1. CASE n = x.num
      BY <1>6, <1>7, <1>8, <1>12, <1>15, <2>5, <3>1 DEF Tidies
    <3>2. CASE n # x.num
      <4>1. member[n] = {} \/ Tidies(1, n) \/ Tidies(2, n)
        BY <1>7, <1>12, <1>17, <2>5, <3>2 DEF SetUp
      <4>2. ~Tidies(1, n)
        BY <1>14, <3>2 DEF Tidies, Members
      <4>3. Tidies(2, n) => Tidies(2, n)'
        BY <1>6, <1>8 DEF Tidies
      <4> QED
        BY <1>7, <4>1, <4>2, <4>3
    <3> QED
      BY <3>1, <3>2
  <2>6. Leftovers'
    BY <1>1, <1>7, <1>17, <2>1, <2>2 DEF SetUp, Leftovers, TypeInv
  <2>7. \A i, j \in DOMAIN Work' : i < j /\ Work'[i].op = "turn" => Work'[j].op \in SettingOps \union {"turn"}
    <3> TAKE i \in DOMAIN Work', j \in DOMAIN Work'
    <3>1. i < j => j # 1
      BY <1>2, <1>6
    <3> QED
      BY <1>4, <1>6, <1>8, <1>17, <3>1 DEF SetUp
  <2>8. /\ \A i \in DOMAIN Work' :
             Work'[i].op \in SettingOps \union {"vid", "store_vid", "members", "store_members", "turn"}
        /\ \A i \in DOMAIN Work' : Work'[i].op = "members" /\ Work'[i].num = 0 => Work'[i].ports = Ports
    BY <1>4, <1>6, <1>8, <1>17 DEF SetUp
  <2>9. Keeps'
    <3>1. CASE x.num = 0
      BY <1>7, <1>11, <2>2, <3>1 DEF TableInv, Keeps
    <3>2. CASE x.num # 0
      <4>1. vid'[0] = 1 /\ member'[0] = Ports
        BY <1>7, <1>12, <1>14, <2>1, <3>2
      <4> QED
        BY <1>14, <4>1 DEF Keeps
    <3> QED
      BY <3>1, <3>2
  <2> QED
    BY <2>3, <2>4, <2>5, <2>6, <2>7, <2>8, <2>9 DEF SetUp
<1>18. ~Joins
  BY <1>2, <1>14 DEF Joins, SettingOps
<1>19. ASSUME NEW n \in Nums \ {0}, PartsFrom(n) PROVE PartsFrom(n)' /\ Keeps'
  <2>1. x.num = n /\ 2 \notin DOMAIN Work
    BY <1>2, <1>14, <1>19 DEF PartsFrom
  <2>2. x.vid = 0 => member[n] = {}
    BY <1>15, <2>1
  <2>3. DOMAIN Work' = {1}
    BY <1>2, <1>6, <2>1
  <2>4. (errors' = 0 => Tidy') /\ Leftovers'
    <3>1. \A m \in Nums : vid'[m] = 0 => member[m] = {} \/ vid[m] = 0
      BY <1>12, <2>1, <2>2
    <3> QED
      BY <1>7, <1>19, <3>1 DEF PartsFrom, Tidy, Leftovers
  <2>5. Keeps'
    <3>1. \A p \in Ports : \E m \in Nums : vid[m] # 0 /\ p \in member[m]
      BY <1>11 DEF TableInv, Keeps
    <3>2. \A m \in Nums : vid[m] # 0 /\ member[m] # {} => vid'[m] # 0
      BY <1>12, <2>1, <2>2
    <3> QED
      BY <1>7, <3>1, <3>2 DEF Keeps
  <2> QED
    BY <1>4, <1>6, <2>3, <2>4, <2>5 DEF PartsFrom, Takes
<1> QED
  BY <1>11, <1>13, <1>16, <1>17, <1>18, <1>19 DEF TableInv, Parting
-----------------------------------------------------------------------------
\* The copy is stored.
LEMMA CopyStored ==
  ASSUME OneSession, Inv, NEW op \in {"store_vid", "store_members"}, Doing(Cli, op), Goon(Cli, <<>>),
         UNCHANGED <<vid, member, scan, errors, lost>>, overtaken => overtaken',
         vlanVid' \in [Nums -> Nat], vlanPort' \in [Nums -> SUBSET Ports]
  PROVE  /\ TypeInv' /\ DefaultInv' /\ (Safe' => CopyInv /\ ScanInv /\ (CopyInv' /\ ScanInv' => TableInv'))
         /\ \A i \in DOMAIN Work' : Work'[i].op \notin {"store_vid", "store_members"}
         /\ \A o, n : Storing(o, n) => o = op /\ n = Work[1].num
<1>1. TypeInv
  BY DEF Inv
<1>2. Work # <<>> /\ Work[1].op = op
  BY <1>1, HeadIsFirst
<1>3. /\ DOMAIN todo' = Sessions /\ IsSeq(Work') /\ Len(Work) \in Nat \ {0}
      /\ DOMAIN Work' = 1 .. Len(Work) - 1 /\ DOMAIN Work = 1 .. Len(Work)
      /\ \A i \in 1 .. Len(Work) - 1 : Work'[i] = Work[i + 1]
  BY <1>1, <1>2, Pops
<1> DEFINE k == 1
<1>4. k \in {0, 1}
  OBVIOUS
<1>5. \A i \in DOMAIN Work' : IF i + k > 1 THEN i + k \in DOMAIN Work /\ Work'[i] = Work[i + k]
                              ELSE Work'[i].op \in SettingOps
  BY <1>3
<1>6. ASSUME NEW i \in DOMAIN Work, i > 1 PROVE i - k \in DOMAIN Work' /\ Work'[i - k] = Work[i]
  <2>1. i - k \in 1 .. Len(Work) - 1 /\ (i - k) + 1 = i
    BY <1>3, <1>6
  <2> QED
    BY <1>3, <2>1
<1>7. ASSUME NEW i \in DOMAIN Work' PROVE Work'[i].op \notin {"store_vid", "store_members"}
  <2>1. i + 1 \in DOMAIN Work /\ i + 1 # 1 /\ Work'[i] = Work[i + 1]
    BY <1>3
  <2> QED
    BY <1>1, <2>1 DEF TypeInv
<1>8. k = 1
  OBVIOUS
<1> HIDE DEF k
<1>9. Work[1].op \in QuietOps
  BY <1>2 DEF QuietOps
<1>10. lost' \in {lost, lost + 1}
  OBVIOUS
<1>11. TypeInv' /\ DefaultInv' /\ (Safe' => CopyInv /\ ScanInv /\ (CopyInv' /\ ScanInv' => TableInv'))
  BY <1>2, <1>3, <1>4, <1>5, <1>6, <1>8, <1>9, <1>10, QuietStep
<1> QED
  BY <1>2, <1>7, <1>11 DEF Storing

LEMMA VIDStored ==
  ASSUME OneSession, Inv, StoreVlanVID(Cli)
  PROVE  Inv'
<1> DEFINE x == Work[1]
<1>1. TypeInv
  BY DEF Inv
<1>2. Doing(Cli, "store_vid") /\ Goon(Cli, <<>>)
  BY DEF StoreVlanVID
<1>3. x.op = "store_vid" /\ Head(todo[Cli]) = x /\ Typed(x) /\ 1 \in DOMAIN Work
  BY <1>1, <1>2, HeadIsFirst
<1>4. x.num \in Nums /\ x.vid \in Nat
  BY <1>3 DEF Typed, OfVID
<1>5. /\ vlanVid' = [vlanVid EXCEPT ![x.num] = x.vid] /\ vlanPort' = vlanPort
      /\ overtaken' = (overtaken \/ (scan.read # None /\ scan.n = x.num /\ scan.of = "vid"))
      /\ UNCHANGED <<vid, member, scan, errors, lost>>
  BY <1>3 DEF StoreVlanVID, Overtake, regVars, countVars
<1>6. vlanVid' \in [Nums -> Nat] /\ vlanPort' \in [Nums -> SUBSET Ports]
  BY <1>1, <1>4, <1>5 DEF TypeInv
<1>7. /\ TypeInv' /\ DefaultInv' /\ (Safe' => CopyInv /\ ScanInv /\ (CopyInv' /\ ScanInv' => TableInv'))
      /\ \A i \in DOMAIN Work' : Work'[i].op \notin {"store_vid", "store_members"}
      /\ \A o, n : Storing(o, n) => o = "store_vid" /\ n = x.num
  BY <1>2, <1>5, <1>6, CopyStored
<1> HIDE DEF x
<1> SUFFICES ASSUME Safe' PROVE CopyInv' /\ ScanInv'
  BY <1>7 DEF Inv
<1>8. CopyInv /\ ScanInv /\ ~ (scan.read # None /\ scan.n = x.num /\ scan.of = "vid")
  BY <1>5, <1>7 DEF Safe
<1>9. vid[x.num] = x.vid
  BY <1>3, <1>8 DEF CopyInv, x
<1>10. /\ \A n \in Nums : vlanVid'[n] = vid'[n] \/ (n = 0 /\ vlanVid'[n] = 0)
       /\ \A n \in Nums : vlanPort'[n] = member'[n] \/ (n = 0 /\ vlanPort'[n] = {})
  BY <1>1, <1>4, <1>5, <1>7, <1>8, <1>9 DEF CopyInv, TypeInv
<1>11. scan'.read # None => IF scan'.of = "vid" THEN scan'.read.value = vid'[scan'.n]
                            ELSE scan'.read.value = member'[scan'.n]
  BY <1>5, <1>7, <1>8 DEF ScanInv
<1> QED
  BY <1>7, <1>10, <1>11 DEF CopyInv, ScanInv

LEMMA MembersStored ==
  ASSUME OneSession, Inv, StoreVlanPort(Cli)
  PROVE  Inv'
<1> DEFINE x == Work[1]
<1>1. TypeInv
  BY DEF Inv
<1>2. Doing(Cli, "store_members") /\ Goon(Cli, <<>>)
  BY DEF StoreVlanPort
<1>3. x.op = "store_members" /\ Head(todo[Cli]) = x /\ Typed(x) /\ 1 \in DOMAIN Work
  BY <1>1, <1>2, HeadIsFirst
<1>4. x.num \in Nums /\ x.ports \subseteq Ports
  BY <1>3 DEF Typed, OfMembers
<1>5. /\ vlanPort' = [vlanPort EXCEPT ![x.num] = x.ports] /\ vlanVid' = vlanVid
      /\ overtaken' = (overtaken \/ (scan.read # None /\ scan.n = x.num /\ scan.of = "members"))
      /\ UNCHANGED <<vid, member, scan, errors, lost>>
  BY <1>3 DEF StoreVlanPort, Overtake, regVars, countVars
<1>6. vlanVid' \in [Nums -> Nat] /\ vlanPort' \in [Nums -> SUBSET Ports]
  BY <1>1, <1>4, <1>5 DEF TypeInv
<1>7. /\ TypeInv' /\ DefaultInv' /\ (Safe' => CopyInv /\ ScanInv /\ (CopyInv' /\ ScanInv' => TableInv'))
      /\ \A i \in DOMAIN Work' : Work'[i].op \notin {"store_vid", "store_members"}
      /\ \A o, n : Storing(o, n) => o = "store_members" /\ n = x.num
  BY <1>2, <1>5, <1>6, CopyStored
<1>0. scan.of \in {"vid", "members"}
  BY <1>1 DEF TypeInv, ScanType
<1> HIDE DEF x
<1> SUFFICES ASSUME Safe' PROVE CopyInv' /\ ScanInv'
  BY <1>7 DEF Inv
<1>8. CopyInv /\ ScanInv /\ ~ (scan.read # None /\ scan.n = x.num /\ scan.of = "members")
  BY <1>5, <1>7 DEF Safe
<1>9. member[x.num] = x.ports
  BY <1>3, <1>8 DEF CopyInv, x
<1>10. /\ \A n \in Nums : vlanVid'[n] = vid'[n] \/ (n = 0 /\ vlanVid'[n] = 0)
       /\ \A n \in Nums : vlanPort'[n] = member'[n] \/ (n = 0 /\ vlanPort'[n] = {})
  BY <1>1, <1>4, <1>5, <1>7, <1>8, <1>9 DEF CopyInv, TypeInv
<1>11. scan'.read # None => IF scan'.of = "vid" THEN scan'.read.value = vid'[scan'.n]
                            ELSE scan'.read.value = member'[scan'.n]
  BY <1>0, <1>5, <1>7, <1>8 DEF ScanInv
<1> QED
  BY <1>7, <1>10, <1>11 DEF CopyInv, ScanInv
-----------------------------------------------------------------------------
\* The members of an entry are written.
LEMMA MembersWritten ==
  ASSUME OneSession, Inv, SetVlanPort(Cli)
  PROVE  Inv'
<1> DEFINE x == Work[1]
           y == [x EXCEPT !.op = "store_members"]
<1>1. TypeInv /\ DefaultInv /\ (Safe => TableInv)
  BY DEF Inv
<1>2. /\ Work # <<>> /\ x.op = "members" /\ Head(todo[Cli]) = x /\ todo[Cli] = Work
      /\ Typed(x) /\ 1 \in DOMAIN Work /\ DOMAIN Work = 1 .. Len(Work) /\ Len(Work) \in Nat \ {0}
  BY <1>1, HeadIsFirst DEF SetVlanPort
<1>3. x \in [op : {"members", "store_members"}, num : Nums, ports : SUBSET Ports]
  BY <1>2 DEF Typed, OfMembers
<1>4. y.op = "store_members" /\ y.num = x.num /\ y.ports = x.ports
      /\ y \in [op : {"members", "store_members"}, num : Nums, ports : SUBSET Ports]
  BY <1>3
<1>5. Goon(Cli, <<y>>)
  BY <1>2 DEF SetVlanPort
<1>6. /\ DOMAIN todo' = Sessions /\ IsSeq(Work')
      /\ DOMAIN Work' = DOMAIN Work
      /\ Work'[1] = y /\ \A i \in 2 .. Len(Work) : Work'[i] = Work[i]
  BY <1>1, <1>2, <1>5, Replaces
<1>7. /\ UNCHANGED <<vid, vlanVid, vlanPort, scan, overtaken, errors>>
      /\ \/ member' = [member EXCEPT ![x.num] = x.ports] /\ lost' = lost
         \/ member' = member /\ lost' = lost + 1
  BY <1>2 DEF SetVlanPort, Written, devVars
<1> HIDE DEF x, y
<1>8. \A i \in DOMAIN Work' : i # 1 => i \in DOMAIN Work /\ Work'[i] = Work[i]
  BY <1>2, <1>6
<1>9. TypeInv'
  <2>1. Typed(y)
    BY <1>3, <1>4 DEF Typed, OfVID, OfMembers
  <2>2. \A i \in DOMAIN Work' : /\ Typed(Work'[i])
                                /\ Work'[i].op = "turn" => TurnOK(Work'[i].does)
                                /\ Work'[i].op \in {"store_vid", "store_members"} => i = 1
    BY <1>1, <1>4, <1>6, <1>8, <2>1 DEF TypeInv
  <2>3. member' \in [Nums -> SUBSET Ports] /\ lost' \in Nat
    BY <1>1, <1>3, <1>7 DEF TypeInv
  <2> QED
    BY <1>1, <1>6, <1>7, <2>2, <2>3 DEF TypeInv, ScanType
<1>10. DefaultInv'
  BY <1>1, <1>7 DEF DefaultInv
<1> SUFFICES ASSUME Safe' PROVE TableInv'
  BY <1>9, <1>10 DEF Inv
<1>11. Safe /\ TableInv /\ member' = [member EXCEPT ![x.num] = x.ports]
  BY <1>1, <1>7 DEF Safe, TypeInv
<1>12. /\ member'[x.num] = x.ports /\ \A n \in Nums : n # x.num => member'[n] = member[n]
       /\ Storing("store_members", x.num)' /\ \A op, n : Storing(op, n)' => op = "store_members" /\ n = x.num
       /\ \A n : ~Storing("store_vid", n) /\ ~Storing("store_members", n)
  BY <1>1, <1>2, <1>3, <1>4, <1>6, <1>11 DEF Storing, TypeInv, x
<1>13. CopyInv' /\ ScanInv'
  <2>1. \A n \in Nums : vlanVid'[n] = vid'[n] \/ (n = 0 /\ vlanVid'[n] = 0) \/ Storing("store_vid", n)'
    BY <1>7, <1>11, <1>12 DEF TableInv, CopyInv
  <2>2. \A n \in Nums : vlanPort'[n] = member'[n] \/ (n = 0 /\ vlanPort'[n] = {}) \/ Storing("store_members", n)'
    BY <1>7, <1>11, <1>12 DEF TableInv, CopyInv
  <2>3. /\ \A i \in DOMAIN Work' : Work'[i].op = "store_vid" => vid'[Work'[i].num] = Work'[i].vid
        /\ \A i \in DOMAIN Work' : Work'[i].op = "store_members" => member'[Work'[i].num] = Work'[i].ports
    BY <1>1, <1>4, <1>6, <1>8, <1>12 DEF TypeInv
  <2>4. ScanInv'
    <3>1. scan.n \in Nums
      BY <1>1 DEF TypeInv, ScanType
    <3> QED
      BY <1>7, <1>11, <1>12, <3>1 DEF TableInv, ScanInv
  <2> QED
    BY <2>1, <2>2, <2>3, <2>4 DEF CopyInv
<1>14. x.num \in Nums /\ vid[0] = 1 /\ 0 \in Nums /\ 2 # 1 /\ x.op = "members" /\ Work[1] = x /\ x.ports \subseteq Ports
  BY <1>1, <1>2, <1>3, Constants DEF DefaultInv, x
<1>15. \A i \in DOMAIN Work : i # 1 => i \in DOMAIN Work' /\ Work'[i] = Work[i]
  BY <1>6, <1>8
<1>16. ASSUME \A i \in DOMAIN Work : Work[i].op = "vid" /\ Work[i].vid = 0 /\ Work[i].num = x.num
                 /\ member[x.num] = {} => x.ports = {}
       PROVE  GivesBack'
  <2> SUFFICES ASSUME NEW i \in DOMAIN Work', Work'[i].op = "vid", Work'[i].vid = 0
               PROVE  member'[Work'[i].num] = {} \/ TakesBoth(Work', i)
    BY DEF GivesBack
  <2>1. i # 1 /\ i \in DOMAIN Work /\ Work'[i] = Work[i]
    BY <1>4, <1>6, <1>8
  <2>2. Work[i].num \in Nums
    BY <1>1, <2>1 DEF TypeInv, Typed, OfVID
  <2>3. member[Work[i].num] = {} \/ TakesBoth(Work, i)
    BY <1>11, <2>1 DEF TableInv, GivesBack
  <2>4. TakesBoth(Work, i) => TakesBoth(Work', i)
    <3>1. i + 1 # 1
      BY <1>2, <2>1
    <3>2. CASE i - 1 \in DOMAIN Work /\ OfMembers(Work[i - 1]) /\ Work[i - 1].num = Work[i].num /\ Work[i - 1].ports = {}
      <4>1. i - 1 \in DOMAIN Work'
        BY <1>6, <3>2
      <4>2. OfMembers(Work'[i - 1]) /\ Work'[i - 1].num = Work[i].num /\ Work'[i - 1].ports = {}
        <5>1. CASE i - 1 = 1
          BY <1>4, <1>6, <1>14, <3>2, <5>1 DEF OfMembers
        <5>2. CASE i - 1 # 1
          BY <1>15, <3>2, <5>2
        <5> QED
          BY <5>1, <5>2
      <4> QED
        BY <2>1, <4>1, <4>2 DEF TakesBoth
    <3>3. CASE i + 1 \in DOMAIN Work /\ Work[i + 1] = Members(Work[i].num, {})
      BY <1>15, <2>1, <3>1, <3>3 DEF TakesBoth
    <3> QED
      BY <3>2, <3>3 DEF TakesBoth
  <2>5. CASE member[Work[i].num] = {}
    <3>1. Work[i].num = x.num => x.ports = {}
      BY <1>16, <2>1, <2>5
    <3> QED
      BY <1>12, <2>1, <2>2, <2>5, <3>1
  <2> QED
    BY <2>3, <2>4, <2>5
<1>17. ASSUME SetUp PROVE SetUp' /\ Keeps' /\ GivesBack'
  <2>1. x.num = 0 => x.ports = Ports
    BY <1>2, <1>14, <1>17 DEF SetUp
  <2>2. x.num # 0 => member[0] = Ports
    BY <1>14, <1>17 DEF SetUp, AllInDefault, Members, OfVID
  <2>3. member'[0] = Ports
    BY <1>12, <1>14, <2>1, <2>2
  <2>4. x.num # 0 /\ x.ports # {} =>
          /\ 2 \in DOMAIN Work /\ Work[2].op = "vid" /\ Work[2].num = x.num
          /\ \A j \in DOMAIN Work : Work[j].op = "vid" => Work[j].vid # 0
    <3>1. 1 + 1 = 2
      OBVIOUS
    <3> QED
      BY <1>2, <1>14, <1>17, <3>1 DEF SetUp, GivesBoth
  <2>5. GivesBack'
    <3>1. ASSUME NEW i \in DOMAIN Work, Work[i].op = "vid", Work[i].vid = 0, Work[i].num = x.num PROVE x.ports = {}
      <4>1. x.num # 0
        BY <1>1, <3>1 DEF TypeInv, Typed, OfVID
      <4> QED
        BY <2>4, <3>1, <4>1
    <3> QED
      BY <1>16, <3>1
  <2>6. GivesBoth(Work')
    <3> SUFFICES ASSUME NEW i \in DOMAIN Work', Work'[i].op = "members", Work'[i].num # 0, Work'[i].ports # {}
                 PROVE  /\ i + 1 \in DOMAIN Work' /\ Work'[i + 1].op = "vid" /\ Work'[i + 1].num = Work'[i].num
                        /\ \A j \in DOMAIN Work' : Work'[j].op = "vid" => Work'[j].vid # 0
      BY DEF GivesBoth
    <3>1. i # 1 /\ i \in DOMAIN Work /\ Work'[i] = Work[i]
      BY <1>4, <1>6, <1>8
    <3>2. /\ i + 1 \in DOMAIN Work /\ Work[i + 1].op = "vid" /\ Work[i + 1].num = Work[i].num
          /\ \A j \in DOMAIN Work : Work[j].op = "vid" => Work[j].vid # 0
      BY <1>17, <3>1 DEF SetUp, GivesBoth
    <3>3. i + 1 # 1
      BY <1>2, <3>1
    <3> QED
      BY <1>4, <1>6, <1>8, <3>1, <3>2, <3>3
  <2>7. ASSUME errors' = 0, NEW n \in Nums, vid'[n] = 0
        PROVE  member'[n] = {} \/ Tidies(1, n)' \/ Tidies(2, n)'
    <3>1. CASE n = x.num
      <4>1. x.num # 0
        BY <1>7, <1>14, <2>7, <3>1
      <4>2. CASE x.ports = {}
        BY <1>12, <3>1, <4>2
      <4>3. CASE x.ports # {}
        <5>1. 2 \in DOMAIN Work /\ Work[2].op = "vid" /\ Work[2].num = x.num /\ Work[2].vid # 0
          BY <2>4, <4>1, <4>3
        <5> QED
          BY <1>14, <1>15, <3>1, <5>1 DEF Tidies
      <4> QED
        BY <4>2, <4>3
    <3>2. CASE n # x.num
      <4>1. member[n] = {} \/ Tidies(1, n) \/ Tidies(2, n)
        BY <1>7, <1>17, <2>7 DEF SetUp
      <4>2. ~Tidies(1, n)
        BY <1>14, <3>2 DEF Tidies, Members
      <4>3. Tidies(2, n) => Tidies(2, n)'
        BY <1>14, <1>15 DEF Tidies
      <4> QED
        BY <1>12, <3>2, <4>1, <4>2, <4>3
    <3> QED
      BY <3>1, <3>2
  <2>8. \A i, j \in DOMAIN Work' : i < j /\ Work'[i].op = "turn" => Work'[j].op \in SettingOps \union {"turn"}
    <3> TAKE i \in DOMAIN Work', j \in DOMAIN Work'
    <3>1. i < j => j # 1
      BY <1>2, <1>6
    <3> QED
      BY <1>4, <1>6, <1>8, <1>17, <3>1 DEF SetUp
  <2>9. /\ \A i \in DOMAIN Work' :
             Work'[i].op \in SettingOps \union {"vid", "store_vid", "members", "store_members", "turn"}
        /\ \A i \in DOMAIN Work' : Work'[i].op = "members" /\ Work'[i].num = 0 => Work'[i].ports = Ports
    BY <1>4, <1>6, <1>8, <1>17 DEF SetUp
  <2>10. AllInDefault' /\ Leftovers' /\ Keeps'
    <3>1. member' \in [Nums -> SUBSET Ports]
      BY <1>9 DEF TypeInv
    <3> QED
      BY <1>7, <1>14, <2>3, <3>1 DEF AllInDefault, Leftovers, Keeps
  <2> QED
    BY <2>5, <2>6, <2>7, <2>8, <2>9, <2>10 DEF SetUp
<1>18. ASSUME Joins PROVE Joins' /\ Keeps' /\ GivesBack'
  <2>1. GivesBack'
    BY <1>16, <1>18 DEF Joins, SettingOps
  <2>2. \/ vid[x.num] # 0 /\ member[x.num] \subseteq x.ports
        \/ QuitsNext(x.num) /\ x.ports = member[x.num] \ {Work[2].port}
    BY <1>2, <1>14, <1>18 DEF Joins
  \* The port that quits an entry is in the one it joined.
  <2>3. ASSUME QuitsNext(x.num)
        PROVE  /\ 2 \in DOMAIN Work /\ Work[2].op = "quit" /\ Work[2].num # x.num /\ Work[2].from = x.num + 1
               /\ Work[2].num \in Nums /\ vid[Work[2].num] # 0 /\ Work[2].port \in member[Work[2].num]
               /\ \A i \in DOMAIN Work : Work[i].op = "quit" => i = 2
    <3>1. 2 \in DOMAIN Work /\ Work[2].op = "quit" /\ Work[2].num # x.num /\ Work[2].from = x.num + 1
      BY <2>3 DEF QuitsNext
    <3>2. Work[2].num \in Nums
      BY <1>1, <3>1 DEF TypeInv, Typed
    <3>3. /\ vid[Work[2].num] # 0
          /\ \/ Work[2].port \in member[Work[2].num]
             \/ \E j \in DOMAIN Work : j < 2 /\ Adds(Work[j], Work[2].port, Work[2].num)
          /\ \A j \in DOMAIN Work : j > 2 => Work[j].op \in {"tag", "join"}
      BY <1>18, <3>1 DEF Joins
    <3>4. \A j \in DOMAIN Work : j < 2 => j = 1
      BY <1>2
    <3>5. ~Adds(x, Work[2].port, Work[2].num)
      BY <1>14, <3>1 DEF Adds
    <3>6. \A i \in DOMAIN Work : i = 1 \/ i = 2 \/ i > 2
      BY <1>2
    <3> QED
      BY <1>14, <3>1, <3>2, <3>3, <3>4, <3>5, <3>6
  <2>4. ASSUME NEW m \in Nums, NEW p \in member[m]
        PROVE  p \in member'[m] \/ (QuitsNext(x.num) /\ m = x.num /\ p = Work[2].port)
    BY <1>12, <2>2
  <2>5. \A m \in Nums : member'[m] \subseteq member[m] \/ (m = x.num /\ vid[m] # 0)
    BY <1>12, <2>2
  <2>6. Keeps'
    <3> SUFFICES ASSUME NEW p \in Ports PROVE \E m \in Nums : vid'[m] # 0 /\ p \in member'[m]
      BY DEF Keeps
    <3>1. PICK m \in Nums : vid[m] # 0 /\ p \in member[m]
      BY <1>11 DEF TableInv, Keeps
    <3>2. CASE p \in member'[m]
      BY <1>7, <3>1, <3>2
    <3>3. CASE p \notin member'[m]
      <4>1. QuitsNext(x.num) /\ p = Work[2].port
        BY <2>4, <3>1, <3>3
      <4>2. Work[2].num \in Nums /\ Work[2].num # x.num /\ vid[Work[2].num] # 0 /\ p \in member[Work[2].num]
        BY <2>3, <4>1
      <4> QED
        BY <1>7, <1>12, <4>2
    <3> QED
      BY <3>2, <3>3
  <2>7. ASSUME NEW i \in DOMAIN Work', Work'[i].op = "quit"
        PROVE  /\ vid'[Work'[i].num] # 0
               /\ \/ Work'[i].port \in member'[Work'[i].num]
                  \/ \E j \in DOMAIN Work' : j < i /\ Adds(Work'[j], Work'[i].port, Work'[i].num)
               /\ \A j \in DOMAIN Work' : j > i => Work'[j].op \in {"tag", "join"}
    <3>1. i # 1 /\ i \in DOMAIN Work /\ Work'[i] = Work[i]
      BY <1>4, <1>6, <1>8, <2>7
    <3>2. Work[i].num \in Nums
      BY <1>1, <2>7, <3>1 DEF TypeInv, Typed
    <3>3. /\ vid[Work[i].num] # 0
          /\ \/ Work[i].port \in member[Work[i].num]
             \/ \E j \in DOMAIN Work : j < i /\ Adds(Work[j], Work[i].port, Work[i].num)
          /\ \A j \in DOMAIN Work : j > i => Work[j].op \in {"tag", "join"}
      BY <1>18, <2>7, <3>1 DEF Joins
    <3>4. ASSUME Work[i].port \in member[Work[i].num] PROVE Work'[i].port \in member'[Work'[i].num]
      <4>1. Work[i].port \in member'[Work[i].num] \/ (QuitsNext(x.num) /\ Work[i].num = x.num)
        BY <2>4, <3>2, <3>4
      <4>2. QuitsNext(x.num) => i = 2 /\ Work[2].num # x.num
        BY <2>3, <2>7, <3>1
      <4> QED
        BY <3>1, <4>1, <4>2
    <3>5. ASSUME NEW j \in DOMAIN Work, j < i, Adds(Work[j], Work[i].port, Work[i].num)
          PROVE  \/ Work'[i].port \in member'[Work'[i].num]
                 \/ \E k \in DOMAIN Work' : k < i /\ Adds(Work'[k], Work'[i].port, Work'[i].num)
      <4>1. CASE j = 1
        BY <1>12, <1>14, <3>1, <3>5, <4>1 DEF Adds
      <4>2. CASE j # 1
        BY <1>15, <3>1, <3>5, <4>2
      <4> QED
        BY <4>1, <4>2
    <3>6. ASSUME NEW j \in DOMAIN Work', j > i PROVE Work'[j].op \in {"tag", "join"}
      <4>1. j # 1
        BY <1>2, <1>6, <3>6
      <4> QED
        BY <1>8, <3>3, <3>6, <4>1
    <3> QED
      BY <1>7, <3>1, <3>3, <3>4, <3>5, <3>6
  <2>8. \A i \in DOMAIN Work' :
          /\ Work'[i].op \in SettingOps \union {"join", "add", "quit", "members", "store_members", "delete"}
          /\ Work'[i].op = "join" => \E n \in Nums : vid'[n] = Work'[i].vid
          /\ Work'[i].op = "add" => vid'[Work'[i].num] # 0
          /\ Work'[i].op \notin {"members", "delete"}
    <3> TAKE i \in DOMAIN Work'
    <3>1. CASE i = 1
      BY <1>4, <1>6, <3>1
    <3>2. CASE i # 1
      <4>1. i \in DOMAIN Work /\ Work'[i] = Work[i]
        BY <1>8, <3>2
      <4> QED
        BY <1>7, <1>18, <3>2, <4>1 DEF Joins
    <3> QED
      BY <3>1, <3>2
  <2>9. \A i, j \in DOMAIN Work' : i < j /\ Work'[i].op = "join" => Work'[j].op = "join"
    <3> TAKE i \in DOMAIN Work', j \in DOMAIN Work'
    <3>1. i < j => j # 1
      BY <1>2, <1>6
    <3> QED
      BY <1>4, <1>6, <1>8, <1>18, <3>1 DEF Joins
  <2>10. errors' = 0 => Tidy'
    <3> SUFFICES ASSUME errors' = 0, NEW m \in Nums, vid'[m] = 0 PROVE member'[m] = {}
      BY DEF Tidy
    <3>1. member[m] = {}
      BY <1>7, <1>18 DEF Joins, Tidy
    <3> QED
      BY <1>7, <2>5, <3>1
  <2>11. ASSUME NEW n \in Nums, NEW p \in Ports, vid'[n] = 0, p \in member'[n]
         PROVE  p \in member'[0] \/ QuitsLater(p, n)'
    <3>1. vid[n] = 0 /\ n # 0 /\ p \in member[n]
      BY <1>7, <1>14, <2>5, <2>11
    <3>2. p \in member[0] \/ QuitsLater(p, n)
      BY <1>18, <3>1 DEF Joins
    <3>3. ASSUME 2 \in DOMAIN Work, Work[2].op = "quit", Work[2].port = p, Work[2].from <= n PROVE QuitsLater(p, n)'
      <4>1. 2 \in DOMAIN Work' /\ Work'[2] = Work[2]
        BY <1>14, <1>15, <3>3
      <4> QED
        BY <3>3, <4>1 DEF QuitsLater
    <3>4. CASE p \in member[0] /\ p \notin member'[0]
      <4>1. QuitsNext(x.num) /\ x.num = 0 /\ p = Work[2].port
        BY <1>14, <2>4, <3>4
      <4>2. Work[2].from = 1 /\ 1 <= n
        BY <2>3, <3>1, <4>1, Constants
      <4> QED
        BY <2>3, <3>3, <4>1, <4>2
    <3>5. CASE QuitsLater(p, n)
      <4>1. ~(Work[1].num = n /\ p \notin Work[1].ports)
        BY <1>12, <1>14, <2>11
      <4>2. 2 \in DOMAIN Work /\ Work[2].op = "quit" /\ Work[2].port = p /\ Work[2].from <= n
        BY <1>14, <3>5, <4>1 DEF QuitsLater
      <4> QED
        BY <3>3, <4>2
    <3> QED
      BY <3>2, <3>4, <3>5
  <2>12. 1 \in DOMAIN Work' => Work'[1].op \notin {"members", "delete"}
    BY <2>8
  <2> QED
    BY <2>1, <2>6, <2>7, <2>8, <2>9, <2>10, <2>11, <2>12 DEF Joins
<1>19. ASSUME NEW n \in Nums \ {0}, PartsFrom(n) PROVE PartsFrom(n)' /\ Keeps' /\ GivesBack'
  <2>1. \/ x.num = 0 /\ member[0] \subseteq x.ports
        \/ x.num = n /\ x.ports \subseteq member[n]
    BY <1>2, <1>14, <1>19 DEF PartsFrom
  <2>2. /\ \A m \in Nums : m # n => member[m] \subseteq member'[m]
        /\ \A m \in Nums : m # 0 => member'[m] \subseteq member[m]
    BY <1>12, <2>1
  <2>3. \A p \in Ports : Other(p, n) => Other(p, n)'
    BY <1>7, <2>2 DEF Other
  <2>4. ASSUME NEW p \in member[n], p \notin member'[n] PROVE Other(p, n)
    <3>1. Takes(x, p, n)
      BY <1>12, <1>14, <2>4 DEF Takes
    <3>2. Other(p, n) \/ \E j \in DOMAIN Work : j < 1 /\ Saves(Work[j], p)
      BY <1>2, <1>14, <1>19, <3>1 DEF PartsFrom
    <3>3. \A j \in DOMAIN Work : ~(j < 1)
      BY <1>2
    <3> QED
      BY <3>2, <3>3
  <2>5. Keeps'
    <3> SUFFICES ASSUME NEW p \in Ports PROVE \E m \in Nums : vid'[m] # 0 /\ p \in member'[m]
      BY DEF Keeps
    <3>1. PICK m \in Nums : vid[m] # 0 /\ p \in member[m]
      BY <1>11 DEF TableInv, Keeps
    <3>2. CASE p \in member'[m]
      BY <1>7, <3>1, <3>2
    <3>3. CASE p \notin member'[m]
      <4>1. m = n
        BY <2>2, <3>1, <3>3
      <4>2. Other(p, n)'
        BY <2>3, <2>4, <3>1, <3>3, <4>1
      <4> QED
        BY <4>2 DEF Other
    <3> QED
      BY <3>2, <3>3
  <2>6. GivesBack'
    <3>1. ASSUME NEW i \in DOMAIN Work, Work[i].op = "vid", Work[i].num = x.num, member[x.num] = {} PROVE x.ports = {}
      <4>1. x.num = n
        BY <1>19, <3>1 DEF PartsFrom
      <4> QED
        BY <2>1, <3>1, <4>1
    <3> QED
      BY <1>16, <3>1
  <2>7. ASSUME NEW i \in DOMAIN Work'
        PROVE  /\ Work'[i].op \in SettingOps \union {"part", "leave", "leave_tagged", "add", "delete",
                                                     "members", "store_members", "vid", "store_vid"}
               /\ Work'[i].op \notin {"leave", "leave_tagged"}
               /\ Work'[i].op \in {"part", "leave", "delete", "vid"} => Work'[i].num = n
               /\ Work'[i].op = "vid" => i + 1 \notin DOMAIN Work'
               /\ Work'[i].op = "add" => Work'[i].num = 0
               /\ Work'[i].op = "members" => Work'[i].num = n /\ Work'[i].ports = {}
    <3>1. CASE i = 1
      BY <1>4, <1>6, <3>1
    <3>2. CASE i # 1
      <4>1. i \in DOMAIN Work /\ Work'[i] = Work[i]
        BY <1>8, <3>2
      <4> QED
        BY <1>6, <1>19, <3>2, <4>1 DEF PartsFrom
    <3> QED
      BY <3>1, <3>2
  <2>8. ASSUME NEW i \in DOMAIN Work', NEW p \in member'[n], Takes(Work'[i], p, n)
        PROVE  Other(p, n)' \/ \E j \in DOMAIN Work' : j < i /\ Saves(Work'[j], p)
    <3>1. i # 1 /\ i \in DOMAIN Work /\ Work'[i] = Work[i]
      BY <1>4, <1>6, <1>8, <2>8 DEF Takes
    <3>2. p \in member[n] /\ p \in Ports
      BY <1>1, <2>2, <2>8 DEF TypeInv
    <3>3. Other(p, n) \/ \E j \in DOMAIN Work : j < i /\ Saves(Work[j], p)
      BY <1>19, <2>8, <3>1, <3>2 DEF PartsFrom
    <3>4. ASSUME NEW j \in DOMAIN Work, j < i, Saves(Work[j], p)
          PROVE  Other(p, n)' \/ \E k \in DOMAIN Work' : k < i /\ Saves(Work'[k], p)
      <4>1. CASE j = 1
        <5>1. x.num = 0 /\ p \in x.ports
          BY <1>14, <3>4, <4>1 DEF Saves
        <5> QED
          BY <1>7, <1>12, <1>14, <5>1 DEF Other
      <4>2. CASE j # 1
        BY <1>15, <3>4, <4>2
      <4> QED
        BY <4>1, <4>2
    <3> QED
      BY <2>3, <3>2, <3>3, <3>4
  <2>9. (errors' = 0 => Tidy') /\ Leftovers'
    <3>1. \A m \in Nums : vid[m] = 0 => member'[m] \subseteq member[m]
      BY <1>14, <2>2
    <3>2. member[0] \subseteq member'[0]
      BY <1>14, <2>2
    <3> QED
      BY <1>7, <1>19, <3>1, <3>2 DEF PartsFrom, Tidy, Leftovers
  <2> QED
    BY <2>5, <2>6, <2>7, <2>8, <2>9 DEF PartsFrom
<1> QED
  BY <1>11, <1>13, <1>17, <1>18, <1>19 DEF TableInv, Parting
-----------------------------------------------------------------------------
\* The members of an entry are read, to write them with a port more or less.
LEMMA MembersRead ==
  ASSUME OneSession, Inv, SetVlanPortAdd(Cli) \/ SetVlanPortDelete(Cli)
  PROVE  Inv'
<1> DEFINE x == Work[1]
           with == IF x.op = "add" THEN member[x.num] \union {x.port} ELSE member[x.num] \ {x.port}
           y == Members(x.num, with)
<1>1. TypeInv /\ DefaultInv /\ (Safe => TableInv)
  BY DEF Inv
<1>2. /\ Work # <<>> /\ x.op \in {"add", "delete"} /\ Head(todo[Cli]) = x /\ todo[Cli] = Work
      /\ Typed(x) /\ 1 \in DOMAIN Work /\ DOMAIN Work = 1 .. Len(Work) /\ Len(Work) \in Nat \ {0}
  <2>1. \E op \in {"add", "delete"} : Doing(Cli, op)
    BY DEF SetVlanPortAdd, SetVlanPortDelete
  <2> QED
    BY <1>1, <2>1, HeadIsFirst
<1>3. x.num \in Nums /\ x.port \in Ports
  BY <1>2 DEF Typed
<1>4. Goon(Cli, <<y>>)
  <2>1. CASE SetVlanPortAdd(Cli)
    <3>1. x.op = "add"
      BY <1>2, <2>1 DEF SetVlanPortAdd, Doing
    <3> QED
      BY <1>2, <2>1, <3>1 DEF SetVlanPortAdd
  <2>2. CASE SetVlanPortDelete(Cli)
    <3>1. x.op = "delete"
      BY <1>2, <2>2 DEF SetVlanPortDelete, Doing
    <3> QED
      BY <1>2, <2>2, <3>1 DEF SetVlanPortDelete
  <2> QED
    BY <2>1, <2>2
<1>5. /\ DOMAIN todo' = Sessions /\ IsSeq(Work')
      /\ DOMAIN Work' = DOMAIN Work
      /\ Work'[1] = y /\ \A i \in 2 .. Len(Work) : Work'[i] = Work[i]
  BY <1>1, <1>2, <1>4, Replaces
<1>6. UNCHANGED <<vid, member, vlanVid, vlanPort, scan, overtaken, errors, lost>>
  BY DEF SetVlanPortAdd, SetVlanPortDelete, regVars, devVars, countVars
<1>7. y.op = "members" /\ y.num = x.num /\ y.ports = with /\ with \subseteq Ports
  BY <1>1, <1>3 DEF Members, TypeInv
<1>8. y \in [op : {"members", "store_members"}, num : Nums, ports : SUBSET Ports]
  BY <1>3, <1>7 DEF Members
<1>9. /\ x.op = "add" => member[x.num] \subseteq with /\ x.port \in with
      /\ x.op = "delete" => with = member[x.num] \ {x.port}
  BY <1>2
<1>10. Work[1] = x
  OBVIOUS
<1> HIDE DEF x, y, with
<1>11. /\ \A i \in DOMAIN Work' : i # 1 => i \in DOMAIN Work /\ Work'[i] = Work[i]
       /\ \A i \in DOMAIN Work : i # 1 => i \in DOMAIN Work' /\ Work'[i] = Work[i]
  BY <1>2, <1>5
<1>12. TypeInv'
  <2>1. Typed(y)
    BY <1>7, <1>8 DEF Typed, OfVID, OfMembers
  <2>2. \A i \in DOMAIN Work' : /\ Typed(Work'[i])
                                /\ Work'[i].op = "turn" => TurnOK(Work'[i].does)
                                /\ Work'[i].op \in {"store_vid", "store_members"} => i = 1
    BY <1>1, <1>5, <1>7, <1>11, <2>1 DEF TypeInv
  <2> QED
    BY <1>1, <1>5, <1>6, <2>2 DEF TypeInv, ScanType
<1>13. DefaultInv'
  BY <1>1, <1>6 DEF DefaultInv
<1> SUFFICES ASSUME Safe' PROVE TableInv'
  BY <1>12, <1>13 DEF Inv
<1>14. Safe /\ TableInv
  BY <1>1, <1>6 DEF Safe
<1>15. CopyInv' /\ ScanInv'
  <2>1. \A n : /\ ~Storing("store_vid", n) /\ ~Storing("store_members", n)
    BY <1>2, <1>10 DEF Storing
  <2>2. \A i \in DOMAIN Work' : Work'[i].op \notin {"store_vid", "store_members"}
    BY <1>1, <1>5, <1>7, <1>11 DEF TypeInv
  <2>3. /\ \A n \in Nums : vlanVid'[n] = vid'[n] \/ (n = 0 /\ vlanVid'[n] = 0)
        /\ \A n \in Nums : vlanPort'[n] = member'[n] \/ (n = 0 /\ vlanPort'[n] = {})
    BY <1>6, <1>14, <2>1 DEF TableInv, CopyInv
  <2>4. scan'.read # None => IF scan'.of = "vid" THEN scan'.read.value = vid'[scan'.n]
                             ELSE scan'.read.value = member'[scan'.n]
    BY <1>6, <1>14, <2>1 DEF TableInv, ScanInv
  <2> QED
    BY <2>2, <2>3, <2>4 DEF CopyInv, ScanInv
<1>16. Keeps'
  BY <1>6, <1>14 DEF TableInv, Keeps
<1>17. GivesBack'
  <2> SUFFICES ASSUME NEW i \in DOMAIN Work', Work'[i].op = "vid", Work'[i].vid = 0
               PROVE  member'[Work'[i].num] = {} \/ TakesBoth(Work', i)
    BY DEF GivesBack
  <2>1. i # 1 /\ i \in DOMAIN Work /\ Work'[i] = Work[i]
    BY <1>5, <1>7, <1>11
  <2>2. member[Work[i].num] = {} \/ TakesBoth(Work, i)
    BY <1>14, <2>1 DEF TableInv, GivesBack
  <2>3. i + 1 # 1
    BY <1>2, <2>1
  <2>4. ~OfMembers(x)
    BY <1>2 DEF OfMembers
  <2>5. TakesBoth(Work, i) => TakesBoth(Work', i)
    BY <1>10, <1>11, <2>1, <2>3, <2>4 DEF TakesBoth
  <2> QED
    BY <1>6, <2>1, <2>2, <2>5
<1>18. ~SetUp
  BY <1>2, <1>10 DEF SetUp, SettingOps
<1>19. ASSUME Joins PROVE Joins'
  <2>1. ASSUME NEW i \in DOMAIN Work'
        PROVE  /\ Work'[i].op \in SettingOps \union {"join", "add", "quit", "members", "store_members", "delete"}
               /\ Work'[i].op = "join" => \E n \in Nums : vid'[n] = Work'[i].vid
               /\ Work'[i].op = "add" => vid'[Work'[i].num] # 0
               /\ Work'[i].op \in {"members", "delete"} => i = 1
    BY <1>5, <1>6, <1>7, <1>11, <1>19 DEF Joins
  <2>2. \A i, j \in DOMAIN Work' : i < j /\ Work'[i].op = "join" => Work'[j].op = "join"
    <3> TAKE i \in DOMAIN Work', j \in DOMAIN Work'
    <3>1. i < j => j # 1
      BY <1>2, <1>5
    <3> QED
      BY <1>5, <1>7, <1>11, <1>19, <3>1 DEF Joins
  <2>3. ASSUME NEW i \in DOMAIN Work', Work'[i].op = "quit"
        PROVE  /\ vid'[Work'[i].num] # 0
               /\ \/ Work'[i].port \in member'[Work'[i].num]
                  \/ \E j \in DOMAIN Work' : j < i /\ Adds(Work'[j], Work'[i].port, Work'[i].num)
               /\ \A j \in DOMAIN Work' : j > i => Work'[j].op \in {"tag", "join"}
    <3>1. i # 1 /\ i \in DOMAIN Work /\ Work'[i] = Work[i]
      BY <1>5, <1>7, <1>11, <2>3
    <3>2. /\ vid[Work[i].num] # 0
          /\ \/ Work[i].port \in member[Work[i].num]
             \/ \E j \in DOMAIN Work : j < i /\ Adds(Work[j], Work[i].port, Work[i].num)
          /\ \A j \in DOMAIN Work : j > i => Work[j].op \in {"tag", "join"}
      BY <1>19, <2>3, <3>1 DEF Joins
    <3>3. ASSUME NEW j \in DOMAIN Work, j < i, Adds(Work[j], Work[i].port, Work[i].num)
          PROVE  \E k \in DOMAIN Work' : k < i /\ Adds(Work'[k], Work'[i].port, Work'[i].num)
      <4>1. CASE j = 1
        <5>1. x.op = "add" /\ x.port = Work[i].port /\ x.num = Work[i].num
          BY <1>2, <1>10, <3>3, <4>1 DEF Adds
        <5>2. Adds(y, Work[i].port, Work[i].num)
          BY <1>7, <1>9, <5>1 DEF Adds
        <5> QED
          BY <1>2, <1>5, <3>1, <3>3, <4>1, <5>2
      <4>2. CASE j # 1
        BY <1>11, <3>1, <3>3, <4>2
      <4> QED
        BY <4>1, <4>2
    <3>4. ASSUME NEW j \in DOMAIN Work', j > i PROVE Work'[j].op \in {"tag", "join"}
      <4>1. j # 1
        BY <1>2, <1>5, <3>4
      <4> QED
        BY <1>11, <3>2, <3>4, <4>1
    <3> QED
      BY <1>6, <3>1, <3>2, <3>3, <3>4
  <2>4. \/ vid'[Work'[1].num] # 0 /\ member'[Work'[1].num] \subseteq Work'[1].ports
        \/ QuitsNext(Work[1].num)' /\ Work'[1].ports = member'[Work'[1].num] \ {Work'[2].port}
    <3>1. CASE x.op = "add"
      <4>1. vid[x.num] # 0
        BY <1>2, <1>10, <1>19, <3>1 DEF Joins
      <4> QED
        BY <1>5, <1>6, <1>7, <1>9, <3>1, <4>1
    <3>2. CASE x.op = "delete"
      <4>1. QuitsNext(x.num) /\ Work[2].port = x.port
        BY <1>2, <1>10, <1>19, <3>2 DEF Joins
      <4>2. 2 \in DOMAIN Work /\ Work[2].op = "quit" /\ Work[2].num # x.num /\ Work[2].from = x.num + 1
        BY <4>1 DEF QuitsNext
      <4>3. 2 \in DOMAIN Work' /\ Work'[2] = Work[2]
        BY <1>11, <4>2
      <4>4. Work'[1].num = x.num
        BY <1>5, <1>7
      <4>5. QuitsNext(Work[1].num)'
        BY <4>2, <4>3, <4>4 DEF QuitsNext
      <4> QED
        BY <1>5, <1>6, <1>7, <1>9, <3>2, <4>1, <4>3, <4>5
    <3> QED
      BY <1>2, <3>1, <3>2
  <2>5. ASSUME NEW n \in Nums, NEW p \in Ports, vid'[n] = 0, p \in member'[n]
        PROVE  p \in member'[0] \/ QuitsLater(p, n)'
    <3>1. p \in member[0] \/ QuitsLater(p, n)
      BY <1>6, <1>19, <2>5 DEF Joins
    <3>2. CASE QuitsLater(p, n)
      <4>1. CASE 2 \in DOMAIN Work /\ Work[2].op = "quit" /\ Work[2].port = p /\ Work[2].from <= n
        <5>1. 2 \in DOMAIN Work' /\ Work'[2] = Work[2]
          BY <1>11, <4>1
        <5> QED
          BY <4>1, <5>1 DEF QuitsLater
      <4>2. CASE x.op = "delete" /\ x.port = p /\ x.num = n
        <5>1. 1 \in DOMAIN Work' /\ Work'[1].op = "members" /\ Work'[1].num = n /\ p \notin Work'[1].ports
          BY <1>2, <1>5, <1>7, <1>9, <4>2
        <5> QED
          BY <5>1 DEF QuitsLater
      <4> QED
        BY <1>2, <1>10, <3>2, <4>1, <4>2 DEF QuitsLater
    <3> QED
      BY <1>6, <3>1, <3>2
  <2>6. errors' = 0 => Tidy'
    BY <1>6, <1>19 DEF Joins, Tidy
  <2>7. Work'[1].op = "members"
    BY <1>5, <1>7
  <2> QED
    BY <2>1, <2>2, <2>3, <2>4, <2>5, <2>6, <2>7 DEF Joins
<1>20. ASSUME NEW n \in Nums \ {0}, PartsFrom(n) PROVE PartsFrom(n)'
  <2>1. /\ x.op = "add" => x.num = 0
        /\ x.op = "delete" => x.num = n
    BY <1>2, <1>10, <1>20 DEF PartsFrom
  <2>2. \/ y.num = 0 /\ member[0] \subseteq y.ports
        \/ y.num = n /\ y.ports \subseteq member[n]
    BY <1>2, <1>7, <1>9, <2>1
  <2>3. ASSUME NEW i \in DOMAIN Work'
        PROVE  /\ Work'[i].op \in SettingOps \union {"part", "leave", "leave_tagged", "add", "delete",
                                                     "members", "store_members", "vid", "store_vid"}
               /\ Work'[i].op \notin {"leave", "leave_tagged"}
               /\ Work'[i].op \in {"part", "leave", "delete", "vid"} => Work'[i].num = n
               /\ Work'[i].op = "vid" => i + 1 \notin DOMAIN Work'
               /\ Work'[i].op = "add" => Work'[i].num = 0
               /\ Work'[i].op = "members" =>
                    \/ i = 1 /\ Work'[i].num = 0 /\ member'[0] \subseteq Work'[i].ports
                    \/ Work'[i].num = n /\ (i = 1 \/ Work'[i].ports = {}) /\ Work'[i].ports \subseteq member'[n]
    <3>1. CASE i = 1
      BY <1>5, <1>6, <1>7, <2>2, <3>1
    <3>2. CASE i # 1
      <4>1. i \in DOMAIN Work /\ Work'[i] = Work[i]
        BY <1>11, <3>2
      <4> QED
        BY <1>5, <1>6, <1>20, <3>2, <4>1 DEF PartsFrom
    <3> QED
      BY <3>1, <3>2
  <2>4. ASSUME NEW i \in DOMAIN Work', NEW p \in member'[n], Takes(Work'[i], p, n)
        PROVE  Other(p, n)' \/ \E j \in DOMAIN Work' : j < i /\ Saves(Work'[j], p)
    <3>1. p \in member[n]
      BY <1>6, <2>4
    <3>2. Takes(Work[i], p, n)
      <4>1. CASE i = 1
        <5>1. y.num = n /\ p \notin y.ports
          BY <1>5, <1>7, <2>4, <4>1 DEF Takes
        <5>2. x.op = "delete"
          BY <1>2, <1>7, <2>1, <5>1
        <5>3. p = x.port
          BY <1>7, <1>9, <3>1, <5>1, <5>2
        <5> QED
          BY <1>10, <4>1, <5>2, <5>3 DEF Takes
      <4>2. CASE i # 1
        BY <1>11, <2>4, <4>2
      <4> QED
        BY <4>1, <4>2
    <3>3. Other(p, n) \/ \E j \in DOMAIN Work : j < i /\ Saves(Work[j], p)
      BY <1>5, <1>20, <3>1, <3>2 DEF PartsFrom
    <3>4. ASSUME NEW j \in DOMAIN Work, j < i, Saves(Work[j], p)
          PROVE  \E k \in DOMAIN Work' : k < i /\ Saves(Work'[k], p)
      <4>1. CASE j = 1
        <5>1. x.op = "add" /\ x.port = p
          BY <1>2, <1>10, <3>4, <4>1 DEF Saves
        <5>2. Saves(y, p)
          BY <1>7, <1>9, <2>1, <5>1 DEF Saves
        <5> QED
          BY <1>2, <1>5, <3>4, <4>1, <5>2
      <4>2. CASE j # 1
        BY <1>11, <3>4, <4>2
      <4> QED
        BY <4>1, <4>2
    <3>5. Other(p, n) => Other(p, n)'
      BY <1>6 DEF Other
    <3> QED
      BY <3>3, <3>4, <3>5
  <2>5. (errors' = 0 => Tidy') /\ Leftovers'
    BY <1>6, <1>20 DEF PartsFrom, Tidy, Leftovers
  <2> QED
    BY <2>3, <2>4, <2>5 DEF PartsFrom
<1> QED
  BY <1>14, <1>15, <1>16, <1>17, <1>18, <1>19, <1>20 DEF TableInv, Parting
-----------------------------------------------------------------------------
\* A step of the command gives way to the accesses it stands for.
Later(k, more) == Len(more) + k - 1

LEMMA Positions ==
  ASSUME OneSession, TypeInv, Work # <<>>, NEW more, IsSeq(more), Goon(Cli, more)
  PROVE  /\ DOMAIN todo' = Sessions /\ IsSeq(Work')
         /\ DOMAIN Work \subseteq Nat \ {0} /\ DOMAIN Work' \subseteq Nat \ {0} /\ DOMAIN more \subseteq Nat \ {0}
         /\ 1 \in DOMAIN Work
         /\ \A i \in DOMAIN more : i \in DOMAIN Work' /\ Work'[i] = more[i]
         /\ \A k \in DOMAIN Work : k > 1 =>
              /\ Later(k, more) \in DOMAIN Work' /\ Work'[Later(k, more)] = Work[k]
              /\ Later(k, more) \notin DOMAIN more
         /\ \A i \in DOMAIN Work' : i \in DOMAIN more \/ \E k \in DOMAIN Work : k > 1 /\ i = Later(k, more)
         /\ \A i \in DOMAIN more : \A k \in DOMAIN Work : k > 1 => i < Later(k, more)
         /\ \A j, k \in DOMAIN Work : j < k <=> Later(j, more) < Later(k, more)
         /\ \A k \in DOMAIN Work : Later(k + 1, more) = Later(k, more) + 1 /\ Later(k - 1, more) = Later(k, more) - 1
<1>1. /\ DOMAIN todo' = Sessions /\ IsSeq(Work') /\ Len(Work') = Len(more) + Len(Work) - 1
      /\ Len(Work) \in Nat \ {0} /\ Len(more) \in Nat
      /\ DOMAIN Work' = 1 .. Len(Work') /\ DOMAIN Work = 1 .. Len(Work) /\ DOMAIN more = 1 .. Len(more)
      /\ \A i \in 1 .. Len(more) : Work'[i] = more[i]
      /\ \A i \in 2 .. Len(Work) : Work'[Len(more) + i - 1] = Work[i]
  BY GoesOn
<1> DEFINE l == Len(more)
           m == Len(Work)
<1>2. l \in Nat /\ m \in Nat \ {0} /\ Len(Work') = l + m - 1
  BY <1>1
<1> HIDE DEF l, m
<1>3. DOMAIN Work' = 1 .. l + m - 1 /\ DOMAIN Work = 1 .. m /\ DOMAIN more = 1 .. l
  BY <1>1, <1>2 DEF l, m
<1>4. \A k : Later(k, more) = l + k - 1
  BY DEF Later, l
<1>5. DOMAIN Work \subseteq Nat \ {0} /\ DOMAIN Work' \subseteq Nat \ {0} /\ DOMAIN more \subseteq Nat \ {0} /\ 1 \in DOMAIN Work
  BY <1>2, <1>3
<1>6. \A i \in DOMAIN more : i \in DOMAIN Work' /\ Work'[i] = more[i]
  <2> TAKE i \in DOMAIN more
  <2>1. i \in 1 .. l + m - 1
    BY <1>2, <1>3
  <2> QED
    BY <1>1, <1>3, <2>1
<1>7. ASSUME NEW k \in DOMAIN Work, k > 1
      PROVE  /\ Later(k, more) \in DOMAIN Work' /\ Work'[Later(k, more)] = Work[k]
             /\ Later(k, more) \notin DOMAIN more
  <2>1. k \in 2 .. m /\ l + k - 1 \in 1 .. l + m - 1 /\ l + k - 1 \notin 1 .. l
    BY <1>2, <1>3, <1>7
  <2>2. Work'[l + k - 1] = Work[k]
    BY <1>1, <2>1 DEF l, m
  <2> QED
    BY <1>3, <1>4, <2>1, <2>2
<1>8. ASSUME NEW i \in DOMAIN Work', i \notin DOMAIN more PROVE \E k \in DOMAIN Work : k > 1 /\ i = Later(k, more)
  <2>1. i - l + 1 \in 1 .. m /\ i - l + 1 > 1 /\ i = l + (i - l + 1) - 1
    BY <1>2, <1>3, <1>8
  <2> QED
    BY <1>3, <1>4, <2>1
<1>9. ASSUME NEW i \in DOMAIN more, NEW k \in DOMAIN Work, k > 1 PROVE i < Later(k, more)
  <2>1. i < l + k - 1
    BY <1>2, <1>3, <1>9
  <2> QED
    BY <1>4, <2>1
<1>10. ASSUME NEW j \in DOMAIN Work, NEW k \in DOMAIN Work PROVE j < k <=> Later(j, more) < Later(k, more)
  <2>1. j < k <=> l + j - 1 < l + k - 1
    BY <1>2, <1>3
  <2> QED
    BY <1>4, <2>1
<1>11. ASSUME NEW k \in DOMAIN Work
       PROVE  Later(k + 1, more) = Later(k, more) + 1 /\ Later(k - 1, more) = Later(k, more) - 1
  <2>1. l + (k + 1) - 1 = (l + k - 1) + 1 /\ l + (k - 1) - 1 = (l + k - 1) - 1
    BY <1>2, <1>3
  <2> QED
    BY <1>4, <2>1
<1> QED
  BY <1>1, <1>5, <1>6, <1>7, <1>8, <1>9, <1>10, <1>11

LEMMA Expands ==
  ASSUME OneSession, Inv, Work # <<>>, Work[1].op \notin {"vid", "store_vid", "members", "store_members"},
         NEW more, IsSeq(more), Goon(Cli, more),
         \A i \in DOMAIN more : Typed(more[i]) /\ more[i].op \notin {"turn", "store_vid", "store_members"},
         UNCHANGED <<vid, member, vlanVid, vlanPort, scan, overtaken, errors, lost>>
  PROVE  /\ TypeInv' /\ DefaultInv'
         /\ Safe' => /\ Safe /\ TableInv /\ CopyInv' /\ ScanInv' /\ Keeps'
                     /\ \A i \in DOMAIN Work' : i \notin DOMAIN more /\ Work'[i].op = "vid" /\ Work'[i].vid = 0 =>
                          member'[Work'[i].num] = {} \/ TakesBoth(Work', i)
<1>1. TypeInv /\ DefaultInv /\ (Safe => TableInv)
  BY DEF Inv
<1>2. /\ DOMAIN todo' = Sessions /\ IsSeq(Work')
      /\ DOMAIN Work \subseteq Nat \ {0}
      /\ 1 \in DOMAIN Work
      /\ \A i \in DOMAIN more : i \in DOMAIN Work' /\ Work'[i] = more[i]
      /\ \A k \in DOMAIN Work : k > 1 =>
           /\ Later(k, more) \in DOMAIN Work' /\ Work'[Later(k, more)] = Work[k]
           /\ Later(k, more) \notin DOMAIN more
      /\ \A i \in DOMAIN Work' : i \in DOMAIN more \/ \E k \in DOMAIN Work : k > 1 /\ i = Later(k, more)
      /\ \A k \in DOMAIN Work : Later(k + 1, more) = Later(k, more) + 1 /\ Later(k - 1, more) = Later(k, more) - 1
  BY <1>1, Positions
<1>3. \A i \in DOMAIN Work' : \/ i \in DOMAIN more /\ Work'[i] = more[i]
                              \/ \E k \in DOMAIN Work : k > 1 /\ i = Later(k, more) /\ Work'[i] = Work[k]
  BY <1>2
<1>4. ASSUME NEW i \in DOMAIN Work'
      PROVE  /\ Typed(Work'[i])
             /\ Work'[i].op = "turn" => TurnOK(Work'[i].does)
             /\ Work'[i].op \notin {"store_vid", "store_members"}
  <2>1. CASE i \in DOMAIN more /\ Work'[i] = more[i]
    BY <2>1
  <2>2. CASE \E k \in DOMAIN Work : k > 1 /\ i = Later(k, more) /\ Work'[i] = Work[k]
    <3>1. PICK k \in DOMAIN Work : k > 1 /\ Work'[i] = Work[k]
      BY <2>2
    <3>2. k # 1
      BY <1>2, <3>1
    <3> QED
      BY <1>1, <3>1, <3>2 DEF TypeInv
  <2> QED
    BY <1>3, <2>1, <2>2
<1>5. TypeInv'
  BY <1>1, <1>2, <1>4 DEF TypeInv, ScanType
<1>6. DefaultInv'
  BY <1>1 DEF DefaultInv
<1> SUFFICES ASSUME Safe'
             PROVE  /\ Safe /\ TableInv /\ CopyInv' /\ ScanInv' /\ Keeps'
                    /\ \A i \in DOMAIN Work' : i \notin DOMAIN more /\ Work'[i].op = "vid" /\ Work'[i].vid = 0 =>
                         member'[Work'[i].num] = {} \/ TakesBoth(Work', i)
  BY <1>5, <1>6
<1>7. Safe /\ TableInv
  BY <1>1 DEF Safe
<1>8. \A n : ~Storing("store_vid", n) /\ ~Storing("store_members", n)
  BY DEF Storing
<1>9. CopyInv' /\ ScanInv'
  <2>1. /\ \A n \in Nums : vlanVid'[n] = vid'[n] \/ (n = 0 /\ vlanVid'[n] = 0)
        /\ \A n \in Nums : vlanPort'[n] = member'[n] \/ (n = 0 /\ vlanPort'[n] = {})
    BY <1>7, <1>8 DEF TableInv, CopyInv
  <2>2. scan'.read # None => IF scan'.of = "vid" THEN scan'.read.value = vid'[scan'.n]
                             ELSE scan'.read.value = member'[scan'.n]
    BY <1>7, <1>8 DEF TableInv, ScanInv
  <2> QED
    BY <1>4, <2>1, <2>2 DEF CopyInv, ScanInv
<1>10. Keeps'
  BY <1>7 DEF TableInv, Keeps
<1>11. ASSUME NEW i \in DOMAIN Work', i \notin DOMAIN more, Work'[i].op = "vid", Work'[i].vid = 0
       PROVE  member'[Work'[i].num] = {} \/ TakesBoth(Work', i)
  <2>1. PICK k \in DOMAIN Work : k > 1 /\ i = Later(k, more) /\ Work'[i] = Work[k]
    BY <1>3, <1>11
  <2>2. member[Work[k].num] = {} \/ TakesBoth(Work, k)
    BY <1>7, <1>11, <2>1 DEF TableInv, GivesBack
  <2>3. CASE k - 1 \in DOMAIN Work /\ OfMembers(Work[k - 1]) /\ Work[k - 1].num = Work[k].num /\ Work[k - 1].ports = {}
    <3>1. k - 1 # 1
      BY <2>3 DEF OfMembers
    <3>2. k - 1 > 1
      <4>1. k \in Nat \ {0} /\ k - 1 \in Nat \ {0}
        BY <1>2, <2>3
      <4> QED
        BY <3>1, <4>1
    <3>3. Later(k - 1, more) = i - 1
      BY <1>2, <2>1
    <3>4. i - 1 \in DOMAIN Work' /\ Work'[i - 1] = Work[k - 1]
      BY <1>2, <2>3, <3>2, <3>3
    <3> QED
      BY <2>1, <2>3, <3>4 DEF TakesBoth
  <2>4. CASE k + 1 \in DOMAIN Work /\ Work[k + 1] = Members(Work[k].num, {})
    <3>1. k + 1 > 1
      BY <1>2, <2>1
    <3>2. Later(k + 1, more) = i + 1
      BY <1>2, <2>1
    <3>3. i + 1 \in DOMAIN Work' /\ Work'[i + 1] = Work[k + 1]
      BY <1>2, <2>4, <3>1, <3>2
    <3> QED
      BY <2>1, <2>4, <3>3 DEF TakesBoth
  <2> QED
    BY <2>1, <2>2, <2>3, <2>4 DEF TakesBoth
<1> QED
  BY <1>7, <1>9, <1>10, <1>11
-----------------------------------------------------------------------------
\* What the copy says of the table.
LEMMA NumFromVID ==
  ASSUME NEW v
  PROVE  VlanNumFromVID(v) \in Nums /\ (VlanExist(v) => vlanVid[VlanNumFromVID(v)] = v)
<1> DEFINE S == {n \in Nums : vlanVid[n] = v}
<1>1. CASE VlanExist(v)
  <2>1. S \subseteq Nat /\ S # {}
    <3>1. Nums \subseteq Nat
      BY Constants
    <3>2. \E n \in Nums : vlanVid[n] = v
      BY <1>1 DEF VlanExist
    <3> QED
      BY <3>1, <3>2
  <2>2. Min(S) \in S
    BY <2>1, MinIsLeast
  <2> QED
    BY <1>1, <2>2 DEF VlanNumFromVID
<1>2. CASE ~VlanExist(v)
  BY <1>2, Constants DEF VlanNumFromVID
<1> QED
  BY <1>1, <1>2

LEMMA FindsVID ==
  ASSUME DefaultInv, CopyInv, \A n : ~Storing("store_vid", n), NEW v \in Vids
  PROVE  /\ VlanExist(v) <=> \E n \in Nums : vid[n] = v
         /\ VlanExist(v) => VlanNumFromVID(v) \in Nums \ {0} /\ vid[VlanNumFromVID(v)] = v
<1>1. v # 0 /\ v # 1 /\ v \in Nat
  BY Constants
<1>2. \A n \in Nums : vlanVid[n] = vid[n] \/ (n = 0 /\ vlanVid[n] = 0)
  BY DEF CopyInv
<1>3. vid[0] = 1
  BY DEF DefaultInv
<1>4. \A n \in Nums : vlanVid[n] = v <=> vid[n] = v
  BY <1>1, <1>2, <1>3
<1>5. VlanExist(v) <=> \E n \in Nums : vid[n] = v
  BY <1>4 DEF VlanExist
<1>6. VlanExist(v) => VlanNumFromVID(v) \in Nums /\ vid[VlanNumFromVID(v)] = v
  BY <1>4, NumFromVID
<1> QED
  BY <1>1, <1>3, <1>5, <1>6

LEMMA SameMembers ==
  ASSUME CopyInv, \A n : ~Storing("store_members", n), NEW n \in Nums
  PROVE  /\ vlanPort[n] \subseteq member[n]
         /\ n # 0 => vlanPort[n] = member[n]
  BY DEF CopyInv
-----------------------------------------------------------------------------
\* Short sequences, one after the other.
LEMMA SameSeq ==
  ASSUME NEW S, NEW s \in Seq(S), NEW t \in Seq(S), Len(s) = Len(t), \A i \in 1 .. Len(s) : s[i] = t[i]
  PROVE  s = t
<1>1. DOMAIN s = 1 .. Len(s) /\ DOMAIN t = 1 .. Len(t)
  OBVIOUS
<1>2. s = [i \in 1 .. Len(s) |-> s[i]] /\ t = [i \in 1 .. Len(t) |-> t[i]]
  OBVIOUS
<1> QED
  BY <1>2

LEMMA Joined ==
  ASSUME NEW T, NEW s \in Seq(T), NEW t \in Seq(T), NEW u \in Seq(T), Len(u) = Len(s) + Len(t),
         \A i \in 1 .. Len(s) : u[i] = s[i],
         \A i \in 1 .. Len(t) : u[Len(s) + i] = t[i]
  PROVE  s \o t = u
<1>1. IsSeq(s) /\ IsSeq(t)
  BY DEF IsSeq
<1>2. /\ Len(s \o t) = Len(s) + Len(t) /\ Len(s) \in Nat /\ Len(t) \in Nat
      /\ \A i \in 1 .. Len(s) + Len(t) : (s \o t)[i] = IF i <= Len(s) THEN s[i] ELSE t[i - Len(s)]
  BY <1>1, ConcatSeq
<1>3. s \o t \in Seq(T)
  OBVIOUS
<1>4. ASSUME NEW i \in 1 .. Len(s) + Len(t) PROVE (s \o t)[i] = u[i]
  <2>1. CASE i <= Len(s)
    BY <1>2, <2>1
  <2>2. CASE ~(i <= Len(s))
    <3>1. i - Len(s) \in 1 .. Len(t) /\ Len(s) + (i - Len(s)) = i
      BY <1>2, <2>2
    <3>2. (s \o t)[i] = t[i - Len(s)]
      BY <1>2, <2>2
    <3> QED
      BY <3>1, <3>2
  <2> QED
    BY <2>1, <2>2
<1> QED
  BY <1>2, <1>3, <1>4, SameSeq

LEMMA EmptyFirst ==
  ASSUME NEW T, NEW s \in Seq(T)
  PROVE  <<>> \o s = s /\ s \o <<>> = s
<1> DEFINE z == <<>>
<1>1. z \in Seq(T) /\ Len(z) = 0 /\ Len(s) \in Nat
  OBVIOUS
<1> HIDE DEF z
<1>2. Len(s) = Len(z) + Len(s) /\ Len(s) = Len(s) + Len(z) /\ 1 .. Len(z) = {}
  BY <1>1
<1>3. \A i \in 1 .. Len(s) : Len(z) + i = i
  BY <1>1
<1>4. z \o s = s
  BY <1>1, <1>2, <1>3, Joined
<1>5. s \o z = s
  BY <1>1, <1>2, Joined
<1> QED
  BY <1>4, <1>5 DEF z

LEMMA Pairs ==
  ASSUME NEW a, NEW b, NEW c
  PROVE  <<a>> \o <<>> \o <<c>> = <<a, c>> /\ <<a>> \o <<b>> \o <<c>> = <<a, b, c>>
<1> DEFINE T == {a, b, c}
           s == <<a>>
           t == <<b>>
           u == <<c>>
           v == <<a, c>>
           w == <<a, b>>
           y == <<a, b, c>>
<1>1. /\ s \in Seq(T) /\ Len(s) = 1 /\ s[1] = a /\ t \in Seq(T) /\ Len(t) = 1 /\ t[1] = b
      /\ u \in Seq(T) /\ Len(u) = 1 /\ u[1] = c /\ v \in Seq(T) /\ Len(v) = 2 /\ v[1] = a /\ v[2] = c
      /\ w \in Seq(T) /\ Len(w) = 2 /\ w[1] = a /\ w[2] = b
      /\ y \in Seq(T) /\ Len(y) = 3 /\ y[1] = a /\ y[2] = b /\ y[3] = c
  OBVIOUS
<1> HIDE DEF T, s, t, u, v, w, y
<1>2. 1 .. 1 = {1} /\ 1 .. 2 = {1, 2} /\ 1 + 1 = 2 /\ 2 + 1 = 3
  OBVIOUS
<1>3. s \o <<>> = s
  BY <1>1, EmptyFirst
<1>4. s \o u = v
  <2>1. Len(v) = Len(s) + Len(u)
    BY <1>1
  <2>2. ASSUME NEW i \in 1 .. Len(s) PROVE v[i] = s[i]
    BY <1>1, <1>2
  <2>3. ASSUME NEW i \in 1 .. Len(u) PROVE v[Len(s) + i] = u[i]
    BY <1>1, <1>2
  <2> QED
    BY <1>1, <2>1, <2>2, <2>3, Joined
<1>5. s \o t = w
  <2>1. Len(w) = Len(s) + Len(t)
    BY <1>1
  <2>2. ASSUME NEW i \in 1 .. Len(s) PROVE w[i] = s[i]
    BY <1>1, <1>2
  <2>3. ASSUME NEW i \in 1 .. Len(t) PROVE w[Len(s) + i] = t[i]
    BY <1>1, <1>2
  <2> QED
    BY <1>1, <2>1, <2>2, <2>3, Joined
<1>6. w \o u = y
  <2>1. Len(y) = Len(w) + Len(u)
    BY <1>1
  <2>2. ASSUME NEW i \in 1 .. Len(w) PROVE y[i] = w[i]
    BY <1>1, <1>2
  <2>3. ASSUME NEW i \in 1 .. Len(u) PROVE y[Len(w) + i] = u[i]
    BY <1>1, <1>2
  <2> QED
    BY <1>1, <2>1, <2>2, <2>3, Joined
<1> QED
  BY <1>3, <1>4, <1>5, <1>6 DEF s, t, u, v, w, y

LEMMA Tuples ==
  ASSUME NEW a, NEW b, NEW c, NEW d, NEW e
  PROVE  <<>> \o <<c, d, e>> = <<c, d, e>> /\ <<a, b>> \o <<c, d, e>> = <<a, b, c, d, e>>
<1> DEFINE T == {a, b, c, d, e}
           s == <<c, d, e>>
           u == <<a, b>>
           v == <<a, b, c, d, e>>
<1>1. /\ s \in Seq(T) /\ Len(s) = 3 /\ s[1] = c /\ s[2] = d /\ s[3] = e
      /\ u \in Seq(T) /\ Len(u) = 2 /\ u[1] = a /\ u[2] = b
      /\ v \in Seq(T) /\ Len(v) = 5 /\ v[1] = a /\ v[2] = b /\ v[3] = c /\ v[4] = d /\ v[5] = e
  OBVIOUS
<1> HIDE DEF T, s, u, v
<1>2. <<>> \o s = s
  BY <1>1, EmptyFirst
<1>3. 1 .. 2 = {1, 2} /\ 1 .. 3 = {1, 2, 3} /\ 2 + 1 = 3 /\ 2 + 2 = 4 /\ 2 + 3 = 5
  OBVIOUS
<1>4. u \o s = v
  <2>1. Len(v) = Len(u) + Len(s)
    BY <1>1
  <2>2. ASSUME NEW i \in 1 .. Len(u) PROVE v[i] = u[i]
    BY <1>1, <1>3
  <2>3. ASSUME NEW i \in 1 .. Len(s) PROVE v[Len(u) + i] = s[i]
    BY <1>1, <1>3
  <2> QED
    BY <1>1, <2>1, <2>2, <2>3, Joined
<1> QED
  BY <1>2, <1>4 DEF s, u, v

\* Where the elements of two sequences are in both together.
After(k, front) == Len(front) + k

Chain(u, s, t) ==
  /\ IsSeq(u)
  /\ DOMAIN s \subseteq Nat \ {0} /\ DOMAIN t \subseteq Nat \ {0} /\ DOMAIN u \subseteq Nat \ {0}
  /\ \A i \in DOMAIN s : i \in DOMAIN u /\ u[i] = s[i]
  /\ \A i \in DOMAIN t : After(i, s) \in DOMAIN u /\ u[After(i, s)] = t[i]
  /\ \A i \in DOMAIN u : i \in DOMAIN s \/ \E k \in DOMAIN t : i = After(k, s)
  /\ \A i \in DOMAIN s, k \in DOMAIN t : i < After(k, s)
  /\ \A j, k \in DOMAIN t : j < k <=> After(j, s) < After(k, s)
  /\ \A k \in DOMAIN t : After(k + 1, s) = After(k, s) + 1 /\ After(k - 1, s) = After(k, s) - 1

LEMMA Concat ==
  ASSUME NEW s, IsSeq(s), NEW t, IsSeq(t), NEW u, u = s \o t
  PROVE  Chain(u, s, t)
<1>1. /\ IsSeq(s \o t) /\ Len(s \o t) = Len(s) + Len(t) /\ Len(s) \in Nat /\ Len(t) \in Nat
      /\ \A i \in 1 .. Len(s) + Len(t) : (s \o t)[i] = IF i <= Len(s) THEN s[i] ELSE t[i - Len(s)]
  BY ConcatSeq
<1> DEFINE l == Len(s)
           m == Len(t)
<1>2. /\ DOMAIN s = 1 .. l /\ DOMAIN t = 1 .. m /\ DOMAIN u = 1 .. l + m /\ l \in Nat /\ m \in Nat
      /\ \A i \in 1 .. l + m : u[i] = IF i <= l THEN s[i] ELSE t[i - l]
  BY <1>1 DEF IsSeq
<1>3. \A i : After(i, s) = l + i
  BY DEF After
<1> HIDE DEF l, m
<1>4. ASSUME NEW i \in DOMAIN s PROVE i \in DOMAIN u /\ u[i] = s[i]
  <2>1. i \in 1 .. l + m /\ i <= l
    BY <1>2
  <2> QED
    BY <1>2, <2>1
<1>5. ASSUME NEW i \in DOMAIN t PROVE After(i, s) \in DOMAIN u /\ u[After(i, s)] = t[i]
  <2>1. l + i \in 1 .. l + m /\ ~(l + i <= l) /\ (l + i) - l = i
    BY <1>2
  <2>2. u[l + i] = t[(l + i) - l]
    BY <1>2, <2>1
  <2> QED
    BY <1>2, <1>3, <2>1, <2>2
<1>6. ASSUME NEW i \in DOMAIN u PROVE i \in DOMAIN s \/ \E k \in DOMAIN t : i = After(k, s)
  <2>1. CASE i <= l
    BY <1>2, <2>1
  <2>2. CASE ~(i <= l)
    <3>1. i - l \in 1 .. m /\ i = l + (i - l)
      BY <1>2, <2>2
    <3> QED
      BY <1>2, <1>3, <3>1
  <2> QED
    BY <2>1, <2>2
<1>7. ASSUME NEW i \in DOMAIN s, NEW k \in DOMAIN t PROVE i < After(k, s)
  <2>1. i < l + k
    BY <1>2
  <2> QED
    BY <1>3, <2>1
<1>8. ASSUME NEW j \in DOMAIN t, NEW k \in DOMAIN t PROVE j < k <=> After(j, s) < After(k, s)
  <2>1. j < k <=> l + j < l + k
    BY <1>2
  <2> QED
    BY <1>3, <2>1
<1>9. DOMAIN s \subseteq Nat \ {0} /\ DOMAIN t \subseteq Nat \ {0} /\ DOMAIN u \subseteq Nat \ {0}
  BY <1>2
<1>10. ASSUME NEW k \in DOMAIN t PROVE After(k + 1, s) = After(k, s) + 1 /\ After(k - 1, s) = After(k, s) - 1
  <2>1. l + (k + 1) = (l + k) + 1 /\ l + (k - 1) = (l + k) - 1
    BY <1>2
  <2> QED
    BY <1>3, <2>1
<1> QED
  BY <1>1, <1>4, <1>5, <1>6, <1>7, <1>8, <1>9, <1>10 DEF Chain

\* What is in a sequence.
Elems(s) == {s[i] : i \in DOMAIN s}

LEMMA ConcatElems ==
  ASSUME NEW s, IsSeq(s), NEW t, IsSeq(t), NEW u, u = s \o t
  PROVE  IsSeq(u) /\ Elems(u) = Elems(s) \union Elems(t)
<1>0. Chain(u, s, t)
  BY Concat
<1>1. /\ IsSeq(u)
      /\ \A i \in DOMAIN s : i \in DOMAIN u /\ u[i] = s[i]
      /\ \A i \in DOMAIN t : After(i, s) \in DOMAIN u /\ u[After(i, s)] = t[i]
      /\ \A i \in DOMAIN u : i \in DOMAIN s \/ \E k \in DOMAIN t : i = After(k, s)
  BY <1>0 DEF Chain
<1>2. Elems(u) \subseteq Elems(s) \union Elems(t)
  <2> SUFFICES ASSUME NEW i \in DOMAIN u PROVE u[i] \in Elems(s) \union Elems(t)
    BY DEF Elems
  <2> QED
    BY <1>1 DEF Elems
<1>3. Elems(s) \subseteq Elems(u)
  BY <1>1 DEF Elems
<1>4. Elems(t) \subseteq Elems(u)
  <2> SUFFICES ASSUME NEW i \in DOMAIN t PROVE \E k \in DOMAIN u : u[k] = t[i]
    BY DEF Elems
  <2> QED
    BY <1>1
<1> QED
  BY <1>1, <1>2, <1>3, <1>4

LEMMA NoElems == IsSeq(<<>>) /\ Elems(<<>>) = {}
  BY EmptyIsSeq DEF Elems

LEMMA OneElem ==
  ASSUME NEW a, NEW s, s = <<a>>
  PROVE  IsSeq(s) /\ Elems(s) = {a}
<1>1. s \in Seq({a}) /\ DOMAIN s = {1} /\ s[1] = a
  OBVIOUS
<1> QED
  BY <1>1 DEF IsSeq, Elems

LEMMA TwoElems ==
  ASSUME NEW a, NEW b, NEW s, s = <<a, b>>
  PROVE  IsSeq(s) /\ Elems(s) = {a, b}
<1>1. s \in Seq({a, b}) /\ DOMAIN s = {1, 2} /\ s[1] = a /\ s[2] = b
  OBVIOUS
<1> QED
  BY <1>1 DEF IsSeq, Elems

LEMMA ThreeElems ==
  ASSUME NEW a, NEW b, NEW c, NEW s, s = <<a, b, c>>
  PROVE  IsSeq(s) /\ Elems(s) = {a, b, c}
<1>1. s \in Seq({a, b, c}) /\ DOMAIN s = {1, 2, 3} /\ s[1] = a /\ s[2] = b /\ s[3] = c
  OBVIOUS
<1> QED
  BY <1>1 DEF IsSeq, Elems

-----------------------------------------------------------------------------
\* A port joins an entry: the accesses for it come before the ports still to join.
Joining(more) ==
  /\ \A i \in DOMAIN more :
       /\ Typed(more[i]) /\ more[i].op \in SettingOps \union {"add", "quit"}
       /\ more[i].op = "quit" =>
            /\ \E j \in DOMAIN more : j < i /\ Adds(more[j], more[i].port, more[i].num)
            /\ \A j \in DOMAIN more : j > i => more[j].op = "tag"

LEMMA JoinExpands ==
  ASSUME OneSession, Inv, Work # <<>>, Work[1].op = "join",
         NEW more, IsSeq(more), Goon(Cli, more), Joining(more),
         Safe /\ TableInv => \A i \in DOMAIN more : more[i].op \in {"add", "quit"} => vid[more[i].num] # 0,
         UNCHANGED <<vid, member, vlanVid, vlanPort, scan, overtaken, errors, lost>>
  PROVE  Inv'
<1>1. TypeInv
  BY DEF Inv
<1>2. \A i \in DOMAIN more : Typed(more[i]) /\ more[i].op \notin {"turn", "store_vid", "store_members"}
  BY DEF Joining, SettingOps
<1>3. /\ TypeInv' /\ DefaultInv'
      /\ Safe' => /\ Safe /\ TableInv /\ CopyInv' /\ ScanInv' /\ Keeps'
                  /\ \A i \in DOMAIN Work' : i \notin DOMAIN more /\ Work'[i].op = "vid" /\ Work'[i].vid = 0 =>
                       member'[Work'[i].num] = {} \/ TakesBoth(Work', i)
  BY <1>2, Expands
<1> SUFFICES ASSUME Safe' PROVE TableInv'
  BY <1>3 DEF Inv
<1>4. /\ DOMAIN Work \subseteq Nat \ {0} /\ DOMAIN Work' \subseteq Nat \ {0} /\ 1 \in DOMAIN Work
      /\ \A i \in DOMAIN more : i \in DOMAIN Work' /\ Work'[i] = more[i]
      /\ \A k \in DOMAIN Work : k > 1 =>
           /\ Later(k, more) \in DOMAIN Work' /\ Work'[Later(k, more)] = Work[k]
           /\ Later(k, more) \notin DOMAIN more
      /\ \A i \in DOMAIN Work' : i \in DOMAIN more \/ \E k \in DOMAIN Work : k > 1 /\ i = Later(k, more)
      /\ \A i \in DOMAIN more : \A k \in DOMAIN Work : k > 1 => i < Later(k, more)
  BY <1>1, Positions
<1>5. Joins
  BY <1>3, <1>4 DEF TableInv, SetUp, Parting, PartsFrom, SettingOps
<1>6. \A k \in DOMAIN Work : k > 1 => Work[k].op = "join" /\ \E n \in Nums : vid[n] = Work[k].vid
  BY <1>4, <1>5 DEF Joins
<1>7. \A i \in DOMAIN Work' :
        IF i \in DOMAIN more THEN Work'[i] = more[i]
        ELSE Work'[i].op = "join" /\ \E n \in Nums : vid[n] = Work'[i].vid
  BY <1>4, <1>6
<1>8. GivesBack'
  <2> SUFFICES ASSUME NEW i \in DOMAIN Work', Work'[i].op = "vid" PROVE FALSE
    BY DEF GivesBack
  <2>1. CASE i \in DOMAIN more
    BY <1>7, <2>1 DEF Joining, SettingOps
  <2> QED
    BY <1>7, <2>1
<1>9. ASSUME NEW i \in DOMAIN Work'
      PROVE  /\ Work'[i].op \in SettingOps \union {"join", "add", "quit"}
             /\ Work'[i].op = "join" => \E n \in Nums : vid'[n] = Work'[i].vid
             /\ Work'[i].op = "add" => vid'[Work'[i].num] # 0
  <2>1. CASE i \in DOMAIN more
    BY <1>3, <1>7, <2>1 DEF Joining, SettingOps
  <2> QED
    BY <1>7, <2>1
<1>10. ASSUME NEW i \in DOMAIN Work', NEW j \in DOMAIN Work', i < j, Work'[i].op = "join" PROVE Work'[j].op = "join"
  <2>1. i \notin DOMAIN more
    BY <1>7, <1>10 DEF Joining, SettingOps
  <2>2. PICK k \in DOMAIN Work : k > 1 /\ i = Later(k, more)
    BY <1>4, <2>1
  <2>3. j \in DOMAIN more => j < i
    BY <1>4, <2>2
  <2>4. j \notin DOMAIN more
    BY <1>4, <1>10, <2>3
  <2> QED
    BY <1>7, <2>4
<1>11. ASSUME NEW i \in DOMAIN Work', Work'[i].op = "quit"
       PROVE  /\ vid'[Work'[i].num] # 0
              /\ \/ Work'[i].port \in member'[Work'[i].num]
                 \/ \E j \in DOMAIN Work' : j < i /\ Adds(Work'[j], Work'[i].port, Work'[i].num)
              /\ \A j \in DOMAIN Work' : j > i => Work'[j].op \in {"tag", "join"}
  <2>1. i \in DOMAIN more /\ Work'[i] = more[i]
    BY <1>7, <1>11
  <2>2. vid'[Work'[i].num] # 0
    BY <1>3, <1>11, <2>1
  <2>3. PICK j \in DOMAIN more : j < i /\ Adds(more[j], more[i].port, more[i].num)
    BY <1>11, <2>1 DEF Joining
  <2>4. j \in DOMAIN Work' /\ Work'[j] = more[j]
    BY <1>4
  <2>5. \A k \in DOMAIN Work' : k > i => Work'[k].op \in {"tag", "join"}
    BY <1>7, <1>11, <2>1 DEF Joining
  <2> QED
    BY <2>1, <2>2, <2>3, <2>4, <2>5
<1>12. errors' = 0 => Tidy'
  BY <1>5 DEF Joins, Tidy
<1>13. ASSUME NEW n \in Nums, NEW p \in Ports, vid'[n] = 0, p \in member'[n] PROVE p \in member'[0]
  <2>1. p \in member[0] \/ QuitsLater(p, n)
    BY <1>5, <1>13 DEF Joins
  <2>2. 2 \in DOMAIN Work => Work[2].op = "join"
    BY <1>6
  <2>3. ~QuitsLater(p, n)
    BY <2>2 DEF QuitsLater
  <2> QED
    BY <2>1, <2>3
<1>14. Joins'
  BY <1>9, <1>10, <1>11, <1>12, <1>13 DEF Joins, SettingOps
<1> QED
  BY <1>3, <1>8, <1>14 DEF TableInv

LEMMA JoinStep ==
  ASSUME OneSession, Inv, Join(Cli)
  PROVE  Inv'
<1> DEFINE x == Work[1]
           p == x.port
           n == VlanNumFromVID(x.vid)
           quit == [op |-> "quit", port |-> p, num |-> n, from |-> 0]
           more == IF x.tagged THEN <<Insert(p, TRUE), AddPort(p, n), OutTag(p, 3)>>
                   ELSE (IF p = MgtPort THEN <<>> ELSE <<Insert(p, FALSE), PVID(p, x.vid)>>)
                          \o <<AddPort(p, n), quit, OutTag(p, 0)>>
<1>1. TypeInv
  BY DEF Inv
<1>2. /\ Work # <<>> /\ x.op = "join" /\ Head(todo[Cli]) = x /\ Typed(x) /\ 1 \in DOMAIN Work
  BY <1>1, HeadIsFirst DEF Join
<1>3. x.port \in Ports /\ x.vid \in Vids /\ n \in Nums
  BY <1>2, NumFromVID DEF Typed
<1>4. Goon(Cli, more)
  BY <1>2 DEF Join
<1>5. UNCHANGED <<vid, member, vlanVid, vlanPort, scan, overtaken, errors, lost>>
  BY DEF Join, regVars, devVars, countVars
<1>6. Safe /\ TableInv => vid[n] # 0
  <2> SUFFICES ASSUME Safe, TableInv PROVE vid[n] # 0
    OBVIOUS
  <2>1. Joins
    BY <1>2 DEF TableInv, SetUp, Parting, PartsFrom, SettingOps
  <2>2. \E m \in Nums : vid[m] = x.vid
    BY <1>2, <2>1 DEF Joins
  <2>3. \A m : ~Storing("store_vid", m)
    BY <1>2 DEF Storing
  <2>4. vid[n] = x.vid
    BY <1>3, <2>2, <2>3, FindsVID DEF Inv, TableInv
  <2> QED
    BY <1>3, <2>4, Constants
<1> DEFINE a == AddPort(p, n)
<1>7. /\ a.op = "add" /\ a.port = p /\ a.num = n /\ Typed(a)
      /\ quit.op = "quit" /\ quit.port = p /\ quit.num = n /\ Typed(quit)
  BY <1>3 DEF AddPort, Typed, OfVID, OfMembers
<1>8. /\ \A on : Insert(p, on).op = "insert" /\ Typed(Insert(p, on))
      /\ \A t : OutTag(p, t).op = "tag" /\ Typed(OutTag(p, t))
      /\ \A v : PVID(p, v).op = "pvid" /\ Typed(PVID(p, v))
  BY DEF Insert, OutTag, PVID, Typed, OfVID, OfMembers
<1>9. Adds(a, p, n)
  BY <1>7 DEF Adds
<1> DEFINE i0 == Insert(p, TRUE)
           i1 == Insert(p, FALSE)
           v1 == PVID(p, x.vid)
           t0 == OutTag(p, 0)
           t3 == OutTag(p, 3)
<1>10. \/ more = <<i0, a, t3>>
       \/ more = <<a, quit, t0>>
       \/ more = <<i1, v1, a, quit, t0>>
  <2> HIDE DEF x, p, n, quit, a, i0, i1, v1, t0, t3
  <2>1. <<>> \o <<a, quit, t0>> = <<a, quit, t0>> /\ <<i1, v1>> \o <<a, quit, t0>> = <<i1, v1, a, quit, t0>>
    BY Tuples
  <2>2. more = IF x.tagged THEN <<i0, a, t3>>
               ELSE (IF p = MgtPort THEN <<>> ELSE <<i1, v1>>) \o <<a, quit, t0>>
    BY DEF i0, i1, v1, t0, t3, a
  <2> HIDE DEF more
  <2> QED
    BY <2>1, <2>2
<1>11. /\ i0.op = "insert" /\ i1.op = "insert" /\ v1.op = "pvid" /\ t0.op = "tag" /\ t3.op = "tag"
       /\ Typed(i0) /\ Typed(i1) /\ Typed(v1) /\ Typed(t0) /\ Typed(t3)
  BY <1>8
<1> HIDE DEF x, p, n, quit, a, i0, i1, v1, t0, t3, more
<1>12. IsSeq(more) /\ Joining(more) /\ (\A i \in DOMAIN more : more[i].op \in {"add", "quit"} => more[i].num = n)
  <2>1. CASE more = <<i0, a, t3>>
    <3>1. more \in Seq({i0, a, t3}) /\ DOMAIN more = 1 .. 3 /\ more[1] = i0 /\ more[2] = a /\ more[3] = t3
      BY <2>1
    <3>2. \A i \in DOMAIN more : i = 1 \/ i = 2 \/ i = 3
      BY <3>1
    <3> QED
      BY <1>7, <1>11, <3>1, <3>2 DEF IsSeq, Joining, SettingOps
  <2>2. CASE more = <<a, quit, t0>>
    <3>1. more \in Seq({a, quit, t0}) /\ DOMAIN more = 1 .. 3 /\ more[1] = a /\ more[2] = quit /\ more[3] = t0
      BY <2>2
    <3>2. \A i \in DOMAIN more : i = 1 \/ i = 2 \/ i = 3
      BY <3>1
    <3>3. 1 \in DOMAIN more /\ 1 < 2 /\ \A i \in DOMAIN more : i > 2 => i = 3
      BY <3>1
    <3> QED
      BY <1>7, <1>9, <1>11, <3>1, <3>2, <3>3 DEF IsSeq, Joining, SettingOps
  <2>3. CASE more = <<i1, v1, a, quit, t0>>
    <3>1. /\ more \in Seq({i1, v1, a, quit, t0}) /\ DOMAIN more = 1 .. 5
          /\ more[1] = i1 /\ more[2] = v1 /\ more[3] = a /\ more[4] = quit /\ more[5] = t0
      BY <2>3
    <3>2. \A i \in DOMAIN more : i = 1 \/ i = 2 \/ i = 3 \/ i = 4 \/ i = 5
      BY <3>1
    <3>3. 3 \in DOMAIN more /\ 3 < 4 /\ \A i \in DOMAIN more : i > 4 => i = 5
      BY <3>1
    <3> QED
      BY <1>7, <1>9, <1>11, <3>1, <3>2, <3>3 DEF IsSeq, Joining, SettingOps
  <2> QED
    BY <1>10, <2>1, <2>2, <2>3
<1>13. Work[1].op = "join"
  BY <1>2 DEF x
<1> QED
  BY <1>2, <1>4, <1>5, <1>6, <1>12, <1>13, JoinExpands
-----------------------------------------------------------------------------
\* An untagged port quits the entries other than the one it joined, in their order.
LEMMA QuitStep ==
  ASSUME OneSession, Inv, Quit(Cli)
  PROVE  Inv'
<1> DEFINE x == Work[1]
           others == {n \in Nums : n >= x.from /\ n # x.num /\ x.port \in vlanPort[n]}
           next == Min(others)
           d == DeletePort(x.port, next)
           q == [x EXCEPT !.from = next + 1]
           more == IF others = {} THEN <<>> ELSE <<d, q>>
<1>1. TypeInv /\ DefaultInv
  BY DEF Inv
<1>2. /\ Work # <<>> /\ x.op = "quit" /\ Head(todo[Cli]) = x /\ Typed(x) /\ 1 \in DOMAIN Work
  BY <1>1, HeadIsFirst DEF Quit
<1>3. x \in [op : {"quit"}, port : Ports, num : Nums, from : Nat]
  BY <1>2 DEF Typed
<1>4. Goon(Cli, more)
  BY <1>2 DEF Quit
<1>5. UNCHANGED <<vid, member, vlanVid, vlanPort, scan, overtaken, errors, lost>>
  BY DEF Quit, regVars, devVars, countVars
<1>6. others # {} => next \in others /\ \A n \in others : next <= n
  <2>1. others \subseteq Nat
    BY Constants
  <2> QED
    BY <2>1, MinIsLeast
<1>7. others # {} => next \in Nums /\ next \in Nat /\ next # x.num
  <2>1. Nums \subseteq Nat
    BY Constants
  <2>2. \A n \in others : n \in Nums /\ n # x.num
    OBVIOUS
  <2> QED
    BY <1>6, <2>1, <2>2
<1>8. others # {} => /\ d.op = "delete" /\ d.port = x.port /\ d.num = next
                     /\ q.op = "quit" /\ q.port = x.port /\ q.num = x.num /\ q.from = next + 1
                     /\ d \in [op : {"add", "delete"}, port : Ports, num : Nums]
                     /\ q \in [op : {"quit"}, port : Ports, num : Nums, from : Nat]
  BY <1>3, <1>7 DEF DeletePort
<1>9. others # {} => Typed(d) /\ Typed(q)
  BY <1>8 DEF Typed, OfVID, OfMembers
<1>10. /\ others = {} => more = <<>>
       /\ others # {} => more = <<d, q>>
  OBVIOUS
<1>11. Work[1] = x
  OBVIOUS
<1>12. \A n \in Nums : n \in others <=> n >= x.from /\ n # x.num /\ x.port \in vlanPort[n]
  OBVIOUS
<1> HIDE DEF x, others, next, d, q, more
<1>13. IsSeq(more) /\ DOMAIN more = (IF others = {} THEN {} ELSE {1, 2})
       /\ (others # {} => more[1] = d /\ more[2] = q)
  <2>1. CASE others = {}
    BY <1>10, <2>1, EmptyIsSeq
  <2>2. CASE others # {}
    <3>1. more \in Seq({d, q}) /\ DOMAIN more = 1 .. 2 /\ more[1] = d /\ more[2] = q
      <4>1. more = <<d, q>>
        BY <1>10, <2>2
      <4> QED
        BY <4>1
    <3>2. 1 .. 2 = {1, 2}
      OBVIOUS
    <3> QED
      BY <2>2, <3>1, <3>2 DEF IsSeq
  <2> QED
    BY <2>1, <2>2
<1>14. \A i \in DOMAIN more : Typed(more[i]) /\ more[i].op \notin {"turn", "store_vid", "store_members"}
  BY <1>8, <1>9, <1>13
<1>15. /\ TypeInv' /\ DefaultInv'
       /\ Safe' => Safe /\ TableInv /\ CopyInv' /\ ScanInv' /\ Keeps'
  BY <1>2, <1>4, <1>5, <1>11, <1>13, <1>14, Expands
<1> SUFFICES ASSUME Safe' PROVE TableInv'
  BY <1>15 DEF Inv
<1>16. /\ DOMAIN Work \subseteq Nat \ {0} /\ DOMAIN Work' \subseteq Nat \ {0} /\ 1 \in DOMAIN Work
       /\ \A i \in DOMAIN more : i \in DOMAIN Work' /\ Work'[i] = more[i]
       /\ \A k \in DOMAIN Work : k > 1 =>
            /\ Later(k, more) \in DOMAIN Work' /\ Work'[Later(k, more)] = Work[k]
            /\ Later(k, more) \notin DOMAIN more
       /\ \A i \in DOMAIN Work' : i \in DOMAIN more \/ \E k \in DOMAIN Work : k > 1 /\ i = Later(k, more)
       /\ \A i \in DOMAIN more : \A k \in DOMAIN Work : k > 1 => i < Later(k, more)
       /\ \A j, k \in DOMAIN Work : j < k <=> Later(j, more) < Later(k, more)
  BY <1>1, <1>2, <1>4, <1>13, Positions
<1>17. Joins
  BY <1>2, <1>11, <1>15 DEF TableInv, SetUp, Parting, PartsFrom, SettingOps
<1>18. /\ vid[x.num] # 0 /\ x.port \in member[x.num]
       /\ \A k \in DOMAIN Work : k > 1 => Work[k].op \in {"tag", "join"}
  <2>1. /\ vid[x.num] # 0
        /\ x.port \in member[x.num] \/ \E j \in DOMAIN Work : j < 1 /\ Adds(Work[j], x.port, x.num)
        /\ \A k \in DOMAIN Work : k > 1 => Work[k].op \in {"tag", "join"}
    BY <1>2, <1>11, <1>17 DEF Joins
  <2>2. \A j \in DOMAIN Work : ~(j < 1)
    BY <1>16
  <2> QED
    BY <2>1, <2>2
<1>19. \A k \in DOMAIN Work : Work[k].op = "join" => \E n \in Nums : vid[n] = Work[k].vid
  BY <1>17 DEF Joins
<1>20. ASSUME NEW i \in DOMAIN Work', i \notin DOMAIN more
       PROVE  /\ Work'[i].op \in {"tag", "join"}
              /\ Work'[i].op = "join" => \E n \in Nums : vid[n] = Work'[i].vid
  <2>1. PICK k \in DOMAIN Work : k > 1 /\ i = Later(k, more)
    BY <1>16, <1>20
  <2>2. Work'[i] = Work[k]
    BY <1>16, <2>1
  <2> QED
    BY <1>18, <1>19, <2>1, <2>2
<1>21. \A i \in DOMAIN more : Work'[i] = more[i] /\ more[i].op = IF i = 1 THEN "delete" ELSE "quit"
  BY <1>8, <1>13, <1>16
<1>22. GivesBack'
  BY <1>20, <1>21 DEF GivesBack
<1>23. ASSUME NEW i \in DOMAIN Work'
       PROVE  /\ Work'[i].op \in SettingOps \union {"join", "add", "quit", "members", "store_members", "delete"}
              /\ Work'[i].op = "join" => \E n \in Nums : vid'[n] = Work'[i].vid
              /\ Work'[i].op # "add"
              /\ Work'[i].op \in {"members", "delete"} => i = 1
              /\ Work'[i].op = "quit" => others # {} /\ i = 2
  BY <1>5, <1>13, <1>20, <1>21 DEF SettingOps
<1>24. ASSUME NEW i \in DOMAIN Work', NEW j \in DOMAIN Work', i < j, Work'[i].op = "join" PROVE Work'[j].op = "join"
  <2>1. i \notin DOMAIN more
    BY <1>21, <1>24
  <2>2. PICK k \in DOMAIN Work : k > 1 /\ i = Later(k, more)
    BY <1>16, <2>1
  <2>3. j \in DOMAIN more => j < i
    BY <1>16, <2>2
  <2>4. j \notin DOMAIN more
    BY <1>16, <1>24, <2>3
  <2>5. PICK m \in DOMAIN Work : m > 1 /\ j = Later(m, more)
    BY <1>16, <2>4
  <2>6. k < m /\ Work'[i] = Work[k] /\ Work'[j] = Work[m]
    BY <1>16, <1>24, <2>2, <2>5
  <2> QED
    BY <1>17, <1>24, <2>6 DEF Joins
<1>25. ASSUME NEW i \in DOMAIN Work', Work'[i].op = "quit"
       PROVE  /\ vid'[Work'[i].num] # 0
              /\ Work'[i].port \in member'[Work'[i].num]
              /\ \A j \in DOMAIN Work' : j > i => Work'[j].op \in {"tag", "join"}
  <2>1. others # {} /\ i = 2 /\ Work'[i] = q
    BY <1>13, <1>16, <1>23, <1>25
  <2>2. \A j \in DOMAIN Work' : j > 2 => j \notin DOMAIN more
    BY <1>13
  <2> QED
    BY <1>5, <1>8, <1>18, <1>20, <2>1, <2>2
<1>26. Work'[1].op # "members" \/ 1 \notin DOMAIN Work'
  BY <1>13, <1>20, <1>21
<1>27. 1 \in DOMAIN Work' /\ Work'[1].op = "delete" => QuitsNext(Work[1].num)' /\ Work'[2].port = Work'[1].port
  <2> SUFFICES ASSUME 1 \in DOMAIN Work', Work'[1].op = "delete"
               PROVE  QuitsNext(Work[1].num)' /\ Work'[2].port = Work'[1].port
    OBVIOUS
  <2>1. others # {} /\ Work'[1] = d /\ Work'[2] = q /\ 2 \in DOMAIN Work'
    BY <1>13, <1>16, <1>20
  <2>2. Work'[1].num = next /\ Work'[2].num # next /\ Work'[2].op = "quit" /\ Work'[2].from = next + 1
    BY <1>7, <1>8, <2>1
  <2> QED
    BY <1>8, <2>1, <2>2 DEF QuitsNext
<1>28. errors' = 0 => Tidy'
  BY <1>5, <1>17 DEF Joins, Tidy
<1>29. ASSUME NEW n \in Nums, NEW p \in Ports, vid'[n] = 0, p \in member'[n] PROVE p \in member'[0] \/ QuitsLater(p, n)'
  <2>1. p \in member[0] \/ QuitsLater(p, n)
    BY <1>5, <1>17, <1>29 DEF Joins
  <2>2. ASSUME QuitsLater(p, n) PROVE QuitsLater(p, n)'
    <3>1. 2 \in DOMAIN Work => Work[2].op # "quit"
      BY <1>18
    <3>2. x.port = p /\ x.from <= n
      BY <1>2, <1>11, <2>2, <3>1 DEF QuitsLater
    <3>3. n # 0 /\ n # x.num
      BY <1>1, <1>5, <1>18, <1>29 DEF DefaultInv
    <3>4. vlanPort[n] = member[n]
      <4>1. \A m : ~Storing("store_members", m)
        BY <1>2, <1>11 DEF Storing
      <4> QED
        BY <1>15, <3>3, <4>1, SameMembers DEF TableInv
    <3>5. n \in others
      <4>1. n >= x.from
        BY <1>3, <3>2, Constants
      <4> QED
        BY <1>5, <1>12, <1>29, <3>2, <3>3, <3>4, <4>1
    <3>6. next <= n /\ next \in Nat /\ n \in Nat
      BY <1>6, <1>7, <3>5, Constants
    <3>7. Work'[1] = d /\ Work'[2] = q /\ 1 \in DOMAIN Work' /\ 2 \in DOMAIN Work'
      BY <1>13, <1>16, <3>5
    <3>8. CASE n = next
      BY <1>8, <3>2, <3>5, <3>7, <3>8 DEF QuitsLater
    <3>9. CASE n # next
      <4>1. next + 1 <= n
        BY <3>6, <3>9
      <4>2. Work'[2].op = "quit" /\ Work'[2].port = p /\ Work'[2].from <= n
        BY <1>8, <3>2, <3>5, <3>7, <4>1
      <4> QED
        BY <3>7, <4>2 DEF QuitsLater
    <3> QED
      BY <3>8, <3>9
  <2> QED
    BY <1>5, <2>1, <2>2
<1>30. Joins'
  BY <1>23, <1>24, <1>25, <1>26, <1>27, <1>28, <1>29 DEF Joins
<1> QED
  BY <1>15, <1>22, <1>30 DEF TableInv
-----------------------------------------------------------------------------
\* A port parts from entry n, step by step; it is in another VLAN, or joins the
\* default one, before it is taken out.
Leaving(more, n) ==
  /\ \A i \in DOMAIN more :
       /\ more[i].op \in {"leave", "leave_tagged"} => i = 1 /\ more[i].port \in member[n]
       /\ more[i].op = "leave_tagged" => more[i].in > 0 /\ (more[i].in > 1 => Other(more[i].port, n))
       /\ more[i].op \in {"leave", "delete"} => more[i].num = n
       /\ more[i].op = "add" => more[i].num = 0
       /\ more[i].op = "delete" =>
            Other(more[i].port, n) \/ \E j \in DOMAIN more : j < i /\ Saves(more[j], more[i].port)
  /\ Work[1].port \in member[n] =>
       Other(Work[1].port, n) \/ \E j \in DOMAIN more : Saves(more[j], Work[1].port)

LEMMA PartExpands ==
  ASSUME OneSession, Inv, Work # <<>>, Work[1].op \in {"part", "leave", "leave_tagged"},
         NEW more, IsSeq(more), Goon(Cli, more),
         \A i \in DOMAIN more :
           Typed(more[i]) /\ more[i].op \in SettingOps \union {"leave", "leave_tagged", "add", "delete"},
         \A n \in Nums \ {0} : Safe /\ TableInv /\ PartsFrom(n) => Leaving(more, n),
         UNCHANGED <<vid, member, vlanVid, vlanPort, scan, overtaken, errors, lost>>
  PROVE  Inv'
<1>1. TypeInv /\ DefaultInv
  BY DEF Inv
<1>2. \A i \in DOMAIN more : Typed(more[i]) /\ more[i].op \notin {"turn", "store_vid", "store_members"}
  BY DEF SettingOps
<1>3. /\ TypeInv' /\ DefaultInv'
      /\ Safe' => /\ Safe /\ TableInv /\ CopyInv' /\ ScanInv' /\ Keeps'
                  /\ \A i \in DOMAIN Work' : i \notin DOMAIN more /\ Work'[i].op = "vid" /\ Work'[i].vid = 0 =>
                       member'[Work'[i].num] = {} \/ TakesBoth(Work', i)
  BY <1>2, Expands
<1> SUFFICES ASSUME Safe' PROVE TableInv'
  BY <1>3 DEF Inv
<1>4. /\ DOMAIN Work \subseteq Nat \ {0} /\ DOMAIN Work' \subseteq Nat \ {0} /\ 1 \in DOMAIN Work
      /\ \A i \in DOMAIN more : i \in DOMAIN Work' /\ Work'[i] = more[i]
      /\ \A k \in DOMAIN Work : k > 1 =>
           /\ Later(k, more) \in DOMAIN Work' /\ Work'[Later(k, more)] = Work[k]
           /\ Later(k, more) \notin DOMAIN more
      /\ \A i \in DOMAIN Work' : i \in DOMAIN more \/ \E k \in DOMAIN Work : k > 1 /\ i = Later(k, more)
      /\ \A i \in DOMAIN more : \A k \in DOMAIN Work : k > 1 => i < Later(k, more)
      /\ \A j, k \in DOMAIN Work : j < k <=> Later(j, more) < Later(k, more)
      /\ \A k \in DOMAIN Work : Later(k + 1, more) = Later(k, more) + 1
  BY <1>1, Positions
<1>5. PICK n \in Nums \ {0} : PartsFrom(n)
  BY <1>3, <1>4 DEF TableInv, SetUp, Joins, Parting, SettingOps
<1>6. Leaving(more, n)
  BY <1>3, <1>5
<1>7. GivesBack'
  <2> SUFFICES ASSUME NEW i \in DOMAIN Work', Work'[i].op = "vid", Work'[i].vid = 0
               PROVE  member'[Work'[i].num] = {} \/ TakesBoth(Work', i)
    BY DEF GivesBack
  <2>1. i \notin DOMAIN more
    BY <1>4 DEF SettingOps
  <2> QED
    BY <1>3, <2>1
<1>8. ASSUME NEW k \in DOMAIN Work, k > 1
      PROVE  /\ k # 1
             /\ Work[k].op \in SettingOps \union {"part", "leave", "leave_tagged", "add", "delete",
                                                  "members", "store_members", "vid", "store_vid"}
             /\ Work[k].op \notin {"leave", "leave_tagged"}
             /\ Work[k].op \in {"part", "leave", "delete", "vid"} => Work[k].num = n
             /\ Work[k].op = "vid" => k + 1 \notin DOMAIN Work
             /\ Work[k].op = "add" => Work[k].num = 0
             /\ Work[k].op = "members" => Work[k].num = n /\ Work[k].ports = {}
  <2>1. k # 1
    BY <1>4, <1>8
  <2> QED
    BY <1>5, <2>1 DEF PartsFrom
<1>9. ASSUME NEW i \in DOMAIN Work', Work'[i].op = "vid", i + 1 \in DOMAIN Work' PROVE FALSE
  <2>1. i \notin DOMAIN more
    BY <1>4, <1>9 DEF SettingOps
  <2>2. PICK k \in DOMAIN Work : k > 1 /\ i = Later(k, more)
    BY <1>4, <2>1
  <2>3. Work[k].op = "vid" /\ k + 1 \notin DOMAIN Work
    BY <1>4, <1>8, <1>9, <2>2
  <2>4. i + 1 = Later(k + 1, more)
    BY <1>4, <2>2
  <2>5. i + 1 \notin DOMAIN more
    <3>1. i + 1 \in DOMAIN more => i + 1 < i
      BY <1>4, <2>2
    <3>2. i \in Nat
      BY <1>4
    <3> QED
      BY <3>1, <3>2
  <2>6. PICK m \in DOMAIN Work : m > 1 /\ i + 1 = Later(m, more)
    BY <1>4, <1>9, <2>5
  <2>7. Len(more) \in Nat
    BY ConcatSeq, EmptyIsSeq
  <2>8. m = k + 1
    <3>1. m \in Nat /\ k \in Nat /\ Len(more) + m - 1 = Len(more) + (k + 1) - 1
      BY <1>4, <2>4, <2>6 DEF Later
    <3> QED
      BY <2>7, <3>1
  <2> QED
    BY <2>3, <2>6, <2>8
<1>10. ASSUME NEW i \in DOMAIN Work'
       PROVE  /\ Work'[i].op \in SettingOps \union {"part", "leave", "leave_tagged", "add", "delete",
                                                    "members", "store_members", "vid", "store_vid"}
              /\ Work'[i].op \in {"leave", "leave_tagged"} => i = 1 /\ Work'[i].port \in member'[n]
              /\ Work'[i].op = "leave_tagged" => Work'[i].in > 0 /\ (Work'[i].in > 1 => Other(Work'[i].port, n))
              /\ Work'[i].op \in {"part", "leave", "delete", "vid"} => Work'[i].num = n
              /\ Work'[i].op = "add" => Work'[i].num = 0
              /\ Work'[i].op = "members" => Work'[i].num = n /\ Work'[i].ports = {}
  <2>1. CASE i \in DOMAIN more
    <3>1. Work'[i] = more[i] /\ more[i].op \in SettingOps \union {"leave", "leave_tagged", "add", "delete"}
      BY <1>4, <2>1
    <3> QED
      BY <1>6, <2>1, <3>1 DEF Leaving, SettingOps
  <2>2. CASE i \notin DOMAIN more
    <3>1. PICK k \in DOMAIN Work : k > 1 /\ i = Later(k, more)
      BY <1>4, <2>2
    <3>2. Work'[i] = Work[k]
      BY <1>4, <3>1
    <3> QED
      BY <1>8, <3>1, <3>2
  <2> QED
    BY <2>1, <2>2
<1>11. \A p : Other(p, n) <=> Other(p, n)'
  BY DEF Other
<1>12. ASSUME NEW i \in DOMAIN Work', NEW p \in member'[n], Takes(Work'[i], p, n)
       PROVE  Other(p, n)' \/ \E j \in DOMAIN Work' : j < i /\ Saves(Work'[j], p)
  <2>1. CASE i \in DOMAIN more
    <3>1. Work'[i] = more[i] /\ more[i].op \in SettingOps \union {"leave", "leave_tagged", "add", "delete"}
      BY <1>4, <2>1
    <3>2. more[i].op = "delete" /\ more[i].port = p
      BY <1>12, <3>1 DEF Takes, SettingOps
    <3>3. Other(p, n) \/ \E j \in DOMAIN more : j < i /\ Saves(more[j], p)
      BY <1>6, <2>1, <3>2 DEF Leaving
    <3> QED
      BY <1>4, <1>11, <3>3
  <2>2. CASE i \notin DOMAIN more
    <3>1. PICK k \in DOMAIN Work : k > 1 /\ i = Later(k, more)
      BY <1>4, <2>2
    <3>2. Work'[i] = Work[k] /\ p \in member[n]
      BY <1>4, <3>1
    <3>3. Other(p, n) \/ \E j \in DOMAIN Work : j < k /\ Saves(Work[j], p)
      BY <1>5, <1>12, <3>2 DEF PartsFrom
    <3>4. ASSUME NEW j \in DOMAIN Work, j < k, Saves(Work[j], p)
          PROVE  Other(p, n) \/ \E m \in DOMAIN Work' : m < i /\ Saves(Work'[m], p)
      <4>1. CASE j = 1
        <5>1. Work[1].port = p
          BY <3>4, <4>1 DEF Saves
        <5>2. Other(p, n) \/ \E m \in DOMAIN more : Saves(more[m], p)
          BY <1>6, <3>2, <5>1 DEF Leaving
        <5> QED
          BY <1>4, <3>1, <5>2
      <4>2. CASE j # 1
        <5>1. j > 1
          BY <1>4, <4>2
        <5>2. Later(j, more) \in DOMAIN Work' /\ Work'[Later(j, more)] = Work[j] /\ Later(j, more) < i
          BY <1>4, <3>1, <3>4, <5>1
        <5> QED
          BY <3>4, <5>2
      <4> QED
        BY <4>1, <4>2
    <3> QED
      BY <1>11, <3>3, <3>4
  <2> QED
    BY <2>1, <2>2
<1>13. (errors' = 0 => Tidy') /\ Leftovers'
  BY <1>5 DEF PartsFrom, Tidy, Leftovers
<1>14. PartsFrom(n)'
  <2>1. \A i \in DOMAIN Work' : Work'[i].op = "members" => Work'[i].num = n /\ Work'[i].ports = {} /\ Work'[i].ports \subseteq member'[n]
    BY <1>10
  <2> QED
    BY <1>9, <1>10, <1>11, <1>12, <1>13, <2>1 DEF PartsFrom
<1> QED
  BY <1>3, <1>7, <1>14 DEF TableInv, Parting
-----------------------------------------------------------------------------
LEMMA PartStep ==
  ASSUME OneSession, Inv, Part(Cli)
  PROVE  Inv'
<1> DEFINE x == Work[1]
           l == [x EXCEPT !.op = "leave"]
           d == DeletePort(x.port, x.num)
<1>1. TypeInv
  BY DEF Inv
<1>2. /\ Work # <<>> /\ x.op = "part" /\ Head(todo[Cli]) = x /\ Typed(x) /\ 1 \in DOMAIN Work
  BY <1>1, HeadIsFirst DEF Part
<1>3. x \in [op : {"part", "leave"}, port : Ports, vid : Vids, num : Nums, whole : BOOLEAN]
  BY <1>2 DEF Typed
<1>4. /\ l.op = "leave" /\ l.port = x.port /\ l.num = x.num
      /\ l \in [op : {"part", "leave"}, port : Ports, vid : Vids, num : Nums, whole : BOOLEAN]
      /\ d.op = "delete" /\ d.port = x.port /\ d.num = x.num
      /\ d \in [op : {"add", "delete"}, port : Ports, num : Nums]
  BY <1>3 DEF DeletePort
<1>5. Typed(l) /\ Typed(d)
  BY <1>4 DEF Typed, OfVID, OfMembers
<1>6. UNCHANGED <<vid, member, vlanVid, vlanPort, scan, overtaken, errors, lost>>
  BY DEF Part, regVars, devVars, countVars
<1>7. \/ x.port \in vlanPort[x.num] /\ (Goon(Cli, <<l>>) \/ Goon(Cli, <<l, d>>))
      \/ x.port \notin vlanPort[x.num] /\ Goon(Cli, <<>>)
      \/ todo' = [todo EXCEPT ![Cli] = <<>>]
  BY <1>2 DEF Part
<1>8. ASSUME NEW n \in Nums \ {0}, Safe, TableInv, PartsFrom(n)
      PROVE  x.num = n /\ vlanPort[x.num] = member[n]
  <2>1. x.num = n
    BY <1>2, <1>8 DEF PartsFrom
  <2>2. \A m : ~Storing("store_members", m)
    BY <1>2 DEF Storing
  <2> QED
    BY <1>8, <2>1, <2>2, SameMembers DEF TableInv
<1>9. Work[1] = x
  OBVIOUS
<1> HIDE DEF x, l, d
<1>10. ASSUME x.port \in vlanPort[x.num], NEW more, more = <<l>> \/ more = <<l, d>>, Goon(Cli, more)
       PROVE  Inv'
  <2>1. /\ IsSeq(more) /\ 1 \in DOMAIN more /\ more[1] = l
        /\ \A i \in DOMAIN more : i = 1 \/ (i = 2 /\ more[i] = d)
    <3>1. CASE more = <<l>>
      <4>1. more \in Seq({l}) /\ DOMAIN more = 1 .. 1 /\ more[1] = l
        BY <3>1
      <4> QED
        BY <4>1 DEF IsSeq
    <3>2. CASE more = <<l, d>>
      <4>1. more \in Seq({l, d}) /\ DOMAIN more = 1 .. 2 /\ more[1] = l /\ more[2] = d
        BY <3>2
      <4> QED
        BY <4>1 DEF IsSeq
    <3> QED
      BY <1>10, <3>1, <3>2
  <2>2. ASSUME NEW n \in Nums \ {0}, Safe, TableInv, PartsFrom(n) PROVE Leaving(more, n)
    <3>1. x.num = n /\ x.port \in member[n]
      BY <1>8, <1>10, <2>2
    <3>2. Saves(l, x.port)
      BY <1>4 DEF Saves
    <3>3. 1 < 2
      OBVIOUS
    <3> QED
      BY <1>4, <1>9, <2>1, <3>1, <3>2, <3>3 DEF Leaving
  <2>3. \A i \in DOMAIN more :
          Typed(more[i]) /\ more[i].op \in SettingOps \union {"leave", "leave_tagged", "add", "delete"}
    BY <1>4, <1>5, <2>1
  <2> QED
    BY <1>2, <1>6, <1>9, <1>10, <2>1, <2>2, <2>3, PartExpands
<1>11. ASSUME x.port \notin vlanPort[x.num], Goon(Cli, <<>>) PROVE Inv'
  <2> DEFINE more == <<>>
  <2>1. IsSeq(more) /\ DOMAIN more = {} /\ Goon(Cli, more)
    BY <1>11, EmptyIsSeq
  <2> HIDE DEF more
  <2>2. ASSUME NEW n \in Nums \ {0}, Safe, TableInv, PartsFrom(n) PROVE Leaving(more, n)
    BY <1>8, <1>9, <1>11, <2>1, <2>2 DEF Leaving
  <2> QED
    BY <1>2, <1>6, <1>9, <2>1, <2>2, PartExpands
<1>12. ASSUME todo' = [todo EXCEPT ![Cli] = <<>>] PROVE Inv'
  BY <1>2, <1>6, <1>9, <1>12, EndStep
<1> QED
  BY <1>7, <1>10, <1>11, <1>12

\* The entries a port is in, by the copy.
LEMMA CountsEntries ==
  ASSUME NEW p
  PROVE  LET S == {n \in Nums : p \in vlanPort[n]}
         IN  /\ Cardinality(S) \in Nat
             /\ \A n \in S : Cardinality(S) > 0 /\ (Cardinality(S) > 1 => \E m \in S : m # n)
<1> DEFINE S == {n \in Nums : p \in vlanPort[n]}
<1>1. IsFiniteSet(Nums)
  <2>1. 0 \in Int /\ MAX_RCP_VLAN_NUM - 1 \in Int
    BY Constants
  <2> QED
    BY <2>1, FS_Interval DEF Nums
<1>2. IsFiniteSet(S)
  BY <1>1, FS_Subset
<1> HIDE DEF S
<1>3. Cardinality(S) \in Nat
  BY <1>2, FS_CardinalityType
<1>4. ASSUME NEW n \in S PROVE Cardinality(S) > 0 /\ (Cardinality(S) > 1 => \E m \in S : m # n)
  <2>1. Cardinality(S) # 0
    BY <1>2, FS_EmptySet
  <2>2. (\A m \in S : m = n) => Cardinality(S) = 1
    BY OneElement
  <2> QED
    BY <1>3, <2>1, <2>2
<1> QED
  BY <1>3, <1>4 DEF S

LEMMA LeaveStep ==
  ASSUME OneSession, Inv, Leave(Cli)
  PROVE  Inv'
<1> DEFINE x == Work[1]
           p == x.port
           S == {n \in Nums : p \in vlanPort[n]}
           v == PVID(p, 1)
           t == OutTag(p, 0)
           a == AddPort(p, 0)
           l == [op |-> "leave_tagged", port |-> p, vid |-> x.vid, in |-> Cardinality(S)]
<1>1. TypeInv
  BY DEF Inv
<1>2. /\ Work # <<>> /\ x.op = "leave" /\ Head(todo[Cli]) = x /\ Typed(x) /\ 1 \in DOMAIN Work
  BY <1>1, HeadIsFirst DEF Leave
<1>3. x.port \in Ports /\ x.vid \in Vids
  BY <1>2 DEF Typed
<1>4. UNCHANGED <<vid, member, vlanVid, vlanPort, scan, overtaken, errors, lost>>
  BY DEF Leave, regVars, devVars, countVars
<1>5. \/ Goon(Cli, <<v>> \o (IF x.whole THEN <<>> ELSE <<t>>) \o <<a>>)
      \/ Goon(Cli, <<l>>)
  BY <1>2 DEF Leave
<1>6. /\ v.op = "pvid" /\ t.op = "tag" /\ a.op = "add" /\ a.port = p /\ a.num = 0
      /\ l.op = "leave_tagged" /\ l.port = p /\ l.in = Cardinality(S)
      /\ Typed(v) /\ Typed(t) /\ Typed(a) /\ Typed(l)
  <2>1. a \in [op : {"add", "delete"}, port : Ports, num : Nums]
    BY <1>3, Constants DEF AddPort
  <2>2. l \in [op : {"leave_tagged"}, port : Ports, vid : Vids, in : Nat]
    BY <1>3, CountsEntries
  <2> QED
    BY <2>1, <2>2 DEF PVID, OutTag, AddPort, Typed, OfVID, OfMembers
<1>7. ASSUME NEW n \in Nums \ {0}, Safe, TableInv, PartsFrom(n)
      PROVE  p \in member[n] /\ Cardinality(S) > 0 /\ (Cardinality(S) > 1 => Other(p, n))
  <2>1. p \in member[n]
    BY <1>2, <1>7 DEF PartsFrom
  <2>2. \A m : ~Storing("store_members", m)
    BY <1>2 DEF Storing
  <2>3. n \in S
    BY <1>7, <2>1, <2>2, SameMembers DEF TableInv
  <2>4. Cardinality(S) > 0 /\ (Cardinality(S) > 1 => \E m \in S : m # n)
    BY <2>3, CountsEntries
  <2>5. ASSUME NEW m \in S, m # n PROVE Other(p, n)
    <3>1. m \in Nums /\ p \in member[m]
      BY <1>7, <2>2, <2>5, SameMembers DEF TableInv
    <3>2. CASE vid[m] # 0
      BY <2>5, <3>1, <3>2 DEF Other
    <3>3. CASE vid[m] = 0
      <4>1. p \in member[0]
        BY <1>3, <1>7, <3>1, <3>3 DEF PartsFrom, Leftovers
      <4>2. vid[0] # 0 /\ 0 \in Nums
        BY Constants DEF Inv, DefaultInv
      <4> QED
        BY <1>7, <4>1, <4>2 DEF Other
    <3> QED
      BY <3>2, <3>3
  <2> QED
    BY <2>1, <2>4, <2>5
<1>8. Work[1] = x /\ Work[1].port = p
  OBVIOUS
<1> HIDE DEF x, p, S, v, t, a, l
<1>9. ASSUME NEW more, IsSeq(more), Goon(Cli, more),
             \A i \in DOMAIN more : more[i] \in {v, t, a}, \E i \in DOMAIN more : more[i] = a
      PROVE  Inv'
  <2>1. \A i \in DOMAIN more :
          Typed(more[i]) /\ more[i].op \in SettingOps \union {"add"} /\ (more[i].op = "add" => more[i].num = 0)
    BY <1>6, <1>9 DEF SettingOps
  <2>2. ASSUME NEW n \in Nums \ {0}, Safe, TableInv, PartsFrom(n) PROVE Leaving(more, n)
    <3>1. Saves(a, p)
      BY <1>6 DEF Saves
    <3> QED
      BY <1>8, <1>9, <2>1, <3>1 DEF Leaving, SettingOps
  <2> QED
    BY <1>2, <1>4, <1>8, <1>9, <2>1, <2>2, PartExpands
<1>10. ASSUME NEW b, b = <<>> \/ b = <<t>>, Goon(Cli, <<v>> \o b \o <<a>>) PROVE Inv'
  <2>1. CASE b = <<>>
    <3> DEFINE more == <<v>> \o b \o <<a>>
    <3>1. more = <<v, a>>
      BY <2>1, Pairs
    <3> HIDE DEF more
    <3>2. more \in Seq({v, a}) /\ DOMAIN more = 1 .. 2 /\ more[1] = v /\ more[2] = a
      BY <3>1
    <3>3. IsSeq(more) /\ (\A i \in DOMAIN more : more[i] \in {v, t, a}) /\ 2 \in DOMAIN more
      BY <3>2 DEF IsSeq
    <3> QED
      BY <1>9, <1>10, <3>2, <3>3 DEF more
  <2>2. CASE b = <<t>>
    <3> DEFINE more == <<v>> \o b \o <<a>>
    <3>1. more = <<v, t, a>>
      BY <2>2, Pairs
    <3> HIDE DEF more
    <3>2. more \in Seq({v, t, a}) /\ DOMAIN more = 1 .. 3 /\ more[1] = v /\ more[2] = t /\ more[3] = a
      BY <3>1
    <3>3. IsSeq(more) /\ (\A i \in DOMAIN more : more[i] \in {v, t, a}) /\ 3 \in DOMAIN more
      BY <3>2 DEF IsSeq
    <3> QED
      BY <1>9, <1>10, <3>2, <3>3 DEF more
  <2> QED
    BY <1>10, <2>1, <2>2
<1>11. ASSUME Goon(Cli, <<l>>) PROVE Inv'
  <2> DEFINE more == <<l>>
  <2>1. more \in Seq({l}) /\ DOMAIN more = 1 .. 1 /\ more[1] = l /\ Goon(Cli, more)
    BY <1>11
  <2> HIDE DEF more
  <2>2. IsSeq(more) /\ 1 \in DOMAIN more /\ \A i \in DOMAIN more : i = 1
    BY <2>1 DEF IsSeq
  <2>3. ASSUME NEW n \in Nums \ {0}, Safe, TableInv, PartsFrom(n) PROVE Leaving(more, n)
    <3>1. Saves(l, p)
      BY <1>6 DEF Saves
    <3>2. p \in member[n] /\ Cardinality(S) > 0 /\ (Cardinality(S) > 1 => Other(p, n))
      BY <1>7, <2>3
    <3> QED
      BY <1>6, <1>8, <2>1, <2>2, <3>1, <3>2 DEF Leaving
  <2>4. \A i \in DOMAIN more :
          Typed(more[i]) /\ more[i].op \in SettingOps \union {"leave", "leave_tagged", "add", "delete"}
    BY <1>6, <2>1, <2>2
  <2> QED
    BY <1>2, <1>4, <1>8, <2>1, <2>2, <2>3, <2>4, PartExpands
<1> QED
  BY <1>5, <1>10, <1>11

LEMMA LeaveTaggedStep ==
  ASSUME OneSession, Inv, LeaveTagged(Cli)
  PROVE  Inv'
<1> DEFINE x == Work[1]
           p == x.port
           v == PVID(p, 1)
           i == Insert(p, FALSE)
           t == OutTag(p, 0)
           a == AddPort(p, 0)
           own == vid[pvid[p]]
           back == <<i, t, a>>
           last == x.in = 1 \/ (x.in = 2 /\ own = 1)
           first == IF ~last THEN <<>>
                    ELSE IF p # 1 THEN <<v>> \o back
                    ELSE IF x.in = 2 /\ p \in vlanPort[0] THEN <<i, t>>
                    ELSE IF x.in = 1 /\ p \notin vlanPort[0] THEN back
                    ELSE <<>>
           rest == IF own = x.vid THEN <<v>> ELSE <<>>
           more == first \o rest
<1>1. TypeInv
  BY DEF Inv
<1>2. /\ Work # <<>> /\ x.op = "leave_tagged" /\ Head(todo[Cli]) = x /\ Typed(x) /\ 1 \in DOMAIN Work
  BY <1>1, HeadIsFirst DEF LeaveTagged
<1>3. x.port \in Ports /\ x.in \in Nat
  BY <1>2 DEF Typed
<1>4. UNCHANGED <<vid, member, vlanVid, vlanPort, scan, overtaken, errors, lost>>
  BY DEF LeaveTagged, regVars, devVars, countVars
<1>5. Goon(Cli, more)
  BY <1>2 DEF LeaveTagged
<1>6. /\ v.op = "pvid" /\ t.op = "tag" /\ i.op = "insert" /\ a.op = "add" /\ a.port = p /\ a.num = 0
      /\ Typed(v) /\ Typed(t) /\ Typed(a) /\ Typed(i)
  <2>1. a \in [op : {"add", "delete"}, port : Ports, num : Nums]
    BY <1>3, Constants DEF AddPort
  <2> QED
    BY <2>1 DEF PVID, OutTag, Insert, AddPort, Typed, OfVID, OfMembers
<1>7. ASSUME NEW n \in Nums \ {0}, Safe, TableInv, PartsFrom(n)
      PROVE  /\ x.in > 0 /\ (x.in > 1 => Other(p, n))
             /\ p \in vlanPort[0] => Other(p, n)
  <2>1. x.in > 0 /\ (x.in > 1 => Other(p, n))
    BY <1>2, <1>7 DEF PartsFrom
  <2>2. p \in vlanPort[0] => p \in member[0]
    <3>1. \A m : ~Storing("store_members", m)
      BY <1>2 DEF Storing
    <3> QED
      BY <1>7, <3>1, SameMembers, Constants DEF TableInv
  <2>3. vid[0] # 0 /\ 0 \in Nums
    BY Constants DEF Inv, DefaultInv
  <2> QED
    BY <1>7, <2>1, <2>2, <2>3 DEF Other
<1>8. /\ IsSeq(back) /\ Elems(back) = {i, t, a}
      /\ IsSeq(<<v>> \o back) /\ Elems(<<v>> \o back) = {v, i, t, a}
      /\ IsSeq(<<i, t>>) /\ Elems(<<i, t>>) = {i, t}
      /\ IsSeq(<<>>) /\ Elems(<<>>) = {}
      /\ IsSeq(<<v>>) /\ Elems(<<v>>) = {v}
  <2> HIDE DEF x, p, v, i, t, a
  <2>1. /\ IsSeq(back) /\ Elems(back) = {i, t, a}
        /\ IsSeq(<<i, t>>) /\ Elems(<<i, t>>) = {i, t}
        /\ IsSeq(<<>>) /\ Elems(<<>>) = {}
        /\ IsSeq(<<v>>) /\ Elems(<<v>>) = {v}
    <3>1. IsSeq(<<i, t, a>>) /\ Elems(<<i, t, a>>) = {i, t, a}
      BY ThreeElems
    <3>2. IsSeq(<<i, t>>) /\ Elems(<<i, t>>) = {i, t}
      BY TwoElems
    <3>3. IsSeq(<<v>>) /\ Elems(<<v>>) = {v}
      BY OneElem
    <3> QED
      BY <3>1, <3>2, <3>3, NoElems
  <2>2. IsSeq(<<v>> \o back) /\ Elems(<<v>> \o back) = Elems(<<v>>) \union Elems(back)
    BY <2>1, ConcatElems
  <2> QED
    BY <2>1, <2>2
<1>9. Work[1] = x /\ Work[1].port = p
  OBVIOUS
<1> HIDE DEF x, p, v, i, t, a, own, back
<1>10. IsSeq(first) /\ Elems(first) \subseteq {v, i, t, a} /\ IsSeq(rest) /\ Elems(rest) \subseteq {v}
  BY <1>8
<1>11. a \in Elems(first) \/ x.in > 1 \/ p \in vlanPort[0] \/ x.in = 0
  <2>1. CASE last
    <3>1. CASE p # 1
      BY <1>8, <2>1, <3>1
    <3>2. CASE p = 1 /\ x.in = 1 /\ p \notin vlanPort[0]
      BY <1>8, <2>1, <3>2
    <3>3. CASE x.in = 2
      BY <3>3
    <3> QED
      BY <2>1, <3>1, <3>2, <3>3
  <2>2. CASE ~last
    BY <1>3, <2>2
  <2> QED
    BY <2>1, <2>2
<1> HIDE DEF first, rest
<1>12. IsSeq(more) /\ Elems(more) = Elems(first) \union Elems(rest)
  BY <1>10, ConcatElems
<1> HIDE DEF more
<1>13. \A j \in DOMAIN more : more[j] \in {v, i, t, a}
  BY <1>10, <1>12 DEF Elems
<1>14. (\E j \in DOMAIN more : more[j] = a) \/ x.in > 1 \/ p \in vlanPort[0] \/ x.in = 0
  <2>1. a \in Elems(more) => \E j \in DOMAIN more : more[j] = a
    BY DEF Elems
  <2> QED
    BY <1>11, <1>12, <2>1
<1>15. \A j \in DOMAIN more :
         Typed(more[j]) /\ more[j].op \in SettingOps \union {"add"} /\ (more[j].op = "add" => more[j].num = 0)
  BY <1>6, <1>13 DEF SettingOps
<1>16. ASSUME NEW n \in Nums \ {0}, Safe, TableInv, PartsFrom(n) PROVE Leaving(more, n)
  <2>1. Saves(a, p)
    BY <1>6 DEF Saves
  <2>2. Other(p, n) \/ \E j \in DOMAIN more : Saves(more[j], p)
    <3>1. x.in > 0 /\ (x.in > 1 => Other(p, n)) /\ (p \in vlanPort[0] => Other(p, n))
      BY <1>7, <1>16
    <3>2. x.in # 0
      BY <1>3, <3>1
    <3> QED
      BY <1>14, <2>1, <3>1, <3>2
  <2> QED
    BY <1>9, <1>15, <2>2 DEF Leaving, SettingOps
<1>17. \A j \in DOMAIN more :
         Typed(more[j]) /\ more[j].op \in SettingOps \union {"leave", "leave_tagged", "add", "delete"}
  BY <1>15
<1> QED
  BY <1>2, <1>4, <1>5, <1>9, <1>12, <1>16, <1>17, PartExpands
-----------------------------------------------------------------------------
\* The next turn of a loop: what it does comes before the turns still to take.
LEMMA TurnStep ==
  ASSUME OneSession, Inv, TakeTurn(Cli)
  PROVE  Inv'
<1> DEFINE more == Work[1].does
<1>1. TypeInv
  BY DEF Inv
<1>2. Work # <<>> /\ Work[1].op = "turn" /\ 1 \in DOMAIN Work /\ Goon(Cli, more)
  BY <1>1, HeadIsFirst DEF TakeTurn
<1>3. TurnOK(more)
  BY <1>1, <1>2 DEF TypeInv
<1>4. UNCHANGED <<vid, member, vlanVid, vlanPort, scan, overtaken, errors, lost>>
  BY DEF TakeTurn, regVars, devVars, countVars
<1> HIDE DEF more
<1>5. /\ IsSeq(more) /\ GivesBoth(more)
      /\ \A i \in DOMAIN more :
           /\ Typed(more[i]) /\ more[i].op \in SettingOps \union {"vid", "members"}
           /\ more[i].op \in {"vid", "members"} => more[i].num # 0
           /\ more[i].op = "vid" /\ more[i].vid = 0 => TakesBoth(more, i)
  BY <1>3 DEF TurnOK
<1>6. \A i \in DOMAIN more : Typed(more[i]) /\ more[i].op \notin {"turn", "store_vid", "store_members"}
  BY <1>5 DEF SettingOps
<1>7. /\ TypeInv' /\ DefaultInv'
      /\ Safe' => /\ Safe /\ TableInv /\ CopyInv' /\ ScanInv' /\ Keeps'
                  /\ \A i \in DOMAIN Work' : i \notin DOMAIN more /\ Work'[i].op = "vid" /\ Work'[i].vid = 0 =>
                       member'[Work'[i].num] = {} \/ TakesBoth(Work', i)
  BY <1>2, <1>4, <1>5, <1>6, Expands
<1> SUFFICES ASSUME Safe' PROVE TableInv'
  BY <1>7 DEF Inv
<1>8. /\ DOMAIN Work \subseteq Nat \ {0} /\ DOMAIN Work' \subseteq Nat \ {0}
      /\ \A i \in DOMAIN more : i \in DOMAIN Work' /\ Work'[i] = more[i]
      /\ \A k \in DOMAIN Work : k > 1 =>
           /\ Later(k, more) \in DOMAIN Work' /\ Work'[Later(k, more)] = Work[k]
           /\ Later(k, more) \notin DOMAIN more
      /\ \A i \in DOMAIN Work' : i \in DOMAIN more \/ \E k \in DOMAIN Work : k > 1 /\ i = Later(k, more)
      /\ \A i \in DOMAIN more : \A k \in DOMAIN Work : k > 1 => i < Later(k, more)
  BY <1>1, <1>2, <1>5, Positions
<1>9. SetUp
  BY <1>2, <1>7 DEF TableInv, Joins, Parting, PartsFrom, SettingOps
<1>10. ASSUME NEW k \in DOMAIN Work, k > 1 PROVE Work[k].op \in SettingOps \union {"turn"}
  BY <1>2, <1>9, <1>10 DEF SetUp
<1>11. \A i \in DOMAIN Work' :
         IF i \in DOMAIN more THEN Work'[i] = more[i] ELSE Work'[i].op \in SettingOps \union {"turn"}
  BY <1>8, <1>10
<1>12. ASSUME NEW i \in DOMAIN more, TakesBoth(more, i) PROVE TakesBoth(Work', i)
  BY <1>8, <1>12 DEF TakesBoth
<1>13. GivesBack'
  <2> SUFFICES ASSUME NEW i \in DOMAIN Work', Work'[i].op = "vid", Work'[i].vid = 0
               PROVE  TakesBoth(Work', i)
    BY DEF GivesBack
  <2>1. i \in DOMAIN more /\ Work'[i] = more[i]
    BY <1>11 DEF SettingOps
  <2> QED
    BY <1>5, <1>12, <2>1
<1>14. ASSUME NEW i \in DOMAIN Work' PROVE Work'[i].op \in SettingOps \union {"vid", "members", "turn"}
  <2>1. CASE i \in DOMAIN more
    BY <1>5, <1>11, <2>1
  <2> QED
    BY <1>11, <2>1
<1>15. ASSUME NEW i \in DOMAIN Work', NEW j \in DOMAIN Work', i < j, Work'[i].op = "turn"
       PROVE  Work'[j].op \in SettingOps \union {"turn"}
  <2>1. i \notin DOMAIN more
    BY <1>6, <1>11, <1>15
  <2>2. PICK k \in DOMAIN Work : k > 1 /\ i = Later(k, more)
    BY <1>8, <2>1
  <2>3. j \in DOMAIN more => j < i
    BY <1>8, <2>2
  <2>4. j \notin DOMAIN more
    BY <1>8, <1>15, <2>3
  <2> QED
    BY <1>11, <2>4
<1>16. ASSUME NEW i \in DOMAIN Work', Work'[i].op \in {"vid", "members"}
       PROVE  i \in DOMAIN more /\ Work'[i] = more[i] /\ Work'[i].num # 0
  <2>1. i \in DOMAIN more /\ Work'[i] = more[i]
    BY <1>11, <1>16 DEF SettingOps
  <2> QED
    BY <1>5, <1>16, <2>1
<1>17. member[0] = Ports
  <2>1. ~OfVID(Work[1]) /\ Work[1] # Members(0, Ports)
    BY <1>2 DEF OfVID, Members
  <2> QED
    BY <1>9, <2>1 DEF SetUp, AllInDefault
<1>18. GivesBoth(Work')
  <2> SUFFICES ASSUME NEW i \in DOMAIN Work', Work'[i].op = "members", Work'[i].num # 0, Work'[i].ports # {}
               PROVE  /\ i + 1 \in DOMAIN Work' /\ Work'[i + 1].op = "vid" /\ Work'[i + 1].num = Work'[i].num
                      /\ \A j \in DOMAIN Work' : Work'[j].op = "vid" => Work'[j].vid # 0
    BY DEF GivesBoth
  <2>1. i \in DOMAIN more /\ Work'[i] = more[i]
    BY <1>16
  <2>2. /\ i + 1 \in DOMAIN more /\ more[i + 1].op = "vid" /\ more[i + 1].num = more[i].num
        /\ \A j \in DOMAIN more : more[j].op = "vid" => more[j].vid # 0
    BY <1>5, <2>1 DEF GivesBoth
  <2>3. \A j \in DOMAIN Work' : Work'[j].op = "vid" => Work'[j].vid # 0
    BY <1>16, <2>2
  <2> QED
    BY <1>8, <2>1, <2>2, <2>3
<1>19. ASSUME errors' = 0, NEW n \in Nums, vid'[n] = 0 PROVE member'[n] = {}
  <2>1. member[n] = {} \/ Tidies(1, n) \/ Tidies(2, n)
    BY <1>4, <1>9, <1>19 DEF SetUp
  <2>2. ~Tidies(1, n)
    BY <1>2 DEF Tidies, Members
  <2>3. ~Tidies(2, n)
    <3>1. 2 \in DOMAIN Work => Work[2].op \in SettingOps \union {"turn"}
      BY <1>10
    <3> QED
      BY <3>1 DEF Tidies, Members, SettingOps
  <2> QED
    BY <1>4, <2>1, <2>2, <2>3
<1>20. Leftovers'
  BY <1>4, <1>9 DEF SetUp, Leftovers
<1>21. AllInDefault'
  BY <1>4, <1>17 DEF AllInDefault
<1>22. SetUp'
  <2>1. \A i \in DOMAIN Work' :
          Work'[i].op \in SettingOps \union {"vid", "store_vid", "members", "store_members", "turn"}
    BY <1>14
  <2>2. \A i \in DOMAIN Work' : Work'[i].op = "members" /\ Work'[i].num = 0 => Work'[i].ports = Ports
    BY <1>16
  <2> QED
    BY <1>15, <1>18, <1>19, <1>20, <1>21, <2>1, <2>2 DEF SetUp
<1> QED
  BY <1>7, <1>13, <1>22 DEF TableInv
-----------------------------------------------------------------------------
\* A command starts.
LEMMA NothingLeft ==
  ASSUME Work = <<>>
  PROVE  DOMAIN Work = {} /\ \A op, n : ~Storing(op, n)
<1>1. \A S : <<>> \in Seq(S) /\ Len(<<>>) = 0
  OBVIOUS
<1> QED
  BY <1>1 DEF Storing

LEMMA Starts ==
  ASSUME OneSession, Inv, NEW does, IsSeq(does), Command(Cli, does),
         \A i \in DOMAIN does :
           /\ Typed(does[i]) /\ does[i].op \notin {"store_vid", "store_members"}
           /\ does[i].op = "turn" => TurnOK(does[i].does)
  PROVE  /\ Work = <<>> /\ Work' = does /\ TypeInv' /\ DefaultInv'
         /\ UNCHANGED <<vid, member, vlanVid, vlanPort, errors>>
         /\ Safe' => /\ Safe /\ TableInv /\ CopyInv' /\ ScanInv' /\ Keeps'
                     /\ (errors' = 0 => Tidy') /\ Leftovers'
<1>1. TypeInv /\ DefaultInv /\ (Safe => TableInv)
  BY DEF Inv
<1>2. Cli \in Sessions /\ DOMAIN todo = Sessions
  BY <1>1, CliIsOne DEF TypeInv
<1>3. Work = <<>> /\ Work' = does /\ DOMAIN todo' = Sessions
  BY <1>2 DEF Command, Work
<1>4. UNCHANGED <<vid, member, vlanVid, vlanPort, scan, overtaken, errors, lost>>
  BY DEF Command, regVars, devVars
<1>5. DOMAIN Work = {} /\ \A op, n : ~Storing(op, n)
  BY <1>3, NothingLeft
<1>6. TypeInv'
  BY <1>1, <1>3, <1>4 DEF TypeInv, ScanType
<1>7. DefaultInv'
  BY <1>1, <1>4 DEF DefaultInv
<1>8. ASSUME Safe' PROVE Safe /\ TableInv
  BY <1>1, <1>4, <1>8 DEF Safe
<1>9. ASSUME Safe' PROVE CopyInv' /\ ScanInv'
  <2>1. CopyInv /\ ScanInv
    BY <1>8, <1>9 DEF TableInv
  <2>2. /\ \A n \in Nums : vlanVid'[n] = vid'[n] \/ (n = 0 /\ vlanVid'[n] = 0)
        /\ \A n \in Nums : vlanPort'[n] = member'[n] \/ (n = 0 /\ vlanPort'[n] = {})
    BY <1>4, <1>5, <2>1 DEF CopyInv
  <2>3. \A i \in DOMAIN Work' : Work'[i].op \notin {"store_vid", "store_members"}
    BY <1>3
  <2>4. CopyInv'
    BY <2>2, <2>3 DEF CopyInv
  <2>5. scan'.read # None => IF scan'.of = "vid" THEN scan'.read.value = vid'[scan'.n]
                             ELSE scan'.read.value = member'[scan'.n]
    BY <1>4, <1>5, <2>1 DEF ScanInv
  <2>6. ScanInv'
    BY <2>5 DEF ScanInv
  <2> QED
    BY <2>4, <2>6
<1>10. ASSUME Safe' PROVE Keeps'
  BY <1>4, <1>8, <1>10 DEF TableInv, Keeps
<1>11. ASSUME Safe' PROVE (errors' = 0 => Tidy') /\ Leftovers'
  <2>1. CASE SetUp
    BY <1>4, <1>5, <2>1 DEF SetUp, Tidies, Tidy, Leftovers
  <2>2. CASE Joins
    <3>1. \A p, n : ~QuitsLater(p, n)
      BY <1>5 DEF QuitsLater
    <3> QED
      BY <1>4, <2>2, <3>1 DEF Joins, Tidy, Leftovers
  <2>3. CASE Parting
    BY <1>4, <2>3 DEF Parting, PartsFrom, Tidy, Leftovers
  <2> QED
    BY <1>8, <1>11, <2>1, <2>2, <2>3 DEF TableInv
<1> QED
  BY <1>3, <1>4, <1>6, <1>7, <1>8, <1>9, <1>10, <1>11

\* Ports join, or are set only.
LEMMA StartsJoining ==
  ASSUME OneSession, Inv, NEW does, IsSeq(does), Command(Cli, does),
         \A i \in DOMAIN does : Typed(does[i]) /\ does[i].op \in SettingOps \union {"join"},
         \A i, j \in DOMAIN does : i < j /\ does[i].op = "join" => does[j].op = "join",
         Safe /\ TableInv /\ Work = <<>> =>
           \A i \in DOMAIN does : does[i].op = "join" => \E n \in Nums : vid[n] = does[i].vid
  PROVE  Inv'
<1>1. \A i \in DOMAIN does : does[i].op \notin {"store_vid", "store_members", "turn", "add", "quit", "members",
                                                 "delete", "vid"}
  BY DEF SettingOps
<1>2. /\ Work = <<>> /\ Work' = does /\ TypeInv' /\ DefaultInv' /\ UNCHANGED <<vid, member>>
      /\ Safe' => /\ Safe /\ TableInv /\ CopyInv' /\ ScanInv' /\ Keeps'
                  /\ (errors' = 0 => Tidy') /\ Leftovers'
  BY <1>1, Starts
<1> SUFFICES ASSUME Safe' PROVE TableInv'
  BY <1>2 DEF Inv
<1>3. GivesBack'
  BY <1>1, <1>2 DEF GivesBack
<1>4. Joins'
  <2>1. \A i \in DOMAIN Work' :
          /\ Work'[i].op \in SettingOps \union {"join", "add", "quit", "members", "store_members", "delete"}
          /\ Work'[i].op = "join" => \E n \in Nums : vid'[n] = Work'[i].vid
          /\ Work'[i].op \notin {"add", "quit", "members", "delete"}
    BY <1>1, <1>2
  <2>2. \A i, j \in DOMAIN Work' : i < j /\ Work'[i].op = "join" => Work'[j].op = "join"
    BY <1>2
  <2> QED
    BY <1>2, <2>1, <2>2 DEF Joins, Leftovers
<1> QED
  BY <1>2, <1>3, <1>4 DEF TableInv

LEMMA PortAddStep ==
  ASSUME OneSession, Inv, NEW v \in Vids, NEW list \in PortLists, NEW tagged \in BOOLEAN,
         Dot1qPortAdd(Cli, v, list, tagged)
  PROVE  Inv'
<1> DEFINE does == [i \in DOMAIN list |-> [op |-> "join", port |-> list[i], vid |-> v, tagged |-> tagged]]
<1>1. list \in Seq(Ports)
  BY VlanAssumption
<1>2. Command(Cli, does) /\ VlanExist(v)
  BY DEF Dot1qPortAdd
<1>3. \A i \in DOMAIN does : does[i].op = "join" /\ does[i].vid = v /\ Typed(does[i])
  BY <1>1 DEF Typed, OfVID, OfMembers
<1>4. IsSeq(does)
  <2>1. Len(list) \in Nat /\ DOMAIN list = 1 .. Len(list)
    BY <1>1
  <2>2. does = [i \in 1 .. Len(list) |-> does[i]]
    BY <2>1
  <2> HIDE DEF does
  <2> QED
    BY <2>1, <2>2, MakesSeq
<1> HIDE DEF does
<1>5. ASSUME Safe, TableInv, Work = <<>> PROVE \E n \in Nums : vid[n] = v
  <2>1. \A n : ~Storing("store_vid", n)
    BY <1>5, NothingLeft
  <2> QED
    BY <1>2, <1>5, <2>1, FindsVID DEF Inv, TableInv
<1> QED
  BY <1>2, <1>3, <1>4, <1>5, StartsJoining
-----------------------------------------------------------------------------
\* An entry gets a VID.
LEMMA FindsEntry == VlanIdleNum \in Nums /\ (VlanIdleNum # 0 => vlanVid[VlanIdleNum] = 0)
<1> DEFINE idle == {n \in Nums \ {0} : vlanVid[n] = 0}
<1>1. idle \subseteq Nat
  BY Constants
<1>2. CASE idle = {}
  BY <1>2, Constants DEF VlanIdleNum
<1>3. CASE idle # {}
  <2>1. Min(idle) \in idle
    BY <1>1, <1>3, MinIsLeast
  <2> QED
    BY <1>3, <2>1 DEF VlanIdleNum
<1> QED
  BY <1>2, <1>3

LEMMA AddStep ==
  ASSUME OneSession, Inv, NEW v \in Vids, Dot1qAdd(Cli, v), VlanIdleNum # 0
  PROVE  Inv'
<1> DEFINE n == VlanIdleNum
           x == VID(n, v)
           does == <<x>>
<1>1. n \in Nums \ {0} /\ v \in Nat /\ v # 0 /\ v # 1
  BY FindsEntry, Constants
<1>2. x.op = "vid" /\ x.num = n /\ x.vid = v /\ Typed(x)
  BY <1>1 DEF VID, Typed, OfVID, OfMembers
<1>3. Command(Cli, does)
  BY DEF Dot1qAdd
<1>4. IsSeq(does) /\ DOMAIN does = {1} /\ does[1] = x
  <2>1. does \in Seq({x}) /\ DOMAIN does = {1} /\ does[1] = x
    OBVIOUS
  <2> QED
    BY <2>1 DEF IsSeq
<1> HIDE DEF n, x, does
<1>5. /\ Work' = does /\ TypeInv' /\ DefaultInv'
      /\ Safe' => /\ CopyInv' /\ ScanInv' /\ Keeps'
                  /\ (errors' = 0 => Tidy') /\ Leftovers'
  BY <1>2, <1>3, <1>4, Starts
<1> SUFFICES ASSUME Safe' PROVE TableInv'
  BY <1>5 DEF Inv
<1>6. GivesBack'
  BY <1>1, <1>2, <1>4, <1>5 DEF GivesBack
<1>7. PICK k \in Nums \ {0} : k = n
  BY <1>1
<1>8. \A i \in DOMAIN Work' : Work'[i].op = "vid" /\ Work'[i].num = k /\ i + 1 \notin DOMAIN Work'
  BY <1>2, <1>4, <1>5, <1>7
<1>9. PartsFrom(k)'
  BY <1>5, <1>8 DEF PartsFrom, Takes, SettingOps
<1> QED
  BY <1>5, <1>6, <1>9 DEF TableInv, Parting
-----------------------------------------------------------------------------
\* Ports part from an entry.
PartsAt(x, p, k) == x.op = "part" /\ x.port = p /\ x.num = k /\ Typed(x)

LEMMA PartsMade ==
  ASSUME NEW v \in Vids, NEW whole \in BOOLEAN, NEW l \in Seq(Ports), NEW k \in Nums, k = VlanNumFromVID(v)
  PROVE  /\ IsSeq(Parts(v, whole, l)) /\ DOMAIN Parts(v, whole, l) = DOMAIN l
         /\ \A i \in DOMAIN l : PartsAt(Parts(v, whole, l)[i], l[i], k)
<1> DEFINE does == Parts(v, whole, l)
<1>1. DOMAIN does = DOMAIN l /\ Len(l) \in Nat /\ DOMAIN l = 1 .. Len(l)
  BY DEF Parts
<1>2. does = [i \in 1 .. Len(l) |-> does[i]]
  BY <1>1 DEF Parts
<1>3. \A i \in DOMAIN l :
        does[i] = [op |-> "part", port |-> l[i], vid |-> v, num |-> k, whole |-> whole] /\ l[i] \in Ports
  BY DEF Parts
<1> HIDE DEF does
<1>4. IsSeq(does)
  BY <1>1, <1>2, MakesSeq
<1>5. ASSUME NEW i \in DOMAIN l
      PROVE  PartsAt(does[i], l[i], k)
  <2> DEFINE x == does[i]
  <2>1. x = [op |-> "part", port |-> l[i], vid |-> v, num |-> k, whole |-> whole] /\ l[i] \in Ports
    BY <1>3
  <2> HIDE DEF x
  <2>2. x \in [op : {"part", "leave"}, port : Ports, vid : Vids, num : Nums, whole : BOOLEAN]
        /\ x.op = "part" /\ x.port = l[i] /\ x.num = k
    BY <2>1
  <2>3. Typed(x)
    BY <2>2 DEF Typed, OfVID, OfMembers
  <2> QED
    BY <2>2, <2>3 DEF PartsAt, x
<1> QED
  BY <1>1, <1>4, <1>5 DEF does

\* The entry of a VLAN that there is has another number than the default one.
LEMMA FindsEntryOf ==
  ASSUME Inv, Work = <<>>, NEW v \in Vids, VlanExist(v)
  PROVE  Safe => VlanNumFromVID(v) # 0
<1> SUFFICES ASSUME Safe PROVE VlanNumFromVID(v) # 0
  OBVIOUS
<1>1. \A n : ~Storing("store_vid", n)
  BY NothingLeft
<1> QED
  BY <1>1, FindsVID DEF Inv, TableInv

LEMMA PortDelStep ==
  ASSUME OneSession, Inv, NEW v \in Vids, NEW list \in PortLists, Dot1qPortDel(Cli, v, list)
  PROVE  Inv'
<1> DEFINE does == Parts(v, FALSE, list)
<1>1. list \in Seq(Ports)
  BY VlanAssumption
<1>2. Command(Cli, does) /\ VlanExist(v)
  BY DEF Dot1qPortDel
<1>3. PICK k \in Nums : k = VlanNumFromVID(v)
  BY NumFromVID
<1>4. IsSeq(does) /\ \A i \in DOMAIN does : does[i].op = "part" /\ does[i].num = k /\ Typed(does[i])
  <2>1. IsSeq(does) /\ DOMAIN does = DOMAIN list /\ \A i \in DOMAIN list : PartsAt(does[i], list[i], k)
    BY <1>1, <1>3, PartsMade
  <2> QED
    BY <2>1 DEF PartsAt
<1> HIDE DEF does
<1>5. \A i \in DOMAIN does : /\ Typed(does[i]) /\ does[i].op \notin {"store_vid", "store_members"}
                             /\ does[i].op = "turn" => TurnOK(does[i].does)
  BY <1>4
<1>6. /\ Work = <<>> /\ Work' = does /\ TypeInv' /\ DefaultInv'
      /\ Safe' => /\ Safe /\ CopyInv' /\ ScanInv' /\ Keeps'
                  /\ (errors' = 0 => Tidy') /\ Leftovers'
  BY <1>2, <1>4, <1>5, Starts
<1> SUFFICES ASSUME Safe' PROVE TableInv'
  BY <1>6 DEF Inv
<1>7. k \in Nums \ {0}
  BY <1>2, <1>3, <1>6, FindsEntryOf
<1>8. \A i \in DOMAIN Work' : Work'[i].op = "part" /\ Work'[i].num = k
  BY <1>4, <1>6
<1>9. GivesBack'
  BY <1>8 DEF GivesBack
<1>10. PartsFrom(k)'
  BY <1>6, <1>8 DEF PartsFrom, Takes, SettingOps
<1> QED
  BY <1>6, <1>7, <1>9, <1>10 DEF TableInv, Parting
-----------------------------------------------------------------------------
\* The copy never has a VID of a command for the default VLAN.
CopyDefault ==
  /\ vlanVid[0] \in {0, 1}
  /\ scan.read # None /\ scan.of = "vid" /\ scan.n = 0 => scan.read.value = 1

LEMMA DelStep ==
  ASSUME OneSession, Inv, CopyDefault, NEW v \in Vids, Dot1qDel(Cli, v)
  PROVE  Inv'
<1>1. PICK k \in Nums : k = VlanNumFromVID(v)
  BY NumFromVID
<1>2. VlanExist(v)
  BY DEF Dot1qDel
<1>3. k # 0
  <2>1. vlanVid[k] = v /\ v # 0 /\ v # 1
    BY <1>1, <1>2, NumFromVID, Constants
  <2> QED
    BY <2>1 DEF CopyDefault
<1> DEFINE ports == [p \in Ports |-> p]
           front == Parts(v, TRUE, ports)
           a == Members(k, {})
           b == VID(k, 0)
           end == <<a, b>>
           does == front \o end
<1>4. Command(Cli, does)
  BY <1>1 DEF Dot1qDel
<1>5. ports \in Seq(Ports) /\ DOMAIN ports = Ports /\ \A p \in Ports : ports[p] = p
  <2>1. Ports = 1 .. NumPorts /\ NumPorts \in Nat
    BY Constants
  <2> QED
    BY <2>1
<1>6. /\ a.op = "members" /\ a.num = k /\ a.ports = {} /\ Typed(a)
      /\ b.op = "vid" /\ b.num = k /\ b.vid = 0 /\ Typed(b)
  BY <1>3 DEF Members, VID, Typed, OfVID, OfMembers
<1> HIDE DEF ports, a, b
<1>7. /\ IsSeq(front) /\ DOMAIN front = Ports
      /\ \A p \in Ports : front[p].op = "part" /\ front[p].port = p /\ front[p].num = k /\ Typed(front[p])
  <2>1. IsSeq(front) /\ DOMAIN front = DOMAIN ports /\ \A i \in DOMAIN ports : PartsAt(front[i], ports[i], k)
    BY <1>1, <1>5, PartsMade
  <2> QED
    BY <1>5, <2>1 DEF PartsAt
<1>8. IsSeq(end) /\ DOMAIN end = {1, 2} /\ end[1] = a /\ end[2] = b
  <2>1. end \in Seq({a, b}) /\ DOMAIN end = {1, 2} /\ end[1] = a /\ end[2] = b
    OBVIOUS
  <2> QED
    BY <2>1 DEF IsSeq
<1> HIDE DEF front, end
<1>9. Chain(does, front, end)
  BY <1>7, <1>8, Concat
<1> HIDE DEF does
<1> DEFINE i1 == After(1, front)
           i2 == After(2, front)
<1>10. /\ IsSeq(does) /\ DOMAIN does \subseteq Nat \ {0} /\ {i1, i2} \subseteq DOMAIN does
       /\ does[i1] = a /\ does[i2] = b /\ i1 = i2 - 1
       /\ \A p \in Ports : p \in DOMAIN does /\ does[p] = front[p] /\ p < i1
       /\ \A i \in DOMAIN does : i \in Ports \/ i = i1 \/ i = i2
  BY <1>7, <1>8, <1>9 DEF Chain
<1>11. i2 + 1 \notin DOMAIN does
  <2> HIDE DEF i1, i2
  <2>1. i1 \in Nat /\ i2 \in Nat /\ i2 = i1 + 1
    BY <1>10
  <2>2. i2 + 1 # i1 /\ i2 + 1 # i2
    BY <2>1
  <2>3. i2 + 1 \notin Ports
    <3>1. i2 + 1 \in Ports => i2 + 1 < i1
      BY <1>10
    <3> QED
      BY <2>1, <3>1
  <2> QED
    BY <1>10, <2>2, <2>3
<1> HIDE DEF i1, i2
<1>12. ASSUME NEW i \in DOMAIN does
       PROVE  \/ i \in Ports /\ does[i].op = "part" /\ does[i].port = i /\ does[i].num = k /\ Typed(does[i])
              \/ i = i1 /\ does[i] = a
              \/ i = i2 /\ does[i] = b
  BY <1>7, <1>10
<1>13. \A i \in DOMAIN does : /\ Typed(does[i]) /\ does[i].op \notin {"store_vid", "store_members"}
                              /\ does[i].op = "turn" => TurnOK(does[i].does)
  BY <1>6, <1>12
<1>14. /\ Work = <<>> /\ Work' = does /\ TypeInv' /\ DefaultInv'
       /\ Safe' => /\ Safe /\ CopyInv' /\ ScanInv' /\ Keeps'
                   /\ (errors' = 0 => Tidy') /\ Leftovers'
  BY <1>4, <1>10, <1>13, Starts
<1> SUFFICES ASSUME Safe' PROVE TableInv'
  BY <1>14 DEF Inv
<1>15. GivesBack'
  <2> SUFFICES ASSUME NEW i \in DOMAIN does, does[i].op = "vid" PROVE TakesBoth(does, i)
    BY <1>14 DEF GivesBack
  <2>1. i = i2 /\ does[i] = b
    BY <1>6, <1>12
  <2>2. i - 1 \in DOMAIN does /\ does[i - 1] = a
    BY <1>10, <2>1
  <2> QED
    BY <1>6, <2>1, <2>2 DEF TakesBoth, OfMembers
<1>16. ASSUME NEW i \in DOMAIN does
       PROVE  /\ does[i].op \in {"part", "members", "vid"} /\ does[i].num = k
              /\ does[i].op = "vid" => i + 1 \notin DOMAIN does
              /\ does[i].op = "members" => does[i].ports = {}
  BY <1>6, <1>11, <1>12
<1>17. ASSUME NEW i \in DOMAIN does, NEW p \in Ports, Takes(does[i], p, k)
       PROVE  \E j \in DOMAIN does : j < i /\ Saves(does[j], p)
  <2>1. i = i1
    BY <1>6, <1>12, <1>17 DEF Takes
  <2>2. p \in DOMAIN does /\ p < i /\ Saves(does[p], p)
    BY <1>7, <1>10, <2>1 DEF Saves
  <2> QED
    BY <2>2
<1>18. \A p \in member'[k] : p \in Ports
  BY <1>14 DEF TypeInv
<1>19. PartsFrom(k)'
  <2>1. \A i \in DOMAIN Work' :
          /\ Work'[i].op \in {"part", "members", "vid"} /\ Work'[i].num = k
          /\ Work'[i].op = "vid" => i + 1 \notin DOMAIN Work'
          /\ Work'[i].op = "members" => Work'[i].ports = {}
    BY <1>14, <1>16
  <2>2. \A i \in DOMAIN Work' : \A p \in member'[k] : Takes(Work'[i], p, k) =>
          \E j \in DOMAIN Work' : j < i /\ Saves(Work'[j], p)
    BY <1>14, <1>17, <1>18
  <2> QED
    BY <1>14, <2>1, <2>2 DEF PartsFrom
<1> QED
  BY <1>3, <1>14, <1>15, <1>19 DEF TableInv, Parting
-----------------------------------------------------------------------------
\* A command that sets the table up begins with the default VLAN; the rest are
\* turns of loops and settings.
InLoop(x) == x.op \in SettingOps \/ (x.op = "turn" /\ TurnOK(x.does))

Loops(s) == IsSeq(s) /\ \A i \in DOMAIN s : InLoop(s[i])

FromDefault(s) ==
  /\ IsSeq(s) /\ {1, 2} \subseteq DOMAIN s /\ s[1] = VID(0, 1) /\ s[2] = Members(0, Ports)
  /\ \A i \in DOMAIN s : i = 1 \/ i = 2 \/ InLoop(s[i])

LEMMA LoopFollows ==
  ASSUME NEW s, FromDefault(s), NEW t, Loops(t)
  PROVE  FromDefault(s \o t)
<1> DEFINE u == s \o t
<1>1. Chain(u, s, t)
  BY Concat DEF FromDefault, Loops
<1> HIDE DEF u
<1>2. /\ IsSeq(u) /\ \A i \in DOMAIN s : i \in DOMAIN u /\ u[i] = s[i]
      /\ \A k \in DOMAIN t : u[After(k, s)] = t[k]
      /\ \A i \in DOMAIN u : i \in DOMAIN s \/ \E k \in DOMAIN t : i = After(k, s)
  BY <1>1 DEF Chain
<1>3. ASSUME NEW i \in DOMAIN u PROVE i = 1 \/ i = 2 \/ InLoop(u[i])
  <2>1. CASE i \in DOMAIN s
    BY <1>2, <2>1 DEF FromDefault
  <2>2. CASE \E k \in DOMAIN t : i = After(k, s)
    BY <1>2, <2>2 DEF Loops
  <2> QED
    BY <1>2, <2>1, <2>2
<1>4. FromDefault(u)
  BY <1>2, <1>3 DEF FromDefault
<1> QED
  BY <1>4 DEF u

LEMMA DefaultFirst == FromDefault(Default)
<1> DEFINE a == VID(0, 1)
           b == Members(0, Ports)
           s == <<a, b>>
<1>1. s \in Seq({a, b}) /\ DOMAIN s = {1, 2} /\ s[1] = a /\ s[2] = b
  OBVIOUS
<1> QED
  BY <1>1 DEF FromDefault, Default, IsSeq

LEMMA StartsSetUp ==
  ASSUME OneSession, Inv, NEW does, FromDefault(does), Command(Cli, does)
  PROVE  Inv'
<1> DEFINE a == VID(0, 1)
           b == Members(0, Ports)
<1>1. /\ a.op = "vid" /\ a.num = 0 /\ a.vid = 1 /\ Typed(a)
      /\ b.op = "members" /\ b.num = 0 /\ b.ports = Ports /\ Typed(b)
  BY Constants DEF VID, Members, Typed, OfVID, OfMembers
<1>2. /\ IsSeq(does) /\ {1, 2} \subseteq DOMAIN does /\ does[1] = a /\ does[2] = b
      /\ \A i \in DOMAIN does : i = 1 \/ i = 2 \/ InLoop(does[i])
  BY DEF FromDefault
<1>3. DOMAIN does \subseteq Nat \ {0}
  BY <1>2 DEF IsSeq
<1> HIDE DEF a
<1>4. \A x : InLoop(x) => /\ Typed(x) /\ x.op \in SettingOps \union {"turn"}
                          /\ x.op = "turn" => TurnOK(x.does)
  BY DEF InLoop, Typed, OfVID, OfMembers, SettingOps
<1>5. ASSUME NEW i \in DOMAIN does
      PROVE  \/ i = 1 /\ does[i] = a
             \/ i = 2 /\ does[i] = b
             \/ /\ i > 2 /\ Typed(does[i]) /\ does[i].op \in SettingOps \union {"turn"}
                /\ does[i].op = "turn" => TurnOK(does[i].does)
  <2>1. i = 1 \/ i = 2 \/ i > 2
    BY <1>3
  <2>2. CASE i > 2
    <3>1. InLoop(does[i])
      BY <1>2, <2>2
    <3> QED
      BY <1>4, <2>2, <3>1
  <2> QED
    BY <1>2, <2>1, <2>2
<1>6. \A i \in DOMAIN does : /\ Typed(does[i]) /\ does[i].op \notin {"store_vid", "store_members"}
                             /\ does[i].op = "turn" => TurnOK(does[i].does)
  BY <1>1, <1>5 DEF SettingOps
<1>7. /\ Work = <<>> /\ Work' = does /\ TypeInv' /\ DefaultInv'
      /\ Safe' => /\ Safe /\ CopyInv' /\ ScanInv' /\ Keeps'
                  /\ (errors' = 0 => Tidy') /\ Leftovers'
  BY <1>2, <1>6, Starts
<1> SUFFICES ASSUME Safe' PROVE TableInv'
  BY <1>7 DEF Inv
<1>8. ASSUME NEW i \in DOMAIN does
      PROVE  /\ does[i].op \in SettingOps \union {"vid", "members", "turn"}
             /\ does[i].op = "vid" => i = 1 /\ does[i].vid = 1
             /\ does[i].op = "members" => does[i].num = 0 /\ does[i].ports = Ports
             /\ does[i].op = "turn" => i > 2
  BY <1>1, <1>5 DEF SettingOps
<1>9. GivesBack'
  BY <1>7, <1>8 DEF GivesBack
<1>10. GivesBoth(Work')
  BY <1>7, <1>8 DEF GivesBoth
<1>11. ASSUME NEW i \in DOMAIN does, NEW j \in DOMAIN does, i < j, does[i].op = "turn"
       PROVE  does[j].op \in SettingOps \union {"turn"}
  <2>1. i > 2 /\ i \in Nat /\ j \in Nat
    BY <1>3, <1>8, <1>11
  <2>2. j # 1 /\ j # 2
    BY <1>11, <2>1
  <2> QED
    BY <1>5, <2>2
<1>12. AllInDefault'
  <2>1. /\ 2 \in DOMAIN Work' /\ OfVID(Work'[1]) /\ Work'[1].num = 0 /\ Work'[2] = Members(0, Ports)
    BY <1>1, <1>2, <1>7 DEF OfVID
  <2> QED
    BY <2>1 DEF AllInDefault
<1>13. SetUp'
  BY <1>7, <1>8, <1>10, <1>11, <1>12 DEF SetUp, Tidy
<1> QED
  BY <1>7, <1>9, <1>13 DEF TableInv
-----------------------------------------------------------------------------
\* What the loops do in a turn.
LEMMA IsTurn == \A l : Turn(l).op = "turn" /\ Turn(l).does = l
  BY DEF Turn

LEMMA LoopOf ==
  ASSUME NEW n \in Nat, NEW s, s = [i \in 1 .. n |-> s[i]], \A i \in 1 .. n : InLoop(s[i])
  PROVE  Loops(s)
<1>1. IsSeq(s) /\ DOMAIN s = 1 .. n
  BY MakesSeq
<1> QED
  BY <1>1 DEF Loops

\* Settings only.
IsSetting(x) == x.op \in SettingOps

LEMMA AreSettings ==
  /\ \A p, on : IsSetting(Insert(p, on)) /\ IsSetting(OutTag(p, on)) /\ IsSetting(PVID(p, on))
  /\ \A on : IsSetting(Aware(on)) /\ IsSetting(Isolated(on))
  /\ IsSetting(InsertNone) /\ IsSetting(Eeprom)
  BY DEF IsSetting, SettingOps, Insert, OutTag, PVID, Aware, Isolated, InsertNone, Eeprom

LEMMA SettingsOnly ==
  ASSUME NEW l, IsSeq(l), \A i \in DOMAIN l : IsSetting(l[i])
  PROVE  TurnOK(l) /\ Loops(l)
<1>1. \A x : IsSetting(x) => Typed(x) /\ x.op \in SettingOps /\ x.op \notin {"vid", "members"} /\ InLoop(x)
  BY DEF IsSetting, Typed, OfVID, OfMembers, SettingOps, InLoop
<1>2. \A i \in DOMAIN l : Typed(l[i]) /\ l[i].op \in SettingOps /\ l[i].op \notin {"vid", "members"} /\ InLoop(l[i])
  BY <1>1
<1> QED
  BY <1>2 DEF TurnOK, GivesBoth, Loops

LEMMA ElemsOf ==
  ASSUME NEW l, IsSeq(l), \A x \in Elems(l) : IsSetting(x)
  PROVE  TurnOK(l) /\ Loops(l)
<1>1. \A i \in DOMAIN l : IsSetting(l[i])
  BY DEF Elems
<1> QED
  BY <1>1, SettingsOnly

LEMMA TwoSettings ==
  ASSUME NEW a, IsSetting(a), NEW b, IsSetting(b)
  PROVE  TurnOK(<<a, b>>)
<1> DEFINE s == <<a, b>>
<1>1. IsSeq(s) /\ Elems(s) = {a, b}
  BY TwoElems
<1> HIDE DEF s
<1>2. TurnOK(s)
  BY <1>1, ElemsOf
<1> QED
  BY <1>2 DEF s

\* An entry is given back, in either order.
LEMMA GiveBackTurns ==
  ASSUME NEW n \in Nums \ {0}
  PROVE  TurnOK(<<VID(n, 0), Members(n, {})>>) /\ TurnOK(<<Members(n, {}), VID(n, 0)>>)
<1> DEFINE a == VID(n, 0)
           b == Members(n, {})
           s == <<a, b>>
           t == <<b, a>>
<1>1. /\ a.op = "vid" /\ a.num = n /\ a.vid = 0 /\ Typed(a)
      /\ b.op = "members" /\ b.num = n /\ b.ports = {} /\ Typed(b)
  BY DEF VID, Members, Typed, OfVID, OfMembers
<1>2. /\ s \in Seq({a, b}) /\ DOMAIN s = {1, 2} /\ s[1] = a /\ s[2] = b
      /\ t \in Seq({a, b}) /\ DOMAIN t = {1, 2} /\ t[1] = b /\ t[2] = a
  OBVIOUS
<1>3. b = Members(n, {})
  OBVIOUS
<1> HIDE DEF a, b, s, t
<1>4. TurnOK(s)
  <2>1. \A i \in DOMAIN s : s[i].op = "vid" => TakesBoth(s, i)
    BY <1>1, <1>2, <1>3 DEF TakesBoth
  <2> QED
    BY <1>1, <1>2, <2>1 DEF TurnOK, GivesBoth, IsSeq
<1>5. TurnOK(t)
  <2>1. \A i \in DOMAIN t : t[i].op = "vid" => TakesBoth(t, i)
    BY <1>1, <1>2 DEF TakesBoth, OfMembers
  <2> QED
    BY <1>1, <1>2, <2>1 DEF TurnOK, GivesBoth, IsSeq
<1> QED
  BY <1>4, <1>5 DEF s, t, a, b

LEMMA ClearLoops ==
  ASSUME NEW last \in Nat, last < MAX_RCP_VLAN_NUM
  PROVE  Loops(Clear(last))
<1> DEFINE s == Clear(last)
<1>1. s = [n \in 1 .. last |-> s[n]] /\ \A n \in 1 .. last : s[n] = Turn(<<VID(n, 0), Members(n, {})>>)
  BY DEF Clear
<1> HIDE DEF s
<1>2. ASSUME NEW n \in 1 .. last PROVE InLoop(s[n])
  <2>1. n \in Nums \ {0}
    BY Constants
  <2>2. TurnOK(<<VID(n, 0), Members(n, {})>>)
    BY <2>1, GiveBackTurns
  <2> QED
    BY <1>1, <2>2, IsTurn DEF InLoop
<1> QED
  BY <1>1, <1>2, LoopOf DEF s

LEMMA UnusedLoops == Loops(Unused)
<1> DEFINE k == MAX_RCP_VLAN_NUM - NumPorts
           s == Unused
           At(n) == NumPorts + n - 1
<1>1. /\ s = [n \in 1 .. k |-> s[n]]
      /\ \A n \in 1 .. k : s[n] = Turn(<<Members(At(n), {}), VID(At(n), 0)>>)
  BY DEF Unused
<1>2. k \in Nat /\ \A n \in 1 .. k : At(n) \in Nums \ {0}
  BY Constants
<1> HIDE DEF s, k, At
<1>3. ASSUME NEW n \in 1 .. k PROVE InLoop(s[n])
  <2>1. TurnOK(<<Members(At(n), {}), VID(At(n), 0)>>)
    BY <1>2, GiveBackTurns
  <2> QED
    BY <1>1, <2>1, IsTurn DEF InLoop
<1>4. Loops(s)
  BY <1>1, <1>2, <1>3, LoopOf
<1> QED
  BY <1>4 DEF s

\* A port gets an entry of its own, members and VID one after the other.
LEMMA OwnTurn ==
  ASSUME NEW p \in Ports
  PROVE  TurnOK(OwnEntry(p))
<1> DEFINE e == EntryOf(p)
           o == OutTag(p, 0)
<1>1. IsSetting(o)
  BY AreSettings
<1>2. CASE p = MgtPort
  <2> DEFINE s == <<o>>
  <2>1. IsSeq(s) /\ Elems(s) = {o}
    BY OneElem
  <2> HIDE DEF s, o
  <2>2. TurnOK(s)
    BY <1>1, <2>1, ElemsOf
  <2> QED
    BY <1>2, <2>2 DEF OwnEntry, s, o
<1>3. CASE p # MgtPort
  <2>1. e \in Nums \ {0} /\ e \in Nat /\ e + 1 \in Nat /\ e + 1 # 0 /\ e + 1 # 1
    BY <1>3, Constants DEF EntryOf
  <2> DEFINE a == Members(e, {MgtPort, p})
             b == VID(e, e + 1)
             v == PVID(p, e + 1)
             s == <<o, a, b, v>>
  <2>2. /\ a.op = "members" /\ a.num = e /\ Typed(a)
        /\ b.op = "vid" /\ b.num = e /\ b.vid # 0 /\ Typed(b)
    <3> HIDE DEF e
    <3> QED
      BY <2>1, Constants DEF VID, Members, Typed, OfVID, OfMembers
  <2>3. IsSetting(v)
    BY AreSettings
  <2>4. OwnEntry(p) = s
    BY <1>3 DEF OwnEntry
  <2>5. s \in Seq({o, a, b, v}) /\ DOMAIN s = 1 .. 4 /\ s[1] = o /\ s[2] = a /\ s[3] = b /\ s[4] = v
    <3> HIDE DEF o, a, b, v
    <3> QED
      OBVIOUS
  <2> HIDE DEF e, o, a, b, v, s
  <2>6. \A i \in DOMAIN s : i = 1 \/ i = 2 \/ i = 3 \/ i = 4
    BY <2>5
  <2>7. \A x : IsSetting(x) => x.op \in SettingOps /\ x.op \notin {"vid", "members"} /\ Typed(x)
    BY DEF IsSetting, SettingOps, Typed, OfVID, OfMembers
  <2>8. /\ o.op \in SettingOps /\ o.op \notin {"vid", "members"} /\ Typed(o)
        /\ v.op \in SettingOps /\ v.op \notin {"vid", "members"} /\ Typed(v)
    BY <1>1, <2>3, <2>7
  <2>9. GivesBoth(s)
    <3>1. 3 \in DOMAIN s /\ 2 + 1 = 3
      BY <2>5
    <3> QED
      BY <2>2, <2>5, <2>6, <2>8, <3>1 DEF GivesBoth
  <2>10. TurnOK(s)
    BY <2>1, <2>2, <2>5, <2>6, <2>8, <2>9 DEF TurnOK, IsSeq
  <2> QED
    BY <2>4, <2>10
<1> QED
  BY <1>2, <1>3
-----------------------------------------------------------------------------
\* One turn for each port.
LEMMA PortLoops ==
  ASSUME NEW s, s = [p \in Ports |-> s[p]], \A p \in Ports : InLoop(s[p])
  PROVE  Loops(s)
<1>1. Ports = 1 .. NumPorts /\ NumPorts \in Nat
  BY Constants
<1> QED
  BY <1>1, LoopOf

\* 802.1Q on: the tags of all ports, one after the other.
LEMMA Dot1qOnStep ==
  ASSUME OneSession, Inv, Dot1q(Cli, TRUE)
  PROVE  Inv'
<1> DEFINE s == [p \in Ports |-> OutTag(p, 0)]
           a == Aware(TRUE)
           t == <<a>>
           does == s \o t
<1>1. Command(Cli, does)
  BY DEF Dot1q, SetVlan8021QEnable
<1>2. IsSeq(s) /\ \A x \in Elems(s) : IsSetting(x)
  <2>1. Ports = 1 .. NumPorts /\ NumPorts \in Nat
    BY Constants
  <2>2. s = [i \in 1 .. NumPorts |-> s[i]]
    BY <2>1
  <2>3. \A i \in DOMAIN s : IsSetting(s[i])
    BY AreSettings
  <2> HIDE DEF s
  <2>4. IsSeq(s)
    BY <2>1, <2>2, MakesSeq
  <2> QED
    BY <2>3, <2>4 DEF Elems
<1>3. IsSeq(t) /\ \A x \in Elems(t) : IsSetting(x)
  <2>1. IsSetting(a)
    BY AreSettings
  <2> HIDE DEF a
  <2>2. IsSeq(t) /\ Elems(t) = {a}
    BY OneElem
  <2> QED
    BY <2>1, <2>2
<1> HIDE DEF s, t
<1>4. IsSeq(does) /\ Elems(does) = Elems(s) \union Elems(t)
  BY <1>2, <1>3, ConcatElems
<1> HIDE DEF does
<1>5. \A i \in DOMAIN does : IsSetting(does[i])
  BY <1>2, <1>3, <1>4 DEF Elems
<1>6. \A x : IsSetting(x) => Typed(x) /\ x.op \in SettingOps /\ x.op # "join"
  BY DEF IsSetting, SettingOps, Typed, OfVID, OfMembers
<1>7. \A i \in DOMAIN does : Typed(does[i]) /\ does[i].op \in SettingOps /\ does[i].op # "join"
  BY <1>5, <1>6
<1> QED
  BY <1>1, <1>4, <1>7, StartsJoining

\* 802.1Q off: the default VLAN, and no other one.
LEMMA Dot1qOffStep ==
  ASSUME OneSession, Inv, Dot1q(Cli, FALSE)
  PROVE  Inv'
<1> DEFINE last == MAX_RCP_VLAN_NUM - 1
           c == Clear(last)
           s == [p \in Ports |-> Turn(<<PVID(p, 1), OutTag(p, 3)>>)]
           t == <<InsertNone, Eeprom, Isolated(FALSE), Aware(FALSE)>>
           does == Default \o c \o s \o t
<1>1. Command(Cli, does)
  BY DEF Dot1q, SetVlan8021QEnable
<1>2. Loops(c)
  <2>1. last \in Nat /\ last < MAX_RCP_VLAN_NUM
    BY Constants
  <2> HIDE DEF last
  <2> QED
    BY <2>1, ClearLoops
<1>3. Loops(s)
  <2>1. ASSUME NEW p \in Ports PROVE InLoop(s[p])
    <3>1. TurnOK(<<PVID(p, 1), OutTag(p, 3)>>)
      BY AreSettings, TwoSettings
    <3> QED
      BY <3>1, IsTurn DEF InLoop
  <2>2. s = [p \in Ports |-> s[p]]
    OBVIOUS
  <2> HIDE DEF s
  <2> QED
    BY <2>1, <2>2, PortLoops
<1>4. Loops(t)
  <2> DEFINE a == InsertNone
             b == Eeprom
             d == Isolated(FALSE)
             e == Aware(FALSE)
             u == <<a, b, d, e>>
  <2>1. IsSetting(a) /\ IsSetting(b) /\ IsSetting(d) /\ IsSetting(e)
    BY AreSettings
  <2> HIDE DEF a, b, d, e
  <2>2. u \in Seq({a, b, d, e}) /\ \A i \in DOMAIN u : u[i] \in {a, b, d, e}
    OBVIOUS
  <2> HIDE DEF u
  <2>3. Loops(u)
    BY <2>1, <2>2, SettingsOnly DEF IsSeq
  <2> QED
    BY <2>3 DEF u, a, b, d, e
<1> HIDE DEF c, s, t
<1>5. FromDefault(does)
  <2>1. FromDefault(Default \o c)
    BY <1>2, DefaultFirst, LoopFollows
  <2>2. FromDefault(Default \o c \o s)
    BY <1>3, <2>1, LoopFollows
  <2> QED
    BY <1>4, <2>2, LoopFollows
<1> HIDE DEF does
<1> QED
  BY <1>1, <1>5, StartsSetUp

\* Ports isolated: an entry for each port with the management port.
LEMMA IsolateStep ==
  ASSUME OneSession, Inv, PortIsolate(Cli, TRUE)
  PROVE  Inv'
<1> DEFINE s == [p \in Ports |-> Turn(OwnEntry(p))]
           t == <<PVID(MgtPort, 1), InsertNone, Isolated(TRUE)>>
           does == Default \o s \o Unused \o t
<1>1. Command(Cli, does)
  BY DEF PortIsolate, SetVlanPortIsolateEn
<1>2. Loops(s)
  <2>1. ASSUME NEW p \in Ports PROVE InLoop(s[p])
    BY OwnTurn, IsTurn DEF InLoop
  <2>2. s = [p \in Ports |-> s[p]]
    OBVIOUS
  <2> HIDE DEF s
  <2> QED
    BY <2>1, <2>2, PortLoops
<1>3. Loops(t)
  <2> DEFINE a == PVID(MgtPort, 1)
             b == InsertNone
             d == Isolated(TRUE)
             u == <<a, b, d>>
  <2>1. IsSetting(a) /\ IsSetting(b) /\ IsSetting(d)
    BY AreSettings
  <2> HIDE DEF a, b, d
  <2>2. IsSeq(u) /\ Elems(u) = {a, b, d}
    BY ThreeElems
  <2> HIDE DEF u
  <2>3. Loops(u)
    BY <2>1, <2>2, ElemsOf
  <2> QED
    BY <2>3 DEF u, a, b, d
<1> HIDE DEF s, t
<1>4. FromDefault(does)
  <2>1. FromDefault(Default \o s)
    BY <1>2, DefaultFirst, LoopFollows
  <2>2. FromDefault(Default \o s \o Unused)
    BY <2>1, UnusedLoops, LoopFollows
  <2> QED
    BY <1>3, <2>2, LoopFollows
<1> HIDE DEF does
<1> QED
  BY <1>1, <1>4, StartsSetUp

\* Ports isolated no more.
LEMMA UnisolateStep ==
  ASSUME OneSession, Inv, PortIsolate(Cli, FALSE)
  PROVE  Inv'
<1> DEFINE s == [p \in Ports |-> Turn(<<Insert(p, FALSE), PVID(p, 1)>>)]
           last == NumPorts - 1
           c == Clear(last)
           a == Isolated(FALSE)
           t == <<a>>
           does == Default \o s \o c \o t
<1>1. Command(Cli, does)
  BY DEF PortIsolate, SetVlanPortIsolateEn
<1>2. Loops(s)
  <2>1. ASSUME NEW p \in Ports PROVE InLoop(s[p])
    <3>1. TurnOK(<<Insert(p, FALSE), PVID(p, 1)>>)
      BY AreSettings, TwoSettings
    <3> QED
      BY <3>1, IsTurn DEF InLoop
  <2>2. s = [p \in Ports |-> s[p]]
    OBVIOUS
  <2> HIDE DEF s
  <2> QED
    BY <2>1, <2>2, PortLoops
<1>3. Loops(c)
  <2>1. last \in Nat /\ last < MAX_RCP_VLAN_NUM
    BY Constants
  <2> HIDE DEF last
  <2> QED
    BY <2>1, ClearLoops
<1>4. Loops(t)
  <2>1. IsSetting(a)
    BY AreSettings
  <2> HIDE DEF a
  <2>2. IsSeq(t) /\ Elems(t) = {a}
    BY OneElem
  <2> HIDE DEF t
  <2> QED
    BY <2>1, <2>2, ElemsOf
<1> HIDE DEF s, c, t
<1>5. FromDefault(does)
  <2>1. FromDefault(Default \o s)
    BY <1>2, DefaultFirst, LoopFollows
  <2>2. FromDefault(Default \o s \o c)
    BY <1>3, <2>1, LoopFollows
  <2> QED
    BY <1>4, <2>2, LoopFollows
<1> HIDE DEF does
<1> QED
  BY <1>1, <1>5, StartsSetUp
-----------------------------------------------------------------------------
LEMMA CopyDefaultStep ==
  ASSUME OneSession, Inv, CopyDefault, Next
  PROVE  CopyDefault'
<1>1. TypeInv /\ vid[0] = 1 /\ 0 \in Nums
  BY Constants DEF Inv, DefaultInv
<1>2. CASE vlanVid' = vlanVid /\ scan' = scan
  BY <1>2 DEF CopyDefault
<1>3. CASE ScanRead
  <2>1. vlanVid' = vlanVid
    BY <1>3 DEF ScanRead, devVars
  <2>2. scan'.n = scan.n /\ scan'.of = scan.of
        /\ (scan.of = "vid" => scan'.read = [of |-> "vid", value |-> vid[scan.n]])
    BY <1>1, <1>3 DEF ScanRead, TypeInv, ScanType
  <2> QED
    BY <1>1, <2>1, <2>2 DEF CopyDefault
<1>4. CASE ScanStore
  <2>1. scan'.read = None
    BY <1>4 DEF ScanStore, NextScan
  <2>2. CASE scan.of = "vid"
    BY <1>1, <1>4, <2>1, <2>2 DEF ScanStore, CopyDefault, TypeInv
  <2>3. CASE scan.of # "vid"
    BY <1>4, <2>1, <2>3 DEF ScanStore, CopyDefault
  <2> QED
    BY <2>2, <2>3
<1>5. CASE ScanFail
  BY <1>5 DEF ScanFail, NextScan, devVars, CopyDefault
<1>6. CASE StoreVlanVID(Cli)
  <2> DEFINE x == Work[1]
  <2>1. x.op = "store_vid" /\ Head(todo[Cli]) = x /\ Typed(x)
    BY <1>1, <1>6, HeadIsFirst DEF StoreVlanVID
  <2>2. x.num \in Nums /\ (x.num = 0 <=> x.vid = 1)
    BY <2>1 DEF Typed, OfVID
  <2>3. vlanVid' = [vlanVid EXCEPT ![x.num] = x.vid] /\ scan' = scan
    BY <1>6, <2>1 DEF StoreVlanVID
  <2> QED
    BY <1>1, <2>2, <2>3 DEF CopyDefault, TypeInv
<1>7. CASE Access(Cli) /\ ~StoreVlanVID(Cli)
  <2>1. vlanVid' = vlanVid /\ scan' = scan
    BY <1>7 DEF Access, SetVlanVID, SetVlanPort, StoreVlanPort, SetVlanPortAdd, SetVlanPortDelete, SetVlanPVID,
                PutPVID, SetVlanInsertPVID, PutInsert, SetVlanOutPortTag, PutTag, SetVlan8021Q,
                SetVlanPortIsolate, SetEepromValue, devVars
  <2> QED
    BY <1>2, <2>1
<1>8. CASE Fail(Cli) \/ TakeTurn(Cli) \/ Join(Cli) \/ Quit(Cli) \/ Part(Cli) \/ Leave(Cli) \/ LeaveTagged(Cli)
  <2>1. vlanVid' = vlanVid /\ scan' = scan
    BY <1>8 DEF Fail, TakeTurn, Join, Quit, Part, Leave, LeaveTagged, devVars
  <2> QED
    BY <1>2, <2>1
<1>9. CASE Give(Cli)
  <2>1. vlanVid' = vlanVid /\ scan' = scan
    BY <1>9 DEF Give, Dot1q, PortIsolate, Dot1qAdd, Dot1qDel, Dot1qPortDel, Dot1qPortAdd, Command, devVars
  <2> QED
    BY <1>2, <2>1
<1> QED
  BY <1>3, <1>4, <1>5, <1>6, <1>7, <1>8, <1>9, CliIsOne DEF Next, Refresh, Session

LEMMA InitInv ==
  ASSUME OneSession, Init
  PROVE  Inv /\ CopyDefault
<1>1. 0 \in Nums /\ Nums \subseteq Nat /\ Cli \in Sessions
  BY Constants, CliIsOne
<1>2. Work = <<>> /\ DOMAIN todo = Sessions /\ IsSeq(Work)
  BY <1>1, EmptyIsSeq DEF Init, Work
<1>3. DOMAIN Work = {}
  BY <1>2, NothingLeft
<1>4. /\ \A n \in Nums : vid[n] = (IF n = 0 THEN 1 ELSE 0) /\ member[n] = (IF n = 0 THEN Ports ELSE {})
      /\ \A n \in Nums : vlanVid[n] = 0 /\ vlanPort[n] = {}
      /\ scan.read = None /\ scan.n = 0 /\ scan.of = "vid"
  BY DEF Init
<1>5. TypeInv
  <2>1. /\ vid \in [Nums -> Nat] /\ vlanVid \in [Nums -> Nat]
        /\ member \in [Nums -> SUBSET Ports] /\ vlanPort \in [Nums -> SUBSET Ports]
        /\ errors \in Nat /\ lost \in Nat
    BY DEF Init
  <2>2. ScanType
    BY <1>1 DEF Init, ScanType
  <2> QED
    BY <1>2, <1>3, <2>1, <2>2 DEF TypeInv
<1>6. DefaultInv
  BY <1>1, <1>4 DEF DefaultInv
<1>7. CopyInv /\ ScanInv
  BY <1>3, <1>4 DEF CopyInv, ScanInv
<1>8. Keeps
  BY <1>1, <1>4 DEF Keeps
<1>9. GivesBack
  BY <1>3 DEF GivesBack
<1>10. SetUp
  <2>1. GivesBoth(Work)
    BY <1>3 DEF GivesBoth
  <2>2. AllInDefault
    BY <1>1, <1>4 DEF AllInDefault
  <2>3. Leftovers
    BY <1>4 DEF Leftovers
  <2>4. \A n \in Nums : vid[n] = 0 => member[n] = {}
    BY <1>4
  <2> QED
    BY <1>3, <2>1, <2>2, <2>3, <2>4 DEF SetUp
<1>11. CopyDefault
  BY <1>1, <1>4 DEF CopyDefault
<1> QED
  BY <1>5, <1>6, <1>7, <1>8, <1>9, <1>10, <1>11 DEF Inv, TableInv

\* A command is given.
LEMMA GiveStep ==
  ASSUME OneSession, Inv, CopyDefault, FindsIdle, Give(Cli)
  PROVE  Inv'
<1>1. ASSUME NEW on \in BOOLEAN, Dot1q(Cli, on) PROVE Inv'
  BY <1>1, Dot1qOnStep, Dot1qOffStep
<1>2. ASSUME NEW on \in BOOLEAN, PortIsolate(Cli, on) PROVE Inv'
  BY <1>2, IsolateStep, UnisolateStep
<1>3. ASSUME NEW v \in Vids, Dot1qAdd(Cli, v) PROVE Inv'
  <2>1. VlanIdleNum # 0
    BY <1>3, CliIsOne DEF FindsIdle
  <2> QED
    BY <1>3, <2>1, AddStep
<1>4. ASSUME NEW v \in Vids, Dot1qDel(Cli, v) PROVE Inv'
  BY <1>4, DelStep
<1>5. ASSUME NEW v \in Vids, NEW list \in PortLists, Dot1qPortDel(Cli, v, list) PROVE Inv'
  BY <1>5, PortDelStep
<1>6. ASSUME NEW v \in Vids, NEW list \in PortLists, NEW tagged \in BOOLEAN, Dot1qPortAdd(Cli, v, list, tagged)
      PROVE  Inv'
  BY <1>6, PortAddStep
<1> QED
  BY <1>1, <1>2, <1>3, <1>4, <1>5, <1>6 DEF Give

LEMMA SessionStep ==
  ASSUME OneSession, Inv, Session(Cli)
  PROVE  Inv'
<1>1. CASE Access(Cli)
  BY <1>1, VIDWritten, VIDStored, MembersWritten, MembersStored, MembersRead, SettingSteps DEF Access
<1>2. CASE Fail(Cli) \/ TakeTurn(Cli)
  BY <1>2, FailStep, TurnStep
<1>3. CASE Join(Cli) \/ Quit(Cli)
  BY <1>3, JoinStep, QuitStep
<1>4. CASE Part(Cli) \/ Leave(Cli) \/ LeaveTagged(Cli)
  BY <1>4, PartStep, LeaveStep, LeaveTaggedStep
<1> QED
  BY <1>1, <1>2, <1>3, <1>4 DEF Session

\* Nothing the invariant is about changes.
LEMMA StutterStep ==
  ASSUME Inv, CopyDefault, UNCHANGED vars
  PROVE  Inv' /\ CopyDefault'
<1>1. UNCHANGED <<vid, member, vlanVid, vlanPort, scan, todo, overtaken, errors, lost>>
  BY DEF vars, regVars, devVars, countVars
<1>2. Work' = Work
  BY <1>1 DEF Work
<1>3. TypeInv' /\ DefaultInv'
  BY <1>1, <1>2 DEF Inv, TypeInv, ScanType, DefaultInv
<1>4. Safe' => TableInv'
  <2> SUFFICES ASSUME Safe' PROVE TableInv'
    OBVIOUS
  <2>1. Safe /\ TableInv
    BY <1>1 DEF Inv, Safe
  <2>2. CopyInv' /\ ScanInv'
    BY <1>1, <1>2, <2>1 DEF TableInv, CopyInv, ScanInv, Storing
  <2> QED
    BY <1>1, <2>1, <2>2, SameRules DEF Inv, TableInv
<1>5. CopyDefault'
  BY <1>1 DEF CopyDefault
<1> QED
  BY <1>3, <1>4, <1>5 DEF Inv
-----------------------------------------------------------------------------
\* Every step but one that adds a VLAN to a full table keeps the invariant.
LEMMA NextInv ==
  ASSUME OneSession, Inv, CopyDefault, [Next /\ FindsIdle]_vars
  PROVE  Inv' /\ CopyDefault'
<1>1. CASE Next /\ FindsIdle
  <2>1. CASE Refresh
    BY <1>1, <2>1, RefreshStep, CopyDefaultStep
  <2>2. CASE Session(Cli)
    BY <1>1, <2>2, SessionStep, CopyDefaultStep
  <2>3. CASE Give(Cli)
    BY <1>1, <2>3, GiveStep, CopyDefaultStep
  <2> QED
    BY <1>1, <2>1, <2>2, <2>3, CliIsOne DEF Next
<1>2. CASE UNCHANGED vars
  BY <1>2, StutterStep
<1> QED
  BY <1>1, <1>2

\* Whatever fails, is lost or is overtaken, entry 0 has VID 1 and no other entry has it
\* (RCP_SetVlanPortIsolate, RCP_SetVlan8021QEnable, cli_int_vlan_dotlq_add).
THEOREM DefaultVlanStays ==
  ASSUME OneSession
  PROVE  SafeSpec /\ [][FindsIdle]_vars => []DefaultInv
<1>1. Init => Inv /\ CopyDefault
  BY InitInv
<1>2. Inv /\ CopyDefault /\ [Next /\ FindsIdle]_vars => Inv' /\ CopyDefault'
  BY NextInv
<1>3. Inv => DefaultInv
  BY DEF Inv
<1>4. [Next]_vars /\ [FindsIdle]_vars => [Next /\ FindsIdle]_vars
  OBVIOUS
<1> QED
  BY <1>1, <1>2, <1>3, <1>4, PTL DEF SafeSpec

\* Every port is in a VLAN of the switch at every moment, also in the middle of a
\* command and after one that failed half-way, whatever the ports, the entries, the
\* VIDs and the commands are: a port joins a VLAN before it leaves another.  It holds
\* of one session that adds no VLAN to a full table, until a write is lost, the refresh
\* undoes a store of the copy or a second access fails.
THEOREM PortsKeepVlanCorrect ==
  ASSUME OneSession
  PROVE  SafeSpec /\ [][FindsIdle]_vars => []PortsKeepVlan
<1>1. Init => Inv /\ CopyDefault
  BY InitInv
<1>2. Inv /\ CopyDefault /\ [Next /\ FindsIdle]_vars => Inv' /\ CopyDefault'
  BY NextInv
<1>3. Inv => PortsKeepVlan
  BY DEF Inv, Safe, TableInv, Keeps, PortsKeepVlan
<1>4. [Next]_vars /\ [FindsIdle]_vars => [Next /\ FindsIdle]_vars
  OBVIOUS
<1> QED
  BY <1>1, <1>2, <1>3, <1>4, PTL DEF SafeSpec
-----------------------------------------------------------------------------
\* PvidIsMember: while nothing fails, is lost or is overtaken.
Calm == lost = 0 /\ ~overtaken /\ errors = 0

\* The index of port p is of a VLAN the port is in, or of the default one.
Good(p) == pvid[p] = 0 \/ (vid[pvid[p]] # 0 /\ p \in member[pvid[p]])

\* The write that gives port q the index t, and the other port the one it has.
Puts(x, q, t, index) ==
  /\ x.op = "put_pvid" /\ DOMAIN x.of \subseteq Ports /\ q \in DOMAIN x.of /\ x.of[q] = t
  /\ \A r \in DOMAIN x.of : r = q \/ x.of[r] = index[r]

SetsBack(x, p) == x.op = "pvid" /\ x.port = p /\ x.vid = 1

IsPVID(x) == x.op = "pvid" => x \in [op : {"pvid"}, port : Ports, vid : Nat]

ScriptOps == SettingOps \union {"vid", "store_vid", "members", "store_members", "turn"}

\* 802.1Q is turned off or ports are isolated no more: every index is set back.
Resets(x, p) ==
  \/ SetsBack(x, p)
  \/ x.op = "put_pvid" /\ p \in DOMAIN x.of /\ x.of[p] = 0
  \/ x.op = "turn" /\ \E i \in DOMAIN x.does : SetsBack(x.does[i], p)

ResetStep(x, index) ==
  /\ x.op \in ScriptOps /\ IsPVID(x)
  /\ x.op = "pvid" => x.vid = 1
  /\ x.op = "put_pvid" => \E q \in Ports : Puts(x, q, 0, index)
  /\ x.op = "turn" => \A i \in DOMAIN x.does :
       x.does[i].op # "put_pvid" /\ IsPVID(x.does[i]) /\ (x.does[i].op = "pvid" => x.does[i].vid = 1)

Resetting ==
  /\ \A i \in DOMAIN Work : ResetStep(Work[i], pvid) /\ (Work[i].op = "put_pvid" => i = 1)
  /\ \A p \in Ports : pvid[p] = 0 \/ \E i \in DOMAIN Work : Resets(Work[i], p)

\* Ports are isolated: each one gets the index of an entry of its own.
Others == Ports \ {MgtPort}
OwnVID(n) == vid[n] = n + 1
Own(p) == OwnVID(EntryOf(p)) /\ p \in member[EntryOf(p)]

GivesVID(x, n) == x.op = "vid" /\ x.num = n
GivesMember(x, p) == x.op = "members" /\ x.num = EntryOf(p)
GivesIndex(x, p) == x.op = "pvid" /\ x.port = p
OwnTurnOf(x, p) == x.op = "turn" /\ x.does = OwnEntry(p)

\* What is written to the entries of ports is what they have in the end.
OwnStep(x) ==
  /\ x.op \in ScriptOps /\ IsPVID(x)
  /\ x.op = "vid" /\ x.num \in 1 .. NumPorts - 1 => x.vid = x.num + 1
  /\ x.op = "members" => \A p \in Others : EntryOf(p) = x.num => p \in x.ports
  /\ x.op = "turn" => \/ \E p \in Ports : x.does = OwnEntry(p)
                      \/ \A i \in DOMAIN x.does : x.does[i].op \in {"vid", "members"} /\ x.does[i].num >= NumPorts
  /\ x.op = "pvid" => x.vid = IF x.port = MgtPort THEN 1 ELSE EntryOf(x.port) + 1

\* The port has its entry but for what comes before step i.
Promised(l, i, p) ==
  /\ \A j \in DOMAIN l : j < i => l[j].op # "turn"
  /\ \A n \in 1 .. EntryOf(p) - 1 : OwnVID(n)
  /\ OwnVID(EntryOf(p)) \/ \E j \in DOMAIN l : j < i /\ GivesVID(l[j], EntryOf(p))
  /\ p \in member[EntryOf(p)] \/ \E j \in DOMAIN l : j < i /\ GivesMember(l[j], p)

Isolating ==
  /\ \A i \in DOMAIN Work :
       /\ OwnStep(Work[i])
       /\ Work[i].op = "put_pvid" =>
            /\ i = 1
            /\ \/ Puts(Work[i], MgtPort, 0, pvid)
               \/ \E p \in Others : Puts(Work[i], p, EntryOf(p), pvid) /\ Own(p)
       /\ \A p \in Others : GivesIndex(Work[i], p) => Promised(Work, i, p)
  /\ \A i, j \in DOMAIN Work : \A p, q \in Ports :
       i < j /\ OwnTurnOf(Work[i], p) /\ OwnTurnOf(Work[j], q) => p < q
  /\ \A p \in Others :
       \/ \E i \in DOMAIN Work : OwnTurnOf(Work[i], p) \/ GivesIndex(Work[i], p)
       \/ Own(p) /\ (pvid[p] = EntryOf(p) \/ \E i \in DOMAIN Work : Puts(Work[i], p, EntryOf(p), pvid))

\* Ports join: an untagged one gets the index of the entry it is about to join.
EntryFor(v, table) == Min({n \in Nums : table[n] = v})

JoinOps == SettingOps \union {"join", "add", "quit", "members", "store_members", "delete"}

InOrJoins(i, p, n) == p \in member[n] \/ \E j \in DOMAIN Work : j > i /\ Adds(Work[j], p, n)

\* The port gets index n, and no other one.
Names(x, p, n, index, table) ==
  \/ x.op = "pvid" /\ x.port = p /\ EntryFor(x.vid, table) = n
  \/ Puts(x, p, n, index)

Fits(x, p, n, index, table) ==
  /\ x.op = "pvid" /\ x.port = p => EntryFor(x.vid, table) = n
  /\ x.op = "put_pvid" /\ p \in DOMAIN x.of => x.of[p] \in {index[p], n}

JoinStepOf(x, table) ==
  /\ x.op \in JoinOps /\ IsPVID(x)
  /\ x.op = "pvid" => x.port # MgtPort /\ x.vid \in Vids /\ \E n \in Nums : table[n] = x.vid

\* What a port quits is not what its index is of, or will be.
Stays(i, p, n) ==
  /\ pvid[p] \in {0, n} \/ \E j \in DOMAIN Work : j < i /\ Names(Work[j], p, n, pvid, vid)
  /\ \A j \in DOMAIN Work : j < i => Fits(Work[j], p, n, pvid, vid)
  /\ \A j \in DOMAIN Work : j > i => Work[j].op \in {"tag", "join"}

Indexing ==
  /\ \A i \in DOMAIN Work :
       /\ JoinStepOf(Work[i], vid)
       /\ Work[i].op \in {"put_pvid", "members", "delete"} => i = 1
       /\ Work[i].op = "pvid" => InOrJoins(i, Work[i].port, EntryFor(Work[i].vid, vid))
       /\ Work[i].op = "put_pvid" =>
            \E q \in Others, n \in Nums : Puts(Work[i], q, n, pvid) /\ vid[n] # 0 /\ InOrJoins(i, q, n)
       /\ Work[i].op = "quit" => Stays(i, Work[i].port, Work[i].num)
  /\ 1 \in DOMAIN Work /\ Work[1].op = "delete" =>
       2 \in DOMAIN Work /\ Work[2].op = "quit" /\ Work[2].port = Work[1].port /\ Work[2].num # Work[1].num
  /\ 1 \in DOMAIN Work /\ Work[1].op = "members" =>
       \/ member[Work[1].num] \subseteq Work[1].ports
       \/ /\ 2 \in DOMAIN Work /\ Work[2].op = "quit" /\ Work[2].num # Work[1].num
          /\ member[Work[1].num] \subseteq Work[1].ports \union {Work[2].port}
  /\ \A p \in Ports : pvid[p] = 0 \/ (vid[pvid[p]] # 0 /\ InOrJoins(0, p, pvid[p]))

\* Ports part from entry n: before, their indices of it are set back.
PartOps == SettingOps \union {"part", "leave", "leave_tagged", "add", "delete",
                              "members", "store_members", "vid", "store_vid"}

Zeroes(x, p, index) ==
  \/ x.op \in {"part", "leave", "leave_tagged"} /\ x.port = p
  \/ SetsBack(x, p)
  \/ Puts(x, p, 0, index)

Removes(x, p, n) == Takes(x, p, n) \/ (x.op = "vid" /\ x.vid = 0)

UnindexingFrom(n) ==
  /\ \A i \in DOMAIN Work :
       /\ Work[i].op \in PartOps /\ IsPVID(Work[i])
       /\ Work[i].op \in {"part", "leave", "delete", "vid"} => Work[i].num = n
       /\ Work[i].op \in {"part", "leave", "leave_tagged"} => Work[i].vid = vid[n]
       /\ Work[i].op = "vid" => i + 1 \notin DOMAIN Work
       /\ Work[i].op = "add" => Work[i].num = 0
       /\ Work[i].op = "members" => Work[i].num = n \/ (i = 1 /\ Work[i].num = 0 /\ member[0] \subseteq Work[i].ports)
       /\ Work[i].op = "pvid" => Work[i].vid = 1
       /\ Work[i].op = "put_pvid" => i = 1 /\ \E q \in Ports : Puts(Work[i], q, 0, pvid)
  /\ \A i \in DOMAIN Work, p \in Ports : pvid[p] = n /\ Removes(Work[i], p, n) =>
       \E j \in DOMAIN Work : j < i /\ Zeroes(Work[j], p, pvid)
  /\ \A p \in Ports : Good(p)

Unindexing == \E n \in Nums \ {0} : UnindexingFrom(n)

IndexInv ==
  /\ pvid \in [Ports -> Nums] /\ pvid[MgtPort] = 0
  /\ Resetting \/ Isolating \/ Indexing \/ Unindexing

PvidInv == Calm => IndexInv
-----------------------------------------------------------------------------
\* One step: Work[1] is replaced by `more`.
LEMMA Places ==
  ASSUME OneSession, TypeInv, Work # <<>>, NEW more, IsSeq(more), Goon(Cli, more)
  PROVE  /\ DOMAIN Work \subseteq Nat \ {0} /\ DOMAIN Work' \subseteq Nat \ {0} /\ DOMAIN more \subseteq Nat \ {0}
         /\ 1 \in DOMAIN Work
         /\ \A i \in DOMAIN more : i \in DOMAIN Work' /\ Work'[i] = more[i]
         /\ \A k \in DOMAIN Work : k > 1 =>
              /\ Later(k, more) \in DOMAIN Work' /\ Work'[Later(k, more)] = Work[k]
              /\ Later(k, more) \notin DOMAIN more
         /\ \A i \in DOMAIN Work' : i \in DOMAIN more \/ \E k \in DOMAIN Work : k > 1 /\ i = Later(k, more)
         /\ \A i \in DOMAIN more : \A k \in DOMAIN Work : k > 1 => i < Later(k, more)
         /\ \A j, k \in DOMAIN Work : j < k <=> Later(j, more) < Later(k, more)
         /\ \A k \in DOMAIN Work : k = 1 \/ k > 1
<1>1. /\ DOMAIN Work \subseteq Nat \ {0} /\ DOMAIN Work' \subseteq Nat \ {0} /\ DOMAIN more \subseteq Nat \ {0}
      /\ 1 \in DOMAIN Work
      /\ \A i \in DOMAIN more : i \in DOMAIN Work' /\ Work'[i] = more[i]
      /\ \A k \in DOMAIN Work : k > 1 =>
           /\ Later(k, more) \in DOMAIN Work' /\ Work'[Later(k, more)] = Work[k]
           /\ Later(k, more) \notin DOMAIN more
      /\ \A i \in DOMAIN Work' : i \in DOMAIN more \/ \E k \in DOMAIN Work : k > 1 /\ i = Later(k, more)
      /\ \A i \in DOMAIN more : \A k \in DOMAIN Work : k > 1 => i < Later(k, more)
      /\ \A j, k \in DOMAIN Work : j < k <=> Later(j, more) < Later(k, more)
  BY Positions
<1>2. ASSUME NEW k \in DOMAIN Work PROVE k = 1 \/ k > 1
  <2>1. k \in Nat \ {0}
    BY <1>1
  <2> QED
    BY <2>1
<1> QED
  BY <1>1, <1>2

\* Indices are set back.
LEMMA ResetGoesOn ==
  ASSUME OneSession, TypeInv, Work # <<>>, NEW more, IsSeq(more), Goon(Cli, more), Resetting,
         \A i \in DOMAIN more : ResetStep(more[i], pvid) /\ (more[i].op = "put_pvid" => i = 1 /\ pvid' = pvid),
         \A p \in Ports : \/ pvid'[p] = 0
                          \/ pvid'[p] = pvid[p] /\ ~Resets(Work[1], p)
                          \/ \E i \in DOMAIN more : Resets(more[i], p)
  PROVE  Resetting'
<1>1. /\ 1 \in DOMAIN Work
      /\ \A i \in DOMAIN more : i \in DOMAIN Work' /\ Work'[i] = more[i]
      /\ \A k \in DOMAIN Work : k > 1 =>
           /\ Later(k, more) \in DOMAIN Work' /\ Work'[Later(k, more)] = Work[k]
      /\ \A i \in DOMAIN Work' : i \in DOMAIN more \/ \E k \in DOMAIN Work : k > 1 /\ i = Later(k, more)
      /\ \A k \in DOMAIN Work : k = 1 \/ k > 1
  BY Places
<1>2. \A x : ResetStep(x, pvid) /\ (x.op # "put_pvid" \/ pvid' = pvid) => ResetStep(x, pvid')
  BY DEF ResetStep, Puts
<1>3. ASSUME NEW i \in DOMAIN Work'
      PROVE  ResetStep(Work'[i], pvid') /\ (Work'[i].op = "put_pvid" => i = 1)
  <2>1. CASE i \in DOMAIN more
    BY <1>1, <1>2, <2>1
  <2>2. CASE \E k \in DOMAIN Work : k > 1 /\ i = Later(k, more)
    <3>1. PICK k \in DOMAIN Work : k > 1 /\ i = Later(k, more)
      BY <2>2
    <3>2. Work'[i] = Work[k] /\ ResetStep(Work[k], pvid) /\ Work[k].op # "put_pvid"
      BY <1>1, <3>1 DEF Resetting
    <3> QED
      BY <1>2, <3>2
  <2> QED
    BY <1>1, <2>1, <2>2
<1>4. ASSUME NEW p \in Ports PROVE pvid'[p] = 0 \/ \E i \in DOMAIN Work' : Resets(Work'[i], p)
  <2>1. CASE pvid'[p] = pvid[p] /\ ~Resets(Work[1], p)
    <3>1. pvid[p] = 0 \/ \E i \in DOMAIN Work : Resets(Work[i], p)
      BY DEF Resetting
    <3> QED
      BY <1>1, <2>1, <3>1
  <2>2. CASE \E i \in DOMAIN more : Resets(more[i], p)
    BY <1>1, <2>2
  <2> QED
    BY <2>1, <2>2
<1> QED
  BY <1>3, <1>4 DEF Resetting

\* Ports part.
PartStepOf(x, n, v) ==
  /\ x.op \in PartOps /\ IsPVID(x)
  /\ x.op \in {"part", "leave", "delete", "vid"} => x.num = n
  /\ x.op \in {"part", "leave", "leave_tagged"} => x.vid = v
  /\ x.op = "add" => x.num = 0
  /\ x.op = "pvid" => x.vid = 1

LEMMA UnindexGoesOn ==
  ASSUME OneSession, TypeInv, Work # <<>>, NEW more, IsSeq(more), Goon(Cli, more),
         NEW n \in Nums, UnindexingFrom(n), UNCHANGED vid,
         \A i \in DOMAIN more :
           /\ PartStepOf(more[i], n, vid[n]) /\ more[i].op # "vid"
           /\ more[i].op = "members" =>
                more[i].num = n \/ (i = 1 /\ more[i].num = 0 /\ member[0] \subseteq more[i].ports)
           /\ more[i].op = "put_pvid" => i = 1 /\ pvid' = pvid /\ \E q \in Ports : Puts(more[i], q, 0, pvid),
         member'[0] = member[0] \/ \A i \in DOMAIN more : more[i].op # "members",
         \A i \in DOMAIN more, p \in Ports : pvid'[p] = n /\ Removes(more[i], p, n) =>
           \E j \in DOMAIN more : j < i /\ Zeroes(more[j], p, pvid'),
         \A p \in Ports : pvid'[p] = n /\ Zeroes(Work[1], p, pvid) =>
           \E j \in DOMAIN more : Zeroes(more[j], p, pvid'),
         \A p \in Ports : pvid'[p] = n => pvid[p] = n,
         \A p \in Ports : Good(p)'
  PROVE  UnindexingFrom(n)'
<1>1. /\ 1 \in DOMAIN Work
      /\ \A i \in DOMAIN more : i \in DOMAIN Work' /\ Work'[i] = more[i]
      /\ \A k \in DOMAIN Work : k > 1 =>
           /\ Later(k, more) \in DOMAIN Work' /\ Work'[Later(k, more)] = Work[k]
      /\ \A i \in DOMAIN Work' : i \in DOMAIN more \/ \E k \in DOMAIN Work : k > 1 /\ i = Later(k, more)
      /\ \A i \in DOMAIN more : \A k \in DOMAIN Work : k > 1 => i < Later(k, more)
      /\ \A j, k \in DOMAIN Work : j < k <=> Later(j, more) < Later(k, more)
      /\ \A k \in DOMAIN Work : k = 1 \/ k > 1
  BY Places
<1>2. ASSUME NEW k \in DOMAIN Work, k > 1
      PROVE  /\ k # 1 /\ PartStepOf(Work[k], n, vid[n]) /\ Work[k].op # "put_pvid"
             /\ Work[k].op = "vid" => k + 1 \notin DOMAIN Work
             /\ Work[k].op = "members" => Work[k].num = n
  <2>1. k # 1
    <3>1. DOMAIN Work \subseteq Nat
      BY Places
    <3> QED
      BY <1>2, <3>1
  <2> QED
    BY <2>1 DEF UnindexingFrom, PartStepOf
<1>3. ASSUME NEW i \in DOMAIN Work'
      PROVE  /\ PartStepOf(Work'[i], n, vid'[n])
             /\ Work'[i].op = "members" =>
                  Work'[i].num = n \/ (i = 1 /\ Work'[i].num = 0 /\ member'[0] \subseteq Work'[i].ports)
             /\ Work'[i].op = "put_pvid" => i = 1 /\ \E q \in Ports : Puts(Work'[i], q, 0, pvid')
  <2>1. CASE i \in DOMAIN more
    <3>1. Work'[i] = more[i]
      BY <1>1, <2>1
    <3> QED
      BY <2>1, <3>1
  <2>2. CASE \E k \in DOMAIN Work : k > 1 /\ i = Later(k, more)
    BY <1>1, <1>2, <2>2
  <2> QED
    BY <1>1, <2>1, <2>2
<1>4. ASSUME NEW i \in DOMAIN Work', Work'[i].op = "vid" PROVE i + 1 \notin DOMAIN Work'
  <2>1. i \notin DOMAIN more
    BY <1>1, <1>4
  <2>2. PICK k \in DOMAIN Work : k > 1 /\ i = Later(k, more)
    BY <1>1, <2>1
  <2>3. k + 1 \notin DOMAIN Work
    BY <1>1, <1>2, <1>4, <2>2
  <2>4. DOMAIN Work' \subseteq Nat \ {0} /\ DOMAIN Work \subseteq Nat \ {0} /\ DOMAIN Work = 1 .. Len(Work)
    BY Places, WorkStarts
  <2>5. ASSUME i + 1 \in DOMAIN Work' PROVE FALSE
    <3>1. i \in Nat /\ i < i + 1 /\ k \in Nat
      BY <2>2, <2>4
    <3>2. i + 1 \notin DOMAIN more
      <4>1. i + 1 \in DOMAIN more => i + 1 < i
        BY <1>1, <2>2
      <4> QED
        BY <3>1, <4>1
    <3>3. PICK m \in DOMAIN Work : m > 1 /\ i + 1 = Later(m, more)
      BY <1>1, <2>5, <3>2
    <3>4. k < m
      BY <1>1, <2>2, <3>1, <3>3
    <3>5. Len(Work) \in Nat
      BY WorkStarts
    <3>6. k + 1 \in DOMAIN Work
      <4>1. k \in 1 .. Len(Work) /\ m \in 1 .. Len(Work)
        BY <2>4
      <4> QED
        BY <2>4, <3>4, <3>5, <4>1
    <3> QED
      BY <2>3, <3>6
  <2> QED
    BY <2>5
<1>5. ASSUME NEW i \in DOMAIN Work', NEW p \in Ports, pvid'[p] = n, Removes(Work'[i], p, n)
      PROVE  \E j \in DOMAIN Work' : j < i /\ Zeroes(Work'[j], p, pvid')
  <2>1. CASE i \in DOMAIN more
    <3>1. Work'[i] = more[i]
      BY <1>1, <2>1
    <3>2. \E j \in DOMAIN more : j < i /\ Zeroes(more[j], p, pvid')
      BY <1>5, <2>1, <3>1
    <3> QED
      BY <1>1, <3>2
  <2>2. CASE \E k \in DOMAIN Work : k > 1 /\ i = Later(k, more)
    <3>1. PICK k \in DOMAIN Work : k > 1 /\ i = Later(k, more)
      BY <2>2
    <3>2. Removes(Work[k], p, n) /\ pvid[p] = n
      BY <1>1, <1>5, <3>1
    <3>3. PICK j \in DOMAIN Work : j < k /\ Zeroes(Work[j], p, pvid)
      BY <3>2 DEF UnindexingFrom
    <3>4. CASE j = 1
      BY <1>1, <1>5, <3>1, <3>3, <3>4
    <3>5. CASE j > 1
      <4>1. Work'[Later(j, more)] = Work[j] /\ Later(j, more) \in DOMAIN Work' /\ Later(j, more) < i
        BY <1>1, <3>1, <3>3, <3>5
      <4>2. Zeroes(Work[j], p, pvid')
        BY <1>2, <3>3, <3>5 DEF Zeroes, Puts
      <4> QED
        BY <4>1, <4>2
    <3> QED
      BY <1>1, <3>4, <3>5
  <2> QED
    BY <1>1, <2>1, <2>2
<1> QED
  BY <1>3, <1>4, <1>5 DEF UnindexingFrom, PartStepOf
\* Ports are isolated.
Indexed(x, p, index) == index[p] = EntryOf(p) \/ Puts(x, p, EntryOf(p), index)

LEMMA EntriesOf ==
  \A p \in Others : EntryOf(p) \in Nums /\ EntryOf(p) \in 1 .. NumPorts - 1
<1> SUFFICES ASSUME NEW p \in Others PROVE EntryOf(p) \in Nums /\ EntryOf(p) \in 1 .. NumPorts - 1
  OBVIOUS
<1>1. p \in 1 .. NumPorts /\ p # MgtPort /\ MgtPort \in 1 .. NumPorts /\ NumPorts \in Nat
  BY Constants DEF Others
<1>2. EntryOf(p) \in 1 .. NumPorts - 1
  BY <1>1 DEF EntryOf
<1> QED
  BY <1>1, <1>2, Constants

LEMMA IsolateGoesOn ==
  ASSUME OneSession, TypeInv, Work # <<>>, NEW more, IsSeq(more), Goon(Cli, more), Isolating,
         \A i \in DOMAIN more :
           /\ OwnStep(more[i]) /\ more[i].op # "turn"
           /\ more[i].op = "put_pvid" =>
                /\ i = 1 /\ pvid' = pvid
                /\ \/ Puts(more[i], MgtPort, 0, pvid)
                   \/ \E p \in Others : Puts(more[i], p, EntryOf(p), pvid) /\ Own(p)'
           /\ \A p \in Others : GivesIndex(more[i], p) => Promised(more, i, p)',
         \A n \in 1 .. NumPorts - 1 : OwnVID(n) \/ GivesVID(Work[1], n) => OwnVID(n)',
         \A p \in Others : p \in member[EntryOf(p)] \/ GivesMember(Work[1], p) => p \in member'[EntryOf(p)],
         \A p \in Others : OwnTurnOf(Work[1], p) \/ GivesIndex(Work[1], p) =>
           \E i \in DOMAIN more : GivesIndex(more[i], p) \/ (Own(p)' /\ Indexed(more[i], p, pvid')),
         \A p \in Others : Indexed(Work[1], p, pvid) =>
           pvid'[p] = EntryOf(p) \/ \E i \in DOMAIN more : Indexed(more[i], p, pvid')
  PROVE  Isolating'
<1>1. /\ 1 \in DOMAIN Work
      /\ \A i \in DOMAIN more : i \in DOMAIN Work' /\ Work'[i] = more[i]
      /\ \A k \in DOMAIN Work : k > 1 =>
           /\ Later(k, more) \in DOMAIN Work' /\ Work'[Later(k, more)] = Work[k]
      /\ \A i \in DOMAIN Work' : i \in DOMAIN more \/ \E k \in DOMAIN Work : k > 1 /\ i = Later(k, more)
      /\ \A i \in DOMAIN more : \A k \in DOMAIN Work : k > 1 => i < Later(k, more)
      /\ \A j, k \in DOMAIN Work : j < k <=> Later(j, more) < Later(k, more)
      /\ \A k \in DOMAIN Work : k = 1 \/ k > 1
  BY Places
<1>2. ASSUME NEW k \in DOMAIN Work, k > 1 PROVE k # 1
  <2>1. k \in Nat
    BY Places
  <2> QED
    BY <1>2, <2>1
<1>3. ASSUME NEW n \in 1 .. NumPorts - 1, OwnVID(n) PROVE OwnVID(n)'
  BY <1>3
<1>4. ASSUME NEW i \in DOMAIN Work'
      PROVE  /\ OwnStep(Work'[i])
             /\ Work'[i].op = "put_pvid" =>
                  /\ i = 1
                  /\ \/ Puts(Work'[i], MgtPort, 0, pvid')
                     \/ \E p \in Others : Puts(Work'[i], p, EntryOf(p), pvid') /\ Own(p)'
  <2>1. CASE i \in DOMAIN more
    <3>1. Work'[i] = more[i]
      BY <1>1, <2>1
    <3> QED
      BY <2>1, <3>1
  <2>2. CASE \E k \in DOMAIN Work : k > 1 /\ i = Later(k, more)
    BY <1>1, <1>2, <2>2 DEF Isolating
  <2> QED
    BY <1>1, <2>1, <2>2
<1>5. ASSUME NEW i \in DOMAIN Work', NEW p \in Others, GivesIndex(Work'[i], p) PROVE Promised(Work, i, p)'
  <2>1. CASE i \in DOMAIN more
    <3>1. Promised(more, i, p)' /\ DOMAIN Work' \subseteq Nat \ {0}
      BY <1>1, <1>5, <2>1, Places
    <3>2. ASSUME NEW j \in DOMAIN Work', j < i PROVE Work'[j].op # "turn"
      <4>1. CASE j \in DOMAIN more
        BY <1>1, <4>1
      <4>2. CASE \E k \in DOMAIN Work : k > 1 /\ j = Later(k, more)
        <5>1. i < j
          BY <1>1, <2>1, <4>2
        <5> QED
          BY <3>1, <3>2, <5>1
      <4> QED
        BY <1>1, <4>1, <4>2
    <3> QED
      BY <1>1, <3>1, <3>2 DEF Promised
  <2>2. CASE \E k \in DOMAIN Work : k > 1 /\ i = Later(k, more)
    <3>1. PICK k \in DOMAIN Work : k > 1 /\ i = Later(k, more)
      BY <2>2
    <3>2. Promised(Work, k, p) /\ k # 1
      BY <1>1, <1>2, <1>5, <3>1 DEF Isolating
    <3>3. ASSUME NEW j \in DOMAIN Work', j < i PROVE Work'[j].op # "turn"
      <4>1. CASE j \in DOMAIN more
        BY <1>1, <4>1
      <4>2. CASE \E m \in DOMAIN Work : m > 1 /\ j = Later(m, more)
        <5>1. PICK m \in DOMAIN Work : m > 1 /\ j = Later(m, more)
          BY <4>2
        <5>2. m < k
          BY <1>1, <3>1, <3>3, <5>1
        <5> QED
          BY <1>1, <3>2, <5>1, <5>2 DEF Promised
      <4> QED
        BY <1>1, <4>1, <4>2
    <3>4. ASSUME NEW n \in 1 .. EntryOf(p) - 1 PROVE OwnVID(n)'
      <4>1. OwnVID(n)
        BY <3>2 DEF Promised
      <4>2. n \in 1 .. NumPorts - 1
        <5>1. EntryOf(p) \in 1 .. NumPorts - 1 /\ NumPorts \in Nat
          BY EntriesOf, Constants
        <5> QED
          BY <5>1
      <4> QED
        BY <4>1, <4>2
    <3>5. OwnVID(EntryOf(p))' \/ \E j \in DOMAIN Work' : j < i /\ GivesVID(Work'[j], EntryOf(p))
      <4>0. EntryOf(p) \in 1 .. NumPorts - 1
        BY EntriesOf
      <4>1. CASE OwnVID(EntryOf(p)) \/ GivesVID(Work[1], EntryOf(p))
        BY <4>0, <4>1
      <4>2. CASE \E j \in DOMAIN Work : j > 1 /\ j < k /\ GivesVID(Work[j], EntryOf(p))
        BY <1>1, <3>1, <4>2
      <4> QED
        BY <1>1, <3>2, <4>1, <4>2 DEF Promised
    <3>6. p \in member'[EntryOf(p)] \/ \E j \in DOMAIN Work' : j < i /\ GivesMember(Work'[j], p)
      <4>1. CASE p \in member[EntryOf(p)] \/ GivesMember(Work[1], p)
        BY <4>1
      <4>2. CASE \E j \in DOMAIN Work : j > 1 /\ j < k /\ GivesMember(Work[j], p)
        BY <1>1, <3>1, <4>2
      <4> QED
        BY <1>1, <3>2, <4>1, <4>2 DEF Promised
    <3> QED
      BY <3>3, <3>4, <3>5, <3>6 DEF Promised
  <2> QED
    BY <1>1, <2>1, <2>2
<1>6. ASSUME NEW i \in DOMAIN Work', NEW j \in DOMAIN Work', NEW p \in Ports, NEW q \in Ports,
             i < j, OwnTurnOf(Work'[i], p), OwnTurnOf(Work'[j], q)
      PROVE  p < q
  <2>1. i \notin DOMAIN more /\ j \notin DOMAIN more
    BY <1>1, <1>6 DEF OwnTurnOf
  <2>2. PICK k \in DOMAIN Work : k > 1 /\ i = Later(k, more)
    BY <1>1, <2>1
  <2>3. PICK m \in DOMAIN Work : m > 1 /\ j = Later(m, more)
    BY <1>1, <2>1
  <2> QED
    BY <1>1, <1>6, <2>2, <2>3 DEF Isolating
<1>7. ASSUME NEW p \in Others
      PROVE  \/ \E i \in DOMAIN Work' : OwnTurnOf(Work'[i], p) \/ GivesIndex(Work'[i], p)
             \/ Own(p)' /\ (pvid'[p] = EntryOf(p) \/ \E i \in DOMAIN Work' : Puts(Work'[i], p, EntryOf(p), pvid'))
  <2>0. Own(p) => Own(p)'
    <3>1. EntryOf(p) \in 1 .. NumPorts - 1
      BY EntriesOf
    <3> QED
      BY <3>1 DEF Own
  <2>1. CASE OwnTurnOf(Work[1], p) \/ GivesIndex(Work[1], p)
    BY <1>1, <2>1 DEF Indexed
  <2>2. CASE \E i \in DOMAIN Work : i > 1 /\ (OwnTurnOf(Work[i], p) \/ GivesIndex(Work[i], p))
    BY <1>1, <2>2
  <2>3. CASE Own(p) /\ Indexed(Work[1], p, pvid)
    BY <1>1, <2>0, <2>3 DEF Indexed
  <2>4. CASE \E i \in DOMAIN Work : i > 1 /\ Puts(Work[i], p, EntryOf(p), pvid)
    BY <1>2, <2>4 DEF Isolating, Puts
  <2> QED
    BY <1>1, <2>1, <2>2, <2>3, <2>4 DEF Isolating, Indexed
<1> QED
  BY <1>4, <1>5, <1>6, <1>7 DEF Isolating
\* Ports join.
Reaches(i, more, p, n) ==
  \/ p \in member'[n]
  \/ \E j \in DOMAIN more : j > i /\ Adds(more[j], p, n)
  \/ \E k \in DOMAIN Work : k > 1 /\ Adds(Work[k], p, n)

LEMMA IndexGoesOn ==
  ASSUME OneSession, TypeInv, Work # <<>>, NEW more, IsSeq(more), Goon(Cli, more), Indexing, UNCHANGED vid,
         \A i \in DOMAIN more :
           /\ JoinStepOf(more[i], vid)
           /\ more[i].op \in {"put_pvid", "members", "delete"} => i = 1
           /\ more[i].op = "pvid" => Reaches(i, more, more[i].port, EntryFor(more[i].vid, vid))
           /\ more[i].op = "put_pvid" =>
                \E q \in Others, n \in Nums : Puts(more[i], q, n, pvid') /\ vid[n] # 0 /\ Reaches(1, more, q, n)
           /\ more[i].op = "quit" =>
                /\ \/ pvid'[more[i].port] \in {0, more[i].num}
                   \/ \E j \in DOMAIN more : j < i /\ Names(more[j], more[i].port, more[i].num, pvid', vid)
                /\ \A j \in DOMAIN more : j < i => Fits(more[j], more[i].port, more[i].num, pvid', vid)
                /\ \A j \in DOMAIN more : j > i => more[j].op = "tag"
                /\ \A k \in DOMAIN Work : k > 1 => Work[k].op \in {"tag", "join"},
         1 \in DOMAIN more /\ more[1].op = "delete" =>
           2 \in DOMAIN more /\ more[2].op = "quit" /\ more[2].port = more[1].port /\ more[2].num # more[1].num,
         1 \in DOMAIN more /\ more[1].op = "members" =>
           \/ member'[more[1].num] \subseteq more[1].ports
           \/ /\ 2 \notin DOMAIN more /\ 2 \in DOMAIN Work /\ Work[2].op = "quit" /\ Work[2].num # more[1].num
              /\ member'[more[1].num] \subseteq more[1].ports \union {Work[2].port},
         \A k \in DOMAIN Work : k > 1 /\ Work[k].op = "pvid" => \A n \in Nums : member[n] \subseteq member'[n],
         \A k \in DOMAIN Work : k > 1 /\ Work[k].op = "quit" =>
           /\ \A i \in DOMAIN more : Fits(more[i], Work[k].port, Work[k].num, pvid', vid)
           /\ pvid[Work[k].port] \in {0, Work[k].num} \/ Names(Work[1], Work[k].port, Work[k].num, pvid, vid) =>
                \/ pvid'[Work[k].port] \in {0, Work[k].num}
                \/ \E i \in DOMAIN more : Names(more[i], Work[k].port, Work[k].num, pvid', vid),
         \A p \in Ports : pvid'[p] = 0 \/ (vid[pvid'[p]] # 0 /\ Reaches(0, more, p, pvid'[p]))
  PROVE  Indexing'
<1>1. /\ 1 \in DOMAIN Work
      /\ DOMAIN Work \subseteq Nat \ {0} /\ DOMAIN Work' \subseteq Nat \ {0} /\ DOMAIN more \subseteq Nat \ {0}
      /\ \A i \in DOMAIN more : i \in DOMAIN Work' /\ Work'[i] = more[i]
      /\ \A k \in DOMAIN Work : k > 1 =>
           /\ Later(k, more) \in DOMAIN Work' /\ Work'[Later(k, more)] = Work[k]
      /\ \A i \in DOMAIN Work' : i \in DOMAIN more \/ \E k \in DOMAIN Work : k > 1 /\ i = Later(k, more)
      /\ \A i \in DOMAIN more : \A k \in DOMAIN Work : k > 1 => i < Later(k, more)
      /\ \A j, k \in DOMAIN Work : j < k <=> Later(j, more) < Later(k, more)
      /\ \A k \in DOMAIN Work : k = 1 \/ k > 1
  BY Places
<1>2. ASSUME NEW k \in DOMAIN Work, k > 1
      PROVE  k # 1 /\ JoinStepOf(Work[k], vid) /\ Work[k].op \notin {"put_pvid", "members", "delete"}
  <2>1. k # 1
    BY <1>1, <1>2
  <2> QED
    BY <2>1 DEF Indexing
<1>3. ASSUME NEW i \in DOMAIN Work'
      PROVE  /\ JoinStepOf(Work'[i], vid')
             /\ Work'[i].op \in {"put_pvid", "members", "delete"} => i = 1
  <2>1. CASE i \in DOMAIN more
    BY <1>1, <2>1
  <2>2. CASE \E k \in DOMAIN Work : k > 1 /\ i = Later(k, more)
    BY <1>1, <1>2, <2>2
  <2> QED
    BY <1>1, <2>1, <2>2
<1>4. ASSUME NEW i \in DOMAIN more, NEW p, NEW n, Reaches(i, more, p, n)
      PROVE  p \in member'[n] \/ \E j \in DOMAIN Work' : j > i /\ Adds(Work'[j], p, n)
  <2>1. ASSUME NEW k \in DOMAIN Work, k > 1 PROVE Later(k, more) > i
    <3>1. Later(k, more) \in Nat /\ i \in Nat /\ i < Later(k, more)
      BY <1>1, <2>1
    <3> QED
      BY <3>1
  <2> QED
    BY <1>1, <1>4, <2>1 DEF Reaches
<1>5. ASSUME NEW i \in DOMAIN Work', Work'[i].op = "pvid"
      PROVE  \/ Work'[i].port \in member'[EntryFor(Work'[i].vid, vid')]
             \/ \E j \in DOMAIN Work' : j > i /\ Adds(Work'[j], Work'[i].port, EntryFor(Work'[i].vid, vid'))
  <2>1. CASE i \in DOMAIN more
    <3>1. Work'[i] = more[i] /\ Reaches(i, more, more[i].port, EntryFor(more[i].vid, vid))
      BY <1>1, <1>5, <2>1
    <3> DEFINE n == EntryFor(more[i].vid, vid)
               p == more[i].port
    <3>2. Reaches(i, more, p, n)
      BY <3>1
    <3>3. p \in member'[n] \/ \E j \in DOMAIN Work' : j > i /\ Adds(Work'[j], p, n)
      <4> HIDE DEF n, p
      <4> QED
        BY <1>4, <2>1, <3>2
    <3> QED
      BY <3>1, <3>3
  <2>2. CASE \E k \in DOMAIN Work : k > 1 /\ i = Later(k, more)
    <3>1. PICK k \in DOMAIN Work : k > 1 /\ i = Later(k, more)
      BY <2>2
    <3>2. Work'[i] = Work[k] /\ Work[k].op = "pvid" /\ JoinStepOf(Work[k], vid)
      BY <1>1, <1>2, <1>5, <3>1
    <3>3. PICK p : p = Work[k].port
      OBVIOUS
    <3>4. PICK n : n = EntryFor(Work[k].vid, vid)
      OBVIOUS
    <3>5. InOrJoins(k, p, n)
      BY <3>2, <3>3, <3>4 DEF Indexing
    <3>6. n \in Nums
      <4>1. {m \in Nums : vid[m] = Work[k].vid} # {} /\ {m \in Nums : vid[m] = Work[k].vid} \subseteq Nat
        BY <3>2, Constants DEF JoinStepOf
      <4>2. n \in {m \in Nums : vid[m] = Work[k].vid}
        BY <3>4, <4>1, MinIsLeast DEF EntryFor
      <4> QED
        BY <4>2
    <3>7. p \in member'[n] \/ \E j \in DOMAIN Work' : j > i /\ Adds(Work'[j], p, n)
      <4>1. CASE p \in member[n]
        BY <3>1, <3>2, <3>6, <4>1
      <4>2. CASE \E j \in DOMAIN Work : j > k /\ Adds(Work[j], p, n)
        <5>1. PICK j \in DOMAIN Work : j > k /\ Adds(Work[j], p, n)
          BY <4>2
        <5>2. j > 1 /\ k < j
          BY <1>1, <3>1, <5>1
        <5>3. Later(j, more) \in DOMAIN Work' /\ Work'[Later(j, more)] = Work[j] /\ i < Later(j, more)
          BY <1>1, <3>1, <5>2
        <5>4. Later(j, more) > i
          BY <1>1, <5>3
        <5> QED
          BY <5>1, <5>3, <5>4
      <4> QED
        BY <3>5, <4>1, <4>2 DEF InOrJoins
    <3> QED
      BY <3>2, <3>3, <3>4, <3>7
  <2> QED
    BY <1>1, <2>1, <2>2
<1>6. ASSUME NEW i \in DOMAIN Work', Work'[i].op = "put_pvid"
      PROVE  \E q \in Others, n \in Nums : Puts(Work'[i], q, n, pvid') /\ vid'[n] # 0 /\ InOrJoins(i, q, n)'
  <2>1. CASE i \in DOMAIN more
    <3>1. Work'[i] = more[i] /\ i = 1
      BY <1>1, <1>6, <2>1
    <3>2. PICK q \in Others, n \in Nums : Puts(more[1], q, n, pvid') /\ vid[n] # 0 /\ Reaches(1, more, q, n)
      BY <1>6, <2>1, <3>1
    <3>3. q \in member'[n] \/ \E j \in DOMAIN Work' : j > 1 /\ Adds(Work'[j], q, n)
      BY <1>4, <2>1, <3>1, <3>2
    <3> QED
      BY <3>1, <3>2, <3>3 DEF InOrJoins
  <2>2. CASE \E k \in DOMAIN Work : k > 1 /\ i = Later(k, more)
    BY <1>1, <1>2, <1>6, <2>2
  <2> QED
    BY <1>1, <2>1, <2>2
<1>7. ASSUME NEW i \in DOMAIN Work', Work'[i].op = "quit"
      PROVE  /\ \/ pvid'[Work'[i].port] \in {0, Work'[i].num}
                \/ \E j \in DOMAIN Work' : j < i /\ Names(Work'[j], Work'[i].port, Work'[i].num, pvid', vid')
             /\ \A j \in DOMAIN Work' : j < i => Fits(Work'[j], Work'[i].port, Work'[i].num, pvid', vid')
             /\ \A j \in DOMAIN Work' : j > i => Work'[j].op \in {"tag", "join"}
  <2>1. PICK p : p = Work'[i].port
    OBVIOUS
  <2>2. PICK n : n = Work'[i].num
    OBVIOUS
  <2>3. CASE i \in DOMAIN more
    <3>1. /\ Work'[i] = more[i] /\ p = more[i].port /\ n = more[i].num /\ more[i].op = "quit"
      BY <1>1, <1>7, <2>1, <2>2, <2>3
    <3>2. pvid'[p] \in {0, n} \/ \E j \in DOMAIN Work' : j < i /\ Names(Work'[j], p, n, pvid', vid)
      BY <1>1, <2>3, <3>1
    <3>3. ASSUME NEW j \in DOMAIN Work', j < i PROVE Fits(Work'[j], p, n, pvid', vid)
      <4>1. j \in DOMAIN more
        <5>1. ASSUME NEW k \in DOMAIN Work, k > 1, j = Later(k, more) PROVE FALSE
          <6>1. i < j /\ i \in Nat /\ j \in Nat
            BY <1>1, <2>3, <5>1
          <6> QED
            BY <3>3, <6>1
        <5> QED
          BY <1>1, <5>1
      <4> QED
        BY <1>1, <2>3, <3>1, <3>3, <4>1
    <3>4. ASSUME NEW j \in DOMAIN Work', j > i PROVE Work'[j].op \in {"tag", "join"}
      BY <1>1, <2>3, <3>1, <3>4
    <3> QED
      BY <2>1, <2>2, <3>2, <3>3, <3>4
  <2>4. CASE \E k \in DOMAIN Work : k > 1 /\ i = Later(k, more)
    <3>1. PICK k \in DOMAIN Work : k > 1 /\ i = Later(k, more)
      BY <2>4
    <3>2. Work'[i] = Work[k] /\ Work[k].op = "quit" /\ p = Work[k].port /\ n = Work[k].num /\ k # 1
      BY <1>1, <1>2, <1>7, <2>1, <2>2, <3>1
    <3>3. Stays(k, p, n)
      BY <3>2 DEF Indexing
    <3>4. pvid'[p] \in {0, n} \/ \E j \in DOMAIN Work' : j < i /\ Names(Work'[j], p, n, pvid', vid)
      <4>1. CASE pvid[p] \in {0, n} \/ Names(Work[1], p, n, pvid, vid)
        <5>1. pvid'[p] \in {0, n} \/ \E j \in DOMAIN more : Names(more[j], p, n, pvid', vid)
          BY <3>1, <3>2, <4>1
        <5> QED
          BY <1>1, <3>1, <5>1
      <4>2. CASE \E j \in DOMAIN Work : j > 1 /\ j < k /\ Names(Work[j], p, n, pvid, vid)
        <5>1. PICK j \in DOMAIN Work : j > 1 /\ j < k /\ Names(Work[j], p, n, pvid, vid)
          BY <4>2
        <5>2. Later(j, more) \in DOMAIN Work' /\ Work'[Later(j, more)] = Work[j] /\ Later(j, more) < i
          BY <1>1, <3>1, <5>1
        <5>3. Names(Work[j], p, n, pvid', vid)
          BY <1>2, <5>1 DEF Names, Puts
        <5> QED
          BY <5>2, <5>3
      <4> QED
        BY <1>1, <3>3, <4>1, <4>2 DEF Stays
    <3>5. ASSUME NEW j \in DOMAIN Work', j < i PROVE Fits(Work'[j], p, n, pvid', vid)
      <4>1. CASE j \in DOMAIN more
        BY <1>1, <3>1, <3>2, <4>1
      <4>2. CASE \E m \in DOMAIN Work : m > 1 /\ j = Later(m, more)
        <5>1. PICK m \in DOMAIN Work : m > 1 /\ j = Later(m, more)
          BY <4>2
        <5>2. m < k /\ Work'[j] = Work[m]
          BY <1>1, <3>1, <3>5, <5>1
        <5>3. Fits(Work[m], p, n, pvid, vid)
          BY <3>3, <5>2 DEF Stays
        <5> QED
          BY <1>2, <5>1, <5>2, <5>3 DEF Fits
      <4> QED
        BY <1>1, <4>1, <4>2
    <3>6. ASSUME NEW j \in DOMAIN Work', j > i PROVE Work'[j].op \in {"tag", "join"}
      <4>0. i \in Nat /\ j \in Nat /\ i < j
        BY <1>1, <3>6
      <4>1. j \notin DOMAIN more
        <5>1. j \in DOMAIN more => j < i
          BY <1>1, <3>1
        <5> QED
          BY <4>0, <5>1
      <4>2. PICK m \in DOMAIN Work : m > 1 /\ j = Later(m, more)
        BY <1>1, <4>1
      <4>3. k < m /\ Work'[j] = Work[m] /\ k \in Nat /\ m \in Nat
        BY <1>1, <3>1, <4>0, <4>2
      <4>4. m > k
        BY <4>3
      <4> QED
        BY <3>3, <4>3, <4>4 DEF Stays
    <3> QED
      BY <2>1, <2>2, <3>4, <3>5, <3>6
  <2> QED
    BY <1>1, <2>3, <2>4
<1>8. ASSUME 1 \in DOMAIN Work', Work'[1].op \in {"delete", "members"} PROVE 1 \in DOMAIN more /\ Work'[1] = more[1]
  <2>1. ASSUME NEW k \in DOMAIN Work, k > 1, 1 = Later(k, more) PROVE FALSE
    <3>1. Work'[1] = Work[k]
      BY <1>1, <2>1
    <3> QED
      BY <1>2, <1>8, <2>1, <3>1
  <2> QED
    BY <1>1, <1>8, <2>1
<1>9. 1 \in DOMAIN Work' /\ Work'[1].op = "delete" =>
        2 \in DOMAIN Work' /\ Work'[2].op = "quit" /\ Work'[2].port = Work'[1].port /\ Work'[2].num # Work'[1].num
  BY <1>1, <1>8
<1>10. 1 \in DOMAIN Work' /\ Work'[1].op = "members" =>
         \/ member'[Work'[1].num] \subseteq Work'[1].ports
         \/ /\ 2 \in DOMAIN Work' /\ Work'[2].op = "quit" /\ Work'[2].num # Work'[1].num
            /\ member'[Work'[1].num] \subseteq Work'[1].ports \union {Work'[2].port}
  <2> SUFFICES ASSUME 1 \in DOMAIN Work', Work'[1].op = "members"
               PROVE  \/ member'[Work'[1].num] \subseteq Work'[1].ports
                      \/ /\ 2 \in DOMAIN Work' /\ Work'[2].op = "quit" /\ Work'[2].num # Work'[1].num
                         /\ member'[Work'[1].num] \subseteq Work'[1].ports \union {Work'[2].port}
    OBVIOUS
  <2>1. 1 \in DOMAIN more /\ Work'[1] = more[1] /\ more[1].op = "members"
    BY <1>8
  <2>2. CASE 2 \notin DOMAIN more /\ 2 \in DOMAIN Work
    <3>1. DOMAIN more = 1 .. Len(more) /\ Len(more) \in Nat
      BY GoesOn
    <3>2. Len(more) = 1
      BY <2>1, <2>2, <3>1
    <3>3. Later(2, more) = 2
      BY <3>2 DEF Later
    <3>4. 2 \in DOMAIN Work' /\ Work'[2] = Work[2]
      BY <1>1, <2>2, <3>3
    <3> QED
      BY <2>1, <3>4
  <2> QED
    BY <2>1, <2>2
<1>11. ASSUME NEW p \in Ports
       PROVE  pvid'[p] = 0 \/ (vid'[pvid'[p]] # 0 /\ InOrJoins(0, p, pvid[p])')
  <2>1. PICK n : n = pvid'[p]
    OBVIOUS
  <2>2. ASSUME Reaches(0, more, p, n) PROVE p \in member'[n] \/ \E j \in DOMAIN Work' : j > 0 /\ Adds(Work'[j], p, n)
    <3>1. \A j \in DOMAIN Work' : j > 0
      BY <1>1
    <3> QED
      BY <1>1, <2>2, <3>1 DEF Reaches
  <2>3. InOrJoins(0, p, pvid[p])' <=> p \in member'[n] \/ \E j \in DOMAIN Work' : j > 0 /\ Adds(Work'[j], p, n)
    BY <2>1 DEF InOrJoins
  <2> QED
    BY <2>1, <2>2, <2>3
<1> QED
  BY <1>3, <1>5, <1>6, <1>7, <1>9, <1>10, <1>11 DEF Indexing, InOrJoins, Stays
-----------------------------------------------------------------------------
\* Steps that are neither about indices nor about entries.
PlainOps == SettingOps \ {"pvid", "put_pvid"}

LEMMA IndexKind ==
  /\ SettingOps \subseteq ScriptOps /\ SettingOps \subseteq JoinOps /\ SettingOps \subseteq PartOps
  /\ PlainOps \subseteq SettingOps /\ "pvid" \notin PlainOps /\ "put_pvid" \notin PlainOps
  /\ PlainOps \intersect {"vid", "store_vid", "members", "store_members", "turn", "join", "quit", "add",
                          "delete", "part", "leave", "leave_tagged"} = {}
  BY DEF SettingOps, PlainOps, ScriptOps, JoinOps, PartOps

LEMMA PlainGoesOn ==
  ASSUME OneSession, TypeInv, Work # <<>>, Work[1].op \in PlainOps \union {"store_vid", "store_members"},
         NEW more, IsSeq(more), Goon(Cli, more), \A i \in DOMAIN more : more[i].op \in PlainOps,
         UNCHANGED <<vid, member, pvid>>, IndexInv
  PROVE  IndexInv'
<1>0. /\ Work[1].op \notin {"pvid", "put_pvid", "vid", "members", "turn", "join", "quit", "add", "delete",
                            "part", "leave", "leave_tagged"}
      /\ \A i \in DOMAIN more :
           more[i].op \notin {"pvid", "put_pvid", "vid", "store_vid", "members", "store_members", "turn", "join",
                              "quit", "add", "delete", "part", "leave", "leave_tagged"}
      /\ \A i \in DOMAIN more : more[i].op \in ScriptOps /\ more[i].op \in JoinOps /\ more[i].op \in PartOps
  BY IndexKind
<1>1. CASE Resetting
  <2>1. \A i \in DOMAIN more : ResetStep(more[i], pvid) /\ (more[i].op = "put_pvid" => i = 1 /\ pvid' = pvid)
    BY <1>0 DEF ResetStep, IsPVID
  <2>2. \A p \in Ports : pvid'[p] = pvid[p] /\ ~Resets(Work[1], p)
    BY <1>0 DEF Resets, SetsBack
  <2> QED
    BY <1>1, <2>1, <2>2, ResetGoesOn DEF IndexInv
<1>2. CASE Isolating
  <2>1. \A i \in DOMAIN more :
           /\ OwnStep(more[i]) /\ more[i].op # "turn"
           /\ more[i].op = "put_pvid" =>
                /\ i = 1 /\ pvid' = pvid
                /\ \/ Puts(more[i], MgtPort, 0, pvid)
                   \/ \E p \in Others : Puts(more[i], p, EntryOf(p), pvid) /\ Own(p)'
           /\ \A p \in Others : GivesIndex(more[i], p) => Promised(more, i, p)'
    BY <1>0 DEF OwnStep, IsPVID, GivesIndex
  <2>2. \A n \in 1 .. NumPorts - 1 : OwnVID(n) \/ GivesVID(Work[1], n) => OwnVID(n)'
    BY <1>0 DEF OwnVID, GivesVID
  <2>3. \A p \in Others : p \in member[EntryOf(p)] \/ GivesMember(Work[1], p) => p \in member'[EntryOf(p)]
    BY <1>0 DEF GivesMember
  <2>4. \A p \in Others : ~OwnTurnOf(Work[1], p) /\ ~GivesIndex(Work[1], p)
    BY <1>0 DEF OwnTurnOf, GivesIndex
  <2>5. \A p \in Others : Indexed(Work[1], p, pvid) => pvid'[p] = EntryOf(p)
    BY <1>0 DEF Indexed, Puts
  <2>6. Isolating'
    BY <1>2, <2>1, <2>2, <2>3, <2>4, <2>5, IsolateGoesOn
  <2> QED
    BY <2>6 DEF IndexInv
<1>3. CASE Indexing
  <2>1. \A i \in DOMAIN more : JoinStepOf(more[i], vid)
    BY <1>0 DEF JoinStepOf, IsPVID
  <2>2. \A p, n : \A i \in DOMAIN more : Fits(more[i], p, n, pvid', vid)
    BY <1>0 DEF Fits
  <2>3. \A p, n : ~Names(Work[1], p, n, pvid, vid)
    BY <1>0 DEF Names, Puts
  <2>4. ASSUME NEW p \in Ports, pvid'[p] # 0 PROVE vid[pvid'[p]] # 0 /\ Reaches(0, more, p, pvid'[p])
    <3>1. pvid'[p] = pvid[p] /\ vid[pvid[p]] # 0 /\ InOrJoins(0, p, pvid[p])
      BY <1>3, <2>4 DEF Indexing
    <3>2. ~Adds(Work[1], p, pvid[p])
      BY <1>0 DEF Adds
    <3>3. \A k \in DOMAIN Work : k = 1 \/ k > 1
      BY Places
    <3> QED
      BY <3>1, <3>2, <3>3 DEF Reaches, InOrJoins
  <2>5. Indexing'
    BY <1>0, <1>3, <2>1, <2>2, <2>3, <2>4, IndexGoesOn
  <2> QED
    BY <2>5 DEF IndexInv
<1>4. CASE Unindexing
  <2>1. PICK n \in Nums \ {0} : UnindexingFrom(n)
    BY <1>4 DEF Unindexing
  <2>2. \A i \in DOMAIN more :
           /\ PartStepOf(more[i], n, vid[n]) /\ more[i].op # "vid"
           /\ more[i].op # "members" /\ more[i].op # "put_pvid"
           /\ \A p : ~Removes(more[i], p, n)
    BY <1>0 DEF PartStepOf, IsPVID, Removes, Takes
  <2>3. \A p : ~Zeroes(Work[1], p, pvid)
    BY <1>0 DEF Zeroes, SetsBack, Puts
  <2>4. \A p \in Ports : Good(p)'
    BY <2>1 DEF UnindexingFrom, Good
  <2>5. UnindexingFrom(n)'
    BY <2>1, <2>2, <2>3, <2>4, UnindexGoesOn
  <2> QED
    BY <2>5 DEF IndexInv, Unindexing
<1> QED
  BY <1>1, <1>2, <1>3, <1>4 DEF IndexInv
-----------------------------------------------------------------------------
\* The entry whose number is written as an index.
NothingStored == \A n : ~Storing("store_vid", n)

LEMMA CalmIsSafe ==
  ASSUME Inv, Calm
  PROVE  TypeInv /\ DefaultInv /\ TableInv /\ CopyInv
  BY DEF Inv, Calm, Safe, TableInv

LEMMA DefaultNum ==
  ASSUME DefaultInv, CopyInv, CopyDefault, NothingStored
  PROVE  VlanNumFromVID(1) = 0
<1>1. ASSUME NEW n \in Nums, vlanVid[n] = 1 PROVE n = 0
  BY <1>1 DEF DefaultInv, CopyInv, NothingStored
<1>2. VlanNumFromVID(1) \in Nums /\ (VlanExist(1) => vlanVid[VlanNumFromVID(1)] = 1)
  BY NumFromVID
<1> QED
  BY <1>1, <1>2 DEF VlanNumFromVID

LEMMA NumOf ==
  ASSUME DefaultInv, CopyInv, CopyDefault, NothingStored, NEW v \in Vids, \E n \in Nums : vid[n] = v
  PROVE  VlanNumFromVID(v) = EntryFor(v, vid) /\ EntryFor(v, vid) \in Nums /\ vid[EntryFor(v, vid)] = v
<1>1. v # 0 /\ v # 1 /\ Nums \subseteq Nat
  BY Constants
<1>2. \A n \in Nums : vlanVid[n] = v <=> vid[n] = v
  BY <1>1 DEF DefaultInv, CopyInv, CopyDefault, NothingStored
<1>3. {n \in Nums : vlanVid[n] = v} = {n \in Nums : vid[n] = v}
  BY <1>2
<1>4. VlanExist(v)
  BY <1>2 DEF VlanExist
<1>5. VlanNumFromVID(v) = EntryFor(v, vid)
  BY <1>3, <1>4 DEF VlanNumFromVID, EntryFor
<1>6. EntryFor(v, vid) \in {n \in Nums : vid[n] = v}
  <2>1. {n \in Nums : vid[n] = v} # {} /\ {n \in Nums : vid[n] = v} \subseteq Nat
    BY <1>1
  <2> QED
    BY <2>1, MinIsLeast DEF EntryFor
<1> QED
  BY <1>5, <1>6

LEMMA OwnNum ==
  ASSUME DefaultInv, CopyInv, CopyDefault, NothingStored,
         NEW e \in 1 .. NumPorts - 1, \A n \in 1 .. e : OwnVID(n)
  PROVE  VlanNumFromVID(e + 1) = e
<1>1. e \in Nat /\ e >= 1 /\ e \in Nums /\ Nums \subseteq Nat
  BY Constants
<1>2. ASSUME NEW n \in Nums, vlanVid[n] = e + 1 PROVE n >= e
  <2>1. n # 0
    BY <1>1, <1>2 DEF CopyDefault
  <2>2. vid[n] = e + 1
    BY <1>2, <2>1 DEF CopyInv, NothingStored
  <2>3. ~(n < e)
    <3>1. ASSUME n < e PROVE FALSE
      <4>1. n \in 1 .. e
        BY <1>1, <2>1, <3>1
      <4>2. vid[n] = n + 1
        BY <4>1 DEF OwnVID
      <4> QED
        BY <1>1, <2>2, <3>1, <4>2
    <3> QED
      BY <3>1
  <2> QED
    BY <1>1, <2>3
<1>3. vlanVid[e] = e + 1
  <2>1. vid[e] = e + 1 /\ e # 0
    BY <1>1 DEF OwnVID
  <2> QED
    BY <1>1, <2>1 DEF CopyInv, NothingStored
<1>4. VlanExist(e + 1)
  BY <1>1, <1>3 DEF VlanExist
<1>5. /\ Min({n \in Nums : vlanVid[n] = e + 1}) \in {n \in Nums : vlanVid[n] = e + 1}
      /\ Min({n \in Nums : vlanVid[n] = e + 1}) <= e
  <2>1. e \in {n \in Nums : vlanVid[n] = e + 1} /\ {n \in Nums : vlanVid[n] = e + 1} \subseteq Nat
    BY <1>1, <1>3
  <2> QED
    BY <2>1, MinIsLeast
<1>6. VlanNumFromVID(e + 1) >= e /\ VlanNumFromVID(e + 1) <= e /\ VlanNumFromVID(e + 1) \in Nat
  BY <1>1, <1>2, <1>4, <1>5 DEF VlanNumFromVID
<1> QED
  BY <1>1, <1>6
-----------------------------------------------------------------------------
\* The field of a port is read together with its neighbour's, and changed.
LEMMA PVIDRead ==
  ASSUME OneSession, Inv, CopyDefault, Calm, IndexInv, SetVlanPVID(Cli)
  PROVE  IndexInv'
<1>0. /\ TypeInv /\ DefaultInv /\ TableInv /\ CopyInv
      /\ Work # <<>> /\ Work[1].op = "pvid" /\ 1 \in DOMAIN Work /\ Head(todo[Cli]) = Work[1]
      /\ UNCHANGED <<vid, member, pvid>>
      /\ \A k \in DOMAIN Work : k = 1 \/ k > 1
  BY CalmIsSafe, HeadIsFirst, Places DEF SetVlanPVID, regVars, Inv
<1>1. NothingStored
  BY <1>0 DEF NothingStored, Storing
<1>a. PICK p : p = Work[1].port
  OBVIOUS
<1>b. PICK t : t = VlanNumFromVID(Work[1].vid)
  OBVIOUS
<1> DEFINE x == [op |-> "put_pvid", of |-> [q \in Together(p, 2) |-> IF q = p THEN t ELSE pvid[q]]]
<1>2. Goon(Cli, <<x>>)
  BY <1>0, <1>a, <1>b DEF SetVlanPVID
<1>3. p \in Ports /\ IsPVID(Work[1]) /\ Work[1] \in [op : {"pvid"}, port : Ports, vid : Nat]
  <2>1. IsPVID(Work[1])
    BY <1>0 DEF IndexInv, Resetting, ResetStep, Isolating, OwnStep, Indexing, JoinStepOf, Unindexing, UnindexingFrom
  <2> QED
    BY <1>0, <1>a, <2>1 DEF IsPVID
<1>4. Puts(x, p, t, pvid) /\ x.op = "put_pvid" /\ \A q \in DOMAIN x.of : q = p \/ x.of[q] = pvid[q]
  BY <1>3 DEF Puts, Together
<1>5. PICK y : y = x
  OBVIOUS
<1>6. IsSeq(<<y>>) /\ DOMAIN <<y>> = {1} /\ <<y>>[1] = y
  <2>1. IsSeq(<<y>>)
    BY OneElem
  <2> QED
    BY <2>1
<1>7. PICK more : more = <<y>>
  OBVIOUS
<1>8. IsSeq(more) /\ DOMAIN more = {1} /\ more[1] = y /\ Goon(Cli, more)
  BY <1>2, <1>5, <1>6, <1>7
<1>9. Puts(y, p, t, pvid) /\ y.op = "put_pvid" /\ \A q \in DOMAIN y.of : q = p \/ y.of[q] = pvid[q]
  BY <1>4, <1>5
<1> HIDE DEF x
<1>10. CASE Resetting
  <2>1. Work[1].vid = 1
    BY <1>0, <1>10 DEF Resetting, ResetStep
  <2>2. t = 0
    BY <1>0, <1>b, <1>1, <2>1, DefaultNum
  <2>3. \A i \in DOMAIN more : ResetStep(more[i], pvid) /\ (more[i].op = "put_pvid" => i = 1 /\ pvid' = pvid)
    BY <1>0, <1>3, <1>8, <1>9, <2>2, IndexKind DEF ResetStep, IsPVID, SettingOps
  <2>4. ASSUME NEW q \in Ports
        PROVE  pvid'[q] = pvid[q] /\ (~Resets(Work[1], q) \/ \E i \in DOMAIN more : Resets(more[i], q))
    BY <1>0, <1>a, <1>8, <1>9, <2>2 DEF Resets, SetsBack, Puts
  <2> QED
    BY <1>0, <1>8, <1>10, <2>3, <2>4, ResetGoesOn DEF IndexInv
<1>11. CASE Isolating
  <2>1. Work[1].vid = IF p = MgtPort THEN 1 ELSE EntryOf(p) + 1
    BY <1>0, <1>a, <1>11 DEF Isolating, OwnStep
  <2>2. CASE p = MgtPort
    <3>1. Puts(y, MgtPort, 0, pvid)
      BY <1>0, <1>b, <1>1, <1>9, <2>1, <2>2, DefaultNum
    <3> QED
    PROOF
      <4>1. \A i \in DOMAIN more : OwnStep(more[i]) /\ i = 1 /\ Puts(more[i], MgtPort, 0, pvid) /\ more[i].op = "put_pvid"
        BY <1>8, <1>9, <3>1, IndexKind DEF OwnStep, IsPVID, SettingOps
      <4>2. \A n \in 1 .. NumPorts - 1 : OwnVID(n) \/ GivesVID(Work[1], n) => OwnVID(n)'
        BY <1>0 DEF OwnVID, GivesVID
      <4>3. \A q \in Others : q \in member[EntryOf(q)] \/ GivesMember(Work[1], q) => q \in member'[EntryOf(q)]
        BY <1>0 DEF GivesMember
      <4>4. \A q \in Others : ~OwnTurnOf(Work[1], q) /\ ~GivesIndex(Work[1], q)
        BY <1>0, <1>a, <2>2 DEF OwnTurnOf, GivesIndex, Others
      <4>5. \A q \in Others : Indexed(Work[1], q, pvid) => pvid'[q] = EntryOf(q)
        BY <1>0 DEF Indexed, Puts
      <4>6. \A q : \A i \in DOMAIN more : ~GivesIndex(more[i], q)
        BY <4>1 DEF GivesIndex
      <4>7. Isolating'
        BY <1>0, <1>8, <1>11, <4>1, <4>2, <4>3, <4>4, <4>5, <4>6, IsolateGoesOn
      <4> QED
        BY <1>0, <4>7 DEF IndexInv
  <2>3. CASE p # MgtPort
    <3>1. p \in Others /\ GivesIndex(Work[1], p)
      BY <1>0, <1>a, <1>3, <2>3 DEF Others, GivesIndex
    <3>2. Promised(Work, 1, p)
      BY <1>0, <1>11, <3>1 DEF Isolating
    <3>3. \A j \in DOMAIN Work : ~(j < 1)
      <4>1. DOMAIN Work \subseteq Nat \ {0}
        BY <1>0, Places, <1>8
      <4> QED
        BY <4>1
    <3>4. EntryOf(p) \in 1 .. NumPorts - 1 /\ EntryOf(p) \in Nat
      BY <3>1, EntriesOf
    <3>5. Own(p) /\ \A n \in 1 .. EntryOf(p) : OwnVID(n)
      BY <3>2, <3>3, <3>4 DEF Promised, Own
    <3>6. t = EntryOf(p)
      BY <1>0, <1>b, <1>1, <2>1, <2>3, <3>4, <3>5, OwnNum
    <3>7. Own(p)'
      BY <1>0, <3>5 DEF Own, OwnVID
    <3>8. \A i \in DOMAIN more :
            OwnStep(more[i]) /\ i = 1 /\ Puts(more[i], p, EntryOf(p), pvid) /\ more[i].op = "put_pvid"
      BY <1>8, <1>9, <3>6, IndexKind DEF OwnStep, IsPVID, SettingOps
    <3>9. \A n \in 1 .. NumPorts - 1 : OwnVID(n) \/ GivesVID(Work[1], n) => OwnVID(n)'
      BY <1>0 DEF OwnVID, GivesVID
    <3>10. \A q \in Others : q \in member[EntryOf(q)] \/ GivesMember(Work[1], q) => q \in member'[EntryOf(q)]
      BY <1>0 DEF GivesMember
    <3>11. \A q \in Others : OwnTurnOf(Work[1], q) \/ GivesIndex(Work[1], q) =>
             \E i \in DOMAIN more : GivesIndex(more[i], q) \/ (Own(q)' /\ Indexed(more[i], q, pvid'))
      BY <1>0, <1>a, <1>8, <3>7, <3>8 DEF OwnTurnOf, GivesIndex, Indexed
    <3>12. \A q \in Others : Indexed(Work[1], q, pvid) => pvid'[q] = EntryOf(q)
      BY <1>0 DEF Indexed, Puts
    <3>13. \A q : \A i \in DOMAIN more : ~GivesIndex(more[i], q)
      BY <3>8 DEF GivesIndex
    <3>14. Isolating'
      BY <1>0, <1>8, <1>11, <3>1, <3>7, <3>8, <3>9, <3>10, <3>11, <3>12, <3>13, IsolateGoesOn
    <3> QED
      BY <1>0, <3>14 DEF IndexInv
  <2> QED
    BY <2>2, <2>3
<1>12. CASE Indexing
  <2>1. /\ p # MgtPort /\ p \in Others /\ Work[1].vid \in Vids /\ \E n \in Nums : vid[n] = Work[1].vid
        /\ InOrJoins(1, p, EntryFor(Work[1].vid, vid))
    BY <1>0, <1>a, <1>3, <1>12 DEF Indexing, JoinStepOf, Others
  <2>2. t = EntryFor(Work[1].vid, vid) /\ t \in Nums /\ vid[t] = Work[1].vid /\ vid[t] # 0
    <3>1. Work[1].vid # 0
      BY <2>1, Constants
    <3> QED
      BY <1>0, <1>b, <1>1, <2>1, <3>1, NumOf
  <2>3. InOrJoins(1, p, t)
    BY <2>1, <2>2
  <2>4. Reaches(1, more, p, t)
    BY <1>0, <2>3 DEF Reaches, InOrJoins
  <2>5. \A i \in DOMAIN more : JoinStepOf(more[i], vid) /\ more[i] = y /\ i = 1
    BY <1>8, <1>9, IndexKind DEF JoinStepOf, IsPVID, SettingOps
  <2>6. ASSUME NEW k \in DOMAIN Work, k > 1, Work[k].op = "quit"
        PROVE  /\ Fits(y, Work[k].port, Work[k].num, pvid', vid)
               /\ Names(Work[1], Work[k].port, Work[k].num, pvid, vid) => Names(y, Work[k].port, Work[k].num, pvid', vid)
    <3>1. Stays(k, Work[k].port, Work[k].num) /\ 1 < k
      <4>1. k \in Nat
        BY <1>0, <1>8, Places
      <4> QED
        BY <1>12, <2>6, <4>1 DEF Indexing
    <3>2. Fits(Work[1], Work[k].port, Work[k].num, pvid, vid)
      BY <1>0, <3>1 DEF Stays
    <3>3. Work[k].port = p => Work[k].num = t
      BY <1>0, <1>a, <2>2, <3>2 DEF Fits
    <3> QED
      BY <1>0, <1>a, <1>9, <2>2, <3>3 DEF Fits, Names, Puts
  <2>7. ASSUME NEW q \in Ports, pvid'[q] # 0 PROVE vid[pvid'[q]] # 0 /\ Reaches(0, more, q, pvid'[q])
    <3>1. pvid'[q] = pvid[q] /\ vid[pvid[q]] # 0 /\ InOrJoins(0, q, pvid[q])
      BY <1>0, <1>12, <2>7 DEF Indexing
    <3>2. ~Adds(Work[1], q, pvid[q])
      BY <1>0 DEF Adds
    <3> QED
      BY <1>0, <3>1, <3>2 DEF Reaches, InOrJoins
  <2>8. \A i \in DOMAIN more :
          /\ JoinStepOf(more[i], vid)
          /\ more[i].op \in {"put_pvid", "members", "delete"} => i = 1
          /\ more[i].op = "pvid" => Reaches(i, more, more[i].port, EntryFor(more[i].vid, vid))
          /\ more[i].op = "put_pvid" =>
               \E q \in Others, n \in Nums : Puts(more[i], q, n, pvid') /\ vid[n] # 0 /\ Reaches(1, more, q, n)
          /\ more[i].op # "quit"
    BY <1>0, <1>9, <2>1, <2>2, <2>4, <2>5
  <2>9. more[1].op # "delete" /\ more[1].op # "members"
    BY <1>8, <1>9
  <2>10. \A k \in DOMAIN Work : k > 1 /\ Work[k].op = "quit" =>
           /\ \A i \in DOMAIN more : Fits(more[i], Work[k].port, Work[k].num, pvid', vid)
           /\ pvid[Work[k].port] \in {0, Work[k].num} \/ Names(Work[1], Work[k].port, Work[k].num, pvid, vid) =>
                \/ pvid'[Work[k].port] \in {0, Work[k].num}
                \/ \E i \in DOMAIN more : Names(more[i], Work[k].port, Work[k].num, pvid', vid)
    BY <1>0, <1>8, <2>5, <2>6
  <2>11. Indexing'
    BY <1>0, <1>8, <1>12, <2>7, <2>8, <2>9, <2>10, IndexGoesOn
  <2> QED
    BY <1>0, <2>11 DEF IndexInv
<1>13. CASE Unindexing
  <2>1. PICK n \in Nums \ {0} : UnindexingFrom(n)
    BY <1>13 DEF Unindexing
  <2>2. Work[1].vid = 1
    BY <1>0, <2>1 DEF UnindexingFrom
  <2>3. t = 0
    BY <1>0, <1>b, <1>1, <2>2, DefaultNum
  <2>4. \A i \in DOMAIN more : i = 1 /\ more[i] = y /\ PartStepOf(more[i], n, vid[n])
    BY <1>8, <1>9, IndexKind DEF PartStepOf, IsPVID, SettingOps
  <2>5. \A i \in DOMAIN more, q \in Ports : ~Removes(more[i], q, n)
    BY <1>9, <2>4 DEF Removes, Takes
  <2>6. \A q \in Ports : pvid'[q] = n /\ Zeroes(Work[1], q, pvid) => \E j \in DOMAIN more : Zeroes(more[j], q, pvid')
    BY <1>0, <1>a, <1>8, <1>9, <2>3 DEF Zeroes, SetsBack, Puts
  <2>7. \A q \in Ports : Good(q)'
    BY <1>0, <2>1 DEF UnindexingFrom, Good
  <2>8. UnindexingFrom(n)'
    BY <1>0, <1>3, <1>8, <1>9, <2>1, <2>3, <2>4, <2>5, <2>6, <2>7, UnindexGoesOn
  <2> QED
    BY <1>0, <2>8 DEF IndexInv, Unindexing
<1> QED
  BY <1>10, <1>11, <1>12, <1>13 DEF IndexInv
-----------------------------------------------------------------------------
\* The register with the index is written.
LEMMA PutMakes ==
  ASSUME pvid \in [Ports -> Nums], NEW x, NEW q \in Ports, NEW t \in Nums, Puts(x, q, t, pvid),
         pvid' = FieldsPut(x.of, pvid)
  PROVE  pvid' \in [Ports -> Nums] /\ pvid'[q] = t /\ \A r \in Ports : r = q \/ pvid'[r] = pvid[r]
<1>1. DOMAIN pvid = Ports /\ DOMAIN x.of \subseteq Ports /\ q \in DOMAIN x.of /\ x.of[q] = t
  BY DEF Puts
<1>3. pvid' = [r \in Ports |-> IF r \in DOMAIN x.of THEN x.of[r] ELSE pvid[r]]
  BY DEF FieldsPut
<1>4. \A r \in Ports : r = q \/ pvid'[r] = pvid[r]
  BY <1>3 DEF Puts
<1>5. pvid'[q] = t
  BY <1>1, <1>3
<1>6. \A r \in Ports : pvid'[r] \in Nums
  BY <1>4, <1>5
<1> QED
  BY <1>3, <1>4, <1>5, <1>6

LEMMA NothingMore ==
  ASSUME NEW more, more = <<>>
  PROVE  IsSeq(more) /\ DOMAIN more = {}
  BY NoElems

LEMMA PVIDWritten ==
  ASSUME OneSession, Inv, Calm', IndexInv, PutPVID(Cli)
  PROVE  IndexInv'
<1>0. /\ TypeInv /\ Work # <<>> /\ Work[1].op = "put_pvid" /\ 1 \in DOMAIN Work /\ Head(todo[Cli]) = Work[1]
      /\ UNCHANGED <<vid, member>> /\ pvid \in [Ports -> Nums] /\ pvid[MgtPort] = 0
      /\ MgtPort \in Ports /\ 0 \in Nums
  BY HeadIsFirst, Constants DEF PutPVID, Inv, IndexInv
<1>1. pvid' = FieldsPut(Work[1].of, pvid)
  <2>1. lost \in Nat /\ lost' = 0
    BY <1>0 DEF TypeInv, Calm
  <2> QED
    BY <1>0, <2>1 DEF PutPVID, Written
<1>2. PICK more : more = <<>>
  OBVIOUS
<1>3. IsSeq(more) /\ DOMAIN more = {} /\ Goon(Cli, more)
  BY <1>2, NothingMore DEF PutPVID
<1>4. \A k \in DOMAIN Work : k = 1 \/ k > 1
  BY <1>0, <1>3, Places
<1>5. CASE Resetting
  <2>1. PICK q \in Ports : Puts(Work[1], q, 0, pvid)
    BY <1>0, <1>5 DEF Resetting, ResetStep
  <2>2. pvid' \in [Ports -> Nums] /\ pvid'[q] = 0 /\ \A r \in Ports : r = q \/ pvid'[r] = pvid[r]
    BY <1>0, <1>1, <2>1, PutMakes
  <2>3. \A r \in Ports : pvid'[r] = 0 \/ (pvid'[r] = pvid[r] /\ ~Resets(Work[1], r))
    BY <1>0, <2>1, <2>2 DEF Resets, SetsBack, Puts
  <2>4. Resetting'
    BY <1>0, <1>3, <1>5, <2>3, ResetGoesOn
  <2> QED
    BY <1>0, <2>2, <2>4 DEF IndexInv
<1>6. CASE Isolating
  <2>1. PICK q \in Ports, t \in Nums :
          /\ Puts(Work[1], q, t, pvid)
          /\ (q = MgtPort /\ t = 0) \/ (q \in Others /\ t = EntryOf(q) /\ Own(q))
    BY <1>0, <1>6, EntriesOf DEF Isolating, Others
  <2>2. pvid' \in [Ports -> Nums] /\ pvid'[q] = t /\ \A r \in Ports : r = q \/ pvid'[r] = pvid[r]
    BY <1>0, <1>1, <2>1, PutMakes
  <2>3. \A n \in 1 .. NumPorts - 1 : OwnVID(n) \/ GivesVID(Work[1], n) => OwnVID(n)'
    BY <1>0 DEF OwnVID, GivesVID
  <2>4. \A r \in Others : r \in member[EntryOf(r)] \/ GivesMember(Work[1], r) => r \in member'[EntryOf(r)]
    BY <1>0 DEF GivesMember
  <2>5. \A r \in Others : ~OwnTurnOf(Work[1], r) /\ ~GivesIndex(Work[1], r)
    BY <1>0 DEF OwnTurnOf, GivesIndex
  <2>6. ASSUME NEW r \in Others, Indexed(Work[1], r, pvid) PROVE pvid'[r] = EntryOf(r)
    <3>1. CASE r = q
      BY <2>1, <2>2, <2>6, <3>1 DEF Others
    <3>2. CASE r # q
      BY <2>1, <2>2, <2>6, <3>2 DEF Others, Indexed, Puts
    <3> QED
      BY <3>1, <3>2
  <2>7. Isolating'
    BY <1>0, <1>3, <1>6, <2>3, <2>4, <2>5, <2>6, IsolateGoesOn
  <2> QED
    BY <1>0, <2>1, <2>2, <2>7 DEF IndexInv, Others
<1>7. CASE Indexing
  <2>1. PICK q \in Others, t \in Nums : Puts(Work[1], q, t, pvid) /\ vid[t] # 0 /\ InOrJoins(1, q, t)
    BY <1>0, <1>7 DEF Indexing
  <2>2. pvid' \in [Ports -> Nums] /\ pvid'[q] = t /\ \A r \in Ports : r = q \/ pvid'[r] = pvid[r]
    BY <1>0, <1>1, <2>1, PutMakes DEF Others
  <2>3. ASSUME NEW k \in DOMAIN Work, k > 1, Work[k].op = "quit",
               \/ pvid[Work[k].port] \in {0, Work[k].num}
               \/ Names(Work[1], Work[k].port, Work[k].num, pvid, vid)
        PROVE  pvid'[Work[k].port] \in {0, Work[k].num}
    <3>1. Stays(k, Work[k].port, Work[k].num) /\ 1 < k /\ Work[k].port \in Ports
      <4>1. k \in Nat /\ Typed(Work[k])
        BY <1>0, <1>3, <2>3, Places DEF TypeInv
      <4> QED
        BY <1>7, <2>3, <4>1 DEF Indexing, Typed
    <3>2. Fits(Work[1], Work[k].port, Work[k].num, pvid, vid)
      BY <1>0, <3>1 DEF Stays
    <3>3. CASE Work[k].port = q
      BY <1>0, <2>1, <2>2, <2>3, <3>2, <3>3 DEF Fits, Names, Puts
    <3>4. CASE Work[k].port # q
      BY <1>0, <2>1, <2>2, <2>3, <3>1, <3>4 DEF Names, Puts
    <3> QED
      BY <3>3, <3>4
  <2>4. ASSUME NEW r \in Ports, pvid'[r] # 0 PROVE vid[pvid'[r]] # 0 /\ Reaches(0, more, r, pvid'[r])
    <3>1. ASSUME NEW i \in {0, 1}, NEW n, InOrJoins(i, r, n) PROVE Reaches(0, more, r, n)
      <4>1. ~Adds(Work[1], r, n)
        BY <1>0 DEF Adds
      <4> QED
        BY <1>0, <1>4, <3>1, <4>1 DEF InOrJoins, Reaches
    <3>2. CASE r = q
      BY <2>1, <2>2, <3>1, <3>2
    <3>3. CASE r # q
      <4>1. pvid'[r] = pvid[r] /\ vid[pvid[r]] # 0 /\ InOrJoins(0, r, pvid[r])
        BY <1>7, <2>2, <2>4, <3>3 DEF Indexing
      <4> QED
        BY <3>1, <4>1
    <3> QED
      BY <3>2, <3>3
  <2>5. Indexing'
    BY <1>0, <1>3, <1>7, <2>3, <2>4, IndexGoesOn
  <2> QED
    BY <1>0, <2>1, <2>2, <2>5 DEF IndexInv, Others
<1>8. CASE Unindexing
  <2>1. PICK n \in Nums \ {0} : UnindexingFrom(n)
    BY <1>8 DEF Unindexing
  <2>2. PICK q \in Ports : Puts(Work[1], q, 0, pvid)
    BY <1>0, <2>1 DEF UnindexingFrom
  <2>3. pvid' \in [Ports -> Nums] /\ pvid'[q] = 0 /\ \A r \in Ports : r = q \/ pvid'[r] = pvid[r]
    BY <1>0, <1>1, <2>2, PutMakes
  <2>4. \A r \in Ports : pvid'[r] = n => ~Zeroes(Work[1], r, pvid) /\ pvid[r] = n
    BY <1>0, <2>1, <2>2, <2>3 DEF Zeroes, SetsBack, Puts
  <2>5. \A r \in Ports : Good(r)'
    BY <1>0, <2>1, <2>3 DEF UnindexingFrom, Good
  <2>6. UnindexingFrom(n)'
    BY <1>0, <1>3, <2>1, <2>4, <2>5, UnindexGoesOn
  <2> QED
    BY <1>0, <2>3, <2>6 DEF IndexInv, Unindexing
<1> QED
  BY <1>5, <1>6, <1>7, <1>8 DEF IndexInv
-----------------------------------------------------------------------------
\* One step takes the place of another.
LEMMA OneMore ==
  ASSUME NEW y, NEW more, more = <<y>>
  PROVE  IsSeq(more) /\ DOMAIN more = {1} /\ more[1] = y
  BY OneElem

\* An entry gets its VID.
LEMMA IndexVIDWritten ==
  ASSUME OneSession, Inv, Calm', IndexInv, SetVlanVID(Cli)
  PROVE  IndexInv'
<1>0. /\ TypeInv /\ Work # <<>> /\ Work[1].op = "vid" /\ 1 \in DOMAIN Work /\ Head(todo[Cli]) = Work[1]
      /\ UNCHANGED <<member, pvid>> /\ pvid \in [Ports -> Nums] /\ vid \in [Nums -> Nat]
      /\ Work[1].num \in Nums /\ Work[1].vid \in Nat /\ (Work[1].num = 0 <=> Work[1].vid = 1)
  BY HeadIsFirst DEF SetVlanVID, Inv, IndexInv, TypeInv, Typed, OfVID
<1>1. vid' = [vid EXCEPT ![Work[1].num] = Work[1].vid]
  <2>1. lost \in Nat /\ lost' = 0
    BY <1>0 DEF TypeInv, Calm
  <2> QED
    BY <1>0, <2>1 DEF SetVlanVID, Written
<1>2. PICK y : y = [Work[1] EXCEPT !.op = "store_vid"]
  OBVIOUS
<1>3. PICK more : more = <<y>>
  OBVIOUS
<1>4. IsSeq(more) /\ DOMAIN more = {1} /\ more[1] = y /\ Goon(Cli, more) /\ y.op = "store_vid"
  <2>1. y.op = "store_vid"
    <3>1. Work[1] \in [op : {"vid", "store_vid"}, num : Nums, vid : Nat]
      BY <1>0 DEF TypeInv, Typed, OfVID
    <3> QED
      BY <1>2, <3>1
  <2> QED
    BY <1>0, <1>2, <1>3, <2>1, OneMore DEF SetVlanVID
<1>5. \A i \in DOMAIN more : more[i].op = "store_vid" /\ i = 1
  BY <1>4
<1>6. CASE Resetting
  <2>1. \A i \in DOMAIN more : ResetStep(more[i], pvid) /\ more[i].op # "put_pvid"
    BY <1>5 DEF ResetStep, IsPVID, ScriptOps
  <2>2. \A p \in Ports : pvid'[p] = pvid[p] /\ ~Resets(Work[1], p)
    BY <1>0 DEF Resets, SetsBack
  <2>3. Resetting'
    BY <1>0, <1>4, <1>6, <2>1, <2>2, ResetGoesOn
  <2> QED
    BY <1>0, <2>3 DEF IndexInv
<1>7. CASE Isolating
  <2>1. \A i \in DOMAIN more :
          OwnStep(more[i]) /\ more[i].op # "turn" /\ more[i].op # "put_pvid" /\ \A p : ~GivesIndex(more[i], p)
    BY <1>5 DEF OwnStep, IsPVID, GivesIndex, ScriptOps
  <2>2. OwnStep(Work[1])
    BY <1>0, <1>7 DEF Isolating
  <2>3. ASSUME NEW n \in 1 .. NumPorts - 1, OwnVID(n) \/ GivesVID(Work[1], n) PROVE OwnVID(n)'
    <3>1. n \in Nums
      BY Constants
    <3>2. CASE Work[1].num = n
      BY <1>0, <1>1, <2>2, <3>1, <3>2 DEF OwnStep, OwnVID
    <3>3. CASE Work[1].num # n
      BY <1>0, <1>1, <2>3, <3>1, <3>3 DEF OwnVID, GivesVID
    <3> QED
      BY <3>2, <3>3
  <2>4. \A p \in Others : p \in member[EntryOf(p)] \/ GivesMember(Work[1], p) => p \in member'[EntryOf(p)]
    BY <1>0 DEF GivesMember
  <2>5. \A p \in Others : ~OwnTurnOf(Work[1], p) /\ ~GivesIndex(Work[1], p)
    BY <1>0 DEF OwnTurnOf, GivesIndex
  <2>6. \A p \in Others : Indexed(Work[1], p, pvid) => pvid'[p] = EntryOf(p)
    BY <1>0 DEF Indexed, Puts
  <2>7. Isolating'
    BY <1>0, <1>4, <1>7, <2>1, <2>3, <2>4, <2>5, <2>6, IsolateGoesOn
  <2> QED
    BY <1>0, <2>7 DEF IndexInv
<1>8. ~Indexing
  BY <1>0 DEF Indexing, JoinStepOf, JoinOps, SettingOps
<1>9. CASE Unindexing
  <2>1. PICK n \in Nums \ {0} : UnindexingFrom(n)
    BY <1>9 DEF Unindexing
  <2>2. Work[1].num = n /\ 2 \notin DOMAIN Work
    BY <1>0, <2>1 DEF UnindexingFrom
  <2>3. \A i \in DOMAIN Work' : Work'[i].op = "store_vid"
    <3>1. /\ \A i \in DOMAIN more : i \in DOMAIN Work' /\ Work'[i] = more[i]
          /\ \A i \in DOMAIN Work' : i \in DOMAIN more \/ \E k \in DOMAIN Work : k > 1 /\ i = Later(k, more)
      BY <1>0, <1>4, Places
    <3>2. DOMAIN Work = 1 .. Len(Work) /\ Len(Work) \in Nat \ {0}
      BY <1>0, WorkStarts
    <3>3. \A k \in DOMAIN Work : ~(k > 1)
      BY <2>2, <3>2
    <3> QED
      BY <1>5, <3>1, <3>3
  <2>4. ASSUME NEW p \in Ports PROVE Good(p)'
    <3>1. CASE pvid[p] = n
      <4>1. ~Removes(Work[1], p, n)
        <5>1. \A j \in DOMAIN Work : ~(j < 1)
          <6>1. DOMAIN Work \subseteq Nat \ {0}
            BY <1>0, <1>4, Places
          <6> QED
            BY <6>1
        <5> QED
          BY <1>0, <2>1, <3>1, <5>1 DEF UnindexingFrom
      <4>2. vid'[n] # 0
        BY <1>0, <1>1, <2>2, <4>1 DEF Removes
      <4> QED
        BY <1>0, <2>1, <3>1, <4>2 DEF UnindexingFrom, Good
    <3>2. CASE pvid[p] # n
      BY <1>0, <1>1, <2>1, <2>2, <3>2 DEF UnindexingFrom, Good
    <3> QED
      BY <3>1, <3>2
  <2>5. UnindexingFrom(n)'
    BY <2>3, <2>4 DEF UnindexingFrom, IsPVID, PartOps, Removes, Takes
  <2> QED
    BY <1>0, <2>1, <2>5 DEF IndexInv, Unindexing
<1> QED
  BY <1>6, <1>7, <1>8, <1>9 DEF IndexInv
-----------------------------------------------------------------------------
\* An entry gets its members.
LEMMA IndexMembersWritten ==
  ASSUME OneSession, Inv, Calm', IndexInv, SetVlanPort(Cli)
  PROVE  IndexInv'
<1>0. /\ TypeInv /\ Work # <<>> /\ Work[1].op = "members" /\ 1 \in DOMAIN Work /\ Head(todo[Cli]) = Work[1]
      /\ UNCHANGED <<vid, pvid>> /\ pvid \in [Ports -> Nums] /\ member \in [Nums -> SUBSET Ports]
      /\ Work[1] \in [op : {"members", "store_members"}, num : Nums, ports : SUBSET Ports]
      /\ Nums \subseteq Nat /\ 0 \in Nums
  BY HeadIsFirst, Constants DEF SetVlanPort, Inv, IndexInv, TypeInv, Typed, OfMembers
<1>1. member' = [member EXCEPT ![Work[1].num] = Work[1].ports]
  <2>1. lost \in Nat /\ lost' = 0
    BY <1>0 DEF TypeInv, Calm
  <2> QED
    BY <1>0, <2>1 DEF SetVlanPort, Written
<1>2. PICK y : y = [Work[1] EXCEPT !.op = "store_members"]
  OBVIOUS
<1>3. PICK more : more = <<y>>
  OBVIOUS
<1>4. IsSeq(more) /\ DOMAIN more = {1} /\ more[1] = y /\ Goon(Cli, more) /\ y.op = "store_members"
  BY <1>0, <1>2, <1>3, OneMore DEF SetVlanPort
<1>5. \A i \in DOMAIN more : more[i].op = "store_members" /\ i = 1
  BY <1>4
<1>a. \A k \in DOMAIN Work : k = 1 \/ k > 1
  BY <1>0, <1>4, Places
<1>b. \A n \in Nums : n = Work[1].num \/ member'[n] = member[n]
  BY <1>0, <1>1
<1>c. member'[Work[1].num] = Work[1].ports
  BY <1>0, <1>1
<1>d. \A j \in DOMAIN Work : ~(j < 1)
  <2>1. DOMAIN Work \subseteq Nat \ {0}
    BY <1>0, <1>4, Places
  <2> QED
    BY <2>1
<1>6. CASE Resetting
  <2>1. \A i \in DOMAIN more : ResetStep(more[i], pvid) /\ more[i].op # "put_pvid"
    BY <1>5 DEF ResetStep, IsPVID, ScriptOps
  <2>2. \A p \in Ports : pvid'[p] = pvid[p] /\ ~Resets(Work[1], p)
    BY <1>0 DEF Resets, SetsBack
  <2>3. Resetting'
    BY <1>0, <1>4, <1>6, <2>1, <2>2, ResetGoesOn
  <2> QED
    BY <1>0, <2>3 DEF IndexInv
<1>7. CASE Isolating
  <2>1. \A i \in DOMAIN more :
          OwnStep(more[i]) /\ more[i].op # "turn" /\ more[i].op # "put_pvid" /\ \A p : ~GivesIndex(more[i], p)
    BY <1>5 DEF OwnStep, IsPVID, GivesIndex, ScriptOps
  <2>2. OwnStep(Work[1])
    BY <1>0, <1>7 DEF Isolating
  <2>3. \A n \in 1 .. NumPorts - 1 : OwnVID(n) \/ GivesVID(Work[1], n) => OwnVID(n)'
    BY <1>0 DEF OwnVID, GivesVID
  <2>4. ASSUME NEW p \in Others, p \in member[EntryOf(p)] \/ GivesMember(Work[1], p) PROVE p \in member'[EntryOf(p)]
    <3>1. CASE Work[1].num = EntryOf(p)
      BY <1>0, <1>c, <2>2, <3>1 DEF OwnStep
    <3>2. CASE Work[1].num # EntryOf(p)
      BY <1>b, <2>4, <3>2, EntriesOf DEF GivesMember
    <3> QED
      BY <3>1, <3>2
  <2>5. \A p \in Others : ~OwnTurnOf(Work[1], p) /\ ~GivesIndex(Work[1], p)
    BY <1>0 DEF OwnTurnOf, GivesIndex
  <2>6. \A p \in Others : Indexed(Work[1], p, pvid) => pvid'[p] = EntryOf(p)
    BY <1>0 DEF Indexed, Puts
  <2>7. Isolating'
    BY <1>0, <1>4, <1>7, <2>1, <2>3, <2>4, <2>5, <2>6, IsolateGoesOn
  <2> QED
    BY <1>0, <2>7 DEF IndexInv
<1>8. CASE Indexing
  <2>1. \A i \in DOMAIN more : JoinStepOf(more[i], vid) /\ more[i].op \notin {"put_pvid", "members", "delete", "pvid", "quit"}
    BY <1>5 DEF JoinStepOf, IsPVID, JoinOps
  <2>2. \A p, n : \A i \in DOMAIN more : Fits(more[i], p, n, pvid', vid)
    BY <2>1 DEF Fits
  <2>3. \A p, n : ~Names(Work[1], p, n, pvid, vid)
    BY <1>0 DEF Names, Puts
  <2>4. CASE member[Work[1].num] \subseteq Work[1].ports
    <3>1. \A n \in Nums : member[n] \subseteq member'[n]
      BY <1>b, <1>c, <2>4
    <3>2. ASSUME NEW p \in Ports, pvid'[p] # 0 PROVE vid[pvid'[p]] # 0 /\ Reaches(0, more, p, pvid'[p])
      <4>1. pvid'[p] = pvid[p] /\ vid[pvid[p]] # 0 /\ InOrJoins(0, p, pvid[p]) /\ pvid[p] \in Nums
        BY <1>0, <1>8, <3>2 DEF Indexing
      <4>2. Adds(Work[1], p, pvid[p]) => p \in member'[pvid[p]]
        BY <1>0, <1>c DEF Adds
      <4> QED
        BY <1>a, <3>1, <4>1, <4>2 DEF Reaches, InOrJoins
    <3>3. Indexing'
      BY <1>0, <1>4, <1>8, <2>1, <2>2, <2>3, <3>1, <3>2, IndexGoesOn
    <3> QED
      BY <1>0, <3>3 DEF IndexInv
  <2>5. CASE ~(member[Work[1].num] \subseteq Work[1].ports)
    <3>1. /\ 2 \in DOMAIN Work /\ Work[2].op = "quit" /\ Work[2].num # Work[1].num
          /\ member[Work[1].num] \subseteq Work[1].ports \union {Work[2].port}
      BY <1>0, <1>8, <2>5 DEF Indexing
    <3>2. Stays(2, Work[2].port, Work[2].num)
      BY <1>8, <3>1 DEF Indexing
    <3>3. pvid[Work[2].port] \in {0, Work[2].num}
      <4>1. \A j \in DOMAIN Work : j < 2 => j = 1
        <5>1. DOMAIN Work \subseteq Nat \ {0}
          BY <1>0, <1>4, Places
        <5> QED
          BY <5>1
      <4> QED
        BY <2>3, <3>2, <4>1 DEF Stays
    <3>4. \A k \in DOMAIN Work : k > 1 => Work[k].op # "pvid"
      <4>1. \A k \in DOMAIN Work : k > 1 => k = 2 \/ k > 2
        <5>1. DOMAIN Work \subseteq Nat \ {0}
          BY <1>0, <1>4, Places
        <5> QED
          BY <5>1
      <4> QED
        BY <3>1, <3>2, <4>1 DEF Stays
    <3>5. ASSUME NEW p \in Ports, pvid'[p] # 0 PROVE vid[pvid'[p]] # 0 /\ Reaches(0, more, p, pvid'[p])
      <4>1. pvid'[p] = pvid[p] /\ vid[pvid[p]] # 0 /\ InOrJoins(0, p, pvid[p]) /\ pvid[p] \in Nums
        BY <1>0, <1>8, <3>5 DEF Indexing
      <4>2. Adds(Work[1], p, pvid[p]) => p \in member'[pvid[p]]
        BY <1>0, <1>c DEF Adds
      <4>3. p \in member[pvid[p]] => p \in member'[pvid[p]]
        <5>1. CASE pvid[p] = Work[1].num
          <6>1. p # Work[2].port
            BY <3>1, <3>3, <3>5, <4>1, <5>1
          <6> QED
            BY <1>c, <3>1, <5>1, <6>1
        <5>2. CASE pvid[p] # Work[1].num
          BY <1>b, <4>1, <5>2
        <5> QED
          BY <5>1, <5>2
      <4> QED
        BY <1>a, <4>1, <4>2, <4>3 DEF Reaches, InOrJoins
    <3>6. Indexing'
      BY <1>0, <1>4, <1>8, <2>1, <2>2, <2>3, <3>4, <3>5, IndexGoesOn
    <3> QED
      BY <1>0, <3>6 DEF IndexInv
  <2> QED
    BY <2>4, <2>5
<1>9. CASE Unindexing
  <2>1. PICK n \in Nums \ {0} : UnindexingFrom(n)
    BY <1>9 DEF Unindexing
  <2>2. Work[1].num = n \/ (Work[1].num = 0 /\ member[0] \subseteq Work[1].ports)
    BY <1>0, <2>1 DEF UnindexingFrom
  <2>3. \A p \in Ports : pvid[p] = n => ~Removes(Work[1], p, n)
    BY <1>0, <1>d, <2>1 DEF UnindexingFrom
  <2>4. ASSUME NEW p \in Ports PROVE Good(p)'
    <3>1. Good(p)
      BY <2>1 DEF UnindexingFrom
    <3>2. CASE pvid[p] = Work[1].num
      <4>1. pvid[p] = 0 \/ p \in Work[1].ports
        BY <1>0, <2>2, <2>3, <3>2 DEF Removes, Takes
      <4> QED
        BY <1>0, <1>c, <3>1, <3>2, <4>1 DEF Good
    <3>3. CASE pvid[p] # Work[1].num
      BY <1>0, <1>b, <3>1, <3>3 DEF Good
    <3> QED
      BY <3>2, <3>3
  <2>5. \A i \in DOMAIN more : PartStepOf(more[i], n, vid[n]) /\ more[i].op \notin {"vid", "members", "put_pvid", "delete"}
    BY <1>5 DEF PartStepOf, IsPVID, PartOps
  <2>6. \A i \in DOMAIN more, p \in Ports : ~Removes(more[i], p, n)
    BY <2>5 DEF Removes, Takes
  <2>7. \A p \in Ports : ~Zeroes(Work[1], p, pvid)
    BY <1>0 DEF Zeroes, SetsBack, Puts
  <2>8. UnindexingFrom(n)'
    BY <1>0, <1>4, <2>1, <2>4, <2>5, <2>6, <2>7, UnindexGoesOn
  <2> QED
    BY <1>0, <2>1, <2>8 DEF IndexInv, Unindexing
<1> QED
  BY <1>6, <1>7, <1>8, <1>9 DEF IndexInv
-----------------------------------------------------------------------------
\* The members of an entry are read, to write them with a port more or less.
LEMMA IndexMembersRead ==
  ASSUME OneSession, Inv, IndexInv, NEW op \in {"add", "delete"}, Doing(Cli, op), NEW y,
         y = Members(Work[1].num, IF op = "add" THEN member[Work[1].num] \union {Work[1].port}
                                  ELSE member[Work[1].num] \ {Work[1].port}),
         Goon(Cli, <<y>>), UNCHANGED <<vid, member, pvid>>
  PROVE  IndexInv'
<1>0. /\ TypeInv /\ Work # <<>> /\ Work[1].op = op /\ 1 \in DOMAIN Work /\ Head(todo[Cli]) = Work[1]
      /\ pvid \in [Ports -> Nums] /\ member \in [Nums -> SUBSET Ports]
      /\ Work[1] \in [op : {"add", "delete"}, port : Ports, num : Nums]
      /\ 0 \in Nums
  <2>1. TypeInv /\ pvid \in [Ports -> Nums]
    BY DEF Inv, IndexInv
  <2>2. Work # <<>> /\ Work[1].op = op /\ 1 \in DOMAIN Work /\ Head(todo[Cli]) = Work[1] /\ Typed(Work[1])
    BY <2>1, HeadIsFirst
  <2>3. Work[1] \in [op : {"add", "delete"}, port : Ports, num : Nums]
    <3>1. Work[1].op \in {"add", "delete"}
      BY <2>2
    <3> QED
      BY <2>2, <3>1 DEF Typed
  <2>4. member \in [Nums -> SUBSET Ports]
    BY <2>1 DEF TypeInv
  <2> QED
    BY <2>1, <2>2, <2>3, <2>4, Constants
<1>3. PICK more : more = <<y>>
  OBVIOUS
<1>4. /\ IsSeq(more) /\ DOMAIN more = {1} /\ more[1] = y /\ Goon(Cli, more)
      /\ y.op = "members" /\ y.num = Work[1].num /\ y.ports \subseteq Ports
      /\ op = "add" => y.ports = member[Work[1].num] \union {Work[1].port}
      /\ op = "delete" => y.ports = member[Work[1].num] \ {Work[1].port}
  BY <1>0, <1>3, OneMore DEF Members
<1>5. \A i \in DOMAIN more : more[i] = y /\ i = 1 /\ more[i].op = "members"
  BY <1>4
<1>a. \A k \in DOMAIN Work : k = 1 \/ k > 1
  BY <1>0, <1>4, Places
<1>d. \A j \in DOMAIN Work : ~(j < 1)
  <2>1. DOMAIN Work \subseteq Nat \ {0}
    BY <1>0, <1>4, Places
  <2> QED
    BY <2>1
<1>6. ~Resetting /\ ~Isolating
  BY <1>0 DEF Resetting, ResetStep, Isolating, OwnStep, ScriptOps, SettingOps
<1>8. CASE Indexing
  <2>1. \A i \in DOMAIN more : JoinStepOf(more[i], vid)
    BY <1>5 DEF JoinStepOf, IsPVID, JoinOps
  <2>2. \A p, n : \A i \in DOMAIN more : Fits(more[i], p, n, pvid', vid)
    BY <1>5 DEF Fits
  <2>3. \A p, n : ~Names(Work[1], p, n, pvid, vid)
    BY <1>0 DEF Names, Puts
  <2>4. ASSUME NEW p \in Ports, pvid'[p] # 0 PROVE vid[pvid'[p]] # 0 /\ Reaches(0, more, p, pvid'[p])
    <3>1. pvid'[p] = pvid[p] /\ vid[pvid[p]] # 0 /\ InOrJoins(0, p, pvid[p]) /\ pvid[p] \in Nums
      BY <1>0, <1>8, <2>4 DEF Indexing
    <3>2. Adds(Work[1], p, pvid[p]) => Adds(y, p, pvid[p])
      BY <1>0, <1>4 DEF Adds
    <3> QED
      BY <1>4, <1>a, <3>1, <3>2 DEF Reaches, InOrJoins
  <2>5. \/ member'[y.num] \subseteq y.ports
        \/ /\ 2 \in DOMAIN Work /\ Work[2].op = "quit" /\ Work[2].num # y.num
           /\ member'[y.num] \subseteq y.ports \union {Work[2].port}
    <3>1. CASE op = "add"
      BY <1>4, <3>1
    <3>2. CASE op = "delete"
      BY <1>0, <1>4, <1>8, <3>2 DEF Indexing
    <3> QED
      BY <3>1, <3>2
  <2>6. 2 \notin DOMAIN more
    BY <1>4
  <2>7. Indexing'
    BY <1>0, <1>4, <1>5, <1>8, <2>1, <2>2, <2>3, <2>4, <2>5, <2>6, IndexGoesOn
  <2> QED
    BY <1>0, <2>7 DEF IndexInv
<1>9. CASE Unindexing
  <2>1. PICK n \in Nums \ {0} : UnindexingFrom(n)
    BY <1>9 DEF Unindexing
  <2>2. (op = "add" /\ y.num = 0 /\ member[0] \subseteq y.ports) \/ (op = "delete" /\ y.num = n)
    BY <1>0, <1>4, <2>1 DEF UnindexingFrom
  <2>3. ASSUME NEW p \in Ports, pvid'[p] = n PROVE ~Removes(y, p, n)
    <3>1. CASE op = "add"
      BY <1>4, <2>2, <3>1 DEF Removes, Takes
    <3>2. CASE op = "delete"
      <4>1. p \in member[n]
        BY <2>1, <2>3 DEF UnindexingFrom, Good
      <4>2. ~Removes(Work[1], p, n)
        BY <1>0, <1>d, <2>1, <2>3 DEF UnindexingFrom
      <4>3. p # Work[1].port
        BY <1>0, <3>2, <4>2 DEF Removes, Takes
      <4> QED
        BY <1>4, <2>2, <3>2, <4>1, <4>3 DEF Removes, Takes
    <3> QED
      BY <2>2, <3>1, <3>2
  <2>4. \A p \in Ports : Good(p)'
    BY <1>0, <2>1 DEF UnindexingFrom, Good
  <2>5. \A i \in DOMAIN more :
          /\ PartStepOf(more[i], n, vid[n]) /\ more[i].op # "vid" /\ more[i].op # "put_pvid"
          /\ more[i].num = n \/ (i = 1 /\ more[i].num = 0 /\ member[0] \subseteq more[i].ports)
    BY <1>5, <2>2 DEF PartStepOf, IsPVID, PartOps
  <2>6. \A i \in DOMAIN more, p \in Ports : pvid'[p] = n => ~Removes(more[i], p, n)
    BY <1>5, <2>3
  <2>7. \A p \in Ports : ~Zeroes(Work[1], p, pvid)
    BY <1>0 DEF Zeroes, SetsBack, Puts
  <2>8. UnindexingFrom(n)'
    BY <1>0, <1>4, <2>1, <2>4, <2>5, <2>6, <2>7, UnindexGoesOn
  <2> QED
    BY <1>0, <2>1, <2>8 DEF IndexInv, Unindexing
<1> QED
  BY <1>6, <1>8, <1>9 DEF IndexInv

LEMMA IndexMembersReadBy ==
  ASSUME OneSession, Inv, IndexInv, SetVlanPortAdd(Cli) \/ SetVlanPortDelete(Cli)
  PROVE  IndexInv'
<1>0. TypeInv
  BY DEF Inv
<1>1. CASE SetVlanPortAdd(Cli)
  <2>1. Doing(Cli, "add") /\ Head(todo[Cli]) = Work[1] /\ UNCHANGED <<vid, member, pvid>>
    BY <1>0, <1>1, HeadIsFirst DEF SetVlanPortAdd, regVars
  <2>2. PICK y : y = Members(Work[1].num, member[Work[1].num] \union {Work[1].port})
    OBVIOUS
  <2>3. Goon(Cli, <<y>>)
    BY <1>1, <2>1, <2>2 DEF SetVlanPortAdd
  <2> QED
    BY <2>1, <2>2, <2>3, IndexMembersRead
<1>2. CASE SetVlanPortDelete(Cli)
  <2>1. Doing(Cli, "delete") /\ Head(todo[Cli]) = Work[1] /\ UNCHANGED <<vid, member, pvid>>
    BY <1>0, <1>2, HeadIsFirst DEF SetVlanPortDelete, regVars
  <2>2. PICK y : y = Members(Work[1].num, member[Work[1].num] \ {Work[1].port})
    OBVIOUS
  <2>3. Goon(Cli, <<y>>)
    BY <1>2, <2>1, <2>2 DEF SetVlanPortDelete
  <2> QED
    BY <2>1, <2>2, <2>3, IndexMembersRead
<1> QED
  BY <1>1, <1>2
-----------------------------------------------------------------------------
\* What a port does to have an entry of its own.
LEMMA OwnSteps ==
  ASSUME NEW p \in Others, NEW s, s = OwnEntry(p)
  PROVE  /\ DOMAIN s = {1, 2, 3, 4}
         /\ s[1].op = "tag"
         /\ s[2].op = "members" /\ s[2].num = EntryOf(p) /\ s[2].ports = {MgtPort, p}
         /\ s[3].op = "vid" /\ s[3].num = EntryOf(p) /\ s[3].vid = EntryOf(p) + 1
         /\ s[4] = [op |-> "pvid", port |-> p, vid |-> EntryOf(p) + 1]
<1> DEFINE e == EntryOf(p)
           a == OutTag(p, 0)
           b == Members(e, {MgtPort, p})
           c == VID(e, e + 1)
           d == PVID(p, e + 1)
<1>1. s = <<a, b, c, d>>
  BY DEF OwnEntry, Others
<1>2. /\ a.op = "tag"
      /\ b.op = "members" /\ b.num = e /\ b.ports = {MgtPort, p}
      /\ c.op = "vid" /\ c.num = e /\ c.vid = e + 1
      /\ d = [op |-> "pvid", port |-> p, vid |-> e + 1]
  BY DEF OutTag, Members, VID, PVID
<1>3. DOMAIN s = {1, 2, 3, 4} /\ s[1] = a /\ s[2] = b /\ s[3] = c /\ s[4] = d
  <2> HIDE DEF a, b, c, d
  <2>1. s \in Seq({a, b, c, d}) /\ DOMAIN s = 1 .. 4 /\ s[1] = a /\ s[2] = b /\ s[3] = c /\ s[4] = d
    BY <1>1
  <2>2. 1 .. 4 = {1, 2, 3, 4}
    OBVIOUS
  <2> QED
    BY <2>1, <2>2
<1> QED
  BY <1>2, <1>3

\* The entries below that of a port are of ports below it.
LEMMA EntriesBelow ==
  ASSUME NEW p \in Others, NEW n \in 1 .. EntryOf(p) - 1
  PROVE  \E q \in Others : EntryOf(q) = n /\ q < p
<1>1. /\ p \in Nat /\ p >= 1 /\ p <= NumPorts /\ p # MgtPort /\ NumPorts \in Nat
      /\ MgtPort \in Nat /\ MgtPort >= 1 /\ MgtPort <= NumPorts /\ Ports = 1 .. NumPorts
  BY Constants DEF Others
<1>2. n \in Nat /\ n >= 1 /\ n < EntryOf(p)
  BY <1>1 DEF EntryOf
<1>3. CASE n < MgtPort
  <2>1. n \in Others /\ EntryOf(n) = n /\ n < p
    BY <1>1, <1>2, <1>3 DEF EntryOf, Others
  <2> QED
    BY <2>1
<1>4. CASE ~(n < MgtPort)
  <2>1. n + 1 \in Others /\ EntryOf(n + 1) = n /\ n + 1 < p
    BY <1>1, <1>2, <1>4 DEF EntryOf, Others
  <2> QED
    BY <2>1
<1> QED
  BY <1>3, <1>4

\* Before a port gets its entry those below it have theirs.
LEMMA OwnBelow ==
  ASSUME TypeInv, Isolating, 1 \in DOMAIN Work, NEW p \in Others, OwnTurnOf(Work[1], p),
         \A k \in DOMAIN Work : k = 1 \/ k > 1, NEW n \in 1 .. EntryOf(p) - 1
  PROVE  OwnVID(n)
<1>1. PICK q \in Others : EntryOf(q) = n /\ q < p
  BY EntriesBelow
<1>2. p \in Nat /\ q \in Nat /\ p \in Ports /\ q \in Ports /\ p # q /\ ~(p < q)
  BY <1>1, Constants DEF Others
<1>3. \A i \in DOMAIN Work : i > 1 => 1 < i /\ i \in Nat
  <2>1. DOMAIN Work = 1 .. Len(Work)
    BY DEF TypeInv, IsSeq
  <2> QED
    BY <2>1
<1>4. \A i \in DOMAIN Work : ~OwnTurnOf(Work[i], q)
  <2>1. ~OwnTurnOf(Work[1], q)
    <3>1. OwnEntry(p)[4].port = p /\ OwnEntry(q)[4].port = q
      <4>1. OwnEntry(p)[4] = [op |-> "pvid", port |-> p, vid |-> EntryOf(p) + 1]
        BY OwnSteps
      <4>2. OwnEntry(q)[4] = [op |-> "pvid", port |-> q, vid |-> EntryOf(q) + 1]
        BY OwnSteps
      <4> QED
        BY <4>1, <4>2
    <3> QED
      BY <1>2, <3>1 DEF OwnTurnOf
  <2>2. ASSUME NEW i \in DOMAIN Work, i > 1, OwnTurnOf(Work[i], q) PROVE FALSE
    <3>1. 1 < i
      BY <1>3, <2>2
    <3> QED
      BY <1>2, <2>2, <3>1 DEF Isolating
  <2> QED
    BY <2>1, <2>2
<1>5. \A i \in DOMAIN Work : ~GivesIndex(Work[i], q)
  <2>1. Work[1].op = "turn"
    BY DEF OwnTurnOf
  <2>2. ASSUME NEW i \in DOMAIN Work, GivesIndex(Work[i], q) PROVE FALSE
    <3>1. i # 1
      BY <2>1, <2>2 DEF GivesIndex
    <3>2. 1 < i
      BY <1>3, <3>1
    <3>3. Promised(Work, i, q)
      BY <2>2 DEF Isolating
    <3> QED
      BY <2>1, <3>2, <3>3 DEF Promised
  <2> QED
    BY <2>2
<1>6. Own(q)
  BY <1>4, <1>5 DEF Isolating
<1> QED
  BY <1>1, <1>6 DEF Own

\* The next turn of a loop.
LEMMA IndexTurnStep ==
  ASSUME OneSession, Inv, IndexInv, TakeTurn(Cli)
  PROVE  IndexInv'
<1>0. /\ TypeInv /\ Work # <<>> /\ Work[1].op = "turn" /\ 1 \in DOMAIN Work /\ Head(todo[Cli]) = Work[1]
      /\ UNCHANGED <<vid, member, pvid>> /\ TurnOK(Work[1].does)
  BY HeadIsFirst DEF TakeTurn, Inv, TypeInv, regVars
<1>1. PICK more : more = Work[1].does
  OBVIOUS
<1>2. IsSeq(more) /\ Goon(Cli, more) /\ \A i \in DOMAIN more : more[i].op \in SettingOps \union {"vid", "members"}
  BY <1>0, <1>1 DEF TakeTurn, TurnOK
<1>3. \A i \in DOMAIN more : more[i].op \in ScriptOps /\ more[i].op # "turn"
  BY <1>2 DEF ScriptOps, SettingOps
<1>4. \A k \in DOMAIN Work : k = 1 \/ k > 1
  BY <1>0, <1>2, Places
<1>5. CASE Resetting
  <2>1. /\ \A i \in DOMAIN more : more[i].op # "put_pvid" /\ IsPVID(more[i]) /\ (more[i].op = "pvid" => more[i].vid = 1)
    BY <1>0, <1>1, <1>5 DEF Resetting, ResetStep
  <2>2. \A i \in DOMAIN more : ResetStep(more[i], pvid) /\ (more[i].op = "put_pvid" => i = 1 /\ pvid' = pvid)
    BY <1>3, <2>1 DEF ResetStep
  <2>3. \A p \in Ports : \/ pvid'[p] = 0
                         \/ pvid'[p] = pvid[p] /\ ~Resets(Work[1], p)
                         \/ \E i \in DOMAIN more : Resets(more[i], p)
    BY <1>0, <1>1 DEF Resets, SetsBack
  <2>4. Resetting'
    BY <1>0, <1>2, <1>5, <2>2, <2>3, ResetGoesOn
  <2> QED
    BY <1>0, <2>4 DEF IndexInv
<1>6. CASE Isolating
  <2>1. \/ \E p \in Ports : more = OwnEntry(p)
        \/ \A i \in DOMAIN more : more[i].op \in {"vid", "members"} /\ more[i].num >= NumPorts
    BY <1>0, <1>1, <1>6 DEF Isolating, OwnStep
  <2>2. ASSUME NEW q \in Others, OwnTurnOf(Work[1], q) PROVE 4 \in DOMAIN more /\ GivesIndex(more[4], q)
    <3>1. more = OwnEntry(q)
      BY <1>1, <2>2 DEF OwnTurnOf
    <3>2. DOMAIN more = {1, 2, 3, 4} /\ more[4] = [op |-> "pvid", port |-> q, vid |-> EntryOf(q) + 1]
      BY <3>1, OwnSteps
    <3> QED
      BY <3>2 DEF GivesIndex
  <2>3. \A n \in 1 .. NumPorts - 1 : OwnVID(n) \/ GivesVID(Work[1], n) => OwnVID(n)'
    BY <1>0 DEF OwnVID, GivesVID
  <2>4. \A q \in Others : q \in member[EntryOf(q)] \/ GivesMember(Work[1], q) => q \in member'[EntryOf(q)]
    BY <1>0 DEF GivesMember
  <2>5. \A q \in Others : OwnTurnOf(Work[1], q) \/ GivesIndex(Work[1], q) =>
          \E i \in DOMAIN more : GivesIndex(more[i], q) \/ (Own(q)' /\ Indexed(more[i], q, pvid'))
    BY <1>0, <2>2 DEF GivesIndex
  <2>6. \A q \in Others : Indexed(Work[1], q, pvid) => pvid'[q] = EntryOf(q)
    BY <1>0 DEF Indexed, Puts
  <2>7. \A i \in DOMAIN more :
          OwnStep(more[i]) /\ more[i].op # "put_pvid" /\ \A q \in Others : GivesIndex(more[i], q) => Promised(more, i, q)'
    <3>1. CASE \A i \in DOMAIN more : more[i].op \in {"vid", "members"} /\ more[i].num >= NumPorts
      <4>1. ASSUME NEW i \in DOMAIN more PROVE OwnStep(more[i])
        <5>1. Typed(more[i])
          BY <1>0, <1>1 DEF TurnOK
        <5>2. more[i].num \in Nat /\ more[i].num >= NumPorts /\ NumPorts \in Nat
          BY <3>1, <5>1, Constants DEF Typed, OfVID, OfMembers
        <5>3. more[i].num \notin 1 .. NumPorts - 1
          BY <5>2
        <5> QED
          BY <1>3, <3>1, <5>3, EntriesOf DEF OwnStep, IsPVID
      <4> QED
        BY <3>1, <4>1 DEF GivesIndex
    <3>2. CASE \E p \in Ports : more = OwnEntry(p)
      <4>1. PICK p \in Ports : more = OwnEntry(p)
        BY <3>2
      <4>2. CASE p = MgtPort
        <5>1. \A i \in DOMAIN more : more[i].op = "tag"
          <6>1. PICK y : y = OutTag(p, 0)
            OBVIOUS
          <6>2. more = <<y>> /\ y.op = "tag"
            BY <4>1, <4>2, <6>1 DEF OwnEntry, OutTag
          <6> QED
            BY <6>2, OneMore
        <5> QED
          BY <1>3, <5>1 DEF OwnStep, IsPVID, GivesIndex
      <4>3. CASE p # MgtPort
        <5>1. p \in Others
          BY <4>3 DEF Others
        <5>2. /\ DOMAIN more = {1, 2, 3, 4}
              /\ more[1].op = "tag"
              /\ more[2].op = "members" /\ more[2].num = EntryOf(p) /\ more[2].ports = {MgtPort, p}
              /\ more[3].op = "vid" /\ more[3].num = EntryOf(p) /\ more[3].vid = EntryOf(p) + 1
              /\ more[4] = [op |-> "pvid", port |-> p, vid |-> EntryOf(p) + 1]
          BY <4>1, <5>1, OwnSteps
        <5>3. EntryOf(p) + 1 \in Nat
          <6>1. EntryOf(p) \in Nat
            BY <5>1, EntriesOf
          <6> QED
            BY <6>1
        <5>4. \A q \in Others : EntryOf(q) = EntryOf(p) => q = p
          BY <5>1, Constants DEF EntryOf, Others
        <5>5. ASSUME NEW i \in DOMAIN more PROVE OwnStep(more[i]) /\ more[i].op # "put_pvid"
          <6>1. IsPVID(more[i])
            BY <5>2, <5>3 DEF IsPVID
          <6> QED
            BY <1>3, <4>3, <5>2, <5>4, <6>1 DEF OwnStep
        <5>6. Promised(more, 4, p)'
          <6>1. OwnTurnOf(Work[1], p)
            BY <1>0, <1>1, <4>1 DEF OwnTurnOf
          <6>2. \A n \in 1 .. EntryOf(p) - 1 : OwnVID(n)
            BY <1>0, <1>4, <1>6, <5>1, <6>1, OwnBelow
          <6>3. \A n \in 1 .. EntryOf(p) - 1 : OwnVID(n)'
            BY <1>0, <6>2 DEF OwnVID
          <6>4. GivesMember(more[2], p) /\ GivesVID(more[3], EntryOf(p)) /\ 2 \in DOMAIN more /\ 3 \in DOMAIN more
            BY <5>2 DEF GivesMember, GivesVID
          <6>5. 2 < 4 /\ 3 < 4
            OBVIOUS
          <6> QED
            BY <1>3, <6>3, <6>4, <6>5 DEF Promised
        <5>7. \A i \in DOMAIN more, q \in Others : GivesIndex(more[i], q) => i = 4 /\ q = p
          BY <5>2 DEF GivesIndex
        <5> QED
          BY <5>5, <5>6, <5>7
      <4> QED
        BY <4>2, <4>3
    <3> QED
      BY <2>1, <3>1, <3>2
  <2>8. Isolating'
    BY <1>0, <1>2, <1>3, <1>6, <2>3, <2>4, <2>5, <2>6, <2>7, IsolateGoesOn
  <2> QED
    BY <1>0, <2>8 DEF IndexInv
<1>7. ~Indexing /\ ~Unindexing
  BY <1>0 DEF Indexing, JoinStepOf, JoinOps, Unindexing, UnindexingFrom, PartOps, SettingOps
<1> QED
  BY <1>5, <1>6, <1>7 DEF IndexInv
-----------------------------------------------------------------------------
\* A port joins an entry and, when it is untagged, gets the index of it.
LEMMA IndexJoinStep ==
  ASSUME OneSession, Inv, CopyDefault, Calm, IndexInv, Join(Cli)
  PROVE  IndexInv'
<1>0. /\ TypeInv /\ DefaultInv /\ TableInv /\ CopyInv
      /\ Work # <<>> /\ Work[1].op = "join" /\ 1 \in DOMAIN Work /\ Head(todo[Cli]) = Work[1]
      /\ UNCHANGED <<vid, member, pvid>> /\ pvid \in [Ports -> Nums] /\ pvid[MgtPort] = 0
      /\ Work[1] \in [op : {"join"}, port : Ports, vid : Vids, tagged : BOOLEAN]
  BY CalmIsSafe, HeadIsFirst DEF Join, regVars, Inv, IndexInv, Typed
<1>1. NothingStored
  BY <1>0 DEF NothingStored, Storing
<1>2. Joins
  BY <1>0 DEF TableInv, SetUp, Parting, PartsFrom, SettingOps
<1>3. Indexing
  BY <1>0 DEF IndexInv, Resetting, ResetStep, Isolating, OwnStep, Unindexing, UnindexingFrom, ScriptOps, PartOps, SettingOps
<1>4. \A k \in DOMAIN Work : k > 1 => Work[k].op = "join"
  <2>1. \A k \in DOMAIN Work : k > 1 => 1 < k
    <3>1. DOMAIN Work = 1 .. Len(Work)
      BY <1>0, WorkStarts
    <3> QED
      BY <3>1
  <2> QED
    BY <1>0, <1>2, <2>1 DEF Joins
<1>5. PICK p \in Ports : p = Work[1].port
  BY <1>0
<1>6. PICK v \in Vids : v = Work[1].vid
  BY <1>0
<1>7. PICK n : n = VlanNumFromVID(v)
  OBVIOUS
<1>8. n = EntryFor(v, vid) /\ n \in Nums /\ vid[n] = v /\ \E m \in Nums : vid[m] = v
  <2>1. \E m \in Nums : vid[m] = v
    BY <1>0, <1>2, <1>6 DEF Joins
  <2> QED
    BY <1>0, <1>1, <1>7, <2>1, NumOf
<1>9. PICK a : a = AddPort(p, n)
  OBVIOUS
<1>10. PICK quit : quit = [op |-> "quit", port |-> p, num |-> n, from |-> 0]
  OBVIOUS
<1>11. PICK i0 : i0 = Insert(p, TRUE)
  OBVIOUS
<1>12. PICK i1 : i1 = Insert(p, FALSE)
  OBVIOUS
<1>13. PICK v1 : v1 = PVID(p, v)
  OBVIOUS
<1>14. PICK t0 : t0 = OutTag(p, 0)
  OBVIOUS
<1>15. PICK t3 : t3 = OutTag(p, 3)
  OBVIOUS
<1>16. /\ a.op = "add" /\ a.port = p /\ a.num = n
       /\ quit.op = "quit" /\ quit.port = p /\ quit.num = n
       /\ i0.op = "insert" /\ i1.op = "insert" /\ t0.op = "tag" /\ t3.op = "tag"
       /\ v1 = [op |-> "pvid", port |-> p, vid |-> v]
  BY <1>9, <1>10, <1>11, <1>12, <1>13, <1>14, <1>15 DEF AddPort, Insert, PVID, OutTag
<1>17. PICK more :
         /\ Goon(Cli, more)
         /\ \/ more = <<i0, a, t3>>
            \/ more = <<a, quit, t0>> /\ p = MgtPort
            \/ more = <<i1, v1, a, quit, t0>> /\ p # MgtPort
  <2>1. <<>> \o <<a, quit, t0>> = <<a, quit, t0>> /\ <<i1, v1>> \o <<a, quit, t0>> = <<i1, v1, a, quit, t0>>
    BY Tuples
  <2>2. Goon(Cli, IF Work[1].tagged THEN <<i0, a, t3>>
                  ELSE (IF p = MgtPort THEN <<>> ELSE <<i1, v1>>) \o <<a, quit, t0>>)
    BY <1>0, <1>5, <1>6, <1>7, <1>9, <1>10, <1>11, <1>12, <1>13, <1>14, <1>15 DEF Join
  <2> QED
    BY <2>1, <2>2
<1>18. Adds(a, p, n) /\ Names(v1, p, n, pvid', vid)
  BY <1>8, <1>16 DEF Adds, Names
<1>19. /\ JoinStepOf(a, vid) /\ JoinStepOf(quit, vid) /\ JoinStepOf(i0, vid) /\ JoinStepOf(i1, vid)
       /\ JoinStepOf(t0, vid) /\ JoinStepOf(t3, vid)
       /\ p # MgtPort => JoinStepOf(v1, vid)
  <2>1. v1 \in [op : {"pvid"}, port : Ports, vid : Nat]
    <3>1. v \in Nat
      BY Constants
    <3> QED
      BY <1>16, <3>1
  <2> QED
    BY <1>8, <1>16, <2>1 DEF JoinStepOf, IsPVID, JoinOps, SettingOps
<1>20. \A x : x \in {a, i0, i1, t0, t3, v1, quit} => Fits(x, p, n, pvid', vid)
  BY <1>8, <1>16 DEF Fits
<1>21. /\ IsSeq(more)
       /\ \A i \in DOMAIN more :
            /\ JoinStepOf(more[i], vid) /\ more[i].op \notin {"put_pvid", "members", "delete"}
            /\ more[i].op = "pvid" => Reaches(i, more, more[i].port, EntryFor(more[i].vid, vid))
            /\ more[i].op = "quit" =>
                 /\ more[i].port = p /\ more[i].num = n
                 /\ p = MgtPort \/ \E j \in DOMAIN more : j < i /\ Names(more[j], p, n, pvid', vid)
                 /\ \A j \in DOMAIN more : Fits(more[j], p, n, pvid', vid)
                 /\ \A j \in DOMAIN more : j > i => more[j].op = "tag"
  <2>1. CASE more = <<i0, a, t3>>
    <3>1. more \in Seq({i0, a, t3}) /\ DOMAIN more = 1 .. 3 /\ more[1] = i0 /\ more[2] = a /\ more[3] = t3
      BY <2>1
    <3>2. \A i \in DOMAIN more : i = 1 \/ i = 2 \/ i = 3
      BY <3>1
    <3> QED
      BY <1>16, <1>19, <3>1, <3>2 DEF IsSeq
  <2>2. CASE more = <<a, quit, t0>> /\ p = MgtPort
    <3>1. more \in Seq({a, quit, t0}) /\ DOMAIN more = 1 .. 3 /\ more[1] = a /\ more[2] = quit /\ more[3] = t0
      BY <2>2
    <3>2. \A i \in DOMAIN more : i = 1 \/ i = 2 \/ i = 3
      BY <3>1
    <3>3. \A i \in DOMAIN more : i > 2 => i = 3
      BY <3>1
    <3> QED
      BY <1>16, <1>19, <1>20, <2>2, <3>1, <3>2, <3>3 DEF IsSeq
  <2>3. CASE more = <<i1, v1, a, quit, t0>> /\ p # MgtPort
    <3>1. /\ more \in Seq({i1, v1, a, quit, t0}) /\ DOMAIN more = 1 .. 5
          /\ more[1] = i1 /\ more[2] = v1 /\ more[3] = a /\ more[4] = quit /\ more[5] = t0
      BY <2>3
    <3>2. \A i \in DOMAIN more : i = 1 \/ i = 2 \/ i = 3 \/ i = 4 \/ i = 5
      BY <3>1
    <3>3. 2 \in DOMAIN more /\ 3 \in DOMAIN more /\ 2 < 4 /\ 3 > 2 /\ \A i \in DOMAIN more : i > 4 => i = 5
      BY <3>1
    <3>4. Reaches(2, more, p, n)
      BY <1>18, <3>1, <3>3 DEF Reaches
    <3>5. \A i \in DOMAIN more : Fits(more[i], p, n, pvid', vid)
      BY <1>20, <3>1, <3>2
    <3>6. \A i \in DOMAIN more : more[i].op = "pvid" => i = 2 /\ more[i].port = p /\ EntryFor(more[i].vid, vid) = n
      BY <1>8, <1>16, <3>1, <3>2
    <3>7. \A i \in DOMAIN more : more[i].op = "quit" => i = 4 /\ more[i].port = p /\ more[i].num = n
      BY <1>16, <3>1, <3>2
    <3>8. \A i \in DOMAIN more : JoinStepOf(more[i], vid) /\ more[i].op \notin {"put_pvid", "members", "delete"}
      BY <1>16, <1>19, <2>3, <3>1, <3>2
    <3>9. \A i \in DOMAIN more : i > 4 => more[i].op = "tag"
      BY <1>16, <3>1, <3>3
    <3>10. Names(more[2], p, n, pvid', vid)
      BY <1>18, <3>1
    <3>11. IsSeq(more)
      BY <3>1 DEF IsSeq
    <3> QED
      BY <3>3, <3>4, <3>5, <3>6, <3>7, <3>8, <3>9, <3>10, <3>11
  <2> QED
    BY <1>17, <2>1, <2>2, <2>3
<1>22. \A k \in DOMAIN Work : k = 1 \/ k > 1
  BY <1>0, <1>17, <1>21, Places
<1>23. ASSUME NEW q \in Ports, pvid'[q] # 0 PROVE vid[pvid'[q]] # 0 /\ Reaches(0, more, q, pvid'[q])
  <2>1. pvid'[q] = pvid[q] /\ vid[pvid[q]] # 0 /\ InOrJoins(0, q, pvid[q])
    BY <1>0, <1>3, <1>23 DEF Indexing
  <2>2. ~Adds(Work[1], q, pvid[q])
    BY <1>0 DEF Adds
  <2> QED
    BY <1>0, <1>22, <2>1, <2>2 DEF Reaches, InOrJoins
<1>24. p = MgtPort => pvid'[p] = 0
  BY <1>0
<1>25. Indexing'
  BY <1>0, <1>3, <1>4, <1>17, <1>21, <1>23, <1>24, IndexGoesOn
<1> QED
  BY <1>0, <1>25 DEF IndexInv

\* An untagged port quits the next of the other entries.
LEMMA IndexQuitStep ==
  ASSUME OneSession, Inv, IndexInv, Quit(Cli)
  PROVE  IndexInv'
<1>0. /\ TypeInv /\ Work # <<>> /\ Work[1].op = "quit" /\ 1 \in DOMAIN Work /\ Head(todo[Cli]) = Work[1]
      /\ UNCHANGED <<vid, member, pvid>> /\ pvid \in [Ports -> Nums]
      /\ Work[1] \in [op : {"quit"}, port : Ports, num : Nums, from : Nat]
  BY HeadIsFirst DEF Quit, regVars, Inv, IndexInv, Typed
<1>1. Indexing
  BY <1>0 DEF IndexInv, Resetting, ResetStep, Isolating, OwnStep, Unindexing, UnindexingFrom, ScriptOps, PartOps, SettingOps
<1>2. \A j \in DOMAIN Work : ~(j < 1)
  <2>1. DOMAIN Work = 1 .. Len(Work)
    BY <1>0, WorkStarts
  <2> QED
    BY <2>1
<1>3. /\ pvid[Work[1].port] \in {0, Work[1].num}
      /\ \A k \in DOMAIN Work : k > 1 => Work[k].op \in {"tag", "join"}
  <2>1. Stays(1, Work[1].port, Work[1].num)
    BY <1>0, <1>1 DEF Indexing
  <2> QED
    BY <1>2, <2>1 DEF Stays
<1>4. PICK next \in Nat : \/ Goon(Cli, <<>>)
                          \/ /\ next \in Nums /\ next # Work[1].num
                             /\ Goon(Cli, <<DeletePort(Work[1].port, next), [Work[1] EXCEPT !.from = next + 1]>>)
  <2>1. PICK others : others = {n \in Nums : n >= Work[1].from /\ n # Work[1].num /\ Work[1].port \in vlanPort[n]}
    OBVIOUS
  <2>2. Goon(Cli, IF others = {} THEN <<>>
                  ELSE <<DeletePort(Work[1].port, Min(others)), [Work[1] EXCEPT !.from = Min(others) + 1]>>)
    BY <1>0, <2>1 DEF Quit
  <2>3. CASE others = {}
    BY <2>2, <2>3
  <2>4. CASE others # {}
    <3>1. others \subseteq Nat
      BY <2>1, Constants
    <3>2. Min(others) \in others
      BY <2>4, <3>1, MinIsLeast
    <3>3. Min(others) \in Nat /\ Min(others) \in Nums /\ Min(others) # Work[1].num
      BY <2>1, <3>1, <3>2
    <3> QED
      BY <2>2, <2>4, <3>3
  <2> QED
    BY <2>3, <2>4
<1>5. PICK d : d = DeletePort(Work[1].port, next)
  OBVIOUS
<1>6. PICK q : q = [Work[1] EXCEPT !.from = next + 1]
  OBVIOUS
<1>7. /\ d.op = "delete" /\ d.port = Work[1].port /\ d.num = next
      /\ q.op = "quit" /\ q.port = Work[1].port /\ q.num = Work[1].num
  BY <1>0, <1>5, <1>6 DEF DeletePort
<1>8. PICK more : Goon(Cli, more) /\ (more = <<>> \/ (more = <<d, q>> /\ next # Work[1].num))
  BY <1>4, <1>5, <1>6
<1>9. /\ IsSeq(more)
      /\ \A i \in DOMAIN more : (i = 1 /\ more[i] = d) \/ (i = 2 /\ more[i] = q)
      /\ 1 \in DOMAIN more => 2 \in DOMAIN more /\ more[2] = q /\ next # Work[1].num
  <2>1. CASE more = <<>>
    BY <2>1, NothingMore
  <2>2. CASE more = <<d, q>> /\ next # Work[1].num
    <3>1. more \in Seq({d, q}) /\ DOMAIN more = 1 .. 2 /\ more[1] = d /\ more[2] = q
      BY <2>2
    <3>2. \A i \in DOMAIN more : i = 1 \/ i = 2
      BY <3>1
    <3>3. IsSeq(more) /\ 2 \in DOMAIN more
      BY <3>1 DEF IsSeq
    <3>4. \A i \in DOMAIN more : (i = 1 /\ more[i] = d) \/ (i = 2 /\ more[i] = q)
      BY <3>1, <3>2
    <3> QED
      BY <2>2, <3>1, <3>3, <3>4
  <2> QED
    BY <1>8, <2>1, <2>2
<1>10. \A i \in DOMAIN more :
         /\ JoinStepOf(more[i], vid) /\ more[i].op \notin {"put_pvid", "members", "pvid"}
         /\ more[i].op = "delete" => i = 1
         /\ more[i].op = "quit" => i = 2 /\ more[i].port = Work[1].port /\ more[i].num = Work[1].num
  BY <1>7, <1>9 DEF JoinStepOf, IsPVID, JoinOps
<1>11. \A p, n : \A i \in DOMAIN more : Fits(more[i], p, n, pvid', vid)
  BY <1>10 DEF Fits
<1>12. \A i \in DOMAIN more : ~(i > 2)
  BY <1>9
<1>13. \A k \in DOMAIN Work : k = 1 \/ k > 1
  BY <1>0, <1>8, <1>9, Places
<1>14. ASSUME NEW p \in Ports, pvid'[p] # 0 PROVE vid[pvid'[p]] # 0 /\ Reaches(0, more, p, pvid'[p])
  <2>1. pvid'[p] = pvid[p] /\ vid[pvid[p]] # 0 /\ InOrJoins(0, p, pvid[p])
    BY <1>0, <1>1, <1>14 DEF Indexing
  <2>2. ~Adds(Work[1], p, pvid[p])
    BY <1>0 DEF Adds
  <2> QED
    BY <1>0, <1>13, <2>1, <2>2 DEF Reaches, InOrJoins
<1>15. 1 \in DOMAIN more /\ more[1].op = "delete" =>
         2 \in DOMAIN more /\ more[2].op = "quit" /\ more[2].port = more[1].port /\ more[2].num # more[1].num
  BY <1>7, <1>9
<1>16. \A i \in DOMAIN more : more[i].op = "quit" => \A j \in DOMAIN more : ~(j > i)
  BY <1>10, <1>12
<1>17. Indexing'
  BY <1>0, <1>1, <1>3, <1>8, <1>9, <1>10, <1>11, <1>14, <1>15, <1>16, IndexGoesOn
<1> QED
  BY <1>0, <1>17 DEF IndexInv
-----------------------------------------------------------------------------
\* Ports part: the index is set back in the course of it.
LEMMA IndexPartStep ==
  ASSUME OneSession, Inv, Calm, IndexInv, Part(Cli)
  PROVE  IndexInv'
<1>0. /\ TypeInv /\ CopyInv
      /\ Work # <<>> /\ Work[1].op = "part" /\ 1 \in DOMAIN Work /\ Head(todo[Cli]) = Work[1]
      /\ UNCHANGED <<vid, member, pvid>> /\ pvid \in [Ports -> Nums]
      /\ Work[1] \in [op : {"part", "leave"}, port : Ports, vid : Vids, num : Nums, whole : BOOLEAN]
  BY CalmIsSafe, HeadIsFirst DEF Part, regVars, Inv, IndexInv, Typed
<1>1. PICK n \in Nums \ {0} : UnindexingFrom(n)
  BY <1>0 DEF IndexInv, Resetting, ResetStep, Isolating, OwnStep, Indexing, JoinStepOf, Unindexing, ScriptOps, JoinOps, SettingOps
<1>2. Work[1].num = n /\ Work[1].vid = vid[n]
  BY <1>0, <1>1 DEF UnindexingFrom
<1>3. \A p \in Ports : Good(p)'
  BY <1>0, <1>1 DEF UnindexingFrom, Good
<1>4. PICK l : l = [Work[1] EXCEPT !.op = "leave"]
  OBVIOUS
<1>5. PICK d : d = DeletePort(Work[1].port, n)
  OBVIOUS
<1>6. /\ l.op = "leave" /\ l.port = Work[1].port /\ l.num = n /\ l.vid = vid[n]
      /\ d.op = "delete" /\ d.port = Work[1].port /\ d.num = n
  BY <1>0, <1>2, <1>4, <1>5 DEF DeletePort
<1>7. \/ Goon(Cli, <<l>>) \/ Goon(Cli, <<l, d>>)
      \/ Goon(Cli, <<>>) /\ Work[1].port \notin vlanPort[n]
      \/ todo' = [todo EXCEPT ![Cli] = <<>>]
  BY <1>0, <1>2, <1>4, <1>5 DEF Part
<1>8. CASE todo' = [todo EXCEPT ![Cli] = <<>>]
  <2>1. Work' = <<>>
    BY <1>0, <1>8, CliIsOne DEF TypeInv, Work
  <2>2. DOMAIN Work' = {}
    BY <2>1, NothingMore
  <2>3. UnindexingFrom(n)'
    BY <1>3, <2>2 DEF UnindexingFrom
  <2> QED
    BY <1>0, <2>3 DEF IndexInv, Unindexing
<1>9. CASE Goon(Cli, <<>>) /\ Work[1].port \notin vlanPort[n]
  <2>1. PICK more : more = <<>>
    OBVIOUS
  <2>2. IsSeq(more) /\ DOMAIN more = {} /\ Goon(Cli, more)
    BY <1>9, <2>1, NothingMore
  <2>3. Work[1].port \notin member[n]
    <3>1. \A m : ~Storing("store_members", m)
      BY <1>0 DEF Storing
    <3> QED
      BY <1>0, <1>9, <3>1, SameMembers
  <2>4. \A p \in Ports : pvid[p] = n => ~Zeroes(Work[1], p, pvid)
    BY <1>0, <1>1, <2>3 DEF Zeroes, SetsBack, Puts, UnindexingFrom, Good
  <2>5. UnindexingFrom(n)'
    BY <1>0, <1>1, <1>3, <2>2, <2>4, UnindexGoesOn
  <2> QED
    BY <1>0, <2>5 DEF IndexInv, Unindexing
<1>10. ASSUME NEW more, Goon(Cli, more), IsSeq(more), 1 \in DOMAIN more, more[1] = l,
              \A i \in DOMAIN more : i = 1 \/ (i > 1 /\ 1 < i /\ more[i] = d)
       PROVE  IndexInv'
  <2>1. \A i \in DOMAIN more : PartStepOf(more[i], n, vid[n]) /\ more[i].op \in {"leave", "delete"}
    BY <1>6, <1>10 DEF PartStepOf, IsPVID, PartOps
  <2>2. ASSUME NEW i \in DOMAIN more, NEW p \in Ports, Removes(more[i], p, n)
        PROVE  \E j \in DOMAIN more : j < i /\ Zeroes(more[j], p, pvid')
    <3>1. i # 1
      BY <1>6, <1>10, <2>2 DEF Removes, Takes
    <3>2. p = Work[1].port /\ 1 < i
      BY <1>6, <1>10, <2>2, <3>1 DEF Removes, Takes
    <3> QED
      BY <1>6, <1>10, <3>2 DEF Zeroes
  <2>3. \A p \in Ports : Zeroes(Work[1], p, pvid) => Zeroes(l, p, pvid')
    BY <1>0, <1>6 DEF Zeroes, SetsBack, Puts
  <2>4. UnindexingFrom(n)'
    BY <1>0, <1>1, <1>3, <1>10, <2>1, <2>2, <2>3, UnindexGoesOn
  <2> QED
    BY <1>0, <2>4 DEF IndexInv, Unindexing
<1>11. CASE Goon(Cli, <<l>>)
  <2>1. PICK more : more = <<l>>
    OBVIOUS
  <2>2. IsSeq(more) /\ DOMAIN more = {1} /\ more[1] = l
    BY <2>1, OneMore
  <2> QED
    BY <1>10, <1>11, <2>1, <2>2
<1>12. CASE Goon(Cli, <<l, d>>)
  <2>1. PICK more : more = <<l, d>>
    OBVIOUS
  <2>2. more \in Seq({l, d}) /\ DOMAIN more = 1 .. 2 /\ more[1] = l /\ more[2] = d
    BY <2>1
  <2>3. IsSeq(more) /\ 1 \in DOMAIN more /\ \A i \in DOMAIN more : i = 1 \/ (i > 1 /\ 1 < i /\ more[i] = d)
    BY <2>2 DEF IsSeq
  <2> QED
    BY <1>10, <1>12, <2>1, <2>2, <2>3
<1> QED
  BY <1>7, <1>8, <1>9, <1>11, <1>12

\* What a port does to be in the default VLAN again.
LEMMA UnindexBy ==
  ASSUME OneSession, TypeInv, Work # <<>>, NEW more, IsSeq(more), Goon(Cli, more), NEW n \in Nums, UnindexingFrom(n),
         UNCHANGED <<vid, member, pvid>>, NEW p, Work[1].op \in {"leave", "leave_tagged"}, Work[1].port = p,
         \A i \in DOMAIN more :
           \/ more[i].op \in {"insert", "tag"}
           \/ more[i].op = "add" /\ more[i].num = 0
           \/ more[i].op = "leave_tagged" /\ more[i].port = p /\ more[i].vid = vid[n]
           \/ more[i] = PVID(p, 1) /\ p \in Ports,
         pvid[p] = n => \E i \in DOMAIN more : more[i] = PVID(p, 1) \/ (more[i].op = "leave_tagged" /\ more[i].port = p)
  PROVE  UnindexingFrom(n)'
<1>1. PVID(p, 1).op = "pvid" /\ PVID(p, 1).port = p /\ PVID(p, 1).vid = 1 /\ (p \in Ports => IsPVID(PVID(p, 1)))
  BY DEF PVID, IsPVID
<1>2. \A i \in DOMAIN more : PartStepOf(more[i], n, vid[n]) /\ more[i].op \in {"insert", "tag", "add", "leave_tagged", "pvid"}
  BY <1>1, IndexKind DEF PartStepOf, IsPVID, PartOps, SettingOps
<1>3. \A i \in DOMAIN more, q \in Ports : ~Removes(more[i], q, n)
  BY <1>2 DEF Removes, Takes
<1>4. \A q \in Ports : pvid'[q] = n /\ Zeroes(Work[1], q, pvid) => \E j \in DOMAIN more : Zeroes(more[j], q, pvid')
  BY <1>1 DEF Zeroes, SetsBack, Puts
<1>5. \A q \in Ports : Good(q)'
  BY DEF UnindexingFrom, Good
<1> QED
  BY <1>2, <1>3, <1>4, <1>5, UnindexGoesOn

LEMMA IndexLeaveStep ==
  ASSUME OneSession, Inv, IndexInv, Leave(Cli)
  PROVE  IndexInv'
<1>0. /\ TypeInv
      /\ Work # <<>> /\ Work[1].op = "leave" /\ 1 \in DOMAIN Work /\ Head(todo[Cli]) = Work[1]
      /\ UNCHANGED <<vid, member, pvid>> /\ pvid \in [Ports -> Nums]
      /\ Work[1] \in [op : {"part", "leave"}, port : Ports, vid : Vids, num : Nums, whole : BOOLEAN]
  BY HeadIsFirst DEF Leave, regVars, Inv, IndexInv, Typed
<1>1. PICK n \in Nums \ {0} : UnindexingFrom(n)
  BY <1>0 DEF IndexInv, Resetting, ResetStep, Isolating, OwnStep, Indexing, JoinStepOf, Unindexing, ScriptOps, JoinOps, SettingOps
<1>2. Work[1].vid = vid[n]
  BY <1>0, <1>1 DEF UnindexingFrom
<1>3. PICK p \in Ports : p = Work[1].port
  BY <1>0
<1>4. PICK v : v = PVID(p, 1)
  OBVIOUS
<1>5. PICK t : t = OutTag(p, 0)
  OBVIOUS
<1>6. PICK a : a = AddPort(p, 0)
  OBVIOUS
<1>7. PICK l : l = [op |-> "leave_tagged", port |-> p, vid |-> Work[1].vid,
                    in |-> Cardinality({m \in Nums : p \in vlanPort[m]})]
  OBVIOUS
<1>8. t.op = "tag" /\ a.op = "add" /\ a.num = 0 /\ l.op = "leave_tagged" /\ l.port = p /\ l.vid = vid[n]
  BY <1>2, <1>5, <1>6, <1>7 DEF OutTag, AddPort
<1>9. PICK b : /\ b = <<>> \/ b = <<t>>
               /\ Goon(Cli, <<v>> \o b \o <<a>>) \/ Goon(Cli, <<l>>)
  BY <1>0, <1>3, <1>4, <1>5, <1>6, <1>7 DEF Leave
<1>10. PICK more : /\ Goon(Cli, more)
                   /\ more = <<v>> \o b \o <<a>> \/ more = <<l>>
  BY <1>9
<1>11. /\ IsSeq(more)
       /\ \A i \in DOMAIN more : more[i] \in {v, t, a, l}
       /\ 1 \in DOMAIN more /\ more[1] \in {v, l}
  <2>1. CASE more = <<l>>
    BY <2>1, OneMore
  <2>2. CASE more = <<v>> \o b \o <<a>> /\ b = <<>>
    <3>1. more = <<v, a>>
      BY <2>2, Pairs
    <3>2. more \in Seq({v, a}) /\ DOMAIN more = 1 .. 2 /\ more[1] = v /\ more[2] = a
      BY <3>1
    <3>3. \A i \in DOMAIN more : i = 1 \/ i = 2
      BY <3>2
    <3>4. IsSeq(more) /\ 1 \in DOMAIN more
      BY <3>2 DEF IsSeq
    <3> QED
      BY <3>2, <3>3, <3>4
  <2>3. CASE more = <<v>> \o b \o <<a>> /\ b = <<t>>
    <3>1. more = <<v, t, a>>
      BY <2>3, Pairs
    <3>2. more \in Seq({v, t, a}) /\ DOMAIN more = 1 .. 3 /\ more[1] = v /\ more[2] = t /\ more[3] = a
      BY <3>1
    <3>3. \A i \in DOMAIN more : i = 1 \/ i = 2 \/ i = 3
      BY <3>2
    <3>4. IsSeq(more) /\ 1 \in DOMAIN more
      BY <3>2 DEF IsSeq
    <3> QED
      BY <3>2, <3>3, <3>4
  <2> QED
    BY <1>9, <1>10, <2>1, <2>2, <2>3
<1>12. UnindexingFrom(n)'
  <2>1. \A i \in DOMAIN more :
          \/ more[i].op \in {"insert", "tag"}
          \/ more[i].op = "add" /\ more[i].num = 0
          \/ more[i].op = "leave_tagged" /\ more[i].port = p /\ more[i].vid = vid[n]
          \/ more[i] = PVID(p, 1) /\ p \in Ports
    BY <1>3, <1>4, <1>8, <1>11
  <2>2. \E i \in DOMAIN more : more[i] = PVID(p, 1) \/ (more[i].op = "leave_tagged" /\ more[i].port = p)
    BY <1>4, <1>8, <1>11
  <2>3. Work[1].op \in {"leave", "leave_tagged"} /\ Work[1].port = p
    BY <1>0, <1>3
  <2> QED
    BY <1>0, <1>1, <1>10, <1>11, <2>1, <2>2, <2>3, UnindexBy
<1> QED
  BY <1>0, <1>12 DEF IndexInv, Unindexing

LEMMA IndexLeaveTaggedStep ==
  ASSUME OneSession, Inv, IndexInv, LeaveTagged(Cli)
  PROVE  IndexInv'
<1>0. /\ TypeInv
      /\ Work # <<>> /\ Work[1].op = "leave_tagged" /\ 1 \in DOMAIN Work /\ Head(todo[Cli]) = Work[1]
      /\ UNCHANGED <<vid, member, pvid>> /\ pvid \in [Ports -> Nums]
      /\ Work[1].port \in Ports
  BY HeadIsFirst DEF LeaveTagged, regVars, Inv, IndexInv, Typed
<1>1. PICK n \in Nums \ {0} : UnindexingFrom(n)
  BY <1>0 DEF IndexInv, Resetting, ResetStep, Isolating, OwnStep, Indexing, JoinStepOf, Unindexing, ScriptOps, JoinOps, SettingOps
<1>2. Work[1].vid = vid[n]
  BY <1>0, <1>1 DEF UnindexingFrom
<1>3. PICK p \in Ports : p = Work[1].port
  BY <1>0
<1>4. PICK v : v = PVID(p, 1)
  OBVIOUS
<1>5. PICK i : i = Insert(p, FALSE)
  OBVIOUS
<1>6. PICK t : t = OutTag(p, 0)
  OBVIOUS
<1>7. PICK a : a = AddPort(p, 0)
  OBVIOUS
<1>8. t.op = "tag" /\ a.op = "add" /\ a.num = 0 /\ i.op = "insert"
  BY <1>5, <1>6, <1>7 DEF OutTag, AddPort, Insert
<1>9. PICK first, rest :
        /\ Goon(Cli, first \o rest)
        /\ \/ first = <<>> \/ first = <<v>> \o <<i, t, a>> \/ first = <<i, t>> \/ first = <<i, t, a>>
        /\ rest = IF vid[pvid[p]] = Work[1].vid THEN <<v>> ELSE <<>>
  <2>1. PICK back : back = <<i, t, a>>
    OBVIOUS
  <2>2. PICK last : last = (Work[1].in = 1 \/ (Work[1].in = 2 /\ vid[pvid[p]] = 1))
    OBVIOUS
  <2>3. PICK first : first = IF ~last THEN <<>>
                             ELSE IF p # 1 THEN <<v>> \o back
                             ELSE IF Work[1].in = 2 /\ p \in vlanPort[0] THEN <<i, t>>
                             ELSE IF Work[1].in = 1 /\ p \notin vlanPort[0] THEN back
                             ELSE <<>>
    OBVIOUS
  <2>4. Goon(Cli, first \o (IF vid[pvid[p]] = Work[1].vid THEN <<v>> ELSE <<>>))
    BY <1>0, <1>3, <1>4, <1>5, <1>6, <1>7, <2>1, <2>2, <2>3 DEF LeaveTagged
  <2>5. first = <<>> \/ first = <<v>> \o <<i, t, a>> \/ first = <<i, t>> \/ first = <<i, t, a>>
    BY <2>1, <2>3
  <2> QED
    BY <2>4, <2>5
<1>10. IsSeq(first) /\ Elems(first) \subseteq {v, i, t, a}
  <2>1. IsSeq(<<>>) /\ Elems(<<>>) = {}
    BY NoElems
  <2>2. IsSeq(<<i, t>>) /\ Elems(<<i, t>>) = {i, t}
    BY TwoElems
  <2>3. IsSeq(<<i, t, a>>) /\ Elems(<<i, t, a>>) = {i, t, a}
    BY ThreeElems
  <2>4. IsSeq(<<v>>) /\ Elems(<<v>>) = {v}
    BY OneElem
  <2>5. IsSeq(<<v>> \o <<i, t, a>>) /\ Elems(<<v>> \o <<i, t, a>>) = Elems(<<v>>) \union Elems(<<i, t, a>>)
    BY <2>3, <2>4, ConcatElems
  <2> QED
    BY <1>9, <2>1, <2>2, <2>3, <2>4, <2>5
<1>11. IsSeq(rest) /\ Elems(rest) \subseteq {v} /\ (vid[pvid[p]] = Work[1].vid => v \in Elems(rest))
  <2>1. IsSeq(<<>>) /\ Elems(<<>>) = {}
    BY NoElems
  <2>2. IsSeq(<<v>>) /\ Elems(<<v>>) = {v}
    BY OneElem
  <2> QED
    BY <1>9, <2>1, <2>2
<1>12. PICK more : more = first \o rest
  OBVIOUS
<1>13. IsSeq(more) /\ Elems(more) = Elems(first) \union Elems(rest) /\ Goon(Cli, more)
  BY <1>9, <1>10, <1>11, <1>12, ConcatElems
<1>14. \A j \in DOMAIN more : more[j] \in {v, i, t, a}
  BY <1>10, <1>11, <1>13 DEF Elems
<1>15. pvid[p] = n => \E j \in DOMAIN more : more[j] = v
  <2>1. pvid[p] = n => v \in Elems(more)
    BY <1>2, <1>11, <1>13
  <2> QED
    BY <2>1 DEF Elems
<1>16. UnindexingFrom(n)'
  BY <1>0, <1>1, <1>3, <1>4, <1>8, <1>13, <1>14, <1>15, UnindexBy
<1> QED
  BY <1>0, <1>16 DEF IndexInv, Unindexing
-----------------------------------------------------------------------------
\* The steps that are neither about indices nor about entries.
LEMMA IndexPlainRead ==
  ASSUME OneSession, Inv, IndexInv, SetVlanInsertPVID(Cli) \/ SetVlanOutPortTag(Cli)
  PROVE  IndexInv'
<1>0. PlainOps = SettingOps \ {"pvid", "put_pvid"} /\ {"insert", "tag", "put_insert", "put_tag"} \subseteq PlainOps
  BY DEF PlainOps, SettingOps
<1>1. TypeInv /\ UNCHANGED <<vid, member, pvid>>
  BY DEF Inv, SetVlanInsertPVID, SetVlanOutPortTag, regVars
<1>2. Work # <<>> /\ Work[1].op \in {"insert", "tag"}
  BY <1>1, HeadIsFirst DEF SetVlanInsertPVID, SetVlanOutPortTag
<1>3. PICK x : x.op \in {"put_insert", "put_tag"} /\ Goon(Cli, <<x>>)
  BY DEF SetVlanInsertPVID, SetVlanOutPortTag
<1>4. PICK more : more = <<x>>
  OBVIOUS
<1>5. IsSeq(more) /\ Goon(Cli, more) /\ \A i \in DOMAIN more : more[i].op \in PlainOps
  BY <1>0, <1>3, <1>4, OneMore
<1> QED
  BY <1>0, <1>1, <1>2, <1>5, PlainGoesOn

LEMMA IndexPlainDone ==
  ASSUME OneSession, Inv, IndexInv,
         \/ PutInsert(Cli) \/ PutTag(Cli) \/ SetVlan8021Q(Cli) \/ SetVlanPortIsolate(Cli) \/ SetEepromValue(Cli)
         \/ StoreVlanVID(Cli) \/ StoreVlanPort(Cli)
  PROVE  IndexInv'
<1>0. {"put_insert", "put_tag", "dot1q", "isolated", "eeprom"} \subseteq PlainOps
  BY DEF PlainOps, SettingOps
<1>1. TypeInv /\ UNCHANGED <<vid, member, pvid>> /\ Goon(Cli, <<>>)
  BY DEF Inv, PutInsert, PutTag, SetVlan8021Q, SetVlanPortIsolate, SetEepromValue, StoreVlanVID, StoreVlanPort, regVars
<1>2. Work # <<>> /\ Work[1].op \in {"put_insert", "put_tag", "dot1q", "isolated", "eeprom", "store_vid", "store_members"}
  BY <1>1, HeadIsFirst
     DEF PutInsert, PutTag, SetVlan8021Q, SetVlanPortIsolate, SetEepromValue, StoreVlanVID, StoreVlanPort
<1>3. PICK more : more = <<>>
  OBVIOUS
<1>4. IsSeq(more) /\ Goon(Cli, more) /\ DOMAIN more = {}
  BY <1>1, <1>3, NothingMore
<1> QED
  BY <1>0, <1>1, <1>2, <1>4, PlainGoesOn

LEMMA IndexSessionStep ==
  ASSUME OneSession, Inv, CopyDefault, PvidInv, Session(Cli)
  PROVE  PvidInv'
<1> SUFFICES ASSUME Calm' PROVE IndexInv'
  BY DEF PvidInv
<1>1. lost' \in {lost, lost + 1}
  BY DEF Session, Access, SetVlanVID, StoreVlanVID, SetVlanPort, StoreVlanPort, SetVlanPortAdd, SetVlanPortDelete,
         SetVlanPVID, PutPVID, SetVlanInsertPVID, PutInsert, SetVlanOutPortTag, PutTag, SetVlan8021Q,
         SetVlanPortIsolate, SetEepromValue, Fail, TakeTurn, Join, Quit, Part, Leave, LeaveTagged, Written, countVars
<1>2. errors' \in {errors, errors + 1}
  BY DEF Session, Access, SetVlanVID, StoreVlanVID, SetVlanPort, StoreVlanPort, SetVlanPortAdd, SetVlanPortDelete,
         SetVlanPVID, PutPVID, SetVlanInsertPVID, PutInsert, SetVlanOutPortTag, PutTag, SetVlan8021Q,
         SetVlanPortIsolate, SetEepromValue, Fail, TakeTurn, Join, Quit, Part, Leave, LeaveTagged, countVars
<1>3. Calm
  <2>1. lost = 0 /\ errors = 0
    BY <1>1, <1>2 DEF Calm, Inv, TypeInv
  <2>2. overtaken => overtaken'
    <3>1. overtaken' = overtaken \/ StoreVlanVID(Cli) \/ StoreVlanPort(Cli)
      BY DEF Session, Access, SetVlanVID, SetVlanPort, SetVlanPortAdd, SetVlanPortDelete,
             SetVlanPVID, PutPVID, SetVlanInsertPVID, PutInsert, SetVlanOutPortTag, PutTag, SetVlan8021Q,
             SetVlanPortIsolate, SetEepromValue, Fail, TakeTurn, Join, Quit, Part, Leave, LeaveTagged
    <3>2. CASE StoreVlanVID(Cli) \/ StoreVlanPort(Cli)
      BY <3>2, Zenon DEF StoreVlanVID, StoreVlanPort, Overtake
    <3> QED
      BY <3>1, <3>2
  <2> QED
    BY <2>1, <2>2 DEF Calm
<1>4. IndexInv
  BY <1>3 DEF PvidInv
<1>5. CASE Access(Cli)
  BY <1>3, <1>4, <1>5, IndexVIDWritten, IndexMembersWritten, IndexMembersReadBy, PVIDRead, PVIDWritten,
     IndexPlainRead, IndexPlainDone DEF Access
<1>6. CASE Fail(Cli)
  <2>1. errors' = errors + 1
    BY <1>6 DEF Fail
  <2> QED
    BY <1>3, <2>1 DEF Calm
<1>7. CASE TakeTurn(Cli)
  BY <1>4, <1>7, IndexTurnStep
<1>8. CASE Join(Cli) \/ Quit(Cli)
  BY <1>3, <1>4, <1>8, IndexJoinStep, IndexQuitStep
<1>9. CASE Part(Cli) \/ Leave(Cli) \/ LeaveTagged(Cli)
  BY <1>3, <1>4, <1>9, IndexPartStep, IndexLeaveStep, IndexLeaveTaggedStep
<1> QED
  BY <1>5, <1>6, <1>7, <1>8, <1>9 DEF Session

LEMMA IndexRefreshStep ==
  ASSUME OneSession, Inv, PvidInv, Refresh \/ UNCHANGED vars
  PROVE  PvidInv'
<1> SUFFICES ASSUME Calm' PROVE IndexInv'
  BY DEF PvidInv
<1>1. lost \in Nat /\ errors \in Nat
  BY DEF Inv, TypeInv
<1>2. UNCHANGED <<vid, member, pvid, todo, lost, overtaken>> /\ errors' \in {errors, errors + 1}
  BY DEF Refresh, ScanRead, ScanStore, ScanFail, vars, regVars, devVars, countVars
<1>3. IndexInv
  BY <1>1, <1>2 DEF PvidInv, Calm
<1>4. Work' = Work
  BY <1>2 DEF Work
<1>5. CASE Resetting
  BY <1>2, <1>3, <1>4, <1>5 DEF Resetting, IndexInv
<1>6. CASE Isolating
  <2>1. \A p : Own(p)' <=> Own(p)
    BY <1>2 DEF Own, OwnVID
  <2>2. \A i, p : Promised(Work, i, p)' <=> Promised(Work, i, p)
    BY <1>2, <1>4 DEF Promised, OwnVID
  <2>3. Isolating'
    BY <1>2, <1>4, <1>6, <2>1, <2>2 DEF Isolating
  <2> QED
    BY <1>2, <1>3, <2>3 DEF IndexInv
<1>7. CASE Indexing
  BY <1>2, <1>3, <1>4, <1>7 DEF Indexing, InOrJoins, Stays, IndexInv
<1>8. CASE Unindexing
  <2>1. PICK n \in Nums \ {0} : UnindexingFrom(n)
    BY <1>8 DEF Unindexing
  <2>2. UnindexingFrom(n)'
    BY <1>2, <1>4, <2>1 DEF UnindexingFrom, Good
  <2> QED
    BY <1>2, <1>3, <2>2 DEF IndexInv, Unindexing
<1> QED
  BY <1>3, <1>5, <1>6, <1>7, <1>8 DEF IndexInv
-----------------------------------------------------------------------------
\* A command starts when every index is of a VLAN its port is in.
LEMMA AllGood ==
  ASSUME IndexInv, Work = <<>>, NEW p \in Ports
  PROVE  Good(p)
<1>1. DOMAIN Work = {}
  BY NothingLeft
<1>2. CASE Resetting
  BY <1>1, <1>2 DEF Resetting, Good
<1>3. CASE Isolating
  <2>1. CASE p = MgtPort
    BY <2>1 DEF IndexInv, Good
  <2>2. CASE p # MgtPort
    <3>1. p \in Others
      BY <2>2 DEF Others
    <3>2. EntryOf(p) \in 1 .. NumPorts - 1
      BY <3>1, EntriesOf
    <3>3. Own(p) /\ pvid[p] = EntryOf(p)
      BY <1>1, <1>3, <3>1 DEF Isolating
    <3>4. EntryOf(p) + 1 # 0
      BY <3>2
    <3> QED
      BY <3>3, <3>4 DEF Own, OwnVID, Good
  <2> QED
    BY <2>1, <2>2
<1>4. CASE Indexing
  BY <1>1, <1>4 DEF Indexing, InOrJoins, Good
<1>5. CASE Unindexing
  BY <1>5 DEF Unindexing, UnindexingFrom
<1> QED
  BY <1>2, <1>3, <1>4, <1>5 DEF IndexInv

LEMMA CommandGiven ==
  ASSUME OneSession, Inv, PvidInv, Calm', NEW does, Command(Cli, does)
  PROVE  /\ Calm /\ Work = <<>> /\ Work' = does /\ UNCHANGED <<vid, member, pvid>>
         /\ pvid' \in [Ports -> Nums] /\ pvid'[MgtPort] = 0
         /\ \A p \in Ports : Good(p) /\ Good(p)'
<1>1. Work = <<>> /\ Work' = does
  BY CliIsOne DEF Command, Inv, TypeInv, Work
<1>2. Calm /\ UNCHANGED <<vid, member, pvid>>
  BY DEF Command, regVars, devVars, Calm
<1>3. IndexInv
  BY <1>2 DEF PvidInv
<1>4. \A p \in Ports : Good(p)
  BY <1>1, <1>3, AllGood
<1>5. \A p \in Ports : Good(p)'
  BY <1>2, <1>4 DEF Good
<1> QED
  BY <1>1, <1>2, <1>3, <1>4, <1>5 DEF IndexInv

\* Ports join, or are set only.
LEMMA IndexStarts ==
  ASSUME OneSession, Inv, PvidInv, NEW does, Command(Cli, does),
         \A i \in DOMAIN does : does[i].op \in PlainOps \union {"join"}
  PROVE  PvidInv'
<1> SUFFICES ASSUME Calm' PROVE IndexInv'
  BY DEF PvidInv
<1>1. /\ Work' = does /\ UNCHANGED <<vid, member, pvid>>
      /\ pvid' \in [Ports -> Nums] /\ pvid'[MgtPort] = 0 /\ \A p \in Ports : Good(p)
  BY CommandGiven
<1>2. \A i \in DOMAIN Work' : /\ Work'[i].op \in JoinOps
                              /\ Work'[i].op \notin {"pvid", "put_pvid", "members", "delete", "quit"}
  BY <1>1 DEF PlainOps, SettingOps, JoinOps
<1>3. \A i \in DOMAIN Work' : JoinStepOf(Work'[i], vid')
  BY <1>2 DEF JoinStepOf, IsPVID
<1>4. \A p \in Ports : pvid'[p] = 0 \/ (vid'[pvid'[p]] # 0 /\ p \in member'[pvid'[p]])
  BY <1>1 DEF Good
<1>5. Indexing'
  BY <1>2, <1>3, <1>4 DEF Indexing, InOrJoins
<1> QED
  BY <1>1, <1>5 DEF IndexInv

LEMMA IndexPortAdd ==
  ASSUME OneSession, Inv, PvidInv, NEW v \in Vids, NEW list \in PortLists, NEW tagged \in BOOLEAN,
         Dot1qPortAdd(Cli, v, list, tagged)
  PROVE  PvidInv'
<1>1. PICK does : does = [i \in DOMAIN list |-> [op |-> "join", port |-> list[i], vid |-> v, tagged |-> tagged]]
  OBVIOUS
<1>2. Command(Cli, does)
  BY <1>1 DEF Dot1qPortAdd
<1>3. \A i \in DOMAIN does : does[i].op = "join"
  BY <1>1
<1> QED
  BY <1>2, <1>3, IndexStarts

LEMMA IndexDot1qOn ==
  ASSUME OneSession, Inv, PvidInv, Dot1q(Cli, TRUE)
  PROVE  PvidInv'
<1>1. PICK s : s = [p \in Ports |-> OutTag(p, 0)]
  OBVIOUS
<1>2. PICK a : a = Aware(TRUE)
  OBVIOUS
<1>3. PICK t, does : t = <<a>> /\ does = s \o t
  OBVIOUS
<1>4. Command(Cli, does)
  BY <1>1, <1>2, <1>3 DEF Dot1q, SetVlan8021QEnable
<1>5. IsSeq(s) /\ \A x \in Elems(s) : x.op = "tag"
  <2>1. Ports = 1 .. NumPorts /\ NumPorts \in Nat
    BY Constants
  <2>2. s = [i \in 1 .. NumPorts |-> s[i]] /\ \A i \in DOMAIN s : s[i].op = "tag"
    BY <1>1, <2>1 DEF OutTag
  <2>3. IsSeq(s)
    BY <2>1, <2>2, MakesSeq
  <2> QED
    BY <2>2, <2>3 DEF Elems
<1>6. IsSeq(t) /\ Elems(t) = {a} /\ a.op = "dot1q"
  BY <1>2, <1>3, OneElem DEF Aware
<1>7. Elems(does) = Elems(s) \union {a}
  <2>1. does = s \o t
    BY <1>3
  <2>2. Elems(does) = Elems(s) \union Elems(t)
    BY <1>5, <1>6, <2>1, ConcatElems
  <2> QED
    BY <1>6, <2>2
<1>8. \A i \in DOMAIN does : does[i].op \in {"tag", "dot1q"}
  BY <1>5, <1>6, <1>7 DEF Elems
<1> QED
  BY <1>4, <1>8, IndexStarts DEF PlainOps, SettingOps
-----------------------------------------------------------------------------
\* An entry gets a VID, or ports part from one.
LEMMA IndexAdd ==
  ASSUME OneSession, Inv, PvidInv, NEW v \in Vids, Dot1qAdd(Cli, v), VlanIdleNum # 0
  PROVE  PvidInv'
<1> SUFFICES ASSUME Calm' PROVE IndexInv'
  BY DEF PvidInv
<1>1. PICK n \in Nums \ {0} : n = VlanIdleNum
  BY FindsEntry
<1>2. PICK x : x = VID(n, v)
  OBVIOUS
<1>3. PICK does : does = <<x>>
  OBVIOUS
<1>4. Command(Cli, does)
  BY <1>1, <1>2, <1>3 DEF Dot1qAdd
<1>5. x.op = "vid" /\ x.num = n /\ x.vid = v /\ v # 0
  BY <1>2, Constants DEF VID
<1>6. \A i \in DOMAIN does : does[i] = x /\ i + 1 \notin DOMAIN does
  <2>1. DOMAIN does = {1} /\ does[1] = x
    BY <1>3, OneMore
  <2> QED
    BY <2>1
<1>7. Work' = does /\ pvid' \in [Ports -> Nums] /\ pvid'[MgtPort] = 0 /\ \A p \in Ports : Good(p)'
  BY <1>4, CommandGiven
<1>8. \A i \in DOMAIN Work' : Work'[i].op = "vid" /\ Work'[i].num = n /\ Work'[i].vid # 0 /\ i + 1 \notin DOMAIN Work'
  BY <1>5, <1>6, <1>7
<1>9. UnindexingFrom(n)'
  BY <1>7, <1>8 DEF UnindexingFrom, PartOps, IsPVID, Removes, Takes
<1> QED
  BY <1>7, <1>9 DEF IndexInv, Unindexing

\* A step of a command that parts ports from entry n.
PartsWith(x, p, n, v) == x.op = "part" /\ x.port = p /\ x.num = n /\ x.vid = v

LEMMA PartsWithAll ==
  ASSUME NEW v \in Vids, NEW whole \in BOOLEAN, NEW l \in Seq(Ports), NEW n \in Nums, n = VlanNumFromVID(v)
  PROVE  /\ IsSeq(Parts(v, whole, l)) /\ DOMAIN Parts(v, whole, l) = DOMAIN l
         /\ \A i \in DOMAIN l : PartsWith(Parts(v, whole, l)[i], l[i], n, v)
<1>1. IsSeq(Parts(v, whole, l)) /\ DOMAIN Parts(v, whole, l) = DOMAIN l
  BY PartsMade
<1>2. \A i \in DOMAIN l :
        Parts(v, whole, l)[i] = [op |-> "part", port |-> l[i], vid |-> v, num |-> n, whole |-> whole]
  BY DEF Parts
<1>3. ASSUME NEW i \in DOMAIN l PROVE PartsWith(Parts(v, whole, l)[i], l[i], n, v)
  <2>1. PICK x : x = Parts(v, whole, l)[i]
    OBVIOUS
  <2>2. PICK p : p = l[i]
    OBVIOUS
  <2>3. x = [op |-> "part", port |-> p, vid |-> v, num |-> n, whole |-> whole]
    BY <1>2, <2>1, <2>2
  <2>4. PartsWith(x, p, n, v)
    BY <2>3 DEF PartsWith
  <2> QED
    BY <2>1, <2>2, <2>4
<1> QED
  BY <1>1, <1>3

\* The entry of the VLAN that is named.
LEMMA EntryNamed ==
  ASSUME Inv, Calm, Work = <<>>, NEW v \in Vids, VlanExist(v)
  PROVE  VlanNumFromVID(v) \in Nums \ {0} /\ vid[VlanNumFromVID(v)] = v
<1>1. \A n : ~Storing("store_vid", n)
  BY NothingLeft
<1> QED
  BY <1>1, CalmIsSafe, FindsVID

LEMMA IndexPortDel ==
  ASSUME OneSession, Inv, PvidInv, NEW v \in Vids, NEW list \in PortLists, Dot1qPortDel(Cli, v, list)
  PROVE  PvidInv'
<1> SUFFICES ASSUME Calm' PROVE IndexInv'
  BY DEF PvidInv
<1>1. PICK does : does = Parts(v, FALSE, list)
  OBVIOUS
<1>2. Command(Cli, does) /\ VlanExist(v)
  BY <1>1 DEF Dot1qPortDel
<1>3. /\ Calm /\ Work = <<>> /\ Work' = does /\ UNCHANGED <<vid, member, pvid>>
      /\ pvid' \in [Ports -> Nums] /\ pvid'[MgtPort] = 0 /\ \A p \in Ports : Good(p)'
  BY <1>2, CommandGiven
<1>4. PICK n \in Nums \ {0} : n = VlanNumFromVID(v) /\ vid[n] = v
  BY <1>2, <1>3, EntryNamed
<1>5. list \in Seq(Ports)
  BY VlanAssumption
<1>6. \A i \in DOMAIN does : PartsWith(does[i], list[i], n, v)
  BY <1>1, <1>4, <1>5, PartsWithAll
<1>7. \A i \in DOMAIN Work' : Work'[i].op = "part" /\ Work'[i].num = n /\ Work'[i].vid = vid'[n]
  BY <1>3, <1>4, <1>6 DEF PartsWith
<1>8. UnindexingFrom(n)'
  BY <1>3, <1>7 DEF UnindexingFrom, PartOps, IsPVID, Removes, Takes
<1> QED
  BY <1>3, <1>8 DEF IndexInv, Unindexing

LEMMA IndexDel ==
  ASSUME OneSession, Inv, PvidInv, NEW v \in Vids, Dot1qDel(Cli, v)
  PROVE  PvidInv'
<1> SUFFICES ASSUME Calm' PROVE IndexInv'
  BY DEF PvidInv
<1>1. PICK n \in Nums : n = VlanNumFromVID(v)
  BY NumFromVID
<1>2. PICK ports : ports = [p \in Ports |-> p]
  OBVIOUS
<1>3. PICK front : front = Parts(v, TRUE, ports)
  OBVIOUS
<1>4. PICK a : a = Members(n, {})
  OBVIOUS
<1>5. PICK b : b = VID(n, 0)
  OBVIOUS
<1>6. PICK end : end = <<a, b>>
  OBVIOUS
<1>7. PICK does : does = front \o end
  OBVIOUS
<1>8. Command(Cli, does) /\ VlanExist(v)
  BY <1>1, <1>2, <1>3, <1>4, <1>5, <1>6, <1>7 DEF Dot1qDel
<1>9. /\ Calm /\ Work = <<>> /\ Work' = does /\ UNCHANGED <<vid, member, pvid>>
      /\ pvid' \in [Ports -> Nums] /\ pvid'[MgtPort] = 0 /\ \A p \in Ports : Good(p)'
  BY <1>8, CommandGiven
<1>10. n # 0 /\ vid[n] = v
  BY <1>1, <1>8, <1>9, EntryNamed
<1>11. ports \in Seq(Ports) /\ DOMAIN ports = Ports /\ \A p \in Ports : ports[p] = p
  <2>1. Ports = 1 .. NumPorts /\ NumPorts \in Nat
    BY Constants
  <2> QED
    BY <1>2, <2>1
<1>12. IsSeq(front) /\ DOMAIN front = Ports /\ \A p \in Ports : PartsWith(front[p], p, n, v)
  <2>1. IsSeq(front) /\ DOMAIN front = DOMAIN ports /\ \A i \in DOMAIN ports : PartsWith(front[i], ports[i], n, v)
    BY <1>1, <1>3, <1>11, PartsWithAll
  <2> QED
    BY <1>11, <2>1
<1>13. IsSeq(end) /\ DOMAIN end = {1, 2} /\ end[1] = a /\ end[2] = b
  <2>1. end \in Seq({a, b}) /\ DOMAIN end = {1, 2} /\ end[1] = a /\ end[2] = b
    BY <1>6
  <2> QED
    BY <2>1 DEF IsSeq
<1>14. Chain(does, front, end)
  BY <1>7, <1>12, <1>13, Concat
<1>15. PICK i1, i2 : i1 = After(1, front) /\ i2 = After(2, front)
  OBVIOUS
<1>16. /\ DOMAIN does \subseteq Nat \ {0} /\ {i1, i2} \subseteq DOMAIN does
       /\ does[i1] = a /\ does[i2] = b /\ i1 = i2 - 1
       /\ \A p \in Ports : p \in DOMAIN does /\ does[p] = front[p] /\ p < i1 /\ p < i2
       /\ \A i \in DOMAIN does : i \in Ports \/ i = i1 \/ i = i2
  BY <1>12, <1>13, <1>14, <1>15 DEF Chain
<1>17. i2 + 1 \notin DOMAIN does
  <2>1. i1 \in Nat /\ i2 \in Nat /\ i2 = i1 + 1
    BY <1>16
  <2>2. i2 + 1 # i1 /\ i2 + 1 # i2
    BY <2>1
  <2>3. i2 + 1 \notin Ports
    <3>1. i2 + 1 \in Ports => i2 + 1 < i1
      BY <1>16
    <3> QED
      BY <2>1, <3>1
  <2> QED
    BY <1>16, <2>2, <2>3
<1>18. /\ a.op = "members" /\ a.num = n
       /\ b.op = "vid" /\ b.num = n
  BY <1>4, <1>5 DEF Members, VID
<1>19. ASSUME NEW i \in DOMAIN does
       PROVE  \/ i \in Ports /\ PartsWith(does[i], i, n, v)
              \/ i = i1 /\ does[i] = a
              \/ i = i2 /\ does[i] = b
  BY <1>12, <1>16
<1>20. ASSUME NEW i \in DOMAIN does
       PROVE  /\ does[i].op \in {"part", "members", "vid"} /\ does[i].num = n
              /\ does[i].op = "part" => does[i].vid = v
              /\ does[i].op = "vid" => i + 1 \notin DOMAIN does
  BY <1>17, <1>18, <1>19 DEF PartsWith
<1>21. ASSUME NEW i \in DOMAIN does, NEW p \in Ports, does[i].op # "part"
       PROVE  \E j \in DOMAIN does : j < i /\ does[j].op = "part" /\ does[j].port = p
  <2>1. i = i1 \/ i = i2
    BY <1>19, <1>21 DEF PartsWith
  <2>2. p \in DOMAIN does /\ p < i /\ PartsWith(does[p], p, n, v)
    BY <1>12, <1>16, <2>1
  <2> QED
    BY <2>2 DEF PartsWith
<1>22. UnindexingFrom(n)'
  <2>1. \A i \in DOMAIN Work' :
          /\ Work'[i].op \in {"part", "members", "vid"} /\ Work'[i].num = n
          /\ Work'[i].op = "part" => Work'[i].vid = vid'[n]
          /\ Work'[i].op = "vid" => i + 1 \notin DOMAIN Work'
    BY <1>9, <1>10, <1>20
  <2>2. \A i \in DOMAIN Work', p \in Ports : Removes(Work'[i], p, n) =>
          \E j \in DOMAIN Work' : j < i /\ Zeroes(Work'[j], p, pvid')
    <3>1. \A i \in DOMAIN Work', p \in Ports : Removes(Work'[i], p, n) => Work'[i].op # "part"
      BY DEF Removes, Takes
    <3> QED
      BY <1>9, <1>21, <3>1 DEF Zeroes
  <2> QED
    BY <1>9, <2>1, <2>2 DEF UnindexingFrom, PartOps, IsPVID
<1> QED
  BY <1>1, <1>9, <1>10, <1>22 DEF IndexInv, Unindexing
-----------------------------------------------------------------------------
\* 802.1Q is turned off, or ports are isolated no more.
ResetsBy(s) == IsSeq(s) /\ \A x \in Elems(s) : ResetStep(x, pvid) /\ x.op # "put_pvid"

LEMMA ResetsFollow ==
  ASSUME NEW s, ResetsBy(s), NEW t, ResetsBy(t)
  PROVE  ResetsBy(s \o t) /\ Elems(s \o t) = Elems(s) \union Elems(t)
<1>1. PICK u : u = s \o t
  OBVIOUS
<1>2. IsSeq(u) /\ Elems(u) = Elems(s) \union Elems(t)
  BY <1>1, ConcatElems DEF ResetsBy
<1>3. \A x \in Elems(u) : ResetStep(x, pvid) /\ x.op # "put_pvid"
  BY <1>2 DEF ResetsBy
<1> QED
  BY <1>1, <1>2, <1>3 DEF ResetsBy

\* A step that is neither about an index nor a turn of a loop.
LEMMA ResetPlain ==
  ASSUME NEW x, x.op \in PlainOps \union {"vid", "members"}
  PROVE  ResetStep(x, pvid) /\ x.op # "put_pvid"
  BY DEF ResetStep, IsPVID, PlainOps, SettingOps, ScriptOps

LEMMA ResetTurn ==
  ASSUME NEW x, x.op = "turn", NEW a, NEW b, x.does = <<a, b>>,
         \A y \in {a, b} : y.op \in PlainOps \union {"vid", "members"} \/ \E p \in Ports : y = PVID(p, 1)
  PROVE  ResetStep(x, pvid) /\ x.op # "put_pvid"
<1>1. PICK l : l = x.does
  OBVIOUS
<1>2. Elems(l) = {a, b}
  BY <1>1, TwoElems
<1>3. \A i \in DOMAIN l : l[i] \in {a, b}
  BY <1>2 DEF Elems
<1>4. \A y \in {a, b} : y.op # "put_pvid" /\ IsPVID(y) /\ (y.op = "pvid" => y.vid = 1)
  BY DEF IsPVID, PVID, PlainOps, SettingOps
<1>5. \A i \in DOMAIN l : l[i].op # "put_pvid" /\ IsPVID(l[i]) /\ (l[i].op = "pvid" => l[i].vid = 1)
  BY <1>3, <1>4
<1> QED
  BY <1>1, <1>5 DEF ResetStep, IsPVID, ScriptOps

LEMMA DefaultResets == ResetsBy(Default)
<1>1. PICK a, b : a = VID(0, 1) /\ b = Members(0, Ports)
  OBVIOUS
<1>2. IsSeq(Default) /\ Elems(Default) = {a, b}
  BY <1>1, TwoElems DEF Default
<1>3. a.op = "vid" /\ b.op = "members"
  BY <1>1 DEF VID, Members
<1>4. \A x \in {a, b} : ResetStep(x, pvid) /\ x.op # "put_pvid"
  BY <1>3, ResetPlain
<1> QED
  BY <1>2, <1>4 DEF ResetsBy

\* One turn for each number up to n.
LEMMA TurnsReset ==
  ASSUME NEW n \in Nat, NEW s, s = [i \in 1 .. n |-> s[i]],
         \A i \in 1 .. n : ResetStep(s[i], pvid) /\ s[i].op # "put_pvid"
  PROVE  ResetsBy(s) /\ \A i \in 1 .. n : s[i] \in Elems(s)
<1>1. IsSeq(s) /\ DOMAIN s = 1 .. n
  BY MakesSeq
<1> QED
  BY <1>1 DEF ResetsBy, Elems

LEMMA ClearResets ==
  ASSUME NEW last \in Nat
  PROVE  ResetsBy(Clear(last))
<1>1. PICK s : s = Clear(last)
  OBVIOUS
<1>2. s = [n \in 1 .. last |-> s[n]] /\ \A n \in 1 .. last : s[n] = Turn(<<VID(n, 0), Members(n, {})>>)
  BY <1>1 DEF Clear
<1>3. ASSUME NEW n \in 1 .. last PROVE ResetStep(s[n], pvid) /\ s[n].op # "put_pvid"
  <2>1. PICK x, a, b : x = s[n] /\ a = VID(n, 0) /\ b = Members(n, {})
    OBVIOUS
  <2>2. x.op = "turn" /\ x.does = <<a, b>>
    BY <1>2, <2>1, IsTurn
  <2>3. a.op = "vid" /\ b.op = "members"
    BY <2>1 DEF VID, Members
  <2> QED
    BY <2>1, <2>2, <2>3, ResetTurn
<1> QED
  BY <1>1, <1>2, <1>3, TurnsReset

LEMMA ResetStarts ==
  ASSUME OneSession, Inv, PvidInv, NEW does, Command(Cli, does), ResetsBy(does),
         \A p \in Ports : \E x \in Elems(does) : Resets(x, p)
  PROVE  PvidInv'
<1> SUFFICES ASSUME Calm' PROVE IndexInv'
  BY DEF PvidInv
<1>1. Work' = does /\ UNCHANGED <<vid, member, pvid>> /\ pvid' \in [Ports -> Nums] /\ pvid'[MgtPort] = 0
  BY CommandGiven
<1>2. \A i \in DOMAIN does : ResetStep(does[i], pvid) /\ does[i].op # "put_pvid"
  BY DEF ResetsBy, Elems
<1>3. \A p \in Ports : \E i \in DOMAIN does : Resets(does[i], p)
  BY DEF Elems
<1>4. Resetting'
  BY <1>1, <1>2, <1>3 DEF Resetting
<1> QED
  BY <1>1, <1>4 DEF IndexInv

\* A turn sets the index of a port back.
LEMMA PortTurn ==
  ASSUME NEW p \in Ports, NEW x, x.op = "turn", NEW y, y.op \in PlainOps,
         x.does = <<PVID(p, 1), y>> \/ x.does = <<y, PVID(p, 1)>>
  PROVE  ResetStep(x, pvid) /\ x.op # "put_pvid" /\ Resets(x, p)
<1>1. PICK v : v = PVID(p, 1)
  OBVIOUS
<1>2. PICK l : l = x.does
  OBVIOUS
<1>3. Elems(l) = {v, y}
  BY <1>1, <1>2, TwoElems
<1>4. \E i \in DOMAIN l : l[i] = v
  BY <1>3 DEF Elems
<1>5. SetsBack(v, p)
  BY <1>1 DEF SetsBack, PVID
<1>6. Resets(x, p)
  BY <1>2, <1>4, <1>5 DEF Resets
<1>7. ResetStep(x, pvid) /\ x.op # "put_pvid"
  BY ResetTurn
<1> QED
  BY <1>6, <1>7

LEMMA PortTurns ==
  ASSUME NEW s, s = [p \in Ports |-> s[p]],
         \A p \in Ports : ResetStep(s[p], pvid) /\ s[p].op # "put_pvid" /\ Resets(s[p], p)
  PROVE  ResetsBy(s) /\ \A p \in Ports : \E x \in Elems(s) : Resets(x, p)
<1>1. Ports = 1 .. NumPorts /\ NumPorts \in Nat
  BY Constants
<1>2. s = [i \in 1 .. NumPorts |-> s[i]] /\ \A i \in 1 .. NumPorts : ResetStep(s[i], pvid) /\ s[i].op # "put_pvid"
  BY <1>1
<1>3. ResetsBy(s) /\ \A i \in 1 .. NumPorts : s[i] \in Elems(s)
  BY <1>1, <1>2, TurnsReset
<1> QED
  BY <1>1, <1>3

LEMMA PlainResets ==
  ASSUME NEW t, IsSeq(t), \A x \in Elems(t) : x.op \in PlainOps
  PROVE  ResetsBy(t)
  BY ResetPlain DEF ResetsBy

LEMMA IndexDot1qOff ==
  ASSUME OneSession, Inv, PvidInv, Dot1q(Cli, FALSE)
  PROVE  PvidInv'
<1>1. PICK last, c : last = MAX_RCP_VLAN_NUM - 1 /\ c = Clear(last)
  OBVIOUS
<1>2. PICK s : s = [p \in Ports |-> Turn(<<PVID(p, 1), OutTag(p, 3)>>)]
  OBVIOUS
<1>3. PICK t : t = <<InsertNone, Eeprom, Isolated(FALSE), Aware(FALSE)>>
  OBVIOUS
<1>4. PICK d, does : d = Default \o c \o s /\ does = d \o t
  OBVIOUS
<1>5. Command(Cli, does)
  BY <1>1, <1>2, <1>3, <1>4 DEF Dot1q, SetVlan8021QEnable
<1>6. ResetsBy(c)
  <2>1. last \in Nat
    BY <1>1, Constants
  <2> QED
    BY <1>1, <2>1, ClearResets
<1>7. ResetsBy(s) /\ \A p \in Ports : \E x \in Elems(s) : Resets(x, p)
  <2>1. ASSUME NEW p \in Ports PROVE ResetStep(s[p], pvid) /\ s[p].op # "put_pvid" /\ Resets(s[p], p)
    <3>1. PICK x, y : x = s[p] /\ y = OutTag(p, 3)
      OBVIOUS
    <3>2. x.op = "turn" /\ x.does = <<PVID(p, 1), y>>
      BY <1>2, <3>1, IsTurn
    <3>3. y.op \in PlainOps
      BY <3>1 DEF OutTag, PlainOps, SettingOps
    <3> QED
      BY <3>1, <3>2, <3>3, PortTurn
  <2> QED
    BY <1>2, <2>1, PortTurns
<1>8. ResetsBy(t)
  <2>1. PICK w, x, y, z : w = InsertNone /\ x = Eeprom /\ y = Isolated(FALSE) /\ z = Aware(FALSE)
    OBVIOUS
  <2>2. w.op \in PlainOps /\ x.op \in PlainOps /\ y.op \in PlainOps /\ z.op \in PlainOps
    BY <2>1 DEF InsertNone, Eeprom, Isolated, Aware, PlainOps, SettingOps
  <2>3. t \in Seq({w, x, y, z})
    BY <1>3, <2>1
  <2>4. \A i \in DOMAIN t : t[i] \in {w, x, y, z}
    BY <2>3
  <2>5. IsSeq(t) /\ \A r \in Elems(t) : r.op \in PlainOps
    BY <2>2, <2>3, <2>4 DEF IsSeq, Elems
  <2> QED
    BY <2>5, PlainResets
<1>9. ResetsBy(d) /\ Elems(s) \subseteq Elems(d)
  <2>1. ResetsBy(Default \o c)
    BY <1>6, DefaultResets, ResetsFollow
  <2> QED
    BY <1>4, <1>7, <2>1, ResetsFollow
<1>10. ResetsBy(does) /\ Elems(s) \subseteq Elems(does)
  BY <1>4, <1>8, <1>9, ResetsFollow
<1>11. \A p \in Ports : \E x \in Elems(does) : Resets(x, p)
  BY <1>7, <1>10
<1> QED
  BY <1>5, <1>10, <1>11, ResetStarts

LEMMA IndexUnisolate ==
  ASSUME OneSession, Inv, PvidInv, PortIsolate(Cli, FALSE)
  PROVE  PvidInv'
<1>1. PICK last, c : last = NumPorts - 1 /\ c = Clear(last)
  OBVIOUS
<1>2. PICK s : s = [p \in Ports |-> Turn(<<Insert(p, FALSE), PVID(p, 1)>>)]
  OBVIOUS
<1>3. PICK a, t : a = Isolated(FALSE) /\ t = <<a>>
  OBVIOUS
<1>4. PICK d, does : d = Default \o s \o c /\ does = d \o t
  OBVIOUS
<1>5. Command(Cli, does)
  BY <1>1, <1>2, <1>3, <1>4 DEF PortIsolate, SetVlanPortIsolateEn
<1>6. ResetsBy(c)
  <2>1. last \in Nat
    BY <1>1, Constants
  <2> QED
    BY <1>1, <2>1, ClearResets
<1>7. ResetsBy(s) /\ \A p \in Ports : \E x \in Elems(s) : Resets(x, p)
  <2>1. ASSUME NEW p \in Ports PROVE ResetStep(s[p], pvid) /\ s[p].op # "put_pvid" /\ Resets(s[p], p)
    <3>1. PICK x, y : x = s[p] /\ y = Insert(p, FALSE)
      OBVIOUS
    <3>2. x.op = "turn" /\ x.does = <<y, PVID(p, 1)>>
      BY <1>2, <3>1, IsTurn
    <3>3. y.op \in PlainOps
      BY <3>1 DEF Insert, PlainOps, SettingOps
    <3> QED
      BY <3>1, <3>2, <3>3, PortTurn
  <2> QED
    BY <1>2, <2>1, PortTurns
<1>8. ResetsBy(t)
  <2>1. IsSeq(t) /\ Elems(t) = {a} /\ a.op \in PlainOps
    BY <1>3, OneElem DEF Isolated, PlainOps, SettingOps
  <2> QED
    BY <2>1, PlainResets
<1>9. ResetsBy(d) /\ Elems(s) \subseteq Elems(d)
  <2>1. ResetsBy(Default \o s) /\ Elems(s) \subseteq Elems(Default \o s)
    BY <1>7, DefaultResets, ResetsFollow
  <2> QED
    BY <1>4, <1>6, <2>1, ResetsFollow
<1>10. ResetsBy(does) /\ Elems(s) \subseteq Elems(does)
  BY <1>4, <1>8, <1>9, ResetsFollow
<1>11. \A p \in Ports : \E x \in Elems(does) : Resets(x, p)
  BY <1>7, <1>10
<1> QED
  BY <1>5, <1>10, <1>11, ResetStarts
-----------------------------------------------------------------------------
\* Ports are isolated: the turns give the ports their entries in the order of the ports.
StartsOwn(s) ==
  /\ IsSeq(s)
  /\ \A x \in Elems(s) : OwnStep(x) /\ x.op # "put_pvid" /\ (x.op = "pvid" => x.port = MgtPort)
  /\ \A i \in DOMAIN s, p \in Ports : OwnTurnOf(s[i], p) => i = After(p, Default)

LEMMA OwnFollows ==
  ASSUME NEW s, StartsOwn(s), NEW t, IsSeq(t),
         \A x \in Elems(t) : /\ OwnStep(x) /\ x.op # "put_pvid" /\ (x.op = "pvid" => x.port = MgtPort)
                             /\ \A p \in Ports : ~OwnTurnOf(x, p)
  PROVE  StartsOwn(s \o t) /\ Elems(s) \subseteq Elems(s \o t)
<1>1. PICK u : u = s \o t
  OBVIOUS
<1>2. IsSeq(u) /\ Elems(u) = Elems(s) \union Elems(t)
  BY <1>1, ConcatElems DEF StartsOwn
<1>3. Chain(u, s, t)
  BY <1>1, Concat DEF StartsOwn
<1>4. ASSUME NEW i \in DOMAIN u, NEW p \in Ports, OwnTurnOf(u[i], p) PROVE i = After(p, Default)
  <2>1. CASE i \in DOMAIN s
    BY <1>3, <1>4, <2>1 DEF Chain, StartsOwn
  <2>2. CASE \E k \in DOMAIN t : i = After(k, s)
    <3>1. u[i] \in Elems(t)
      BY <1>3, <2>2 DEF Chain, Elems
    <3> QED
      BY <1>4, <3>1
  <2> QED
    BY <1>3, <2>1, <2>2 DEF Chain
<1>5. \A x \in Elems(u) : OwnStep(x) /\ x.op # "put_pvid" /\ (x.op = "pvid" => x.port = MgtPort)
  BY <1>2 DEF StartsOwn
<1> QED
  BY <1>1, <1>2, <1>4, <1>5 DEF StartsOwn

\* The first thing a port gets tells whose turn it is.
LEMMA OwnBegins ==
  ASSUME NEW p \in Ports
  PROVE  OwnEntry(p)[1] = OutTag(p, 0)
<1>1. CASE p = MgtPort
  BY <1>1 DEF OwnEntry
<1>2. CASE p # MgtPort
  BY <1>2 DEF OwnEntry
<1> QED
  BY <1>1, <1>2

LEMMA OwnPlain ==
  ASSUME NEW x, \/ x.op \in PlainOps
                \/ x = PVID(MgtPort, 1)
                \/ x = VID(0, 1)
                \/ x = Members(0, Ports)
  PROVE  /\ OwnStep(x) /\ x.op # "put_pvid" /\ (x.op = "pvid" => x.port = MgtPort)
         /\ \A p \in Ports : ~OwnTurnOf(x, p)
<1>1. CASE x.op \in PlainOps
  BY <1>1 DEF OwnStep, IsPVID, OwnTurnOf, PlainOps, SettingOps, ScriptOps
<1>2. CASE x = PVID(MgtPort, 1)
  <2>1. MgtPort \in Ports /\ 1 \in Nat
    BY Constants
  <2>2. /\ x.op = "pvid" /\ x.port = MgtPort /\ x.vid = 1
        /\ x \in [op : {"pvid"}, port : Ports, vid : Nat]
    BY <1>2, <2>1 DEF PVID
  <2> QED
    BY <2>2 DEF OwnStep, IsPVID, OwnTurnOf, SettingOps, ScriptOps
<1>3. CASE x = VID(0, 1)
  <2>1. x.op = "vid" /\ x.num = 0
    BY <1>3 DEF VID
  <2>2. 0 \notin 1 .. NumPorts - 1
    BY Constants
  <2> QED
    BY <2>1, <2>2 DEF OwnStep, IsPVID, OwnTurnOf, ScriptOps
<1>4. CASE x = Members(0, Ports)
  <2>1. x.op = "members" /\ x.ports = Ports
    BY <1>4 DEF Members
  <2> QED
    BY <2>1 DEF OwnStep, IsPVID, OwnTurnOf, ScriptOps, Others
<1> QED
  BY <1>1, <1>2, <1>3, <1>4

\* A turn of a loop that gives an entry back, which is of no port.
LEMMA UnusedTurn ==
  ASSUME NEW e \in Nat, e >= NumPorts, NEW x, x.op = "turn", x.does = <<Members(e, {}), VID(e, 0)>>
  PROVE  /\ OwnStep(x) /\ x.op # "put_pvid" /\ x.op # "pvid"
         /\ \A p \in Ports : ~OwnTurnOf(x, p)
<1>1. PICK a, b, l : a = Members(e, {}) /\ b = VID(e, 0) /\ l = x.does
  OBVIOUS
<1>2. a.op = "members" /\ a.num = e /\ b.op = "vid" /\ b.num = e
  BY <1>1 DEF Members, VID
<1>3. Elems(l) = {a, b} /\ l[1] = a
  BY <1>1, TwoElems
<1>4. \A i \in DOMAIN l : l[i] \in {a, b}
  BY <1>3 DEF Elems
<1>5. \A i \in DOMAIN l : l[i].op \in {"vid", "members"} /\ l[i].num >= NumPorts
  BY <1>2, <1>4
<1>6. OwnStep(x)
  BY <1>1, <1>5 DEF OwnStep, IsPVID, ScriptOps
<1>7. ASSUME NEW p \in Ports PROVE ~OwnTurnOf(x, p)
  <2>1. OwnEntry(p)[1].op = "tag"
    <3>1. OwnEntry(p)[1] = OutTag(p, 0)
      BY OwnBegins
    <3>2. OutTag(p, 0).op = "tag"
      BY DEF OutTag
    <3> QED
      BY <3>1, <3>2
  <2> QED
    BY <1>1, <1>2, <1>3, <2>1 DEF OwnTurnOf
<1> QED
  BY <1>6, <1>7

LEMMA UnusedOwn ==
  /\ IsSeq(Unused)
  /\ \A x \in Elems(Unused) : /\ OwnStep(x) /\ x.op # "put_pvid" /\ (x.op = "pvid" => x.port = MgtPort)
                              /\ \A p \in Ports : ~OwnTurnOf(x, p)
<1>1. PICK k, s : k = MAX_RCP_VLAN_NUM - NumPorts /\ s = Unused
  OBVIOUS
<1> DEFINE At(n) == NumPorts + n - 1
<1>2. /\ s = [n \in 1 .. k |-> s[n]]
      /\ \A n \in 1 .. k : s[n] = Turn(<<Members(At(n), {}), VID(At(n), 0)>>)
  BY <1>1 DEF Unused
<1>3. k \in Nat /\ \A n \in 1 .. k : At(n) \in Nat /\ At(n) >= NumPorts
  BY <1>1, Constants
<1> HIDE DEF At
<1>4. IsSeq(s) /\ DOMAIN s = 1 .. k
  BY <1>2, <1>3, MakesSeq
<1>5. ASSUME NEW n \in 1 .. k
      PROVE  /\ OwnStep(s[n]) /\ s[n].op # "put_pvid" /\ s[n].op # "pvid"
             /\ \A p \in Ports : ~OwnTurnOf(s[n], p)
  <2>1. PICK x, e : x = s[n] /\ e = At(n)
    OBVIOUS
  <2>2. e \in Nat /\ e >= NumPorts
    BY <1>3, <2>1
  <2>3. x.op = "turn" /\ x.does = <<Members(e, {}), VID(e, 0)>>
    BY <1>2, <2>1, IsTurn
  <2> QED
    BY <2>1, <2>2, <2>3, UnusedTurn
<1>6. \A x \in Elems(s) : /\ OwnStep(x) /\ x.op # "put_pvid" /\ (x.op = "pvid" => x.port = MgtPort)
                          /\ \A p \in Ports : ~OwnTurnOf(x, p)
  BY <1>4, <1>5 DEF Elems
<1> QED
  BY <1>1, <1>4, <1>6

\* The turns come one after the other, behind the default VLAN.
LEMMA OwnTurns ==
  ASSUME NEW s, s = [p \in Ports |-> Turn(OwnEntry(p))]
  PROVE  StartsOwn(Default \o s) /\ \A p \in Ports : \E x \in Elems(Default \o s) : OwnTurnOf(x, p)
<1>1. PICK u : u = Default \o s
  OBVIOUS
<1>2. Ports = 1 .. NumPorts /\ NumPorts \in Nat
  BY Constants
<1>3. IsSeq(s) /\ DOMAIN s = Ports
  BY <1>2, MakesSeq
<1>4. PICK a, b : a = VID(0, 1) /\ b = Members(0, Ports)
  OBVIOUS
<1>5. IsSeq(Default) /\ Elems(Default) = {a, b}
  BY <1>4, TwoElems DEF Default
<1>6. \A x \in {a, b} : /\ OwnStep(x) /\ x.op # "put_pvid" /\ (x.op = "pvid" => x.port = MgtPort)
                        /\ \A p \in Ports : ~OwnTurnOf(x, p)
  BY <1>4, OwnPlain
<1>7. ASSUME NEW p \in Ports
      PROVE  /\ OwnTurnOf(s[p], p) /\ OwnStep(s[p]) /\ s[p].op = "turn"
             /\ \A q \in Ports : OwnTurnOf(s[p], q) => q = p
  <2>1. PICK x : x = s[p]
    OBVIOUS
  <2>2. x.op = "turn" /\ x.does = OwnEntry(p)
    BY <2>1, IsTurn
  <2>3. OwnTurnOf(x, p) /\ OwnStep(x)
    BY <2>2 DEF OwnTurnOf, OwnStep, IsPVID, ScriptOps
  <2>4. ASSUME NEW q \in Ports, OwnTurnOf(x, q) PROVE q = p
    <3>1. OwnEntry(p)[1] = OwnEntry(q)[1]
      BY <2>2, <2>4 DEF OwnTurnOf
    <3>2. OutTag(p, 0) = OutTag(q, 0)
      BY <3>1, OwnBegins
    <3>3. OutTag(p, 0).port = p /\ OutTag(q, 0).port = q
      BY DEF OutTag
    <3> QED
      BY <3>2, <3>3
  <2> QED
    BY <2>1, <2>2, <2>3, <2>4
<1>8. IsSeq(u) /\ Elems(u) = Elems(Default) \union Elems(s)
  BY <1>1, <1>3, <1>5, ConcatElems
<1>9. Chain(u, Default, s)
  BY <1>1, <1>3, <1>5, Concat
<1>10. \A x \in Elems(u) : OwnStep(x) /\ x.op # "put_pvid" /\ (x.op = "pvid" => x.port = MgtPort)
  <2>1. \A x \in Elems(s) : OwnStep(x) /\ x.op = "turn"
    BY <1>3, <1>7 DEF Elems
  <2> QED
    BY <1>5, <1>6, <1>8, <2>1
<1>11. ASSUME NEW i \in DOMAIN u, NEW p \in Ports, OwnTurnOf(u[i], p) PROVE i = After(p, Default)
  <2>1. CASE i \in DOMAIN Default
    <3>1. u[i] \in {a, b}
      BY <1>5, <1>9, <2>1 DEF Chain, Elems
    <3> QED
      BY <1>6, <1>11, <3>1
  <2>2. ASSUME NEW k \in DOMAIN s, i = After(k, Default) PROVE i = After(p, Default)
    <3>1. u[i] = s[k] /\ k \in Ports
      BY <1>3, <1>9, <2>2 DEF Chain
    <3>2. p = k
      BY <1>7, <1>11, <3>1
    <3> QED
      BY <2>2, <3>2
  <2> QED
    BY <1>9, <2>1, <2>2 DEF Chain
<1>12. ASSUME NEW p \in Ports PROVE \E x \in Elems(u) : OwnTurnOf(x, p)
  <2>1. s[p] \in Elems(s)
    BY <1>3 DEF Elems
  <2> QED
    BY <1>7, <1>8, <2>1
<1> QED
  BY <1>1, <1>8, <1>10, <1>11, <1>12 DEF StartsOwn

LEMMA IndexIsolate ==
  ASSUME OneSession, Inv, PvidInv, PortIsolate(Cli, TRUE)
  PROVE  PvidInv'
<1> SUFFICES ASSUME Calm' PROVE IndexInv'
  BY DEF PvidInv
<1>1. PICK s : s = [p \in Ports |-> Turn(OwnEntry(p))]
  OBVIOUS
<1>2. PICK a, b, c, t : /\ a = PVID(MgtPort, 1) /\ b = InsertNone /\ c = Isolated(TRUE)
                        /\ t = <<a, b, c>>
  OBVIOUS
<1>3. PICK d, e, does : d = Default \o s /\ e = d \o Unused /\ does = e \o t
  OBVIOUS
<1>4. Command(Cli, does)
  BY <1>1, <1>2, <1>3 DEF PortIsolate, SetVlanPortIsolateEn
<1>5. StartsOwn(d) /\ \A p \in Ports : \E x \in Elems(d) : OwnTurnOf(x, p)
  BY <1>1, <1>3, OwnTurns
<1>6. StartsOwn(e) /\ Elems(d) \subseteq Elems(e)
  BY <1>3, <1>5, UnusedOwn, OwnFollows
<1>7. StartsOwn(does) /\ Elems(e) \subseteq Elems(does)
  <2>1. IsSeq(t) /\ Elems(t) = {a, b, c}
    <3>1. t = <<a, b, c>>
      BY <1>2
    <3> QED
      BY <3>1, ThreeElems
  <2>2. b.op \in PlainOps /\ c.op \in PlainOps
    BY <1>2 DEF InsertNone, Isolated, PlainOps, SettingOps
  <2>3. \A x \in {a, b, c} : /\ OwnStep(x) /\ x.op # "put_pvid" /\ (x.op = "pvid" => x.port = MgtPort)
                             /\ \A p \in Ports : ~OwnTurnOf(x, p)
    BY <1>2, <2>2, OwnPlain
  <2> QED
    BY <1>3, <1>6, <2>1, <2>3, OwnFollows
<1>8. Work' = does /\ pvid' \in [Ports -> Nums] /\ pvid'[MgtPort] = 0
  BY <1>4, CommandGiven
<1>9. /\ \A i \in DOMAIN does : /\ OwnStep(does[i]) /\ does[i].op # "put_pvid"
                                /\ does[i].op = "pvid" => does[i].port = MgtPort
      /\ \A i \in DOMAIN does, p \in Ports : OwnTurnOf(does[i], p) => i = After(p, Default)
  BY <1>7 DEF StartsOwn, Elems
<1>10. \A p \in Ports : \E i \in DOMAIN does : OwnTurnOf(does[i], p)
  BY <1>5, <1>6, <1>7 DEF Elems
<1>11. ASSUME NEW i \in DOMAIN does, NEW j \in DOMAIN does, NEW p \in Ports, NEW q \in Ports,
              i < j, OwnTurnOf(does[i], p), OwnTurnOf(does[j], q)
       PROVE  p < q
  <2>1. After(p, Default) < After(q, Default)
    BY <1>9, <1>11
  <2>2. IsSeq(s) /\ DOMAIN s = Ports
    BY <1>1, Constants, MakesSeq
  <2>3. IsSeq(Default)
    BY DefaultFirst DEF FromDefault
  <2>4. Chain(d, Default, s)
    BY <1>3, <2>2, <2>3, Concat
  <2> QED
    BY <2>1, <2>2, <2>4 DEF Chain
<1>12. Isolating'
  <2>1. \A i \in DOMAIN Work', p \in Others : ~GivesIndex(Work'[i], p)
    BY <1>8, <1>9 DEF GivesIndex, Others
  <2>2. \A i \in DOMAIN Work' : OwnStep(Work'[i]) /\ Work'[i].op # "put_pvid"
    BY <1>8, <1>9
  <2>3. \A i, j \in DOMAIN Work' : \A p, q \in Ports :
          i < j /\ OwnTurnOf(Work'[i], p) /\ OwnTurnOf(Work'[j], q) => p < q
    BY <1>8, <1>11
  <2>4. \A p \in Others : \E i \in DOMAIN Work' : OwnTurnOf(Work'[i], p)
    BY <1>8, <1>10 DEF Others
  <2> QED
    BY <2>1, <2>2, <2>3, <2>4 DEF Isolating
<1> QED
  BY <1>8, <1>12 DEF IndexInv
-----------------------------------------------------------------------------
LEMMA InitPvid ==
  ASSUME OneSession, Init
  PROVE  PvidInv
<1>1. Work = <<>> /\ pvid = [p \in Ports |-> 0]
  BY CliIsOne DEF Init, Work
<1>2. DOMAIN Work = {}
  BY <1>1, NothingLeft
<1>3. pvid \in [Ports -> Nums] /\ pvid[MgtPort] = 0 /\ \A p \in Ports : pvid[p] = 0
  BY <1>1, Constants
<1>4. Resetting
  BY <1>2, <1>3 DEF Resetting
<1> QED
  BY <1>3, <1>4 DEF PvidInv, IndexInv

LEMMA IndexGiveStep ==
  ASSUME OneSession, Inv, PvidInv, FindsIdle, Give(Cli)
  PROVE  PvidInv'
<1>1. ASSUME NEW on \in BOOLEAN, Dot1q(Cli, on) PROVE PvidInv'
  BY <1>1, IndexDot1qOn, IndexDot1qOff
<1>2. ASSUME NEW on \in BOOLEAN, PortIsolate(Cli, on) PROVE PvidInv'
  BY <1>2, IndexIsolate, IndexUnisolate
<1>3. ASSUME NEW v \in Vids, Dot1qAdd(Cli, v) PROVE PvidInv'
  <2>1. VlanIdleNum # 0
    BY <1>3, CliIsOne DEF FindsIdle
  <2> QED
    BY <1>3, <2>1, IndexAdd
<1>4. ASSUME NEW v \in Vids, Dot1qDel(Cli, v) PROVE PvidInv'
  BY <1>4, IndexDel
<1>5. ASSUME NEW v \in Vids, NEW list \in PortLists, Dot1qPortDel(Cli, v, list) PROVE PvidInv'
  BY <1>5, IndexPortDel
<1>6. ASSUME NEW v \in Vids, NEW list \in PortLists, NEW tagged \in BOOLEAN, Dot1qPortAdd(Cli, v, list, tagged)
      PROVE  PvidInv'
  BY <1>6, IndexPortAdd
<1> QED
  BY <1>1, <1>2, <1>3, <1>4, <1>5, <1>6 DEF Give

LEMMA NextPvid ==
  ASSUME OneSession, Inv, CopyDefault, PvidInv, [Next /\ FindsIdle]_vars
  PROVE  PvidInv'
<1>1. CASE Next /\ FindsIdle
  <2>1. CASE Refresh
    BY <2>1, IndexRefreshStep
  <2>2. CASE Session(Cli)
    BY <2>2, IndexSessionStep
  <2>3. CASE Give(Cli)
    BY <1>1, <2>3, IndexGiveStep
  <2> QED
    BY <1>1, <2>1, <2>2, <2>3, CliIsOne DEF Next
<1>2. CASE UNCHANGED vars
  BY <1>2, IndexRefreshStep
<1> QED
  BY <1>1, <1>2

\* When no command runs, the untagged frames of every port get the VID of a VLAN the
\* port is in, or of the default one, whatever the ports, the entries, the VIDs and the
\* commands are: no index is of an entry that was given back or that the port has left
\* (cli_int_vlan_dotlq_del, cli_int_vlan_dotlq_port_del), and a port that joins gets an
\* index before it has left the other VLANs (RCP_SetVlanPVID).  It holds of one session
\* that adds no VLAN to a full table, while nothing fails, is lost or is overtaken.
THEOREM PvidIsMemberCorrect ==
  ASSUME OneSession
  PROVE  SafeSpec /\ [][FindsIdle]_vars => []PvidIsMember
<1>1. Init => Inv /\ CopyDefault /\ PvidInv
  BY InitInv, InitPvid
<1>2. Inv /\ CopyDefault /\ PvidInv /\ [Next /\ FindsIdle]_vars => Inv' /\ CopyDefault' /\ PvidInv'
  BY NextInv, NextPvid
<1>3. PvidInv => PvidIsMember
  <2> SUFFICES ASSUME PvidInv, Calm, \A s \in Sessions : todo[s] = <<>>
               PROVE  \A p \in Ports : Good(p)
    BY DEF PvidIsMember, Calm, Good
  <2>1. Work = <<>>
    BY CliIsOne DEF Work
  <2> QED
    BY <2>1, AllGood DEF PvidInv
<1>4. [Next]_vars /\ [FindsIdle]_vars => [Next /\ FindsIdle]_vars
  OBVIOUS
<1> QED
  BY <1>1, <1>2, <1>3, <1>4, PTL DEF SafeSpec
=============================================================================
