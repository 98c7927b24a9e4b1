-------------------------- MODULE MagicMountProofs --------------------------
(***************************************************************************)
(* load_modules shows the overlay of the modules over the real file system *)
(* for any file system, any modules and any partitions.                    *)
(***************************************************************************)
EXTENDS MagicMount, TLAPS

-----------------------------------------------------------------------------
(* Paths: sequences of names, the line of a path, and where the path of a  *)
(* module ends up when partitions are split off.                           *)

\* What Tail, \o and Append return.
LEMMA TailIs ==
  ASSUME NEW q \in Seq(Word), q # <<>>
  PROVE  /\ Tail(q) \in Seq(Word) /\ Len(Tail(q)) = Len(q) - 1
         /\ \A i \in 1..Len(Tail(q)) : Tail(q)[i] = q[i + 1]
OBVIOUS

\* The parts of a concatenation.
LEMMA ConcatIs ==
  ASSUME NEW s \in Seq(Word), NEW p \in Seq(Word)
  PROVE  /\ s \o p \in Seq(Word) /\ Len(s \o p) = Len(s) + Len(p)
         /\ \A i \in 1..(Len(s) + Len(p)) : (s \o p)[i] = IF i <= Len(s) THEN s[i] ELSE p[i - Len(s)]
OBVIOUS

\* A sequence with one more element.
LEMMA AppendSeq ==
  ASSUME NEW a \in Seq(Word), NEW n \in Word
  PROVE  /\ Append(a, n) \in Seq(Word) /\ Append(a, n) # <<>> /\ Len(Append(a, n)) = Len(a) + 1
         /\ \A i \in 1..Len(a) : Append(a, n)[i] = a[i]
         /\ Append(a, n)[Len(a) + 1] = n
OBVIOUS

\* A path lies under another that is a proper prefix, name by name.
LEMMA UnderIs ==
  ASSUME NEW p \in Path, NEW q \in Path
  PROVE  Under(p, q) <=> Len(q) > Len(p) /\ \A i \in 1..Len(p) : q[i] = p[i]
<1>1. Len(p) \in Nat /\ Len(q) \in Nat /\ Len(p) >= 1 /\ Len(q) >= 1
  BY DEF Path
<1>2. ASSUME Len(q) > Len(p) PROVE SubSeq(q, 1, Len(p)) \in Seq(Word) /\ Len(SubSeq(q, 1, Len(p))) = Len(p)
                    /\ \A i \in 1..Len(p) : SubSeq(q, 1, Len(p))[i] = q[i]
  BY <1>1, <1>2 DEF Path
<1>3. ASSUME Len(q) > Len(p), \A i \in 1..Len(p) : q[i] = p[i]
      PROVE  SubSeq(q, 1, Len(p)) = p
  BY <1>1, <1>2, <1>3 DEF Path
<1> QED BY <1>2, <1>3 DEF Under

\* A path has at least one name.
LEMMA PathLen ==
  ASSUME NEW p \in Path
  PROVE  Len(p) \in Nat /\ Len(p) >= 1
BY DEF Path

\* Under is transitive.
LEMMA UnderTrans ==
  ASSUME NEW p \in Path, NEW q \in Path, NEW r \in Path, Under(p, q), Under(q, r)
  PROVE  Under(p, r)
BY UnderIs, PathLen

\* Under is irreflexive, and a path under another is longer.
LEMMA UnderIrr ==
  ASSUME NEW p \in Path, NEW q \in Path, Under(p, q)
  PROVE  Len(p) < Len(q) /\ ~Under(q, p) /\ p # q
BY UnderIs, PathLen

\* Two paths above the same path are above each other.
LEMMA UnderLinear ==
  ASSUME NEW p \in Path, NEW q \in Path, NEW r \in Path, Under(p, r), Under(q, r)
  PROVE  OnLine(p, q) \/ Under(q, p)
<1>1. CASE Len(p) < Len(q)
  BY <1>1, UnderIs, PathLen DEF OnLine
<1>2. CASE Len(q) < Len(p)
  BY <1>2, UnderIs, PathLen
<1>3. CASE Len(q) = Len(p)
  <2>1. p = q
    BY <1>3 DEF Under
  <2> QED BY <2>1 DEF OnLine
<1> QED BY <1>1, <1>2, <1>3, PathLen

\* A path lies under its parent.
LEMMA ParentUnder ==
  ASSUME NEW p \in Path, Len(p) > 1
  PROVE  Parent(p) \in Path /\ Len(Parent(p)) = Len(p) - 1 /\ Under(Parent(p), p)
<1>1. Parent(p) \in Seq(Word) /\ Len(Parent(p)) = Len(p) - 1
  BY DEF Path, Parent
<1>2. Parent(p) # <<>>
  BY <1>1
<1> QED BY <1>1, <1>2 DEF Path, Parent, Under

\* What lies above a path is its parent or above that.
LEMMA UnderParent ==
  ASSUME NEW p \in Path, NEW q \in Path, Under(q, p)
  PROVE  Len(p) > 1 /\ OnLine(q, Parent(p))
<1>1. Len(p) > 1
  BY PathLen DEF Under
<1>2. Parent(p) \in Path /\ Len(Parent(p)) = Len(p) - 1 /\ Under(Parent(p), p)
  BY <1>1, ParentUnder
<1>3. OnLine(q, Parent(p)) \/ Under(Parent(p), q)
  BY <1>2, UnderLinear
<1>4. ~Under(Parent(p), q)
  BY <1>2, PathLen DEF Under
<1> QED BY <1>1, <1>3, <1>4

\* The line of a path is the path and what lies above it.
LEMMA LineIs ==
  ASSUME NEW p \in Path
  PROVE  \A q : q \in Line(p) <=> q \in Path /\ OnLine(q, p)
<1>1. ASSUME NEW i \in 1..Len(p)
      PROVE  SubSeq(p, 1, i) \in Path /\ OnLine(SubSeq(p, 1, i), p)
  <2>1. SubSeq(p, 1, i) \in Seq(Word) /\ Len(SubSeq(p, 1, i)) = i
    BY PathLen DEF Path
  <2>2. SubSeq(p, 1, i) \in Path
    BY <2>1 DEF Path
  <2>3. CASE i = Len(p)
    <3>1. SubSeq(p, 1, i) = p
      BY <2>3, PathLen DEF Path
    <3> QED BY <2>2, <3>1 DEF OnLine
  <2>4. CASE i < Len(p)
    BY <2>1, <2>2, <2>4 DEF OnLine, Under
  <2> QED BY <2>3, <2>4, PathLen
<1>2. ASSUME NEW q \in Path, OnLine(q, p)
      PROVE  q \in Line(p)
  <2>1. CASE q = p
    <3>1. q = SubSeq(p, 1, Len(p)) /\ Len(p) \in 1..Len(p)
      BY <2>1, PathLen DEF Path
    <3> QED BY <3>1, Zenon DEF Line
  <2>2. CASE Under(q, p)
    <3>1. q = SubSeq(p, 1, Len(q)) /\ Len(q) \in 1..Len(p)
      BY <2>2, PathLen DEF Under
    <3> QED BY <3>1, Zenon DEF Line
  <2> QED BY <1>2, <2>1, <2>2 DEF OnLine
<1> QED BY <1>1, <1>2 DEF Line

\* In a directory tree everything above an entry is a directory of it.
LEMMA TreeClosed ==
  ASSUME NEW f, IsTree(f), NEW p \in DOMAIN f, NEW q \in Path, Under(q, p)
  PROVE  q \in DOMAIN f /\ f[q][1] = "dir"
<1>1. p \in Path
  BY DEF IsTree
<1>2. Len(q) \in 1..(Len(p) - 1) /\ SubSeq(p, 1, Len(q)) = q
  BY <1>1, PathLen DEF Under
<1>3. At(f, q)[1] = "dir"
  BY <1>2 DEF IsTree
<1> QED BY <1>3 DEF At, None

Rooted == {q \in Path : q[1] = "system"}
Placed == {p \in Path : Home(p) \in Rooted /\ Place(Home(p)) = p}
Clean(p) == \A r \in Path : OnLine(r, p) => ~Conflict(r)

\* /system is a path of the modules.
LEMMA SystemIsPath == System \in Rooted /\ Len(System) = 1 /\ System[1] = "system"
BY MountAssumption DEF System, Rooted, Path

\* The only path of the modules with one name is /system.
LEMMA RootIsSystem ==
  ASSUME NEW q \in Rooted, Len(q) = 1
  PROVE  q = System
BY SystemIsPath DEF Rooted, System, Path

\* A sequence with elements is not the empty one.
LEMMA NotEmpty ==
  ASSUME NEW s, Len(s) > 0
  PROVE  s # <<>>
OBVIOUS

\* A positive number is one or more than one.
LEMMA NatSplit ==
  ASSUME NEW n \in Nat, n >= 1
  PROVE  n = 1 \/ n > 1
OBVIOUS

\* A path has one name or more.
LEMMA LenSplit ==
  ASSUME NEW p \in Path
  PROVE  Len(p) = 1 \/ Len(p) > 1
BY PathLen, NatSplit, Zenon

\* The path of a module without its first name.
LEMMA TailPath ==
  ASSUME NEW q \in Path, Len(q) > 1
  PROVE  /\ Tail(q) \in Path /\ Len(Tail(q)) = Len(q) - 1
         /\ \A i \in 1..(Len(q) - 1) : Tail(q)[i] = q[i + 1]
<1>1. q \in Seq(Word) /\ q # <<>>
  BY DEF Path
<1>2. /\ Tail(q) \in Seq(Word) /\ Len(Tail(q)) = Len(q) - 1
      /\ \A i \in 1..Len(Tail(q)) : Tail(q)[i] = q[i + 1]
  BY <1>1, TailIs
<1>3. Tail(q) # <<>>
  <2>1. Len(q) \in Nat
    BY <1>1
  <2>2. Len(Tail(q)) > 0
    BY <1>2, <2>1
  <2> QED BY <2>2, NotEmpty, Zenon
<1> QED BY <1>2, <1>3 DEF Path

\* A path put under /system.
LEMMA SystemPath ==
  ASSUME NEW p \in Path
  PROVE  /\ System \o p \in Rooted /\ Len(System \o p) = Len(p) + 1
         /\ (System \o p)[1] = "system" /\ (System \o p)[2] = p[1]
         /\ \A i \in 1..Len(p) : (System \o p)[i + 1] = p[i]
<1> USE PathLen
<1>1. System \in Seq(Word)
  BY SystemIsPath DEF Rooted, Path
<1>2. p \in Seq(Word) /\ Len(System) = 1 /\ System[1] = "system"
  BY SystemIsPath DEF Path
<1> DEFINE q == System \o p
<1>6. /\ q \in Seq(Word) /\ Len(q) = 1 + Len(p)
      /\ \A i \in 1..(1 + Len(p)) : q[i] = IF i <= 1 THEN System[i] ELSE p[i - 1]
  BY <1>1, <1>2, ConcatIs
<1> HIDE DEF q
<1>3. q[1] = "system" /\ \A i \in 1..Len(p) : q[i + 1] = p[i]
  BY <1>2, <1>6
<1>4. q[2] = p[1]
  <2>1. 1 \in 1..Len(p) /\ 1 + 1 = 2
    OBVIOUS
  <2> QED BY <1>3, <2>1
<1>5. q # <<>> /\ Len(q) = Len(p) + 1
  BY <1>6
<1> QED BY <1>6, <1>3, <1>4, <1>5 DEF Rooted, Path, q

\* Paths with the same names are equal.
LEMMA SamePath ==
  ASSUME NEW p \in Path, NEW q \in Path, Len(p) = Len(q), \A i \in 1..Len(p) : p[i] = q[i]
  PROVE  p = q
BY DEF Path

\* A path of a module can be told from the place it ends up at.
LEMMA PlaceHome ==
  ASSUME NEW q \in Rooted
  PROVE  Place(q) \in Placed /\ Home(Place(q)) = q
<1>1. q \in Path /\ q[1] = "system" /\ ~Own(q[1])
  BY MountAssumption DEF Rooted, Own
<1>2. CASE Len(q) > 1 /\ Own(q[2])
  <2>1. Place(q) = Tail(q)
    BY <1>2 DEF Place
  <2>2. Tail(q) \in Path /\ Len(Tail(q)) = Len(q) - 1 /\ \A i \in 1..(Len(q) - 1) : Tail(q)[i] = q[i + 1]
    BY <1>1, <1>2, TailPath
  <2>3. Tail(q)[1] = q[2]
    BY <1>1, <1>2, <2>2, PathLen
  <2>4. Home(Tail(q)) = System \o Tail(q)
    BY <1>2, <2>3 DEF Home
  <2>5. System \o Tail(q) = q
    <3> DEFINE r == System \o Tail(q)
    <3>1. r \in Path /\ Len(r) = Len(q) /\ r[1] = "system" /\ \A i \in 1..(Len(q) - 1) : r[i + 1] = Tail(q)[i]
      <4>1. Tail(q) \in Path
        BY <2>2
      <4>2. r \in Rooted /\ Len(r) = Len(Tail(q)) + 1 /\ r[1] = "system" /\ \A i \in 1..Len(Tail(q)) : r[i + 1] = Tail(q)[i]
        BY <4>1, SystemPath
      <4> HIDE DEF r
      <4> QED BY <1>1, <2>2, <4>2, PathLen DEF Rooted
    <3> HIDE DEF r
    <3>2. \A i \in 1..Len(q) : r[i] = q[i]
      <4> TAKE i \in 1..Len(q)
      <4>1. CASE i = 1
        BY <4>1, <3>1, <1>1
      <4>2. CASE i > 1
        <5>1. i - 1 \in 1..(Len(q) - 1) /\ (i - 1) + 1 = i
          BY <4>2, <1>1, PathLen
        <5> QED BY <5>1, <3>1, <2>2
      <4> QED BY <4>1, <4>2
    <3>3. r = q
      BY <1>1, <3>1, <3>2, SamePath
    <3> QED BY <3>3 DEF r
  <2> QED BY <2>1, <2>2, <2>4, <2>5 DEF Placed
<1>3. CASE ~(Len(q) > 1 /\ Own(q[2]))
  BY <1>1, <1>3 DEF Place, Home, Placed
<1> QED BY <1>2, <1>3

\* What lies above a place is the place of a path above in the module.
LEMMA PlacedUnder ==
  ASSUME NEW p \in Placed, NEW r \in Path, Under(r, p)
  PROVE  r \in Placed /\ Under(Home(r), Home(p))
<1> USE PathLen
<1>1. p \in Path /\ Home(p) \in Rooted /\ Place(Home(p)) = p
  BY DEF Placed
<1>2. r[1] = p[1] /\ Len(p) > Len(r) /\ \A i \in 1..Len(r) : p[i] = r[i]
  BY <1>1, UnderIs
<1>3. CASE Own(p[1])
  <2>1. Home(p) = System \o p /\ Home(r) = System \o r
    BY <1>2, <1>3 DEF Home
  <2>2. /\ System \o p \in Rooted /\ Len(System \o p) = Len(p) + 1
        /\ (System \o p)[1] = "system" /\ \A i \in 1..Len(p) : (System \o p)[i + 1] = p[i]
    BY <1>1, SystemPath
  <2>3. /\ System \o r \in Rooted /\ Len(System \o r) = Len(r) + 1 /\ (System \o r)[2] = r[1]
        /\ (System \o r)[1] = "system" /\ \A i \in 1..Len(r) : (System \o r)[i + 1] = r[i]
    BY SystemPath
  <2>4. Place(System \o r) = Tail(System \o r)
    BY <1>2, <1>3, <2>3 DEF Place
  <2>5. Tail(System \o r) = r
    <3> DEFINE s == System \o r
    <3>0. s \in Path /\ Len(s) > 1 /\ Len(s) = Len(r) + 1 /\ \A i \in 1..Len(r) : s[i + 1] = r[i]
      BY <2>3 DEF Rooted
    <3> HIDE DEF s
    <3>1. Tail(s) \in Path /\ Len(Tail(s)) = Len(r) /\ \A i \in 1..Len(r) : Tail(s)[i] = s[i + 1]
      BY <3>0, TailPath
    <3>2. \A i \in 1..Len(r) : Tail(s)[i] = r[i]
      BY <3>0, <3>1
    <3>3. Tail(s) = r
      BY <3>1, <3>2, SamePath
    <3> QED BY <3>3 DEF s
  <2>6. Under(System \o r, System \o p)
    <3> DEFINE a == System \o r
               b == System \o p
    <3>1. \A i \in 1..Len(a) : b[i] = a[i]
      <4> SUFFICES ASSUME NEW i \in 1..(Len(r) + 1) PROVE b[i] = a[i]
        BY <2>3
      <4>0. i = 1 \/ i > 1
        OBVIOUS
      <4>1. CASE i = 1
        BY <4>1, <2>2, <2>3
      <4>2. CASE i > 1
        <5>1. i - 1 \in 1..Len(r) /\ (i - 1) + 1 = i /\ i - 1 \in 1..Len(p)
          BY <4>2, <1>1, <1>2
        <5>2. b[(i - 1) + 1] = p[i - 1] /\ a[(i - 1) + 1] = r[i - 1] /\ p[i - 1] = r[i - 1]
          BY <5>1, <1>2, <2>2, <2>3
        <5> QED BY <5>1, <5>2
      <4> QED BY <4>0, <4>1, <4>2
    <3>2. a \in Path /\ b \in Path /\ Len(b) > Len(a)
      BY <1>1, <1>2, <2>2, <2>3 DEF Rooted
    <3> HIDE DEF a, b
    <3>3. Under(a, b)
      BY <3>1, <3>2, UnderIs
    <3> QED BY <3>3 DEF a, b
  <2> QED BY <2>1, <2>3, <2>4, <2>5, <2>6 DEF Placed
<1>4. CASE ~Own(p[1])
  <2>1. Home(p) = p /\ Home(r) = r
    BY <1>2, <1>4 DEF Home
  <2>2. p[1] = "system" /\ ~(Len(p) > 1 /\ Own(p[2]))
    <3>1. p[1] = "system"
      BY <1>1, <2>1 DEF Rooted
    <3>2. ASSUME Len(p) > 1, Own(p[2]) PROVE FALSE
      <4>1. Tail(p) = p
        BY <1>1, <2>1, <3>2 DEF Place
      <4>2. Len(Tail(p)) = Len(p) - 1
        BY <1>1, <3>2, TailPath
      <4> QED BY <1>1, <4>1, <4>2
    <3> QED BY <3>1, <3>2
  <2>3. Place(r) = r
    BY <1>2, <2>2 DEF Place
  <2> QED BY <1>2, <2>1, <2>2, <2>3 DEF Placed, Rooted
<1> QED BY <1>3, <1>4

\* What lies above a path in the module ends up above its place, or is /system.
LEMMA HomeLine ==
  ASSUME NEW p \in Placed, NEW r \in Path, Under(r, Home(p))
  PROVE  r \in Rooted /\ (r = System \/ Under(Place(r), p))
<1> USE PathLen
<1>1. p \in Path /\ Home(p) \in Rooted /\ Home(p) \in Path /\ Place(Home(p)) = p
  BY DEF Placed, Rooted
<1>2. r[1] = "system" /\ Len(Home(p)) > Len(r) /\ \A i \in 1..Len(r) : Home(p)[i] = r[i]
  BY <1>1, UnderIs DEF Rooted
<1>3. r \in Rooted
  BY <1>2 DEF Rooted
<1>4. CASE Len(r) = 1
  BY <1>3, <1>4, RootIsSystem
<1>5. CASE Len(r) > 1
  <2> DEFINE q == Home(p)
  <2> HIDE DEF q
  <2>1. q \in Path /\ Place(q) = p /\ Len(q) > Len(r) /\ \A i \in 1..Len(r) : q[i] = r[i]
    BY <1>1, <1>2 DEF q
  <2>2. q[2] = r[2] /\ Len(q) > 1
    BY <1>5, <2>1
  <2>3. CASE Own(q[2])
    <3>1. p = Tail(q) /\ Place(r) = Tail(r)
      BY <1>5, <2>1, <2>2, <2>3 DEF Place
    <3>2. /\ Tail(q) \in Path /\ Len(Tail(q)) = Len(q) - 1
          /\ \A i \in 1..(Len(q) - 1) : Tail(q)[i] = q[i + 1]
      BY <2>1, <2>2, TailPath
    <3>3. /\ Tail(r) \in Path /\ Len(Tail(r)) = Len(r) - 1
          /\ \A i \in 1..(Len(r) - 1) : Tail(r)[i] = r[i + 1]
      BY <1>5, TailPath
    <3>4. \A i \in 1..Len(Tail(r)) : Tail(q)[i] = Tail(r)[i]
      BY <2>1, <3>2, <3>3
    <3>5. Under(Tail(r), Tail(q))
      <4>1. Len(Tail(q)) > Len(Tail(r))
        BY <2>1, <3>2, <3>3
      <4> HIDE DEF Under
      <4> QED BY <3>2, <3>3, <3>4, <4>1, UnderIs
    <3> QED BY <1>3, <3>1, <3>5
  <2>4. CASE ~Own(q[2])
    <3>1. p = q /\ Place(r) = r
      BY <2>1, <2>2, <2>4 DEF Place
    <3> QED BY <1>3, <3>1 DEF q
  <2> QED BY <2>3, <2>4
<1>6. Len(r) = 1 \/ Len(r) > 1
  BY LenSplit
<1> QED BY <1>3, <1>4, <1>5, <1>6

\* Most leaves are first-order; the others cite SMT.
USE Zenon

-----------------------------------------------------------------------------
(* What collecting the modules one after the other leaves in the tree: where *)
(* no directories and files meet, the file of the first module, and every  *)
(* directory of any.                                                       *)

IsNode(n) ==
  /\ DOMAIN n = {"type", "file", "from", "replace"}
  /\ n.type \in {"inter", "root", "module", "custom"} /\ n.replace \in BOOLEAN
Given(k, q) == {i \in Active : i < k /\ q \in DOMAIN mods[i].files}
IsFirst(i, S) == i \in S /\ \A j \in S : i <= j
Shows(n, f) ==
  IF f[1] = "dir" THEN n.type = "inter" /\ n.file = "dir"
  ELSE n.type = "module" /\ n.file = f[1] /\ n.from = f[2]
AsGiven(t, k, q) ==
  /\ q \in DOMAIN t <=> (q = System \/ Given(k, q) # {})
  /\ q \in DOMAIN t /\ q # System =>
       \E i : IsFirst(i, Given(k, q)) /\ Shows(t[q], mods[i].files[q])
  /\ q \in DOMAIN t => (t[q].replace <=> \E i \in Given(k, q) : q \in mods[i].replace)
BinHere == System \o <<"bin">>
Collected(t, k) ==
  /\ \A q \in DOMAIN t : q \in Rooted /\ IsNode(t[q])
  /\ System \in DOMAIN t /\ t[System].type = "root"
  /\ BinHere \in DOMAIN t <=> Given(k, BinHere) # {}
  /\ \A q \in Rooted : Clean(Place(q)) => AsGiven(t, k, q)
\* Every set of numbers has a least element (proved as NatWellOrdered).
WellOrdered == \A T \in SUBSET Nat : T # {} => \E x \in T : \A y \in T : x <= y

Sound == stock \in Stocks /\ mods \in Lists /\ WellOrdered

\* A set of numbers that is not empty has a least element.
LEMMA Least ==
  ASSUME Sound, NEW T, T \subseteq Nat, T # {}
  PROVE  \E x \in T : \A y \in T : x <= y
BY DEF Sound, WellOrdered

\* The fields of a new node.
LEMMA NodeFields ==
  ASSUME NEW type, NEW file, NEW from
  PROVE  /\ DOMAIN Node(type, file, from) = {"type", "file", "from", "replace"}
         /\ Node(type, file, from).type = type /\ Node(type, file, from).file = file
         /\ Node(type, file, from).from = from /\ Node(type, file, from).replace = FALSE
BY SMT DEF Node

\* Marking a node for .replace changes nothing else.
LEMMA MarkFields ==
  ASSUME NEW n, IsNode(n)
  PROVE  LET r == [n EXCEPT !.replace = TRUE]
         IN  IsNode(r) /\ r.type = n.type /\ r.file = n.file /\ r.from = n.from /\ r.replace = TRUE
BY SMT DEF IsNode

\* What Merge returns.
LEMMA MergeIs ==
  ASSUME NEW f, NEW g
  PROVE  /\ DOMAIN Merge(f, g) = DOMAIN f \cup DOMAIN g
         /\ \A p \in DOMAIN g : Merge(f, g)[p] = g[p]
         /\ \A p \in DOMAIN f : p \notin DOMAIN g => Merge(f, g)[p] = f[p]
BY DEF Merge

\* What Without returns.
LEMMA WithoutIs ==
  ASSUME NEW f, NEW S
  PROVE  /\ DOMAIN Without(f, S) = DOMAIN f \ S
         /\ \A p \in DOMAIN f \ S : Without(f, S)[p] = f[p]
BY DEF Without

\* Every module of the list is one, and has no .replace in the root of a partition.
LEMMA Modules ==
  ASSUME Sound
  PROVE  /\ Len(mods) \in Nat
         /\ \A i \in 1..Len(mods) : IsModule(mods[i]) /\ \A d \in mods[i].replace : ~IsRoot(stock, d)
<1>1. mods \in Lists /\ stock \in Stocks
  BY DEF Sound
<1>2. mods \in Seq({mods[i] : i \in 1..Len(mods)})
  BY <1>1, MountAssumption
<1>3. Len(mods) \in Nat
  BY <1>2, SMT
<1> QED BY <1>1, <1>3, MountAssumption

\* The files of a module: everything above one is a directory of the module.
LEMMA ModuleTree ==
  ASSUME Sound, NEW i \in Active, NEW q \in DOMAIN mods[i].files
  PROVE  /\ i \in Nat /\ q \in Rooted
         /\ mods[i].files[q][1] \in {"dir", "reg", "lnk", "wht"}
         /\ \A r \in Path : Under(r, q) => r \in DOMAIN mods[i].files /\ mods[i].files[r][1] = "dir"
<1>1. i \in 1..Len(mods) /\ IsModule(mods[i])
  BY Modules DEF Active
<1>2. i \in Nat
  BY <1>1, Modules, SMT
<1>3. IsTree(mods[i].files)
  BY <1>1 DEF IsModule
<1>4. q \in Path
  BY <1>3 DEF IsTree
<1>5. q \in Rooted /\ mods[i].files[q][1] \in {"dir", "reg", "lnk", "wht"}
  BY <1>1, <1>4 DEF IsModule, Rooted
<1> QED BY <1>2, <1>3, <1>5, TreeClosed

\* .replace is in a directory of the module that is no root of a partition.
LEMMA ReplaceIsDir ==
  ASSUME Sound, NEW i \in Active, NEW d \in mods[i].replace
  PROVE  d \in DOMAIN mods[i].files /\ mods[i].files[d][1] = "dir" /\ ~IsRoot(stock, d)
<1>1. i \in 1..Len(mods) /\ IsModule(mods[i]) /\ ~IsRoot(stock, d)
  BY Modules DEF Active
<1>2. At(mods[i].files, d)[1] = "dir"
  BY <1>1 DEF IsModule
<1>3. None[1] # "dir"
  BY SMT DEF None
<1> QED BY <1>1, <1>2, <1>3 DEF At

\* The modules that have a file for a place.
LEMMA ProvidersAt ==
  ASSUME NEW q \in Rooted
  PROVE  /\ Providers(Place(q)) = {i \in Active : q \in DOMAIN mods[i].files}
         /\ \A i : FileOf(i, Place(q)) = mods[i].files[q]
<1>1. Home(Place(q)) = q
  BY PlaceHome
<1> QED BY <1>1 DEF Providers, FileOf

\* Without a conflict all modules have a directory at a path, or none has.
LEMMA CleanAgree ==
  ASSUME NEW q \in Rooted, Clean(Place(q)), NEW i \in Active, NEW j \in Active,
         q \in DOMAIN mods[i].files, q \in DOMAIN mods[j].files
  PROVE  mods[i].files[q][1] = "dir" => mods[j].files[q][1] = "dir"
<1>1. Place(q) \in Path
  BY PlaceHome DEF Placed
<1>2. ~Conflict(Place(q))
  BY <1>1 DEF Clean, OnLine
<1>3. i \in Providers(Place(q)) /\ j \in Providers(Place(q))
  BY ProvidersAt
<1>4. FileOf(i, Place(q)) = mods[i].files[q] /\ FileOf(j, Place(q)) = mods[j].files[q]
  BY ProvidersAt
<1> QED BY <1>2, <1>3, <1>4 DEF Conflict

\* No conflict on the line of a place: none above it either.
LEMMA CleanAbove ==
  ASSUME NEW q \in Rooted, Clean(Place(q)), NEW r \in Path, Under(r, q)
  PROVE  r \in Rooted /\ (r = System \/ Clean(Place(r)))
<1>1. Place(q) \in Placed /\ Home(Place(q)) = q /\ Place(q) \in Path
  BY PlaceHome DEF Placed
<1>2. r \in Rooted /\ (r = System \/ Under(Place(r), Place(q)))
  BY <1>1, HomeLine
<1>3. Place(r) \in Path
  BY <1>2, PlaceHome DEF Placed
<1>4. ASSUME Under(Place(r), Place(q)), NEW s \in Path, OnLine(s, Place(r))
      PROVE  ~Conflict(s)
  <2>1. OnLine(s, Place(q))
    BY <1>1, <1>3, <1>4, UnderTrans DEF OnLine
  <2> QED BY <2>1 DEF Clean
<1> QED BY <1>2, <1>4 DEF Clean

\* /system/bin is a path of the modules.
LEMMA BinHereIs == BinHere \in Rooted /\ Len(BinHere) = 2
<1>1. <<"bin">> \in Path /\ Len(<<"bin">>) = 1
  BY MountAssumption, SMT DEF Path
<1>2. System \o <<"bin">> \in Rooted /\ Len(System \o <<"bin">>) = Len(<<"bin">>) + 1
  BY <1>1, SystemPath
<1> QED BY <1>1, <1>2, SMT DEF BinHere

-----------------------------------------------------------------------------
(* The rules do not change while the tree is built.                        *)

AsWanted(v, p) ==
  \/ \E q \in Line(p) : Conflict(q)
  \/ IF \E q \in Line(p) : Refused(q) THEN At(v, p) = At(stock, p)
     ELSE IF \E q \in Line(p) : WhitedOut(q) THEN At(v, p) = None
     ELSE Same(At(v, p), Wanted(p))

Fixed == stock' = stock /\ mods' = mods /\ zygisk' = zygisk /\ sbin' = sbin

\* Places and files do not change.
LEMMA FixedPlaces ==
  ASSUME Fixed
  PROVE  /\ \A p : At(stock, p)' = At(stock, p)
         /\ \A q : Place(q)' = Place(q)
         /\ \A p : Home(p)' = Home(p)
         /\ Active' = Active
         /\ \A i, p : FileOf(i, p)' = FileOf(i, p)
<1>1. \A p : At(stock, p)' = At(stock, p)
  BY DEF Fixed, At
<1>2. \A x : Own(x)' <=> Own(x)
  BY DEF Fixed, Own, At
<1>3. \A q : Place(q)' = Place(q)
  BY <1>2 DEF Place
<1>4. \A p : Home(p)' = Home(p)
  BY <1>2 DEF Home
<1>5. Active' = Active
  BY DEF Fixed, Active, At
<1>6. \A i, p : FileOf(i, p)' = FileOf(i, p)
  BY <1>4 DEF Fixed, FileOf
<1> QED BY <1>1, <1>3, <1>4, <1>5, <1>6

\* Nor do the files of the modules and of Magisk at a path.
LEMMA FixedFiles ==
  ASSUME Fixed
  PROVE  /\ \A p : Providers(p)' = Providers(p) /\ Chosen(p)' = Chosen(p)
         /\ Bin' = Bin
         /\ \A p : InBin(p)' <=> InBin(p)
         /\ \A p : InLib(p)' <=> InLib(p)
         /\ \A p : Linked(p)' <=> Linked(p)
         /\ \A p : Injected(p)' <=> Injected(p)
         /\ \A p : Hosts(p)' <=> Hosts(p)
         /\ \A p : Emptied(p)' <=> Emptied(p)
<1>1. \A p : Providers(p)' = Providers(p)
  <2> SUFFICES ASSUME NEW p PROVE Providers(p)' = Providers(p)
    OBVIOUS
  <2>1. Place(Home(p))' = Place(Home(p))
    BY DEF Fixed, Place, Home, Own, At
  <2>2. Home(p)' = Home(p) /\ Active' = Active /\ mods' = mods
    BY FixedPlaces DEF Fixed
  <2> QED BY <2>1, <2>2 DEF Providers
<1>2. \A p : Chosen(p)' = Chosen(p)
  BY <1>1, FixedPlaces DEF Chosen
<1>3. Bin' = Bin
  <2>1. (\E i \in Active : System \o <<"bin">> \in DOMAIN mods[i].files)' <=>
        \E i \in Active : System \o <<"bin">> \in DOMAIN mods[i].files
    BY FixedPlaces DEF Fixed
  <2> QED BY <2>1 DEF Fixed, Bin, Place, Own, At
<1>4. \A p : InBin(p)' <=> InBin(p)
  BY <1>3 DEF Fixed, InBin
<1>5. \A p : InLib(p)' <=> InLib(p)
  BY DEF Fixed, InLib
<1>6. \A p : Linked(p)' <=> Linked(p)
  BY <1>4 DEF Linked
<1>7. \A p : Injected(p)' <=> Injected(p)
  BY <1>4, <1>5 DEF Injected
<1>8. \A p : Hosts(p)' <=> Hosts(p)
  BY <1>3 DEF Fixed, Hosts
<1>9. \A p : Emptied(p)' <=> Emptied(p)
  BY FixedPlaces DEF Fixed, Emptied
<1> QED BY <1>1, <1>2, <1>3, <1>4, <1>5, <1>6, <1>7, <1>8, <1>9

\* Nor do the rules.
LEMMA FixedRules ==
  ASSUME Fixed
  PROVE  /\ \A p : Conflict(p)' <=> Conflict(p)
         /\ \A p : WhitedOut(p)' <=> WhitedOut(p)
         /\ \A p : Refused(p)' <=> Refused(p)
         /\ \A p : Wanted(p)' = Wanted(p)
         /\ \A p : Clean(p)' <=> Clean(p)
<1>1. \A p : Stuck(p)' <=> Stuck(p)
  BY FixedFiles DEF Fixed, Stuck
<1>2. \A p : Conflict(p)' <=> Conflict(p)
  <2> SUFFICES ASSUME NEW p PROVE Conflict(p)' <=> Conflict(p)
    OBVIOUS
  <2>1. Providers(p)' = Providers(p) /\ stock' = stock /\ At(stock, p)' = At(stock, p)
    BY FixedFiles, FixedPlaces DEF Fixed
  <2>2. \A i : FileOf(i, p)' = FileOf(i, p)
    BY FixedPlaces
  <2>3. (Hosts(p)' <=> Hosts(p)) /\ (Injected(p)' <=> Injected(p)) /\ (Stuck(p)' <=> Stuck(p))
    BY <1>1, FixedFiles
  <2>4. (\E i, j \in Providers(p) : FileOf(i, p)[1] = "dir" /\ FileOf(j, p)[1] # "dir")' <=>
        \E i, j \in Providers(p) : FileOf(i, p)[1] = "dir" /\ FileOf(j, p)[1] # "dir"
    BY <2>1, <2>2
  <2>5. (\E i \in Providers(p) : /\ p \in DOMAIN stock /\ FileOf(i, p)[1] # "wht"
                                 /\ (stock[p][1] = "dir") # (FileOf(i, p)[1] = "dir"))' <=>
        \E i \in Providers(p) : /\ p \in DOMAIN stock /\ FileOf(i, p)[1] # "wht"
                                /\ (stock[p][1] = "dir") # (FileOf(i, p)[1] = "dir")
    BY <2>1, <2>2, SMT
  <2>6. (\E i \in Providers(p) : FileOf(i, p)[1] # "dir")' <=> \E i \in Providers(p) : FileOf(i, p)[1] # "dir"
    BY <2>1, <2>2
  <2>7. (\E i \in Providers(p) : FileOf(i, p)[1] \in {"wht", "dir"})' <=>
        \E i \in Providers(p) : FileOf(i, p)[1] \in {"wht", "dir"}
    BY <2>1, <2>2
  <2> QED BY <2>1, <2>3, <2>4, <2>5, <2>6, <2>7 DEF Conflict
<1>3. \A p : WhitedOut(p)' <=> WhitedOut(p)
  BY FixedFiles DEF WhitedOut
<1>4. \A p : Refused(p)' <=> Refused(p)
  BY <1>3, FixedFiles, FixedPlaces DEF Refused
<1>5. \A p : Wanted(p)' = Wanted(p)
  <2> SUFFICES ASSUME NEW p PROVE Wanted(p)' = Wanted(p)
    OBVIOUS
  <2>1. Providers(p)' = Providers(p) /\ Chosen(p)' = Chosen(p) /\ At(stock, p)' = At(stock, p)
    BY FixedFiles, FixedPlaces
  <2>2. /\ Hosts(p)' <=> Hosts(p)
        /\ Injected(p)' <=> Injected(p)
        /\ Linked(p)' <=> Linked(p)
        /\ InLib(p)' <=> InLib(p)
        /\ Emptied(p)' <=> Emptied(p)
    BY FixedFiles
  <2>3. CASE Injected(p)
    BY <2>1, <2>2, <2>3 DEF Wanted
  <2>4. CASE ~Injected(p) /\ Providers(p) # {}
    BY <2>1, <2>2, <2>4 DEF Wanted
  <2>5. CASE ~Injected(p) /\ Providers(p) = {}
    BY <2>1, <2>2, <2>5 DEF Wanted
  <2> QED BY <2>3, <2>4, <2>5
<1>6. \A p : Clean(p)' <=> Clean(p)
  BY <1>2 DEF Clean
<1> QED BY <1>2, <1>3, <1>4, <1>5, <1>6

\* Collected in the next state, from the next tree.
LEMMA FixedCollected ==
  ASSUME Fixed, NEW k, k = at', Collected(tree', k)
  PROVE  Collected(tree, at)'
<1>1. \A q : Given(at, q)' = Given(at', q)
  BY FixedPlaces DEF Fixed, Given
<1>2. \A q : AsGiven(tree', at', q) => AsGiven(tree, at, q)'
  BY <1>1 DEF Fixed, AsGiven
<1> QED BY <1>1, <1>2, FixedRules, FixedPlaces DEF Collected

\* The overlay in the next state, from the next view.
LEMMA FixedView ==
  ASSUME Fixed, NEW p, NEW v, v = view', AsWanted(v, p)
  PROVE  AsWanted(view, p)'
<1>1. At(view, p)' = At(v, p)
  BY DEF At
<1> QED BY <1>1, FixedRules, FixedPlaces DEF AsWanted

-----------------------------------------------------------------------------
(* collect_module_files.                                                   *)

\* The modules before the next one: those before this one, and this one.
LEMMA GivenNext ==
  ASSUME Sound, NEW k \in Active, NEW q
  PROVE  /\ Given(k + 1, q) = Given(k, q) \cup (IF q \in DOMAIN mods[k].files THEN {k} ELSE {})
         /\ \A i \in Given(k, q) : i \in Active /\ i \in Nat /\ i < k /\ q \in DOMAIN mods[i].files
<1>1. \A i \in Active : i \in Nat
  BY Modules, SMT DEF Active
<1>2. \A i \in Active : i < k + 1 <=> (i < k \/ i = k)
  BY <1>1, SMT
<1> QED BY <1>1, <1>2 DEF Given

\* Nothing lies above /system.
LEMMA NoPathAboveSystem ==
  ASSUME NEW f \in Path, Under(f, System)
  PROVE  FALSE
<1>1. Len(f) \in Nat /\ Len(f) >= 1 /\ Len(System) = 1
  BY SystemIsPath, PathLen
<1>2. Len(f) < Len(System)
  BY SystemIsPath, UnderIrr DEF Rooted
<1> QED BY <1>1, <1>2, SMT

\* /system has no parent.
LEMMA NoParentOfSystem == Parent(System) \notin Path
<1>1. Parent(System) = <<>>
  BY SMT DEF Parent, System
<1> QED BY <1>1 DEF Path

\* What lies above a path of a module is a path of a module.
LEMMA RootedAbove ==
  ASSUME NEW q \in Rooted, q # System
  PROVE  /\ Len(q) > 1 /\ Parent(q) \in Path /\ Under(Parent(q), q)
         /\ q \in Path
<1>1. q \in Path
  BY DEF Rooted
<1>2. Len(q) > 1
  BY <1>1, LenSplit, RootIsSystem
<1> QED BY <1>1, <1>2, ParentUnder

\* A node has the fields it was made with.
LEMMA NodeIs ==
  ASSUME NEW n, NEW type, NEW file, NEW from, n = Node(type, file, from)
  PROVE  /\ n.type = type /\ n.file = file /\ n.from = from /\ n.replace = FALSE
         /\ type \in {"inter", "root", "module", "custom"} => IsNode(n)
BY SMT DEF Node, IsNode

\* The node of a directory.
LEMMA DirNodeIs ==
  DirNode.type = "inter" /\ DirNode.file = "dir" /\ DirNode.replace = FALSE /\ IsNode(DirNode)
BY SMT DEF DirNode, Node, IsNode

\* A positive number below two is one.
LEMMA NatOne ==
  ASSUME NEW n \in Nat, n >= 1, NEW l, l = 2, n < l
  PROVE  n = 1
BY SMT

\* collect_module_files keeps the tree as the modules so far give it.
LEMMA CollectStep ==
  ASSUME Sound, NEW t, NEW k \in Active, Collected(t, k)
  PROVE  Collected(Collect(t, mods[k]), k + 1)
<1> DEFINE m == mods[k]
           dirs == Entered(t, m)
           files == {f \in DOMAIN m.files :
                       /\ m.files[f][1] # "dir" /\ Parent(f) \in dirs
                       /\ f \notin DOMAIN t \/ t[f].type = "inter"}
           old == [d \in dirs |-> DirNode]
           t1 == Merge(old, t)
           gone == {p \in DOMAIN t1 : \E f \in files : Under(f, p)}
           new == [f \in files |-> Node("module", IF f \in DOMAIN t THEN "dir" ELSE m.files[f][1],
                                        m.files[f][2])]
           t2 == Merge(Without(t1, gone), new)
           u == [p \in DOMAIN t2 |->
                   IF p \in m.replace \cap dirs THEN [t2[p] EXCEPT !.replace = TRUE] ELSE t2[p]]
<1>0. Collect(t, mods[k]) = u
  BY DEF Collect
<1>1. dirs \subseteq DOMAIN m.files /\ \A d \in dirs : m.files[d][1] = "dir"
  BY DEF Entered
<1>2. \A q \in DOMAIN m.files :
        /\ q \in Rooted /\ q \in Path
        /\ \A r \in Path : Under(r, q) => r \in DOMAIN m.files /\ m.files[r][1] = "dir"
  BY ModuleTree DEF Rooted
<1>3. /\ DOMAIN t1 = dirs \cup DOMAIN t
      /\ \A q \in DOMAIN t : t1[q] = t[q]
      /\ \A q \in dirs : q \notin DOMAIN t => t1[q] = DirNode
  <2>1. DOMAIN old = dirs /\ \A q \in dirs : old[q] = DirNode
    OBVIOUS
  <2> HIDE DEF old, dirs
  <2>2. /\ DOMAIN t1 = DOMAIN old \cup DOMAIN t
        /\ \A q \in DOMAIN t : t1[q] = t[q]
        /\ \A q \in DOMAIN old : q \notin DOMAIN t => t1[q] = old[q]
    BY MergeIs
  <2> HIDE DEF t1
  <2> QED BY <2>1, <2>2
<1>4. /\ DOMAIN t2 = (DOMAIN t1 \ gone) \cup files
      /\ \A q \in files : t2[q] = new[q]
      /\ \A q \in DOMAIN t1 \ gone : q \notin files => t2[q] = t1[q]
  <2>1. DOMAIN new = files
    OBVIOUS
  <2> HIDE DEF new, files, t1, gone
  <2> DEFINE w == Without(t1, gone)
  <2>2. DOMAIN w = DOMAIN t1 \ gone /\ \A q \in DOMAIN t1 \ gone : w[q] = t1[q]
    BY WithoutIs
  <2> HIDE DEF w
  <2>3. /\ DOMAIN Merge(w, new) = DOMAIN w \cup DOMAIN new
        /\ \A q \in DOMAIN new : Merge(w, new)[q] = new[q]
        /\ \A q \in DOMAIN w : q \notin DOMAIN new => Merge(w, new)[q] = w[q]
    BY MergeIs
  <2>4. t2 = Merge(w, new)
    BY DEF w
  <2> HIDE DEF t2
  <2> QED BY <2>1, <2>2, <2>3, <2>4
<1>5. DOMAIN u = DOMAIN t2
  OBVIOUS
<1>6. \A q \in DOMAIN u : IsNode(t2[q]) /\ q \in Rooted
  <2> TAKE q \in DOMAIN u
  <2>1. CASE q \in files
    <3>1. t2[q] = Node("module", IF q \in DOMAIN t THEN "dir" ELSE m.files[q][1], m.files[q][2])
      BY <2>1, <1>4
    <3> HIDE DEF t2
    <3>2. IsNode(t2[q])
      BY <3>1, SMT DEF Node, IsNode
    <3> QED BY <2>1, <3>2, <1>2
  <2>2. CASE q \notin files /\ q \in DOMAIN t
    BY <2>2, <1>3, <1>4 DEF Collected
  <2>3. CASE q \notin files /\ q \notin DOMAIN t
    <3>1. q \in dirs /\ t2[q] = DirNode
      BY <2>3, <1>3, <1>4
    <3>3. q \in Rooted
      BY <3>1, <1>1, <1>2
    <3> HIDE DEF t2
    <3> QED BY <3>1, <3>3, DirNodeIs
  <2> QED BY <2>1, <2>2, <2>3
<1>7. \A q \in DOMAIN u : /\ IsNode(u[q])
                          /\ u[q].type = t2[q].type /\ u[q].file = t2[q].file /\ u[q].from = t2[q].from
                          /\ u[q].replace <=> t2[q].replace \/ q \in m.replace \cap dirs
  <2> TAKE q \in DOMAIN u
  <2>1. CASE q \in m.replace \cap dirs
    BY <2>1, <1>5, <1>6, MarkFields
  <2>2. CASE q \notin m.replace \cap dirs
    BY <2>2, <1>5, <1>6
  <2> QED BY <2>1, <2>2
<1> HIDE DEF u
<1>8. System \in DOMAIN t /\ t[System].type = "root" /\ System \in Path
  BY SystemIsPath DEF Collected, Rooted
<1>9. \A f \in files : f # System /\ f \in Rooted /\ f \in Path /\ f \in DOMAIN m.files /\ m.files[f][1] # "dir"
  <2>1. System \notin files
    BY <1>1, <1>2, NoParentOfSystem
  <2> QED BY <2>1, <1>2
<1>10. System \in DOMAIN t1 \ gone /\ System \notin files
  BY <1>3, <1>8, <1>9, NoPathAboveSystem
<1>11. System \in DOMAIN u /\ u[System].type = "root"
  <2>1. System \in DOMAIN u /\ t2[System] = t1[System] /\ t1[System] = t[System]
    BY <1>3, <1>4, <1>5, <1>8, <1>10
  <2> HIDE DEF t1, t2
  <2> QED BY <2>1, <1>7, <1>8
<1>12. ASSUME NEW q \in DOMAIN m.files, m.files[q][1] = "dir", q = System \/ Clean(Place(q))
       PROVE  q \in dirs
  <2> SUFFICES ASSUME NEW r \in DOMAIN m.files, OnLine(r, q), r \in DOMAIN t
               PROVE  t[r].type \in {"inter", "root"}
    BY <1>12 DEF Entered
  <2>1. r \in Path /\ r \in Rooted /\ q \in Path /\ q \in Rooted
    BY <1>2
  <2>2. CASE r = System
    BY <2>2, <1>8
  <2>3. CASE r # System
    <3>1. q # System
      BY <2>1, <2>3, NoPathAboveSystem DEF OnLine
    <3>2. Clean(Place(r)) /\ m.files[r][1] = "dir"
      BY <1>2, <1>12, <2>1, <2>3, <3>1, CleanAbove DEF OnLine
    <3>3. PICK i : IsFirst(i, Given(k, r)) /\ Shows(t[r], mods[i].files[r])
      BY <2>1, <2>3, <3>2 DEF Collected, AsGiven
    <3>4. i \in Active /\ r \in DOMAIN mods[i].files
      BY <3>3 DEF IsFirst, Given
    <3>5. mods[i].files[r][1] = "dir"
      BY <2>1, <3>2, <3>4, CleanAgree
    <3> QED BY <3>3, <3>5 DEF Shows
  <2> QED BY <2>2, <2>3
<1>13. ASSUME NEW q \in Rooted, Clean(Place(q)), q \in DOMAIN t1
       PROVE  q \notin gone
  <2> SUFFICES ASSUME NEW f \in files, Under(f, q) PROVE FALSE
    OBVIOUS
  <2>1. f # System /\ f \in Rooted /\ f \in Path /\ f \in DOMAIN m.files /\ m.files[f][1] # "dir" /\ q \in Path
    BY <1>9 DEF Rooted
  <2>2. q \notin DOMAIN m.files
    BY <2>1, <1>2
  <2>3. q \in DOMAIN t
    BY <2>2, <1>1, <1>3, <1>13
  <2>4. q # System
    BY <2>1, NoPathAboveSystem
  <2>5. PICK i : i \in Given(k, q)
    BY <1>13, <2>3, <2>4 DEF Collected, AsGiven
  <2>6. i \in Active /\ q \in DOMAIN mods[i].files
    BY <2>5 DEF Given
  <2>7. f \in DOMAIN mods[i].files /\ mods[i].files[f][1] = "dir"
    BY <2>1, <2>6, ModuleTree
  <2>8. Clean(Place(f))
    BY <1>13, <2>1, CleanAbove
  <2> QED BY <2>1, <2>6, <2>7, <2>8, CleanAgree
<1>14. BinHere \in DOMAIN u <=> Given(k + 1, BinHere) # {}
  <2>1. BinHere \in Rooted /\ BinHere \in Path /\ Len(BinHere) = 2 /\ BinHere # System
    BY BinHereIs, SystemIsPath, SMT DEF Rooted
  <2>2. ASSUME NEW f \in Rooted, Under(f, BinHere) PROVE f = System
    <3>1. Len(f) \in Nat /\ Len(f) >= 1 /\ Len(f) < Len(BinHere)
      BY <2>1, <2>2, PathLen, UnderIrr DEF Rooted
    <3>2. Len(f) = 1
      BY <2>1, <3>1, NatOne
    <3> QED BY <3>2, RootIsSystem
  <2>3. BinHere \notin gone
    BY <2>2, <1>9
  <2>4. BinHere \in DOMAIN t <=> Given(k, BinHere) # {}
    BY DEF Collected
  <2>5. ASSUME BinHere \in DOMAIN m.files, BinHere \notin DOMAIN t
        PROVE  BinHere \in dirs \cup files
    <3>1. Parent(BinHere) \in Path /\ Under(Parent(BinHere), BinHere)
      BY <2>1, RootedAbove
    <3>2. Parent(BinHere) = System
      BY <3>1, <2>2, <2>5, <1>2
    <3>3. System \in DOMAIN m.files /\ m.files[System][1] = "dir"
      BY <3>1, <3>2, <2>5, <1>2
    <3>4. System \in dirs
      BY <3>3, <1>12
    <3>5. CASE m.files[BinHere][1] = "dir"
      <4> SUFFICES ASSUME NEW r \in DOMAIN m.files, OnLine(r, BinHere), r \in DOMAIN t
                   PROVE  t[r].type \in {"inter", "root"}
        BY <3>5, <2>5 DEF Entered
      <4>1. r = System
        BY <1>2, <2>2, <2>5 DEF OnLine
      <4> QED BY <4>1, <1>8
    <3>6. CASE m.files[BinHere][1] # "dir"
      BY <3>2, <3>4, <3>6, <2>5
    <3> QED BY <3>5, <3>6
  <2>6. BinHere \in DOMAIN u <=> BinHere \in DOMAIN t \/ BinHere \in dirs \/ BinHere \in files
    BY <1>3, <1>4, <1>5, <2>3
  <2>7. Given(k + 1, BinHere) # {} <=> Given(k, BinHere) # {} \/ BinHere \in DOMAIN m.files
    <3>1. Given(k + 1, BinHere)
            = Given(k, BinHere) \cup (IF BinHere \in DOMAIN mods[k].files THEN {k} ELSE {})
      BY GivenNext
    <3> QED BY <3>1
  <2>8. dirs \cup files \subseteq DOMAIN m.files
    BY <1>1
  <2> QED BY <2>4, <2>5, <2>6, <2>7, <2>8
<1>15. ASSUME NEW q \in Rooted, Clean(Place(q)) PROVE AsGiven(u, k + 1, q)
  <2>0. AsGiven(t, k, q) /\ q \in Path
    BY <1>15 DEF Collected, Rooted
  <2>1. /\ Given(k + 1, q) = Given(k, q) \cup (IF q \in DOMAIN m.files THEN {k} ELSE {})
        /\ \A i \in Given(k, q) : i \in Active /\ i \in Nat /\ i < k /\ q \in DOMAIN mods[i].files
    BY GivenNext
  <2>2. ASSUME NEW i, IsFirst(i, Given(k, q)) PROVE IsFirst(i, Given(k + 1, q))
    <3>1. k \in Nat
      BY Modules, SMT DEF Active
    <3>2. i \in Nat /\ i < k /\ i <= k
      BY <2>1, <2>2, <3>1, SMT DEF IsFirst
    <3> QED BY <2>1, <2>2, <3>2 DEF IsFirst
  <2>3. ASSUME q \in DOMAIN m.files, Given(k, q) = {} PROVE IsFirst(k, Given(k + 1, q))
    <3>1. k \in Nat /\ k <= k
      BY Modules, SMT DEF Active
    <3> QED BY <2>1, <2>3, <3>1 DEF IsFirst
  <2>4. ASSUME q \in DOMAIN m.files, m.files[q][1] = "dir" PROVE q \in dirs
    BY <1>12, <1>15, <2>4
  <2>5. ASSUME q \in DOMAIN m.files, m.files[q][1] # "dir", q # System PROVE Parent(q) \in dirs
    <3>1. Parent(q) \in Path /\ Under(Parent(q), q)
      BY <2>5, RootedAbove
    <3>2. Parent(q) \in DOMAIN m.files /\ m.files[Parent(q)][1] = "dir"
      BY <1>2, <2>5, <3>1
    <3>3. Parent(q) = System \/ Clean(Place(Parent(q)))
      BY <1>15, <3>1, CleanAbove
    <3> QED BY <1>12, <3>2, <3>3
  <2>6. ASSUME q \in files PROVE q \notin DOMAIN t
    <3> SUFFICES ASSUME q \in DOMAIN t PROVE FALSE
      OBVIOUS
    <3>1. q # System /\ q \in DOMAIN m.files /\ m.files[q][1] # "dir" /\ t[q].type = "inter"
      BY <1>9, <2>6
    <3>2. PICK i : IsFirst(i, Given(k, q)) /\ Shows(t[q], mods[i].files[q])
      BY <2>0, <3>1 DEF AsGiven
    <3>3. i \in Active /\ q \in DOMAIN mods[i].files
      BY <2>1, <3>2 DEF IsFirst
    <3>4. mods[i].files[q][1] # "dir"
      BY <1>15, <3>1, <3>3, CleanAgree
    <3>5. t[q].type = "module"
      BY <3>2, <3>4 DEF Shows
    <3> QED BY <3>1, <3>5
  <2>7. q \in DOMAIN u <=> q \in DOMAIN t \/ q \in dirs \/ q \in files
    BY <1>3, <1>4, <1>5, <1>13, <1>15
  <2>8. ASSUME q \in DOMAIN t PROVE t2[q] = t[q] /\ q \in DOMAIN u
    <3>1. q \in DOMAIN t1 \ gone /\ q \notin files
      BY <1>3, <1>13, <1>15, <2>6, <2>8
    <3>2. t2[q] = t1[q] /\ t1[q] = t[q]
      BY <1>3, <1>4, <2>8, <3>1
    <3> HIDE DEF t2
    <3> QED BY <2>7, <2>8, <3>2
  <2>9. ASSUME q \notin DOMAIN t, q \in dirs, q \notin files PROVE t2[q] = DirNode
    <3>1. q \in DOMAIN t1 \ gone
      BY <1>3, <1>13, <1>15, <2>9
    <3> HIDE DEF t1, t2
    <3> QED BY <1>3, <1>4, <2>9, <3>1
  <2>10. ASSUME q \in files PROVE t2[q] = Node("module", m.files[q][1], m.files[q][2])
    <3>1. new[q] = Node("module", m.files[q][1], m.files[q][2])
      BY <2>6, <2>10
    <3> HIDE DEF t2, new
    <3> QED BY <1>4, <2>10, <3>1
  <2>11. q \in DOMAIN u <=> (q = System \/ Given(k + 1, q) # {})
    <3>1. q \in DOMAIN t <=> (q = System \/ Given(k, q) # {})
      BY <2>0 DEF AsGiven
    <3>2. q \in dirs \/ q \in files => q \in DOMAIN m.files
      BY <1>1
    <3>3. q \in DOMAIN m.files => q \in DOMAIN t \/ q \in dirs \/ q \in files \/ q = System
      BY <2>4, <2>5
    <3> HIDE DEF dirs, files
    <3> QED BY <2>1, <2>7, <3>1, <3>2, <3>3
  <2>12. ASSUME q \in DOMAIN u, q # System
         PROVE  \E i : IsFirst(i, Given(k + 1, q)) /\ Shows(u[q], mods[i].files[q])
    <3>1. u[q].type = t2[q].type /\ u[q].file = t2[q].file /\ u[q].from = t2[q].from
      BY <1>7, <2>12
    <3>2. CASE q \in DOMAIN t
      <4>1. PICK i : IsFirst(i, Given(k, q)) /\ Shows(t[q], mods[i].files[q])
        BY <2>0, <2>12, <3>2 DEF AsGiven
      <4>2. t2[q] = t[q]
        BY <2>8, <3>2
      <4> HIDE DEF t2
      <4>3. Shows(u[q], mods[i].files[q])
        BY <3>1, <4>1, <4>2 DEF Shows
      <4> QED BY <2>2, <4>1, <4>3
    <3>3. CASE q \notin DOMAIN t
      <4>1. q \in DOMAIN m.files /\ Given(k, q) = {}
        BY <1>1, <2>0, <2>7, <2>12, <3>3 DEF AsGiven
      <4>2. Shows(u[q], m.files[q])
        <5>1. CASE q \in files
          <6>0. t2[q] = Node("module", m.files[q][1], m.files[q][2])
            BY <2>10, <5>1
          <6> HIDE DEF t2
          <6>1. /\ t2[q].type = "module" /\ t2[q].file = m.files[q][1] /\ t2[q].from = m.files[q][2]
            BY <6>0, SMT DEF Node, IsNode
          <6> QED BY <3>1, <5>1, <6>1 DEF Shows
        <5>2. CASE q \notin files
          <6>1. q \in dirs /\ m.files[q][1] = "dir"
            BY <1>1, <2>7, <2>12, <3>3, <5>2
          <6>0. t2[q] = DirNode
            BY <2>9, <3>3, <5>2, <6>1
          <6> HIDE DEF t2
          <6>2. t2[q].type = "inter" /\ t2[q].file = "dir"
            BY <6>0, DirNodeIs
          <6> QED BY <3>1, <6>1, <6>2 DEF Shows
        <5> QED BY <5>1, <5>2
      <4> QED BY <2>3, <4>1, <4>2
    <3> QED BY <3>2, <3>3
  <2>13. ASSUME q \in DOMAIN u
         PROVE  u[q].replace <=> \E i \in Given(k + 1, q) : q \in mods[i].replace
    <3>1. u[q].replace <=> t2[q].replace \/ q \in m.replace \cap dirs
      BY <1>7, <2>13
    <3>2. q \in m.replace => q \in DOMAIN m.files /\ q \in dirs
      BY <2>4, ReplaceIsDir
    <3>3. t2[q].replace <=> \E i \in Given(k, q) : q \in mods[i].replace
      <4>1. CASE q \in DOMAIN t
        <5>1. t2[q] = t[q]
          BY <2>8, <4>1
        <5> HIDE DEF t2
        <5> QED BY <2>0, <4>1, <5>1 DEF AsGiven
      <4>2. CASE q \notin DOMAIN t
        <5>1. Given(k, q) = {}
          BY <2>0, <4>2 DEF AsGiven
        <5>2. t2[q].replace = FALSE
          <6>1. CASE q \in files
            <7>1. t2[q] = Node("module", m.files[q][1], m.files[q][2])
              BY <2>10, <6>1
            <7> HIDE DEF t2
            <7> QED BY <7>1, SMT DEF Node, IsNode
          <6>2. CASE q \notin files
            <7>1. t2[q] = DirNode
              BY <2>7, <2>9, <2>13, <4>2, <6>2
            <7> HIDE DEF t2
            <7> QED BY <7>1, DirNodeIs
          <6> QED BY <6>1, <6>2
        <5> HIDE DEF t2
        <5> QED BY <5>1, <5>2
      <4> QED BY <4>1, <4>2
    <3> HIDE DEF t2, dirs
    <3> QED BY <2>1, <3>1, <3>2, <3>3
  <2> QED BY <2>11, <2>12, <2>13 DEF AsGiven
<1> QED BY <1>0, <1>5, <1>6, <1>7, <1>11, <1>14, <1>15 DEF Collected

-----------------------------------------------------------------------------
(* The nodes of Magisk: its binaries and the Zygisk loader.                *)

\* A path with one more name.
LEMMA AppendIs ==
  ASSUME NEW a \in Path, NEW n \in Word
  PROVE  /\ Append(a, n) \in Path /\ Len(Append(a, n)) = Len(a) + 1 /\ Len(Append(a, n)) > 1
         /\ \A i \in 1..Len(a) : Append(a, n)[i] = a[i]
         /\ Parent(Append(a, n)) = a /\ Name(Append(a, n)) = n /\ Under(a, Append(a, n))
<1> DEFINE p == Append(a, n)
<1>1. a \in Seq(Word) /\ Len(a) \in Nat /\ Len(a) >= 1
  BY PathLen DEF Path
<1>2. /\ p \in Seq(Word) /\ p # <<>> /\ Len(p) = Len(a) + 1
      /\ \A i \in 1..Len(a) : p[i] = a[i]
      /\ p[Len(a) + 1] = n
  BY <1>1, AppendSeq
<1> HIDE DEF p
<1>3. p \in Path /\ Len(p) > 1
  BY <1>1, <1>2, SMT DEF Path
<1>4. Name(p) = n
  BY <1>2 DEF Name
<1>5. Under(a, p)
  <2>1. Len(p) > Len(a)
    BY <1>1, <1>2, SMT
  <2> QED BY <1>2, <1>3, <2>1, UnderIs
<1>6. Parent(p) = a
  <2>1. Len(p) - 1 = Len(a)
    BY <1>1, <1>2, SMT
  <2>2. SubSeq(p, 1, Len(a)) = a
    BY <1>5 DEF Under
  <2> QED BY <2>1, <2>2 DEF Parent
<1> QED BY <1>2, <1>3, <1>4, <1>5, <1>6 DEF p

\* A path is its parent and its last name.
LEMMA ParentName ==
  ASSUME NEW p \in Path, Len(p) > 1
  PROVE  p = Append(Parent(p), Name(p)) /\ Name(p) \in Word
<1>1. p \in Seq(Word) /\ Len(p) \in Nat
  BY PathLen DEF Path
<1>2. Name(p) \in Word
  BY <1>1, SMT DEF Name
<1>3. Parent(p) \in Path /\ Len(Parent(p)) = Len(p) - 1 /\ Under(Parent(p), p)
  BY ParentUnder
<1>4. \A i \in 1..Len(Parent(p)) : p[i] = Parent(p)[i]
  BY <1>3, UnderIs
<1> DEFINE q == Append(Parent(p), Name(p))
<1>5. q \in Path /\ Len(q) = Len(Parent(p)) + 1 /\ \A i \in 1..Len(Parent(p)) : q[i] = Parent(p)[i]
  BY <1>2, <1>3, AppendIs
<1>6. Name(q) = Name(p)
  BY <1>2, <1>3, AppendIs
<1> HIDE DEF q
<1>7. Len(q) = Len(p)
  BY <1>1, <1>3, <1>5, SMT
<1>8. q[Len(p)] = p[Len(p)]
  BY <1>6, <1>7 DEF Name
<1>9. \A i \in 1..Len(p) : q[i] = p[i]
  <2> TAKE i \in 1..Len(p)
  <2>1. i = Len(p) \/ i \in 1..Len(Parent(p))
    BY <1>1, <1>3, SMT
  <2> QED BY <1>4, <1>5, <1>8, <2>1
<1>10. q = p
  BY <1>5, <1>7, <1>9, SamePath
<1> QED BY <1>2, <1>10 DEF q

\* A file in a directory ends up in the place of the directory.
LEMMA AppendPlace ==
  ASSUME NEW a \in Rooted, NEW n \in Word, n \notin Partitions
  PROVE  /\ Append(a, n) \in Rooted /\ Place(Append(a, n)) = Append(Place(a), n)
         /\ Append(Place(a), n) \in Placed
<1> DEFINE q == Append(a, n)
<1>1. a \in Path /\ a[1] = "system" /\ Len(a) \in Nat /\ Len(a) >= 1
  BY PathLen DEF Rooted
<1>2. /\ q \in Path /\ Len(q) = Len(a) + 1 /\ \A i \in 1..Len(a) : q[i] = a[i]
      /\ Parent(q) = a /\ Name(q) = n /\ Under(a, q)
  BY <1>1, AppendIs
<1> HIDE DEF q
<1>3. q \in Rooted /\ Len(q) > 1 /\ Len(q) \in Nat
  <2>1. 1 \in 1..Len(a) /\ Len(q) > 1 /\ Len(q) \in Nat
    BY <1>1, <1>2, SMT
  <2> QED BY <1>1, <1>2, <2>1 DEF Rooted
<1>4. CASE Len(a) > 1 /\ Own(a[2])
  <2>1. q[2] = a[2]
    <3>1. 2 \in 1..Len(a)
      BY <1>1, <1>4, SMT
    <3> QED BY <1>2, <3>1
  <2>2. Place(q) = Tail(q) /\ Place(a) = Tail(a)
    BY <1>3, <1>4, <2>1 DEF Place
  <2>3. /\ Tail(q) \in Path /\ Len(Tail(q)) = Len(q) - 1
        /\ \A i \in 1..(Len(q) - 1) : Tail(q)[i] = q[i + 1]
    BY <1>2, <1>3, TailPath
  <2>4. /\ Tail(a) \in Path /\ Len(Tail(a)) = Len(a) - 1
        /\ \A i \in 1..(Len(a) - 1) : Tail(a)[i] = a[i + 1]
    BY <1>1, <1>4, TailPath
  <2> DEFINE x == Tail(q)
             y == Tail(a)
             z == Append(y, n)
  <2>5. z \in Path /\ Len(z) = Len(y) + 1 /\ (\A i \in 1..Len(y) : z[i] = y[i]) /\ Name(z) = n
    BY <2>4, AppendIs
  <2> HIDE DEF x, y, z
  <2>6. /\ x \in Path /\ Len(x) = Len(a) /\ \A i \in 1..Len(a) : x[i] = q[i + 1]
        /\ Len(y) = Len(a) - 1 /\ \A i \in 1..(Len(a) - 1) : y[i] = a[i + 1]
    BY <1>1, <1>2, <2>3, <2>4, SMT DEF x, y
  <2>7. Len(z) = Len(a) /\ z[Len(a)] = n /\ x[Len(a)] = n
    <3>1. Len(z) = Len(a)
      BY <1>1, <2>5, <2>6, SMT
    <3>2. Len(a) \in 1..Len(a)
      BY <1>1, SMT
    <3>3. x[Len(a)] = q[Len(a) + 1]
      BY <2>6, <3>2
    <3> QED BY <1>2, <2>5, <3>1, <3>3 DEF Name
  <2>8. ASSUME NEW i \in 1..Len(x) PROVE x[i] = z[i]
    <3>1. CASE i = Len(a)
      BY <2>7, <3>1
    <3>2. CASE i # Len(a)
      <4>1. i \in 1..(Len(a) - 1) /\ i \in 1..Len(y) /\ i + 1 \in 1..Len(a) /\ i \in 1..Len(a)
        BY <1>1, <2>6, <3>2, SMT
      <4> QED BY <1>2, <2>5, <2>6, <4>1
    <3> QED BY <3>1, <3>2
  <2>9. x = z
    BY <2>5, <2>6, <2>7, <2>8, SamePath
  <2>10. Place(q) = Append(Place(a), n)
    BY <2>2, <2>9 DEF x, y, z
  <2> QED BY <1>3, <2>10, PlaceHome DEF q
<1>5. CASE ~(Len(a) > 1 /\ Own(a[2]))
  <2>1. Place(a) = a
    BY <1>5 DEF Place
  <2>2. ~Own(q[2])
    <3>1. CASE Len(a) > 1
      <4>1. 2 \in 1..Len(a)
        BY <1>1, <3>1, SMT
      <4> QED BY <1>2, <1>5, <3>1, <4>1
    <3>2. CASE Len(a) = 1
      <4>1. Len(q) = 2
        BY <1>2, <3>2, SMT
      <4>2. q[2] = n
        BY <1>2, <4>1 DEF Name
      <4> QED BY <4>2 DEF Own
    <3> QED BY <1>1, <3>1, <3>2, LenSplit
  <2>3. Place(q) = q
    BY <2>2 DEF Place
  <2> QED BY <1>3, <2>1, <2>3, PlaceHome DEF q
<1> QED BY <1>4, <1>5

\* First chooses the first module.
LEMMA FirstIs ==
  ASSUME NEW S, S \subseteq Nat, NEW i, IsFirst(i, S)
  PROVE  First(S) = i
<1>1. i \in S /\ \A j \in S : i <= j
  BY DEF IsFirst
<1>2. ASSUME NEW j \in S, \A l \in S : j <= l PROVE j = i
  BY <1>1, <1>2, SMT
<1> QED BY <1>1, <1>2 DEF First

\* The paths of the Zygisk loader.
LEMMA LibPaths ==
  ASSUME NEW d \in Libs
  PROVE  /\ System \o <<d>> \in Rooted /\ Len(System \o <<d>>) = 2 /\ (System \o <<d>>)[2] = d
         /\ System \o <<d, Loader>> \in Rooted /\ Len(System \o <<d, Loader>>) = 3
         /\ (System \o <<d, Loader>>)[2] = d /\ (System \o <<d, Loader>>)[3] = Loader
         /\ Place(System \o <<d>>) = System \o <<d>>
         /\ Place(System \o <<d, Loader>>) = System \o <<d, Loader>>
<1>1. d \in Word /\ Loader \in Word /\ d \notin Partitions
  BY MountAssumption
<1> DEFINE e == <<d>>
           f == <<d, Loader>>
           a == System \o e
           b == System \o f
<1>2. e \in Path /\ f \in Path /\ Len(e) = 1 /\ Len(f) = 2 /\ e[1] = d /\ f[1] = d /\ f[2] = Loader
  BY <1>1, SMT DEF Path
<1> HIDE DEF e, f
<1>3. a \in Rooted /\ Len(a) = Len(e) + 1 /\ a[2] = e[1]
  BY <1>2, SystemPath
<1>4. b \in Rooted /\ Len(b) = Len(f) + 1 /\ b[2] = f[1] /\ \A i \in 1..Len(f) : b[i + 1] = f[i]
  BY <1>2, SystemPath
<1> HIDE DEF a, b
<1>5. Len(a) = 2 /\ Len(b) = 3 /\ 2 \in 1..Len(f) /\ 2 + 1 = 3
  BY <1>2, <1>3, <1>4, SMT
<1>6. b[3] = Loader
  BY <1>2, <1>4, <1>5
<1>7. ~Own(a[2]) /\ ~Own(b[2])
  BY <1>1, <1>2, <1>3, <1>4 DEF Own
<1>8. Place(a) = a /\ Place(b) = b
  BY <1>7 DEF Place
<1> QED BY <1>2, <1>3, <1>4, <1>5, <1>6, <1>8 DEF a, b, e, f

\* The directory inject_magisk_bins chooses is the one the rules name.
LEMMA BinIs ==
  ASSUME Sound, Collected(tree, Len(mods) + 1)
  PROVE  /\ BinOf(tree) \in Rooted /\ Place(BinOf(tree)) = Bin
         /\ Len(BinOf(tree)) >= 3 => BinOf(tree)[3] # Loader
<1>1. \A i \in Active : i < Len(mods) + 1
  BY Modules, SMT DEF Active
<1>2. BinHere \in DOMAIN tree <=> \E i \in Active : BinHere \in DOMAIN mods[i].files
  BY <1>1 DEF Collected, Given
<1>3. Place(BinOf(tree)) = Bin
  BY <1>2 DEF BinOf, Bin, BinHere
<1>4. CASE BinHere \in DOMAIN tree
  <2>1. BinOf(tree) = BinHere
    BY <1>4 DEF BinOf, BinHere
  <2>2. ~(2 >= 3)
    BY SMT
  <2> QED BY <1>3, <2>1, <2>2, BinHereIs
<1>5. CASE BinHere \notin DOMAIN tree
  <2>1. BinOf(tree) = System \o BinDir
    BY <1>5 DEF BinOf, BinHere
  <2>2. BinDir \in Seq(Word) /\ \A i \in 1..Len(BinDir) : BinDir[i] # Loader
    BY MountAssumption
  <2>3. CASE BinDir = <<>>
    <3>1. System \o BinDir = System
      BY <2>3, SMT DEF System
    <3>2. ~(1 >= 3)
      BY SMT
    <3> QED BY <1>3, <2>1, <3>1, <3>2, SystemIsPath
  <2>4. CASE BinDir # <<>>
    <3>1. BinDir \in Path
      BY <2>2, <2>4 DEF Path
    <3> DEFINE b == System \o BinDir
    <3>2. b \in Rooted /\ Len(b) = Len(BinDir) + 1 /\ \A i \in 1..Len(BinDir) : b[i + 1] = BinDir[i]
      BY <3>1, SystemPath
    <3> HIDE DEF b
    <3>3. ASSUME Len(b) >= 3 PROVE b[3] # Loader
      <4>1. 2 \in 1..Len(BinDir) /\ 2 + 1 = 3
        BY <3>1, <3>2, <3>3, PathLen, SMT
      <4> QED BY <2>2, <3>2, <4>1
    <3> QED BY <1>3, <2>1, <3>2, <3>3 DEF b
  <2> QED BY <2>3, <2>4
<1> QED BY <1>4, <1>5

\* Which module paths are the injected ones and their directories.
LEMMA InBinIs ==
  ASSUME Sound, NEW bin \in Rooted, Place(bin) = Bin, NEW q \in Rooted
  PROVE  InBin(Place(q)) <=> ~sbin /\ \E n \in Names : q = Append(bin, n)
<1>1. \A n \in Names : n \in Word /\ n \notin Partitions
  BY MountAssumption
<1>2. Place(q) \in Path /\ Home(Place(q)) = q /\ Bin \in Path
  BY PlaceHome DEF Placed
<1>3. ASSUME NEW n \in Names, ~sbin, q = Append(bin, n) PROVE InBin(Place(q))
  <2>1. Place(q) = Append(Bin, n)
    BY <1>1, <1>3, AppendPlace
  <2>2. Len(Append(Bin, n)) > 1 /\ Parent(Append(Bin, n)) = Bin /\ Name(Append(Bin, n)) = n
    BY <1>1, <1>2, AppendIs
  <2> QED BY <1>3, <2>1, <2>2 DEF InBin
<1>4. ASSUME InBin(Place(q)) PROVE ~sbin /\ \E n \in Names : q = Append(bin, n)
  <2>1. ~sbin /\ Len(Place(q)) > 1 /\ Parent(Place(q)) = Bin /\ Name(Place(q)) \in Names
    BY <1>4 DEF InBin
  <2>2. Place(q) = Append(Bin, Name(Place(q)))
    BY <1>2, <2>1, ParentName
  <2>3. Place(Append(bin, Name(Place(q)))) = Place(q) /\ Append(bin, Name(Place(q))) \in Rooted
    BY <1>1, <2>1, <2>2, AppendPlace
  <2>4. Append(bin, Name(Place(q))) = q
    BY <1>2, <2>3, PlaceHome
  <2> QED BY <2>1, <2>4
<1> QED BY <1>3, <1>4

\* The places of the loader come from its paths under /system.
LEMMA InLibIs ==
  ASSUME NEW q \in Rooted
  PROVE  InLib(Place(q)) <=> zygisk /\ \E d \in Libs : q = System \o <<d, Loader>>
<1>1. ASSUME NEW d \in Libs, zygisk, q = System \o <<d, Loader>> PROVE InLib(Place(q))
  BY <1>1, LibPaths DEF InLib, Rooted
<1>2. ASSUME InLib(Place(q)) PROVE zygisk /\ \E d \in Libs : q = System \o <<d, Loader>>
  <2> DEFINE p == Place(q)
  <2>1. zygisk /\ Len(p) = 3 /\ p[1] = "system" /\ p[2] \in Libs /\ p[3] = Loader
    BY <1>2 DEF InLib
  <2>2. p \in Path /\ Home(p) = q
    BY PlaceHome DEF Placed
  <2> HIDE DEF p
  <2>3. ~Own("system")
    BY MountAssumption DEF Own
  <2>4. p = q
    BY <2>1, <2>2, <2>3 DEF Home
  <2> DEFINE b == System \o <<p[2], Loader>>
  <2>5. b \in Path /\ Len(b) = 3 /\ b[1] = "system" /\ b[2] = p[2] /\ b[3] = Loader
    BY <2>1, LibPaths DEF Rooted
  <2> HIDE DEF b
  <2>6. \A i \in 1..3 : i = 1 \/ i = 2 \/ i = 3
    BY SMT
  <2>7. \A i \in 1..Len(p) : p[i] = b[i]
    BY <2>1, <2>5, <2>6
  <2>8. p = b
    BY <2>1, <2>2, <2>5, <2>7, SamePath
  <2> QED BY <2>1, <2>4, <2>8 DEF b
<1> QED BY <1>1, <1>2

\* The line of a place, from the line in the module.
LEMMA LineOfPlace ==
  ASSUME NEW q \in Rooted, q # System, NEW b \in Rooted
  PROVE  OnLine(q, b) <=> OnLine(Place(q), Place(b))
<1>1. /\ Place(q) \in Placed /\ Home(Place(q)) = q /\ q \in Path /\ Place(q) \in Path
      /\ Place(b) \in Placed /\ Home(Place(b)) = b
  BY PlaceHome DEF Rooted, Placed
<1>2. Under(q, b) => Under(Place(q), Place(b))
  BY <1>1, HomeLine
<1>3. Under(Place(q), Place(b)) => Under(q, b)
  BY <1>1, PlacedUnder
<1>4. q = b <=> Place(q) = Place(b)
  BY <1>1
<1> QED BY <1>2, <1>3, <1>4 DEF OnLine

BinDirs(bin) == {SubSeq(bin, 1, i) : i \in 2..Len(bin)}
LibDirs == {System \o <<d>> : d \in Libs}

\* The directories that hold the files of Magisk, as paths of modules.
LEMMA HostsIs ==
  ASSUME NEW bin \in Rooted, Place(bin) = Bin, NEW q \in Rooted, q # System
  PROVE  /\ q \in BinDirs(bin) <=> OnLine(Place(q), Bin)
         /\ q \in BinDirs(bin) <=> OnLine(q, bin)
         /\ Hosts(Place(q)) <=> (~sbin /\ q \in BinDirs(bin)) \/ (zygisk /\ q \in LibDirs)
<1>1. q \in Path /\ Len(q) > 1 /\ bin \in Path /\ Len(q) \in Nat /\ Len(bin) \in Nat
  BY RootedAbove, PathLen DEF Rooted
<1>2. q \in {SubSeq(bin, 1, i) : i \in 2..Len(bin)} <=> OnLine(q, bin)
  <2>1. ASSUME NEW i \in 2..Len(bin), q = SubSeq(bin, 1, i) PROVE OnLine(q, bin)
    <3>1. i \in 1..Len(bin)
      BY <1>1, SMT
    <3>2. q \in Line(bin)
      BY <2>1, <3>1 DEF Line
    <3> QED BY <1>1, <3>2, LineIs
  <2>2. ASSUME OnLine(q, bin) PROVE q \in {SubSeq(bin, 1, i) : i \in 2..Len(bin)}
    <3>1. q \in Line(bin)
      BY <1>1, <2>2, LineIs
    <3>2. PICK i \in 1..Len(bin) : q = SubSeq(bin, 1, i)
      BY <3>1 DEF Line
    <3>3. Len(q) = i
      BY <1>1, <3>2, SMT DEF Path
    <3>4. i \in 2..Len(bin)
      BY <1>1, <3>3, SMT
    <3> QED BY <3>2, <3>4
  <2> QED BY <2>1, <2>2
<1>3. OnLine(q, bin) <=> OnLine(Place(q), Bin)
  BY LineOfPlace
<1>4. Len(Place(q)) = 2 /\ Place(q)[1] = "system" /\ Place(q)[2] \in Libs
        <=> q \in {System \o <<d>> : d \in Libs}
  <2>1. ASSUME NEW d \in Libs, q = System \o <<d>>
        PROVE  Len(Place(q)) = 2 /\ Place(q)[1] = "system" /\ Place(q)[2] \in Libs
    BY <2>1, LibPaths DEF Rooted
  <2>2. ASSUME Len(Place(q)) = 2, Place(q)[1] = "system", Place(q)[2] \in Libs
        PROVE  q \in {System \o <<d>> : d \in Libs}
    <3> DEFINE p == Place(q)
    <3>1. p \in Path /\ Home(p) = q
      BY PlaceHome DEF Placed
    <3>2. Len(p) = 2 /\ p[1] = "system" /\ p[2] \in Libs
      BY <2>2
    <3> HIDE DEF p
    <3>3. ~Own("system")
      BY MountAssumption DEF Own
    <3>4. p = q
      BY <3>1, <3>2, <3>3 DEF Home
    <3> DEFINE b == System \o <<p[2]>>
    <3>5. b \in Path /\ Len(b) = 2 /\ b[1] = "system" /\ b[2] = p[2]
      BY <3>2, LibPaths DEF Rooted
    <3> HIDE DEF b
    <3>6. \A i \in 1..2 : i = 1 \/ i = 2
      BY SMT
    <3>7. p = b
      BY <3>1, <3>2, <3>5, <3>6, SamePath
    <3> QED BY <3>2, <3>4, <3>7 DEF b
  <2> QED BY <2>1, <2>2
<1> QED BY <1>2, <1>3, <1>4 DEF Hosts, BinDirs, LibDirs

Here(p) == p = System \/ Providers(p) # {} \/ Injected(p) \/ Hosts(p)

\* The node of a path, if it is a file of Magisk (own) and if it is not.
NodeAs(n, p, own) ==
  /\ IsNode(n)
  /\ own => /\ n.type = "custom" /\ n.from = IF InLib(p) THEN "zygisk" ELSE "magisk"
            /\ n.file = IF Providers(p) # {} THEN Chosen(p)[1]
                        ELSE IF Linked(p) THEN "lnk" ELSE "reg"
  /\ ~own /\ p # System => IF Providers(p) # {} THEN Shows(n, Chosen(p))
                           ELSE n.type = "inter" /\ n.file = "dir"
  /\ ~own => (n.replace <=> \E i \in Providers(p) : Home(p) \in mods[i].replace)

Injects(u, t, dirs, new) ==
  /\ \A q : q \in DOMAIN u <=>
              \/ q \in DOMAIN new
              \/ q \in DOMAIN t \cup dirs /\ \A p \in DOMAIN new : ~Under(p, q)
  /\ \A q \in DOMAIN u : IsNode(u[q])
  /\ \A q \in DOMAIN new :
       /\ u[q].type = "custom" /\ u[q].from = new[q][2]
       /\ u[q].file = IF q \in DOMAIN t THEN t[q].file
                      ELSE IF q \in dirs THEN "dir" ELSE new[q][1]
  /\ \A q \in DOMAIN u \ DOMAIN new : u[q] = IF q \in DOMAIN t THEN t[q] ELSE DirNode

\* What Inject returns.
LEMMA InjectIs ==
  ASSUME NEW t, NEW dirs, NEW new, \A q \in DOMAIN t : IsNode(t[q])
  PROVE  Injects(Inject(t, dirs, new), t, dirs, new)
<1> DEFINE old == [d \in dirs |-> DirNode]
           t1 == Merge(old, t)
           gone == {q \in DOMAIN t1 : \E p \in DOMAIN new : Under(p, q)}
           w == Without(t1, gone)
           file(p) == IF p \in DOMAIN t1 THEN t1[p].file ELSE new[p][1]
           add == [p \in DOMAIN new |-> Node("custom", file(p), new[p][2])]
           u == Merge(w, add)
<1>0. Inject(t, dirs, new) = u
  BY DEF Inject
<1>1. DOMAIN old = dirs /\ \A q \in dirs : old[q] = DirNode
  OBVIOUS
<1> HIDE DEF old
<1>2. /\ DOMAIN t1 = dirs \cup DOMAIN t /\ \A q \in DOMAIN t : t1[q] = t[q]
      /\ \A q \in dirs : q \notin DOMAIN t => t1[q] = DirNode
  <2>1. /\ DOMAIN t1 = DOMAIN old \cup DOMAIN t /\ \A q \in DOMAIN t : t1[q] = t[q]
        /\ \A q \in DOMAIN old : q \notin DOMAIN t => t1[q] = old[q]
    BY MergeIs
  <2> HIDE DEF t1
  <2> QED BY <1>1, <2>1
<1> HIDE DEF t1
<1>3. DOMAIN w = DOMAIN t1 \ gone /\ \A q \in DOMAIN t1 \ gone : w[q] = t1[q]
  BY WithoutIs
<1> HIDE DEF w
<1>4. DOMAIN add = DOMAIN new /\ \A q \in DOMAIN new : add[q] = Node("custom", file(q), new[q][2])
  OBVIOUS
<1>5. \A q \in DOMAIN new : file(q) = IF q \in DOMAIN t THEN t[q].file
                                      ELSE IF q \in dirs THEN "dir" ELSE new[q][1]
  BY <1>2, DirNodeIs
<1> HIDE DEF file, add
<1>6. \A q \in DOMAIN new : /\ add[q].type = "custom" /\ add[q].from = new[q][2] /\ add[q].file = file(q)
                            /\ IsNode(add[q])
  <2> TAKE q \in DOMAIN new
  <2>1. add[q] = Node("custom", file(q), new[q][2])
    BY <1>4
  <2> QED BY <2>1, SMT DEF Node, IsNode
<1>7. /\ DOMAIN u = DOMAIN w \cup DOMAIN add
      /\ \A q \in DOMAIN add : u[q] = add[q]
      /\ \A q \in DOMAIN w : q \notin DOMAIN add => u[q] = w[q]
  BY MergeIs
<1> HIDE DEF u
<1>8. \A q : q \in DOMAIN u <=>
               \/ q \in DOMAIN new
               \/ q \in DOMAIN t \cup dirs /\ \A p \in DOMAIN new : ~Under(p, q)
  BY <1>2, <1>3, <1>4, <1>7
<1>9. \A q \in DOMAIN u \ DOMAIN new : u[q] = IF q \in DOMAIN t THEN t[q] ELSE DirNode
  <2> TAKE q \in DOMAIN u \ DOMAIN new
  <2>1. q \in DOMAIN t1 \ gone /\ u[q] = w[q]
    BY <1>3, <1>4, <1>7
  <2>2. u[q] = t1[q] /\ q \in DOMAIN t1
    BY <1>3, <2>1
  <2> QED BY <1>2, <2>2
<1>10. \A q \in DOMAIN u : IsNode(u[q])
  <2> TAKE q \in DOMAIN u
  <2>1. CASE q \in DOMAIN new
    BY <1>4, <1>6, <1>7, <2>1
  <2>2. CASE q \notin DOMAIN new
    BY <1>9, <2>2, DirNodeIs
  <2> QED BY <2>1, <2>2
<1>11. \A q \in DOMAIN new :
         /\ u[q].type = "custom" /\ u[q].from = new[q][2]
         /\ u[q].file = IF q \in DOMAIN t THEN t[q].file ELSE IF q \in dirs THEN "dir" ELSE new[q][1]
  BY <1>4, <1>5, <1>6, <1>7
<1>12. Injects(u, t, dirs, new)
  BY <1>8, <1>9, <1>10, <1>11 DEF Injects
<1> QED BY <1>0, <1>12

\* The tree when all modules are collected.
LEMMA TreeAtEnd ==
  ASSUME Sound, Collected(tree, Len(mods) + 1), NEW q \in Rooted, Clean(Place(q))
  PROVE  /\ q \in DOMAIN tree <=> q = System \/ Providers(Place(q)) # {}
         /\ q \in DOMAIN tree /\ q # System =>
              Providers(Place(q)) # {} /\ Shows(tree[q], Chosen(Place(q))) /\ tree[q].file = Chosen(Place(q))[1]
         /\ q \in DOMAIN tree =>
              (tree[q].replace <=> \E i \in Providers(Place(q)) : q \in mods[i].replace)
<1>1. \A i \in Active : i < Len(mods) + 1 /\ i \in Nat
  BY Modules, SMT DEF Active
<1>2. Given(Len(mods) + 1, q) = Providers(Place(q)) /\ Providers(Place(q)) \subseteq Nat
  BY <1>1, ProvidersAt DEF Given
<1>3. AsGiven(tree, Len(mods) + 1, q)
  BY DEF Collected
<1>4. ASSUME q \in DOMAIN tree, q # System
      PROVE  Providers(Place(q)) # {} /\ Shows(tree[q], Chosen(Place(q))) /\ tree[q].file = Chosen(Place(q))[1]
  <2>1. PICK i : IsFirst(i, Providers(Place(q))) /\ Shows(tree[q], mods[i].files[q])
    BY <1>2, <1>3, <1>4 DEF AsGiven
  <2>2. First(Providers(Place(q))) = i
    BY <1>2, <2>1, FirstIs
  <2>3. Chosen(Place(q)) = mods[i].files[q]
    BY <2>2, ProvidersAt DEF Chosen
  <2> QED BY <2>1, <2>3 DEF IsFirst, Shows
<1> QED BY <1>2, <1>3, <1>4 DEF AsGiven

\* A clean path does not lie under one of Magisk's files if a module has it.
LEMMA NotUnderInjected ==
  ASSUME Sound, NEW q \in Rooted, Clean(Place(q)), Providers(Place(q)) # {},
         NEW a \in Rooted, Under(a, q), Injected(Place(a))
  PROVE  FALSE
<1>1. a \in Path /\ q \in Path
  BY DEF Rooted
<1>2. PICK i \in Active : q \in DOMAIN mods[i].files
  BY ProvidersAt
<1>3. a \in DOMAIN mods[i].files /\ mods[i].files[a][1] = "dir"
  BY <1>1, <1>2, ModuleTree
<1>4. a # System
  <2>1. Place(System) = System
    BY SystemIsPath, SMT DEF Place
  <2>2. ~Injected(System)
    BY SystemIsPath, SMT DEF Injected, InBin, InLib
  <2> QED BY <2>1, <2>2
<1>5. Clean(Place(a)) /\ Place(a) \in Path
  BY <1>1, <1>4, CleanAbove, PlaceHome DEF Placed
<1>6. i \in Providers(Place(a)) /\ FileOf(i, Place(a))[1] = "dir"
  BY <1>3, ProvidersAt
<1>7. Conflict(Place(a))
  BY <1>6 DEF Conflict
<1> QED BY <1>5, <1>7 DEF Clean, OnLine

IsBuilt(u, p, q, there, own) ==
  /\ q \in DOMAIN u <=> there
  /\ q \in DOMAIN u => NodeAs(u[q], p, own)

\* The tree once Magisk's binaries are in it.
WithBins(u) ==
  /\ \A q \in DOMAIN u : q \in Rooted /\ IsNode(u[q])
  /\ System \in DOMAIN u /\ u[System].type = "root"
  /\ \A q \in Rooted : Clean(Place(q)) =>
       LET p == Place(q)
       IN  IsBuilt(u, p, q, p = System \/ Providers(p) # {} \/ InBin(p) \/ (~sbin /\ OnLine(p, Bin)), InBin(p))

\* ... and once the Zygisk loader is.
WithLibs(u) ==
  /\ \A q \in DOMAIN u : q \in Rooted /\ IsNode(u[q])
  /\ System \in DOMAIN u /\ u[System].type = "root"
  /\ \A q \in Rooted : Clean(Place(q)) => IsBuilt(u, Place(q), q, Here(Place(q)), Injected(Place(q)))

\* /system stays where it is, and nothing else comes there.
LEMMA PlaceSystem ==
  ASSUME NEW q \in Rooted
  PROVE  /\ Place(System) = System /\ (Place(q) = System <=> q = System)
         /\ Place(q) \in Path /\ Home(Place(q)) = q
         /\ ~InBin(System) /\ ~InLib(System)
<1>1. Place(System) = System
  BY SystemIsPath, SMT DEF Place
<1>2. ~InBin(System) /\ ~InLib(System)
  BY SystemIsPath, SMT DEF InBin, InLib
<1> QED BY <1>1, <1>2, SystemIsPath, PlaceHome DEF Placed

\* A node of a path that is not of Magisk.
LEMMA NotOwn ==
  ASSUME NEW n, NEW p, NodeAs(n, p, FALSE), NEW own, ~own
  PROVE  NodeAs(n, p, own)
BY DEF NodeAs

\* A node of a path that is of Magisk.
LEMMA IsOwn ==
  ASSUME NEW n, NEW p, NodeAs(n, p, TRUE), NEW own, own
  PROVE  NodeAs(n, p, own)
BY DEF NodeAs

\* A collected node is that of the modules.
LEMMA OldNode ==
  ASSUME Sound, Collected(tree, Len(mods) + 1), NEW q \in Rooted, Clean(Place(q)), q \in DOMAIN tree
  PROVE  NodeAs(tree[q], Place(q), FALSE)
<1>1. IsNode(tree[q])
  BY DEF Collected
<1> QED BY <1>1, TreeAtEnd, PlaceSystem DEF NodeAs

\* A directory made for the files of Magisk.
LEMMA NewDir ==
  ASSUME NEW p, Providers(p) = {}
  PROVE  NodeAs(DirNode, p, FALSE)
BY DirNodeIs DEF NodeAs

\* inject_magisk_bins adds the binaries and their directories, and nothing is lost.
LEMMA BinsThere ==
  ASSUME Sound, Collected(tree, Len(mods) + 1)
  PROVE  WithBins(IF sbin THEN tree ELSE InjectBins(tree))
<1>1. CASE sbin
  <2>1. ASSUME NEW q \in Rooted, Clean(Place(q))
        PROVE  /\ q \in DOMAIN tree <=> Place(q) = System \/ Providers(Place(q)) # {}
               /\ q \in DOMAIN tree => NodeAs(tree[q], Place(q), FALSE)
    BY <2>1, TreeAtEnd, OldNode, PlaceSystem
  <2>2. \A p : ~InBin(p)
    BY <1>1 DEF InBin
  <2>3. ASSUME NEW q \in Rooted, Clean(Place(q))
        PROVE  IsBuilt(tree, Place(q), q, Place(q) = System \/ Providers(Place(q)) # {} \/ InBin(Place(q))
                                       \/ (~sbin /\ OnLine(Place(q), Bin)), InBin(Place(q)))
    BY <1>1, <2>1, <2>2, <2>3, NotOwn DEF IsBuilt
  <2>4. WithBins(tree)
    BY <2>3 DEF WithBins, Collected
  <2> QED BY <1>1, <2>4
<1>2. CASE ~sbin
  <2> DEFINE bin == BinOf(tree)
             dirs == BinDirs(bin)
             files == {Append(bin, n) : n \in Names}
             new == [p \in files |-> <<IF Name(p) = "magisk" THEN "reg" ELSE "lnk", "magisk">>]
             u == Inject(tree, dirs, new)
  <2>1. InjectBins(tree) = u
    BY DEF InjectBins, BinDirs
  <2>2. bin \in Rooted /\ bin \in Path /\ Place(bin) = Bin
    BY BinIs DEF Rooted
  <2> HIDE DEF bin
  <2>3. DOMAIN new = files /\ \A p \in files : new[p] = <<IF Name(p) = "magisk" THEN "reg" ELSE "lnk", "magisk">>
    OBVIOUS
  <2>4. \A p \in files : new[p][1] = (IF Name(p) = "magisk" THEN "reg" ELSE "lnk") /\ new[p][2] = "magisk"
    <3> TAKE p \in files
    <3> DEFINE k == IF Name(p) = "magisk" THEN "reg" ELSE "lnk"
    <3>1. new[p] = <<k, "magisk">>
      BY <2>3
    <3> HIDE DEF k, new
    <3>2. new[p][1] = k /\ new[p][2] = "magisk"
      BY <3>1, SMT
    <3> QED BY <3>2 DEF k
  <2> HIDE DEF new
  <2>5. \A p \in files : p \in Rooted /\ p \in Path /\ Under(bin, p) /\ p # System
    <3> TAKE p \in files
    <3>1. PICK n \in Names : p = Append(bin, n)
      OBVIOUS
    <3>2. n \in Word /\ n \notin Partitions
      BY MountAssumption
    <3>3. p \in Rooted /\ Under(bin, p)
      BY <2>2, <3>1, <3>2, AppendIs, AppendPlace
    <3> QED BY <2>2, <3>3, NoPathAboveSystem DEF Rooted
  <2>6. \A q \in Rooted : q \in files <=> InBin(Place(q))
    BY <1>2, <2>2, InBinIs
  <2> HIDE DEF files
  <2>7. \A q \in Rooted : q # System => (q \in dirs <=> OnLine(q, bin)) /\ (q \in dirs <=> OnLine(Place(q), Bin))
    BY <2>2, HostsIs
  <2>8. \A q \in dirs : q \in Rooted /\ q \in Path /\ q # System /\ OnLine(q, bin)
    <3> TAKE q \in dirs
    <3>1. PICK i \in 2..Len(bin) : q = SubSeq(bin, 1, i)
      BY DEF BinDirs
    <3>2. Len(bin) \in Nat /\ i \in 1..Len(bin)
      BY <2>2, PathLen, SMT
    <3>3. q \in Line(bin)
      BY <3>1, <3>2 DEF Line
    <3>4. q \in Path /\ OnLine(q, bin)
      BY <2>2, <3>3, LineIs
    <3>5. Len(q) = i /\ Len(q) # 1
      BY <2>2, <3>1, <3>2, SMT DEF Path
    <3>6. q # System
      BY <3>5, SystemIsPath
    <3>7. q \in Rooted
      <4>1. q[1] = bin[1]
        BY <2>2, <3>4, UnderIs, PathLen, SMT DEF OnLine
      <4> QED BY <2>2, <3>4, <4>1 DEF Rooted
    <3> QED BY <3>4, <3>6, <3>7
  <2> HIDE DEF dirs
  <2>9. \A q \in DOMAIN tree : q \in Rooted /\ IsNode(tree[q])
    BY DEF Collected
  <2>10. /\ \A q : q \in DOMAIN u <=>
                     \/ q \in files
                     \/ q \in DOMAIN tree \cup dirs /\ \A p \in files : ~Under(p, q)
         /\ \A q \in DOMAIN u : IsNode(u[q])
         /\ \A q \in files :
              /\ u[q].type = "custom" /\ u[q].from = "magisk"
              /\ u[q].file = IF q \in DOMAIN tree THEN tree[q].file
                             ELSE IF q \in dirs THEN "dir" ELSE new[q][1]
         /\ \A q \in DOMAIN u \ files : u[q] = IF q \in DOMAIN tree THEN tree[q] ELSE DirNode
    <3>1. Injects(u, tree, dirs, new)
      BY <2>9, InjectIs
    <3> HIDE DEF u
    <3> QED BY <2>3, <2>4, <3>1 DEF Injects
  <2> HIDE DEF u
  <2>11. \A q \in DOMAIN u : q \in Rooted
    BY <2>5, <2>8, <2>9, <2>10
  <2>12. System \in DOMAIN u /\ u[System] = tree[System]
    <3>1. System \in DOMAIN tree /\ System \notin files /\ \A p \in files : ~Under(p, System)
      BY <2>5, NoPathAboveSystem DEF Collected
    <3> QED BY <2>10, <3>1
  <2>13. ASSUME NEW q \in dirs, NEW p \in files PROVE ~Under(p, q) /\ q # p
    <3>1. ~Under(bin, q)
      BY <2>2, <2>8, UnderTrans, UnderIrr DEF OnLine
    <3> QED BY <2>2, <2>5, <2>8, <3>1, UnderTrans
  <2>14. ASSUME NEW q \in Rooted, Clean(Place(q))
         PROVE  IsBuilt(u, Place(q), q, Place(q) = System \/ Providers(Place(q)) # {} \/ InBin(Place(q))
                                        \/ (~sbin /\ OnLine(Place(q), Bin)), InBin(Place(q)))
    <3>1. q \in DOMAIN tree <=> q = System \/ Providers(Place(q)) # {}
      BY <2>14, TreeAtEnd
    <3>2. Providers(Place(q)) # {} => \A p \in files : ~Under(p, q)
      BY <2>5, <2>6, <2>14, NotUnderInjected DEF Injected
    <3>3. \A p \in files : ~Under(p, System)
      BY <2>5, NoPathAboveSystem
    <3>4. CASE q = System
      <4>1. q \notin files
        BY <2>5, <3>4
      <4>2. u[q] = tree[q] /\ ~InBin(Place(q)) /\ Place(q) = System /\ q \in DOMAIN u /\ q \in DOMAIN tree
        BY <2>12, <3>1, <3>4, PlaceSystem
      <4>3. NodeAs(u[q], Place(q), FALSE)
        BY <2>14, <4>2, OldNode
      <4> QED BY <4>2, <4>3, NotOwn DEF IsBuilt
    <3>5. CASE q # System /\ q \in files
      <4>1. InBin(Place(q)) /\ q \in DOMAIN u /\ q \notin dirs
        BY <2>6, <2>10, <2>13, <3>5
      <4>2. PICK n \in Names : q = Append(bin, n)
        BY <3>5 DEF files
      <4>3. n \in Word /\ n \notin Partitions /\ n # Loader /\ (n = "magisk" <=> n \notin Applets)
        BY MountAssumption DEF Names
      <4>4. Name(q) = n /\ Place(q) = Append(Bin, n) /\ Bin \in Path
        BY <2>2, <4>2, <4>3, AppendIs, AppendPlace, PlaceHome DEF Placed
      <4>5. Name(Place(q)) = n
        BY <4>3, <4>4, AppendIs
      <4>6. ~InLib(Place(q))
        BY <4>3, <4>5 DEF InLib, Name
      <4>7. new[q][1] = IF Linked(Place(q)) THEN "lnk" ELSE "reg"
        BY <2>4, <3>5, <4>1, <4>3, <4>4, <4>5 DEF Linked
      <4>8. q \in DOMAIN tree => Providers(Place(q)) # {} /\ tree[q].file = Chosen(Place(q))[1]
        BY <2>14, <3>5, TreeAtEnd
      <4>9. NodeAs(u[q], Place(q), TRUE)
        BY <2>10, <3>1, <3>5, <4>1, <4>6, <4>7, <4>8 DEF NodeAs
      <4> QED BY <4>1, <4>9, IsOwn DEF IsBuilt
    <3>6. CASE q # System /\ q \notin files
      <4>1. ~InBin(Place(q)) /\ Place(q) # System
        BY <2>6, <3>6, PlaceSystem
      <4>2. q \in dirs <=> OnLine(Place(q), Bin)
        BY <2>7, <3>6
      <4>3. q \in DOMAIN u <=> Providers(Place(q)) # {} \/ OnLine(Place(q), Bin)
        BY <2>10, <2>13, <3>1, <3>2, <3>6, <4>2
      <4>4. ASSUME q \in DOMAIN u, q \in DOMAIN tree PROVE NodeAs(u[q], Place(q), FALSE)
        <5>1. u[q] = tree[q]
          BY <2>10, <3>6, <4>4
        <5> QED BY <2>14, <4>4, <5>1, OldNode
      <4>5. ASSUME q \in DOMAIN u, q \notin DOMAIN tree PROVE NodeAs(u[q], Place(q), FALSE)
        <5>1. u[q] = DirNode /\ Providers(Place(q)) = {}
          BY <2>10, <3>1, <3>6, <4>5
        <5> QED BY <5>1, NewDir
      <4> QED BY <1>2, <4>1, <4>3, <4>4, <4>5, NotOwn DEF IsBuilt
    <3> QED BY <3>4, <3>5, <3>6
  <2>15. WithBins(u)
    BY <2>10, <2>11, <2>12, <2>14 DEF WithBins, Collected
  <2> QED BY <1>2, <2>1, <2>15
<1> QED BY <1>1, <1>2

\* Nothing that Magisk's binaries need lies at or under a Zygisk loader.
LEMMA LoaderApart ==
  ASSUME Sound, Collected(tree, Len(mods) + 1), NEW d \in Libs, NEW a, a = System \o <<d, Loader>>,
         NEW q \in Rooted, InBin(Place(q)) \/ (q # System /\ OnLine(Place(q), Bin))
  PROVE  ~OnLine(a, q)
<1> DEFINE bin == BinOf(tree)
<1>1. /\ bin \in Rooted /\ bin \in Path /\ Place(bin) = Bin /\ q \in Path
      /\ Len(bin) >= 3 => bin[3] # Loader
  BY BinIs DEF Rooted
<1> HIDE DEF bin
<1>2. a \in Rooted /\ a \in Path /\ Len(a) = 3 /\ a[3] = Loader
  BY LibPaths DEF Rooted
<1>3. ~OnLine(a, bin)
  <2>1. ASSUME Under(a, bin) PROVE FALSE
    <3>1. Len(bin) > Len(a) /\ \A i \in 1..Len(a) : bin[i] = a[i]
      BY <1>1, <1>2, <2>1, UnderIs
    <3>2. 3 \in 1..Len(a) /\ Len(bin) >= 3
      BY <1>1, <1>2, <3>1, PathLen, SMT
    <3> QED BY <1>1, <1>2, <3>1, <3>2
  <2>2. ASSUME a = bin PROVE FALSE
    <3>1. 3 >= 3
      BY SMT
    <3> QED BY <1>1, <1>2, <2>2, <3>1
  <2> QED BY <2>1, <2>2 DEF OnLine
<1>4. CASE InBin(Place(q))
  <2>1. PICK n \in Names : q = Append(bin, n)
    BY <1>1, <1>4, InBinIs
  <2>2. n \in Word /\ n # Loader
    BY MountAssumption
  <2>3. Name(q) = n /\ Parent(q) = bin
    BY <1>1, <2>1, <2>2, AppendIs
  <2>4. q # a
    BY <1>2, <2>2, <2>3 DEF Name
  <2>5. ~Under(a, q)
    BY <1>1, <1>2, <1>3, <2>3, UnderParent
  <2> QED BY <2>4, <2>5 DEF OnLine
<1>5. CASE q # System /\ OnLine(Place(q), Bin)
  <2>1. OnLine(q, bin)
    BY <1>1, <1>5, LineOfPlace
  <2> QED BY <1>1, <1>2, <1>3, <2>1, UnderTrans DEF OnLine
<1> QED BY <1>4, <1>5

\* inject_zygisk_libs adds the loader and its directories, and nothing is lost.
LEMMA LibsThere ==
  ASSUME Sound, Collected(tree, Len(mods) + 1), NEW u1, WithBins(u1)
  PROVE  WithLibs(IF zygisk THEN InjectLibs(u1) ELSE u1)
<1>0. ASSUME NEW q \in Rooted, Clean(Place(q))
      PROVE  /\ q \in DOMAIN u1 <=> \/ Place(q) = System \/ Providers(Place(q)) # {}
                                    \/ InBin(Place(q)) \/ (~sbin /\ OnLine(Place(q), Bin))
             /\ q \in DOMAIN u1 => NodeAs(u1[q], Place(q), InBin(Place(q)))
  BY <1>0 DEF WithBins, IsBuilt
<1>1. CASE ~zygisk
  <2>1. \A p : /\ Injected(p) <=> InBin(p)
               /\ Hosts(p) <=> ~sbin /\ OnLine(p, Bin)
    BY <1>1 DEF Injected, InLib, Hosts
  <2>2. ASSUME NEW q \in Rooted, Clean(Place(q))
        PROVE  IsBuilt(u1, Place(q), q, Here(Place(q)), Injected(Place(q)))
    BY <1>0, <2>1, <2>2 DEF IsBuilt, Here, NodeAs
  <2>3. WithLibs(u1)
    BY <2>2 DEF WithLibs, WithBins
  <2> QED BY <1>1, <2>3
<1>2. CASE zygisk
  <2> DEFINE dirs == LibDirs
             files == {System \o <<d, Loader>> : d \in Libs}
             new == [p \in files |-> <<"reg", "zygisk">>]
             u == Inject(u1, dirs, new)
  <2>1. InjectLibs(u1) = u
    BY DEF InjectLibs, LibDirs
  <2>3. DOMAIN new = files /\ \A p \in files : new[p] = <<"reg", "zygisk">>
    OBVIOUS
  <2> HIDE DEF new
  <2>4. \A p \in files : new[p][1] = "reg" /\ new[p][2] = "zygisk"
    <3> TAKE p \in files
    <3>1. new[p] = <<"reg", "zygisk">>
      BY <2>3
    <3> QED BY <3>1, SMT
  <2>5. \A p \in files : p \in Rooted /\ p \in Path /\ Len(p) = 3 /\ p # System
    <3>1. 3 # 1
      BY SMT
    <3> TAKE p \in files
    <3>0. PICK d \in Libs : p = System \o <<d, Loader>>
      OBVIOUS
    <3>2. p \in Rooted /\ Len(p) = 3
      BY <3>0, LibPaths
    <3> QED BY <3>1, <3>2, SystemIsPath DEF Rooted
  <2>6. \A q \in Rooted : q \in files <=> InLib(Place(q))
    BY <1>2, InLibIs
  <2>7. \A q \in Rooted, a \in files :
          InBin(Place(q)) \/ (q # System /\ OnLine(Place(q), Bin)) => ~OnLine(a, q)
    BY LoaderApart
  <2> HIDE DEF files
  <2>8. \A q \in dirs : q \in Rooted /\ q \in Path /\ q # System /\ Len(q) = 2
    <3>1. 2 # 1
      BY SMT
    <3> TAKE q \in dirs
    <3>0. PICK d \in Libs : q = System \o <<d>>
      BY DEF LibDirs
    <3>2. q \in Rooted /\ Len(q) = 2
      BY <3>0, LibPaths
    <3> QED BY <3>1, <3>2, SystemIsPath DEF Rooted
  <2>9. \A q \in Rooted : q # System => (Hosts(Place(q)) <=> (~sbin /\ OnLine(Place(q), Bin)) \/ q \in dirs)
    <3>1. BinOf(tree) \in Rooted /\ Place(BinOf(tree)) = Bin
      BY BinIs
    <3> QED BY <1>2, <3>1, HostsIs
  <2> HIDE DEF dirs
  <2>10. \A q \in DOMAIN u1 : q \in Rooted /\ IsNode(u1[q])
    BY DEF WithBins
  <2>11. Injects(u, u1, dirs, new)
    BY <2>10, InjectIs
  <2> HIDE DEF u
  <2>12. /\ \A q : q \in DOMAIN u <=>
                     \/ q \in files
                     \/ q \in DOMAIN u1 \cup dirs /\ \A p \in files : ~Under(p, q)
         /\ \A q \in DOMAIN u : IsNode(u[q])
         /\ \A q \in files :
              /\ u[q].type = "custom" /\ u[q].from = "zygisk"
              /\ u[q].file = IF q \in DOMAIN u1 THEN u1[q].file
                             ELSE IF q \in dirs THEN "dir" ELSE "reg"
         /\ \A q \in DOMAIN u \ files : u[q] = IF q \in DOMAIN u1 THEN u1[q] ELSE DirNode
    BY <2>3, <2>4, <2>11 DEF Injects
  <2>13. \A q \in DOMAIN u : q \in Rooted
    BY <2>5, <2>8, <2>10, <2>12
  <2>14. System \in DOMAIN u /\ u[System] = u1[System]
    <3>1. System \in DOMAIN u1 /\ System \notin files /\ \A p \in files : ~Under(p, System)
      BY <2>5, NoPathAboveSystem DEF WithBins
    <3> QED BY <2>12, <3>1
  <2>15. ASSUME NEW q \in dirs, NEW p \in files PROVE ~Under(p, q) /\ q # p
    <3>1. ~(3 < 2) /\ 2 # 3
      BY SMT
    <3> QED BY <2>5, <2>8, <3>1, UnderIrr
  <2>16. ASSUME NEW q \in Rooted, Clean(Place(q))
         PROVE  IsBuilt(u, Place(q), q, Here(Place(q)), Injected(Place(q)))
    <3>1. Providers(Place(q)) # {} => \A p \in files : ~Under(p, q)
      BY <2>5, <2>6, <2>16, NotUnderInjected DEF Injected
    <3>2. CASE q = System
      <4>1. u[q] = u1[q] /\ ~InBin(Place(q)) /\ ~Injected(Place(q)) /\ Here(Place(q))
            /\ q \in DOMAIN u /\ q \in DOMAIN u1
        BY <2>14, <3>2, PlaceSystem DEF Injected, Here, WithBins
      <4>2. NodeAs(u[q], Place(q), InBin(Place(q)))
        BY <1>0, <2>16, <4>1
      <4> QED BY <4>1, <4>2 DEF IsBuilt, NodeAs
    <3>3. CASE q # System /\ q \in files
      <4>1. InLib(Place(q)) /\ q \in DOMAIN u /\ q \notin dirs /\ Place(q) # System
        BY <2>6, <2>12, <2>15, <3>3, PlaceSystem
      <4>2. ~InBin(Place(q)) /\ ~OnLine(Place(q), Bin)
        BY <2>7, <3>3 DEF OnLine
      <4>3. ~Linked(Place(q)) /\ Injected(Place(q)) /\ Here(Place(q))
        BY <4>1, <4>2 DEF Linked, Injected, Here
      <4>4. q \in DOMAIN u1 <=> Providers(Place(q)) # {}
        BY <1>0, <2>16, <4>1, <4>2
      <4>5. q \in DOMAIN u1 => u1[q].file = Chosen(Place(q))[1]
        <5>1. q \in DOMAIN u1 => NodeAs(u1[q], Place(q), InBin(Place(q)))
          BY <1>0, <2>16
        <5>2. q \in DOMAIN u1 => Shows(u1[q], Chosen(Place(q)))
          BY <4>1, <4>2, <4>4, <5>1 DEF NodeAs
        <5> QED BY <5>2 DEF Shows
      <4>6. IsNode(u[q]) /\ u[q].type = "custom" /\ u[q].from = "zygisk"
            /\ u[q].file = IF q \in DOMAIN u1 THEN u1[q].file ELSE "reg"
        BY <2>12, <3>3, <4>1
      <4>7. NodeAs(u[q], Place(q), TRUE)
        BY <4>1, <4>3, <4>4, <4>5, <4>6 DEF NodeAs
      <4> QED BY <4>1, <4>3, <4>7, IsOwn DEF IsBuilt
    <3>4. CASE q # System /\ q \notin files
      <4>1. ~InLib(Place(q)) /\ (Injected(Place(q)) <=> InBin(Place(q))) /\ Place(q) # System
        BY <2>6, <3>4, PlaceSystem DEF Injected
      <4>2. Hosts(Place(q)) <=> (~sbin /\ OnLine(Place(q), Bin)) \/ q \in dirs
        BY <2>9, <3>4
      <4>3. InBin(Place(q)) \/ OnLine(Place(q), Bin) => \A p \in files : ~Under(p, q)
        BY <2>7, <3>4 DEF OnLine
      <4>4. q \in DOMAIN u1 <=> Providers(Place(q)) # {} \/ InBin(Place(q)) \/ (~sbin /\ OnLine(Place(q), Bin))
        BY <1>0, <2>16, <4>1
      <4>5. q \in DOMAIN u <=> q \in DOMAIN u1 \/ q \in dirs
        BY <2>12, <2>15, <3>1, <3>4, <4>3, <4>4
      <4>6. q \in DOMAIN u <=> Here(Place(q))
        BY <4>1, <4>2, <4>4, <4>5 DEF Here
      <4>7. ASSUME q \in DOMAIN u, q \in DOMAIN u1 PROVE NodeAs(u[q], Place(q), Injected(Place(q)))
        <5>1. u[q] = u1[q]
          BY <2>12, <3>4, <4>7
        <5>2. NodeAs(u[q], Place(q), InBin(Place(q)))
          BY <1>0, <2>16, <4>7, <5>1
        <5> QED BY <4>1, <5>2 DEF NodeAs
      <4>8. ASSUME q \in DOMAIN u, q \notin DOMAIN u1 PROVE NodeAs(u[q], Place(q), Injected(Place(q)))
        <5>1. u[q] = DirNode /\ Providers(Place(q)) = {} /\ ~Injected(Place(q))
          BY <2>12, <3>4, <4>1, <4>4, <4>8
        <5> QED BY <5>1, NewDir, NotOwn
      <4> QED BY <4>6, <4>7, <4>8 DEF IsBuilt
    <3> QED BY <3>2, <3>3, <3>4
  <2>17. WithLibs(u)
    BY <2>12, <2>13, <2>14, <2>16 DEF WithLibs, WithBins
  <2> QED BY <1>2, <2>1, <2>17
<1> QED BY <1>1, <1>2

-----------------------------------------------------------------------------
(* The partitions of their own.                                            *)

\* What is in the tree lies below /system or a partition of its own.
LEMMA HerePlaced ==
  ASSUME Sound, Collected(tree, Len(mods) + 1), NEW p \in Path, Here(p)
  PROVE  p \in Placed
<1>1. PICK bin \in Rooted : Place(bin) = Bin
  BY BinIs
<1>2. Bin \in Placed /\ Bin \in Path
  BY <1>1, PlaceHome DEF Placed
<1>3. CASE p = System
  BY <1>3, SystemIsPath, PlaceHome, PlaceSystem
<1>4. CASE Providers(p) # {}
  <2>1. PICK i \in Active : Home(p) \in DOMAIN mods[i].files /\ Place(Home(p)) = p
    BY <1>4 DEF Providers
  <2> QED BY <2>1, ModuleTree DEF Placed
<1>5. CASE InBin(p)
  <2>1. Len(p) > 1 /\ Parent(p) = Bin /\ Name(p) \in Names
    BY <1>5 DEF InBin
  <2>2. Name(p) \in Word /\ Name(p) \notin Partitions /\ p = Append(Bin, Name(p))
    BY <2>1, MountAssumption, ParentName
  <2> QED BY <1>1, <2>2, AppendPlace
<1>6. ASSUME p[1] = "system", Len(p) > 1, p[2] \in Libs PROVE p \in Placed
  <2>1. ~Own("system") /\ ~Own(p[2])
    BY <1>6, MountAssumption DEF Own
  <2>2. Home(p) = p /\ Place(p) = p
    BY <1>6, <2>1 DEF Home, Place
  <2> QED BY <1>6, <2>2 DEF Placed, Rooted
<1>7. CASE InLib(p)
  <2>1. Len(p) > 1
    BY <1>7, SMT DEF InLib
  <2> QED BY <1>6, <1>7, <2>1 DEF InLib
<1>8. CASE OnLine(p, Bin)
  BY <1>2, <1>8, PlacedUnder DEF OnLine
<1>9. CASE Len(p) = 2 /\ p[1] = "system" /\ p[2] \in Libs
  <2>1. Len(p) > 1
    BY <1>9, SMT
  <2> QED BY <1>6, <1>9, <2>1
<1> QED BY <1>3, <1>4, <1>5, <1>7, <1>8, <1>9 DEF Here, Injected, Hosts

Built(X) ==
  /\ \A p \in DOMAIN X : p \in Path /\ IsNode(X[p]) /\ (Len(p) = 1 => X[p].type = "root")
  /\ \A p \in Path : Clean(p) =>
       /\ p \in DOMAIN X <=> Here(p)
       /\ p \in DOMAIN X /\ Len(p) > 1 => NodeAs(X[p], p, Injected(p))
       /\ p \in DOMAIN X /\ Len(p) = 1 => ~X[p].replace

\* A node that becomes the root of a partition.
LEMMA RootNode ==
  ASSUME NEW n, IsNode(n)
  PROVE  LET r == [n EXCEPT !.type = "root"]
         IN  IsNode(r) /\ r.type = "root" /\ r.replace = n.replace
BY SMT DEF IsNode

\* Splitting the partitions off puts every node at its place.
LEMMA ExtractIs ==
  ASSUME Sound, Collected(tree, Len(mods) + 1), NEW t, WithLibs(t)
  PROVE  Built(Extract(t))
<1> DEFINE moved == {p \in DOMAIN t : Len(p) > 1 /\ Own(p[2])}
           tails == {Tail(q) : q \in moved}
           root(p) == [t[System \o p] EXCEPT !.type = "root"]
           new == [p \in tails |-> IF Len(p) = 1 THEN root(p) ELSE t[System \o p]]
           w == Without(t, moved)
           X == Merge(w, new)
<1>0. Extract(t) = X
  BY DEF Extract
<1>1. /\ \A q \in DOMAIN t : q \in Rooted /\ IsNode(t[q])
      /\ System \in DOMAIN t /\ t[System].type = "root"
      /\ \A q \in Rooted : Clean(Place(q)) =>
           /\ q \in DOMAIN t <=> Here(Place(q))
           /\ q \in DOMAIN t => NodeAs(t[q], Place(q), Injected(Place(q)))
  BY DEF WithLibs, IsBuilt
<1>2. DOMAIN new = tails /\ \A p \in tails : new[p] = IF Len(p) = 1 THEN root(p) ELSE t[System \o p]
  OBVIOUS
<1> HIDE DEF new, root
<1>3. DOMAIN w = DOMAIN t \ moved /\ \A q \in DOMAIN t \ moved : w[q] = t[q]
  BY WithoutIs
<1> HIDE DEF w
<1>4. /\ DOMAIN X = DOMAIN w \cup DOMAIN new
      /\ \A q \in DOMAIN new : X[q] = new[q]
      /\ \A q \in DOMAIN w : q \notin DOMAIN new => X[q] = w[q]
  BY MergeIs
<1> HIDE DEF X
<1>5. ASSUME NEW p \in tails
      PROVE  /\ p \in Placed /\ Home(p) = System \o p /\ Home(p) \in DOMAIN t /\ Own(p[1])
  <2>1. PICK q \in moved : p = Tail(q)
    OBVIOUS
  <2>2. q \in DOMAIN t /\ q \in Rooted /\ Place(q) = p
    BY <1>1, <2>1 DEF Place
  <2>3. p \in Placed /\ Home(p) = q /\ p \in Path
    BY <2>2, PlaceHome DEF Placed
  <2>4. Own(p[1])
    <3>1. ASSUME ~Own(p[1]) PROVE FALSE
      <4>1. Home(p) = p
        BY <3>1 DEF Home
      <4>2. p[1] = "system" /\ Len(p) = Len(q) - 1 /\ Len(q) \in Nat /\ Len(q) > 1 /\ q \in Path
        BY <2>1, <2>2, <2>3, <4>1, TailPath, PathLen DEF Rooted
      <4>3. Len(p) # Len(q)
        BY <4>2, SMT
      <4> QED BY <2>3, <4>1, <4>3
    <3> QED BY <3>1
  <2> QED BY <2>2, <2>3, <2>4 DEF Home
<1>6. ASSUME NEW p \in Placed, Home(p) \in DOMAIN t
      PROVE  p \in DOMAIN X /\ (Own(p[1]) => p \in tails) /\ (~Own(p[1]) => p \in DOMAIN t \ moved /\ p \notin tails)
  <2>1. p \in Path /\ Home(p) \in Rooted /\ Place(Home(p)) = p
    BY DEF Placed
  <2>2. CASE Own(p[1])
    <3> DEFINE h == System \o p
    <3>1. h \in Rooted /\ Len(h) = Len(p) + 1 /\ h[2] = p[1]
      BY <2>1, SystemPath
    <3>2. Home(p) = h
      BY <2>2 DEF Home
    <3> HIDE DEF h
    <3>3. Len(h) > 1
      BY <2>1, <3>1, PathLen, SMT
    <3>6. Tail(h) = p
      BY <2>1, <2>2, <3>1, <3>2, <3>3 DEF Place
    <3>4. h \in moved
      BY <1>6, <2>2, <3>1, <3>2, <3>3
    <3>5. p \in tails
      BY <3>4, <3>6
    <3> HIDE DEF tails
    <3> QED BY <1>2, <1>4, <2>2, <3>5
  <2>3. CASE ~Own(p[1])
    <3>1. Home(p) = p
      BY <2>3 DEF Home
    <3>2. p \in DOMAIN t
      BY <1>6, <3>1
    <3>3. p \notin moved
      <4>1. ASSUME Len(p) > 1, Own(p[2]) PROVE FALSE
        <5>1. Place(p) = Tail(p)
          BY <4>1 DEF Place
        <5>2. Tail(p) = p
          BY <2>1, <3>1, <5>1
        <5>3. Len(Tail(p)) = Len(p) - 1 /\ Len(p) \in Nat
          BY <2>1, <4>1, TailPath, PathLen
        <5>4. Len(Tail(p)) # Len(p)
          BY <5>3, SMT
        <5> QED BY <5>2, <5>4
      <4> QED BY <4>1
    <3>4. p \notin tails
      BY <1>5, <2>3
    <3> HIDE DEF tails, moved
    <3> QED BY <1>3, <1>4, <2>3, <3>2, <3>3, <3>4
  <2> QED BY <2>2, <2>3
<1>7. ASSUME NEW p \in DOMAIN X
      PROVE  p \in Placed /\ Home(p) \in DOMAIN t /\ p \in Path
  <2>1. CASE p \in tails
    BY <1>5, <2>1 DEF Placed
  <2>2. CASE p \notin tails
    <3>1. p \in DOMAIN t /\ ~(Len(p) > 1 /\ Own(p[2]))
      BY <1>2, <1>3, <1>4, <1>7, <2>2
    <3>2. Place(p) = p /\ p \in Rooted
      BY <1>1, <3>1 DEF Place
    <3> QED BY <3>1, <3>2, PlaceHome DEF Placed
  <2> QED BY <2>1, <2>2
<1>8. ASSUME NEW p \in DOMAIN X
      PROVE  X[p] = IF Len(p) = 1 /\ Own(p[1]) THEN root(p) ELSE t[Home(p)]
  <2>1. p \in Placed /\ Home(p) \in DOMAIN t
    BY <1>7
  <2>2. CASE Own(p[1])
    <3>1. p \in tails /\ Home(p) = System \o p
      BY <1>5, <1>6, <2>1, <2>2
    <3> HIDE DEF tails
    <3> QED BY <1>2, <1>4, <2>2, <3>1
  <2>3. CASE ~Own(p[1])
    <3>1. p \in DOMAIN t \ moved /\ p \notin tails /\ Home(p) = p
      BY <1>6, <2>1, <2>3 DEF Home
    <3> HIDE DEF tails, moved
    <3> QED BY <1>2, <1>3, <1>4, <2>3, <3>1
  <2> QED BY <2>2, <2>3
<1>9. ASSUME NEW p \in DOMAIN X
      PROVE  /\ IsNode(X[p]) /\ X[p].replace = t[Home(p)].replace
             /\ Len(p) = 1 => X[p].type = "root"
             /\ Len(p) > 1 => X[p] = t[Home(p)]
  <2>1. IsNode(t[Home(p)]) /\ p \in Path
    BY <1>1, <1>7
  <2>2. CASE Len(p) = 1 /\ Own(p[1])
    <3>1. Home(p) = System \o p
      BY <2>2 DEF Home
    <3>2. IsNode(root(p)) /\ root(p).type = "root" /\ root(p).replace = t[Home(p)].replace
      BY <2>1, <3>1, RootNode DEF root
    <3>3. ~(Len(p) > 1)
      BY <2>2, SMT
    <3> QED BY <1>8, <2>2, <3>2, <3>3
  <2>3. CASE ~(Len(p) = 1 /\ Own(p[1]))
    <3>1. X[p] = t[Home(p)]
      BY <1>8, <2>3
    <3>2. Len(p) = 1 => Home(p) = p /\ p = System
      BY <1>7, <2>3, RootIsSystem DEF Placed, Home
    <3> QED BY <1>1, <2>1, <3>1, <3>2
  <2> QED BY <2>2, <2>3
<1> HIDE DEF tails, moved
<1>10. ASSUME NEW p \in Path, Clean(p)
       PROVE  /\ p \in DOMAIN X <=> Here(p)
              /\ p \in DOMAIN X /\ Len(p) > 1 => NodeAs(X[p], p, Injected(p))
              /\ p \in DOMAIN X /\ Len(p) = 1 => ~X[p].replace
  <2>1. p \in Placed => /\ Home(p) \in Rooted /\ Place(Home(p)) = p
                        /\ Home(p) \in DOMAIN t <=> Here(p)
                        /\ Home(p) \in DOMAIN t => NodeAs(t[Home(p)], p, Injected(p))
    <3> SUFFICES ASSUME p \in Placed PROVE Home(p) \in Rooted /\ Place(Home(p)) = p
                        /\ (Home(p) \in DOMAIN t <=> Here(p))
                        /\ (Home(p) \in DOMAIN t => NodeAs(t[Home(p)], p, Injected(p)))
      OBVIOUS
    <3>1. Home(p) \in Rooted /\ Place(Home(p)) = p
      BY DEF Placed
    <3> DEFINE h == Home(p)
    <3>2. h \in Rooted /\ Place(h) = p /\ Clean(Place(h))
      BY <1>10, <3>1
    <3> HIDE DEF h
    <3>3. (h \in DOMAIN t <=> Here(p)) /\ (h \in DOMAIN t => NodeAs(t[h], p, Injected(p)))
      BY <1>1, <3>2
    <3> QED BY <3>1, <3>3 DEF h
  <2>2. p \in DOMAIN X <=> Here(p)
    BY <1>6, <1>7, <2>1, HerePlaced
  <2>3. p \in DOMAIN X /\ Len(p) > 1 => NodeAs(X[p], p, Injected(p))
    BY <1>7, <1>9, <2>1
  <2>4. ASSUME p \in DOMAIN X, Len(p) = 1, X[p].replace PROVE FALSE
    <3>1. p \in Placed /\ Home(p) \in DOMAIN t /\ t[Home(p)].replace
      BY <1>7, <1>9, <2>4
    <3>2. ~Injected(p)
      BY <2>4, SMT DEF Injected, InBin, InLib
    <3>3. PICK i \in Providers(p) : Home(p) \in mods[i].replace
      BY <2>1, <3>1, <3>2 DEF NodeAs
    <3>4. ~IsRoot(stock, Home(p))
      BY <3>3, ReplaceIsDir DEF Providers
    <3>5. CASE Own(p[1])
      <4> DEFINE h == System \o p
      <4>1. Home(p) = h
        BY <3>5 DEF Home
      <4>2. h \in Path /\ Len(h) = Len(p) + 1 /\ h[2] = p[1]
        BY SystemPath DEF Rooted
      <4> HIDE DEF h
      <4>3. Len(h) = 2
        BY <2>4, <4>2, SMT
      <4>4. p[1] \in Partitions /\ At(stock, <<p[1]>>)[1] = "dir"
        BY <3>5 DEF Own
      <4> QED BY <3>4, <4>1, <4>2, <4>3, <4>4 DEF IsRoot
    <3>6. CASE ~Own(p[1])
      <4>1. Home(p) = p
        BY <3>6 DEF Home
      <4> QED BY <2>4, <3>1, <3>4, <4>1, RootIsSystem DEF IsRoot, Placed
    <3> QED BY <3>5, <3>6
  <2> QED BY <2>2, <2>3, <2>4
<1>11. Built(X)
  BY <1>7, <1>9, <1>10 DEF Built
<1> QED BY <1>0, <1>11

-----------------------------------------------------------------------------
(* What the rules say of a path whose line has no conflict.                *)

Setting == Sound /\ Collected(tree, Len(mods) + 1)

\* What At returns.
LEMMA AtIs ==
  ASSUME NEW f, NEW p
  PROVE  /\ p \in DOMAIN f => At(f, p) = f[p]
         /\ p \notin DOMAIN f => At(f, p) = None
         /\ None[1] = "none" /\ None[2] = ""
<1>1. None[1] = "none" /\ None[2] = ""
  BY SMT DEF None
<1> QED BY <1>1 DEF At

\* The real file system is a tree with /system.
LEMMA StockIs ==
  ASSUME Sound
  PROVE  /\ At(stock, System)[1] = "dir"
         /\ \A p \in DOMAIN stock :
              /\ p \in Path /\ stock[p][1] \in {"dir", "reg", "lnk"}
              /\ \A r \in Path : Under(r, p) => r \in DOMAIN stock /\ stock[r][1] = "dir"
<1>1. IsStock(stock)
  BY MountAssumption DEF Sound
<1>2. IsTree(stock)
  BY <1>1 DEF IsStock
<1> QED BY <1>1, <1>2, TreeClosed DEF IsStock, IsTree

\* No conflict on a line: none on the line of a path of it.
LEMMA CleanOf ==
  ASSUME NEW p \in Path, Clean(p), NEW r \in Path, OnLine(r, p)
  PROVE  Clean(r) /\ ~Conflict(r)
BY UnderTrans DEF Clean, OnLine

\* The directory of the binaries is a place.
LEMMA BinPlaced ==
  ASSUME Setting
  PROVE  Bin \in Placed /\ Bin \in Path
<1>1. PICK bin \in Rooted : Place(bin) = Bin
  BY BinIs DEF Setting
<1> QED BY <1>1, PlaceHome DEF Placed

\* A binary of Magisk is not the loader.
LEMMA BinNotLib ==
  ASSUME NEW p, InBin(p)
  PROVE  ~InLib(p)
<1>1. Loader \notin Names
  BY MountAssumption
<1> QED BY <1>1 DEF InBin, InLib, Name

\* No file of Magisk is where a directory for another has to be.
LEMMA HostsApart ==
  ASSUME Setting, NEW p \in Path, Hosts(p)
  PROVE  ~Injected(p)
<1>1. Bin \in Path
  BY BinPlaced
<1>2. CASE OnLine(p, Bin)
  <2>1. ~InBin(p)
    BY <1>1, <1>2, ParentUnder, UnderTrans, UnderIrr DEF InBin, OnLine
  <2>2. ASSUME InLib(p) PROVE FALSE
    <3>1. p[2] \in Libs /\ p[1] = "system" /\ Len(p) = 3 /\ zygisk
      BY <2>2 DEF InLib
    <3>2. p \in Placed /\ Home(p) \in Rooted /\ Place(Home(p)) = p
      BY HerePlaced DEF Here, Setting, Placed
    <3>3. PICK d \in Libs : Home(p) = System \o <<d, Loader>>
      BY <2>2, <3>2, InLibIs
    <3>4. Home(p) # System
      <4>1. 3 # 1
        BY SMT
      <4>2. Len(Home(p)) = 3
        BY <3>3, LibPaths
      <4> QED BY <4>1, <4>2, SystemIsPath
    <3>5. ~OnLine(Home(p), Home(p))
      BY <1>2, <3>2, <3>3, <3>4, LoaderApart DEF Setting
    <3> QED BY <3>5 DEF OnLine
  <2> QED BY <2>1, <2>2 DEF Injected
<1>3. CASE Len(p) = 2 /\ p[1] = "system" /\ p[2] \in Libs
  <2>1. p[2] \notin Names
    BY <1>3, MountAssumption
  <2>2. ~InBin(p)
    BY <1>3, <2>1 DEF InBin, Name
  <2>3. ~InLib(p)
    <3>1. 2 # 3
      BY SMT
    <3> QED BY <1>3, <3>1 DEF InLib
  <2> QED BY <2>2, <2>3 DEF Injected
<1> QED BY <1>2, <1>3 DEF Hosts

\* The file chosen for a path without conflict: a directory if any module has one.
LEMMA ChosenIs ==
  ASSUME Sound, NEW p \in Path, ~Conflict(p), Providers(p) # {}
  PROVE  /\ Chosen(p)[1] \in {"dir", "reg", "lnk", "wht"}
         /\ \A i \in Providers(p) : FileOf(i, p)[1] = "dir" => Chosen(p)[1] = "dir"
         /\ p \in DOMAIN stock /\ Chosen(p)[1] # "wht" => (stock[p][1] = "dir" <=> Chosen(p)[1] = "dir")
         /\ Hosts(p) => Chosen(p)[1] = "dir"
         /\ Injected(p) => Chosen(p)[1] \in {"reg", "lnk"}
<1>1. Providers(p) \subseteq Nat
  <2>1. Active \subseteq Nat
    BY Modules, SMT DEF Active
  <2> QED BY <2>1 DEF Providers
<1>2. PICK i \in Providers(p) : \A j \in Providers(p) : i <= j
  BY <1>1, Least
<1>3. First(Providers(p)) = i
  BY <1>1, <1>2, FirstIs DEF IsFirst
<1>4. Chosen(p) = FileOf(i, p)
  BY <1>3 DEF Chosen
<1>5. FileOf(i, p)[1] \in {"dir", "reg", "lnk", "wht"}
  BY <1>2, ModuleTree DEF Providers, FileOf
<1> QED BY <1>2, <1>4, <1>5 DEF Conflict

\* What is above a path with a node is a directory.
IsDir(p) == Here(p) /\ ~Injected(p) /\ (Providers(p) # {} => Chosen(p)[1] = "dir")

\* A path that holds files of Magisk is a directory.
LEMMA HostIsDir ==
  ASSUME Setting, NEW a \in Path, ~Conflict(a), Hosts(a)
  PROVE  IsDir(a)
BY HostsApart, ChosenIs DEF IsDir, Here, Setting

\* /system is a directory.
LEMMA SystemIsDir ==
  ASSUME Setting, ~Conflict(System)
  PROVE  IsDir(System)
<1>1. System \in Path /\ ~Injected(System) /\ Home(System) = System
  BY PlaceSystem, SystemIsPath DEF Injected, Rooted
<1>2. \A i \in Providers(System) : FileOf(i, System)[1] = "dir"
  <2> TAKE i \in Providers(System)
  <2>1. System \in DOMAIN mods[i].files /\ At(mods[i].files, System)[1] = "dir"
    BY <1>1 DEF Providers, Active
  <2>2. At(mods[i].files, System) = mods[i].files[System]
    BY <2>1 DEF At
  <2> QED BY <1>1, <2>1, <2>2 DEF FileOf
<1>3. Providers(System) # {} => Chosen(System)[1] = "dir"
  BY <1>1, <1>2, ChosenIs DEF Setting
<1> QED BY <1>1, <1>3 DEF IsDir, Here

\* A positive number below three is one or two.
LEMMA NatTwo ==
  ASSUME NEW n \in Nat, n >= 1, NEW l, l = 3, n < l
  PROVE  n = 1 \/ n = 2
BY SMT

\* Above a node there are directories.
LEMMA Above ==
  ASSUME Setting, NEW p \in Path, Clean(p), Here(p), NEW a \in Path, Under(a, p)
  PROVE  IsDir(a)
<1>0. ~Conflict(a)
  BY CleanOf DEF OnLine
<1>1. CASE p = System
  BY <1>1, NoPathAboveSystem
<1>2. CASE Providers(p) # {}
  <2>1. p \in Placed
    BY HerePlaced DEF Setting
  <2>2. a \in Placed /\ Under(Home(a), Home(p)) /\ Home(a) \in Path /\ Place(Home(a)) = a
    BY <2>1, PlacedUnder DEF Placed, Rooted
  <2>3. PICK i \in Active : Home(p) \in DOMAIN mods[i].files
    BY <1>2 DEF Providers
  <2>4. Home(a) \in DOMAIN mods[i].files /\ mods[i].files[Home(a)][1] = "dir"
    BY <2>2, <2>3, ModuleTree DEF Setting
  <2>5. i \in Providers(a) /\ FileOf(i, a)[1] = "dir"
    BY <2>2, <2>3, <2>4 DEF Providers, FileOf
  <2>6. Chosen(a)[1] = "dir"
    BY <1>0, <2>5, ChosenIs DEF Setting
  <2>7. ~Injected(a)
    BY <1>0, <2>5 DEF Conflict
  <2> QED BY <2>5, <2>6, <2>7 DEF IsDir, Here
<1>3. CASE InBin(p)
  <2>1. OnLine(a, Bin) /\ ~sbin
    BY <1>3, UnderParent DEF InBin
  <2>2. Hosts(a)
    BY <2>1 DEF Hosts
  <2> QED BY <1>0, <2>2, HostIsDir
<1>4. ASSUME p[1] = "system", Len(a) = 1 PROVE IsDir(a)
  <2>1. a[1] = "system"
    <3>1. 1 \in 1..Len(a)
      BY <1>4, SMT
    <3> QED BY <1>4, <3>1, UnderIs
  <2>2. a = System
    BY <1>4, <2>1, RootIsSystem DEF Rooted
  <2> QED BY <1>0, <2>2, SystemIsDir
<1>5. CASE InLib(p)
  <2>1. Len(p) = 3 /\ p[1] = "system" /\ p[2] \in Libs /\ zygisk
    BY <1>5 DEF InLib
  <2>2. Len(a) = 1 \/ Len(a) = 2
    <3>1. Len(a) \in Nat /\ Len(a) >= 1 /\ Len(a) < Len(p)
      BY PathLen, UnderIrr
    <3> QED BY <2>1, <3>1, NatTwo
  <2>3. CASE Len(a) = 2
    <3>1. 1 \in 1..Len(a) /\ 2 \in 1..Len(a)
      BY <2>3, SMT
    <3>2. a[1] = p[1] /\ a[2] = p[2]
      BY <3>1, UnderIs
    <3>3. Hosts(a)
      BY <2>1, <2>3, <3>2 DEF Hosts
    <3> QED BY <1>0, <3>3, HostIsDir
  <2> QED BY <1>4, <2>1, <2>2, <2>3
<1>6. CASE ~sbin /\ OnLine(p, Bin)
  <2>1. OnLine(a, Bin)
    BY <1>6, BinPlaced, UnderTrans DEF OnLine
  <2>2. Hosts(a)
    BY <1>6, <2>1 DEF Hosts
  <2> QED BY <1>0, <2>2, HostIsDir
<1>7. CASE zygisk /\ Len(p) = 2 /\ p[1] = "system" /\ p[2] \in Libs
  <2>1. Len(a) = 1
    <3>1. Len(a) \in Nat /\ Len(a) >= 1 /\ Len(a) < Len(p)
      BY PathLen, UnderIrr
    <3> QED BY <1>7, <3>1, NatOne
  <2> QED BY <1>4, <1>7, <2>1
<1> QED BY <1>1, <1>2, <1>3, <1>5, <1>6, <1>7 DEF Here, Injected, Hosts

-----------------------------------------------------------------------------
(* prepare().                                                              *)

Kept(X) == Without(X, Skipped(X))
Tmpfs(t) == {p \in DOMAIN t : t[p].type = "inter" /\ \E q \in DOMAIN t : NeedsTmpfs(t, q) /\ OnLine(q, p)}
IsPrepared(F, t) ==
  /\ DOMAIN F = DOMAIN t \cup Mirrored(t, Tmpfs(t))
  /\ \A p \in DOMAIN t : /\ F[p].type = IF p \in Tmpfs(t) THEN "tmpfs" ELSE t[p].type
                         /\ F[p].file = t[p].file /\ F[p].from = t[p].from
  /\ \A p \in Mirrored(t, Tmpfs(t)) :
       /\ p \notin DOMAIN t /\ p \in DOMAIN stock
       /\ F[p].type = "tmpfs" /\ F[p].file = stock[p][1] /\ F[p].from = stock[p][2]

\* prepare() changes the type of a node and the mark, nothing else.
LEMMA ExceptFields ==
  ASSUME NEW n, DOMAIN n = {"type", "file", "from", "replace"}, NEW b, NEW re
  PROVE  LET r == [n EXCEPT !.type = IF b THEN "tmpfs" ELSE @, !.replace = re]
         IN  r.type = (IF b THEN "tmpfs" ELSE n.type) /\ r.file = n.file /\ r.from = n.from
BY SMT

\* What prepare() returns.
LEMMA PrepareIs ==
  ASSUME NEW X, \A p \in DOMAIN X : IsNode(X[p])
  PROVE  IsPrepared(Prepare(X), Kept(X))
<1> DEFINE t == Without(X, Skipped(X))
           need == {p \in DOMAIN t : NeedsTmpfs(t, p)}
           tmpfs == {p \in DOMAIN t : t[p].type = "inter" /\ \E q \in need : OnLine(q, p)}
           mirror == [q \in Mirrored(t, tmpfs) |-> Node("tmpfs", stock[q][1], stock[q][2])]
           all == Merge(mirror, t)
           F == [p \in DOMAIN all |->
                   [all[p] EXCEPT !.type = IF p \in tmpfs THEN "tmpfs" ELSE @,
                                  !.replace = Replaced(t, p)]]
<1>a. Kept(X) = t
  BY DEF Kept
<1>0. Prepare(X) = F
  BY SMT DEF Prepare
<1>1. DOMAIN t \subseteq DOMAIN X /\ \A p \in DOMAIN t : t[p] = X[p]
  <2>1. DOMAIN t = DOMAIN X \ Skipped(X) /\ \A p \in DOMAIN X \ Skipped(X) : t[p] = X[p]
    BY WithoutIs
  <2> HIDE DEF t
  <2> QED BY <2>1
<1> HIDE DEF t
<1>2. tmpfs = Tmpfs(t)
  BY DEF Tmpfs
<1> HIDE DEF tmpfs
<1>3. DOMAIN mirror = Mirrored(t, tmpfs)
      /\ \A q \in Mirrored(t, tmpfs) : mirror[q] = Node("tmpfs", stock[q][1], stock[q][2])
  OBVIOUS
<1> HIDE DEF mirror
<1>4. \A q \in Mirrored(t, tmpfs) : q \in DOMAIN stock /\ q \notin DOMAIN t
  BY DEF Mirrored
<1>5. /\ DOMAIN all = DOMAIN mirror \cup DOMAIN t /\ \A q \in DOMAIN t : all[q] = t[q]
      /\ \A q \in DOMAIN mirror : q \notin DOMAIN t => all[q] = mirror[q]
  BY MergeIs
<1> HIDE DEF all
<1>6. DOMAIN F = DOMAIN all /\ \A p \in DOMAIN all :
        F[p] = [all[p] EXCEPT !.type = IF p \in tmpfs THEN "tmpfs" ELSE @, !.replace = Replaced(t, p)]
  OBVIOUS
<1> HIDE DEF F
<1>7. ASSUME NEW p \in DOMAIN t
      PROVE  /\ F[p].type = IF p \in tmpfs THEN "tmpfs" ELSE t[p].type
             /\ F[p].file = t[p].file /\ F[p].from = t[p].from
  <2>1. all[p] = t[p] /\ p \in DOMAIN all /\ DOMAIN t[p] = {"type", "file", "from", "replace"}
    BY <1>1, <1>5 DEF IsNode
  <2> DEFINE n == all[p]
             re == Replaced(t, p)
             b == p \in tmpfs
  <2>2. F[p] = [n EXCEPT !.type = IF b THEN "tmpfs" ELSE @, !.replace = re] /\ n = t[p]
    BY <1>6, <2>1
  <2>3. DOMAIN n = {"type", "file", "from", "replace"}
    BY <2>1
  <2> HIDE DEF n, re, b
  <2> DEFINE e == [n EXCEPT !.type = IF b THEN "tmpfs" ELSE @, !.replace = re]
  <2>4. e.type = (IF b THEN "tmpfs" ELSE n.type) /\ e.file = n.file /\ e.from = n.from
    BY <2>3, ExceptFields
  <2> HIDE DEF e
  <2> QED BY <2>2, <2>4 DEF b, e
<1>8. ASSUME NEW p \in Mirrored(t, tmpfs)
      PROVE  F[p].type = "tmpfs" /\ F[p].file = stock[p][1] /\ F[p].from = stock[p][2]
  <2> DEFINE n == all[p]
             re == Replaced(t, p)
             b == p \in tmpfs
  <2>1. n = Node("tmpfs", stock[p][1], stock[p][2]) /\ p \in DOMAIN all
    BY <1>3, <1>4, <1>5
  <2>2. F[p] = [n EXCEPT !.type = IF b THEN "tmpfs" ELSE @, !.replace = re]
    BY <1>6, <2>1
  <2> HIDE DEF n, re, b
  <2>3. DOMAIN n = {"type", "file", "from", "replace"} /\ n.type = "tmpfs" /\ n.file = stock[p][1] /\ n.from = stock[p][2]
    BY <2>1, SMT DEF Node
  <2>4. F[p].type = (IF b THEN "tmpfs" ELSE n.type) /\ F[p].file = n.file /\ F[p].from = n.from
    BY <2>2, <2>3, ExceptFields
  <2> QED BY <2>3, <2>4
<1>9. IsPrepared(F, t)
  BY <1>2, <1>3, <1>4, <1>5, <1>6, <1>7, <1>8 DEF IsPrepared
<1> QED BY <1>a, <1>0, <1>9

\* The three kinds of node below a root.
LEMMA Kinds ==
  ASSUME Sound, NEW X, Built(X), NEW p \in Path, Clean(p), Len(p) > 1, p \in DOMAIN X
  PROVE  /\ IsDir(p) => X[p].type = "inter" /\ X[p].file = "dir"
         /\ Injected(p) => /\ X[p].type = "custom" /\ X[p].file \in {"reg", "lnk"}
                           /\ X[p].from = IF InLib(p) THEN "zygisk" ELSE "magisk"
                           /\ X[p].file = IF Providers(p) # {} THEN Chosen(p)[1]
                                          ELSE IF Linked(p) THEN "lnk" ELSE "reg"
         /\ ~Injected(p) /\ ~IsDir(p) =>
              /\ Providers(p) # {} /\ Chosen(p)[1] \in {"reg", "lnk", "wht"}
              /\ X[p].type = "module" /\ X[p].file = Chosen(p)[1] /\ X[p].from = Chosen(p)[2]
         /\ Here(p) /\ p # System
<1>1. NodeAs(X[p], p, Injected(p)) /\ Here(p) /\ ~Conflict(p)
  BY CleanOf DEF Built, OnLine
<1>2. p # System
  <2>1. ~(1 > 1)
    BY SMT
  <2> QED BY <2>1, SystemIsPath
<1>3. Providers(p) # {} => /\ Chosen(p)[1] \in {"dir", "reg", "lnk", "wht"}
                           /\ Injected(p) => Chosen(p)[1] \in {"reg", "lnk"}
  BY <1>1, ChosenIs
<1>4. ASSUME ~Injected(p), Providers(p) # {} PROVE Shows(X[p], Chosen(p))
  BY <1>1, <1>2, <1>4 DEF NodeAs
<1>5. ASSUME ~Injected(p), Providers(p) = {} PROVE X[p].type = "inter" /\ X[p].file = "dir"
  BY <1>1, <1>2, <1>5 DEF NodeAs
<1>6. IsDir(p) => X[p].type = "inter" /\ X[p].file = "dir"
  BY <1>4, <1>5 DEF IsDir, Shows
<1>7. ASSUME ~Injected(p), ~IsDir(p)
      PROVE  /\ Providers(p) # {} /\ Chosen(p)[1] \in {"reg", "lnk", "wht"}
             /\ X[p].type = "module" /\ X[p].file = Chosen(p)[1] /\ X[p].from = Chosen(p)[2]
  <2>1. Providers(p) # {} /\ Chosen(p)[1] # "dir"
    BY <1>1, <1>7 DEF IsDir
  <2> QED BY <1>3, <1>4, <1>7, <2>1 DEF Shows
<1>8. ASSUME Injected(p)
      PROVE  /\ X[p].type = "custom" /\ X[p].from = IF InLib(p) THEN "zygisk" ELSE "magisk"
             /\ X[p].file = IF Providers(p) # {} THEN Chosen(p)[1] ELSE IF Linked(p) THEN "lnk" ELSE "reg"
  BY <1>1, <1>8 DEF NodeAs
<1>9. Injected(p) => X[p].file \in {"reg", "lnk"}
  BY <1>3, <1>8
<1> QED BY <1>1, <1>2, <1>6, <1>7, <1>8, <1>9

\* The nodes that stay.
LEMMA KeptIs ==
  ASSUME NEW X
  PROVE  /\ \A p : p \in DOMAIN Kept(X) <=> p \in DOMAIN X /\ p \notin Skipped(X)
         /\ \A p \in DOMAIN Kept(X) : Kept(X)[p] = X[p]
<1> DEFINE t == Without(X, Skipped(X))
<1>1. DOMAIN t = DOMAIN X \ Skipped(X) /\ \A p \in DOMAIN X \ Skipped(X) : t[p] = X[p]
  BY WithoutIs
<1>2. Kept(X) = t
  BY DEF Kept
<1> HIDE DEF t
<1> QED BY <1>1, <1>2

\* A path is refused, and hence no more, where the node cannot be mounted.
LEMMA Unrefused ==
  ASSUME Setting, NEW X, Built(X), NEW q \in Path, Clean(q), Len(q) = 2, q \in DOMAIN X, ~Refused(q)
  PROVE  ~CannotMount(X, q)
<1>0. 2 > 1 /\ 2 # 1
  BY SMT
<1>1. Here(q) /\ q \in Placed
  BY HerePlaced DEF Built, Setting
<1>2. q[1] \in {"system"} \cup Partitions
  BY <1>1 DEF Placed, Rooted, Home, Own
<1>3. At(stock, q)[1] \notin {"none", "lnk"} /\ ~Linked(q)
      /\ ~(Providers(q) # {} /\ Chosen(q)[1] \in {"lnk", "wht"})
  BY <1>2 DEF Refused
<1>4. q \in DOMAIN stock /\ stock[q][1] # "lnk"
  BY <1>3, AtIs
<1>5. X[q].file \notin {"lnk", "wht"}
  <2>1. CASE IsDir(q)
    BY <1>0, <2>1, Kinds DEF Setting
  <2>2. CASE Injected(q)
    <3>1. X[q].file = IF Providers(q) # {} THEN Chosen(q)[1] ELSE IF Linked(q) THEN "lnk" ELSE "reg"
      BY <1>0, <2>2, Kinds DEF Setting
    <3> QED BY <1>3, <3>1
  <2>3. CASE ~Injected(q) /\ ~IsDir(q)
    <3>1. Providers(q) # {} /\ X[q].file = Chosen(q)[1]
      BY <1>0, <2>3, Kinds DEF Setting
    <3> QED BY <1>3, <3>1
  <2> QED BY <2>1, <2>2, <2>3
<1> QED BY <1>4, <1>5 DEF CannotMount

\* Nothing becomes of a refused node: it is skipped, or is a whiteout of nothing,
\* or a link that needs a tmpfs.
LEMMA RefusedIs ==
  ASSUME Setting, NEW X, Built(X), NEW q \in Path, Clean(q), Len(q) = 2, q \in DOMAIN X, Refused(q)
  PROVE  \/ CannotMount(X, q)
         \/ q \notin DOMAIN stock /\ X[q].type = "module" /\ X[q].file = "wht" /\ ~IsDir(q)
         \/ Linked(q) /\ q \in DOMAIN stock /\ stock[q][1] = "reg"
<1>0. 2 > 1 /\ 2 # 1
  BY SMT
<1>1. Here(q) /\ ~Conflict(q) /\ Sound
  BY CleanOf DEF Built, Setting, OnLine
<1>2. At(stock, q)[1] \in {"none", "lnk"} \/ Linked(q) \/ (Providers(q) # {} /\ Chosen(q)[1] \in {"lnk", "wht"})
  BY <1>0 DEF Refused
<1>3. CASE q \notin DOMAIN stock
  <2>1. CASE X[q].file # "wht"
    BY <1>3, <2>1 DEF CannotMount
  <2>2. CASE X[q].file = "wht"
    <3>1. ~Injected(q)
      BY <1>0, <1>1, <2>2, Kinds
    <3>2. ~IsDir(q)
      BY <1>0, <1>1, <2>2, Kinds
    <3>3. X[q].type = "module"
      BY <1>0, <1>1, <3>1, <3>2, Kinds
    <3> QED BY <1>3, <2>2, <3>2, <3>3
  <2> QED BY <2>1, <2>2
<1>4. CASE q \in DOMAIN stock /\ stock[q][1] = "lnk"
  BY <1>4 DEF CannotMount
<1>5. CASE q \in DOMAIN stock /\ stock[q][1] # "lnk"
  <2>1. At(stock, q) = stock[q] /\ stock[q][1] \in {"dir", "reg"}
    <3>1. stock[q][1] \in {"dir", "reg", "lnk"}
      BY <1>1, <1>5, StockIs
    <3> QED BY <1>5, <3>1 DEF At
  <2>2. CASE Linked(q)
    <3>1. Injected(q)
      BY <2>2 DEF Linked, Injected
    <3>2. stock[q][1] = "reg"
      BY <1>1, <2>1, <3>1 DEF Conflict
    <3> QED BY <1>5, <2>2, <3>2
  <2>3. CASE ~Linked(q)
    <3>1. Providers(q) # {} /\ Chosen(q)[1] \in {"lnk", "wht"}
      BY <1>2, <2>1, <2>3
    <3>2. ~IsDir(q)
      BY <3>1 DEF IsDir
    <3>3. X[q].file = Chosen(q)[1]
      BY <1>0, <1>1, <3>1, <3>2, Kinds
    <3> QED BY <1>5, <3>1, <3>3 DEF CannotMount
  <2> QED BY <2>2, <2>3
<1> QED BY <1>3, <1>4, <1>5

\* The children of a root have two names.
LEMMA LenTwo ==
  ASSUME NEW q \in Path, Len(q) > 1
  PROVE  Len(Parent(q)) = 1 <=> Len(q) = 2
<1>1. Len(Parent(q)) = Len(q) - 1 /\ Len(q) \in Nat
  BY ParentUnder, PathLen
<1> QED BY <1>1, SMT

\* With a child of a root that cannot be mounted everything under it is left out.
LEMMA TopSkipped ==
  ASSUME Setting, NEW X, Built(X), NEW q \in Path, Clean(q), Len(q) = 2, q \in DOMAIN X, CannotMount(X, q),
         NEW b \in DOMAIN X, OnLine(q, b)
  PROVE  b \in Skipped(X)
<1>1. Len(q) > 1
  BY SMT
<1>2. Parent(q) \in Path /\ Under(Parent(q), q) /\ Len(Parent(q)) = 1
  BY <1>1, ParentUnder, LenTwo
<1>3. Here(q)
  BY DEF Built
<1>4. Clean(Parent(q)) /\ Here(Parent(q))
  BY <1>2, <1>3, Above, CleanOf DEF OnLine, IsDir
<1>5. X[Parent(q)].type = "root"
  BY <1>2, <1>4 DEF Built
<1> QED BY <1>1, <1>5 DEF Skipped

\* Without a refused path above it a node stays in the tree.
Free(p) == \A q \in Path : OnLine(q, p) => ~Refused(q)
\* A node is left out only where a rule refuses it.
LEMMA NotSkipped ==
  ASSUME Setting, NEW X, Built(X), NEW p \in Path, Clean(p), p \in DOMAIN X, Free(p)
  PROVE  p \notin Skipped(X)
<1> SUFFICES ASSUME p \in Skipped(X) PROVE FALSE
  OBVIOUS
<1>1. PICK q \in DOMAIN X : /\ OnLine(q, p) /\ Len(q) > 1 /\ X[Parent(q)].type = "root"
                            /\ CannotMount(X, q)
  BY DEF Skipped
<1>2. q \in Path /\ Clean(q) /\ ~Refused(q)
  BY <1>1, CleanOf DEF Built, Free
<1>3. Here(q) /\ Sound
  BY <1>2 DEF Built, Setting
<1>4. Parent(q) \in Path /\ Under(Parent(q), q)
  BY <1>1, <1>2, ParentUnder
<1>5. IsDir(Parent(q)) /\ Clean(Parent(q))
  BY <1>2, <1>3, <1>4, Above, CleanOf DEF OnLine
<1>6. Parent(q) \in DOMAIN X
  BY <1>4, <1>5 DEF Built, IsDir
<1>7. ~(Len(Parent(q)) > 1)
  BY <1>1, <1>3, <1>4, <1>5, <1>6, Kinds
<1>8. Len(q) = 2
  BY <1>1, <1>2, <1>4, <1>7, LenSplit, LenTwo
<1> QED BY <1>1, <1>2, <1>8, Unrefused

-----------------------------------------------------------------------------
(* What a path shows in the end, and the children of the roots.            *)

Stage(X, t, F) == Setting /\ Built(X) /\ t = Kept(X) /\ IsPrepared(F, t)

\* What the file system shows at a path in the end.
Seen(F, p) == IF p \in DOMAIN F \cup DOMAIN stock THEN Visible(F, p) ELSE None

\* Being on a line is transitive.
LEMMA LineTrans ==
  ASSUME NEW a \in Path, NEW b \in Path, NEW c \in Path, OnLine(a, b), OnLine(b, c)
  PROVE  OnLine(a, c)
BY UnderTrans DEF OnLine

\* Two paths of a line are on the line of one another.
LEMMA LineLinear ==
  ASSUME NEW a \in Path, NEW b \in Path, NEW p \in Path, OnLine(a, p), OnLine(b, p)
  PROVE  OnLine(a, b) \/ Under(b, a)
BY UnderLinear DEF OnLine

\* The shorter of two paths of a line is on the line of the other.
LEMMA LineLen ==
  ASSUME NEW a \in Path, NEW b \in Path, NEW p \in Path, OnLine(a, p), OnLine(b, p), Len(a) <= Len(b)
  PROVE  OnLine(a, b)
<1>1. ASSUME Under(b, a) PROVE FALSE
  <2>1. Len(b) < Len(a) /\ Len(a) \in Nat /\ Len(b) \in Nat
    BY <1>1, UnderIrr, PathLen
  <2> QED BY <2>1, SMT
<1> QED BY <1>1, LineLinear

\* What a stage consists of.
LEMMA StageSound ==
  ASSUME NEW X, NEW t, NEW F, Stage(X, t, F)
  PROVE  Sound /\ Setting /\ Built(X) /\ t = Kept(X) /\ IsPrepared(F, t)
BY DEF Stage, Setting

\* A node that stays, and an entry of the real directory that a tmpfs shows again.
TreeNode(X, t, F, p) ==
  /\ p \in Path /\ p \in DOMAIN X /\ p \in DOMAIN F /\ t[p] = X[p] /\ IsNode(t[p]) /\ p \notin Skipped(X)
  /\ Len(p) = 1 => t[p].type = "root" /\ F[p].type = "root"
  /\ p \notin Tmpfs(t) => F[p].type = t[p].type
  /\ p \in Tmpfs(t) => F[p].type = "tmpfs" /\ t[p].type = "inter"
  /\ F[p].type = "tmpfs" => p \in Tmpfs(t)
  /\ F[p].file = t[p].file /\ F[p].from = t[p].from

MirrorNode(t, F, p) ==
  /\ p \in DOMAIN F /\ p \notin DOMAIN t /\ p \in DOMAIN stock /\ p \in Path
  /\ F[p].type = "tmpfs" /\ F[p].file = stock[p][1]
  /\ \E d \in Tmpfs(t) : d \in DOMAIN t /\ d \in Path /\ Under(d, p) /\ ~Replaced(t, d)
                          /\ \A a \in DOMAIN t : Under(d, a) => ~Under(a, p)

\* A path of the tree has a node that stays.
LEMMA InTree ==
  ASSUME NEW X, NEW t, NEW F, Stage(X, t, F), NEW p \in DOMAIN t
  PROVE  TreeNode(X, t, F, p)
<1>1. Built(X) /\ t = Kept(X) /\ IsPrepared(F, t)
  BY StageSound
<1>2. p \in Path /\ p \in DOMAIN X /\ t[p] = X[p] /\ IsNode(t[p]) /\ p \notin Skipped(X)
  BY <1>1, KeptIs DEF Built
<1>3. /\ F[p].type = IF p \in Tmpfs(t) THEN "tmpfs" ELSE t[p].type
      /\ F[p].file = t[p].file /\ F[p].from = t[p].from /\ p \in DOMAIN F
  BY <1>1 DEF IsPrepared
<1>4. p \in Tmpfs(t) => t[p].type = "inter"
  BY DEF Tmpfs
<1>5. t[p].type # "tmpfs"
  BY <1>2 DEF IsNode
<1>6. p \in Tmpfs(t) => F[p].type = "tmpfs"
  BY <1>3
<1>7. p \notin Tmpfs(t) => F[p].type = t[p].type
  BY <1>3
<1>8. Len(p) = 1 => t[p].type = "root"
  BY <1>1, <1>2 DEF Built
<1>9. Len(p) = 1 => F[p].type = "root"
  BY <1>4, <1>7, <1>8
<1>10. F[p].type = "tmpfs" => p \in Tmpfs(t)
  BY <1>5, <1>7
<1>11. F[p].file = t[p].file /\ F[p].from = t[p].from /\ p \in DOMAIN F
  BY <1>3
<1> QED BY <1>2, <1>4, <1>6, <1>7, <1>8, <1>9, <1>10, <1>11 DEF TreeNode

\* A mirrored path has a node for the real entry.
LEMMA InMirror ==
  ASSUME NEW X, NEW t, NEW F, Stage(X, t, F), NEW p \in Mirrored(t, Tmpfs(t))
  PROVE  MirrorNode(t, F, p)
<1>1. Sound /\ IsPrepared(F, t)
  BY StageSound
<1>2. p \in DOMAIN F /\ p \notin DOMAIN t /\ p \in DOMAIN stock /\ F[p].type = "tmpfs" /\ F[p].file = stock[p][1]
  BY <1>1 DEF IsPrepared
<1>3. p \in Path
  BY <1>1, <1>2, StockIs
<1>4. PICK d \in Tmpfs(t) : Under(d, p) /\ ~Replaced(t, d) /\ \A a \in DOMAIN t : Under(d, a) => ~Under(a, p)
  BY DEF Mirrored
<1>5. d \in DOMAIN t
  BY DEF Tmpfs
<1>6. TreeNode(X, t, F, d)
  BY <1>5, InTree
<1>7. d \in Path
  BY <1>6 DEF TreeNode
<1> QED BY <1>2, <1>3, <1>4, <1>5, <1>7 DEF MirrorNode

\* Every node of the end is of the tree or mirrored.
LEMMA InEnd ==
  ASSUME NEW X, NEW t, NEW F, Stage(X, t, F), NEW p \in DOMAIN F
  PROVE  p \in DOMAIN t \/ p \in Mirrored(t, Tmpfs(t))
BY StageSound DEF IsPrepared

\* Where only roots are, the real file system shows.
LEMMA NoNodes ==
  ASSUME NEW X, NEW t, NEW F, Stage(X, t, F), NEW p \in Path,
         \A b \in DOMAIN t : OnLine(b, p) => Len(b) = 1
  PROVE  Seen(F, p) = At(stock, p)
<1>1. ASSUME NEW b \in DOMAIN F, OnLine(b, p) PROVE F[b].type = "root"
  <2>1. CASE b \in DOMAIN t
    <3>1. TreeNode(X, t, F, b) /\ Len(b) = 1
      BY <1>1, <2>1, InTree
    <3> QED BY <3>1 DEF TreeNode
  <2>2. CASE b \in Mirrored(t, Tmpfs(t))
    <3>1. MirrorNode(t, F, b)
      BY <2>2, InMirror
    <3>2. PICK d \in Tmpfs(t) : d \in DOMAIN t /\ d \in Path /\ Under(d, b)
      BY <3>1 DEF MirrorNode
    <3>3. OnLine(d, p)
      BY <1>1, <3>1, <3>2, LineTrans DEF OnLine, MirrorNode
    <3>4. TreeNode(X, t, F, d) /\ Len(d) = 1
      BY <3>2, <3>3, InTree
    <3>5. t[d].type = "root" /\ t[d].type = "inter"
      BY <3>2, <3>4 DEF TreeNode
    <3> QED BY <3>5
  <2> QED BY <2>1, <2>2, InEnd
<1>2. ASSUME NEW b \in DOMAIN F, Under(b, p) PROVE F[b].type = "root"
  BY <1>1, <1>2 DEF OnLine
<1>3. p \in DOMAIN F => F[p].type = "root"
  BY <1>1 DEF OnLine
<1>4. p \in DOMAIN F => Shown(F, p) = At(stock, p)
  BY <1>3 DEF Shown
<1>5. Visible(F, p) = At(stock, p)
  BY <1>2, <1>4 DEF Visible
<1>6. p \notin DOMAIN F \cup DOMAIN stock => At(stock, p) = None
  BY DEF At
<1> QED BY <1>5, <1>6 DEF Seen

\* Nothing can be seen where neither the tree nor the real file system has a file.
LEMMA NothingThere ==
  ASSUME NEW X, NEW t, NEW F, Stage(X, t, F), NEW p \in Path, Clean(p),
         p \notin DOMAIN stock, ~Here(p)
  PROVE  Seen(F, p) = None /\ At(stock, p) = None
<1>1. p \notin DOMAIN X
  BY StageSound DEF Built
<1>2. p \notin DOMAIN t
  BY <1>1, InTree DEF TreeNode
<1>3. p \notin Mirrored(t, Tmpfs(t))
  BY InMirror DEF MirrorNode
<1>4. p \notin DOMAIN F
  BY <1>2, <1>3, InEnd
<1> QED BY <1>4 DEF Seen, At

\* A number that is at most one.
LEMMA NatAtMost ==
  ASSUME NEW n \in Nat, NEW l, l = 1, n = l \/ n < l
  PROVE  ~(n > 1)
BY SMT

\* A node with one name is a root to the end.
LEMMA RootsEnd ==
  ASSUME NEW X, NEW t, NEW F, Stage(X, t, F), NEW b \in DOMAIN F, Len(b) = 1
  PROVE  F[b].type = "root" /\ b \in DOMAIN t
<1>1. b \in DOMAIN t \/ b \in Mirrored(t, Tmpfs(t))
  BY InEnd
<1>2. CASE b \in DOMAIN t
  <2>1. TreeNode(X, t, F, b)
    BY <1>2, InTree
  <2> QED BY <1>2, <2>1 DEF TreeNode
<1>3. CASE b \in Mirrored(t, Tmpfs(t))
  <2>1. MirrorNode(t, F, b)
    BY <1>3, InMirror
  <2>2. PICK d : d \in Path /\ Under(d, b) /\ b \in Path
    BY <2>1 DEF MirrorNode
  <2>3. Len(d) < Len(b) /\ Len(d) \in Nat /\ Len(d) >= 1
    BY <2>2, UnderIrr, PathLen
  <2>4. FALSE
    BY <2>3, SMT
  <2> QED BY <2>4
<1> QED BY <1>1, <1>2, <1>3

\* At and under a path that is refused the real file system shows as before.
LEMMA Refusal ==
  ASSUME NEW X, NEW t, NEW F, Stage(X, t, F), NEW p \in Path, Clean(p),
         NEW q \in Path, OnLine(q, p), Refused(q)
  PROVE  Seen(F, p) = At(stock, p)
<1>0. Sound /\ Setting /\ Built(X) /\ t = Kept(X)
  BY StageSound
<1>1. Clean(q) /\ ~Conflict(q)
  BY CleanOf
<1>2. ASSUME NEW b \in DOMAIN t, OnLine(b, p)
      PROVE  b \in Path /\ b \in DOMAIN X /\ b \notin Skipped(X) /\ Clean(b) /\ Here(b)
  <2>1. TreeNode(X, t, F, b)
    BY InTree
  <2>2. b \in Path /\ b \in DOMAIN X /\ b \notin Skipped(X)
    BY <2>1 DEF TreeNode
  <2>3. Clean(b)
    BY <1>2, <2>2, CleanOf
  <2> QED BY <1>0, <2>2, <2>3 DEF Built
<1>3. CASE Len(q) = 1 /\ WhitedOut(q)
  <2>1. ~IsDir(q)
    <3>1. Providers(q) # {} /\ Chosen(q)[1] = "wht"
      BY <1>3 DEF WhitedOut
    <3> QED BY <3>1 DEF IsDir
  <2>2. ASSUME NEW b \in DOMAIN t, OnLine(b, p) PROVE Len(b) = 1
    <3>1. b \in Path /\ Clean(b) /\ Here(b)
      BY <1>2, <2>2
    <3>2. Len(q) <= Len(b)
      BY <1>3, <3>1, PathLen, SMT
    <3>3. OnLine(q, b)
      BY <2>2, <3>1, <3>2, LineLen
    <3>4. ~Under(q, b)
      BY <1>0, <2>1, <3>1, Above
    <3> QED BY <1>3, <3>3, <3>4 DEF OnLine
  <2> QED BY <2>2, NoNodes
<1>4. CASE Len(q) = 2
  <2>0. Len(q) > 1 /\ 2 # 1
    BY <1>4, SMT
  <2>1. ASSUME NEW b \in DOMAIN t, OnLine(b, p), Len(b) # 1 PROVE OnLine(q, b)
    <3>1. b \in Path
      BY <1>2, <2>1
    <3>2. Len(b) \in Nat /\ Len(b) >= 1
      BY <3>1, PathLen
    <3>3. Len(q) <= Len(b)
      BY <1>4, <2>1, <3>2, SMT
    <3> QED BY <2>1, <3>1, <3>3, LineLen
  <2>2. CASE q \notin DOMAIN X
    <3>1. ASSUME NEW b \in DOMAIN t, OnLine(b, p) PROVE Len(b) = 1
      <4> SUFFICES ASSUME Len(b) # 1 PROVE FALSE
        OBVIOUS
      <4>1. OnLine(q, b) /\ b \in Path /\ Clean(b) /\ Here(b) /\ b \in DOMAIN X
        BY <1>2, <2>1, <3>1
      <4>2. Under(q, b)
        BY <2>2, <4>1 DEF OnLine
      <4>3. Here(q)
        BY <1>0, <4>1, <4>2, Above DEF IsDir
      <4> QED BY <1>0, <1>1, <2>2, <4>3 DEF Built
    <3> QED BY <3>1, NoNodes
  <2>3. CASE q \in DOMAIN X /\ CannotMount(X, q)
    <3>1. ASSUME NEW b \in DOMAIN t, OnLine(b, p) PROVE Len(b) = 1
      <4> SUFFICES ASSUME Len(b) # 1 PROVE FALSE
        OBVIOUS
      <4>1. OnLine(q, b) /\ b \in DOMAIN X /\ b \notin Skipped(X)
        BY <1>2, <2>1, <3>1
      <4> QED BY <1>0, <1>1, <1>4, <2>3, <4>1, TopSkipped
    <3> QED BY <3>1, NoNodes
  <2>4. ASSUME q \in DOMAIN X, ~IsDir(q), Under(q, p), p \notin DOMAIN stock
        PROVE  Seen(F, p) = At(stock, p)
    <3>1. ~Here(p)
      BY <1>0, <2>4, Above
    <3> QED BY <2>4, <3>1, NothingThere
  <2>5. ASSUME q \in DOMAIN X, q \notin DOMAIN stock, X[q].type = "module", X[q].file = "wht", ~IsDir(q)
        PROVE  Seen(F, p) = At(stock, p)
    <3>1. CASE Under(q, p)
      <4>1. p \notin DOMAIN stock
        BY <1>0, <2>5, <3>1, StockIs
      <4> QED BY <2>4, <2>5, <3>1, <4>1
    <3>2. CASE p = q
      <4>1. At(stock, p) = None
        BY <2>5, <3>2 DEF At
      <4>2. CASE p \in DOMAIN F
        <5>1. p \notin Mirrored(t, Tmpfs(t))
          BY <2>5, <3>2, InMirror DEF MirrorNode
        <5>2. p \in DOMAIN t
          BY <4>2, <5>1, InEnd
        <5>3. TreeNode(X, t, F, p)
          BY <5>2, InTree
        <5>4. t[p].type = "module" /\ t[p].file = "wht"
          BY <2>5, <3>2, <5>3 DEF TreeNode
        <5>5. F[p].type = "module" /\ F[p].file = "wht"
          BY <5>3, <5>4 DEF TreeNode
        <5>6. Shown(F, p) = None
          BY <4>1, <5>5 DEF Shown
        <5>7. Visible(F, p) = None
          BY <4>2, <5>6 DEF Visible
        <5> QED BY <4>1, <5>7 DEF Seen
      <4>3. CASE p \notin DOMAIN F
        BY <2>5, <3>2, <4>1, <4>3 DEF Seen
      <4> QED BY <4>2, <4>3
    <3> QED BY <3>1, <3>2 DEF OnLine
  <2>6. ASSUME q \in DOMAIN X, Linked(q), q \in DOMAIN stock, stock[q][1] = "reg"
        PROVE  Seen(F, p) = At(stock, p)
    <3>0. Injected(q) /\ InBin(q) /\ Name(q) \in Applets
      BY <2>6 DEF Linked, Injected
    <3>1. CASE Under(q, p)
      <4>1. p \notin DOMAIN stock
        BY <1>0, <2>6, <3>1, StockIs
      <4>2. ~IsDir(q)
        BY <3>0 DEF IsDir
      <4> QED BY <2>4, <2>6, <3>1, <4>1, <4>2
    <3>2. CASE p = q
      <4>1. ASSUME NEW b \in DOMAIN F, Under(b, p) PROVE F[b].type = "root" /\ Len(b) = 1
        <5>1. b \in Path
          <6>1. CASE b \in DOMAIN t
            <7>1. TreeNode(X, t, F, b)
              BY <6>1, InTree
            <7> QED BY <7>1 DEF TreeNode
          <6>2. CASE b \in Mirrored(t, Tmpfs(t))
            <7>1. MirrorNode(t, F, b)
              BY <6>2, InMirror
            <7> QED BY <7>1 DEF MirrorNode
          <6> QED BY <6>1, <6>2, InEnd
        <5>2. Len(b) \in Nat /\ Len(b) >= 1 /\ Len(b) < Len(q)
          BY <3>2, <4>1, <5>1, PathLen, UnderIrr
        <5>3. Len(b) = 1
          BY <1>4, <5>2, NatOne
        <5> QED BY <5>3, RootsEnd
      <4>2. ASSUME p \in DOMAIN F PROVE Shown(F, p) = At(stock, p)
        <5>0. Here(q)
          BY <1>0, <1>1, <2>6 DEF Built
        <5>1. Parent(q) \in Path /\ Under(Parent(q), q) /\ Len(Parent(q)) = 1
          BY <1>4, <2>0, ParentUnder, LenTwo
        <5>2. X[q].type = "custom" /\ X[q].from = "magisk"
          <6>1. ~InLib(q)
            BY <3>0, BinNotLib
          <6> QED BY <1>0, <1>1, <2>0, <2>6, <3>0, <6>1, Kinds
        <5>3. CASE p \in DOMAIN t
          <6>1. TreeNode(X, t, F, p)
            BY <5>3, InTree
          <6>2. t[p].type = "custom" /\ t[p].from = "magisk"
            BY <3>2, <5>2, <6>1 DEF TreeNode
          <6>3. F[p].type = "custom" /\ F[p].from = "magisk"
            BY <6>1, <6>2 DEF TreeNode
          <6>4. Parent(q) \in DOMAIN F
            <7>1. Here(Parent(q)) /\ Clean(Parent(q))
              BY <1>0, <1>1, <5>0, <5>1, Above, CleanOf DEF IsDir, OnLine
            <7>2. Parent(q) \in DOMAIN X
              BY <1>0, <5>1, <7>1 DEF Built
            <7>3. Parent(q) \notin Skipped(X)
              <8> SUFFICES ASSUME Parent(q) \in Skipped(X) PROVE FALSE
                OBVIOUS
              <8>1. PICK a \in DOMAIN X : OnLine(a, Parent(q)) /\ Len(a) > 1
                BY DEF Skipped
              <8>2. a \in Path
                BY <1>0, <8>1 DEF Built
              <8>3. Len(a) \in Nat
                BY <8>2, PathLen
              <8>4. Under(a, Parent(q)) => Len(a) < Len(Parent(q))
                BY <5>1, <8>2, UnderIrr
              <8>5. Len(a) = Len(Parent(q)) \/ Len(a) < Len(Parent(q))
                BY <8>1, <8>4 DEF OnLine
              <8> QED BY <5>1, <8>1, <8>3, <8>5, NatAtMost
            <7>4. Parent(q) \in DOMAIN t
              BY <1>0, <7>2, <7>3, KeptIs
            <7>5. TreeNode(X, t, F, Parent(q))
              BY <7>4, InTree
            <7> QED BY <7>5 DEF TreeNode
          <6>5. F[Parent(q)].type = "root"
            BY <5>1, <6>4, RootsEnd
          <6>6. ~InTmpfs(F, p)
            BY <3>2, <6>5 DEF InTmpfs
          <6> QED BY <3>0, <3>2, <6>3, <6>6 DEF Shown
        <5>4. CASE p \in Mirrored(t, Tmpfs(t))
          <6>1. MirrorNode(t, F, p)
            BY <5>4, InMirror
          <6>2. PICK d \in Tmpfs(t) : d \in DOMAIN t /\ Under(d, p)
            BY <6>1 DEF MirrorNode
          <6>3. TreeNode(X, t, F, d)
            BY <6>2, InTree
          <6>4. F[d].type = "root"
            BY <4>1, <6>2, <6>3 DEF TreeNode
          <6>5. F[d].type = "tmpfs"
            BY <6>2, <6>3 DEF TreeNode
          <6> QED BY <6>4, <6>5
        <5> QED BY <4>2, <5>3, <5>4, InEnd
      <4>3. Visible(F, p) = At(stock, p)
        BY <4>1, <4>2 DEF Visible
      <4> QED BY <2>6, <3>2, <4>3 DEF Seen
    <3> QED BY <3>1, <3>2 DEF OnLine
  <2>7. CASE q \in DOMAIN X
    BY <1>0, <1>1, <1>4, <2>3, <2>5, <2>6, <2>7, RefusedIs
  <2> QED BY <2>2, <2>7
<1> QED BY <1>3, <1>4 DEF Refused

-----------------------------------------------------------------------------
(* Where nothing is refused every path shows what the overlay says.        *)

\* A path about which the code promises something.
Plain(p) == Clean(p) /\ Free(p)

\* A path on the line of a plain one is plain.
LEMMA PlainOf ==
  ASSUME NEW p \in Path, Plain(p), NEW r \in Path, OnLine(r, p)
  PROVE  Plain(r)
BY CleanOf, LineTrans DEF Plain, Free

\* The nodes that stay at plain paths are those the rules name.
LEMMA There ==
  ASSUME NEW X, NEW t, NEW F, Stage(X, t, F), NEW p \in Path, Plain(p)
  PROVE  p \in DOMAIN t <=> Here(p)
<1>1. Setting /\ Built(X) /\ t = Kept(X) /\ Clean(p) /\ Free(p)
  BY StageSound DEF Plain
<1>2. p \in DOMAIN X <=> Here(p)
  BY <1>1 DEF Built
<1>3. p \in DOMAIN X => p \notin Skipped(X)
  BY <1>1, NotSkipped
<1> QED BY <1>1, <1>2, <1>3, KeptIs

\* The parent of a plain node is a directory of the tree.
LEMMA ParentIn ==
  ASSUME NEW X, NEW t, NEW F, Stage(X, t, F), NEW p \in Path, Plain(p), p \in DOMAIN t, Len(p) > 1
  PROVE  /\ Parent(p) \in Path /\ Under(Parent(p), p) /\ Plain(Parent(p)) /\ IsDir(Parent(p))
         /\ Parent(p) \in DOMAIN t
<1>1. Parent(p) \in Path /\ Under(Parent(p), p)
  BY ParentUnder
<1>2. Plain(Parent(p)) /\ Clean(p)
  BY <1>1, PlainOf DEF OnLine, Plain
<1>3. Here(p) /\ Setting
  BY There, StageSound
<1>4. IsDir(Parent(p))
  BY <1>1, <1>2, <1>3, Above
<1> QED BY <1>1, <1>2, <1>4, There DEF IsDir

\* Below the roots, a directory becomes a tmpfs if something in it cannot be mounted.
LEMMA NeedsParent ==
  ASSUME NEW X, NEW t, NEW F, Stage(X, t, F), NEW p \in Path, Plain(p), p \in DOMAIN t, Len(p) > 1,
         CannotMount(t, p)
  PROVE  InTmpfs(F, p)
<1>1. Sound /\ Setting /\ Built(X) /\ Clean(p) /\ Free(p)
  BY StageSound DEF Plain
<1>2. TreeNode(X, t, F, p)
  BY InTree
<1>3. t[p] = X[p] /\ p \in DOMAIN X
  BY <1>2 DEF TreeNode
<1>4. CannotMount(X, p)
  BY <1>3 DEF CannotMount
<1>5. Len(p) # 2
  BY <1>1, <1>3, <1>4, Unrefused DEF Free, OnLine
<1> DEFINE a == Parent(p)
<1>6. a \in Path /\ Plain(a) /\ IsDir(a) /\ a \in DOMAIN t
  BY ParentIn
<1>7. Len(a) > 1
  BY <1>5, <1>6, LenTwo, LenSplit
<1>8. TreeNode(X, t, F, a)
  BY <1>6, InTree
<1> HIDE DEF a
<1>9. a \in DOMAIN X /\ t[a] = X[a]
  BY <1>8 DEF TreeNode
<1>10. t[a].type = "inter"
  BY <1>1, <1>6, <1>7, <1>9, Kinds DEF Plain
<1>11. p \in Children(t, a)
  BY DEF Children, a
<1>12. NeedsTmpfs(t, a)
  BY <1>10, <1>11 DEF NeedsTmpfs
<1>13. a \in Tmpfs(t)
  BY <1>6, <1>10, <1>12 DEF Tmpfs, OnLine
<1>14. F[a].type = "tmpfs"
  BY <1>8, <1>13 DEF TreeNode
<1> QED BY <1>14 DEF InTmpfs, a

\* A directory under a tmpfs is a tmpfs.
LEMMA InheritTmpfs ==
  ASSUME NEW X, NEW t, NEW F, Stage(X, t, F), NEW p \in Path, p \in DOMAIN t, t[p].type = "inter",
         NEW a \in Path, OnLine(a, p), a \in Tmpfs(t)
  PROVE  p \in Tmpfs(t)
<1>1. PICK q \in DOMAIN t : NeedsTmpfs(t, q) /\ OnLine(q, a)
  BY DEF Tmpfs
<1>2. TreeNode(X, t, F, q)
  BY <1>1, InTree
<1>3. q \in Path
  BY <1>2 DEF TreeNode
<1>4. OnLine(q, p)
  BY <1>1, <1>3, LineTrans
<1> QED BY <1>1, <1>4 DEF Tmpfs

\* A directory in a tmpfs is a tmpfs.
LEMMA InTmpfsIs ==
  ASSUME NEW X, NEW t, NEW F, Stage(X, t, F), NEW p \in Path, Plain(p), p \in DOMAIN t, t[p].type = "inter",
         InTmpfs(F, p)
  PROVE  p \in Tmpfs(t)
<1>1. Len(p) > 1 /\ F[Parent(p)].type = "tmpfs"
  BY DEF InTmpfs
<1>2. Parent(p) \in Path /\ Under(Parent(p), p) /\ Parent(p) \in DOMAIN t
  BY <1>1, ParentIn
<1>3. TreeNode(X, t, F, Parent(p))
  BY <1>2, InTree
<1>4. Parent(p) \in Tmpfs(t)
  BY <1>1, <1>3 DEF TreeNode
<1> QED BY <1>2, <1>4, InheritTmpfs DEF OnLine

\* A directory that is not made in a tmpfs is a real one.
LEMMA DirIsReal ==
  ASSUME NEW X, NEW t, NEW F, Stage(X, t, F), NEW p \in Path, Plain(p), p \in DOMAIN t, Len(p) > 1,
         IsDir(p), ~InTmpfs(F, p)
  PROVE  p \in DOMAIN stock /\ stock[p][1] = "dir"
<1>1. Sound /\ Setting /\ Built(X) /\ Clean(p) /\ ~Conflict(p)
  BY StageSound, CleanOf DEF Plain, OnLine
<1>2. TreeNode(X, t, F, p)
  BY InTree
<1>3. t[p] = X[p] /\ p \in DOMAIN X
  BY <1>2 DEF TreeNode
<1>4. t[p].file = "dir" /\ p # System
  BY <1>1, <1>3, Kinds
<1>5. ~CannotMount(t, p)
  BY NeedsParent
<1>6. p \in DOMAIN stock /\ stock[p][1] # "lnk"
  BY <1>4, <1>5 DEF CannotMount
<1>7. stock[p][1] \in {"dir", "reg", "lnk"}
  BY <1>1, <1>6, StockIs
<1>8. CASE Providers(p) # {}
  BY <1>1, <1>6, <1>8, ChosenIs DEF IsDir
<1>9. CASE Providers(p) = {}
  <2>1. Hosts(p)
    BY <1>4, <1>9 DEF IsDir, Here
  <2>2. At(stock, p)[1] \notin {"reg", "lnk"}
    BY <1>1, <2>1 DEF Conflict
  <2> QED BY <1>6, <1>7, <2>2 DEF At
<1> QED BY <1>8, <1>9

\* A bind mount between two directories or two files shows the source.
LEMMA BindIs ==
  ASSUME NEW src, NEW dest, dest[1] # "none", src[1] = "dir" <=> dest[1] = "dir"
  PROVE  Bind(src, dest) = src
<1>1. dest # None
  BY AtIs
<1>2. (src[1] = "dir") = (dest[1] = "dir")
  OBVIOUS
<1> QED BY <1>1, <1>2 DEF Bind

\* The first parts of two files.
LEMMA Pairs ==
  /\ <<"dir", "">>[1] = "dir" /\ <<"reg", "">>[1] = "reg"
BY SMT

\* The root of a partition is a real directory.
LEMMA RootIsReal ==
  ASSUME Sound, NEW p \in Placed, Len(p) = 1
  PROVE  At(stock, p)[1] = "dir"
<1>1. CASE Own(p[1])
  <2>1. p \in Seq(Word)
    BY DEF Placed, Path
  <2>2. p = <<p[1]>>
    BY <2>1, SMT
  <2> QED BY <1>1, <2>2 DEF Own
<1>2. CASE ~Own(p[1])
  <2>1. p = System
    BY <1>2, RootIsSystem DEF Placed, Home
  <2> QED BY <2>1, StockIs
<1> QED BY <1>1, <1>2

\* A directory of the tree is shown as a directory.
LEMMA ShowsDir ==
  ASSUME NEW X, NEW t, NEW F, Stage(X, t, F), NEW p \in Path, Plain(p), p \in DOMAIN t, IsDir(p)
  PROVE  F[p].type \in {"inter", "root", "tmpfs"} /\ Shown(F, p)[1] = "dir"
<1>1. Sound /\ Setting /\ Built(X) /\ Clean(p)
  BY StageSound DEF Plain
<1>2. TreeNode(X, t, F, p)
  BY InTree
<1>3. CASE Len(p) = 1
  <2>1. F[p].type = "root"
    BY <1>2, <1>3 DEF TreeNode
  <2>2. Shown(F, p) = At(stock, p)
    BY <2>1 DEF Shown
  <2>3. p \in Placed
    BY <1>1, HerePlaced DEF Setting, IsDir
  <2> QED BY <1>1, <1>3, <2>1, <2>2, <2>3, RootIsReal
<1>4. CASE Len(p) > 1
  <2>1. t[p] = X[p] /\ p \in DOMAIN X
    BY <1>2 DEF TreeNode
  <2>2. t[p].type = "inter" /\ t[p].file = "dir"
    BY <1>1, <1>4, <2>1, Kinds
  <2>3. CASE p \in Tmpfs(t)
    <3>1. F[p].type = "tmpfs" /\ F[p].file = "dir"
      BY <1>2, <2>2, <2>3 DEF TreeNode
    <3>2. CASE InTmpfs(F, p)
      <4>1. Shown(F, p) = <<"dir", "">>
        BY <3>1, <3>2 DEF Shown
      <4> QED BY <3>1, <4>1, Pairs
    <3>3. CASE ~InTmpfs(F, p)
      <4>1. p \in DOMAIN stock /\ stock[p][1] = "dir"
        BY <1>4, <3>3, DirIsReal
      <4>2. Shown(F, p) = Bind(<<"dir", "">>, stock[p])
        BY <3>1, <3>3, <4>1 DEF Shown, At
      <4>3. Bind(<<"dir", "">>, stock[p]) = <<"dir", "">>
        BY <4>1, Pairs, BindIs
      <4> QED BY <3>1, <4>2, <4>3, Pairs
    <3> QED BY <3>2, <3>3
  <2>4. CASE p \notin Tmpfs(t)
    <3>1. F[p].type = "inter"
      BY <1>2, <2>2, <2>4 DEF TreeNode
    <3>2. ~InTmpfs(F, p)
      BY <2>2, <2>4, InTmpfsIs
    <3>3. p \in DOMAIN stock /\ stock[p][1] = "dir"
      BY <1>4, <3>2, DirIsReal
    <3>4. Shown(F, p) = stock[p]
      BY <3>1, <3>3 DEF Shown, At
    <3> QED BY <3>1, <3>3, <3>4
  <2> QED BY <2>3, <2>4
<1> QED BY <1>3, <1>4, LenSplit

\* A mirrored entry shows what it is.
LEMMA MirrorShows ==
  ASSUME NEW X, NEW t, NEW F, Stage(X, t, F), NEW p \in Mirrored(t, Tmpfs(t))
  PROVE  Same(Shown(F, p), stock[p])
<1>1. MirrorNode(t, F, p)
  BY InMirror
<1>2. p \in DOMAIN stock /\ F[p].type = "tmpfs" /\ F[p].file = stock[p][1]
  BY <1>1 DEF MirrorNode
<1>3. stock[p][1] \in {"dir", "reg", "lnk"}
  BY <1>2, StageSound, StockIs
<1>4. At(stock, p) = stock[p]
  BY <1>2 DEF At
<1>5. CASE stock[p][1] = "lnk"
  <2>1. Shown(F, p) = Created(F[p], stock[p])
    BY <1>2, <1>4, <1>5 DEF Shown
  <2>2. Created(F[p], stock[p]) = stock[p]
    BY <1>2, <1>5 DEF Created
  <2> QED BY <2>1, <2>2 DEF Same
<1>6. CASE stock[p][1] = "reg"
  <2>1. Shown(F, p) = Created(F[p], stock[p])
    BY <1>2, <1>4, <1>6 DEF Shown
  <2>2. Created(F[p], stock[p]) = Bind(stock[p], <<"reg", "">>)
    BY <1>2, <1>6 DEF Created
  <2>3. Bind(stock[p], <<"reg", "">>) = stock[p]
    BY <1>6, Pairs, BindIs
  <2> QED BY <2>1, <2>2, <2>3 DEF Same
<1>7. CASE stock[p][1] = "dir"
  <2>1. Shown(F, p) = <<"dir", "">> \/ Shown(F, p) = Bind(<<"dir", "">>, stock[p])
    BY <1>2, <1>4, <1>7 DEF Shown
  <2>2. Bind(<<"dir", "">>, stock[p]) = <<"dir", "">>
    BY <1>7, Pairs, BindIs
  <2> QED BY <1>7, <2>1, <2>2, Pairs DEF Same
<1> QED BY <1>3, <1>5, <1>6, <1>7

\* The root of a partition that is plain is a directory.
LEMMA RootsAreDirs ==
  ASSUME Setting, NEW p \in Path, Plain(p), Here(p), Len(p) = 1
  PROVE  IsDir(p)
<1>1. Sound /\ ~Conflict(p) /\ ~Refused(p)
  BY CleanOf DEF Plain, Free, Setting, OnLine
<1>2. p \in Placed
  BY HerePlaced DEF Setting
<1>3. At(stock, p)[1] = "dir"
  BY <1>1, <1>2, RootIsReal
<1>4. p \in DOMAIN stock /\ stock[p][1] = "dir"
  BY <1>3, AtIs
<1>5. ~Injected(p)
  BY SMT DEF Injected, InBin, InLib
<1>6. Providers(p) # {} => Chosen(p)[1] # "wht"
  BY <1>1, <1>5 DEF Refused, WhitedOut
<1>7. Providers(p) # {} => Chosen(p)[1] = "dir"
  BY <1>1, <1>4, <1>6, ChosenIs
<1> QED BY <1>5, <1>7 DEF IsDir

\* A node is seen: nothing above it got lost.
LEMMA NodeSeen ==
  ASSUME NEW X, NEW t, NEW F, Stage(X, t, F), NEW p \in Path, Plain(p), p \in DOMAIN t
  PROVE  Seen(F, p) = Shown(F, p)
<1>1. Setting /\ Here(p) /\ Clean(p)
  BY StageSound, There DEF Plain
<1>2. ASSUME NEW a \in DOMAIN F, Under(a, p) PROVE Shown(F, a)[1] = "dir"
  <2>1. ASSUME a \in Path PROVE a \in DOMAIN t /\ Plain(a) /\ IsDir(a)
    <3>1. Plain(a) /\ IsDir(a)
      BY <1>1, <1>2, <2>1, PlainOf, Above DEF OnLine
    <3> QED BY <2>1, <3>1, There DEF IsDir
  <2>2. CASE a \in DOMAIN t
    <3>1. TreeNode(X, t, F, a)
      BY <2>2, InTree
    <3>2. a \in Path
      BY <3>1 DEF TreeNode
    <3> QED BY <2>1, <2>2, <3>2, ShowsDir
  <2>3. CASE a \in Mirrored(t, Tmpfs(t))
    <3>1. MirrorNode(t, F, a)
      BY <2>3, InMirror
    <3> QED BY <2>1, <3>1 DEF MirrorNode
  <2> QED BY <2>2, <2>3, InEnd
<1>3. TreeNode(X, t, F, p)
  BY InTree
<1>4. p \in DOMAIN F
  BY <1>3 DEF TreeNode
<1>5. Visible(F, p) = Shown(F, p)
  BY <1>2, <1>4 DEF Visible
<1> QED BY <1>4, <1>5 DEF Seen

\* A directory of the modules or for Magisk's files.
LEMMA DirWanted ==
  ASSUME Setting, NEW p \in Path, Clean(p), IsDir(p)
  PROVE  Wanted(p)[1] = "dir"
<1>1. ~Injected(p) /\ Sound
  BY DEF IsDir, Setting
<1>2. CASE Providers(p) # {}
  <2>1. Chosen(p)[1] = "dir"
    BY <1>2 DEF IsDir
  <2>2. Wanted(p) = <<"dir", "">>
    BY <1>1, <1>2, <2>1 DEF Wanted
  <2> QED BY <2>2, Pairs
<1>3. CASE Providers(p) = {} /\ Hosts(p)
  <2>1. Wanted(p) = <<"dir", "">>
    BY <1>1, <1>3 DEF Wanted
  <2> QED BY <2>1, Pairs
<1>4. CASE Providers(p) = {} /\ ~Hosts(p)
  <2>1. p = System
    BY <1>1, <1>4 DEF IsDir, Here
  <2>2. ASSUME Emptied(p) PROVE FALSE
    <3>1. PICK i \in Active : \E d \in mods[i].replace : Under(Place(d), p)
      BY <2>2 DEF Emptied
    <3>2. PICK d \in mods[i].replace : Under(Place(d), p)
      BY <3>1
    <3>3. d \in Rooted
      BY <1>1, <3>1, <3>2, ReplaceIsDir, ModuleTree
    <3>4. Place(d) \in Path
      BY <3>3, PlaceSystem
    <3> QED BY <2>1, <3>2, <3>4, NoPathAboveSystem
  <2>3. Wanted(p) = At(stock, p)
    BY <1>1, <1>4, <2>2 DEF Wanted
  <2> QED BY <1>1, <2>1, <2>3, StockIs
<1> QED BY <1>2, <1>3, <1>4

\* A file of a module.
LEMMA FileShown ==
  ASSUME NEW X, NEW t, NEW F, Stage(X, t, F), NEW p \in Path, Plain(p), p \in DOMAIN t, Len(p) > 1,
         ~IsDir(p), ~Injected(p), ~WhitedOut(p)
  PROVE  Same(Shown(F, p), Wanted(p))
<1>1. Sound /\ Setting /\ Built(X) /\ Clean(p) /\ ~Conflict(p)
  BY StageSound, CleanOf DEF Plain, OnLine
<1>2. TreeNode(X, t, F, p)
  BY InTree
<1>3. t[p] = X[p] /\ p \in DOMAIN X
  BY <1>2 DEF TreeNode
<1>4. Providers(p) # {} /\ Chosen(p)[1] \in {"reg", "lnk"}
      /\ t[p].type = "module" /\ t[p].file = Chosen(p)[1] /\ t[p].from = Chosen(p)[2]
  <2>1. /\ Providers(p) # {} /\ Chosen(p)[1] \in {"reg", "lnk", "wht"}
        /\ t[p].type = "module" /\ t[p].file = Chosen(p)[1] /\ t[p].from = Chosen(p)[2]
    BY <1>1, <1>3, Kinds
  <2>2. Chosen(p)[1] # "wht"
    BY <2>1 DEF WhitedOut
  <2> QED BY <2>1, <2>2
<1> DEFINE c == Chosen(p)
           n == F[p]
<1>5. n.type = "module" /\ n.file = c[1] /\ n.from = c[2] /\ c[1] \in {"reg", "lnk"}
  BY <1>2, <1>4 DEF TreeNode
<1>6. Wanted(p) = c
  BY <1>4 DEF Wanted
<1> DEFINE s == SourceOf(n)
<1>7. s[1] = c[1] /\ s[2] = c[2]
  <2>1. n.type # "custom" /\ n.file # "dir"
    BY <1>5
  <2> HIDE DEF n, c
  <2>2. s = <<n.file, n.from>>
    BY <2>1 DEF SourceOf
  <2> HIDE DEF s
  <2>3. s[1] = n.file /\ s[2] = n.from
    BY <2>2, SMT
  <2> QED BY <1>5, <2>3
<1>8. n.file # "wht" /\ s[1] # "dir"
  BY <1>5, <1>7
<1>9. CASE InTmpfs(F, p)
  <2>1. Shown(F, p) = Created(n, s)
    BY <1>5, <1>8, <1>9 DEF Shown
  <2> HIDE DEF n, c, s
  <2>2. CASE n.file = "lnk"
    <3>1. Created(n, s) = s
      BY <2>2 DEF Created
    <3> QED BY <1>6, <1>7, <2>1, <3>1 DEF Same
  <2>3. CASE n.file = "reg"
    <3>1. Created(n, s) = Bind(s, <<"reg", "">>)
      BY <2>3 DEF Created
    <3>2. Bind(s, <<"reg", "">>) = s
      BY <1>8, Pairs, BindIs
    <3> QED BY <1>6, <1>7, <2>1, <3>1, <3>2 DEF Same
  <2> QED BY <1>5, <2>2, <2>3
<1>10. CASE ~InTmpfs(F, p)
  <2>1. ~CannotMount(t, p)
    BY <1>10, NeedsParent
  <2>2. p \in DOMAIN stock /\ At(stock, p) = stock[p]
    BY <1>4, <2>1 DEF CannotMount, At
  <2>3. stock[p][1] # "dir" /\ stock[p][1] # "none"
    BY <1>1, <1>4, <2>2, ChosenIs, StockIs
  <2>4. Shown(F, p) = Bind(s, stock[p])
    BY <1>5, <1>8, <1>10, <2>2 DEF Shown
  <2> HIDE DEF n, c, s
  <2>5. Bind(s, stock[p]) = s
    BY <1>8, <2>3, BindIs
  <2> QED BY <1>6, <1>7, <2>4, <2>5 DEF Same
<1> QED BY <1>9, <1>10

\* A link of Magisk that is not refused is not in the root of a partition.
LEMMA LongPath ==
  ASSUME Setting, NEW p \in Path, Plain(p), Here(p), Linked(p)
  PROVE  Len(p) # 1 /\ Len(p) # 2 /\ Len(p) > 1
<1>1. p \in Placed
  BY HerePlaced DEF Setting
<1>2. p[1] \in {"system"} \cup Partitions
  BY <1>1 DEF Placed, Rooted, Home, Own
<1>3. ~Refused(p)
  BY DEF Plain, Free, OnLine
<1>4. Len(p) > 1
  BY DEF Linked, InBin
<1>5. Len(p) # 2
  BY <1>2, <1>3 DEF Refused
<1>6. ~(1 > 1)
  BY SMT
<1> QED BY <1>4, <1>5, <1>6

\* The directory of a link is a tmpfs: for the link, or for the magisk binary.
LEMMA LinkInTmpfs ==
  ASSUME NEW X, NEW t, NEW F, Stage(X, t, F), NEW p \in Path, Plain(p), p \in DOMAIN t, Linked(p)
  PROVE  InTmpfs(F, p)
<1>1. Sound /\ Setting /\ Built(X) /\ Clean(p) /\ ~Conflict(p) /\ Here(p)
  BY StageSound, CleanOf, There DEF Plain, OnLine
<1>2. Len(p) # 1 /\ Len(p) # 2 /\ Len(p) > 1
  BY <1>1, LongPath
<1>3. InBin(p) /\ Injected(p) /\ Parent(p) = Bin /\ ~sbin
  BY DEF Linked, InBin, Injected
<1>4. CASE CannotMount(t, p)
  BY <1>2, <1>4, NeedsParent
<1>5. CASE ~CannotMount(t, p)
  <2>1. TreeNode(X, t, F, p)
    BY InTree
  <2>2. t[p] = X[p] /\ p \in DOMAIN X
    BY <2>1 DEF TreeNode
  <2>3. t[p].file \in {"reg", "lnk"} /\ t[p].file = IF Providers(p) # {} THEN Chosen(p)[1] ELSE "lnk"
    BY <1>1, <1>2, <1>3, <2>2, Kinds
  <2>4. p \in DOMAIN stock /\ t[p].file # "lnk"
    BY <1>5, <2>3 DEF CannotMount
  <2>5. Providers(p) # {}
    BY <2>3, <2>4
  <2> DEFINE m == Append(Bin, "magisk")
  <2>6. m \notin DOMAIN stock /\ Providers(m) = {}
    BY <1>1, <2>4, <2>5 DEF Conflict, Stuck
  <2>7. Bin \in Path /\ Under(Bin, p) /\ "magisk" \in Word /\ "magisk" \in Names /\ "magisk" \notin Applets
    BY <1>2, <1>3, ParentUnder, MountAssumption DEF Names
  <2>8. m \in Path /\ Len(m) = Len(Bin) + 1 /\ Len(m) > 1 /\ Parent(m) = Bin /\ Name(m) = "magisk"
    BY <2>7, AppendIs
  <2> HIDE DEF m
  <2>9. Len(m) = Len(p)
    <3>1. Len(Bin) = Len(p) - 1 /\ Len(p) \in Nat /\ Len(Bin) \in Nat
      BY <1>2, <1>3, <2>7, ParentUnder, PathLen
    <3> QED BY <2>8, <3>1, SMT
  <2>10. InBin(m) /\ Injected(m) /\ ~Linked(m) /\ Here(m)
    BY <1>3, <2>7, <2>8 DEF InBin, Injected, Linked, Here
  <2>11. ~Hosts(m)
    BY <1>1, <2>8, <2>10, HostsApart
  <2>12. At(stock, m)[1] # "dir"
    <3>1. At(stock, m) = None
      BY <2>6 DEF At
    <3> QED BY <3>1, AtIs
  <2>13. ~Conflict(m)
    BY <2>6, <2>10, <2>11, <2>12 DEF Conflict, Stuck
  <2>14. ~Refused(m)
    BY <1>2, <2>9 DEF Refused
  <2>15. ASSUME NEW r \in Path, OnLine(r, m), r # m PROVE ~Conflict(r) /\ ~Refused(r)
    <3>1. OnLine(r, Bin)
      BY <2>8, <2>15, UnderParent DEF OnLine
    <3>2. OnLine(r, p)
      BY <2>7, <3>1, LineTrans DEF OnLine
    <3> QED BY <3>2 DEF Plain, Clean, Free
  <2>16. Plain(m)
    BY <2>13, <2>14, <2>15 DEF Plain, Clean, Free
  <2>17. m \in DOMAIN t
    BY <2>8, <2>10, <2>16, There
  <2>18. TreeNode(X, t, F, m)
    BY <2>17, InTree
  <2>19. t[m] = X[m] /\ m \in DOMAIN X /\ Clean(m)
    BY <2>16, <2>18 DEF TreeNode, Plain
  <2>20. t[m].file \in {"reg", "lnk"}
    BY <1>1, <2>8, <2>10, <2>19, Kinds
  <2>21. CannotMount(t, m)
    BY <2>6, <2>20 DEF CannotMount
  <2>22. InTmpfs(F, m)
    BY <2>8, <2>16, <2>17, <2>21, NeedsParent
  <2> QED BY <1>2, <1>3, <2>8, <2>22 DEF InTmpfs
<1> QED BY <1>4, <1>5

\* A file of Magisk.
LEMMA OwnShown ==
  ASSUME NEW X, NEW t, NEW F, Stage(X, t, F), NEW p \in Path, Plain(p), p \in DOMAIN t, Injected(p)
  PROVE  Shown(F, p) = Wanted(p)
<1>1. Sound /\ Setting /\ Built(X) /\ Clean(p) /\ ~Conflict(p)
  BY StageSound, CleanOf DEF Plain, OnLine
<1>2. TreeNode(X, t, F, p)
  BY InTree
<1>3. t[p] = X[p] /\ p \in DOMAIN X
  BY <1>2 DEF TreeNode
<1>4. Len(p) > 1
  BY SMT DEF Injected, InBin, InLib
<1>5. t[p].type = "custom" /\ t[p].file \in {"reg", "lnk"} /\ t[p].from = IF InLib(p) THEN "zygisk" ELSE "magisk"
  BY <1>1, <1>3, <1>4, Kinds
<1> DEFINE n == F[p]
           who == IF InLib(p) THEN "zygisk" ELSE "magisk"
           s == SourceOf(n)
           link == n.from = "magisk" /\ Name(p) \in Applets
<1>6. n.type = "custom" /\ n.file \in {"reg", "lnk"} /\ n.from = who
  BY <1>2, <1>5 DEF TreeNode
<1>7. link <=> Linked(p)
  <2>1. ~InLib(p) => InBin(p)
    BY DEF Injected
  <2>2. InBin(p) => ~InLib(p)
    BY BinNotLib
  <2> QED BY <1>6, <2>1, <2>2 DEF Linked
<1>8. Wanted(p) = IF Linked(p) THEN <<"lnk", "magisk">> ELSE <<"reg", who>>
  BY DEF Wanted
<1>9. CASE Linked(p)
  <2>1. InTmpfs(F, p)
    BY <1>9, LinkInTmpfs
  <2>2. Shown(F, p) = <<"lnk", "magisk">>
    BY <1>6, <1>7, <1>9, <2>1 DEF Shown
  <2> QED BY <1>8, <1>9, <2>2
<1>10. CASE ~Linked(p)
  <2>1. s = <<"reg", who>>
    BY <1>6 DEF SourceOf
  <2>2. Wanted(p) = s
    <3> HIDE DEF s, who
    <3>1. Wanted(p) = <<"reg", who>>
      BY <1>8, <1>10
    <3> QED BY <2>1, <3>1
  <2>3. s[1] = "reg"
    <3> HIDE DEF s, who
    <3> QED BY <2>1, SMT
  <2>4. CASE InTmpfs(F, p)
    <3>1. Shown(F, p) = Created(n, s)
      BY <1>6, <1>7, <1>10, <2>4 DEF Shown
    <3> HIDE DEF n, s
    <3>2. n.file = "lnk" => Created(n, s) = s
      BY DEF Created
    <3>3. n.file = "reg" => Created(n, s) = Bind(s, <<"reg", "">>)
      BY DEF Created
    <3>4. Bind(s, <<"reg", "">>) = s
      BY <2>3, Pairs, BindIs
    <3> QED BY <1>6, <2>2, <3>1, <3>2, <3>3, <3>4
  <2>5. CASE ~InTmpfs(F, p)
    <3>1. ~CannotMount(t, p)
      BY <1>4, <2>5, NeedsParent
    <3>2. p \in DOMAIN stock /\ t[p].file = "reg"
      BY <1>5, <3>1 DEF CannotMount
    <3>3. n.file = "reg" /\ At(stock, p) = stock[p]
      BY <1>2, <3>2 DEF TreeNode, At
    <3>4. stock[p][1] # "dir" /\ stock[p][1] # "none"
      BY <1>1, <3>2, <3>3, StockIs DEF Conflict
    <3>5. Shown(F, p) = Bind(s, stock[p])
      BY <1>6, <1>7, <1>10, <2>5, <3>3 DEF Shown
    <3> HIDE DEF s
    <3>6. Bind(s, stock[p]) = s
      BY <2>3, <3>4, BindIs
    <3> QED BY <2>2, <3>5, <3>6
  <2> QED BY <2>4, <2>5
<1> QED BY <1>9, <1>10

\* What a path with a node shows.
LEMMA NodeAsWanted ==
  ASSUME NEW X, NEW t, NEW F, Stage(X, t, F), NEW p \in Path, Plain(p), Here(p), ~WhitedOut(p)
  PROVE  Same(Seen(F, p), Wanted(p))
<1>1. Setting /\ Clean(p)
  BY StageSound DEF Plain
<1>2. p \in DOMAIN t
  BY There
<1>3. Seen(F, p) = Shown(F, p)
  BY <1>2, NodeSeen
<1>4. CASE IsDir(p)
  <2>1. Shown(F, p)[1] = "dir" /\ Wanted(p)[1] = "dir"
    BY <1>1, <1>2, <1>4, ShowsDir, DirWanted
  <2> QED BY <1>3, <2>1 DEF Same
<1>5. CASE Injected(p)
  <2>1. Shown(F, p) = Wanted(p)
    BY <1>2, <1>5, OwnShown
  <2> QED BY <1>3, <2>1 DEF Same
<1>6. CASE ~IsDir(p) /\ ~Injected(p)
  <2>1. Len(p) > 1
    BY <1>1, <1>6, RootsAreDirs, LenSplit
  <2> QED BY <1>2, <1>3, <1>6, <2>1, FileShown
<1> QED BY <1>4, <1>5, <1>6

\* Nothing is left at and under a whiteout.
LEMMA WhiteoutSeen ==
  ASSUME NEW X, NEW t, NEW F, Stage(X, t, F), NEW p \in Path, Plain(p),
         NEW w \in Path, OnLine(w, p), WhitedOut(w)
  PROVE  Seen(F, p) = None
<1>1. Sound /\ Setting /\ Built(X)
  BY StageSound
<1>2. Plain(w) /\ Clean(w) /\ ~Refused(w) /\ Here(w) /\ ~Injected(w) /\ ~IsDir(w) /\ Chosen(w)[1] = "wht"
  <2>1. Plain(w)
    BY PlainOf
  <2> QED BY <2>1 DEF Plain, Free, OnLine, WhitedOut, Here, IsDir
<1>3. Len(w) > 1
  BY <1>2, LenSplit DEF Refused
<1>4. w \in DOMAIN t
  BY <1>2, There
<1>5. TreeNode(X, t, F, w)
  BY <1>4, InTree
<1>6. t[w].type = "module" /\ t[w].file = "wht"
  <2>1. w \in DOMAIN X /\ t[w] = X[w]
    BY <1>5 DEF TreeNode
  <2>2. X[w].type = "module" /\ X[w].file = Chosen(w)[1]
    BY <1>1, <1>2, <1>3, <2>1, Kinds
  <2> QED BY <1>2, <2>1, <2>2
<1>7. F[w].type = "module" /\ F[w].file = "wht" /\ w \in DOMAIN F /\ w \notin Tmpfs(t)
  BY <1>5, <1>6 DEF TreeNode
<1>8. w \in DOMAIN stock => InTmpfs(F, w)
  <2>1. w \in DOMAIN stock => CannotMount(t, w)
    BY <1>6 DEF CannotMount
  <2> QED BY <1>2, <1>3, <1>4, <2>1, NeedsParent
<1>9. Shown(F, w) = None
  <2>1. Shown(F, w) = IF InTmpfs(F, w) THEN None ELSE At(stock, w)
    BY <1>7 DEF Shown
  <2> QED BY <1>8, <2>1 DEF At
<1>10. CASE p = w
  BY <1>2, <1>4, <1>9, <1>10, NodeSeen
<1>11. CASE Under(w, p)
  <2>1. ASSUME NEW b \in Path, Under(w, b), OnLine(b, p) PROVE b \notin DOMAIN t
    <3>1. Plain(b) /\ Clean(b)
      BY <2>1, PlainOf DEF Plain
    <3>2. ~Here(b)
      BY <1>1, <1>2, <2>1, <3>1, Above
    <3> QED BY <3>1, <3>2, There
  <2>2. p \notin Mirrored(t, Tmpfs(t))
    <3> SUFFICES ASSUME p \in Mirrored(t, Tmpfs(t)) PROVE FALSE
      OBVIOUS
    <3>1. MirrorNode(t, F, p)
      BY InMirror
    <3>2. PICK d \in Tmpfs(t) : d \in DOMAIN t /\ d \in Path /\ Under(d, p)
                                /\ \A a \in DOMAIN t : Under(d, a) => ~Under(a, p)
      BY <3>1 DEF MirrorNode
    <3>3. w # d /\ ~Under(w, d) /\ ~Under(d, w)
      BY <1>4, <1>7, <1>11, <2>1, <3>2 DEF OnLine
    <3> QED BY <1>11, <3>2, <3>3, UnderLinear DEF OnLine
  <2>3. p \notin DOMAIN F
    BY <1>11, <2>1, <2>2, InEnd DEF OnLine
  <2>4. Shown(F, w)[1] # "dir"
    BY <1>9, AtIs
  <2>5. Visible(F, p) = None
    BY <1>7, <1>11, <2>4 DEF Visible
  <2> QED BY <2>3, <2>5 DEF Seen
<1> QED BY <1>10, <1>11 DEF OnLine

\* A number above one that is not two is at least three.
LEMMA NatThree ==
  ASSUME NEW n \in Nat, n > 1, n # 2, NEW l, l = n - 1
  PROVE  l > 1
BY SMT

\* What is no root of a partition does not end up as one.
LEMMA PlaceLong ==
  ASSUME NEW d \in Rooted, ~IsRoot(stock, d)
  PROVE  Len(Place(d)) > 1
<1>1. d \in Path /\ d # System /\ Len(d) > 1
  BY LenSplit, RootIsSystem DEF Rooted, IsRoot
<1>2. CASE Own(d[2])
  <2>1. Len(d) # 2
    BY <1>2 DEF IsRoot, Own
  <2>2. Place(d) = Tail(d) /\ Len(Tail(d)) = Len(d) - 1 /\ Len(d) \in Nat
    BY <1>1, <1>2, TailPath, PathLen DEF Place
  <2>3. Len(Tail(d)) > 1
    BY <1>1, <2>1, <2>2, NatThree
  <2> QED BY <2>2, <2>3
<1>3. CASE ~Own(d[2])
  BY <1>1, <1>3 DEF Place
<1> QED BY <1>2, <1>3

\* A directory with .replace is in the tree, marked, and becomes a tmpfs.
LEMMA EmptiedBy ==
  ASSUME NEW X, NEW t, NEW F, Stage(X, t, F), NEW p \in Path, Plain(p), Emptied(p)
  PROVE  \E e \in Path : /\ Under(e, p) /\ e \in DOMAIN t /\ e \in Tmpfs(t)
                         /\ IsDirNode(t[e]) /\ t[e].replace
<1>1. Sound /\ Setting /\ Built(X)
  BY StageSound
<1>2. PICK i \in Active : \E d \in mods[i].replace : Under(Place(d), p)
  BY DEF Emptied
<1>3. PICK d \in mods[i].replace : Under(Place(d), p)
  BY <1>2
<1>4. d \in DOMAIN mods[i].files /\ mods[i].files[d][1] = "dir" /\ ~IsRoot(stock, d)
  BY <1>1, ReplaceIsDir
<1>5. d \in Rooted
  BY <1>1, <1>4, ModuleTree
<1> DEFINE e == Place(d)
<1>6. e \in Path /\ Home(e) = d /\ Len(e) > 1
  BY <1>4, <1>5, PlaceLong, PlaceSystem
<1>7. i \in Providers(e) /\ FileOf(i, e)[1] = "dir" /\ Under(e, p)
  BY <1>3, <1>4, <1>5, ProvidersAt
<1> HIDE DEF e
<1>8. Plain(e) /\ Clean(e) /\ ~Conflict(e)
  <2>1. Plain(e)
    BY <1>6, <1>7, PlainOf DEF OnLine
  <2> QED BY <1>6, <2>1 DEF Plain, Clean, OnLine
<1>9. Chosen(e)[1] = "dir" /\ ~Injected(e) /\ Here(e)
  <2>1. Chosen(e)[1] = "dir"
    BY <1>1, <1>6, <1>7, <1>8, ChosenIs
  <2> QED BY <1>7, <1>8, <2>1 DEF Conflict, Here
<1>10. e \in DOMAIN t /\ IsDir(e)
  BY <1>6, <1>8, <1>9, There DEF IsDir
<1>11. t[e] = X[e] /\ e \in DOMAIN X
  <2>1. TreeNode(X, t, F, e)
    BY <1>10, InTree
  <2> QED BY <2>1 DEF TreeNode
<1>12. t[e].type = "inter"
  BY <1>1, <1>6, <1>8, <1>10, <1>11, Kinds
<1>13. NodeAs(X[e], e, Injected(e))
  BY <1>1, <1>6, <1>8, <1>11 DEF Built
<1>14. t[e].replace
  BY <1>3, <1>6, <1>7, <1>9, <1>11, <1>13 DEF NodeAs
<1>15. IsDirNode(t[e])
  BY <1>12 DEF IsDirNode
<1>16. e \in Tmpfs(t)
  <2>1. Replaced(t, e)
    BY <1>10, <1>14, <1>15 DEF Replaced, OnLine
  <2>2. NeedsTmpfs(t, e)
    BY <1>12, <2>1 DEF NeedsTmpfs
  <2> QED BY <1>10, <1>12, <2>2 DEF Tmpfs, OnLine
<1> QED BY <1>6, <1>7, <1>10, <1>14, <1>15, <1>16

\* A tmpfs is emptied only by a .replace at or above it.
LEMMA ReplacedBy ==
  ASSUME NEW X, NEW t, NEW F, Stage(X, t, F), NEW p \in Path, Plain(p),
         NEW d \in Path, Under(d, p), Replaced(t, d)
  PROVE  Emptied(p)
<1>1. PICK q \in DOMAIN t : OnLine(q, d) /\ IsDirNode(t[q]) /\ t[q].replace
  BY DEF Replaced
<1>2. q \in Path /\ t[q] = X[q] /\ q \in DOMAIN X
  <2>1. TreeNode(X, t, F, q)
    BY InTree
  <2> QED BY <2>1 DEF TreeNode
<1>3. Under(q, p)
  BY <1>1, <1>2, UnderTrans DEF OnLine
<1>4. Clean(q)
  BY <1>2, <1>3, PlainOf DEF OnLine, Plain
<1>5. Len(q) > 1 /\ NodeAs(X[q], q, Injected(q))
  BY <1>1, <1>2, <1>4, LenSplit, StageSound DEF Built
<1>6. ~Injected(q)
  BY <1>1, <1>2, <1>5 DEF NodeAs, IsDirNode
<1>7. PICK i \in Providers(q) : Home(q) \in mods[i].replace
  BY <1>1, <1>2, <1>5, <1>6 DEF NodeAs
<1>8. i \in Active /\ Place(Home(q)) = q
  BY DEF Providers
<1> QED BY <1>3, <1>7, <1>8 DEF Emptied

\* A node over a real directory is a directory.
LEMMA TreeDirs ==
  ASSUME NEW X, NEW t, NEW F, Stage(X, t, F), NEW a \in Path, Plain(a), a \in DOMAIN t,
         a \in DOMAIN stock, stock[a][1] = "dir", ~WhitedOut(a)
  PROVE  IsDir(a)
<1>1. Sound /\ Setting /\ Here(a) /\ Clean(a) /\ ~Conflict(a) /\ At(stock, a)[1] = "dir"
  BY StageSound, There, CleanOf DEF Plain, OnLine, At
<1>2. ~Injected(a)
  BY <1>1 DEF Conflict
<1>3. Providers(a) # {} => Chosen(a)[1] = "dir"
  <2> SUFFICES ASSUME Providers(a) # {} PROVE Chosen(a)[1] = "dir"
    OBVIOUS
  <2>1. Chosen(a)[1] # "wht"
    BY <1>2 DEF WhitedOut
  <2> QED BY <1>1, <2>1, ChosenIs
<1> QED BY <1>1, <1>2, <1>3 DEF IsDir

\* No file above a real path is in its way.
LEMMA NotLost ==
  ASSUME NEW X, NEW t, NEW F, Stage(X, t, F), NEW p \in Path, Plain(p), p \in DOMAIN stock,
         \A w \in Path : OnLine(w, p) => ~WhitedOut(w), NEW a \in DOMAIN F, Under(a, p)
  PROVE  a \in Path /\ Shown(F, a)[1] = "dir"
<1>1. a \in Path => a \in DOMAIN stock /\ stock[a][1] = "dir" /\ Plain(a) /\ ~WhitedOut(a)
  BY StageSound, StockIs, PlainOf DEF OnLine
<1>2. CASE a \in DOMAIN t
  <2>1. a \in Path
    BY <1>2, InTree DEF TreeNode
  <2> QED BY <1>1, <1>2, <2>1, TreeDirs, ShowsDir
<1>3. CASE a \in Mirrored(t, Tmpfs(t))
  <2>1. a \in Path
    BY <1>3, InMirror DEF MirrorNode
  <2>2. Same(Shown(F, a), stock[a])
    BY <1>3, MirrorShows
  <2> QED BY <1>1, <2>1, <2>2 DEF Same
<1> QED BY <1>2, <1>3, InEnd

\* Of some paths above a path one is the lowest.
LEMMA Lowest ==
  ASSUME Sound, NEW p \in Path, NEW S, S # {}, \A c \in S : c \in Path /\ Under(c, p)
  PROVE  \E d \in S : \A c \in S : OnLine(c, d)
<1> DEFINE T == {Len(p) - Len(c) : c \in S}
<1>1. T \subseteq Nat
  <2> SUFFICES ASSUME NEW c \in S PROVE Len(p) - Len(c) \in Nat
    OBVIOUS
  <2>1. c \in Path /\ Len(c) \in Nat /\ Len(p) \in Nat /\ Len(c) < Len(p)
    BY PathLen, UnderIrr
  <2> QED BY <2>1, SMT
<1>2. T # {}
  OBVIOUS
<1>3. PICK x \in T : \A y \in T : x <= y
  <2> HIDE DEF T
  <2> QED BY <1>1, <1>2, Least
<1>4. PICK d \in S : x = Len(p) - Len(d)
  OBVIOUS
<1>5. ASSUME NEW c \in S PROVE OnLine(c, d)
  <2>1. Len(p) - Len(d) <= Len(p) - Len(c)
    BY <1>3, <1>4
  <2>2. c \in Path /\ d \in Path /\ Under(c, p) /\ Under(d, p)
    OBVIOUS
  <2>3. Len(p) \in Nat /\ Len(c) \in Nat /\ Len(d) \in Nat
    BY <2>2, PathLen
  <2>4. Len(c) <= Len(d)
    BY <2>1, <2>3, SMT
  <2> QED BY <2>2, <2>4, LineLen DEF OnLine
<1> QED BY <1>5

\* Under a tmpfs that no module emptied, every real entry without a node is shown again.
LEMMA MirroredAll ==
  ASSUME NEW X, NEW t, NEW F, Stage(X, t, F), NEW p \in Path, Plain(p), p \in DOMAIN stock, p \notin DOMAIN t,
         ~Emptied(p), \A w \in Path : OnLine(w, p) => ~WhitedOut(w),
         NEW b \in Tmpfs(t), b \in Path, Under(b, p)
  PROVE  p \in Mirrored(t, Tmpfs(t))
<1> DEFINE S == {c \in DOMAIN t : Under(c, p)}
<1>1. \A c \in S : c \in Path /\ Under(c, p) /\ c \in DOMAIN t
  BY InTree DEF TreeNode
<1>2. b \in S /\ t[b].type = "inter"
  BY DEF Tmpfs
<1>3. PICK d \in S : \A c \in S : OnLine(c, d)
  <2> HIDE DEF S
  <2>1. Sound
    BY StageSound
  <2> QED BY <1>1, <1>2, <2>1, Lowest
<1>4. d \in Path /\ d \in DOMAIN t /\ Under(d, p) /\ OnLine(b, d)
  BY <1>1, <1>2, <1>3
<1>5. ASSUME NEW c \in DOMAIN t, Under(d, c), Under(c, p) PROVE FALSE
  <2>1. c \in Path /\ OnLine(c, d)
    BY <1>1, <1>3, <1>5
  <2> QED BY <1>4, <1>5, <2>1, UnderIrr DEF OnLine
<1> HIDE DEF S
<1>6. Plain(d) /\ Clean(d) /\ ~WhitedOut(d) /\ d \in DOMAIN stock /\ stock[d][1] = "dir"
  BY <1>4, PlainOf, StageSound, StockIs DEF OnLine, Plain
<1>7. IsDir(d)
  BY <1>4, <1>6, TreeDirs
<1>8. t[d].type = "inter"
  <2>1. CASE b = d
    BY <1>2, <2>1
  <2>2. CASE Under(b, d)
    <3>1. Len(d) > 1
      BY <1>4, <2>2, UnderParent
    <3>2. TreeNode(X, t, F, d)
      BY <1>4, InTree
    <3>3. t[d] = X[d] /\ d \in DOMAIN X
      BY <3>2 DEF TreeNode
    <3>4. Sound /\ Built(X)
      BY StageSound
    <3>5. X[d].type = "inter"
      BY <1>4, <1>6, <1>7, <3>1, <3>3, <3>4, Kinds
    <3> QED BY <3>3, <3>5
  <2> QED BY <1>4, <2>1, <2>2 DEF OnLine
<1>9. d \in Tmpfs(t)
  BY <1>4, <1>8, InheritTmpfs
<1>10. ~Replaced(t, d)
  BY <1>4, ReplacedBy
<1> QED BY <1>4, <1>5, <1>9, <1>10 DEF Mirrored

\* What a path without a node shows.
LEMMA RestAsWanted ==
  ASSUME NEW X, NEW t, NEW F, Stage(X, t, F), NEW p \in Path, Plain(p), ~Here(p),
         \A w \in Path : OnLine(w, p) => ~WhitedOut(w)
  PROVE  Same(Seen(F, p), Wanted(p))
<1>1. Wanted(p) = IF Emptied(p) THEN None ELSE At(stock, p)
  BY DEF Wanted, Here
<1>2. p \notin DOMAIN t
  BY There
<1>3. CASE p \notin DOMAIN stock
  <2>1. Seen(F, p) = None /\ At(stock, p) = None
    BY <1>3, NothingThere DEF Plain
  <2>2. Wanted(p) = None
    BY <1>1, <2>1
  <2> QED BY <2>1, <2>2 DEF Same
<1>4. CASE p \in DOMAIN stock
  <2>1. At(stock, p) = stock[p]
    BY <1>4 DEF At
  <2>2. \A a \in DOMAIN F : Under(a, p) => a \in Path /\ Shown(F, a)[1] = "dir"
    BY <1>4, NotLost
  <2>3. CASE p \in Mirrored(t, Tmpfs(t))
    <3>1. MirrorNode(t, F, p)
      BY <2>3, InMirror
    <3>2. PICK d \in Tmpfs(t) : d \in DOMAIN t /\ d \in Path /\ Under(d, p) /\ ~Replaced(t, d)
                                /\ \A a \in DOMAIN t : Under(d, a) => ~Under(a, p)
      BY <3>1 DEF MirrorNode
    <3>3. ~Emptied(p)
      <4> SUFFICES ASSUME Emptied(p) PROVE FALSE
        OBVIOUS
      <4>1. PICK e \in Path : Under(e, p) /\ e \in DOMAIN t /\ IsDirNode(t[e]) /\ t[e].replace
        BY EmptiedBy
      <4>2. OnLine(e, d)
        BY <3>2, <4>1, UnderLinear
      <4> QED BY <3>2, <4>1, <4>2 DEF Replaced
    <3>4. Same(Shown(F, p), stock[p])
      BY <2>3, MirrorShows
    <3>5. Visible(F, p) = Shown(F, p) /\ p \in DOMAIN F
      <4>1. p \in DOMAIN F
        BY <3>1 DEF MirrorNode
      <4> QED BY <2>2, <4>1 DEF Visible
    <3>6. Wanted(p) = stock[p] /\ Seen(F, p) = Shown(F, p)
      BY <1>1, <2>1, <3>3, <3>5 DEF Seen
    <3> QED BY <3>4, <3>6
  <2>4. CASE p \notin Mirrored(t, Tmpfs(t))
    <3>1. p \notin DOMAIN F
      BY <1>2, <2>4, InEnd
    <3>2. Seen(F, p) = IF \E a \in DOMAIN F : Under(a, p) /\ F[a].type = "tmpfs" THEN None ELSE At(stock, p)
      <4>1. Seen(F, p) = Visible(F, p)
        BY <1>4 DEF Seen
      <4> QED BY <2>2, <3>1, <4>1 DEF Visible
    <3>3. Emptied(p) => \E a \in DOMAIN F : Under(a, p) /\ F[a].type = "tmpfs"
      <4> SUFFICES ASSUME Emptied(p) PROVE \E a \in DOMAIN F : Under(a, p) /\ F[a].type = "tmpfs"
        OBVIOUS
      <4>1. PICK e \in Path : Under(e, p) /\ e \in DOMAIN t /\ e \in Tmpfs(t)
        BY EmptiedBy
      <4>2. TreeNode(X, t, F, e)
        BY <4>1, InTree
      <4> QED BY <4>1, <4>2 DEF TreeNode
    <3>4. ASSUME ~Emptied(p), NEW a \in DOMAIN F, Under(a, p), F[a].type = "tmpfs" PROVE FALSE
      <4>1. \E b \in Tmpfs(t) : b \in Path /\ Under(b, p)
        <5>1. CASE a \in DOMAIN t
          <6>1. TreeNode(X, t, F, a)
            BY <5>1, InTree
          <6> QED BY <3>4, <6>1 DEF TreeNode
        <5>2. CASE a \in Mirrored(t, Tmpfs(t))
          <6>1. MirrorNode(t, F, a)
            BY <5>2, InMirror
          <6>2. PICK d \in Tmpfs(t) : d \in Path /\ Under(d, a)
            BY <6>1 DEF MirrorNode
          <6>3. a \in Path
            BY <6>1 DEF MirrorNode
          <6> QED BY <3>4, <6>2, <6>3, UnderTrans
        <5> QED BY <5>1, <5>2, InEnd
      <4>2. PICK b \in Tmpfs(t) : b \in Path /\ Under(b, p)
        BY <4>1
      <4> QED BY <1>2, <1>4, <2>4, <3>4, <4>2, MirroredAll
    <3>5. Seen(F, p) = Wanted(p)
      BY <1>1, <3>2, <3>3, <3>4
    <3> QED BY <3>5 DEF Same
  <2> QED BY <2>3, <2>4
<1> QED BY <1>3, <1>4

-----------------------------------------------------------------------------
(* The invariant and the theorems.                                         *)

\* All paths at once.
LEMMA StageAsWanted ==
  ASSUME NEW X, NEW t, NEW F, Stage(X, t, F), NEW p \in Path, NEW v, At(v, p) = Seen(F, p)
  PROVE  AsWanted(v, p)
<1>1. \A q : q \in Line(p) <=> q \in Path /\ OnLine(q, p)
  BY LineIs
<1>2. CASE \E q \in Line(p) : Conflict(q)
  BY <1>2 DEF AsWanted
<1>3. CASE ~\E q \in Line(p) : Conflict(q)
  <2>1. Clean(p)
    BY <1>1, <1>3 DEF Clean
  <2>2. CASE \E q \in Line(p) : Refused(q)
    <3>1. PICK q \in Path : OnLine(q, p) /\ Refused(q)
      BY <1>1, <2>2
    <3>2. Seen(F, p) = At(stock, p)
      BY <2>1, <3>1, Refusal
    <3> QED BY <2>2, <3>2 DEF AsWanted
  <2>3. CASE ~\E q \in Line(p) : Refused(q)
    <3>1. Plain(p)
      BY <1>1, <2>1, <2>3 DEF Plain, Free
    <3>2. CASE \E q \in Line(p) : WhitedOut(q)
      <4>1. PICK q \in Path : OnLine(q, p) /\ WhitedOut(q)
        BY <1>1, <3>2
      <4>2. Seen(F, p) = None
        BY <3>1, <4>1, WhiteoutSeen
      <4> QED BY <2>3, <3>2, <4>2 DEF AsWanted
    <3>3. CASE ~\E q \in Line(p) : WhitedOut(q)
      <4>1. \A w \in Path : OnLine(w, p) => ~WhitedOut(w)
        BY <1>1, <3>3
      <4>2. Same(Seen(F, p), Wanted(p))
        <5>1. CASE Here(p)
          BY <3>1, <4>1, <5>1, NodeAsWanted DEF OnLine
        <5>2. CASE ~Here(p)
          BY <3>1, <4>1, <5>2, RestAsWanted
        <5> QED BY <5>1, <5>2
      <4> QED BY <2>3, <3>3, <4>2 DEF AsWanted
    <3> QED BY <3>2, <3>3
  <2> QED BY <2>2, <2>3
<1> QED BY <1>2, <1>3

\* What load_modules has done after the loop and the mounts.
Final == LET t1 == IF sbin THEN tree ELSE InjectBins(tree)
             t2 == IF zygisk THEN InjectLibs(t1) ELSE t1
         IN  Prepare(Extract(t2))

\* The tree that mount() is called for has gone through every stage.
LEMMA FinalStage ==
  ASSUME Setting
  PROVE  \E X, t : Stage(X, t, Final)
<1> DEFINE t1 == IF sbin THEN tree ELSE InjectBins(tree)
           t2 == IF zygisk THEN InjectLibs(t1) ELSE t1
           X == Extract(t2)
<1>0. Sound /\ Collected(tree, Len(mods) + 1)
  BY DEF Setting
<1>1. WithBins(t1)
  BY <1>0, BinsThere
<1>2. WithLibs(t2)
  <2> HIDE DEF t1
  <2> QED BY <1>0, <1>1, LibsThere
<1>3. Built(X)
  <2> HIDE DEF t2
  <2> QED BY <1>0, <1>2, ExtractIs
<1>4. Final = Prepare(X)
  BY DEF Final
<1> HIDE DEF X
<1>5. IsPrepared(Prepare(X), Kept(X))
  BY <1>3, PrepareIs DEF Built
<1>6. Stage(X, Kept(X), Final)
  BY <1>3, <1>4, <1>5 DEF Stage
<1> QED BY <1>6

\* Nodes and real files have paths.
LEMMA EndIsPath ==
  ASSUME NEW X, NEW t, NEW F, Stage(X, t, F)
  PROVE  DOMAIN F \cup DOMAIN stock \subseteq Path
<1>1. ASSUME NEW p \in DOMAIN F PROVE p \in Path
  <2>1. TreeNode(X, t, F, p) \/ MirrorNode(t, F, p)
    BY InEnd, InTree, InMirror
  <2> QED BY <2>1 DEF TreeNode, MirrorNode
<1> QED BY <1>1, StageSound, StockIs

\* What mount() leaves shows the overlay at every path.
LEMMA FinalAsWanted ==
  ASSUME Setting, NEW v, v = [p \in DOMAIN Final \cup DOMAIN stock |-> Visible(Final, p)]
  PROVE  DOMAIN v \subseteq Path /\ \A p \in Path : AsWanted(v, p)
<1>1. PICK X, t : Stage(X, t, Final)
  BY FinalStage
<1>2. ASSUME NEW p \in Path PROVE AsWanted(v, p)
  <2>1. At(v, p) = Seen(Final, p)
    BY DEF At, Seen
  <2> QED BY <1>1, <2>1, StageAsWanted
<1>3. DOMAIN v \subseteq Path
  <2>1. DOMAIN v = DOMAIN Final \cup DOMAIN stock
    OBVIOUS
  <2> QED BY <1>1, <2>1, EndIsPath
<1> QED BY <1>2, <1>3

\* The directory of PATH is a path of the modules.
LEMMA DefaultBin == System \o BinDir \in Rooted
<1>1. CASE BinDir = <<>>
  <2>1. System \o BinDir = System
    BY <1>1, SMT DEF System
  <2> QED BY <2>1, SystemIsPath
<1>2. CASE BinDir # <<>>
  <2>1. BinDir \in Path
    BY <1>2, MountAssumption DEF Path
  <2> QED BY <2>1, SystemPath
<1> QED BY <1>1, <1>2

\* The directory of the binaries is a path.
LEMMA BinIsPath == Bin \in Path
<1> DEFINE b == System \o (IF \E i \in Active : System \o <<"bin">> \in DOMAIN mods[i].files
                           THEN <<"bin">> ELSE BinDir)
<1>1. Bin = Place(b)
  BY DEF Bin
<1>2. b \in Rooted
  BY DefaultBin, BinHereIs DEF BinHere
<1> HIDE DEF b
<1> QED BY <1>1, <1>2, PlaceSystem

MountInv ==
  /\ Sound /\ at \in Nat \ {0}
  /\ at <= Len(mods) + 1 => Collected(tree, at)
  /\ at = Len(mods) + 2 => DOMAIN view \subseteq Path /\ \A p \in Path : AsWanted(view, p)

\* The invariant gives the overlay for the paths the property names.
LEMMA InvMounted ==
  ASSUME MountInv
  PROVE  MountedView
<1> SUFFICES ASSUME at = Len(mods) + 2, NEW p \in AllPaths PROVE AsWanted(view, p)
  BY DEF MountedView, Mounted, AsWanted
<1>1. Sound /\ DOMAIN view \subseteq Path /\ \A r \in Path : AsWanted(view, r)
  BY DEF MountInv
<1>2. CASE p \in DOMAIN view
  BY <1>1, <1>2
<1>3. CASE p \in {Append(Bin, n) : n \in Names}
  <2>1. PICK n \in Names : p = Append(Bin, n)
    BY <1>3
  <2>2. n \in Word
    BY MountAssumption
  <2>3. p \in Path
    BY <2>1, <2>2, BinIsPath, AppendIs
  <2> QED BY <1>1, <2>3
<1>4. CASE p \in {System \o <<d, Loader>> : d \in Libs}
  <2>1. PICK d \in Libs : p = System \o <<d, Loader>>
    BY <1>4
  <2>2. p \in Rooted
    BY <2>1, LibPaths
  <2> QED BY <1>1, <2>2 DEF Rooted
<1>5. CASE p \in UNION {{Place(q) : q \in DOMAIN mods[i].files} : i \in Active}
  <2>1. PICK i \in Active : p \in {Place(q) : q \in DOMAIN mods[i].files}
    BY <1>5
  <2>2. PICK q \in DOMAIN mods[i].files : p = Place(q)
    BY <2>1
  <2>3. q \in Rooted
    BY <1>1, ModuleTree
  <2>4. p \in Path
    BY <2>2, <2>3, PlaceSystem
  <2> QED BY <1>1, <2>4
<1> QED BY <1>2, <1>3, <1>4, <1>5 DEF AllPaths

\* A module that takes no part adds nothing.
LEMMA SkipStep ==
  ASSUME Sound, NEW t, NEW k \in Nat, k \notin Active, Collected(t, k)
  PROVE  Collected(t, k + 1)
<1>1. \A i \in Active : i < k + 1 <=> i < k
  <2> SUFFICES ASSUME NEW i \in Active PROVE i < k + 1 <=> i < k
    OBVIOUS
  <2>1. i \in Nat /\ i # k
    BY Modules, SMT DEF Active
  <2> QED BY <2>1, SMT
<1>2. \A q : Given(k + 1, q) = Given(k, q)
  BY <1>1 DEF Given
<1>3. \A q : AsGiven(t, k, q) => AsGiven(t, k + 1, q)
  BY <1>2 DEF AsGiven
<1> QED BY <1>2, <1>3 DEF Collected

\* One turn of the loop over module_list keeps the invariant.
LEMMA LoadStep ==
  ASSUME MountInv, LoadModule
  PROVE  MountInv'
<1>1. Sound /\ at \in Nat \ {0} /\ Len(mods) \in Nat /\ at <= Len(mods) /\ at' = at + 1 /\ Fixed
  BY Modules DEF MountInv, LoadModule, Fixed
<1>2. at <= Len(mods) + 1 /\ at + 1 \in Nat \ {0} /\ at + 1 # Len(mods) + 2
  BY <1>1, SMT
<1>3. Collected(tree, at)
  BY <1>2 DEF MountInv
<1>4. Collected(tree', at + 1)
  <2>1. CASE at \in Active
    <3>1. tree' = Collect(tree, mods[at])
      BY <2>1 DEF LoadModule, Active
    <3> QED BY <1>1, <1>3, <2>1, <3>1, CollectStep
  <2>2. CASE at \notin Active
    <3>1. at \in 1..Len(mods) => tree' = tree
      BY <2>2 DEF LoadModule, Active
    <3>2. CASE at \in 1..Len(mods)
      BY <1>1, <1>3, <2>2, <3>1, <3>2, SkipStep
    <3>3. at \in 1..Len(mods)
      BY <1>1, SMT
    <3> QED BY <3>2, <3>3
  <2> QED BY <2>1, <2>2
<1>5. Collected(tree, at)'
  BY <1>1, <1>4, FixedCollected
<1>6. Sound'
  BY <1>1 DEF Fixed, Sound
<1>7. at' # Len(mods') + 2 /\ at' \in Nat \ {0}
  BY <1>1, <1>2 DEF Fixed
<1> QED BY <1>5, <1>6, <1>7 DEF MountInv

\* prepare() and mount() keep it: the tree is complete, and every path shows
\* what the overlay says.
LEMMA MountStep ==
  ASSUME MountInv, MountTree
  PROVE  MountInv'
<1>1. Sound /\ at \in Nat \ {0} /\ Len(mods) \in Nat /\ at = Len(mods) + 1 /\ at' = at + 1 /\ Fixed
  BY Modules DEF MountInv, MountTree, Fixed
<1>2. at <= Len(mods) + 1 /\ at + 1 \in Nat \ {0} /\ ~(at + 1 <= Len(mods) + 1)
  BY <1>1, SMT
<1>3. Setting
  BY <1>1, <1>2 DEF MountInv, Setting
<1>4. view' = [p \in DOMAIN Final \cup DOMAIN stock |-> Visible(Final, p)]
  BY DEF MountTree, Final
<1>5. DOMAIN view' \subseteq Path /\ \A p \in Path : AsWanted(view', p)
  <2> DEFINE v == [p \in DOMAIN Final \cup DOMAIN stock |-> Visible(Final, p)]
  <2>1. DOMAIN v \subseteq Path /\ \A p \in Path : AsWanted(v, p)
    <3>1. v = [p \in DOMAIN Final \cup DOMAIN stock |-> Visible(Final, p)]
      OBVIOUS
    <3> HIDE DEF v
    <3> QED BY <1>3, <3>1, FinalAsWanted
  <2>2. view' = v
    BY <1>4
  <2> HIDE DEF v
  <2> QED BY <2>1, <2>2
<1>6. \A p \in Path : AsWanted(view, p)'
  BY <1>1, <1>5, FixedView
<1>7. Sound'
  BY <1>1 DEF Fixed, Sound
<1>8. ~(at' <= Len(mods') + 1) /\ at' \in Nat \ {0}
  BY <1>1, <1>2 DEF Fixed
<1> QED BY <1>5, <1>6, <1>7, <1>8 DEF MountInv

\* A step that changes nothing keeps it.
LEMMA StutterStep ==
  ASSUME MountInv, UNCHANGED mountVars
  PROVE  MountInv'
<1>1. Fixed /\ tree' = tree /\ view' = view /\ at' = at
  BY DEF mountVars, Fixed
<1>2. ASSUME Collected(tree, at) PROVE Collected(tree, at)'
  <2>1. Collected(tree', at)
    BY <1>1, <1>2
  <2> QED BY <1>1, <2>1, FixedCollected
<1>3. ASSUME NEW p, AsWanted(view, p) PROVE AsWanted(view, p)'
  BY <1>1, <1>3, FixedView
<1>4. Sound <=> Sound'
  BY <1>1 DEF Fixed, Sound
<1> QED BY <1>1, <1>2, <1>3, <1>4 DEF MountInv, Fixed

Wf == INSTANCE WellFoundedInduction

\* Every set of numbers has a least element.
LEMMA NatWellOrdered == WellOrdered
<1> SUFFICES ASSUME NEW T \in SUBSET Nat, T # {} PROVE \E x \in T : \A y \in T : x <= y
  BY DEF WellOrdered
<1> DEFINE R == Wf!OpToRel(<, Nat)
<1>1. Wf!IsWellFoundedOn(R, Nat)
  BY Wf!NatLessThanWellFounded
<1>2. PICK x \in T : \A y \in T : ~(<<y, x>> \in R)
  <2> HIDE DEF R
  <2> QED BY <1>1, Wf!WFMin
<1>3. ASSUME NEW y \in T PROVE x <= y
  <2>1. ~(<<y, x>> \in R)
    BY <1>2
  <2>2. y < x => <<y, x>> \in R
    BY DEF Wf!OpToRel
  <2>3. x \in Nat /\ y \in Nat
    OBVIOUS
  <2> HIDE DEF R
  <2> QED BY <2>1, <2>2, <2>3, SMT
<1> QED BY <1>3

\* It holds before the first module.
LEMMA InitMount ==
  ASSUME MountInit
  PROVE  MountInv
<1>1. Sound /\ tree = RootOnly /\ at = 1
  BY NatWellOrdered DEF MountInit, Sound
<1>2. Len(mods) \in Nat
  BY <1>1, Modules
<1>3. at \in Nat \ {0} /\ at # Len(mods) + 2
  BY <1>1, <1>2, SMT
<1>4. \A q : Given(1, q) = {}
  <2>1. \A i \in Active : ~(i < 1)
    BY <1>2, SMT DEF Active
  <2> QED BY <2>1 DEF Given
<1>5. DOMAIN RootOnly = {System} /\ RootOnly[System] = Node("root", "dir", "")
  BY DEF RootOnly
<1>6. IsNode(RootOnly[System]) /\ RootOnly[System].type = "root" /\ RootOnly[System].replace = FALSE
  <2>1. LET n == Node("root", "dir", "") IN IsNode(n) /\ n.type = "root" /\ n.replace = FALSE
    BY SMT DEF Node, IsNode
  <2> QED BY <1>5, <2>1
<1>7. BinHere # System
  <2>1. Len(BinHere) = 2 /\ Len(System) = 1
    BY BinHereIs, SystemIsPath
  <2>2. 1 # 2
    BY SMT
  <2> QED BY <2>1, <2>2
<1>8. Collected(RootOnly, 1)
  <2>1. \A q \in Rooted : AsGiven(RootOnly, 1, q)
    BY <1>4, <1>5, <1>6 DEF AsGiven
  <2> QED BY <1>4, <1>5, <1>6, <1>7, <2>1, SystemIsPath DEF Collected
<1> QED BY <1>1, <1>3, <1>8 DEF MountInv

\* load_modules collects module after module: the tree always holds what the
\* modules so far give, and in the end every path shows the overlay.
THEOREM MountInvariant == MountSpec => []MountInv
<1>1. MountInit => MountInv
  BY InitMount
<1>2. MountInv /\ [MountNext]_mountVars => MountInv'
  BY LoadStep, MountStep, StutterStep DEF MountNext
<1> QED BY <1>1, <1>2, PTL DEF MountSpec

\* After load_modules every path shows what the overlay of the modules over the
\* real file system says, for any file system, any number of modules and any
\* files in them: the first module wins, whiteouts and .replace hide what is
\* under them, and a file no module mentions is as before, tmpfs or not.
THEOREM ModulesShowAsWanted == MountSpec => []MountedView
<1>1. MountInv => MountedView
  BY InvMounted
<1> QED BY <1>1, MountInvariant, PTL
=============================================================================
