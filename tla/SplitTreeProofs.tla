-------------------------- MODULE SplitTreeProofs --------------------------
(***************************************************************************)
(* Facts about paths and trees of any size: what the surgery of SplitTree  *)
(* keeps.  No fact needs induction, because a tree is a function over its  *)
(* paths: an operation is described by where it takes each path.  The      *)
(* leaves of a tree, listed in traversal order, are its row: the second    *)
(* part of the module says what each operation does to that row, the third *)
(* what it does to the dividers and to the leaves on their sides.          *)
(***************************************************************************)
EXTENDS SplitTree, SequenceTheorems, FiniteSetTheorems, WellFoundedInduction, TLAPS

Paths == Seq(Sides)
-----------------------------------------------------------------------------
(* Natural numbers.                                                        *)

\* A set of natural numbers has a least element.
LEMMA LeastNat ==
  ASSUME NEW S \in SUBSET Nat, S # {}
  PROVE  \E x \in S : \A y \in S : x <= y
<1>1. PICK x \in S : \A y \in S : ~(<<y, x>> \in OpToRel(<, Nat))
  <2>1. IsWellFoundedOn(OpToRel(<, Nat), Nat)
    BY NatLessThanWellFounded
  <2>. HIDE DEF OpToRel
  <2>. QED BY <2>1, WFMin
<1>2. \A y \in S : ~(y < x)
  BY <1>1 DEF OpToRel
<1>. QED BY <1>2

\* A bounded one has a greatest.
LEMMA GreatestNat ==
  ASSUME NEW S \in SUBSET Nat, S # {}, NEW b \in Nat, \A x \in S : x <= b
  PROVE  \E x \in S : \A y \in S : x >= y
<1> DEFINE Up == {n \in Nat : \A x \in S : x <= n}
<1>1. PICK m \in Up : \A n \in Up : m <= n
  <2>1. Up \in SUBSET Nat /\ b \in Up
    OBVIOUS
  <2> HIDE DEF Up
  <2>. QED BY <2>1, LeastNat
<1>2. m \in Nat /\ \A x \in S : x <= m
  OBVIOUS
<1>3. CASE m = 0
  <2>1. PICK x \in S : TRUE
    OBVIOUS
  <2>2. x \in Nat /\ x = 0 /\ \A y \in S : y \in Nat /\ y <= 0
    BY <1>2, <1>3, <2>1
  <2>. QED BY <2>1, <2>2
<1>4. CASE m # 0
  <2>1. m - 1 \notin Up
    BY <1>1, <1>2, <1>4
  <2>2. PICK x \in S : ~(x <= m - 1)
    BY <1>2, <1>4, <2>1
  <2>. QED BY <1>2, <2>2
<1>. QED BY <1>3, <1>4
-----------------------------------------------------------------------------
(* Paths.                                                                  *)

\* The rest of the path x below its prefix p.
Rest(x, p) == SubSeq(x, Len(p) + 1, Len(x))

LEMMA Concat ==
  /\ <<>> \in Paths
  /\ \A p, q \in Paths : p \o q \in Paths /\ Len(p \o q) = Len(p) + Len(q)
  /\ \A p \in Paths : p \o <<>> = p /\ <<>> \o p = p
  /\ \A p, q, r \in Paths : (p \o q) \o r = p \o (q \o r)
  /\ \A p, q, r \in Paths : p \o q = p \o r => q = r
  /\ \A p, q \in Paths : p \o q = <<>> => p = <<>> /\ q = <<>>
  /\ \A p, q \in Paths : p \o q = p => q = <<>>
<1>1. \A p, q \in Paths : p \o q \in Paths /\ Len(p \o q) = Len(p) + Len(q)
  BY ConcatProperties DEF Paths
<1>2. \A p \in Paths : p \o <<>> = p /\ <<>> \o p = p
  BY ConcatEmptySeq DEF Paths
<1>3. \A p, q, r \in Paths : (p \o q) \o r = p \o (q \o r)
  BY ConcatAssociative, SMTT(30) DEF Paths
<1>4. \A p, q, r \in Paths : p \o q = p \o r => q = r
  BY ConcatSimplifications DEF Paths
<1>5. \A p, q \in Paths : p \o q = <<>> => p = <<>> /\ q = <<>>
  BY ConcatSimplifications DEF Paths
<1>6. \A p, q \in Paths : p \o q = p => q = <<>>
  BY ConcatSimplifications DEF Paths
<1>7. <<>> \in Paths
  BY DEF Paths
<1>. QED BY <1>1, <1>2, <1>3, <1>4, <1>5, <1>6, <1>7

LEMMA Associate ==
  ASSUME NEW p \in Paths, NEW q \in Paths, NEW r \in Paths
  PROVE  (p \o q) \o r = p \o (q \o r)
BY ConcatAssociative, SMTT(30) DEF Paths

LEMMA Cancel ==
  ASSUME NEW p \in Paths, NEW q \in Paths, NEW r \in Paths, p \o q = p \o r
  PROVE  q = r
BY ConcatSimplifications DEF Paths

\* A path below p is p and a rest.
LEMMA RestOf ==
  ASSUME NEW p \in Paths, NEW q \in Paths
  PROVE  /\ IsPrefix(p, p \o q)
         /\ Rest(p \o q, p) = q
<1>1. p \o q \in Paths /\ Len(p \o q) = Len(p) + Len(q) /\ Len(p) \in Nat /\ Len(q) \in Nat
  BY Concat DEF Paths
<1>2. SubSeq(p \o q, 1, Len(p)) = p /\ SubSeq(p, 1, Len(p)) = p
  <2>1. CASE Len(p) = 0
    BY <1>1, <2>1, SubSeqFull, SubSeqEmpty DEF Paths
  <2>2. CASE Len(p) # 0
    BY <1>1, <2>2, SubSeqFull, SubSeqOfConcat1 DEF Paths
  <2>. QED BY <2>1, <2>2
<1>3. SubSeq(p \o q, Len(p) + 1, Len(p \o q)) = q
  <2>1. CASE Len(q) = 0
    BY <1>1, <2>1, SubSeqEmpty DEF Paths
  <2>2. CASE Len(q) # 0
    <3>1. Len(p) + 1 \in (Len(p) + 1)..(Len(p) + Len(q)) /\ Len(p) + Len(q) \in (Len(p) + 1)..(Len(p) + Len(q))
      BY <1>1, <2>2
    <3>2. SubSeq(p \o q, Len(p) + 1, Len(p) + Len(q)) = SubSeq(q, (Len(p) + 1) - Len(p), (Len(p) + Len(q)) - Len(p))
      BY <3>1, SubSeqOfConcat2 DEF Paths
    <3>3. (Len(p) + 1) - Len(p) = 1 /\ (Len(p) + Len(q)) - Len(p) = Len(q)
      BY <1>1
    <3>. QED BY <1>1, <3>2, <3>3, SubSeqFull DEF Paths
  <2>. QED BY <2>1, <2>2, <1>1
<1>. QED BY <1>1, <1>2, <1>3 DEF IsPrefix, Rest

LEMMA PrefixRest ==
  ASSUME NEW p \in Paths, NEW x \in Paths, IsPrefix(p, x)
  PROVE  Rest(x, p) \in Paths /\ x = p \o Rest(x, p)
<1>1. Len(p) \in Nat /\ Len(x) \in Nat /\ Len(p) <= Len(x) /\ SubSeq(x, 1, Len(p)) = p
  BY SubSeqFull DEF IsPrefix, Paths
<1>2. SubSeq(x, 1, Len(p)) \o SubSeq(x, Len(p) + 1, Len(x)) = SubSeq(x, 1, Len(x))
  <2>1. 1 \in 1..(Len(x) + 1) /\ Len(p) \in (1 - 1)..Len(x) /\ Len(x) \in Len(p)..Len(x)
    BY <1>1
  <2>. QED BY <2>1, ConcatAdjacentSubSeq DEF Paths
<1>3. SubSeq(x, 1, Len(x)) = x
  BY SubSeqFull DEF Paths
<1>4. Rest(x, p) \in Paths
  <2>1. \A i \in (Len(p) + 1)..Len(x) : x[i] \in Sides
    BY <1>1 DEF Paths
  <2>. QED BY <1>1, <2>1, SubSeqProperties DEF Rest, Paths
<1>. QED BY <1>1, <1>2, <1>3, <1>4 DEF Rest

\* The prefixes of p \o y are those of p, and p with those of y.
LEMMA PrefixOfConcat ==
  ASSUME NEW p \in Paths, NEW y \in Paths, NEW q \in Paths, IsPrefix(q, p \o y), ~IsPrefix(q, p)
  PROVE  \E z \in Paths : q = p \o z /\ IsPrefix(z, y)
<1>1. p \o y \in Paths /\ Len(p \o y) = Len(p) + Len(y) /\ Len(p) \in Nat /\ Len(y) \in Nat /\ Len(q) \in Nat
  BY Concat DEF Paths
<1>2. Len(q) <= Len(p) + Len(y) /\ SubSeq(p \o y, 1, Len(q)) = q
  BY <1>1, SubSeqFull DEF IsPrefix, Paths
<1>3. Len(q) > Len(p)
  <2> SUFFICES ASSUME Len(q) <= Len(p) PROVE FALSE
    BY <1>1
  <2>1. SubSeq(p \o y, 1, Len(q)) = SubSeq(p, 1, Len(q))
    <3>1. CASE Len(q) = 0
      BY <3>1, SubSeqEmpty
    <3>2. CASE Len(q) # 0
      BY <1>1, <3>2, SubSeqOfConcat1 DEF Paths
    <3>. QED BY <3>1, <3>2
  <2>2. SubSeq(q, 1, Len(q)) = q
    BY SubSeqFull DEF Paths
  <2>. QED BY <1>2, <2>1, <2>2 DEF IsPrefix
<1> DEFINE z == SubSeq(y, 1, Len(q) - Len(p))
<1>4. z \in Paths /\ IsPrefix(z, y)
  <2>1. \A i \in 1..(Len(q) - Len(p)) : y[i] \in Sides
    BY <1>1, <1>2 DEF Paths
  <2>2. z \in Paths /\ Len(z) = Len(q) - Len(p)
    BY <1>1, <1>3, <2>1, SubSeqProperties DEF Paths
  <2>3. SubSeq(z, 1, Len(z)) = z
    BY <2>2, SubSeqFull DEF Paths
  <2>. QED BY <1>1, <1>2, <1>3, <2>2, <2>3 DEF IsPrefix
<1>5. q = p \o z
  <2>1. SubSeq(p \o y, 1, Len(p)) = p
    BY RestOf, <1>1, SubSeqFull DEF IsPrefix, Paths
  <2>2. SubSeq(p \o y, Len(p) + 1, Len(q)) = z
    <3>1. Len(p) + 1 \in (Len(p) + 1)..(Len(p) + Len(y)) /\ Len(q) \in (Len(p) + 1)..(Len(p) + Len(y))
      BY <1>1, <1>2, <1>3
    <3>2. SubSeq(p \o y, Len(p) + 1, Len(q)) = SubSeq(y, (Len(p) + 1) - Len(p), Len(q) - Len(p))
      BY <3>1, SubSeqOfConcat2 DEF Paths
    <3>3. (Len(p) + 1) - Len(p) = 1
      BY <1>1
    <3>. QED BY <3>2, <3>3
  <2>3. SubSeq(p \o y, 1, Len(p)) \o SubSeq(p \o y, Len(p) + 1, Len(q)) = SubSeq(p \o y, 1, Len(q))
    <3>1. 1 \in 1..(Len(p \o y) + 1) /\ Len(p) \in (1 - 1)..Len(p \o y) /\ Len(q) \in Len(p)..Len(p \o y)
      BY <1>1, <1>2, <1>3
    <3>. QED BY <1>1, <3>1, ConcatAdjacentSubSeq DEF Paths
  <2>. QED BY <1>2, <2>1, <2>2, <2>3
<1>. QED BY <1>4, <1>5

\* IsPrefix is a partial order on paths.
LEMMA PrefixOrder ==
  /\ \A p \in Paths : IsPrefix(p, p) /\ IsPrefix(<<>>, p)
  /\ \A p, q \in Paths : IsPrefix(p, q) /\ IsPrefix(q, p) => p = q
  /\ \A p, q, r \in Paths : IsPrefix(p, q) /\ IsPrefix(q, r) => IsPrefix(p, r)
<1>1. ASSUME NEW p \in Paths PROVE IsPrefix(p, p) /\ IsPrefix(<<>>, p)
  <2>1. IsPrefix(p, p \o <<>>) /\ IsPrefix(<<>>, <<>> \o p)
    BY Concat, RestOf
  <2>. QED BY <2>1, Concat
<1>2. ASSUME NEW p \in Paths, NEW q \in Paths, IsPrefix(p, q), IsPrefix(q, p) PROVE p = q
  <2>1. Len(p) = Len(q)
    BY <1>2 DEF IsPrefix, Paths
  <2>. QED BY <1>2, <2>1, SubSeqFull DEF IsPrefix, Paths
<1>3. ASSUME NEW p \in Paths, NEW q \in Paths, NEW r \in Paths, IsPrefix(p, q), IsPrefix(q, r) PROVE IsPrefix(p, r)
  <2>1. Rest(q, p) \in Paths /\ q = p \o Rest(q, p) /\ Rest(r, q) \in Paths /\ r = q \o Rest(r, q)
    BY <1>3, PrefixRest
  <2>2. PICK s \in Paths, t \in Paths : q = p \o s /\ r = q \o t
    BY <2>1
  <2>3. s \o t \in Paths
    BY Concat
  <2>4. (p \o s) \o t = p \o (s \o t)
    BY Associate, SMTT(30)
  <2>5. r = p \o (s \o t)
    BY <2>2, <2>4
  <2>. QED BY <2>3, <2>5, RestOf
<1>. QED BY <1>1, <1>2, <1>3

\* The children of p.
LEMMA Child ==
  ASSUME NEW p \in Paths, NEW s \in Sides
  PROVE  /\ <<s>> \in Paths /\ Append(p, s) = p \o <<s>> /\ p \o <<s>> \in Paths
         /\ p \o <<s>> # p /\ p \o <<s>> # <<>> /\ Front(p \o <<s>>) = p
         /\ \A q \in Paths : IsPrefix(q, p \o <<s>>) => IsPrefix(q, p) \/ q = p \o <<s>>
<1>1. <<s>> \in Paths /\ Len(<<s>>) = 1 /\ Append(p, s) = p \o <<s>>
  BY AppendIsConcat DEF Paths
<1>2. p \o <<s>> \in Paths /\ Len(p \o <<s>>) = Len(p) + 1 /\ Len(p) \in Nat
  BY <1>1, Concat DEF Paths
<1>3. p \o <<s>> # p /\ p \o <<s>> # <<>>
  BY <1>2
<1>4. Front(p \o <<s>>) = p
  <2>1. SubSeq(p \o <<s>>, 1, Len(p)) = p
    BY <1>1, <1>2, RestOf, SubSeqFull DEF IsPrefix, Paths
  <2>2. Len(p \o <<s>>) - 1 = Len(p)
    BY <1>2
  <2>. QED BY <2>1, <2>2 DEF Front
<1>5. ASSUME NEW q \in Paths, IsPrefix(q, p \o <<s>>), ~IsPrefix(q, p)
      PROVE  q = p \o <<s>>
  <2>1. PICK z \in Paths : q = p \o z /\ IsPrefix(z, <<s>>)
    BY <1>1, <1>5, PrefixOfConcat
  <2>2. z = <<>> \/ z = <<s>>
    <3>1. Len(z) \in Nat /\ Len(z) <= 1 /\ SubSeq(z, 1, Len(z)) = z
      BY <1>1, <2>1, SubSeqFull DEF IsPrefix, Paths
    <3>2. CASE Len(z) = 0
      BY <3>2, EmptySeq DEF Paths
    <3>3. CASE Len(z) = 1
      <4>1. z = SubSeq(<<s>>, 1, 1) /\ SubSeq(<<s>>, 1, 1) = <<s>>
        BY <1>1, <2>1, <3>1, <3>3, SubSeqFull DEF IsPrefix, Paths
      <4>. QED BY <4>1
    <3>. QED BY <3>1, <3>2, <3>3
  <2>3. CASE z = <<>>
    BY <1>5, <2>1, <2>3, Concat, PrefixOrder
  <2>. QED BY <2>1, <2>2, <2>3
<1>. QED BY <1>1, <1>2, <1>3, <1>4, <1>5

Other(s) == IF s = "a" THEN "b" ELSE "a"

\* Every path but the root's is a child's, and has a sibling.
LEMMA ParentOf ==
  ASSUME NEW p \in Paths, p # <<>>
  PROVE  \E f \in Paths, s \in Sides :
           p = f \o <<s>> /\ Front(p) = f /\ Sibling(p) = f \o <<Other(s)>>
<1>1. PICK f \in Paths, s \in Sides : p = Append(f, s)
  BY SequenceEmptyOrAppend DEF Paths
<1>2. p = f \o <<s>> /\ Front(p) = f
  BY <1>1, Child
<1>3. Sibling(p) = f \o <<Other(s)>>
  <2>1. Other(s) \in Sides /\ Len(f) \in Nat
    BY DEF Other, Sides, Paths
  <2>2. /\ Append(f, s) \in Paths /\ Len(Append(f, s)) = Len(f) + 1 /\ Append(f, s)[Len(f) + 1] = s
        /\ \A i \in 1..Len(f) : Append(f, s)[i] = f[i]
    BY AppendProperties DEF Paths
  <2>3. /\ Append(f, Other(s)) \in Paths /\ Len(Append(f, Other(s))) = Len(f) + 1
        /\ Append(f, Other(s))[Len(f) + 1] = Other(s)
        /\ \A i \in 1..Len(f) : Append(f, Other(s))[i] = f[i]
    BY <2>1, AppendProperties DEF Paths
  <2>4. Sibling(p) = [p EXCEPT ![Len(f) + 1] = Other(s)]
    BY <1>1, <2>2 DEF Sibling, Other
  <2>5. /\ Sibling(p) \in Paths /\ Len(Sibling(p)) = Len(f) + 1
        /\ \A j \in 1..(Len(f) + 1) : Sibling(p)[j] = IF j = Len(f) + 1 THEN Other(s) ELSE p[j]
    <3>1. Len(f) + 1 \in 1..Len(p) /\ p \in Seq(Sides) /\ Len(p) = Len(f) + 1
      BY <1>1, <2>1, <2>2 DEF Paths
    <3> DEFINE n == Len(f) + 1
               o == Other(s)
    <3>2. n \in 1..Len(p) /\ o \in Sides
      BY <2>1, <3>1
    <3> HIDE DEF n, o
    <3>3. /\ [p EXCEPT ![n] = o] \in Seq(Sides) /\ Len([p EXCEPT ![n] = o]) = Len(p)
          /\ \A j \in 1..Len(p) : [p EXCEPT ![n] = o][j] = IF j = n THEN o ELSE p[j]
      BY <3>1, <3>2, ExceptSeq
    <3>. QED BY <2>4, <3>1, <3>3 DEF n, o, Paths
  <2>6. Sibling(p) = Append(f, Other(s))
    <3>1. \A j \in 1..(Len(f) + 1) : Sibling(p)[j] = Append(f, Other(s))[j]
      BY <1>1, <2>1, <2>2, <2>3, <2>5
    <3>. QED BY <2>3, <2>5, <3>1, SeqEqual DEF Paths
  <2>. QED BY <2>1, <2>6, Child
<1>. QED BY <1>2, <1>3

\* Below a node but not at it is below one of its children, and of one only.
LEMMA BelowChild ==
  ASSUME NEW f \in Paths, NEW x \in Paths, IsPrefix(f, x), x # f
  PROVE  \E s \in Sides : IsPrefix(f \o <<s>>, x)
<1> DEFINE r == Rest(x, f)
<1>1. r \in Paths /\ x = f \o r
  BY PrefixRest
<1> HIDE DEF r
<1>2. r # <<>>
  BY <1>1, Concat
<1>3. Head(r) \in Sides /\ Tail(r) \in Paths
  BY <1>1, <1>2, HeadTailProperties DEF Paths
<1>4. r = <<Head(r)>> \o Tail(r)
  <2>1. r[1] = Head(r) /\ Len(r) \in Nat /\ Len(r) >= 1 /\ Tail(r) = SubSeq(r, 2, Len(r)) /\ SubSeq(r, 1, Len(r)) = r
    BY <1>1, <1>2, TailIsSubSeq, SubSeqFull, EmptySeq DEF Paths
  <2>2. SubSeq(r, 1, Len(r)) = <<r[1]>> \o SubSeq(r, 1 + 1, Len(r))
    BY <1>1, <2>1, SubSeqRecursiveFirst DEF Paths
  <2>. QED BY <2>1, <2>2
<1>5. x = (f \o <<Head(r)>>) \o Tail(r) /\ f \o <<Head(r)>> \in Paths
  <2>1. PICK c \in Paths, t \in Paths : c = <<Head(r)>> /\ t = Tail(r)
    BY <1>3, Child
  <2>2. r = c \o t
    BY <1>4, <2>1
  <2>3. (f \o c) \o t = f \o (c \o t)
    BY Associate, SMTT(30)
  <2>4. x = (f \o c) \o t
    BY <1>1, <2>2, <2>3
  <2>5. f \o c \in Paths
    BY Concat
  <2>. QED BY <2>1, <2>4, <2>5
<1>6. IsPrefix(f \o <<Head(r)>>, x)
  BY <1>3, <1>5, RestOf
<1>. QED BY <1>3, <1>6

LEMMA Turn ==
  ASSUME NEW f \in Paths, NEW x \in Paths, NEW s \in Sides, IsPrefix(f \o <<s>>, x)
  PROVE  x[Len(f) + 1] = s
<1>1. PICK c \in Paths : c = f \o <<s>>
  BY Child
<1>2. Len(c) = Len(f) + 1 /\ c[Len(f) + 1] = s /\ Len(f) \in Nat
  <2>1. Append(f, s) = c
    BY <1>1, Child
  <2>. QED BY <2>1, AppendProperties DEF Paths
<1>3. PICK y \in Paths : x = c \o y
  BY <1>1, PrefixRest
<1>4. Len(f) + 1 \in 1..(Len(c) + Len(y))
  BY <1>2 DEF Paths
<1>5. (c \o y)[Len(f) + 1] = IF Len(f) + 1 <= Len(c) THEN c[Len(f) + 1] ELSE y[(Len(f) + 1) - Len(c)]
  BY <1>4, ConcatProperties DEF Paths
<1>. QED BY <1>2, <1>3, <1>5

LEMMA ChildrenApart ==
  ASSUME NEW f \in Paths, NEW x \in Paths, NEW s \in Sides, NEW u \in Sides,
         IsPrefix(f \o <<s>>, x), IsPrefix(f \o <<u>>, x)
  PROVE  s = u
<1>1. x[Len(f) + 1] = s
  BY Turn
<1>2. x[Len(f) + 1] = u
  BY Turn
<1>. QED BY <1>1, <1>2
-----------------------------------------------------------------------------
(* Trees.                                                                  *)

\* Node records whose applications are in A and whose directions in D.
Blank == ""
Node(A, D) ==
  [id : Nat \ {0}, kind : {"leaf"}, app : A, dir : {Blank}, ratio : {0}]
    \cup [id : Nat \ {0}, kind : {"split"}, app : {Blank}, dir : D, ratio : MinRatio..MaxRatio]

\* ValidShape of a finite tree, closed under every prefix and not only under Front.
Shape(t) ==
  /\ DOMAIN t \subseteq Paths /\ IsFiniteSet(DOMAIN t) /\ <<>> \in DOMAIN t
  /\ \A x \in DOMAIN t, q \in Paths :
        IsPrefix(q, x) /\ q # x => q \in DOMAIN t /\ t[q].kind = "split"
  /\ \A x \in DOMAIN t, u \in Sides : t[x].kind = "split" => x \o <<u>> \in DOMAIN t

IsFcn(f) == f = [x \in DOMAIN f |-> f[x]]

Tree(t, A, D) ==
  /\ IsFcn(t) /\ Shape(t)
  /\ \A x \in DOMAIN t : t[x] \in Node(A, D)

\* A tree passes the shape and split checks of Validate().
LEMMA TreeValid ==
  ASSUME NEW t, NEW A, NEW D, Tree(t, A, D), D \subseteq Dirs
  PROVE  ValidShape(t) /\ ValidSplits(t)
<1>1. <<>> \in DOMAIN t /\ DOMAIN t \subseteq Paths
  BY DEF Tree, Shape
<1>2. ASSUME NEW x \in DOMAIN t, x # <<>>
      PROVE  Front(x) \in DOMAIN t /\ t[Front(x)].kind = "split"
  <2>1. x \in Paths
    BY <1>1
  <2>2. PICK f \in Paths, s \in Sides : x = f \o <<s>> /\ Front(x) = f
    BY <1>2, <2>1, ParentOf
  <2>3. IsPrefix(f, x) /\ f # x
    BY <2>2, Child, RestOf
  <2>. QED BY <2>2, <2>3 DEF Tree, Shape
<1>3. ASSUME NEW x \in DOMAIN t, t[x].kind = "split", NEW s \in Sides
      PROVE  Append(x, s) \in DOMAIN t
  <2>1. Append(x, s) = x \o <<s>>
    BY <1>1, Child
  <2>. QED BY <1>3, <2>1 DEF Tree, Shape
<1>4. ASSUME NEW x \in DOMAIN t, t[x].kind = "split"
      PROVE  t[x].dir \in Dirs /\ t[x].ratio \in MinRatio..MaxRatio
  BY <1>4 DEF Tree, Node
<1>. QED BY <1>1, <1>2, <1>3, <1>4 DEF ValidShape, ValidSplits

LEMMA NodeFields ==
  ASSUME NEW A, NEW D, NEW n \in Node(A, D)
  PROVE  n \in [id : Nat \ {0}, kind : {"leaf", "split"}, app : A \cup {Blank}, dir : D \cup {Blank},
                ratio : 0..MaxRatio]
BY DEF Node, MinRatio, MaxRatio

\* Finite sets of paths stay finite when they are moved.
LEMMA MovedFinite ==
  ASSUME NEW S \in SUBSET Paths, IsFiniteSet(S), NEW p \in Paths
  PROVE  IsFiniteSet({p \o y : y \in S})
<1> DEFINE f == [y \in S |-> p \o y]
           T == {p \o y : y \in S}
<1>1. f \in Surjection(S, T)
  BY DEF Surjection
<1> HIDE DEF f, T
<1>2. IsFiniteSet(T)
  BY <1>1, FS_Surjection
<1>. QED BY <1>2 DEF T

\* Nothing is below a leaf.
LEMMA BelowLeaf ==
  ASSUME NEW t, NEW A, NEW D, Tree(t, A, D), NEW p \in DOMAIN t, t[p].kind = "leaf",
         NEW x \in DOMAIN t, IsPrefix(p, x)
  PROVE  x = p
BY DEF Tree, Shape

LEMMA LeafTreeTree ==
  ASSUME NEW A, NEW D, NEW leaf \in Node(A, D), leaf.kind = "leaf"
  PROVE  /\ Tree(LeafTree(leaf), A, D) /\ UniqueIds(LeafTree(leaf))
         /\ NodeIds(LeafTree(leaf)) = {leaf.id}
         /\ DOMAIN LeafTree(leaf) = {<<>>} /\ LeafTree(leaf)[<<>>] = leaf
<1> DEFINE t == LeafTree(leaf)
<1>1. DOMAIN t = {<<>>} /\ t[<<>>] = leaf /\ IsFcn(t)
  BY DEF LeafTree, IsFcn
<1> HIDE DEF t
<1>2. Shape(t)
  <2>1. IsFiniteSet({<<>>})
    BY FS_Singleton
  <2>2. <<>> \in Paths
    BY Concat
  <2>3. \A q \in Paths : IsPrefix(q, <<>>) => q = <<>>
    BY <2>2, PrefixOrder
  <2>. QED BY <1>1, <2>1, <2>2, <2>3 DEF Shape
<1>3. NodeIds(t) = {leaf.id} /\ UniqueIds(t)
  BY <1>1 DEF NodeIds, UniqueIds
<1>. QED BY <1>1, <1>2, <1>3 DEF Tree, t
-----------------------------------------------------------------------------
(* Subtree.                                                                *)

LEMMA SubtreePaths ==
  ASSUME NEW t, NEW A, NEW D, Tree(t, A, D), NEW p \in DOMAIN t
  PROVE  /\ \A y : y \in DOMAIN Subtree(t, p) <=> y \in Paths /\ p \o y \in DOMAIN t
         /\ \A y \in DOMAIN Subtree(t, p) : Subtree(t, p)[y] = t[p \o y]
         /\ IsFcn(Subtree(t, p))
<1>1. p \in Paths /\ DOMAIN t \subseteq Paths
  BY DEF Tree, Shape
<1> DEFINE S == {SubSeq(x, Len(p) + 1, Len(x)) : x \in {y \in DOMAIN t : IsPrefix(p, y)}}
<1>2. ASSUME NEW y \in S PROVE y \in Paths /\ p \o y \in DOMAIN t
  <2>1. PICK x \in DOMAIN t : IsPrefix(p, x) /\ y = Rest(x, p)
    BY DEF Rest
  <2>. QED BY <1>1, <2>1, PrefixRest
<1>3. ASSUME NEW y \in Paths, p \o y \in DOMAIN t PROVE y \in S
  <2>1. IsPrefix(p, p \o y) /\ Rest(p \o y, p) = y
    BY <1>1, RestOf
  <2>2. PICK x \in DOMAIN t : x = p \o y
    BY <1>3
  <2>. QED BY <2>1, <2>2 DEF Rest
<1>4. Subtree(t, p) = [y \in S |-> t[p \o y]]
  BY DEF Subtree
<1> HIDE DEF S
<1>5. DOMAIN Subtree(t, p) = S /\ \A y \in S : Subtree(t, p)[y] = t[p \o y]
  BY <1>4
<1>. QED BY <1>2, <1>3, <1>4, <1>5 DEF IsFcn

LEMMA SubtreeTree ==
  ASSUME NEW t, NEW A, NEW D, Tree(t, A, D), NEW p \in DOMAIN t
  PROVE  Tree(Subtree(t, p), A, D)
<1> DEFINE s == Subtree(t, p)
<1>1. p \in Paths /\ DOMAIN t \subseteq Paths /\ IsFiniteSet(DOMAIN t)
  BY DEF Tree, Shape
<1>2. /\ \A y : y \in DOMAIN s <=> y \in Paths /\ p \o y \in DOMAIN t
      /\ \A y \in DOMAIN s : s[y] = t[p \o y]
      /\ IsFcn(s)
  BY SubtreePaths
<1> HIDE DEF s
<1>3. <<>> \in DOMAIN s
  <2>1. <<>> \in Paths /\ p \o <<>> = p
    BY <1>1, Concat
  <2>. QED BY <1>2, <2>1
<1>4. ASSUME NEW x \in DOMAIN s, NEW q \in Paths, IsPrefix(q, x), q # x
      PROVE  q \in DOMAIN s /\ s[q].kind = "split"
  <2>1. x \in Paths /\ p \o x \in DOMAIN t /\ p \o q \in Paths
    BY <1>1, <1>2, Concat
  <2>2. PICK r \in Paths : x = q \o r
    BY <1>4, <2>1, PrefixRest
  <2>3. p \o x = (p \o q) \o r
    BY <1>1, <2>2, Associate
  <2>4. IsPrefix(p \o q, p \o x)
    BY <2>1, <2>3, RestOf
  <2>5. p \o q # p \o x
    BY <1>1, <1>4, <2>1, Cancel
  <2>6. p \o q \in DOMAIN t /\ t[p \o q].kind = "split"
    BY <2>1, <2>4, <2>5 DEF Tree, Shape
  <2>. QED BY <1>2, <2>6
<1>5. ASSUME NEW x \in DOMAIN s, NEW u \in Sides, s[x].kind = "split"
      PROVE  x \o <<u>> \in DOMAIN s
  <2>1. x \in Paths /\ p \o x \in DOMAIN t /\ t[p \o x].kind = "split"
    BY <1>2, <1>5
  <2>2. PICK c \in Paths : c = <<u>>
    BY <1>1, Child
  <2>3. (p \o x) \o c \in DOMAIN t
    BY <2>1, <2>2 DEF Tree, Shape
  <2>4. (p \o x) \o c = p \o (x \o c)
    BY <1>1, <2>1, Associate
  <2>5. x \o c \in Paths
    BY <2>1, Concat
  <2>. QED BY <1>2, <2>2, <2>3, <2>4, <2>5
<1>6. IsFiniteSet(DOMAIN s)
  <2> DEFINE B == {y \in DOMAIN t : IsPrefix(p, y)}
             f == [y \in B |-> Rest(y, p)]
  <2>1. IsFiniteSet(B)
    BY <1>1, FS_Subset
  <2>2. f \in Surjection(B, DOMAIN s)
    <3>1. ASSUME NEW y \in B PROVE f[y] \in DOMAIN s
      BY <1>1, <1>2, PrefixRest
    <3>2. ASSUME NEW y \in DOMAIN s PROVE \E x \in B : f[x] = y
      <4>1. p \o y \in B
        BY <1>1, <1>2, RestOf
      <4>2. f[p \o y] = y
        BY <1>1, <1>2, <4>1, RestOf
      <4>. QED BY <4>1, <4>2
    <3>. QED BY <3>1, <3>2 DEF Surjection
  <2>. HIDE DEF B, f
  <2>. QED BY <2>1, <2>2, FS_Surjection
<1>7. Shape(s)
  BY <1>2, <1>3, <1>4, <1>5, <1>6 DEF Shape
<1>8. \A y \in DOMAIN s : s[y] \in Node(A, D)
  BY <1>2 DEF Tree
<1>. QED BY <1>2, <1>7, <1>8 DEF Tree, s
-----------------------------------------------------------------------------
(* Replace.                                                                *)

LEMMA ReplacePaths ==
  ASSUME NEW t, NEW A, NEW D, Tree(t, A, D), NEW p \in DOMAIN t, NEW s, Tree(s, A, D)
  PROVE  /\ \A x : x \in DOMAIN Replace(t, p, s) <=>
              (x \in DOMAIN t /\ ~IsPrefix(p, x)) \/ \E y \in DOMAIN s : x = p \o y
         /\ \A x \in DOMAIN t : ~IsPrefix(p, x) =>
              x \in DOMAIN Replace(t, p, s) /\ Replace(t, p, s)[x] = t[x]
         /\ \A y \in DOMAIN s :
              p \o y \in DOMAIN Replace(t, p, s) /\ Replace(t, p, s)[p \o y] = s[y]
         /\ IsFcn(Replace(t, p, s))
<1>1. p \in Paths /\ DOMAIN s \subseteq Paths
  BY DEF Tree, Shape
<1> DEFINE R == Replace(t, p, s)
           S == {x \in DOMAIN t : ~IsPrefix(p, x)} \cup {p \o y : y \in DOMAIN s}
<1>2. R = [x \in S |-> IF IsPrefix(p, x) THEN s[Rest(x, p)] ELSE t[x]]
  BY DEF Replace, Rest
<1>3. DOMAIN R = S /\ IsFcn(R)
  BY <1>2 DEF IsFcn
<1>4. \A y \in DOMAIN s : p \o y \in S /\ IsPrefix(p, p \o y) /\ Rest(p \o y, p) = y
  BY <1>1, RestOf
<1>5. \A x \in DOMAIN t : ~IsPrefix(p, x) => x \in S
  OBVIOUS
<1> HIDE DEF R, S
<1>6. \A y \in DOMAIN s : p \o y \in DOMAIN R /\ R[p \o y] = s[y]
  BY <1>2, <1>3, <1>4
<1>7. \A x \in DOMAIN t : ~IsPrefix(p, x) => x \in DOMAIN R /\ R[x] = t[x]
  BY <1>2, <1>3, <1>5
<1>. QED BY <1>3, <1>6, <1>7 DEF R, S, IsFcn

LEMMA ReplaceTree ==
  ASSUME NEW t, NEW A, NEW D, Tree(t, A, D), NEW p \in DOMAIN t, NEW s, Tree(s, A, D)
  PROVE  Tree(Replace(t, p, s), A, D)
<1> DEFINE R == Replace(t, p, s)
<1>1. /\ p \in Paths /\ DOMAIN t \subseteq Paths /\ IsFiniteSet(DOMAIN t)
      /\ DOMAIN s \subseteq Paths /\ IsFiniteSet(DOMAIN s)
  BY DEF Tree, Shape
<1>2. /\ \A x : x \in DOMAIN R <=> (x \in DOMAIN t /\ ~IsPrefix(p, x)) \/ \E y \in DOMAIN s : x = p \o y
      /\ \A x \in DOMAIN t : ~IsPrefix(p, x) => x \in DOMAIN R /\ R[x] = t[x]
      /\ \A y \in DOMAIN s : p \o y \in DOMAIN R /\ R[p \o y] = s[y]
      /\ IsFcn(R)
  BY ReplacePaths
<1> HIDE DEF R
<1>3. \A y \in Paths : p \o y \in Paths
  BY <1>1, Concat
<1>4. DOMAIN R \subseteq Paths
  BY <1>1, <1>2, <1>3
<1>5. <<>> \in DOMAIN s /\ p = p \o <<>> /\ p \in DOMAIN R
  <2>1. <<>> \in DOMAIN s
    BY DEF Tree, Shape
  <2>2. p = p \o <<>>
    BY <1>1, Concat
  <2>. QED BY <1>2, <2>1, <2>2
\* The prefixes of p: split nodes of t, but for p itself.
<1>6. ASSUME NEW q \in Paths, IsPrefix(q, p), q # p
      PROVE  q \in DOMAIN R /\ R[q].kind = "split"
  <2>1. q \in DOMAIN t /\ t[q].kind = "split"
    BY <1>6 DEF Tree, Shape
  <2>2. ~IsPrefix(p, q)
    BY <1>1, <1>6, PrefixOrder
  <2>. QED BY <1>2, <2>1, <2>2
<1>7. <<>> \in DOMAIN R
  <2>1. <<>> \in Paths /\ IsPrefix(<<>>, p)
    BY <1>1, Concat, PrefixOrder
  <2>. QED BY <1>5, <1>6, <2>1
<1>8. ASSUME NEW x \in DOMAIN R, NEW q \in Paths, IsPrefix(q, x), q # x
      PROVE  q \in DOMAIN R /\ R[q].kind = "split"
  <2>1. CASE x \in DOMAIN t /\ ~IsPrefix(p, x)
    <3>1. q \in DOMAIN t /\ t[q].kind = "split"
      BY <1>8, <2>1 DEF Tree, Shape
    <3>2. ~IsPrefix(p, q)
      BY <1>1, <1>4, <1>8, <2>1, PrefixOrder
    <3>. QED BY <1>2, <3>1, <3>2
  <2>2. ASSUME NEW y \in DOMAIN s, x = p \o y
        PROVE  q \in DOMAIN R /\ R[q].kind = "split"
    <3>0. y \in Paths
      BY <1>1
    <3>1. CASE ~IsPrefix(q, p)
      <4>1. PICK z \in Paths : q = p \o z /\ IsPrefix(z, y)
        BY <1>1, <1>8, <2>2, <3>0, <3>1, PrefixOfConcat
      <4>2. z # y
        BY <1>8, <2>2, <4>1
      <4>3. z \in DOMAIN s /\ s[z].kind = "split"
        BY <4>1, <4>2 DEF Tree, Shape
      <4>. QED BY <1>2, <4>1, <4>3
    <3>2. CASE IsPrefix(q, p) /\ q # p
      BY <1>6, <3>2
    <3>3. CASE q = p
      <4>1. y # <<>>
        BY <1>5, <1>8, <2>2, <3>3
      <4>2. IsPrefix(<<>>, y)
        BY <3>0, PrefixOrder
      <4>3. s[<<>>].kind = "split"
        BY <4>1, <4>2, Concat DEF Tree, Shape
      <4>. QED BY <1>2, <1>5, <3>3, <4>3
    <3>. QED BY <3>1, <3>2, <3>3
  <2>. QED BY <1>2, <2>1, <2>2
<1>9. ASSUME NEW x \in DOMAIN R, NEW u \in Sides, R[x].kind = "split"
      PROVE  x \o <<u>> \in DOMAIN R
  <2>1. CASE x \in DOMAIN t /\ ~IsPrefix(p, x)
    <3>1. t[x].kind = "split"
      BY <1>2, <1>9, <2>1
    <3>2. x \o <<u>> \in DOMAIN t
      BY <2>1, <3>1 DEF Tree, Shape
    <3>3. CASE ~IsPrefix(p, x \o <<u>>)
      BY <1>2, <3>2, <3>3
    <3>4. CASE IsPrefix(p, x \o <<u>>)
      <4>1. p = x \o <<u>>
        BY <1>1, <1>4, <2>1, <3>4, Child
      <4>. QED BY <1>5, <4>1
    <3>. QED BY <3>3, <3>4
  <2>2. ASSUME NEW y \in DOMAIN s, x = p \o y PROVE x \o <<u>> \in DOMAIN R
    <3>1. s[y].kind = "split" /\ y \in Paths
      BY <1>1, <1>2, <1>9, <2>2
    <3>2. PICK c \in Paths : c = <<u>>
      BY <1>1, Child
    <3>3. y \o c \in DOMAIN s
      BY <3>1, <3>2 DEF Tree, Shape
    <3>4. (p \o y) \o c = p \o (y \o c)
      BY <1>1, <3>1, Associate
    <3>. QED BY <1>2, <2>2, <3>2, <3>3, <3>4
  <2>. QED BY <1>2, <2>1, <2>2
<1>10. IsFiniteSet(DOMAIN R)
  <2> DEFINE K == {x \in DOMAIN t : ~IsPrefix(p, x)}
             M == {p \o y : y \in DOMAIN s}
  <2>1. IsFiniteSet(K)
    BY <1>1, FS_Subset
  <2>2. IsFiniteSet(M)
    BY <1>1, MovedFinite
  <2>3. DOMAIN R = K \cup M
    BY <1>2
  <2>. HIDE DEF K, M
  <2>. QED BY <2>1, <2>2, <2>3, FS_Union
<1>11. Shape(R)
  BY <1>4, <1>7, <1>8, <1>9, <1>10 DEF Shape
<1>12. \A x \in DOMAIN R : R[x] \in Node(A, D)
  <2> SUFFICES ASSUME NEW x \in DOMAIN R PROVE R[x] \in Node(A, D)
    OBVIOUS
  <2>1. CASE x \in DOMAIN t /\ ~IsPrefix(p, x)
    BY <1>2, <2>1 DEF Tree
  <2>2. ASSUME NEW y \in DOMAIN s, x = p \o y PROVE R[x] \in Node(A, D)
    BY <1>2, <2>2 DEF Tree
  <2>. QED BY <1>2, <2>1, <2>2
<1>. QED BY <1>2, <1>11, <1>12 DEF Tree, R

\* The ids at and below p, and the others.
IdsAt(t, p) == {t[x].id : x \in {y \in DOMAIN t : IsPrefix(p, y)}}
IdsOff(t, p) == {t[x].id : x \in {y \in DOMAIN t : ~IsPrefix(p, y)}}

LEMMA IdsSplit ==
  ASSUME NEW t, NEW p
  PROVE  /\ NodeIds(t) = IdsAt(t, p) \cup IdsOff(t, p)
         /\ UniqueIds(t) => IdsAt(t, p) \cap IdsOff(t, p) = {}
BY DEF NodeIds, IdsAt, IdsOff, UniqueIds

LEMMA SubtreeIds ==
  ASSUME NEW t, NEW A, NEW D, Tree(t, A, D), NEW p \in DOMAIN t
  PROVE  /\ NodeIds(Subtree(t, p)) = IdsAt(t, p)
         /\ UniqueIds(t) => UniqueIds(Subtree(t, p))
<1>1. p \in Paths /\ DOMAIN t \subseteq Paths
  BY DEF Tree, Shape
<1> DEFINE s == Subtree(t, p)
<1>2. /\ \A y : y \in DOMAIN s <=> y \in Paths /\ p \o y \in DOMAIN t
      /\ \A y \in DOMAIN s : s[y] = t[p \o y]
  BY SubtreePaths
<1> HIDE DEF s
<1>3. \A n : n \in NodeIds(s) => n \in IdsAt(t, p)
  <2>1. \A y \in DOMAIN s : p \o y \in DOMAIN t /\ IsPrefix(p, p \o y) /\ s[y].id = t[p \o y].id
    BY <1>1, <1>2, RestOf
  <2>. QED BY <2>1 DEF NodeIds, IdsAt
<1>4. \A n : n \in IdsAt(t, p) => n \in NodeIds(s)
  <2> SUFFICES ASSUME NEW x \in DOMAIN t, IsPrefix(p, x) PROVE t[x].id \in NodeIds(s)
    BY DEF IdsAt
  <2>1. Rest(x, p) \in Paths /\ x = p \o Rest(x, p)
    BY <1>1, PrefixRest
  <2>2. Rest(x, p) \in DOMAIN s /\ s[Rest(x, p)] = t[x]
    BY <1>2, <2>1
  <2>. QED BY <2>2 DEF NodeIds
<1>5. ASSUME UniqueIds(t) PROVE UniqueIds(s)
  <2> SUFFICES ASSUME NEW x \in DOMAIN s, NEW y \in DOMAIN s, s[x].id = s[y].id PROVE x = y
    BY DEF UniqueIds
  <2>1. p \o x = p \o y
    BY <1>2, <1>5 DEF UniqueIds
  <2>2. x \in Paths /\ y \in Paths
    BY <1>2
  <2>. QED BY <1>1, <2>1, <2>2, Cancel
<1>. QED BY <1>3, <1>4, <1>5 DEF s

LEMMA ReplaceIds ==
  ASSUME NEW t, NEW A, NEW D, Tree(t, A, D), NEW p \in DOMAIN t, NEW s, Tree(s, A, D)
  PROVE  /\ NodeIds(Replace(t, p, s)) = IdsOff(t, p) \cup NodeIds(s)
         /\ UniqueIds(t) /\ UniqueIds(s) /\ IdsOff(t, p) \cap NodeIds(s) = {} =>
              UniqueIds(Replace(t, p, s))
<1> DEFINE R == Replace(t, p, s)
<1>1. /\ \A x : x \in DOMAIN R <=> (x \in DOMAIN t /\ ~IsPrefix(p, x)) \/ \E y \in DOMAIN s : x = p \o y
      /\ \A x \in DOMAIN t : ~IsPrefix(p, x) => x \in DOMAIN R /\ R[x] = t[x]
      /\ \A y \in DOMAIN s : p \o y \in DOMAIN R /\ R[p \o y] = s[y]
      /\ IsFcn(R)
  BY ReplacePaths
<1> HIDE DEF R
<1>2. \A n : n \in NodeIds(R) => n \in IdsOff(t, p) \cup NodeIds(s)
  <2> SUFFICES ASSUME NEW x \in DOMAIN R PROVE R[x].id \in IdsOff(t, p) \cup NodeIds(s)
    BY DEF NodeIds
  <2>1. CASE x \in DOMAIN t /\ ~IsPrefix(p, x)
    BY <1>1, <2>1 DEF IdsOff
  <2>2. ASSUME NEW y \in DOMAIN s, x = p \o y PROVE R[x].id \in NodeIds(s)
    BY <1>1, <2>2 DEF NodeIds
  <2>. QED BY <1>1, <2>1, <2>2
<1>3. \A n : n \in IdsOff(t, p) => n \in NodeIds(R)
  BY <1>1 DEF NodeIds, IdsOff
<1>4. \A n : n \in NodeIds(s) => n \in NodeIds(R)
  BY <1>1 DEF NodeIds
<1>5. ASSUME UniqueIds(t), UniqueIds(s), IdsOff(t, p) \cap NodeIds(s) = {}
      PROVE  UniqueIds(R)
  <2> SUFFICES ASSUME NEW x \in DOMAIN R, NEW y \in DOMAIN R, R[x].id = R[y].id PROVE x = y
    BY DEF UniqueIds
  <2>1. CASE x \in DOMAIN t /\ ~IsPrefix(p, x) /\ y \in DOMAIN t /\ ~IsPrefix(p, y)
    BY <1>1, <1>5, <2>1 DEF UniqueIds
  <2>2. ASSUME NEW v \in DOMAIN s, NEW w \in DOMAIN s, x = p \o v, y = p \o w PROVE x = y
    BY <1>1, <1>5, <2>2 DEF UniqueIds
  <2>3. ASSUME NEW v \in DOMAIN t, NEW w \in DOMAIN s, ~IsPrefix(p, v), R[v].id = R[p \o w].id PROVE FALSE
    <3>1. t[v].id \in IdsOff(t, p) /\ s[w].id \in NodeIds(s)
      BY <2>3 DEF IdsOff, NodeIds
    <3>2. t[v].id = s[w].id
      BY <1>1, <2>3
    <3>. QED BY <1>5, <3>1, <3>2
  <2>4. CASE x \in DOMAIN t /\ ~IsPrefix(p, x) /\ ~(y \in DOMAIN t /\ ~IsPrefix(p, y))
    <3>1. PICK w \in DOMAIN s : y = p \o w
      BY <1>1, <2>4
    <3>. QED BY <2>3, <2>4, <3>1
  <2>5. CASE ~(x \in DOMAIN t /\ ~IsPrefix(p, x)) /\ y \in DOMAIN t /\ ~IsPrefix(p, y)
    <3>1. PICK w \in DOMAIN s : x = p \o w
      BY <1>1, <2>5
    <3>. QED BY <2>3, <2>5, <3>1
  <2>6. CASE ~(x \in DOMAIN t /\ ~IsPrefix(p, x)) /\ ~(y \in DOMAIN t /\ ~IsPrefix(p, y))
    <3>1. PICK v \in DOMAIN s : x = p \o v
      BY <1>1, <2>6
    <3>2. PICK w \in DOMAIN s : y = p \o w
      BY <1>1, <2>6
    <3>. QED BY <2>2, <3>1, <3>2
  <2>. QED BY <2>1, <2>4, <2>5, <2>6
<1>. QED BY <1>2, <1>3, <1>4, <1>5 DEF R
-----------------------------------------------------------------------------
(* Join.                                                                   *)

\* The path of a child of the root, and what is below it.
LEMMA FirstStep ==
  ASSUME NEW s \in Sides
  PROVE  /\ <<s>> \in Paths /\ <<s>> # <<>>
         /\ \A y \in Paths : <<s>> \o y \in Paths /\ <<s>> \o y # <<>>
         /\ \A y \in Paths : Head(<<s>> \o y) = s /\ Tail(<<s>> \o y) = y
         /\ \A q \in Paths : IsPrefix(q, <<s>>) => q = <<>> \/ q = <<s>>
<1>0. <<>> \in Paths
  BY Concat
<1>1. <<s>> \in Paths
  BY <1>0, Child
<1>2. <<>> \o <<s>> = <<s>>
  BY <1>1, Concat
<1>3. ASSUME NEW y \in Paths
      PROVE  <<s>> \o y \in Paths /\ <<s>> \o y # <<>> /\ Head(<<s>> \o y) = s /\ Tail(<<s>> \o y) = y
  <2>1. PICK x \in Paths : x = <<s>> \o y
    BY <1>1, Concat
  <2>2. x # <<>>
    BY <1>1, <2>1, Concat
  <2>3. IsPrefix(<<s>>, x) /\ Rest(x, <<s>>) = y
    BY <1>1, <2>1, RestOf
  <2>4. x[Len(<<>>) + 1] = s
    BY <1>0, <1>2, <2>3, Turn
  <2>5. Head(x) = s
    BY <2>4
  <2>6. Tail(x) = y
    <3>1. Tail(x) = SubSeq(x, 2, Len(x))
      BY <2>1, <2>2, TailIsSubSeq DEF Paths
    <3>. QED BY <2>3, <3>1 DEF Rest
  <2>. QED BY <2>1, <2>2, <2>5, <2>6
<1>4. ASSUME NEW q \in Paths, IsPrefix(q, <<s>>) PROVE q = <<>> \/ q = <<s>>
  <2>1. IsPrefix(q, <<>>) \/ q = <<>> \o <<s>>
    <3>1. IsPrefix(q, <<>> \o <<s>>)
      BY <1>2, <1>4
    <3>2. \A r \in Paths : IsPrefix(r, <<>> \o <<s>>) => IsPrefix(r, <<>>) \/ r = <<>> \o <<s>>
      BY <1>0, Child
    <3>. QED BY <3>1, <3>2
  <2>. QED BY <1>0, <1>2, <2>1, PrefixOrder
<1>5. <<s>> # <<>>
  OBVIOUS
<1>. QED BY <1>1, <1>3, <1>4, <1>5

\* The tree on side s.
On(s, ta, tb) == IF s = "a" THEN ta ELSE tb

LEMMA JoinPaths ==
  ASSUME NEW split, NEW A, NEW D, NEW ta, NEW tb, Tree(ta, A, D), Tree(tb, A, D)
  PROVE  /\ \A x : x \in DOMAIN Join(split, ta, tb) <=>
              x = <<>> \/ \E s \in Sides : \E y \in DOMAIN On(s, ta, tb) : x = <<s>> \o y
         /\ Join(split, ta, tb)[<<>>] = split
         /\ \A s \in Sides : \A y \in DOMAIN On(s, ta, tb) :
              /\ <<s>> \o y \in DOMAIN Join(split, ta, tb)
              /\ Join(split, ta, tb)[<<s>> \o y] = On(s, ta, tb)[y]
         /\ IsFcn(Join(split, ta, tb))
<1> DEFINE J == Join(split, ta, tb)
           S == {<<>>} \cup {<<"a">> \o x : x \in DOMAIN ta} \cup {<<"b">> \o x : x \in DOMAIN tb}
<1>1. J = [x \in S |-> IF x = <<>> THEN split ELSE IF Head(x) = "a" THEN ta[Tail(x)] ELSE tb[Tail(x)]]
  BY DEF Join
<1>2. ASSUME NEW x
      PROVE  x \in S <=> x = <<>> \/ \E s \in Sides : \E y \in DOMAIN On(s, ta, tb) : x = <<s>> \o y
  BY DEF Sides, On
<1> HIDE DEF J, S
<1>3. DOMAIN J = S /\ IsFcn(J)
  BY <1>1 DEF IsFcn
<1>4. J[<<>>] = split
  BY <1>1, <1>2
<1>5. ASSUME NEW s \in Sides, NEW y \in DOMAIN On(s, ta, tb)
      PROVE  <<s>> \o y \in DOMAIN J /\ J[<<s>> \o y] = On(s, ta, tb)[y]
  <2>1. y \in Paths
    BY DEF On, Tree, Shape
  <2>2. PICK x \in Paths : x = <<s>> \o y
    BY <2>1, FirstStep
  <2>3. x # <<>> /\ Head(x) = s /\ Tail(x) = y
    BY <2>1, <2>2, FirstStep
  <2>4. x \in S
    BY <1>2, <2>2
  <2>5. J[x] = On(s, ta, tb)[y]
    BY <1>1, <2>3, <2>4 DEF On, Sides
  <2>. QED BY <1>3, <2>2, <2>4, <2>5
<1>6. \A x : x \in DOMAIN J <=> x = <<>> \/ \E s \in Sides : \E y \in DOMAIN On(s, ta, tb) : x = <<s>> \o y
  BY <1>2, <1>3
<1>. QED BY <1>3, <1>4, <1>5, <1>6 DEF J

LEMMA JoinTree ==
  ASSUME NEW A, NEW D, NEW split \in Node(A, D), split.kind = "split",
         NEW ta, NEW tb, Tree(ta, A, D), Tree(tb, A, D)
  PROVE  Tree(Join(split, ta, tb), A, D)
<1> DEFINE J == Join(split, ta, tb)
<1>1. /\ \A x : x \in DOMAIN J <=>
           x = <<>> \/ \E s \in Sides : \E y \in DOMAIN On(s, ta, tb) : x = <<s>> \o y
      /\ J[<<>>] = split
      /\ \A s \in Sides : \A y \in DOMAIN On(s, ta, tb) :
           /\ <<s>> \o y \in DOMAIN J
           /\ J[<<s>> \o y] = On(s, ta, tb)[y]
      /\ IsFcn(J)
  BY JoinPaths
<1> HIDE DEF J
<1>2. ASSUME NEW s \in Sides
      PROVE  Tree(On(s, ta, tb), A, D) /\ DOMAIN On(s, ta, tb) \subseteq Paths /\ <<>> \in DOMAIN On(s, ta, tb)
  BY DEF On, Tree, Shape
<1>3. <<>> \in Paths /\ <<>> \in DOMAIN J
  BY <1>1, Concat
<1>4. ASSUME NEW x \in DOMAIN J PROVE x \in Paths
  <2>1. CASE x = <<>>
    BY <1>3, <2>1
  <2>2. ASSUME NEW s \in Sides, NEW y \in DOMAIN On(s, ta, tb), x = <<s>> \o y PROVE x \in Paths
    BY <1>2, <2>2, FirstStep
  <2>. QED BY <1>1, <2>1, <2>2
<1>5. ASSUME NEW x \in DOMAIN J, NEW q \in Paths, IsPrefix(q, x), q # x
      PROVE  q \in DOMAIN J /\ J[q].kind = "split"
  <2>1. x # <<>>
    BY <1>3, <1>5, PrefixOrder
  <2>2. PICK s \in Sides : \E y \in DOMAIN On(s, ta, tb) : x = <<s>> \o y
    BY <1>1, <2>1
  <2>3. PICK y \in DOMAIN On(s, ta, tb) : x = <<s>> \o y
    BY <2>2
  <2>4. y \in Paths /\ <<s>> \in Paths
    BY <1>2, FirstStep
  <2>5. CASE q = <<>>
    BY <1>1, <1>3, <2>5
  <2>6. CASE q = <<s>>
    <3>1. <<s>> \o <<>> = <<s>>
      BY <2>4, Concat
    <3>2. y # <<>>
      BY <1>5, <2>3, <2>6, <3>1
    <3>3. On(s, ta, tb)[<<>>].kind = "split"
      BY <1>2, <1>3, <2>4, <3>2, PrefixOrder DEF Tree, Shape
    <3>. QED BY <1>1, <1>2, <2>6, <3>1, <3>3
  <2>7. CASE ~IsPrefix(q, <<s>>)
    <3>1. PICK z \in Paths : q = <<s>> \o z /\ IsPrefix(z, y)
      BY <1>5, <2>3, <2>4, <2>7, PrefixOfConcat
    <3>2. z # y
      BY <1>5, <2>3, <3>1
    <3>3. z \in DOMAIN On(s, ta, tb) /\ On(s, ta, tb)[z].kind = "split"
      BY <1>2, <3>1, <3>2 DEF Tree, Shape
    <3>. QED BY <1>1, <3>1, <3>3
  <2>. QED BY <2>5, <2>6, <2>7, FirstStep
<1>6. ASSUME NEW x \in DOMAIN J, NEW u \in Sides, J[x].kind = "split"
      PROVE  x \o <<u>> \in DOMAIN J
  <2>0. <<u>> \in Paths
    BY FirstStep
  <2>1. CASE x = <<>>
    <3>1. x \o <<u>> = <<u>> \o <<>>
      BY <2>0, <2>1, Concat
    <3>. QED BY <1>1, <1>2, <3>1
  <2>2. CASE x # <<>>
    <3>1. PICK s \in Sides : \E y \in DOMAIN On(s, ta, tb) : x = <<s>> \o y
      BY <1>1, <2>2
    <3>2. PICK y \in DOMAIN On(s, ta, tb) : x = <<s>> \o y
      BY <3>1
    <3>3. y \in Paths /\ <<s>> \in Paths
      BY <1>2, FirstStep
    <3>4. On(s, ta, tb)[y].kind = "split"
      BY <1>1, <1>6, <3>2
    <3>5. y \o <<u>> \in DOMAIN On(s, ta, tb)
      BY <1>2, <3>4 DEF Tree, Shape
    <3>6. (<<s>> \o y) \o <<u>> = <<s>> \o (y \o <<u>>)
      BY <2>0, <3>3, Associate
    <3>. QED BY <1>1, <3>2, <3>5, <3>6
  <2>. QED BY <2>1, <2>2
<1>7. IsFiniteSet(DOMAIN J)
  <2> DEFINE X == {<<"a">> \o x : x \in DOMAIN ta}
             Y == {<<"b">> \o x : x \in DOMAIN tb}
  <2>1. IsFiniteSet(X) /\ IsFiniteSet(Y)
    <3>1. "a" \in Sides /\ "b" \in Sides
      BY DEF Sides
    <3>2. <<"a">> \in Paths /\ <<"b">> \in Paths
      BY <3>1, FirstStep
    <3>3. DOMAIN ta \subseteq Paths /\ IsFiniteSet(DOMAIN ta) /\ DOMAIN tb \subseteq Paths /\ IsFiniteSet(DOMAIN tb)
      BY DEF Tree, Shape
    <3>. QED BY <3>2, <3>3, MovedFinite
  <2>2. DOMAIN J = {<<>>} \cup (X \cup Y)
    <3>1. /\ On("a", ta, tb) = ta /\ On("b", ta, tb) = tb
          /\ \A s : s \in Sides <=> s = "a" \/ s = "b"
      BY DEF Sides, On
    <3>2. \A x : x \in DOMAIN J <=>
            x = <<>> \/ (\E y \in DOMAIN ta : x = <<"a">> \o y) \/ (\E y \in DOMAIN tb : x = <<"b">> \o y)
      BY <1>1, <3>1
    <3>. QED BY <3>2
  <2>. HIDE DEF X, Y
  <2>3. IsFiniteSet(X \cup Y) /\ IsFiniteSet({<<>>})
    BY <2>1, FS_Union, FS_Singleton
  <2>. QED BY <2>2, <2>3, FS_Union
<1>8. Shape(J)
  BY <1>3, <1>4, <1>5, <1>6, <1>7 DEF Shape
<1>9. ASSUME NEW x \in DOMAIN J PROVE J[x] \in Node(A, D)
  <2>1. CASE x = <<>>
    BY <1>1, <2>1
  <2>2. ASSUME NEW s \in Sides, NEW y \in DOMAIN On(s, ta, tb), x = <<s>> \o y
        PROVE  J[x] \in Node(A, D)
    BY <1>1, <1>2, <2>2 DEF Tree
  <2>. QED BY <1>1, <2>1, <2>2
<1>. QED BY <1>1, <1>8, <1>9 DEF Tree, J

LEMMA JoinIds ==
  ASSUME NEW A, NEW D, NEW split, NEW ta, NEW tb, Tree(ta, A, D), Tree(tb, A, D)
  PROVE  /\ NodeIds(Join(split, ta, tb)) = {split.id} \cup NodeIds(ta) \cup NodeIds(tb)
         /\ UniqueIds(ta) /\ UniqueIds(tb) /\ NodeIds(ta) \cap NodeIds(tb) = {}
              /\ split.id \notin NodeIds(ta) \cup NodeIds(tb) => UniqueIds(Join(split, ta, tb))
<1> DEFINE J == Join(split, ta, tb)
<1>1. /\ \A x : x \in DOMAIN J <=>
           x = <<>> \/ \E s \in Sides : \E y \in DOMAIN On(s, ta, tb) : x = <<s>> \o y
      /\ J[<<>>] = split
      /\ \A s \in Sides : \A y \in DOMAIN On(s, ta, tb) :
           /\ <<s>> \o y \in DOMAIN J
           /\ J[<<s>> \o y] = On(s, ta, tb)[y]
      /\ IsFcn(J)
  BY JoinPaths
<1> HIDE DEF J
<1>2. ASSUME NEW s \in Sides, NEW y \in DOMAIN On(s, ta, tb)
      PROVE  J[<<s>> \o y].id \in NodeIds(On(s, ta, tb))
  BY <1>1 DEF NodeIds
<1>3. ASSUME NEW s \in Sides PROVE NodeIds(On(s, ta, tb)) \subseteq NodeIds(J)
  BY <1>1 DEF NodeIds
<1>4. "a" \in Sides /\ "b" \in Sides /\ On("a", ta, tb) = ta /\ On("b", ta, tb) = tb
      /\ \A s \in Sides : s = "a" \/ s = "b"
  BY DEF On, Sides
<1>5. split.id \in NodeIds(J)
  <2>1. <<>> \in DOMAIN J
    BY <1>1
  <2>. QED BY <1>1, <2>1 DEF NodeIds
<1>6. ASSUME NEW x \in DOMAIN J PROVE J[x].id \in {split.id} \cup NodeIds(ta) \cup NodeIds(tb)
  <2>1. CASE x = <<>>
    BY <1>1, <2>1
  <2>2. ASSUME NEW s \in Sides, NEW y \in DOMAIN On(s, ta, tb), x = <<s>> \o y
        PROVE  J[x].id \in NodeIds(ta) \cup NodeIds(tb)
    BY <1>2, <1>4, <2>2
  <2>3. CASE x # <<>>
    <3>1. PICK s \in Sides : \E y \in DOMAIN On(s, ta, tb) : x = <<s>> \o y
      BY <1>1, <2>3
    <3>. QED BY <2>2, <3>1
  <2>. QED BY <2>1, <2>3
<1>7. NodeIds(J) = {split.id} \cup NodeIds(ta) \cup NodeIds(tb)
  <2>1. \A n : n \in NodeIds(J) => n \in {split.id} \cup NodeIds(ta) \cup NodeIds(tb)
    BY <1>6 DEF NodeIds
  <2>. QED BY <1>3, <1>4, <1>5, <2>1
<1>8. ASSUME UniqueIds(ta), UniqueIds(tb), NodeIds(ta) \cap NodeIds(tb) = {},
             split.id \notin NodeIds(ta) \cup NodeIds(tb)
      PROVE  UniqueIds(J)
  <2> SUFFICES ASSUME NEW x \in DOMAIN J, NEW y \in DOMAIN J, J[x].id = J[y].id PROVE x = y
    BY DEF UniqueIds
  <2>1. ASSUME NEW s \in Sides, NEW v \in DOMAIN On(s, ta, tb) PROVE J[<<s>> \o v].id # split.id
    BY <1>2, <1>4, <1>8
  <2>2. ASSUME NEW s \in Sides, NEW v \in DOMAIN On(s, ta, tb), NEW u \in Sides,
               NEW w \in DOMAIN On(u, ta, tb), J[<<s>> \o v].id = J[<<u>> \o w].id
        PROVE  s = u /\ v = w
    <3>1. s = u
      BY <1>2, <1>4, <1>8, <2>2
    <3>2. UniqueIds(On(s, ta, tb)) /\ On(s, ta, tb)[v].id = On(s, ta, tb)[w].id
      BY <1>1, <1>4, <1>8, <2>2, <3>1
    <3>. QED BY <2>2, <3>1, <3>2 DEF UniqueIds
  <2>3. CASE x = <<>> /\ y = <<>>
    BY <2>3
  <2>4. CASE x # <<>> /\ y = <<>>
    <3>1. PICK s \in Sides : \E v \in DOMAIN On(s, ta, tb) : x = <<s>> \o v
      BY <1>1, <2>4
    <3>. QED BY <1>1, <2>1, <2>4, <3>1
  <2>5. CASE x = <<>> /\ y # <<>>
    <3>1. PICK s \in Sides : \E v \in DOMAIN On(s, ta, tb) : y = <<s>> \o v
      BY <1>1, <2>5
    <3>. QED BY <1>1, <2>1, <2>5, <3>1
  <2>6. CASE x # <<>> /\ y # <<>>
    <3>1. PICK s \in Sides : \E v \in DOMAIN On(s, ta, tb) : x = <<s>> \o v
      BY <1>1, <2>6
    <3>2. PICK u \in Sides : \E w \in DOMAIN On(u, ta, tb) : y = <<u>> \o w
      BY <1>1, <2>6
    <3>. QED BY <2>2, <3>1, <3>2
  <2>. QED BY <2>3, <2>4, <2>5, <2>6
<1>. QED BY <1>7, <1>8 DEF J
-----------------------------------------------------------------------------
(* Find.                                                                   *)

LEMMA NotBeforeItself ==
  ASSUME NEW p \in Paths
  PROVE  ~Before(p, p)
<1>1. ~IsStrictPrefix(p, p)
  BY DEF IsStrictPrefix
<1>2. ~LeftOf(p, p)
  BY DEF LeftOf
<1>. QED BY <1>1, <1>2 DEF Before

\* Where ids are unique, Find() returns the node with the id.
LEMMA Found ==
  ASSUME NEW t, NEW A, NEW D, Tree(t, A, D), UniqueIds(t), NEW p \in DOMAIN t
  PROVE  Find(t, t[p].id) = p
<1>1. DOMAIN t \subseteq Paths
  BY DEF Tree, Shape
<1> DEFINE Q(x) == t[x].id = t[p].id /\ \A q \in DOMAIN t : t[q].id = t[p].id => ~Before(q, x)
<1>2. Q(p)
  BY <1>1, NotBeforeItself DEF UniqueIds
<1>3. \A x \in DOMAIN t : Q(x) => x = p
  BY DEF UniqueIds
<1>4. Find(t, t[p].id) = CHOOSE x \in DOMAIN t : Q(x)
  BY DEF Find
<1> HIDE DEF Q
<1>. QED BY <1>2, <1>3, <1>4

LEMMA FindNode ==
  ASSUME NEW t, NEW A, NEW D, Tree(t, A, D), UniqueIds(t), NEW id \in NodeIds(t)
  PROVE  /\ Find(t, id) \in DOMAIN t /\ Find(t, id) \in Paths
         /\ t[Find(t, id)].id = id
<1>1. PICK p \in DOMAIN t : t[p].id = id
  BY DEF NodeIds
<1>2. Find(t, id) = p
  BY <1>1, Found
<1>. QED BY <1>1, <1>2 DEF Tree, Shape

LEMMA HasLeafIs ==
  ASSUME NEW t, NEW A, NEW D, Tree(t, A, D), UniqueIds(t), NEW id
  PROVE  HasLeaf(t, id) <=> id \in LeafIds(t)
<1>1. ASSUME HasLeaf(t, id) PROVE id \in LeafIds(t)
  BY <1>1, FindNode DEF HasLeaf, LeafIds, LeafPaths
<1>2. ASSUME id \in LeafIds(t) PROVE HasLeaf(t, id)
  <2>1. PICK p \in DOMAIN t : t[p].id = id /\ t[p].kind = "leaf"
    BY <1>2 DEF LeafIds, LeafPaths
  <2>2. Find(t, id) = p
    BY <2>1, Found
  <2>. QED BY <2>1, <2>2 DEF HasLeaf, NodeIds
<1>. QED BY <1>1, <1>2

LEMMA LeafIdsAreIds ==
  ASSUME NEW t
  PROVE  LeafIds(t) \subseteq NodeIds(t)
BY DEF LeafIds, NodeIds, LeafPaths
-----------------------------------------------------------------------------
(* removeLeaf.                                                             *)

\* Where removeLeaf() works: the parent of the leaf, and the leaf's sibling.
LEMMA RemovePlace ==
  ASSUME NEW t, NEW A, NEW D, Tree(t, A, D), UniqueIds(t), NEW id \in LeafIds(t), ~IsLeaf(t)
  PROVE  \E f \in DOMAIN t, s \in Sides :
           /\ f \in Paths /\ f \o <<s>> \in DOMAIN t /\ t[f \o <<s>>].id = id /\ t[f \o <<s>>].kind = "leaf"
           /\ f \o <<Other(s)>> \in DOMAIN t /\ Other(s) \in Sides /\ Other(s) # s /\ t[f].kind = "split"
           /\ removeLeaf(t, id) = Replace(t, f, Subtree(t, f \o <<Other(s)>>))
<1>1. PICK p \in DOMAIN t : t[p].id = id /\ t[p].kind = "leaf"
  BY DEF LeafIds, LeafPaths
<1>2. Find(t, id) = p /\ p \in Paths
  BY <1>1, Found DEF Tree, Shape
<1>3. p # <<>>
  BY <1>1 DEF IsLeaf
<1>4. PICK f \in Paths, s \in Sides : p = f \o <<s>> /\ Front(p) = f /\ Sibling(p) = f \o <<Other(s)>>
  BY <1>2, <1>3, ParentOf
<1>5. Other(s) \in Sides /\ Other(s) # s
  BY DEF Other, Sides
<1>6. f \in DOMAIN t /\ t[f].kind = "split"
  <2>1. IsPrefix(f, p) /\ f # p
    BY <1>4, Child, RestOf
  <2>. QED BY <2>1 DEF Tree, Shape
<1>7. f \o <<Other(s)>> \in DOMAIN t
  BY <1>5, <1>6 DEF Tree, Shape
<1>8. removeLeaf(t, id) = Replace(t, f, Subtree(t, f \o <<Other(s)>>))
  BY <1>2, <1>3, <1>4 DEF removeLeaf
<1>. QED BY <1>1, <1>4, <1>5, <1>6, <1>7, <1>8

LEMMA RemoveLeafTree ==
  ASSUME NEW t, NEW A, NEW D, Tree(t, A, D), UniqueIds(t), NEW id \in LeafIds(t), ~IsLeaf(t)
  PROVE  /\ Tree(removeLeaf(t, id), A, D) /\ UniqueIds(removeLeaf(t, id))
         /\ NodeIds(removeLeaf(t, id)) \subseteq NodeIds(t) \ {id}
         /\ LeafIds(t) \ {id} \subseteq LeafIds(removeLeaf(t, id))
<1>1. PICK f \in DOMAIN t, s \in Sides :
           /\ f \in Paths /\ f \o <<s>> \in DOMAIN t /\ t[f \o <<s>>].id = id /\ t[f \o <<s>>].kind = "leaf"
           /\ f \o <<Other(s)>> \in DOMAIN t /\ Other(s) \in Sides /\ Other(s) # s /\ t[f].kind = "split"
           /\ removeLeaf(t, id) = Replace(t, f, Subtree(t, f \o <<Other(s)>>))
  BY RemovePlace
<1>2. PICK p \in DOMAIN t : p = f \o <<s>>
  BY <1>1
<1>3. PICK o \in DOMAIN t : o = f \o <<Other(s)>>
  BY <1>1
<1> DEFINE U == Subtree(t, o)
           R == Replace(t, f, U)
<1>4. DOMAIN t \subseteq Paths /\ IsPrefix(f, p) /\ IsPrefix(f, o)
  BY <1>1, <1>2, <1>3, Child, RestOf DEF Tree, Shape
<1>5. Tree(U, A, D) /\ NodeIds(U) = IdsAt(t, o) /\ UniqueIds(U)
  BY SubtreeTree, SubtreeIds
<1>6. removeLeaf(t, id) = R
  BY <1>1, <1>3
<1>7. /\ \A y : y \in DOMAIN U <=> y \in Paths /\ o \o y \in DOMAIN t
      /\ \A y \in DOMAIN U : U[y] = t[o \o y]
      /\ IsFcn(U)
  BY SubtreePaths
<1> HIDE DEF U
<1>8. Tree(R, A, D)
  BY <1>5, ReplaceTree
<1>9. IdsOff(t, f) \cap IdsAt(t, f) = {}
  BY IdsSplit
<1>10. IdsAt(t, o) \subseteq IdsAt(t, f)
  <2>1. \A x \in DOMAIN t : IsPrefix(o, x) => IsPrefix(f, x)
    BY <1>1, <1>4, PrefixOrder
  <2>. QED BY <2>1 DEF IdsAt
<1>11. NodeIds(R) = IdsOff(t, f) \cup NodeIds(U) /\ UniqueIds(R)
  BY <1>5, <1>9, <1>10, ReplaceIds
<1>12. id \notin IdsOff(t, f)
  <2>1. id \in IdsAt(t, f)
    BY <1>1, <1>2, <1>4 DEF IdsAt
  <2>. QED BY <1>9, <2>1
<1>13. id \notin IdsAt(t, o)
  <2> SUFFICES ASSUME NEW x \in DOMAIN t, IsPrefix(o, x), t[x].id = id PROVE FALSE
    BY DEF IdsAt
  <2>1. x = p
    BY <1>1, <1>2 DEF UniqueIds
  <2>2. p \in Paths /\ IsPrefix(p, p)
    BY <1>4, PrefixOrder
  <2>3. IsPrefix(f \o <<Other(s)>>, p) /\ IsPrefix(f \o <<s>>, p)
    BY <1>2, <1>3, <2>1, <2>2
  <2>4. Other(s) = s
    BY <1>1, <2>2, <2>3, ChildrenApart
  <2>. QED BY <1>1, <2>4
<1>14. NodeIds(R) \subseteq NodeIds(t) \ {id}
  <2>1. IdsAt(t, o) \subseteq NodeIds(t) /\ IdsOff(t, f) \subseteq NodeIds(t)
    BY DEF IdsAt, IdsOff, NodeIds
  <2>. QED BY <1>5, <1>11, <1>12, <1>13, <2>1
<1>15. /\ \A x \in DOMAIN t : ~IsPrefix(f, x) => x \in DOMAIN R /\ R[x] = t[x]
       /\ \A y \in DOMAIN U : f \o y \in DOMAIN R /\ R[f \o y] = U[y]
  <2>1. /\ \A x : x \in DOMAIN R <=> (x \in DOMAIN t /\ ~IsPrefix(f, x)) \/ \E y \in DOMAIN U : x = f \o y
        /\ \A x \in DOMAIN t : ~IsPrefix(f, x) => x \in DOMAIN R /\ R[x] = t[x]
        /\ \A y \in DOMAIN U : f \o y \in DOMAIN R /\ R[f \o y] = U[y]
        /\ IsFcn(R)
    BY <1>5, ReplacePaths
  <2>. QED BY <2>1
<1> HIDE DEF R
\* A leaf is not at or below the parent, or is below the sibling, or is the one removed.
<1>16. ASSUME NEW x \in DOMAIN t, t[x].kind = "leaf", t[x].id # id
       PROVE  t[x].id \in LeafIds(R)
  <2>1. CASE ~IsPrefix(f, x)
    BY <1>15, <1>16, <2>1 DEF LeafIds, LeafPaths
  <2>2. CASE IsPrefix(f, x)
    <3>1. x # f /\ x \in Paths
      BY <1>1, <1>4, <1>16
    <3>2. PICK u \in Sides : IsPrefix(f \o <<u>>, x)
      BY <1>1, <2>2, <3>1, BelowChild
    <3>3. u # s
      <4> SUFFICES ASSUME u = s PROVE FALSE
        OBVIOUS
      <4>1. IsPrefix(p, x)
        BY <1>2, <3>2
      <4>2. x = p
        BY <1>1, <1>2, <4>1, BelowLeaf
      <4>. QED BY <1>1, <1>2, <1>16, <4>2
    <3>4. u = Other(s)
      BY <3>3 DEF Other, Sides
    <3>5. IsPrefix(o, x)
      BY <1>3, <3>2, <3>4
    <3>6. PICK y \in Paths : x = o \o y
      BY <1>4, <3>1, <3>5, PrefixRest
    <3>7. y \in DOMAIN U /\ U[y] = t[x]
      BY <1>7, <3>6
    <3>8. f \o y \in DOMAIN R /\ R[f \o y] = t[x]
      BY <1>15, <3>7
    <3>. QED BY <1>16, <3>8 DEF LeafIds, LeafPaths
  <2>. QED BY <2>1, <2>2
<1>17. LeafIds(t) \ {id} \subseteq LeafIds(R)
  BY <1>16 DEF LeafIds, LeafPaths
<1>18. Tree(R, A, D) /\ UniqueIds(R)
  BY <1>8, <1>11
<1>. QED BY <1>6, <1>14, <1>17, <1>18
-----------------------------------------------------------------------------
(* The mutations.  Ids up to g are taken, as in a tree of a desktop whose  *)
(* generator is at g.                                                      *)

\* A sound tree: what every mutation gives back.
Sound(t, A, D) == Tree(t, A, D) /\ UniqueIds(t)

LEMMA NextIds ==
  ASSUME NEW g \in Nat
  PROVE  /\ g + 1 \in Nat \ {0} /\ g + 1 \notin 1..g /\ 1..(g + 1) = 1..g \cup {g + 1}
         /\ g + 2 \in Nat \ {0} /\ g + 2 \notin 1..g /\ g + 1 # g + 2
OBVIOUS

LEMMA NewLeafNode ==
  ASSUME NEW A, NEW D, NEW app \in A, NEW n \in Nat \ {0}
  PROVE  /\ NewLeaf(n, app) \in Node(A, D) /\ NewLeaf(n, app).kind = "leaf" /\ NewLeaf(n, app).id = n
BY DEF NewLeaf, Node, Blank

LEMMA NewSplitNode ==
  ASSUME NEW A, NEW D, NEW dir \in D, NEW n \in Nat \ {0}
  PROVE  /\ NewSplit(n, dir, HalfRatio) \in Node(A, D) /\ NewSplit(n, dir, HalfRatio).kind = "split"
         /\ NewSplit(n, dir, HalfRatio).id = n
<1>1. clampRatio(HalfRatio) \in MinRatio..MaxRatio
  BY DEF clampRatio, HalfRatio, MinRatio, MaxRatio
<1>. QED BY <1>1 DEF NewSplit, Node, Blank

\* What is put in the place of a subtree: a new split over it and a tree
\* whose ids are new.
LEMMA Wrapped ==
  ASSUME NEW A, NEW D, NEW t, Sound(t, A, D), NEW p \in DOMAIN t, NEW s, Sound(s, A, D),
         NEW split \in Node(A, D), split.kind = "split",
         NodeIds(s) \cap NodeIds(t) = {}, split.id \notin NodeIds(t) \cup NodeIds(s)
  PROVE  /\ Sound(Replace(t, p, Join(split, Subtree(t, p), s)), A, D)
         /\ Sound(Replace(t, p, Join(split, s, Subtree(t, p))), A, D)
         /\ NodeIds(Replace(t, p, Join(split, Subtree(t, p), s))) = NodeIds(t) \cup NodeIds(s) \cup {split.id}
         /\ NodeIds(Replace(t, p, Join(split, s, Subtree(t, p)))) = NodeIds(t) \cup NodeIds(s) \cup {split.id}
<1>1. Tree(t, A, D) /\ UniqueIds(t) /\ Tree(s, A, D) /\ UniqueIds(s)
  BY DEF Sound
<1>2. PICK u : u = Subtree(t, p)
  OBVIOUS
<1>3. Tree(u, A, D) /\ UniqueIds(u) /\ NodeIds(u) = IdsAt(t, p)
  BY <1>1, <1>2, SubtreeTree, SubtreeIds
<1>4. NodeIds(t) = IdsAt(t, p) \cup IdsOff(t, p) /\ IdsAt(t, p) \cap IdsOff(t, p) = {}
  BY <1>1, IdsSplit
<1>5. ASSUME NEW j, Tree(j, A, D), UniqueIds(j), NodeIds(j) = {split.id} \cup NodeIds(u) \cup NodeIds(s)
      PROVE  /\ Sound(Replace(t, p, j), A, D)
             /\ NodeIds(Replace(t, p, j)) = NodeIds(t) \cup NodeIds(s) \cup {split.id}
  <2>1. Tree(Replace(t, p, j), A, D)
    BY <1>1, <1>5, ReplaceTree
  <2>2. IdsOff(t, p) \cap NodeIds(j) = {}
    BY <1>3, <1>4, <1>5
  <2>3. UniqueIds(Replace(t, p, j)) /\ NodeIds(Replace(t, p, j)) = IdsOff(t, p) \cup NodeIds(j)
    BY <1>1, <1>5, <2>2, ReplaceIds
  <2>4. NodeIds(Replace(t, p, j)) = NodeIds(t) \cup NodeIds(s) \cup {split.id}
    BY <1>3, <1>4, <1>5, <2>3
  <2>. QED BY <2>1, <2>3, <2>4 DEF Sound
<1>6. NodeIds(u) \cap NodeIds(s) = {} /\ split.id \notin NodeIds(u) \cup NodeIds(s)
  BY <1>3, <1>4
<1>7. /\ Tree(Join(split, u, s), A, D) /\ UniqueIds(Join(split, u, s))
      /\ NodeIds(Join(split, u, s)) = {split.id} \cup NodeIds(u) \cup NodeIds(s)
  BY <1>1, <1>3, <1>6, JoinTree, JoinIds
<1>8. /\ Tree(Join(split, s, u), A, D) /\ UniqueIds(Join(split, s, u))
      /\ NodeIds(Join(split, s, u)) = {split.id} \cup NodeIds(s) \cup NodeIds(u)
  BY <1>1, <1>3, <1>6, JoinTree, JoinIds
<1>9. NodeIds(Join(split, s, u)) = {split.id} \cup NodeIds(u) \cup NodeIds(s)
  BY <1>8
<1>. QED BY <1>2, <1>5, <1>7, <1>8, <1>9

LEMMA SplitLeafSound ==
  ASSUME NEW A, NEW D, NEW t, Sound(t, A, D), NEW id \in NodeIds(t), NEW dir \in D, NEW app \in A,
         NEW g \in Nat, NodeIds(t) \subseteq 1..g
  PROVE  /\ Sound(SplitLeaf(t, id, dir, app, g), A, D)
         /\ NodeIds(SplitLeaf(t, id, dir, app, g)) = NodeIds(t) \cup {g + 1, g + 2}
<1>1. PICK leaf, split : leaf = NewLeaf(g + 1, app) /\ split = NewSplit(g + 2, dir, HalfRatio)
  OBVIOUS
<1>2. /\ leaf \in Node(A, D) /\ leaf.kind = "leaf" /\ leaf.id = g + 1
      /\ split \in Node(A, D) /\ split.kind = "split" /\ split.id = g + 2
  <2>1. g + 1 \in Nat \ {0} /\ g + 2 \in Nat \ {0}
    OBVIOUS
  <2>. QED BY <1>1, <2>1, NewLeafNode, NewSplitNode
<1>3. PICK s : s = LeafTree(leaf)
  OBVIOUS
<1>4. Sound(s, A, D) /\ NodeIds(s) = {g + 1}
  BY <1>2, <1>3, LeafTreeTree DEF Sound
<1>5. PICK p \in DOMAIN t : p = Find(t, id)
  BY FindNode DEF Sound
<1>6. g + 1 \notin NodeIds(t) /\ g + 2 \notin NodeIds(t) /\ g + 1 # g + 2
  OBVIOUS
<1>7. NodeIds(s) \cap NodeIds(t) = {} /\ split.id \notin NodeIds(t) \cup NodeIds(s)
  BY <1>2, <1>4, <1>6
<1>8. /\ Sound(Replace(t, p, Join(split, Subtree(t, p), s)), A, D)
      /\ NodeIds(Replace(t, p, Join(split, Subtree(t, p), s))) = NodeIds(t) \cup NodeIds(s) \cup {split.id}
  BY <1>2, <1>4, <1>7, Wrapped
<1>9. SplitLeaf(t, id, dir, app, g) = Replace(t, p, Join(split, Subtree(t, p), s))
  BY <1>1, <1>3, <1>5 DEF SplitLeaf
<1>. QED BY <1>2, <1>4, <1>8, <1>9

LEMMA CloseLeafSound ==
  ASSUME NEW A, NEW D, NEW t, Sound(t, A, D), NEW id \in LeafIds(t), ~IsLeaf(t)
  PROVE  /\ Sound(removeLeaf(t, id), A, D)
         /\ NodeIds(removeLeaf(t, id)) \subseteq NodeIds(t) \ {id}
         /\ LeafIds(t) \ {id} \subseteq LeafIds(removeLeaf(t, id))
BY RemoveLeafTree DEF Sound

\* Changing the contents of a node.
LEMMA Relabelled ==
  ASSUME NEW A, NEW D, NEW t, Sound(t, A, D), NEW p \in DOMAIN t, NEW n \in Node(A, D),
         n.id = t[p].id, n.kind = t[p].kind
  PROVE  /\ Sound([t EXCEPT ![p] = n], A, D)
         /\ NodeIds([t EXCEPT ![p] = n]) = NodeIds(t)
         /\ LeafIds([t EXCEPT ![p] = n]) = LeafIds(t)
<1>1. PICK u : u = [t EXCEPT ![p] = n]
  OBVIOUS
<1>2. t = [x \in DOMAIN t |-> t[x]]
  BY DEF Sound, Tree, IsFcn
<1>3. /\ DOMAIN u = DOMAIN t /\ u[p] = n /\ \A x \in DOMAIN t : x # p => u[x] = t[x]
      /\ IsFcn(u)
  BY <1>1, <1>2 DEF IsFcn
<1>4. \A x \in DOMAIN t : u[x].id = t[x].id /\ u[x].kind = t[x].kind /\ u[x] \in Node(A, D)
  BY <1>3 DEF Sound, Tree
<1>5. Shape(u)
  <2>1. Shape(t)
    BY DEF Sound, Tree
  <2>2. \A x \in DOMAIN u, q \in Paths :
           IsPrefix(q, x) /\ q # x => q \in DOMAIN u /\ u[q].kind = "split"
    BY <1>3, <1>4, <2>1 DEF Shape
  <2>3. \A x \in DOMAIN u, v \in Sides : u[x].kind = "split" => x \o <<v>> \in DOMAIN u
    BY <1>3, <1>4, <2>1 DEF Shape
  <2>. QED BY <1>3, <2>1, <2>2, <2>3 DEF Shape
<1>6. UniqueIds(u)
  BY <1>3, <1>4 DEF Sound, UniqueIds
<1>7. NodeIds(u) = NodeIds(t)
  BY <1>3, <1>4 DEF NodeIds
<1>8. LeafPaths(u) = LeafPaths(t)
  BY <1>3, <1>4 DEF LeafPaths
<1>9. LeafIds(u) = LeafIds(t)
  BY <1>3, <1>4, <1>8 DEF LeafIds, LeafPaths
<1>10. Sound(u, A, D)
  BY <1>3, <1>4, <1>5, <1>6 DEF Sound, Tree
<1>. QED BY <1>1, <1>7, <1>9, <1>10

LEMMA SetRatioSound ==
  ASSUME NEW A, NEW D, NEW t, Sound(t, A, D), NEW id, HasSplit(t, id), NEW ratio \in Nat
  PROVE  /\ Sound(SetRatio(t, id, ratio), A, D)
         /\ NodeIds(SetRatio(t, id, ratio)) = NodeIds(t)
<1>1. PICK p \in DOMAIN t : p = Find(t, id)
  BY FindNode DEF Sound, HasSplit
<1>2. t[p].kind = "split" /\ t[p] \in Node(A, D)
  BY <1>1 DEF HasSplit, Sound, Tree
<1>3. PICK n : n = [t[p] EXCEPT !.ratio = clampRatio(ratio)]
  OBVIOUS
<1>4. clampRatio(ratio) \in MinRatio..MaxRatio
  BY DEF clampRatio, MinRatio, MaxRatio
<1>5. n \in Node(A, D) /\ n.id = t[p].id /\ n.kind = t[p].kind
  BY <1>2, <1>3, <1>4 DEF Node
<1>6. SetRatio(t, id, ratio) = [t EXCEPT ![p] = n]
  BY <1>1, <1>3 DEF SetRatio
<1>7. /\ Sound([t EXCEPT ![p] = n], A, D) /\ NodeIds([t EXCEPT ![p] = n]) = NodeIds(t)
      /\ LeafIds([t EXCEPT ![p] = n]) = LeafIds(t)
  BY <1>5, Relabelled
<1>. QED BY <1>6, <1>7

LEMMA SetLeafAppSound ==
  ASSUME NEW A, NEW D, NEW t, Sound(t, A, D), NEW id \in LeafIds(t), NEW app \in A
  PROVE  /\ Sound(SetLeafApp(t, id, app), A, D)
         /\ NodeIds(SetLeafApp(t, id, app)) = NodeIds(t)
         /\ LeafIds(SetLeafApp(t, id, app)) = LeafIds(t)
<1>1. PICK p \in DOMAIN t : t[p].id = id /\ t[p].kind = "leaf"
  BY DEF LeafIds, LeafPaths
<1>2. Find(t, id) = p
  BY <1>1, Found DEF Sound
<1>3. t[p] \in Node(A, D)
  BY DEF Sound, Tree
<1>4. PICK n : n = [t[p] EXCEPT !.app = app]
  OBVIOUS
<1>5. n \in Node(A, D) /\ n.id = t[p].id /\ n.kind = t[p].kind
  BY <1>1, <1>3, <1>4 DEF Node
<1>6. SetLeafApp(t, id, app) = [t EXCEPT ![p] = n]
  BY <1>2, <1>4 DEF SetLeafApp
<1>7. /\ Sound([t EXCEPT ![p] = n], A, D) /\ NodeIds([t EXCEPT ![p] = n]) = NodeIds(t)
      /\ LeafIds([t EXCEPT ![p] = n]) = LeafIds(t)
  BY <1>5, Relabelled
<1>. QED BY <1>6, <1>7

LEMMA FindLeafApp ==
  ASSUME NEW A, NEW D, NEW t, Sound(t, A, D), NEW id \in LeafIds(t)
  PROVE  /\ FindLeaf(t, id).app \in A /\ FindLeaf(t, id) \in Node(A, D)
         /\ FindLeaf(t, id).kind = "leaf" /\ FindLeaf(t, id).id = id
<1>1. PICK p \in DOMAIN t : t[p].id = id /\ t[p].kind = "leaf"
  BY DEF LeafIds, LeafPaths
<1>2. Find(t, id) = p
  BY <1>1, Found DEF Sound
<1>. QED BY <1>1, <1>2 DEF FindLeaf, Sound, Tree, Node

LEMMA SwapLeavesSound ==
  ASSUME NEW A, NEW D, NEW t, Sound(t, A, D), NEW a \in LeafIds(t), NEW b \in LeafIds(t)
  PROVE  /\ Sound(SwapLeaves(t, a, b), A, D)
         /\ NodeIds(SwapLeaves(t, a, b)) = NodeIds(t)
<1>1. PICK x \in A, y \in A : x = FindLeaf(t, a).app /\ y = FindLeaf(t, b).app
  BY FindLeafApp
<1>2. PICK u : u = SetLeafApp(t, a, y)
  OBVIOUS
<1>3. Sound(u, A, D) /\ NodeIds(u) = NodeIds(t) /\ LeafIds(u) = LeafIds(t)
  BY <1>2, SetLeafAppSound
<1>4. Sound(SetLeafApp(u, b, x), A, D) /\ NodeIds(SetLeafApp(u, b, x)) = NodeIds(u)
  BY <1>3, SetLeafAppSound
<1>5. SwapLeaves(t, a, b) = SetLeafApp(u, b, x)
  BY <1>1, <1>2 DEF SwapLeaves
<1>. QED BY <1>3, <1>4, <1>5

\* A tree with two leaves is no leaf.
LEMMA TwoLeaves ==
  ASSUME NEW A, NEW D, NEW t, Tree(t, A, D), NEW a \in LeafIds(t), NEW b \in LeafIds(t), a # b
  PROVE  ~IsLeaf(t)
<1> SUFFICES ASSUME IsLeaf(t) PROVE FALSE
  OBVIOUS
<1>1. PICK p \in DOMAIN t : t[p].id = a
  BY DEF LeafIds, LeafPaths
<1>2. PICK q \in DOMAIN t : t[q].id = b
  BY DEF LeafIds, LeafPaths
<1>3. <<>> \in DOMAIN t /\ t[<<>>].kind = "leaf" /\ IsPrefix(<<>>, p) /\ IsPrefix(<<>>, q)
  BY PrefixOrder DEF Tree, Shape, IsLeaf
<1>4. p = <<>> /\ q = <<>>
  BY <1>3, BelowLeaf
<1>. QED BY <1>1, <1>2, <1>4

LEMMA MoveSplitSound ==
  ASSUME NEW A, NEW D, Dirs \subseteq D, NEW t, Sound(t, A, D),
         NEW from \in LeafIds(t), NEW target \in LeafIds(t), from # target, NEW zone,
         NEW g \in Nat, NodeIds(t) \subseteq 1..g
  PROVE  /\ Sound(MoveSplit(t, from, target, zone, g), A, D)
         /\ NodeIds(MoveSplit(t, from, target, zone, g)) \subseteq NodeIds(t) \cup {g + 1}
<1>1. ~IsLeaf(t)
  BY TwoLeaves DEF Sound
<1>2. PICK d : d = removeLeaf(t, from)
  OBVIOUS
<1>3. Sound(d, A, D) /\ NodeIds(d) \subseteq NodeIds(t) \ {from} /\ target \in LeafIds(d)
  BY <1>1, <1>2, CloseLeafSound
<1>4. PICK p \in DOMAIN d : p = Find(d, target)
  BY <1>3, FindNode, LeafIdsAreIds DEF Sound
<1>5. PICK dir \in Dirs : dir = IF zone \in {"left", "right"} THEN "row" ELSE "col"
  BY DEF Dirs
<1>6. PICK split : split = NewSplit(g + 1, dir, HalfRatio)
  OBVIOUS
<1>7. split \in Node(A, D) /\ split.kind = "split" /\ split.id = g + 1
  <2>1. g + 1 \in Nat \ {0} /\ dir \in D
    OBVIOUS
  <2>. QED BY <1>6, <2>1, NewSplitNode
<1>8. PICK s : s = LeafTree(FindLeaf(t, from))
  OBVIOUS
<1>9. Sound(s, A, D) /\ NodeIds(s) = {from}
  BY <1>8, FindLeafApp, LeafTreeTree DEF Sound
<1>10. from \in 1..g /\ g + 1 \notin 1..g
  BY LeafIdsAreIds
<1>11. NodeIds(s) \cap NodeIds(d) = {} /\ split.id \notin NodeIds(d) \cup NodeIds(s)
  BY <1>3, <1>7, <1>9, <1>10
<1> DEFINE J1 == Join(split, s, Subtree(d, p))
           J2 == Join(split, Subtree(d, p), s)
<1>12. /\ Sound(Replace(d, p, J1), A, D) /\ Sound(Replace(d, p, J2), A, D)
       /\ NodeIds(Replace(d, p, J1)) = NodeIds(d) \cup NodeIds(s) \cup {split.id}
       /\ NodeIds(Replace(d, p, J2)) = NodeIds(d) \cup NodeIds(s) \cup {split.id}
  BY <1>3, <1>7, <1>9, <1>11, Wrapped
<1>13. MoveSplit(t, from, target, zone, g) = Replace(d, p, IF zone \in {"left", "top"} THEN J1 ELSE J2)
  BY <1>2, <1>4, <1>5, <1>6, <1>8 DEF MoveSplit
<1> HIDE DEF J1, J2
<1>14. \/ MoveSplit(t, from, target, zone, g) = Replace(d, p, J1)
       \/ MoveSplit(t, from, target, zone, g) = Replace(d, p, J2)
  BY <1>13
<1>15. NodeIds(d) \cup NodeIds(s) \cup {split.id} \subseteq NodeIds(t) \cup {g + 1}
  BY <1>3, <1>7, <1>9, LeafIdsAreIds
<1>. QED BY <1>12, <1>14, <1>15

LEMMA GraftLeafSound ==
  ASSUME NEW A, NEW D, NEW t, Sound(t, A, D), NEW leaf \in Node(A, D), leaf.kind = "leaf",
         NEW target, target # NoNode => target \in NodeIds(t), NEW dir \in D,
         NEW g \in Nat, NodeIds(t) \subseteq 1..g, leaf.id \in 1..g
  PROVE  /\ Sound(GraftLeaf(t, leaf, target, dir, g), A, D)
         /\ GraftLeaf(t, leaf, target, dir, g) = t
            \/ NodeIds(GraftLeaf(t, leaf, target, dir, g)) = NodeIds(t) \cup {leaf.id, g + 1}
<1>1. CASE leaf.id \in NodeIds(t)
  BY <1>1 DEF GraftLeaf
<1>2. CASE leaf.id \notin NodeIds(t)
  <2>1. PICK split : split = NewSplit(g + 1, dir, HalfRatio)
    OBVIOUS
  <2>2. split \in Node(A, D) /\ split.kind = "split" /\ split.id = g + 1
    <3>1. g + 1 \in Nat \ {0}
      BY NextIds
    <3>. QED BY <2>1, <3>1, NewSplitNode
  <2>3. PICK s : s = LeafTree(leaf)
    OBVIOUS
  <2>4. Sound(s, A, D) /\ NodeIds(s) = {leaf.id}
    BY <2>3, LeafTreeTree DEF Sound
  <2>5. NodeIds(s) \cap NodeIds(t) = {} /\ split.id \notin NodeIds(t) \cup NodeIds(s)
    <3>1. g + 1 \notin 1..g
      BY NextIds
    <3>. QED BY <1>2, <2>2, <2>4, <3>1
  <2>6. CASE target = NoNode
    <3>1. GraftLeaf(t, leaf, target, dir, g) = Join(split, t, s)
      BY <1>2, <2>1, <2>3, <2>6 DEF GraftLeaf
    <3>2. Tree(Join(split, t, s), A, D)
      BY <2>2, <2>4, JoinTree DEF Sound
    <3>3. UniqueIds(Join(split, t, s)) /\ NodeIds(Join(split, t, s)) = {split.id} \cup NodeIds(t) \cup NodeIds(s)
      BY <2>4, <2>5, JoinIds DEF Sound
    <3>. QED BY <2>2, <2>4, <3>1, <3>2, <3>3 DEF Sound
  <2>7. CASE target # NoNode
    <3>1. PICK p \in DOMAIN t : p = Find(t, target)
      BY <2>7, FindNode DEF Sound
    <3>2. GraftLeaf(t, leaf, target, dir, g) = Replace(t, p, Join(split, Subtree(t, p), s))
      BY <1>2, <2>1, <2>3, <2>7, <3>1 DEF GraftLeaf
    <3>3. /\ Sound(Replace(t, p, Join(split, Subtree(t, p), s)), A, D)
          /\ NodeIds(Replace(t, p, Join(split, Subtree(t, p), s))) = NodeIds(t) \cup NodeIds(s) \cup {split.id}
      BY <2>2, <2>4, <2>5, Wrapped
    <3>. QED BY <2>2, <2>4, <3>2, <3>3
  <2>. QED BY <2>6, <2>7
<1>. QED BY <1>1, <1>2
-----------------------------------------------------------------------------
(* The traversal order.                                                    *)

\* Two prefixes of a path are comparable.
LEMMA Comparable ==
  ASSUME NEW p \in Paths, NEW q \in Paths, NEW x \in Paths, IsPrefix(p, x), IsPrefix(q, x)
  PROVE  IsPrefix(p, q) \/ IsPrefix(q, p)
<1>1. PICK y \in Paths : x = p \o y
  BY PrefixRest
<1>2. IsPrefix(q, p \o y)
  BY <1>1
<1>3. CASE ~IsPrefix(q, p)
  <2>1. \E z \in Paths : q = p \o z /\ IsPrefix(z, y)
    BY <1>2, <1>3, PrefixOfConcat
  <2>2. PICK z \in Paths : q = p \o z
    BY <2>1
  <2>. QED BY <2>2, RestOf
<1>. QED BY <1>3

\* p turns to side a where q turns to side b.
LEMMA LeftOfFork ==
  ASSUME NEW p \in Paths, NEW q \in Paths
  PROVE  LeftOf(p, q) <=> \E c \in Paths : IsPrefix(c \o <<"a">>, p) /\ IsPrefix(c \o <<"b">>, q)
<1>0. "a" \in Sides /\ "b" \in Sides
  BY DEF Sides
<1>1. ASSUME LeftOf(p, q)
      PROVE  \E c \in Paths : IsPrefix(c \o <<"a">>, p) /\ IsPrefix(c \o <<"b">>, q)
  <2>1. PICK i \in 1..Len(p) : /\ i <= Len(q)
                               /\ SubSeq(p, 1, i - 1) = SubSeq(q, 1, i - 1)
                               /\ p[i] = "a" /\ q[i] = "b"
    BY <1>1 DEF LeftOf
  <2>2. i \in Nat /\ 1 <= i /\ i <= Len(p) /\ Len(p) \in Nat /\ Len(q) \in Nat
    BY DEF Paths
  <2>3. ASSUME NEW x \in Paths, i <= Len(x), NEW s, x[i] = s
        PROVE  SubSeq(x, 1, i - 1) \in Paths /\ IsPrefix(SubSeq(x, 1, i - 1) \o <<s>>, x)
    <3>1. \A j \in 1..i : x[j] \in Sides
      BY <2>2, <2>3 DEF Paths
    <3>2. \A j \in 1..(i - 1) : x[j] \in Sides
      BY <2>2, <3>1
    <3>3. i - 1 \in Int /\ Len(x) \in Nat
      BY <2>2 DEF Paths
    <3>4. SubSeq(x, 1, i - 1) \in Paths
      BY <2>2, <3>2, <3>3, SubSeqProperties DEF Paths
    <3>5. SubSeq(x, 1, i) = SubSeq(x, 1, i - 1) \o <<x[i]>>
      <4>1. 1 \in 1..Len(x) /\ i \in 1..Len(x)
        BY <2>2, <2>3, <3>3
      <4>. QED BY <4>1, SubSeqRecursiveSecond DEF Paths
    <3>6. SubSeq(x, 1, i) \in Paths /\ Len(SubSeq(x, 1, i)) = i
      BY <2>2, <3>1, SubSeqProperties DEF Paths
    <3>7. SubSeq(SubSeq(x, 1, i), 1, i) = SubSeq(x, 1, i)
      BY <3>6, SubSeqFull DEF Paths
    <3>8. IsPrefix(SubSeq(x, 1, i), x)
      BY <2>3, <3>6, <3>7 DEF IsPrefix
    <3>. QED BY <2>3, <3>4, <3>5, <3>8
  <2>4. PICK c \in Paths : c = SubSeq(p, 1, i - 1)
    BY <2>1, <2>2, <2>3
  <2>5. IsPrefix(c \o <<"a">>, p)
    BY <2>1, <2>2, <2>3, <2>4
  <2>6. IsPrefix(c \o <<"b">>, q)
    BY <2>1, <2>3, <2>4
  <2>. QED BY <2>5, <2>6
<1>2. ASSUME NEW c \in Paths, IsPrefix(c \o <<"a">>, p), IsPrefix(c \o <<"b">>, q)
      PROVE  LeftOf(p, q)
  <2>1. p[Len(c) + 1] = "a" /\ q[Len(c) + 1] = "b"
    BY <1>0, <1>2, Turn
  <2>2. ASSUME NEW x \in Paths, NEW s \in Sides, IsPrefix(c \o <<s>>, x)
        PROVE  Len(c) + 1 <= Len(x) /\ SubSeq(x, 1, Len(c)) = c
    <3>1. PICK d \in Paths : d = c \o <<s>>
      BY Child
    <3>2. Len(d) = Len(c) + 1 /\ IsPrefix(c, d)
      <4>1. d = Append(c, s)
        BY <3>1, Child
      <4>2. <<s>> \in Paths
        BY FirstStep
      <4>3. Len(d) = Len(c) + 1
        BY <4>1, AppendProperties DEF Paths
      <4>4. IsPrefix(c, c \o <<s>>)
        BY <4>2, RestOf
      <4>. QED BY <3>1, <4>3, <4>4
    <3>3. IsPrefix(c, x) /\ Len(d) <= Len(x)
      BY <2>2, <3>1, <3>2, PrefixOrder DEF IsPrefix
    <3>4. SubSeq(c, 1, Len(c)) = c
      BY SubSeqFull DEF Paths
    <3>. QED BY <3>2, <3>3, <3>4 DEF IsPrefix
  <2>3. Len(c) + 1 <= Len(p) /\ SubSeq(p, 1, Len(c)) = c /\ Len(c) + 1 <= Len(q) /\ SubSeq(q, 1, Len(c)) = c
    BY <1>0, <1>2, <2>2
  <2>4. Len(c) + 1 \in 1..Len(p) /\ (Len(c) + 1) - 1 = Len(c)
    BY <2>3 DEF Paths
  <2>. QED BY <2>1, <2>3, <2>4 DEF LeftOf
<1>. QED BY <1>1, <1>2

LEMMA BeforeTotal ==
  ASSUME NEW p \in Paths, NEW q \in Paths, p # q
  PROVE  Before(p, q) \/ Before(q, p)
<1>1. CASE IsPrefix(p, q) \/ IsPrefix(q, p)
  BY <1>1 DEF Before, IsStrictPrefix
<1>2. CASE ~IsPrefix(p, q) /\ ~IsPrefix(q, p)
  <2> DEFINE S == {Len(r) : r \in {x \in Paths : IsPrefix(x, p) /\ ~IsPrefix(x, q)}}
  <2>1. Len(p) \in S /\ S \in SUBSET Nat
    BY <1>2, PrefixOrder DEF Paths
  <2>2. PICK n \in S : \A m \in S : n <= m
    <3> HIDE DEF S
    <3>. QED BY <2>1, LeastNat
  <2>3. PICK r \in Paths : Len(r) = n /\ IsPrefix(r, p) /\ ~IsPrefix(r, q)
    BY <2>2
  <2>4. r # <<>>
    BY <2>3, PrefixOrder
  <2>5. PICK f \in Paths, s \in Sides : r = f \o <<s>>
    BY <2>4, ParentOf
  <2>6. IsPrefix(f, r) /\ Len(f) < Len(r)
    <3>1. r = Append(f, s) /\ <<s>> \in Paths
      BY <2>5, Child
    <3>2. Len(r) = Len(f) + 1 /\ Len(f) \in Nat
      BY <3>1, AppendProperties DEF Paths
    <3>. QED BY <2>5, <3>1, <3>2, RestOf
  <2>7. IsPrefix(f, p)
    BY <2>3, <2>6, PrefixOrder
  <2>8. IsPrefix(f, q)
    <3> SUFFICES ASSUME ~IsPrefix(f, q) PROVE FALSE
      OBVIOUS
    <3>1. Len(f) \in S
      BY <2>7
    <3>. QED BY <2>1, <2>2, <2>3, <2>6, <3>1
  <2>9. f # q
    BY <1>2, <2>7
  <2>10. PICK u \in Sides : IsPrefix(f \o <<u>>, q)
    BY <2>8, <2>9, BelowChild
  <2>11. u # s
    BY <2>3, <2>5, <2>10
  <2>12. IsPrefix(f \o <<s>>, p)
    BY <2>3, <2>5
  <2>13. CASE s = "a" /\ u = "b"
    <3>1. LeftOf(p, q)
      BY <2>10, <2>12, <2>13, LeftOfFork
    <3>. QED BY <3>1 DEF Before
  <2>14. CASE s = "b" /\ u = "a"
    <3>1. LeftOf(q, p)
      BY <2>10, <2>12, <2>14, LeftOfFork
    <3>. QED BY <3>1 DEF Before
  <2>. QED BY <2>11, <2>13, <2>14 DEF Sides
<1>. QED BY <1>1, <1>2

LEMMA BeforeTransitive ==
  ASSUME NEW p \in Paths, NEW q \in Paths, NEW r \in Paths, Before(p, q), Before(q, r)
  PROVE  Before(p, r)
<1>0. "a" \in Sides /\ "b" \in Sides
  BY DEF Sides
<1>1. CASE IsStrictPrefix(p, q) /\ IsStrictPrefix(q, r)
  <2>1. IsPrefix(p, r) /\ p # r
    BY <1>1, PrefixOrder DEF IsStrictPrefix
  <2>. QED BY <2>1 DEF Before, IsStrictPrefix
<1>2. CASE IsStrictPrefix(p, q) /\ LeftOf(q, r)
  <2>1. PICK c \in Paths : IsPrefix(c \o <<"a">>, q) /\ IsPrefix(c \o <<"b">>, r)
    BY <1>2, LeftOfFork
  <2>2. PICK ca \in Paths, cb \in Paths : ca = c \o <<"a">> /\ cb = c \o <<"b">>
    BY <1>0, Child
  <2>3. IsPrefix(p, ca) \/ IsPrefix(ca, p)
    BY <1>2, <2>1, <2>2, Comparable DEF IsStrictPrefix
  <2>4. CASE IsPrefix(ca, p)
    <3>1. LeftOf(p, r)
      BY <2>1, <2>2, <2>4, LeftOfFork
    <3>. QED BY <3>1 DEF Before
  <2>5. CASE IsPrefix(p, c)
    <3>1. IsPrefix(c, cb) /\ c # cb /\ IsPrefix(cb, r)
      BY <1>0, <2>1, <2>2, Child, RestOf
    <3>2. IsPrefix(p, cb) /\ p # cb
      BY <2>5, <3>1, PrefixOrder
    <3>3. IsPrefix(p, r) /\ p # r
      BY <3>1, <3>2, PrefixOrder
    <3>. QED BY <3>3 DEF Before, IsStrictPrefix
  <2>6. IsPrefix(p, ca) => IsPrefix(p, c) \/ p = ca
    BY <1>0, <2>2, Child
  <2>. QED BY <2>3, <2>4, <2>5, <2>6, PrefixOrder
<1>3. CASE LeftOf(p, q) /\ IsStrictPrefix(q, r)
  <2>1. PICK c \in Paths : IsPrefix(c \o <<"a">>, p) /\ IsPrefix(c \o <<"b">>, q)
    BY <1>3, LeftOfFork
  <2>2. PICK cb \in Paths : cb = c \o <<"b">>
    BY <1>0, Child
  <2>3. IsPrefix(cb, r)
    BY <1>3, <2>1, <2>2, PrefixOrder DEF IsStrictPrefix
  <2>4. LeftOf(p, r)
    BY <2>1, <2>2, <2>3, LeftOfFork
  <2>. QED BY <2>4 DEF Before
<1>4. CASE LeftOf(p, q) /\ LeftOf(q, r)
  <2>1. PICK c \in Paths : IsPrefix(c \o <<"a">>, p) /\ IsPrefix(c \o <<"b">>, q)
    BY <1>4, LeftOfFork
  <2>2. PICK d \in Paths : IsPrefix(d \o <<"a">>, q) /\ IsPrefix(d \o <<"b">>, r)
    BY <1>4, LeftOfFork
  <2>3. PICK ca \in Paths, cb \in Paths : ca = c \o <<"a">> /\ cb = c \o <<"b">>
    BY <1>0, Child
  <2>4. PICK da \in Paths, db \in Paths : da = d \o <<"a">> /\ db = d \o <<"b">>
    BY <1>0, Child
  <2>5. IsPrefix(c, ca) /\ IsPrefix(d, db) /\ IsPrefix(ca, p) /\ IsPrefix(db, r)
    BY <1>0, <2>1, <2>2, <2>3, <2>4, FirstStep, RestOf
  <2>6. IsPrefix(cb, da) \/ IsPrefix(da, cb)
    BY <2>1, <2>2, <2>3, <2>4, Comparable
  <2>7. cb # da
    <3> SUFFICES ASSUME cb = da PROVE FALSE
      OBVIOUS
    <3>1. Front(c \o <<"b">>) = c /\ Front(d \o <<"a">>) = d
      BY <1>0, Child
    <3>2. c = d
      BY <2>3, <2>4, <3>1
    <3>3. IsPrefix(cb, cb)
      BY PrefixOrder
    <3>4. IsPrefix(c \o <<"b">>, cb) /\ IsPrefix(c \o <<"a">>, cb)
      BY <2>3, <2>4, <3>2, <3>3
    <3>5. "a" = "b"
      BY <1>0, <3>4, ChildrenApart
    <3>. QED BY <3>5
  <2>8. CASE IsPrefix(cb, da)
    <3>1. IsPrefix(cb, d)
      BY <1>0, <2>4, <2>7, <2>8, Child
    <3>2. IsPrefix(cb, r)
      BY <2>5, <3>1, PrefixOrder
    <3>3. LeftOf(p, r)
      BY <2>1, <2>3, <3>2, LeftOfFork
    <3>. QED BY <3>3 DEF Before
  <2>9. CASE IsPrefix(da, cb)
    <3>1. IsPrefix(da, c)
      BY <1>0, <2>3, <2>7, <2>9, Child
    <3>2. IsPrefix(da, p)
      BY <2>5, <3>1, PrefixOrder
    <3>3. LeftOf(p, r)
      BY <2>2, <2>4, <3>2, LeftOfFork
    <3>. QED BY <3>3 DEF Before
  <2>. QED BY <2>6, <2>8, <2>9
<1>. QED BY <1>1, <1>2, <1>3, <1>4 DEF Before
-----------------------------------------------------------------------------
(* CloneFresh.                                                             *)

Rank(S, p) == Cardinality({q \in S : Before(q, p)})

LEMMA Ranks ==
  ASSUME NEW S \in SUBSET Paths, IsFiniteSet(S)
  PROVE  /\ Cardinality(S) \in Nat
         /\ \A p \in S : Rank(S, p) \in Nat /\ Rank(S, p) < Cardinality(S)
         /\ \A p, q \in S : Before(p, q) => Rank(S, p) < Rank(S, q)
         /\ \A p, q \in S : Rank(S, p) = Rank(S, q) => p = q
<1> DEFINE B(p) == {q \in S : Before(q, p)}
<1>1. Cardinality(S) \in Nat
  BY FS_CardinalityType
<1>2. ASSUME NEW p \in S
      PROVE  /\ IsFiniteSet(B(p)) /\ Rank(S, p) = Cardinality(B(p)) /\ Rank(S, p) \in Nat /\ p \notin B(p)
  <2>1. IsFiniteSet(B(p))
    BY FS_Subset
  <2>2. Rank(S, p) = Cardinality(B(p))
    BY DEF Rank
  <2>3. p \notin B(p)
    BY NotBeforeItself
  <2> HIDE DEF B
  <2>. QED BY <2>1, <2>2, <2>3, FS_CardinalityType
<1>3. ASSUME NEW p \in S PROVE Rank(S, p) < Cardinality(S)
  <2>1. B(p) \in SUBSET S /\ p \in S /\ p \notin B(p)
    BY <1>2
  <2> HIDE DEF B
  <2>2. Cardinality(B(p)) <= Cardinality(S) /\ Cardinality(B(p)) # Cardinality(S)
    BY <2>1, FS_Subset
  <2>. QED BY <1>1, <1>2, <2>2
<1>4. ASSUME NEW p \in S, NEW q \in S, Before(p, q) PROVE Rank(S, p) < Rank(S, q)
  <2>1. B(p) \in SUBSET B(q) /\ p \in B(q) /\ p \notin B(p)
    BY <1>2, <1>4, BeforeTransitive
  <2> HIDE DEF B
  <2>2. Cardinality(B(p)) <= Cardinality(B(q)) /\ Cardinality(B(p)) # Cardinality(B(q))
    BY <1>2, <2>1, FS_Subset
  <2>. QED BY <1>2, <2>2
<1>5. ASSUME NEW p \in S, NEW q \in S, Rank(S, p) = Rank(S, q) PROVE p = q
  <2> SUFFICES ASSUME p # q PROVE FALSE
    OBVIOUS
  <2>1. Before(p, q) \/ Before(q, p)
    BY BeforeTotal
  <2>2. Rank(S, p) < Rank(S, q) \/ Rank(S, q) < Rank(S, p)
    BY <1>4, <2>1
  <2>3. Rank(S, p) \in Nat /\ Rank(S, q) \in Nat
    BY <1>2
  <2>. QED BY <1>5, <2>2, <2>3
<1>. QED BY <1>1, <1>2, <1>3, <1>4, <1>5

LEMMA CloneFreshSound ==
  ASSUME NEW A, NEW D, NEW t, Sound(t, A, D), NEW g \in Nat
  PROVE  /\ Sound(CloneFresh(t, g), A, D)
         /\ Cardinality(DOMAIN t) \in Nat
         /\ NodeIds(CloneFresh(t, g)) \subseteq (g + 1)..(g + Cardinality(DOMAIN t))
<1> DEFINE S == DOMAIN t
<1>1. S \in SUBSET Paths /\ IsFiniteSet(S)
  BY DEF Sound, Tree, Shape
<1>2. PICK c : c = CloneFresh(t, g)
  OBVIOUS
<1>3. /\ DOMAIN c = S /\ IsFcn(c)
      /\ \A p \in S : c[p] = [t[p] EXCEPT !.id = g + 1 + Rank(S, p)]
  BY <1>2 DEF CloneFresh, Rank, IsFcn
<1>4. /\ Cardinality(S) \in Nat
      /\ \A p \in S : Rank(S, p) \in Nat /\ Rank(S, p) < Cardinality(S)
      /\ \A p, q \in S : Before(p, q) => Rank(S, p) < Rank(S, q)
      /\ \A p, q \in S : Rank(S, p) = Rank(S, q) => p = q
  <2> HIDE DEF S
  <2>. QED BY <1>1, Ranks
<1>5. ASSUME NEW p \in S
      PROVE  c[p].id = g + 1 + Rank(S, p) /\ c[p].kind = t[p].kind /\ c[p] \in Node(A, D)
  <2>1. t[p] \in Node(A, D)
    BY DEF Sound, Tree
  <2>2. PICK n \in Nat \ {0} : n = g + 1 + Rank(S, p)
    BY <1>4
  <2>3. c[p] = [t[p] EXCEPT !.id = n]
    BY <1>3, <2>2
  <2> HIDE DEF S
  <2>. QED BY <2>1, <2>2, <2>3 DEF Node
<1>6. Shape(c)
  <2>1. Shape(t)
    BY DEF Sound, Tree
  <2>2. \A x \in DOMAIN c, q \in Paths :
           IsPrefix(q, x) /\ q # x => q \in DOMAIN c /\ c[q].kind = "split"
    BY <1>3, <1>5, <2>1 DEF Shape
  <2>3. \A x \in DOMAIN c, v \in Sides : c[x].kind = "split" => x \o <<v>> \in DOMAIN c
    BY <1>3, <1>5, <2>1 DEF Shape
  <2>. QED BY <1>3, <2>1, <2>2, <2>3 DEF Shape
<1>7. UniqueIds(c)
  <2> SUFFICES ASSUME NEW p \in S, NEW q \in S, c[p].id = c[q].id PROVE p = q
    BY <1>3 DEF UniqueIds
  <2>1. g + 1 + Rank(S, p) = g + 1 + Rank(S, q)
    BY <1>5
  <2>2. Rank(S, p) = Rank(S, q)
    BY <1>4, <2>1
  <2>. QED BY <1>4, <2>2
<1>8. ASSUME NEW p \in S PROVE c[p].id \in (g + 1)..(g + Cardinality(S))
  <2>1. Rank(S, p) \in Nat /\ Rank(S, p) < Cardinality(S) /\ Cardinality(S) \in Nat
    BY <1>4
  <2>. QED BY <1>5, <2>1
<1>9. NodeIds(c) \subseteq (g + 1)..(g + Cardinality(S))
  BY <1>3, <1>8 DEF NodeIds
<1>10. Sound(c, A, D)
  BY <1>3, <1>5, <1>6, <1>7 DEF Sound, Tree
<1>. QED BY <1>2, <1>4, <1>9, <1>10
-----------------------------------------------------------------------------
(* Rows of leaves.                                                         *)

\* w numbers the paths of S from 1 to n in traversal order.
Listed(w, n, S) ==
  /\ n \in Nat /\ w \in [1..n -> S]
  /\ \A p \in S : \E i \in 1..n : w[i] = p
  /\ \A i, j \in 1..n : i < j => Before(w[i], w[j])

\* A listing has no path twice, and its order is the order of the paths.
LEMMA ListInjective ==
  ASSUME NEW S \in SUBSET Paths, NEW w, NEW n, Listed(w, n, S)
  PROVE  /\ \A i, j \in 1..n : w[i] = w[j] => i = j
         /\ \A i, j \in 1..n : Before(w[i], w[j]) => i < j
<1>1. ASSUME NEW i \in 1..n, NEW j \in 1..n, Before(w[i], w[j]), ~(i < j) PROVE FALSE
  <2>1. w[i] \in Paths /\ w[j] \in Paths
    BY DEF Listed
  <2>2. i = j \/ j < i
    BY <1>1
  <2>3. CASE i = j
    BY <1>1, <2>1, <2>3, NotBeforeItself
  <2>4. CASE j < i
    <3>1. Before(w[j], w[i])
      BY <2>4 DEF Listed
    <3>2. Before(w[i], w[i])
      BY <1>1, <2>1, <3>1, BeforeTransitive
    <3>. QED BY <2>1, <3>2, NotBeforeItself
  <2>. QED BY <2>2, <2>3, <2>4
<1>2. ASSUME NEW i \in 1..n, NEW j \in 1..n, w[i] = w[j], i # j PROVE FALSE
  <2>1. w[i] \in Paths /\ w[j] \in Paths
    BY DEF Listed
  <2>2. Before(w[i], w[j]) \/ Before(w[j], w[i])
    BY <1>2 DEF Listed
  <2>. QED BY <1>2, <2>1, <2>2, NotBeforeItself
<1>. QED BY <1>1, <1>2

\* The number of a path is one more than how many come before it.
LEMMA ListRanks ==
  ASSUME NEW S \in SUBSET Paths, IsFiniteSet(S), NEW w, NEW n, Listed(w, n, S)
  PROVE  Cardinality(S) = n /\ \A i \in 1..n : Rank(S, w[i]) + 1 = i
<1>1. n \in Nat /\ w \in [1..n -> S] /\ \A p \in S : \E i \in 1..n : w[i] = p
  BY DEF Listed
<1>2. Cardinality(S) = n
  <2>1. w \in Bijection(1..n, S)
    <3>1. \A i, j \in 1..n : w[i] = w[j] => i = j
      BY ListInjective
    <3>2. w \in Injection(1..n, S)
      BY <1>1, <3>1 DEF Injection, IsInjective
    <3>3. w \in Surjection(1..n, S)
      BY <1>1 DEF Surjection
    <3>. QED BY <3>2, <3>3 DEF Bijection
  <2>2. ExistsBijection(1..n, S)
    BY <2>1 DEF ExistsBijection
  <2>. QED BY <1>1, <2>2, FS_Bijection, FS_Interval
<1>3. ASSUME NEW i \in 1..n PROVE Rank(S, w[i]) + 1 = i
  <2> DEFINE B == {q \in S : Before(q, w[i])}
             f == [j \in 1..(i - 1) |-> w[j]]
  <2>1. \A j \in 1..(i - 1) : j \in 1..n /\ j < i
    BY <1>1
  <2>2. f \in [1..(i - 1) -> B]
    BY <1>1, <2>1 DEF Listed
  <2>3. \A q \in B : \E j \in 1..(i - 1) : f[j] = q
    <3> SUFFICES ASSUME NEW q \in B PROVE \E j \in 1..(i - 1) : f[j] = q
      OBVIOUS
    <3>1. PICK j \in 1..n : w[j] = q
      BY <1>1
    <3>2. j < i
      BY <3>1, ListInjective
    <3>3. j \in 1..(i - 1)
      BY <1>1, <3>2
    <3>. QED BY <3>1, <3>3
  <2>4. \A j, k \in 1..(i - 1) : f[j] = f[k] => j = k
    BY <2>1, ListInjective
  <2>5. Rank(S, w[i]) = Cardinality(B)
    BY DEF Rank
  <2> HIDE DEF f, B
  <2>6. f \in Bijection(1..(i - 1), B)
    BY <2>2, <2>3, <2>4 DEF Bijection, Injection, Surjection, IsInjective
  <2>7. ExistsBijection(1..(i - 1), B)
    BY <2>6 DEF ExistsBijection
  <2>8. i - 1 \in Nat /\ IsFiniteSet(1..(i - 1)) /\ Cardinality(1..(i - 1)) = i - 1
    BY <1>1, FS_Interval
  <2>9. Cardinality(B) = i - 1
    BY <2>7, <2>8, FS_Bijection
  <2>. QED BY <1>1, <2>5, <2>9
<1>. QED BY <1>2, <1>3

\* Every finite set of paths has a listing.
LEMMA ListExists ==
  ASSUME NEW S \in SUBSET Paths, IsFiniteSet(S)
  PROVE  \E w, n : Listed(w, n, S)
<1>1. PICK n : n = Cardinality(S)
  OBVIOUS
<1>2. /\ n \in Nat
      /\ \A p \in S : Rank(S, p) \in Nat /\ Rank(S, p) < n
      /\ \A p, q \in S : Before(p, q) => Rank(S, p) < Rank(S, q)
      /\ \A p, q \in S : Rank(S, p) = Rank(S, q) => p = q
  BY <1>1, Ranks
<1> DEFINE r == [p \in S |-> Rank(S, p) + 1]
           w == [i \in 1..n |-> CHOOSE p \in S : r[p] = i]
<1>3. \A p \in S : r[p] \in 1..n
  BY <1>2
<1>4. \A p, q \in S : r[p] = r[q] => p = q
  BY <1>2
<1>5. \A i \in 1..n : \E p \in S : r[p] = i
  <2>1. r \in Injection(S, 1..n)
    BY <1>3, <1>4 DEF Injection, IsInjective
  <2>2. IsFiniteSet(1..n) /\ Cardinality(1..n) = Cardinality(S)
    BY <1>1, <1>2, FS_Interval
  <2>3. r \in Surjection(S, 1..n)
    BY <2>1, <2>2, FS_Injection
  <2> HIDE DEF r
  <2>. QED BY <2>3 DEF Surjection
<1>6. \A i \in 1..n : w[i] \in S /\ r[w[i]] = i
  <2> HIDE DEF r
  <2>. QED BY <1>5
<1>7. \A p \in S : \E i \in 1..n : w[i] = p
  <2> SUFFICES ASSUME NEW p \in S PROVE w[r[p]] = p
    BY <1>3
  <2> HIDE DEF r, w
  <2>. QED BY <1>3, <1>4, <1>6
<1>8. ASSUME NEW i \in 1..n, NEW j \in 1..n, i < j PROVE Before(w[i], w[j])
  <2>1. w[i] \in S /\ w[j] \in S /\ r[w[i]] = i /\ r[w[j]] = j
    BY <1>6
  <2>2. w[i] # w[j]
    <3> HIDE DEF r, w
    <3>. QED BY <1>8, <2>1
  <2>3. PICK a \in S, b \in S : a = w[i] /\ b = w[j]
    BY <2>1
  <2>4. Rank(S, a) + 1 = i /\ Rank(S, b) + 1 = j /\ Rank(S, a) \in Nat /\ Rank(S, b) \in Nat
    BY <1>2, <2>1, <2>3
  <2>5. ~Before(b, a)
    <3>1. Rank(S, a) < Rank(S, b)
      BY <1>8, <2>4
    <3>. QED BY <1>2, <2>4, <3>1
  <2>6. a \in Paths /\ b \in Paths /\ a # b
    BY <2>2, <2>3
  <2>. QED BY <2>3, <2>5, <2>6, BeforeTotal
<1>9. Listed(w, n, S)
  <2>1. w \in [1..n -> S]
    BY <1>6
  <2> HIDE DEF w, r
  <2>. QED BY <1>2, <1>7, <1>8, <2>1 DEF Listed
<1>. QED BY <1>9

\* The tile a leaf is shown as.
Tile(node) == [id |-> node.id, app |-> node.app]
Row(t) == [k \in DOMAIN Leaves(t) |-> Tile(Leaves(t)[k])]

\* A row is the leaves at the listed paths, whatever listing it is.
LEMMA RowListed ==
  ASSUME NEW t, NEW A, NEW D, Tree(t, A, D), NEW w, NEW n, Listed(w, n, LeafPaths(t))
  PROVE  Row(t) = [i \in 1..n |-> Tile(t[w[i]])] /\ CountLeaves(t) = n
<1>1. PICK S : S = LeafPaths(t)
  OBVIOUS
<1>2. S \in SUBSET Paths /\ IsFiniteSet(S)
  <2>1. S \subseteq DOMAIN t
    BY <1>1 DEF LeafPaths
  <2>. QED BY <2>1, FS_Subset DEF Tree, Shape
<1>3. Listed(w, n, S)
  BY <1>1
<1>4. Cardinality(S) = n /\ \A i \in 1..n : Rank(S, w[i]) + 1 = i
  BY <1>2, <1>3, ListRanks
<1>5. n \in Nat /\ w \in [1..n -> S] /\ \A p \in S : \E i \in 1..n : w[i] = p
  BY <1>3 DEF Listed
<1>6. Leaves(t) = [i \in 1..n |-> t[CHOOSE p \in S : Rank(S, p) + 1 = i]]
  BY <1>1, <1>4 DEF Leaves, Rank
<1>7. ASSUME NEW i \in 1..n PROVE (CHOOSE p \in S : Rank(S, p) + 1 = i) = w[i]
  <2>1. w[i] \in S /\ Rank(S, w[i]) + 1 = i
    BY <1>4, <1>5
  <2>2. \A p \in S : Rank(S, p) + 1 = i => p = w[i]
    BY <1>4, <1>5
  <2>. QED BY <2>1, <2>2
<1>8. Leaves(t) = [i \in 1..n |-> t[w[i]]]
  BY <1>6, <1>7
<1>. QED BY <1>1, <1>4, <1>8 DEF Row, CountLeaves

\* f takes R into S2 and keeps the order.
Carries(f, R, S2) == f \in [R -> S2] /\ \A x, y \in R : Before(x, y) => Before(f[x], f[y])
\* Every path of S2 comes from one of R.
Covers(f, R, S2) == \A x \in S2 : \E p \in R : x = f[p]
\* q comes between the k-th path and the next.
Parts(f, w, n, k, q) == \A i \in 1..n : IF i <= k THEN Before(f[w[i]], q) ELSE Before(q, f[w[i]])

\* One more path q comes behind the k-th, the others keep their order.
LEMMA ListGrows ==
  ASSUME NEW S \in SUBSET Paths, NEW w, NEW n, Listed(w, n, S), NEW S2 \in SUBSET Paths,
         NEW k \in 0..n, NEW q \in S2, NEW f, Carries(f, S, S2), Covers(f, S, S2 \ {q}),
         Parts(f, w, n, k, q)
  PROVE  Listed([i \in 1..(n + 1) |-> IF i <= k THEN f[w[i]] ELSE IF i = k + 1 THEN q ELSE f[w[i - 1]]],
                n + 1, S2)
<1> DEFINE v == [i \in 1..(n + 1) |-> IF i <= k THEN f[w[i]] ELSE IF i = k + 1 THEN q ELSE f[w[i - 1]]]
<1>1. n \in Nat /\ w \in [1..n -> S] /\ \A p \in S : \E i \in 1..n : w[i] = p
  BY DEF Listed
<1>0. /\ f \in [S -> S2] /\ \A x, y \in S : Before(x, y) => Before(f[x], f[y])
      /\ \A x \in S2 : x = q \/ \E p \in S : x = f[p]
      /\ \A i \in 1..n : IF i <= k THEN Before(f[w[i]], q) ELSE Before(q, f[w[i]])
  BY DEF Carries, Covers, Parts
<1>2. \A i, j \in 1..n : i < j => Before(f[w[i]], f[w[j]])
  BY <1>0, <1>1 DEF Listed
<1>3. \A i \in 1..(n + 1) :
        /\ i <= k => i \in 1..n /\ v[i] = f[w[i]]
        /\ i = k + 1 => v[i] = q
        /\ i > k + 1 => i - 1 \in 1..n /\ i - 1 > k /\ v[i] = f[w[i - 1]]
        /\ i <= k \/ i = k + 1 \/ i > k + 1
  BY <1>1
<1>4. v \in [1..(n + 1) -> S2]
  <2>1. \A i \in 1..(n + 1) : v[i] \in S2
    <3> HIDE DEF v
    <3>. QED BY <1>0, <1>1, <1>3
  <2>. QED BY <2>1
<1>5. ASSUME NEW x \in S2 PROVE \E i \in 1..(n + 1) : v[i] = x
  <2>1. CASE x = q
    <3>1. k + 1 \in 1..(n + 1)
      BY <1>1
    <3> HIDE DEF v
    <3>. QED BY <1>3, <2>1, <3>1
  <2>2. CASE x # q
    <3>1. PICK i \in 1..n : x = f[w[i]]
      BY <1>0, <1>1, <2>2
    <3>2. CASE i <= k
      <4>1. i \in 1..(n + 1)
        BY <1>1
      <4> HIDE DEF v
      <4>. QED BY <1>3, <3>1, <3>2, <4>1
    <3>3. CASE i > k
      <4>1. i + 1 \in 1..(n + 1) /\ i + 1 > k + 1 /\ (i + 1) - 1 = i
        BY <1>1, <3>3
      <4> HIDE DEF v
      <4>. QED BY <1>3, <3>1, <4>1
    <3>. QED BY <1>1, <3>2, <3>3
  <2>. QED BY <2>1, <2>2
<1>6. ASSUME NEW i \in 1..(n + 1), NEW j \in 1..(n + 1), i < j PROVE Before(v[i], v[j])
  <2> HIDE DEF v
  <2>1. CASE i <= k /\ j <= k
    BY <1>2, <1>3, <1>6, <2>1
  <2>2. CASE i <= k /\ j = k + 1
    BY <1>0, <1>3, <2>2
  <2>3. CASE i <= k /\ j > k + 1
    <3>1. i \in 1..n /\ j - 1 \in 1..n /\ i < j - 1
      BY <1>3, <2>3
    <3>. QED BY <1>2, <1>3, <2>3, <3>1
  <2>4. CASE i = k + 1 /\ j > k + 1
    <3>1. j - 1 \in 1..n /\ ~(j - 1 <= k)
      BY <1>3, <2>4
    <3>. QED BY <1>0, <1>3, <2>4, <3>1
  <2>5. CASE i > k + 1 /\ j > k + 1
    <3>1. i - 1 \in 1..n /\ j - 1 \in 1..n /\ i - 1 < j - 1
      BY <1>3, <1>6, <2>5
    <3>. QED BY <1>2, <1>3, <2>5, <3>1
  <2>. QED BY <1>1, <1>6, <2>1, <2>2, <2>3, <2>4, <2>5
<1>7. n + 1 \in Nat
  BY <1>1
<1> HIDE DEF v
<1>8. Listed(v, n + 1, S2)
  BY <1>4, <1>5, <1>6, <1>7 DEF Listed
<1>. QED BY <1>8 DEF v

\* The k-th path goes, the others keep their order.
LEMMA ListShrinks ==
  ASSUME NEW S \in SUBSET Paths, NEW w, NEW n, Listed(w, n, S), NEW S2 \in SUBSET Paths,
         NEW k \in 1..n, NEW R, R = S \ {w[k]}, NEW f, Carries(f, R, S2), Covers(f, R, S2)
  PROVE  Listed([i \in 1..(n - 1) |-> f[w[IF i < k THEN i ELSE i + 1]]], n - 1, S2)
<1>0. \A i, j \in 1..n : w[i] = w[j] => i = j
  BY ListInjective
<1>12. /\ f \in [R -> S2] /\ \A x, y \in R : Before(x, y) => Before(f[x], f[y])
      /\ \A x \in S2 : \E p \in R : x = f[p]
  BY DEF Carries, Covers
<1> DEFINE at(i) == IF i < k THEN i ELSE i + 1
           v == [i \in 1..(n - 1) |-> f[w[at(i)]]]
<1>1. n \in Nat /\ w \in [1..n -> S] /\ \A p \in S : \E i \in 1..n : w[i] = p
  BY DEF Listed
<1>2. \A i \in 1..(n - 1) : at(i) \in 1..n /\ at(i) # k
  BY <1>1
<1>3. \A i \in 1..n : i # k => w[i] \in R
  BY <1>0, <1>1
<1>4. \A i, j \in 1..(n - 1) : i < j => at(i) < at(j)
  BY <1>1
<1>5. \A i \in 1..n : i # k => \E j \in 1..(n - 1) : at(j) = i
  <2> SUFFICES ASSUME NEW i \in 1..n, i # k PROVE \E j \in 1..(n - 1) : at(j) = i
    OBVIOUS
  <2>1. CASE i < k
    <3>1. i \in 1..(n - 1) /\ at(i) = i
      BY <1>1, <2>1
    <3> HIDE DEF at
    <3>. QED BY <3>1
  <2>2. CASE i > k
    <3>1. i - 1 \in 1..(n - 1) /\ at(i - 1) = i
      BY <1>1, <2>2
    <3> HIDE DEF at
    <3>. QED BY <3>1
  <2>. QED BY <1>1, <2>1, <2>2
<1>6. \A i \in 1..(n - 1) : v[i] = f[w[at(i)]]
  OBVIOUS
<1> HIDE DEF at
<1>7. v \in [1..(n - 1) -> S2]
  <2>1. \A i \in 1..(n - 1) : f[w[at(i)]] \in S2
    BY <1>2, <1>3, <1>12
  <2>. QED BY <2>1
<1> HIDE DEF v
<1>8. ASSUME NEW x \in S2 PROVE \E i \in 1..(n - 1) : v[i] = x
  <2>1. PICK i \in 1..n : x = f[w[i]] /\ i # k
    BY <1>1, <1>12
  <2>2. PICK j \in 1..(n - 1) : at(j) = i
    BY <1>5, <2>1
  <2>. QED BY <1>6, <2>1, <2>2
<1>9. ASSUME NEW i \in 1..(n - 1), NEW j \in 1..(n - 1), i < j PROVE Before(v[i], v[j])
  <2>1. PICK a \in 1..n, b \in 1..n : a = at(i) /\ b = at(j)
    BY <1>2
  <2>2. a # k /\ b # k /\ a < b
    BY <1>2, <1>4, <1>9, <2>1
  <2>3. Before(w[a], w[b]) /\ w[a] \in R /\ w[b] \in R
    BY <1>3, <2>2 DEF Listed
  <2>. QED BY <1>6, <1>12, <2>1, <2>3
<1>10. n - 1 \in Nat
  BY <1>1
<1>11. Listed(v, n - 1, S2)
  BY <1>7, <1>8, <1>9, <1>10 DEF Listed
<1>. QED BY <1>11 DEF v, at

\* What the community modules' operators do, by index.
InsertedTile(s, k, e, i) == IF i <= k THEN s[i] ELSE IF i = k + 1 THEN e ELSE s[i - 1]

\* InsertAt, place by place.
LEMMA InsertedAt ==
  ASSUME NEW E, NEW s \in Seq(E), NEW n, n = Len(s), NEW k \in 0..n, NEW e \in E
  PROVE  /\ InsertAt(s, k + 1, e) \in Seq(E) /\ Len(InsertAt(s, k + 1, e)) = n + 1
         /\ \A i \in 1..(n + 1) : InsertAt(s, k + 1, e)[i] = InsertedTile(s, k, e, i)
<1>0. n \in Nat /\ k \in Nat /\ k <= n /\ n - k \in Nat
  OBVIOUS
<1>1. PICK a, b : a = SubSeq(s, 1, k) /\ b = SubSeq(s, k + 1, n)
  OBVIOUS
<1>2. a \in Seq(E) /\ Len(a) = k /\ \A i \in 1..k : a[i] = s[i]
  BY <1>0, <1>1
<1>3. b \in Seq(E) /\ Len(b) = n - k /\ \A i \in 1..(n - k) : b[i] = s[i + k]
  BY <1>0, <1>1
<1>4. PICK c, d : c = a \o d /\ d = <<e>>
  OBVIOUS
<1>5. d \in Seq(E) /\ Len(d) = 1 /\ d[1] = e
  BY <1>4
<1>6. c \in Seq(E) /\ Len(c) = k + 1 /\ \A i \in 1..(k + 1) : c[i] = IF i <= k THEN a[i] ELSE d[i - k]
  BY <1>0, <1>2, <1>4, <1>5, ConcatProperties
<1>7. PICK r : r = c \o b
  OBVIOUS
<1>8. InsertAt(s, k + 1, e) = r
  <2>1. (k + 1) - 1 = k
    BY <1>0
  <2>. QED BY <1>1, <1>4, <1>7, <2>1 DEF InsertAt
<1>9. /\ r \in Seq(E) /\ Len(r) = (k + 1) + (n - k)
      /\ \A i \in 1..((k + 1) + (n - k)) : r[i] = IF i <= k + 1 THEN c[i] ELSE b[i - (k + 1)]
  <2>1. /\ r \in Seq(E) /\ Len(r) = Len(c) + Len(b)
        /\ \A i \in 1..(Len(c) + Len(b)) : r[i] = IF i <= Len(c) THEN c[i] ELSE b[i - Len(c)]
    BY <1>3, <1>6, <1>7, ConcatProperties
  <2>2. Len(c) = k + 1 /\ Len(b) = n - k
    BY <1>3, <1>6
  <2>. QED BY <2>1, <2>2
<1>10. (k + 1) + (n - k) = n + 1
  BY <1>0
<1>11. ASSUME NEW i \in 1..(n + 1) PROVE r[i] = InsertedTile(s, k, e, i)
  <2> USE DEF InsertedTile
  <2>1. CASE i <= k
    <3>1. i \in 1..k /\ i \in 1..(k + 1) /\ i <= k + 1
      BY <1>0, <2>1
    <3>. QED BY <1>2, <1>6, <1>9, <1>10, <2>1, <3>1
  <2>2. CASE i = k + 1
    <3>1. i \in 1..(k + 1) /\ i <= k + 1 /\ ~(i <= k) /\ i - k = 1
      BY <1>0, <2>2
    <3>. QED BY <1>5, <1>6, <1>9, <1>10, <2>2, <3>1
  <2>3. CASE i > k + 1
    <3>1. PICK j \in 1..(n - k) : j = i - (k + 1) /\ j + k = i - 1
      BY <1>0, <2>3
    <3>2. ~(i <= k + 1) /\ ~(i <= k) /\ i # k + 1
      BY <1>0, <2>3
    <3>. QED BY <1>3, <1>9, <1>10, <3>1, <3>2
  <2>. QED BY <1>0, <2>1, <2>2, <2>3
<1>. QED BY <1>8, <1>9, <1>10, <1>11

\* RemoveAt, place by place.
LEMMA RemovedAt ==
  ASSUME NEW E, NEW s \in Seq(E), NEW n, n = Len(s), NEW k \in 1..n
  PROVE  /\ RemoveAt(s, k) \in Seq(E) /\ Len(RemoveAt(s, k)) = n - 1
         /\ \A i \in 1..(n - 1) : RemoveAt(s, k)[i] = s[IF i < k THEN i ELSE i + 1]
<1>0. n \in Nat /\ k \in Nat /\ 1 <= k /\ k <= n /\ n - k \in Nat /\ k - 1 \in Nat
  OBVIOUS
<1>1. PICK a, b : a = SubSeq(s, 1, k - 1) /\ b = SubSeq(s, k + 1, n)
  OBVIOUS
<1>2. a \in Seq(E) /\ Len(a) = k - 1 /\ \A i \in 1..(k - 1) : a[i] = s[i]
  BY <1>0, <1>1
<1>3. b \in Seq(E) /\ Len(b) = n - k /\ \A i \in 1..(n - k) : b[i] = s[i + k]
  BY <1>0, <1>1
<1>4. PICK r : r = a \o b
  OBVIOUS
<1>5. RemoveAt(s, k) = r
  BY <1>1, <1>4 DEF RemoveAt
<1>6. /\ r \in Seq(E) /\ Len(r) = (k - 1) + (n - k)
      /\ \A i \in 1..((k - 1) + (n - k)) : r[i] = IF i <= k - 1 THEN a[i] ELSE b[i - (k - 1)]
  <2>1. /\ r \in Seq(E) /\ Len(r) = Len(a) + Len(b)
        /\ \A i \in 1..(Len(a) + Len(b)) : r[i] = IF i <= Len(a) THEN a[i] ELSE b[i - Len(a)]
    BY <1>2, <1>3, <1>4, ConcatProperties
  <2>2. Len(a) = k - 1 /\ Len(b) = n - k
    BY <1>2, <1>3
  <2>. QED BY <2>1, <2>2
<1>7. (k - 1) + (n - k) = n - 1
  BY <1>0
<1>8. ASSUME NEW i \in 1..(n - 1) PROVE r[i] = s[IF i < k THEN i ELSE i + 1]
  <2>1. CASE i < k
    <3>1. i \in 1..(k - 1) /\ i <= k - 1
      BY <1>0, <2>1
    <3>. QED BY <1>2, <1>6, <1>7, <2>1, <3>1
  <2>2. CASE ~(i < k)
    <3>1. PICK j \in 1..(n - k) : j = i - (k - 1) /\ j + k = i + 1
      BY <1>0, <2>2
    <3>2. ~(i <= k - 1)
      BY <1>0, <2>2
    <3>. QED BY <1>3, <1>6, <1>7, <2>2, <3>1, <3>2
  <2>. QED BY <2>1, <2>2
<1>. QED BY <1>5, <1>6, <1>7, <1>8

\* A row as a sequence of tiles.
Tiles(A) == [id : Nat \ {0}, app : A]

\* A row is a sequence of tiles, one per leaf, with the ids of the leaves.
LEMMA RowTyped ==
  ASSUME NEW t, NEW A, NEW D, Tree(t, A, D), NEW w, NEW n, Listed(w, n, LeafPaths(t))
  PROVE  /\ Row(t) \in Seq(Tiles(A)) /\ Len(Row(t)) = n /\ DOMAIN Row(t) = 1..n
         /\ \A i \in 1..n : Row(t)[i] = Tile(t[w[i]]) /\ Tile(t[w[i]]) \in Tiles(A)
         /\ LeafIds(t) = {Row(t)[i].id : i \in 1..n}
<1>1. Row(t) = [i \in 1..n |-> Tile(t[w[i]])]
  BY RowListed
<1>2. n \in Nat /\ w \in [1..n -> LeafPaths(t)] /\ \A p \in LeafPaths(t) : \E i \in 1..n : w[i] = p
  BY DEF Listed
<1>3. \A p \in LeafPaths(t) : Tile(t[p]) \in Tiles(A) /\ Tile(t[p]).id = t[p].id
  <2> SUFFICES ASSUME NEW p \in LeafPaths(t) PROVE Tile(t[p]) \in Tiles(A) /\ Tile(t[p]).id = t[p].id
    OBVIOUS
  <2>1. t[p] \in Node(A, D) /\ t[p].kind = "leaf"
    BY DEF LeafPaths, Tree
  <2>2. t[p].id \in Nat \ {0} /\ t[p].app \in A
    BY <2>1 DEF Node
  <2>. QED BY <2>2 DEF Tile, Tiles
<1>4. \A i \in 1..n : w[i] \in LeafPaths(t)
  BY <1>2
<1>5. Row(t) \in Seq(Tiles(A)) /\ Len(Row(t)) = n /\ DOMAIN Row(t) = 1..n
  <2>1. Row(t) \in [1..n -> Tiles(A)]
    BY <1>1, <1>3, <1>4
  <2>. QED BY <1>2, <2>1
<1>6. \A i \in 1..n : Row(t)[i] = Tile(t[w[i]])
  BY <1>1
<1>7. LeafIds(t) = {Row(t)[i].id : i \in 1..n}
  BY <1>2, <1>3, <1>4, <1>6 DEF LeafIds
<1>. QED BY <1>3, <1>4, <1>5, <1>6, <1>7

\* The leaf at f[p] shows what the one at p showed.
Shows(f, R, t, t2) == \A p \in R : Tile(t2[f[p]]) = Tile(t[p])

\* A tree that has the leaves of another in their order, and one leaf more
\* behind the k-th of them, has its row with one tile inserted there.
LEMMA RowGrows ==
  ASSUME NEW A, NEW D, NEW t, Tree(t, A, D), NEW t2, Tree(t2, A, D),
         NEW w, NEW n, Listed(w, n, LeafPaths(t)),
         NEW k \in 0..n, NEW q \in LeafPaths(t2), NEW f,
         Carries(f, LeafPaths(t), LeafPaths(t2)), Covers(f, LeafPaths(t), LeafPaths(t2) \ {q}),
         Parts(f, w, n, k, q),
         Shows(f, LeafPaths(t), t, t2)
  PROVE  Row(t2) = InsertAt(Row(t), k + 1, Tile(t2[q]))
<1>1. LeafPaths(t) \in SUBSET Paths /\ LeafPaths(t2) \in SUBSET Paths
  BY DEF LeafPaths, Tree, Shape
<1>2. PICK v : v = [i \in 1..(n + 1) |-> IF i <= k THEN f[w[i]] ELSE IF i = k + 1 THEN q ELSE f[w[i - 1]]]
  OBVIOUS
<1>3. Listed(v, n + 1, LeafPaths(t2))
  BY <1>1, <1>2, ListGrows
<1>4. Row(t2) = [i \in 1..(n + 1) |-> Tile(t2[v[i]])]
  BY <1>3, RowListed
<1>5. PICK r : r = Row(t)
  OBVIOUS
<1>6. r \in Seq(Tiles(A)) /\ Len(r) = n /\ \A i \in 1..n : r[i] = Tile(t[w[i]])
  BY <1>5, RowTyped
<1>7. PICK e : e = Tile(t2[q])
  OBVIOUS
<1>8. e \in Tiles(A)
  <2>1. t2[q] \in Node(A, D) /\ t2[q].kind = "leaf"
    BY DEF LeafPaths, Tree
  <2>2. t2[q].id \in Nat \ {0} /\ t2[q].app \in A
    BY <2>1 DEF Node
  <2>. QED BY <1>7, <2>2 DEF Tile, Tiles
<1>9. PICK x : x = InsertAt(r, k + 1, e)
  OBVIOUS
<1>10. n \in Nat /\ \A i \in 1..n : w[i] \in LeafPaths(t)
  BY DEF Listed
<1>11. \A i \in 1..n : Tile(t2[f[w[i]]]) = r[i]
  BY <1>6, <1>10 DEF Shows
<1>12. ASSUME NEW i \in 1..(n + 1)
       PROVE  Tile(t2[v[i]]) = InsertedTile(r, k, e, i)
  <2> USE DEF InsertedTile
  <2>1. CASE i <= k
    <3>1. v[i] = f[w[i]] /\ i \in 1..n
      BY <1>2, <1>10, <2>1
    <3>. QED BY <1>11, <2>1, <3>1
  <2>2. CASE i = k + 1
    <3>1. v[i] = q /\ ~(i <= k)
      BY <1>2, <2>2
    <3>. QED BY <1>7, <2>2, <3>1
  <2>3. CASE i > k + 1
    <3>1. v[i] = f[w[i - 1]] /\ i - 1 \in 1..n /\ ~(i <= k) /\ i # k + 1
      BY <1>2, <1>10, <2>3
    <3>. QED BY <1>11, <3>1
  <2>. QED BY <1>10, <2>1, <2>2, <2>3
<1>13. x \in Seq(Tiles(A)) /\ Len(x) = n + 1 /\ \A i \in 1..(n + 1) : x[i] = InsertedTile(r, k, e, i)
  <2>1. n = Len(r) /\ r \in Seq(Tiles(A))
    BY <1>6
  <2>2. /\ InsertAt(r, k + 1, e) \in Seq(Tiles(A)) /\ Len(InsertAt(r, k + 1, e)) = n + 1
        /\ \A i \in 1..(n + 1) : InsertAt(r, k + 1, e)[i] = InsertedTile(r, k, e, i)
    BY <1>8, <2>1, InsertedAt, SMTT(30)
  <2>. QED BY <1>9, <2>2
<1>14. PICK y : y = Row(t2)
  OBVIOUS
<1>15. y \in Seq(Tiles(A)) /\ Len(y) = n + 1 /\ \A i \in 1..(n + 1) : y[i] = Tile(t2[v[i]])
  BY <1>3, <1>14, RowTyped
<1>16. y = x
  BY <1>12, <1>13, <1>15, SeqEqual
<1>. QED BY <1>5, <1>7, <1>9, <1>14, <1>16

\* A tree that has the leaves of another in their order, but the k-th, has its
\* row with that tile removed.
LEMMA RowShrinks ==
  ASSUME NEW A, NEW D, NEW t, Tree(t, A, D), NEW t2, Tree(t2, A, D),
         NEW w, NEW n, Listed(w, n, LeafPaths(t)),
         NEW k \in 1..n, NEW R, R = LeafPaths(t) \ {w[k]}, NEW f,
         Carries(f, R, LeafPaths(t2)), Covers(f, R, LeafPaths(t2)),
         Shows(f, R, t, t2)
  PROVE  Row(t2) = RemoveAt(Row(t), k)
<1>1. LeafPaths(t) \in SUBSET Paths /\ LeafPaths(t2) \in SUBSET Paths
  BY DEF LeafPaths, Tree, Shape
<1>2. PICK v : v = [i \in 1..(n - 1) |-> f[w[IF i < k THEN i ELSE i + 1]]]
  OBVIOUS
<1>3. Listed(v, n - 1, LeafPaths(t2))
  BY <1>1, <1>2, ListShrinks
<1>5. PICK r, x, y : r = Row(t) /\ x = RemoveAt(r, k) /\ y = Row(t2)
  OBVIOUS
<1>6. r \in Seq(Tiles(A)) /\ Len(r) = n /\ \A i \in 1..n : r[i] = Tile(t[w[i]])
  BY <1>5, RowTyped
<1>7. x \in Seq(Tiles(A)) /\ Len(x) = n - 1 /\ \A i \in 1..(n - 1) : x[i] = r[IF i < k THEN i ELSE i + 1]
  BY <1>5, <1>6, RemovedAt, SMTT(30)
<1>8. n \in Nat /\ \A i \in 1..n : w[i] \in LeafPaths(t)
  BY DEF Listed
<1>9. \A i, j \in 1..n : w[i] = w[j] => i = j
  BY <1>1, ListInjective
<1>10. ASSUME NEW i \in 1..(n - 1) PROVE Tile(t2[v[i]]) = r[IF i < k THEN i ELSE i + 1]
  <2>1. PICK j \in 1..n : j = (IF i < k THEN i ELSE i + 1) /\ j # k
    BY <1>8
  <2>2. v[i] = f[w[j]]
    BY <1>2, <2>1
  <2>3. w[j] \in R
    BY <1>8, <1>9, <2>1
  <2>4. Tile(t2[v[i]]) = r[j]
    BY <1>6, <2>2, <2>3 DEF Shows
  <2>. QED BY <2>1, <2>4
<1>11. y \in Seq(Tiles(A)) /\ Len(y) = n - 1 /\ \A i \in 1..(n - 1) : y[i] = Tile(t2[v[i]])
  BY <1>3, <1>5, RowTyped
<1>12. y = x
  BY <1>7, <1>10, <1>11, SeqEqual
<1>. QED BY <1>5, <1>12
-----------------------------------------------------------------------------
(* What moves in the traversal order, and what does not.                   *)

\* Going below a path keeps prefixes.
LEMMA PrefixUnder ==
  ASSUME NEW p \in Paths, NEW x \in Paths, NEW y \in Paths, IsPrefix(x, y)
  PROVE  IsPrefix(p \o x, p \o y)
<1>1. PICK z \in Paths : y = x \o z
  BY PrefixRest
<1>2. PICK c \in Paths : c = p \o x
  BY Concat
<1>3. (p \o x) \o z = p \o (x \o z)
  BY Associate, SMTT(30)
<1>4. p \o y = c \o z
  BY <1>1, <1>2, <1>3
<1>5. IsPrefix(c, c \o z)
  BY RestOf
<1>. QED BY <1>2, <1>4, <1>5

\* A child below a path is below its child.
LEMMA ChildUnder ==
  ASSUME NEW p \in Paths, NEW c \in Paths, NEW s \in Sides
  PROVE  p \o (c \o <<s>>) = (p \o c) \o <<s>>
<1>1. <<s>> \in Paths
  BY FirstStep
<1>. QED BY <1>1, Associate

\* Going below a path keeps the order of paths.
LEMMA BeforeUnder ==
  ASSUME NEW p \in Paths, NEW x \in Paths, NEW y \in Paths
  PROVE  Before(p \o x, p \o y) <=> Before(x, y)
<1>1. ASSUME NEW u \in Paths, NEW v \in Paths, Before(u, v) PROVE Before(p \o u, p \o v)
  <2>1. p \o u \in Paths /\ p \o v \in Paths
    BY Concat
  <2>2. CASE IsStrictPrefix(u, v)
    <3>1. IsPrefix(p \o u, p \o v)
      BY <2>2, PrefixUnder DEF IsStrictPrefix
    <3>2. p \o u # p \o v
      BY <2>2, Cancel DEF IsStrictPrefix
    <3>. QED BY <3>1, <3>2 DEF Before, IsStrictPrefix
  <2>3. CASE LeftOf(u, v)
    <3>1. PICK c \in Paths : IsPrefix(c \o <<"a">>, u) /\ IsPrefix(c \o <<"b">>, v)
      BY <2>3, LeftOfFork
    <3>2. "a" \in Sides /\ "b" \in Sides
      BY DEF Sides
    <3>3. <<"a">> \in Paths /\ <<"b">> \in Paths /\ c \o <<"a">> \in Paths /\ c \o <<"b">> \in Paths
      BY <3>2, Child
    <3>4. IsPrefix(p \o (c \o <<"a">>), p \o u) /\ IsPrefix(p \o (c \o <<"b">>), p \o v)
      BY <3>1, <3>3, PrefixUnder
    <3>5. PICK d \in Paths : d = p \o c
      BY Concat
    <3>6. p \o (c \o <<"a">>) = d \o <<"a">> /\ p \o (c \o <<"b">>) = d \o <<"b">>
      BY <3>2, <3>5, ChildUnder
    <3>7. LeftOf(p \o u, p \o v)
      BY <2>1, <3>4, <3>6, LeftOfFork
    <3>. QED BY <3>7 DEF Before
  <2>. QED BY <1>1, <2>2, <2>3 DEF Before
<1>2. ASSUME Before(p \o x, p \o y), ~Before(x, y) PROVE FALSE
  <2>1. p \o x \in Paths /\ p \o y \in Paths
    BY Concat
  <2>2. x # y
    BY <1>2, <2>1, NotBeforeItself
  <2>3. Before(y, x)
    BY <1>2, <2>2, BeforeTotal
  <2>4. Before(p \o y, p \o x)
    BY <1>1, <2>3
  <2>5. Before(p \o x, p \o x)
    BY <1>2, <2>1, <2>4, BeforeTransitive
  <2>. QED BY <2>1, <2>5, NotBeforeItself
<1>. QED BY <1>1, <1>2

\* A path that is apart from p comes before or after all that is under p.
LEMMA BeforeApart ==
  ASSUME NEW p \in Paths, NEW x \in Paths, ~IsPrefix(p, x), ~IsPrefix(x, p), NEW y \in Paths
  PROVE  (Before(x, p \o y) <=> Before(x, p)) /\ (Before(p \o y, x) <=> Before(p, x))
<1>1. p \o y \in Paths /\ IsPrefix(p, p \o y)
  BY Concat, RestOf
<1>2. "a" \in Sides /\ "b" \in Sides
  BY DEF Sides
<1>3. ASSUME Before(x, p) PROVE Before(x, p \o y)
  <2>1. PICK c \in Paths : IsPrefix(c \o <<"a">>, x) /\ IsPrefix(c \o <<"b">>, p)
    BY <1>3, LeftOfFork DEF Before, IsStrictPrefix
  <2>2. c \o <<"b">> \in Paths
    BY <1>2, Child
  <2>3. IsPrefix(c \o <<"b">>, p \o y)
    BY <1>1, <2>1, <2>2, PrefixOrder
  <2>4. LeftOf(x, p \o y)
    BY <1>1, <2>1, <2>3, LeftOfFork
  <2>. QED BY <2>4 DEF Before
<1>4. ASSUME Before(p, x) PROVE Before(p \o y, x)
  <2>1. PICK c \in Paths : IsPrefix(c \o <<"a">>, p) /\ IsPrefix(c \o <<"b">>, x)
    BY <1>4, LeftOfFork DEF Before, IsStrictPrefix
  <2>2. c \o <<"a">> \in Paths
    BY <1>2, Child
  <2>3. IsPrefix(c \o <<"a">>, p \o y)
    BY <1>1, <2>1, <2>2, PrefixOrder
  <2>4. LeftOf(p \o y, x)
    BY <1>1, <2>1, <2>3, LeftOfFork
  <2>. QED BY <2>4 DEF Before
<1>5. Before(x, p) \/ Before(p, x)
  <2>1. x # p
    BY PrefixOrder
  <2>. QED BY <2>1, BeforeTotal
<1>6. ~(Before(x, p \o y) /\ Before(p \o y, x))
  <2> SUFFICES ASSUME Before(x, p \o y), Before(p \o y, x) PROVE FALSE
    OBVIOUS
  <2>1. Before(x, x)
    BY <1>1, BeforeTransitive
  <2>. QED BY <2>1, NotBeforeItself
<1>7. ~(Before(x, p) /\ Before(p, x))
  <2> SUFFICES ASSUME Before(x, p), Before(p, x) PROVE FALSE
    OBVIOUS
  <2>1. Before(x, x)
    BY BeforeTransitive
  <2>. QED BY <2>1, NotBeforeItself
<1>. QED BY <1>3, <1>4, <1>5, <1>6, <1>7

\* Of two children side a comes first.
LEMMA ChildrenInOrder ==
  ASSUME NEW p \in Paths
  PROVE  Before(p \o <<"a">>, p \o <<"b">>)
<1>1. "a" \in Sides /\ "b" \in Sides
  BY DEF Sides
<1>2. PICK u \in Paths, v \in Paths : u = p \o <<"a">> /\ v = p \o <<"b">>
  BY <1>1, Child
<1>3. IsPrefix(u, u) /\ IsPrefix(v, v)
  BY PrefixOrder
<1>4. LeftOf(u, v)
  BY <1>2, <1>3, LeftOfFork
<1>. QED BY <1>2, <1>4 DEF Before

\* Two leaves of a tree are apart.
LEMMA LeavesApart ==
  ASSUME NEW t, NEW A, NEW D, Tree(t, A, D), NEW p \in LeafPaths(t), NEW x \in DOMAIN t, x # p,
         x \in LeafPaths(t) \/ ~IsPrefix(x, p)
  PROVE  ~IsPrefix(p, x) /\ ~IsPrefix(x, p) /\ p \in Paths /\ x \in Paths
<1>1. p \in DOMAIN t /\ t[p].kind = "leaf" /\ p \in Paths /\ x \in Paths
  BY DEF LeafPaths, Tree, Shape
<1>2. ~IsPrefix(p, x)
  BY <1>1, BelowLeaf
<1>3. ~IsPrefix(x, p)
  <2>1. CASE x \in LeafPaths(t)
    <3>1. t[x].kind = "leaf"
      BY <2>1 DEF LeafPaths
    <3>. QED BY <1>1, <3>1, BelowLeaf
  <2>. QED BY <2>1
<1>. QED BY <1>1, <1>2, <1>3
-----------------------------------------------------------------------------
(* What an operation makes of a row.                                       *)

\* The leaf at p and another one side by side under a new split, on side u.
Pair(split, u, old, new) == IF u = "b" THEN Join(split, old, new) ELSE Join(split, new, old)

\* The tree of a split over two leaves has three paths.
LEMMA PairPaths ==
  ASSUME NEW A, NEW D, NEW split \in Node(A, D), split.kind = "split",
         NEW old \in Node(A, D), old.kind = "leaf", NEW new \in Node(A, D), new.kind = "leaf",
         NEW u \in Sides, NEW j, j = Pair(split, u, LeafTree(old), LeafTree(new))
  PROVE  /\ Tree(j, A, D) /\ \A x : x \in DOMAIN j <=> x \in {<<>>, <<u>>, <<Other(u)>>}
         /\ j[<<>>] = split /\ j[<<u>>] = new /\ j[<<Other(u)>>] = old
<1>1. PICK to, tn : to = LeafTree(old) /\ tn = LeafTree(new)
  OBVIOUS
<1>2. /\ Tree(to, A, D) /\ DOMAIN to = {<<>>} /\ to[<<>>] = old
      /\ Tree(tn, A, D) /\ DOMAIN tn = {<<>>} /\ tn[<<>>] = new
  BY <1>1, LeafTreeTree
<1>3. PICK ta, tb : ta = (IF u = "b" THEN to ELSE tn) /\ tb = (IF u = "b" THEN tn ELSE to)
  OBVIOUS
<1>4. j = Join(split, ta, tb)
  BY <1>1, <1>3 DEF Pair
<1>5. /\ Tree(ta, A, D) /\ Tree(tb, A, D) /\ DOMAIN ta = {<<>>} /\ DOMAIN tb = {<<>>}
      /\ On(u, ta, tb) = tn /\ On(Other(u), ta, tb) = to
  BY <1>2, <1>3 DEF On, Other, Sides
<1>6. Tree(j, A, D)
  BY <1>4, <1>5, JoinTree
<1>7. /\ \A x : x \in DOMAIN j <=> x = <<>> \/ \E s \in Sides : \E y \in DOMAIN On(s, ta, tb) : x = <<s>> \o y
      /\ j[<<>>] = split
      /\ \A s \in Sides : \A y \in DOMAIN On(s, ta, tb) : j[<<s>> \o y] = On(s, ta, tb)[y]
  <2> DEFINE J == Join(split, ta, tb)
  <2>1. Tree(ta, A, D) /\ Tree(tb, A, D)
    BY <1>5
  <2>2. /\ \A x : x \in DOMAIN J <=>
             x = <<>> \/ \E s \in Sides : \E y \in DOMAIN On(s, ta, tb) : x = <<s>> \o y
        /\ J[<<>>] = split
        /\ \A s \in Sides : \A y \in DOMAIN On(s, ta, tb) :
             /\ <<s>> \o y \in DOMAIN J
             /\ J[<<s>> \o y] = On(s, ta, tb)[y]
        /\ IsFcn(J)
    BY <2>1, JoinPaths
  <2>3. j = J
    BY <1>4
  <2> HIDE DEF J
  <2>. QED BY <2>2, <2>3
<1>8. \A s \in Sides : <<s>> \o <<>> = <<s>> /\ DOMAIN On(s, ta, tb) = {<<>>}
  <2>1. \A s \in Sides : <<s>> \in Paths
    BY FirstStep
  <2>. QED BY <1>5, <2>1, Concat DEF On
<1>9. Sides = {u, Other(u)} /\ Other(u) \in Sides
  BY DEF Sides, Other
<1>10. \A x : x \in DOMAIN j <=> x \in {<<>>, <<u>>, <<Other(u)>>}
  <2>1. ASSUME NEW x, x \in DOMAIN j, x # <<>> PROVE \E s \in Sides : x = <<s>>
    <3>1. PICK s \in Sides : \E y \in DOMAIN On(s, ta, tb) : x = <<s>> \o y
      BY <1>7, <2>1
    <3>2. x = <<s>> \o <<>>
      BY <1>8, <3>1
    <3>. QED BY <1>8, <3>2
  <2>2. ASSUME NEW s \in Sides PROVE <<s>> \in DOMAIN j
    <3>1. <<>> \in DOMAIN On(s, ta, tb) /\ <<s>> = <<s>> \o <<>>
      BY <1>8
    <3>. QED BY <1>7, <3>1
  <2>3. <<>> \in DOMAIN j
    BY <1>7
  <2>. QED BY <1>9, <2>1, <2>2, <2>3
<1>11. j[<<u>>] = new /\ j[<<Other(u)>>] = old
  <2>1. <<>> \in DOMAIN On(u, ta, tb) /\ <<>> \in DOMAIN On(Other(u), ta, tb)
    BY <1>8, <1>9
  <2>2. j[<<u>> \o <<>>] = tn[<<>>] /\ j[<<Other(u)>> \o <<>>] = to[<<>>]
    BY <1>5, <1>7, <1>9, <2>1
  <2>. QED BY <1>2, <1>8, <1>9, <2>2
<1>. QED BY <1>6, <1>7, <1>10, <1>11

WrappedAt(t, t2, p, u, new) ==
  /\ LeafPaths(t2) = (LeafPaths(t) \ {p}) \cup {p \o <<u>>, p \o <<Other(u)>>}
  /\ t2[p \o <<u>>] = new /\ t2[p \o <<Other(u)>>] = t[p]
  /\ \A x \in LeafPaths(t) \ {p} : t2[x] = t[x]

\* A split over it and a new leaf takes the place of the leaf at p.
PairAt(t, t2, p, u, split, new) ==
  /\ t2[p] = split /\ t2[p \o <<u>>] = new /\ t2[p \o <<Other(u)>>] = t[p]
  /\ \A x : x \in DOMAIN t2 <=> (x \in DOMAIN t /\ x # p) \/ x \in {p, p \o <<u>>, p \o <<Other(u)>>}
  /\ \A x \in DOMAIN t : x # p => t2[x] = t[x]

\* The other nodes stay.
LEMMA WrapNodes ==
  ASSUME NEW A, NEW D, NEW t, Tree(t, A, D), NEW p \in LeafPaths(t),
         NEW split \in Node(A, D), split.kind = "split", NEW new \in Node(A, D), new.kind = "leaf",
         NEW u \in Sides, NEW t2, t2 = Replace(t, p, Pair(split, u, LeafTree(t[p]), LeafTree(new)))
  PROVE  Tree(t2, A, D) /\ PairAt(t, t2, p, u, split, new)
<1>1. p \in DOMAIN t /\ t[p].kind = "leaf" /\ t[p] \in Node(A, D) /\ p \in Paths /\ DOMAIN t \subseteq Paths
  BY DEF LeafPaths, Tree, Shape
<1>2. PICK j : j = Pair(split, u, LeafTree(t[p]), LeafTree(new))
  OBVIOUS
<1>3. /\ Tree(j, A, D) /\ \A x : x \in DOMAIN j <=> x \in {<<>>, <<u>>, <<Other(u)>>}
      /\ j[<<>>] = split /\ j[<<u>>] = new /\ j[<<Other(u)>>] = t[p]
  BY <1>1, <1>2, PairPaths
<1>4. t2 = Replace(t, p, j)
  BY <1>2
<1>5. Tree(t2, A, D)
  BY <1>1, <1>3, <1>4, ReplaceTree
<1>6. /\ \A x : x \in DOMAIN t2 <=> (x \in DOMAIN t /\ ~IsPrefix(p, x)) \/ \E y \in DOMAIN j : x = p \o y
      /\ \A x \in DOMAIN t : ~IsPrefix(p, x) => x \in DOMAIN t2 /\ t2[x] = t[x]
      /\ \A y \in DOMAIN j : p \o y \in DOMAIN t2 /\ t2[p \o y] = j[y]
  <2> DEFINE r == Replace(t, p, j)
  <2>1. p \in DOMAIN t /\ Tree(j, A, D)
    BY <1>1, <1>3
  <2>2. /\ \A x : x \in DOMAIN r <=>
             (x \in DOMAIN t /\ ~IsPrefix(p, x)) \/ \E y \in DOMAIN j : x = p \o y
        /\ \A x \in DOMAIN t : ~IsPrefix(p, x) => x \in DOMAIN r /\ r[x] = t[x]
        /\ \A y \in DOMAIN j : p \o y \in DOMAIN r /\ r[p \o y] = j[y]
        /\ IsFcn(r)
    BY <2>1, ReplacePaths
  <2>3. t2 = r
    BY <1>4
  <2> HIDE DEF r
  <2>. QED BY <2>2, <2>3
<1>7. /\ t2[p] = split /\ p \in DOMAIN t2
      /\ t2[p \o <<u>>] = new /\ p \o <<u>> \in DOMAIN t2
      /\ t2[p \o <<Other(u)>>] = t[p] /\ p \o <<Other(u)>> \in DOMAIN t2
  <2>1. <<>> \in DOMAIN j /\ <<u>> \in DOMAIN j /\ <<Other(u)>> \in DOMAIN j
    BY <1>3
  <2>2. p \o <<>> = p
    BY <1>1, Concat
  <2>. QED BY <1>3, <1>6, <2>1, <2>2
<1>8. \A x \in DOMAIN t : IsPrefix(p, x) <=> x = p
  <2>1. \A x \in DOMAIN t : IsPrefix(p, x) => x = p
    BY <1>1, BelowLeaf
  <2>. QED BY <1>1, <2>1, PrefixOrder
<1>9. \A x : x \in DOMAIN t2 <=> (x \in DOMAIN t /\ x # p) \/ x \in {p, p \o <<u>>, p \o <<Other(u)>>}
  <2>1. p \o <<>> = p
    BY <1>1, Concat
  <2>2. ASSUME NEW x PROVE (\E y \in DOMAIN j : x = p \o y) <=> x \in {p, p \o <<u>>, p \o <<Other(u)>>}
    <3>1. /\ <<>> \in DOMAIN j /\ <<u>> \in DOMAIN j /\ <<Other(u)>> \in DOMAIN j
          /\ \A y \in DOMAIN j : y = <<>> \/ y = <<u>> \/ y = <<Other(u)>>
      BY <1>3
    <3>. QED BY <2>1, <3>1
  <2>3. ASSUME NEW x PROVE (x \in DOMAIN t /\ ~IsPrefix(p, x)) <=> (x \in DOMAIN t /\ x # p)
    BY <1>8
  <2>4. ASSUME NEW x PROVE x \in DOMAIN t2 <=> (x \in DOMAIN t /\ ~IsPrefix(p, x)) \/ \E y \in DOMAIN j : x = p \o y
    BY <1>6
  <2>. QED BY <2>2, <2>3, <2>4
<1>10. \A x \in DOMAIN t : x # p => t2[x] = t[x]
  BY <1>6, <1>8
<1>. QED BY <1>5, <1>7, <1>9, <1>10 DEF PairAt

\* The leaves among them.
LEMMA WrapPaths ==
  ASSUME NEW A, NEW D, NEW t, Tree(t, A, D), NEW p \in LeafPaths(t),
         NEW split \in Node(A, D), split.kind = "split", NEW new \in Node(A, D), new.kind = "leaf",
         NEW u \in Sides, NEW t2, t2 = Replace(t, p, Pair(split, u, LeafTree(t[p]), LeafTree(new)))
  PROVE  Tree(t2, A, D) /\ WrappedAt(t, t2, p, u, new)
<1>1. p \in DOMAIN t /\ t[p].kind = "leaf"
  BY DEF LeafPaths
<1>2. Tree(t2, A, D) /\ PairAt(t, t2, p, u, split, new)
  BY WrapNodes
<1>3. LeafPaths(t2) = (LeafPaths(t) \ {p}) \cup {p \o <<u>>, p \o <<Other(u)>>}
  BY <1>1, <1>2 DEF LeafPaths, PairAt
<1>4. \A x \in LeafPaths(t) \ {p} : t2[x] = t[x]
  BY <1>2 DEF LeafPaths, PairAt
<1>. QED BY <1>2, <1>3, <1>4 DEF WrappedAt, PairAt

\* The new leaf is shown behind the old one (side b) or before it.
LEMMA RowWrapped ==
  ASSUME NEW A, NEW D, NEW t, Tree(t, A, D), NEW w, NEW n, Listed(w, n, LeafPaths(t)), NEW m \in 1..n,
         NEW split \in Node(A, D), split.kind = "split", NEW new \in Node(A, D), new.kind = "leaf",
         NEW u \in Sides, NEW t2, t2 = Replace(t, w[m], Pair(split, u, LeafTree(t[w[m]]), LeafTree(new)))
  PROVE  Row(t2) = InsertAt(Row(t), IF u = "b" THEN m + 1 ELSE m, Tile(new))
<1>1. PICK p : p = w[m]
  OBVIOUS
<1>2. n \in Nat /\ w \in [1..n -> LeafPaths(t)] /\ p \in LeafPaths(t) /\ m \in Nat /\ 1 <= m /\ m <= n
  BY <1>1 DEF Listed
<1>3. PICK q, o : q = p \o <<u>> /\ o = p \o <<Other(u)>>
  OBVIOUS
<1>4. t2 = Replace(t, p, Pair(split, u, LeafTree(t[p]), LeafTree(new)))
  BY <1>1
<1>5. /\ Tree(t2, A, D) /\ LeafPaths(t2) = (LeafPaths(t) \ {p}) \cup {q, o}
      /\ t2[q] = new /\ t2[o] = t[p] /\ \A x \in LeafPaths(t) \ {p} : t2[x] = t[x]
  <2>1. Tree(t2, A, D) /\ WrappedAt(t, t2, p, u, new)
    BY <1>2, <1>4, WrapPaths
  <2>. QED BY <1>3, <2>1 DEF WrappedAt
<1>6. p \in Paths /\ p \in DOMAIN t /\ LeafPaths(t) \subseteq Paths /\ LeafPaths(t) \subseteq DOMAIN t
  BY <1>2 DEF LeafPaths, Tree, Shape
<1>7. /\ u \in Sides /\ Other(u) \in Sides /\ <<u>> \in Paths /\ <<Other(u)>> \in Paths
      /\ q \in Paths /\ o \in Paths /\ q # o /\ IsPrefix(p, q) /\ IsPrefix(p, o)
  <2>1. Other(u) \in Sides /\ Other(u) # u
    BY DEF Sides, Other
  <2>2. <<u>> \in Paths /\ <<Other(u)>> \in Paths
    BY <2>1, FirstStep
  <2>3. <<u>> # <<Other(u)>>
    BY <2>1
  <2>. QED BY <1>3, <1>6, <2>1, <2>2, <2>3, Concat, RestOf, Cancel
<1>8. \A x \in LeafPaths(t) \ {p} : ~IsPrefix(p, x) /\ ~IsPrefix(x, p) /\ x # q /\ x # o
  <2>1. \A x \in LeafPaths(t) \ {p} : ~IsPrefix(p, x) /\ ~IsPrefix(x, p)
    BY <1>2, <1>6, LeavesApart
  <2>. QED BY <1>7, <2>1
<1>9. \A x \in LeafPaths(t) \ {p} :
        /\ (Before(x, q) <=> Before(x, p)) /\ (Before(q, x) <=> Before(p, x))
        /\ (Before(x, o) <=> Before(x, p)) /\ (Before(o, x) <=> Before(p, x))
  <2> SUFFICES ASSUME NEW x \in LeafPaths(t) \ {p}
               PROVE  /\ (Before(x, q) <=> Before(x, p)) /\ (Before(q, x) <=> Before(p, x))
                      /\ (Before(x, o) <=> Before(x, p)) /\ (Before(o, x) <=> Before(p, x))
    OBVIOUS
  <2>1. x \in Paths /\ ~IsPrefix(p, x) /\ ~IsPrefix(x, p)
    BY <1>6, <1>8
  <2>. QED BY <1>3, <1>6, <1>7, <2>1, BeforeApart
<1>10. IF u = "b" THEN Before(o, q) ELSE Before(q, o)
  BY <1>3, <1>6, ChildrenInOrder DEF Sides, Other
<1>11. PICK f : f = [x \in LeafPaths(t) |-> IF x = p THEN o ELSE x]
  OBVIOUS
<1>12. f[p] = o /\ \A x \in LeafPaths(t) \ {p} : f[x] = x
  BY <1>2, <1>11
<1>13. Carries(f, LeafPaths(t), LeafPaths(t2))
  <2>1. f \in [LeafPaths(t) -> LeafPaths(t2)]
    BY <1>5, <1>11
  <2>2. ASSUME NEW x \in LeafPaths(t), NEW y \in LeafPaths(t), Before(x, y) PROVE Before(f[x], f[y])
    <3>1. x # y
      BY <1>6, <2>2, NotBeforeItself
    <3>. QED BY <1>9, <1>12, <2>2, <3>1
  <2>. QED BY <2>1, <2>2 DEF Carries
<1>14. Covers(f, LeafPaths(t), LeafPaths(t2) \ {q})
  BY <1>2, <1>5, <1>12 DEF Covers
<1>15. PICK k : k = IF u = "b" THEN m ELSE m - 1
  OBVIOUS
<1>16. k \in 0..n /\ k + 1 = IF u = "b" THEN m + 1 ELSE m
  BY <1>2, <1>15
<1>17. \A i \in 1..n : /\ i < m => Before(w[i], p) /\ w[i] \in LeafPaths(t) \ {p}
                       /\ i > m => Before(p, w[i]) /\ w[i] \in LeafPaths(t) \ {p}
  <2>1. \A i, j \in 1..n : w[i] = w[j] => i = j
    BY <1>6, ListInjective, ZenonT(30)
  <2>2. \A i, j \in 1..n : i < j => Before(w[i], w[j])
    BY DEF Listed
  <2>. QED BY <1>1, <1>2, <2>1, <2>2
<1>18. Parts(f, w, n, k, q)
  <2> SUFFICES ASSUME NEW i \in 1..n PROVE IF i <= k THEN Before(f[w[i]], q) ELSE Before(q, f[w[i]])
    BY DEF Parts
  <2>1. CASE i < m
    <3>1. i <= k
      BY <1>2, <1>15, <2>1
    <3>. QED BY <1>9, <1>12, <1>17, <2>1, <3>1
  <2>2. CASE i = m
    <3>1. f[w[i]] = o /\ (i <= k <=> u = "b")
      BY <1>1, <1>2, <1>12, <1>15, <2>2
    <3>. QED BY <1>10, <3>1
  <2>3. CASE i > m
    <3>1. ~(i <= k)
      BY <1>2, <1>15, <2>3
    <3>. QED BY <1>9, <1>12, <1>17, <2>3, <3>1
  <2>. QED BY <1>2, <2>1, <2>2, <2>3
<1>19. Shows(f, LeafPaths(t), t, t2)
  BY <1>5, <1>12 DEF Shows
<1>20. q \in LeafPaths(t2)
  BY <1>5
<1>21. Row(t2) = InsertAt(Row(t), k + 1, Tile(t2[q]))
  <2>1. Tree(t2, A, D) /\ k \in 0..n
    BY <1>5, <1>16
  <2>. QED BY <1>13, <1>14, <1>18, <1>19, <1>20, <2>1, RowGrows
<1>. QED BY <1>5, <1>16, <1>21
-----------------------------------------------------------------------------
\* Where the leaves go when the sibling of one takes its parent's place.
Lifted(f, o, x) == IF IsPrefix(o, x) THEN f \o Rest(x, o) ELSE x

\* Paths that a closed leaf leaves behind keep their order when its sibling
\* takes its parent's place.
LEMMA LiftKeepsOrder ==
  ASSUME NEW f \in Paths, NEW c \in Sides, NEW o \in Paths, o = f \o <<c>>,
         NEW x \in Paths, NEW y \in Paths, Before(x, y),
         IsPrefix(o, x) \/ (~IsPrefix(f, x) /\ ~IsPrefix(x, f)),
         IsPrefix(o, y) \/ (~IsPrefix(f, y) /\ ~IsPrefix(y, f))
  PROVE  Before(Lifted(f, o, x), Lifted(f, o, y))
<1>1. <<c>> \in Paths
  BY FirstStep
<1>2. IsPrefix(f, o)
  BY <1>1, RestOf
<1>3. \A z \in Paths : IsPrefix(o, z) => IsPrefix(f, z)
  BY <1>2, PrefixOrder
<1>4. \A z \in Paths : IsPrefix(z, o) => IsPrefix(z, f) \/ IsPrefix(f, z)
  <2> SUFFICES ASSUME NEW z \in Paths, IsPrefix(z, o) PROVE IsPrefix(z, f) \/ IsPrefix(f, z)
    OBVIOUS
  <2>1. IsPrefix(z, f) \/ z = o
    BY Child
  <2>. QED BY <1>2, <2>1
\* All that is under o is, for a path apart from f, where f is.
<1>5. ASSUME NEW z \in Paths, ~IsPrefix(f, z), ~IsPrefix(z, f), NEW u \in Paths
      PROVE  /\ (Before(z, o \o u) <=> Before(z, f \o u))
             /\ (Before(o \o u, z) <=> Before(f \o u, z))
  <2>1. ~IsPrefix(o, z) /\ ~IsPrefix(z, o)
    BY <1>3, <1>4, <1>5
  <2>2. (Before(z, o \o u) <=> Before(z, o)) /\ (Before(o \o u, z) <=> Before(o, z))
    BY <1>5, <2>1, BeforeApart
  <2>3. (Before(z, f \o <<c>>) <=> Before(z, f)) /\ (Before(f \o <<c>>, z) <=> Before(f, z))
    BY <1>1, <1>5, BeforeApart
  <2>4. (Before(z, f \o u) <=> Before(z, f)) /\ (Before(f \o u, z) <=> Before(f, z))
    BY <1>5, BeforeApart
  <2>. QED BY <2>2, <2>3, <2>4
<1>6. \A z \in Paths : IsPrefix(o, z) => \E u \in Paths : z = o \o u /\ Lifted(f, o, z) = f \o u
  BY PrefixRest DEF Lifted
<1>7. \A z \in Paths : ~IsPrefix(f, z) => Lifted(f, o, z) = z
  BY <1>3 DEF Lifted
<1>8. CASE IsPrefix(o, x) /\ IsPrefix(o, y)
  <2>1. PICK u \in Paths : x = o \o u /\ Lifted(f, o, x) = f \o u
    BY <1>6, <1>8
  <2>2. PICK v \in Paths : y = o \o v /\ Lifted(f, o, y) = f \o v
    BY <1>6, <1>8
  <2>3. Before(u, v)
    BY <2>1, <2>2, BeforeUnder
  <2>4. Before(f \o u, f \o v)
    BY <2>3, BeforeUnder
  <2>. QED BY <2>1, <2>2, <2>4
<1>9. CASE IsPrefix(o, x) /\ ~IsPrefix(f, y) /\ ~IsPrefix(y, f)
  <2>1. PICK u \in Paths : x = o \o u /\ Lifted(f, o, x) = f \o u
    BY <1>6, <1>9
  <2>2. Before(f \o u, y)
    BY <1>5, <1>9, <2>1
  <2>. QED BY <1>7, <1>9, <2>1, <2>2
<1>10. CASE ~IsPrefix(f, x) /\ ~IsPrefix(x, f) /\ IsPrefix(o, y)
  <2>1. PICK u \in Paths : y = o \o u /\ Lifted(f, o, y) = f \o u
    BY <1>6, <1>10
  <2>2. Before(x, f \o u)
    BY <1>5, <1>10, <2>1
  <2>. QED BY <1>7, <1>10, <2>1, <2>2
<1>11. CASE ~IsPrefix(f, x) /\ ~IsPrefix(f, y)
  BY <1>7, <1>11
<1>. QED BY <1>8, <1>9, <1>10, <1>11

\* The leaf at f \o <<s>> goes and its sibling's tree moves up: the row
\* loses that tile.
LEMMA RowRemoved ==
  ASSUME NEW A, NEW D, NEW t, Tree(t, A, D), NEW w, NEW n, Listed(w, n, LeafPaths(t)), NEW k \in 1..n,
         NEW f \in DOMAIN t, NEW s \in Sides, w[k] = f \o <<s>>, f \o <<Other(s)>> \in DOMAIN t,
         NEW t2, t2 = Replace(t, f, Subtree(t, f \o <<Other(s)>>))
  PROVE  Row(t2) = RemoveAt(Row(t), k)
<1>1. PICK p, o, c : p = w[k] /\ o = f \o <<c>> /\ c = Other(s)
  OBVIOUS
<1>2. /\ p \in LeafPaths(t) /\ p = f \o <<s>> /\ o \in DOMAIN t /\ c \in Sides /\ c # s /\ Sides = {c, s}
      /\ n \in Nat /\ w \in [1..n -> LeafPaths(t)]
  BY <1>1 DEF Listed, Other, Sides
<1>3. /\ DOMAIN t \subseteq Paths /\ LeafPaths(t) \subseteq DOMAIN t /\ f \in Paths /\ o \in Paths /\ p \in Paths
      /\ t[p].kind = "leaf" /\ p \in DOMAIN t
  BY <1>2 DEF LeafPaths, Tree, Shape
<1>4. IsPrefix(f, o) /\ IsPrefix(f, p) /\ f # p /\ f # o
  <2>1. <<s>> \in Paths /\ <<c>> \in Paths
    BY <1>2, FirstStep
  <2>. QED BY <1>1, <1>2, <1>3, <2>1, RestOf, Child, SMTT(30)
<1>5. PICK b : b = Subtree(t, o)
  OBVIOUS
<1>6. /\ Tree(b, A, D) /\ \A y : y \in DOMAIN b <=> y \in Paths /\ o \o y \in DOMAIN t
      /\ \A y \in DOMAIN b : b[y] = t[o \o y]
  BY <1>2, <1>5, SubtreePaths, SubtreeTree
<1>7. t2 = Replace(t, f, b)
  BY <1>1, <1>5
<1>8. Tree(t2, A, D)
  BY <1>6, <1>7, ReplaceTree
<1>9. /\ \A x : x \in DOMAIN t2 <=> (x \in DOMAIN t /\ ~IsPrefix(f, x)) \/ \E y \in DOMAIN b : x = f \o y
      /\ \A x \in DOMAIN t : ~IsPrefix(f, x) => x \in DOMAIN t2 /\ t2[x] = t[x]
      /\ \A y \in DOMAIN b : f \o y \in DOMAIN t2 /\ t2[f \o y] = b[y]
  <2> DEFINE r == Replace(t, f, b)
  <2>1. /\ \A x : x \in DOMAIN r <=>
             (x \in DOMAIN t /\ ~IsPrefix(f, x)) \/ \E y \in DOMAIN b : x = f \o y
        /\ \A x \in DOMAIN t : ~IsPrefix(f, x) => x \in DOMAIN r /\ r[x] = t[x]
        /\ \A y \in DOMAIN b : f \o y \in DOMAIN r /\ r[f \o y] = b[y]
        /\ IsFcn(r)
    BY <1>6, ReplacePaths
  <2>2. t2 = r
    BY <1>7
  <2> HIDE DEF r
  <2>. QED BY <2>1, <2>2
<1>10. PICK R : R = LeafPaths(t) \ {p}
  OBVIOUS
<1>11. PICK g : g = [x \in R |-> Lifted(f, o, x)]
  OBVIOUS
\* A leaf that stays is under the sibling or apart from the parent.
<1>12. ASSUME NEW x \in R
       PROVE  IsPrefix(o, x) \/ (~IsPrefix(f, x) /\ ~IsPrefix(x, f))
  <2>1. x \in DOMAIN t /\ x \in Paths /\ t[x].kind = "leaf" /\ x # p
    BY <1>3, <1>10 DEF LeafPaths
  <2>2. ~IsPrefix(x, f)
    <3> SUFFICES ASSUME IsPrefix(x, f) PROVE FALSE
      OBVIOUS
    <3>1. IsPrefix(x, p)
      BY <1>3, <1>4, <2>1, PrefixOrder
    <3>. QED BY <1>3, <2>1, <3>1, BelowLeaf
  <2>3. CASE IsPrefix(f, x)
    <3>1. x # f
      BY <1>3, <2>2, PrefixOrder
    <3>2. PICK v \in Sides : IsPrefix(f \o <<v>>, x)
      BY <1>3, <2>1, <2>3, <3>1, BelowChild
    <3>3. v # s
      <4> SUFFICES ASSUME v = s PROVE FALSE
        OBVIOUS
      <4>1. IsPrefix(p, x)
        BY <1>2, <3>2
      <4>. QED BY <1>3, <2>1, <4>1, BelowLeaf
    <3>. QED BY <1>1, <1>2, <3>2, <3>3
  <2>. QED BY <2>2, <2>3
<1>13. ASSUME NEW x \in R, IsPrefix(o, x)
       PROVE  \E y \in DOMAIN b : x = o \o y /\ g[x] = f \o y /\ t2[g[x]] = t[x] /\ g[x] \in DOMAIN t2
  <2>1. x \in DOMAIN t /\ x \in Paths
    BY <1>3, <1>10
  <2>2. PICK y \in Paths : x = o \o y /\ y = Rest(x, o)
    BY <1>3, <1>13, <2>1, PrefixRest
  <2>3. y \in DOMAIN b /\ b[y] = t[x]
    BY <1>6, <2>1, <2>2
  <2>4. g[x] = f \o y
    BY <1>11, <1>13, <2>2 DEF Lifted
  <2>. QED BY <1>9, <2>2, <2>3, <2>4
<1>14. ASSUME NEW x \in R, ~IsPrefix(o, x)
       PROVE  g[x] = x /\ t2[g[x]] = t[x] /\ g[x] \in DOMAIN t2
  <2>1. x \in DOMAIN t /\ ~IsPrefix(f, x)
    BY <1>3, <1>10, <1>12, <1>14
  <2>2. g[x] = x
    BY <1>11, <1>14 DEF Lifted
  <2>. QED BY <1>9, <2>1, <2>2
<1>15. \A x \in R : t2[g[x]] = t[x] /\ g[x] \in DOMAIN t2
  BY <1>13, <1>14
<1>16. Carries(g, R, LeafPaths(t2))
  <2>1. \A x \in R : t[x].kind = "leaf" /\ x \in Paths
    BY <1>3, <1>10 DEF LeafPaths
  <2>2. \A x \in R : g[x] \in LeafPaths(t2)
    BY <1>15, <2>1 DEF LeafPaths
  <2>3. g \in [R -> LeafPaths(t2)]
    BY <1>11, <2>2
  <2>4. ASSUME NEW x \in R, NEW y \in R, Before(x, y) PROVE Before(g[x], g[y])
    <3>1. Before(Lifted(f, o, x), Lifted(f, o, y))
      BY <1>1, <1>2, <1>3, <1>12, <2>1, <2>4, LiftKeepsOrder
    <3>. QED BY <1>11, <3>1
  <2>. QED BY <2>3, <2>4 DEF Carries
<1>17. Covers(g, R, LeafPaths(t2))
  <2> SUFFICES ASSUME NEW z \in LeafPaths(t2) PROVE \E x \in R : z = g[x]
    BY DEF Covers
  <2>1. z \in DOMAIN t2 /\ t2[z].kind = "leaf"
    BY DEF LeafPaths
  <2>2. CASE z \in DOMAIN t /\ ~IsPrefix(f, z)
    <3>1. z \in R
      BY <1>4, <1>9, <1>10, <2>1, <2>2 DEF LeafPaths
    <3>2. ~IsPrefix(o, z)
      BY <1>3, <1>4, <2>2, PrefixOrder
    <3>. QED BY <1>14, <3>1, <3>2
  <2>3. CASE \E y \in DOMAIN b : z = f \o y
    <3>1. PICK y \in DOMAIN b : z = f \o y
      BY <2>3
    <3>2. y \in Paths /\ o \o y \in DOMAIN t /\ t2[z] = t[o \o y]
      BY <1>6, <1>9, <3>1
    <3>3. PICK x \in Paths : x = o \o y
      BY <1>3, <3>2
    <3>4. IsPrefix(o, x) /\ Rest(x, o) = y
      BY <1>3, <3>2, <3>3, RestOf
    <3>5. x # p
      <4> SUFFICES ASSUME x = p PROVE FALSE
        OBVIOUS
      <4>1. IsPrefix(f \o <<c>>, p) /\ IsPrefix(f \o <<s>>, p)
        BY <1>1, <1>2, <1>3, <3>4, PrefixOrder
      <4>. QED BY <1>2, <1>3, <4>1, ChildrenApart
    <3>6. x \in R
      BY <1>10, <2>1, <3>2, <3>3, <3>5 DEF LeafPaths
    <3>7. g[x] = f \o y
      BY <1>11, <3>4, <3>6 DEF Lifted
    <3>. QED BY <3>1, <3>6, <3>7
  <2>. QED BY <1>9, <2>1, <2>2, <2>3
<1>18. Shows(g, R, t, t2)
  BY <1>15 DEF Shows
<1>19. R = LeafPaths(t) \ {w[k]}
  BY <1>1, <1>10
<1>. QED BY <1>8, <1>16, <1>17, <1>18, <1>19, RowShrinks, SMTT(30)
-----------------------------------------------------------------------------
\* Every tree has a leaf: the last node of the traversal is one.
LEMMA SomeLeaf ==
  ASSUME NEW A, NEW D, NEW t, Tree(t, A, D)
  PROVE  LeafPaths(t) # {}
<1>1. PICK S : S = DOMAIN t
  OBVIOUS
<1>2. S \in SUBSET Paths /\ IsFiniteSet(S) /\ <<>> \in S
  BY <1>1 DEF Tree, Shape
<1>3. PICK n, r : n = Cardinality(S) /\ r = [p \in S |-> Rank(S, p)]
  OBVIOUS
<1>4. /\ n \in Nat /\ \A p \in S : r[p] \in Nat /\ r[p] <= n
      /\ \A p, q \in S : Before(p, q) => r[p] < r[q]
  <2>1. /\ Cardinality(S) \in Nat
        /\ \A p \in S : Rank(S, p) \in Nat /\ Rank(S, p) < Cardinality(S)
        /\ \A p, q \in S : Before(p, q) => Rank(S, p) < Rank(S, q)
        /\ \A p, q \in S : Rank(S, p) = Rank(S, q) => p = q
    BY <1>2, Ranks
  <2>2. \A p \in S : r[p] = Rank(S, p)
    BY <1>3
  <2>3. \A p \in S : r[p] \in Nat /\ r[p] <= n
    BY <1>3, <2>1, <2>2
  <2>. QED BY <1>3, <2>1, <2>2, <2>3
<1>5. PICK V : V = {r[p] : p \in S}
  OBVIOUS
<1>6. PICK m \in V : \A v \in V : m >= v
  <2>1. V \in SUBSET Nat /\ V # {} /\ \A v \in V : v <= n
    BY <1>2, <1>4, <1>5
  <2>. QED BY <1>4, <2>1, GreatestNat
<1>7. PICK p \in S : r[p] = m
  BY <1>5, <1>6
<1>8. \A q \in S : ~Before(p, q)
  <2> SUFFICES ASSUME NEW q \in S, Before(p, q) PROVE FALSE
    OBVIOUS
  <2>1. r[p] < r[q] /\ r[q] \in V /\ r[p] \in Nat /\ r[q] \in Nat
    BY <1>4, <1>5
  <2>. QED BY <1>6, <1>7, <2>1
<1>9. t[p].kind # "split"
  <2> SUFFICES ASSUME t[p].kind = "split" PROVE FALSE
    OBVIOUS
  <2>1. "a" \in Sides
    BY DEF Sides
  <2>2. p \o <<"a">> \in S
    BY <1>1, <2>1 DEF Tree, Shape
  <2>3. <<"a">> \in Paths /\ p \in Paths /\ p \o <<"a">> # p
    BY <1>2, <2>1, Child
  <2>4. Before(p, p \o <<"a">>)
    BY <2>3, RestOf DEF Before, IsStrictPrefix
  <2>. QED BY <1>8, <2>2, <2>4
<1>10. t[p].kind = "leaf"
  BY <1>1, <1>9 DEF Tree, Node
<1>. QED BY <1>1, <1>10 DEF LeafPaths

\* The numbering of the leaves of a tree, and the leaf with an id.
LEMMA RowOf ==
  ASSUME NEW A, NEW D, NEW t, Tree(t, A, D)
  PROVE  \E w, n : /\ Listed(w, n, LeafPaths(t)) /\ n \in Nat \ {0}
                   /\ Row(t) \in Seq(Tiles(A)) /\ Len(Row(t)) = n /\ DOMAIN Row(t) = 1..n
                   /\ \A i \in 1..n : w[i] \in LeafPaths(t) /\ Row(t)[i] = Tile(t[w[i]])
                   /\ LeafIds(t) = {Row(t)[i].id : i \in 1..n}
<1>1. LeafPaths(t) \in SUBSET Paths /\ IsFiniteSet(LeafPaths(t))
  <2>1. LeafPaths(t) \subseteq DOMAIN t
    BY DEF LeafPaths
  <2>. QED BY <2>1, FS_Subset DEF Tree, Shape
<1>2. PICK w, n : Listed(w, n, LeafPaths(t))
  BY <1>1, ListExists
<1>3. n \in Nat /\ \A i \in 1..n : w[i] \in LeafPaths(t)
  BY <1>2 DEF Listed
<1>4. n # 0
  <2>1. PICK p \in LeafPaths(t) : TRUE
    BY SomeLeaf
  <2>2. \E i \in 1..n : w[i] = p
    BY <1>2 DEF Listed
  <2>. QED BY <2>2
<1>5. /\ Row(t) \in Seq(Tiles(A)) /\ Len(Row(t)) = n /\ DOMAIN Row(t) = 1..n
      /\ \A i \in 1..n : Row(t)[i] = Tile(t[w[i]]) /\ Tile(t[w[i]]) \in Tiles(A)
      /\ LeafIds(t) = {Row(t)[i].id : i \in 1..n}
  BY <1>2, RowTyped
<1>. QED BY <1>2, <1>3, <1>4, <1>5

\* A leaf of a tree is at one place of its listing.
LEMMA LeafAt ==
  ASSUME NEW A, NEW D, NEW t, Sound(t, A, D), NEW w, NEW n, Listed(w, n, LeafPaths(t)), NEW id \in LeafIds(t)
  PROVE  \E k \in 1..n : /\ w[k] = Find(t, id) /\ w[k] \in LeafPaths(t) /\ w[k] \in DOMAIN t
                         /\ t[w[k]].id = id /\ t[w[k]].kind = "leaf" /\ t[w[k]] = FindLeaf(t, id)
                         /\ t[w[k]] \in Node(A, D) /\ Row(t)[k] = Tile(FindLeaf(t, id))
<1>1. PICK p \in LeafPaths(t) : t[p].id = id
  BY DEF LeafIds
<1>2. p \in DOMAIN t /\ t[p].kind = "leaf" /\ t[p] \in Node(A, D)
  BY DEF LeafPaths, Sound, Tree
<1>3. Find(t, id) = p
  BY <1>1, <1>2, Found DEF Sound
<1>4. PICK k \in 1..n : w[k] = p
  BY DEF Listed
<1>5. Row(t)[k] = Tile(t[p])
  BY <1>4, RowTyped DEF Sound
<1>. QED BY <1>1, <1>2, <1>3, <1>4, <1>5 DEF FindLeaf

\* Closing a leaf removes its tile.
LEMMA RowClosed ==
  ASSUME NEW A, NEW D, NEW t, Sound(t, A, D), NEW w, NEW n, Listed(w, n, LeafPaths(t)),
         NEW id \in LeafIds(t), ~IsLeaf(t)
  PROVE  \E k \in 1..n : Row(removeLeaf(t, id)) = RemoveAt(Row(t), k) /\ Row(t)[k] = Tile(FindLeaf(t, id))
<1>1. Tree(t, A, D) /\ UniqueIds(t)
  BY DEF Sound
<1>2. PICK f \in DOMAIN t, s \in Sides :
           /\ f \in Paths /\ f \o <<s>> \in DOMAIN t /\ t[f \o <<s>>].id = id /\ t[f \o <<s>>].kind = "leaf"
           /\ f \o <<Other(s)>> \in DOMAIN t /\ Other(s) \in Sides /\ Other(s) # s /\ t[f].kind = "split"
           /\ removeLeaf(t, id) = Replace(t, f, Subtree(t, f \o <<Other(s)>>))
  BY <1>1, RemovePlace
<1>3. PICK k \in 1..n : w[k] = Find(t, id) /\ Row(t)[k] = Tile(FindLeaf(t, id))
  BY LeafAt
<1>4. w[k] = f \o <<s>>
  <2>1. PICK p \in DOMAIN t : p = f \o <<s>> /\ t[p].id = id
    BY <1>2
  <2>. QED BY <1>1, <1>3, <2>1, Found
<1>5. Row(removeLeaf(t, id)) = RemoveAt(Row(t), k)
  BY <1>1, <1>2, <1>4, RowRemoved
<1>. QED BY <1>3, <1>5
-----------------------------------------------------------------------------
(* The operations of SplitTree on rows.                                    *)

\* The k-th tile is the leaf with the given id.
ShownAt(t, w, k, id) == t[w[k]].id = id /\ Row(t)[k] = Tile(FindLeaf(t, id))
\* The k-th tile has another application.
Reapped(row, k, app) == [row EXCEPT ![k].app = app]
SameIdsAt(w, n, t, u) == \A i \in 1..n : u[w[i]].id = t[w[i]].id

\* A leaf of a tree is shown at some place of its row.
LEMMA ShownSomewhere ==
  ASSUME NEW A, NEW D, NEW t, Sound(t, A, D), NEW w, NEW n, Listed(w, n, LeafPaths(t)), NEW id \in LeafIds(t)
  PROVE  \E k \in 1..n : ShownAt(t, w, k, id)
<1>1. PICK k \in 1..n : /\ w[k] = Find(t, id) /\ w[k] \in LeafPaths(t) /\ w[k] \in DOMAIN t
                        /\ t[w[k]].id = id /\ t[w[k]].kind = "leaf" /\ t[w[k]] = FindLeaf(t, id)
                        /\ t[w[k]] \in Node(A, D) /\ Row(t)[k] = Tile(FindLeaf(t, id))
  BY LeafAt
<1>. QED BY <1>1 DEF ShownAt

\* The row of a leaf is its tile.
LEMMA RowSingle ==
  ASSUME NEW A, NEW D, NEW t, Tree(t, A, D), IsLeaf(t)
  PROVE  Row(t) = <<Tile(t[<<>>])>> /\ LeafPaths(t) = {<<>>}
<1>1. <<>> \in DOMAIN t /\ t[<<>>].kind = "leaf" /\ DOMAIN t \subseteq Paths
  BY DEF Tree, Shape, IsLeaf
<1>2. \A x \in DOMAIN t : x = <<>>
  BY <1>1, BelowLeaf, PrefixOrder
<1>3. LeafPaths(t) = {<<>>}
  BY <1>1, <1>2 DEF LeafPaths
<1>4. PICK w, n : /\ Listed(w, n, LeafPaths(t)) /\ n \in Nat \ {0}
                  /\ Row(t) \in Seq(Tiles(A)) /\ Len(Row(t)) = n /\ DOMAIN Row(t) = 1..n
                  /\ \A i \in 1..n : w[i] \in LeafPaths(t) /\ Row(t)[i] = Tile(t[w[i]])
                  /\ LeafIds(t) = {Row(t)[i].id : i \in 1..n}
  BY RowOf
<1>5. n = 1
  <2>1. \A i, j \in 1..n : w[i] = w[j] => i = j
    <3>1. PICK S : S = LeafPaths(t)
      OBVIOUS
    <3>2. S \in SUBSET Paths /\ Listed(w, n, S)
      BY <1>1, <1>3, <1>4, <3>1
    <3>. QED BY <3>2, ListInjective
  <2>2. w[1] = <<>> /\ w[n] = <<>> /\ 1 \in 1..n /\ n \in 1..n
    BY <1>3, <1>4
  <2>. QED BY <2>1, <2>2
<1>6. PICK r, e : r = Row(t) /\ e = Tile(t[<<>>])
  OBVIOUS
<1>7. r \in Seq(Tiles(A)) /\ Len(r) = 1 /\ r[1] = e
  BY <1>3, <1>4, <1>5, <1>6
<1>8. r = <<e>>
  BY <1>7
<1>. QED BY <1>3, <1>6, <1>8

\* The row of a tree made of one leaf is its tile.
LEMMA RowLeafTree ==
  ASSUME NEW A, NEW D, NEW leaf \in Node(A, D), leaf.kind = "leaf"
  PROVE  Row(LeafTree(leaf)) = <<Tile(leaf)>>
<1>1. PICK t : t = LeafTree(leaf)
  OBVIOUS
<1>2. Tree(t, A, D) /\ t[<<>>] = leaf
  BY <1>1, LeafTreeTree
<1>3. IsLeaf(t)
  BY <1>2 DEF IsLeaf
<1>4. Row(t) = <<Tile(t[<<>>])>>
  BY <1>2, <1>3, RowSingle
<1>. QED BY <1>1, <1>2, <1>4

\* Below a leaf is the leaf.
LEMMA LeafSubtree ==
  ASSUME NEW A, NEW D, NEW t, Tree(t, A, D), NEW p \in LeafPaths(t)
  PROVE  Subtree(t, p) = LeafTree(t[p])
<1>1. p \in DOMAIN t /\ t[p].kind = "leaf" /\ t[p] \in Node(A, D) /\ DOMAIN t \subseteq Paths /\ p \in Paths
  BY DEF LeafPaths, Tree, Shape
<1>2. PICK s, u : s = Subtree(t, p) /\ u = LeafTree(t[p])
  OBVIOUS
<1>3. /\ \A y : y \in DOMAIN s <=> y \in Paths /\ p \o y \in DOMAIN t
      /\ \A y \in DOMAIN s : s[y] = t[p \o y]
      /\ IsFcn(s)
  BY <1>1, <1>2, SubtreePaths
<1>4. DOMAIN u = {<<>>} /\ u[<<>>] = t[p] /\ IsFcn(u)
  BY <1>1, <1>2, LeafTreeTree DEF Tree
<1>5. ASSUME NEW y \in Paths, p \o y \in DOMAIN t PROVE y = <<>>
  <2>1. IsPrefix(p, p \o y)
    BY <1>1, RestOf
  <2>2. p \o y = p
    BY <1>1, <1>5, <2>1, BelowLeaf
  <2>. QED BY <1>1, <2>2, Concat
<1>6. <<>> \in Paths /\ p \o <<>> = p
  BY <1>1, Concat
<1>7. DOMAIN s = {<<>>} /\ s[<<>>] = t[p]
  BY <1>1, <1>3, <1>5, <1>6
<1>8. s = u
  BY <1>3, <1>4, <1>7 DEF IsFcn
<1>. QED BY <1>2, <1>8

\* A new leaf beside the one with the given id.
LEMMA RowBeside ==
  ASSUME NEW A, NEW D, NEW t, Sound(t, A, D), NEW w, NEW n, Listed(w, n, LeafPaths(t)),
         NEW id \in LeafIds(t), NEW split \in Node(A, D), split.kind = "split",
         NEW new \in Node(A, D), new.kind = "leaf", NEW p, p = Find(t, id)
  PROVE  \E m \in 1..n :
           /\ Row(Replace(t, p, Join(split, Subtree(t, p), LeafTree(new)))) = InsertAt(Row(t), m + 1, Tile(new))
           /\ Row(Replace(t, p, Join(split, LeafTree(new), Subtree(t, p)))) = InsertAt(Row(t), m, Tile(new))
<1>1. PICK m \in 1..n : w[m] = p /\ p \in LeafPaths(t)
  BY LeafAt
<1>2. Tree(t, A, D) /\ Subtree(t, p) = LeafTree(t[p])
  BY <1>1, LeafSubtree DEF Sound
<1>3. PICK t1, t2 : /\ t1 = Replace(t, p, Join(split, Subtree(t, p), LeafTree(new)))
                    /\ t2 = Replace(t, p, Join(split, LeafTree(new), Subtree(t, p)))
  OBVIOUS
<1>4. "a" \in Sides /\ "b" \in Sides /\ "a" # "b"
  BY DEF Sides
<1>5. Row(t1) = InsertAt(Row(t), IF "b" = "b" THEN m + 1 ELSE m, Tile(new))
  <2>1. t1 = Replace(t, w[m], Pair(split, "b", LeafTree(t[w[m]]), LeafTree(new)))
    BY <1>1, <1>2, <1>3 DEF Pair
  <2>. QED BY <1>2, <1>4, <2>1, RowWrapped
<1>6. Row(t2) = InsertAt(Row(t), IF "a" = "b" THEN m + 1 ELSE m, Tile(new))
  <2>1. t2 = Replace(t, w[m], Pair(split, "a", LeafTree(t[w[m]]), LeafTree(new)))
    BY <1>1, <1>2, <1>3, <1>4 DEF Pair
  <2>. QED BY <1>2, <1>4, <2>1, RowWrapped
<1>. QED BY <1>3, <1>4, <1>5, <1>6

\* A new leaf beside the whole tree.
LEMMA RowAppended ==
  ASSUME NEW A, NEW D, NEW t, Tree(t, A, D), NEW w, NEW n, Listed(w, n, LeafPaths(t)),
         NEW split \in Node(A, D), split.kind = "split", NEW new \in Node(A, D), new.kind = "leaf"
  PROVE  Row(Join(split, t, LeafTree(new))) = InsertAt(Row(t), n + 1, Tile(new))
<1>1. PICK b, j : b = LeafTree(new) /\ j = Join(split, t, b)
  OBVIOUS
<1>2. Tree(b, A, D) /\ DOMAIN b = {<<>>} /\ b[<<>>] = new
  BY <1>1, LeafTreeTree
<1>3. Tree(j, A, D)
  BY <1>1, <1>2, JoinTree
<1>4. /\ \A x : x \in DOMAIN j <=> x = <<>> \/ \E s \in Sides : \E y \in DOMAIN On(s, t, b) : x = <<s>> \o y
      /\ j[<<>>] = split
      /\ \A s \in Sides : \A y \in DOMAIN On(s, t, b) :
           <<s>> \o y \in DOMAIN j /\ j[<<s>> \o y] = On(s, t, b)[y]
  <2> DEFINE J == Join(split, t, b)
  <2>1. /\ \A x : x \in DOMAIN J <=> x = <<>> \/ \E s \in Sides : \E y \in DOMAIN On(s, t, b) : x = <<s>> \o y
        /\ J[<<>>] = split
        /\ \A s \in Sides : \A y \in DOMAIN On(s, t, b) :
             /\ <<s>> \o y \in DOMAIN J
             /\ J[<<s>> \o y] = On(s, t, b)[y]
        /\ IsFcn(J)
    BY <1>2, JoinPaths
  <2>2. j = J
    BY <1>1
  <2> HIDE DEF J
  <2>. QED BY <2>1, <2>2
<1>5. PICK a, q : a = <<"a">> /\ q = <<"b">>
  OBVIOUS
<1>6. /\ Sides = {"a", "b"} /\ a \in Paths /\ q \in Paths /\ q \o <<>> = q
      /\ ~IsPrefix(a, q) /\ ~IsPrefix(q, a) /\ Before(a, q)
  <2>1. "a" \in Sides /\ "b" \in Sides /\ Sides = {"a", "b"}
    BY DEF Sides
  <2>2. a \in Paths /\ q \in Paths /\ a # <<>> /\ q # <<>> /\ a # q
    BY <1>5, <2>1, FirstStep
  <2>3. q \o <<>> = q /\ <<>> \o a = a /\ <<>> \o q = q /\ <<>> \in Paths
    BY <2>2, Concat
  <2>4. Before(<<>> \o <<"a">>, <<>> \o <<"b">>)
    BY <2>3, ChildrenInOrder
  <2>5. ~IsPrefix(a, q) /\ ~IsPrefix(q, a)
    BY <1>5, <2>1, <2>2, FirstStep
  <2>. QED BY <1>5, <2>1, <2>2, <2>3, <2>4, <2>5
<1>7. On("a", t, b) = t /\ On("b", t, b) = b
  BY DEF On
<1>8. /\ \A y \in DOMAIN t : a \o y \in DOMAIN j /\ j[a \o y] = t[y]
      /\ q \in DOMAIN j /\ j[q] = new
      /\ \A x \in DOMAIN j : x = <<>> \/ x = q \/ \E y \in DOMAIN t : x = a \o y
  <2>1. \A y \in DOMAIN t : a \o y \in DOMAIN j /\ j[a \o y] = t[y]
    BY <1>4, <1>5, <1>6, <1>7
  <2>2. \A y \in DOMAIN b : q \o y \in DOMAIN j /\ j[q \o y] = b[y]
    BY <1>4, <1>5, <1>6, <1>7
  <2>3. ASSUME NEW x \in DOMAIN j, x # <<>>
        PROVE  (\E y \in DOMAIN t : x = a \o y) \/ (\E y \in DOMAIN b : x = q \o y)
    <3>1. PICK s \in Sides : \E y \in DOMAIN On(s, t, b) : x = <<s>> \o y
      BY <1>4, <2>3
    <3>2. PICK y \in DOMAIN On(s, t, b) : x = <<s>> \o y
      BY <3>1
    <3>3. CASE s = "a"
      BY <1>5, <1>7, <3>2, <3>3
    <3>4. CASE s = "b"
      BY <1>5, <1>7, <3>2, <3>4
    <3>. QED BY <1>6, <3>3, <3>4
  <2>. QED BY <1>2, <1>6, <2>1, <2>2, <2>3
<1>9. LeafPaths(t) \subseteq DOMAIN t /\ DOMAIN t \subseteq Paths
  BY DEF LeafPaths, Tree, Shape
<1>10. PICK f : f = [x \in LeafPaths(t) |-> a \o x]
  OBVIOUS
<1>11. \A x \in LeafPaths(t) : f[x] = a \o x /\ f[x] \in LeafPaths(j) /\ j[f[x]] = t[x]
  BY <1>8, <1>9, <1>10 DEF LeafPaths
<1>12. Carries(f, LeafPaths(t), LeafPaths(j))
  <2>1. f \in [LeafPaths(t) -> LeafPaths(j)]
    BY <1>10, <1>11
  <2>2. ASSUME NEW x \in LeafPaths(t), NEW y \in LeafPaths(t), Before(x, y) PROVE Before(f[x], f[y])
    <3>1. Before(a \o x, a \o y)
      BY <1>6, <1>9, <2>2, BeforeUnder
    <3>. QED BY <1>11, <3>1
  <2>. QED BY <2>1, <2>2 DEF Carries
<1>13. q \in LeafPaths(j)
  BY <1>8 DEF LeafPaths
<1>14. Covers(f, LeafPaths(t), LeafPaths(j) \ {q})
  <2> SUFFICES ASSUME NEW x \in LeafPaths(j) \ {q} PROVE \E p \in LeafPaths(t) : x = f[p]
    BY DEF Covers
  <2>1. x \in DOMAIN j /\ j[x].kind = "leaf" /\ x # <<>>
    BY <1>4 DEF LeafPaths
  <2>2. PICK y \in DOMAIN t : x = a \o y
    BY <1>8, <2>1
  <2>3. y \in LeafPaths(t)
    BY <1>8, <2>1, <2>2 DEF LeafPaths
  <2>. QED BY <1>11, <2>2, <2>3
<1>15. n \in Nat /\ \A i \in 1..n : w[i] \in LeafPaths(t)
  BY DEF Listed
<1>16. Parts(f, w, n, n, q)
  <2> SUFFICES ASSUME NEW i \in 1..n PROVE IF i <= n THEN Before(f[w[i]], q) ELSE Before(q, f[w[i]])
    BY DEF Parts
  <2>1. w[i] \in LeafPaths(t) /\ w[i] \in Paths /\ i <= n
    BY <1>9, <1>15
  <2>2. Before(a \o w[i], q)
    BY <1>6, <2>1, BeforeApart
  <2>. QED BY <1>11, <2>1, <2>2
<1>17. Shows(f, LeafPaths(t), t, j)
  BY <1>11 DEF Shows
<1>18. n \in 0..n
  BY <1>15
<1>19. Row(j) = InsertAt(Row(t), n + 1, Tile(j[q]))
  BY <1>3, <1>12, <1>13, <1>14, <1>16, <1>17, <1>18, RowGrows
<1>. QED BY <1>1, <1>8, <1>19

\* Splitting a leaf inserts a tile behind some tile of the row.
LEMMA RowSplitLeaf ==
  ASSUME NEW A, NEW D, NEW t, Sound(t, A, D), NEW id \in LeafIds(t), NEW dir \in D, NEW app \in A, NEW g \in Nat
  PROVE  \E k \in DOMAIN Row(t) :
           Row(SplitLeaf(t, id, dir, app, g)) = InsertAt(Row(t), k + 1, [id |-> g + 1, app |-> app])
<1>1. PICK w, n : Listed(w, n, LeafPaths(t)) /\ DOMAIN Row(t) = 1..n
  BY RowOf DEF Sound
<1>2. PICK leaf, split : leaf = NewLeaf(g + 1, app) /\ split = NewSplit(g + 2, dir, HalfRatio)
  OBVIOUS
<1>3. /\ leaf \in Node(A, D) /\ leaf.kind = "leaf" /\ split \in Node(A, D) /\ split.kind = "split"
  <2>1. g + 1 \in Nat \ {0} /\ g + 2 \in Nat \ {0}
    OBVIOUS
  <2>. QED BY <1>2, <2>1, NewLeafNode, NewSplitNode
<1>4. Tile(leaf) = [id |-> g + 1, app |-> app]
  BY <1>2 DEF Tile, NewLeaf
<1>5. PICK p : p = Find(t, id)
  OBVIOUS
<1>6. PICK m \in 1..n :
        /\ Row(Replace(t, p, Join(split, Subtree(t, p), LeafTree(leaf)))) = InsertAt(Row(t), m + 1, Tile(leaf))
        /\ Row(Replace(t, p, Join(split, LeafTree(leaf), Subtree(t, p)))) = InsertAt(Row(t), m, Tile(leaf))
  BY <1>1, <1>3, <1>5, RowBeside
<1>7. SplitLeaf(t, id, dir, app, g) = Replace(t, p, Join(split, Subtree(t, p), LeafTree(leaf)))
  BY <1>2, <1>5 DEF SplitLeaf
<1>. QED BY <1>1, <1>4, <1>6, <1>7

\* Closing one of several leaves removes the tile of that leaf.
LEMMA RowCloseLeaf ==
  ASSUME NEW A, NEW D, NEW t, Sound(t, A, D), NEW id \in LeafIds(t), ~IsLeaf(t)
  PROVE  /\ Len(Row(t)) > 1
         /\ \E k \in DOMAIN Row(t) : /\ Row(removeLeaf(t, id)) = RemoveAt(Row(t), k)
                                     /\ Row(t)[k] = Tile(FindLeaf(t, id))
<1>1. PICK w, n : /\ Listed(w, n, LeafPaths(t)) /\ n \in Nat \ {0} /\ Row(t) \in Seq(Tiles(A))
                  /\ DOMAIN Row(t) = 1..n /\ Len(Row(t)) = n
  BY RowOf DEF Sound
<1>2. PICK k \in 1..n : Row(removeLeaf(t, id)) = RemoveAt(Row(t), k) /\ Row(t)[k] = Tile(FindLeaf(t, id))
  BY <1>1, RowClosed
<1>3. PICK r, t2 : r = Row(t) /\ t2 = removeLeaf(t, id)
  OBVIOUS
<1>4. Tree(t2, A, D)
  BY <1>3, CloseLeafSound DEF Sound
<1>5. Len(Row(t2)) \in Nat \ {0}
  BY <1>4, RowOf
<1>6. Len(RemoveAt(r, k)) = n - 1
  <2>1. r \in Seq(Tiles(A)) /\ n = Len(r)
    BY <1>1, <1>3
  <2>. QED BY <2>1, RemovedAt, SMTT(30)
<1>7. n > 1
  BY <1>1, <1>2, <1>3, <1>5, <1>6
<1>. QED BY <1>1, <1>2, <1>7

\* Where a split's node changes, no leaf does.
LEMMA RowSetRatio ==
  ASSUME NEW A, NEW D, NEW t, Sound(t, A, D), NEW id, HasSplit(t, id), NEW ratio \in Nat
  PROVE  Row(SetRatio(t, id, ratio)) = Row(t)
<1>1. PICK w, n : Listed(w, n, LeafPaths(t))
  BY RowOf DEF Sound
<1>2. PICK p \in DOMAIN t : p = Find(t, id)
  BY FindNode DEF Sound, HasSplit
<1>3. t[p].kind = "split"
  BY <1>2 DEF HasSplit
<1>4. PICK u : u = SetRatio(t, id, ratio)
  OBVIOUS
<1>5. Tree(t, A, D) /\ Tree(u, A, D)
  BY <1>4, SetRatioSound DEF Sound
<1>6. PICK n2 : n2 = [t[p] EXCEPT !.ratio = clampRatio(ratio)]
  OBVIOUS
<1>7. n2.kind = "split"
  BY <1>3, <1>5, <1>6 DEF Tree, Node
<1>8. u = [t EXCEPT ![p] = n2]
  BY <1>2, <1>4, <1>6 DEF SetRatio
<1>9. DOMAIN u = DOMAIN t /\ u[p] = n2 /\ \A x \in DOMAIN t : x # p => u[x] = t[x]
  BY <1>5, <1>8 DEF Tree, IsFcn
<1>10. LeafPaths(u) = LeafPaths(t) /\ \A x \in LeafPaths(t) : u[x] = t[x]
  <2>1. "leaf" # "split"
    OBVIOUS
  <2>. QED BY <1>3, <1>7, <1>9, <2>1 DEF LeafPaths
<1>11. \A i \in 1..n : u[w[i]] = t[w[i]]
  BY <1>1, <1>10 DEF Listed
<1>12. Row(t) = [i \in 1..n |-> Tile(t[w[i]])] /\ Row(u) = [i \in 1..n |-> Tile(u[w[i]])]
  BY <1>1, <1>5, <1>10, RowListed
<1>. QED BY <1>4, <1>11, <1>12

\* Setting the application of a leaf changes its tile, and no path or id.
LEMMA RowSetLeafApp ==
  ASSUME NEW A, NEW D, NEW t, Sound(t, A, D), NEW id \in LeafIds(t), NEW app \in A,
         NEW w, NEW n, Listed(w, n, LeafPaths(t)), NEW k \in 1..n, t[w[k]].id = id,
         NEW u, u = SetLeafApp(t, id, app)
  PROVE  Row(u) = Reapped(Row(t), k, app) /\ Listed(w, n, LeafPaths(u)) /\ SameIdsAt(w, n, t, u)
<1>1. PICK p : p = w[k]
  OBVIOUS
<1>2. p \in LeafPaths(t) /\ p \in DOMAIN t /\ t[p].kind = "leaf" /\ t[p] \in Node(A, D)
  BY <1>1 DEF Listed, LeafPaths, Sound, Tree
<1>3. Find(t, id) = p
  BY <1>1, <1>2, Found DEF Sound
<1>4. PICK n2 : n2 = [t[p] EXCEPT !.app = app]
  OBVIOUS
<1>5. n2.kind = "leaf" /\ n2.id = t[p].id /\ n2.app = app
  BY <1>2, <1>4 DEF Node
<1>6. u = [t EXCEPT ![p] = n2]
  BY <1>3, <1>4 DEF SetLeafApp
<1>7. DOMAIN u = DOMAIN t /\ u[p] = n2 /\ \A x \in DOMAIN t : x # p => u[x] = t[x]
  BY <1>2, <1>6 DEF Sound, Tree, IsFcn
<1>8. LeafPaths(u) = LeafPaths(t)
  BY <1>2, <1>5, <1>7 DEF LeafPaths
<1>9. Tree(t, A, D) /\ Tree(u, A, D)
  BY SetLeafAppSound DEF Sound
<1>10. /\ n \in Nat /\ \A i \in 1..n : w[i] \in LeafPaths(t) /\ w[i] \in DOMAIN t
       /\ \A i \in 1..n : i # k => w[i] # p
  <2>1. LeafPaths(t) \in SUBSET Paths
    BY DEF LeafPaths, Sound, Tree, Shape
  <2>2. \A i, j \in 1..n : w[i] = w[j] => i = j
    BY <2>1, ListInjective
  <2>. QED BY <1>1, <2>2 DEF Listed, LeafPaths
<1>11. Row(t) = [i \in 1..n |-> Tile(t[w[i]])] /\ Row(u) = [i \in 1..n |-> Tile(u[w[i]])]
  BY <1>8, <1>9, RowListed
<1>12. \A i \in 1..n : /\ i # k => u[w[i]] = t[w[i]]
                       /\ i = k => u[w[i]] = n2
  BY <1>1, <1>7, <1>10
<1>13. Tile(n2) = [Tile(t[p]) EXCEPT !.app = app]
  BY <1>5 DEF Tile
<1>14. \A i \in 1..n : u[w[i]].id = t[w[i]].id
  BY <1>1, <1>5, <1>12
<1>15. PICK T, U : T = [i \in 1..n |-> Tile(t[w[i]])] /\ U = [i \in 1..n |-> Tile(u[w[i]])]
  OBVIOUS
<1>16. U = [T EXCEPT ![k].app = app]
  <2>1. U = [i \in 1..n |-> Tile(u[w[i]])] /\ DOMAIN T = 1..n /\ \A i \in 1..n : T[i] = Tile(t[w[i]])
    BY <1>15
  <2>2. [T EXCEPT ![k].app = app] = [i \in 1..n |-> IF i = k THEN [T[k] EXCEPT !.app = app] ELSE T[i]]
    BY <2>1
  <2>3. \A i \in 1..n : Tile(u[w[i]]) = IF i = k THEN [T[k] EXCEPT !.app = app] ELSE T[i]
    BY <1>1, <1>12, <1>13, <2>1
  <2>. QED BY <2>1, <2>2, <2>3
<1>17. Row(u) = [Row(t) EXCEPT ![k].app = app]
  BY <1>11, <1>15, <1>16
<1>18. Listed(w, n, LeafPaths(u))
  BY <1>8
<1>. QED BY <1>14, <1>17, <1>18 DEF Reapped, SameIdsAt

\* Setting the application of a leaf changes the application of one tile.
LEMMA RowSetApp ==
  ASSUME NEW A, NEW D, NEW t, Sound(t, A, D), NEW id \in LeafIds(t), NEW app \in A
  PROVE  \E k \in DOMAIN Row(t) : Row(SetLeafApp(t, id, app)) = Reapped(Row(t), k, app)
<1>1. PICK w, n : Listed(w, n, LeafPaths(t)) /\ DOMAIN Row(t) = 1..n
  BY RowOf DEF Sound
<1>2. PICK k \in 1..n : ShownAt(t, w, k, id)
  BY <1>1, ShownSomewhere
<1>3. t[w[k]].id = id
  BY <1>2 DEF ShownAt
<1>4. Row(SetLeafApp(t, id, app)) = Reapped(Row(t), k, app)
  BY <1>1, <1>3, RowSetLeafApp
<1>. QED BY <1>1, <1>4

\* Swapping two leaves swaps the applications of two tiles.
LEMMA RowSwapLeaves ==
  ASSUME NEW A, NEW D, NEW t, Sound(t, A, D), NEW a \in LeafIds(t), NEW b \in LeafIds(t)
  PROVE  \E j, k \in DOMAIN Row(t) :
           Row(SwapLeaves(t, a, b)) = Reapped(Reapped(Row(t), j, Row(t)[k].app), k, Row(t)[j].app)
<1>1. PICK w, n : Listed(w, n, LeafPaths(t)) /\ DOMAIN Row(t) = 1..n
  BY RowOf DEF Sound
<1>2. PICK j \in 1..n : ShownAt(t, w, j, a)
  BY <1>1, ShownSomewhere
<1>3. PICK k \in 1..n : ShownAt(t, w, k, b)
  BY <1>1, ShownSomewhere
<1>4. PICK x \in A, y \in A : x = FindLeaf(t, a).app /\ y = FindLeaf(t, b).app
  BY FindLeafApp
<1>5. Row(t)[j].app = x /\ Row(t)[k].app = y
  BY <1>2, <1>3, <1>4 DEF Tile, ShownAt
<1>6. PICK u : u = SetLeafApp(t, a, y)
  OBVIOUS
<1>7. Sound(u, A, D) /\ b \in LeafIds(u)
  BY <1>6, SetLeafAppSound
<1>8. Row(u) = Reapped(Row(t), j, y) /\ Listed(w, n, LeafPaths(u)) /\ SameIdsAt(w, n, t, u)
  <2>1. t[w[j]].id = a
    BY <1>2 DEF ShownAt
  <2>. QED BY <1>1, <1>6, <2>1, RowSetLeafApp
<1>9. Row(SetLeafApp(u, b, x)) = Reapped(Row(u), k, x)
  <2>1. u[w[k]].id = b /\ Listed(w, n, LeafPaths(u))
    BY <1>3, <1>8 DEF ShownAt, SameIdsAt
  <2>. QED BY <1>7, <2>1, RowSetLeafApp
<1>10. SwapLeaves(t, a, b) = SetLeafApp(u, b, x)
  BY <1>4, <1>6 DEF SwapLeaves
<1>11. Row(SwapLeaves(t, a, b)) = Reapped(Reapped(Row(t), j, y), k, x)
  BY <1>8, <1>9, <1>10
<1>. QED BY <1>1, <1>5, <1>11
-----------------------------------------------------------------------------
\* Docking a leaf beside another moves one tile of the row.
LEMMA RowMoveSplit ==
  ASSUME NEW A, NEW D, Dirs \subseteq D, NEW t, Sound(t, A, D),
         NEW from \in LeafIds(t), NEW target \in LeafIds(t), from # target, NEW zone, NEW g \in Nat
  PROVE  \E j, k \in DOMAIN Row(t) :
           Row(MoveSplit(t, from, target, zone, g)) = InsertAt(RemoveAt(Row(t), k), j, Row(t)[k])
<1>1. Tree(t, A, D) /\ ~IsLeaf(t)
  BY TwoLeaves DEF Sound
<1>2. PICK d : d = removeLeaf(t, from)
  OBVIOUS
<1>3. Sound(d, A, D) /\ target \in LeafIds(d)
  BY <1>1, <1>2, CloseLeafSound
<1>4. PICK e : e = FindLeaf(t, from)
  OBVIOUS
<1>5. e \in Node(A, D) /\ e.kind = "leaf"
  BY <1>4, FindLeafApp
<1>6. PICK k \in DOMAIN Row(t) : Row(d) = RemoveAt(Row(t), k) /\ Row(t)[k] = Tile(e)
  BY <1>1, <1>2, <1>4, RowCloseLeaf
<1>7. PICK n \in Nat : n = Len(Row(t)) /\ DOMAIN Row(t) = 1..n /\ Row(t) \in Seq(Tiles(A))
  BY <1>1, RowOf
<1>8. PICK w, m : Listed(w, m, LeafPaths(d)) /\ Len(Row(d)) = m
  BY <1>3, RowOf DEF Sound
<1>9. m = n - 1
  <2>1. Len(RemoveAt(Row(t), k)) = n - 1
    BY <1>6, <1>7, RemovedAt
  <2>. QED BY <1>6, <1>8, <2>1
<1>10. PICK dir \in Dirs : dir = IF zone \in {"left", "right"} THEN "row" ELSE "col"
  BY DEF Dirs
<1>11. PICK split : split = NewSplit(g + 1, dir, HalfRatio)
  OBVIOUS
<1>12. split \in Node(A, D) /\ split.kind = "split"
  <2>1. g + 1 \in Nat \ {0} /\ dir \in D
    OBVIOUS
  <2>. QED BY <1>11, <2>1, NewSplitNode
<1>13. PICK p : p = Find(d, target)
  OBVIOUS
<1> DEFINE J1 == Join(split, LeafTree(e), Subtree(d, p))
           J2 == Join(split, Subtree(d, p), LeafTree(e))
<1>14. PICK i \in 1..m : /\ Row(Replace(d, p, J2)) = InsertAt(Row(d), i + 1, Tile(e))
                         /\ Row(Replace(d, p, J1)) = InsertAt(Row(d), i, Tile(e))
  BY <1>3, <1>5, <1>8, <1>12, <1>13, RowBeside
<1>15. MoveSplit(t, from, target, zone, g) = Replace(d, p, IF zone \in {"left", "top"} THEN J1 ELSE J2)
  BY <1>2, <1>4, <1>10, <1>11, <1>13 DEF MoveSplit
<1> HIDE DEF J1, J2
<1>16. i \in 1..n /\ i + 1 \in 1..n
  BY <1>9
<1>17. PICK r : r = MoveSplit(t, from, target, zone, g)
  OBVIOUS
<1>18. \E j \in 1..n : Row(r) = InsertAt(Row(d), j, Tile(e))
  BY <1>14, <1>15, <1>16, <1>17
<1>. QED BY <1>6, <1>7, <1>17, <1>18

\* Grafting a leaf inserts its tile behind some tile of the row.
LEMMA RowGraftLeaf ==
  ASSUME NEW A, NEW D, NEW t, Sound(t, A, D), NEW leaf \in Node(A, D), leaf.kind = "leaf",
         leaf.id \notin NodeIds(t), NEW target, target # NoNode => target \in LeafIds(t), NEW dir \in D,
         NEW g \in Nat
  PROVE  \E j \in DOMAIN Row(t) : Row(GraftLeaf(t, leaf, target, dir, g)) = InsertAt(Row(t), j + 1, Tile(leaf))
<1>1. PICK w, n : Listed(w, n, LeafPaths(t)) /\ DOMAIN Row(t) = 1..n /\ n \in Nat \ {0}
  BY RowOf DEF Sound
<1>2. PICK split : split = NewSplit(g + 1, dir, HalfRatio)
  OBVIOUS
<1>3. split \in Node(A, D) /\ split.kind = "split"
  <2>1. g + 1 \in Nat \ {0}
    OBVIOUS
  <2>. QED BY <1>2, <2>1, NewSplitNode
<1>4. CASE target = NoNode
  <2>1. GraftLeaf(t, leaf, target, dir, g) = Join(split, t, LeafTree(leaf))
    BY <1>2, <1>4 DEF GraftLeaf
  <2>2. Row(Join(split, t, LeafTree(leaf))) = InsertAt(Row(t), n + 1, Tile(leaf))
    BY <1>1, <1>3, RowAppended DEF Sound
  <2>3. n \in DOMAIN Row(t)
    BY <1>1
  <2>. QED BY <2>1, <2>2, <2>3
<1>5. CASE target # NoNode
  <2>1. PICK p : p = Find(t, target)
    OBVIOUS
  <2>2. GraftLeaf(t, leaf, target, dir, g) = Replace(t, p, Join(split, Subtree(t, p), LeafTree(leaf)))
    BY <1>2, <1>5, <2>1 DEF GraftLeaf
  <2>3. target \in LeafIds(t)
    BY <1>5
  <2>4. PICK m \in 1..n :
          /\ Row(Replace(t, p, Join(split, Subtree(t, p), LeafTree(leaf)))) = InsertAt(Row(t), m + 1, Tile(leaf))
          /\ Row(Replace(t, p, Join(split, LeafTree(leaf), Subtree(t, p)))) = InsertAt(Row(t), m, Tile(leaf))
    BY <1>1, <1>3, <2>1, <2>3, RowBeside
  <2>. QED BY <1>1, <2>2, <2>4
<1>. QED BY <1>4, <1>5

\* The same applications in the same order, under ids of the copy.
CopyOf(row, ids, copy) == copy = [k \in DOMAIN row |-> [id |-> ids[k], app |-> row[k].app]]

\* A clone has the row of the original with other ids, no two the same.
LEMMA RowCloneFresh ==
  ASSUME NEW A, NEW D, NEW t, Sound(t, A, D), NEW g \in Nat
  PROVE  \E ids \in [DOMAIN Row(t) -> (g + 1)..(g + Cardinality(DOMAIN t))] :
           /\ \A i, j \in DOMAIN Row(t) : ids[i] = ids[j] => i = j
           /\ CopyOf(Row(t), ids, Row(CloneFresh(t, g)))
<1>1. PICK w, n : Listed(w, n, LeafPaths(t)) /\ DOMAIN Row(t) = 1..n
  BY RowOf DEF Sound
<1>2. PICK c : c = CloneFresh(t, g)
  OBVIOUS
<1>3. Sound(c, A, D) /\ NodeIds(c) \subseteq (g + 1)..(g + Cardinality(DOMAIN t))
  BY <1>2, CloneFreshSound
<1>4. /\ DOMAIN c = DOMAIN t
      /\ \A p \in DOMAIN t : c[p] = [t[p] EXCEPT !.id = g + 1 + Rank(DOMAIN t, p)]
  BY <1>2 DEF CloneFresh, Rank
<1>5. \A p \in DOMAIN t : c[p].kind = t[p].kind /\ c[p].app = t[p].app
  BY <1>4 DEF Sound, Tree, Node
<1>6. LeafPaths(c) = LeafPaths(t)
  BY <1>4, <1>5 DEF LeafPaths
<1>7. \A i \in 1..n : w[i] \in LeafPaths(t) /\ w[i] \in DOMAIN t
  BY <1>1 DEF Listed, LeafPaths
<1>8. \A i, j \in 1..n : w[i] = w[j] => i = j
  <2>1. LeafPaths(t) \in SUBSET Paths
    BY DEF LeafPaths, Sound, Tree, Shape
  <2>. QED BY <1>1, <2>1, ListInjective
<1>9. /\ Row(t) = [i \in 1..n |-> Tile(t[w[i]])]
      /\ Row(c) = [i \in 1..n |-> Tile(c[w[i]])]
  <2>1. Tree(t, A, D) /\ Tree(c, A, D) /\ Listed(w, n, LeafPaths(c))
    BY <1>1, <1>3, <1>6 DEF Sound
  <2>. QED BY <1>1, <2>1, RowListed
<1>10. PICK ids : ids = [i \in 1..n |-> c[w[i]].id]
  OBVIOUS
<1>11. ids \in [1..n -> (g + 1)..(g + Cardinality(DOMAIN t))]
  BY <1>3, <1>4, <1>7, <1>10 DEF NodeIds
<1>12. \A i, j \in 1..n : ids[i] = ids[j] => i = j
  <2>1. \A x, y \in DOMAIN c : c[x].id = c[y].id => x = y
    BY <1>3 DEF Sound, UniqueIds
  <2>. QED BY <1>4, <1>7, <1>8, <1>10, <2>1
<1>13. \A i \in 1..n : Tile(c[w[i]]) = [id |-> ids[i], app |-> Row(t)[i].app]
  BY <1>5, <1>7, <1>9, <1>10 DEF Tile
<1>14. Row(c) = [i \in 1..n |-> [id |-> ids[i], app |-> Row(t)[i].app]]
  BY <1>9, <1>13
<1>15. CopyOf(Row(t), ids, Row(c))
  BY <1>1, <1>14 DEF CopyOf
<1>. QED BY <1>1, <1>2, <1>11, <1>12, <1>15
-----------------------------------------------------------------------------
(* Dividers: which leaves are on which side of them.                       *)

Splits(t) == {t[x] : x \in DOMAIN t \ LeafPaths(t)}

\* Leaf k is on side d of split s.
OnSide(t, k, s, d) ==
  \E x \in LeafPaths(t), q \in DOMAIN t : IsPrefix(q \o <<d>>, x) /\ t[x].id = k /\ t[q].id = s

\* A divider of t has e's id and direction, and its position too if e is not r.
Persists(t, e, r) == \E c \in Splits(t) : c.id = e.id /\ c.dir = e.dir /\ (c.ratio = e.ratio \/ e.id = r)

\* t2 has dividers of t, with its leaves on the sides where they were, but
\* for ids above g, the position of r and the sides of the leaf l.
Kept(t, t2, g, l, r) ==
  /\ \A e \in Splits(t2) : e.id > g \/ Persists(t, e, r)
  /\ \A k, n : \A d \in Sides : OnSide(t2, k, n, d) => k > g \/ n > g \/ k = l \/ OnSide(t, k, n, d)

LEMMA KeptSame ==
  ASSUME NEW t, NEW g, NEW l, NEW r
  PROVE  Kept(t, t, g, l, r)
BY DEF Kept, Persists

LEMMA KeptTwice ==
  ASSUME NEW t, NEW t1, NEW t2, NEW g, NEW l, NEW r, Kept(t, t1, g, l, r), Kept(t1, t2, g, l, r)
  PROVE  Kept(t, t2, g, l, r)
<1>1. ASSUME NEW e \in Splits(t2) PROVE e.id > g \/ Persists(t, e, r)
  <2>1. e.id > g \/ \E c \in Splits(t1) : c.id = e.id /\ c.dir = e.dir /\ (c.ratio = e.ratio \/ e.id = r)
    BY Zenon DEF Kept, Persists
  <2>2. ASSUME NEW c \in Splits(t1) PROVE c.id > g \/ Persists(t, c, r)
    BY Zenon DEF Kept
  <2>. QED BY <2>1, <2>2, Zenon DEF Persists
<1>2. \A k, n : \A d \in Sides : OnSide(t2, k, n, d) => k > g \/ n > g \/ k = l \/ OnSide(t, k, n, d)
  BY Zenon DEF Kept
<1>. QED BY <1>1, <1>2, Zenon DEF Kept

\* A tree of new nodes only.
LEMMA KeptWhenNew ==
  ASSUME NEW t, NEW t2, NEW g, NEW l, NEW r, \A x \in DOMAIN t2 : t2[x].id > g
  PROVE  Kept(t, t2, g, l, r)
BY Zenon DEF Kept, Splits, OnSide, LeafPaths

\* A path below a child is below a node only where its own rest is.
LEMMA UnderSame ==
  ASSUME NEW p \in Paths, NEW a \in Paths, NEW b \in Paths, IsPrefix(p \o a, p \o b)
  PROVE  IsPrefix(a, b)
<1>1. p \o a \in Paths /\ p \o b \in Paths
  BY Concat
<1>2. PICK r \in Paths : p \o b = (p \o a) \o r
  BY <1>1, PrefixRest
<1>3. p \o b = p \o (a \o r) /\ a \o r \in Paths
  <2>1. (p \o a) \o r = p \o (a \o r)
    BY Associate
  <2>2. a \o r \in Paths
    BY Concat
  <2>. QED BY ONLY <1>2, <2>1, <2>2
<1>4. b = a \o r
  BY <1>3, Cancel
<1>. QED BY <1>2, <1>4, RestOf

\* Of two nodes above a path one of which is not below the other.
LEMMA AboveBoth ==
  ASSUME NEW f \in Paths, NEW q \in Paths, NEW d \in Sides, NEW x \in Paths,
         IsPrefix(f, x), IsPrefix(q \o <<d>>, x), ~IsPrefix(f, q)
  PROVE  IsPrefix(q \o <<d>>, f)
<1>1. q \o <<d>> \in Paths
  BY Child
<1>2. IsPrefix(q \o <<d>>, f) \/ IsPrefix(f, q \o <<d>>)
  BY <1>1, Comparable
<1>3. IsPrefix(f, q \o <<d>>) => f = q \o <<d>>
  BY Child
<1>. QED BY <1>1, <1>2, <1>3, PrefixOrder

LEMMA NodePaths ==
  ASSUME NEW t, NEW A, NEW D, Tree(t, A, D)
  PROVE  DOMAIN t \subseteq Paths /\ LeafPaths(t) \subseteq DOMAIN t
BY DEF Tree, Shape, LeafPaths

\* Removing a leaf: the subtree beside it moves up, dividers inside it and
\* those above it have the leaves they had where they had them.
LEMMA KeptByRemoving ==
  ASSUME NEW A, NEW D, NEW t, Tree(t, A, D), NEW f \in DOMAIN t, NEW s \in Sides, f \o <<s>> \in DOMAIN t,
         NEW t2, t2 = Replace(t, f, Subtree(t, f \o <<s>>)), NEW g, NEW l, NEW r
  PROVE  Kept(t, t2, g, l, r)
<1>1. PICK o, b : o = f \o <<s>> /\ b = Subtree(t, o)
  OBVIOUS
<1>2. /\ o \in DOMAIN t /\ o \in Paths /\ f \in Paths /\ IsPrefix(f, o)
      /\ t2 = Replace(t, f, b) /\ DOMAIN t \subseteq Paths
  BY <1>1, NodePaths, Child, RestOf
<1>3. /\ Tree(b, A, D)
      /\ \A y : y \in DOMAIN b <=> y \in Paths /\ o \o y \in DOMAIN t
      /\ \A y \in DOMAIN b : b[y] = t[o \o y]
  BY <1>1, <1>2, SubtreeTree, SubtreePaths
<1>4. /\ \A x : x \in DOMAIN t2 <=> (x \in DOMAIN t /\ ~IsPrefix(f, x)) \/ \E y \in DOMAIN b : x = f \o y
      /\ \A x \in DOMAIN t : ~IsPrefix(f, x) => x \in DOMAIN t2 /\ t2[x] = t[x]
      /\ \A y \in DOMAIN b : f \o y \in DOMAIN t2 /\ t2[f \o y] = b[y]
  <2>1. Tree(t, A, D) /\ f \in DOMAIN t /\ Tree(b, A, D)
    BY <1>3
  <2> DEFINE R == Replace(t, f, b)
  <2>2. /\ \A x : x \in DOMAIN R <=> (x \in DOMAIN t /\ ~IsPrefix(f, x)) \/ \E y \in DOMAIN b : x = f \o y
        /\ \A x \in DOMAIN t : ~IsPrefix(f, x) => x \in DOMAIN R /\ R[x] = t[x]
        /\ \A y \in DOMAIN b : f \o y \in DOMAIN R /\ R[f \o y] = b[y]
        /\ IsFcn(R)
    BY <2>1, ReplacePaths
  <2>3. t2 = R
    BY <1>2
  <2> HIDE DEF R
  <2>. QED BY ONLY <2>2, <2>3
<1>5. \A x \in DOMAIN t2 : \/ x \in DOMAIN t /\ ~IsPrefix(f, x) /\ t2[x] = t[x]
                           \/ \E y \in Paths : x = f \o y /\ o \o y \in DOMAIN t /\ t2[x] = t[o \o y]
  <2> SUFFICES ASSUME NEW x \in DOMAIN t2, ~(x \in DOMAIN t /\ ~IsPrefix(f, x))
               PROVE  \E y \in Paths : x = f \o y /\ o \o y \in DOMAIN t /\ t2[x] = t[o \o y]
    BY <1>4
  <2>1. PICK y \in DOMAIN b : x = f \o y
    BY <1>4
  <2>2. y \in Paths /\ o \o y \in DOMAIN t /\ b[y] = t[o \o y]
    BY <1>3
  <2>3. t2[f \o y] = b[y]
    BY <1>4
  <2>. QED BY <2>1, <2>2, <2>3
<1>6. ASSUME NEW e \in Splits(t2) PROVE e \in Splits(t)
  <2>1. PICK x \in DOMAIN t2 : e = t2[x] /\ t2[x].kind # "leaf"
    BY <1>6 DEF Splits, LeafPaths
  <2>2. PICK z \in DOMAIN t : t2[x] = t[z]
    BY <1>5, <2>1
  <2>. QED BY <2>1, <2>2 DEF Splits, LeafPaths
<1>7. ASSUME NEW k, NEW n, NEW d \in Sides, OnSide(t2, k, n, d) PROVE OnSide(t, k, n, d)
  <2>1. PICK x \in DOMAIN t2, q \in DOMAIN t2 :
          t2[x].kind = "leaf" /\ IsPrefix(q \o <<d>>, x) /\ t2[x].id = k /\ t2[q].id = n
    BY <1>7 DEF OnSide, LeafPaths
  <2>2. SUFFICES \E y \in DOMAIN t, v \in DOMAIN t :
                   t[y] = t2[x] /\ t[v] = t2[q] /\ IsPrefix(v \o <<d>>, y)
    BY <2>1 DEF OnSide, LeafPaths
  <2>3. x \in Paths /\ q \in Paths /\ q \o <<d>> \in Paths /\ IsPrefix(q, x)
    <3>1. \A y \in Paths : f \o y \in Paths
      BY <1>2, Concat
    <3>2. x \in Paths /\ q \in Paths
      BY <1>2, <1>5, <3>1
    <3>. QED BY <2>1, <3>2, Child, RestOf, PrefixOrder
  <2>4. CASE x \in DOMAIN t /\ ~IsPrefix(f, x)
    <3>1. ~IsPrefix(f, q)
      BY <1>2, <2>3, <2>4, PrefixOrder
    <3>2. q \in DOMAIN t /\ t2[q] = t[q]
      <4>1. \A y \in Paths : q # f \o y
        BY <1>2, <3>1, RestOf
      <4>. QED BY <1>5, <4>1
    <3>. QED BY <1>4, <2>1, <2>4, <3>2
  <2>5. ASSUME NEW y \in Paths, x = f \o y, o \o y \in DOMAIN t, t2[x] = t[o \o y]
        PROVE  \E z \in DOMAIN t, v \in DOMAIN t : t[z] = t2[x] /\ t[v] = t2[q] /\ IsPrefix(v \o <<d>>, z)
    <3>1. CASE q \in DOMAIN t /\ ~IsPrefix(f, q)
      <4>1. IsPrefix(f, x)
        BY <1>2, <2>5, RestOf
      <4>2. IsPrefix(q \o <<d>>, f)
        BY <1>2, <2>1, <2>3, <3>1, <4>1, AboveBoth
      <4>3. IsPrefix(o, o \o y) /\ o \o y \in Paths
        BY <1>2, <2>5, RestOf, Concat
      <4>4. IsPrefix(q \o <<d>>, o \o y)
        BY <1>2, <2>3, <4>2, <4>3, PrefixOrder
      <4>. QED BY <1>4, <2>5, <3>1, <4>4
    <3>2. ASSUME NEW w \in Paths, q = f \o w, o \o w \in DOMAIN t, t2[q] = t[o \o w]
          PROVE  IsPrefix((o \o w) \o <<d>>, o \o y)
      <4>1. <<d>> \in Paths /\ w \o <<d>> \in Paths
        BY Child
      <4>2. q \o <<d>> = f \o (w \o <<d>>) /\ (o \o w) \o <<d>> = o \o (w \o <<d>>)
        <5>1. f \in Paths /\ o \in Paths /\ w \in Paths /\ <<d>> \in Paths
          BY <1>2, <4>1
        <5>2. (f \o w) \o <<d>> = f \o (w \o <<d>>)
          BY ONLY <5>1, Associate
        <5>3. (o \o w) \o <<d>> = o \o (w \o <<d>>)
          BY ONLY <5>1, Associate
        <5>. QED BY ONLY <3>2, <5>2, <5>3
      <4>3. IsPrefix(w \o <<d>>, y)
        BY <1>2, <2>1, <2>5, <4>1, <4>2, UnderSame
      <4>. QED BY <1>2, <2>5, <4>1, <4>2, <4>3, PrefixUnder
    <3>. QED BY <1>5, <2>5, <3>1, <3>2
  <2>. QED BY <1>5, <2>4, <2>5
<1>. QED BY <1>6, <1>7 DEF Kept, Persists

\* A leaf put beside another one, under a new split.
LEMMA KeptByWrapping ==
  ASSUME NEW A, NEW D, NEW t, Tree(t, A, D), NEW p \in LeafPaths(t),
         NEW split \in Node(A, D), split.kind = "split", NEW new \in Node(A, D), new.kind = "leaf",
         NEW u \in Sides, NEW t2, t2 = Replace(t, p, Pair(split, u, LeafTree(t[p]), LeafTree(new))),
         NEW g, NEW l, NEW r, split.id > g, new.id > g \/ new.id = l
  PROVE  Kept(t, t2, g, l, r)
<1>1. p \in DOMAIN t /\ t[p].kind = "leaf" /\ p \in Paths /\ DOMAIN t \subseteq Paths
  BY NodePaths DEF LeafPaths
<1>0. Tree(t2, A, D) /\ PairAt(t, t2, p, u, split, new)
  BY WrapNodes
<1>2. /\ Tree(t2, A, D) /\ t2[p] = split
      /\ t2[p \o <<u>>] = new /\ t2[p \o <<Other(u)>>] = t[p]
      /\ \A x \in DOMAIN t2 : (x \in DOMAIN t /\ x # p) \/ x = p \/ x = p \o <<u>> \/ x = p \o <<Other(u)>>
      /\ \A x \in DOMAIN t : x # p => x \in DOMAIN t2 /\ t2[x] = t[x]
  BY <1>0 DEF PairAt
<1>3. Other(u) \in Sides
  BY DEF Other, Sides
<1>4. ASSUME NEW e \in Splits(t2) PROVE e.id > g \/ e \in Splits(t)
  <2>1. PICK x \in DOMAIN t2 : e = t2[x] /\ t2[x].kind # "leaf"
    BY DEF Splits, LeafPaths
  <2>2. x = p \/ (x \in DOMAIN t /\ x # p)
    BY <1>1, <1>2, <2>1
  <2>3. CASE x = p
    BY <1>2, <2>1, <2>3
  <2>4. CASE x \in DOMAIN t /\ x # p
    BY <1>2, <2>1, <2>4 DEF Splits, LeafPaths
  <2>. QED BY <2>2, <2>3, <2>4
<1>5. ASSUME NEW k, NEW n, NEW d \in Sides, OnSide(t2, k, n, d), ~(k > g), ~(n > g), k # l
      PROVE  OnSide(t, k, n, d)
  <2>1. PICK x \in DOMAIN t2, q \in DOMAIN t2 :
          t2[x].kind = "leaf" /\ IsPrefix(q \o <<d>>, x) /\ t2[x].id = k /\ t2[q].id = n
    BY <1>5 DEF OnSide, LeafPaths
  <2>2. DOMAIN t2 \subseteq Paths
    BY <1>2, NodePaths
  <2>3. q \in Paths /\ x \in Paths /\ q \o <<d>> \in Paths /\ <<d>> \in Paths /\ q \o <<d>> # q
    BY <2>2, Child
  <2>4. t2[q].kind # "leaf"
    <3>1. IsPrefix(q, q \o <<d>>)
      BY <2>3, RestOf
    <3>2. IsPrefix(q, x)
      BY <2>1, <2>3, <3>1, PrefixOrder
    <3>3. t2[q].kind = "leaf" => x = q
      BY <1>2, <2>1, <3>2, BelowLeaf
    <3>4. x # q
      <4>1. PICK c \in Paths : c = q \o <<d>>
        BY <2>3
      <4>2. IsPrefix(q, c) /\ IsPrefix(c, x) /\ q # c
        BY <2>1, <2>3, <3>1, <4>1
      <4>3. IsPrefix(q, c) /\ IsPrefix(c, q) => q = c
        BY ONLY <2>3, PrefixOrder
      <4>. QED BY ONLY <4>2, <4>3
    <3>. QED BY <3>3, <3>4
  <2>5. q \in DOMAIN t /\ q # p /\ t2[q] = t[q]
    BY <1>1, <1>2, <1>5, <2>1, <2>4
  <2>6. CASE x \in DOMAIN t /\ x # p
    BY <1>2, <2>1, <2>5, <2>6 DEF OnSide, LeafPaths
  <2>7. CASE x = p \o <<Other(u)>>
    <3>1. IsPrefix(q \o <<d>>, p) \/ q \o <<d>> = p \o <<Other(u)>>
      BY <1>1, <1>3, <2>1, <2>3, <2>7, Child
    <3>2. Front(q \o <<d>>) = q /\ Front(p \o <<Other(u)>>) = p
      BY <1>1, <1>3, <2>3, Child
    <3>3. IsPrefix(q \o <<d>>, p)
      BY <2>5, <3>1, <3>2
    <3>4. t[p].id = k
      BY <1>2, <2>1, <2>7
    <3>. QED BY <1>1, <2>1, <2>5, <3>3, <3>4 DEF OnSide, LeafPaths
  <2>8. x # p /\ x # p \o <<u>>
    BY <1>2, <1>5, <2>1
  <2>. QED BY <1>2, <2>6, <2>7, <2>8
<1>. QED BY <1>4, <1>5 DEF Kept, Persists

\* A leaf put beside the whole tree.
LEMMA KeptByJoining ==
  ASSUME NEW A, NEW D, NEW t, Tree(t, A, D), NEW split \in Node(A, D), NEW new \in Node(A, D), new.kind = "leaf",
         NEW t2, t2 = Join(split, t, LeafTree(new)),
         NEW g, NEW l, NEW r, split.id > g, new.id > g \/ new.id = l
  PROVE  Kept(t, t2, g, l, r)
<1>1. PICK s : s = LeafTree(new)
  OBVIOUS
<1>2. Tree(s, A, D) /\ DOMAIN s = {<<>>} /\ s[<<>>] = new
  BY <1>1, LeafTreeTree
<1>3. /\ \A x : x \in DOMAIN t2 <=> x = <<>> \/ \E v \in Sides : \E y \in DOMAIN On(v, t, s) : x = <<v>> \o y
      /\ t2[<<>>] = split
      /\ \A v \in Sides : \A y \in DOMAIN On(v, t, s) : t2[<<v>> \o y] = On(v, t, s)[y]
  <2> DEFINE J == Join(split, t, s)
  <2>1. /\ \A x : x \in DOMAIN J <=> x = <<>> \/ \E v \in Sides : \E y \in DOMAIN On(v, t, s) : x = <<v>> \o y
        /\ J[<<>>] = split
        /\ \A v \in Sides : \A y \in DOMAIN On(v, t, s) :
             /\ <<v>> \o y \in DOMAIN J
             /\ J[<<v>> \o y] = On(v, t, s)[y]
        /\ IsFcn(J)
    BY <1>2, JoinPaths
  <2>2. t2 = J
    BY <1>1
  <2> HIDE DEF J
  <2>. QED BY ONLY <2>1, <2>2
<1>4. Sides = {"a", "b"} /\ On("a", t, s) = t /\ On("b", t, s) = s
  BY DEF Sides, On
<1>5. DOMAIN t \subseteq Paths /\ <<>> \in Paths
  BY NodePaths, Concat
<1>6. \A x \in DOMAIN t2 : \/ x = <<>>
                           \/ x = <<"b">> /\ t2[x] = new
                           \/ \E y \in DOMAIN t : x = <<"a">> \o y /\ t2[x] = t[y]
  <2> SUFFICES ASSUME NEW x \in DOMAIN t2, x # <<>>
               PROVE  (x = <<"b">> /\ t2[x] = new) \/ \E y \in DOMAIN t : x = <<"a">> \o y /\ t2[x] = t[y]
    OBVIOUS
  <2>1. PICK v \in Sides : \E y \in DOMAIN On(v, t, s) : x = <<v>> \o y
    BY <1>3
  <2>2. PICK y \in DOMAIN On(v, t, s) : x = <<v>> \o y
    BY <2>1
  <2>3. t2[x] = On(v, t, s)[y]
    BY <1>3, <2>2
  <2>4. CASE v = "a"
    BY <1>4, <2>2, <2>3, <2>4
  <2>5. CASE v = "b"
    <3>1. y = <<>> /\ <<"b">> \in Paths
      BY <1>2, <1>4, <2>2, <2>5, FirstStep
    <3>2. <<"b">> \o <<>> = <<"b">>
      BY <3>1, Concat
    <3>. QED BY <1>2, <1>4, <2>2, <2>3, <2>5, <3>1, <3>2
  <2>. QED BY <1>4, <2>4, <2>5
<1>7. ASSUME NEW e \in Splits(t2) PROVE e.id > g \/ e \in Splits(t)
  <2>1. PICK x \in DOMAIN t2 : e = t2[x] /\ t2[x].kind # "leaf"
    BY DEF Splits, LeafPaths
  <2>. QED BY <1>3, <1>6, <2>1 DEF Splits, LeafPaths
<1>8. ASSUME NEW k, NEW n, NEW d \in Sides, OnSide(t2, k, n, d), ~(k > g), ~(n > g), k # l
      PROVE  OnSide(t, k, n, d)
  <2>1. PICK x \in DOMAIN t2, q \in DOMAIN t2 :
          t2[x].kind = "leaf" /\ IsPrefix(q \o <<d>>, x) /\ t2[x].id = k /\ t2[q].id = n
    BY <1>8 DEF OnSide, LeafPaths
  <2>2. /\ "a" \in Sides /\ "b" \in Sides /\ <<"a">> \in Paths /\ <<"b">> \in Paths /\ <<d>> \in Paths
        /\ <<>> \o <<"a">> = <<"a">> /\ <<>> \o <<"b">> = <<"b">>
    <3>1. "a" \in Sides /\ "b" \in Sides
      BY <1>4
    <3>2. <<"a">> \in Paths /\ <<"b">> \in Paths /\ <<d>> \in Paths
      BY <3>1, FirstStep
    <3>. QED BY <3>1, <3>2, Concat
  <2>3. q # <<>>
    BY <1>3, <1>8, <2>1
  <2>4. x # <<>>
    <3>1. q \in Paths
      <4>1. \A y \in DOMAIN t : <<"a">> \o y \in Paths
        BY <1>5, <2>2, Concat
      <4>. QED BY <1>6, <2>2, <2>3, <4>1
    <3>2. q \o <<d>> \in Paths /\ q \o <<d>> # <<>>
      BY <3>1, Child
    <3>3. IsPrefix(<<>>, q \o <<d>>)
      BY <3>2, PrefixOrder
    <3>. QED BY <1>5, <2>1, <3>2, <3>3, PrefixOrder
  <2>5. t2[x] # new
    BY <1>8, <2>1
  <2>6. PICK y \in DOMAIN t : x = <<"a">> \o y /\ t2[x] = t[y]
    BY <1>6, <2>4, <2>5
  <2>7. y \in Paths /\ IsPrefix(<<"a">>, x) /\ x \in Paths
    <3>1. y \in Paths
      BY <1>5
    <3>. QED BY <2>2, <2>6, <3>1, RestOf, Concat
  <2>8. q # <<"b">>
    <3> SUFFICES ASSUME q = <<"b">> PROVE FALSE
      OBVIOUS
    <3>1. IsPrefix(<<"b">>, <<"b">> \o <<d>>) /\ <<"b">> \o <<d>> \in Paths
      BY <2>2, RestOf, Concat
    <3>2. IsPrefix(<<"b">>, x)
      BY <2>1, <2>2, <2>7, <3>1, PrefixOrder
    <3>3. IsPrefix(<<>> \o <<"b">>, x) /\ IsPrefix(<<>> \o <<"a">>, x)
      BY <2>2, <2>7, <3>2
    <3>4. "b" = "a"
      BY ONLY <1>5, <2>2, <2>7, <3>3, ChildrenApart
    <3>. QED BY <3>4
  <2>9. PICK z \in DOMAIN t : q = <<"a">> \o z /\ t2[q] = t[z]
    BY <1>6, <2>1, <2>3, <2>8
  <2>10. z \in Paths /\ z \o <<d>> \in Paths
    <3>1. z \in Paths
      BY <1>5
    <3>. QED BY <3>1, Child
  <2>11. (<<"a">> \o z) \o <<d>> = <<"a">> \o (z \o <<d>>)
    BY <2>2, <2>10, Associate
  <2>12. IsPrefix(<<"a">> \o (z \o <<d>>), <<"a">> \o y)
    BY <2>1, <2>6, <2>9, <2>11
  <2>13. IsPrefix(z \o <<d>>, y)
    BY <2>2, <2>7, <2>10, <2>12, UnderSame
  <2>. QED BY <2>1, <2>6, <2>9, <2>13 DEF OnSide, LeafPaths
<1>. QED BY <1>7, <1>8 DEF Kept, Persists

\* A node that is changed where it is.
LEMMA KeptByRelabelling ==
  ASSUME NEW A, NEW D, NEW t, Tree(t, A, D), NEW p \in DOMAIN t, NEW n,
         n.id = t[p].id, n.kind = t[p].kind, n.dir = t[p].dir,
         NEW g, NEW l, NEW r, t[p].kind # "leaf" => t[p].id = r
  PROVE  Kept(t, [t EXCEPT ![p] = n], g, l, r)
<1>1. PICK u : u = [t EXCEPT ![p] = n]
  OBVIOUS
<1>2. DOMAIN u = DOMAIN t /\ u[p] = n /\ \A x \in DOMAIN t : x # p => u[x] = t[x]
  BY <1>1
<1>3. \A x \in DOMAIN t : u[x].id = t[x].id /\ u[x].kind = t[x].kind
  BY <1>2
<1>4. ASSUME NEW e \in Splits(u) PROVE Persists(t, e, r)
  <2>1. PICK x \in DOMAIN t : e = u[x] /\ u[x].kind # "leaf"
    BY <1>2 DEF Splits, LeafPaths
  <2>2. t[x] \in Splits(t)
    BY <1>3, <2>1 DEF Splits, LeafPaths
  <2>. QED BY <1>2, <2>1, <2>2 DEF Persists
<1>5. ASSUME NEW k, NEW s, NEW d \in Sides, OnSide(u, k, s, d) PROVE OnSide(t, k, s, d)
  <2>1. LeafPaths(u) = LeafPaths(t) /\ LeafPaths(t) \subseteq DOMAIN t
    BY <1>2, <1>3 DEF LeafPaths
  <2>. QED BY <1>2, <1>3, <1>5, <2>1 DEF OnSide
<1>. QED BY <1>1, <1>4, <1>5 DEF Kept

\* A leaf put before or behind the leaf with an id.
LEMMA KeptBeside ==
  ASSUME NEW A, NEW D, NEW t, Sound(t, A, D), NEW id \in LeafIds(t), NEW p, p = Find(t, id),
         NEW split \in Node(A, D), split.kind = "split", NEW new \in Node(A, D), new.kind = "leaf",
         NEW g, NEW l, NEW r, split.id > g, new.id > g \/ new.id = l
  PROVE  /\ Kept(t, Replace(t, p, Join(split, Subtree(t, p), LeafTree(new))), g, l, r)
         /\ Kept(t, Replace(t, p, Join(split, LeafTree(new), Subtree(t, p))), g, l, r)
<1>1. p \in LeafPaths(t)
  <2>1. PICK x \in LeafPaths(t) : t[x].id = id
    BY DEF LeafIds
  <2>2. x \in DOMAIN t
    BY <2>1 DEF LeafPaths
  <2>. QED BY <2>1, <2>2, Found DEF Sound
<1>2. Tree(t, A, D) /\ Subtree(t, p) = LeafTree(t[p])
  BY <1>1, LeafSubtree DEF Sound
<1>3. PICK t1, t2 : /\ t1 = Replace(t, p, Join(split, Subtree(t, p), LeafTree(new)))
                    /\ t2 = Replace(t, p, Join(split, LeafTree(new), Subtree(t, p)))
  OBVIOUS
<1>4. "a" \in Sides /\ "b" \in Sides /\ "a" # "b"
  BY DEF Sides
<1>5. Kept(t, t1, g, l, r)
  <2>1. t1 = Replace(t, p, Pair(split, "b", LeafTree(t[p]), LeafTree(new)))
    BY <1>2, <1>3 DEF Pair
  <2>. QED BY <1>1, <1>2, <1>4, <2>1, KeptByWrapping
<1>6. Kept(t, t2, g, l, r)
  <2>1. t2 = Replace(t, p, Pair(split, "a", LeafTree(t[p]), LeafTree(new)))
    BY <1>2, <1>3, <1>4 DEF Pair
  <2>. QED BY <1>1, <1>2, <1>4, <2>1, KeptByWrapping
<1>. QED BY <1>3, <1>5, <1>6

LEMMA KeptBySplitLeaf ==
  ASSUME NEW A, NEW D, NEW t, Sound(t, A, D), NEW id \in LeafIds(t), NEW dir \in D, NEW app \in A,
         NEW g \in Nat, NEW l, NEW r
  PROVE  Kept(t, SplitLeaf(t, id, dir, app, g), g, l, r)
<1>1. PICK leaf, split : leaf = NewLeaf(g + 1, app) /\ split = NewSplit(g + 2, dir, HalfRatio)
  OBVIOUS
<1>2. /\ leaf \in Node(A, D) /\ leaf.kind = "leaf" /\ leaf.id = g + 1
      /\ split \in Node(A, D) /\ split.kind = "split" /\ split.id = g + 2
  <2>1. g + 1 \in Nat \ {0} /\ g + 2 \in Nat \ {0}
    OBVIOUS
  <2>. QED BY <1>1, <2>1, NewLeafNode, NewSplitNode
<1>3. leaf.id > g /\ split.id > g
  BY <1>2
<1>4. PICK p : p = Find(t, id)
  OBVIOUS
<1>5. Kept(t, Replace(t, p, Join(split, Subtree(t, p), LeafTree(leaf))), g, l, r)
  BY <1>2, <1>3, <1>4, KeptBeside
<1>6. SplitLeaf(t, id, dir, app, g) = Replace(t, p, Join(split, Subtree(t, p), LeafTree(leaf)))
  BY <1>1, <1>4 DEF SplitLeaf
<1>. QED BY <1>5, <1>6

LEMMA KeptByRemoveLeaf ==
  ASSUME NEW A, NEW D, NEW t, Sound(t, A, D), NEW id \in LeafIds(t), ~IsLeaf(t), NEW g, NEW l, NEW r
  PROVE  Kept(t, removeLeaf(t, id), g, l, r)
<1>0. Tree(t, A, D) /\ UniqueIds(t)
  BY DEF Sound
<1>1. PICK f \in DOMAIN t, s \in Sides :
        /\ f \in Paths /\ f \o <<s>> \in DOMAIN t /\ t[f \o <<s>>].id = id /\ t[f \o <<s>>].kind = "leaf"
        /\ f \o <<Other(s)>> \in DOMAIN t /\ Other(s) \in Sides /\ Other(s) # s /\ t[f].kind = "split"
        /\ removeLeaf(t, id) = Replace(t, f, Subtree(t, f \o <<Other(s)>>))
  BY <1>0, RemovePlace
<1>. QED BY <1>0, <1>1, KeptByRemoving

LEMMA KeptByMoveSplit ==
  ASSUME NEW A, NEW D, Dirs \subseteq D, NEW t, Sound(t, A, D),
         NEW from \in LeafIds(t), NEW target \in LeafIds(t), from # target, NEW zone, NEW g \in Nat, NEW r
  PROVE  Kept(t, MoveSplit(t, from, target, zone, g), g, from, r)
<1>1. Tree(t, A, D) /\ ~IsLeaf(t)
  BY TwoLeaves DEF Sound
<1>2. PICK d : d = removeLeaf(t, from)
  OBVIOUS
<1>3. Sound(d, A, D) /\ target \in LeafIds(d)
  BY <1>1, <1>2, CloseLeafSound
<1>4. Kept(t, d, g, from, r)
  BY <1>1, <1>2, KeptByRemoveLeaf
<1>5. PICK e : e = FindLeaf(t, from)
  OBVIOUS
<1>6. e \in Node(A, D) /\ e.kind = "leaf" /\ e.id = from
  BY <1>5, FindLeafApp
<1>7. PICK dir \in Dirs : dir = IF zone \in {"left", "right"} THEN "row" ELSE "col"
  BY DEF Dirs
<1>8. PICK split : split = NewSplit(g + 1, dir, HalfRatio)
  OBVIOUS
<1>9. split \in Node(A, D) /\ split.kind = "split" /\ split.id > g
  <2>1. g + 1 \in Nat \ {0} /\ dir \in D /\ g + 1 > g
    OBVIOUS
  <2>2. split \in Node(A, D) /\ split.kind = "split" /\ split.id = g + 1
    BY <1>8, <2>1, NewSplitNode
  <2>. QED BY <2>1, <2>2
<1>10. PICK p : p = Find(d, target)
  OBVIOUS
<1> DEFINE J1 == Join(split, LeafTree(e), Subtree(d, p))
           J2 == Join(split, Subtree(d, p), LeafTree(e))
<1>11. Kept(d, Replace(d, p, J2), g, from, r) /\ Kept(d, Replace(d, p, J1), g, from, r)
  BY <1>3, <1>6, <1>9, <1>10, KeptBeside
<1>12. MoveSplit(t, from, target, zone, g) = Replace(d, p, IF zone \in {"left", "top"} THEN J1 ELSE J2)
  BY <1>2, <1>5, <1>7, <1>8, <1>10 DEF MoveSplit
<1> HIDE DEF J1, J2
<1>13. PICK u : u = MoveSplit(t, from, target, zone, g)
  OBVIOUS
<1>14. Kept(d, u, g, from, r)
  BY <1>11, <1>12, <1>13
<1>. QED BY <1>4, <1>13, <1>14, KeptTwice

\* The generator may have counted on since g.
LEMMA KeptByGraftLeaf ==
  ASSUME NEW A, NEW D, NEW t, Sound(t, A, D), NEW leaf \in Node(A, D), leaf.kind = "leaf",
         NEW target, target # NoNode => target \in LeafIds(t), NEW dir \in D,
         NEW h \in Nat, NEW g \in Nat, h >= g, NEW r
  PROVE  Kept(t, GraftLeaf(t, leaf, target, dir, h), g, leaf.id, r)
<1>1. PICK split : split = NewSplit(h + 1, dir, HalfRatio)
  OBVIOUS
<1>2. split \in Node(A, D) /\ split.kind = "split" /\ split.id > g
  <2>1. h + 1 \in Nat \ {0} /\ h + 1 > g
    OBVIOUS
  <2>2. split \in Node(A, D) /\ split.kind = "split" /\ split.id = h + 1
    BY <1>1, <2>1, NewSplitNode
  <2>. QED BY <2>1, <2>2
<1>3. CASE leaf.id \in NodeIds(t)
  <2>1. GraftLeaf(t, leaf, target, dir, h) = t
    BY <1>3 DEF GraftLeaf
  <2>. QED BY <2>1, KeptSame
<1>4. CASE leaf.id \notin NodeIds(t) /\ target = NoNode
  <2>1. GraftLeaf(t, leaf, target, dir, h) = Join(split, t, LeafTree(leaf))
    BY <1>1, <1>4 DEF GraftLeaf
  <2>2. Tree(t, A, D)
    BY DEF Sound
  <2>. QED BY <1>2, <2>1, <2>2, KeptByJoining
<1>5. CASE leaf.id \notin NodeIds(t) /\ target # NoNode
  <2>1. PICK p : p = Find(t, target)
    OBVIOUS
  <2>2. GraftLeaf(t, leaf, target, dir, h) = Replace(t, p, Join(split, Subtree(t, p), LeafTree(leaf)))
    BY <1>1, <1>5, <2>1 DEF GraftLeaf
  <2>3. target \in LeafIds(t)
    BY <1>5
  <2>4. Kept(t, Replace(t, p, Join(split, Subtree(t, p), LeafTree(leaf))), g, leaf.id, r)
    BY <1>2, <2>1, <2>3, KeptBeside
  <2>. QED BY <2>2, <2>4
<1>. QED BY <1>3, <1>4, <1>5

LEMMA KeptBySetRatio ==
  ASSUME NEW A, NEW D, NEW t, Sound(t, A, D), NEW id, HasSplit(t, id), NEW ratio \in Nat, NEW g, NEW l
  PROVE  Kept(t, SetRatio(t, id, ratio), g, l, id)
<1>1. PICK p \in DOMAIN t : p = Find(t, id) /\ t[p].id = id
  BY FindNode DEF Sound, HasSplit
<1>2. t[p].kind = "split" /\ t[p] \in Node(A, D)
  BY <1>1 DEF HasSplit, Sound, Tree
<1>3. PICK n : n = [t[p] EXCEPT !.ratio = clampRatio(ratio)]
  OBVIOUS
<1>4. n.id = t[p].id /\ n.kind = t[p].kind /\ n.dir = t[p].dir
  BY <1>2, <1>3 DEF Node
<1>5. SetRatio(t, id, ratio) = [t EXCEPT ![p] = n]
  BY <1>1, <1>3 DEF SetRatio
<1>6. Tree(t, A, D)
  BY DEF Sound
<1>7. Kept(t, [t EXCEPT ![p] = n], g, l, id)
  BY <1>1, <1>4, <1>6, KeptByRelabelling
<1>. QED BY <1>5, <1>7

LEMMA KeptBySetLeafApp ==
  ASSUME NEW A, NEW D, NEW t, Sound(t, A, D), NEW id \in LeafIds(t), NEW app, NEW g, NEW l, NEW r
  PROVE  Kept(t, SetLeafApp(t, id, app), g, l, r)
<1>1. PICK p \in DOMAIN t : t[p].id = id /\ t[p].kind = "leaf"
  BY DEF LeafIds, LeafPaths
<1>2. Find(t, id) = p
  BY <1>1, Found DEF Sound
<1>3. t[p] \in Node(A, D) /\ Tree(t, A, D)
  BY DEF Sound, Tree
<1>4. PICK n : n = [t[p] EXCEPT !.app = app]
  OBVIOUS
<1>5. n.id = t[p].id /\ n.kind = t[p].kind /\ n.dir = t[p].dir
  BY <1>3, <1>4 DEF Node
<1>6. SetLeafApp(t, id, app) = [t EXCEPT ![p] = n]
  BY <1>2, <1>4 DEF SetLeafApp
<1>7. Kept(t, [t EXCEPT ![p] = n], g, l, r)
  BY <1>1, <1>3, <1>5, KeptByRelabelling
<1>. QED BY <1>6, <1>7

LEMMA KeptBySwapLeaves ==
  ASSUME NEW A, NEW D, NEW t, Sound(t, A, D), NEW a \in LeafIds(t), NEW b \in LeafIds(t), NEW g, NEW l, NEW r
  PROVE  Kept(t, SwapLeaves(t, a, b), g, l, r)
<1>1. PICK x \in A, y \in A : x = FindLeaf(t, a).app /\ y = FindLeaf(t, b).app
  BY FindLeafApp
<1>2. PICK u : u = SetLeafApp(t, a, y)
  OBVIOUS
<1>3. Sound(u, A, D) /\ LeafIds(u) = LeafIds(t)
  BY <1>2, SetLeafAppSound
<1>4. Kept(t, u, g, l, r)
  BY <1>2, KeptBySetLeafApp
<1>5. Kept(u, SetLeafApp(u, b, x), g, l, r)
  BY <1>3, KeptBySetLeafApp
<1>6. SwapLeaves(t, a, b) = SetLeafApp(u, b, x)
  BY <1>1, <1>2 DEF SwapLeaves
<1>. QED BY <1>4, <1>5, <1>6, KeptTwice
=============================================================================
