----------------------------- MODULE SplitTree -----------------------------
(***************************************************************************)
(* The split tree of pkg/wmcore/tree.go: leaves hold an application slot,  *)
(* splits carry a direction and a ratio and have two children, A and B.    *)
(*                                                                         *)
(* A tree is a function from the paths of its nodes to the nodes: the path *)
(* of the root is << >>, the children of the node at p are at p \o <<"a">> *)
(* and p \o <<"b">>.  Node ids are part of the nodes, as in the code, so   *)
(* that a tree CAN hold the same id twice: that no operation produces one  *)
(* is a property, not a consequence of the representation.                 *)
(*                                                                         *)
(* Every operator is total.  The code's mutations return (root, err) with  *)
(* the root untouched on error; the conditions under which they succeed    *)
(* are the guards of the actions of Desktop.                               *)
(*                                                                         *)
(* Here and in the other modules an operator Mut... is a faulty variant of *)
(* the one after it, there to be told apart by the properties; nothing     *)
(* uses it.                                                                *)
(***************************************************************************)
EXTENDS Naturals, Sequences, FiniteSets, SequencesExt

NoNode == 0         \* the empty NodeID; the generator mints n1, n2, ...: 1, 2, ...
MinRatio == 10      \* ratios are in percent: the code clamps to [0.1, 0.9]
MaxRatio == 90
HalfRatio == 50

Dirs == {"row", "col"}
Sides == {"a", "b"}

clampRatio(r) == IF r < MinRatio THEN MinRatio ELSE IF r > MaxRatio THEN MaxRatio ELSE r

\* One record shape for both kinds, with the zero values of the Go struct in
\* the fields the kind does not use.
NewLeaf(id, app) == [id |-> id, kind |-> "leaf", app |-> app, dir |-> "", ratio |-> 0]
NewSplit(id, dir, ratio) ==
    [id |-> id, kind |-> "split", app |-> "", dir |-> dir, ratio |-> clampRatio(ratio)]

-----------------------------------------------------------------------------
(* Building and taking trees apart.                                        *)

LeafTree(leaf) == [p \in {<<>>} |-> leaf]

\* The subtree rooted at path p of t.
Subtree(t, p) ==
    [q \in {SubSeq(x, Len(p) + 1, Len(x)) : x \in {y \in DOMAIN t : IsPrefix(p, y)}}
        |-> t[p \o q]]

\* A split node over the trees ta and tb.
Join(split, ta, tb) ==
    [p \in {<<>>} \cup {<<"a">> \o x : x \in DOMAIN ta} \cup {<<"b">> \o x : x \in DOMAIN tb}
        |-> IF p = <<>> THEN split
            ELSE IF Head(p) = "a" THEN ta[Tail(p)] ELSE tb[Tail(p)]]

\* t with the subtree at path p replaced by s: what update() builds.
Replace(t, p, s) ==
    [x \in {y \in DOMAIN t : ~IsPrefix(p, y)} \cup {p \o y : y \in DOMAIN s}
        |-> IF IsPrefix(p, x) THEN s[SubSeq(x, Len(p) + 1, Len(x))] ELSE t[x]]

-----------------------------------------------------------------------------
(* Traversal.                                                              *)

\* p is visited before q by walk(): parents first, A before B.
LeftOf(p, q) ==
    \E i \in 1..Len(p) : /\ i <= Len(q)
                         /\ SubSeq(p, 1, i - 1) = SubSeq(q, 1, i - 1)
                         /\ p[i] = "a" /\ q[i] = "b"
Before(p, q) == IsStrictPrefix(p, q) \/ LeftOf(p, q)

NodeIds(t) == {t[p].id : p \in DOMAIN t}
LeafPaths(t) == {p \in DOMAIN t : t[p].kind = "leaf"}
LeafIds(t) == {t[p].id : p \in LeafPaths(t)}

\* Leaves(): the leaves in traversal order.
Leaves(t) ==
    LET pos(p) == Cardinality({q \in LeafPaths(t) : Before(q, p)}) + 1
    IN [i \in 1..Cardinality(LeafPaths(t)) |-> t[CHOOSE p \in LeafPaths(t) : pos(p) = i]]
CountLeaves(t) == Cardinality(LeafPaths(t))

\* Find() returns the first node with the id in traversal order.
Find(t, id) ==
    CHOOSE p \in DOMAIN t :
        /\ t[p].id = id
        /\ \A q \in DOMAIN t : t[q].id = id => ~Before(q, p)
HasLeaf(t, id) == id \in NodeIds(t) /\ t[Find(t, id)].kind = "leaf"
HasSplit(t, id) == id \in NodeIds(t) /\ t[Find(t, id)].kind = "split"
FindLeaf(t, id) == t[Find(t, id)]
IsLeaf(t) == t[<<>>].kind = "leaf"

-----------------------------------------------------------------------------
(* Validate(): ids are non-empty and unique, leaves have no children,      *)
(* splits have two, a valid direction and a ratio within bounds.           *)
ValidShape(t) ==
    /\ <<>> \in DOMAIN t
    /\ \A p \in DOMAIN t : p # <<>> => Front(p) \in DOMAIN t /\ t[Front(p)].kind = "split"
    /\ \A p \in DOMAIN t : t[p].kind = "split" => \A s \in Sides : Append(p, s) \in DOMAIN t
UniqueIds(t) == \A p, q \in DOMAIN t : t[p].id = t[q].id => p = q
ValidSplits(t) ==
    \A p \in DOMAIN t : t[p].kind = "split" =>
        /\ t[p].dir \in Dirs
        /\ t[p].ratio \in MinRatio..MaxRatio
Validate(t) == ValidShape(t) /\ UniqueIds(t) /\ ValidSplits(t)

-----------------------------------------------------------------------------
(* Mutations.  g is the id generator's counter (IDGen.n); an operation     *)
(* that mints ids mints g+1, g+2, ... in the order the code calls Next().  *)

\* CloneFresh(): a copy with fresh ids, numbered in traversal order.
CloneFresh(t, g) ==
    [p \in DOMAIN t |->
        [t[p] EXCEPT !.id = g + 1 + Cardinality({q \in DOMAIN t : Before(q, p)})]]

Sibling(p) == [p EXCEPT ![Len(p)] = IF @ = "a" THEN "b" ELSE "a"]

\* removeLeaf(): the sibling takes the place of the parent; the tree is
\* returned unchanged when id is the root.
MutRemoveLeaf(t, id) ==   \* the parent node stays, with the sibling's children
    LET p == Find(t, id)
        s == Subtree(t, Sibling(p))
    IN IF p = <<>> THEN t ELSE Replace(t, Front(p), [s EXCEPT ![<<>>].dir = t[Front(p)].dir])
removeLeaf(t, id) ==
    LET p == Find(t, id)
    IN IF p = <<>> THEN t ELSE Replace(t, Front(p), Subtree(t, Sibling(p)))

\* The leaf keeps its place on side A, the new leaf (minted first) is side B.
MutSplitLeaf(t, id, dir, app, g) ==
    LET p == Find(t, id)
    IN Replace(t, p, Join(NewSplit(g + 2, dir, HalfRatio),
                          LeafTree(NewLeaf(g + 1, app)), Subtree(t, p)))
SplitLeaf(t, id, dir, app, g) ==
    LET p == Find(t, id)
    IN Replace(t, p, Join(NewSplit(g + 2, dir, HalfRatio),
                          Subtree(t, p), LeafTree(NewLeaf(g + 1, app))))

CloseLeaf(t, id) == removeLeaf(t, id)

SetRatio(t, id, ratio) == [t EXCEPT ![Find(t, id)].ratio = clampRatio(ratio)]

SetLeafApp(t, id, app) == [t EXCEPT ![Find(t, id)].app = app]

SwapLeaves(t, a, b) ==
    LET appA == FindLeaf(t, a).app
        appB == FindLeaf(t, b).app
    IN SetLeafApp(SetLeafApp(t, a, appB), b, appA)

\* The source is detached first, then docked on the given side of target.
MutMoveSplit(t, from, target, zone, g) ==   \* "top" docks below
    LET src      == LeafTree(FindLeaf(t, from))
        detached == removeLeaf(t, from)
        p        == Find(detached, target)
        split    == NewSplit(g + 1, IF zone \in {"left", "right"} THEN "row" ELSE "col", HalfRatio)
        dst      == Subtree(detached, p)
    IN Replace(detached, p, IF zone = "left" THEN Join(split, src, dst) ELSE Join(split, dst, src))
MoveSplit(t, from, target, zone, g) ==
    LET src      == LeafTree(FindLeaf(t, from))
        detached == removeLeaf(t, from)
        p        == Find(detached, target)
        split    == NewSplit(g + 1, IF zone \in {"left", "right"} THEN "row" ELSE "col", HalfRatio)
        dst      == Subtree(detached, p)
    IN Replace(detached, p, IF zone \in {"left", "top"} THEN Join(split, src, dst)
                                                        ELSE Join(split, dst, src))

\* An empty target wraps the whole root.  A leaf whose id is already present
\* is refused: the root is returned as it was.
GraftLeaf(t, leaf, target, dir, g) ==
    LET split == NewSplit(g + 1, dir, HalfRatio)
        p     == Find(t, target)
    IN IF leaf.id \in NodeIds(t) THEN t
       ELSE IF target = NoNode THEN Join(split, t, LeafTree(leaf))
       ELSE Replace(t, p, Join(split, Subtree(t, p), LeafTree(leaf)))
=============================================================================
