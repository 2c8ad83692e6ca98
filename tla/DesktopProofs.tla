--------------------------- MODULE DesktopProofs ---------------------------
(***************************************************************************)
(* Proofs about Desktop for every set of applications, directions and      *)
(* ratios an op may name, every bound, and trees of every size: whatever   *)
(* ops ran, each tree is sound, no node id is at two places, and the ids   *)
(* to come are fresh.  DesktopValid follows where ops name directions that *)
(* exist (TreesValid of Desktop fails where they do not).  Read in         *)
(* traversal order, the trees are the rows of LeafSlots.  Dividers that    *)
(* survive an op keep their directions and the leaves on their sides.      *)
(***************************************************************************)
EXTENDS Desktop, SplitTreeProofs

\* The directions a split can have: those the code writes, and the ops'.
AllDirs == Dirs \cup OpDirs
Roots == {t \in UNION {[P -> Node(Apps, AllDirs)] : P \in SUBSET Paths} : Sound(t, Apps, AllDirs)}
WsNames == [base : Names \cup {"ws-"}, n : Nat, primes : Nat]
Workspaces == [id : AllWs, name : WsNames, root : Roots]

(***************************************************************************)
(* The inductive invariant.  Validate() alone is not inductive: that an op *)
(* leaves a tree valid needs the ids of all trees below the generator, and *)
(* a leaf that moves between workspaces needs their ids apart.             *)
(***************************************************************************)
Typed == workspaces \in Seq(Workspaces) /\ workspaces # <<>> /\ gen \in AllIds /\ wsSeq \in AllWs
CurrentExists == \E i \in Indices : workspaces[i].id = current
Minted == \A i \in Indices : workspaces[i].id <= wsSeq /\ NodeIds(Root(i)) \subseteq 1..gen
Apart ==
  \A i, j \in Indices : i # j =>
    workspaces[i].id # workspaces[j].id /\ NodeIds(Root(i)) \cap NodeIds(Root(j)) = {}
IInv == Typed /\ CurrentExists /\ Minted /\ Apart
-----------------------------------------------------------------------------
LEMMA RootsAre == \A t : t \in Roots <=> Sound(t, Apps, AllDirs)
<1> SUFFICES ASSUME NEW t, Sound(t, Apps, AllDirs) PROVE t \in Roots
  BY DEF Roots
<1>1. t \in [DOMAIN t -> Node(Apps, AllDirs)]
  BY DEF Sound, Tree, IsFcn
<1>2. DOMAIN t \in SUBSET Paths
  BY DEF Sound, Tree, Shape
<1>. QED BY <1>1, <1>2 DEF Roots

\* What the invariant says of one workspace.
LEMMA OneWorkspace ==
  ASSUME IInv, NEW i \in Indices
  PROVE  /\ i \in 1..Len(workspaces) /\ workspaces[i] \in Workspaces
         /\ workspaces[i].id \in AllWs /\ workspaces[i].name \in WsNames
         /\ Sound(Root(i), Apps, AllDirs) /\ Root(i) \in Roots /\ NodeIds(Root(i)) \subseteq 1..gen
<1>1. i \in 1..Len(workspaces) /\ workspaces[i] \in Workspaces
  BY DEF IInv, Typed, Indices
<1>2. workspaces[i].id \in AllWs /\ workspaces[i].name \in WsNames /\ Root(i) \in Roots
  BY <1>1 DEF Workspaces, Root
<1>. QED BY <1>1, <1>2, RootsAre DEF IInv, Minted

LEMMA SequenceOfWorkspaces ==
  ASSUME IInv
  PROVE  /\ workspaces \in Seq(Workspaces) /\ Indices = 1..Len(workspaces)
         /\ Len(workspaces) \in Nat /\ Len(workspaces) >= 1 /\ gen \in Nat /\ wsSeq \in Nat /\ 1 \in Indices
<1>1. workspaces \in Seq(Workspaces) /\ workspaces # <<>>
  BY DEF IInv, Typed
<1>2. Indices = 1..Len(workspaces) /\ Len(workspaces) \in Nat \ {0}
  BY <1>1, EmptySeq DEF Indices
<1>3. gen \in Nat /\ wsSeq \in Nat
  BY DEF IInv, Typed, AllIds, AllWs
<1>. QED BY <1>1, <1>2, <1>3

\* FirstIndex gives an index of the set, or 0 for none.
LEMMA FirstIndexIn ==
  ASSUME IInv, NEW S \in SUBSET Indices
  PROVE  FirstIndex(S) = 0 \/ FirstIndex(S) \in S
<1>1. S \in SUBSET Nat
  BY SequenceOfWorkspaces
<1>2. CASE S = {}
  BY <1>2 DEF FirstIndex
<1>3. CASE S # {}
  <2>1. \E i \in S : \A j \in S : i <= j
    BY <1>1, <1>3, LeastNat
  <2>2. (CHOOSE i \in S : \A j \in S : i <= j) \in S
    BY <2>1
  <2>. QED BY <1>3, <2>2 DEF FirstIndex
<1>. QED BY <1>2, <1>3

LEMMA WorkspaceFound ==
  ASSUME IInv, NEW ws, WorkspaceByID(ws) # 0
  PROVE  WorkspaceByID(ws) \in Indices /\ workspaces[WorkspaceByID(ws)].id = ws
<1> DEFINE S == {i \in Indices : workspaces[i].id = ws}
<1>1. S \in SUBSET Indices
  OBVIOUS
<1>2. WorkspaceByID(ws) = FirstIndex(S)
  BY DEF WorkspaceByID
<1> HIDE DEF S
<1>3. WorkspaceByID(ws) \in S
  BY <1>1, <1>2, FirstIndexIn
<1>. QED BY <1>3 DEF S

LEMMA LeafWorkspaceFound ==
  ASSUME IInv, NEW id, FindLeafWorkspace(id) # 0
  PROVE  FindLeafWorkspace(id) \in Indices /\ HasLeaf(Root(FindLeafWorkspace(id)), id)
<1> DEFINE S == {i \in Indices : HasLeaf(workspaces[i].root, id)}
<1>1. S \in SUBSET Indices
  OBVIOUS
<1>2. FindLeafWorkspace(id) = FirstIndex(S)
  BY DEF FindLeafWorkspace
<1> HIDE DEF S
<1>3. FindLeafWorkspace(id) \in S
  BY <1>1, <1>2, FirstIndexIn
<1>. QED BY <1>3 DEF S, Root

\* An op addressed to a node works on a workspace of the desktop, or on none.
LEMMA WsForFound ==
  ASSUME IInv, NEW pin, NEW id, WsFor(pin, id) # 0
  PROVE  WsFor(pin, id) \in Indices
<1> DEFINE S == {i \in Indices : id \in NodeIds(workspaces[i].root)}
<1>1. FirstIndex(S) = 0 \/ FirstIndex(S) \in Indices
  BY FirstIndexIn
<1>2. WsFor(pin, id) \in {WorkspaceByID(pin), FindLeafWorkspace(id), FirstIndex(S)}
  BY DEF WsFor
<1> HIDE DEF S
<1>. QED BY <1>1, <1>2, WorkspaceFound, LeafWorkspaceFound
-----------------------------------------------------------------------------
\* Ops that keep the workspaces and change trees.
LEMMA Retreed ==
  ASSUME IInv, workspaces' \in Seq(Workspaces), Len(workspaces') = Len(workspaces),
         \A k \in 1..Len(workspaces) :
            workspaces'[k].id = workspaces[k].id /\ NodeIds(workspaces'[k].root) \subseteq 1..gen',
         \A j, k \in 1..Len(workspaces) :
            j # k => NodeIds(workspaces'[j].root) \cap NodeIds(workspaces'[k].root) = {},
         gen' \in AllIds, UNCHANGED <<current, wsSeq>>
  PROVE  IInv'
<1>1. Indices = 1..Len(workspaces) /\ Indices' = 1..Len(workspaces) /\ Len(workspaces) >= 1 /\ Len(workspaces) \in Nat
  <2>1. DOMAIN workspaces' = 1..Len(workspaces')
    BY LenProperties
  <2>. QED BY <2>1, SequenceOfWorkspaces DEF Indices
<1>2. Typed'
  <2>1. workspaces' # <<>>
    BY <1>1
  <2>. QED BY <2>1 DEF Typed, IInv, AllIds, AllWs, Workspaces, Roots, WsNames, AllDirs
<1>3. CurrentExists'
  BY <1>1 DEF IInv, CurrentExists
<1>4. Minted'
  BY <1>1 DEF IInv, Minted, Root
<1>5. Apart'
  <2>1. SUFFICES ASSUME NEW i \in 1..Len(workspaces), NEW j \in 1..Len(workspaces), i # j
                 PROVE  /\ workspaces'[i].id # workspaces'[j].id
                        /\ NodeIds(workspaces'[i].root) \cap NodeIds(workspaces'[j].root) = {}
    BY <1>1 DEF Apart, Root
  <2>2. workspaces[i].id # workspaces[j].id
    BY <1>1, <2>1 DEF IInv, Apart
  <2>. QED BY <2>1, <2>2
<1>. QED BY <1>2, <1>3, <1>4, <1>5 DEF IInv

\* One tree is replaced by a sound one whose ids it had or are new.
LEMMA OneTree ==
  ASSUME IInv, NEW i \in Indices, NEW r, Sound(r, Apps, AllDirs), SetRoot(i, r),
         gen' \in AllIds, gen <= gen',
         NodeIds(r) \subseteq NodeIds(Root(i)) \cup (gen + 1)..gen',
         UNCHANGED <<current, wsSeq>>
  PROVE  IInv'
<1>1. /\ workspaces \in Seq(Workspaces) /\ Indices = 1..Len(workspaces) /\ gen \in Nat /\ gen' \in Nat
      /\ i \in 1..Len(workspaces) /\ workspaces[i] \in Workspaces
  BY SequenceOfWorkspaces, OneWorkspace DEF AllIds
<1>2. PICK w : w = [workspaces[i] EXCEPT !.root = r]
  OBVIOUS
<1>3. w \in Workspaces /\ w.id = workspaces[i].id /\ w.root = r
  <2>1. r \in Roots
    BY RootsAre
  <2>. QED BY <1>1, <1>2, <2>1 DEF Workspaces
<1>4. workspaces' = [workspaces EXCEPT ![i] = w]
  BY <1>2 DEF SetRoot
<1>5. /\ workspaces' \in Seq(Workspaces) /\ Len(workspaces') = Len(workspaces)
      /\ \A k \in 1..Len(workspaces) : workspaces'[k] = IF k = i THEN w ELSE workspaces[k]
  BY <1>1, <1>3, <1>4, ExceptSeq
<1>6. \A k \in 1..Len(workspaces) : NodeIds(Root(k)) \subseteq 1..gen
  BY <1>1, OneWorkspace
<1>7. NodeIds(r) \subseteq 1..gen'
  BY <1>1, <1>6
<1>8. ASSUME NEW k \in 1..Len(workspaces)
      PROVE  workspaces'[k].id = workspaces[k].id /\ NodeIds(workspaces'[k].root) \subseteq 1..gen'
  <2>1. CASE k = i
    BY <1>3, <1>5, <1>7, <2>1
  <2>2. CASE k # i
    <3>1. NodeIds(workspaces[k].root) \subseteq 1..gen
      BY <1>6 DEF Root
    <3>. QED BY <1>1, <1>5, <2>2, <3>1
  <2>. QED BY <2>1, <2>2
<1>9. \A k \in 1..Len(workspaces) : k # i => NodeIds(r) \cap NodeIds(workspaces[k].root) = {}
  <2> SUFFICES ASSUME NEW k \in 1..Len(workspaces), k # i
               PROVE  NodeIds(r) \cap NodeIds(workspaces[k].root) = {}
    OBVIOUS
  <2>1. NodeIds(Root(i)) \cap NodeIds(Root(k)) = {} /\ NodeIds(Root(k)) \subseteq 1..gen
    BY <1>1, <1>6 DEF IInv, Apart
  <2>2. (1..gen) \cap ((gen + 1)..gen') = {}
    BY <1>1
  <2>. QED BY <2>1, <2>2 DEF Root
<1>10. ASSUME NEW j \in 1..Len(workspaces), NEW k \in 1..Len(workspaces), j # k
       PROVE  NodeIds(workspaces'[j].root) \cap NodeIds(workspaces'[k].root) = {}
  <2>1. CASE j = i
    BY <1>3, <1>5, <1>9, <1>10, <2>1
  <2>2. CASE k = i
    BY <1>3, <1>5, <1>9, <1>10, <2>2
  <2>3. CASE j # i /\ k # i
    BY <1>1, <1>5, <1>10, <2>3 DEF IInv, Apart, Root
  <2>. QED BY <2>1, <2>2, <2>3
<1>. QED BY <1>5, <1>8, <1>10, Retreed
-----------------------------------------------------------------------------
LEMMA SplitLeafKeeps ==
  ASSUME IInv, NEW i \in Indices, NEW id, NEW dir \in OpDirs, NEW app \in Apps, OpSplitLeaf(i, id, dir, app)
  PROVE  IInv'
<1>1. Sound(Root(i), Apps, AllDirs) /\ NodeIds(Root(i)) \subseteq 1..gen /\ gen \in Nat
  BY OneWorkspace, SequenceOfWorkspaces
<1>2. id \in NodeIds(Root(i))
  BY DEF OpSplitLeaf, HasLeaf
<1>3. PICK r : r = SplitLeaf(Root(i), id, dir, app, gen)
  OBVIOUS
<1>4. Sound(r, Apps, AllDirs) /\ NodeIds(r) = NodeIds(Root(i)) \cup {gen + 1, gen + 2}
  <2>1. dir \in AllDirs
    BY DEF AllDirs
  <2>. QED BY <1>1, <1>2, <1>3, <2>1, SplitLeafSound
<1>5. /\ SetRoot(i, r) /\ gen' = gen + 2 /\ gen + 2 <= MaxId /\ UNCHANGED <<current, wsSeq>>
  BY <1>3 DEF OpSplitLeaf
<1>6. gen' \in AllIds /\ gen <= gen' /\ {gen + 1, gen + 2} \subseteq (gen + 1)..gen'
  BY <1>1, <1>5, BoundsAssumption DEF AllIds
<1>7. NodeIds(r) \subseteq NodeIds(Root(i)) \cup (gen + 1)..gen'
  BY <1>4, <1>6
<1>. QED BY <1>4, <1>5, <1>6, <1>7, OneTree

\* Ops that mint no id.
LEMMA SameIds ==
  ASSUME IInv, NEW i \in Indices, NEW r, Sound(r, Apps, AllDirs), NodeIds(r) \subseteq NodeIds(Root(i)),
         SetRoot(i, r), UNCHANGED <<current, gen, wsSeq>>
  PROVE  IInv'
<1>1. gen' \in AllIds /\ gen <= gen'
  BY SequenceOfWorkspaces DEF IInv, Typed
<1>2. NodeIds(r) \subseteq NodeIds(Root(i)) \cup (gen + 1)..gen'
  OBVIOUS
<1>. QED BY <1>1, <1>2, OneTree

LEMMA CloseLeafKeeps ==
  ASSUME IInv, NEW i \in Indices, NEW id, OpCloseLeaf(i, id)
  PROVE  IInv'
<1>1. Sound(Root(i), Apps, AllDirs)
  BY OneWorkspace
<1>2. id \in LeafIds(Root(i)) /\ ~IsLeaf(Root(i))
  BY <1>1, HasLeafIs DEF OpCloseLeaf, Sound
<1>3. PICK r : r = removeLeaf(Root(i), id)
  OBVIOUS
<1>4. Sound(r, Apps, AllDirs) /\ NodeIds(r) \subseteq NodeIds(Root(i))
  BY <1>1, <1>2, <1>3, CloseLeafSound
<1>5. SetRoot(i, r) /\ UNCHANGED <<current, gen, wsSeq>>
  BY <1>3 DEF OpCloseLeaf, CloseLeaf
<1>. QED BY <1>4, <1>5, SameIds

LEMMA SetRatioKeeps ==
  ASSUME IInv, NEW i \in Indices, NEW id, NEW ratio \in OpRatios, OpSetRatio(i, id, ratio)
  PROVE  IInv'
<1>1. Sound(Root(i), Apps, AllDirs) /\ HasSplit(Root(i), id) /\ ratio \in Nat
  BY OneWorkspace, BoundsAssumption DEF OpSetRatio
<1>2. PICK r : r = SetRatio(Root(i), id, ratio)
  OBVIOUS
<1>3. Sound(r, Apps, AllDirs) /\ NodeIds(r) = NodeIds(Root(i))
  BY <1>1, <1>2, SetRatioSound
<1>4. SetRoot(i, r) /\ UNCHANGED <<current, gen, wsSeq>>
  BY <1>2 DEF OpSetRatio
<1>. QED BY <1>3, <1>4, SameIds

LEMMA SetLeafAppKeeps ==
  ASSUME IInv, NEW i \in Indices, NEW id, NEW app \in Apps, OpSetLeafApp(i, id, app)
  PROVE  IInv'
<1>1. Sound(Root(i), Apps, AllDirs)
  BY OneWorkspace
<1>2. id \in LeafIds(Root(i))
  BY <1>1, HasLeafIs DEF OpSetLeafApp, Sound
<1>3. PICK r : r = SetLeafApp(Root(i), id, app)
  OBVIOUS
<1>4. Sound(r, Apps, AllDirs) /\ NodeIds(r) = NodeIds(Root(i))
  BY <1>1, <1>2, <1>3, SetLeafAppSound
<1>5. SetRoot(i, r) /\ UNCHANGED <<current, gen, wsSeq>>
  BY <1>3 DEF OpSetLeafApp
<1>. QED BY <1>4, <1>5, SameIds

LEMMA SwapLeavesKeeps ==
  ASSUME IInv, NEW i \in Indices, NEW id, NEW target, OpSwapLeaves(i, id, target)
  PROVE  IInv'
<1>1. Sound(Root(i), Apps, AllDirs)
  BY OneWorkspace
<1>2. id \in LeafIds(Root(i)) /\ target \in LeafIds(Root(i))
  BY <1>1, HasLeafIs DEF OpSwapLeaves, Sound
<1>3. PICK r : r = SwapLeaves(Root(i), id, target)
  OBVIOUS
<1>4. Sound(r, Apps, AllDirs) /\ NodeIds(r) = NodeIds(Root(i))
  BY <1>1, <1>2, <1>3, SwapLeavesSound
<1>5. SetRoot(i, r) /\ UNCHANGED <<current, gen, wsSeq>>
  BY <1>3 DEF OpSwapLeaves
<1>. QED BY <1>4, <1>5, SameIds

LEMMA MoveSplitKeeps ==
  ASSUME IInv, NEW i \in Indices, NEW id, NEW target, NEW zone, OpMoveSplit(i, id, target, zone)
  PROVE  IInv'
<1>1. Sound(Root(i), Apps, AllDirs) /\ NodeIds(Root(i)) \subseteq 1..gen /\ gen \in Nat
  BY OneWorkspace, SequenceOfWorkspaces
<1>2. id \in LeafIds(Root(i)) /\ target \in LeafIds(Root(i)) /\ id # target
  BY <1>1, HasLeafIs DEF OpMoveSplit, Sound
<1>3. PICK r : r = MoveSplit(Root(i), id, target, zone, gen)
  OBVIOUS
<1>4. Sound(r, Apps, AllDirs) /\ NodeIds(r) \subseteq NodeIds(Root(i)) \cup {gen + 1}
  <2>1. Dirs \subseteq AllDirs
    BY DEF AllDirs
  <2>. QED BY <1>1, <1>2, <1>3, <2>1, MoveSplitSound
<1>5. /\ SetRoot(i, r) /\ gen' = gen + 1 /\ gen + 1 <= MaxId /\ UNCHANGED <<current, wsSeq>>
  BY <1>3 DEF OpMoveSplit
<1>6. gen' \in AllIds /\ gen <= gen' /\ gen + 1 \in (gen + 1)..gen'
  BY <1>1, <1>5, BoundsAssumption DEF AllIds
<1>7. NodeIds(r) \subseteq NodeIds(Root(i)) \cup (gen + 1)..gen'
  BY <1>4, <1>6
<1>. QED BY <1>4, <1>5, <1>6, <1>7, OneTree

\* A leaf that changes workspaces: its id leaves one tree with the leaf, and
\* no other tree had it.
LEMMA MoveLeafKeeps ==
  ASSUME IInv, NEW id, NEW ws, NEW target \in {NoNode} \cup AllIds, NEW opDir \in OpDirs,
         OpMoveLeaf(id, ws, target, opDir)
  PROVE  IInv'
<1>1. PICK src, dst : src = FindLeafWorkspace(id) /\ dst = WorkspaceByID(ws)
  OBVIOUS
<1>2. src # 0 /\ dst # 0 /\ src # dst /\ (target # NoNode => HasLeaf(Root(dst), target))
  BY <1>1 DEF OpMoveLeaf
<1>3. src \in Indices /\ dst \in Indices /\ HasLeaf(Root(src), id)
  BY <1>1, <1>2, LeafWorkspaceFound, WorkspaceFound
<1>4. /\ workspaces \in Seq(Workspaces) /\ Indices = 1..Len(workspaces) /\ gen \in Nat
      /\ workspaces[src] \in Workspaces /\ workspaces[dst] \in Workspaces
  BY <1>3, SequenceOfWorkspaces, OneWorkspace
<1>5. /\ Sound(Root(src), Apps, AllDirs) /\ NodeIds(Root(src)) \subseteq 1..gen
      /\ Sound(Root(dst), Apps, AllDirs) /\ NodeIds(Root(dst)) \subseteq 1..gen
  BY <1>3, OneWorkspace
<1>6. id \in LeafIds(Root(src)) /\ id \in NodeIds(Root(src))
  BY <1>3, <1>5, HasLeafIs, LeafIdsAreIds DEF Sound
<1>7. PICK moved : moved = FindLeaf(Root(src), id)
  OBVIOUS
<1>8. moved \in Node(Apps, AllDirs) /\ moved.kind = "leaf" /\ moved.id = id
  BY <1>5, <1>6, <1>7, FindLeafApp
<1>8a. PICK only \in BOOLEAN : only = IsLeaf(Root(src))
  BY DEF IsLeaf
<1>9. PICK g : g = IF only THEN gen + 1 ELSE gen
  OBVIOUS
<1>10. PICK left, dir, graft :
         /\ left = IF only THEN LeafTree(NewLeaf(gen + 1, NoApp)) ELSE removeLeaf(Root(src), id)
         /\ dir = IF opDir = NoDir THEN "row" ELSE opDir
         /\ graft = GraftLeaf(Root(dst), moved, target, dir, g)
  OBVIOUS
<1>11. /\ g + 1 <= MaxId
       /\ workspaces' = [workspaces EXCEPT ![src].root = left, ![dst].root = graft]
       /\ gen' = IF graft = Root(dst) THEN g ELSE g + 1
       /\ UNCHANGED <<current, wsSeq>>
  BY <1>1, <1>7, <1>8a, <1>9, <1>10 DEF OpMoveLeaf
<1>12. g \in Nat /\ gen <= g /\ g <= gen' /\ gen' \in AllIds /\ gen' \in Nat
  <2>1. g \in Nat /\ gen <= g
    BY <1>4, <1>9
  <2>2. gen >= 1
    BY DEF IInv, Typed, AllIds
  <2>. QED BY <1>4, <1>11, <2>1, <2>2, BoundsAssumption DEF AllIds
\* What is left behind.
<1>13. Sound(left, Apps, AllDirs) /\ NodeIds(left) \subseteq (NodeIds(Root(src)) \ {id}) \cup (gen + 1)..g
  <2>1. CASE only
    <3>1. PICK leaf : leaf = NewLeaf(gen + 1, NoApp)
      OBVIOUS
    <3>2. leaf \in Node(Apps, AllDirs) /\ leaf.kind = "leaf" /\ leaf.id = gen + 1
      <4>1. gen + 1 \in Nat \ {0} /\ NoApp \in Apps
        BY <1>4, BoundsAssumption
      <4>. QED BY <3>1, <4>1, NewLeafNode
    <3>3. left = LeafTree(leaf)
      BY <1>10, <2>1, <3>1
    <3>4. Sound(left, Apps, AllDirs) /\ NodeIds(left) = {gen + 1}
      BY <3>2, <3>3, LeafTreeTree DEF Sound
    <3>5. gen + 1 \in (gen + 1)..g
      BY <1>4, <1>9, <2>1
    <3>. QED BY <3>4, <3>5
  <2>2. CASE ~only
    <3>1. left = removeLeaf(Root(src), id) /\ ~IsLeaf(Root(src))
      BY <1>8a, <1>10, <2>2
    <3>. QED BY <1>5, <1>6, <3>1, CloseLeafSound
  <2>. QED BY <2>1, <2>2
\* What is grafted.
<1>14. /\ Sound(graft, Apps, AllDirs)
       /\ graft = Root(dst) \/ NodeIds(graft) = NodeIds(Root(dst)) \cup {id, g + 1}
  <2>1. dir \in AllDirs
    BY <1>10 DEF AllDirs, Dirs
  <2>2. NodeIds(Root(dst)) \subseteq 1..g /\ moved.id \in 1..g
    BY <1>4, <1>5, <1>6, <1>8, <1>12
  <2>3. target # NoNode => target \in NodeIds(Root(dst))
    BY <1>2 DEF HasLeaf
  <2>4. PICK t : t = Root(dst)
    OBVIOUS
  <2>5. Sound(GraftLeaf(t, moved, target, dir, g), Apps, AllDirs)
        /\ (GraftLeaf(t, moved, target, dir, g) = t
            \/ NodeIds(GraftLeaf(t, moved, target, dir, g)) = NodeIds(t) \cup {moved.id, g + 1})
    BY <1>5, <1>8, <1>12, <2>1, <2>2, <2>3, <2>4, GraftLeafSound, SMTT(30)
  <2>. QED BY <1>8, <1>10, <2>4, <2>5
<1>15. NodeIds(graft) \subseteq NodeIds(Root(dst)) \cup {id} \cup (g + 1)..gen'
  <2>1. CASE graft = Root(dst)
    BY <2>1
  <2>2. CASE graft # Root(dst)
    <3>1. gen' = g + 1 /\ g + 1 \in (g + 1)..gen'
      BY <1>11, <1>12, <2>2
    <3>. QED BY <1>14, <2>2, <3>1
  <2>. QED BY <2>1, <2>2
\* The new sequence of workspaces.
<1>16. PICK w1, w2 : w1 = [workspaces[src] EXCEPT !.root = left] /\ w2 = [workspaces[dst] EXCEPT !.root = graft]
  OBVIOUS
<1>17. /\ w1 \in Workspaces /\ w1.id = workspaces[src].id /\ w1.root = left
       /\ w2 \in Workspaces /\ w2.id = workspaces[dst].id /\ w2.root = graft
  <2>1. left \in Roots /\ graft \in Roots
    BY <1>13, <1>14, RootsAre
  <2>. QED BY <1>4, <1>16, <2>1 DEF Workspaces
<1>18. PICK mid : mid = [workspaces EXCEPT ![src] = w1]
  OBVIOUS
<1>19. /\ mid \in Seq(Workspaces) /\ Len(mid) = Len(workspaces)
       /\ \A k \in 1..Len(workspaces) : mid[k] = IF k = src THEN w1 ELSE workspaces[k]
  BY <1>3, <1>4, <1>17, <1>18, ExceptSeq
<1>20. workspaces' = [mid EXCEPT ![dst] = w2]
  <2>1. mid[dst] = workspaces[dst]
    BY <1>2, <1>3, <1>4, <1>19
  <2>2. mid = [workspaces EXCEPT ![src].root = left]
    BY <1>16, <1>18
  <2>3. workspaces' = [mid EXCEPT ![dst].root = graft]
    BY <1>11, <2>2
  <2>. QED BY <1>16, <2>1, <2>3
<1>21. /\ workspaces' \in Seq(Workspaces) /\ Len(workspaces') = Len(workspaces)
       /\ \A k \in 1..Len(workspaces) :
            workspaces'[k] = IF k = dst THEN w2 ELSE IF k = src THEN w1 ELSE workspaces[k]
  <2>1. /\ [mid EXCEPT ![dst] = w2] \in Seq(Workspaces) /\ Len([mid EXCEPT ![dst] = w2]) = Len(mid)
        /\ \A k \in 1..Len(mid) : [mid EXCEPT ![dst] = w2][k] = IF k = dst THEN w2 ELSE mid[k]
    BY <1>3, <1>4, <1>17, <1>19, ExceptSeq
  <2>. QED BY <1>19, <1>20, <2>1
\* The ids of the trees: what each may hold now.
<1> DEFINE Now(k) == NodeIds(workspaces'[k].root)
           Was(k) == NodeIds(workspaces[k].root)
<1>22. \A k \in 1..Len(workspaces) : Was(k) \subseteq 1..gen
  BY <1>4, OneWorkspace DEF Root
<1>23. \A j, k \in 1..Len(workspaces) : j # k => Was(j) \cap Was(k) = {}
  BY <1>4 DEF IInv, Apart, Root
<1>24. Now(src) \subseteq (Was(src) \ {id}) \cup (gen + 1)..g
  BY <1>2, <1>3, <1>4, <1>13, <1>17, <1>21 DEF Root
<1>25. Now(dst) \subseteq Was(dst) \cup {id} \cup (g + 1)..gen'
  BY <1>3, <1>4, <1>15, <1>17, <1>21 DEF Root
<1>26. \A k \in 1..Len(workspaces) : k # src /\ k # dst => Now(k) = Was(k)
  BY <1>21
<1>27. id \in Was(src)
  BY <1>6 DEF Root
<1>28. \A k \in 1..Len(workspaces) : workspaces'[k].id = workspaces[k].id
  BY <1>17, <1>21
<1> HIDE DEF Now, Was
<1>29. ASSUME NEW k \in 1..Len(workspaces) PROVE Now(k) \subseteq 1..gen'
  <2>1. 1..gen \subseteq 1..gen' /\ (gen + 1)..g \subseteq 1..gen' /\ (g + 1)..gen' \subseteq 1..gen'
    BY <1>4, <1>12
  <2>2. Was(k) \subseteq 1..gen' /\ id \in 1..gen'
    BY <1>3, <1>4, <1>22, <1>27, <2>1
  <2>. QED BY <1>24, <1>25, <1>26, <2>1, <2>2
<1>30. /\ (1..gen) \cap ((gen + 1)..g) = {} /\ (1..gen) \cap ((g + 1)..gen') = {}
       /\ ((gen + 1)..g) \cap ((g + 1)..gen') = {}
  BY <1>4, <1>12
<1>31. Now(src) \cap Now(dst) = {}
  <2>1. Was(src) \subseteq 1..gen /\ Was(dst) \subseteq 1..gen /\ Was(src) \cap Was(dst) = {} /\ id \in 1..gen
    BY <1>2, <1>3, <1>4, <1>22, <1>23, <1>27
  <2>2. id \notin (gen + 1)..g
    BY <1>30, <2>1
  <2>. QED BY <1>24, <1>25, <1>30, <2>1, <2>2
<1>32. ASSUME NEW k \in 1..Len(workspaces), k # src, k # dst
       PROVE  Now(k) \cap Now(src) = {} /\ Now(k) \cap Now(dst) = {}
  <2>1. Was(k) \subseteq 1..gen /\ Was(k) \cap Was(src) = {} /\ Was(k) \cap Was(dst) = {} /\ Now(k) = Was(k)
    BY <1>3, <1>4, <1>22, <1>23, <1>26, <1>32
  <2>2. id \notin Was(k)
    BY <1>27, <2>1
  <2>. QED BY <1>24, <1>25, <1>30, <2>1, <2>2
<1>33. \A j, k \in 1..Len(workspaces) : j # k => Now(j) \cap Now(k) = {}
  <2> SUFFICES ASSUME NEW j \in 1..Len(workspaces), NEW k \in 1..Len(workspaces), j # k
               PROVE  Now(j) \cap Now(k) = {}
    OBVIOUS
  <2>1. CASE j \in {src, dst} /\ k \in {src, dst}
    BY <1>31, <2>1
  <2>2. CASE j \notin {src, dst}
    <3>1. Now(j) \cap Now(src) = {} /\ Now(j) \cap Now(dst) = {}
      BY <1>32, <2>2
    <3>2. CASE k \in {src, dst}
      BY <3>1, <3>2
    <3>3. CASE k \notin {src, dst}
      <4>1. Now(j) = Was(j) /\ Now(k) = Was(k)
        BY <1>26, <2>2, <3>3
      <4>. QED BY <1>23, <4>1
    <3>. QED BY <3>2, <3>3
  <2>3. CASE k \notin {src, dst} /\ j \in {src, dst}
    <3>1. Now(k) \cap Now(src) = {} /\ Now(k) \cap Now(dst) = {}
      BY <1>32, <2>3
    <3>. QED BY <2>3, <3>1
  <2>. QED BY <2>1, <2>2, <2>3
<1>. QED BY <1>11, <1>12, <1>21, <1>28, <1>29, <1>33, Retreed DEF Now
-----------------------------------------------------------------------------
(* Ops on workspaces.                                                      *)

\* A new workspace, appended under ids that no tree and no workspace has.
LEMMA WorkspaceAdded ==
  ASSUME IInv, NEW w \in Workspaces, workspaces' = Append(workspaces, w), w.id = wsSeq + 1,
         current' = wsSeq + 1, wsSeq' = wsSeq + 1, wsSeq' \in AllWs,
         gen' \in AllIds, gen <= gen', NodeIds(w.root) \subseteq (gen + 1)..gen'
  PROVE  IInv'
<1> DEFINE n == Len(workspaces)
<1>1. /\ workspaces \in Seq(Workspaces) /\ Indices = 1..n /\ n \in Nat /\ gen \in Nat /\ wsSeq \in Nat /\ gen' \in Nat
  BY SequenceOfWorkspaces DEF AllIds
<1>2. /\ workspaces' \in Seq(Workspaces) /\ workspaces' # <<>> /\ Len(workspaces') = n + 1
      /\ \A i \in 1..n : workspaces'[i] = workspaces[i]
      /\ workspaces'[n + 1] = w
  BY <1>1, AppendProperties
<1>3. Indices' = 1..(n + 1)
  BY <1>2, LenProperties DEF Indices
<1>4. \A i \in 1..n : NodeIds(workspaces[i].root) \subseteq 1..gen /\ workspaces[i].id <= wsSeq /\ workspaces[i].id \in Nat
  BY <1>1, OneWorkspace DEF IInv, Minted, Root, AllWs
<1>5. \A i, j \in 1..n : i # j => /\ workspaces[i].id # workspaces[j].id
                                  /\ NodeIds(workspaces[i].root) \cap NodeIds(workspaces[j].root) = {}
  BY <1>1 DEF IInv, Apart, Root
<1>6. Typed'
  BY <1>2 DEF Typed, AllIds, AllWs, Workspaces, Roots, WsNames, AllDirs
<1>7. CurrentExists'
  BY <1>1, <1>2, <1>3 DEF CurrentExists
<1> HIDE DEF n
<1>8. \A i \in 1..(n + 1) : i = n + 1 \/ i \in 1..n
  BY <1>1
<1>9. 1..gen \subseteq 1..gen' /\ (gen + 1)..gen' \subseteq 1..gen' /\ (1..gen) \cap ((gen + 1)..gen') = {}
  BY <1>1
<1>10. ASSUME NEW i \in 1..n
       PROVE  /\ workspaces'[i].id <= wsSeq' /\ NodeIds(workspaces'[i].root) \subseteq 1..gen'
              /\ workspaces'[i].id # w.id /\ NodeIds(workspaces'[i].root) \cap NodeIds(w.root) = {}
  <2>1. workspaces'[i] = workspaces[i] /\ workspaces[i].id <= wsSeq /\ workspaces[i].id \in Nat
        /\ NodeIds(workspaces[i].root) \subseteq 1..gen
    BY <1>2, <1>4
  <2>2. workspaces[i].id <= wsSeq' /\ workspaces[i].id # w.id
    BY <1>1, <2>1
  <2>. QED BY <1>9, <2>1, <2>2
<1>11. Minted'
  <2>1. w.id <= wsSeq' /\ NodeIds(w.root) \subseteq 1..gen'
    BY <1>1, <1>9
  <2>. QED BY <1>2, <1>3, <1>8, <1>10, <2>1 DEF Minted, Root
<1>12. Apart'
  <2> SUFFICES ASSUME NEW i \in 1..(n + 1), NEW j \in 1..(n + 1), i # j
               PROVE  /\ workspaces'[i].id # workspaces'[j].id
                      /\ NodeIds(workspaces'[i].root) \cap NodeIds(workspaces'[j].root) = {}
    BY <1>3 DEF Apart, Root
  <2>1. CASE i = n + 1
    BY <1>2, <1>8, <1>10, <2>1
  <2>2. CASE j = n + 1
    BY <1>2, <1>8, <1>10, <2>2
  <2>3. CASE i \in 1..n /\ j \in 1..n
    BY <1>2, <1>5, <2>3
  <2>. QED BY <1>8, <2>1, <2>2, <2>3
<1>. QED BY <1>6, <1>7, <1>11, <1>12 DEF IInv

LEMMA AddWorkspaceKeeps ==
  ASSUME IInv, NEW app \in Apps, OpAddWorkspace(app)
  PROVE  IInv'
<1>1. gen \in Nat /\ wsSeq \in Nat /\ Len(workspaces) \in Nat
  BY SequenceOfWorkspaces
<1>2. PICK leaf : leaf = NewLeaf(gen + 1, app)
  OBVIOUS
<1>3. leaf \in Node(Apps, AllDirs) /\ leaf.kind = "leaf" /\ leaf.id = gen + 1
  <2>1. gen + 1 \in Nat \ {0}
    BY <1>1
  <2>. QED BY <1>2, <2>1, NewLeafNode
<1>4. PICK r : r = LeafTree(leaf)
  OBVIOUS
<1>5. r \in Roots /\ NodeIds(r) = {gen + 1}
  BY <1>3, <1>4, LeafTreeTree, RootsAre DEF Sound
<1>6. PICK w : w = [id |-> wsSeq + 1, name |-> WsName(Len(workspaces) + 1), root |-> r]
  OBVIOUS
<1>7. /\ workspaces' = Append(workspaces, w) /\ current' = wsSeq + 1 /\ gen' = gen + 1 /\ wsSeq' = wsSeq + 1
      /\ wsSeq + 1 <= MaxWs /\ gen + 1 <= MaxId
  BY <1>2, <1>4, <1>6 DEF OpAddWorkspace
<1>8. wsSeq' \in AllWs /\ gen' \in AllIds /\ gen <= gen' /\ gen + 1 \in (gen + 1)..gen'
  BY <1>1, <1>7, BoundsAssumption DEF AllWs, AllIds
<1>9. w \in Workspaces /\ w.id = wsSeq + 1 /\ w.root = r
  <2>1. WsName(Len(workspaces) + 1) \in WsNames
    BY <1>1 DEF WsName, WsNames
  <2>2. wsSeq + 1 \in AllWs
    BY <1>7, <1>8
  <2>. QED BY <1>5, <1>6, <2>1, <2>2 DEF Workspaces
<1>10. NodeIds(w.root) \subseteq (gen + 1)..gen'
  BY <1>5, <1>8, <1>9
<1>. QED BY <1>7, <1>8, <1>9, <1>10, WorkspaceAdded

LEMMA CloneWorkspaceKeeps ==
  ASSUME IInv, NEW ws, OpCloneWorkspace(ws)
  PROVE  IInv'
<1>1. PICK i \in Indices : i = WorkspaceByID(ws)
  BY WorkspaceFound DEF OpCloneWorkspace
<1>2. /\ gen \in Nat /\ wsSeq \in Nat /\ workspaces[i].name \in WsNames /\ Sound(Root(i), Apps, AllDirs)
  BY SequenceOfWorkspaces, OneWorkspace
<1>3. PICK t, c, n : t = Root(i) /\ c = CloneFresh(t, gen) /\ n = Cardinality(DOMAIN t)
  OBVIOUS
<1>4. Sound(c, Apps, AllDirs) /\ n \in Nat /\ NodeIds(c) \subseteq (gen + 1)..(gen + n)
  BY <1>2, <1>3, CloneFreshSound
<1>5. PICK name : name = [workspaces[i].name EXCEPT !.primes = @ + 1]
  OBVIOUS
<1>6. name \in WsNames
  BY <1>2, <1>5 DEF WsNames
<1>7. PICK w : w = [id |-> wsSeq + 1, name |-> name, root |-> c]
  OBVIOUS
<1>8. /\ workspaces' = Append(workspaces, w) /\ current' = wsSeq + 1 /\ gen' = gen + n /\ wsSeq' = wsSeq + 1
      /\ wsSeq + 1 <= MaxWs /\ gen + n <= MaxId
  BY <1>1, <1>3, <1>5, <1>7 DEF OpCloneWorkspace
<1>9. wsSeq' \in AllWs /\ gen' \in AllIds /\ gen <= gen'
  <2>1. gen >= 1
    BY DEF IInv, Typed, AllIds
  <2>. QED BY <1>2, <1>4, <1>8, <2>1, BoundsAssumption DEF AllWs, AllIds
<1>10. w \in Workspaces /\ w.id = wsSeq + 1 /\ w.root = c
  <2>1. c \in Roots
    BY <1>4, RootsAre
  <2>2. wsSeq + 1 \in AllWs
    BY <1>8, <1>9
  <2>. QED BY <1>6, <1>7, <2>1, <2>2 DEF Workspaces
<1>11. NodeIds(w.root) \subseteq (gen + 1)..gen'
  BY <1>4, <1>8, <1>10
<1>. QED BY <1>8, <1>9, <1>10, <1>11, WorkspaceAdded

\* RemoveAt closes the gap.
LEMMA Removed ==
  ASSUME NEW S, NEW seq \in Seq(S), NEW k \in 1..Len(seq)
  PROVE  /\ RemoveAt(seq, k) \in Seq(S) /\ Len(RemoveAt(seq, k)) = Len(seq) - 1
         /\ \A i \in 1..(Len(seq) - 1) : RemoveAt(seq, k)[i] = IF i <= k - 1 THEN seq[i] ELSE seq[i + 1]
<1> DEFINE front == SubSeq(seq, 1, k - 1)
           back == SubSeq(seq, k + 1, Len(seq))
<1>1. front \in Seq(S) /\ Len(front) = k - 1 /\ \A i \in 1..(k - 1) : front[i] = seq[i]
  <2>1. \A i \in 1..(k - 1) : seq[i] \in S
    OBVIOUS
  <2>. QED BY <2>1, SubSeqProperties
<1>2. back \in Seq(S) /\ Len(back) = Len(seq) - k /\ \A i \in 1..(Len(seq) - k) : back[i] = seq[k + i]
  <2>1. \A i \in (k + 1)..Len(seq) : seq[i] \in S
    OBVIOUS
  <2>. QED BY <2>1, SubSeqProperties
<1> DEFINE cut == RemoveAt(seq, k)
<1>3. cut = front \o back
  BY DEF RemoveAt
<1> HIDE DEF front, back, cut
<1>4. /\ cut \in Seq(S)
      /\ Len(cut) = Len(front) + Len(back)
      /\ \A i \in 1..(Len(front) + Len(back)) : cut[i] = IF i <= Len(front) THEN front[i] ELSE back[i - Len(front)]
  BY <1>1, <1>2, <1>3, ConcatProperties
<1>5. Len(cut) = Len(seq) - 1
  BY <1>1, <1>2, <1>4
<1>6. \A i \in 1..(Len(seq) - 1) : cut[i] = IF i <= k - 1 THEN seq[i] ELSE seq[i + 1]
  <2> SUFFICES ASSUME NEW i \in 1..(Len(seq) - 1)
               PROVE  cut[i] = IF i <= k - 1 THEN seq[i] ELSE seq[i + 1]
    OBVIOUS
  <2>0. /\ i \in Nat /\ k \in Nat /\ Len(seq) \in Nat /\ 1 <= k /\ k <= Len(seq) /\ 1 <= i
        /\ i \in 1..(Len(front) + Len(back)) /\ Len(front) = k - 1 /\ Len(back) = Len(seq) - k
        /\ i <= Len(seq) - 1
    BY <1>1, <1>2
  <2>1. CASE i <= k - 1
    <3>1. cut[i] = front[i]
      BY <1>4, <2>0, <2>1
    <3>. QED BY <1>1, <2>0, <2>1, <3>1
  <2>2. CASE i > k - 1
    <3>1. cut[i] = back[i - (k - 1)]
      BY <1>4, <2>0, <2>2
    <3>2. i - (k - 1) \in 1..(Len(seq) - k) /\ k + (i - (k - 1)) = i + 1 /\ ~(i <= k - 1)
      BY <2>0, <2>2
    <3>. QED BY <1>2, <3>1, <3>2
  <2>. QED BY <2>1, <2>2
<1>. QED BY <1>4, <1>5, <1>6 DEF cut

LEMMA RemoveWorkspaceKeeps ==
  ASSUME IInv, NEW ws, OpRemoveWorkspace(ws)
  PROVE  IInv'
<1> DEFINE n == Len(workspaces)
<1>1. /\ workspaces \in Seq(Workspaces) /\ Indices = 1..n /\ n \in Nat
  BY SequenceOfWorkspaces
<1>2. PICK k \in 1..n : k = WorkspaceByID(ws) /\ workspaces[k].id = ws
  BY <1>1, WorkspaceFound DEF OpRemoveWorkspace
<1>3. /\ n >= 2 /\ workspaces' = RemoveAt(workspaces, k) /\ UNCHANGED <<gen, wsSeq>>
      /\ current' = IF current = ws THEN workspaces'[1].id ELSE current
  BY <1>2 DEF OpRemoveWorkspace
<1>4. /\ workspaces' \in Seq(Workspaces) /\ Len(workspaces') = n - 1
      /\ \A i \in 1..(n - 1) : workspaces'[i] = IF i <= k - 1 THEN workspaces[i] ELSE workspaces[i + 1]
  <2>1. /\ RemoveAt(workspaces, k) \in Seq(Workspaces) /\ Len(RemoveAt(workspaces, k)) = Len(workspaces) - 1
        /\ \A i \in 1..(Len(workspaces) - 1) :
             RemoveAt(workspaces, k)[i] = IF i <= k - 1 THEN workspaces[i] ELSE workspaces[i + 1]
    BY <1>1, Removed
  <2>. QED BY <1>3, <2>1
<1> HIDE DEF n
<1>5. Indices' = 1..(n - 1) /\ 1 \in 1..(n - 1)
  BY <1>1, <1>3, <1>4, LenProperties DEF Indices
<1> DEFINE Old(i) == IF i <= k - 1 THEN i ELSE i + 1
<1>6. \A i \in 1..(n - 1) : Old(i) \in Indices /\ workspaces'[i] = workspaces[Old(i)]
  BY <1>1, <1>4
<1>7. \A i, j \in 1..(n - 1) : i # j => Old(i) # Old(j)
  BY <1>1
<1>8. ASSUME NEW m \in 1..n, m # k PROVE \E i \in 1..(n - 1) : Old(i) = m
  <2>1. CASE m < k
    <3>1. m \in 1..(n - 1) /\ Old(m) = m
      BY <1>1, <2>1
    <3>. QED BY <3>1
  <2>2. CASE m > k
    <3>1. m - 1 \in 1..(n - 1) /\ Old(m - 1) = m
      BY <1>1, <2>2
    <3>. QED BY <3>1
  <2>. QED BY <1>8, <2>1, <2>2
<1> HIDE DEF Old
<1>9. Typed'
  <2>1. workspaces' # <<>>
    BY <1>4, <1>5
  <2>2. gen' \in AllIds /\ wsSeq' \in AllWs
    BY <1>3 DEF IInv, Typed
  <2>. QED BY <1>4, <2>1, <2>2 DEF Typed, AllIds, AllWs, Workspaces, Roots, WsNames, AllDirs
<1>10. CurrentExists'
  <2>1. CASE current = ws
    BY <1>3, <1>5, <2>1 DEF CurrentExists
  <2>2. CASE current # ws
    <3>1. PICK m \in 1..n : workspaces[m].id = current
      BY <1>1 DEF IInv, CurrentExists
    <3>2. m # k
      BY <1>2, <2>2, <3>1
    <3>3. PICK i \in 1..(n - 1) : Old(i) = m
      BY <1>8, <3>2
    <3>4. workspaces'[i].id = current'
      BY <1>3, <1>6, <2>2, <3>1, <3>3
    <3>. QED BY <1>5, <3>4 DEF CurrentExists
  <2>. QED BY <2>1, <2>2
<1>11. Minted'
  <2>1. \A i \in 1..(n - 1) : workspaces'[i].id <= wsSeq /\ NodeIds(workspaces'[i].root) \subseteq 1..gen
    BY <1>6 DEF IInv, Minted, Root
  <2>. QED BY <1>3, <1>5, <2>1 DEF Minted, Root
<1>12. Apart'
  <2>1. \A i, j \in 1..(n - 1) : i # j =>
           workspaces'[i].id # workspaces'[j].id
           /\ NodeIds(workspaces'[i].root) \cap NodeIds(workspaces'[j].root) = {}
    BY <1>6, <1>7 DEF IInv, Apart, Root
  <2>. QED BY <1>5, <2>1 DEF Apart, Root
<1>. QED BY <1>9, <1>10, <1>11, <1>12 DEF IInv

LEMMA RenameWorkspaceKeeps ==
  ASSUME IInv, NEW ws, NEW name \in Names, OpRenameWorkspace(ws, name)
  PROVE  IInv'
<1>1. workspaces \in Seq(Workspaces) /\ Indices = 1..Len(workspaces)
  BY SequenceOfWorkspaces
<1>2. PICK i \in 1..Len(workspaces) : i = WorkspaceByID(ws)
  BY <1>1, WorkspaceFound DEF OpRenameWorkspace
<1>3. workspaces[i] \in Workspaces
  BY <1>1
<1>4. PICK w : w = [workspaces[i] EXCEPT !.name = GivenName(name)]
  OBVIOUS
<1>5. w \in Workspaces /\ w.id = workspaces[i].id /\ w.root = workspaces[i].root
  <2>1. GivenName(name) \in WsNames
    BY DEF GivenName, WsNames
  <2>. QED BY <1>3, <1>4, <2>1 DEF Workspaces
<1>6. workspaces' = [workspaces EXCEPT ![i] = w] /\ UNCHANGED <<current, gen, wsSeq>>
  BY <1>2, <1>4 DEF OpRenameWorkspace
<1>7. /\ workspaces' \in Seq(Workspaces) /\ Len(workspaces') = Len(workspaces)
      /\ \A k \in 1..Len(workspaces) : workspaces'[k] = IF k = i THEN w ELSE workspaces[k]
  BY <1>1, <1>5, <1>6, ExceptSeq
<1>8. \A k \in 1..Len(workspaces) : workspaces'[k].id = workspaces[k].id /\ workspaces'[k].root = workspaces[k].root
  BY <1>5, <1>7
<1>9. \A k \in 1..Len(workspaces) : NodeIds(workspaces'[k].root) \subseteq 1..gen'
  BY <1>1, <1>6, <1>8, OneWorkspace DEF Root
<1>10. \A j, k \in 1..Len(workspaces) :
          j # k => NodeIds(workspaces'[j].root) \cap NodeIds(workspaces'[k].root) = {}
  BY <1>1, <1>8 DEF IInv, Apart, Root
<1>11. gen' \in AllIds
  BY <1>6 DEF IInv, Typed
<1>. QED BY <1>6, <1>7, <1>8, <1>9, <1>10, <1>11, Retreed

LEMMA SwitchWorkspaceKeeps ==
  ASSUME IInv, NEW ws, OpSwitchWorkspace(ws)
  PROVE  IInv'
<1>1. current' = ws /\ UNCHANGED <<workspaces, gen, wsSeq>> /\ WorkspaceByID(ws) # 0
  BY DEF OpSwitchWorkspace
<1>2. WorkspaceByID(ws) \in Indices /\ workspaces[WorkspaceByID(ws)].id = ws
  BY <1>1, WorkspaceFound
<1>3. CurrentExists'
  BY <1>1, <1>2 DEF CurrentExists, Indices
<1>4. Typed' /\ Minted' /\ Apart'
  BY <1>1 DEF IInv, Typed, Minted, Apart, Indices, Root, AllIds, AllWs, Workspaces, Roots, WsNames, AllDirs
<1>. QED BY <1>3, <1>4 DEF IInv

\* The reseeded generators are at the greatest id, so still past every one.
LEMMA DeserializeKeeps ==
  ASSUME IInv, Deserialize
  PROVE  IInv'
<1> DEFINE N == UNION {NodeIds(Root(i)) : i \in Indices}
           W == {workspaces[i].id : i \in Indices}
<1>1. gen' = Max(N) /\ wsSeq' = Max(W) /\ UNCHANGED <<workspaces, current>>
  BY DEF Deserialize
<1>2. 1 \in Indices /\ gen \in Nat /\ wsSeq \in Nat
  BY SequenceOfWorkspaces
<1>3. N \subseteq 1..gen /\ N # {}
  <2>1. \A i \in Indices : NodeIds(Root(i)) \subseteq 1..gen
    BY OneWorkspace
  <2>2. <<>> \in DOMAIN Root(1)
    BY <1>2, OneWorkspace DEF Sound, Tree, Shape
  <2>3. Root(1)[<<>>].id \in NodeIds(Root(1))
    BY <2>2 DEF NodeIds
  <2>4. Root(1)[<<>>].id \in N
    BY <1>2, <2>3
  <2>. QED BY <2>1, <2>4
<1>4. W \subseteq AllWs /\ W # {} /\ \A x \in W : x <= wsSeq
  BY <1>2, OneWorkspace DEF IInv, Minted
<1>5. ASSUME NEW S \in SUBSET Nat, S # {}, NEW b \in Nat, \A x \in S : x <= b
      PROVE  Max(S) \in S /\ \A x \in S : x <= Max(S)
  <2>1. \E x \in S : \A y \in S : x >= y
    BY <1>5, GreatestNat
  <2>2. Max(S) \in S /\ \A y \in S : Max(S) >= y
    BY <2>1 DEF Max
  <2>. QED BY <2>2
<1>6. gen' \in N /\ \A x \in N : x <= gen'
  <2>1. N \in SUBSET Nat /\ \A x \in N : x <= gen
    BY <1>2, <1>3
  <2> HIDE DEF N
  <2>. QED BY <1>1, <1>2, <1>3, <1>5, <2>1
<1>7. wsSeq' \in W /\ \A x \in W : x <= wsSeq'
  <2>1. W \in SUBSET Nat
    BY <1>4 DEF AllWs
  <2> HIDE DEF W
  <2>. QED BY <1>1, <1>2, <1>4, <1>5, <2>1
<1>8. gen' \in AllIds /\ wsSeq' \in AllWs /\ gen' \in Nat
  <2>1. gen \in 1..MaxId /\ MaxId \in Nat
    BY BoundsAssumption DEF IInv, Typed, AllIds
  <2>2. gen' \in 1..gen
    BY <1>3, <1>6
  <2>. QED BY <1>2, <1>4, <1>7, <2>1, <2>2 DEF AllIds
<1>9. Typed'
  BY <1>1, <1>8 DEF IInv, Typed, AllIds, AllWs, Workspaces, Roots, WsNames, AllDirs
<1>10. CurrentExists' /\ Apart'
  BY <1>1 DEF IInv, CurrentExists, Apart, Indices, Root
<1>11. ASSUME NEW i \in Indices PROVE workspaces[i].id <= wsSeq' /\ NodeIds(Root(i)) \subseteq 1..gen'
  <2>1. workspaces[i].id \in W
    OBVIOUS
  <2>2. \A x \in NodeIds(Root(i)) : x \in N /\ x \in 1..gen
    BY <1>3
  <2> HIDE DEF N, W
  <2>3. \A x \in NodeIds(Root(i)) : x \in 1..gen'
    BY <1>2, <1>6, <1>8, <2>2
  <2>. QED BY <1>7, <2>1, <2>3
<1>12. Minted'
  BY <1>1, <1>11 DEF Minted, Indices, Root
<1>. QED BY <1>9, <1>10, <1>12 DEF IInv
-----------------------------------------------------------------------------
LEMMA Initial == Init => IInv
<1> SUFFICES ASSUME Init PROVE IInv
  OBVIOUS
<1>1. PICK app \in Apps :
        /\ workspaces = <<[id |-> 1, name |-> WsName(1), root |-> LeafTree(NewLeaf(1, app))]>>
        /\ current = 1 /\ gen = 1 /\ wsSeq = 1
  BY DEF Init
<1>2. PICK leaf : leaf = NewLeaf(1, app)
  OBVIOUS
<1>3. leaf \in Node(Apps, AllDirs) /\ leaf.kind = "leaf" /\ leaf.id = 1
  <2>1. 1 \in Nat \ {0}
    OBVIOUS
  <2>. QED BY <1>2, <2>1, NewLeafNode
<1>4. PICK r : r = LeafTree(leaf)
  OBVIOUS
<1>5. r \in Roots /\ NodeIds(r) = {1}
  BY <1>3, <1>4, LeafTreeTree, RootsAre DEF Sound
<1>6. PICK w : w = [id |-> 1, name |-> WsName(1), root |-> r]
  OBVIOUS
<1>7. 1 \in AllIds /\ 1 \in AllWs
  BY BoundsAssumption DEF AllIds, AllWs
<1>8. w \in Workspaces /\ w.id = 1 /\ w.root = r
  <2>1. WsName(1) \in WsNames
    BY DEF WsName, WsNames
  <2>. QED BY <1>5, <1>6, <1>7, <2>1 DEF Workspaces
<1>9. workspaces = <<w>>
  BY <1>1, <1>2, <1>4, <1>6
<1>10. workspaces \in Seq(Workspaces) /\ workspaces # <<>> /\ Indices = {1} /\ workspaces[1] = w
  BY <1>8, <1>9 DEF Indices
<1>11. Typed
  BY <1>1, <1>7, <1>10 DEF Typed
<1>12. CurrentExists /\ Apart
  BY <1>1, <1>8, <1>10 DEF CurrentExists, Apart
<1>13. Minted
  BY <1>1, <1>5, <1>8, <1>10 DEF Minted, Root
<1>. QED BY <1>11, <1>12, <1>13 DEF IInv

LEMMA Inductive == IInv /\ [Next]_vars => IInv'
<1> SUFFICES ASSUME IInv, [Next]_vars PROVE IInv'
  OBVIOUS
<1>1. ASSUME NEW id \in AllIds, NEW i \in {WsFor(pin, id) : pin \in {NoWs} \cup AllWs} \ {0},
             \/ \E dir \in OpDirs, app \in Apps : OpSplitLeaf(i, id, dir, app)
             \/ OpCloseLeaf(i, id)
             \/ \E ratio \in OpRatios : OpSetRatio(i, id, ratio)
             \/ \E app \in Apps : OpSetLeafApp(i, id, app)
             \/ \E target \in AllIds : OpSwapLeaves(i, id, target)
             \/ \E target \in AllIds, zone \in Zones : OpMoveSplit(i, id, target, zone)
      PROVE  IInv'
  <2>1. i \in Indices
    BY WsForFound
  <2>. QED BY <1>1, <2>1, SplitLeafKeeps, CloseLeafKeeps, SetRatioKeeps, SetLeafAppKeeps, SwapLeavesKeeps, MoveSplitKeeps
<1>2. ASSUME NEW id \in AllIds, NEW ws \in AllWs, NEW target \in {NoNode} \cup AllIds, NEW dir \in OpDirs,
             OpMoveLeaf(id, ws, target, dir)
      PROVE  IInv'
  BY <1>2, MoveLeafKeeps
<1>3. ASSUME NEW app \in Apps, OpAddWorkspace(app) PROVE IInv'
  BY <1>3, AddWorkspaceKeeps
<1>4. ASSUME NEW ws \in AllWs,
             \/ OpRemoveWorkspace(ws)
             \/ \E name \in Names : OpRenameWorkspace(ws, name)
             \/ OpCloneWorkspace(ws)
             \/ OpSwitchWorkspace(ws)
      PROVE  IInv'
  BY <1>4, RemoveWorkspaceKeeps, RenameWorkspaceKeeps, CloneWorkspaceKeeps, SwitchWorkspaceKeeps
<1>5. ASSUME Deserialize PROVE IInv'
  BY <1>5, DeserializeKeeps
<1>6. ASSUME UNCHANGED vars PROVE IInv'
  <2>1. UNCHANGED workspaces /\ UNCHANGED current /\ UNCHANGED gen /\ UNCHANGED wsSeq
    BY <1>6 DEF vars
  <2>. QED BY <2>1 DEF IInv, Typed, CurrentExists, Minted, Apart, Indices, Root, AllIds, AllWs, Workspaces,
                       Roots, WsNames, AllDirs
<1>. QED BY <1>1, <1>2, <1>3, <1>4, <1>5, <1>6 DEF Next

\* The invariant holds of every state any sequence of ops and round trips reaches.
THEOREM Invariants == Spec => []IInv
<1>. QED BY Initial, Inductive, PTL DEF Spec

\* Every node of every tree is a node Apply() can have made.
THEOREM TypesKept == Spec => []TypeOK
<1>1. ASSUME IInv PROVE TypeOK
  <2>1. gen \in AllIds /\ wsSeq \in AllWs /\ current \in AllWs
    BY <1>1, OneWorkspace DEF IInv, Typed, CurrentExists
  <2>2. ASSUME NEW i \in Indices, NEW p \in DOMAIN Root(i)
        PROVE  /\ p \in Seq(Sides)
               /\ Root(i)[p] \in [id : AllIds, kind : {"leaf", "split"}, app : Apps,
                                  dir : Dirs \cup OpDirs \cup {NoDir}, ratio : 0..MaxRatio]
    <3>1. Sound(Root(i), Apps, AllDirs) /\ NodeIds(Root(i)) \subseteq 1..gen
      BY <1>1, OneWorkspace
    <3>2. p \in Seq(Sides) /\ Root(i)[p] \in Node(Apps, AllDirs)
      BY <3>1 DEF Sound, Tree, Shape, Paths
    <3>3. Root(i)[p].id \in AllIds
      <4>1. gen \in 1..MaxId /\ MaxId \in Nat
        BY <2>1, BoundsAssumption DEF AllIds
      <4>. QED BY <3>1, <4>1 DEF NodeIds, AllIds
    <3>4. NoApp \in Apps
      BY BoundsAssumption
    <3>5. NoApp = Blank /\ NoDir = Blank
      BY DEF NoApp, NoDir, Blank
    <3>6. Root(i)[p] \in [id : Nat \ {0}, kind : {"leaf", "split"}, app : Apps \cup {Blank},
                          dir : AllDirs \cup {Blank}, ratio : 0..MaxRatio]
      BY <3>2, NodeFields
    <3>. QED BY <3>2, <3>3, <3>4, <3>5, <3>6 DEF AllDirs
  <2>3. \A i \in Indices : workspaces[i].id \in AllWs
    BY <1>1, OneWorkspace
  <2>. QED BY <2>1, <2>2, <2>3 DEF TypeOK
<1>. QED BY <1>1, Invariants, PTL

\* Desktop.Validate() holds after every sequence of ops and round trips,
\* whatever the trees have grown to, where ops name directions that exist.
THEOREM ValidDesktop ==
  ASSUME OpDirs \subseteq Dirs
  PROVE  Spec => []DesktopValid
<1>1. ASSUME IInv PROVE DesktopValid
  <2>1. AllDirs \subseteq Dirs
    BY DEF AllDirs
  <2>2. ASSUME NEW i \in Indices PROVE Validate(Root(i))
    <3>1. Sound(Root(i), Apps, AllDirs)
      BY <1>1, OneWorkspace
    <3>. QED BY <2>1, <3>1, TreeValid DEF Sound, Validate
  <2>3. ASSUME NEW i \in Indices PROVE workspaces[i].id <= wsSeq /\ \A n \in NodeIds(Root(i)) : n <= gen
    <3>1. workspaces[i].id <= wsSeq /\ NodeIds(Root(i)) \subseteq 1..gen /\ gen \in Nat
      BY <1>1, SequenceOfWorkspaces DEF IInv, Minted
    <3>. QED BY <3>1
  <2>4. workspaces # <<>> /\ \E i \in Indices : workspaces[i].id = current
    BY <1>1 DEF IInv, Typed, CurrentExists
  <2>5. \A i, j \in Indices : i # j =>
           workspaces[i].id # workspaces[j].id /\ NodeIds(Root(i)) \cap NodeIds(Root(j)) = {}
    BY <1>1 DEF IInv, Apart
  <2>. QED BY <2>2, <2>3, <2>4, <2>5 DEF DesktopValid
<1>. QED BY <1>1, Invariants, PTL
-----------------------------------------------------------------------------
(* The refinement of LeafSlots.                                            *)

\* Slots maps the id of every workspace to the row of its tree.
SlotsShow ==
  /\ DOMAIN Slots = {workspaces[i].id : i \in Indices}
  /\ \A i \in Indices : Slots[workspaces[i].id] = Row(Root(i))

\* Where the invariant holds, Slots is the rows of the trees.
LEMMA SlotsAreShown == IInv => SlotsShow
<1> SUFFICES ASSUME IInv PROVE SlotsShow
  OBVIOUS
<1>1. ASSUME NEW i \in Indices PROVE WorkspaceByID(workspaces[i].id) = i
  <2> DEFINE S == {k \in Indices : workspaces[k].id = workspaces[i].id}
  <2>1. S = {i}
    BY DEF IInv, Apart
  <2>2. WorkspaceByID(workspaces[i].id) = FirstIndex(S)
    BY DEF WorkspaceByID
  <2> HIDE DEF S
  <2>3. i \in Nat
    BY OneWorkspace
  <2>4. FirstIndex(S) = CHOOSE k \in {i} : \A j \in {i} : k <= j
    BY <2>1 DEF FirstIndex
  <2>5. i <= i
    BY <2>3
  <2>. QED BY <2>2, <2>4, <2>5
<1>2. ASSUME NEW i \in Indices PROVE LeafRow(i) = Row(Root(i))
  BY DEF LeafRow, Row, Tile
<1>. QED BY <1>1, <1>2 DEF SlotsShow, Slots

\* The same after a step.
LEMMA SlotsAreShownNext == IInv' => SlotsShow'
BY SlotsAreShown, PTL

\* Switching workspaces changes no row.
LEMMA SwitchIs ==
  ASSUME IInv, IInv', NEW ws, OpSwitchWorkspace(ws)
  PROVE  Rows!Next
<1>1. current' = ws /\ UNCHANGED workspaces /\ WorkspaceByID(ws) # 0
  BY DEF OpSwitchWorkspace
<1>2. ws \in {workspaces[i].id : i \in Indices}
  BY <1>1, WorkspaceFound
<1>3. Slots' = Slots
  BY <1>1 DEF Slots, Indices, LeafRow, WorkspaceByID, Root
<1>4. current' \in DOMAIN Slots
  BY <1>1, <1>2, SlotsAreShown DEF SlotsShow
<1>5. Rows!Switch
  BY <1>3, <1>4 DEF Rows!Switch
<1>. QED BY <1>5 DEF Rows!Next

\* An op on a tile of a workspace is a step of LeafSlots.
LEMMA OnTile ==
  ASSUME NEW w \in DOMAIN Slots, NEW k \in DOMAIN Slots[w], UNCHANGED current,
         Slots' \in Rows!Split(w, k) \cup Rows!Close(w, k) \cup Rows!SetApp(w, k) \cup Rows!Swap(w, k)
                      \cup Rows!Dock(w, k) \cup Rows!Move(w, k)
  PROVE  Rows!Next
<1> DEFINE Of(v, j) == Rows!Split(v, j) \cup Rows!Close(v, j) \cup Rows!SetApp(v, j) \cup Rows!Swap(v, j)
                         \cup Rows!Dock(v, j) \cup Rows!Move(v, j)
<1>1. Slots' \in Of(w, k)
  OBVIOUS
<1>2. Rows!Rearranged = UNION {UNION {Of(v, j) : j \in DOMAIN Slots[v]} : v \in DOMAIN Slots}
  BY DEF Rows!Rearranged
<1> HIDE DEF Of
<1>3. Slots' \in UNION {Of(w, j) : j \in DOMAIN Slots[w]}
  BY <1>1
<1>4. Slots' \in Rows!Rearranged
  BY <1>2, <1>3
<1>5. Rows!Rearrange
  BY <1>4 DEF Rows!Rearrange
<1>. QED BY <1>5 DEF Rows!Next

\* The sequence operators of the instance are those of the tree's rows.
LEMMA SameOperators ==
  /\ \A s, k, e : Rows!InsertAt(s, k, e) = InsertAt(s, k, e)
  /\ \A s, k : Rows!RemoveAt(s, k) = RemoveAt(s, k)
BY DEF Rows!InsertAt, InsertAt, Rows!RemoveAt, RemoveAt

\* One tree changes: the row of its workspace changes, and no other.
LEMMA OneRow ==
  ASSUME IInv, IInv', NEW i \in Indices, NEW r, SetRoot(i, r)
  PROVE  /\ workspaces[i].id \in DOMAIN Slots /\ Slots[workspaces[i].id] = Row(Root(i))
         /\ Slots' = [Slots EXCEPT ![workspaces[i].id] = Row(r)]
<1>1. /\ workspaces \in Seq(Workspaces) /\ Indices = 1..Len(workspaces) /\ i \in 1..Len(workspaces)
      /\ workspaces[i] \in Workspaces
  BY SequenceOfWorkspaces, OneWorkspace
<1>2. workspaces' = [workspaces EXCEPT ![i].root = r]
  BY DEF SetRoot
<1>3. /\ DOMAIN workspaces' = DOMAIN workspaces
      /\ workspaces'[i].id = workspaces[i].id /\ workspaces'[i].root = r
      /\ \A k \in Indices : k # i => workspaces'[k] = workspaces[k]
  BY <1>1, <1>2 DEF Workspaces, Indices
<1>4. /\ DOMAIN Slots = {workspaces[k].id : k \in Indices}
      /\ \A k \in Indices : Slots[workspaces[k].id] = Row(Root(k))
  BY SlotsAreShown DEF SlotsShow
<1>5. /\ DOMAIN Slots' = {workspaces'[k].id : k \in Indices}
      /\ \A k \in Indices : Slots'[workspaces'[k].id] = Row(workspaces'[k].root)
  BY <1>3, SlotsAreShownNext DEF SlotsShow, Indices, Root
<1>6. \A k \in Indices : k # i => workspaces[k].id # workspaces[i].id
  BY DEF IInv, Apart
<1>7. DOMAIN Slots' = DOMAIN Slots
  BY <1>3, <1>4, <1>5
<1>8. ASSUME NEW w \in DOMAIN Slots
      PROVE  Slots'[w] = IF w = workspaces[i].id THEN Row(r) ELSE Slots[w]
  <2>1. PICK k \in Indices : w = workspaces[k].id
    BY <1>4
  <2>2. CASE k = i
    BY <1>3, <1>5, <2>1, <2>2
  <2>3. CASE k # i
    BY <1>3, <1>4, <1>5, <1>6, <2>1, <2>3 DEF Root
  <2>. QED BY <2>2, <2>3
<1>9. Slots' = [x \in DOMAIN Slots' |-> Slots'[x]]
  BY DEF Slots
<1>10. Slots' = [Slots EXCEPT ![workspaces[i].id] = Row(r)]
  BY <1>7, <1>8, <1>9
<1>. QED BY <1>4, <1>10

\* Ids past the generator are of no tile.
LEMMA FreshIds ==
  ASSUME IInv, NEW n \in AllIds, n > gen
  PROVE  n \in Rows!Fresh
<1>1. ASSUME NEW w \in DOMAIN Slots, NEW k \in DOMAIN Slots[w] PROVE Slots[w][k].id # n
  <2>1. PICK i \in Indices : w = workspaces[i].id /\ Slots[w] = Row(Root(i))
    BY SlotsAreShown DEF SlotsShow
  <2>2. Sound(Root(i), Apps, AllDirs) /\ NodeIds(Root(i)) \subseteq 1..gen /\ gen \in Nat
    BY OneWorkspace, SequenceOfWorkspaces
  <2>3. LeafIds(Root(i)) = {Row(Root(i))[j].id : j \in DOMAIN Row(Root(i))}
    BY <2>2, RowOf DEF Sound
  <2>4. Slots[w][k].id \in LeafIds(Root(i))
    BY <2>1, <2>3
  <2>5. Slots[w][k].id \in 1..gen
    BY <2>2, <2>4, LeafIdsAreIds
  <2>. QED BY <2>2, <2>5
<1>2. n \notin Rows!Used
  BY <1>1 DEF Rows!Used, Rows!IdsOf
<1>. QED BY <1>2 DEF Rows!Fresh

\* A split inserts a fresh tile.
LEMMA SplitIs ==
  ASSUME IInv, IInv', NEW i \in Indices, NEW id, NEW dir \in OpDirs, NEW app \in Apps, OpSplitLeaf(i, id, dir, app)
  PROVE  Rows!Next
<1>1. Sound(Root(i), Apps, AllDirs) /\ gen \in Nat /\ dir \in AllDirs
  BY OneWorkspace, SequenceOfWorkspaces DEF AllDirs
<1>2. id \in LeafIds(Root(i))
  BY <1>1, HasLeafIs DEF OpSplitLeaf, Sound
<1>3. PICK r : r = SplitLeaf(Root(i), id, dir, app, gen)
  OBVIOUS
<1>4. SetRoot(i, r) /\ gen + 2 <= MaxId /\ UNCHANGED current
  BY <1>3 DEF OpSplitLeaf
<1>5. PICK w, s : w = workspaces[i].id /\ s = Row(Root(i))
  OBVIOUS
<1>6. w \in DOMAIN Slots /\ Slots[w] = s /\ Slots' = [Slots EXCEPT ![w] = Row(r)]
  BY <1>4, <1>5, OneRow
<1>7. PICK t : t = [id |-> gen + 1, app |-> app]
  OBVIOUS
<1>8. PICK k \in DOMAIN s : Row(r) = InsertAt(s, k + 1, t)
  BY <1>1, <1>2, <1>3, <1>5, <1>7, RowSplitLeaf
<1>9. t \in [id : Rows!Fresh, app : Apps]
  <2>1. gen + 1 \in AllIds /\ gen + 1 > gen
    BY <1>1, <1>4, BoundsAssumption DEF AllIds
  <2>2. gen + 1 \in Rows!Fresh
    BY <2>1, FreshIds
  <2>. QED BY <1>7, <2>2
<1>10. Slots' = [Slots EXCEPT ![w] = InsertAt(@, k + 1, t)]
  BY <1>6, <1>8
<1>11. Slots' \in Rows!Split(w, k)
  <2>1. Rows!InsertAt(Slots[w], k + 1, t) = InsertAt(Slots[w], k + 1, t)
    BY SameOperators
  <2>. QED BY <1>9, <1>10, <2>1 DEF Rows!Split
<1>. QED BY <1>4, <1>6, <1>11, OnTile

\* A close removes a tile, and never the last of a workspace.
LEMMA CloseIs ==
  ASSUME IInv, IInv', NEW i \in Indices, NEW id, OpCloseLeaf(i, id)
  PROVE  Rows!Next
<1>1. Sound(Root(i), Apps, AllDirs)
  BY OneWorkspace
<1>2. id \in LeafIds(Root(i)) /\ ~IsLeaf(Root(i))
  BY <1>1, HasLeafIs DEF OpCloseLeaf, Sound
<1>3. PICK r : r = removeLeaf(Root(i), id)
  OBVIOUS
<1>4. SetRoot(i, r) /\ UNCHANGED current
  BY <1>3 DEF OpCloseLeaf, CloseLeaf
<1>5. PICK w, s : w = workspaces[i].id /\ s = Row(Root(i))
  OBVIOUS
<1>6. w \in DOMAIN Slots /\ Slots[w] = s /\ Slots' = [Slots EXCEPT ![w] = Row(r)]
  BY <1>4, <1>5, OneRow
<1>7. Len(s) > 1
  BY <1>1, <1>2, <1>5, RowCloseLeaf
<1>8. PICK k \in DOMAIN s : Row(r) = RemoveAt(s, k)
  BY <1>1, <1>2, <1>3, <1>5, RowCloseLeaf
<1>9. Slots' = [Slots EXCEPT ![w] = Rows!RemoveAt(Slots[w], k)]
  BY <1>6, <1>8, SameOperators
<1>10. Slots' \in Rows!Close(w, k)
  BY <1>6, <1>7, <1>9 DEF Rows!Close
<1>. QED BY <1>4, <1>6, <1>10, OnTile

\* Dividers are not in the rows.
LEMMA SetRatioIs ==
  ASSUME IInv, IInv', NEW i \in Indices, NEW id, NEW ratio \in OpRatios, OpSetRatio(i, id, ratio)
  PROVE  UNCHANGED Rows!vars
<1>1. Sound(Root(i), Apps, AllDirs) /\ HasSplit(Root(i), id) /\ ratio \in Nat
  BY OneWorkspace, BoundsAssumption DEF OpSetRatio
<1>2. PICK r : r = SetRatio(Root(i), id, ratio)
  OBVIOUS
<1>3. SetRoot(i, r) /\ UNCHANGED current
  BY <1>2 DEF OpSetRatio
<1>4. Row(r) = Row(Root(i))
  BY <1>1, <1>2, RowSetRatio
<1>5. /\ workspaces[i].id \in DOMAIN Slots /\ Slots[workspaces[i].id] = Row(r)
      /\ Slots' = [Slots EXCEPT ![workspaces[i].id] = Row(r)]
  BY <1>3, <1>4, OneRow
<1>6. Slots = [x \in DOMAIN Slots |-> Slots[x]]
  BY DEF Slots
<1>7. Slots' = Slots
  BY <1>5, <1>6
<1>. QED BY <1>3, <1>7 DEF Rows!vars

\* Setting an application changes one tile.
LEMMA SetLeafAppIs ==
  ASSUME IInv, IInv', NEW i \in Indices, NEW id, NEW app \in Apps, OpSetLeafApp(i, id, app)
  PROVE  Rows!Next
<1>1. Sound(Root(i), Apps, AllDirs)
  BY OneWorkspace
<1>2. id \in LeafIds(Root(i))
  BY <1>1, HasLeafIs DEF OpSetLeafApp, Sound
<1>3. PICK r : r = SetLeafApp(Root(i), id, app)
  OBVIOUS
<1>4. SetRoot(i, r) /\ UNCHANGED current
  BY <1>3 DEF OpSetLeafApp
<1>5. PICK w, s : w = workspaces[i].id /\ s = Row(Root(i))
  OBVIOUS
<1>6. w \in DOMAIN Slots /\ Slots[w] = s /\ Slots' = [Slots EXCEPT ![w] = Row(r)]
  BY <1>4, <1>5, OneRow
<1>7. PICK k \in DOMAIN s : Row(r) = Reapped(s, k, app)
  BY <1>1, <1>2, <1>3, <1>5, RowSetApp
<1>8. Slots' = [Slots EXCEPT ![w][k].app = app]
  BY <1>6, <1>7 DEF Reapped
<1>9. Slots' \in Rows!SetApp(w, k)
  BY <1>8 DEF Rows!SetApp
<1>. QED BY <1>4, <1>6, <1>7, <1>9, OnTile

\* A swap exchanges the applications of two tiles.
LEMMA SwapLeavesIs ==
  ASSUME IInv, IInv', NEW i \in Indices, NEW id, NEW target, OpSwapLeaves(i, id, target)
  PROVE  Rows!Next
<1>1. Sound(Root(i), Apps, AllDirs)
  BY OneWorkspace
<1>2. id \in LeafIds(Root(i)) /\ target \in LeafIds(Root(i))
  BY <1>1, HasLeafIs DEF OpSwapLeaves, Sound
<1>3. PICK r : r = SwapLeaves(Root(i), id, target)
  OBVIOUS
<1>4. SetRoot(i, r) /\ UNCHANGED current
  BY <1>3 DEF OpSwapLeaves
<1>5. PICK w, s : w = workspaces[i].id /\ s = Row(Root(i))
  OBVIOUS
<1>6. w \in DOMAIN Slots /\ Slots[w] = s /\ Slots' = [Slots EXCEPT ![w] = Row(r)]
  BY <1>4, <1>5, OneRow
<1>7. PICK j \in DOMAIN s, k \in DOMAIN s : Row(r) = Reapped(Reapped(s, j, s[k].app), k, s[j].app)
  BY <1>1, <1>2, <1>3, <1>5, RowSwapLeaves
<1>8. PICK x, y : x = s[k].app /\ y = s[j].app
  OBVIOUS
<1>9. [Slots EXCEPT ![w][j].app = x, ![w][k].app = y] = [Slots EXCEPT ![w] = Reapped(Reapped(s, j, x), k, y)]
  BY <1>6 DEF Reapped
<1>10. Slots' = [Slots EXCEPT ![w][j].app = Slots[w][k].app, ![w][k].app = Slots[w][j].app]
  BY <1>6, <1>7, <1>8, <1>9
<1>11. Slots' \in Rows!Swap(w, k)
  BY <1>6, <1>10 DEF Rows!Swap
<1>. QED BY <1>4, <1>6, <1>11, OnTile

\* A dock moves a tile within its row.
LEMMA MoveSplitIs ==
  ASSUME IInv, IInv', NEW i \in Indices, NEW id, NEW target, NEW zone, OpMoveSplit(i, id, target, zone)
  PROVE  Rows!Next
<1>1. Sound(Root(i), Apps, AllDirs) /\ gen \in Nat /\ Dirs \subseteq AllDirs
  BY OneWorkspace, SequenceOfWorkspaces DEF AllDirs
<1>2. id \in LeafIds(Root(i)) /\ target \in LeafIds(Root(i)) /\ id # target
  BY <1>1, HasLeafIs DEF OpMoveSplit, Sound
<1>3. PICK r : r = MoveSplit(Root(i), id, target, zone, gen)
  OBVIOUS
<1>4. SetRoot(i, r) /\ UNCHANGED current
  BY <1>3 DEF OpMoveSplit
<1>5. PICK w, s : w = workspaces[i].id /\ s = Row(Root(i))
  OBVIOUS
<1>6. w \in DOMAIN Slots /\ Slots[w] = s /\ Slots' = [Slots EXCEPT ![w] = Row(r)]
  BY <1>4, <1>5, OneRow
<1>7. PICK j \in DOMAIN s, k \in DOMAIN s : Row(r) = InsertAt(RemoveAt(s, k), j, s[k])
  BY <1>1, <1>2, <1>3, <1>5, RowMoveSplit
<1>8. Slots' = [Slots EXCEPT ![w] = Rows!InsertAt(Rows!RemoveAt(Slots[w], k), j, Slots[w][k])]
  BY <1>6, <1>7, SameOperators
<1>9. Slots' \in Rows!Dock(w, k)
  BY <1>6, <1>8 DEF Rows!Dock
<1>. QED BY <1>4, <1>6, <1>9, OnTile

\* Names are not in the rows.
LEMMA RenameIs ==
  ASSUME IInv, IInv', NEW ws, NEW name, OpRenameWorkspace(ws, name)
  PROVE  UNCHANGED Rows!vars
<1>1. workspaces \in Seq(Workspaces) /\ Indices = 1..Len(workspaces)
  BY SequenceOfWorkspaces
<1>2. PICK i \in Indices : i = WorkspaceByID(ws)
  BY WorkspaceFound DEF OpRenameWorkspace
<1>3. workspaces' = [workspaces EXCEPT ![i].name = GivenName(name)] /\ UNCHANGED current
  BY <1>2 DEF OpRenameWorkspace
<1>4. \A k \in Indices : workspaces[k] \in Workspaces
  BY OneWorkspace
<1>5. /\ DOMAIN workspaces' = DOMAIN workspaces
      /\ \A k \in Indices : workspaces'[k].id = workspaces[k].id /\ workspaces'[k].root = workspaces[k].root
  BY <1>1, <1>3, <1>4 DEF Indices, Workspaces
<1>6. /\ DOMAIN Slots = {workspaces[k].id : k \in Indices}
      /\ \A k \in Indices : Slots[workspaces[k].id] = Row(workspaces[k].root)
  BY SlotsAreShown DEF SlotsShow, Root
<1>7. /\ DOMAIN Slots' = {workspaces'[k].id : k \in Indices}
      /\ \A k \in Indices : Slots'[workspaces'[k].id] = Row(workspaces'[k].root)
  BY <1>5, SlotsAreShownNext DEF SlotsShow, Indices, Root
<1>8. DOMAIN Slots' = DOMAIN Slots /\ \A x \in DOMAIN Slots : Slots'[x] = Slots[x]
  BY <1>5, <1>6, <1>7
<1>9. Slots = [x \in DOMAIN Slots |-> Slots[x]] /\ Slots' = [x \in DOMAIN Slots' |-> Slots'[x]]
  BY DEF Slots
<1>10. Slots' = Slots
  BY <1>8, <1>9
<1>. QED BY <1>3, <1>10 DEF Rows!vars

\* What leaves workspaces and current alone leaves the rows alone.
LEMMA SameWorkspaces ==
  ASSUME UNCHANGED <<workspaces, current>>
  PROVE  UNCHANGED Rows!vars
<1>1. Slots' = Slots
  BY DEF Slots, Indices, LeafRow, WorkspaceByID, Root
<1>. QED BY <1>1 DEF Rows!vars

\* A workspace is appended: a row is added under an id none had.
LEMMA OpenIs ==
  ASSUME IInv, IInv', NEW w, workspaces' = Append(workspaces, w), w.id = wsSeq + 1, current' = wsSeq + 1,
         wsSeq + 1 \in AllWs,
         Row(w.root) \in Rows!NewRows \cup UNION {Rows!CopiedRows(v) : v \in DOMAIN Slots}
  PROVE  Rows!Next
<1>1. PICK n \in Nat : n = Len(workspaces) /\ Indices = 1..n /\ workspaces \in Seq(Workspaces) /\ wsSeq \in Nat
  BY SequenceOfWorkspaces
<1>2. DOMAIN workspaces' = 1..(n + 1) /\ workspaces'[n + 1] = w /\ \A k \in 1..n : workspaces'[k] = workspaces[k]
  BY <1>1
<1>3. /\ DOMAIN Slots = {workspaces[k].id : k \in 1..n}
      /\ \A k \in 1..n : Slots[workspaces[k].id] = Row(workspaces[k].root)
  BY <1>1, SlotsAreShown DEF SlotsShow, Root
<1>4. /\ DOMAIN Slots' = {workspaces'[k].id : k \in 1..(n + 1)}
      /\ \A k \in 1..(n + 1) : Slots'[workspaces'[k].id] = Row(workspaces'[k].root)
  BY <1>2, SlotsAreShownNext DEF SlotsShow, Indices, Root
<1>5. \A k \in 1..n : workspaces[k].id # w.id
  <2>1. \A k \in 1..n : workspaces[k].id \in AllWs /\ workspaces[k].id <= wsSeq
    BY <1>1, OneWorkspace DEF IInv, Minted
  <2>. QED BY <1>1, <2>1 DEF AllWs
<1>6. w.id \notin DOMAIN Slots
  BY <1>3, <1>5
<1>7. \A k \in 1..(n + 1) : k = n + 1 \/ k \in 1..n
  BY <1>1
<1>8. n + 1 \in 1..(n + 1) /\ 1..n \subseteq 1..(n + 1)
  BY <1>1
<1>9. DOMAIN Slots' = DOMAIN Slots \cup {w.id}
  <2>1. \A x \in DOMAIN Slots' : x \in DOMAIN Slots \/ x = w.id
    BY <1>2, <1>3, <1>4, <1>7
  <2>2. \A x \in DOMAIN Slots : x \in DOMAIN Slots'
    BY <1>2, <1>3, <1>4, <1>8
  <2>3. w.id \in DOMAIN Slots'
    BY <1>2, <1>4, <1>8
  <2>. QED BY <2>1, <2>2, <2>3
<1>10. Slots'[w.id] = Row(w.root)
  BY <1>2, <1>4, <1>8
<1>11. ASSUME NEW x \in DOMAIN Slots PROVE Slots'[x] = Slots[x]
  <2>1. PICK k \in 1..n : x = workspaces[k].id /\ Slots[x] = Row(workspaces[k].root)
    BY <1>3
  <2>2. k \in 1..(n + 1) /\ workspaces'[k] = workspaces[k]
    BY <1>2, <1>8
  <2>. QED BY <1>4, <2>1, <2>2
<1>12. Slots' = [x \in DOMAIN Slots' |-> Slots'[x]]
  BY DEF Slots
<1>13. Slots' = Rows!With(w.id, Row(w.root))
  <2>1. \A x \in DOMAIN Slots \cup {w.id} : Slots'[x] = IF x = w.id THEN Row(w.root) ELSE Slots[x]
    BY <1>6, <1>10, <1>11
  <2>2. Slots' = [x \in DOMAIN Slots \cup {w.id} |-> IF x = w.id THEN Row(w.root) ELSE Slots[x]]
    BY <1>9, <1>12, <2>1
  <2>. QED BY <2>2 DEF Rows!With
<1>14. current' = w.id /\ current' \in AllWs \ DOMAIN Slots
  BY <1>6
<1>15. PICK N : N = Rows!NewRows \cup UNION {Rows!CopiedRows(v) : v \in DOMAIN Slots}
  OBVIOUS
<1>16. Slots' \in {Rows!With(current', row) : row \in N}
  BY <1>13, <1>14, <1>15
<1>17. Rows!Open
  BY <1>14, <1>15, <1>16 DEF Rows!Open
<1>. QED BY <1>17 DEF Rows!Next

\* A new workspace has one fresh tile and becomes current.
LEMMA AddIs ==
  ASSUME IInv, IInv', NEW app \in Apps, OpAddWorkspace(app)
  PROVE  Rows!Next
<1>1. gen \in Nat /\ wsSeq \in Nat
  BY SequenceOfWorkspaces
<1>2. PICK leaf : leaf = NewLeaf(gen + 1, app)
  OBVIOUS
<1>3. leaf \in Node(Apps, AllDirs) /\ leaf.kind = "leaf"
  <2>1. gen + 1 \in Nat \ {0}
    BY <1>1
  <2>. QED BY <1>2, <2>1, NewLeafNode
<1>4. PICK w : w = [id |-> wsSeq + 1, name |-> WsName(Len(workspaces) + 1), root |-> LeafTree(leaf)]
  OBVIOUS
<1>5. /\ workspaces' = Append(workspaces, w) /\ current' = wsSeq + 1
      /\ wsSeq + 1 <= MaxWs /\ gen + 1 <= MaxId
  BY <1>2, <1>4 DEF OpAddWorkspace
<1>6. wsSeq + 1 \in AllWs /\ gen + 1 \in AllIds /\ gen + 1 > gen
  BY <1>1, <1>5, BoundsAssumption DEF AllWs, AllIds
<1>7. PICK t : t = [id |-> gen + 1, app |-> app]
  OBVIOUS
<1>8. Row(w.root) = <<t>>
  <2>1. Tile(leaf) = t
    BY <1>2, <1>7 DEF Tile, NewLeaf
  <2>. QED BY <1>3, <1>4, <2>1, RowLeafTree
<1>9. t \in [id : Rows!Fresh, app : Apps]
  BY <1>6, <1>7, FreshIds
<1>10. Row(w.root) \in Rows!NewRows
  BY <1>8, <1>9 DEF Rows!NewRows
<1>11. Row(w.root) \in Rows!NewRows \cup UNION {Rows!CopiedRows(v) : v \in DOMAIN Slots}
  BY <1>10
<1>12. w.id = wsSeq + 1
  BY <1>4
<1>. QED BY <1>5, <1>6, <1>11, <1>12, OpenIs

\* A copy has the applications of the source in its order, under fresh ids.
LEMMA CloneIs ==
  ASSUME IInv, IInv', NEW ws, OpCloneWorkspace(ws)
  PROVE  Rows!Next
<1>1. PICK i \in Indices : i = WorkspaceByID(ws)
  BY WorkspaceFound DEF OpCloneWorkspace
<1>2. gen \in Nat /\ wsSeq \in Nat /\ Sound(Root(i), Apps, AllDirs)
  BY SequenceOfWorkspaces, OneWorkspace
<1>3. PICK t, n : t = Root(i) /\ n = Cardinality(DOMAIN t)
  OBVIOUS
<1>4. n \in Nat
  BY <1>2, <1>3, CloneFreshSound
<1>5. PICK w : w = [id |-> wsSeq + 1, name |-> [workspaces[i].name EXCEPT !.primes = @ + 1],
                    root |-> CloneFresh(t, gen)]
  OBVIOUS
<1>6. /\ workspaces' = Append(workspaces, w) /\ current' = wsSeq + 1
      /\ wsSeq + 1 <= MaxWs /\ gen + n <= MaxId
  BY <1>1, <1>3, <1>5 DEF OpCloneWorkspace
<1>7. PICK v, s : v = workspaces[i].id /\ s = Row(t)
  OBVIOUS
<1>8. v \in DOMAIN Slots /\ Slots[v] = s
  BY <1>3, <1>7, SlotsAreShown DEF SlotsShow
<1>9. PICK ids \in [DOMAIN s -> (gen + 1)..(gen + n)] :
        /\ \A j, k \in DOMAIN s : ids[j] = ids[k] => j = k
        /\ CopyOf(s, ids, Row(CloneFresh(t, gen)))
  BY <1>2, <1>3, <1>7, RowCloneFresh
<1>10. \A m \in (gen + 1)..(gen + n) : m \in Rows!Fresh
  <2> SUFFICES ASSUME NEW m \in (gen + 1)..(gen + n) PROVE m \in Rows!Fresh
    OBVIOUS
  <2>1. m \in AllIds /\ m > gen
    BY <1>2, <1>4, <1>6, BoundsAssumption DEF AllIds
  <2>. QED BY <2>1, FreshIds
<1>11. ids \in [DOMAIN s -> Rows!Fresh]
  BY <1>9, <1>10
<1>12. Rows!IsInjective(ids)
  BY <1>9 DEF Rows!IsInjective
<1>13. Row(w.root) = Rows!Row(ids, [k \in DOMAIN Slots[v] |-> Slots[v][k].app])
  <2>1. Row(w.root) = [k \in DOMAIN s |-> [id |-> ids[k], app |-> s[k].app]]
    BY <1>5, <1>9 DEF CopyOf
  <2>2. DOMAIN ids = DOMAIN s
    BY <1>9
  <2>. QED BY <1>8, <2>1, <2>2 DEF Rows!Row
<1>14. Row(w.root) \in Rows!CopiedRows(v)
  BY <1>8, <1>11, <1>12, <1>13 DEF Rows!CopiedRows
<1>15. Row(w.root) \in Rows!NewRows \cup UNION {Rows!CopiedRows(x) : x \in DOMAIN Slots}
  BY <1>8, <1>14
<1>16. w.id = wsSeq + 1 /\ wsSeq + 1 \in AllWs
  BY <1>2, <1>5, <1>6, BoundsAssumption DEF AllWs
<1>. QED BY <1>6, <1>15, <1>16, OpenIs

\* A workspace goes with its row, the others keep theirs.
LEMMA RemoveIs ==
  ASSUME IInv, IInv', NEW ws, OpRemoveWorkspace(ws)
  PROVE  Rows!Next
<1>1. PICK n \in Nat : n = Len(workspaces) /\ Indices = 1..n /\ workspaces \in Seq(Workspaces)
  BY SequenceOfWorkspaces
<1>2. PICK k \in 1..n : k = WorkspaceByID(ws) /\ workspaces[k].id = ws
  BY <1>1, WorkspaceFound DEF OpRemoveWorkspace
<1>3. /\ n >= 2 /\ workspaces' = RemoveAt(workspaces, k)
      /\ current' = IF current = ws THEN workspaces'[1].id ELSE current
  BY <1>1, <1>2 DEF OpRemoveWorkspace
<1>4. /\ Len(workspaces') = n - 1 /\ workspaces' \in Seq(Workspaces)
      /\ \A j \in 1..(n - 1) : workspaces'[j] = IF j <= k - 1 THEN workspaces[j] ELSE workspaces[j + 1]
  <2>1. /\ RemoveAt(workspaces, k) \in Seq(Workspaces) /\ Len(RemoveAt(workspaces, k)) = Len(workspaces) - 1
        /\ \A j \in 1..(Len(workspaces) - 1) :
             RemoveAt(workspaces, k)[j] = IF j <= k - 1 THEN workspaces[j] ELSE workspaces[j + 1]
    BY <1>1, Removed
  <2>. QED BY <1>1, <1>3, <2>1
<1>5. Indices' = 1..(n - 1) /\ 1 \in 1..(n - 1)
  BY <1>1, <1>3, <1>4, LenProperties DEF Indices
<1>6. \A j \in 1..(n - 1) : \E m \in 1..n : m # k /\ workspaces'[j] = workspaces[m]
  <2> SUFFICES ASSUME NEW j \in 1..(n - 1) PROVE \E m \in 1..n : m # k /\ workspaces'[j] = workspaces[m]
    OBVIOUS
  <2>1. CASE j <= k - 1
    <3>1. j \in 1..n /\ j # k /\ workspaces'[j] = workspaces[j]
      BY <1>1, <1>4, <2>1
    <3>. QED BY <3>1
  <2>2. CASE ~(j <= k - 1)
    <3>1. j + 1 \in 1..n /\ j + 1 # k /\ workspaces'[j] = workspaces[j + 1]
      BY <1>1, <1>4, <2>2
    <3>. QED BY <3>1
  <2>. QED BY <2>1, <2>2
<1>7. \A m \in 1..n : m # k => \E j \in 1..(n - 1) : workspaces'[j] = workspaces[m]
  <2> SUFFICES ASSUME NEW m \in 1..n, m # k PROVE \E j \in 1..(n - 1) : workspaces'[j] = workspaces[m]
    OBVIOUS
  <2>1. CASE m < k
    <3>1. m \in 1..(n - 1) /\ workspaces'[m] = workspaces[m]
      BY <1>1, <1>4, <2>1
    <3>. QED BY <3>1
  <2>2. CASE m > k
    <3>1. m - 1 \in 1..(n - 1) /\ ~(m - 1 <= k - 1) /\ (m - 1) + 1 = m
      BY <1>1, <2>2
    <3>2. workspaces'[m - 1] = workspaces[m]
      BY <1>4, <3>1
    <3>. QED BY <3>1, <3>2
  <2>. QED BY <2>1, <2>2
<1>8. /\ DOMAIN Slots = {workspaces[j].id : j \in 1..n}
      /\ \A j \in 1..n : Slots[workspaces[j].id] = Row(workspaces[j].root)
  BY <1>1, SlotsAreShown DEF SlotsShow, Root
<1>9. /\ DOMAIN Slots' = {workspaces'[j].id : j \in 1..(n - 1)}
      /\ \A j \in 1..(n - 1) : Slots'[workspaces'[j].id] = Row(workspaces'[j].root)
  BY <1>5, SlotsAreShownNext DEF SlotsShow, Root
<1>10. \A m \in 1..n : m # k => workspaces[m].id # ws
  BY <1>1, <1>2 DEF IInv, Apart
<1>11. \A x \in DOMAIN Slots' : x \in DOMAIN Slots /\ x # ws
  BY <1>6, <1>8, <1>9, <1>10
<1>12. \A x \in DOMAIN Slots : x # ws => x \in DOMAIN Slots'
  <2> SUFFICES ASSUME NEW x \in DOMAIN Slots, x # ws PROVE x \in DOMAIN Slots'
    OBVIOUS
  <2>1. PICK m \in 1..n : x = workspaces[m].id /\ m # k
    BY <1>2, <1>8
  <2>2. PICK j \in 1..(n - 1) : workspaces'[j] = workspaces[m]
    BY <1>7, <2>1
  <2>. QED BY <1>9, <2>1, <2>2
<1>13. ASSUME NEW x \in DOMAIN Slots' PROVE Slots'[x] = Slots[x]
  <2>1. PICK j \in 1..(n - 1) : x = workspaces'[j].id /\ Slots'[x] = Row(workspaces'[j].root)
    BY <1>9
  <2>2. PICK m \in 1..n : workspaces'[j] = workspaces[m]
    BY <1>6
  <2>. QED BY <1>8, <2>1, <2>2
<1>14. Slots' = Rows!Without(ws)
  <2>1. DOMAIN Slots' = DOMAIN Slots \ {ws}
    BY <1>11, <1>12
  <2>2. Slots' = [x \in DOMAIN Slots' |-> Slots'[x]]
    BY DEF Slots
  <2>3. Slots' = [x \in DOMAIN Slots \ {ws} |-> Slots[x]]
    BY <1>13, <2>1, <2>2
  <2>. QED BY <2>3 DEF Rows!Without
<1>15. ws \in DOMAIN Slots
  BY <1>2, <1>8
<1>16. workspaces'[1].id \in DOMAIN Slots'
  BY <1>5, <1>9
<1>17. current \in DOMAIN Slots
  BY <1>1, <1>8 DEF IInv, CurrentExists
<1>18. /\ DOMAIN Slots # {ws} /\ current' \in DOMAIN Slots \ {ws}
       /\ current # ws => current' = current
  BY <1>3, <1>11, <1>16, <1>17
<1>19. Rows!Drop(ws)
  BY <1>14, <1>18 DEF Rows!Drop
<1>. QED BY <1>15, <1>19 DEF Rows!Next

\* A tile that changes workspaces leaves one row and joins the other.
LEMMA MoveLeafIs ==
  ASSUME IInv, IInv', NEW id, NEW ws, NEW target, NEW opDir \in OpDirs, OpMoveLeaf(id, ws, target, opDir)
  PROVE  Rows!Next
<1>1. PICK src, dst : src = FindLeafWorkspace(id) /\ dst = WorkspaceByID(ws)
  OBVIOUS
<1>2. src # 0 /\ dst # 0 /\ src # dst /\ (target # NoNode => HasLeaf(Root(dst), target))
  BY <1>1 DEF OpMoveLeaf
<1>3. src \in Indices /\ dst \in Indices /\ HasLeaf(Root(src), id)
  BY <1>1, <1>2, LeafWorkspaceFound, WorkspaceFound
<1>4. /\ Indices = 1..Len(workspaces) /\ workspaces \in Seq(Workspaces) /\ gen \in Nat
      /\ Sound(Root(src), Apps, AllDirs) /\ NodeIds(Root(src)) \subseteq 1..gen
      /\ Sound(Root(dst), Apps, AllDirs)
  BY <1>3, SequenceOfWorkspaces, OneWorkspace
<1>5. id \in LeafIds(Root(src)) /\ id \in NodeIds(Root(src)) /\ (target # NoNode => target \in LeafIds(Root(dst)))
  BY <1>2, <1>3, <1>4, HasLeafIs, LeafIdsAreIds DEF Sound
<1>6. PICK moved : moved = FindLeaf(Root(src), id)
  OBVIOUS
<1>7. moved \in Node(Apps, AllDirs) /\ moved.kind = "leaf" /\ moved.id = id
  BY <1>4, <1>5, <1>6, FindLeafApp
<1>8. PICK only \in BOOLEAN : only = IsLeaf(Root(src))
  BY DEF IsLeaf
<1>9. PICK g : g = IF only THEN gen + 1 ELSE gen
  OBVIOUS
<1>10. PICK left, dir, graft :
         /\ left = IF only THEN LeafTree(NewLeaf(gen + 1, NoApp)) ELSE removeLeaf(Root(src), id)
         /\ dir = IF opDir = NoDir THEN "row" ELSE opDir
         /\ graft = GraftLeaf(Root(dst), moved, target, dir, g)
  OBVIOUS
<1>11. /\ g + 1 <= MaxId
       /\ workspaces' = [workspaces EXCEPT ![src].root = left, ![dst].root = graft]
       /\ UNCHANGED current
  BY <1>1, <1>6, <1>8, <1>9, <1>10 DEF OpMoveLeaf
<1>12. g \in Nat
  BY <1>4, <1>9
<1>13. PICK w, v, s, d : w = workspaces[src].id /\ v = workspaces[dst].id /\ s = Row(Root(src)) /\ d = Row(Root(dst))
  OBVIOUS
<1>14. /\ DOMAIN Slots = {workspaces[i].id : i \in Indices}
       /\ \A i \in Indices : Slots[workspaces[i].id] = Row(workspaces[i].root)
  BY SlotsAreShown DEF SlotsShow, Root
<1>15. w \in DOMAIN Slots /\ v \in DOMAIN Slots /\ w # v /\ Slots[w] = s /\ Slots[v] = d
  BY <1>2, <1>3, <1>13, <1>14 DEF IInv, Apart, Root
\* What joins.
<1>16. PICK j \in DOMAIN d : Row(graft) = InsertAt(d, j + 1, Tile(moved))
  <2>1. moved.id \notin NodeIds(Root(dst))
    BY <1>2, <1>3, <1>5, <1>7 DEF IInv, Apart
  <2>2. dir \in AllDirs
    BY <1>10 DEF AllDirs, Dirs
  <2>3. PICK t : t = Root(dst)
    OBVIOUS
  <2>4. /\ Sound(t, Apps, AllDirs) /\ moved.id \notin NodeIds(t) /\ (target # NoNode => target \in LeafIds(t))
        /\ graft = GraftLeaf(t, moved, target, dir, g) /\ d = Row(t)
    BY <1>4, <1>5, <1>10, <1>13, <2>1, <2>3
  <2>5. \E j \in DOMAIN Row(t) : Row(GraftLeaf(t, moved, target, dir, g)) = InsertAt(Row(t), j + 1, Tile(moved))
    BY <1>7, <1>12, <2>2, <2>4, RowGraftLeaf
  <2>. QED BY <2>4, <2>5
\* What stays.
<1>17. PICK k \in DOMAIN s : s[k] = Tile(moved) /\ Row(left) \in Rows!Leave(w, k)
  <2>1. CASE only
    <3>1. s = <<Tile(Root(src)[<<>>])>>
      BY <1>4, <1>8, <1>13, <2>1, RowSingle DEF Sound
    <3>2. Len(s) = 1 /\ DOMAIN s = {1} /\ s[1] = Tile(Root(src)[<<>>])
      BY <3>1
    <3>3. moved = Root(src)[<<>>]
      <4>1. PICK p \in LeafPaths(Root(src)) : Root(src)[p].id = id
        BY <1>5 DEF LeafIds
      <4>2. LeafPaths(Root(src)) = {<<>>}
        BY <1>4, <1>8, <2>1, RowSingle DEF Sound
      <4>3. <<>> \in DOMAIN Root(src) /\ Root(src)[<<>>].id = id
        BY <4>1, <4>2 DEF LeafPaths
      <4>4. Find(Root(src), id) = <<>>
        BY <1>4, <4>3, Found DEF Sound
      <4>. QED BY <1>6, <4>4 DEF FindLeaf
    <3>4. PICK leaf : leaf = NewLeaf(gen + 1, NoApp)
      OBVIOUS
    <3>5. NoApp \in Apps /\ gen + 1 \in Nat \ {0}
      BY <1>4, BoundsAssumption
    <3>6. leaf \in Node(Apps, AllDirs) /\ leaf.kind = "leaf"
      BY <3>4, <3>5, NewLeafNode
    <3>7. Row(left) = <<Tile(leaf)>>
      <4>1. left = LeafTree(leaf)
        BY <1>10, <2>1, <3>4
      <4>. QED BY <3>6, <4>1, RowLeafTree
    <3>8. Tile(leaf) = [id |-> gen + 1, app |-> Rows!NoApp]
      BY <3>4 DEF Tile, NewLeaf, NoApp, Rows!NoApp
    <3>9. gen + 1 \in Rows!Fresh
      <4>1. gen + 1 \in AllIds /\ gen + 1 > gen
        BY <1>4, <1>9, <1>11, <2>1, BoundsAssumption DEF AllIds
      <4>. QED BY <4>1, FreshIds
    <3>10. Row(left) \in Rows!Leave(w, 1)
      <4>1. ~(Len(Slots[w]) > 1)
        BY <1>15, <3>2
      <4>2. Row(left) = <<[id |-> gen + 1, app |-> Rows!NoApp]>>
        BY <3>7, <3>8
      <4>. QED BY <3>9, <4>1, <4>2 DEF Rows!Leave
    <3>. QED BY <3>2, <3>3, <3>10
  <2>2. CASE ~only
    <3>1. left = removeLeaf(Root(src), id) /\ ~IsLeaf(Root(src))
      BY <1>8, <1>10, <2>2
    <3>2. Len(s) > 1
      BY <1>4, <1>5, <1>13, <3>1, RowCloseLeaf
    <3>3. PICK k \in DOMAIN s : Row(left) = RemoveAt(s, k) /\ s[k] = Tile(moved)
      BY <1>4, <1>5, <1>6, <1>13, <3>1, RowCloseLeaf
    <3>4. Row(left) = Rows!RemoveAt(Slots[w], k)
      BY <1>15, <3>3, SameOperators
    <3>5. Row(left) \in Rows!Leave(w, k)
      BY <1>15, <3>2, <3>4 DEF Rows!Leave
    <3>. QED BY <3>3, <3>5
  <2>. QED BY <2>1, <2>2
\* The rows of the two workspaces change, and no other.
<1>18. \A i \in Indices : workspaces[i] \in Workspaces
  BY OneWorkspace
<1>19. /\ DOMAIN workspaces' = DOMAIN workspaces
       /\ \A i \in Indices : /\ workspaces'[i].id = workspaces[i].id
                             /\ i = src => workspaces'[i].root = left
                             /\ i = dst => workspaces'[i].root = graft
                             /\ i # src /\ i # dst => workspaces'[i].root = workspaces[i].root
  <2>1. PICK mid : mid = [workspaces EXCEPT ![src].root = left]
    OBVIOUS
  <2>2. workspaces' = [mid EXCEPT ![dst].root = graft]
    BY <1>11, <2>1
  <2>3. /\ DOMAIN mid = DOMAIN workspaces
        /\ \A i \in Indices : i # src => mid[i] = workspaces[i]
        /\ mid[src].id = workspaces[src].id /\ mid[src].root = left
    BY <1>3, <1>4, <1>18, <2>1 DEF Indices, Workspaces
  <2>4. mid[dst] \in Workspaces
    BY <1>2, <1>3, <1>18, <2>3
  <2>5. /\ DOMAIN workspaces' = DOMAIN mid
        /\ \A i \in Indices : i # dst => workspaces'[i] = mid[i]
        /\ workspaces'[dst].id = mid[dst].id /\ workspaces'[dst].root = graft
    BY <1>3, <2>2, <2>3, <2>4 DEF Indices, Workspaces
  <2>. QED BY <1>2, <1>3, <2>3, <2>5
<1>20. /\ DOMAIN Slots' = {workspaces'[i].id : i \in Indices}
       /\ \A i \in Indices : Slots'[workspaces'[i].id] = Row(workspaces'[i].root)
  BY <1>19, SlotsAreShownNext DEF SlotsShow, Indices, Root
<1>21. DOMAIN Slots' = DOMAIN Slots
  BY <1>14, <1>19, <1>20
<1>22. ASSUME NEW x \in DOMAIN Slots
       PROVE  /\ x = w => Slots'[x] = Row(left)
              /\ x = v => Slots'[x] = Row(graft)
              /\ x # w /\ x # v => Slots'[x] = Slots[x]
  <2>1. PICK i \in Indices : x = workspaces[i].id
    BY <1>14
  <2>2. (x = w <=> i = src) /\ (x = v <=> i = dst)
    BY <1>3, <1>13, <2>1 DEF IInv, Apart
  <2>3. Slots'[x] = Row(workspaces'[i].root) /\ Slots[x] = Row(workspaces[i].root)
    BY <1>14, <1>19, <1>20, <2>1
  <2>. QED BY <1>19, <2>1, <2>2, <2>3
<1>23. Slots' = [x \in DOMAIN Slots' |-> Slots'[x]] /\ Slots = [x \in DOMAIN Slots |-> Slots[x]]
  BY DEF Slots
<1>24. Slots' = [Slots EXCEPT ![w] = Row(left), ![v] = Rows!InsertAt(@, j + 1, Slots[w][k])]
  <2>1. PICK e, a, b : /\ e = Rows!InsertAt(Slots[v], j + 1, Slots[w][k]) /\ a = Row(left)
                       /\ b = [Slots EXCEPT ![w] = a]
    OBVIOUS
  <2>2. e = Row(graft)
    BY <1>15, <1>16, <1>17, <2>1, SameOperators
  <2>3. b[v] = Slots[v]
    BY <1>15, <2>1
  <2>4. Slots' = [b EXCEPT ![v] = e]
    BY <1>15, <1>21, <1>22, <1>23, <2>1, <2>2
  <2>. QED BY <2>1, <2>3, <2>4
<1>25. Slots' \in Rows!Move(w, k)
  <2>1. v \in DOMAIN Slots \ {w} /\ j \in DOMAIN Slots[v] /\ Row(left) \in Rows!Leave(w, k)
    BY <1>15, <1>16, <1>17
  <2> DEFINE E(y, m, rest) == [Slots EXCEPT ![w] = rest, ![y] = Rows!InsertAt(@, m + 1, Slots[w][k])]
             M(y) == {E(y, m, rest) : m \in DOMAIN Slots[y], rest \in Rows!Leave(w, k)}
  <2>2. Slots' \in M(v)
    <3>1. Slots' = E(v, j, Row(left))
      BY <1>24
    <3> HIDE DEF E
    <3>. QED BY <2>1, <3>1
  <2>3. Rows!Move(w, k) = UNION {M(y) : y \in DOMAIN Slots \ {w}}
    BY DEF Rows!Move
  <2> HIDE DEF M, E
  <2>. QED BY <2>1, <2>2, <2>3
<1>26. k \in DOMAIN Slots[w]
  BY <1>15
<1>. QED BY <1>11, <1>15, <1>25, <1>26, OnTile
-----------------------------------------------------------------------------
\* The first workspace is a row of one tile.
LEMMA InitialRows == Init => Rows!Init
<1> SUFFICES ASSUME Init PROVE Rows!Init
  OBVIOUS
<1>1. PICK app \in Apps :
        /\ workspaces = <<[id |-> 1, name |-> WsName(1), root |-> LeafTree(NewLeaf(1, app))]>>
        /\ current = 1
  BY DEF Init
<1>2. PICK leaf : leaf = NewLeaf(1, app)
  OBVIOUS
<1>3. leaf \in Node(Apps, AllDirs) /\ leaf.kind = "leaf"
  <2>1. 1 \in Nat \ {0}
    OBVIOUS
  <2>. QED BY <1>2, <2>1, NewLeafNode
<1>4. Tile(leaf) = [id |-> 1, app |-> app]
  BY <1>2 DEF Tile, NewLeaf
<1>5. Indices = {1} /\ workspaces[1].id = 1 /\ Root(1) = LeafTree(leaf)
  BY <1>1, <1>2 DEF Indices, Root
<1>6. DOMAIN Slots = {1} /\ Slots[1] = <<[id |-> 1, app |-> app]>>
  <2>1. IInv
    BY Initial
  <2>2. DOMAIN Slots = {1} /\ Slots[1] = Row(LeafTree(leaf))
    BY <1>5, <2>1, SlotsAreShown DEF SlotsShow
  <2>. QED BY <1>3, <1>4, <2>2, RowLeafTree
<1>7. Slots = [x \in {1} |-> <<[id |-> 1, app |-> app]>>]
  <2>1. Slots = [x \in DOMAIN Slots |-> Slots[x]]
    BY DEF Slots
  <2>. QED BY <1>6, <2>1
<1>8. 1 \in AllIds /\ 1 \in AllWs
  BY BoundsAssumption DEF AllIds, AllWs
<1>. QED BY <1>1, <1>7, <1>8 DEF Rows!Init

\* A step of Desktop is a step of LeafSlots or leaves the rows alone.
LEMMA StepRows == IInv /\ IInv' /\ [Next]_vars => [Rows!Next]_(Rows!vars)
<1> SUFFICES ASSUME IInv, IInv', [Next]_vars PROVE Rows!Next \/ UNCHANGED Rows!vars
  OBVIOUS
<1>1. ASSUME NEW id \in AllIds, NEW i \in {WsFor(pin, id) : pin \in {NoWs} \cup AllWs} \ {0},
             \/ \E dir \in OpDirs, app \in Apps : OpSplitLeaf(i, id, dir, app)
             \/ OpCloseLeaf(i, id)
             \/ \E ratio \in OpRatios : OpSetRatio(i, id, ratio)
             \/ \E app \in Apps : OpSetLeafApp(i, id, app)
             \/ \E target \in AllIds : OpSwapLeaves(i, id, target)
             \/ \E target \in AllIds, zone \in Zones : OpMoveSplit(i, id, target, zone)
      PROVE  Rows!Next \/ UNCHANGED Rows!vars
  <2>1. i \in Indices
    BY WsForFound
  <2>. QED BY <1>1, <2>1, SplitIs, CloseIs, SetRatioIs, SetLeafAppIs, SwapLeavesIs, MoveSplitIs
<1>2. ASSUME NEW id \in AllIds, NEW ws \in AllWs, NEW target \in {NoNode} \cup AllIds, NEW dir \in OpDirs,
             OpMoveLeaf(id, ws, target, dir)
      PROVE  Rows!Next \/ UNCHANGED Rows!vars
  BY <1>2, MoveLeafIs
<1>3. ASSUME NEW app \in Apps, OpAddWorkspace(app) PROVE Rows!Next \/ UNCHANGED Rows!vars
  BY <1>3, AddIs
<1>4. ASSUME NEW ws \in AllWs,
             \/ OpRemoveWorkspace(ws)
             \/ \E name \in Names : OpRenameWorkspace(ws, name)
             \/ OpCloneWorkspace(ws)
             \/ OpSwitchWorkspace(ws)
      PROVE  Rows!Next \/ UNCHANGED Rows!vars
  BY <1>4, RemoveIs, RenameIs, CloneIs, SwitchIs
<1>5. ASSUME Deserialize \/ UNCHANGED vars PROVE Rows!Next \/ UNCHANGED Rows!vars
  <2>1. UNCHANGED <<workspaces, current>>
    BY <1>5 DEF Deserialize, vars
  <2>. QED BY <2>1, SameWorkspaces
<1>. QED BY <1>1, <1>2, <1>3, <1>4, <1>5 DEF Next

\* Read in traversal order, the leaves of the trees are the rows of LeafSlots,
\* whatever the trees have grown to: an op inserts, removes or moves one tile,
\* sets or swaps applications, or opens, drops or renames a workspace, and every
\* other tile keeps its id, its application and its order.
THEOREM RowsImplemented == Spec => ImplementsLeafSlots
<1>1. Spec => []IInv
  BY Invariants
<1>. QED BY <1>1, InitialRows, StepRows, PTL DEF Spec, ImplementsLeafSlots, Rows!Spec
-----------------------------------------------------------------------------
(* Dividers of the desktop.                                                *)

LEMMA AtMostOne ==
  ASSUME NEW S, \A a, b \in S : a = b
  PROVE  Cardinality(S) \in {0, 1} /\ (S = {} => Cardinality(S) = 0)
<1>1. Cardinality({}) = 0
  BY FS_EmptySet
<1>2. CASE S = {}
  BY <1>1, <1>2
<1>3. CASE S # {}
  <2>1. PICK a \in S : TRUE
    BY <1>3
  <2>2. S = {a}
    BY <2>1
  <2>. QED BY <1>3, <2>2, FS_Singleton
<1>. QED BY <1>2, <1>3

\* Dividers of before keep their directions, and their positions but for r.
SameDividers(divs, divs2, r) ==
  \A d \in divs, e \in divs2 : d.id = e.id => d.dir = e.dir /\ (d.ratio = e.ratio \/ d.id = r)
\* No leaf but l changes sides.
OnlyCrosses(sided, sided2, l) ==
  \A y \in sided, z \in sided2 : z[1] = y[1] /\ z[2] = y[2] /\ z[3] # y[3] => y[1] = l
OneById(divs) == \A d, e \in divs : d.id = e.id => d = e
NotBoth(divs, sided, l, r) == (\A y \in sided : y[1] # l) \/ (\A d \in divs : d.id # r)

LEMMA LocalFrom ==
  ASSUME NEW divs, NEW divs2, NEW sided, NEW sided2, NEW l, NEW r,
         SameDividers(divs, divs2, r), OneById(divs), OnlyCrosses(sided, sided2, l), NotBoth(divs, sided, l, r)
  PROVE  LocalStep(divs, divs2, sided, sided2)
<1> DEFINE crossed == {x[1] : x \in {y \in sided : \E z \in sided2 : z[1] = y[1] /\ z[2] = y[2] /\ z[3] # y[3]}}
           resized == {d \in divs : \E e \in divs2 : e.id = d.id /\ e.ratio # d.ratio}
<1>1. \A a \in crossed : a = l /\ \E y \in sided : y[1] = a
  <2> SUFFICES ASSUME NEW a \in crossed PROVE a = l /\ \E y \in sided : y[1] = a
    OBVIOUS
  <2>1. PICK y \in sided : a = y[1] /\ \E z \in sided2 : z[1] = y[1] /\ z[2] = y[2] /\ z[3] # y[3]
    OBVIOUS
  <2>. QED BY <2>1 DEF OnlyCrosses
<1>2. \A d \in resized : d \in divs /\ d.id = r
  BY DEF SameDividers
<1>3. crossed = {} \/ resized = {}
  <2> HIDE DEF crossed, resized
  <2>1. (\A y \in sided : y[1] # l) => crossed = {}
    BY ONLY <1>1
  <2>2. (\A d \in divs : d.id # r) => resized = {}
    BY ONLY <1>2
  <2>. QED BY <2>1, <2>2 DEF NotBoth
<1>4. (\A d \in divs, e \in divs2 : d.id = e.id => d.dir = e.dir)
  BY DEF SameDividers
<1>5. Cardinality(crossed) + Cardinality(resized) <= 1 => LocalStep(divs, divs2, sided, sided2)
  BY <1>4 DEF LocalStep
<1> HIDE DEF crossed, resized
<1>6. Cardinality(crossed) \in {0, 1} /\ (crossed = {} => Cardinality(crossed) = 0)
  <2>1. \A a, b \in crossed : a = b
    BY <1>1
  <2>. QED BY <2>1, AtMostOne
<1>7. Cardinality(resized) \in {0, 1} /\ (resized = {} => Cardinality(resized) = 0)
  <2>1. \A a, b \in resized : a = b
    BY <1>2 DEF OneById
  <2>. QED BY <2>1, AtMostOne
<1>. QED BY <1>3, <1>5, <1>6, <1>7

\* The nodes above a leaf are those on its path.
LEMMA SideTaken ==
  ASSUME NEW A, NEW D, NEW t, Tree(t, A, D), NEW p \in LeafPaths(t), NEW m \in 0..(Len(p) - 1)
  PROVE  p[m + 1] \in Sides /\ OnSide(t, t[p].id, t[SubSeq(p, 1, m)].id, p[m + 1])
<1>1. p \in DOMAIN t /\ p \in Paths
  BY NodePaths
<1>2. Len(p) \in Nat /\ m \in Nat /\ m + 1 \in 1..Len(p) /\ p \in Seq(Sides)
  BY <1>1 DEF Paths
<1>3. PICK q, y : q = SubSeq(p, 1, m) /\ y = SubSeq(p, 1, m + 1)
  OBVIOUS
<1>4. p[m + 1] \in Sides
  BY <1>2
<1>5. q \in Paths /\ Len(q) = m /\ \A i \in 1..m : q[i] = p[i]
  <2>1. \A i \in 1..m : p[i] \in Sides
    BY <1>2
  <2>. QED BY <1>2, <1>3, <2>1, SubSeqProperties DEF Paths
<1>6. y \in Paths /\ Len(y) = m + 1 /\ \A i \in 1..(m + 1) : y[i] = p[i]
  <2>1. \A i \in 1..(m + 1) : p[i] \in Sides
    BY <1>2
  <2>. QED BY <1>2, <1>3, <2>1, SubSeqProperties DEF Paths
<1>7. y = q \o <<p[m + 1]>>
  <2>1. PICK s \in Sides : s = p[m + 1]
    BY <1>4
  <2>2. /\ Append(q, s) \in Paths /\ Len(Append(q, s)) = m + 1
        /\ \A i \in 1..m : Append(q, s)[i] = q[i]
    BY <1>5, AppendProperties DEF Paths
  <2>3. \A i \in 1..(m + 1) : Append(q, s)[i] = y[i]
    <3> SUFFICES ASSUME NEW i \in 1..(m + 1) PROVE Append(q, s)[i] = y[i]
      OBVIOUS
    <3>1. CASE i \in 1..m
      BY <1>5, <1>6, <2>2, <3>1
    <3>2. CASE i = m + 1
      <4>1. Append(q, s)[m + 1] = s
        BY <1>5, AppendProperties DEF Paths
      <4>. QED BY <1>2, <1>6, <2>1, <3>2, <4>1
    <3>3. i \in 1..m \/ i = m + 1
      BY <1>2
    <3>. QED BY ONLY <3>1, <3>2, <3>3
  <2>4. Append(q, s) = y
    BY <1>6, <2>2, <2>3, SeqEqual DEF Paths
  <2>5. Append(q, s) = q \o <<s>>
    BY <1>5, Child
  <2>. QED BY <2>1, <2>4, <2>5
<1>8. IsPrefix(y, p) /\ IsPrefix(q, p) /\ q # p
  <2>1. SubSeq(p, 1, Len(y)) = y /\ SubSeq(p, 1, Len(q)) = q
    BY <1>3, <1>5, <1>6
  <2>2. Len(y) <= Len(p) /\ Len(q) <= Len(p) /\ Len(q) # Len(p)
    BY <1>2, <1>5, <1>6
  <2>3. SubSeq(y, 1, Len(y)) = y /\ SubSeq(q, 1, Len(q)) = q
    BY <1>5, <1>6, SubSeqFull DEF Paths
  <2>. QED BY <2>1, <2>2, <2>3 DEF IsPrefix
<1>9. q \in DOMAIN t
  BY <1>1, <1>5, <1>8 DEF Tree, Shape
<1>. QED BY <1>1, <1>3, <1>4, <1>7, <1>8, <1>9 DEF OnSide

DividersSeen ==
  /\ \A e : e \in Dividers <=> \E i \in Indices : e \in Splits(Root(i))
  /\ \A x \in Sided : \E k, n, d : x = <<k, n, d>> /\ d \in Sides /\ \E i \in Indices : OnSide(Root(i), k, n, d)

LEMMA DividersAreSeen == IInv => DividersSeen
<1> SUFFICES ASSUME IInv PROVE DividersSeen
  OBVIOUS
<1>1. ASSUME NEW e PROVE e \in Dividers <=> \E i \in Indices : e \in Splits(Root(i))
  BY DEF Dividers, Splits
<1>2. ASSUME NEW x \in Sided
      PROVE  \E k, n, d : x = <<k, n, d>> /\ d \in Sides /\ \E i \in Indices : OnSide(Root(i), k, n, d)
  <2>1. PICK i \in Indices :
          x \in UNION {{<<Root(i)[p].id, Root(i)[SubSeq(p, 1, n)].id, p[n + 1]>> : n \in 0..(Len(p) - 1)}
                        : p \in LeafPaths(Root(i))}
    BY DEF Sided
  <2>2. PICK t : t = Root(i)
    OBVIOUS
  <2>3. PICK p \in LeafPaths(t) : x \in {<<t[p].id, t[SubSeq(p, 1, n)].id, p[n + 1]>> : n \in 0..(Len(p) - 1)}
    BY <2>1, <2>2
  <2>3a. PICK m \in 0..(Len(p) - 1) : x = <<t[p].id, t[SubSeq(p, 1, m)].id, p[m + 1]>>
    BY <2>3
  <2>4. Tree(t, Apps, AllDirs)
    BY <2>2, OneWorkspace DEF Sound
  <2>5. p[m + 1] \in Sides /\ OnSide(t, t[p].id, t[SubSeq(p, 1, m)].id, p[m + 1])
    BY <2>4, SideTaken
  <2>. QED BY <2>2, <2>3a, <2>5
<1>. QED BY <1>1, <1>2 DEF DividersSeen

LEMMA DividersAreSeenNext == IInv' => DividersSeen'
BY DividersAreSeen, PTL

\* A divider is at one place of the desktop.
LEMMA SplitOnce ==
  ASSUME IInv, NEW i \in Indices, NEW j \in Indices, NEW e \in Splits(Root(i)), NEW c \in Splits(Root(j)), e.id = c.id
  PROVE  e = c
<1>1. PICK x \in DOMAIN Root(i), y \in DOMAIN Root(j) : e = Root(i)[x] /\ c = Root(j)[y]
  BY DEF Splits
<1>2. e.id \in NodeIds(Root(i)) /\ e.id \in NodeIds(Root(j))
  BY <1>1 DEF NodeIds
<1>3. i = j
  BY <1>2 DEF IInv, Apart
<1>4. UniqueIds(Root(i))
  BY OneWorkspace DEF Sound
<1>. QED BY <1>1, <1>3, <1>4 DEF UniqueIds

LEMMA SplitMinted ==
  ASSUME IInv, NEW i \in Indices, NEW e \in Splits(Root(i))
  PROVE  e.id \in 1..gen
<1>1. e.id \in NodeIds(Root(i))
  BY DEF Splits, NodeIds
<1>. QED BY <1>1, OneWorkspace

\* A leaf is on one side of a divider.
LEMMA SideOnce ==
  ASSUME IInv, NEW i \in Indices, NEW j \in Indices, NEW k, NEW n, NEW d \in Sides, NEW c \in Sides,
         OnSide(Root(i), k, n, d), OnSide(Root(j), k, n, c)
  PROVE  d = c /\ k \in 1..gen /\ n \in 1..gen
<1>1. PICK x \in LeafPaths(Root(i)), q \in DOMAIN Root(i) :
        IsPrefix(q \o <<d>>, x) /\ Root(i)[x].id = k /\ Root(i)[q].id = n
  BY DEF OnSide
<1>2. PICK y \in LeafPaths(Root(j)), z \in DOMAIN Root(j) :
        IsPrefix(z \o <<c>>, y) /\ Root(j)[y].id = k /\ Root(j)[z].id = n
  BY DEF OnSide
<1>3. x \in DOMAIN Root(i) /\ y \in DOMAIN Root(j)
  BY DEF LeafPaths
<1>4. k \in NodeIds(Root(i)) /\ k \in NodeIds(Root(j)) /\ n \in NodeIds(Root(i))
  BY <1>1, <1>2, <1>3 DEF NodeIds
<1>5. i = j
  BY <1>4 DEF IInv, Apart
<1>6. UniqueIds(Root(i)) /\ Tree(Root(i), Apps, AllDirs) /\ NodeIds(Root(i)) \subseteq 1..gen
  BY OneWorkspace DEF Sound
<1>7. x = y /\ q = z
  BY <1>1, <1>2, <1>3, <1>5, <1>6 DEF UniqueIds
<1>8. x \in Paths /\ q \in Paths
  BY <1>3, <1>6, NodePaths
<1>9. d = c
  BY <1>1, <1>2, <1>7, <1>8, ChildrenApart
<1>. QED BY <1>4, <1>6, <1>9

\* Every tree is kept from a tree of before, but for l and r.
AllKept(l, r) ==
  \A j \in DOMAIN workspaces' : \E i \in Indices : Kept(Root(i), workspaces'[j].root, gen, l, r)

LEMMA LocalWhenKept ==
  ASSUME IInv, IInv', NEW l, NEW r, l = NoNode \/ r = NoNode, AllKept(l, r)
  PROVE  LocalStep(Dividers, Dividers', Sided, Sided')
<1>1. DividersSeen /\ DividersSeen'
  BY DividersAreSeen, DividersAreSeenNext
<1>2. PICK divs, divs2, sided, sided2 :
        divs = Dividers /\ divs2 = Dividers' /\ sided = Sided /\ sided2 = Sided'
  OBVIOUS
<1>3. gen \in Nat
  BY SequenceOfWorkspaces
<1>4. ASSUME NEW d \in divs, NEW e \in divs, d.id = e.id PROVE d = e
  <2>1. PICK i \in Indices, j \in Indices : d \in Splits(Root(i)) /\ e \in Splits(Root(j))
    BY <1>1, <1>2 DEF DividersSeen
  <2>. QED BY <1>4, <2>1, SplitOnce
<1>5. ASSUME NEW d \in divs PROVE d.id \in 1..gen
  <2>1. PICK i \in Indices : d \in Splits(Root(i))
    BY <1>1, <1>2 DEF DividersSeen
  <2>. QED BY <2>1, SplitMinted
<1>6. ASSUME NEW d \in divs, NEW e \in divs2, d.id = e.id
      PROVE  d.dir = e.dir /\ (d.ratio = e.ratio \/ d.id = r)
  <2>1. PICK j \in DOMAIN workspaces' : e \in Splits(workspaces'[j].root)
    BY <1>1, <1>2 DEF DividersSeen, Indices, Root
  <2>2. PICK i \in Indices : Kept(Root(i), workspaces'[j].root, gen, l, r)
    BY DEF AllKept
  <2>3. ~(e.id > gen)
    BY <1>3, <1>5, <1>6
  <2>4. Persists(Root(i), e, r)
    BY <2>1, <2>2, <2>3 DEF Kept
  <2>5. PICK c \in Splits(Root(i)) : c.id = e.id /\ c.dir = e.dir /\ (c.ratio = e.ratio \/ e.id = r)
    BY <2>4 DEF Persists
  <2>6. c \in divs
    BY <1>1, <1>2, <2>5 DEF DividersSeen
  <2>7. c = d
    BY <1>4, <1>6, <2>5, <2>6
  <2>. QED BY <1>6, <2>5, <2>7
<1>7. ASSUME NEW y \in sided
      PROVE  \E k, n, d : y = <<k, n, d>> /\ d \in Sides /\ k \in 1..gen /\ n \in 1..gen
                          /\ \E i \in Indices : OnSide(Root(i), k, n, d)
  <2>1. PICK k, n, d : y = <<k, n, d>> /\ d \in Sides /\ \E i \in Indices : OnSide(Root(i), k, n, d)
    BY <1>1, <1>2 DEF DividersSeen
  <2>2. PICK i \in Indices : OnSide(Root(i), k, n, d)
    BY <2>1
  <2>3. k \in 1..gen /\ n \in 1..gen
    BY <2>1, <2>2, SideOnce
  <2>. QED BY <2>1, <2>2, <2>3
<1>8. ASSUME NEW y \in sided, NEW z \in sided2, z[1] = y[1], z[2] = y[2], z[3] # y[3] PROVE y[1] = l
  <2>1. PICK k, n, d : y = <<k, n, d>> /\ d \in Sides /\ k \in 1..gen /\ n \in 1..gen
                       /\ \E i \in Indices : OnSide(Root(i), k, n, d)
    BY <1>7
  <2>2. PICK i \in Indices : OnSide(Root(i), k, n, d)
    BY <2>1
  <2>3. PICK k2, n2, c : z = <<k2, n2, c>> /\ c \in Sides
                         /\ \E j \in DOMAIN workspaces' : OnSide(workspaces'[j].root, k2, n2, c)
    BY <1>1, <1>2 DEF DividersSeen, Indices, Root
  <2>4. k2 = k /\ n2 = n /\ c # d
    BY <1>8, <2>1, <2>3
  <2>5. PICK j \in DOMAIN workspaces' : OnSide(workspaces'[j].root, k, n, c)
    BY <2>3, <2>4
  <2>6. PICK h \in Indices : Kept(Root(h), workspaces'[j].root, gen, l, r)
    BY DEF AllKept
  <2>7. ~(k > gen) /\ ~(n > gen)
    BY <1>3, <2>1
  <2>8. k = l \/ OnSide(Root(h), k, n, c)
    BY <2>3, <2>5, <2>6, <2>7 DEF Kept
  <2>9. ~OnSide(Root(h), k, n, c)
    BY <2>1, <2>2, <2>3, <2>4, SideOnce
  <2>. QED BY <2>1, <2>8, <2>9
<1>9. (\A y \in sided : y[1] # l) \/ (\A d \in divs : d.id # r)
  <2>1. CASE l = NoNode
    <3>1. ASSUME NEW y \in sided PROVE y[1] # l
      <4>1. PICK k, n, d : y = <<k, n, d>> /\ k \in 1..gen
        BY <1>7
      <4>. QED BY <1>3, <2>1, <4>1 DEF NoNode
    <3>. QED BY <3>1
  <2>2. CASE r = NoNode
    BY <1>3, <1>5, <2>2 DEF NoNode
  <2>. QED BY <2>1, <2>2
<1>10. LocalStep(divs, divs2, sided, sided2)
  <2>1. SameDividers(divs, divs2, r)
    BY <1>6 DEF SameDividers
  <2>2. OneById(divs)
    BY <1>4 DEF OneById
  <2>3. OnlyCrosses(sided, sided2, l)
    BY <1>8 DEF OnlyCrosses
  <2>4. NotBoth(divs, sided, l, r)
    BY <1>9 DEF NotBoth
  <2>. QED BY ONLY <2>1, <2>2, <2>3, <2>4, LocalFrom
<1>. QED BY <1>2, <1>10
-----------------------------------------------------------------------------
LEMMA OneKept ==
  ASSUME IInv, NEW i \in Indices, NEW t, SetRoot(i, t), NEW l, NEW r, Kept(Root(i), t, gen, l, r)
  PROVE  AllKept(l, r)
<1>1. DOMAIN workspaces' = Indices /\ workspaces'[i].root = t
      /\ \A j \in Indices : j # i => workspaces'[j] = workspaces[j]
  <2>1. workspaces \in Seq(Workspaces) /\ i \in 1..Len(workspaces) /\ workspaces[i] \in Workspaces
    BY OneWorkspace, SequenceOfWorkspaces
  <2>2. PICK w : w = [workspaces[i] EXCEPT !.root = t]
    OBVIOUS
  <2>3. w.root = t
    BY <2>1, <2>2 DEF Workspaces
  <2>4. workspaces' = [workspaces EXCEPT ![i] = w]
    BY <2>2 DEF SetRoot
  <2>. QED BY <2>1, <2>3, <2>4 DEF Indices
<1>2. ASSUME NEW j \in Indices PROVE \E h \in Indices : Kept(Root(h), workspaces'[j].root, gen, l, r)
  <2>1. CASE j = i
    BY <1>1, <2>1
  <2>2. CASE j # i
    <3>1. workspaces'[j].root = Root(j)
      BY <1>1, <2>2 DEF Root
    <3>2. Kept(Root(j), Root(j), gen, l, r)
      BY KeptSame
    <3>. QED BY <3>1, <3>2
  <2>. QED BY <2>1, <2>2
<1>. QED BY <1>1, <1>2 DEF AllKept

LEMMA SplitLeafLocal ==
  ASSUME IInv, NEW i \in Indices, NEW id, NEW dir \in OpDirs, NEW app \in Apps, OpSplitLeaf(i, id, dir, app)
  PROVE  AllKept(NoNode, NoNode)
<1>1. Sound(Root(i), Apps, AllDirs) /\ gen \in Nat /\ dir \in AllDirs
  BY OneWorkspace, SequenceOfWorkspaces DEF AllDirs
<1>2. id \in LeafIds(Root(i))
  BY <1>1, HasLeafIs DEF OpSplitLeaf, Sound
<1>3. PICK t : t = SplitLeaf(Root(i), id, dir, app, gen)
  OBVIOUS
<1>4. SetRoot(i, t)
  BY <1>3 DEF OpSplitLeaf
<1>5. Kept(Root(i), t, gen, NoNode, NoNode)
  BY <1>1, <1>2, <1>3, KeptBySplitLeaf
<1>. QED BY <1>4, <1>5, OneKept

LEMMA CloseLeafLocal ==
  ASSUME IInv, NEW i \in Indices, NEW id, OpCloseLeaf(i, id)
  PROVE  AllKept(NoNode, NoNode)
<1>1. Sound(Root(i), Apps, AllDirs)
  BY OneWorkspace
<1>2. id \in LeafIds(Root(i)) /\ ~IsLeaf(Root(i))
  BY <1>1, HasLeafIs DEF OpCloseLeaf, Sound
<1>3. PICK t : t = removeLeaf(Root(i), id)
  OBVIOUS
<1>4. SetRoot(i, t)
  BY <1>3 DEF OpCloseLeaf, CloseLeaf
<1>5. Kept(Root(i), t, gen, NoNode, NoNode)
  BY <1>1, <1>2, <1>3, KeptByRemoveLeaf
<1>. QED BY <1>4, <1>5, OneKept

LEMMA SetRatioLocal ==
  ASSUME IInv, NEW i \in Indices, NEW id, NEW ratio \in OpRatios, OpSetRatio(i, id, ratio)
  PROVE  AllKept(NoNode, id)
<1>1. Sound(Root(i), Apps, AllDirs) /\ HasSplit(Root(i), id) /\ ratio \in Nat
  BY OneWorkspace, BoundsAssumption DEF OpSetRatio
<1>2. PICK t : t = SetRatio(Root(i), id, ratio)
  OBVIOUS
<1>3. SetRoot(i, t)
  BY <1>2 DEF OpSetRatio
<1>4. Kept(Root(i), t, gen, NoNode, id)
  BY <1>1, <1>2, KeptBySetRatio
<1>. QED BY <1>3, <1>4, OneKept

LEMMA SetLeafAppLocal ==
  ASSUME IInv, NEW i \in Indices, NEW id, NEW app \in Apps, OpSetLeafApp(i, id, app)
  PROVE  AllKept(NoNode, NoNode)
<1>1. Sound(Root(i), Apps, AllDirs)
  BY OneWorkspace
<1>2. id \in LeafIds(Root(i))
  BY <1>1, HasLeafIs DEF OpSetLeafApp, Sound
<1>3. PICK t : t = SetLeafApp(Root(i), id, app)
  OBVIOUS
<1>4. SetRoot(i, t)
  BY <1>3 DEF OpSetLeafApp
<1>5. Kept(Root(i), t, gen, NoNode, NoNode)
  BY <1>1, <1>2, <1>3, KeptBySetLeafApp
<1>. QED BY <1>4, <1>5, OneKept

LEMMA SwapLeavesLocal ==
  ASSUME IInv, NEW i \in Indices, NEW id, NEW target, OpSwapLeaves(i, id, target)
  PROVE  AllKept(NoNode, NoNode)
<1>1. Sound(Root(i), Apps, AllDirs)
  BY OneWorkspace
<1>2. id \in LeafIds(Root(i)) /\ target \in LeafIds(Root(i))
  BY <1>1, HasLeafIs DEF OpSwapLeaves, Sound
<1>3. PICK t : t = SwapLeaves(Root(i), id, target)
  OBVIOUS
<1>4. SetRoot(i, t)
  BY <1>3 DEF OpSwapLeaves
<1>5. Kept(Root(i), t, gen, NoNode, NoNode)
  BY <1>1, <1>2, <1>3, KeptBySwapLeaves
<1>. QED BY <1>4, <1>5, OneKept

LEMMA MoveSplitLocal ==
  ASSUME IInv, NEW i \in Indices, NEW id, NEW target, NEW zone, OpMoveSplit(i, id, target, zone)
  PROVE  AllKept(id, NoNode)
<1>1. Sound(Root(i), Apps, AllDirs) /\ gen \in Nat /\ Dirs \subseteq AllDirs
  BY OneWorkspace, SequenceOfWorkspaces DEF AllDirs
<1>2. id \in LeafIds(Root(i)) /\ target \in LeafIds(Root(i)) /\ id # target
  BY <1>1, HasLeafIs DEF OpMoveSplit, Sound
<1>3. PICK t : t = MoveSplit(Root(i), id, target, zone, gen)
  OBVIOUS
<1>4. SetRoot(i, t)
  BY <1>3 DEF OpMoveSplit
<1>5. Kept(Root(i), t, gen, id, NoNode)
  BY <1>1, <1>2, <1>3, KeptByMoveSplit
<1>. QED BY <1>4, <1>5, OneKept

\* A leaf that changes workspaces leaves the dividers of the one and comes
\* under those of the other.
LEMMA MoveLeafLocal ==
  ASSUME IInv, NEW id, NEW ws, NEW target \in {NoNode} \cup AllIds, NEW opDir \in OpDirs,
         OpMoveLeaf(id, ws, target, opDir)
  PROVE  AllKept(id, NoNode)
<1>1. PICK src, dst : src = FindLeafWorkspace(id) /\ dst = WorkspaceByID(ws)
  OBVIOUS
<1>2. src # 0 /\ dst # 0 /\ src # dst /\ (target # NoNode => HasLeaf(Root(dst), target))
  BY <1>1 DEF OpMoveLeaf
<1>3. src \in Indices /\ dst \in Indices /\ HasLeaf(Root(src), id)
  BY <1>1, <1>2, LeafWorkspaceFound, WorkspaceFound
<1>4. /\ workspaces \in Seq(Workspaces) /\ Indices = 1..Len(workspaces) /\ gen \in Nat
      /\ workspaces[src] \in Workspaces /\ workspaces[dst] \in Workspaces
  BY <1>3, SequenceOfWorkspaces, OneWorkspace
<1>5. Sound(Root(src), Apps, AllDirs) /\ Sound(Root(dst), Apps, AllDirs)
  BY <1>3, OneWorkspace
<1>6. id \in LeafIds(Root(src)) /\ (target # NoNode => target \in LeafIds(Root(dst)))
  BY <1>2, <1>3, <1>5, HasLeafIs DEF Sound
<1>7. PICK moved : moved = FindLeaf(Root(src), id)
  OBVIOUS
<1>8. moved \in Node(Apps, AllDirs) /\ moved.kind = "leaf" /\ moved.id = id
  BY <1>5, <1>6, <1>7, FindLeafApp
<1>9. PICK only \in BOOLEAN : only = IsLeaf(Root(src))
  BY DEF IsLeaf
<1>10. PICK g : g = IF only THEN gen + 1 ELSE gen
  OBVIOUS
<1>11. PICK left, dir, graft :
         /\ left = IF only THEN LeafTree(NewLeaf(gen + 1, NoApp)) ELSE removeLeaf(Root(src), id)
         /\ dir = IF opDir = NoDir THEN "row" ELSE opDir
         /\ graft = GraftLeaf(Root(dst), moved, target, dir, g)
  OBVIOUS
<1>12. workspaces' = [workspaces EXCEPT ![src].root = left, ![dst].root = graft]
  BY <1>1, <1>7, <1>9, <1>10, <1>11 DEF OpMoveLeaf
<1>13. Kept(Root(src), left, gen, id, NoNode)
  <2>1. CASE only
    <3>1. PICK leaf : leaf = NewLeaf(gen + 1, NoApp)
      OBVIOUS
    <3>2. leaf \in Node(Apps, AllDirs) /\ leaf.kind = "leaf" /\ leaf.id = gen + 1
      <4>1. gen + 1 \in Nat \ {0} /\ NoApp \in Apps
        BY <1>4, BoundsAssumption
      <4>. QED BY <3>1, <4>1, NewLeafNode
    <3>3. left = LeafTree(leaf)
      BY <1>11, <2>1, <3>1
    <3>4. DOMAIN left = {<<>>} /\ left[<<>>] = leaf
      BY <3>2, <3>3, LeafTreeTree
    <3>5. \A x \in DOMAIN left : left[x].id > gen
      BY <1>4, <3>2, <3>4
    <3>. QED BY <3>5, KeptWhenNew
  <2>2. CASE ~only
    <3>1. left = removeLeaf(Root(src), id) /\ ~IsLeaf(Root(src))
      BY <1>9, <1>11, <2>2
    <3>. QED BY <1>5, <1>6, <3>1, KeptByRemoveLeaf
  <2>. QED BY <2>1, <2>2
<1>14. Kept(Root(dst), graft, gen, id, NoNode)
  <2>1. dir \in AllDirs /\ g \in Nat /\ g >= gen
    BY <1>4, <1>10, <1>11 DEF AllDirs, Dirs
  <2>2. PICK t : t = Root(dst)
    OBVIOUS
  <2>3. Sound(t, Apps, AllDirs) /\ (target # NoNode => target \in LeafIds(t))
    BY <1>5, <1>6, <2>2
  <2>4. Kept(t, GraftLeaf(t, moved, target, dir, g), gen, moved.id, NoNode)
    BY <1>4, <1>8, <2>1, <2>3, KeptByGraftLeaf
  <2>. QED BY <1>8, <1>11, <2>2, <2>4
<1>15. /\ DOMAIN workspaces' = Indices /\ workspaces'[src].root = left /\ workspaces'[dst].root = graft
       /\ \A j \in Indices : j # src /\ j # dst => workspaces'[j] = workspaces[j]
  <2>1. PICK w1, w2 : w1 = [workspaces[src] EXCEPT !.root = left] /\ w2 = [workspaces[dst] EXCEPT !.root = graft]
    OBVIOUS
  <2>2. w1.root = left /\ w2.root = graft
    BY <1>4, <2>1 DEF Workspaces
  <2>3. PICK mid : mid = [workspaces EXCEPT ![src] = w1]
    OBVIOUS
  <2>4. DOMAIN mid = Indices /\ mid[src] = w1 /\ \A j \in Indices : j # src => mid[j] = workspaces[j]
    BY <1>3, <1>4, <2>3
  <2>5. mid = [workspaces EXCEPT ![src].root = left]
    BY <2>1, <2>3
  <2>6. workspaces' = [mid EXCEPT ![dst].root = graft]
    BY <1>12, <2>5
  <2>7. workspaces' = [mid EXCEPT ![dst] = w2]
    BY <1>2, <1>3, <2>1, <2>4, <2>6
  <2>. QED BY <1>2, <1>3, <2>2, <2>4, <2>7
<1>16. ASSUME NEW j \in Indices PROVE \E h \in Indices : Kept(Root(h), workspaces'[j].root, gen, id, NoNode)
  <2>1. CASE j = src
    BY <1>13, <1>15, <2>1
  <2>2. CASE j = dst
    BY <1>14, <1>15, <2>2
  <2>3. CASE j # src /\ j # dst
    <3>1. workspaces'[j].root = Root(j)
      BY <1>15, <2>3 DEF Root
    <3>2. Kept(Root(j), Root(j), gen, id, NoNode)
      BY KeptSame
    <3>. QED BY <3>1, <3>2
  <2>. QED BY <2>1, <2>2, <2>3
<1>. QED BY <1>15, <1>16 DEF AllKept

\* Ops that change no tree, and those that drop one.
LEMMA OldTreesKept ==
  ASSUME \A j \in DOMAIN workspaces' : \E i \in Indices : workspaces'[j].root = Root(i)
  PROVE  AllKept(NoNode, NoNode)
<1> SUFFICES ASSUME NEW j \in DOMAIN workspaces'
             PROVE  \E i \in Indices : Kept(Root(i), workspaces'[j].root, gen, NoNode, NoNode)
  BY DEF AllKept
<1>1. PICK i \in Indices : workspaces'[j].root = Root(i)
  OBVIOUS
<1>2. Kept(Root(i), Root(i), gen, NoNode, NoNode)
  BY KeptSame
<1>. QED BY <1>1, <1>2

\* A tree of new nodes in a workspace of its own.
LEMMA AddedKept ==
  ASSUME IInv, NEW w, workspaces' = Append(workspaces, w), \A x \in DOMAIN w.root : w.root[x].id > gen
  PROVE  AllKept(NoNode, NoNode)
<1>1. /\ DOMAIN workspaces' = 1..(Len(workspaces) + 1) /\ workspaces'[Len(workspaces) + 1] = w
      /\ \A j \in 1..Len(workspaces) : workspaces'[j] = workspaces[j]
      /\ Indices = 1..Len(workspaces) /\ Len(workspaces) \in Nat /\ 1 \in Indices
  BY SequenceOfWorkspaces
<1> SUFFICES ASSUME NEW j \in DOMAIN workspaces'
             PROVE  \E i \in Indices : Kept(Root(i), workspaces'[j].root, gen, NoNode, NoNode)
  BY DEF AllKept
<1>2. CASE j \in 1..Len(workspaces)
  <2>1. workspaces'[j].root = Root(j) /\ j \in Indices
    BY <1>1, <1>2 DEF Root
  <2>2. Kept(Root(j), Root(j), gen, NoNode, NoNode)
    BY KeptSame
  <2>. QED BY <2>1, <2>2
<1>3. CASE j = Len(workspaces) + 1
  <2>1. workspaces'[j].root = w.root
    BY <1>1, <1>3
  <2>2. Kept(Root(1), w.root, gen, NoNode, NoNode)
    BY KeptWhenNew
  <2>. QED BY <1>1, <2>1, <2>2
<1>. QED BY <1>1, <1>2, <1>3

LEMMA AddWorkspaceLocal ==
  ASSUME IInv, NEW app \in Apps, OpAddWorkspace(app)
  PROVE  AllKept(NoNode, NoNode)
<1>1. gen \in Nat
  BY SequenceOfWorkspaces
<1>2. PICK leaf : leaf = NewLeaf(gen + 1, app)
  OBVIOUS
<1>3. leaf \in Node(Apps, AllDirs) /\ leaf.kind = "leaf" /\ leaf.id = gen + 1
  <2>1. gen + 1 \in Nat \ {0}
    BY <1>1
  <2>. QED BY <1>2, <2>1, NewLeafNode
<1>4. PICK t : t = LeafTree(leaf)
  OBVIOUS
<1>5. DOMAIN t = {<<>>} /\ t[<<>>] = leaf
  BY <1>3, <1>4, LeafTreeTree
<1>6. PICK w : w = [id |-> wsSeq + 1, name |-> WsName(Len(workspaces) + 1), root |-> t]
  OBVIOUS
<1>7. workspaces' = Append(workspaces, w)
  BY <1>2, <1>4, <1>6 DEF OpAddWorkspace
<1>8. \A x \in DOMAIN w.root : w.root[x].id > gen
  BY <1>1, <1>3, <1>5, <1>6
<1>. QED BY <1>7, <1>8, AddedKept

LEMMA CloneWorkspaceLocal ==
  ASSUME IInv, NEW ws, OpCloneWorkspace(ws)
  PROVE  AllKept(NoNode, NoNode)
<1>1. PICK i \in Indices : i = WorkspaceByID(ws)
  BY WorkspaceFound DEF OpCloneWorkspace
<1>2. gen \in Nat /\ Sound(Root(i), Apps, AllDirs)
  BY SequenceOfWorkspaces, OneWorkspace
<1>3. PICK t, c, n : t = Root(i) /\ c = CloneFresh(t, gen) /\ n = Cardinality(DOMAIN t)
  OBVIOUS
<1>4. n \in Nat /\ NodeIds(c) \subseteq (gen + 1)..(gen + n)
  BY <1>2, <1>3, CloneFreshSound
<1>5. PICK w : w = [id |-> wsSeq + 1, name |-> [workspaces[i].name EXCEPT !.primes = @ + 1], root |-> c]
  OBVIOUS
<1>6. workspaces' = Append(workspaces, w)
  BY <1>1, <1>3, <1>5 DEF OpCloneWorkspace
<1>7. \A x \in DOMAIN w.root : w.root[x].id > gen
  <2>1. \A x \in DOMAIN c : c[x].id \in NodeIds(c)
    BY DEF NodeIds
  <2>2. \A x \in DOMAIN c : c[x].id > gen
    BY <1>2, <1>4, <2>1
  <2>3. w.root = c
    BY <1>5
  <2>. QED BY <2>2, <2>3
<1>. QED BY <1>6, <1>7, AddedKept

LEMMA RemoveWorkspaceLocal ==
  ASSUME IInv, NEW ws, OpRemoveWorkspace(ws)
  PROVE  AllKept(NoNode, NoNode)
<1>1. PICK n : n = Len(workspaces)
  OBVIOUS
<1>2. workspaces \in Seq(Workspaces) /\ Indices = 1..n /\ n \in Nat
  BY <1>1, SequenceOfWorkspaces
<1>3. PICK k \in 1..n : k = WorkspaceByID(ws)
  BY <1>2, WorkspaceFound DEF OpRemoveWorkspace
<1>4. workspaces' = RemoveAt(workspaces, k)
  BY <1>3 DEF OpRemoveWorkspace
<1>5. /\ workspaces' \in Seq(Workspaces) /\ Len(workspaces') = n - 1
      /\ \A i \in 1..(n - 1) : workspaces'[i] = IF i <= k - 1 THEN workspaces[i] ELSE workspaces[i + 1]
  <2>1. /\ RemoveAt(workspaces, k) \in Seq(Workspaces) /\ Len(RemoveAt(workspaces, k)) = Len(workspaces) - 1
        /\ \A i \in 1..(Len(workspaces) - 1) :
             RemoveAt(workspaces, k)[i] = IF i <= k - 1 THEN workspaces[i] ELSE workspaces[i + 1]
    BY <1>1, <1>2, Removed
  <2>. QED BY <1>1, <1>4, <2>1
<1>6. DOMAIN workspaces' = 1..(n - 1)
  BY <1>5, LenProperties
<1>7. ASSUME NEW j \in 1..(n - 1) PROVE \E i \in Indices : workspaces'[j].root = Root(i)
  <2>1. j \in Indices /\ j + 1 \in Indices
    BY <1>2
  <2>. QED BY <1>5, <2>1 DEF Root
<1>. QED BY <1>6, <1>7, OldTreesKept

LEMMA RenameWorkspaceLocal ==
  ASSUME IInv, NEW ws, NEW name \in Names, OpRenameWorkspace(ws, name)
  PROVE  AllKept(NoNode, NoNode)
<1>1. PICK i \in Indices : i = WorkspaceByID(ws)
  BY WorkspaceFound DEF OpRenameWorkspace
<1>2. workspaces \in Seq(Workspaces) /\ i \in 1..Len(workspaces) /\ workspaces[i] \in Workspaces
  BY OneWorkspace, SequenceOfWorkspaces
<1>3. PICK w : w = [workspaces[i] EXCEPT !.name = GivenName(name)]
  OBVIOUS
<1>4. w.root = Root(i)
  BY <1>2, <1>3 DEF Workspaces, Root
<1>5. workspaces' = [workspaces EXCEPT ![i] = w]
  BY <1>1, <1>3 DEF OpRenameWorkspace
<1>6. DOMAIN workspaces' = Indices /\ \A j \in Indices : workspaces'[j].root = Root(j)
  BY <1>2, <1>4, <1>5 DEF Indices, Root
<1>. QED BY <1>6, OldTreesKept

LEMMA SameTreesLocal ==
  ASSUME UNCHANGED workspaces
  PROVE  AllKept(NoNode, NoNode)
BY OldTreesKept DEF Indices, Root

LEMMA StepLocal == IInv /\ IInv' /\ [Next]_vars => LocalStep(Dividers, Dividers', Sided, Sided')
<1> SUFFICES ASSUME IInv, IInv', [Next]_vars
             PROVE  \E l, r : (l = NoNode \/ r = NoNode) /\ AllKept(l, r)
  BY LocalWhenKept
<1>1. ASSUME NEW id \in AllIds, NEW i \in {WsFor(pin, id) : pin \in {NoWs} \cup AllWs} \ {0},
             \/ \E dir \in OpDirs, app \in Apps : OpSplitLeaf(i, id, dir, app)
             \/ OpCloseLeaf(i, id)
             \/ \E ratio \in OpRatios : OpSetRatio(i, id, ratio)
             \/ \E app \in Apps : OpSetLeafApp(i, id, app)
             \/ \E target \in AllIds : OpSwapLeaves(i, id, target)
             \/ \E target \in AllIds, zone \in Zones : OpMoveSplit(i, id, target, zone)
      PROVE  AllKept(NoNode, NoNode) \/ AllKept(NoNode, id) \/ AllKept(id, NoNode)
  <2>1. i \in Indices
    BY WsForFound
  <2>. QED BY <1>1, <2>1, SplitLeafLocal, CloseLeafLocal, SetRatioLocal, SetLeafAppLocal, SwapLeavesLocal, MoveSplitLocal
<1>2. ASSUME NEW id \in AllIds, NEW ws \in AllWs, NEW target \in {NoNode} \cup AllIds, NEW dir \in OpDirs,
             OpMoveLeaf(id, ws, target, dir)
      PROVE  AllKept(id, NoNode)
  BY <1>2, MoveLeafLocal
<1>3. ASSUME NEW app \in Apps, OpAddWorkspace(app) PROVE AllKept(NoNode, NoNode)
  BY <1>3, AddWorkspaceLocal
<1>4. ASSUME NEW ws \in AllWs,
             \/ OpRemoveWorkspace(ws)
             \/ \E name \in Names : OpRenameWorkspace(ws, name)
             \/ OpCloneWorkspace(ws)
      PROVE  AllKept(NoNode, NoNode)
  BY <1>4, RemoveWorkspaceLocal, RenameWorkspaceLocal, CloneWorkspaceLocal
<1>5. ASSUME \/ \E ws \in AllWs : OpSwitchWorkspace(ws)
             \/ Deserialize
             \/ UNCHANGED vars
      PROVE  AllKept(NoNode, NoNode)
  <2>1. UNCHANGED workspaces
    BY <1>5 DEF OpSwitchWorkspace, Deserialize, vars
  <2>. QED BY <2>1, SameTreesLocal
<1>6. (\E id : AllKept(NoNode, id) \/ AllKept(id, NoNode))
  BY <1>1, <1>2, <1>3, <1>4, <1>5 DEF Next
<1>. QED BY <1>6

\* A divider that survives a step keeps its direction, and the step moves one
\* leaf across dividers, or one divider, or none (tree.go, ops.go).
THEOREM DividersStayLocal == Spec => DividersLocal
<1>1. IInv /\ IInv' /\ [Next]_vars => [LocalStep(Dividers, Dividers', Sided, Sided')]_vars
  BY StepLocal
<1>. QED BY <1>1, Invariants, PTL DEF Spec, DividersLocal
=============================================================================
