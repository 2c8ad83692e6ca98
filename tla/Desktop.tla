------------------------------ MODULE Desktop ------------------------------
(***************************************************************************)
(* The layout state of pkg/wmcore (desktop.go, ops.go): workspaces, the    *)
(* current one and the id generators, changed only by Apply(d, op).  One   *)
(* action per op name, plus the round trip through Serialize and           *)
(* DeserializeDesktop.  An op that fails returns an error and leaves the   *)
(* desktop as it was: a failure is a stuttering step, the conditions under *)
(* which the code reports none are the guards.                             *)
(***************************************************************************)
EXTENDS SplitTree, Integers

CONSTANTS
  Apps,       \* application slots an op may name; NoApp is the launcher
  OpDirs,     \* values of Op.Dir: the code never validates it
  OpRatios,   \* values of Op.Ratio, in percent
  Names,      \* names for rename-workspace
  MaxId,      \* bound on IDGen.n
  MaxWs,      \* bound on Desktop.wsSeq
  MaxLeaves   \* bound on the leaves of one workspace

NoApp == ""
NoDir == ""   \* an op without a direction
NoWs == 0     \* the empty workspace id; nextWSID mints ws1, ws2, ...: 1, 2, ...

ASSUME BoundsAssumption ==
    /\ MaxId \in Nat \ {0} /\ MaxWs \in Nat \ {0} /\ MaxLeaves \in Nat \ {0}
    /\ OpRatios \subseteq Nat
    /\ NoApp \in Apps

VARIABLES
  workspaces,  \* sequence of [id, name, root]
  current,     \* id of the current workspace
  gen,         \* IDGen.n
  wsSeq        \* Desktop.wsSeq

vars == <<workspaces, current, gen, wsSeq>>

Zones == {"left", "right", "top", "bottom", "center"}
AllIds == 1..MaxId
AllWs == 1..MaxWs
-----------------------------------------------------------------------------
(* Lookups.  A workspace is addressed by its index; 0 stands for nil.      *)

Indices == DOMAIN workspaces
FirstIndex(S) == IF S = {} THEN 0 ELSE CHOOSE i \in S : \A j \in S : i <= j

WorkspaceByID(id) == FirstIndex({i \in Indices : workspaces[i].id = id})

FindLeafWorkspace(id) == FirstIndex({i \in Indices : HasLeaf(workspaces[i].root, id)})

\* wsFor(): an op's workspace pins the lookup, else the leaf's workspace,
\* else the first one that has the node at all.
WsFor(pin, id) ==
    IF pin # NoWs THEN WorkspaceByID(pin)
    ELSE IF FindLeafWorkspace(id) # 0 THEN FindLeafWorkspace(id)
    ELSE FirstIndex({i \in Indices : id \in NodeIds(workspaces[i].root)})

Root(i) == workspaces[i].root
SetRoot(i, root) == workspaces' = [workspaces EXCEPT ![i].root = root]

\* Names: "ws-%d" of the count, a source's name with a prime, or what
\* rename-workspace was given.
WsName(n) == [base |-> "ws-", n |-> n, primes |-> 0]
GivenName(s) == [base |-> s, n |-> 0, primes |-> 0]
-----------------------------------------------------------------------------
\* NewDesktop(firstApp).
Init ==
    \E app \in Apps :
        /\ workspaces = <<[id |-> 1, name |-> WsName(1), root |-> LeafTree(NewLeaf(1, app))]>>
        /\ current = 1
        /\ gen = 1
        /\ wsSeq = 1

OpSplitLeaf(i, id, dir, app) ==
    /\ HasLeaf(Root(i), id)
    /\ gen + 2 <= MaxId /\ CountLeaves(Root(i)) < MaxLeaves
    /\ SetRoot(i, SplitLeaf(Root(i), id, dir, app, gen))
    /\ gen' = gen + 2
    /\ UNCHANGED <<current, wsSeq>>

OpCloseLeaf(i, id) ==
    /\ HasLeaf(Root(i), id)
    /\ ~IsLeaf(Root(i))
    /\ SetRoot(i, CloseLeaf(Root(i), id))
    /\ UNCHANGED <<current, gen, wsSeq>>

OpSetRatio(i, id, ratio) ==
    /\ HasSplit(Root(i), id)
    /\ SetRoot(i, SetRatio(Root(i), id, ratio))
    /\ UNCHANGED <<current, gen, wsSeq>>

OpSetLeafApp(i, id, app) ==
    /\ HasLeaf(Root(i), id)
    /\ SetRoot(i, SetLeafApp(Root(i), id, app))
    /\ UNCHANGED <<current, gen, wsSeq>>

OpSwapLeaves(i, id, target) ==
    /\ HasLeaf(Root(i), id) /\ HasLeaf(Root(i), target)
    /\ SetRoot(i, SwapLeaves(Root(i), id, target))
    /\ UNCHANGED <<current, gen, wsSeq>>

OpMoveSplit(i, id, target, zone) ==
    /\ id # target
    /\ HasLeaf(Root(i), id) /\ HasLeaf(Root(i), target)
    /\ gen + 1 <= MaxId
    /\ SetRoot(i, MoveSplit(Root(i), id, target, zone, gen))
    /\ gen' = gen + 1
    /\ UNCHANGED <<current, wsSeq>>

\* The op's workspace is the destination.  Moving the only leaf of the
\* source leaves a fresh launcher leaf behind.
OpMoveLeaf(id, ws, target, opDir) ==
    LET src   == FindLeafWorkspace(id)
        dst   == WorkspaceByID(ws)
        dir   == IF opDir = NoDir THEN "row" ELSE opDir
        moved == FindLeaf(Root(src), id)
        only  == IsLeaf(Root(src))
        g     == IF only THEN gen + 1 ELSE gen
        left  == IF only THEN LeafTree(NewLeaf(gen + 1, NoApp)) ELSE removeLeaf(Root(src), id)
        graft == GraftLeaf(Root(dst), moved, target, dir, g)
    IN /\ src # 0 /\ dst # 0
       /\ src # dst
       /\ target # NoNode => HasLeaf(Root(dst), target)
       /\ g + 1 <= MaxId /\ CountLeaves(Root(dst)) < MaxLeaves
       /\ workspaces' = [workspaces EXCEPT ![src].root = left, ![dst].root = graft]
       /\ gen' = IF graft = Root(dst) THEN g ELSE g + 1
       /\ UNCHANGED <<current, wsSeq>>

OpAddWorkspace(app) ==
    /\ wsSeq + 1 <= MaxWs /\ gen + 1 <= MaxId
    /\ workspaces' = Append(workspaces,
                            [id   |-> wsSeq + 1,
                             name |-> WsName(Len(workspaces) + 1),
                             root |-> LeafTree(NewLeaf(gen + 1, app))])
    /\ current' = wsSeq + 1
    /\ gen' = gen + 1
    /\ wsSeq' = wsSeq + 1

OpRemoveWorkspace(ws) ==
    LET i    == WorkspaceByID(ws)
        rest == RemoveAt(workspaces, i)
    IN /\ Len(workspaces) >= 2
       /\ i # 0
       /\ workspaces' = rest
       /\ current' = IF current = ws THEN rest[1].id ELSE current
       /\ UNCHANGED <<gen, wsSeq>>

OpRenameWorkspace(ws, name) ==
    LET i == WorkspaceByID(ws)
    IN /\ i # 0
       /\ workspaces' = [workspaces EXCEPT ![i].name = GivenName(name)]
       /\ UNCHANGED <<current, gen, wsSeq>>

\* The copy is appended under fresh ids and becomes current.
OpCloneWorkspace(ws) ==
    LET i == WorkspaceByID(ws)
        n == Cardinality(DOMAIN Root(i))
    IN /\ i # 0
       /\ wsSeq + 1 <= MaxWs /\ gen + n <= MaxId
       /\ workspaces' = Append(workspaces,
                               [id   |-> wsSeq + 1,
                                name |-> [workspaces[i].name EXCEPT !.primes = @ + 1],
                                root |-> CloneFresh(Root(i), gen)])
       /\ current' = wsSeq + 1
       /\ gen' = gen + n
       /\ wsSeq' = wsSeq + 1

OpSwitchWorkspace(ws) ==
    /\ WorkspaceByID(ws) # 0
    /\ current' = ws
    /\ UNCHANGED <<workspaces, gen, wsSeq>>

\* Serialize drops the generators; DeserializeDesktop reseeds them past every
\* workspace id and node id the text holds.
MutDeserialize ==
    /\ gen' = Max(UNION {LeafIds(Root(i)) : i \in Indices})
    /\ wsSeq' = Max({workspaces[i].id : i \in Indices})
    /\ UNCHANGED <<workspaces, current>>
Deserialize ==
    /\ gen' = Max(UNION {NodeIds(Root(i)) : i \in Indices})
    /\ wsSeq' = Max({workspaces[i].id : i \in Indices})
    /\ UNCHANGED <<workspaces, current>>

\* Apply(d, op) for every op a caller can send: the node, target and
\* workspace operands need not exist.  Node-addressed ops resolve their
\* workspace first.
Next ==
    \/ \E id \in AllIds : \E i \in {WsFor(pin, id) : pin \in {NoWs} \cup AllWs} \ {0} :
           \/ \E dir \in OpDirs, app \in Apps : OpSplitLeaf(i, id, dir, app)
           \/ OpCloseLeaf(i, id)
           \/ \E ratio \in OpRatios : OpSetRatio(i, id, ratio)
           \/ \E app \in Apps : OpSetLeafApp(i, id, app)
           \/ \E target \in AllIds : OpSwapLeaves(i, id, target)
           \/ \E target \in AllIds, zone \in Zones : OpMoveSplit(i, id, target, zone)
    \/ \E id \in AllIds, ws \in AllWs, target \in {NoNode} \cup AllIds, dir \in OpDirs :
          OpMoveLeaf(id, ws, target, dir)
    \/ \E app \in Apps : OpAddWorkspace(app)
    \/ \E ws \in AllWs :
        \/ OpRemoveWorkspace(ws)
        \/ \E name \in Names : OpRenameWorkspace(ws, name)
        \/ OpCloneWorkspace(ws)
        \/ OpSwitchWorkspace(ws)
    \/ Deserialize

Spec == Init /\ [][Next]_vars
-----------------------------------------------------------------------------
(* Properties.                                                             *)

TypeOK ==
    /\ gen \in AllIds /\ wsSeq \in AllWs /\ current \in AllWs
    /\ \A i \in Indices :
        /\ workspaces[i].id \in AllWs
        /\ \A p \in DOMAIN Root(i) :
            /\ p \in Seq(Sides)
            /\ Root(i)[p] \in [id : AllIds, kind : {"leaf", "split"}, app : Apps,
                               dir : Dirs \cup OpDirs \cup {NoDir}, ratio : 0..MaxRatio]

(***************************************************************************)
(* Desktop.Validate() holds after every sequence of ops, round trips       *)
(* included: there is a workspace, the current one exists, every tree is   *)
(* well formed, and no node id occurs at two places of the desktop (the    *)
(* window manager's frame map is keyed by it).  The ids of a desktop are   *)
(* all below the generators, so the next one minted is fresh.              *)
(***************************************************************************)
DesktopValid ==
    /\ workspaces # <<>>
    /\ \E i \in Indices : workspaces[i].id = current
    /\ \A i \in Indices : Validate(Root(i))
    /\ \A i, j \in Indices : i # j =>
        /\ workspaces[i].id # workspaces[j].id
        /\ NodeIds(Root(i)) \cap NodeIds(Root(j)) = {}
    /\ \A i \in Indices : workspaces[i].id <= wsSeq /\ \A n \in NodeIds(Root(i)) : n <= gen

(***************************************************************************)
(* The tree surgery implements the rows of tiles of LeafSlots: read in     *)
(* traversal order, a workspace's leaves change only as an operation of    *)
(* LeafSlots changes them: a leaf that moves keeps its id and slot, the    *)
(* others their order, and none appears or is lost besides.                *)
(***************************************************************************)
LeafRow(i) == LET ls == Leaves(Root(i)) IN [k \in DOMAIN ls |-> [id |-> ls[k].id, app |-> ls[k].app]]
Slots == [w \in {workspaces[i].id : i \in Indices} |-> LeafRow(WorkspaceByID(w))]
Rows == INSTANCE LeafSlots WITH Ids <- AllIds, WsIds <- AllWs, slots <- Slots
ImplementsLeafSlots == Rows!Spec

(***************************************************************************)
(* Tree surgery is local: whatever op closes, docks, moves or grafts, a    *)
(* divider that survives it keeps its direction, the leaves that stay      *)
(* under it stay on their side of it (but for the one leaf that is being   *)
(* moved), and at most one divider changes position, in a step in which    *)
(* no leaf changes side.                                                   *)
(***************************************************************************)
Dividers == UNION {{Root(i)[p] : p \in DOMAIN Root(i) \ LeafPaths(Root(i))} : i \in Indices}
Sided ==
    UNION {UNION {{<<Root(i)[p].id, Root(i)[SubSeq(p, 1, n)].id, p[n + 1]>> : n \in 0..(Len(p) - 1)}
                    : p \in LeafPaths(Root(i))} : i \in Indices}
LocalStep(divs, divs2, sided, sided2) ==
    LET crossed == {x[1] : x \in {y \in sided : \E z \in sided2 : z[1] = y[1] /\ z[2] = y[2] /\ z[3] # y[3]}}
        resized == {d \in divs : \E e \in divs2 : e.id = d.id /\ e.ratio # d.ratio}
    IN /\ \A d \in divs, e \in divs2 : d.id = e.id => d.dir = e.dir
       /\ Cardinality(crossed) + Cardinality(resized) <= 1
DividersLocal == [][LocalStep(Dividers, Dividers', Sided, Sided')]_vars

(***************************************************************************)
(* tree.go on Validate: "splits have exactly two children with a valid     *)
(* direction ...  Property tests run this after every operation."  Every   *)
(* tree of the desktop passes it, whatever direction the op that made a    *)
(* split came with.                                                        *)
(***************************************************************************)
TreesValid == \A i \in Indices : Validate(Root(i))
=============================================================================
