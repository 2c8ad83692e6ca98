------------------------------ MODULE WmShell ------------------------------
(***************************************************************************)
(* The shell of pkg/wmx11: what the window manager's loop keeps about X    *)
(* windows, and how X events, key bindings, clicks, IPC and scripts change *)
(* it.  One goroutine runs every handler to its end, so a handler is an    *)
(* action; what interleaves is the clients' doings, which reach the loop   *)
(* late, with everything else.                                             *)
(*                                                                         *)
(* The handlers call each other, so that the state of struct WM is one     *)
(* record, threaded through an operator per method.  A workspace's tree is *)
(* the row of its leaves (Desktop shows that its trees implement such rows)*)
(* and geometry, painting and events are left out.  The frame of a client  *)
(* is named by the client, a builtin tile's frame by a number.             *)
(*                                                                         *)
(* Ids that the state no longer mentions are minted again: the code counts *)
(* on, but nothing tells a forgotten id from an unused one.                *)
(*                                                                         *)
(* An operator Mut... is a faulty variant of the one after it, there to be *)
(* told apart by the properties; nothing uses it.                          *)
(***************************************************************************)
EXTENDS Naturals, Sequences, FiniteSets, FiniteSetsExt, SequencesExt

CONSTANTS
  Clients,     \* client windows
  None,        \* no window, no frame
  Ops,         \* the operations users, scripts and IPC callers of the model use
  MaxLeaves,   \* bound on the leaves of all workspaces
  MaxWs        \* bound on the workspaces

ASSUME ShellAssumption ==
    /\ None \notin Clients /\ IsFiniteSet(Clients)
    /\ \A c \in Clients \cup {None} : c \notin Nat   \* no client is named like a builtin frame
    /\ MaxLeaves \in Nat \ {0} /\ MaxWs \in Nat \ {0}

VARIABLES
  wm,   \* the WM struct
  x     \* client -> what its window did last: "out" (no window, or an unmapped one),
        \* "asking" (MapRequest queued), "mapped", "adopted" (mapped; reparenting a mapped
        \* window queued an UnmapNotify), "unmapping" (UnmapNotify queued), "dying"
        \* (DestroyNotify queued), "vanishing" (destroyed with its MapRequest queued)

vars == <<wm, x>>

NoLeaf == 0
NoWs == 0
LeafIds == 1..(2 * MaxLeaves + Cardinality(Clients) + 3)
WsIds == 1..(MaxWs + Cardinality(Clients))
Builtins == 1..(MaxLeaves + 2)

\* Leaf.App: the launcher, a client, a builtin or script tile.
Launcher == ""
NoApp == ""    \* an operation without an app
Win == "win"
Builtin == "builtin:trace"
isBuiltinLeaf(app) == app # Win

Target(kind, leaf, client) == [kind |-> kind, leaf |-> leaf, client |-> client]
NoTarget == Target("none", NoLeaf, None)
-----------------------------------------------------------------------------
(* Lookups in the desktop.                                                 *)

\* The maps of Go: m[k] = v, and one over the other.
Put(m, k, v) == [d \in DOMAIN m \cup {k} |-> IF d = k THEN v ELSE m[d]]
Over(n, m) == [d \in DOMAIN n \cup DOMAIN m |-> IF d \in DOMAIN n THEN n[d] ELSE m[d]]

RowIds(row) == {row[k].id : k \in DOMAIN row}
Leaves(s) == UNION {RowIds(s.spaces[i].row) : i \in DOMAIN s.spaces}
WsOf(s, leaf) == CHOOSE i \in DOMAIN s.spaces : leaf \in RowIds(s.spaces[i].row)
Pos(row, leaf) == CHOOSE k \in DOMAIN row : row[k].id = leaf
RowOf(s, leaf) == s.spaces[WsOf(s, leaf)].row
AppOf(s, leaf) == RowOf(s, leaf)[Pos(RowOf(s, leaf), leaf)].app
WsIdsOf(s) == {s.spaces[i].id : i \in DOMAIN s.spaces}
WsAt(s, ws) == CHOOSE i \in DOMAIN s.spaces : s.spaces[i].id = ws
CurrentRow(s) == s.spaces[WsAt(s, s.cur)].row
CurrentLeaves(s) == RowIds(CurrentRow(s))
SameWs(s, a, b) == {a, b} \subseteq Leaves(s) /\ WsOf(s, a) = WsOf(s, b)

\* Where the current workspace has leaves with a frame.
FramedLeaves(s) == {k \in DOMAIN CurrentRow(s) : CurrentRow(s)[k].id \in DOMAIN s.frames}

Mentioned(s) ==
    Leaves(s) \cup DOMAIN s.frames \cup {s.leafOf[f] : f \in DOMAIN s.leafOf}
        \cup {s.target.leaf, s.preserved}
FreshLeaf(s) == Min(LeafIds \ Mentioned(s))
FreshWs(s) == Min(WsIds \ (WsIdsOf(s) \cup {s.wsOf[c] : c \in DOMAIN s.wsOf}))
KthMin(S, k) == CHOOSE n \in S : Cardinality({m \in S : m < n}) = k - 1
-----------------------------------------------------------------------------
(* wmcore.Apply on rows.  An op is a record; CanApply says when the code   *)
(* reports no error, Fits that the result stays within the model's bounds. *)

Op(op, node, target, ws, app) == [op |-> op, node |-> node, target |-> target, ws |-> ws, app |-> app]

CanApply(s, o) ==
    CASE o.op \in {"split-leaf", "set-leaf-app"} -> o.node \in Leaves(s)
      [] o.op = "close-leaf"       -> o.node \in Leaves(s) /\ Len(RowOf(s, o.node)) > 1
      [] o.op = "swap-leaves"      -> SameWs(s, o.node, o.target)
      [] o.op = "move-split"       -> SameWs(s, o.node, o.target) /\ o.node # o.target
      [] o.op = "move-leaf"        -> /\ o.node \in Leaves(s) /\ o.ws \in WsIdsOf(s)
                                      /\ s.spaces[WsOf(s, o.node)].id # o.ws
      [] o.op = "remove-workspace" -> o.ws \in WsIdsOf(s) /\ Len(s.spaces) > 1
      [] o.op \in {"clone-workspace", "switch-workspace"} -> o.ws \in WsIdsOf(s)
      [] o.op = "add-workspace"    -> TRUE

NewLeaves(s, o) ==
    CASE o.op \in {"split-leaf", "add-workspace", "move-leaf"} -> 1
      [] o.op = "clone-workspace" -> Len(s.spaces[WsAt(s, o.ws)].row)
      [] OTHER -> 0
Fits(s, o) ==
    /\ Cardinality(Leaves(s)) + NewLeaves(s, o) <= MaxLeaves
    /\ o.op \in {"add-workspace", "clone-workspace"} => Len(s.spaces) < MaxWs

Tile(id, app) == [id |-> id, app |-> app]
AddRow(s, row) ==
    LET ws == FreshWs(s) IN [s EXCEPT !.spaces = Append(@, [id |-> ws, row |-> row]), !.cur = ws]

Core(s, o) ==
    LET i   == WsOf(s, o.node)
        row == s.spaces[i].row
        k   == Pos(row, o.node)
        j   == Pos(row, o.target)
        d   == WsAt(s, o.ws)
        src == s.spaces[d].row
    IN CASE o.op = "split-leaf" ->
              [s EXCEPT !.spaces[i].row = InsertAt(@, k + 1, Tile(FreshLeaf(s), o.app))]
         [] o.op = "close-leaf" -> [s EXCEPT !.spaces[i].row = RemoveAt(@, k)]
         [] o.op = "set-leaf-app" -> [s EXCEPT !.spaces[i].row[k].app = o.app]
         [] o.op = "swap-leaves" ->
              [s EXCEPT !.spaces[i].row = [@ EXCEPT ![k].app = row[j].app, ![j].app = row[k].app]]
         [] o.op = "move-split" ->   \* docked behind the target
              LET rest == RemoveAt(row, k)
              IN [s EXCEPT !.spaces[i].row = InsertAt(rest, Pos(rest, o.target) + 1, row[k])]
         [] o.op = "move-leaf" ->
              LET rest == IF Len(row) = 1 THEN <<Tile(FreshLeaf(s), Launcher)>> ELSE RemoveAt(row, k)
              IN [s EXCEPT !.spaces = [@ EXCEPT ![i].row = rest, ![d].row = Append(src, row[k])]]
         [] o.op = "add-workspace" -> AddRow(s, <<Tile(FreshLeaf(s), o.app)>>)
         [] o.op = "clone-workspace" ->
              AddRow(s, [n \in DOMAIN src |-> Tile(KthMin(LeafIds \ Mentioned(s), n), src[n].app)])
         [] o.op = "remove-workspace" ->
              LET rest == RemoveAt(s.spaces, d)
              IN [s EXCEPT !.spaces = rest, !.cur = IF @ = o.ws THEN rest[1].id ELSE @]
         [] o.op = "switch-workspace" -> [s EXCEPT !.cur = o.ws]
-----------------------------------------------------------------------------
(* Focus: focusState and fullscreenState.                                  *)

IsFloat(s, f) == f \in s.floats

Current(s) ==
    IF s.fs = None THEN s.target
    ELSE IF IsFloat(s, s.fs) THEN Target("fullscreen", s.preserved, s.fs)
    ELSE Target("fullscreen", s.leafOf[s.fs], None)
FocusedLeaf(s) == Current(s).leaf
FocusedFloat(s) ==
    LET cur == Current(s)
    IN IF cur.kind = "float" \/ (cur.kind = "fullscreen" /\ cur.client \in s.floats)
       THEN cur.client ELSE None

FrameAt(s, leaf) == IF leaf \in DOMAIN s.frames THEN s.frames[leaf] ELSE None

\* A frame is on screen: relayout maps the frames of the current workspace's
\* leaves, syncFloats its floats, and both unmap the rest.
OnScreen(s, f) ==
    IF IsFloat(s, f) THEN s.wsOf[f] = s.cur
    ELSE \E l \in CurrentLeaves(s) : FrameAt(s, l) = f

\* SetInputFocus: the server refuses a window that is not viewable.
Give(s, f) ==
    IF OnScreen(s, f) /\ (f \in Clients => x[f] \in {"asking", "adopted", "mapped"}) THEN [s EXCEPT !.xf = f] ELSE s

\* The screen matches the model; the server takes the focus from a window
\* that is no longer viewable.
relayout(s) == IF s.xf # None /\ ~OnScreen(s, s.xf) THEN [s EXCEPT !.xf = None] ELSE s

FocusTile(s, leaf) == [s EXCEPT !.target = Target("tile", leaf, None), !.preserved = leaf]
SetTile(s, leaf) == FocusTile(s, leaf)
FocusFloat(s, f) == [s EXCEPT !.target = Target("float", s.preserved, f)]
FocusFullscreen(s, f) == [s EXCEPT !.target = Target("fullscreen", s.preserved, f)]
Restore(s) == [s EXCEPT !.target = Target("tile", s.preserved, None)]
ClearTarget(s) == [s EXCEPT !.target = NoTarget]

\* focus(leaf): while a frame is fullscreen, focus is pinned to it.
focus(s, leaf) ==
    IF s.fs # None /\ IsFloat(s, s.fs) THEN Give(FocusFullscreen(s, s.fs), s.fs)
    ELSE LET l == IF s.fs = None THEN leaf ELSE s.leafOf[s.fs]
             t == FocusTile(s, l)
         IN IF l \in DOMAIN s.frames THEN Give(t, s.frames[l]) ELSE t
focusFloat(s, f) == Give(FocusFloat(s, f), f)

exitFullscreen(s) ==
    LET t == [s EXCEPT !.fs = None]
    IN IF s.fs = None \/ IsFloat(s, s.fs) THEN t ELSE relayout(t)
MutClearFullscreenFor(s, f) == IF s.fs = f /\ IsFloat(s, f) THEN [s EXCEPT !.fs = None] ELSE s
clearFullscreenFor(s, f) == IF s.fs = f THEN [s EXCEPT !.fs = None] ELSE s

FocusFirst(s) == IF FramedLeaves(s) = {} THEN s ELSE focus(s, CurrentRow(s)[Min(FramedLeaves(s))].id)

Refocus(s) == IF FocusedLeaf(s) \in DOMAIN s.frames THEN focus(s, FocusedLeaf(s)) ELSE s

\* Off a float that is hidden now, then onto the current workspace.
refocusCurrent(s) ==
    LET pf == FocusedFloat(s)
        t  == IF pf \in s.floats /\ s.wsOf[pf] # s.cur THEN Refocus(ClearTarget(s)) ELSE s
    IN IF FocusedLeaf(t) \in CurrentLeaves(t) THEN t ELSE FocusFirst(t)
-----------------------------------------------------------------------------
(* Frames.                                                                 *)

Without(f, S) == [k \in DOMAIN f \ S |-> f[k]]

\* The frames of builtin tiles at the leaves S are destroyed.
DropBuiltins(s, S) ==
    [s EXCEPT !.frames = Without(@, S),
              !.wins = @ \ {s.frames[l] : l \in S},
              !.xf = IF @ \in {s.frames[l] : l \in S} THEN None ELSE @]

\* The builtin leaves in S without a frame get one.
Bare(s, S) == {l \in S \ DOMAIN s.frames : isBuiltinLeaf(AppOf(s, l))}
Free(s) == Builtins \ (s.wins \cup {s.fs})
Ordinal(S, l) == Cardinality({m \in S : m <= l})
NewWins(bare, free) == [l \in bare |-> KthMin(free, Ordinal(bare, l))]
Open(s, new) ==
    LET opened == {new[l] : l \in DOMAIN new}
    IN [s EXCEPT !.frames = Over(new, @),
                 !.wins = @ \cup opened,
                 !.leafOf = Over([f \in opened |-> CHOOSE l \in DOMAIN new : new[l] = f], @)]

\* The frames of vanished builtin leaves go first.
Gone(s) == {l \in DOMAIN s.frames \ Leaves(s) : s.frames[l] \notin Clients}
SyncIn(s, S) ==
    LET t == DropBuiltins(s, Gone(s)) IN Open(t, NewWins(Bare(t, S), Free(t)))
MutSyncBuiltins(s) == SyncIn(s, CurrentLeaves(s))
syncBuiltins(s) == SyncIn(s, Leaves(s))

\* reapOrphanFrames(): clients whose leaves vanished are asked to close.
reapOrphanFrames(s) ==
    [s EXCEPT !.asked = @ \cup ({s.frames[l] : l \in DOMAIN s.frames \ Leaves(s)} \cap Clients)]

Screen(s, reap) == relayout(syncBuiltins(IF reap THEN reapOrphanFrames(s) ELSE s))
Reconcile(s, reap, switch) ==
    IF switch THEN refocusCurrent(exitFullscreen(Screen(s, reap))) ELSE Screen(s, reap)

Reaps(o) == o.op \in {"close-leaf", "remove-workspace"}
MutSwitches(o) == o.op = "switch-workspace"
Switches(o) == o.op \in {"switch-workspace", "add-workspace"}

Apply(s, o) == IF CanApply(s, o) THEN Reconcile(Core(s, o), Reaps(o), Switches(o)) ELSE s

\* Two ops and one reconciliation; the first that fails ends the batch.
MutApplyBatch(s, o1, o2) ==
    LET t == Core(s, o1)
    IN IF CanApply(t, o2) THEN Reconcile(Core(t, o2), Reaps(o1), Switches(o1)) ELSE Apply(s, o1)
ApplyBatch(s, o1, o2) ==
    LET t == Core(s, o1)
    IN IF ~CanApply(t, o2) THEN Reconcile(t, Reaps(o1), Switches(o1))
       ELSE Reconcile(Core(t, o2), Reaps(o1) \/ Reaps(o2), Switches(o1) \/ Switches(o2))

SetApp(leaf, app) == Op("set-leaf-app", leaf, NoLeaf, NoWs, app)
CloseLeaf(leaf) == Op("close-leaf", leaf, NoLeaf, NoWs, NoApp)

\* A leaf that loses its window closes; a workspace's only leaf empties.
VacateOp(s, leaf) == IF Len(RowOf(s, leaf)) = 1 THEN SetApp(leaf, Launcher) ELSE CloseLeaf(leaf)

\* placementLeaf(): a launcher leaf of the current workspace, whose builtin
\* frame is evicted, or a new one next to the focused (or first) leaf.
Empty(s) == {k \in DOMAIN CurrentRow(s) : CurrentRow(s)[k].app = Launcher}
FirstEmpty(s) == CurrentRow(s)[Min(Empty(s))].id
SplitAt(s) == IF FocusedLeaf(s) \in CurrentLeaves(s) THEN FocusedLeaf(s) ELSE CurrentRow(s)[1].id
SplitOp(s) == Op("split-leaf", SplitAt(s), NoLeaf, NoWs, Launcher)
PlacementLeaf(s) == IF Empty(s) # {} THEN FirstEmpty(s) ELSE FreshLeaf(s)
Placed(s) ==
    LET l == FirstEmpty(s)
    IN IF Empty(s) = {} THEN Core(s, SplitOp(s))
       ELSE IF FrameAt(s, l) # None /\ FrameAt(s, l) \notin Clients THEN DropBuiltins(s, {l}) ELSE s
CanPlace(s) == Empty(s) # {} \/ Fits(s, SplitOp(s))

\* A tiled client at a leaf.
Settle(s, c, leaf) ==
    [s EXCEPT !.frames = Put(@, leaf, c), !.leafOf = Put(@, c, leaf)]

manage(s, c) ==
    LET l == PlacementLeaf(s)
        t == Settle(Core(Placed(s), SetApp(l, Win)), c, l)
    IN relayout(focus([t EXCEPT !.managed = @ \cup {c}], l))

MutManageFloat(s, c) ==
    Give([s EXCEPT !.managed = @ \cup {c}, !.floats = @ \cup {c}, !.wsOf = Put(@, c, s.cur)], c)
manageFloat(s, c) ==
    focusFloat([s EXCEPT !.managed = @ \cup {c}, !.floats = @ \cup {c}, !.wsOf = Put(@, c, s.cur)], c)

\* The client leaves the maps; Collect drops the rest of its frame.
Forget(s, c) ==
    [s EXCEPT !.managed = @ \ {c}, !.floats = @ \ {c}, !.asked = @ \ {c},
              !.wsOf = Without(@, {c}), !.xf = IF @ = c THEN None ELSE @]

unmanageTile(s, c) ==
    LET leaf == s.leafOf[c]
        t == Forget([clearFullscreenFor(s, c) EXCEPT !.frames = Without(@, {leaf})], c)
        u == syncBuiltins(IF leaf \in Leaves(t) THEN Core(t, VacateOp(t, leaf)) ELSE t)
    IN relayout(IF FocusedLeaf(u) = leaf THEN FocusFirst(ClearTarget(u)) ELSE u)

MutUnmanageFloat(s, c) == Forget(clearFullscreenFor(s, c), c)
unmanageFloat(s, c) ==
    LET heldFocus == FocusedFloat(s) = c \/ s.fs = c
        t == Forget(clearFullscreenFor(s, c), c)
    IN IF heldFocus THEN Refocus(Restore(t)) ELSE t

unmanage(s, c) ==
    IF c \notin s.managed THEN s
    ELSE IF IsFloat(s, c) THEN unmanageFloat(s, c) ELSE unmanageTile(s, c)

\* closeClient(): a builtin tile is closed at once, a client is asked.
closeClient(s, f) ==
    IF f \in Clients THEN [s EXCEPT !.asked = @ \cup {f}]
    ELSE IF s.leafOf[f] \in Leaves(s) THEN Apply(s, VacateOp(s, s.leafOf[f])) ELSE s

toggleFullscreen(s) ==
    LET pf == FocusedFloat(s)
        f  == IF pf \in s.floats THEN pf ELSE FrameAt(s, FocusedLeaf(s))
    IN IF s.fs # None THEN exitFullscreen(s) ELSE [s EXCEPT !.fs = f]

\* The frame of a tile becomes a float; its leaf is vacated like a closed one's.
liftTile(s, c) ==
    LET leaf == s.leafOf[c]
        focused == FocusedLeaf([s EXCEPT !.floats = @ \cup {c}]) = leaf
        t == [s EXCEPT !.frames = Without(@, {leaf}), !.leafOf = Without(@, {c}),
                       !.wsOf = Put(@, c, s.cur),
                       !.floats = @ \cup {c}]
        u == IF focused THEN ClearTarget(t) ELSE t
    IN focusFloat(IF leaf \in Leaves(u) THEN Apply(u, VacateOp(u, leaf)) ELSE u, c)

Sunk(s, c, leaf) ==
    Settle(ClearTarget([Placed(s) EXCEPT !.floats = @ \ {c}, !.wsOf = Without(@, {c})]), c, leaf)
sinkFloat(s, c) == LET l == PlacementLeaf(s) IN focus(Apply(Sunk(s, c, l), SetApp(l, Win)), l)

Floatable(s) == FrameAt(s, FocusedLeaf(s)) \in Clients
toggleFloat(s) ==
    IF FocusedFloat(s) \in s.floats THEN sinkFloat(s, FocusedFloat(s))
    ELSE IF Floatable(s) THEN liftTile(s, FrameAt(s, FocusedLeaf(s))) ELSE s

\* swapFrames(): the apps trade leaves, then the frames follow them.
At(leaf, f) == [l \in (IF f = None THEN {} ELSE {leaf}) |-> f]
Exchange(s, a, b, leafOf) ==
    LET fa == FrameAt(s, a)
        fb == FrameAt(s, b)
        t  == Apply(s, Op("swap-leaves", a, b, NoWs, NoApp))
        u  == [t EXCEPT !.frames = Over(At(a, fb), Over(At(b, fa), Without(@, {a, b}))),
                        !.leafOf = [f \in DOMAIN @ |-> IF f \in DOMAIN leafOf THEN leafOf[f] ELSE @[f]]]
        v  == IF FocusedLeaf(u) = a THEN SetTile(u, b)
              ELSE IF FocusedLeaf(u) = b THEN SetTile(u, a) ELSE u
    IN IF SameWs(s, a, b) THEN relayout(v) ELSE s
MutSwapFrames(s, a, b) == Exchange(s, a, b, [f \in {FrameAt(s, a)} |-> b])
swapFrames(s, a, b) ==
    Exchange(s, a, b, [f \in {FrameAt(s, a), FrameAt(s, b)} |-> IF f = FrameAt(s, b) THEN a ELSE b])

launchBuiltin(s) ==
    LET l == PlacementLeaf(s) IN focus(Apply(Placed(s), SetApp(l, Builtin)), l)
launchIntoTile(s, leaf) == focus(Apply(s, SetApp(leaf, Builtin)), leaf)
-----------------------------------------------------------------------------
(* The clients, through the X server.                                      *)

DropFocus(s, c) == IF s.xf = c THEN [s EXCEPT !.xf = None] ELSE s

ClientMap(c) ==
    /\ x[c] = "out"
    /\ x' = [x EXCEPT ![c] = "asking"]
    /\ UNCHANGED wm

ClientUnmap(c) ==
    /\ "withdraw" \in Ops /\ x[c] = "mapped"
    /\ x' = [x EXCEPT ![c] = "unmapping"]
    /\ wm' = DropFocus(wm, c)

ClientExit(c) ==
    /\ \/ x[c] \in {"out", "adopted", "mapped", "unmapping"} /\ c \in wm.managed
          /\ x' = [x EXCEPT ![c] = "dying"]
       \/ x[c] = "asking" /\ x' = [x EXCEPT ![c] = "vanishing"]
    /\ wm' = DropFocus(wm, c)
-----------------------------------------------------------------------------
(* The handlers.  What nothing refers to any more is garbage.              *)

Collect(s) ==
    LET held == (s.managed \ s.floats) \cup s.wins \cup {s.fs}
    IN [s EXCEPT !.leafOf = [f \in DOMAIN @ \cap held |-> @[f]]]
Become(s) == wm' = Collect(s)

\* A window that is managed already only gets its frame mapped.
handleMapRequest(c) ==
    /\ x[c] \in {"asking", "vanishing"}
    /\ IF c \in wm.managed
       THEN /\ x' = [x EXCEPT ![c] = IF @ = "asking" THEN "out" ELSE "dying"]
            /\ UNCHANGED wm
       ELSE /\ x' = [x EXCEPT ![c] = IF @ = "asking" THEN "mapped" ELSE "dying"]
            /\ \/ Become(manageFloat(wm, c))
               \/ CanPlace(wm) /\ Become(manage(wm, c))

handleDestroyNotify(c) ==
    /\ x[c] = "dying"
    /\ x' = [x EXCEPT ![c] = "out"]
    /\ Become(unmanage(wm, c))

\* Only a window of the current workspace counts as withdrawn.  The frame is
\* destroyed with the window inside it.
Withdrawn(s, c) ==
    c \in s.managed /\ (IF IsFloat(s, c) THEN s.wsOf[c] = s.cur ELSE s.leafOf[c] \in CurrentLeaves(s))
handleUnmapNotify(c) ==
    /\ x[c] \in {"unmapping", "adopted"}
    /\ IF Withdrawn(wm, c)
       THEN Become(unmanage(wm, c)) /\ x' = [x EXCEPT ![c] = "out"]
       ELSE UNCHANGED wm /\ x' = [x EXCEPT ![c] = IF @ = "adopted" THEN "mapped" ELSE "out"]

\* Ops that callers may send, with operands that exist.
OpsFor(s) ==
    {o \in {Op("split-leaf", l, NoLeaf, NoWs, Launcher) : l \in Leaves(s)}
        \cup {CloseLeaf(l) : l \in Leaves(s)}
        \cup {SetApp(l, app) : l \in Leaves(s), app \in {Launcher, Builtin}}
        \cup {Op(op, a, b, NoWs, NoApp) : op \in {"swap-leaves", "move-split"}, a \in Leaves(s), b \in Leaves(s)}
        \cup {Op("move-leaf", l, NoLeaf, ws, NoApp) : l \in Leaves(s), ws \in WsIdsOf(s)}
        \cup {Op(op, NoLeaf, NoLeaf, ws, NoApp) : op \in {"remove-workspace", "clone-workspace", "switch-workspace"},
                                               ws \in WsIdsOf(s)}
        \cup {Op("add-workspace", NoLeaf, NoLeaf, NoWs, Launcher)} : o.op \in Ops}

Doable(s) == {o \in OpsFor(s) : CanApply(s, o) /\ Fits(s, o)}
ApplyOp == \E o \in Doable(wm) : Become(Apply(wm, o)) /\ UNCHANGED x

\* The second op may be one that fails.
Batch ==
    /\ "batch" \in Ops
    /\ \E o1 \in Doable(wm) : \E o2 \in OpsFor(Core(wm, o1)) :
        /\ CanApply(Core(wm, o1), o2) => Fits(Core(wm, o1), o2)
        /\ Become(ApplyBatch(wm, o1, o2))
    /\ UNCHANGED x

\* Mod4-w, the strip's close button, tile.close.
Close == \E f \in wm.managed \cup wm.wins :
    OnScreen(wm, f) /\ Become(closeClient(wm, f)) /\ UNCHANGED x

\* Clicks, focus-next, wm.focus().
Focus == \E l \in CurrentLeaves(wm) : Become(focus(wm, l)) /\ UNCHANGED x
\* A tile that goes fullscreen covers the floats; one focused since is above it.
Uncovered(s, c) == s.fs \in {None, c} \/ s.target.client = c
ClickFloat == \E c \in wm.floats :
    OnScreen(wm, c) /\ Uncovered(wm, c) /\ Become(focusFloat(wm, c)) /\ UNCHANGED x

Fullscreen == "fullscreen" \in Ops /\ Become(toggleFullscreen(wm)) /\ UNCHANGED x
Float == "float" \in Ops /\ CanPlace(wm) /\ Become(toggleFloat(wm)) /\ UNCHANGED x

\* A drop on a tile's centre, wm.move(), tile.swap-with.
Swap == "swap" \in Ops /\ \E a, b \in Leaves(wm) : Become(swapFrames(wm, a, b)) /\ UNCHANGED x

Launch ==
    /\ "launch" \in Ops
    /\ \/ CanPlace(wm) /\ Become(launchBuiltin(wm))
       \/ \E l \in DOMAIN wm.frames :
            wm.frames[l] \notin Clients /\ l \in CurrentLeaves(wm) /\ AppOf(wm, l) = Launcher
            /\ Become(launchIntoTile(wm, l))
    /\ UNCHANGED x
-----------------------------------------------------------------------------
\* Run(): a desktop of one launcher leaf; a window that was there is adopted.
Booting ==
    [spaces |-> <<[id |-> 1, row |-> <<Tile(1, Launcher)>>]>>, cur |-> 1,
     frames |-> [l \in {} |-> None], leafOf |-> [f \in {} |-> NoLeaf], wsOf |-> [c \in {} |-> NoWs],
     managed |-> {}, floats |-> {}, wins |-> {}, asked |-> {},
     fs |-> None, target |-> NoTarget, preserved |-> NoLeaf, xf |-> None]

Init ==
    \E adopted \in {{}} \cup {{c} : c \in Clients} :
        /\ x = [c \in Clients |-> IF c \in adopted THEN "adopted" ELSE "out"]
        /\ \E s \in IF adopted = {} THEN {Booting}
                    ELSE UNION {{manage(Booting, c), manageFloat(Booting, c)} : c \in adopted} :
              wm = Collect(refocusCurrent(relayout(syncBuiltins(s))))

Next ==
    \/ \E c \in Clients :
        \/ ClientMap(c) \/ ClientUnmap(c) \/ ClientExit(c)
        \/ handleMapRequest(c) \/ handleDestroyNotify(c) \/ handleUnmapNotify(c)
    \/ ApplyOp \/ Batch \/ Close \/ Focus \/ ClickFloat
    \/ Fullscreen \/ Float \/ Swap \/ Launch

Spec == Init /\ [][Next]_vars
-----------------------------------------------------------------------------
(* Properties.                                                             *)

TypeOK ==
    /\ wm.cur \in WsIdsOf(wm)
    /\ WsIdsOf(wm) \subseteq WsIds /\ Leaves(wm) \subseteq LeafIds
    /\ \A i \in DOMAIN wm.spaces : wm.spaces[i].row # <<>>
    /\ wm.floats \subseteq wm.managed /\ wm.managed \subseteq Clients
    /\ wm.wins \subseteq Builtins
    /\ DOMAIN wm.wsOf = wm.floats
    /\ wm.xf \in Clients \cup Builtins \cup {None}
    /\ x \in [Clients -> {"out", "asking", "adopted", "mapped", "unmapping", "dying", "vanishing"}]

(***************************************************************************)
(* The maps agree.  A frame is registered under its own leaf, every tiled  *)
(* client is at its leaf, and no frame window is left behind outside the   *)
(* maps.  A client that is fullscreen is one that is managed.              *)
(***************************************************************************)
FramesConsistent ==
    /\ \A l \in DOMAIN wm.frames : wm.leafOf[wm.frames[l]] = l
    /\ \A f \in (wm.managed \ wm.floats) \cup wm.wins : FrameAt(wm, wm.leafOf[f]) = f
    /\ \A l \in DOMAIN wm.frames : wm.frames[l] \notin wm.floats
    /\ wm.fs \in Clients => wm.fs \in wm.managed

(***************************************************************************)
(* The tree and the frames agree: a builtin leaf shows a builtin frame, a  *)
(* client's leaf is marked as one, so that placementLeaf never hands it    *)
(* out.                                                                    *)
(***************************************************************************)
TreeMatchesFrames ==
    \A l \in Leaves(wm) :
        IF isBuiltinLeaf(AppOf(wm, l)) THEN FrameAt(wm, l) \in Builtins
                                       ELSE FrameAt(wm, l) \in Clients \cup {None}

(***************************************************************************)
(* A client whose leaf is gone has been asked to close: no window stays    *)
(* alive, hidden and out of reach.                                         *)
(***************************************************************************)
OrphansAsked ==
    \A l \in DOMAIN wm.frames \ Leaves(wm) : wm.frames[l] \in wm.asked

(***************************************************************************)
(* A workspace switch lands the focus on the new workspace and leaves      *)
(* fullscreen: "A workspace switch that leaves focus on a hidden leaf (or a*)
(* hidden float) strands keyboard navigation ... switching away exits it"  *)
(* (wm.go, afterOp).                                                       *)
(***************************************************************************)
FocusHere(s) ==
    IF FocusedFloat(s) \in s.floats THEN s.wsOf[FocusedFloat(s)] = s.cur
    ELSE FocusedLeaf(s) \in CurrentLeaves(s) \/ FramedLeaves(s) = {}
SwitchLandsFocus == [][wm'.cur # wm.cur => FocusHere(wm') /\ wm'.fs = None]_vars

(***************************************************************************)
(* The fullscreen frame exists: fullscreen state is dropped "when its      *)
(* window goes away" (focus_state.go, Clear).                              *)
(***************************************************************************)
FullscreenLive == wm.fs # None => wm.fs \in wm.managed \cup wm.wins

(***************************************************************************)
(* A float that holds the focus exists.                                    *)
(***************************************************************************)
FocusedFloatLive == FocusedFloat(wm) \in wm.floats \cup {None}

(***************************************************************************)
(* target is "the single source of truth for what has the keyboard": the X *)
(* input focus is at the frame it names, if it is anywhere and the frame   *)
(* can take it; and the frame, when it is a float, is there.               *)
(***************************************************************************)
FocusedFrame(s) == IF FocusedFloat(s) # None THEN FocusedFloat(s) ELSE FrameAt(s, FocusedLeaf(s))
CanFocus(f) == f # None /\ OnScreen(wm, f) /\ (f \in Clients => x[f] \in {"adopted", "mapped"})
FocusAgrees ==
    /\ wm.xf # None /\ CanFocus(FocusedFrame(wm)) => wm.xf = FocusedFrame(wm)
    /\ FocusedFloatLive

(***************************************************************************)
(* A float "belongs to workspace ws": there is such a workspace, on which  *)
(* it can be reached.                                                      *)
(***************************************************************************)
FloatsReachable == \A c \in wm.floats : wm.wsOf[c] \in WsIdsOf(wm)

(***************************************************************************)
(* "unmanage removes a client (destroyed or withdrawn)": a client that     *)
(* withdrew is not managed any more once the event is handled.             *)
(***************************************************************************)
NoZombies == \A c \in wm.managed : x[c] # "out"

(***************************************************************************)
(* handleUnmapNotify is to "ignore unmaps we caused": a window the window  *)
(* manager adopts stays managed until its client unmaps or destroys it.    *)
(***************************************************************************)
AdoptedStay == [][\A c \in wm.managed : x[c] = "adopted" => c \in wm'.managed]_vars
=============================================================================
