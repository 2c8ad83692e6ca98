-------------------------------- MODULE Drags --------------------------------
(***************************************************************************)
(* Pointer drags of pkg/wmx11 (input.go, divider.go) over the layout of    *)
(* the current workspace: a divider is dragged along its split, a tile by  *)
(* its grip onto another tile.  Between the events of a drag the loop      *)
(* handles keys, scripts and clients: tiles are split and closed, the      *)
(* workspace is switched.  Frames are in WmShell, dragged floats are left  *)
(* out.                                                                    *)
(***************************************************************************)
EXTENDS Desktop, Layout

CONSTANTS
  Area,      \* WM.area: the screen below the top bar
  Gap,       \* the width of dividers
  Pointers,  \* where pointer events happen: <<x, y>>
  MaxTiles   \* bound on the leaves of all workspaces

ASSUME DragsAssumption ==
    /\ Gap \in Nat \ {0} /\ MaxTiles \in Nat
    /\ Area \in [x : Nat, y : Nat, w : Nat \ {0}, h : Nat \ {0}]
    /\ Pointers \subseteq Nat \X Nat

VARIABLES
  drag,     \* WM.drag: what is dragged, and where the last motion found it
  pointer   \* where the last pointer event was

dragVars == <<vars, drag, pointer>>

NoDrag == [kind |-> "none", node |-> NoNode, over |-> NoNode, zone |-> ""]
Drag(kind, node) == [NoDrag EXCEPT !.kind = kind, !.node = node]

Cur == WorkspaceByID(current)
Screen == Root(Cur)
Rects(t) == Layout(t, Area, Gap)
Tiles == FoldSet(LAMBDA i, n : n + CountLeaves(Root(i)), 0, Indices)
-----------------------------------------------------------------------------
DragsInit ==
    /\ Init
    /\ drag = NoDrag
    /\ pointer \in Pointers

\* beginDividerDrag(): a press on a divider; a press with another button,
\* which reaches the root window, replaces a drag in progress.
BeginDivider ==
    /\ \E p \in DOMAIN Screen \ LeafPaths(Screen) : drag' = Drag("divider", Screen[p].id)
    /\ UNCHANGED <<vars, pointer>>

\* beginGripDrag(): a press on the grip of a tile; the pointer is grabbed
\* during a drag, so frames see no press.
BeginGrip ==
    /\ drag = NoDrag
    /\ \E l \in LeafIds(Screen) : drag' = Drag("grip", l)
    /\ UNCHANGED <<vars, pointer>>

\* dividerMotion(): nothing when the split is not on the screen (any more).
MoveDivider(pt) ==
    IF drag.node \in NodeIds(Screen)
    THEN LET p == Find(Screen, drag.node)
         IN OpSetRatio(Cur, drag.node,
                       Snap(RatioForPointer(Rects(Screen)[p], Screen[p].dir, pt[1], pt[2])))
    ELSE UNCHANGED vars

\* gripMotion(): the tile under the pointer, if it is not the dragged one.
Under(pt) == {p \in LeafPaths(Screen) : Screen[p].id # drag.node /\ Covers(Rects(Screen)[p], pt[1], pt[2])}
Hover(pt) ==
    IF Under(pt) = {} THEN drag' = [drag EXCEPT !.over = NoNode, !.zone = ""]
    ELSE \E p \in Under(pt) :
            drag' = [drag EXCEPT !.over = Screen[p].id, !.zone = ZoneAt(Rects(Screen)[p], pt[1], pt[2])]

\* handleMotion(); divider motions may be skipped: they come in faster than
\* they are painted.
Motion == \E pt \in Pointers :
    /\ \/ drag.kind = "divider" /\ MoveDivider(pt) /\ UNCHANGED drag
       \/ drag.kind = "grip" /\ Hover(pt) /\ UNCHANGED vars
    /\ pointer' = pt

\* The op of a drop: it fails when one of the leaves is gone or is not in the
\* dragged leaf's workspace.
DropOn(from, over) ==
    LET i == WsFor(NoWs, from)
    IN IF i # 0 /\ HasLeaf(Root(i), from) /\ HasLeaf(Root(i), over)
       THEN IF drag.zone = "center" THEN OpSwapLeaves(i, from, over)
                                    ELSE OpMoveSplit(i, from, over, drag.zone)
       ELSE UNCHANGED vars

\* handleRelease(): a grip drops where the last motion was, a divider where
\* the button is released.
Release == \E pt \in Pointers :
    /\ drag.kind # "none"
    /\ drag' = NoDrag
    /\ pointer' = pt
    /\ CASE drag.kind = "divider"                       -> MoveDivider(pt)
         [] drag.kind = "grip" /\ drag.over # NoNode    -> DropOn(drag.node, drag.over)
         [] OTHER                                       -> UNCHANGED vars

\* Keys, scripts and clients, during a drag too.
Ops ==
    /\ \/ \E i \in Indices : \E l \in LeafIds(Root(i)) :
             \/ Tiles < MaxTiles /\ \E dir \in OpDirs, app \in Apps : OpSplitLeaf(i, l, dir, app)
             \/ OpCloseLeaf(i, l)
       \/ Tiles < MaxTiles /\ \E app \in Apps : OpAddWorkspace(app)
       \/ \E i \in Indices : OpSwitchWorkspace(workspaces[i].id)
    /\ UNCHANGED <<drag, pointer>>

DragsNext == BeginDivider \/ BeginGrip \/ Motion \/ Release \/ Ops
DragsSpec == DragsInit /\ [][DragsNext]_dragVars
-----------------------------------------------------------------------------
(* Properties.                                                             *)

\* Every split has room for its divider and a pixel on either side.
Roomy(t) ==
    \A p \in DOMAIN t \ LeafPaths(t) :
        (IF t[p].dir = "row" THEN Rects(t)[p].w ELSE Rects(t)[p].h) >= Gap + 2

Apart(r, s) == r.x + r.w <= s.x \/ s.x + s.w <= r.x \/ r.y + r.h <= s.y \/ s.y + s.h <= r.y
Within(r, s) == s.x <= r.x /\ r.x + r.w <= s.x + s.w /\ s.y <= r.y /\ r.y + r.h <= s.y + s.h

(***************************************************************************)
(* layout.go: "leaves tile the workspace rect exactly minus dividers".     *)
(* However often tiles were split, docked and resized: no two of the tiles *)
(* and dividers overlap, none sticks out, and together they leave no pixel *)
(* of the screen uncovered.  A tile has at least one pixel even when the   *)
(* screen is too small (X refuses windows without).                        *)
(***************************************************************************)
Tiled(t) ==
    LET rects == Rects(t)
        parts == [p \in DOMAIN t |-> IF t[p].kind = "leaf" THEN rects[p] ELSE DividerRect(t[p], rects[p], Gap)]
    IN /\ \A p \in LeafPaths(t) : rects[p].w > 0 /\ rects[p].h > 0
       /\ Roomy(t) =>
            /\ \A p, q \in DOMAIN t : p # q => Apart(parts[p], parts[q])
            /\ \A p \in DOMAIN t : Within(parts[p], Area)
            /\ FoldSet(LAMBDA p, n : n + parts[p].w * parts[p].h, 0, DOMAIN t) = Area.w * Area.h
LayoutTiles == drag = NoDrag => Tiled(Screen)

(***************************************************************************)
(* neighbor.go: the leaf "whose rectangle sits next to the focused one on  *)
(* screen", "deterministic regardless of map iteration order".  The        *)
(* neighbour is the same in every order, it lies across one divider, there *)
(* is one unless the tile touches that edge of the screen, and every tile  *)
(* can be reached from every other by such steps.                          *)
(***************************************************************************)
AtEdge(r, dir) ==
    CASE dir = "left" -> r.x = Area.x [] dir = "right" -> r.x + r.w = Area.x + Area.w
      [] dir = "up"   -> r.y = Area.y [] dir = "down"  -> r.y + r.h = Area.y + Area.h
Connected(t) ==
    LET rects == Rects(t)
        leaves == LeafPaths(t)
        next == [l \in leaves, dir \in Directions |-> NeighborLeaf(SetToSeq(leaves), rects, l, dir)]
        step(S) == S \cup ({next[l, dir] : l \in S, dir \in Directions} \ {Edge})
        reach(l) == FoldLeft(LAMBDA S, k : step(S), {l}, [k \in 1..Cardinality(leaves) |-> k])
    IN /\ \A l \in leaves, dir \in Directions :
            /\ \A order \in SetToSeqs(leaves) : NeighborLeaf(order, rects, l, dir) = next[l, dir]
            /\ IF AtEdge(rects[l], dir) THEN next[l, dir] = Edge
               ELSE next[l, dir] # Edge /\ Distance(rects[next[l, dir]], rects[l], dir) = Gap
       /\ \A l \in leaves : reach(l) = leaves
NeighborsConnect == drag = NoDrag /\ Roomy(Screen) => Connected(Screen)

(***************************************************************************)
(* The screen holds together: tiles cover it and arrow keys connect them,  *)
(* whatever drags, splits and closes made of the tree.                     *)
(***************************************************************************)
ScreenHolds == LayoutTiles /\ NeighborsConnect

(***************************************************************************)
(* A divider stays where it is dropped: when the button is released its    *)
(* strip is under the pointer, but for rounding, stickiness and the limits *)
(* of a tenth on either side, however deep the split is in the tree.       *)
(***************************************************************************)
Offset(v, lo, len, strip) ==
    LET at == Clamp(v, lo + (len * MinRatio) \div 100, lo + (len * MaxRatio) \div 100)
    IN Max({strip - at, at - (strip + Gap), 0})
StripAtPointer(t, p, pt) ==
    LET r == Rects(t)[p]
        d == DividerRect(t[p], r, Gap)
    IN IF t[p].dir = "row" THEN Offset(pt[1], r.x, r.w, d.x) <= 2 + (r.w * Stick) \div 100
                           ELSE Offset(pt[2], r.y, r.h, d.y) <= 2 + (r.h * Stick) \div 100
DividerStays ==
    [][drag.kind = "divider" /\ drag' = NoDrag /\ drag.node \in NodeIds(Screen) /\ Roomy(Screen)'
        => StripAtPointer(Screen', Find(Screen', drag.node), pointer')]_dragVars

(***************************************************************************)
(* A drop lands where the preview showed it: on an edge zone the dragged   *)
(* tile ends up on that side of the other one, across one divider; in the  *)
(* centre two apps trade places and no tile moves.  If either tile went    *)
(* away since the last motion, nothing happens.                            *)
(***************************************************************************)
SideOf(zone) == [left |-> "left", right |-> "right", top |-> "up", bottom |-> "down"][zone]
Landed(d, t, t2) ==
    LET rect(l) == Rects(t2)[Find(t2, l)]
    IN IF d.zone = "center"
       THEN /\ Rects(t2) = Rects(t)
            /\ FindLeaf(t2, d.node).app = FindLeaf(t, d.over).app
            /\ FindLeaf(t2, d.over).app = FindLeaf(t, d.node).app
       ELSE /\ Beside(rect(d.node), rect(d.over), SideOf(d.zone))
            /\ Distance(rect(d.node), rect(d.over), SideOf(d.zone)) = Gap
            /\ LeafIds(t2) = LeafIds(t)
Holder(l) == FindLeafWorkspace(l)
DropLands ==
    [][drag.kind = "grip" /\ drag' = NoDrag =>
        IF drag.over # NoNode /\ Holder(drag.node) # 0 /\ Holder(drag.node) = Holder(drag.over)
        THEN Landed(drag, Root(Holder(drag.node)), workspaces'[Holder(drag.node)].root)
        ELSE UNCHANGED vars]_dragVars

(***************************************************************************)
(* A drag ends where the pointer left it, of a divider as of a tile,       *)
(* whatever ops came between the press and the release.                    *)
(***************************************************************************)
DragsLand == DividerStays /\ DropLands
=============================================================================
