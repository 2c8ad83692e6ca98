------------------------------- MODULE Layout -------------------------------
(***************************************************************************)
(* The geometry of pkg/wmcore (layout.go, neighbor.go): rectangles for the *)
(* nodes of a split tree, drop zones, divider positions and the nearest    *)
(* leaf in a direction.  Integers are Go's, ratios are in percent; the     *)
(* code's float products are rounded down as there.                        *)
(***************************************************************************)
EXTENDS SplitTree, Integers

Rect(x, y, w, h) == [x |-> x, y |-> y, w |-> w, h |-> h]

\* Contains().
Covers(r, x, y) == r.x <= x /\ x < r.x + r.w /\ r.y <= y /\ y < r.y + r.h

Clamp(v, lo, hi) == Max({lo, Min({v, hi})})

\* Snap(): dividers stick at these fractions, within less than 2.2%.
Snaps == {25, 33, 50, 67, 75}
Stick == 2
Near(f) == {s \in Snaps : s - f \in -Stick..Stick}
Snapped(f) == Near(f) # {}
Snap(f) == IF Snapped(f) THEN CHOOSE s \in Near(f) : TRUE ELSE f

\* ZoneAt(): the nearest edge within the band, in this order on a tie.
ZoneAt(r, x, y) ==
    LET band == Min({(Min({r.w, r.h}) * 3) \div 10, 110})
        m    == Min({x - r.x, r.x + r.w - x, y - r.y, r.y + r.h - y})
    IN CASE m > band             -> "center"
         [] m = x - r.x          -> "left"
         [] m = r.x + r.w - x    -> "right"
         [] m = y - r.y          -> "top"
         [] OTHER                -> "bottom"
-----------------------------------------------------------------------------
(* Layout(): an item per node, addressed by the node's path.               *)

\* What is left for both children, and what child A gets of it.
Avail(len, gap) == Max({len - gap, 2})
ShareA(len, gap, ratio) == Clamp((Avail(len, gap) * ratio) \div 100, 1, Avail(len, gap) - 1)

\* The two children of a split in r, and the strip between them.
Parts(n, r, gap) ==
    IF n.dir = "row"
    THEN LET a == ShareA(r.w, gap, n.ratio)
         IN [a   |-> Rect(r.x, r.y, a, r.h),
             b   |-> Rect(r.x + a + gap, r.y, Avail(r.w, gap) - a, r.h),
             gap |-> Rect(r.x + a, r.y, gap, r.h)]
    ELSE LET a == ShareA(r.h, gap, n.ratio)
         IN [a   |-> Rect(r.x, r.y, r.w, a),
             b   |-> Rect(r.x, r.y + a + gap, r.w, Avail(r.h, gap) - a),
             gap |-> Rect(r.x, r.y + a, r.w, gap)]

MutLayout(t, area, gap) ==   \* child B starts at the divider
    LET rect[p \in DOMAIN t] ==
            IF p = <<>> THEN area
            ELSE LET parts == Parts(t[Front(p)], rect[Front(p)], gap)
                 IN IF Last(p) = "a" THEN parts.a ELSE [parts.b EXCEPT !.x = parts.gap.x]
    IN rect
\* Where every node is; the divider of a split is DividerRect.
Layout(t, area, gap) ==
    LET rect[p \in DOMAIN t] ==
            IF p = <<>> THEN area ELSE Parts(t[Front(p)], rect[Front(p)], gap)[Last(p)]
    IN rect
DividerRect(n, r, gap) == Parts(n, r, gap).gap

MutRatioForPointer(r, dir, x, y) ==   \* without the rectangle's origin
    clampRatio(IF dir = "row" THEN IF r.w = 0 THEN 50 ELSE Max({(x * 100) \div r.w, 0})
                              ELSE IF r.h = 0 THEN 50 ELSE Max({(y * 100) \div r.h, 0}))
\* The ratio that puts the divider of a split in r under the pointer.
RatioForPointer(r, dir, x, y) ==
    clampRatio(IF dir = "row" THEN IF r.w = 0 THEN 50 ELSE ((x - r.x) * 100) \div r.w
                              ELSE IF r.h = 0 THEN 50 ELSE ((y - r.y) * 100) \div r.h)
-----------------------------------------------------------------------------
(* NeighborLeaf().                                                         *)

Directions == {"left", "right", "up", "down"}

\* [a, a + aw) and [b, b + bw) intersect.
overlaps(a, aw, b, bw) == a < b + bw /\ b < a + aw
centerDelta(a, aw, b, bw) == Max({(a + aw \div 2) - (b + bw \div 2), (b + bw \div 2) - (a + aw \div 2)})

\* How far r is from src in the direction, edge to edge.
Distance(r, src, dir) ==
    CASE dir = "left"  -> src.x - (r.x + r.w)
      [] dir = "right" -> r.x - (src.x + src.w)
      [] dir = "up"    -> src.y - (r.y + r.h)
      [] dir = "down"  -> r.y - (src.y + src.h)
Beside(r, src, dir) ==
    /\ Distance(r, src, dir) >= 0
    /\ IF dir \in {"left", "right"} THEN overlaps(r.y, r.h, src.y, src.h) ELSE overlaps(r.x, r.w, src.x, src.w)
Cross(r, src, dir) ==
    IF dir \in {"left", "right"} THEN centerDelta(r.y, r.h, src.y, src.h) ELSE centerDelta(r.x, r.w, src.x, src.w)

MutBetter(r, best, src, dir) ==   \* the first of two equally far leaves stays
    \/ Distance(r, src, dir) < Distance(best, src, dir)
    \/ /\ Distance(r, src, dir) = Distance(best, src, dir)
       /\ Cross(r, src, dir) < Cross(best, src, dir)
\* Nearer, or as near with a closer centre, or that too and above or left.
Better(r, best, src, dir) ==
    LET d == Distance(r, src, dir) - Distance(best, src, dir)
        c == Cross(r, src, dir) - Cross(best, src, dir)
    IN \/ d < 0
       \/ d = 0 /\ c < 0
       \/ d = 0 /\ c = 0 /\ (r.y < best.y \/ (r.y = best.y /\ r.x < best.x))

\* The leaf the loop ends with when the map yields the leaves in this order;
\* <<"none">> is no path: the edge of the workspace.
Edge == <<"none">>
NeighborLeaf(order, rect, from, dir) ==
    FoldLeft(LAMBDA best, p :
                 IF p = from \/ ~Beside(rect[p], rect[from], dir) THEN best
                 ELSE IF best = Edge \/ Better(rect[p], rect[best], rect[from], dir) THEN p ELSE best,
             Edge, order)
=============================================================================
