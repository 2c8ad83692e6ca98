----------------------------- MODULE MCWmShell -----------------------------
(* WmShell with one or two clients for TLC. *)
EXTENDS WmShell, TLC
CONSTANTS c1, c2

MCSymmetry == Permutations(Clients)

\* What key bindings, the mouse, the launcher and wm.move() reach.
TreeOps == {"split-leaf", "close-leaf", "move-split", "add-workspace", "switch-workspace", "launch"}
ScreenOps == TreeOps \cup {"float", "swap", "fullscreen"}
\* What scripts and IPC callers send, in batches too, with windows that
\* withdraw; no swaps, no fullscreen.
ScriptOps == TreeOps \cup {"float", "withdraw", "remove-workspace", "clone-workspace", "move-leaf", "batch"}

(***************************************************************************)
(* States that differ only in the names of leaves, workspaces and builtin  *)
(* frames are one to TLC: the view renames them by their place.  The       *)
(* renaming is injective, no handler looks at a name, and no property      *)
(* mentions one.                                                           *)
(***************************************************************************)
Rank(seq, v) == IF \E k \in DOMAIN seq : seq[k] = v THEN CHOOSE k \in DOMAIN seq : seq[k] = v ELSE 0
NamedFirst(seq, S) == seq \o SetToSeq(S \ Range(seq))
ShellView ==
    LET leafSeq == NamedFirst(FlattenSeq([i \in DOMAIN wm.spaces |->
                                 [k \in DOMAIN wm.spaces[i].row |-> wm.spaces[i].row[k].id]]),
                              Mentioned(wm) \ {NoLeaf})
        wsSeq == NamedFirst([i \in DOMAIN wm.spaces |-> wm.spaces[i].id], {wm.wsOf[c] : c \in wm.floats})
        winSeq == NamedFirst(SelectSeq([k \in DOMAIN leafSeq |-> FrameAt(wm, leafSeq[k])],
                                       LAMBDA f : f \in Builtins),
                             (wm.wins \cup {wm.fs, wm.xf}) \cap Builtins)
        L(l) == Rank(leafSeq, l)
        F(f) == IF f \in Builtins THEN <<Rank(winSeq, f)>> ELSE <<f>>
    IN <<[i \in DOMAIN wm.spaces |-> [k \in DOMAIN wm.spaces[i].row |-> wm.spaces[i].row[k].app]],
         Rank(wsSeq, wm.cur),
         {<<L(l), F(wm.frames[l])>> : l \in DOMAIN wm.frames},
         {<<F(f), L(wm.leafOf[f])>> : f \in DOMAIN wm.leafOf},
         {<<c, Rank(wsSeq, wm.wsOf[c])>> : c \in DOMAIN wm.wsOf},
         wm.managed, wm.floats, {F(f) : f \in wm.wins}, wm.asked, F(wm.fs),
         [wm.target EXCEPT !.leaf = L(@)], L(wm.preserved), F(wm.xf), x>>
=============================================================================
