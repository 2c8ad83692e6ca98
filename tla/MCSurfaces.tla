---------------------------- MODULE MCSurfaces ----------------------------
(* What the user does with pointer and keyboard, for TLC: drags on a small *)
(* screen, the launcher's surfaces, and the scan behind them.  They share  *)
(* no state; a behaviour is one of one of them.                            *)
EXTENDS Drags, Launcher, AppScan
CONSTANTS trace, deploy
VARIABLE part

MCApps == {NoApp}
MCDirs == {"row", "col"}
MCArea == Rect(0, 4, 60, 41)
MCPointers == {12, 30, 57} \X {6, 24, 37}

\* To TLC states are one that differ only in the names of nodes (no handler
\* looks at a name but to find the node), in how many were minted, and in
\* where the pointer was.
Place(id) == IF id = NoNode THEN <<0, Edge>>
             ELSE LET I == {i \in Indices : id \in NodeIds(Root(i))}
                  IN IF I = {} THEN <<0, Edge>> ELSE LET i == Max(I) IN <<i, Find(Root(i), id)>>
DragsView ==
    <<[i \in Indices |-> <<workspaces[i].id, [p \in DOMAIN Root(i) |-> [Root(i)[p] EXCEPT !.id = 0]]>>],
      current, drag.kind, Place(drag.node), Place(drag.over), drag.zone>>

MCLauncherCmds == <<deploy, trace>>
MCKindOf(c) == IF c = trace THEN "builtin" ELSE "script"
MCHits(c) == IF c = trace THEN 0 ELSE 1
MCDataDirs == <<"home", "usr">>

MCInit ==
    /\ part \in {"drags", "launcher", "scan"}
    /\ DragsInit /\ LauncherInit /\ ScanInit
MCNext ==
    \/ part = "drags" /\ DragsNext /\ UNCHANGED <<part, launcherVars, scanVars>>
    \/ part = "launcher" /\ LauncherNext /\ UNCHANGED <<part, dragVars, scanVars>>
    \/ part = "scan" /\ ScanNext /\ UNCHANGED <<part, dragVars, launcherVars>>
MCSpec == MCInit /\ [][MCNext]_<<part, dragVars, launcherVars, scanVars>>
MCView == <<part, DragsView, launcherVars, scanVars>>
=============================================================================
