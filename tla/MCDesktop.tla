----------------------------- MODULE MCDesktop -----------------------------
(* Desktop with small operand sets for TLC. *)
EXTENDS Desktop

MCApps == {NoApp, "x"}
MCDirs == {"row", "col"}
MCRatios == {0}
MCNames == {"code"}

\* No op reads a name but to derive another, and no property mentions one.
DesktopView == <<[i \in Indices |-> <<workspaces[i].id, Root(i)>>], current, gen, wsSeq>>
=============================================================================
