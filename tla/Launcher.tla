----------------------------- MODULE Launcher -----------------------------
(***************************************************************************)
(* The surfaces of the launcher (pkg/wmx11: launcher.go, pbui.go,          *)
(* builtin.go): the popup with its keyboard, the empty tiles, the object   *)
(* menu and Escape, which they share with the accept mode.  All run on the *)
(* window manager's loop, one handler after the other; the registry, the   *)
(* tiles and the focus change between a paint and the next key.            *)
(*                                                                         *)
(* Commands are model values; a query is the number of its characters, and *)
(* Hits says how many of them a command matches.  Scores are reduced to    *)
(* the launches counted, then the registry's order.  The workspace is a    *)
(* set of leaves; WmShell models what is left out of it.                   *)
(***************************************************************************)
EXTENDS Naturals, Sequences, FiniteSets, FiniteSetsExt, SequencesExt

CONSTANTS
  LauncherCmds,  \* commands, in the registry's order
  KindOf(_),     \* "app" | "builtin" | "script"
  Hits(_),       \* longest query a command matches
  MaxQuery,      \* bound on a query
  MaxRows,       \* rows that fit (launcherMaxShown, 14, in the code)
  MaxUses,       \* bound on the launches
  Places          \* ids of leaves, none used twice

ASSUME LauncherAssumption ==
    /\ \A k \in DOMAIN LauncherCmds : Hits(LauncherCmds[k]) \in 0..MaxQuery
    /\ MaxQuery \in Nat /\ MaxRows \in Nat \ {0} /\ MaxUses \in Nat
    /\ Places \subseteq Nat \ {0} /\ IsFiniteSet(Places) /\ Places # {}

VARIABLES
  listed,   \* commands in the registry; those of scripts come and go
  uses,     \* command -> launches
  popup,    \* WM.launcher: [open, query, sel, rows], rows a copy
  menu,     \* an object menu is open
  accept,   \* WM.accepting is a session that commands match
  app,      \* leaf -> "unborn" | "" (empty) | "builtin" | "client" | "gone"
  tiles,    \* launcherTiles, with the rows painted: leaf -> [query, sel, rows] or NoTile
  focus,    \* the leaf in the focus registers, 0 when a float has the focus
  kbd,      \* window with the keyboard: a leaf's, 0 the float's, -1 the popup's
  acted      \* history: where the last step activated a row, and if it was of the row's command

desk == <<app, focus>>
launcherVars == <<listed, uses, popup, menu, accept, desk, tiles, kbd, acted>>

AllCmds == ToSet(LauncherCmds)
Float == 0
PopupWin == CHOOSE n \in 1..(Max(Places) + 1) : n \notin Places
NoTile == [query |-> 0, sel |-> 0, rows |-> <<"none">>]
Closed == [open |-> FALSE, query |-> 0, sel |-> 1, rows |-> <<>>]
Nothing == [at |-> "nowhere", same |-> TRUE]
Quiet == acted' = Nothing
Live == {l \in Places : app[l] \notin {"unborn", "gone"}}
Unborn == {l \in Places : app[l] = "unborn"}
Empty == {l \in Places : app[l] = ""}

LauncherInit ==
    /\ listed = {c \in AllCmds : KindOf(c) # "script"} /\ uses = [c \in AllCmds |-> 0]
    /\ popup = Closed /\ menu = FALSE /\ accept = FALSE
    /\ app = [l \in Places |-> IF l = Min(Places) THEN "" ELSE "unborn"]
    /\ tiles = [l \in Places |-> NoTile]
    /\ focus = Min(Places) /\ kbd = Min(Places)
    /\ acted = Nothing
-----------------------------------------------------------------------------
(* Rows.                                                                   *)

RankOf(c) == CHOOSE k \in DOMAIN LauncherCmds : LauncherCmds[k] = c
Match(query) ==
    SetToSortSeq({c \in listed : Hits(c) >= query},
                 LAMBDA c, d : uses[c] > uses[d] \/ (uses[c] = uses[d] /\ RankOf(c) < RankOf(d)))
RowsFor(query) == SubSeq(Match(query), 1, Min({MaxRows, Len(Match(query))}))
\* A selection below the last row goes to the first.
ClampSel(sel, rows) == IF sel > Len(rows) THEN 1 ELSE sel

Painted(t) ==
    LET s == IF t = NoTile THEN [NoTile EXCEPT !.sel = 1] ELSE t
        rows == RowsFor(s.query)
    IN [s EXCEPT !.rows = rows, !.sel = ClampSel(s.sel, rows)]
\* Tiles that show a launcher are painted; other frames keep their state.
PaintAll(ap, ts) == [l \in Places |-> IF ap[l] = "" THEN Painted(ts[l]) ELSE ts[l]]

\* A script registers a command or goes: nothing is painted for that.
SetStatic(c) ==
    /\ KindOf(c) = "script"
    /\ listed' = IF c \in listed THEN listed \ {c} ELSE listed \cup {c}
    /\ UNCHANGED <<uses, popup, menu, accept, desk, tiles, kbd>> /\ Quiet
\* Any event of the broker (repaintBuiltins), a change of the theme, an expose.
Repaint ==
    /\ tiles' = PaintAll(app, tiles)
    /\ UNCHANGED <<listed, uses, popup, menu, accept, desk, kbd>> /\ Quiet
-----------------------------------------------------------------------------
(* The popup.                                                              *)

openLauncher ==
    /\ ~popup.open
    /\ popup' = [open |-> TRUE, query |-> 0, sel |-> 1, rows |-> RowsFor(0)]
    /\ kbd' = PopupWin
    /\ UNCHANGED <<listed, uses, menu, accept, desk, tiles>> /\ Quiet

\* closeLauncher gives the keyboard back to whatever the registers say.
restoreInputFocus == kbd' = IF focus = Float \/ focus \in Live THEN focus ELSE kbd
Closing == popup.open /\ popup' = Closed /\ restoreInputFocus
\* Mod4-d, Escape and Return on the popup, a press outside, the control socket.
closeLauncher ==
    /\ Closing
    /\ UNCHANGED <<listed, uses, menu, accept, desk, tiles>> /\ Quiet

EditPopup(query, sels) ==
    /\ query \in 0..MaxQuery
    /\ \E s \in sels :
         popup' = [popup EXCEPT !.query = query, !.rows = RowsFor(query), !.sel = ClampSel(s, RowsFor(query))]
\* A space keeps the selection, other characters and BackSpace reset it.
launcherKey ==
    /\ popup.open /\ kbd = PopupWin
    /\ \/ popup.sel > 1 /\ popup' = [popup EXCEPT !.sel = @ - 1]
       \/ popup.sel < Len(popup.rows) /\ popup' = [popup EXCEPT !.sel = @ + 1]
       \/ EditPopup(popup.query + 1, {1, popup.sel})
       \/ popup.query > 0 /\ EditPopup(popup.query - 1, {1})
    /\ UNCHANGED <<listed, uses, menu, accept, desk, tiles, kbd>> /\ Quiet
-----------------------------------------------------------------------------
(* Launching.                                                              *)

Acted(at, cmd, row) == acted' = [at |-> at, same |-> cmd = row]
Bump(c) ==
    /\ FoldFunction(LAMBDA n, m : n + m, 0, uses) < MaxUses
    /\ uses' = [uses EXCEPT ![c] = @ + 1]

\* The leaf a client or a builtin lands in: an empty one, else a split.
placementLeaf ==
    IF Empty # {} THEN Min(Empty) ELSE IF Unborn # {} THEN Min(Unborn) ELSE 0
\* afterOp paints, focus() takes the keyboard, popup or not.
Occupy(l, what) ==
    /\ app' = [app EXCEPT ![l] = what]
    /\ focus' = l /\ kbd' = l

\* An app is a process: a client maps later, if at all.
launchCommand(c) ==
    /\ Bump(c)
    /\ IF KindOf(c) = "builtin" /\ placementLeaf # 0
       THEN /\ Occupy(placementLeaf, "builtin")
            /\ tiles' = PaintAll(app', tiles)
       ELSE UNCHANGED <<desk, tiles>> /\ restoreInputFocus
MutLauncherActivate ==
    \E i \in DOMAIN popup.rows :
        LET c == popup.rows[i] now == RowsFor(popup.query)
        IN /\ i \in DOMAIN now /\ popup' = Closed
           /\ launchCommand(now[i]) /\ Acted("popup", now[i], c)
           /\ UNCHANGED <<listed, menu, accept>>
\* A row is selected or clicked; the popup closes first.
launcherActivate ==
    \E i \in DOMAIN popup.rows :
        LET c == popup.rows[i]
        IN /\ popup' = Closed
           /\ IF accept
              THEN /\ Acted("popup", c, c) /\ restoreInputFocus
                   /\ UNCHANGED <<uses, desk, tiles>>
              ELSE launchCommand(c) /\ Acted("popup", c, c)
           /\ UNCHANGED <<listed, menu, accept>>

\* Into the tile: its state is forgotten, painting makes a new one.
launchIntoTile(l, c) ==
    /\ Bump(c)
    /\ IF KindOf(c) = "builtin"
       THEN /\ Occupy(l, "builtin")
            /\ tiles' = PaintAll(app', [tiles EXCEPT ![l] = NoTile])
       ELSE /\ tiles' = [tiles EXCEPT ![l] = Painted(NoTile)]
            /\ UNCHANGED <<desk, kbd>>
ActIn(l, c, at, row) ==
    /\ Acted(at, c, row)
    /\ IF accept
       THEN UNCHANGED <<uses, desk, tiles, kbd>>
       ELSE launchIntoTile(l, c)
    /\ UNCHANGED <<listed, popup, menu, accept>>
\* The keyboard's row is one of the matches of now, whatever is painted.
TileReturn(l) ==
    /\ l \in Empty /\ kbd = l /\ tiles[l] # NoTile /\ tiles[l].sel \in DOMAIN tiles[l].rows
    /\ LET now == RowsFor(tiles[l].query)
           sel == ClampSel(tiles[l].sel, now)
       IN sel \in DOMAIN now /\ ActIn(l, now[sel], "return", tiles[l].rows[tiles[l].sel])
\* A click names the command of the region painted; Get finds it or nothing.
TileClick(l) ==
    /\ l \in Empty /\ tiles[l] # NoTile
    /\ \E c \in ToSet(tiles[l].rows) \cap listed : ActIn(l, c, "click", c)

\* Up stops at the first row, Down runs over the last one to the first.
launcherTileKey(l) ==
    /\ l \in Empty /\ kbd = l
    /\ LET t == IF tiles[l] = NoTile THEN Painted(NoTile) ELSE tiles[l]
       IN \E q \in {t.query - 1, t.query, t.query + 1} \cap 0..MaxQuery :
            \E s \in (IF q = t.query THEN {t.sel - 1, t.sel + 1} \ {0} ELSE {1, t.sel}) :
               tiles' = [tiles EXCEPT ![l] = Painted([t EXCEPT !.query = q, !.sel = s])]
    /\ UNCHANGED <<listed, uses, popup, menu, accept, desk, kbd>> /\ Quiet
-----------------------------------------------------------------------------
(* Escape, menus and the accept mode.                                      *)

\* One thing at a time: the popup, the menu, the accept session (whose end the
\* broker decides), the query of the focused tile, empty or not.
cancelAccept ==
    \/ closeLauncher
    \/ /\ ~popup.open /\ menu /\ menu' = FALSE
       /\ UNCHANGED <<listed, uses, popup, accept, desk, tiles, kbd>> /\ Quiet
    \/ /\ ~popup.open /\ ~menu /\ ~accept
       /\ focus \in Places /\ tiles[focus].query > 0
       /\ tiles' = [tiles EXCEPT ![focus] =
                      IF app[focus] = "" THEN Painted([@ EXCEPT !.query = 0, !.sel = 1])
                      ELSE [@ EXCEPT !.query = 0, !.sel = 1]]
       /\ UNCHANGED <<listed, uses, popup, menu, accept, desk, kbd>> /\ Quiet
\* A right click on a row of the popup closes it and asks the broker for a menu.
RequestMenu == closeLauncher
showMenu ==
    /\ menu' = TRUE
    /\ UNCHANGED <<listed, uses, popup, accept, desk, tiles, kbd>> /\ Quiet
\* A verb of the window manager that was in the menu: launching the command.
menuPress ==
    /\ menu /\ menu' = FALSE
    /\ \/ \E c \in listed : launchCommand(c) /\ Acted("menu", c, c)
       \/ UNCHANGED <<uses, desk, tiles, kbd>> /\ Quiet
    /\ UNCHANGED <<listed, popup, accept>>
OnAccept ==
    /\ accept' = ~accept
    /\ tiles' = PaintAll(app, tiles)
    /\ UNCHANGED <<listed, uses, popup, menu, desk, kbd>> /\ Quiet
-----------------------------------------------------------------------------
(* Leaves come and go.                                                     *)

Focus(l) ==
    /\ l \in Live \cup {Float} /\ focus' = l /\ kbd' = l
    /\ UNCHANGED <<listed, uses, popup, menu, accept, app, tiles>> /\ Quiet
Split ==
    /\ Unborn # {} /\ app' = [app EXCEPT ![Min(Unborn)] = ""]
    /\ tiles' = PaintAll(app', tiles)
    /\ UNCHANGED <<listed, uses, popup, menu, accept, focus, kbd>> /\ Quiet
manage ==
    /\ placementLeaf # 0 /\ Occupy(placementLeaf, "client")
    /\ tiles' = PaintAll(app', tiles)
    /\ UNCHANGED <<listed, uses, popup, menu, accept>> /\ Quiet

Vanish(l) == Cardinality(Live) > 1 /\ app' = [app EXCEPT ![l] = "gone"]
\* syncBuiltins forgets the tiles of builtin frames whose leaf vanished.
closeClient(l) ==
    /\ app[l] \in {"", "builtin"} /\ Vanish(l)
    /\ tiles' = PaintAll(app', [tiles EXCEPT ![l] = NoTile])
    /\ UNCHANGED <<listed, uses, popup, menu, accept, focus, kbd>> /\ Quiet
\* A client's frame is gone before syncBuiltins looks; a focused leaf hands on.
MutUnmanage(l) ==
    /\ app[l] = "client" /\ Vanish(l)
    /\ tiles' = PaintAll(app', tiles)
    /\ focus' = IF focus = l THEN Min(Live \ {l}) ELSE focus
    /\ UNCHANGED <<listed, uses, popup, menu, accept, kbd>> /\ Quiet
unmanage(l) ==
    /\ app[l] = "client" /\ Vanish(l)
    /\ tiles' = PaintAll(app', tiles)
    /\ IF focus = l
       THEN focus' = Min(Live \ {l}) /\ kbd' = focus'
       ELSE UNCHANGED <<focus, kbd>>
    /\ UNCHANGED <<listed, uses, popup, menu, accept>> /\ Quiet

LauncherNext ==
    \/ Repaint \/ openLauncher \/ launcherKey \/ launcherActivate
    \/ cancelAccept \/ RequestMenu \/ showMenu \/ menuPress \/ OnAccept
    \/ \E c \in AllCmds : SetStatic(c)
    \/ \E l \in Places : TileReturn(l) \/ TileClick(l) \/ launcherTileKey(l) \/ closeClient(l) \/ unmanage(l)
    \/ \E l \in Places \cup {Float} : Focus(l)
    \/ Split \/ manage
LauncherSpec == LauncherInit /\ [][LauncherNext]_launcherVars
-----------------------------------------------------------------------------
(* Properties.                                                             *)

(***************************************************************************)
(* What is launched or answered is what the row on the screen said, though *)
(* the registry has changed since it was painted.  Not for Return in a     *)
(* tile, which matches anew (ReturnLaunchesShown).                         *)
(***************************************************************************)
LaunchesShown == acted.at # "return" => acted.same
ReturnLaunchesShown == acted.same

(***************************************************************************)
(* "restoreInputFocus gives the keyboard back to whatever holds the focus  *)
(* registers": it is never left with the popup's window, nor elsewhere     *)
(* than the focus, once the popup is closed and the focused leaf is there. *)
(***************************************************************************)
KeyboardFollows == ~popup.open /\ focus \in Live \cup {Float} => kbd = focus

(***************************************************************************)
(* "It takes input focus directly while open".                             *)
(***************************************************************************)
PopupHasKeyboard == popup.open => kbd = PopupWin

(***************************************************************************)
(* "syncBuiltins prunes states of vanished leaves".                        *)
(***************************************************************************)
TileStatesPruned == \A l \in Places \ Live : tiles[l] = NoTile
=============================================================================
