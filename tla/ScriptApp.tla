----------------------------- MODULE ScriptApp -----------------------------
(***************************************************************************)
(* An application written in JavaScript, on its two surfaces               *)
(* (pkg/jsmod/uimod, pkg/apps/xapp, pkg/wmx11/scripttiles.go).  Handlers   *)
(* and render() run on the owner loop of the script; a surface, the X      *)
(* window with a loop of its own or the tile that the loop of the window   *)
(* manager paints, reads the last snapshot of the rows and posts what the  *)
(* user does.  Nothing waits for a painter but the registration of a tile. *)
(*                                                                         *)
(* What is on screen is the number of changes that its snapshot was        *)
(* rendered from.  A repaint carries nothing, so that it does not matter   *)
(* that a post which finds the window's queue full goes through a          *)
(* goroutine and may overtake: a surface has a repaint to come or none.    *)
(*                                                                         *)
(* An operator Mut... is a faulty variant of the one after it, there to be *)
(* told apart by the properties; nothing uses it.                          *)
(***************************************************************************)
EXTENDS Naturals, Sequences, FiniteSets, SequencesExt

CONSTANTS
  MaxChanges,  \* bound on the changes of the script's state
  MaxKeys,     \* bound on the keys that the user types
  TileTaken    \* the tile's name may be registered already

ASSUME ScriptAppAssumption ==
    MaxChanges \in Nat /\ MaxKeys \in Nat /\ TileTaken \in BOOLEAN

Surfaces == {"window", "tile"}

VARIABLES
  state,    \* changes of the script's state so far
  rows,     \* jsAppState.rows: the state that the snapshot was rendered from
  posted,   \* closures posted to the owner loop
  running,  \* what the owner loop does: [at, left]
  hooks,    \* jsAppState.redraws
  window,   \* xapp.Run: "none" | "asked" | "started" | "open" | "closed"
  tile,     \* "none" | "posted" | "taken" | "registered" | "open"
  repaints, \* surfaces with a repaint posted to their loops
  painted,  \* surface -> the state that it shows
  typed     \* keys typed into a surface

appVars == <<state, rows, posted, running, hooks, window, tile, repaints, painted, typed>>
jsState == <<state, rows>>
screen == <<repaints, painted>>
surfaces == <<hooks, window, tile>>

Idle == [at |-> "idle", left |-> {}]

AppInit ==
    /\ state = 0 /\ rows = 0 /\ posted = <<>> /\ running = Idle
    /\ hooks = {} /\ window = "none" /\ tile = "none"
    /\ repaints = {} /\ painted = [s \in Surfaces |-> 0]
    /\ typed = 0

Open(s) == IF s = "window" THEN window = "open" ELSE tile = "open"
-----------------------------------------------------------------------------
(* The script, on its owner loop.                                          *)

Free == running.at = "idle"

\* rerenderOnLoop: a render that throws leaves the snapshot as it was.
MutRerender ==
    \/ rows' = state' /\ running' = [at |-> "rendered", left |-> {}]
    \/ rows' = 0 /\ running' = Idle
Rerender ==
    \/ rows' = state' /\ running' = [at |-> "rendered", left |-> {}]
    \/ running' = Idle /\ UNCHANGED rows

\* A handler changes the state or leaves it, or throws and is not rendered.
RunHandler ==
    /\ \/ state < MaxChanges /\ state' = state + 1
       \/ UNCHANGED state
    /\ \/ Rerender
       \/ running' = Idle /\ UNCHANGED rows
Dispatch ==
    /\ Free /\ posted # <<>> /\ posted' = Tail(posted)
    /\ RunHandler
    /\ UNCHANGED <<surfaces, screen, typed>>
\* A timer or an event handler changes the state and calls refresh(), or not.
refresh ==
    /\ Free /\ state < MaxChanges /\ state' = state + 1 /\ Rerender
    /\ UNCHANGED <<posted, surfaces, screen, typed>>

\* postRedraw: the hooks of now, each called outside the lock.
MutCopyHooks ==
    /\ running.at = "rendered"
    /\ running' = [at |-> "calling", left |-> IF "tile" \in hooks THEN {"tile"} ELSE hooks]
    /\ UNCHANGED <<jsState, posted, surfaces, screen, typed>>
CopyHooks ==
    /\ running.at = "rendered" /\ running' = [at |-> "calling", left |-> hooks]
    /\ UNCHANGED <<jsState, posted, surfaces, screen, typed>>
CallHook ==
    /\ running.at = "calling"
    /\ \/ \E h \in running.left :
            /\ running' = [running EXCEPT !.left = @ \ {h}]
            /\ repaints' = repaints \cup {h}
       \/ running.left = {} /\ running' = Idle /\ UNCHANGED repaints
    /\ UNCHANGED <<jsState, posted, surfaces, painted, typed>>

show ==
    /\ Free /\ window = "none" /\ window' = "asked"
    /\ UNCHANGED <<jsState, posted, running, hooks, tile, screen, typed>>
\* tile() waits for the loop of the window manager, which may refuse the name.
AskTile ==
    /\ Free /\ tile = "none" /\ tile' = "posted" /\ running' = [running EXCEPT !.at = "tile"]
    /\ UNCHANGED <<jsState, posted, hooks, window, screen, typed>>
TileAnswered ==
    /\ running.at = "tile" /\ running' = Idle
    /\ \/ tile = "registered" /\ tile' = "open" /\ hooks' = hooks \cup {"tile"}
       \/ tile = "taken" /\ tile' = "none" /\ UNCHANGED hooks
    /\ UNCHANGED <<jsState, posted, window, screen, typed>>
OwnerLoop == Dispatch \/ CopyHooks \/ CallHook \/ TileAnswered
-----------------------------------------------------------------------------
(* The surfaces.                                                           *)

Paint(s) == painted' = [painted EXCEPT ![s] = rows]

\* WM loop: a leaf may point at the tile already.
RegisterTile ==
    /\ tile = "posted"
    /\ \/ tile' = "registered" /\ Paint("tile")
       \/ TileTaken /\ tile' = "taken" /\ UNCHANGED painted
    /\ UNCHANGED <<jsState, posted, running, hooks, window, repaints, typed>>

\* The hook is in before the first frame, and the first frame before the loop.
Started ==
    /\ window = "asked" /\ window' = "started" /\ hooks' = hooks \cup {"window"}
    /\ UNCHANGED <<jsState, posted, running, tile, screen, typed>>
FirstFrame ==
    /\ window = "started" /\ window' = "open" /\ Paint("window")
    /\ UNCHANGED <<jsState, posted, running, hooks, tile, repaints, typed>>
\* The hook of a window that is closed stays; nobody takes what it posts.
CloseWindow ==
    /\ window = "open" /\ window' = "closed"
    /\ UNCHANGED <<jsState, posted, running, hooks, tile, screen, typed>>

Repaint(s) ==
    /\ (s = "window" => Open(s)) /\ s \in repaints
    /\ repaints' = repaints \ {s} /\ Paint(s)
    /\ UNCHANGED <<jsState, posted, running, surfaces, typed>>

\* Also the second of two repaints that were posted.
Expose(s) == Open(s) /\ Paint(s) /\ UNCHANGED <<jsState, posted, running, surfaces, repaints, typed>>

PostJS(closure) == posted' = Append(posted, closure)
HandleKey(s) ==
    /\ Open(s) /\ typed < MaxKeys /\ typed' = typed + 1 /\ PostJS("key")
    /\ UNCHANGED <<jsState, running, surfaces, screen>>
\* A click on a button, a verb of the broker; one posted at a time.
HandleAction(s) ==
    /\ Open(s) /\ "action" \notin ToSet(posted) /\ PostJS("action")
    /\ UNCHANGED <<jsState, running, surfaces, screen, typed>>

WindowLoop == Started \/ FirstFrame \/ Repaint("window")
TileLoop == RegisterTile \/ Repaint("tile")
AppNext ==
    \/ OwnerLoop \/ refresh \/ show \/ AskTile \/ CloseWindow
    \/ WindowLoop \/ TileLoop
    \/ \E s \in Surfaces : HandleKey(s) \/ HandleAction(s) \/ Expose(s)

\* Each of the three loops runs; nobody need type, click or call the script.
AppFairness == WF_appVars(OwnerLoop) /\ WF_appVars(WindowLoop) /\ WF_appVars(TileLoop)
AppSpec == AppInit /\ [][AppNext]_appVars /\ AppFairness
-----------------------------------------------------------------------------
(* Properties.                                                             *)

(***************************************************************************)
(* Again and again every live surface shows what was rendered last (the    *)
(* two-surface repaint of review RC-10), also one that opens during the    *)
(* rendering.                                                              *)
(***************************************************************************)
Live(s) == s \in hooks \/ (s = "window" /\ window \in {"asked", "started"})
ScreenCatchesUp ==
    []<>(\A s \in Surfaces : Live(s) => painted[s] = rows \/ (s = "window" /\ window = "closed"))

(***************************************************************************)
(* "A throwing render leaves the previous frame on screen": a surface      *)
(* never goes back to an older frame.                                      *)
(***************************************************************************)
FramesForward == [][\A s \in Surfaces : painted'[s] >= painted[s]]_appVars

(***************************************************************************)
(* Each surface follows the script: forward, and up to the last frame.     *)
(***************************************************************************)
ScreenFollows == FramesForward /\ ScreenCatchesUp
=============================================================================
