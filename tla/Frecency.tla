----------------------------- MODULE Frecency -----------------------------
(***************************************************************************)
(* pkg/launcher/frecency.go: launch counts that are written to a file five *)
(* seconds after the last launch, and at once when the window manager      *)
(* quits.  The launching goroutine, the goroutines that timers start and   *)
(* Flush meet in f.mu; the steps here are the sections it guards and the   *)
(* I/O between them.                                                       *)
(*                                                                         *)
(* The entries are the number of launches they count, a saved file is the  *)
(* number of launches it holds.  The score computed from them is left out. *)
(*                                                                         *)
(* An operator Mut... is a faulty variant of the one after it, there to be *)
(* told apart by the properties; nothing uses it.                          *)
(***************************************************************************)
EXTENDS Naturals, FiniteSets

CONSTANTS
  Timers,    \* timer objects
  Runners,   \* goroutines that fired timers run save in
  Nil,       \* no timer
  Flusher,   \* the goroutine in Flush
  MaxBumps,  \* bound on the launches
  SlowDisk   \* a write may take longer than the five seconds of the timer

ASSUME FrecencyAssumption ==
    /\ Nil \notin Timers /\ Flusher \notin Runners
    /\ MaxBumps \in Nat /\ SlowDisk \in BOOLEAN

VARIABLES
  entries,   \* f.entries: launches counted
  disk,      \* launches in the file
  timer,     \* f.timer
  armed,     \* timers that will fire
  early,     \* armed timers that a write still in flight is older than
  saving,    \* f.saving
  pc,        \* goroutine -> "idle" | "save" (about to lock) | "write" | "unlock"
             \* | "wait" (waitSaveDone); Flush ends "done"
  raw        \* goroutine -> launches in the snapshot it writes

vars == <<entries, disk, timer, armed, early, saving, pc, raw>>
Savers == Runners \cup {Flusher}

TypeOK ==
    /\ entries \in 0..MaxBumps /\ disk \in 0..MaxBumps
    /\ timer \in Timers \cup {Nil} /\ early \subseteq armed /\ armed \subseteq Timers
    /\ saving \in BOOLEAN
    /\ pc \in [Savers -> {"idle", "save", "write", "unlock", "wait", "done"}]
    /\ raw \in [Savers -> 0..MaxBumps]

Init ==
    /\ entries = 0 /\ disk = 0
    /\ timer = Nil /\ armed = {} /\ early = {}
    /\ saving = FALSE
    /\ pc = [g \in Savers |-> "idle"]
    /\ raw = [g \in Savers |-> 0]

Go(g, at) == pc' = [pc EXCEPT ![g] = at]
-----------------------------------------------------------------------------
\* time.AfterFunc, or Reset of the timer there is, fired or not.
MutArm(t) ==
    /\ timer' = t
    /\ armed' = IF timer = Nil THEN armed \cup {t} ELSE armed
    /\ early' = IF saving /\ timer = Nil THEN early \cup {t} ELSE early
Arm(t) ==
    /\ timer' = t
    /\ armed' = armed \cup {t}
    /\ early' = IF saving THEN early \cup {t} ELSE early \ {t}

\* Launches and Flush run on the same goroutine, the loop of the window manager.
bump ==
    /\ pc[Flusher] = "idle" /\ entries < MaxBumps
    /\ entries' = entries + 1
    /\ IF timer = Nil THEN \E t \in Timers \ armed : Arm(t) ELSE Arm(timer)
    /\ UNCHANGED <<disk, saving, pc, raw>>

\* A timer that was reset fires again, whatever its first goroutine does.
Fire(t) ==
    /\ t \in armed
    /\ SlowDisk \/ t \notin early
    /\ armed' = armed \ {t} /\ early' = early \ {t}
    /\ \E g \in Runners : pc[g] = "idle" /\ Go(g, "save")
    /\ UNCHANGED <<entries, disk, timer, saving, raw>>

Ends(g) == IF g = Flusher THEN "done" ELSE "idle"

\* save() up to the first Unlock: a save that finds another one running returns.
Snapshot(g) ==
    /\ saving' = TRUE
    /\ raw' = [raw EXCEPT ![g] = entries]
    /\ Go(g, "write")
MutSave(g) ==
    /\ pc[g] = "save" /\ Snapshot(g)
    /\ UNCHANGED <<entries, disk, timer, armed, early>>
save(g) ==
    /\ pc[g] = "save"
    /\ IF saving THEN Go(g, Ends(g)) /\ UNCHANGED <<saving, raw>> ELSE Snapshot(g)
    /\ UNCHANGED <<entries, disk, timer, armed, early>>

WriteFile(g) ==
    /\ pc[g] = "write"
    /\ disk' = raw[g]
    /\ Go(g, "unlock")
    /\ UNCHANGED <<entries, timer, armed, early, saving, raw>>

\* The write is over; f.timer is forgotten even if it was reset meanwhile.
Saved(g) ==
    /\ pc[g] = "unlock"
    /\ saving' = FALSE /\ timer' = Nil /\ early' = {}
    /\ Go(g, Ends(g))
    /\ UNCHANGED <<entries, disk, armed, raw>>

\* Flush() stops the timer that f.timer names, waits and saves.
Flush ==
    /\ pc[Flusher] = "idle"
    /\ timer' = Nil /\ armed' = armed \ {timer} /\ early' = early \ {timer}
    /\ Go(Flusher, "wait")
    /\ UNCHANGED <<entries, disk, saving, raw>>

waitSaveDone ==
    /\ pc[Flusher] = "wait" /\ ~saving
    /\ Go(Flusher, "save")
    /\ UNCHANGED <<entries, disk, timer, armed, early, saving, raw>>

Step(g) == save(g) \/ WriteFile(g) \/ Saved(g)
Next ==
    \/ bump \/ Flush \/ waitSaveDone
    \/ \E t \in Timers : Fire(t)
    \/ \E g \in Savers : Step(g)

\* Timers fire and goroutines run; nobody need launch or quit.
Fairness ==
    /\ \A t \in Timers : WF_vars(Fire(t))
    /\ \A g \in Savers : WF_vars(Step(g))
    /\ WF_vars(waitSaveDone)
Spec == Init /\ [][Next]_vars /\ Fairness
-----------------------------------------------------------------------------
(* Properties.                                                             *)

(***************************************************************************)
(* The file never loses launches it held: an older snapshot does not       *)
(* overwrite a newer one, however saves overlap.                           *)
(***************************************************************************)
FileGrows == [][disk' >= disk]_vars

(***************************************************************************)
(* "guaranteeing the trailing batch is persisted": every launch gets into  *)
(* the file while the process lives.                                       *)
(***************************************************************************)
TrailingBatchSaved == []<>(disk = entries)

(***************************************************************************)
(* The file follows the counts: it gets every launch and loses none.       *)
(***************************************************************************)
CountsSaved == FileGrows /\ TrailingBatchSaved

(***************************************************************************)
(* Flush waits "to avoid returning before the active write has settled":   *)
(* once it has returned, and the process may end, the file holds every     *)
(* launch.                                                                 *)
(***************************************************************************)
FlushPersists == pc[Flusher] = "done" => disk = entries
=============================================================================
