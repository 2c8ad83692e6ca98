-------------------------------- MODULE Repl --------------------------------
(***************************************************************************)
(* The notebook of `repl --ui' (pkg/cmds/replui.go, pkg/repl/session.go).  *)
(* The loop of the window owns the session, a list of cells and an input   *)
(* line; a submitted cell goes through a bounded queue to the one worker,  *)
(* which evaluates it in the kernel, captures its value and what it        *)
(* printed, and posts the outcome back to the loop.                        *)
(*                                                                         *)
(* An input is one of a few sources, told apart by what the kernel makes   *)
(* of them.  A post that finds the window's queue full goes through a      *)
(* goroutine of its own, so that outcomes may overtake.                    *)
(*                                                                         *)
(* An operator Mut... is a faulty variant of the one after it, there to be *)
(* told apart by the properties; nothing uses it.                          *)
(***************************************************************************)
EXTENDS Naturals, Sequences, FiniteSets, SequencesExt

CONSTANTS
  Sources,   \* subset of {"expr", "stmt", "throws", "bad"}
  EvalCap,  \* capacity of evalQueue (64 in the code)
  MaxCells,  \* bound on the cells
  MaxMoves   \* bound on the keys of the history and verbs between two submits

ASSUME ReplAssumption ==
    /\ Sources \subseteq {"expr", "stmt", "throws", "bad"}
    /\ EvalCap \in Nat \ {0} /\ MaxCells \in Nat /\ MaxMoves \in Nat

VARIABLES
  cells,    \* Session.Cells: [src, status, console, value]
  input,    \* the input line, or Empty
  histPos,  \* where in the history it is; one past the end for a fresh line
  stash,    \* Session.pending: the fresh line while the history is browsed
  moves,    \* keys and verbs since the last submit
  sending,  \* the cell that HandleKey is about to queue, 0 for none
  evals,    \* evalQueue
  worker,   \* [at, n]: "take" | "wrapped" | "raw" | "capture" | "post"
  runs,     \* cell -> how often its source was executed
  printed,  \* __pbui_console: cells whose lines are in it
  outcome,  \* what the worker has for its cell
  done      \* outcomes posted to the loop: [n, status, console, value]

session == <<cells, input, histPos, stash, moves>>
replVars == <<session, sending, evals, worker, runs, printed, outcome, done>>
kernel == <<worker, runs, printed, outcome>>

Empty == ""
Waiting == [at |-> "take", n |-> 0]
Nothing == [n |-> 0, status |-> "done", console |-> {}, value |-> FALSE]
Numbers == 1..Len(cells)

ReplInit ==
    /\ cells = <<>> /\ input = Empty /\ histPos = 0 /\ stash = Empty /\ moves = 0
    /\ sending = 0 /\ evals = <<>> /\ worker = Waiting /\ runs = [n \in 1..MaxCells |-> 0]
    /\ printed = {} /\ outcome = Nothing /\ done = <<>>
-----------------------------------------------------------------------------
(* Keys, clicks and verbs, on the loop; a handler that queues holds it.    *)

OnLoop == sending = 0
HistoryMove == OnLoop /\ moves < MaxMoves /\ moves' = moves + 1 /\ UNCHANGED <<sending, evals, kernel, done>>

Type(src) ==
    /\ OnLoop /\ input = Empty /\ Len(cells) < MaxCells /\ input' = src
    /\ UNCHANGED <<cells, histPos, stash, moves, sending, evals, kernel, done>>
Submit ==
    /\ OnLoop /\ input # Empty /\ Len(cells) < MaxCells
    /\ cells' = Append(cells, [src |-> input, status |-> "evaluating", console |-> {}, value |-> FALSE])
    /\ histPos' = Len(cells') /\ input' = Empty /\ moves' = 0 /\ sending' = Len(cells')
    /\ UNCHANGED <<stash, evals, kernel, done>>
\* As the comment has it: a full queue drops.
MutQueue ==
    /\ sending # 0 /\ sending' = 0
    /\ evals' = IF Len(evals) < EvalCap THEN Append(evals, sending) ELSE evals
    /\ UNCHANGED <<session, kernel, done>>
Queue ==
    /\ sending # 0 /\ Len(evals) < EvalCap
    /\ evals' = Append(evals, sending) /\ sending' = 0
    /\ UNCHANGED <<session, kernel, done>>

FreshLine == histPos = Len(cells)
Line(pos) == cells[pos + 1].src
HistoryPrev ==
    /\ HistoryMove /\ histPos # 0
    /\ stash' = IF FreshLine THEN input ELSE stash
    /\ histPos' = histPos - 1 /\ input' = Line(histPos') /\ UNCHANGED cells
HistoryNext ==
    /\ HistoryMove /\ ~FreshLine /\ histPos' = histPos + 1
    /\ input' = IF histPos' = Len(cells) THEN stash ELSE Line(histPos')
    /\ UNCHANGED <<cells, stash>>
Escape == HistoryMove /\ input' = Empty /\ UNCHANGED <<cells, histPos, stash>>
\* repl.copy-input, from the newest cell of the value.
CopyInput(n) ==
    /\ HistoryMove /\ cells[n].value
    /\ ~\E k \in Numbers : k > n /\ cells[k].value /\ cells[k].src = cells[n].src
    /\ input' = cells[n].src /\ UNCHANGED <<cells, histPos, stash>>

\* Session.Complete, by number; the loop may take any of the posted outcomes.
Complete ==
    /\ OnLoop
    /\ \E k \in DOMAIN done :
         /\ done' = RemoveAt(done, k)
         /\ cells' = [cells EXCEPT ![done[k].n] =
              [src |-> @.src, status |-> done[k].status, console |-> done[k].console, value |-> done[k].value]]
    /\ UNCHANGED <<input, histPos, stash, moves, sending, evals, kernel>>
-----------------------------------------------------------------------------
(* The worker.                                                             *)

WorkerAt(at) == worker.at = at /\ UNCHANGED <<session, sending>>
WorkerTo(at) == worker' = [worker EXCEPT !.at = at]
Src == cells[worker.n].src
\* The source runs and may print; a source that does not parse does neither.
Execute ==
    /\ runs' = [runs EXCEPT ![worker.n] = @ + 1]
    /\ \/ printed' = printed \cup {worker.n}
       \/ UNCHANGED printed

Take ==
    /\ WorkerAt("take") /\ evals # <<>> /\ evals' = Tail(evals)
    /\ worker' = [at |-> "wrapped", n |-> Head(evals)]
    /\ outcome' = [Nothing EXCEPT !.n = Head(evals)]
    /\ UNCHANGED <<runs, printed, done>>

\* First as an expression.  The fallback is for what did not parse as one.
MutWrapped ==
    /\ WorkerAt("wrapped") /\ UNCHANGED <<evals, done>>
    /\ IF Src \in {"stmt", "bad"} THEN UNCHANGED <<runs, printed>> ELSE Execute
    /\ IF Src = "expr" THEN WorkerTo("capture") ELSE WorkerTo("raw")
    /\ outcome' = [outcome EXCEPT !.value = (Src = "expr")]
Wrapped ==
    /\ WorkerAt("wrapped") /\ UNCHANGED <<evals, done>>
    /\ IF Src \in {"stmt", "bad"} THEN WorkerTo("raw") /\ UNCHANGED <<runs, printed>>
       ELSE WorkerTo("capture") /\ Execute
    /\ outcome' = [outcome EXCEPT !.value = (Src = "expr"),
                                  !.status = IF Src = "throws" THEN "error" ELSE "done"]
Raw ==
    /\ WorkerAt("raw") /\ WorkerTo("capture") /\ UNCHANGED <<evals, done>>
    /\ IF Src = "bad" THEN UNCHANGED <<runs, printed>> ELSE Execute
    /\ outcome' = [outcome EXCEPT !.status = IF Src = "stmt" THEN "done" ELSE "error"]
MutCapture ==
    /\ WorkerAt("capture") /\ WorkerTo("post")
    /\ outcome' = [outcome EXCEPT !.console = printed]
    /\ printed' = IF outcome.status = "error" THEN printed ELSE {}
    /\ UNCHANGED <<evals, runs, done>>
Capture ==
    /\ WorkerAt("capture") /\ WorkerTo("post")
    /\ outcome' = [outcome EXCEPT !.console = printed] /\ printed' = {}
    /\ UNCHANGED <<evals, runs, done>>
PostOutcome ==
    /\ WorkerAt("post") /\ worker' = Waiting /\ done' = Append(done, outcome)
    /\ UNCHANGED <<evals, runs, printed, outcome>>
evalWorker == Take \/ Wrapped \/ Raw \/ Capture \/ PostOutcome

UILoop == Queue \/ Complete
ReplNext ==
    \/ \E src \in Sources : Type(src)
    \/ Submit \/ HistoryPrev \/ HistoryNext \/ Escape
    \/ \E n \in Numbers : CopyInput(n)
    \/ UILoop \/ evalWorker

\* The loop and the worker run, and a source terminates; nobody need type.
ReplFairness == WF_replVars(UILoop) /\ WF_replVars(evalWorker)
ReplSpec == ReplInit /\ [][ReplNext]_replVars /\ ReplFairness
-----------------------------------------------------------------------------
(* Properties.                                                             *)

Inputs == Sources \cup {Empty}
CellRecords == [src : Sources, status : {"evaluating", "done", "error"}, console : SUBSET (1..MaxCells), value : BOOLEAN]
Stages == {"take", "wrapped", "raw", "capture", "post"}
Outcomes == [n : 0..MaxCells, status : {"done", "error"}, console : SUBSET (1..MaxCells), value : BOOLEAN]
ReplTypeOK ==
    /\ cells \in Seq(CellRecords)
    /\ Len(cells) <= MaxCells
    /\ input \in Inputs /\ stash \in Inputs /\ histPos \in 0..Len(cells) /\ moves \in Nat
    /\ sending \in 0..Len(cells) /\ evals \in Seq(Numbers)
    /\ worker \in [at : Stages, n : 0..Len(cells)]
    /\ runs \in [1..MaxCells -> Nat] /\ printed \subseteq 1..MaxCells
    /\ outcome \in Outcomes /\ done \in Seq(Outcomes)

(***************************************************************************)
(* No source runs twice: "the fallback is the first execution" (RC-1).     *)
(***************************************************************************)
RunsOnce == \A n \in 1..MaxCells : runs[n] <= 1

(***************************************************************************)
(* A cell shows what its own source printed, and a value or an error of    *)
(* its own: the worker's captures never interleave (RC-2), and outcomes    *)
(* that overtake land in their cells.                                      *)
(***************************************************************************)
OutputsOwn ==
    \A n \in Numbers :
        /\ cells[n].console \subseteq {n}
        /\ cells[n].value => cells[n].src = "expr"
        /\ cells[n].status = "error" => cells[n].src \in {"throws", "bad"}

(***************************************************************************)
(* A cell shows one run of its source, its own.                            *)
(***************************************************************************)
CellsOwn == RunsOnce /\ OutputsOwn

(***************************************************************************)
(* Each cell that was submitted is completed, however full the queue was:  *)
(* again and again none is being evaluated.                                *)
(***************************************************************************)
CellsComplete == []<>(\A n \in Numbers : cells[n].status # "evaluating")

(***************************************************************************)
(* "The queue is buffered so submit never blocks the UI; a full queue (64  *)
(* pending cells) drops on the floor" (replui.go): the loop never waits    *)
(* for room in the queue.                                                  *)
(***************************************************************************)
SubmitNeverBlocks == sending # 0 => Len(evals) < EvalCap
=============================================================================
