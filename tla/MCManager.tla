----------------------------- MODULE MCManager -----------------------------
(* The window manager's loop and those it works with for TLC: callers and  *)
(* the broker, the commands of scripts, the launch counts.  They share no  *)
(* state; a behaviour is one of one of them.                               *)
EXTENDS Frecency, Commands, WmLoop
CONSTANTS t1, t2, t3, g1, g2, d1, d2, a, b, rc, daemon1, sum
VARIABLE part

MCNameOf(d) == IF d = d1 THEN "one" ELSE "two"
SameName(d) == "one"

\* Many calls and no accept, or few calls among accepts.
MCAccepts(k) == 2
ManyCalls == [calls |-> (rc :> 2 @@ daemon1 :> 2), sessions |-> 0]
SomeAccepts == [calls |-> (rc :> 1 @@ daemon1 :> 0), sessions |-> 2]
MCBounds == {ManyCalls, SomeAccepts}

\* The loop has stopped where it is not the part, because it would have to run.
MCInit ==
    /\ part \in {"counts", "commands", "loop"} /\ Init /\ CommandsInit
    /\ IF part = "loop" THEN LoopInit ELSE bound = ManyCalls /\ Begins("stopped")
MCNext ==
    \/ part = "counts" /\ Next /\ UNCHANGED <<part, commandsVars, loopVars>>
    \/ part = "commands" /\ CommandsNext /\ UNCHANGED <<part, vars, loopVars>>
    \/ part = "loop" /\ LoopNext /\ UNCHANGED <<part, vars, commandsVars>>
\* What is fair is not enabled in the initial states of the other components.
MCSpec ==
    /\ MCInit /\ [][MCNext]_<<part, vars, commandsVars, loopVars>>
    /\ Fairness /\ CommandsFairness /\ LoopFairness
=============================================================================
