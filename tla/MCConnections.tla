--------------------------- MODULE MCConnections ---------------------------
(* Both ends of the broker's connections for TLC: the broker's goroutines, *)
(* the calls of a client, and what a script makes of its frames.  They     *)
(* share no state; a behaviour is one of one of them.                      *)
EXTENDS BrokerServe, BrokerClient, ScriptVerbs
CONSTANTS p1, p2, c1, c2, c3, v1, v2
VARIABLE part

MCInit == part \in {"serve", "client", "verbs"} /\ ServeInit /\ Init /\ VerbsInit
MCNext ==
    \/ part = "serve" /\ ServeNext /\ UNCHANGED <<part, vars, verbVars>>
    \/ part = "client" /\ Next /\ UNCHANGED <<part, serveVars, verbVars>>
    \/ part = "verbs" /\ VerbsNext /\ UNCHANGED <<part, serveVars, vars>>
\* What is fair is not enabled in the initial states of the other components.
MCSpec ==
    /\ MCInit /\ [][MCNext]_<<part, serveVars, vars, verbVars>>
    /\ ServeFairness /\ WF_vars(ReadLoop) /\ (\A c \in Calls : WF_vars(Call(c))) /\ VerbsFairness
=============================================================================
