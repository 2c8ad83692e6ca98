----------------------------- MODULE MCScripts -----------------------------
(* The script runtime for TLC: events, placement rules and recipes,        *)
(* applications, and the notebook.  They share no state; a behaviour is    *)
(* one of one of them.                                                     *)
EXTENDS EventFan, Rules, ScriptApp, Repl
CONSTANTS h1, h2, w1, w2, w3, s1, s2
VARIABLE part

MCRuleFor(w) == IF w = w3 THEN "none" ELSE "web"
MCWantedBy(s) == "dev"
WantsWeb(s) == "web"

\* Windows that match come with scripts that run once, the one that does not
\* with scripts that run again.
Placed == mapped'[w1] <= 1 /\ mapped'[w2] <= 1 /\ mapped'[w3] = 0 /\ script'[s1].runs <= 1
Rebuilt == mapped'[w1] = 0 /\ mapped'[w2] = 0

MCInit ==
    /\ part \in {"fan", "rules", "recipes", "floats", "app", "notebook"}
    /\ FanInit /\ RulesInit /\ AppInit /\ ReplInit
MCNext ==
    \/ part = "fan" /\ FanNext /\ UNCHANGED <<part, rulesVars, appVars, replVars>>
    \/ part = "rules" /\ PlacementNext /\ Placed /\ UNCHANGED <<part, fanVars, appVars, replVars>>
    \/ part = "recipes" /\ PlacementNext /\ Rebuilt /\ UNCHANGED <<part, fanVars, appVars, replVars>>
    \/ part = "floats" /\ FloatsNext /\ UNCHANGED <<part, fanVars, appVars, replVars>>
    \/ part = "app" /\ AppNext /\ UNCHANGED <<part, fanVars, rulesVars, replVars>>
    \/ part = "notebook" /\ ReplNext /\ UNCHANGED <<part, fanVars, rulesVars, appVars>>
\* What is fair is not enabled in the initial states of the other components.
MCSpec ==
    /\ MCInit /\ [][MCNext]_<<part, fanVars, rulesVars, appVars, replVars>>
    /\ FanFairness /\ AppFairness /\ ReplFairness
=============================================================================
