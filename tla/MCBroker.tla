------------------------------ MODULE MCBroker ------------------------------
(* Broker with small sets of connections and requests for TLC. *)
EXTENDS Broker, TLC

CONSTANTS c1, c2, c3

\* Distinct names; c1 is the window manager.
MCNameOf(c) == IF c = c1 THEN "wm" ELSE IF c = c2 THEN "app" ELSE "cli"
MCIsWM(c) == c = c1

\* Instances of one application.
MCSameName(c) == "app"
MCNoWM(c) == FALSE
MCSymmetry == Permutations(Conns)

AcceptKinds == {"accept.start", "accept.answer", "accept.cancel", "menu.request"}
LiveKinds == {"accept.start", "accept.answer"}
VerbKinds == {"register", "verb.invoke", "query.verbs", "subscribe", "doc.hover", "event.emit",
              "menu.request", "unknown"}
=============================================================================
