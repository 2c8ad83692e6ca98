---------------------------- MODULE ScriptVerbs ----------------------------
(***************************************************************************)
(* What a script registers with the broker and what the broker sends it    *)
(* (pkg/jsmod/pbuimod): verbs and their handlers, and the accept sessions  *)
(* of others.  The client's read goroutine takes the frames in order and   *)
(* posts to the owner loop of the script, if the bridge for such a frame   *)
(* is installed; else the frame is lost.  BrokerClient models the client   *)
(* and Broker the other end.                                               *)
(*                                                                         *)
(* An operator Mut... is a faulty variant of the one after it, there to be *)
(* told apart by the properties; nothing uses it.                          *)
(***************************************************************************)
EXTENDS Naturals, Sequences, FiniteSets

CONSTANTS
  VerbIds,
  MaxRegisters,  \* bound on the calls of pbui.verb
  MaxPicks,      \* bound on the verbs that the user picks
  MaxSessions,   \* bound on the accept sessions of others
  SlowBroker,    \* a registration may time out, on its way to the broker or back
  QuietInstall   \* no frame is read between the installs of two bridges

ASSUME ScriptVerbsAssumption ==
    /\ IsFiniteSet(VerbIds) /\ SlowBroker \in BOOLEAN /\ QuietInstall \in BOOLEAN
    /\ MaxRegisters \in Nat /\ MaxPicks \in Nat /\ MaxSessions \in Nat

VARIABLES
  stored,   \* verb -> the registration its handler is of, 0 for none (Module.verbs, .handlers)
  defined,  \* registrations so far
  doing,    \* the owner loop: "idle" | "bridge" | "request" | "wait" | "install" | "mode" | "clear"
  bridges,  \* bridges of the client: subset of {"run", "mode", "clear"}
  heard,    \* subscriptions of the script: subset of {"mode", "clear"}
  requests, \* registrations on their way to the broker: [n, verbs]
  offered,  \* the broker's verb set of this client
  toScript, \* frames on their way to the script
  closures, \* posted to the owner loop
  picked,   \* verbs that the user picked so far
  ran,      \* picks that a handler ran for
  session,  \* the accept session of another client, 0 for none
  sessions, \* sessions so far
  believed  \* the session that the script has heard of and not heard the end of

verbVars == <<stored, defined, doing, bridges, heard, requests, offered, toScript, closures, picked, ran,
              session, sessions, believed>>
module == <<stored, defined, bridges, heard>>
brokerSide == <<requests, offered, picked, session, sessions>>
effects == <<ran, believed>>

NoVerbs == [v \in VerbIds |-> 0]
VerbsInit ==
    /\ stored = NoVerbs /\ defined = 0 /\ doing = "idle" /\ bridges = {} /\ heard = {}
    /\ requests = <<>> /\ offered = NoVerbs /\ toScript = <<>> /\ closures = <<>>
    /\ picked = 0 /\ ran = {} /\ session = 0 /\ sessions = 0 /\ believed = 0
-----------------------------------------------------------------------------
(* pbui.verb: the handler is stored and the bridge installed before the    *)
(* broker hears of the verb; the whole set is sent each time.              *)

jsVerb(v) ==
    /\ doing = "idle" /\ defined < MaxRegisters /\ defined' = defined + 1
    /\ stored' = [stored EXCEPT ![v] = defined'] /\ doing' = "bridge"
    /\ UNCHANGED <<bridges, heard, brokerSide, toScript, closures, effects>>
MutEnsureVerbDispatch ==
    /\ doing = "bridge" /\ doing' = "request"
    /\ bridges' = IF requests = <<>> /\ offered = NoVerbs THEN bridges ELSE bridges \cup {"run"}
    /\ UNCHANGED <<stored, defined, heard, brokerSide, toScript, closures, effects>>
ensureVerbDispatch ==
    /\ doing = "bridge" /\ doing' = "request" /\ bridges' = bridges \cup {"run"}
    /\ UNCHANGED <<stored, defined, heard, brokerSide, toScript, closures, effects>>
RegisterVerbs ==
    /\ doing = "request" /\ doing' = "wait"
    /\ requests' = Append(requests, [n |-> defined, verbs |-> stored])
    /\ UNCHANGED <<module, offered, picked, session, sessions, toScript, closures, effects>>
\* pbui.verb throws; the verb stays in the set that the next call sends.
RegisterTimesOut ==
    /\ SlowBroker /\ doing = "wait" /\ doing' = "idle"
    /\ UNCHANGED <<module, brokerSide, toScript, closures, effects>>

\* onAcceptMode and onAcceptClear, in either order in one closure.  The first
\* installs both bridges, one after the other.
Other(kind) == CHOOSE k \in {"mode", "clear"} : k # kind
MutSubscribe(kind) ==
    /\ kind \notin heard /\ doing \in {"idle", kind}
    /\ heard' = heard \cup {kind} /\ bridges' = bridges \cup {kind}
    /\ doing' = IF heard = {} THEN Other(kind) ELSE "idle"
    /\ UNCHANGED <<stored, defined, brokerSide, toScript, closures, effects>>
SubscribeAccept(kind) ==
    /\ kind \notin heard /\ doing \in {"idle", kind}
    /\ heard' = heard \cup {kind} /\ bridges' = bridges \cup {"mode"}
    /\ doing' = IF heard = {} THEN "install" ELSE "idle"
    /\ UNCHANGED <<stored, defined, brokerSide, toScript, closures, effects>>
OnAcceptClear ==
    /\ doing = "install" /\ bridges' = bridges \cup {"clear"}
    /\ \E kind \in heard : doing' = Other(kind)
    /\ UNCHANGED <<stored, defined, heard, brokerSide, toScript, closures, effects>>
-----------------------------------------------------------------------------
(* The broker, and the users of other clients.                             *)

Send(frame) == toScript' = Append(toScript, frame)
BrokerRegisters ==
    /\ requests # <<>> /\ requests' = Tail(requests) /\ offered' = Head(requests).verbs
    /\ Send([t |-> "ok", n |-> Head(requests).n])
    /\ UNCHANGED <<module, doing, picked, session, sessions, closures, effects>>
Pick(v) ==
    /\ offered[v] # 0 /\ picked < MaxPicks /\ picked' = picked + 1
    /\ Send([t |-> "run", n |-> picked', verb |-> v])
    /\ UNCHANGED <<module, doing, requests, offered, session, sessions, closures, effects>>
AcceptStarts ==
    /\ session = 0 /\ sessions < MaxSessions
    /\ sessions' = sessions + 1 /\ session' = sessions'
    /\ Send([t |-> "mode", n |-> session'])
    /\ UNCHANGED <<module, doing, requests, offered, picked, closures, effects>>
AcceptEnds ==
    /\ session # 0 /\ session' = 0 /\ Send([t |-> "clear", n |-> session])
    /\ UNCHANGED <<module, doing, requests, offered, picked, sessions, closures, effects>>
-----------------------------------------------------------------------------
(* The read goroutine, and the owner loop.                                 *)

Read ==
    /\ toScript # <<>> /\ toScript' = Tail(toScript)
    /\ QuietInstall => doing # "install"
    /\ LET frame == Head(toScript)
       IN IF frame.t = "ok"
          THEN /\ doing' = IF doing = "wait" /\ frame.n = defined THEN "idle" ELSE doing
               /\ UNCHANGED closures
          ELSE /\ closures' = IF frame.t \in bridges THEN Append(closures, frame) ELSE closures
               /\ UNCHANGED doing
    /\ UNCHANGED <<module, brokerSide, effects>>

\* A verb runs the handler that is stored by now; one that throws is reported.
RunVerb(c) == ran' = IF stored[c.verb] # 0 THEN ran \cup {c.n} ELSE ran
Hear(c) ==
    believed' = CASE c.t \notin heard -> believed
                  [] c.t = "mode"     -> c.n
                  [] OTHER            -> IF believed = c.n THEN 0 ELSE believed
RunClosure ==
    /\ doing = "idle" /\ closures # <<>> /\ closures' = Tail(closures)
    /\ LET c == Head(closures)
       IN \/ c.t = "run" /\ RunVerb(c) /\ UNCHANGED believed
          \/ c.t \in {"mode", "clear"} /\ Hear(c) /\ UNCHANGED ran
    /\ UNCHANGED <<module, doing, brokerSide, toScript>>

Subscribed == \E kind \in {"mode", "clear"} : heard # {} /\ SubscribeAccept(kind)
Loop == RunClosure \/ ensureVerbDispatch \/ RegisterVerbs \/ OnAcceptClear \/ Subscribed
VerbsNext ==
    \/ \E v \in VerbIds : jsVerb(v) \/ Pick(v)
    \/ RegisterTimesOut
    \/ \E kind \in {"mode", "clear"} : SubscribeAccept(kind)
    \/ BrokerRegisters \/ AcceptStarts \/ AcceptEnds
    \/ Read \/ Loop

\* The goroutines and the broker run; nobody need call, pick, start or answer.
VerbsFairness == WF_verbVars(Loop) /\ WF_verbVars(Read) /\ WF_verbVars(BrokerRegisters)
VerbsSpec == VerbsInit /\ [][VerbsNext]_verbVars /\ VerbsFairness
-----------------------------------------------------------------------------
(* Properties.                                                             *)

(***************************************************************************)
(* What the user picks from a script's verbs is run by a handler: the      *)
(* broker never offers a verb whose run the script would lose, though the  *)
(* registration that brought it there may have timed out.                  *)
(***************************************************************************)
VerbsRun == []<>(ran = 1..picked)

(***************************************************************************)
(* A script that has heard of a session hears of its end ("whichever       *)
(* subscription arrives first" installs both bridges), or of a later one.  *)
(* A session that begins and ends between the two installs leaves it stuck *)
(* with ~QuietInstall.                                                     *)
(***************************************************************************)
SessionsEnd == []<>(believed \in {0, session})

(***************************************************************************)
(* The bridges lose nothing that a script counts on.                       *)
(***************************************************************************)
BridgesHold == VerbsRun /\ SessionsEnd

(***************************************************************************)
(* A script that listens knows the session that is on, once what was sent  *)
(* has come.  (Not one that began before it subscribed: it gets no frame.) *)
(***************************************************************************)
SessionsKnown ==
    (heard = {"mode", "clear"} /\ session # 0 /\ toScript = <<>> /\ closures = <<>>) => believed = session
=============================================================================
