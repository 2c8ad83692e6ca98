----------------------------- MODULE EventFan -----------------------------
(***************************************************************************)
(* The way of a broker event to the handlers of a script: the client's     *)
(* read goroutine and its channel (pkg/pbui/client), the pump, the bounded *)
(* queue with its wake-up signal and the drainer (pkg/jsmod), and batches  *)
(* posted to the owner loop of the JavaScript runtime.                     *)
(*                                                                         *)
(* An event is its number.  Every handler is registered for the events of  *)
(* the model; the Go handlers, which run inside the drainer, only delay    *)
(* it.  A handler may throw, which is reported and changes nothing here.    *)
(*                                                                         *)
(* An operator Mut... is a faulty variant of the one after it, there to be *)
(* told apart by the properties; nothing uses it.                          *)
(***************************************************************************)
EXTENDS Naturals, Sequences, FiniteSets

CONSTANTS
  Handlers,   \* JavaScript handlers, each registered at most once
  ChanCap,    \* capacity of Client.events (256 in the code)
  QueueCap,   \* capacity of the queue (256 in the code)
  MaxEvents,  \* bound on the events of the broker
  BusFails    \* the subscribe request may fail

ASSUME FanAssumption ==
    /\ IsFiniteSet(Handlers)
    /\ ChanCap \in Nat \ {0} /\ QueueCap \in Nat \ {0} /\ MaxEvents \in Nat
    /\ BusFails \in BOOLEAN

VARIABLES
  sent,     \* events the broker has sent, all from 1 on
  events,   \* Client.events
  subs,     \* EventFan.subs: the handlers registered
  accepted, \* handlers whose registration reported no error
  once,     \* "new" | "ok" | "failed": what pumpOnce did
  pump,     \* "recv" | "wake" (pushed, about to signal)
  items,    \* boundedQueue.items
  dropped,  \* boundedQueue.dropped
  wake,     \* the signal of boundedQueue.wake is set
  drainer,  \* "select" | "drain" | "report" | "post"
  batch,    \* what the drainer drained
  posts,    \* batches posted to the owner loop; the first is being dispatched
  seen,     \* handler -> events it was called with
  reported  \* sum of the counts in the script.error events of the drainer

fanVars == <<sent, events, subs, accepted, once, pump, items, dropped, wake, drainer, batch, posts, seen, reported>>
bus == <<sent, events>>
fan == <<subs, accepted, once>>
queue == <<pump, items, dropped, wake>>
drain == <<drainer, batch, reported>>
loop == <<posts, seen>>

Ids(seq) == {seq[k] : k \in DOMAIN seq}
FanTypeOK ==
    /\ sent \in 0..MaxEvents
    /\ Len(events) <= ChanCap /\ Ids(events) \subseteq 1..sent
    /\ accepted \subseteq subs /\ subs \subseteq Handlers
    /\ once \in {"new", "ok", "failed"} /\ pump \in {"recv", "wake"}
    /\ Len(items) <= QueueCap /\ dropped \in 0..sent /\ wake \in BOOLEAN
    /\ drainer \in {"select", "drain", "report", "post"} /\ Len(batch) <= QueueCap
    /\ seen \in [Handlers -> Seq(1..MaxEvents)] /\ reported \in 0..sent

FanInit ==
    /\ sent = 0 /\ events = <<>>
    /\ subs = {} /\ accepted = {} /\ once = "new"
    /\ pump = "recv" /\ items = <<>> /\ dropped = 0 /\ wake = FALSE
    /\ drainer = "select" /\ batch = <<>>
    /\ posts = <<>> /\ seen = [h \in Handlers |-> <<>>] /\ reported = 0
-----------------------------------------------------------------------------
\* A subscriber gets events; the read goroutine drops what does not fit.
Event ==
    /\ once = "ok" /\ sent < MaxEvents
    /\ sent' = sent + 1
    /\ events' = IF Len(events) < ChanCap THEN Append(events, sent + 1) ELSE events
    /\ UNCHANGED <<fan, queue, drain, loop>>

\* Subscribe(): the handler is in before the pump is ensured; pumpOnce runs
\* the request once, and later calls report no error whatever came of it.
EnsurePump(h) ==
    \/ /\ once = "new" /\ once' = "ok" /\ accepted' = accepted \cup {h}
    \/ /\ once = "new" /\ BusFails /\ once' = "failed" /\ UNCHANGED accepted
    \/ /\ once # "new" /\ UNCHANGED once /\ accepted' = accepted \cup {h}
Subscribe(h) ==
    /\ h \notin subs
    /\ subs' = subs \cup {h}
    /\ EnsurePump(h)
    /\ UNCHANGED <<bus, queue, drain, loop>>

\* Push(): the newest item is dropped when the queue is full; a push signals
\* after it has unlocked.
Push ==
    /\ pump = "recv" /\ events # <<>>
    /\ events' = Tail(events)
    /\ IF Len(items) < QueueCap
       THEN items' = Append(items, Head(events)) /\ pump' = "wake" /\ UNCHANGED dropped
       ELSE dropped' = dropped + 1 /\ UNCHANGED <<items, pump>>
    /\ UNCHANGED <<sent, fan, wake, drain, loop>>
MutWake ==
    /\ pump = "wake"
    /\ wake' = (drainer = "select")
    /\ pump' = "recv"
    /\ UNCHANGED <<bus, fan, items, dropped, drain, loop>>
Wake ==
    /\ pump = "wake"
    /\ wake' = TRUE
    /\ pump' = "recv"
    /\ UNCHANGED <<bus, fan, items, dropped, drain, loop>>
-----------------------------------------------------------------------------
(* The drainer.                                                            *)

Awake ==
    /\ drainer = "select" /\ wake
    /\ wake' = FALSE /\ drainer' = "drain"
    /\ UNCHANGED <<bus, fan, pump, items, dropped, batch, reported, loop>>
Drain ==
    /\ drainer = "drain"
    /\ batch' = items /\ items' = <<>> /\ drainer' = "report"
    /\ UNCHANGED <<bus, fan, pump, dropped, wake, reported, loop>>
TakeDropped ==
    /\ drainer = "report"
    /\ reported' = reported + dropped /\ dropped' = 0
    /\ drainer' = IF batch = <<>> THEN "select" ELSE "post"
    /\ UNCHANGED <<bus, fan, pump, items, wake, batch, loop>>

\* One post per batch, if a JavaScript handler exists.
MutPost ==
    /\ drainer = "post"
    /\ posts' = IF subs # {} THEN <<batch>> \o posts ELSE posts
    /\ batch' = <<>> /\ drainer' = "select"
    /\ UNCHANGED <<bus, fan, queue, reported, seen>>
Post ==
    /\ drainer = "post"
    /\ posts' = IF subs # {} THEN Append(posts, batch) ELSE posts
    /\ batch' = <<>> /\ drainer' = "select"
    /\ UNCHANGED <<bus, fan, queue, reported, seen>>

\* The owner loop calls the handlers that are registered by now; one that
\* throws does not keep the others from their call.
dispatch ==
    /\ posts # <<>>
    /\ seen' = [h \in Handlers |-> IF h \in subs THEN Append(seen[h], Head(Head(posts))) ELSE seen[h]]
    /\ posts' = IF Len(Head(posts)) = 1 THEN Tail(posts)
                ELSE <<Tail(Head(posts))>> \o Tail(posts)
    /\ UNCHANGED <<bus, fan, queue, drain>>

Goroutines == Push \/ Wake \/ Awake \/ Drain \/ TakeDropped \/ Post \/ dispatch
FanNext == Event \/ (\E h \in Handlers : Subscribe(h)) \/ Goroutines

\* The goroutines and the owner loop run; nobody need send or subscribe.
FanFairness ==
    /\ WF_fanVars(Push) /\ WF_fanVars(Wake)
    /\ WF_fanVars(Awake \/ Drain \/ TakeDropped \/ Post)
    /\ WF_fanVars(dispatch)
FanSpec == FanInit /\ [][FanNext]_fanVars /\ FanFairness
-----------------------------------------------------------------------------
(* Properties.                                                             *)

(***************************************************************************)
(* Handlers see events in the order in which the broker sent them and none *)
(* twice: consumers "care about contiguity of what they did see".          *)
(***************************************************************************)
InOrder == \A h \in Handlers : \A i, j \in DOMAIN seen[h] : i < j => seen[h][i] < seen[h][j]

(***************************************************************************)
(* No wake-up is lost: again and again all that was queued has been handed *)
(* to the handlers and all that was dropped has been reported, also when   *)
(* no event follows.                                                       *)
(***************************************************************************)
QueuedSeen == []<>(items = <<>> /\ batch = <<>> /\ posts = <<>> /\ dropped = 0)

(***************************************************************************)
(* "Subscribe registers a JS handler for event and lazily starts the       *)
(* pump": a registration that reported no error is one that gets events.   *)
(***************************************************************************)
RegisteredIsPumped == accepted # {} => once = "ok"

(***************************************************************************)
(* "Overflow surfaces as one script.error event carrying the drop count":  *)
(* what is missing from what a handler saw was counted.                    *)
(***************************************************************************)
Gaps(seq) == IF seq = <<>> THEN 0 ELSE (seq[Len(seq)] - seq[1] + 1) - Len(seq)
GapsReported == \A h \in Handlers : Gaps(seen[h]) <= reported + dropped
=============================================================================
