--------------------------- MODULE BrokerClient ---------------------------
(***************************************************************************)
(* The requests of a broker client (pkg/pbui/client): the goroutines that  *)
(* call request(), each with a sequence number, an entry in Client.pending *)
(* and a one-slot channel, against the one read goroutine, deadlines, and  *)
(* the death of the connection.                                            *)
(*                                                                         *)
(* A frame of the wire is the sequence number it carries and the call it   *)
(* belongs to, which the client cannot see.  The broker answers a request  *)
(* at most once, in any order (module Broker says which).  Messages that   *)
(* are not replies are left out: the reader runs their handlers and is     *)
(* back.                                                                   *)
(*                                                                         *)
(* An operator Mut... is a faulty variant of the one after it, there to be *)
(* told apart by the properties; nothing uses it.                          *)
(***************************************************************************)
EXTENDS Naturals, FiniteSets

CONSTANTS
  Calls,      \* calls of request(), each made once
  Deadlines,  \* those of them whose context may end
  Lossy,      \* the client may be too slow for the broker
  None,       \* no call
  Closed      \* what a closed channel delivers

ASSUME CallsAssumption ==
    /\ IsFiniteSet(Calls) /\ Deadlines \subseteq Calls /\ Lossy \in BOOLEAN
    /\ None # Closed /\ {None, Closed} \cap Calls = {}

Seqs == 1..Cardinality(Calls)
Frames == [seq : Seqs, call : Calls]

VARIABLES
  seq,       \* Client.seq
  pc,        \* call -> where it is in request(), or how it returned
  seqOf,     \* call -> its sequence number
  got,       \* call -> the call whose reply it returned
  pending,   \* Client.pending: sequence number -> call whose channel it holds
  chan,      \* call -> what is in its channel
  broker,    \* requests the broker has and has not answered
  inbox,     \* replies on their way to the reader
  conn,      \* the connection is open
  reader,    \* "decode" | "deliver" | "sweep" | "dead"
  reply,     \* the call whose reply the reader holds
  taken      \* the call whose channel the reader took from pending

vars == <<seq, pc, seqOf, got, pending, chan, broker, inbox, conn, reader, reply, taken>>
calls == <<seq, pc, seqOf, got>>
wire == <<broker, inbox, conn>>
loop == <<reader, reply, taken>>

Returned == {"reply", "closed", "expired", "failed"}
TypeOK ==
    /\ seq \in 0..Cardinality(Calls)
    /\ pc \in [Calls -> {"start", "register", "encode", "wait"} \cup Returned]
    /\ seqOf \in [Calls -> 0..seq] /\ \A c \in Calls : (seqOf[c] = 0) <=> (pc[c] = "start")
    /\ got \in [Calls -> Calls \cup {None}]
    /\ pending \in [Seqs -> Calls \cup {None}]
    /\ chan \in [Calls -> Calls \cup {None, Closed}]
    /\ broker \subseteq Frames /\ inbox \subseteq Frames /\ conn \in BOOLEAN
    /\ reader \in {"decode", "deliver", "sweep", "dead"}
    /\ reply \in Calls \cup {None} /\ taken \in Calls \cup {None}

Init ==
    /\ seq = 0 /\ pc = [c \in Calls |-> "start"]
    /\ seqOf = [c \in Calls |-> 0] /\ got = [c \in Calls |-> None]
    /\ pending = [s \in Seqs |-> None] /\ chan = [c \in Calls |-> None]
    /\ broker = {} /\ inbox = {} /\ conn = TRUE
    /\ reader = "decode" /\ reply = None /\ taken = None
-----------------------------------------------------------------------------
(* request().                                                              *)

Step(c, from, to) == pc[c] = from /\ pc' = [pc EXCEPT ![c] = to]
Forget(s) == [pending EXCEPT ![s] = None]

Minted(c, s) ==
    /\ Step(c, "start", "register")
    /\ seqOf' = [seqOf EXCEPT ![c] = s]
    /\ UNCHANGED <<got, pending, chan, wire, loop>>
MutMint(c) ==
    LET s == Cardinality({t \in Seqs : pending[t] # None}) + 1
    IN  Minted(c, s) /\ seq' = IF s > seq THEN s ELSE seq
Mint(c) == Minted(c, seq + 1) /\ seq' = seq + 1
Register(c) ==
    /\ Step(c, "register", "encode")
    /\ pending' = [pending EXCEPT ![seqOf[c]] = c]
    /\ UNCHANGED <<seq, seqOf, got, chan, wire, loop>>
Encode(c) ==
    \/ /\ conn /\ Step(c, "encode", "wait")
       /\ broker' = broker \cup {[seq |-> seqOf[c], call |-> c]}
       /\ UNCHANGED <<seq, seqOf, got, pending, chan, inbox, conn, loop>>
    \/ /\ ~conn /\ Step(c, "encode", "failed")
       /\ pending' = Forget(seqOf[c])
       /\ UNCHANGED <<seq, seqOf, got, chan, wire, loop>>
Receive(c) ==
    /\ \/ chan[c] = Closed /\ Step(c, "wait", "closed") /\ UNCHANGED <<chan, got>>
       \/ /\ chan[c] \in Calls /\ Step(c, "wait", "reply")
          /\ got' = [got EXCEPT ![c] = chan[c]] /\ chan' = [chan EXCEPT ![c] = None]
    /\ UNCHANGED <<seq, seqOf, pending, wire, loop>>

\* ctx.Done(): possible whatever has arrived by then.
Expire(c) ==
    /\ c \in Deadlines /\ Step(c, "wait", "expired")
    /\ pending' = Forget(seqOf[c])
    /\ UNCHANGED <<seq, seqOf, got, chan, wire, loop>>
-----------------------------------------------------------------------------
(* readLoop() and the other end.                                           *)

Answer(f) ==
    /\ conn /\ f \in broker
    /\ broker' = broker \ {f} /\ inbox' = inbox \cup {f}
    /\ UNCHANGED <<calls, pending, chan, conn, loop>>
\* The broker's enqueue() drops what a slow client's queue has no room for.
Drop(f) ==
    /\ Lossy /\ conn /\ f \in broker
    /\ broker' = broker \ {f}
    /\ UNCHANGED <<calls, pending, chan, inbox, conn, loop>>
\* The broker hangs up, or Close(), which also gives up what was not read.
Hangup ==
    /\ conn /\ conn' = FALSE /\ broker' = {}
    /\ inbox' \in {inbox, {}}
    /\ UNCHANGED <<calls, pending, chan, loop>>

\* A reply is taken with the entry it belongs to, in one locked section;
\* one to a call that has given up is thrown away.
Take(f) ==
    /\ reader = "decode" /\ f \in inbox
    /\ inbox' = inbox \ {f} /\ pending' = Forget(f.seq)
    /\ IF pending[f.seq] = None
       THEN UNCHANGED loop
       ELSE reader' = "deliver" /\ reply' = f.call /\ taken' = pending[f.seq]
    /\ UNCHANGED <<calls, chan, broker, conn>>

\* The channel has one slot, so that the reader need not meet the caller.
Delivered ==
    /\ reader = "deliver" /\ chan[taken] = None
    /\ chan' = [chan EXCEPT ![taken] = reply]
    /\ reader' = "decode" /\ taken' = None /\ reply' = None
    /\ UNCHANGED <<calls, pending, wire>>
MutDeliver == reader = "deliver" /\ pc[taken] = "wait" /\ Delivered
Deliver == Delivered

\* The end of the stream: what was received before is read first.
Fail ==
    /\ reader = "decode" /\ ~conn /\ inbox = {}
    /\ reader' = "sweep"
    /\ UNCHANGED <<calls, pending, chan, wire, reply, taken>>
Sweep ==
    /\ reader = "sweep" /\ reader' = "dead"
    /\ chan' = [c \in Calls |-> IF \E s \in Seqs : pending[s] = c THEN Closed ELSE chan[c]]
    /\ pending' = [s \in Seqs |-> None]
    /\ UNCHANGED <<calls, wire, reply, taken>>

ReadLoop == (\E f \in inbox : Take(f)) \/ Deliver \/ Fail \/ Sweep
Call(c) == Register(c) \/ Encode(c) \/ Receive(c)
Next ==
    \/ \E c \in Calls : Mint(c) \/ Call(c) \/ Expire(c)
    \/ \E f \in broker : Answer(f) \/ Drop(f)
    \/ Hangup
    \/ ReadLoop

\* A call that has begun goes on.  The broker need not answer: somebody may never click.
Spec == Init /\ [][Next]_vars /\ WF_vars(ReadLoop) /\ \A c \in Calls : WF_vars(Call(c))

\* Requests the broker answers at once, unless it drops the reply; deadlines
\* that come.
PromptSpec ==
    /\ Spec
    /\ WF_vars(\E f \in broker : Answer(f) \/ Drop(f))
    /\ \A c \in Calls : WF_vars(Expire(c))
-----------------------------------------------------------------------------
(* Properties.                                                             *)

(***************************************************************************)
(* A call returns the reply to its own request, however late the replies   *)
(* to the calls that have given up come.                                   *)
(***************************************************************************)
OwnReply == \A c \in Calls : pc[c] = "reply" => got[c] = c

(***************************************************************************)
(* Nothing is left behind in Client.pending: an entry belongs to a call in *)
(* progress whose answer is still to come.                                 *)
(***************************************************************************)
NoLeftovers ==
    \A s \in Seqs : LET c == pending[s] IN
        c # None => seqOf[c] = s /\ pc[c] \in {"encode", "wait"} /\ chan[c] = None

(***************************************************************************)
(* A call waits only for a reply that has not come, on an open connection: *)
(* the read goroutine, which serves every call, is not held up by one that *)
(* has given up, and a call without a deadline returns when the connection *)
(* dies.                                                                   *)
(***************************************************************************)
CallsEnd ==
    []<>(\A c \in Calls : pc[c] = "wait" =>
            conn /\ pending[seqOf[c]] = c /\ ~\E f \in inbox : f.call = c)

(***************************************************************************)
(* A reply may be dropped because "requests carry seqs and time out        *)
(* client-side": a request that is answered at once, if at all, returns.   *)
(***************************************************************************)
TimesOut == \A c \in Calls : pc[c] = "wait" ~> pc[c] \in Returned
=============================================================================
