---------------------------- MODULE BrokerProofs ----------------------------
(***************************************************************************)
(* Proofs about Broker for every set of connections, requests and types    *)
(* and every capacity, in three layers: requests and replies (RequestInv), *)
(* on them what clients believe of the accept session (ViewInv), on both   *)
(* whose verbs are run where (VerbInv).                                    *)
(***************************************************************************)
EXTENDS Broker, TLAPS, WellFoundedInduction, SequenceTheorems

(***************************************************************************)
(* The inductive invariant.  OneReply alone is not inductive: a handler    *)
(* answers the request at the head of a queue and, perhaps, the one of the *)
(* pending session, so both must be known to be unanswered and different.  *)
(***************************************************************************)
NoReply == {"eof", "doc.hover"}

\* A frame in flight carries a seq its connection has used, or none.
SeqsSent ==
    \A c \in Conns : \A i \in DOMAIN in[c] :
        IF in[c][i].t \in NoReply THEN in[c][i].seq = 0 ELSE in[c][i].seq \in 1..sent[c]

\* No two frames in flight carry the same seq.
SeqsDistinct ==
    \A c \in Conns : \A i, j \in DOMAIN in[c] :
        i # j /\ in[c][i].seq = in[c][j].seq => in[c][i].seq = 0

\* What is still in flight or was never sent has no reply.
UnhandledUnanswered ==
    \A c \in Conns : \A s \in Seqs :
        InFlight(c, s) \/ s > sent[c] => acks[c][s] = 0

\* The pending session's request was sent, was handled and has no reply.
SessionOpen ==
    session # NoSession =>
        /\ session.requester \in clients
        /\ session.seq \in 1..sent[session.requester]
        /\ ~InFlight(session.requester, session.seq)
        /\ acks[session.requester][session.seq] = 0

\* A connection that was not made yet has sent nothing.
NewUnused == \A c \in Conns : phase[c] = "new" => sent[c] = 0

RequestInv ==
    /\ NewUnused
    /\ SeqsSent /\ SeqsDistinct /\ UnhandledUnanswered /\ SessionOpen
    /\ OneReply /\ NoneForgotten

-----------------------------------------------------------------------------
(* What the helpers do to the record a handler threads through them: they  *)
(* keep its type, and only reply changes the counts of replies.            *)

OutboxT == [out : [Conns -> Seq(FrameT)], lost : SUBSET Conns, acks : [Conns -> [Seqs -> Nat]],
            clients : SUBSET Conns, subs : SUBSET Conns]
Same(o, p) == p \in OutboxT /\ p.acks = o.acks /\ p.clients = o.clients /\ p.subs = o.subs
Inc(a, c, s) == [a EXCEPT ![c][s] = @ + 1]

LEMMA IncType ==
  ASSUME NEW a \in [Conns -> [Seqs -> Nat]], NEW c \in Conns, NEW s \in Seqs
  PROVE  Inc(a, c, s) \in [Conns -> [Seqs -> Nat]]
  BY DEF Inc

LEMMA EnqueueSame ==
  ASSUME NEW o \in OutboxT, NEW c \in Conns, NEW m \in FrameT
  PROVE  Same(o, enqueue(o, c, m))
<1>1. o.out[c] \in Seq(FrameT) /\ Append(o.out[c], m) \in Seq(FrameT)
  BY DEF OutboxT
<1>2. [o EXCEPT !.out[c] = Append(@, m)] \in OutboxT
  BY <1>1 DEF OutboxT
<1>3. [o EXCEPT !.lost = @ \cup {c}] \in OutboxT
  BY DEF OutboxT
<1>. QED BY <1>2, <1>3 DEF Same, enqueue, OutboxT

LEMMA EnqueueAllSame ==
  ASSUME NEW o \in OutboxT, NEW S \in SUBSET Conns, NEW m \in FrameT
  PROVE  Same(o, enqueueAll(o, S, m))
<1> DEFINE f == [c \in Conns |-> IF c \in S /\ Len(o.out[c]) < SendCap
                                 THEN Append(o.out[c], m) ELSE o.out[c]]
           l == {c \in S : Len(o.out[c]) >= SendCap}
<1>1. f \in [Conns -> Seq(FrameT)]
  BY DEF OutboxT
<1>2. l \subseteq Conns
  OBVIOUS
<1>3. enqueueAll(o, S, m) = [o EXCEPT !.out = f, !.lost = @ \cup l]
  BY DEF enqueueAll
<1> HIDE DEF f, l
<1>. QED BY <1>1, <1>2, <1>3 DEF Same, OutboxT

LEMMA ReplyIncs ==
  ASSUME NEW o \in OutboxT, NEW c \in Conns, NEW s \in Seqs, NEW m \in FrameT
  PROVE  /\ reply(o, c, s, m) \in OutboxT
         /\ reply(o, c, s, m).acks = Inc(o.acks, c, s)
         /\ reply(o, c, s, m).clients = o.clients
         /\ reply(o, c, s, m).subs = o.subs
<1> DEFINE e == enqueue(o, c, m)
<1>1. Same(o, e)
  BY EnqueueSame
<1>2. reply(o, c, s, m) = [e EXCEPT !.acks = Inc(e.acks, c, s)]
  BY DEF reply, Inc
<1> HIDE DEF e
<1>3. Inc(e.acks, c, s) \in [Conns -> [Seqs -> Nat]]
  BY <1>1, IncType DEF Same, OutboxT
<1>. QED BY <1>1, <1>2, <1>3 DEF Same, OutboxT

LEMMA FrameTypes ==
  ASSUME NEW n \in Nat, NEW v \in VerbIds \cup {""}
  PROVE  /\ Frame("welcome", n, v) \in FrameT /\ Frame("ok", n, v) \in FrameT
         /\ Frame("error", n, v) \in FrameT /\ Frame("accept.result", n, v) \in FrameT
         /\ Frame("accept.mode", n, v) \in FrameT /\ Frame("accept.clear", n, v) \in FrameT
         /\ Frame("event", n, v) \in FrameT /\ Frame("verb.run", n, v) \in FrameT
         /\ Frame("verb.list", n, v) \in FrameT /\ Frame("menu.show", n, v) \in FrameT
         /\ Frame("doc.hover", n, v) \in FrameT
  BY DEF Frame, FrameT

LEMMA EmitSame == ASSUME NEW o \in OutboxT PROVE Same(o, emit(o))
<1>1. o.subs \cap o.clients \in SUBSET Conns
  BY DEF OutboxT
<1>2. Frame("event", 0, "") \in FrameT
  BY FrameTypes
<1>. QED BY <1>1, <1>2, EnqueueAllSame DEF emit

LEMMA BroadcastSame ==
  ASSUME NEW o \in OutboxT, NEW m \in FrameT PROVE Same(o, broadcast(o, m))
<1>1. o.clients \in SUBSET Conns
  BY DEF OutboxT
<1>. QED BY <1>1, EnqueueAllSame DEF broadcast

\* The requester of a session gets its one reply if it is connected.
LEMMA ResultIncs ==
  ASSUME NEW o \in OutboxT, NEW s \in SessionT,
         s.requester \in o.clients => s.seq \in Seqs
  PROVE  /\ result(o, s) \in OutboxT
         /\ result(o, s).acks = IF s.requester \in o.clients THEN Inc(o.acks, s.requester, s.seq) ELSE o.acks
         /\ result(o, s).clients = o.clients
         /\ result(o, s).subs = o.subs
<1>1. s.id \in Nat /\ o.clients \subseteq Conns
  BY DEF SessionT, OutboxT
<1>2. Frame("accept.result", s.id, "") \in FrameT
  BY <1>1, FrameTypes
<1>3. CASE s.requester \in o.clients
  BY <1>1, <1>2, <1>3, ReplyIncs DEF result
<1>4. CASE s.requester \notin o.clients
  BY <1>4 DEF result
<1>. QED BY <1>3, <1>4

LEMMA ClearIncs ==
  ASSUME NEW o \in OutboxT, NEW s \in SessionT, s # NoSession,
         s.requester \in o.clients => s.seq \in Seqs
  PROVE  /\ clearSession(o, s) \in OutboxT
         /\ clearSession(o, s).acks = IF s.requester \in o.clients THEN Inc(o.acks, s.requester, s.seq) ELSE o.acks
         /\ clearSession(o, s).clients = o.clients
         /\ clearSession(o, s).subs = o.subs
<1> DEFINE r == result(o, s)
           b == broadcast(r, Frame("accept.clear", s.id, ""))
<1>1. Frame("accept.clear", s.id, "") \in FrameT
  BY FrameTypes DEF SessionT
<1>2. /\ r \in OutboxT /\ r.clients = o.clients /\ r.subs = o.subs
      /\ r.acks = IF s.requester \in o.clients THEN Inc(o.acks, s.requester, s.seq) ELSE o.acks
  BY ResultIncs
<1>3. Same(r, b)
  BY <1>1, <1>2, BroadcastSame
<1>4. clearSession(o, s) = emit(b)
  BY DEF clearSession
<1> HIDE DEF r, b
<1>5. Same(b, emit(b))
  BY <1>3, EmitSame DEF Same
<1>. QED BY <1>2, <1>3, <1>4, <1>5 DEF Same

LEMMA OutboxType == ASSUME TypeOK PROVE Outbox \in OutboxT
  BY DEF TypeOK, Outbox, OutboxT

-----------------------------------------------------------------------------
(* The five things a handled frame can mean for requests and replies.      *)

Took(c) ==
    /\ c \in Conns /\ in[c] # <<>>
    /\ in' = [in EXCEPT ![c] = Tail(@)]
    /\ sent' = sent

\* A reply to the frame's sender, no change of session.
Replied(c) ==
    /\ Took(c) /\ Head(in[c]).t \notin NoReply
    /\ acks' = Inc(acks, c, Head(in[c]).seq)
    /\ session' = session /\ phase' = phase /\ clients' = clients

\* A reply to the sender, and one to the requester of the session, which ends.
Settled(c) ==
    /\ Took(c) /\ Head(in[c]).t \notin NoReply
    /\ session # NoSession
    /\ acks' = Inc(Inc(acks, session.requester, session.seq), c, Head(in[c]).seq)
    /\ session' = NoSession /\ phase' = phase /\ clients' = clients

\* No reply yet: the frame's request becomes the session; a pending session's
\* requester gets its reply.
Parked(c) ==
    /\ Took(c) /\ Head(in[c]).t \notin NoReply
    /\ c \in clients
    /\ acks' = IF session = NoSession THEN acks ELSE Inc(acks, session.requester, session.seq)
    /\ session'.requester = c /\ session'.seq = Head(in[c]).seq
    /\ phase' = phase /\ clients' = clients

\* A frame without a seq.
Ignored(c) ==
    /\ Took(c) /\ Head(in[c]).t = "doc.hover"
    /\ acks' = acks /\ session' = session /\ phase' = phase /\ clients' = clients

\* The connection is removed, and a session it requested with it.
Removed(c) ==
    /\ Took(c) /\ Head(in[c]).t = "eof"
    /\ phase' = [phase EXCEPT ![c] = "gone"]
    /\ clients' = clients \ {c}
    /\ acks' = acks
    /\ session' = IF session.requester = c THEN NoSession ELSE session

\* Taking the head of a queue: what is in flight afterwards was before, and
\* the seq that was taken is in flight no more.
LEMMA TookQueue ==
  ASSUME TypeOK, SeqsSent, SeqsDistinct, NEW c \in Conns, Took(c),
         NEW h, h = Head(in[c]).seq
  PROVE  /\ SeqsSent' /\ SeqsDistinct'
         /\ \A d \in Conns, s \in Seqs : InFlight(d, s)' => InFlight(d, s)
         /\ \A d \in Conns, s \in Seqs : InFlight(d, s) /\ ~InFlight(d, s)' => d = c /\ s = h
         /\ Head(in[c]).t \notin NoReply =>
                h \in 1..sent[c] /\ h \in Seqs /\ InFlight(c, h) /\ ~InFlight(c, h)'
         /\ Head(in[c]).t \in NoReply => h = 0
<1> DEFINE q == in[c]
<1>1. /\ q \in Seq(RequestT) /\ q # <<>> /\ Len(q) \in Nat \ {0} /\ Head(q) = q[1] /\ 1 \in DOMAIN q
      /\ DOMAIN q = 1..Len(q)
  BY DEF TypeOK, Took
<1>2. /\ in'[c] = Tail(q) /\ DOMAIN Tail(q) = 1..(Len(q) - 1)
      /\ \A i \in 1..(Len(q) - 1) : Tail(q)[i] = q[i + 1]
  BY <1>1 DEF TypeOK, Took
<1>3. \A d \in Conns : d # c => in'[d] = in[d]
  BY DEF TypeOK, Took
<1>4. sent' = sent /\ sent \in [Conns -> 0..MaxReq] /\ MaxReq \in Nat \ {0}
  BY BrokerAssumption DEF Took, TypeOK
<1>a. /\ DOMAIN in'[c] = 1..(Len(q) - 1)
      /\ \A i \in DOMAIN in'[c] : i + 1 \in DOMAIN q /\ in'[c][i] = q[i + 1]
  BY <1>1, <1>2
<1>5. SeqsSent'
  <2> SUFFICES ASSUME NEW d \in Conns, NEW i \in DOMAIN in'[d]
               PROVE  IF in'[d][i].t \in NoReply THEN in'[d][i].seq = 0 ELSE in'[d][i].seq \in 1..sent[d]
    BY <1>4 DEF SeqsSent
  <2>1. CASE d = c
    <3>1. i \in DOMAIN in'[c]
      BY <2>1
    <3>2. i + 1 \in DOMAIN q /\ in'[d][i] = q[i + 1]
      BY <1>a, <2>1, <3>1
    <3>. QED BY <2>1, <3>2 DEF SeqsSent
  <2>2. CASE d # c
    BY <1>3, <2>2 DEF SeqsSent
  <2>. QED BY <2>1, <2>2
<1>6. SeqsDistinct'
  <2> SUFFICES ASSUME NEW d \in Conns, NEW i \in DOMAIN in'[d], NEW j \in DOMAIN in'[d],
                      i # j, in'[d][i].seq = in'[d][j].seq
               PROVE  in'[d][i].seq = 0
    BY DEF SeqsDistinct
  <2>1. CASE d = c
    <3>1. i \in DOMAIN in'[c] /\ j \in DOMAIN in'[c]
      BY <2>1
    <3>2. /\ i + 1 \in DOMAIN q /\ j + 1 \in DOMAIN q
          /\ in'[d][i] = q[i + 1] /\ in'[d][j] = q[j + 1]
      BY <1>a, <2>1, <3>1
    <3>3. i + 1 # j + 1
      BY <1>1, <1>a, <3>1
    <3>. QED BY <3>2, <3>3 DEF SeqsDistinct
  <2>2. CASE d # c
    BY <1>3, <2>2 DEF SeqsDistinct
  <2>. QED BY <2>1, <2>2
<1>7. ASSUME NEW d \in Conns, NEW s \in Seqs, InFlight(d, s)' PROVE InFlight(d, s)
  <2>1. PICK i \in DOMAIN in'[d] : in'[d][i].seq = s
    BY <1>7 DEF InFlight
  <2>2. CASE d = c
    <3>1. i \in DOMAIN in'[c]
      BY <2>2
    <3>2. i + 1 \in DOMAIN q /\ in'[d][i] = q[i + 1]
      BY <1>a, <2>2, <3>1
    <3>. QED BY <2>1, <2>2, <3>2 DEF InFlight
  <2>3. CASE d # c
    BY <1>3, <2>1, <2>3 DEF InFlight
  <2>. QED BY <2>2, <2>3
<1>8. ASSUME NEW d \in Conns, NEW s \in Seqs, InFlight(d, s), ~InFlight(d, s)'
      PROVE  d = c /\ s = h
  <2>1. PICK i \in DOMAIN in[d] : in[d][i].seq = s
    BY <1>8 DEF InFlight
  <2>2. d = c
    BY <1>3, <1>8, <2>1 DEF InFlight
  <2>3. CASE i = 1
    BY <1>1, <2>1, <2>2, <2>3
  <2>4. CASE i # 1
    <3>1. i - 1 \in 1..(Len(q) - 1) /\ Tail(q)[i - 1] = q[i]
      BY <1>1, <1>2, <2>1, <2>2, <2>4
    <3>. QED BY <1>2, <1>8, <2>1, <2>2, <3>1 DEF InFlight
  <2>. QED BY <2>2, <2>3, <2>4
<1>9. ASSUME Head(q).t \notin NoReply
      PROVE  /\ h \in 1..sent[c] /\ h \in Seqs
             /\ InFlight(c, h) /\ ~InFlight(c, h)'
  <2>1. h \in 1..sent[c]
    BY <1>1, <1>9 DEF SeqsSent
  <2>2. h \in Seqs /\ h # 0
    BY <1>4, <2>1 DEF Seqs
  <2>3. InFlight(c, h)
    BY <1>1 DEF InFlight
  <2>4. ASSUME NEW i \in 1..(Len(q) - 1), Tail(q)[i].seq = h PROVE FALSE
    <3>1. i + 1 \in DOMAIN q /\ i + 1 # 1 /\ q[i + 1].seq = q[1].seq
      BY <1>1, <1>2, <2>4
    <3>. QED BY <1>1, <2>2, <3>1 DEF SeqsDistinct
  <2>5. ~(\E i \in DOMAIN in'[c] : in'[c][i].seq = h)
    BY <1>2, <2>4
  <2>. QED BY <2>1, <2>2, <2>3, <2>5 DEF InFlight
<1>10. Head(q).t \in NoReply => h = 0
  BY <1>1 DEF SeqsSent
<1>. QED BY <1>5, <1>6, <1>7, <1>8, <1>9, <1>10

(***************************************************************************)
(* The accounting behind the invariant, for a step that takes the frame    *)
(* with seq h of c: only that request and the session's may be answered,   *)
(* each at most once; the frame's request is answered, becomes the         *)
(* session, or its sender is gone; the session stays as it is or is        *)
(* answered, or its requester is gone.                                     *)
(***************************************************************************)
LEMMA Accounting ==
  ASSUME TypeOK, RequestInv, NEW c \in Conns, Took(c), NEW h, h = Head(in[c]).seq,
         \A d \in Conns : phase'[d] \in {"new", "open"} => phase'[d] = phase[d],
         \A d \in Conns, s \in Seqs : acks'[d][s] \in {acks[d][s], acks[d][s] + 1},
         \A d \in Conns, s \in Seqs : acks'[d][s] # acks[d][s] =>
             (d = c /\ s = h) \/ (session # NoSession /\ d = session.requester /\ s = session.seq),
         h \in Seqs =>
             acks'[c][h] > 0 \/ (session'.requester = c /\ session'.seq = h) \/ phase'[c] # "open",
         session # NoSession =>
             \/ session' = session
             \/ acks'[session.requester][session.seq] > 0
             \/ phase'[session.requester] # "open",
         session' # NoSession =>
             /\ session'.requester \in clients'
             /\ \/ session' = session /\ acks'[session.requester][session.seq] = 0
                \/ session'.requester = c /\ session'.seq = h /\ h \in Seqs /\ acks'[c][h] = 0
  PROVE  RequestInv'
<1>1. /\ SeqsSent' /\ SeqsDistinct'
      /\ \A d \in Conns, s \in Seqs : InFlight(d, s)' => InFlight(d, s)
      /\ \A d \in Conns, s \in Seqs : InFlight(d, s) /\ ~InFlight(d, s)' => d = c /\ s = h
      /\ Head(in[c]).t \notin NoReply =>
             h \in 1..sent[c] /\ h \in Seqs /\ InFlight(c, h) /\ ~InFlight(c, h)'
      /\ Head(in[c]).t \in NoReply => h = 0
  BY TookQueue DEF RequestInv
<1>2. h \in Seqs => h \in 1..sent[c] /\ InFlight(c, h) /\ ~InFlight(c, h)' /\ acks[c][h] = 0
  BY <1>1 DEF Seqs, RequestInv, UnhandledUnanswered
<1>3. /\ sent' = sent /\ sent \in [Conns -> 0..MaxReq] /\ MaxReq \in Nat \ {0}
      /\ acks \in [Conns -> [Seqs -> Nat]] /\ clients \subseteq Conns
  BY BrokerAssumption DEF Took, TypeOK
<1>4. session # NoSession =>
        /\ session.requester \in Conns /\ session.seq \in Seqs
        /\ session.seq \in 1..sent[session.requester]
        /\ ~InFlight(session.requester, session.seq)
        /\ acks[session.requester][session.seq] = 0
  BY <1>3 DEF RequestInv, SessionOpen, Seqs
<1>5. UnhandledUnanswered'
  <2> SUFFICES ASSUME NEW d \in Conns, NEW s \in Seqs, InFlight(d, s)' \/ s > sent[d]
               PROVE  acks'[d][s] = 0
    BY <1>3 DEF UnhandledUnanswered
  <2>1. acks[d][s] = 0
    BY <1>1 DEF RequestInv, UnhandledUnanswered
  <2>2. ~(d = c /\ s = h)
    BY <1>2, <1>3 DEF Seqs
  <2>3. ~(session # NoSession /\ d = session.requester /\ s = session.seq)
    <3>. SUFFICES ASSUME session # NoSession, d = session.requester, s = session.seq PROVE FALSE
      OBVIOUS
    <3>1. ~InFlight(d, s) /\ s \in 1..sent[d]
      BY <1>4
    <3>2. ~InFlight(d, s)'
      BY <1>1, <3>1
    <3>3. sent[d] \in 0..MaxReq /\ MaxReq \in Nat
      BY <1>3
    <3>. QED BY <3>1, <3>2, <3>3
  <2>4. ~(acks'[d][s] # acks[d][s])
    BY <2>2, <2>3
  <2>. QED BY <2>1, <2>4
<1>6. OneReply'
  <2> SUFFICES ASSUME NEW d \in Conns, NEW s \in Seqs PROVE acks'[d][s] <= 1
    BY DEF OneReply
  <2>1. CASE acks'[d][s] = acks[d][s]
    BY <2>1 DEF RequestInv, OneReply
  <2>2. CASE acks'[d][s] # acks[d][s]
    BY <1>2, <1>4, <2>2
  <2>. QED BY <2>1, <2>2
<1>7. NoneForgotten'
  <2> SUFFICES ASSUME NEW d \in Conns, phase'[d] = "open", NEW s \in 1..sent[d]
               PROVE  acks'[d][s] > 0 \/ InFlight(d, s)' \/ (session'.requester = d /\ session'.seq = s)
    BY <1>3 DEF NoneForgotten
  <2>1. s \in Seqs /\ acks[d][s] \in Nat
    BY <1>3 DEF Seqs
  <2>2. acks[d][s] > 0 \/ InFlight(d, s) \/ (session.requester = d /\ session.seq = s)
    BY DEF RequestInv, NoneForgotten
  <2>3. CASE acks[d][s] > 0
    BY <2>1, <2>3
  <2>4. CASE InFlight(d, s)
    BY <1>1, <2>1, <2>4
  <2>5. CASE session.requester = d /\ session.seq = s
    <3>1. session # NoSession
      BY <2>5, BrokerAssumption DEF NoSession
    <3>. QED BY <2>5, <3>1
  <2>. QED BY <2>2, <2>3, <2>4, <2>5
<1>8. SessionOpen'
  <2> SUFFICES ASSUME session' # NoSession
               PROVE  /\ session'.requester \in clients'
                      /\ session'.seq \in 1..sent[session'.requester]
                      /\ ~InFlight(session.requester, session.seq)'
                      /\ acks'[session'.requester][session'.seq] = 0
    BY <1>3 DEF SessionOpen, NoSession
  <2>1. CASE session' = session /\ acks'[session.requester][session.seq] = 0
    <3>1. ~InFlight(session'.requester, session'.seq)
      BY <1>4, <2>1
    <3>2. ~\E i \in DOMAIN in'[session.requester] : in'[session.requester][i].seq = session.seq
      BY <1>1, <1>4, <2>1 DEF InFlight
    <3>3. ~InFlight(session.requester, session.seq)'
      BY <2>1, <3>2 DEF InFlight
    <3>. QED BY <1>4, <2>1, <3>3
  <2>2. CASE session'.requester = c /\ session'.seq = h /\ h \in Seqs /\ acks'[c][h] = 0
    <3>1. ~\E i \in DOMAIN in'[c] : in'[c][i].seq = h
      BY <1>2, <2>2 DEF InFlight
    <3>2. ~InFlight(session.requester, session.seq)'
      BY <2>2, <3>1 DEF InFlight
    <3>. QED BY <1>2, <2>2, <3>2
  <2>. QED BY <2>1, <2>2
<1>9. NewUnused'
  BY <1>3 DEF RequestInv, NewUnused
<1>. QED BY <1>1, <1>5, <1>6, <1>7, <1>8, <1>9 DEF RequestInv

\* The values of an incremented table.
LEMMA IncAt ==
  ASSUME NEW a \in [Conns -> [Seqs -> Nat]], NEW c \in Conns, NEW s \in Seqs
  PROVE  \A d \in Conns, x \in Seqs :
            Inc(a, c, s)[d][x] = IF d = c /\ x = s THEN a[d][x] + 1 ELSE a[d][x]
  BY DEF Inc

\* What the invariant says of the frame at the head of a queue and the session.
LEMMA HeadAndSession ==
  ASSUME TypeOK, RequestInv, NEW c \in Conns, Took(c), NEW h, h = Head(in[c]).seq
  PROVE  /\ Head(in[c]).t \notin NoReply => h \in Seqs /\ acks[c][h] = 0
         /\ Head(in[c]).t \in NoReply => h \notin Seqs
         /\ session # NoSession =>
              /\ session.requester \in clients /\ session.requester \in Conns
              /\ session.seq \in Seqs /\ acks[session.requester][session.seq] = 0
              /\ ~(session.requester = c /\ session.seq = h)
<1>1. /\ Head(in[c]).t \notin NoReply => h \in Seqs /\ InFlight(c, h)
      /\ Head(in[c]).t \in NoReply => h = 0
  BY TookQueue DEF RequestInv
<1>2. session # NoSession =>
         /\ session.requester \in clients /\ session.requester \in Conns
         /\ session.seq \in Seqs /\ acks[session.requester][session.seq] = 0
         /\ ~InFlight(session.requester, session.seq)
  <2>. SUFFICES ASSUME session # NoSession
       PROVE  /\ session.requester \in clients /\ session.requester \in Conns
              /\ session.seq \in Seqs /\ acks[session.requester][session.seq] = 0
              /\ ~InFlight(session.requester, session.seq)
    OBVIOUS
  <2>1. /\ session.requester \in clients /\ session.seq \in 1..sent[session.requester]
        /\ acks[session.requester][session.seq] = 0
        /\ ~InFlight(session.requester, session.seq)
    BY DEF RequestInv, SessionOpen
  <2>2. clients \subseteq Conns /\ sent \in [Conns -> 0..MaxReq] /\ MaxReq \in Nat
    BY BrokerAssumption DEF TypeOK
  <2>. QED BY <2>1, <2>2 DEF Seqs
<1>. QED BY <1>1, <1>2 DEF RequestInv, UnhandledUnanswered, Seqs

LEMMA RepliedInv == ASSUME TypeOK, RequestInv, NEW c \in Conns, Replied(c) PROVE RequestInv'
<1>1. PICK h : h = Head(in[c]).seq
  OBVIOUS
<1>2. Took(c) /\ h \in Seqs /\ acks[c][h] = 0
  BY <1>1, HeadAndSession DEF Replied
<1>3. \A d \in Conns, s \in Seqs :
          acks'[d][s] = IF d = c /\ s = h THEN acks[d][s] + 1 ELSE acks[d][s]
  <2>1. acks' = Inc(acks, c, h) /\ acks \in [Conns -> [Seqs -> Nat]]
    BY <1>1 DEF Replied, TypeOK
  <2>. QED BY <1>2, <2>1, IncAt
<1>4. session # NoSession => session.requester \in clients /\ acks'[session.requester][session.seq] = 0
  BY <1>1, <1>2, <1>3, HeadAndSession
<1>. QED BY <1>1, <1>2, <1>3, <1>4, Accounting DEF Replied

LEMMA SettledInv == ASSUME TypeOK, RequestInv, NEW c \in Conns, Settled(c) PROVE RequestInv'
<1>1. PICK h : h = Head(in[c]).seq
  OBVIOUS
<1> DEFINE r == session.requester
           q == session.seq
<1>2. /\ Took(c) /\ h \in Seqs /\ acks[c][h] = 0 /\ session # NoSession
      /\ r \in Conns /\ q \in Seqs /\ acks[r][q] = 0 /\ ~(r = c /\ q = h)
  BY <1>1, HeadAndSession DEF Settled
<1>3. \A d \in Conns, s \in Seqs :
          acks'[d][s] = IF (d = c /\ s = h) \/ (d = r /\ s = q) THEN acks[d][s] + 1 ELSE acks[d][s]
  <2>1. Inc(acks, r, q) \in [Conns -> [Seqs -> Nat]]
    BY <1>2, IncType DEF TypeOK
  <2>2. acks' = Inc(Inc(acks, r, q), c, h)
    BY <1>1 DEF Settled
  <2>a. acks \in [Conns -> [Seqs -> Nat]]
    BY DEF TypeOK
  <2>3. \A d \in Conns, s \in Seqs :
            Inc(acks, r, q)[d][s] = IF d = r /\ s = q THEN acks[d][s] + 1 ELSE acks[d][s]
    BY <1>2, <2>a, IncAt
  <2>4. \A d \in Conns, s \in Seqs :
            acks'[d][s] = IF d = c /\ s = h THEN Inc(acks, r, q)[d][s] + 1 ELSE Inc(acks, r, q)[d][s]
    BY <1>2, <2>1, <2>2, IncAt
  <2>. QED BY <1>2, <2>3, <2>4
<1>. QED BY <1>1, <1>2, <1>3, Accounting DEF Settled

LEMMA ParkedInv == ASSUME TypeOK, RequestInv, NEW c \in Conns, Parked(c) PROVE RequestInv'
<1>1. PICK h : h = Head(in[c]).seq
  OBVIOUS
<1> DEFINE r == session.requester
           q == session.seq
<1>2. /\ Took(c) /\ h \in Seqs /\ acks[c][h] = 0
      /\ session # NoSession => r \in Conns /\ q \in Seqs /\ acks[r][q] = 0 /\ ~(r = c /\ q = h)
  BY <1>1, HeadAndSession DEF Parked
<1>3. \A d \in Conns, s \in Seqs :
          acks'[d][s] = IF session # NoSession /\ d = r /\ s = q THEN acks[d][s] + 1 ELSE acks[d][s]
  <2>1. acks' = IF session = NoSession THEN acks ELSE Inc(acks, r, q)
    BY DEF Parked
  <2>2. acks \in [Conns -> [Seqs -> Nat]]
    BY DEF TypeOK
  <2>. QED BY <1>2, <2>1, <2>2, IncAt
<1>4. session'.requester = c /\ session'.seq = h /\ c \in clients' /\ acks'[c][h] = 0
  BY <1>1, <1>2, <1>3 DEF Parked
<1>5. /\ phase' = phase
      /\ \A d \in Conns, s \in Seqs : acks[d][s] \in Nat
      /\ session # NoSession => acks'[r][q] > 0
  BY <1>2, <1>3, SMTT(30) DEF Parked, TypeOK
<1>. QED BY <1>1, <1>2, <1>3, <1>4, <1>5, Accounting

LEMMA IgnoredInv == ASSUME TypeOK, RequestInv, NEW c \in Conns, Ignored(c) PROVE RequestInv'
<1>1. PICK h : h = Head(in[c]).seq
  OBVIOUS
<1>2. /\ Took(c) /\ h \notin Seqs
      /\ session # NoSession => session.requester \in clients /\ acks[session.requester][session.seq] = 0
  BY <1>1, HeadAndSession DEF Ignored, NoReply
<1>. QED BY <1>1, <1>2, Accounting DEF Ignored, TypeOK

LEMMA RemovedInv == ASSUME TypeOK, RequestInv, NEW c \in Conns, Removed(c) PROVE RequestInv'
<1>1. PICK h : h = Head(in[c]).seq
  OBVIOUS
<1>2. /\ Took(c) /\ h \notin Seqs
      /\ session # NoSession => session.requester \in clients /\ acks[session.requester][session.seq] = 0
  BY <1>1, HeadAndSession DEF Removed, NoReply
<1>3. phase'[c] # "open" /\ \A d \in Conns : d # c => phase'[d] = phase[d]
  BY DEF Removed, TypeOK
<1>4. session' # NoSession => session' = session /\ session.requester \in clients'
  BY <1>2 DEF Removed
<1>. QED BY <1>1, <1>2, <1>3, <1>4, Accounting DEF Removed, TypeOK

-----------------------------------------------------------------------------
(* Every handler is one of the five, and keeps the types.                  *)

LEMMA Received ==
  ASSUME TypeOK, RequestInv, NEW c \in Conns, NEW t, Receive(c, t)
  PROVE  /\ Took(c) /\ c \in clients
         /\ Head(in[c]) \in RequestT /\ Head(in[c]).t = t
         /\ t \notin NoReply => Head(in[c]).seq \in Seqs
         /\ in' \in [Conns -> Seq(RequestT)] /\ sent' = sent /\ view' = view
<1>1. Took(c) /\ c \in clients /\ Head(in[c]).t = t /\ sent' = sent /\ view' = view
  BY DEF Receive, Took
<1>2. Head(in[c]) \in RequestT /\ Tail(in[c]) \in Seq(RequestT)
  BY <1>1 DEF TypeOK, Took
<1>3. in' \in [Conns -> Seq(RequestT)]
  BY <1>1, <1>2 DEF TypeOK, Took
<1>4. PICK h : h = Head(in[c]).seq
  OBVIOUS
<1>5. t \notin NoReply => h \in Seqs
  BY <1>1, <1>4, HeadAndSession
<1>. QED BY <1>1, <1>2, <1>3, <1>4, <1>5

\* A handler that delivers o and leaves the connections alone keeps the types.
LEMMA DeliveredType ==
  ASSUME TypeOK, RequestInv, NEW c \in Conns, NEW t, Receive(c, t),
         NEW o \in OutboxT, Deliver(o), o.clients = clients,
         phase' = phase, wm' \subseteq Conns, session' \in SessionT, nextSess' \in Nat
  PROVE  TypeOK'
<1>1. /\ in' \in [Conns -> Seq(RequestT)] /\ sent' = sent /\ view' = view
  BY Received
<1>2. /\ out' \in [Conns -> Seq(FrameT)] /\ lost' \subseteq Conns /\ subs' \subseteq Conns
      /\ acks' \in [Conns -> [Seqs -> Nat]] /\ clients' = clients
  BY DEF Deliver, OutboxT
<1>3. clients' = {d \in Conns : phase'[d] \in {"open", "shut"}}
  BY <1>2 DEF TypeOK
<1>. QED BY <1>1, <1>2, <1>3 DEF TypeOK

LEMMA RepliedBy ==
  ASSUME TypeOK, RequestInv, NEW c \in Conns, NEW t, t \notin NoReply, Receive(c, t),
         NEW o \in OutboxT, Deliver(o), o.clients = clients,
         o.acks = Inc(acks, c, Head(in[c]).seq),
         phase' = phase, session' = session, nextSess' = nextSess, wm' \subseteq Conns
  PROVE  TypeOK' /\ RequestInv'
<1>1. TypeOK'
  BY DeliveredType DEF TypeOK
<1>2. Replied(c)
  BY Received DEF Replied, Deliver
<1>. QED BY <1>1, <1>2, RepliedInv

LEMMA NoSessionType == NoSession \in SessionT
  BY BrokerAssumption DEF NoSession, SessionT

LEMMA SettledBy ==
  ASSUME TypeOK, RequestInv, NEW c \in Conns, NEW t, t \notin NoReply, Receive(c, t),
         NEW o \in OutboxT, Deliver(o), o.clients = clients, session # NoSession,
         o.acks = Inc(Inc(acks, session.requester, session.seq), c, Head(in[c]).seq),
         phase' = phase, session' = NoSession, nextSess' = nextSess, wm' = wm
  PROVE  TypeOK' /\ RequestInv'
<1>1. TypeOK'
  BY DeliveredType, NoSessionType DEF TypeOK
<1>2. Settled(c)
  BY Received DEF Settled, Deliver
<1>. QED BY <1>1, <1>2, SettledInv

\* ok and error answer the request.
LEMMA OkIncs ==
  ASSUME NEW o \in OutboxT, NEW c \in Conns, NEW m, m.seq \in Seqs
  PROVE  /\ ok(o, c, m) \in OutboxT /\ error(o, c, m) \in OutboxT
         /\ ok(o, c, m).acks = Inc(o.acks, c, m.seq) /\ error(o, c, m).acks = Inc(o.acks, c, m.seq)
         /\ ok(o, c, m).clients = o.clients /\ error(o, c, m).clients = o.clients
         /\ ok(o, c, m).subs = o.subs /\ error(o, c, m).subs = o.subs
<1>1. Frame("ok", 0, "") \in FrameT /\ Frame("error", 0, "") \in FrameT
  BY FrameTypes
<1>2. PICK f \in FrameT, g \in FrameT, s \in Seqs : f = Frame("ok", 0, "") /\ g = Frame("error", 0, "") /\ s = m.seq
  BY <1>1
<1>3. ok(o, c, m) = reply(o, c, s, f) /\ error(o, c, m) = reply(o, c, s, g)
  BY <1>2 DEF ok, error
<1>4. /\ reply(o, c, s, f) \in OutboxT /\ reply(o, c, s, f).acks = Inc(o.acks, c, s)
      /\ reply(o, c, s, f).clients = o.clients /\ reply(o, c, s, f).subs = o.subs
  BY ReplyIncs
<1>5. /\ reply(o, c, s, g) \in OutboxT /\ reply(o, c, s, g).acks = Inc(o.acks, c, s)
      /\ reply(o, c, s, g).clients = o.clients /\ reply(o, c, s, g).subs = o.subs
  BY ReplyIncs
<1>. QED BY <1>2, <1>3, <1>4, <1>5

LEMMA OutboxFields ==
  ASSUME TypeOK
  PROVE  Outbox \in OutboxT /\ Outbox.acks = acks /\ Outbox.clients = clients /\ Outbox.subs = subs
  BY OutboxType DEF Outbox

LEMMA ReplyOutbox ==
  ASSUME TypeOK, NEW c \in Conns, NEW s \in Seqs, NEW m \in FrameT
  PROVE  /\ reply(Outbox, c, s, m) \in OutboxT
         /\ reply(Outbox, c, s, m).acks = Inc(acks, c, s)
         /\ reply(Outbox, c, s, m).clients = clients
<1>1. Outbox \in OutboxT /\ Outbox.acks = acks /\ Outbox.clients = clients
  BY OutboxFields
<1>2. /\ reply(Outbox, c, s, m) \in OutboxT
      /\ reply(Outbox, c, s, m).acks = Inc(Outbox.acks, c, s)
      /\ reply(Outbox, c, s, m).clients = Outbox.clients
  BY <1>1, ReplyIncs
<1>. QED BY <1>1, <1>2

LEMMA helloStep == ASSUME TypeOK, RequestInv, NEW c \in Conns, hello(c) PROVE TypeOK' /\ RequestInv'
<1>0. PICK h : h = Head(in[c]).seq
  OBVIOUS
<1> DEFINE r == reply(Outbox, c, h, Frame("welcome", 0, ""))
           e == emit(r)
           o == IF session = NoSession THEN e ELSE enqueue(e, c, Frame("accept.mode", session.id, ""))
<1>1. Receive(c, "hello") /\ "hello" \notin NoReply
  BY DEF hello, NoReply
<1>a. Deliver(o)
  BY <1>0 DEF hello, Greet
<1>b. h \in Seqs
  BY <1>0, <1>1, Received
<1>2. Frame("welcome", 0, "") \in FrameT /\ Frame("accept.mode", session.id, "") \in FrameT
  BY FrameTypes DEF TypeOK, SessionT
<1>3. r \in OutboxT /\ r.acks = Inc(acks, c, h) /\ r.clients = clients
  BY <1>b, <1>2, ReplyOutbox
<1>4. e \in OutboxT /\ e.acks = Inc(acks, c, h) /\ e.clients = clients
  BY <1>3, EmitSame DEF Same
<1>5. o \in OutboxT /\ o.acks = Inc(acks, c, h) /\ o.clients = clients
  BY <1>2, <1>4, EnqueueSame DEF Same
<1>6. phase' = phase /\ session' = session /\ nextSess' = nextSess /\ wm' \subseteq Conns
  BY DEF hello, TypeOK
<1> HIDE DEF o
<1>. QED BY <1>1, <1>a, <1>5, <1>6, <1>0, RepliedBy

LEMMA registerStep == ASSUME TypeOK, RequestInv, NEW c \in Conns, register(c) PROVE TypeOK' /\ RequestInv'
<1> DEFINE m == Head(in[c])
           r == ok(Outbox, c, m)
           o == emit(r)
<1>1. Receive(c, "register") /\ "register" \notin NoReply /\ Deliver(o) /\ m.seq \in Seqs
  BY Received, SMTT(30) DEF register, NoReply
<1>2. r \in OutboxT /\ r.acks = Inc(acks, c, m.seq) /\ r.clients = clients
  BY <1>1, OutboxFields, OkIncs
<1>3. o \in OutboxT /\ o.acks = Inc(acks, c, m.seq) /\ o.clients = clients
  BY <1>2, EmitSame DEF Same
<1>4. phase' = phase /\ session' = session /\ nextSess' = nextSess /\ wm' \subseteq Conns
  BY DEF register, TypeOK
<1> HIDE DEF o
<1>. QED BY <1>1, <1>3, <1>4, RepliedBy

LEMMA subscribeStep == ASSUME TypeOK, RequestInv, NEW c \in Conns, subscribe(c) PROVE TypeOK' /\ RequestInv'
<1> DEFINE m == Head(in[c])
           p == [Outbox EXCEPT !.subs = @ \cup {c}]
           o == ok(p, c, m)
<1>1. Receive(c, "subscribe") /\ "subscribe" \notin NoReply /\ Deliver(o) /\ m.seq \in Seqs
  BY Received DEF subscribe, NoReply
<1>2. p \in OutboxT /\ p.acks = acks /\ p.clients = clients
  BY OutboxFields DEF OutboxT
<1>3. o \in OutboxT /\ o.acks = Inc(acks, c, m.seq) /\ o.clients = clients
  BY <1>1, <1>2, OkIncs
<1>4. phase' = phase /\ session' = session /\ nextSess' = nextSess /\ wm' \subseteq Conns
  BY DEF subscribe, TypeOK
<1> HIDE DEF o
<1>. QED BY <1>1, <1>3, <1>4, RepliedBy

LEMMA queryVerbsStep == ASSUME TypeOK, RequestInv, NEW c \in Conns, queryVerbs(c) PROVE TypeOK' /\ RequestInv'
<1>0. PICK h : h = Head(in[c]).seq
  OBVIOUS
<1> DEFINE o == reply(Outbox, c, h, Frame("verb.list", 0, ""))
<1>1. Receive(c, "query.verbs") /\ "query.verbs" \notin NoReply
  BY DEF queryVerbs, NoReply
<1>a. Deliver(o)
  BY <1>0 DEF queryVerbs
<1>b. h \in Seqs
  BY <1>0, <1>1, Received
<1>2. Frame("verb.list", 0, "") \in FrameT
  BY FrameTypes
<1>3. o \in OutboxT /\ o.acks = Inc(acks, c, h) /\ o.clients = clients
  BY <1>b, <1>2, ReplyOutbox
<1>4. phase' = phase /\ session' = session /\ nextSess' = nextSess /\ wm' \subseteq Conns
  BY DEF queryVerbs, TypeOK
<1> HIDE DEF o
<1>. QED BY <1>1, <1>a, <1>3, <1>4, <1>0, RepliedBy

LEMMA eventEmitStep == ASSUME TypeOK, RequestInv, NEW c \in Conns, eventEmit(c) PROVE TypeOK' /\ RequestInv'
<1> DEFINE m == Head(in[c])
           e == emit(Outbox)
           o == ok(e, c, m)
<1>1. Receive(c, "event.emit") /\ "event.emit" \notin NoReply /\ Deliver(o) /\ m.seq \in Seqs
  BY Received DEF eventEmit, NoReply
<1>2. e \in OutboxT /\ e.acks = acks /\ e.clients = clients
  BY OutboxFields, EmitSame DEF Same
<1>3. o \in OutboxT /\ o.acks = Inc(acks, c, m.seq) /\ o.clients = clients
  BY <1>1, <1>2, OkIncs
<1>4. phase' = phase /\ session' = session /\ nextSess' = nextSess /\ wm' \subseteq Conns
  BY DEF eventEmit, TypeOK
<1> HIDE DEF o
<1>. QED BY <1>1, <1>3, <1>4, RepliedBy

LEMMA unknownTypeStep == ASSUME TypeOK, RequestInv, NEW c \in Conns, unknownType(c) PROVE TypeOK' /\ RequestInv'
<1> DEFINE m == Head(in[c])
           o == error(Outbox, c, m)
<1>1. Receive(c, "unknown") /\ "unknown" \notin NoReply /\ Deliver(o) /\ m.seq \in Seqs
  BY Received DEF unknownType, NoReply
<1>2. o \in OutboxT /\ o.acks = Inc(acks, c, m.seq) /\ o.clients = clients
  BY <1>1, OutboxFields, OkIncs
<1>3. phase' = phase /\ session' = session /\ nextSess' = nextSess /\ wm' \subseteq Conns
  BY DEF unknownType, TypeOK
<1> HIDE DEF o
<1>. QED BY <1>1, <1>2, <1>3, RepliedBy

LEMMA docHoverStep == ASSUME TypeOK, RequestInv, NEW c \in Conns, docHover(c) PROVE TypeOK' /\ RequestInv'
<1> DEFINE o == enqueueAll(Outbox, wm \cap clients, Frame("doc.hover", 0, ""))
<1>1. /\ Receive(c, "doc.hover") /\ Deliver(o) /\ phase' = phase /\ session' = session
      /\ nextSess' = nextSess /\ wm' = wm
  BY DEF docHover
<1>2. wm \cap clients \in SUBSET Conns /\ Frame("doc.hover", 0, "") \in FrameT
  BY FrameTypes DEF TypeOK
<1>3. o \in OutboxT /\ o.acks = acks /\ o.clients = clients
  BY <1>2, OutboxFields, EnqueueAllSame DEF Same
<1> HIDE DEF o
<1>4. TypeOK'
  BY <1>1, <1>3, DeliveredType DEF TypeOK
<1>5. Ignored(c)
  BY <1>1, <1>3, Received DEF Ignored, Deliver
<1>. QED BY <1>4, <1>5, IgnoredInv

\* The requester of a pending session is connected, its request was sent.
LEMMA SessionFacts ==
  ASSUME TypeOK, RequestInv, session # NoSession
  PROVE  /\ session \in SessionT /\ session.requester \in clients /\ session.requester \in Conns
         /\ session.seq \in Seqs /\ session.id \in Nat
  BY BrokerAssumption DEF TypeOK, RequestInv, SessionOpen, SessionT, Seqs

LEMMA ClearOutbox ==
  ASSUME TypeOK, RequestInv, session # NoSession
  PROVE  /\ clearSession(Outbox, session) \in OutboxT
         /\ clearSession(Outbox, session).acks = Inc(acks, session.requester, session.seq)
         /\ clearSession(Outbox, session).clients = clients
<1>1. Outbox \in OutboxT /\ Outbox.acks = acks /\ Outbox.clients = clients
  BY OutboxFields
<1>2. session \in SessionT /\ session.requester \in Outbox.clients /\ session.seq \in Seqs
  BY <1>1, SessionFacts
<1>3. /\ clearSession(Outbox, session) \in OutboxT
      /\ clearSession(Outbox, session).acks = Inc(Outbox.acks, session.requester, session.seq)
      /\ clearSession(Outbox, session).clients = Outbox.clients
  BY <1>1, <1>2, ClearIncs
<1>. QED BY <1>1, <1>3

LEMMA answeredStep ==
  ASSUME TypeOK, RequestInv, NEW c \in Conns, NEW t, t \notin NoReply, Receive(c, t),
         session # NoSession, answered(c, Head(in[c])),
         phase' = phase, wm' = wm, nextSess' = nextSess
  PROVE  TypeOK' /\ RequestInv'
<1> DEFINE m == Head(in[c])
           r == result(Outbox, session)
           k == ok(r, c, m)
           e == emit(k)
           f == Frame("accept.clear", session.id, "")
           o == broadcast(e, f)
           a == Inc(acks, session.requester, session.seq)
<1>1. /\ session \in SessionT /\ session.requester \in clients /\ session.requester \in Conns
      /\ session.seq \in Seqs /\ session.id \in Nat
  BY SessionFacts
<1>2. m.seq \in Seqs
  BY Received
<1>3. Outbox \in OutboxT /\ Outbox.acks = acks /\ Outbox.clients = clients
  BY OutboxFields
<1>4. r \in OutboxT /\ r.acks = a /\ r.clients = clients
  <2>1. r \in OutboxT /\ r.acks = Inc(Outbox.acks, session.requester, session.seq) /\ r.clients = Outbox.clients
    BY <1>1, <1>3, ResultIncs
  <2>. QED BY <1>3, <2>1
<1>5. session' = NoSession /\ Deliver(o)
  BY DEF answered
<1> HIDE DEF r, a
<1>6. k \in OutboxT /\ k.acks = Inc(a, c, m.seq) /\ k.clients = clients
  BY <1>2, <1>4, OkIncs
<1> HIDE DEF k
<1>7. e \in OutboxT /\ e.acks = Inc(a, c, m.seq) /\ e.clients = clients
  BY <1>6, EmitSame DEF Same
<1> HIDE DEF e
<1>8. f \in FrameT
  BY <1>1, FrameTypes
<1> HIDE DEF f
<1>9. o \in OutboxT /\ o.acks = Inc(a, c, m.seq) /\ o.clients = clients
  BY <1>7, <1>8, BroadcastSame DEF Same
<1> HIDE DEF o
<1>. QED BY <1>5, <1>9, SettledBy DEF a

LEMMA ErrorOutbox ==
  ASSUME TypeOK, NEW c \in Conns, NEW m, m.seq \in Seqs
  PROVE  /\ error(Outbox, c, m) \in OutboxT /\ error(Outbox, c, m).clients = clients
         /\ error(Outbox, c, m).acks = Inc(acks, c, m.seq)
         /\ ok(Outbox, c, m) \in OutboxT /\ ok(Outbox, c, m).clients = clients
         /\ ok(Outbox, c, m).acks = Inc(acks, c, m.seq)
<1>1. Outbox \in OutboxT /\ Outbox.acks = acks /\ Outbox.clients = clients
  BY OutboxFields
<1>2. /\ error(Outbox, c, m) \in OutboxT /\ error(Outbox, c, m).clients = Outbox.clients
      /\ error(Outbox, c, m).acks = Inc(Outbox.acks, c, m.seq)
      /\ ok(Outbox, c, m) \in OutboxT /\ ok(Outbox, c, m).clients = Outbox.clients
      /\ ok(Outbox, c, m).acks = Inc(Outbox.acks, c, m.seq)
  BY <1>1, OkIncs
<1>. QED BY <1>1, <1>2

LEMMA acceptAnswerStep == ASSUME TypeOK, RequestInv, NEW c \in Conns, acceptAnswer(c) PROVE TypeOK' /\ RequestInv'
<1> DEFINE m == Head(in[c])
           o == error(Outbox, c, m)
<1>1. Receive(c, "accept.answer") /\ "accept.answer" \notin NoReply
  BY DEF acceptAnswer, NoReply
<1>2. phase' = phase /\ wm' = wm /\ nextSess' = nextSess
  BY DEF acceptAnswer
<1>3. CASE Addresses(m) /\ Matches(m)
  <2>1. session # NoSession /\ answered(c, m)
    BY <1>3 DEF acceptAnswer, Addresses
  <2>. QED BY <1>1, <1>2, <2>1, answeredStep
<1>4. CASE ~(Addresses(m) /\ Matches(m))
  <2>1. Deliver(o) /\ session' = session
    BY <1>4 DEF acceptAnswer
  <2>2. o \in OutboxT /\ o.acks = Inc(acks, c, m.seq) /\ o.clients = clients
    BY <1>1, Received, ErrorOutbox
  <2> HIDE DEF o
  <2>. QED BY <1>1, <1>2, <2>1, <2>2, RepliedBy DEF TypeOK
<1>. QED BY <1>3, <1>4

LEMMA acceptCancelStep == ASSUME TypeOK, RequestInv, NEW c \in Conns, acceptCancel(c) PROVE TypeOK' /\ RequestInv'
<1> DEFINE m == Head(in[c])
<1>1. Receive(c, "accept.cancel") /\ "accept.cancel" \notin NoReply
  BY DEF acceptCancel, NoReply
<1>2. phase' = phase /\ wm' = wm /\ nextSess' = nextSess
  BY DEF acceptCancel
<1>3. m.seq \in Seqs
  BY <1>1, Received
<1>4. CASE Addresses(m)
  <2> DEFINE q == clearSession(Outbox, session)
             o == ok(q, c, m)
  <2>1. session # NoSession /\ session' = NoSession /\ Deliver(o)
    BY <1>4 DEF acceptCancel, Addresses
  <2>2. q \in OutboxT /\ q.acks = Inc(acks, session.requester, session.seq) /\ q.clients = clients
    BY <2>1, ClearOutbox
  <2> HIDE DEF q
  <2>3. o \in OutboxT /\ o.acks = Inc(q.acks, c, m.seq) /\ o.clients = clients
    BY <1>3, <2>2, OkIncs
  <2> HIDE DEF o
  <2>. QED BY <1>1, <1>2, <2>1, <2>2, <2>3, SettledBy
<1>5. CASE ~Addresses(m)
  <2> DEFINE o == ok(Outbox, c, m)
  <2>1. Deliver(o) /\ session' = session
    BY <1>5 DEF acceptCancel
  <2>2. o \in OutboxT /\ o.acks = Inc(acks, c, m.seq) /\ o.clients = clients
    BY <1>3, ErrorOutbox
  <2> HIDE DEF o
  <2>. QED BY <1>1, <1>2, <2>1, <2>2, RepliedBy DEF TypeOK
<1>. QED BY <1>4, <1>5

LEMMA acceptStartStep == ASSUME TypeOK, RequestInv, NEW c \in Conns, acceptStart(c) PROVE TypeOK' /\ RequestInv'
<1> DEFINE m == Head(in[c])
           q == clearSession(Outbox, session)
           s == [id |-> nextSess + 1, requester |-> c, seq |-> m.seq, ptypes |-> m.ptypes]
           f == Frame("accept.mode", s.id, "")
<1>1. Receive(c, "accept.start") /\ "accept.start" \notin NoReply
  BY DEF acceptStart, NoReply
<1>2. phase' = phase /\ wm' = wm
  BY DEF acceptStart
<1>3. m.seq \in Seqs /\ m \in RequestT /\ Took(c) /\ m.t = "accept.start" /\ c \in clients
  BY <1>1, Received
<1>4. /\ q \in OutboxT /\ q.clients = clients
      /\ q.acks = IF session = NoSession THEN acks ELSE Inc(acks, session.requester, session.seq)
  <2>1. CASE session = NoSession
    BY <2>1, OutboxFields DEF clearSession
  <2>2. CASE session # NoSession
    BY <2>2, ClearOutbox
  <2>. QED BY <2>1, <2>2
<1>5. CASE m.ptypes = {}
  <2> DEFINE o == error(q, c, m)
  <2>1. session' = NoSession /\ nextSess' = nextSess /\ Deliver(o)
    BY <1>5 DEF acceptStart, Superseded
  <2> HIDE DEF q
  <2>2. o \in OutboxT /\ o.acks = Inc(q.acks, c, m.seq) /\ o.clients = clients
    BY <1>3, <1>4, OkIncs
  <2> HIDE DEF o
  <2>3. CASE session = NoSession
    <3>1. o.acks = Inc(acks, c, m.seq) /\ session' = session
      BY <1>4, <2>1, <2>2, <2>3
    <3>. QED BY <1>1, <1>2, <2>1, <2>2, <3>1, RepliedBy DEF TypeOK
  <2>4. CASE session # NoSession
    <3>1. o.acks = Inc(Inc(acks, session.requester, session.seq), c, m.seq)
      BY <1>4, <2>2, <2>4
    <3>. QED BY <1>1, <1>2, <2>1, <2>2, <2>4, <3>1, SettledBy
  <2>. QED BY <2>3, <2>4
<1>6. CASE m.ptypes # {}
  <2> DEFINE b == broadcast(q, f)
             o == emit(b)
  <2>1. session' = s /\ nextSess' = s.id /\ Deliver(o)
    BY <1>6 DEF acceptStart, Superseded
  <2>2. s \in SessionT /\ s.id \in Nat /\ s.requester = c /\ s.seq = m.seq
    <3>1. nextSess + 1 \in Nat
      BY DEF TypeOK
    <3>2. m.ptypes \in SUBSET AllTypes /\ m.seq \in 0..MaxReq
      BY <1>3 DEF RequestT
    <3> HIDE DEF m
    <3>. QED BY <3>1, <3>2 DEF SessionT
  <2>3. f \in FrameT
    BY <2>2, FrameTypes
  <2> HIDE DEF q, f
  <2>4. b \in OutboxT /\ b.acks = q.acks /\ b.clients = clients
    BY <1>4, <2>3, BroadcastSame DEF Same
  <2> HIDE DEF b
  <2>5. o \in OutboxT /\ o.acks = q.acks /\ o.clients = clients
    BY <2>4, EmitSame DEF Same
  <2> HIDE DEF o, s
  <2>6. TypeOK'
    BY <1>1, <1>2, <2>1, <2>2, <2>5, DeliveredType DEF TypeOK
  <2>7. Parked(c)
    BY <1>1, <1>2, <1>3, <1>4, <2>1, <2>2, <2>5 DEF Parked, Deliver
  <2>. QED BY <2>6, <2>7, ParkedInv
<1>. QED BY <1>5, <1>6

LEMMA verbInvokeStep == ASSUME TypeOK, RequestInv, NEW c \in Conns, verbInvoke(c) PROVE TypeOK' /\ RequestInv'
<1> DEFINE m == Head(in[c])
           f == Frame("verb.run", 0, m.verb)
<1>1. Receive(c, "verb.invoke") /\ "verb.invoke" \notin NoReply
  BY DEF verbInvoke, NoReply
<1>2. phase' = phase /\ wm' \subseteq Conns /\ nextSess' = nextSess /\ session' = session
  BY DEF verbInvoke, TypeOK
<1>3. m.seq \in Seqs /\ m \in RequestT
  BY <1>1, Received
<1>4. f \in FrameT
  BY <1>3, FrameTypes DEF RequestT
<1>5. CASE Deliver(error(Outbox, c, m))
  <2> DEFINE o == error(Outbox, c, m)
  <2>1. o \in OutboxT /\ o.acks = Inc(acks, c, m.seq) /\ o.clients = clients
    BY <1>3, ErrorOutbox
  <2> HIDE DEF o
  <2>2. Deliver(o)
    BY <1>5 DEF o
  <2>. QED BY <1>1, <1>2, <2>1, <2>2, RepliedBy
<1>6. CASE \E d \in clients : Deliver(emit(ok(enqueue(Outbox, d, f), c, m)))
  <2>1. PICK d \in clients : Deliver(emit(ok(enqueue(Outbox, d, f), c, m)))
    BY <1>6
  <2> DEFINE n == enqueue(Outbox, d, f)
             k == ok(n, c, m)
             o == emit(k)
  <2>a. d \in Conns
    BY DEF TypeOK
  <2>b. Outbox \in OutboxT /\ Outbox.acks = acks /\ Outbox.clients = clients
    BY OutboxFields
  <2>2. n \in OutboxT /\ n.acks = acks /\ n.clients = clients
    BY <1>4, <2>a, <2>b, EnqueueSame DEF Same
  <2> HIDE DEF n, f
  <2>3. k \in OutboxT /\ k.acks = Inc(n.acks, c, m.seq) /\ k.clients = clients
    BY <1>3, <2>2, OkIncs
  <2> HIDE DEF k
  <2>4. o \in OutboxT /\ o.acks = Inc(acks, c, m.seq) /\ o.clients = clients
    BY <2>2, <2>3, EmitSame DEF Same
  <2> HIDE DEF o
  <2>5. Deliver(o)
    BY <2>1 DEF o, k, n
  <2>. QED BY <1>1, <1>2, <2>4, <2>5, RepliedBy
<1>. QED BY <1>5, <1>6 DEF verbInvoke, Owners

LEMMA menuRequestStep == ASSUME TypeOK, RequestInv, NEW c \in Conns, menuRequest(c) PROVE TypeOK' /\ RequestInv'
<1> DEFINE m == Head(in[c])
           W == wm \cap clients
<1>0. PICK h : h = m.seq
  OBVIOUS
<1>1. Receive(c, "menu.request") /\ "menu.request" \notin NoReply
  BY DEF menuRequest, NoReply
<1>2. phase' = phase /\ wm' = wm /\ nextSess' = nextSess
  BY DEF menuRequest
<1>3. m.seq \in Seqs
  BY <1>1, Received
<1>4. ASSUME session' = session, NEW o \in OutboxT, Deliver(o), o.clients = clients, o.acks = Inc(acks, c, m.seq)
      PROVE  TypeOK' /\ RequestInv'
  BY <1>1, <1>2, <1>4, RepliedBy DEF TypeOK
<1>5. CASE m.ptypes = {}
  <2> DEFINE o == error(Outbox, c, m)
  <2>1. session' = session /\ Deliver(o)
    BY <1>5 DEF menuRequest
  <2>2. o \in OutboxT /\ o.acks = Inc(acks, c, m.seq) /\ o.clients = clients
    BY <1>3, ErrorOutbox
  <2> HIDE DEF o
  <2>. QED BY <1>4, <2>1, <2>2
<1>6. CASE m.ptypes # {} /\ session # NoSession /\ Matches(m)
  <2>1. answered(c, m)
    BY <1>6 DEF menuRequest
  <2>. QED BY <1>1, <1>2, <1>6, <2>1, answeredStep
<1>7. CASE m.ptypes # {} /\ ~(session # NoSession /\ Matches(m)) /\ W = {}
  <2> DEFINE o == reply(Outbox, c, h, Frame("verb.list", 0, ""))
  <2>1. session' = session /\ Deliver(o)
    BY <1>0, <1>7 DEF menuRequest, MenuReply
  <2>2. Frame("verb.list", 0, "") \in FrameT
    BY FrameTypes
  <2>3. o \in OutboxT /\ o.acks = Inc(acks, c, h) /\ o.clients = clients
    BY <1>0, <1>3, <2>2, ReplyOutbox
  <2> HIDE DEF o
  <2>. QED BY <1>0, <1>4, <2>1, <2>3
<1>8. CASE m.ptypes # {} /\ ~(session # NoSession /\ Matches(m)) /\ W # {}
  <2> DEFINE f == Frame("menu.show", 0, "")
             n == enqueueAll(Outbox, W, f)
             o == ok(n, c, m)
  <2>1. session' = session /\ Deliver(o)
    BY <1>8 DEF menuRequest, MenuReply
  <2>2. f \in FrameT /\ W \in SUBSET Conns
    BY FrameTypes DEF TypeOK
  <2>a. Outbox \in OutboxT /\ Outbox.acks = acks /\ Outbox.clients = clients
    BY OutboxFields
  <2>3. n \in OutboxT /\ n.acks = acks /\ n.clients = clients
    BY <2>2, <2>a, EnqueueAllSame DEF Same
  <2> HIDE DEF n
  <2>4. o \in OutboxT /\ o.acks = Inc(n.acks, c, m.seq) /\ o.clients = clients
    BY <1>3, <2>3, OkIncs
  <2> HIDE DEF o
  <2>. QED BY <1>4, <2>1, <2>3, <2>4
<1>. QED BY <1>5, <1>6, <1>7, <1>8

LEMMA removeConnStep == ASSUME TypeOK, RequestInv, NEW c \in Conns, removeConn(c) PROVE TypeOK' /\ RequestInv'
<1> DEFINE p == Unlinked(c)
           q == IF session.requester = c THEN clearSession(p, session) ELSE p
           o == emit(q)
<1>1. /\ Receive(c, "eof") /\ phase' = [phase EXCEPT ![c] = "gone"]
      /\ session' = IF session.requester = c THEN NoSession ELSE session
      /\ wm' = wm /\ nextSess' = nextSess
  BY DEF removeConn, KeptSession
<1>2. Deliver(o)
  BY DEF removeConn
<1>3. /\ Took(c) /\ Head(in[c]).t = "eof"
      /\ in' \in [Conns -> Seq(RequestT)] /\ sent' = sent /\ view' = view
  BY <1>1, Received
<1>4. p \in OutboxT /\ p.acks = acks /\ p.clients = clients \ {c}
  <2>1. Outbox \in OutboxT /\ Outbox.acks = acks /\ Outbox.clients = clients
    BY OutboxFields
  <2>2. <<>> \in Seq(FrameT)
    OBVIOUS
  <2>. QED BY <2>1, <2>2 DEF OutboxT, Unlinked
<1> HIDE DEF p
<1>5. q \in OutboxT /\ q.acks = acks /\ q.clients = clients \ {c}
  <2>1. CASE session.requester = c
    <3>1. session # NoSession
      BY <2>1, BrokerAssumption DEF NoSession
    <3>2. session \in SessionT /\ session.requester \notin p.clients
      BY <1>4, <2>1 DEF TypeOK
    <3>. QED BY <1>4, <2>1, <3>1, <3>2, ClearIncs
  <2>2. CASE session.requester # c
    BY <1>4, <2>2
  <2>. QED BY <2>1, <2>2
<1> HIDE DEF q
<1>6. o \in OutboxT /\ o.acks = acks /\ o.clients = clients \ {c}
  BY <1>5, EmitSame DEF Same
<1> HIDE DEF o
<1>7. Removed(c)
  BY <1>1, <1>2, <1>3, <1>6 DEF Removed, Deliver
<1>8. TypeOK'
  <2>1. /\ out' \in [Conns -> Seq(FrameT)] /\ lost' \subseteq Conns /\ subs' \subseteq Conns
        /\ acks' \in [Conns -> [Seqs -> Nat]] /\ clients' = clients \ {c}
    BY <1>2, <1>6 DEF Deliver, OutboxT
  <2>2. phase' \in [Conns -> {"new", "open", "shut", "gone"}]
    BY <1>1 DEF TypeOK
  <2>3. clients' = {d \in Conns : phase'[d] \in {"open", "shut"}}
    BY <1>1, <2>1 DEF TypeOK
  <2>4. session' \in SessionT
    BY <1>1, NoSessionType DEF TypeOK
  <2>. QED BY <1>1, <1>3, <2>1, <2>2, <2>3, <2>4 DEF TypeOK
<1>. QED BY <1>7, <1>8, RemovedInv

-----------------------------------------------------------------------------
(* The clients' steps.                                                     *)

\* A frame with a fresh seq, or without one, is appended to a queue.
LEMMA AppendQueue ==
  ASSUME TypeOK, SeqsSent, SeqsDistinct, NEW c \in Conns, NEW m \in RequestT,
         in' = [in EXCEPT ![c] = Append(@, m)],
         \A d \in Conns : sent'[d] = IF d = c /\ m.t \notin NoReply THEN sent[d] + 1 ELSE sent[d],
         m.seq = IF m.t \in NoReply THEN 0 ELSE sent[c] + 1
  PROVE  /\ SeqsSent' /\ SeqsDistinct'
         /\ \A d \in Conns, s \in Seqs : InFlight(d, s)' <=> InFlight(d, s) \/ (d = c /\ s = m.seq)
         /\ in' \in [Conns -> Seq(RequestT)]
<1> DEFINE q == in[c]
<1>1. q \in Seq(RequestT) /\ Len(q) \in Nat /\ DOMAIN q = 1..Len(q)
  BY DEF TypeOK
<1>2. /\ in'[c] = Append(q, m) /\ DOMAIN in'[c] = 1..(Len(q) + 1)
      /\ \A i \in DOMAIN q : i \in DOMAIN in'[c] /\ in'[c][i] = q[i]
      /\ in'[c][Len(q) + 1] = m
  BY <1>1 DEF TypeOK
<1>3. \A i \in DOMAIN in'[c] : i \in DOMAIN q \/ i = Len(q) + 1
  BY <1>1, <1>2
<1>4. \A d \in Conns : d # c => in'[d] = in[d]
  BY DEF TypeOK
<1>5. \A d \in Conns : sent[d] \in Nat
  BY BrokerAssumption DEF TypeOK
<1>6. in' \in [Conns -> Seq(RequestT)]
  BY <1>1 DEF TypeOK
<1>7. SeqsSent'
  <2> SUFFICES ASSUME NEW d \in Conns, NEW i \in DOMAIN in'[d]
               PROVE  IF in'[d][i].t \in NoReply THEN in'[d][i].seq = 0 ELSE in'[d][i].seq \in 1..sent'[d]
    BY DEF SeqsSent
  <2>1. CASE d # c
    BY <1>4, <1>5, <2>1 DEF SeqsSent
  <2>2. CASE d = c /\ i \in DOMAIN q
    <3>1. in'[d][i] = q[i] /\ in[d] = q
      BY <1>2, <2>2
    <3>2. IF q[i].t \in NoReply THEN q[i].seq = 0 ELSE q[i].seq \in 1..sent[c]
      BY <2>2 DEF SeqsSent
    <3>. QED BY <1>5, <2>2, <3>1, <3>2
  <2>3. CASE d = c /\ i = Len(q) + 1
    BY <1>2, <1>5, <2>3
  <2>. QED BY <1>3, <2>1, <2>2, <2>3
<1>8. \A i \in DOMAIN q : m.seq # 0 => q[i].seq # m.seq
  BY <1>1, <1>5 DEF SeqsSent
<1>9. SeqsDistinct'
  <2> SUFFICES ASSUME NEW d \in Conns, NEW i \in DOMAIN in'[d], NEW j \in DOMAIN in'[d],
                      i # j, in'[d][i].seq = in'[d][j].seq
               PROVE  in'[d][i].seq = 0
    BY DEF SeqsDistinct
  <2>1. CASE d # c
    BY <1>4, <2>1 DEF SeqsDistinct
  <2>2. CASE d = c
    <3>1. i \in DOMAIN in'[c] /\ j \in DOMAIN in'[c]
      BY <2>2
    <3>2. CASE i \in DOMAIN q /\ j \in DOMAIN q
      <4>1. in'[c][i] = q[i] /\ in'[c][j] = q[j]
        BY <1>2, <3>2
      <4>. QED BY <2>2, <3>2, <4>1 DEF SeqsDistinct
    <3>3. CASE i \in DOMAIN q /\ j = Len(q) + 1
      BY <1>2, <1>8, <2>2, <3>3
    <3>4. CASE i = Len(q) + 1 /\ j \in DOMAIN q
      BY <1>2, <1>8, <2>2, <3>4
    <3>. QED BY <1>3, <3>1, <3>2, <3>3, <3>4
  <2>. QED BY <2>1, <2>2
<1>10. ASSUME NEW d \in Conns, NEW s \in Seqs
       PROVE  InFlight(d, s)' <=> InFlight(d, s) \/ (d = c /\ s = m.seq)
  <2>1. CASE d # c
    BY <1>4, <2>1 DEF InFlight
  <2>2. CASE d = c
    <3>1. ASSUME NEW i \in DOMAIN in'[c], in'[c][i].seq = s PROVE InFlight(c, s) \/ s = m.seq
      BY <1>2, <1>3, <3>1 DEF InFlight
    <3>2. ASSUME NEW i \in DOMAIN in[c], in[c][i].seq = s PROVE \E k \in DOMAIN in'[c] : in'[c][k].seq = s
      BY <1>2, <3>2
    <3>3. s = m.seq => \E k \in DOMAIN in'[c] : in'[c][k].seq = s
      BY <1>1, <1>2
    <3>. QED BY <2>2, <3>1, <3>2, <3>3 DEF InFlight
  <2>. QED BY <2>1, <2>2
<1>. QED BY <1>6, <1>7, <1>9, <1>10

\* The invariant is kept by a step of a client: nothing is answered, the
\* session stays, and what is new in flight has a seq that was never used.
LEMMA ClientInv ==
  ASSUME TypeOK, RequestInv, TypeOK', SeqsSent', SeqsDistinct',
         session' = session, acks' = acks, clients \subseteq clients',
         \A d \in Conns : sent'[d] >= sent[d],
         \A d \in Conns, s \in Seqs : InFlight(d, s)' => InFlight(d, s) \/ s > sent[d],
         \A d \in Conns : phase'[d] = "new" => phase[d] = "new" /\ sent'[d] = sent[d],
         \A d \in Conns, s \in Seqs : phase'[d] = "open" =>
             (s <= sent[d] => phase[d] = "open" /\ (InFlight(d, s) => InFlight(d, s)'))
             /\ (s > sent[d] /\ s <= sent'[d] => InFlight(d, s)')
  PROVE  RequestInv'
<1>1. /\ sent \in [Conns -> 0..MaxReq] /\ sent' \in [Conns -> 0..MaxReq]
      /\ MaxReq \in Nat \ {0} /\ clients \subseteq Conns
  BY BrokerAssumption DEF TypeOK
<1>2. NewUnused'
  BY DEF RequestInv, NewUnused
<1>3. UnhandledUnanswered'
  <2> SUFFICES ASSUME NEW d \in Conns, NEW s \in Seqs, InFlight(d, s)' \/ s > sent'[d]
               PROVE  acks[d][s] = 0
    BY DEF UnhandledUnanswered
  <2>1. InFlight(d, s) \/ s > sent[d]
    BY <1>1 DEF Seqs
  <2>. QED BY <2>1 DEF RequestInv, UnhandledUnanswered
<1>4. OneReply'
  BY DEF RequestInv, OneReply
<1>5. NoneForgotten'
  <2> SUFFICES ASSUME NEW d \in Conns, phase'[d] = "open", NEW s \in 1..sent'[d]
               PROVE  acks[d][s] > 0 \/ InFlight(d, s)' \/ (session.requester = d /\ session.seq = s)
    BY DEF NoneForgotten
  <2>1. s \in Seqs
    BY <1>1 DEF Seqs
  <2>2. CASE s > sent[d]
    BY <1>1, <2>1, <2>2
  <2>3. CASE s <= sent[d]
    <3>1. s \in 1..sent[d] /\ phase[d] = "open" /\ (InFlight(d, s) => InFlight(d, s)')
      BY <1>1, <2>1, <2>3
    <3>. QED BY <3>1 DEF RequestInv, NoneForgotten
  <2>. QED BY <1>1, <2>1, <2>2, <2>3
<1>6. SessionOpen'
  <2> SUFFICES ASSUME session # NoSession
               PROVE  /\ session.requester \in clients'
                      /\ session.seq \in 1..sent'[session.requester]
                      /\ ~InFlight(session.requester, session.seq)'
                      /\ acks[session.requester][session.seq] = 0
    BY DEF SessionOpen, NoSession
  <2> DEFINE r == session.requester
             q == session.seq
  <2>1. r \in clients /\ r \in Conns /\ q \in 1..sent[r] /\ ~InFlight(r, q) /\ acks[r][q] = 0
    BY <1>1 DEF RequestInv, SessionOpen
  <2>2. q \in Seqs /\ ~(q > sent[r]) /\ q \in 1..sent'[r]
    BY <1>1, <2>1 DEF Seqs
  <2>3. ~\E i \in DOMAIN in'[r] : in'[r][i].seq = q
    <3>1. \A d \in Conns, s \in Seqs :
             (\E i \in DOMAIN in'[d] : in'[d][i].seq = s) => InFlight(d, s) \/ s > sent[d]
      BY DEF InFlight
    <3>. QED BY <2>1, <2>2, <3>1
  <2>4. ~InFlight(session.requester, session.seq)'
    BY <2>3 DEF InFlight
  <2>. QED BY <2>1, <2>2, <2>4
<1>. QED BY <1>2, <1>3, <1>4, <1>5, <1>6 DEF RequestInv

LEMMA ConnectStep == ASSUME TypeOK, RequestInv, NEW c \in Conns, Connect(c) PROVE TypeOK' /\ RequestInv'
<1>1. PICK m : m = Request("hello", 1, 0, {}, "")
  OBVIOUS
<1>2. /\ phase[c] = "new" /\ phase' = [phase EXCEPT ![c] = "open"] /\ clients' = clients \cup {c}
      /\ in' = [in EXCEPT ![c] = <<m>>] /\ sent' = [sent EXCEPT ![c] = 1] /\ session' = session
      /\ acks' = acks
      /\ wm' = wm /\ subs' = subs /\ lost' = lost /\ nextSess' = nextSess /\ out' = out /\ view' = view
  BY <1>1 DEF Connect
<1>3. m \in RequestT /\ m.t = "hello" /\ m.seq = 1
  <2>1. 1 \in 0..MaxReq
    BY BrokerAssumption
  <2>. QED BY <1>1, <2>1 DEF Request, RequestT
<1>4. /\ in \in [Conns -> Seq(RequestT)] /\ sent \in [Conns -> 0..MaxReq]
      /\ MaxReq \in Nat \ {0} /\ sent[c] = 0
  BY <1>2, BrokerAssumption DEF TypeOK, RequestInv, NewUnused
<1>5. <<m>> \in Seq(RequestT) /\ in'[c] = <<m>> /\ DOMAIN in'[c] = {1} /\ in'[c][1] = m
  BY <1>2, <1>3, <1>4
<1>6. \A d \in Conns : d # c => in'[d] = in[d] /\ sent'[d] = sent[d] /\ phase'[d] = phase[d]
  BY <1>2 DEF TypeOK
<1>7. sent'[c] = 1 /\ phase'[c] = "open"
  BY <1>2 DEF TypeOK
<1>8. TypeOK'
  <2>1. in' \in [Conns -> Seq(RequestT)] /\ sent' \in [Conns -> 0..MaxReq]
    BY <1>2, <1>4, <1>5
  <2>2. phase' \in [Conns -> {"new", "open", "shut", "gone"}]
    BY <1>2 DEF TypeOK
  <2>3. clients' = {d \in Conns : phase'[d] \in {"open", "shut"}}
    BY <1>2, <1>6, <1>7 DEF TypeOK
  <2>. QED BY <1>2, <2>1, <2>2, <2>3 DEF TypeOK
<1>9. SeqsSent'
  <2> SUFFICES ASSUME NEW d \in Conns, NEW i \in DOMAIN in'[d]
               PROVE  IF in'[d][i].t \in NoReply THEN in'[d][i].seq = 0 ELSE in'[d][i].seq \in 1..sent'[d]
    BY DEF SeqsSent
  <2>1. CASE d = c
    BY <1>3, <1>5, <1>7, <2>1 DEF NoReply
  <2>2. CASE d # c
    BY <1>6, <2>2 DEF RequestInv, SeqsSent
  <2>. QED BY <2>1, <2>2
<1>10. SeqsDistinct'
  <2> SUFFICES ASSUME NEW d \in Conns, NEW i \in DOMAIN in'[d], NEW j \in DOMAIN in'[d],
                      i # j, in'[d][i].seq = in'[d][j].seq
               PROVE  in'[d][i].seq = 0
    BY DEF SeqsDistinct
  <2>1. CASE d = c
    BY <1>5, <2>1
  <2>2. CASE d # c
    BY <1>6, <2>2 DEF RequestInv, SeqsDistinct
  <2>. QED BY <2>1, <2>2
<1>11. \A s \in Seqs : InFlight(c, s)' <=> s = 1
  BY <1>3, <1>5 DEF InFlight
<1>12. \A d \in Conns, s \in Seqs : d # c => (InFlight(d, s)' <=> InFlight(d, s))
  BY <1>6 DEF InFlight
<1>13. \A d \in Conns, s \in Seqs : InFlight(d, s)' => InFlight(d, s) \/ s > sent[d]
  BY <1>4, <1>11, <1>12 DEF Seqs
<1>14. \A d \in Conns : sent'[d] >= sent[d] /\ (phase'[d] = "new" => phase[d] = "new" /\ sent'[d] = sent[d])
  BY <1>4, <1>6, <1>7
<1>15. \A d \in Conns, s \in Seqs : phase'[d] = "open" =>
             (s <= sent[d] => phase[d] = "open" /\ (InFlight(d, s) => InFlight(d, s)'))
             /\ (s > sent[d] /\ s <= sent'[d] => InFlight(d, s)')
  BY <1>4, <1>6, <1>7, <1>11, <1>12 DEF Seqs
<1>. QED BY <1>2, <1>8, <1>9, <1>10, <1>13, <1>14, <1>15, ClientInv

LEMMA SentRange ==
  ASSUME TypeOK
  PROVE  /\ MaxReq \in Nat \ {0}
         /\ \A d \in Conns : sent[d] \in Nat /\ sent[d] <= MaxReq
         /\ \A d \in Conns : sent[d] < MaxReq => sent[d] + 1 \in 0..MaxReq
         /\ 0 \in 0..MaxReq
<1>1. sent \in [Conns -> 0..MaxReq] /\ MaxReq \in Nat \ {0}
  BY BrokerAssumption DEF TypeOK
<1>. QED BY <1>1

LEMMA SentStep ==
  ASSUME TypeOK, RequestInv, NEW c \in Conns, NEW m \in RequestT,
         phase[c] = "open", sent[c] < MaxReq,
         m.seq = IF m.t \in NoReply THEN 0 ELSE sent[c] + 1,
         in' = [in EXCEPT ![c] = Append(@, m)],
         sent' = IF m.t \in NoReply THEN sent ELSE [sent EXCEPT ![c] = @ + 1],
         phase' = phase, clients' = clients, session' = session, acks' = acks,
         wm' = wm, subs' = subs, lost' = lost, nextSess' = nextSess, out' = out, view' = view
  PROVE  TypeOK' /\ RequestInv'
<1>1. sent \in [Conns -> 0..MaxReq] /\ \A d \in Conns : sent[d] \in Nat
  BY SentRange DEF TypeOK
<1>2. \A d \in Conns : sent'[d] = IF d = c /\ m.t \notin NoReply THEN sent[d] + 1 ELSE sent[d]
  BY <1>1
<1>3. /\ SeqsSent' /\ SeqsDistinct'
      /\ \A d \in Conns, s \in Seqs : InFlight(d, s)' <=> InFlight(d, s) \/ (d = c /\ s = m.seq)
      /\ in' \in [Conns -> Seq(RequestT)]
  BY <1>2, AppendQueue DEF RequestInv
<1>4. sent' \in [Conns -> 0..MaxReq]
  <2>1. sent[c] + 1 \in 0..MaxReq
    BY SentRange
  <2>. QED BY <1>1, <2>1
<1>5. TypeOK'
  BY <1>3, <1>4 DEF TypeOK
<1>6. m.seq \in Seqs => m.seq > sent[c]
  BY <1>1 DEF Seqs
<1>7. \A d \in Conns, s \in Seqs : InFlight(d, s)' => InFlight(d, s) \/ s > sent[d]
  BY <1>3, <1>6
<1>8. \A d \in Conns : sent'[d] >= sent[d]
  BY <1>1, <1>2
<1>9. \A d \in Conns : phase'[d] = "new" => phase[d] = "new" /\ sent'[d] = sent[d]
  BY <1>2
<1>10. \A d \in Conns, s \in Seqs : phase'[d] = "open" =>
             (s <= sent[d] => phase[d] = "open" /\ (InFlight(d, s) => InFlight(d, s)'))
             /\ (s > sent[d] /\ s <= sent'[d] => InFlight(d, s)')
  <2> SUFFICES ASSUME NEW d \in Conns, NEW s \in Seqs, s > sent[d], s <= sent'[d] PROVE InFlight(d, s)'
    BY <1>3
  <2>1. d = c /\ s = sent[c] + 1 /\ m.t \notin NoReply
    BY <1>1, <1>2 DEF Seqs
  <2>. QED BY <1>3, <2>1
<1>. QED BY <1>3, <1>5, <1>7, <1>8, <1>9, <1>10, ClientInv

LEMMA SendStep ==
  ASSUME TypeOK, RequestInv, NEW c \in Conns, NEW t \in Kinds, NEW x \in Nat,
         NEW p \in SUBSET AllTypes, NEW v \in VerbIds \cup {""}, Send(c, t, x, p, v)
  PROVE  TypeOK' /\ RequestInv'
<1>1. PICK n : n = IF t = "doc.hover" THEN 0 ELSE sent[c] + 1
  OBVIOUS
<1>2. PICK m : m = Request(t, n, x, p, v)
  OBVIOUS
<1>3. /\ phase[c] = "open" /\ sent[c] < MaxReq
      /\ in' = [in EXCEPT ![c] = Append(@, m)]
      /\ sent' = IF t = "doc.hover" THEN sent ELSE [sent EXCEPT ![c] = @ + 1]
      /\ phase' = phase /\ clients' = clients /\ session' = session /\ acks' = acks
      /\ wm' = wm /\ subs' = subs /\ lost' = lost /\ nextSess' = nextSess /\ out' = out /\ view' = view
  BY <1>1, <1>2 DEF Send
<1>4. n \in 0..MaxReq
  BY <1>1, <1>3, SentRange
<1>5. m \in RequestT /\ m.t = t /\ m.seq = n
  BY <1>2, <1>4 DEF Request, RequestT
<1>6. m.t \in NoReply <=> t = "doc.hover"
  BY <1>5, BrokerAssumption DEF NoReply
<1>. QED BY <1>1, <1>3, <1>5, <1>6, SentStep

\* A request of the model, whatever its type, is sent by Send.
LEMMA SendSomeSends ==
  ASSUME TypeOK, NEW c \in Conns, NEW t \in Kinds, SendSome(c, t)
  PROVE  \E x \in Nat, p \in SUBSET AllTypes, v \in VerbIds \cup {""} : Send(c, t, x, p, v)
<1>1. ASSUME NEW x \in Nat, NEW p \in SUBSET AllTypes, NEW v \in VerbIds \cup {""}, Send(c, t, x, p, v)
      PROVE  \E y \in Nat, q \in SUBSET AllTypes, w \in VerbIds \cup {""} : Send(c, t, y, q, w)
  BY <1>1
<1>2. /\ 0 \in Nat /\ {} \in SUBSET AllTypes /\ "" \in VerbIds \cup {""}
      /\ \A w \in WantSets \cup {{}} : w \in SUBSET AllTypes
      /\ \A p \in {{x} : x \in Ptypes} \cup {{}} : p \in SUBSET AllTypes
      /\ \A v \in VerbIds : v \in VerbIds \cup {""}
  BY DEF AllTypes
<1>3. \A s \in 0..nextSess : s \in Nat
  BY DEF TypeOK
<1>4. CASE t = "accept.start"
  BY <1>1, <1>2, <1>4 DEF SendSome
<1>5. CASE t = "accept.answer"
  <2>1. \E s \in 0..nextSess, p \in {{x} : x \in Ptypes} \cup {{}} : Send(c, t, s, p, "")
    BY <1>5 DEF SendSome
  <2>. QED BY <1>1, <1>2, <1>3, <2>1
<1>6. CASE t = "accept.cancel"
  <2>1. \E s \in 0..nextSess : Send(c, t, s, {}, "")
    BY <1>6 DEF SendSome
  <2>. QED BY <1>1, <1>2, <1>3, <2>1
<1>7. CASE t = "menu.request"
  <2>1. \E p \in {{x} : x \in Ptypes} \cup {{}} : Send(c, t, 0, p, "")
    BY <1>7 DEF SendSome
  <2>. QED BY <1>1, <1>2, <2>1
<1>8. CASE t = "register"
  <2>1. \E w \in WantSets, v \in VerbIds : Send(c, t, 0, w, v)
    BY <1>8 DEF SendSome
  <2>. QED BY <1>1, <1>2, <2>1
<1>9. CASE t = "verb.invoke"
  <2>1. \E v \in VerbIds : Send(c, t, 0, {}, v)
    BY <1>9 DEF SendSome
  <2>. QED BY <1>1, <1>2, <2>1
<1>10. CASE t \notin {"accept.start", "accept.answer", "accept.cancel", "menu.request", "register", "verb.invoke"}
  <2>1. Send(c, t, 0, {}, "")
    BY <1>10 DEF SendSome
  <2>. QED BY <1>1, <1>2, <2>1
<1>. QED BY <1>4, <1>5, <1>6, <1>7, <1>8, <1>9, <1>10

LEMMA SendSomeStep ==
  ASSUME TypeOK, RequestInv, NEW c \in Conns, NEW t \in Kinds, SendSome(c, t)
  PROVE  TypeOK' /\ RequestInv'
  BY SendSomeSends, SendStep

LEMMA EofType == Eof \in RequestT /\ Eof.t = "eof" /\ Eof.seq = 0 /\ Eof.t \in NoReply
<1>1. 0 \in 0..MaxReq
  BY BrokerAssumption
<1>. QED BY <1>1 DEF Eof, RequestT, NoReply

LEMMA CloseStep == ASSUME TypeOK, RequestInv, NEW c \in Conns, Close(c) PROVE TypeOK' /\ RequestInv'
<1>1. PICK m : m = Eof
  OBVIOUS
<1>2. /\ phase[c] = "open" /\ phase' = [phase EXCEPT ![c] = "shut"]
      /\ in' = [in EXCEPT ![c] = Append(@, m)]
      /\ sent' = sent /\ clients' = clients /\ session' = session /\ acks' = acks
      /\ wm' = wm /\ subs' = subs /\ lost' = lost /\ nextSess' = nextSess /\ out' = out /\ view' = view
  BY <1>1 DEF Close
<1>3. m \in RequestT /\ m.t \in NoReply /\ m.seq = 0
  BY <1>1, EofType
<1>4. /\ SeqsSent' /\ SeqsDistinct'
      /\ \A d \in Conns, s \in Seqs : InFlight(d, s)' <=> InFlight(d, s) \/ (d = c /\ s = m.seq)
      /\ in' \in [Conns -> Seq(RequestT)]
  BY <1>2, <1>3, AppendQueue DEF RequestInv
<1>5. phase'[c] = "shut" /\ \A d \in Conns : d # c => phase'[d] = phase[d]
  BY <1>2 DEF TypeOK
<1>6. TypeOK'
  <2>1. phase' \in [Conns -> {"new", "open", "shut", "gone"}]
    BY <1>2 DEF TypeOK
  <2>2. clients' = {d \in Conns : phase'[d] \in {"open", "shut"}}
    BY <1>2, <1>5 DEF TypeOK
  <2>. QED BY <1>2, <1>4, <2>1, <2>2 DEF TypeOK
<1>7. \A d \in Conns, s \in Seqs : InFlight(d, s)' <=> InFlight(d, s)
  BY <1>3, <1>4 DEF Seqs
<1>8. \A d \in Conns : sent[d] \in Nat
  BY SentRange
<1>9. \A s \in Seqs, d \in Conns : ~(s > sent[d] /\ s <= sent'[d])
  BY <1>2, <1>8 DEF Seqs
<1>10. \A d \in Conns : sent'[d] >= sent[d]
  BY <1>2, <1>8
<1>. QED BY <1>2, <1>4, <1>5, <1>6, <1>7, <1>9, <1>10, ClientInv

LEMMA WriteFailsStep == ASSUME TypeOK, RequestInv, NEW c \in Conns, WriteFails(c) PROVE TypeOK' /\ RequestInv'
<1>1. PICK m : m = Eof
  OBVIOUS
<1>2. /\ phase[c] = "shut" /\ phase' = phase /\ in' = [in EXCEPT ![c] = <<m>>]
      /\ sent' = sent /\ clients' = clients /\ session' = session /\ acks' = acks
      /\ wm' = wm /\ subs' = subs /\ lost' = lost /\ nextSess' = nextSess /\ out' = out /\ view' = view
  BY <1>1 DEF WriteFails
<1>3. m \in RequestT /\ m.t \in NoReply /\ m.seq = 0
  BY <1>1, EofType
<1>4. in \in [Conns -> Seq(RequestT)]
  BY DEF TypeOK
<1>5. <<m>> \in Seq(RequestT) /\ in'[c] = <<m>> /\ DOMAIN in'[c] = {1} /\ in'[c][1] = m
  BY <1>2, <1>3, <1>4
<1>6. \A d \in Conns : d # c => in'[d] = in[d]
  BY <1>2, <1>4
<1>7. TypeOK'
  <2>1. in' \in [Conns -> Seq(RequestT)]
    BY <1>2, <1>4, <1>5
  <2>. QED BY <1>2, <2>1 DEF TypeOK
<1>8. SeqsSent'
  <2> SUFFICES ASSUME NEW d \in Conns, NEW i \in DOMAIN in'[d]
               PROVE  IF in'[d][i].t \in NoReply THEN in'[d][i].seq = 0 ELSE in'[d][i].seq \in 1..sent[d]
    BY <1>2 DEF SeqsSent
  <2>1. CASE d = c
    BY <1>3, <1>5, <2>1
  <2>2. CASE d # c
    BY <1>6, <2>2 DEF RequestInv, SeqsSent
  <2>. QED BY <2>1, <2>2
<1>9. SeqsDistinct'
  <2> SUFFICES ASSUME NEW d \in Conns, NEW i \in DOMAIN in'[d], NEW j \in DOMAIN in'[d],
                      i # j, in'[d][i].seq = in'[d][j].seq
               PROVE  in'[d][i].seq = 0
    BY DEF SeqsDistinct
  <2>1. CASE d = c
    BY <1>5, <2>1
  <2>2. CASE d # c
    BY <1>6, <2>2 DEF RequestInv, SeqsDistinct
  <2>. QED BY <2>1, <2>2
<1>10. /\ \A s \in Seqs : ~InFlight(c, s)'
       /\ \A d \in Conns, s \in Seqs : d # c => (InFlight(d, s)' <=> InFlight(d, s))
  <2>1. \A s \in Seqs : s # 0
    BY DEF Seqs
  <2>. QED BY <1>3, <1>5, <1>6, <2>1 DEF InFlight
<1>11. \A d \in Conns, s \in Seqs : InFlight(d, s)' => InFlight(d, s) \/ s > sent[d]
  BY <1>10
<1>12. \A d \in Conns : sent[d] \in Nat
  BY SentRange
<1>13. \A s \in Seqs, d \in Conns : ~(s > sent[d] /\ s <= sent'[d])
  BY <1>2, <1>12 DEF Seqs
<1>14. \A d \in Conns : sent'[d] >= sent[d] /\ (phase'[d] = "open" => d # c /\ phase[d] = "open")
  BY <1>2, <1>12
<1>. QED BY <1>2, <1>7, <1>8, <1>9, <1>10, <1>11, <1>13, <1>14, ClientInv

LEMMA ReadStep == ASSUME TypeOK, RequestInv, NEW c \in Conns, Read(c) PROVE TypeOK' /\ RequestInv'
<1>1. /\ out[c] # <<>> /\ out' = [out EXCEPT ![c] = Tail(@)]
      /\ phase' = phase /\ in' = in /\ sent' = sent /\ clients' = clients /\ session' = session
      /\ acks' = acks /\ wm' = wm /\ subs' = subs /\ lost' = lost /\ nextSess' = nextSess
  BY DEF Read
<1>2. out[c] \in Seq(FrameT) /\ Head(out[c]) \in FrameT /\ Tail(out[c]) \in Seq(FrameT)
  BY <1>1 DEF TypeOK
<1>3. out' \in [Conns -> Seq(FrameT)]
  BY <1>1, <1>2 DEF TypeOK
<1>4. view' \in [Conns -> Nat]
  <2>1. view \in [Conns -> Nat] /\ Step(view[c], Head(out[c])) \in Nat
    BY <1>2 DEF TypeOK, FrameT, Step
  <2>2. view' = [view EXCEPT ![c] = Step(@, Head(out[c]))]
    BY DEF Read
  <2>. QED BY <2>1, <2>2
<1>5. TypeOK'
  BY <1>1, <1>3, <1>4 DEF TypeOK
<1>6. RequestInv'
  BY <1>1 DEF RequestInv, NewUnused, SeqsSent, SeqsDistinct, UnhandledUnanswered, SessionOpen,
              OneReply, NoneForgotten, InFlight, NoSession
<1>. QED BY <1>5, <1>6

-----------------------------------------------------------------------------
LEMMA Initial == ASSUME Init PROVE TypeOK /\ RequestInv
<1>1. MaxReq \in Nat \ {0} /\ 0 \in 0..MaxReq
  BY BrokerAssumption
<1>2. TypeOK
  BY <1>1, NoSessionType DEF Init, TypeOK
<1>3. \A c \in Conns : phase[c] = "new" /\ in[c] = <<>> /\ sent[c] = 0 /\ \A s \in Seqs : acks[c][s] = 0
  BY DEF Init
<1>4. RequestInv
  BY <1>3 DEF Init, RequestInv, NewUnused, SeqsSent, SeqsDistinct, UnhandledUnanswered, SessionOpen,
              OneReply, NoneForgotten, InFlight, Seqs
<1>. QED BY <1>2, <1>4

LEMMA Stutter == ASSUME TypeOK, RequestInv, UNCHANGED vars PROVE TypeOK' /\ RequestInv'
  BY DEF vars, TypeOK, RequestInv, NewUnused, SeqsSent, SeqsDistinct, UnhandledUnanswered, SessionOpen,
         OneReply, NoneForgotten, InFlight, NoSession

LEMMA Inductive == ASSUME TypeOK, RequestInv, [Next]_vars PROVE TypeOK' /\ RequestInv'
<1>1. ASSUME NEW c \in Conns, handle(c) PROVE TypeOK' /\ RequestInv'
  BY <1>1, helloStep, registerStep, subscribeStep, acceptStartStep, acceptAnswerStep, acceptCancelStep,
     verbInvokeStep, menuRequestStep, queryVerbsStep, docHoverStep, eventEmitStep, unknownTypeStep DEF handle
<1>2. ASSUME NEW c \in Conns, \E t \in Kinds : SendSome(c, t) PROVE TypeOK' /\ RequestInv'
  BY <1>2, SendSomeStep
<1>3. ASSUME NEW c \in Conns, Connect(c) \/ Close(c) \/ WriteFails(c) \/ Read(c) PROVE TypeOK' /\ RequestInv'
  BY <1>3, ConnectStep, CloseStep, WriteFailsStep, ReadStep
<1>4. ASSUME NEW c \in Conns, removeConn(c) PROVE TypeOK' /\ RequestInv'
  BY <1>4, removeConnStep
<1>5. CASE Next
  BY <1>1, <1>2, <1>3, <1>4, <1>5 DEF Next
<1>. QED BY <1>5, Stutter

\* The inductive invariant holds in every state the broker can reach.
THEOREM Invariants == Spec => [](TypeOK /\ RequestInv)
<1>1. Init => TypeOK /\ RequestInv
  BY Initial
<1>2. TypeOK /\ RequestInv /\ [Next]_vars => (TypeOK /\ RequestInv)'
  BY Inductive
<1>. QED BY <1>1, <1>2, PTL DEF Spec

\* The state keeps its types, and Broker.clients is exactly the set of
\* connections that were added and not removed, whatever handlers ran.
THEOREM TypesKept == Spec => []TypeOK
  BY Invariants, PTL

\* No handler or combination of handlers answers a request twice: an Accept
\* is resolved once, by an answer, a click, a cancel, a supersession or the
\* removal of its requester, whichever comes first.
THEOREM AnsweredOnce == Spec => []OneReply
<1>1. RequestInv => OneReply
  BY DEF RequestInv
<1>. QED BY <1>1, Invariants, PTL

\* No handler drops a request: what an open connection sent and the broker
\* took is answered, or is the accept.start of the pending session.
THEOREM NoRequestForgotten == Spec => []NoneForgotten
<1>1. RequestInv => NoneForgotten
  BY DEF RequestInv
<1>. QED BY <1>1, Invariants, PTL

\* The broker never keeps accept mode on for a client that is gone: removeConn
\* and the accept handlers keep the pending session's requester connected.
THEOREM SessionHasRequester == Spec => []RequesterConnected
<1>1. RequestInv => RequesterConnected
  BY DEF RequestInv, SessionOpen, RequesterConnected
<1>. QED BY <1>1, Invariants, PTL

-----------------------------------------------------------------------------
(* What a client makes of a queue of frames, one after the other.          *)

LEMMA LeastNat ==
  ASSUME NEW S \in SUBSET Nat, S # {}
  PROVE  \E x \in S : \A y \in S : x <= y
<1>1. PICK x \in S : \A y \in S : ~(<<y, x>> \in OpToRel(<, Nat))
  <2>1. IsWellFoundedOn(OpToRel(<, Nat), Nat)
    BY NatLessThanWellFounded
  <2>. HIDE DEF OpToRel
  <2>. QED BY <2>1, WFMin
<1>2. \A y \in S : ~(y < x)
  BY <1>1 DEF OpToRel
<1>. QED BY <1>2

\* A function that is defined along 0..N exists ...
Along(N, D) == [(1..N) \X D -> D]
Follows(f, N, D, b, G) ==
  f \in [0..N -> D] /\ f[0] = b /\ \A n \in 1..N : f[n] = G[<<n, f[n - 1]>>]
LEMMA Recursion ==
  ASSUME NEW N \in Nat, NEW D, NEW b \in D, NEW G \in Along(N, D)
  PROVE  \E f : Follows(f, N, D, b, G)
<1> USE DEF Along, Follows
<1> DEFINE Good(k) == \E f : f \in [0..k -> D] /\ f[0] = b /\ \A n \in 1..k : f[n] = G[<<n, f[n - 1]>>]
           Bad == {k \in 0..N : ~Good(k)}
<1>1. SUFFICES ASSUME Bad # {} PROVE FALSE
  <2>1. N \in 0..N /\ (N \notin Bad => Good(N))
    OBVIOUS
  <2>. QED BY <2>1
<1>2. PICK k \in Bad : \A j \in Bad : k <= j
  <2>1. Bad \in SUBSET Nat
    OBVIOUS
  <2>. HIDE DEF Bad
  <2>. QED BY <1>1, <2>1, LeastNat
<1>3. k \in 0..N /\ ~Good(k)
  OBVIOUS
<1>4. CASE k = 0
  <2>1. [n \in 0..0 |-> b] \in [0..0 -> D] /\ [n \in 0..0 |-> b][0] = b
    OBVIOUS
  <2>2. \A n \in 1..0 : FALSE
    OBVIOUS
  <2>3. Good(0)
    BY <2>1, <2>2
  <2>. QED BY <1>3, <1>4, <2>3
<1>5. CASE k # 0
  <2>1. k - 1 \in 0..N /\ k - 1 \notin Bad
    BY <1>2, <1>3, <1>5
  <2>2. PICK f \in [0..(k - 1) -> D] : f[0] = b /\ \A n \in 1..(k - 1) : f[n] = G[<<n, f[n - 1]>>]
    BY <2>1
  <2>3. f[k - 1] \in D /\ k \in 1..N
    BY <1>3, <1>5, <2>2
  <2> DEFINE g == [n \in 0..k |-> IF n = k THEN G[<<k, f[k - 1]>>] ELSE f[n]]
  <2>4. G[<<k, f[k - 1]>>] \in D
    BY <2>3
  <2>5. g \in [0..k -> D]
    BY <1>3, <1>5, <2>4
  <2>6. g[0] = b
    BY <1>3, <1>5, <2>2
  <2>7. ASSUME NEW n \in 1..k PROVE g[n] = G[<<n, g[n - 1]>>]
    <3>1. n \in 0..k /\ n - 1 \in 0..k /\ n - 1 # k
      BY <1>3
    <3>2. g[n - 1] = f[n - 1]
      BY <3>1
    <3>3. CASE n = k
      BY <3>1, <3>2, <3>3
    <3>4. CASE n # k
      <4>1. n \in 1..(k - 1) /\ g[n] = f[n]
        BY <1>3, <3>1, <3>4
      <4>. QED BY <2>2, <3>2, <4>1
    <3>. QED BY <3>3, <3>4
  <2>. HIDE DEF g
  <2>. QED BY <1>3, <2>5, <2>6, <2>7
<1>. QED BY <1>4, <1>5

\* ... and is the only one.
LEMMA Agreement ==
  ASSUME NEW N \in Nat, NEW f, NEW g, f[0] = g[0],
         \A n \in 1..N : f[n - 1] = g[n - 1] => f[n] = g[n]
  PROVE  f[N] = g[N]
<1> DEFINE Bad == {k \in 0..N : f[k] # g[k]}
<1>1. SUFFICES ASSUME Bad # {} PROVE FALSE
  <2>1. N \in 0..N
    OBVIOUS
  <2>. QED BY <2>1
<1>2. PICK k \in Bad : \A j \in Bad : k <= j
  <2>1. Bad \in SUBSET Nat
    OBVIOUS
  <2>. HIDE DEF Bad
  <2>. QED BY <1>1, <2>1, LeastNat
<1>3. k \in 1..N /\ k - 1 \in 0..N
  BY <1>2
<1>4. k - 1 \notin Bad
  BY <1>2, <1>3
<1>. QED BY <1>2, <1>3, <1>4

LEMMA StepType == ASSUME NEW v \in Nat, NEW m \in FrameT PROVE Step(v, m) \in Nat
  BY DEF Step, FrameT

Runs(f, v, q) == f[0] = v /\ \A n \in 1..Len(q) : f[n] = Step(f[n - 1], q[n])

LEMMA BelievesRuns ==
  ASSUME NEW v \in Nat, NEW q \in Seq(FrameT)
  PROVE  \E f \in [0..Len(q) -> Nat] : Runs(f, v, q) /\ Believes(v, q) = f[Len(q)]
<1> DEFINE N == Len(q)
           G == [x \in (1..N) \X Nat |-> Step(x[2], q[x[1]])]
           Def(f) == f = [n \in 0..N |-> IF n = 0 THEN v ELSE Step(f[n - 1], q[n])]
           F == CHOOSE f : Def(f)
<1>1. N \in Nat /\ \A n \in 1..N : q[n] \in FrameT
  OBVIOUS
<1>2. G \in [(1..N) \X Nat -> Nat]
  <2>1. \A x \in (1..N) \X Nat : Step(x[2], q[x[1]]) \in Nat
    BY <1>1, StepType
  <2>. QED BY <2>1
<1>3. \A n \in 1..N, w \in Nat : G[<<n, w>>] = Step(w, q[n])
  OBVIOUS
<1>4. PICK f \in [0..N -> Nat] : f[0] = v /\ \A n \in 1..N : f[n] = G[<<n, f[n - 1]>>]
  <2>1. v \in Nat /\ G \in Along(N, Nat)
    BY <1>2 DEF Along
  <2>2. \E f : Follows(f, N, Nat, v, G)
    <3>. HIDE DEF G, N
    <3>. QED BY <1>1, <2>1, Recursion
  <2>. QED BY <2>2 DEF Follows
<1>5. \A n \in 1..N : n - 1 \in 0..N /\ f[n - 1] \in Nat /\ f[n] = Step(f[n - 1], q[n])
  <2>. SUFFICES ASSUME NEW n \in 1..N
                PROVE  n - 1 \in 0..N /\ f[n - 1] \in Nat /\ f[n] = Step(f[n - 1], q[n])
    OBVIOUS
  <2>1. n - 1 \in 0..N
    BY <1>1
  <2>2. f[n - 1] \in Nat
    BY <1>4, <2>1
  <2>. QED BY <1>3, <1>4, <2>1, <2>2
<1>6. Def(f)
  <2>1. \A n \in 0..N : f[n] = IF n = 0 THEN v ELSE Step(f[n - 1], q[n])
    BY <1>1, <1>4, <1>5
  <2>. QED BY <1>4, <2>1
<1>7. Def(F)
  <2>. HIDE DEF Def
  <2>. QED BY <1>6
<1>8. F[0] = v /\ \A n \in 1..N : F[n] = Step(F[n - 1], q[n])
  <2>1. \A n \in 0..N : F[n] = IF n = 0 THEN v ELSE Step(F[n - 1], q[n])
    <3>. HIDE DEF F, N
    <3>. QED BY <1>7
  <2>. HIDE DEF F
  <2>. QED BY <1>1, <2>1
<1>9. Believes(v, q) = F[N]
  BY DEF Believes
<1>10. F[N] = f[N]
  <2>1. \A n \in 1..N : F[n - 1] = f[n - 1] => F[n] = f[n]
    BY <1>5, <1>8
  <2>2. F[0] = f[0]
    BY <1>4, <1>8
  <2>. HIDE DEF F, N
  <2>. QED BY <1>1, <2>1, <2>2, Agreement
<1>. QED BY <1>4, <1>5, <1>9, <1>10 DEF Runs

LEMMA BelievesIs ==
  ASSUME NEW v \in Nat, NEW q \in Seq(FrameT), NEW g, Runs(g, v, q)
  PROVE  Believes(v, q) = g[Len(q)]
<1>1. PICK f \in [0..Len(q) -> Nat] : Runs(f, v, q) /\ Believes(v, q) = f[Len(q)]
  BY BelievesRuns
<1>2. Len(q) \in Nat
  OBVIOUS
<1>3. f[0] = g[0] /\ \A n \in 1..Len(q) : f[n - 1] = g[n - 1] => f[n] = g[n]
  BY <1>1 DEF Runs
<1>4. f[Len(q)] = g[Len(q)]
  BY <1>2, <1>3, Agreement
<1>. QED BY <1>1, <1>4

LEMMA BelievesNothing == ASSUME NEW v \in Nat PROVE Believes(v, <<>>) = v
<1>0. <<>> \in Seq(FrameT)
  OBVIOUS
<1>1. PICK f \in [0..Len(<<>>) -> Nat] : Runs(f, v, <<>>) /\ Believes(v, <<>>) = f[Len(<<>>)]
  BY <1>0, BelievesRuns
<1>2. Len(<<>>) = 0
  OBVIOUS
<1>. QED BY <1>1, <1>2 DEF Runs

LEMMA BelievesType == ASSUME NEW v \in Nat, NEW q \in Seq(FrameT) PROVE Believes(v, q) \in Nat
<1>1. PICK f \in [0..Len(q) -> Nat] : Believes(v, q) = f[Len(q)]
  BY BelievesRuns
<1>2. Len(q) \in 0..Len(q)
  OBVIOUS
<1>. QED BY <1>1, <1>2

\* One frame more, at the end or at the head.
LEMMA BelievesAppend ==
  ASSUME NEW v \in Nat, NEW q \in Seq(FrameT), NEW m \in FrameT
  PROVE  Believes(v, Append(q, m)) = Step(Believes(v, q), m)
<1> DEFINE N == Len(q)
           r == Append(q, m)
<1>1. PICK f \in [0..N -> Nat] : Runs(f, v, q) /\ Believes(v, q) = f[N]
  BY BelievesRuns
<1>2. /\ N \in Nat /\ r \in Seq(FrameT) /\ Len(r) = N + 1 /\ r[N + 1] = m
      /\ \A n \in 1..N : r[n] = q[n]
  OBVIOUS
<1> DEFINE g == [n \in 0..(N + 1) |-> IF n = N + 1 THEN Step(f[N], m) ELSE f[n]]
<1> HIDE DEF r, N
<1>3. g[0] = v /\ \A n \in 1..(N + 1) : g[n] = Step(g[n - 1], r[n])
  <2>1. g[0] = v
    BY <1>1, <1>2 DEF Runs
  <2>2. ASSUME NEW n \in 1..(N + 1) PROVE g[n] = Step(g[n - 1], r[n])
    <3>1. CASE n = N + 1
      BY <1>2, <3>1
    <3>2. CASE n # N + 1
      <4>1. n \in 1..N /\ f[n] = Step(f[n - 1], q[n])
        BY <1>1, <1>2, <3>2 DEF Runs, N
      <4>. QED BY <1>2, <4>1
    <3>. QED BY <3>1, <3>2
  <2>. QED BY <2>1, <2>2
<1>4. g[N + 1] = Step(f[N], m)
  BY <1>2
<1> HIDE DEF g
<1>5. Runs(g, v, r)
  BY <1>2, <1>3 DEF Runs
<1>6. Believes(v, r) = g[N + 1]
  BY <1>2, <1>5, BelievesIs
<1>. QED BY <1>1, <1>4, <1>6 DEF r

LEMMA BelievesTail ==
  ASSUME NEW v \in Nat, NEW q \in Seq(FrameT), q # <<>>
  PROVE  Believes(Step(v, Head(q)), Tail(q)) = Believes(v, q)
<1> DEFINE N == Len(q)
           r == Tail(q)
           w == Step(v, Head(q))
<1>1. PICK f \in [0..N -> Nat] : Runs(f, v, q) /\ Believes(v, q) = f[N]
  BY BelievesRuns
<1>2. /\ N \in Nat \ {0} /\ r \in Seq(FrameT) /\ Len(r) = N - 1 /\ Head(q) = q[1] /\ Head(q) \in FrameT
      /\ \A n \in 1..(N - 1) : r[n] = q[n + 1]
  OBVIOUS
<1>3. w \in Nat
  BY <1>2, StepType
<1> DEFINE g == [n \in 0..(N - 1) |-> f[n + 1]]
<1>4. f[1] = w
  BY <1>1, <1>2 DEF Runs
<1> HIDE DEF r, N, w
<1>5. g[0] = w /\ \A n \in 1..(N - 1) : g[n] = Step(g[n - 1], r[n])
  <2>1. g[0] = w
    BY <1>2, <1>4
  <2>2. ASSUME NEW n \in 1..(N - 1) PROVE g[n] = Step(g[n - 1], r[n])
    <3>1. n + 1 \in 1..N /\ (n + 1) - 1 = n /\ n \in 0..(N - 1) /\ n - 1 \in 0..(N - 1) /\ (n - 1) + 1 = n
      BY <1>2
    <3>2. f[n + 1] = Step(f[(n + 1) - 1], q[n + 1])
      BY <1>1, <3>1 DEF Runs, N
    <3>3. g[n] = f[n + 1] /\ g[n - 1] = f[n]
      BY <3>1
    <3>. QED BY <1>2, <3>1, <3>2, <3>3
  <2>. QED BY <2>1, <2>2
<1>6. g[N - 1] = f[N]
  BY <1>2
<1> HIDE DEF g
<1>7. Runs(g, w, r)
  BY <1>2, <1>5 DEF Runs
<1>8. Believes(w, r) = g[N - 1]
  BY <1>2, <1>3, <1>7, BelievesIs, SMTT(30)
<1>. QED BY <1>1, <1>6, <1>8 DEF r, w

-----------------------------------------------------------------------------
(* What a handler's frames tell the clients: a frame either is put at the  *)
(* end of a client's queue or makes it one that lost a frame.              *)

Invoked(q) == {q[i].verb : i \in {j \in DOMAIN q : q[j].t = "verb.run"}}

Adds(o, p, S, m) ==
  /\ o.lost \subseteq p.lost
  /\ \A c \in Conns : c \notin S => p.out[c] = o.out[c]
  /\ \A c \in S : p.out[c] = Append(o.out[c], m) \/ (p.out[c] = o.out[c] /\ c \in p.lost)

\* From o to p the client's belief changes by f, for those who lost nothing.
Told(o, p, f) ==
  /\ p.clients = o.clients
  /\ \A c \in Conns \ o.clients : p.out[c] = o.out[c]
  /\ \A c \in o.clients : c \notin p.lost =>
        c \notin o.lost /\ Believes(view[c], p.out[c]) = f[Believes(view[c], o.out[c])]
NoRuns(o, p) == \A c \in Conns : Invoked(p.out[c]) \subseteq Invoked(o.out[c])
NoWelcome(o, p) == \A c \in Conns : p.acks[c][1] = o.acks[c][1]
Calm(o, p) == NoRuns(o, p) /\ NoWelcome(o, p)

Keeps == [v \in Nat |-> v]
Clears(id) == [v \in Nat |-> IF v = id THEN 0 ELSE v]
Sets(id) == [v \in Nat |-> id]
Quiet(o, p) == p \in OutboxT /\ Told(o, p, Keeps) /\ Calm(o, p)

LEMMA EnqueueAdds ==
  ASSUME NEW o \in OutboxT, NEW c \in Conns, NEW m \in FrameT
  PROVE  Adds(o, enqueue(o, c, m), {c}, m)
<1>1. CASE Len(o.out[c]) < SendCap
  <2> DEFINE g == [o.out EXCEPT ![c] = Append(@, m)]
  <2>1. enqueue(o, c, m) = [o EXCEPT !.out = g]
    BY <1>1 DEF enqueue
  <2>2. g[c] = Append(o.out[c], m) /\ \A d \in Conns : d # c => g[d] = o.out[d]
    BY DEF OutboxT
  <2> HIDE DEF g
  <2>. QED BY <2>1, <2>2 DEF Adds, OutboxT
<1>2. CASE ~(Len(o.out[c]) < SendCap)
  BY <1>2 DEF enqueue, Adds, OutboxT
<1>. QED BY <1>1, <1>2

LEMMA EnqueueAllAdds ==
  ASSUME NEW o \in OutboxT, NEW S \in SUBSET Conns, NEW m \in FrameT
  PROVE  Adds(o, enqueueAll(o, S, m), S, m)
<1> DEFINE g == [c \in Conns |-> IF c \in S /\ Len(o.out[c]) < SendCap THEN Append(o.out[c], m) ELSE o.out[c]]
           l == {c \in S : Len(o.out[c]) >= SendCap}
<1>1. enqueueAll(o, S, m) = [o EXCEPT !.out = g, !.lost = @ \cup l]
  BY DEF enqueueAll
<1>2. /\ \A c \in Conns : c \notin S => g[c] = o.out[c]
      /\ \A c \in S : g[c] = Append(o.out[c], m) \/ (g[c] = o.out[c] /\ c \in l)
  <2>1. SendCap \in Nat /\ \A c \in Conns : Len(o.out[c]) \in Nat
    BY BrokerAssumption DEF OutboxT
  <2>. QED BY <2>1
<1> HIDE DEF g, l
<1>. QED BY <1>1, <1>2 DEF Adds, OutboxT

LEMMA ReplyAdds ==
  ASSUME NEW o \in OutboxT, NEW c \in Conns, NEW s \in Seqs, NEW m \in FrameT
  PROVE  Adds(o, reply(o, c, s, m), {c}, m)
<1> DEFINE e == enqueue(o, c, m)
<1>1. Adds(o, e, {c}, m) /\ e \in OutboxT
  BY EnqueueAdds, EnqueueSame DEF Same
<1>2. reply(o, c, s, m) = [e EXCEPT !.acks = Inc(e.acks, c, s)]
  BY DEF reply, Inc
<1> HIDE DEF e
<1>3. reply(o, c, s, m).out = e.out /\ reply(o, c, s, m).lost = e.lost
  BY <1>1, <1>2 DEF OutboxT
<1>. QED BY <1>1, <1>3 DEF Adds

\* What was added is what is told, and invoked.
LEMMA AddsTells ==
  ASSUME TypeOK, NEW o \in OutboxT, NEW p \in OutboxT, p.clients = o.clients,
         NEW S \in SUBSET o.clients, NEW m \in FrameT, Adds(o, p, S, m),
         NEW f, \A c \in o.clients, v \in Nat : f[v] = IF c \in S THEN Step(v, m) ELSE v
  PROVE  Told(o, p, f)
<1>1. \A c \in Conns \ o.clients : p.out[c] = o.out[c]
  BY DEF Adds
<1>2. ASSUME NEW c \in o.clients, c \notin p.lost
      PROVE  c \notin o.lost /\ Believes(view[c], p.out[c]) = f[Believes(view[c], o.out[c])]
  <2>1. c \in Conns /\ view[c] \in Nat /\ o.out[c] \in Seq(FrameT)
    BY DEF OutboxT, TypeOK
  <2>2. Believes(view[c], o.out[c]) \in Nat
    BY <2>1, BelievesType
  <2>3. CASE c \in S
    <3>1. p.out[c] = Append(o.out[c], m)
      BY <1>2, <2>3 DEF Adds
    <3>2. Believes(view[c], p.out[c]) = Step(Believes(view[c], o.out[c]), m)
      BY <2>1, <3>1, BelievesAppend
    <3>. QED BY <1>2, <2>2, <2>3, <3>2 DEF Adds
  <2>4. CASE c \notin S
    <3>1. p.out[c] = o.out[c]
      BY <2>1, <2>4 DEF Adds
    <3>. QED BY <1>2, <2>2, <2>4, <3>1 DEF Adds
  <2>. QED BY <2>3, <2>4
<1>. QED BY <1>1, <1>2 DEF Told

LEMMA InvokedAppend ==
  ASSUME NEW q \in Seq(FrameT), NEW m \in FrameT
  PROVE  Invoked(Append(q, m)) = Invoked(q) \cup (IF m.t = "verb.run" THEN {m.verb} ELSE {})
<1> DEFINE r == Append(q, m)
           N == Len(q)
<1>1. /\ N \in Nat /\ DOMAIN q = 1..N /\ DOMAIN r = 1..(N + 1) /\ r[N + 1] = m
      /\ \A i \in 1..N : r[i] = q[i]
  OBVIOUS
<1>2. N + 1 \in DOMAIN r /\ \A i \in DOMAIN r : i = N + 1 \/ (i \in DOMAIN q /\ r[i] = q[i])
  BY <1>1
<1>3. \A i \in DOMAIN q : i \in DOMAIN r /\ r[i] = q[i]
  BY <1>1
<1> HIDE DEF r, N
<1>. QED BY <1>1, <1>2, <1>3 DEF Invoked, r

LEMMA AddsInvokes ==
  ASSUME NEW o \in OutboxT, NEW p \in OutboxT, NEW S \in SUBSET Conns, NEW m \in FrameT, Adds(o, p, S, m)
  PROVE  \A c \in Conns :
           Invoked(p.out[c]) \subseteq Invoked(o.out[c]) \cup (IF c \in S /\ m.t = "verb.run" THEN {m.verb} ELSE {})
<1> SUFFICES ASSUME NEW c \in Conns
             PROVE  Invoked(p.out[c]) \subseteq
                       Invoked(o.out[c]) \cup (IF c \in S /\ m.t = "verb.run" THEN {m.verb} ELSE {})
  OBVIOUS
<1>1. CASE p.out[c] = o.out[c]
  BY <1>1
<1>2. CASE c \in S /\ p.out[c] = Append(o.out[c], m)
  <2>1. o.out[c] \in Seq(FrameT)
    BY DEF OutboxT
  <2>2. Invoked(Append(o.out[c], m)) = Invoked(o.out[c]) \cup (IF m.t = "verb.run" THEN {m.verb} ELSE {})
    BY <2>1, InvokedAppend
  <2>. QED BY <1>2, <2>2
<1>. QED BY <1>1, <1>2 DEF Adds

\* Frames other than verb.run invoke nothing.
LEMMA AddsNoRuns ==
  ASSUME NEW o \in OutboxT, NEW p \in OutboxT, NEW S \in SUBSET Conns, NEW m \in FrameT, Adds(o, p, S, m),
         m.t # "verb.run"
  PROVE  NoRuns(o, p)
<1>1. \A c \in Conns :
        Invoked(p.out[c]) \subseteq Invoked(o.out[c]) \cup (IF c \in S /\ m.t = "verb.run" THEN {m.verb} ELSE {})
  BY AddsInvokes
<1>. QED BY <1>1 DEF NoRuns

\* Frames other than the two of accept mode change nobody's belief.
LEMMA QuietFrame ==
  ASSUME TypeOK, NEW o \in OutboxT, NEW p \in OutboxT, p.clients = o.clients,
         NEW S \in SUBSET o.clients, NEW m \in FrameT, Adds(o, p, S, m),
         m.t \notin {"accept.mode", "accept.clear"}
  PROVE  Told(o, p, Keeps)
<1>1. \A c \in o.clients, v \in Nat : Keeps[v] = IF c \in S THEN Step(v, m) ELSE v
  BY DEF Keeps, Step
<1>. QED BY <1>1, AddsTells

LEMMA QuietCompose ==
  ASSUME TypeOK, NEW o \in OutboxT, NEW p, NEW q, NEW f, NEW g, NEW h,
         p \in OutboxT, q \in OutboxT,
         Told(o, p, f), Told(p, q, g), \A v \in Nat : h[v] = g[f[v]]
  PROVE  Told(o, q, h)
<1>1. q.clients = o.clients /\ p.clients = o.clients /\ \A c \in Conns \ o.clients : q.out[c] = o.out[c]
  BY DEF Told
<1>2. ASSUME NEW c \in o.clients, c \notin q.lost
      PROVE  c \notin o.lost /\ Believes(view[c], q.out[c]) = h[Believes(view[c], o.out[c])]
  <2>1. c \in Conns /\ view[c] \in Nat /\ o.out[c] \in Seq(FrameT)
    BY DEF OutboxT, TypeOK
  <2>2. Believes(view[c], o.out[c]) \in Nat
    BY <2>1, BelievesType
  <2>3. c \notin p.lost /\ Believes(view[c], q.out[c]) = g[Believes(view[c], p.out[c])]
    BY <1>1, <1>2 DEF Told
  <2>4. c \notin o.lost /\ Believes(view[c], p.out[c]) = f[Believes(view[c], o.out[c])]
    BY <2>3 DEF Told
  <2>. QED BY <2>2, <2>3, <2>4
<1>. QED BY <1>1, <1>2 DEF Told

LEMMA CalmCompose ==
  ASSUME NEW o, NEW p, NEW q, Calm(o, p), Calm(p, q) PROVE Calm(o, q)
  BY DEF Calm, NoRuns, NoWelcome

LEMMA QuietThen ==
  ASSUME TypeOK, NEW o \in OutboxT, NEW p, NEW q, Quiet(o, p), Quiet(p, q)
  PROVE  Quiet(o, q)
<1>1. \A v \in Nat : Keeps[v] = Keeps[Keeps[v]]
  BY DEF Keeps
<1>2. Told(o, q, Keeps)
  BY <1>1, QuietCompose DEF Quiet
<1>. QED BY <1>2, CalmCompose DEF Quiet

LEMMA QuietNothing == ASSUME TypeOK, NEW o \in OutboxT PROVE Quiet(o, o)
<1>1. ASSUME NEW c \in o.clients PROVE Believes(view[c], o.out[c]) = Keeps[Believes(view[c], o.out[c])]
  <2>1. c \in Conns /\ view[c] \in Nat /\ o.out[c] \in Seq(FrameT)
    BY DEF OutboxT, TypeOK
  <2>2. Believes(view[c], o.out[c]) \in Nat
    BY <2>1, BelievesType
  <2>. QED BY <2>2 DEF Keeps
<1>. QED BY <1>1 DEF Quiet, Told, Calm, NoRuns, NoWelcome

LEMMA EnqueueAllQuiet ==
  ASSUME TypeOK, NEW o \in OutboxT, NEW S \in SUBSET o.clients, NEW m \in FrameT,
         m.t \notin {"accept.mode", "accept.clear", "verb.run"}
  PROVE  Quiet(o, enqueueAll(o, S, m))
<1>1. PICK p : p = enqueueAll(o, S, m)
  OBVIOUS
<1>2. S \in SUBSET Conns /\ o.clients \subseteq Conns
  BY DEF OutboxT
<1>3. p \in OutboxT /\ p.clients = o.clients /\ p.acks = o.acks /\ Adds(o, p, S, m)
  BY <1>1, <1>2, EnqueueAllSame, EnqueueAllAdds DEF Same
<1>4. Told(o, p, Keeps)
  BY <1>3, QuietFrame
<1>5. Calm(o, p)
  <2>1. NoRuns(o, p)
    BY <1>2, <1>3, AddsNoRuns
  <2>2. NoWelcome(o, p)
    BY <1>3 DEF NoWelcome
  <2>. QED BY <2>1, <2>2 DEF Calm
<1>. QED BY <1>1, <1>3, <1>4, <1>5 DEF Quiet

LEMMA EmitQuiet == ASSUME TypeOK, NEW o \in OutboxT PROVE Quiet(o, emit(o))
<1>1. o.subs \cap o.clients \in SUBSET o.clients /\ Frame("event", 0, "") \in FrameT /\ Frame("event", 0, "").t = "event"
  BY FrameTypes DEF Frame
<1>. QED BY <1>1, EnqueueAllQuiet DEF emit

LEMMA ReplyTells ==
  ASSUME TypeOK, NEW o \in OutboxT, NEW c \in o.clients, NEW s \in Seqs, NEW m \in FrameT,
         m.t \notin {"accept.mode", "accept.clear", "verb.run"}
  PROVE  Told(o, reply(o, c, s, m), Keeps) /\ NoRuns(o, reply(o, c, s, m))
<1>1. PICK p : p = reply(o, c, s, m)
  OBVIOUS
<1>2. c \in Conns /\ o.clients \subseteq Conns /\ {c} \in SUBSET o.clients /\ {c} \in SUBSET Conns
  BY DEF OutboxT
<1>3. p \in OutboxT /\ p.clients = o.clients /\ Adds(o, p, {c}, m)
  BY <1>1, <1>2, ReplyIncs, ReplyAdds
<1>4. Told(o, p, Keeps)
  BY <1>2, <1>3, QuietFrame
<1>5. NoRuns(o, p)
  BY <1>2, <1>3, AddsNoRuns
<1>. QED BY <1>1, <1>4, <1>5

\* A reply to a request that is no hello.
LEMMA ReplyQuiet ==
  ASSUME TypeOK, NEW o \in OutboxT, NEW c \in o.clients, NEW s \in Seqs, s # 1, NEW m \in FrameT,
         m.t \notin {"accept.mode", "accept.clear", "verb.run"}
  PROVE  Quiet(o, reply(o, c, s, m))
<1>1. PICK p : p = reply(o, c, s, m)
  OBVIOUS
<1>2. c \in Conns
  BY DEF OutboxT
<1>3. p \in OutboxT /\ p.acks = Inc(o.acks, c, s)
  BY <1>1, <1>2, ReplyIncs
<1>4. Told(o, p, Keeps) /\ NoRuns(o, p)
  BY <1>1, ReplyTells
<1>5. \A d \in Conns : p.acks[d][1] = o.acks[d][1]
  <2>1. 1 \in Seqs
    BY BrokerAssumption DEF Seqs
  <2>2. o.acks \in [Conns -> [Seqs -> Nat]]
    BY DEF OutboxT
  <2>3. \A d \in Conns, x \in Seqs :
            Inc(o.acks, c, s)[d][x] = IF d = c /\ x = s THEN o.acks[d][x] + 1 ELSE o.acks[d][x]
    BY <1>2, <2>2, IncAt
  <2>. QED BY <1>3, <2>1, <2>3
<1>6. NoWelcome(o, p)
  BY <1>5 DEF NoWelcome
<1>. QED BY <1>1, <1>3, <1>4, <1>6 DEF Quiet, Calm

LEMMA OkQuiet ==
  ASSUME TypeOK, NEW o \in OutboxT, NEW c \in o.clients, NEW m, m.seq \in Seqs, m.seq # 1
  PROVE  Quiet(o, ok(o, c, m)) /\ Quiet(o, error(o, c, m))
<1>1. /\ Frame("ok", 0, "") \in FrameT /\ Frame("ok", 0, "").t = "ok"
      /\ Frame("error", 0, "") \in FrameT /\ Frame("error", 0, "").t = "error"
  BY FrameTypes DEF Frame
<1>. QED BY <1>1, ReplyQuiet DEF ok, error

LEMMA ResultQuiet ==
  ASSUME TypeOK, NEW o \in OutboxT, NEW s \in SessionT,
         s.requester \in o.clients => s.seq \in Seqs /\ s.seq # 1
  PROVE  Quiet(o, result(o, s))
<1>1. Frame("accept.result", s.id, "") \in FrameT /\ Frame("accept.result", s.id, "").t = "accept.result"
  BY FrameTypes DEF SessionT, Frame
<1>2. CASE s.requester \in o.clients
  <2>1. Quiet(o, reply(o, s.requester, s.seq, Frame("accept.result", s.id, "")))
    BY <1>1, <1>2, ReplyQuiet
  <2>. QED BY <1>2, <2>1 DEF result
<1>3. CASE s.requester \notin o.clients
  BY <1>3, QuietNothing DEF result
<1>. QED BY <1>2, <1>3

\* A broadcast of a frame of accept mode.
LEMMA BroadcastTells ==
  ASSUME TypeOK, NEW o \in OutboxT, NEW m \in FrameT, m.t # "verb.run",
         NEW f, \A v \in Nat : f[v] = Step(v, m)
  PROVE  broadcast(o, m) \in OutboxT /\ Told(o, broadcast(o, m), f) /\ Calm(o, broadcast(o, m))
<1>1. PICK p : p = broadcast(o, m)
  OBVIOUS
<1>2. o.clients \in SUBSET Conns /\ o.clients \in SUBSET o.clients
  BY DEF OutboxT
<1>3. p \in OutboxT /\ p.clients = o.clients /\ p.acks = o.acks /\ Adds(o, p, o.clients, m)
  BY <1>1, <1>2, EnqueueAllSame, EnqueueAllAdds DEF Same, broadcast
<1>4. \A c \in o.clients, v \in Nat : f[v] = IF c \in o.clients THEN Step(v, m) ELSE v
  OBVIOUS
<1>5. Told(o, p, f)
  BY <1>2, <1>3, <1>4, AddsTells
<1>6. Calm(o, p)
  <2>1. PICK S \in SUBSET Conns : S = o.clients
    BY <1>2
  <2>2. Adds(o, p, S, m)
    BY <1>3, <2>1
  <2>3. NoRuns(o, p)
    BY <1>3, <2>2, AddsNoRuns
  <2>4. NoWelcome(o, p)
    BY <1>3 DEF NoWelcome
  <2>. QED BY <2>3, <2>4 DEF Calm
<1>. QED BY <1>1, <1>3, <1>5, <1>6

LEMMA TellsThenQuiet ==
  ASSUME TypeOK, NEW o \in OutboxT, NEW p \in OutboxT, NEW q, NEW f \in [Nat -> Nat],
         Told(o, p, f), Calm(o, p), Quiet(p, q)
  PROVE  q \in OutboxT /\ Told(o, q, f) /\ Calm(o, q)
<1>1. \A v \in Nat : f[v] = Keeps[f[v]]
  BY DEF Keeps
<1>2. Told(o, q, f)
  BY <1>1, QuietCompose DEF Quiet
<1>. QED BY <1>2, CalmCompose DEF Quiet

LEMMA QuietThenTells ==
  ASSUME TypeOK, NEW o \in OutboxT, NEW p, NEW q \in OutboxT, NEW f \in [Nat -> Nat],
         Quiet(o, p), Told(p, q, f), Calm(p, q)
  PROVE  Told(o, q, f) /\ Calm(o, q)
<1>1. \A v \in Nat : f[v] = f[Keeps[v]]
  BY DEF Keeps
<1>2. Told(o, q, f)
  BY <1>1, QuietCompose DEF Quiet
<1>. QED BY <1>2, CalmCompose DEF Quiet

LEMMA Beliefs ==
  ASSUME NEW id \in Nat
  PROVE  Keeps \in [Nat -> Nat] /\ Clears(id) \in [Nat -> Nat] /\ Sets(id) \in [Nat -> Nat]
  BY DEF Keeps, Clears, Sets

LEMMA ClearTells ==
  ASSUME TypeOK, NEW o \in OutboxT, NEW s \in SessionT, s # NoSession,
         s.requester \in o.clients => s.seq \in Seqs /\ s.seq # 1
  PROVE  clearSession(o, s) \in OutboxT /\ Told(o, clearSession(o, s), Clears(s.id)) /\ Calm(o, clearSession(o, s))
<1>1. PICK m : m = Frame("accept.clear", s.id, "")
  OBVIOUS
<1>2. m \in FrameT /\ m.t = "accept.clear" /\ m.sess = s.id /\ s.id \in Nat
  BY <1>1, FrameTypes DEF SessionT, Frame
<1>3. PICK r : r = result(o, s)
  OBVIOUS
<1>4. Quiet(o, r) /\ r \in OutboxT
  BY <1>3, ResultQuiet DEF Quiet
<1>5. PICK b : b = broadcast(r, m)
  OBVIOUS
<1>6. \A v \in Nat : Clears(s.id)[v] = Step(v, m)
  BY <1>2 DEF Clears, Step
<1>7. b \in OutboxT /\ Told(r, b, Clears(s.id)) /\ Calm(r, b)
  BY <1>2, <1>4, <1>5, <1>6, BroadcastTells
<1>8. Clears(s.id) \in [Nat -> Nat]
  BY <1>2, Beliefs
<1>9. Told(o, b, Clears(s.id)) /\ Calm(o, b)
  BY <1>4, <1>7, <1>8, QuietThenTells
<1>10. Quiet(b, emit(b))
  BY <1>7, EmitQuiet
<1>11. clearSession(o, s) = emit(b)
  BY <1>1, <1>3, <1>5 DEF clearSession
<1>. QED BY <1>7, <1>8, <1>9, <1>10, <1>11, TellsThenQuiet

-----------------------------------------------------------------------------
(* That clients agree on the session.  ViewsAgree says nothing of a client *)
(* whose hello is still queued: it may have been told of sessions since it *)
(* connected, or of none.  The invariant says that it believes in the      *)
(* pending session or in none.                                             *)

ViewsFollow ==
  \A c \in clients \ lost : ViewAfter(c) = session.id \/ (ViewAfter(c) = 0 /\ ~Greeted(c))
NewSilent == \A c \in Conns : phase[c] = "new" => out[c] = <<>> /\ view[c] = 0
\* The first request is the hello, and the only one: acks[c][1] counts welcomes.
HelloFirst == \A c \in Conns : \A i \in DOMAIN in[c] : in[c][i].seq = 1 => in[c][i].t = "hello"
HelloSent == \A c \in Conns : phase[c] # "new" => sent[c] >= 1
SessionLater == session.seq # 1
ViewInv == ViewsFollow /\ NewSilent /\ HelloFirst /\ HelloSent /\ SessionLater

\* A handler takes a frame and tells the clients what makes them agree again.
Speech(c, t) ==
  \E f \in [Nat -> Nat], o \in OutboxT :
    /\ Receive(c, t) /\ phase' = phase
    /\ Deliver(o) /\ Told(Outbox, o, f) /\ NoWelcome(Outbox, o)
    /\ t # "verb.invoke" => NoRuns(Outbox, o)
    /\ f[session.id] = session'.id /\ f[0] \in {0, session'.id}
    /\ session'.seq # 1

LEMMA HeadLater ==
  ASSUME TypeOK, RequestInv, ViewInv, NEW c \in Conns, NEW t, Receive(c, t), t # "hello"
  PROVE  Head(in[c]).seq # 1 /\ c \in Outbox.clients /\ Outbox \in OutboxT
<1>1. Took(c) /\ c \in clients /\ Head(in[c]).t = t
  BY Received
<1>2. 1 \in DOMAIN in[c] /\ Head(in[c]) = in[c][1]
  <2>1. in[c] \in Seq(RequestT) /\ in[c] # <<>>
    BY <1>1 DEF TypeOK, Took
  <2>. QED BY <2>1
<1>. QED BY <1>1, <1>2, OutboxFields DEF ViewInv, HelloFirst

LEMMA TookHello ==
  ASSUME TypeOK, HelloFirst, NEW c \in Conns, Took(c) PROVE HelloFirst'
<1>1. in[c] \in Seq(RequestT) /\ in[c] # <<>> /\ in' = [in EXCEPT ![c] = Tail(@)]
  BY DEF TypeOK, Took
<1>2. \A d \in Conns : d # c => in'[d] = in[d]
  BY <1>1 DEF TypeOK
<1>3. \A i \in DOMAIN in'[c] : i + 1 \in DOMAIN in[c] /\ in'[c][i] = in[c][i + 1]
  <2> DEFINE q == in[c]
  <2>1. in'[c] = Tail(q)
    BY <1>1 DEF TypeOK
  <2>2. Len(q) \in Nat \ {0} /\ DOMAIN q = 1..Len(q)
    BY <1>1
  <2>3. DOMAIN Tail(q) = 1..(Len(q) - 1) /\ \A i \in 1..(Len(q) - 1) : Tail(q)[i] = q[i + 1]
    BY <1>1, <2>2
  <2>. QED BY <2>1, <2>2, <2>3
<1> SUFFICES ASSUME NEW d \in Conns, NEW i \in DOMAIN in'[d], in'[d][i].seq = 1 PROVE in'[d][i].t = "hello"
  BY DEF HelloFirst
<1>4. CASE d = c
  <2>1. i + 1 \in DOMAIN in[c] /\ in'[c][i] = in[c][i + 1]
    BY <1>3, <1>4
  <2>. QED BY <1>4, <2>1 DEF HelloFirst
<1>5. CASE d # c
  BY <1>2, <1>5 DEF HelloFirst
<1>. QED BY <1>4, <1>5

LEMMA SpeechViews ==
  ASSUME TypeOK, RequestInv, ViewInv, NEW c \in Conns, NEW t, Speech(c, t)
  PROVE  ViewInv'
<1>1. PICK f \in [Nat -> Nat], o \in OutboxT :
        /\ Receive(c, t) /\ phase' = phase
        /\ Deliver(o) /\ Told(Outbox, o, f) /\ NoWelcome(Outbox, o)
        /\ f[session.id] = session'.id /\ f[0] \in {0, session'.id}
        /\ session'.seq # 1
  BY DEF Speech
<1>2. Took(c) /\ sent' = sent /\ view' = view
  BY <1>1, Received
<1>3. out' = o.out /\ lost' = o.lost /\ acks' = o.acks /\ clients' = o.clients
  BY <1>1 DEF Deliver
<1>4. clients' = clients /\ clients \subseteq Conns
  BY <1>1, <1>3 DEF Told, Outbox, TypeOK
<1>5. /\ \A d \in Conns \ clients : out'[d] = out[d]
      /\ \A d \in clients : d \notin lost' =>
            d \notin lost /\ Believes(view[d], out'[d]) = f[Believes(view[d], out[d])]
      /\ \A d \in Conns : acks'[d][1] = acks[d][1]
  BY <1>1, <1>3 DEF Told, NoWelcome, Outbox
<1>6. ViewsFollow'
  <2> SUFFICES ASSUME NEW d \in clients', d \notin lost'
               PROVE  (ViewAfter(d) = session.id \/ (ViewAfter(d) = 0 /\ ~Greeted(d)))'
    BY DEF ViewsFollow
  <2>1. d \in clients /\ d \in Conns /\ d \notin lost
    BY <1>4, <1>5
  <2>2. ViewAfter(d) = session.id \/ (ViewAfter(d) = 0 /\ ~Greeted(d))
    BY <2>1 DEF ViewInv, ViewsFollow
  <2>3. ViewAfter(d)' = f[ViewAfter(d)]
    BY <1>2, <1>5, <2>1 DEF ViewAfter
  <2>4. Greeted(d)' <=> Greeted(d)
    BY <1>5, <2>1 DEF Greeted
  <2>. QED BY <1>1, <2>2, <2>3, <2>4
<1>7. NewSilent'
  BY <1>1, <1>2, <1>5 DEF ViewInv, NewSilent, TypeOK
<1>8. HelloFirst'
  BY <1>2, TookHello DEF ViewInv
<1>. QED BY <1>1, <1>2, <1>6, <1>7, <1>8 DEF ViewInv, HelloSent, SessionLater

\* Most handlers leave the session alone.
LEMMA QuietSpeech ==
  ASSUME TypeOK, ViewInv, NEW c \in Conns, NEW t, Receive(c, t), phase' = phase, session' = session,
         NEW o, Deliver(o), Quiet(Outbox, o)
  PROVE  Speech(c, t)
<1>1. session.id \in Nat /\ Keeps \in [Nat -> Nat] /\ Keeps[session.id] = session.id /\ Keeps[0] = 0
  BY DEF TypeOK, SessionT, Keeps
<1>2. session'.seq # 1
  BY DEF ViewInv, SessionLater
<1>. QED BY <1>1, <1>2 DEF Speech, Quiet, Calm

LEMMA registerSpeaks ==
  ASSUME TypeOK, RequestInv, ViewInv, NEW c \in Conns, register(c) PROVE Speech(c, "register")
<1> DEFINE m == Head(in[c])
           r == ok(Outbox, c, m)
           o == emit(r)
<1>1. Receive(c, "register") /\ Deliver(o) /\ m.seq \in Seqs /\ phase' = phase /\ session' = session
  BY Received DEF register, NoReply
<1>2. m.seq # 1 /\ c \in Outbox.clients /\ Outbox \in OutboxT
  BY <1>1, HeadLater
<1>3. Quiet(Outbox, r)
  BY <1>1, <1>2, OkQuiet
<1> HIDE DEF r
<1>4. Quiet(r, o)
  BY <1>3, EmitQuiet DEF Quiet
<1> HIDE DEF o
<1>5. Quiet(Outbox, o)
  BY <1>2, <1>3, <1>4, QuietThen
<1>. QED BY <1>1, <1>5, QuietSpeech

LEMMA subscribeSpeaks ==
  ASSUME TypeOK, RequestInv, ViewInv, NEW c \in Conns, subscribe(c) PROVE Speech(c, "subscribe")
<1> DEFINE m == Head(in[c])
           p == [Outbox EXCEPT !.subs = @ \cup {c}]
           o == ok(p, c, m)
<1>1. Receive(c, "subscribe") /\ Deliver(o) /\ m.seq \in Seqs /\ phase' = phase /\ session' = session
  BY Received DEF subscribe, NoReply
<1>2. m.seq # 1 /\ c \in Outbox.clients /\ Outbox \in OutboxT
  BY <1>1, HeadLater
<1>3. /\ p \in OutboxT /\ p.out = Outbox.out /\ p.acks = Outbox.acks
      /\ p.clients = Outbox.clients /\ p.lost = Outbox.lost
  BY <1>2 DEF OutboxT
<1> HIDE DEF p
<1>4. Quiet(Outbox, Outbox)
  BY <1>2, QuietNothing
<1>5. Quiet(Outbox, p)
  BY <1>3, <1>4 DEF Quiet, Told, Calm, NoRuns, NoWelcome
<1>6. Quiet(p, o)
  BY <1>1, <1>2, <1>3, OkQuiet
<1> HIDE DEF o
<1>7. Quiet(Outbox, o)
  BY <1>2, <1>5, <1>6, QuietThen
<1>. QED BY <1>1, <1>7, QuietSpeech

LEMMA queryVerbsSpeaks ==
  ASSUME TypeOK, RequestInv, ViewInv, NEW c \in Conns, queryVerbs(c) PROVE Speech(c, "query.verbs")
<1>1. PICK h : h = Head(in[c]).seq
  OBVIOUS
<1>2. PICK f : f = Frame("verb.list", 0, "")
  OBVIOUS
<1>3. PICK o : o = reply(Outbox, c, h, f)
  OBVIOUS
<1>4. Receive(c, "query.verbs") /\ Deliver(o) /\ phase' = phase /\ session' = session
  BY <1>1, <1>2, <1>3 DEF queryVerbs
<1>5. h \in Seqs
  BY <1>1, <1>4, Received DEF NoReply
<1>6. h # 1 /\ c \in Outbox.clients /\ Outbox \in OutboxT
  BY <1>1, <1>4, HeadLater
<1>7. f \in FrameT /\ f.t = "verb.list"
  BY <1>2, FrameTypes DEF Frame
<1>8. Quiet(Outbox, o)
  BY <1>3, <1>5, <1>6, <1>7, ReplyQuiet
<1>. QED BY <1>4, <1>8, QuietSpeech

LEMMA eventEmitSpeaks ==
  ASSUME TypeOK, RequestInv, ViewInv, NEW c \in Conns, eventEmit(c) PROVE Speech(c, "event.emit")
<1> DEFINE m == Head(in[c])
           e == emit(Outbox)
           o == ok(e, c, m)
<1>1. Receive(c, "event.emit") /\ Deliver(o) /\ m.seq \in Seqs /\ phase' = phase /\ session' = session
  BY Received DEF eventEmit, NoReply
<1>2. m.seq # 1 /\ c \in Outbox.clients /\ Outbox \in OutboxT
  BY <1>1, HeadLater
<1>3. Quiet(Outbox, e)
  BY <1>2, EmitQuiet
<1> HIDE DEF e
<1>4. c \in e.clients /\ e \in OutboxT
  BY <1>2, <1>3 DEF Quiet, Told
<1>5. Quiet(e, o)
  BY <1>1, <1>2, <1>4, OkQuiet
<1> HIDE DEF o
<1>6. Quiet(Outbox, o)
  BY <1>2, <1>3, <1>5, QuietThen
<1>. QED BY <1>1, <1>6, QuietSpeech

LEMMA unknownTypeSpeaks ==
  ASSUME TypeOK, RequestInv, ViewInv, NEW c \in Conns, unknownType(c) PROVE Speech(c, "unknown")
<1> DEFINE m == Head(in[c])
           o == error(Outbox, c, m)
<1>1. Receive(c, "unknown") /\ Deliver(o) /\ m.seq \in Seqs /\ phase' = phase /\ session' = session
  BY Received DEF unknownType, NoReply
<1>2. m.seq # 1 /\ c \in Outbox.clients /\ Outbox \in OutboxT
  BY <1>1, HeadLater
<1>3. Quiet(Outbox, o)
  BY <1>1, <1>2, OkQuiet
<1> HIDE DEF o
<1>. QED BY <1>1, <1>3, QuietSpeech

LEMMA docHoverSpeaks ==
  ASSUME TypeOK, RequestInv, ViewInv, NEW c \in Conns, docHover(c) PROVE Speech(c, "doc.hover")
<1> DEFINE f == Frame("doc.hover", 0, "")
           o == enqueueAll(Outbox, wm \cap clients, f)
<1>1. Receive(c, "doc.hover") /\ Deliver(o) /\ phase' = phase /\ session' = session
  BY DEF docHover
<1>2. f \in FrameT /\ f.t = "doc.hover"
  BY FrameTypes DEF Frame
<1>3. wm \cap clients \in SUBSET Outbox.clients /\ Outbox \in OutboxT
  BY OutboxFields
<1> HIDE DEF f
<1>4. Quiet(Outbox, o)
  BY <1>2, <1>3, EnqueueAllQuiet
<1> HIDE DEF o
<1>. QED BY <1>1, <1>4, QuietSpeech
LEMMA verbInvokeSpeaks ==
  ASSUME TypeOK, RequestInv, ViewInv, NEW c \in Conns, verbInvoke(c) PROVE Speech(c, "verb.invoke")
<1>1. PICK m : m = Head(in[c])
  OBVIOUS
<1>2. PICK f : f = Frame("verb.run", 0, m.verb)
  OBVIOUS
<1>3. Receive(c, "verb.invoke") /\ phase' = phase /\ session' = session
  BY DEF verbInvoke
<1>4. m.seq \in Seqs /\ m \in RequestT /\ m.seq # 1 /\ c \in Outbox.clients /\ Outbox \in OutboxT
  BY <1>1, <1>3, Received, HeadLater DEF NoReply
<1>5. f \in FrameT /\ f.t = "verb.run"
  BY <1>2, <1>4, FrameTypes DEF RequestT, Frame
<1>6. CASE Deliver(error(Outbox, c, m))
  <2>1. Quiet(Outbox, error(Outbox, c, m))
    BY <1>4, OkQuiet
  <2>. QED BY <1>3, <1>6, <2>1, QuietSpeech
<1>7. CASE \E d \in clients : Deliver(emit(ok(enqueue(Outbox, d, f), c, m)))
  <2>1. PICK d \in clients : Deliver(emit(ok(enqueue(Outbox, d, f), c, m)))
    BY <1>7
  <2>2. PICK n : n = enqueue(Outbox, d, f)
    OBVIOUS
  <2>3. PICK o : o = emit(ok(n, c, m))
    OBVIOUS
  <2>4. d \in Conns /\ {d} \in SUBSET Outbox.clients
    BY OutboxFields DEF TypeOK
  <2>5. n \in OutboxT /\ n.acks = Outbox.acks /\ n.clients = Outbox.clients /\ Adds(Outbox, n, {d}, f)
    BY <1>4, <1>5, <2>2, <2>4, EnqueueSame, EnqueueAdds DEF Same
  <2>6. Told(Outbox, n, Keeps)
    BY <1>4, <1>5, <2>4, <2>5, QuietFrame
  <2>7. Quiet(n, ok(n, c, m)) /\ ok(n, c, m) \in OutboxT
    BY <1>4, <2>5, OkQuiet DEF Quiet
  <2>8. Quiet(ok(n, c, m), o)
    BY <2>3, <2>7, EmitQuiet
  <2>9. Quiet(n, o)
    BY <2>5, <2>7, <2>8, QuietThen
  <2>10. \A v \in Nat : Keeps[v] = Keeps[Keeps[v]]
    BY DEF Keeps
  <2>11. Told(Outbox, o, Keeps) /\ o \in OutboxT
    BY <1>4, <2>5, <2>6, <2>9, <2>10, QuietCompose DEF Quiet
  <2>12. NoWelcome(Outbox, o)
    BY <2>5, <2>9 DEF Quiet, Calm, NoWelcome
  <2>13. session.id \in Nat /\ Keeps \in [Nat -> Nat] /\ Keeps[session.id] = session.id /\ Keeps[0] = 0
    BY DEF TypeOK, SessionT, Keeps
  <2>14. session'.seq # 1
    BY <1>3 DEF ViewInv, SessionLater
  <2>15. Deliver(o)
    BY <2>1, <2>2, <2>3
  <2>. QED BY <1>3, <2>11, <2>12, <2>13, <2>14, <2>15 DEF Speech
<1>. QED BY <1>1, <1>2, <1>6, <1>7 DEF verbInvoke, Owners

\* The pending session ends: its clear is among the frames.
LEMMA EndSpeech ==
  ASSUME TypeOK, ViewInv, NEW c \in Conns, NEW t, Receive(c, t), phase' = phase, session' = NoSession,
         NEW o \in OutboxT, Deliver(o), Told(Outbox, o, Clears(session.id)), Calm(Outbox, o)
  PROVE  Speech(c, t)
<1>1. session.id \in Nat
  BY DEF TypeOK, SessionT
<1>2. /\ Clears(session.id) \in [Nat -> Nat] /\ Clears(session.id)[session.id] = 0
      /\ Clears(session.id)[0] = 0
  BY <1>1 DEF Clears
<1>3. session'.id = 0 /\ session'.seq = 0
  BY DEF NoSession
<1>. QED BY <1>2, <1>3 DEF Speech, Calm

LEMMA SessionLate ==
  ASSUME TypeOK, RequestInv, ViewInv, session # NoSession
  PROVE  /\ session \in SessionT /\ session.id \in Nat /\ session.seq \in Seqs /\ session.seq # 1
         /\ session.requester \in Outbox.clients
  BY SessionFacts, OutboxFields DEF ViewInv, SessionLater

LEMMA answeredSpeaks ==
  ASSUME TypeOK, RequestInv, ViewInv, NEW c \in Conns, NEW t, t \notin NoReply \cup {"hello"}, Receive(c, t),
         session # NoSession, answered(c, Head(in[c])), phase' = phase
  PROVE  Speech(c, t)
<1>1. PICK m : m = Head(in[c])
  OBVIOUS
<1>2. m.seq \in Seqs /\ m.seq # 1 /\ c \in Outbox.clients /\ Outbox \in OutboxT
  BY <1>1, Received, HeadLater
<1>3. /\ session \in SessionT /\ session.id \in Nat /\ session.seq \in Seqs /\ session.seq # 1
      /\ session.requester \in Outbox.clients
  BY SessionLate
<1>4. PICK r : r = result(Outbox, session)
  OBVIOUS
<1>5. PICK k : k = ok(r, c, m)
  OBVIOUS
<1>6. PICK e : e = emit(k)
  OBVIOUS
<1>7. PICK f : f = Frame("accept.clear", session.id, "")
  OBVIOUS
<1>8. PICK o : o = broadcast(e, f)
  OBVIOUS
<1>9. session' = NoSession /\ Deliver(o)
  BY <1>1, <1>4, <1>5, <1>6, <1>7, <1>8 DEF answered
<1>10. Quiet(Outbox, r)
  BY <1>2, <1>3, <1>4, ResultQuiet
<1>11. r \in OutboxT /\ c \in r.clients
  BY <1>2, <1>10 DEF Quiet, Told
<1>12. Quiet(r, k)
  BY <1>2, <1>5, <1>11, OkQuiet
<1>13. k \in OutboxT
  BY <1>12 DEF Quiet
<1>14. Quiet(k, e)
  BY <1>6, <1>13, EmitQuiet
<1>15. Quiet(Outbox, k)
  BY <1>2, <1>10, <1>12, QuietThen
<1>16. Quiet(Outbox, e)
  BY <1>2, <1>14, <1>15, QuietThen
<1>17. f \in FrameT /\ f.t = "accept.clear" /\ f.sess = session.id
  BY <1>3, <1>7, FrameTypes DEF Frame
<1>18. \A v \in Nat : Clears(session.id)[v] = Step(v, f)
  BY <1>17 DEF Clears, Step
<1>19. e \in OutboxT
  BY <1>16 DEF Quiet
<1>20. o \in OutboxT /\ Told(e, o, Clears(session.id)) /\ Calm(e, o)
  BY <1>8, <1>17, <1>18, <1>19, BroadcastTells
<1>21. Clears(session.id) \in [Nat -> Nat]
  BY <1>3, Beliefs
<1>22. Told(Outbox, o, Clears(session.id)) /\ Calm(Outbox, o)
  BY <1>2, <1>16, <1>20, <1>21, QuietThenTells
<1>. QED BY <1>9, <1>20, <1>22, EndSpeech

LEMMA acceptAnswerSpeaks ==
  ASSUME TypeOK, RequestInv, ViewInv, NEW c \in Conns, acceptAnswer(c) PROVE Speech(c, "accept.answer")
<1>1. PICK m : m = Head(in[c])
  OBVIOUS
<1>2. Receive(c, "accept.answer") /\ phase' = phase
  BY DEF acceptAnswer
<1>3. CASE Addresses(m) /\ Matches(m)
  <2>1. session # NoSession /\ answered(c, Head(in[c]))
    BY <1>1, <1>3 DEF acceptAnswer, Addresses
  <2>. QED BY <1>2, <2>1, answeredSpeaks DEF NoReply
<1>4. CASE ~(Addresses(m) /\ Matches(m))
  <2>1. Deliver(error(Outbox, c, m)) /\ session' = session
    BY <1>1, <1>4 DEF acceptAnswer
  <2>2. m.seq \in Seqs /\ m.seq # 1 /\ c \in Outbox.clients /\ Outbox \in OutboxT
    BY <1>1, <1>2, Received, HeadLater DEF NoReply
  <2>3. Quiet(Outbox, error(Outbox, c, m))
    BY <2>2, OkQuiet
  <2>. QED BY <1>2, <2>1, <2>3, QuietSpeech
<1>. QED BY <1>3, <1>4

LEMMA acceptCancelSpeaks ==
  ASSUME TypeOK, RequestInv, ViewInv, NEW c \in Conns, acceptCancel(c) PROVE Speech(c, "accept.cancel")
<1>1. PICK m : m = Head(in[c])
  OBVIOUS
<1>2. Receive(c, "accept.cancel") /\ phase' = phase
  BY DEF acceptCancel
<1>3. m.seq \in Seqs /\ m.seq # 1 /\ c \in Outbox.clients /\ Outbox \in OutboxT
  BY <1>1, <1>2, Received, HeadLater DEF NoReply
<1>4. CASE Addresses(m)
  <2>1. PICK q : q = clearSession(Outbox, session)
    OBVIOUS
  <2>2. PICK o : o = ok(q, c, m)
    OBVIOUS
  <2>3. session # NoSession /\ session' = NoSession /\ Deliver(o)
    BY <1>1, <1>4, <2>1, <2>2 DEF acceptCancel, Addresses
  <2>4. q \in OutboxT /\ Told(Outbox, q, Clears(session.id)) /\ Calm(Outbox, q)
    BY <1>3, <2>1, <2>3, SessionLate, ClearTells
  <2>5. c \in q.clients
    BY <1>3, <2>4 DEF Told
  <2>6. Quiet(q, o)
    BY <1>3, <2>2, <2>4, <2>5, OkQuiet
  <2>7. Clears(session.id) \in [Nat -> Nat]
    BY <2>3, SessionLate, Beliefs
  <2>8. o \in OutboxT /\ Told(Outbox, o, Clears(session.id)) /\ Calm(Outbox, o)
    BY <1>3, <2>4, <2>6, <2>7, TellsThenQuiet
  <2>. QED BY <1>2, <2>3, <2>8, EndSpeech
<1>5. CASE ~Addresses(m)
  <2>1. Deliver(ok(Outbox, c, m)) /\ session' = session
    BY <1>1, <1>5 DEF acceptCancel
  <2>2. Quiet(Outbox, ok(Outbox, c, m))
    BY <1>3, OkQuiet
  <2>. QED BY <1>2, <2>1, <2>2, QuietSpeech
<1>. QED BY <1>4, <1>5

LEMMA acceptStartSpeaks ==
  ASSUME TypeOK, RequestInv, ViewInv, NEW c \in Conns, acceptStart(c) PROVE Speech(c, "accept.start")
<1>1. PICK m : m = Head(in[c])
  OBVIOUS
<1>2. Receive(c, "accept.start") /\ phase' = phase
  BY DEF acceptStart
<1>3. m.seq \in Seqs /\ m.seq # 1 /\ c \in Outbox.clients /\ Outbox \in OutboxT
  BY <1>1, <1>2, Received, HeadLater DEF NoReply
<1>4. PICK q : q = clearSession(Outbox, session)
  OBVIOUS
<1>5. PICK g \in {Keeps, Clears(session.id)} :
         g \in [Nat -> Nat] /\ q \in OutboxT /\ Told(Outbox, q, g) /\ Calm(Outbox, q) /\ g[session.id] = 0 /\ g[0] = 0
  <2>1. CASE session = NoSession
    <3>1. q = Outbox /\ session.id = 0
      BY <1>4, <2>1 DEF clearSession, NoSession
    <3>2. Quiet(Outbox, q)
      BY <1>3, <3>1, QuietNothing
    <3>3. Keeps \in [Nat -> Nat] /\ Keeps[0] = 0
      BY DEF Keeps
    <3>. QED BY <3>1, <3>2, <3>3 DEF Quiet
  <2>2. CASE session # NoSession
    <3>1. q \in OutboxT /\ Told(Outbox, q, Clears(session.id)) /\ Calm(Outbox, q)
      BY <1>3, <1>4, <2>2, SessionLate, ClearTells
    <3>2. Clears(session.id) \in [Nat -> Nat] /\ Clears(session.id)[session.id] = 0 /\ Clears(session.id)[0] = 0
      BY <2>2, SessionLate DEF Clears
    <3>. QED BY <3>1, <3>2
  <2>. QED BY <2>1, <2>2
<1>6. c \in q.clients
  BY <1>3, <1>5 DEF Told
<1>7. CASE m.ptypes = {}
  <2>1. PICK o : o = error(q, c, m)
    OBVIOUS
  <2>2. session' = NoSession /\ Deliver(o)
    BY <1>1, <1>4, <1>7, <2>1 DEF acceptStart, Superseded
  <2>3. Quiet(q, o)
    BY <1>3, <1>5, <1>6, <2>1, OkQuiet
  <2>4. o \in OutboxT /\ Told(Outbox, o, g) /\ Calm(Outbox, o)
    BY <1>3, <1>5, <2>3, TellsThenQuiet
  <2>5. session'.id = 0 /\ session'.seq = 0
    BY <2>2 DEF NoSession
  <2>. QED BY <1>2, <1>5, <2>2, <2>4, <2>5 DEF Speech, Calm
<1>8. CASE m.ptypes # {}
  <2>1. PICK id : id = nextSess + 1
    OBVIOUS
  <2>2. PICK f : f = Frame("accept.mode", id, "")
    OBVIOUS
  <2>3. PICK b : b = broadcast(q, f)
    OBVIOUS
  <2>4. PICK o : o = emit(b)
    OBVIOUS
  <2>5. session'.id = id /\ session'.seq = m.seq /\ Deliver(o)
    <3> DEFINE s == [id |-> nextSess + 1, requester |-> c, seq |-> m.seq, ptypes |-> m.ptypes]
    <3>1. session' = s /\ Deliver(emit(broadcast(q, Frame("accept.mode", s.id, ""))))
      BY <1>1, <1>4, <1>8 DEF acceptStart, Superseded
    <3>2. s.id = id /\ s.seq = m.seq
      BY <2>1
    <3> HIDE DEF s
    <3>. QED BY <2>2, <2>3, <2>4, <3>1, <3>2
  <2>6. id \in Nat
    BY <2>1 DEF TypeOK
  <2>7. f \in FrameT /\ f.t = "accept.mode" /\ f.sess = id
    BY <2>2, <2>6, FrameTypes DEF Frame
  <2>8. \A v \in Nat : Sets(id)[v] = Step(v, f)
    BY <2>7 DEF Sets, Step
  <2>9. b \in OutboxT /\ Told(q, b, Sets(id)) /\ Calm(q, b)
    BY <1>5, <2>3, <2>7, <2>8, BroadcastTells
  <2>10. Sets(id) \in [Nat -> Nat] /\ Sets(id)[session.id] = id /\ Sets(id)[0] = id
         /\ \A v \in Nat : Sets(id)[v] = Sets(id)[g[v]]
    <3>1. session.id \in Nat
      BY DEF TypeOK, SessionT
    <3>2. Sets(id) \in [Nat -> Nat] /\ \A v \in Nat : Sets(id)[v] = id
      BY <2>6 DEF Sets
    <3>3. \A v \in Nat : g[v] \in Nat
      BY <1>5
    <3>. QED BY <3>1, <3>2, <3>3
  <2>11. Told(Outbox, b, Sets(id)) /\ Calm(Outbox, b)
    BY <1>3, <1>5, <2>9, <2>10, QuietCompose, CalmCompose
  <2>12. Quiet(b, o)
    BY <2>4, <2>9, EmitQuiet
  <2>13. o \in OutboxT /\ Told(Outbox, o, Sets(id)) /\ Calm(Outbox, o)
    BY <1>3, <2>9, <2>10, <2>11, <2>12, TellsThenQuiet
  <2>. QED BY <1>2, <1>3, <2>5, <2>10, <2>13 DEF Speech, Calm
<1>. QED BY <1>7, <1>8

LEMMA menuRequestSpeaks ==
  ASSUME TypeOK, RequestInv, ViewInv, NEW c \in Conns, menuRequest(c) PROVE Speech(c, "menu.request")
<1>1. PICK m : m = Head(in[c])
  OBVIOUS
<1>2. PICK W : W = wm \cap clients
  OBVIOUS
<1>3. Receive(c, "menu.request") /\ phase' = phase
  BY DEF menuRequest
<1>4. m.seq \in Seqs /\ m.seq # 1 /\ c \in Outbox.clients /\ Outbox \in OutboxT
  BY <1>1, <1>3, Received, HeadLater DEF NoReply
<1>5. CASE m.ptypes = {}
  <2>1. session' = session /\ Deliver(error(Outbox, c, m))
    BY <1>1, <1>5 DEF menuRequest
  <2>2. Quiet(Outbox, error(Outbox, c, m))
    BY <1>4, OkQuiet
  <2>. QED BY <1>3, <2>1, <2>2, QuietSpeech
<1>6. CASE m.ptypes # {} /\ session # NoSession /\ Matches(m)
  <2>1. answered(c, Head(in[c]))
    BY <1>1, <1>6 DEF menuRequest
  <2>. QED BY <1>3, <1>6, <2>1, answeredSpeaks DEF NoReply
<1>7. CASE m.ptypes # {} /\ ~(session # NoSession /\ Matches(m)) /\ W = {}
  <2>1. PICK f : f = Frame("verb.list", 0, "")
    OBVIOUS
  <2>2. PICK h : h = m.seq
    OBVIOUS
  <2>3. PICK o : o = reply(Outbox, c, h, f)
    OBVIOUS
  <2>4. session' = session /\ Deliver(o)
    BY <1>1, <1>2, <1>7, <2>1, <2>2, <2>3 DEF menuRequest, MenuReply
  <2>5. f \in FrameT /\ f.t = "verb.list"
    BY <2>1, FrameTypes DEF Frame
  <2>6. Quiet(Outbox, o)
    BY <1>4, <2>2, <2>3, <2>5, ReplyQuiet
  <2>. QED BY <1>3, <2>4, <2>6, QuietSpeech
<1>8. CASE m.ptypes # {} /\ ~(session # NoSession /\ Matches(m)) /\ W # {}
  <2>1. PICK f : f = Frame("menu.show", 0, "")
    OBVIOUS
  <2>2. PICK n : n = enqueueAll(Outbox, W, f)
    OBVIOUS
  <2>3. PICK o : o = ok(n, c, m)
    OBVIOUS
  <2>4. session' = session /\ Deliver(o)
    BY <1>1, <1>2, <1>8, <2>1, <2>2, <2>3 DEF menuRequest, MenuReply
  <2>5. f \in FrameT /\ f.t = "menu.show"
    BY <2>1, FrameTypes DEF Frame
  <2>6. W \in SUBSET Outbox.clients
    BY <1>2, OutboxFields
  <2>7. Quiet(Outbox, n)
    BY <1>4, <2>2, <2>5, <2>6, EnqueueAllQuiet
  <2>8. n \in OutboxT /\ c \in n.clients
    BY <1>4, <2>7 DEF Quiet, Told
  <2>9. Quiet(n, o)
    BY <1>4, <2>3, <2>8, OkQuiet
  <2>10. Quiet(Outbox, o)
    BY <1>4, <2>7, <2>9, QuietThen
  <2>. QED BY <1>3, <2>4, <2>10, QuietSpeech
<1>. QED BY <1>5, <1>6, <1>7, <1>8
\* The steps that are no Speech: hello counts a welcome, removeConn forgets a
\* client, and the clients' own.
LEMMA ViewsStep ==
  ASSUME TypeOK, ViewInv, NEW o, NEW p, NEW f, Told(p, o, f),
         out' = o.out, lost' = o.lost, acks' = o.acks, clients' = o.clients, view' = view,
         p.clients \subseteq clients, p.lost = lost, \A d \in p.clients : p.out[d] = out[d],
         \A d \in p.clients : o.acks[d][1] = acks[d][1],
         f[session.id] = session'.id, f[0] \in {0, session'.id}
  PROVE  ViewsFollow'
<1> SUFFICES ASSUME NEW d \in clients', d \notin lost'
             PROVE  (ViewAfter(d) = session.id \/ (ViewAfter(d) = 0 /\ ~Greeted(d)))'
  BY DEF ViewsFollow
<1>1. d \in p.clients /\ d \in clients /\ d \notin lost
  BY DEF Told
<1>2. ViewAfter(d) = session.id \/ (ViewAfter(d) = 0 /\ ~Greeted(d))
  BY <1>1 DEF ViewInv, ViewsFollow
<1>3. ViewAfter(d)' = f[ViewAfter(d)]
  BY <1>1 DEF ViewAfter, Told
<1>4. Greeted(d)' <=> Greeted(d)
  BY <1>1 DEF Greeted
<1>. QED BY <1>2, <1>3, <1>4

LEMMA removeConnViews ==
  ASSUME TypeOK, RequestInv, ViewInv, NEW c \in Conns, removeConn(c) PROVE ViewInv'
<1>1. PICK p : p = Unlinked(c)
  OBVIOUS
<1>2. PICK q : q = IF session.requester = c THEN clearSession(p, session) ELSE p
  OBVIOUS
<1>3. PICK o : o = emit(q)
  OBVIOUS
<1>4. /\ Receive(c, "eof") /\ phase' = [phase EXCEPT ![c] = "gone"]
      /\ session' = IF session.requester = c THEN NoSession ELSE session
      /\ Deliver(o)
  BY <1>1, <1>2, <1>3 DEF removeConn, KeptSession
<1>5. Took(c) /\ sent' = sent /\ view' = view
  BY <1>4, Received
<1>6. /\ p \in OutboxT /\ p.acks = acks /\ p.clients = clients \ {c} /\ p.lost = lost
      /\ \A d \in Conns : d # c => p.out[d] = out[d]
  <2>1. Outbox \in OutboxT /\ Outbox.acks = acks /\ Outbox.clients = clients
        /\ Outbox.out = out /\ Outbox.lost = lost
    BY OutboxFields DEF Outbox
  <2>2. <<>> \in Seq(FrameT)
    OBVIOUS
  <2>. QED BY <1>1, <2>1, <2>2 DEF OutboxT, Unlinked
<1>7. session \in SessionT /\ session.id \in Nat /\ session.seq # 1 /\ NoSession.id = 0 /\ NoSession.seq = 0
  BY DEF TypeOK, SessionT, ViewInv, SessionLater, NoSession
<1>8. PICK f \in [Nat -> Nat] :
         /\ q \in OutboxT /\ Told(p, q, f) /\ Calm(p, q)
         /\ f[session.id] = session'.id /\ f[0] = 0 /\ session'.seq # 1
  <2>1. CASE session.requester = c
    <3>1. session # NoSession
      BY <2>1, BrokerAssumption DEF NoSession
    <3>2. session.requester \notin p.clients
      BY <1>6, <2>1
    <3>3. q = clearSession(p, session) /\ session' = NoSession
      BY <1>2, <1>4, <2>1
    <3>4. q \in OutboxT /\ Told(p, q, Clears(session.id)) /\ Calm(p, q)
      BY <1>6, <1>7, <3>1, <3>2, <3>3, ClearTells
    <3>5. Clears(session.id) \in [Nat -> Nat] /\ Clears(session.id)[session.id] = 0 /\ Clears(session.id)[0] = 0
      BY <1>7 DEF Clears
    <3>6. session'.id = 0 /\ session'.seq = 0
      BY <1>7, <3>3
    <3>. QED BY <3>4, <3>5, <3>6
  <2>2. CASE session.requester # c
    <3>1. q = p /\ session' = session
      BY <1>2, <1>4, <2>2
    <3>2. Quiet(p, q)
      BY <1>6, <3>1, QuietNothing
    <3>3. Keeps \in [Nat -> Nat] /\ Keeps[0] = 0 /\ Keeps[session.id] = session.id
      BY <1>7 DEF Keeps
    <3>4. session'.id = session.id /\ session'.seq = session.seq
      BY <3>1
    <3>. QED BY <1>7, <3>2, <3>3, <3>4 DEF Quiet
  <2>. QED BY <2>1, <2>2
<1>9. Quiet(q, o)
  BY <1>3, <1>8, EmitQuiet
<1>10. Told(p, o, f) /\ Calm(p, o)
  BY <1>6, <1>8, <1>9, TellsThenQuiet
<1>11. o.clients = clients \ {c} /\ clients \subseteq Conns
  BY <1>6, <1>10 DEF Told, TypeOK
<1>12. \A d \in Conns : o.acks[d][1] = acks[d][1]
  BY <1>6, <1>10 DEF Calm, NoWelcome
<1>13. ViewsFollow'
  BY <1>4, <1>5, <1>6, <1>8, <1>10, <1>11, <1>12, ViewsStep DEF Deliver
<1>14. NewSilent'
  <2> SUFFICES ASSUME NEW d \in Conns, phase'[d] = "new" PROVE out'[d] = <<>> /\ view'[d] = 0
    BY DEF NewSilent
  <2>1. d # c /\ phase[d] = "new"
    BY <1>4 DEF TypeOK
  <2>2. d \in Conns \ p.clients
    BY <1>6, <2>1 DEF TypeOK
  <2>3. out'[d] = p.out[d]
    BY <1>4, <1>10, <2>2 DEF Told, Deliver
  <2>. QED BY <1>5, <1>6, <2>1, <2>3 DEF ViewInv, NewSilent
<1>15. HelloFirst'
  BY <1>5, TookHello DEF ViewInv
<1>16. HelloSent'
  <2>1. \A d \in Conns : phase'[d] # "new" => phase[d] # "new" \/ d = c
    BY <1>4 DEF TypeOK
  <2>2. phase[c] # "new"
    BY <1>4 DEF Receive, TypeOK
  <2>. QED BY <1>5, <2>1, <2>2 DEF ViewInv, HelloSent
<1>. QED BY <1>8, <1>13, <1>14, <1>15, <1>16 DEF ViewInv, SessionLater

LEMMA helloViews ==
  ASSUME TypeOK, RequestInv, ViewInv, NEW c \in Conns, hello(c) PROVE ViewInv'
<1>1. PICK h : h = Head(in[c]).seq
  OBVIOUS
<1>2. PICK w : w = Frame("welcome", 0, "")
  OBVIOUS
<1>3. PICK r : r = reply(Outbox, c, h, w)
  OBVIOUS
<1>4. PICK e : e = emit(r)
  OBVIOUS
<1>5. PICK o : o = Greet(e, c)
  OBVIOUS
<1>6. Receive(c, "hello") /\ phase' = phase /\ session' = session /\ Deliver(o)
  BY <1>1, <1>2, <1>3, <1>4, <1>5 DEF hello
<1>7. Took(c) /\ sent' = sent /\ view' = view /\ c \in clients /\ h \in Seqs
  BY <1>1, <1>6, Received DEF NoReply
<1>8. Outbox \in OutboxT /\ Outbox.acks = acks /\ Outbox.clients = clients /\ Outbox.out = out /\ Outbox.lost = lost
  BY OutboxFields DEF Outbox
<1>9. w \in FrameT /\ w.t = "welcome"
  BY <1>2, FrameTypes DEF Frame
<1>10. r \in OutboxT /\ r.clients = clients /\ r.acks = Inc(acks, c, h) /\ Adds(Outbox, r, {c}, w)
  <2>1. r \in OutboxT /\ r.clients = Outbox.clients /\ r.acks = Inc(Outbox.acks, c, h)
    BY <1>3, <1>7, <1>8, <1>9, ReplyIncs
  <2>2. Adds(Outbox, r, {c}, w)
    BY <1>3, <1>7, <1>8, <1>9, ReplyAdds
  <2>. QED BY <1>8, <2>1, <2>2
<1>11. Told(Outbox, r, Keeps)
  <2>1. {c} \in SUBSET Outbox.clients
    BY <1>7, <1>8
  <2>. QED BY <1>8, <1>9, <1>10, <2>1, QuietFrame
<1>12. Quiet(r, e)
  BY <1>4, <1>10, EmitQuiet
<1>13. Told(Outbox, e, Keeps) /\ e \in OutboxT /\ e.acks = Inc(acks, c, h)
  <2>1. \A v \in Nat : Keeps[v] = Keeps[Keeps[v]]
    BY DEF Keeps
  <2>2. e \in OutboxT /\ Told(r, e, Keeps)
    BY <1>12 DEF Quiet
  <2>3. Told(Outbox, e, Keeps)
    BY <1>8, <1>10, <1>11, <2>1, <2>2, QuietCompose
  <2>4. e.acks = r.acks
    BY <1>4, <1>10, EmitSame DEF Same
  <2>. QED BY <1>10, <2>2, <2>3, <2>4
<1>14. \A d \in Conns : d # c => e.acks[d][1] = acks[d][1]
  <2>1. 1 \in Seqs /\ acks \in [Conns -> [Seqs -> Nat]]
    BY BrokerAssumption DEF Seqs, TypeOK
  <2>2. \A d \in Conns, x \in Seqs :
            Inc(acks, c, h)[d][x] = IF d = c /\ x = h THEN acks[d][x] + 1 ELSE acks[d][x]
    BY <1>7, <2>1, IncAt
  <2>. QED BY <1>13, <2>1, <2>2
<1>15. session.id \in Nat /\ \A v \in Nat : Keeps[v] = v
  BY DEF TypeOK, SessionT, Keeps
<1>16. /\ o.clients = clients /\ o.acks = e.acks
       /\ \A d \in Conns : d # c => o.out[d] = e.out[d]
       /\ \A d \in Conns : d \notin o.lost => d \notin e.lost
       /\ c \notin o.lost => Believes(view[c], o.out[c]) =
             IF session = NoSession THEN Believes(view[c], e.out[c]) ELSE session.id
  <2>1. e.clients = clients
    BY <1>8, <1>13 DEF Told
  <2>2. CASE session = NoSession
    <3>1. o = e
      BY <1>5, <2>2 DEF Greet
    <3>. QED BY <2>1, <2>2, <3>1
  <2>3. CASE session # NoSession
    <3>1. PICK f : f = Frame("accept.mode", session.id, "")
      OBVIOUS
    <3>2. f \in FrameT /\ f.t = "accept.mode" /\ f.sess = session.id
      BY <1>15, <3>1, FrameTypes DEF Frame
    <3>3. o = enqueue(e, c, f)
      BY <1>5, <2>3, <3>1 DEF Greet
    <3>4. o.clients = clients /\ o.acks = e.acks /\ Adds(e, o, {c}, f)
      BY <1>13, <2>1, <3>2, <3>3, EnqueueSame, EnqueueAdds DEF Same
    <3>5. view[c] \in Nat /\ e.out[c] \in Seq(FrameT)
      BY <1>13 DEF OutboxT, TypeOK
    <3>6. Believes(view[c], Append(e.out[c], f)) = session.id
      BY <3>2, <3>5, BelievesAppend DEF Step
    <3>. QED BY <2>3, <3>4, <3>6 DEF Adds
  <2>. QED BY <2>2, <2>3
<1>17. out' = o.out /\ lost' = o.lost /\ acks' = o.acks /\ clients' = clients /\ clients \subseteq Conns
  BY <1>6, <1>16 DEF Deliver, TypeOK
<1>18. \A d \in clients : d \notin e.lost =>
          d \notin lost /\ Believes(view[d], e.out[d]) = ViewAfter(d)
  <2> SUFFICES ASSUME NEW d \in clients, d \notin e.lost
               PROVE  d \notin lost /\ Believes(view[d], e.out[d]) = ViewAfter(d)
    OBVIOUS
  <2>1. d \notin lost /\ Believes(view[d], e.out[d]) = Keeps[Believes(view[d], out[d])]
    BY <1>8, <1>13 DEF Told
  <2>2. Believes(view[d], out[d]) \in Nat
    BY <1>17, BelievesType DEF TypeOK
  <2>. QED BY <1>15, <2>1, <2>2 DEF ViewAfter
<1>19. ViewsFollow'
  <2> SUFFICES ASSUME NEW d \in clients', d \notin lost'
               PROVE  (ViewAfter(d) = session.id \/ (ViewAfter(d) = 0 /\ ~Greeted(d)))'
    BY DEF ViewsFollow
  <2>1. d \in clients /\ d \in Conns /\ d \notin e.lost
    BY <1>16, <1>17
  <2>2. d \notin lost /\ Believes(view[d], e.out[d]) = ViewAfter(d)
    BY <1>18, <2>1
  <2>3. ViewAfter(d) = session.id \/ (ViewAfter(d) = 0 /\ ~Greeted(d))
    BY <2>1, <2>2 DEF ViewInv, ViewsFollow
  <2>4. CASE d # c
    <3>1. ViewAfter(d)' = ViewAfter(d)
      BY <1>7, <1>16, <1>17, <2>1, <2>2, <2>4 DEF ViewAfter
    <3>2. Greeted(d)' <=> Greeted(d)
      BY <1>14, <1>16, <1>17, <2>1, <2>4 DEF Greeted
    <3>. QED BY <1>6, <2>3, <3>1, <3>2
  <2>5. CASE d = c
    <3>1. ViewAfter(d)' = IF session = NoSession THEN ViewAfter(d) ELSE session.id
      BY <1>7, <1>16, <1>17, <2>2, <2>5 DEF ViewAfter
    <3>2. session = NoSession => session.id = 0
      BY DEF NoSession
    <3>3. ViewAfter(d)' = session.id
      BY <2>3, <3>1, <3>2
    <3>. QED BY <1>6, <3>3
  <2>. QED BY <2>4, <2>5
<1>20. NewSilent'
  <2> SUFFICES ASSUME NEW d \in Conns, phase'[d] = "new" PROVE out'[d] = <<>> /\ view'[d] = 0
    BY DEF NewSilent
  <2>1. phase[d] = "new" /\ d \in Conns \ clients /\ d # c
    BY <1>6, <1>7 DEF TypeOK
  <2>2. out'[d] = out[d]
    BY <1>8, <1>13, <1>16, <1>17, <2>1 DEF Told
  <2>. QED BY <1>7, <2>1, <2>2 DEF ViewInv, NewSilent
<1>21. HelloFirst'
  BY <1>7, TookHello DEF ViewInv
<1>. QED BY <1>6, <1>7, <1>19, <1>20, <1>21 DEF ViewInv, HelloSent, SessionLater

\* The clients' own steps.
LEMMA ViewFrame ==
  ASSUME TypeOK, ViewInv, HelloFirst', HelloSent',
         clients' = clients, out' = out, view' = view, lost' = lost, acks' = acks, session' = session,
         \A d \in Conns : phase'[d] = "new" => phase[d] = "new"
  PROVE  ViewInv'
<1>1. ViewsFollow'
  BY DEF ViewInv, ViewsFollow, ViewAfter, Greeted
<1>2. NewSilent' /\ SessionLater'
  BY DEF ViewInv, NewSilent, SessionLater
<1>. QED BY <1>1, <1>2 DEF ViewInv

LEMMA HelloAppend ==
  ASSUME TypeOK, HelloFirst, NEW c \in Conns, NEW m \in RequestT, m.seq # 1,
         in' = [in EXCEPT ![c] = Append(@, m)]
  PROVE  HelloFirst'
<1> DEFINE q == in[c]
<1>1. in \in [Conns -> Seq(RequestT)] /\ q \in Seq(RequestT) /\ Len(q) \in Nat /\ DOMAIN q = 1..Len(q)
  BY DEF TypeOK
<1>2. in'[c] = Append(q, m) /\ \A d \in Conns : d # c => in'[d] = in[d]
  BY <1>1
<1>3. \A i \in DOMAIN Append(q, m) : (i \in DOMAIN q /\ Append(q, m)[i] = q[i]) \/ Append(q, m)[i] = m
  BY <1>1
<1> SUFFICES ASSUME NEW d \in Conns, NEW i \in DOMAIN in'[d], in'[d][i].seq = 1 PROVE in'[d][i].t = "hello"
  BY DEF HelloFirst
<1>4. CASE d = c
  <2>1. i \in DOMAIN in[c] /\ in'[c][i] = in[c][i]
    BY <1>2, <1>3, <1>4
  <2>. QED BY <1>4, <2>1 DEF HelloFirst
<1>5. CASE d # c
  BY <1>2, <1>5 DEF HelloFirst
<1>. QED BY <1>4, <1>5

LEMMA SentViews ==
  ASSUME TypeOK, RequestInv, ViewInv, NEW c \in Conns, NEW m \in RequestT,
         phase[c] = "open", m.seq = IF m.t \in NoReply THEN 0 ELSE sent[c] + 1,
         in' = [in EXCEPT ![c] = Append(@, m)],
         sent' = IF m.t \in NoReply THEN sent ELSE [sent EXCEPT ![c] = @ + 1],
         phase' = phase, clients' = clients, session' = session, acks' = acks,
         lost' = lost, out' = out, view' = view
  PROVE  ViewInv'
<1>1. sent[c] >= 1 /\ sent[c] \in Nat
  BY SentRange DEF ViewInv, HelloSent
<1>2. m.seq # 1
  BY <1>1
<1>3. HelloFirst'
  BY <1>2, HelloAppend DEF ViewInv
<1>4. HelloSent'
  <2>1. \A d \in Conns : (sent'[d] = sent[d] \/ sent'[d] = sent[d] + 1) /\ sent[d] \in Nat
    BY SentRange DEF TypeOK
  <2>2. \A d \in Conns : sent[d] >= 1 => sent'[d] >= 1
    BY <2>1
  <2>. QED BY <2>2 DEF ViewInv, HelloSent
<1>. QED BY <1>3, <1>4, ViewFrame

LEMMA SendViews ==
  ASSUME TypeOK, RequestInv, ViewInv, NEW c \in Conns, NEW t \in Kinds, NEW x \in Nat,
         NEW p \in SUBSET AllTypes, NEW v \in VerbIds \cup {""}, Send(c, t, x, p, v)
  PROVE  ViewInv'
<1>1. PICK n : n = IF t = "doc.hover" THEN 0 ELSE sent[c] + 1
  OBVIOUS
<1>2. PICK m : m = Request(t, n, x, p, v)
  OBVIOUS
<1>3. /\ phase[c] = "open" /\ sent[c] < MaxReq
      /\ in' = [in EXCEPT ![c] = Append(@, m)]
      /\ sent' = IF t = "doc.hover" THEN sent ELSE [sent EXCEPT ![c] = @ + 1]
      /\ phase' = phase /\ clients' = clients /\ session' = session /\ acks' = acks
      /\ lost' = lost /\ out' = out /\ view' = view
  BY <1>1, <1>2 DEF Send
<1>4. n \in 0..MaxReq
  BY <1>1, <1>3, SentRange
<1>5. m \in RequestT /\ m.t = t /\ m.seq = n
  BY <1>2, <1>4 DEF Request, RequestT
<1>6. m.t \in NoReply <=> t = "doc.hover"
  BY <1>5, BrokerAssumption DEF NoReply
<1>. QED BY <1>1, <1>3, <1>5, <1>6, SentViews

LEMMA ConnectViews ==
  ASSUME TypeOK, RequestInv, ViewInv, NEW c \in Conns, Connect(c) PROVE ViewInv'
<1>1. PICK m : m = Request("hello", 1, 0, {}, "")
  OBVIOUS
<1>2. /\ phase[c] = "new" /\ phase' = [phase EXCEPT ![c] = "open"] /\ clients' = clients \cup {c}
      /\ in' = [in EXCEPT ![c] = <<m>>] /\ sent' = [sent EXCEPT ![c] = 1] /\ session' = session
      /\ acks' = acks /\ lost' = lost /\ out' = out /\ view' = view
  BY <1>1 DEF Connect
<1>3. m.t = "hello"
  BY <1>1 DEF Request
<1>4. out[c] = <<>> /\ view[c] = 0 /\ acks[c][1] = 0
  <2>1. 1 \in Seqs /\ 1 > sent[c]
    BY <1>2, BrokerAssumption DEF Seqs, RequestInv, NewUnused
  <2>. QED BY <1>2, <2>1 DEF ViewInv, NewSilent, RequestInv, UnhandledUnanswered
<1>5. ViewAfter(c) = 0 /\ ~Greeted(c)
  BY <1>4, BelievesNothing DEF ViewAfter, Greeted
<1>6. ViewsFollow'
  BY <1>2, <1>5 DEF ViewInv, ViewsFollow, ViewAfter, Greeted
<1>7. \A d \in Conns : d # c => in'[d] = in[d] /\ sent'[d] = sent[d] /\ phase'[d] = phase[d]
  BY <1>2 DEF TypeOK
<1>8. in'[c] = <<m>> /\ DOMAIN in'[c] = {1} /\ in'[c][1] = m /\ sent'[c] = 1 /\ phase'[c] = "open"
  BY <1>2 DEF TypeOK
<1>9. HelloFirst'
  BY <1>3, <1>7, <1>8 DEF ViewInv, HelloFirst
<1>10. HelloSent'
  BY <1>7, <1>8 DEF ViewInv, HelloSent
<1>11. NewSilent'
  BY <1>2, <1>7, <1>8 DEF ViewInv, NewSilent
<1>. QED BY <1>2, <1>6, <1>9, <1>10, <1>11 DEF ViewInv, SessionLater

LEMMA CloseViews ==
  ASSUME TypeOK, RequestInv, ViewInv, NEW c \in Conns, Close(c) PROVE ViewInv'
<1>1. PICK m : m = Eof
  OBVIOUS
<1>2. /\ phase[c] = "open" /\ phase' = [phase EXCEPT ![c] = "shut"]
      /\ in' = [in EXCEPT ![c] = Append(@, m)]
      /\ sent' = sent /\ clients' = clients /\ session' = session /\ acks' = acks
      /\ lost' = lost /\ out' = out /\ view' = view
  BY <1>1 DEF Close
<1>3. m \in RequestT /\ m.seq # 1
  BY <1>1, EofType
<1>4. HelloFirst'
  BY <1>2, <1>3, HelloAppend DEF ViewInv
<1>5. \A d \in Conns : phase'[d] = "new" <=> phase[d] = "new"
  BY <1>2 DEF TypeOK
<1>6. HelloSent'
  BY <1>2, <1>5 DEF ViewInv, HelloSent
<1>. QED BY <1>2, <1>4, <1>5, <1>6, ViewFrame

LEMMA WriteFailsViews ==
  ASSUME TypeOK, RequestInv, ViewInv, NEW c \in Conns, WriteFails(c) PROVE ViewInv'
<1>1. PICK m : m = Eof
  OBVIOUS
<1>2. /\ phase' = phase /\ in' = [in EXCEPT ![c] = <<m>>]
      /\ sent' = sent /\ clients' = clients /\ session' = session /\ acks' = acks
      /\ lost' = lost /\ out' = out /\ view' = view
  BY <1>1 DEF WriteFails
<1>3. m.seq # 1
  BY <1>1, EofType
<1>4. /\ \A d \in Conns : d # c => in'[d] = in[d]
      /\ in'[c] = <<m>> /\ DOMAIN in'[c] = {1} /\ in'[c][1] = m
  BY <1>2 DEF TypeOK
<1>5. HelloFirst'
  BY <1>3, <1>4 DEF ViewInv, HelloFirst
<1>6. HelloSent'
  BY <1>2 DEF ViewInv, HelloSent
<1>. QED BY <1>2, <1>5, <1>6, ViewFrame

LEMMA ReadViews ==
  ASSUME TypeOK, ViewInv, NEW c \in Conns, Read(c) PROVE ViewInv'
<1>1. PICK m : m = Head(out[c])
  OBVIOUS
<1>2. /\ phase[c] = "open" /\ out[c] # <<>> /\ out' = [out EXCEPT ![c] = Tail(@)]
      /\ view' = [view EXCEPT ![c] = Step(@, m)]
      /\ phase' = phase /\ in' = in /\ sent' = sent /\ clients' = clients /\ session' = session
      /\ acks' = acks /\ lost' = lost
  BY <1>1 DEF Read
<1>3. /\ out[c] \in Seq(FrameT) /\ view[c] \in Nat
      /\ out'[c] = Tail(out[c]) /\ view'[c] = Step(view[c], Head(out[c]))
      /\ \A d \in Conns : d # c => out'[d] = out[d] /\ view'[d] = view[d]
  BY <1>1, <1>2 DEF TypeOK
<1>4. Believes(view'[c], out'[c]) = Believes(view[c], out[c])
  BY <1>2, <1>3, BelievesTail
<1>5. \A d \in Conns : ViewAfter(d)' = ViewAfter(d)
  BY <1>3, <1>4 DEF ViewAfter
<1>6. clients \subseteq Conns
  BY DEF TypeOK
<1>7. ViewsFollow'
  BY <1>2, <1>5, <1>6 DEF ViewInv, ViewsFollow, Greeted
<1>8. NewSilent'
  BY <1>2, <1>3 DEF ViewInv, NewSilent
<1>. QED BY <1>2, <1>7, <1>8 DEF ViewInv, HelloFirst, HelloSent, SessionLater

LEMMA handleViews ==
  ASSUME TypeOK, RequestInv, ViewInv, NEW c \in Conns, handle(c) PROVE ViewInv'
<1>1. CASE hello(c)
  BY <1>1, helloViews
<1>2. CASE ~hello(c)
  <2>1. \E t : Speech(c, t)
    BY <1>2, registerSpeaks, subscribeSpeaks, acceptStartSpeaks, acceptAnswerSpeaks, acceptCancelSpeaks,
       verbInvokeSpeaks, menuRequestSpeaks, queryVerbsSpeaks, docHoverSpeaks, eventEmitSpeaks,
       unknownTypeSpeaks DEF handle
  <2>. QED BY <2>1, SpeechViews
<1>. QED BY <1>1, <1>2

LEMMA ViewsInductive == ASSUME TypeOK, RequestInv, ViewInv, [Next]_vars PROVE ViewInv'
<1>1. ASSUME NEW c \in Conns, handle(c) \/ removeConn(c) PROVE ViewInv'
  BY <1>1, handleViews, removeConnViews
<1>2. ASSUME NEW c \in Conns, \E t \in Kinds : SendSome(c, t) PROVE ViewInv'
  BY <1>2, SendSomeSends, SendViews
<1>3. ASSUME NEW c \in Conns, Connect(c) \/ Close(c) \/ WriteFails(c) \/ Read(c) PROVE ViewInv'
  BY <1>3, ConnectViews, CloseViews, WriteFailsViews, ReadViews
<1>4. CASE UNCHANGED vars
  BY <1>4 DEF vars, ViewInv, ViewsFollow, ViewAfter, Greeted, NewSilent, HelloFirst, HelloSent, SessionLater
<1>5. CASE Next
  BY <1>1, <1>2, <1>3, <1>5 DEF Next
<1>. QED BY <1>4, <1>5

LEMMA ViewsInitial == ASSUME Init PROVE ViewInv
  BY DEF Init, ViewInv, ViewsFollow, NewSilent, HelloFirst, HelloSent, SessionLater, NoSession

LEMMA ViewsHeld == Spec => [](TypeOK /\ RequestInv /\ ViewInv)
<1>1. Init => ViewInv
  BY ViewsInitial
<1>2. TypeOK /\ RequestInv /\ ViewInv /\ [Next]_vars => ViewInv'
  BY ViewsInductive
<1>. QED BY <1>1, <1>2, Invariants, PTL DEF Spec

\* Whatever clients connect, answer, cancel, supersede and leave, and however
\* far behind they read: a client that was welcomed and lost no frame ends up
\* believing exactly the broker's session to be pending.
THEOREM EverybodyAgrees == Spec => []ViewsAgree
<1>1. ViewInv => ViewsAgree
  BY DEF ViewInv, ViewsFollow, ViewsAgree
<1>. QED BY <1>1, ViewsHeld, PTL

-----------------------------------------------------------------------------
(* That verbs follow their clients.  Neither part is inductive alone: what *)
(* a verb.run names must be a verb of its receiver, so every verb must     *)
(* have an owner that registered it, and a connection must have its name   *)
(* before anything but its hello is handled.                               *)

Ids == VerbIds \cup {""}
Names == {NameOf(c) : c \in Conns} \cup {NoName}
VerbT == [id : Ids, owner : Names, ptypes : SUBSET AllTypes]
VerbsTyped == verbs \in Seq(VerbT) /\ name \in [Conns -> Names] /\ regs \in [Conns -> SUBSET Ids]

NotYet(c) == c \in clients => in[c] # <<>> /\ Head(in[c]).t \in {"hello", "eof"}
Introduced ==
  \A c \in Conns : name[c] = NameOf(c) \/ (name[c] = NoName /\ regs[c] = {} /\ NotYet(c))
NewBlank == \A c \in Conns : phase[c] = "new" => regs[c] = {}
VerbsOwned ==
  \A i \in DOMAIN verbs : \E d \in Conns : verbs[i].owner = NameOf(d) /\ verbs[i].id \in regs[d]
RunsOwned == \A c \in clients : Invoked(out[c]) \subseteq regs[c]
VerbInv == VerbsTyped /\ Introduced /\ NewBlank /\ VerbsOwned /\ RegisteredVerbsStay /\ RunsOwned

\* The registry is keyed by name: the clients of the theorem have their own.
OwnNames ==
  /\ \A c, d \in Conns : NameOf(c) = NameOf(d) => c = d
  /\ \A c \in Conns : NameOf(c) # NoName

\* What removeConn keeps of the registry, as a set.
Elements(s) == {s[i] : i \in DOMAIN s}
Stays(c, v) == v.owner # name[c] \/ name[c] = NoName

LEMMA ElementsAppend ==
  ASSUME NEW S, NEW s \in Seq(S), NEW x \in S
  PROVE  Elements(Append(s, x)) = Elements(s) \cup {x}
<1> DEFINE r == Append(s, x)
           N == Len(s)
<1>1. /\ N \in Nat /\ DOMAIN s = 1..N /\ DOMAIN r = 1..(N + 1) /\ r[N + 1] = x
      /\ \A i \in 1..N : r[i] = s[i]
  OBVIOUS
<1>2. N + 1 \in DOMAIN r /\ \A i \in DOMAIN r : i = N + 1 \/ (i \in DOMAIN s /\ r[i] = s[i])
  BY <1>1
<1>3. \A i \in DOMAIN s : i \in DOMAIN r /\ r[i] = s[i]
  BY <1>1
<1> HIDE DEF r, N
<1>. QED BY <1>1, <1>2, <1>3 DEF Elements, r

LEMMA KeptVerbsRuns ==
  ASSUME verbs \in Seq(VerbT), NEW c
  PROVE  \E f \in [0..Len(verbs) -> Seq(VerbT)] :
           /\ f[0] = <<>> /\ KeptVerbs(c) = f[Len(verbs)]
           /\ \A n \in 1..Len(verbs) :
                f[n] = IF Stays(c, verbs[n]) THEN Append(f[n - 1], verbs[n]) ELSE f[n - 1]
<1> DEFINE N == Len(verbs)
           D == Seq(VerbT)
           Add(s, n) == IF Stays(c, verbs[n]) THEN Append(s, verbs[n]) ELSE s
           G == [x \in (1..N) \X D |-> Add(x[2], x[1])]
           Def(f) == f = [n \in 0..N |-> IF n = 0 THEN <<>> ELSE Add(f[n - 1], n)]
           F == CHOOSE f : Def(f)
<1>1. N \in Nat /\ \A n \in 1..N : verbs[n] \in VerbT
  OBVIOUS
<1>2. \A n \in 1..N, s \in D : Add(s, n) \in D
  <2> SUFFICES ASSUME NEW n \in 1..N, NEW s \in Seq(VerbT) PROVE Add(s, n) \in Seq(VerbT)
    OBVIOUS
  <2>1. Append(s, verbs[n]) \in Seq(VerbT)
    BY <1>1
  <2>. QED BY <2>1
<1> HIDE DEF Add
<1>3. G \in Along(N, D)
  BY <1>2 DEF Along
<1>4. \A n \in 1..N, s \in D : G[<<n, s>>] = Add(s, n)
  OBVIOUS
<1>5. <<>> \in D
  OBVIOUS
<1>6. PICK f : Follows(f, N, D, <<>>, G)
  <2>. HIDE DEF G, N, D
  <2>. QED BY <1>1, <1>3, <1>5, Recursion
<1>7. f \in [0..N -> D] /\ f[0] = <<>> /\ \A n \in 1..N : f[n] = G[<<n, f[n - 1]>>]
  BY <1>6 DEF Follows
<1>8. \A n \in 1..N : n - 1 \in 0..N /\ f[n - 1] \in D /\ f[n] = Add(f[n - 1], n)
  <2> SUFFICES ASSUME NEW n \in 1..N PROVE n - 1 \in 0..N /\ f[n - 1] \in D /\ f[n] = Add(f[n - 1], n)
    OBVIOUS
  <2>1. n - 1 \in 0..N
    BY <1>1
  <2>2. f[n - 1] \in D
    BY <1>7, <2>1
  <2>. QED BY <1>4, <1>7, <2>1, <2>2
<1>9. Def(f)
  <2>1. \A n \in 0..N : f[n] = IF n = 0 THEN <<>> ELSE Add(f[n - 1], n)
    BY <1>1, <1>7, <1>8
  <2>. HIDE DEF D
  <2>. QED BY <1>7, <2>1
<1>10. Def(F)
  <2>. HIDE DEF Def
  <2>. QED BY <1>9
<1>11. F[0] = <<>> /\ \A n \in 1..N : F[n] = Add(F[n - 1], n)
  <2>1. \A n \in 0..N : F[n] = IF n = 0 THEN <<>> ELSE Add(F[n - 1], n)
    <3>. HIDE DEF F, N
    <3>. QED BY <1>10
  <2>. HIDE DEF F
  <2>. QED BY <1>1, <2>1
<1>12. KeptVerbs(c) = F[N]
  BY DEF KeptVerbs, Add, Stays
<1>13. F[N] = f[N]
  <2>1. \A n \in 1..N : F[n - 1] = f[n - 1] => F[n] = f[n]
    BY <1>8, <1>11
  <2>2. F[0] = f[0]
    BY <1>7, <1>11
  <2>. HIDE DEF F, N
  <2>. QED BY <1>1, <2>1, <2>2, Agreement
<1>. QED BY <1>7, <1>8, <1>12, <1>13 DEF Add

LEMMA KeptVerbsAre ==
  ASSUME verbs \in Seq(VerbT), NEW c
  PROVE  KeptVerbs(c) \in Seq(VerbT) /\ Elements(KeptVerbs(c)) = {v \in Elements(verbs) : Stays(c, v)}
<1> DEFINE N == Len(verbs)
           Kept(n) == {verbs[i] : i \in {j \in 1..n : Stays(c, verbs[j])}}
<1>1. PICK f \in [0..N -> Seq(VerbT)] :
           /\ f[0] = <<>> /\ KeptVerbs(c) = f[N]
           /\ \A n \in 1..N : f[n] = IF Stays(c, verbs[n]) THEN Append(f[n - 1], verbs[n]) ELSE f[n - 1]
  BY KeptVerbsRuns
<1> DEFINE Bad == {n \in 0..N : Elements(f[n]) # Kept(n)}
<1>2. N \in Nat /\ N \in 0..N /\ DOMAIN verbs = 1..N
  OBVIOUS
<1>3. Bad = {}
  <2> SUFFICES ASSUME Bad # {} PROVE FALSE
    OBVIOUS
  <2>1. PICK k \in Bad : \A j \in Bad : k <= j
    <3>1. Bad \in SUBSET Nat
      OBVIOUS
    <3>. HIDE DEF Bad
    <3>. QED BY <3>1, LeastNat
  <2>2. CASE k = 0
    <3>1. Elements(f[0]) = {} /\ Kept(0) = {}
      BY <1>1 DEF Elements
    <3>. QED BY <2>1, <2>2, <3>1
  <2>3. CASE k # 0
    <3>1. k \in 1..N /\ k - 1 \in 0..N /\ ~(k <= k - 1)
      BY <1>2, <2>1, <2>3
    <3>2. Elements(f[k - 1]) = Kept(k - 1)
      BY <2>1, <3>1
    <3>3. verbs[k] \in VerbT /\ f[k - 1] \in Seq(VerbT)
      BY <1>1, <3>1, SMTT(30)
    <3>4. \A j \in 1..k : j = k \/ j \in 1..(k - 1)
      BY <3>1
    <3>5. \A j \in 1..(k - 1) : j \in 1..k
      BY <3>1
    <3>6. k \in 1..k
      BY <3>1
    <3>7. Kept(k) = IF Stays(c, verbs[k]) THEN Kept(k - 1) \cup {verbs[k]} ELSE Kept(k - 1)
      BY <3>4, <3>5, <3>6
    <3>8. Elements(f[k]) = Kept(k)
      <4>1. CASE Stays(c, verbs[k])
        <5>1. f[k] = Append(f[k - 1], verbs[k])
          BY <1>1, <3>1, <4>1
        <5>2. Elements(f[k]) = Elements(f[k - 1]) \cup {verbs[k]}
          BY <3>3, <5>1, ElementsAppend, SMTT(30)
        <5>. HIDE DEF Kept
        <5>. QED BY <3>2, <3>7, <4>1, <5>2
      <4>2. CASE ~Stays(c, verbs[k])
        <5>1. f[k] = f[k - 1]
          BY <1>1, <3>1, <4>2
        <5>. HIDE DEF Kept
        <5>. QED BY <3>2, <3>7, <4>2, <5>1
      <4>. QED BY <4>1, <4>2
    <3>. QED BY <2>1, <3>8
  <2>. QED BY <2>2, <2>3
<1>4. Elements(f[N]) = Kept(N)
  BY <1>2, <1>3
<1>5. Kept(N) = {v \in Elements(verbs) : Stays(c, v)}
  BY <1>2 DEF Elements
<1>6. f[N] \in Seq(VerbT)
  BY <1>1, <1>2
<1>. QED BY <1>1, <1>4, <1>5, <1>6
LEMMA RequestFields == ASSUME NEW m \in RequestT PROVE m.verb \in Ids /\ m.ptypes \in SUBSET AllTypes
  BY DEF RequestT, Ids

\* Whoever is handled is introduced.
LEMMA SpeakerNamed ==
  ASSUME VerbInv, NEW c \in Conns, NEW t, t \notin {"hello", "eof"}, Receive(c, t)
  PROVE  c \in clients /\ name[c] = NameOf(c)
  BY DEF VerbInv, Introduced, NotYet, Receive

LEMMA StillIntroduced ==
  ASSUME TypeOK, Introduced, NEW c \in Conns, Took(c), name' = name, clients' \subseteq clients,
         \A d \in Conns : d # c => regs'[d] = regs[d],
         name[c] = NameOf(c) \/ (c \notin clients' /\ regs'[c] = regs[c])
  PROVE  Introduced'
<1> SUFFICES ASSUME NEW d \in Conns
             PROVE  (name[d] = NameOf(d) \/ (name[d] = NoName /\ regs[d] = {} /\ NotYet(d)))'
  BY DEF Introduced
<1>1. CASE d = c
  BY <1>1 DEF Introduced, NotYet
<1>2. CASE d # c
  <2>1. in'[d] = in[d]
    BY <1>2 DEF Took, TypeOK
  <2>. QED BY <1>2, <2>1 DEF Introduced, NotYet
<1>. QED BY <1>1, <1>2

\* A handler that leaves the registry alone and runs no verb.
LEMMA SpeechVerbs ==
  ASSUME TypeOK, RequestInv, VerbInv, NEW c \in Conns, NEW t, t \notin {"hello", "eof", "verb.invoke"}, Speech(c, t),
         name' = name, verbs' = verbs, regs' = regs
  PROVE  VerbInv'
<1>1. PICK o \in OutboxT : Receive(c, t) /\ phase' = phase /\ Deliver(o) /\ o.clients = clients /\ NoRuns(Outbox, o)
  BY DEF Speech, Told, Outbox
<1>2. Took(c) /\ name[c] = NameOf(c) /\ clients' = clients /\ clients \subseteq Conns
  BY <1>1, Received, SpeakerNamed DEF Deliver, TypeOK
<1>3. Introduced'
  BY <1>2, StillIntroduced DEF VerbInv
<1>4. \A d \in Conns : Invoked(out'[d]) \subseteq Invoked(out[d])
  BY <1>1 DEF NoRuns, Deliver, Outbox
<1>5. RunsOwned'
  BY <1>2, <1>4 DEF VerbInv, RunsOwned
<1>6. VerbsTyped' /\ NewBlank' /\ VerbsOwned' /\ RegisteredVerbsStay'
  BY <1>1, <1>2 DEF VerbInv, VerbsTyped, NewBlank, VerbsOwned, RegisteredVerbsStay
<1>. QED BY <1>3, <1>5, <1>6 DEF VerbInv

LEMMA registerVerbs ==
  ASSUME TypeOK, RequestInv, ViewInv, VerbInv, NEW c \in Conns, register(c) PROVE VerbInv'
<1>1. PICK m : m = Head(in[c])
  OBVIOUS
<1>2. PICK v : v = [id |-> m.verb, owner |-> name[c], ptypes |-> m.ptypes]
  OBVIOUS
<1>3. PICK K : K = {i \in DOMAIN verbs : verbs[i].owner = v.owner /\ verbs[i].id = v.id}
  OBVIOUS
<1>4. PICK first : first = CHOOSE i \in K : \A j \in K : i <= j
  OBVIOUS
<1>5. /\ Receive(c, "register") /\ name' = name /\ phase' = phase
      /\ verbs' = IF K = {} THEN Append(verbs, v) ELSE [verbs EXCEPT ![first] = v]
      /\ regs' = [regs EXCEPT ![c] = @ \cup {v.id}]
  BY <1>1, <1>2, <1>3, <1>4 DEF register
<1>6. PICK o \in OutboxT : Deliver(o) /\ o.clients = clients /\ NoRuns(Outbox, o)
  BY registerSpeaks DEF Speech, Told, Outbox
<1>7. Took(c) /\ m \in RequestT /\ c \in clients /\ name[c] = NameOf(c) /\ clients' = clients /\ clients \subseteq Conns
  BY <1>1, <1>5, <1>6, Received, SpeakerNamed DEF Deliver, TypeOK
<1>8. v.id = m.verb /\ v.id \in Ids /\ v.owner = NameOf(c) /\ v \in VerbT
  BY <1>2, <1>7, RequestFields DEF VerbT, Names
<1>9. verbs \in Seq(VerbT) /\ name \in [Conns -> Names] /\ regs \in [Conns -> SUBSET Ids]
  BY DEF VerbInv, VerbsTyped
<1>10. regs' \in [Conns -> SUBSET Ids] /\ regs'[c] = regs[c] \cup {v.id} /\ \A d \in Conns : d # c => regs'[d] = regs[d]
  BY <1>5, <1>8, <1>9
<1>11. \A d \in Conns : regs[d] \subseteq regs'[d]
  BY <1>10
\* What the upsert makes of the registry.
<1>12. /\ verbs' \in Seq(VerbT)
       /\ \A i \in DOMAIN verbs' : verbs'[i] = v \/ (i \in DOMAIN verbs /\ verbs'[i] = verbs[i])
       /\ \A i \in DOMAIN verbs : i \in DOMAIN verbs' /\ verbs'[i].id = verbs[i].id /\ verbs'[i].owner = verbs[i].owner
       /\ \E i \in DOMAIN verbs' : verbs'[i].id = v.id /\ verbs'[i].owner = v.owner
  <2> DEFINE N == Len(verbs)
  <2>1. CASE K = {}
    <3>1. verbs' = Append(verbs, v)
      BY <1>5, <2>1
    <3>2. /\ N \in Nat /\ DOMAIN verbs = 1..N /\ DOMAIN Append(verbs, v) = 1..(N + 1)
          /\ Append(verbs, v)[N + 1] = v
          /\ \A i \in 1..N : Append(verbs, v)[i] = verbs[i]
      BY <1>8, <1>9
    <3>3. Append(verbs, v) \in Seq(VerbT)
      BY <1>8, <1>9
    <3>4. N + 1 \in 1..(N + 1) /\ \A i \in 1..(N + 1) : i = N + 1 \/ i \in 1..N
      BY <3>2
    <3>5. \A i \in 1..N : i \in 1..(N + 1)
      BY <3>2
    <3>. HIDE DEF N
    <3>. QED BY <3>1, <3>2, <3>3, <3>4, <3>5
  <2>2. CASE K # {}
    <3>1. first \in K
      <4>1. K \in SUBSET Nat
        BY <1>3, <1>9
      <4>2. \E i \in K : \A j \in K : i <= j
        BY <2>2, <4>1, LeastNat
      <4>. QED BY <1>4, <4>2
    <3>2. first \in DOMAIN verbs /\ verbs[first].owner = v.owner /\ verbs[first].id = v.id
      BY <1>3, <3>1
    <3>3. verbs' = [verbs EXCEPT ![first] = v]
      BY <1>5, <2>2
    <3>4. DOMAIN verbs' = DOMAIN verbs /\ \A i \in DOMAIN verbs : verbs'[i] = IF i = first THEN v ELSE verbs[i]
      BY <1>9, <3>3
    <3>5. verbs' \in Seq(VerbT)
      BY <1>8, <1>9, <3>2, <3>3
    <3>. QED BY <3>2, <3>4, <3>5
  <2>. QED BY <2>1, <2>2
<1>13. VerbsTyped'
  BY <1>5, <1>9, <1>10, <1>12 DEF VerbsTyped
<1>14. Introduced'
  BY <1>5, <1>7, <1>10, StillIntroduced DEF VerbInv
<1>15. NewBlank'
  <2>1. phase[c] # "new"
    BY <1>7 DEF TypeOK
  <2>. QED BY <1>5, <1>10, <2>1 DEF VerbInv, NewBlank
<1>16. VerbsOwned'
  <2> SUFFICES ASSUME NEW i \in DOMAIN verbs'
               PROVE  \E d \in Conns : verbs'[i].owner = NameOf(d) /\ verbs'[i].id \in regs'[d]
    BY DEF VerbsOwned
  <2>1. CASE verbs'[i] = v
    BY <1>8, <1>10, <2>1
  <2>2. CASE i \in DOMAIN verbs /\ verbs'[i] = verbs[i]
    BY <1>11, <2>2 DEF VerbInv, VerbsOwned
  <2>. QED BY <1>12, <2>1, <2>2
<1>17. RegisteredVerbsStay'
  <2> SUFFICES ASSUME NEW d \in clients', NEW x \in regs'[d]
               PROVE  \E i \in DOMAIN verbs' : verbs'[i].id = x /\ verbs'[i].owner = name'[d]
    BY DEF RegisteredVerbsStay
  <2>1. CASE x \in regs[d]
    <3>1. PICK i \in DOMAIN verbs : verbs[i].id = x /\ verbs[i].owner = name[d]
      BY <1>7, <2>1 DEF VerbInv, RegisteredVerbsStay
    <3>. QED BY <1>5, <1>12, <3>1
  <2>2. CASE x \notin regs[d]
    <3>1. d = c /\ x = v.id
      BY <1>7, <1>10, <2>2
    <3>. QED BY <1>5, <1>7, <1>8, <1>12, <3>1
  <2>. QED BY <2>1, <2>2
<1>18. RunsOwned'
  <2>1. \A d \in Conns : Invoked(out'[d]) \subseteq Invoked(out[d])
    BY <1>6 DEF NoRuns, Deliver, Outbox
  <2>. QED BY <1>7, <1>11, <2>1 DEF VerbInv, RunsOwned
<1>. QED BY <1>13, <1>14, <1>15, <1>16, <1>17, <1>18 DEF VerbInv

LEMMA verbInvokeVerbs ==
  ASSUME OwnNames, TypeOK, RequestInv, ViewInv, VerbInv, NEW c \in Conns, verbInvoke(c) PROVE VerbInv'
<1>1. PICK m : m = Head(in[c])
  OBVIOUS
<1>2. PICK f : f = Frame("verb.run", 0, m.verb)
  OBVIOUS
<1>3. PICK K : K = {i \in DOMAIN verbs : verbs[i].id = m.verb}
  OBVIOUS
<1>4. PICK first : first = CHOOSE i \in K : \A j \in K : i <= j
  OBVIOUS
<1>5. /\ Receive(c, "verb.invoke") /\ phase' = phase /\ name' = name /\ verbs' = verbs /\ regs' = regs
      /\ \/ Deliver(error(Outbox, c, m))
         \/ K # {} /\ \E d \in Owners(verbs[first]) : Deliver(emit(ok(enqueue(Outbox, d, f), c, m)))
  BY <1>1, <1>2, <1>3, <1>4 DEF verbInvoke
<1>6. Took(c) /\ m \in RequestT /\ name[c] = NameOf(c) /\ clients' = clients /\ clients \subseteq Conns
  <2>1. clients' = clients
    BY verbInvokeSpeaks DEF Speech, Told, Outbox, Deliver
  <2>. QED BY <1>1, <1>5, <2>1, Received, SpeakerNamed DEF TypeOK
<1>7. Introduced'
  BY <1>5, <1>6, StillIntroduced DEF VerbInv
<1>8. m.seq \in Seqs /\ m.seq # 1 /\ c \in Outbox.clients /\ Outbox \in OutboxT /\ Outbox.out = out
  BY <1>1, <1>5, Received, HeadLater DEF NoReply, Outbox
<1>9. \A d \in clients : Invoked(out'[d]) \subseteq regs[d]
  <2>1. CASE Deliver(error(Outbox, c, m))
    <3>1. Quiet(Outbox, error(Outbox, c, m))
      BY <1>8, OkQuiet
    <3>2. \A d \in Conns : Invoked(out'[d]) \subseteq Invoked(out[d])
      BY <1>8, <2>1, <3>1 DEF Quiet, Calm, NoRuns, Deliver
    <3>. QED BY <1>6, <3>2 DEF VerbInv, RunsOwned
  <2>2. CASE K # {} /\ \E d \in Owners(verbs[first]) : Deliver(emit(ok(enqueue(Outbox, d, f), c, m)))
    <3>1. PICK d \in Owners(verbs[first]) : Deliver(emit(ok(enqueue(Outbox, d, f), c, m)))
      BY <2>2
    <3>2. first \in DOMAIN verbs /\ verbs[first].id = m.verb
      <4>1. K \in SUBSET Nat
        BY <1>3 DEF VerbInv, VerbsTyped
      <4>2. \E i \in K : \A j \in K : i <= j
        BY <2>2, <4>1, LeastNat
      <4>3. first \in K
        BY <1>4, <4>2
      <4>. QED BY <1>3, <4>3
    <3>3. d \in clients /\ d \in Conns /\ name[d] = verbs[first].owner
      BY <1>6, <3>1 DEF Owners
    <3>4. PICK e \in Conns : verbs[first].owner = NameOf(e) /\ m.verb \in regs[e]
      BY <3>2 DEF VerbInv, VerbsOwned
    <3>5. d = e
      BY <3>3, <3>4 DEF OwnNames, VerbInv, Introduced
    <3>6. PICK n : n = enqueue(Outbox, d, f)
      OBVIOUS
    <3>7. PICK o : o = emit(ok(n, c, m))
      OBVIOUS
    <3>8. f \in FrameT /\ f.t = "verb.run" /\ f.verb = m.verb
      BY <1>2, <1>6, FrameTypes DEF RequestT, Frame
    <3>9. n \in OutboxT /\ n.clients = Outbox.clients /\ Adds(Outbox, n, {d}, f)
      BY <1>8, <3>3, <3>6, <3>8, EnqueueSame, EnqueueAdds DEF Same
    <3>10. {d} \in SUBSET Conns
      BY <3>3
    <3>11. \A x \in Conns :
              Invoked(n.out[x]) \subseteq Invoked(Outbox.out[x]) \cup (IF x \in {d} /\ f.t = "verb.run" THEN {f.verb} ELSE {})
      BY <1>8, <3>8, <3>9, <3>10, AddsInvokes
    <3>12. Quiet(n, ok(n, c, m)) /\ ok(n, c, m) \in OutboxT
      BY <1>8, <3>9, OkQuiet DEF Quiet
    <3>13. Quiet(ok(n, c, m), o)
      BY <3>7, <3>12, EmitQuiet
    <3>14. Quiet(n, o)
      BY <3>9, <3>12, <3>13, QuietThen
    <3>15. \A x \in Conns : Invoked(o.out[x]) \subseteq Invoked(n.out[x])
      BY <3>14 DEF Quiet, Calm, NoRuns
    <3>16. out' = o.out
      BY <3>1, <3>6, <3>7 DEF Deliver
    <3>17. \A x \in clients : Invoked(out[x]) \subseteq regs[x]
      BY DEF VerbInv, RunsOwned
    <3> SUFFICES ASSUME NEW x \in clients PROVE Invoked(out'[x]) \subseteq regs[x]
      OBVIOUS
    <3>18. Invoked(out'[x]) \subseteq Invoked(out[x]) \cup (IF x = d THEN {m.verb} ELSE {})
      BY <1>6, <1>8, <3>8, <3>11, <3>15, <3>16
    <3>. QED BY <3>4, <3>5, <3>17, <3>18
  <2>. QED BY <1>5, <2>1, <2>2
<1>10. RunsOwned'
  BY <1>5, <1>6, <1>9 DEF RunsOwned
<1>11. VerbsTyped' /\ NewBlank' /\ VerbsOwned' /\ RegisteredVerbsStay'
  BY <1>5, <1>6 DEF VerbInv, VerbsTyped, NewBlank, VerbsOwned, RegisteredVerbsStay
<1>. QED BY <1>7, <1>10, <1>11 DEF VerbInv

LEMMA helloVerbs ==
  ASSUME TypeOK, RequestInv, ViewInv, VerbInv, NEW c \in Conns, hello(c) PROVE VerbInv'
<1>1. PICK h : h = Head(in[c]).seq
  OBVIOUS
<1>2. PICK w : w = Frame("welcome", 0, "")
  OBVIOUS
<1>3. PICK r : r = reply(Outbox, c, h, w)
  OBVIOUS
<1>4. PICK e : e = emit(r)
  OBVIOUS
<1>5. PICK o : o = Greet(e, c)
  OBVIOUS
<1>6. /\ Receive(c, "hello") /\ phase' = phase /\ verbs' = verbs /\ regs' = regs /\ Deliver(o)
      /\ name' = [name EXCEPT ![c] = NameOf(c)]
  BY <1>1, <1>2, <1>3, <1>4, <1>5 DEF hello
<1>7. Took(c) /\ c \in clients /\ h \in Seqs
  BY <1>1, <1>6, Received DEF NoReply
<1>8. Outbox \in OutboxT /\ Outbox.clients = clients /\ Outbox.out = out /\ c \in Outbox.clients
  BY <1>7, OutboxFields DEF Outbox
<1>9. w \in FrameT /\ w.t = "welcome"
  BY <1>2, FrameTypes DEF Frame
<1>10. r \in OutboxT /\ r.clients = clients /\ NoRuns(Outbox, r)
  <2>1. NoRuns(Outbox, r)
    BY <1>3, <1>7, <1>8, <1>9, ReplyTells
  <2>. QED BY <1>3, <1>7, <1>8, <1>9, <2>1, ReplyIncs
<1>11. e \in OutboxT /\ e.clients = clients /\ NoRuns(r, e)
  <2>1. Quiet(r, e)
    BY <1>4, <1>10, EmitQuiet
  <2>. QED BY <1>10, <2>1 DEF Quiet, Calm, Told
<1>12. o.clients = clients /\ NoRuns(e, o)
  <2>1. CASE session = NoSession
    BY <1>5, <1>11, <2>1 DEF Greet, NoRuns
  <2>2. CASE session # NoSession
    <3>1. PICK f : f = Frame("accept.mode", session.id, "")
      OBVIOUS
    <3>2. f \in FrameT /\ f.t = "accept.mode"
      <4>1. session.id \in Nat
        BY DEF TypeOK, SessionT
      <4>. QED BY <3>1, <4>1, FrameTypes DEF Frame
    <3>3. o = enqueue(e, c, f)
      BY <1>5, <2>2, <3>1 DEF Greet
    <3>4. o \in OutboxT /\ o.clients = clients /\ Adds(e, o, {c}, f) /\ {c} \in SUBSET Conns
      BY <1>11, <3>2, <3>3, EnqueueSame, EnqueueAdds DEF Same
    <3>. QED BY <1>11, <3>2, <3>4, AddsNoRuns
  <2>. QED BY <2>1, <2>2
<1>13. clients' = clients /\ clients \subseteq Conns /\ \A d \in Conns : Invoked(out'[d]) \subseteq Invoked(out[d])
  BY <1>6, <1>8, <1>10, <1>11, <1>12 DEF Deliver, NoRuns, TypeOK
<1>14. RunsOwned'
  BY <1>6, <1>13 DEF VerbInv, RunsOwned
<1>15. /\ name \in [Conns -> Names] /\ name'[c] = NameOf(c) /\ NameOf(c) \in Names
       /\ \A d \in Conns : d # c => name'[d] = name[d]
  BY <1>6 DEF VerbInv, VerbsTyped, Names
<1>16. VerbsTyped'
  BY <1>6, <1>15 DEF VerbInv, VerbsTyped
<1>17. Introduced'
  <2> SUFFICES ASSUME NEW d \in Conns
               PROVE  (name[d] = NameOf(d) \/ (name[d] = NoName /\ regs[d] = {} /\ NotYet(d)))'
    BY DEF Introduced
  <2>1. CASE d = c
    BY <1>15, <2>1
  <2>2. CASE d # c
    <3>1. in'[d] = in[d]
      BY <1>7, <2>2 DEF Took, TypeOK
    <3>. QED BY <1>6, <1>13, <1>15, <2>2, <3>1 DEF VerbInv, Introduced, NotYet
  <2>. QED BY <2>1, <2>2
<1>18. RegisteredVerbsStay'
  <2> SUFFICES ASSUME NEW d \in clients, NEW x \in regs[d]
               PROVE  \E i \in DOMAIN verbs : verbs[i].id = x /\ verbs[i].owner = name'[d]
    BY <1>6, <1>13 DEF RegisteredVerbsStay
  <2>1. name'[d] = name[d]
    BY <1>13, <1>15 DEF VerbInv, Introduced
  <2>. QED BY <2>1 DEF VerbInv, RegisteredVerbsStay
<1>19. NewBlank' /\ VerbsOwned'
  BY <1>6 DEF VerbInv, NewBlank, VerbsOwned
<1>. QED BY <1>14, <1>16, <1>17, <1>18, <1>19 DEF VerbInv
LEMMA removeConnVerbs ==
  ASSUME OwnNames, TypeOK, RequestInv, ViewInv, VerbInv, NEW c \in Conns, removeConn(c) PROVE VerbInv'
<1>1. PICK p : p = Unlinked(c)
  OBVIOUS
<1>2. PICK q : q = IF session.requester = c THEN clearSession(p, session) ELSE p
  OBVIOUS
<1>3. PICK o : o = emit(q)
  OBVIOUS
<1>4. /\ Receive(c, "eof") /\ phase' = [phase EXCEPT ![c] = "gone"]
      /\ verbs' = KeptVerbs(c) /\ name' = name /\ regs' = regs
      /\ Deliver(o)
  BY <1>1, <1>2, <1>3 DEF removeConn
<1>5. Took(c) /\ c \in clients
  BY <1>4, Received
<1>6. /\ p \in OutboxT /\ p.clients = clients \ {c}
      /\ \A d \in Conns : d # c => p.out[d] = out[d]
  <2>1. Outbox \in OutboxT /\ Outbox.clients = clients /\ Outbox.out = out
    BY OutboxFields DEF Outbox
  <2>2. <<>> \in Seq(FrameT)
    OBVIOUS
  <2>. QED BY <1>1, <2>1, <2>2 DEF OutboxT, Unlinked
<1>7. q \in OutboxT /\ q.clients = clients \ {c} /\ NoRuns(p, q)
  <2>1. CASE session.requester = c
    <3>1. session # NoSession /\ session \in SessionT
      BY <2>1, BrokerAssumption DEF NoSession, TypeOK
    <3>2. session.requester \notin p.clients
      BY <1>6, <2>1
    <3>3. q = clearSession(p, session)
      BY <1>2, <2>1
    <3>4. q \in OutboxT /\ Told(p, q, Clears(session.id)) /\ Calm(p, q)
      BY <1>6, <3>1, <3>2, <3>3, ClearTells
    <3>. QED BY <1>6, <3>4 DEF Told, Calm
  <2>2. CASE session.requester # c
    BY <1>2, <1>6, <2>2 DEF NoRuns
  <2>. QED BY <2>1, <2>2
<1>8. o.clients = clients \ {c} /\ NoRuns(q, o)
  <2>1. Quiet(q, o)
    BY <1>3, <1>7, EmitQuiet
  <2>. QED BY <1>7, <2>1 DEF Quiet, Calm, Told
<1>9. clients' = clients \ {c} /\ clients \subseteq Conns
      /\ \A d \in clients' : Invoked(out'[d]) \subseteq Invoked(out[d])
  BY <1>4, <1>6, <1>7, <1>8 DEF Deliver, NoRuns, TypeOK
<1>10. RunsOwned'
  BY <1>4, <1>9 DEF VerbInv, RunsOwned
<1>11. Introduced'
  <2>1. c \notin clients' /\ clients' \subseteq clients
    BY <1>9
  <2>. QED BY <1>4, <1>5, <2>1, StillIntroduced DEF VerbInv
<1>12. NewBlank'
  BY <1>4 DEF VerbInv, NewBlank
<1>13. KeptVerbs(c) \in Seq(VerbT) /\ Elements(KeptVerbs(c)) = {v \in Elements(verbs) : Stays(c, v)}
  BY KeptVerbsAre DEF VerbInv, VerbsTyped
<1>14. VerbsTyped'
  BY <1>4, <1>13 DEF VerbInv, VerbsTyped
<1>15. VerbsOwned'
  <2> SUFFICES ASSUME NEW i \in DOMAIN verbs'
               PROVE  \E d \in Conns : verbs'[i].owner = NameOf(d) /\ verbs'[i].id \in regs[d]
    BY <1>4 DEF VerbsOwned
  <2>1. verbs'[i] \in Elements(verbs)
    BY <1>4, <1>13 DEF Elements
  <2>2. PICK j \in DOMAIN verbs : verbs'[i] = verbs[j]
    BY <2>1 DEF Elements
  <2>. QED BY <2>2 DEF VerbInv, VerbsOwned
<1>16. RegisteredVerbsStay'
  <2> SUFFICES ASSUME NEW d \in clients', NEW x \in regs[d]
               PROVE  \E i \in DOMAIN verbs' : verbs'[i].id = x /\ verbs'[i].owner = name[d]
    BY <1>4 DEF RegisteredVerbsStay
  <2>1. d \in clients /\ d \in Conns /\ d # c
    BY <1>9
  <2>2. PICK j \in DOMAIN verbs : verbs[j].id = x /\ verbs[j].owner = name[d]
    BY <2>1 DEF VerbInv, RegisteredVerbsStay
  <2>3. name[d] = NameOf(d) /\ (name[c] = NameOf(c) \/ name[c] = NoName)
    BY <2>1 DEF VerbInv, Introduced
  <2>4. Stays(c, verbs[j])
    BY <2>1, <2>2, <2>3 DEF Stays, OwnNames
  <2>5. verbs[j] \in Elements(verbs')
    BY <1>4, <1>13, <2>2, <2>4 DEF Elements
  <2>. QED BY <2>2, <2>5 DEF Elements
<1>. QED BY <1>10, <1>11, <1>12, <1>14, <1>15, <1>16 DEF VerbInv

LEMMA ConnectVerbs ==
  ASSUME TypeOK, RequestInv, ViewInv, VerbInv, NEW c \in Conns, Connect(c) PROVE VerbInv'
<1>1. PICK m : m = Request("hello", 1, 0, {}, "")
  OBVIOUS
<1>2. /\ phase[c] = "new" /\ phase' = [phase EXCEPT ![c] = "open"] /\ clients' = clients \cup {c}
      /\ in' = [in EXCEPT ![c] = <<m>>] /\ out' = out
      /\ name' = name /\ verbs' = verbs /\ regs' = regs
  BY <1>1 DEF Connect
<1>3. m.t = "hello"
  BY <1>1 DEF Request
<1>4. regs[c] = {} /\ out[c] = <<>> /\ Invoked(out[c]) = {}
  <2>1. regs[c] = {} /\ out[c] = <<>>
    BY <1>2 DEF VerbInv, NewBlank, ViewInv, NewSilent
  <2>. QED BY <2>1 DEF Invoked
<1>5. in'[c] = <<m>> /\ \A d \in Conns : d # c => in'[d] = in[d] /\ phase'[d] = phase[d]
  BY <1>2 DEF TypeOK
<1>6. Introduced'
  <2>1. in'[c] # <<>> /\ Head(in'[c]).t = "hello"
    BY <1>3, <1>5
  <2>2. NotYet(c)'
    BY <2>1 DEF NotYet
  <2>3. \A d \in Conns : d # c => (NotYet(d) => NotYet(d)')
    BY <1>2, <1>5 DEF NotYet
  <2>. QED BY <1>2, <2>2, <2>3 DEF VerbInv, Introduced
<1>7. RunsOwned' /\ RegisteredVerbsStay'
  BY <1>2, <1>4 DEF VerbInv, RunsOwned, RegisteredVerbsStay
<1>8. NewBlank'
  BY <1>2, <1>4, <1>5 DEF VerbInv, NewBlank
<1>. QED BY <1>2, <1>6, <1>7, <1>8 DEF VerbInv, VerbsTyped, VerbsOwned

\* The other steps of the clients: what heads a queue stays, or is the eof.
LEMMA VerbFrame ==
  ASSUME VerbInv, clients' = clients, name' = name, verbs' = verbs, regs' = regs,
         \A d \in Conns : phase'[d] = "new" => phase[d] = "new",
         \A d \in Conns : NotYet(d) => NotYet(d)',
         \A d \in clients : Invoked(out'[d]) \subseteq Invoked(out[d])
  PROVE  VerbInv'
<1>1. Introduced'
  BY DEF VerbInv, Introduced
<1>2. NewBlank'
  BY DEF VerbInv, NewBlank
<1>3. RunsOwned'
  BY DEF VerbInv, RunsOwned
<1>. QED BY <1>1, <1>2, <1>3 DEF VerbInv, VerbsTyped, VerbsOwned, RegisteredVerbsStay

LEMMA HeadStays ==
  ASSUME TypeOK, NEW c \in Conns, NEW m \in RequestT, in' = [in EXCEPT ![c] = Append(@, m)], clients' = clients
  PROVE  \A d \in Conns : NotYet(d) => NotYet(d)'
<1>1. in[c] \in Seq(RequestT) /\ in'[c] = Append(in[c], m) /\ \A d \in Conns : d # c => in'[d] = in[d]
  BY DEF TypeOK
<1>2. in[c] # <<>> => in'[c] # <<>> /\ Head(in'[c]) = Head(in[c])
  <2> SUFFICES ASSUME in[c] # <<>> PROVE in'[c] # <<>> /\ Head(in'[c]) = Head(in[c])
    OBVIOUS
  <2>1. Len(in[c]) \in Nat \ {0} /\ Head(in[c]) = in[c][1]
    BY <1>1
  <2>2. Append(in[c], m) # <<>> /\ Head(Append(in[c], m)) = Append(in[c], m)[1] /\ Append(in[c], m)[1] = in[c][1]
    BY <1>1, <2>1
  <2>. QED BY <1>1, <2>1, <2>2
<1>. QED BY <1>1, <1>2 DEF NotYet

LEMMA SendVerbs ==
  ASSUME TypeOK, RequestInv, VerbInv, NEW c \in Conns, NEW t \in Kinds, NEW x \in Nat,
         NEW p \in SUBSET AllTypes, NEW v \in VerbIds \cup {""}, Send(c, t, x, p, v)
  PROVE  VerbInv'
<1>1. PICK n : n = IF t = "doc.hover" THEN 0 ELSE sent[c] + 1
  OBVIOUS
<1>2. PICK m : m = Request(t, n, x, p, v)
  OBVIOUS
<1>3. /\ sent[c] < MaxReq /\ in' = [in EXCEPT ![c] = Append(@, m)]
      /\ phase' = phase /\ clients' = clients /\ out' = out
      /\ name' = name /\ verbs' = verbs /\ regs' = regs
  BY <1>1, <1>2 DEF Send
<1>4. n \in 0..MaxReq
  BY <1>1, <1>3, SentRange
<1>5. m \in RequestT
  BY <1>2, <1>4 DEF Request, RequestT
<1>6. \A d \in Conns : NotYet(d) => NotYet(d)'
  BY <1>3, <1>5, HeadStays
<1>. QED BY <1>3, <1>6, VerbFrame

LEMMA CloseVerbs ==
  ASSUME TypeOK, VerbInv, NEW c \in Conns, Close(c) PROVE VerbInv'
<1>1. PICK m : m = Eof
  OBVIOUS
<1>2. /\ phase' = [phase EXCEPT ![c] = "shut"] /\ in' = [in EXCEPT ![c] = Append(@, m)]
      /\ clients' = clients /\ out' = out /\ name' = name /\ verbs' = verbs /\ regs' = regs
  BY <1>1 DEF Close
<1>3. m \in RequestT
  BY <1>1, EofType
<1>4. \A d \in Conns : NotYet(d) => NotYet(d)'
  BY <1>2, <1>3, HeadStays
<1>5. \A d \in Conns : phase'[d] = "new" => phase[d] = "new"
  BY <1>2 DEF TypeOK
<1>. QED BY <1>2, <1>4, <1>5, VerbFrame

LEMMA WriteFailsVerbs ==
  ASSUME TypeOK, VerbInv, NEW c \in Conns, WriteFails(c) PROVE VerbInv'
<1>1. PICK m : m = Eof
  OBVIOUS
<1>2. /\ phase' = phase /\ in' = [in EXCEPT ![c] = <<m>>]
      /\ clients' = clients /\ out' = out /\ name' = name /\ verbs' = verbs /\ regs' = regs
  BY <1>1 DEF WriteFails
<1>3. m.t = "eof"
  BY <1>1, EofType
<1>4. in'[c] # <<>> /\ Head(in'[c]) = m /\ \A d \in Conns : d # c => in'[d] = in[d]
  BY <1>2 DEF TypeOK
<1>5. \A d \in Conns : NotYet(d) => NotYet(d)'
  BY <1>2, <1>3, <1>4 DEF NotYet
<1>. QED BY <1>2, <1>5, VerbFrame

LEMMA ReadVerbs ==
  ASSUME TypeOK, VerbInv, NEW c \in Conns, Read(c) PROVE VerbInv'
<1>1. /\ out[c] # <<>> /\ out' = [out EXCEPT ![c] = Tail(@)]
      /\ phase' = phase /\ in' = in /\ clients' = clients /\ name' = name /\ verbs' = verbs /\ regs' = regs
  BY DEF Read
<1>2. out[c] \in Seq(FrameT) /\ out'[c] = Tail(out[c]) /\ \A d \in Conns : d # c => out'[d] = out[d]
  BY <1>1 DEF TypeOK
<1>3. Invoked(Tail(out[c])) \subseteq Invoked(out[c])
  <2> DEFINE q == out[c]
  <2>1. Len(q) \in Nat \ {0} /\ DOMAIN q = 1..Len(q)
    BY <1>1, <1>2
  <2>2. DOMAIN Tail(q) = 1..(Len(q) - 1) /\ \A i \in 1..(Len(q) - 1) : Tail(q)[i] = q[i + 1]
    BY <1>2, <2>1
  <2>3. \A i \in DOMAIN Tail(q) : i + 1 \in DOMAIN q /\ Tail(q)[i] = q[i + 1]
    BY <2>1, <2>2
  <2>. HIDE DEF q
  <2>4. Invoked(Tail(q)) \subseteq Invoked(q)
    BY <2>3 DEF Invoked
  <2>. QED BY <2>4 DEF q
<1>4. clients \subseteq Conns
  BY DEF TypeOK
<1>5. \A d \in clients : Invoked(out'[d]) \subseteq Invoked(out[d])
  BY <1>2, <1>3, <1>4
<1>6. \A d \in Conns : NotYet(d) => NotYet(d)'
  BY <1>1 DEF NotYet
<1>. QED BY <1>1, <1>5, <1>6, VerbFrame

LEMMA handleVerbs ==
  ASSUME OwnNames, TypeOK, RequestInv, ViewInv, VerbInv, NEW c \in Conns, handle(c) PROVE VerbInv'
<1>1. CASE hello(c) \/ register(c) \/ verbInvoke(c)
  BY <1>1, helloVerbs, registerVerbs, verbInvokeVerbs
<1>2. ASSUME NEW t, t \notin {"hello", "eof", "verb.invoke"}, Speech(c, t), name' = name, verbs' = verbs, regs' = regs
      PROVE  VerbInv'
  BY <1>2, SpeechVerbs
<1>3. CASE subscribe(c)
  <2>1. name' = name /\ verbs' = verbs /\ regs' = regs
    BY <1>3 DEF subscribe
  <2>. QED BY <1>2, <1>3, <2>1, subscribeSpeaks
<1>4. CASE acceptStart(c)
  <2>1. name' = name /\ verbs' = verbs /\ regs' = regs
    BY <1>4 DEF acceptStart
  <2>. QED BY <1>2, <1>4, <2>1, acceptStartSpeaks
<1>5. CASE acceptAnswer(c)
  <2>1. name' = name /\ verbs' = verbs /\ regs' = regs
    BY <1>5 DEF acceptAnswer
  <2>. QED BY <1>2, <1>5, <2>1, acceptAnswerSpeaks
<1>6. CASE acceptCancel(c)
  <2>1. name' = name /\ verbs' = verbs /\ regs' = regs
    BY <1>6 DEF acceptCancel
  <2>. QED BY <1>2, <1>6, <2>1, acceptCancelSpeaks
<1>7. CASE menuRequest(c)
  <2>1. name' = name /\ verbs' = verbs /\ regs' = regs
    BY <1>7 DEF menuRequest
  <2>. QED BY <1>2, <1>7, <2>1, menuRequestSpeaks
<1>8. CASE queryVerbs(c)
  <2>1. name' = name /\ verbs' = verbs /\ regs' = regs
    BY <1>8 DEF queryVerbs
  <2>. QED BY <1>2, <1>8, <2>1, queryVerbsSpeaks
<1>9. CASE docHover(c)
  <2>1. name' = name /\ verbs' = verbs /\ regs' = regs
    BY <1>9 DEF docHover
  <2>. QED BY <1>2, <1>9, <2>1, docHoverSpeaks
<1>10. CASE eventEmit(c)
  <2>1. name' = name /\ verbs' = verbs /\ regs' = regs
    BY <1>10 DEF eventEmit
  <2>. QED BY <1>2, <1>10, <2>1, eventEmitSpeaks
<1>11. CASE unknownType(c)
  <2>1. name' = name /\ verbs' = verbs /\ regs' = regs
    BY <1>11 DEF unknownType
  <2>. QED BY <1>2, <1>11, <2>1, unknownTypeSpeaks
<1>. QED BY <1>1, <1>3, <1>4, <1>5, <1>6, <1>7, <1>8, <1>9, <1>10, <1>11 DEF handle

LEMMA VerbsInductive ==
  ASSUME OwnNames, TypeOK, RequestInv, ViewInv, VerbInv, [Next]_vars PROVE VerbInv'
<1>1. ASSUME NEW c \in Conns, handle(c) \/ removeConn(c) PROVE VerbInv'
  BY <1>1, handleVerbs, removeConnVerbs
<1>2. ASSUME NEW c \in Conns, \E t \in Kinds : SendSome(c, t) PROVE VerbInv'
  BY <1>2, SendSomeSends, SendVerbs
<1>3. ASSUME NEW c \in Conns, Connect(c) \/ Close(c) \/ WriteFails(c) \/ Read(c) PROVE VerbInv'
  BY <1>3, ConnectVerbs, CloseVerbs, WriteFailsVerbs, ReadVerbs
<1>4. CASE UNCHANGED vars
  BY <1>4 DEF vars, VerbInv, VerbsTyped, Introduced, NotYet, NewBlank, VerbsOwned, RegisteredVerbsStay, RunsOwned
<1>5. CASE Next
  BY <1>1, <1>2, <1>3, <1>5 DEF Next
<1>. QED BY <1>4, <1>5

LEMMA VerbsInitial == ASSUME Init PROVE VerbInv
<1>1. <<>> \in Seq(VerbT) /\ NoName \in Names
  BY DEF Names
<1>2. VerbsTyped
  BY <1>1 DEF Init, VerbsTyped
<1>. QED BY <1>2 DEF Init, VerbInv, Introduced, NotYet, NewBlank, VerbsOwned, RegisteredVerbsStay, RunsOwned

\* Clients with names of their own keep their verbs as long as they stay, and
\* a verb.invoke reaches the client that registered the verb, through any
\* registrations, upserts, disconnections and reconnections of the others.
\* The names are a hypothesis because the registry is keyed by them: clients
\* of one name take each other's verbs.
THEOREM VerbsWithClients == OwnNames => (Spec => []VerbsFollowClients)
<1> SUFFICES ASSUME OwnNames PROVE Spec => []VerbsFollowClients
  OBVIOUS
<1>1. Init => VerbInv
  BY VerbsInitial
<1>2. TypeOK /\ RequestInv /\ ViewInv /\ VerbInv /\ [Next]_vars => VerbInv'
  BY VerbsInductive
<1>3. VerbInv => VerbsFollowClients
  BY DEF VerbInv, RunsOwned, Invoked, VerbsFollowClients, VerbRunAtRegistrant
<1>. QED BY <1>1, <1>2, <1>3, ViewsHeld, PTL DEF Spec
=============================================================================
