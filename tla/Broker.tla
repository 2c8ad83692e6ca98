------------------------------- MODULE Broker -------------------------------
(***************************************************************************)
(* The PBUI broker of pkg/pbui/broker: the accept state machine, the verb  *)
(* registry and the event bus.  One goroutine owns the state; connection   *)
(* goroutines post closures to it.  A connection is a FIFO of frames in    *)
(* (socket, reader goroutine and its posts: one client's requests stay in  *)
(* order, those of different clients interleave freely) and a bounded      *)
(* queue of frames out (conn.send), which enqueue() drops from when full.  *)
(*                                                                         *)
(* Each action is one handler run to its end: every enqueue, broadcast and *)
(* emit of the handler, in the order of the code.  An operator Mut... is a *)
(* faulty variant of the one after it, there to be told apart by the       *)
(* properties; nothing uses it.                                            *)
(***************************************************************************)
EXTENDS Naturals, Sequences, FiniteSets

CONSTANTS
  Conns,      \* connections; each is used once (clientIDs are never reused)
  Nobody,     \* no connection
  NameOf(_),  \* the name a connection announces in its hello
  IsWM(_),    \* does it announce the role "wm"?
  Ptypes,     \* presentation types of objects
  WantSets,   \* type lists an accept.start or a verb may carry
  VerbIds,
  Kinds,      \* request types the clients of the model use after their hello
  MaxReq,     \* bound on the requests of one connection, its hello included
  MaxIn,      \* bound on the frames in flight to the broker per connection
  SendCap     \* capacity of conn.send (128 in the code)

NoName == ""
AnyType == "any"

ASSUME BrokerAssumption ==
    /\ Nobody \notin Conns
    /\ Kinds \cap {"hello", "eof"} = {}
    /\ MaxReq \in Nat \ {0} /\ MaxIn \in Nat \ {0} /\ SendCap \in Nat \ {0}

VARIABLES
  phase,    \* connection -> "new" | "open" | "shut" (client closed it) | "gone" (removed)
  in,       \* connection -> frames sent and not yet handled; Eof is the reader's error
  sent,     \* connection -> number of requests sent, i.e. Client.seq
  clients,  \* Broker.clients
  name,     \* conn.name
  wm,       \* connections with the role "wm"
  verbs,    \* Broker.verbs: sequence of [id, owner, ptypes]
  subs,     \* Broker.subs
  session,  \* Broker.session, NoSession for nil
  nextSess, \* Broker.nextSess
  out,      \* conn.send
  view,     \* the session a client believes to be pending (0: none)
  lost,     \* history: connections enqueue() dropped a frame of
  acks,     \* history: connection -> seq -> number of replies the broker produced
  regs      \* history: connection -> verb ids it registered

connVars == <<phase, in, sent>>
vars == <<phase, in, sent, clients, name, wm, verbs, subs, session, nextSess, out, view, lost, acks, regs>>

Seqs == 1..MaxReq
NoSession == [id |-> 0, requester |-> Nobody, seq |-> 0, ptypes |-> {}]
Eof == [t |-> "eof", seq |-> 0, sess |-> 0, ptypes |-> {}, verb |-> ""]
Request(t, seq, sess, ptypes, verb) ==
    [t |-> t, seq |-> seq, sess |-> sess, ptypes |-> ptypes, verb |-> verb]

TypeMatches(want, have) == AnyType \in want \/ have \in want
-----------------------------------------------------------------------------
(* Outgoing frames.  A handler threads the record o through its enqueues.  *)

Frame(t, sess, verb) == [t |-> t, sess |-> sess, verb |-> verb]
Outbox == [out |-> out, lost |-> lost, acks |-> acks, clients |-> clients, subs |-> subs]

enqueue(o, c, m) ==
    IF Len(o.out[c]) < SendCap THEN [o EXCEPT !.out[c] = Append(@, m)]
                               ELSE [o EXCEPT !.lost = @ \cup {c}]

\* To every connection of S: broadcast, emit, the loops over role "wm".
enqueueAll(o, S, m) ==
    [o EXCEPT !.out  = [c \in Conns |-> IF c \in S /\ Len(o.out[c]) < SendCap
                                        THEN Append(o.out[c], m) ELSE o.out[c]],
              !.lost = @ \cup {c \in S : Len(o.out[c]) >= SendCap}]
broadcast(o, m) == enqueueAll(o, o.clients, m)
emit(o) == enqueueAll(o, o.subs \cap o.clients, Frame("event", 0, ""))

\* A frame that carries the seq of a request of c answers that request.
reply(o, c, seq, m) == [enqueue(o, c, m) EXCEPT !.acks[c][seq] = @ + 1]
ok(o, c, m) == reply(o, c, m.seq, Frame("ok", 0, ""))
error(o, c, m) == reply(o, c, m.seq, Frame("error", 0, ""))

\* accept.result to the requester, if it is still connected.
result(o, s) ==
    IF s.requester \in o.clients
    THEN reply(o, s.requester, s.seq, Frame("accept.result", s.id, "")) ELSE o

\* clearSession(): the requester's Accept returns nothing, everybody leaves
\* accept mode.
clearSession(o, s) ==
    IF s = NoSession THEN o
    ELSE emit(broadcast(result(o, s), Frame("accept.clear", s.id, "")))

Deliver(o) ==
    /\ out' = o.out /\ lost' = o.lost /\ acks' = o.acks
    /\ clients' = o.clients /\ subs' = o.subs
-----------------------------------------------------------------------------
(* Clients and connections.                                                *)

\* Connect(): dial and send the hello.  addConn() runs in the loop; no frame
\* of c can be handled before it.
Connect(c) ==
    /\ phase[c] = "new"
    /\ phase' = [phase EXCEPT ![c] = "open"]
    /\ clients' = clients \cup {c}
    /\ in' = [in EXCEPT ![c] = <<Request("hello", 1, 0, {}, "")>>]
    /\ sent' = [sent EXCEPT ![c] = 1]
    /\ UNCHANGED <<name, wm, verbs, subs, session, nextSess, out, view, lost, acks, regs>>

\* request() with a fresh seq; doc.hover is sent without one.  Callers need
\* not wait for a reply before the next request.
Send(c, t, sess, ptypes, verb) ==
    /\ phase[c] = "open"
    /\ sent[c] < MaxReq /\ Len(in[c]) < MaxIn
    /\ LET seq == IF t = "doc.hover" THEN 0 ELSE sent[c] + 1
       IN in' = [in EXCEPT ![c] = Append(@, Request(t, seq, sess, ptypes, verb))]
    /\ sent' = IF t = "doc.hover" THEN sent ELSE [sent EXCEPT ![c] = @ + 1]
    /\ UNCHANGED <<phase, clients, name, wm, verbs, subs, session, nextSess, out, view, lost, acks, regs>>

\* The client closes (or dies): frames it sent are still read before the error.
Close(c) ==
    /\ phase[c] = "open"
    /\ phase' = [phase EXCEPT ![c] = "shut"]
    /\ in' = [in EXCEPT ![c] = Append(@, Eof)]
    /\ UNCHANGED <<sent, clients, name, wm, verbs, subs, session, nextSess, out, view, lost, acks, regs>>

\* The writer's Encode fails on a closed connection: it closes the socket, so
\* that the reader gets an error instead of the frames it had not read.
WriteFails(c) ==
    /\ phase[c] = "shut" /\ c \in clients
    /\ out[c] # <<>> /\ in[c] # <<Eof>>
    /\ in' = [in EXCEPT ![c] = <<Eof>>]
    /\ UNCHANGED <<phase, sent, clients, name, wm, verbs, subs, session, nextSess, out, view, lost, acks, regs>>

\* What the window manager's handlers make of a frame: they keep the pending
\* session; a clear of another session is ignored.
Step(v, m) == IF m.t = "accept.mode" THEN m.sess
              ELSE IF m.t = "accept.clear" /\ m.sess = v THEN 0 ELSE v

\* The writer writes, the client's readLoop reads.
Read(c) ==
    LET m == Head(out[c])
    IN /\ phase[c] = "open" /\ out[c] # <<>>
       /\ out' = [out EXCEPT ![c] = Tail(@)]
       /\ view' = [view EXCEPT ![c] = Step(@, m)]
       /\ UNCHANGED <<phase, in, sent, clients, name, wm, verbs, subs, session, nextSess, lost, acks, regs>>
-----------------------------------------------------------------------------
(* The loop: handle(c, m) for the next frame of some connection.           *)

Receive(c, t) ==
    /\ c \in clients
    /\ in[c] # <<>> /\ Head(in[c]).t = t
    /\ in' = [in EXCEPT ![c] = Tail(@)]
    /\ UNCHANGED <<sent, view>>

\* The reader's error: the connection's verbs go (by name: a nameless
\* connection's stay), a session it requested dies, subscribers are told.
Unlinked(c) == [Outbox EXCEPT !.clients = @ \ {c}, !.subs = @ \ {c}, !.out[c] = <<>>]

MutKeptVerbs(c) == SelectSeq(verbs, LAMBDA v : v.owner = name[c])
KeptVerbs(c) ==
    LET stays(v) == v.owner # name[c] \/ name[c] = NoName
        kept[n \in 0..Len(verbs)] ==
            IF n = 0 THEN <<>>
            ELSE IF stays(verbs[n]) THEN Append(kept[n - 1], verbs[n]) ELSE kept[n - 1]
    IN kept[Len(verbs)]

MutKeptSession(c) == session
KeptSession(c) == IF session.requester = c THEN NoSession ELSE session

removeConn(c) ==
    LET o == IF session.requester = c THEN clearSession(Unlinked(c), session) ELSE Unlinked(c)
    IN /\ Receive(c, "eof")
       /\ phase' = [phase EXCEPT ![c] = "gone"]
       /\ verbs' = KeptVerbs(c)
       /\ session' = KeptSession(c)
       /\ Deliver(emit(o))
       /\ UNCHANGED <<name, wm, nextSess, regs>>

\* Late joiners see a pending accept immediately.
MutGreet(o, c) == o
Greet(o, c) == IF session = NoSession THEN o ELSE enqueue(o, c, Frame("accept.mode", session.id, ""))

hello(c) ==
    LET o == emit(reply(Outbox, c, Head(in[c]).seq, Frame("welcome", 0, "")))
    IN /\ Receive(c, "hello")
       /\ name' = [name EXCEPT ![c] = NameOf(c)]
       /\ wm' = IF IsWM(c) THEN wm \cup {c} ELSE wm
       /\ Deliver(Greet(o, c))
       /\ UNCHANGED <<phase, verbs, session, nextSess, regs>>

\* Upsert by (owner, id).
register(c) ==
    LET m == Head(in[c])
        v == [id |-> m.verb, owner |-> name[c], ptypes |-> m.ptypes]
        K == {i \in DOMAIN verbs : verbs[i].owner = v.owner /\ verbs[i].id = v.id}
        first == CHOOSE i \in K : \A j \in K : i <= j
    IN /\ Receive(c, "register")
       /\ verbs' = IF K = {} THEN Append(verbs, v) ELSE [verbs EXCEPT ![first] = v]
       /\ regs' = [regs EXCEPT ![c] = @ \cup {v.id}]
       /\ Deliver(emit(ok(Outbox, c, m)))
       /\ UNCHANGED <<phase, name, wm, session, nextSess>>

subscribe(c) ==
    /\ Receive(c, "subscribe")
    /\ Deliver(ok([Outbox EXCEPT !.subs = @ \cup {c}], c, Head(in[c])))
    /\ UNCHANGED <<phase, name, wm, verbs, session, nextSess, regs>>

\* One session at a time: the pending one is superseded even when the new
\* request turns out to name no types.
MutSuperseded == Outbox
Superseded == clearSession(Outbox, session)

acceptStart(c) ==
    LET m == Head(in[c])
        o == Superseded
        s == [id |-> nextSess + 1, requester |-> c, seq |-> m.seq, ptypes |-> m.ptypes]
    IN /\ Receive(c, "accept.start")
       /\ IF m.ptypes = {}
          THEN /\ session' = NoSession
               /\ UNCHANGED nextSess
               /\ Deliver(error(o, c, m))
          ELSE /\ session' = s
               /\ nextSess' = s.id
               /\ Deliver(emit(broadcast(o, Frame("accept.mode", s.id, ""))))
       /\ UNCHANGED <<phase, name, wm, verbs, regs>>

\* The answer: the result to the requester, ok to the answerer, then
\* everybody leaves accept mode.
MutAnswered(c, m) ==
    /\ UNCHANGED session
    /\ Deliver(broadcast(emit(ok(result(Outbox, session), c, m)), Frame("accept.clear", session.id, "")))
answered(c, m) ==
    /\ session' = NoSession
    /\ Deliver(broadcast(emit(ok(result(Outbox, session), c, m)), Frame("accept.clear", session.id, "")))

\* An empty session id addresses whatever is pending.
Addresses(m) == session # NoSession /\ m.sess \in {0, session.id}
Matches(m) == \E p \in m.ptypes : TypeMatches(session.ptypes, p)

acceptAnswer(c) ==
    LET m == Head(in[c])
    IN /\ Receive(c, "accept.answer")
       /\ IF Addresses(m) /\ Matches(m)
          THEN answered(c, m)
          ELSE Deliver(error(Outbox, c, m)) /\ UNCHANGED session
       /\ UNCHANGED <<phase, name, wm, verbs, nextSess, regs>>

\* Cancelling what is not pending is ok.
acceptCancel(c) ==
    LET m == Head(in[c])
    IN /\ Receive(c, "accept.cancel")
       /\ IF Addresses(m)
          THEN session' = NoSession /\ Deliver(ok(clearSession(Outbox, session), c, m))
          ELSE Deliver(ok(Outbox, c, m)) /\ UNCHANGED session
       /\ UNCHANGED <<phase, name, wm, verbs, nextSess, regs>>

\* The first verb with the id, then any connection with the owner's name: the
\* broker iterates over a Go map.
MutOwners(v) == clients
Owners(v) == {d \in clients : name[d] = v.owner}

verbInvoke(c) ==
    LET m == Head(in[c])
        K == {i \in DOMAIN verbs : verbs[i].id = m.verb}
        owners == Owners(verbs[CHOOSE i \in K : \A j \in K : i <= j])
    IN /\ Receive(c, "verb.invoke")
       /\ IF K = {} \/ owners = {}
          THEN Deliver(error(Outbox, c, m))
          ELSE \E d \in owners :
                 Deliver(emit(ok(enqueue(Outbox, d, Frame("verb.run", 0, m.verb)), c, m)))
       /\ UNCHANGED <<phase, name, wm, verbs, session, nextSess, regs>>

\* A click on an object: it answers a pending accept that wants its type;
\* otherwise the window managers show its menu, or, when there is none, the
\* requester gets the verb list.
MenuReply(c, m) ==
    IF wm \cap clients = {} THEN reply(Outbox, c, m.seq, Frame("verb.list", 0, ""))
    ELSE ok(enqueueAll(Outbox, wm \cap clients, Frame("menu.show", 0, "")), c, m)

menuRequest(c) ==
    LET m == Head(in[c])
    IN /\ Receive(c, "menu.request")
       /\ IF m.ptypes = {}
          THEN Deliver(error(Outbox, c, m)) /\ UNCHANGED session
          ELSE IF session # NoSession /\ Matches(m)
          THEN answered(c, m)
          ELSE UNCHANGED session /\ Deliver(MenuReply(c, m))
       /\ UNCHANGED <<phase, name, wm, verbs, nextSess, regs>>

queryVerbs(c) ==
    /\ Receive(c, "query.verbs")
    /\ Deliver(reply(Outbox, c, Head(in[c]).seq, Frame("verb.list", 0, "")))
    /\ UNCHANGED <<phase, name, wm, verbs, session, nextSess, regs>>

\* No reply.
docHover(c) ==
    /\ Receive(c, "doc.hover")
    /\ Deliver(enqueueAll(Outbox, wm \cap clients, Frame("doc.hover", 0, "")))
    /\ UNCHANGED <<phase, name, wm, verbs, session, nextSess, regs>>

eventEmit(c) ==
    /\ Receive(c, "event.emit")
    /\ Deliver(ok(emit(Outbox), c, Head(in[c])))
    /\ UNCHANGED <<phase, name, wm, verbs, session, nextSess, regs>>

unknownType(c) ==
    /\ Receive(c, "unknown")
    /\ Deliver(error(Outbox, c, Head(in[c])))
    /\ UNCHANGED <<phase, name, wm, verbs, session, nextSess, regs>>

handle(c) ==
    \/ hello(c) \/ register(c) \/ subscribe(c)
    \/ acceptStart(c) \/ acceptAnswer(c) \/ acceptCancel(c)
    \/ verbInvoke(c) \/ menuRequest(c) \/ queryVerbs(c)
    \/ docHover(c) \/ eventEmit(c) \/ unknownType(c)
-----------------------------------------------------------------------------
Init ==
    /\ phase = [c \in Conns |-> "new"]
    /\ in = [c \in Conns |-> <<>>]
    /\ sent = [c \in Conns |-> 0]
    /\ clients = {} /\ name = [c \in Conns |-> NoName] /\ wm = {}
    /\ verbs = <<>> /\ subs = {}
    /\ session = NoSession /\ nextSess = 0
    /\ out = [c \in Conns |-> <<>>]
    /\ view = [c \in Conns |-> 0]
    /\ lost = {} /\ acks = [c \in Conns |-> [s \in Seqs |-> 0]]
    /\ regs = [c \in Conns |-> {}]

\* The operands of a request of type t: session ids it may have seen (0: none
\* named), type lists and objects ({}: missing), verb ids.
SendSome(c, t) ==
    CASE t = "accept.start"                      -> \E w \in WantSets \cup {{}} : Send(c, t, 0, w, "")
      [] t = "accept.answer"                     -> \E s \in 0..nextSess, p \in {{x} : x \in Ptypes} \cup {{}} :
                                                        Send(c, t, s, p, "")
      [] t = "accept.cancel"                     -> \E s \in 0..nextSess : Send(c, t, s, {}, "")
      [] t = "menu.request"                      -> \E p \in {{x} : x \in Ptypes} \cup {{}} : Send(c, t, 0, p, "")
      [] t = "register"                          -> \E w \in WantSets, v \in VerbIds : Send(c, t, 0, w, v)
      [] t = "verb.invoke"                       -> \E v \in VerbIds : Send(c, t, 0, {}, v)
      [] OTHER                                   -> Send(c, t, 0, {}, "")

Next ==
    \E c \in Conns :
        \/ Connect(c) \/ Close(c) \/ WriteFails(c) \/ Read(c)
        \/ \E t \in Kinds : SendSome(c, t)
        \/ handle(c) \/ removeConn(c)

Spec == Init /\ [][Next]_vars

\* The loop, the readers and the writers run; clients need not do anything.
Fairness == \A c \in Conns : WF_vars(handle(c) \/ removeConn(c)) /\ WF_vars(Read(c))
LiveSpec == Spec /\ Fairness
-----------------------------------------------------------------------------
(* Properties.                                                             *)

AllTypes == Ptypes \cup UNION WantSets
RequestT == [t : Kinds \cup {"hello", "eof"}, seq : 0..MaxReq, sess : Nat,
             ptypes : SUBSET AllTypes, verb : VerbIds \cup {""}]
FrameT == [t : {"welcome", "ok", "error", "accept.result", "accept.mode", "accept.clear",
                "event", "verb.run", "verb.list", "menu.show", "doc.hover"},
           sess : Nat, verb : VerbIds \cup {""}]
SessionT == [id : Nat, requester : Conns \cup {Nobody}, seq : 0..MaxReq, ptypes : SUBSET AllTypes]

\* The types of the state, and the set of connections the broker knows: those
\* that were made and not yet removed.  (verbs is checked by its own property.)
TypeOK ==
    /\ phase \in [Conns -> {"new", "open", "shut", "gone"}]
    /\ in \in [Conns -> Seq(RequestT)]
    /\ sent \in [Conns -> 0..MaxReq]
    /\ clients = {c \in Conns : phase[c] \in {"open", "shut"}}
    /\ wm \subseteq Conns /\ subs \subseteq Conns /\ lost \subseteq Conns
    /\ session \in SessionT
    /\ nextSess \in Nat
    /\ out \in [Conns -> Seq(FrameT)]
    /\ view \in [Conns -> Nat]
    /\ acks \in [Conns -> [Seqs -> Nat]]

(***************************************************************************)
(* The broker answers a request once.  A second frame with the same seq    *)
(* would be taken for the reply to nothing, or, on accept.start, mean that *)
(* one Accept was resolved twice (an answer and a cancel, an answer and a  *)
(* click on a matching object, ...).                                       *)
(***************************************************************************)
OneReply == \A c \in Conns, s \in Seqs : acks[c][s] <= 1

(***************************************************************************)
(* No request is forgotten: of an open connection, a request the broker    *)
(* has handled and not answered is the accept.start of the pending         *)
(* session.  In particular a superseded, cancelled or answered Accept has  *)
(* had its accept.result.                                                  *)
(***************************************************************************)
InFlight(c, s) == \E i \in DOMAIN in[c] : in[c][i].seq = s
NoneForgotten ==
    \A c \in Conns : phase[c] = "open" =>
        \A s \in 1..sent[c] :
            \/ acks[c][s] > 0
            \/ InFlight(c, s)
            \/ session.requester = c /\ session.seq = s

(***************************************************************************)
(* The pending session belongs to a connected client: the broker never     *)
(* holds everybody in accept mode for a requester that is gone.            *)
(***************************************************************************)
RequesterConnected == session # NoSession => session.requester \in clients

(***************************************************************************)
(* Accept mode is consistent: once a client that said hello has read what  *)
(* is queued for it, it believes exactly the broker's session to be        *)
(* pending, whenever it joined, unless a frame of it was dropped.          *)
(***************************************************************************)
Believes(v, q) == LET f[n \in 0..Len(q)] == IF n = 0 THEN v ELSE Step(f[n - 1], q[n]) IN f[Len(q)]
ViewAfter(c) == Believes(view[c], out[c])
Greeted(c) == acks[c][1] > 0
ViewsAgree ==
    \A c \in clients \ lost : Greeted(c) => ViewAfter(c) = session.id

(***************************************************************************)
(* "The broker routes verb.invoke to the client that registered the verb"  *)
(* (pbui/object.go).                                                       *)
(***************************************************************************)
VerbRunAtRegistrant ==
    \A c \in clients : \A i \in DOMAIN out[c] :
        out[c][i].t = "verb.run" => out[c][i].verb \in regs[c]

(***************************************************************************)
(* removeConn drops the disconnected client's verbs, and no others: what a *)
(* connected client registered stays invocable.                            *)
(***************************************************************************)
RegisteredVerbsStay ==
    \A c \in clients : \A v \in regs[c] :
        \E i \in DOMAIN verbs : verbs[i].id = v /\ verbs[i].owner = name[c]

(***************************************************************************)
(* A verb goes where its client goes: it stays as long as its client does, *)
(* and is run there, whatever clients of other names come, register it too *)
(* and leave.                                                              *)
(***************************************************************************)
VerbsFollowClients == RegisteredVerbsStay /\ VerbRunAtRegistrant

(***************************************************************************)
(* Every request is eventually answered, an accept.start at the latest     *)
(* when its session ends: again and again, all requests an open connection *)
(* has sent so far have been answered, but for the pending session's.      *)
(***************************************************************************)
Answered(c) ==
    phase[c] = "open" =>
        \A s \in 1..sent[c] : acks[c][s] > 0 \/ (session.requester = c /\ session.seq = s)
RequestsAnswered == []<>(\A c \in Conns : Answered(c))

(***************************************************************************)
(* When the requester is gone, accept mode ends for everybody.             *)
(***************************************************************************)
AbandonedSessionEnds == []<>(\A c \in Conns : session.requester = c => phase[c] = "open")
=============================================================================
