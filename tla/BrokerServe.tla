---------------------------- MODULE BrokerServe ----------------------------
(***************************************************************************)
(* The goroutines of pkg/pbui/broker: Serve's state loop, the acceptor,    *)
(* the watcher of ctx, and a reader and a writer per connection.  They     *)
(* meet in the bounded channel b.ops (post() blocks while it is full), in  *)
(* the bounded channels c.send, in c.done and in the wait group.  What the *)
(* handlers compute is the subject of Broker; here a handler only queues a *)
(* reply.                                                                  *)
(***************************************************************************)
EXTENDS Naturals, Sequences, FiniteSets

CONSTANTS
  Conns,      \* peers; each dials once
  NoConn,
  OpsCap,     \* capacity of b.ops (256 in the code)
  MaxFrames   \* bound on the frames one peer sends

ASSUME ServeAssumption ==
    /\ NoConn \notin Conns
    /\ OpsCap \in Nat \ {0} /\ MaxFrames \in Nat

VARIABLES
  ctxDone,    \* ctx is cancelled
  listening,  \* the listener is open
  acceptor,   \* "accept" | "post" | "exit"
  accepted,   \* the connection the acceptor is posting
  serveLoop,       \* "run" | "post" (of nil) | "drain" | "close" | "wait" | "done"
  ops,        \* b.ops: sequence of [op, conn]
  peer,       \* "idle" | "dialed" | "accepted" | "closed"
  frames,     \* frames in the socket, not yet read by the reader
  budget,     \* frames the peer may still send
  clients,    \* Broker.clients
  readLoop,     \* "none" | "decode" | "handle" | "remove" (blocked in post) | "exit"
  writer,     \* "none" | "select" | "exit"
  send,       \* length of c.send
  done,       \* connections whose c.done is closed
  raw         \* connections whose socket the broker closed

serveVars == <<ctxDone, listening, acceptor, accepted, serveLoop, ops, peer, frames, budget,
          clients, readLoop, writer, send, done, raw>>
sockets == <<peer, frames, budget>>
conns == <<clients, readLoop, writer, send, done, raw>>
listener == <<ctxDone, listening, acceptor, accepted>>

Op(op, c) == [op |-> op, conn |-> c]
Nil == Op("nil", NoConn)
Room == Len(ops) < OpsCap
post(op) == Room /\ ops' = Append(ops, op)
-----------------------------------------------------------------------------
(* The peers.                                                              *)

Dial(c) ==
    /\ listening /\ peer[c] = "idle"
    /\ peer' = [peer EXCEPT ![c] = "dialed"]
    /\ UNCHANGED <<listener, serveLoop, ops, frames, budget, conns>>

Write(c) ==
    /\ peer[c] \in {"dialed", "accepted"} /\ budget[c] > 0
    /\ budget' = [budget EXCEPT ![c] = @ - 1]
    /\ frames' = [frames EXCEPT ![c] = @ + 1]
    /\ UNCHANGED <<listener, serveLoop, ops, peer, conns>>

PeerHangsUp(c) ==
    /\ peer[c] = "accepted"
    /\ peer' = [peer EXCEPT ![c] = "closed"]
    /\ UNCHANGED <<listener, serveLoop, ops, frames, budget, conns>>
-----------------------------------------------------------------------------
(* The acceptor and the watcher of ctx.                                    *)

Cancel ==
    /\ ~ctxDone
    /\ ctxDone' = TRUE
    /\ UNCHANGED <<listening, acceptor, accepted, serveLoop, ops, sockets, conns>>

CloseListener ==
    /\ ctxDone /\ listening
    /\ listening' = FALSE
    /\ UNCHANGED <<ctxDone, acceptor, accepted, serveLoop, ops, sockets, conns>>

Accept(c) ==
    /\ acceptor = "accept" /\ listening /\ peer[c] = "dialed"
    /\ acceptor' = "post" /\ accepted' = c
    /\ peer' = [peer EXCEPT ![c] = "accepted"]
    /\ UNCHANGED <<ctxDone, listening, serveLoop, ops, frames, budget, conns>>

AcceptorPosts ==
    /\ acceptor = "post" /\ post(Op("add", accepted))
    /\ acceptor' = "accept" /\ accepted' = NoConn
    /\ UNCHANGED <<ctxDone, listening, serveLoop, sockets, conns>>

\* acceptErr <- err: "exit" stands for the value in the channel, too.
AcceptFails ==
    /\ acceptor = "accept" /\ ~listening
    /\ acceptor' = "exit"
    /\ UNCHANGED <<ctxDone, listening, accepted, serveLoop, ops, sockets, conns>>
-----------------------------------------------------------------------------
(* A connection's goroutines.                                              *)

\* Decode() returns a frame, or an error once the socket is closed.
Decode(c) ==
    /\ readLoop[c] = "decode"
    /\ \/ /\ frames[c] > 0 /\ c \notin raw
          /\ frames' = [frames EXCEPT ![c] = @ - 1]
          /\ readLoop' = [readLoop EXCEPT ![c] = "handle"]
       \/ /\ c \in raw \/ (peer[c] = "closed" /\ frames[c] = 0)
          /\ readLoop' = [readLoop EXCEPT ![c] = "remove"]
          /\ UNCHANGED frames
    /\ UNCHANGED <<listener, serveLoop, ops, peer, budget, clients, writer, send, done, raw>>

MutReaderPosts(c) ==   \* a disconnect overtakes the frames before it
    /\ readLoop[c] \in {"handle", "remove"} /\ Room
    /\ ops' = IF readLoop[c] = "remove" THEN <<Op("remove", c)>> \o ops ELSE Append(ops, Op("handle", c))
    /\ readLoop' = [readLoop EXCEPT ![c] = IF @ = "handle" THEN "decode" ELSE "exit"]
    /\ UNCHANGED <<listener, serveLoop, sockets, clients, writer, send, done, raw>>
ReaderPosts(c) ==
    /\ readLoop[c] \in {"handle", "remove"}
    /\ post(Op(readLoop[c], c))
    /\ readLoop' = [readLoop EXCEPT ![c] = IF @ = "handle" THEN "decode" ELSE "exit"]
    /\ UNCHANGED <<listener, serveLoop, sockets, clients, writer, send, done, raw>>

\* A failed Encode closes the socket and ends the writer.
WriterEncodes(c) ==
    /\ writer[c] = "select" /\ send[c] > 0
    /\ send' = [send EXCEPT ![c] = @ - 1]
    /\ IF peer[c] = "closed" \/ c \in raw
       THEN raw' = raw \cup {c} /\ writer' = [writer EXCEPT ![c] = "exit"]
       ELSE UNCHANGED <<raw, writer>>
    /\ UNCHANGED <<listener, serveLoop, ops, sockets, clients, readLoop, done>>

WriterDone(c) ==
    /\ writer[c] = "select" /\ c \in done
    /\ writer' = [writer EXCEPT ![c] = "exit"]
    /\ UNCHANGED <<listener, serveLoop, ops, sockets, clients, readLoop, send, done, raw>>
-----------------------------------------------------------------------------
(* The state loop.                                                         *)

addConn(c) ==
    /\ clients' = clients \cup {c}
    /\ readLoop' = [readLoop EXCEPT ![c] = "decode"]
    /\ writer' = [writer EXCEPT ![c] = "select"]
    /\ UNCHANGED <<send, done, raw>>

\* A reply, unless the queue is full (one is enough here).
handle(c) ==
    /\ send' = [send EXCEPT ![c] = IF c \notin done /\ @ = 0 THEN 1 ELSE @]
    /\ UNCHANGED <<clients, readLoop, writer, done, raw>>

MutRemoveConn(c) ==
    /\ clients' = clients \ {c} /\ raw' = raw \cup {c}
    /\ UNCHANGED <<done, readLoop, writer, send>>
removeConn(c) ==
    /\ IF c \in clients
       THEN clients' = clients \ {c} /\ done' = done \cup {c} /\ raw' = raw \cup {c}
       ELSE UNCHANGED <<clients, done, raw>>
    /\ UNCHANGED <<readLoop, writer, send>>

LoopRuns(o) ==
    CASE o.op = "add"    -> addConn(o.conn)
      [] o.op = "handle" -> handle(o.conn)
      [] o.op = "remove" -> removeConn(o.conn)

RunOp ==
    /\ serveLoop = "run" /\ ops # <<>>
    /\ LoopRuns(Head(ops))
    /\ ops' = Tail(ops)
    /\ UNCHANGED <<listener, serveLoop, sockets>>

\* case err := <-acceptErr.  select may take it while ops has work.
SeeAcceptErr ==
    /\ serveLoop = "run" /\ acceptor = "exit"
    /\ serveLoop' = "post"
    /\ UNCHANGED <<listener, ops, sockets, conns>>

MutPostNil ==          \* no draining
    /\ serveLoop = "post" /\ serveLoop' = "close"
    /\ UNCHANGED <<listener, ops, sockets, conns>>
PostNil ==
    /\ serveLoop = "post" /\ post(Nil)
    /\ serveLoop' = "drain"
    /\ UNCHANGED <<listener, sockets, conns>>

Drain ==
    /\ serveLoop = "drain" /\ ops # <<>>
    /\ ops' = Tail(ops)
    /\ IF Head(ops) = Nil THEN serveLoop' = "close" /\ UNCHANGED conns
                          ELSE LoopRuns(Head(ops)) /\ UNCHANGED serveLoop
    /\ UNCHANGED <<listener, sockets>>

CloseClients ==
    /\ serveLoop = "close"
    /\ raw' = raw \cup clients
    /\ serveLoop' = "wait"
    /\ UNCHANGED <<listener, ops, sockets, clients, readLoop, writer, send, done>>

\* b.wg.Wait()
Return ==
    /\ serveLoop = "wait"
    /\ \A c \in Conns : readLoop[c] \in {"none", "exit"} /\ writer[c] \in {"none", "exit"}
    /\ serveLoop' = "done"
    /\ UNCHANGED <<listener, ops, sockets, conns>>
-----------------------------------------------------------------------------
ServeInit ==
    /\ ctxDone = FALSE /\ listening = TRUE /\ acceptor = "accept" /\ accepted = NoConn
    /\ serveLoop = "run" /\ ops = <<>>
    /\ peer = [c \in Conns |-> "idle"] /\ frames = [c \in Conns |-> 0]
    /\ budget = [c \in Conns |-> MaxFrames]
    /\ clients = {} /\ done = {} /\ raw = {} /\ send = [c \in Conns |-> 0]
    /\ readLoop = [c \in Conns |-> "none"] /\ writer = [c \in Conns |-> "none"]

Serve == RunOp \/ SeeAcceptErr \/ PostNil \/ Drain \/ CloseClients \/ Return
Acceptor == AcceptorPosts \/ AcceptFails \/ \E c \in Conns : Accept(c)
Reader(c) == Decode(c) \/ ReaderPosts(c)
Writer(c) == WriterEncodes(c) \/ WriterDone(c)
Peer(c) == Dial(c) \/ Write(c) \/ PeerHangsUp(c)

ServeNext ==
    \/ Cancel \/ CloseListener \/ Acceptor \/ Serve
    \/ \E c \in Conns : Peer(c) \/ Reader(c) \/ Writer(c)

\* Goroutines that can run do; a channel operation that stays possible is
\* taken.  Peers and the cancellation of ctx are not forced.
ServeFairness ==
    /\ WF_serveVars(CloseListener) /\ WF_serveVars(Acceptor) /\ WF_serveVars(Serve)
    /\ \A c \in Conns : WF_serveVars(Reader(c)) /\ WF_serveVars(Writer(c))

ServeSpec == ServeInit /\ [][ServeNext]_serveVars /\ ServeFairness
-----------------------------------------------------------------------------
(* Properties.                                                             *)

ServeTypeOK ==
    /\ ctxDone \in BOOLEAN /\ listening \in BOOLEAN
    /\ acceptor \in {"accept", "post", "exit"} /\ accepted \in Conns \cup {NoConn}
    /\ serveLoop \in {"run", "post", "drain", "close", "wait", "done"}
    /\ Len(ops) <= OpsCap
    /\ clients \subseteq Conns /\ done \subseteq Conns /\ raw \subseteq Conns

(***************************************************************************)
(* The loop handles a connection's frames after it added the connection    *)
(* and before it removed it, however many goroutines post: this is what    *)
(* lets the handlers use the connection's state without looking it up.     *)
(***************************************************************************)
Posted(c, op) == {i \in DOMAIN ops : ops[i] = Op(op, c)}
FramesInOrder ==
    \A c \in Conns :
        /\ \A i \in Posted(c, "handle") : c \in clients \/ \E j \in Posted(c, "add") : j < i
        /\ \A i \in Posted(c, "remove"), j \in Posted(c, "handle") : j < i
        /\ Cardinality(Posted(c, "remove")) <= 1
        /\ Posted(c, "remove") # {} => c \in clients

(***************************************************************************)
(* At shutdown no accepted connection is forgotten: when Serve waits for   *)
(* the goroutines, the socket of every connection the acceptor ever handed *)
(* over is closed, whatever was still queued when ctx was cancelled.       *)
(***************************************************************************)
ShutdownClosesAll ==
    [][serveLoop' \in {"wait", "done"} => \A c \in Conns : peer'[c] = "accepted" => c \in raw']_serveVars

(***************************************************************************)
(* No goroutine outlives its connection: when the peer hangs up, the       *)
(* connection is removed and its reader and its writer end, unless the     *)
(* broker is shut down meanwhile.                                          *)
(***************************************************************************)
HangupCleansUp ==
    []<>(\A c \in Conns : peer[c] = "closed" =>
            ctxDone \/ (c \notin clients /\ readLoop[c] = "exit" /\ writer[c] = "exit"))

(***************************************************************************)
(* Connections end with their peers, and with the broker.                  *)
(***************************************************************************)
ConnectionsEnd == ShutdownClosesAll /\ HangupCleansUp

(***************************************************************************)
(* "Serve accepts connections on l until ctx is cancelled", and then       *)
(* returns.                                                                *)
(***************************************************************************)
ServeReturns == ctxDone ~> (serveLoop = "done")
=============================================================================
