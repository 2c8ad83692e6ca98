--------------------------- MODULE ConnectionsProofs ---------------------------
(***************************************************************************)
(* Proofs about both ends of a connection, for every finite set of         *)
(* connections and of calls:                                               *)
(*   - BrokerServe: frames stay in order on their way to the loop, and a   *)
(*     broker that shuts down closes every connection it accepted;         *)
(*   - BrokerClient: a call returns its own reply, and leaves nothing.     *)
(* The two share no state.                                                 *)
(***************************************************************************)
EXTENDS BrokerServe, BrokerClient, Integers, FiniteSetTheorems, TLAPS
-----------------------------------------------------------------------------
(* The broker's goroutines.                                                *)

OpRecs == {Nil} \cup {Op(op, c) : op \in {"add", "handle", "remove"}, c \in Conns}
ServeTyped ==
    /\ ops \in Seq(OpRecs)
    /\ acceptor \in {"accept", "post", "exit"} /\ accepted \in Conns \cup {NoConn}
    /\ acceptor = "post" <=> accepted # NoConn
    /\ serveLoop \in {"run", "post", "drain", "close", "wait", "done"}
    /\ peer \in [Conns -> {"idle", "dialed", "accepted", "closed"}]
    /\ readLoop \in [Conns -> {"none", "decode", "handle", "remove", "exit"}]
    /\ clients \subseteq Conns

\* A connection is added once, after it was accepted, and has no reader before.
AddedOnce == \A c \in Conns :
    /\ peer[c] \in {"idle", "dialed"} => readLoop[c] = "none" /\ accepted # c /\ Posted(c, "add") = {}
    /\ accepted = c => readLoop[c] = "none" /\ Posted(c, "add") = {}
    /\ Posted(c, "add") # {} => readLoop[c] = "none"
    /\ \A i, j \in Posted(c, "add") : i = j

\* Only a reader posts frames and the end, which comes last and once; until the
\* loop has seen it the connection is a client.
ReaderOrdered == \A c \in Conns :
    /\ readLoop[c] = "none" => Posted(c, "handle") = {} /\ Posted(c, "remove") = {}
    /\ readLoop[c] \in {"decode", "handle", "remove"} => c \in clients /\ Posted(c, "remove") = {}
    /\ Posted(c, "handle") \cup Posted(c, "remove") # {} => c \in clients
    /\ \A i \in Posted(c, "remove"), j \in Posted(c, "handle") : j < i
    /\ \A i, j \in Posted(c, "remove") : i = j

\* Once the acceptor has gone, the nil is behind every connection it posted.
Draining ==
    /\ serveLoop \in {"run", "post"} => \A i \in DOMAIN ops : ops[i] # Nil
    /\ serveLoop # "run" => acceptor = "exit"
    /\ \A j \in DOMAIN ops : ops[j] = Nil => \A c \in Conns : \A i \in Posted(c, "add") : i < j
    /\ serveLoop \in {"close", "wait", "done"} => \A c \in Conns : Posted(c, "add") = {}

\* Every accepted connection is on its way to the loop, a client, or closed.
AcceptedKnown ==
    /\ \A c \in Conns : peer[c] = "accepted" => accepted = c \/ Posted(c, "add") # {} \/ c \in clients \cup raw
    /\ serveLoop \in {"wait", "done"} => clients \subseteq raw

ServeInv == ServeTyped /\ AddedOnce /\ ReaderOrdered /\ Draining /\ AcceptedKnown
-----------------------------------------------------------------------------
LEMMA OpsDiffer ==
  \A c, d, a, b : /\ Op(a, c) = Op(b, d) <=> a = b /\ c = d
                  /\ Op(a, c).op = a /\ Op(a, c).conn = c
BY DEF Op

LEMMA OpTypes ==
  ASSUME NEW o \in OpRecs, o # Nil
  PROVE  o.op \in {"add", "handle", "remove"} /\ o.conn \in Conns /\ o = Op(o.op, o.conn)
BY DEF OpRecs, Op

\* What is posted comes last.
LEMMA Posting ==
  ASSUME ServeTyped, NEW o \in OpRecs, post(o)
  PROVE  /\ ops' \in Seq(OpRecs)
         /\ \E n \in Nat : /\ DOMAIN ops' = DOMAIN ops \cup {n} /\ ops'[n] = o /\ n \notin DOMAIN ops
                           /\ \A i \in DOMAIN ops : i \in Nat /\ i < n /\ ops'[i] = ops[i]
                           /\ \A c, op : Posted(c, op)' = IF o = Op(op, c) THEN Posted(c, op) \cup {n} ELSE Posted(c, op)
<1>1. ops \in Seq(OpRecs) /\ ops' = Append(ops, o)
  BY DEF ServeTyped, post
<1>2. PICK n : n = Len(ops) + 1
  OBVIOUS
<1>3. /\ ops' \in Seq(OpRecs) /\ n \in Nat /\ DOMAIN ops' = DOMAIN ops \cup {n} /\ ops'[n] = o /\ n \notin DOMAIN ops
      /\ \A i \in DOMAIN ops : i \in Nat /\ i < n /\ ops'[i] = ops[i]
  BY <1>1, <1>2
<1>4. \A c, op : Posted(c, op)' = IF o = Op(op, c) THEN Posted(c, op) \cup {n} ELSE Posted(c, op)
  BY <1>3 DEF Posted, Op
<1>. QED BY <1>3, <1>4

\* What is taken came first; the others move up.
LEMMA Taking ==
  ASSUME ServeTyped, ops # <<>>, ops' = Tail(ops)
  PROVE  /\ ops' \in Seq(OpRecs) /\ Head(ops) = ops[1] /\ 1 \in DOMAIN ops /\ Head(ops) \in OpRecs
         /\ \A i \in DOMAIN ops : i \in Nat /\ i >= 1
         /\ \A i \in DOMAIN ops' : i \in Nat /\ i + 1 \in DOMAIN ops /\ ops'[i] = ops[i + 1]
         /\ \A c, op : \A i \in Posted(c, op)' : i \in Nat /\ i >= 1 /\ i + 1 \in Posted(c, op)
         /\ \A c, op : \A i \in Posted(c, op) : i # 1 => i - 1 \in Posted(c, op)'
<1>1. PICK n : n = Len(ops)
  OBVIOUS
<1>2. ops \in Seq(OpRecs)
  BY DEF ServeTyped
<1>3. /\ ops' \in Seq(OpRecs) /\ Head(ops) = ops[1] /\ DOMAIN ops = 1..n /\ DOMAIN ops' = 1..(n - 1) /\ n \in Nat
      /\ 1 \in 1..n /\ Head(ops) \in OpRecs
      /\ \A i \in 1..(n - 1) : ops'[i] = ops[i + 1]
  BY <1>1, <1>2
<1>4. \A i \in 1..(n - 1) : i \in Nat /\ i >= 1 /\ i + 1 \in 1..n
  BY <1>3
<1>5. \A i \in 1..n : i \in Nat /\ i >= 1 /\ (i # 1 => i - 1 \in 1..(n - 1) /\ (i - 1) + 1 = i)
  BY <1>3
<1>6. ASSUME NEW c, NEW op, NEW i \in Posted(c, op)' PROVE i \in Nat /\ i >= 1 /\ i + 1 \in Posted(c, op)
  <2>1. i \in 1..(n - 1) /\ ops'[i] = Op(op, c)
    BY <1>3 DEF Posted, Op
  <2>. QED BY <1>3, <1>4, <2>1 DEF Posted
<1>7. ASSUME NEW c, NEW op, NEW i \in Posted(c, op), i # 1 PROVE i - 1 \in Posted(c, op)'
  <2>1. i \in 1..n /\ ops[i] = Op(op, c)
    BY <1>3 DEF Posted
  <2>2. i - 1 \in DOMAIN ops' /\ ops'[i - 1] = Op(op, c)
    BY <1>3, <1>5, <1>7, <2>1
  <2>. QED BY <2>2 DEF Posted, Op
<1>. QED BY <1>3, <1>4, <1>5, <1>6, <1>7

LEMMA ServeInitHolds == ServeInit => ServeInv
<1> SUFFICES ASSUME ServeInit PROVE ServeInv
  OBVIOUS
<1>1. ops = <<>> /\ \A c, op : Posted(c, op) = {}
  BY DEF ServeInit, Posted
<1>2. ServeTyped
  BY DEF ServeInit, ServeTyped
<1>3. AddedOnce /\ ReaderOrdered
  BY <1>1, ServeAssumption DEF ServeInit, AddedOnce, ReaderOrdered
<1>4. Draining /\ AcceptedKnown
  BY <1>1 DEF ServeInit, Draining, AcceptedKnown
<1>. QED BY <1>2, <1>3, <1>4 DEF ServeInv

\* What nobody posts or takes.
LEMMA PeersKeep ==
  ASSUME ServeInv, NEW c \in Conns, Peer(c) \/ Writer(c) \/ Decode(c)
  PROVE  ServeInv'
<1> USE DEF ServeInv
<1>1. UNCHANGED <<acceptor, accepted, serveLoop, ops, clients>> /\ raw \subseteq raw'
  BY DEF Peer, Dial, Write, PeerHangsUp, Writer, WriterEncodes, WriterDone, Decode, listener, conns, sockets
<1>2. \A d, op : Posted(d, op)' = Posted(d, op)
  BY <1>1 DEF Posted, Op
<1>3. /\ peer' \in [Conns -> {"idle", "dialed", "accepted", "closed"}]
      /\ \A d \in Conns : \/ peer'[d] = peer[d]
                          \/ peer[d] = "idle" /\ peer'[d] = "dialed"
                          \/ peer[d] = "accepted" /\ peer'[d] = "closed"
  BY DEF Peer, Dial, Write, PeerHangsUp, Writer, WriterEncodes, WriterDone, Decode, listener, conns, sockets, ServeTyped
<1>4. /\ readLoop' \in [Conns -> {"none", "decode", "handle", "remove", "exit"}]
      /\ \A d \in Conns : \/ readLoop'[d] = readLoop[d]
                          \/ readLoop[d] = "decode" /\ readLoop'[d] \in {"handle", "remove"}
  BY DEF Peer, Dial, Write, PeerHangsUp, Writer, WriterEncodes, WriterDone, Decode, listener, conns, sockets, ServeTyped
<1>5. ServeTyped'
  BY <1>1, <1>3, <1>4 DEF ServeTyped
<1>6. AddedOnce'
  BY <1>1, <1>2, <1>3, <1>4 DEF AddedOnce
<1>7. ReaderOrdered'
  BY <1>1, <1>2, <1>4 DEF ReaderOrdered
<1>8. Draining'
  BY <1>1, <1>2 DEF Draining, Nil, Op
<1>9. AcceptedKnown'
  BY <1>1, <1>2, <1>3 DEF AcceptedKnown
<1>. QED BY <1>5, <1>6, <1>7, <1>8, <1>9

LEMMA AcceptKeeps ==
  ASSUME ServeInv, Acceptor
  PROVE  ServeInv'
<1> USE DEF ServeInv
<1>1. CASE AcceptFails
  <2>1. /\ acceptor = "accept" /\ acceptor' = "exit" /\ UNCHANGED <<accepted, serveLoop, ops, peer, clients, readLoop, raw>>
    BY <1>1 DEF AcceptFails, sockets, conns
  <2>2. \A d, op : Posted(d, op)' = Posted(d, op)
    BY <2>1 DEF Posted, Op
  <2>. QED BY <2>1, <2>2 DEF ServeTyped, AddedOnce, ReaderOrdered, Draining, AcceptedKnown, Nil, Op
<1>2. ASSUME NEW c \in Conns, Accept(c) PROVE ServeInv'
  <2>1. /\ acceptor = "accept" /\ acceptor' = "post" /\ accepted' = c /\ peer[c] = "dialed"
        /\ peer' = [peer EXCEPT ![c] = "accepted"] /\ UNCHANGED <<serveLoop, ops, clients, readLoop, raw>>
    BY <1>2 DEF Accept, conns
  <2>2. \A d, op : Posted(d, op)' = Posted(d, op)
    BY <2>1 DEF Posted, Op
  <2>3. accepted = NoConn /\ c # NoConn
    BY <2>1, ServeAssumption DEF ServeTyped
  <2>4. peer'[c] = "accepted" /\ \A d \in Conns : d # c => peer'[d] = peer[d]
    BY <2>1 DEF ServeTyped
  <2>5. ServeTyped'
    BY <2>1, <2>3, <2>4 DEF ServeTyped
  <2>6. AddedOnce'
    BY <2>1, <2>2, <2>3, <2>4 DEF AddedOnce
  <2>7. ReaderOrdered' /\ Draining'
    BY <2>1, <2>2 DEF ReaderOrdered, Draining, Nil, Op
  <2>8. AcceptedKnown'
    BY <2>1, <2>2, <2>3, <2>4, ServeAssumption DEF AcceptedKnown
  <2>. QED BY <2>5, <2>6, <2>7, <2>8
<1>3. CASE AcceptorPosts
  <2>1. PICK c : c = accepted
    OBVIOUS
  <2>2. /\ acceptor = "post" /\ acceptor' = "accept" /\ accepted' = NoConn /\ UNCHANGED <<serveLoop, peer, clients, readLoop, raw>>
        /\ post(Op("add", c)) /\ serveLoop = "run"
    BY <1>3, <2>1 DEF AcceptorPosts, sockets, conns, Draining
  <2>3. CASE c \in Conns
    <3>1. Op("add", c) \in OpRecs /\ Op("add", c) # Nil
      BY <2>3 DEF OpRecs, Nil, Op
    <3>2. PICK n \in Nat : /\ DOMAIN ops' = DOMAIN ops \cup {n} /\ ops'[n] = Op("add", c) /\ n \notin DOMAIN ops
                           /\ \A i \in DOMAIN ops : i \in Nat /\ i < n /\ ops'[i] = ops[i]
                           /\ \A d, op : Posted(d, op)' = IF Op("add", c) = Op(op, d) THEN Posted(d, op) \cup {n} ELSE Posted(d, op)
      BY <2>2, <3>1, Posting
    <3>3. /\ Posted(c, "add")' = Posted(c, "add") \cup {n}
          /\ \A d, op : op # "add" \/ d # c => Posted(d, op)' = Posted(d, op)
      BY <3>2, OpsDiffer
    <3>4. ops' \in Seq(OpRecs)
      BY <2>2, <3>1, Posting
    <3>5. ServeTyped'
      BY <2>2, <3>4 DEF ServeTyped
    <3>6. AddedOnce'
      BY <2>1, <2>2, <2>3, <3>3, ServeAssumption DEF AddedOnce
    <3>7. ReaderOrdered'
      BY <2>2, <3>3 DEF ReaderOrdered
    <3>8. Draining'
      BY <2>2, <3>1, <3>2 DEF Draining, Nil, Op
    <3>9. AcceptedKnown'
      BY <2>1, <2>2, <3>3 DEF AcceptedKnown
    <3>. QED BY <3>5, <3>6, <3>7, <3>8, <3>9
  <2>4. c \in Conns
    BY <2>1, <2>2 DEF ServeTyped
  <2>. QED BY <2>3, <2>4
<1>. QED BY <1>1, <1>2, <1>3 DEF Acceptor

LEMMA ReaderPostsKeeps ==
  ASSUME ServeInv, NEW c \in Conns, ReaderPosts(c)
  PROVE  ServeInv'
<1> USE DEF ServeInv
<1>1. PICK op : op = readLoop[c]
  OBVIOUS
<1>2. /\ op \in {"handle", "remove"} /\ post(Op(op, c))
      /\ readLoop' = [readLoop EXCEPT ![c] = IF op = "handle" THEN "decode" ELSE "exit"]
      /\ UNCHANGED <<acceptor, accepted, serveLoop, peer, clients, raw>>
  BY <1>1 DEF ReaderPosts, listener, sockets
<1>3. Op(op, c) \in OpRecs /\ Op(op, c) # Nil
  BY <1>2 DEF OpRecs, Nil, Op
<1>4. PICK n \in Nat : /\ DOMAIN ops' = DOMAIN ops \cup {n} /\ ops'[n] = Op(op, c) /\ n \notin DOMAIN ops
                       /\ \A i \in DOMAIN ops : i \in Nat /\ i < n /\ ops'[i] = ops[i]
                       /\ \A d, o : Posted(d, o)' = IF Op(op, c) = Op(o, d) THEN Posted(d, o) \cup {n} ELSE Posted(d, o)
  BY <1>2, <1>3, Posting
<1>5. /\ Posted(c, op)' = Posted(c, op) \cup {n}
      /\ \A d, o : o # op \/ d # c => Posted(d, o)' = Posted(d, o)
  BY <1>4, OpsDiffer
<1>6. ops' \in Seq(OpRecs)
  BY <1>2, <1>3, Posting
<1>7. /\ readLoop' \in [Conns -> {"none", "decode", "handle", "remove", "exit"}]
      /\ readLoop'[c] = IF op = "handle" THEN "decode" ELSE "exit"
      /\ \A d \in Conns : d # c => readLoop'[d] = readLoop[d]
  BY <1>2 DEF ServeTyped
<1>8. ServeTyped'
  BY <1>2, <1>6, <1>7 DEF ServeTyped
<1>9. AddedOnce'
  BY <1>1, <1>2, <1>5, <1>7 DEF AddedOnce
<1>10. ReaderOrdered'
  <2>1. c \in clients /\ Posted(c, "remove") = {}
    BY <1>1, <1>2 DEF ReaderOrdered
  <2>2. \A o, i : i \in Posted(c, o) => i < n
    BY <1>4 DEF Posted
  <2>3. ASSUME NEW d \in Conns
        PROVE  /\ readLoop'[d] = "none" => Posted(d, "handle")' = {} /\ Posted(d, "remove")' = {}
               /\ readLoop'[d] \in {"decode", "handle", "remove"} => d \in clients /\ Posted(d, "remove")' = {}
               /\ Posted(d, "handle")' \cup Posted(d, "remove")' # {} => d \in clients
               /\ \A i \in Posted(d, "remove")', j \in Posted(d, "handle")' : j < i
               /\ \A i, j \in Posted(d, "remove")' : i = j
    <3>1. CASE d # c
      BY <1>5, <1>7, <3>1 DEF ReaderOrdered
    <3>2. CASE d = c /\ op = "handle"
      <4>1. Posted(c, "remove")' = {} /\ readLoop'[c] = "decode"
        BY <1>5, <1>7, <2>1, <3>2
      <4>. QED BY <2>1, <3>2, <4>1
    <3>3. CASE d = c /\ op = "remove"
      <4>1. Posted(c, "remove")' = {n} /\ readLoop'[c] = "exit" /\ Posted(c, "handle")' = Posted(c, "handle")
        BY <1>5, <1>7, <2>1, <3>3
      <4>. QED BY <2>1, <2>2, <3>3, <4>1
    <3>. QED BY <1>2, <3>1, <3>2, <3>3
  <2>. QED BY <1>2, <2>3 DEF ReaderOrdered
<1>11. Draining'
  BY <1>2, <1>3, <1>4, <1>5 DEF Draining, Nil, Op
<1>12. AcceptedKnown'
  BY <1>2, <1>5 DEF AcceptedKnown
<1>. QED BY <1>8, <1>9, <1>10, <1>11, <1>12

\* The loop runs what came first.
LEMMA LoopKeeps ==
  ASSUME ServeInv, serveLoop \in {"run", "drain"}, ops # <<>>, ops' = Tail(ops), Head(ops) # Nil, LoopRuns(Head(ops)),
         UNCHANGED <<acceptor, accepted, serveLoop, peer>>
  PROVE  ServeInv'
<1> USE DEF ServeInv
<1>1. PICK o : o = Head(ops)
  OBVIOUS
<1>2. /\ ops' \in Seq(OpRecs) /\ o = ops[1] /\ 1 \in DOMAIN ops /\ o \in OpRecs
      /\ \A i \in DOMAIN ops : i \in Nat /\ i >= 1
      /\ \A i \in DOMAIN ops' : i \in Nat /\ i + 1 \in DOMAIN ops /\ ops'[i] = ops[i + 1]
      /\ \A c, op : \A i \in Posted(c, op)' : i \in Nat /\ i >= 1 /\ i + 1 \in Posted(c, op)
      /\ \A c, op : \A i \in Posted(c, op) : i # 1 => i - 1 \in Posted(c, op)'
  BY <1>1, Taking
<1>3. PICK op \in {"add", "handle", "remove"}, c \in Conns : o = Op(op, c) /\ o.op = op /\ o.conn = c
  <2>1. o # Nil
    BY <1>1
  <2>. QED BY <1>2, <2>1, OpTypes
<1>4. 1 \in Posted(c, op) /\ \A d, b : 1 \in Posted(d, b) => d = c /\ b = op
  <2>1. ops[1] = Op(op, c) /\ 1 \in DOMAIN ops
    BY <1>2, <1>3
  <2>2. 1 \in Posted(c, op)
    BY <2>1 DEF Posted
  <2>3. ASSUME NEW d, NEW b, 1 \in Posted(d, b) PROVE d = c /\ b = op
    <3>1. ops[1] = Op(b, d)
      BY <2>3 DEF Posted
    <3>2. Op(b, d) = Op(op, c)
      BY <2>1, <3>1
    <3>. QED BY <3>2, OpsDiffer
  <2>. QED BY <2>2, <2>3
<1>5. \A d, b : Posted(d, b) = {} => Posted(d, b)' = {}
  BY <1>2
<1>6. \A d, b : (d # c \/ b # op) /\ Posted(d, b) # {} => Posted(d, b)' # {}
  BY <1>2, <1>4
<1>7. ASSUME NEW d, NEW b, \A i, j \in Posted(d, b) : i = j PROVE \A i, j \in Posted(d, b)' : i = j
  BY <1>2, <1>7
<1>8. ASSUME NEW d, \A i \in Posted(d, "remove"), j \in Posted(d, "handle") : j < i
      PROVE  \A i \in Posted(d, "remove")', j \in Posted(d, "handle")' : j < i
  BY <1>2, <1>8
<1>9. Draining'
  <2>1. serveLoop' \in {"run", "post"} => \A i \in DOMAIN ops' : ops'[i] # Nil
    BY <1>2 DEF Draining
  <2>2. ASSUME NEW j \in DOMAIN ops', ops'[j] = Nil, NEW d \in Conns, NEW i \in Posted(d, "add")' PROVE i < j
    <3>1. i + 1 \in Posted(d, "add") /\ j + 1 \in DOMAIN ops /\ ops[j + 1] = Nil /\ i \in Nat /\ j \in Nat
      BY <1>2, <2>2
    <3>2. i + 1 < j + 1
      BY <3>1 DEF Draining
    <3>. QED BY <3>1, <3>2
  <2>. QED BY <2>1, <2>2 DEF Draining, Nil, Op
<1>10. CASE op = "add"
  <2>1. clients' = clients \cup {c} /\ readLoop' = [readLoop EXCEPT ![c] = "decode"] /\ UNCHANGED raw
    BY <1>1, <1>3, <1>10 DEF LoopRuns, addConn
  <2>2. /\ readLoop' \in [Conns -> {"none", "decode", "handle", "remove", "exit"}]
        /\ readLoop'[c] = "decode" /\ \A d \in Conns : d # c => readLoop'[d] = readLoop[d]
    BY <2>1 DEF ServeTyped
  <2>3. readLoop[c] = "none" /\ accepted # c /\ peer[c] \notin {"idle", "dialed"} /\ \A i \in Posted(c, "add") : i = 1
    BY <1>4, <1>10 DEF AddedOnce
  <2>4. Posted(c, "add")' = {}
    BY <1>2, <2>3
  <2>5. Posted(c, "handle")' = {} /\ Posted(c, "remove")' = {}
    BY <1>5, <2>3 DEF ReaderOrdered
  <2>6. ServeTyped'
    BY <1>2, <2>1, <2>2 DEF ServeTyped
  <2>7. AddedOnce'
    BY <1>5, <1>7, <2>2, <2>3, <2>4 DEF AddedOnce
  <2>8. ASSUME NEW d \in Conns
        PROVE  /\ readLoop'[d] = "none" => Posted(d, "handle")' = {} /\ Posted(d, "remove")' = {}
               /\ readLoop'[d] \in {"decode", "handle", "remove"} => d \in clients' /\ Posted(d, "remove")' = {}
               /\ Posted(d, "handle")' \cup Posted(d, "remove")' # {} => d \in clients'
               /\ \A i \in Posted(d, "remove")', j \in Posted(d, "handle")' : j < i
               /\ \A i, j \in Posted(d, "remove")' : i = j
    <3>1. CASE d = c
      BY <2>1, <2>2, <2>5, <3>1
    <3>2. CASE d # c
      BY <1>5, <1>7, <1>8, <2>1, <2>2, <3>2 DEF ReaderOrdered
    <3>. QED BY <3>1, <3>2
  <2>9. ReaderOrdered'
    BY <2>8 DEF ReaderOrdered
  <2>10. AcceptedKnown'
    BY <1>6, <2>1 DEF AcceptedKnown
  <2>. QED BY <1>9, <2>6, <2>7, <2>9, <2>10
<1>11. CASE op = "handle"
  <2>1. UNCHANGED <<clients, readLoop, raw>>
    BY <1>1, <1>3, <1>11 DEF LoopRuns, handle
  <2>2. ServeTyped'
    BY <1>2, <2>1 DEF ServeTyped
  <2>3. AddedOnce'
    BY <1>5, <1>7, <2>1 DEF AddedOnce
  <2>4. ReaderOrdered'
    BY <1>5, <1>7, <1>8, <2>1 DEF ReaderOrdered
  <2>5. AcceptedKnown'
    BY <1>6, <1>11, <2>1 DEF AcceptedKnown
  <2>. QED BY <1>9, <2>2, <2>3, <2>4, <2>5
<1>12. CASE op = "remove"
  <2>1. c \in clients /\ readLoop[c] = "exit" /\ (\A i \in Posted(c, "remove") : i = 1) /\ \A j \in Posted(c, "handle") : j < 1
    BY <1>4, <1>12 DEF ReaderOrdered, ServeTyped
  <2>2. clients' = clients \ {c} /\ raw' = raw \cup {c} /\ UNCHANGED readLoop
    BY <1>1, <1>3, <1>12, <2>1 DEF LoopRuns, removeConn
  <2>3. Posted(c, "remove")' = {}
    BY <1>2, <2>1
  <2>4. Posted(c, "handle") = {}
    BY <1>2, <2>1 DEF Posted
  <2>5. Posted(c, "handle")' = {}
    BY <1>5, <2>4
  <2>6. ServeTyped'
    BY <1>2, <2>2 DEF ServeTyped
  <2>7. AddedOnce'
    BY <1>5, <1>7, <2>2 DEF AddedOnce
  <2>8. ASSUME NEW d \in Conns
        PROVE  /\ readLoop'[d] = "none" => Posted(d, "handle")' = {} /\ Posted(d, "remove")' = {}
               /\ readLoop'[d] \in {"decode", "handle", "remove"} => d \in clients' /\ Posted(d, "remove")' = {}
               /\ Posted(d, "handle")' \cup Posted(d, "remove")' # {} => d \in clients'
               /\ \A i \in Posted(d, "remove")', j \in Posted(d, "handle")' : j < i
               /\ \A i, j \in Posted(d, "remove")' : i = j
    <3>1. CASE d = c
      BY <2>1, <2>2, <2>3, <2>5, <3>1
    <3>2. CASE d # c
      BY <1>5, <1>7, <1>8, <2>2, <3>2 DEF ReaderOrdered
    <3>. QED BY <3>1, <3>2
  <2>9. ReaderOrdered'
    BY <2>8 DEF ReaderOrdered
  <2>10. AcceptedKnown'
    BY <1>6, <1>12, <2>2 DEF AcceptedKnown
  <2>. QED BY <1>9, <2>6, <2>7, <2>9, <2>10
<1>. QED BY <1>3, <1>10, <1>11, <1>12

LEMMA ServeKeeps ==
  ASSUME ServeInv, Serve
  PROVE  ServeInv'
<1> USE DEF ServeInv
<1>1. CASE RunOp
  <2>1. Head(ops) \in OpRecs /\ Head(ops) = ops[1] /\ 1 \in DOMAIN ops
    BY <1>1, Taking DEF RunOp
  <2>2. Head(ops) # Nil
    BY <1>1, <2>1 DEF RunOp, Draining
  <2>. QED BY <1>1, <2>2, LoopKeeps DEF RunOp, listener, sockets
<1>2. CASE SeeAcceptErr \/ CloseClients \/ Return
  <2>1. UNCHANGED <<acceptor, accepted, ops, peer, clients, readLoop>>
    BY <1>2 DEF SeeAcceptErr, CloseClients, Return, listener, sockets, conns
  <2>2. \A d, op : Posted(d, op)' = Posted(d, op)
    BY <2>1 DEF Posted, Op
  <2>3. ServeTyped' /\ AddedOnce' /\ ReaderOrdered'
    BY <1>2, <2>1, <2>2 DEF SeeAcceptErr, CloseClients, Return, ServeTyped, AddedOnce, ReaderOrdered
  <2>4. Draining' /\ AcceptedKnown'
    BY <1>2, <2>1, <2>2 DEF SeeAcceptErr, CloseClients, Return, Draining, AcceptedKnown, conns, Nil, Op
  <2>. QED BY <2>3, <2>4
<1>3. CASE PostNil
  <2>1. /\ serveLoop = "post" /\ post(Nil) /\ serveLoop' = "drain" /\ Nil \in OpRecs
        /\ UNCHANGED <<acceptor, accepted, peer, clients, readLoop, raw>>
    BY <1>3 DEF PostNil, listener, sockets, conns, OpRecs
  <2>2. PICK n \in Nat : /\ DOMAIN ops' = DOMAIN ops \cup {n} /\ ops'[n] = Nil /\ n \notin DOMAIN ops
                         /\ \A i \in DOMAIN ops : i \in Nat /\ i < n /\ ops'[i] = ops[i]
                         /\ \A d, o : Posted(d, o)' = IF Nil = Op(o, d) THEN Posted(d, o) \cup {n} ELSE Posted(d, o)
    BY <2>1, Posting
  <2>3. ops' \in Seq(OpRecs)
    BY <2>1, Posting
  <2>4. \A d, o : o # "nil" => Posted(d, o)' = Posted(d, o)
    BY <2>2, OpsDiffer DEF Nil
  <2>5. ServeTyped' /\ AddedOnce' /\ ReaderOrdered' /\ AcceptedKnown'
    BY <2>1, <2>3, <2>4 DEF ServeTyped, AddedOnce, ReaderOrdered, AcceptedKnown
  <2>6. Draining'
    <3>1. \A d : \A i \in Posted(d, "add") : i < n
      BY <2>2 DEF Posted
    <3>2. \A j \in DOMAIN ops : ops[j] # Nil
      BY <2>1 DEF Draining
    <3>3. \A j \in DOMAIN ops' : ops'[j] = Nil => j = n
      BY <2>2, <3>2
    <3>. QED BY <2>1, <2>4, <3>1, <3>3 DEF Draining, Nil, Op
  <2>. QED BY <2>5, <2>6
<1>4. CASE Drain /\ Head(ops) # Nil
  BY <1>4, LoopKeeps DEF Drain, listener, sockets
<1>5. CASE Drain /\ Head(ops) = Nil
  <2>1. /\ serveLoop = "drain" /\ ops # <<>> /\ ops' = Tail(ops) /\ serveLoop' = "close"
        /\ UNCHANGED <<acceptor, accepted, peer, clients, readLoop, raw>>
    BY <1>5 DEF Drain, listener, sockets, conns
  <2>2. /\ ops' \in Seq(OpRecs) /\ ops[1] = Nil /\ 1 \in DOMAIN ops
        /\ \A i \in DOMAIN ops : i \in Nat /\ i >= 1
        /\ \A c, op : \A i \in Posted(c, op)' : i \in Nat /\ i >= 1 /\ i + 1 \in Posted(c, op)
    BY <1>5, <2>1, Taking
  <2>3. \A c \in Conns : Posted(c, "add") = {}
    <3>1. \A c \in Conns : \A i \in Posted(c, "add") : i < 1 /\ i \in DOMAIN ops
      BY <2>2 DEF Draining, Posted
    <3>. QED BY <2>2, <3>1
  <2>4. \A c \in Conns : \A op : Posted(c, op) = {} => Posted(c, op)' = {}
    BY <2>2
  <2>5. ServeTyped' /\ AddedOnce'
    BY <2>1, <2>2, <2>3, <2>4 DEF ServeTyped, AddedOnce
  <2>6. ReaderOrdered'
    <3>1. ASSUME NEW c \in Conns, NEW i \in Posted(c, "remove")', NEW j \in Posted(c, "handle")' PROVE j < i
      <4>1. i \in Nat /\ j \in Nat /\ j + 1 < i + 1
        BY <2>2 DEF ReaderOrdered
      <4>. QED BY <4>1
    <3>2. ASSUME NEW c \in Conns, NEW i \in Posted(c, "remove")', NEW j \in Posted(c, "remove")' PROVE i = j
      <4>1. i \in Nat /\ j \in Nat /\ j + 1 = i + 1
        BY <2>2 DEF ReaderOrdered
      <4>. QED BY <4>1
    <3>. QED BY <2>1, <2>4, <3>1, <3>2 DEF ReaderOrdered
  <2>7. Draining'
    BY <2>1, <2>3, <2>4 DEF Draining, Nil, Op
  <2>8. AcceptedKnown'
    BY <2>1, <2>3 DEF AcceptedKnown
  <2>. QED BY <2>5, <2>6, <2>7, <2>8
<1>. QED BY <1>1, <1>2, <1>3, <1>4, <1>5 DEF Serve

LEMMA ServeStep == ServeInv /\ [ServeNext]_serveVars => ServeInv'
<1> SUFFICES ASSUME ServeInv, [ServeNext]_serveVars PROVE ServeInv'
  OBVIOUS
<1>1. CASE Cancel \/ CloseListener \/ UNCHANGED serveVars
  <2>1. UNCHANGED <<acceptor, accepted, serveLoop, ops, peer, clients, readLoop, raw>>
    BY <1>1 DEF Cancel, CloseListener, serveVars, sockets, conns
  <2>2. \A d, op : Posted(d, op)' = Posted(d, op)
    BY <2>1 DEF Posted, Op
  <2>3. ServeTyped' /\ AddedOnce' /\ ReaderOrdered'
    BY <2>1, <2>2 DEF ServeInv, ServeTyped, AddedOnce, ReaderOrdered
  <2>4. Draining' /\ AcceptedKnown'
    BY <2>1, <2>2 DEF ServeInv, Draining, AcceptedKnown, Nil, Op
  <2>. QED BY <2>3, <2>4 DEF ServeInv
<1>. QED BY <1>1, PeersKeep, AcceptKeeps, ReaderPostsKeeps, ServeKeeps DEF ServeNext, Reader

\* The state of the goroutines, for any number of connections and frames and
\* any capacity of the channel.
THEOREM GoroutinesInvariant == ServeSpec => []ServeInv
BY ServeInitHolds, ServeStep, PTL DEF ServeSpec

\* The loop handles a connection's frames between its beginning and its end.
THEOREM FramesStayInOrder == ServeSpec => []FramesInOrder
<1>1. ServeInv => FramesInOrder
  <2> SUFFICES ASSUME ServeInv, NEW c \in Conns
               PROVE  /\ \A i \in Posted(c, "handle") : c \in clients \/ \E j \in Posted(c, "add") : j < i
                      /\ \A i \in Posted(c, "remove"), j \in Posted(c, "handle") : j < i
                      /\ Cardinality(Posted(c, "remove")) <= 1
                      /\ Posted(c, "remove") # {} => c \in clients
    BY DEF FramesInOrder
  <2>1. PICK S : S = Posted(c, "remove")
    OBVIOUS
  <2>2. \A i, j \in S : i = j
    BY <2>1 DEF ServeInv, ReaderOrdered
  <2>3. Cardinality(S) <= 1
    <3>1. CASE S = {}
      BY <3>1, FS_EmptySet
    <3>2. CASE S # {}
      <4>1. PICK i \in S : S = {i}
        BY <2>2, <3>2
      <4>. QED BY <4>1, FS_Singleton
    <3>. QED BY <3>1, <3>2
  <2>. QED BY <2>1, <2>3 DEF ServeInv, ReaderOrdered
<1>. QED BY <1>1, GoroutinesInvariant, PTL

\* When Serve waits for the goroutines, every connection it accepted is closed.
THEOREM ShutdownClosesEveryConnection == ServeSpec => ShutdownClosesAll
<1>1. ServeInv /\ ServeInv' /\ [ServeNext]_serveVars =>
        [serveLoop' \in {"wait", "done"} => \A c \in Conns : peer'[c] = "accepted" => c \in raw']_serveVars
  <2> SUFFICES ASSUME ServeInv', serveLoop' \in {"wait", "done"}, NEW c \in Conns, peer'[c] = "accepted"
               PROVE  c \in raw'
    OBVIOUS
  <2>1. accepted' = NoConn /\ Posted(c, "add")' = {} /\ clients' \subseteq raw'
    BY DEF ServeInv, ServeTyped, Draining, AcceptedKnown
  <2>. QED BY <2>1, ServeAssumption DEF ServeInv, AcceptedKnown
<1>. QED BY <1>1, GoroutinesInvariant, PTL DEF ServeSpec, ShutdownClosesAll
-----------------------------------------------------------------------------
(* The client.                                                             *)

(***************************************************************************)
(* The inductive invariant.  That a reply finds its own call needs the     *)
(* whole way of the number: minted once, carried by one call's frame, at   *)
(* one place of the table.                                                 *)
(***************************************************************************)
Minters == {c \in Calls : pc[c] # "start"}
SeqsMinted == seq = Cardinality(Minters)
SeqsDistinct == \A c, d \in Calls : seqOf[c] = seqOf[d] /\ pc[c] # "start" => c = d

\* A frame carries the number of its call, which has registered.
FramesSent ==
    \A f \in broker \cup inbox :
        seqOf[f.call] = f.seq /\ pc[f.call] \notin {"start", "register", "encode"}

\* The reader holds the reply of the call whose channel it took, and took
\* the entry of that call with it.
ReaderHolds ==
    IF reader = "deliver"
    THEN /\ reply = taken /\ taken \in Calls
         /\ pc[taken] \notin {"start", "register"} /\ pending[seqOf[taken]] = None
    ELSE reply = None /\ taken = None

\* A channel holds nothing but the reply to its call, once it has registered.
ChansOwn ==
    \A c \in Calls : /\ chan[c] \in {c, None, Closed}
                     /\ pc[c] \in {"start", "register"} => chan[c] = None

CallInv == SeqsMinted /\ SeqsDistinct /\ FramesSent /\ ReaderHolds /\ ChansOwn /\ OwnReply /\ NoLeftovers
IInv == TypeOK /\ CallInv

USE DEF Seqs, Frames, Returned
-----------------------------------------------------------------------------
LEMMA CallCount == Cardinality(Calls) \in Nat
  BY CallsAssumption, FS_CardinalityType

LEMMA Initial == Init => IInv
<1>. SUFFICES ASSUME Init PROVE IInv
  OBVIOUS
<1>. USE CallsAssumption, CallCount DEF Init
<1>1. TypeOK
  BY DEF TypeOK
<1>2. SeqsMinted
  <2>1. Minters = {}
    BY DEF Minters
  <2>. QED BY <2>1, FS_EmptySet DEF SeqsMinted
<1>3. SeqsDistinct /\ FramesSent /\ ReaderHolds /\ ChansOwn /\ OwnReply /\ NoLeftovers
  BY DEF SeqsDistinct, FramesSent, ReaderHolds, ChansOwn, OwnReply, NoLeftovers
<1>. QED BY <1>1, <1>2, <1>3 DEF IInv, CallInv

\* The number of a call that has one is the index of an entry of the table.
LEMMA NumberInTable ==
  ASSUME TypeOK, NEW c \in Calls, pc[c] # "start"
  PROVE  seqOf[c] \in Seqs
  BY CallCount DEF TypeOK

\* Only minting moves a call on from "start".
LEMMA SameMinters ==
  ASSUME SeqsMinted, UNCHANGED seq, Minters' = Minters
  PROVE  SeqsMinted'
  BY DEF SeqsMinted

LEMMA MintStep ==
  ASSUME IInv, NEW c \in Calls, Mint(c)
  PROVE  IInv'
<1>. USE CallsAssumption, CallCount DEF IInv, CallInv, Mint, Minted, Step, calls, wire, loop
<1>1. SeqsMinted' /\ seq' \in 0..Cardinality(Calls)
  <2>1. Minters' = Minters \cup {c} /\ c \notin Minters /\ Minters' \subseteq Calls
    BY DEF Minters, TypeOK
  <2>2. IsFiniteSet(Minters)
    BY FS_Subset DEF Minters
  <2>3. Cardinality(Minters') = Cardinality(Minters) + 1
    BY <2>1, <2>2, FS_AddElement
  <2>4. Cardinality(Minters') <= Cardinality(Calls)
    BY <2>1, FS_Subset
  <2>. QED BY <2>3, <2>4 DEF SeqsMinted, TypeOK
<1>2. TypeOK'
  BY <1>1 DEF TypeOK
<1>3. SeqsDistinct'
  BY DEF SeqsDistinct, TypeOK
<1>4. FramesSent' /\ ReaderHolds'
  BY DEF FramesSent, ReaderHolds, TypeOK
<1>5. ChansOwn' /\ OwnReply' /\ NoLeftovers'
  BY DEF ChansOwn, OwnReply, NoLeftovers, TypeOK
<1>. QED BY <1>1, <1>2, <1>3, <1>4, <1>5

LEMMA RegisterStep ==
  ASSUME IInv, NEW c \in Calls, Register(c)
  PROVE  IInv'
<1>. USE CallsAssumption, CallCount DEF IInv, CallInv, Register, Step, calls, wire, loop
<1>0. seqOf[c] \in Seqs /\ pc[c] = "register"
  BY NumberInTable
<1>1. TypeOK'
  BY <1>0 DEF TypeOK
<1>2. SeqsMinted' /\ SeqsDistinct'
  BY SameMinters DEF Minters, SeqsDistinct, TypeOK
<1>3. FramesSent' /\ ReaderHolds'
  BY DEF FramesSent, ReaderHolds, SeqsDistinct, TypeOK
<1>4. ChansOwn' /\ OwnReply'
  BY DEF ChansOwn, OwnReply, TypeOK
<1>5. NoLeftovers'
  <2>. SUFFICES ASSUME NEW s \in Seqs, pending'[s] # None
       PROVE /\ seqOf'[pending'[s]] = s /\ pc'[pending'[s]] \in {"encode", "wait"}
             /\ chan'[pending'[s]] = None
    BY DEF NoLeftovers
  <2>1. CASE s = seqOf[c]
    BY <1>0, <2>1 DEF ChansOwn, TypeOK
  <2>2. CASE s # seqOf[c]
    BY <1>0, <2>2 DEF NoLeftovers, TypeOK
  <2>. QED BY <2>1, <2>2
<1>. QED BY <1>1, <1>2, <1>3, <1>4, <1>5

\* A call that has its number takes a step and keeps the number.
LEMMA StepTyped ==
  ASSUME TypeOK, NEW c \in Calls, NEW from \in {"register", "encode", "wait"},
         NEW to \in {"encode", "wait"} \cup Returned, Step(c, from, to), seqOf' = seqOf
  PROVE  /\ pc' \in [Calls -> {"start", "register", "encode", "wait"} \cup Returned]
         /\ \A d \in Calls : (seqOf'[d] = 0) <=> (pc'[d] = "start")
<1>1. /\ pc \in [Calls -> {"start", "register", "encode", "wait"} \cup Returned]
      /\ \A d \in Calls : (seqOf[d] = 0) <=> (pc[d] = "start")
  BY DEF TypeOK
<1>2. pc[c] = from /\ pc' = [pc EXCEPT ![c] = to] /\ seqOf' = seqOf
  BY DEF Step
<1>. QED BY <1>1, <1>2 DEF Returned

LEMMA EncodeStep ==
  ASSUME IInv, NEW c \in Calls, Encode(c)
  PROVE  IInv'
<1>. USE CallsAssumption, CallCount DEF IInv, CallInv, Encode, Step, Forget, calls, wire, loop
<1>0. seqOf[c] \in Seqs /\ pc[c] = "encode"
  BY NumberInTable
<1>1. TypeOK'
  <2>1. CASE conn
    <3>1. broker' \subseteq Frames
      BY <1>0, <2>1 DEF TypeOK, Frames
    <3>2. Step(c, "encode", "wait") /\ seqOf' = seqOf
      BY <2>1
    <3>3. /\ pc' \in [Calls -> {"start", "register", "encode", "wait"} \cup Returned]
          /\ \A d \in Calls : (seqOf'[d] = 0) <=> (pc'[d] = "start")
      BY <3>2, StepTyped
    <3>4. UNCHANGED <<seq, seqOf, got, pending, chan, inbox, conn, reader, reply, taken>>
      BY <2>1
    <3>. QED BY <3>1, <3>3, <3>4 DEF TypeOK
  <2>2. CASE ~conn
    <3>1. pending' \in [Seqs -> Calls \cup {None}]
      BY <1>0, <2>2 DEF TypeOK
    <3>2. Step(c, "encode", "failed") /\ seqOf' = seqOf
      BY <2>2
    <3>3. /\ pc' \in [Calls -> {"start", "register", "encode", "wait"} \cup Returned]
          /\ \A d \in Calls : (seqOf'[d] = 0) <=> (pc'[d] = "start")
      BY <3>2, StepTyped DEF Returned
    <3>4. UNCHANGED <<seq, seqOf, got, chan, inbox, conn, reader, reply, taken, broker>>
      BY <2>2
    <3>. QED BY <3>1, <3>3, <3>4 DEF TypeOK
  <2>. QED BY <2>1, <2>2
<1>2. SeqsMinted' /\ SeqsDistinct'
  BY SameMinters DEF Minters, SeqsDistinct, TypeOK
<1>3. FramesSent' /\ ReaderHolds'
  BY DEF FramesSent, ReaderHolds, TypeOK
<1>4. ChansOwn' /\ OwnReply'
  BY DEF ChansOwn, OwnReply, TypeOK
<1>5. NoLeftovers'
  <2>. SUFFICES ASSUME NEW s \in Seqs, pending'[s] # None
       PROVE /\ seqOf'[pending'[s]] = s /\ pc'[pending'[s]] \in {"encode", "wait"}
             /\ chan'[pending'[s]] = None
    BY DEF NoLeftovers
  <2>1. pending[s] = pending'[s] /\ pending[s] \in Calls
    BY <1>0 DEF TypeOK
  <2>2. seqOf[pending[s]] = s /\ pc[pending[s]] \in {"encode", "wait"} /\ chan[pending[s]] = None
    BY <2>1 DEF NoLeftovers
  <2>3. CASE conn
    BY <2>1, <2>2, <2>3 DEF TypeOK
  <2>4. CASE ~conn
    BY <1>0, <2>1, <2>2, <2>4 DEF TypeOK
  <2>. QED BY <2>3, <2>4
<1>. QED BY <1>1, <1>2, <1>3, <1>4, <1>5

LEMMA ReceiveStep ==
  ASSUME IInv, NEW c \in Calls, Receive(c)
  PROVE  IInv'
<1>. USE CallsAssumption, CallCount DEF IInv, CallInv, Receive, Step, calls, wire, loop
<1>1. TypeOK'
  <2>1. /\ pc' \in [Calls -> {"start", "register", "encode", "wait"} \cup Returned]
        /\ \A d \in Calls : (seqOf'[d] = 0) <=> (pc'[d] = "start")
    BY StepTyped DEF Returned
  <2>2. /\ UNCHANGED <<seq, seqOf, pending, broker, inbox, conn, reader, reply, taken>>
        /\ got' \in [Calls -> Calls \cup {None}] /\ chan' \in [Calls -> Calls \cup {None, Closed}]
    BY DEF TypeOK
  <2>. QED BY <2>1, <2>2 DEF TypeOK
<1>2. SeqsMinted' /\ SeqsDistinct'
  BY SameMinters DEF Minters, SeqsDistinct, TypeOK
<1>3. FramesSent' /\ ReaderHolds'
  BY DEF FramesSent, ReaderHolds, TypeOK
<1>4. ChansOwn' /\ OwnReply'
  <2>1. chan[c] \in Calls => chan[c] = c
    BY DEF ChansOwn
  <2>2. ChansOwn'
    BY DEF ChansOwn, TypeOK
  <2>3. CASE chan[c] = Closed
    BY <2>2, <2>3 DEF OwnReply, TypeOK
  <2>4. CASE chan[c] \in Calls
    BY <2>1, <2>2, <2>4 DEF OwnReply, TypeOK
  <2>. QED BY <2>3, <2>4
<1>5. NoLeftovers'
  <2>. SUFFICES ASSUME NEW s \in Seqs, pending'[s] # None
       PROVE /\ seqOf'[pending'[s]] = s /\ pc'[pending'[s]] \in {"encode", "wait"}
             /\ chan'[pending'[s]] = None
    BY DEF NoLeftovers
  <2>1. pending[s] \in Calls /\ pending[s] # None
    BY DEF TypeOK
  <2>2. seqOf[pending[s]] = s /\ pc[pending[s]] \in {"encode", "wait"} /\ chan[pending[s]] = None
    BY <2>1 DEF NoLeftovers
  <2>3. pending[s] # c
    BY <2>2
  <2>. QED BY <2>1, <2>2, <2>3 DEF TypeOK
<1>. QED BY <1>1, <1>2, <1>3, <1>4, <1>5

LEMMA ExpireStep ==
  ASSUME IInv, NEW c \in Calls, Expire(c)
  PROVE  IInv'
<1>. USE CallsAssumption, CallCount DEF IInv, CallInv, Expire, Step, Forget, calls, wire, loop
<1>1. TypeOK'
  BY DEF TypeOK
<1>2. SeqsMinted' /\ SeqsDistinct'
  BY SameMinters DEF Minters, SeqsDistinct, TypeOK
<1>3. FramesSent' /\ ReaderHolds'
  BY DEF FramesSent, ReaderHolds, TypeOK
<1>4. ChansOwn' /\ OwnReply' /\ NoLeftovers'
  BY DEF ChansOwn, OwnReply, NoLeftovers, TypeOK
<1>. QED BY <1>1, <1>2, <1>3, <1>4

\* What happens to the frames on the wire leaves the client alone.
LEMMA WireStep ==
  ASSUME IInv, UNCHANGED <<calls, pending, chan, loop>>,
         conn' \in BOOLEAN, broker' \subseteq broker, inbox' \subseteq broker \cup inbox
  PROVE  IInv'
<1>. USE CallsAssumption, CallCount DEF IInv, CallInv, calls, loop
<1>1. TypeOK' /\ FramesSent'
  BY DEF TypeOK, FramesSent
<1>2. SeqsMinted' /\ SeqsDistinct' /\ ReaderHolds'
  BY SameMinters DEF Minters, SeqsDistinct, ReaderHolds
<1>3. ChansOwn' /\ OwnReply' /\ NoLeftovers'
  BY DEF ChansOwn, OwnReply, NoLeftovers
<1>. QED BY <1>1, <1>2, <1>3

LEMMA TakeStep ==
  ASSUME IInv, NEW f \in inbox, Take(f)
  PROVE  IInv'
<1>. USE CallsAssumption, CallCount DEF IInv, CallInv, Take, Forget, calls, wire, loop
<1>1. TypeOK'
  BY DEF TypeOK
<1>2. SeqsMinted' /\ SeqsDistinct' /\ FramesSent'
  BY SameMinters DEF Minters, SeqsDistinct, FramesSent
<1>3. ReaderHolds'
  <2>1. CASE pending[f.seq] = None
    BY <2>1 DEF ReaderHolds, TypeOK
  <2>2. CASE pending[f.seq] # None
    <3>1. seqOf[pending[f.seq]] = f.seq /\ pc[pending[f.seq]] \in {"encode", "wait"}
      BY <2>2 DEF NoLeftovers, TypeOK
    <3>2. pending[f.seq] = f.call
      BY <2>2, <3>1 DEF FramesSent, SeqsDistinct, TypeOK
    <3>. QED BY <2>2, <3>1, <3>2 DEF ReaderHolds, TypeOK
  <2>. QED BY <2>1, <2>2
<1>4. ChansOwn' /\ OwnReply' /\ NoLeftovers'
  BY DEF ChansOwn, OwnReply, NoLeftovers, TypeOK
<1>. QED BY <1>1, <1>2, <1>3, <1>4

LEMMA DeliverStep ==
  ASSUME IInv, Deliver
  PROVE  IInv'
<1>. USE CallsAssumption, CallCount DEF IInv, CallInv, Deliver, Delivered, calls, wire, loop
<1>1. TypeOK'
  BY DEF TypeOK
<1>2. SeqsMinted' /\ SeqsDistinct' /\ FramesSent'
  BY SameMinters DEF Minters, SeqsDistinct, FramesSent
<1>3. ReaderHolds' /\ ChansOwn' /\ OwnReply'
  BY DEF ReaderHolds, ChansOwn, OwnReply, TypeOK
<1>4. NoLeftovers'
  BY DEF ReaderHolds, NoLeftovers, TypeOK
<1>. QED BY <1>1, <1>2, <1>3, <1>4

LEMMA EndStep ==
  ASSUME IInv, Fail \/ Sweep
  PROVE  IInv'
<1>. USE CallsAssumption, CallCount DEF IInv, CallInv, Fail, Sweep, calls, wire, loop
<1>1. TypeOK'
  BY DEF TypeOK
<1>2. SeqsMinted' /\ SeqsDistinct' /\ FramesSent'
  BY SameMinters DEF Minters, SeqsDistinct, FramesSent
<1>3. OwnReply' /\ NoLeftovers'
  BY DEF OwnReply, NoLeftovers, TypeOK
<1>4. ChansOwn'
  <2>1. CASE Fail
    BY <2>1 DEF ChansOwn
  <2>2. CASE Sweep
    BY <2>2 DEF ChansOwn, NoLeftovers, TypeOK
  <2>. QED BY <2>1, <2>2
<1>5. ReaderHolds'
  BY DEF ReaderHolds
<1>. QED BY <1>1, <1>2, <1>3, <1>4, <1>5

LEMMA Inductive == IInv /\ [Next]_vars => IInv'
<1>. SUFFICES ASSUME IInv, [Next]_vars PROVE IInv'
  OBVIOUS
<1>1. ASSUME NEW c \in Calls, Mint(c) \/ Call(c) \/ Expire(c) PROVE IInv'
  BY <1>1, MintStep, RegisterStep, EncodeStep, ReceiveStep, ExpireStep DEF Call
<1>2. ASSUME NEW f \in broker, Answer(f) \/ Drop(f) PROVE IInv'
  BY <1>2, WireStep DEF Answer, Drop, IInv, TypeOK
<1>3. CASE Hangup
  BY <1>3, WireStep DEF Hangup
<1>4. CASE ReadLoop
  BY <1>4, TakeStep, DeliverStep, EndStep DEF ReadLoop
<1>5. CASE UNCHANGED vars
  BY <1>5, WireStep DEF vars, calls, loop, IInv, TypeOK
<1>. QED BY <1>1, <1>2, <1>3, <1>4, <1>5 DEF Next
-----------------------------------------------------------------------------
\* The inductive invariant holds in every state a client can reach.
THEOREM Invariants == Spec => []IInv
<1>. QED BY Initial, Inductive, PTL DEF Spec

\* The state keeps its types: no sequence number is minted twice or left out.
THEOREM TypesKept == Spec => []TypeOK
<1>1. IInv => TypeOK
  BY DEF IInv
<1>. QED BY <1>1, Invariants, PTL

\* No call ever returns the reply to another, however the replies, the
\* deadlines and the end of the connection interleave.
THEOREM RepliesMatch == Spec => []OwnReply
<1>1. IInv => OwnReply
  BY DEF IInv, CallInv
<1>. QED BY <1>1, Invariants, PTL

\* Client.pending holds no entry of a call that has returned or is served.
THEOREM TableIsClean == Spec => []NoLeftovers
<1>1. IInv => NoLeftovers
  BY DEF IInv, CallInv
<1>. QED BY <1>1, Invariants, PTL
=============================================================================
