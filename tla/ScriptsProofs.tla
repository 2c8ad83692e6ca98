--------------------------- MODULE ScriptsProofs ----------------------------
(***************************************************************************)
(* Proofs about what serves scripts, for any capacity of its queues:       *)
(*   - EventFan: handlers see events in the order they were sent;          *)
(*   - Repl: a cell of a notebook shows one run of its source, its own;    *)
(*   - ScriptApp: a surface never goes back to an older frame.             *)
(* They share no state.  RulesProofs has the fourth, the rules.            *)
(***************************************************************************)
EXTENDS EventFan, Repl, ScriptApp, Integers, SequenceTheorems, TLAPS
-----------------------------------------------------------------------------
(* Events in their order.                                                  *)

\* Every number of the one is below every number of the other.
Below(A, B) == \A x \in A, y \in B : x < y
Increasing(seq) == \A i, j \in DOMAIN seq : i < j => seq[i] < seq[j]
Posted == UNION {Ids(posts[k]) : k \in DOMAIN posts}

Counts == 1..MaxEvents
FanTyped ==
    /\ sent \in 0..MaxEvents
    /\ events \in Seq(Counts) /\ Len(events) <= ChanCap
    /\ items \in Seq(Counts) /\ Len(items) <= QueueCap
    /\ batch \in Seq(Counts) /\ Len(batch) <= QueueCap
    /\ posts \in Seq(Seq(Counts)) /\ seen \in [Handlers -> Seq(Counts)]
    /\ accepted \subseteq subs /\ subs \subseteq Handlers
    /\ once \in {"new", "ok", "failed"} /\ pump \in {"recv", "wake"} /\ wake \in BOOLEAN
    /\ drainer \in {"select", "drain", "report", "post"}
    /\ dropped \in Nat /\ reported \in Nat
    /\ reported + dropped + Len(events) <= sent

\* Only a batch with something in it is posted, and what is drained is posted
\* before the next is.
BatchesFilled ==
    /\ drainer = "post" => batch # <<>>
    /\ drainer \in {"select", "drain"} => batch = <<>>
    /\ \A k \in DOMAIN posts : posts[k] # <<>>

\* Within each place on the way numbers increase ...
WithinPlaces ==
    /\ Increasing(events) /\ Increasing(items) /\ Increasing(batch)
    /\ \A k \in DOMAIN posts : Increasing(posts[k])
    /\ \A i, j \in DOMAIN posts : i < j => Below(Ids(posts[i]), Ids(posts[j]))
    /\ \A h \in Handlers : Increasing(seen[h])

\* ... and a place further on holds lower ones.
AcrossPlaces ==
    /\ Ids(events) \subseteq 1..sent
    /\ Below(Ids(items), Ids(events)) /\ Ids(items) \subseteq 1..sent
    /\ Below(Ids(batch), Ids(items) \cup Ids(events)) /\ Ids(batch) \subseteq 1..sent
    /\ Below(Posted, Ids(batch) \cup Ids(items) \cup Ids(events)) /\ Posted \subseteq 1..sent
    /\ \A h \in Handlers :
         /\ Below(Ids(seen[h]), Posted \cup Ids(batch) \cup Ids(items) \cup Ids(events))
         /\ Ids(seen[h]) \subseteq 1..sent
FanInv == FanTyped /\ BatchesFilled /\ WithinPlaces /\ AcrossPlaces
-----------------------------------------------------------------------------
(* Sequences of increasing numbers.                                        *)

LEMMA Appended ==
  ASSUME NEW S, NEW s \in Seq(S), NEW x \in S
  PROVE  /\ Append(s, x) \in Seq(S) /\ Len(Append(s, x)) = Len(s) + 1
         /\ Ids(Append(s, x)) = Ids(s) \cup {x}
<1> DEFINE t == Append(s, x)
<1>1. t \in Seq(S) /\ Len(t) = Len(s) + 1 /\ (\A i \in 1..Len(s) : t[i] = s[i]) /\ t[Len(s) + 1] = x
  OBVIOUS
<1> HIDE DEF t
<1>2. DOMAIN t = 1..(Len(s) + 1) /\ DOMAIN s = 1..Len(s) /\ Len(s) \in Nat
  BY <1>1
<1>3. ASSUME NEW y \in Ids(t) PROVE y \in Ids(s) \cup {x}
  <2>1. PICK k \in DOMAIN t : y = t[k]
    BY DEF Ids
  <2>2. CASE k = Len(s) + 1
    BY <1>1, <2>1, <2>2
  <2>3. CASE k # Len(s) + 1
    BY <1>1, <1>2, <2>1, <2>3 DEF Ids
  <2>. QED BY <2>2, <2>3
<1>4. ASSUME NEW y \in Ids(s) PROVE y \in Ids(t)
  <2>1. PICK k \in DOMAIN s : y = s[k]
    BY DEF Ids
  <2>2. k \in DOMAIN t /\ t[k] = y
    BY <1>1, <1>2, <2>1
  <2>. QED BY <2>2 DEF Ids
<1>5. x \in Ids(t)
  <2>1. Len(s) + 1 \in DOMAIN t
    BY <1>2
  <2>. QED BY <1>1, <2>1 DEF Ids
<1>6. Ids(t) = Ids(s) \cup {x}
  BY <1>3, <1>4, <1>5
<1>. QED BY <1>1, <1>6 DEF t

LEMMA AppendedInOrder ==
  ASSUME NEW s \in Seq(Nat), NEW x \in Nat, Increasing(s), Below(Ids(s), {x})
  PROVE  Increasing(Append(s, x))
<1> DEFINE t == Append(s, x)
<1>1. Len(t) = Len(s) + 1 /\ (\A i \in 1..Len(s) : t[i] = s[i]) /\ t[Len(s) + 1] = x /\ t \in Seq(Nat)
  OBVIOUS
<1> HIDE DEF t
<1>2. DOMAIN t = 1..(Len(s) + 1) /\ DOMAIN s = 1..Len(s) /\ Len(s) \in Nat
  BY <1>1
<1>3. ASSUME NEW i \in DOMAIN t, NEW j \in DOMAIN t, i < j PROVE t[i] < t[j]
  <2>1. i \in DOMAIN s /\ t[i] = s[i] /\ s[i] \in Ids(s)
    BY <1>1, <1>2, <1>3 DEF Ids
  <2>2. CASE j = Len(s) + 1
    BY <1>1, <2>1, <2>2 DEF Below
  <2>3. CASE j # Len(s) + 1
    <3>1. j \in DOMAIN s /\ t[j] = s[j]
      BY <1>1, <1>2, <2>3
    <3>. QED BY <1>3, <2>1, <3>1 DEF Increasing
  <2>. QED BY <2>2, <2>3
<1>. QED BY <1>3 DEF Increasing, t

LEMMA Taken ==
  ASSUME NEW S, NEW s \in Seq(S), s # <<>>
  PROVE  /\ Tail(s) \in Seq(S) /\ Len(Tail(s)) = Len(s) - 1 /\ Head(s) \in S
         /\ Ids(s) = Ids(Tail(s)) \cup {Head(s)}
<1> DEFINE t == Tail(s)
<1>1. t \in Seq(S) /\ Len(t) = Len(s) - 1 /\ (\A i \in 1..Len(t) : t[i] = s[i + 1]) /\ Head(s) = s[1]
  OBVIOUS
<1>2. DOMAIN t = 1..(Len(s) - 1) /\ DOMAIN s = 1..Len(s) /\ Len(s) \in Nat \ {0}
  BY <1>1
<1> HIDE DEF t
<1>3. ASSUME NEW y \in Ids(s) PROVE y \in Ids(t) \cup {s[1]}
  <2>1. PICK k \in DOMAIN s : y = s[k]
    BY DEF Ids
  <2>2. CASE k = 1
    BY <2>1, <2>2
  <2>3. CASE k # 1
    <3>1. k - 1 \in DOMAIN t /\ t[k - 1] = y
      <4>1. k \in Nat /\ k - 1 \in 1..(Len(s) - 1) /\ (k - 1) + 1 = k
        BY <1>2, <2>1, <2>3
      <4>. QED BY <1>1, <1>2, <2>1, <4>1
    <3>. QED BY <3>1 DEF Ids
  <2>. QED BY <2>2, <2>3
<1>4. ASSUME NEW y \in Ids(t) PROVE y \in Ids(s)
  <2>1. PICK k \in DOMAIN t : y = t[k]
    BY DEF Ids
  <2>2. k + 1 \in DOMAIN s /\ s[k + 1] = y
    BY <1>1, <1>2, <2>1
  <2>. QED BY <2>2 DEF Ids
<1>5. s[1] \in Ids(s) /\ s[1] \in S
  BY <1>2 DEF Ids
<1>6. Ids(s) = Ids(t) \cup {s[1]}
  BY <1>3, <1>4, <1>5
<1>. QED BY <1>1, <1>5, <1>6 DEF t

LEMMA TakenInOrder ==
  ASSUME NEW s \in Seq(Nat), s # <<>>, Increasing(s)
  PROVE  Increasing(Tail(s)) /\ Below({Head(s)}, Ids(Tail(s)))
<1> DEFINE t == Tail(s)
<1>1. t \in Seq(Nat) /\ Len(t) = Len(s) - 1 /\ (\A i \in 1..Len(t) : t[i] = s[i + 1]) /\ Head(s) = s[1]
  OBVIOUS
<1>2. DOMAIN t = 1..(Len(s) - 1) /\ DOMAIN s = 1..Len(s) /\ Len(s) \in Nat \ {0}
  BY <1>1
<1> HIDE DEF t
<1>3. \A i \in DOMAIN t : i + 1 \in DOMAIN s /\ t[i] = s[i + 1] /\ i \in Nat /\ 1 < i + 1
  BY <1>1, <1>2, SMTT(30)
<1>4. Increasing(t)
  <2> SUFFICES ASSUME NEW i \in DOMAIN t, NEW j \in DOMAIN t, i < j PROVE t[i] < t[j]
    BY DEF Increasing
  <2>1. i + 1 < j + 1
    BY <1>3
  <2>. QED BY <1>3, <2>1 DEF Increasing
<1>5. ASSUME NEW y \in Ids(t) PROVE s[1] < y
  <2>1. PICK k \in DOMAIN t : y = t[k]
    BY DEF Ids
  <2>2. 1 \in DOMAIN s
    BY <1>2
  <2>. QED BY <1>3, <2>1, <2>2 DEF Increasing
<1>. QED BY <1>1, <1>4, <1>5 DEF t, Below

LEMMA HeadReplaced ==
  ASSUME NEW S, NEW s \in Seq(S), s # <<>>, NEW u \in S
  PROVE  /\ <<u>> \o Tail(s) \in Seq(S) /\ Len(<<u>> \o Tail(s)) = Len(s)
         /\ (<<u>> \o Tail(s))[1] = u
         /\ \A i \in 2..Len(s) : (<<u>> \o Tail(s))[i] = s[i]
<1>1. PICK r : r = Tail(s)
  OBVIOUS
<1>2. r \in Seq(S) /\ Len(r) = Len(s) - 1 /\ (\A i \in 1..Len(r) : r[i] = s[i + 1]) /\ Len(s) \in Nat \ {0}
  BY <1>1
<1>3. PICK o : o = <<u>>
  OBVIOUS
<1>4. o \in Seq(S) /\ Len(o) = 1 /\ o[1] = u
  BY <1>3
<1>5. PICK t : t = o \o r
  OBVIOUS
<1>6. t \in Seq(S) /\ Len(t) = 1 + Len(r) /\ \A i \in 1..(1 + Len(r)) : t[i] = IF i <= 1 THEN o[i] ELSE r[i - 1]
  <2>1. /\ o \o r \in Seq(S) /\ Len(o \o r) = Len(o) + Len(r)
        /\ \A i \in 1..(Len(o) + Len(r)) : (o \o r)[i] = IF i <= Len(o) THEN o[i] ELSE r[i - Len(o)]
    BY <1>2, <1>4, ConcatProperties
  <2>. QED BY <1>4, <1>5, <2>1
<1>7. t[1] = u /\ Len(t) = Len(s)
  BY <1>2, <1>4, <1>6
<1>8. ASSUME NEW i \in 2..Len(s) PROVE t[i] = s[i]
  <2>1. i \in 1..(1 + Len(r)) /\ ~(i <= 1) /\ i - 1 \in 1..Len(r) /\ (i - 1) + 1 = i
    BY <1>2
  <2>2. t[i] = r[i - 1]
    BY <1>6, <2>1
  <2>. QED BY <1>2, <2>1, <2>2
<1>. QED BY <1>1, <1>3, <1>5, <1>6, <1>7, <1>8
-----------------------------------------------------------------------------
(* Posts.                                                                  *)

LEMMA SeqGrows ==
  ASSUME NEW S, NEW T, S \subseteq T, NEW q \in Seq(S)
  PROVE  q \in Seq(T)
OBVIOUS

LEMMA CountsSeq == \A s \in Seq(Counts) : s \in Seq(Nat)
<1>1. Counts \subseteq Nat
  BY FanAssumption DEF Counts
<1>. QED BY <1>1, SeqGrows

\* What the loop does to the batches posted to it: one number leaves, the lowest.
LEMMA Dispatched ==
  ASSUME FanTyped, BatchesFilled, WithinPlaces, dispatch
  PROVE  /\ posts' \in Seq(Seq(Counts))
         /\ \A k \in DOMAIN posts' : posts'[k] # <<>> /\ Increasing(posts'[k])
         /\ \A i, j \in DOMAIN posts' : i < j => Below(Ids(posts'[i]), Ids(posts'[j]))
         /\ Posted' \subseteq Posted /\ Head(Head(posts)) \in Posted /\ Head(Head(posts)) \in Counts
         /\ Below({Head(Head(posts))}, Posted')
<1> DEFINE n == Len(posts) b == posts[1] x == Head(b)
<1>1. posts \in Seq(Seq(Counts)) /\ posts # <<>> /\ DOMAIN posts = 1..n /\ n \in Nat \ {0}
  BY DEF FanTyped, dispatch
<1>2. Head(posts) = b /\ b \in Seq(Counts) /\ b # <<>> /\ Increasing(b) /\ 1 \in DOMAIN posts
  BY <1>1 DEF BatchesFilled, WithinPlaces
<1>3. b \in Seq(Nat)
  BY <1>2, CountsSeq
<1>4. /\ Tail(b) \in Seq(Counts) /\ Len(Tail(b)) = Len(b) - 1 /\ x \in Counts
      /\ Ids(b) = Ids(Tail(b)) \cup {x} /\ Increasing(Tail(b)) /\ Below({x}, Ids(Tail(b)))
  BY <1>2, <1>3, Taken, TakenInOrder
<1>5. posts' = IF Len(b) = 1 THEN Tail(posts) ELSE <<Tail(b)>> \o Tail(posts)
  BY <1>2 DEF dispatch
<1>6. \A k \in DOMAIN posts : posts[k] # <<>> /\ Increasing(posts[k]) /\ posts[k] \in Seq(Counts)
  BY <1>1 DEF BatchesFilled, WithinPlaces
<1>7. \A i, j \in DOMAIN posts : i < j => Below(Ids(posts[i]), Ids(posts[j]))
  BY DEF WithinPlaces
<1>8. x \in Ids(b) /\ x \in Posted
  BY <1>2, <1>4 DEF Posted
<1> HIDE DEF x, b, n
<1>9. CASE Len(b) = 1
  <2>1. posts' \in Seq(Seq(Counts)) /\ DOMAIN posts' = 1..(n - 1) /\ \A i \in 1..(n - 1) : posts'[i] = posts[i + 1]
    BY <1>1, <1>5, <1>9 DEF n
  <2>2. \A i \in DOMAIN posts' : i + 1 \in DOMAIN posts /\ 1 < i + 1 /\ posts'[i] = posts[i + 1] /\ i \in Nat
    BY <1>1, <2>1, SMTT(30)
  <2>3. \A k \in DOMAIN posts' : posts'[k] # <<>> /\ Increasing(posts'[k])
    BY <1>6, <2>2
  <2>4. \A i, j \in DOMAIN posts' : i < j => Below(Ids(posts'[i]), Ids(posts'[j]))
    <3> SUFFICES ASSUME NEW i \in DOMAIN posts', NEW j \in DOMAIN posts', i < j
                 PROVE  Below(Ids(posts'[i]), Ids(posts'[j]))
      OBVIOUS
    <3>1. i + 1 < j + 1
      BY <2>2
    <3>. QED BY <1>7, <2>2, <3>1
  <2>5. ASSUME NEW y \in Posted' PROVE y \in Posted /\ x < y
    <3>1. PICK k \in DOMAIN posts' : y \in Ids(posts'[k])
      BY DEF Posted
    <3>2. y \in Ids(posts[k + 1])
      BY <2>2, <3>1
    <3>3. Below(Ids(b), Ids(posts[k + 1]))
      BY <1>2, <1>7, <2>2 DEF b
    <3>. QED BY <1>8, <2>2, <3>2, <3>3 DEF Posted, Below
  <2>6. Posted' \subseteq Posted /\ Below({x}, Posted')
    BY <2>5 DEF Below
  <2>. QED BY <1>2, <1>4, <1>8, <2>1, <2>3, <2>4, <2>6 DEF x
<1>10. CASE Len(b) # 1
  <2>1. /\ posts' \in Seq(Seq(Counts)) /\ Len(posts') = n /\ posts'[1] = Tail(b)
        /\ \A i \in 2..n : posts'[i] = posts[i]
    BY <1>1, <1>4, <1>5, <1>10, HeadReplaced DEF n
  <2>2. DOMAIN posts' = DOMAIN posts /\ \A i \in DOMAIN posts : i = 1 \/ i \in 2..n
    BY <1>1, <2>1
  <2>3. Tail(b) # <<>>
    <3>1. Len(b) \in Nat /\ Len(b) # 0
      BY <1>2
    <3>. QED BY <1>4, <1>10, <3>1
  <2>4. \A k \in DOMAIN posts' : posts'[k] # <<>> /\ Increasing(posts'[k])
    BY <1>4, <1>6, <2>1, <2>2, <2>3
  <2>5. \A k \in DOMAIN posts' : Ids(posts'[k]) \subseteq Ids(posts[k])
    BY <1>4, <2>1, <2>2 DEF b
  <2>6. \A i, j \in DOMAIN posts' : i < j => Below(Ids(posts'[i]), Ids(posts'[j]))
    BY <1>7, <2>2, <2>5 DEF Below
  <2>7. ASSUME NEW y \in Posted' PROVE y \in Posted /\ x < y
    <3>1. PICK k \in DOMAIN posts' : y \in Ids(posts'[k])
      BY DEF Posted
    <3>2. CASE k = 1
      BY <1>2, <1>4, <2>1, <3>1, <3>2 DEF Posted, Below, b
    <3>3. CASE k # 1
      <4>1. k \in DOMAIN posts /\ 1 < k /\ y \in Ids(posts[k])
        BY <1>1, <2>2, <2>5, <3>1, <3>3
      <4>2. Below(Ids(b), Ids(posts[k]))
        BY <1>2, <1>7, <4>1 DEF b
      <4>. QED BY <1>8, <4>1, <4>2 DEF Posted, Below
    <3>. QED BY <3>2, <3>3
  <2>8. Posted' \subseteq Posted /\ Below({x}, Posted')
    BY <2>7 DEF Below
  <2>. QED BY <1>2, <1>4, <1>8, <2>1, <2>4, <2>6, <2>8 DEF x
<1>. QED BY <1>9, <1>10
-----------------------------------------------------------------------------
(* The steps.                                                              *)

LEMMA FanInitHolds == FanInit => FanInv
<1> SUFFICES ASSUME FanInit PROVE FanInv
  OBVIOUS
<1> USE FanAssumption DEF FanInit
<1>1. FanTyped
  <2>1. <<>> \in Seq(Counts) /\ <<>> \in Seq(Seq(Counts)) /\ Len(<<>>) = 0
    OBVIOUS
  <2>2. seen \in [Handlers -> Seq(Counts)] /\ QueueCap >= 0 /\ ChanCap >= 0 /\ 0 \in 0..MaxEvents
    BY <2>1
  <2>3. reported + dropped + Len(events) <= sent /\ dropped \in Nat /\ reported \in Nat
    BY <2>1
  <2>. QED BY <2>1, <2>2, <2>3 DEF FanTyped
<1>2. DOMAIN posts = {} /\ DOMAIN events = {} /\ DOMAIN items = {} /\ DOMAIN batch = {}
  OBVIOUS
<1>3. \A h \in Handlers : DOMAIN seen[h] = {}
  OBVIOUS
<1>. QED BY <1>1, <1>2, <1>3 DEF FanInv, BatchesFilled, WithinPlaces, AcrossPlaces, Increasing, Below, Posted, Ids

\* An event gets the next number.
LEMMA EventKeeps == ASSUME FanInv, Event PROVE FanInv'
<1> USE FanAssumption DEF FanInv
<1>1. /\ sent < MaxEvents /\ sent' = sent + 1 /\ UNCHANGED <<fan, queue, drain, loop>>
      /\ events' = IF Len(events) < ChanCap THEN Append(events, sent + 1) ELSE events
  BY DEF Event
<1>2. sent + 1 \in Counts /\ sent \in Nat
  BY <1>1 DEF FanTyped, Counts
<1>3. /\ events' \in Seq(Counts) /\ Len(events') <= ChanCap /\ Len(events') <= Len(events) + 1
      /\ Ids(events') \subseteq Ids(events) \cup {sent + 1}
  BY <1>1, <1>2, Appended DEF FanTyped
<1>4. FanTyped'
  <2>1. reported + dropped + Len(events') <= sent + 1
    BY <1>2, <1>3 DEF FanTyped
  <2>2. sent' \in 0..MaxEvents
    BY <1>1, <1>2
  <2>. QED BY <1>1, <1>3, <2>1, <2>2 DEF FanTyped, fan, queue, drain, loop
<1>5. BatchesFilled'
  BY <1>1 DEF BatchesFilled, drain, loop
<1>6. Increasing(events')
  <2>1. events \in Seq(Nat)
    BY CountsSeq DEF FanTyped
  <2>2. Below(Ids(events), {sent + 1})
    BY <1>2 DEF AcrossPlaces, Below
  <2>3. sent + 1 \in Nat
    BY <1>2
  <2>. QED BY <1>1, <2>1, <2>2, <2>3, AppendedInOrder DEF WithinPlaces
<1>7. WithinPlaces'
  BY <1>1, <1>6 DEF WithinPlaces, queue, drain, loop
<1>8. Posted' = Posted
  BY <1>1 DEF Posted, loop
<1>9. 1..sent \subseteq 1..sent' /\ \A y \in 1..sent : y < sent + 1
  BY <1>1, <1>2
<1>10. Ids(events') \subseteq 1..sent'
  BY <1>1, <1>2, <1>3, <1>9 DEF AcrossPlaces
<1>11. \A A : A \subseteq 1..sent => Below(A, {sent + 1})
  BY <1>9 DEF Below
<1>12. UNCHANGED <<items, batch, posts, seen>>
  BY <1>1 DEF queue, drain, loop
<1>13. \A A : A \subseteq 1..sent => A \subseteq 1..sent'
  BY <1>9
<1>14. ASSUME NEW A, NEW B, A \subseteq 1..sent, Below(A, B \cup Ids(events))
       PROVE  Below(A, B \cup Ids(events'))
  BY <1>3, <1>11, <1>14 DEF Below
<1>15. ASSUME NEW A, A \subseteq 1..sent, Below(A, Ids(events)) PROVE Below(A, Ids(events'))
  BY <1>3, <1>11, <1>15 DEF Below
<1>16. Below(Ids(items'), Ids(events')) /\ Ids(items') \subseteq 1..sent'
  BY <1>12, <1>13, <1>15 DEF AcrossPlaces
<1>17. Below(Ids(batch'), Ids(items') \cup Ids(events')) /\ Ids(batch') \subseteq 1..sent'
  BY <1>12, <1>13, <1>14 DEF AcrossPlaces
<1>18. Below(Posted', Ids(batch') \cup Ids(items') \cup Ids(events')) /\ Posted' \subseteq 1..sent'
  BY <1>8, <1>12, <1>13, <1>14 DEF AcrossPlaces
<1>19. ASSUME NEW h \in Handlers
       PROVE  /\ Below(Ids(seen'[h]), Posted' \cup Ids(batch') \cup Ids(items') \cup Ids(events'))
              /\ Ids(seen'[h]) \subseteq 1..sent'
  BY <1>8, <1>12, <1>13, <1>14 DEF AcrossPlaces
<1>20. AcrossPlaces'
  BY <1>10, <1>16, <1>17, <1>18, <1>19 DEF AcrossPlaces
<1>. QED BY <1>4, <1>5, <1>7, <1>20

LEMMA SubscribeKeeps == ASSUME FanInv, NEW h \in Handlers, Subscribe(h) PROVE FanInv'
<1> USE DEF FanInv
<1>1. FanTyped'
  BY DEF FanTyped, Subscribe, EnsurePump, bus, queue, drain, loop
<1>2. BatchesFilled' /\ WithinPlaces' /\ AcrossPlaces'
  <2>1. UNCHANGED <<sent, events, items, drainer, batch, posts, seen>>
    BY DEF Subscribe, bus, queue, drain, loop
  <2>2. BatchesFilled'
    BY <2>1 DEF BatchesFilled
  <2>3. WithinPlaces'
    BY <2>1 DEF WithinPlaces
  <2>4. AcrossPlaces'
    BY <2>1 DEF AcrossPlaces, Posted
  <2>. QED BY <2>2, <2>3, <2>4
<1>. QED BY <1>1, <1>2

\* A number goes from the channel to the queue, or is dropped and counted.
LEMMA PushKeeps == ASSUME FanInv, Push PROVE FanInv'
<1> USE FanAssumption DEF FanInv
<1> DEFINE x == Head(events)
<1>1. /\ events # <<>> /\ events' = Tail(events) /\ UNCHANGED <<sent, fan, wake, drain, loop>>
      /\ \/ Len(items) < QueueCap /\ items' = Append(items, x) /\ pump' = "wake" /\ dropped' = dropped
         \/ dropped' = dropped + 1 /\ items' = items /\ pump' = pump
  BY DEF Push
<1>2. events \in Seq(Counts) /\ events \in Seq(Nat) /\ items \in Seq(Counts) /\ items \in Seq(Nat) /\ Increasing(events)
  BY CountsSeq DEF FanTyped, WithinPlaces
<1>3. /\ events' \in Seq(Counts) /\ Len(events') = Len(events) - 1 /\ x \in Counts
      /\ Ids(events) = Ids(events') \cup {x}
  BY <1>1, <1>2, Taken
<1>4. Increasing(events') /\ Below({x}, Ids(events'))
  BY <1>1, <1>2, TakenInOrder
<1>5. Below(Ids(items), {x}) /\ x \in Nat /\ Increasing(items)
  BY <1>3 DEF AcrossPlaces, Below, WithinPlaces, Counts
<1> HIDE DEF x
<1>6. /\ items' \in Seq(Counts) /\ Len(items') <= QueueCap /\ Ids(items') \subseteq Ids(items) \cup {x}
      /\ Increasing(items')
  <2>1. CASE items' = items
    BY <1>5, <2>1 DEF FanTyped
  <2>2. CASE Len(items) < QueueCap /\ items' = Append(items, x)
    BY <1>2, <1>3, <1>5, <2>2, Appended, AppendedInOrder, SMTT(30) DEF FanTyped
  <2>. QED BY <1>1, <2>1, <2>2
<1>7. FanTyped'
  <2>1. UNCHANGED <<sent, subs, accepted, once, wake, drainer, batch, reported, posts, seen>>
    BY <1>1 DEF fan, drain, loop
  <2>2. pump' \in {"recv", "wake"} /\ dropped' \in Nat
    BY <1>1 DEF FanTyped
  <2>3. reported + dropped' + Len(events') <= sent /\ Len(events') <= ChanCap
    BY <1>1, <1>2, <1>3, SMTT(30) DEF FanTyped
  <2>. QED BY <1>3, <1>6, <2>1, <2>2, <2>3 DEF FanTyped
<1>8. BatchesFilled' /\ WithinPlaces'
  BY <1>1, <1>4, <1>6 DEF BatchesFilled, WithinPlaces, drain, loop
<1>9. Posted' = Posted
  BY <1>1 DEF Posted, loop
<1>10. Ids(items') \subseteq 1..sent /\ Ids(events') \subseteq 1..sent /\ sent' = sent
  BY <1>1, <1>3, <1>6 DEF AcrossPlaces
<1>11. Below(Ids(items'), Ids(events'))
  BY <1>3, <1>4, <1>6 DEF AcrossPlaces, Below
<1>12. Ids(items') \cup Ids(events') \subseteq Ids(items) \cup Ids(events)
  BY <1>3, <1>6
<1>13. AcrossPlaces'
  BY <1>1, <1>9, <1>10, <1>11, <1>12 DEF AcrossPlaces, Below, drain, loop
<1>. QED BY <1>7, <1>8, <1>13

\* The signal and its receipt move nothing.
LEMMA WakeKeeps == ASSUME FanInv, Wake \/ Awake PROVE FanInv'
<1> USE DEF FanInv
<1>1. FanTyped' /\ BatchesFilled'
  BY DEF FanTyped, BatchesFilled, Wake, Awake, bus, fan, drain, loop
<1>2. WithinPlaces' /\ AcrossPlaces'
  BY DEF Wake, Awake, bus, fan, drain, loop, WithinPlaces, AcrossPlaces, Posted
<1>. QED BY <1>1, <1>2

LEMMA DrainKeeps == ASSUME FanInv, Drain PROVE FanInv'
<1> USE FanAssumption DEF FanInv
<1>1. /\ batch = <<>> /\ batch' = items /\ items' = <<>> /\ drainer' = "report"
      /\ UNCHANGED <<bus, fan, pump, dropped, wake, reported, loop>>
  BY DEF Drain, BatchesFilled
<1>2. <<>> \in Seq(Counts) /\ Len(<<>>) = 0 /\ DOMAIN <<>> = {}
  OBVIOUS
<1>3. FanTyped' /\ BatchesFilled'
  BY <1>1, <1>2 DEF FanTyped, BatchesFilled, bus, fan, loop
<1>4. WithinPlaces'
  BY <1>1, <1>2 DEF WithinPlaces, Increasing, bus, loop
<1>5. Ids(batch') = Ids(items) /\ Ids(items') = {} /\ Posted' = Posted
  BY <1>1, <1>2 DEF Ids, Posted, loop
<1>6. AcrossPlaces'
  BY <1>1, <1>5 DEF AcrossPlaces, Below, bus, loop
<1>. QED BY <1>3, <1>4, <1>6

LEMMA TakeDroppedKeeps == ASSUME FanInv, TakeDropped PROVE FanInv'
<1> USE FanAssumption DEF FanInv
<1>1. FanTyped' /\ BatchesFilled'
  BY SMTT(30) DEF FanTyped, BatchesFilled, TakeDropped, bus, fan, loop
<1>2. WithinPlaces' /\ AcrossPlaces'
  <2>1. UNCHANGED <<sent, events, items, batch, posts, seen>>
    BY DEF TakeDropped, bus, fan, loop
  <2>2. WithinPlaces'
    BY <2>1 DEF WithinPlaces
  <2>3. AcrossPlaces'
    BY <2>1 DEF AcrossPlaces, Posted
  <2>. QED BY <2>2, <2>3
<1>. QED BY <1>1, <1>2

\* A batch becomes the last of the posts, or nobody listens.
LEMMA PostKeeps == ASSUME FanInv, Post PROVE FanInv'
<1> USE FanAssumption DEF FanInv
<1>1. /\ batch # <<>> /\ batch' = <<>> /\ drainer' = "select" /\ UNCHANGED <<bus, fan, queue, reported, seen>>
      /\ posts' = Append(posts, batch) \/ posts' = posts
  BY DEF Post, BatchesFilled
<1>2. <<>> \in Seq(Counts) /\ Len(<<>>) = 0 /\ DOMAIN <<>> = {}
  OBVIOUS
<1>3. posts \in Seq(Seq(Counts)) /\ batch \in Seq(Counts)
  BY DEF FanTyped
<1>4. Append(posts, batch) \in Seq(Seq(Counts))
  BY <1>3
<1>5. FanTyped'
  <2>1. Len(batch') <= QueueCap /\ batch' \in Seq(Counts)
    BY <1>1, <1>2
  <2>2. posts' \in Seq(Seq(Counts))
    BY <1>1, <1>3, <1>4
  <2>. QED BY <1>1, <2>1, <2>2 DEF FanTyped, bus, fan, queue
<1>6. Ids(batch') = {} /\ Increasing(batch')
  BY <1>1, <1>2 DEF Ids, Increasing
<1>7. \A k \in DOMAIN posts : Ids(posts[k]) \subseteq Posted
  BY DEF Posted
<1>8. CASE posts' = posts
  <2>1. Posted' = Posted
    BY <1>8 DEF Posted
  <2>2. BatchesFilled' /\ WithinPlaces'
    BY <1>1, <1>6, <1>8 DEF BatchesFilled, WithinPlaces, bus, queue
  <2>3. AcrossPlaces'
    BY <1>1, <1>6, <2>1 DEF AcrossPlaces, Below, bus, queue
  <2>. QED BY <1>5, <2>2, <2>3
<1>9. CASE posts' = Append(posts, batch)
  <2>1. /\ DOMAIN posts' = DOMAIN posts \cup {Len(posts) + 1} /\ posts'[Len(posts) + 1] = batch
        /\ \A k \in DOMAIN posts : posts'[k] = posts[k] /\ k < Len(posts) + 1 /\ ~(Len(posts) + 1 < k)
    BY <1>3, <1>9
  <2>2. Len(posts) + 1 \in Nat
    BY <1>3
  <2> DEFINE n == Len(posts) + 1
  <2> HIDE DEF n
  <2>3. Posted' = Posted \cup Ids(batch)
    <3>1. ASSUME NEW y \in Posted' PROVE y \in Posted \cup Ids(batch)
      <4>1. PICK k \in DOMAIN posts' : y \in Ids(posts'[k])
        BY DEF Posted
      <4>. QED BY <1>7, <2>1, <4>1
    <3>2. ASSUME NEW y \in Posted PROVE y \in Posted'
      <4>1. PICK k \in DOMAIN posts : y \in Ids(posts[k])
        BY DEF Posted
      <4>. QED BY <2>1, <4>1 DEF Posted
    <3>3. Ids(batch) \subseteq Posted'
      BY <2>1 DEF Posted
    <3>. QED BY <3>1, <3>2, <3>3
  <2>4. BatchesFilled'
    BY <1>1, <2>1 DEF BatchesFilled
  <2>5. ASSUME NEW i \in DOMAIN posts', NEW j \in DOMAIN posts', i < j
        PROVE  Below(Ids(posts'[i]), Ids(posts'[j]))
    <3>1. ~(Len(posts) + 1 < Len(posts) + 1)
      BY <2>2
    <3>2. i \in DOMAIN posts
      BY <2>1, <2>5, <3>1
    <3>3. CASE j \in DOMAIN posts
      BY <2>1, <2>5, <3>2, <3>3 DEF WithinPlaces
    <3>4. CASE j \notin DOMAIN posts
      <4>1. posts'[j] = batch /\ posts'[i] = posts[i]
        BY <2>1, <3>2, <3>4
      <4>. QED BY <1>7, <3>2, <4>1 DEF AcrossPlaces, Below
    <3>. QED BY <3>3, <3>4
  <2>6. WithinPlaces'
    <3>1. \A k \in DOMAIN posts' : Increasing(posts'[k])
      BY <2>1 DEF WithinPlaces
    <3>. QED BY <1>1, <1>6, <2>5, <3>1 DEF WithinPlaces, bus, queue
  <2>7. AcrossPlaces'
    BY <1>1, <1>6, <2>3 DEF AcrossPlaces, Below, bus, queue
  <2>. QED BY <1>5, <2>4, <2>6, <2>7
<1>. QED BY <1>1, <1>8, <1>9

\* The lowest number on its way reaches the handlers registered by now.
LEMMA DispatchKeeps == ASSUME FanInv, dispatch PROVE FanInv'
<1> USE FanAssumption DEF FanInv
<1> DEFINE x == Head(Head(posts))
<1>1. /\ UNCHANGED <<bus, fan, queue, drain>>
      /\ seen' = [h \in Handlers |-> IF h \in subs THEN Append(seen[h], x) ELSE seen[h]]
  BY DEF dispatch
<1>2. /\ posts' \in Seq(Seq(Counts))
      /\ \A k \in DOMAIN posts' : posts'[k] # <<>> /\ Increasing(posts'[k])
      /\ \A i, j \in DOMAIN posts' : i < j => Below(Ids(posts'[i]), Ids(posts'[j]))
      /\ Posted' \subseteq Posted /\ x \in Posted /\ x \in Counts
      /\ Below({x}, Posted')
  BY Dispatched
<1> HIDE DEF x
<1>3. x \in Nat
  BY <1>2 DEF Counts
<1>4. ASSUME NEW h \in Handlers
      PROVE  /\ seen'[h] \in Seq(Counts) /\ Increasing(seen'[h])
             /\ Ids(seen'[h]) \subseteq Ids(seen[h]) \cup {x}
  <2>1. seen[h] \in Seq(Counts) /\ seen[h] \in Seq(Nat) /\ Increasing(seen[h])
    BY CountsSeq DEF FanTyped, WithinPlaces
  <2>2. Below(Ids(seen[h]), {x})
    BY <1>2 DEF AcrossPlaces, Below
  <2>3. seen'[h] = Append(seen[h], x) \/ seen'[h] = seen[h]
    BY <1>1
  <2>4. Append(seen[h], x) \in Seq(Counts) /\ Ids(Append(seen[h], x)) = Ids(seen[h]) \cup {x}
    BY <1>2, <2>1, Appended
  <2>5. Increasing(Append(seen[h], x))
    BY <1>3, <2>1, <2>2, AppendedInOrder
  <2>. QED BY <2>1, <2>3, <2>4, <2>5
<1>5. seen' \in [Handlers -> Seq(Counts)]
  BY <1>1, <1>4
<1>6. FanTyped'
  BY <1>1, <1>2, <1>5 DEF FanTyped, bus, fan, queue, drain
<1>7. BatchesFilled' /\ WithinPlaces'
  BY <1>1, <1>2, <1>4 DEF BatchesFilled, WithinPlaces, bus, queue, drain
<1>8. ASSUME NEW h \in Handlers
      PROVE  /\ Below(Ids(seen'[h]), Posted' \cup Ids(batch) \cup Ids(items) \cup Ids(events))
             /\ Ids(seen'[h]) \subseteq 1..sent
  <2>1. Below(Ids(seen[h]), Posted' \cup Ids(batch) \cup Ids(items) \cup Ids(events)) /\ Ids(seen[h]) \subseteq 1..sent
    BY <1>2 DEF AcrossPlaces, Below
  <2>2. Below({x}, Posted' \cup Ids(batch) \cup Ids(items) \cup Ids(events)) /\ x \in 1..sent
    BY <1>2 DEF AcrossPlaces, Below
  <2>. QED BY <1>4, <2>1, <2>2 DEF Below
<1>9. AcrossPlaces'
  BY <1>1, <1>2, <1>8 DEF AcrossPlaces, Below, bus, queue, drain
<1>. QED BY <1>6, <1>7, <1>9

THEOREM FanInvariant == FanSpec => []FanInv
<1>1. ASSUME FanInv, [FanNext]_fanVars PROVE FanInv'
  <2>1. CASE UNCHANGED fanVars
    <3>1. FanTyped' /\ BatchesFilled'
      BY <1>1, <2>1 DEF fanVars, FanInv, FanTyped, BatchesFilled
    <3>2. WithinPlaces'
      BY <1>1, <2>1 DEF fanVars, FanInv, WithinPlaces
    <3>3. AcrossPlaces'
      BY <1>1, <2>1 DEF fanVars, FanInv, AcrossPlaces, Posted
    <3>. QED BY <3>1, <3>2, <3>3 DEF FanInv
  <2>2. CASE \E h \in Handlers : Subscribe(h)
    BY <1>1, <2>2, SubscribeKeeps
  <2>. QED
    BY <1>1, <2>1, <2>2, EventKeeps, PushKeeps, WakeKeeps, DrainKeeps, TakeDroppedKeeps, PostKeeps, DispatchKeeps
       DEF FanNext, Goroutines
<1>. QED BY <1>1, FanInitHolds, PTL DEF FanSpec

\* Every handler is called with events in the order in which the broker sent
\* them and with none twice (queue, drainer and owner loop of the event fan).
THEOREM EventsInOrder == FanSpec => []InOrder
<1>1. FanInv => InOrder
  BY DEF FanInv, WithinPlaces, Increasing, InOrder
<1>. QED BY <1>1, FanInvariant, PTL

\* The types as the model states them; no more is dropped than was sent.
THEOREM FanTypesKept == FanSpec => []FanTypeOK
<1>1. FanInv => FanTypeOK
  <2>1. FanInv => Len(events) \in Nat /\ Ids(events) \subseteq 1..sent
    BY DEF FanInv, FanTyped, AcrossPlaces
  <2>. QED BY <2>1 DEF FanInv, FanTyped, FanTypeOK, Counts
<1>. QED BY <1>1, FanInvariant, PTL
-----------------------------------------------------------------------------
(* The notebook.                                                           *)

\* The loop and the worker never hold a cell twice.
HeldOnce ==
    /\ \A i, j \in DOMAIN evals : evals[i] = evals[j] => i = j
    /\ \A i \in DOMAIN evals : evals[i] # sending /\ (worker.at # "take" => evals[i] # worker.n)
    /\ worker.at # "take" => worker.n \in Numbers /\ worker.n # sending

\* A cell that the worker has not taken has not run.
WaitingUnrun ==
    /\ \A n \in 1..MaxCells : n > Len(cells) \/ n = sending => runs[n] = 0
    /\ \A i \in DOMAIN evals : runs[evals[i]] = 0

\* The second evaluation is for what the first did not execute.
StageUnrun ==
    /\ worker.at \in {"wrapped", "raw"} => runs[worker.n] = 0
    /\ worker.at = "raw" => Src \in {"stmt", "bad"}

\* The console holds what the cell in the worker printed.
PrintedOwn ==
    /\ worker.at \in {"take", "post"} => printed = {}
    /\ printed \subseteq {worker.n}

\* The outcome of a cell, on its way to the loop.
Own(o) ==
    /\ o.n \in Numbers /\ o.console \subseteq {o.n}
    /\ o.value => cells[o.n].src = "expr"
    /\ o.status = "error" => cells[o.n].src \in {"throws", "bad"}
OutcomeOwn == worker.at # "take" => Own(outcome) /\ outcome.n = worker.n
DoneOwn == \A k \in DOMAIN done : Own(done[k])

CellsInv == ReplTypeOK /\ HeldOnce /\ WaitingUnrun /\ StageUnrun /\ PrintedOwn /\ OutcomeOwn /\ DoneOwn /\ CellsOwn
-----------------------------------------------------------------------------
\* What is left of a sequence has no new elements.
LEMMA Removed ==
  ASSUME NEW S, NEW seq \in Seq(S), NEW k \in DOMAIN seq
  PROVE  /\ RemoveAt(seq, k) \in Seq(S)
         /\ \A i \in DOMAIN RemoveAt(seq, k) : \E j \in DOMAIN seq : RemoveAt(seq, k)[i] = seq[j]
<1> DEFINE front == SubSeq(seq, 1, k - 1)
           back == SubSeq(seq, k + 1, Len(seq))
<1>1. front \in Seq(S) /\ Len(front) = k - 1 /\ \A i \in 1..(k - 1) : front[i] = seq[i]
  <2>1. \A i \in 1..(k - 1) : seq[i] \in S
    OBVIOUS
  <2>. QED BY <2>1, SubSeqProperties
<1>2. back \in Seq(S) /\ Len(back) = Len(seq) - k /\ \A i \in 1..(Len(seq) - k) : back[i] = seq[k + i]
  <2>1. \A i \in (k + 1)..Len(seq) : seq[i] \in S
    OBVIOUS
  <2>. QED BY <2>1, SubSeqProperties
<1> DEFINE cut == RemoveAt(seq, k)
<1>3. cut = front \o back
  BY DEF RemoveAt
<1> HIDE DEF front, back, cut
<1>4. /\ cut \in Seq(S)
      /\ Len(cut) = Len(front) + Len(back)
      /\ \A i \in 1..(Len(front) + Len(back)) : cut[i] = IF i <= Len(front) THEN front[i] ELSE back[i - Len(front)]
  BY <1>1, <1>2, <1>3, ConcatProperties
<1>6. Len(cut) = Len(seq) - 1
  BY <1>1, <1>2, <1>4
<1>7. \A i \in 1..(Len(seq) - 1) : cut[i] = IF i <= k - 1 THEN seq[i] ELSE seq[i + 1]
  <2> SUFFICES ASSUME NEW i \in 1..(Len(seq) - 1)
               PROVE  cut[i] = IF i <= k - 1 THEN seq[i] ELSE seq[i + 1]
    OBVIOUS
  <2>1. CASE i <= k - 1
    BY <1>1, <1>2, <1>4, <2>1, SMTT(30)
  <2>2. CASE i > k - 1
    <3>1. cut[i] = back[i - (k - 1)]
      BY <1>1, <1>2, <1>4, <2>2
    <3>. QED BY <1>2, <2>2, <3>1
  <2>. QED BY <2>1, <2>2
<1>8. \A i \in DOMAIN cut : \E j \in DOMAIN seq : cut[i] = seq[j]
  <2>1. DOMAIN cut = 1..(Len(seq) - 1) /\ DOMAIN seq = 1..Len(seq)
    BY <1>4, <1>6
  <2> SUFFICES ASSUME NEW i \in 1..(Len(seq) - 1)
               PROVE  \E j \in 1..Len(seq) : cut[i] = seq[j]
    BY <2>1
  <2>2. CASE i <= k - 1
    BY <1>7, <2>2
  <2>3. CASE i > k - 1
    BY <1>7, <2>3
  <2>. QED BY <2>2, <2>3
<1>. QED BY <1>4, <1>8 DEF cut

\* The invariant holds at the start.
LEMMA ReplInitHolds == ReplInit => CellsInv
<1> SUFFICES ASSUME ReplInit PROVE CellsInv
  OBVIOUS
<1> USE ReplAssumption DEF ReplInit
<1>1. ReplTypeOK
  <2>1. cells \in Seq(CellRecords) /\ evals \in Seq(Numbers) /\ done \in Seq(Outcomes)
    OBVIOUS
  <2>2. outcome \in Outcomes /\ worker \in [at : Stages, n : 0..Len(cells)]
    BY DEF Stages, Outcomes, Waiting, Nothing
  <2>3. runs \in [1..MaxCells -> Nat] /\ input \in Inputs /\ stash \in Inputs
    BY DEF Inputs
  <2>. QED BY <2>1, <2>2, <2>3 DEF ReplTypeOK, CellRecords
<1>2. HeldOnce /\ WaitingUnrun /\ StageUnrun /\ PrintedOwn /\ OutcomeOwn /\ DoneOwn
  BY DEF HeldOnce, WaitingUnrun, StageUnrun, PrintedOwn, OutcomeOwn, DoneOwn, Waiting
<1>3. CellsOwn
  BY DEF CellsOwn, RunsOnce, OutputsOwn, Numbers
<1>. QED BY <1>1, <1>2, <1>3 DEF CellsInv
-----------------------------------------------------------------------------
(* Types.                                                                  *)

\* Typing, history and the other keys.
LEMMA KeysTyped ==
  ASSUME ReplTypeOK,
         (\E src \in Sources : Type(src)) \/ HistoryPrev \/ HistoryNext \/ Escape \/ (\E n \in Numbers : CopyInput(n))
  PROVE  ReplTypeOK'
<1> USE DEF ReplTypeOK, kernel
<1>0. cells \in Seq(CellRecords)
  BY DEF CellRecords
<1>1. \A n \in 1..Len(cells) : cells[n].src \in Inputs
  <2> SUFFICES ASSUME NEW n \in 1..Len(cells) PROVE cells[n].src \in Inputs
    OBVIOUS
  <2>1. cells[n] \in CellRecords
    BY <1>0
  <2>. QED BY <2>1 DEF CellRecords, Inputs
<1>2. UNCHANGED <<cells, sending, evals, worker, runs, printed, outcome, done>>
  BY DEF Type, HistoryPrev, HistoryNext, Escape, CopyInput, HistoryMove
<1>3. input' \in Inputs /\ stash' \in Inputs /\ histPos' \in 0..Len(cells) /\ moves' \in Nat
  <2>1. CASE \E src \in Sources : Type(src)
    BY <2>1 DEF Type, Inputs
  <2>2. CASE HistoryPrev
    <3>1. histPos \in 1..Len(cells) /\ histPos' = histPos - 1 /\ moves' = moves + 1
      BY <2>2 DEF HistoryPrev, HistoryMove
    <3>2. stash' \in Inputs /\ input' = cells[histPos' + 1].src
      BY <2>2 DEF HistoryPrev, Line
    <3>. QED BY <1>1, <3>1, <3>2
  <2>3. CASE HistoryNext
    <3>1. histPos' = histPos + 1 /\ histPos' \in 0..Len(cells) /\ moves' = moves + 1 /\ stash' = stash
      BY <2>3 DEF HistoryNext, HistoryMove, FreshLine
    <3>2. input' = IF histPos' = Len(cells) THEN stash ELSE cells[histPos' + 1].src
      BY <2>3 DEF HistoryNext, Line
    <3>. QED BY <1>1, <3>1, <3>2
  <2>4. CASE Escape
    BY <2>4 DEF Escape, HistoryMove, Inputs
  <2>5. CASE \E n \in Numbers : CopyInput(n)
    BY <1>1, <2>5 DEF CopyInput, HistoryMove, Numbers
  <2>. QED BY <2>1, <2>2, <2>3, <2>4, <2>5
<1>. QED BY <1>2, <1>3 DEF Numbers

\* A new cell.
LEMMA SubmitTyped ==
  ASSUME ReplTypeOK, Submit
  PROVE  /\ ReplTypeOK'
         /\ Len(cells') = Len(cells) + 1
         /\ \A n \in Numbers : cells'[n] = cells[n]
         /\ cells'[Len(cells) + 1] = [src |-> input, status |-> "evaluating", console |-> {}, value |-> FALSE]
<1> USE DEF ReplTypeOK, Submit, kernel
<1> DEFINE cell == [src |-> input, status |-> "evaluating", console |-> {}, value |-> FALSE]
<1>1. cells \in Seq(CellRecords) /\ cell \in CellRecords
  BY DEF CellRecords, Inputs
<1>2. /\ cells' = Append(cells, cell)
  OBVIOUS
<1> HIDE DEF cell
<1>3. /\ cells' \in Seq(CellRecords) /\ Len(cells') = Len(cells) + 1
      /\ \A n \in 1..Len(cells) : cells'[n] = cells[n]
      /\ cells'[Len(cells) + 1] = cell
  BY <1>1, <1>2, AppendProperties
<1>4. Len(cells') <= MaxCells
  BY <1>3, ReplAssumption
<1>5. evals' \in Seq(Numbers')
  BY <1>3 DEF Numbers
<1>6. worker' \in [at : Stages, n : 0..Len(cells')]
  BY <1>3
<1>7. sending' \in 0..Len(cells') /\ histPos' \in 0..Len(cells') /\ input' \in Inputs /\ stash' \in Inputs /\ moves' \in Nat
  BY <1>3 DEF Inputs
<1>8. ReplTypeOK'
  BY <1>3, <1>4, <1>5, <1>6, <1>7 DEF CellRecords
<1>. QED BY <1>3, <1>8 DEF cell, Numbers

\* An outcome lands in its cell.
LEMMA CompleteTyped ==
  ASSUME ReplTypeOK, DoneOwn, Complete
  PROVE  /\ ReplTypeOK'
         /\ Len(cells') = Len(cells)
         /\ \A n \in Numbers : cells'[n].src = cells[n].src
         /\ \A j \in DOMAIN done' : \E i \in DOMAIN done : done'[j] = done[i]
         /\ \E k \in DOMAIN done :
              /\ cells'[done[k].n].status = done[k].status
              /\ cells'[done[k].n].console = done[k].console
              /\ cells'[done[k].n].value = done[k].value
              /\ \A n \in Numbers \ {done[k].n} : cells'[n] = cells[n]
<1> USE DEF ReplTypeOK, kernel
<1>1. PICK k \in DOMAIN done :
        /\ done' = RemoveAt(done, k)
        /\ cells' = [cells EXCEPT ![done[k].n] =
             [src |-> @.src, status |-> done[k].status, console |-> done[k].console, value |-> done[k].value]]
  BY DEF Complete
<1>2. UNCHANGED <<input, histPos, stash, moves, sending, evals, kernel>>
  BY DEF Complete
<1>3. done[k] \in Outcomes /\ done[k].n \in DOMAIN cells
  BY DEF DoneOwn, Own, Numbers
<1> DEFINE n0 == done[k].n
           new == [src |-> cells[n0].src, status |-> done[k].status, console |-> done[k].console, value |-> done[k].value]
<1>4. cells \in Seq(CellRecords)
  BY DEF CellRecords
<1>5. cells[n0] \in CellRecords
  BY <1>3, <1>4
<1>10. new \in CellRecords
  BY <1>3, <1>5 DEF CellRecords, Outcomes
<1>13. cells' = [cells EXCEPT ![n0] = new]
  BY <1>1
<1> HIDE DEF new
<1>6. /\ cells' \in Seq(CellRecords) /\ Len(cells') = Len(cells)
      /\ cells'[n0] = new
      /\ \A n \in Numbers \ {n0} : cells'[n] = cells[n]
  BY <1>3, <1>4, <1>10, <1>13 DEF Numbers
<1>7. \A n \in Numbers : cells'[n].src = cells[n].src
  BY <1>6 DEF new
<1>8. /\ done' \in Seq(Outcomes)
      /\ \A j \in DOMAIN done' : \E i \in DOMAIN done : done'[j] = done[i]
  BY <1>1, Removed
<1>9. ReplTypeOK'
  BY <1>2, <1>6, <1>8 DEF CellRecords, Numbers
<1>14. /\ cells'[n0].status = done[k].status /\ cells'[n0].console = done[k].console
       /\ cells'[n0].value = done[k].value
  BY <1>6 DEF new
<1>15. \E i \in DOMAIN done :
         /\ cells'[done[i].n].status = done[i].status
         /\ cells'[done[i].n].console = done[i].console
         /\ cells'[done[i].n].value = done[i].value
         /\ \A n \in Numbers \ {done[i].n} : cells'[n] = cells[n]
  <2>. WITNESS k \in DOMAIN done
  <2>. QED BY <1>6, <1>14
<1>. QED BY <1>6, <1>7, <1>8, <1>9, <1>15
-----------------------------------------------------------------------------
(* The invariant.                                                          *)

\* A key that submits nothing leaves the cells and the worker alone.
LEMMA KeysKept ==
  ASSUME CellsInv,
         (\E src \in Sources : Type(src)) \/ HistoryPrev \/ HistoryNext \/ Escape \/ (\E n \in Numbers : CopyInput(n))
  PROVE  CellsInv'
<1>1. ReplTypeOK'
  BY KeysTyped DEF CellsInv
<1>2. UNCHANGED <<cells, sending, evals, worker, runs, printed, outcome, done>>
  BY DEF Type, HistoryPrev, HistoryNext, Escape, CopyInput, HistoryMove, kernel
<1>3. (HeldOnce /\ WaitingUnrun /\ StageUnrun /\ PrintedOwn)'
  BY <1>2 DEF CellsInv, HeldOnce, WaitingUnrun, StageUnrun, PrintedOwn, Numbers, Src
<1>4. (OutcomeOwn /\ DoneOwn)'
  BY <1>2 DEF CellsInv, OutcomeOwn, DoneOwn, Own, Numbers
<1>5. CellsOwn'
  BY <1>2 DEF CellsInv, CellsOwn, RunsOnce, OutputsOwn, Numbers
<1>. QED BY <1>1, <1>3, <1>4, <1>5 DEF CellsInv

\* A new cell is nobody's yet.
LEMMA SubmitKept ==
  ASSUME CellsInv, Submit
  PROVE  CellsInv'
<1>1. /\ ReplTypeOK /\ ReplTypeOK'
      /\ Len(cells') = Len(cells) + 1
      /\ \A n \in 1..Len(cells) : cells'[n] = cells[n]
      /\ cells'[Len(cells) + 1] = [src |-> input, status |-> "evaluating", console |-> {}, value |-> FALSE]
  BY SubmitTyped DEF CellsInv, Numbers
<1>2. Len(cells) \in Nat /\ Len(cells) + 1 \in 1..MaxCells
  BY <1>1, ReplAssumption DEF Submit, ReplTypeOK
<1>3. sending = 0 /\ sending' = Len(cells) + 1 /\ UNCHANGED <<evals, worker, runs, printed, outcome, done>>
  BY <1>1 DEF Submit, OnLoop, kernel
<1>4. HeldOnce'
  <2>1. \A i \in DOMAIN evals : evals[i] \in 1..Len(cells)
    BY <1>1, SMTT(30) DEF ReplTypeOK, Numbers
  <2>. QED BY <1>1, <1>2, <1>3, <2>1 DEF CellsInv, HeldOnce, Numbers
<1>5. WaitingUnrun'
  BY <1>1, <1>2, <1>3 DEF CellsInv, WaitingUnrun
<1>6. worker.at # "take" => worker.n \in 1..Len(cells)
  BY DEF CellsInv, HeldOnce, Numbers
<1>7. StageUnrun' /\ PrintedOwn'
  BY <1>1, <1>3, <1>6 DEF CellsInv, StageUnrun, PrintedOwn, Src
<1>8. \A o : Own(o) => Own(o)'
  BY <1>1, <1>2 DEF Own, Numbers
<1>9. OutcomeOwn' /\ DoneOwn'
  BY <1>3, <1>8 DEF CellsInv, OutcomeOwn, DoneOwn
<1>10. CellsOwn'
  <2>1. \A n \in 1..Len(cells') : n \in 1..Len(cells) \/ n = Len(cells) + 1
    BY <1>1, <1>2
  <2>. QED BY <1>1, <1>3, <2>1 DEF CellsInv, CellsOwn, RunsOnce, OutputsOwn, Numbers
<1>. QED BY <1>1, <1>4, <1>5, <1>7, <1>9, <1>10 DEF CellsInv

\* A cell is queued once, by the loop that made it.
LEMMA QueueKept ==
  ASSUME CellsInv, Queue
  PROVE  CellsInv'
<1>1. UNCHANGED <<cells, input, histPos, stash, moves, worker, runs, printed, outcome, done>>
  BY DEF Queue, session, kernel
<1>2. ReplTypeOK
  BY DEF CellsInv
<1>3. sending \in Numbers /\ sending' = 0 /\ evals' = Append(evals, sending)
  BY <1>2 DEF Queue, ReplTypeOK, Numbers
<1>4. /\ evals' \in Seq(Numbers) /\ Len(evals') = Len(evals) + 1
      /\ \A i \in 1..Len(evals) : evals'[i] = evals[i]
      /\ evals'[Len(evals) + 1] = sending
  BY <1>2, <1>3, AppendProperties DEF ReplTypeOK
<1>5. /\ DOMAIN evals = 1..Len(evals) /\ Len(evals) \in Nat
      /\ DOMAIN evals' = 1..(Len(evals) + 1)
  BY <1>2, <1>4 DEF ReplTypeOK
<1>6. ReplTypeOK'
  BY <1>1, <1>2, <1>3, <1>4 DEF ReplTypeOK, Numbers
<1>7. HeldOnce'
  <2>1. \A i \in 1..Len(evals) : evals[i] # sending
    BY <1>5 DEF CellsInv, HeldOnce
  <2>2. \A i, j \in DOMAIN evals' : evals'[i] = evals'[j] => i = j
    <3>1. \A i, j \in 1..Len(evals) : evals[i] = evals[j] => i = j
      BY <1>5 DEF CellsInv, HeldOnce
    <3>. QED BY <1>4, <1>5, <2>1, <3>1
  <2>3. \A i \in DOMAIN evals' : evals'[i] # 0
    BY <1>4, <1>5 DEF Numbers
  <2>4. worker.at # "take" => worker.n # sending /\ \A i \in 1..Len(evals) : evals[i] # worker.n
    BY <1>5 DEF CellsInv, HeldOnce
  <2>5. worker.at # "take" => \A i \in DOMAIN evals' : evals'[i] # worker.n
    BY <1>4, <1>5, <2>4
  <2>6. worker.at # "take" => worker.n \in Numbers /\ worker.n # 0
    BY DEF CellsInv, HeldOnce, Numbers
  <2>. QED BY <1>1, <1>3, <2>2, <2>3, <2>5, <2>6 DEF HeldOnce, Numbers
<1>8. WaitingUnrun'
  <2>1. runs[sending] = 0 /\ \A n \in 1..MaxCells : n > Len(cells) => runs[n] = 0
    <3>1. sending \in 1..MaxCells
      BY <1>2, <1>3, ReplAssumption DEF ReplTypeOK, Numbers
    <3>2. WaitingUnrun
      BY DEF CellsInv
    <3>. QED BY <3>1, <3>2 DEF WaitingUnrun
  <2>2. \A i \in 1..Len(evals) : runs[evals[i]] = 0
    BY <1>5 DEF CellsInv, WaitingUnrun
  <2>3. \A i \in DOMAIN evals' : runs[evals'[i]] = 0
    BY <1>4, <1>5, <2>1, <2>2
  <2>. QED BY <1>1, <1>3, <2>1, <2>3 DEF WaitingUnrun
<1>9. (StageUnrun /\ PrintedOwn)'
  BY <1>1 DEF CellsInv, StageUnrun, PrintedOwn, Src
<1>10. (OutcomeOwn /\ DoneOwn)'
  BY <1>1 DEF CellsInv, OutcomeOwn, DoneOwn, Own, Numbers
<1>11. CellsOwn'
  BY <1>1 DEF CellsInv, CellsOwn, RunsOnce, OutputsOwn, Numbers
<1>. QED BY <1>6, <1>7, <1>8, <1>9, <1>10, <1>11 DEF CellsInv

\* The worker takes the oldest cell of the queue.
LEMMA TakeKept ==
  ASSUME CellsInv, Take
  PROVE  CellsInv'
<1> DEFINE head == Head(evals)
<1>1. UNCHANGED <<cells, input, histPos, stash, moves, sending, runs, printed, done>>
  BY DEF Take, WorkerAt, session
<1>2. /\ ReplTypeOK /\ worker.at = "take" /\ evals # <<>> /\ evals' = Tail(evals)
      /\ worker' = [at |-> "wrapped", n |-> head] /\ outcome' = [Nothing EXCEPT !.n = head]
  BY DEF CellsInv, Take, WorkerAt
<1>3. outcome' = [n |-> head, status |-> "done", console |-> {}, value |-> FALSE]
  BY <1>2 DEF Nothing
<1>4. /\ evals \in Seq(Numbers) /\ Len(evals) \in Nat \ {0} /\ DOMAIN evals = 1..Len(evals)
      /\ head = evals[1] /\ head \in Numbers
  BY <1>2 DEF ReplTypeOK
<1>5. /\ evals' \in Seq(Numbers) /\ DOMAIN evals' = 1..(Len(evals) - 1)
      /\ \A i \in 1..(Len(evals) - 1) : evals'[i] = evals[i + 1]
  BY <1>2, <1>4
<1> HIDE DEF head
<1>6. ReplTypeOK'
  <2>1. head \in 1..MaxCells
    BY <1>2, <1>4, ReplAssumption DEF ReplTypeOK, Numbers
  <2>2. outcome' \in Outcomes
    BY <1>3, <2>1 DEF Outcomes
  <2>3. head \in 0..Len(cells) /\ "wrapped" \in Stages
    BY <1>4 DEF Numbers, Stages
  <2>4. worker' \in [at : Stages, n : 0..Len(cells)]
    BY <1>2, <2>3
  <2>. QED BY <1>1, <1>2, <1>5, <2>2, <2>4 DEF ReplTypeOK, Numbers
<1>7. HeldOnce'
  <2>1. \A i \in 1..Len(evals) : evals[i] # sending /\ \A j \in 1..Len(evals) : evals[i] = evals[j] => i = j
    BY <1>4 DEF CellsInv, HeldOnce
  <2>2. \A i, j \in DOMAIN evals' : evals'[i] = evals'[j] => i = j
    BY <1>4, <1>5, <2>1
  <2>3. \A i \in DOMAIN evals' : evals'[i] # sending /\ evals'[i] # head
    BY <1>4, <1>5, <2>1
  <2>4. head # sending
    BY <1>4, <2>1
  <2>. QED BY <1>1, <1>2, <1>4, <2>2, <2>3, <2>4 DEF HeldOnce, Numbers
<1>8. runs[head] = 0 /\ \A i \in DOMAIN evals' : runs[evals'[i]] = 0
  BY <1>4, <1>5 DEF CellsInv, WaitingUnrun
<1>9. (WaitingUnrun /\ StageUnrun)'
  BY <1>1, <1>2, <1>8 DEF CellsInv, WaitingUnrun, StageUnrun
<1>10. PrintedOwn'
  BY <1>1, <1>2 DEF CellsInv, PrintedOwn
<1>11. (OutcomeOwn /\ DoneOwn)'
  BY <1>1, <1>2, <1>3, <1>4, SMTT(30) DEF CellsInv, OutcomeOwn, DoneOwn, Own, Numbers
<1>12. CellsOwn'
  BY <1>1 DEF CellsInv, CellsOwn, RunsOnce, OutputsOwn, Numbers
<1>. QED BY <1>6, <1>7, <1>9, <1>10, <1>11, <1>12 DEF CellsInv

\* What a source does when it runs, for the first time.
LEMMA Executed ==
  ASSUME ReplTypeOK, worker.n \in Numbers, Execute
  PROVE  /\ runs' \in [1..MaxCells -> Nat] /\ runs'[worker.n] = runs[worker.n] + 1
         /\ \A n \in 1..MaxCells \ {worker.n} : runs'[n] = runs[n]
         /\ printed' \subseteq printed \cup {worker.n}
         /\ printed' \subseteq 1..MaxCells
<1>1. worker.n \in 1..MaxCells
  BY ReplAssumption DEF ReplTypeOK, Numbers
<1>2. runs' = [runs EXCEPT ![worker.n] = @ + 1] /\ runs \in [1..MaxCells -> Nat]
  BY DEF Execute, ReplTypeOK
<1>3. printed' \subseteq printed \cup {worker.n}
  BY DEF Execute
<1>4. printed' \subseteq 1..MaxCells
  BY <1>1, <1>3 DEF ReplTypeOK
<1>. QED BY <1>1, <1>2, <1>3, <1>4

\* The two evaluations: one of them executes.
LEMMA EvaluatesKept ==
  ASSUME CellsInv, Wrapped \/ Raw
  PROVE  CellsInv'
<1>1. /\ UNCHANGED <<cells, input, histPos, stash, moves, sending, evals, done>>
      /\ worker.at \in {"wrapped", "raw"} /\ worker'.n = worker.n
      /\ worker' \in [at : Stages, n : 0..Len(cells)]
      /\ worker'.at \in {"raw", "capture"}
  BY DEF CellsInv, ReplTypeOK, Wrapped, Raw, WorkerAt, WorkerTo, session, Stages
<1>2. /\ ReplTypeOK /\ worker.n \in Numbers /\ worker.n # sending /\ runs[worker.n] = 0
      /\ \A i \in DOMAIN evals : evals[i] # worker.n
      /\ Own(outcome) /\ outcome.n = worker.n /\ printed \subseteq {worker.n}
      /\ worker.at = "raw" => Src \in {"stmt", "bad"}
  BY <1>1 DEF CellsInv, HeldOnce, StageUnrun, OutcomeOwn, PrintedOwn
<1>3. Src \in Sources
  <2>1. cells \in Seq(CellRecords)
    BY <1>2 DEF ReplTypeOK, CellRecords
  <2>2. cells[worker.n] \in CellRecords
    BY <1>2, <2>1 DEF Numbers
  <2>. QED BY <2>2 DEF CellRecords, Src
<1>4. /\ outcome'.n = worker.n /\ outcome'.console = outcome.console /\ outcome' \in Outcomes
      /\ outcome'.value => Src = "expr"
      /\ outcome'.status = "error" => Src \in {"throws", "bad"}
  <2>1. CASE Wrapped
    BY <1>2, <2>1 DEF Wrapped, ReplTypeOK, Outcomes
  <2>2. CASE Raw
    <3>1. worker.at = "raw" /\ outcome' = [outcome EXCEPT !.status = IF Src = "stmt" THEN "done" ELSE "error"]
      BY <2>2 DEF Raw, WorkerAt
    <3>2. Src \in {"stmt", "bad"} /\ outcome \in Outcomes /\ outcome.n = worker.n
      BY <1>2, <3>1 DEF ReplTypeOK
    <3>3. outcome.value => Src = "expr"
      BY <1>2 DEF Own, Src
    <3>4. /\ outcome'.n = outcome.n /\ outcome'.console = outcome.console /\ outcome' \in Outcomes
          /\ outcome'.value = outcome.value
      BY <3>1, <3>2 DEF Outcomes
    <3>5. outcome'.status = "error" => Src = "bad"
      BY <3>1, <3>2 DEF Outcomes
    <3>. QED BY <3>2, <3>3, <3>4, <3>5
  <2>. QED BY <2>1, <2>2
<1>5. \/ UNCHANGED <<runs, printed>>
      \/ Execute /\ worker'.at = "capture"
  BY <1>2 DEF Wrapped, Raw, WorkerTo, ReplTypeOK
<1>6. /\ runs' \in [1..MaxCells -> Nat] /\ runs'[worker.n] <= 1
      /\ \A n \in 1..MaxCells \ {worker.n} : runs'[n] = runs[n]
      /\ printed' \subseteq {worker.n} /\ printed' \subseteq 1..MaxCells
      /\ worker'.at = "raw" => runs'[worker.n] = 0
  <2>1. CASE UNCHANGED <<runs, printed>>
    BY <1>2, <2>1 DEF ReplTypeOK
  <2>2. CASE Execute /\ worker'.at = "capture"
    BY <1>2, <2>2, Executed
  <2>. QED BY <1>5, <2>1, <2>2
<1>7. ReplTypeOK'
  BY <1>1, <1>2, <1>4, <1>6 DEF ReplTypeOK, Numbers
<1>8. HeldOnce'
  BY <1>1, <1>2 DEF CellsInv, HeldOnce, Numbers
<1>9. WaitingUnrun'
  <2>1. \A n \in 1..MaxCells : n > Len(cells) \/ n = sending => n # worker.n /\ runs[n] = 0
    BY <1>2 DEF CellsInv, WaitingUnrun, Numbers, ReplTypeOK
  <2>2. \A i \in DOMAIN evals : evals[i] \in 1..MaxCells /\ evals[i] # worker.n /\ runs[evals[i]] = 0
    <3>1. \A i \in DOMAIN evals : evals[i] \in Numbers /\ runs[evals[i]] = 0
      BY <1>2 DEF CellsInv, WaitingUnrun, ReplTypeOK
    <3>. QED BY <1>2, <3>1, ReplAssumption, SMTT(30) DEF ReplTypeOK, Numbers
  <2>. QED BY <1>1, <1>6, <2>1, <2>2 DEF WaitingUnrun
<1>10. StageUnrun'
  <2>1. worker'.at = "raw" => Src \in {"stmt", "bad"}
    BY <1>1 DEF Wrapped, Raw, WorkerTo, CellsInv, ReplTypeOK
  <2>. QED BY <1>1, <1>6, <2>1 DEF StageUnrun, Src
<1>11. PrintedOwn'
  BY <1>1, <1>6 DEF PrintedOwn
<1>12. OutcomeOwn' /\ DoneOwn'
  BY <1>1, <1>2, <1>4 DEF CellsInv, OutcomeOwn, DoneOwn, Own, Numbers, Src
<1>13. CellsOwn'
  <2>1. RunsOnce'
    BY <1>6 DEF CellsInv, CellsOwn, RunsOnce
  <2>. QED BY <1>1, <2>1 DEF CellsInv, CellsOwn, OutputsOwn, Numbers
<1>. QED BY <1>7, <1>8, <1>9, <1>10, <1>11, <1>12, <1>13 DEF CellsInv

\* The console goes to the cell that printed it, and is empty again.
LEMMA CaptureKept ==
  ASSUME CellsInv, Capture
  PROVE  CellsInv'
<1>1. /\ UNCHANGED <<cells, input, histPos, stash, moves, sending, evals, runs, done>>
      /\ worker.at = "capture" /\ worker' = [worker EXCEPT !.at = "post"]
      /\ outcome' = [outcome EXCEPT !.console = printed] /\ printed' = {}
  BY DEF Capture, WorkerAt, WorkerTo, session
<1>2. ReplTypeOK /\ HeldOnce /\ Own(outcome) /\ outcome.n = worker.n /\ printed \subseteq {worker.n}
  BY <1>1 DEF CellsInv, OutcomeOwn, PrintedOwn
<1>3. worker'.at = "post" /\ worker'.n = worker.n /\ worker' \in [at : Stages, n : 0..Len(cells)]
  BY <1>1, <1>2 DEF ReplTypeOK, Stages
<1>4. /\ outcome' \in Outcomes /\ outcome'.n = outcome.n /\ outcome'.console = printed
      /\ outcome'.value = outcome.value /\ outcome'.status = outcome.status
  BY <1>1, <1>2 DEF ReplTypeOK, Outcomes
<1>5. ReplTypeOK'
  BY <1>1, <1>2, <1>3, <1>4 DEF ReplTypeOK, Numbers
<1>6. HeldOnce'
  BY <1>1, <1>2, <1>3 DEF HeldOnce, Numbers
<1>7. (WaitingUnrun /\ StageUnrun /\ PrintedOwn)'
  BY <1>1, <1>3 DEF CellsInv, WaitingUnrun, StageUnrun, PrintedOwn
<1>8. (OutcomeOwn /\ DoneOwn)'
  BY <1>1, <1>2, <1>3, <1>4 DEF CellsInv, OutcomeOwn, DoneOwn, Own, Numbers
<1>9. CellsOwn'
  BY <1>1 DEF CellsInv, CellsOwn, RunsOnce, OutputsOwn, Numbers
<1>. QED BY <1>5, <1>6, <1>7, <1>8, <1>9 DEF CellsInv

\* The outcome is posted; the worker is free.
LEMMA PostKept ==
  ASSUME CellsInv, PostOutcome
  PROVE  CellsInv'
<1>1. /\ UNCHANGED <<cells, input, histPos, stash, moves, sending, evals, runs, printed, outcome>>
      /\ worker.at = "post" /\ worker' = Waiting /\ done' = Append(done, outcome)
  BY DEF PostOutcome, WorkerAt, session
<1>2. ReplTypeOK /\ HeldOnce /\ WaitingUnrun /\ Own(outcome) /\ printed = {} /\ DoneOwn /\ CellsOwn
  BY <1>1 DEF CellsInv, OutcomeOwn, PrintedOwn
<1>3. /\ done' \in Seq(Outcomes) /\ Len(done') = Len(done) + 1
      /\ \A k \in 1..Len(done) : done'[k] = done[k]
      /\ done'[Len(done) + 1] = outcome
  BY <1>1, <1>2, AppendProperties DEF ReplTypeOK
<1>4. DOMAIN done = 1..Len(done) /\ DOMAIN done' = 1..(Len(done) + 1) /\ Len(done) \in Nat
  BY <1>2, <1>3 DEF ReplTypeOK
<1>5. worker'.at = "take" /\ worker' \in [at : Stages, n : 0..Len(cells)]
  BY <1>1, <1>2 DEF ReplTypeOK, Waiting, Stages
<1>6. ReplTypeOK'
  BY <1>1, <1>2, <1>3, <1>5 DEF ReplTypeOK, Numbers
<1>7. (HeldOnce /\ WaitingUnrun /\ StageUnrun /\ PrintedOwn)'
  BY <1>1, <1>2, <1>5 DEF HeldOnce, WaitingUnrun, StageUnrun, PrintedOwn
<1>8. \A o : Own(o) => Own(o)'
  BY <1>1 DEF Own, Numbers
<1>9. DoneOwn'
  <2>1. \A k \in 1..Len(done) : Own(done[k])
    BY <1>2, <1>4 DEF DoneOwn
  <2>2. \A k \in DOMAIN done' : Own(done'[k])
    BY <1>2, <1>3, <1>4, <2>1
  <2>. QED BY <1>1, <2>2 DEF DoneOwn, Own, Numbers
<1>10. (OutcomeOwn /\ CellsOwn)'
  BY <1>1, <1>2, <1>5 DEF OutcomeOwn, CellsOwn, RunsOnce, OutputsOwn, Numbers
<1>. QED BY <1>6, <1>7, <1>9, <1>10 DEF CellsInv

\* A completed cell gets what its source gave.
LEMMA CompleteKept ==
  ASSUME CellsInv, Complete
  PROVE  CellsInv'
<1>1. /\ ReplTypeOK /\ DoneOwn /\ CellsOwn /\ HeldOnce /\ WaitingUnrun
      /\ StageUnrun /\ PrintedOwn /\ OutcomeOwn
  BY DEF CellsInv
<1>2. /\ ReplTypeOK' /\ Len(cells') = Len(cells)
      /\ \A n \in Numbers : cells'[n].src = cells[n].src
      /\ \A j \in DOMAIN done' : \E i \in DOMAIN done : done'[j] = done[i]
  BY <1>1, CompleteTyped
<1>3. PICK k \in DOMAIN done :
        /\ cells'[done[k].n].status = done[k].status
        /\ cells'[done[k].n].console = done[k].console
        /\ cells'[done[k].n].value = done[k].value
        /\ \A n \in Numbers \ {done[k].n} : cells'[n] = cells[n]
  BY <1>1, CompleteTyped
<1>4. UNCHANGED <<sending, evals, worker, runs, printed, outcome>> /\ Numbers' = Numbers
  BY <1>2 DEF Complete, kernel, Numbers
<1>5. (HeldOnce /\ WaitingUnrun /\ PrintedOwn)'
  BY <1>1, <1>2, <1>4 DEF HeldOnce, WaitingUnrun, PrintedOwn
<1>6. StageUnrun'
  <2>1. worker.at = "raw" => worker.n \in Numbers
    BY <1>1 DEF HeldOnce
  <2>. QED BY <1>1, <1>2, <1>4, <2>1 DEF StageUnrun, Src
<1>7. \A o : Own(o) => o.n \in Numbers /\ o.console \subseteq {o.n}
                      /\ (o.value => cells'[o.n].src = "expr")
                      /\ (o.status = "error" => cells'[o.n].src \in {"throws", "bad"})
  BY <1>2 DEF Own
<1>8. (OutcomeOwn /\ DoneOwn)'
  <2>1. OutcomeOwn'
    BY <1>1, <1>4, <1>7 DEF OutcomeOwn, Own
  <2>2. \A j \in DOMAIN done' : Own(done'[j])
    BY <1>1, <1>2 DEF DoneOwn
  <2>. QED BY <1>4, <1>7, <2>1, <2>2 DEF DoneOwn, Own
<1>9. CellsOwn'
  <2>1. Own(done[k])
    BY <1>1, <1>3 DEF DoneOwn
  <2>2. ASSUME NEW n \in Numbers
        PROVE  /\ cells'[n].console \subseteq {n}
               /\ cells'[n].value => cells'[n].src = "expr"
               /\ cells'[n].status = "error" => cells'[n].src \in {"throws", "bad"}
    <3>1. CASE n = done[k].n
      BY <1>3, <1>7, <2>1, <3>1
    <3>2. CASE n # done[k].n
      BY <1>1, <1>3, <3>2 DEF CellsOwn, OutputsOwn
    <3>. QED BY <3>1, <3>2
  <2>. QED BY <1>1, <1>4, <2>2 DEF CellsOwn, OutputsOwn, RunsOnce
<1>. QED BY <1>1, <1>2, <1>5, <1>6, <1>8, <1>9 DEF CellsInv
-----------------------------------------------------------------------------
\* Every step preserves the invariant.
LEMMA ReplKeeps ==
  ASSUME CellsInv, [ReplNext]_replVars
  PROVE  CellsInv'
<1>1. CASE (\E src \in Sources : Type(src)) \/ HistoryPrev \/ HistoryNext \/ Escape \/ (\E n \in Numbers : CopyInput(n))
  BY <1>1, KeysKept
<1>2. CASE Submit
  BY <1>2, SubmitKept
<1>3. CASE Queue \/ Complete
  BY <1>3, QueueKept, CompleteKept
<1>4. CASE Take
  BY <1>4, TakeKept
<1>5. CASE Wrapped \/ Raw
  BY <1>5, EvaluatesKept
<1>6. CASE Capture \/ PostOutcome
  BY <1>6, CaptureKept, PostKept
<1>7. CASE UNCHANGED replVars
  <2>1. UNCHANGED <<cells, input, histPos, stash, moves, sending, evals, worker, runs, printed, outcome, done>>
    BY <1>7 DEF replVars, session
  <2>2. (ReplTypeOK /\ HeldOnce /\ WaitingUnrun /\ StageUnrun /\ PrintedOwn)'
    BY <2>1 DEF CellsInv, ReplTypeOK, HeldOnce, WaitingUnrun, StageUnrun, PrintedOwn, Numbers, Src
  <2>3. (OutcomeOwn /\ DoneOwn /\ CellsOwn)'
    BY <2>1 DEF CellsInv, OutcomeOwn, DoneOwn, Own, CellsOwn, RunsOnce, OutputsOwn, Numbers
  <2>. QED BY <2>2, <2>3 DEF CellsInv
<1>. QED
  BY <1>1, <1>2, <1>3, <1>4, <1>5, <1>6, <1>7 DEF ReplNext, UILoop, evalWorker

(***************************************************************************)
(* No source of a notebook runs twice, and a cell shows the lines, the     *)
(* value or the error of its own source, for any capacity of the queue and *)
(* whatever order the outcomes arrive in.                                  *)
(***************************************************************************)
THEOREM ReplCellsOwn == ReplSpec => []CellsOwn
<1>1. ReplInit => CellsInv
  BY ReplInitHolds
<1>2. CellsInv /\ [ReplNext]_replVars => CellsInv'
  BY ReplKeeps
<1>3. CellsInv => CellsOwn
  BY DEF CellsInv
<1>. QED BY <1>1, <1>2, <1>3, PTL DEF ReplSpec
-----------------------------------------------------------------------------
(* Frames of script applications.                                          *)

\* No surface is ahead of the snapshot, nor the snapshot of the script.
FrameInv ==
    /\ state \in Nat /\ rows \in 0..state
    /\ painted \in [Surfaces -> 0..rows]

\* What a step does to frames: it leaves them, renders, or paints one.
Renders == state' \in {state, state + 1} /\ rows' \in {rows, state'} /\ painted' = painted
Paints(s) == s \in Surfaces /\ state' = state /\ rows' = rows /\ painted' = [painted EXCEPT ![s] = rows]

LEMMA FramesChange ==
  ASSUME [AppNext]_appVars
  PROVE  Renders \/ \E s \in Surfaces : Paints(s)
<1>1. CASE UNCHANGED appVars
  BY <1>1 DEF appVars, Renders
<1>2. CASE Dispatch \/ refresh
  BY <1>2 DEF Dispatch, refresh, RunHandler, Rerender, Renders, screen
<1>3. CASE CopyHooks \/ CallHook \/ TileAnswered \/ show \/ AskTile \/ Started \/ CloseWindow
  BY <1>3 DEF CopyHooks, CallHook, TileAnswered, show, AskTile, Started, CloseWindow, Renders, jsState, screen
<1>4. CASE RegisterTile
  BY <1>4 DEF RegisterTile, Paint, Paints, Renders, Surfaces, jsState
<1>5. CASE FirstFrame
  BY <1>5 DEF FirstFrame, Paint, Paints, Surfaces, jsState
<1>6. CASE Repaint("window") \/ Repaint("tile")
  BY <1>6 DEF Repaint, Paint, Paints, Surfaces, jsState
<1>7. ASSUME NEW s \in Surfaces, Expose(s)
      PROVE  Paints(s)
  BY <1>7 DEF Expose, Paint, Paints, jsState
<1>8. ASSUME NEW s \in Surfaces, HandleKey(s) \/ HandleAction(s)
      PROVE  Renders
  BY <1>8 DEF HandleKey, HandleAction, Renders, jsState, screen
<1>. QED BY <1>1, <1>2, <1>3, <1>4, <1>5, <1>6, <1>7, <1>8 DEF AppNext, OwnerLoop, WindowLoop, TileLoop

LEMMA FramesStep ==
  ASSUME FrameInv, [AppNext]_appVars
  PROVE  FrameInv' /\ \A s \in Surfaces : painted'[s] >= painted[s]
<1>1. state \in Nat /\ rows \in 0..state /\ painted \in [Surfaces -> 0..rows]
  BY DEF FrameInv
<1>2. CASE Renders
  <2>1. state' \in Nat /\ rows' \in 0..state' /\ rows <= rows' /\ painted' = painted
    BY <1>1, <1>2 DEF Renders
  <2>2. painted' \in [Surfaces -> 0..rows']
    BY <1>1, <2>1
  <2>. QED BY <1>1, <2>1, <2>2 DEF FrameInv, Surfaces
<1>3. ASSUME NEW s \in Surfaces, Paints(s)
      PROVE  FrameInv' /\ \A r \in Surfaces : painted'[r] >= painted[r]
  BY <1>1, <1>3 DEF FrameInv, Paints, Surfaces
<1>. QED BY <1>2, <1>3, FramesChange

\* A render that throws, a surface that opens late or a repaint that was
\* overtaken never puts an older frame on screen (rerenderOnLoop stores the
\* rows only when render returns, and a surface reads the last ones stored).
THEOREM FramesGoForward == AppSpec => FramesForward
<1>1. AppInit => FrameInv
  BY DEF AppInit, FrameInv
<1>2. FrameInv /\ [AppNext]_appVars => FrameInv' /\ \A s \in Surfaces : painted'[s] >= painted[s]
  BY FramesStep
<1>. QED BY <1>1, <1>2, PTL DEF AppSpec, FramesForward
=============================================================================
