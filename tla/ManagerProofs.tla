--------------------------- MODULE ManagerProofs ---------------------------
(***************************************************************************)
(* Proofs about what works for the window manager's loop and beside it,    *)
(* for any number of callers, daemons, timers and calls:                   *)
(*   - Frecency: the launch counts reach the file and are not lost from it;*)
(*   - Commands: a launch runs once, in the script that served it, and an  *)
(*     entry of a daemon that lives stays;                                 *)
(*   - WmLoop: calls are answered as of their own time and, from a script  *)
(*     in the process, run in order; accept mode follows the broker;       *)
(*   - Launcher: the keyboard is back at the focus once the popup is       *)
(*     closed, and a row launches what it says;                            *)
(*   - AppScan: a scan that no write disturbed leaves the cache up to date.*)
(* The components share no state, and each part uses its own assumptions.  *)
(***************************************************************************)
EXTENDS Frecency, Commands, WmLoop, Launcher, AppScan, Integers, FiniteSetTheorems, WellFoundedInduction, TLAPS

-----------------------------------------------------------------------------
(* Sequences.                                                              *)

LEMMA SeqGrows ==
  ASSUME NEW S, NEW T, S \subseteq T, NEW q \in Seq(S)
  PROVE  q \in Seq(T)
OBVIOUS

\* The first is taken off.
LEMMA TailTyped ==
  ASSUME NEW S, NEW q \in Seq(S), q # <<>>
  PROVE  /\ Head(q) \in S /\ Head(q) = q[1] /\ 1 \in DOMAIN q
         /\ Tail(q) \in Seq(S) /\ Len(Tail(q)) = Len(q) - 1 /\ DOMAIN Tail(q) = 1..(Len(q) - 1)
         /\ \A i \in 1..(Len(q) - 1) : Tail(q)[i] = q[i + 1]
<1>1. Len(q) \in Nat \ {0} /\ DOMAIN q = 1..Len(q)
  OBVIOUS
<1>2. Head(q) \in S /\ Head(q) = q[1] /\ 1 \in DOMAIN q
  BY <1>1
<1>3. Tail(q) \in Seq(S) /\ Len(Tail(q)) = Len(q) - 1
  OBVIOUS
<1>4. DOMAIN Tail(q) = 1..(Len(q) - 1)
  BY <1>3
<1>5. \A i \in 1..(Len(q) - 1) : Tail(q)[i] = q[i + 1]
  OBVIOUS
<1>. QED BY <1>2, <1>3, <1>4, <1>5

-----------------------------------------------------------------------------
(* Frecency.                                                               *)

Writing(g) == pc[g] \in {"write", "unlock"}

\* f.saving is a lock: whoever writes has set it, and is alone.
OneWriter ==
    \A g \in Savers : Writing(g) => saving /\ \A h \in Savers : Writing(h) => h = g

\* A snapshot on its way to the file is no older than the file.
SnapshotFresh == \A g \in Savers : pc[g] = "write" => disk <= raw[g] /\ raw[g] <= entries

DiskCounted == disk <= entries

IInv == TypeOK /\ OneWriter /\ SnapshotFresh /\ DiskCounted
-----------------------------------------------------------------------------
\* The invariant holds at the start.
LEMMA InitHolds == Init => IInv
<1> SUFFICES ASSUME Init PROVE IInv
  OBVIOUS
<1>1. TypeOK
  <2>1. entries = 0 /\ disk = 0 /\ 0 \in 0..MaxBumps
    BY FrecencyAssumption DEF Init
  <2>2. raw \in [Savers -> 0..MaxBumps] /\ pc \in [Savers -> {"idle", "save", "write", "unlock", "wait", "done"}]
    BY <2>1 DEF Init
  <2>. QED BY <2>1, <2>2 DEF Init, TypeOK
<1>2. \A g \in Savers : pc[g] = "idle"
  BY DEF Init
<1>3. OneWriter /\ SnapshotFresh
  BY <1>2 DEF OneWriter, SnapshotFresh, Writing
<1>4. DiskCounted
  BY DEF Init, DiskCounted
<1>. QED BY <1>1, <1>3, <1>4 DEF IInv

\* Every step keeps the types.
LEMMA StepTyped ==
  ASSUME TypeOK, [Next]_vars
  PROVE  TypeOK'
<1> USE FrecencyAssumption DEF TypeOK, Savers
<1>1. CASE bump
  <2>1. entries' \in 0..MaxBumps /\ UNCHANGED <<disk, saving, pc, raw>>
    BY <1>1 DEF bump
  <2>2. PICK t \in Timers : Arm(t)
    BY <1>1 DEF bump
  <2>. QED BY <2>1, <2>2 DEF Arm
<1>2. CASE Flush
  BY <1>2 DEF Flush, Go
<1>3. CASE waitSaveDone
  BY <1>3 DEF waitSaveDone, Go
<1>4. ASSUME NEW t \in Timers, Fire(t) PROVE TypeOK'
  <2>1. PICK g \in Runners : Go(g, "save")
    BY <1>4 DEF Fire
  <2>2. pc' \in [Savers -> {"idle", "save", "write", "unlock", "wait", "done"}]
    BY <2>1 DEF Go
  <2>. QED BY <1>4, <2>2 DEF Fire
<1>5. ASSUME NEW g \in Savers, save(g) PROVE TypeOK'
  BY <1>5 DEF save, Snapshot, Go, Ends
<1>6. ASSUME NEW g \in Savers, WriteFile(g) PROVE TypeOK'
  BY <1>6 DEF WriteFile, Go
<1>7. ASSUME NEW g \in Savers, Saved(g) PROVE TypeOK'
  BY <1>7 DEF Saved, Go, Ends
<1>8. CASE UNCHANGED vars
  BY <1>8 DEF vars
<1>. QED BY <1>1, <1>2, <1>3, <1>4, <1>5, <1>6, <1>7, <1>8 DEF Next, Step

\* No goroutine moves onto a write, and those that write stay where they are.
NoNewWrite == \A h \in Savers : pc'[h] \in {"write", "unlock"} => pc'[h] = pc[h]

\* Such a step keeps the invariant, if at most it counts a launch.
LEMMA QuietStep ==
  ASSUME IInv, NoNewWrite, UNCHANGED <<disk, saving, raw>>,
         entries' = entries \/ entries' = entries + 1
  PROVE  OneWriter' /\ SnapshotFresh' /\ DiskCounted'
<1> USE DEF IInv, NoNewWrite
<1>1. OneWriter'
  BY DEF OneWriter, Writing
<1>2. entries \in Nat /\ disk \in Nat /\ \A g \in Savers : raw[g] \in Nat
  BY FrecencyAssumption DEF TypeOK
<1>3. SnapshotFresh'
  BY <1>2 DEF SnapshotFresh
<1>4. DiskCounted'
  BY <1>2 DEF DiskCounted
<1>. QED BY <1>1, <1>3, <1>4

\* Every step keeps the invariant.
LEMMA StepHolds ==
  ASSUME IInv, [Next]_vars
  PROVE  IInv'
<1> USE FrecencyAssumption DEF IInv
<1>t. TypeOK'
  BY StepTyped
<1>n. entries \in Nat /\ entries' \in Nat
  BY <1>t DEF TypeOK
<1> SUFFICES OneWriter' /\ SnapshotFresh' /\ DiskCounted'
  BY <1>t
<1>1. CASE bump
  <2>1. NoNewWrite
    BY <1>1 DEF bump, NoNewWrite
  <2>. QED BY <1>1, <2>1, QuietStep DEF bump
<1>2. CASE Flush
  <2>1. NoNewWrite
    BY <1>2 DEF Flush, Go, NoNewWrite, TypeOK
  <2>. QED BY <1>2, <2>1, QuietStep DEF Flush
<1>3. CASE waitSaveDone
  <2>1. NoNewWrite
    BY <1>3 DEF waitSaveDone, Go, NoNewWrite, TypeOK
  <2>. QED BY <1>3, <2>1, QuietStep DEF waitSaveDone
<1>4. ASSUME NEW t \in Timers, Fire(t) PROVE OneWriter' /\ SnapshotFresh' /\ DiskCounted'
  <2>1. NoNewWrite
    BY <1>4 DEF Fire, Go, NoNewWrite, TypeOK
  <2>. QED BY <1>4, <2>1, QuietStep DEF Fire
<1>5. ASSUME NEW g \in Savers, save(g) PROVE OneWriter' /\ SnapshotFresh' /\ DiskCounted'
  <2>1. CASE saving
    <3>1. NoNewWrite
      BY <1>5, <2>1 DEF save, Go, Ends, NoNewWrite, TypeOK
    <3>. QED BY <1>5, <2>1, <3>1, QuietStep DEF save
  <2>2. CASE ~saving
    <3>1. \A h \in Savers : ~Writing(h)
      BY <2>2 DEF OneWriter
    <3>2. pc' = [pc EXCEPT ![g] = "write"] /\ raw' = [raw EXCEPT ![g] = entries]
          /\ saving' = TRUE /\ UNCHANGED <<entries, disk>>
      BY <1>5, <2>2 DEF save, Snapshot, Go
    <3>3. \A h \in Savers : Writing(h)' => h = g
      BY <3>1, <3>2 DEF Writing, TypeOK
    <3>4. OneWriter'
      BY <3>2, <3>3 DEF OneWriter
    <3>5. disk <= raw'[g] /\ raw'[g] <= entries
      BY <3>2, <1>n DEF TypeOK, DiskCounted
    <3>6. SnapshotFresh'
      BY <3>2, <3>3, <3>5 DEF SnapshotFresh, Writing
    <3>. QED BY <3>2, <3>4, <3>6 DEF DiskCounted
  <2>. QED BY <2>1, <2>2
<1>6. ASSUME NEW g \in Savers, WriteFile(g) PROVE OneWriter' /\ SnapshotFresh' /\ DiskCounted'
  <2>1. Writing(g) /\ pc' = [pc EXCEPT ![g] = "unlock"] /\ UNCHANGED <<entries, saving, raw>>
    BY <1>6 DEF WriteFile, Go, Writing
  <2>2. \A h \in Savers : Writing(h)' => Writing(h) /\ h = g
    BY <2>1 DEF Writing, OneWriter, TypeOK
  <2>3. OneWriter'
    BY <2>1, <2>2 DEF OneWriter
  <2>4. SnapshotFresh'
    BY <2>1, <2>2 DEF SnapshotFresh, Writing, TypeOK
  <2>5. DiskCounted'
    BY <1>6 DEF WriteFile, SnapshotFresh, DiskCounted
  <2>. QED BY <2>3, <2>4, <2>5
<1>7. ASSUME NEW g \in Savers, Saved(g) PROVE OneWriter' /\ SnapshotFresh' /\ DiskCounted'
  <2>1. Writing(g) /\ pc' = [pc EXCEPT ![g] = Ends(g)] /\ UNCHANGED <<entries, disk, raw>>
    BY <1>7 DEF Saved, Go, Writing
  <2>2. \A h \in Savers : ~Writing(h)'
    BY <2>1 DEF Writing, OneWriter, TypeOK, Ends
  <2>. QED BY <2>1, <2>2 DEF OneWriter, SnapshotFresh, DiskCounted, Writing
<1>8. CASE UNCHANGED vars
  BY <1>8 DEF vars, OneWriter, Writing, SnapshotFresh, DiskCounted
<1>. QED BY <1>1, <1>2, <1>3, <1>4, <1>5, <1>6, <1>7, <1>8 DEF Next, Step

\* Types, exclusion of writers and freshness of snapshots hold forever.
THEOREM Invariants == Spec => []IInv
<1>1. Init => IInv
  BY InitHolds
<1>2. IInv /\ [Next]_vars => IInv'
  BY StepHolds
<1>. QED BY <1>1, <1>2, PTL DEF Spec

\* One goroutine at a time is between the lock and the unlock of a save, and it
\* holds f.saving: the flag does what a mutex around the write would do.
THEOREM WritersExclude == Spec => []OneWriter
<1>1. IInv => OneWriter
  BY DEF IInv
<1>. QED BY <1>1, Invariants, PTL

\* However saves, timers and Flush overlap, no snapshot overwrites a newer one.
THEOREM FileNeverShrinks == Spec => FileGrows
<1>1. ASSUME IInv, [Next]_vars
      PROVE  disk' >= disk \/ UNCHANGED vars
  <2>1. ASSUME NEW g \in Savers, WriteFile(g) PROVE disk' >= disk
    <3>1. disk' = raw[g] /\ disk <= raw[g]
      BY <1>1, <2>1 DEF WriteFile, IInv, SnapshotFresh
    <3>2. disk \in Nat /\ raw[g] \in Nat
      BY <1>1, FrecencyAssumption DEF IInv, TypeOK
    <3>. QED BY <3>1, <3>2
  <2>2. ASSUME UNCHANGED disk PROVE disk' >= disk
    <3>1. disk \in Nat
      BY <1>1, FrecencyAssumption DEF IInv, TypeOK
    <3>. QED BY <2>2, <3>1
  <2>3. (\E g \in Savers : WriteFile(g)) \/ UNCHANGED disk
    BY <1>1 DEF Next, Step, bump, Flush, waitSaveDone, Fire, save, Saved, vars
  <2>. QED BY <2>1, <2>2, <2>3
<1>2. IInv /\ [Next]_vars => [disk' >= disk]_vars
  BY <1>1
<1>. QED BY <1>2, Invariants, PTL DEF Spec, FileGrows
-----------------------------------------------------------------------------
(* Commands.                                                               *)

Hosts == Daemons \cup {Rc}
Called(r) == IF r = Rc THEN Rc ELSE NameOf(r)

\* What the history of launches and the events on their way are made of.
LaunchTyped ==
    /\ launched \in Seq([id : CmdIds, by : SUBSET (Names \cup {Rc})])
    /\ emits \subseteq 1..Len(launched)
    /\ handlers \in [Daemons -> {0, 1}]
    /\ inbox \in [Daemons -> Seq(1..Len(launched))]
    /\ ran \in Seq((1..Len(launched)) \X Hosts)
    /\ remotes \subseteq [id : CmdIds, by : Names]

\* A callback ran in a script that served the command at the launch.
RanWhereServed == \A k \in DOMAIN ran : Called(ran[k][2]) \in launched[ran[k][1]].by

\* A launch is in one place on its way to a daemon: not emitted yet, in an
\* event, or run.
Waiting(d, n) == \E i \in DOMAIN inbox[d] : inbox[d][i] = n
RanIn(r, n) == \E k \in DOMAIN ran : ran[k] = <<n, r>>
OnceOnTheWay ==
    \A d \in Daemons :
      /\ \A n \in emits : ~Waiting(d, n) /\ ~RanIn(d, n)
      /\ \A i, j \in DOMAIN inbox[d] : inbox[d][i] = inbox[d][j] => i = j
      /\ \A i \in DOMAIN inbox[d] : ~RanIn(d, inbox[d][i])
RanOnce == \A k, m \in DOMAIN ran : ran[k] = ran[m] => k = m

LaunchInv == LaunchTyped /\ RanWhereServed /\ OnceOnTheWay /\ RanOnce
-----------------------------------------------------------------------------
LEMMA LaunchInitHolds == CommandsInit => LaunchInv
<1> SUFFICES ASSUME CommandsInit PROVE LaunchInv
  OBVIOUS
<1>1. /\ launched = <<>> /\ ran = <<>> /\ emits = {} /\ remotes = {}
      /\ inbox = [d \in Daemons |-> <<>>] /\ handlers = [d \in Daemons |-> 0]
  BY DEF CommandsInit
<1>2. /\ <<>> \in Seq([id : CmdIds, by : SUBSET (Names \cup {Rc})])
      /\ <<>> \in Seq(1..Len(launched)) /\ <<>> \in Seq((1..Len(launched)) \X Hosts)
  OBVIOUS
<1>3. LaunchTyped
  BY <1>1, <1>2 DEF LaunchTyped
<1>4. DOMAIN ran = {} /\ \A d \in Daemons : DOMAIN inbox[d] = {}
  BY <1>1
<1>. QED BY <1>1, <1>3, <1>4 DEF LaunchInv, RanWhereServed, OnceOnTheWay, RanOnce

\* A step that neither launches nor delivers, at most loses what is in an inbox.
LEMMA QuietLaunch ==
  ASSUME LaunchInv, UNCHANGED <<launched, emits, ran>>,
         handlers' \in [Daemons -> {0, 1}], remotes' \subseteq [id : CmdIds, by : Names],
         inbox' \in [Daemons -> Seq(1..Len(launched))],
         \A d \in Daemons : inbox'[d] = inbox[d] \/ inbox'[d] = <<>>
  PROVE  LaunchInv'
<1>1. LaunchTyped'
  BY DEF LaunchInv, LaunchTyped
<1>2. RanWhereServed' /\ RanOnce'
  BY DEF LaunchInv, RanWhereServed, RanOnce
<1>3. OnceOnTheWay'
  <2> SUFFICES ASSUME NEW d \in Daemons
               PROVE  /\ \A n \in emits : ~(\E i \in DOMAIN inbox'[d] : inbox'[d][i] = n) /\ ~RanIn(d, n)
                      /\ \A i, j \in DOMAIN inbox'[d] : inbox'[d][i] = inbox'[d][j] => i = j
                      /\ \A i \in DOMAIN inbox'[d] : ~RanIn(d, inbox'[d][i])
    BY DEF OnceOnTheWay, Waiting, RanIn
  <2>1. CASE inbox'[d] = inbox[d]
    BY <2>1 DEF LaunchInv, OnceOnTheWay, Waiting
  <2>2. CASE inbox'[d] = <<>>
    <3>1. DOMAIN inbox'[d] = {}
      BY <2>2
    <3>2. \A n \in emits : ~RanIn(d, n)
      BY DEF LaunchInv, OnceOnTheWay
    <3>. QED BY <3>1, <3>2
  <2>. QED BY <2>1, <2>2
<1>. QED BY <1>1, <1>2, <1>3 DEF LaunchInv

\* A launch, whoever asks for it: the callback of the script in the process
\* runs at once.
LEMMA DispatchKeeps ==
  ASSUME LaunchInv, NEW id \in CmdIds, dispatchScriptCommand(id), Rc \notin Daemons
  PROVE  LaunchInv'
<1>1. PICK L : L = Len(launched)
  OBVIOUS
<1>2. PICK who : who = ServerOf(id)
  OBVIOUS
<1>3. who \in SUBSET (Names \cup {Rc})
  BY <1>2 DEF ServerOf, LaunchInv, LaunchTyped
<1>4. PICK e : e = [id |-> id, by |-> who]
  OBVIOUS
<1>5. e \in [id : CmdIds, by : SUBSET (Names \cup {Rc})] /\ e.by = who
  BY <1>3, <1>4
<1>6. /\ launched \in Seq([id : CmdIds, by : SUBSET (Names \cup {Rc})]) /\ L \in Nat
      /\ emits \subseteq 1..L /\ inbox \in [Daemons -> Seq(1..L)] /\ ran \in Seq((1..L) \X Hosts)
  BY <1>1 DEF LaunchInv, LaunchTyped
<1>7. launched' = Append(launched, e)
  BY <1>2, <1>4 DEF dispatchScriptCommand
<1>8. /\ launched' \in Seq([id : CmdIds, by : SUBSET (Names \cup {Rc})]) /\ Len(launched') = L + 1
      /\ launched'[L + 1] = e /\ \A n \in 1..L : launched'[n] = launched[n]
  BY <1>1, <1>5, <1>6, <1>7
<1>9. PICK x : x = <<L + 1, Rc>>
  OBVIOUS
<1>10. /\ emits' = IF who \subseteq {Rc} THEN emits ELSE emits \cup {L + 1}
       /\ ran' = IF Rc \in who THEN Append(ran, x) ELSE ran
       /\ UNCHANGED <<registry, daemon, flight, inbox>>
  BY <1>2, <1>8, <1>9 DEF dispatchScriptCommand
<1>11. 1..L \subseteq 1..(L + 1) /\ L + 1 \in 1..(L + 1) /\ L + 1 \notin 1..L
  BY <1>6
<1>12. x \in (1..(L + 1)) \X Hosts /\ x[1] = L + 1 /\ x[2] = Rc
  BY <1>9, <1>11 DEF Hosts
\* What had run is still there, and the new entry is the only one of its launch.
<1>13. /\ ran \in Seq((1..(L + 1)) \X Hosts)
       /\ \A k \in DOMAIN ran : ran[k] \in (1..L) \X Hosts
  BY <1>6, <1>11
<1>14. /\ ran' \in Seq((1..(L + 1)) \X Hosts)
       /\ \A k \in DOMAIN ran' : (k \in DOMAIN ran /\ ran'[k] = ran[k])
                                 \/ (k = Len(ran) + 1 /\ ran'[k] = x /\ Rc \in who)
  <2>1. CASE Rc \in who
    <3>1. ran' = Append(ran, x)
      BY <1>10, <2>1
    <3>2. /\ Append(ran, x) \in Seq((1..(L + 1)) \X Hosts)
          /\ \A k \in DOMAIN Append(ran, x) : (k \in DOMAIN ran /\ Append(ran, x)[k] = ran[k])
                                 \/ (k = Len(ran) + 1 /\ Append(ran, x)[k] = x)
      BY <1>12, <1>13
    <3>. QED BY <2>1, <3>1, <3>2
  <2>2. CASE Rc \notin who
    BY <1>10, <1>13, <2>2
  <2>. QED BY <2>1, <2>2
<1>15. \A n \in 1..L : \A r : RanIn(r, n)' => RanIn(r, n)
  <2> SUFFICES ASSUME NEW n \in 1..L, NEW r, NEW k \in DOMAIN ran', ran'[k] = <<n, r>>
               PROVE  RanIn(r, n)
    BY DEF RanIn
  <2>1. n # L + 1
    BY <1>11
  <2>2. x # <<n, r>>
    BY <1>9, <2>1
  <2>. QED BY <1>14, <2>2 DEF RanIn
<1>16. \A d \in Daemons : ~RanIn(d, L + 1)'
  <2> SUFFICES ASSUME NEW d \in Daemons, NEW k \in DOMAIN ran', ran'[k] = <<L + 1, d>> PROVE FALSE
    BY DEF RanIn
  <2>1. d # Rc
    OBVIOUS
  <2>2. x # <<L + 1, d>>
    BY <1>9, <2>1
  <2>3. ran[k] = <<L + 1, d>> /\ k \in DOMAIN ran
    BY <1>14, <2>2
  <2>. QED BY <1>11, <1>13, <2>3
<1>17. LaunchTyped'
  <2>1. emits' \subseteq 1..(L + 1)
    BY <1>6, <1>10, <1>11
  <2>2. inbox' \in [Daemons -> Seq(1..(L + 1))]
    <3>1. \A d \in Daemons : inbox[d] \in Seq(1..(L + 1))
      BY <1>6, <1>11, SeqGrows
    <3>2. inbox' = inbox
      BY <1>10
    <3>. QED BY <1>6, <3>1, <3>2
  <2>3. handlers' = handlers /\ remotes' = remotes
    BY <1>10 DEF daemon, registry
  <2>. QED BY <1>8, <1>14, <2>1, <2>2, <2>3 DEF LaunchInv, LaunchTyped
<1>18. RanWhereServed'
  <2> SUFFICES ASSUME NEW k \in DOMAIN ran' PROVE Called(ran'[k][2]) \in launched'[ran'[k][1]].by
    BY DEF RanWhereServed, Called
  <2>1. CASE k \in DOMAIN ran /\ ran'[k] = ran[k]
    <3>1. ran[k][1] \in 1..L
      BY <1>13, <2>1
    <3>2. launched'[ran[k][1]] = launched[ran[k][1]]
      BY <1>8, <3>1
    <3>. QED BY <2>1, <3>2 DEF LaunchInv, RanWhereServed
  <2>2. CASE ran'[k] = x /\ Rc \in who
    <3>1. ran'[k][1] = L + 1 /\ ran'[k][2] = Rc
      BY <1>12, <2>2
    <3>2. launched'[L + 1].by = who
      BY <1>5, <1>8
    <3>. QED BY <2>2, <3>1, <3>2 DEF Called
  <2>. QED BY <1>14, <2>1, <2>2
<1>19. RanOnce'
  <2> SUFFICES ASSUME NEW k \in DOMAIN ran', NEW m \in DOMAIN ran', ran'[k] = ran'[m] PROVE k = m
    BY DEF RanOnce
  <2>1. \A i \in DOMAIN ran : ran[i] # x
    <3> SUFFICES ASSUME NEW i \in DOMAIN ran, ran[i] = x PROVE FALSE
      OBVIOUS
    <3>1. ran[i][1] \in 1..L
      BY <1>13
    <3>. QED BY <1>11, <1>12, <3>1
  <2>. QED BY <1>14, <2>1 DEF LaunchInv, RanOnce
<1>20. OnceOnTheWay'
  <2> SUFFICES ASSUME NEW d \in Daemons
               PROVE  /\ \A n \in emits' : ~Waiting(d, n)' /\ ~RanIn(d, n)'
                      /\ \A i, j \in DOMAIN inbox[d] : inbox[d][i] = inbox[d][j] => i = j
                      /\ \A i \in DOMAIN inbox[d] : ~RanIn(d, inbox[d][i])'
    BY <1>10 DEF OnceOnTheWay, RanIn
  <2>1. \A i \in DOMAIN inbox[d] : inbox[d][i] \in 1..L
    BY <1>6
  <2>2. \A n : Waiting(d, n)' <=> Waiting(d, n)
    BY <1>10 DEF Waiting
  <2>3. ASSUME NEW n \in emits' PROVE ~Waiting(d, n)' /\ ~RanIn(d, n)'
    <3>1. CASE n \in emits
      <4>1. n \in 1..L /\ ~Waiting(d, n) /\ ~RanIn(d, n)
        BY <1>6, <3>1 DEF LaunchInv, OnceOnTheWay
      <4>. QED BY <1>15, <2>2, <4>1
    <3>2. CASE n = L + 1
      <4>1. ~Waiting(d, n)
        BY <1>11, <2>1, <3>2 DEF Waiting
      <4>. QED BY <1>16, <2>2, <3>2, <4>1
    <3>. QED BY <1>10, <3>1, <3>2
  <2>4. \A i \in DOMAIN inbox[d] : ~RanIn(d, inbox[d][i])'
    <3> SUFFICES ASSUME NEW i \in DOMAIN inbox[d] PROVE ~RanIn(d, inbox[d][i])'
      OBVIOUS
    <3>1. inbox[d][i] \in 1..L /\ ~RanIn(d, inbox[d][i])
      BY <2>1 DEF LaunchInv, OnceOnTheWay
    <3>2. PICK n \in 1..L : n = inbox[d][i]
      BY <3>1
    <3>3. ~RanIn(d, n)'
      BY <1>15, <3>1, <3>2
    <3>. QED BY <1>10, <3>2, <3>3 DEF RanIn
  <2>. QED BY <2>3, <2>4 DEF LaunchInv, OnceOnTheWay
<1>. QED BY <1>17, <1>18, <1>19, <1>20 DEF LaunchInv

\* The broker sends the event to those who have subscribed.
LEMMA EmitKeeps ==
  ASSUME LaunchInv, NEW n \in emits, emitEvent(n)
  PROVE  LaunchInv'
<1>1. /\ emits' = emits \ {n}
      /\ inbox' = [d \in Daemons |-> IF d \in up /\ pump[d] = "on" THEN Append(inbox[d], n) ELSE inbox[d]]
      /\ UNCHANGED <<launched, ran, remotes, handlers>>
  BY DEF emitEvent, registry, daemon
<1>2. n \in 1..Len(launched) /\ \A d \in Daemons : inbox[d] \in Seq(1..Len(launched))
  BY DEF LaunchInv, LaunchTyped
<1>3. ASSUME NEW d \in Daemons
      PROVE  /\ inbox'[d] \in Seq(1..Len(launched))
             /\ \A i \in DOMAIN inbox'[d] : (i \in DOMAIN inbox[d] /\ inbox'[d][i] = inbox[d][i])
                                            \/ (i = Len(inbox[d]) + 1 /\ inbox'[d][i] = n)
  <2>1. PICK q : q = inbox[d]
    OBVIOUS
  <2>2. inbox'[d] = q \/ inbox'[d] = Append(q, n)
    BY <1>1, <2>1
  <2>3. /\ Append(q, n) \in Seq(1..Len(launched))
        /\ \A i \in DOMAIN Append(q, n) : (i \in DOMAIN q /\ Append(q, n)[i] = q[i])
                                            \/ (i = Len(q) + 1 /\ Append(q, n)[i] = n)
    BY <1>2, <2>1
  <2>. QED BY <1>2, <2>1, <2>2, <2>3
<1>4. LaunchTyped'
  <2>1. inbox' \in [Daemons -> Seq(1..Len(launched))]
    BY <1>1, <1>3
  <2>. QED BY <1>1, <2>1 DEF LaunchInv, LaunchTyped
<1>5. RanWhereServed' /\ RanOnce'
  BY <1>1 DEF LaunchInv, RanWhereServed, RanOnce
<1>6. OnceOnTheWay'
  <2> SUFFICES ASSUME NEW d \in Daemons
               PROVE  /\ \A m \in emits' : ~Waiting(d, m)' /\ ~RanIn(d, m)
                      /\ \A i, j \in DOMAIN inbox'[d] : inbox'[d][i] = inbox'[d][j] => i = j
                      /\ \A i \in DOMAIN inbox'[d] : ~RanIn(d, inbox'[d][i])
    BY <1>1 DEF OnceOnTheWay, RanIn
  <2>1. /\ \A m \in emits : ~Waiting(d, m) /\ ~RanIn(d, m)
        /\ \A i, j \in DOMAIN inbox[d] : inbox[d][i] = inbox[d][j] => i = j
        /\ \A i \in DOMAIN inbox[d] : ~RanIn(d, inbox[d][i])
    BY DEF LaunchInv, OnceOnTheWay
  <2>2. /\ n \notin emits' /\ emits' \subseteq emits /\ ~RanIn(d, n)
        /\ \A i \in DOMAIN inbox[d] : inbox[d][i] # n
    BY <1>1, <2>1 DEF Waiting
  <2>3. \A m \in emits' : ~Waiting(d, m)' /\ ~RanIn(d, m)
    BY <1>3, <2>1, <2>2 DEF Waiting
  <2>4. \A i, j \in DOMAIN inbox'[d] : inbox'[d][i] = inbox'[d][j] => i = j
    BY <1>3, <2>1, <2>2
  <2>5. \A i \in DOMAIN inbox'[d] : ~RanIn(d, inbox'[d][i])
    BY <1>3, <2>1, <2>2
  <2>. QED BY <2>3, <2>4, <2>5
<1>. QED BY <1>4, <1>5, <1>6 DEF LaunchInv

\* A handler takes the first event of its daemon's inbox.
LEMMA InvokeKeeps ==
  ASSUME LaunchInv, Rc \notin Daemons, NEW d \in Daemons, Invoke(d)
  PROVE  LaunchInv'
<1>1. PICK n : n = Head(inbox[d])
  OBVIOUS
<1>2. PICK rest : rest = Tail(inbox[d])
  OBVIOUS
<1>3. /\ inbox[d] # <<>> /\ inbox' = [inbox EXCEPT ![d] = rest]
      /\ ran' = IF NameOf(d) \in launched[n].by /\ launched[n].id \in fires[d] THEN ran \o Runs(d, n) ELSE ran
      /\ UNCHANGED <<launched, emits, remotes, handlers>>
  BY <1>1, <1>2 DEF Invoke, registry, daemon
<1>4. /\ inbox \in [Daemons -> Seq(1..Len(launched))] /\ inbox[d] \in Seq(1..Len(launched))
      /\ Len(launched) \in Nat /\ ran \in Seq((1..Len(launched)) \X Hosts)
  BY DEF LaunchInv, LaunchTyped
<1>5. /\ n = inbox[d][1] /\ 1 \in DOMAIN inbox[d] /\ n \in 1..Len(launched)
      /\ rest \in Seq(1..Len(launched))
  BY <1>1, <1>2, <1>3, <1>4
<1>6. \A i \in DOMAIN rest : i + 1 \in DOMAIN inbox[d] /\ rest[i] = inbox[d][i + 1] /\ i + 1 # 1
  <2>1. Len(rest) = Len(inbox[d]) - 1 /\ DOMAIN rest = 1..(Len(inbox[d]) - 1) /\ Len(inbox[d]) \in Nat
    BY <1>2, <1>3, <1>4
  <2>2. \A i \in 1..(Len(inbox[d]) - 1) : rest[i] = inbox[d][i + 1]
    BY <1>2, <1>3, <1>4
  <2>3. DOMAIN inbox[d] = 1..Len(inbox[d])
    BY <1>4
  <2>4. PICK m \in Nat : m = Len(inbox[d])
    BY <2>1
  <2>5. \A i \in 1..(m - 1) : i + 1 \in 1..m /\ i + 1 # 1
    BY <2>4
  <2>. QED BY <2>1, <2>2, <2>3, <2>4, <2>5
<1>7. /\ \A m \in emits : ~Waiting(d, m) /\ ~RanIn(d, m)
      /\ \A i, j \in DOMAIN inbox[d] : inbox[d][i] = inbox[d][j] => i = j
      /\ \A i \in DOMAIN inbox[d] : ~RanIn(d, inbox[d][i])
  BY DEF LaunchInv, OnceOnTheWay
<1>8. ~RanIn(d, n) /\ n \notin emits
  BY <1>5, <1>7 DEF Waiting
<1>9. PICK x : x = <<n, d>>
  OBVIOUS
<1>10. x \in (1..Len(launched)) \X Hosts /\ x[1] = n /\ x[2] = d
  BY <1>5, <1>9 DEF Hosts
<1>11. ran' = ran \/ (ran' = Append(ran, x) /\ NameOf(d) \in launched[n].by)
  <2>1. CASE ran' = ran
    BY <2>1
  <2>2. CASE ran' = ran \o Runs(d, n) /\ NameOf(d) \in launched[n].by
    <3>1. handlers[d] \in {0, 1}
      BY DEF LaunchInv, LaunchTyped
    <3>2. CASE handlers[d] = 0
      <4>1. Runs(d, n) = <<>>
        BY <3>2 DEF Runs
      <4>. QED BY <1>4, <2>2, <4>1
    <3>3. CASE handlers[d] = 1
      <4>1. Runs(d, n) = <<x>>
        BY <1>9, <3>3 DEF Runs
      <4>2. ran \o <<x>> = Append(ran, x)
        BY <1>4, <1>10
      <4>. QED BY <2>2, <4>1, <4>2
    <3>. QED BY <3>1, <3>2, <3>3
  <2>. QED BY <1>3, <2>1, <2>2
<1>12. /\ ran' \in Seq((1..Len(launched)) \X Hosts)
       /\ \A k \in DOMAIN ran' : (k \in DOMAIN ran /\ ran'[k] = ran[k])
                                 \/ (k = Len(ran) + 1 /\ ran'[k] = x /\ NameOf(d) \in launched[n].by)
  <2>1. CASE ran' = ran
    BY <1>4, <2>1
  <2>2. CASE ran' = Append(ran, x) /\ NameOf(d) \in launched[n].by
    <3>1. /\ Append(ran, x) \in Seq((1..Len(launched)) \X Hosts)
          /\ \A k \in DOMAIN Append(ran, x) : (k \in DOMAIN ran /\ Append(ran, x)[k] = ran[k])
                                 \/ (k = Len(ran) + 1 /\ Append(ran, x)[k] = x)
      BY <1>4, <1>10
    <3>. QED BY <2>2, <3>1
  <2>. QED BY <1>11, <2>1, <2>2
<1>13. \A m : \A r : RanIn(r, m)' => RanIn(r, m) \/ (r = d /\ m = n)
  BY <1>9, <1>12 DEF RanIn
<1>14. LaunchTyped'
  <2>1. inbox' \in [Daemons -> Seq(1..Len(launched))]
    BY <1>3, <1>4, <1>5
  <2>. QED BY <1>3, <1>12, <2>1 DEF LaunchInv, LaunchTyped
<1>15. RanWhereServed'
  <2> SUFFICES ASSUME NEW k \in DOMAIN ran' PROVE Called(ran'[k][2]) \in launched[ran'[k][1]].by
    BY <1>3 DEF RanWhereServed, Called
  <2>1. Called(d) = NameOf(d)
    BY DEF Called
  <2>. QED BY <1>10, <1>12, <2>1 DEF LaunchInv, RanWhereServed
<1>16. RanOnce'
  <2>1. \A i \in DOMAIN ran : ran[i] # x
    BY <1>8, <1>9 DEF RanIn
  <2>. QED BY <1>12, <2>1 DEF LaunchInv, RanOnce
<1>17. OnceOnTheWay'
  <2> SUFFICES ASSUME NEW e \in Daemons
               PROVE  /\ \A m \in emits : ~Waiting(e, m)' /\ ~RanIn(e, m)'
                      /\ \A i, j \in DOMAIN inbox'[e] : inbox'[e][i] = inbox'[e][j] => i = j
                      /\ \A i \in DOMAIN inbox'[e] : ~(\E k \in DOMAIN ran' : ran'[k] = <<inbox'[e][i], e>>)
    BY <1>3 DEF OnceOnTheWay, RanIn
  <2>1. CASE e # d
    <3>1. inbox'[e] = inbox[e]
      BY <1>3, <1>4, <2>1
    <3>2. /\ \A m \in emits : ~Waiting(e, m) /\ ~RanIn(e, m)
          /\ \A i, j \in DOMAIN inbox[e] : inbox[e][i] = inbox[e][j] => i = j
          /\ \A i \in DOMAIN inbox[e] : ~RanIn(e, inbox[e][i])
      BY DEF LaunchInv, OnceOnTheWay
    <3>3. \A m : RanIn(e, m)' => RanIn(e, m)
      BY <1>13, <2>1
    <3>4. \A m \in emits : ~Waiting(e, m)' /\ ~RanIn(e, m)'
      BY <3>1, <3>2, <3>3 DEF Waiting
    <3>5. \A i \in DOMAIN inbox'[e] : ~(\E k \in DOMAIN ran' : ran'[k] = <<inbox'[e][i], e>>)
      BY <3>1, <3>2, <3>3 DEF RanIn
    <3>. QED BY <3>1, <3>2, <3>4, <3>5
  <2>2. CASE e = d
    <3>1. inbox'[d] = rest
      BY <1>3, <1>4
    <3>2. \A m : Waiting(d, m)' => Waiting(d, m) /\ m # n
      BY <1>5, <1>6, <1>7, <3>1 DEF Waiting
    <3>3. \A m \in emits : ~Waiting(d, m)' /\ ~RanIn(d, m)'
      BY <1>7, <1>8, <1>13, <3>2
    <3>4. \A i, j \in DOMAIN rest : rest[i] = rest[j] => i = j
      <4>1. \A i, j \in DOMAIN rest : i + 1 = j + 1 => i = j
        BY <1>5
      <4>. QED BY <1>6, <1>7, <4>1
    <3>5. ASSUME NEW i \in DOMAIN rest, NEW k \in DOMAIN ran', ran'[k] = <<rest[i], d>> PROVE FALSE
      <4>1. Waiting(d, rest[i]) /\ rest[i] # n /\ ~RanIn(d, rest[i])
        BY <1>5, <1>6, <1>7 DEF Waiting
      <4>2. RanIn(d, rest[i])
        BY <1>9, <1>12, <3>5, <4>1 DEF RanIn
      <4>. QED BY <4>1, <4>2
    <3>. QED BY <2>2, <3>1, <3>3, <3>4, <3>5
  <2>. QED BY <2>1, <2>2
<1>. QED BY <1>14, <1>15, <1>16, <1>17 DEF LaunchInv

\* The registry is a copy of the two tables, and a daemon whose end is still
\* to be heard of is gone.
RegistryInv ==
    /\ requests \subseteq Daemons \X CmdIds
    /\ reg \in [Daemons -> [at : {"idle", "subscribe", "send", "sent"}, id : CmdIds \cup {Idle.id}]]
    /\ \A d \in Daemons : reg[d].at # "idle" => reg[d].id \in CmdIds
    /\ locals \subseteq CmdIds /\ remotes \subseteq [id : CmdIds, by : Names]
    /\ static = syncScriptCommands(locals, remotes) /\ rows \subseteq Entries
    /\ up \subseteq Daemons /\ goneq \subseteq Daemons \ up

LEMMA SyncEntries ==
  ASSUME NEW loc \in SUBSET CmdIds, NEW rem \in SUBSET [id : CmdIds, by : Names]
  PROVE  syncScriptCommands(loc, rem) \subseteq Entries
<1>1. \A id \in loc : Entry(id, Rc) \in Entries
  BY DEF Entry, Entries
<1>2. rem \subseteq Entries
  BY DEF Entries
<1>. QED BY <1>1, <1>2 DEF syncScriptCommands

LEMMA RegistryInitHolds == CommandsInit => RegistryInv
<1> SUFFICES ASSUME CommandsInit PROVE RegistryInv
  OBVIOUS
<1>1. reg = [d \in Daemons |-> Idle] /\ Idle.at = "idle" /\ Idle \in [at : {"idle", "subscribe", "send", "sent"}, id : CmdIds \cup {Idle.id}]
  BY DEF CommandsInit, Idle
<1>2. reg \in [Daemons -> [at : {"idle", "subscribe", "send", "sent"}, id : CmdIds \cup {Idle.id}]]
      /\ \A d \in Daemons : reg[d].at = "idle"
  BY <1>1
<1>3. syncScriptCommands({}, {}) = {}
  BY DEF syncScriptCommands
<1>. QED BY <1>2, <1>3 DEF CommandsInit, RegistryInv

\* The states of a registration.
LEMMA RegTyped ==
  ASSUME RegistryInv, NEW d \in Daemons, NEW at \in {"idle", "subscribe", "send", "sent"},
         reg' = [reg EXCEPT ![d].at = at], at # "idle" => reg[d].at # "idle"
  PROVE  /\ reg' \in [Daemons -> [at : {"idle", "subscribe", "send", "sent"}, id : CmdIds \cup {Idle.id}]]
         /\ \A e \in Daemons : reg'[e].at # "idle" => reg'[e].id \in CmdIds
<1>1. PICK I : I = CmdIds \cup {Idle.id}
  OBVIOUS
<1>2. reg \in [Daemons -> [at : {"idle", "subscribe", "send", "sent"}, id : I]]
      /\ \A e \in Daemons : reg[e].at # "idle" => reg[e].id \in CmdIds
  BY <1>1 DEF RegistryInv
<1>3. /\ reg' \in [Daemons -> [at : {"idle", "subscribe", "send", "sent"}, id : I]]
      /\ \A e \in Daemons : reg'[e].at # "idle" => reg'[e].id \in CmdIds
  BY <1>2
<1>. QED BY <1>1, <1>3

LEMMA RegistryKeeps ==
  ASSUME RegistryInv, [CommandsNext]_commandsVars
  PROVE  RegistryInv'
<1> DEFINE Regs == [at : {"idle", "subscribe", "send", "sent"}, id : CmdIds \cup {Idle.id}]
<1>0. /\ requests \subseteq Daemons \X CmdIds
      /\ locals \subseteq CmdIds /\ remotes \subseteq [id : CmdIds, by : Names]
      /\ static = syncScriptCommands(locals, remotes) /\ rows \subseteq Entries
      /\ up \subseteq Daemons /\ goneq \subseteq Daemons \ up
  BY DEF RegistryInv
<1>1. ASSUME NEW d \in Daemons, NEW id \in CmdIds, jsCommand(d, id) PROVE RegistryInv'
  <2>1. PICK r : r = [at |-> "subscribe", id |-> id]
    OBVIOUS
  <2>2. reg' = [reg EXCEPT ![d] = r] /\ UNCHANGED <<registry, rows, up, requests, goneq>>
    BY <1>1, <2>1 DEF jsCommand, flight
  <2>3. reg \in [Daemons -> Regs] /\ \A e \in Daemons : reg[e].at # "idle" => reg[e].id \in CmdIds
    BY DEF RegistryInv
  <2>4. r \in Regs /\ r.id \in CmdIds
    BY <2>1
  <2>5. reg' \in [Daemons -> Regs] /\ \A e \in Daemons : reg'[e].at # "idle" => reg'[e].id \in CmdIds
    <3>. HIDE DEF Regs
    <3>. QED BY <2>2, <2>3, <2>4
  <2>. QED BY <1>0, <2>2, <2>5 DEF RegistryInv, registry
<1>2. ASSUME NEW d \in Daemons, Subscribe(d) PROVE RegistryInv'
  <2>1. UNCHANGED <<registry, rows, up, requests, goneq>>
    BY <1>2 DEF Subscribe, flight
  <2>2. reg' = [reg EXCEPT ![d].at = "send"] /\ reg[d].at = "subscribe"
    BY <1>2 DEF Subscribe, At
  <2>. QED BY <1>0, <2>1, <2>2, RegTyped DEF RegistryInv, registry
<1>3. ASSUME NEW d \in Daemons, Send(d) PROVE RegistryInv'
  <2>1. UNCHANGED <<registry, rows, up, goneq>> /\ requests' = requests \cup {<<d, reg[d].id>>}
    BY <1>3 DEF Send
  <2>2. reg' = [reg EXCEPT ![d].at = "sent"] /\ reg[d].at = "send"
    BY <1>3 DEF Send, At
  <2>3. reg[d].id \in CmdIds
    BY <2>2 DEF RegistryInv
  <2>4. requests' \subseteq Daemons \X CmdIds
    BY <1>0, <2>1, <2>3
  <2>. QED BY <1>0, <2>1, <2>2, <2>4, RegTyped DEF RegistryInv, registry
<1>4. ASSUME NEW d \in Daemons, GiveUp(d) PROVE RegistryInv'
  <2>1. UNCHANGED <<registry, rows, up, requests, goneq>>
    BY <1>4 DEF GiveUp, flight
  <2>2. reg' = [reg EXCEPT ![d].at = "idle"]
    BY <1>4 DEF GiveUp
  <2>. QED BY <1>0, <2>1, <2>2, RegTyped DEF RegistryInv, registry
<1>5. ASSUME NEW r \in requests, registerRemoteCommand(r[1], r[2]) PROVE RegistryInv'
  <2>1. PICK d \in Daemons, id \in CmdIds : d = r[1] /\ id = r[2]
    BY <1>0
  <2>2. /\ remotes' = {e \in remotes : e.id # id} \cup {Entry(id, NameOf(d))}
        /\ static' = syncScriptCommands(locals, remotes') /\ requests' = requests \ {<<d, id>>}
        /\ UNCHANGED <<locals, rows, up, goneq>>
    BY <1>5, <2>1 DEF registerRemoteCommand
  <2>3. Entry(id, NameOf(d)) \in [id : CmdIds, by : Names]
    BY DEF Entry, Names
  <2>4. remotes' \subseteq [id : CmdIds, by : Names] /\ requests' \subseteq Daemons \X CmdIds
    BY <1>0, <2>2, <2>3
  <2>5. reg' = reg \/ reg' = [reg EXCEPT ![d].at = "idle"]
    BY <1>5, <2>1 DEF registerRemoteCommand
  <2>6. CASE reg' = reg
    BY <1>0, <2>2, <2>4, <2>6 DEF RegistryInv
  <2>7. CASE reg' = [reg EXCEPT ![d].at = "idle"]
    BY <1>0, <2>2, <2>4, <2>7, RegTyped DEF RegistryInv
  <2>. QED BY <2>5, <2>6, <2>7
<1>6. ASSUME NEW d \in Daemons, dropRemoteCommands(d) PROVE RegistryInv'
  BY <1>0, <1>6 DEF dropRemoteCommands, daemon, RegistryInv
<1>7. ASSUME NEW id \in CmdIds, RegisterCommand(id) PROVE RegistryInv'
  BY <1>0, <1>7 DEF RegisterCommand, flight, RegistryInv
<1>8. ASSUME NEW d \in Daemons, Die(d) PROVE RegistryInv'
  BY <1>0, <1>8 DEF Die, registry, RegistryInv
<1>9. ASSUME UNCHANGED <<registry, daemon, flight>>, rows' = rows \/ rows' = static \/ rows' = {}
      PROVE  RegistryInv'
  <2>1. rows' \subseteq Entries
    BY <1>0, <1>9, SyncEntries
  <2>. QED BY <1>0, <1>9, <2>1 DEF RegistryInv, registry, daemon, flight
<1>10. CASE ShowRows \/ HideRows
  BY <1>9, <1>10 DEF ShowRows, HideRows
<1>11. CASE ActivateRow
  BY <1>9, <1>11 DEF ActivateRow, dispatchScriptCommand, flight
<1>12. ASSUME NEW id \in CmdIds, launchTarget(id) PROVE RegistryInv'
  BY <1>9, <1>12 DEF launchTarget, dispatchScriptCommand, flight
<1>13. ASSUME NEW d \in Daemons, Invoke(d) PROVE RegistryInv'
  BY <1>9, <1>13 DEF Invoke
<1>14. ASSUME NEW n \in emits, emitEvent(n) PROVE RegistryInv'
  BY <1>9, <1>14 DEF emitEvent
<1>15. CASE UNCHANGED commandsVars
  BY <1>9, <1>15 DEF commandsVars
<1>. QED
  BY <1>1, <1>2, <1>3, <1>4, <1>5, <1>6, <1>7, <1>8, <1>10, <1>11, <1>12, <1>13, <1>14, <1>15
     DEF CommandsNext, Loop, Registering
-----------------------------------------------------------------------------
\* A row names a command, and so does an entry of the registry.
LEMMA LaunchKeeps ==
  ASSUME RegistryInv, LaunchInv, [CommandsNext]_commandsVars, Rc \notin Daemons
  PROVE  LaunchInv'
<1>1. /\ handlers \in [Daemons -> {0, 1}] /\ remotes \subseteq [id : CmdIds, by : Names]
      /\ inbox \in [Daemons -> Seq(1..Len(launched))]
  BY DEF LaunchInv, LaunchTyped
<1>2. remotes' \subseteq [id : CmdIds, by : Names]
  <2>1. RegistryInv'
    BY RegistryKeeps
  <2>. QED BY <2>1 DEF RegistryInv
<1>3. UNCHANGED <<launched, emits, ran, handlers, inbox>> => LaunchInv'
  BY <1>1, <1>2, QuietLaunch
<1>4. CASE Loop
  BY <1>3, <1>4 DEF Loop, registerRemoteCommand, dropRemoteCommands, launch, daemon
<1>5. CASE ShowRows \/ HideRows
  BY <1>3, <1>5 DEF ShowRows, HideRows, launch, daemon
<1>6. CASE ActivateRow
  <2>1. PICK e \in rows : dispatchScriptCommand(e.id)
    BY <1>6 DEF ActivateRow
  <2>2. e.id \in CmdIds
    BY DEF RegistryInv, Entries
  <2>. QED BY <2>1, <2>2, DispatchKeeps
<1>7. ASSUME NEW id \in CmdIds, RegisterCommand(id) \/ launchTarget(id) PROVE LaunchInv'
  <2>1. CASE RegisterCommand(id)
    BY <1>3, <2>1 DEF RegisterCommand, launch
  <2>2. CASE launchTarget(id)
    BY <2>2, DispatchKeeps DEF launchTarget
  <2>. QED BY <1>7, <2>1, <2>2
<1>8. ASSUME NEW d \in Daemons, Subscribe(d) PROVE LaunchInv'
  <2>1. UNCHANGED <<launched, emits, ran, inbox>>
    BY <1>8 DEF Subscribe, launch
  <2>2. handlers' = handlers \/ handlers' = [handlers EXCEPT ![d] = 1]
    BY <1>8 DEF Subscribe
  <2>3. handlers' \in [Daemons -> {0, 1}]
    BY <1>1, <2>2
  <2>. QED BY <1>1, <1>2, <2>1, <2>3, QuietLaunch
<1>9. ASSUME NEW d \in Daemons, Die(d) PROVE LaunchInv'
  <2>1. inbox' = [inbox EXCEPT ![d] = <<>>] /\ UNCHANGED <<handlers, launched, emits, ran>>
    BY <1>9 DEF Die
  <2>2. <<>> \in Seq(1..Len(launched))
    OBVIOUS
  <2>3. inbox' \in [Daemons -> Seq(1..Len(launched))] /\ \A e \in Daemons : inbox'[e] = inbox[e] \/ inbox'[e] = <<>>
    BY <1>1, <2>1, <2>2
  <2>. QED BY <1>1, <1>2, <2>1, <2>3, QuietLaunch
<1>10. ASSUME NEW d \in Daemons, Send(d) \/ GiveUp(d) PROVE LaunchInv'
  BY <1>3, <1>10 DEF Send, GiveUp, launch
<1>11. ASSUME NEW d \in Daemons, NEW id \in CmdIds, jsCommand(d, id) PROVE LaunchInv'
  BY <1>3, <1>11 DEF jsCommand, launch
<1>12. ASSUME NEW d \in Daemons, Invoke(d) PROVE LaunchInv'
  BY <1>12, InvokeKeeps
<1>13. ASSUME NEW n \in emits, emitEvent(n) PROVE LaunchInv'
  BY <1>13, EmitKeeps
<1>14. CASE UNCHANGED commandsVars
  BY <1>3, <1>14 DEF commandsVars, launch, daemon
<1>. QED
  BY <1>4, <1>5, <1>6, <1>7, <1>8, <1>9, <1>10, <1>11, <1>12, <1>13, <1>14 DEF CommandsNext, Registering

\* The registrations and the launches keep their invariant in every behaviour.
THEOREM CommandsInvariant == CommandsSpec => [](RegistryInv /\ LaunchInv)
<1>1. Rc \notin Daemons
  BY CommandsAssumption
<1>2. CommandsInit => RegistryInv /\ LaunchInv
  BY RegistryInitHolds, LaunchInitHolds
<1>3. RegistryInv /\ LaunchInv /\ [CommandsNext]_commandsVars => RegistryInv' /\ LaunchInv'
  BY <1>1, RegistryKeeps, LaunchKeeps
<1>. QED BY <1>2, <1>3, PTL DEF CommandsSpec

\* A launch runs at most once, and in the script that served the command then
\* (dispatchScriptCommand, the daemons' handlers of command.invoke).
THEOREM LaunchesFireOnce == CommandsSpec => []FiresOnce
<1>1. LaunchInv => FiresOnce
  BY DEF LaunchInv, RanOnce, RanWhereServed, Called, FiresOnce, IsInjective
<1>. QED BY <1>1, CommandsInvariant, PTL

\* Where daemons have names of their own, the entry of one that lives stays
\* until another of the same id replaces it (dropRemoteCommands goes by name).
OwnClientNames == \A d, e \in Daemons : NameOf(d) = NameOf(e) => d = e
THEOREM EntriesOfTheLivingStay == OwnClientNames => (CommandsSpec => LiveEntriesStay)
<1> SUFFICES ASSUME OwnClientNames PROVE CommandsSpec => LiveEntriesStay
  OBVIOUS
<1> DEFINE Stays == \A d \in up' : \A id \in CmdIds :
                      Entry(id, NameOf(d)) \in static =>
                        Entry(id, NameOf(d)) \in static' \/ \E f \in static' : f.id = id
<1>1. ASSUME RegistryInv, [CommandsNext]_commandsVars PROVE [Stays]_commandsVars
  <2>0. static' = static => Stays
    OBVIOUS
  <2>1. static = syncScriptCommands(locals, remotes)
    BY <1>1 DEF RegistryInv
  <2>2. ASSUME NEW id \in CmdIds, RegisterCommand(id) PROVE Stays
    <3>1. static \subseteq static'
      BY <2>1, <2>2 DEF RegisterCommand, syncScriptCommands
    <3>. QED BY <3>1
  <2>3. ASSUME NEW r \in requests, registerRemoteCommand(r[1], r[2]) PROVE Stays
    <3>1. PICK new : new = Entry(r[2], NameOf(r[1]))
      OBVIOUS
    <3>2. new.id = r[2]
      BY <3>1 DEF Entry
    <3>3. /\ remotes' = {e \in remotes : e.id # r[2]} \cup {new}
          /\ static' = syncScriptCommands(locals, remotes')
      BY <2>3, <3>1 DEF registerRemoteCommand
    <3>4. \A e \in static : e \in static' \/ e.id = r[2]
      BY <2>1, <3>3 DEF syncScriptCommands
    <3>5. new \in static'
      BY <3>3 DEF syncScriptCommands
    <3>6. ASSUME NEW d \in up', NEW id \in CmdIds, Entry(id, NameOf(d)) \in static
          PROVE  Entry(id, NameOf(d)) \in static' \/ \E f \in static' : f.id = id
      <4>1. Entry(id, NameOf(d)).id = id
        BY DEF Entry
      <4>. QED BY <3>2, <3>4, <3>5, <3>6, <4>1
    <3>. QED BY <3>6
  <2>4. ASSUME NEW x \in Daemons, dropRemoteCommands(x) PROVE Stays
    <3>1. /\ x \in goneq /\ remotes' = {e \in remotes : e.by # NameOf(x)}
          /\ static' = syncScriptCommands(locals, remotes') /\ up' = up
      BY <2>4 DEF dropRemoteCommands, daemon
    <3>2. \A e \in static : e.by # NameOf(x) => e \in static'
      BY <2>1, <3>1 DEF syncScriptCommands
    <3>3. ASSUME NEW d \in up', NEW id \in CmdIds PROVE Entry(id, NameOf(d)).by # NameOf(x)
      <4>1. d # x /\ d \in Daemons
        BY <1>1, <3>1 DEF RegistryInv
      <4>2. NameOf(d) # NameOf(x)
        BY <4>1 DEF OwnClientNames
      <4>. QED BY <4>2 DEF Entry
    <3>. QED BY <3>2, <3>3
  <2>5. CASE ShowRows \/ HideRows \/ ActivateRow
    BY <2>0, <2>5 DEF ShowRows, HideRows, ActivateRow, dispatchScriptCommand, registry
  <2>6. ASSUME NEW id \in CmdIds, launchTarget(id) PROVE Stays
    BY <2>0, <2>6 DEF launchTarget, dispatchScriptCommand, registry
  <2>7. ASSUME NEW d \in Daemons, Registering(d) \/ GiveUp(d) \/ Die(d) \/ Invoke(d) PROVE Stays
    BY <2>0, <2>7 DEF Registering, Subscribe, Send, GiveUp, Die, Invoke, registry
  <2>8. ASSUME NEW d \in Daemons, NEW id \in CmdIds, jsCommand(d, id) PROVE Stays
    BY <2>0, <2>8 DEF jsCommand, registry
  <2>9. ASSUME NEW n \in emits, emitEvent(n) PROVE Stays
    BY <2>0, <2>9 DEF emitEvent, registry
  <2>. HIDE DEF Stays
  <2>. QED BY <1>1, <2>2, <2>3, <2>4, <2>5, <2>6, <2>7, <2>8, <2>9 DEF CommandsNext, Loop
<1>2. [Stays]_commandsVars <=> [\A d \in up' : \A id \in CmdIds :
         LET e == Entry(id, NameOf(d))
         IN e \in static => e \in static' \/ \E f \in static' : f.id = id]_commandsVars
  OBVIOUS
<1>. HIDE DEF Stays
<1>. QED BY <1>1, <1>2, CommandsInvariant, PTL DEF CommandsSpec, LiveEntriesStay
-----------------------------------------------------------------------------
(* The loop.                                                               *)

(* What the loop makes of a queue of frames, one after the other. *)
Messages ==
    [t : {"call"}, x : Calls] \cup [t : {"done"}, k : Cmds]
    \cup [t : {"mode", "clear", "ok"}, s : Nat] \cup [t : {"result"}, k : Cmds, got : BOOLEAN]
LEMMA LeastNat ==
  ASSUME NEW S \in SUBSET Nat, S # {}
  PROVE  \E x \in S : \A y \in S : x <= y
<1>1. PICK x \in S : \A y \in S : ~(<<y, x>> \in OpToRel(<, Nat))
  <2>1. IsWellFoundedOn(OpToRel(<, Nat), Nat)
    BY NatLessThanWellFounded
  <2>. HIDE DEF OpToRel
  <2>. QED BY <2>1, WFMin
<1>2. \A y \in S : ~(y < x)
  BY <1>1 DEF OpToRel
<1>. QED BY <1>2

\* A function that is defined along 0..N exists ...
Along(N, D) == [(1..N) \X D -> D]
Follows(f, N, D, b, G) ==
  f \in [0..N -> D] /\ f[0] = b /\ \A n \in 1..N : f[n] = G[<<n, f[n - 1]>>]
LEMMA Recursion ==
  ASSUME NEW N \in Nat, NEW D, NEW b \in D, NEW G \in Along(N, D)
  PROVE  \E f : Follows(f, N, D, b, G)
<1> USE DEF Along, Follows
<1> DEFINE Good(k) == \E f : f \in [0..k -> D] /\ f[0] = b /\ \A n \in 1..k : f[n] = G[<<n, f[n - 1]>>]
           Bad == {k \in 0..N : ~Good(k)}
<1>1. SUFFICES ASSUME Bad # {} PROVE FALSE
  <2>1. N \in 0..N /\ (N \notin Bad => Good(N))
    OBVIOUS
  <2>. QED BY <2>1
<1>2. PICK k \in Bad : \A j \in Bad : k <= j
  <2>1. Bad \in SUBSET Nat
    OBVIOUS
  <2>. HIDE DEF Bad
  <2>. QED BY <1>1, <2>1, LeastNat
<1>3. k \in 0..N /\ ~Good(k)
  OBVIOUS
<1>4. CASE k = 0
  <2>1. [n \in 0..0 |-> b] \in [0..0 -> D] /\ [n \in 0..0 |-> b][0] = b
    OBVIOUS
  <2>2. \A n \in 1..0 : FALSE
    OBVIOUS
  <2>3. Good(0)
    BY <2>1, <2>2
  <2>. QED BY <1>3, <1>4, <2>3
<1>5. CASE k # 0
  <2>1. k - 1 \in 0..N /\ k - 1 \notin Bad
    BY <1>2, <1>3, <1>5
  <2>2. PICK f \in [0..(k - 1) -> D] : f[0] = b /\ \A n \in 1..(k - 1) : f[n] = G[<<n, f[n - 1]>>]
    BY <2>1
  <2>3. f[k - 1] \in D /\ k \in 1..N
    BY <1>3, <1>5, <2>2
  <2> DEFINE g == [n \in 0..k |-> IF n = k THEN G[<<k, f[k - 1]>>] ELSE f[n]]
  <2>4. G[<<k, f[k - 1]>>] \in D
    BY <2>3
  <2>5. g \in [0..k -> D]
    BY <1>3, <1>5, <2>4
  <2>6. g[0] = b
    BY <1>3, <1>5, <2>2
  <2>7. ASSUME NEW n \in 1..k PROVE g[n] = G[<<n, g[n - 1]>>]
    <3>1. n \in 0..k /\ n - 1 \in 0..k /\ n - 1 # k
      BY <1>3
    <3>2. g[n - 1] = f[n - 1]
      BY <3>1
    <3>3. CASE n = k
      BY <3>1, <3>2, <3>3
    <3>4. CASE n # k
      <4>1. n \in 1..(k - 1) /\ g[n] = f[n]
        BY <1>3, <3>1, <3>4
      <4>. QED BY <2>2, <3>2, <4>1
    <3>. QED BY <3>3, <3>4
  <2>. HIDE DEF g
  <2>. QED BY <1>3, <2>5, <2>6, <2>7
<1>. QED BY <1>4, <1>5

\* ... and is the only one.
LEMMA Agreement ==
  ASSUME NEW N \in Nat, NEW f, NEW g, f[0] = g[0],
         \A n \in 1..N : f[n - 1] = g[n - 1] => f[n] = g[n]
  PROVE  f[N] = g[N]
<1> DEFINE Bad == {k \in 0..N : f[k] # g[k]}
<1>1. SUFFICES ASSUME Bad # {} PROVE FALSE
  <2>1. N \in 0..N
    OBVIOUS
  <2>. QED BY <2>1
<1>2. PICK k \in Bad : \A j \in Bad : k <= j
  <2>1. Bad \in SUBSET Nat
    OBVIOUS
  <2>. HIDE DEF Bad
  <2>. QED BY <1>1, <2>1, LeastNat
<1>3. k \in 1..N /\ k - 1 \in 0..N
  BY <1>2
<1>4. k - 1 \notin Bad
  BY <1>2, <1>3
<1>. QED BY <1>2, <1>3, <1>4

LEMMA ToldType == ASSUME NEW v \in Nat, NEW m \in Messages PROVE Told(v, m) \in Nat
  BY DEF Told, Messages

Hearing(f, v, q) == f[0] = v /\ \A n \in 1..Len(q) : f[n] = Told(f[n - 1], q[n])

LEMMA HeardHears ==
  ASSUME NEW v \in Nat, NEW q \in Seq(Messages)
  PROVE  \E f \in [0..Len(q) -> Nat] : Hearing(f, v, q) /\ Heard(v, q) = f[Len(q)]
<1> DEFINE N == Len(q)
           G == [x \in (1..N) \X Nat |-> Told(x[2], q[x[1]])]
           Def(f) == f = [n \in 0..N |-> IF n = 0 THEN v ELSE Told(f[n - 1], q[n])]
           F == CHOOSE f : Def(f)
<1>1. N \in Nat /\ \A n \in 1..N : q[n] \in Messages
  OBVIOUS
<1>2. G \in [(1..N) \X Nat -> Nat]
  <2>1. \A x \in (1..N) \X Nat : Told(x[2], q[x[1]]) \in Nat
    BY <1>1, ToldType
  <2>. QED BY <2>1
<1>3. \A n \in 1..N, w \in Nat : G[<<n, w>>] = Told(w, q[n])
  OBVIOUS
<1>4. PICK f \in [0..N -> Nat] : f[0] = v /\ \A n \in 1..N : f[n] = G[<<n, f[n - 1]>>]
  <2>1. v \in Nat /\ G \in Along(N, Nat)
    BY <1>2 DEF Along
  <2>2. \E f : Follows(f, N, Nat, v, G)
    <3>. HIDE DEF G, N
    <3>. QED BY <1>1, <2>1, Recursion
  <2>. QED BY <2>2 DEF Follows
<1>5. \A n \in 1..N : n - 1 \in 0..N /\ f[n - 1] \in Nat /\ f[n] = Told(f[n - 1], q[n])
  <2>. SUFFICES ASSUME NEW n \in 1..N
                PROVE  n - 1 \in 0..N /\ f[n - 1] \in Nat /\ f[n] = Told(f[n - 1], q[n])
    OBVIOUS
  <2>1. n - 1 \in 0..N
    BY <1>1
  <2>2. f[n - 1] \in Nat
    BY <1>4, <2>1
  <2>. QED BY <1>3, <1>4, <2>1, <2>2
<1>6. Def(f)
  <2>1. \A n \in 0..N : f[n] = IF n = 0 THEN v ELSE Told(f[n - 1], q[n])
    BY <1>1, <1>4, <1>5
  <2>. QED BY <1>4, <2>1
<1>7. Def(F)
  <2>. HIDE DEF Def
  <2>. QED BY <1>6
<1>8. F[0] = v /\ \A n \in 1..N : F[n] = Told(F[n - 1], q[n])
  <2>1. \A n \in 0..N : F[n] = IF n = 0 THEN v ELSE Told(F[n - 1], q[n])
    <3>. HIDE DEF F, N
    <3>. QED BY <1>7
  <2>. HIDE DEF F
  <2>. QED BY <1>1, <2>1
<1>9. Heard(v, q) = F[N]
  BY DEF Heard
<1>10. F[N] = f[N]
  <2>1. \A n \in 1..N : F[n - 1] = f[n - 1] => F[n] = f[n]
    BY <1>5, <1>8
  <2>2. F[0] = f[0]
    BY <1>4, <1>8
  <2>. HIDE DEF F, N
  <2>. QED BY <1>1, <2>1, <2>2, Agreement
<1>. QED BY <1>4, <1>5, <1>9, <1>10 DEF Hearing

LEMMA HeardIs ==
  ASSUME NEW v \in Nat, NEW q \in Seq(Messages), NEW g, Hearing(g, v, q)
  PROVE  Heard(v, q) = g[Len(q)]
<1>1. PICK f \in [0..Len(q) -> Nat] : Hearing(f, v, q) /\ Heard(v, q) = f[Len(q)]
  BY HeardHears
<1>2. Len(q) \in Nat
  OBVIOUS
<1>3. f[0] = g[0] /\ \A n \in 1..Len(q) : f[n - 1] = g[n - 1] => f[n] = g[n]
  BY <1>1 DEF Hearing
<1>4. f[Len(q)] = g[Len(q)]
  BY <1>2, <1>3, Agreement
<1>. QED BY <1>1, <1>4

LEMMA HeardNothing == ASSUME NEW v \in Nat PROVE Heard(v, <<>>) = v
<1>0. <<>> \in Seq(Messages)
  OBVIOUS
<1>1. PICK f \in [0..Len(<<>>) -> Nat] : Hearing(f, v, <<>>) /\ Heard(v, <<>>) = f[Len(<<>>)]
  BY <1>0, HeardHears
<1>2. Len(<<>>) = 0
  OBVIOUS
<1>. QED BY <1>1, <1>2 DEF Hearing

LEMMA HeardType == ASSUME NEW v \in Nat, NEW q \in Seq(Messages) PROVE Heard(v, q) \in Nat
<1>1. PICK f \in [0..Len(q) -> Nat] : Heard(v, q) = f[Len(q)]
  BY HeardHears
<1>2. Len(q) \in 0..Len(q)
  OBVIOUS
<1>. QED BY <1>1, <1>2

\* One frame more, at the end or at the head.
LEMMA HeardAppend ==
  ASSUME NEW v \in Nat, NEW q \in Seq(Messages), NEW m \in Messages
  PROVE  Heard(v, Append(q, m)) = Told(Heard(v, q), m)
<1> DEFINE N == Len(q)
           r == Append(q, m)
<1>1. PICK f \in [0..N -> Nat] : Hearing(f, v, q) /\ Heard(v, q) = f[N]
  BY HeardHears
<1>2. /\ N \in Nat /\ r \in Seq(Messages) /\ Len(r) = N + 1 /\ r[N + 1] = m
      /\ \A n \in 1..N : r[n] = q[n]
  OBVIOUS
<1> DEFINE g == [n \in 0..(N + 1) |-> IF n = N + 1 THEN Told(f[N], m) ELSE f[n]]
<1> HIDE DEF r, N
<1>3. g[0] = v /\ \A n \in 1..(N + 1) : g[n] = Told(g[n - 1], r[n])
  <2>1. g[0] = v
    BY <1>1, <1>2 DEF Hearing
  <2>2. ASSUME NEW n \in 1..(N + 1) PROVE g[n] = Told(g[n - 1], r[n])
    <3>1. CASE n = N + 1
      BY <1>2, <3>1
    <3>2. CASE n # N + 1
      <4>1. n \in 1..N /\ f[n] = Told(f[n - 1], q[n])
        BY <1>1, <1>2, <3>2 DEF Hearing, N
      <4>. QED BY <1>2, <4>1
    <3>. QED BY <3>1, <3>2
  <2>. QED BY <2>1, <2>2
<1>4. g[N + 1] = Told(f[N], m)
  BY <1>2
<1> HIDE DEF g
<1>5. Hearing(g, v, r)
  BY <1>2, <1>3 DEF Hearing
<1>6. Heard(v, r) = g[N + 1]
  BY <1>2, <1>5, HeardIs
<1>. QED BY <1>1, <1>4, <1>6 DEF r

LEMMA HeardTail ==
  ASSUME NEW v \in Nat, NEW q \in Seq(Messages), q # <<>>
  PROVE  Heard(Told(v, Head(q)), Tail(q)) = Heard(v, q)
<1> DEFINE N == Len(q)
           r == Tail(q)
           w == Told(v, Head(q))
<1>1. PICK f \in [0..N -> Nat] : Hearing(f, v, q) /\ Heard(v, q) = f[N]
  BY HeardHears
<1>2. /\ N \in Nat \ {0} /\ r \in Seq(Messages) /\ Len(r) = N - 1 /\ Head(q) = q[1] /\ Head(q) \in Messages
      /\ \A n \in 1..(N - 1) : r[n] = q[n + 1]
  OBVIOUS
<1>3. w \in Nat
  BY <1>2, ToldType
<1> DEFINE g == [n \in 0..(N - 1) |-> f[n + 1]]
<1>4. f[1] = w
  BY <1>1, <1>2 DEF Hearing
<1> HIDE DEF r, N, w
<1>5. g[0] = w /\ \A n \in 1..(N - 1) : g[n] = Told(g[n - 1], r[n])
  <2>1. g[0] = w
    BY <1>2, <1>4
  <2>2. ASSUME NEW n \in 1..(N - 1) PROVE g[n] = Told(g[n - 1], r[n])
    <3>1. n + 1 \in 1..N /\ (n + 1) - 1 = n /\ n \in 0..(N - 1) /\ n - 1 \in 0..(N - 1) /\ (n - 1) + 1 = n
      BY <1>2
    <3>2. f[n + 1] = Told(f[(n + 1) - 1], q[n + 1])
      BY <1>1, <3>1 DEF Hearing, N
    <3>3. g[n] = f[n + 1] /\ g[n - 1] = f[n]
      BY <3>1
    <3>. QED BY <1>2, <3>1, <3>2, <3>3
  <2>. QED BY <2>1, <2>2
<1>6. g[N - 1] = f[N]
  BY <1>2
<1> HIDE DEF g
<1>7. Hearing(g, w, r)
  BY <1>2, <1>5 DEF Hearing
<1>8. Heard(w, r) = g[N - 1]
  BY <1>2, <1>3, <1>7, HeardIs, SMTT(30)
<1>. QED BY <1>1, <1>6, <1>8 DEF r, w

-----------------------------------------------------------------------------
(* Types.                                                                  *)

JobT == [at : {"none", "post", "queued", "ran"}, ans : Nat, floor : Nat, back : {"no", "told", "gone"}]
Modes(n) == [t : {"mode", "clear"}, s : 1..n]
Closures(n) == [t : {"call"}, x : Calls] \cup [t : {"done"}, k : Cmds] \cup Modes(n)
Frames(n) == [t : {"result"}, k : Cmds, got : BOOLEAN] \cup [t : {"mode", "clear", "ok"}, s : 1..n]

BootTyped ==
    /\ bound \in Bounds /\ phase \in {"connecting", "connected", "boot", "run", "stopped"}
    /\ stopping \in BOOLEAN /\ brokerUp \in BOOLEAN
CallsTyped ==
    /\ version \in Nat /\ acked \in 0..version
    /\ calling \in [Callers -> 0..MaxCalls] /\ last \in [Callers -> 0..MaxCalls]
    /\ job \in [Calls -> JobT]
QueuesTyped ==
    /\ sessions \in 0..MaxSessions /\ held \in [id : 0..sessions, owner : Cmds \cup {"other"}]
    /\ ops \in Seq(Closures(sessions)) /\ Len(ops) <= OpsCap
    /\ reader \in Seq(Modes(sessions)) /\ Len(reader) <= 1
    /\ fromBroker \in Seq(Frames(sessions))
    /\ accepting \in 0..sessions /\ cancels \subseteq 1..sessions
CmdTyped == cmd \in [Cmds -> [at : {"idle", "ask", "wait", "post", "end"}, left : Int]]
LoopTyped == BootTyped /\ CallsTyped /\ QueuesTyped /\ CmdTyped

LEMMA LoopInitTyped == LoopInit => LoopTyped
<1> SUFFICES ASSUME LoopInit PROVE LoopTyped
  OBVIOUS
<1>1. BootTyped
  BY DEF LoopInit, Begins, BootTyped
<1>2. CallsTyped
  <2>1. NoCall \in JobT /\ 0 \in 0..MaxCalls
    BY LoopAssumption DEF NoCall, JobT
  <2>. QED BY <2>1 DEF LoopInit, Begins, CallsTyped
<1>3. QueuesTyped
  <2>1. sessions = 0 /\ 0 \in 0..MaxSessions /\ 0 \in 0..sessions
    BY LoopAssumption DEF LoopInit, Begins
  <2>2. NoOne \in [id : 0..sessions, owner : Cmds \cup {"other"}]
    BY <2>1 DEF NoOne
  <2>3. <<>> \in Seq(Closures(sessions)) /\ <<>> \in Seq(Modes(sessions)) /\ <<>> \in Seq(Frames(sessions))
    OBVIOUS
  <2>4. Len(<<>>) = 0 /\ 0 <= OpsCap /\ 0 <= 1
    BY LoopAssumption
  <2>. QED BY <2>1, <2>2, <2>3, <2>4 DEF LoopInit, Begins, QueuesTyped
<1>4. CmdTyped
  <2>1. \A k \in Cmds : [at |-> "idle", left |-> 0] \in [at : {"idle", "ask", "wait", "post", "end"}, left : Int]
    OBVIOUS
  <2>. QED BY <2>1 DEF LoopInit, Begins, CmdTyped
<1>. QED BY <1>1, <1>2, <1>3, <1>4 DEF LoopTyped

\* A closure posted to the loop.
LEMMA PostTyped ==
  ASSUME QueuesTyped, NEW fn \in Closures(sessions), PostOp(fn)
  PROVE  ops' \in Seq(Closures(sessions)) /\ Len(ops') <= OpsCap
<1>1. ops \in Seq(Closures(sessions)) /\ Len(ops) <= OpsCap /\ OpsCap \in Nat
  BY LoopAssumption DEF QueuesTyped
<1>2. CASE Len(ops) < OpsCap /\ ops' = Append(ops, fn)
  <2>1. Append(ops, fn) \in Seq(Closures(sessions)) /\ Len(Append(ops, fn)) = Len(ops) + 1 /\ Len(ops) \in Nat
    BY <1>1
  <2>. QED BY <1>1, <1>2, <2>1
<1>3. CASE ops' = ops
  BY <1>1, <1>3
<1>. QED BY <1>2, <1>3 DEF PostOp

\* One call's record changes.
LEMMA JobAt ==
  ASSUME job \in [Calls -> JobT], NEW x \in Calls, NEW r \in JobT, job' = [job EXCEPT ![x] = r]
  PROVE  job' \in [Calls -> JobT] /\ job'[x] = r /\ \A y \in Calls : y # x => job'[y] = job[y]
OBVIOUS

LEMMA OneLong ==
  ASSUME NEW S, NEW q \in Seq(S), q # <<>>, Len(q) <= 1
  PROVE  q = <<q[1]>>
<1>1. Len(q) \in Nat \ {0}
  OBVIOUS
<1>2. Len(q) = 1
  BY <1>1
<1>. QED BY <1>2

\* With a session more, what is on its way stays well-formed.
LEMMA MoreSessions ==
  ASSUME NEW n \in Nat
  PROVE  /\ Modes(n) \subseteq Modes(n + 1) /\ Closures(n) \subseteq Closures(n + 1)
         /\ Frames(n) \subseteq Frames(n + 1) /\ 1..n \subseteq 1..(n + 1) /\ 0..n \subseteq 0..(n + 1)
<1>1. 1..n \subseteq 1..(n + 1) /\ 0..n \subseteq 0..(n + 1)
  OBVIOUS
<1>2. Modes(n) \subseteq Modes(n + 1)
  BY <1>1 DEF Modes
<1>. QED BY <1>1, <1>2 DEF Closures, Frames

\* What is said of an end of a session.
LEMMA EndingTyped ==
  ASSUME QueuesTyped, NEW got \in BOOLEAN
  PROVE  Ending(got) \in Seq(Frames(sessions))
<1>1. PICK n \in Nat : n = sessions
  BY DEF QueuesTyped
<1>2. held.id \in 0..n /\ held.owner \in Cmds \cup {"other"}
  BY <1>1 DEF QueuesTyped
<1>3. CASE held.id = 0
  <2>1. <<>> \in Seq(Frames(sessions))
    OBVIOUS
  <2>. QED BY <1>3, <2>1 DEF Ending
<1>4. CASE held.id # 0
  <2>1. PICK m : m = Accepting("clear", held.id)
    OBVIOUS
  <2>2. m \in Frames(sessions)
    BY <1>1, <1>2, <1>4, <2>1 DEF Accepting, Frames
  <2>3. PICK r : r = [t |-> "result", k |-> held.owner, got |-> got]
    OBVIOUS
  <2>4. held.owner \in Cmds => r \in Frames(sessions)
    BY <2>3 DEF Frames
  <2>5. Ending(got) = (IF held.owner \in Cmds THEN <<r>> ELSE <<>>) \o <<m>>
    BY <1>4, <2>1, <2>3 DEF Ending
  <2>6. CASE held.owner \in Cmds
    <3>1. <<r>> \in Seq(Frames(sessions)) /\ <<m>> \in Seq(Frames(sessions))
      BY <2>2, <2>4, <2>6
    <3>. QED BY <2>5, <2>6, <3>1
  <2>7. CASE held.owner \notin Cmds
    <3>1. <<>> \in Seq(Frames(sessions)) /\ <<m>> \in Seq(Frames(sessions))
      BY <2>2
    <3>. QED BY <2>5, <2>7, <3>1
  <2>. QED BY <2>6, <2>7
<1>. QED BY <1>3, <1>4

-----------------------------------------------------------------------------
(* Calls.                                                                  *)

\* What a call is told was true after anybody had been told what it starts
\* from.
JobsInv ==
    \A x \in Calls :
      /\ job[x].floor <= acked /\ job[x].ans <= version
      /\ job[x].at = "ran" => job[x].ans >= job[x].floor
      /\ job[x].back = "told" => job[x].at = "ran"

\* The closures of a script's calls are in the channel in the order of the
\* calls, and none is older than what has run; only its latest call is posted.
ScriptCall(m) == m.t = "call" /\ m.x[1] \in Scripts
Posting ==
    \A x \in Calls : x[1] \in Scripts /\ job[x].at = "post" =>
      x[2] = calling[x[1]] /\ job[x].back = "no"
Ordered(q, l) ==
    /\ \A i \in DOMAIN q : ScriptCall(q[i]) =>
         l[q[i].x[1]] <= q[i].x[2] /\ q[i].x[2] <= calling[q[i].x[1]]
    /\ \A i, j \in DOMAIN q : i < j /\ ScriptCall(q[i]) /\ ScriptCall(q[j]) /\ q[i].x[1] = q[j].x[1] =>
         q[i].x[2] <= q[j].x[2]
RanCalled == \A c \in Scripts : last[c] <= calling[c]
CallsInv == JobsInv /\ Posting /\ Ordered(ops, last) /\ RanCalled

LEMMA CallIs == ASSUME NEW x \in Calls PROVE x = <<x[1], x[2]>> /\ x[1] \in Callers /\ x[2] \in 1..MaxCalls
  BY DEF Calls

LEMMA CallsInitHold == LoopInit => CallsInv
<1> SUFFICES ASSUME LoopInit PROVE CallsInv
  OBVIOUS
<1>1. /\ acked = 0 /\ version = 0 /\ \A x \in Calls : job[x] = NoCall
      /\ ops = <<>> /\ \A c \in Callers : last[c] = 0 /\ calling[c] = 0
  BY DEF LoopInit, Begins
<1>2. NoCall.at = "none" /\ NoCall.floor = 0 /\ NoCall.ans = 0 /\ NoCall.back = "no"
  BY DEF NoCall
<1>3. DOMAIN ops = {}
  BY <1>1
<1>. QED BY <1>1, <1>2, <1>3 DEF CallsInv, JobsInv, Posting, Ordered, RanCalled, Callers

\* A closure that is no script's call is posted, or nowhere.
LEMMA PostOrdered ==
  ASSUME QueuesTyped, NEW l, Ordered(ops, l), NEW fn \in Closures(sessions), ~ScriptCall(fn), PostOp(fn)
  PROVE  Ordered(ops', l)
<1>1. ops \in Seq(Closures(sessions))
  BY DEF QueuesTyped
<1>2. CASE ops' = Append(ops, fn)
  <2>1. \A i \in DOMAIN Append(ops, fn) : (i \in DOMAIN ops /\ Append(ops, fn)[i] = ops[i]) \/ Append(ops, fn)[i] = fn
    BY <1>1
  <2>2. \A i \in DOMAIN ops' : ScriptCall(ops'[i]) => i \in DOMAIN ops /\ ops'[i] = ops[i]
    BY <1>2, <2>1
  <2>. QED BY <2>2 DEF Ordered
<1>3. CASE ops' = ops
  BY <1>3
<1>. QED BY <1>2, <1>3 DEF PostOp

\* A call begins.
LEMMA CallStep ==
  ASSUME LoopTyped, CallsInv, NEW c \in Callers, Call(c)
  PROVE  CallsTyped' /\ CallsInv'
<1>1. PICK n : n = calling[c] + 1
  OBVIOUS
<1>2. PICK r : r = [NoCall EXCEPT !.at = "post", !.floor = acked]
  OBVIOUS
<1>3. PICK x : x = <<c, n>>
  OBVIOUS
<1>4. /\ calling' = [calling EXCEPT ![c] = n] /\ job' = [job EXCEPT ![x] = r]
      /\ UNCHANGED <<ops, version, last, acked, bound>> /\ calling[c] < bound.calls[c]
      /\ ~Pending(c)
  BY <1>1, <1>2, <1>3 DEF Call, desktop, boot
<1>5. /\ version \in Nat /\ acked \in 0..version
      /\ calling \in [Callers -> 0..MaxCalls] /\ last \in [Callers -> 0..MaxCalls]
      /\ job \in [Calls -> JobT]
  BY DEF LoopTyped, CallsTyped
<1>6. n \in 1..MaxCalls /\ calling[c] \in Nat /\ n = calling[c] + 1
  <2>1. bound.calls \in [Callers -> 0..MaxCalls] /\ MaxCalls \in Nat
    BY LoopAssumption DEF LoopTyped, BootTyped, Callers
  <2>. QED BY <1>1, <1>4, <1>5, <2>1
<1>7. x \in Calls /\ x[1] = c /\ x[2] = n
  BY <1>3, <1>6 DEF Calls
<1>8. r \in JobT /\ r.at = "post" /\ r.floor = acked /\ r.ans = 0 /\ r.back = "no"
  <2>1. acked \in Nat
    BY <1>5
  <2>2. r = [at |-> "post", ans |-> 0, floor |-> acked, back |-> "no"]
    BY <1>2 DEF NoCall
  <2>. QED BY <2>1, <2>2 DEF JobT
<1>9. job' \in [Calls -> JobT] /\ job'[x] = r /\ \A y \in Calls : y # x => job'[y] = job[y]
  BY <1>4, <1>5, <1>7, <1>8, JobAt
<1>10. /\ calling' \in [Callers -> 0..MaxCalls] /\ calling'[c] = n
       /\ \A d \in Callers : d # c => calling'[d] = calling[d]
       /\ \A d \in Callers : calling[d] <= calling'[d] /\ calling[d] \in Nat /\ calling'[d] \in Nat
  <2>1. calling' \in [Callers -> 0..MaxCalls] /\ calling'[c] = n /\ \A d \in Callers : d # c => calling'[d] = calling[d]
    BY <1>4, <1>5, <1>6
  <2>2. \A d \in Callers : calling[d] \in Nat /\ calling'[d] \in Nat
    BY <1>5, <2>1
  <2>3. \A d \in Callers : calling[d] <= calling'[d]
    BY <1>6, <2>1, <2>2
  <2>. QED BY <2>1, <2>2, <2>3
<1>11. CallsTyped'
  BY <1>4, <1>5, <1>9, <1>10 DEF CallsTyped
<1>12. JobsInv'
  <2> SUFFICES ASSUME NEW y \in Calls
               PROVE  /\ job'[y].floor <= acked /\ job'[y].ans <= version
                      /\ job'[y].at = "ran" => job'[y].ans >= job'[y].floor
                      /\ job'[y].back = "told" => job'[y].at = "ran"
    BY <1>4 DEF JobsInv
  <2>1. CASE y = x
    BY <1>5, <1>8, <1>9, <2>1
  <2>2. CASE y # x
    BY <1>9, <2>2 DEF CallsInv, JobsInv
  <2>. QED BY <2>1, <2>2
\* The latest call of a script has returned, so it is not being posted.
<1>13. Posting'
  <2> SUFFICES ASSUME NEW y \in Calls, y[1] \in Scripts, job'[y].at = "post"
               PROVE  y[2] = calling'[y[1]] /\ job'[y].back = "no"
    BY DEF Posting
  <2>1. CASE y = x
    BY <1>7, <1>8, <1>9, <1>10, <2>1
  <2>2. CASE y # x
    <3>1. job[y].at = "post" /\ job'[y] = job[y]
      BY <1>9, <2>2
    <3>2. y[2] = calling[y[1]] /\ job[y].back = "no"
      BY <3>1 DEF CallsInv, Posting
    <3>3. y[1] # c
      <4>1. SUFFICES ASSUME y[1] = c PROVE FALSE
        OBVIOUS
      <4>2. y = Latest(c) /\ y[2] \in 1..MaxCalls
        BY <3>2, <4>1, CallIs DEF Latest
      <4>3. calling[c] # 0
        BY <3>2, <4>1, <4>2, LoopAssumption
      <4>4. Pending(c)
        BY <3>2, <4>2, <4>3 DEF Pending
      <4>. QED BY <1>4, <4>4
    <3>. QED BY <1>10, <3>1, <3>2, <3>3, CallIs
  <2>. QED BY <2>1, <2>2
<1>14. Ordered(ops, last)'
  <2>1. \A i \in DOMAIN ops : ScriptCall(ops[i]) => ops[i].x \in Calls
    BY SMTT(30) DEF LoopTyped, QueuesTyped, Closures, Modes, ScriptCall
  <2>2. \A i \in DOMAIN ops : ScriptCall(ops[i]) => ops[i].x[1] \in Callers /\ ops[i].x[2] \in Nat
    BY <2>1, CallIs
  <2>3. \A i \in DOMAIN ops : ScriptCall(ops[i]) => ops[i].x[2] <= calling[ops[i].x[1]]
    BY DEF CallsInv, Ordered
  <2>4. \A i \in DOMAIN ops : ScriptCall(ops[i]) => ops[i].x[2] <= calling'[ops[i].x[1]]
    BY <1>10, <2>2, <2>3
  <2>. QED BY <1>4, <2>4 DEF CallsInv, Ordered, ScriptCall
<1>15. RanCalled'
  <2> SUFFICES ASSUME NEW d \in Scripts PROVE last[d] <= calling'[d]
    BY <1>4 DEF RanCalled
  <2>1. d \in Callers
    BY DEF Callers
  <2>2. last[d] \in Nat /\ last[d] <= calling[d]
    BY <1>5, <2>1 DEF CallsInv, RanCalled
  <2>. QED BY <1>10, <2>1, <2>2
<1>. QED BY <1>11, <1>12, <1>13, <1>14, <1>15 DEF CallsInv

\* What a change of one call's record has to keep.
LEMMA JobsKept ==
  ASSUME CallsTyped, JobsInv, NEW x \in Calls, NEW r \in JobT, job' = [job EXCEPT ![x] = r],
         UNCHANGED <<calling, last>>, version' \in Nat, acked' \in 0..version',
         version <= version', acked <= acked',
         r.floor <= acked', r.ans <= version', r.at = "ran" => r.ans >= r.floor, r.back = "told" => r.at = "ran"
  PROVE  CallsTyped' /\ JobsInv'
<1>1. /\ version \in Nat /\ acked \in 0..version
      /\ calling \in [Callers -> 0..MaxCalls] /\ last \in [Callers -> 0..MaxCalls]
      /\ job \in [Calls -> JobT]
  BY DEF CallsTyped
<1>2. job' \in [Calls -> JobT] /\ job'[x] = r /\ \A y \in Calls : y # x => job'[y] = job[y]
  BY <1>1, JobAt
<1>3. CallsTyped'
  BY <1>1, <1>2 DEF CallsTyped
<1>4. ASSUME NEW y \in Calls
      PROVE  /\ job'[y].floor <= acked' /\ job'[y].ans <= version'
             /\ job'[y].at = "ran" => job'[y].ans >= job'[y].floor
             /\ job'[y].back = "told" => job'[y].at = "ran"
  <2>1. CASE y = x
    BY <1>2, <2>1
  <2>2. CASE y # x
    <3>1. /\ job[y].floor <= acked /\ job[y].ans <= version
          /\ job[y].at = "ran" => job[y].ans >= job[y].floor
          /\ job[y].back = "told" => job[y].at = "ran"
      BY DEF JobsInv
    <3>2. job'[y] = job[y] /\ job[y].floor \in Nat /\ job[y].ans \in Nat
      BY <1>1, <1>2, <2>2 DEF JobT
    <3>3. acked \in Nat /\ acked' \in Nat
      BY <1>1
    <3>4. job[y].floor <= acked' /\ job[y].ans <= version'
      BY <1>1, <3>1, <3>2, <3>3
    <3>. QED BY <3>1, <3>2, <3>4
  <2>. QED BY <2>1, <2>2
<1>. QED BY <1>3, <1>4 DEF JobsInv

\* The closure of a call goes into the channel, the latest of its caller if
\* that is a script.
LEMMA PostCallStep ==
  ASSUME LoopTyped, CallsInv, NEW x \in Calls, PostCall(x)
  PROVE  CallsTyped' /\ CallsInv'
<1>1. PICK r : r = [job[x] EXCEPT !.at = "queued"]
  OBVIOUS
<1>2. PICK m : m = [t |-> "call", x |-> x]
  OBVIOUS
<1>3. /\ job[x].at = "post" /\ PostOp(m) /\ job' = [job EXCEPT ![x] = r]
      /\ UNCHANGED <<version, last, acked, calling>>
  BY <1>1, <1>2 DEF PostCall, desktop
<1>4. /\ version \in Nat /\ acked \in 0..version /\ acked \in Nat
      /\ calling \in [Callers -> 0..MaxCalls] /\ last \in [Callers -> 0..MaxCalls]
      /\ job \in [Calls -> JobT] /\ job[x] \in JobT
  BY DEF LoopTyped, CallsTyped
<1>5. /\ r \in JobT /\ r.at = "queued" /\ r.floor = job[x].floor /\ r.ans = job[x].ans /\ r.back = job[x].back
  BY <1>1, <1>4 DEF JobT
<1>6. r.floor <= acked /\ r.ans <= version /\ r.back # "told"
  BY <1>3, <1>5 DEF CallsInv, JobsInv
<1>7. CallsTyped' /\ JobsInv'
  <2>1. CallsTyped /\ JobsInv
    BY DEF LoopTyped, CallsInv
  <2>2. /\ UNCHANGED <<calling, last>> /\ version' \in Nat /\ acked' \in 0..version'
        /\ version <= version' /\ acked <= acked'
    BY <1>3, <1>4
  <2>3. /\ r.floor <= acked' /\ r.ans <= version'
        /\ r.at = "ran" => r.ans >= r.floor
        /\ r.back = "told" => r.at = "ran"
    BY <1>3, <1>5, <1>6
  <2>. QED BY <1>3, <1>5, <2>1, <2>2, <2>3, JobsKept
<1>8. job'[x] = r /\ \A y \in Calls : y # x => job'[y] = job[y]
  BY <1>3, <1>4, <1>5, JobAt
<1>9. Posting'
  BY <1>3, <1>5, <1>8 DEF CallsInv, Posting
<1>10. RanCalled'
  BY <1>3 DEF CallsInv, RanCalled
<1>11. m.t = "call" /\ m.x = x /\ m \in Closures(sessions)
  BY <1>2 DEF Closures
<1>12. Ordered(ops, last)'
  <2>1. ops \in Seq(Closures(sessions))
    BY DEF LoopTyped, QueuesTyped
  <2>2. CASE ops' = ops
    BY <1>3, <2>2 DEF CallsInv, Ordered, ScriptCall
  <2>3. CASE ops' = Append(ops, m)
    <3>1. \A i \in DOMAIN ops' : i \in Nat /\ ((i \in DOMAIN ops /\ ops'[i] = ops[i]) \/ (i = Len(ops) + 1 /\ ops'[i] = m))
      <4>1. \A i \in DOMAIN Append(ops, m) : i \in Nat /\ ((i \in DOMAIN ops /\ Append(ops, m)[i] = ops[i])
                                              \/ (i = Len(ops) + 1 /\ Append(ops, m)[i] = m))
        BY <1>11, <2>1
      <4>. QED BY <2>3, <4>1
    <3>2. x[1] \in Scripts => x[2] = calling[x[1]] /\ last[x[1]] <= calling[x[1]] /\ x[2] <= x[2]
      <4>1. x[2] <= x[2]
        <5>1. x[2] \in Nat
          BY CallIs
        <5>. QED BY <5>1
      <4>. QED BY <1>3, <4>1 DEF CallsInv, Posting, RanCalled
    <3>3. \A i \in DOMAIN ops : ScriptCall(ops[i]) =>
            last[ops[i].x[1]] <= ops[i].x[2] /\ ops[i].x[2] <= calling[ops[i].x[1]]
      BY DEF CallsInv, Ordered
    <3>4. \A i \in DOMAIN ops' : ScriptCall(ops'[i]) =>
            last[ops'[i].x[1]] <= ops'[i].x[2] /\ ops'[i].x[2] <= calling[ops'[i].x[1]]
      BY <1>11, <3>1, <3>2, <3>3 DEF ScriptCall
    <3>5. ASSUME NEW i \in DOMAIN ops', NEW j \in DOMAIN ops', i < j,
                 ScriptCall(ops'[i]), ScriptCall(ops'[j]), ops'[i].x[1] = ops'[j].x[1]
          PROVE  ops'[i].x[2] <= ops'[j].x[2]
      <4>1. \A k \in DOMAIN ops : k \in Nat /\ k <= Len(ops) /\ Len(ops) \in Nat
        BY <2>1
      <4>2. i \in DOMAIN ops /\ ops'[i] = ops[i]
        BY <3>1, <3>5, <4>1, <2>1
      <4>3. CASE j \in DOMAIN ops /\ ops'[j] = ops[j]
        BY <3>5, <4>2, <4>3 DEF CallsInv, Ordered
      <4>4. CASE ops'[j] = m
        <5>1. ops[i].x[2] <= calling[ops[i].x[1]]
          BY <3>3, <3>5, <4>2
        <5>2. ops[i].x[1] = x[1] /\ x[1] \in Scripts
          BY <1>11, <3>5, <4>2, <4>4 DEF ScriptCall
        <5>3. ops'[j].x[2] = calling[x[1]]
          BY <1>11, <3>2, <4>4, <5>2
        <5>. QED BY <4>2, <5>1, <5>2, <5>3
      <4>. QED BY <3>1, <4>3, <4>4
    <3>. QED BY <1>3, <3>4, <3>5 DEF Ordered, ScriptCall
  <2>. QED BY <1>3, <2>2, <2>3 DEF PostOp
<1>. QED BY <1>7, <1>9, <1>10, <1>12 DEF CallsInv

\* A call returns: with the answer, or without.
LEMMA ReturnStep ==
  ASSUME LoopTyped, CallsInv, NEW c \in Callers, Return(c)
  PROVE  CallsTyped' /\ CallsInv'
<1>1. PICK x : x = Latest(c)
  OBVIOUS
<1>2. PICK r : r = [job[x] EXCEPT !.back = "told"]
  OBVIOUS
<1>3. /\ Pending(c) /\ job[x].at = "ran"
      /\ acked' = (IF job[x].ans > acked THEN job[x].ans ELSE acked)
      /\ job' = [job EXCEPT ![x] = r]
      /\ UNCHANGED <<ops, version, last, calling>>
  BY <1>1, <1>2 DEF Return, desktop
<1>4. x \in Calls /\ x[1] = c /\ x[2] = calling[c]
  <2>1. calling[c] \in 0..MaxCalls /\ calling[c] # 0
    BY <1>3 DEF LoopTyped, CallsTyped, Pending
  <2>2. calling[c] \in 1..MaxCalls
    BY <2>1, LoopAssumption
  <2>. QED BY <1>1, <2>2 DEF Latest, Calls
<1>5. /\ version \in Nat /\ acked \in 0..version /\ acked \in Nat
      /\ job \in [Calls -> JobT] /\ job[x] \in JobT /\ job[x].ans \in Nat /\ job[x].floor \in Nat
  BY <1>4 DEF LoopTyped, CallsTyped, JobT
<1>6. r \in JobT /\ r.at = "ran" /\ r.floor = job[x].floor /\ r.ans = job[x].ans
  BY <1>2, <1>3, <1>5 DEF JobT
<1>7. job[x].floor <= acked /\ job[x].ans <= version /\ job[x].ans >= job[x].floor
  BY <1>3, <1>4 DEF CallsInv, JobsInv
<1>8. acked <= acked' /\ acked' \in 0..version
  BY <1>3, <1>5, <1>7
<1>9. acked' \in Nat /\ job[x].floor <= acked'
  BY <1>5, <1>7, <1>8
<1>10. CallsTyped' /\ JobsInv'
  <2>1. CallsTyped /\ JobsInv
    BY DEF LoopTyped, CallsInv
  <2>2. /\ UNCHANGED <<calling, last>> /\ version' \in Nat /\ acked' \in 0..version'
        /\ version <= version' /\ acked <= acked'
    BY <1>3, <1>5, <1>8
  <2>3. /\ r.floor <= acked' /\ r.ans <= version'
        /\ r.at = "ran" => r.ans >= r.floor
        /\ r.back = "told" => r.at = "ran"
    BY <1>3, <1>5, <1>6, <1>7, <1>9
  <2>. QED BY <1>3, <1>4, <1>6, <2>1, <2>2, <2>3, JobsKept
<1>11. job'[x] = r /\ \A y \in Calls : y # x => job'[y] = job[y]
  BY <1>3, <1>4, <1>5, <1>6, JobAt
<1>12. Posting' /\ Ordered(ops, last)' /\ RanCalled'
  BY <1>3, <1>6, <1>11 DEF CallsInv, Posting, Ordered, RanCalled, ScriptCall
<1>. QED BY <1>10, <1>12 DEF CallsInv

LEMMA GivesUpStep ==
  ASSUME LoopTyped, CallsInv, NEW c \in Callers, Stopped(c) \/ Expire(c)
  PROVE  CallsTyped' /\ CallsInv'
<1>1. PICK x : x = Latest(c)
  OBVIOUS
<1>2. PICK r : r = [job[x] EXCEPT !.back = "gone"]
  OBVIOUS
<1>3. /\ Pending(c) /\ (c \in Remotes \/ job[x].at # "post")
      /\ job' = [job EXCEPT ![x] = r]
      /\ UNCHANGED <<ops, version, last, calling, acked>>
  BY <1>1, <1>2 DEF Stopped, Expire, GivesUp, desktop
<1>4. x \in Calls /\ x[1] = c /\ x[2] = calling[c]
  <2>1. calling[c] \in 0..MaxCalls /\ calling[c] # 0
    BY <1>3 DEF LoopTyped, CallsTyped, Pending
  <2>2. calling[c] \in 1..MaxCalls
    BY <2>1, LoopAssumption
  <2>. QED BY <1>1, <2>2 DEF Latest, Calls
<1>5. /\ version \in Nat /\ acked \in 0..version /\ acked \in Nat
      /\ job \in [Calls -> JobT] /\ job[x] \in JobT
  BY <1>4 DEF LoopTyped, CallsTyped
<1>6. r \in JobT /\ r.at = job[x].at /\ r.floor = job[x].floor /\ r.ans = job[x].ans /\ r.back = "gone"
  BY <1>2, <1>5 DEF JobT
<1>7. job[x].floor <= acked /\ job[x].ans <= version /\ (job[x].at = "ran" => job[x].ans >= job[x].floor)
  BY <1>4 DEF CallsInv, JobsInv
<1>8. version <= version' /\ acked <= acked'
  BY <1>3, <1>5
<1>9. /\ r.floor <= acked' /\ r.ans <= version'
      /\ r.at = "ran" => r.ans >= r.floor
      /\ r.back = "told" => r.at = "ran"
  BY <1>3, <1>6, <1>7
<1>10. CallsTyped' /\ JobsInv'
  <2>1. CallsTyped /\ JobsInv
    BY DEF LoopTyped, CallsInv
  <2>2. /\ UNCHANGED <<calling, last>> /\ version' \in Nat /\ acked' \in 0..version'
        /\ version <= version' /\ acked <= acked'
    BY <1>3, <1>5, <1>8
  <2>3. /\ r.floor <= acked' /\ r.ans <= version'
        /\ r.at = "ran" => r.ans >= r.floor
        /\ r.back = "told" => r.at = "ran"
    BY <1>9
  <2>. QED BY <1>3, <1>4, <1>6, <2>1, <2>2, <2>3, JobsKept
<1>11. job'[x] = r /\ \A y \in Calls : y # x => job'[y] = job[y]
  BY <1>3, <1>4, <1>5, <1>6, JobAt
<1>12. c \in Scripts => c \notin Remotes
  BY LoopAssumption
<1>13. Posting' /\ Ordered(ops, last)' /\ RanCalled'
  BY <1>3, <1>4, <1>6, <1>11, <1>12 DEF CallsInv, Posting, Ordered, RanCalled, ScriptCall
<1>. QED BY <1>10, <1>13 DEF CallsInv

\* The loop takes the first closure: what is left is in order, and, if that
\* was a script's call, not older.
LEMMA TailOrdered ==
  ASSUME LoopTyped, CallsInv, ops # <<>>, ops' = Tail(ops), calling' = calling,
         \/ last' = last
         \/ \E x \in Calls : Head(ops) = [t |-> "call", x |-> x] /\ last' = [last EXCEPT ![x[1]] = x[2]]
  PROVE  Ordered(ops, last)' /\ RanCalled' /\ \A c \in Scripts : last[c] <= last'[c]
<1>1. ops \in Seq(Closures(sessions)) /\ last \in [Callers -> 0..MaxCalls]
  BY DEF LoopTyped, CallsTyped, QueuesTyped
<1>2. PICK N \in Nat \ {0} : N = Len(ops)
  BY <1>1
<1>3. DOMAIN ops = 1..N /\ DOMAIN ops' = 1..(N - 1) /\ \A i \in 1..(N - 1) : ops'[i] = ops[i + 1]
  BY <1>1, <1>2, TailTyped
<1>4. \A i \in 1..(N - 1) : i + 1 \in 1..N /\ 1 < i + 1 /\ 1 \in 1..N
  BY <1>2
<1>5. \A i, j \in 1..(N - 1) : i < j => i + 1 < j + 1
  BY <1>2
<1>6. /\ \A i \in 1..N : ScriptCall(ops[i]) =>
            last[ops[i].x[1]] <= ops[i].x[2] /\ ops[i].x[2] <= calling[ops[i].x[1]]
      /\ \A i, j \in 1..N : i < j /\ ScriptCall(ops[i]) /\ ScriptCall(ops[j]) /\ ops[i].x[1] = ops[j].x[1] =>
            ops[i].x[2] <= ops[j].x[2]
  BY <1>3 DEF CallsInv, Ordered
<1>7. \A i, j \in DOMAIN ops' : i < j /\ ScriptCall(ops'[i]) /\ ScriptCall(ops'[j]) /\ ops'[i].x[1] = ops'[j].x[1] =>
            ops'[i].x[2] <= ops'[j].x[2]
  <2> SUFFICES ASSUME NEW i \in 1..(N - 1), NEW j \in 1..(N - 1), i < j, ScriptCall(ops'[i]), ScriptCall(ops'[j]),
                      ops'[i].x[1] = ops'[j].x[1]
               PROVE  ops'[i].x[2] <= ops'[j].x[2]
    BY <1>3
  <2>1. ops'[i] = ops[i + 1] /\ ops'[j] = ops[j + 1] /\ i + 1 < j + 1 /\ i + 1 \in 1..N /\ j + 1 \in 1..N
    BY <1>3, <1>4, <1>5
  <2>. QED BY <1>6, <2>1
<1>8. \A i \in DOMAIN ops' : ScriptCall(ops'[i]) =>
            last[ops'[i].x[1]] <= ops'[i].x[2] /\ ops'[i].x[2] <= calling[ops'[i].x[1]]
  BY <1>3, <1>4, <1>6
<1>9. CASE last' = last
  <2>1. \A c \in Scripts : last[c] <= last'[c]
    <3>1. \A c \in Scripts : last[c] \in 0..MaxCalls
      BY <1>1 DEF Callers
    <3>. QED BY <1>9, <3>1
  <2>2. Ordered(ops, last)'
    BY <1>7, <1>8, <1>9 DEF Ordered, ScriptCall
  <2>. QED BY <1>9, <2>1, <2>2 DEF CallsInv, RanCalled
<1>10. ASSUME NEW x \in Calls, Head(ops) = [t |-> "call", x |-> x], last' = [last EXCEPT ![x[1]] = x[2]]
       PROVE  Ordered(ops, last)' /\ RanCalled' /\ \A c \in Scripts : last[c] <= last'[c]
  <2>1. ops[1].t = "call" /\ ops[1].x = x /\ 1 \in 1..N
    BY <1>1, <1>2, <1>10, TailTyped
  <2>2. x[1] \in Callers /\ x[2] \in 1..MaxCalls
    BY CallIs
  <2>3. last'[x[1]] = x[2] /\ \A c \in Callers : c # x[1] => last'[c] = last[c]
    BY <1>1, <1>10, <2>2
  <2>4. x[1] \in Scripts => last[x[1]] <= x[2] /\ x[2] <= calling[x[1]]
    BY <1>6, <2>1 DEF ScriptCall
  <2>5. \A c \in Scripts : last[c] <= last'[c] /\ last'[c] <= calling'[c]
    <3> SUFFICES ASSUME NEW c \in Scripts PROVE last[c] <= last'[c] /\ last'[c] <= calling[c]
      OBVIOUS
    <3>1. c \in Callers /\ last[c] \in 0..MaxCalls /\ last[c] <= calling[c]
      BY <1>1 DEF Callers, CallsInv, RanCalled
    <3>2. CASE c = x[1]
      BY <2>3, <2>4, <3>2
    <3>3. CASE c # x[1]
      <4>1. last'[c] = last[c] /\ last[c] <= last[c]
        BY <2>3, <3>1, <3>3
      <4>. QED BY <3>1, <4>1
    <3>. QED BY <3>2, <3>3
  <2>6. \A i \in DOMAIN ops' : ScriptCall(ops'[i]) =>
            last'[ops'[i].x[1]] <= ops'[i].x[2] /\ ops'[i].x[2] <= calling[ops'[i].x[1]]
    <3> SUFFICES ASSUME NEW i \in 1..(N - 1), ScriptCall(ops'[i])
                 PROVE  last'[ops'[i].x[1]] <= ops'[i].x[2]
      BY <1>3, <1>8
    <3>1. ops'[i] = ops[i + 1] /\ 1 < i + 1 /\ i + 1 \in 1..N
      BY <1>3, <1>4
    <3>2. ops[i + 1].x[1] \in Scripts
      BY <3>1 DEF ScriptCall
    <3>3. CASE ops[i + 1].x[1] = x[1]
      <4>1. ScriptCall(ops[1]) /\ ops[1].x[1] = ops[i + 1].x[1]
        BY <2>1, <3>2, <3>3 DEF ScriptCall
      <4>2. x[2] <= ops[i + 1].x[2]
        BY <1>6, <2>1, <3>1, <4>1
      <4>. QED BY <2>3, <3>1, <3>3, <4>2
    <3>4. CASE ops[i + 1].x[1] # x[1]
      <4>1. last'[ops[i + 1].x[1]] = last[ops[i + 1].x[1]]
        BY <2>3, <3>2, <3>4 DEF Callers
      <4>. QED BY <1>8, <1>3, <3>1, <4>1
    <3>. QED BY <3>3, <3>4
  <2>7. Ordered(ops, last)'
    BY <1>7, <2>6 DEF Ordered, ScriptCall
  <2>. QED BY <2>5, <2>7 DEF RanCalled
<1>. QED BY <1>9, <1>10

\* The loop runs a closure.
LEMMA RunStep ==
  ASSUME LoopTyped, CallsInv, Run
  PROVE  CallsTyped' /\ CallsInv' /\ \A c \in Scripts : last[c] <= last'[c]
<1>1. PICK m : m = Head(ops)
  OBVIOUS
<1>2. /\ ops # <<>> /\ ops' = Tail(ops)
      /\ IF m.t = "call" THEN RunCall(m.x) ELSE RunAccept(m)
      /\ UNCHANGED <<calling, acked>>
  BY <1>1 DEF Run
<1>3. m \in Closures(sessions)
  BY <1>1, <1>2, TailTyped DEF LoopTyped, QueuesTyped
<1>4. /\ version \in Nat /\ acked \in 0..version /\ acked \in Nat
      /\ calling \in [Callers -> 0..MaxCalls] /\ last \in [Callers -> 0..MaxCalls]
      /\ job \in [Calls -> JobT]
  BY DEF LoopTyped, CallsTyped
<1>5. CASE m.t # "call"
  <2>1. UNCHANGED <<version, last, job>>
    BY <1>2, <1>5 DEF RunAccept, desktop
  <2>2. Ordered(ops, last)' /\ RanCalled' /\ \A c \in Scripts : last[c] <= last'[c]
    BY <1>2, <2>1, TailOrdered
  <2>. QED BY <1>2, <2>1, <2>2 DEF LoopTyped, CallsTyped, CallsInv, JobsInv, Posting
<1>6. CASE m.t = "call"
  <2>1. PICK x \in Calls : m = [t |-> "call", x |-> x] /\ x = m.x
    BY <1>3, <1>6 DEF Closures, Modes
  <2>2. PICK v : v = version'
    OBVIOUS
  <2>3. PICK r : r = [job[x] EXCEPT !.at = "ran", !.ans = v]
    OBVIOUS
  <2>4. /\ v \in {version, version + 1} /\ last' = [last EXCEPT ![x[1]] = x[2]]
        /\ job' = [job EXCEPT ![x].at = "ran", ![x].ans = v]
    BY <1>2, <1>6, <2>1, <2>2 DEF RunCall, ScriptMethod, IPCRequest, Answers
  <2>5. job[x] \in JobT /\ v \in Nat /\ version <= v
    BY <1>4, <2>4
  <2>6. job' = [job EXCEPT ![x] = r]
    <3>1. [job EXCEPT ![x].at = "ran", ![x].ans = v] = [job EXCEPT ![x] = [job[x] EXCEPT !.at = "ran", !.ans = v]]
      BY <1>4, <2>1 DEF JobT
    <3>. QED BY <2>3, <2>4, <3>1
  <2>7. r \in JobT /\ r.at = "ran" /\ r.ans = v /\ r.floor = job[x].floor /\ r.back = job[x].back
    BY <2>3, <2>5 DEF JobT
  <2>8. job[x].floor <= acked /\ job[x].floor \in Nat
    BY <2>5 DEF CallsInv, JobsInv, JobT
  <2>9. acked' \in 0..v /\ acked <= acked' /\ acked' \in Nat /\ acked' <= v
    BY <1>2, <1>4, <2>5
  <2>10. /\ r.floor <= acked' /\ r.ans <= v
         /\ r.at = "ran" => r.ans >= r.floor
         /\ r.back = "told" => r.at = "ran"
    BY <1>2, <1>4, <2>5, <2>7, <2>8, <2>9
  <2>11. /\ last' \in [Callers -> 0..MaxCalls]
    <3>1. x[1] \in Callers /\ x[2] \in 0..MaxCalls
      BY CallIs
    <3>. QED BY <1>4, <2>4, <3>1
  <2>12. job' \in [Calls -> JobT] /\ job'[x] = r /\ \A y \in Calls : y # x => job'[y] = job[y]
    BY <1>4, <2>6, <2>7, JobAt
  <2>13. CallsTyped'
    BY <1>2, <1>4, <2>2, <2>5, <2>9, <2>11, <2>12 DEF CallsTyped
  <2>14. JobsInv'
    <3> SUFFICES ASSUME NEW y \in Calls
                 PROVE  /\ job'[y].floor <= acked' /\ job'[y].ans <= v
                        /\ job'[y].at = "ran" => job'[y].ans >= job'[y].floor
                        /\ job'[y].back = "told" => job'[y].at = "ran"
      BY <2>2 DEF JobsInv
    <3>1. CASE y = x
      BY <2>10, <2>12, <3>1
    <3>2. CASE y # x
      <4>1. /\ job[y].floor <= acked /\ job[y].ans <= version
            /\ job[y].at = "ran" => job[y].ans >= job[y].floor
            /\ job[y].back = "told" => job[y].at = "ran"
        BY DEF CallsInv, JobsInv
      <4>2. job[y].ans \in Nat /\ job'[y] = job[y] /\ job[y].ans <= v
        BY <1>4, <2>5, <2>12, <3>2, <4>1 DEF JobT
      <4>. QED BY <1>2, <4>1, <4>2
    <3>. QED BY <3>1, <3>2
  <2>15. Posting'
    BY <1>2, <2>7, <2>12 DEF CallsInv, Posting
  <2>16. Ordered(ops, last)' /\ RanCalled' /\ \A c \in Scripts : last[c] <= last'[c]
    BY <1>1, <1>2, <2>1, <2>4, TailOrdered
  <2>. QED BY <2>13, <2>14, <2>15, <2>16 DEF CallsInv
<1>. QED BY <1>5, <1>6

\* Every step keeps the calls' invariant, and the scripts' calls in order.
CallsKept == CallsTyped' /\ CallsInv' /\ \A c \in Scripts : last[c] <= last'[c]
LEMMA CallsStep ==
  ASSUME LoopTyped, CallsInv, [LoopNext]_loopVars
  PROVE  CallsKept
<1>0. \A c \in Scripts : last[c] \in Nat /\ last[c] <= last[c]
  <2>1. \A c \in Scripts : last[c] \in 0..MaxCalls
    BY DEF LoopTyped, CallsTyped, Callers
  <2>. QED BY <2>1, LoopAssumption
<1>1. UNCHANGED last /\ CallsTyped' /\ CallsInv' => CallsKept
  BY <1>0 DEF CallsKept
<1>2. UNCHANGED <<ops, desktop, calls>> => CallsKept
  BY <1>0 DEF CallsKept, LoopTyped, CallsTyped, CallsInv, JobsInv, Posting, Ordered, RanCalled, ScriptCall, desktop, calls
<1>3. ASSUME NEW fn \in Closures(sessions), ~ScriptCall(fn), PostOp(fn), UNCHANGED <<desktop, calls>>
      PROVE  CallsKept
  <2>1. UNCHANGED <<last, calling, job, version, acked>>
    BY <1>3 DEF desktop, calls
  <2>2. Ordered(ops', last)
    BY <1>3, PostOrdered DEF LoopTyped, CallsInv
  <2>3. Ordered(ops, last)'
    BY <2>1, <2>2 DEF Ordered, ScriptCall
  <2>4. CallsTyped' /\ JobsInv' /\ Posting' /\ RanCalled'
    BY <2>1 DEF LoopTyped, CallsTyped, CallsInv, JobsInv, Posting, RanCalled
  <2>. QED BY <1>1, <2>1, <2>3, <2>4 DEF CallsInv
<1>4. ASSUME NEW c \in Callers, NEW n \in 1..MaxCalls, PostCall(<<c, n>>) PROVE CallsKept
  <2>1. <<c, n>> \in Calls
    BY DEF Calls
  <2>. QED BY <1>1, <1>4, <2>1, PostCallStep DEF PostCall, desktop
<1>5. ASSUME NEW c \in Callers, Return(c) PROVE CallsKept
  BY <1>1, <1>5, ReturnStep DEF Return, desktop
<1>6. ASSUME NEW c \in Callers, Stopped(c) \/ Expire(c) PROVE CallsKept
  BY <1>1, <1>6, GivesUpStep DEF Stopped, Expire, GivesUp, desktop
<1>7. ASSUME NEW c \in Callers, Call(c) PROVE CallsKept
  BY <1>1, <1>7, CallStep DEF Call, desktop
<1>8. CASE Run
  BY <1>8, RunStep DEF CallsKept
<1>9. ASSUME NEW k \in Cmds, CommandPosts(k) PROVE CallsKept
  <2>1. PICK m : m = [t |-> "done", k |-> k]
    OBVIOUS
  <2>2. m \in Closures(sessions) /\ ~ScriptCall(m)
    BY <2>1 DEF Closures, ScriptCall
  <2>. QED BY <1>3, <1>9, <2>1, <2>2 DEF CommandPosts
<1>10. CASE ReaderPosts
  <2>1. reader[1] \in Modes(sessions)
    <3>1. reader \in Seq(Modes(sessions)) /\ reader # <<>>
      BY <1>10 DEF ReaderPosts, LoopTyped, QueuesTyped
    <3>. QED BY <3>1, TailTyped
  <2>2. reader[1] \in Closures(sessions) /\ ~ScriptCall(reader[1])
    BY <2>1 DEF Closures, Modes, ScriptCall
  <2>. QED BY <1>3, <1>10, <2>2 DEF ReaderPosts
<1>11. CASE Boot \/ Exit \/ ReadFrame \/ Sweep \/ PressEscape \/ BrokerDies \/ Shutdown
  BY <1>2, <1>11 DEF Boot, Connect, Install, Ready, Exit, ReadFrame, Sweep, PressEscape, BrokerDies, Shutdown
<1>12. ASSUME NEW k, Command(k) PROVE CallsKept
  BY <1>2, <1>12 DEF Command
<1>13. ASSUME NEW o, Start(o) PROVE CallsKept
  BY <1>2, <1>13 DEF Start
<1>14. ASSUME NEW got, Finish(got) PROVE CallsKept
  BY <1>2, <1>14 DEF Finish
<1>15. ASSUME NEW x, HandleCancel(x) PROVE CallsKept
  BY <1>2, <1>15 DEF HandleCancel
<1>16. CASE UNCHANGED loopVars
  BY <1>2, <1>16 DEF loopVars
<1>. QED
  BY <1>4, <1>5, <1>6, <1>7, <1>8, <1>9, <1>10, <1>11, <1>12, <1>13, <1>14, <1>15, <1>16
     DEF LoopNext, Serve, Users, Asks, Reader
-----------------------------------------------------------------------------
(* Queues, sessions and commands.                                          *)

LEMMA BootStep ==
  ASSUME BootTyped, [LoopNext]_loopVars
  PROVE  BootTyped'
<1>1. UNCHANGED <<boot, brokerUp>> => BootTyped'
  BY DEF BootTyped, boot
<1>2. CASE Boot \/ Exit \/ Shutdown \/ BrokerDies
  BY <1>2 DEF Boot, Connect, Install, Ready, Exit, Shutdown, BrokerDies, BootTyped, broker, boot
<1>3. CASE Run \/ ReadFrame \/ ReaderPosts \/ Sweep \/ PressEscape
  BY <1>1, <1>3 DEF Run, ReadFrame, ReaderPosts, Sweep, PressEscape, broker
<1>4. ASSUME NEW c, Call(c) \/ Expire(c) \/ Return(c) \/ Stopped(c) PROVE BootTyped'
  BY <1>1, <1>4 DEF Call, Expire, Return, Stopped, GivesUp, broker
<1>5. ASSUME NEW x, PostCall(x) PROVE BootTyped'
  BY <1>1, <1>5 DEF PostCall, broker
<1>6. ASSUME NEW k, Command(k) \/ CommandPosts(k) PROVE BootTyped'
  BY <1>1, <1>6 DEF Command, CommandPosts, broker
<1>7. ASSUME NEW o, Start(o) \/ Finish(o) \/ HandleCancel(o) PROVE BootTyped'
  BY <1>1, <1>7 DEF Start, Finish, HandleCancel
<1>8. CASE UNCHANGED loopVars
  BY <1>1, <1>8 DEF loopVars, broker
<1>. QED BY <1>2, <1>3, <1>4, <1>5, <1>6, <1>7, <1>8 DEF LoopNext, Serve, Users, Asks, Reader

LEMMA CmdStep ==
  ASSUME LoopTyped, [LoopNext]_loopVars
  PROVE  CmdTyped'
<1> DEFINE Rec == [at : {"idle", "ask", "wait", "post", "end"}, left : Int]
<1>1. cmd \in [Cmds -> Rec]
  BY DEF LoopTyped, CmdTyped
<1>2. cmd' = cmd => CmdTyped'
  BY <1>1 DEF CmdTyped
<1>3. CASE Boot \/ Exit \/ Shutdown \/ BrokerDies \/ ReaderPosts \/ PressEscape
  BY <1>2, <1>3 DEF Boot, Connect, Install, Ready, Exit, Shutdown, BrokerDies, ReaderPosts, PressEscape, wm
<1>4. CASE Run
  BY <1>2, <1>4 DEF Run, RunCall, ScriptMethod, IPCRequest, Answers, RunAccept, wm
<1>5. ASSUME NEW c, Call(c) \/ Expire(c) \/ Return(c) \/ Stopped(c) PROVE CmdTyped'
  BY <1>2, <1>5 DEF Call, Expire, Return, Stopped, GivesUp, wm
<1>6. ASSUME NEW x, PostCall(x) PROVE CmdTyped'
  BY <1>2, <1>6 DEF PostCall, wm
<1>7. ASSUME NEW k \in Cmds, Command(k) PROVE CmdTyped'
  <2>1. AcceptsOf(k) \in Int
    BY LoopAssumption
  <2>2. PICK r : r = [at |-> "ask", left |-> AcceptsOf(k)]
    OBVIOUS
  <2>3. r \in Rec
    BY <2>1, <2>2
  <2>4. cmd' = [cmd EXCEPT ![k] = r]
    BY <1>7, <2>2 DEF Command
  <2>. QED BY <1>1, <2>3, <2>4 DEF CmdTyped
<1>8. ASSUME NEW k \in Cmds, CommandPosts(k) PROVE CmdTyped'
  BY <1>1, <1>8 DEF CommandPosts, CmdTyped
<1>9. ASSUME NEW o, Start(o) PROVE CmdTyped'
  BY <1>1, <1>2, <1>9 DEF Start, CmdTyped
<1>10. ASSUME NEW o, Finish(o) \/ HandleCancel(o) PROVE CmdTyped'
  BY <1>2, <1>10 DEF Finish, HandleCancel, wm
<1>11. CASE ReadFrame
  <2>1. PICK m : m = Head(fromBroker)
    OBVIOUS
  <2>2. m \in Frames(sessions)
    BY <1>11, <2>1, TailTyped DEF ReadFrame, LoopTyped, QueuesTyped
  <2>3. CASE m.t # "result"
    BY <1>2, <1>11, <2>1, <2>3 DEF ReadFrame
  <2>4. CASE m.t = "result"
    <3>1. m.k \in Cmds /\ m.got \in BOOLEAN
      BY <2>2, <2>4 DEF Frames
    <3>2. cmd' = Result(m.k, m.got)
      BY <1>11, <2>1, <2>4 DEF ReadFrame
    <3>3. PICK k \in Cmds : k = m.k
      BY <3>1
    <3>4. PICK r : r = (IF ~m.got THEN [at |-> "end", left |-> 0]
                        ELSE [at |-> IF cmd[k].left = 1 THEN "post" ELSE "ask", left |-> cmd[k].left - 1])
      OBVIOUS
    <3>5. r \in Rec
      <4>1. cmd[k].left \in Int
        BY <1>1
      <4>. QED BY <3>4, <4>1
    <3>6. cmd' = [cmd EXCEPT ![k] = r]
      BY <3>2, <3>3, <3>4 DEF Result
    <3>. QED BY <1>1, <3>5, <3>6 DEF CmdTyped
  <2>. QED BY <2>3, <2>4
<1>12. CASE Sweep
  <2>1. cmd' = [k \in Cmds |-> IF cmd[k].at \in {"ask", "wait"} THEN [at |-> "end", left |-> 0] ELSE cmd[k]]
    BY <1>12 DEF Sweep
  <2>. QED BY <1>1, <2>1 DEF CmdTyped
<1>13. CASE UNCHANGED loopVars
  BY <1>2, <1>13 DEF loopVars, wm
<1>. QED
  BY <1>3, <1>4, <1>5, <1>6, <1>7, <1>8, <1>9, <1>10, <1>11, <1>12, <1>13 DEF LoopNext, Serve, Users, Asks, Reader

LEMMA AcceptingTyped ==
  ASSUME NEW n \in Nat, NEW s \in 1..n
  PROVE  Accepting("mode", s) \in Frames(n) /\ Accepting("clear", s) \in Frames(n) /\ Accepting("ok", s) \in Frames(n)
BY DEF Accepting, Frames

LEMMA ConcatOne ==
  ASSUME NEW S, NEW q \in Seq(S), NEW m \in S
  PROVE  <<m>> \in Seq(S) /\ q \o <<m>> = Append(q, m) /\ q \o <<m>> \in Seq(S)
<1>1. <<m>> \in Seq(S) /\ Append(q, m) \in Seq(S)
  OBVIOUS
<1>2. q \o <<m>> = Append(q, m)
  OBVIOUS
<1>. QED BY <1>1, <1>2

LEMMA ToldWM ==
  ASSUME QueuesTyped, NEW n \in Nat, Frames(sessions) \subseteq Frames(n), NEW f \in Seq(Frames(n)), ToWM(f)
  PROVE  fromBroker' \in Seq(Frames(n))
<1>1. fromBroker \in Seq(Frames(n))
  <2>1. fromBroker \in Seq(Frames(sessions))
    BY DEF QueuesTyped
  <2>. QED BY <2>1, SeqGrows
<1>2. fromBroker \o f \in Seq(Frames(n))
  BY <1>1
<1>. QED BY <1>1, <1>2 DEF ToWM

\* A session begins, which ends one that was pending.
LEMMA StartQueues ==
  ASSUME LoopTyped, NEW o \in Cmds \cup {"other"}, Start(o)
  PROVE  QueuesTyped'
<1>1. PICK n \in Nat : n = sessions
  BY DEF LoopTyped, QueuesTyped
<1>2. PICK h : h = [id |-> n + 1, owner |-> o]
  OBVIOUS
<1>3. PICK m : m = Accepting("mode", n + 1)
  OBVIOUS
<1>4. /\ sessions < bound.sessions /\ sessions' = n + 1 /\ held' = h
      /\ ToWM(Ending(FALSE) \o <<m>>)
      /\ UNCHANGED <<ops, reader, accepting, cancels>>
  BY <1>1, <1>2, <1>3 DEF Start
<1>5. /\ Modes(n) \subseteq Modes(n + 1) /\ Closures(n) \subseteq Closures(n + 1)
      /\ Frames(n) \subseteq Frames(n + 1) /\ 1..n \subseteq 1..(n + 1) /\ 0..n \subseteq 0..(n + 1)
      /\ n + 1 \in Nat /\ n + 1 \in 1..(n + 1) /\ n + 1 \in 0..(n + 1)
  BY <1>1, MoreSessions
<1>6. sessions' \in 0..MaxSessions
  <2>1. bound.sessions \in 0..MaxSessions /\ MaxSessions \in Nat
    BY LoopAssumption DEF LoopTyped, BootTyped
  <2>. QED BY <1>1, <1>4, <2>1
<1>7. h \in [id : 0..(n + 1), owner : Cmds \cup {"other"}]
  BY <1>2, <1>5
<1>8. ops' \in Seq(Closures(n + 1)) /\ reader' \in Seq(Modes(n + 1))
  <2>1. ops \in Seq(Closures(n)) /\ reader \in Seq(Modes(n))
    BY <1>1 DEF LoopTyped, QueuesTyped
  <2>. QED BY <1>4, <1>5, <2>1, SeqGrows
<1>9. fromBroker' \in Seq(Frames(n + 1))
  <2>1. Ending(FALSE) \in Seq(Frames(n))
    BY <1>1, EndingTyped DEF LoopTyped
  <2>2. Ending(FALSE) \in Seq(Frames(n + 1))
    BY <1>5, <2>1, SeqGrows
  <2>3. m \in Frames(n + 1)
    BY <1>3, <1>5, AcceptingTyped
  <2>4. Ending(FALSE) \o <<m>> \in Seq(Frames(n + 1))
    BY <2>2, <2>3, ConcatOne
  <2>. QED BY <1>1, <1>4, <1>5, <2>4, ToldWM DEF LoopTyped
<1>10. accepting' \in 0..(n + 1) /\ cancels' \subseteq 1..(n + 1)
  BY <1>1, <1>4, <1>5 DEF LoopTyped, QueuesTyped
<1>11. Len(ops') <= OpsCap /\ Len(reader') <= 1
  BY <1>4 DEF LoopTyped, QueuesTyped
<1>. QED BY <1>4, <1>6, <1>7, <1>8, <1>9, <1>10, <1>11 DEF QueuesTyped

\* A session ends, or is over already when it is cancelled.
LEMMA FinishQueues ==
  ASSUME LoopTyped, (\E got \in BOOLEAN : Finish(got)) \/ (\E s \in cancels : HandleCancel(s))
  PROVE  QueuesTyped'
<1>1. PICK n \in Nat : n = sessions
  BY DEF LoopTyped, QueuesTyped
<1>2. NoOne \in [id : 0..n, owner : Cmds \cup {"other"}]
  BY <1>1 DEF NoOne
<1>3. held' \in [id : 0..n, owner : Cmds \cup {"other"}] /\ UNCHANGED <<sessions, ops, reader, accepting, cancels>>
  BY <1>1, <1>2 DEF Finish, HandleCancel, wm, LoopTyped, QueuesTyped
<1>4. fromBroker' \in Seq(Frames(n))
  <2>1. ASSUME NEW got \in BOOLEAN, Finish(got) PROVE fromBroker' \in Seq(Frames(n))
    <3>1. Ending(got) \in Seq(Frames(n)) /\ ToWM(Ending(got))
      BY <1>1, <2>1, EndingTyped DEF Finish, LoopTyped
    <3>. QED BY <1>1, <3>1, ToldWM DEF LoopTyped
  <2>2. ASSUME NEW s \in cancels, HandleCancel(s) PROVE fromBroker' \in Seq(Frames(n))
    <3>1. PICK m : m = Accepting("ok", s)
      OBVIOUS
    <3>2. s \in 1..n
      BY <1>1 DEF LoopTyped, QueuesTyped
    <3>3. m \in Frames(n)
      BY <3>1, <3>2, AcceptingTyped
    <3>4. Ending(FALSE) \in Seq(Frames(n))
      BY <1>1, EndingTyped DEF LoopTyped
    <3>5. <<m>> \in Seq(Frames(n)) /\ Ending(FALSE) \o <<m>> \in Seq(Frames(n))
      BY <3>3, <3>4, ConcatOne
    <3>6. ToWM(Ending(FALSE) \o <<m>>) \/ ToWM(<<m>>)
      BY <2>2, <3>1 DEF HandleCancel
    <3>. QED BY <1>1, <3>5, <3>6, ToldWM DEF LoopTyped
  <2>. QED BY <2>1, <2>2
<1>. QED BY <1>1, <1>3, <1>4 DEF LoopTyped, QueuesTyped

LEMMA ReadQueues ==
  ASSUME LoopTyped, ReadFrame
  PROVE  QueuesTyped'
<1>1. PICK n \in Nat : n = sessions
  BY DEF LoopTyped, QueuesTyped
<1>2. PICK m : m = Head(fromBroker)
  OBVIOUS
<1>3. /\ fromBroker # <<>> /\ fromBroker' = Tail(fromBroker)
      /\ reader' = IF m.t \in {"mode", "clear"} /\ Installed THEN <<m>> ELSE <<>>
      /\ cancels' = IF m.t = "ok" THEN cancels \ {m.s} ELSE cancels
      /\ UNCHANGED <<ops, sessions, held, accepting>>
  BY <1>2 DEF ReadFrame, broker
<1>4. fromBroker \in Seq(Frames(n))
  BY <1>1 DEF LoopTyped, QueuesTyped
<1>5. m \in Frames(n) /\ fromBroker' \in Seq(Frames(n))
  BY <1>2, <1>3, <1>4, TailTyped
<1>6. m.t \in {"mode", "clear"} => m \in Modes(n)
  BY <1>5 DEF Frames, Modes
<1>7. reader' \in Seq(Modes(n)) /\ Len(reader') <= 1
  <2>1. CASE reader' = <<m>> /\ m \in Modes(n)
    BY <2>1
  <2>2. CASE reader' = <<>>
    <3>1. <<>> \in Seq(Modes(n)) /\ Len(<<>>) = 0
      OBVIOUS
    <3>. QED BY <2>2, <3>1
  <2>. QED BY <1>3, <1>6, <2>1, <2>2
<1>8. cancels' \subseteq 1..n
  BY <1>1, <1>3 DEF LoopTyped, QueuesTyped
<1>. QED BY <1>1, <1>3, <1>5, <1>7, <1>8 DEF LoopTyped, QueuesTyped

LEMMA QueuesStep ==
  ASSUME LoopTyped, [LoopNext]_loopVars
  PROVE  QueuesTyped'
<1>0. PICK n \in Nat : n = sessions
  BY DEF LoopTyped, QueuesTyped
<1>1. UNCHANGED <<sessions, held, ops, reader, fromBroker, accepting, cancels>> => QueuesTyped'
  BY DEF LoopTyped, QueuesTyped
<1>2. ASSUME NEW fn \in Closures(n), PostOp(fn), UNCHANGED <<sessions, held, fromBroker, accepting, cancels>>,
             reader' \in {reader, <<>>}
      PROVE  QueuesTyped'
  <2>1. ops' \in Seq(Closures(n)) /\ Len(ops') <= OpsCap
    BY <1>0, <1>2, PostTyped DEF LoopTyped
  <2>2. <<>> \in Seq(Modes(n)) /\ Len(<<>>) <= 1
    OBVIOUS
  <2>. QED BY <1>0, <1>2, <2>1, <2>2 DEF LoopTyped, QueuesTyped
<1>3. CASE Connect
  <2>1. /\ UNCHANGED <<sessions, held, ops, reader, accepting, cancels>>
        /\ fromBroker' = fromBroker \/ fromBroker' = <<>> \/ (held.id # 0 /\ fromBroker' = <<Accepting("mode", held.id)>>)
    BY <1>3 DEF Connect, broker, wm
  <2>2. <<>> \in Seq(Frames(n))
    OBVIOUS
  <2>3. held.id # 0 => Accepting("mode", held.id) \in Frames(n)
    <3>1. held.id \in 0..n
      BY <1>0 DEF LoopTyped, QueuesTyped
    <3>2. held.id # 0 => held.id \in 1..n
      BY <3>1
    <3>. QED BY <3>2, AcceptingTyped
  <2>4. fromBroker' \in Seq(Frames(n))
    <3>1. PICK m : m = Accepting("mode", held.id)
      OBVIOUS
    <3>2. held.id # 0 => <<m>> \in Seq(Frames(n))
      BY <2>3, <3>1
    <3>3. fromBroker \in Seq(Frames(n))
      BY <1>0 DEF LoopTyped, QueuesTyped
    <3>. QED BY <2>1, <2>2, <3>1, <3>2, <3>3
  <2>. QED BY <1>0, <2>1, <2>4 DEF LoopTyped, QueuesTyped
<1>4. CASE Install \/ Ready \/ Exit \/ Shutdown
  BY <1>1, <1>4 DEF Install, Ready, Exit, Shutdown, broker, wm
<1>5. CASE Run
  <2>1. PICK m : m = Head(ops)
    OBVIOUS
  <2>2. /\ ops # <<>> /\ ops' = Tail(ops) /\ UNCHANGED <<sessions, held, reader, fromBroker>>
        /\ cancels' = cancels /\ (accepting' = accepting \/ (accepting' = Told(accepting, m)))
    BY <1>5, <2>1 DEF Run, RunCall, ScriptMethod, IPCRequest, Answers, RunAccept, broker, wm
  <2>3. ops \in Seq(Closures(n)) /\ Len(ops) <= OpsCap /\ accepting \in 0..n
    BY <1>0 DEF LoopTyped, QueuesTyped
  <2>4. m \in Closures(n) /\ ops' \in Seq(Closures(n)) /\ Len(ops') = Len(ops) - 1
    BY <2>1, <2>2, <2>3, TailTyped
  <2>5. Told(accepting, m) \in 0..n
    BY <2>3, <2>4 DEF Told, Closures, Modes
  <2>6. Len(ops') <= OpsCap
    <3>1. Len(ops) \in Nat
      BY <2>3
    <3>. QED BY <2>3, <2>4, <3>1, LoopAssumption
  <2>. QED BY <1>0, <2>2, <2>4, <2>5, <2>6, <2>3 DEF LoopTyped, QueuesTyped
<1>6. ASSUME NEW c, Call(c) \/ Expire(c) \/ Return(c) \/ Stopped(c) PROVE QueuesTyped'
  BY <1>1, <1>6 DEF Call, Expire, Return, Stopped, GivesUp, broker, wm
<1>7. ASSUME NEW c \in Callers, NEW k \in 1..MaxCalls, PostCall(<<c, k>>) PROVE QueuesTyped'
  <2>1. PICK m : m = [t |-> "call", x |-> <<c, k>>]
    OBVIOUS
  <2>2. m \in Closures(n)
    BY <2>1 DEF Closures, Calls
  <2>. QED BY <1>2, <1>7, <2>1, <2>2 DEF PostCall, broker, wm
<1>8. ASSUME NEW k \in Cmds, CommandPosts(k) PROVE QueuesTyped'
  <2>1. PICK m : m = [t |-> "done", k |-> k]
    OBVIOUS
  <2>2. m \in Closures(n)
    BY <2>1 DEF Closures
  <2>. QED BY <1>2, <1>8, <2>1, <2>2 DEF CommandPosts, broker
<1>9. CASE ReaderPosts
  <2>1. reader[1] \in Modes(n)
    <3>1. reader \in Seq(Modes(n)) /\ reader # <<>>
      BY <1>0, <1>9 DEF ReaderPosts, LoopTyped, QueuesTyped
    <3>. QED BY <3>1, TailTyped
  <2>2. reader[1] \in Closures(n)
    BY <2>1 DEF Closures
  <2>. QED BY <1>2, <1>9, <2>2 DEF ReaderPosts, broker, wm
<1>10. CASE PressEscape
  <2>1. cancels' = cancels \cup {accepting} /\ accepting # 0
        /\ UNCHANGED <<sessions, held, ops, reader, fromBroker, accepting>>
    BY <1>10 DEF PressEscape, broker
  <2>2. accepting \in 1..n
    BY <1>0, <2>1 DEF LoopTyped, QueuesTyped
  <2>. QED BY <1>0, <2>1, <2>2 DEF LoopTyped, QueuesTyped
<1>11. ASSUME NEW k, Command(k) PROVE QueuesTyped'
  BY <1>1, <1>11 DEF Command, broker
<1>12. ASSUME NEW o \in Cmds \cup {"other"}, Start(o) PROVE QueuesTyped'
  BY <1>12, StartQueues
<1>13. CASE (\E got \in BOOLEAN : Finish(got)) \/ (\E s \in cancels : HandleCancel(s))
  BY <1>13, FinishQueues
<1>14. CASE BrokerDies
  <2>1. NoOne \in [id : 0..n, owner : Cmds \cup {"other"}]
    BY DEF NoOne
  <2>. QED BY <1>0, <1>14, <2>1 DEF BrokerDies, wm, LoopTyped, QueuesTyped
<1>15. CASE ReadFrame
  BY <1>15, ReadQueues
<1>16. CASE Sweep
  BY <1>16 DEF Sweep, broker, LoopTyped, QueuesTyped
<1>17. CASE UNCHANGED loopVars
  BY <1>1, <1>17 DEF loopVars, broker, wm
<1>. QED
  BY <1>3, <1>4, <1>5, <1>6, <1>7, <1>8, <1>9, <1>10, <1>11, <1>12, <1>13, <1>14, <1>15, <1>16, <1>17
     DEF LoopNext, Boot, Serve, Users, Asks, Reader

\* All that is sound in its types and its calls.
LEMMA TypesStep ==
  ASSUME LoopTyped, CallsInv, [LoopNext]_loopVars
  PROVE  LoopTyped' /\ CallsInv'
<1>1. CallsTyped' /\ CallsInv'
  BY CallsStep DEF CallsKept
<1>2. BootTyped' /\ QueuesTyped' /\ CmdTyped'
  BY BootStep, QueuesStep, CmdStep DEF LoopTyped
<1>. QED BY <1>1, <1>2 DEF LoopTyped

THEOREM LoopInvariant == LoopSpec => [](LoopTyped /\ CallsInv)
<1>1. LoopInit => LoopTyped /\ CallsInv
  BY LoopInitTyped, CallsInitHold
<1>2. LoopTyped /\ CallsInv /\ [LoopNext]_loopVars => LoopTyped' /\ CallsInv'
  BY TypesStep
<1>. QED BY <1>1, <1>2, PTL DEF LoopSpec

\* A call that has its answer has one that is no older than what anybody had
\* been told when it began (onLoop and dispatchIPC).
THEOREM AnswersAreCurrent == LoopSpec => []AnswersCurrent
<1>1. LoopTyped /\ CallsInv => AnswersCurrent
  BY DEF CallsInv, JobsInv, AnswersCurrent
<1>. QED BY <1>1, LoopInvariant, PTL

\* The calls of a script in the process run in the order in which it made
\* them, those that had timed out included (onLoop blocks in Post).
THEOREM ScriptsStayInOrder == LoopSpec => ScriptsInOrder
<1>1. LoopTyped /\ CallsInv /\ [LoopNext]_loopVars => [\A c \in Scripts : last'[c] >= last[c]]_last
  <2> SUFFICES ASSUME LoopTyped, CallsInv, [LoopNext]_loopVars PROVE \A c \in Scripts : last'[c] >= last[c]
    OBVIOUS
  <2>1. \A c \in Scripts : last[c] <= last'[c]
    BY CallsStep DEF CallsKept
  <2>2. \A c \in Scripts : last[c] \in Nat /\ last'[c] \in Nat
    <3>1. LoopTyped'
      BY TypesStep
    <3>. QED BY <3>1, LoopAssumption DEF LoopTyped, CallsTyped, Callers
  <2>. QED BY <2>1, <2>2
<1>. QED BY <1>1, LoopInvariant, PTL DEF LoopSpec, ScriptsInOrder

\* The types as the model states them.
THEOREM LoopTypesKept == LoopSpec => []LoopTypeOK
<1>1. ASSUME LoopTyped, CallsInv PROVE LoopTypeOK
  <2>1. job \in [Calls -> [at : {"none", "post", "queued", "ran"}, ans : 0..version, floor : 0..acked, back : {"no", "told", "gone"}]]
    <3>1. ASSUME NEW x \in Calls
          PROVE  job[x] \in [at : {"none", "post", "queued", "ran"}, ans : 0..version, floor : 0..acked, back : {"no", "told", "gone"}]
      <4>1. job[x] \in JobT /\ version \in Nat /\ acked \in Nat
        BY <1>1 DEF LoopTyped, CallsTyped
      <4>2. job[x].ans \in 0..version /\ job[x].floor \in 0..acked
        BY <1>1, <4>1 DEF CallsInv, JobsInv, JobT
      <4>. QED BY <4>1, <4>2 DEF JobT
    <3>2. job \in [Calls -> JobT]
      BY <1>1 DEF LoopTyped, CallsTyped
    <3>. QED BY <3>1, <3>2
  <2>2. \A k \in Cmds : cmd[k].at \in {"idle", "ask", "wait", "post", "end"}
    BY <1>1 DEF LoopTyped, CmdTyped
  <2>. QED BY <1>1, <2>1, <2>2 DEF LoopTyped, BootTyped, CallsTyped, QueuesTyped, LoopTypeOK
<1>. QED BY <1>1, LoopInvariant, PTL
-----------------------------------------------------------------------------
(* Accept mode.                                                            *)

\* What the loop will make of what is on its way to it.
Chain(v, q, r, f) == Heard(Heard(Heard(v, q), r), f)

\* Sessions begin once the handlers are there (~EarlySessions), and what the
\* broker says arrives.
AcceptInv ==
    /\ ~Installed => sessions = 0 /\ reader = <<>> /\ fromBroker = <<>>
    /\ brokerUp /\ ~stopping => Chain(accepting, ops, reader, fromBroker) = held.id

LEMMA QueuesHeard ==
  ASSUME LoopTyped
  PROVE  /\ accepting \in Nat /\ ops \in Seq(Messages) /\ reader \in Seq(Messages)
         /\ fromBroker \in Seq(Messages)
         /\ Closures(sessions) \subseteq Messages /\ Frames(sessions) \subseteq Messages
         /\ held.id \in Nat /\ held.id \in 0..sessions /\ sessions \in Nat
<1>1. PICK n \in Nat : n = sessions
  BY DEF LoopTyped, QueuesTyped
<1>2. 1..n \subseteq Nat
  OBVIOUS
<1>3. Modes(n) \subseteq Messages
  BY <1>2 DEF Modes, Messages
<1>4. Closures(n) \subseteq Messages /\ Frames(n) \subseteq Messages
  BY <1>2, <1>3 DEF Closures, Frames, Messages
<1>5. ops \in Seq(Closures(n)) /\ reader \in Seq(Modes(n)) /\ fromBroker \in Seq(Frames(n))
  BY <1>1 DEF LoopTyped, QueuesTyped
<1>6. ops \in Seq(Messages) /\ reader \in Seq(Messages) /\ fromBroker \in Seq(Messages)
  BY <1>3, <1>4, <1>5, SeqGrows
<1>. QED BY <1>1, <1>4, <1>6 DEF LoopTyped, QueuesTyped

\* Closures and frames that say nothing of a session change nothing.
LEMMA ToldNothing ==
  ASSUME NEW v, NEW m, m.t \notin {"mode", "clear"}
  PROVE  Told(v, m) = v
BY DEF Told

\* A closure is posted at the end of the channel.
LEMMA PostHeard ==
  ASSUME NEW v \in Nat, NEW q \in Seq(Messages), NEW r \in Seq(Messages), NEW f \in Seq(Messages),
         NEW m \in Messages, m.t \notin {"mode", "clear"}
  PROVE  Chain(v, Append(q, m), r, f) = Chain(v, q, r, f)
<1>1. Heard(v, Append(q, m)) = Told(Heard(v, q), m)
  BY HeardAppend
<1>2. Told(Heard(v, q), m) = Heard(v, q)
  BY ToldNothing
<1>. QED BY <1>1, <1>2 DEF Chain

\* The reader posts what it has taken from the socket.
LEMMA ReaderHeard ==
  ASSUME NEW v \in Nat, NEW q \in Seq(Messages), NEW m \in Messages, NEW f \in Seq(Messages)
  PROVE  /\ Chain(v, Append(q, m), <<>>, f) = Chain(v, q, <<m>>, f)
         /\ Heard(Told(Heard(v, q), m), f) = Chain(v, q, <<m>>, f)
<1>1. PICK w \in Nat : w = Heard(v, q)
  BY HeardType
<1>2. Told(w, m) \in Nat
  BY <1>1, ToldType
<1>3. Heard(v, Append(q, m)) = Told(w, m)
  BY <1>1, HeardAppend
<1>4. Heard(Told(w, m), <<>>) = Told(w, m)
  BY <1>2, HeardNothing
<1>5. Heard(w, <<m>>) = Told(w, m)
  <2>1. <<>> \in Seq(Messages) /\ Append(<<>>, m) = <<m>>
    OBVIOUS
  <2>2. Heard(w, Append(<<>>, m)) = Told(Heard(w, <<>>), m)
    BY <1>1, <2>1, HeardAppend
  <2>. QED BY <1>1, <2>1, <2>2, HeardNothing
<1>. QED BY <1>1, <1>3, <1>4, <1>5 DEF Chain

\* The broker sends a frame more.
LEMMA SentHeard ==
  ASSUME NEW v \in Nat, NEW q \in Seq(Messages), NEW r \in Seq(Messages), NEW f \in Seq(Messages), NEW m \in Messages
  PROVE  Chain(v, q, r, f \o <<m>>) = Told(Chain(v, q, r, f), m)
<1>1. PICK w \in Nat : w = Heard(Heard(v, q), r)
  BY HeardType
<1>2. f \o <<m>> = Append(f, m)
  BY ConcatOne
<1>3. Heard(w, Append(f, m)) = Told(Heard(w, f), m)
  BY <1>1, HeardAppend
<1>. QED BY <1>1, <1>2, <1>3 DEF Chain

\* The end of the pending session clears it.
LEMMA EndingHeard ==
  ASSUME LoopTyped, NEW got \in BOOLEAN, Chain(accepting, ops, reader, fromBroker) = held.id
  PROVE  /\ fromBroker \o Ending(got) \in Seq(Messages)
         /\ Chain(accepting, ops, reader, fromBroker \o Ending(got)) = 0
<1>1. /\ accepting \in Nat /\ ops \in Seq(Messages) /\ reader \in Seq(Messages) /\ fromBroker \in Seq(Messages)
      /\ Frames(sessions) \subseteq Messages /\ held.id \in 0..sessions /\ sessions \in Nat
  BY QueuesHeard
<1>2. CASE held.id = 0
  <2>1. Ending(got) = <<>>
    BY <1>2 DEF Ending
  <2>2. fromBroker \o <<>> = fromBroker
    BY <1>1
  <2>. QED BY <1>1, <1>2, <2>1, <2>2
<1>3. CASE held.id # 0
  <2>1. PICK m : m = Accepting("clear", held.id)
    OBVIOUS
  <2>2. m \in Messages /\ m.t = "clear" /\ m.s = held.id
    <3>1. held.id \in Nat
      BY <1>1
    <3>. QED BY <2>1, <3>1 DEF Accepting, Messages
  <2>3. PICK r : r = [t |-> "result", k |-> held.owner, got |-> got]
    OBVIOUS
  <2>4. Told(held.id, m) = 0
    BY <2>2 DEF Told
  <2>5. Ending(got) = (IF held.owner \in Cmds THEN <<r>> ELSE <<>>) \o <<m>>
    BY <1>3, <2>1, <2>3 DEF Ending
  <2>6. CASE held.owner \in Cmds
    <3>1. r \in Messages /\ r.t = "result"
      BY <2>3, <2>6 DEF Messages
    <3>2. PICK g : g = fromBroker \o <<r>>
      OBVIOUS
    <3>3. g \in Seq(Messages)
      BY <1>1, <3>1, <3>2, ConcatOne
    <3>4. fromBroker \o Ending(got) = g \o <<m>>
      <4>1. <<r>> \in Seq(Messages) /\ <<m>> \in Seq(Messages)
        BY <2>2, <3>1
      <4>2. fromBroker \o (<<r>> \o <<m>>) = (fromBroker \o <<r>>) \o <<m>>
        BY <1>1, <4>1
      <4>. QED BY <2>5, <2>6, <3>2, <4>2
    <3>5. Chain(accepting, ops, reader, g) = held.id
      <4>1. Chain(accepting, ops, reader, g) = Told(held.id, r)
        BY <1>1, <3>1, <3>2, SentHeard
      <4>. QED BY <3>1, <4>1, ToldNothing
    <3>6. Chain(accepting, ops, reader, g \o <<m>>) = 0
      BY <1>1, <2>2, <2>4, <3>3, <3>5, SentHeard
    <3>7. g \o <<m>> \in Seq(Messages)
      BY <2>2, <3>3, ConcatOne
    <3>. QED BY <3>4, <3>6, <3>7
  <2>7. CASE held.owner \notin Cmds
    <3>1. Ending(got) = <<m>>
      BY <2>5, <2>7
    <3>2. Chain(accepting, ops, reader, fromBroker \o <<m>>) = 0
      BY <1>1, <2>2, <2>4, SentHeard
    <3>3. fromBroker \o <<m>> \in Seq(Messages)
      BY <1>1, <2>2, ConcatOne
    <3>. QED BY <3>1, <3>2, <3>3
  <2>. QED BY <2>6, <2>7
<1>. QED BY <1>2, <1>3

\* Without a session nothing is on its way.
LEMMA AcceptUp ==
  ASSUME AcceptInv, sessions # 0
  PROVE  Installed /\ Joined
BY DEF AcceptInv, Installed, Joined

LEMMA StartAccept ==
  ASSUME LoopTyped, AcceptInv, ~EarlySessions, NEW o \in Cmds \cup {"other"}, Start(o)
  PROVE  AcceptInv'
<1>1. PICK n \in Nat : n = sessions + 1
  BY QueuesHeard
<1>2. PICK m : m = Accepting("mode", n)
  OBVIOUS
<1>3. m \in Messages /\ m.t = "mode" /\ m.s = n
  BY <1>1, <1>2 DEF Accepting, Messages
<1>4. /\ Installed /\ Joined /\ held'.id = n /\ phase' = phase
      /\ fromBroker' = fromBroker \o (Ending(FALSE) \o <<m>>)
      /\ brokerUp /\ UNCHANGED <<accepting, ops, reader, stopping>>
  <2>1. Installed /\ Joined
    BY DEF Start, Installed, Joined
  <2>. QED BY <1>1, <1>2, <2>1 DEF Start, ToWM, boot
<1>5. ASSUME ~stopping PROVE Chain(accepting, ops, reader, fromBroker') = n
  <2>1. /\ accepting \in Nat /\ ops \in Seq(Messages) /\ reader \in Seq(Messages) /\ fromBroker \in Seq(Messages)
    BY QueuesHeard
  <2>2. PICK g : g = fromBroker \o Ending(FALSE)
    OBVIOUS
  <2>3. g \in Seq(Messages)
    BY <1>4, <1>5, <2>2, EndingHeard DEF AcceptInv
  <2>4. fromBroker' = g \o <<m>>
    <3>1. Ending(FALSE) \in Seq(Messages)
      <4>1. Ending(FALSE) \in Seq(Frames(sessions)) /\ Frames(sessions) \subseteq Messages
        BY EndingTyped, QueuesHeard DEF LoopTyped
      <4>. QED BY <4>1, SeqGrows
    <3>2. <<m>> \in Seq(Messages)
      BY <1>3
    <3>3. PICK e \in Seq(Messages) : e = Ending(FALSE)
      BY <3>1
    <3>4. fromBroker \o (e \o <<m>>) = (fromBroker \o e) \o <<m>>
      BY <2>1, <3>2
    <3>. QED BY <1>4, <2>2, <3>3, <3>4
  <2>5. Chain(accepting, ops, reader, g \o <<m>>) = Told(Chain(accepting, ops, reader, g), m)
    BY <1>3, <2>1, <2>3, SentHeard
  <2>. QED BY <1>3, <2>4, <2>5 DEF Told
<1>. QED BY <1>4, <1>5 DEF AcceptInv, Installed

LEMMA FinishAccept ==
  ASSUME LoopTyped, AcceptInv, NEW got \in BOOLEAN, Finish(got)
  PROVE  AcceptInv'
<1>1. held.id # 0 /\ brokerUp /\ held' = NoOne /\ ToWM(Ending(got))
      /\ UNCHANGED <<phase, stopping, sessions, accepting, ops, reader>>
  BY DEF Finish, boot, wm
<1>2. sessions # 0
  BY <1>1, QueuesHeard
<1>3. Installed /\ fromBroker' = fromBroker \o Ending(got)
  BY <1>1, <1>2, AcceptUp DEF ToWM
<1>4. ~stopping => Chain(accepting, ops, reader, fromBroker') = 0
  BY <1>1, <1>3, EndingHeard DEF AcceptInv
<1>. QED BY <1>1, <1>3, <1>4 DEF AcceptInv, Installed, NoOne

LEMMA CancelAccept ==
  ASSUME LoopTyped, AcceptInv, NEW s \in cancels, HandleCancel(s)
  PROVE  AcceptInv'
<1>1. PICK m : m = Accepting("ok", s)
  OBVIOUS
<1>2. s \in Nat /\ s # 0 /\ sessions # 0
  BY DEF LoopTyped, QueuesTyped
<1>3. m \in Messages /\ m.t \notin {"mode", "clear"}
  BY <1>1, <1>2 DEF Accepting, Messages
<1>4. /\ brokerUp /\ UNCHANGED <<phase, stopping, sessions, accepting, ops, reader>>
      /\ IF held.id = s THEN ToWM(Ending(FALSE) \o <<m>>) /\ held' = NoOne ELSE ToWM(<<m>>) /\ UNCHANGED held
  BY <1>1 DEF HandleCancel, boot, wm
<1>5. Installed /\ Joined
  BY <1>2, AcceptUp
<1>6. /\ accepting \in Nat /\ ops \in Seq(Messages) /\ reader \in Seq(Messages) /\ fromBroker \in Seq(Messages)
  BY QueuesHeard
<1>7. CASE held.id = s
  <2>1. ASSUME ~stopping PROVE Chain(accepting, ops, reader, fromBroker') = 0
    <3>1. PICK g : g = fromBroker \o Ending(FALSE)
      OBVIOUS
    <3>2. g \in Seq(Messages) /\ Chain(accepting, ops, reader, g) = 0
      BY <1>4, <2>1, <3>1, EndingHeard DEF AcceptInv
    <3>3. fromBroker' = g \o <<m>>
      <4>1. Ending(FALSE) \in Seq(Messages)
        <5>1. Ending(FALSE) \in Seq(Frames(sessions)) /\ Frames(sessions) \subseteq Messages
          BY EndingTyped, QueuesHeard DEF LoopTyped
        <5>. QED BY <5>1, SeqGrows
      <4>2. <<m>> \in Seq(Messages)
        BY <1>3
      <4>3. PICK e \in Seq(Messages) : e = Ending(FALSE)
        BY <4>1
      <4>4. fromBroker \o (e \o <<m>>) = (fromBroker \o e) \o <<m>>
        BY <1>6, <4>2
      <4>. QED BY <1>4, <1>5, <1>7, <3>1, <4>3, <4>4 DEF ToWM
    <3>4. Chain(accepting, ops, reader, g \o <<m>>) = Told(0, m)
      BY <1>3, <1>6, <3>2, SentHeard
    <3>. QED BY <1>3, <3>3, <3>4, ToldNothing
  <2>. QED BY <1>4, <1>5, <1>7, <2>1 DEF AcceptInv, Installed, NoOne
<1>8. CASE held.id # s
  <2>1. fromBroker' = fromBroker \o <<m>> /\ held' = held
    BY <1>4, <1>5, <1>8 DEF ToWM
  <2>2. Chain(accepting, ops, reader, fromBroker \o <<m>>) = Told(Chain(accepting, ops, reader, fromBroker), m)
    BY <1>3, <1>6, SentHeard
  <2>3. Chain(accepting, ops, reader, fromBroker') = Chain(accepting, ops, reader, fromBroker)
    BY <1>3, <2>1, <2>2, ToldNothing
  <2>. QED BY <1>4, <1>5, <2>1, <2>3 DEF AcceptInv, Installed
<1>. QED BY <1>7, <1>8

\* The reader takes a frame off the socket.
LEMMA ReadAccept ==
  ASSUME LoopTyped, AcceptInv, ReadFrame
  PROVE  AcceptInv'
<1>1. PICK m : m = Head(fromBroker)
  OBVIOUS
<1>2. /\ reader = <<>> /\ fromBroker # <<>> /\ fromBroker' = Tail(fromBroker)
      /\ reader' = IF m.t \in {"mode", "clear"} /\ Installed THEN <<m>> ELSE <<>>
      /\ UNCHANGED <<phase, stopping, brokerUp, held, sessions, accepting, ops>>
  BY <1>1 DEF ReadFrame, boot, broker
<1>3. Installed
  BY <1>2 DEF AcceptInv
<1>4. /\ accepting \in Nat /\ ops \in Seq(Messages) /\ fromBroker \in Seq(Messages)
  BY QueuesHeard
<1>5. m \in Messages /\ Tail(fromBroker) \in Seq(Messages)
  BY <1>1, <1>2, <1>4, TailTyped
<1>6. PICK w \in Nat : w = Heard(accepting, ops)
  BY <1>4, HeardType
<1>7. Chain(accepting, ops, reader, fromBroker) = Heard(Told(w, m), Tail(fromBroker))
  <2>1. Heard(w, <<>>) = w
    BY HeardNothing
  <2>2. Heard(Told(w, m), Tail(fromBroker)) = Heard(w, fromBroker)
    BY <1>1, <1>2, <1>4, <1>6, HeardTail
  <2>. QED BY <1>2, <1>6, <2>1, <2>2 DEF Chain
<1>8. CASE m.t \in {"mode", "clear"}
  <2>1. reader' = <<m>>
    BY <1>2, <1>3, <1>8
  <2>2. Chain(accepting, ops, <<m>>, Tail(fromBroker)) = Heard(Told(w, m), Tail(fromBroker))
    BY <1>4, <1>5, <1>6, ReaderHeard
  <2>. QED BY <1>2, <1>3, <1>7, <2>1, <2>2 DEF AcceptInv, Installed
<1>9. CASE m.t \notin {"mode", "clear"}
  <2>1. reader' = <<>> /\ Told(w, m) = w
    BY <1>2, <1>9, ToldNothing
  <2>2. Chain(accepting, ops, <<>>, Tail(fromBroker)) = Heard(w, Tail(fromBroker))
    <3>1. Heard(w, <<>>) = w
      BY HeardNothing
    <3>. QED BY <1>6, <3>1 DEF Chain
  <2>. QED BY <1>2, <1>3, <1>7, <2>1, <2>2 DEF AcceptInv, Installed
<1>. QED BY <1>8, <1>9

\* The loop does what it is told.
LEMMA RunAcceptStep ==
  ASSUME LoopTyped, AcceptInv, Run
  PROVE  AcceptInv'
<1>1. PICK m : m = Head(ops)
  OBVIOUS
<1>2. /\ ops # <<>> /\ ops' = Tail(ops)
      /\ IF m.t = "call" THEN RunCall(m.x) ELSE RunAccept(m)
      /\ UNCHANGED <<phase, stopping, brokerUp, held, sessions, reader, fromBroker>>
  BY <1>1 DEF Run, boot, broker
<1>3. accepting \in Nat /\ ops \in Seq(Messages)
  BY QueuesHeard
<1>4. accepting' = Told(accepting, m)
  <2>1. CASE m.t = "call"
    <3>1. accepting' = accepting
      BY <1>2, <2>1 DEF RunCall, ScriptMethod, IPCRequest, Answers, wm
    <3>. QED BY <2>1, <3>1, ToldNothing
  <2>2. CASE m.t # "call"
    BY <1>2, <2>2 DEF RunAccept
  <2>. QED BY <2>1, <2>2
<1>5. Heard(accepting', ops') = Heard(accepting, ops)
  BY <1>1, <1>2, <1>3, <1>4, HeardTail
<1>. QED BY <1>2, <1>5 DEF AcceptInv, Chain, Installed

LEMMA AcceptStep ==
  ASSUME LoopTyped, AcceptInv, ~EarlySessions, [LoopNext]_loopVars
  PROVE  AcceptInv'
<1>0. /\ accepting \in Nat /\ ops \in Seq(Messages) /\ reader \in Seq(Messages) /\ fromBroker \in Seq(Messages)
      /\ Closures(sessions) \subseteq Messages
  BY QueuesHeard
<1>1. UNCHANGED <<ops, reader, fromBroker, accepting, held, sessions, brokerUp>>
        /\ (stopping => stopping') /\ (Installed => Installed') => AcceptInv'
  BY DEF AcceptInv, Chain
<1>2. UNCHANGED <<boot, broker, ops, reader, fromBroker, accepting>> => AcceptInv'
  BY <1>1 DEF boot, broker, Installed
<1>3. ASSUME NEW m \in Closures(sessions), m.t \notin {"mode", "clear"}, PostOp(m),
             UNCHANGED <<boot, broker, reader, fromBroker, accepting>>
      PROVE  AcceptInv'
  <2>1. m \in Messages
    BY <1>0
  <2>2. ~stopping => ops' = ops \/ ops' = Append(ops, m)
    BY <1>3 DEF PostOp
  <2>3. Chain(accepting, Append(ops, m), reader, fromBroker) = Chain(accepting, ops, reader, fromBroker)
    BY <1>0, <1>3, <2>1, PostHeard
  <2>. QED BY <1>3, <2>2, <2>3 DEF AcceptInv, Installed, boot, broker
<1>4. CASE Connect
  <2>1. held.id = 0 /\ reader = <<>> /\ fromBroker = <<>> /\ phase = "connecting" /\ sessions = 0
    BY <1>4, QueuesHeard DEF AcceptInv, Connect, Installed
  <2>2. UNCHANGED <<ops, reader, fromBroker, accepting, held, sessions, brokerUp, stopping>>
    BY <1>4, <2>1 DEF Connect, broker, wm
  <2>. QED BY <1>1, <2>1, <2>2 DEF Installed
<1>5. CASE Install \/ Ready \/ Exit \/ Shutdown
  <2>1. UNCHANGED <<ops, reader, fromBroker, accepting, held, sessions, brokerUp>>
    BY <1>5 DEF Install, Ready, Exit, Shutdown, broker, wm
  <2>2. (stopping => stopping') /\ (Installed => Installed')
    BY <1>5 DEF Install, Ready, Exit, Shutdown, Installed
  <2>. QED BY <1>1, <2>1, <2>2
<1>6. CASE Run
  BY <1>6, RunAcceptStep
<1>7. ASSUME NEW c, Call(c) \/ Expire(c) \/ Return(c) \/ Stopped(c) PROVE AcceptInv'
  BY <1>2, <1>7 DEF Call, Expire, Return, Stopped, GivesUp, wm
<1>8. ASSUME NEW c \in Callers, NEW k \in 1..MaxCalls, PostCall(<<c, k>>) PROVE AcceptInv'
  <2>1. PICK m : m = [t |-> "call", x |-> <<c, k>>]
    OBVIOUS
  <2>2. m \in Closures(sessions) /\ m.t \notin {"mode", "clear"}
    BY <2>1 DEF Closures, Calls
  <2>3. bound' = bound /\ phase' = phase /\ stopping' = stopping /\ UNCHANGED <<boot, broker, reader, fromBroker, accepting>>
    BY <1>8 DEF PostCall, boot, wm
  <2>. QED BY <1>3, <1>8, <2>1, <2>2, <2>3 DEF PostCall
<1>9. ASSUME NEW k \in Cmds, CommandPosts(k) PROVE AcceptInv'
  <2>1. PICK m : m = [t |-> "done", k |-> k]
    OBVIOUS
  <2>2. m \in Closures(sessions) /\ m.t \notin {"mode", "clear"}
    BY <2>1 DEF Closures
  <2>. QED BY <1>3, <1>9, <2>1, <2>2 DEF CommandPosts
<1>10. CASE ReaderPosts
  <2>1. PICK m : m = reader[1]
    OBVIOUS
  <2>2. reader \in Seq(Modes(sessions)) /\ reader # <<>> /\ Len(reader) <= 1
    BY <1>10 DEF ReaderPosts, LoopTyped, QueuesTyped
  <2>3. m \in Modes(sessions) /\ reader = <<m>>
    <3>1. m \in Modes(sessions)
      BY <2>1, <2>2, TailTyped
    <3>2. reader = <<reader[1]>>
      BY <2>2, OneLong
    <3>. QED BY <2>1, <3>1, <3>2
  <2>4. m \in Messages
    BY <1>0, <2>3 DEF Closures
  <2>5. /\ PostOp(m) /\ reader' = <<>> /\ UNCHANGED <<phase, stopping, brokerUp, held, sessions, fromBroker, accepting>>
    BY <1>10, <2>1 DEF ReaderPosts, boot, broker, wm
  <2>6. ASSUME brokerUp, ~stopping PROVE Chain(accepting, ops', <<>>, fromBroker) = held.id
    <3>1. ops' = Append(ops, m)
      BY <2>5, <2>6 DEF PostOp
    <3>2. Chain(accepting, Append(ops, m), <<>>, fromBroker) = Chain(accepting, ops, <<m>>, fromBroker)
      BY <1>0, <2>4, ReaderHeard
    <3>. QED BY <2>3, <2>6, <3>1, <3>2 DEF AcceptInv
  <2>. QED BY <2>5, <2>6 DEF AcceptInv, Installed
<1>11. CASE PressEscape
  BY <1>2, <1>11 DEF PressEscape
<1>12. ASSUME NEW k, Command(k) PROVE AcceptInv'
  BY <1>2, <1>12 DEF Command
<1>13. ASSUME NEW o \in Cmds \cup {"other"}, Start(o) PROVE AcceptInv'
  BY <1>13, StartAccept
<1>14. ASSUME NEW got \in BOOLEAN, Finish(got) PROVE AcceptInv'
  BY <1>14, FinishAccept
<1>15. ASSUME NEW x \in cancels, HandleCancel(x) PROVE AcceptInv'
  BY <1>15, CancelAccept
<1>16. CASE BrokerDies
  <2>1. brokerUp' = FALSE /\ UNCHANGED <<phase, sessions, reader, fromBroker>>
    BY <1>16 DEF BrokerDies, boot
  <2>. QED BY <2>1 DEF AcceptInv, Installed
<1>17. CASE ReadFrame
  BY <1>17, ReadAccept
<1>18. CASE Sweep
  BY <1>2, <1>18 DEF Sweep
<1>19. CASE UNCHANGED loopVars
  BY <1>2, <1>19 DEF loopVars, wm
<1>. QED
  BY <1>4, <1>5, <1>6, <1>7, <1>8, <1>9, <1>10, <1>11, <1>12, <1>13, <1>14, <1>15, <1>16, <1>17, <1>18, <1>19
     DEF LoopNext, Boot, Serve, Users, Asks, Reader

LEMMA AcceptInitHolds == LoopInit => AcceptInv
<1> SUFFICES ASSUME LoopInit PROVE AcceptInv
  OBVIOUS
<1>1. /\ ops = <<>> /\ reader = <<>> /\ fromBroker = <<>> /\ accepting = 0 /\ sessions = 0 /\ held.id = 0
  BY DEF LoopInit, Begins, NoOne
<1>2. Heard(0, <<>>) = 0
  BY HeardNothing
<1>. QED BY <1>1, <1>2 DEF AcceptInv, Chain

\* Where no session begins before the handlers are there, the accept mode of
\* the window manager is the broker's once it has done what is on its way
\* (connectBroker's handlers, the reader and the loop's channel).
THEOREM AcceptModeFollows == ~EarlySessions => (LoopSpec => []AcceptFollowsBroker)
<1> SUFFICES ASSUME ~EarlySessions PROVE LoopSpec => []AcceptFollowsBroker
  OBVIOUS
<1>1. LoopTyped /\ AcceptInv /\ [LoopNext]_loopVars => AcceptInv'
  BY AcceptStep
<1>2. AcceptInv => AcceptFollowsBroker
  BY DEF AcceptInv, Chain, AcceptFollowsBroker
<1>. QED BY <1>1, <1>2, AcceptInitHolds, LoopInvariant, PTL DEF LoopSpec
-----------------------------------------------------------------------------
(* The launcher's surfaces.                                                *)

\* FiniteSetsExt's Min is the least of the set.
LEMMA MinIsLeast ==
  ASSUME NEW S \in SUBSET Nat, S # {}
  PROVE  Min(S) \in S /\ \A y \in S : Min(S) <= y
<1>1. \E x \in S : \A y \in S : x <= y
  BY LeastNat
<1>. QED BY <1>1 DEF Min

\* The leaf with the focus is one that was born, and the keyboard is there
\* once the popup is closed, unless the leaf is gone again.
AppStates == {"unborn", "", "builtin", "client", "gone"}
SurfacesInv ==
  /\ app \in [Places -> AppStates]
  /\ "open" \in DOMAIN popup
  /\ focus \in Places \cup {Float} /\ focus \notin Unborn
  /\ KeyboardFollows

LEMMA PlacesNat ==
  /\ Places \in SUBSET Nat /\ 0 \notin Places /\ Places # {}
  /\ Unborn \in SUBSET Nat /\ Empty \in SUBSET Nat /\ Live \in SUBSET Nat
BY LauncherAssumption DEF Unborn, Empty, Live

\* placementLeaf gives an empty leaf or one to be born.
LEMMA PlacementIsPlace == placementLeaf # 0 => placementLeaf \in Places
<1>1. Empty # {} => Min(Empty) \in Places
  BY PlacesNat, MinIsLeast DEF Empty
<1>2. Unborn # {} => Min(Unborn) \in Places
  BY PlacesNat, MinIsLeast DEF Unborn
<1>. QED BY <1>1, <1>2 DEF placementLeaf

\* A leaf that is occupied has the focus and the keyboard.
LEMMA OccupySurfaces ==
  ASSUME SurfacesInv, NEW l \in Places, NEW what \in {"builtin", "client"}, Occupy(l, what),
         "open" \in DOMAIN popup'
  PROVE  SurfacesInv'
<1>1. app' \in [Places -> AppStates] /\ app'[l] = what /\ focus' = l /\ kbd' = l
  BY DEF SurfacesInv, Occupy, AppStates
<1>2. l \notin Unborn'
  BY <1>1 DEF Unborn
<1>. QED BY <1>1, <1>2 DEF SurfacesInv, KeyboardFollows

\* Nothing moves, but for a popup that opens ...
LEMMA StillSurfaces ==
  ASSUME SurfacesInv, UNCHANGED <<app, focus>>, "open" \in DOMAIN popup',
         (UNCHANGED kbd /\ popup'.open = popup.open) \/ popup'.open
  PROVE  SurfacesInv'
BY DEF SurfacesInv, KeyboardFollows, Unborn, Live

\* ... or the keyboard is given back.
LEMMA RestoredSurfaces ==
  ASSUME SurfacesInv, UNCHANGED <<app, focus>>, "open" \in DOMAIN popup', restoreInputFocus
  PROVE  SurfacesInv'
<1>1. focus \in Live \cup {Float} => kbd' = focus
  BY DEF restoreInputFocus
<1>. QED BY <1>1 DEF SurfacesInv, KeyboardFollows, Unborn, Live

LEMMA LaunchSurfaces ==
  ASSUME SurfacesInv, NEW c, launchCommand(c), "open" \in DOMAIN popup'
  PROVE  SurfacesInv'
<1>1. CASE KindOf(c) = "builtin" /\ placementLeaf # 0
  <2>1. placementLeaf \in Places /\ Occupy(placementLeaf, "builtin")
    BY <1>1, PlacementIsPlace DEF launchCommand
  <2>. QED BY <2>1, OccupySurfaces
<1>2. CASE ~(KindOf(c) = "builtin" /\ placementLeaf # 0)
  <2>1. UNCHANGED <<app, focus>> /\ restoreInputFocus
    BY <1>2 DEF launchCommand, desk
  <2>. QED BY <2>1, RestoredSurfaces
<1>. QED BY <1>1, <1>2

LEMMA ActInSurfaces ==
  ASSUME SurfacesInv, NEW l \in Places, NEW c, NEW at, NEW row, ActIn(l, c, at, row)
  PROVE  SurfacesInv'
<1>1. popup' = popup /\ "open" \in DOMAIN popup'
  BY DEF ActIn, SurfacesInv
<1>2. CASE Occupy(l, "builtin")
  BY <1>1, <1>2, OccupySurfaces
<1>3. CASE UNCHANGED <<app, focus, kbd>>
  BY <1>1, <1>3, StillSurfaces
<1>4. Occupy(l, "builtin") \/ UNCHANGED <<app, focus, kbd>>
  BY DEF ActIn, launchIntoTile, desk
<1>. QED BY <1>2, <1>3, <1>4

LEMMA CloseSurfaces ==
  ASSUME SurfacesInv, closeLauncher
  PROVE  SurfacesInv'
<1>1. popup' = Closed /\ restoreInputFocus /\ UNCHANGED <<app, focus>>
  BY DEF closeLauncher, Closing, desk
<1>2. "open" \in DOMAIN popup'
  BY <1>1 DEF Closed
<1>. QED BY <1>1, <1>2, RestoredSurfaces

LEMMA BirthSurfaces ==
  ASSUME SurfacesInv, Split
  PROVE  SurfacesInv'
<1>1. PICK b : b = Min(Unborn)
  OBVIOUS
<1>2. b \in Unborn
  BY <1>1, PlacesNat, MinIsLeast DEF Split
<1>3. app' = [app EXCEPT ![b] = ""] /\ UNCHANGED <<popup, focus, kbd>>
  BY <1>1 DEF Split
<1>4. focus # b
  BY <1>2 DEF SurfacesInv
<1>5. app' \in [Places -> AppStates] /\ \A l \in Places : l # b => app'[l] = app[l]
  BY <1>2, <1>3 DEF SurfacesInv, AppStates
<1>6. focus' \notin Unborn' /\ (focus' \in Live' => focus \in Live)
  BY <1>3, <1>4, <1>5 DEF SurfacesInv, Unborn, Live
<1>. QED BY <1>3, <1>5, <1>6 DEF SurfacesInv, KeyboardFollows

\* A leaf goes: with the focus on it, the keyboard stays where it was, or
\* both are handed on to a leaf that lives.
LEMMA VanishSurfaces ==
  ASSUME SurfacesInv, NEW l \in Places, Vanish(l), UNCHANGED popup,
         \/ UNCHANGED <<focus, kbd>>
         \/ focus' \in Live \ {l} /\ kbd' = focus'
  PROVE  SurfacesInv'
<1>1. /\ app' \in [Places -> AppStates] /\ app'[l] = "gone"
      /\ \A k \in Places : k # l => app'[k] = app[k]
  BY DEF Vanish, SurfacesInv, AppStates
<1>2. Unborn' \subseteq Unborn /\ Live' \subseteq Live
  BY <1>1 DEF Unborn, Live
<1>3. CASE UNCHANGED <<focus, kbd>>
  BY <1>1, <1>2, <1>3 DEF SurfacesInv, KeyboardFollows
<1>4. CASE focus' \in Live \ {l} /\ kbd' = focus'
  <2>1. focus' \in Places /\ app[focus'] # "unborn"
    BY <1>4 DEF Live
  <2>2. focus' \notin Unborn'
    BY <1>2, <2>1 DEF Unborn
  <2>. QED BY <1>1, <1>4, <2>1, <2>2 DEF SurfacesInv, KeyboardFollows
<1>. QED BY <1>3, <1>4

LEMMA OtherLives ==
  ASSUME NEW l, Cardinality(Live) > 1
  PROVE  Min(Live \ {l}) \in Live \ {l}
<1>2. Cardinality({}) = 0 /\ Cardinality({l}) = 1
  BY FS_EmptySet, FS_Singleton
<1>3. Live \ {l} # {} /\ Live \ {l} \in SUBSET Nat
  <2>1. Live # {} /\ Live # {l}
    BY <1>2
  <2>. QED BY <2>1, PlacesNat
<1>. QED BY <1>3, MinIsLeast

LEMMA LeaveSurfaces ==
  ASSUME SurfacesInv, NEW l \in Places, closeClient(l) \/ unmanage(l)
  PROVE  SurfacesInv'
<1>1. CASE closeClient(l)
  BY <1>1, VanishSurfaces DEF closeClient
<1>2. CASE unmanage(l)
  <2>1. Vanish(l) /\ UNCHANGED popup
    BY <1>2 DEF unmanage
  <2>2. Min(Live \ {l}) \in Live \ {l}
    BY <2>1, OtherLives DEF Vanish
  <2>3. UNCHANGED <<focus, kbd>> \/ (focus' \in Live \ {l} /\ kbd' = focus')
    <3>1. CASE focus = l
      <4>1. focus' = Min(Live \ {l}) /\ kbd' = focus'
        BY <1>2, <3>1 DEF unmanage
      <4>. QED BY <2>2, <4>1
    <3>2. CASE focus # l
      <4>1. UNCHANGED <<focus, kbd>>
        BY <1>2, <3>2 DEF unmanage
      <4>. QED BY <4>1
    <3>. QED BY <3>1, <3>2
  <2>. QED BY <2>1, <2>3, VanishSurfaces
<1>. QED BY <1>1, <1>2

LEMMA ClickSurfaces ==
  ASSUME SurfacesInv, NEW l \in Places \cup {Float}, Focus(l)
  PROVE  SurfacesInv'
<1>1. focus' = l /\ kbd' = l /\ UNCHANGED <<app, popup>> /\ l \in Live \cup {Float}
  BY DEF Focus
<1>2. l \notin Unborn
  BY <1>1, PlacesNat, LauncherAssumption DEF Live, Unborn, Float
<1>. QED BY <1>1, <1>2 DEF SurfacesInv, KeyboardFollows, Unborn

\* What takes no leaf and no focus.
LEMMA IdleSurfaces ==
  ASSUME SurfacesInv,
         \/ Repaint \/ openLauncher \/ launcherKey \/ cancelAccept \/ RequestMenu \/ showMenu \/ OnAccept
         \/ (\E c \in AllCmds : SetStatic(c)) \/ (\E l \in Places : launcherTileKey(l))
         \/ UNCHANGED launcherVars
  PROVE  SurfacesInv'
<1>1. CASE closeLauncher
  BY <1>1, CloseSurfaces
<1>2. CASE openLauncher
  <2>1. UNCHANGED <<app, focus>> /\ popup'.open /\ "open" \in DOMAIN popup'
    BY <1>2 DEF openLauncher, desk
  <2>. QED BY <2>1, StillSurfaces
<1>3. CASE launcherKey
  <2>1. UNCHANGED <<app, focus, kbd>>
    BY <1>3 DEF launcherKey, desk
  <2>2. "open" \in DOMAIN popup' /\ popup'.open = popup.open
    BY <1>3 DEF launcherKey, EditPopup, SurfacesInv
  <2>. QED BY <2>1, <2>2, StillSurfaces
<1>4. CASE UNCHANGED <<app, focus, kbd, popup>>
  <2>1. "open" \in DOMAIN popup'
    BY <1>4 DEF SurfacesInv
  <2>. QED BY <1>4, <2>1, StillSurfaces
<1>5. closeLauncher \/ openLauncher \/ launcherKey \/ UNCHANGED <<app, focus, kbd, popup>>
  BY DEF Repaint, cancelAccept, RequestMenu, showMenu, OnAccept, SetStatic, launcherTileKey, launcherVars, desk
<1>. QED BY <1>1, <1>2, <1>3, <1>4, <1>5

LEMMA SurfacesStep == SurfacesInv /\ [LauncherNext]_launcherVars => SurfacesInv'
<1> SUFFICES ASSUME SurfacesInv, [LauncherNext]_launcherVars PROVE SurfacesInv'
  OBVIOUS
<1>1. CASE launcherActivate
  <2>1. PICK i \in DOMAIN popup.rows :
          /\ popup' = Closed
          /\ launchCommand(popup.rows[i]) \/ (UNCHANGED desk /\ restoreInputFocus)
    BY <1>1 DEF launcherActivate
  <2>2. "open" \in DOMAIN popup'
    BY <2>1 DEF Closed
  <2>. QED BY <2>1, <2>2, LaunchSurfaces, RestoredSurfaces DEF desk
<1>2. CASE menuPress
  <2>1. popup' = popup /\ "open" \in DOMAIN popup'
    BY <1>2 DEF menuPress, SurfacesInv
  <2>2. (\E c \in listed : launchCommand(c)) \/ UNCHANGED <<app, focus, kbd>>
    BY <1>2 DEF menuPress, desk
  <2>. QED BY <2>1, <2>2, LaunchSurfaces, StillSurfaces
<1>3. ASSUME NEW l \in Places, TileReturn(l) PROVE SurfacesInv'
  <2>1. \E c, row : ActIn(l, c, "return", row)
    BY <1>3 DEF TileReturn
  <2>. QED BY <2>1, ActInSurfaces
<1>4. ASSUME NEW l \in Places, TileClick(l) PROVE SurfacesInv'
  <2>1. \E c : ActIn(l, c, "click", c)
    BY <1>4 DEF TileClick
  <2>. QED BY <2>1, ActInSurfaces
<1>5. CASE manage
  <2>1. placementLeaf \in Places /\ Occupy(placementLeaf, "client") /\ popup' = popup
    BY <1>5, PlacementIsPlace DEF manage
  <2>2. "open" \in DOMAIN popup'
    BY <2>1 DEF SurfacesInv
  <2>. QED BY <2>1, <2>2, OccupySurfaces
<1>6. CASE Split
  BY <1>6, BirthSurfaces
<1>7. ASSUME NEW l \in Places, closeClient(l) \/ unmanage(l) PROVE SurfacesInv'
  BY <1>7, LeaveSurfaces
<1>8. ASSUME NEW l \in Places \cup {Float}, Focus(l) PROVE SurfacesInv'
  BY <1>8, ClickSurfaces
<1>9. CASE \/ Repaint \/ openLauncher \/ launcherKey \/ cancelAccept \/ RequestMenu \/ showMenu \/ OnAccept
           \/ (\E c \in AllCmds : SetStatic(c)) \/ (\E l \in Places : launcherTileKey(l))
           \/ UNCHANGED launcherVars
  BY <1>9, IdleSurfaces
<1>. QED BY <1>1, <1>2, <1>3, <1>4, <1>5, <1>6, <1>7, <1>8, <1>9 DEF LauncherNext

LEMMA SurfacesInitHolds == LauncherInit => SurfacesInv
<1> SUFFICES ASSUME LauncherInit PROVE SurfacesInv
  OBVIOUS
<1>1. PICK m : m = Min(Places)
  OBVIOUS
<1>2. m \in Places
  BY <1>1, PlacesNat, MinIsLeast
<1>3. app = [l \in Places |-> IF l = m THEN "" ELSE "unborn"] /\ focus = m /\ kbd = m /\ popup = Closed
  BY <1>1 DEF LauncherInit
<1>4. app \in [Places -> AppStates] /\ app[m] = ""
  BY <1>2, <1>3 DEF AppStates
<1>5. "open" \in DOMAIN popup
  BY <1>3 DEF Closed
<1>. QED BY <1>2, <1>3, <1>4, <1>5 DEF SurfacesInv, KeyboardFollows, Unborn

\* The keyboard is where the focus registers say once the popup is closed and
\* the focused leaf is there (restoreInputFocus, focus, unmanage), however the
\* popup was left: with a launch, a menu, Escape or a press outside.
THEOREM KeyboardStays == LauncherSpec => []KeyboardFollows
<1>1. SurfacesInv => KeyboardFollows
  BY DEF SurfacesInv
<1>. QED BY <1>1, SurfacesInitHolds, SurfacesStep, PTL DEF LauncherSpec

LEMMA NothingShows == ASSUME acted = Nothing PROVE LaunchesShown
BY ZenonT(30) DEF Nothing, LaunchesShown
LEMMA QuietShows == ASSUME Quiet PROVE LaunchesShown'
BY ZenonT(30) DEF Quiet, Nothing, LaunchesShown
LEMMA ActedShows == ASSUME NEW at, NEW c, Acted(at, c, c) PROVE LaunchesShown'
BY ZenonT(30) DEF Acted, LaunchesShown
LEMMA ReturnShows == ASSUME NEW c, NEW row, Acted("return", c, row) PROVE LaunchesShown'
BY ZenonT(30) DEF Acted, LaunchesShown

LEMMA ActedStep == LaunchesShown /\ [LauncherNext]_launcherVars => LaunchesShown'
<1> SUFFICES ASSUME LaunchesShown, [LauncherNext]_launcherVars PROVE LaunchesShown'
  OBVIOUS
<1>1. CASE launcherActivate
  <2>1. \E c : Acted("popup", c, c)
    BY <1>1 DEF launcherActivate
  <2>. QED BY <2>1, ActedShows
<1>2. CASE menuPress
  <2>1. Quiet \/ \E c : Acted("menu", c, c)
    BY <1>2 DEF menuPress
  <2>. QED BY <2>1, QuietShows, ActedShows
<1>3. ASSUME NEW l \in Places, TileReturn(l) \/ TileClick(l) PROVE LaunchesShown'
  <2>1. \E c : Acted("click", c, c) \/ \E row : Acted("return", c, row)
    BY <1>3 DEF TileReturn, TileClick, ActIn
  <2>. QED BY <2>1, ActedShows, ReturnShows
<1>4. CASE UNCHANGED launcherVars
  BY <1>4 DEF launcherVars, LaunchesShown
<1>5. \/ launcherActivate \/ menuPress \/ (\E l \in Places : TileReturn(l) \/ TileClick(l))
      \/ Quiet \/ UNCHANGED launcherVars
  BY DEF LauncherNext, manage, Split, closeClient, unmanage, launcherTileKey, Focus, Repaint, openLauncher,
         launcherKey, showMenu, OnAccept, SetStatic, cancelAccept, RequestMenu, closeLauncher
<1>. QED BY <1>1, <1>2, <1>3, <1>4, <1>5, QuietShows

\* A click, Return in the popup and a verb of the menu launch or answer what
\* the row said, whatever the registry says now (launcherActivate works on the
\* popup's own copy of the rows, TileClick by the name in the region).
THEOREM LaunchesAsShown == LauncherSpec => []LaunchesShown
<1>1. LauncherInit => LaunchesShown
  BY NothingShows DEF LauncherInit
<1>. QED BY <1>1, ActedStep, PTL DEF LauncherSpec
-----------------------------------------------------------------------------
(* The scan of the desktop entries.                                        *)

\* The times that a scan would see now.
Stats == [p \in {q \in Paths : There(q)} |-> files[p].mtime]
\* Paths and the times they had, all of them in the past.
TimesOf(S) == UNION {[Q -> 0..writes] : Q \in SUBSET S}

ScanTyped ==
    /\ writes \in Nat
    /\ files \in [Paths -> [mtime : 0..writes, text : Texts \cup {"none"}]]
    /\ dirs \in [AppDirs -> 0..writes]
    /\ scan.at \in {"rest", "files", "parse"}
    /\ scan = [at |-> scan.at, saw |-> [dirs |-> scan.saw.dirs, files |-> scan.saw.files]]
    /\ scan.at # "rest" => scan.saw.dirs \in [AppDirs -> 0..writes]
    /\ scan.at = "parse" => scan.saw.files \in TimesOf(Paths)
    /\ seen.dirs = NoPaths \/ seen.dirs \in [AppDirs -> 0..writes]
    /\ seen.files \in TimesOf(Paths)
\* A scan that nothing disturbed has seen what is there.
SawNow ==
    quiet => /\ scan.at # "rest" => scan.saw.dirs = dirs
             /\ scan.at = "parse" => scan.saw.files = Stats
\* While the directories are as they were seen, the cache is what they say.
CacheSays == seen.dirs = dirs /\ seen.files = Stats => apps = Parsed
ScanInv == ScanTyped /\ SawNow /\ CacheSays

LEMMA PathsOf ==
  ASSUME NEW p \in Paths
  PROVE  p[1] \in AppDirs
BY DEF Paths

\* What no write disturbed.
LEMMA SameFiles ==
  ASSUME UNCHANGED files
  PROVE  Stats' = Stats /\ Parsed' = Parsed
<1>1. \A p : There(p)' = There(p)
  BY DEF There
<1>2. \A id : FirstWith(id)' = FirstWith(id)
  BY <1>1 DEF FirstWith
<1>. QED BY <1>1, <1>2 DEF Stats, Parsed

\* Times stay in the past.
LEMMA TimesGrow ==
  ASSUME NEW S, writes \in Nat, writes' \in Nat, writes' >= writes, NEW f \in TimesOf(S)
  PROVE  f \in TimesOf(S)'
<1>1. PICK Q \in SUBSET S : f \in [Q -> 0..writes]
  BY DEF TimesOf
<1>2. f \in [Q -> 0..writes']
  BY <1>1
<1>. QED BY <1>2 DEF TimesOf

LEMMA TimesAre ==
  ASSUME NEW S, NEW f \in TimesOf(S)
  PROVE  DOMAIN f \subseteq S /\ f \in [DOMAIN f -> 0..writes]
<1>1. PICK Q \in SUBSET S : f \in [Q -> 0..writes]
  BY DEF TimesOf
<1>. QED BY <1>1

LEMMA StatsTyped ==
  ASSUME ScanTyped
  PROVE  Stats \in TimesOf(Paths)
<1>. DEFINE Q == {q \in Paths : There(q)}
<1>1. Stats \in [Q -> 0..writes] /\ Q \in SUBSET Paths
  BY DEF ScanTyped, Stats
<1>. QED BY <1>1 DEF TimesOf

\* A write: what it leaves, and its time is later than any seen so far.
LEMMA WriteIs ==
  ASSUME ScanInv, NEW p \in Paths, Create(p) \/ Edit(p) \/ Delete(p)
  PROVE  /\ writes' = writes + 1 /\ quiet' = FALSE /\ UNCHANGED <<apps, seen, scan>>
         /\ \E r \in [mtime : 0..writes', text : Texts \cup {"none"}] : files' = [files EXCEPT ![p] = r]
         /\ \/ dirs' = [dirs EXCEPT ![p[1]] = writes']
            \/ dirs' = dirs /\ \E t \in Texts : files'[p] = [mtime |-> writes', text |-> t]
<1>1. writes \in Nat /\ files \in [Paths -> [mtime : 0..writes, text : Texts \cup {"none"}]]
  BY DEF ScanInv, ScanTyped
<1>2. writes' = writes + 1 /\ quiet' = FALSE /\ UNCHANGED <<apps, seen, scan>>
  BY DEF Create, Edit, Delete, Written
<1>3. Absent \in [mtime : 0..writes', text : Texts \cup {"none"}]
  BY <1>1, <1>2 DEF Absent
<1>4. \A t \in Texts : [mtime |-> writes', text |-> t] \in [mtime : 0..writes', text : Texts \cup {"none"}]
  BY <1>1, <1>2
<1>5. CASE Create(p)
  BY <1>2, <1>4, <1>5 DEF Create
<1>6. CASE Edit(p)
  <2>1. PICK t \in Texts : files' = [files EXCEPT ![p] = [mtime |-> writes', text |-> t]]
    BY <1>6 DEF Edit
  <2>2. files'[p] = [mtime |-> writes', text |-> t]
    BY <2>1, <1>1
  <2>. QED BY <1>2, <1>4, <1>6, <2>1, <2>2 DEF Edit
<1>7. CASE Delete(p)
  BY <1>2, <1>3, <1>7 DEF Delete
<1>. QED BY <1>5, <1>6, <1>7

LEMMA WriteKeeps ==
  ASSUME ScanInv, NEW p \in Paths, Create(p) \/ Edit(p) \/ Delete(p)
  PROVE  ScanInv'
<1>0. /\ writes' = writes + 1 /\ quiet' = FALSE /\ UNCHANGED <<apps, seen, scan>>
      /\ \/ dirs' = [dirs EXCEPT ![p[1]] = writes']
         \/ dirs' = dirs /\ \E t \in Texts : files'[p] = [mtime |-> writes', text |-> t]
  BY WriteIs
<1>. USE DEF ScanInv
<1>1. /\ writes' = writes + 1 /\ quiet' = FALSE /\ UNCHANGED <<apps, seen, scan>>
      /\ writes \in Nat /\ writes' \in Nat /\ writes' >= writes
  BY <1>0 DEF ScanTyped
<1>2. PICK r \in [mtime : 0..writes', text : Texts \cup {"none"}] : files' = [files EXCEPT ![p] = r]
  BY WriteIs
<1>3. files' \in [Paths -> [mtime : 0..writes', text : Texts \cup {"none"}]]
  <2>1. \A q \in Paths : files[q] \in [mtime : 0..writes', text : Texts \cup {"none"}]
    BY <1>1 DEF ScanTyped
  <2>. QED BY <1>2, <2>1 DEF ScanTyped
<1>4. p[1] \in AppDirs /\ dirs \in [AppDirs -> 0..writes]
  BY PathsOf DEF ScanTyped
<1>5. dirs' \in [AppDirs -> 0..writes']
  <2>1. dirs \in [AppDirs -> 0..writes'] /\ writes' \in 0..writes'
    BY <1>1, <1>4
  <2>. QED BY <1>0, <2>1
<1>6. scan.at # "rest" => scan.saw.dirs \in [AppDirs -> 0..writes']
  BY <1>1 DEF ScanTyped
<1>7. scan.at = "parse" => scan.saw.files \in TimesOf(Paths)'
  BY <1>1, TimesGrow DEF ScanTyped
<1>8. seen.dirs = NoPaths \/ seen.dirs \in [AppDirs -> 0..writes']
  BY <1>1 DEF ScanTyped
<1>9. seen.files \in TimesOf(Paths)'
  BY <1>1, TimesGrow DEF ScanTyped
<1>10. ScanTyped'
  BY <1>1, <1>3, <1>5, <1>6, <1>7, <1>8, <1>9 DEF ScanTyped, NoPaths, Paths, AppDirs
<1>11. ASSUME seen.dirs = dirs'
       PROVE  dirs' # [dirs EXCEPT ![p[1]] = writes']
  <2>1. CASE seen.dirs = NoPaths
    <3>1. DOMAIN seen.dirs = {}
      BY <2>1 DEF NoPaths
    <3>. QED BY <1>4, <1>5, <1>11, <3>1
  <2>2. CASE seen.dirs \in [AppDirs -> 0..writes]
    <3>1. seen.dirs[p[1]] \in 0..writes
      BY <1>4, <2>2
    <3>. QED BY <1>1, <1>4, <1>11, <3>1
  <2>. QED BY <2>1, <2>2 DEF ScanTyped
<1>12. ASSUME NEW t \in Texts, files'[p] = [mtime |-> writes', text |-> t]
       PROVE  seen.files # Stats'
  <2>1. There(p)'
    BY <1>12 DEF There, Texts
  <2>2. p \in DOMAIN Stats' /\ Stats'[p] = writes'
    BY <1>12, <2>1 DEF Stats, Paths, AppDirs
  <2>3. seen.files \in [DOMAIN seen.files -> 0..writes]
    BY TimesAre DEF ScanTyped
  <2>. QED BY <1>1, <2>2, <2>3
<1>13. CacheSays'
  BY <1>0, <1>1, <1>11, <1>12 DEF CacheSays
<1>. QED BY <1>1, <1>10, <1>13 DEF SawNow

LEMMA RefreshKeeps ==
  ASSUME ScanInv, Refresh
  PROVE  ScanInv'
<1>1. UNCHANGED <<files, dirs, writes, apps, seen>>
  BY DEF Refresh, fileSystem
<1>2. scan' = [at |-> "files", saw |-> [dirs |-> dirs, files |-> NoPaths]]
  BY DEF Refresh, Unscanned
<1>3. Stats' = Stats /\ Parsed' = Parsed
  BY <1>1, SameFiles
<1>4. TimesOf(Paths)' = TimesOf(Paths)
  BY <1>1 DEF TimesOf, Paths, AppDirs
<1>5. ScanTyped'
  <2>1. /\ scan'.at = "files" /\ scan'.saw.dirs = dirs
        /\ scan' = [at |-> scan'.at, saw |-> [dirs |-> scan'.saw.dirs, files |-> scan'.saw.files]]
    BY <1>2
  <2>2. AppDirs' = AppDirs /\ Paths' = Paths /\ NoPaths' = NoPaths /\ Texts' = Texts
    BY DEF AppDirs, Paths, NoPaths, Texts
  <2>. QED BY <1>1, <1>4, <2>1, <2>2 DEF ScanInv, ScanTyped
<1>6. SawNow'
  BY <1>1, <1>2 DEF SawNow
<1>. QED BY <1>1, <1>3, <1>5, <1>6 DEF ScanInv, CacheSays

LEMMA StatKeeps ==
  ASSUME ScanInv, StatFiles
  PROVE  ScanInv'
<1>1. UNCHANGED <<files, dirs, writes, quiet, apps, seen>>
  BY DEF StatFiles, fileSystem
<1>2. /\ scan.at = "files" /\ scan'.at = "parse"
      /\ scan'.saw.dirs = scan.saw.dirs /\ scan'.saw.files = Stats
      /\ scan' = [at |-> scan'.at, saw |-> [dirs |-> scan'.saw.dirs, files |-> scan'.saw.files]]
  <2>1. scan.at = "files" /\ scan' = [scan EXCEPT !.at = "parse", !.saw.files = Stats]
    BY DEF StatFiles, Stats
  <2>2. PICK D, F : scan = [at |-> "files", saw |-> [dirs |-> D, files |-> F]]
    BY <2>1 DEF ScanInv, ScanTyped
  <2>3. PICK S : S = Stats
    OBVIOUS
  <2>4. scan' = [at |-> "parse", saw |-> [dirs |-> D, files |-> S]]
    BY <2>1, <2>2, <2>3
  <2>5. scan.saw.dirs = D /\ scan'.saw.dirs = D /\ scan'.saw.files = S /\ scan'.at = "parse"
    BY ONLY <2>2, <2>4
  <2>. QED BY ONLY <2>1, <2>3, <2>4, <2>5
<1>3. Stats' = Stats /\ Parsed' = Parsed
  BY <1>1, SameFiles
<1>4. TimesOf(Paths)' = TimesOf(Paths)
  BY <1>1 DEF TimesOf, Paths, AppDirs
<1>5. Stats \in TimesOf(Paths)
  BY StatsTyped DEF ScanInv
<1>6. ScanTyped'
  <2>1. AppDirs' = AppDirs /\ Paths' = Paths /\ NoPaths' = NoPaths /\ Texts' = Texts
    BY DEF AppDirs, Paths, NoPaths, Texts
  <2>. QED BY <1>1, <1>2, <1>4, <1>5, <2>1 DEF ScanInv, ScanTyped
<1>7. SawNow'
  BY <1>1, <1>2, <1>3 DEF ScanInv, SawNow
<1>. QED BY <1>1, <1>3, <1>6, <1>7 DEF ScanInv, CacheSays

\* The first directory that has the id.
LEMMA FirstIs ==
  ASSUME NEW id
  PROVE  \/ FirstWith(id) = 0 /\ \A k \in DOMAIN DataDirs : ~There(<<DataDirs[k], id>>)
         \/ /\ FirstWith(id) \in DOMAIN DataDirs /\ There(<<DataDirs[FirstWith(id)], id>>)
            /\ \A k \in 1..(FirstWith(id) - 1) : k \in DOMAIN DataDirs /\ ~There(<<DataDirs[k], id>>)
<1>. DEFINE I == {k \in DOMAIN DataDirs : There(<<DataDirs[k], id>>)}
<1>1. DataDirs \in Seq(ToSet(DataDirs)) /\ Len(DataDirs) \in Nat /\ DOMAIN DataDirs = 1..Len(DataDirs)
  BY ScanAssumption
<1>2. CASE I = {}
  BY <1>2 DEF FirstWith
<1>3. CASE I # {}
  <2>1. I \in SUBSET Nat
    BY <1>1
  <2>2. Min(I) \in I /\ \A y \in I : Min(I) <= y
    <3>. HIDE DEF I
    <3>. QED BY <1>3, <2>1, MinIsLeast
  <2>3. FirstWith(id) = Min(I)
    BY <1>3 DEF FirstWith
  <2>4. PICK m \in I : m = Min(I) /\ \A y \in I : m <= y
    BY <2>2
  <2>5. \A k \in 1..(m - 1) : k \in DOMAIN DataDirs /\ k \notin I
    <3>1. I \subseteq 1..Len(DataDirs)
      BY <1>1
    <3>. HIDE DEF I
    <3>. QED BY <1>1, <2>4, <3>1
  <2>. QED BY <2>3, <2>4, <2>5
<1>. QED BY <1>2, <1>3

\* What the cache holds after a scan is what the directories say by precedence.
LEMMA ParsedIs ==
  ASSUME ScanTyped, NEW id \in FileIds
  PROVE  {e \in Expected(id) : e.text # "hidden"}
           = IF id \in DOMAIN Parsed THEN {Parsed[id]} ELSE {}
<1>. DEFINE k == FirstWith(id)
             d == DataDirs[k]
<1>0. DOMAIN DataDirs = 1..Len(DataDirs) /\ Len(DataDirs) \in Nat
  BY ScanAssumption
<1>1. \A j \in DOMAIN DataDirs : id \in IdsIn(DataDirs[j]) <=> There(<<DataDirs[j], id>>)
  BY DEF IdsIn, Says, There
<1>2. id \in DOMAIN Parsed <=> k # 0 /\ Says(d, id) # "hidden"
  BY DEF Parsed, Says
<1>3. id \in DOMAIN Parsed => Parsed[id] = [dir |-> d, text |-> Says(d, id)]
  BY <1>2 DEF Parsed, Says
<1>4. CASE k = 0
  <2>1. Expected(id) = {}
    <3>1. \A j \in DOMAIN DataDirs : id \notin IdsIn(DataDirs[j])
      <4>1. 0 \notin DOMAIN DataDirs
        BY <1>0
      <4>2. \A j \in DOMAIN DataDirs : ~There(<<DataDirs[j], id>>)
        BY <1>4, <4>1, FirstIs, Zenon
      <4>. QED BY <1>1, <4>2, Zenon
    <3>. QED BY <3>1 DEF Expected
  <2>. QED BY <1>2, <1>4, <2>1
<1>5. CASE k # 0
  <2>1. /\ k \in DOMAIN DataDirs /\ id \in IdsIn(d)
        /\ \A i \in 1..(k - 1) : i \in DOMAIN DataDirs /\ id \notin IdsIn(DataDirs[i])
    <3>. HIDE DEF k
    <3>1. k \in DOMAIN DataDirs /\ There(<<DataDirs[k], id>>)
          /\ \A i \in 1..(k - 1) : i \in DOMAIN DataDirs /\ ~There(<<DataDirs[i], id>>)
      BY <1>5, FirstIs DEF k
    <3>. QED BY <1>1, <3>1
  <2>. HIDE DEF k
  <2>2. \A j \in DOMAIN DataDirs :
           (id \in IdsIn(DataDirs[j]) /\ \A i \in 1..(j - 1) : id \notin IdsIn(DataDirs[i])) <=> j = k
    BY <1>0, <2>1
  <2>3. Expected(id) = {[dir |-> d, text |-> Says(d, id)]}
    BY <2>1, <2>2 DEF Expected
  <2>. QED BY <1>2, <1>3, <1>5, <2>3
<1>. QED BY <1>4, <1>5

\* Nothing changed: the scan saw just what the last one did.
LEMMA UnchangedSame ==
  ASSUME ScanTyped, scan.at = "parse", ~Changed
  PROVE  seen.dirs = scan.saw.dirs /\ seen.files = scan.saw.files
<1>. DEFINE new == scan.saw.files
            old == seen.files
<1>1. seen.dirs = scan.saw.dirs
  <2>1. scan.saw.dirs \in [AppDirs -> 0..writes]
    BY DEF ScanTyped
  <2>2. \A k \in AppDirs : k \in DOMAIN seen.dirs /\ seen.dirs[k] = scan.saw.dirs[k]
    BY <2>1 DEF Changed, Differ
  <2>3. CASE seen.dirs = NoPaths
    <3>1. seen.dirs = [k \in {} |-> 0] /\ DOMAIN seen.dirs = {}
      BY <2>3 DEF NoPaths
    <3>2. AppDirs = {}
      BY <2>2, <3>1
    <3>. QED BY <2>1, <3>1, <3>2
  <2>4. CASE seen.dirs \in [AppDirs -> 0..writes]
    BY <2>1, <2>2, <2>4
  <2>. QED BY <2>3, <2>4 DEF ScanTyped
<1>2. /\ DOMAIN new \subseteq Paths /\ new \in [DOMAIN new -> 0..writes]
      /\ DOMAIN old \subseteq Paths /\ old \in [DOMAIN old -> 0..writes]
  BY TimesAre DEF ScanTyped
<1>3. \A p \in DOMAIN new : p \in DOMAIN old /\ old[p] = new[p]
  BY DEF Changed, Differ
<1>4. Cardinality(DOMAIN old) = Cardinality(DOMAIN new)
  BY DEF Changed
<1>5. IsFiniteSet(DOMAIN old)
  <2>1. IsFiniteSet(AppDirs)
    <3>1. DataDirs \in [1..Len(DataDirs) -> ToSet(DataDirs)] /\ Len(DataDirs) \in Nat
      BY ScanAssumption
    <3>2. IsFiniteSet(1..Len(DataDirs))
      BY <3>1, FS_Interval
    <3>3. DataDirs \in Surjection(1..Len(DataDirs), AppDirs)
      BY <3>1 DEF Surjection, AppDirs, ToSet
    <3>. QED BY <3>2, <3>3, FS_Surjection
  <2>2. IsFiniteSet(Paths)
    BY <2>1, ScanAssumption, FS_Product DEF Paths
  <2>. QED BY <1>2, <2>2, FS_Subset
<1>6. DOMAIN new = DOMAIN old
  <2>1. DOMAIN new \subseteq DOMAIN old
    BY <1>3
  <2>. HIDE DEF new, old
  <2>. QED BY <1>4, <1>5, <2>1, FS_Subset
<1>7. old = new
  <2>. HIDE DEF new, old
  <2>. QED BY <1>2, <1>3, <1>6
<1>. QED BY <1>1, <1>7

\* A scan that nothing disturbed ends with the cache up to date.
LEMMA ParseLands ==
  ASSUME ScanInv, Parse, quiet
  PROVE  apps' = Parsed
<1>1. scan.at = "parse"
  BY DEF Parse
<1>2. CASE Changed
  BY <1>2 DEF Parse
<1>3. CASE ~Changed
  <2>1. seen.dirs = dirs /\ seen.files = Stats
    BY <1>1, <1>3, UnchangedSame DEF ScanInv, SawNow
  <2>. QED BY <1>3, <2>1 DEF Parse, ScanInv, CacheSays
<1>. QED BY <1>2, <1>3

LEMMA ParseKeeps ==
  ASSUME ScanInv, Parse
  PROVE  ScanInv'
<1>1. UNCHANGED <<files, dirs, writes, quiet>> /\ scan.at = "parse"
  BY DEF Parse, fileSystem
<1>2. scan' = Resting
  BY DEF Parse
<1>3. Stats' = Stats /\ Parsed' = Parsed
  BY <1>1, SameFiles
<1>4. \/ seen' = seen /\ apps' = apps
      \/ seen' = scan.saw /\ apps' = Parsed
  BY DEF Parse
<1>5. TimesOf(Paths)' = TimesOf(Paths)
  BY <1>1 DEF TimesOf, Paths, AppDirs
<1>6. /\ scan'.at = "rest"
      /\ scan' = [at |-> scan'.at, saw |-> [dirs |-> scan'.saw.dirs, files |-> scan'.saw.files]]
  BY <1>2 DEF Resting, Unscanned
<1>7. ScanTyped'
  <2>1. AppDirs' = AppDirs /\ Paths' = Paths /\ NoPaths' = NoPaths /\ Texts' = Texts
    BY DEF AppDirs, Paths, NoPaths, Texts
  <2>. QED BY <1>1, <1>4, <1>5, <1>6, <2>1 DEF ScanInv, ScanTyped
<1>8. SawNow'
  BY <1>6 DEF SawNow
<1>. QED BY <1>1, <1>3, <1>4, <1>7, <1>8 DEF ScanInv, CacheSays

LEMMA ScanInitHolds == ScanInit => ScanInv
<1>. SUFFICES ASSUME ScanInit PROVE ScanInv
  OBVIOUS
<1>. USE DEF ScanInit
<1>1. NoPaths \in TimesOf(Paths) /\ DOMAIN NoPaths = {}
  <2>1. NoPaths \in [{} -> 0..writes]
    BY DEF NoPaths
  <2>2. {} \in SUBSET Paths
    OBVIOUS
  <2>. QED BY <2>1, <2>2 DEF TimesOf
<1>2. /\ scan.at = "rest" /\ seen.dirs = NoPaths /\ seen.files = NoPaths
      /\ scan = [at |-> scan.at, saw |-> [dirs |-> scan.saw.dirs, files |-> scan.saw.files]]
  BY DEF Resting, Unscanned
<1>3. Absent \in [mtime : 0..writes, text : Texts \cup {"none"}] /\ Absent.text = "none"
  BY DEF Absent
<1>4. ScanTyped
  BY <1>1, <1>2, <1>3 DEF ScanTyped
<1>5. \A p \in Paths : ~There(p)
  BY <1>3 DEF There
<1>6. \A id \in FileIds : FirstWith(id) = 0
  BY <1>5, FirstIs DEF Paths, AppDirs, ToSet
<1>7. Parsed = NoPaths
  BY <1>6 DEF Parsed, NoPaths
<1>. QED BY <1>2, <1>4, <1>7 DEF ScanInv, SawNow, CacheSays

LEMMA ScanStep == ScanInv /\ [ScanNext]_scanVars => ScanInv'
<1>. SUFFICES ASSUME ScanInv, [ScanNext]_scanVars PROVE ScanInv'
  OBVIOUS
<1>1. CASE UNCHANGED scanVars
  <2>1. UNCHANGED <<files, dirs, writes, quiet, apps, seen, scan>>
    BY <1>1 DEF scanVars, fileSystem
  <2>2. Stats' = Stats /\ Parsed' = Parsed
    BY <2>1, SameFiles
  <2>3. TimesOf(Paths)' = TimesOf(Paths)
    BY <2>1 DEF TimesOf, Paths, AppDirs
  <2>4. AppDirs' = AppDirs /\ Paths' = Paths /\ NoPaths' = NoPaths /\ Texts' = Texts
    BY DEF AppDirs, Paths, NoPaths, Texts
  <2>. QED BY <2>1, <2>2, <2>3, <2>4 DEF ScanInv, ScanTyped, SawNow, CacheSays
<1>2. CASE ScanNext
  BY <1>2, WriteKeeps, RefreshKeeps, StatKeeps, ParseKeeps DEF ScanNext
<1>. QED BY <1>1, <1>2

\* The cache is up to date after a scan that no write disturbed, although it
\* parses only when a time is not the one that the last scan saw
\* (scanDesktopDirs): a file that came and went between two scans shows in the
\* time of its directory.
THEOREM ScansAreFresh == ScanSpec => Fresh
<1>1. ASSUME ScanInv, [ScanNext]_scanVars, scan.at = "parse", scan'.at = "rest", quiet, NEW id \in FileIds
      PROVE  {e \in Expected(id) : e.text # "hidden"} = IF id \in DOMAIN apps' THEN {apps'[id]} ELSE {}
  <2>1. Parse
    BY <1>1 DEF ScanNext, scanVars, Create, Edit, Delete, Refresh, StatFiles
  <2>. QED BY <1>1, <2>1, ParseLands, ParsedIs DEF ScanInv
<1>2. ASSUME ScanInv, [ScanNext]_scanVars
      PROVE  scan.at = "parse" /\ scan'.at = "rest" /\ quiet =>
               \A id \in FileIds :
                  {e \in Expected(id) : e.text # "hidden"} = IF id \in DOMAIN apps' THEN {apps'[id]} ELSE {}
  BY <1>1, <1>2
<1>. QED BY <1>2, ScanInitHolds, ScanStep, PTL DEF ScanSpec, Fresh
=============================================================================
