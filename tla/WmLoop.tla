------------------------------ MODULE WmLoop ------------------------------
(***************************************************************************)
(* The window manager's loop and those who post closures to it             *)
(* (pkg/wmx11: wm.go, scripting.go, ipc.go, pbui.go, builtin.go; the       *)
(* control-socket backend of pkg/jsmod/wmmod).  Post blocks while the      *)
(* channel `ops' is full, until w.ctx ends.  Four kinds of goroutine post: *)
(*   - a script in the process (ScriptBackend.onLoop), which gives up at   *)
(*     its deadline, but not while it is blocked in Post;                  *)
(*   - a connection of the control socket (serveIPC), one per call of a    *)
(*     remote script, which outlives a call that has given up;             *)
(*   - the broker client's reader, from its handlers;                      *)
(*   - a command that accepts objects off the loop (Sum, Describe, Swap).  *)
(*                                                                         *)
(* The desktop is a version number: the closure of a call makes a new one  *)
(* (an op, a theme, a change of focus, a command), or reads it, or is      *)
(* refused.                                                                *)
(* The broker is reduced to its accept session; Broker models the rest.    *)
(* Its frames to the window manager are not dropped here.                  *)
(***************************************************************************)
EXTENDS Naturals, Sequences, FiniteSets

CONSTANTS
  Scripts,      \* callers in the process
  Remotes,      \* callers through the control socket
  Cmds,         \* commands that accept
  AcceptsOf(_), \* how many objects a command accepts one after the other
  MaxCalls,     \* bound on the calls of a caller
  MaxSessions,  \* bound on the broker's accept sessions
  Bounds,       \* bounds of a behaviour: calls of each caller, sessions
  OpsCap,       \* capacity of `ops' (256 in the code)
  EarlySessions \* sessions may start before the handlers are installed

ASSUME LoopAssumption ==
    /\ Bounds \subseteq [calls : [Scripts \cup Remotes -> 0..MaxCalls], sessions : 0..MaxSessions]
    /\ MaxCalls \in Nat /\ MaxSessions \in Nat /\ OpsCap \in Nat \ {0}
    /\ EarlySessions \in BOOLEAN /\ Scripts \cap Remotes = {}
    /\ \A k \in Cmds : AcceptsOf(k) \in Nat \ {0}

VARIABLES
  bound,      \* the bounds of this behaviour
  phase,      \* "connecting" | "connected" | "boot" | "run" | "stopped"
  stopping,   \* w.ctx is done
  ops,        \* the channel of closures
  version,    \* of the desktop
  last,       \* history: caller -> the latest of its calls to run
  acked,      \* history: the latest version a caller has been told of
  calling,    \* caller -> its latest call
  job,        \* <<caller, n>> -> a call: where its closure is, the answer, the
              \* version acked when it began, whether it has returned
  brokerUp,   \* the broker is there
  held,       \* the broker's session: id (0 is none) and owner
  sessions,   \* sessions minted
  fromBroker, \* frames from the broker to the window manager
  reader,     \* closures the broker client's reader is posting, one at most
  accepting,  \* WM.accepting: a session, 0 for nil
  cancels,    \* sessions that goroutines of cancelAccept wait to see cancelled
  cmd         \* command -> [at, left]

boot == <<bound, phase, stopping>>
calls == <<calling, job, acked>>
desktop == <<version, last>>
broker == <<brokerUp, held, sessions>>
wm == <<accepting, cancels, cmd>>
loopVars == <<boot, ops, desktop, calls, broker, fromBroker, reader, wm>>

Callers == Scripts \cup Remotes
Calls == Callers \X (1..MaxCalls)
NoCall == [at |-> "none", ans |-> 0, floor |-> 0, back |-> "no"]
NoOne == [id |-> 0, owner |-> "other"]

Accepting(t, s) == [t |-> t, s |-> s]
Begins(at) ==
    /\ phase = at /\ stopping = (at = "stopped")
    /\ ops = <<>> /\ version = 0 /\ last = [c \in Callers |-> 0]
    /\ acked = 0 /\ calling = [c \in Callers |-> 0] /\ job = [x \in Calls |-> NoCall]
    /\ brokerUp = TRUE /\ held = NoOne /\ sessions = 0
    /\ fromBroker = <<>> /\ reader = <<>>
    /\ accepting = 0 /\ cancels = {}
    /\ cmd = [k \in Cmds |-> [at |-> "idle", left |-> 0]]
LoopInit == bound \in Bounds /\ Begins("connecting")
-----------------------------------------------------------------------------
(* Boot and end.                                                           *)

\* The handshake; without a broker the window manager runs alone.  A late
\* joiner is told of the pending session.
Connect ==
    /\ phase = "connecting"
    /\ \/ /\ brokerUp /\ phase' = "connected"
          /\ fromBroker' = IF held.id # 0 THEN <<Accepting("mode", held.id)>> ELSE <<>>
       \/ /\ ~brokerUp /\ phase' = "boot" /\ UNCHANGED fromBroker
    /\ UNCHANGED <<bound, stopping, ops, desktop, calls, broker, reader, wm>>
Install ==
    /\ phase = "connected" /\ phase' = "boot"
    /\ UNCHANGED <<bound, stopping, ops, desktop, calls, broker, fromBroker, reader, wm>>

\* OnReady starts the in-process script and does not wait for it.
MutReady ==
    /\ phase = "boot" /\ ops = <<>> /\ phase' = "run"
    /\ UNCHANGED <<bound, stopping, ops, desktop, calls, broker, fromBroker, reader, wm>>
Ready ==
    /\ phase = "boot" /\ phase' = "run"
    /\ UNCHANGED <<bound, stopping, ops, desktop, calls, broker, fromBroker, reader, wm>>

\* Shutdown() cancels w.ctx first; Run ends with it, or by itself when its own
\* context or the X connection ends.
Shutdown ==
    /\ phase = "run" /\ ~stopping /\ stopping' = TRUE
    /\ UNCHANGED <<bound, phase, ops, desktop, calls, broker, fromBroker, reader, wm>>
Exit ==
    /\ phase = "run" /\ phase' = "stopped" /\ stopping' = TRUE
    /\ UNCHANGED <<bound, ops, desktop, calls, broker, fromBroker, reader, wm>>
-----------------------------------------------------------------------------
(* Calls.                                                                  *)

\* Post: into the channel when it has room, or nowhere once w.ctx is done.
PostOp(fn) ==
    \/ Len(ops) < OpsCap /\ ops' = Append(ops, fn)
    \/ stopping /\ UNCHANGED ops

Latest(c) == <<c, calling[c]>>
Pending(c) == calling[c] # 0 /\ job[Latest(c)].back = "no"
\* A script makes one call at a time.
Call(c) ==
    /\ ~Pending(c) /\ calling[c] < bound.calls[c]
    /\ c \in Scripts => phase \in {"run", "stopped"}
    /\ calling' = [calling EXCEPT ![c] = @ + 1]
    /\ job' = [job EXCEPT ![<<c, calling[c] + 1>>] = [NoCall EXCEPT !.at = "post", !.floor = acked]]
    /\ UNCHANGED <<boot, ops, desktop, acked, broker, fromBroker, reader, wm>>
PostCall(x) ==
    /\ job[x].at = "post"
    /\ PostOp([t |-> "call", x |-> x])
    /\ job' = [job EXCEPT ![x].at = "queued"]
    /\ UNCHANGED <<boot, desktop, calling, acked, broker, fromBroker, reader, wm>>

MutReturn(c) ==
    \E n \in 1..calling[c] :
        /\ Pending(c) /\ job[<<c, n>>].at = "ran"
        /\ acked' = IF job[<<c, n>>].ans > acked THEN job[<<c, n>>].ans ELSE acked
        /\ job' = [job EXCEPT ![Latest(c)].back = "told", ![Latest(c)].ans = job[<<c, n>>].ans]
        /\ UNCHANGED <<boot, ops, desktop, calling, broker, fromBroker, reader, wm>>
\* The reply of the call's own done channel: a result, or the op's error.
Return(c) ==
    LET x == Latest(c) IN
    /\ Pending(c) /\ job[x].at = "ran"
    /\ acked' = IF job[x].ans > acked THEN job[x].ans ELSE acked
    /\ job' = [job EXCEPT ![x].back = "told"]
    /\ UNCHANGED <<boot, ops, desktop, calling, broker, fromBroker, reader, wm>>

GivesUp(c) ==
    /\ job' = [job EXCEPT ![Latest(c)].back = "gone"]
    /\ UNCHANGED <<boot, ops, desktop, calling, acked, broker, fromBroker, reader, wm>>
\* The deadline.  A call in the process is not looking while it is in Post; a
\* remote one is, and its connection carries on without it.
MutExpire(c) == Pending(c) /\ GivesUp(c)
Expire(c) ==
    /\ Pending(c)
    /\ c \in Remotes \/ job[Latest(c)].at # "post"
    /\ GivesUp(c)
\* "wm shutting down", from onLoop or as the connection's answer.
Stopped(c) == Pending(c) /\ stopping /\ job[Latest(c)].at # "post" /\ GivesUp(c)
-----------------------------------------------------------------------------
(* The loop.                                                               *)

\* What the closures do: read the desktop, change it, or refuse to.
Answers(x) ==
    /\ version' \in {version, version + 1}
    /\ last' = [last EXCEPT ![x[1]] = x[2]]
    /\ job' = [job EXCEPT ![x].at = "ran", ![x].ans = version']
    /\ UNCHANGED wm
ScriptMethod(x) == x[1] \in Scripts /\ Answers(x)
IPCRequest(x) == x[1] \in Remotes /\ Answers(x)
RunCall(x) == ScriptMethod(x) \/ IPCRequest(x)
Told(acc, fn) ==
    IF fn.t = "mode" THEN fn.s ELSE IF fn.t = "clear" /\ acc = fn.s THEN 0 ELSE acc
RunAccept(fn) ==
    /\ accepting' = Told(accepting, fn)
    /\ UNCHANGED <<desktop, job, cancels, cmd>>

MutRun ==
    /\ phase = "run" /\ ops # <<>> /\ cancels = {}
    /\ ops' = Tail(ops)
    /\ IF Head(ops).t = "call" THEN RunCall(Head(ops).x) ELSE RunAccept(Head(ops))
    /\ UNCHANGED <<boot, calling, acked, broker, fromBroker, reader>>
Run ==
    /\ phase = "run" /\ ops # <<>>
    /\ ops' = Tail(ops)
    /\ IF Head(ops).t = "call" THEN RunCall(Head(ops).x) ELSE RunAccept(Head(ops))
    /\ UNCHANGED <<boot, calling, acked, broker, fromBroker, reader>>

\* cancelAccept, on Escape, with no popup, menu or query in the way: a
\* goroutine asks the broker.
PressEscape ==
    /\ phase = "run" /\ accepting # 0
    /\ cancels' = cancels \cup {accepting}
    /\ UNCHANGED <<boot, ops, desktop, calls, broker, fromBroker, reader, accepting, cmd>>

\* A button of the listener tile, or the verb tile.swap-with.
Command(k) ==
    /\ phase = "run" /\ cmd[k].at = "idle" /\ sessions < bound.sessions
    /\ cmd' = [cmd EXCEPT ![k] = [at |-> "ask", left |-> AcceptsOf(k)]]
    /\ UNCHANGED <<boot, ops, desktop, calls, broker, fromBroker, reader, accepting, cancels>>
\* The goroutine has its objects and posts what to do with them.
CommandPosts(k) ==
    /\ cmd[k].at = "post"
    /\ PostOp([t |-> "done", k |-> k])
    /\ cmd' = [cmd EXCEPT ![k].at = "end"]
    /\ UNCHANGED <<boot, desktop, calls, broker, fromBroker, reader, accepting, cancels>>
-----------------------------------------------------------------------------
(* The broker.                                                             *)

Joined == phase # "connecting"
\* What the window manager is sent when the session ends.
Ending(got) ==
    IF held.id = 0 THEN <<>>
    ELSE (IF held.owner \in Cmds THEN <<[t |-> "result", k |-> held.owner, got |-> got]>> ELSE <<>>)
         \o <<Accepting("clear", held.id)>>
ToWM(frames) == fromBroker' = IF Joined THEN fromBroker \o frames ELSE fromBroker

\* accept.start, of another client or of a command: it supersedes.
Start(owner) ==
    /\ brokerUp /\ sessions < bound.sessions
    /\ EarlySessions \/ phase \notin {"connecting", "connected"}
    /\ owner \in Cmds => cmd[owner].at = "ask"
    /\ sessions' = sessions + 1
    /\ held' = [id |-> sessions + 1, owner |-> owner]
    /\ ToWM(Ending(FALSE) \o <<Accepting("mode", sessions + 1)>>)
    /\ cmd' = IF owner \in Cmds THEN [cmd EXCEPT ![owner].at = "wait"] ELSE cmd
    /\ UNCHANGED <<boot, ops, desktop, calls, brokerUp, reader, accepting, cancels>>
\* Another client answers or cancels, or its requester has gone.
Finish(got) ==
    /\ brokerUp /\ held.id # 0
    /\ held' = NoOne
    /\ ToWM(Ending(got))
    /\ UNCHANGED <<boot, ops, desktop, calls, brokerUp, sessions, reader, wm>>
\* accept.cancel of the window manager; "idempotent" when the session is over.
HandleCancel(s) ==
    /\ brokerUp /\ s \in cancels /\ \A j \in DOMAIN fromBroker : fromBroker[j] # Accepting("ok", s)
    /\ IF held.id = s
       THEN ToWM(Ending(FALSE) \o <<Accepting("ok", s)>>) /\ held' = NoOne
       ELSE ToWM(<<Accepting("ok", s)>>) /\ UNCHANGED held
    /\ UNCHANGED <<boot, ops, desktop, calls, brokerUp, sessions, reader, wm>>
BrokerDies ==
    /\ brokerUp /\ brokerUp' = FALSE /\ held' = NoOne
    /\ UNCHANGED <<boot, ops, desktop, calls, sessions, fromBroker, reader, wm>>
-----------------------------------------------------------------------------
(* The reader of the broker client.                                        *)

Installed == phase \notin {"connecting", "connected"}
Result(k, got) ==
    [cmd EXCEPT ![k] = IF ~got THEN [at |-> "end", left |-> 0]
                       ELSE [at |-> IF @.left = 1 THEN "post" ELSE "ask", left |-> @.left - 1]]
\* A reply goes to the goroutine that waits for it, a callback to its
\* handler, if it is installed by now.
ReadFrame ==
    LET m == Head(fromBroker) IN
    /\ reader = <<>> /\ fromBroker # <<>>
    /\ fromBroker' = Tail(fromBroker)
    /\ reader' = IF m.t \in {"mode", "clear"} /\ Installed THEN <<m>> ELSE <<>>
    /\ cmd' = IF m.t = "result" THEN Result(m.k, m.got) ELSE cmd
    /\ cancels' = IF m.t = "ok" THEN cancels \ {m.s} ELSE cancels
    /\ UNCHANGED <<boot, ops, desktop, calls, broker, accepting>>
MutReaderPosts ==
    /\ reader # <<>>
    /\ IF Len(ops) < OpsCap THEN ops' = Append(ops, reader[1]) ELSE UNCHANGED ops
    /\ reader' = <<>>
    /\ UNCHANGED <<boot, desktop, calls, broker, fromBroker, wm>>
ReaderPosts ==
    /\ reader # <<>>
    /\ PostOp(reader[1])
    /\ reader' = <<>>
    /\ UNCHANGED <<boot, desktop, calls, broker, fromBroker, wm>>
\* The connection has ended: what is pending fails.
MutSweep ==
    /\ ~brokerUp /\ fromBroker = <<>> /\ reader = <<>>
    /\ cancels' = {}
    /\ cancels' # cancels
    /\ UNCHANGED <<boot, ops, desktop, calls, broker, fromBroker, reader, accepting, cmd>>
Sweep ==
    /\ ~brokerUp /\ fromBroker = <<>> /\ reader = <<>>
    /\ cancels' = {}
    /\ cmd' = [k \in Cmds |-> IF cmd[k].at \in {"ask", "wait"} THEN [at |-> "end", left |-> 0] ELSE cmd[k]]
    /\ <<cancels', cmd'>> # <<cancels, cmd>>
    /\ UNCHANGED <<boot, ops, desktop, calls, broker, fromBroker, reader, accepting>>
-----------------------------------------------------------------------------
Boot == Connect \/ Install \/ Ready
Serve(c) == (\E n \in 1..MaxCalls : PostCall(<<c, n>>)) \/ Return(c) \/ Stopped(c)
Users ==
    \/ \E c \in Callers : Call(c) \/ Expire(c)
    \/ PressEscape \/ (\E k \in Cmds : Command(k))
    \/ Start("other") \/ (\E got \in BOOLEAN : Finish(got)) \/ BrokerDies
    \/ Shutdown
Asks == (\E k \in Cmds : Start(k)) \/ (\E s \in cancels : HandleCancel(s))
Reader == ReadFrame \/ ReaderPosts \/ Sweep
LoopNext ==
    \/ Boot \/ Exit \/ Run
    \/ \E c \in Callers : Serve(c)
    \/ \E k \in Cmds : CommandPosts(k)
    \/ Asks \/ Reader \/ Users

\* The loop and the goroutines run, and the broker answers while it lives;
\* deadlines, users and other clients need do nothing.
LoopFairness ==
    /\ WF_loopVars(Boot) /\ WF_loopVars(Run) /\ WF_loopVars(stopping /\ Exit)
    /\ \A x \in Calls : WF_loopVars(PostCall(x))
    /\ \A c \in Callers : WF_loopVars(Return(c)) /\ WF_loopVars(Stopped(c))
    /\ \A k \in Cmds : WF_loopVars(CommandPosts(k)) /\ WF_loopVars(Start(k))
    /\ \A s \in 1..MaxSessions : WF_loopVars(HandleCancel(s))
    /\ WF_loopVars(Reader)
LoopSpec == LoopInit /\ [][LoopNext]_loopVars /\ LoopFairness
-----------------------------------------------------------------------------
(* Properties.                                                             *)

LoopTypeOK ==
    /\ bound \in Bounds /\ phase \in {"connecting", "connected", "boot", "run", "stopped"}
    /\ stopping \in BOOLEAN /\ brokerUp \in BOOLEAN /\ Len(ops) <= OpsCap /\ Len(reader) <= 1
    /\ version \in Nat /\ acked \in 0..version
    /\ calling \in [Callers -> 0..MaxCalls] /\ last \in [Callers -> 0..MaxCalls]
    /\ job \in [Calls -> [at : {"none", "post", "queued", "ran"}, ans : 0..version, floor : 0..acked, back : {"no", "told", "gone"}]]
    /\ held.id \in 0..sessions /\ sessions \in 0..MaxSessions
    /\ accepting \in 0..sessions /\ cancels \subseteq 1..sessions
    /\ \A k \in Cmds : cmd[k].at \in {"idle", "ask", "wait", "post", "end"}

(***************************************************************************)
(* A call sees the desktop as of its own time: its answer is no older than *)
(* what anybody had been told when it began, though earlier calls of the   *)
(* caller may have timed out and been answered since.                      *)
(***************************************************************************)
AnswersCurrent == \A x \in Calls : job[x].back = "told" => job[x].ans >= job[x].floor

(***************************************************************************)
(* The calls of a script in the process run in their order, those included *)
(* that it was told had timed out; those of a remote one need not.         *)
(***************************************************************************)
ScriptsInOrder == [][\A c \in Scripts : last'[c] >= last[c]]_last
RemotesInOrder == [][\A c \in Remotes : last'[c] >= last[c]]_last

(***************************************************************************)
(* The window manager's accept mode is the broker's once it has heard and  *)
(* done what is on its way to it: nothing is lost, doubled or overtaken    *)
(* between the socket and the loop.                                        *)
(***************************************************************************)
Heard(v, q) == LET f[n \in 0..Len(q)] == IF n = 0 THEN v ELSE Told(f[n - 1], q[n]) IN f[Len(q)]
AcceptFollowsBroker ==
    (brokerUp /\ Installed /\ ~stopping) => Heard(Heard(Heard(accepting, ops), reader), fromBroker) = held.id

(***************************************************************************)
(* Every call returns without the help of its deadline: the loop runs it,  *)
(* or the window manager shuts down and says so.                           *)
(***************************************************************************)
CallsReturn == []<>(\A x \in Calls : job[x].at # "none" => job[x].back # "no")

(***************************************************************************)
(* Escape ends the accept it was pressed in, however full the loop's       *)
(* channel is: nobody waits on the loop while the loop waits on them.      *)
(***************************************************************************)
EscapeCancels == []<>(\A s \in cancels : accepting # s \/ ~brokerUp \/ stopping)

(***************************************************************************)
(* A command does not outlive its accept: when no session is pending, not  *)
(* even one that died with the broker, it ends or asks for the next (if    *)
(* the bound lets it).                                                     *)
(***************************************************************************)
Waits(k) == cmd[k].at \in {"wait", "post"} \/ (cmd[k].at = "ask" /\ sessions < bound.sessions)
CommandsEnd == []<>(\A k \in Cmds : Waits(k) => held.id # 0 \/ stopping)

(***************************************************************************)
(* Nobody waits on the loop while the loop waits on them: calls come back, *)
(* and accepts end for those who press Escape and for those who wait.      *)
(***************************************************************************)
NobodyWaits == CallsReturn /\ EscapeCancels /\ CommandsEnd

(***************************************************************************)
(* "accept.clear" ends accept mode: no accept mode without a broker, which *)
(* does not hold, because a broker that dies sends none.                   *)
(***************************************************************************)
AcceptEnds == (~brokerUp /\ fromBroker = <<>>) ~> (accepting = 0 \/ stopping)
=============================================================================
