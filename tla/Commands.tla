----------------------------- MODULE Commands -----------------------------
(***************************************************************************)
(* Commands that scripts add to the launcher and the way of a launch back  *)
(* to its script (pkg/wmx11/launcher.go, builtin.go, scripting.go,         *)
(* pkg/jsmod/wmmod/module.go).                                             *)
(*                                                                         *)
(* A script in the process of the window manager registers by a closure on *)
(* the loop and is called directly.  A daemon, a process of its own,       *)
(* stores the callback, subscribes to command.invoke, and asks the window  *)
(* manager over the control socket for an entry; a launch is an event on   *)
(* the broker's bus; the entry is dropped at the event that says the       *)
(* daemon's broker client is gone.  The two ways to the window manager     *)
(* know nothing of each other.                                             *)
(*                                                                         *)
(* The bus is reduced to what these events need and drops none; EventFan   *)
(* and BrokerServe model the queues.                                       *)
(***************************************************************************)
EXTENDS Naturals, Sequences, FiniteSets, SequencesExt

CONSTANTS
  Daemons,      \* processes with a broker client
  NameOf(_),    \* the name of a daemon's broker client
  Rc,           \* the script in the window manager's process
  CmdIds,
  MaxRegs,      \* bound on the registrations
  MaxLaunches,  \* bound on the launches
  PumpFails,    \* the broker may be too slow for the first subscription
  SlowSocket    \* a call over the control socket may time out

ASSUME CommandsAssumption ==
    /\ Rc \notin {NameOf(d) : d \in Daemons} /\ Rc \notin Daemons
    /\ MaxRegs \in Nat /\ MaxLaunches \in Nat
    /\ PumpFails \in BOOLEAN /\ SlowSocket \in BOOLEAN

VARIABLES
  locals,    \* scriptCommands and scriptCmdDefs: ids of the script in the process
  remotes,   \* remoteCmds: entries of daemons, with their owner's name
  static,    \* the registry's script commands
  rows,      \* rows of the popup, a copy; {} when it is closed
  up,        \* daemons that live
  regs,      \* registrations begun
  reg,       \* daemon -> its call of wm.command: [at, id]
  fires,     \* daemon -> ids with a callback (remoteFires)
  handlers,  \* daemon -> handlers it has on command.invoke
  pump,      \* daemon -> "none" | "on" | "failed": what its event fan does
  requests,  \* register-command requests the loop has not handled: <<daemon, id>>
  goneq,     \* client.disconnected events the loop has not handled
  launched,  \* history: launches, each [id, by]: whom it was dispatched to
  emits,     \* launches whose goroutine has not emitted command.invoke yet
  inbox,     \* daemon -> launches in the command.invoke events that it got
  ran        \* history: <<launch, script>> for each callback that ran

registry == <<locals, remotes, static>>
daemon == <<up, regs, reg, fires, handlers, pump>>
flight == <<requests, goneq>>
launch == <<launched, emits, inbox, ran>>
commandsVars == <<registry, rows, daemon, flight, launch>>

Names == {NameOf(d) : d \in Daemons}
Entries == [id : CmdIds, by : Names \cup {Rc}]
Entry(id, by) == [id |-> id, by |-> by]
Idle == [at |-> "idle", id |-> CHOOSE id \in CmdIds : TRUE]

CommandsInit ==
    /\ locals = {} /\ remotes = {} /\ static = {} /\ rows = {}
    /\ up = Daemons /\ regs = 0
    /\ reg = [d \in Daemons |-> Idle]
    /\ fires = [d \in Daemons |-> {}] /\ handlers = [d \in Daemons |-> 0]
    /\ pump = [d \in Daemons |-> "none"]
    /\ requests = {} /\ goneq = {}
    /\ launched = <<>> /\ emits = {} /\ inbox = [d \in Daemons |-> <<>>] /\ ran = <<>>
-----------------------------------------------------------------------------
(* The registry's copy, made anew after each change.                       *)
syncScriptCommands(loc, rem) == {Entry(id, Rc) : id \in loc} \cup rem

RegisterCommand(id) ==
    /\ regs < MaxRegs /\ regs' = regs + 1
    /\ locals' = locals \cup {id}
    /\ static' = syncScriptCommands(locals', remotes)
    /\ UNCHANGED <<remotes, rows, up, reg, fires, handlers, pump, flight, launch>>
-----------------------------------------------------------------------------
(* A daemon's wm.command.                                                  *)

At(d, at) == d \in up /\ reg[d].at = at
\* The callback is there before the entry is.
jsCommand(d, id) ==
    /\ At(d, "idle") /\ regs < MaxRegs /\ regs' = regs + 1
    /\ fires' = [fires EXCEPT ![d] = @ \cup {id}]
    /\ reg' = [reg EXCEPT ![d] = [at |-> "subscribe", id |-> id]]
    /\ UNCHANGED <<registry, rows, up, handlers, pump, flight, launch>>

\* cmdSubOnce; the error of EnsurePump is ignored, and pumpOnce is spent.
MutSubscribe(d) ==
    /\ At(d, "subscribe")
    /\ handlers' = [handlers EXCEPT ![d] = 1]
    /\ reg' = [reg EXCEPT ![d].at = "send"]
    /\ UNCHANGED <<registry, rows, up, regs, fires, pump, flight, launch>>
Subscribe(d) ==
    /\ At(d, "subscribe")
    /\ IF handlers[d] = 0
       THEN /\ handlers' = [handlers EXCEPT ![d] = 1]
            /\ \/ pump' = [pump EXCEPT ![d] = "on"]
               \/ PumpFails /\ pump' = [pump EXCEPT ![d] = "failed"]
       ELSE UNCHANGED <<handlers, pump>>
    /\ reg' = [reg EXCEPT ![d].at = "send"]
    /\ UNCHANGED <<registry, rows, up, regs, fires, flight, launch>>

Send(d) ==
    /\ At(d, "send")
    /\ requests' = requests \cup {<<d, reg[d].id>>}
    /\ reg' = [reg EXCEPT ![d].at = "sent"]
    /\ UNCHANGED <<registry, rows, up, regs, fires, handlers, pump, goneq, launch>>

\* wm.command throws at its deadline; the request is still queued.
GiveUp(d) ==
    /\ SlowSocket /\ At(d, "sent") /\ reg' = [reg EXCEPT ![d].at = "idle"]
    /\ UNCHANGED <<registry, rows, up, regs, fires, handlers, pump, flight, launch>>

\* On the loop: the entry replaces one of the same id, whoever owns that.
registerRemoteCommand(d, id) ==
    /\ <<d, id>> \in requests /\ requests' = requests \ {<<d, id>>}
    /\ remotes' = {e \in remotes : e.id # id} \cup {Entry(id, NameOf(d))}
    /\ static' = syncScriptCommands(locals, remotes')
    /\ reg' = IF reg[d].at = "sent" /\ reg[d].id = id THEN [reg EXCEPT ![d].at = "idle"] ELSE reg
    /\ UNCHANGED <<locals, rows, up, regs, fires, handlers, pump, goneq, launch>>
-----------------------------------------------------------------------------
(* The end of a daemon.                                                    *)

Die(d) ==
    /\ d \in up /\ up' = up \ {d}
    /\ inbox' = [inbox EXCEPT ![d] = <<>>]
    /\ goneq' = goneq \cup {d}
    /\ UNCHANGED <<registry, rows, regs, reg, fires, handlers, pump, requests, launched, emits, ran>>

\* The event on the window manager's loop; entries are found by name.
MutDropRemoteCommands(d) ==
    /\ d \in goneq /\ goneq' = goneq \ {d}
    /\ remotes' = {e \in remotes : e.by # NameOf(d)}
    /\ UNCHANGED <<locals, static, rows, daemon, requests, launch>>
MutDropAll(d) ==
    /\ d \in goneq /\ goneq' = goneq \ {d}
    /\ remotes' = {}
    /\ static' = syncScriptCommands(locals, remotes')
    /\ UNCHANGED <<locals, rows, daemon, requests, launch>>
dropRemoteCommands(d) ==
    /\ d \in goneq /\ goneq' = goneq \ {d}
    /\ remotes' = {e \in remotes : e.by # NameOf(d)}
    /\ static' = syncScriptCommands(locals, remotes')
    /\ UNCHANGED <<locals, rows, daemon, requests, launch>>
-----------------------------------------------------------------------------
(* Launches.                                                               *)

ShowRows ==
    /\ rows = {} /\ rows' = static /\ rows' # {}
    /\ UNCHANGED <<registry, daemon, flight, launch>>
HideRows ==
    /\ rows # {} /\ rows' = {}
    /\ UNCHANGED <<registry, daemon, flight, launch>>

\* By id: the script in the process first.  Nobody may be left to serve a row.
ServerOf(id) ==
    IF id \in locals THEN {Rc} ELSE {e.by : e \in {f \in remotes : f.id = id}}
dispatchScriptCommand(id) ==
    /\ Len(launched) < MaxLaunches
    /\ launched' = Append(launched, [id |-> id, by |-> ServerOf(id)])
    /\ ran' = IF Rc \in ServerOf(id) THEN Append(ran, <<Len(launched'), Rc>>) ELSE ran
    /\ emits' = IF ServerOf(id) \subseteq {Rc} THEN emits ELSE emits \cup {Len(launched')}
    /\ UNCHANGED <<registry, daemon, flight, inbox>>
ActivateRow ==
    \E e \in rows : rows' = {} /\ dispatchScriptCommand(e.id)
\* wm.launch, over the socket or in the process, and the launch verb.
launchTarget(id) ==
    /\ \E e \in static : e.id = id
    /\ dispatchScriptCommand(id) /\ UNCHANGED rows

\* The goroutine of emitEvent; the broker sends to those who have subscribed.
emitEvent(n) ==
    /\ n \in emits /\ emits' = emits \ {n}
    /\ inbox' = [d \in Daemons |->
                   IF d \in up /\ pump[d] = "on" THEN Append(inbox[d], n) ELSE inbox[d]]
    /\ UNCHANGED <<registry, rows, daemon, flight, launched, ran>>

\* The handlers look for their own name in the event, then for the callback.
Runs(d, n) == [k \in 1..handlers[d] |-> <<n, d>>]
MutInvoke(d) ==
    /\ inbox[d] # <<>> /\ inbox' = [inbox EXCEPT ![d] = Tail(@)]
    /\ LET n == Head(inbox[d])
       IN ran' = IF launched[n].id \in fires[d] THEN ran \o Runs(d, n) ELSE ran
    /\ UNCHANGED <<registry, rows, daemon, flight, launched, emits>>
Invoke(d) ==
    /\ inbox[d] # <<>> /\ inbox' = [inbox EXCEPT ![d] = Tail(@)]
    /\ LET n == Head(inbox[d])
       IN ran' = IF NameOf(d) \in launched[n].by /\ launched[n].id \in fires[d]
                 THEN ran \o Runs(d, n) ELSE ran
    /\ UNCHANGED <<registry, rows, daemon, flight, launched, emits>>

Loop == (\E r \in requests : registerRemoteCommand(r[1], r[2])) \/ \E d \in Daemons : dropRemoteCommands(d)
Registering(d) == Subscribe(d) \/ Send(d)
CommandsNext ==
    \/ Loop \/ ShowRows \/ HideRows \/ ActivateRow
    \/ \E id \in CmdIds : RegisterCommand(id) \/ launchTarget(id)
    \/ \E d \in Daemons :
         \/ Registering(d) \/ GiveUp(d) \/ Die(d) \/ Invoke(d)
         \/ \E id \in CmdIds : jsCommand(d, id)
    \/ \E n \in emits : emitEvent(n)

\* The loop and the goroutines run; nobody need register, launch or die.
CommandsFairness ==
    /\ \A d \in Daemons :
         /\ \A id \in CmdIds : WF_commandsVars(registerRemoteCommand(d, id))
         /\ WF_commandsVars(dropRemoteCommands(d))
         /\ WF_commandsVars(Registering(d)) /\ WF_commandsVars(Invoke(d))
    /\ \A n \in 1..MaxLaunches : WF_commandsVars(emitEvent(n))
CommandsSpec == CommandsInit /\ [][CommandsNext]_commandsVars /\ CommandsFairness
-----------------------------------------------------------------------------
(* Properties.                                                             *)

(***************************************************************************)
(* A launch runs at most once, in the script that served the command when  *)
(* it was launched: not in another daemon that had the id before, nor      *)
(* twice in one that registered twice.                                     *)
(***************************************************************************)
FiresOnce ==
    /\ IsInjective(ran)
    /\ \A k \in DOMAIN ran :
         LET n == ran[k][1] r == ran[k][2]
         IN (IF r = Rc THEN Rc ELSE NameOf(r)) \in launched[n].by

(***************************************************************************)
(* A launch that was dispatched to a daemon runs there unless the daemon   *)
(* dies: callback and subscription are in place before the entry is.  A    *)
(* pump that could not start is the exception (PumpFails).                 *)
(***************************************************************************)
LaunchFires ==
    []<>(\A d \in Daemons, n \in DOMAIN launched :
            NameOf(d) \in launched[n].by => <<n, d>> \in Range(ran) \/ d \notin up \/ pump[d] = "failed")

(***************************************************************************)
(* "The entry dies with the daemon's broker connection": a daemon that is  *)
(* gone has no entry in the registry from some time on, if no request of   *)
(* it is under way while the event that tells of its end is                *)
(* (LateEntriesDie says it without the exception).                         *)
(***************************************************************************)
Listed(d) == \E e \in static : e.by = NameOf(d)
Asking(d) == \E id \in CmdIds : <<d, id>> \in requests
EntriesDie == \A d \in Daemons : (d \in goneq /\ ~Asking(d)) ~> [](~Listed(d))
LateEntriesDie == \A d \in Daemons : (d \notin up) ~> [](~Listed(d))

(***************************************************************************)
(* The entry of a daemon that lives stays until one of the same id         *)
(* replaces it: no other daemon's end takes it along, and what the         *)
(* launcher shows of it is what a launch uses.                             *)
(***************************************************************************)
LiveEntriesStay ==
    [][\A d \in up' : \A id \in CmdIds :
         LET e == Entry(id, NameOf(d))
         IN e \in static => e \in static' \/ \E f \in static' : f.id = id]_commandsVars
=============================================================================
