------------------------------- MODULE Rules -------------------------------
(***************************************************************************)
(* Placement rules and layout recipes of scripts (pkg/jsmod/wmmod:         *)
(* rules.go, sugar.go).  A rule is a handler of window.managed on the      *)
(* drainer of the event fan; a recipe runs on a script's own loop.  Both   *)
(* read the desktop in one call to the window manager and act in the next  *)
(* ones; windows come and go in between, and so do other scripts.          *)
(*                                                                         *)
(* A call is atomic here; WmLoop models how it gets to the loop.  A        *)
(* workspace's tree is the row of its leaves, a recipe a split with an     *)
(* application in either leaf; ratios are left out.                        *)
(***************************************************************************)
EXTENDS Naturals, Sequences, FiniteSets, FiniteSetsExt, SequencesExt

CONSTANTS
  Windows,
  RuleFor(_),    \* window -> the workspace of the first rule that matches, or NoName
  NoName,
  RuleScripts,   \* scripts that build a recipe
  WantedBy(_),   \* the workspace a script builds it on
  FloatScripts,  \* scripts with float rules, one after the other
  MaxSpaces,     \* bound on the workspaces
  MaxMaps,       \* bound on the times each window is mapped
  MaxRuns,       \* bound on the runs of each script
  MaxFloats,     \* bound on the float rules of each script
  SlowCalls      \* a call may time out, applied or not

NoWin == 0
ASSUME RulesAssumption ==
    /\ IsFiniteSet(Windows) /\ NoWin \notin Windows /\ MaxSpaces \in Nat \ {0} /\ SlowCalls \in BOOLEAN
    /\ MaxMaps \in Nat /\ MaxRuns \in Nat /\ MaxFloats \in Nat

VARIABLES
  spaces,    \* workspaces: [name, row], row a sequence of leaves [id, app, win]
  cur,       \* the current one
  leaves,    \* leaf ids minted
  mapped,    \* window -> how often it was mapped
  managed,   \* window.managed events that the drainer has not handled: [leaf, win]
  engine,    \* the drainer in a rule's handler: [at, leaf, win, ws]
  errors,    \* windows for which the handler reported an error
  script,    \* script -> where it is in its recipe: [at, ws, leaf, new, runs]
  store,     \* script -> its float rules (ruleState.rules)
  push,      \* script -> the list it is sending, or {}
  inForce    \* the window manager's float rules: [by, n]

desktop == <<spaces, cur, leaves, mapped>>
rule == <<managed, engine, errors>>
floats == <<store, push, inForce>>
rulesVars == <<desktop, rule, script, floats>>

AutoName == "auto"
NoApp == ""
Leaf(id, what, win) == [id |-> id, app |-> what, win |-> win]
Fresh(row) == Len(row) = 1 /\ row[1].app = NoApp
Spaces == DOMAIN spaces
SpaceOf(leaf) == {i \in Spaces : \E k \in DOMAIN spaces[i].row : spaces[i].row[k].id = leaf}
LeafAt(leaf) ==
    LET row == spaces[CHOOSE i \in SpaceOf(leaf) : TRUE].row
    IN CHOOSE l \in ToSet(row) : l.id = leaf
Named(name) == {i \in Spaces : spaces[i].name = name}
HomeOf(win) == {i \in Spaces : \E k \in DOMAIN spaces[i].row : spaces[i].row[k].win = win}
Resting == [at |-> "rest", leaf |-> 0, win |-> NoWin, ws |-> 0]

RulesInit ==
    /\ spaces = <<[name |-> AutoName, row |-> <<Leaf(1, NoApp, NoWin)>>]>>
    /\ cur = 1 /\ leaves = 1 /\ mapped = [win \in Windows |-> 0]
    /\ managed = <<>> /\ engine = Resting /\ errors = {}
    /\ script = [s \in RuleScripts |-> [at |-> "rest", ws |-> 0, leaf |-> 0, new |-> 0, runs |-> 0]]
    /\ store = [s \in FloatScripts |-> 0] /\ push = [s \in FloatScripts |-> {}]
    /\ inForce = {}
-----------------------------------------------------------------------------
(* Ops, as functions of the row or rows they change.                       *)

Dropped(row, leaf) == RemoveFirstMatch(row, LAMBDA l : l.id = leaf)
Vacated(row, leaf) == IF Len(row) = 1 THEN <<Leaf(leaf, NoApp, NoWin)>> ELSE Dropped(row, leaf)
\* Into a fresh workspace in the place of its leaf.
Grafted(row, l) == IF Fresh(row) THEN <<l>> ELSE Append(row, l)
Halved(row, leaf, l) == InsertAt(row, SelectInSeq(row, LAMBDA m : m.id = leaf) + 1, l)
InRow(row, leaf, f(_)) == [k \in DOMAIN row |-> IF row[k].id = leaf THEN f(row[k]) ELSE row[k]]
SetRow(i, row) == spaces' = [spaces EXCEPT ![i].row = row]

OpAddWorkspace ==
    /\ Len(spaces) < MaxSpaces /\ leaves' = leaves + 1
    /\ spaces' = Append(spaces, [name |-> AutoName, row |-> <<Leaf(leaves', NoApp, NoWin)>>])
    /\ cur' = Len(spaces')
OpRenameWorkspace(i, name) == spaces' = [spaces EXCEPT ![i].name = name] /\ UNCHANGED <<cur, leaves>>

\* A lone leaf leaves a fresh one behind; the workspace it is in is refused.
CanMove(leaf, i) == SpaceOf(leaf) # {} /\ i \notin SpaceOf(leaf)
OpMoveLeaf(leaf, i) ==
    LET src == CHOOSE j \in SpaceOf(leaf) : TRUE
        row == spaces[src].row
    IN /\ CanMove(leaf, i)
       /\ leaves' = IF Len(row) = 1 THEN leaves + 1 ELSE leaves
       /\ spaces' = [spaces EXCEPT
                       ![src].row = IF Len(row) = 1 THEN <<Leaf(leaves', NoApp, NoWin)>> ELSE Dropped(row, leaf),
                       ![i].row = Grafted(@, LeafAt(leaf))]
       /\ UNCHANGED cur
-----------------------------------------------------------------------------
(* Windows, and the user.                                                  *)

\* Into an empty leaf of the current workspace, or a new one.
manage(win) ==
    /\ HomeOf(win) = {} /\ mapped[win] < MaxMaps /\ mapped' = [mapped EXCEPT ![win] = @ + 1]
    /\ LET row == spaces[cur].row
           k == SelectInSeq(row, LAMBDA l : l.app = NoApp)
           id == IF k # 0 THEN row[k].id ELSE leaves + 1
       IN /\ leaves' = IF k # 0 THEN leaves ELSE leaves + 1
          /\ SetRow(cur, IF k # 0 THEN InRow(row, id, LAMBDA l : Leaf(id, "win", win))
                         ELSE Append(row, Leaf(id, "win", win)))
          /\ managed' = Append(managed, [leaf |-> id, win |-> win])
    /\ UNCHANGED <<cur, engine, errors, script, floats>>
unmanage(win) ==
    /\ \E i \in HomeOf(win) :
         LET l == CHOOSE m \in ToSet(spaces[i].row) : m.win = win
         IN SetRow(i, Vacated(spaces[i].row, l.id))
    /\ UNCHANGED <<cur, leaves, mapped, rule, script, floats>>
SwitchTo ==
    /\ cur' \in Spaces \ {cur}
    /\ UNCHANGED <<spaces, leaves, mapped, rule, script, floats>>
-----------------------------------------------------------------------------
(* The handler of window.managed, one event after the other.               *)

At(at) == engine.at = at /\ UNCHANGED <<mapped, script, floats>>
EngineTo(at) == engine' = [engine EXCEPT !.at = at]
\* The handler ends with an error report: the first matching rule was its last.
Fails == engine' = Resting /\ errors' = errors \cup {engine.win} /\ UNCHANGED managed
TimesOut(applied) ==
    /\ SlowCalls /\ Fails
    /\ \/ applied
       \/ UNCHANGED <<spaces, cur, leaves>>

\* No rule matches, or the first that does has a workspace to look for.
Match ==
    /\ At("rest") /\ managed # <<>> /\ managed' = Tail(managed)
    /\ engine' = IF RuleFor(Head(managed).win) = NoName THEN Resting
                 ELSE [at |-> "tree", leaf |-> Head(managed).leaf, win |-> Head(managed).win, ws |-> 0]
    /\ UNCHANGED <<spaces, cur, leaves, errors>>

Looked(found) ==
    /\ engine' = IF found = {} THEN [engine EXCEPT !.at = "add"]
                 ELSE [engine EXCEPT !.at = "move", !.ws = Min(found)]
    /\ UNCHANGED <<spaces, cur, leaves, managed, errors>>
\* As if a workspace were found while it is the current one only.
MutTree == At("tree") /\ Looked(Named(RuleFor(engine.win)) \cap {cur})
Tree == At("tree") /\ Looked(Named(RuleFor(engine.win)))
Add ==
    /\ At("add")
    /\ \/ OpAddWorkspace /\ engine' = [engine EXCEPT !.at = "rename", !.ws = Len(spaces')]
          /\ UNCHANGED <<managed, errors>>
       \/ TimesOut(OpAddWorkspace)
\* As if the window that made the workspace were already there.
MutRename ==
    /\ At("rename") /\ OpRenameWorkspace(engine.ws, RuleFor(engine.win))
    /\ engine' = Resting /\ UNCHANGED <<managed, errors>>
Rename ==
    /\ At("rename")
    /\ LET op == OpRenameWorkspace(engine.ws, RuleFor(engine.win))
       IN \/ op /\ EngineTo("move") /\ UNCHANGED <<managed, errors>>
          \/ TimesOut(op)
\* By leaf, whoever is in it now.
Move ==
    /\ At("move")
    /\ LET op == OpMoveLeaf(engine.leaf, engine.ws)
       IN \/ op /\ engine' = Resting /\ UNCHANGED <<managed, errors>>
          \/ TimesOut(op)
          \/ ~CanMove(engine.leaf, engine.ws) /\ Fails /\ UNCHANGED <<spaces, cur, leaves>>
Handler == Match \/ Tree \/ Add \/ Rename \/ Move
-----------------------------------------------------------------------------
(* wm.workspace(name).apply(layout) in a script.                           *)

ScriptAt(s, at) == script[s].at = at /\ UNCHANGED <<mapped, rule, floats>>
ScriptTo(s, r) == script' = [script EXCEPT ![s] = r]
Advance(s, at) == [script[s] EXCEPT !.at = at]

workspaceObj(s) ==
    /\ ScriptAt(s, "rest") /\ script[s].runs < MaxRuns
    /\ LET found == Named(WantedBy(s))
           r == [script[s] EXCEPT !.runs = @ + 1]
       IN ScriptTo(s, IF found = {} THEN [r EXCEPT !.at = "add"]
                      ELSE [r EXCEPT !.at = "check", !.ws = Min(found)])
    /\ UNCHANGED <<spaces, cur, leaves>>
ScriptAdd(s) ==
    /\ ScriptAt(s, "add") /\ OpAddWorkspace
    /\ ScriptTo(s, [Advance(s, "rename") EXCEPT !.ws = Len(spaces')])
ScriptRename(s) ==
    /\ ScriptAt(s, "rename") /\ OpRenameWorkspace(script[s].ws, WantedBy(s))
    /\ ScriptTo(s, Advance(s, "check"))

\* applyLayout: on a fresh workspace only, as it was when it looked.
MutApplyLayout(s) ==
    /\ ScriptAt(s, "check") /\ UNCHANGED <<spaces, cur, leaves>>
    /\ LET row == spaces[script[s].ws].row
       IN ScriptTo(s, IF row[1].win = NoWin THEN [Advance(s, "split") EXCEPT !.leaf = row[1].id]
                      ELSE Advance(s, "rest"))
applyLayout(s) ==
    /\ ScriptAt(s, "check") /\ UNCHANGED <<spaces, cur, leaves>>
    /\ LET row == spaces[script[s].ws].row
       IN ScriptTo(s, IF Fresh(row) THEN [Advance(s, "split") EXCEPT !.leaf = row[1].id]
                      ELSE Advance(s, "rest"))

\* An op whose leaf is gone throws: the rest of the recipe is not built.
OnLeaf(s, leaf, f(_), r) ==
    IF SpaceOf(leaf) # {}
    THEN /\ \E i \in SpaceOf(leaf) : SetRow(i, f(spaces[i].row))
         /\ ScriptTo(s, r) /\ UNCHANGED cur
    ELSE ScriptTo(s, Advance(s, "rest")) /\ UNCHANGED <<spaces, cur>>
ScriptSplit(s) ==
    /\ ScriptAt(s, "split") /\ leaves' = leaves + 1
    /\ OnLeaf(s, script[s].leaf, LAMBDA row : Halved(row, script[s].leaf, Leaf(leaves', NoApp, NoWin)),
              [Advance(s, "left") EXCEPT !.new = leaves'])
SetApp(row, leaf, what) == InRow(row, leaf, LAMBDA l : [l EXCEPT !.app = what])
SetLeft(s) ==
    /\ ScriptAt(s, "left") /\ UNCHANGED leaves
    /\ OnLeaf(s, script[s].leaf, LAMBDA row : SetApp(row, script[s].leaf, "left"), Advance(s, "right"))
SetRight(s) ==
    /\ ScriptAt(s, "right") /\ UNCHANGED leaves
    /\ OnLeaf(s, script[s].new, LAMBDA row : SetApp(row, script[s].new, "right"), Advance(s, "rest"))
Recipe(s) ==
    \/ workspaceObj(s) \/ ScriptAdd(s) \/ ScriptRename(s) \/ applyLayout(s)
    \/ ScriptSplit(s) \/ SetLeft(s) \/ SetRight(s)
-----------------------------------------------------------------------------
(* Float rules: stored under the lock, sent after it, the whole list.      *)

FloatRule(s) ==
    /\ push[s] = {} /\ store[s] < MaxFloats
    /\ store' = [store EXCEPT ![s] = @ + 1]
    /\ push' = [push EXCEPT ![s] = {[by |-> s, n |-> n] : n \in 1..store'[s]}]
    /\ UNCHANGED <<desktop, rule, script, inForce>>
MutSetFloatRules(s) ==
    /\ push[s] # {} /\ inForce' = {[by |-> s, n |-> store[s]]}
    /\ push' = [push EXCEPT ![s] = {}]
    /\ UNCHANGED <<desktop, rule, script, store>>
SetFloatRules(s) ==
    /\ push[s] # {} /\ inForce' = push[s]
    /\ push' = [push EXCEPT ![s] = {}]
    /\ UNCHANGED <<desktop, rule, script, store>>

PlacementNext ==
    \/ \E win \in Windows : manage(win) \/ unmanage(win)
    \/ SwitchTo \/ Handler
    \/ \E s \in RuleScripts : Recipe(s)
FloatsNext == \E s \in FloatScripts : FloatRule(s) \/ SetFloatRules(s)
RulesNext == PlacementNext \/ FloatsNext

RulesSpec == RulesInit /\ [][RulesNext]_rulesVars
-----------------------------------------------------------------------------
(* Properties.                                                             *)

(***************************************************************************)
(* "Resolves a workspace by name, creating (and naming) it when absent":   *)
(* there are never two of a name, whatever is mapped while the handler     *)
(* looks and wherever a call timed out.  Holds while one goroutine ensures *)
(* a name; a script that wants the rules' workspace makes a second one.    *)
(***************************************************************************)
NamesUnique == \A i, j \in Spaces : i # j /\ spaces[i].name = spaces[j].name => spaces[i].name = AutoName

(***************************************************************************)
(* "Layout recipes are idempotent": the same script run again builds       *)
(* nothing a second time, whatever windows come and go in between.  Not so *)
(* once a rule has moved a leaf that the recipe was about to split.        *)
(***************************************************************************)
BuiltOnce ==
    (\A win \in Windows : RuleFor(win) # NoName => mapped[win] = 0) =>
    \A i \in Spaces : Cardinality({k \in DOMAIN spaces[i].row : spaces[i].row[k].app = "right"}) <= 1

(***************************************************************************)
(* Nothing is made twice, neither workspaces nor what is on them.          *)
(***************************************************************************)
NothingTwice == NamesUnique /\ BuiltOnce

(***************************************************************************)
(* When the drainer has handled every window.managed, each window that a   *)
(* rule matches is in the rule's workspace, unless an error was reported   *)
(* for it: windows that come while a handler looks, makes and moves, or    *)
(* leave, confuse no later one.                                            *)
(***************************************************************************)
RulesSettle ==
    (managed = <<>> /\ engine = Resting) =>
        \A win \in {w \in Windows : RuleFor(w) # NoName} \ errors : HomeOf(win) \subseteq Named(RuleFor(win))

(***************************************************************************)
(* wm.rule with a float override returns when it is in force, and there it *)
(* stays: "the WM evaluates them at map time".  Holds for the rules of one *)
(* script; the list of a second one replaces the list of the first.        *)
(***************************************************************************)
FloatsInForce ==
    \A s \in FloatScripts : push[s] = {} => \A n \in 1..store[s] : [by |-> s, n |-> n] \in inForce

(***************************************************************************)
(* What a script's rules say of placement and of floating is so, once the  *)
(* calls of the script and of the rule's handler have come back.           *)
(***************************************************************************)
RulesHold == RulesSettle /\ FloatsInForce

(***************************************************************************)
(* "Only fresh workspaces (single empty leaf) are built": a recipe never   *)
(* sets the application of a leaf that has a window.                       *)
(***************************************************************************)
RecipesSpareWindows == \A i \in Spaces : \A k \in DOMAIN spaces[i].row :
    spaces[i].row[k].win # NoWin => spaces[i].row[k].app = "win"

(***************************************************************************)
(* A rule moves the window that it matched, no other.                      *)
(***************************************************************************)
RulesMoveTheirs ==
    [][\A win \in Windows : HomeOf(win) # {} /\ HomeOf(win)' # {} /\ HomeOf(win)' # HomeOf(win)
         => engine.win = win]_rulesVars
=============================================================================
