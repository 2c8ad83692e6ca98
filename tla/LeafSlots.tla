----------------------------- MODULE LeafSlots -----------------------------
(***************************************************************************)
(* What the layout core promises, without the trees: every workspace is a  *)
(* non-empty row of tiles in traversal order (the order focus-next walks   *)
(* and new windows fill), each tile an id and an application slot.  The    *)
(* window manager keys its frames by tile id, so a tile that is moved keeps*)
(* its id, and a tile that no operation closed is still there.             *)
(***************************************************************************)
EXTENDS Naturals, Sequences, SequencesExt

CONSTANTS
  Ids,     \* tile ids
  WsIds,   \* workspace ids
  Apps     \* application slots

NoApp == ""      \* the launcher tile: an empty slot

VARIABLES
  slots,   \* workspace id -> sequence of tiles
  current  \* id of the current workspace

vars == <<slots, current>>

Tile == [id : Ids, app : Apps]
IdsOf(row) == {row[k].id : k \in DOMAIN row}
Used == UNION {IdsOf(slots[w]) : w \in DOMAIN slots}
Fresh == Ids \ Used
-----------------------------------------------------------------------------
Init ==
    \E w \in WsIds, id \in Ids, app \in Apps :
        /\ slots = [x \in {w} |-> <<[id |-> id, app |-> app]>>]
        /\ current = w

(***************************************************************************)
(* An operation is the set of the rows it may lead to: for the tile it     *)
(* addresses (the k-th of workspace w), its operands and the ids it mints. *)
(***************************************************************************)

\* The new tile follows the one that was split.
Split(w, k) == {[slots EXCEPT ![w] = InsertAt(@, k + 1, t)] : t \in [id : Fresh, app : Apps]}

\* The last tile of a workspace is never closed.
Close(w, k) == IF Len(slots[w]) > 1 THEN {[slots EXCEPT ![w] = RemoveAt(@, k)]} ELSE {}

SetApp(w, k) == {[slots EXCEPT ![w][k].app = app] : app \in Apps}

\* Apps trade places, tiles stay.
Swap(w, k) ==
    {[slots EXCEPT ![w][j].app = slots[w][k].app, ![w][k].app = slots[w][j].app]
        : j \in DOMAIN slots[w]}

\* The tile moves to another place of its workspace; nothing else moves.
Dock(w, k) ==
    {[slots EXCEPT ![w] = InsertAt(RemoveAt(@, k), j, slots[w][k])] : j \in DOMAIN slots[w]}

\* The tile moves behind some tile of workspace v.  A workspace that gives
\* its only tile away keeps a fresh launcher tile.
Leave(w, k) ==
    IF Len(slots[w]) > 1 THEN {RemoveAt(slots[w], k)}
                         ELSE {<<[id |-> id, app |-> NoApp]>> : id \in Fresh}
Move(w, k) ==
    UNION {{[slots EXCEPT ![w] = rest, ![v] = InsertAt(@, j + 1, slots[w][k])]
              : j \in DOMAIN slots[v], rest \in Leave(w, k)} : v \in DOMAIN slots \ {w}}

Rearranged == UNION {
    UNION {Split(w, k) \cup Close(w, k) \cup SetApp(w, k) \cup Swap(w, k) \cup Dock(w, k) \cup Move(w, k)
            : k \in DOMAIN slots[w]} : w \in DOMAIN slots}

\* A workspace comes with one tile, or as a copy: the same apps in the same
\* order under fresh tile ids.
Row(ids, apps) == [k \in DOMAIN ids |-> [id |-> ids[k], app |-> apps[k]]]
NewRows == {<<t>> : t \in [id : Fresh, app : Apps]}
CopiedRows(w) ==
    {Row(ids, [k \in DOMAIN slots[w] |-> slots[w][k].app])
        : ids \in {f \in [DOMAIN slots[w] -> Fresh] : IsInjective(f)}}
With(w, row) == [x \in DOMAIN slots \cup {w} |-> IF x = w THEN row ELSE slots[x]]
Without(w) == [x \in DOMAIN slots \ {w} |-> slots[x]]
-----------------------------------------------------------------------------
Rearrange ==
    /\ slots' \in Rearranged
    /\ UNCHANGED current

\* Add or clone: the new workspace becomes current.
Open ==
    /\ current' \in WsIds \ DOMAIN slots
    /\ slots' \in {With(current', row)
                     : row \in NewRows \cup UNION {CopiedRows(w) : w \in DOMAIN slots}}

\* The last workspace is never removed; removing the current one makes
\* another one current.
Drop(w) ==
    /\ DOMAIN slots # {w}
    /\ slots' = Without(w)
    /\ current' \in DOMAIN slots \ {w}
    /\ current # w => current' = current

Switch ==
    /\ current' \in DOMAIN slots
    /\ UNCHANGED slots

Next == Rearrange \/ Open \/ Switch \/ \E w \in DOMAIN slots : Drop(w)

Spec == Init /\ [][Next]_vars
=============================================================================
