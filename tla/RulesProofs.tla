---------------------------- MODULE RulesProofs -----------------------------
(***************************************************************************)
(* Proofs about Rules, for any windows, scripts, workspaces and bounds:    *)
(* what rules say of placement and floats is so once the calls are back,   *)
(* and nothing is made twice.                                              *)
(*                                                                         *)
(* The heart of the first is Claims: of a window with a rule, the last     *)
(* event about its leaf that the drainer has not finished is its own, or   *)
(* it is where the rule wants it, or an error was reported for it.         *)
(***************************************************************************)
EXTENDS Rules, Integers, SequenceTheorems, FiniteSetTheorems, WellFoundedInduction, TLAPS

LEMMA LeastNat ==
  ASSUME NEW S \in SUBSET Nat, S # {}
  PROVE  Min(S) \in S /\ \A n \in S : Min(S) <= n
<1>1. PICK x \in S : \A y \in S : ~(<<y, x>> \in OpToRel(<, Nat))
  <2>1. IsWellFoundedOn(OpToRel(<, Nat), Nat)
    BY NatLessThanWellFounded
  <2>. HIDE DEF OpToRel
  <2>. QED BY <2>1, WFMin
<1>2. \A y \in S : x <= y
  <2>1. \A y \in S : ~(y < x)
    BY <1>1 DEF OpToRel
  <2>. QED BY <2>1
<1>. QED BY <1>2 DEF Min

-----------------------------------------------------------------------------
(* Rows of leaves.                                                         *)

Apps == {NoApp, "win", "left", "right"}
LeafRecs == [id : Nat, app : Apps, win : Windows \cup {NoWin}]
Ids(row) == {row[k].id : k \in DOMAIN row}
Distinct(row) == \A k, m \in DOMAIN row : row[k].id = row[m].id => k = m
Row(row) == row \in Seq(LeafRecs) /\ row # <<>> /\ Distinct(row)

LEMMA OneLeaf ==
  ASSUME NEW l \in LeafRecs
  PROVE  Row(<<l>>) /\ ToSet(<<l>>) = {l} /\ Ids(<<l>>) = {l.id} /\ Len(<<l>>) = 1 /\ <<l>>[1] = l
<1>1. <<l>> \in Seq(LeafRecs) /\ DOMAIN <<l>> = {1} /\ <<l>>[1] = l /\ Len(<<l>>) = 1 /\ <<l>> # <<>>
  OBVIOUS
<1>. QED BY <1>1 DEF Row, Distinct, ToSet, Ids

LEMMA IdsOfSet == \A row : Ids(row) = {l.id : l \in ToSet(row)}
BY DEF Ids, ToSet

LEMMA IdsNat ==
  ASSUME NEW row, Row(row)
  PROVE  /\ Ids(row) \subseteq Nat
         /\ \A k \in DOMAIN row : row[k] \in LeafRecs /\ row[k].id \in Ids(row)
<1>1. \A k \in DOMAIN row : row[k] \in LeafRecs
  BY DEF Row
<1>2. \A k \in DOMAIN row : row[k].id \in Nat
  BY <1>1 DEF LeafRecs
<1>. QED BY <1>1, <1>2 DEF Ids

\* A new leaf at the end.
LEMMA AppendLeaf ==
  ASSUME NEW row, Row(row), NEW l \in LeafRecs, l.id \notin Ids(row)
  PROVE  Row(Append(row, l)) /\ ToSet(Append(row, l)) = ToSet(row) \cup {l}
<1>1. PICK t : t = Append(row, l)
  OBVIOUS
<1>2. PICK n : n = Len(row) + 1
  OBVIOUS
<1>3. /\ t \in Seq(LeafRecs) /\ DOMAIN t = DOMAIN row \cup {n} /\ n \notin DOMAIN row
      /\ t[n] = l /\ \A k \in DOMAIN row : t[k] = row[k]
  BY <1>1, <1>2 DEF Row
<1>4. ToSet(t) = ToSet(row) \cup {l}
  <2>1. ASSUME NEW k \in DOMAIN t PROVE t[k] \in ToSet(row) \cup {l}
    BY <1>3 DEF ToSet
  <2>2. l \in ToSet(t) /\ \A k \in DOMAIN row : row[k] \in ToSet(t)
    BY <1>3 DEF ToSet
  <2>. QED BY <2>1, <2>2 DEF ToSet
<1>5. Distinct(t)
  BY <1>3 DEF Distinct, Row, Ids
<1>6. t # <<>>
  BY <1>3
<1>. QED BY <1>1, <1>3, <1>4, <1>5, <1>6 DEF Row

\* What is at a leaf changes.
LEMMA ChangeLeaf ==
  ASSUME NEW row, Row(row), NEW t, DOMAIN t = DOMAIN row, t = [k \in DOMAIN row |-> t[k]],
         \A k \in DOMAIN row : t[k] \in LeafRecs /\ t[k].id = row[k].id
  PROVE  Row(t) /\ Ids(t) = Ids(row)
<1>1. DOMAIN row = 1..Len(row) /\ Len(row) \in Nat /\ Len(row) # 0
  BY DEF Row
<1>2. t \in Seq(LeafRecs)
  BY <1>1, SeqDef
<1>3. t # <<>>
  <2>1. 1 \in DOMAIN t
    BY <1>1
  <2>. QED BY <2>1
<1>4. Distinct(t) /\ Ids(t) = Ids(row)
  BY DEF Distinct, Row, Ids
<1>. QED BY <1>2, <1>3, <1>4 DEF Row

\* The place of a leaf in its row.
LEMMA PlaceOf ==
  ASSUME NEW row, Row(row), NEW leaf \in Ids(row)
  PROVE  LET k == SelectInSeq(row, LAMBDA l : l.id = leaf)
         IN k \in DOMAIN row /\ row[k].id = leaf
<1> DEFINE I == {i \in 1..Len(row) : row[i].id = leaf}
<1>1. DOMAIN row = 1..Len(row) /\ Len(row) \in Nat
  BY DEF Row
<1>2. I \in SUBSET Nat /\ I # {}
  BY <1>1 DEF Ids
<1> HIDE DEF I
<1>3. Min(I) \in I
  BY <1>2, LeastNat
<1>4. Min(I) \in DOMAIN row /\ row[Min(I)].id = leaf
  BY <1>1, <1>3 DEF I
<1>. QED BY <1>2, <1>4 DEF SelectInSeq, I

\* A leaf goes; the others stay.
LEMMA DropLeaf ==
  ASSUME NEW row, Row(row), Len(row) # 1, NEW leaf \in Ids(row)
  PROVE  Row(Dropped(row, leaf)) /\ ToSet(Dropped(row, leaf)) = {l \in ToSet(row) : l.id # leaf}
<1>1. PICK p : p = SelectInSeq(row, LAMBDA l : l.id = leaf)
  OBVIOUS
<1>2. p \in DOMAIN row /\ row[p].id = leaf
  BY <1>1, PlaceOf
<1>3. DOMAIN row = 1..Len(row) /\ Len(row) \in Nat /\ row \in Seq(LeafRecs) /\ Distinct(row) /\ Len(row) # 0
  BY DEF Row
<1>4. PICK t : t = Dropped(row, leaf)
  OBVIOUS
<1>5. t = RemoveAt(row, p)
  BY <1>1, <1>2, <1>3, <1>4 DEF Dropped, RemoveFirstMatch
<1>6. PICK n : n = Len(row)
  OBVIOUS
<1>7. t \in Seq(LeafRecs) /\ DOMAIN t = 1..(n - 1) /\ \A i \in 1..(n - 1) : t[i] = IF i < p THEN row[i] ELSE row[i + 1]
  <2>1. PICK u : u = SubSeq(row, 1, p - 1)
    OBVIOUS
  <2>2. PICK v : v = SubSeq(row, p + 1, n)
    OBVIOUS
  <2>3. p \in 1..n /\ n \in Nat /\ \A i \in 1..n : row[i] \in LeafRecs
    BY <1>2, <1>3, <1>6
  <2>4. u \in Seq(LeafRecs) /\ Len(u) = p - 1 /\ \A i \in 1..(p - 1) : u[i] = row[i]
    BY <1>3, <2>1, <2>3, SubSeqProperties
  <2>5. v \in Seq(LeafRecs) /\ Len(v) = n - p /\ \A i \in 1..(n - p) : v[i] = row[p + i]
    BY <1>3, <2>2, <2>3, SubSeqProperties
  <2>6. /\ u \o v \in Seq(LeafRecs) /\ Len(u \o v) = Len(u) + Len(v)
        /\ \A i \in 1..(Len(u) + Len(v)) : (u \o v)[i] = IF i <= Len(u) THEN u[i] ELSE v[i - Len(u)]
    BY <2>4, <2>5, ConcatProperties
  <2>7. t = u \o v
    BY <1>5, <1>6, <2>1, <2>2 DEF RemoveAt
  <2>8. Len(u) + Len(v) = n - 1
    BY <2>3, <2>4, <2>5
  <2>9. \A i \in 1..(n - 1) : t[i] = IF i <= p - 1 THEN u[i] ELSE v[i - (p - 1)]
    BY <2>4, <2>6, <2>7, <2>8
  <2>10. ASSUME NEW i \in 1..(n - 1) PROVE t[i] = IF i < p THEN row[i] ELSE row[i + 1]
    <3>1. CASE i < p
      <4>1. i <= p - 1 /\ i \in 1..(p - 1)
        BY <2>3, <3>1
      <4>. QED BY <2>4, <2>9, <3>1, <4>1
    <3>2. CASE ~(i < p)
      <4>1. ~(i <= p - 1) /\ i - (p - 1) \in 1..(n - p) /\ p + (i - (p - 1)) = i + 1
        BY <2>3, <3>2
      <4>. QED BY <2>5, <2>9, <3>2, <4>1
    <3>. QED BY <3>1, <3>2
  <2>. QED BY <2>3, <2>6, <2>7, <2>8, <2>10
<1>8. \A i \in DOMAIN t : \E j \in DOMAIN row : t[i] = row[j] /\ j # p /\ j = (IF i < p THEN i ELSE i + 1)
  <2>1. ASSUME NEW i \in 1..(n - 1) PROVE \E j \in 1..n : t[i] = row[j] /\ j # p /\ j = (IF i < p THEN i ELSE i + 1)
    BY <1>2, <1>3, <1>6, <1>7
  <2>. QED BY <1>3, <1>6, <1>7, <2>1
<1>9. \A j \in DOMAIN row : j # p => \E i \in DOMAIN t : t[i] = row[j]
  <2>1. ASSUME NEW j \in 1..n, j # p PROVE \E i \in 1..(n - 1) : t[i] = row[j]
    <3>1. CASE j < p
      <4>1. j \in 1..(n - 1)
        BY <1>2, <1>3, <1>6, <3>1
      <4>. QED BY <1>7, <3>1, <4>1
    <3>2. CASE ~(j < p)
      <4>1. j - 1 \in 1..(n - 1) /\ ~(j - 1 < p) /\ (j - 1) + 1 = j
        BY <1>2, <1>3, <1>6, <2>1, <3>2
      <4>. QED BY <1>7, <4>1
    <3>. QED BY <3>1, <3>2
  <2>. QED BY <1>3, <1>6, <1>7, <2>1
<1>10. ToSet(t) = {l \in ToSet(row) : l.id # leaf}
  <2>1. ASSUME NEW i \in DOMAIN t PROVE t[i] \in ToSet(row) /\ t[i].id # leaf
    <3>1. PICK j \in DOMAIN row : t[i] = row[j] /\ j # p
      BY <1>8
    <3>. QED BY <1>2, <1>3, <3>1 DEF ToSet, Distinct
  <2>2. ASSUME NEW j \in DOMAIN row, row[j].id # leaf PROVE row[j] \in ToSet(t)
    <3>1. PICK i \in DOMAIN t : t[i] = row[j]
      BY <1>2, <1>9, <2>2
    <3>. QED BY <3>1 DEF ToSet
  <2>. QED BY <2>1, <2>2 DEF ToSet
<1>11. Distinct(t)
  <2> SUFFICES ASSUME NEW i \in DOMAIN t, NEW k \in DOMAIN t, t[i].id = t[k].id PROVE i = k
    BY DEF Distinct
  <2>1. PICK j \in DOMAIN row : t[i] = row[j] /\ j = (IF i < p THEN i ELSE i + 1)
    BY <1>8
  <2>2. PICK m \in DOMAIN row : t[k] = row[m] /\ m = (IF k < p THEN k ELSE k + 1)
    BY <1>8
  <2>3. j = m
    BY <1>3, <2>1, <2>2 DEF Distinct
  <2>4. i \in Nat /\ k \in Nat /\ p \in Nat
    BY <1>2, <1>3, <1>7
  <2>. QED BY <2>1, <2>2, <2>3, <2>4
<1>12. t # <<>>
  <2>1. 1 \in DOMAIN t
    BY <1>3, <1>6, <1>7
  <2>. QED BY <2>1
<1>. QED BY <1>4, <1>7, <1>10, <1>11, <1>12 DEF Row

\* A leaf is halved: a new one comes right after it.
LEMMA InsertLeaf ==
  ASSUME NEW row, Row(row), NEW q \in DOMAIN row, NEW l \in LeafRecs, l.id \notin Ids(row)
  PROVE  /\ Row(InsertAt(row, q + 1, l)) /\ ToSet(InsertAt(row, q + 1, l)) = ToSet(row) \cup {l}
<1>1. PICK n : n = Len(row)
  OBVIOUS
<1>2. DOMAIN row = 1..n /\ n \in Nat /\ row \in Seq(LeafRecs) /\ Distinct(row) /\ q \in 1..n /\ \A i \in 1..n : row[i] \in LeafRecs
  BY <1>1 DEF Row
<1>3. PICK u : u = SubSeq(row, 1, (q + 1) - 1)
  OBVIOUS
<1>4. PICK v : v = SubSeq(row, q + 1, n)
  OBVIOUS
<1>5. u \in Seq(LeafRecs) /\ Len(u) = q /\ \A i \in 1..q : u[i] = row[i]
  <2>1. u = SubSeq(row, 1, q)
    BY <1>2, <1>3
  <2>. QED BY <1>2, <2>1, SubSeqProperties
<1>6. v \in Seq(LeafRecs) /\ Len(v) = n - q /\ \A i \in 1..(n - q) : v[i] = row[q + i]
  BY <1>2, <1>4, SubSeqProperties
<1>7. PICK o : o = <<l>>
  OBVIOUS
<1>8. o \in Seq(LeafRecs) /\ Len(o) = 1 /\ o[1] = l
  BY <1>7
<1>9. PICK w : w = u \o o
  OBVIOUS
<1>10. w \in Seq(LeafRecs) /\ Len(w) = q + 1 /\ (\A i \in 1..q : w[i] = row[i]) /\ w[q + 1] = l
  <2>1. /\ u \o o \in Seq(LeafRecs) /\ Len(u \o o) = Len(u) + Len(o)
        /\ \A i \in 1..(Len(u) + Len(o)) : (u \o o)[i] = IF i <= Len(u) THEN u[i] ELSE o[i - Len(u)]
    BY <1>5, <1>8, ConcatProperties
  <2>2. (q + 1) - q = 1 /\ ~(q + 1 <= q) /\ q + 1 \in 1..(q + 1)
    BY <1>2
  <2>3. \A i \in 1..q : i \in 1..(q + 1) /\ i <= q
    BY <1>2
  <2>4. w[q + 1] = l
    BY <1>5, <1>8, <1>9, <2>1, <2>2
  <2>5. \A i \in 1..q : w[i] = row[i]
    BY <1>5, <1>8, <1>9, <2>1, <2>3
  <2>. QED BY <1>5, <1>8, <1>9, <2>1, <2>4, <2>5
<1>11. PICK t : t = w \o v
  OBVIOUS
<1>12. InsertAt(row, q + 1, l) = t
  BY <1>1, <1>3, <1>4, <1>7, <1>9, <1>11 DEF InsertAt
<1>13. /\ t \in Seq(LeafRecs) /\ DOMAIN t = 1..(n + 1) /\ (\A i \in 1..q : t[i] = row[i]) /\ t[q + 1] = l
       /\ \A i \in (q + 1)..n : t[i + 1] = row[i]
  <2>1. /\ w \o v \in Seq(LeafRecs) /\ Len(w \o v) = Len(w) + Len(v)
        /\ \A i \in 1..(Len(w) + Len(v)) : (w \o v)[i] = IF i <= Len(w) THEN w[i] ELSE v[i - Len(w)]
    BY <1>6, <1>10, ConcatProperties
  <2>2. Len(w) + Len(v) = n + 1
    BY <1>2, <1>6, <1>10
  <2>3. \A i \in 1..(n + 1) : t[i] = IF i <= q + 1 THEN w[i] ELSE v[i - (q + 1)]
    BY <1>10, <1>11, <2>1, <2>2
  <2>4. \A i \in 1..q : i \in 1..(n + 1) /\ i <= q + 1
    BY <1>2
  <2>5. q + 1 \in 1..(n + 1) /\ q + 1 <= q + 1
    BY <1>2
  <2>6. ASSUME NEW i \in (q + 1)..n PROVE t[i + 1] = row[i]
    <3>1. i + 1 \in 1..(n + 1) /\ ~(i + 1 <= q + 1) /\ (i + 1) - (q + 1) \in 1..(n - q) /\ q + ((i + 1) - (q + 1)) = i
      BY <1>2
    <3>. QED BY <1>6, <2>3, <3>1
  <2>7. t \in Seq(LeafRecs) /\ Len(t) = n + 1
    BY <1>11, <2>1, <2>2
  <2>8. DOMAIN t = 1..(n + 1)
    BY <2>7
  <2>9. t[q + 1] = l
    BY <1>10, <2>3, <2>5
  <2>10. \A i \in 1..q : t[i] = row[i]
    BY <1>10, <2>3, <2>4
  <2>. QED BY <2>6, <2>7, <2>8, <2>9, <2>10
<1>14. \A i \in DOMAIN t : (i = q + 1 /\ t[i] = l) \/ \E j \in DOMAIN row : t[i] = row[j] /\ i = (IF j <= q THEN j ELSE j + 1)
  <2> SUFFICES ASSUME NEW i \in 1..(n + 1), i # q + 1
               PROVE  \E j \in 1..n : t[i] = row[j] /\ i = (IF j <= q THEN j ELSE j + 1)
    BY <1>2, <1>13
  <2>1. CASE i <= q
    BY <1>2, <1>13, <2>1
  <2>2. CASE ~(i <= q)
    <3>1. i - 1 \in (q + 1)..n /\ i - 1 \in 1..n /\ (i - 1) + 1 = i /\ ~(i - 1 <= q)
      BY <1>2, <2>2
    <3>. QED BY <1>13, <3>1
  <2>. QED BY <2>1, <2>2
<1>15. ToSet(t) = ToSet(row) \cup {l}
  <2>1. \A i \in DOMAIN t : t[i] \in ToSet(row) \cup {l}
    BY <1>14 DEF ToSet
  <2>2. q + 1 \in DOMAIN t
    BY <1>2, <1>13
  <2>3. l \in ToSet(t)
    BY <1>13, <2>2 DEF ToSet
  <2>4. ASSUME NEW j \in 1..n PROVE \E i \in 1..(n + 1) : t[i] = row[j]
    <3>1. CASE j <= q
      <4>1. j \in 1..q /\ j \in 1..(n + 1)
        BY <1>2, <3>1
      <4>. QED BY <1>13, <4>1
    <3>2. CASE ~(j <= q)
      <4>1. j \in (q + 1)..n /\ j + 1 \in 1..(n + 1)
        BY <1>2, <3>2
      <4>. QED BY <1>13, <4>1
    <3>. QED BY <3>1, <3>2
  <2>5. \A j \in DOMAIN row : row[j] \in ToSet(t)
    BY <1>2, <1>13, <2>4 DEF ToSet
  <2>. QED BY <2>1, <2>3, <2>5 DEF ToSet
<1>16. Distinct(t)
  <2> SUFFICES ASSUME NEW i \in DOMAIN t, NEW k \in DOMAIN t, t[i].id = t[k].id PROVE i = k
    BY DEF Distinct
  <2>1. \A j \in DOMAIN row : row[j].id # l.id
    BY DEF Ids
  <2>2. CASE i = q + 1 \/ k = q + 1
    BY <1>13, <1>14, <2>1, <2>2
  <2>3. CASE i # q + 1 /\ k # q + 1
    <3>1. PICK j \in DOMAIN row : t[i] = row[j] /\ i = (IF j <= q THEN j ELSE j + 1)
      BY <1>14, <2>3
    <3>2. PICK m \in DOMAIN row : t[k] = row[m] /\ k = (IF m <= q THEN m ELSE m + 1)
      BY <1>14, <2>3
    <3>3. j = m
      BY <1>2, <3>1, <3>2 DEF Distinct
    <3>. QED BY <3>1, <3>2, <3>3
  <2>. QED BY <2>2, <2>3
<1>17. t # <<>>
  BY <1>2, <1>13
<1>. QED BY <1>12, <1>13, <1>15, <1>16, <1>17 DEF Row
-----------------------------------------------------------------------------
(* The invariant of the placement rules.                                   *)

\* Names that rules and scripts choose are not those of fresh workspaces.
NamesChosen ==
    /\ \A w \in Windows : RuleFor(w) # AutoName
    /\ \A s \in RuleScripts : WantedBy(s) # AutoName

Names == {AutoName} \cup {RuleFor(w) : w \in Windows} \cup {WantedBy(s) : s \in RuleScripts}
SpacesTyped ==
    /\ leaves \in Nat /\ spaces \in Seq([name : Names, row : Seq(LeafRecs)]) /\ cur \in Spaces
RowsOK ==
    /\ \A i \in Spaces : Row(spaces[i].row) /\ Ids(spaces[i].row) \subseteq 1..leaves
    /\ \A i, j \in Spaces : i # j => Ids(spaces[i].row) \cap Ids(spaces[j].row) = {}
    /\ \A i \in Spaces : \A l \in ToSet(spaces[i].row) : l.win # NoWin => l.app # NoApp

EventsTyped == managed \in Seq([leaf : Nat, win : Windows]) /\ errors \subseteq Windows

\* The drainer's handler has the workspace of its rule, or one it has just made.
EngineOK ==
    /\ engine \in [at : {"rest", "tree", "add", "rename", "move"}, leaf : Nat, win : Windows \cup {NoWin}, ws : Nat]
    /\ engine.at # "rest" => engine.win \in Windows /\ RuleFor(engine.win) # NoName
    /\ engine.at = "rename" => engine.ws \in Spaces /\ spaces[engine.ws].name = AutoName
    /\ engine.at = "move" => engine.ws \in Spaces /\ spaces[engine.ws].name = RuleFor(engine.win)

\* So has a script.
Building(s) == script[s].at \in {"split", "left", "right"}
ScriptsOK ==
    /\ script \in [RuleScripts -> [at : {"rest", "add", "rename", "check", "split", "left", "right"},
                                   ws : Nat, leaf : Nat, new : Nat, runs : Nat]]
    /\ \A s \in RuleScripts :
         /\ script[s].at = "rename" => script[s].ws \in Spaces /\ spaces[script[s].ws].name = AutoName
         /\ script[s].at = "check" \/ Building(s) =>
              script[s].ws \in Spaces /\ spaces[script[s].ws].name = WantedBy(s)

\* Everybody names the workspace of its own.
AddedApart ==
    /\ \A s \in RuleScripts : script[s].at = "rename" /\ engine.at = "rename" => script[s].ws # engine.ws
    /\ \A s, t \in RuleScripts : script[s].at = "rename" /\ script[t].at = "rename" /\ s # t => script[s].ws # script[t].ws

\* A window with a rule is in the rule's workspace, or the last event about
\* its leaf is its own.
Coming(l) == \E k \in DOMAIN managed :
    /\ managed[k].leaf = l.id /\ managed[k].win = l.win
    /\ \A m \in DOMAIN managed : m > k => managed[m].leaf # l.id
Unheard(l) == \A m \in DOMAIN managed : managed[m].leaf # l.id
Handled(l) == engine.at # "rest" /\ engine.leaf = l.id
Placed(l, i) == spaces[i].name = RuleFor(l.win) \/ l.win \in errors
Claim(l, i) == Coming(l) \/ (Unheard(l) /\ IF Handled(l) THEN engine.win = l.win ELSE Placed(l, i))
Ruled(l) == l.win # NoWin /\ RuleFor(l.win) # NoName
Claims == \A i \in Spaces : \A l \in ToSet(spaces[i].row) : Ruled(l) => Claim(l, i)

PlaceInv == SpacesTyped /\ RowsOK /\ EventsTyped /\ EngineOK /\ ScriptsOK /\ AddedApart /\ Claims

\* One goroutine looks after a name: the drainer, or one script.
OneEnsurer ==
    /\ \A s \in RuleScripts, w \in Windows : WantedBy(s) # RuleFor(w)
    /\ \A s, t \in RuleScripts : WantedBy(s) = WantedBy(t) => s = t
Ensured ==
    /\ NamesUnique
    /\ engine.at \in {"add", "rename"} => Named(RuleFor(engine.win)) = {}
    /\ \A s \in RuleScripts : script[s].at \in {"add", "rename"} => Named(WantedBy(s)) = {}

\* As long as no window is moved, a recipe finds its leaves where it made them.
Unruled == \A w \in Windows : RuleFor(w) # NoName => mapped[w] = 0
MappedOK ==
    /\ mapped \in [Windows -> Nat]
    /\ \A k \in DOMAIN managed : mapped[managed[k].win] > 0
    /\ engine.at # "rest" => mapped[engine.win] > 0
OnlyIn(leaf, ws) == leaf \in 1..leaves /\ \A i \in Spaces : leaf \in Ids(spaces[i].row) => i = ws
RecipeOK ==
    /\ \A s \in RuleScripts : Building(s) =>
         /\ OnlyIn(script[s].leaf, script[s].ws)
         /\ \A l \in ToSet(spaces[script[s].ws].row) : l.app # "right"
    /\ \A s \in RuleScripts : script[s].at \in {"left", "right"} => OnlyIn(script[s].new, script[s].ws)
    /\ \A i \in Spaces : \A l, m \in ToSet(spaces[i].row) : l.app = "right" /\ m.app = "right" => l = m
OnceInv == Ensured /\ MappedOK /\ (Unruled => RecipeOK)
-----------------------------------------------------------------------------
(* What the ops do to the desktop.                                         *)

\* Workspaces keep their names, leaves their workspaces; new leaves are new.
Kept ==
    /\ SpacesTyped' /\ RowsOK' /\ leaves <= leaves'
    /\ Spaces \subseteq Spaces' /\ \A i \in Spaces : spaces'[i].name = spaces[i].name
    /\ \A i \in Spaces' \ Spaces : spaces'[i].name = AutoName
    /\ \A i \in Spaces' : \A x \in Ids(spaces'[i].row) :
         (i \in Spaces /\ x \in Ids(spaces[i].row)) \/ x \in (leaves + 1)..leaves'
\* No window comes to a leaf, no recipe's second application to a leaf.
WinsStay == \A i \in Spaces' : \A l \in ToSet(spaces'[i].row) : l.win # NoWin =>
    i \in Spaces /\ \E m \in ToSet(spaces[i].row) : m.id = l.id /\ m.win = l.win
RightsStay == \A i \in Spaces' : \A l \in ToSet(spaces'[i].row) : l.app = "right" =>
    i \in Spaces /\ l \in ToSet(spaces[i].row)

LEMMA AppsDiffer == NoApp # "win" /\ NoApp # "left" /\ NoApp # "right"
BY DEF NoApp

LEMMA FreshLeaf ==
  ASSUME NEW x \in Nat
  PROVE  /\ Leaf(x, NoApp, NoWin) \in LeafRecs /\ Leaf(x, NoApp, NoWin).id = x
         /\ Leaf(x, NoApp, NoWin).win = NoWin /\ Leaf(x, NoApp, NoWin).app = NoApp
BY DEF LeafRecs, Apps, Leaf

LEMMA SpaceFacts ==
  ASSUME SpacesTyped
  PROVE  /\ Spaces = 1..Len(spaces) /\ Len(spaces) \in Nat
         /\ \A i \in Spaces : spaces[i] \in [name : Names, row : Seq(LeafRecs)] /\ i \in Nat
<1> DEFINE Recs == [name : Names, row : Seq(LeafRecs)]
<1>1. spaces \in Seq(Recs)
  BY DEF SpacesTyped
<1> HIDE DEF Recs
<1>2. DOMAIN spaces = 1..Len(spaces) /\ Len(spaces) \in Nat /\ \A i \in 1..Len(spaces) : spaces[i] \in Recs /\ i \in Nat
  BY <1>1
<1>. QED BY <1>2 DEF Spaces, Recs

\* One row changes.
LEMMA SetRowKeeps ==
  ASSUME SpacesTyped, RowsOK, NEW i \in Spaces, NEW r, Row(r), leaves' \in Nat, leaves <= leaves',
         \A x \in Ids(r) : x \in Ids(spaces[i].row) \/ x \in (leaves + 1)..leaves',
         \A l \in ToSet(r) : l.win # NoWin => l.app # NoApp,
         cur' \in Spaces, SetRow(i, r)
  PROVE  /\ Kept /\ Spaces' = Spaces /\ spaces'[i].row = r
         /\ \A j \in Spaces : j # i => spaces'[j] = spaces[j]
<1> DEFINE Recs == [name : Names, row : Seq(LeafRecs)]
<1>1. spaces \in Seq(Recs) /\ spaces[i] \in Recs /\ leaves \in Nat /\ Spaces = 1..Len(spaces) /\ Len(spaces) \in Nat
  BY SpaceFacts DEF SpacesTyped
<1>2. PICK e : e = [spaces[i] EXCEPT !.row = r]
  OBVIOUS
<1>3. e \in Recs /\ e.name = spaces[i].name /\ e.row = r
  BY <1>1, <1>2 DEF Row
<1>4. spaces' = [spaces EXCEPT ![i] = e]
  BY <1>1, <1>2 DEF SetRow
<1> HIDE DEF Recs
<1>5. spaces' \in Seq(Recs) /\ DOMAIN spaces' = DOMAIN spaces
  BY <1>1, <1>3, <1>4 DEF Spaces
<1>6. spaces'[i] = e /\ \A j \in Spaces : j # i => spaces'[j] = spaces[j]
  BY <1>1, <1>4 DEF Spaces
<1>7. Spaces' = Spaces
  BY <1>5 DEF Spaces
<1>8. SpacesTyped'
  BY <1>5, <1>7 DEF SpacesTyped, Recs
<1>9. \A j \in Spaces : \A x \in Ids(spaces'[j].row) :
        x \in Ids(spaces[j].row) \/ x \in (leaves + 1)..leaves'
  BY <1>3, <1>6
<1>10. \A j \in Spaces : Row(spaces'[j].row)
  BY <1>3, <1>6 DEF RowsOK
<1>11. \A j \in Spaces : Ids(spaces'[j].row) \subseteq 1..leaves'
  <2>1. (leaves + 1)..leaves' \subseteq 1..leaves' /\ 1..leaves \subseteq 1..leaves'
    BY <1>1
  <2>. QED BY <1>9, <2>1 DEF RowsOK
<1>12. ASSUME NEW j \in Spaces, NEW k \in Spaces, j # k
       PROVE  Ids(spaces'[j].row) \cap Ids(spaces'[k].row) = {}
  <2>1. \A x \in 1..leaves : x \notin (leaves + 1)..leaves'
    BY <1>1
  <2>2. \A m \in Spaces : Ids(spaces[m].row) \subseteq 1..leaves
    BY DEF RowsOK
  <2>3. Ids(spaces[j].row) \cap Ids(spaces[k].row) = {}
    BY <1>12 DEF RowsOK
  <2>4. j # i => spaces'[j] = spaces[j]
    BY <1>6
  <2>5. k # i => spaces'[k] = spaces[k]
    BY <1>6
  <2>. QED BY <1>9, <1>12, <2>1, <2>2, <2>3, <2>4, <2>5
<1>13. \A j \in Spaces : \A l \in ToSet(spaces'[j].row) : l.win # NoWin => l.app # NoApp
  BY <1>3, <1>6 DEF RowsOK
<1>14. RowsOK'
  BY <1>7, <1>10, <1>11, <1>12, <1>13 DEF RowsOK
<1>15. \A j \in Spaces : spaces'[j].name = spaces[j].name
  BY <1>3, <1>6
<1>. QED BY <1>3, <1>6, <1>7, <1>8, <1>9, <1>14, <1>15 DEF Kept

\* A workspace is added.
LEMMA AddKeeps ==
  ASSUME SpacesTyped, RowsOK, OpAddWorkspace
  PROVE  /\ Kept /\ WinsStay /\ RightsStay
         /\ Spaces' = Spaces \cup {Len(spaces')} /\ Len(spaces') \notin Spaces /\ Len(spaces') \in Nat
<1> DEFINE Recs == [name : Names, row : Seq(LeafRecs)]
<1>1. PICK l : l = Leaf(leaves', NoApp, NoWin)
  OBVIOUS
<1>2. PICK e : e = [name |-> AutoName, row |-> <<l>>]
  OBVIOUS
<1>3. leaves \in Nat /\ leaves' = leaves + 1 /\ spaces \in Seq(Recs) /\ spaces' = Append(spaces, e) /\ cur' = Len(spaces')
  BY <1>1, <1>2 DEF OpAddWorkspace, SpacesTyped
<1>4. l \in LeafRecs /\ l.id = leaves' /\ l.win = NoWin /\ l.app = NoApp
  BY <1>1, <1>3, FreshLeaf
<1>5. Row(<<l>>) /\ ToSet(<<l>>) = {l} /\ Ids(<<l>>) = {leaves'}
  BY <1>4, OneLeaf
<1>6. e \in Recs /\ e.name = AutoName /\ e.row = <<l>>
  BY <1>2, <1>5 DEF Row, Names
<1> HIDE DEF Recs
<1>7. PICK n : n = Len(spaces) + 1
  OBVIOUS
<1>8. /\ spaces' \in Seq(Recs) /\ Len(spaces') = n /\ DOMAIN spaces' = DOMAIN spaces \cup {n} /\ n \notin DOMAIN spaces
      /\ spaces'[n] = e /\ n \in Nat /\ \A i \in DOMAIN spaces : spaces'[i] = spaces[i]
  BY <1>3, <1>6, <1>7
<1>9. Spaces' = Spaces \cup {n} /\ n \notin Spaces /\ \A i \in Spaces : spaces'[i] = spaces[i]
  BY <1>8 DEF Spaces
<1>10. SpacesTyped'
  BY <1>3, <1>8, <1>9 DEF SpacesTyped, Recs
<1>11. 1..leaves \subseteq 1..leaves' /\ leaves' \notin 1..leaves /\ leaves' \in 1..leaves' /\ leaves' \in (leaves + 1)..leaves'
  BY <1>3
<1>12. \A i \in Spaces : Row(spaces[i].row) /\ Ids(spaces[i].row) \subseteq 1..leaves
  BY DEF RowsOK
<1>13. \A i \in Spaces' : Row(spaces'[i].row) /\ Ids(spaces'[i].row) \subseteq 1..leaves'
  BY <1>5, <1>6, <1>8, <1>9, <1>11, <1>12
<1>14. ASSUME NEW i \in Spaces', NEW j \in Spaces', i # j PROVE Ids(spaces'[i].row) \cap Ids(spaces'[j].row) = {}
  <2>1. CASE i \in Spaces /\ j \in Spaces
    BY <1>9, <1>14, <2>1 DEF RowsOK
  <2>2. CASE i \notin Spaces
    BY <1>5, <1>6, <1>8, <1>9, <1>11, <1>12, <1>14, <2>2
  <2>3. CASE j \notin Spaces
    BY <1>5, <1>6, <1>8, <1>9, <1>11, <1>12, <1>14, <2>3
  <2>. QED BY <2>1, <2>2, <2>3
<1>15. \A i \in Spaces' : \A m \in ToSet(spaces'[i].row) : m.win # NoWin => m.app # NoApp
  BY <1>4, <1>5, <1>6, <1>8, <1>9 DEF RowsOK
<1>16. RowsOK'
  BY <1>13, <1>14, <1>15 DEF RowsOK
<1>17. \A i \in Spaces' : \A x \in Ids(spaces'[i].row) :
         (i \in Spaces /\ x \in Ids(spaces[i].row)) \/ x \in (leaves + 1)..leaves'
  BY <1>5, <1>6, <1>8, <1>9, <1>11
<1>18. Kept
  <2>0. leaves <= leaves'
    BY <1>3
  <2>1. Spaces \subseteq Spaces' /\ \A i \in Spaces : spaces'[i].name = spaces[i].name
    BY <1>9
  <2>2. \A i \in Spaces' \ Spaces : spaces'[i].name = AutoName
    BY <1>6, <1>8, <1>9
  <2>. QED BY <1>10, <1>16, <1>17, <2>0, <2>1, <2>2 DEF Kept
<1>19. WinsStay /\ RightsStay
  BY <1>4, <1>5, <1>6, <1>8, <1>9, AppsDiffer DEF WinsStay, RightsStay
<1>. QED BY <1>8, <1>9, <1>18, <1>19

\* A workspace is named.
LEMMA RenameKeeps ==
  ASSUME SpacesTyped, RowsOK, NEW i \in Spaces, NEW name \in Names, OpRenameWorkspace(i, name)
  PROVE  /\ SpacesTyped' /\ RowsOK' /\ Spaces' = Spaces /\ leaves' = leaves /\ cur' = cur
         /\ \A j \in Spaces : spaces'[j].row = spaces[j].row
         /\ spaces'[i].name = name /\ \A j \in Spaces : j # i => spaces'[j].name = spaces[j].name
<1> DEFINE Recs == [name : Names, row : Seq(LeafRecs)]
<1>1. spaces \in Seq(Recs) /\ spaces[i] \in Recs /\ Spaces = 1..Len(spaces) /\ Len(spaces) \in Nat
  BY SpaceFacts DEF SpacesTyped
<1>2. PICK e : e = [spaces[i] EXCEPT !.name = name]
  OBVIOUS
<1>3. e \in Recs /\ e.row = spaces[i].row /\ e.name = name
  BY <1>1, <1>2
<1>4. spaces' = [spaces EXCEPT ![i] = e] /\ UNCHANGED <<cur, leaves>>
  BY <1>1, <1>2 DEF OpRenameWorkspace
<1> HIDE DEF Recs
<1>5. spaces' \in Seq(Recs) /\ DOMAIN spaces' = DOMAIN spaces
  BY <1>1, <1>3, <1>4 DEF Spaces
<1>6. spaces'[i] = e /\ \A j \in Spaces : j # i => spaces'[j] = spaces[j]
  BY <1>1, <1>4 DEF Spaces
<1>7. Spaces' = Spaces
  BY <1>5 DEF Spaces
<1>8. SpacesTyped'
  BY <1>4, <1>5, <1>7 DEF SpacesTyped, Recs
<1>9. \A j \in Spaces : spaces'[j].row = spaces[j].row
  BY <1>3, <1>6
<1>10. RowsOK'
  BY <1>4, <1>7, <1>9 DEF RowsOK
<1>. QED BY <1>3, <1>4, <1>6, <1>7, <1>8, <1>9, <1>10

\* A leaf is found where it is, and nowhere else.
LEMMA FoundIn ==
  ASSUME SpacesTyped, RowsOK, NEW leaf, NEW i \in SpaceOf(leaf)
  PROVE  /\ i \in Spaces /\ leaf \in Ids(spaces[i].row) /\ SpaceOf(leaf) = {i}
         /\ LeafAt(leaf) \in ToSet(spaces[i].row) /\ LeafAt(leaf).id = leaf
         /\ \A j \in Spaces : leaf \in Ids(spaces[j].row) => j = i
<1>1. \A j : j \in SpaceOf(leaf) <=> j \in Spaces /\ leaf \in Ids(spaces[j].row)
  BY DEF SpaceOf, Ids
<1>2. SpaceOf(leaf) = {i}
  BY <1>1 DEF RowsOK
<1>3. (CHOOSE j \in SpaceOf(leaf) : TRUE) = i
  BY <1>2
<1>4. \E l \in ToSet(spaces[i].row) : l.id = leaf
  BY <1>1 DEF Ids, ToSet
<1>5. LeafAt(leaf) = CHOOSE l \in ToSet(spaces[i].row) : l.id = leaf
  BY <1>3 DEF LeafAt
<1>. QED BY <1>1, <1>2, <1>4, <1>5

LEMMA SetMembers ==
  ASSUME NEW row, Row(row), NEW l \in ToSet(row)
  PROVE  l \in LeafRecs /\ l.id \in Ids(row) /\ \A m \in ToSet(row) : m.id = l.id => m = l
BY DEF Row, Distinct, ToSet, Ids

\* What of a row is kept makes no window and no application in it new.
LEMMA PartKept ==
  ASSUME SpacesTyped, RowsOK, NEW i \in Spaces, NEW r, Row(r), leaves' = leaves, cur' \in Spaces, SetRow(i, r),
         Ids(r) \subseteq Ids(spaces[i].row),
         \A l \in ToSet(r) : l.win # NoWin => l \in ToSet(spaces[i].row),
         \A l \in ToSet(r) : l.app = "right" => l \in ToSet(spaces[i].row)
  PROVE  Kept /\ WinsStay /\ RightsStay
<1>1. leaves \in Nat
  BY DEF SpacesTyped
<1>2. \A l \in ToSet(r) : l.win # NoWin => l.app # NoApp
  BY DEF RowsOK
<1>3. leaves' \in Nat /\ leaves <= leaves'
  BY <1>1
<1>4. \A x \in Ids(r) : x \in Ids(spaces[i].row) \/ x \in (leaves + 1)..leaves'
  OBVIOUS
<1>5. /\ Kept /\ Spaces' = Spaces /\ spaces'[i].row = r
      /\ \A j \in Spaces : j # i => spaces'[j] = spaces[j]
  BY <1>2, <1>3, <1>4, SetRowKeeps
<1>. QED BY <1>5 DEF WinsStay, RightsStay

\* A window goes, with its leaf or out of it.
LEMMA VacateKeeps ==
  ASSUME SpacesTyped, RowsOK, NEW i \in Spaces, NEW leaf \in Ids(spaces[i].row), leaves' = leaves, cur' = cur,
         SetRow(i, Vacated(spaces[i].row, leaf))
  PROVE  Kept /\ WinsStay /\ RightsStay
<1>1. cur' \in Spaces /\ Row(spaces[i].row)
  BY DEF SpacesTyped, RowsOK
<1>2. CASE Len(spaces[i].row) = 1
  <2>1. PICK l : l = Leaf(leaf, NoApp, NoWin)
    OBVIOUS
  <2>2. leaf \in Nat
    BY <1>1, IdsNat
  <2>3. l \in LeafRecs /\ l.id = leaf /\ l.win = NoWin /\ l.app = NoApp
    BY <2>1, <2>2, FreshLeaf
  <2>4. Row(<<l>>) /\ ToSet(<<l>>) = {l} /\ Ids(<<l>>) = {leaf}
    BY <2>3, OneLeaf
  <2>5. SetRow(i, <<l>>)
    BY <1>2, <2>1 DEF Vacated
  <2>6. \A m \in ToSet(<<l>>) : m.win = NoWin /\ m.app # "right"
    BY <2>3, <2>4, AppsDiffer
  <2>. QED BY <1>1, <2>4, <2>5, <2>6, PartKept
<1>3. CASE Len(spaces[i].row) # 1
  <2>1. PICK r : r = Dropped(spaces[i].row, leaf)
    OBVIOUS
  <2>2. Row(r) /\ ToSet(r) \subseteq ToSet(spaces[i].row)
    BY <1>1, <1>3, <2>1, DropLeaf
  <2>3. Ids(r) \subseteq Ids(spaces[i].row)
    BY <2>2, IdsOfSet
  <2>4. SetRow(i, r)
    BY <1>3, <2>1 DEF Vacated
  <2>. QED BY <1>1, <2>2, <2>3, <2>4, PartKept
<1>. QED BY <1>2, <1>3

LEMMA UnmanageDoes ==
  ASSUME SpacesTyped, RowsOK, NEW win \in Windows, unmanage(win)
  PROVE  Kept /\ WinsStay /\ RightsStay
<1>1. PICK i \in HomeOf(win) :
        LET l == CHOOSE m \in ToSet(spaces[i].row) : m.win = win IN SetRow(i, Vacated(spaces[i].row, l.id))
  BY DEF unmanage
<1>2. PICK l : l = CHOOSE m \in ToSet(spaces[i].row) : m.win = win
  OBVIOUS
<1>3. i \in Spaces /\ \E m \in ToSet(spaces[i].row) : m.win = win
  BY DEF HomeOf, ToSet
<1>4. l \in ToSet(spaces[i].row)
  BY <1>2, <1>3
<1>5. l.id \in Ids(spaces[i].row)
  BY <1>4 DEF Ids, ToSet
<1>6. SetRow(i, Vacated(spaces[i].row, l.id))
  BY <1>1, <1>2
<1>7. leaves' = leaves /\ cur' = cur
  BY DEF unmanage
<1>. QED BY <1>3, <1>5, <1>6, <1>7, VacateKeeps

\* What is at one leaf of a row changes.
LEMMA InRowKeeps ==
  ASSUME NEW row, Row(row), NEW leaf, NEW t, t = [k \in DOMAIN row |-> t[k]],
         \A k \in DOMAIN row : t[k] \in LeafRecs /\ t[k].id = row[k].id /\ (row[k].id # leaf => t[k] = row[k])
  PROVE  /\ Row(t) /\ Ids(t) = Ids(row)
         /\ \A l \in ToSet(t) : l.id # leaf => l \in ToSet(row)
<1>1. DOMAIN t = DOMAIN row
  OBVIOUS
<1>2. Row(t) /\ Ids(t) = Ids(row)
  BY <1>1, ChangeLeaf
<1>. QED BY <1>1, <1>2 DEF ToSet

\* A new window takes an empty leaf, or a new one at the end.
LEMMA ManageDoes ==
  ASSUME SpacesTyped, RowsOK, NEW win \in Windows, manage(win)
  PROVE  /\ Kept /\ RightsStay
         /\ \E id \in Nat :
              /\ managed' = Append(managed, [leaf |-> id, win |-> win])
              /\ \A i \in Spaces' : \A l \in ToSet(spaces'[i].row) :
                   IF l.id = id THEN l.win = win ELSE i \in Spaces /\ l \in ToSet(spaces[i].row)
<1> DEFINE row == spaces[cur].row
           k == SelectInSeq(row, LAMBDA l : l.app = NoApp)
           id == IF k # 0 THEN row[k].id ELSE leaves + 1
           t == InRow(row, id, LAMBDA m : Leaf(id, "win", win))
<1>1. row = spaces[cur].row
  OBVIOUS
<1>2. k = SelectInSeq(row, LAMBDA l : l.app = NoApp)
  OBVIOUS
<1>3. id = IF k # 0 THEN row[k].id ELSE leaves + 1
  OBVIOUS
<1>4. PICK l : l = Leaf(id, "win", win)
  OBVIOUS
<1>5. t = InRow(row, id, LAMBDA m : Leaf(id, "win", win))
  OBVIOUS
<1>6. /\ leaves' = (IF k # 0 THEN leaves ELSE leaves + 1) /\ cur' = cur
      /\ SetRow(cur, IF k # 0 THEN t ELSE Append(row, l))
      /\ managed' = Append(managed, [leaf |-> id, win |-> win])
  <2>1. SetRow(cur, IF k # 0 THEN t ELSE Append(row, Leaf(id, "win", win)))
    BY DEF manage
  <2>2. /\ leaves' = (IF k # 0 THEN leaves ELSE leaves + 1) /\ cur' = cur
        /\ managed' = Append(managed, [leaf |-> id, win |-> win])
    BY DEF manage
  <2> HIDE DEF row, k, id, t
  <2>. QED BY <1>4, <2>1, <2>2
<1> HIDE DEF row, k, id, t
<1>7. cur \in Spaces /\ cur' \in Spaces /\ leaves \in Nat /\ Row(row) /\ Ids(row) \subseteq 1..leaves
  BY <1>1, <1>6 DEF SpacesTyped, RowsOK
<1>8. \A m \in ToSet(row) : m.win # NoWin => m.app # NoApp
  BY <1>1, <1>7 DEF RowsOK
<1>9. ASSUME id \in Nat PROVE l \in LeafRecs /\ l.id = id /\ l.win = win /\ l.app = "win" /\ l.app # NoApp
  BY <1>4, <1>9, AppsDiffer DEF Leaf, LeafRecs, Apps
<1>10. CASE k # 0
  <2>1. k \in DOMAIN row
    <3> DEFINE I == {i \in 1..Len(row) : row[i].app = NoApp}
    <3>1. k = IF I # {} THEN Min(I) ELSE 0
      BY <1>2 DEF SelectInSeq
    <3>2. I \in SUBSET Nat /\ I # {} /\ I \subseteq DOMAIN row
      BY <1>7, <1>10, <3>1 DEF Row
    <3> HIDE DEF I
    <3>. QED BY <3>1, <3>2, LeastNat
  <2>2. id = row[k].id /\ id \in Nat /\ id \in Ids(row)
    BY <1>3, <1>7, <1>10, <2>1, IdsNat
  <2>3. l \in LeafRecs /\ l.id = id /\ l.win = win /\ l.app = "win" /\ l.app # NoApp
    BY <1>9, <2>2
  <2>4. t = [j \in DOMAIN row |-> IF row[j].id = id THEN l ELSE row[j]]
    BY <1>4, <1>5 DEF InRow
  <2>5. \A j \in DOMAIN row : row[j] \in LeafRecs
    BY <1>7 DEF Row
  <2>6. DOMAIN t = DOMAIN row /\ \A j \in DOMAIN row : t[j] = IF row[j].id = id THEN l ELSE row[j]
    BY <2>4
  <2>7. t = [j \in DOMAIN row |-> t[j]]
    BY <2>4
  <2>8. \A j \in DOMAIN row : t[j] \in LeafRecs /\ t[j].id = row[j].id /\ (row[j].id # id => t[j] = row[j])
    BY <2>3, <2>5, <2>6
  <2>9. Row(t) /\ Ids(t) = Ids(row) /\ \A m \in ToSet(t) : m.id # id => m \in ToSet(row)
    BY <1>7, <2>7, <2>8, InRowKeeps
  <2>10. \A m \in ToSet(t) : m.id = id => m = l
    BY <2>3, <2>6 DEF ToSet
  <2>11. SetRow(cur, t) /\ leaves' = leaves
    BY <1>6, <1>10
  <2>12. \A m \in ToSet(t) : m.win # NoWin => m.app # NoApp
    BY <1>8, <2>3, <2>9, <2>10
  <2>13. \A x \in Ids(t) : x \in Ids(spaces[cur].row) \/ x \in (leaves + 1)..leaves'
    BY <1>1, <2>9
  <2>14. leaves' \in Nat /\ leaves <= leaves'
    BY <1>7, <2>11
  <2>15. /\ Kept /\ Spaces' = Spaces /\ spaces'[cur].row = t
         /\ \A j \in Spaces : j # cur => spaces'[j] = spaces[j]
    BY <1>7, <2>9, <2>11, <2>12, <2>13, <2>14, SetRowKeeps
  <2>16. \A j \in Spaces : j # cur => id \notin Ids(spaces[j].row)
    BY <1>1, <1>7, <2>2 DEF RowsOK
  <2>17. \A j \in Spaces : \A m \in ToSet(spaces[j].row) : m.id \in Ids(spaces[j].row)
    BY DEF Ids, ToSet
  <2>18. RightsStay
    BY <1>1, <2>3, <2>9, <2>10, <2>15 DEF RightsStay
  <2>19. \A i \in Spaces' : \A m \in ToSet(spaces'[i].row) :
           IF m.id = id THEN m.win = win ELSE i \in Spaces /\ m \in ToSet(spaces[i].row)
    BY <1>1, <2>3, <2>9, <2>10, <2>15, <2>16, <2>17
  <2>. QED BY <1>6, <2>2, <2>15, <2>18, <2>19
<1>11. CASE k = 0
  <2>1. id = leaves + 1 /\ id \in Nat /\ id \notin 1..leaves /\ leaves' = leaves + 1
    BY <1>3, <1>6, <1>7, <1>11
  <2>2. l \in LeafRecs /\ l.id = id /\ l.win = win /\ l.app = "win" /\ l.app # NoApp
    BY <1>9, <2>1
  <2>3. id \notin Ids(row)
    BY <1>7, <2>1
  <2>4. PICK r : r = Append(row, l)
    OBVIOUS
  <2>5. Row(r) /\ ToSet(r) = ToSet(row) \cup {l}
    BY <1>7, <2>2, <2>3, <2>4, AppendLeaf
  <2>6. Ids(r) = Ids(row) \cup {id}
    BY <2>2, <2>5, IdsOfSet
  <2>7. id \in (leaves + 1)..leaves' /\ leaves' \in Nat /\ leaves <= leaves'
    BY <1>7, <2>1
  <2>8. \A x \in Ids(r) : x \in Ids(spaces[cur].row) \/ x \in (leaves + 1)..leaves'
    BY <1>1, <2>6, <2>7
  <2>9. \A m \in ToSet(r) : m.win # NoWin => m.app # NoApp
    BY <1>8, <2>2, <2>5
  <2>10. SetRow(cur, r)
    BY <1>6, <1>11, <2>4
  <2>11. /\ Kept /\ Spaces' = Spaces /\ spaces'[cur].row = r
         /\ \A j \in Spaces : j # cur => spaces'[j] = spaces[j]
    BY <1>7, <2>5, <2>7, <2>8, <2>9, <2>10, SetRowKeeps
  <2>12. \A j \in Spaces : \A m \in ToSet(spaces[j].row) : m.id # id
    BY <2>1 DEF RowsOK, Ids, ToSet
  <2>13. RightsStay
    BY <1>1, <2>2, <2>5, <2>11 DEF RightsStay
  <2>14. \A i \in Spaces' : \A m \in ToSet(spaces'[i].row) :
           IF m.id = id THEN m.win = win ELSE i \in Spaces /\ m \in ToSet(spaces[i].row)
    BY <1>1, <2>2, <2>5, <2>11, <2>12
  <2>. QED BY <1>6, <2>1, <2>11, <2>13, <2>14
<1>. QED BY <1>10, <1>11

\* A leaf comes into a row that has none of its id.
LEMMA GraftLeaf ==
  ASSUME NEW row, Row(row), NEW l \in LeafRecs, l.id \notin Ids(row)
  PROVE  /\ Row(Grafted(row, l)) /\ l \in ToSet(Grafted(row, l)) /\ Ids(Grafted(row, l)) \subseteq Ids(row) \cup {l.id}
         /\ \A m \in ToSet(Grafted(row, l)) : m = l \/ m \in ToSet(row)
<1>1. CASE Fresh(row)
  <2>1. Grafted(row, l) = <<l>>
    BY <1>1 DEF Grafted
  <2>. QED BY <2>1, OneLeaf
<1>2. CASE ~Fresh(row)
  <2>1. Grafted(row, l) = Append(row, l)
    BY <1>2 DEF Grafted
  <2>2. Row(Append(row, l)) /\ ToSet(Append(row, l)) = ToSet(row) \cup {l}
    BY AppendLeaf
  <2>3. Ids(Append(row, l)) \subseteq Ids(row) \cup {l.id}
    BY <2>2, IdsOfSet
  <2>. QED BY <2>1, <2>2, <2>3
<1>. QED BY <1>1, <1>2

\* A leaf goes to another workspace; one that was alone leaves a fresh one.
LEMMA MoveDoes ==
  ASSUME SpacesTyped, RowsOK, NEW leaf, NEW i \in Spaces, OpMoveLeaf(leaf, i)
  PROVE  /\ SpacesTyped' /\ RowsOK' /\ Spaces' = Spaces /\ leaves <= leaves'
         /\ \A j \in Spaces : spaces'[j].name = spaces[j].name
         /\ \A j \in Spaces : \A m \in ToSet(spaces'[j].row) :
              /\ m.id = leaf => j = i /\ \E k \in Spaces : m \in ToSet(spaces[k].row)
              /\ m.win # NoWin /\ m.id # leaf => m \in ToSet(spaces[j].row)
<1> DEFINE Recs == [name : Names, row : Seq(LeafRecs)]
<1>1. PICK src : src = CHOOSE j \in SpaceOf(leaf) : TRUE
  OBVIOUS
<1>2. SpaceOf(leaf) # {} /\ i \notin SpaceOf(leaf)
  BY DEF OpMoveLeaf, CanMove
<1>3. src \in SpaceOf(leaf)
  BY <1>1, <1>2
<1>4. PICK l : l = LeafAt(leaf)
  OBVIOUS
<1>5. /\ src \in Spaces /\ leaf \in Ids(spaces[src].row) /\ SpaceOf(leaf) = {src}
      /\ l \in ToSet(spaces[src].row) /\ l.id = leaf
      /\ \A j \in Spaces : leaf \in Ids(spaces[j].row) => j = src
  BY <1>3, <1>4, FoundIn
<1>6. i # src
  BY <1>2, <1>3
<1>7. PICK row : row = spaces[src].row
  OBVIOUS
<1>8. PICK fresh : fresh = Leaf(leaves', NoApp, NoWin)
  OBVIOUS
<1>9. PICK r : r = IF Len(row) = 1 THEN <<fresh>> ELSE Dropped(row, leaf)
  OBVIOUS
<1>10. PICK g : g = Grafted(spaces[i].row, l)
  OBVIOUS
<1>11. /\ leaves' = (IF Len(row) = 1 THEN leaves + 1 ELSE leaves)
       /\ spaces' = [spaces EXCEPT ![src].row = r, ![i].row = Grafted(@, l)] /\ UNCHANGED cur
  BY <1>1, <1>4, <1>7, <1>8, <1>9 DEF OpMoveLeaf
<1>12. /\ spaces \in Seq(Recs) /\ spaces[i] \in Recs /\ spaces[src] \in Recs /\ Spaces = 1..Len(spaces) /\ Len(spaces) \in Nat
       /\ leaves \in Nat
  BY <1>5, SpaceFacts DEF SpacesTyped
<1>13. /\ Row(row) /\ Row(spaces[i].row) /\ Ids(row) \subseteq 1..leaves /\ Ids(spaces[i].row) \subseteq 1..leaves
  BY <1>5, <1>7 DEF RowsOK
<1>14. l \in LeafRecs /\ \A m \in ToSet(row) : m.id = leaf => m = l
  BY <1>5, <1>7, <1>13, SetMembers
<1>15. leaves' \in Nat /\ leaves <= leaves' /\ (Len(row) = 1 => leaves' \notin 1..leaves) /\ 1..leaves \subseteq 1..leaves'
  BY <1>11, <1>12
<1>16. (Len(row) = 1 => leaves' \in 1..leaves')
  BY <1>11, <1>12
<1>17. fresh \in LeafRecs /\ fresh.id = leaves' /\ fresh.win = NoWin
  BY <1>8, <1>15, FreshLeaf
<1>18. /\ Row(r) /\ Ids(r) \subseteq (IF Len(row) = 1 THEN {leaves'} ELSE Ids(row)) /\ leaf \notin Ids(r)
       /\ \A m \in ToSet(r) : m = fresh \/ m \in ToSet(row)
  <2>1. CASE Len(row) = 1
    <3>1. r = <<fresh>>
      BY <1>9, <2>1
    <3>2. leaf # leaves'
      BY <1>5, <1>7, <1>13, <1>15, <2>1
    <3>. QED BY <1>17, <2>1, <3>1, <3>2, OneLeaf
  <2>2. CASE Len(row) # 1
    <3>1. Row(r) /\ ToSet(r) = {m \in ToSet(row) : m.id # leaf}
      BY <1>5, <1>7, <1>9, <1>13, <2>2, DropLeaf
    <3>. QED BY <2>2, <3>1, IdsOfSet
  <2>. QED BY <2>1, <2>2
<1>19. l.id \notin Ids(spaces[i].row)
  BY <1>5, <1>6
<1>20. /\ Row(g) /\ Ids(g) \subseteq Ids(spaces[i].row) \cup {leaf} /\ \A m \in ToSet(g) : m = l \/ m \in ToSet(spaces[i].row)
  BY <1>5, <1>10, <1>13, <1>14, <1>19, GraftLeaf
<1>21. PICK e1 : e1 = [spaces[src] EXCEPT !.row = r]
  OBVIOUS
<1>22. PICK e2 : e2 = [spaces[i] EXCEPT !.row = g]
  OBVIOUS
<1>23. e1 \in Recs /\ e1.name = spaces[src].name /\ e1.row = r
  BY <1>12, <1>18, <1>21 DEF Row
<1>24. e2 \in Recs /\ e2.name = spaces[i].name /\ e2.row = g
  BY <1>12, <1>20, <1>22 DEF Row
<1>25. PICK mid : mid = [spaces EXCEPT ![src] = e1]
  OBVIOUS
<1> HIDE DEF Recs
<1>26. DOMAIN spaces = Spaces
  BY DEF Spaces
<1>27. /\ mid \in Seq(Recs) /\ DOMAIN mid = Spaces /\ mid[src] = e1 /\ mid[i] = spaces[i]
       /\ \A j \in Spaces : j # src => mid[j] = spaces[j]
  BY <1>5, <1>6, <1>12, <1>23, <1>25, <1>26
<1>28. spaces' = [mid EXCEPT ![i] = e2]
  <2>1. spaces' = [spaces EXCEPT ![src].row = r, ![i].row = g]
    BY <1>10, <1>11
  <2>2. spaces' = [spaces EXCEPT ![src] = e1, ![i] = e2]
    BY <1>6, <1>21, <1>22, <1>26, <2>1, <1>5
  <2>. QED BY <1>25, <2>2
<1>29. /\ spaces' \in Seq(Recs) /\ DOMAIN spaces' = Spaces /\ spaces'[src] = e1 /\ spaces'[i] = e2
       /\ \A j \in Spaces : j # src /\ j # i => spaces'[j] = spaces[j]
  BY <1>5, <1>6, <1>24, <1>27, <1>28
<1>30. Spaces' = Spaces
  BY <1>29 DEF Spaces
<1>31. SpacesTyped'
  BY <1>11, <1>15, <1>29, <1>30 DEF SpacesTyped, Recs
<1>32. \A j \in Spaces : spaces'[j].name = spaces[j].name
  BY <1>23, <1>24, <1>29
<1>33. \A j \in Spaces : Row(spaces[j].row) /\ Ids(spaces[j].row) \subseteq 1..leaves
  BY DEF RowsOK
<1>34. \A j \in Spaces : Row(spaces'[j].row) /\ Ids(spaces'[j].row) \subseteq 1..leaves'
  <2>1. Ids(r) \subseteq 1..leaves' /\ Ids(g) \subseteq 1..leaves'
    BY <1>5, <1>7, <1>13, <1>15, <1>16, <1>18, <1>20
  <2>. QED BY <1>15, <1>18, <1>20, <1>23, <1>24, <1>29, <1>33, <2>1
<1>35. ASSUME NEW j \in Spaces, NEW k \in Spaces, j # k
       PROVE  Ids(spaces'[j].row) \cap Ids(spaces'[k].row) = {}
  <2> DEFINE new == IF Len(row) = 1 THEN {leaves'} ELSE {}
  <2>1. \A m \in Spaces : \A x \in Ids(spaces'[m].row) :
          \/ x \in Ids(spaces[m].row) /\ x # leaf
          \/ m = i /\ x = leaf
          \/ m = src /\ x \in new
    <3>1. \A x \in Ids(r) : (x \in Ids(row) \/ x \in new) /\ x # leaf
      BY <1>18
    <3>2. \A m \in Spaces : m # src => leaf \notin Ids(spaces[m].row)
      BY <1>5
    <3>. QED BY <1>6, <1>7, <1>20, <1>23, <1>24, <1>29, <3>1, <3>2
  <2>2. \A m \in Spaces : \A x \in Ids(spaces[m].row) : x \notin new
    BY <1>15, <1>33
  <2>3. leaf \notin new
    BY <1>5, <2>2
  <2>4. Ids(spaces[j].row) \cap Ids(spaces[k].row) = {}
    BY <1>35 DEF RowsOK
  <2> HIDE DEF new
  <2>. QED BY <1>35, <2>1, <2>2, <2>3, <2>4
<1>36. \A j \in Spaces : \A m \in ToSet(spaces'[j].row) : m.win # NoWin => m.app # NoApp
  <2>1. \A j \in Spaces : \A m \in ToSet(spaces[j].row) : m.win # NoWin => m.app # NoApp
    BY DEF RowsOK
  <2>. QED BY <1>5, <1>7, <1>17, <1>18, <1>20, <1>23, <1>24, <1>29, <2>1
<1>37. RowsOK'
  BY <1>30, <1>34, <1>35, <1>36 DEF RowsOK
<1>38. ASSUME NEW j \in Spaces, NEW m \in ToSet(spaces'[j].row)
       PROVE  /\ m.id = leaf => j = i /\ \E k \in Spaces : m \in ToSet(spaces[k].row)
              /\ m.win # NoWin /\ m.id # leaf => m \in ToSet(spaces[j].row)
  <2>1. m.id \in Ids(spaces'[j].row)
    BY DEF ToSet, Ids
  <2>2. CASE j = src
    BY <1>7, <1>17, <1>18, <1>23, <1>29, <2>1, <2>2
  <2>3. CASE j = i
    BY <1>5, <1>20, <1>24, <1>29, <2>3
  <2>4. CASE j # src /\ j # i
    BY <1>5, <1>29, <2>1, <2>4
  <2>. QED BY <2>2, <2>3, <2>4
<1>. QED BY <1>15, <1>30, <1>31, <1>32, <1>37, <1>38
-----------------------------------------------------------------------------
(* What the calls of a script do to the desktop.                           *)

LEMMA SameKeeps ==
  ASSUME SpacesTyped, RowsOK, UNCHANGED <<spaces, cur>>, leaves' \in {leaves, leaves + 1}
  PROVE  Kept /\ WinsStay /\ RightsStay
<1>1. leaves \in Nat
  BY DEF SpacesTyped
<1>2. leaves' \in Nat /\ leaves <= leaves' /\ 1..leaves \subseteq 1..leaves'
  BY <1>1
<1>3. Spaces' = Spaces
  BY DEF Spaces
<1>4. SpacesTyped'
  BY <1>2, <1>3 DEF SpacesTyped
<1>5. RowsOK'
  BY <1>2, <1>3 DEF RowsOK
<1>. QED BY <1>2, <1>3, <1>4, <1>5 DEF Kept, WinsStay, RightsStay

\* A new leaf beside the one that is split.
LEMMA HalveKeeps ==
  ASSUME SpacesTyped, RowsOK, NEW leaf, NEW i \in SpaceOf(leaf), leaves' = leaves + 1, cur' = cur,
         SetRow(i, Halved(spaces[i].row, leaf, Leaf(leaves', NoApp, NoWin)))
  PROVE  /\ Kept /\ WinsStay /\ RightsStay
         /\ \A j \in Spaces' : leaves' \in Ids(spaces'[j].row) => j = i
<1>1. PICK row : row = spaces[i].row
  OBVIOUS
<1>2. i \in Spaces /\ leaf \in Ids(row)
  BY <1>1, FoundIn
<1>3. Row(row) /\ Ids(row) \subseteq 1..leaves /\ leaves \in Nat /\ cur' \in Spaces
  BY <1>1, <1>2 DEF RowsOK, SpacesTyped
<1>4. PICK k : k \in DOMAIN row /\ k = SelectInSeq(row, LAMBDA m : m.id = leaf)
  BY <1>2, <1>3, PlaceOf
<1>5. PICK l : l = Leaf(leaves', NoApp, NoWin)
  OBVIOUS
<1>6. leaves' \in Nat /\ leaves' \notin 1..leaves /\ leaves <= leaves' /\ leaves' \in (leaves + 1)..leaves'
  BY <1>3
<1>7. l \in LeafRecs /\ l.id = leaves' /\ l.win = NoWin /\ l.app = NoApp
  BY <1>5, <1>6, FreshLeaf
<1>8. PICK r : r = Halved(row, leaf, l)
  OBVIOUS
<1>9. Row(r) /\ ToSet(r) = ToSet(row) \cup {l}
  <2>1. r = InsertAt(row, k + 1, l)
    BY <1>4, <1>8 DEF Halved
  <2>. QED BY <1>3, <1>4, <1>6, <1>7, <2>1, InsertLeaf
<1>10. Ids(r) = Ids(row) \cup {leaves'}
  BY <1>7, <1>9, IdsOfSet
<1>11. SetRow(i, r)
  BY <1>1, <1>5, <1>8
<1>12. \A m \in ToSet(r) : m.win # NoWin => m.app # NoApp
  BY <1>1, <1>2, <1>7, <1>9 DEF RowsOK
<1>13. \A x \in Ids(r) : x \in Ids(spaces[i].row) \/ x \in (leaves + 1)..leaves'
  BY <1>1, <1>6, <1>10
<1>14. /\ Kept /\ Spaces' = Spaces /\ spaces'[i].row = r /\ \A j \in Spaces : j # i => spaces'[j] = spaces[j]
  BY <1>2, <1>3, <1>6, <1>9, <1>11, <1>12, <1>13, SetRowKeeps
<1>15. WinsStay /\ RightsStay
  BY <1>1, <1>7, <1>9, <1>14, AppsDiffer DEF WinsStay, RightsStay
<1>16. \A j \in Spaces : Ids(spaces[j].row) \subseteq 1..leaves
  BY DEF RowsOK
<1>. QED BY <1>6, <1>14, <1>15, <1>16

\* The application of a leaf is set.
LEMMA SetAppKeeps ==
  ASSUME SpacesTyped, RowsOK, NEW leaf, NEW i \in SpaceOf(leaf), leaves' = leaves, cur' = cur,
         NEW what \in {"left", "right"}, SetRow(i, SetApp(spaces[i].row, leaf, what))
  PROVE  /\ Kept /\ WinsStay
         /\ \A j \in Spaces' : j \in Spaces /\ \A m \in ToSet(spaces'[j].row) :
              m \in ToSet(spaces[j].row) \/ (j = i /\ m.id = leaf /\ m.app = what)
<1>1. PICK row : row = spaces[i].row
  OBVIOUS
<1>2. i \in Spaces /\ leaf \in Ids(row)
  BY <1>1, FoundIn
<1>3. Row(row) /\ Ids(row) \subseteq 1..leaves /\ leaves \in Nat /\ cur' \in Spaces
  BY <1>1, <1>2 DEF RowsOK, SpacesTyped
<1>4. PICK t : t = SetApp(row, leaf, what)
  OBVIOUS
<1>5. t = [k \in DOMAIN row |-> IF row[k].id = leaf THEN [row[k] EXCEPT !.app = what] ELSE row[k]]
  BY <1>4 DEF SetApp, InRow
<1>6. DOMAIN t = DOMAIN row /\ t = [k \in DOMAIN row |-> t[k]]
  BY <1>5
<1>7. ASSUME NEW k \in DOMAIN row
      PROVE  /\ t[k] \in LeafRecs /\ t[k].id = row[k].id /\ t[k].win = row[k].win /\ (row[k].id # leaf => t[k] = row[k])
             /\ row[k].id = leaf => t[k].app = what
  <2>1. row[k] \in LeafRecs
    BY <1>3 DEF Row
  <2>2. t[k] = IF row[k].id = leaf THEN [row[k] EXCEPT !.app = what] ELSE row[k]
    BY <1>5
  <2>. QED BY <2>1, <2>2 DEF LeafRecs, Apps
<1>8. Row(t) /\ Ids(t) = Ids(row) /\ \A m \in ToSet(t) : m.id # leaf => m \in ToSet(row)
  BY <1>3, <1>6, <1>7, InRowKeeps
<1>9. \A m \in ToSet(t) : m.id = leaf => m.app = what
  BY <1>6, <1>7 DEF ToSet
<1>10. \A m \in ToSet(t) : \E n \in ToSet(row) : n.id = m.id /\ n.win = m.win
  BY <1>6, <1>7 DEF ToSet
<1>11. SetRow(i, t)
  BY <1>1, <1>4
<1>12. \A m \in ToSet(t) : m.win # NoWin => m.app # NoApp
  BY <1>1, <1>2, <1>8, <1>9, AppsDiffer DEF RowsOK
<1>13. leaves' \in Nat /\ leaves <= leaves'
  BY <1>3
<1>14. \A x \in Ids(t) : x \in Ids(spaces[i].row) \/ x \in (leaves + 1)..leaves'
  BY <1>1, <1>8
<1>15. /\ Kept /\ Spaces' = Spaces /\ spaces'[i].row = t /\ \A j \in Spaces : j # i => spaces'[j] = spaces[j]
  BY <1>2, <1>3, <1>8, <1>11, <1>12, <1>13, <1>14, SetRowKeeps
<1>16. WinsStay
  BY <1>1, <1>10, <1>15 DEF WinsStay
<1>17. ASSUME NEW j \in Spaces, NEW m \in ToSet(spaces'[j].row)
       PROVE  m \in ToSet(spaces[j].row) \/ (j = i /\ m.id = leaf /\ m.app = what)
  BY <1>1, <1>8, <1>9, <1>15
<1>. QED BY <1>15, <1>16, <1>17
-----------------------------------------------------------------------------
(* What a step leaves alone.                                               *)

\* Only fresh workspaces are named.
NamesGrow == Spaces \subseteq Spaces' /\ \A i \in Spaces : spaces[i].name = AutoName \/ spaces'[i].name = spaces[i].name

LEMMA KeptGrow == Kept => NamesGrow
BY DEF Kept, NamesGrow

LEMMA RuledWindow ==
  ASSUME RowsOK, NEW i \in Spaces, NEW l \in ToSet(spaces[i].row), Ruled(l)
  PROVE  l.win \in Windows
<1>1. l \in LeafRecs
  BY SetMembers DEF RowsOK
<1>. QED BY <1>1 DEF LeafRecs, Ruled

LEMMA PlacedStays ==
  ASSUME NamesChosen, NamesGrow, errors \subseteq errors', NEW i \in Spaces, NEW l, NEW m,
         l.win \in Windows, m.win = l.win, Placed(m, i)
  PROVE  Placed(l, i)'
BY DEF NamesChosen, NamesGrow, Placed

\* As long as events and handler stay, so do the claims.
LEMMA ClaimsStay ==
  ASSUME NamesChosen, Claims, NamesGrow, WinsStay, RowsOK', UNCHANGED <<managed, errors>>,
         engine'.leaf = engine.leaf, engine'.win = engine.win, engine'.at = "rest" <=> engine.at = "rest"
  PROVE  Claims'
<1> SUFFICES ASSUME NEW i \in Spaces', NEW l \in ToSet(spaces'[i].row), Ruled(l) PROVE Claim(l, i)'
  BY DEF Claims, Ruled
<1>1. i \in Spaces /\ l.win \in Windows
  <2>1. l \in LeafRecs
    BY SetMembers DEF RowsOK
  <2>. QED BY <2>1 DEF WinsStay, Ruled, LeafRecs
<1>2. PICK m \in ToSet(spaces[i].row) : m.id = l.id /\ m.win = l.win
  BY DEF WinsStay, Ruled
<1>3. Claim(m, i)
  BY <1>1, <1>2 DEF Claims, Ruled
<1>4. Placed(m, i) => Placed(l, i)'
  BY <1>1, <1>2, PlacedStays
<1>5. Coming(m) => Coming(l)'
  BY <1>2 DEF Coming
<1>6. (Unheard(m) => Unheard(l)') /\ (Handled(m) <=> Handled(l)')
  BY <1>2 DEF Unheard, Handled
<1>. QED BY <1>2, <1>3, <1>4, <1>5, <1>6 DEF Claim

\* The handler ends with an error.
LEMMA ClaimsFail ==
  ASSUME NamesChosen, Claims, NamesGrow, WinsStay, RowsOK', UNCHANGED managed, engine.at # "rest", Fails
  PROVE  Claims'
<1> SUFFICES ASSUME NEW i \in Spaces', NEW l \in ToSet(spaces'[i].row), Ruled(l) PROVE Claim(l, i)'
  BY DEF Claims, Ruled
<1>1. i \in Spaces /\ l.win \in Windows
  <2>1. l \in LeafRecs
    BY SetMembers DEF RowsOK
  <2>. QED BY <2>1 DEF WinsStay, Ruled, LeafRecs
<1>2. PICK m \in ToSet(spaces[i].row) : m.id = l.id /\ m.win = l.win
  BY DEF WinsStay, Ruled
<1>3. Claim(m, i)
  BY <1>1, <1>2 DEF Claims, Ruled
<1>4. engine'.at = "rest" /\ errors' = errors \cup {engine.win}
  BY DEF Fails, Resting
<1>5. Placed(m, i) => Placed(l, i)'
  BY <1>1, <1>2, <1>4, PlacedStays
<1>6. Coming(m) => Coming(l)'
  BY <1>2 DEF Coming
<1>7. (Unheard(m) => Unheard(l)') /\ ~Handled(l)'
  BY <1>2, <1>4 DEF Unheard, Handled
<1>8. engine.win = m.win => Placed(l, i)'
  BY <1>2, <1>4 DEF Placed
<1>. QED BY <1>2, <1>3, <1>5, <1>6, <1>7, <1>8 DEF Claim

LEMMA EngineStays ==
  ASSUME EngineOK, Kept, UNCHANGED engine
  PROVE  EngineOK'
BY DEF EngineOK, Kept

LEMMA ScriptsStay ==
  ASSUME ScriptsOK, Kept, UNCHANGED script
  PROVE  ScriptsOK'
BY DEF ScriptsOK, Kept, Building

\* A script goes on, other than to the naming of a workspace.
LEMMA ScriptGoes ==
  ASSUME ScriptsOK, AddedApart, Kept, UNCHANGED engine, NEW s \in RuleScripts, NEW r, script' = [script EXCEPT ![s] = r],
         r \in [at : {"rest", "add", "check", "split", "left", "right"}, ws : Nat, leaf : Nat, new : Nat, runs : Nat],
         r.at \notin {"rest", "add"} => r.ws \in Spaces /\ spaces[r.ws].name = WantedBy(s)
  PROVE  ScriptsOK' /\ AddedApart'
<1>1. /\ script'[s] = r /\ \A t \in RuleScripts : t # s => script'[t] = script[t]
      /\ script' \in [RuleScripts -> [at : {"rest", "add", "rename", "check", "split", "left", "right"},
                                     ws : Nat, leaf : Nat, new : Nat, runs : Nat]]
      /\ r.at # "rename"
  BY DEF ScriptsOK
<1>2. ASSUME NEW t \in RuleScripts
      PROVE  /\ script'[t].at = "rename" => script'[t].ws \in Spaces' /\ spaces'[script'[t].ws].name = AutoName
             /\ script'[t].at = "check" \/ Building(t)' =>
                  script'[t].ws \in Spaces' /\ spaces'[script'[t].ws].name = WantedBy(t)
  BY <1>1 DEF ScriptsOK, Building, Kept
<1>3. ScriptsOK'
  BY <1>1, <1>2 DEF ScriptsOK
<1>4. AddedApart'
  BY <1>1 DEF AddedApart
<1>. QED BY <1>3, <1>4

\* The least of the workspaces found is one of them.
LEMMA FoundSpace ==
  ASSUME SpacesTyped, NEW name, Named(name) # {}
  PROVE  Min(Named(name)) \in Spaces /\ spaces[Min(Named(name))].name = name /\ Min(Named(name)) \in Nat
<1>1. Named(name) \in SUBSET Nat
  BY SpaceFacts DEF Named
<1>2. Min(Named(name)) \in Named(name)
  BY <1>1, LeastNat
<1>. QED BY <1>1, <1>2 DEF Named
-----------------------------------------------------------------------------
(* Placement: the initial state, windows and the user.                     *)

LEMMA PlaceInitHolds == RulesInit => PlaceInv
<1> SUFFICES ASSUME RulesInit PROVE PlaceInv
  OBVIOUS
<1>1. PICK l : l = Leaf(1, NoApp, NoWin)
  OBVIOUS
<1>2. PICK e : e = [name |-> AutoName, row |-> <<l>>]
  OBVIOUS
<1>3. spaces = <<e>> /\ cur = 1 /\ leaves = 1 /\ managed = <<>> /\ engine = Resting /\ errors = {}
  BY <1>1, <1>2 DEF RulesInit
<1>4. l \in LeafRecs /\ l.id = 1 /\ l.win = NoWin /\ l.app = NoApp
  BY <1>1, FreshLeaf
<1>5. Row(<<l>>) /\ ToSet(<<l>>) = {l} /\ Ids(<<l>>) = {1}
  BY <1>4, OneLeaf
<1>6. e \in [name : Names, row : Seq(LeafRecs)] /\ e.row = <<l>>
  BY <1>2, <1>5 DEF Row, Names
<1>7. spaces \in Seq([name : Names, row : Seq(LeafRecs)]) /\ Spaces = {1} /\ spaces[1] = e
  BY <1>3, <1>6 DEF Spaces
<1>8. SpacesTyped
  BY <1>3, <1>7 DEF SpacesTyped
<1>9. RowsOK
  BY <1>3, <1>4, <1>5, <1>6, <1>7 DEF RowsOK
<1>10. EventsTyped /\ EngineOK
  <2>1. managed \in Seq([leaf : Nat, win : Windows])
    BY <1>3
  <2>. QED BY <1>3, <2>1 DEF EventsTyped, EngineOK, Resting
<1>11. ScriptsOK /\ AddedApart
  BY DEF RulesInit, ScriptsOK, AddedApart, Building
<1>12. Claims
  BY <1>4, <1>5, <1>6, <1>7 DEF Claims, Ruled
<1>. QED BY <1>8, <1>9, <1>10, <1>11, <1>12 DEF PlaceInv

LEMMA ManagePlaces ==
  ASSUME NamesChosen, PlaceInv, NEW win \in Windows, manage(win)
  PROVE  PlaceInv'
<1> USE DEF PlaceInv
<1>1. Kept
  BY ManageDoes
<1>2. PICK id \in Nat :
        /\ managed' = Append(managed, [leaf |-> id, win |-> win])
        /\ \A i \in Spaces' : \A l \in ToSet(spaces'[i].row) :
             IF l.id = id THEN l.win = win ELSE i \in Spaces /\ l \in ToSet(spaces[i].row)
  BY ManageDoes
<1>3. UNCHANGED <<engine, errors, script>>
  BY DEF manage
<1>4. SpacesTyped' /\ RowsOK' /\ EngineOK' /\ ScriptsOK' /\ AddedApart'
  BY <1>1, <1>3, EngineStays, ScriptsStay DEF Kept, AddedApart
<1>5. PICK ev : ev = [leaf |-> id, win |-> win]
  OBVIOUS
<1>6. PICK n : n = Len(managed) + 1
  OBVIOUS
<1>7. /\ managed' \in Seq([leaf : Nat, win : Windows]) /\ DOMAIN managed' = DOMAIN managed \cup {n} /\ managed'[n] = ev
      /\ \A k \in DOMAIN managed : managed'[k] = managed[k] /\ k < n /\ ~(k > n)
      /\ ~(n > n)
  <2>1. ev \in [leaf : Nat, win : Windows]
    BY <1>5
  <2> DEFINE Evs == [leaf : Nat, win : Windows]
  <2>2. managed \in Seq(Evs) /\ ev \in Evs /\ managed' = Append(managed, ev)
    BY <1>2, <1>5, <2>1 DEF EventsTyped
  <2> HIDE DEF Evs
  <2>3. managed' \in Seq(Evs) /\ DOMAIN managed' = DOMAIN managed \cup {n} /\ managed'[n] = ev
    BY <1>6, <2>2
  <2>4. \A k \in DOMAIN managed : managed'[k] = managed[k] /\ k < n /\ ~(k > n)
    BY <1>6, <2>2
  <2>5. ~(n > n)
    BY <1>6, <2>2
  <2>. QED BY <2>3, <2>4, <2>5 DEF Evs
<1>8. EventsTyped'
  BY <1>3, <1>7 DEF EventsTyped
<1>9. ev.leaf = id /\ ev.win = win
  BY <1>5
<1>10. ASSUME NEW i \in Spaces', NEW l \in ToSet(spaces'[i].row), Ruled(l) PROVE Claim(l, i)'
  <2>1. CASE l.id = id
    <3>1. l.win = win
      BY <1>2, <2>1
    <3>2. n \in DOMAIN managed' /\ managed'[n].leaf = l.id /\ managed'[n].win = l.win
      BY <1>7, <1>9, <2>1, <3>1
    <3>3. \A m \in DOMAIN managed' : ~(m > n)
      BY <1>7
    <3>. QED BY <3>2, <3>3 DEF Claim, Coming
  <2>2. CASE l.id # id
    <3>1. i \in Spaces /\ l \in ToSet(spaces[i].row)
      BY <1>2, <2>2
    <3>2. Claim(l, i) /\ l.win \in Windows
      BY <1>10, <3>1, RuledWindow DEF Claims
    <3>3. Placed(l, i) => Placed(l, i)'
      BY <1>1, <1>3, <3>1, <3>2, KeptGrow, PlacedStays
    <3>4. Coming(l) => Coming(l)'
      <4>1. SUFFICES ASSUME NEW k \in DOMAIN managed, managed[k].leaf = l.id, managed[k].win = l.win,
                            \A m \in DOMAIN managed : m > k => managed[m].leaf # l.id
                     PROVE  Coming(l)'
        BY DEF Coming
      <4>2. k \in DOMAIN managed' /\ managed'[k].leaf = l.id /\ managed'[k].win = l.win
        BY <1>7, <4>1
      <4>3. \A m \in DOMAIN managed' : m > k => managed'[m].leaf # l.id
        BY <1>7, <1>9, <2>2, <4>1
      <4>. QED BY <4>2, <4>3 DEF Coming
    <3>5. Unheard(l) => Unheard(l)'
      BY <1>7, <1>9, <2>2 DEF Unheard
    <3>6. Handled(l)' <=> Handled(l)
      BY <1>3 DEF Handled
    <3>7. engine' = engine
      BY <1>3
    <3>. QED BY <3>2, <3>3, <3>4, <3>5, <3>6, <3>7 DEF Claim
  <2>. QED BY <2>1, <2>2
<1>11. Claims'
  BY <1>10 DEF Claims, Ruled
<1>. QED BY <1>4, <1>8, <1>11

LEMMA UnmanagePlaces ==
  ASSUME NamesChosen, PlaceInv, NEW win \in Windows, unmanage(win)
  PROVE  PlaceInv'
<1> USE DEF PlaceInv
<1>1. Kept /\ WinsStay
  BY UnmanageDoes
<1>2. UNCHANGED <<managed, engine, errors, script>>
  BY DEF unmanage, rule
<1>3. SpacesTyped' /\ RowsOK' /\ EngineOK' /\ ScriptsOK' /\ AddedApart'
  BY <1>1, <1>2, EngineStays, ScriptsStay DEF Kept, AddedApart
<1>4. EventsTyped'
  BY <1>2 DEF EventsTyped
<1>5. Claims'
  BY <1>1, <1>2, <1>3, KeptGrow, ClaimsStay
<1>. QED BY <1>3, <1>4, <1>5

LEMMA SwitchPlaces ==
  ASSUME NamesChosen, PlaceInv, SwitchTo
  PROVE  PlaceInv'
<1>1. cur' \in Spaces /\ UNCHANGED <<spaces, leaves, managed, engine, errors, script>>
  BY DEF SwitchTo, rule
<1>2. Spaces' = Spaces
  BY <1>1 DEF Spaces
<1>3. SpacesTyped' /\ RowsOK' /\ EventsTyped' /\ EngineOK' /\ ScriptsOK' /\ AddedApart'
  BY <1>1, <1>2 DEF PlaceInv, SpacesTyped, RowsOK, EventsTyped, EngineOK, ScriptsOK, AddedApart, Building
<1>4. Claims'
  BY <1>1, <1>2 DEF PlaceInv, Claims, Claim, Coming, Unheard, Handled, Placed
<1>. QED BY <1>3, <1>4 DEF PlaceInv
-----------------------------------------------------------------------------
(* Placement: the handler of window.managed.                               *)

\* The next event is taken up, or passed over when no rule matches.
LEMMA MatchPlaces ==
  ASSUME NamesChosen, PlaceInv, Match
  PROVE  PlaceInv'
<1> USE DEF PlaceInv
<1> DEFINE Evs == [leaf : Nat, win : Windows]
<1>1. /\ engine.at = "rest" /\ managed # <<>> /\ managed' = Tail(managed)
      /\ UNCHANGED <<spaces, cur, leaves, errors, script>>
  BY DEF Match, At
<1>2. managed \in Seq(Evs)
  BY DEF EventsTyped
<1>3. PICK ev : ev = Head(managed)
  OBVIOUS
<1> HIDE DEF Evs
<1>4. PICK n : n = Len(managed)
  OBVIOUS
<1>5. /\ managed' \in Seq(Evs) /\ DOMAIN managed' = 1..(n - 1) /\ DOMAIN managed = 1..n /\ n \in Nat
      /\ managed[1] = ev /\ ev \in Evs /\ 1 \in DOMAIN managed
      /\ \A k \in 1..(n - 1) : managed'[k] = managed[k + 1]
  BY <1>1, <1>2, <1>3, <1>4
<1>6. \A k \in DOMAIN managed' : k + 1 \in DOMAIN managed /\ managed'[k] = managed[k + 1] /\ k \in Nat /\ k + 1 > 1
  BY <1>5
<1>7. \A k \in DOMAIN managed : k = 1 \/ (k - 1 \in DOMAIN managed' /\ managed'[k - 1] = managed[k] /\ k \in Nat)
  <2>1. ASSUME NEW k \in 1..n, k # 1 PROVE k - 1 \in 1..(n - 1) /\ (k - 1) + 1 = k
    BY <1>5, <2>1
  <2>. QED BY <1>5, <2>1
<1>8. ev.leaf \in Nat /\ ev.win \in Windows
  BY <1>5 DEF Evs
<1>9. engine' = IF RuleFor(ev.win) = NoName THEN Resting ELSE [at |-> "tree", leaf |-> ev.leaf, win |-> ev.win, ws |-> 0]
  BY <1>3 DEF Match
<1>10. Spaces' = Spaces
  BY <1>1 DEF Spaces
<1>11. SpacesTyped' /\ RowsOK' /\ EventsTyped'
  BY <1>1, <1>5, <1>10 DEF SpacesTyped, RowsOK, EventsTyped, Evs
<1>12. EngineOK'
  BY <1>8, <1>9 DEF EngineOK, Resting
<1>13. ScriptsOK' /\ AddedApart'
  <2>1. engine'.at # "rename"
    BY <1>9 DEF Resting
  <2>. QED BY <1>1, <1>10, <2>1 DEF ScriptsOK, AddedApart, Building
<1>14. ASSUME NEW i \in Spaces, NEW l \in ToSet(spaces[i].row), Ruled(l) PROVE Claim(l, i)'
  <2>1. Claim(l, i) /\ l.win \in Windows
    BY <1>14, RuledWindow DEF Claims
  <2>2. CASE Unheard(l)
    <3>1. Unheard(l)'
      BY <1>6, <2>2 DEF Unheard
    <3>2. ev.leaf # l.id
      BY <1>5, <2>2 DEF Unheard
    <3>3. ~Handled(l)'
      BY <1>9, <3>2 DEF Handled, Resting
    <3>4. ~Handled(l) /\ ~Coming(l)
      BY <1>1, <2>2 DEF Handled, Coming, Unheard
    <3>5. Placed(l, i)'
      BY <1>1, <2>1, <3>4 DEF Claim, Placed
    <3>. QED BY <3>1, <3>3, <3>5 DEF Claim
  <2>3. CASE ~Unheard(l)
    <3>1. Coming(l)
      BY <2>1, <2>3 DEF Claim
    <3>2. PICK k \in DOMAIN managed : /\ managed[k].leaf = l.id /\ managed[k].win = l.win
                                       /\ \A m \in DOMAIN managed : m > k => managed[m].leaf # l.id
      BY <3>1 DEF Coming
    <3>3. CASE k = 1
      <4>1. \A m \in DOMAIN managed' : managed'[m].leaf # l.id
        BY <1>6, <3>2, <3>3
      <4>2. ev.leaf = l.id /\ ev.win = l.win
        BY <1>5, <3>2, <3>3
      <4>3. Handled(l)' /\ engine'.win = l.win
        BY <1>9, <1>14, <4>2 DEF Ruled, Handled
      <4>. QED BY <4>1, <4>3 DEF Claim, Unheard
    <3>4. CASE k # 1
      <4>1. k - 1 \in DOMAIN managed' /\ managed'[k - 1] = managed[k] /\ k \in Nat
        BY <1>7, <3>4
      <4>2. \A m \in DOMAIN managed' : m > k - 1 => managed'[m].leaf # l.id
        <5> SUFFICES ASSUME NEW m \in DOMAIN managed', m > k - 1 PROVE managed'[m].leaf # l.id
          OBVIOUS
        <5>1. m + 1 > k
          BY <1>6, <4>1
        <5>. QED BY <1>6, <3>2, <5>1
      <4>3. Coming(l)'
        BY <3>2, <4>1, <4>2 DEF Coming
      <4>. QED BY <4>3 DEF Claim
    <3>. QED BY <3>3, <3>4
  <2>. QED BY <2>2, <2>3
<1>15. Claims'
  BY <1>1, <1>10, <1>14 DEF Claims, Ruled
<1>. QED BY <1>11, <1>12, <1>13, <1>15

LEMMA TreePlaces ==
  ASSUME NamesChosen, PlaceInv, Tree
  PROVE  PlaceInv'
<1> USE DEF PlaceInv
<1> DEFINE found == Named(RuleFor(engine.win))
<1>1. /\ engine.at = "tree" /\ UNCHANGED <<spaces, cur, leaves, managed, errors, script>>
      /\ engine' = IF found = {} THEN [engine EXCEPT !.at = "add"] ELSE [engine EXCEPT !.at = "move", !.ws = Min(found)]
  BY DEF Tree, At, Looked
<1>2. found # {} => Min(found) \in Spaces /\ spaces[Min(found)].name = RuleFor(engine.win) /\ Min(found) \in Nat
  BY FoundSpace
<1> HIDE DEF found
<1>3. Spaces' = Spaces
  BY <1>1 DEF Spaces
<1>4. engine \in [at : {"rest", "tree", "add", "rename", "move"}, leaf : Nat, win : Windows \cup {NoWin}, ws : Nat]
  BY DEF EngineOK
<1>5. engine'.leaf = engine.leaf /\ engine'.win = engine.win /\ engine'.at \in {"add", "move"}
  BY <1>1, <1>4
<1>6. EngineOK'
  BY <1>1, <1>2, <1>3, <1>4 DEF EngineOK
<1>7. SpacesTyped' /\ RowsOK' /\ EventsTyped' /\ ScriptsOK' /\ AddedApart'
  BY <1>1, <1>3, <1>5 DEF SpacesTyped, RowsOK, EventsTyped, ScriptsOK, AddedApart, Building
<1>8. (engine.at # "rest") /\ (engine'.at # "rest")
  BY <1>1, <1>5
<1>9. Claims'
  BY <1>1, <1>3, <1>5, <1>8 DEF Claims, Claim, Coming, Unheard, Handled, Placed
<1>. QED BY <1>6, <1>7, <1>9

\* The handler ends; what its last call did to the workspaces may count.
LEMMA FailPlaces ==
  ASSUME NamesChosen, PlaceInv, engine.at # "rest", Fails, UNCHANGED script,
         SpacesTyped', RowsOK', NamesGrow, WinsStay, ScriptsOK'
  PROVE  PlaceInv'
<1> USE DEF PlaceInv
<1>1. managed' = managed /\ engine' = Resting /\ errors' = errors \cup {engine.win}
  BY DEF Fails
<1>2. engine.win \in Windows
  BY DEF EngineOK
<1>3. EventsTyped'
  BY <1>1, <1>2 DEF EventsTyped
<1>4. EngineOK' /\ AddedApart'
  BY <1>1 DEF EngineOK, Resting, AddedApart
<1>5. Claims'
  BY <1>1, ClaimsFail
<1>. QED BY <1>3, <1>4, <1>5

LEMMA AddPlaces ==
  ASSUME NamesChosen, PlaceInv, Add
  PROVE  PlaceInv'
<1> USE DEF PlaceInv
<1>1. engine.at = "add" /\ engine.at # "rest" /\ UNCHANGED script
  BY DEF Add, At
<1>2. CASE OpAddWorkspace /\ engine' = [engine EXCEPT !.at = "rename", !.ws = Len(spaces')] /\ UNCHANGED <<managed, errors>>
  <2>1. /\ Kept /\ WinsStay
        /\ Spaces' = Spaces \cup {Len(spaces')} /\ Len(spaces') \notin Spaces /\ Len(spaces') \in Nat
    BY <1>2, AddKeeps
  <2>2. PICK n : n = Len(spaces')
    OBVIOUS
  <2>3. n \in Spaces' /\ n \notin Spaces /\ n \in Nat /\ spaces'[n].name = AutoName
    BY <2>1, <2>2 DEF Kept
  <2>4. engine \in [at : {"rest", "tree", "add", "rename", "move"}, leaf : Nat, win : Windows \cup {NoWin}, ws : Nat]
    BY DEF EngineOK
  <2>5. /\ engine' \in [at : {"rest", "tree", "add", "rename", "move"}, leaf : Nat, win : Windows \cup {NoWin}, ws : Nat]
        /\ engine'.at = "rename" /\ engine'.ws = n /\ engine'.leaf = engine.leaf /\ engine'.win = engine.win
    BY <1>2, <2>2, <2>3, <2>4
  <2>6. EngineOK'
    BY <1>1, <2>3, <2>5 DEF EngineOK
  <2>7. SpacesTyped' /\ RowsOK' /\ EventsTyped' /\ ScriptsOK'
    BY <1>1, <1>2, <2>1, ScriptsStay DEF Kept, EventsTyped
  <2>8. AddedApart'
    BY <1>1, <2>3, <2>5 DEF AddedApart, ScriptsOK
  <2>9. Claims'
    BY <1>1, <1>2, <2>1, <2>5, <2>7, KeptGrow, ClaimsStay
  <2>. QED BY <2>6, <2>7, <2>8, <2>9
<1>3. CASE TimesOut(OpAddWorkspace)
  <2>1. Fails /\ (OpAddWorkspace \/ UNCHANGED <<spaces, cur, leaves>>)
    BY <1>3 DEF TimesOut
  <2>2. Kept /\ WinsStay
    BY <2>1, AddKeeps, SameKeeps
  <2>3. SpacesTyped' /\ RowsOK' /\ NamesGrow /\ ScriptsOK'
    BY <1>1, <2>2, KeptGrow, ScriptsStay DEF Kept
  <2>. QED BY <1>1, <2>1, <2>2, <2>3, FailPlaces
<1>. QED BY <1>2, <1>3 DEF Add

LEMMA RenamePlaces ==
  ASSUME NamesChosen, PlaceInv, Rename
  PROVE  PlaceInv'
<1> USE DEF PlaceInv
<1> DEFINE op == OpRenameWorkspace(engine.ws, RuleFor(engine.win))
<1>1. /\ engine.at = "rename" /\ engine.at # "rest" /\ UNCHANGED script
      /\ \/ op /\ engine' = [engine EXCEPT !.at = "move"] /\ UNCHANGED <<managed, errors>>
         \/ TimesOut(op)
  BY DEF Rename, At, EngineTo
<1>2. engine.ws \in Spaces /\ spaces[engine.ws].name = AutoName /\ RuleFor(engine.win) \in Names
  BY <1>1 DEF EngineOK, Names
<1>3. ASSUME op
      PROVE  /\ SpacesTyped' /\ RowsOK' /\ Spaces' = Spaces /\ NamesGrow /\ WinsStay /\ ScriptsOK'
             /\ spaces'[engine.ws].name = RuleFor(engine.win)
  <2>1. /\ SpacesTyped' /\ RowsOK' /\ Spaces' = Spaces /\ leaves' = leaves /\ cur' = cur
        /\ \A j \in Spaces : spaces'[j].row = spaces[j].row
        /\ spaces'[engine.ws].name = RuleFor(engine.win)
        /\ \A j \in Spaces : j # engine.ws => spaces'[j].name = spaces[j].name
    BY <1>2, <1>3, RenameKeeps
  <2>2. NamesGrow /\ WinsStay
    BY <1>2, <2>1 DEF NamesGrow, WinsStay
  <2>3. ScriptsOK'
    BY <1>1, <1>2, <2>1 DEF ScriptsOK, AddedApart, Building, NamesChosen
  <2>. QED BY <2>1, <2>2, <2>3
<1>4. CASE op /\ engine' = [engine EXCEPT !.at = "move"] /\ UNCHANGED <<managed, errors>>
  <2>1. engine \in [at : {"rest", "tree", "add", "rename", "move"}, leaf : Nat, win : Windows \cup {NoWin}, ws : Nat]
    BY DEF EngineOK
  <2>2. /\ engine' \in [at : {"rest", "tree", "add", "rename", "move"}, leaf : Nat, win : Windows \cup {NoWin}, ws : Nat]
        /\ engine'.at = "move" /\ engine'.ws = engine.ws /\ engine'.leaf = engine.leaf /\ engine'.win = engine.win
    BY <1>4, <2>1
  <2>3. EngineOK'
    BY <1>1, <1>2, <1>3, <1>4, <2>2 DEF EngineOK
  <2>4. EventsTyped' /\ AddedApart'
    BY <1>1, <1>4, <2>2 DEF EventsTyped, AddedApart
  <2>5. Claims'
    BY <1>1, <1>3, <1>4, <2>2, ClaimsStay
  <2>. QED BY <1>3, <1>4, <2>3, <2>4, <2>5
<1>5. CASE TimesOut(op)
  <2>1. Fails /\ (op \/ UNCHANGED <<spaces, cur, leaves>>)
    BY <1>5 DEF TimesOut
  <2>2. CASE op
    BY <1>1, <1>3, <2>1, <2>2, FailPlaces
  <2>3. CASE UNCHANGED <<spaces, cur, leaves>>
    <3>1. Kept /\ WinsStay
      BY <2>3, SameKeeps
    <3>2. SpacesTyped' /\ RowsOK' /\ NamesGrow /\ ScriptsOK'
      BY <1>1, <3>1, KeptGrow, ScriptsStay DEF Kept
    <3>. QED BY <1>1, <2>1, <3>1, <3>2, FailPlaces
  <2>. QED BY <2>1, <2>2, <2>3
<1>. QED BY <1>1, <1>4, <1>5

\* Whatever window is at the leaf: if it is another one, its own event follows.
LEMMA MovePlaces ==
  ASSUME NamesChosen, PlaceInv, Move
  PROVE  PlaceInv'
<1> USE DEF PlaceInv
<1> DEFINE op == OpMoveLeaf(engine.leaf, engine.ws)
<1>1. /\ engine.at = "move" /\ engine.at # "rest" /\ UNCHANGED script
      /\ \/ op /\ engine' = Resting /\ UNCHANGED <<managed, errors>>
         \/ TimesOut(op)
         \/ Fails /\ UNCHANGED <<spaces, cur, leaves>>
  BY DEF Move, At
<1>2. engine.ws \in Spaces /\ spaces[engine.ws].name = RuleFor(engine.win) /\ engine.win \in Windows
  BY <1>1 DEF EngineOK
<1>3. CASE op /\ engine' = Resting /\ managed' = managed /\ errors \subseteq errors' /\ errors' \subseteq errors \cup {engine.win}
  <2>1. /\ SpacesTyped' /\ RowsOK' /\ Spaces' = Spaces /\ leaves <= leaves'
        /\ \A j \in Spaces : spaces'[j].name = spaces[j].name
        /\ \A j \in Spaces : \A m \in ToSet(spaces'[j].row) :
             /\ m.id = engine.leaf => j = engine.ws /\ \E k \in Spaces : m \in ToSet(spaces[k].row)
             /\ m.win # NoWin /\ m.id # engine.leaf => m \in ToSet(spaces[j].row)
    BY <1>2, <1>3, MoveDoes
  <2>2. NamesGrow
    BY <2>1 DEF NamesGrow
  <2>3. EventsTyped' /\ EngineOK' /\ AddedApart'
    BY <1>1, <1>2, <1>3 DEF EventsTyped, EngineOK, Resting, AddedApart
  <2>4. ScriptsOK'
    BY <1>1, <2>1 DEF ScriptsOK, Building
  <2>5. ASSUME NEW j \in Spaces', NEW m \in ToSet(spaces'[j].row), Ruled(m) PROVE Claim(m, j)'
    <3>1. (Coming(m) => Coming(m)') /\ (Unheard(m) => Unheard(m)') /\ ~Handled(m)'
      BY <1>3 DEF Coming, Unheard, Handled, Resting
    <3>2. CASE m.id = engine.leaf
      <4>1. PICK k \in Spaces : m \in ToSet(spaces[k].row)
        BY <2>1, <3>2
      <4>2. Claim(m, k)
        BY <2>5, <4>1 DEF Claims
      <4>3. Handled(m)
        BY <1>1, <3>2 DEF Handled
      <4>4. engine.win = m.win => Placed(m, j)'
        BY <1>2, <2>1, <3>2 DEF Placed
      <4>. QED BY <3>1, <4>2, <4>3, <4>4 DEF Claim
    <3>3. CASE m.id # engine.leaf
      <4>1. j \in Spaces /\ m \in ToSet(spaces[j].row)
        BY <2>1, <2>5, <3>3 DEF Ruled
      <4>2. Claim(m, j) /\ m.win \in Windows /\ ~Handled(m)
        BY <2>5, <3>3, <4>1, RuledWindow DEF Claims, Handled
      <4>3. Placed(m, j) => Placed(m, j)'
        BY <1>3, <2>2, <4>1, <4>2, PlacedStays
      <4>. QED BY <3>1, <4>2, <4>3 DEF Claim
    <3>. QED BY <3>2, <3>3
  <2>6. Claims'
    BY <2>5 DEF Claims, Ruled
  <2>. QED BY <2>1, <2>3, <2>4, <2>6
<1>4. CASE Fails /\ UNCHANGED <<spaces, cur, leaves>>
  <2>1. Kept /\ WinsStay
    BY <1>4, SameKeeps
  <2>2. SpacesTyped' /\ RowsOK' /\ NamesGrow /\ ScriptsOK'
    BY <1>1, <2>1, KeptGrow, ScriptsStay DEF Kept
  <2>. QED BY <1>1, <1>4, <2>1, <2>2, FailPlaces
<1>5. CASE TimesOut(op)
  <2>1. Fails /\ (op \/ UNCHANGED <<spaces, cur, leaves>>)
    BY <1>5 DEF TimesOut
  <2>2. CASE op
    BY <1>3, <2>1, <2>2 DEF Fails
  <2>. QED BY <1>4, <2>1, <2>2
<1>. QED BY <1>1, <1>3, <1>4, <1>5
-----------------------------------------------------------------------------
(* Placement: scripts.                                                     *)

ScriptRecs == [at : {"rest", "add", "rename", "check", "split", "left", "right"}, ws : Nat, leaf : Nat, new : Nat, runs : Nat]

\* A call of a script that names no workspace.
LEMMA ScriptPlaces ==
  ASSUME NamesChosen, PlaceInv, Kept, WinsStay, UNCHANGED <<managed, engine, errors>>, ScriptsOK', AddedApart'
  PROVE  PlaceInv'
<1>1. SpacesTyped' /\ RowsOK' /\ EventsTyped' /\ EngineOK'
  BY EngineStays DEF PlaceInv, Kept, EventsTyped
<1>2. Claims'
  BY <1>1, KeptGrow, ClaimsStay DEF PlaceInv
<1>. QED BY <1>1, <1>2 DEF PlaceInv

LEMMA WorkspaceObjPlaces ==
  ASSUME NamesChosen, PlaceInv, NEW s \in RuleScripts, workspaceObj(s)
  PROVE  PlaceInv'
<1> DEFINE found == Named(WantedBy(s))
<1>1. PICK r0 : r0 = [script[s] EXCEPT !.runs = @ + 1]
  OBVIOUS
<1>2. PICK r : r = IF found = {} THEN [r0 EXCEPT !.at = "add"] ELSE [r0 EXCEPT !.at = "check", !.ws = Min(found)]
  OBVIOUS
<1>3. script' = [script EXCEPT ![s] = r] /\ UNCHANGED <<spaces, cur, leaves, managed, engine, errors>>
  BY <1>1, <1>2 DEF workspaceObj, ScriptAt, ScriptTo, rule
<1>4. found # {} => Min(found) \in Spaces /\ spaces[Min(found)].name = WantedBy(s) /\ Min(found) \in Nat
  BY FoundSpace DEF PlaceInv
<1> HIDE DEF found
<1>5. script[s] \in ScriptRecs
  BY DEF PlaceInv, ScriptsOK, ScriptRecs
<1>6. r0 \in ScriptRecs
  BY <1>1, <1>5 DEF ScriptRecs
<1>7. /\ r \in [at : {"rest", "add", "check", "split", "left", "right"}, ws : Nat, leaf : Nat, new : Nat, runs : Nat]
      /\ r.at \notin {"rest", "add"} => r.ws \in Spaces /\ spaces[r.ws].name = WantedBy(s)
  BY <1>2, <1>4, <1>6 DEF ScriptRecs
<1>8. Kept /\ WinsStay
  BY <1>3, SameKeeps DEF PlaceInv
<1>9. ScriptsOK' /\ AddedApart'
  BY <1>3, <1>7, <1>8, ScriptGoes DEF PlaceInv
<1>. QED BY <1>3, <1>8, <1>9, ScriptPlaces

LEMMA ScriptAddPlaces ==
  ASSUME NamesChosen, PlaceInv, NEW s \in RuleScripts, ScriptAdd(s)
  PROVE  PlaceInv'
<1>1. PICK n : n = Len(spaces')
  OBVIOUS
<1>2. PICK r : r = [Advance(s, "rename") EXCEPT !.ws = n]
  OBVIOUS
<1>3. OpAddWorkspace /\ script' = [script EXCEPT ![s] = r] /\ UNCHANGED <<managed, engine, errors>>
  BY <1>1, <1>2 DEF ScriptAdd, ScriptAt, ScriptTo, rule
<1>4. /\ Kept /\ WinsStay /\ n \in Spaces' /\ n \notin Spaces /\ n \in Nat
  BY <1>1, <1>3, AddKeeps DEF PlaceInv
<1>5. spaces'[n].name = AutoName
  BY <1>4 DEF Kept
<1>6. script \in [RuleScripts -> ScriptRecs]
  BY DEF PlaceInv, ScriptsOK, ScriptRecs
<1>7. r \in ScriptRecs /\ r.at = "rename" /\ r.ws = n
  BY <1>2, <1>4, <1>6 DEF Advance, ScriptRecs
<1>8. script' \in [RuleScripts -> ScriptRecs] /\ script'[s] = r /\ \A t \in RuleScripts : t # s => script'[t] = script[t]
  BY <1>3, <1>6, <1>7
<1>9. ScriptsOK'
  <2>1. ASSUME NEW t \in RuleScripts
        PROVE  /\ script'[t].at = "rename" => script'[t].ws \in Spaces' /\ spaces'[script'[t].ws].name = AutoName
               /\ script'[t].at = "check" \/ Building(t)' =>
                    script'[t].ws \in Spaces' /\ spaces'[script'[t].ws].name = WantedBy(t)
    <3>1. CASE t = s
      BY <1>4, <1>5, <1>7, <1>8, <3>1 DEF Building
    <3>2. CASE t # s
      BY <1>4, <1>8, <3>2 DEF PlaceInv, ScriptsOK, Building, Kept
    <3>. QED BY <3>1, <3>2
  <2>. QED BY <1>8, <2>1 DEF ScriptsOK, ScriptRecs
<1>10. AddedApart'
  BY <1>3, <1>4, <1>7, <1>8 DEF PlaceInv, ScriptsOK, EngineOK, AddedApart
<1>. QED BY <1>3, <1>4, <1>9, <1>10, ScriptPlaces

LEMMA ScriptRenamePlaces ==
  ASSUME NamesChosen, PlaceInv, NEW s \in RuleScripts, ScriptRename(s)
  PROVE  PlaceInv'
<1> USE DEF PlaceInv
<1>1. PICK r : r = Advance(s, "check")
  OBVIOUS
<1>2. PICK ws : ws = script[s].ws
  OBVIOUS
<1>3. /\ script[s].at = "rename" /\ OpRenameWorkspace(ws, WantedBy(s)) /\ script' = [script EXCEPT ![s] = r]
      /\ UNCHANGED <<managed, engine, errors>>
  BY <1>1, <1>2 DEF ScriptRename, ScriptAt, ScriptTo, rule
<1>4. ws \in Spaces /\ spaces[ws].name = AutoName /\ WantedBy(s) \in Names
  BY <1>2, <1>3 DEF ScriptsOK, Names
<1>5. /\ SpacesTyped' /\ RowsOK' /\ Spaces' = Spaces /\ leaves' = leaves /\ cur' = cur
      /\ \A j \in Spaces : spaces'[j].row = spaces[j].row
      /\ spaces'[ws].name = WantedBy(s)
      /\ \A j \in Spaces : j # ws => spaces'[j].name = spaces[j].name
  BY <1>3, <1>4, RenameKeeps
<1>6. NamesGrow /\ WinsStay
  BY <1>4, <1>5 DEF NamesGrow, WinsStay
<1>7. script \in [RuleScripts -> ScriptRecs]
  BY DEF ScriptsOK, ScriptRecs
<1>8. r \in ScriptRecs /\ r.at = "check" /\ r.ws = ws
  BY <1>1, <1>2, <1>7 DEF Advance, ScriptRecs
<1>9. script' \in [RuleScripts -> ScriptRecs] /\ script'[s] = r /\ \A t \in RuleScripts : t # s => script'[t] = script[t]
  BY <1>3, <1>7, <1>8
<1>10. ScriptsOK'
  <2>1. ASSUME NEW t \in RuleScripts
        PROVE  /\ script'[t].at = "rename" => script'[t].ws \in Spaces' /\ spaces'[script'[t].ws].name = AutoName
               /\ script'[t].at = "check" \/ Building(t)' =>
                    script'[t].ws \in Spaces' /\ spaces'[script'[t].ws].name = WantedBy(t)
    <3>1. CASE t = s
      BY <1>4, <1>5, <1>8, <1>9, <3>1 DEF Building
    <3>2. CASE t # s
      BY <1>2, <1>3, <1>4, <1>5, <1>9, <3>2 DEF ScriptsOK, Building, AddedApart, NamesChosen
    <3>. QED BY <3>1, <3>2
  <2>. QED BY <1>9, <2>1 DEF ScriptsOK, ScriptRecs
<1>11. AddedApart'
  BY <1>3, <1>8, <1>9 DEF AddedApart
<1>12. EngineOK'
  BY <1>2, <1>3, <1>4, <1>5 DEF EngineOK, AddedApart, NamesChosen
<1>13. EventsTyped'
  BY <1>3 DEF EventsTyped
<1>14. Claims'
  BY <1>3, <1>5, <1>6, ClaimsStay
<1>. QED BY <1>5, <1>10, <1>11, <1>12, <1>13, <1>14

\* A script at its recipe stays on its workspace, or rests.
LEMMA RecipeGoes ==
  ASSUME NamesChosen, PlaceInv, Kept, WinsStay, UNCHANGED <<managed, engine, errors>>, NEW s \in RuleScripts,
         script[s].at = "check" \/ Building(s),
         NEW r, script' = [script EXCEPT ![s] = r], r \in ScriptRecs, r.ws = script[s].ws, r.at \notin {"add", "rename"}
  PROVE  PlaceInv'
<1>1. /\ r \in [at : {"rest", "add", "check", "split", "left", "right"}, ws : Nat, leaf : Nat, new : Nat, runs : Nat]
      /\ r.at \notin {"rest", "add"} => r.ws \in Spaces /\ spaces[r.ws].name = WantedBy(s)
  BY DEF ScriptRecs, PlaceInv, ScriptsOK
<1>2. ScriptsOK' /\ AddedApart'
  BY <1>1, ScriptGoes DEF PlaceInv
<1>. QED BY <1>2, ScriptPlaces

LEMMA ScriptTyped ==
  ASSUME ScriptsOK, NEW s \in RuleScripts
  PROVE  /\ script[s] \in ScriptRecs
         /\ \A at \in {"rest", "check", "left", "right"} :
              Advance(s, at) \in ScriptRecs /\ Advance(s, at).at = at /\ Advance(s, at).ws = script[s].ws
              /\ Advance(s, at).leaf = script[s].leaf /\ Advance(s, at).new = script[s].new
BY DEF ScriptsOK, ScriptRecs, Advance

LEMMA ApplyLayoutDoes ==
  ASSUME PlaceInv, NEW s \in RuleScripts, applyLayout(s)
  PROVE  /\ Kept /\ WinsStay /\ RightsStay /\ UNCHANGED <<managed, engine, errors>> /\ script[s].at = "check"
         /\ UNCHANGED <<spaces, cur, leaves>>
         /\ \E r \in ScriptRecs :
              /\ script' = [script EXCEPT ![s] = r] /\ r.ws = script[s].ws
              /\ \/ r.at = "rest"
                 \/ r.at = "split" /\ Fresh(spaces[r.ws].row) /\ r.leaf = spaces[r.ws].row[1].id
<1>1. PICK row : row = spaces[script[s].ws].row
  OBVIOUS
<1>2. PICK r : r = IF Fresh(row) THEN [Advance(s, "split") EXCEPT !.leaf = row[1].id] ELSE Advance(s, "rest")
  OBVIOUS
<1>3. /\ script[s].at = "check" /\ UNCHANGED <<spaces, cur, leaves, managed, engine, errors>>
      /\ script' = [script EXCEPT ![s] = r]
  BY <1>1, <1>2 DEF applyLayout, ScriptAt, ScriptTo, rule
<1>4. Kept /\ WinsStay /\ RightsStay
  BY <1>3, SameKeeps DEF PlaceInv
<1>5. Row(row)
  BY <1>1, <1>3 DEF PlaceInv, ScriptsOK, RowsOK
<1>6. 1 \in DOMAIN row
  BY <1>5 DEF Row
<1>7. row[1].id \in Nat
  BY <1>5, <1>6, IdsNat
<1>8. script[s] \in ScriptRecs
  BY ScriptTyped DEF PlaceInv
<1>9. r \in ScriptRecs /\ r.ws = script[s].ws /\ (r.at = "rest" \/ (r.at = "split" /\ Fresh(row) /\ r.leaf = row[1].id))
  BY <1>2, <1>7, <1>8 DEF Advance, ScriptRecs
<1>. QED BY <1>1, <1>3, <1>4, <1>9

LEMMA ScriptSplitDoes ==
  ASSUME PlaceInv, NEW s \in RuleScripts, ScriptSplit(s)
  PROVE  /\ Kept /\ WinsStay /\ RightsStay /\ UNCHANGED <<managed, engine, errors>> /\ script[s].at = "split"
         /\ \E r \in ScriptRecs :
              /\ script' = [script EXCEPT ![s] = r] /\ r.ws = script[s].ws /\ r.leaf = script[s].leaf
              /\ \/ r.at = "rest"
                 \/ /\ r.at = "left" /\ r.new = leaves' /\ leaves' = leaves + 1
                    /\ \E i \in SpaceOf(r.leaf) : \A j \in Spaces' : r.new \in Ids(spaces'[j].row) => j = i
<1>1. PICK leaf : leaf = script[s].leaf
  OBVIOUS
<1>2. PICK r : r = [Advance(s, "left") EXCEPT !.new = leaves']
  OBVIOUS
<1>3. script[s].at = "split" /\ leaves' = leaves + 1 /\ UNCHANGED <<managed, engine, errors>>
  BY DEF ScriptSplit, ScriptAt, rule
<1>4. leaves' \in Nat
  BY <1>3 DEF PlaceInv, SpacesTyped
<1>5. script[s] \in ScriptRecs
  BY ScriptTyped DEF PlaceInv
<1>6. /\ r \in ScriptRecs /\ r.ws = script[s].ws /\ r.at = "left" /\ r.new = leaves' /\ r.leaf = leaf
  BY <1>1, <1>2, <1>4, <1>5 DEF Advance, ScriptRecs
<1>7. CASE SpaceOf(leaf) = {}
  <2>1. script' = [script EXCEPT ![s] = Advance(s, "rest")] /\ UNCHANGED <<spaces, cur>>
    BY <1>1, <1>7 DEF ScriptSplit, OnLeaf, ScriptTo
  <2>2. Kept /\ WinsStay /\ RightsStay
    BY <1>3, <2>1, SameKeeps DEF PlaceInv
  <2>3. /\ Advance(s, "rest") \in ScriptRecs /\ Advance(s, "rest").at = "rest" /\ Advance(s, "rest").ws = script[s].ws
        /\ Advance(s, "rest").leaf = script[s].leaf
    BY ScriptTyped DEF PlaceInv
  <2>. QED BY <1>3, <2>1, <2>2, <2>3
<1>8. CASE SpaceOf(leaf) # {}
  <2>1. /\ \E i \in SpaceOf(leaf) : SetRow(i, Halved(spaces[i].row, leaf, Leaf(leaves', NoApp, NoWin)))
        /\ script' = [script EXCEPT ![s] = r] /\ cur' = cur
    BY <1>1, <1>2, <1>8 DEF ScriptSplit, OnLeaf, ScriptTo
  <2>2. PICK i \in SpaceOf(leaf) : SetRow(i, Halved(spaces[i].row, leaf, Leaf(leaves', NoApp, NoWin)))
    BY <2>1
  <2>3. /\ Kept /\ WinsStay /\ RightsStay
        /\ \A j \in Spaces' : leaves' \in Ids(spaces'[j].row) => j = i
    BY <1>3, <2>1, <2>2, HalveKeeps DEF PlaceInv
  <2>. QED BY <1>1, <1>3, <1>6, <2>1, <2>3
<1>. QED BY <1>7, <1>8

\* Either half of a recipe: what is set, and in which leaf.
LEMMA SetHalf ==
  ASSUME PlaceInv, NEW s \in RuleScripts, ScriptAt(s, script[s].at), UNCHANGED leaves, NEW leaf, NEW what \in {"left", "right"},
         NEW at \in {"rest", "right"},
         IF SpaceOf(leaf) # {}
         THEN /\ \E i \in SpaceOf(leaf) : SetRow(i, SetApp(spaces[i].row, leaf, what))
              /\ script' = [script EXCEPT ![s] = Advance(s, at)] /\ UNCHANGED cur
         ELSE script' = [script EXCEPT ![s] = Advance(s, "rest")] /\ UNCHANGED <<spaces, cur>>
  PROVE  /\ Kept /\ WinsStay /\ UNCHANGED <<managed, engine, errors>>
         /\ \E r \in ScriptRecs :
              /\ script' = [script EXCEPT ![s] = r] /\ r.ws = script[s].ws /\ r.leaf = script[s].leaf /\ r.new = script[s].new
              /\ r.at \in {"rest", at}
         /\ \/ RightsStay
            \/ \E i \in SpaceOf(leaf) : \A j \in Spaces' : j \in Spaces /\ \A m \in ToSet(spaces'[j].row) :
                 m \in ToSet(spaces[j].row) \/ (j = i /\ m.id = leaf /\ m.app = what)
<1>1. UNCHANGED <<managed, engine, errors>>
  BY DEF ScriptAt, rule
<1>2. \A a \in {"rest", at} :
        /\ Advance(s, a) \in ScriptRecs /\ Advance(s, a).at = a /\ Advance(s, a).ws = script[s].ws
        /\ Advance(s, a).leaf = script[s].leaf /\ Advance(s, a).new = script[s].new
  BY ScriptTyped DEF PlaceInv
<1>3. CASE SpaceOf(leaf) = {}
  <2>1. script' = [script EXCEPT ![s] = Advance(s, "rest")] /\ UNCHANGED <<spaces, cur>>
    BY <1>3
  <2>2. Kept /\ WinsStay /\ RightsStay
    BY <2>1, SameKeeps DEF PlaceInv
  <2>. QED BY <1>1, <1>2, <2>1, <2>2
<1>4. CASE SpaceOf(leaf) # {}
  <2>1. PICK i \in SpaceOf(leaf) : SetRow(i, SetApp(spaces[i].row, leaf, what))
    BY <1>4
  <2>2. script' = [script EXCEPT ![s] = Advance(s, at)] /\ cur' = cur
    BY <1>4
  <2>3. /\ Kept /\ WinsStay
        /\ \A j \in Spaces' : j \in Spaces /\ \A m \in ToSet(spaces'[j].row) :
             m \in ToSet(spaces[j].row) \/ (j = i /\ m.id = leaf /\ m.app = what)
    BY <2>1, <2>2, SetAppKeeps DEF PlaceInv
  <2>. QED BY <1>1, <1>2, <2>2, <2>3
<1>. QED BY <1>3, <1>4

LEMMA SetLeftDoes ==
  ASSUME PlaceInv, NEW s \in RuleScripts, SetLeft(s)
  PROVE  /\ Kept /\ WinsStay /\ RightsStay /\ UNCHANGED <<managed, engine, errors>> /\ script[s].at = "left"
         /\ UNCHANGED leaves
         /\ \E r \in ScriptRecs :
              /\ script' = [script EXCEPT ![s] = r] /\ r.ws = script[s].ws /\ r.leaf = script[s].leaf /\ r.new = script[s].new
              /\ r.at \in {"rest", "right"}
<1>1. script[s].at = "left" /\ ScriptAt(s, script[s].at) /\ UNCHANGED leaves
  BY DEF SetLeft, ScriptAt
<1>2. IF SpaceOf(script[s].leaf) # {}
      THEN /\ \E i \in SpaceOf(script[s].leaf) : SetRow(i, SetApp(spaces[i].row, script[s].leaf, "left"))
           /\ script' = [script EXCEPT ![s] = Advance(s, "right")] /\ UNCHANGED cur
      ELSE script' = [script EXCEPT ![s] = Advance(s, "rest")] /\ UNCHANGED <<spaces, cur>>
  BY DEF SetLeft, OnLeaf, ScriptTo
<1>3. PICK leaf : leaf = script[s].leaf
  OBVIOUS
<1>4. IF SpaceOf(leaf) # {}
      THEN /\ \E i \in SpaceOf(leaf) : SetRow(i, SetApp(spaces[i].row, leaf, "left"))
           /\ script' = [script EXCEPT ![s] = Advance(s, "right")] /\ UNCHANGED cur
      ELSE script' = [script EXCEPT ![s] = Advance(s, "rest")] /\ UNCHANGED <<spaces, cur>>
  BY <1>2, <1>3
<1>5. /\ Kept /\ WinsStay /\ UNCHANGED <<managed, engine, errors>>
      /\ \E r \in ScriptRecs :
           /\ script' = [script EXCEPT ![s] = r] /\ r.ws = script[s].ws /\ r.leaf = script[s].leaf /\ r.new = script[s].new
           /\ r.at \in {"rest", "right"}
      /\ \/ RightsStay
         \/ \E i \in SpaceOf(leaf) : \A j \in Spaces' : j \in Spaces /\ \A m \in ToSet(spaces'[j].row) :
              m \in ToSet(spaces[j].row) \/ (j = i /\ m.id = leaf /\ m.app = "left")
  BY <1>1, <1>4, SetHalf
<1>6. RightsStay
  BY <1>5 DEF RightsStay
<1>. QED BY <1>1, <1>5, <1>6

LEMMA SetRightDoes ==
  ASSUME PlaceInv, NEW s \in RuleScripts, SetRight(s)
  PROVE  /\ Kept /\ WinsStay /\ UNCHANGED <<managed, engine, errors>> /\ script[s].at = "right"
         /\ UNCHANGED leaves
         /\ \E r \in ScriptRecs :
              /\ script' = [script EXCEPT ![s] = r] /\ r.ws = script[s].ws /\ r.at = "rest"
         /\ \/ RightsStay
            \/ \E i \in SpaceOf(script[s].new) : \A j \in Spaces' : j \in Spaces /\ \A m \in ToSet(spaces'[j].row) :
                 m \in ToSet(spaces[j].row) \/ (j = i /\ m.id = script[s].new /\ m.app = "right")
<1>1. script[s].at = "right" /\ ScriptAt(s, script[s].at) /\ UNCHANGED leaves
  BY DEF SetRight, ScriptAt
<1>2. IF SpaceOf(script[s].new) # {}
      THEN /\ \E i \in SpaceOf(script[s].new) : SetRow(i, SetApp(spaces[i].row, script[s].new, "right"))
           /\ script' = [script EXCEPT ![s] = Advance(s, "rest")] /\ UNCHANGED cur
      ELSE script' = [script EXCEPT ![s] = Advance(s, "rest")] /\ UNCHANGED <<spaces, cur>>
  BY DEF SetRight, OnLeaf, ScriptTo
<1>3. PICK leaf : leaf = script[s].new
  OBVIOUS
<1>4. IF SpaceOf(leaf) # {}
      THEN /\ \E i \in SpaceOf(leaf) : SetRow(i, SetApp(spaces[i].row, leaf, "right"))
           /\ script' = [script EXCEPT ![s] = Advance(s, "rest")] /\ UNCHANGED cur
      ELSE script' = [script EXCEPT ![s] = Advance(s, "rest")] /\ UNCHANGED <<spaces, cur>>
  BY <1>2, <1>3
<1>5. /\ Kept /\ WinsStay /\ UNCHANGED <<managed, engine, errors>>
      /\ \E r \in ScriptRecs :
           /\ script' = [script EXCEPT ![s] = r] /\ r.ws = script[s].ws /\ r.leaf = script[s].leaf /\ r.new = script[s].new
           /\ r.at \in {"rest", "rest"}
      /\ \/ RightsStay
         \/ \E i \in SpaceOf(leaf) : \A j \in Spaces' : j \in Spaces /\ \A m \in ToSet(spaces'[j].row) :
              m \in ToSet(spaces[j].row) \/ (j = i /\ m.id = leaf /\ m.app = "right")
  BY <1>1, <1>4, SetHalf
<1>. QED BY <1>1, <1>3, <1>5

LEMMA RecipePlaces ==
  ASSUME NamesChosen, PlaceInv, NEW s \in RuleScripts, Recipe(s)
  PROVE  PlaceInv'
<1>1. CASE applyLayout(s)
  BY <1>1, ApplyLayoutDoes, RecipeGoes
<1>2. CASE ScriptSplit(s)
  BY <1>2, ScriptSplitDoes, RecipeGoes DEF Building
<1>3. CASE SetLeft(s)
  BY <1>3, SetLeftDoes, RecipeGoes DEF Building
<1>4. CASE SetRight(s)
  BY <1>4, SetRightDoes, RecipeGoes DEF Building
<1>. QED BY <1>1, <1>2, <1>3, <1>4, WorkspaceObjPlaces, ScriptAddPlaces, ScriptRenamePlaces DEF Recipe

LEMMA PlaceStep ==
  ASSUME NamesChosen, PlaceInv, [RulesNext]_rulesVars
  PROVE  PlaceInv'
<1>1. CASE UNCHANGED <<desktop, rule, script>>
  <2>1. UNCHANGED <<spaces, cur, leaves, managed, engine, errors, script>> /\ Spaces' = Spaces
    BY <1>1 DEF desktop, rule, Spaces
  <2>2. SpacesTyped' /\ RowsOK'
    BY <2>1 DEF PlaceInv, SpacesTyped, RowsOK
  <2>3. EventsTyped' /\ EngineOK' /\ AddedApart'
    BY <2>1 DEF PlaceInv, EventsTyped, EngineOK, AddedApart
  <2>4. ScriptsOK'
    BY <2>1 DEF PlaceInv, ScriptsOK, Building
  <2>5. NamesGrow /\ WinsStay
    BY <2>1 DEF NamesGrow, WinsStay
  <2>6. Claims /\ UNCHANGED <<managed, errors>>
    BY <2>1 DEF PlaceInv
  <2>7. engine'.leaf = engine.leaf /\ engine'.win = engine.win /\ (engine'.at = "rest" <=> engine.at = "rest")
    BY <2>1
  <2>8. Claims'
    BY <2>2, <2>5, <2>6, <2>7, ClaimsStay
  <2>. QED BY <2>2, <2>3, <2>4, <2>8 DEF PlaceInv
<1>2. CASE FloatsNext
  BY <1>1, <1>2 DEF FloatsNext, FloatRule, SetFloatRules
<1>3. CASE UNCHANGED rulesVars
  BY <1>1, <1>3 DEF rulesVars
<1>4. CASE Handler
  BY <1>4, MatchPlaces, TreePlaces, AddPlaces, RenamePlaces, MovePlaces DEF Handler
<1>5. CASE \E win \in Windows : manage(win) \/ unmanage(win)
  BY <1>5, ManagePlaces, UnmanagePlaces
<1>6. CASE \E s \in RuleScripts : Recipe(s)
  BY <1>6, RecipePlaces
<1>. QED BY <1>2, <1>3, <1>4, <1>5, <1>6, SwitchPlaces DEF RulesNext, PlacementNext

\* Where no rule names a workspace as the window manager does, the invariant
\* of placement holds, whatever scripts do in between.
THEOREM PlacementInvariant == NamesChosen => (RulesSpec => []PlaceInv)
<1> SUFFICES ASSUME NamesChosen PROVE RulesSpec => []PlaceInv
  OBVIOUS
<1>1. PlaceInv /\ [RulesNext]_rulesVars => PlaceInv'
  BY PlaceStep
<1>. QED BY <1>1, PlaceInitHolds, PTL DEF RulesSpec
-----------------------------------------------------------------------------
(* What rules say is so.                                                   *)

\* The drainer has handled every event: the claims are that windows are placed.
LEMMA SettledPlaced == PlaceInv => RulesSettle
<1> SUFFICES ASSUME PlaceInv, managed = <<>>, engine = Resting, NEW win \in Windows, RuleFor(win) # NoName, win \notin errors,
                    NEW i \in HomeOf(win)
             PROVE  i \in Named(RuleFor(win))
  BY DEF RulesSettle
<1>1. i \in Spaces /\ \E k \in DOMAIN spaces[i].row : spaces[i].row[k].win = win
  BY DEF HomeOf
<1>2. PICK l \in ToSet(spaces[i].row) : l.win = win
  BY <1>1 DEF ToSet
<1>3. Ruled(l)
  BY <1>2, RulesAssumption DEF Ruled
<1>4. Claim(l, i)
  BY <1>1, <1>3 DEF PlaceInv, Claims
<1>5. ~Coming(l) /\ ~Handled(l)
  BY DEF Coming, Handled, Resting
<1>6. Placed(l, i)
  BY <1>4, <1>5 DEF Claim
<1>. QED BY <1>1, <1>2, <1>6 DEF Placed, Named

\* One script's float rules: what it has sent is in force, what it sends is all.
OneFloater == \A s, t \in FloatScripts : s = t
FloatsOK ==
    /\ store \in [FloatScripts -> Nat] /\ DOMAIN push = FloatScripts
    /\ \A s \in FloatScripts : push[s] # {} => push[s] = {[by |-> s, n |-> n] : n \in 1..store[s]}
FloatInv == FloatsOK /\ FloatsInForce

LEMMA FloatInit == RulesInit => FloatInv
<1> SUFFICES ASSUME RulesInit PROVE FloatInv
  OBVIOUS
<1>1. store = [s \in FloatScripts |-> 0] /\ push = [s \in FloatScripts |-> {}]
  BY DEF RulesInit
<1>2. store \in [FloatScripts -> Nat] /\ DOMAIN push = FloatScripts
  BY <1>1
<1>3. \A s \in FloatScripts : store[s] = 0 /\ push[s] = {}
  BY <1>1
<1>4. \A n : n \notin 1..0
  OBVIOUS
<1>. QED BY <1>2, <1>3, <1>4 DEF FloatInv, FloatsOK, FloatsInForce

LEMMA FloatStep == OneFloater /\ FloatInv /\ [RulesNext]_rulesVars => FloatInv'
<1> SUFFICES ASSUME OneFloater, FloatInv, [RulesNext]_rulesVars PROVE FloatInv'
  OBVIOUS
<1>1. CASE UNCHANGED floats
  BY <1>1 DEF floats, FloatInv, FloatsOK, FloatsInForce
<1>2. ASSUME NEW s \in FloatScripts, FloatRule(s) PROVE FloatInv'
  <2>1. store[s] \in Nat /\ store' = [store EXCEPT ![s] = store[s] + 1]
    BY <1>2 DEF FloatRule, FloatInv, FloatsOK
  <2>2. store' \in [FloatScripts -> Nat] /\ store'[s] = store[s] + 1
    BY <2>1 DEF FloatInv, FloatsOK
  <2>3. push' = [push EXCEPT ![s] = {[by |-> s, n |-> n] : n \in 1..store'[s]}]
    BY <1>2 DEF FloatRule
  <2>4. DOMAIN push' = FloatScripts /\ push'[s] = {[by |-> s, n |-> n] : n \in 1..store'[s]}
    BY <2>3 DEF FloatInv, FloatsOK
  <2>5. 1 \in 1..store'[s]
    BY <2>1, <2>2
  <2>6. [by |-> s, n |-> 1] \in push'[s]
    BY <2>4, <2>5
  <2>7. \A t \in FloatScripts : t = s
    BY DEF OneFloater
  <2>. QED BY <2>2, <2>4, <2>6, <2>7 DEF FloatInv, FloatsOK, FloatsInForce
<1>3. ASSUME NEW s \in FloatScripts, SetFloatRules(s) PROVE FloatInv'
  <2>1. /\ push[s] # {} /\ inForce' = push[s] /\ push' = [push EXCEPT ![s] = {}] /\ store' = store
    BY <1>3 DEF SetFloatRules
  <2>2. DOMAIN push' = FloatScripts /\ push'[s] = {}
    BY <2>1 DEF FloatInv, FloatsOK
  <2>3. inForce' = {[by |-> s, n |-> n] : n \in 1..store'[s]}
    BY <2>1 DEF FloatInv, FloatsOK
  <2>4. \A t \in FloatScripts : t = s
    BY DEF OneFloater
  <2>. QED BY <2>1, <2>2, <2>3, <2>4 DEF FloatInv, FloatsOK, FloatsInForce
<1>4. CASE FloatsNext
  BY <1>2, <1>3, <1>4 DEF FloatsNext
<1>5. CASE \E win \in Windows : manage(win) \/ unmanage(win)
  BY <1>1, <1>5 DEF manage, unmanage
<1>6. CASE SwitchTo \/ Handler
  BY <1>1, <1>6 DEF SwitchTo, Handler, Match, Tree, Add, Rename, Move, At
<1>7. CASE \E s \in RuleScripts : Recipe(s)
  BY <1>1, <1>7 DEF Recipe, workspaceObj, ScriptAdd, ScriptRename, applyLayout, ScriptSplit, SetLeft, SetRight, ScriptAt
<1>8. CASE UNCHANGED rulesVars
  BY <1>1, <1>8 DEF rulesVars
<1>. QED BY <1>4, <1>5, <1>6, <1>7, <1>8 DEF RulesNext, PlacementNext

\* Placed, floated, once the calls are back: whatever windows and users do.
THEOREM RulesAreKept == NamesChosen /\ OneFloater => (RulesSpec => []RulesHold)
<1> SUFFICES ASSUME NamesChosen, OneFloater PROVE RulesSpec => []RulesHold
  OBVIOUS
<1>1. PlaceInv /\ FloatInv /\ [RulesNext]_rulesVars => PlaceInv' /\ FloatInv'
  BY PlaceStep, FloatStep
<1>2. PlaceInv /\ FloatInv => RulesHold
  BY SettledPlaced DEF FloatInv, RulesHold
<1>. QED BY <1>1, <1>2, PlaceInitHolds, FloatInit, PTL DEF RulesSpec
-----------------------------------------------------------------------------
(* Nothing is made twice: names first.                                     *)

\* A workspace that comes is not named yet; those that are there keep their names.
SameNames ==
    /\ Spaces \subseteq Spaces' /\ \A i \in Spaces : spaces'[i].name = spaces[i].name
    /\ \A i \in Spaces' \ Spaces : spaces'[i].name = AutoName
Ensures == {"add", "rename"}
\* Who begins to ensure a name has not found it.
EngineLooked ==
    engine'.at \in Ensures => \/ engine.at \in Ensures /\ engine'.win = engine.win
                              \/ engine'.win \in Windows /\ Named(RuleFor(engine'.win)) = {}
ScriptsLooked == \A s \in RuleScripts :
    script'[s].at \in Ensures => script[s].at \in Ensures \/ Named(WantedBy(s)) = {}

LEMMA EnsuredStays ==
  ASSUME NamesChosen, PlaceInv, Ensured, SameNames, EngineLooked, ScriptsLooked
  PROVE  Ensured'
<1>1. NamesUnique'
  BY DEF Ensured, NamesUnique, SameNames
<1>2. ASSUME NEW name, name # AutoName PROVE Named(name)' = Named(name)
  BY <1>2 DEF Named, SameNames
<1>3. ASSUME engine'.at \in Ensures PROVE Named(RuleFor(engine.win))' = {}
  <2>1. engine'.win \in Windows /\ Named(RuleFor(engine'.win)) = {}
    BY <1>3 DEF EngineLooked, Ensured, Ensures, PlaceInv, EngineOK
  <2>2. PICK name : name = RuleFor(engine'.win)
    OBVIOUS
  <2>3. Named(name)' = {}
    BY <1>2, <2>1, <2>2 DEF NamesChosen
  <2>. QED BY <2>2, <2>3 DEF Named
<1>4. ASSUME NEW s \in RuleScripts, script'[s].at \in Ensures PROVE Named(WantedBy(s))' = {}
  <2>1. Named(WantedBy(s)) = {}
    BY <1>4 DEF ScriptsLooked, Ensured, Ensures
  <2>. QED BY <1>2, <2>1 DEF NamesChosen
<1>. QED BY <1>1, <1>3, <1>4 DEF Ensured, Ensures

\* A fresh workspace gets a name that no other has.
LEMMA EnsuredNames ==
  ASSUME Ensured, NEW ws \in Spaces, NEW name, Named(name) = {}, Spaces' = Spaces, spaces'[ws].name = name,
         \A j \in Spaces : j # ws => spaces'[j].name = spaces[j].name
  PROVE  NamesUnique' /\ \A other : other # name /\ Named(other) = {} => Named(other)' = {}
BY DEF Ensured, NamesUnique, Named

LEMMA EnsuredStep ==
  ASSUME NamesChosen, OneEnsurer, PlaceInv, Ensured, [RulesNext]_rulesVars
  PROVE  Ensured'
<1> USE DEF PlaceInv
<1>1. ASSUME SameNames, UNCHANGED <<engine, script>> PROVE Ensured'
  <2>1. EngineLooked /\ ScriptsLooked
    BY <1>1 DEF EngineLooked, ScriptsLooked
  <2>. QED BY <1>1, <2>1, EnsuredStays
<1>2. ASSUME UNCHANGED spaces PROVE SameNames
  BY <1>2 DEF SameNames, Spaces
<1>3. ASSUME Kept PROVE SameNames
  BY <1>3 DEF Kept, SameNames
<1>4. CASE UNCHANGED <<desktop, rule, script>>
  BY <1>1, <1>2, <1>4 DEF desktop, rule
<1>5. CASE FloatsNext \/ UNCHANGED rulesVars
  BY <1>4, <1>5 DEF FloatsNext, FloatRule, SetFloatRules, rulesVars
<1>6. ASSUME NEW win \in Windows, manage(win) \/ unmanage(win) PROVE Ensured'
  <2>1. Kept
    BY <1>6, ManageDoes, UnmanageDoes
  <2>2. UNCHANGED <<engine, script>>
    BY <1>6 DEF manage, unmanage, rule
  <2>. QED BY <1>1, <1>3, <2>1, <2>2
<1>7. CASE SwitchTo
  BY <1>1, <1>2, <1>7 DEF SwitchTo, rule
<1>8. ASSUME SameNames, script' = script, engine'.at \notin Ensures PROVE Ensured'
  <2>1. EngineLooked /\ ScriptsLooked
    BY <1>8 DEF EngineLooked, ScriptsLooked
  <2>. QED BY <1>8, <2>1, EnsuredStays
<1>9. Resting.at \notin Ensures
  BY DEF Resting, Ensures
<1>10. CASE Match
  <2>1. UNCHANGED <<spaces, script>>
    BY <1>10 DEF Match, At
  <2>2. engine'.at \in {"rest", "tree"}
    BY <1>10 DEF Match, Resting
  <2>. QED BY <1>2, <1>8, <2>1, <2>2 DEF Ensures
<1>11. CASE Tree
  <2>1. PICK name : name = RuleFor(engine.win)
    OBVIOUS
  <2>2. UNCHANGED <<spaces, script>> /\ engine.at = "tree"
    BY <1>11 DEF Tree, At, Looked
  <2>3. engine.win \in Windows /\ SameNames
    BY <1>2, <2>2 DEF EngineOK
  <2>4. engine' = IF Named(name) = {} THEN [engine EXCEPT !.at = "add"] ELSE [engine EXCEPT !.at = "move", !.ws = Min(Named(name))]
    BY <1>11, <2>1 DEF Tree, Looked
  <2>5. CASE Named(name) = {}
    <3>1. engine'.win = engine.win
      BY <2>4, <2>5 DEF EngineOK
    <3>2. EngineLooked /\ ScriptsLooked
      BY <2>1, <2>2, <2>3, <2>5, <3>1 DEF EngineLooked, ScriptsLooked
    <3>. QED BY <2>3, <3>2, EnsuredStays
  <2>6. CASE Named(name) # {}
    <3>1. engine'.at = "move"
      BY <2>4, <2>6 DEF EngineOK
    <3>. QED BY <1>8, <2>2, <2>3, <3>1 DEF Ensures
  <2>. QED BY <2>5, <2>6
<1>12. CASE Add
  <2>1. engine.at = "add" /\ script' = script
    BY <1>12 DEF Add, At
  <2>2. SameNames
    BY <1>2, <1>3, <1>12, AddKeeps DEF Add, TimesOut
  <2>3. CASE engine' = Resting
    BY <1>8, <1>9, <2>1, <2>2, <2>3
  <2>4. CASE engine' = [engine EXCEPT !.at = "rename", !.ws = Len(spaces')]
    <3>1. engine'.win = engine.win
      BY <2>4 DEF EngineOK
    <3>2. EngineLooked /\ ScriptsLooked
      BY <2>1, <3>1 DEF EngineLooked, ScriptsLooked, Ensures
    <3>. QED BY <2>2, <3>2, EnsuredStays
  <2>. QED BY <1>12, <2>3, <2>4 DEF Add, TimesOut, Fails
<1>13. CASE Rename
  <2>1. /\ engine.at = "rename" /\ script' = script
        /\ engine'.at \notin Ensures
    BY <1>9, <1>13 DEF Rename, At, EngineTo, TimesOut, Fails, EngineOK, Ensures
  <2>2. CASE UNCHANGED spaces
    BY <1>2, <1>8, <2>1, <2>2
  <2>3. CASE OpRenameWorkspace(engine.ws, RuleFor(engine.win))
    <3>1. engine.ws \in Spaces /\ engine.win \in Windows /\ RuleFor(engine.win) \in Names
      BY <2>1 DEF EngineOK, Names
    <3>2. /\ Spaces' = Spaces /\ spaces'[engine.ws].name = RuleFor(engine.win)
          /\ \A j \in Spaces : j # engine.ws => spaces'[j].name = spaces[j].name
      BY <2>3, <3>1, RenameKeeps
    <3>3. Named(RuleFor(engine.win)) = {}
      BY <2>1 DEF Ensured
    <3>4. NamesUnique' /\ \A other : other # RuleFor(engine.win) /\ Named(other) = {} => Named(other)' = {}
      BY <3>1, <3>2, <3>3, EnsuredNames
    <3>5. \A s \in RuleScripts : script'[s].at \in Ensures => Named(WantedBy(s))' = {}
      BY <2>1, <3>1, <3>4 DEF Ensured, OneEnsurer, Ensures
    <3>. QED BY <2>1, <3>4, <3>5 DEF Ensured, Ensures
  <2>. QED BY <1>13, <2>2, <2>3 DEF Rename, TimesOut
<1>14. CASE Move
  <2>1. /\ engine.at = "move" /\ script' = script /\ engine'.at \notin Ensures
    BY <1>9, <1>14 DEF Move, At, TimesOut, Fails
  <2>2. CASE UNCHANGED spaces
    BY <1>2, <1>8, <2>1, <2>2
  <2>3. CASE OpMoveLeaf(engine.leaf, engine.ws)
    <3>1. engine.ws \in Spaces
      BY <2>1 DEF EngineOK
    <3>2. Spaces' = Spaces /\ \A j \in Spaces : spaces'[j].name = spaces[j].name
      BY <2>3, <3>1, MoveDoes
    <3>3. SameNames
      BY <3>2 DEF SameNames
    <3>. QED BY <1>8, <2>1, <3>3
  <2>. QED BY <1>14, <2>2, <2>3 DEF Move, TimesOut
<1>15. CASE Handler
  BY <1>10, <1>11, <1>12, <1>13, <1>14, <1>15 DEF Handler
<1>16. ASSUME NEW s \in RuleScripts, Recipe(s) PROVE Ensured'
  <2>1. script \in [RuleScripts -> ScriptRecs] /\ script[s] \in ScriptRecs
    BY DEF ScriptsOK, ScriptRecs
  <2>2. ASSUME NEW r, script' = [script EXCEPT ![s] = r], UNCHANGED <<managed, engine, errors>>, SameNames,
               r.at \in Ensures => script[s].at \in Ensures \/ Named(WantedBy(s)) = {}
        PROVE  Ensured'
    <3>1. script'[s] = r /\ \A t \in RuleScripts : t # s => script'[t] = script[t]
      BY <2>1, <2>2
    <3>2. EngineLooked /\ ScriptsLooked
      BY <2>2, <3>1 DEF EngineLooked, ScriptsLooked
    <3>. QED BY <2>2, <3>2, EnsuredStays
  <2>3. CASE workspaceObj(s)
    <3>1. PICK r0 : r0 = [script[s] EXCEPT !.runs = @ + 1]
      OBVIOUS
    <3>2. PICK r : r = IF Named(WantedBy(s)) = {} THEN [r0 EXCEPT !.at = "add"]
                       ELSE [r0 EXCEPT !.at = "check", !.ws = Min(Named(WantedBy(s)))]
      OBVIOUS
    <3>3. script' = [script EXCEPT ![s] = r] /\ UNCHANGED <<spaces, managed, engine, errors>>
      BY <2>3, <3>1, <3>2 DEF workspaceObj, ScriptAt, ScriptTo, rule
    <3>4. Named(WantedBy(s)) # {} => r.at = "check"
      BY <2>1, <3>1, <3>2 DEF ScriptRecs
    <3>. QED BY <1>2, <2>2, <3>3, <3>4 DEF Ensures
  <2>4. CASE ScriptAdd(s)
    <3>1. PICK r : r = [Advance(s, "rename") EXCEPT !.ws = Len(spaces')]
      OBVIOUS
    <3>2. script' = [script EXCEPT ![s] = r] /\ UNCHANGED <<managed, engine, errors>> /\ OpAddWorkspace /\ script[s].at = "add"
      BY <2>4, <3>1 DEF ScriptAdd, ScriptAt, ScriptTo, rule
    <3>. QED BY <1>3, <2>2, <3>2, AddKeeps DEF Ensures
  <2>5. CASE ScriptRename(s)
    <3>1. PICK r : r = Advance(s, "check")
      OBVIOUS
    <3>2. PICK ws : ws = script[s].ws
      OBVIOUS
    <3>3. /\ script' = [script EXCEPT ![s] = r] /\ UNCHANGED <<managed, engine, errors>> /\ OpRenameWorkspace(ws, WantedBy(s))
          /\ script[s].at = "rename"
      BY <2>5, <3>1, <3>2 DEF ScriptRename, ScriptAt, ScriptTo, rule
    <3>4. r.at = "check"
      BY <2>1, <3>1 DEF Advance, ScriptRecs
    <3>5. ws \in Spaces /\ WantedBy(s) \in Names /\ Named(WantedBy(s)) = {}
      BY <3>2, <3>3 DEF ScriptsOK, Names, Ensured
    <3>6. /\ Spaces' = Spaces /\ spaces'[ws].name = WantedBy(s)
          /\ \A j \in Spaces : j # ws => spaces'[j].name = spaces[j].name
      BY <3>3, <3>5, RenameKeeps
    <3>7. NamesUnique' /\ \A other : other # WantedBy(s) /\ Named(other) = {} => Named(other)' = {}
      BY <3>5, <3>6, EnsuredNames
    <3>8. script'[s] = r /\ \A t \in RuleScripts : t # s => script'[t] = script[t]
      BY <2>1, <3>3
    <3>9. \A t \in RuleScripts : script'[t].at \in Ensures => Named(WantedBy(t))' = {}
      BY <3>4, <3>7, <3>8 DEF Ensured, OneEnsurer, Ensures
    <3>10. engine'.at \in Ensures => Named(RuleFor(engine.win))' = {}
      <4>1. engine' = engine /\ (engine.at \in Ensures => engine.win \in Windows)
        BY <3>3 DEF EngineOK, Ensures
      <4>2. PICK name : name = RuleFor(engine.win)
        OBVIOUS
      <4>3. engine.at \in Ensures => Named(name)' = {}
        BY <3>7, <4>1, <4>2 DEF Ensured, OneEnsurer, Ensures
      <4>. QED BY <4>1, <4>2, <4>3 DEF Named
    <3>. QED BY <3>7, <3>9, <3>10 DEF Ensured, Ensures
  <2>6. CASE applyLayout(s)
    <3>1. PICK r \in ScriptRecs : script' = [script EXCEPT ![s] = r] /\ r.at \in {"rest", "split"}
      BY <2>6, ApplyLayoutDoes
    <3>2. Kept /\ UNCHANGED <<managed, engine, errors>>
      BY <2>6, ApplyLayoutDoes
    <3>. QED BY <1>3, <2>2, <3>1, <3>2 DEF Ensures
  <2>7. CASE ScriptSplit(s)
    <3>1. PICK r \in ScriptRecs : script' = [script EXCEPT ![s] = r] /\ r.at \in {"rest", "left"}
      BY <2>7, ScriptSplitDoes
    <3>2. Kept /\ UNCHANGED <<managed, engine, errors>>
      BY <2>7, ScriptSplitDoes
    <3>. QED BY <1>3, <2>2, <3>1, <3>2 DEF Ensures
  <2>8. CASE SetLeft(s)
    <3>1. PICK r \in ScriptRecs : script' = [script EXCEPT ![s] = r] /\ r.at \in {"rest", "right"}
      BY <2>8, SetLeftDoes
    <3>2. Kept /\ UNCHANGED <<managed, engine, errors>>
      BY <2>8, SetLeftDoes
    <3>. QED BY <1>3, <2>2, <3>1, <3>2 DEF Ensures
  <2>9. CASE SetRight(s)
    <3>1. PICK r \in ScriptRecs : script' = [script EXCEPT ![s] = r] /\ r.at = "rest"
      BY <2>9, SetRightDoes
    <3>2. Kept /\ UNCHANGED <<managed, engine, errors>>
      BY <2>9, SetRightDoes
    <3>. QED BY <1>3, <2>2, <3>1, <3>2 DEF Ensures
  <2>. QED BY <1>16, <2>3, <2>4, <2>5, <2>6, <2>7, <2>8, <2>9 DEF Recipe
<1>. QED BY <1>5, <1>6, <1>7, <1>15, <1>16 DEF RulesNext, PlacementNext
-----------------------------------------------------------------------------
(* Nothing is made twice: what is on a workspace.                          *)

LEMMA MappedStep ==
  ASSUME PlaceInv, MappedOK, [RulesNext]_rulesVars
  PROVE  MappedOK' /\ (Unruled' => Unruled)
<1> USE DEF PlaceInv
<1> DEFINE Evs == [leaf : Nat, win : Windows]
<1>1. managed \in Seq(Evs)
  BY DEF EventsTyped
<1>2. ASSUME UNCHANGED mapped, UNCHANGED managed, engine'.at # "rest" => engine.at # "rest" /\ engine'.win = engine.win
      PROVE  MappedOK' /\ (Unruled' => Unruled)
  BY <1>2 DEF MappedOK, Unruled
<1>3. CASE UNCHANGED <<desktop, rule>>
  BY <1>2, <1>3 DEF desktop, rule
<1>4. CASE FloatsNext \/ UNCHANGED rulesVars
  BY <1>3, <1>4 DEF FloatsNext, FloatRule, SetFloatRules, rulesVars
<1>5. ASSUME NEW win \in Windows, manage(win) PROVE MappedOK' /\ (Unruled' => Unruled)
  <2>1. /\ mapped' = [mapped EXCEPT ![win] = mapped[win] + 1] /\ mapped[win] \in Nat
        /\ engine' = engine
    BY <1>5 DEF manage, MappedOK
  <2>2. PICK ev : managed' = Append(managed, ev) /\ ev \in Evs /\ ev.win = win
    <3>1. PICK id \in Nat : managed' = Append(managed, [leaf |-> id, win |-> win])
      BY <1>5, ManageDoes
    <3>2. [leaf |-> id, win |-> win] \in Evs /\ [leaf |-> id, win |-> win].win = win
      OBVIOUS
    <3>. QED BY <3>1, <3>2
  <2>3. mapped' \in [Windows -> Nat] /\ \A w \in Windows : mapped'[w] = IF w = win THEN mapped[w] + 1 ELSE mapped[w]
    BY <2>1 DEF MappedOK
  <2> HIDE DEF Evs
  <2>4. PICK n : n = Len(managed) + 1
    OBVIOUS
  <2>5. /\ DOMAIN managed' = DOMAIN managed \cup {n} /\ managed'[n] = ev
        /\ \A k \in DOMAIN managed : managed'[k] = managed[k] /\ managed[k] \in Evs
    BY <1>1, <2>2, <2>4
  <2>6. \A w \in Windows : mapped[w] > 0 => mapped'[w] > 0
    BY <2>1, <2>3 DEF MappedOK
  <2>7. mapped'[win] > 0
    BY <2>1, <2>3
  <2>8. \A k \in DOMAIN managed' : mapped'[managed'[k].win] > 0
    <3>1. \A k \in DOMAIN managed : managed[k].win \in Windows
      BY <2>5 DEF Evs
    <3>. QED BY <2>2, <2>5, <2>6, <2>7, <3>1 DEF MappedOK
  <2>9. engine'.at # "rest" => mapped'[engine'.win] > 0
    BY <2>1, <2>6 DEF EngineOK, MappedOK
  <2>10. Unruled' => Unruled
    <3>1. \A w \in Windows : mapped'[w] = 0 => mapped[w] = 0
      BY <2>1, <2>3 DEF MappedOK
    <3>. QED BY <3>1 DEF Unruled
  <2>. QED BY <2>3, <2>8, <2>9, <2>10 DEF MappedOK
<1>6. ASSUME NEW win \in Windows, unmanage(win) PROVE MappedOK' /\ (Unruled' => Unruled)
  BY <1>2, <1>6 DEF unmanage, rule
<1>7. CASE SwitchTo
  BY <1>2, <1>7 DEF SwitchTo, rule
<1>8. CASE Match
  <2>1. /\ managed # <<>> /\ managed' = Tail(managed) /\ mapped' = mapped
        /\ engine' = Resting \/ engine'.win = Head(managed).win
    BY <1>8 DEF Match, At
  <2> HIDE DEF Evs
  <2>2. PICK n : n = Len(managed)
    OBVIOUS
  <2>3. /\ DOMAIN managed' = 1..(n - 1) /\ DOMAIN managed = 1..n /\ n \in Nat /\ Head(managed) = managed[1] /\ 1 \in 1..n
        /\ \A k \in 1..(n - 1) : managed'[k] = managed[k + 1]
    BY <1>1, <2>1, <2>2
  <2>4. \A k \in 1..(n - 1) : k + 1 \in 1..n
    BY <2>3
  <2>5. \A k \in DOMAIN managed' : mapped'[managed'[k].win] > 0
    BY <2>1, <2>3, <2>4 DEF MappedOK
  <2>6. engine'.at # "rest" => mapped'[engine'.win] > 0
    BY <2>1, <2>3 DEF MappedOK, Resting
  <2>. QED BY <2>1, <2>5, <2>6 DEF MappedOK, Unruled
<1>9. CASE Tree \/ Add \/ Rename \/ Move
  <2>1. UNCHANGED mapped /\ UNCHANGED managed /\ engine.at # "rest"
    BY <1>9 DEF Tree, Add, Rename, Move, At, Looked, TimesOut, Fails
  <2>2. engine'.at # "rest" => engine'.win = engine.win
    <3>1. engine' = Resting \/ \E at, ws : engine' = [engine EXCEPT !.at = at] \/ engine' = [engine EXCEPT !.at = at, !.ws = ws]
      <4>1. CASE Tree
        BY <4>1 DEF Tree, Looked
      <4>2. CASE Add
        BY <4>2 DEF Add, TimesOut, Fails
      <4>3. CASE Rename
        BY <4>3 DEF Rename, TimesOut, Fails, EngineTo
      <4>4. CASE Move
        BY <4>4 DEF Move, TimesOut, Fails
      <4>. QED BY <1>9, <4>1, <4>2, <4>3, <4>4
    <3>2. Resting.at = "rest"
      BY DEF Resting
    <3>. QED BY <3>1, <3>2 DEF EngineOK
  <2>. QED BY <1>2, <2>1, <2>2
<1>10. CASE \E s \in RuleScripts : Recipe(s)
  <2>1. UNCHANGED <<mapped, managed, engine>>
    BY <1>10 DEF Recipe, workspaceObj, ScriptAdd, ScriptRename, applyLayout, ScriptSplit, SetLeft, SetRight, ScriptAt, rule
  <2>. QED BY <1>2, <2>1
<1>. QED BY <1>4, <1>5, <1>6, <1>7, <1>8, <1>9, <1>10 DEF RulesNext, PlacementNext, Handler

\* While no window that a rule matches has come, the handler has nothing to do.
LEMMA HandlerRests ==
  ASSUME PlaceInv, MappedOK, Unruled
  PROVE  engine.at = "rest"
<1> SUFFICES ASSUME engine.at # "rest" PROVE FALSE
  OBVIOUS
<1>1. engine.win \in Windows /\ mapped[engine.win] = 0
  BY DEF PlaceInv, EngineOK, Unruled
<1>. QED BY <1>1 DEF MappedOK

LEMMA OnlyInStays ==
  ASSUME SpacesTyped, leaves' \in Nat, leaves <= leaves', NEW leaf, NEW ws, OnlyIn(leaf, ws),
         \A i \in Spaces' : \A x \in Ids(spaces'[i].row) :
           (i \in Spaces /\ x \in Ids(spaces[i].row)) \/ x \in (leaves + 1)..leaves'
  PROVE  OnlyIn(leaf, ws)'
<1>1. leaves \in Nat /\ leaf \in 1..leaves
  BY DEF SpacesTyped, OnlyIn
<1>2. leaf \in 1..leaves' /\ leaf \notin (leaves + 1)..leaves'
  BY <1>1
<1>. QED BY <1>2 DEF OnlyIn

LEMMA LeavesStay ==
  ASSUME PlaceInv, Kept, NEW leaf, NEW ws, OnlyIn(leaf, ws)
  PROVE  OnlyIn(leaf, ws)'
<1>1. leaves' \in Nat
  BY DEF Kept, SpacesTyped
<1>2. SpacesTyped /\ leaves <= leaves'
  BY DEF Kept, PlaceInv
<1>3. \A i \in Spaces' : \A x \in Ids(spaces'[i].row) :
        (i \in Spaces /\ x \in Ids(spaces[i].row)) \/ x \in (leaves + 1)..leaves'
  BY DEF Kept
<1>. QED BY <1>1, <1>2, <1>3, OnlyInStays

\* Nothing is built, and nobody builds who did not.
LEMMA RecipesStay ==
  ASSUME PlaceInv, RecipeOK, Kept, RightsStay, script' \in [RuleScripts -> ScriptRecs],
         \A s \in RuleScripts :
           /\ Building(s)' => Building(s) /\ script'[s].leaf = script[s].leaf /\ script'[s].ws = script[s].ws
           /\ script'[s].at \in {"left", "right"} =>
                script[s].at \in {"left", "right"} /\ script'[s].new = script[s].new
  PROVE  RecipeOK'
<1>1. ASSUME NEW s \in RuleScripts, Building(s)'
      PROVE  OnlyIn(script[s].leaf, script[s].ws)' /\ \A l \in ToSet(spaces'[script'[s].ws].row) : l.app # "right"
  <2>1. Building(s) /\ script'[s].leaf = script[s].leaf /\ script'[s].ws = script[s].ws
    BY <1>1
  <2>2. PICK leaf : leaf = script[s].leaf
    OBVIOUS
  <2>3. PICK ws : ws = script[s].ws
    OBVIOUS
  <2>4. OnlyIn(leaf, ws) /\ \A l \in ToSet(spaces[ws].row) : l.app # "right"
    BY <2>1, <2>2, <2>3 DEF RecipeOK
  <2>5. OnlyIn(leaf, ws)'
    BY <2>4, LeavesStay
  <2>6. ws \in Spaces
    BY <2>1, <2>3 DEF PlaceInv, ScriptsOK
  <2>7. ws \in Spaces'
    BY <2>6 DEF Kept
  <2>8. \A l \in ToSet(spaces'[ws].row) : l.app # "right"
    BY <2>4, <2>7 DEF RightsStay
  <2>. QED BY <2>1, <2>2, <2>3, <2>5, <2>8 DEF OnlyIn
<1>2. ASSUME NEW s \in RuleScripts, script'[s].at \in {"left", "right"}
      PROVE  OnlyIn(script[s].new, script[s].ws)'
  <2>1. script[s].at \in {"left", "right"} /\ script'[s].new = script[s].new /\ script'[s].ws = script[s].ws
    BY <1>2 DEF Building
  <2>2. PICK leaf : leaf = script[s].new
    OBVIOUS
  <2>3. PICK ws : ws = script[s].ws
    OBVIOUS
  <2>4. OnlyIn(leaf, ws)
    BY <2>1, <2>2, <2>3 DEF RecipeOK
  <2>5. OnlyIn(leaf, ws)'
    BY <2>4, LeavesStay
  <2>. QED BY <2>1, <2>2, <2>3, <2>5 DEF OnlyIn
<1>3. \A i \in Spaces' : \A l, m \in ToSet(spaces'[i].row) : l.app = "right" /\ m.app = "right" => l = m
  BY DEF RecipeOK, RightsStay
<1>. QED BY <1>1, <1>2, <1>3 DEF RecipeOK

\* A row has one second half, so the count is at most one.
LEMMA CountedOnce == PlaceInv /\ (Unruled => RecipeOK) => BuiltOnce
<1> SUFFICES ASSUME PlaceInv, Unruled, RecipeOK, NEW i \in Spaces
             PROVE  Cardinality({k \in DOMAIN spaces[i].row : spaces[i].row[k].app = "right"}) <= 1
  BY DEF BuiltOnce, Unruled
<1>1. PICK row : row = spaces[i].row
  OBVIOUS
<1>2. Row(row)
  BY <1>1 DEF PlaceInv, RowsOK
<1>3. PICK S : S = {k \in DOMAIN row : row[k].app = "right"}
  OBVIOUS
<1>4. ASSUME NEW k \in S, NEW m \in S PROVE k = m
  <2>1. row[k] \in ToSet(row) /\ row[m] \in ToSet(row)
    BY <1>3 DEF ToSet
  <2>2. row[k] = row[m]
    BY <1>1, <1>3, <2>1 DEF RecipeOK
  <2>. QED BY <1>2, <1>3, <2>2 DEF Row, Distinct
<1>5. CASE S = {}
  <2>1. Cardinality(S) = 0
    BY <1>5, FS_EmptySet
  <2>. QED BY <1>1, <1>3, <2>1
<1>6. CASE S # {}
  <2>1. PICK k \in S : TRUE
    BY <1>6
  <2>2. S = {k}
    BY <1>4, <2>1
  <2>3. Cardinality(S) = 1
    BY <2>2, FS_Singleton
  <2>. QED BY <1>1, <1>3, <2>3
<1>. QED BY <1>5, <1>6

LEMMA RecipeStep ==
  ASSUME NamesChosen, OneEnsurer, PlaceInv, PlaceInv', MappedOK, Unruled, RecipeOK, [RulesNext]_rulesVars
  PROVE  RecipeOK'
<1> USE DEF PlaceInv
<1>1. script' \in [RuleScripts -> ScriptRecs] /\ script \in [RuleScripts -> ScriptRecs]
  BY DEF ScriptsOK, ScriptRecs
<1>2. ASSUME Kept, RightsStay, UNCHANGED script PROVE RecipeOK'
  BY <1>1, <1>2, RecipesStay DEF Building
<1>3. CASE UNCHANGED <<spaces, cur, leaves, script>>
  <2>1. Kept /\ RightsStay
    BY <1>3, SameKeeps
  <2>. QED BY <1>2, <1>3, <2>1
<1>4. CASE FloatsNext \/ UNCHANGED rulesVars
  BY <1>3, <1>4 DEF FloatsNext, FloatRule, SetFloatRules, rulesVars, desktop
<1>5. ASSUME NEW win \in Windows, manage(win) \/ unmanage(win) PROVE RecipeOK'
  <2>1. Kept /\ RightsStay
    BY <1>5, ManageDoes, UnmanageDoes
  <2>2. UNCHANGED script
    BY <1>5 DEF manage, unmanage
  <2>. QED BY <1>2, <2>1, <2>2
<1>6. CASE SwitchTo
  <2>1. UNCHANGED <<spaces, leaves, script>>
    BY <1>6 DEF SwitchTo
  <2>2. SpacesTyped' /\ RowsOK' /\ Spaces' = Spaces /\ leaves <= leaves'
    BY <2>1 DEF Spaces, SpacesTyped
  <2>3. Kept /\ RightsStay
    BY <2>1, <2>2 DEF Kept, RightsStay
  <2>. QED BY <1>2, <2>1, <2>3
<1>7. CASE Handler
  <2>1. engine.at = "rest"
    BY HandlerRests
  <2>2. Match
    BY <1>7, <2>1 DEF Handler, Tree, Add, Rename, Move, At
  <2>. QED BY <1>3, <2>2 DEF Match, At
<1>8. ASSUME NEW s \in RuleScripts, Recipe(s) PROVE RecipeOK'
  <2>1. ASSUME NEW r, script' = [script EXCEPT ![s] = r]
        PROVE  script'[s] = r /\ \A t \in RuleScripts : t # s => script'[t] = script[t]
    BY <1>1, <2>1
  <2>2. ASSUME NEW r, script' = [script EXCEPT ![s] = r], r.at \notin {"split", "left", "right"}, Kept, RightsStay
        PROVE  RecipeOK'
    <3>1. ASSUME NEW t \in RuleScripts
          PROVE  /\ Building(t)' => Building(t) /\ script'[t].leaf = script[t].leaf /\ script'[t].ws = script[t].ws
                 /\ script'[t].at \in {"left", "right"} =>
                      script[t].at \in {"left", "right"} /\ script'[t].new = script[t].new
      <4>1. CASE t = s
        BY <2>1, <2>2, <4>1 DEF Building
      <4>2. CASE t # s
        BY <2>1, <2>2, <4>2 DEF Building
      <4>. QED BY <4>1, <4>2
    <3>. QED BY <1>1, <2>2, <3>1, RecipesStay
  <2>3. CASE workspaceObj(s)
    <3>1. PICK r : script' = [script EXCEPT ![s] = r]
      BY <2>3 DEF workspaceObj, ScriptTo
    <3>2. r.at \in {"add", "check"}
      <4>1. script' = [script EXCEPT ![s] =
                         IF Named(WantedBy(s)) = {} THEN [[script[s] EXCEPT !.runs = @ + 1] EXCEPT !.at = "add"]
                         ELSE [[script[s] EXCEPT !.runs = @ + 1] EXCEPT !.at = "check", !.ws = Min(Named(WantedBy(s)))]]
        BY <2>3 DEF workspaceObj, ScriptTo
      <4>2. script'[s] = r
        BY <2>1, <3>1
      <4>. QED BY <1>1, <4>1, <4>2 DEF ScriptRecs
    <3>3. UNCHANGED <<spaces, cur, leaves>>
      BY <2>3 DEF workspaceObj
    <3>4. Kept /\ RightsStay
      BY <3>3, SameKeeps
    <3>. QED BY <2>2, <3>1, <3>2, <3>4
  <2>4. CASE ScriptAdd(s)
    <3>1. PICK r : r = [Advance(s, "rename") EXCEPT !.ws = Len(spaces')]
      OBVIOUS
    <3>2. script' = [script EXCEPT ![s] = r] /\ OpAddWorkspace
      BY <2>4, <3>1 DEF ScriptAdd, ScriptTo
    <3>3. r.at = "rename"
      BY <1>1, <3>1 DEF Advance, ScriptRecs
    <3>. QED BY <2>2, <3>2, <3>3, AddKeeps
  <2>5. CASE ScriptRename(s)
    <3>1. PICK r : r = Advance(s, "check")
      OBVIOUS
    <3>2. PICK ws : ws = script[s].ws
      OBVIOUS
    <3>3. /\ script' = [script EXCEPT ![s] = r] /\ OpRenameWorkspace(ws, WantedBy(s)) /\ script[s].at = "rename"
      BY <2>5, <3>1, <3>2 DEF ScriptRename, ScriptAt, ScriptTo
    <3>4. r.at = "check"
      BY <1>1, <3>1 DEF Advance, ScriptRecs
    <3>5. ws \in Spaces /\ WantedBy(s) \in Names
      BY <3>2, <3>3 DEF ScriptsOK, Names
    <3>6. Spaces' = Spaces /\ leaves' = leaves /\ \A j \in Spaces : spaces'[j].row = spaces[j].row
      BY <3>3, <3>5, RenameKeeps
    <3>7. script'[s] = r /\ \A t \in RuleScripts : t # s => script'[t] = script[t]
      BY <1>1, <3>3
    <3>8. \A t \in RuleScripts : Building(t)' => t # s /\ script'[t] = script[t] /\ Building(t) /\ script[t].ws \in Spaces
      BY <3>4, <3>7 DEF Building, ScriptsOK
    <3>. QED BY <3>6, <3>7, <3>8 DEF RecipeOK, OnlyIn, Building
  <2>6. CASE applyLayout(s)
    <3>1. PICK r \in ScriptRecs :
            /\ script' = [script EXCEPT ![s] = r] /\ r.ws = script[s].ws
            /\ \/ r.at = "rest"
               \/ r.at = "split" /\ Fresh(spaces[r.ws].row) /\ r.leaf = spaces[r.ws].row[1].id
      BY <2>6, ApplyLayoutDoes
    <3>2. Kept /\ RightsStay /\ UNCHANGED <<spaces, cur, leaves>> /\ script[s].at = "check"
      BY <2>6, ApplyLayoutDoes
    <3>3. CASE r.at = "rest"
      BY <2>2, <3>1, <3>2, <3>3
    <3>4. CASE r.at # "rest"
      <4>1. PICK ws : ws = script[s].ws
        OBVIOUS
      <4>2. PICK row : row = spaces[ws].row
        OBVIOUS
      <4>3. ws \in Spaces /\ r.ws = ws /\ r.at = "split" /\ Fresh(row) /\ r.leaf = row[1].id
        BY <3>1, <3>2, <3>4, <4>1, <4>2 DEF ScriptsOK
      <4>4. Row(row) /\ Ids(row) \subseteq 1..leaves
        BY <4>2, <4>3 DEF RowsOK
      <4>5. Len(row) = 1 /\ row[1].app = NoApp /\ DOMAIN row = {1}
        BY <4>3, <4>4 DEF Fresh, Row
      <4>6. r.leaf \in Ids(row) /\ \A l \in ToSet(row) : l.app # "right"
        BY <4>3, <4>5, AppsDiffer DEF Ids, ToSet
      <4>7. \A i \in Spaces : r.leaf \in Ids(spaces[i].row) => i = ws
        BY <4>2, <4>3, <4>6 DEF RowsOK
      <4>8. spaces' = spaces /\ leaves' = leaves /\ Spaces' = Spaces
        BY <3>2 DEF Spaces
      <4>9. OnlyIn(r.leaf, ws)'
        BY <4>4, <4>6, <4>7, <4>8 DEF OnlyIn
      <4>10. script'[s] = r /\ \A t \in RuleScripts : t # s => script'[t] = script[t]
        BY <1>1, <3>1
      <4>11. ASSUME NEW t \in RuleScripts, Building(t)'
             PROVE  OnlyIn(script[t].leaf, script[t].ws)' /\ \A l \in ToSet(spaces'[script'[t].ws].row) : l.app # "right"
        <5>1. CASE t = s
          BY <4>2, <4>3, <4>6, <4>8, <4>9, <4>10, <5>1 DEF OnlyIn
        <5>2. CASE t # s
          BY <4>8, <4>10, <4>11, <5>2 DEF RecipeOK, Building, OnlyIn
        <5>. QED BY <5>1, <5>2
      <4>12. \A t \in RuleScripts : script'[t].at \in {"left", "right"} => OnlyIn(script[t].new, script[t].ws)'
        BY <4>3, <4>8, <4>10 DEF RecipeOK, OnlyIn
      <4>. QED BY <4>8, <4>11, <4>12 DEF RecipeOK
    <3>. QED BY <3>3, <3>4
  <2>7. CASE ScriptSplit(s)
    <3>1. PICK r \in ScriptRecs :
            /\ script' = [script EXCEPT ![s] = r] /\ r.ws = script[s].ws /\ r.leaf = script[s].leaf
            /\ \/ r.at = "rest"
               \/ /\ r.at = "left" /\ r.new = leaves' /\ leaves' = leaves + 1
                  /\ \E i \in SpaceOf(r.leaf) : \A j \in Spaces' : r.new \in Ids(spaces'[j].row) => j = i
      BY <2>7, ScriptSplitDoes
    <3>2. Kept /\ RightsStay /\ script[s].at = "split"
      BY <2>7, ScriptSplitDoes
    <3>3. CASE r.at = "rest"
      BY <2>2, <3>1, <3>2, <3>3
    <3>4. CASE r.at # "rest"
      <4>1. PICK ws : ws = script[s].ws
        OBVIOUS
      <4>2. PICK i \in SpaceOf(r.leaf) : \A j \in Spaces' : r.new \in Ids(spaces'[j].row) => j = i
        BY <3>1, <3>4
      <4>3. OnlyIn(r.leaf, ws)
        BY <3>1, <3>2, <4>1 DEF RecipeOK, Building
      <4>4. i = ws
        BY <4>2, <4>3, FoundIn DEF OnlyIn
      <4>5. r.new = leaves' /\ leaves' = leaves + 1 /\ leaves \in Nat
        BY <3>1, <3>4 DEF SpacesTyped
      <4>6. r.new \in 1..leaves'
        BY <4>5
      <4>7. OnlyIn(r.new, ws)'
        BY <4>2, <4>4, <4>6 DEF OnlyIn
      <4>8. OnlyIn(r.leaf, ws)'
        BY <3>2, <4>3, LeavesStay
      <4>9. script'[s] = r /\ \A t \in RuleScripts : t # s => script'[t] = script[t]
        BY <1>1, <3>1
      <4>10. ASSUME NEW t \in RuleScripts, Building(t)'
             PROVE  OnlyIn(script[t].leaf, script[t].ws)' /\ \A l \in ToSet(spaces'[script'[t].ws].row) : l.app # "right"
        <5>1. Building(t) /\ script'[t].leaf = script[t].leaf /\ script'[t].ws = script[t].ws
          <6>1. CASE t = s
            BY <3>1, <3>2, <4>9, <6>1 DEF Building
          <6>2. CASE t # s
            BY <4>9, <4>10, <6>2 DEF Building
          <6>. QED BY <6>1, <6>2
        <5>2. PICK a : a = script[t].leaf
          OBVIOUS
        <5>3. PICK b : b = script[t].ws
          OBVIOUS
        <5>4. OnlyIn(a, b) /\ (\A l \in ToSet(spaces[b].row) : l.app # "right") /\ b \in Spaces
          BY <5>1, <5>2, <5>3 DEF RecipeOK, ScriptsOK
        <5>5. OnlyIn(a, b)'
          BY <3>2, <5>4, LeavesStay
        <5>6. b \in Spaces'
          BY <3>2, <5>4 DEF Kept
        <5>7. \A l \in ToSet(spaces'[b].row) : l.app # "right"
          BY <3>2, <5>4, <5>6 DEF RightsStay
        <5>. QED BY <5>1, <5>2, <5>3, <5>5, <5>7 DEF OnlyIn
      <4>11. ASSUME NEW t \in RuleScripts, script'[t].at \in {"left", "right"}
             PROVE  OnlyIn(script[t].new, script[t].ws)'
        <5>1. CASE t = s
          BY <3>1, <4>1, <4>7, <4>9, <5>1 DEF OnlyIn
        <5>2. CASE t # s
          <6>1. PICK a : a = script[t].new
            OBVIOUS
          <6>2. PICK b : b = script[t].ws
            OBVIOUS
          <6>3. OnlyIn(a, b)
            BY <4>9, <4>11, <5>2, <6>1, <6>2 DEF RecipeOK
          <6>4. OnlyIn(a, b)'
            BY <3>2, <6>3, LeavesStay
          <6>. QED BY <4>9, <5>2, <6>1, <6>2, <6>4 DEF OnlyIn
        <5>. QED BY <5>1, <5>2
      <4>12. \A j \in Spaces' : \A l, m \in ToSet(spaces'[j].row) : l.app = "right" /\ m.app = "right" => l = m
        BY <3>2 DEF RecipeOK, RightsStay
      <4>. QED BY <4>10, <4>11, <4>12 DEF RecipeOK
    <3>. QED BY <3>3, <3>4
  <2>8. CASE SetLeft(s)
    <3>1. PICK r \in ScriptRecs :
            /\ script' = [script EXCEPT ![s] = r] /\ r.ws = script[s].ws /\ r.leaf = script[s].leaf /\ r.new = script[s].new
            /\ r.at \in {"rest", "right"}
      BY <2>8, SetLeftDoes
    <3>2. Kept /\ RightsStay /\ script[s].at = "left"
      BY <2>8, SetLeftDoes
    <3>3. script'[s] = r /\ \A t \in RuleScripts : t # s => script'[t] = script[t]
      BY <1>1, <3>1
    <3>4. ASSUME NEW t \in RuleScripts
          PROVE  /\ Building(t)' => Building(t) /\ script'[t].leaf = script[t].leaf /\ script'[t].ws = script[t].ws
                 /\ script'[t].at \in {"left", "right"} =>
                      script[t].at \in {"left", "right"} /\ script'[t].new = script[t].new
      <4>1. CASE t = s
        BY <3>1, <3>2, <3>3, <4>1 DEF Building
      <4>2. CASE t # s
        BY <3>3, <4>2 DEF Building
      <4>. QED BY <4>1, <4>2
    <3>. QED BY <1>1, <3>2, <3>4, RecipesStay
  <2>9. CASE SetRight(s)
    <3>1. PICK r \in ScriptRecs : script' = [script EXCEPT ![s] = r] /\ r.ws = script[s].ws /\ r.at = "rest"
      BY <2>9, SetRightDoes
    <3>2. Kept /\ script[s].at = "right"
      BY <2>9, SetRightDoes
    <3>3. CASE RightsStay
      BY <2>2, <3>1, <3>2, <3>3
    <3>4. CASE ~RightsStay
      <4>1. PICK new : new = script[s].new
        OBVIOUS
      <4>2. PICK ws : ws = script[s].ws
        OBVIOUS
      <4>3. PICK i \in SpaceOf(new) : \A j \in Spaces' : j \in Spaces /\ \A m \in ToSet(spaces'[j].row) :
              m \in ToSet(spaces[j].row) \/ (j = i /\ m.id = new /\ m.app = "right")
        BY <2>9, <3>4, <4>1, SetRightDoes
      <4>4. OnlyIn(new, ws) /\ \A l \in ToSet(spaces[ws].row) : l.app # "right"
        BY <3>2, <4>1, <4>2 DEF RecipeOK, Building
      <4>5. i = ws /\ ws \in Spaces
        BY <4>3, <4>4, FoundIn DEF OnlyIn
      <4>6. script'[s] = r /\ \A t \in RuleScripts : t # s => script'[t] = script[t]
        BY <1>1, <3>1
      <4>7. \A t \in RuleScripts : Building(t)' => t # s /\ Building(t) /\ script'[t] = script[t]
        BY <3>1, <4>6 DEF Building
      <4>8. ASSUME NEW t \in RuleScripts, Building(t)'
            PROVE  OnlyIn(script[t].leaf, script[t].ws)' /\ \A l \in ToSet(spaces'[script'[t].ws].row) : l.app # "right"
        <5>1. t # s /\ Building(t) /\ script'[t] = script[t]
          BY <4>7, <4>8
        <5>2. PICK a : a = script[t].leaf
          OBVIOUS
        <5>3. PICK b : b = script[t].ws
          OBVIOUS
        <5>4. OnlyIn(a, b) /\ (\A l \in ToSet(spaces[b].row) : l.app # "right") /\ b \in Spaces
          BY <5>1, <5>2, <5>3 DEF RecipeOK, ScriptsOK
        <5>5. OnlyIn(a, b)'
          BY <3>2, <5>4, LeavesStay
        <5>6. b # ws
          <6>1. spaces[b].name = WantedBy(t) /\ spaces[ws].name = WantedBy(s)
            BY <3>2, <4>2, <5>1, <5>3 DEF ScriptsOK, Building
          <6>. QED BY <5>1, <6>1 DEF OneEnsurer
        <5>7. b \in Spaces'
          BY <3>2, <5>4 DEF Kept
        <5>8. \A l \in ToSet(spaces'[b].row) : l.app # "right"
          BY <4>3, <4>5, <5>4, <5>6, <5>7
        <5>. QED BY <5>1, <5>2, <5>3, <5>5, <5>8 DEF OnlyIn
      <4>9. ASSUME NEW t \in RuleScripts, script'[t].at \in {"left", "right"}
            PROVE  OnlyIn(script[t].new, script[t].ws)'
        <5>1. t # s /\ script'[t] = script[t]
          BY <4>7, <4>9 DEF Building
        <5>2. PICK a : a = script[t].new
          OBVIOUS
        <5>3. PICK b : b = script[t].ws
          OBVIOUS
        <5>4. OnlyIn(a, b)
          BY <4>9, <5>1, <5>2, <5>3 DEF RecipeOK
        <5>5. OnlyIn(a, b)'
          BY <3>2, <5>4, LeavesStay
        <5>. QED BY <5>1, <5>2, <5>3, <5>5 DEF OnlyIn
      <4>10. ASSUME NEW j \in Spaces', NEW l \in ToSet(spaces'[j].row), NEW m \in ToSet(spaces'[j].row), l.app = "right", m.app = "right"
             PROVE  l = m
        <5>1. CASE j = ws
          <6>1. l.id = new /\ m.id = new
            BY <4>3, <4>4, <4>10, <5>1
          <6>2. Row(spaces'[j].row)
            BY DEF RowsOK
          <6>. QED BY <6>1, <6>2, SetMembers
        <5>2. CASE j # ws
          BY <4>3, <4>5, <4>10, <5>2 DEF RecipeOK
        <5>. QED BY <5>1, <5>2
      <4>. QED BY <4>8, <4>9, <4>10 DEF RecipeOK
    <3>. QED BY <3>3, <3>4
  <2>. QED BY <1>8, <2>3, <2>4, <2>5, <2>6, <2>7, <2>8, <2>9 DEF Recipe
<1>. QED BY <1>4, <1>5, <1>6, <1>7, <1>8 DEF RulesNext, PlacementNext

\* A name stands for one workspace, and a recipe builds on it once, whatever
\* windows come and go: as long as one goroutine looks after a name.
THEOREM NothingIsMadeTwice == NamesChosen /\ OneEnsurer => (RulesSpec => []NothingTwice)
<1> SUFFICES ASSUME NamesChosen, OneEnsurer PROVE RulesSpec => []NothingTwice
  OBVIOUS
<1>1. RulesInit => OnceInv
  <2> SUFFICES ASSUME RulesInit PROVE OnceInv
    OBVIOUS
  <2>1. Spaces = {1} /\ spaces[1].row = <<Leaf(1, NoApp, NoWin)>> /\ engine.at = "rest" /\ managed = <<>>
    BY DEF RulesInit, Spaces, Resting
  <2>2. \A s \in RuleScripts : script[s].at = "rest"
    BY DEF RulesInit
  <2>3. Ensured
    BY <2>1, <2>2 DEF Ensured, NamesUnique
  <2>4. MappedOK
    BY <2>1 DEF RulesInit, MappedOK
  <2>5. \A l \in ToSet(spaces[1].row) : l = Leaf(1, NoApp, NoWin)
    BY <2>1, OneLeaf, FreshLeaf
  <2>6. RecipeOK
    BY <2>1, <2>2, <2>5 DEF RecipeOK, Building
  <2>. QED BY <2>3, <2>4, <2>6 DEF OnceInv
<1>2. PlaceInv /\ OnceInv /\ [RulesNext]_rulesVars => PlaceInv' /\ OnceInv'
  <2> SUFFICES ASSUME PlaceInv, OnceInv, [RulesNext]_rulesVars PROVE PlaceInv' /\ OnceInv'
    OBVIOUS
  <2>1. PlaceInv'
    BY PlaceStep
  <2>2. Ensured'
    BY EnsuredStep DEF OnceInv
  <2>3. MappedOK' /\ (Unruled' => Unruled)
    BY MappedStep DEF OnceInv
  <2>4. ASSUME Unruled' PROVE RecipeOK'
    <3>1. Unruled /\ MappedOK /\ RecipeOK
      BY <2>3, <2>4 DEF OnceInv
    <3>. QED BY <2>1, <3>1, RecipeStep
  <2>. QED BY <2>1, <2>2, <2>3, <2>4 DEF OnceInv
<1>3. PlaceInv /\ OnceInv => NothingTwice
  BY CountedOnce DEF OnceInv, Ensured, NothingTwice
<1>. QED BY <1>1, <1>2, <1>3, PlaceInitHolds, PTL DEF RulesSpec
=============================================================================
