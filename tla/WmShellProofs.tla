--------------------------- MODULE WmShellProofs ---------------------------
(***************************************************************************)
(* Proofs about WmShell, for any number of clients, leaves and workspaces: *)
(* whatever order the events, keys, scripts and batches come in, the maps  *)
(* of frames agree with each other and with the tree, and no client is     *)
(* left alive without a leaf and unasked to close.                         *)
(*                                                                         *)
(* Two operations that callers of the raw API may send are left out        *)
(* (SaneOps), and TLC finds states in which the maps disagree with them:   *)
(* set-leaf-app and swap-leaves rewrite what a leaf shows under its frame, *)
(* and a cloned workspace has client leaves without a frame, which a swap  *)
(* of frames does not expect.                                              *)
(***************************************************************************)
EXTENDS WmShell, Integers, SequenceTheorems, FiniteSetTheorems, WellFoundedInduction, TLAPS

SaneOps ==
  /\ "set-leaf-app" \notin Ops /\ "swap-leaves" \notin Ops
  /\ ~("clone-workspace" \in Ops /\ "swap" \in Ops)

-----------------------------------------------------------------------------
(* The inductive invariant.                                                *)

AppNames == {Launcher, Win, Builtin}
TileRecs == [id : LeafIds, app : AppNames]
Spaces == [id : WsIds, row : Seq(TileRecs)]

RowTiles(row) == {row[k] : k \in DOMAIN row}
DistinctRow(row) == \A k, m \in DOMAIN row : row[k].id = row[m].id => k = m
Tiles(S) == UNION {RowTiles(S[i].row) : i \in DOMAIN S}

\* The rows of leaves: none empty, and no leaf twice.
RowsOK(S) ==
  /\ S \in Seq(Spaces)
  /\ \A i \in DOMAIN S : S[i].row # <<>> /\ DistinctRow(S[i].row)
  /\ \A i, j \in DOMAIN S : i # j => RowIds(S[i].row) \cap RowIds(S[j].row) = {}
Tree(s) ==
  /\ RowsOK(s.spaces) /\ s.cur \in WsIdsOf(s)
  /\ Cardinality(Leaves(s)) <= MaxLeaves /\ Len(s.spaces) <= MaxWs

\* What has a frame: tiled clients and the windows of builtin tiles.
Framed(s) == (s.managed \ s.floats) \cup s.wins

\* The maps of frames and leaves are inverse to each other.
Frames(s) ==
  /\ s.frames \in [DOMAIN s.frames -> Clients \cup Builtins] /\ DOMAIN s.frames \subseteq LeafIds
  /\ s.leafOf \in [DOMAIN s.leafOf -> LeafIds]
  /\ s.floats \subseteq s.managed /\ s.managed \subseteq Clients /\ s.wins \subseteq Builtins
  /\ s.fs \in Clients => s.fs \in s.managed
  /\ DOMAIN s.wsOf = s.floats
  /\ \A l \in DOMAIN s.frames :
       s.frames[l] \in Framed(s) /\ s.frames[l] \in DOMAIN s.leafOf /\ s.leafOf[s.frames[l]] = l
  /\ \A f \in Framed(s) :
       f \in DOMAIN s.leafOf /\ s.leafOf[f] \in DOMAIN s.frames /\ s.frames[s.leafOf[f]] = f

\* A leaf of the tree has no frame of the other kind, and where frames can be
\* swapped every client's leaf has one.
Matched(s) ==
  \A t \in Tiles(s.spaces) :
    /\ t.id \in DOMAIN s.frames => (t.app = Win <=> s.frames[t.id] \in Clients)
    /\ "swap" \in Ops /\ t.app = Win => t.id \in DOMAIN s.frames

\* syncBuiltins ran: builtin leaves have frames.
Synced(s) == \A t \in Tiles(s.spaces) : t.app # Win => t.id \in DOMAIN s.frames

\* Frames without a leaf are clients' that were asked to close.
Orphaned(s) == \A l \in DOMAIN s.frames \ Leaves(s) : s.frames[l] \in s.asked \cap Clients

\* No leaf is remembered for what is gone, but for the fullscreen frame.
Held(s) == DOMAIN s.leafOf \subseteq Framed(s) \cup {s.fs}

Fields == {"spaces", "cur", "frames", "leafOf", "wsOf", "managed", "floats", "wins", "asked",
           "fs", "target", "preserved", "xf"}
Shell(s) == DOMAIN s = Fields /\ s = [k \in Fields |-> s[k]]

Sound(s) == Shell(s) /\ Tree(s) /\ Frames(s) /\ Matched(s) /\ Orphaned(s)
IInv == Sound(wm) /\ Synced(wm) /\ Held(wm)

-----------------------------------------------------------------------------
(* What moves the focus leaves the tree and the maps alone.                *)

\* All but the focus registers, the X focus and fullscreen.
SameMaps(s, t) ==
  /\ Shell(t) /\ t.spaces = s.spaces /\ t.cur = s.cur
  /\ t.frames = s.frames /\ t.leafOf = s.leafOf /\ t.wsOf = s.wsOf
  /\ t.managed = s.managed /\ t.floats = s.floats /\ t.wins = s.wins /\ t.asked = s.asked
SameBody(s, t) == SameMaps(s, t) /\ t.fs = s.fs

LEMMA SameTrans ==
  ASSUME NEW s, NEW t, NEW u, SameBody(s, t), SameBody(t, u)
  PROVE  SameBody(s, u)
BY DEF SameBody, SameMaps

LEMMA SameSelf ==
  ASSUME NEW s, Shell(s)
  PROVE  SameBody(s, s)
BY DEF SameBody, SameMaps

LEMMA GiveSame ==
  ASSUME NEW s, Shell(s), NEW f
  PROVE  SameBody(s, Give(s, f))
BY DEF SameBody, SameMaps, Give, Shell, Fields

LEMMA relayoutSame ==
  ASSUME NEW s, Shell(s)
  PROVE  SameBody(s, relayout(s))
BY DEF SameBody, SameMaps, relayout, Shell, Fields

LEMMA RegistersSame ==
  ASSUME NEW s, Shell(s), NEW f, NEW l
  PROVE  /\ SameBody(s, FocusTile(s, l)) /\ SameBody(s, SetTile(s, l)) /\ SameBody(s, FocusFloat(s, f))
         /\ SameBody(s, FocusFullscreen(s, f)) /\ SameBody(s, Restore(s)) /\ SameBody(s, ClearTarget(s))
BY DEF SameBody, SameMaps, FocusTile, SetTile, FocusFloat, FocusFullscreen, Restore, ClearTarget, Shell, Fields

LEMMA focusSame ==
  ASSUME NEW s, Shell(s), NEW leaf
  PROVE  SameBody(s, focus(s, leaf))
<1>1. CASE s.fs # None /\ IsFloat(s, s.fs)
  <2>1. SameBody(s, FocusFullscreen(s, s.fs))
    BY RegistersSame
  <2>2. SameBody(FocusFullscreen(s, s.fs), Give(FocusFullscreen(s, s.fs), s.fs))
    BY <2>1, GiveSame DEF SameBody, SameMaps
  <2>. QED BY <1>1, <2>1, <2>2, SameTrans DEF focus
<1>2. CASE ~(s.fs # None /\ IsFloat(s, s.fs))
  <2>1. PICK l, t : t = FocusTile(s, l) /\ focus(s, leaf) = IF l \in DOMAIN s.frames THEN Give(t, s.frames[l]) ELSE t
    BY <1>2 DEF focus
  <2>2. SameBody(s, t) /\ Shell(t)
    BY <2>1, RegistersSame DEF SameBody, SameMaps
  <2>3. SameBody(t, Give(t, s.frames[l]))
    BY <2>2, GiveSame
  <2>4. SameBody(s, Give(t, s.frames[l]))
    BY <2>2, <2>3, SameTrans
  <2>. QED BY <2>1, <2>2, <2>4
<1>. QED BY <1>1, <1>2

LEMMA focusFloatSame ==
  ASSUME NEW s, Shell(s), NEW f
  PROVE  SameBody(s, focusFloat(s, f))
<1>1. SameBody(s, FocusFloat(s, f))
  BY RegistersSame
<1>2. SameBody(FocusFloat(s, f), Give(FocusFloat(s, f), f))
  BY <1>1, GiveSame DEF SameBody, SameMaps
<1>. QED BY <1>1, <1>2, SameTrans DEF focusFloat

LEMMA RefocusSame ==
  ASSUME NEW s, Shell(s)
  PROVE  SameBody(s, Refocus(s)) /\ SameBody(s, FocusFirst(s))
BY SameSelf, focusSame DEF Refocus, FocusFirst

LEMMA refocusCurrentSame ==
  ASSUME NEW s, Shell(s)
  PROVE  SameBody(s, refocusCurrent(s))
<1>1. PICK t : /\ t = s \/ t = Refocus(ClearTarget(s))
               /\ refocusCurrent(s) = t \/ refocusCurrent(s) = FocusFirst(t)
  BY DEF refocusCurrent
<1>2. SameBody(s, ClearTarget(s)) /\ Shell(ClearTarget(s))
  BY RegistersSame DEF SameBody, SameMaps
<1>3. SameBody(s, Refocus(ClearTarget(s)))
  BY <1>2, RefocusSame, SameTrans
<1>4. SameBody(s, t) /\ Shell(t)
  BY <1>1, <1>3, SameSelf DEF SameBody, SameMaps
<1>5. SameBody(s, FocusFirst(t))
  BY <1>4, RefocusSame, SameTrans
<1>. QED BY <1>1, <1>4, <1>5

\* Fullscreen ends.
LEMMA ExitSame ==
  ASSUME NEW s, Shell(s)
  PROVE  SameMaps(s, exitFullscreen(s)) /\ exitFullscreen(s).fs = None
<1>1. PICK t : t = [s EXCEPT !.fs = None]
  OBVIOUS
<1>2. SameMaps(s, t) /\ t.fs = None
  BY <1>1 DEF SameMaps, Shell, Fields
<1>3. SameBody(t, relayout(t))
  BY <1>2, relayoutSame DEF SameMaps
<1>4. exitFullscreen(s) = t \/ exitFullscreen(s) = relayout(t)
  BY <1>1 DEF exitFullscreen
<1>. QED BY <1>2, <1>3, <1>4 DEF SameBody, SameMaps

LEMMA ClearSame ==
  ASSUME NEW s, Shell(s), NEW f
  PROVE  /\ SameMaps(s, clearFullscreenFor(s, f))
         /\ clearFullscreenFor(s, f).fs = IF s.fs = f THEN None ELSE s.fs
BY DEF SameMaps, Shell, Fields, clearFullscreenFor

\* None is no client, and no client is named like a builtin frame.
LEMMA Names ==
  /\ None \notin Clients /\ None \notin Builtins /\ Clients \cap Builtins = {}
  /\ IsFiniteSet(Clients) /\ MaxLeaves \in Nat \ {0} /\ MaxWs \in Nat \ {0}
  /\ Cardinality(Clients) \in Nat
  /\ LeafIds \subseteq Nat /\ WsIds \subseteq Nat /\ Builtins \subseteq Nat
<1>1. IsFiniteSet(Clients) /\ MaxLeaves \in Nat \ {0} /\ MaxWs \in Nat \ {0}
  BY ShellAssumption
<1>2. Cardinality(Clients) \in Nat
  BY <1>1, FS_CardinalityType
<1>3. LeafIds \subseteq Nat /\ WsIds \subseteq Nat /\ Builtins \subseteq Nat
  BY <1>1, <1>2 DEF LeafIds, WsIds, Builtins
<1>. QED BY <1>1, <1>2, <1>3, ShellAssumption

\* What the invariant says holds whatever the focus is.
LEMMA SoundSame ==
  ASSUME NEW s, NEW t, SameMaps(s, t), t.fs \in Clients => t.fs = s.fs
  PROVE  /\ Sound(s) => Sound(t)
         /\ Synced(s) => Synced(t)
<1>1. Leaves(t) = Leaves(s) /\ WsIdsOf(t) = WsIdsOf(s) /\ Framed(t) = Framed(s)
  BY DEF SameMaps, Leaves, WsIdsOf, Framed
<1>2. Tree(s) => Tree(t)
  BY <1>1 DEF SameMaps, Tree
<1>3. Frames(s) => Frames(t)
  BY <1>1 DEF SameMaps, Frames
<1>4. (Matched(s) => Matched(t)) /\ (Synced(s) => Synced(t))
  BY DEF SameMaps, Matched, Synced
<1>5. Orphaned(s) => Orphaned(t)
  BY <1>1 DEF SameMaps, Orphaned
<1>. QED BY <1>2, <1>3, <1>4, <1>5 DEF SameMaps, Sound

LEMMA SoundBody ==
  ASSUME NEW s, NEW t, SameBody(s, t)
  PROVE  /\ Sound(s) => Sound(t)
         /\ Synced(s) => Synced(t)
BY SoundSame DEF SameBody

-----------------------------------------------------------------------------
(* Sequences.                                                              *)

\* What the community modules' operators do, by index.
Inserted(s, k, e, i) == IF i <= k THEN s[i] ELSE IF i = k + 1 THEN e ELSE s[i - 1]

\* InsertAt, place by place.
LEMMA InsertedAt ==
  ASSUME NEW E, NEW s \in Seq(E), NEW n, n = Len(s), NEW k \in 0..n, NEW e \in E
  PROVE  /\ InsertAt(s, k + 1, e) \in Seq(E) /\ Len(InsertAt(s, k + 1, e)) = n + 1
         /\ \A i \in 1..(n + 1) : InsertAt(s, k + 1, e)[i] = Inserted(s, k, e, i)
<1>0. n \in Nat /\ k \in Nat /\ k <= n /\ n - k \in Nat
  OBVIOUS
<1>1. PICK a, b : a = SubSeq(s, 1, k) /\ b = SubSeq(s, k + 1, n)
  OBVIOUS
<1>2. a \in Seq(E) /\ Len(a) = k /\ \A i \in 1..k : a[i] = s[i]
  BY <1>0, <1>1
<1>3. b \in Seq(E) /\ Len(b) = n - k /\ \A i \in 1..(n - k) : b[i] = s[i + k]
  BY <1>0, <1>1
<1>4. PICK c, d : c = a \o d /\ d = <<e>>
  OBVIOUS
<1>5. d \in Seq(E) /\ Len(d) = 1 /\ d[1] = e
  BY <1>4
<1>6. c \in Seq(E) /\ Len(c) = k + 1 /\ \A i \in 1..(k + 1) : c[i] = IF i <= k THEN a[i] ELSE d[i - k]
  BY <1>0, <1>2, <1>4, <1>5, ConcatProperties
<1>7. PICK r : r = c \o b
  OBVIOUS
<1>8. InsertAt(s, k + 1, e) = r
  <2>1. (k + 1) - 1 = k
    BY <1>0
  <2>. QED BY <1>1, <1>4, <1>7, <2>1 DEF InsertAt
<1>9. /\ r \in Seq(E) /\ Len(r) = (k + 1) + (n - k)
      /\ \A i \in 1..((k + 1) + (n - k)) : r[i] = IF i <= k + 1 THEN c[i] ELSE b[i - (k + 1)]
  <2>1. /\ r \in Seq(E) /\ Len(r) = Len(c) + Len(b)
        /\ \A i \in 1..(Len(c) + Len(b)) : r[i] = IF i <= Len(c) THEN c[i] ELSE b[i - Len(c)]
    BY <1>3, <1>6, <1>7, ConcatProperties
  <2>2. Len(c) = k + 1 /\ Len(b) = n - k
    BY <1>3, <1>6
  <2>. QED BY <2>1, <2>2
<1>10. (k + 1) + (n - k) = n + 1
  BY <1>0
<1>11. ASSUME NEW i \in 1..(n + 1) PROVE r[i] = Inserted(s, k, e, i)
  <2> USE DEF Inserted
  <2>1. CASE i <= k
    <3>1. i \in 1..k /\ i \in 1..(k + 1) /\ i <= k + 1
      BY <1>0, <2>1
    <3>. QED BY <1>2, <1>6, <1>9, <1>10, <2>1, <3>1
  <2>2. CASE i = k + 1
    <3>1. i \in 1..(k + 1) /\ i <= k + 1 /\ ~(i <= k) /\ i - k = 1
      BY <1>0, <2>2
    <3>. QED BY <1>5, <1>6, <1>9, <1>10, <2>2, <3>1
  <2>3. CASE i > k + 1
    <3>1. PICK j \in 1..(n - k) : j = i - (k + 1) /\ j + k = i - 1
      BY <1>0, <2>3
    <3>2. ~(i <= k + 1) /\ ~(i <= k) /\ i # k + 1
      BY <1>0, <2>3
    <3>. QED BY <1>3, <1>9, <1>10, <3>1, <3>2
  <2>. QED BY <1>0, <2>1, <2>2, <2>3
<1>. QED BY <1>8, <1>9, <1>10, <1>11

\* RemoveAt, place by place.
Cut(s, k, i) == IF i < k THEN s[i] ELSE s[i + 1]
LEMMA RemovedAt ==
  ASSUME NEW E, NEW s \in Seq(E), NEW n, n = Len(s), NEW k \in 1..n
  PROVE  /\ RemoveAt(s, k) \in Seq(E) /\ Len(RemoveAt(s, k)) = n - 1
         /\ \A i \in 1..(n - 1) : RemoveAt(s, k)[i] = Cut(s, k, i)
<1>0. n \in Nat /\ k \in Nat /\ 1 <= k /\ k <= n /\ n - k \in Nat /\ k - 1 \in Nat
  OBVIOUS
<1>1. PICK a, b : a = SubSeq(s, 1, k - 1) /\ b = SubSeq(s, k + 1, n)
  OBVIOUS
<1>2. a \in Seq(E) /\ Len(a) = k - 1 /\ \A i \in 1..(k - 1) : a[i] = s[i]
  BY <1>0, <1>1
<1>3. b \in Seq(E) /\ Len(b) = n - k /\ \A i \in 1..(n - k) : b[i] = s[i + k]
  BY <1>0, <1>1
<1>4. PICK r : r = a \o b
  OBVIOUS
<1>5. RemoveAt(s, k) = r
  BY <1>1, <1>4 DEF RemoveAt
<1>6. /\ r \in Seq(E) /\ Len(r) = (k - 1) + (n - k)
      /\ \A i \in 1..((k - 1) + (n - k)) : r[i] = IF i <= k - 1 THEN a[i] ELSE b[i - (k - 1)]
  <2>1. /\ r \in Seq(E) /\ Len(r) = Len(a) + Len(b)
        /\ \A i \in 1..(Len(a) + Len(b)) : r[i] = IF i <= Len(a) THEN a[i] ELSE b[i - Len(a)]
    BY <1>2, <1>3, <1>4, ConcatProperties
  <2>2. Len(a) = k - 1 /\ Len(b) = n - k
    BY <1>2, <1>3
  <2>. QED BY <2>1, <2>2
<1>7. (k - 1) + (n - k) = n - 1
  BY <1>0
<1>8. ASSUME NEW i \in 1..(n - 1) PROVE r[i] = Cut(s, k, i)
  <2>1. CASE i < k
    <3>1. i \in 1..(k - 1) /\ i <= k - 1
      BY <1>0, <2>1
    <3>. QED BY <1>2, <1>6, <1>7, <2>1, <3>1 DEF Cut
  <2>2. CASE ~(i < k)
    <3>1. PICK j \in 1..(n - k) : j = i - (k - 1) /\ j + k = i + 1
      BY <1>0, <2>2
    <3>2. ~(i <= k - 1)
      BY <1>0, <2>2
    <3>. QED BY <1>3, <1>6, <1>7, <2>2, <3>1, <3>2 DEF Cut
  <2>. QED BY <2>1, <2>2
<1>. QED BY <1>5, <1>6, <1>7, <1>8

-----------------------------------------------------------------------------
(* Rows.                                                                   *)

Row(row) == row \in Seq(TileRecs) /\ row # <<>> /\ DistinctRow(row)

LEMMA RowFacts ==
  ASSUME NEW row \in Seq(TileRecs)
  PROVE  /\ DOMAIN row = 1..Len(row) /\ Len(row) \in Nat /\ DOMAIN row \subseteq Nat
         /\ row # <<>> <=> Len(row) > 0
         /\ RowTiles(row) \subseteq TileRecs /\ RowIds(row) \subseteq LeafIds
         /\ RowIds(row) = {t.id : t \in RowTiles(row)}
<1>1. DOMAIN row = 1..Len(row) /\ Len(row) \in Nat /\ (row # <<>> <=> Len(row) > 0)
  OBVIOUS
<1>2. \A k \in DOMAIN row : row[k] \in TileRecs
  OBVIOUS
<1>3. \A t \in TileRecs : t.id \in LeafIds
  BY DEF TileRecs
<1>. QED BY <1>1, <1>2, <1>3 DEF RowTiles, RowIds

\* Where a leaf is in its row.
LEMMA PosIs ==
  ASSUME NEW row, Row(row), NEW leaf \in RowIds(row)
  PROVE  /\ Pos(row, leaf) \in DOMAIN row /\ row[Pos(row, leaf)].id = leaf
         /\ \A k \in DOMAIN row : row[k].id = leaf => k = Pos(row, leaf)
<1>1. \E k \in DOMAIN row : row[k].id = leaf
  BY DEF RowIds
<1>2. Pos(row, leaf) \in DOMAIN row /\ row[Pos(row, leaf)].id = leaf
  BY <1>1 DEF Pos
<1>. QED BY <1>2 DEF Row, DistinctRow

\* A tile is put behind the k-th.
LEMMA RowInsert ==
  ASSUME NEW row \in Seq(TileRecs), DistinctRow(row), NEW k \in 0..Len(row),
         NEW t \in TileRecs, t.id \notin RowIds(row)
  PROVE  /\ Row(InsertAt(row, k + 1, t))
         /\ RowTiles(InsertAt(row, k + 1, t)) = RowTiles(row) \cup {t}
<1>1. PICK n, r : n = Len(row) /\ r = InsertAt(row, k + 1, t)
  OBVIOUS
<1>2. n \in Nat /\ k \in Nat /\ k <= n /\ DOMAIN row = 1..n
  BY <1>1
<1>3. r \in Seq(TileRecs) /\ Len(r) = n + 1 /\ \A i \in 1..(n + 1) : r[i] = Inserted(row, k, t, i)
  BY <1>1, InsertedAt
<1>4. DOMAIN r = 1..(n + 1)
  BY <1>3
<1>5. /\ \A i \in 1..k : i \in DOMAIN r /\ i \in DOMAIN row /\ r[i] = row[i]
      /\ k + 1 \in DOMAIN r /\ r[k + 1] = t
      /\ \A i \in (k + 1)..n : i \in DOMAIN row /\ i + 1 \in DOMAIN r /\ r[i + 1] = row[i]
  BY <1>2, <1>3, <1>4 DEF Inserted
<1>6. \A i \in DOMAIN r : i \in 1..k \/ i = k + 1 \/ \E j \in (k + 1)..n : i = j + 1
  <2> SUFFICES ASSUME NEW i \in DOMAIN r, i \notin 1..k, i # k + 1 PROVE \E j \in (k + 1)..n : i = j + 1
    OBVIOUS
  <2>1. i - 1 \in (k + 1)..n /\ i = (i - 1) + 1
    BY <1>2, <1>4
  <2>. QED BY <2>1
<1>7. \A i \in DOMAIN row : i \in 1..k \/ i \in (k + 1)..n
  BY <1>2
<1>8. RowTiles(r) = RowTiles(row) \cup {t}
  <2>1. ASSUME NEW i \in DOMAIN r PROVE r[i] \in RowTiles(row) \cup {t}
    BY <1>5, <1>6 DEF RowTiles
  <2>2. ASSUME NEW i \in DOMAIN row PROVE row[i] \in RowTiles(r)
    BY <1>5, <1>7 DEF RowTiles
  <2>3. t \in RowTiles(r)
    BY <1>5 DEF RowTiles
  <2>. QED BY <2>1, <2>2, <2>3 DEF RowTiles
<1>9. DistinctRow(r)
  <2> DEFINE at(i) == IF i <= k THEN i ELSE i - 1
  <2>1. \A i \in DOMAIN row : row[i].id # t.id
    BY DEF RowIds
  <2>2. ASSUME NEW i \in DOMAIN r, i # k + 1 PROVE at(i) \in DOMAIN row /\ r[i] = row[at(i)]
    BY <1>2, <1>3, <1>4, <2>2 DEF Inserted
  <2>3. ASSUME NEW i \in DOMAIN r, NEW j \in DOMAIN r, i # k + 1, j # k + 1, at(i) = at(j) PROVE i = j
    BY <1>2, <1>4, <2>3
  <2>. HIDE DEF at
  <2>4. ASSUME NEW i \in DOMAIN r, NEW j \in DOMAIN r, r[i].id = r[j].id PROVE i = j
    <3>1. CASE i = k + 1
      <4>1. j = k + 1
        BY <1>5, <2>1, <2>2, <2>4, <3>1
      <4>. QED BY <3>1, <4>1
    <3>2. CASE i # k + 1
      <4>1. j # k + 1
        BY <1>5, <2>1, <2>2, <2>4, <3>2
      <4>2. row[at(i)].id = row[at(j)].id /\ at(i) \in DOMAIN row /\ at(j) \in DOMAIN row
        BY <2>2, <2>4, <3>2, <4>1
      <4>3. at(i) = at(j)
        BY <4>2 DEF DistinctRow
      <4>. QED BY <2>3, <3>2, <4>1, <4>3
    <3>. QED BY <3>1, <3>2
  <2>. QED BY <2>4 DEF DistinctRow
<1>10. r # <<>>
  BY <1>2, <1>3
<1>. QED BY <1>1, <1>3, <1>8, <1>9, <1>10 DEF Row

\* The k-th tile is taken out.
LEMMA RowRemove ==
  ASSUME NEW row, Row(row), NEW k \in DOMAIN row
  PROVE  /\ RemoveAt(row, k) \in Seq(TileRecs) /\ DistinctRow(RemoveAt(row, k))
         /\ RowTiles(RemoveAt(row, k)) = RowTiles(row) \ {row[k]}
         /\ Len(RemoveAt(row, k)) = Len(row) - 1
<1>1. PICK n, r : n = Len(row) /\ r = RemoveAt(row, k)
  OBVIOUS
<1>2. n \in Nat /\ DOMAIN row = 1..n /\ k \in 1..n /\ row \in Seq(TileRecs) /\ DistinctRow(row)
  BY <1>1 DEF Row
<1>3. r \in Seq(TileRecs) /\ Len(r) = n - 1 /\ \A i \in 1..(n - 1) : r[i] = Cut(row, k, i)
  BY <1>1, <1>2, RemovedAt
<1>4. DOMAIN r = 1..(n - 1)
  BY <1>3
<1> DEFINE at(i) == IF i < k THEN i ELSE i + 1
<1>5. \A i \in DOMAIN r : at(i) \in DOMAIN row /\ at(i) # k /\ r[i] = row[at(i)]
  BY <1>2, <1>3, <1>4 DEF Cut
<1>6. \A i, j \in DOMAIN r : at(i) = at(j) => i = j
  BY <1>2, <1>4
<1>7. \A j \in DOMAIN row : j # k => \E i \in DOMAIN r : at(i) = j
  <2> SUFFICES ASSUME NEW j \in DOMAIN row, j # k PROVE \E i \in DOMAIN r : at(i) = j
    OBVIOUS
  <2>1. CASE j < k
    <3>1. j \in DOMAIN r /\ at(j) = j
      BY <1>2, <1>4, <2>1
    <3>. QED BY <3>1
  <2>2. CASE j > k
    <3>1. j - 1 \in DOMAIN r /\ at(j - 1) = j
      BY <1>2, <1>4, <2>2
    <3>. QED BY <3>1
  <2>. QED BY <1>2, <2>1, <2>2
<1> HIDE DEF at
<1>8. \A i, j \in DOMAIN row : row[i] = row[j] => i = j
  BY <1>2 DEF DistinctRow
<1>9. RowTiles(r) = RowTiles(row) \ {row[k]}
  <2>1. ASSUME NEW i \in DOMAIN r PROVE r[i] \in RowTiles(row) /\ r[i] # row[k]
    BY <1>5, <1>8 DEF RowTiles
  <2>2. ASSUME NEW j \in DOMAIN row, row[j] # row[k] PROVE row[j] \in RowTiles(r)
    <3>1. j # k
      BY <2>2
    <3>2. PICK i \in DOMAIN r : at(i) = j
      BY <1>7, <3>1
    <3>. QED BY <1>5, <3>2 DEF RowTiles
  <2>. QED BY <2>1, <2>2 DEF RowTiles
<1>10. DistinctRow(r)
  BY <1>2, <1>5, <1>6 DEF DistinctRow
<1>. QED BY <1>1, <1>3, <1>9, <1>10

\* What a tile shows changes.
WithApp(row, k, app) == [row EXCEPT ![k].app = app]
LEMMA RowSet ==
  ASSUME NEW row, Row(row), NEW k \in DOMAIN row, NEW app \in AppNames
  PROVE  /\ Row(WithApp(row, k, app)) /\ DOMAIN WithApp(row, k, app) = DOMAIN row
         /\ RowTiles(WithApp(row, k, app)) = (RowTiles(row) \ {row[k]}) \cup {Tile(row[k].id, app)}
         /\ \A i \in DOMAIN row : WithApp(row, k, app)[i].id = row[i].id
         /\ WithApp(row, k, app)[k] = Tile(row[k].id, app)
         /\ \A i \in DOMAIN row : i # k => WithApp(row, k, app)[i] = row[i]
<1>1. PICK r : r = WithApp(row, k, app)
  OBVIOUS
<1>2. /\ row \in Seq(TileRecs) /\ DistinctRow(row) /\ row # <<>>
      /\ DOMAIN row = 1..Len(row) /\ \A i \in DOMAIN row : row[i] \in TileRecs
  BY DEF Row
<1>3. r[k] = Tile(row[k].id, app) /\ DOMAIN r = DOMAIN row /\ \A i \in DOMAIN row : i # k => r[i] = row[i]
  <2>1. row[k] = [id |-> row[k].id, app |-> row[k].app]
    BY <1>2 DEF TileRecs
  <2>. QED BY <1>1, <2>1 DEF Tile, WithApp
<1>4. \A i \in DOMAIN row : r[i].id = row[i].id
  BY <1>3 DEF Tile
<1>5. Tile(row[k].id, app) \in TileRecs
  BY <1>2 DEF TileRecs, Tile
<1>6. r \in Seq(TileRecs)
  <2>1. \A i \in DOMAIN row : r[i] \in TileRecs
    BY <1>2, <1>3, <1>5
  <2>2. r = [i \in 1..Len(row) |-> r[i]]
    BY <1>1, <1>2 DEF WithApp
  <2>. QED BY <1>2, <2>1, <2>2, IsASeq
<1>7. r # <<>>
  BY <1>2, <1>3
<1>8. DistinctRow(r)
  BY <1>2, <1>3, <1>4 DEF DistinctRow
<1>9. \A i \in DOMAIN row : row[i] = row[k] => i = k
  BY <1>2 DEF DistinctRow
<1>10. RowTiles(r) = (RowTiles(row) \ {row[k]}) \cup {Tile(row[k].id, app)}
  BY <1>3, <1>9 DEF RowTiles
<1>. QED BY <1>1, <1>3, <1>4, <1>6, <1>7, <1>8, <1>10 DEF Row

-----------------------------------------------------------------------------
(* Workspaces.                                                             *)

LEMMA RowsFacts ==
  ASSUME NEW S, RowsOK(S)
  PROVE  /\ DOMAIN S = 1..Len(S) /\ Len(S) \in Nat /\ S = [i \in 1..Len(S) |-> S[i]]
         /\ \A i \in DOMAIN S : S[i] \in Spaces /\ Row(S[i].row) /\ S[i].id \in WsIds
                                /\ S[i] = [id |-> S[i].id, row |-> S[i].row]
         /\ Tiles(S) \subseteq TileRecs
<1>1. S \in Seq(Spaces)
  BY DEF RowsOK
<1>2. DOMAIN S = 1..Len(S) /\ Len(S) \in Nat /\ S = [i \in 1..Len(S) |-> S[i]]
  BY <1>1
<1>3. \A i \in DOMAIN S : S[i] \in Spaces
  BY <1>1
<1>4. ASSUME NEW i \in DOMAIN S
      PROVE  Row(S[i].row) /\ S[i].id \in WsIds /\ S[i] = [id |-> S[i].id, row |-> S[i].row]
  <2>1. S[i].row \in Seq(TileRecs) /\ S[i].id \in WsIds /\ S[i] = [id |-> S[i].id, row |-> S[i].row]
    BY <1>3 DEF Spaces
  <2>. QED BY <2>1 DEF RowsOK, Row
<1>5. Tiles(S) \subseteq TileRecs
  <2>1. \A i \in DOMAIN S : RowTiles(S[i].row) \subseteq TileRecs
    BY <1>4, RowFacts DEF Row
  <2>. QED BY <2>1 DEF Tiles
<1>. QED BY <1>2, <1>3, <1>4, <1>5

\* The leaves of the tree are those of its tiles, each with one.
LEMMA LeavesAre ==
  ASSUME NEW s, RowsOK(s.spaces)
  PROVE  /\ Leaves(s) = {t.id : t \in Tiles(s.spaces)} /\ Leaves(s) \subseteq LeafIds
         /\ IsFiniteSet(Leaves(s)) /\ Cardinality(Leaves(s)) \in Nat
<1>1. PICK S : S = s.spaces
  OBVIOUS
<1>2. \A i \in DOMAIN S : RowIds(S[i].row) = {t.id : t \in RowTiles(S[i].row)}
  BY <1>1, RowsFacts, RowFacts DEF Row
<1>3. Leaves(s) = {t.id : t \in Tiles(S)}
  BY <1>1, <1>2 DEF Leaves, Tiles
<1>4. Leaves(s) \subseteq LeafIds
  <2>1. \A t \in TileRecs : t.id \in LeafIds
    BY DEF TileRecs
  <2>. QED BY <1>1, <1>3, <2>1, RowsFacts
<1>5. IsFiniteSet(LeafIds)
  <2>1. 2 * MaxLeaves + Cardinality(Clients) + 3 \in Int
    BY Names
  <2>. QED BY <2>1, FS_Interval DEF LeafIds
<1>6. IsFiniteSet(Leaves(s))
  BY <1>4, <1>5, FS_Subset
<1>. QED BY <1>1, <1>3, <1>4, <1>6, FS_CardinalityType

LEMMA TileUnique ==
  ASSUME NEW S, RowsOK(S), NEW t \in Tiles(S), NEW u \in Tiles(S), t.id = u.id
  PROVE  t = u
<1>1. PICK i \in DOMAIN S : t \in RowTiles(S[i].row)
  BY DEF Tiles
<1>2. PICK j \in DOMAIN S : u \in RowTiles(S[j].row)
  BY DEF Tiles
<1>3. t.id \in RowIds(S[i].row) /\ u.id \in RowIds(S[j].row)
  BY <1>1, <1>2 DEF RowTiles, RowIds
<1>4. i = j
  BY <1>3 DEF RowsOK
<1>. QED BY <1>1, <1>2, <1>4 DEF RowsOK, DistinctRow, RowTiles

\* Where a leaf is.
LEMMA WsOfIs ==
  ASSUME NEW s, RowsOK(s.spaces), NEW leaf \in Leaves(s)
  PROVE  /\ WsOf(s, leaf) \in DOMAIN s.spaces /\ leaf \in RowIds(s.spaces[WsOf(s, leaf)].row)
         /\ \A i \in DOMAIN s.spaces : leaf \in RowIds(s.spaces[i].row) => i = WsOf(s, leaf)
<1>1. \E i \in DOMAIN s.spaces : leaf \in RowIds(s.spaces[i].row)
  BY DEF Leaves
<1>2. WsOf(s, leaf) \in DOMAIN s.spaces /\ leaf \in RowIds(s.spaces[WsOf(s, leaf)].row)
  BY <1>1 DEF WsOf
<1>. QED BY <1>2 DEF RowsOK

LEMMA PlaceIs ==
  ASSUME NEW s, RowsOK(s.spaces), NEW leaf \in Leaves(s),
         NEW i, i = WsOf(s, leaf), NEW row, row = s.spaces[i].row, NEW k, k = Pos(row, leaf)
  PROVE  /\ i \in DOMAIN s.spaces /\ Row(row) /\ k \in DOMAIN row /\ row[k].id = leaf
         /\ row[k] \in Tiles(s.spaces) /\ row[k] \in TileRecs /\ row[k] = Tile(leaf, row[k].app)
<1>1. i \in DOMAIN s.spaces /\ leaf \in RowIds(row)
  BY WsOfIs
<1>2. Row(row)
  BY <1>1, RowsFacts
<1>3. k \in DOMAIN row /\ row[k].id = leaf
  BY <1>1, <1>2, PosIs
<1>4. row[k] \in Tiles(s.spaces)
  BY <1>1, <1>3 DEF Tiles, RowTiles
<1>5. row[k] \in TileRecs
  BY <1>4, RowsFacts
<1>. QED BY <1>1, <1>2, <1>3, <1>4, <1>5 DEF TileRecs, Tile

LEMMA AppOfIs ==
  ASSUME NEW s, RowsOK(s.spaces)
  PROVE  /\ \A leaf \in Leaves(s) : Tile(leaf, AppOf(s, leaf)) \in Tiles(s.spaces)
         /\ \A t \in Tiles(s.spaces) : AppOf(s, t.id) = t.app /\ t = Tile(t.id, t.app) /\ t.id \in Leaves(s)
<1>1. ASSUME NEW leaf \in Leaves(s) PROVE Tile(leaf, AppOf(s, leaf)) \in Tiles(s.spaces)
  <2>1. PICK row : row = s.spaces[WsOf(s, leaf)].row
    OBVIOUS
  <2>2. row[Pos(row, leaf)] \in Tiles(s.spaces) /\ row[Pos(row, leaf)] = Tile(leaf, row[Pos(row, leaf)].app)
    BY <2>1, PlaceIs
  <2>3. AppOf(s, leaf) = row[Pos(row, leaf)].app
    BY <2>1 DEF AppOf, RowOf
  <2>. QED BY <2>2, <2>3
<1>2. ASSUME NEW t \in Tiles(s.spaces)
      PROVE  AppOf(s, t.id) = t.app /\ t = Tile(t.id, t.app) /\ t.id \in Leaves(s)
  <2>1. t.id \in Leaves(s)
    BY LeavesAre
  <2>2. Tile(t.id, AppOf(s, t.id)) = t
    BY <1>1, <2>1, TileUnique DEF Tile
  <2>. QED BY <2>1, <2>2 DEF Tile
<1>. QED BY <1>1, <1>2

\* The current workspace.
LEMMA CurrentIs ==
  ASSUME NEW s, RowsOK(s.spaces), s.cur \in WsIdsOf(s)
  PROVE  /\ WsAt(s, s.cur) \in DOMAIN s.spaces /\ Row(CurrentRow(s))
         /\ RowTiles(CurrentRow(s)) \subseteq Tiles(s.spaces)
         /\ CurrentLeaves(s) \subseteq Leaves(s)
<1>1. WsAt(s, s.cur) \in DOMAIN s.spaces
  BY DEF WsIdsOf, WsAt
<1>2. Row(CurrentRow(s))
  BY <1>1, RowsFacts DEF CurrentRow
<1>. QED BY <1>1, <1>2 DEF CurrentRow, CurrentLeaves, Leaves, Tiles

\* A row is replaced.
PutRow(S, i, R) == [S EXCEPT ![i].row = R]
LEMMA PutRowIs ==
  ASSUME NEW S, RowsOK(S), NEW i \in DOMAIN S, NEW R, Row(R),
         \A j \in DOMAIN S : j # i => RowIds(R) \cap RowIds(S[j].row) = {}
  PROVE  /\ RowsOK(PutRow(S, i, R)) /\ Len(PutRow(S, i, R)) = Len(S)
         /\ Tiles(PutRow(S, i, R)) = (Tiles(S) \ RowTiles(S[i].row)) \cup RowTiles(R)
         /\ DOMAIN PutRow(S, i, R) = DOMAIN S /\ PutRow(S, i, R)[i].row = R
         /\ \A j \in DOMAIN S : PutRow(S, i, R)[j].id = S[j].id
         /\ \A j \in DOMAIN S : j # i => PutRow(S, i, R)[j] = S[j]
<1>1. PICK U : U = PutRow(S, i, R)
  OBVIOUS
<1>2. /\ DOMAIN S = 1..Len(S) /\ Len(S) \in Nat
      /\ \A j \in DOMAIN S : S[j] \in Spaces /\ Row(S[j].row) /\ S[j].id \in WsIds
                             /\ S[j] = [id |-> S[j].id, row |-> S[j].row]
  BY RowsFacts
<1>3. /\ DOMAIN U = DOMAIN S /\ U[i] = [id |-> S[i].id, row |-> R] /\ \A j \in DOMAIN S : j # i => U[j] = S[j]
      /\ U = [j \in 1..Len(S) |-> U[j]] /\ U[i].row = R
  <2>1. S[i] = [id |-> S[i].id, row |-> S[i].row]
    BY <1>2
  <2>. QED BY <1>1, <1>2, <2>1 DEF PutRow
<1>4. \A j \in DOMAIN S : U[j] \in Spaces /\ U[j].id = S[j].id /\ Row(U[j].row)
  <2>1. U[i] \in Spaces /\ U[i].id = S[i].id /\ U[i].row = R
    BY <1>2, <1>3 DEF Spaces, Row
  <2>. QED BY <1>2, <1>3, <2>1
<1>5. U \in Seq(Spaces) /\ Len(U) = Len(S)
  BY <1>2, <1>3, <1>4, IsASeq
<1>6. \A j \in DOMAIN U : U[j].row # <<>> /\ DistinctRow(U[j].row)
  BY <1>3, <1>4 DEF Row
<1>7. ASSUME NEW j \in DOMAIN U, NEW m \in DOMAIN U, j # m
      PROVE  RowIds(U[j].row) \cap RowIds(U[m].row) = {}
  <2>2. CASE j = i
    BY <1>3, <1>7, <2>2
  <2>3. CASE m = i
    BY <1>3, <1>7, <2>3
  <2>4. CASE j # i /\ m # i
    BY <1>3, <1>7, <2>4 DEF RowsOK
  <2>. QED BY <2>2, <2>3, <2>4
<1>8. ASSUME NEW j \in DOMAIN S, j # i PROVE RowTiles(S[j].row) \cap RowTiles(S[i].row) = {}
  <2>1. RowIds(S[j].row) \cap RowIds(S[i].row) = {}
    BY <1>8 DEF RowsOK
  <2>2. /\ \A t \in RowTiles(S[j].row) : t.id \in RowIds(S[j].row)
        /\ \A t \in RowTiles(S[i].row) : t.id \in RowIds(S[i].row)
    BY DEF RowTiles, RowIds
  <2>. QED BY <2>1, <2>2
<1>9. Tiles(U) = (Tiles(S) \ RowTiles(S[i].row)) \cup RowTiles(R)
  <2>1. RowTiles(U[i].row) = RowTiles(R) /\ \A j \in DOMAIN S : j # i => RowTiles(U[j].row) = RowTiles(S[j].row)
    BY <1>3
  <2>2. ASSUME NEW t \in Tiles(U) PROVE t \in (Tiles(S) \ RowTiles(S[i].row)) \cup RowTiles(R)
    <3>1. PICK j \in DOMAIN S : t \in RowTiles(U[j].row)
      BY <1>3 DEF Tiles
    <3>2. CASE j = i
      BY <2>1, <3>1, <3>2
    <3>3. CASE j # i
      <4>1. t \in RowTiles(S[j].row) /\ t \notin RowTiles(S[i].row)
        BY <1>8, <2>1, <3>1, <3>3
      <4>. QED BY <4>1 DEF Tiles
    <3>. QED BY <3>2, <3>3
  <2>3. ASSUME NEW t \in Tiles(S), t \notin RowTiles(S[i].row) PROVE t \in Tiles(U)
    <3>1. PICK j \in DOMAIN S : t \in RowTiles(S[j].row)
      BY DEF Tiles
    <3>2. j # i
      BY <2>3, <3>1
    <3>. QED BY <1>3, <2>1, <3>1, <3>2 DEF Tiles
  <2>4. RowTiles(R) \subseteq Tiles(U)
    BY <1>3, <2>1 DEF Tiles
  <2>. QED BY <2>2, <2>3, <2>4
<1>10. RowsOK(U)
  BY <1>5, <1>6, <1>7 DEF RowsOK
<1>. QED BY <1>1, <1>3, <1>4, <1>5, <1>9, <1>10

\* A workspace is added.
LEMMA AddRowIs ==
  ASSUME NEW S, RowsOK(S), NEW R, Row(R), NEW w \in WsIds,
         \A j \in DOMAIN S : RowIds(R) \cap RowIds(S[j].row) = {}
  PROVE  LET U == Append(S, [id |-> w, row |-> R])
         IN /\ RowsOK(U) /\ Len(U) = Len(S) + 1 /\ Tiles(U) = Tiles(S) \cup RowTiles(R)
            /\ w \in {U[i].id : i \in DOMAIN U}
<1>1. PICK e, U, n : e = [id |-> w, row |-> R] /\ U = Append(S, e) /\ n = Len(S) + 1
  OBVIOUS
<1>2. /\ DOMAIN S = 1..Len(S) /\ Len(S) \in Nat /\ S \in Seq(Spaces)
      /\ \A j \in DOMAIN S : S[j] \in Spaces /\ Row(S[j].row)
  BY RowsFacts DEF RowsOK
<1>3. e \in Spaces /\ e.row = R /\ e.id = w
  BY <1>1 DEF Spaces, Row
<1>4. /\ U \in Seq(Spaces) /\ Len(U) = n /\ DOMAIN U = 1..n /\ n \in DOMAIN U /\ n \notin DOMAIN S
      /\ U[n] = e /\ \A j \in DOMAIN S : j \in DOMAIN U /\ U[j] = S[j]
      /\ \A j \in DOMAIN U : j = n \/ j \in DOMAIN S
  <2>1. U \in Seq(Spaces) /\ Len(U) = n /\ U[n] = e /\ \A j \in 1..Len(S) : U[j] = S[j]
    BY <1>1, <1>2, <1>3, AppendProperties
  <2>2. DOMAIN U = 1..n
    BY <2>1
  <2>. QED BY <1>1, <1>2, <2>1, <2>2
<1>5. \A j \in DOMAIN U : U[j].row # <<>> /\ DistinctRow(U[j].row)
  BY <1>2, <1>3, <1>4 DEF Row
<1>6. ASSUME NEW j \in DOMAIN U, NEW m \in DOMAIN U, j # m
      PROVE  RowIds(U[j].row) \cap RowIds(U[m].row) = {}
  <2>1. CASE j = n
    BY <1>3, <1>4, <1>6, <2>1
  <2>2. CASE m = n
    BY <1>3, <1>4, <1>6, <2>2
  <2>3. CASE j # n /\ m # n
    BY <1>4, <1>6, <2>3 DEF RowsOK
  <2>. QED BY <2>1, <2>2, <2>3
<1>7. Tiles(U) = Tiles(S) \cup RowTiles(R)
  <2>1. RowTiles(U[n].row) = RowTiles(R) /\ \A j \in DOMAIN S : RowTiles(U[j].row) = RowTiles(S[j].row)
    BY <1>3, <1>4
  <2>. QED BY <1>4, <2>1 DEF Tiles
<1>8. RowsOK(U)
  BY <1>4, <1>5, <1>6 DEF RowsOK
<1>9. w \in {U[i].id : i \in DOMAIN U}
  BY <1>3, <1>4
<1>. QED BY <1>1, <1>4, <1>7, <1>8, <1>9

\* A workspace is removed.
LEMMA RemoveSpaceIs ==
  ASSUME NEW S, RowsOK(S), NEW d \in DOMAIN S, Len(S) > 1
  PROVE  LET U == RemoveAt(S, d)
         IN /\ RowsOK(U) /\ Len(U) = Len(S) - 1 /\ Tiles(U) \subseteq Tiles(S) /\ 1 \in DOMAIN U
            /\ \A j \in DOMAIN S : j # d => S[j].id \in {U[i].id : i \in DOMAIN U}
<1>1. PICK U, n : U = RemoveAt(S, d) /\ n = Len(S)
  OBVIOUS
<1>2. DOMAIN S = 1..n /\ n \in Nat /\ S \in Seq(Spaces) /\ d \in 1..n /\ n > 1
  BY <1>1, RowsFacts DEF RowsOK
<1>3. U \in Seq(Spaces) /\ Len(U) = n - 1 /\ \A i \in 1..(n - 1) : U[i] = Cut(S, d, i)
  BY <1>1, <1>2, RemovedAt
<1>4. DOMAIN U = 1..(n - 1)
  BY <1>2, <1>3
<1> DEFINE at(i) == IF i < d THEN i ELSE i + 1
<1>5. \A i \in DOMAIN U : at(i) \in DOMAIN S /\ U[i] = S[at(i)]
  BY <1>2, <1>3, <1>4 DEF Cut
<1>6. \A i, j \in DOMAIN U : at(i) = at(j) => i = j
  BY <1>2, <1>4
<1>7. \A j \in DOMAIN S : j # d => \E i \in DOMAIN U : at(i) = j
  <2> SUFFICES ASSUME NEW j \in DOMAIN S, j # d PROVE \E i \in DOMAIN U : at(i) = j
    OBVIOUS
  <2>1. CASE j < d
    <3>1. j \in DOMAIN U /\ at(j) = j
      BY <1>2, <1>4, <2>1
    <3>. QED BY <3>1
  <2>2. CASE j > d
    <3>1. j - 1 \in DOMAIN U /\ at(j - 1) = j
      BY <1>2, <1>4, <2>2
    <3>. QED BY <3>1
  <2>. QED BY <1>2, <2>1, <2>2
<1> HIDE DEF at
<1>8. RowsOK(U)
  <2>1. \A i \in DOMAIN U : U[i].row # <<>> /\ DistinctRow(U[i].row)
    BY <1>5 DEF RowsOK
  <2>2. ASSUME NEW i \in DOMAIN U, NEW j \in DOMAIN U, i # j PROVE RowIds(U[i].row) \cap RowIds(U[j].row) = {}
    <3>1. at(i) # at(j) /\ at(i) \in DOMAIN S /\ at(j) \in DOMAIN S
      BY <1>5, <1>6, <2>2
    <3>2. RowIds(S[at(i)].row) \cap RowIds(S[at(j)].row) = {}
      BY <3>1 DEF RowsOK
    <3>. QED BY <1>5, <3>2
  <2>. QED BY <1>3, <2>1, <2>2 DEF RowsOK
<1>9. Tiles(U) \subseteq Tiles(S)
  BY <1>5 DEF Tiles
<1>10. \A j \in DOMAIN S : j # d => S[j].id \in {U[i].id : i \in DOMAIN U}
  BY <1>5, <1>7
<1>11. 1 \in DOMAIN U
  BY <1>2, <1>4
<1>. QED BY <1>1, <1>3, <1>8, <1>9, <1>10, <1>11

-----------------------------------------------------------------------------
(* Fresh names.                                                            *)

LEMMA LeastNat ==
  ASSUME NEW S \in SUBSET Nat, S # {}
  PROVE  /\ \E n \in S : \A m \in S : n <= m
         /\ Min(S) \in S /\ \A m \in S : Min(S) <= m
<1>1. PICK n \in S : \A m \in S : ~(<<m, n>> \in OpToRel(<, Nat))
  <2>1. IsWellFoundedOn(OpToRel(<, Nat), Nat)
    BY NatLessThanWellFounded
  <2>. HIDE DEF OpToRel
  <2>. QED BY <2>1, WFMin
<1>2. \A m \in S : ~(m < n)
  BY <1>1 DEF OpToRel
<1>3. \A m \in S : n <= m
  <2> SUFFICES ASSUME NEW m \in S PROVE n <= m
    OBVIOUS
  <2>1. m \in Nat /\ n \in Nat /\ ~(m < n)
    BY <1>2
  <2>. QED BY <2>1
<1>. QED BY <1>3 DEF Min

Below(S, n) == {m \in S : m < n}
IsKth(S, n, k) == n \in S /\ Cardinality(Below(S, n)) = k - 1

LEMMA Order ==
  ASSUME NEW S \in SUBSET Nat
  PROVE  /\ \A m, n \in S : ~(m < n) <=> n <= m
         /\ \A m, n \in S : m < n \/ m = n \/ n < m
         /\ \A m \in S : ~(m < m)
         /\ \A l, m, n \in S : l < m /\ m <= n => l < n
         /\ \A l, m, n \in S : l <= m /\ m < n => l < n
<1>1. \A n \in S : n \in Nat
  OBVIOUS
<1>. QED BY <1>1

LEMMA BelowIs ==
  ASSUME NEW S, NEW n
  PROVE  \A m : m \in Below(S, n) <=> m \in S /\ m < n
BY DEF Below

\* A finite set of numbers with k members has a k-th.
LEMMA KthExists ==
  ASSUME NEW S \in SUBSET Nat, IsFiniteSet(S), NEW k \in Nat \ {0}, k <= Cardinality(S)
  PROVE  \E n \in S : IsKth(S, n, k)
<1> DEFINE Bad == {j \in Nat \ {0} : j <= Cardinality(S) /\ ~\E n \in S : IsKth(S, n, j)}
<1>1. SUFFICES ASSUME Bad # {} PROVE FALSE
  <2>1. k \notin Bad => \E n \in S : IsKth(S, n, k)
    OBVIOUS
  <2>. QED BY <1>1, <2>1
<1>2. PICK j \in Bad : \A i \in Bad : j <= i
  <2>1. Bad \in SUBSET Nat
    OBVIOUS
  <2>. HIDE DEF Bad
  <2>. QED BY <1>1, <2>1, LeastNat
<1>3. j \in Nat \ {0} /\ j <= Cardinality(S) /\ ~\E n \in S : IsKth(S, n, j)
  OBVIOUS
<1>4. \A i \in Nat \ {0} : i < j => \E n \in S : IsKth(S, n, i)
  <2> SUFFICES ASSUME NEW i \in Nat \ {0}, i < j PROVE \E n \in S : IsKth(S, n, i)
    OBVIOUS
  <2>1. Cardinality(S) \in Nat /\ i <= Cardinality(S)
    BY <1>3, FS_CardinalityType
  <2>2. i \notin Bad
    BY <1>2
  <2>. QED BY <2>1, <2>2
<1> HIDE DEF Bad
<1>5. CASE j = 1
  <2>1. S # {}
    BY <1>3, <1>5, FS_EmptySet
  <2>2. PICK n \in S : \A m \in S : n <= m
    BY <2>1, LeastNat
  <2>3. Below(S, n) = {}
    <3>1. ASSUME NEW m \in Below(S, n) PROVE FALSE
      <4>1. m \in S /\ m < n
        BY BelowIs
      <4>2. m \in Nat /\ n \in Nat /\ n <= m
        BY <2>2, <4>1
      <4>. QED BY <4>1, <4>2
    <3>. QED BY <3>1
  <2>4. IsKth(S, n, 1)
    BY <2>3, FS_EmptySet DEF IsKth
  <2>. QED BY <1>3, <1>5, <2>4
<1>6. CASE j > 1
  <2>1. j - 1 \in Nat \ {0} /\ j - 1 < j
    BY <1>3, <1>6
  <2>2. PICK n \in S : IsKth(S, n, j - 1)
    BY <1>4, <2>1
  <2>3. Below(S, n) \in SUBSET S /\ n \notin Below(S, n) /\ IsFiniteSet(Below(S, n))
    <3>1. Below(S, n) \in SUBSET S
      BY DEF Below
    <3>2. n \notin Below(S, n)
      BY DEF Below
    <3>. QED BY <3>1, <3>2, FS_Subset
  <2>4. Cardinality(Below(S, n)) = j - 2
    BY <1>3, <2>2 DEF IsKth
  <2>5. Cardinality(Below(S, n) \cup {n}) = j - 1
    <3>1. Cardinality(Below(S, n) \cup {n}) = Cardinality(Below(S, n)) + 1
      BY <2>3, FS_AddElement
    <3>. QED BY <1>3, <2>4, <3>1
  <2>6. PICK R : R = {m \in S : n < m}
    OBVIOUS
  <2>7. R # {}
    <3>1. SUFFICES ASSUME R = {} PROVE FALSE
      OBVIOUS
    <3>2. S = Below(S, n) \cup {n}
      <4>1. \A m \in S : ~(n < m)
        BY <2>6, <3>1
      <4>2. \A m \in S : m < n \/ m = n
        BY <4>1, Order
      <4>3. \A m : m \in S <=> m \in Below(S, n) \/ m = n
        BY ONLY <4>2, n \in S, BelowIs
      <4>. QED BY ONLY <4>3
    <3>. QED BY <1>3, <2>5, <3>2
  <2>8. PICK m \in R : \A y \in R : m <= y
    BY <2>6, <2>7, LeastNat
  <2>9. Below(S, m) = Below(S, n) \cup {n}
    <3>1. n < m /\ m \in S
      BY <2>6, <2>8
    <3>2. \A y \in S : n < y => m <= y
      BY <2>6, <2>8
    <3>3. ASSUME NEW y \in S PROVE y < m <=> (y < n \/ y = n)
      BY <3>1, <3>2, Order
    <3>4. \A y : y \in Below(S, m) <=> y \in Below(S, n) \/ y = n
      BY <3>3, BelowIs
    <3>. QED BY <3>4
  <2>10. IsKth(S, m, j)
    BY <2>5, <2>6, <2>8, <2>9 DEF IsKth
  <2>. QED BY <1>3, <2>6, <2>8, <2>10
<1>. QED BY <1>3, <1>5, <1>6

LEMMA KthMinIs ==
  ASSUME NEW S \in SUBSET Nat, IsFiniteSet(S), NEW k \in Nat \ {0}, k <= Cardinality(S)
  PROVE  KthMin(S, k) \in S /\ Cardinality(Below(S, KthMin(S, k))) = k - 1
<1>1. \E n \in S : Cardinality({m \in S : m < n}) = k - 1
  BY KthExists DEF IsKth, Below
<1>2. KthMin(S, k) \in S /\ Cardinality({m \in S : m < KthMin(S, k)}) = k - 1
  BY <1>1 DEF KthMin
<1>. QED BY <1>2 DEF Below

-----------------------------------------------------------------------------
(* Counting.                                                               *)

LEMMA UnionCount ==
  ASSUME NEW A, IsFiniteSet(A), NEW B, IsFiniteSet(B)
  PROVE  /\ IsFiniteSet(A \cup B)
         /\ Cardinality(A \cup B) <= Cardinality(A) + Cardinality(B)
         /\ A \cap B = {} => Cardinality(A \cup B) = Cardinality(A) + Cardinality(B)
<1>1. /\ IsFiniteSet(A \cup B) /\ IsFiniteSet(A \cap B)
      /\ Cardinality(A \cup B) = Cardinality(A) + Cardinality(B) - Cardinality(A \cap B)
  BY FS_Union, FS_Intersection
<1>2. /\ Cardinality(A) \in Nat /\ Cardinality(B) \in Nat /\ Cardinality(A \cap B) \in Nat
      /\ Cardinality(A \cup B) \in Nat
  BY <1>1, FS_CardinalityType
<1>3. A \cap B = {} => Cardinality(A \cap B) = 0
  BY FS_EmptySet
<1>. QED BY <1>1, <1>2, <1>3

\* A function's values are no more than its arguments.
LEMMA ImageCount ==
  ASSUME NEW S, IsFiniteSet(S), NEW f, DOMAIN f = S
  PROVE  /\ IsFiniteSet({f[d] : d \in S})
         /\ Cardinality({f[d] : d \in S}) <= Cardinality(S)
<1>1. PICK T, g : T = {f[d] : d \in S} /\ g = [d \in S |-> f[d]]
  OBVIOUS
<1>2. g \in [S -> T] /\ \A t \in T : \E d \in S : g[d] = t
  BY <1>1
<1>3. g \in Surjection(S, T)
  BY <1>2 DEF Surjection
<1>4. IsFiniteSet(T) /\ Cardinality(T) <= Cardinality(S)
  BY <1>3, FS_Surjection
<1>. QED BY <1>1, <1>4

\* Different arguments with different values are no more than the values.
LEMMA InjectionCount ==
  ASSUME NEW S, NEW T, IsFiniteSet(T), NEW f, \A d \in S : f[d] \in T,
         \A d, e \in S : f[d] = f[e] => d = e
  PROVE  IsFiniteSet(S) /\ Cardinality(S) <= Cardinality(T)
<1>1. PICK g : g = [d \in S |-> f[d]]
  OBVIOUS
<1>2. g \in [S -> T] /\ \A d, e \in S : g[d] = g[e] => d = e
  BY <1>1
<1>3. g \in Injection(S, T)
  BY <1>2 DEF Injection, IsInjective
<1>. QED BY <1>3, FS_Injection

LEMMA SubsetCount ==
  ASSUME NEW S, IsFiniteSet(S), NEW T, T \subseteq S
  PROVE  IsFiniteSet(T) /\ Cardinality(T) <= Cardinality(S) /\ Cardinality(T) \in Nat /\ Cardinality(S) \in Nat
BY FS_Subset, FS_CardinalityType

\* What remains of a set is at least the difference.
LEMMA RestCount ==
  ASSUME NEW S, IsFiniteSet(S), NEW T, IsFiniteSet(T)
  PROVE  /\ IsFiniteSet(S \ T) /\ Cardinality(S \ T) \in Nat
         /\ Cardinality(S) - Cardinality(T) <= Cardinality(S \ T)
<1>1. IsFiniteSet(S \ T) /\ Cardinality(S \ T) = Cardinality(S) - Cardinality(S \cap T) /\ IsFiniteSet(S \cap T)
  BY FS_Difference, FS_Intersection
<1>2. Cardinality(S \cap T) <= Cardinality(T)
  BY SubsetCount
<1>3. /\ Cardinality(S) \in Nat /\ Cardinality(T) \in Nat /\ Cardinality(S \cap T) \in Nat
      /\ Cardinality(S \ T) \in Nat
  BY <1>1, FS_CardinalityType
<1>. QED BY <1>1, <1>2, <1>3

LEMMA TripleCount ==
  ASSUME NEW a, NEW b, NEW c
  PROVE  IsFiniteSet({a, b, c}) /\ Cardinality({a, b, c}) <= 3
<1>1. IsFiniteSet({a}) /\ Cardinality({a}) = 1
  BY FS_Singleton
<1>2. PICK D : D = {a} \cup {b}
  OBVIOUS
<1>3. IsFiniteSet(D) /\ Cardinality(D) \in Nat /\ Cardinality(D) <= 2
  <2>1. IsFiniteSet(D) /\ Cardinality(D) = IF b \in {a} THEN 1 ELSE 2
    BY <1>1, <1>2, FS_AddElement
  <2>. QED BY <2>1
<1>4. IsFiniteSet(D \cup {c}) /\ Cardinality(D \cup {c}) = IF c \in D THEN Cardinality(D) ELSE Cardinality(D) + 1
  BY <1>3, FS_AddElement
<1>5. Cardinality(D \cup {c}) <= 3
  BY <1>3, <1>4
<1>6. D \cup {c} = {a, b, c}
  BY <1>2
<1>. QED BY <1>4, <1>5, <1>6

-----------------------------------------------------------------------------
(* There are ids to mint: those in use are the leaves and a few more.      *)

Remembered(s) == DOMAIN s.frames \cup {s.leafOf[f] : f \in DOMAIN s.leafOf} \cup {s.target.leaf, s.preserved}
Roomy(s) ==
  /\ IsFiniteSet(Remembered(s))
  /\ Cardinality(Remembered(s)) <= MaxLeaves + Cardinality(Clients) + 3

LEMMA RoomyIs ==
  ASSUME NEW s, Sound(s), Held(s)
  PROVE  Roomy(s)
<1>1. PICK L, O, E : /\ L = Leaves(s) /\ O = DOMAIN s.frames \ L
                     /\ E = {s.leafOf[s.fs], s.target.leaf, s.preserved}
  OBVIOUS
<1>2. RowsOK(s.spaces) /\ Cardinality(L) <= MaxLeaves
  BY <1>1 DEF Sound, Tree
<1>3. IsFiniteSet(L) /\ Cardinality(L) \in Nat
  BY <1>1, <1>2, LeavesAre
<1>4. IsFiniteSet(O) /\ Cardinality(O) <= Cardinality(Clients)
  <2>1. \A l \in O : s.frames[l] \in Clients /\ s.leafOf[s.frames[l]] = l
    BY <1>1 DEF Sound, Orphaned, Frames
  <2>2. \A l, m \in O : s.frames[l] = s.frames[m] => l = m
    BY <2>1
  <2>. QED BY <2>1, <2>2, Names, InjectionCount
<1>5. IsFiniteSet(E) /\ Cardinality(E) <= 3
  BY <1>1, TripleCount
<1>6. IsFiniteSet(L \cup O) /\ Cardinality(L \cup O) <= Cardinality(L) + Cardinality(O)
  BY <1>3, <1>4, UnionCount
<1>7. IsFiniteSet((L \cup O) \cup E) /\ Cardinality((L \cup O) \cup E) <= Cardinality(L \cup O) + Cardinality(E)
  BY <1>5, <1>6, UnionCount
<1>8. Remembered(s) \subseteq (L \cup O) \cup E
  <2>1. \A f \in DOMAIN s.leafOf : s.leafOf[f] \in DOMAIN s.frames \/ f = s.fs
    BY DEF Held, Sound, Frames
  <2>. QED BY <1>1, <2>1 DEF Remembered
<1>9. IsFiniteSet(Remembered(s)) /\ Cardinality(Remembered(s)) <= Cardinality((L \cup O) \cup E)
  BY <1>7, <1>8, SubsetCount
<1>10. /\ Cardinality(L) \in Nat /\ Cardinality(O) \in Nat /\ Cardinality(E) \in Nat
       /\ Cardinality(L \cup O) \in Nat /\ Cardinality((L \cup O) \cup E) \in Nat
       /\ Cardinality(Remembered(s)) \in Nat /\ MaxLeaves \in Nat /\ Cardinality(Clients) \in Nat
  BY <1>3, <1>4, <1>5, <1>6, <1>7, <1>9, FS_CardinalityType, Names
<1>11. Cardinality((L \cup O) \cup E) <= MaxLeaves + Cardinality(Clients) + 3
  BY ONLY <1>2, <1>4, <1>5, <1>6, <1>7, <1>10
<1>. QED BY <1>9, <1>10, <1>11 DEF Roomy

LEMMA FreshIs ==
  ASSUME NEW s, Roomy(s), RowsOK(s.spaces), NEW k \in Nat \ {0}, Cardinality(Leaves(s)) + k <= MaxLeaves
  PROVE  LET F == LeafIds \ Mentioned(s)
         IN /\ F \in SUBSET Nat /\ IsFiniteSet(F) /\ k <= Cardinality(F) /\ Cardinality(F) \in Nat
            /\ FreshLeaf(s) \in F
<1>1. PICK L, R, F, M : L = Leaves(s) /\ R = Remembered(s) /\ M = L \cup R /\ F = LeafIds \ M
  OBVIOUS
<1>2. M = Mentioned(s)
  BY <1>1 DEF Remembered, Mentioned
<1>3. IsFiniteSet(L) /\ Cardinality(L) \in Nat /\ Cardinality(L) + k <= MaxLeaves
  BY <1>1, LeavesAre
<1>4. IsFiniteSet(R) /\ Cardinality(R) <= MaxLeaves + Cardinality(Clients) + 3 /\ Cardinality(R) \in Nat
  BY <1>1, FS_CardinalityType DEF Roomy
<1>5. IsFiniteSet(M) /\ Cardinality(M) <= Cardinality(L) + Cardinality(R) /\ Cardinality(M) \in Nat
  BY <1>1, <1>3, <1>4, UnionCount, FS_CardinalityType
<1>6. MaxLeaves \in Nat /\ Cardinality(Clients) \in Nat
  BY Names
<1>7. IsFiniteSet(LeafIds) /\ Cardinality(LeafIds) = 2 * MaxLeaves + Cardinality(Clients) + 3
  <2>1. 2 * MaxLeaves + Cardinality(Clients) + 3 \in Nat
    BY <1>6
  <2>2. PICK n \in Nat : n = 2 * MaxLeaves + Cardinality(Clients) + 3
    BY <2>1
  <2>3. IsFiniteSet(1..n) /\ Cardinality(1..n) = n
    BY FS_Interval
  <2>. QED BY <2>2, <2>3 DEF LeafIds
<1>8. /\ IsFiniteSet(F) /\ Cardinality(F) \in Nat
      /\ Cardinality(LeafIds) - Cardinality(M) <= Cardinality(F)
  BY <1>1, <1>5, <1>7, RestCount
<1>9. k <= Cardinality(F)
  BY <1>3, <1>4, <1>5, <1>6, <1>7, <1>8
<1>10. F \in SUBSET Nat /\ F # {}
  <2>1. F # {}
    BY <1>8, <1>9, FS_EmptySet
  <2>. QED BY <1>1, <2>1, Names
<1>11. FreshLeaf(s) \in F
  <2>1. Min(F) \in F
    BY <1>10, LeastNat
  <2>. QED BY <1>1, <1>2, <2>1 DEF FreshLeaf
<1>. QED BY <1>1, <1>2, <1>8, <1>9, <1>10, <1>11

\* The k smallest fresh ids are different.
LEMMA KthDistinct ==
  ASSUME NEW F \in SUBSET Nat, IsFiniteSet(F), NEW n \in Nat, n <= Cardinality(F), Cardinality(F) \in Nat
  PROVE  /\ \A i \in 1..n : KthMin(F, i) \in F
         /\ \A i, j \in 1..n : KthMin(F, i) = KthMin(F, j) => i = j
<1>1. ASSUME NEW i \in 1..n
      PROVE  KthMin(F, i) \in F /\ Cardinality(Below(F, KthMin(F, i))) = i - 1
  <2>1. i \in Nat \ {0} /\ i <= Cardinality(F)
    OBVIOUS
  <2>. QED BY <2>1, KthMinIs
<1>2. ASSUME NEW i \in 1..n, NEW j \in 1..n, KthMin(F, i) = KthMin(F, j)
      PROVE  i = j
  <2>1. i - 1 = j - 1
    BY <1>1, <1>2
  <2>. QED BY <2>1
<1>. QED BY <1>1, <1>2

LEMMA FreshWsIs ==
  ASSUME NEW s, Tree(s), Frames(s), Len(s.spaces) < MaxWs
  PROVE  FreshWs(s) \in WsIds
<1>1. PICK W, H, F : W = WsIdsOf(s) /\ H = {s.wsOf[c] : c \in DOMAIN s.wsOf} /\ F = WsIds \ (W \cup H)
  OBVIOUS
<1>2. PICK n \in Nat : n = Len(s.spaces) /\ DOMAIN s.spaces = 1..n
  BY RowsFacts DEF Tree
<1>3. IsFiniteSet(W) /\ Cardinality(W) <= n
  <2>1. PICK g : g = [i \in 1..n |-> s.spaces[i].id]
    OBVIOUS
  <2>2. IsFiniteSet(1..n) /\ Cardinality(1..n) = n
    BY FS_Interval
  <2>3. IsFiniteSet({g[i] : i \in 1..n}) /\ Cardinality({g[i] : i \in 1..n}) <= n
    BY <2>1, <2>2, ImageCount
  <2>4. W = {g[i] : i \in 1..n}
    BY <1>1, <1>2, <2>1 DEF WsIdsOf
  <2>. QED BY <2>3, <2>4
<1>4. IsFiniteSet(H) /\ Cardinality(H) <= Cardinality(Clients)
  <2>1. DOMAIN s.wsOf \subseteq Clients
    BY DEF Frames
  <2>2. /\ IsFiniteSet(DOMAIN s.wsOf) /\ Cardinality(DOMAIN s.wsOf) <= Cardinality(Clients)
        /\ Cardinality(DOMAIN s.wsOf) \in Nat /\ Cardinality(Clients) \in Nat
    BY <2>1, Names, SubsetCount
  <2>3. IsFiniteSet(H) /\ Cardinality(H) <= Cardinality(DOMAIN s.wsOf) /\ Cardinality(H) \in Nat
    BY <1>1, <2>2, ImageCount, FS_CardinalityType
  <2>. QED BY <2>2, <2>3
<1>5. IsFiniteSet(W \cup H) /\ Cardinality(W \cup H) <= Cardinality(W) + Cardinality(H)
  BY <1>3, <1>4, UnionCount
<1>6. MaxWs \in Nat /\ Cardinality(Clients) \in Nat
  BY Names
<1>7. IsFiniteSet(WsIds) /\ Cardinality(WsIds) = MaxWs + Cardinality(Clients)
  <2>1. PICK m \in Nat : m = MaxWs + Cardinality(Clients)
    BY <1>6
  <2>2. IsFiniteSet(1..m) /\ Cardinality(1..m) = m
    BY FS_Interval
  <2>. QED BY <2>1, <2>2 DEF WsIds
<1>8. IsFiniteSet(F) /\ Cardinality(F) \in Nat /\ Cardinality(WsIds) - Cardinality(W \cup H) <= Cardinality(F)
  BY <1>1, <1>5, <1>7, RestCount
<1>9. Cardinality(W) \in Nat /\ Cardinality(H) \in Nat /\ Cardinality(W \cup H) \in Nat
  BY <1>3, <1>4, <1>5, FS_CardinalityType
<1>10. Cardinality(F) > 0
  BY <1>2, <1>3, <1>4, <1>5, <1>6, <1>7, <1>8, <1>9
<1>11. F \in SUBSET Nat /\ F # {}
  <2>1. Cardinality({}) = 0
    BY FS_EmptySet
  <2>2. F # {}
    BY <1>10, <2>1
  <2>. QED BY <1>1, <2>2, Names
<1>12. Min(F) \in F
  BY <1>11, LeastNat
<1>. QED BY <1>1, <1>12 DEF FreshWs

-----------------------------------------------------------------------------
(* The operations on the tree.                                             *)

\* Only the tree changed.
OnlyTree(s, t) ==
  /\ Shell(t) /\ t.frames = s.frames /\ t.leafOf = s.leafOf /\ t.wsOf = s.wsOf
  /\ t.managed = s.managed /\ t.floats = s.floats /\ t.wins = s.wins /\ t.asked = s.asked
  /\ t.fs = s.fs /\ t.target = s.target /\ t.preserved = s.preserved /\ t.xf = s.xf

LEMMA OnlyTreeIs ==
  ASSUME NEW s, NEW t, OnlyTree(s, t)
  PROVE  /\ Frames(s) => Frames(t)
         /\ Remembered(t) = Remembered(s) /\ (Roomy(s) => Roomy(t))
         /\ Held(s) => Held(t)
<1>1. Framed(t) = Framed(s)
  BY DEF OnlyTree, Framed
<1>2. Frames(s) => Frames(t)
  BY <1>1 DEF OnlyTree, Frames
<1>3. Remembered(t) = Remembered(s)
  BY DEF OnlyTree, Remembered
<1>4. Held(s) => Held(t)
  BY <1>1 DEF OnlyTree, Held
<1>. QED BY <1>2, <1>3, <1>4 DEF Roomy

LEMMA LeavesBound ==
  ASSUME NEW s, RowsOK(s.spaces), NEW D, IsFiniteSet(D), NEW d \in Nat, Cardinality(D) <= d,
         Cardinality(Leaves(s)) + d <= MaxLeaves, NEW L, L \subseteq Leaves(s) \cup D
  PROVE  Cardinality(L) <= MaxLeaves
<1>1. PICK A : A = Leaves(s)
  OBVIOUS
<1>2. IsFiniteSet(A) /\ Cardinality(A) \in Nat
  BY <1>1, LeavesAre
<1>3. IsFiniteSet(A \cup D) /\ Cardinality(A \cup D) <= Cardinality(A) + Cardinality(D)
  BY <1>2, UnionCount
<1>4. Cardinality(L) <= Cardinality(A \cup D) /\ Cardinality(L) \in Nat
  BY <1>1, <1>3, SubsetCount
<1>5. Cardinality(D) \in Nat /\ Cardinality(A \cup D) \in Nat /\ MaxLeaves \in Nat
  BY <1>3, FS_CardinalityType, Names
<1>. QED BY <1>1, <1>2, <1>3, <1>4, <1>5

\* No leaf was added.
LEMMA LeavesFewer ==
  ASSUME NEW s, Tree(s), NEW L, L \subseteq Leaves(s)
  PROVE  Cardinality(L) <= MaxLeaves
<1>1. IsFiniteSet({}) /\ Cardinality({}) = 0
  BY FS_EmptySet
<1>2. RowsOK(s.spaces) /\ Cardinality(Leaves(s)) <= MaxLeaves
  BY DEF Tree
<1>3. Cardinality(Leaves(s)) + 0 <= MaxLeaves
  BY <1>2, LeavesAre
<1>. QED BY <1>1, <1>2, <1>3, LeavesBound

LEMMA LeavesOneMore ==
  ASSUME NEW s, Tree(s), Cardinality(Leaves(s)) + 1 <= MaxLeaves, NEW e, NEW L, L \subseteq Leaves(s) \cup {e}
  PROVE  Cardinality(L) <= MaxLeaves
<1>1. IsFiniteSet({e}) /\ Cardinality({e}) = 1
  BY FS_Singleton
<1>2. Cardinality({e}) <= 1
  BY <1>1
<1>. QED BY <1>1, <1>2, LeavesBound DEF Tree

\* One row is replaced.
LEMMA PutTree ==
  ASSUME NEW s, Tree(s), NEW i \in DOMAIN s.spaces, NEW R, Row(R),
         \A j \in DOMAIN s.spaces : j # i => RowIds(R) \cap RowIds(s.spaces[j].row) = {},
         NEW t, t.spaces = PutRow(s.spaces, i, R), t.cur = s.cur, Cardinality(Leaves(t)) <= MaxLeaves
  PROVE  /\ Tree(t) /\ Tiles(t.spaces) = (Tiles(s.spaces) \ RowTiles(s.spaces[i].row)) \cup RowTiles(R)
         /\ WsIdsOf(t) = WsIdsOf(s)
<1>1. RowsOK(s.spaces)
  BY DEF Tree
<1>2. /\ RowsOK(t.spaces) /\ Len(t.spaces) = Len(s.spaces) /\ DOMAIN t.spaces = DOMAIN s.spaces
      /\ Tiles(t.spaces) = (Tiles(s.spaces) \ RowTiles(s.spaces[i].row)) \cup RowTiles(R)
      /\ \A j \in DOMAIN s.spaces : t.spaces[j].id = s.spaces[j].id
  BY <1>1, PutRowIs
<1>3. WsIdsOf(t) = WsIdsOf(s)
  BY <1>2 DEF WsIdsOf
<1>. QED BY <1>2, <1>3 DEF Tree

LEMMA CoreSplit ==
  ASSUME NEW s, Shell(s), Tree(s), Roomy(s), NEW o, o.op = "split-leaf", o.app \in AppNames,
         CanApply(s, o), Fits(s, o), NEW t, t = Core(s, o)
  PROVE  /\ OnlyTree(s, t) /\ Tree(t) /\ t.cur = s.cur
         /\ Tiles(t.spaces) = Tiles(s.spaces) \cup {Tile(FreshLeaf(s), o.app)}
         /\ FreshLeaf(s) \in LeafIds /\ FreshLeaf(s) \notin Mentioned(s)
<1>1. o.node \in Leaves(s) /\ Cardinality(Leaves(s)) + 1 <= MaxLeaves
  BY DEF CanApply, Fits, NewLeaves
<1>2. RowsOK(s.spaces)
  BY DEF Tree
<1>3. PICK S, i, row, k, e : /\ S = s.spaces /\ i = WsOf(s, o.node) /\ row = S[i].row /\ k = Pos(row, o.node)
                             /\ e = Tile(FreshLeaf(s), o.app)
  OBVIOUS
<1>4. i \in DOMAIN S /\ Row(row) /\ k \in DOMAIN row
  BY <1>1, <1>2, <1>3, PlaceIs
<1>5. FreshLeaf(s) \in LeafIds /\ FreshLeaf(s) \notin Mentioned(s)
  <2>1. 1 \in Nat \ {0}
    OBVIOUS
  <2>. QED BY <1>1, <1>2, <2>1, FreshIs
<1>6. e \in TileRecs /\ e.id = FreshLeaf(s) /\ e.id \notin Leaves(s)
  BY <1>3, <1>5 DEF Tile, TileRecs, Mentioned
<1>7. e.id \notin RowIds(row)
  BY <1>3, <1>4, <1>6 DEF Leaves
<1>8. PICK R : R = InsertAt(row, k + 1, e)
  OBVIOUS
<1>9. Row(R) /\ RowTiles(R) = RowTiles(row) \cup {e}
  <2>1. k \in 0..Len(row) /\ row \in Seq(TileRecs) /\ DistinctRow(row)
    BY <1>4, RowFacts DEF Row
  <2>. QED BY <1>6, <1>7, <1>8, <2>1, RowInsert
<1>10. RowIds(R) = RowIds(row) \cup {e.id}
  BY <1>9, RowFacts, <1>4 DEF Row
<1>11. t = [s EXCEPT !.spaces = PutRow(S, i, R)]
  BY <1>3, <1>8 DEF Core, PutRow, Shell, Fields
<1>12. OnlyTree(s, t) /\ t.spaces = PutRow(S, i, R) /\ t.cur = s.cur
  BY <1>11 DEF OnlyTree, Shell, Fields
<1>13. \A j \in DOMAIN S : j # i => RowIds(R) \cap RowIds(S[j].row) = {}
  <2>1. ASSUME NEW j \in DOMAIN S, j # i PROVE RowIds(row) \cap RowIds(S[j].row) = {} /\ e.id \notin RowIds(S[j].row)
    BY <1>2, <1>3, <1>4, <1>6, <2>1 DEF RowsOK, Leaves
  <2>. QED BY <1>10, <2>1
<1>14. RowsOK(t.spaces) /\ Tiles(t.spaces) = (Tiles(S) \ RowTiles(row)) \cup RowTiles(R)
  BY <1>2, <1>3, <1>4, <1>9, <1>12, <1>13, PutRowIs
<1>15. Tiles(t.spaces) = Tiles(S) \cup {e}
  BY <1>3, <1>4, <1>9, <1>14 DEF Tiles
<1>16. Leaves(t) \subseteq Leaves(s) \cup {e.id}
  <2>1. Leaves(t) = {u.id : u \in Tiles(t.spaces)} /\ Leaves(s) = {u.id : u \in Tiles(S)}
    BY <1>2, <1>3, <1>14, LeavesAre
  <2>. QED BY <1>15, <2>1
<1>17. Cardinality(Leaves(t)) <= MaxLeaves
  BY <1>1, <1>16, LeavesOneMore
<1>18. Tree(t)
  BY <1>3, <1>4, <1>9, <1>12, <1>13, <1>17, PutTree
<1>. QED BY <1>3, <1>5, <1>12, <1>15, <1>18

\* A row is replaced by one without new leaves.
Rerow(s, i, R) == [s EXCEPT !.spaces = PutRow(s.spaces, i, R)]
LEMMA PutHere ==
  ASSUME NEW s, Shell(s), Tree(s), NEW i \in DOMAIN s.spaces, NEW row, row = s.spaces[i].row,
         NEW R, Row(R), RowIds(R) \subseteq RowIds(row), NEW t, t = Rerow(s, i, R)
  PROVE  /\ OnlyTree(s, t) /\ Tree(t) /\ t.cur = s.cur /\ WsIdsOf(t) = WsIdsOf(s)
         /\ Tiles(t.spaces) = (Tiles(s.spaces) \ RowTiles(row)) \cup RowTiles(R)
<1>1. RowsOK(s.spaces)
  BY DEF Tree
<1>2. OnlyTree(s, t) /\ t.spaces = PutRow(s.spaces, i, R) /\ t.cur = s.cur
  BY DEF OnlyTree, Shell, Fields, Rerow
<1>3. \A j \in DOMAIN s.spaces : j # i => RowIds(R) \cap RowIds(s.spaces[j].row) = {}
  BY <1>1 DEF RowsOK
<1>4. /\ RowsOK(t.spaces) /\ DOMAIN t.spaces = DOMAIN s.spaces /\ t.spaces[i].row = R
      /\ \A j \in DOMAIN s.spaces : j # i => t.spaces[j] = s.spaces[j]
      /\ Len(t.spaces) = Len(s.spaces)
      /\ \A j \in DOMAIN s.spaces : t.spaces[j].id = s.spaces[j].id
      /\ Tiles(t.spaces) = (Tiles(s.spaces) \ RowTiles(s.spaces[i].row)) \cup RowTiles(R)
  BY <1>1, <1>2, <1>3, PutRowIs
<1>5. Leaves(t) \subseteq Leaves(s)
  BY <1>4 DEF Leaves
<1>6. Cardinality(Leaves(t)) <= MaxLeaves
  BY <1>5, LeavesFewer
<1>7. WsIdsOf(t) = WsIdsOf(s)
  BY <1>4 DEF WsIdsOf
<1>8. Tree(t)
  BY <1>2, <1>4, <1>6, <1>7 DEF Tree
<1>. QED BY <1>2, <1>4, <1>7, <1>8

\* The tiles of a row are found nowhere else, and one leaf is one tile.
LEMMA TilesApart ==
  ASSUME NEW S, RowsOK(S), NEW i \in DOMAIN S, NEW row, row = S[i].row
  PROVE  /\ RowTiles(row) \subseteq Tiles(S)
         /\ \A u \in Tiles(S), v \in Tiles(S) : u.id = v.id => u = v
BY TileUnique DEF Tiles

LEMMA CoreClose ==
  ASSUME NEW s, Shell(s), Tree(s), NEW o, o.op = "close-leaf", CanApply(s, o), NEW t, t = Core(s, o)
  PROVE  /\ OnlyTree(s, t) /\ Tree(t) /\ t.cur = s.cur
         /\ Tiles(t.spaces) = {u \in Tiles(s.spaces) : u.id # o.node}
<1>1. o.node \in Leaves(s) /\ Len(RowOf(s, o.node)) > 1
  BY DEF CanApply
<1>2. RowsOK(s.spaces)
  BY DEF Tree
<1>3. PICK S, i, row, k : S = s.spaces /\ i = WsOf(s, o.node) /\ row = S[i].row /\ k = Pos(row, o.node)
  OBVIOUS
<1>4. i \in DOMAIN S /\ Row(row) /\ k \in DOMAIN row /\ row[k].id = o.node
  BY <1>1, <1>2, <1>3, PlaceIs
<1>5. PICK R : R = RemoveAt(row, k)
  OBVIOUS
<1>6. R \in Seq(TileRecs) /\ DistinctRow(R) /\ RowTiles(R) = RowTiles(row) \ {row[k]} /\ Len(R) = Len(row) - 1
  BY <1>4, <1>5, RowRemove
<1>7. Row(R) /\ RowIds(R) \subseteq RowIds(row)
  <2>1. Len(row) > 1 /\ Len(row) \in Nat
    BY <1>1, <1>3, <1>4, RowFacts DEF RowOf, Row
  <2>2. R # <<>>
    BY <1>6, <2>1, RowFacts
  <2>3. RowIds(R) = {u.id : u \in RowTiles(R)} /\ RowIds(row) = {u.id : u \in RowTiles(row)}
    BY <1>4, <1>6, RowFacts DEF Row
  <2>. QED BY <1>6, <2>2, <2>3 DEF Row
<1>8. t = Rerow(s, i, R)
  BY <1>3, <1>5 DEF Core, Rerow, PutRow, WithApp, Shell, Fields
<1>9. /\ OnlyTree(s, t) /\ Tree(t) /\ t.cur = s.cur
      /\ Tiles(t.spaces) = (Tiles(S) \ RowTiles(row)) \cup RowTiles(R)
  <2>1. i \in DOMAIN s.spaces /\ row = s.spaces[i].row /\ t = Rerow(s, i, R)
    BY <1>3, <1>4, <1>8
  <2>2. /\ OnlyTree(s, t) /\ Tree(t) /\ t.cur = s.cur
        /\ Tiles(t.spaces) = (Tiles(s.spaces) \ RowTiles(row)) \cup RowTiles(R)
    BY <1>7, <2>1, PutHere
  <2>. QED BY <1>3, <2>2
<1>10. RowTiles(row) \subseteq Tiles(S) /\ row[k] \in RowTiles(row) /\ \A u \in Tiles(S) : u.id = o.node => u = row[k]
  <2>1. RowsOK(S) /\ i \in DOMAIN S /\ row = S[i].row
    BY <1>2, <1>3, <1>4
  <2>2. /\ RowTiles(row) \subseteq Tiles(S)
        /\ \A u \in Tiles(S), v \in Tiles(S) : u.id = v.id => u = v
    BY ONLY <2>1, TilesApart
  <2>3. row[k] \in RowTiles(row)
    BY ONLY <1>4 DEF RowTiles
  <2>. QED BY ONLY <1>4, <2>2, <2>3
<1>11. Tiles(t.spaces) = {u \in Tiles(S) : u.id # o.node}
  BY <1>4, <1>6, <1>9, <1>10
<1>. QED BY <1>3, <1>9, <1>11

LEMMA CoreSet ==
  ASSUME NEW s, Shell(s), Tree(s), NEW o, o.op = "set-leaf-app", o.app \in AppNames, CanApply(s, o),
         NEW t, t = Core(s, o)
  PROVE  /\ OnlyTree(s, t) /\ Tree(t) /\ t.cur = s.cur
         /\ Tiles(t.spaces) = {u \in Tiles(s.spaces) : u.id # o.node} \cup {Tile(o.node, o.app)}
<1>1. o.node \in Leaves(s)
  BY DEF CanApply
<1>2. RowsOK(s.spaces)
  BY DEF Tree
<1>3. PICK S, i, row, k : S = s.spaces /\ i = WsOf(s, o.node) /\ row = S[i].row /\ k = Pos(row, o.node)
  OBVIOUS
<1>4. i \in DOMAIN S /\ Row(row) /\ k \in DOMAIN row /\ row[k].id = o.node
  BY <1>1, <1>2, <1>3, PlaceIs
<1>5. PICK R : R = WithApp(row, k, o.app)
  OBVIOUS
<1>6. Row(R) /\ RowTiles(R) = (RowTiles(row) \ {row[k]}) \cup {Tile(o.node, o.app)}
  BY <1>4, <1>5, RowSet
<1>7. RowIds(R) \subseteq RowIds(row)
  <2>1. DOMAIN R = DOMAIN row /\ \A m \in DOMAIN row : R[m].id = row[m].id
    BY <1>4, <1>5, RowSet
  <2>. QED BY <2>1 DEF RowIds
<1>8. t = Rerow(s, i, R)
  BY <1>3, <1>5 DEF Core, Rerow, PutRow, WithApp, Shell, Fields
<1>9. /\ OnlyTree(s, t) /\ Tree(t) /\ t.cur = s.cur
      /\ Tiles(t.spaces) = (Tiles(S) \ RowTiles(row)) \cup RowTiles(R)
  <2>1. i \in DOMAIN s.spaces /\ row = s.spaces[i].row /\ t = Rerow(s, i, R)
    BY <1>3, <1>4, <1>8
  <2>2. /\ OnlyTree(s, t) /\ Tree(t) /\ t.cur = s.cur
        /\ Tiles(t.spaces) = (Tiles(s.spaces) \ RowTiles(row)) \cup RowTiles(R)
    BY <1>6, <1>7, <2>1, PutHere
  <2>. QED BY <1>3, <2>2
<1>10. RowTiles(row) \subseteq Tiles(S) /\ row[k] \in RowTiles(row) /\ \A u \in Tiles(S) : u.id = o.node => u = row[k]
  <2>1. RowsOK(S) /\ i \in DOMAIN S /\ row = S[i].row
    BY <1>2, <1>3, <1>4
  <2>2. /\ RowTiles(row) \subseteq Tiles(S)
        /\ \A u \in Tiles(S), v \in Tiles(S) : u.id = v.id => u = v
    BY ONLY <2>1, TilesApart
  <2>3. row[k] \in RowTiles(row)
    BY ONLY <1>4 DEF RowTiles
  <2>. QED BY ONLY <1>4, <2>2, <2>3
<1>11. Tiles(t.spaces) = {u \in Tiles(S) : u.id # o.node} \cup {Tile(o.node, o.app)}
  BY <1>4, <1>6, <1>9, <1>10
<1>. QED BY <1>3, <1>9, <1>11

LEMMA CoreSwap ==
  ASSUME NEW s, Shell(s), Tree(s), NEW o, o.op = "swap-leaves", CanApply(s, o), NEW t, t = Core(s, o)
  PROVE  /\ OnlyTree(s, t) /\ Tree(t) /\ t.cur = s.cur
         /\ \E u, v \in Tiles(s.spaces) :
              /\ u.id = o.node /\ v.id = o.target
              /\ Tiles(t.spaces) = {y \in Tiles(s.spaces) : y.id \notin {o.node, o.target}}
                                     \cup {Tile(o.node, v.app), Tile(o.target, u.app)}
<1>1. o.node \in Leaves(s) /\ o.target \in Leaves(s) /\ WsOf(s, o.target) = WsOf(s, o.node)
  BY DEF CanApply, SameWs
<1>2. RowsOK(s.spaces)
  BY DEF Tree
<1>3. PICK S, i, row, k, j : /\ S = s.spaces /\ i = WsOf(s, o.node) /\ row = S[i].row
                             /\ k = Pos(row, o.node) /\ j = Pos(row, o.target)
  OBVIOUS
<1>4. /\ i \in DOMAIN S /\ Row(row) /\ k \in DOMAIN row /\ row[k].id = o.node /\ row[k] \in TileRecs
      /\ row[k] \in Tiles(S)
  BY <1>1, <1>2, <1>3, PlaceIs
<1>5. j \in DOMAIN row /\ row[j].id = o.target /\ row[j] \in TileRecs /\ row[j] \in Tiles(S)
  BY <1>1, <1>2, <1>3, PlaceIs
<1>6. row[k].app \in AppNames /\ row[j].app \in AppNames
  BY <1>4, <1>5 DEF TileRecs
<1>7. PICK R1, R : R1 = WithApp(row, k, row[j].app) /\ R = WithApp(R1, j, row[k].app)
  OBVIOUS
<1>8. Row(R1) /\ RowTiles(R1) = (RowTiles(row) \ {row[k]}) \cup {Tile(o.node, row[j].app)}
  BY <1>4, <1>6, <1>7, RowSet
<1>9. /\ DOMAIN R1 = DOMAIN row /\ R1[j].id = o.target /\ \A m \in DOMAIN row : R1[m].id = row[m].id
      /\ R1[k] = Tile(o.node, row[j].app) /\ \A m \in DOMAIN row : m # k => R1[m] = row[m]
  <2>1. PICK app : app = row[j].app
    OBVIOUS
  <2>2. app \in AppNames /\ R1 = WithApp(row, k, app)
    BY <1>6, <1>7, <2>1
  <2>3. /\ DOMAIN R1 = DOMAIN row /\ \A m \in DOMAIN row : R1[m].id = row[m].id
        /\ R1[k] = Tile(row[k].id, app) /\ \A m \in DOMAIN row : m # k => R1[m] = row[m]
    BY <1>4, <2>2, RowSet
  <2>. QED BY <1>4, <1>5, <2>1, <2>3
<1>10. Row(R) /\ RowTiles(R) = (RowTiles(R1) \ {R1[j]}) \cup {Tile(o.target, row[k].app)}
  BY <1>5, <1>6, <1>7, <1>8, <1>9, RowSet
<1>11. RowIds(R) \subseteq RowIds(row)
  <2>1. DOMAIN R = DOMAIN R1 /\ \A m \in DOMAIN R1 : R[m].id = R1[m].id
    BY <1>5, <1>6, <1>7, <1>8, <1>9, RowSet
  <2>. QED BY <1>9, <2>1 DEF RowIds
<1>12. t = Rerow(s, i, R)
  <2>1. R = [row EXCEPT ![k].app = row[j].app, ![j].app = row[k].app]
    BY <1>7 DEF WithApp
  <2>. QED BY <1>3, <2>1 DEF Core, Rerow, PutRow, Shell, Fields
<1>13. /\ OnlyTree(s, t) /\ Tree(t) /\ t.cur = s.cur
       /\ Tiles(t.spaces) = (Tiles(S) \ RowTiles(row)) \cup RowTiles(R)
  <2>1. i \in DOMAIN s.spaces /\ row = s.spaces[i].row /\ t = Rerow(s, i, R)
    BY <1>3, <1>4, <1>12
  <2>2. /\ OnlyTree(s, t) /\ Tree(t) /\ t.cur = s.cur
        /\ Tiles(t.spaces) = (Tiles(s.spaces) \ RowTiles(row)) \cup RowTiles(R)
    BY <1>10, <1>11, <2>1, PutHere
  <2>. QED BY <1>3, <2>2
<1>14. /\ RowTiles(row) \subseteq Tiles(S)
       /\ \A u \in Tiles(S) : (u.id = o.node => u = row[k]) /\ (u.id = o.target => u = row[j])
  <2>1. RowsOK(S) /\ i \in DOMAIN S /\ row = S[i].row
    BY <1>2, <1>3, <1>4
  <2>2. /\ RowTiles(row) \subseteq Tiles(S)
        /\ \A u \in Tiles(S), v \in Tiles(S) : u.id = v.id => u = v
    BY ONLY <2>1, TilesApart
  <2>3. row[k] \in RowTiles(row) /\ row[j] \in RowTiles(row)
    BY ONLY <1>4, <1>5 DEF RowTiles
  <2>. QED BY ONLY <1>4, <1>5, <2>2, <2>3
<1>15. RowTiles(row) \ {row[k], row[j]} \subseteq RowTiles(R) /\ Tile(o.target, row[k].app) \in RowTiles(R)
  <2>1. R1[j] = IF j = k THEN Tile(o.node, row[j].app) ELSE row[j]
    BY <1>5, <1>9
  <2>2. R1[j] = row[j]
    BY <1>4, <1>5, <2>1 DEF Tile, TileRecs
  <2>. QED BY <1>8, <1>10, <2>2
<1>16. Tile(o.node, row[j].app) \in RowTiles(R)
  <2>1. CASE k = j
    BY <1>4, <1>5, <1>10, <2>1
  <2>2. CASE k # j
    <3>1. o.node # o.target
      BY <1>4, <1>5, <2>2 DEF Row, DistinctRow
    <3>2. R1[j].id # Tile(o.node, row[j].app).id
      BY <1>9, <3>1 DEF Tile
    <3>. QED BY <1>8, <1>10, <3>2
  <2>. QED BY <2>1, <2>2
<1>17. RowTiles(R) \subseteq (RowTiles(row) \ {row[k], row[j]}) \cup {Tile(o.node, row[j].app), Tile(o.target, row[k].app)}
  <2>1. R1[j] = IF j = k THEN Tile(o.node, row[j].app) ELSE row[j]
    BY <1>5, <1>9
  <2>2. R1[j] = row[j]
    BY <1>4, <1>5, <2>1 DEF Tile, TileRecs
  <2>. QED BY <1>8, <1>10, <2>2
<1>18. Tiles(t.spaces) = {y \in Tiles(S) : y.id \notin {o.node, o.target}}
                           \cup {Tile(o.node, row[j].app), Tile(o.target, row[k].app)}
  <2>1. \A y \in Tiles(S) : y.id \notin {o.node, o.target} <=> y \notin {row[k], row[j]}
    BY <1>4, <1>5, <1>14
  <2>. QED BY <1>13, <1>14, <1>15, <1>16, <1>17, <2>1, <1>4, <1>5 DEF RowTiles
<1>. QED BY <1>3, <1>4, <1>5, <1>13, <1>18

LEMMA RowAppend ==
  ASSUME NEW row, Row(row), NEW t \in TileRecs, t.id \notin RowIds(row)
  PROVE  Row(Append(row, t)) /\ RowTiles(Append(row, t)) = RowTiles(row) \cup {t}
<1>1. PICK n, r : n = Len(row) /\ r = Append(row, t)
  OBVIOUS
<1>2. n \in Nat /\ DOMAIN row = 1..n /\ row \in Seq(TileRecs) /\ DistinctRow(row)
  BY <1>1 DEF Row
<1>3. /\ r \in Seq(TileRecs) /\ Len(r) = n + 1 /\ DOMAIN r = 1..(n + 1) /\ r[n + 1] = t
      /\ \A i \in 1..n : r[i] = row[i]
  BY <1>1, <1>2
<1>4. r # <<>>
  BY <1>2, <1>3
<1>5. \A i \in DOMAIN r : i \in DOMAIN row \/ i = n + 1
  BY <1>2, <1>3
<1>6. \A i \in DOMAIN row : row[i].id # t.id
  BY DEF RowIds
<1>7. DistinctRow(r)
  <2> SUFFICES ASSUME NEW i \in DOMAIN r, NEW j \in DOMAIN r, r[i].id = r[j].id PROVE i = j
    BY DEF DistinctRow
  <2>1. CASE i \in DOMAIN row /\ j \in DOMAIN row
    BY <1>2, <1>3, <2>1 DEF DistinctRow
  <2>2. CASE i = n + 1 \/ j = n + 1
    BY <1>2, <1>3, <1>5, <1>6, <2>2
  <2>. QED BY <1>5, <2>1, <2>2
<1>8. \A u : u \in RowTiles(r) <=> u \in RowTiles(row) \/ u = t
  <2>1. \A i \in DOMAIN row : i \in DOMAIN r /\ r[i] = row[i]
    BY <1>2, <1>3
  <2>2. n + 1 \in DOMAIN r
    BY <1>2, <1>3
  <2>. QED BY <1>3, <1>5, <2>1, <2>2 DEF RowTiles
<1>. QED BY <1>1, <1>3, <1>4, <1>7, <1>8 DEF Row

LEMMA RowOne ==
  ASSUME NEW t \in TileRecs
  PROVE  Row(<<t>>) /\ RowTiles(<<t>>) = {t}
<1>1. PICK r : r = <<t>>
  OBVIOUS
<1>2. r \in Seq(TileRecs) /\ DOMAIN r = {1} /\ r[1] = t /\ r # <<>>
  BY <1>1
<1>. QED BY <1>1, <1>2 DEF Row, DistinctRow, RowTiles

LEMMA CoreMoveSplit ==
  ASSUME NEW s, Shell(s), Tree(s), NEW o, o.op = "move-split", CanApply(s, o), NEW t, t = Core(s, o)
  PROVE  OnlyTree(s, t) /\ Tree(t) /\ t.cur = s.cur /\ Tiles(t.spaces) = Tiles(s.spaces)
<1>1. o.node \in Leaves(s) /\ o.target \in Leaves(s) /\ WsOf(s, o.target) = WsOf(s, o.node) /\ o.node # o.target
  BY DEF CanApply, SameWs
<1>2. RowsOK(s.spaces)
  BY DEF Tree
<1>3. PICK S, i, row, k, j : /\ S = s.spaces /\ i = WsOf(s, o.node) /\ row = S[i].row
                             /\ k = Pos(row, o.node) /\ j = Pos(row, o.target)
  OBVIOUS
<1>4. i \in DOMAIN S /\ Row(row) /\ k \in DOMAIN row /\ row[k].id = o.node /\ row[k] \in TileRecs
  BY <1>1, <1>2, <1>3, PlaceIs
<1>5. j \in DOMAIN row /\ row[j].id = o.target
  BY <1>1, <1>2, <1>3, PlaceIs
<1>6. PICK rest : rest = RemoveAt(row, k)
  OBVIOUS
<1>7. rest \in Seq(TileRecs) /\ DistinctRow(rest) /\ RowTiles(rest) = RowTiles(row) \ {row[k]}
  BY <1>4, <1>6, RowRemove
<1>8. /\ RowIds(rest) = {u.id : u \in RowTiles(rest)} /\ RowIds(row) = {u.id : u \in RowTiles(row)}
      /\ \A u \in RowTiles(row) : u.id = o.node => u = row[k]
  <2>1. \A u \in RowTiles(row) : u.id = o.node => u = row[k]
    BY <1>4 DEF RowTiles, Row, DistinctRow
  <2>. QED BY <1>4, <1>7, <2>1, RowFacts DEF Row
<1>9. o.target \in RowIds(rest) /\ o.node \notin RowIds(rest)
  <2>1. row[j] \in RowTiles(rest)
    BY <1>1, <1>4, <1>5, <1>7 DEF RowTiles
  <2>. QED BY <1>5, <1>7, <1>8, <2>1
<1>10. Row(rest)
  <2>1. rest # <<>>
    BY <1>9 DEF RowIds
  <2>. QED BY <1>7, <2>1 DEF Row
<1>11. PICK m, R : m = Pos(rest, o.target) /\ R = InsertAt(rest, m + 1, row[k])
  OBVIOUS
<1>12. m \in 0..Len(rest)
  <2>1. m \in DOMAIN rest
    BY <1>9, <1>10, <1>11, PosIs
  <2>. QED BY <1>7, <2>1, RowFacts
<1>13. Row(R) /\ RowTiles(R) = RowTiles(rest) \cup {row[k]}
  BY <1>4, <1>7, <1>9, <1>11, <1>12, RowInsert
<1>14. RowTiles(R) = RowTiles(row)
  BY <1>4, <1>7, <1>13 DEF RowTiles
<1>15. RowIds(R) \subseteq RowIds(row)
  <2>1. RowIds(R) = {u.id : u \in RowTiles(R)}
    BY <1>13, RowFacts DEF Row
  <2>. QED BY <1>8, <1>14, <2>1
<1>16. t = Rerow(s, i, R)
  BY <1>3, <1>6, <1>11 DEF Core, Rerow, PutRow, Shell, Fields
<1>17. i \in DOMAIN s.spaces /\ row = s.spaces[i].row
  BY <1>3, <1>4
<1>18. /\ OnlyTree(s, t) /\ Tree(t) /\ t.cur = s.cur
       /\ Tiles(t.spaces) = (Tiles(s.spaces) \ RowTiles(row)) \cup RowTiles(R)
  BY <1>13, <1>15, <1>16, <1>17, PutHere
<1>19. RowTiles(row) \subseteq Tiles(s.spaces)
  BY <1>17 DEF Tiles
<1>. QED BY <1>14, <1>18, <1>19

LEMMA CoreMoveLeaf ==
  ASSUME NEW s, Shell(s), Tree(s), Roomy(s), NEW o, o.op = "move-leaf", CanApply(s, o), Fits(s, o),
         NEW t, t = Core(s, o)
  PROVE  /\ OnlyTree(s, t) /\ Tree(t) /\ t.cur = s.cur
         /\ Tiles(s.spaces) \subseteq Tiles(t.spaces)
         /\ Tiles(t.spaces) \subseteq Tiles(s.spaces) \cup {Tile(FreshLeaf(s), Launcher)}
         /\ FreshLeaf(s) \in LeafIds /\ FreshLeaf(s) \notin Mentioned(s)
<1>1. /\ o.node \in Leaves(s) /\ o.ws \in WsIdsOf(s) /\ s.spaces[WsOf(s, o.node)].id # o.ws
      /\ Cardinality(Leaves(s)) + 1 <= MaxLeaves
  BY DEF CanApply, Fits, NewLeaves
<1>2. RowsOK(s.spaces)
  BY DEF Tree
<1>3. PICK S, i, row, k, d, src, e :
        /\ S = s.spaces /\ i = WsOf(s, o.node) /\ row = S[i].row /\ k = Pos(row, o.node)
        /\ d = WsAt(s, o.ws) /\ src = S[d].row /\ e = Tile(FreshLeaf(s), Launcher)
  OBVIOUS
<1>4. /\ i \in DOMAIN S /\ Row(row) /\ k \in DOMAIN row /\ row[k].id = o.node /\ row[k] \in TileRecs
      /\ row[k] \in Tiles(S)
  BY <1>1, <1>2, <1>3, PlaceIs
<1>5. d \in DOMAIN S /\ d # i /\ Row(src)
  <2>1. d \in DOMAIN S /\ S[d].id = o.ws
    BY <1>1, <1>3 DEF WsAt, WsIdsOf
  <2>. QED BY <1>1, <1>2, <1>3, <2>1, RowsFacts
<1>6. FreshLeaf(s) \in LeafIds /\ FreshLeaf(s) \notin Mentioned(s)
  <2>1. 1 \in Nat \ {0}
    OBVIOUS
  <2>. QED BY <1>1, <1>2, <2>1, FreshIs
<1>7. e \in TileRecs /\ e.id = FreshLeaf(s) /\ e.id \notin Leaves(s) /\ e.id # o.node
  BY <1>1, <1>3, <1>6 DEF Tile, TileRecs, Mentioned, AppNames
<1>8. PICK R1, R2 : /\ R1 = IF Len(row) = 1 THEN <<e>> ELSE RemoveAt(row, k)
                    /\ R2 = Append(src, row[k])
  OBVIOUS
<1>9. /\ Row(R1) /\ RowTiles(row) \ {row[k]} \subseteq RowTiles(R1)
      /\ RowTiles(R1) \subseteq (RowTiles(row) \ {row[k]}) \cup {e}
  <2>1. CASE Len(row) = 1
    <3>1. R1 = <<e>>
      BY <1>8, <2>1
    <3>2. Row(R1) /\ RowTiles(R1) = {e}
      BY <1>7, <3>1, RowOne
    <3>3. DOMAIN row = {1}
      BY <1>4, <2>1, RowFacts DEF Row
    <3>4. RowTiles(row) = {row[k]}
      BY <1>4, <3>3 DEF RowTiles
    <3>. QED BY <3>2, <3>4
  <2>2. CASE Len(row) # 1
    <3>1. R1 = RemoveAt(row, k)
      BY <1>8, <2>2
    <3>2. R1 \in Seq(TileRecs) /\ DistinctRow(R1) /\ RowTiles(R1) = RowTiles(row) \ {row[k]} /\ Len(R1) = Len(row) - 1
      BY <1>4, <3>1, RowRemove
    <3>3. Len(row) > 0 /\ Len(row) \in Nat
      BY <1>4, RowFacts DEF Row
    <3>4. R1 # <<>>
      BY <2>2, <3>2, <3>3, RowFacts
    <3>. QED BY <3>2, <3>4 DEF Row
  <2>. QED BY <2>1, <2>2
<1>10. RowIds(R1) \subseteq (RowIds(row) \ {o.node}) \cup {e.id}
  <2>1. RowIds(R1) = {u.id : u \in RowTiles(R1)} /\ RowIds(row) = {u.id : u \in RowTiles(row)}
    BY <1>4, <1>9, RowFacts DEF Row
  <2>2. \A u \in RowTiles(row) : u.id = o.node => u = row[k]
    BY <1>4 DEF RowTiles, Row, DistinctRow
  <2>. QED BY <1>9, <2>1, <2>2
<1>11. /\ o.node \in RowIds(row) /\ o.node \notin RowIds(src)
       /\ \A j \in DOMAIN S : e.id \notin RowIds(S[j].row)
       /\ \A j, m \in DOMAIN S : j # m => RowIds(S[j].row) \cap RowIds(S[m].row) = {}
  <2>1. \A j, m \in DOMAIN S : j # m => RowIds(S[j].row) \cap RowIds(S[m].row) = {}
    BY <1>2, <1>3 DEF RowsOK
  <2>2. o.node \in RowIds(row)
    BY <1>4 DEF RowIds
  <2>3. \A j \in DOMAIN S : e.id \notin RowIds(S[j].row)
    BY <1>3, <1>7 DEF Leaves
  <2>. QED BY <1>3, <1>4, <1>5, <2>1, <2>2, <2>3
<1>12. PICK U1, U : U1 = PutRow(S, i, R1) /\ U = PutRow(U1, d, R2)
  OBVIOUS
<1>13. \A j \in DOMAIN S : j # i => RowIds(R1) \cap RowIds(S[j].row) = {}
  <2> SUFFICES ASSUME NEW j \in DOMAIN S, j # i PROVE RowIds(R1) \cap RowIds(S[j].row) = {}
    OBVIOUS
  <2>1. RowIds(row) \cap RowIds(S[j].row) = {} /\ e.id \notin RowIds(S[j].row)
    BY <1>3, <1>4, <1>11
  <2>. QED BY <1>10, <2>1
<1>14. /\ RowsOK(U1) /\ Len(U1) = Len(S) /\ DOMAIN U1 = DOMAIN S /\ U1[i].row = R1
       /\ Tiles(U1) = (Tiles(S) \ RowTiles(row)) \cup RowTiles(R1)
       /\ \A j \in DOMAIN S : U1[j].id = S[j].id
       /\ \A j \in DOMAIN S : j # i => U1[j] = S[j]
  <2>1. /\ RowsOK(S) /\ i \in DOMAIN S /\ Row(R1)
        /\ \A j \in DOMAIN S : j # i => RowIds(R1) \cap RowIds(S[j].row) = {}
    BY <1>2, <1>3, <1>4, <1>9, <1>13
  <2>. QED BY ONLY <1>3, <1>12, <2>1, PutRowIs
<1>15. U1[d].row = src
  BY <1>3, <1>5, <1>14
<1>16. Row(R2) /\ RowTiles(R2) = RowTiles(src) \cup {row[k]}
  BY <1>4, <1>5, <1>8, <1>11, RowAppend
<1>17. RowIds(R2) = RowIds(src) \cup {o.node}
  <2>1. RowIds(R2) = {u.id : u \in RowTiles(R2)} /\ RowIds(src) = {u.id : u \in RowTiles(src)}
    BY <1>5, <1>16, RowFacts DEF Row
  <2>. QED BY <1>4, <1>16, <2>1
<1>18. \A j \in DOMAIN U1 : j # d => RowIds(R2) \cap RowIds(U1[j].row) = {}
  <2> SUFFICES ASSUME NEW j \in DOMAIN S, j # d PROVE RowIds(R2) \cap RowIds(U1[j].row) = {}
    BY <1>14
  <2>1. CASE j = i
    <3>1. U1[j].row = R1 /\ RowIds(row) \cap RowIds(src) = {} /\ e.id \notin RowIds(src)
      BY <1>3, <1>4, <1>5, <1>11, <1>14, <2>1
    <3>. QED BY <1>7, <1>10, <1>17, <3>1
  <2>2. CASE j # i
    <3>1. /\ U1[j] = S[j] /\ RowIds(src) \cap RowIds(S[j].row) = {}
          /\ RowIds(row) \cap RowIds(S[j].row) = {} /\ o.node \notin RowIds(S[j].row)
      BY <1>3, <1>4, <1>5, <1>11, <1>14, <2>2
    <3>. QED BY <1>17, <3>1
  <2>. QED BY <2>1, <2>2
<1>19. /\ RowsOK(U) /\ Len(U) = Len(U1) /\ DOMAIN U = DOMAIN U1
       /\ Tiles(U) = (Tiles(U1) \ RowTiles(src)) \cup RowTiles(R2)
       /\ \A j \in DOMAIN U1 : U[j].id = U1[j].id
  BY <1>5, <1>12, <1>14, <1>15, <1>16, <1>18, PutRowIs
<1>20. Tiles(S) \subseteq Tiles(U) /\ Tiles(U) \subseteq Tiles(S) \cup {e}
  <2>1. RowTiles(row) \subseteq Tiles(S) /\ RowTiles(src) \subseteq Tiles(S)
    BY <1>3, <1>4, <1>5 DEF Tiles
  <2>. QED BY <1>4, <1>9, <1>14, <1>16, <1>19, <2>1
<1>21. t = [s EXCEPT !.spaces = U]
  <2>1. t = [s EXCEPT !.spaces = [S EXCEPT ![i].row = R1, ![d].row = R2]]
    BY <1>3, <1>8 DEF Core, Shell, Fields
  <2>2. U = [S EXCEPT ![i].row = R1, ![d].row = R2]
    BY <1>12 DEF PutRow
  <2>. QED BY <2>1, <2>2
<1>22. OnlyTree(s, t) /\ t.cur = s.cur /\ t.spaces = U
  BY <1>21 DEF OnlyTree, Shell, Fields
<1>23. WsIdsOf(t) = WsIdsOf(s)
  BY <1>3, <1>14, <1>19, <1>22 DEF WsIdsOf
<1>24. Leaves(t) \subseteq Leaves(s) \cup {e.id}
  <2>1. Leaves(t) = {u.id : u \in Tiles(t.spaces)} /\ Leaves(s) = {u.id : u \in Tiles(S)}
    BY <1>2, <1>3, <1>19, <1>22, LeavesAre
  <2>. QED BY <1>20, <1>22, <2>1
<1>25. Cardinality(Leaves(t)) <= MaxLeaves
  BY <1>1, <1>24, LeavesOneMore
<1>26. Tree(t)
  BY <1>3, <1>14, <1>19, <1>22, <1>23, <1>25 DEF Tree
<1>. QED BY <1>3, <1>6, <1>20, <1>22, <1>26

LEMMA CoreSwitch ==
  ASSUME NEW s, Shell(s), Tree(s), NEW o, o.op = "switch-workspace", CanApply(s, o), NEW t, t = Core(s, o)
  PROVE  OnlyTree(s, t) /\ Tree(t) /\ t.spaces = s.spaces
<1>1. o.ws \in WsIdsOf(s)
  BY DEF CanApply
<1>2. t = [s EXCEPT !.cur = o.ws]
  BY DEF Core
<1>3. OnlyTree(s, t) /\ t.spaces = s.spaces /\ t.cur = o.ws
  BY <1>2 DEF OnlyTree, Shell, Fields
<1>4. Leaves(t) = Leaves(s) /\ WsIdsOf(t) = WsIdsOf(s)
  BY <1>3 DEF Leaves, WsIdsOf
<1>. QED BY <1>1, <1>3, <1>4 DEF Tree

LEMMA CoreRemove ==
  ASSUME NEW s, Shell(s), Tree(s), NEW o, o.op = "remove-workspace", CanApply(s, o), NEW t, t = Core(s, o)
  PROVE  OnlyTree(s, t) /\ Tree(t) /\ Tiles(t.spaces) \subseteq Tiles(s.spaces)
<1>1. o.ws \in WsIdsOf(s) /\ Len(s.spaces) > 1
  BY DEF CanApply
<1>2. RowsOK(s.spaces) /\ s.cur \in WsIdsOf(s) /\ Len(s.spaces) <= MaxWs /\ Len(s.spaces) \in Nat /\ MaxWs \in Nat
  BY RowsFacts, Names DEF Tree
<1>3. PICK S, d, U : S = s.spaces /\ d = WsAt(s, o.ws) /\ U = RemoveAt(S, d)
  OBVIOUS
<1>4. d \in DOMAIN S /\ S[d].id = o.ws
  BY <1>1, <1>3 DEF WsAt, WsIdsOf
<1>5. /\ RowsOK(U) /\ Len(U) = Len(S) - 1 /\ Tiles(U) \subseteq Tiles(S) /\ 1 \in DOMAIN U
      /\ \A j \in DOMAIN S : j # d => S[j].id \in {U[i].id : i \in DOMAIN U}
  <2>1. RowsOK(S) /\ d \in DOMAIN S /\ Len(S) > 1
    BY <1>1, <1>2, <1>3, <1>4
  <2>2. LET V == RemoveAt(S, d)
        IN /\ RowsOK(V) /\ Len(V) = Len(S) - 1 /\ Tiles(V) \subseteq Tiles(S) /\ 1 \in DOMAIN V
           /\ \A j \in DOMAIN S : j # d => S[j].id \in {V[i].id : i \in DOMAIN V}
    BY <2>1, RemoveSpaceIs
  <2>. QED BY <1>3, <2>2
<1>6. PICK w : w = IF s.cur = o.ws THEN U[1].id ELSE s.cur
  OBVIOUS
<1>7. t = [s EXCEPT !.spaces = U, !.cur = w]
  BY <1>3, <1>6 DEF Core, Shell, Fields
<1>8. OnlyTree(s, t) /\ t.spaces = U /\ t.cur = w
  BY <1>7 DEF OnlyTree, Shell, Fields
<1>9. t.cur \in WsIdsOf(t)
  <2>1. WsIdsOf(t) = {U[i].id : i \in DOMAIN U}
    BY <1>8 DEF WsIdsOf
  <2>2. CASE s.cur = o.ws
    BY <1>5, <1>6, <1>8, <2>1, <2>2
  <2>3. CASE s.cur # o.ws
    <3>1. PICK j \in DOMAIN S : S[j].id = s.cur
      BY <1>2, <1>3 DEF WsIdsOf
    <3>. QED BY <1>4, <1>5, <1>6, <1>8, <2>1, <2>3, <3>1
  <2>. QED BY <2>2, <2>3
<1>10. Leaves(t) \subseteq Leaves(s)
  <2>1. Leaves(t) = {u.id : u \in Tiles(t.spaces)} /\ Leaves(s) = {u.id : u \in Tiles(S)}
    BY <1>2, <1>3, <1>5, <1>8, LeavesAre
  <2>. QED BY <1>5, <1>8, <2>1
<1>11. Cardinality(Leaves(t)) <= MaxLeaves
  BY <1>10, LeavesFewer
<1>12. Len(U) <= MaxWs
  BY <1>2, <1>3, <1>5
<1>13. Tree(t)
  BY <1>5, <1>8, <1>9, <1>11, <1>12 DEF Tree
<1>. QED BY <1>3, <1>5, <1>8, <1>13

\* A row of new leaves becomes a workspace, which is shown.
LEMMA AddSpace ==
  ASSUME NEW s, Shell(s), Tree(s), Frames(s), Len(s.spaces) < MaxWs,
         NEW R, Row(R), RowIds(R) \cap Leaves(s) = {}, NEW d \in Nat, Cardinality(RowIds(R)) <= d,
         IsFiniteSet(RowIds(R)), Cardinality(Leaves(s)) + d <= MaxLeaves, NEW t, t = AddRow(s, R)
  PROVE  OnlyTree(s, t) /\ Tree(t) /\ Tiles(t.spaces) = Tiles(s.spaces) \cup RowTiles(R)
<1>1. RowsOK(s.spaces) /\ Len(s.spaces) \in Nat /\ MaxWs \in Nat
  BY RowsFacts, Names DEF Tree
<1>2. PICK S, w, U : S = s.spaces /\ w = FreshWs(s) /\ U = Append(S, [id |-> w, row |-> R])
  OBVIOUS
<1>3. w \in WsIds
  BY <1>2, FreshWsIs
<1>4. \A j \in DOMAIN S : RowIds(R) \cap RowIds(S[j].row) = {}
  BY <1>2 DEF Leaves
<1>5. /\ RowsOK(U) /\ Len(U) = Len(S) + 1 /\ Tiles(U) = Tiles(S) \cup RowTiles(R)
      /\ w \in {U[i].id : i \in DOMAIN U}
  <2>1. RowsOK(S)
    BY <1>1, <1>2
  <2>2. LET V == Append(S, [id |-> w, row |-> R])
        IN /\ RowsOK(V) /\ Len(V) = Len(S) + 1 /\ Tiles(V) = Tiles(S) \cup RowTiles(R)
           /\ w \in {V[i].id : i \in DOMAIN V}
    BY <1>3, <1>4, <2>1, AddRowIs
  <2>. QED BY <1>2, <2>2
<1>6. t = [s EXCEPT !.spaces = U, !.cur = w]
  BY <1>2 DEF AddRow, Shell, Fields
<1>7. OnlyTree(s, t) /\ t.spaces = U /\ t.cur = w
  BY <1>6 DEF OnlyTree, Shell, Fields
<1>8. Leaves(t) \subseteq Leaves(s) \cup RowIds(R)
  <2>1. Leaves(t) = {u.id : u \in Tiles(t.spaces)} /\ Leaves(s) = {u.id : u \in Tiles(S)}
    BY <1>1, <1>2, <1>5, <1>7, LeavesAre
  <2>2. RowIds(R) = {u.id : u \in RowTiles(R)}
    BY RowFacts DEF Row
  <2>. QED BY <1>5, <1>7, <2>1, <2>2
<1>9. Cardinality(Leaves(t)) <= MaxLeaves
  BY <1>1, <1>8, LeavesBound
<1>10. Len(U) <= MaxWs
  BY <1>1, <1>2, <1>5
<1>11. t.cur \in WsIdsOf(t)
  BY <1>5, <1>7 DEF WsIdsOf
<1>12. Tree(t)
  BY <1>5, <1>7, <1>9, <1>10, <1>11 DEF Tree
<1>. QED BY <1>2, <1>5, <1>7, <1>12

LEMMA CoreAdd ==
  ASSUME NEW s, Shell(s), Tree(s), Frames(s), Roomy(s), NEW o, o.op = "add-workspace", o.app \in AppNames,
         Fits(s, o), NEW t, t = Core(s, o)
  PROVE  /\ OnlyTree(s, t) /\ Tree(t)
         /\ Tiles(t.spaces) = Tiles(s.spaces) \cup {Tile(FreshLeaf(s), o.app)}
         /\ FreshLeaf(s) \in LeafIds /\ FreshLeaf(s) \notin Mentioned(s)
<1>1. Cardinality(Leaves(s)) + 1 <= MaxLeaves /\ Len(s.spaces) < MaxWs /\ RowsOK(s.spaces)
  BY DEF Fits, NewLeaves, Tree
<1>2. 1 \in Nat \ {0}
  OBVIOUS
<1>3. FreshLeaf(s) \in LeafIds /\ FreshLeaf(s) \notin Mentioned(s)
  BY <1>1, <1>2, FreshIs
<1>4. PICK e, R : e = Tile(FreshLeaf(s), o.app) /\ R = <<e>>
  OBVIOUS
<1>5. e \in TileRecs /\ e.id \notin Leaves(s) /\ e.id = FreshLeaf(s)
  BY <1>3, <1>4 DEF Tile, TileRecs, Mentioned
<1>6. Row(R) /\ RowTiles(R) = {e}
  BY <1>4, <1>5, RowOne
<1>7. RowIds(R) = {e.id}
  BY <1>6, RowFacts DEF Row
<1>8. IsFiniteSet({e.id}) /\ Cardinality({e.id}) = 1
  BY FS_Singleton
<1>9. IsFiniteSet(RowIds(R)) /\ Cardinality(RowIds(R)) <= 1 /\ RowIds(R) \cap Leaves(s) = {}
  BY <1>5, <1>7, <1>8
<1>10. t = AddRow(s, R)
  BY <1>4 DEF Core
<1>11. OnlyTree(s, t) /\ Tree(t) /\ Tiles(t.spaces) = Tiles(s.spaces) \cup RowTiles(R)
  BY <1>1, <1>2, <1>6, <1>9, <1>10, AddSpace
<1>. QED BY <1>3, <1>4, <1>6, <1>11

LEMMA CoreClone ==
  ASSUME NEW s, Shell(s), Tree(s), Frames(s), Roomy(s), NEW o, o.op = "clone-workspace",
         CanApply(s, o), Fits(s, o), NEW t, t = Core(s, o)
  PROVE  /\ OnlyTree(s, t) /\ Tree(t) /\ Tiles(s.spaces) \subseteq Tiles(t.spaces)
         /\ \A u \in Tiles(t.spaces) : u \in Tiles(s.spaces) \/ u.id \notin Mentioned(s)
<1>1. PICK S, d, src, n : S = s.spaces /\ d = WsAt(s, o.ws) /\ src = S[d].row /\ n = Len(src)
  OBVIOUS
<1>2. RowsOK(S) /\ o.ws \in WsIdsOf(s)
  BY <1>1 DEF CanApply, Tree
<1>3. d \in DOMAIN S
  BY <1>1, <1>2 DEF WsAt, WsIdsOf
<1>4. Row(src)
  BY <1>1, <1>2, <1>3, RowsFacts
<1>5. n \in Nat \ {0} /\ DOMAIN src = 1..n /\ \A i \in 1..n : src[i] \in TileRecs
  <2>1. src \in Seq(TileRecs) /\ src # <<>>
    BY <1>4 DEF Row
  <2>. QED BY <1>1, <2>1
<1>6. Cardinality(Leaves(s)) + n <= MaxLeaves /\ Len(s.spaces) < MaxWs
  BY <1>1 DEF Fits, NewLeaves
<1>7. PICK F, R : /\ F = LeafIds \ Mentioned(s)
                  /\ R = [i \in DOMAIN src |-> Tile(KthMin(LeafIds \ Mentioned(s), i), src[i].app)]
  OBVIOUS
<1>8. F \in SUBSET Nat /\ IsFiniteSet(F) /\ n <= Cardinality(F) /\ Cardinality(F) \in Nat
  BY <1>1, <1>2, <1>5, <1>6, <1>7, FreshIs
<1>9. /\ \A i \in 1..n : KthMin(F, i) \in F
      /\ \A i, j \in 1..n : KthMin(F, i) = KthMin(F, j) => i = j
  <2>1. n \in Nat
    BY <1>5
  <2>. QED BY <1>8, <2>1, KthDistinct
<1>10. /\ DOMAIN R = 1..n
       /\ \A i \in 1..n : R[i] \in TileRecs /\ R[i].id = KthMin(F, i) /\ R[i].id \in F
  <2> SUFFICES ASSUME NEW i \in 1..n PROVE R[i] \in TileRecs /\ R[i].id = KthMin(F, i) /\ R[i].id \in F
    BY <1>5, <1>7
  <2>1. R[i] = Tile(KthMin(F, i), src[i].app) /\ KthMin(F, i) \in F /\ src[i].app \in AppNames
    BY <1>5, <1>7, <1>9 DEF TileRecs
  <2>2. F \subseteq LeafIds
    BY <1>7
  <2>. QED BY <2>1, <2>2 DEF Tile, TileRecs
<1>11. Row(R)
  <2>1. R = [i \in 1..n |-> R[i]]
    BY <1>5, <1>7
  <2>2. R \in Seq(TileRecs)
    BY <1>5, <1>10, <2>1, IsASeq
  <2>3. DistinctRow(R)
    BY <1>9, <1>10 DEF DistinctRow
  <2>4. R # <<>>
    BY <1>5, <1>10
  <2>. QED BY <2>2, <2>3, <2>4 DEF Row
<1>12. \A u \in RowTiles(R) : u.id \in F
  BY <1>10 DEF RowTiles
<1>13. RowIds(R) \subseteq F
  BY <1>10 DEF RowIds
<1>14. IsFiniteSet(RowIds(R)) /\ Cardinality(RowIds(R)) <= n
  <2>1. PICK g : g = [i \in 1..n |-> R[i].id]
    OBVIOUS
  <2>2. n \in Nat
    BY <1>5
  <2>3. IsFiniteSet(1..n) /\ Cardinality(1..n) = n
    BY <2>2, FS_Interval
  <2>4. PICK J : J = 1..n
    OBVIOUS
  <2>5. IsFiniteSet({g[i] : i \in J}) /\ Cardinality({g[i] : i \in J}) <= Cardinality(J)
    <3>1. IsFiniteSet(J) /\ DOMAIN g = J
      BY <2>1, <2>3, <2>4
    <3>. QED BY ONLY <3>1, ImageCount
  <2>6. RowIds(R) = {g[i] : i \in J}
    BY <1>10, <2>1, <2>4 DEF RowIds
  <2>. QED BY <2>3, <2>4, <2>5, <2>6
<1>15. RowIds(R) \cap Leaves(s) = {}
  BY <1>7, <1>13 DEF Mentioned
<1>16. t = AddRow(s, R)
  BY <1>1, <1>7 DEF Core
<1>17. OnlyTree(s, t) /\ Tree(t) /\ Tiles(t.spaces) = Tiles(s.spaces) \cup RowTiles(R)
  BY <1>5, <1>6, <1>11, <1>14, <1>15, <1>16, AddSpace
<1>. QED BY <1>7, <1>12, <1>17

-----------------------------------------------------------------------------
(* Builtin tiles get and lose their frames.                                *)

\* Only the frames changed, and what remembers their leaves.
OnlyFrames(s, t) ==
  /\ Shell(t) /\ t.spaces = s.spaces /\ t.cur = s.cur /\ t.wsOf = s.wsOf
  /\ t.managed = s.managed /\ t.floats = s.floats /\ t.asked = s.asked
  /\ t.fs = s.fs /\ t.target = s.target /\ t.preserved = s.preserved

LEMMA DropIs ==
  ASSUME NEW s, Shell(s), Frames(s), NEW S, S \subseteq DOMAIN s.frames, \A l \in S : s.frames[l] \notin Clients,
         NEW t, t = DropBuiltins(s, S)
  PROVE  /\ OnlyFrames(s, t) /\ Frames(t) /\ t.leafOf = s.leafOf /\ t.wins \subseteq s.wins
         /\ DOMAIN t.frames = DOMAIN s.frames \ S
         /\ \A l \in DOMAIN t.frames : t.frames[l] = s.frames[l]
<1>1. PICK D : D = {s.frames[l] : l \in S}
  OBVIOUS
<1>2. PICK g : g = [l \in DOMAIN s.frames \ S |-> s.frames[l]]
  OBVIOUS
<1>3. t = [s EXCEPT !.frames = g, !.wins = @ \ D, !.xf = IF @ \in D THEN None ELSE @]
  BY <1>1, <1>2 DEF DropBuiltins, Without
<1>4. OnlyFrames(s, t) /\ t.leafOf = s.leafOf /\ t.wins = s.wins \ D /\ t.frames = g
  BY <1>3 DEF OnlyFrames, Shell, Fields
<1>5. DOMAIN t.frames = DOMAIN s.frames \ S /\ \A l \in DOMAIN t.frames : t.frames[l] = s.frames[l]
  BY <1>2, <1>4
<1>6. D \cap Clients = {}
  BY <1>1
<1>7. Framed(t) = Framed(s) \ D
  BY <1>4, <1>6 DEF Framed, OnlyFrames, Frames
<1>8. ASSUME NEW l \in DOMAIN t.frames
      PROVE  t.frames[l] \in Framed(t) /\ t.frames[l] \in DOMAIN t.leafOf /\ t.leafOf[t.frames[l]] = l
  <2>1. s.frames[l] \in Framed(s) /\ s.frames[l] \in DOMAIN s.leafOf /\ s.leafOf[s.frames[l]] = l
    BY <1>5 DEF Frames
  <2>2. s.frames[l] \notin D
    <3> SUFFICES ASSUME NEW m \in S, s.frames[m] = s.frames[l] PROVE FALSE
      BY <1>1
    <3>1. s.leafOf[s.frames[m]] = m
      BY DEF Frames
    <3>. QED BY <1>5, <2>1, <3>1
  <2>. QED BY <1>4, <1>5, <1>7, <2>1, <2>2
<1>9. ASSUME NEW f \in Framed(t)
      PROVE  f \in DOMAIN t.leafOf /\ t.leafOf[f] \in DOMAIN t.frames /\ t.frames[t.leafOf[f]] = f
  <2>1. f \in DOMAIN s.leafOf /\ s.leafOf[f] \in DOMAIN s.frames /\ s.frames[s.leafOf[f]] = f /\ f \notin D
    BY <1>7 DEF Frames
  <2>2. s.leafOf[f] \notin S
    BY <1>1, <2>1
  <2>. QED BY <1>4, <1>5, <2>1, <2>2
<1>10. t.frames \in [DOMAIN t.frames -> Clients \cup Builtins] /\ DOMAIN t.frames \subseteq LeafIds
  BY <1>2, <1>4 DEF Frames
<1>11. Frames(t)
  BY <1>4, <1>8, <1>9, <1>10 DEF OnlyFrames, Frames
<1>. QED BY <1>4, <1>5, <1>11

\* New windows at leaves without a frame.
LEMMA OpenIs ==
  ASSUME NEW s, Shell(s), Frames(s), NEW new, NEW t, t = Open(s, new),
         DOMAIN new \subseteq LeafIds, DOMAIN new \cap DOMAIN s.frames = {},
         \A l \in DOMAIN new : new[l] \in Builtins \ s.wins,
         \A l, m \in DOMAIN new : new[l] = new[m] => l = m
  PROVE  /\ OnlyFrames(s, t) /\ Frames(t)
         /\ DOMAIN t.frames = DOMAIN s.frames \cup DOMAIN new
         /\ \A l \in DOMAIN s.frames : t.frames[l] = s.frames[l]
         /\ \A l \in DOMAIN new : t.frames[l] \in Builtins
<1>1. PICK D, back, g, h :
        /\ D = {new[l] : l \in DOMAIN new}
        /\ back = [f \in {new[l] : l \in DOMAIN new} |-> CHOOSE l \in DOMAIN new : new[l] = f]
        /\ g = Over(new, s.frames) /\ h = Over(back, s.leafOf)
  OBVIOUS
<1>2. t = [s EXCEPT !.frames = g, !.wins = @ \cup D, !.leafOf = h]
  BY <1>1 DEF Open, Shell, Fields
<1>3. OnlyFrames(s, t) /\ t.leafOf = h /\ t.wins = s.wins \cup D /\ t.frames = g
  BY <1>2 DEF OnlyFrames, Shell, Fields
<1>4. /\ DOMAIN g = DOMAIN s.frames \cup DOMAIN new
      /\ \A l \in DOMAIN s.frames : g[l] = s.frames[l]
      /\ \A l \in DOMAIN new : g[l] = new[l] /\ g[l] \in Builtins \cap D
      /\ g = [l \in DOMAIN g |-> g[l]]
  BY <1>1 DEF Over
<1>5. /\ DOMAIN h = DOMAIN s.leafOf \cup D
      /\ \A f \in D : h[f] = back[f]
      /\ \A f \in DOMAIN s.leafOf \ D : h[f] = s.leafOf[f]
      /\ h = [f \in DOMAIN h |-> h[f]]
  <2>1. DOMAIN back = D
    BY <1>1
  <2>. QED BY <1>1, <2>1 DEF Over
<1>6. D \subseteq Builtins /\ D \cap Clients = {} /\ D \cap s.wins = {} /\ D \cap Framed(s) = {}
  BY <1>1, Names DEF Framed, Frames
<1>7. \A f \in D : back[f] \in DOMAIN new /\ new[back[f]] = f
  BY <1>1
<1>8. Framed(t) = Framed(s) \cup D
  BY <1>3, <1>6 DEF Framed, OnlyFrames, Frames
<1>9. ASSUME NEW l \in DOMAIN g
      PROVE  g[l] \in Framed(t) /\ g[l] \in DOMAIN h /\ h[g[l]] = l
  <2>1. CASE l \in DOMAIN s.frames
    <3>1. s.frames[l] \in Framed(s) /\ s.frames[l] \in DOMAIN s.leafOf /\ s.leafOf[s.frames[l]] = l
      BY <2>1 DEF Frames
    <3>. QED BY <1>4, <1>5, <1>6, <1>8, <2>1, <3>1
  <2>2. CASE l \in DOMAIN new
    <3>1. g[l] = new[l] /\ new[l] \in D /\ back[new[l]] = l
      BY <1>1, <1>4, <2>2
    <3>. QED BY <1>5, <1>8, <3>1
  <2>. QED BY <1>4, <2>1, <2>2
<1>10. ASSUME NEW f \in Framed(t)
       PROVE  f \in DOMAIN h /\ h[f] \in DOMAIN g /\ g[h[f]] = f
  <2>1. CASE f \in D
    BY <1>4, <1>5, <1>7, <2>1
  <2>2. CASE f \in Framed(s)
    <3>1. f \in DOMAIN s.leafOf /\ s.leafOf[f] \in DOMAIN s.frames /\ s.frames[s.leafOf[f]] = f
      BY <2>2 DEF Frames
    <3>. QED BY <1>4, <1>5, <1>6, <2>2, <3>1
  <2>. QED BY <1>8, <2>1, <2>2
<1>11. g \in [DOMAIN g -> Clients \cup Builtins] /\ DOMAIN g \subseteq LeafIds
  <2>1. \A l \in DOMAIN g : g[l] \in Clients \cup Builtins
    BY <1>4 DEF Frames
  <2>. QED BY <1>4, <2>1 DEF Frames
<1>12. h \in [DOMAIN h -> LeafIds]
  <2>1. \A f \in DOMAIN h : h[f] \in LeafIds
    BY <1>5, <1>7 DEF Frames
  <2>. QED BY <1>5, <2>1
<1>13. Frames(t)
  BY <1>3, <1>6, <1>9, <1>10, <1>11, <1>12 DEF OnlyFrames, Frames
<1>. QED BY <1>3, <1>4, <1>13

\* Different leaves have different ranks.
LEMMA RankIs ==
  ASSUME NEW B \in SUBSET Nat, IsFiniteSet(B), NEW r, r = [l \in B |-> Ordinal(B, l)]
  PROVE  /\ \A l \in B : r[l] \in 1..Cardinality(B)
         /\ \A l, m \in B : r[l] = r[m] => l = m
<1> DEFINE upto(l) == {m \in B : m <= l}
<1>1. \A l \in B : r[l] = Cardinality(upto(l)) /\ l \in upto(l) /\ upto(l) \subseteq B
  BY DEF Ordinal
<1>2. \A l, m \in B : l < m => upto(l) \subseteq upto(m) \ {m}
  <2> SUFFICES ASSUME NEW l \in B, NEW m \in B, l < m, NEW y \in upto(l) PROVE y \in upto(m) \ {m}
    OBVIOUS
  <2>1. l \in Nat /\ m \in Nat /\ y \in Nat /\ y \in B /\ y <= l
    OBVIOUS
  <2>2. y <= m /\ y # m
    BY <2>1
  <2>. QED BY <2>1, <2>2
<1> HIDE DEF upto
<1>3. ASSUME NEW l \in B
      PROVE  /\ IsFiniteSet(upto(l)) /\ Cardinality(upto(l)) \in Nat \ {0} /\ Cardinality(upto(l)) <= Cardinality(B)
             /\ Cardinality(B) \in Nat
             /\ Cardinality(upto(l) \ {l}) = Cardinality(upto(l)) - 1
  <2>1. /\ IsFiniteSet(upto(l)) /\ Cardinality(upto(l)) \in Nat /\ Cardinality(upto(l)) <= Cardinality(B)
        /\ Cardinality(B) \in Nat
    BY <1>1, SubsetCount
  <2>2. Cardinality(upto(l)) # 0
    BY <1>1, <2>1, FS_EmptySet
  <2>3. Cardinality(upto(l) \ {l}) = Cardinality(upto(l)) - 1
    BY <1>1, <2>1, FS_RemoveElement
  <2>. QED BY <2>1, <2>2, <2>3
<1>4. ASSUME NEW l \in B, NEW m \in B, l < m PROVE r[l] < r[m]
  <2>1. IsFiniteSet(upto(m) \ {m})
    BY <1>3, FS_RemoveElement
  <2>2. Cardinality(upto(l)) <= Cardinality(upto(m) \ {m}) /\ Cardinality(upto(l)) \in Nat
    BY <1>2, <1>4, <2>1, SubsetCount
  <2>. QED BY <1>1, <1>3, <2>2
<1>5. \A l, m \in B : r[l] = r[m] => l = m
  <2> SUFFICES ASSUME NEW l \in B, NEW m \in B, r[l] = r[m] PROVE l = m
    OBVIOUS
  <2>1. l \in Nat /\ m \in Nat /\ r[l] \in Nat /\ r[m] \in Nat
    BY <1>1, <1>3
  <2>2. ~(l < m) /\ ~(m < l)
    BY <1>4, <2>1
  <2>. QED BY <2>1, <2>2
<1>6. ASSUME NEW l \in B PROVE r[l] \in 1..Cardinality(B)
  <2>1. PICK n, b : n = Cardinality(upto(l)) /\ b = Cardinality(B)
    OBVIOUS
  <2>2. r[l] = n /\ n \in Nat \ {0} /\ n <= b /\ b \in Nat
    BY <1>1, <1>3, <2>1
  <2>3. n \in 1..b
    BY <2>2
  <2>. QED BY <2>1, <2>2, <2>3
<1>. QED BY <1>5, <1>6

\* There are windows enough for the leaves B that need one.
LEMMA FreeEnough ==
  ASSUME NEW s, Tree(s), Frames(s), \A l \in DOMAIN s.frames \ Leaves(s) : s.frames[l] \in Clients,
         NEW B, B \subseteq Leaves(s) \ DOMAIN s.frames, NEW F, F = Builtins \ (s.wins \cup {s.fs})
  PROVE  /\ IsFiniteSet(B) /\ Cardinality(B) \in Nat
         /\ F \in SUBSET Nat /\ IsFiniteSet(F) /\ Cardinality(F) \in Nat /\ Cardinality(B) <= Cardinality(F)
<1>1. PICK L, W, E : L = Leaves(s) /\ W = s.wins /\ E = {s.fs}
  OBVIOUS
<1>2. IsFiniteSet(L) /\ Cardinality(L) \in Nat /\ Cardinality(L) <= MaxLeaves /\ MaxLeaves \in Nat
  BY <1>1, LeavesAre, Names DEF Tree
<1>3. IsFiniteSet(B) /\ Cardinality(B) \in Nat
  BY <1>1, <1>2, SubsetCount
<1>4. IsFiniteSet(L \ B) /\ Cardinality(L \ B) = Cardinality(L) - Cardinality(B)
  <2>1. IsFiniteSet(L \ B) /\ Cardinality(L \ B) = Cardinality(L) - Cardinality(L \cap B)
    BY <1>2, FS_Difference
  <2>2. L \cap B = B
    BY <1>1
  <2>. QED BY <2>1, <2>2
<1>5. IsFiniteSet(W) /\ Cardinality(W) <= Cardinality(L \ B)
  <2>1. \A f \in W : s.leafOf[f] \in L \ B /\ s.frames[s.leafOf[f]] = f
    <3> SUFFICES ASSUME NEW f \in W PROVE s.leafOf[f] \in L \ B /\ s.frames[s.leafOf[f]] = f
      OBVIOUS
    <3>1. s.leafOf[f] \in DOMAIN s.frames /\ s.frames[s.leafOf[f]] = f
      BY <1>1 DEF Frames, Framed
    <3>2. f \notin Clients
      BY <1>1, Names DEF Frames
    <3>. QED BY <1>1, <3>1, <3>2
  <2>2. \A f, g \in W : s.leafOf[f] = s.leafOf[g] => f = g
    BY <2>1
  <2>. QED BY <1>4, <2>1, <2>2, InjectionCount
<1>6. IsFiniteSet(E) /\ Cardinality(E) = 1
  BY <1>1, FS_Singleton
<1>7. IsFiniteSet(W \cup E) /\ Cardinality(W \cup E) <= Cardinality(W) + Cardinality(E)
  BY <1>5, <1>6, UnionCount
<1>8. IsFiniteSet(Builtins) /\ Cardinality(Builtins) = MaxLeaves + 2
  <2>1. PICK n \in Nat : n = MaxLeaves + 2
    BY <1>2
  <2>2. IsFiniteSet(1..n) /\ Cardinality(1..n) = n
    BY FS_Interval
  <2>. QED BY <2>1, <2>2 DEF Builtins
<1>9. F = Builtins \ (W \cup E)
  BY <1>1
<1>10. IsFiniteSet(F) /\ Cardinality(F) \in Nat /\ Cardinality(Builtins) - Cardinality(W \cup E) <= Cardinality(F)
  <2>1. PICK X : X = W \cup E
    OBVIOUS
  <2>2. IsFiniteSet(X) /\ F = Builtins \ X
    BY <1>7, <1>9, <2>1
  <2>3. IsFiniteSet(F) /\ Cardinality(F) \in Nat /\ Cardinality(Builtins) - Cardinality(X) <= Cardinality(F)
    BY <1>8, <2>2, RestCount
  <2>. QED BY <2>1, <2>3
<1>11. Cardinality(W) \in Nat /\ Cardinality(W \cup E) \in Nat
  BY <1>5, <1>7, FS_CardinalityType
<1>12. Cardinality(B) <= Cardinality(F)
  BY ONLY <1>2, <1>3, <1>4, <1>5, <1>6, <1>7, <1>8, <1>10, <1>11
<1>13. F \in SUBSET Nat
  BY <1>9, Names
<1>. QED BY <1>3, <1>10, <1>12, <1>13

\* A client whose leaf is gone was asked to close.
Called(s) == \A l \in DOMAIN s.frames \ Leaves(s) : s.frames[l] \in Clients => s.frames[l] \in s.asked

LEMMA SyncIs ==
  ASSUME NEW s, Shell(s), Tree(s), Frames(s), Matched(s), Called(s), NEW u, u = syncBuiltins(s)
  PROVE  OnlyFrames(s, u) /\ Sound(u) /\ Synced(u)
<1>1. RowsOK(s.spaces)
  BY DEF Tree
<1>2. PICK L, gone, t : /\ L = Leaves(s) /\ gone = Gone(s) /\ t = DropBuiltins(s, gone)
                        /\ gone = {l \in DOMAIN s.frames \ L : s.frames[l] \notin Clients}
  BY DEF Gone
<1>3. /\ OnlyFrames(s, t) /\ Frames(t) /\ t.leafOf = s.leafOf
      /\ DOMAIN t.frames = DOMAIN s.frames \ gone
      /\ \A l \in DOMAIN t.frames : t.frames[l] = s.frames[l]
  <2>1. gone \subseteq DOMAIN s.frames /\ \A l \in gone : s.frames[l] \notin Clients
    BY <1>2
  <2>. QED BY <1>2, <2>1, DropIs
<1>4. Leaves(t) = L /\ WsIdsOf(t) = WsIdsOf(s)
  <2>1. t.spaces = s.spaces
    BY <1>3 DEF OnlyFrames
  <2>2. Leaves(t) = Leaves(s)
    BY <2>1 DEF Leaves
  <2>3. WsIdsOf(t) = WsIdsOf(s)
    BY <2>1 DEF WsIdsOf
  <2>. QED BY <1>2, <2>2, <2>3
<1>5. Tree(t) /\ Shell(t)
  BY <1>2, <1>3, <1>4 DEF Tree, OnlyFrames
<1>6. \A l \in DOMAIN t.frames \ L : t.frames[l] \in Clients
  BY <1>2, <1>3
<1>7. PICK B, F : /\ B = Bare(t, L) /\ F = Free(t)
                  /\ B = {l \in L \ DOMAIN t.frames : isBuiltinLeaf(AppOf(t, l))}
                  /\ F = Builtins \ (t.wins \cup {t.fs})
  BY DEF Bare, Free
<1>8. /\ IsFiniteSet(B) /\ Cardinality(B) \in Nat
      /\ F \in SUBSET Nat /\ IsFiniteSet(F) /\ Cardinality(F) \in Nat /\ Cardinality(B) <= Cardinality(F)
  <2>1. B \subseteq Leaves(t) \ DOMAIN t.frames
    BY <1>4, <1>7
  <2>2. \A l \in DOMAIN t.frames \ Leaves(t) : t.frames[l] \in Clients
    BY <1>4, <1>6
  <2>3. F = Builtins \ (t.wins \cup {t.fs})
    BY <1>7
  <2>4. Tree(t) /\ Frames(t)
    BY <1>3, <1>5
  <2>. QED BY ONLY <2>1, <2>2, <2>3, <2>4, FreeEnough
<1>9. B \in SUBSET Nat /\ B \subseteq LeafIds
  BY <1>1, <1>2, <1>7, LeavesAre, Names
<1>10. PICK r, new : r = [l \in B |-> Ordinal(B, l)] /\ new = NewWins(B, F)
  OBVIOUS
<1>11. DOMAIN new = B /\ \A l \in B : new[l] = KthMin(F, r[l])
  BY <1>10 DEF NewWins
<1>12. (\A l \in B : r[l] \in 1..Cardinality(B)) /\ (\A l, m \in B : r[l] = r[m] => l = m)
  BY <1>8, <1>9, <1>10, RankIs
<1>13. /\ \A i \in 1..Cardinality(B) : KthMin(F, i) \in F
       /\ \A i, j \in 1..Cardinality(B) : KthMin(F, i) = KthMin(F, j) => i = j
  BY <1>8, KthDistinct
<1>14. DOMAIN new = B /\ (\A l \in B : new[l] \in F) /\ (\A l, m \in B : new[l] = new[m] => l = m)
  BY <1>12, <1>11, <1>13
<1>15. u = Open(t, new)
  BY <1>2, <1>7, <1>10 DEF syncBuiltins, SyncIn
<1>18. /\ OnlyFrames(t, u) /\ Frames(u) /\ DOMAIN u.frames = DOMAIN t.frames \cup B
       /\ \A l \in DOMAIN t.frames : u.frames[l] = t.frames[l]
       /\ \A l \in B : u.frames[l] \in Builtins
  <2>1. DOMAIN new \subseteq LeafIds /\ DOMAIN new \cap DOMAIN t.frames = {}
    BY <1>7, <1>9, <1>14
  <2>2. \A l \in DOMAIN new : new[l] \in Builtins \ t.wins
    BY <1>7, <1>14
  <2>3. \A l, m \in DOMAIN new : new[l] = new[m] => l = m
    BY <1>14
  <2>4. /\ OnlyFrames(t, u) /\ Frames(u) /\ DOMAIN u.frames = DOMAIN t.frames \cup DOMAIN new
        /\ \A l \in DOMAIN t.frames : u.frames[l] = t.frames[l]
        /\ \A l \in DOMAIN new : u.frames[l] \in Builtins
    BY <1>3, <1>5, <1>15, <2>1, <2>2, <2>3, OpenIs
  <2>. QED BY <1>14, <2>4
<1>19. OnlyFrames(s, u) /\ Leaves(u) = L /\ WsIdsOf(u) = WsIdsOf(s) /\ Tree(u) /\ Shell(u)
  <2>1. OnlyFrames(s, u)
    BY <1>3, <1>18 DEF OnlyFrames
  <2>2. Leaves(u) = L /\ WsIdsOf(u) = WsIdsOf(s)
    BY <1>2, <2>1 DEF OnlyFrames, Leaves, WsIdsOf
  <2>. QED BY <1>2, <2>1, <2>2 DEF Tree, OnlyFrames
<1>20. /\ \A v \in Tiles(s.spaces) : v.id \in L /\ AppOf(t, v.id) = v.app
       /\ \A l \in B : \E v \in Tiles(s.spaces) : v.id = l /\ v.app # Win
  <2>1. t.spaces = s.spaces /\ RowsOK(t.spaces)
    BY <1>1, <1>3 DEF OnlyFrames
  <2>2. \A v \in Tiles(t.spaces) : v.id \in Leaves(t) /\ AppOf(t, v.id) = v.app
    BY <2>1, AppOfIs
  <2>3. \A l \in Leaves(t) : \E v \in Tiles(t.spaces) : v.id = l
    BY <2>1, LeavesAre
  <2>4. \A l \in B : l \in Leaves(t) /\ AppOf(t, l) # Win
    BY <1>4, <1>7 DEF isBuiltinLeaf
  <2>. QED BY <1>4, <2>1, <2>2, <2>3, <2>4
<1>21. Matched(u)
  <2> SUFFICES ASSUME NEW v \in Tiles(s.spaces)
               PROVE  /\ v.id \in DOMAIN u.frames => (v.app = Win <=> u.frames[v.id] \in Clients)
                      /\ ("swap" \in Ops /\ v.app = Win) => v.id \in DOMAIN u.frames
    BY <1>19 DEF Matched, OnlyFrames
  <2>1. /\ v.id \in DOMAIN s.frames => (v.app = Win <=> s.frames[v.id] \in Clients)
        /\ ("swap" \in Ops /\ v.app = Win) => v.id \in DOMAIN s.frames
        /\ v.id \in L
    BY <1>20 DEF Matched
  <2>2. v.id \notin gone
    BY <1>2, <2>1
  <2>3. CASE v.id \in B
    <3>1. PICK w \in Tiles(s.spaces) : w.id = v.id /\ w.app # Win
      BY <1>20, <2>3
    <3>2. v.app # Win
      BY <1>1, <3>1, TileUnique
    <3>3. u.frames[v.id] \notin Clients
      BY <1>18, <2>3, Names
    <3>. QED BY <3>2, <3>3
  <2>4. CASE v.id \notin B
    BY <1>3, <1>18, <2>1, <2>2, <2>4
  <2>. QED BY <2>3, <2>4
<1>22. Synced(u)
  <2> SUFFICES ASSUME NEW v \in Tiles(s.spaces), v.app # Win PROVE v.id \in DOMAIN u.frames
    BY <1>19 DEF Synced, OnlyFrames
  <2>1. v.id \in L /\ isBuiltinLeaf(AppOf(t, v.id))
    BY <1>20 DEF isBuiltinLeaf
  <2>. QED BY <1>7, <1>18, <2>1
<1>23. Orphaned(u)
  <2> SUFFICES ASSUME NEW l \in DOMAIN u.frames \ L PROVE u.frames[l] \in u.asked \cap Clients
    BY <1>19 DEF Orphaned
  <2>1. l \in DOMAIN t.frames /\ l \notin B
    BY <1>7, <1>18
  <2>2. u.frames[l] = s.frames[l] /\ s.frames[l] \in Clients /\ l \in DOMAIN s.frames \ Leaves(s)
    BY <1>2, <1>3, <1>6, <1>18, <2>1
  <2>. QED BY <1>19, <2>2 DEF Called, OnlyFrames
<1>. QED BY <1>18, <1>19, <1>21, <1>22, <1>23 DEF Sound

-----------------------------------------------------------------------------
(* Reconciliation, and what is forgotten after a handler.                  *)

LEMMA ReapIs ==
  ASSUME NEW s, Shell(s), NEW t, t = reapOrphanFrames(s)
  PROVE  /\ Shell(t) /\ t.spaces = s.spaces /\ t.cur = s.cur /\ t.frames = s.frames /\ t.leafOf = s.leafOf
         /\ t.wsOf = s.wsOf /\ t.managed = s.managed /\ t.floats = s.floats /\ t.wins = s.wins /\ t.fs = s.fs
         /\ Called(t) /\ (Tree(s) => Tree(t)) /\ (Frames(s) => Frames(t)) /\ (Matched(s) => Matched(t))
<1>1. PICK A : A = s.asked \cup ({s.frames[l] : l \in DOMAIN s.frames \ Leaves(s)} \cap Clients)
  OBVIOUS
<1>2. t = [s EXCEPT !.asked = A]
  BY <1>1 DEF reapOrphanFrames
<1>3. /\ Shell(t) /\ t.spaces = s.spaces /\ t.cur = s.cur /\ t.frames = s.frames /\ t.leafOf = s.leafOf
      /\ t.wsOf = s.wsOf /\ t.managed = s.managed /\ t.floats = s.floats /\ t.wins = s.wins /\ t.fs = s.fs
      /\ t.asked = A
  BY <1>2 DEF Shell, Fields
<1>4. Leaves(t) = Leaves(s) /\ WsIdsOf(t) = WsIdsOf(s) /\ Framed(t) = Framed(s)
  BY <1>3 DEF Leaves, WsIdsOf, Framed
<1>5. Called(t)
  BY <1>1, <1>3, <1>4 DEF Called
<1>6. (Tree(s) => Tree(t)) /\ (Frames(s) => Frames(t)) /\ (Matched(s) => Matched(t))
  <2>1. Tree(s) => Tree(t)
    BY <1>3, <1>4 DEF Tree
  <2>2. Frames(s) => Frames(t)
    BY <1>3, <1>4 DEF Frames
  <2>3. Matched(s) => Matched(t)
    BY <1>3 DEF Matched
  <2>. QED BY <2>1, <2>2, <2>3
<1>. QED BY <1>3, <1>5, <1>6

LEMMA ScreenIs ==
  ASSUME NEW s, Shell(s), Tree(s), Frames(s), Matched(s), NEW reap \in BOOLEAN, reap \/ Called(s),
         NEW u, u = Screen(s, reap)
  PROVE  /\ Sound(u) /\ Synced(u) /\ u.spaces = s.spaces /\ u.managed = s.managed /\ u.floats = s.floats
         /\ u.wsOf = s.wsOf
<1>1. PICK t, v : t = (IF reap THEN reapOrphanFrames(s) ELSE s) /\ v = syncBuiltins(t)
  OBVIOUS
<1>2. /\ Shell(t) /\ Tree(t) /\ Frames(t) /\ Matched(t) /\ Called(t)
      /\ t.spaces = s.spaces /\ t.managed = s.managed /\ t.floats = s.floats /\ t.wsOf = s.wsOf
  <2>1. CASE reap
    BY <1>1, <2>1, ReapIs
  <2>2. CASE ~reap
    BY <1>1, <2>2
  <2>. QED BY <2>1, <2>2
<1>3. OnlyFrames(t, v) /\ Sound(v) /\ Synced(v)
  BY <1>1, <1>2, SyncIs
<1>4. SameBody(v, relayout(v)) /\ u = relayout(v)
  BY <1>1, <1>3, relayoutSame DEF Screen, Sound
<1>. QED BY <1>2, <1>3, <1>4, SoundBody DEF OnlyFrames, SameBody, SameMaps

-----------------------------------------------------------------------------
(* Where the focus lands after a switch.                                   *)

Lands(s) == FocusHere(s) /\ s.fs = None

LEMMA FocusLands ==
  ASSUME NEW s, Shell(s), s.fs = None, None \notin s.floats, NEW leaf \in CurrentLeaves(s), NEW u, u = focus(s, leaf)
  PROVE  Lands(u)
<1>1. PICK t : t = FocusTile(s, leaf)
  OBVIOUS
<1>2. SameBody(s, t) /\ t.target = Target("tile", leaf, None)
  BY <1>1, RegistersSame DEF FocusTile, Shell, Fields
<1>3. u = t \/ u = Give(t, s.frames[leaf])
  BY <1>1 DEF focus
<1>4. SameBody(t, u) /\ u.target = t.target
  <2>1. Shell(t)
    BY <1>2 DEF SameBody, SameMaps
  <2>2. SameBody(t, t) /\ SameBody(t, Give(t, s.frames[leaf]))
    BY <2>1, SameSelf, GiveSame
  <2>3. Give(t, s.frames[leaf]).target = t.target
    BY <2>1 DEF Give, Shell, Fields
  <2>. QED BY <1>3, <2>2, <2>3
<1>5. u.fs = None /\ u.target = Target("tile", leaf, None) /\ u.floats = s.floats /\ u.spaces = s.spaces /\ u.cur = s.cur
  BY <1>2, <1>4 DEF SameBody, SameMaps
<1>6. FocusedLeaf(u) = leaf /\ FocusedFloat(u) = None
  BY <1>5 DEF FocusedLeaf, FocusedFloat, Current, Target
<1>7. CurrentLeaves(u) = CurrentLeaves(s)
  BY <1>5 DEF CurrentLeaves, CurrentRow, WsAt
<1>. QED BY <1>5, <1>6, <1>7 DEF Lands, FocusHere

\* A focused float is one of the current workspace.
FloatHere(s) == FocusedFloat(s) \in s.floats => s.wsOf[FocusedFloat(s)] = s.cur

LEMMA FirstLands ==
  ASSUME NEW s, Sound(s), s.fs = None, FloatHere(s), NEW u, u = FocusFirst(s)
  PROVE  Lands(u)
<1>1. CASE FramedLeaves(s) = {}
  BY <1>1 DEF FocusFirst, Lands, FocusHere, FloatHere
<1>2. CASE FramedLeaves(s) # {}
  <2>1. PICK row, k : row = CurrentRow(s) /\ k = Min(FramedLeaves(s))
    OBVIOUS
  <2>2. Row(row)
    BY <2>1, CurrentIs DEF Sound, Tree
  <2>3. FramedLeaves(s) \in SUBSET Nat
    BY <2>1, <2>2, RowFacts DEF FramedLeaves, Row
  <2>4. k \in FramedLeaves(s)
    BY <1>2, <2>1, <2>3, LeastNat
  <2>5. row[k].id \in CurrentLeaves(s)
    BY <2>1, <2>4 DEF FramedLeaves, CurrentLeaves, RowIds
  <2>6. u = focus(s, row[k].id)
    BY <1>2, <2>1 DEF FocusFirst
  <2>7. None \notin s.floats /\ Shell(s)
    BY Names DEF Sound, Frames
  <2>. QED BY <2>5, <2>6, <2>7, FocusLands
<1>. QED BY <1>1, <1>2

LEMMA RefocusLands ==
  ASSUME NEW s, Sound(s), s.fs = None, NEW u, u = refocusCurrent(s)
  PROVE  Lands(u)
<1>1. PICK pf, c : pf = FocusedFloat(s) /\ c = ClearTarget(s)
  OBVIOUS
<1>2. SameBody(s, c) /\ c.target = NoTarget
  BY <1>1, RegistersSame DEF Sound, ClearTarget, Shell, Fields
<1>3. Sound(c) /\ c.fs = None
  BY <1>2, SoundBody DEF SameBody
<1>4. FocusedLeaf(c) = NoLeaf /\ FocusedFloat(c) = None
  BY <1>2, <1>3 DEF FocusedLeaf, FocusedFloat, Current, NoTarget, Target
<1>5. Refocus(c) = c
  <2>1. NoLeaf \notin LeafIds
    BY Names DEF NoLeaf, LeafIds
  <2>. QED BY <1>3, <1>4, <2>1 DEF Refocus, Sound, Frames
<1>6. FloatHere(c)
  <2>1. None \notin c.floats
    BY <1>3, Names DEF Sound, Frames
  <2>. QED BY <1>4, <2>1 DEF FloatHere
<1>7. PICK t : t = IF pf \in s.floats /\ s.wsOf[pf] # s.cur THEN c ELSE s
  OBVIOUS
<1>8. Sound(t) /\ t.fs = None /\ FloatHere(t)
  BY <1>1, <1>3, <1>6, <1>7 DEF FloatHere
<1>9. u = IF FocusedLeaf(t) \in CurrentLeaves(t) THEN t ELSE FocusFirst(t)
  BY <1>1, <1>5, <1>7 DEF refocusCurrent
<1>10. CASE FocusedLeaf(t) \in CurrentLeaves(t)
  BY <1>8, <1>9, <1>10 DEF Lands, FocusHere, FloatHere
<1>11. CASE FocusedLeaf(t) \notin CurrentLeaves(t)
  BY <1>8, <1>9, <1>11, FirstLands
<1>. QED BY <1>10, <1>11

LEMMA ReconcileIs ==
  ASSUME NEW s, Shell(s), Tree(s), Frames(s), Matched(s), NEW reap \in BOOLEAN, reap \/ Called(s),
         NEW switch \in BOOLEAN, NEW u, u = Reconcile(s, reap, switch)
  PROVE  /\ Sound(u) /\ Synced(u) /\ u.spaces = s.spaces /\ u.managed = s.managed /\ u.floats = s.floats
         /\ u.wsOf = s.wsOf /\ (switch => Lands(u))
<1>1. PICK v : v = Screen(s, reap)
  OBVIOUS
<1>2. /\ Sound(v) /\ Synced(v) /\ v.spaces = s.spaces /\ v.managed = s.managed /\ v.floats = s.floats
      /\ v.wsOf = s.wsOf
  BY <1>1, ScreenIs
<1>3. CASE ~switch
  BY <1>1, <1>2, <1>3 DEF Reconcile
<1>4. CASE switch
  <2>1. PICK w : w = exitFullscreen(v) /\ u = refocusCurrent(w)
    BY <1>1, <1>4 DEF Reconcile
  <2>2. SameMaps(v, w) /\ w.fs = None
    BY <1>2, <2>1, ExitSame DEF Sound
  <2>3. SameBody(w, u)
    BY <2>1, <2>2, refocusCurrentSame DEF SameMaps
  <2>4. Sound(w) /\ Synced(w)
    BY <1>2, <2>2, SoundSame, Names
  <2>5. Sound(u) /\ Synced(u)
    BY <2>3, <2>4, SoundBody
  <2>6. Lands(u)
    BY <2>1, <2>2, <2>4, RefocusLands
  <2>. QED BY <1>2, <2>2, <2>3, <2>5, <2>6 DEF SameMaps, SameBody
<1>. QED BY <1>3, <1>4

\* After a handler only what is held is remembered.
LEMMA CollectIs ==
  ASSUME NEW s, Sound(s), Synced(s), NEW t, t = Collect(s)
  PROVE  Sound(t) /\ Synced(t) /\ Held(t)
<1>1. PICK K : K = [f \in DOMAIN s.leafOf \cap (Framed(s) \cup {s.fs}) |-> s.leafOf[f]]
  OBVIOUS
<1>2. t = [s EXCEPT !.leafOf = K]
  <2>1. (s.managed \ s.floats) \cup s.wins \cup {s.fs} = Framed(s) \cup {s.fs}
    BY DEF Framed
  <2>. QED BY <1>1, <2>1 DEF Collect
<1>3. /\ Shell(t) /\ t.spaces = s.spaces /\ t.cur = s.cur /\ t.frames = s.frames /\ t.leafOf = K
      /\ t.wsOf = s.wsOf /\ t.managed = s.managed /\ t.floats = s.floats /\ t.wins = s.wins /\ t.fs = s.fs
      /\ t.asked = s.asked
  BY <1>2 DEF Shell, Fields, Sound
<1>4. Leaves(t) = Leaves(s) /\ WsIdsOf(t) = WsIdsOf(s) /\ Framed(t) = Framed(s)
  BY <1>3 DEF Leaves, WsIdsOf, Framed
<1>5. /\ DOMAIN K = DOMAIN s.leafOf \cap (Framed(s) \cup {s.fs}) /\ K = [f \in DOMAIN K |-> K[f]]
      /\ \A f \in DOMAIN K : K[f] = s.leafOf[f]
  BY <1>1
<1>6. Frames(t)
  <2>1. Frames(s)
    BY DEF Sound
  <2>2. K \in [DOMAIN K -> LeafIds]
    BY <1>5, <2>1 DEF Frames
  <2>3. \A l \in DOMAIN s.frames :
          s.frames[l] \in Framed(s) /\ s.frames[l] \in DOMAIN K /\ K[s.frames[l]] = l
    BY <1>5, <2>1 DEF Frames
  <2>4. \A f \in Framed(s) : f \in DOMAIN K /\ K[f] \in DOMAIN s.frames /\ s.frames[K[f]] = f
    BY <1>5, <2>1 DEF Frames
  <2>. QED BY <1>3, <1>4, <2>1, <2>2, <2>3, <2>4 DEF Frames
<1>7. Tree(t) /\ Orphaned(t) /\ Matched(t) /\ Synced(t)
  <2>1. Tree(t)
    BY <1>3, <1>4 DEF Tree, Sound
  <2>2. Orphaned(t)
    BY <1>3, <1>4 DEF Orphaned, Sound
  <2>3. Matched(t) /\ Synced(t)
    BY <1>3 DEF Matched, Synced, Sound
  <2>. QED BY <2>1, <2>2, <2>3
<1>8. Held(t)
  BY <1>3, <1>4, <1>5 DEF Held
<1>. QED BY <1>3, <1>6, <1>7, <1>8 DEF Sound

LEMMA BecomeIs ==
  ASSUME NEW s, Sound(s), Synced(s), Become(s)
  PROVE  IInv'
<1>1. Sound(Collect(s)) /\ Synced(Collect(s)) /\ Held(Collect(s))
  BY CollectIs
<1>2. wm' = Collect(s)
  BY DEF Become
<1>. QED BY <1>1, <1>2 DEF IInv

-----------------------------------------------------------------------------
(* Operations that callers may send, alone and in batches.                 *)

LEMMA OpShape ==
  ASSUME NEW s, NEW o \in OpsFor(s)
  PROVE  /\ o.op \in Ops
         /\ o.op \in {"split-leaf", "close-leaf", "set-leaf-app", "swap-leaves", "move-split", "move-leaf",
                      "add-workspace", "remove-workspace", "clone-workspace", "switch-workspace"}
         /\ o.op \in {"split-leaf", "add-workspace"} => o.app = Launcher
<1>1. o.op \in Ops
  BY DEF OpsFor
<1>2. \/ o \in {Op("split-leaf", l, NoLeaf, NoWs, Launcher) : l \in Leaves(s)}
      \/ o \in {CloseLeaf(l) : l \in Leaves(s)}
      \/ o \in {SetApp(l, app) : l \in Leaves(s), app \in {Launcher, Builtin}}
      \/ o \in {Op(op, a, b, NoWs, NoApp) : op \in {"swap-leaves", "move-split"}, a \in Leaves(s), b \in Leaves(s)}
      \/ o \in {Op("move-leaf", l, NoLeaf, ws, NoApp) : l \in Leaves(s), ws \in WsIdsOf(s)}
      \/ o \in {Op(op, NoLeaf, NoLeaf, ws, NoApp) : op \in {"remove-workspace", "clone-workspace", "switch-workspace"},
                                                ws \in WsIdsOf(s)}
      \/ o = Op("add-workspace", NoLeaf, NoLeaf, NoWs, Launcher)
  BY DEF OpsFor
<1>3. CASE o \in {Op("split-leaf", l, NoLeaf, NoWs, Launcher) : l \in Leaves(s)}
  BY <1>1, <1>3 DEF Op
<1>4. CASE o \in {CloseLeaf(l) : l \in Leaves(s)}
  BY <1>1, <1>4 DEF CloseLeaf, Op
<1>5. CASE o \in {SetApp(l, app) : l \in Leaves(s), app \in {Launcher, Builtin}}
  BY <1>1, <1>5 DEF SetApp, Op
<1>6. CASE o \in {Op(op, a, b, NoWs, NoApp) : op \in {"swap-leaves", "move-split"}, a \in Leaves(s), b \in Leaves(s)}
  BY <1>1, <1>6 DEF Op
<1>7. CASE o \in {Op("move-leaf", l, NoLeaf, ws, NoApp) : l \in Leaves(s), ws \in WsIdsOf(s)}
  BY <1>1, <1>7 DEF Op
<1>8. CASE o \in {Op(op, NoLeaf, NoLeaf, ws, NoApp) : op \in {"remove-workspace", "clone-workspace", "switch-workspace"},
                                                ws \in WsIdsOf(s)}
  BY <1>1, <1>8 DEF Op
<1>9. CASE o = Op("add-workspace", NoLeaf, NoLeaf, NoWs, Launcher)
  BY <1>1, <1>9 DEF Op
<1>. QED BY <1>2, <1>3, <1>4, <1>5, <1>6, <1>7, <1>8, <1>9

\* Tiles that are new have a new leaf and, if frames are swapped, no client.
LEMMA GrownMatched ==
  ASSUME NEW s, Matched(s), NEW t, OnlyTree(s, t),
         \A u \in Tiles(t.spaces) :
           u \in Tiles(s.spaces) \/ (u.id \notin DOMAIN s.frames /\ ~("swap" \in Ops /\ u.app = Win))
  PROVE  Matched(t)
BY DEF Matched, OnlyTree

LEMMA CoreIs ==
  ASSUME SaneOps, NEW s, Shell(s), Tree(s), Frames(s), Matched(s), Roomy(s),
         NEW o \in OpsFor(s), CanApply(s, o), Fits(s, o), NEW t, t = Core(s, o)
  PROVE  /\ OnlyTree(s, t) /\ Shell(t) /\ Tree(t) /\ Frames(t) /\ Matched(t) /\ Roomy(t)
         /\ Reaps(o) \in BOOLEAN /\ Switches(o) \in BOOLEAN
         /\ Reaps(o) \/ Leaves(s) \subseteq Leaves(t)
<1>1. /\ o.op \in {"split-leaf", "close-leaf", "move-split", "move-leaf",
                   "add-workspace", "remove-workspace", "clone-workspace", "switch-workspace"}
      /\ o.op \in {"split-leaf", "add-workspace"} => o.app = Launcher
      /\ o.op = "clone-workspace" => "swap" \notin Ops
  BY OpShape DEF SaneOps
<1>2. Launcher \in AppNames /\ Launcher # Win
  BY DEF AppNames, Launcher, Win
<1>3. DOMAIN s.frames \subseteq Mentioned(s) /\ Tile(FreshLeaf(s), Launcher).id = FreshLeaf(s)
      /\ Tile(FreshLeaf(s), Launcher).app = Launcher
  BY DEF Mentioned, Tile
<1>4. /\ OnlyTree(s, t) /\ Tree(t)
      /\ \A u \in Tiles(t.spaces) :
           u \in Tiles(s.spaces) \/ (u.id \notin DOMAIN s.frames /\ ~("swap" \in Ops /\ u.app = Win))
      /\ Reaps(o) \/ Tiles(s.spaces) \subseteq Tiles(t.spaces)
  <2>1. CASE o.op = "split-leaf"
    <3>1. /\ OnlyTree(s, t) /\ Tree(t) /\ FreshLeaf(s) \notin Mentioned(s)
          /\ Tiles(t.spaces) = Tiles(s.spaces) \cup {Tile(FreshLeaf(s), Launcher)}
      BY <1>1, <1>2, <2>1, CoreSplit
    <3>. QED BY <1>2, <1>3, <3>1
  <2>2. CASE o.op = "close-leaf"
    <3>1. OnlyTree(s, t) /\ Tree(t) /\ Tiles(t.spaces) = {u \in Tiles(s.spaces) : u.id # o.node}
      BY <2>2, CoreClose
    <3>. QED BY <2>2, <3>1 DEF Reaps
  <2>3. CASE o.op = "move-split"
    <3>1. OnlyTree(s, t) /\ Tree(t) /\ Tiles(t.spaces) = Tiles(s.spaces)
      BY <2>3, CoreMoveSplit
    <3>. QED BY <3>1
  <2>4. CASE o.op = "move-leaf"
    <3>1. /\ OnlyTree(s, t) /\ Tree(t) /\ FreshLeaf(s) \notin Mentioned(s)
          /\ Tiles(s.spaces) \subseteq Tiles(t.spaces)
          /\ Tiles(t.spaces) \subseteq Tiles(s.spaces) \cup {Tile(FreshLeaf(s), Launcher)}
      BY <2>4, CoreMoveLeaf
    <3>. QED BY <1>2, <1>3, <3>1
  <2>5. CASE o.op = "add-workspace"
    <3>1. /\ OnlyTree(s, t) /\ Tree(t) /\ FreshLeaf(s) \notin Mentioned(s)
          /\ Tiles(t.spaces) = Tiles(s.spaces) \cup {Tile(FreshLeaf(s), Launcher)}
      BY <1>1, <1>2, <2>5, CoreAdd
    <3>. QED BY <1>2, <1>3, <3>1
  <2>6. CASE o.op = "remove-workspace"
    <3>1. OnlyTree(s, t) /\ Tree(t) /\ Tiles(t.spaces) \subseteq Tiles(s.spaces)
      BY <2>6, CoreRemove
    <3>. QED BY <2>6, <3>1 DEF Reaps
  <2>7. CASE o.op = "clone-workspace"
    <3>1. /\ OnlyTree(s, t) /\ Tree(t) /\ Tiles(s.spaces) \subseteq Tiles(t.spaces)
          /\ \A u \in Tiles(t.spaces) : u \in Tiles(s.spaces) \/ u.id \notin Mentioned(s)
      BY <2>7, CoreClone
    <3>. QED BY <1>1, <1>3, <2>7, <3>1
  <2>8. CASE o.op = "switch-workspace"
    <3>1. OnlyTree(s, t) /\ Tree(t) /\ t.spaces = s.spaces
      BY <2>8, CoreSwitch
    <3>. QED BY <3>1
  <2>. QED BY <1>1, <2>1, <2>2, <2>3, <2>4, <2>5, <2>6, <2>7, <2>8
<1>5. Frames(t) /\ Roomy(t) /\ Shell(t)
  BY <1>4, OnlyTreeIs DEF OnlyTree
<1>6. Matched(t)
  BY <1>4, GrownMatched
<1>7. Reaps(o) \/ Leaves(s) \subseteq Leaves(t)
  <2>1. Leaves(t) = {u.id : u \in Tiles(t.spaces)} /\ Leaves(s) = {u.id : u \in Tiles(s.spaces)}
    BY <1>4, LeavesAre DEF Tree
  <2>. QED BY <1>4, <2>1
<1>8. Reaps(o) \in BOOLEAN /\ Switches(o) \in BOOLEAN
  BY DEF Reaps, Switches
<1>. QED BY <1>4, <1>5, <1>6, <1>7, <1>8

\* No leaf went, so that none lost its client.
LEMMA StillCalled ==
  ASSUME NEW s, Called(s), NEW t, OnlyTree(s, t), Leaves(s) \subseteq Leaves(t)
  PROVE  Called(t)
BY DEF Called, OnlyTree

LEMMA SoundCalled ==
  ASSUME NEW s, Sound(s)
  PROVE  Called(s)
BY DEF Sound, Orphaned, Called

LEMMA ApplyIs ==
  ASSUME SaneOps, NEW s, Sound(s), Held(s), NEW o \in OpsFor(s), CanApply(s, o), Fits(s, o)
  PROVE  Sound(Apply(s, o)) /\ Synced(Apply(s, o)) /\ (Switches(o) => Lands(Apply(s, o)))
<1>1. PICK t : t = Core(s, o)
  OBVIOUS
<1>2. /\ OnlyTree(s, t) /\ Shell(t) /\ Tree(t) /\ Frames(t) /\ Matched(t)
      /\ Reaps(o) \in BOOLEAN /\ Switches(o) \in BOOLEAN /\ (Reaps(o) \/ Leaves(s) \subseteq Leaves(t))
  BY <1>1, RoomyIs, CoreIs DEF Sound
<1>3. Reaps(o) \/ Called(t)
  BY <1>2, SoundCalled, StillCalled
<1>4. Apply(s, o) = Reconcile(t, Reaps(o), Switches(o))
  BY <1>1 DEF Apply
<1>. QED BY <1>2, <1>3, <1>4, ReconcileIs

LEMMA ApplyBatchIs ==
  ASSUME SaneOps, NEW s, Sound(s), Held(s), NEW o1 \in OpsFor(s), CanApply(s, o1), Fits(s, o1),
         NEW o2 \in OpsFor(Core(s, o1)), CanApply(Core(s, o1), o2) => Fits(Core(s, o1), o2)
  PROVE  /\ Sound(ApplyBatch(s, o1, o2)) /\ Synced(ApplyBatch(s, o1, o2))
         /\ Switches(o1) \/ (CanApply(Core(s, o1), o2) /\ Switches(o2)) => Lands(ApplyBatch(s, o1, o2))
<1>1. PICK t : t = Core(s, o1)
  OBVIOUS
<1>2. /\ OnlyTree(s, t) /\ Shell(t) /\ Tree(t) /\ Frames(t) /\ Matched(t) /\ Roomy(t)
      /\ Reaps(o1) \in BOOLEAN /\ Switches(o1) \in BOOLEAN /\ (Reaps(o1) \/ Leaves(s) \subseteq Leaves(t))
  BY <1>1, RoomyIs, CoreIs DEF Sound
<1>3. Reaps(o1) \/ Called(t)
  BY <1>2, SoundCalled, StillCalled
<1>4. CASE ~CanApply(t, o2)
  <2>1. ApplyBatch(s, o1, o2) = Reconcile(t, Reaps(o1), Switches(o1))
    BY <1>1, <1>4 DEF ApplyBatch
  <2>. QED BY <1>1, <1>2, <1>3, <1>4, <2>1, ReconcileIs
<1>5. CASE CanApply(t, o2)
  <2>1. PICK u : u = Core(t, o2)
    OBVIOUS
  <2>2. /\ OnlyTree(t, u) /\ Shell(u) /\ Tree(u) /\ Frames(u) /\ Matched(u)
        /\ Reaps(o2) \in BOOLEAN /\ Switches(o2) \in BOOLEAN /\ (Reaps(o2) \/ Leaves(t) \subseteq Leaves(u))
    BY <1>1, <1>2, <1>5, <2>1, CoreIs
  <2>3. (Reaps(o1) \/ Reaps(o2)) \/ Called(u)
    BY <1>3, <2>2, StillCalled
  <2>4. PICK reap, switch : reap = (Reaps(o1) \/ Reaps(o2)) /\ switch = (Switches(o1) \/ Switches(o2))
    OBVIOUS
  <2>5. reap \in BOOLEAN /\ switch \in BOOLEAN /\ (reap \/ Called(u))
    BY <1>2, <2>2, <2>3, <2>4
  <2>6. ApplyBatch(s, o1, o2) = Reconcile(u, reap, switch)
    BY <1>1, <1>5, <2>1, <2>4 DEF ApplyBatch
  <2>. QED BY <1>2, <2>2, <2>4, <2>5, <2>6, ReconcileIs
<1>. QED BY <1>4, <1>5

-----------------------------------------------------------------------------
(* A leaf is vacated: its tile goes or shows the launcher.                 *)

\* Tiles other than that of a leaf match their frames.
MatchedBut(s, leaf) ==
  \A t \in Tiles(s.spaces) :
    t.id # leaf => /\ t.id \in DOMAIN s.frames => (t.app = Win <=> s.frames[t.id] \in Clients)
                   /\ "swap" \in Ops /\ t.app = Win => t.id \in DOMAIN s.frames

LEMMA AppsAre ==
  /\ Launcher \in AppNames /\ Win \in AppNames /\ Builtin \in AppNames
  /\ Launcher # Win /\ Builtin # Win
BY DEF AppNames, Launcher, Win, Builtin

LEMMA OpsAre ==
  ASSUME NEW leaf, NEW app
  PROVE  /\ SetApp(leaf, app).op = "set-leaf-app" /\ SetApp(leaf, app).node = leaf /\ SetApp(leaf, app).app = app
         /\ CloseLeaf(leaf).op = "close-leaf" /\ CloseLeaf(leaf).node = leaf
         /\ ~Reaps(SetApp(leaf, app)) /\ ~Switches(SetApp(leaf, app))
         /\ Reaps(CloseLeaf(leaf)) /\ ~Switches(CloseLeaf(leaf))
         /\ Reaps(SetApp(leaf, app)) \in BOOLEAN /\ Switches(SetApp(leaf, app)) \in BOOLEAN
         /\ Reaps(CloseLeaf(leaf)) \in BOOLEAN /\ Switches(CloseLeaf(leaf)) \in BOOLEAN
BY DEF SetApp, CloseLeaf, Op, Reaps, Switches

LEMMA VacateIs ==
  ASSUME NEW s, Shell(s), Tree(s), NEW leaf \in Leaves(s), NEW o, o = VacateOp(s, leaf), NEW t, t = Core(s, o)
  PROVE  /\ CanApply(s, o) /\ Reaps(o) \in BOOLEAN /\ Switches(o) \in BOOLEAN /\ ~Switches(o)
         /\ OnlyTree(s, t) /\ Tree(t) /\ t.cur = s.cur
         /\ {u \in Tiles(s.spaces) : u.id # leaf} \subseteq Tiles(t.spaces)
         /\ Tiles(t.spaces) \subseteq {u \in Tiles(s.spaces) : u.id # leaf} \cup {Tile(leaf, Launcher)}
<1>1. CASE Len(RowOf(s, leaf)) = 1
  <2>1. o = SetApp(leaf, Launcher)
    BY <1>1 DEF VacateOp
  <2>2. /\ o.op = "set-leaf-app" /\ o.node = leaf /\ o.app = Launcher
        /\ Reaps(o) \in BOOLEAN /\ Switches(o) \in BOOLEAN /\ ~Switches(o)
    BY <2>1, OpsAre
  <2>3. CanApply(s, o)
    BY <2>2 DEF CanApply
  <2>4. /\ OnlyTree(s, t) /\ Tree(t) /\ t.cur = s.cur
        /\ Tiles(t.spaces) = {u \in Tiles(s.spaces) : u.id # o.node} \cup {Tile(o.node, o.app)}
    BY <2>2, <2>3, AppsAre, CoreSet
  <2>. QED BY <2>2, <2>3, <2>4
<1>2. CASE Len(RowOf(s, leaf)) # 1
  <2>1. o = CloseLeaf(leaf)
    BY <1>2 DEF VacateOp
  <2>2. /\ o.op = "close-leaf" /\ o.node = leaf
        /\ Reaps(o) \in BOOLEAN /\ Switches(o) \in BOOLEAN /\ ~Switches(o)
    BY <2>1, OpsAre
  <2>3. Len(RowOf(s, leaf)) > 1
    <3>1. RowsOK(s.spaces)
      BY DEF Tree
    <3>2. PICK row : row = RowOf(s, leaf)
      OBVIOUS
    <3>3. Row(row)
      BY <3>1, <3>2, WsOfIs, RowsFacts DEF RowOf
    <3>4. Len(row) \in Nat /\ Len(row) > 0
      BY <3>3, RowFacts DEF Row
    <3>5. PICK n : n = Len(RowOf(s, leaf))
      OBVIOUS
    <3>6. n \in Nat /\ n > 0 /\ n # 1
      BY <1>2, <3>2, <3>4, <3>5
    <3>. QED BY <3>5, <3>6
  <2>4. CanApply(s, o)
    BY <2>2, <2>3 DEF CanApply
  <2>5. /\ OnlyTree(s, t) /\ Tree(t) /\ t.cur = s.cur
        /\ Tiles(t.spaces) = {u \in Tiles(s.spaces) : u.id # o.node}
    BY <2>2, <2>4, CoreClose
  <2>. QED BY <2>2, <2>4, <2>5
<1>. QED BY <1>1, <1>2

LEMMA VacatedIs ==
  ASSUME NEW s, Shell(s), Tree(s), Frames(s), NEW leaf \in Leaves(s), MatchedBut(s, leaf), Called(s),
         leaf \in DOMAIN s.frames => s.frames[leaf] \notin Clients,
         NEW o, o = VacateOp(s, leaf), NEW t, t = Core(s, o)
  PROVE  /\ CanApply(s, o) /\ Reaps(o) \in BOOLEAN /\ Switches(o) \in BOOLEAN /\ ~Switches(o)
         /\ OnlyTree(s, t) /\ Shell(t) /\ Tree(t) /\ Frames(t) /\ Matched(t) /\ Called(t)
<1>1. /\ CanApply(s, o) /\ Reaps(o) \in BOOLEAN /\ Switches(o) \in BOOLEAN /\ ~Switches(o)
      /\ OnlyTree(s, t) /\ Tree(t)
      /\ {u \in Tiles(s.spaces) : u.id # leaf} \subseteq Tiles(t.spaces)
      /\ Tiles(t.spaces) \subseteq {u \in Tiles(s.spaces) : u.id # leaf} \cup {Tile(leaf, Launcher)}
  BY VacateIs
<1>2. Shell(t) /\ Frames(t)
  BY <1>1, OnlyTreeIs DEF OnlyTree
<1>3. Matched(t)
  <2> SUFFICES ASSUME NEW u \in Tiles(t.spaces)
               PROVE  /\ u.id \in DOMAIN s.frames => (u.app = Win <=> s.frames[u.id] \in Clients)
                      /\ ("swap" \in Ops /\ u.app = Win) => u.id \in DOMAIN s.frames
    BY <1>1 DEF Matched, OnlyTree
  <2>1. CASE u \in Tiles(s.spaces) /\ u.id # leaf
    BY <2>1 DEF MatchedBut
  <2>2. CASE u = Tile(leaf, Launcher)
    <3>1. u.id = leaf /\ u.app # Win
      BY <2>2, AppsAre DEF Tile
    <3>. QED BY <3>1
  <2>. QED BY <1>1, <2>1, <2>2
<1>4. Called(t)
  <2> SUFFICES ASSUME NEW l \in DOMAIN s.frames \ Leaves(t), s.frames[l] \in Clients PROVE s.frames[l] \in s.asked
    BY <1>1 DEF Called, OnlyTree
  <2>1. l # leaf
    OBVIOUS
  <2>2. Leaves(t) = {u.id : u \in Tiles(t.spaces)} /\ Leaves(s) = {u.id : u \in Tiles(s.spaces)}
    BY <1>1, LeavesAre DEF Tree
  <2>3. l \notin Leaves(s)
    BY <1>1, <2>1, <2>2
  <2>. QED BY <2>3 DEF Called
<1>. QED BY <1>1, <1>2, <1>3, <1>4

-----------------------------------------------------------------------------
(* A leaf for a new tile.                                                  *)

LEMMA EmptyIs ==
  ASSUME NEW s, Tree(s), Empty(s) # {}, NEW l, l = FirstEmpty(s)
  PROVE  Tile(l, Launcher) \in Tiles(s.spaces)
<1>1. PICK row, k : row = CurrentRow(s) /\ k = Min(Empty(s))
  OBVIOUS
<1>2. Row(row) /\ RowTiles(row) \subseteq Tiles(s.spaces)
  BY <1>1, CurrentIs DEF Tree
<1>3. Empty(s) \in SUBSET Nat
  BY <1>1, <1>2, RowFacts DEF Empty, Row
<1>4. k \in Empty(s)
  BY <1>1, <1>3, LeastNat
<1>5. k \in DOMAIN row /\ row[k].app = Launcher /\ l = row[k].id
  BY <1>1, <1>4 DEF Empty, FirstEmpty
<1>6. row[k] \in TileRecs
  BY <1>2, <1>5 DEF Row
<1>7. row[k] = Tile(l, Launcher)
  BY <1>5, <1>6 DEF TileRecs, Tile
<1>. QED BY <1>2, <1>5, <1>7 DEF RowTiles

LEMMA SplitIs ==
  ASSUME NEW s, Tree(s), NEW o, o = SplitOp(s)
  PROVE  o.op = "split-leaf" /\ o.app = Launcher /\ CanApply(s, o)
<1>1. o.op = "split-leaf" /\ o.app = Launcher /\ o.node = SplitAt(s)
  BY DEF SplitOp, Op
<1>2. Row(CurrentRow(s)) /\ CurrentLeaves(s) \subseteq Leaves(s)
  BY CurrentIs DEF Tree
<1>3. SplitAt(s) \in CurrentLeaves(s)
  <2>1. 1 \in DOMAIN CurrentRow(s)
    BY <1>2, RowFacts DEF Row
  <2>. QED BY <2>1 DEF SplitAt, CurrentLeaves, RowIds
<1>. QED BY <1>1, <1>2, <1>3 DEF CanApply

LEMMA PlacedIs ==
  ASSUME NEW s, Sound(s), Roomy(s), CanPlace(s), NEW l, l = PlacementLeaf(s), NEW t, t = Placed(s)
  PROVE  /\ Shell(t) /\ Tree(t) /\ Frames(t) /\ Matched(t) /\ Orphaned(t)
         /\ l \in Leaves(t) /\ l \in LeafIds /\ l \notin DOMAIN t.frames
         /\ t.managed = s.managed /\ t.floats = s.floats /\ t.wsOf = s.wsOf /\ t.fs = s.fs /\ t.cur = s.cur
         /\ Synced(s) => \A u \in Tiles(t.spaces) : u.id # l /\ u.app # Win => u.id \in DOMAIN t.frames
<1>1. Shell(s) /\ Tree(s) /\ Frames(s) /\ Matched(s) /\ Orphaned(s) /\ RowsOK(s.spaces)
  BY DEF Sound, Tree
<1>2. CASE Empty(s) # {}
  <2>1. l = FirstEmpty(s)
    BY <1>2 DEF PlacementLeaf
  <2>2. Tile(l, Launcher) \in Tiles(s.spaces) /\ Tile(l, Launcher).id = l /\ Tile(l, Launcher).app # Win
    BY <1>1, <1>2, <2>1, EmptyIs, AppsAre DEF Tile
  <2>3. l \in Leaves(s) /\ l \in LeafIds
    BY <1>1, <2>2, LeavesAre
  <2>4. l \in DOMAIN s.frames => s.frames[l] \notin Clients
    BY <1>1, <2>2 DEF Matched
  <2>5. l \in DOMAIN s.frames => s.frames[l] # None
    BY <1>1, Names DEF Frames
  <2>6. CASE l \in DOMAIN s.frames
    <3>1. t = DropBuiltins(s, {l})
      BY <1>2, <2>1, <2>4, <2>5, <2>6 DEF Placed, FrameAt
    <3>2. {l} \subseteq DOMAIN s.frames /\ \A m \in {l} : s.frames[m] \notin Clients
      BY <2>4, <2>6
    <3>3. /\ OnlyFrames(s, t) /\ Frames(t) /\ DOMAIN t.frames = DOMAIN s.frames \ {l}
          /\ \A m \in DOMAIN t.frames : t.frames[m] = s.frames[m]
      BY <1>1, <3>1, <3>2, DropIs
    <3>4. t.spaces = s.spaces /\ Leaves(t) = Leaves(s) /\ WsIdsOf(t) = WsIdsOf(s)
      BY <3>3 DEF OnlyFrames, Leaves, WsIdsOf
    <3>5. Tree(t)
      BY <1>1, <3>3, <3>4 DEF Tree, OnlyFrames
    <3>6. Matched(t)
      <4> SUFFICES ASSUME NEW u \in Tiles(s.spaces)
                   PROVE  /\ u.id \in DOMAIN t.frames => (u.app = Win <=> t.frames[u.id] \in Clients)
                          /\ ("swap" \in Ops /\ u.app = Win) => u.id \in DOMAIN t.frames
        BY <3>4 DEF Matched
      <4>1. u.id = l => u.app # Win
        BY <1>1, <2>2, TileUnique
      <4>. QED BY <1>1, <3>3, <4>1 DEF Matched
    <3>7. Orphaned(t)
      BY <1>1, <3>3, <3>4 DEF Orphaned, OnlyFrames
    <3>. QED BY <2>3, <3>3, <3>4, <3>5, <3>6, <3>7 DEF OnlyFrames, Synced
  <2>7. CASE l \notin DOMAIN s.frames
    <3>1. t = s
      BY <1>2, <2>1, <2>7 DEF Placed, FrameAt
    <3>. QED BY <1>1, <2>3, <2>7, <3>1 DEF Synced
  <2>. QED BY <2>6, <2>7
<1>3. CASE Empty(s) = {}
  <2>1. PICK o : o = SplitOp(s)
    OBVIOUS
  <2>2. l = FreshLeaf(s) /\ t = Core(s, o) /\ Fits(s, o)
    BY <1>3, <2>1 DEF PlacementLeaf, Placed, CanPlace
  <2>3. o.op = "split-leaf" /\ o.app = Launcher /\ CanApply(s, o)
    BY <1>1, <2>1, SplitIs
  <2>4. /\ OnlyTree(s, t) /\ Tree(t) /\ t.cur = s.cur
        /\ Tiles(t.spaces) = Tiles(s.spaces) \cup {Tile(l, Launcher)}
        /\ l \in LeafIds /\ l \notin Mentioned(s)
    BY <1>1, <2>2, <2>3, AppsAre, CoreSplit
  <2>5. l \notin DOMAIN t.frames /\ l \notin DOMAIN s.frames /\ Tile(l, Launcher).id = l /\ Tile(l, Launcher).app # Win
    BY <2>4, AppsAre DEF Mentioned, OnlyTree, Tile
  <2>6. Matched(t)
    BY <1>1, <2>4, <2>5, GrownMatched
  <2>7. Leaves(t) = {u.id : u \in Tiles(t.spaces)} /\ Leaves(s) = {u.id : u \in Tiles(s.spaces)}
    BY <1>1, <2>4, LeavesAre DEF Tree
  <2>8. l \in Leaves(t) /\ Leaves(s) \subseteq Leaves(t)
    BY <2>4, <2>5, <2>7
  <2>9. Orphaned(t)
    BY <1>1, <2>4, <2>8 DEF Orphaned, OnlyTree
  <2>10. Synced(s) => \A u \in Tiles(t.spaces) : u.id # l /\ u.app # Win => u.id \in DOMAIN t.frames
    BY <2>4, <2>5 DEF Synced, OnlyTree
  <2>11. Frames(t) /\ Shell(t)
    BY <1>1, <2>4, OnlyTreeIs DEF OnlyTree
  <2>. QED BY <2>4, <2>5, <2>6, <2>8, <2>9, <2>10, <2>11 DEF OnlyTree
<1>. QED BY <1>2, <1>3

-----------------------------------------------------------------------------
(* A client gets a leaf, or floats.                                        *)

\* A frame is registered at a free leaf, under both maps.
LEMMA SettleIs ==
  ASSUME NEW s, Frames(s), NEW l \in LeafIds, l \notin DOMAIN s.frames, NEW c \in Clients, c \notin Framed(s),
         NEW t, t.frames = Put(s.frames, l, c), t.leafOf = Put(s.leafOf, c, l),
         t.managed = s.managed \cup {c}, t.floats = s.floats \ {c}, t.wins = s.wins, t.fs = s.fs,
         DOMAIN t.wsOf = t.floats
  PROVE  Frames(t) /\ Framed(t) = Framed(s) \cup {c}
<1>1. /\ DOMAIN t.frames = DOMAIN s.frames \cup {l} /\ t.frames[l] = c
      /\ \A m \in DOMAIN s.frames : t.frames[m] = s.frames[m]
      /\ t.frames = [m \in DOMAIN t.frames |-> t.frames[m]]
  BY DEF Put
<1>2. /\ DOMAIN t.leafOf = DOMAIN s.leafOf \cup {c} /\ t.leafOf[c] = l
      /\ \A f \in DOMAIN s.leafOf \ {c} : t.leafOf[f] = s.leafOf[f]
      /\ t.leafOf = [f \in DOMAIN t.leafOf |-> t.leafOf[f]]
  BY DEF Put
<1>3. Framed(t) = Framed(s) \cup {c}
  BY DEF Framed, Frames
<1>4. ASSUME NEW m \in DOMAIN t.frames
      PROVE  t.frames[m] \in Framed(t) /\ t.frames[m] \in DOMAIN t.leafOf /\ t.leafOf[t.frames[m]] = m
  <2>1. CASE m = l
    BY <1>1, <1>2, <1>3, <2>1
  <2>2. CASE m \in DOMAIN s.frames
    <3>1. s.frames[m] \in Framed(s) /\ s.frames[m] \in DOMAIN s.leafOf /\ s.leafOf[s.frames[m]] = m
      BY <2>2 DEF Frames
    <3>. QED BY <1>1, <1>2, <1>3, <2>2, <3>1
  <2>. QED BY <1>1, <2>1, <2>2
<1>5. ASSUME NEW f \in Framed(t)
      PROVE  f \in DOMAIN t.leafOf /\ t.leafOf[f] \in DOMAIN t.frames /\ t.frames[t.leafOf[f]] = f
  <2>1. CASE f = c
    BY <1>1, <1>2, <2>1
  <2>2. CASE f \in Framed(s)
    <3>1. f \in DOMAIN s.leafOf /\ s.leafOf[f] \in DOMAIN s.frames /\ s.frames[s.leafOf[f]] = f
      BY <2>2 DEF Frames
    <3>. QED BY <1>1, <1>2, <2>2, <3>1
  <2>. QED BY <1>3, <2>1, <2>2
<1>6. t.frames \in [DOMAIN t.frames -> Clients \cup Builtins] /\ DOMAIN t.frames \subseteq LeafIds
  <2>1. \A m \in DOMAIN t.frames : t.frames[m] \in Clients \cup Builtins
    BY <1>1 DEF Frames
  <2>. QED BY <1>1, <2>1 DEF Frames
<1>7. t.leafOf \in [DOMAIN t.leafOf -> LeafIds]
  <2>1. \A f \in DOMAIN t.leafOf : t.leafOf[f] \in LeafIds
    BY <1>2 DEF Frames
  <2>. QED BY <1>2, <2>1
<1>8. /\ t.floats \subseteq t.managed /\ t.managed \subseteq Clients /\ t.wins \subseteq Builtins
      /\ t.fs \in Clients => t.fs \in t.managed
  BY DEF Frames
<1>9. Frames(t)
  BY <1>4, <1>5, <1>6, <1>7, <1>8 DEF Frames
<1>. QED BY <1>3, <1>9

\* The tile at a placed leaf becomes a client's.
LEMMA FillIs ==
  ASSUME NEW s, Shell(s), Tree(s), NEW l \in Leaves(s), NEW app \in AppNames, NEW t, t = Core(s, SetApp(l, app))
  PROVE  /\ CanApply(s, SetApp(l, app)) /\ OnlyTree(s, t) /\ Tree(t) /\ t.cur = s.cur
         /\ Tiles(t.spaces) = {u \in Tiles(s.spaces) : u.id # l} \cup {Tile(l, app)}
         /\ Tile(l, app).id = l /\ Tile(l, app).app = app /\ Leaves(t) = Leaves(s)
<1>1. PICK o : o = SetApp(l, app)
  OBVIOUS
<1>2. o.op = "set-leaf-app" /\ o.node = l /\ o.app = app
  BY <1>1, OpsAre
<1>3. CanApply(s, o)
  BY <1>2 DEF CanApply
<1>4. /\ OnlyTree(s, t) /\ Tree(t) /\ t.cur = s.cur
      /\ Tiles(t.spaces) = {u \in Tiles(s.spaces) : u.id # o.node} \cup {Tile(o.node, o.app)}
  BY <1>1, <1>2, <1>3, CoreSet
<1>5. Tile(l, app).id = l /\ Tile(l, app).app = app
  BY DEF Tile
<1>6. Leaves(t) = Leaves(s)
  <2>1. Leaves(t) = {u.id : u \in Tiles(t.spaces)} /\ Leaves(s) = {u.id : u \in Tiles(s.spaces)}
    BY <1>4, LeavesAre DEF Tree
  <2>2. \A m : m \in Leaves(t) <=> m \in Leaves(s)
    BY <1>2, <1>4, <1>5, <2>1
  <2>. QED BY <2>2
<1>. QED BY <1>1, <1>2, <1>3, <1>4, <1>5, <1>6

LEMMA manageIs ==
  ASSUME NEW s, Sound(s), Roomy(s), CanPlace(s), NEW c \in Clients, c \notin s.managed,
         NEW t, t = manage(s, c)
  PROVE  Sound(t) /\ (Synced(s) => Synced(t))
<1>1. PICK l, p, q, r : /\ l = PlacementLeaf(s) /\ p = Placed(s) /\ q = Core(p, SetApp(l, Win))
                        /\ r = [Settle(q, c, l) EXCEPT !.managed = @ \cup {c}]
  OBVIOUS
<1>2. /\ Shell(p) /\ Tree(p) /\ Frames(p) /\ Matched(p) /\ Orphaned(p)
      /\ l \in Leaves(p) /\ l \in LeafIds /\ l \notin DOMAIN p.frames
      /\ p.managed = s.managed /\ p.floats = s.floats
      /\ Synced(s) => \A u \in Tiles(p.spaces) : u.id # l /\ u.app # Win => u.id \in DOMAIN p.frames
  BY <1>1, PlacedIs
<1>3. /\ OnlyTree(p, q) /\ Tree(q)
      /\ Tiles(q.spaces) = {u \in Tiles(p.spaces) : u.id # l} \cup {Tile(l, Win)}
      /\ Tile(l, Win).id = l /\ Tile(l, Win).app = Win /\ Leaves(q) = Leaves(p)
  BY <1>1, <1>2, AppsAre, FillIs
<1>4. Frames(q) /\ Shell(q)
  BY <1>2, <1>3, OnlyTreeIs DEF OnlyTree
<1>5. /\ Shell(r) /\ r.spaces = q.spaces /\ r.cur = q.cur /\ r.frames = Put(q.frames, l, c)
      /\ r.leafOf = Put(q.leafOf, c, l) /\ r.wsOf = q.wsOf /\ r.managed = q.managed \cup {c}
      /\ r.floats = q.floats /\ r.wins = q.wins /\ r.asked = q.asked /\ r.fs = q.fs
  BY <1>1, <1>4 DEF Settle, Shell, Fields
<1>6. c \notin Framed(q) /\ q.floats \ {c} = q.floats
  <2>1. q.managed = s.managed /\ q.floats \subseteq q.managed /\ q.wins \subseteq Builtins
    BY <1>2, <1>3, <1>4 DEF OnlyTree, Frames
  <2>. QED BY <2>1, Names DEF Framed
<1>7. Frames(r)
  <2>1. l \notin DOMAIN q.frames /\ DOMAIN r.wsOf = r.floats /\ r.floats = q.floats \ {c}
    BY <1>2, <1>3, <1>4, <1>5, <1>6 DEF OnlyTree, Frames
  <2>. QED BY <1>2, <1>4, <1>5, <1>6, <2>1, SettleIs
<1>8. Leaves(r) = Leaves(q) /\ WsIdsOf(r) = WsIdsOf(q)
  BY <1>5 DEF Leaves, WsIdsOf
<1>9. Tree(r)
  BY <1>3, <1>5, <1>8 DEF Tree
<1>10. /\ DOMAIN r.frames = DOMAIN p.frames \cup {l} /\ r.frames[l] = c
       /\ \A m \in DOMAIN p.frames : r.frames[m] = p.frames[m]
  BY <1>2, <1>3, <1>5 DEF Put, OnlyTree
<1>11. Matched(r)
  <2> SUFFICES ASSUME NEW u \in Tiles(q.spaces)
               PROVE  /\ u.id \in DOMAIN r.frames => (u.app = Win <=> r.frames[u.id] \in Clients)
                      /\ ("swap" \in Ops /\ u.app = Win) => u.id \in DOMAIN r.frames
    BY <1>5 DEF Matched
  <2>1. CASE u = Tile(l, Win)
    BY <1>3, <1>10, <2>1
  <2>2. CASE u \in Tiles(p.spaces) /\ u.id # l
    BY <1>2, <1>10, <2>2 DEF Matched
  <2>. QED BY <1>3, <2>1, <2>2
<1>12. Orphaned(r)
  BY <1>2, <1>3, <1>5, <1>8, <1>10 DEF Orphaned, OnlyTree
<1>13. Synced(s) => Synced(r)
  <2> SUFFICES ASSUME Synced(s), NEW u \in Tiles(q.spaces), u.app # Win PROVE u.id \in DOMAIN r.frames
    BY <1>5 DEF Synced
  <2>1. CASE u = Tile(l, Win)
    BY <1>3, <2>1
  <2>2. CASE u \in Tiles(p.spaces) /\ u.id # l
    BY <1>2, <1>10, <2>2
  <2>. QED BY <1>3, <2>1, <2>2
<1>14. Sound(r)
  BY <1>5, <1>7, <1>9, <1>11, <1>12 DEF Sound
<1>15. PICK v : v = focus(r, l) /\ t = relayout(v)
  BY <1>1 DEF manage
<1>16. SameBody(r, v)
  BY <1>5, <1>15, focusSame
<1>17. SameBody(v, t)
  BY <1>15, <1>16, relayoutSame DEF SameBody, SameMaps
<1>18. SameBody(r, t)
  BY <1>16, <1>17, SameTrans
<1>. QED BY <1>13, <1>14, <1>18, SoundBody

LEMMA manageFloatIs ==
  ASSUME NEW s, Sound(s), NEW c \in Clients, c \notin s.managed, NEW t, t = manageFloat(s, c)
  PROVE  Sound(t) /\ (Synced(s) => Synced(t))
<1>1. PICK r : r = [s EXCEPT !.managed = @ \cup {c}, !.floats = @ \cup {c}, !.wsOf = Put(@, c, s.cur)]
  OBVIOUS
<1>2. /\ Shell(r) /\ r.spaces = s.spaces /\ r.cur = s.cur /\ r.frames = s.frames /\ r.leafOf = s.leafOf
      /\ r.wsOf = Put(s.wsOf, c, s.cur) /\ r.managed = s.managed \cup {c} /\ r.floats = s.floats \cup {c}
      /\ r.wins = s.wins /\ r.asked = s.asked /\ r.fs = s.fs
  BY <1>1 DEF Sound, Shell, Fields
<1>3. Framed(r) = Framed(s) /\ Leaves(r) = Leaves(s) /\ WsIdsOf(r) = WsIdsOf(s)
  <2>1. Framed(r) = Framed(s)
    BY <1>2 DEF Framed
  <2>2. Leaves(r) = Leaves(s) /\ WsIdsOf(r) = WsIdsOf(s)
    BY <1>2 DEF Leaves, WsIdsOf
  <2>. QED BY <2>1, <2>2
<1>4. Frames(r)
  <2>1. DOMAIN r.wsOf = r.floats
    BY <1>2 DEF Put, Sound, Frames
  <2>2. /\ r.floats \subseteq r.managed /\ r.managed \subseteq Clients
        /\ r.fs \in Clients => r.fs \in r.managed
    BY <1>2 DEF Sound, Frames
  <2>. QED BY <1>2, <1>3, <2>1, <2>2 DEF Sound, Frames
<1>5. Sound(r) /\ (Synced(s) => Synced(r))
  BY <1>2, <1>3, <1>4 DEF Sound, Tree, Matched, Orphaned, Synced
<1>6. SameBody(r, t)
  BY <1>1, <1>2, focusFloatSame DEF manageFloat
<1>. QED BY <1>5, <1>6, SoundBody

-----------------------------------------------------------------------------
(* A client goes.                                                          *)

Sans(f, c) == Without(f, {c})
LEMMA ForgetIs ==
  ASSUME NEW s, Shell(s), NEW c, NEW t, t = Forget(s, c)
  PROVE  /\ Shell(t) /\ t.spaces = s.spaces /\ t.cur = s.cur /\ t.frames = s.frames /\ t.leafOf = s.leafOf
         /\ t.wsOf = Sans(s.wsOf, c) /\ t.managed = s.managed \ {c} /\ t.floats = s.floats \ {c}
         /\ t.wins = s.wins /\ t.asked = s.asked \ {c} /\ t.fs = s.fs
BY DEF Forget, Shell, Fields, Sans

\* A tiled client's frame is gone, and so is the client or its leaf's tile.
LEMMA UnframedIs ==
  ASSUME NEW s, Frames(s), NEW c \in s.managed \ s.floats, NEW leaf, leaf = s.leafOf[c],
         NEW t, t.frames = Sans(s.frames, leaf), t.wins = s.wins,
         \A f : f \in Framed(t) <=> f \in Framed(s) /\ f # c,
         \A f \in Framed(t) : f \in DOMAIN t.leafOf /\ t.leafOf[f] = s.leafOf[f],
         t.leafOf \in [DOMAIN t.leafOf -> LeafIds], DOMAIN t.wsOf = t.floats,
         t.floats \subseteq t.managed, t.managed \subseteq Clients, t.fs \in Clients => t.fs \in t.managed
  PROVE  /\ Frames(t) /\ \A l : l \in DOMAIN t.frames <=> l \in DOMAIN s.frames /\ l # leaf
         /\ \A l \in DOMAIN t.frames : t.frames[l] = s.frames[l] /\ t.frames[l] # c
<1>1. leaf \in DOMAIN s.frames /\ s.frames[leaf] = c
  BY DEF Frames, Framed
<1>2. /\ DOMAIN t.frames = DOMAIN s.frames \ {leaf}
      /\ \A l \in DOMAIN t.frames : t.frames[l] = s.frames[l]
      /\ t.frames = [l \in DOMAIN t.frames |-> t.frames[l]]
  BY DEF Sans, Without
<1>3. ASSUME NEW l \in DOMAIN t.frames
      PROVE  /\ t.frames[l] # c /\ t.frames[l] \in Framed(t) /\ t.frames[l] \in DOMAIN t.leafOf
             /\ t.leafOf[t.frames[l]] = l
  <2>1. s.frames[l] \in Framed(s) /\ s.leafOf[s.frames[l]] = l /\ l # leaf
    BY <1>2 DEF Frames
  <2>2. s.frames[l] # c
    BY <2>1
  <2>. QED BY <1>2, <2>1, <2>2
<1>4. ASSUME NEW f \in Framed(t)
      PROVE  t.leafOf[f] \in DOMAIN t.frames /\ t.frames[t.leafOf[f]] = f
  <2>1. s.leafOf[f] \in DOMAIN s.frames /\ s.frames[s.leafOf[f]] = f /\ f # c
    BY DEF Frames
  <2>2. s.leafOf[f] # leaf
    BY <1>1, <2>1
  <2>. QED BY <1>2, <2>1, <2>2
<1>5. t.frames \in [DOMAIN t.frames -> Clients \cup Builtins] /\ DOMAIN t.frames \subseteq LeafIds
  <2>1. \A l \in DOMAIN t.frames : t.frames[l] \in Clients \cup Builtins
    BY <1>2 DEF Frames
  <2>. QED BY <1>2, <2>1 DEF Frames
<1>6. t.wins \subseteq Builtins
  BY DEF Frames
<1>7. Frames(t)
  BY <1>3, <1>4, <1>5, <1>6 DEF Frames
<1>. QED BY <1>2, <1>3, <1>7

\* What is left when the frame of a leaf went: the rest is as it was.
LEMMA OthersStay ==
  ASSUME NEW s, Sound(s), NEW leaf, NEW c, NEW t, t.spaces = s.spaces,
         \A l : l \in DOMAIN t.frames <=> l \in DOMAIN s.frames /\ l # leaf,
         \A l \in DOMAIN t.frames : t.frames[l] = s.frames[l] /\ t.frames[l] # c,
         s.asked \ {c} \subseteq t.asked
  PROVE  MatchedBut(t, leaf) /\ Called(t) /\ (leaf \notin Leaves(s) => Matched(t))
<1>1. MatchedBut(t, leaf)
  BY DEF MatchedBut, Sound, Matched
<1>2. Leaves(t) = Leaves(s)
  BY DEF Leaves
<1>3. Called(t)
  BY <1>2 DEF Called, Sound, Orphaned
<1>4. leaf \notin Leaves(s) => Matched(t)
  <2> SUFFICES ASSUME leaf \notin Leaves(s), NEW u \in Tiles(t.spaces) PROVE u.id # leaf
    BY <1>1 DEF Matched, MatchedBut
  <2>1. u.id \in Leaves(s)
    BY LeavesAre DEF Sound, Tree
  <2>. QED BY <2>1
<1>. QED BY <1>1, <1>3, <1>4

LEMMA unmanageTileIs ==
  ASSUME NEW s, Sound(s), Synced(s), NEW c \in s.managed \ s.floats, NEW w, w = unmanageTile(s, c)
  PROVE  Sound(w) /\ Synced(w)
<1>1. PICK leaf, q, r, t, v, u :
        /\ leaf = s.leafOf[c] /\ q = clearFullscreenFor(s, c)
        /\ r = [q EXCEPT !.frames = Without(@, {leaf})] /\ t = Forget(r, c)
        /\ v = (IF leaf \in Leaves(t) THEN Core(t, VacateOp(t, leaf)) ELSE t)
        /\ u = syncBuiltins(v)
  OBVIOUS
<1>2. /\ Frames(s) /\ Tree(s) /\ Shell(s) /\ c \in Clients /\ c \in Framed(s) /\ c \notin s.wins
  BY Names DEF Sound, Frames, Framed
<1>3. SameMaps(s, q) /\ q.fs = IF s.fs = c THEN None ELSE s.fs
  BY <1>1, <1>2, ClearSame
<1>4. /\ Shell(r) /\ r.spaces = s.spaces /\ r.cur = s.cur /\ r.frames = Sans(s.frames, leaf)
      /\ r.leafOf = s.leafOf /\ r.wsOf = s.wsOf /\ r.managed = s.managed /\ r.floats = s.floats
      /\ r.wins = s.wins /\ r.asked = s.asked /\ r.fs = q.fs
  BY <1>1, <1>3 DEF SameMaps, Shell, Fields, Sans
<1>5. /\ Shell(t) /\ t.spaces = s.spaces /\ t.cur = s.cur /\ t.frames = Sans(s.frames, leaf)
      /\ t.leafOf = s.leafOf /\ t.wsOf = Sans(s.wsOf, c) /\ t.managed = s.managed \ {c}
      /\ t.floats = s.floats \ {c} /\ t.wins = s.wins /\ t.asked = s.asked \ {c}
      /\ t.fs = IF s.fs = c THEN None ELSE s.fs
  <2>1. /\ Shell(t) /\ t.spaces = r.spaces /\ t.cur = r.cur /\ t.frames = r.frames /\ t.leafOf = r.leafOf
        /\ t.wsOf = Sans(r.wsOf, c) /\ t.managed = r.managed \ {c} /\ t.floats = r.floats \ {c}
        /\ t.wins = r.wins /\ t.asked = r.asked \ {c} /\ t.fs = r.fs
    <3>1. Shell(r) /\ t = Forget(r, c)
      BY <1>1, <1>4
    <3>. QED BY ONLY <3>1, ForgetIs
  <2>. QED BY <1>3, <1>4, <2>1 DEF SameMaps
<1>6. Framed(t) = Framed(s) \ {c}
  BY <1>2, <1>5 DEF Framed
<1>7. Leaves(t) = Leaves(s) /\ WsIdsOf(t) = WsIdsOf(s)
  BY <1>5 DEF Leaves, WsIdsOf
<1>8. Tree(t)
  BY <1>2, <1>5, <1>7 DEF Tree
<1>9. /\ Frames(t) /\ \A l : l \in DOMAIN t.frames <=> l \in DOMAIN s.frames /\ l # leaf
      /\ \A l \in DOMAIN t.frames : t.frames[l] = s.frames[l] /\ t.frames[l] # c
  <2>1. \A f \in Framed(t) : f \in DOMAIN t.leafOf /\ t.leafOf[f] = s.leafOf[f]
    BY <1>2, <1>5, <1>6 DEF Frames
  <2>2. t.leafOf \in [DOMAIN t.leafOf -> LeafIds] /\ DOMAIN t.wsOf = t.floats
    BY <1>2, <1>5 DEF Frames, Sans, Without
  <2>3. /\ t.floats \subseteq t.managed /\ t.managed \subseteq Clients
        /\ t.fs \in Clients => t.fs \in t.managed
    BY <1>2, <1>5, Names DEF Frames
  <2>4. /\ Frames(s) /\ c \in s.managed \ s.floats /\ leaf = s.leafOf[c]
        /\ t.frames = Sans(s.frames, leaf) /\ t.wins = s.wins
        /\ \A f : f \in Framed(t) <=> f \in Framed(s) /\ f # c
    BY <1>1, <1>2, <1>5, <1>6
  <2>. QED BY ONLY <2>1, <2>2, <2>3, <2>4, UnframedIs
<1>10. MatchedBut(t, leaf) /\ Called(t) /\ (leaf \notin Leaves(s) => Matched(t))
  BY <1>5, <1>9, OthersStay
<1>11. Shell(v) /\ Tree(v) /\ Frames(v) /\ Matched(v) /\ Called(v)
  <2>1. CASE leaf \in Leaves(t)
    <3>1. PICK o : o = VacateOp(t, leaf)
      OBVIOUS
    <3>2. v = Core(t, o) /\ leaf \notin DOMAIN t.frames
      BY <1>1, <1>9, <2>1, <3>1
    <3>. QED BY <1>5, <1>8, <1>9, <1>10, <2>1, <3>1, <3>2, VacatedIs
  <2>2. CASE leaf \notin Leaves(t)
    BY <1>1, <1>5, <1>7, <1>8, <1>9, <1>10, <2>2
  <2>. QED BY <2>1, <2>2
<1>12. OnlyFrames(v, u) /\ Sound(u) /\ Synced(u)
  BY <1>1, <1>11, SyncIs
<1>13. PICK y : y = (IF FocusedLeaf(u) = leaf THEN FocusFirst(ClearTarget(u)) ELSE u) /\ w = relayout(y)
  BY <1>1 DEF unmanageTile
<1>14. Shell(u)
  BY <1>12 DEF Sound
<1>15. SameBody(u, y)
  <2>1. SameBody(u, ClearTarget(u)) /\ Shell(ClearTarget(u))
    BY <1>14, RegistersSame DEF SameBody, SameMaps
  <2>2. SameBody(u, FocusFirst(ClearTarget(u)))
    BY <2>1, RefocusSame, SameTrans
  <2>. QED BY <1>13, <1>14, <2>2, SameSelf
<1>16. SameBody(y, w)
  BY <1>13, <1>15, relayoutSame DEF SameBody, SameMaps
<1>17. SameBody(u, w)
  BY <1>15, <1>16, SameTrans
<1>. QED BY <1>12, <1>17, SoundBody

LEMMA unmanageFloatIs ==
  ASSUME NEW s, Sound(s), Synced(s), NEW c \in s.floats, NEW w, w = unmanageFloat(s, c)
  PROVE  Sound(w) /\ Synced(w)
<1>1. PICK q, t : q = clearFullscreenFor(s, c) /\ t = Forget(q, c)
  OBVIOUS
<1>2. /\ Frames(s) /\ Tree(s) /\ Shell(s) /\ c \in Clients /\ c \in s.managed
  BY DEF Sound, Frames
<1>3. SameMaps(s, q) /\ q.fs = IF s.fs = c THEN None ELSE s.fs
  BY <1>1, <1>2, ClearSame
<1>4. /\ Shell(t) /\ t.spaces = s.spaces /\ t.cur = s.cur /\ t.frames = s.frames
      /\ t.leafOf = s.leafOf /\ t.wsOf = Sans(s.wsOf, c) /\ t.managed = s.managed \ {c}
      /\ t.floats = s.floats \ {c} /\ t.wins = s.wins /\ t.asked = s.asked \ {c}
      /\ t.fs = IF s.fs = c THEN None ELSE s.fs
  <2>1. Shell(q)
    BY <1>3 DEF SameMaps
  <2>2. /\ Shell(t) /\ t.spaces = q.spaces /\ t.cur = q.cur /\ t.frames = q.frames /\ t.leafOf = q.leafOf
        /\ t.wsOf = Sans(q.wsOf, c) /\ t.managed = q.managed \ {c} /\ t.floats = q.floats \ {c}
        /\ t.wins = q.wins /\ t.asked = q.asked \ {c} /\ t.fs = q.fs
    BY <1>1, <2>1, ForgetIs
  <2>. QED BY <1>3, <2>2 DEF SameMaps
<1>5. Framed(t) = Framed(s) /\ Leaves(t) = Leaves(s) /\ WsIdsOf(t) = WsIdsOf(s)
  <2>1. Framed(t) = Framed(s)
    BY <1>4 DEF Framed
  <2>2. Leaves(t) = Leaves(s) /\ WsIdsOf(t) = WsIdsOf(s)
    BY <1>4 DEF Leaves, WsIdsOf
  <2>. QED BY <2>1, <2>2
<1>6. Tree(t)
  BY <1>2, <1>4, <1>5 DEF Tree
<1>7. Frames(t)
  <2>1. DOMAIN t.wsOf = t.floats
    BY <1>2, <1>4 DEF Frames, Sans, Without
  <2>2. /\ t.floats \subseteq t.managed /\ t.managed \subseteq Clients
        /\ t.fs \in Clients => t.fs \in t.managed
    BY <1>2, <1>4, Names DEF Frames
  <2>. QED BY <1>2, <1>4, <1>5, <2>1, <2>2 DEF Frames
<1>8. Orphaned(t)
  <2> SUFFICES ASSUME NEW l \in DOMAIN s.frames \ Leaves(s) PROVE s.frames[l] \in (s.asked \ {c}) \cap Clients
    BY <1>4, <1>5 DEF Orphaned
  <2>1. s.frames[l] \in s.asked \cap Clients /\ s.frames[l] \in Framed(s)
    BY <1>2 DEF Sound, Orphaned, Frames
  <2>2. s.frames[l] # c
    BY <1>2, <2>1, Names DEF Framed, Frames
  <2>. QED BY <2>1, <2>2
<1>9. Sound(t) /\ Synced(t)
  BY <1>4, <1>6, <1>7, <1>8 DEF Sound, Matched, Synced
<1>10. w = Refocus(Restore(t)) \/ w = t
  BY <1>1 DEF unmanageFloat
<1>11. SameBody(t, Restore(t)) /\ Shell(Restore(t))
  BY <1>4, RegistersSame DEF SameBody, SameMaps
<1>12. SameBody(t, Refocus(Restore(t)))
  BY <1>11, RefocusSame, SameTrans
<1>. QED BY <1>9, <1>10, <1>12, SoundBody

LEMMA unmanageIs ==
  ASSUME NEW s, Sound(s), Synced(s), NEW c
  PROVE  Sound(unmanage(s, c)) /\ Synced(unmanage(s, c))
<1>1. CASE c \notin s.managed
  BY <1>1 DEF unmanage
<1>2. CASE c \in s.floats /\ c \in s.managed
  BY <1>2, unmanageFloatIs DEF unmanage, IsFloat
<1>3. CASE c \in s.managed \ s.floats
  BY <1>3, unmanageTileIs DEF unmanage, IsFloat
<1>. QED BY <1>1, <1>2, <1>3

\* A leaf whose frame is no client's is vacated, and the screen follows.
LEMMA VacateApplied ==
  ASSUME NEW s, Shell(s), Tree(s), Frames(s), NEW leaf \in Leaves(s), MatchedBut(s, leaf), Called(s),
         leaf \in DOMAIN s.frames => s.frames[leaf] \notin Clients, NEW u, u = Apply(s, VacateOp(s, leaf))
  PROVE  Sound(u) /\ Synced(u) /\ u.floats = s.floats
<1>1. PICK o, t : o = VacateOp(s, leaf) /\ t = Core(s, o)
  OBVIOUS
<1>2. /\ CanApply(s, o) /\ Reaps(o) \in BOOLEAN /\ Switches(o) \in BOOLEAN /\ ~Switches(o)
      /\ OnlyTree(s, t) /\ Shell(t) /\ Tree(t) /\ Frames(t) /\ Matched(t) /\ Called(t)
  BY <1>1, VacatedIs
<1>3. u = Reconcile(t, Reaps(o), Switches(o))
  BY <1>1, <1>2 DEF Apply
<1>4. Sound(u) /\ Synced(u) /\ u.floats = t.floats
  BY <1>2, <1>3, ReconcileIs
<1>. QED BY <1>2, <1>4 DEF OnlyTree

LEMMA closeClientIs ==
  ASSUME NEW s, Sound(s), Synced(s), NEW f \in s.managed \cup s.wins, NEW t, t = closeClient(s, f)
  PROVE  Sound(t) /\ Synced(t)
<1>1. CASE f \in Clients
  <2>1. t = [s EXCEPT !.asked = @ \cup {f}]
    BY <1>1 DEF closeClient
  <2>2. /\ Shell(t) /\ t.spaces = s.spaces /\ t.cur = s.cur /\ t.frames = s.frames /\ t.leafOf = s.leafOf
        /\ t.wsOf = s.wsOf /\ t.managed = s.managed /\ t.floats = s.floats /\ t.wins = s.wins /\ t.fs = s.fs
        /\ t.asked = s.asked \cup {f}
    BY <2>1 DEF Sound, Shell, Fields
  <2>3. Leaves(t) = Leaves(s) /\ WsIdsOf(t) = WsIdsOf(s) /\ Framed(t) = Framed(s)
    BY <2>2 DEF Leaves, WsIdsOf, Framed
  <2>4. Tree(t) /\ Frames(t)
    <3>1. Tree(t)
      BY <2>2, <2>3 DEF Tree, Sound
    <3>2. Frames(t)
      BY <2>2, <2>3 DEF Frames, Sound
    <3>. QED BY <3>1, <3>2
  <2>5. Orphaned(t) /\ Matched(t) /\ Synced(t)
    <3>1. Orphaned(t)
      BY <2>2, <2>3 DEF Orphaned, Sound
    <3>2. Matched(t) /\ Synced(t)
      BY <2>2 DEF Matched, Synced, Sound
    <3>. QED BY <3>1, <3>2
  <2>. QED BY <2>2, <2>4, <2>5 DEF Sound
<1>2. CASE f \notin Clients
  <2>1. Shell(s) /\ Tree(s) /\ Frames(s) /\ Matched(s)
    BY DEF Sound
  <2>2. f \in Framed(s)
    BY <1>2, <2>1 DEF Framed, Frames
  <2>3. PICK leaf : leaf = s.leafOf[f]
    OBVIOUS
  <2>4. s.frames[leaf] \notin Clients
    BY <1>2, <2>1, <2>2, <2>3 DEF Frames
  <2>5. t = IF leaf \in Leaves(s) THEN Apply(s, VacateOp(s, leaf)) ELSE s
    BY <1>2, <2>3 DEF closeClient
  <2>6. CASE leaf \in Leaves(s)
    <3>1. MatchedBut(s, leaf) /\ Called(s)
      BY <2>1, SoundCalled DEF Matched, MatchedBut
    <3>. QED BY <2>1, <2>4, <2>5, <2>6, <3>1, VacateApplied
  <2>. QED BY <2>5, <2>6
<1>. QED BY <1>1, <1>2

-----------------------------------------------------------------------------
(* Fullscreen, and a tile that is lifted off the tree or sunk into it.     *)

LEMMA toggleFullscreenIs ==
  ASSUME NEW s, Sound(s), Synced(s), NEW t, t = toggleFullscreen(s)
  PROVE  Sound(t) /\ Synced(t)
<1>1. Shell(s) /\ Frames(s)
  BY DEF Sound
<1>2. CASE s.fs # None
  <2>1. SameMaps(s, t) /\ t.fs = None
    BY <1>1, <1>2, ExitSame DEF toggleFullscreen
  <2>. QED BY <2>1, SoundSame, Names
<1>3. CASE s.fs = None
  <2>1. PICK pf, f : /\ pf = FocusedFloat(s) /\ f = (IF pf \in s.floats THEN pf ELSE FrameAt(s, FocusedLeaf(s)))
                     /\ t = [s EXCEPT !.fs = f]
    BY <1>3 DEF toggleFullscreen
  <2>2. f \in Clients => f \in s.managed
    <3>1. CASE pf \in s.floats
      BY <1>1, <2>1, <3>1 DEF Frames
    <3>2. CASE pf \notin s.floats
      BY <1>1, <2>1, <3>2, Names DEF Frames, FrameAt, Framed
    <3>. QED BY <3>1, <3>2
  <2>3. /\ Shell(t) /\ t.spaces = s.spaces /\ t.cur = s.cur /\ t.frames = s.frames /\ t.leafOf = s.leafOf
        /\ t.wsOf = s.wsOf /\ t.managed = s.managed /\ t.floats = s.floats /\ t.wins = s.wins /\ t.fs = f
        /\ t.asked = s.asked
    BY <1>1, <2>1 DEF Shell, Fields
  <2>4. Leaves(t) = Leaves(s) /\ WsIdsOf(t) = WsIdsOf(s) /\ Framed(t) = Framed(s)
    BY <2>3 DEF Leaves, WsIdsOf, Framed
  <2>5. Tree(t) /\ Frames(t)
    <3>1. Tree(t)
      BY <2>3, <2>4 DEF Tree, Sound
    <3>2. Frames(t)
      BY <1>1, <2>2, <2>3, <2>4 DEF Frames
    <3>. QED BY <3>1, <3>2
  <2>6. Orphaned(t) /\ Matched(t) /\ Synced(t)
    <3>1. Orphaned(t)
      BY <2>3, <2>4 DEF Orphaned, Sound
    <3>2. Matched(t) /\ Synced(t)
      BY <2>3 DEF Matched, Synced, Sound
    <3>. QED BY <3>1, <3>2
  <2>. QED BY <2>3, <2>5, <2>6 DEF Sound
<1>. QED BY <1>2, <1>3

LEMMA liftTileIs ==
  ASSUME NEW s, Sound(s), Synced(s), NEW c \in s.managed \ s.floats, NEW w, w = liftTile(s, c)
  PROVE  Sound(w) /\ Synced(w)
<1>1. PICK leaf, t, u, v :
        /\ leaf = s.leafOf[c]
        /\ t = [s EXCEPT !.frames = Sans(@, leaf), !.leafOf = Sans(@, c), !.wsOf = Put(@, c, s.cur),
                         !.floats = @ \cup {c}]
        /\ u = t \/ u = ClearTarget(t)
        /\ v = (IF leaf \in Leaves(u) THEN Apply(u, VacateOp(u, leaf)) ELSE u) /\ w = focusFloat(v, c)
  <2>. DEFINE leaf0 == s.leafOf[c]
              t0 == [s EXCEPT !.frames = Sans(@, leaf0), !.leafOf = Sans(@, c), !.wsOf = Put(@, c, s.cur),
                              !.floats = @ \cup {c}]
              focused0 == FocusedLeaf([s EXCEPT !.floats = @ \cup {c}]) = leaf0
              u0 == IF focused0 THEN ClearTarget(t0) ELSE t0
              v0 == IF leaf0 \in Leaves(u0) THEN Apply(u0, VacateOp(u0, leaf0)) ELSE u0
  <2>1. w = focusFloat(v0, c)
    BY DEF liftTile, Sans
  <2>. QED BY <2>1
<1>2. /\ Frames(s) /\ Tree(s) /\ Shell(s) /\ c \in Clients /\ c \in Framed(s) /\ c \notin s.wins
  BY Names DEF Sound, Frames, Framed
<1>3. /\ Shell(t) /\ t.spaces = s.spaces /\ t.cur = s.cur /\ t.frames = Sans(s.frames, leaf)
      /\ t.leafOf = Sans(s.leafOf, c) /\ t.wsOf = Put(s.wsOf, c, s.cur) /\ t.managed = s.managed
      /\ t.floats = s.floats \cup {c} /\ t.wins = s.wins /\ t.asked = s.asked /\ t.fs = s.fs
  BY <1>1, <1>2 DEF Shell, Fields
<1>4. \A f : f \in Framed(t) <=> f \in Framed(s) /\ f # c
  BY <1>2, <1>3 DEF Framed
<1>5. Leaves(t) = Leaves(s) /\ WsIdsOf(t) = WsIdsOf(s)
  BY <1>3 DEF Leaves, WsIdsOf
<1>6. Tree(t)
  BY <1>2, <1>3, <1>5 DEF Tree
<1>7. /\ Frames(t) /\ \A l : l \in DOMAIN t.frames <=> l \in DOMAIN s.frames /\ l # leaf
      /\ \A l \in DOMAIN t.frames : t.frames[l] = s.frames[l] /\ t.frames[l] # c
  <2>1. \A f \in Framed(t) : f \in DOMAIN t.leafOf /\ t.leafOf[f] = s.leafOf[f]
    BY <1>2, <1>3, <1>4 DEF Frames, Sans, Without
  <2>2. t.leafOf \in [DOMAIN t.leafOf -> LeafIds] /\ DOMAIN t.wsOf = t.floats
    BY <1>2, <1>3 DEF Frames, Sans, Without, Put
  <2>3. /\ t.floats \subseteq t.managed /\ t.managed \subseteq Clients
        /\ t.fs \in Clients => t.fs \in t.managed
    BY <1>2, <1>3, Names DEF Frames
  <2>4. /\ Frames(s) /\ c \in s.managed \ s.floats /\ leaf = s.leafOf[c]
        /\ t.frames = Sans(s.frames, leaf) /\ t.wins = s.wins
        /\ \A f : f \in Framed(t) <=> f \in Framed(s) /\ f # c
    BY <1>1, <1>2, <1>3, <1>4
  <2>. QED BY ONLY <2>1, <2>2, <2>3, <2>4, UnframedIs
<1>8. MatchedBut(t, leaf) /\ Called(t) /\ (leaf \notin Leaves(s) => Matched(t))
  BY <1>3, <1>7, OthersStay
<1>9. SameBody(t, u)
  BY <1>1, <1>3, RegistersSame, SameSelf
<1>10. /\ Shell(u) /\ u.spaces = t.spaces /\ u.cur = t.cur /\ u.frames = t.frames /\ u.leafOf = t.leafOf
       /\ u.wsOf = t.wsOf /\ u.managed = t.managed /\ u.floats = t.floats /\ u.wins = t.wins
       /\ u.asked = t.asked /\ u.fs = t.fs
  BY <1>9 DEF SameBody, SameMaps
<1>11. Leaves(u) = Leaves(t) /\ WsIdsOf(u) = WsIdsOf(t) /\ Framed(u) = Framed(t)
  BY <1>10 DEF Leaves, WsIdsOf, Framed
<1>12. Tree(u) /\ Frames(u) /\ MatchedBut(u, leaf) /\ Called(u) /\ (leaf \notin Leaves(s) => Matched(u))
  <2>1. Tree(u)
    BY <1>6, <1>10, <1>11 DEF Tree
  <2>2. Frames(u)
    BY <1>7, <1>10, <1>11 DEF Frames
  <2>3. MatchedBut(u, leaf) /\ Called(u) /\ (leaf \notin Leaves(s) => Matched(u))
    BY <1>8, <1>10, <1>11 DEF MatchedBut, Called, Matched
  <2>. QED BY <2>1, <2>2, <2>3
<1>13. Sound(v) /\ Synced(v)
  <2>1. CASE leaf \in Leaves(u)
    <3>1. v = Apply(u, VacateOp(u, leaf)) /\ leaf \notin DOMAIN u.frames
      BY <1>1, <1>7, <1>10, <2>1
    <3>. QED BY <1>10, <1>12, <2>1, <3>1, VacateApplied
  <2>2. CASE leaf \notin Leaves(u)
    <3>1. v = u /\ leaf \notin Leaves(s)
      BY <1>1, <1>5, <1>11, <2>2
    <3>2. Orphaned(u)
      <4> SUFFICES ASSUME NEW l \in DOMAIN t.frames \ Leaves(s) PROVE t.frames[l] \in s.asked \cap Clients
        BY <1>3, <1>5, <1>10, <1>11 DEF Orphaned
      <4>. QED BY <1>7 DEF Sound, Orphaned
    <3>3. Synced(u)
      <4> SUFFICES ASSUME NEW y \in Tiles(s.spaces), y.app # Win PROVE y.id \in DOMAIN t.frames
        BY <1>3, <1>10 DEF Synced
      <4>1. y.id \in Leaves(s) /\ y.id \in DOMAIN s.frames
        BY <1>2, LeavesAre DEF Synced, Tree
      <4>. QED BY <1>7, <3>1, <4>1
    <3>. QED BY <1>10, <1>12, <3>1, <3>2, <3>3 DEF Sound
  <2>. QED BY <2>1, <2>2
<1>14. SameBody(v, w)
  BY <1>1, <1>13, focusFloatSame DEF Sound
<1>. QED BY <1>13, <1>14, SoundBody

\* A leaf gets an app that fits its frame, and the screen follows.
LEMMA FillApplied ==
  ASSUME NEW s, Shell(s), Tree(s), Frames(s), NEW l \in Leaves(s), NEW app \in AppNames,
         MatchedBut(s, l), Called(s), l \in DOMAIN s.frames => (app = Win <=> s.frames[l] \in Clients),
         ("swap" \in Ops /\ app = Win) => l \in DOMAIN s.frames, NEW u, u = Apply(s, SetApp(l, app))
  PROVE  Sound(u) /\ Synced(u)
<1>1. PICK o, t : o = SetApp(l, app) /\ t = Core(s, o)
  OBVIOUS
<1>2. /\ CanApply(s, o) /\ OnlyTree(s, t) /\ Tree(t)
      /\ Tiles(t.spaces) = {y \in Tiles(s.spaces) : y.id # l} \cup {Tile(l, app)}
      /\ Tile(l, app).id = l /\ Tile(l, app).app = app /\ Leaves(t) = Leaves(s)
  BY <1>1, FillIs
<1>3. ~Reaps(o) /\ ~Switches(o) /\ Reaps(o) \in BOOLEAN /\ Switches(o) \in BOOLEAN
  BY <1>1, OpsAre
<1>4. Shell(t) /\ Frames(t)
  BY <1>2, OnlyTreeIs DEF OnlyTree
<1>5. Matched(t)
  <2> SUFFICES ASSUME NEW y \in Tiles(t.spaces)
               PROVE  /\ y.id \in DOMAIN s.frames => (y.app = Win <=> s.frames[y.id] \in Clients)
                      /\ ("swap" \in Ops /\ y.app = Win) => y.id \in DOMAIN s.frames
    BY <1>2 DEF Matched, OnlyTree
  <2>1. CASE y = Tile(l, app)
    BY <1>2, <2>1
  <2>2. CASE y \in Tiles(s.spaces) /\ y.id # l
    BY <2>2 DEF MatchedBut
  <2>. QED BY <1>2, <2>1, <2>2
<1>6. Called(t)
  BY <1>2 DEF Called, OnlyTree
<1>7. u = Reconcile(t, Reaps(o), Switches(o))
  BY <1>1, <1>2 DEF Apply
<1>. QED BY <1>2, <1>3, <1>4, <1>5, <1>6, <1>7, ReconcileIs

LEMMA sinkFloatIs ==
  ASSUME NEW s, Sound(s), Synced(s), Roomy(s), CanPlace(s), NEW c \in s.floats, NEW w, w = sinkFloat(s, c)
  PROVE  Sound(w) /\ Synced(w)
<1>1. PICK l, p, q, r, u, v :
        /\ l = PlacementLeaf(s) /\ p = Placed(s)
        /\ q = [p EXCEPT !.floats = @ \ {c}, !.wsOf = Sans(@, c)] /\ r = ClearTarget(q)
        /\ u = Settle(r, c, l) /\ v = Apply(u, SetApp(l, Win)) /\ w = focus(v, l)
  BY DEF sinkFloat, Sunk, Sans
<1>2. /\ Shell(p) /\ Tree(p) /\ Frames(p) /\ Matched(p) /\ Orphaned(p)
      /\ l \in Leaves(p) /\ l \in LeafIds /\ l \notin DOMAIN p.frames
      /\ p.managed = s.managed /\ p.floats = s.floats
  BY <1>1, PlacedIs
<1>3. /\ Shell(q) /\ q.spaces = p.spaces /\ q.cur = p.cur /\ q.frames = p.frames /\ q.leafOf = p.leafOf
      /\ q.wsOf = Sans(p.wsOf, c) /\ q.managed = p.managed /\ q.floats = p.floats \ {c} /\ q.wins = p.wins
      /\ q.asked = p.asked /\ q.fs = p.fs
  BY <1>1, <1>2 DEF Shell, Fields
<1>4. SameBody(q, r)
  BY <1>1, <1>3, RegistersSame
<1>5. /\ Shell(r) /\ r.spaces = p.spaces /\ r.cur = p.cur /\ r.frames = p.frames /\ r.leafOf = p.leafOf
      /\ r.wsOf = Sans(p.wsOf, c) /\ r.managed = p.managed /\ r.floats = p.floats \ {c} /\ r.wins = p.wins
      /\ r.asked = p.asked /\ r.fs = p.fs
  BY <1>3, <1>4 DEF SameBody, SameMaps
<1>6. /\ Shell(u) /\ u.spaces = p.spaces /\ u.cur = p.cur /\ u.frames = Put(p.frames, l, c)
      /\ u.leafOf = Put(p.leafOf, c, l) /\ u.wsOf = Sans(p.wsOf, c) /\ u.managed = p.managed
      /\ u.floats = p.floats \ {c} /\ u.wins = p.wins /\ u.asked = p.asked /\ u.fs = p.fs
  <2>1. /\ Shell(u) /\ u.spaces = r.spaces /\ u.cur = r.cur /\ u.frames = Put(r.frames, l, c)
        /\ u.leafOf = Put(r.leafOf, c, l) /\ u.wsOf = r.wsOf /\ u.managed = r.managed
        /\ u.floats = r.floats /\ u.wins = r.wins /\ u.asked = r.asked /\ u.fs = r.fs
    BY <1>1, <1>5 DEF Settle, Shell, Fields
  <2>. QED BY <1>5, <2>1
<1>7. c \in Clients /\ c \notin Framed(p) /\ c \in p.managed
  BY <1>2, Names DEF Frames, Framed
<1>8. Frames(u)
  <2>1. DOMAIN u.wsOf = u.floats
    BY <1>2, <1>6 DEF Sans, Without, Frames
  <2>2. u.managed = p.managed \cup {c}
    BY <1>6, <1>7
  <2>. QED BY <1>2, <1>6, <1>7, <2>1, <2>2, SettleIs
<1>9. Leaves(u) = Leaves(p) /\ WsIdsOf(u) = WsIdsOf(p)
  BY <1>6 DEF Leaves, WsIdsOf
<1>10. Tree(u)
  BY <1>2, <1>6, <1>9 DEF Tree
<1>11. /\ DOMAIN u.frames = DOMAIN p.frames \cup {l} /\ u.frames[l] = c
       /\ \A m \in DOMAIN p.frames : u.frames[m] = p.frames[m]
  BY <1>2, <1>6 DEF Put
<1>12. MatchedBut(u, l) /\ Called(u)
  <2>1. MatchedBut(u, l)
    BY <1>2, <1>6, <1>11 DEF Matched, MatchedBut
  <2>2. Called(u)
    BY <1>2, <1>6, <1>9, <1>11 DEF Orphaned, Called
  <2>. QED BY <2>1, <2>2
<1>13. Sound(v) /\ Synced(v)
  <2>1. l \in Leaves(u) /\ Win \in AppNames /\ l \in DOMAIN u.frames /\ u.frames[l] \in Clients
    BY <1>2, <1>7, <1>9, <1>11, AppsAre
  <2>. QED BY <1>1, <1>6, <1>8, <1>10, <1>12, <2>1, FillApplied
<1>14. SameBody(v, w)
  BY <1>1, <1>13, focusSame DEF Sound
<1>. QED BY <1>13, <1>14, SoundBody

LEMMA toggleFloatIs ==
  ASSUME NEW s, Sound(s), Synced(s), Held(s), CanPlace(s), NEW t, t = toggleFloat(s)
  PROVE  Sound(t) /\ Synced(t)
<1>1. Roomy(s) /\ Frames(s)
  BY RoomyIs DEF Sound
<1>2. CASE FocusedFloat(s) \in s.floats
  BY <1>1, <1>2, sinkFloatIs DEF toggleFloat
<1>3. CASE FocusedFloat(s) \notin s.floats /\ Floatable(s)
  <2>1. PICK c : c = FrameAt(s, FocusedLeaf(s)) /\ t = liftTile(s, c)
    BY <1>3 DEF toggleFloat
  <2>2. c \in Clients
    BY <1>3, <2>1 DEF Floatable
  <2>3. c \in s.managed \ s.floats
    BY <1>1, <2>1, <2>2, Names DEF FrameAt, Frames, Framed
  <2>. QED BY <2>1, <2>3, liftTileIs
<1>4. CASE FocusedFloat(s) \notin s.floats /\ ~Floatable(s)
  BY <1>4 DEF toggleFloat
<1>. QED BY <1>2, <1>3, <1>4

-----------------------------------------------------------------------------
(* The launcher puts an app on a tile.                                     *)

LEMMA launchBuiltinIs ==
  ASSUME NEW s, Sound(s), Roomy(s), CanPlace(s), NEW w, w = launchBuiltin(s)
  PROVE  Sound(w) /\ Synced(w)
<1>1. PICK l, p, v : l = PlacementLeaf(s) /\ p = Placed(s) /\ v = Apply(p, SetApp(l, Builtin)) /\ w = focus(v, l)
  BY DEF launchBuiltin
<1>2. /\ Shell(p) /\ Tree(p) /\ Frames(p) /\ Matched(p) /\ Orphaned(p)
      /\ l \in Leaves(p) /\ l \notin DOMAIN p.frames
  BY <1>1, PlacedIs
<1>3. MatchedBut(p, l) /\ Called(p)
  BY <1>2 DEF Matched, MatchedBut, Orphaned, Called
<1>4. Sound(v) /\ Synced(v)
  BY <1>1, <1>2, <1>3, AppsAre, FillApplied
<1>5. SameBody(v, w)
  BY <1>1, <1>4, focusSame DEF Sound
<1>. QED BY <1>4, <1>5, SoundBody

LEMMA launchIntoTileIs ==
  ASSUME NEW s, Sound(s), NEW l \in DOMAIN s.frames, s.frames[l] \notin Clients, l \in CurrentLeaves(s),
         NEW w, w = launchIntoTile(s, l)
  PROVE  Sound(w) /\ Synced(w)
<1>1. PICK v : v = Apply(s, SetApp(l, Builtin)) /\ w = focus(v, l)
  BY DEF launchIntoTile
<1>2. Shell(s) /\ Tree(s) /\ Frames(s) /\ MatchedBut(s, l) /\ Called(s)
  BY SoundCalled DEF Sound, Matched, MatchedBut
<1>3. l \in Leaves(s)
  BY <1>2, CurrentIs DEF Tree
<1>4. Sound(v) /\ Synced(v)
  BY <1>1, <1>2, <1>3, AppsAre, FillApplied
<1>5. SameBody(v, w)
  BY <1>1, <1>4, focusSame DEF Sound
<1>. QED BY <1>4, <1>5, SoundBody

-----------------------------------------------------------------------------
(* Two tiles trade places, their frames with them.                         *)

\* Where nothing vanished and every leaf has a frame, syncBuiltins does nothing.
LEMMA SyncNothing ==
  ASSUME NEW s, Shell(s), Frames(s), Leaves(s) \subseteq DOMAIN s.frames,
         \A l \in DOMAIN s.frames \ Leaves(s) : s.frames[l] \in Clients
  PROVE  SameBody(s, syncBuiltins(s))
<1>1. PICK L, gone, t : L = Leaves(s) /\ gone = Gone(s) /\ t = DropBuiltins(s, gone)
  OBVIOUS
<1>2. gone = {}
  BY <1>1 DEF Gone
<1>3. /\ Shell(t) /\ t.spaces = s.spaces /\ t.cur = s.cur /\ t.leafOf = s.leafOf
      /\ t.wsOf = s.wsOf /\ t.managed = s.managed /\ t.floats = s.floats /\ t.asked = s.asked /\ t.fs = s.fs
      /\ t.frames = Without(s.frames, {}) /\ t.wins = s.wins \ {}
  <2>1. t = [s EXCEPT !.frames = Without(@, {}), !.wins = @ \ {}, !.xf = IF @ \in {} THEN None ELSE @]
    <3>1. {s.frames[l] : l \in {}} = {}
      OBVIOUS
    <3>. QED BY <1>1, <1>2, <3>1 DEF DropBuiltins
  <2>. QED BY <2>1 DEF Shell, Fields
<1>4. t.frames = s.frames /\ t.wins = s.wins
  BY <1>3 DEF Without, Frames
<1>5. SameBody(s, t)
  BY <1>3, <1>4 DEF SameBody, SameMaps
<1>6. PICK B, new : B = Bare(t, L) /\ new = NewWins(B, Free(t)) /\ syncBuiltins(s) = Open(t, new)
  BY <1>1 DEF syncBuiltins, SyncIn
<1>7. B = {}
  BY <1>1, <1>4, <1>6 DEF Bare
<1>8. DOMAIN new = {}
  BY <1>6, <1>7 DEF NewWins
<1>9. PICK opened, back, u : /\ opened = {new[l] : l \in DOMAIN new} /\ u = Open(t, new)
                             /\ back = [f \in opened |-> CHOOSE l \in DOMAIN new : new[l] = f]
                             /\ u = [t EXCEPT !.frames = Over(new, @), !.wins = @ \cup opened,
                                              !.leafOf = Over(back, @)]
  BY DEF Open
<1>10. opened = {} /\ DOMAIN back = {}
  <2>1. opened = {}
    BY <1>8, <1>9
  <2>. QED BY <1>9, <2>1
<1>11. /\ Shell(u) /\ u.spaces = t.spaces /\ u.cur = t.cur /\ u.leafOf = Over(back, t.leafOf)
       /\ u.wsOf = t.wsOf /\ u.managed = t.managed /\ u.floats = t.floats /\ u.asked = t.asked /\ u.fs = t.fs
       /\ u.frames = Over(new, t.frames) /\ u.wins = t.wins \cup opened
  BY <1>3, <1>9 DEF Shell, Fields
<1>12. u.frames = t.frames
  BY <1>4, <1>8, <1>11 DEF Over, Frames
<1>13. u.leafOf = t.leafOf
  BY <1>3, <1>10, <1>11 DEF Over, Frames
<1>14. u.wins = t.wins
  BY <1>10, <1>11
<1>15. SameBody(t, u)
  BY <1>11, <1>12, <1>13, <1>14 DEF SameBody, SameMaps
<1>. QED BY <1>5, <1>6, <1>9, <1>15, SameTrans

\* The maps after two frames traded leaves.
LEMMA TradedIs ==
  ASSUME NEW s, Frames(s), NEW a \in DOMAIN s.frames, NEW b \in DOMAIN s.frames,
         NEW F, DOMAIN F = DOMAIN s.frames, F[a] = s.frames[b], F[b] = s.frames[a],
         \A l \in DOMAIN s.frames : l # a /\ l # b => F[l] = s.frames[l],
         F \in [DOMAIN F -> Clients \cup Builtins],
         NEW K, DOMAIN K = DOMAIN s.leafOf, K[s.frames[b]] = a, K[s.frames[a]] = b,
         \A f \in DOMAIN s.leafOf : f # s.frames[a] /\ f # s.frames[b] => K[f] = s.leafOf[f],
         K \in [DOMAIN K -> LeafIds],
         NEW u, u.frames = F, u.leafOf = K, u.managed = s.managed, u.floats = s.floats, u.wins = s.wins,
         u.wsOf = s.wsOf, u.fs = s.fs
  PROVE  Frames(u)
<1>1. PICK fa, fb : fa = s.frames[a] /\ fb = s.frames[b]
  OBVIOUS
<1>2. fa \in Framed(s) /\ fb \in Framed(s) /\ s.leafOf[fa] = a /\ s.leafOf[fb] = b
  BY <1>1 DEF Frames
<1>3. Framed(u) = Framed(s)
  BY DEF Framed
<1>4. ASSUME NEW m \in DOMAIN F PROVE F[m] \in Framed(s) /\ F[m] \in DOMAIN K /\ K[F[m]] = m
  <2>1. CASE m = a \/ m = b
    <3>1. fa \in DOMAIN s.leafOf /\ fb \in DOMAIN s.leafOf
      BY <1>2 DEF Frames
    <3>. QED BY <1>1, <1>2, <2>1, <3>1
  <2>2. CASE m # a /\ m # b
    <3>1. m \in DOMAIN s.frames /\ F[m] = s.frames[m]
      BY <2>2
    <3>2. s.frames[m] \in Framed(s) /\ s.frames[m] \in DOMAIN s.leafOf /\ s.leafOf[s.frames[m]] = m
      BY <3>1 DEF Frames
    <3>3. s.frames[m] # fa /\ s.frames[m] # fb
      BY <1>2, <2>2, <3>2
    <3>. QED BY <1>1, <3>1, <3>2, <3>3
  <2>. QED BY <2>1, <2>2
<1>5. ASSUME NEW f \in Framed(s) PROVE f \in DOMAIN K /\ K[f] \in DOMAIN F /\ F[K[f]] = f
  <2>1. f \in DOMAIN s.leafOf /\ s.leafOf[f] \in DOMAIN s.frames /\ s.frames[s.leafOf[f]] = f
    BY DEF Frames
  <2>2. CASE f = fa \/ f = fb
    BY <1>1, <2>1, <2>2
  <2>3. CASE f # fa /\ f # fb
    <3>1. s.leafOf[f] # a /\ s.leafOf[f] # b
      BY <1>1, <2>1, <2>3
    <3>. QED BY <1>1, <2>1, <2>3, <3>1
  <2>. QED BY <2>2, <2>3
<1>6. DOMAIN F \subseteq LeafIds
  BY DEF Frames
<1>. QED BY <1>3, <1>4, <1>5, <1>6 DEF Frames

LEMMA swapFramesIs ==
  ASSUME NEW s, Sound(s), Synced(s), "swap" \in Ops, NEW a, NEW b, NEW w, w = swapFrames(s, a, b)
  PROVE  Sound(w) /\ Synced(w)
<1>1. CASE ~SameWs(s, a, b)
  BY <1>1 DEF swapFrames, Exchange
<1>2. CASE SameWs(s, a, b)
  <2>1. /\ Shell(s) /\ Tree(s) /\ Frames(s) /\ Matched(s) /\ Orphaned(s) /\ RowsOK(s.spaces)
        /\ a \in Leaves(s) /\ b \in Leaves(s)
    BY <1>2 DEF Sound, Tree, SameWs
  <2>2. \A y \in Tiles(s.spaces) : y.id \in DOMAIN s.frames
    BY <2>1 DEF Matched, Synced
  <2>3. Leaves(s) \subseteq DOMAIN s.frames
    BY <2>1, <2>2, LeavesAre
  <2>4. a \in DOMAIN s.frames /\ b \in DOMAIN s.frames
    BY <2>1, <2>3
  <2>5. FrameAt(s, a) = s.frames[a] /\ FrameAt(s, b) = s.frames[b]
    BY <2>4 DEF FrameAt
  <2>6. PICK o, k, t, to : /\ o = Op("swap-leaves", a, b, NoWs, NoApp) /\ k = Core(s, o) /\ t = Apply(s, o)
                           /\ to = [f \in {s.frames[a], s.frames[b]} |-> IF f = s.frames[b] THEN a ELSE b]
    OBVIOUS
  <2>7. PICK F, K : /\ F = Over(At(a, s.frames[b]), Over(At(b, s.frames[a]), Without(t.frames, {a, b})))
                    /\ K = [f \in DOMAIN t.leafOf |-> IF f \in DOMAIN to THEN to[f] ELSE t.leafOf[f]]
    OBVIOUS
  <2>8. PICK u : u = [t EXCEPT !.frames = F, !.leafOf = K]
    OBVIOUS
  <2>9. PICK v : v = IF FocusedLeaf(u) = a THEN SetTile(u, b) ELSE IF FocusedLeaf(u) = b THEN SetTile(u, a) ELSE u
    OBVIOUS
  <2>10. w = relayout(v)
    <3>1. SameWs(s, a, b) /\ w = swapFrames(s, a, b) /\ FrameAt(s, a) = s.frames[a] /\ FrameAt(s, b) = s.frames[b]
      BY <1>2, <2>5
    <3>. QED BY ONLY <2>6, <2>7, <2>8, <2>9, <3>1 DEF swapFrames, Exchange
  <2>11. /\ o.op = "swap-leaves" /\ o.node = a /\ o.target = b /\ ~Reaps(o) /\ ~Switches(o)
    BY <2>6 DEF Op, Reaps, Switches
  <2>12. CanApply(s, o)
    BY <1>2, <2>11 DEF CanApply
  <2>13. /\ OnlyTree(s, k) /\ Tree(k)
        /\ \E y, z \in Tiles(s.spaces) :
             /\ y.id = o.node /\ z.id = o.target
             /\ Tiles(k.spaces) = {n \in Tiles(s.spaces) : n.id \notin {o.node, o.target}}
                                    \cup {Tile(o.node, z.app), Tile(o.target, y.app)}
    <3>1. Shell(s) /\ Tree(s) /\ o.op = "swap-leaves" /\ CanApply(s, o) /\ k = Core(s, o)
      BY <2>1, <2>6, <2>11, <2>12
    <3>. QED BY ONLY <3>1, CoreSwap
  <2>14. PICK y \in Tiles(s.spaces), z \in Tiles(s.spaces) :
          /\ y.id = a /\ z.id = b
          /\ Tiles(k.spaces) = {n \in Tiles(s.spaces) : n.id \notin {a, b}} \cup {Tile(a, z.app), Tile(b, y.app)}
    BY <2>11, <2>13
  <2>15. /\ Tile(a, z.app).id = a /\ Tile(a, z.app).app = z.app
         /\ Tile(b, y.app).id = b /\ Tile(b, y.app).app = y.app
    BY DEF Tile
  <2>16. Leaves(k) = Leaves(s)
    <3>1. Leaves(k) = {n.id : n \in Tiles(k.spaces)} /\ Leaves(s) = {n.id : n \in Tiles(s.spaces)}
      BY <2>1, <2>13, LeavesAre DEF Tree
    <3>2. \A m : m \in Leaves(k) <=> m \in Leaves(s)
      BY <2>1, <2>14, <2>15, <3>1
    <3>. QED BY <3>2
  <2>17. Shell(k) /\ Frames(k)
    BY <2>1, <2>13, OnlyTreeIs DEF OnlyTree
  <2>18. SameBody(k, syncBuiltins(k))
    <3>1. Leaves(k) \subseteq DOMAIN k.frames /\ \A l \in DOMAIN k.frames \ Leaves(k) : k.frames[l] \in Clients
      BY <2>1, <2>3, <2>13, <2>16 DEF OnlyTree, Orphaned
    <3>. QED BY <2>17, <3>1, SyncNothing
  <2>19. SameBody(k, t)
    <3>1. t = relayout(syncBuiltins(k))
      BY <2>6, <2>11, <2>12 DEF Apply, Reconcile, Screen
    <3>2. SameBody(syncBuiltins(k), t)
      BY <2>18, <3>1, relayoutSame DEF SameBody, SameMaps
    <3>. QED BY <2>18, <3>2, SameTrans
  <2>20. /\ Shell(t) /\ t.spaces = k.spaces /\ t.cur = k.cur /\ t.frames = s.frames /\ t.leafOf = s.leafOf
         /\ t.wsOf = s.wsOf /\ t.managed = s.managed /\ t.floats = s.floats /\ t.wins = s.wins
         /\ t.asked = s.asked /\ t.fs = s.fs
    BY <2>13, <2>19 DEF SameBody, SameMaps, OnlyTree
  <2>21. /\ Shell(u) /\ u.spaces = k.spaces /\ u.cur = k.cur /\ u.frames = F /\ u.leafOf = K
         /\ u.wsOf = s.wsOf /\ u.managed = s.managed /\ u.floats = s.floats /\ u.wins = s.wins
         /\ u.asked = s.asked /\ u.fs = s.fs
    BY <2>8, <2>20 DEF Shell, Fields
  <2>22. PICK fa, fb, R : fa = s.frames[a] /\ fb = s.frames[b] /\ R = Over(At(b, fa), Without(s.frames, {a, b}))
    OBVIOUS
  <2>23. /\ fa \in Framed(s) /\ fb \in Framed(s) /\ s.leafOf[fa] = a /\ s.leafOf[fb] = b /\ (fa = fb <=> a = b)
         /\ fa \in Clients \cup Builtins /\ fb \in Clients \cup Builtins /\ a \in LeafIds /\ b \in LeafIds
         /\ fa \in DOMAIN s.leafOf /\ fb \in DOMAIN s.leafOf
    BY <2>1, <2>4, <2>22 DEF Frames
  <2>24. /\ DOMAIN F = DOMAIN s.frames /\ F[a] = fb /\ F[b] = fa
         /\ \A l \in DOMAIN s.frames : l # a /\ l # b => F[l] = s.frames[l]
         /\ F \in [DOMAIN F -> Clients \cup Builtins]
    <3>1. fa # None /\ fb # None
      BY <2>23, Names
    <3>2. /\ DOMAIN At(a, fb) = {a} /\ At(a, fb)[a] = fb
          /\ DOMAIN At(b, fa) = {b} /\ At(b, fa)[b] = fa
      BY <3>1 DEF At
    <3>3. /\ DOMAIN R = {b} \cup (DOMAIN s.frames \ {a, b}) /\ R[b] = fa
          /\ \A l \in DOMAIN s.frames \ {a, b} : R[l] = s.frames[l]
      BY <2>22, <3>2 DEF Over, Without
    <3>4. F = Over(At(a, fb), R)
      BY <2>7, <2>20, <2>22
    <3>5. DOMAIN F = {a} \cup DOMAIN R /\ F = [l \in DOMAIN F |-> F[l]]
      BY <3>2, <3>4 DEF Over
    <3>6. DOMAIN F = DOMAIN s.frames
      BY <2>4, <3>3, <3>5
    <3>7. F[a] = fb /\ \A l \in DOMAIN R \ {a} : F[l] = R[l]
      BY <3>2, <3>4, <3>5 DEF Over
    <3>8. F[b] = fa
      BY <2>23, <3>3, <3>7
    <3>9. \A l \in DOMAIN s.frames : l # a /\ l # b => F[l] = s.frames[l]
      BY <3>3, <3>7
    <3>10. \A l \in DOMAIN F : F[l] \in Clients \cup Builtins
      <4>1. \A l \in DOMAIN s.frames : s.frames[l] \in Clients \cup Builtins
        BY <2>1 DEF Frames
      <4>. QED BY <2>23, <3>6, <3>7, <3>8, <3>9, <4>1
    <3>. QED BY <3>5, <3>6, <3>7, <3>8, <3>9, <3>10
  <2>25. /\ DOMAIN K = DOMAIN s.leafOf /\ K[fb] = a /\ K[fa] = b
         /\ \A f \in DOMAIN s.leafOf : f # fa /\ f # fb => K[f] = s.leafOf[f]
         /\ K \in [DOMAIN K -> LeafIds]
    <3>1. DOMAIN to = {fa, fb} /\ to[fb] = a /\ to[fa] = b
      BY <2>6, <2>22, <2>23
    <3>2. K = [f \in DOMAIN s.leafOf |-> IF f \in DOMAIN to THEN to[f] ELSE s.leafOf[f]]
      BY <2>7, <2>20
    <3>3. /\ DOMAIN K = DOMAIN s.leafOf /\ K[fb] = a /\ K[fa] = b /\ K = [f \in DOMAIN K |-> K[f]]
          /\ \A f \in DOMAIN s.leafOf : f # fa /\ f # fb => K[f] = s.leafOf[f]
      BY <2>23, <3>1, <3>2
    <3>4. \A f \in DOMAIN K : K[f] \in LeafIds
      BY <2>1, <2>23, <3>3 DEF Frames
    <3>. QED BY <3>3, <3>4
  <2>26. Frames(u)
    BY <2>1, <2>4, <2>21, <2>22, <2>24, <2>25, TradedIs
  <2>27. Leaves(u) = Leaves(k) /\ WsIdsOf(u) = WsIdsOf(k)
    BY <2>21 DEF Leaves, WsIdsOf
  <2>28. Tree(u)
    BY <2>13, <2>21, <2>27 DEF Tree
  <2>29. \A n \in Tiles(k.spaces) : n.id \in DOMAIN F
    BY <2>2, <2>4, <2>14, <2>15, <2>22, <2>24
  <2>30. Matched(u) /\ Synced(u)
    <3>1. Synced(u)
      BY <2>21, <2>29 DEF Synced
    <3>2. ASSUME NEW n \in Tiles(k.spaces) PROVE n.app = Win <=> F[n.id] \in Clients
      <4>1. CASE n = Tile(a, z.app)
        BY <2>1, <2>4, <2>14, <2>15, <2>22, <2>24, <4>1 DEF Matched
      <4>2. CASE n = Tile(b, y.app)
        BY <2>1, <2>4, <2>14, <2>15, <2>22, <2>24, <4>2 DEF Matched
      <4>3. CASE n \in Tiles(s.spaces) /\ n.id \notin {a, b}
        BY <2>1, <2>2, <2>24, <4>3 DEF Matched
      <4>. QED BY <2>14, <4>1, <4>2, <4>3
    <3>3. Matched(u)
      BY <2>21, <2>29, <3>2 DEF Matched
    <3>. QED BY <3>1, <3>3
  <2>31. Orphaned(u)
    BY <2>1, <2>16, <2>21, <2>24, <2>27 DEF Orphaned
  <2>32. Sound(u) /\ Synced(u)
    BY <2>21, <2>26, <2>28, <2>30, <2>31 DEF Sound
  <2>33. SameBody(u, v)
    BY <2>9, <2>21, RegistersSame, SameSelf
  <2>34. SameBody(v, w)
    BY <2>10, <2>33, relayoutSame DEF SameBody, SameMaps
  <2>35. SameBody(u, w)
    BY <2>33, <2>34, SameTrans
  <2>. QED BY <2>32, <2>35, SoundBody
<1>. QED BY <1>1, <1>2

-----------------------------------------------------------------------------
(* The invariant holds when the window manager has booted.                 *)

LEMMA BootingIs == Sound(Booting) /\ Held(Booting) /\ CanPlace(Booting) /\ Booting.managed = {}
<1>1. PICK s, row, S : s = Booting /\ row = <<Tile(1, Launcher)>> /\ S = <<[id |-> 1, row |-> row]>>
  OBVIOUS
<1>2. /\ DOMAIN s = Fields /\ s = [k \in Fields |-> s[k]]
      /\ s.spaces = S /\ s.cur = 1
      /\ s.frames = [l \in {} |-> None] /\ s.leafOf = [f \in {} |-> NoLeaf] /\ s.wsOf = [c \in {} |-> NoWs]
      /\ s.managed = {} /\ s.floats = {} /\ s.wins = {} /\ s.asked = {} /\ s.fs = None
  BY <1>1 DEF Booting, Fields
<1>3. 1 \in LeafIds /\ 1 \in WsIds
  BY Names DEF LeafIds, WsIds
<1>4. Tile(1, Launcher) \in TileRecs /\ Tile(1, Launcher).id = 1 /\ Tile(1, Launcher).app = Launcher
  BY <1>3, AppsAre DEF Tile, TileRecs
<1>5. Row(row) /\ RowTiles(row) = {Tile(1, Launcher)}
  BY <1>1, <1>4, RowOne
<1>6. DOMAIN row = {1} /\ row[1] = Tile(1, Launcher)
  BY <1>1
<1>7. S \in Seq(Spaces) /\ DOMAIN S = {1} /\ S[1].row = row /\ S[1].id = 1 /\ Len(S) = 1
  <2>1. [id |-> 1, row |-> row] \in Spaces
    BY <1>3, <1>5 DEF Spaces, Row
  <2>. QED BY <1>1, <2>1
<1>8. RowsOK(S)
  BY <1>5, <1>7 DEF RowsOK, Row
<1>9. Leaves(s) = {1}
  <2>1. RowIds(row) = {1}
    BY <1>4, <1>6 DEF RowIds
  <2>. QED BY <1>2, <1>7, <2>1 DEF Leaves
<1>10. Tree(s)
  <2>1. Cardinality(Leaves(s)) = 1
    BY <1>9, FS_Singleton
  <2>2. s.cur \in WsIdsOf(s)
    BY <1>2, <1>7 DEF WsIdsOf
  <2>3. 1 <= MaxLeaves /\ 1 <= MaxWs
    BY Names
  <2>4. RowsOK(s.spaces) /\ Len(s.spaces) = 1
    BY <1>2, <1>7, <1>8
  <2>. QED BY <2>1, <2>2, <2>3, <2>4 DEF Tree
<1>11. Framed(s) = {} /\ DOMAIN s.frames = {} /\ DOMAIN s.leafOf = {} /\ DOMAIN s.wsOf = {}
  BY <1>2 DEF Framed
<1>12. Frames(s)
  BY <1>2, <1>11, Names DEF Frames
<1>13. Tiles(s.spaces) = {Tile(1, Launcher)}
  <2>1. Tiles(S) = RowTiles(S[1].row)
    BY ONLY <1>7 DEF Tiles
  <2>. QED BY ONLY <1>2, <1>5, <1>7, <2>1
<1>14. Matched(s) /\ Orphaned(s) /\ Held(s)
  BY <1>4, <1>11, <1>13, AppsAre DEF Matched, Orphaned, Held
<1>15. CanPlace(s)
  <2>1. CurrentRow(s) = row
    <3>1. WsAt(s, s.cur) \in DOMAIN s.spaces
      BY <1>10, <1>8, <1>2, CurrentIs DEF Tree
    <3>. QED BY <1>2, <1>7, <3>1 DEF CurrentRow
  <2>2. 1 \in Empty(s)
    BY <1>4, <1>6, <2>1 DEF Empty
  <2>. QED BY <2>2 DEF CanPlace
<1>. QED BY <1>1, <1>2, <1>10, <1>12, <1>14, <1>15 DEF Sound, Shell

LEMMA InitIs == Init => IInv
<1> SUFFICES ASSUME Init PROVE IInv
  OBVIOUS
<1>1. PICK s : Sound(s) /\ wm = Collect(refocusCurrent(relayout(syncBuiltins(s))))
  <2>1. PICK adopted \in {{}} \cup {{c} : c \in Clients} :
          \E s \in IF adopted = {} THEN {Booting}
                   ELSE UNION {{manage(Booting, c), manageFloat(Booting, c)} : c \in adopted} :
            wm = Collect(refocusCurrent(relayout(syncBuiltins(s))))
    BY DEF Init
  <2>2. PICK s \in IF adopted = {} THEN {Booting}
                   ELSE UNION {{manage(Booting, c), manageFloat(Booting, c)} : c \in adopted} :
            wm = Collect(refocusCurrent(relayout(syncBuiltins(s))))
    BY <2>1
  <2>3. Sound(Booting) /\ Roomy(Booting) /\ CanPlace(Booting) /\ Booting.managed = {}
    BY BootingIs, RoomyIs
  <2>4. \A c \in Clients : Sound(manage(Booting, c)) /\ Sound(manageFloat(Booting, c))
    BY <2>3, manageIs, manageFloatIs
  <2>5. Sound(s)
    BY <2>2, <2>3, <2>4
  <2>. QED BY <2>2, <2>5
<1>2. PICK t, u, v : t = syncBuiltins(s) /\ u = relayout(t) /\ v = refocusCurrent(u) /\ wm = Collect(v)
  BY <1>1
<1>3. Sound(t) /\ Synced(t)
  BY <1>1, <1>2, SoundCalled, SyncIs DEF Sound
<1>4. SameBody(t, u)
  BY <1>2, <1>3, relayoutSame DEF Sound
<1>5. Sound(u) /\ Synced(u)
  BY <1>3, <1>4, SoundBody
<1>6. SameBody(u, v)
  BY <1>2, <1>5, refocusCurrentSame DEF Sound
<1>7. Sound(v) /\ Synced(v)
  BY <1>5, <1>6, SoundBody
<1>. QED BY <1>2, <1>7, CollectIs DEF IInv

-----------------------------------------------------------------------------
(* Every handler preserves it.                                             *)

\* What a client does takes at most the X focus from its window.
LEMMA DropFocusIs ==
  ASSUME IInv, NEW c, wm' = DropFocus(wm, c)
  PROVE  IInv'
<1>1. PICK t : t = DropFocus(wm, c)
  OBVIOUS
<1>2. Shell(wm)
  BY DEF IInv, Sound
<1>3. SameBody(wm, t)
  BY <1>1, <1>2 DEF DropFocus, SameBody, SameMaps, Shell, Fields
<1>4. Sound(t) /\ Synced(t)
  BY <1>3, SoundBody DEF IInv
<1>5. Held(t)
  BY <1>3 DEF IInv, Held, SameBody, SameMaps, Framed
<1>. QED BY <1>1, <1>4, <1>5 DEF IInv

LEMMA SameWm ==
  ASSUME IInv, wm' = wm
  PROVE  IInv'
BY DEF IInv

LEMMA HandlersKeep ==
  ASSUME IInv, NEW c \in Clients,
         handleMapRequest(c) \/ handleDestroyNotify(c) \/ handleUnmapNotify(c)
  PROVE  IInv'
<1>1. Sound(wm) /\ Synced(wm) /\ Roomy(wm)
  BY RoomyIs DEF IInv
<1>2. CASE handleMapRequest(c)
  <2>1. CASE c \in wm.managed
    BY <1>2, <2>1, SameWm DEF handleMapRequest
  <2>2. CASE c \notin wm.managed
    <3>1. Become(manageFloat(wm, c)) \/ (CanPlace(wm) /\ Become(manage(wm, c)))
      BY <1>2, <2>2 DEF handleMapRequest
    <3>2. CASE Become(manageFloat(wm, c))
      <4>1. Sound(manageFloat(wm, c)) /\ Synced(manageFloat(wm, c))
        BY <1>1, <2>2, manageFloatIs
      <4>. QED BY <3>2, <4>1, BecomeIs
    <3>3. CASE CanPlace(wm) /\ Become(manage(wm, c))
      <4>1. Sound(manage(wm, c)) /\ Synced(manage(wm, c))
        BY <1>1, <2>2, <3>3, manageIs
      <4>. QED BY <3>3, <4>1, BecomeIs
    <3>. QED BY <3>1, <3>2, <3>3
  <2>. QED BY <2>1, <2>2
<1>3. Sound(unmanage(wm, c)) /\ Synced(unmanage(wm, c))
  BY <1>1, unmanageIs
<1>4. CASE handleDestroyNotify(c)
  BY <1>3, <1>4, BecomeIs DEF handleDestroyNotify
<1>5. CASE handleUnmapNotify(c)
  <2>1. CASE Withdrawn(wm, c)
    BY <1>3, <1>5, <2>1, BecomeIs DEF handleUnmapNotify
  <2>2. CASE ~Withdrawn(wm, c)
    BY <1>5, <2>2, SameWm DEF handleUnmapNotify
  <2>. QED BY <2>1, <2>2
<1>. QED BY <1>2, <1>4, <1>5

LEMMA OpsKeep ==
  ASSUME SaneOps, IInv, ApplyOp \/ Batch
  PROVE  IInv'
<1>1. Sound(wm) /\ Synced(wm) /\ Held(wm)
  BY DEF IInv
<1>2. CASE ApplyOp
  <2>1. PICK o \in Doable(wm) : Become(Apply(wm, o))
    BY <1>2 DEF ApplyOp
  <2>2. o \in OpsFor(wm) /\ CanApply(wm, o) /\ Fits(wm, o)
    BY <2>1 DEF Doable
  <2>3. Sound(Apply(wm, o)) /\ Synced(Apply(wm, o))
    BY <1>1, <2>2, ApplyIs
  <2>. QED BY <2>1, <2>3, BecomeIs
<1>3. CASE Batch
  <2>1. PICK o1 \in Doable(wm) : \E o2 \in OpsFor(Core(wm, o1)) :
          (CanApply(Core(wm, o1), o2) => Fits(Core(wm, o1), o2)) /\ Become(ApplyBatch(wm, o1, o2))
    BY <1>3 DEF Batch
  <2>2. PICK o2 \in OpsFor(Core(wm, o1)) :
          (CanApply(Core(wm, o1), o2) => Fits(Core(wm, o1), o2)) /\ Become(ApplyBatch(wm, o1, o2))
    BY <2>1
  <2>3. o1 \in OpsFor(wm) /\ CanApply(wm, o1) /\ Fits(wm, o1)
    BY <2>1 DEF Doable
  <2>4. Sound(ApplyBatch(wm, o1, o2)) /\ Synced(ApplyBatch(wm, o1, o2))
    BY <1>1, <2>2, <2>3, ApplyBatchIs
  <2>. QED BY <2>2, <2>4, BecomeIs
<1>. QED BY <1>2, <1>3

LEMMA ActsKeep ==
  ASSUME IInv, Close \/ Focus \/ ClickFloat \/ Fullscreen \/ Float \/ Swap \/ Launch
  PROVE  IInv'
<1>1. Sound(wm) /\ Synced(wm) /\ Held(wm) /\ Roomy(wm) /\ Shell(wm)
  BY RoomyIs DEF IInv, Sound
<1>2. CASE Close
  <2>1. PICK f \in wm.managed \cup wm.wins : Become(closeClient(wm, f))
    BY <1>2 DEF Close
  <2>2. Sound(closeClient(wm, f)) /\ Synced(closeClient(wm, f))
    BY <1>1, closeClientIs
  <2>. QED BY <2>1, <2>2, BecomeIs
<1>3. CASE Focus
  <2>1. PICK l \in CurrentLeaves(wm) : Become(focus(wm, l))
    BY <1>3 DEF Focus
  <2>2. Sound(focus(wm, l)) /\ Synced(focus(wm, l))
    BY <1>1, focusSame, SoundBody
  <2>. QED BY <2>1, <2>2, BecomeIs
<1>4. CASE ClickFloat
  <2>1. PICK c \in wm.floats : Become(focusFloat(wm, c))
    BY <1>4 DEF ClickFloat
  <2>2. Sound(focusFloat(wm, c)) /\ Synced(focusFloat(wm, c))
    BY <1>1, focusFloatSame, SoundBody
  <2>. QED BY <2>1, <2>2, BecomeIs
<1>5. CASE Fullscreen
  <2>1. Sound(toggleFullscreen(wm)) /\ Synced(toggleFullscreen(wm))
    BY <1>1, toggleFullscreenIs
  <2>. QED BY <1>5, <2>1, BecomeIs DEF Fullscreen
<1>6. CASE Float
  <2>1. Sound(toggleFloat(wm)) /\ Synced(toggleFloat(wm))
    BY <1>1, <1>6, toggleFloatIs DEF Float
  <2>. QED BY <1>6, <2>1, BecomeIs DEF Float
<1>7. CASE Swap
  <2>1. PICK a \in Leaves(wm), b \in Leaves(wm) : Become(swapFrames(wm, a, b))
    BY <1>7 DEF Swap
  <2>2. Sound(swapFrames(wm, a, b)) /\ Synced(swapFrames(wm, a, b))
    BY <1>1, <1>7, swapFramesIs DEF Swap
  <2>. QED BY <2>1, <2>2, BecomeIs
<1>8. CASE Launch
  <2>1. CASE CanPlace(wm) /\ Become(launchBuiltin(wm))
    <3>1. Sound(launchBuiltin(wm)) /\ Synced(launchBuiltin(wm))
      BY <1>1, <2>1, launchBuiltinIs
    <3>. QED BY <2>1, <3>1, BecomeIs
  <2>2. CASE \E l \in DOMAIN wm.frames :
               /\ wm.frames[l] \notin Clients /\ l \in CurrentLeaves(wm) /\ AppOf(wm, l) = Launcher
               /\ Become(launchIntoTile(wm, l))
    <3>1. PICK l \in DOMAIN wm.frames :
               wm.frames[l] \notin Clients /\ l \in CurrentLeaves(wm) /\ Become(launchIntoTile(wm, l))
      BY <2>2
    <3>2. Sound(launchIntoTile(wm, l)) /\ Synced(launchIntoTile(wm, l))
      BY <1>1, <3>1, launchIntoTileIs
    <3>. QED BY <3>1, <3>2, BecomeIs
  <2>. QED BY <1>8, <2>1, <2>2 DEF Launch
<1>. QED BY <1>2, <1>3, <1>4, <1>5, <1>6, <1>7, <1>8

LEMMA Inductive ==
  ASSUME SaneOps, IInv, [Next]_vars
  PROVE  IInv'
<1>1. CASE UNCHANGED vars
  BY <1>1, SameWm DEF vars
<1>2. CASE \E c \in Clients : ClientMap(c) \/ ClientUnmap(c) \/ ClientExit(c)
  <2>1. PICK c \in Clients : ClientMap(c) \/ ClientUnmap(c) \/ ClientExit(c)
    BY <1>2
  <2>2. CASE ClientMap(c)
    BY <2>2, SameWm DEF ClientMap
  <2>3. CASE ClientUnmap(c) \/ ClientExit(c)
    BY <2>3, DropFocusIs DEF ClientUnmap, ClientExit
  <2>. QED BY <2>1, <2>2, <2>3
<1>3. CASE \E c \in Clients : handleMapRequest(c) \/ handleDestroyNotify(c) \/ handleUnmapNotify(c)
  BY <1>3, HandlersKeep
<1>4. CASE ApplyOp \/ Batch
  BY <1>4, OpsKeep
<1>5. CASE Close \/ Focus \/ ClickFloat \/ Fullscreen \/ Float \/ Swap \/ Launch
  BY <1>5, ActsKeep
<1>. QED BY <1>1, <1>2, <1>3, <1>4, <1>5 DEF Next

LEMMA Invariance == SaneOps => (Spec => []IInv)
<1> SUFFICES ASSUME SaneOps PROVE Spec => []IInv
  OBVIOUS
<1>1. Init => IInv
  BY InitIs
<1>2. IInv /\ [Next]_vars => IInv'
  BY Inductive
<1>. QED BY <1>1, <1>2, PTL DEF Spec

-----------------------------------------------------------------------------
(* What follows from it.                                                   *)

(***************************************************************************)
(* WM.frames, client.leafID and the lists of clients and builtin frames    *)
(* agree after every handler: what manage, unmanage, the float toggle,     *)
(* swapFrames and syncBuiltins write to one they write to the others, and  *)
(* fullscreen never names a client that went.                              *)
(***************************************************************************)
THEOREM MapsAgree == SaneOps => (Spec => []FramesConsistent)
<1>1. IInv => FramesConsistent
  <2> SUFFICES ASSUME IInv PROVE FramesConsistent
    OBVIOUS
  <2>1. Frames(wm)
    BY DEF IInv, Sound
  <2>2. \A l \in DOMAIN wm.frames : wm.leafOf[wm.frames[l]] = l
    BY <2>1 DEF Frames
  <2>3. \A f \in (wm.managed \ wm.floats) \cup wm.wins : FrameAt(wm, wm.leafOf[f]) = f
    BY <2>1 DEF Frames, Framed, FrameAt
  <2>4. ASSUME NEW l \in DOMAIN wm.frames PROVE wm.frames[l] \notin wm.floats
    <3>1. wm.frames[l] \in (wm.managed \ wm.floats) \cup wm.wins
      BY <2>1 DEF Frames, Framed
    <3>2. wm.floats \subseteq Clients /\ wm.wins \subseteq Builtins
      BY <2>1 DEF Frames
    <3>. QED BY <3>1, <3>2, Names
  <2>5. wm.fs \in Clients => wm.fs \in wm.managed
    BY <2>1 DEF Frames
  <2>. QED BY <2>2, <2>3, <2>4, <2>5 DEF FramesConsistent
<1>2. SaneOps => (Spec => []IInv)
  BY Invariance
<1>. QED BY <1>1, <1>2, PTL

(***************************************************************************)
(* syncBuiltins and the ops keep the tree and the frames together: a       *)
(* builtin leaf shows a builtin frame, a client's leaf shows its client    *)
(* (or, in a cloned workspace, nothing), so that placementLeaf evicts no   *)
(* client.                                                                 *)
(***************************************************************************)
THEOREM TreeShown == SaneOps => (Spec => []TreeMatchesFrames)
<1>1. IInv => TreeMatchesFrames
  <2> SUFFICES ASSUME IInv, NEW l \in Leaves(wm)
               PROVE  IF isBuiltinLeaf(AppOf(wm, l)) THEN FrameAt(wm, l) \in Builtins
                                                     ELSE FrameAt(wm, l) \in Clients \cup {None}
    BY DEF TreeMatchesFrames
  <2>1. Frames(wm) /\ Matched(wm) /\ Synced(wm) /\ RowsOK(wm.spaces)
    BY DEF IInv, Sound, Tree
  <2>2. PICK t : t = Tile(l, AppOf(wm, l)) /\ t \in Tiles(wm.spaces)
    BY <2>1, AppOfIs
  <2>3. t.id = l /\ t.app = AppOf(wm, l)
    BY <2>2 DEF Tile
  <2>4. \A m \in DOMAIN wm.frames : wm.frames[m] \in Clients \cup Builtins
    BY <2>1 DEF Frames
  <2>5. CASE AppOf(wm, l) # Win
    <3>1. l \in DOMAIN wm.frames
      BY <2>1, <2>2, <2>3, <2>5 DEF Synced
    <3>2. wm.frames[l] \notin Clients
      BY <2>1, <2>2, <2>3, <2>5, <3>1 DEF Matched
    <3>. QED BY <2>4, <2>5, <3>1, <3>2 DEF isBuiltinLeaf, FrameAt
  <2>6. CASE AppOf(wm, l) = Win
    <3>1. l \in DOMAIN wm.frames => wm.frames[l] \in Clients
      BY <2>1, <2>2, <2>3, <2>6 DEF Matched
    <3>. QED BY <2>6, <3>1 DEF isBuiltinLeaf, FrameAt
  <2>. QED BY <2>5, <2>6
<1>2. SaneOps => (Spec => []IInv)
  BY Invariance
<1>. QED BY <1>1, <1>2, PTL

(***************************************************************************)
(* reapOrphanFrames runs for every op that may take a client's leaf away,  *)
(* in a batch too: no client is left alive, hidden and unasked to close.   *)
(***************************************************************************)
THEOREM NoneStranded == SaneOps => (Spec => []OrphansAsked)
<1>1. IInv => OrphansAsked
  BY DEF IInv, Sound, Orphaned, OrphansAsked
<1>2. SaneOps => (Spec => []IInv)
  BY Invariance
<1>. QED BY <1>1, <1>2, PTL
-----------------------------------------------------------------------------
(* What leaves the current workspace as it is.                             *)

Stays(s, t) == Shell(t) /\ t.cur = s.cur

LEMMA StaysTrans ==
  ASSUME NEW s, NEW t, NEW u, Stays(s, t), Stays(t, u)
  PROVE  Stays(s, u)
BY DEF Stays

LEMMA StaysShell ==
  ASSUME NEW s, NEW t, Stays(s, t)
  PROVE  Shell(t)
BY DEF Stays

LEMMA SameStays ==
  ASSUME NEW s, NEW t, SameMaps(s, t) \/ SameBody(s, t)
  PROVE  Stays(s, t)
BY DEF Stays, SameMaps, SameBody

\* What the focus does is no switch.
LEMMA FocusStays ==
  ASSUME NEW s, Shell(s), NEW f, NEW l
  PROVE  /\ Stays(s, s) /\ Stays(s, Give(s, f)) /\ Stays(s, relayout(s)) /\ Stays(s, SetTile(s, l))
         /\ Stays(s, ClearTarget(s)) /\ Stays(s, Restore(s)) /\ Stays(s, focus(s, l)) /\ Stays(s, focusFloat(s, f))
         /\ Stays(s, Refocus(s)) /\ Stays(s, FocusFirst(s)) /\ Stays(s, refocusCurrent(s))
         /\ Stays(s, exitFullscreen(s)) /\ Stays(s, clearFullscreenFor(s, f))
BY SameSelf, GiveSame, relayoutSame, RegistersSame, focusSame, focusFloatSame, RefocusSame, refocusCurrentSame,
   ExitSame, ClearSame, SameStays

\* The ops that edit rows of leaves.
RowOps == {"split-leaf", "close-leaf", "set-leaf-app", "swap-leaves", "move-split", "move-leaf"}

LEMMA CoreStays ==
  ASSUME NEW s, Shell(s), NEW o, o.op \in RowOps
  PROVE  Stays(s, Core(s, o))
<1>1. \A S : Stays(s, [s EXCEPT !.spaces = S])
  BY DEF Stays, Shell, Fields
<1>2. PICK i, k, j, d : i = WsOf(s, o.node) /\ k = Pos(s.spaces[i].row, o.node)
                        /\ j = Pos(s.spaces[i].row, o.target) /\ d = WsAt(s, o.ws)
  OBVIOUS
<1>3. \E S : Core(s, o) = [s EXCEPT !.spaces = S]
  <2>1. CASE o.op = "split-leaf"
    BY <1>2, <2>1 DEF Core
  <2>2. CASE o.op = "close-leaf"
    BY <1>2, <2>2 DEF Core
  <2>3. CASE o.op = "set-leaf-app"
    BY <1>2, <2>3 DEF Core
  <2>4. CASE o.op = "swap-leaves"
    BY <1>2, <2>4 DEF Core
  <2>5. CASE o.op = "move-split"
    BY <1>2, <2>5 DEF Core
  <2>6. CASE o.op = "move-leaf"
    BY <1>2, <2>6 DEF Core
  <2>. QED BY <2>1, <2>2, <2>3, <2>4, <2>5, <2>6 DEF RowOps
<1>. QED BY <1>1, <1>3

LEMMA SyncStays ==
  ASSUME NEW s, Shell(s)
  PROVE  Stays(s, syncBuiltins(s)) /\ (\A S : Stays(s, DropBuiltins(s, S)))
<1>1. ASSUME NEW t, Shell(t), NEW S PROVE Stays(t, DropBuiltins(t, S))
  BY <1>1 DEF DropBuiltins, Stays, Shell, Fields
<1>2. ASSUME NEW t, Shell(t), NEW new PROVE Stays(t, Open(t, new))
  <2>1. PICK F, W, K : Open(t, new) = [t EXCEPT !.frames = F, !.wins = W, !.leafOf = K]
    BY DEF Open
  <2>. QED BY <1>2, <2>1 DEF Stays, Shell, Fields
<1>3. PICK t, new : t = DropBuiltins(s, Gone(s)) /\ syncBuiltins(s) = Open(t, new)
  BY DEF syncBuiltins, SyncIn
<1>. QED BY <1>1, <1>2, <1>3 DEF Stays

LEMMA ReconcileStays ==
  ASSUME NEW s, Shell(s), NEW reap, NEW switch
  PROVE  Stays(s, Reconcile(s, reap, switch))
<1>1. PICK t, u, v : /\ t = (IF reap THEN reapOrphanFrames(s) ELSE s) /\ u = syncBuiltins(t)
                     /\ v = relayout(u)
  OBVIOUS
<1>2. Stays(s, t)
  BY <1>1, ReapIs, FocusStays DEF Stays
<1>3. Stays(t, u)
  BY <1>1, <1>2, SyncStays, StaysShell
<1>4. Stays(u, v)
  BY <1>1, <1>3, FocusStays, StaysShell
<1>5. Stays(s, v)
  BY <1>2, <1>3, <1>4, StaysTrans
<1>6. v = Screen(s, reap)
  BY <1>1 DEF Screen
<1>7. PICK w : w = exitFullscreen(v)
  OBVIOUS
<1>8. Stays(v, w)
  BY <1>5, <1>7, FocusStays, StaysShell
<1>9. Stays(w, refocusCurrent(w))
  BY <1>8, FocusStays, StaysShell
<1>10. Reconcile(s, reap, switch) = IF switch THEN refocusCurrent(w) ELSE v
  BY <1>6, <1>7 DEF Reconcile
<1>. QED BY <1>5, <1>8, <1>9, <1>10, StaysTrans

LEMMA ApplyStays ==
  ASSUME NEW s, Shell(s), NEW o, o.op \in RowOps
  PROVE  Stays(s, Apply(s, o))
<1>1. PICK t : t = Core(s, o)
  OBVIOUS
<1>2. Stays(s, t)
  BY <1>1, CoreStays
<1>3. Stays(t, Reconcile(t, Reaps(o), Switches(o)))
  BY <1>2, ReconcileStays, StaysShell
<1>4. Apply(s, o) = s \/ Apply(s, o) = Reconcile(t, Reaps(o), Switches(o))
  BY <1>1 DEF Apply
<1>. QED BY <1>2, <1>3, <1>4, FocusStays, StaysTrans

LEMMA VacateRowOp ==
  ASSUME NEW s, NEW leaf, NEW app
  PROVE  /\ VacateOp(s, leaf).op \in RowOps /\ SetApp(leaf, app).op \in RowOps /\ SplitOp(s).op \in RowOps
BY OpsAre DEF VacateOp, RowOps, SplitOp, Op

LEMMA PlacedStays ==
  ASSUME NEW s, Shell(s)
  PROVE  Stays(s, Placed(s))
<1>1. \/ Placed(s) = Core(s, SplitOp(s)) \/ Placed(s) = DropBuiltins(s, {FirstEmpty(s)}) \/ Placed(s) = s
  BY DEF Placed
<1>2. Stays(s, Core(s, SplitOp(s)))
  BY VacateRowOp, CoreStays
<1>3. Stays(s, DropBuiltins(s, {FirstEmpty(s)}))
  BY SyncStays
<1>. QED BY <1>1, <1>2, <1>3, FocusStays

-----------------------------------------------------------------------------
(* The methods that are no switch.                                         *)

LEMMA manageStays ==
  ASSUME NEW s, Shell(s), NEW c
  PROVE  Stays(s, manage(s, c)) /\ Stays(s, manageFloat(s, c))
<1>1. PICK l, p, q, r : /\ l = PlacementLeaf(s) /\ p = Placed(s) /\ q = Core(p, SetApp(l, Win))
                        /\ r = [Settle(q, c, l) EXCEPT !.managed = @ \cup {c}]
  OBVIOUS
<1>2. Stays(s, q)
  BY <1>1, PlacedStays, VacateRowOp, CoreStays, StaysTrans, StaysShell
<1>3. Stays(q, r)
  BY <1>1, <1>2 DEF Settle, Stays, Shell, Fields
<1>4. PICK v : v = focus(r, l) /\ manage(s, c) = relayout(v)
  BY <1>1 DEF manage
<1>5. Stays(r, v)
  BY <1>3, <1>4, FocusStays, StaysShell
<1>6. Stays(v, manage(s, c))
  BY <1>4, <1>5, FocusStays, StaysShell
<1>7. PICK t : t = [s EXCEPT !.managed = @ \cup {c}, !.floats = @ \cup {c}, !.wsOf = Put(@, c, s.cur)]
  OBVIOUS
<1>8. Stays(s, t)
  BY <1>7 DEF Stays, Shell, Fields
<1>9. manageFloat(s, c) = focusFloat(t, c)
  BY <1>7 DEF manageFloat
<1>10. Stays(t, manageFloat(s, c))
  BY <1>8, <1>9, FocusStays, StaysShell
<1>. QED BY <1>2, <1>3, <1>5, <1>6, <1>8, <1>10, StaysTrans

LEMMA ForgetStays ==
  ASSUME NEW s, Shell(s), NEW c
  PROVE  Stays(s, Forget(s, c))
BY DEF Forget, Stays, Shell, Fields

LEMMA unmanageTileStays ==
  ASSUME NEW s, Shell(s), NEW c
  PROVE  Stays(s, unmanageTile(s, c))
<1>1. PICK leaf, r, r2, t : /\ leaf = s.leafOf[c] /\ r = clearFullscreenFor(s, c)
                           /\ r2 = [r EXCEPT !.frames = Without(@, {leaf})] /\ t = Forget(r2, c)
  OBVIOUS
<1>2. Stays(s, r) /\ Shell(r)
  BY <1>1, FocusStays, StaysShell
<1>3. Stays(r, r2) /\ Shell(r2)
  BY <1>1, <1>2 DEF Stays, Shell, Fields
<1>4. Stays(r2, t) /\ Shell(t)
  BY <1>1, <1>3, ForgetStays, StaysShell
<1>5. PICK v, u, w : /\ v = (IF leaf \in Leaves(t) THEN Core(t, VacateOp(t, leaf)) ELSE t)
                     /\ u = syncBuiltins(v)
                     /\ w = (IF FocusedLeaf(u) = leaf THEN FocusFirst(ClearTarget(u)) ELSE u)
  OBVIOUS
<1>6. Stays(t, v) /\ Shell(v)
  BY <1>4, <1>5, VacateRowOp, CoreStays, FocusStays, StaysShell
<1>7. Stays(v, u) /\ Shell(u)
  BY <1>5, <1>6, SyncStays, StaysShell
<1>8. Stays(u, w) /\ Shell(w)
  <2>1. Stays(u, ClearTarget(u)) /\ Shell(ClearTarget(u)) /\ Stays(u, u)
    BY <1>7, FocusStays, StaysShell
  <2>2. Stays(ClearTarget(u), FocusFirst(ClearTarget(u)))
    BY <2>1, FocusStays
  <2>. QED BY <1>5, <2>1, <2>2, StaysTrans, StaysShell
<1>9. unmanageTile(s, c) = relayout(w)
  BY <1>1, <1>5 DEF unmanageTile
<1>10. Stays(w, unmanageTile(s, c))
  BY <1>8, <1>9, FocusStays
<1>11. Stays(s, t)
  BY <1>2, <1>3, <1>4, StaysTrans
<1>12. Stays(t, w)
  BY <1>6, <1>7, <1>8, StaysTrans
<1>. QED BY <1>10, <1>11, <1>12, StaysTrans

LEMMA unmanageStays ==
  ASSUME NEW s, Shell(s), NEW c
  PROVE  Stays(s, unmanage(s, c))
<1>1. PICK r, t : r = clearFullscreenFor(s, c) /\ t = Forget(r, c)
  OBVIOUS
<1>2. Stays(s, t) /\ Shell(t)
  BY <1>1, FocusStays, ForgetStays, StaysTrans, StaysShell
<1>3. Stays(t, Restore(t)) /\ Shell(Restore(t))
  BY <1>2, FocusStays, StaysShell
<1>4. Stays(Restore(t), Refocus(Restore(t)))
  BY <1>3, FocusStays
<1>5. unmanageFloat(s, c) = t \/ unmanageFloat(s, c) = Refocus(Restore(t))
  BY <1>1 DEF unmanageFloat
<1>6. Stays(s, unmanageFloat(s, c))
  BY <1>2, <1>3, <1>4, <1>5, StaysTrans
<1>7. unmanage(s, c) \in {s, unmanageFloat(s, c), unmanageTile(s, c)}
  BY DEF unmanage
<1>. QED BY <1>6, <1>7, FocusStays, unmanageTileStays

LEMMA closeClientStays ==
  ASSUME NEW s, Shell(s), NEW f
  PROVE  Stays(s, closeClient(s, f)) /\ Stays(s, toggleFullscreen(s))
<1>1. \/ closeClient(s, f) = [s EXCEPT !.asked = @ \cup {f}]
      \/ closeClient(s, f) = Apply(s, VacateOp(s, s.leafOf[f])) \/ closeClient(s, f) = s
  BY DEF closeClient
<1>2. closeClient(s, f) = [s EXCEPT !.asked = @ \cup {f}] => Stays(s, closeClient(s, f))
  BY DEF Stays, Shell, Fields
<1>3. Stays(s, Apply(s, VacateOp(s, s.leafOf[f])))
  BY VacateRowOp, ApplyStays
<1>4. PICK h : toggleFullscreen(s) = exitFullscreen(s) \/ toggleFullscreen(s) = [s EXCEPT !.fs = h]
  BY DEF toggleFullscreen
<1>5. toggleFullscreen(s) = [s EXCEPT !.fs = h] => Stays(s, toggleFullscreen(s))
  BY DEF Stays, Shell, Fields
<1>. QED BY <1>1, <1>2, <1>3, <1>4, <1>5, FocusStays

LEMMA liftTileStays ==
  ASSUME NEW s, Shell(s), NEW c
  PROVE  Stays(s, liftTile(s, c))
<1>1. PICK leaf, t : /\ leaf = s.leafOf[c]
                     /\ t = [s EXCEPT !.frames = Without(@, {leaf}), !.leafOf = Without(@, {c}),
                                      !.wsOf = Put(@, c, s.cur), !.floats = @ \cup {c}]
  OBVIOUS
<1>2. Stays(s, t) /\ Shell(t)
  BY <1>1 DEF Stays, Shell, Fields
<1>3. PICK u : u \in {t, ClearTarget(t)}
               /\ liftTile(s, c) = focusFloat(IF leaf \in Leaves(u) THEN Apply(u, VacateOp(u, leaf)) ELSE u, c)
  BY <1>1 DEF liftTile
<1>4. Stays(t, u) /\ Shell(u)
  BY <1>2, <1>3, FocusStays, StaysShell
<1>5. PICK v : v = IF leaf \in Leaves(u) THEN Apply(u, VacateOp(u, leaf)) ELSE u
  OBVIOUS
<1>6. Stays(u, v) /\ Shell(v)
  BY <1>4, <1>5, VacateRowOp, ApplyStays, FocusStays, StaysShell
<1>7. Stays(v, liftTile(s, c))
  BY <1>3, <1>5, <1>6, FocusStays
<1>. QED BY <1>2, <1>4, <1>6, <1>7, StaysTrans

\* A tile of the placed leaf, or of a leaf that was there.
LEMMA FillStays ==
  ASSUME NEW s, Shell(s), NEW l, NEW app, NEW k
  PROVE  Stays(s, focus(Apply(s, SetApp(l, app)), k))
<1>1. PICK t : t = Apply(s, SetApp(l, app))
  OBVIOUS
<1>2. Stays(s, t) /\ Shell(t)
  BY <1>1, VacateRowOp, ApplyStays, StaysShell
<1>3. Stays(t, focus(t, k))
  BY <1>2, FocusStays
<1>. QED BY <1>1, <1>2, <1>3, StaysTrans

LEMMA launchStays ==
  ASSUME NEW s, Shell(s), NEW l
  PROVE  Stays(s, launchBuiltin(s)) /\ Stays(s, launchIntoTile(s, l))
<1>1. PICK k, p : k = PlacementLeaf(s) /\ p = Placed(s)
  OBVIOUS
<1>2. Stays(s, p) /\ Shell(p)
  BY <1>1, PlacedStays, StaysShell
<1>3. Stays(p, focus(Apply(p, SetApp(k, Builtin)), k))
  BY <1>2, FillStays
<1>4. Stays(s, launchBuiltin(s))
  BY <1>1, <1>2, <1>3, StaysTrans DEF launchBuiltin
<1>. QED BY <1>4, FillStays DEF launchIntoTile

LEMMA toggleFloatStays ==
  ASSUME NEW s, Shell(s)
  PROVE  Stays(s, toggleFloat(s))
<1>1. ASSUME NEW c PROVE Stays(s, sinkFloat(s, c))
  <2>1. PICK l, p : l = PlacementLeaf(s) /\ p = Placed(s)
    OBVIOUS
  <2>2. Stays(s, p) /\ Shell(p)
    BY <2>1, PlacedStays, StaysShell
  <2>3. PICK q : q = [p EXCEPT !.floats = @ \ {c}, !.wsOf = Without(@, {c})]
    OBVIOUS
  <2>4. Stays(p, q) /\ Shell(q)
    BY <2>2, <2>3 DEF Stays, Shell, Fields
  <2>5. PICK r : r = ClearTarget(q)
    OBVIOUS
  <2>6. Stays(q, r) /\ Shell(r)
    BY <2>4, <2>5, FocusStays, StaysShell
  <2>7. PICK t : t = Settle(r, c, l)
    OBVIOUS
  <2>8. Stays(r, t) /\ Shell(t)
    BY <2>6, <2>7 DEF Settle, Stays, Shell, Fields
  <2>9. sinkFloat(s, c) = focus(Apply(t, SetApp(l, Win)), l)
    BY <2>1, <2>3, <2>5, <2>7 DEF sinkFloat, Sunk
  <2>10. Stays(t, sinkFloat(s, c))
    BY <2>8, <2>9, FillStays
  <2>. QED BY <2>2, <2>4, <2>6, <2>8, <2>10, StaysTrans
<1>2. \/ toggleFloat(s) = sinkFloat(s, FocusedFloat(s))
      \/ toggleFloat(s) = liftTile(s, FrameAt(s, FocusedLeaf(s))) \/ toggleFloat(s) = s
  BY DEF toggleFloat
<1>. QED BY <1>1, <1>2, liftTileStays, FocusStays

LEMMA swapFramesStays ==
  ASSUME NEW s, Shell(s), NEW a, NEW b
  PROVE  Stays(s, swapFrames(s, a, b))
<1>1. PICK o, t, to : /\ o = Op("swap-leaves", a, b, NoWs, NoApp) /\ t = Apply(s, o)
                      /\ to = [f \in {FrameAt(s, a), FrameAt(s, b)} |-> IF f = FrameAt(s, b) THEN a ELSE b]
  OBVIOUS
<1>2. Stays(s, t) /\ Shell(t)
  <2>1. o.op \in RowOps
    BY <1>1 DEF Op, RowOps
  <2>. QED BY <1>1, <2>1, ApplyStays, StaysShell
<1>3. PICK F, K : /\ F = Over(At(a, FrameAt(s, b)), Over(At(b, FrameAt(s, a)), Without(t.frames, {a, b})))
                  /\ K = [f \in DOMAIN t.leafOf |-> IF f \in DOMAIN to THEN to[f] ELSE t.leafOf[f]]
  OBVIOUS
<1>4. PICK u : u = [t EXCEPT !.frames = F, !.leafOf = K]
  OBVIOUS
<1>5. Stays(t, u) /\ Shell(u)
  BY <1>2, <1>4 DEF Stays, Shell, Fields
<1>6. PICK v : v = IF FocusedLeaf(u) = a THEN SetTile(u, b) ELSE IF FocusedLeaf(u) = b THEN SetTile(u, a) ELSE u
  OBVIOUS
<1>7. Stays(u, v) /\ Shell(v)
  BY <1>5, <1>6, FocusStays, StaysShell
<1>8. Stays(v, relayout(v))
  BY <1>7, FocusStays
<1>9. swapFrames(s, a, b) = IF SameWs(s, a, b) THEN relayout(v) ELSE s
  BY ONLY <1>1, <1>3, <1>4, <1>6 DEF swapFrames, Exchange
<1>. QED BY <1>2, <1>5, <1>7, <1>8, <1>9, FocusStays, StaysTrans

-----------------------------------------------------------------------------
(* A switch lands the focus.                                               *)

\* The ops that change the current workspace refocus.
SwitchOps == "remove-workspace" \notin Ops /\ "clone-workspace" \notin Ops

LEMMA CollectLands ==
  ASSUME NEW s, Shell(s), Become(s)
  PROVE  wm'.cur = s.cur /\ (Lands(s) => FocusHere(wm') /\ wm'.fs = None)
<1>1. PICK t, K : t = wm' /\ t = [s EXCEPT !.leafOf = K]
  BY DEF Become, Collect
<1>2. /\ t.spaces = s.spaces /\ t.cur = s.cur /\ t.frames = s.frames /\ t.floats = s.floats /\ t.wsOf = s.wsOf
      /\ t.fs = s.fs /\ t.target = s.target
  BY <1>1 DEF Shell, Fields
<1>3. CurrentRow(t) = CurrentRow(s)
  BY <1>2 DEF CurrentRow, WsAt
<1>4. CurrentLeaves(t) = CurrentLeaves(s) /\ FramedLeaves(t) = FramedLeaves(s)
  BY <1>2, <1>3 DEF CurrentLeaves, FramedLeaves
<1>5. ASSUME Lands(s) PROVE FocusHere(t) /\ t.fs = None
  <2>1. s.fs = None /\ t.fs = None /\ Current(s) = s.target /\ Current(t) = t.target
    BY <1>2, <1>5 DEF Lands, Current
  <2>2. FocusedLeaf(t) = FocusedLeaf(s) /\ FocusedFloat(t) = FocusedFloat(s)
    BY <1>2, <2>1 DEF FocusedLeaf, FocusedFloat
  <2>. QED BY <1>2, <1>4, <1>5, <2>1, <2>2 DEF Lands, FocusHere
<1>. QED BY <1>1, <1>2, <1>5

LEMMA StaysBecome ==
  ASSUME NEW s, Stays(wm, s), Become(s)
  PROVE  wm'.cur = wm.cur
BY CollectLands DEF Stays

LEMMA RowOrSwitch ==
  ASSUME SwitchOps, NEW s, NEW o \in OpsFor(s)
  PROVE  Switches(o) \/ o.op \in RowOps
BY OpShape DEF SwitchOps, Switches, RowOps

LEMMA BatchStays ==
  ASSUME SwitchOps, NEW s, Shell(s), NEW o1 \in OpsFor(s), NEW o2 \in OpsFor(Core(s, o1)),
         ~Switches(o1), ~(CanApply(Core(s, o1), o2) /\ Switches(o2))
  PROVE  Stays(s, ApplyBatch(s, o1, o2))
<1>1. PICK t, u, r1, r2, s1, s2 : /\ t = Core(s, o1) /\ u = Core(t, o2)
                                  /\ r1 = Reaps(o1) /\ r2 = (Reaps(o1) \/ Reaps(o2))
                                  /\ s1 = Switches(o1) /\ s2 = (Switches(o1) \/ Switches(o2))
  OBVIOUS
<1>2. Stays(s, t) /\ Shell(t)
  BY <1>1, RowOrSwitch, CoreStays, StaysShell
<1>3. CASE ~CanApply(t, o2)
  <2>1. ApplyBatch(s, o1, o2) = Reconcile(t, r1, s1)
    BY <1>1, <1>3 DEF ApplyBatch
  <2>2. Stays(t, Reconcile(t, r1, s1))
    BY <1>2, ReconcileStays
  <2>. QED BY <1>2, <2>1, <2>2, StaysTrans
<1>4. CASE CanApply(t, o2)
  <2>1. o2.op \in RowOps
    BY <1>1, <1>4, RowOrSwitch
  <2>2. Stays(t, u) /\ Shell(u)
    BY <1>1, <1>2, <2>1, CoreStays, StaysShell
  <2>3. ApplyBatch(s, o1, o2) = Reconcile(u, r2, s2)
    BY <1>1, <1>4 DEF ApplyBatch
  <2>4. Stays(u, Reconcile(u, r2, s2))
    BY <2>2, ReconcileStays
  <2>. QED BY <1>2, <2>2, <2>3, <2>4, StaysTrans
<1>. QED BY <1>3, <1>4

LEMMA OpsLand ==
  ASSUME SaneOps, SwitchOps, IInv, ApplyOp \/ Batch, wm'.cur # wm.cur
  PROVE  FocusHere(wm') /\ wm'.fs = None
<1>1. Sound(wm) /\ Held(wm) /\ Shell(wm)
  BY DEF IInv, Sound
<1>2. CASE ApplyOp
  <2>1. PICK o \in OpsFor(wm) : CanApply(wm, o) /\ Fits(wm, o) /\ Become(Apply(wm, o))
    BY <1>2 DEF ApplyOp, Doable
  <2>2. Sound(Apply(wm, o)) /\ (Switches(o) => Lands(Apply(wm, o)))
    BY <1>1, <2>1, ApplyIs
  <2>3. Switches(o)
    BY <1>1, <2>1, RowOrSwitch, ApplyStays, StaysBecome
  <2>. QED BY <2>1, <2>2, <2>3, CollectLands DEF Sound
<1>3. CASE Batch
  <2>1. PICK o1 \in Doable(wm) : \E o2 \in OpsFor(Core(wm, o1)) :
          /\ CanApply(Core(wm, o1), o2) => Fits(Core(wm, o1), o2)
          /\ Become(ApplyBatch(wm, o1, o2))
    BY <1>3 DEF Batch
  <2>2. PICK o2 \in OpsFor(Core(wm, o1)) :
          /\ CanApply(Core(wm, o1), o2) => Fits(Core(wm, o1), o2)
          /\ Become(ApplyBatch(wm, o1, o2))
    BY <2>1
  <2>3. o1 \in OpsFor(wm) /\ CanApply(wm, o1) /\ Fits(wm, o1)
    BY DEF Doable
  <2>4. /\ Sound(ApplyBatch(wm, o1, o2))
        /\ Switches(o1) \/ (CanApply(Core(wm, o1), o2) /\ Switches(o2)) => Lands(ApplyBatch(wm, o1, o2))
    BY <1>1, <2>2, <2>3, ApplyBatchIs
  <2>5. Switches(o1) \/ (CanApply(Core(wm, o1), o2) /\ Switches(o2))
    <3> SUFFICES ASSUME ~Switches(o1), ~(CanApply(Core(wm, o1), o2) /\ Switches(o2)) PROVE FALSE
      OBVIOUS
    <3>1. Stays(wm, ApplyBatch(wm, o1, o2))
      BY <1>1, <2>3, BatchStays
    <3>. QED BY <2>2, <3>1, StaysBecome
  <2>. QED BY <2>2, <2>4, <2>5, CollectLands DEF Sound
<1>. QED BY <1>2, <1>3

LEMMA OthersStayHere ==
  ASSUME IInv, \/ \E c \in Clients : \/ ClientMap(c) \/ ClientUnmap(c) \/ ClientExit(c)
                                     \/ handleMapRequest(c) \/ handleDestroyNotify(c) \/ handleUnmapNotify(c)
               \/ Close \/ Focus \/ ClickFloat \/ Fullscreen \/ Float \/ Swap \/ Launch
  PROVE  wm'.cur = wm.cur
<1>1. Shell(wm)
  BY DEF IInv, Sound
<1>2. ASSUME NEW c \in Clients, \/ ClientMap(c) \/ ClientUnmap(c) \/ ClientExit(c)
                                \/ handleMapRequest(c) \/ handleDestroyNotify(c) \/ handleUnmapNotify(c)
      PROVE  wm'.cur = wm.cur
  <2>1. CASE ClientMap(c)
    BY <2>1 DEF ClientMap
  <2>2. CASE ClientUnmap(c) \/ ClientExit(c)
    <3>1. wm' = DropFocus(wm, c)
      BY <2>2 DEF ClientUnmap, ClientExit
    <3>. QED BY <1>1, <3>1 DEF DropFocus, Shell, Fields
  <2>3. CASE handleMapRequest(c) \/ handleDestroyNotify(c) \/ handleUnmapNotify(c)
    <3>1. \/ UNCHANGED wm \/ Become(manageFloat(wm, c)) \/ Become(manage(wm, c)) \/ Become(unmanage(wm, c))
      BY <2>3 DEF handleMapRequest, handleDestroyNotify, handleUnmapNotify
    <3>. QED BY <1>1, <3>1, manageStays, unmanageStays, StaysBecome
  <2>. QED BY <1>2, <2>1, <2>2, <2>3
<1>3. CASE Close
  BY <1>1, <1>3, closeClientStays, StaysBecome DEF Close
<1>4. CASE Focus
  BY <1>1, <1>4, FocusStays, StaysBecome DEF Focus
<1>5. CASE ClickFloat
  BY <1>1, <1>5, FocusStays, StaysBecome DEF ClickFloat
<1>6. CASE Fullscreen
  BY <1>1, <1>6, closeClientStays, StaysBecome DEF Fullscreen
<1>7. CASE Float
  BY <1>1, <1>7, toggleFloatStays, StaysBecome DEF Float
<1>8. CASE Swap
  BY <1>1, <1>8, swapFramesStays, StaysBecome DEF Swap
<1>9. CASE Launch
  <2>1. Become(launchBuiltin(wm)) \/ \E l \in DOMAIN wm.frames : Become(launchIntoTile(wm, l))
    BY <1>9 DEF Launch
  <2>. QED BY <1>1, <2>1, launchStays, StaysBecome
<1>. QED BY <1>2, <1>3, <1>4, <1>5, <1>6, <1>7, <1>8, <1>9

(***************************************************************************)
(* Whatever changes the current workspace, alone, in a batch or in the     *)
(* part of a batch before its failure, refocuses: the keyboard is on a     *)
(* leaf or float that can be seen, or the workspace has none, and          *)
(* fullscreen is over.  remove-workspace and clone-workspace are left out: *)
(* they change it without refocusing (wm.go, afterOp).                     *)
(***************************************************************************)
THEOREM SwitchesLand == SaneOps /\ SwitchOps => (Spec => SwitchLandsFocus)
<1> SUFFICES ASSUME SaneOps, SwitchOps PROVE Spec => SwitchLandsFocus
  OBVIOUS
<1>1. IInv /\ [Next]_vars => [wm'.cur # wm.cur => FocusHere(wm') /\ wm'.fs = None]_vars
  <2> SUFFICES ASSUME IInv, Next, wm'.cur # wm.cur PROVE FocusHere(wm') /\ wm'.fs = None
    OBVIOUS
  <2>1. ApplyOp \/ Batch
    BY OthersStayHere DEF Next
  <2>. QED BY <2>1, OpsLand
<1>2. Spec => []IInv
  BY Invariance
<1>. QED BY <1>1, <1>2, PTL DEF Spec, SwitchLandsFocus
=============================================================================
