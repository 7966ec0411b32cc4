------------------------------- MODULE AuditProofs -------------------------------
(***************************************************************************)
(* Proofs about AuditService, for any sessions, entities, columns and      *)
(* values: the entries of an entity tell its state, unless one is missing  *)
(* or was written from changes that outlived their transaction.            *)
(***************************************************************************)
EXTENDS AuditService, TLAPS

--------------------------------------------------------------------------------
(* The changes of an entity: types.                                        *)

LEMMA ShownType ==
    ASSUME NEW c, NEW v \in Note
    PROVE  Shown(c, v) \in Note
  BY DEF Shown, Note

LEMMA NotedType ==
    ASSUME NEW c
    PROVE  /\ Noted(c) \subseteq Note
           /\ \A v \in Value \cup {NeverSet} \cup Noted(c) : Shown(c, v) \in Noted(c)
           /\ \A v \in Noted(c) : Shown(c, v) = v
  <1>1. \A v \in Value \cup {NeverSet} : Shown(c, v) \in Note
    BY ShownType DEF Note
  <1>2. \A v \in Value \cup {NeverSet} : Shown(c, Shown(c, v)) = Shown(c, v)
    BY ChangesAssumption DEF Shown
  <1>3. QED
    BY <1>1, <1>2 DEF Noted

LEMMA RowType ==
    ASSUME NEW row \in Row
    PROVE  /\ row.members \subseteq Member
           /\ \A c \in Column : row.columns[c] \in Value /\ row.columns[c] \in Note
  <1>1. row.columns \in [Column -> Value] /\ row.members \subseteq Member
    BY DEF Row
  <1>2. QED
    BY <1>1 DEF Note

LEMMA ChangesType ==
    ASSUME NEW changes \in Changes
    PROVE  /\ changes = [columns |-> changes.columns, added |-> changes.added,
                         removed |-> changes.removed]
           /\ DOMAIN changes.columns \subseteq Column
           /\ changes.columns \in [DOMAIN changes.columns -> Change]
           /\ \A c \in DOMAIN changes.columns :
                  changes.columns[c].old \in Noted(c) /\ changes.columns[c].new \in Noted(c)
           /\ changes.added \subseteq Member
           /\ changes.removed \subseteq Member
  <1>1. PICK cs \in SUBSET Column : changes.columns \in [cs -> Change]
    BY DEF Changes, ColumnChanges
  <1>2. \A c \in cs : changes.columns[c].old \in Noted(c) /\ changes.columns[c].new \in Noted(c)
    BY <1>1 DEF Changes, ColumnChanges
  <1>3. QED
    BY <1>1, <1>2 DEF Changes

LEMMA NoChangesType == NoChanges \in Changes /\ Empty(NoChanges)
  <1>1. << >> \in [{} -> Change] /\ DOMAIN << >> = {}
    OBVIOUS
  <1>2. QED
    BY <1>1 DEF NoChanges, Changes, ColumnChanges, Empty

LEMMA ColumnChangeType ==
    ASSUME NEW changes \in Changes, NEW c \in Column,
           NEW old \in Value \cup {NeverSet}, NEW new \in Value
    PROVE  /\ ColumnChange(changes, c, old, new) \in Change
           /\ ColumnChange(changes, c, old, new).old \in Noted(c)
           /\ ColumnChange(changes, c, old, new).new \in Noted(c)
  <1> DEFINE first == IF c \in DOMAIN changes.columns THEN changes.columns[c].old ELSE old
  <1>1. first \in Value \cup {NeverSet} \cup Noted(c)
    BY ChangesType
  <1>2. Shown(c, first) \in Noted(c) /\ Shown(c, new) \in Noted(c)
    BY <1>1, NotedType
  <1>3. ColumnChange(changes, c, old, new) = [old |-> Shown(c, first), new |-> Shown(c, new)]
    BY DEF ColumnChange
  <1> HIDE DEF first
  <1>4. QED
    BY <1>2, <1>3, NotedType DEF Change

LEMMA ColumnChangesType ==
    ASSUME NEW cs \in SUBSET Column, NEW f \in [cs -> Change],
           \A c \in cs : f[c].old \in Noted(c) /\ f[c].new \in Noted(c)
    PROVE  f \in ColumnChanges
  BY DEF ColumnChanges

LEMMA SetAttributeType ==
    ASSUME NEW changes \in Changes, NEW c \in Column, NEW old \in Value, NEW new \in Value
    PROVE  SetAttribute(changes, c, old, new) \in Changes
  <1> DEFINE cs == DOMAIN changes.columns \cup {c}
             f == [d \in cs |-> IF d = c THEN ColumnChange(changes, c, old, new)
                                ELSE changes.columns[d]]
  <1>1. cs \in SUBSET Column /\ f \in [cs -> Change]
    BY ColumnChangeType, ChangesType
  <1>2. f \in ColumnChanges
    <2>1. \A d \in cs : f[d].old \in Noted(d) /\ f[d].new \in Noted(d)
      BY ColumnChangeType, ChangesType
    <2> HIDE DEF f, cs
    <2>2. QED
      BY <1>1, <2>1, ColumnChangesType
  <1>3. [changes EXCEPT !.columns = f] \in Changes
    <2> HIDE DEF f, cs
    <2> QED  BY <1>2, ChangesType DEF Changes
  <1>4. QED
    BY <1>3 DEF SetAttribute

LEMMA CollectionType ==
    ASSUME NEW changes \in Changes, NEW members \in SUBSET Member
    PROVE  /\ CollectionAppend(changes, members) \in Changes
           /\ CollectionRemove(changes, members) \in Changes
  BY ChangesType DEF Changes, CollectionAppend, CollectionRemove

LEMMA CreationChangesType ==
    ASSUME NEW changes \in Changes, NEW row \in Row
    PROVE  CreationChanges(changes, row) \in Changes
  <1> DEFINE f == [c \in Column |-> ColumnChange(changes, c, NeverSet, row.columns[c])]
  <1>1. /\ f \in [Column -> Change]
        /\ \A c \in Column : f[c].old \in Noted(c) /\ f[c].new \in Noted(c)
    BY RowType, ColumnChangeType
  <1>2. f \in ColumnChanges
    <2> HIDE DEF f
    <2> QED  BY <1>1, ColumnChangesType
  <1>3. [changes EXCEPT !.columns = f] \in Changes
    <2> HIDE DEF f
    <2> QED  BY <1>2 DEF Changes
  <1>4. QED
    BY <1>3, RowType, CollectionType DEF CreationChanges

LEMMA ContinueType ==
    ASSUME NEW t \in Trail, NEW changes \in Changes,
           NEW op \in {"CREATION", "UPDATE", "DELETION"}
    PROVE  Continue(t, op, changes) \in Trail
  <1>1. \A c \in Column : t.columns[c] \in Note
    BY DEF Trail
  <1>2. t.members \subseteq Member
    BY DEF Trail
  <1>3. \A c \in DOMAIN changes.columns : changes.columns[c].new \in Note
    BY ChangesType, NotedType
  <1>4. QED
    BY <1>1, <1>2, <1>3, ChangesType DEF Continue, Trail

LEMMA NoTrailType == NoTrail \in Trail
  BY DEF NoTrail, Trail, Note

--------------------------------------------------------------------------------
(* The changes of an entity: what they tell.                               *)

\* The trail and the changes tell the row.
Coherent(t, changes, row) ==
    /\ Tells(Continue(t, "UPDATE", changes), row)
    /\ Continues(t, changes)

\* The last value of a column, with its changes.
LEMMA ContinueColumn ==
    ASSUME NEW t, NEW op, NEW changes
    PROVE  /\ \A c \in Column : Continue(t, op, changes).columns[c] =
                 IF c \in DOMAIN changes.columns THEN changes.columns[c].new ELSE t.columns[c]
           /\ Continue(t, op, changes).members =
                 (t.members \cup changes.added) \ changes.removed
           /\ Continue(t, op, changes).op = op
  BY DEF Continue

\* Setting a column keeps the changes coherent with the row.
LEMMA SetAttributeCoherent ==
    ASSUME NEW t \in Trail, NEW changes \in Changes, NEW row \in Row,
           NEW c \in Column, NEW v \in ColumnValue[c]
    PROVE  LET changes2 == SetAttribute(changes, c, row.columns[c], v)
               row2 == [row EXCEPT !.columns[c] = v] IN
           /\ Tells(Continue(t, "UPDATE", changes), row)
                 => Tells(Continue(t, "UPDATE", changes2), row2)
           /\ Coherent(t, changes, row) => Coherent(t, changes2, row2)
  <1> DEFINE old == row.columns[c]
             changes2 == SetAttribute(changes, c, old, v)
             row2 == [row EXCEPT !.columns[c] = v]
  <1>1. /\ old \in Value /\ v \in Value /\ v \in Note
        /\ row2.members = row.members
        /\ \A d \in Column : row2.columns[d] = IF d = c THEN v ELSE row.columns[d]
    BY RowType DEF Row, Value, Note
  <1> HIDE DEF row2
  <1>2. CASE old = v \/ {old, v} \subseteq Falsy
    <2>1. changes2 = changes
      BY <1>2 DEF SetAttribute
    <2>2. \A x : Same(x, Shown(c, old)) => Same(x, Shown(c, v))
      BY <1>1, <1>2, ChangesAssumption DEF Same, Shown
    <2>3. QED
      BY <1>1, <2>1, <2>2 DEF Tells, Coherent
  <1>3. CASE ~(old = v \/ {old, v} \subseteq Falsy)
    <2>1. /\ DOMAIN changes2.columns = DOMAIN changes.columns \cup {c}
          /\ changes2.columns[c] = ColumnChange(changes, c, old, v)
          /\ \A d \in DOMAIN changes.columns \ {c} : changes2.columns[d] = changes.columns[d]
          /\ changes2.added = changes.added /\ changes2.removed = changes.removed
      BY <1>3, ChangesType DEF SetAttribute
    <2> HIDE DEF changes2
    <2>2. Tells(Continue(t, "UPDATE", changes), row)
             => Tells(Continue(t, "UPDATE", changes2), row2)
      <3> SUFFICES ASSUME Tells(Continue(t, "UPDATE", changes), row)
                   PROVE  Tells(Continue(t, "UPDATE", changes2), row2)
        OBVIOUS
      <3>1. Continue(t, "UPDATE", changes2).columns[c] = Shown(c, v)
        BY <2>1, ContinueColumn DEF ColumnChange
      <3>2. \A d \in Column \ {c} : Continue(t, "UPDATE", changes2).columns[d]
                                      = Continue(t, "UPDATE", changes).columns[d]
        BY <2>1, ContinueColumn
      <3>3. Continue(t, "UPDATE", changes2).members = row2.members
        BY <1>1, <2>1 DEF Continue, Tells
      <3>4. \A d \in Column : Same(Continue(t, "UPDATE", changes2).columns[d],
                                   Shown(d, row2.columns[d]))
        BY <1>1, <3>1, <3>2 DEF Tells, Same
      <3>5. QED
        BY <3>3, <3>4 DEF Tells
    <2>3. Coherent(t, changes, row) => Continues(t, changes2)
      <3> SUFFICES ASSUME Coherent(t, changes, row), NEW d \in DOMAIN changes2.columns
                   PROVE  Same(changes2.columns[d].old, t.columns[d])
        BY DEF Continues
      <3>1. CASE d # c
        BY <2>1, <3>1 DEF Coherent, Continues
      <3>2. CASE d = c /\ c \in DOMAIN changes.columns
        <4>1. changes2.columns[c].old = Shown(c, changes.columns[c].old)
          BY <2>1, <3>2 DEF ColumnChange
        <4>2. Same(changes.columns[c].old, t.columns[c])
          BY <3>2 DEF Coherent, Continues
        <4>3. Shown(c, changes.columns[c].old) = changes.columns[c].old
          BY <3>2, ChangesType, NotedType
        <4>4. QED
          BY <3>2, <4>1, <4>2, <4>3
      <3>3. CASE d = c /\ c \notin DOMAIN changes.columns
        <4>1. changes2.columns[c].old = Shown(c, old)
          BY <2>1, <3>3 DEF ColumnChange
        <4>2. Continue(t, "UPDATE", changes).columns[c] = t.columns[c]
          BY <3>3, ContinueColumn
        <4>3. Same(t.columns[c], Shown(c, old))
          BY <4>2 DEF Coherent, Tells
        <4>4. QED
          BY <3>3, <4>1, <4>3 DEF Same
      <3>4. QED
        BY <3>1, <3>2, <3>3
    <2>4. QED
      BY <2>2, <2>3 DEF Coherent, changes2, row2
  <1>4. QED
    BY <1>2, <1>3 DEF row2

LEMMA CollectionCoherent ==
    ASSUME NEW t \in Trail, NEW changes \in Changes, NEW row \in Row, NEW m \in Member
    PROVE  LET appended == CollectionAppend(changes, {m})
               removed == CollectionRemove(changes, {m})
               more == [row EXCEPT !.members = row.members \cup {m}]
               fewer == [row EXCEPT !.members = row.members \ {m}] IN
           /\ more \in Row /\ fewer \in Row
           /\ Tells(Continue(t, "UPDATE", changes), row)
                 => /\ Tells(Continue(t, "UPDATE", appended), more)
                    /\ Tells(Continue(t, "UPDATE", removed), fewer)
           /\ Coherent(t, changes, row)
                 => Coherent(t, appended, more) /\ Coherent(t, removed, fewer)
  <1> DEFINE appended == CollectionAppend(changes, {m})
             removed == CollectionRemove(changes, {m})
             more == [row EXCEPT !.members = row.members \cup {m}]
             fewer == [row EXCEPT !.members = row.members \ {m}]
  <1>1. /\ more.members = row.members \cup {m} /\ more.columns = row.columns
        /\ fewer.members = row.members \ {m} /\ fewer.columns = row.columns
        /\ more \in Row /\ fewer \in Row
    BY DEF Row
  <1>2. /\ appended.columns = changes.columns /\ removed.columns = changes.columns
        /\ appended.added = changes.added \cup {m} /\ appended.removed = changes.removed \ {m}
        /\ removed.added = changes.added \ {m} /\ removed.removed = changes.removed \cup {m}
    BY ChangesType DEF CollectionAppend, CollectionRemove
  <1> HIDE DEF appended, removed, more, fewer
  <1>3. /\ Continue(t, "UPDATE", appended).columns = Continue(t, "UPDATE", changes).columns
        /\ Continue(t, "UPDATE", removed).columns = Continue(t, "UPDATE", changes).columns
    BY <1>2 DEF Continue
  <1>4. Tells(Continue(t, "UPDATE", changes), row)
           => /\ Continue(t, "UPDATE", appended).members = more.members
              /\ Continue(t, "UPDATE", removed).members = fewer.members
    BY <1>1, <1>2 DEF Continue, Tells
  <1>5. Tells(Continue(t, "UPDATE", changes), row)
           => /\ Tells(Continue(t, "UPDATE", appended), more)
              /\ Tells(Continue(t, "UPDATE", removed), fewer)
    BY <1>1, <1>3, <1>4 DEF Tells
  <1>6. Continues(t, changes) => Continues(t, appended) /\ Continues(t, removed)
    BY <1>2 DEF Continues
  <1>7. QED
    BY <1>1, <1>5, <1>6 DEF Coherent, appended, removed, more, fewer

\* Without changes the trail itself tells the row.
LEMMA NothingToTell ==
    ASSUME NEW t \in Trail, NEW changes, Empty(changes), NEW row
    PROVE  /\ Tells(Continue(t, "UPDATE", changes), row) <=> Tells(t, row)
           /\ Continues(t, changes)
  <1>1. DOMAIN changes.columns = {} /\ changes.added = {} /\ changes.removed = {}
    BY DEF Empty
  <1>2. \A c \in Column : Continue(t, "UPDATE", changes).columns[c] = t.columns[c]
    BY <1>1, ContinueColumn
  <1>3. Continue(t, "UPDATE", changes).members = t.members
    <2>1. Continue(t, "UPDATE", changes).members = (t.members \cup {}) \ {}
      BY <1>1 DEF Continue
    <2>2. QED
      BY <2>1
  <1>4. QED
    BY <1>1, <1>2, <1>3 DEF Tells, Continues

\* The operation of an entry changes nothing of what it tells.
LEMMA AnyOperation ==
    ASSUME NEW t, NEW changes, NEW op, NEW row
    PROVE  Tells(Continue(t, op, changes), row) <=> Tells(Continue(t, "UPDATE", changes), row)
  BY DEF Continue, Tells

\* An entry of a creation tells the row, if the changes did.
LEMMA CreationTells ==
    ASSUME NEW t \in Trail, NEW changes \in Changes, NEW row \in Row,
           (t.members = {} /\ changes = NoChanges)
              \/ Tells(Continue(t, "UPDATE", changes), row)
    PROVE  Tells(Continue(t, "UPDATE", CreationChanges(changes, row)), row)
  <1> DEFINE created == CreationChanges(changes, row)
             f == [c \in Column |-> ColumnChange(changes, c, NeverSet, row.columns[c])]
             middle == [changes EXCEPT !.columns = f]
  <1>1. middle = [columns |-> f, added |-> changes.added, removed |-> changes.removed]
    <2> HIDE DEF f
    <2> QED  BY ChangesType DEF Changes
  <1>2. /\ created.columns = f
        /\ created.added = changes.added \cup row.members
        /\ created.removed = changes.removed \ row.members
    <2>1. created = CollectionAppend(middle, row.members)
      BY DEF CreationChanges
    <2> HIDE DEF f, middle, created
    <2>2. QED
      BY <1>1, <2>1 DEF CollectionAppend
  <1>3. \A c \in Column : f[c].new = Shown(c, row.columns[c])
    BY DEF ColumnChange
  <1>4. DOMAIN f = Column
    OBVIOUS
  <1> HIDE DEF created, f, middle
  <1>5. \A c \in Column : Continue(t, "UPDATE", created).columns[c] = Shown(c, row.columns[c])
    <2>1. \A c \in Column : c \in DOMAIN created.columns
      BY <1>2, <1>4
    <2>2. \A c \in Column :
              Continue(t, "UPDATE", created).columns[c] = created.columns[c].new
      BY <2>1 DEF Continue
    <2>3. QED
      BY <1>2, <1>3, <2>2
  <1>6. Continue(t, "UPDATE", created).members = (t.members \cup created.added) \ created.removed
    BY ContinueColumn
  <1>7. Continue(t, "UPDATE", created).members = row.members
    <2>1. CASE t.members = {} /\ changes = NoChanges
      BY <1>2, <1>6, <2>1 DEF NoChanges
    <2>2. CASE (t.members \cup changes.added) \ changes.removed = row.members
      <3>1. \A m : m \in Continue(t, "UPDATE", created).members => m \in row.members
        BY <1>2, <1>6, <2>2
      <3>2. \A m : m \in row.members => m \in Continue(t, "UPDATE", created).members
        BY <1>2, <1>6, <2>2
      <3>3. QED
        BY <1>6, <3>1, <3>2
    <2>3. Tells(Continue(t, "UPDATE", changes), row)
             => (t.members \cup changes.added) \ changes.removed = row.members
      BY DEF Tells, Continue
    <2>4. QED
      BY <2>1, <2>2, <2>3
  <1>8. QED
    BY <1>5, <1>7 DEF Tells, Same, created

--------------------------------------------------------------------------------
(* Types.                                                                  *)

LEMMA BecomesType ==
    ASSUME session \in [Session -> SessionState], NEW s \in Session,
           NEW self \in SessionState, Becomes(s, self)
    PROVE  /\ session' \in [Session -> SessionState]
           /\ session'[s] = self
           /\ \A o \in Session \ {s} : session'[o] = session[o]
  BY DEF Becomes

LEMMA SelfType ==
    ASSUME NEW self \in SessionState
    PROVE  /\ self.mem \in [Entity -> Row \cup {Gone, None}]
           /\ self.new \in SUBSET Entity /\ self.dirty \in SUBSET Entity
           /\ self.deleted \in SUBSET Entity /\ self.left \in SUBSET Entity
           /\ self.changes \in [Entity -> Changes]
           /\ self.entries \in [Entity -> Trail \cup {None}]
           /\ self.phase \in {"idle", "entering", "logging"}
           /\ self.stale \in SUBSET Entity /\ self.missed \in SUBSET Entity
  BY DEF SessionState

LEMMA NoSessionType == NoSession \in SessionState
  <1>1. NoChanges \in Changes
    BY NoChangesType
  <1>2. QED
    BY <1>1 DEF NoSession, SessionState

\* An instance that is edited.
Edited(s, e, row, changes) ==
    [session[s] EXCEPT !.mem[e] = row,
                       !.dirty = session[s].dirty \cup ({e} \ session[s].new),
                       !.changes[e] = changes]

LEMMA EditedType ==
    ASSUME TypeOK, NEW s \in Session, NEW e \in Entity,
           NEW row \in Row, NEW changes \in Changes
    PROVE  Edited(s, e, row, changes) \in SessionState
  <1>1. session[s] \in SessionState
    BY DEF TypeOK
  <1>2. /\ [session[s].mem EXCEPT ![e] = row] \in [Entity -> Row \cup {Gone, None}]
        /\ [session[s].changes EXCEPT ![e] = changes] \in [Entity -> Changes]
        /\ session[s].dirty \cup ({e} \ session[s].new) \in SUBSET Entity
    BY <1>1, SelfType
  <1>3. QED
    BY <1>1, <1>2 DEF Edited, SessionState

LEMMA TrailOfType ==
    ASSUME TypeOK, NEW s \in Session, NEW e \in Entity
    PROVE  TrailOf(s, e) \in Trail
  BY SelfType DEF TypeOK, TrailOf

LEMMA SeenType ==
    ASSUME TypeOK, NEW s \in Session, NEW e \in Entity
    PROVE  Seen(s, e) \in Row \cup {Unborn, Gone}
  BY SelfType DEF TypeOK, Seen, Held

LEMMA EntryChangesType ==
    ASSUME TypeOK, NEW s \in Session, NEW e \in Entity,
           session[s].mem[e] \in Row
    PROVE  EntryChanges(s, e) \in Changes
           /\ OpOf(s, e) \in {"CREATION", "UPDATE", "DELETION"}
  <1>1. session[s].changes[e] \in Changes
    BY SelfType DEF TypeOK
  <1>2. CreationChanges(session[s].changes[e], session[s].mem[e]) \in Changes
    BY <1>1, CreationChangesType
  <1>3. QED
    BY <1>1, <1>2, NoChangesType DEF EntryChanges, OpOf

LEMMA FinishedType ==
    ASSUME TypeOK, NEW s \in Session, NEW missing \in SUBSET Entity
    PROVE  Finished(s, missing) \in SessionState
  <1> DEFINE mem == [e \in Entity |-> IF e \in session[s].deleted THEN Gone
                                      ELSE session[s].mem[e]]
             stale == session[s].stale \cup {e \in missing : ~Empty(session[s].changes[e])}
  <1>1. session[s] \in SessionState
    BY DEF TypeOK
  <1>2. mem \in [Entity -> Row \cup {Gone, None}] /\ stale \in SUBSET Entity
    BY <1>1, SelfType
  <1>3. session[s].missed \cup missing \in SUBSET Entity
    BY <1>1, SelfType
  <1>4. Finished(s, missing) =
          [session[s] EXCEPT !.phase = "idle", !.left = {}, !.new = {}, !.dirty = {},
                             !.deleted = {}, !.mem = mem,
                             !.missed = session[s].missed \cup missing, !.stale = stale]
    BY DEF Finished
  <1> HIDE DEF mem, stale
  <1>5. QED
    BY <1>1, <1>2, <1>3, <1>4 DEF SessionState

LEMMA RolledBackType ==
    ASSUME TypeOK, NEW s \in Session, NEW taken
    PROVE  RolledBack(s, taken) \in SessionState
  <1> DEFINE kept == [e \in Entity |-> IF rows[e] = Unborn \/ e \in taken
                                       THEN NoChanges ELSE session[s].changes[e]]
             stale == {e \in Entity : ~Empty(kept[e])}
  <1>1. kept \in [Entity -> Changes]
    BY NoChangesType, SelfType DEF TypeOK
  <1>2. stale \in SUBSET Entity
    OBVIOUS
  <1>3. RolledBack(s, taken) = [NoSession EXCEPT !.changes = kept, !.stale = stale]
    BY DEF RolledBack
  <1> HIDE DEF kept, stale
  <1>4. QED
    BY <1>1, <1>2, <1>3, NoSessionType DEF SessionState

\* Every edit is one of an instance's row and changes.
LEMMA SetColumnEdits ==
    ASSUME TypeOK, NEW s \in Session, NEW e \in Entity, NEW c \in Column,
           NEW v \in ColumnValue[c], SetColumn(s, e, c, v)
    PROVE  LET row == Seen(s, e)
               row2 == [row EXCEPT !.columns[c] = v]
               changes2 == SetAttribute(session[s].changes[e], c, row.columns[c], v) IN
           /\ row \in Row /\ row2 \in Row
           /\ session[s].changes[e] \in Changes /\ changes2 \in Changes
           /\ Becomes(s, Edited(s, e, row2, changes2))
  <1> DEFINE row == Seen(s, e)
             row2 == [row EXCEPT !.columns[c] = v]
             changes2 == SetAttribute(session[s].changes[e], c, row.columns[c], v)
  <1>1. row \in Row
    BY DEF SetColumn, Editable
  <1>2. row2 \in Row
    <2> HIDE DEF row
    <2>1. v \in Value
      BY DEF Value
    <2>2. QED
      BY <1>1, <2>1 DEF row2, Row
  <1>3. session[s].changes[e] \in Changes
    BY SelfType DEF TypeOK
  <1>4. changes2 \in Changes
    <2>1. v \in Value /\ row.columns[c] \in Value
      BY <1>1, RowType DEF Value
    <2>2. QED
      BY <1>3, <2>1, SetAttributeType
  <1>5. Becomes(s, Edited(s, e, row2, changes2))
    BY DEF SetColumn, Edit, Edited
  <1>6. QED
    BY <1>1, <1>2, <1>3, <1>4, <1>5

LEMMA AppendEdits ==
    ASSUME TypeOK, NEW s \in Session, NEW e \in Entity, NEW m \in Member, Append(s, e, m)
    PROVE  LET row == Seen(s, e)
               row2 == [row EXCEPT !.members = row.members \cup {m}]
               changes2 == CollectionAppend(session[s].changes[e], {m}) IN
           /\ row \in Row /\ row2 \in Row
           /\ session[s].changes[e] \in Changes /\ changes2 \in Changes
           /\ Becomes(s, Edited(s, e, row2, changes2))
  <1>1. Seen(s, e) \in Row
    BY DEF Append, Editable
  <1>2. [Seen(s, e) EXCEPT !.members = Seen(s, e).members \cup {m}] \in Row
    BY <1>1 DEF Row
  <1>3. session[s].changes[e] \in Changes
    BY SelfType DEF TypeOK
  <1>4. QED
    BY <1>1, <1>2, <1>3, CollectionType DEF Append, Edit, Edited

LEMMA RemoveEdits ==
    ASSUME TypeOK, NEW s \in Session, NEW e \in Entity, NEW m \in Member, Remove(s, e, m)
    PROVE  LET row == Seen(s, e)
               row2 == [row EXCEPT !.members = row.members \ {m}]
               changes2 == CollectionRemove(session[s].changes[e], {m}) IN
           /\ row \in Row /\ row2 \in Row
           /\ session[s].changes[e] \in Changes /\ changes2 \in Changes
           /\ Becomes(s, Edited(s, e, row2, changes2))
  <1>1. Seen(s, e) \in Row
    BY DEF Remove, Editable
  <1>2. [Seen(s, e) EXCEPT !.members = Seen(s, e).members \ {m}] \in Row
    BY <1>1 DEF Row
  <1>3. session[s].changes[e] \in Changes
    BY SelfType DEF TypeOK
  <1>4. QED
    BY <1>1, <1>2, <1>3, CollectionType DEF Remove, Edit, Edited

--------------------------------------------------------------------------------
(* The inductive invariant, an entity at a time.                           *)

EntityOK(s, e) ==
    LET self == session[s] IN
    /\ e \in self.left => e \in Pending(s)
    /\ ~(e \in self.new /\ e \in self.dirty)
    /\ e \in self.deleted => e \notin self.new /\ e \notin self.dirty
    /\ e \in Pending(s) => self.mem[e] \in Row
    /\ self.mem[e] = None => self.entries[e] = None
    /\ e \notin Unlogged(s) /\ e \notin self.stale => Empty(self.changes[e])
    /\ e \in self.stale /\ self.mem[e] # None /\ e \notin self.missed => e \in Unlogged(s)
    /\ self.mem[e] # None /\ e \notin doubtful \cup self.missed \cup self.stale
          => TransactionTells(s, e)

Disjoint == \A s, o \in Session : s # o => Held(s) \cap Held(o) = {}

IndInv ==
    /\ TypeOK
    /\ FlagIsHeld
    /\ \A s \in Session, e \in Entity : EntityOK(s, e)
    /\ Disjoint
    /\ TrailTellsRows

\* An entity of which nothing changes, unless it becomes doubtful.
LEMMA SameEntity ==
    ASSUME NEW s \in Session, NEW e \in Entity, EntityOK(s, e),
           session'[s].mem[e] = session[s].mem[e],
           e \in session'[s].new <=> e \in session[s].new,
           e \in session'[s].dirty <=> e \in session[s].dirty,
           e \in session'[s].deleted <=> e \in session[s].deleted,
           session'[s].changes[e] = session[s].changes[e],
           session'[s].entries[e] = session[s].entries[e],
           e \in session'[s].left => e \in session[s].left \/ e \in Pending(s),
           e \in Unlogged(s)' <=> e \in Unlogged(s),
           e \in session'[s].stale <=> e \in session[s].stale,
           e \in session[s].missed => e \in session'[s].missed,
           trail'[e] = trail[e],
           doubtful \subseteq doubtful'
    PROVE  EntityOK(s, e)'
  <1>1. e \in Pending(s)' <=> e \in Pending(s)
    BY DEF Pending
  <1>2. TrailOf(s, e)' = TrailOf(s, e)
    BY DEF TrailOf
  <1>3. TransactionTells(s, e) => TransactionTells(s, e)'
    BY <1>2 DEF TransactionTells
  <1>4. QED
    BY <1>1, <1>3 DEF EntityOK

\* A session of which nothing changes.
LEMMA OtherSession ==
    ASSUME IndInv, NEW o \in Session, session'[o] = session[o],
           doubtful \subseteq doubtful',
           NEW e \in Entity, trail'[e] = trail[e]
    PROVE  EntityOK(o, e)'
  BY SameEntity DEF IndInv, Pending, Unlogged

\* A step of one session that commits nothing.
LEMMA OneSession ==
    ASSUME IndInv, NEW s \in Session, NEW self \in SessionState, Becomes(s, self),
           UNCHANGED <<rows, trail, doubtful>>,
           running' \in BOOLEAN, creating' \in BOOLEAN, FlagIsHeld',
           \A e \in Entity : EntityOK(s, e)',
           \A e \in Entity, o \in Session \ {s} :
               self.mem[e] # None => session[s].mem[e] # None \/ e \notin Held(o)
    PROVE  IndInv'
  <1>1. /\ session' \in [Session -> SessionState]
        /\ session'[s] = self
        /\ \A o \in Session \ {s} : session'[o] = session[o]
    BY BecomesType DEF IndInv, TypeOK
  <1>2. TypeOK'
    BY <1>1 DEF IndInv, TypeOK
  <1>3. \A o \in Session, e \in Entity : EntityOK(o, e)'
    BY <1>1, OtherSession
  <1>4. Disjoint'
    <2>1. \A o \in Session \ {s} : Held(o)' = Held(o)
      BY <1>1 DEF Held
    <2>2. \A o \in Session \ {s} : Held(s)' \cap Held(o) = {}
      <3> SUFFICES ASSUME NEW o \in Session \ {s}, NEW e \in Held(s)', e \in Held(o)
                   PROVE  FALSE
        OBVIOUS
      <3>1. e \in Entity /\ self.mem[e] # None
        BY <1>1 DEF Held
      <3>2. e \in Held(s)
        BY <3>1 DEF Held
      <3>3. QED
        BY <3>2 DEF IndInv, Disjoint
    <2>3. QED
      BY <2>1, <2>2 DEF IndInv, Disjoint
  <1>5. TrailTellsRows'
    BY DEF IndInv, TrailTellsRows
  <1>6. QED
    BY <1>2, <1>3, <1>4, <1>5 DEF IndInv

\* The flag, when no session stops logging.
LEMMA FlagStays ==
    ASSUME IndInv, NEW s \in Session, NEW self \in SessionState, Becomes(s, self),
           creating' = creating,
           session[s].phase = "logging" => self.phase = "logging"
    PROVE  FlagIsHeld'
  BY BecomesType DEF IndInv, TypeOK, FlagIsHeld

--------------------------------------------------------------------------------
(* The steps of a request.                                                 *)

LEMMA NoneIsNoRow ==
    /\ \A row \in Row : row # None /\ row # Gone /\ row # Unborn
    /\ \A t \in Trail : t # None
    /\ Gone # None
  BY ServiceAssumption

\* An entity that no transaction holds, in a session.
LEMMA NotHeld ==
    ASSUME IndInv, NEW s \in Session, NEW e \in Entity, session[s].mem[e] = None
    PROVE  /\ Seen(s, e) = rows[e] /\ TrailOf(s, e) = trail[e]
           /\ e \notin Pending(s) /\ e \notin Unlogged(s)
           /\ e \notin session[s].stale => Empty(session[s].changes[e])
  <1>1. EntityOK(s, e)
    BY DEF IndInv
  <1>2. e \notin Pending(s)
    BY <1>1, NoneIsNoRow DEF EntityOK
  <1>3. e \notin Unlogged(s)
    BY <1>1, <1>2 DEF EntityOK, Unlogged
  <1>4. QED
    BY <1>1, <1>2, <1>3 DEF EntityOK, Seen, Held, TrailOf

\* What is known of an entity before it is edited.
LEMMA EditableTells ==
    ASSUME IndInv, NEW s \in Session, NEW e \in Entity, Editable(s, e),
           e \notin doubtful \cup session[s].missed \cup session[s].stale
    PROVE  /\ TrailOf(s, e).op = "none" <=> e \in session[s].new
           /\ TrailOf(s, e).op # "DELETION"
           /\ Tells(Continue(TrailOf(s, e), "UPDATE", session[s].changes[e]), Seen(s, e))
           /\ e \in session[s].new \/ Continues(TrailOf(s, e), session[s].changes[e])
  <1>1. TypeOK /\ EntityOK(s, e) /\ Seen(s, e) \in Row /\ TrailOf(s, e) \in Trail
    BY TrailOfType DEF IndInv, Editable
  <1>2. session[s].phase = "idle" /\ e \notin session[s].deleted
    BY DEF Editable, Free, Idle
  <1>3. CASE session[s].mem[e] = None
    <2>1. Empty(session[s].changes[e]) /\ TrailOf(s, e) = trail[e] /\ Seen(s, e) = rows[e]
      BY <1>3, NotHeld
    <2>2. trail[e].op \in {"CREATION", "UPDATE"} /\ Tells(trail[e], rows[e])
      BY <1>1, <2>1 DEF IndInv, TrailTellsRows
    <2>3. e \notin session[s].new
      BY <1>3, NotHeld DEF Pending
    <2>4. QED
      BY <1>1, <2>1, <2>2, <2>3, NothingToTell
  <1>4. CASE session[s].mem[e] # None
    <2>1. TransactionTells(s, e)
      BY <1>1, <1>4 DEF EntityOK
    <2>2. Seen(s, e) = session[s].mem[e] /\ session[s].mem[e] # Gone
      BY <1>1, <1>4, NoneIsNoRow DEF Seen, Held
    <2>3. e \in session[s].new => e \in Unlogged(s)
      BY <1>2 DEF Unlogged, Pending
    <2>4. QED
      BY <1>2, <2>1, <2>2, <2>3 DEF TransactionTells
  <1>5. QED
    BY <1>3, <1>4

LEMMA EditKeeps ==
    ASSUME IndInv, NEW s \in Session, NEW e \in Entity, Editable(s, e), Unchanged,
           NEW row2 \in Row, NEW changes2 \in Changes,
           Becomes(s, Edited(s, e, row2, changes2)),
           \A t \in Trail :
               /\ Tells(Continue(t, "UPDATE", session[s].changes[e]), Seen(s, e))
                     => Tells(Continue(t, "UPDATE", changes2), row2)
               /\ Coherent(t, session[s].changes[e], Seen(s, e)) => Coherent(t, changes2, row2)
    PROVE  IndInv'
  <1> DEFINE self == Edited(s, e, row2, changes2)
  <1>1. TypeOK /\ session[s] \in SessionState /\ EntityOK(s, e) /\ Seen(s, e) \in Row
    BY DEF IndInv, TypeOK, Editable
  <1>2. self \in SessionState /\ session'[s] = self
    BY <1>1, EditedType, BecomesType DEF TypeOK
  <1>3. /\ self.mem = [session[s].mem EXCEPT ![e] = row2]
        /\ self.new = session[s].new /\ self.deleted = session[s].deleted
        /\ self.dirty = session[s].dirty \cup ({e} \ session[s].new)
        /\ self.changes = [session[s].changes EXCEPT ![e] = changes2]
        /\ self.entries = session[s].entries /\ self.left = session[s].left
        /\ self.phase = session[s].phase
        /\ self.stale = session[s].stale /\ self.missed = session[s].missed
    BY <1>1 DEF Edited, SessionState
  <1>4. /\ self.mem[e] = row2 /\ self.changes[e] = changes2
        /\ \A d \in Entity \ {e} : /\ self.mem[d] = session[s].mem[d]
                                    /\ self.changes[d] = session[s].changes[d]
    BY <1>1, <1>3, SelfType
  <1> HIDE DEF self
  <1>5. session[s].phase = "idle" /\ e \notin session[s].deleted
    BY DEF Editable, Free, Idle
  <1>6. ASSUME NEW d \in Entity \ {e} PROVE EntityOK(s, d)'
    BY <1>2, <1>3, <1>4, <1>5, SameEntity DEF IndInv, Unchanged, Unlogged, Pending
  <1>7. e \in Pending(s)' /\ e \in Unlogged(s)'
    BY <1>2, <1>3, <1>5 DEF Pending, Unlogged
  <1>8. TrailOf(s, e)' = TrailOf(s, e) /\ TrailOf(s, e) \in Trail
    BY <1>1, <1>2, <1>3, TrailOfType DEF TrailOf, Unchanged
  <1>9. e \notin doubtful \cup session[s].missed \cup session[s].stale
           => /\ TrailOf(s, e).op = "none" <=> e \in session[s].new
              /\ TrailOf(s, e).op # "DELETION"
              /\ Tells(Continue(TrailOf(s, e), "UPDATE", session[s].changes[e]), Seen(s, e))
              /\ e \in session[s].new \/ Continues(TrailOf(s, e), session[s].changes[e])
    BY EditableTells
  <1>10. e \notin doubtful \cup session[s].missed \cup session[s].stale
            => TransactionTells(s, e)'
    <2> SUFFICES ASSUME e \notin doubtful \cup session[s].missed \cup session[s].stale
                 PROVE  TransactionTells(s, e)'
      OBVIOUS
    <2>1. /\ Tells(Continue(TrailOf(s, e), "UPDATE", changes2), row2)
          /\ e \in session[s].new \/ Continues(TrailOf(s, e), changes2)
      BY <1>8, <1>9 DEF Coherent
    <2>2. QED
      BY <1>2, <1>3, <1>4, <1>5, <1>7, <1>8, <1>9, <2>1, NoneIsNoRow DEF TransactionTells
  <1>11. EntityOK(s, e)'
    BY <1>1, <1>2, <1>3, <1>4, <1>5, <1>7, <1>10, NoneIsNoRow
       DEF EntityOK, Unchanged, Pending
  <1>12. FlagIsHeld'
    BY <1>2, <1>3, FlagStays DEF self, Unchanged
  <1>13. \A d \in Entity, o \in Session \ {s} :
            self.mem[d] # None => session[s].mem[d] # None \/ d \notin Held(o)
    BY <1>4 DEF Editable, Free
  <1>14. QED
    BY <1>1, <1>2, <1>6, <1>11, <1>12, <1>13, OneSession DEF self, Unchanged, TypeOK

LEMMA SetColumnKeeps ==
    ASSUME IndInv, NEW s \in Session, NEW e \in Entity, NEW c \in Column,
           NEW v \in ColumnValue[c], SetColumn(s, e, c, v)
    PROVE  IndInv'
  <1> DEFINE row == Seen(s, e)
             row2 == [row EXCEPT !.columns[c] = v]
             changes == session[s].changes[e]
             changes2 == SetAttribute(changes, c, row.columns[c], v)
  <1>1. /\ row \in Row /\ row2 \in Row /\ changes \in Changes /\ changes2 \in Changes
        /\ Becomes(s, Edited(s, e, row2, changes2))
    BY SetColumnEdits DEF IndInv
  <1>2. ASSUME NEW t \in Trail
        PROVE  /\ Tells(Continue(t, "UPDATE", changes), row)
                     => Tells(Continue(t, "UPDATE", changes2), row2)
               /\ Coherent(t, changes, row) => Coherent(t, changes2, row2)
    BY <1>1, SetAttributeCoherent
  <1>3. Editable(s, e) /\ Unchanged
    BY DEF SetColumn
  <1> HIDE DEF row2, changes2
  <1>4. QED
    BY <1>1, <1>2, <1>3, EditKeeps

LEMMA CollectKeeps ==
    ASSUME IndInv, NEW s \in Session, NEW e \in Entity, NEW m \in Member,
           Append(s, e, m) \/ Remove(s, e, m)
    PROVE  IndInv'
  <1>1. CASE Append(s, e, m)
    <2> DEFINE row == Seen(s, e)
               row2 == [row EXCEPT !.members = row.members \cup {m}]
               changes == session[s].changes[e]
               changes2 == CollectionAppend(changes, {m})
    <2>1. /\ row \in Row /\ row2 \in Row /\ changes \in Changes /\ changes2 \in Changes
          /\ Becomes(s, Edited(s, e, row2, changes2))
      BY <1>1, AppendEdits DEF IndInv
    <2>2. ASSUME NEW t \in Trail
          PROVE  /\ Tells(Continue(t, "UPDATE", changes), row)
                       => Tells(Continue(t, "UPDATE", changes2), row2)
                 /\ Coherent(t, changes, row) => Coherent(t, changes2, row2)
      BY <2>1, CollectionCoherent
    <2>3. Editable(s, e) /\ Unchanged
      BY <1>1 DEF Append
    <2> HIDE DEF row2, changes2
    <2>4. QED
      BY <2>1, <2>2, <2>3, EditKeeps
  <1>2. CASE Remove(s, e, m)
    <2> DEFINE row == Seen(s, e)
               row2 == [row EXCEPT !.members = row.members \ {m}]
               changes == session[s].changes[e]
               changes2 == CollectionRemove(changes, {m})
    <2>1. /\ row \in Row /\ row2 \in Row /\ changes \in Changes /\ changes2 \in Changes
          /\ Becomes(s, Edited(s, e, row2, changes2))
      BY <1>2, RemoveEdits DEF IndInv
    <2>2. ASSUME NEW t \in Trail
          PROVE  /\ Tells(Continue(t, "UPDATE", changes), row)
                       => Tells(Continue(t, "UPDATE", changes2), row2)
                 /\ Coherent(t, changes, row) => Coherent(t, changes2, row2)
      BY <2>1, CollectionCoherent
    <2>3. Editable(s, e) /\ Unchanged
      BY <1>2 DEF Remove
    <2> HIDE DEF row2, changes2
    <2>4. QED
      BY <2>1, <2>2, <2>3, EditKeeps
  <1>3. QED
    BY <1>1, <1>2

LEMMA CreateKeeps ==
    ASSUME IndInv, NEW s \in Session, NEW e \in Entity, NEW row \in NewRow, Create(s, e, row)
    PROVE  IndInv'
  <1> DEFINE created == CreationChanges(NoChanges, row)
             self == [session[s] EXCEPT !.mem[e] = row, !.new = session[s].new \cup {e},
                                        !.changes[e] = created]
  <1>1. TypeOK /\ session[s] \in SessionState /\ EntityOK(s, e)
    BY DEF IndInv, TypeOK
  <1>2. row \in Row /\ created \in Changes
    BY ServiceAssumption, NoChangesType, CreationChangesType
  <1> HIDE DEF created
  <1>3. /\ self.mem = [session[s].mem EXCEPT ![e] = row]
        /\ self.new = session[s].new \cup {e} /\ self.deleted = session[s].deleted
        /\ self.dirty = session[s].dirty
        /\ self.changes = [session[s].changes EXCEPT ![e] = created]
        /\ self.entries = session[s].entries /\ self.left = session[s].left
        /\ self.phase = session[s].phase
        /\ self.stale = session[s].stale /\ self.missed = session[s].missed
    BY <1>1 DEF SessionState
  <1>4. /\ self.mem[e] = row /\ self.changes[e] = created
        /\ \A d \in Entity \ {e} : /\ self.mem[d] = session[s].mem[d]
                                    /\ self.changes[d] = session[s].changes[d]
    BY <1>1, <1>3, SelfType
  <1>5. self \in SessionState
    <2>1. /\ [session[s].mem EXCEPT ![e] = row] \in [Entity -> Row \cup {Gone, None}]
          /\ [session[s].changes EXCEPT ![e] = created] \in [Entity -> Changes]
          /\ session[s].new \cup {e} \in SUBSET Entity
      BY <1>1, <1>2, SelfType
    <2>2. QED
      BY <1>1, <2>1 DEF SessionState
  <1>6. Becomes(s, self)
    BY DEF Create, created
  <1> HIDE DEF self
  <1>7. session'[s] = self
    BY <1>1, <1>5, <1>6, BecomesType DEF TypeOK
  <1>8. session[s].phase = "idle" /\ Seen(s, e) = Unborn /\ Unchanged
    BY DEF Create, Free, Idle
  <1>9. session[s].mem[e] = None
    <2>1. session[s].mem[e] \in Row \cup {Gone, None}
      BY <1>1, SelfType
    <2>2. QED
      BY <1>8, <2>1, ServiceAssumption DEF Seen, Held
  <1>10. /\ rows[e] = Unborn /\ TrailOf(s, e) = trail[e] /\ e \notin Pending(s)
         /\ trail[e] \in Trail
    BY <1>1, <1>8, <1>9, NotHeld DEF TypeOK
  <1>11. ASSUME NEW d \in Entity \ {e} PROVE EntityOK(s, d)'
    BY <1>3, <1>4, <1>7, <1>8, SameEntity DEF IndInv, Unchanged, Unlogged, Pending
  <1>12. e \in Unlogged(s)' /\ TrailOf(s, e)' = trail[e]
    BY <1>3, <1>7, <1>8, <1>10 DEF Pending, Unlogged, TrailOf, Unchanged
  <1>13. e \notin doubtful => TransactionTells(s, e)'
    <2> SUFFICES ASSUME e \notin doubtful PROVE TransactionTells(s, e)'
      OBVIOUS
    <2>1. trail[e] = NoTrail
      BY <1>10 DEF IndInv, TrailTellsRows
    <2>2. Tells(Continue(trail[e], "UPDATE", created), row)
      BY <1>2, <1>10, <2>1, NoChangesType, CreationTells DEF NoTrail, created
    <2>3. /\ session'[s].mem[e] = row /\ row # Gone /\ session'[s].changes[e] = created
          /\ e \in session'[s].new /\ e \in Unlogged(s)'
      BY <1>2, <1>3, <1>4, <1>7, <1>12, NoneIsNoRow
    <2>4. trail[e].op = "none"
      BY <2>1 DEF NoTrail
    <2>5. QED
      BY <1>12, <2>2, <2>3, <2>4 DEF TransactionTells
  <1>14. EntityOK(s, e)'
    BY <1>1, <1>2, <1>3, <1>4, <1>7, <1>8, <1>10, <1>12, <1>13, NoneIsNoRow
       DEF EntityOK, Unchanged, Pending
  <1>15. FlagIsHeld'
    BY <1>3, <1>5, <1>6, <1>8, FlagStays DEF Unchanged
  <1>16. \A d \in Entity, o \in Session \ {s} :
            self.mem[d] # None => session[s].mem[d] # None \/ d \notin Held(o)
    BY <1>4 DEF Create, Free
  <1>17. QED
    BY <1>1, <1>5, <1>6, <1>7, <1>8, <1>11, <1>14, <1>15, <1>16, OneSession
       DEF Unchanged, TypeOK

LEMMA DeleteKeeps ==
    ASSUME IndInv, NEW s \in Session, NEW e \in Entity, Delete(s, e)
    PROVE  IndInv'
  <1> DEFINE row == Seen(s, e)
             self == [session[s] EXCEPT !.mem[e] = row,
                                        !.deleted = session[s].deleted \cup {e},
                                        !.dirty = session[s].dirty \ {e}]
  <1>1. /\ TypeOK /\ session[s] \in SessionState /\ EntityOK(s, e) /\ row \in Row
        /\ Editable(s, e) /\ Unchanged /\ e \notin session[s].new /\ Becomes(s, self)
    BY DEF IndInv, TypeOK, Delete, Editable
  <1> HIDE DEF row
  <1>2. /\ self.mem = [session[s].mem EXCEPT ![e] = row]
        /\ self.new = session[s].new /\ self.deleted = session[s].deleted \cup {e}
        /\ self.dirty = session[s].dirty \ {e} /\ self.changes = session[s].changes
        /\ self.entries = session[s].entries /\ self.left = session[s].left
        /\ self.phase = session[s].phase
        /\ self.stale = session[s].stale /\ self.missed = session[s].missed
    BY <1>1 DEF SessionState
  <1>3. /\ self.mem[e] = row
        /\ \A d \in Entity \ {e} : self.mem[d] = session[s].mem[d]
    BY <1>1, <1>2, SelfType
  <1>4. self \in SessionState
    <2>1. /\ [session[s].mem EXCEPT ![e] = row] \in [Entity -> Row \cup {Gone, None}]
          /\ session[s].deleted \cup {e} \in SUBSET Entity
          /\ session[s].dirty \ {e} \in SUBSET Entity
      BY <1>1, SelfType
    <2>2. QED
      BY <1>1, <2>1 DEF SessionState
  <1> HIDE DEF self
  <1>5. session'[s] = self
    BY <1>1, <1>4, BecomesType DEF TypeOK
  <1>6. session[s].phase = "idle"
    BY <1>1 DEF Editable, Free, Idle
  <1>7. ASSUME NEW d \in Entity \ {e} PROVE EntityOK(s, d)'
    BY <1>1, <1>2, <1>3, <1>5, <1>6, SameEntity DEF IndInv, Unchanged, Unlogged, Pending
  <1>8. e \in Unlogged(s)' /\ TrailOf(s, e)' = TrailOf(s, e)
    BY <1>1, <1>2, <1>5, <1>6 DEF Pending, Unlogged, TrailOf, Unchanged
  <1>9. e \notin doubtful \cup session[s].missed \cup session[s].stale
           => TransactionTells(s, e)'
    BY <1>1, <1>2, <1>3, <1>5, <1>8, EditableTells, NoneIsNoRow DEF TransactionTells, row
  <1>10. EntityOK(s, e)'
    BY <1>1, <1>2, <1>3, <1>5, <1>6, <1>8, <1>9, NoneIsNoRow DEF EntityOK, Unchanged, Pending
  <1>11. FlagIsHeld'
    BY <1>1, <1>2, <1>4, FlagStays DEF Unchanged
  <1>12. \A d \in Entity, o \in Session \ {s} :
            self.mem[d] # None => session[s].mem[d] # None \/ d \notin Held(o)
    BY <1>1, <1>3 DEF Editable, Free
  <1>13. QED
    BY <1>1, <1>4, <1>5, <1>7, <1>10, <1>11, <1>12, OneSession DEF Unchanged, TypeOK

--------------------------------------------------------------------------------
(* The steps of a flush.                                                   *)

\* A flush begins, or its entries.
LEMMA PhaseKeeps ==
    ASSUME IndInv, NEW s \in Session, Flush(s) \/ StartCreating(s)
    PROVE  IndInv'
  <1> DEFINE phase == IF Flush(s) THEN "entering" ELSE "logging"
             left == IF Flush(s) THEN session[s].left ELSE Pending(s)
             self == [session[s] EXCEPT !.phase = phase, !.left = left]
  <1>1. /\ TypeOK /\ session[s] \in SessionState /\ \A e \in Entity : EntityOK(s, e)
        /\ session[s].phase \in {"idle", "entering"}
        /\ UNCHANGED <<rows, trail, doubtful, running>>
    BY DEF IndInv, TypeOK, Flush, StartCreating, Idle, Unchanged
  <1>2. Pending(s) \subseteq Entity /\ left \subseteq Entity
    BY <1>1, SelfType DEF Pending
  <1>3. self \in SessionState
    BY <1>1, <1>2 DEF SessionState
  <1>4. /\ self.mem = session[s].mem
        /\ self.new = session[s].new /\ self.deleted = session[s].deleted
        /\ self.dirty = session[s].dirty /\ self.changes = session[s].changes
        /\ self.entries = session[s].entries /\ self.left = left /\ self.phase = phase
        /\ self.stale = session[s].stale /\ self.missed = session[s].missed
    BY <1>1 DEF SessionState
  <1>5. Becomes(s, self)
    <2>1. CASE Flush(s)
      <3>1. self = [session[s] EXCEPT !.phase = "entering"]
        BY <1>1, <2>1 DEF SessionState
      <3>2. QED
        BY <2>1, <3>1 DEF Flush
    <2>2. CASE ~Flush(s)
      BY <2>2 DEF StartCreating
    <2>3. QED
      BY <2>1, <2>2
  <1> HIDE DEF self
  <1>6. session'[s] = self
    BY <1>1, <1>3, <1>5, BecomesType DEF TypeOK
  <1>7. Pending(s)' = Pending(s) /\ Unlogged(s)' = Unlogged(s)
    BY <1>1, <1>4, <1>6 DEF Pending, Unlogged
  <1>8. \A e \in Entity : EntityOK(s, e)'
    BY <1>1, <1>4, <1>6, <1>7, SameEntity
  <1>9. FlagIsHeld' /\ creating' \in BOOLEAN
    <2>1. CASE Flush(s)
      BY <1>1, <1>3, <1>5, <2>1, FlagStays DEF Flush, Unchanged, TypeOK
    <2>2. CASE ~Flush(s)
      BY <1>4, <1>6, <2>2 DEF StartCreating, FlagIsHeld
    <2>3. QED
      BY <2>1, <2>2
  <1>10. QED
    BY <1>1, <1>3, <1>4, <1>5, <1>8, <1>9, OneSession DEF TypeOK

\* A flush ends, with entries for all that was pending except what is missing.
LEMMA FinishedKeeps ==
    ASSUME IndInv, NEW s \in Session, NEW missing \in SUBSET Entity,
           Unlogged(s) \subseteq missing, Becomes(s, Finished(s, missing)),
           UNCHANGED <<rows, trail, doubtful, running>>, creating' \in BOOLEAN, FlagIsHeld'
    PROVE  IndInv'
  <1> DEFINE self == Finished(s, missing)
  <1>1. TypeOK /\ session[s] \in SessionState /\ \A e \in Entity : EntityOK(s, e)
    BY DEF IndInv, TypeOK
  <1>2. self \in SessionState /\ session'[s] = self
    BY <1>1, FinishedType, BecomesType DEF TypeOK
  <1>3. /\ \A e \in Entity : self.mem[e] = IF e \in session[s].deleted THEN Gone
                                           ELSE session[s].mem[e]
        /\ self.new = {} /\ self.deleted = {} /\ self.dirty = {} /\ self.left = {}
        /\ self.changes = session[s].changes /\ self.entries = session[s].entries
        /\ self.phase = "idle" /\ self.missed = session[s].missed \cup missing
        /\ self.stale = session[s].stale \cup {e \in missing : ~Empty(session[s].changes[e])}
    BY <1>1 DEF Finished, SessionState
  <1> HIDE DEF self
  <1>4. Pending(s)' = {} /\ Unlogged(s)' = {}
    BY <1>2, <1>3 DEF Pending, Unlogged
  <1>5. \A e \in Entity : e \in session[s].deleted => session[s].mem[e] \in Row
    BY <1>1 DEF EntityOK, Pending
  <1>6. ASSUME NEW e \in Entity PROVE EntityOK(s, e)'
    <2>1. EntityOK(s, e) /\ TrailOf(s, e)' = TrailOf(s, e)
      BY <1>1, <1>2, <1>3 DEF TrailOf
    <2>2. self.mem[e] = None => session[s].mem[e] = None
      BY <1>3, NoneIsNoRow
    <2>3. self.mem[e] # None => session[s].mem[e] # None
      BY <1>3, <1>5, NoneIsNoRow
    <2>4. e \notin self.stale => Empty(self.changes[e])
      BY <1>3, <2>1 DEF EntityOK
    <2>5. ~(e \in self.stale /\ self.mem[e] # None /\ e \notin self.missed)
      BY <1>3, <2>1, <2>3 DEF EntityOK
    <2>6. self.mem[e] # None /\ e \notin doubtful \cup self.missed \cup self.stale
             => TransactionTells(s, e)'
      <3> SUFFICES ASSUME self.mem[e] # None, e \notin doubtful \cup self.missed \cup self.stale
                   PROVE  TransactionTells(s, e)'
        OBVIOUS
      <3>1. e \notin Unlogged(s) /\ TransactionTells(s, e)
        BY <1>3, <2>1, <2>3 DEF EntityOK
      <3>2. QED
        BY <1>2, <1>3, <1>4, <2>1, <3>1 DEF TransactionTells
    <2>7. QED
      BY <1>2, <1>3, <1>4, <2>1, <2>2, <2>4, <2>5, <2>6 DEF EntityOK
  <1>7. \A e \in Entity : self.mem[e] # None => session[s].mem[e] # None
    BY <1>3, <1>5, NoneIsNoRow
  <1>8. QED
    BY <1>1, <1>2, <1>6, <1>7, OneSession DEF self, TypeOK

LEMMA FlushOnlyKeeps ==
    ASSUME IndInv, NEW s \in Session, FlushOnly(s)
    PROVE  IndInv'
  <1>1. ~running \/ \E o \in Session \ {s} : session[o].phase = "logging"
    <2>1. creating => \E o \in Session : session[o].phase = "logging"
      BY DEF IndInv, FlagIsHeld
    <2>2. session[s].phase # "logging"
      BY DEF FlushOnly, Idle
    <2>3. QED
      BY <2>1, <2>2 DEF FlushOnly, IndInv, TypeOK
  <1>2. Becomes(s, Finished(s, Pending(s))) /\ Unchanged
    BY <1>1 DEF FlushOnly
  <1>3. Pending(s) \in SUBSET Entity /\ Unlogged(s) \subseteq Pending(s)
    BY SelfType DEF IndInv, TypeOK, Pending, Unlogged, FlushOnly, Idle
  <1>4. FlagIsHeld'
    <2>1. Finished(s, Pending(s)) \in SessionState
      BY <1>3, FinishedType DEF IndInv
    <2>2. session[s].phase # "logging"
      BY DEF FlushOnly, Idle
    <2>3. QED
      BY <1>2, <2>1, <2>2, FlagStays DEF Unchanged
  <1>5. QED
    BY <1>2, <1>3, <1>4, FinishedKeeps DEF Unchanged, IndInv, TypeOK

LEMMA EndCreatingKeeps ==
    ASSUME IndInv, NEW s \in Session, EndCreating(s)
    PROVE  IndInv'
  <1>1. Unlogged(s) = {}
    BY DEF EndCreating, Unlogged
  <1>2. QED
    BY <1>1, FinishedKeeps DEF EndCreating, FlagIsHeld

\* What the entry of e makes of its trail.
LEMMA LogTells ==
    ASSUME IndInv, NEW s \in Session, NEW e \in Entity,
           session[s].phase = "logging", e \in session[s].left,
           e \notin doubtful \cup session[s].missed \cup session[s].stale
    PROVE  LET t == IF HasEntry(s, e)
                    THEN Continue(TrailOf(s, e), OpOf(s, e), EntryChanges(s, e))
                    ELSE TrailOf(s, e) IN
           IF e \in session[s].deleted THEN t.op = "DELETION"
           ELSE /\ t.op \notin {"none", "DELETION"}
                /\ Tells(Continue(t, "UPDATE", NoChanges), session[s].mem[e])
                /\ Continues(t, NoChanges)
  <1> DEFINE row == session[s].mem[e]
             changes == session[s].changes[e]
             t == TrailOf(s, e)
             t2 == IF HasEntry(s, e) THEN Continue(t, OpOf(s, e), EntryChanges(s, e)) ELSE t
  <1>1. TypeOK /\ EntityOK(s, e) /\ t \in Trail /\ changes \in Changes
    BY TrailOfType, SelfType DEF IndInv, TypeOK
  <1>2. e \in Unlogged(s) /\ row \in Row /\ row # None /\ row # Gone
    BY <1>1, NoneIsNoRow DEF EntityOK, Unlogged
  <1>3. /\ EntryChanges(s, e) \in Changes
        /\ OpOf(s, e) \in {"CREATION", "UPDATE", "DELETION"}
    BY <1>1, <1>2, EntryChangesType
  <1>4. t2 \in Trail
    BY <1>1, <1>3, ContinueType
  <1>5. TransactionTells(s, e)
    BY <1>1, <1>2 DEF EntityOK
  <1>6. /\ t.op = "none" <=> e \in session[s].new
        /\ t.op # "DELETION"
        /\ Tells(Continue(t, "UPDATE", changes), row)
    BY <1>2, <1>5 DEF TransactionTells
  <1>7. CASE OpOf(s, e) = "CREATION"
    <2>1. EntryChanges(s, e) = CreationChanges(changes, row)
      BY <1>7 DEF EntryChanges
    <2>2. t2 = Continue(t, "CREATION", CreationChanges(changes, row))
      BY <1>7, <2>1 DEF HasEntry
    <2>3. t2.op = "CREATION" /\ e \notin session[s].deleted
      BY <1>1, <1>7, <2>2 DEF Continue, OpOf, EntityOK
    <2>4. Tells(t2, row)
      BY <1>1, <1>2, <1>6, <2>2, CreationTells, AnyOperation
    <2> HIDE DEF t2
    <2>5. QED
      BY <1>4, <2>3, <2>4, NoChangesType, NothingToTell DEF t2
  <1>8. CASE OpOf(s, e) = "DELETION"
    <2>1. e \in session[s].deleted /\ HasEntry(s, e)
      BY <1>8 DEF OpOf, HasEntry
    <2>2. QED
      BY <1>8, <2>1 DEF Continue
  <1>9. CASE OpOf(s, e) = "UPDATE"
    <2>1. EntryChanges(s, e) = changes /\ e \notin session[s].new /\ e \notin session[s].deleted
      BY <1>9 DEF EntryChanges, OpOf
    <2>2. CASE HasEntry(s, e)
      <3>1. t2 = Continue(t, "UPDATE", changes)
        BY <1>9, <2>1, <2>2
      <3>2. t2.op = "UPDATE" /\ Tells(t2, row)
        BY <1>6, <3>1 DEF Continue
      <3> HIDE DEF t2
      <3>3. QED
        BY <1>4, <2>1, <3>2, NoChangesType, NothingToTell DEF t2
    <2>3. CASE ~HasEntry(s, e)
      <3>1. t2 = t /\ Empty(changes)
        BY <1>9, <2>1, <2>3 DEF HasEntry
      <3>2. t2.op \notin {"none", "DELETION"} /\ Tells(t2, row)
        BY <1>1, <1>6, <2>1, <3>1, NothingToTell
      <3> HIDE DEF t2
      <3>3. QED
        BY <1>4, <2>1, <3>2, NoChangesType, NothingToTell DEF t2
    <2>4. QED
      BY <2>2, <2>3
  <1>10. QED
    BY <1>3, <1>7, <1>8, <1>9

\* An entity is taken off what is left to be logged.
LEMMA LogOrFail ==
    ASSUME IndInv, NEW s \in Session, NEW e \in Entity, NEW self \in SessionState,
           session[s].phase = "logging", e \in session[s].left,
           Becomes(s, self), Unchanged,
           self.left = session[s].left \ {e},
           self.mem = session[s].mem, self.new = session[s].new,
           self.dirty = session[s].dirty, self.deleted = session[s].deleted,
           self.phase = session[s].phase,
           e \notin self.stale => Empty(self.changes[e]),
           e \in self.stale => e \in self.missed,
           e \notin doubtful \cup self.missed \cup self.stale => TransactionTells(s, e)',
           \A d \in Entity \ {e} :
               /\ self.changes[d] = session[s].changes[d]
               /\ self.entries[d] = session[s].entries[d]
               /\ d \in self.stale <=> d \in session[s].stale
               /\ d \in self.missed <=> d \in session[s].missed
    PROVE  IndInv'
  <1>1. TypeOK /\ EntityOK(s, e) /\ session'[s] = self
    BY BecomesType DEF IndInv, TypeOK
  <1>2. Pending(s)' = Pending(s) /\ Unlogged(s)' = self.left /\ Unlogged(s) = session[s].left
    BY <1>1 DEF Pending, Unlogged
  <1>3. ASSUME NEW d \in Entity \ {e} PROVE EntityOK(s, d)'
    BY <1>1, <1>2, SameEntity DEF IndInv, Unchanged
  <1>4. session[s].mem[e] \in Row /\ session[s].mem[e] # None
    BY <1>1, NoneIsNoRow DEF EntityOK
  <1>5. EntityOK(s, e)'
    BY <1>1, <1>2, <1>4 DEF EntityOK, Unchanged
  <1>6. FlagIsHeld'
    BY FlagStays DEF Unchanged
  <1>7. QED
    BY <1>1, <1>3, <1>5, <1>6, OneSession DEF Unchanged, TypeOK

LEMMA LogKeeps ==
    ASSUME IndInv, NEW s \in Session, NEW e \in Entity, Log(s, e)
    PROVE  IndInv'
  <1> DEFINE t == IF HasEntry(s, e)
                  THEN Continue(TrailOf(s, e), OpOf(s, e), EntryChanges(s, e))
                  ELSE TrailOf(s, e)
             entry == IF HasEntry(s, e)
                      THEN Continue(TrailOf(s, e), OpOf(s, e), EntryChanges(s, e))
                      ELSE session[s].entries[e]
             missed == session[s].missed \cup ({e} \cap session[s].stale)
             self == [session[s] EXCEPT !.left = session[s].left \ {e},
                                        !.changes[e] = NoChanges,
                                        !.entries[e] = entry,
                                        !.missed = missed,
                                        !.stale = session[s].stale \ {e}]
  <1>1. /\ TypeOK /\ session[s] \in SessionState /\ EntityOK(s, e)
        /\ session[s].phase = "logging" /\ e \in session[s].left /\ Unchanged
    BY DEF IndInv, TypeOK, Log
  <1>2. Becomes(s, self)
    BY DEF Log
  <1>3. session[s].mem[e] \in Row /\ TrailOf(s, e) \in Trail
    BY <1>1, TrailOfType DEF EntityOK
  <1>4. HasEntry(s, e) => Continue(TrailOf(s, e), OpOf(s, e), EntryChanges(s, e)) \in Trail
    BY <1>1, <1>3, EntryChangesType, ContinueType
  <1>5. entry \in Trail \cup {None} /\ missed \in SUBSET Entity
    BY <1>1, <1>4, SelfType
  <1>6. TrailOf(s, e) = IF session[s].entries[e] # None THEN session[s].entries[e] ELSE trail[e]
    BY DEF TrailOf
  <1>7. t = IF entry # None THEN entry ELSE trail[e]
    BY <1>4, <1>6, NoneIsNoRow
  <1> HIDE DEF entry, missed
  <1>8. /\ [session[s].changes EXCEPT ![e] = NoChanges] \in [Entity -> Changes]
        /\ [session[s].entries EXCEPT ![e] = entry] \in [Entity -> Trail \cup {None}]
        /\ session[s].left \ {e} \in SUBSET Entity /\ session[s].stale \ {e} \in SUBSET Entity
    BY <1>1, <1>5, NoChangesType, SelfType
  <1>9. self \in SessionState
    BY <1>1, <1>5, <1>8 DEF SessionState
  <1>10. /\ self.changes = [session[s].changes EXCEPT ![e] = NoChanges]
         /\ self.entries = [session[s].entries EXCEPT ![e] = entry]
         /\ self.left = session[s].left \ {e}
         /\ self.mem = session[s].mem /\ self.new = session[s].new
         /\ self.dirty = session[s].dirty /\ self.deleted = session[s].deleted
         /\ self.phase = session[s].phase
         /\ self.missed = missed /\ self.stale = session[s].stale \ {e}
    BY <1>1 DEF SessionState
  <1> HIDE DEF self
  <1>11. session'[s] = self
    BY <1>1, <1>2, <1>9, BecomesType DEF TypeOK
  <1>12. self.changes[e] = NoChanges /\ self.entries[e] = entry
    BY <1>1, <1>10, SelfType
  <1>13. TrailOf(s, e)' = t
    BY <1>1, <1>7, <1>11, <1>12 DEF TrailOf, Unchanged
  <1>14. e \notin Unlogged(s)'
    BY <1>1, <1>10, <1>11 DEF Unlogged
  <1>15. e \notin doubtful \cup self.missed \cup self.stale => TransactionTells(s, e)'
    <2> SUFFICES ASSUME e \notin doubtful \cup self.missed \cup self.stale
                 PROVE  TransactionTells(s, e)'
      OBVIOUS
    <2>1. e \notin doubtful \cup session[s].missed \cup session[s].stale
      BY <1>10 DEF missed
    <2>2. IF e \in session[s].deleted THEN t.op = "DELETION"
          ELSE /\ t.op \notin {"none", "DELETION"}
               /\ Tells(Continue(t, "UPDATE", NoChanges), session[s].mem[e])
               /\ Continues(t, NoChanges)
      BY <1>1, <2>1, LogTells
    <2> HIDE DEF t
    <2>3. QED
      BY <1>3, <1>10, <1>11, <1>12, <1>13, <1>14, <2>2, NoneIsNoRow DEF TransactionTells
  <1>16. ASSUME NEW d \in Entity \ {e}
         PROVE  /\ self.changes[d] = session[s].changes[d]
                /\ self.entries[d] = session[s].entries[d]
                /\ d \in self.stale <=> d \in session[s].stale
                /\ d \in self.missed <=> d \in session[s].missed
    BY <1>1, <1>10, SelfType DEF missed
  <1>17. e \notin self.stale /\ Empty(self.changes[e])
    BY <1>10, <1>12, NoChangesType
  <1>18. QED
    BY <1>1, <1>2, <1>9, <1>10, <1>15, <1>16, <1>17, LogOrFail

LEMMA LogFailsKeeps ==
    ASSUME IndInv, NEW s \in Session, NEW e \in Entity, NEW taken \in SUBSET {e},
           LogFails(s, e, taken)
    PROVE  IndInv'
  <1> DEFINE left2 == IF e \in taken THEN NoChanges ELSE session[s].changes[e]
             stale == (session[s].stale \cup {e}) \ taken
             self == [session[s] EXCEPT !.left = session[s].left \ {e},
                                        !.changes[e] = left2,
                                        !.missed = session[s].missed \cup {e},
                                        !.stale = stale]
  <1>1. /\ TypeOK /\ session[s] \in SessionState
        /\ session[s].phase = "logging" /\ e \in session[s].left /\ Unchanged
    BY DEF IndInv, TypeOK, LogFails
  <1>2. Becomes(s, self)
    BY DEF LogFails
  <1>3. left2 \in Changes /\ stale \in SUBSET Entity
    BY <1>1, NoChangesType, SelfType
  <1>4. e \notin stale => Empty(left2)
    BY NoChangesType
  <1>5. \A d \in Entity \ {e} : d \in stale <=> d \in session[s].stale
    OBVIOUS
  <1> HIDE DEF left2, stale
  <1>6. /\ [session[s].changes EXCEPT ![e] = left2] \in [Entity -> Changes]
        /\ session[s].left \ {e} \in SUBSET Entity /\ session[s].missed \cup {e} \in SUBSET Entity
    BY <1>1, <1>3, SelfType
  <1>7. self \in SessionState
    BY <1>1, <1>3, <1>6 DEF SessionState
  <1>8. /\ self.changes = [session[s].changes EXCEPT ![e] = left2]
        /\ self.entries = session[s].entries
        /\ self.left = session[s].left \ {e}
        /\ self.mem = session[s].mem /\ self.new = session[s].new
        /\ self.dirty = session[s].dirty /\ self.deleted = session[s].deleted
        /\ self.phase = session[s].phase
        /\ self.missed = session[s].missed \cup {e} /\ self.stale = stale
    BY <1>1 DEF SessionState
  <1> HIDE DEF self
  <1>9. self.changes[e] = left2
    BY <1>1, <1>8, SelfType
  <1>10. ASSUME NEW d \in Entity \ {e}
         PROVE  /\ self.changes[d] = session[s].changes[d]
                /\ self.entries[d] = session[s].entries[d]
                /\ d \in self.stale <=> d \in session[s].stale
                /\ d \in self.missed <=> d \in session[s].missed
    BY <1>1, <1>5, <1>8, SelfType
  <1>11. e \in self.missed
    BY <1>8
  <1>12. QED
    BY <1>1, <1>2, <1>4, <1>7, <1>8, <1>9, <1>10, <1>11, LogOrFail

--------------------------------------------------------------------------------
(* The end of a transaction.                                               *)

\* A session that holds nothing.
Quiet(self) ==
    /\ self.mem = [e \in Entity |-> None] /\ self.entries = [e \in Entity |-> None]
    /\ self.new = {} /\ self.dirty = {} /\ self.deleted = {} /\ self.left = {}
    /\ self.phase = "idle"
    /\ \A e \in Entity : e \notin self.stale => Empty(self.changes[e])

LEMMA QuietOK ==
    ASSUME NEW s \in Session, NEW e \in Entity, Quiet(session[s])
    PROVE  EntityOK(s, e) /\ Held(s) = {}
  <1>1. e \notin Pending(s) /\ session[s].mem[e] = None /\ session[s].entries[e] = None
    BY DEF Quiet, Pending
  <1>2. e \notin session[s].stale => Empty(session[s].changes[e])
    BY DEF Quiet
  <1>3. EntityOK(s, e)
    BY <1>1, <1>2 DEF EntityOK, Quiet
  <1>4. QED
    BY <1>3 DEF Held, Quiet

LEMMA QuietOKNext ==
    ASSUME NEW s \in Session, NEW e \in Entity, Quiet(session'[s])
    PROVE  EntityOK(s, e)' /\ Held(s)' = {}
  <1>1. /\ e \notin Pending(s)' /\ session'[s].mem[e] = None
        /\ session'[s].entries[e] = None
    BY DEF Quiet, Pending
  <1>2. e \notin session'[s].stale => Empty(session'[s].changes[e])
    BY DEF Quiet
  <1>3. EntityOK(s, e)'
    BY <1>1, <1>2 DEF EntityOK, Quiet
  <1>4. QED
    BY <1>3 DEF Held, Quiet

\* A session drops what it holds.
LEMMA QuietKeeps ==
    ASSUME IndInv, NEW s \in Session, NEW self \in SessionState, Quiet(self),
           Becomes(s, self), UNCHANGED <<rows, trail, doubtful, running>>,
           creating' \in BOOLEAN, FlagIsHeld'
    PROVE  IndInv'
  <1>1. session'[s] = self /\ TypeOK
    BY BecomesType DEF IndInv, TypeOK
  <1>2. \A e \in Entity : EntityOK(s, e)'
    BY <1>1, QuietOKNext
  <1>3. \A e \in Entity : self.mem[e] = None
    BY DEF Quiet
  <1>4. QED
    BY <1>1, <1>2, <1>3, OneSession DEF TypeOK

LEMMA RolledBackQuiet ==
    ASSUME NEW s \in Session, NEW taken
    PROVE  Quiet(RolledBack(s, taken))
  <1> DEFINE kept == [e \in Entity |-> IF rows[e] = Unborn \/ e \in taken
                                       THEN NoChanges ELSE session[s].changes[e]]
             stale == {e \in Entity : ~Empty(kept[e])}
             self == [NoSession EXCEPT !.changes = kept, !.stale = stale]
  <1>1. RolledBack(s, taken) = self
    BY DEF RolledBack
  <1>2. \A e \in Entity : e \notin stale => Empty(kept[e])
    OBVIOUS
  <1> HIDE DEF kept, stale
  <1>3. Quiet(self)
    BY <1>2 DEF NoSession, Quiet
  <1>4. QED
    BY <1>1, <1>3

LEMMA RollbackKeeps ==
    ASSUME IndInv, NEW s \in Session, Rollback(s)
    PROVE  IndInv'
  <1>1. /\ Becomes(s, RolledBack(s, {})) /\ Unchanged /\ TypeOK
        /\ session[s].phase # "logging"
    BY DEF Rollback, IndInv, Idle
  <1>2. RolledBack(s, {}) \in SessionState /\ Quiet(RolledBack(s, {}))
    BY <1>1, RolledBackType, RolledBackQuiet
  <1>3. FlagIsHeld'
    BY <1>1, <1>2, FlagStays DEF Unchanged
  <1>4. QED
    BY <1>1, <1>2, <1>3, QuietKeeps DEF Unchanged, TypeOK

LEMMA LogRaisesKeeps ==
    ASSUME IndInv, NEW s \in Session, NEW e \in Entity, NEW taken \in SUBSET {e},
           LogRaises(s, e, taken)
    PROVE  IndInv'
  <1>1. /\ Becomes(s, RolledBack(s, taken)) /\ TypeOK /\ creating' = FALSE
        /\ UNCHANGED <<running, rows, trail, doubtful>>
    BY DEF LogRaises, IndInv
  <1>2. RolledBack(s, taken) \in SessionState /\ Quiet(RolledBack(s, taken))
    BY <1>1, RolledBackType, RolledBackQuiet
  <1>3. FlagIsHeld'
    BY <1>1 DEF FlagIsHeld
  <1>4. QED
    BY <1>1, <1>2, <1>3, QuietKeeps

LEMMA EndRequestKeeps ==
    ASSUME IndInv, NEW s \in Session, EndRequest(s)
    PROVE  IndInv'
  <1>1. Quiet(NoSession)
    BY NoChangesType DEF Quiet, NoSession
  <1>2. Becomes(s, NoSession) /\ Unchanged /\ session[s].phase # "logging"
    BY DEF EndRequest, Idle
  <1>3. FlagIsHeld'
    BY <1>2, NoSessionType, FlagStays DEF Unchanged
  <1>4. QED
    BY <1>1, <1>2, <1>3, NoSessionType, QuietKeeps DEF Unchanged, IndInv, TypeOK

LEMMA CommitKeeps ==
    ASSUME IndInv, NEW s \in Session, Commit(s)
    PROVE  IndInv'
  <1> DEFINE self == [NoSession EXCEPT !.changes = session[s].changes,
                                       !.stale = session[s].stale]
  <1>1. /\ TypeOK /\ session[s] \in SessionState /\ \A e \in Entity : EntityOK(s, e)
        /\ session[s].phase = "idle" /\ Pending(s) = {} /\ Unlogged(s) = {}
    BY DEF IndInv, TypeOK, Commit, Idle, Unlogged
  <1>2. /\ \A e \in Entity : rows'[e] = Seen(s, e) /\ trail'[e] = TrailOf(s, e)
        /\ doubtful' = doubtful \cup session[s].missed
        /\ running' = running /\ creating' = creating /\ Becomes(s, self)
    BY DEF Commit
  <1>3. self \in SessionState
    BY <1>1, SelfType, NoSessionType DEF SessionState
  <1>4. Quiet(self)
    <2>1. \A e \in Entity : e \notin session[s].stale => Empty(session[s].changes[e])
      BY <1>1 DEF EntityOK
    <2>2. QED
      BY <2>1 DEF Quiet, NoSession
  <1>5. /\ session' \in [Session -> SessionState] /\ session'[s] = self
        /\ \A o \in Session \ {s} : session'[o] = session[o]
    BY <1>1, <1>2, <1>3, BecomesType DEF TypeOK
  <1>6. TypeOK'
    <2>1. rows' \in [Entity -> Row \cup {Unborn, Gone}]
      BY <1>1, SeenType DEF Commit
    <2>2. trail' \in [Entity -> Trail]
      BY <1>1, TrailOfType DEF Commit
    <2>3. session[s].missed \subseteq Entity
      BY <1>1, SelfType
    <2>4. QED
      BY <1>1, <1>2, <1>5, <2>1, <2>2, <2>3 DEF TypeOK
  <1>7. FlagIsHeld'
    BY <1>1, <1>2, <1>3, FlagStays
  <1>8. \A e \in Entity : EntityOK(s, e)'
    BY <1>4, <1>5, QuietOKNext
  <1>9. ASSUME NEW o \in Session \ {s}, NEW e \in Entity PROVE EntityOK(o, e)'
    <2>1. CASE session[s].mem[e] = None
      <3>1. trail'[e] = trail[e]
        BY <1>2, <2>1, NotHeld
      <3>2. QED
        BY <1>2, <1>5, <3>1, OtherSession
    <2>2. CASE session[s].mem[e] # None
      <3>1. session[o].mem[e] = None
        BY <2>2 DEF IndInv, Disjoint, Held
      <3>2. EntityOK(o, e) /\ session'[o] = session[o]
        BY <1>5 DEF IndInv
      <3>3. Pending(o)' = Pending(o) /\ Unlogged(o)' = Unlogged(o)
        BY <3>2 DEF Pending, Unlogged
      <3>4. QED
        BY <3>1, <3>2, <3>3 DEF EntityOK
    <2>3. QED
      BY <2>1, <2>2
  <1>10. Disjoint'
    <2>1. \A o \in Session \ {s} : Held(o)' = Held(o)
      BY <1>5 DEF Held
    <2>2. Held(s)' = {}
      BY <1>4, <1>5 DEF Quiet, Held
    <2>3. QED
      BY <2>1, <2>2 DEF IndInv, Disjoint
  <1>11. ASSUME NEW e \in Entity, e \notin doubtful \cup session[s].missed
         PROVE  /\ rows'[e] = Unborn => trail'[e] = NoTrail
                /\ rows'[e] = Gone => trail'[e].op = "DELETION"
                /\ rows'[e] \in Row => /\ trail'[e].op \in {"CREATION", "UPDATE"}
                                       /\ Tells(trail'[e], rows'[e])
    <2>1. CASE session[s].mem[e] = None
      <3>1. rows'[e] = rows[e] /\ trail'[e] = trail[e]
        BY <1>2, <2>1, NotHeld
      <3>2. QED
        BY <1>11, <3>1 DEF IndInv, TrailTellsRows
    <2>2. CASE session[s].mem[e] # None
      <3>1. /\ rows'[e] = session[s].mem[e] /\ trail'[e] = TrailOf(s, e)
            /\ session[s].mem[e] \in Row \cup {Gone} /\ TrailOf(s, e) \in Trail
        BY <1>1, <1>2, <2>2, SelfType, TrailOfType DEF Seen, Held
      <3>2. e \notin session[s].stale /\ e \notin session[s].deleted
        BY <1>1, <1>11, <2>2 DEF EntityOK, Pending
      <3>3. TransactionTells(s, e) /\ Empty(session[s].changes[e])
        BY <1>1, <1>11, <2>2, <3>2 DEF EntityOK
      <3>4. CASE session[s].mem[e] = Gone
        BY <3>1, <3>3, <3>4, ServiceAssumption DEF TransactionTells
      <3>5. CASE session[s].mem[e] \in Row
        <4>1. /\ TrailOf(s, e).op # "none" /\ TrailOf(s, e).op # "DELETION"
              /\ Tells(Continue(TrailOf(s, e), "UPDATE", session[s].changes[e]),
                       session[s].mem[e])
          BY <1>1, <3>2, <3>3, <3>5, NoneIsNoRow DEF TransactionTells
        <4>2. TrailOf(s, e).op \in {"CREATION", "UPDATE"}
          BY <3>1, <4>1 DEF Trail
        <4>3. Tells(TrailOf(s, e), session[s].mem[e])
          BY <3>1, <3>3, <4>1, NothingToTell
        <4>4. QED
          BY <3>1, <3>5, <4>2, <4>3, NoneIsNoRow
      <3>6. QED
        BY <3>1, <3>4, <3>5
    <2>3. QED
      BY <2>1, <2>2
  <1>12. TrailTellsRows'
    BY <1>2, <1>11 DEF TrailTellsRows
  <1>13. QED
    BY <1>6, <1>7, <1>8, <1>9, <1>10, <1>12 DEF IndInv

--------------------------------------------------------------------------------
(* The theorems.                                                           *)

LEMMA InitOK == Init => IndInv
  <1> SUFFICES ASSUME Init PROVE IndInv
    OBVIOUS
  <1>1. TypeOK
    BY NoSessionType, NoTrailType DEF Init, TypeOK
  <1>2. \A s \in Session : session[s] = NoSession
    BY DEF Init
  <1>3. Quiet(NoSession)
    BY NoChangesType DEF Quiet, NoSession
  <1>4. \A s \in Session, e \in Entity : EntityOK(s, e)
    BY <1>2, <1>3, QuietOK
  <1>5. Disjoint
    BY <1>2, <1>3 DEF Disjoint, Held, Quiet
  <1>6. TrailTellsRows
    BY ServiceAssumption DEF Init, TrailTellsRows
  <1>7. FlagIsHeld
    BY DEF Init, FlagIsHeld
  <1>8. QED
    BY <1>1, <1>4, <1>5, <1>6, <1>7 DEF IndInv

LEMMA NextKeeps == IndInv /\ [Next]_vars => IndInv'
  <1> SUFFICES ASSUME IndInv, [Next]_vars PROVE IndInv'
    OBVIOUS
  <1>1. ASSUME NEW s \in Session, NEW e \in Entity, NEW row \in NewRow, Create(s, e, row)
        PROVE  IndInv'
    BY <1>1, CreateKeeps
  <1>2. ASSUME NEW s \in Session, NEW e \in Entity, NEW c \in Column,
               NEW v \in ColumnValue[c], SetColumn(s, e, c, v)
        PROVE  IndInv'
    BY <1>2, SetColumnKeeps
  <1>3. ASSUME NEW s \in Session, NEW e \in Entity, NEW m \in Member,
               Append(s, e, m) \/ Remove(s, e, m)
        PROVE  IndInv'
    BY <1>3, CollectKeeps
  <1>4. ASSUME NEW s \in Session, NEW e \in Entity, Delete(s, e)
        PROVE  IndInv'
    BY <1>4, DeleteKeeps
  <1>5. ASSUME NEW s \in Session, NEW e \in Entity, Log(s, e)
        PROVE  IndInv'
    BY <1>5, LogKeeps
  <1>6. ASSUME NEW s \in Session, NEW e \in Entity, NEW taken \in SUBSET {e},
               LogFails(s, e, taken) \/ LogRaises(s, e, taken)
        PROVE  IndInv'
    BY <1>6, LogFailsKeeps, LogRaisesKeeps
  <1>7. ASSUME NEW s \in Session,
               FlushOnly(s) \/ Flush(s) \/ StartCreating(s) \/ EndCreating(s)
        PROVE  IndInv'
    BY <1>7, FlushOnlyKeeps, PhaseKeeps, EndCreatingKeeps
  <1>8. ASSUME NEW s \in Session, Rollback(s) \/ Commit(s) \/ EndRequest(s)
        PROVE  IndInv'
    BY <1>8, RollbackKeeps, CommitKeeps, EndRequestKeeps
  <1>9. ASSUME UNCHANGED <<creating, rows, trail, session, doubtful>>, running' \in BOOLEAN
        PROVE  IndInv'
    <2>1. TypeOK'
      BY <1>9 DEF IndInv, TypeOK
    <2>2. FlagIsHeld' /\ Disjoint' /\ TrailTellsRows'
      BY <1>9 DEF IndInv, FlagIsHeld, Disjoint, Held, TrailTellsRows
    <2>3. \A s \in Session, e \in Entity : EntityOK(s, e)'
      BY <1>9, OtherSession
    <2>4. QED
      BY <2>1, <2>2, <2>3 DEF IndInv
  <1>10. CASE Toggle
    BY <1>9, <1>10 DEF Toggle
  <1>11. CASE UNCHANGED vars
    BY <1>9, <1>11 DEF vars, IndInv, TypeOK
  <1>12. QED
    BY <1>1, <1>2, <1>3, <1>4, <1>5, <1>6, <1>7, <1>8, <1>10, <1>11 DEF Next

LEMMA Always == Spec => []IndInv
  BY InitOK, NextKeeps, PTL DEF Spec

\* Sessions, changes and trails keep their types: whatever is edited, an entry
\* only ever holds what may be shown of a hidden or a large value.
THEOREM TypeCorrect == Spec => []TypeOK
  <1>1. IndInv => TypeOK
    BY DEF IndInv
  <1>2. QED
    BY <1>1, Always, PTL

\* In the middle of any transaction, its entries and the changes that are still
\* to be logged tell the state of its instances.
THEOREM TransactionsTold == Spec => []TransactionsTell
  <1>1. IndInv => TransactionsTell
    BY DEF IndInv, EntityOK, TransactionsTell, Held
  <1>2. QED
    BY <1>1, Always, PTL

\* The flag creating_entries is never left raised, whatever log does.
THEOREM FlagLowered == Spec => []FlagIsHeld
  <1>1. IndInv => FlagIsHeld
    BY DEF IndInv
  <1>2. QED
    BY <1>1, Always, PTL

\* The committed entries of an entity tell its last operation and its row,
\* unless one is missing or was written from changes of a former transaction.
THEOREM EntriesTellRows == Spec => []TrailTellsRows
  <1>1. IndInv => TrailTellsRows
    BY DEF IndInv
  <1>2. QED
    BY <1>1, Always, PTL
================================================================================
