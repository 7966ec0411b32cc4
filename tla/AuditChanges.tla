------------------------------ MODULE AuditChanges ------------------------------
(***************************************************************************)
(* What the audit service writes down of an entity: the class Changes of   *)
(* services/audit/models.py and the attribute listeners of                 *)
(* services/audit/service.py that fill it.  An entity has columns and one  *)
(* many-to-many collection.  `columns' is a dict: a function on the        *)
(* columns that were changed.                                              *)
(***************************************************************************)
CONSTANTS
    Column,
    ColumnValue,    \* the values of each column
    Hidden,         \* columns with audit_hide_content
    Falsy,          \* values that are false to Python: None, "", 0
    Large,          \* values longer than 1000
    Member,         \* what the collection may hold
    NeverSet, Mask, LargeMark

Value == UNION {ColumnValue[c] : c \in Column}
Note == Value \cup {NeverSet, Mask, LargeMark}

ASSUME ChangesAssumption ==
    /\ Hidden \subseteq Column
    /\ Falsy \subseteq Value
    /\ Large \subseteq Value \ Falsy
    /\ NeverSet \notin Value /\ Mask \notin Value /\ LargeMark \notin Value
    /\ NeverSet # Mask /\ NeverSet # LargeMark

Row == [columns : {f \in [Column -> Value] : \A c \in Column : f[c] \in ColumnValue[c]},
        members : SUBSET Member]

\* format_large_value, and the content of a hidden column.
Shown(c, v) == IF c \in Hidden THEN Mask ELSE IF v \in Large THEN LargeMark ELSE v

\* What is written down of the values of a column.
Noted(c) == {Shown(c, v) : v \in Value \cup {NeverSet}}

Change == [old : Note, new : Note]
ColumnChanges ==
    {f \in UNION {[cs -> Change] : cs \in SUBSET Column} :
        \A c \in DOMAIN f : {f[c].old, f[c].new} \subseteq Noted(c)}
Changes == [columns : ColumnChanges,
            added : SUBSET Member, removed : SUBSET Member]

NoChanges == [columns |-> << >>, added |-> {}, removed |-> {}]

\* Changes.__bool__
Empty(changes) ==
    DOMAIN changes.columns = {} /\ changes.added = {} /\ changes.removed = {}

\* A fault: the old value is written down as it is.
ShownOld(changes, c, old, new) ==
    LET first == IF c \in DOMAIN changes.columns THEN changes.columns[c].old ELSE old IN
    [old |-> first, new |-> Shown(c, new)]

\* The value a column had before its first change is kept.
ColumnChange(changes, c, old, new) ==
    LET first == IF c \in DOMAIN changes.columns THEN changes.columns[c].old ELSE old IN
    [old |-> Shown(c, first), new |-> Shown(c, new)]

\* A fault: a value set to a false one is taken for a trivial change.
SetUnlessFalsy(changes, c, old, new) ==
    IF old = new \/ new \in Falsy THEN changes
    ELSE [changes EXCEPT !.columns =
            [d \in DOMAIN changes.columns \cup {c} |->
                IF d = c THEN ColumnChange(changes, c, old, new) ELSE changes.columns[d]]]

\* set_attribute
SetAttribute(changes, c, old, new) ==
    IF old = new \/ {old, new} \subseteq Falsy THEN changes
    ELSE [changes EXCEPT !.columns =
            [d \in DOMAIN changes.columns \cup {c} |->
                IF d = c THEN ColumnChange(changes, c, old, new) ELSE changes.columns[d]]]

\* A fault: what is added again stays removed.
AppendKeepingRemoved(changes, members) ==
    [changes EXCEPT !.added = changes.added \cup members]

\* collection_append, collection_remove
CollectionAppend(changes, members) ==
    [changes EXCEPT !.added = changes.added \cup members,
                    !.removed = changes.removed \ members]

CollectionRemove(changes, members) ==
    [changes EXCEPT !.removed = changes.removed \cup members,
                    !.added = changes.added \ members]

\* The changes of a creation: everything the entity has.
CreationChanges(changes, row) ==
    CollectionAppend(
        [changes EXCEPT !.columns =
            [c \in Column |-> ColumnChange(changes, c, NeverSet, row.columns[c])]],
        row.members)

--------------------------------------------------------------------------------
(* What the entries of an entity say when they are read in their order:    *)
(* its last operation, the last value of every column, its members.        *)

Trail == [op : {"none", "CREATION", "UPDATE", "DELETION"},
          columns : [Column -> Note], members : SUBSET Member]

NoTrail == [op |-> "none", columns |-> [c \in Column |-> NeverSet], members |-> {}]

Continue(trail, op, changes) ==
    [op |-> op,
     columns |-> [c \in Column |-> IF c \in DOMAIN changes.columns
                                   THEN changes.columns[c].new ELSE trail.columns[c]],
     members |-> (trail.members \cup changes.added) \ changes.removed]

\* set_attribute passes over a value that stays false, and get_changes drops one
\* that was never set and is false: all of these read the same.
Same(v, w) == v = w \/ {v, w} \subseteq Falsy \cup {NeverSet}

\* The trail tells of a row what there is to know.
Tells(trail, row) ==
    /\ \A c \in Column : Same(trail.columns[c], Shown(c, row.columns[c]))
    /\ trail.members = row.members

\* The changes start where the trail ends.
Continues(trail, changes) ==
    \A c \in DOMAIN changes.columns : Same(changes.columns[c].old, trail.columns[c])
================================================================================
