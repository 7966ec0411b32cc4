------------------------------ MODULE AuditService ------------------------------
(***************************************************************************)
(* The audit service (services/audit/service.py) beside the sessions it    *)
(* listens to.  Attribute listeners collect the changes of an instance in  *)
(* __changes__; after a flush, create_audit_entries turns them into        *)
(* entries, which the session sends with its next flush, and no later than *)
(* when it commits.                                                        *)
(*                                                                         *)
(* The table of entries is kept as the trail it leaves for each entity.    *)
(* No two sessions edit an entity at a time, and ids are not used again.   *)
(***************************************************************************)
EXTENDS AuditChanges

CONSTANTS
    Session, Entity,
    Unborn, Gone,   \* instead of a row
    None,
    NewRow,         \* bound: the rows entities are created with
    Work,           \* bound: who creates, edits and deletes what
    Deletable,      \* bound: what is ever deleted
    Assigned,       \* bound: the values columns are set to
    Collected       \* bound: the members that are appended and removed

ASSUME ServiceAssumption ==
    /\ Unborn \notin Row /\ Gone \notin Row /\ Unborn # Gone
    /\ None \notin Row \cup {Unborn, Gone} /\ None \notin Trail
    /\ NewRow \subseteq Row
    /\ Work \subseteq Session \X Entity /\ Deletable \subseteq Entity
    /\ Assigned \subseteq Entity \X Column \X Value
    /\ Collected \subseteq Entity \X Member

VARIABLES
    running,    \* the service is started
    creating,   \* creating_entries, one for the application
    rows,       \* committed rows
    trail,      \* committed entries
    session,    \* see SessionState
    doubtful    \* history: entities of which an entry is missing or false

vars == <<running, creating, rows, trail, session, doubtful>>

SessionState ==
    [mem : [Entity -> Row \cup {Gone, None}],   \* instances of this transaction
     new : SUBSET Entity, dirty : SUBSET Entity, deleted : SUBSET Entity,
     changes : [Entity -> Changes],     \* __changes__ of its instances
     entries : [Entity -> Trail \cup {None}],   \* trails with its entries
     left : SUBSET Entity,              \* still to be logged
     phase : {"idle", "entering", "logging"},
     stale : SUBSET Entity,             \* history: changes older than this flush
     missed : SUBSET Entity]            \* history: doubtful if this commits

NoSession ==
    [mem |-> [e \in Entity |-> None], new |-> {}, dirty |-> {}, deleted |-> {},
     changes |-> [e \in Entity |-> NoChanges], entries |-> [e \in Entity |-> None],
     left |-> {}, phase |-> "idle", stale |-> {}, missed |-> {}]

TypeOK ==
    /\ running \in BOOLEAN /\ creating \in BOOLEAN
    /\ rows \in [Entity -> Row \cup {Unborn, Gone}]
    /\ trail \in [Entity -> Trail]
    /\ session \in [Session -> SessionState]
    /\ doubtful \subseteq Entity

Init ==
    /\ running \in BOOLEAN
    /\ creating = FALSE
    /\ rows = [e \in Entity |-> Unborn]
    /\ trail = [e \in Entity |-> NoTrail]
    /\ session = [s \in Session |-> NoSession]
    /\ doubtful = {}

--------------------------------------------------------------------------------
(* What a session sees.                                                    *)

Held(s) == {e \in Entity : session[s].mem[e] # None}
Seen(s, e) == IF e \in Held(s) THEN session[s].mem[e] ELSE rows[e]
Pending(s) == session[s].new \cup session[s].dirty \cup session[s].deleted
Idle(s) == session[s].phase = "idle"

\* The trail that ends with the entries of this transaction.
TrailOf(s, e) == IF session[s].entries[e] # None THEN session[s].entries[e] ELSE trail[e]

\* s may work on e.  Bound: when an entity is doubtful, or will be, no more
\* work begins.
Free(s, e) ==
    /\ Idle(s)
    /\ <<s, e>> \in Work
    /\ \A o \in Session \ {s} : e \notin Held(o)
    /\ doubtful = {} /\ \A o \in Session : session[o].missed = {}

\* e may be edited in s.
Editable(s, e) ==
    /\ Free(s, e)
    /\ Seen(s, e) \in Row
    /\ e \notin session[s].deleted

--------------------------------------------------------------------------------
(* The work of a request.                                                  *)

Unchanged == UNCHANGED <<running, creating, rows, trail, doubtful>>

\* What session s turns into; nothing happens in the others.
Becomes(s, self) == session' = [session EXCEPT ![s] = self]

\* The constructor sets each attribute.
Create(s, e, row) ==
    /\ Free(s, e)
    /\ Seen(s, e) = Unborn
    /\ Becomes(s, [session[s] EXCEPT
            !.mem[e] = row,
            !.new = @ \cup {e},
            !.changes[e] = CreationChanges(NoChanges, row)])
    /\ Unchanged

\* An instance is edited: its row and its changes.
Edit(s, e, row, changes) ==
    Becomes(s, [session[s] EXCEPT
        !.mem[e] = row,
        !.dirty = @ \cup ({e} \ session[s].new),
        !.changes[e] = changes])

\* An attribute is set, to any value: SQLAlchemy calls set_attribute.
SetColumn(s, e, c, v) ==
    /\ Editable(s, e)
    /\ <<e, c, v>> \in Assigned
    /\ LET row == Seen(s, e) IN
       Edit(s, e, [row EXCEPT !.columns[c] = v],
            SetAttribute(session[s].changes[e], c, row.columns[c], v))
    /\ Unchanged

Append(s, e, m) ==
    /\ Editable(s, e)
    /\ <<e, m>> \in Collected
    /\ LET row == Seen(s, e) IN
       /\ m \notin row.members
       /\ Edit(s, e, [row EXCEPT !.members = row.members \cup {m}],
               CollectionAppend(session[s].changes[e], {m}))
    /\ Unchanged

Remove(s, e, m) ==
    /\ Editable(s, e)
    /\ <<e, m>> \in Collected
    /\ LET row == Seen(s, e) IN
       /\ m \in row.members
       /\ Edit(s, e, [row EXCEPT !.members = row.members \ {m}],
               CollectionRemove(session[s].changes[e], {m}))
    /\ Unchanged

Delete(s, e) ==
    /\ Editable(s, e)
    /\ e \in Deletable
    /\ e \notin session[s].new
    /\ Becomes(s, [session[s] EXCEPT
            !.mem[e] = Seen(s, e),
            !.deleted = @ \cup {e},
            !.dirty = @ \ {e}])
    /\ Unchanged

--------------------------------------------------------------------------------
(* A flush, and create_audit_entries after it.                             *)

\* The flush is over: what was pending is not any more.
Finished(s, missing) ==
    [session[s] EXCEPT
        !.phase = "idle", !.left = {}, !.new = {}, !.dirty = {}, !.deleted = {},
        !.mem = [e \in Entity |-> IF e \in session[s].deleted THEN Gone ELSE session[s].mem[e]],
        !.missed = @ \cup missing,
        !.stale = @ \cup {e \in missing : ~Empty(session[s].changes[e])}]

\* A flush, and create_audit_entries that returns at once.  It may miss
\* entries when the service is stopped, or when another thread is creating.
FlushOnly(s) ==
    /\ Idle(s)
    /\ Pending(s) # {}
    /\ ~(running /\ ~creating)
    /\ LET excused == ~running \/ \E o \in Session \ {s} : session[o].phase = "logging" IN
       Becomes(s, Finished(s, IF excused THEN Pending(s) ELSE {}))
    /\ Unchanged

\* A flush, and create_audit_entries that finds the flag down...
Flush(s) ==
    /\ Idle(s)
    /\ Pending(s) # {}
    /\ running
    /\ ~creating
    /\ Becomes(s, [session[s] EXCEPT !.phase = "entering"])
    /\ Unchanged

\* ... and raises it.
StartCreating(s) ==
    /\ session[s].phase = "entering"
    /\ creating' = TRUE
    /\ Becomes(s, [session[s] EXCEPT !.phase = "logging", !.left = Pending(s)])
    /\ UNCHANGED <<running, rows, trail, doubtful>>

OpOf(s, e) ==
    IF e \in session[s].new THEN "CREATION"
    ELSE IF e \in session[s].deleted THEN "DELETION" ELSE "UPDATE"

\* log: the changes of the entry for e.
EntryChanges(s, e) ==
    LET changes == session[s].changes[e] IN
    CASE OpOf(s, e) = "CREATION" -> CreationChanges(changes, session[s].mem[e])
      [] OpOf(s, e) = "UPDATE"   -> changes
      [] OpOf(s, e) = "DELETION" -> NoChanges

\* An update without changes has no entry.
HasEntry(s, e) == OpOf(s, e) # "UPDATE" \/ ~Empty(EntryChanges(s, e))

Log(s, e) ==
    /\ session[s].phase = "logging"
    /\ e \in session[s].left
    /\ Becomes(s, [session[s] EXCEPT
            !.left = @ \ {e},
            !.changes[e] = NoChanges,
            !.entries[e] = IF HasEntry(s, e)
                THEN Continue(TrailOf(s, e), OpOf(s, e), EntryChanges(s, e))
                ELSE @,
            !.missed = @ \cup ({e} \cap session[s].stale),
            !.stale = @ \ {e}])
    /\ Unchanged

\* log fails for e, after it took the changes of the instance or before.  In
\* production the exception goes to the logs and the entry is lost.
LogFails(s, e, taken) ==
    /\ session[s].phase = "logging"
    /\ e \in session[s].left
    /\ Becomes(s, [session[s] EXCEPT
            !.left = @ \ {e},
            !.changes[e] = IF e \in taken THEN NoChanges ELSE @,
            !.missed = @ \cup {e},
            !.stale = (@ \cup {e}) \ taken])
    /\ Unchanged

EndCreating(s) ==
    /\ session[s].phase = "logging"
    /\ session[s].left = {}
    /\ creating' = FALSE
    /\ Becomes(s, Finished(s, {}))
    /\ UNCHANGED <<running, rows, trail, doubtful>>

--------------------------------------------------------------------------------
(* The end of a transaction.                                               *)

\* The instances are expired; __changes__ is no attribute of SQLAlchemy's, and
\* stays, except where log took it.  A new instance is no longer in the session.
RolledBack(s, taken) ==
    LET kept == [e \in Entity |-> IF rows[e] = Unborn \/ e \in taken
                                  THEN NoChanges ELSE session[s].changes[e]] IN
    [NoSession EXCEPT
        !.changes = kept,
        !.stale = {e \in Entity : ~Empty(kept[e])}]

Rollback(s) ==
    /\ Idle(s)
    /\ Becomes(s, RolledBack(s, {}))
    /\ Unchanged

\* A fault: the flag is not lowered when an exception goes on.
LogRaisesFlagUp(s, e, taken) ==
    /\ session[s].phase = "logging"
    /\ e \in session[s].left
    /\ Becomes(s, RolledBack(s, taken))
    /\ Unchanged

\* In debug or testing mode the exception goes on, and the flush is rolled back.
LogRaises(s, e, taken) ==
    /\ session[s].phase = "logging"
    /\ e \in session[s].left
    /\ creating' = FALSE
    /\ Becomes(s, RolledBack(s, taken))
    /\ UNCHANGED <<running, rows, trail, doubtful>>

Commit(s) ==
    /\ Idle(s)
    /\ Held(s) # {}
    /\ Pending(s) = {}
    /\ rows' = [e \in Entity |-> Seen(s, e)]
    /\ trail' = [e \in Entity |-> TrailOf(s, e)]
    /\ doubtful' = doubtful \cup session[s].missed
    /\ Becomes(s, [NoSession EXCEPT !.changes = session[s].changes,
                               !.stale = session[s].stale])
    /\ UNCHANGED <<running, creating>>

\* The request ends: its session is closed and its instances are forgotten.
EndRequest(s) ==
    /\ Idle(s)
    /\ Becomes(s, NoSession)
    /\ Unchanged

\* start and stop
Toggle ==
    /\ running' = ~running
    /\ UNCHANGED <<creating, rows, trail, session, doubtful>>

Next ==
    \/ \E s \in Session, e \in Entity :
        \/ \E row \in NewRow : Create(s, e, row)
        \/ \E c \in Column : \E v \in ColumnValue[c] : SetColumn(s, e, c, v)
        \/ \E m \in Member : Append(s, e, m) \/ Remove(s, e, m)
        \/ Delete(s, e)
        \/ Log(s, e)
        \/ \E taken \in SUBSET {e} : LogFails(s, e, taken) \/ LogRaises(s, e, taken)
    \/ \E s \in Session :
        \/ FlushOnly(s) \/ Flush(s) \/ StartCreating(s) \/ EndCreating(s)
        \/ Rollback(s) \/ Commit(s) \/ EndRequest(s)
    \/ Toggle

Spec == Init /\ [][Next]_vars

--------------------------------------------------------------------------------
(* Properties.                                                             *)

\* What create_audit_entries has not seen.
Unlogged(s) == IF session[s].phase = "logging" THEN session[s].left ELSE Pending(s)

\* The entries of a transaction, and the changes that are not logged yet, tell
\* the instance e of s.
TransactionTells(s, e) ==
    LET self == session[s]
        t == TrailOf(s, e) IN
    IF self.mem[e] = Gone \/ e \in self.deleted \ Unlogged(s) THEN t.op = "DELETION"
    ELSE /\ t.op = "none" <=> e \in self.new \cap Unlogged(s)
         /\ t.op # "DELETION"
         /\ Tells(Continue(t, "UPDATE", self.changes[e]), self.mem[e])
         /\ e \in self.new \cap Unlogged(s) \/ Continues(t, self.changes[e])

\* At any moment of a transaction, between its edits and flushes and in the middle
\* of creating entries, what was recorded of an instance is what it needs: last
\* operation, values of columns, members, and old values that join.
TransactionsTell ==
    \A s \in Session :
        \A e \in Held(s) \ (doubtful \cup session[s].missed \cup session[s].stale) :
            TransactionTells(s, e)

\* The flag is raised only while a session creates entries: nobody leaves it
\* raised, whatever fails and whichever of two sessions lowers it first, or no
\* entry would ever be created again (creating_entries, set back in a finally).
FlagIsHeld == creating => \E s \in Session : session[s].phase = "logging"

\* The entries of an entity tell its last operation and all of its present
\* state, whatever was edited, flushed in pieces or rolled back, unless an entry
\* was missed or was written from changes that outlived their transaction.
TrailTellsRows ==
    \A e \in Entity \ doubtful :
        /\ rows[e] = Unborn => trail[e] = NoTrail
        /\ rows[e] = Gone => trail[e].op = "DELETION"
        /\ rows[e] \in Row => /\ trail[e].op \in {"CREATION", "UPDATE"}
                              /\ Tells(trail[e], rows[e])

\* An entry that is to be written tells of edits that were made: the new values
\* it names are those of the row that is flushed.  It does not hold, since changes
\* survive a rollback (_get_changes_for), and no run checks it.
EntriesAreTrue ==
    \A s \in Session :
        \A e \in session[s].left :
            OpOf(s, e) = "UPDATE" =>
                LET row == session[s].mem[e]
                    columns == EntryChanges(s, e).columns IN
                \A c \in DOMAIN columns : Same(columns[c].new, Shown(c, row.columns[c]))
================================================================================
