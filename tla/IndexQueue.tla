------------------------------- MODULE IndexQueue -------------------------------
(***************************************************************************)
(* What a session queues for the index (services/indexing/service.py).     *)
(* after_flush appends the objects of the flush to the queue of the        *)
(* application context; after_commit of the root transaction sends them to *)
(* a task and clears the queue.  Nothing listens to rollbacks.             *)
(*                                                                         *)
(* Here a task runs as soon as it is sent: IndexUpdate is about when tasks *)
(* run.                                                                    *)
(***************************************************************************)
EXTENDS IndexTask, SequencesExt, FiniteSetsExt

CONSTANTS
    MaxDepth,   \* bound: the root transaction and the savepoints in it
    MaxQueue    \* bound: items in the queue

ASSUME QueueAssumption ==
    /\ MaxDepth \in Nat \ {0}
    /\ MaxQueue \in Nat
    /\ IsFiniteSet(Object)

VARIABLES
    db,         \* committed rows
    levels,     \* per open transaction: its rows, and the objects it touched
    orm,        \* what the session knows of each object
    pending,    \* changes the session has not flushed
    to_update,  \* IndexServiceState.to_update
    failed,     \* after_commit raised: the session can only be closed
    index,      \* the index, were every task run at once
    undone      \* history: a rollback has left what it undid in the queue

vars == <<db, levels, orm, pending, to_update, failed, index, undone>>

(***************************************************************************)
(* transient: not in the session.  expired: in the session, and reading an *)
(* attribute of it, its id too, sends a query.                             *)
(***************************************************************************)
OrmStates == {"transient", "loaded", "expired", "deleted"}

Level == [rows : [Object -> Row], new : SUBSET Object, dirty : SUBSET Object,
          deleted : SUBSET Object]

LevelOver(rows) == [rows |-> rows, new |-> {}, dirty |-> {}, deleted |-> {}]
NothingPending == [o \in Object |-> <<>>]

Here == Last(levels)
Ready == ~failed /\ pending = NothingPending

TypeOK ==
    /\ db \in [Object -> Row]
    /\ levels \in Seq(Level) /\ Len(levels) \in 1 .. MaxDepth
    /\ orm \in [Object -> OrmStates]
    /\ pending \in [Object -> {<<>>} \cup {<<op, v>> : op \in Op, v \in Row}]
    /\ to_update \in Seq(Item) /\ Len(to_update) <= MaxQueue
    /\ failed \in BOOLEAN
    /\ index \in [Object -> Seq(Value)]
    /\ undone \in BOOLEAN

Init ==
    /\ db \in [Object -> Row]
    /\ levels = <<LevelOver(db)>>
    /\ orm = [o \in Object |-> "transient"]
    /\ pending = NothingPending
    /\ to_update = <<>>
    /\ failed = FALSE
    /\ index = IndexOf(db)
    /\ undone = FALSE

--------------------------------------------------------------------------------
(* What the session's user does to objects.                                *)

\* A query returns the object, or an expired one is read.
Load(o) ==
    /\ ~failed
    /\ orm[o] \in {"transient", "expired"}
    /\ Here.rows[o] # Absent
    /\ orm' = [orm EXCEPT ![o] = "loaded"]
    /\ UNCHANGED <<db, levels, pending, to_update, failed, index, undone>>

Add(o, v) ==
    /\ ~failed
    /\ orm[o] = "transient"
    /\ Here.rows[o] = Absent
    /\ pending' = [pending EXCEPT ![o] = <<"new", v>>]
    /\ UNCHANGED <<db, levels, orm, to_update, failed, index, undone>>

Change(o, v) ==
    /\ ~failed
    /\ orm[o] = "loaded"
    /\ pending[o] \in {<<>>} \cup ({"changed"} \X Value)
    /\ pending' = [pending EXCEPT ![o] = <<"changed", v>>]
    /\ UNCHANGED <<db, levels, orm, to_update, failed, index, undone>>

\* The instance keeps the changes that were not flushed.
Delete(o) ==
    /\ ~failed
    /\ orm[o] = "loaded"
    /\ pending' = [pending EXCEPT ![o] =
            <<"deleted", IF pending[o] = <<>> THEN Absent ELSE pending[o][2]>>]
    /\ UNCHANGED <<db, levels, orm, to_update, failed, index, undone>>

--------------------------------------------------------------------------------
(* Flushing.                                                               *)

Flushed(op) == {o \in Object : pending[o] # <<>> /\ pending[o][1] = op}

\* state.modified: loaded and changed since, whether or not it is to be deleted too.
Modified == {o \in Flushed("changed") \cup Flushed("deleted") : pending[o][2] \in Value}

\* The row of an object that has something pending, after the flush.
FlushedRow(o) == IF o \in Flushed("deleted") THEN Absent ELSE pending[o][2]

ItemsOf(op) ==
    LET objects == SetToSeq(Flushed(op))
    IN  [i \in DOMAIN objects |-> <<op, objects[i]>>]

\* after_flush, listing the changed objects only.
QueuedChangesOnly == to_update \o ItemsOf("changed")

\* after_flush: session.new, then session.deleted, then session.dirty.
Queued == to_update \o ItemsOf("new") \o ItemsOf("deleted") \o ItemsOf("changed")

Flush ==
    /\ ~failed
    /\ pending # NothingPending
    /\ Len(Queued) <= MaxQueue
    /\ levels' = [levels EXCEPT ![Len(levels)] =
            [rows |-> [o \in Object |-> IF pending[o] = <<>> THEN Here.rows[o]
                                                            ELSE FlushedRow(o)],
             new |-> Here.new \cup Flushed("new"),
             dirty |-> Here.dirty \cup Modified,
             deleted |-> Here.deleted \cup Flushed("deleted")]]
    /\ orm' = [o \in Object |->
                    CASE o \in Flushed("deleted") -> "deleted"
                      [] o \in Flushed("new") -> "loaded"
                      [] OTHER -> orm[o]]
    /\ pending' = NothingPending
    /\ to_update' = Queued
    /\ UNCHANGED <<db, failed, index, undone>>

--------------------------------------------------------------------------------
(* Transactions.                                                           *)

BeginNested ==
    /\ Ready
    /\ Len(levels) < MaxDepth
    /\ levels' = Append(levels, LevelOver(Here.rows))
    /\ UNCHANGED <<db, orm, pending, to_update, failed, index, undone>>

(***************************************************************************)
(* Not looking at session.transaction.nested, with a task that reads what  *)
(* the session has written.                                                *)
(***************************************************************************)
SentForSavepoint ==
    /\ Ready
    /\ Len(levels) > 1
    /\ index' = Written(index, Processing(to_update, Here.rows))
    /\ to_update' = <<>>
    /\ levels' = Append(SubSeq(levels, 1, Len(levels) - 2),
                        [levels[Len(levels) - 1] EXCEPT !.rows = Here.rows])
    /\ UNCHANGED <<db, orm, pending, failed, undone>>

\* The savepoint is released: after_commit sees a nested transaction.
CommitNested ==
    /\ Ready
    /\ Len(levels) > 1
    /\ LET parent == levels[Len(levels) - 1]
       IN  levels' = Append(SubSeq(levels, 1, Len(levels) - 2),
                [rows |-> Here.rows,
                 new |-> parent.new \cup Here.new,
                 dirty |-> parent.dirty \cup Here.dirty,
                 deleted |-> parent.deleted \cup Here.deleted])
    /\ UNCHANGED <<db, orm, pending, to_update, failed, index, undone>>

(***************************************************************************)
(* SessionTransaction._restore_snapshot, of the root or of a savepoint: a  *)
(* new object leaves the session, a deleted one comes back, and what was   *)
(* changed, or everything if this is the root, is expired.  Deleting does  *)
(* not make an instance that was changed an unchanged one.                 *)
(***************************************************************************)
Restored(o) ==
    LET back == IF o \in Here.deleted THEN "loaded" ELSE orm[o]
    IN  CASE o \in Here.new -> "transient"
          [] /\ o \notin Here.new
             /\ back = "loaded"
             /\ \/ Len(levels) = 1
                \/ o \in Here.dirty \cup Modified -> "expired"
          [] OTHER -> back

\* The queue keeps the object of a change that is undone, and nobody noticed.
LeftInQueue ==
    \E i \in DOMAIN to_update :
        LET back == Restored(to_update[i][2])
        IN  back = "expired" \/ (back = "loaded" /\ to_update[i][1] = "deleted")

Rollback ==
    /\ ~failed
    /\ undone' = (undone \/ LeftInQueue)
    /\ orm' = [o \in Object |-> Restored(o)]
    /\ levels' = IF Len(levels) = 1 THEN <<LevelOver(db)>> ELSE Front(levels)
    /\ pending' = NothingPending
    /\ UNCHANGED <<db, to_update, failed, index>>

--------------------------------------------------------------------------------
(* Committing the root transaction: after_commit.                          *)

\* The safeguard "against DetachedInstanceError".
Attached(item) == orm[item[2]] # "transient"

\* The items for the task, gathered in the order of the queue.
Items ==
    LET items[n \in 0 .. Len(to_update)] ==
            IF n = 0 THEN <<>>
            ELSE IF Attached(to_update[n]) THEN Append(items[n - 1], to_update[n])
                                           ELSE items[n - 1]
    IN  items[Len(to_update)]

(***************************************************************************)
(* getattr(obj, "id"): the session is in "committed" state, and refuses to *)
(* send the query an expired object needs.                                 *)
(***************************************************************************)
ReadsExpired == \E i \in DOMAIN Items : orm[Items[i][2]] = "expired"

\* Running the task in before_commit.
RanTooSoon(items) == Written(index, Processing(items, db))

\* index_update, run at once.
Ran(items) == Written(index, Processing(items, Here.rows))

Commit ==
    /\ Ready
    /\ Len(levels) = 1
    /\ ~ReadsExpired
    /\ db' = Here.rows
    /\ index' = Ran(Items)
    /\ to_update' = <<>>
    /\ levels' = <<LevelOver(Here.rows)>>
    /\ orm' = [o \in Object |->
                    IF orm[o] \in {"loaded", "expired"} THEN "expired"
                                                        ELSE "transient"]
    /\ UNCHANGED <<pending, failed, undone>>

\* The database has committed, and the listener raises.
CommitRaises ==
    /\ Ready
    /\ Len(levels) = 1
    /\ ReadsExpired
    /\ db' = Here.rows
    /\ failed' = TRUE
    /\ UNCHANGED <<levels, orm, pending, to_update, index, undone>>

\* The session is removed with its application context, and another begins.
NewContext ==
    /\ levels' = <<LevelOver(db)>>
    /\ orm' = [o \in Object |-> "transient"]
    /\ pending' = NothingPending
    /\ to_update' = <<>>
    /\ failed' = FALSE
    /\ UNCHANGED <<db, index, undone>>

Next ==
    \/ \E o \in Object :
        \/ Load(o)
        \/ \E v \in Value : Add(o, v) \/ Change(o, v)
        \/ Delete(o)
    \/ Flush
    \/ BeginNested \/ CommitNested
    \/ Rollback
    \/ Commit \/ CommitRaises
    \/ NewContext

Spec == Init /\ [][Next]_vars

--------------------------------------------------------------------------------
(***************************************************************************)
(* "Any db updates go through here": after every commit, the tasks sent so *)
(* far give each object the document of its committed row, or none if the  *)
(* row is gone, and no commit fails in the listener.                       *)
(***************************************************************************)
IndexAlwaysFollowsRows == index = IndexOf(db)

\* So it is while no rollback leaves what it undid in the queue.
IndexFollowsRows == ~undone => IndexAlwaysFollowsRows

(***************************************************************************)
(* Until a commit, everything the open transactions have done to a row is  *)
(* in the queue, however their savepoints were released or rolled back.    *)
(***************************************************************************)
QueueCoversChanges ==
    ~failed =>
        \A o \in Object : Here.rows[o] # db[o] =>
            \E i \in DOMAIN to_update : to_update[i][2] = o

(***************************************************************************)
(* Whatever was rolled back, what a task writes is the row as it was       *)
(* committed: a search never finds what only one transaction has seen.     *)
(***************************************************************************)
OnlyCommittedRowsIndexed ==
    [][\A o \in Object :
        index'[o] # index[o] => index'[o] \in {<<>>, IndexOf(db')[o]}]_vars
================================================================================
