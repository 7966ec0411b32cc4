------------------------------- MODULE IndexUpdate -------------------------------
(***************************************************************************)
(* Who writes the index: celery workers that run index_update              *)
(* (services/indexing/service.py), and the reindex command                 *)
(* (cli/indexing.py).  Applications commit and send tasks at any time; a   *)
(* whoosh index has one lock, which a writer holds until it commits.       *)
(*                                                                         *)
(* An AsyncWriter that finds the lock taken records what it is told and,   *)
(* at its commit, waits for the lock and says it all again.  A worker has  *)
(* read the database by then.                                              *)
(***************************************************************************)
EXTENDS IndexTask, SequencesExt, FiniteSetsExt

CONSTANTS
    Worker,
    Strategies,     \* those the reindex command is run with
    BatchSizes,     \* values of --batch-size
    MaxChanges,     \* bound: commits of the applications
    MaxAbandoned    \* bound: tasks that die, or are never sent

ASSUME UpdateAssumption ==
    /\ Strategies \subseteq {"single_transaction", "progressive_mode"}
    /\ BatchSizes \subseteq Nat
    /\ MaxChanges \in Nat
    /\ MaxAbandoned \in Nat

VARIABLES
    db,         \* committed rows
    born,       \* objects that have had a row: an id is not given twice
    tasks,      \* tasks sent and not taken
    worker,     \* what each worker is doing
    index,
    rx,         \* the reindex command
    changes,    \* counts commits
    abandoned,  \* counts tasks that died or were not sent
    trusted     \* history: no task was lost, nor its work, and no worker
                \* wrote late, since the index was right or was built anew

vars == <<db, born, tasks, worker, index, rx, changes, abandoned, trusted>>

Task == Seq(Item)

\* held: the writer has the lock, and writes what it is told.
\* late: history, the objects that another writes after it has read them.
WorkerState == [items : Task, writer : Writer, busy : BOOLEAN,
                held : BOOLEAN, late : SUBSET Object]
IdleWorker == [items |-> <<>>, writer |-> FreshWriter, busy |-> FALSE,
               held |-> FALSE, late |-> {}]

(***************************************************************************)
(* The Reindexer.  rows: what its SELECT found and is not yet written.     *)
(* purge: the deletion of the class's documents is still to be written.    *)
(* disturbed: history, the rows or the index changed under it.             *)
(***************************************************************************)
ReindexState == [pc : {"not_run", "started", "writing", "done"},
                 strategy : Strategies \cup {"none"}, batch : BatchSizes \cup {0},
                 held : BOOLEAN, rows : [Object -> Row], purge : BOOLEAN,
                 disturbed : BOOLEAN]

LockFree == ~rx.held /\ \A w \in Worker : ~worker[w].held
NoRows == [o \in Object |-> Absent]

TypeOK ==
    /\ db \in [Object -> Row]
    /\ born \subseteq Object
    /\ tasks \in Seq(Task)
    /\ worker \in [Worker -> WorkerState]
    /\ index \in [Object -> Seq(Value)]
    /\ rx \in ReindexState
    /\ changes \in 0 .. MaxChanges /\ abandoned \in 0 .. MaxAbandoned
    /\ trusted \in BOOLEAN
    /\ \A w \in Worker : worker[w].held =>
            ~rx.held /\ \A other \in Worker \ {w} : ~worker[other].held

\* The index agrees with the rows, or was made by another version.
Init ==
    /\ db \in [Object -> Row]
    /\ born = {o \in Object : db[o] # Absent}
    /\ tasks = <<>>
    /\ worker = [w \in Worker |-> IdleWorker]
    /\ \E rows \in [Object -> Row] : index = IndexOf(rows)
    /\ rx = [pc |-> "not_run", strategy |-> "none", batch |-> 0,
             held |-> FALSE, rows |-> NoRows, purge |-> FALSE,
             disturbed |-> FALSE]
    /\ changes = 0 /\ abandoned = 0
    /\ trusted = (index = IndexOf(db))

--------------------------------------------------------------------------------
(* The applications: one commit, of one flush or two, and its task.        *)

TasksFor(op, o) ==
    {<<<<op, o>>>>, <<<<"changed", o>>, <<op, o>>>>, <<<<op, o>>, <<"changed", o>>>>}

\* The reindexing that has read, or has begun to write, and has not the lock.
Overtaken(state) ==
    [state EXCEPT !.disturbed =
        state.disturbed \/ (state.pc \in {"started", "writing"} /\ ~state.held)]

AppCommit(o, row) ==
    /\ changes < MaxChanges
    /\ row # db[o]
    /\ db[o] = Absent => o \notin born
    /\ LET op == CASE row = Absent   -> "deleted"
                   [] db[o] = Absent -> "new"
                   [] OTHER          -> "changed"
       IN  \E task \in TasksFor(op, o) :
            /\ op = "deleted" => Last(task)[1] = op
            /\ op = "new" => task[1][1] = op
            /\ tasks' = Append(tasks, task)
    /\ db' = [db EXCEPT ![o] = row]
    /\ born' = born \cup {o}
    /\ rx' = Overtaken(rx)
    /\ changes' = changes + 1
    /\ UNCHANGED <<worker, index, abandoned, trusted>>

\* The process ends, or the broker is away, before the task is sent.
AppCommitUnsent(o, row) ==
    /\ changes < MaxChanges
    /\ abandoned < MaxAbandoned
    /\ row # db[o]
    /\ db[o] = Absent => o \notin born
    /\ db' = [db EXCEPT ![o] = row]
    /\ born' = born \cup {o}
    /\ changes' = changes + 1
    /\ abandoned' = abandoned + 1
    /\ trusted' = FALSE
    /\ rx' = [rx EXCEPT !.disturbed = rx.disturbed \/ rx.pc # "not_run"]
    /\ UNCHANGED <<tasks, worker, index>>

--------------------------------------------------------------------------------
(* index_update in a worker.                                               *)

\* Opening a writer as if the lock were always free.
TakeTaskAndLock(w) ==
    /\ ~worker[w].busy
    /\ \E i \in DOMAIN tasks :
        /\ worker' = [worker EXCEPT ![w] =
                [items |-> tasks[i], writer |-> FreshWriter, busy |-> TRUE,
                 held |-> TRUE, late |-> {}]]
        /\ tasks' = RemoveAt(tasks, i)
    /\ UNCHANGED <<db, born, index, rx, changes, abandoned, trusted>>

\* The broker promises no order.  AsyncWriter() takes the lock if it is free.
TakeTask(w) ==
    /\ ~worker[w].busy
    /\ \E i \in DOMAIN tasks :
        /\ worker' = [worker EXCEPT ![w] =
                [items |-> tasks[i], writer |-> FreshWriter, busy |-> TRUE,
                 held |-> LockFree, late |-> {}]]
        /\ tasks' = RemoveAt(tasks, i)
    /\ UNCHANGED <<db, born, index, rx, changes, abandoned, trusted>>

\* One turn of the loop, reading the object as it is now.
ProcessItem(w) ==
    /\ worker[w].items # <<>>
    /\ worker' = [worker EXCEPT
            ![w].writer = Processed(worker[w].writer, Head(worker[w].items), db),
            ![w].items = Tail(worker[w].items)]
    /\ UNCHANGED <<db, born, tasks, index, rx, changes, abandoned, trusted>>

\* Another writes these objects: what the worker has read of them is old by then.
LateOn(objects, state) ==
    [state EXCEPT !.late = state.late \cup (state.writer.deletes \cap objects)]

\* writer.commit(), then join() if a thread had to wait for the lock.
WriterCommit(w) ==
    /\ worker[w].busy /\ worker[w].items = <<>>
    /\ worker[w].held \/ LockFree
    /\ index' = Written(index, worker[w].writer)
    /\ worker' = [v \in Worker |-> IF v = w THEN IdleWorker
                                  ELSE LateOn(worker[w].writer.deletes, worker[v])]
    /\ rx' = Overtaken(rx)
    /\ trusted' = (trusted /\ worker[w].late = {})
    /\ UNCHANGED <<db, born, tasks, changes, abandoned>>

\* writer.cancel() left out: the lock is never given back.
DieHoldingLock(w) ==
    /\ worker[w].busy
    /\ abandoned < MaxAbandoned
    /\ abandoned' = abandoned + 1
    /\ worker' = [worker EXCEPT ![w] = [IdleWorker EXCEPT !.held = worker[w].held]]
    /\ trusted' = FALSE
    /\ rx' = [rx EXCEPT !.disturbed = TRUE]
    /\ UNCHANGED <<db, born, tasks, index, changes>>

\* The task raises and cancels its writer, or its process is killed.
Die(w) ==
    /\ worker[w].busy
    /\ abandoned < MaxAbandoned
    /\ abandoned' = abandoned + 1
    /\ worker' = [worker EXCEPT ![w] = IdleWorker]
    /\ trusted' = FALSE
    /\ rx' = [rx EXCEPT !.disturbed = rx.disturbed \/ rx.pc # "not_run"]
    /\ UNCHANGED <<db, born, tasks, index, changes>>

--------------------------------------------------------------------------------
(* reindex.                                                                *)

\* A reindexing begins: the workers that wait for the lock may write after it.
Waiting ==
    [w \in Worker |-> IF worker[w].held THEN worker[w] ELSE LateOn(Object, worker[w])]

(***************************************************************************)
(* single_transaction opens an AsyncWriter.  With --clear it needs the     *)
(* lock at once: without it the command dies, having changed nothing.      *)
(***************************************************************************)
ReindexInOne(clear) ==
    /\ "single_transaction" \in Strategies
    /\ rx.pc = "not_run"
    /\ clear => LockFree
    /\ rx' = [rx EXCEPT !.pc = "started", !.strategy = "single_transaction",
                        !.held = LockFree, !.purge = TRUE]
    /\ worker' = Waiting
    /\ UNCHANGED <<db, born, tasks, index, changes, abandoned, trusted>>

\* progressive_mode: --clear empties the index first, as soon as it can.
ReindexProgressively(clear, batch) ==
    /\ "progressive_mode" \in Strategies
    /\ rx.pc = "not_run"
    /\ clear => LockFree
    /\ index' = IF clear THEN IndexOf(NoRows) ELSE index
    /\ rx' = [rx EXCEPT !.pc = "started", !.strategy = "progressive_mode",
                        !.batch = batch, !.purge = ~clear]
    /\ worker' = Waiting
    /\ UNCHANGED <<db, born, tasks, changes, abandoned, trusted>>

(***************************************************************************)
(* reindex_class queues the deletion of the class's documents and selects  *)
(* its rows.  If there are none it returns, and a progressive strategy is  *)
(* told to stop with the deletion in its queue.                            *)
(***************************************************************************)
Select ==
    /\ rx.pc = "started"
    /\ IF rx.strategy = "progressive_mode" /\ db = NoRows
       THEN /\ rx' = [rx EXCEPT !.pc = "done"]
            /\ trusted' = (trusted /\ ~rx.disturbed)
       ELSE /\ rx' = [rx EXCEPT !.pc = "writing", !.rows = db]
            /\ trusted' = trusted
    /\ UNCHANGED <<db, born, tasks, worker, index, changes, abandoned>>

Unwritten == {o \in Object : rx.rows[o] # Absent}

\* Forgetting the deletion.
BatchWithoutPurge(objects) ==
    [deletes |-> {},
     adds |-> [o \in Object |-> IF o \in objects THEN <<rx.rows[o]>> ELSE <<>>]]

\* The documents of objects, after the deletion if it is still queued.
BatchOf(objects) ==
    [deletes |-> IF rx.purge THEN Object ELSE {},
     adds |-> [o \in Object |-> IF o \in objects THEN <<rx.rows[o]>> ELSE <<>>]]

\* What one COMMIT writes: everything, or as many documents as a batch has.
Batches ==
    IF rx.strategy = "single_transaction" \/ rx.batch = 0 THEN {Unwritten}
    ELSE kSubset(Min({rx.batch, Cardinality(Unwritten)}), Unwritten)

WriteBatch ==
    /\ rx.pc = "writing"
    /\ rx.held \/ LockFree
    /\ \E objects \in Batches :
        /\ index' = Written(index, BatchOf(objects))
        /\ IF objects = Unwritten
           THEN /\ rx' = [rx EXCEPT !.pc = "done", !.rows = NoRows,
                                    !.held = FALSE, !.purge = FALSE]
                /\ trusted' = ~rx.disturbed
           ELSE /\ rx' = [rx EXCEPT !.purge = FALSE, !.rows =
                        [o \in Object |-> IF o \in objects THEN Absent
                                                           ELSE rx.rows[o]]]
                /\ trusted' = trusted
    /\ UNCHANGED <<db, born, tasks, worker, changes, abandoned>>

Reindex == Select \/ WriteBatch

--------------------------------------------------------------------------------
Work(w) == TakeTask(w) \/ ProcessItem(w) \/ WriterCommit(w)

Next ==
    \/ \E o \in Object, row \in Row : AppCommit(o, row) \/ AppCommitUnsent(o, row)
    \/ \E w \in Worker : TakeTask(w) \/ ProcessItem(w) \/ WriterCommit(w) \/ Die(w)
    \/ \E clear \in BOOLEAN :
        \/ ReindexInOne(clear)
        \/ \E batch \in BatchSizes : ReindexProgressively(clear, batch)
    \/ Select
    \/ WriteBatch

(***************************************************************************)
(* A worker that has a task goes on with it and takes the next; waiting    *)
(* for the lock is a loop that tries again.  A reindexing goes on.         *)
(***************************************************************************)
Fairness == WF_vars(Reindex) /\ \A w \in Worker : WF_vars(Work(w))

Spec == Init /\ [][Next]_vars /\ Fairness

--------------------------------------------------------------------------------
Quiet ==
    /\ tasks = <<>>
    /\ \A w \in Worker : ~worker[w].busy
    /\ rx.pc \in {"not_run", "done"}

(***************************************************************************)
(* When all the tasks have run the index says what the database says, even *)
(* though a task reads rows long after the commit that sent it, tasks come *)
(* in any order, workers wait for each other's lock and objects are        *)
(* deleted meanwhile; and a reindexing that nothing disturbed makes up for *)
(* lost tasks and for an index that was wrong.  Not so after a worker has  *)
(* written what it had read before another wrote the same object.          *)
(***************************************************************************)
IndexCatchesUp == Quiet /\ trusted => index = IndexOf(db)

(***************************************************************************)
(* "don't add twice the same document in same transaction": no object is   *)
(* found twice, unless a reindexing without the lock was disturbed.        *)
(***************************************************************************)
OneDocumentPerObject ==
    ~rx.disturbed => \A o \in Object : Len(index[o]) <= 1

(***************************************************************************)
(* Every task is run in the end, whoever holds the lock and whatever died  *)
(* holding it; and then the index is right.                                *)
(***************************************************************************)
TasksAreRun == []<>(Quiet /\ (trusted => index = IndexOf(db)))
================================================================================
