--------------------------- MODULE IndexUpdateProofs ---------------------------
(***************************************************************************)
(* Type correctness of IndexUpdate, that the index has no duplicates, for  *)
(* any objects, values, workers, strategies and bounds, and that it        *)
(* catches up with the rows unless a worker writes, late, what it had read *)
(* before another wrote it.                                                *)
(***************************************************************************)
EXTENDS IndexUpdate, SequenceTheorems, TLAPS

(***************************************************************************)
(* OneDocumentPerObject is not inductive alone.  What a writer adds it     *)
(* must have told to delete; and while a reindexing writes batch after     *)
(* batch, deleting nothing, the index must have nothing of the objects     *)
(* that are still to come.                                                 *)
(***************************************************************************)
DeletesWhatItAdds(writer) ==
    \A o \in Object :
        /\ Len(writer.adds[o]) <= 1
        /\ writer.adds[o] # <<>> => o \in writer.deletes

AtMostOne(docs) == \A o \in Object : Len(docs[o]) <= 1

RoomForTheRest ==
    /\ rx.pc = "started" /\ ~rx.purge => \A o \in Object : index[o] = <<>>
    /\ rx.pc = "writing" /\ ~rx.purge
            => \A o \in Object : rx.rows[o] # Absent => index[o] = <<>>

LockedInOne ==
    rx.held => /\ rx.pc \in {"started", "writing"}
               /\ rx.strategy = "single_transaction"
               /\ rx.purge

IndInv ==
    /\ TypeOK
    /\ \A w \in Worker : DeletesWhatItAdds(worker[w].writer)
    /\ LockedInOne
    /\ ~rx.disturbed => AtMostOne(index) /\ RoomForTheRest

--------------------------------------------------------------------------------
(* Lemmas on the operators of IndexTask.                                   *)

\* A fresh writer is a writer, and adds nothing.
LEMMA FreshWriterProperties ==
    FreshWriter \in Writer /\ DeletesWhatItAdds(FreshWriter)
  BY DEF FreshWriter, Writer, DeletesWhatItAdds

\* One turn of the loop keeps a writer a writer, deleting what it adds.
LEMMA ProcessedProperties ==
  ASSUME NEW writer \in Writer, NEW item \in Item, NEW rows \in [Object -> Row]
  PROVE  /\ Processed(writer, item, rows) \in Writer
         /\ DeletesWhatItAdds(writer)
                => DeletesWhatItAdds(Processed(writer, item, rows))
<1> DEFINE op == item[1]
           o  == item[2]
           skipped == op = "deleted" \/ rows[o] = Absent \/ writer.adds[o] # <<>>
           adds == IF skipped THEN writer.adds
                   ELSE [writer.adds EXCEPT ![o] = <<rows[o]>>]
<1>1. o \in Object
  BY DEF Item
<1>2. /\ writer.deletes \in SUBSET Object
      /\ writer.adds \in [Object -> Seq(Value)]
  BY DEF Writer
<1>3. ~skipped => <<rows[o]>> \in Seq(Value)
  BY <1>1 DEF Row
<1>4. adds \in [Object -> Seq(Value)]
  BY <1>1, <1>2, <1>3
<1>5. Processed(writer, item, rows)
        = [deletes |-> writer.deletes \cup {o}, adds |-> adds]
  BY DEF Processed
<1>6. Processed(writer, item, rows) \in Writer
  BY <1>1, <1>2, <1>4, <1>5 DEF Writer
<1>7. ASSUME DeletesWhatItAdds(writer)
      PROVE  DeletesWhatItAdds(Processed(writer, item, rows))
  <2>1. SUFFICES ASSUME NEW p \in Object
                 PROVE  /\ Len(adds[p]) <= 1
                        /\ adds[p] # <<>> => p \in writer.deletes \cup {o}
    BY <1>5 DEF DeletesWhatItAdds
  <2>2. adds[p] = writer.adds[p] \/ (p = o /\ adds[p] = <<rows[o]>>)
    BY <1>1, <1>2
  <2>3. Len(<<rows[o]>>) = 1
    OBVIOUS
  <2>. QED
    BY <1>7, <2>2, <2>3 DEF DeletesWhatItAdds
<1>. QED
  BY <1>6, <1>7

\* An index that a writer has written is an index.
LEMMA WrittenType ==
  ASSUME NEW docs \in [Object -> Seq(Value)], NEW writer \in Writer
  PROVE  Written(docs, writer) \in [Object -> Seq(Value)]
<1>1. ASSUME NEW o \in Object
      PROVE  (IF o \in writer.deletes THEN <<>> ELSE docs[o]) \o writer.adds[o]
                \in Seq(Value)
  <2>1. (IF o \in writer.deletes THEN <<>> ELSE docs[o]) \in Seq(Value)
    OBVIOUS
  <2>2. writer.adds[o] \in Seq(Value)
    BY DEF Writer
  <2>. QED
    BY <2>1, <2>2, ConcatProperties
<1>. QED
  BY <1>1 DEF Written

\* What a writer leaves of an object's documents.
LEMMA WrittenDocuments ==
  ASSUME NEW docs \in [Object -> Seq(Value)], NEW writer \in Writer,
         NEW o \in Object
  PROVE  /\ writer.adds[o] = <<>> /\ o \notin writer.deletes
                => Written(docs, writer)[o] = docs[o]
         /\ o \in writer.deletes \/ docs[o] = <<>>
                => Written(docs, writer)[o] = writer.adds[o]
<1>1. writer.adds[o] \in Seq(Value) /\ docs[o] \in Seq(Value)
  BY DEF Writer
<1>2. Written(docs, writer)[o]
        = (IF o \in writer.deletes THEN <<>> ELSE docs[o]) \o writer.adds[o]
  BY DEF Written
<1>3. /\ <<>> \o writer.adds[o] = writer.adds[o]
      /\ docs[o] \o <<>> = docs[o]
  BY <1>1, ConcatEmptySeq
<1>. QED
  BY <1>2, <1>3

\* The index of some rows is an index, and has no duplicates.
LEMMA IndexOfProperties ==
  ASSUME NEW rows \in [Object -> Row]
  PROVE  IndexOf(rows) \in [Object -> Seq(Value)] /\ AtMostOne(IndexOf(rows))
<1>1. ASSUME NEW o \in Object
      PROVE  /\ (IF rows[o] = Absent THEN <<>> ELSE <<rows[o]>>) \in Seq(Value)
             /\ Len(IF rows[o] = Absent THEN <<>> ELSE <<rows[o]>>) <= 1
  BY DEF Row
<1>. QED
  BY <1>1 DEF IndexOf, AtMostOne

\* Taking one task away leaves tasks.
LEMMA RemoveAtType ==
  ASSUME NEW S, NEW s \in Seq(S), NEW i \in DOMAIN s
  PROVE  RemoveAt(s, i) \in Seq(S)
<1>1. Len(s) \in Nat /\ i \in 1 .. Len(s)
  BY LenProperties
<1>2. SubSeq(s, 1, i - 1) \in Seq(S)
  <2>1. \A j \in 1 .. i - 1 : s[j] \in S
    BY <1>1, ElementOfSeq
  <2>. QED
    BY <1>1, <2>1, SubSeqProperties
<1>3. SubSeq(s, i + 1, Len(s)) \in Seq(S)
  <2>1. \A j \in i + 1 .. Len(s) : s[j] \in S
    BY <1>1, ElementOfSeq
  <2>. QED
    BY <1>1, <2>1, SubSeqProperties
<1>. QED
  BY <1>2, <1>3, ConcatProperties DEF RemoveAt

\* What another writes makes a worker late, and nothing else.
LEMMA LateOnProperties ==
  ASSUME NEW state \in WorkerState, NEW objects
  PROVE  /\ LateOn(objects, state) \in WorkerState
         /\ LateOn(objects, state).items = state.items
         /\ LateOn(objects, state).writer = state.writer
         /\ LateOn(objects, state).busy = state.busy
         /\ LateOn(objects, state).held = state.held
         /\ LateOn(objects, state).late =
                state.late \cup (state.writer.deletes \cap objects)
  BY DEF LateOn, WorkerState, Writer

\* So does a reindexing that begins.
LEMMA WaitingProperties ==
  ASSUME worker \in [Worker -> WorkerState]
  PROVE  /\ Waiting \in [Worker -> WorkerState]
         /\ \A w \in Worker :
                /\ Waiting[w].items = worker[w].items
                /\ Waiting[w].writer = worker[w].writer
                /\ Waiting[w].busy = worker[w].busy
                /\ Waiting[w].held = worker[w].held
                /\ worker[w].held \/ Waiting[w].late =
                        worker[w].late \cup (worker[w].writer.deletes \cap Object)
                /\ worker[w].late \subseteq Waiting[w].late
<1>1. ASSUME NEW w \in Worker
      PROVE  worker[w] \in WorkerState
  OBVIOUS
<1>2. ASSUME NEW w \in Worker
      PROVE  /\ Waiting[w] \in WorkerState
             /\ Waiting[w].items = worker[w].items
             /\ Waiting[w].writer = worker[w].writer
             /\ Waiting[w].busy = worker[w].busy
             /\ Waiting[w].held = worker[w].held
             /\ worker[w].held \/ Waiting[w].late =
                        worker[w].late \cup (worker[w].writer.deletes \cap Object)
             /\ worker[w].late \subseteq Waiting[w].late
  BY <1>1, LateOnProperties DEF Waiting
<1>3. Waiting \in [Worker -> WorkerState]
  BY <1>2 DEF Waiting
<1>4. QED
  BY <1>2, <1>3

\* Recording that a reindexing was overtaken changes nothing else of it.
LEMMA OvertakenProperties ==
  ASSUME NEW state \in ReindexState
  PROVE  /\ Overtaken(state) \in ReindexState
         /\ Overtaken(state).pc = state.pc
         /\ Overtaken(state).strategy = state.strategy
         /\ Overtaken(state).held = state.held
         /\ Overtaken(state).rows = state.rows
         /\ Overtaken(state).purge = state.purge
         /\ ~Overtaken(state).disturbed
                => /\ ~state.disturbed
                   /\ state.pc \in {"started", "writing"} => state.held
  BY DEF Overtaken, ReindexState

--------------------------------------------------------------------------------
(* The inductive invariant.                                                *)

\* The invariant holds at first.
LEMMA InitInv == Init => IndInv
<1>. SUFFICES ASSUME Init PROVE IndInv
  OBVIOUS
<1>1. PICK rows \in [Object -> Row] : index = IndexOf(rows)
  BY DEF Init
<1>2. index \in [Object -> Seq(Value)] /\ AtMostOne(index)
  BY <1>1, IndexOfProperties
<1>3. IdleWorker \in WorkerState
  BY FreshWriterProperties DEF IdleWorker, WorkerState, Task
<1>4. rx \in ReindexState
  BY DEF Init, ReindexState, NoRows, Row
<1>5. TypeOK
  <2>1. tasks \in Seq(Task)
    BY DEF Init
  <2>2. worker \in [Worker -> WorkerState]
    BY <1>3 DEF Init
  <2>3. \A w \in Worker : ~worker[w].held
    BY DEF Init, IdleWorker
  <2>4. changes \in 0 .. MaxChanges /\ abandoned \in 0 .. MaxAbandoned
    BY UpdateAssumption DEF Init
  <2>5. db \in [Object -> Row] /\ born \subseteq Object
    BY DEF Init
  <2>6. trusted \in BOOLEAN
    BY DEF Init
  <2>. QED
    BY <1>2, <1>4, <2>1, <2>2, <2>3, <2>4, <2>5, <2>6 DEF TypeOK
<1>6. \A w \in Worker : DeletesWhatItAdds(worker[w].writer)
  BY FreshWriterProperties DEF Init, IdleWorker
<1>7. ~rx.held /\ rx.pc = "not_run"
  BY DEF Init
<1>. QED
  BY <1>2, <1>5, <1>6, <1>7 DEF IndInv, LockedInOne, RoomForTheRest

(***************************************************************************)
(* A commit of an application: rows and tasks change, and the reindexing   *)
(* at most learns that it was disturbed.                                   *)
(***************************************************************************)
LEMMA AppCommitInv ==
  ASSUME IndInv, NEW o \in Object, NEW row \in Row, AppCommit(o, row)
  PROVE  IndInv'
<1>. USE DEF IndInv
<1>1. rx \in ReindexState /\ rx' = Overtaken(rx)
  BY DEF AppCommit, TypeOK
<1>2. TypeOK'
  <2>1. db' \in [Object -> Row] /\ born' \subseteq Object
    BY DEF AppCommit, TypeOK
  <2>2. tasks' \in Seq(Task)
    <3>0. PICK op \in Op : \E task \in TasksFor(op, o) : tasks' = Append(tasks, task)
      BY DEF AppCommit, Op
    <3>1. PICK task \in TasksFor(op, o) : tasks' = Append(tasks, task)
      BY <3>0
    <3>2. task \in Task
      <4>1. <<op, o>> \in Item /\ <<"changed", o>> \in Item
        BY DEF Item, Op
      <4>2. \A a, b \in Item : <<a>> \in Seq(Item) /\ <<a, b>> \in Seq(Item)
        OBVIOUS
      <4>3. task \in {<<<<op, o>>>>, <<<<"changed", o>>, <<op, o>>>>,
                      <<<<op, o>>, <<"changed", o>>>>}
        BY <3>1 DEF TasksFor
      <4>. QED
        BY <4>1, <4>2, <4>3, Zenon DEF Task
    <3>. QED
      BY <3>1, <3>2 DEF TypeOK
  <2>3. changes' \in 0 .. MaxChanges
    BY UpdateAssumption DEF AppCommit, TypeOK
  <2>4. rx' \in ReindexState /\ rx'.held = rx.held
    BY <1>1, OvertakenProperties
  <2>5. UNCHANGED <<worker, index, abandoned, trusted>>
    BY DEF AppCommit
  <2>. QED
    BY <2>1, <2>2, <2>3, <2>4, <2>5 DEF TypeOK
<1>3. UNCHANGED <<worker, index>>
  BY DEF AppCommit
<1>. QED
  BY <1>1, <1>2, <1>3, OvertakenProperties
  DEF LockedInOne, RoomForTheRest, AtMostOne, DeletesWhatItAdds

\* A commit whose task is never sent.
LEMMA AppCommitUnsentInv ==
  ASSUME IndInv, NEW o \in Object, NEW row \in Row, AppCommitUnsent(o, row)
  PROVE  IndInv'
<1>. USE DEF IndInv
<1>1. /\ rx \in ReindexState /\ rx' \in ReindexState
      /\ rx'.pc = rx.pc /\ rx'.strategy = rx.strategy /\ rx'.held = rx.held
      /\ rx'.rows = rx.rows /\ rx'.purge = rx.purge
      /\ ~rx'.disturbed => ~rx.disturbed
  BY DEF AppCommitUnsent, TypeOK, ReindexState
<1>2. db' \in [Object -> Row] /\ born' \subseteq Object
  BY DEF AppCommitUnsent, TypeOK
<1>3. changes' \in 0 .. MaxChanges /\ abandoned' \in 0 .. MaxAbandoned
  BY UpdateAssumption DEF AppCommitUnsent, TypeOK
<1>4. UNCHANGED <<tasks, worker, index>> /\ trusted' = FALSE
  BY DEF AppCommitUnsent
<1>5. TypeOK'
  BY <1>1, <1>2, <1>3, <1>4 DEF TypeOK
<1>. QED
  BY <1>1, <1>4, <1>5
  DEF LockedInOne, RoomForTheRest, AtMostOne, DeletesWhatItAdds

\* A worker takes a task, and the lock if it is free.
LEMMA TakeTaskInv ==
  ASSUME IndInv, NEW w \in Worker, TakeTask(w)
  PROVE  IndInv'
<1>. USE DEF IndInv
<1>1. PICK i \in DOMAIN tasks :
        /\ worker' = [worker EXCEPT ![w] =
                [items |-> tasks[i], writer |-> FreshWriter, busy |-> TRUE,
                 held |-> LockFree, late |-> {}]]
        /\ tasks' = RemoveAt(tasks, i)
  BY DEF TakeTask
<1>2. UNCHANGED <<db, born, index, rx, changes, abandoned, trusted>>
  BY DEF TakeTask
<1>3. tasks' \in Seq(Task) /\ tasks[i] \in Task
  BY <1>1, RemoveAtType, LenProperties, ElementOfSeq DEF TypeOK
<1>4. LockFree \in BOOLEAN
  BY DEF LockFree, TypeOK, ReindexState, WorkerState
<1>5. [items |-> tasks[i], writer |-> FreshWriter, busy |-> TRUE,
       held |-> LockFree, late |-> {}] \in WorkerState
  BY <1>3, <1>4, FreshWriterProperties DEF WorkerState
<1>6. worker' \in [Worker -> WorkerState]
  BY <1>1, <1>5 DEF TypeOK
<1>7. \A v \in Worker : worker'[v].held =>
        ~rx.held /\ \A other \in Worker \ {v} : ~worker'[other].held
  BY <1>1 DEF LockFree, TypeOK
<1>8. TypeOK'
  BY <1>2, <1>3, <1>6, <1>7 DEF TypeOK
<1>9. \A v \in Worker : DeletesWhatItAdds(worker'[v].writer)
  <2>1. ASSUME NEW v \in Worker
        PROVE  worker'[v].writer = worker[v].writer
                \/ worker'[v].writer = FreshWriter
    BY <1>1 DEF TypeOK
  <2>. QED
    BY <2>1, FreshWriterProperties DEF DeletesWhatItAdds
<1>. QED
  BY <1>2, <1>8, <1>9
  DEF LockedInOne, RoomForTheRest, AtMostOne, DeletesWhatItAdds

\* A worker goes through one item.
LEMMA ProcessItemInv ==
  ASSUME IndInv, NEW w \in Worker, ProcessItem(w)
  PROVE  IndInv'
<1>. USE DEF IndInv
<1> DEFINE item == Head(worker[w].items)
           writer == Processed(worker[w].writer, item, db)
<1>1. /\ worker[w] \in WorkerState
      /\ worker[w].writer \in Writer
      /\ worker[w].items \in Seq(Item)
      /\ worker[w].items # <<>>
  BY DEF ProcessItem, TypeOK, WorkerState, Task
<1>2. item \in Item /\ Tail(worker[w].items) \in Seq(Item)
  BY <1>1, HeadTailProperties
<1>3. db \in [Object -> Row]
  BY DEF TypeOK
<1>4. writer \in Writer /\ DeletesWhatItAdds(writer)
  <2>. HIDE DEF item
  <2>. QED
    BY <1>1, <1>2, <1>3, ProcessedProperties
<1>5. worker' = [worker EXCEPT ![w].writer = writer,
                               ![w].items = Tail(worker[w].items)]
  BY DEF ProcessItem
<1>6. UNCHANGED <<db, born, tasks, index, rx, changes, abandoned, trusted>>
  BY DEF ProcessItem
<1>. HIDE DEF item, writer
<1>7. worker \in [Worker -> WorkerState]
  BY DEF TypeOK
<1>8. /\ worker' \in [Worker -> WorkerState]
      /\ worker'[w].writer = writer
      /\ \A v \in Worker \ {w} : worker'[v] = worker[v]
      /\ \A v \in Worker : worker'[v].held = worker[v].held
  BY <1>1, <1>2, <1>4, <1>5, <1>7 DEF WorkerState, Task
<1>9. TypeOK'
  BY <1>6, <1>8 DEF TypeOK
<1>10. \A v \in Worker : DeletesWhatItAdds(worker'[v].writer)
  BY <1>4, <1>8 DEF DeletesWhatItAdds
<1>. QED
  BY <1>6, <1>9, <1>10
  DEF LockedInOne, RoomForTheRest, AtMostOne, DeletesWhatItAdds

\* A writer that deletes what it adds leaves no duplicates.
LEMMA WrittenAtMostOne ==
  ASSUME NEW docs \in [Object -> Seq(Value)], AtMostOne(docs),
         NEW writer \in Writer, DeletesWhatItAdds(writer)
  PROVE  AtMostOne(Written(docs, writer))
<1>1. ASSUME NEW o \in Object
      PROVE  Len(Written(docs, writer)[o]) <= 1
  <2>1. CASE o \in writer.deletes
    BY <2>1, WrittenDocuments DEF DeletesWhatItAdds
  <2>2. CASE o \notin writer.deletes
    BY <2>2, WrittenDocuments DEF DeletesWhatItAdds, AtMostOne
  <2>. QED
    BY <2>1, <2>2
<1>. QED
  BY <1>1 DEF AtMostOne

(***************************************************************************)
(* A worker commits.  If a reindexing is writing without the lock it is    *)
(* now disturbed; if it has the lock it still has everything to delete.    *)
(***************************************************************************)
LEMMA WriterCommitInv ==
  ASSUME IndInv, NEW w \in Worker, WriterCommit(w)
  PROVE  IndInv'
<1>. USE DEF IndInv
<1>1. /\ worker[w].writer \in Writer
      /\ index \in [Object -> Seq(Value)]
      /\ rx \in ReindexState
  BY DEF TypeOK, WorkerState
<1>2. /\ index' = Written(index, worker[w].writer)
      /\ worker' = [v \in Worker |-> IF v = w THEN IdleWorker
                        ELSE LateOn(worker[w].writer.deletes, worker[v])]
      /\ rx' = Overtaken(rx)
      /\ trusted' \in BOOLEAN
      /\ UNCHANGED <<db, born, tasks, changes, abandoned>>
  BY DEF WriterCommit, TypeOK
<1>3. IdleWorker \in WorkerState /\ ~IdleWorker.held
      /\ IdleWorker.writer = FreshWriter
  BY FreshWriterProperties DEF IdleWorker, WorkerState, Task
<1>10. ASSUME NEW v \in Worker
       PROVE  /\ worker'[v] \in WorkerState
              /\ worker'[v].held => worker[v].held
              /\ \/ worker'[v].writer = worker[v].writer
                 \/ worker'[v].writer = FreshWriter
  <2>1. worker[v] \in WorkerState
    BY DEF TypeOK
  <2>2. worker'[v] = IF v = w THEN IdleWorker
                     ELSE LateOn(worker[w].writer.deletes, worker[v])
    BY <1>2
  <2>3. QED
    BY <1>3, <2>1, <2>2, LateOnProperties
<1>4. TypeOK'
  <2>1. index' \in [Object -> Seq(Value)]
    BY <1>1, <1>2, WrittenType
  <2>2. rx' \in ReindexState /\ rx'.held = rx.held
    BY <1>1, <1>2, OvertakenProperties
  <2>3. worker' \in [Worker -> WorkerState]
    BY <1>2, <1>10
  <2>4. \A v \in Worker : worker'[v].held => worker[v].held
    BY <1>10
  <2>. QED
    BY <1>2, <2>1, <2>2, <2>3, <2>4 DEF TypeOK
<1>5. \A v \in Worker : DeletesWhatItAdds(worker'[v].writer)
  <2>1. ASSUME NEW v \in Worker
        PROVE  worker'[v].writer = worker[v].writer
                \/ worker'[v].writer = FreshWriter
    BY <1>10
  <2>. QED
    BY <2>1, FreshWriterProperties DEF DeletesWhatItAdds
<1>6. LockedInOne'
  BY <1>1, <1>2, OvertakenProperties DEF LockedInOne
<1>7. ASSUME ~rx'.disturbed PROVE AtMostOne(index') /\ RoomForTheRest'
  <2>1. ~rx.disturbed /\ (rx.pc \in {"started", "writing"} => rx.held)
    BY <1>1, <1>2, <1>7, OvertakenProperties
  <2>2. AtMostOne(index')
    BY <1>1, <1>2, <2>1, WrittenAtMostOne
  <2>3. rx'.pc \in {"started", "writing"} => rx'.purge
    BY <1>1, <1>2, <2>1, OvertakenProperties DEF LockedInOne
  <2>. QED
    BY <2>2, <2>3 DEF RoomForTheRest
<1>8. AtMostOne(index)' <=> AtMostOne(index')
  BY DEF AtMostOne
<1>9. \A v \in Worker : DeletesWhatItAdds(worker'[v].writer)
        <=> DeletesWhatItAdds(worker[v].writer)'
  BY DEF DeletesWhatItAdds
<1>. QED
  BY <1>4, <1>5, <1>6, <1>7, <1>8, <1>9

\* A task dies: its writer is cancelled, and the index is not touched.
LEMMA DieInv ==
  ASSUME IndInv, NEW w \in Worker, Die(w)
  PROVE  IndInv'
<1>. USE DEF IndInv
<1>1. /\ rx \in ReindexState /\ rx' \in ReindexState
      /\ rx'.pc = rx.pc /\ rx'.strategy = rx.strategy /\ rx'.held = rx.held
      /\ rx'.rows = rx.rows /\ rx'.purge = rx.purge
      /\ ~rx'.disturbed => ~rx.disturbed
  BY DEF Die, TypeOK, ReindexState
<1>2. /\ worker' = [worker EXCEPT ![w] = IdleWorker]
      /\ abandoned' \in 0 .. MaxAbandoned
      /\ trusted' = FALSE
      /\ UNCHANGED <<db, born, tasks, index, changes>>
  BY UpdateAssumption DEF Die, TypeOK
<1>3. IdleWorker \in WorkerState /\ ~IdleWorker.held
      /\ IdleWorker.writer = FreshWriter
  BY FreshWriterProperties DEF IdleWorker, WorkerState, Task
<1>4. /\ worker' \in [Worker -> WorkerState]
      /\ \A v \in Worker : worker'[v].held => worker[v].held
      /\ \A v \in Worker : worker'[v].writer = worker[v].writer
                            \/ worker'[v].writer = FreshWriter
  BY <1>2, <1>3 DEF TypeOK
<1>5. TypeOK'
  BY <1>1, <1>2, <1>4 DEF TypeOK
<1>. QED
  BY <1>1, <1>2, <1>4, <1>5, FreshWriterProperties
  DEF LockedInOne, RoomForTheRest, AtMostOne, DeletesWhatItAdds

\* Opening the writer of a single transaction: all is still to be deleted.
LEMMA ReindexInOneInv ==
  ASSUME IndInv, NEW clear \in BOOLEAN, ReindexInOne(clear)
  PROVE  IndInv'
<1>. USE DEF IndInv
<1>1. LockFree \in BOOLEAN
  BY DEF LockFree, TypeOK, ReindexState, WorkerState
<1>2. /\ rx' = [rx EXCEPT !.pc = "started", !.strategy = "single_transaction",
                          !.held = LockFree, !.purge = TRUE]
      /\ "single_transaction" \in Strategies
      /\ worker' = Waiting
      /\ UNCHANGED <<db, born, tasks, index, changes, abandoned, trusted>>
  BY DEF ReindexInOne
<1>6. /\ worker' \in [Worker -> WorkerState]
      /\ \A w \in Worker : /\ worker'[w].writer = worker[w].writer
                           /\ worker'[w].held = worker[w].held
  BY <1>2, WaitingProperties DEF TypeOK
<1>3. /\ rx' \in ReindexState
      /\ rx'.pc = "started" /\ rx'.strategy = "single_transaction" /\ rx'.purge
      /\ rx'.held = LockFree /\ rx'.disturbed = rx.disturbed
  BY <1>1, <1>2 DEF TypeOK, ReindexState
<1>4. \A w \in Worker : worker'[w].held => ~rx'.held
  BY <1>3, <1>6 DEF LockFree
<1>5. TypeOK'
  BY <1>2, <1>3, <1>4, <1>6 DEF TypeOK
<1>. QED
  BY <1>2, <1>3, <1>5, <1>6
  DEF LockedInOne, RoomForTheRest, AtMostOne, DeletesWhatItAdds

\* A progressive reindexing begins: what it does not delete is gone.
LEMMA ReindexProgressivelyInv ==
  ASSUME IndInv, NEW clear \in BOOLEAN, NEW batch \in BatchSizes,
         ReindexProgressively(clear, batch)
  PROVE  IndInv'
<1>. USE DEF IndInv
<1>1. /\ index' = IF clear THEN IndexOf(NoRows) ELSE index
      /\ rx' = [rx EXCEPT !.pc = "started", !.strategy = "progressive_mode",
                          !.batch = batch, !.purge = ~clear]
      /\ "progressive_mode" \in Strategies
      /\ worker' = Waiting
      /\ UNCHANGED <<db, born, tasks, changes, abandoned, trusted>>
      /\ rx.pc = "not_run"
  BY DEF ReindexProgressively
<1>10. /\ worker' \in [Worker -> WorkerState]
       /\ \A w \in Worker : /\ worker'[w].writer = worker[w].writer
                            /\ worker'[w].held = worker[w].held
  BY <1>1, WaitingProperties DEF TypeOK
<1>2. /\ rx' \in ReindexState
      /\ rx'.pc = "started" /\ rx'.purge = ~clear
      /\ rx'.held = rx.held /\ rx'.disturbed = rx.disturbed
  BY <1>1 DEF TypeOK, ReindexState
<1>3. NoRows \in [Object -> Row]
  BY DEF NoRows, Row
<1>4. \A o \in Object : IndexOf(NoRows)[o] = <<>>
  BY DEF IndexOf, NoRows
<1>5. index' \in [Object -> Seq(Value)]
  BY <1>1, <1>3, IndexOfProperties DEF TypeOK
<1>6. ~rx.held
  BY <1>1 DEF LockedInOne
<1>7. TypeOK'
  BY <1>1, <1>2, <1>5, <1>6, <1>10 DEF TypeOK
<1>8. ~rx.disturbed => AtMostOne(index')
  BY <1>1, <1>3, IndexOfProperties
<1>9. RoomForTheRest'
  BY <1>1, <1>2, <1>4 DEF RoomForTheRest
<1>. QED
  BY <1>1, <1>2, <1>6, <1>7, <1>8, <1>9, <1>10
  DEF LockedInOne, AtMostOne, DeletesWhatItAdds

(***************************************************************************)
(* The rows are read.  Before, a reindexing that will delete nothing has   *)
(* an empty index.                                                         *)
(***************************************************************************)
LEMMA SelectInv ==
  ASSUME IndInv, Select
  PROVE  IndInv'
<1>. USE DEF IndInv
<1>1. /\ rx.pc = "started"
      /\ UNCHANGED <<db, born, tasks, worker, index, changes, abandoned>>
  BY DEF Select
<1>2. CASE rx.strategy = "progressive_mode" /\ db = NoRows
  <2>1. /\ rx' = [rx EXCEPT !.pc = "done"]
        /\ trusted' = (trusted /\ ~rx.disturbed)
    BY <1>2 DEF Select
  <2>2. /\ rx' \in ReindexState /\ rx'.pc = "done"
        /\ rx'.held = rx.held /\ rx'.disturbed = rx.disturbed
    BY <2>1 DEF TypeOK, ReindexState
  <2>3. trusted' \in BOOLEAN
    BY <2>1 DEF TypeOK, ReindexState
  <2>4. ~rx.held
    BY <1>2 DEF LockedInOne
  <2>5. TypeOK'
    BY <1>1, <2>2, <2>3 DEF TypeOK
  <2>. QED
    BY <1>1, <2>2, <2>4, <2>5
    DEF LockedInOne, RoomForTheRest, AtMostOne, DeletesWhatItAdds
<1>3. CASE ~(rx.strategy = "progressive_mode" /\ db = NoRows)
  <2>1. /\ rx' = [rx EXCEPT !.pc = "writing", !.rows = db]
        /\ trusted' = trusted
    BY <1>3 DEF Select
  <2>2. /\ rx' \in ReindexState /\ rx'.pc = "writing"
        /\ rx'.strategy = rx.strategy /\ rx'.purge = rx.purge
        /\ rx'.held = rx.held /\ rx'.disturbed = rx.disturbed
    BY <2>1 DEF TypeOK, ReindexState
  <2>3. TypeOK'
    BY <1>1, <2>1, <2>2 DEF TypeOK
  <2>. QED
    BY <1>1, <2>2, <2>3
    DEF LockedInOne, RoomForTheRest, AtMostOne, DeletesWhatItAdds
<1>. QED
  BY <1>2, <1>3

\* A batch is made of documents that are not written yet.
LEMMA BatchProperties ==
  ASSUME rx \in ReindexState, NEW objects \in Batches
  PROVE  /\ objects \subseteq Unwritten
         /\ BatchOf(objects) \in Writer
         /\ \A o \in Object :
                /\ Len(BatchOf(objects).adds[o]) <= 1
                /\ BatchOf(objects).adds[o] # <<>> => o \in Unwritten
                /\ o \notin objects => BatchOf(objects).adds[o] = <<>>
         /\ BatchOf(objects).deletes = IF rx.purge THEN Object ELSE {}
<1>1. objects \subseteq Unwritten
  BY DEF Batches, kSubset
<1>2. ASSUME NEW o \in Object, o \in Unwritten
      PROVE  <<rx.rows[o]>> \in Seq(Value)
  <2>1. rx.rows[o] \in Value
    BY <1>2 DEF Unwritten, ReindexState, Row
  <2>. QED
    BY <2>1
<1> DEFINE adds == [o \in Object |-> IF o \in objects THEN <<rx.rows[o]>> ELSE <<>>]
<1>3. adds \in [Object -> Seq(Value)]
  <2>1. ASSUME NEW o \in Object
        PROVE  (IF o \in objects THEN <<rx.rows[o]>> ELSE <<>>) \in Seq(Value)
    BY <1>1, <1>2
  <2>. QED
    BY <2>1
<1>4. BatchOf(objects) = [deletes |-> IF rx.purge THEN Object ELSE {}, adds |-> adds]
  BY DEF BatchOf
<1>5. \A o \in Object :
        /\ Len(adds[o]) <= 1
        /\ adds[o] # <<>> => o \in Unwritten
        /\ o \notin objects => adds[o] = <<>>
  BY <1>1
<1>6. BatchOf(objects) \in Writer
  <2>. HIDE DEF adds
  <2>. QED
    BY <1>3, <1>4 DEF Writer
<1>. QED
  BY <1>1, <1>4, <1>5, <1>6

(***************************************************************************)
(* A batch is written.  Either all was deleted, or there was nothing of    *)
(* its objects; and nothing comes of the objects that remain.              *)
(***************************************************************************)
LEMMA WriteBatchInv ==
  ASSUME IndInv, WriteBatch
  PROVE  IndInv'
<1>. USE DEF IndInv
<1>1. PICK objects \in Batches :
        /\ index' = Written(index, BatchOf(objects))
        /\ IF objects = Unwritten
           THEN /\ rx' = [rx EXCEPT !.pc = "done", !.rows = NoRows,
                                    !.held = FALSE, !.purge = FALSE]
                /\ trusted' = ~rx.disturbed
           ELSE /\ rx' = [rx EXCEPT !.purge = FALSE, !.rows =
                        [o \in Object |-> IF o \in objects THEN Absent
                                                           ELSE rx.rows[o]]]
                /\ trusted' = trusted
  BY DEF WriteBatch
<1>2. /\ rx.pc = "writing"
      /\ UNCHANGED <<db, born, tasks, worker, changes, abandoned>>
  BY DEF WriteBatch
<1>3. rx \in ReindexState /\ index \in [Object -> Seq(Value)]
  BY DEF TypeOK
<1>4. index' \in [Object -> Seq(Value)]
  BY <1>1, <1>3, BatchProperties, WrittenType
<1>5. ASSUME ~rx.disturbed, NEW o \in Object
      PROVE  /\ Len(index'[o]) <= 1
             /\ o \in Unwritten /\ o \notin objects => index'[o] = <<>>
  <2>1. CASE rx.purge
    BY <1>1, <1>3, <2>1, BatchProperties, WrittenDocuments
  <2>2. CASE ~rx.purge
    <3>1. o \in Unwritten => index[o] = <<>>
      BY <1>2, <1>5, <2>2 DEF RoomForTheRest, Unwritten
    <3>2. Len(index[o]) <= 1
      BY <1>5 DEF AtMostOne
    <3>3. CASE o \in Unwritten
      BY <1>1, <1>3, <3>1, <3>3, BatchProperties, WrittenDocuments
    <3>4. CASE o \notin Unwritten
      BY <1>1, <1>3, <2>2, <3>2, <3>4, BatchProperties, WrittenDocuments
    <3>. QED
      BY <3>3, <3>4
  <2>. QED
    BY <2>1, <2>2
<1>6. ~rx.disturbed => AtMostOne(index')
  BY <1>5 DEF AtMostOne
<1>7. CASE objects = Unwritten
  <2>1. /\ rx' = [rx EXCEPT !.pc = "done", !.rows = NoRows,
                            !.held = FALSE, !.purge = FALSE]
        /\ trusted' = ~rx.disturbed
    BY <1>1, <1>7
  <2>2. NoRows \in [Object -> Row]
    BY DEF NoRows, Row
  <2>3. /\ rx' \in ReindexState /\ rx'.pc = "done" /\ ~rx'.held
        /\ rx'.disturbed = rx.disturbed
    BY <1>3, <2>1, <2>2 DEF ReindexState
  <2>4. trusted' \in BOOLEAN
    BY <2>1
  <2>5. TypeOK'
    BY <1>2, <1>4, <2>3, <2>4 DEF TypeOK
  <2>. QED
    BY <1>2, <1>6, <2>3, <2>5
    DEF LockedInOne, RoomForTheRest, AtMostOne, DeletesWhatItAdds
<1>8. CASE objects # Unwritten
  <2> DEFINE rest == [o \in Object |-> IF o \in objects THEN Absent
                                                      ELSE rx.rows[o]]
  <2>1. rx' = [rx EXCEPT !.purge = FALSE, !.rows = rest] /\ trusted' = trusted
    BY <1>1, <1>8
  <2>2. rest \in [Object -> Row]
    BY <1>3 DEF ReindexState, Row
  <2>3. \A o \in Object : rest[o] # Absent => o \in Unwritten /\ o \notin objects
    BY DEF Unwritten
  <2>. HIDE DEF rest
  <2>4. /\ rx' \in ReindexState /\ rx'.pc = "writing" /\ rx'.held = rx.held
        /\ rx'.rows = rest /\ rx'.disturbed = rx.disturbed
    BY <1>2, <1>3, <2>1, <2>2 DEF ReindexState
  <2>5. ~rx.held
    <3>1. rx.strategy # "single_transaction"
      BY <1>8 DEF Batches
    <3>. QED
      BY <3>1 DEF LockedInOne
  <2>6. TypeOK'
    BY <1>2, <1>4, <2>1, <2>4 DEF TypeOK
  <2>7. ~rx'.disturbed => RoomForTheRest'
    BY <1>5, <2>3, <2>4 DEF RoomForTheRest
  <2>. QED
    BY <1>2, <1>6, <2>4, <2>5, <2>6, <2>7
    DEF LockedInOne, AtMostOne, DeletesWhatItAdds
<1>. QED
  BY <1>7, <1>8

\* Every step keeps the invariant.
LEMMA StepInv == IndInv /\ [Next]_vars => IndInv'
<1>. SUFFICES ASSUME IndInv, [Next]_vars PROVE IndInv'
  OBVIOUS
<1>1. ASSUME NEW o \in Object, NEW row \in Row,
             AppCommit(o, row) \/ AppCommitUnsent(o, row)
      PROVE  IndInv'
  BY <1>1, AppCommitInv, AppCommitUnsentInv
<1>2. ASSUME NEW w \in Worker,
             TakeTask(w) \/ ProcessItem(w) \/ WriterCommit(w) \/ Die(w)
      PROVE  IndInv'
  BY <1>2, TakeTaskInv, ProcessItemInv, WriterCommitInv, DieInv
<1>3. ASSUME NEW clear \in BOOLEAN, ReindexInOne(clear) PROVE IndInv'
  BY <1>3, ReindexInOneInv
<1>4. ASSUME NEW clear \in BOOLEAN, NEW batch \in BatchSizes,
             ReindexProgressively(clear, batch)
      PROVE  IndInv'
  BY <1>4, ReindexProgressivelyInv
<1>5. CASE Select
  BY <1>5, SelectInv
<1>6. CASE WriteBatch
  BY <1>6, WriteBatchInv
<1>7. CASE UNCHANGED vars
  BY <1>7 DEF vars, IndInv, TypeOK, LockedInOne, RoomForTheRest, AtMostOne,
              DeletesWhatItAdds
<1>. QED
  BY <1>1, <1>2, <1>3, <1>4, <1>5, <1>6, <1>7 DEF Next

\* The invariant always holds.
LEMMA InductiveInvariant == Spec => []IndInv
  BY InitInv, StepInv, PTL DEF Spec

--------------------------------------------------------------------------------
(***************************************************************************)
(* Every variable keeps its type, and one writer at most has the lock.     *)
(***************************************************************************)
THEOREM TypeCorrect == Spec => []TypeOK
<1>1. IndInv => TypeOK
  BY DEF IndInv
<1>. QED
  BY <1>1, InductiveInvariant, PTL

(***************************************************************************)
(* No object has two documents, whatever the workers, the applications and *)
(* a reindexing do, unless the reindexing ran without the lock and rows or *)
(* the index changed under it.                                             *)
(***************************************************************************)
THEOREM NoDuplicates == Spec => []OneDocumentPerObject
<1>1. IndInv => OneDocumentPerObject
  BY DEF IndInv, OneDocumentPerObject, AtMostOne
<1>. QED
  BY <1>1, InductiveInvariant, PTL

--------------------------------------------------------------------------------
(* The index catches up.                                                   *)

Queued(items, o) == \E i \in DOMAIN items : items[i][2] = o

Rewrites(items, o) ==
    \E i \in DOMAIN items : items[i][2] = o /\ items[i][1] # "deleted"

Sent(o) == \E i \in DOMAIN tasks : Queued(tasks[i], o)

\* What a worker has told its writer of the object, or is still to tell.
Told(w, o) == o \in worker[w].writer.deletes \/ Queued(worker[w].items, o)

Outstanding(o) == Sent(o) \/ \E w \in Worker : Told(w, o)

Document(o) == IF db[o] = Absent THEN <<>> ELSE <<db[o]>>

\* What the worker's writer will say of the object, if nothing changes.
WillBeRight(w, o) ==
    IF worker[w].writer.adds[o] # <<>>
    THEN worker[w].writer.adds[o] = <<db[o]>>
    ELSE db[o] = Absent \/ Rewrites(worker[w].items, o)

\* Someone will write the object as it is now.
Repaired(o) == Sent(o) \/ \E w \in Worker : Told(w, o) /\ WillBeRight(w, o)

Keeps(w) == \A o \in Object : Told(w, o) => Repaired(o) \/ o \in worker[w].late

IdleIsFresh == \A w \in Worker : ~worker[w].busy => worker[w] = IdleWorker

\* An object that an item tells deleted has no row, and never will.
ForGood(items) ==
    \A i \in DOMAIN items : items[i][1] = "deleted" =>
        db[items[i][2]] = Absent /\ items[i][2] \in born

DeletedForGood ==
    /\ \A i \in DOMAIN tasks : ForGood(tasks[i])
    /\ \A w \in Worker : ForGood(worker[w].items)

(***************************************************************************)
(* A worker whose writer is wrong, without being late, about rows that no  *)
(* task will repair (one was never sent) makes the index one not to be     *)
(* trusted.  If a reindexing has begun since, either the worker has the    *)
(* lock and keeps it waiting, or the loss of the task disturbed it.        *)
(***************************************************************************)
WrongIsNoticed ==
    \A w \in Worker : ~Keeps(w) =>
        ~trusted /\ (worker[w].held \/ rx.disturbed \/ rx.pc = "not_run")

\* The reindexing has begun to replace what the index has.
Midway == rx.pc \in {"started", "writing"} /\ ~rx.purge

\* What is wrong in a trusted index will be written again.
WrongIsOutstanding ==
    trusted /\ ~Midway =>
        \A o \in Object : index[o] = Document(o) \/ Outstanding(o)

\* So is what an undisturbed reindexing would leave wrong.
BatchesAreRight ==
    ~rx.disturbed /\ rx.pc = "writing" =>
        \A o \in Object :
            \/ Outstanding(o)
            \/ IF rx.purge \/ rx.rows[o] # Absent THEN rx.rows[o] = db[o]
                                                  ELSE index[o] = Document(o)

CatchInv ==
    /\ IndInv
    /\ IdleIsFresh /\ DeletedForGood
    /\ WrongIsNoticed
    /\ WrongIsOutstanding /\ BatchesAreRight

\* The tasks that remain when one is taken are those that were there.
LEMMA RemoveAtElements ==
  ASSUME NEW S, NEW s \in Seq(S), NEW i \in DOMAIN s
  PROVE  /\ \A j \in DOMAIN s : j # i =>
                \E k \in DOMAIN RemoveAt(s, i) : RemoveAt(s, i)[k] = s[j]
         /\ \A k \in DOMAIN RemoveAt(s, i) :
                \E j \in DOMAIN s : RemoveAt(s, i)[k] = s[j]
<1> DEFINE N == Len(s)
           before == SubSeq(s, 1, i - 1)
           after == SubSeq(s, i + 1, N)
<1>1. N \in Nat /\ i \in 1 .. N /\ DOMAIN s = 1 .. N
  BY LenProperties
<1>2. /\ before \in Seq(S) /\ Len(before) = i - 1
      /\ \A j \in 1 .. i - 1 : before[j] = s[j]
  <2>1. \A j \in 1 .. i - 1 : s[j] \in S
    BY <1>1, ElementOfSeq
  <2>2. /\ before \in Seq(S) /\ Len(before) = IF 1 <= i - 1 THEN i - 1 - 1 + 1 ELSE 0
        /\ \A j \in 1 .. i - 1 - 1 + 1 : before[j] = s[1 + j - 1]
    <3>1. 1 \in Int /\ i - 1 \in Int
      BY <1>1
    <3>2. QED
      BY <2>1, <3>1, SubSeqProperties
  <2> HIDE DEF before, N
  <2>3. QED
    BY <1>1, <2>2
<1>3. /\ after \in Seq(S) /\ Len(after) = N - i
      /\ \A j \in 1 .. N - i : after[j] = s[i + j]
  <2>1. \A j \in i + 1 .. N : s[j] \in S
    BY <1>1, ElementOfSeq
  <2>2. /\ after \in Seq(S) /\ Len(after) = IF i + 1 <= N THEN N - (i + 1) + 1 ELSE 0
        /\ \A j \in 1 .. N - (i + 1) + 1 : after[j] = s[i + 1 + j - 1]
    <3>1. i + 1 \in Int /\ N \in Int
      BY <1>1
    <3>2. QED
      BY <2>1, <3>1, SubSeqProperties
  <2>3. N \in Nat /\ i \in 1 .. N
    BY <1>1
  <2> HIDE DEF after, N
  <2>4. N - (i + 1) + 1 = N - i /\ (IF i + 1 <= N THEN N - i ELSE 0) = N - i
    BY <2>3
  <2>5. \A j \in 1 .. N - i : i + 1 + j - 1 = i + j
    BY <2>3
  <2>6. QED
    BY <2>2, <2>4, <2>5
<1>4. RemoveAt(s, i) = before \o after
  BY DEF RemoveAt
<1> HIDE DEF before, after, N
<1>5. /\ before \o after \in Seq(S)
      /\ Len(before \o after) = N - 1
      /\ \A k \in 1 .. N - 1 :
            (before \o after)[k] = IF k <= i - 1 THEN before[k] ELSE after[k - (i - 1)]
  <2>1. /\ before \o after \in Seq(S)
        /\ Len(before \o after) = Len(before) + Len(after)
        /\ \A k \in 1 .. Len(before) + Len(after) : (before \o after)[k] =
                IF k <= Len(before) THEN before[k] ELSE after[k - Len(before)]
    BY <1>2, <1>3, ConcatProperties
  <2>2. Len(before) + Len(after) = N - 1
    BY <1>1, <1>2, <1>3
  <2>3. QED
    BY <1>2, <2>1, <2>2
<1>6. DOMAIN (before \o after) = 1 .. N - 1
  BY <1>5, LenProperties
<1>7. \A k \in 1 .. N - 1 :
        (before \o after)[k] = IF k <= i - 1 THEN s[k] ELSE s[k + 1]
  <2>1. ASSUME NEW k \in 1 .. N - 1
        PROVE  /\ k <= i - 1 => k \in 1 .. i - 1
               /\ ~(k <= i - 1) => /\ k - (i - 1) \in 1 .. N - i
                                   /\ i + (k - (i - 1)) = k + 1
    BY <1>1
  <2>2. QED
    BY <1>2, <1>3, <1>5, <2>1
<1>8. ASSUME NEW j \in DOMAIN s, j # i
      PROVE  \E k \in 1 .. N - 1 : (before \o after)[k] = s[j]
  <2>0. N \in Nat /\ i \in 1 .. N /\ j \in 1 .. N /\ j # i
    BY <1>1, <1>8
  <2>1. CASE j < i
    <3>1. j \in 1 .. N - 1 /\ j <= i - 1
      BY <2>0, <2>1
    <3>2. QED
      BY <1>7, <3>1
  <2>2. CASE j > i
    <3>1. j - 1 \in 1 .. N - 1 /\ ~(j - 1 <= i - 1) /\ j - 1 + 1 = j
      BY <2>0, <2>2
    <3>2. QED
      BY <1>7, <3>1
  <2>3. j < i \/ j > i
    BY <2>0
  <2>4. QED
    BY <2>1, <2>2, <2>3
<1>9. ASSUME NEW k \in 1 .. N - 1
      PROVE  \E j \in DOMAIN s : (before \o after)[k] = s[j]
  <2>1. k \in DOMAIN s /\ k + 1 \in DOMAIN s
    BY <1>1
  <2>2. QED
    BY <1>7, <2>1
<1>10. QED
  BY <1>4, <1>6, <1>8, <1>9

\* One item less: the others are still to come.
LEMMA TailQueues ==
  ASSUME NEW items \in Seq(Item), items # <<>>, NEW o
  PROVE  /\ Queued(items, o) <=> (Head(items)[2] = o \/ Queued(Tail(items), o))
         /\ Rewrites(items, o) <=> \/ Head(items)[2] = o /\ Head(items)[1] # "deleted"
                                   \/ Rewrites(Tail(items), o)
         /\ \A i \in DOMAIN Tail(items) :
                \E j \in DOMAIN items : Tail(items)[i] = items[j]
<1> DEFINE N == Len(items)
           rest == Tail(items)
<1>1. N \in Nat \ {0} /\ DOMAIN items = 1 .. N /\ Head(items) = items[1]
  BY EmptySeq, LenProperties
<1>2. /\ rest \in Seq(Item) /\ Len(rest) = N - 1
      /\ \A i \in 1 .. N - 1 : rest[i] = items[i + 1]
  BY HeadTailProperties
<1>3. DOMAIN rest = 1 .. N - 1
  BY <1>2, LenProperties
<1> HIDE DEF N, rest
<1>4. \A i \in DOMAIN items :
        i = 1 \/ (i - 1 \in DOMAIN rest /\ rest[i - 1] = items[i])
  BY <1>1, <1>2, <1>3
<1>5. \A i \in DOMAIN rest : i + 1 \in DOMAIN items /\ rest[i] = items[i + 1]
  BY <1>1, <1>2, <1>3
<1>6. 1 \in DOMAIN items
  BY <1>1
<1>7. Queued(items, o) <=> (items[1][2] = o \/ Queued(rest, o))
  BY <1>4, <1>5, <1>6 DEF Queued
<1>8. Rewrites(items, o) <=> \/ (items[1][2] = o /\ items[1][1] # "deleted")
                             \/ Rewrites(rest, o)
  BY <1>4, <1>5, <1>6 DEF Rewrites
<1>9. QED
  BY <1>1, <1>5, <1>7, <1>8 DEF rest

\* What an application sends for an object is about that object.
LEMMA TasksForProperties ==
  ASSUME NEW op, NEW o, NEW task \in TasksFor(op, o)
  PROVE  /\ DOMAIN task \subseteq {1, 2} /\ 1 \in DOMAIN task
         /\ \A i \in DOMAIN task : task[i][2] = o /\ task[i][1] \in {op, "changed"}
  BY DEF TasksFor

\* What an application sends comes after what was sent.
LEMMA AppendElements ==
  ASSUME NEW S, NEW s \in Seq(S), NEW e \in S
  PROVE  /\ \A i \in DOMAIN s : i \in DOMAIN Append(s, e) /\ Append(s, e)[i] = s[i]
         /\ \E i \in DOMAIN Append(s, e) : Append(s, e)[i] = e
         /\ \A i \in DOMAIN Append(s, e) :
                Append(s, e)[i] = e \/ (i \in DOMAIN s /\ Append(s, e)[i] = s[i])
<1> DEFINE N == Len(s)
           t == Append(s, e)
<1>1. N \in Nat /\ DOMAIN s = 1 .. N
  BY LenProperties
<1>2. /\ t \in Seq(S) /\ Len(t) = N + 1 /\ t[N + 1] = e
      /\ \A i \in 1 .. N : t[i] = s[i]
  BY AppendProperties
<1>3. DOMAIN t = 1 .. N + 1
  BY <1>2, LenProperties
<1> HIDE DEF N, t
<1>4. \A i \in DOMAIN t : i = N + 1 \/ i \in DOMAIN s
  BY <1>1, <1>3
<1>5. N + 1 \in DOMAIN t /\ \A i \in DOMAIN s : i \in DOMAIN t
  BY <1>1, <1>3
<1>6. QED
  BY <1>1, <1>2, <1>4, <1>5 DEF t

\* Only a busy worker has anything to tell.
LEMMA IdleTellsNothing ==
  ASSUME IdleIsFresh, NEW w \in Worker, NEW o, ~worker[w].busy
  PROVE  ~Told(w, o) /\ ~worker[w].held
<1>1. worker[w] = IdleWorker
  BY DEF IdleIsFresh
<1>2. DOMAIN IdleWorker.items = {} /\ IdleWorker.writer.deletes = {} /\ ~IdleWorker.held
  BY DEF IdleWorker, FreshWriter
<1>3. QED
  BY <1>1, <1>2 DEF Told, Queued

\* What is queued and not yet read will be read as it is.
LEMMA QueuedIsRight ==
  ASSUME IndInv, DeletedForGood, NEW w \in Worker, NEW o \in Object,
         Told(w, o), o \notin worker[w].writer.deletes
  PROVE  WillBeRight(w, o)
<1>1. PICK i \in DOMAIN worker[w].items : worker[w].items[i][2] = o
  BY DEF Told, Queued
<1>2. worker[w].writer.adds[o] = <<>>
  BY DEF IndInv, DeletesWhatItAdds
<1>3. db[o] = Absent \/ Rewrites(worker[w].items, o)
  BY <1>1 DEF DeletedForGood, ForGood, Rewrites
<1>4. QED
  BY <1>2, <1>3 DEF WillBeRight

\* At first nothing is outstanding, and the index is trusted if it is right.
LEMMA InitCatch == Init => CatchInv
<1> SUFFICES ASSUME Init PROVE CatchInv
  OBVIOUS
<1>1. IndInv
  BY InitInv
<1>2. \A w \in Worker : worker[w] = IdleWorker
  BY DEF Init
<1>3. DOMAIN IdleWorker.items = {} /\ IdleWorker.writer.deletes = {}
      /\ ~IdleWorker.busy
  BY DEF IdleWorker, FreshWriter
<1>4. \A w \in Worker : \A o : ~Told(w, o)
  BY <1>2, <1>3 DEF Told, Queued
<1>5. WrongIsNoticed
  BY <1>4 DEF WrongIsNoticed, Keeps
<1>6. DeletedForGood
  BY <1>2, <1>3 DEF Init, DeletedForGood, ForGood
<1>7. trusted => \A o \in Object : index[o] = Document(o)
  BY DEF Init, IndexOf, Document
<1>8. rx.pc = "not_run"
  BY DEF Init
<1>9. QED
  BY <1>1, <1>2, <1>3, <1>5, <1>6, <1>7, <1>8
  DEF CatchInv, IdleIsFresh, WrongIsOutstanding, BatchesAreRight

\* A commit: the object it is about is outstanding, the others are as they were.
LEMMA AppCommitCatch ==
  ASSUME CatchInv, NEW p \in Object, NEW row \in Row, AppCommit(p, row)
  PROVE  CatchInv'
<1>1. IndInv'
  BY AppCommitInv DEF CatchInv
<1>2. TypeOK /\ IdleIsFresh /\ DeletedForGood /\ WrongIsNoticed
      /\ WrongIsOutstanding /\ BatchesAreRight /\ LockedInOne
  BY DEF CatchInv, IndInv
<1>3. /\ UNCHANGED <<worker, index, trusted>>
      /\ db' = [db EXCEPT ![p] = row] /\ born' = born \cup {p}
      /\ db[p] = Absent => p \notin born
      /\ rx' = Overtaken(rx)
  BY DEF AppCommit
<1>4. PICK op \in Op :
        /\ op = "deleted" => row = Absent
        /\ \E task \in TasksFor(op, p) : tasks' = Append(tasks, task)
  <2>1. PICK op : /\ op = CASE row = Absent   -> "deleted"
                            [] db[p] = Absent -> "new"
                            [] OTHER          -> "changed"
                  /\ \E task \in TasksFor(op, p) : tasks' = Append(tasks, task)
    BY DEF AppCommit
  <2>2. op \in Op /\ (op = "deleted" => row = Absent)
    BY <2>1 DEF Op
  <2>3. QED
    BY <2>1, <2>2
<1>5. PICK task \in TasksFor(op, p) : tasks' = Append(tasks, task)
  BY <1>4
<1>6. task \in Task
  <2>1. <<op, p>> \in Item /\ <<"changed", p>> \in Item
    BY DEF Item, Op
  <2>2. \A a, b \in Item : <<a>> \in Seq(Item) /\ <<a, b>> \in Seq(Item)
    OBVIOUS
  <2>3. task \in {<<<<op, p>>>>, <<<<"changed", p>>, <<op, p>>>>,
                  <<<<op, p>>, <<"changed", p>>>>}
    BY DEF TasksFor
  <2>4. QED
    BY <2>1, <2>2, <2>3, Zenon DEF Task
<1>7. tasks \in Seq(Task)
  BY <1>2 DEF TypeOK
<1>8. /\ \A i \in DOMAIN tasks : i \in DOMAIN tasks' /\ tasks'[i] = tasks[i]
      /\ \E i \in DOMAIN tasks' : tasks'[i] = task
      /\ \A i \in DOMAIN tasks' :
            tasks'[i] = task \/ (i \in DOMAIN tasks /\ tasks'[i] = tasks[i])
  <2> HIDE DEF Task
  <2>1. QED
    BY <1>5, <1>6, <1>7, AppendElements
<1>9. /\ 1 \in DOMAIN task
      /\ \A i \in DOMAIN task : task[i][2] = p /\ task[i][1] \in {op, "changed"}
  BY TasksForProperties
<1>10. (\A o : Sent(o) => Sent(o)') /\ Sent(p)'
  BY <1>8, <1>9 DEF Sent, Queued
<1>11. ASSUME NEW o \in Object, o # p
       PROVE  db'[o] = db[o]
  BY <1>2, <1>3, <1>11 DEF TypeOK
<1>12. db'[p] = row
  BY <1>2, <1>3 DEF TypeOK
<1>13. \A w, o : Told(w, o)' = Told(w, o)
  BY <1>3 DEF Told
<1>14. \A w \in Worker, o \in Object : o # p => WillBeRight(w, o)' = WillBeRight(w, o)
  BY <1>3, <1>11 DEF WillBeRight
<1>15. \A w \in Worker : Keeps(w) => Keeps(w)'
  <2>1. \A o \in Object : Repaired(o) => Repaired(o)'
    BY <1>10, <1>13, <1>14 DEF Repaired
  <2>2. QED
    BY <1>3, <1>13, <2>1 DEF Keeps
<1>16. /\ rx'.pc = rx.pc /\ rx'.purge = rx.purge /\ rx'.rows = rx.rows
       /\ ~rx'.disturbed => ~rx.disturbed /\ (rx.pc \in {"started", "writing"} => rx.held)
  BY <1>2, <1>3, OvertakenProperties DEF TypeOK
<1>17. WrongIsNoticed'
  BY <1>2, <1>3, <1>15, <1>16 DEF WrongIsNoticed
<1>18. DeletedForGood'
  <2>1. ASSUME NEW i \in DOMAIN tasks, NEW j \in DOMAIN tasks[i], tasks[i][j][1] = "deleted"
        PROVE  db'[tasks[i][j][2]] = Absent /\ tasks[i][j][2] \in born'
    <3>1. db[tasks[i][j][2]] = Absent /\ tasks[i][j][2] \in born
      BY <1>2, <2>1 DEF DeletedForGood, ForGood
    <3>2. tasks[i][j][2] # p /\ tasks[i][j][2] \in Object
      BY <1>2, <1>3, <3>1 DEF TypeOK
    <3>3. QED
      BY <1>3, <1>11, <3>1, <3>2
  <2>2. ASSUME NEW j \in DOMAIN task, task[j][1] = "deleted"
        PROVE  db'[task[j][2]] = Absent /\ task[j][2] \in born'
    BY <1>3, <1>4, <1>9, <1>12, <2>2
  <2>3. ASSUME NEW w \in Worker, NEW j \in DOMAIN worker[w].items,
               worker[w].items[j][1] = "deleted"
        PROVE  db'[worker[w].items[j][2]] = Absent /\ worker[w].items[j][2] \in born'
    <3>1. db[worker[w].items[j][2]] = Absent /\ worker[w].items[j][2] \in born
      BY <1>2, <2>3 DEF DeletedForGood, ForGood
    <3>2. worker[w].items[j][2] # p /\ worker[w].items[j][2] \in Object
      BY <1>2, <1>3, <3>1 DEF TypeOK
    <3>3. QED
      BY <1>3, <1>11, <3>1, <3>2
  <2>4. \A i \in DOMAIN tasks' : ForGood(tasks[i])'
    BY <1>8, <2>1, <2>2 DEF ForGood
  <2>5. \A w \in Worker : ForGood(worker[w].items)'
    BY <1>3, <2>3 DEF ForGood
  <2>6. QED
    BY <2>4, <2>5 DEF DeletedForGood
<1>19. \A o : Outstanding(o) => Outstanding(o)'
  BY <1>10, <1>13 DEF Outstanding
<1>20. Outstanding(p)'
  BY <1>10 DEF Outstanding
<1>21. \A o \in Object : o # p => Document(o)' = Document(o)
  BY <1>11 DEF Document
<1>22. WrongIsOutstanding'
  BY <1>2, <1>3, <1>16, <1>19, <1>20, <1>21 DEF WrongIsOutstanding, Midway
<1>23. BatchesAreRight'
  BY <1>2, <1>3, <1>11, <1>16, <1>19, <1>20, <1>21 DEF BatchesAreRight
<1>24. IdleIsFresh'
  BY <1>2, <1>3 DEF IdleIsFresh
<1>25. QED
  BY <1>1, <1>17, <1>18, <1>22, <1>23, <1>24 DEF CatchInv

\* A commit whose task is not sent: the index is not trusted any more.
LEMMA AppCommitUnsentCatch ==
  ASSUME CatchInv, NEW p \in Object, NEW row \in Row, AppCommitUnsent(p, row)
  PROVE  CatchInv'
<1>1. IndInv'
  BY AppCommitUnsentInv DEF CatchInv
<1>2. TypeOK /\ IdleIsFresh /\ DeletedForGood
  BY DEF CatchInv, IndInv
<1>3. /\ UNCHANGED <<tasks, worker, index>>
      /\ db' = [db EXCEPT ![p] = row] /\ born' = born \cup {p}
      /\ db[p] = Absent => p \notin born
      /\ ~trusted'
      /\ rx'.pc = rx.pc
      /\ rx.pc # "not_run" => rx'.disturbed
  BY <1>2 DEF AppCommitUnsent, TypeOK, ReindexState
<1>6. WrongIsNoticed'
  BY <1>3 DEF WrongIsNoticed
<1>7. DeletedForGood'
  <2>1. ASSUME NEW i \in DOMAIN tasks, NEW j \in DOMAIN tasks[i], tasks[i][j][1] = "deleted"
        PROVE  db'[tasks[i][j][2]] = Absent /\ tasks[i][j][2] \in born'
    <3>1. db[tasks[i][j][2]] = Absent /\ tasks[i][j][2] \in born
      BY <1>2, <2>1 DEF DeletedForGood, ForGood
    <3>2. tasks[i][j][2] # p /\ tasks[i][j][2] \in Object
      BY <1>2, <1>3, <3>1 DEF TypeOK
    <3>3. QED
      BY <1>2, <1>3, <3>1, <3>2 DEF TypeOK
  <2>2. ASSUME NEW w \in Worker, NEW j \in DOMAIN worker[w].items,
               worker[w].items[j][1] = "deleted"
        PROVE  db'[worker[w].items[j][2]] = Absent /\ worker[w].items[j][2] \in born'
    <3>1. db[worker[w].items[j][2]] = Absent /\ worker[w].items[j][2] \in born
      BY <1>2, <2>2 DEF DeletedForGood, ForGood
    <3>2. worker[w].items[j][2] # p /\ worker[w].items[j][2] \in Object
      BY <1>2, <1>3, <3>1 DEF TypeOK
    <3>3. QED
      BY <1>2, <1>3, <3>1, <3>2 DEF TypeOK
  <2>3. QED
    BY <1>3, <2>1, <2>2 DEF DeletedForGood, ForGood
<1>8. WrongIsOutstanding' /\ BatchesAreRight'
  BY <1>3 DEF WrongIsOutstanding, BatchesAreRight
<1>9. IdleIsFresh'
  BY <1>2, <1>3 DEF IdleIsFresh
<1>10. QED
  BY <1>1, <1>6, <1>7, <1>8, <1>9 DEF CatchInv

\* A worker takes a task: what it is to tell is what was sent.
LEMMA TakeTaskCatch ==
  ASSUME CatchInv, NEW w \in Worker, TakeTask(w)
  PROVE  CatchInv'
<1>1. IndInv'
  BY TakeTaskInv DEF CatchInv
<1>2. TypeOK /\ IdleIsFresh /\ DeletedForGood /\ WrongIsNoticed
      /\ WrongIsOutstanding /\ BatchesAreRight /\ LockedInOne
  BY DEF CatchInv, IndInv
<1>3. PICK i \in DOMAIN tasks :
        /\ worker' = [worker EXCEPT ![w] =
                [items |-> tasks[i], writer |-> FreshWriter, busy |-> TRUE,
                 held |-> LockFree, late |-> {}]]
        /\ tasks' = RemoveAt(tasks, i)
  BY DEF TakeTask
<1>4. ~worker[w].busy /\ UNCHANGED <<db, born, index, rx, trusted>>
  BY DEF TakeTask
<1>5. \A v \in Worker : v # w => worker'[v] = worker[v]
  BY <1>2, <1>3 DEF TypeOK
<1>6. /\ worker'[w].items = tasks[i] /\ worker'[w].writer = FreshWriter
      /\ worker'[w].busy
  BY <1>2, <1>3 DEF TypeOK
<1>7. /\ \A j \in DOMAIN tasks : j # i =>
            \E k \in DOMAIN tasks' : tasks'[k] = tasks[j]
      /\ \A k \in DOMAIN tasks' : \E j \in DOMAIN tasks : tasks'[k] = tasks[j]
  <2>1. tasks \in Seq(Task)
    BY <1>2 DEF TypeOK
  <2> HIDE DEF Task
  <2>2. QED
    BY <1>3, <2>1, RemoveAtElements
<1>8. \A o : Told(w, o)' <=> Queued(tasks[i], o)
  BY <1>6 DEF Told, FreshWriter, Queued
<1>9. \A o : Sent(o) => Sent(o)' \/ Queued(tasks[i], o)
  BY <1>7 DEF Sent, Queued
<1>10. /\ \A o : ~Told(w, o)
       /\ \A v \in Worker : v # w => \A o : Told(v, o)' = Told(v, o)
  BY <1>2, <1>4, <1>5, IdleTellsNothing DEF Told
<1>11. ForGood(tasks[i])
  BY <1>2 DEF DeletedForGood
<1>12. ASSUME NEW o \in Object, Told(w, o)'
       PROVE  WillBeRight(w, o)'
  <2>1. PICK j \in DOMAIN tasks[i] : tasks[i][j][2] = o
    BY <1>8, <1>12 DEF Queued
  <2>2. worker'[w].writer.adds[o] = <<>>
    BY <1>6 DEF FreshWriter
  <2>3. db[o] = Absent \/ Rewrites(tasks[i], o)
    BY <1>11, <2>1 DEF ForGood, Rewrites
  <2>4. QED
    BY <1>4, <1>6, <2>2, <2>3 DEF WillBeRight, Rewrites
<1>13. \A v \in Worker : Keeps(v) \/ v = w => Keeps(v)'
  <2>1. \A v \in Worker : v # w => \A o : WillBeRight(v, o)' = WillBeRight(v, o)
    BY <1>4, <1>5 DEF WillBeRight
  <2>2. \A o \in Object : Told(w, o)' => Repaired(o)'
    BY <1>12 DEF Repaired
  <2>3. \A o \in Object : Repaired(o) => Repaired(o)'
    BY <1>8, <1>9, <1>10, <2>1, <2>2 DEF Repaired
  <2>4. QED
    BY <1>5, <1>10, <2>2, <2>3 DEF Keeps
<1>14. WrongIsNoticed'
  BY <1>2, <1>4, <1>5, <1>13 DEF WrongIsNoticed
<1>15. DeletedForGood'
  <2>1. \A k \in DOMAIN tasks' : ForGood(tasks[k])'
    BY <1>2, <1>4, <1>7 DEF DeletedForGood, ForGood
  <2>2. \A v \in Worker : ForGood(worker[v].items)'
    BY <1>2, <1>4, <1>5, <1>6, <1>11 DEF DeletedForGood, ForGood
  <2>3. QED
    BY <2>1, <2>2 DEF DeletedForGood
<1>16. \A o : Outstanding(o) => Outstanding(o)'
  BY <1>8, <1>9, <1>10 DEF Outstanding
<1>17. WrongIsOutstanding'
  BY <1>2, <1>4, <1>16 DEF WrongIsOutstanding, Midway, Document
<1>18. BatchesAreRight'
  BY <1>2, <1>4, <1>16 DEF BatchesAreRight, Document
<1>19. IdleIsFresh'
  BY <1>2, <1>5, <1>6 DEF IdleIsFresh
<1>20. QED
  BY <1>1, <1>14, <1>15, <1>17, <1>18, <1>19 DEF CatchInv

\* A turn of the loop tells the writer the row as it is now.
LEMMA ProcessItemCatch ==
  ASSUME CatchInv, NEW w \in Worker, ProcessItem(w)
  PROVE  CatchInv'
<1> DEFINE item == Head(worker[w].items)
           rest == Tail(worker[w].items)
           before == worker[w].writer
           after == Processed(before, item, db)
<1>1. IndInv'
  BY ProcessItemInv DEF CatchInv
<1>2. TypeOK /\ IdleIsFresh /\ DeletedForGood /\ WrongIsNoticed
      /\ WrongIsOutstanding /\ BatchesAreRight
  BY DEF CatchInv, IndInv
<1>3. /\ worker[w] \in WorkerState /\ before \in Writer
      /\ worker[w].items \in Seq(Item) /\ worker[w].items # <<>>
  BY <1>2 DEF ProcessItem, TypeOK, WorkerState, Task
<1>4. UNCHANGED <<db, born, tasks, index, rx, trusted>>
  BY DEF ProcessItem
<1>5. worker' = [worker EXCEPT ![w].writer = after, ![w].items = rest]
  BY DEF ProcessItem
<1>6. item \in Item
  BY <1>3, HeadTailProperties
<1>7. \A o : /\ Queued(worker[w].items, o) <=> (item[2] = o \/ Queued(rest, o))
             /\ Rewrites(worker[w].items, o) <=>
                    ((item[2] = o /\ item[1] # "deleted") \/ Rewrites(rest, o))
             /\ \A i \in DOMAIN rest :
                    \E j \in DOMAIN worker[w].items : rest[i] = worker[w].items[j]
  BY <1>3, TailQueues
<1> HIDE DEF item, rest
<1>8. /\ after.deletes = before.deletes \cup {item[2]}
      /\ \A o \in Object : after.adds[o] =
            IF \/ o # item[2] \/ item[1] = "deleted"
               \/ db[o] = Absent \/ before.adds[o] # <<>>
            THEN before.adds[o] ELSE <<db[o]>>
  <2>1. item[2] \in Object /\ before.adds \in [Object -> Seq(Value)]
    BY <1>3, <1>6 DEF Item, Writer
  <2> HIDE DEF before
  <2>2. QED
    BY <2>1 DEF Processed
<1> HIDE DEF before, after
<1>9. /\ worker'[w].writer = after /\ worker'[w].items = rest
      /\ worker'[w].busy = worker[w].busy /\ worker'[w].held = worker[w].held
      /\ worker'[w].late = worker[w].late
      /\ \A v \in Worker : v # w => worker'[v] = worker[v]
  BY <1>2, <1>3, <1>5 DEF TypeOK, WorkerState
<1>10. \A v \in Worker : \A o : Told(v, o)' <=> Told(v, o)
  <2>1. \A o : Told(w, o)' <=> Told(w, o)
    <3>1. \A o : Told(w, o) <=> (o \in before.deletes \/ Queued(worker[w].items, o))
      BY DEF Told, before
    <3>2. \A o : Told(w, o)' <=> (o \in after.deletes \/ Queued(rest, o))
      BY <1>9 DEF Told, Queued
    <3>3. QED
      BY <1>7, <1>8, <3>1, <3>2
  <2>2. QED
    BY <1>9, <2>1 DEF Told
<1>11. ASSUME NEW v \in Worker, NEW o \in Object, WillBeRight(v, o)
       PROVE  WillBeRight(v, o)'
  <2>1. CASE v # w
    BY <1>4, <1>9, <1>11, <2>1 DEF WillBeRight
  <2>2. CASE v = w
    <3>1. WillBeRight(w, o) <=>
             IF before.adds[o] # <<>> THEN before.adds[o] = <<db[o]>>
             ELSE db[o] = Absent \/ Rewrites(worker[w].items, o)
      BY DEF WillBeRight, before
    <3>2. WillBeRight(w, o)' <=>
             IF after.adds[o] # <<>> THEN after.adds[o] = <<db[o]>>
             ELSE db[o] = Absent \/ Rewrites(rest, o)
      BY <1>4, <1>9 DEF WillBeRight, Rewrites
    <3>3. WillBeRight(w, o)
      BY <1>11, <2>2
    <3>4. WillBeRight(w, o)'
      <4>1. CASE before.adds[o] # <<>>
        BY <1>8, <3>1, <3>2, <3>3, <4>1
      <4>2. CASE before.adds[o] = <<>> /\ db[o] = Absent
        BY <1>8, <3>2, <4>2
      <4>3. CASE /\ before.adds[o] = <<>> /\ db[o] # Absent
                 /\ item[2] = o /\ item[1] # "deleted"
        <5>1. after.adds[o] = <<db[o]>>
          BY <1>8, <4>3
        <5>2. QED
          BY <3>2, <5>1
      <4>4. CASE /\ before.adds[o] = <<>> /\ db[o] # Absent
                 /\ item[2] # o \/ item[1] = "deleted"
        <5>1. Rewrites(worker[w].items, o)
          BY <3>1, <3>3, <4>4
        <5>2. Rewrites(rest, o)
          BY <1>7, <4>4, <5>1
        <5>3. after.adds[o] = <<>>
          BY <1>8, <4>4
        <5>4. QED
          BY <3>2, <5>2, <5>3
      <4>5. QED
        BY <4>1, <4>2, <4>3, <4>4
    <3>5. QED
      BY <2>2, <3>4
  <2>3. QED
    BY <2>1, <2>2
<1>12. \A o : Sent(o)' = Sent(o)
  BY <1>4 DEF Sent
<1>13. \A v \in Worker : Keeps(v) => Keeps(v)'
  <2>1. \A o \in Object : Repaired(o) => Repaired(o)'
    BY <1>10, <1>11, <1>12 DEF Repaired
  <2>2. \A v \in Worker : worker'[v].late = worker[v].late
    BY <1>9
  <2>3. QED
    BY <1>10, <2>1, <2>2 DEF Keeps
<1>14. \A v \in Worker : worker'[v].held = worker[v].held /\ worker'[v].busy = worker[v].busy
  BY <1>9
<1>15. WrongIsNoticed'
  BY <1>2, <1>4, <1>13, <1>14 DEF WrongIsNoticed
<1>16. \A o : Outstanding(o) => Outstanding(o)'
  BY <1>10, <1>12 DEF Outstanding
<1>17. WrongIsOutstanding' /\ BatchesAreRight'
  BY <1>2, <1>4, <1>16 DEF WrongIsOutstanding, BatchesAreRight, Midway, Document
<1>18. DeletedForGood'
  <2>1. \A i \in DOMAIN tasks' : ForGood(tasks[i])'
    BY <1>2, <1>4 DEF DeletedForGood, ForGood
  <2>2. ForGood(rest)
    BY <1>2, <1>7 DEF DeletedForGood, ForGood
  <2>3. \A v \in Worker : ForGood(worker[v].items)'
    BY <1>2, <1>4, <1>9, <2>2 DEF DeletedForGood, ForGood
  <2>4. QED
    BY <2>1, <2>3 DEF DeletedForGood
<1>19. IdleIsFresh'
  <2>1. worker[w].busy
    BY <1>2, <1>3 DEF IdleIsFresh, IdleWorker
  <2>2. QED
    BY <1>2, <1>9, <2>1 DEF IdleIsFresh
<1>20. QED
  BY <1>1, <1>15, <1>17, <1>18, <1>19 DEF CatchInv

(***************************************************************************)
(* A worker commits.  In a trusted index it keeps its word unless it is    *)
(* late: what it was told of is right now, or will be written again.       *)
(***************************************************************************)
LEMMA WriterCommitCatch ==
  ASSUME CatchInv, NEW w \in Worker, WriterCommit(w)
  PROVE  CatchInv'
<1> DEFINE writer == worker[w].writer
<1>1. IndInv'
  BY WriterCommitInv DEF CatchInv
<1>2. TypeOK /\ IdleIsFresh /\ DeletedForGood /\ WrongIsNoticed
      /\ WrongIsOutstanding /\ BatchesAreRight /\ DeletesWhatItAdds(writer)
  BY DEF CatchInv, IndInv
<1>3. /\ index' = Written(index, writer)
      /\ worker' = [v \in Worker |-> IF v = w THEN IdleWorker
                                     ELSE LateOn(writer.deletes, worker[v])]
      /\ rx' = Overtaken(rx)
      /\ worker[w].items = <<>> /\ (worker[w].held \/ LockFree)
      /\ UNCHANGED <<db, born, tasks>>
      /\ trusted' => trusted /\ worker[w].late = {}
  BY DEF WriterCommit
<1>4. writer \in Writer /\ index \in [Object -> Seq(Value)] /\ rx \in ReindexState
  BY <1>2 DEF TypeOK, WorkerState
<1>5. /\ rx'.pc = rx.pc /\ rx'.purge = rx.purge
      /\ ~rx'.disturbed => ~rx.disturbed /\ (rx.pc \in {"started", "writing"} => rx.held)
  BY <1>3, <1>4, OvertakenProperties
<1>6. ~rx.held
  BY <1>2, <1>3 DEF TypeOK, LockFree
<1>7. /\ worker'[w] = IdleWorker
      /\ \A v \in Worker : v # w =>
            /\ worker'[v] = LateOn(writer.deletes, worker[v])
            /\ worker'[v].items = worker[v].items
            /\ worker'[v].writer = worker[v].writer
            /\ worker'[v].busy = worker[v].busy
            /\ worker'[v].held = worker[v].held
            /\ worker'[v].late =
                    worker[v].late \cup (worker[v].writer.deletes \cap writer.deletes)
  BY <1>2, <1>3, LateOnProperties DEF TypeOK
<1>8. IdleIsFresh'
  <2>1. LateOn(writer.deletes, IdleWorker) = IdleWorker
    BY DEF LateOn, IdleWorker, FreshWriter
  <2>2. QED
    BY <1>2, <1>7, <2>1 DEF IdleIsFresh
<1>9. /\ \A o : ~Told(w, o)'
      /\ \A v \in Worker : v # w => \A o : Told(v, o)' = Told(v, o)
      /\ \A o : Sent(o)' = Sent(o)
  BY <1>3, <1>7 DEF Told, Sent, Queued, IdleWorker, FreshWriter
<1>10. \A v \in Worker : v # w => \A o : WillBeRight(v, o)' = WillBeRight(v, o)
  BY <1>3, <1>7 DEF WillBeRight
<1>11. ASSUME NEW v \in Worker, Keeps(v) \/ v = w
       PROVE  Keeps(v)'
  <2>1. SUFFICES ASSUME v # w, NEW o \in Object, Told(v, o)
                 PROVE  Repaired(o)' \/ o \in worker'[v].late
    BY <1>9 DEF Keeps
  <2>2. Repaired(o) \/ o \in worker[v].late
    BY <1>11, <2>1 DEF Keeps
  <2>3. CASE o \in worker[v].late
    BY <1>7, <2>1, <2>3
  <2>4. CASE Sent(o)
    BY <1>9, <2>4 DEF Repaired
  <2>5. CASE \E u \in Worker : u # w /\ Told(u, o) /\ WillBeRight(u, o)
    BY <1>9, <1>10, <2>5 DEF Repaired
  <2>6. CASE Told(w, o) /\ o \in worker[v].writer.deletes
    <3>1. o \in writer.deletes
      BY <1>3, <2>6 DEF Told, Queued
    <3>2. QED
      BY <1>7, <2>1, <2>6, <3>1
  <2>7. CASE o \notin worker[v].writer.deletes
    <3>1. WillBeRight(v, o)
      BY <1>2, <2>1, <2>7, QueuedIsRight DEF CatchInv
    <3>2. QED
      BY <1>9, <1>10, <2>1, <3>1 DEF Repaired
  <2>8. QED
    BY <2>2, <2>3, <2>4, <2>5, <2>6, <2>7 DEF Repaired
<1>12. WrongIsNoticed'
  <2>1. rx.disturbed => rx'.disturbed
    BY <1>5
  <2>2. QED
    BY <1>2, <1>3, <1>5, <1>7, <1>11, <2>1 DEF WrongIsNoticed
<1>14. DeletedForGood'
  <2>1. \A i \in DOMAIN tasks' : ForGood(tasks[i])'
    BY <1>2, <1>3 DEF DeletedForGood, ForGood
  <2>2. DOMAIN worker'[w].items = {}
    BY <1>7 DEF IdleWorker
  <2>3. \A v \in Worker : ForGood(worker[v].items)'
    BY <1>2, <1>3, <1>7, <2>2 DEF DeletedForGood, ForGood
  <2>4. QED
    BY <2>1, <2>3 DEF DeletedForGood
<1>15. ASSUME trusted, worker[w].late = {}, ~Midway, NEW o \in Object
       PROVE  index'[o] = Document(o) \/ Outstanding(o)'
  <2>1. Told(w, o) <=> o \in writer.deletes
    BY <1>3 DEF Told, Queued
  <2>2. writer.adds[o] \in Seq(Value)
    BY <1>4 DEF Writer
  <2>3. CASE Told(w, o)
    <3>1. index'[o] = writer.adds[o]
      BY <1>3, <1>4, <2>1, <2>3, WrittenDocuments
    <3>2. Repaired(o)
      BY <1>2, <1>15, <2>3 DEF WrongIsNoticed, Keeps
    <3>3. CASE Sent(o) \/ \E v \in Worker : v # w /\ Told(v, o)
      BY <1>9, <3>3 DEF Outstanding
    <3>4. CASE WillBeRight(w, o)
      <4>1. ~Rewrites(worker[w].items, o)
        BY <1>3 DEF Rewrites
      <4>2. CASE writer.adds[o] # <<>>
        <5>1. writer.adds[o] = <<db[o]>>
          BY <3>4, <4>2 DEF WillBeRight
        <5>2. db[o] # Absent
          BY <2>2, <5>1, AbsentAssumption
        <5>3. QED
          BY <3>1, <5>1, <5>2 DEF Document
      <4>3. CASE writer.adds[o] = <<>>
        BY <3>1, <3>4, <4>1, <4>3 DEF WillBeRight, Document
      <4>4. QED
        BY <4>2, <4>3
    <3>5. QED
      BY <3>2, <3>3, <3>4 DEF Repaired
  <2>4. CASE ~Told(w, o)
    <3>1. index'[o] = index[o]
      <4>1. writer.adds[o] = <<>> /\ o \notin writer.deletes
        BY <1>2, <2>1, <2>4 DEF DeletesWhatItAdds
      <4>2. QED
        BY <1>3, <1>4, <4>1, WrittenDocuments
    <3>2. index[o] = Document(o) \/ Outstanding(o)
      BY <1>2, <1>15 DEF WrongIsOutstanding
    <3>3. Outstanding(o) => Outstanding(o)'
      BY <1>9, <2>4 DEF Outstanding
    <3>4. QED
      BY <3>1, <3>2, <3>3
  <2>5. QED
    BY <2>3, <2>4
<1>16. WrongIsOutstanding'
  BY <1>3, <1>5, <1>15 DEF WrongIsOutstanding, Midway, Document
<1>17. BatchesAreRight'
  BY <1>5, <1>6 DEF BatchesAreRight
<1>18. QED
  BY <1>1, <1>8, <1>12, <1>14, <1>16, <1>17 DEF CatchInv

\* A task dies: the index is not trusted any more, and a reindexing disturbed.
LEMMA DieCatch ==
  ASSUME CatchInv, NEW w \in Worker, Die(w)
  PROVE  CatchInv'
<1>1. IndInv'
  BY DieInv DEF CatchInv
<1>2. TypeOK /\ IdleIsFresh /\ DeletedForGood /\ WrongIsNoticed
  BY DEF CatchInv, IndInv
<1>3. /\ worker' = [worker EXCEPT ![w] = IdleWorker]
      /\ UNCHANGED <<db, born, tasks, index>>
      /\ ~trusted' /\ rx'.pc = rx.pc
      /\ rx.disturbed \/ rx.pc # "not_run" => rx'.disturbed
  BY <1>2 DEF Die, TypeOK, ReindexState
<1>4. worker'[w] = IdleWorker /\ \A v \in Worker : v # w => worker'[v] = worker[v]
  BY <1>2, <1>3 DEF TypeOK
<1>8. WrongIsNoticed'
  BY <1>3 DEF WrongIsNoticed
<1>9. IdleIsFresh'
  BY <1>2, <1>4 DEF IdleIsFresh
<1>10. DeletedForGood'
  <2>1. \A i \in DOMAIN tasks' : ForGood(tasks[i])'
    BY <1>2, <1>3 DEF DeletedForGood, ForGood
  <2>2. DOMAIN worker'[w].items = {}
    BY <1>4 DEF IdleWorker
  <2>3. \A v \in Worker : ForGood(worker[v].items)'
    BY <1>2, <1>3, <1>4, <2>2 DEF DeletedForGood, ForGood
  <2>4. QED
    BY <2>1, <2>3 DEF DeletedForGood
<1>11. WrongIsOutstanding' /\ BatchesAreRight'
  BY <1>3 DEF WrongIsOutstanding, BatchesAreRight
<1>12. QED
  BY <1>1, <1>8, <1>9, <1>10, <1>11 DEF CatchInv

(***************************************************************************)
(* A reindexing begins: a worker that waits for the lock is late from now  *)
(* on, one that has it goes first.  A progressive one is midway if it has  *)
(* emptied the index, otherwise nothing is replaced yet.                   *)
(***************************************************************************)
LEMMA ReindexBegins ==
  ASSUME CatchInv, IndInv', worker' = Waiting,
         UNCHANGED <<db, born, tasks, trusted>>,
         rx.pc = "not_run", rx'.pc = "started", rx'.disturbed = rx.disturbed,
         ~rx'.purge \/ index' = index
  PROVE  CatchInv'
<1>1. TypeOK /\ IdleIsFresh /\ DeletedForGood /\ WrongIsNoticed
      /\ WrongIsOutstanding /\ IndInv
  BY DEF CatchInv, IndInv
<1>2. \A w \in Worker :
        /\ worker'[w].items = worker[w].items /\ worker'[w].writer = worker[w].writer
        /\ worker'[w].busy = worker[w].busy /\ worker'[w].held = worker[w].held
        /\ worker[w].held \/ worker'[w].late =
                worker[w].late \cup (worker[w].writer.deletes \cap Object)
        /\ worker[w].late \subseteq worker'[w].late
  BY <1>1, WaitingProperties DEF TypeOK
<1>3. /\ \A w \in Worker : \A o : /\ Told(w, o)' = Told(w, o)
                                   /\ WillBeRight(w, o)' = WillBeRight(w, o)
      /\ \A o : Sent(o)' = Sent(o)
  BY <1>2 DEF Told, WillBeRight, Sent
<1>4. ASSUME NEW w \in Worker, Keeps(w) \/ ~worker[w].held
      PROVE  Keeps(w)'
  <2>1. SUFFICES ASSUME NEW o \in Object, Told(w, o)
                 PROVE  Repaired(o) \/ o \in worker'[w].late
    BY <1>3 DEF Keeps, Repaired
  <2>2. CASE Keeps(w)
    BY <1>2, <2>1, <2>2 DEF Keeps
  <2>3. CASE ~worker[w].held /\ o \in worker[w].writer.deletes
    BY <1>2, <2>3
  <2>4. CASE o \notin worker[w].writer.deletes
    <3>1. WillBeRight(w, o)
      BY <1>1, <2>1, <2>4, QueuedIsRight
    <3>2. QED
      BY <2>1, <3>1 DEF Repaired
  <2>5. QED
    BY <1>4, <2>2, <2>3, <2>4
<1>5. WrongIsNoticed'
  BY <1>1, <1>2, <1>4 DEF WrongIsNoticed
<1>6. \A o : Outstanding(o)' = Outstanding(o)
  BY <1>3 DEF Outstanding
<1>7. WrongIsOutstanding'
  BY <1>1, <1>6 DEF WrongIsOutstanding, Midway, Document
<1>8. DeletedForGood' /\ BatchesAreRight'
  BY <1>1, <1>2 DEF DeletedForGood, ForGood, BatchesAreRight
<1>9. IdleIsFresh'
  <2>1. LateOn(Object, IdleWorker) = IdleWorker
    BY DEF LateOn, IdleWorker, FreshWriter
  <2>2. QED
    BY <1>1, <1>2, <2>1 DEF IdleIsFresh, Waiting
<1>10. QED
  BY <1>5, <1>7, <1>8, <1>9 DEF CatchInv

LEMMA ReindexInOneCatch ==
  ASSUME CatchInv, NEW clear \in BOOLEAN, ReindexInOne(clear)
  PROVE  CatchInv'
<1>1. IndInv' /\ TypeOK
  BY ReindexInOneInv DEF CatchInv, IndInv
<1>2. /\ UNCHANGED <<db, born, tasks, index, trusted>> /\ worker' = Waiting
      /\ rx.pc = "not_run" /\ rx'.pc = "started"
      /\ rx'.disturbed = rx.disturbed
  BY <1>1 DEF ReindexInOne, TypeOK, ReindexState
<1>3. QED
  BY <1>1, <1>2, ReindexBegins

LEMMA ReindexProgressivelyCatch ==
  ASSUME CatchInv, NEW clear \in BOOLEAN, NEW batch \in BatchSizes,
         ReindexProgressively(clear, batch)
  PROVE  CatchInv'
<1>1. IndInv' /\ TypeOK
  BY ReindexProgressivelyInv DEF CatchInv, IndInv
<1>2. /\ UNCHANGED <<db, born, tasks, trusted>> /\ worker' = Waiting
      /\ rx.pc = "not_run" /\ rx'.pc = "started" /\ rx'.purge = ~clear
      /\ rx'.disturbed = rx.disturbed
      /\ clear \/ index' = index
  BY <1>1 DEF ReindexProgressively, TypeOK, ReindexState
<1>3. QED
  BY <1>1, <1>2, ReindexBegins

(***************************************************************************)
(* The rows are read.  If there are none and the reindexing stops, an      *)
(* emptied index is right, and another is as it was.                       *)
(***************************************************************************)
LEMMA SelectCatch ==
  ASSUME CatchInv, Select
  PROVE  CatchInv'
<1>1. IndInv'
  BY SelectInv DEF CatchInv
<1>2. TypeOK /\ IdleIsFresh /\ DeletedForGood /\ WrongIsNoticed
      /\ WrongIsOutstanding /\ (~rx.disturbed => RoomForTheRest)
  BY DEF CatchInv, IndInv
<1>3. rx.pc = "started" /\ UNCHANGED <<db, born, tasks, worker, index>>
  BY DEF Select
<1>4. /\ rx'.purge = rx.purge /\ rx'.disturbed = rx.disturbed
      /\ trusted' => trusted
      /\ rx'.pc \in {"writing", "done"}
      /\ rx'.pc = "done" => db = NoRows /\ (trusted' => ~rx.disturbed)
      /\ rx'.pc = "writing" => rx'.rows = db
  BY <1>2 DEF Select, TypeOK, ReindexState
<1>5. WrongIsNoticed'
  <2>1. \A w \in Worker : Keeps(w)' = Keeps(w)
    BY <1>3 DEF Keeps, Repaired, Told, Sent, WillBeRight
  <2>2. QED
    BY <1>2, <1>3, <1>4, <2>1 DEF WrongIsNoticed
<1>6. IdleIsFresh' /\ DeletedForGood'
  BY <1>2, <1>3 DEF IdleIsFresh, DeletedForGood, ForGood
<1>7. \A o : Outstanding(o)' = Outstanding(o)
  BY <1>3 DEF Outstanding, Told, Sent
<1>8. \A o : Document(o)' = Document(o)
  BY <1>3 DEF Document
<1>9. ASSUME NEW o \in Object, ~rx.disturbed, ~rx.purge
      PROVE  index[o] = <<>>
  BY <1>2, <1>3, <1>9 DEF RoomForTheRest
<1>10. WrongIsOutstanding'
  <2>1. SUFFICES ASSUME trusted', rx'.pc = "done" \/ rx.purge, NEW o \in Object
                 PROVE  index[o] = Document(o) \/ Outstanding(o)
    BY <1>3, <1>4, <1>7, <1>8 DEF WrongIsOutstanding, Midway
  <2>2. CASE rx.purge
    BY <1>2, <1>4, <2>1, <2>2 DEF WrongIsOutstanding, Midway
  <2>3. CASE ~rx.purge
    <3>1. index[o] = <<>> /\ db[o] = Absent
      BY <1>4, <1>9, <2>1, <2>3 DEF NoRows
    <3>2. QED
      BY <3>1 DEF Document
  <2>4. QED
    BY <2>2, <2>3
<1>11. BatchesAreRight'
  <2>1. SUFFICES ASSUME ~rx.disturbed, ~rx.purge, NEW o \in Object, db[o] = Absent
                 PROVE  index[o] = Document(o)
    BY <1>3, <1>4, <1>8 DEF BatchesAreRight
  <2>2. QED
    BY <1>9, <2>1 DEF Document
<1>12. QED
  BY <1>1, <1>5, <1>6, <1>10, <1>11 DEF CatchInv

(***************************************************************************)
(* A batch is written.  After the last one of a reindexing that nothing    *)
(* disturbed the index is trusted, and no worker is wrong about a row: it  *)
(* would have the lock, and keep the reindexing waiting.                   *)
(***************************************************************************)
LEMMA WriteBatchCatch ==
  ASSUME CatchInv, WriteBatch
  PROVE  CatchInv'
<1>1. IndInv'
  BY WriteBatchInv DEF CatchInv
<1>2. TypeOK /\ IdleIsFresh /\ DeletedForGood /\ WrongIsNoticed
      /\ BatchesAreRight /\ (~rx.disturbed => RoomForTheRest)
  BY DEF CatchInv, IndInv
<1>3. rx \in ReindexState /\ index \in [Object -> Seq(Value)] /\ db \in [Object -> Row]
  BY <1>2 DEF TypeOK
<1>4. /\ rx.pc = "writing" /\ (rx.held \/ LockFree)
      /\ UNCHANGED <<db, born, tasks, worker>>
  BY DEF WriteBatch
<1>5. PICK objects \in Batches :
        /\ index' = Written(index, BatchOf(objects))
        /\ IF objects = Unwritten
           THEN /\ rx' = [rx EXCEPT !.pc = "done", !.rows = NoRows,
                                    !.held = FALSE, !.purge = FALSE]
                /\ trusted' = ~rx.disturbed
           ELSE /\ rx' = [rx EXCEPT !.purge = FALSE, !.rows =
                        [o \in Object |-> IF o \in objects THEN Absent
                                                           ELSE rx.rows[o]]]
                /\ trusted' = trusted
  BY DEF WriteBatch
<1>6. /\ rx'.disturbed = rx.disturbed /\ rx'.pc # "not_run" /\ ~rx'.purge
      /\ objects = Unwritten => rx'.pc = "done" /\ (trusted' => ~rx.disturbed)
      /\ objects # Unwritten =>
            /\ rx'.pc = "writing" /\ trusted' = trusted
            /\ \A o \in Object : rx'.rows[o] = IF o \in objects THEN Absent
                                                               ELSE rx.rows[o]
  <2>1. CASE objects = Unwritten
    <3>1. /\ rx' = [rx EXCEPT !.pc = "done", !.rows = NoRows,
                              !.held = FALSE, !.purge = FALSE]
          /\ trusted' = ~rx.disturbed
      BY <1>5, <2>1
    <3>2. rx'.disturbed = rx.disturbed /\ rx'.pc = "done" /\ ~rx'.purge
      BY <1>3, <3>1 DEF ReindexState
    <3>3. QED
      BY <2>1, <3>1, <3>2
  <2>2. CASE objects # Unwritten
    <3>1. /\ rx' = [rx EXCEPT !.purge = FALSE, !.rows =
                        [o \in Object |-> IF o \in objects THEN Absent
                                                           ELSE rx.rows[o]]]
          /\ trusted' = trusted
      BY <1>5, <2>2
    <3>2. /\ rx'.disturbed = rx.disturbed /\ rx'.pc = rx.pc /\ ~rx'.purge
          /\ rx'.rows = [o \in Object |-> IF o \in objects THEN Absent
                                                           ELSE rx.rows[o]]
      BY <1>3, <3>1 DEF ReindexState
    <3>3. QED
      BY <1>4, <2>2, <3>1, <3>2
  <2>3. QED
    BY <2>1, <2>2
<1>7. /\ objects \subseteq Unwritten /\ BatchOf(objects) \in Writer
      /\ BatchOf(objects).deletes = IF rx.purge THEN Object ELSE {}
      /\ \A o \in Object : BatchOf(objects).adds[o] =
            IF o \in objects THEN <<rx.rows[o]>> ELSE <<>>
  <2>1. objects \subseteq Unwritten /\ BatchOf(objects) \in Writer
        /\ BatchOf(objects).deletes = IF rx.purge THEN Object ELSE {}
    BY <1>3, BatchProperties
  <2>2. QED
    BY <2>1 DEF BatchOf
<1>8. ASSUME ~rx.disturbed, NEW o \in Object
      PROVE  index'[o] = IF o \in objects THEN <<rx.rows[o]>>
                         ELSE IF rx.purge THEN <<>> ELSE index[o]
  <2>1. CASE rx.purge
    BY <1>3, <1>5, <1>7, <2>1, WrittenDocuments
  <2>2. CASE ~rx.purge /\ o \in objects
    <3>1. index[o] = <<>>
      BY <1>2, <1>4, <1>7, <1>8, <2>2 DEF RoomForTheRest, Unwritten
    <3>2. QED
      BY <1>3, <1>5, <1>7, <2>2, <3>1, WrittenDocuments
  <2>3. CASE ~rx.purge /\ o \notin objects
    BY <1>3, <1>5, <1>7, <2>3, WrittenDocuments
  <2>4. QED
    BY <2>1, <2>2, <2>3
<1>9. /\ \A o : Outstanding(o)' = Outstanding(o)
      /\ \A o : Document(o)' = Document(o)
      /\ \A w \in Worker : Keeps(w)' = Keeps(w)
  BY <1>4 DEF Outstanding, Document, Keeps, Repaired, Told, Sent, WillBeRight
<1>10. ASSUME ~rx.disturbed, NEW o \in Object, o \in objects \/ rx.rows[o] = Absent
       PROVE  Outstanding(o) \/ index'[o] = Document(o)
  <2>1. \/ Outstanding(o)
        \/ IF rx.purge \/ rx.rows[o] # Absent THEN rx.rows[o] = db[o]
                                              ELSE index[o] = Document(o)
    BY <1>2, <1>4, <1>10 DEF BatchesAreRight
  <2>2. CASE o \in objects
    BY <1>7, <1>8, <1>10, <2>1, <2>2 DEF Unwritten, Document
  <2>3. CASE o \notin objects
    BY <1>8, <1>10, <2>1, <2>3 DEF Document
  <2>4. QED
    BY <2>2, <2>3
<1>11. WrongIsOutstanding'
  <2>1. SUFFICES ASSUME trusted', objects = Unwritten, NEW o \in Object
                 PROVE  index'[o] = Document(o) \/ Outstanding(o)
    BY <1>6, <1>9 DEF WrongIsOutstanding, Midway
  <2>2. ~rx.disturbed
    BY <1>6, <2>1
  <2>3. o \in objects \/ rx.rows[o] = Absent
    BY <2>1 DEF Unwritten
  <2>4. QED
    BY <1>10, <2>2, <2>3
<1>12. BatchesAreRight'
  <2>1. SUFFICES ASSUME ~rx.disturbed, objects # Unwritten, NEW o \in Object, ~Outstanding(o)
                 PROVE  IF rx'.rows[o] # Absent THEN rx'.rows[o] = db[o]
                                                ELSE index'[o] = Document(o)
    BY <1>4, <1>6, <1>9 DEF BatchesAreRight
  <2>2. rx'.rows[o] = IF o \in objects THEN Absent ELSE rx.rows[o]
    BY <1>6, <2>1
  <2>3. CASE o \in objects \/ rx.rows[o] = Absent
    BY <1>10, <2>1, <2>2, <2>3
  <2>4. CASE o \notin objects /\ rx.rows[o] # Absent
    BY <1>2, <1>4, <2>1, <2>2, <2>4 DEF BatchesAreRight
  <2>5. QED
    BY <2>3, <2>4
<1>13. WrongIsNoticed'
  <2>1. ASSUME NEW w \in Worker, ~Keeps(w)
        PROVE  ~trusted' /\ (worker[w].held \/ rx.disturbed)
    <3>1. ~trusted /\ (worker[w].held \/ rx.disturbed)
      BY <1>2, <1>4, <2>1 DEF WrongIsNoticed
    <3>2. ~worker[w].held
      BY <1>2, <1>4 DEF TypeOK, LockFree
    <3>3. rx.disturbed
      BY <3>1, <3>2
    <3>4. ~trusted'
      BY <1>6, <3>1, <3>3
    <3>5. QED
      BY <3>3, <3>4
  <2>2. QED
    BY <1>4, <1>6, <1>9, <2>1 DEF WrongIsNoticed
<1>14. IdleIsFresh' /\ DeletedForGood'
  BY <1>2, <1>4 DEF IdleIsFresh, DeletedForGood, ForGood
<1>15. QED
  BY <1>1, <1>11, <1>12, <1>13, <1>14 DEF CatchInv

\* Every step keeps what the index needs to catch up.
LEMMA StepCatch ==
  ASSUME CatchInv, [Next]_vars
  PROVE  CatchInv'
<1>1. ASSUME NEW o \in Object, NEW row \in Row,
             AppCommit(o, row) \/ AppCommitUnsent(o, row)
      PROVE  CatchInv'
  BY <1>1, AppCommitCatch, AppCommitUnsentCatch
<1>2. ASSUME NEW w \in Worker,
             TakeTask(w) \/ ProcessItem(w) \/ WriterCommit(w) \/ Die(w)
      PROVE  CatchInv'
  BY <1>2, TakeTaskCatch, ProcessItemCatch, WriterCommitCatch, DieCatch
<1>3. ASSUME NEW clear \in BOOLEAN, ReindexInOne(clear) PROVE CatchInv'
  BY <1>3, ReindexInOneCatch
<1>4. ASSUME NEW clear \in BOOLEAN, NEW batch \in BatchSizes,
             ReindexProgressively(clear, batch)
      PROVE  CatchInv'
  BY <1>4, ReindexProgressivelyCatch
<1>5. CASE Select
  BY <1>5, SelectCatch
<1>6. CASE WriteBatch
  BY <1>6, WriteBatchCatch
<1>7. CASE UNCHANGED vars
  <2>1. IndInv'
    BY <1>7, StepInv DEF CatchInv
  <2>2. IdleIsFresh' /\ DeletedForGood'
    BY <1>7 DEF vars, CatchInv, IdleIsFresh, DeletedForGood, ForGood
  <2>3. WrongIsNoticed'
    BY <1>7 DEF vars, CatchInv, WrongIsNoticed, Keeps, Repaired, Told, Sent, WillBeRight
  <2>4. WrongIsOutstanding'
    BY <1>7 DEF vars, CatchInv, WrongIsOutstanding, Midway, Document, Outstanding,
                Told, Sent
  <2>5. BatchesAreRight'
    BY <1>7 DEF vars, CatchInv, BatchesAreRight, Document, Outstanding, Told, Sent
  <2>6. QED
    BY <2>1, <2>2, <2>3, <2>4, <2>5 DEF CatchInv
<1>8. QED
  BY <1>1, <1>2, <1>3, <1>4, <1>5, <1>6, <1>7 DEF Next

(***************************************************************************)
(* When everything is quiet a trusted index says what the rows say, for    *)
(* any number of workers: whatever rows a task reads after the commit that *)
(* sent it, in whatever order tasks come, and although a reindexing runs   *)
(* meanwhile.  What makes an index one not to be trusted is a task that    *)
(* was lost, or a worker that wrote what it had read before another wrote  *)
(* the same object.                                                        *)
(***************************************************************************)
THEOREM CatchesUp == Spec => []IndexCatchesUp
<1>1. CatchInv => IndexCatchesUp
  <2>1. SUFFICES ASSUME CatchInv, Quiet, trusted
                 PROVE  index = IndexOf(db)
    BY DEF IndexCatchesUp
  <2>2. IdleIsFresh /\ WrongIsOutstanding /\ TypeOK
    BY <2>1 DEF CatchInv, IndInv
  <2>3. \A w \in Worker : \A o : ~Told(w, o)
    BY <2>1, <2>2, IdleTellsNothing DEF Quiet
  <2>4. \A o : ~Outstanding(o)
    BY <2>1, <2>3 DEF Quiet, Outstanding, Sent
  <2>5. \A o \in Object : index[o] = Document(o)
    BY <2>1, <2>2, <2>4 DEF WrongIsOutstanding, Midway, Quiet
  <2>6. index = [o \in Object |-> index[o]]
    BY <2>2 DEF TypeOK
  <2>7. QED
    BY <2>5, <2>6 DEF IndexOf, Document
<1>2. CatchInv /\ [Next]_vars => CatchInv'
  BY StepCatch
<1>3. QED
  BY <1>1, <1>2, InitCatch, PTL DEF Spec
================================================================================
