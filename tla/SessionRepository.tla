--------------------------- MODULE SessionRepository ---------------------------
(***************************************************************************)
(* The session-aware repository of services/repository/service.py: files   *)
(* of blobs follow the database transactions of SQLAlchemy sessions.       *)
(*                                                                         *)
(* A session owns a stack of SessionTransactions (the root, savepoints     *)
(* and subtransactions).  The repository listens to the session's events   *)
(* and keeps one RepositoryTransaction per SessionTransaction.  An action  *)
(* below is one call of the session up to the next event, or one event     *)
(* handler.  What SQLAlchemy 1.3 does between two events is modelled from  *)
(* how the handlers depend on it.                                          *)
(*                                                                         *)
(* The database is modelled by what it says of each blob: `want` is the    *)
(* content the session's open transaction gives a blob, `db` the content   *)
(* the committed rows give it.  Row locks are not modelled: they only      *)
(* order the flushes of two sessions before their commits, and those       *)
(* steps touch state private to a session.                                 *)
(***************************************************************************)
EXTENDS RepositoryTransaction

CONSTANTS
    Session,    \* sessions, each used by one thread
    Torn,       \* a file opened for writing and not yet written
    MaxDepth,   \* bound: SessionTransactions open in a session
    Faults      \* which of FaultKinds may happen

(***************************************************************************)
(* rollback_staged: a subtransaction is rolled back, by a failing flush or *)
(*                  by its user, while an enclosing transaction stages     *)
(*                  files.                                                 *)
(* close_staged:    a session is closed (scoped_session.remove() at the    *)
(*                  end of a request) while its transactions stage files.  *)
(* io_error:        unlink, open or write fails in _commit_repository, on  *)
(*                  the commit of a session.                               *)
(* io_error_at_end: the same, when the transaction ends without having     *)
(*                  been cleared: SQLAlchemy has closed it already.        *)
(* crash:           the process of a session dies.                         *)
(***************************************************************************)
FaultKinds ==
    {"rollback_staged", "close_staged", "io_error", "io_error_at_end", "crash"}

ASSUME ConstantsAssumption ==
    /\ Torn \notin Content \cup {Absent, NullMark}
    /\ NullMark \notin UUID
    /\ MaxDepth \in Nat \ {0}
    /\ Faults \subseteq FaultKinds

VARIABLES
    files,      \* RepositoryService: the files on disk
    db,         \* what the committed rows say each blob's content is
    past,       \* history: the contents db ever gave each blob
    sa,         \* per session: its stack of SessionTransactions
    want,       \* per session: what its open transaction says of each blob
    doomed,     \* per session: blobs in session.deleted, not flushed
    rt,         \* per session: its chain of RepositoryTransactions
    pc,         \* per session: the event it is about to handle
    publish     \* per session: progress of _commit_repository

vars == <<files, db, past, sa, want, doomed, rt, pc, publish>>
dbVars == <<db, past>>

Wish == Cell \cup {NullMark}
NoWish == [u \in UUID |-> NullMark]

SessionTransactions ==
    [kind : {"root", "nested", "sub"},
     state : {"ACTIVE", "DEACTIVE", "COMMITTED"},
     saved : [UUID -> Wish]]     \* `want` when the savepoint was set

Frame(kind, saved) == [kind |-> kind, state |-> "ACTIVE", saved |-> saved]

(***************************************************************************)
(* What _commit_repository has left to do; `open` is the file being        *)
(* written: one still to be written, opened once every delete is done.     *)
(***************************************************************************)
Publication ==
    {p \in [deleted : SUBSET UUID, set : SUBSET UUID, open : UUID \cup {NullMark}] :
        p.open # NullMark => p.open \in p.set /\ p.deleted = {}}

NoPublication == [deleted |-> {}, set |-> {}, open |-> NullMark]

\* What a session is about to do; "publishing" again is "republishing".
Events == {"idle", "flushing", "ending", "closing", "publishing", "failed",
           "republishing", "broken"}

TypeOK ==
    /\ files \in [UUID -> Cell \cup {Torn}]
    /\ db \in [UUID -> Cell]
    /\ past \in [UUID -> SUBSET Cell]
    /\ sa \in [Session -> Seq(SessionTransactions)]
    /\ want \in [Session -> [UUID -> Wish]]
    /\ doomed \in [Session -> SUBSET UUID]
    /\ rt \in [Session -> Seq(RepositoryTransactions)]
    /\ pc \in [Session -> Events]
    /\ publish \in [Session -> Publication]

--------------------------------------------------------------------------------

Top(s) == Last(sa[s])
Idle(s) == pc[s] = "idle"
Usable(s) == Idle(s) /\ Top(s).state = "ACTIVE"

Publishing(s) == pc[s] \in {"publishing", "republishing"}

\* SessionTransaction._iterate_parents up to the nearest root or savepoint.
Boundary(s) ==
    CHOOSE i \in DOMAIN sa[s] :
        /\ sa[s][i].kind # "sub"
        /\ \A j \in DOMAIN sa[s] : j > i => sa[s][j].kind = "sub"

\* SessionRepositoryService.get
Get(s, u) ==
    IF Lookup(rt[s], u) = NullMark THEN files[u] ELSE Lookup(rt[s], u)

Init ==
    /\ files \in [UUID -> Cell]
    /\ db = files
    /\ past = [u \in UUID |-> {db[u]}]
    /\ sa = [s \in Session |-> <<Frame("root", NoWish)>>]
    /\ want = [s \in Session |-> NoWish]
    /\ doomed = [s \in Session |-> {}]
    /\ rt = [s \in Session |-> <<NewTransaction>>]
    /\ pc = [s \in Session |-> "idle"]
    /\ publish = [s \in Session |-> NoPublication]

--------------------------------------------------------------------------------
(***************************************************************************)
(* Slips this code could have had.  No action uses them: each is put in    *)
(* the place of the definition it is a variant of, to see that a property  *)
(* notices.                                                                *)
(***************************************************************************)

\* after_rollback without a listener.
ClearTopForgotten(s) == UNCHANGED rt

\* end_transaction that leaves committing to the "commit" events.
EndInnerWithoutCommit(s) ==
    /\ pc[s] \in {"ending", "closing"}
    /\ Len(sa[s]) > 1
    /\ sa' = [sa EXCEPT ![s] = Front(sa[s])]
    /\ rt' = [rt EXCEPT ![s] = Front(rt[s])]
    /\ pc' = [pc EXCEPT ![s] = IF @ = "ending" THEN "idle" ELSE @]
    /\ UNCHANGED <<files, dbVars, want, doomed, publish>>

\* end_transaction with set_transaction inside `if not tr.cleared`.
EndInnerKeepingCleared(s) ==
    /\ pc[s] \in {"ending", "closing"}
    /\ Len(sa[s]) > 1
    /\ sa' = [sa EXCEPT ![s] = Front(sa[s])]
    /\ rt' = [rt EXCEPT ![s] =
                IF Last(rt[s]).cleared THEN rt[s]
                                       ELSE Front(CommittedToParent(rt[s]))]
    /\ pc' = [pc EXCEPT ![s] = IF @ = "ending" THEN "idle" ELSE @]
    /\ UNCHANGED <<files, dbVars, want, doomed, publish>>

\* flush that writes to the repository at once.
FlushPublishes(s) ==
    /\ pc[s] = "flushing"
    /\ doomed[s] = {}
    /\ pc' = [pc EXCEPT ![s] = "publishing"]
    /\ publish' = [publish EXCEPT ![s].deleted = Last(rt[s]).deleted]
    /\ UNCHANGED <<files, dbVars, sa, want, doomed, rt>>

\* _commit_repository that does not see a file's writing to its end.
PublishWriteLeavingOpen(s) ==
    /\ Publishing(s)
    /\ publish[s].open # NullMark
    /\ LET u == publish[s].open
       IN  /\ files' = [files EXCEPT ![u] = rt[s][1].dir[u]]
           /\ publish' = [publish EXCEPT ![s].set = @ \ {u}]
    /\ UNCHANGED <<dbVars, sa, want, doomed, rt, pc>>

\* An error in _commit_repository that is swallowed: the rest is forgotten.
PublishFailsSilently(s) ==
    /\ "io_error" \in Faults
    /\ Publishing(s)
    /\ publish[s] # NoPublication
    /\ publish' = [publish EXCEPT ![s] = NoPublication]
    /\ UNCHANGED <<files, dbVars, sa, want, doomed, rt, pc>>

--------------------------------------------------------------------------------
(* The handlers of the session's events.                                   *)

\* create_transaction: a new transaction whose parent is the current one.
CreateTransaction(s) ==
    rt' = [rt EXCEPT ![s] = Append(@, NewTransaction)]

\* commit, of a transaction that has a parent.
MergeTop(s) ==
    rt' = [rt EXCEPT ![s] = CommittedToParent(rt[s])]

\* rollback: clears the current transaction, and no other.
ClearTop(s) ==
    rt' = [rt EXCEPT ![s][Len(rt[s])] = ClearedTransaction]

(***************************************************************************)
(* end_transaction, after SessionTransaction.close() of the innermost      *)
(* transaction.  A transaction that neither committed nor rolled back is   *)
(* committed here: "root and nested transactions emit commit, but          *)
(* subtransactions don't".                                                 *)
(***************************************************************************)
EndInner(s) ==
    /\ pc[s] \in {"ending", "closing"}
    /\ Len(sa[s]) > 1
    /\ sa' = [sa EXCEPT ![s] = Front(sa[s])]
    /\ rt' = [rt EXCEPT ![s] =
                IF Last(rt[s]).cleared THEN Front(rt[s])
                                       ELSE Front(CommittedToParent(rt[s]))]
    /\ pc' = [pc EXCEPT ![s] = IF @ = "ending" THEN "idle" ELSE @]
    /\ UNCHANGED <<files, dbVars, want, doomed, publish>>

\* The root transaction ended: SQLAlchemy begins another one.
EndRoot(s) ==
    /\ pc[s] \in {"ending", "closing"}
    /\ Len(sa[s]) = 1
    /\ Last(rt[s]).cleared
    /\ sa' = [sa EXCEPT ![s] = <<Frame("root", NoWish)>>]
    /\ rt' = [rt EXCEPT ![s] = <<NewTransaction>>]
    /\ want' = [want EXCEPT ![s] = NoWish]
    /\ pc' = [pc EXCEPT ![s] = "idle"]
    /\ UNCHANGED <<files, dbVars, doomed, publish>>

\* The root transaction ended and was not cleared: commit() is called.
EndRootUncleared(s) ==
    /\ pc[s] \in {"ending", "closing"}
    /\ Len(sa[s]) = 1
    /\ ~Last(rt[s]).cleared
    /\ pc' = [pc EXCEPT ![s] = "republishing"]
    /\ publish' = [publish EXCEPT ![s].deleted = rt[s][1].deleted,
                                  ![s].set = rt[s][1].set]
    /\ UNCHANGED <<files, dbVars, sa, want, doomed, rt>>

--------------------------------------------------------------------------------
(* Calls of the session's user that leave the transactions as they are.    *)

(***************************************************************************)
(* SessionRepositoryService.set, called by the setter of Blob.value, which *)
(* also gives the row its new md5.  The attributes of a blob cannot be     *)
(* loaded in a deactivated session, so its transaction is usable.          *)
(***************************************************************************)
SetContent(s, u, c) ==
    /\ Usable(s)
    /\ rt' = [rt EXCEPT ![s][Len(rt[s])] = Staged(Last(rt[s]), u, c)]
    /\ want' = [want EXCEPT ![s][u] = c]
    /\ UNCHANGED <<files, dbVars, sa, doomed, pc, publish>>

\* SessionRepositoryService.delete, called by the deleter of Blob.value.
DeleteContent(s, u) ==
    /\ Usable(s)
    /\ Get(s, u) # Absent
    /\ rt' = [rt EXCEPT ![s][Len(rt[s])] = Unstaged(Last(rt[s]), u)]
    /\ want' = [want EXCEPT ![s][u] = Absent]
    /\ UNCHANGED <<files, dbVars, sa, doomed, pc, publish>>

\* session.delete(blob)
DeleteBlob(s, u) ==
    /\ Usable(s)
    /\ doomed' = [doomed EXCEPT ![s] = @ \cup {u}]
    /\ UNCHANGED <<files, dbVars, sa, want, rt, pc, publish>>

--------------------------------------------------------------------------------
(* Opening transactions, and flushing in a subtransaction.                 *)

\* session.begin(nested=True), which flushes first, so nothing is doomed.
BeginNested(s) ==
    /\ Usable(s)
    /\ doomed[s] = {}
    /\ Len(sa[s]) < MaxDepth
    /\ sa' = [sa EXCEPT ![s] = Append(@, Frame("nested", want[s]))]
    /\ CreateTransaction(s)
    /\ UNCHANGED <<files, dbVars, want, doomed, pc, publish>>

\* session.begin(subtransactions=True)
BeginSub(s) ==
    /\ Usable(s)
    /\ Len(sa[s]) < MaxDepth
    /\ sa' = [sa EXCEPT ![s] = Append(@, Frame("sub", NoWish))]
    /\ CreateTransaction(s)
    /\ UNCHANGED <<files, dbVars, want, doomed, pc, publish>>

\* session.flush(): the statements are sent in a subtransaction of its own.
FlushBegin(s) ==
    /\ Usable(s)
    /\ sa' = [sa EXCEPT ![s] = Append(@, Frame("sub", NoWish))]
    /\ CreateTransaction(s)
    /\ pc' = [pc EXCEPT ![s] = "flushing"]
    /\ UNCHANGED <<files, dbVars, want, doomed, publish>>

\* after_flush, first listener: `del blob.value` of each deleted blob.
PropagateDelete(s, u) ==
    /\ pc[s] = "flushing"
    /\ u \in doomed[s]
    /\ rt' = IF Get(s, u) = Absent THEN rt
             ELSE [rt EXCEPT ![s][Len(rt[s])] = Unstaged(Last(rt[s]), u)]
    /\ want' = [want EXCEPT ![s][u] = Absent]
    /\ doomed' = [doomed EXCEPT ![s] = @ \ {u}]
    /\ UNCHANGED <<files, dbVars, sa, pc, publish>>

\* after_flush, the repository's listener; the flush then ends.
FlushCommit(s) ==
    /\ pc[s] = "flushing"
    /\ doomed[s] = {}
    /\ MergeTop(s)
    /\ pc' = [pc EXCEPT ![s] = "ending"]
    /\ UNCHANGED <<files, dbVars, sa, want, doomed, publish>>

--------------------------------------------------------------------------------
(* Rolling back.                                                           *)

(***************************************************************************)
(* SessionTransaction.rollback() of the innermost transaction while it is  *)
(* active: the database goes back to the nearest root or savepoint, every  *)
(* transaction from there up is deactivated, and after_rollback is sent    *)
(* once, while the innermost transaction is still the current one.         *)
(***************************************************************************)
RollbackTo(s, b) ==
    /\ "rollback_staged" \notin Faults =>
            \A i \in b .. (Len(rt[s]) - 1) : StagesNothing(rt[s][i])
    /\ sa' = [sa EXCEPT ![s] =
                [i \in DOMAIN @ |-> IF i >= b THEN [@[i] EXCEPT !.state = "DEACTIVE"]
                                              ELSE @[i]]]
    /\ want' = [want EXCEPT ![s] = sa[s][b].saved]
    /\ doomed' = [doomed EXCEPT ![s] = {}]
    /\ ClearTop(s)
    /\ pc' = [pc EXCEPT ![s] = "ending"]
    /\ UNCHANGED <<files, dbVars, publish>>

Rollback(s) == Usable(s) /\ RollbackTo(s, Boundary(s))

\* A statement of the flush fails: the flush's subtransaction rolls back.
FlushFails(s) == pc[s] = "flushing" /\ RollbackTo(s, Boundary(s))

\* rollback() of a deactivated transaction sends no event, it only closes.
RollbackDeactivated(s) ==
    /\ Idle(s)
    /\ Top(s).state = "DEACTIVE"
    /\ pc' = [pc EXCEPT ![s] = "ending"]
    /\ UNCHANGED <<files, dbVars, sa, want, doomed, rt, publish>>

--------------------------------------------------------------------------------
(* Committing: commit() flushes until nothing is pending, then commits.    *)

CommitSub(s) ==
    /\ Usable(s)
    /\ doomed[s] = {}
    /\ Top(s).kind = "sub"
    /\ pc' = [pc EXCEPT ![s] = "ending"]
    /\ UNCHANGED <<files, dbVars, sa, want, doomed, rt, publish>>

\* The savepoint is released, then after_commit is sent.
CommitNested(s) ==
    /\ Usable(s)
    /\ doomed[s] = {}
    /\ Top(s).kind = "nested"
    /\ sa' = [sa EXCEPT ![s][Len(sa[s])].state = "COMMITTED"]
    /\ MergeTop(s)
    /\ pc' = [pc EXCEPT ![s] = "ending"]
    /\ UNCHANGED <<files, dbVars, want, doomed, publish>>

RowsAfter(s) ==
    [u \in UUID |-> IF want[s][u] = NullMark THEN db[u] ELSE want[s][u]]

\* The database commits, then after_commit is sent: _commit_repository.
CommitRoot(s) ==
    /\ Usable(s)
    /\ doomed[s] = {}
    /\ Top(s).kind = "root"
    /\ db' = RowsAfter(s)
    /\ past' = [u \in UUID |-> past[u] \cup {db'[u]}]
    /\ sa' = [sa EXCEPT ![s][Len(sa[s])].state = "COMMITTED"]
    /\ pc' = [pc EXCEPT ![s] = "publishing"]
    /\ publish' = [publish EXCEPT ![s].deleted = rt[s][1].deleted,
                                  ![s].set = rt[s][1].set]
    /\ UNCHANGED <<files, want, doomed, rt>>

--------------------------------------------------------------------------------
(* _commit_repository: every delete, then every set, one file at a time.   *)

PublishDelete(s, u) ==
    /\ Publishing(s)
    /\ u \in publish[s].deleted
    /\ files' = [files EXCEPT ![u] = Absent]
    /\ publish' = [publish EXCEPT ![s].deleted = @ \ {u}]
    /\ UNCHANGED <<dbVars, sa, want, doomed, rt, pc>>

\* RepositoryService.set: opening the file for writing truncates it.
PublishOpen(s, u) ==
    /\ Publishing(s)
    /\ publish[s].deleted = {}
    /\ publish[s].open = NullMark
    /\ u \in publish[s].set
    /\ files' = [files EXCEPT ![u] = Torn]
    /\ publish' = [publish EXCEPT ![s].open = u]
    /\ UNCHANGED <<dbVars, sa, want, doomed, rt, pc>>

PublishWrite(s) ==
    /\ Publishing(s)
    /\ publish[s].open # NullMark
    /\ LET u == publish[s].open
       IN  /\ files' = [files EXCEPT ![u] = rt[s][1].dir[u]]
           /\ publish' = [publish EXCEPT ![s].set = @ \ {u}, ![s].open = NullMark]
    /\ UNCHANGED <<dbVars, sa, want, doomed, rt, pc>>

\* commit() clears the transaction; close() of the SessionTransaction follows.
PublishEnd(s) ==
    /\ Publishing(s)
    /\ publish[s] = NoPublication
    /\ ClearTop(s)
    /\ pc' = [pc EXCEPT ![s] = "ending"]
    /\ UNCHANGED <<files, dbVars, sa, want, doomed, publish>>

(***************************************************************************)
(* An OSError leaves commit(): the RepositoryTransaction is not cleared    *)
(* and the session stays in "committed" state, where only close() works.   *)
(***************************************************************************)
PublishFails(s) ==
    /\ "io_error" \in Faults
    /\ pc[s] = "publishing"
    /\ publish[s] # NoPublication
    /\ pc' = [pc EXCEPT ![s] = "failed"]
    /\ publish' = [publish EXCEPT ![s] = NoPublication]
    /\ UNCHANGED <<files, dbVars, sa, want, doomed, rt>>

(***************************************************************************)
(* An OSError leaves end_transaction(): set_transaction is not reached,    *)
(* and the session has no transaction any more, not even a new one.        *)
(***************************************************************************)
RepublishFails(s) ==
    /\ "io_error_at_end" \in Faults
    /\ pc[s] = "republishing"
    /\ publish[s] # NoPublication
    /\ pc' = [pc EXCEPT ![s] = "broken"]
    /\ publish' = [publish EXCEPT ![s] = NoPublication]
    /\ UNCHANGED <<files, dbVars, sa, want, doomed, rt>>

--------------------------------------------------------------------------------

\* Session.close(): every open transaction is closed, innermost first.
Close(s) ==
    /\ \/ pc[s] = "failed"
       \/ /\ Idle(s)
          /\ "close_staged" \notin Faults =>
                \A i \in DOMAIN rt[s] : StagesNothing(rt[s][i])
    /\ want' = [want EXCEPT ![s] = NoWish]
    /\ doomed' = [doomed EXCEPT ![s] = {}]
    /\ pc' = [pc EXCEPT ![s] = "closing"]
    /\ UNCHANGED <<files, dbVars, sa, rt, publish>>

\* A session, and its RepositoryTransactions, as if nothing had happened.
StartAfresh(s) ==
    /\ sa' = [sa EXCEPT ![s] = <<Frame("root", NoWish)>>]
    /\ rt' = [rt EXCEPT ![s] = <<NewTransaction>>]
    /\ want' = [want EXCEPT ![s] = NoWish]
    /\ doomed' = [doomed EXCEPT ![s] = {}]
    /\ pc' = [pc EXCEPT ![s] = "idle"]
    /\ publish' = [publish EXCEPT ![s] = NoPublication]
    /\ UNCHANGED <<files, dbVars>>

(***************************************************************************)
(* A broken session is used again in another application context: it       *)
(* begins a transaction, and finds no RepositoryTransaction to be its      *)
(* parent since the registry is an attribute of the context.               *)
(***************************************************************************)
NewContext(s) ==
    /\ pc[s] = "broken"
    /\ StartAfresh(s)

\* The process dies and a new one starts: nothing it staged is ever found again.
Crash(s) ==
    /\ "crash" \in Faults
    /\ StartAfresh(s)

Publish(s) ==
    \/ \E u \in UUID : PublishDelete(s, u) \/ PublishOpen(s, u)
    \/ PublishWrite(s)
    \/ PublishEnd(s)

End(s) == EndInner(s) \/ EndRoot(s) \/ EndRootUncleared(s)

Flush(s) ==
    \/ FlushBegin(s)
    \/ \E u \in UUID : PropagateDelete(s, u)
    \/ FlushCommit(s)
    \/ FlushFails(s)

Next ==
    \E s \in Session :
        \/ \E u \in UUID, c \in Content : SetContent(s, u, c)
        \/ \E u \in UUID : DeleteContent(s, u) \/ DeleteBlob(s, u)
        \/ BeginNested(s) \/ BeginSub(s)
        \/ Flush(s)
        \/ Rollback(s) \/ RollbackDeactivated(s)
        \/ CommitSub(s) \/ CommitNested(s) \/ CommitRoot(s)
        \/ Publish(s) \/ PublishFails(s) \/ RepublishFails(s)
        \/ End(s)
        \/ Close(s) \/ NewContext(s)
        \/ Crash(s)

Spec == Init /\ [][Next]_vars

--------------------------------------------------------------------------------
(* Properties.                                                             *)

(***************************************************************************)
(* Every RepositoryTransaction a session still uses can be read and        *)
(* committed: merging into a parent and re-staging never leave a uuid both *)
(* written and deleted, nor to be written without a staged file.           *)
(***************************************************************************)
TransactionsWellFormed ==
    \A s \in Session : \A i \in DOMAIN rt[s] : WellFormed(rt[s][i])

(***************************************************************************)
(* The chain of RepositoryTransactions mirrors the session's stack, and no *)
(* transaction has a cleared parent: _commit_parent and get() would raise  *)
(* AttributeError on it (see the lines commented out in __init__).         *)
(***************************************************************************)
NoClearedParent ==
    \A s \in Session :
        /\ Len(rt[s]) = Len(sa[s])
        /\ \A i \in 1 .. Len(rt[s]) - 1 : ~rt[s][i].cleared
        /\ pc[s] \in {"idle", "flushing"} => ~Last(rt[s]).cleared

(***************************************************************************)
(* Between two calls, a session whose transaction is usable reads from the *)
(* repository what its database transaction, with its savepoints and       *)
(* rollbacks, says of every blob.                                          *)
(***************************************************************************)
SessionSeesItsWork ==
    \A s \in Session, u \in UUID :
        Usable(s) =>
            Get(s, u) = IF want[s][u] = NullMark THEN files[u] ELSE want[s][u]

(***************************************************************************)
(* Once no session is committing, each file is what the committed rows say *)
(* (for one session, no crash and no error at the end), after any sequence *)
(* of savepoints, rollbacks, flushes, failed publications and closes.      *)
(***************************************************************************)
FilesFollowRows ==
    (\A s \in Session : ~Publishing(s)
                         /\ pc[s] \notin {"failed", "closing"}
                         /\ Top(s).state # "COMMITTED")
        => files = db

(***************************************************************************)
(* "Content is actually written or delete at commit time": a file never    *)
(* has a content, nor a blob an absence of file, that no committed         *)
(* database transaction gave it.  A file may be torn or out of date.       *)
(***************************************************************************)
OnlyCommittedContent ==
    \A u \in UUID : files[u] \in past[u] \cup {Torn}

(***************************************************************************)
(* "We are not in our root transaction, so changes will not be written to  *)
(* repository": files change only in steps of a session that has no        *)
(* SessionTransaction but its root.                                        *)
(***************************************************************************)
OnlyRootsPublish ==
    [][files' # files =>
        \E s \in Session : Len(sa[s]) = 1 /\ publish'[s] # publish[s]]_vars

(***************************************************************************)
(* The repository implements BlobStore: the two sets and the directory of  *)
(* each RepositoryTransaction are one layer of changes, dead once its      *)
(* SessionTransaction is deactivated or closed without a commit.           *)
(***************************************************************************)
LayersOf(s) ==
    [i \in DOMAIN rt[s] |-> [u \in UUID |-> Overlay(rt[s][i], u)]]

IsCommitted(s) == sa[s][1].state = "COMMITTED"

DeadOf(s) ==
    [i \in DOMAIN sa[s] |->
        sa[s][i].state = "DEACTIVE" \/ (pc[s] = "closing" /\ ~IsCommitted(s))]

TodoOf(s) ==
    CASE IsCommitted(s) /\ Publishing(s) ->
            publish[s].deleted \cup publish[s].set
      [] IsCommitted(s) /\ pc[s] \in {"failed", "closing", "broken"} ->
            rt[s][1].deleted \cup rt[s][1].set
      [] OTHER -> {}

Store == INSTANCE BlobStore WITH
    MayDie    <- Faults \cap {"crash", "io_error_at_end"} # {},
    layers    <- [s \in Session |-> LayersOf(s)],
    dead      <- [s \in Session |-> DeadOf(s)],
    committed <- [s \in Session |-> IsCommitted(s)],
    todo      <- [s \in Session |-> TodoOf(s)]

ImplementsBlobStore == Store!Spec
================================================================================
