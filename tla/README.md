# A TLA+ model of abilian-core

abilian-core is a framework for collaborative applications on Flask and
SQLAlchemy 1.3. Most of its code answers requests; what it keeps between two
events of a database session, or between two requests, outside of the database,
is where it can be wrong in ways a unit test hardly reaches. This directory
models that part, on the server and in the page, model-checks it with TLC and
proves its invariants with TLAPS.

Paths below are relative to `src/abilian/` of the repository (on disk
`src/src/abilian/` from the root that `PROJECT.json` uses).

## The parts of the system

| part | state it keeps | operations and interactions | hard behaviours | what makes it correct |
|---|---|---|---|---|
| Session repository (`services/repository/service.py`) | files named by uuid; per database session a chain of `RepositoryTransaction`s, each with a directory, a set of uuids to write and one to delete | `get`, `set`, `delete`; six listeners of SQLAlchemy's session events | savepoints, subtransactions, failing flushes, rollbacks, closes, a crash between the database's commit and the files, two sessions publishing one file | files follow the committed rows; a session reads its own work |
| Blobs (`core/models/blob.py`) | a row per file, its metadata | setter and deleter of `value`; a listener of `after_flush` | order of listeners; metadata out of step with the content | a blob's file goes when its row goes |
| Indexing (`services/indexing/`, `cli/indexing.py`) | per application a queue of changed objects; the index | listeners queue on flush and send a task on commit; `index_update` in a worker; the `reindex` command | rollbacks, tasks out of order, an object that changes again before the worker reads it | the index ends up saying what the database says |
| Security (`services/security/`, `core/models/subjects.py`) | role and permission assignments; a cache of roles on each principal; a flush flag | grant, ungrant, `has_role`, `has_permission`, `query_entity_with_permission`, inheritance | stale caches, two ways of computing the same roles | a decision agrees with the assignments |
| Audit (`services/audit/`) | changes recorded on entities; entries | listeners of attributes and of `after_flush` | a guard shared by threads, rollbacks, several flushes in a transaction | entries tell the state of their entity, and none tells of work undone |
| Authentication (`services/auth/`) | login sessions; password tokens | login, logout, refresh, reset | two requests of one user, a token used twice | at most one open login session per browser |
| Activity, view tracking (`services/activity/`, `services/viewtracker/`) | rows | signal handlers | check, then insert | no duplicates |
| Uploads (`web/uploads/`, `web/forms/fields.py`, `web/resources/js/widgets/file.js`) | the nodes and requests of a page; a directory per user; the handles of a submitted form | choose, remove, submit; add, get, remove; an hourly clearing | answers out of order, lost connections; the clearing races requests; a form rejected after its files were read | what is saved is what the page showed; a handle in a page stays readable for a day |
| Conversion (`services/conversion/`) | a cache of files; one subprocess per handler | `to_text`, `to_pdf` | a cache read while it is written; a crash in the middle of a file; a timeout terminating another call's process | the cache holds whole results; every call returns |
| Listings (`web/resources/js/datatables-*.js`, DataTables, `web/frontend.py`) | filters of the page, the draw counter, the rows shown, a cookie | add, change and close filters; turn pages; answers; export; load the page again | answers in any order or never, while the user goes on | the table shows, exports and restores what its filters ask for |
| Vocabularies (`services/vocabularies/`) | rows with a position | add, move, delete | concurrent inserts, moves | positions are distinct |
| Settings, preferences (`services/settings/`, `services/preferences/`) | key-value rows | get, set | delete and insert in two steps | one row per key |
| Entities (`core/entities.py`) | rows with a slug | insert | slug chosen, then inserted | slugs are distinct in a type |
| Tags, comments, attachments (`core/models/`, `web/tags`, `web/comments`, `web/attachments`) | rows | add, edit, delete | none of their own | |
| Services, application, celery (`services/base.py`, `app.py`, `core/celery.py`) | a running flag; extensions | start, stop | stopping in the middle of a transaction | |
| Other web code, translation, command line (`web/`, `i18n.py`, `cli/`) | little | rendering, forms, actions | the order of flush, activity and commit in `web/views/object.py` | |

How they meet: the model layer is one SQLAlchemy session per request. Blobs,
repository, indexing, audit and security all listen to, or are called in, the
same session; `after_flush` runs the blob listener, then the repository's,
audit's and indexing's; `after_commit` runs the repository's (files are
written) and indexing's (a task is sent). Celery workers have sessions of
their own. A page meets the server in requests only: a form names the handles of
files that other requests have uploaded, and the texts that conversions make of
them end in the index.

## The modules

### The repository

| module | what it is |
|---|---|
| `RepositoryTransaction` | one `RepositoryTransaction`, its `set`, `delete`, `_clear`, `_commit_parent` and `get` as operators on a record, and on the chain (a sequence, root first) that parents form |
| `SessionRepository` | the sessions: one action per call of the session up to the next event and one per event handler. EXTENDS `RepositoryTransaction` |
| `BlobStore` | what the repository promises: a store with layers of changes, where only a committed session's changes reach the files |
| `MCSessionRepository` | the symmetry TLC uses |
| `SessionRepositoryProofs` | theorems and proofs: types, the shape of stacks and chains, what is in the files, and the refinement of `BlobStore` |

State and code:

| variable | code |
|---|---|
| `files` | the directory of `RepositoryService`; `Torn` is a file opened for writing and not yet written |
| `rt` | per session, `SessionRepositoryState.transactions[id(session)]` with its `_parent`s |
| `publish` | the two loops of `_commit_repository`, one file at a time |
| `sa`, `pc` | the stack of `SessionTransaction`s and the event SQLAlchemy sends next |
| `doomed` | `session.deleted`, not flushed |
| `db`, `want` | the content the committed rows, and the session's open transaction, give each blob |
| `past` | a history variable: every content `db` has given a blob |

The handlers are translated from `services/repository/service.py`; the parts
that only say when SQLAlchemy sends which event (frames of the stack, the
nearest savepoint of a rollback, flushing in a subtransaction, closing) are
marked external in `PROJECT.json`. In SQLAlchemy 1.3 a flush opens a
subtransaction of its own, `after_rollback` is sent once per rollback and not
once per transaction, and `close()` sends neither commit nor rollback: those
three facts are what the handlers have to cope with.

`BlobStore` knows nothing of sets, directories or events. The refinement maps
each `RepositoryTransaction` to one layer (what `get` would answer from it
alone), marks a layer dead when its `SessionTransaction` is deactivated or
closed without a commit, and keeps a session's unpublished uuids in `todo`. A
dead layer must be empty before it is left: this is where publishing
uncommitted work would show.

### Indexing

| module | what it is |
|---|---|
| `IndexTask` | the loop of `index_update`: what one item makes a whoosh writer delete and add, and what a writer's commit makes of the index |
| `IndexQueue` | a session, its savepoints and what SQLAlchemy knows of its objects; `after_flush` and `after_commit`. EXTENDS `IndexTask`; a task runs at once, as with `CELERY_ALWAYS_EAGER` |
| `IndexUpdate` | workers that take the tasks, the lock of the index, applications that commit, and the `reindex` command. EXTENDS `IndexTask` |
| `MCIndexQueue`, `MCIndexUpdate` | the instances for TLC |
| `IndexQueueProofs`, `IndexUpdateProofs` | theorems and proofs |

`IndexQueue` and `IndexUpdate` meet in the task: the first says what is in the
one that a commit sends (its invariant is that every changed row has an item),
the second lets applications send any such task, of one object flushed once or
twice.

| variable | code |
|---|---|
| `to_update` | the queue in the application context (`IndexServiceState.to_update`) |
| `levels`, `pending`, `orm` | SQLAlchemy's stack of transactions, its unflushed changes (`Modified` is its `state.modified`, which a deletion does not reset), and for each object whether it is in the session and whether reading it sends a query |
| `failed` | `after_commit` raised; such a session can only be removed |
| `undone` | history: a rollback left what it undid in the queue |
| `db` | committed rows; the content of a row stands for the whole document made of it |
| `index` | for each object the documents under its `object_key` |
| `tasks`, `worker` | the broker, and what each `index_update` has left to do and has told its writer; `held`: the `AsyncWriter` got the lock |
| `rx` | the `Reindexer`: `rows`, what its SELECT found and it has not written; `purge`, the deletion of the class's documents is still to be written |
| `worker[w].late` | history: the objects that another writer writes after this worker has read them |
| `trusted`, `rx.disturbed` | history: nothing was lost and nothing written late since the index was right, or rebuilt; a reindexing was overtaken |

What whoosh does is external: a writer has the lock from the moment it is made
until it commits or is cancelled; its deletions concern what the index has and
never what it adds itself; an `AsyncWriter` that finds the lock taken records
what it is told and says it again when it gets the lock.

The broker promises no order. An id is not given twice to objects
(`born`): with an order that is not that of the commits, a late deletion would
remove the document of the new object.

### Security

| module | what it is |
|---|---|
| `SecurityRules` | assignments, and the three places that decide who may do what, as operators: `HasPermission`, `Listed` (`query_entity_with_permission`) and `Found` (what the index keeps of an object, what a search asks for; one by a manager, `g.is_manager`, asks for no role) |
| `SecurityService` | the role caches. EXTENDS `SecurityRules`. Asking fills them, `grant_role` and `ungrant_role` drop some |
| `MCSecurityService` | a document in a folder, and few assignments |
| `SecurityProofs` | theorems and proofs |

| variable | code |
|---|---|
| `members`, `ra`, `pa`, `inherit` | `Group.members`, the rows of `RoleAssignment` and `PermissionAssignment`, `inherit_security` |
| `cache` | `__roles_cache__` of each instance of a principal, a set of (object, role); a session has one instance of each |
| `audit` | the assignments whose last entry in `SecurityAudit` is a GRANT |
| `overtaken` | history: who has a cache older than a change that the service was not told of: a membership that ended, a rollback, another session's commit, or another principal's assignment deleted for the anonymous |

Every query of the session flushes first (`autoflush` is on wherever the
service is called), so rows are what the session sees, and the flag
`needs_db_flush` changes nothing. `ChangedElsewhere` stands for a rollback and
for other sessions' commits, one assignment at a time. `AskRole` and
`AskPermission` are the calls whose answer depends on roles; the others read no
cache. A call of `ungrant_role` that finds no assignment, or several, raises and
changes nothing; so does `delete_permission` of one that is not flushed yet.

### Audit

| module | what it is |
|---|---|
| `AuditChanges` | the class `Changes` and the listeners that fill it, as operators; what the entries of an entity say when they are read one after the other (a trail) |
| `AuditService` | sessions, their flushes, and `create_audit_entries` with its flag. EXTENDS `AuditChanges` |
| `MCAuditService` | two entities with a title, a password, a long note and a tag |
| `AuditProofs` | theorems and proofs |

| variable | code |
|---|---|
| `running`, `creating` | the service's state in the application: started, `creating_entries` |
| `rows`, `trail` | the committed rows and, for each entity, what its committed entries say together |
| `session` | per session the instances it has loaded (`mem`), `session.new`, `.dirty`, `.deleted`, each instance's `__changes__`, the trail with the entries of this transaction, and where `create_audit_entries` is: past the test of the flag (`entering`), in the loop (`logging`, with the instances that are `left`) |
| `stale`, `missed`, `doubtful` | history: instances whose changes are older than this flush; entities of which an entry of this transaction is missing, or was written from such changes; entities of which such an entry is committed |

The flag is tested and raised in two steps, since another thread may run in
between. `log` is one action per instance; `LogFails` is the exception that
production swallows, `LogRaises` the one that debug and testing let through, and
both may come before or after `log` took the changes off the instance. A
rollback expires what SQLAlchemy manages, and `__changes__` is an attribute
SQLAlchemy does not manage: it stays until the instance is forgotten, with its
request. The old value of a column of a new instance is None or NEVER_SET,
depending on who asks first; like every reader of entries, `Same` takes them for
one.

### Uploads

| module | what it is |
|---|---|
| `Uploads` | one page of a user with a file field, the requests that send its files, `clear_stalled_files` in its workers, a deletion, and the form from its submission to the object or to the next page |
| `MCUploads` | two files, in a form or in a part of one, single or multiple |
| `UploadsProofs` | theorems and proofs |

| variable | code |
|---|---|
| `items` | the nodes of `.selected-files`: what file each shows, the handle of its hidden input, the deletion marker |
| `sending` | `currentlyUploaded`, and the answer that the browser has and `onFileComplete` has not seen |
| `disabled` | the class that `prevent_double_submit` gives the submit controls |
| `server`, `dir`, `disk`, `meta` | where `add_file` is for each file; the user's directory, contents and metadata files |
| `old` | files changed more than `DELETE_STALLED_AFTER` ago |
| `cleaner`, `deleter` | the loop of `clear_stalled_files` and of `remove_file`, one look-up or unlink at a time |
| `form` | `FileField`: its handles, the open stream, and the uploads listed again when the form is not valid |
| `shown`, `revoked` | history: the page and the object when the form was submitted; handles that DELETE was asked for |

A file that is removed while its stream is open can still be read, as on any
POSIX system. The look-up of a handle, of its metadata and the opening are three
steps. A page that is shown again forgets the requests of the one before.

Reading the code for this model showed several things that are so and that no
property forbids: `node.parent("form")` (`file.js:33`) is the form only when the
widget is its child, which it is in none of the repository's templates, so that
`onFormSubmit` is bound to nothing there and a form submitted while a file is sent
loses it (`field.inForm` is whether it is bound, and the run has both;
`OnlyUnfinishedLeftBehind` says which files an unbound form may leave); a click on
the icon in the deletion's button has the icon for `evt.target` (`file.js:155`), which
has no marker input, and marks nothing; after a submission that it does block,
the controls stay "disabled"; a marked deletion is not rendered again, since
`idx in field.delete_files_index` (`widgets.py:810`) looks for an integer among
strings; a deletion and an upload in one multiple field lose the upload; two
first uploads of a user race for `mkdir` (`extension.py:98`), and one fails.

### Conversion

| module | what it is |
|---|---|
| `Conversion` | calls of `to_pdf` and `to_text` in the threads of several servers: the cache that all share, `LibreOfficePdfHandler.convert` with its thread, and the processes it starts |
| `MCConversion` | two calls, of one document or of two, in one server or in two |
| `ConversionProofs` | theorems and proofs |

| variable | code |
|---|---|
| `cache` | the files of `cache_dir`, each the set of its parts: opening one to write empties it, and it is written in two steps |
| `thread`, `waits` | `run_soffice`, and the process that `communicate` waits for |
| `attr` | `self._process`, one for all threads of a server |
| `process`, `output` | LibreOffice and the file it writes; it may end early, or never, and survives its server |
| `cut`, `early`, `torn`, `overlapped`, `reason` | history: processes that ended before their file was whole, calls that read a file in progress, documents whose unfinished file was read or left, calls that shared a handler, calls that have a reason to fail |

Two calls in one server share the attribute: either may wait for, terminate or
delete what is the other's. `poll() is not None` (`handlers.py:440`) kills only a
process that has ended, so one that ignores `terminate` stays. The exit status
is not looked at: a file that was being written when its process died is taken
for the result, and cached. Temporary files of a failed conversion, and every
.pdf of LibreOffice, stay in `tmp_dir`: they are not modelled.

### Listings

| module | what it is |
|---|---|
| `SearchFilters` | six kinds of filters: their value, what they make of a saved one, and when they have one |
| `SearchTable` | a listing: drawing, pages, answers, the export's arguments, the cookie. EXTENDS `SearchFilters` |
| `SearchTableProofs` | theorems and proofs |
| `MCSearchTable` | four pages of two filters, which have every kind among them |

| variable | code |
|---|---|
| `form`, `elements`, `active` | `oFilters`, what their elements hold, `oActiveFilters` |
| `focus` | the text filter with the focus: its change event comes with the blur |
| `start`, `iDraw`, `sent`, `processing` | DataTables' settings, the requests not answered, the indicator |
| `shown`, `args`, `cookie` | the answer on display, `current-query-args`, the saved state |
| `torn` | history: the answer was asked for, or came, while a text was half typed |

Of DataTables only the functions that a table with server-side processing runs
are modelled. `current-query-args` and the cookie are written when an answer
comes, from the filters as they are then: if a text is half typed at that moment
an export asks for something else than the table shows, although the comment in
`render_ajax_table.html` line 56 has the arguments set up "on click". The properties
exempt those moments (`torn`).

### Faults

In `SessionRepository`, `Faults` selects what may go wrong. `io_error` (an unlink, open or write fails
in the handler of `after_commit`) and `crash` (the process dies) are things
the code is meant to survive: after the first, `close()` ends a transaction
that is not cleared and so publishes everything again. `io_error_at_end` is an
error in that second attempt. It leaves `end_transaction` with the session in
no transaction at all; the session works again, without what it had staged,
in another application context (`NewContext`), so the files stay out of date.
`OnlyCommittedContent` and the refinement hold of it, `FilesFollowRows` cannot.
`rollback_staged` and `close_staged` are the two situations in which the code
does not do what its documentation says; the runs that check the other
properties leave them out. `close_staged` has a run of its own that shows the
violation; what `rollback_staged` leads to is described with it, under "What the
violations say", and no listed property holds with it.

## The runs

| run | instance | what it shows |
|---|---|---|
| `repository_layers` | 1 session, 1 blob, 2 contents, 3 transactions deep, write errors | type, well-formedness, no cleared parent, a session reads its own work, files follow rows, refinement of `BlobStore` |
| `repository_sessions` | 2 sessions, 1 blob, 2 contents, a root and its flushes, write errors of both kinds and crashes | only committed contents reach the files, only roots publish |
| `repository_close` | 1 session, `close_staged` | violates `OnlyCommittedContent`, see below |
| `index_queue` | 1 session, 2 objects, 2 contents, 2 transactions deep, 3 queued items | the index follows the rows unless a rollback left its work in the queue; the queue has an item for each changed row; nothing uncommitted is indexed |
| `index_rollback` | the same | violates `IndexAlwaysFollowsRows`, see below |
| `index_tasks` | 2 workers, 2 objects, 2 contents, 2 commits, 1 task that dies or is not sent, both strategies, batches of one | the index catches up unless a worker wrote what it had read before another did, and a reindexing repairs it; no duplicates; every task is run |
| `security_roles` | 1 user, 2 groups, a document in a folder, 4 role assignments of which 2 at a time, 3 permission assignments | caches are sound, `has_permission` is right from them, listings and searches agree with it |
| `security_caches` | the same | violates `RolesAreCurrent`, see below |
| `audit_trail` | 2 sessions with an entity each, 3 columns (false values, a hidden one, a large one), 1 member | entries tell their entity and join, in the middle of a transaction and after it; the flag is lowered |
| `uploads_form` | 2 files of which one may grow old or be deleted, 1 worker, fields that are in the form or deeper, single or multiple | handles in a page are readable; what is saved is what was shown; a form leaves behind only what is still being sent, and nothing where its guard is bound; a rejected form keeps its files; what is old goes |
| `conversion` | 2 calls of either kind, 1 or 2 documents, 1 or 2 servers, 2 crashes | results are whole unless an unfinished file was read; a call alone is safe; every call returns |
| `search_table` | 2 filters, of six kinds among the pages, 5 draws of a page, 1 reload, pages of one row | the table shows, exports and restores what its filters ask for |

Why these bounds are enough. A uuid is treated independently of the others by
every handler (sets are updated element by element), so one blob reaches every
combination of two adjacent transactions; two contents tell a write from the
one it replaces. `MaxDepth` bounds what the user opens, a flush adds one more:
with depth 3 a merge goes through two parents, and a savepoint lies under a
subtransaction that a flush runs in. The handlers of two sessions share only
the files, so the second run does without savepoints.

Objects meet in the index only through the lock, a task's list and the
reindexing's batches: two objects give a task and a batch that are not the
last. Two commits give a row that changes between the commit that sent a task
and the reading, and an object that is created, then deleted, with two workers that
take the two tasks in either order and wait for each other's lock. Batches of one
make a reindexing of two rows write twice, and all at once is what the other
strategy does. Three queued
items are an object flushed in a transaction, then in its savepoint, and
another. Reindexing is modelled for one class of objects, once: classes share
nothing but the lock, and a second run finds an index that is any index, as
the first does.

The caches of two users meet only in their groups', so one user is enough; two
groups give one whose cache was overtaken beside one whose was not, and two
assignments at a time a user with roles of its own and of a group, or of two
groups. The permission "edit" has no default roles and "read" has them.

Audited entities meet only in the flag, so two sessions with an entity each are
enough; one of them edits and deletes, the other, which only creates, is there
to hold the flag. A title that is null at first is set to "a" and to "" in any
order: a false value replaced by another and by a true one, a true one by a false. After an
entity has become doubtful no new work begins (`Free`): the properties say
nothing of it any more. Ids are not used again, and two sessions do not edit an
entity at the same time: entries would then be about the database's order of
their updates.

One file whose answer is late and another that comes after it are all that nodes
and answers can confuse; one worker is enough since two meet only in files that
are gone, which deletions make too. Two conversions meet in the attribute and in
the file of a document; a third adds no kind of meeting, and the proofs have any
number. Five draws of a page are two that a filter's addition sends, a change, a turned page and
one more, with all their answers outstanding; `Results` finds two rows when
nothing is asked and one otherwise, so that a page may be left empty by a filter.

### What the violations say

* `repository_close`. "content is actually written or delete at commit
  time" (`services/repository/service.py:266`). Delete a blob's content and close
  the session without a commit, as the end of every request does: `close()` sends
  neither `after_commit` nor `after_rollback`, `end_transaction` finds the root's
  transaction not cleared, and line 223 commits it: the file is gone and its row
  is not. The same line does the same after a rollback (with `Faults` `{"rollback_staged"}`
  in `Repository_close.cfg`): delete a blob's content, open a subtransaction, roll
  it back. The database undoes all the session did, but `rollback` (line 262)
  clears only the innermost `RepositoryTransaction`; when the user acknowledges
  with `rollback()` on the now inactive root, no further event is sent. A flush
  that fails takes this path, since it runs in a subtransaction.

* `index_rollback`. "Any db updates go through here."
  (`services/indexing/service.py:416`). Change an object that is in the queue
  in a savepoint, or flush a change and roll back, then commit something: the
  rollback expired the object and left it in the queue, line 446 reads its id,
  and a session that has committed refuses the query. The commit is in the
  database and its rows are not indexed. The same cause has a quieter effect,
  which `IndexQueue` also reaches: a deletion that was rolled back removes the
  document of an object that exists.
* `security_caches`. "True if `principal` has `role`"
  (`services/security/service.py:467`), and a test grants a role to a group and
  finds it with the member (`services/security/tests.py:148`). `grant_role`
  drops the group's cache and not its members' (line 597), so the test fails
  if the member is asked before the grant. The batch fill has the same effect:
  a user without assignments of its own gets an empty cache (line 443 merges
  groups' roles only for the others), and `has_role` says no where it said yes
  before `has_permission` was called. `has_permission` asks groups too, so it is
  right in both cases: `PermissionsAreCurrent`.
Two more properties are in the modules, do not hold, and are checked by no run.
`AuditExplainsAssignments`: the security log says "Logs changes on security."
(`services/security/models.py:378`), and for the anonymous `ungrant_role` discards
the filtered query (line 630) and deletes the only assignment of the role on the
object, whoever has it. `EntriesAreTrue`: the audit service "logs modifications to audited
objects" (`services/audit/models.py:1`), and when a column is set, the session
rolled back and the instance edited again, `_get_changes_for` (line 192) finds the
`__changes__` of the transaction that was rolled back, and the entry names a new
value that the row never had. Adding one of them to `Security_roles.cfg` or
`Audit_trail.cfg` shows it.

In `services/repository/service.py`, the comment at line 221 ("root and nested transactions emit "commit", but
subtransactions don't") explains why `end_transaction` commits; it holds of a
subtransaction that ends well and of no other transaction.

### Deadlock and fairness

Deadlock is checked in the runs of the repository, of the indexing queue, of
security and of audit, and none is found: an open session can always be closed, a
permission can always be assigned, a service started or stopped. None of these runs assumes fairness; their properties
are safety properties and refinement without liveness. `search_table` assumes none
either and does not check for deadlock: draws are bounded.

`index_tasks` does not check for deadlock, because the system
rests when the applications have made their commits. `TasksAreRun` assumes
weak fairness of each worker's steps together, and of the reindexing's: a
celery worker goes on with its task and takes the next, and both
`AsyncWriter.run` and `_get_writer` (`cli/indexing.py:201`) try again until they
have the lock. Nothing is assumed of applications, nor that a command is run or
a task dies. Weak fairness is enough for the lock because the commits are
finitely many; it would not be for a worker that others overtake for ever.

`uploads_form` does not check for deadlock either: files are chosen once and pages
come to an end. `StalledFilesGo` assumes weak fairness of the steps of each worker
together: celery's beat sends the task every hour, and a worker runs it. An
exception that ends the task is one of these steps; what it left is found the
next time. It says that again and again nothing old is left, for whichever files
grow old.

`conversion` makes each call once and then rests. `EveryConversionReturns` assumes
weak fairness of each call's thread, of the thread it starts, and of its timer,
and nothing of LibreOffice: a process may run for ever.

## The proofs

`SessionRepositoryProofs` proves, for any set of sessions, blobs and contents,
any depth and any choice of `Faults`:

| theorem | says |
|---|---|
| `TypeCorrect` | types; a file is open only while it is still to be written, and after every delete |
| `TransactionsStayWellFormed` | no transaction has a uuid in both its sets, and what it has to write has its file |
| `ParentsAreNeverCleared` | the chain mirrors the stack, and no transaction has a cleared parent |
| `RootsAlonePublish` | only a session with nothing open but its root changes a file |

The inductive invariant is `IndInv`. The properties are not inductive alone:
a merge reads the parent, so while flushing there must be one (`event =
"flushing" => Len(stack) > 1`); a rollback reads the frame of the nearest root
or savepoint, so the bottom of the stack must be a root, and its only one
(`StackShape`); `RootsAlonePublish` needs that publishing happens with a stack
of one; that no file stays open needs that of every session that does not publish
(`NothingOpen`). The proof has a lemma on each operator of `RepositoryTransaction`, one
on what each kind of step does to a chain and to a stack, and one lemma per
action. The assumptions are those of the modules: the markers are no contents
and no uuids (`SentinelAssumption`, `ConstantsAssumption`).

Its second part proves what the files contain, each theorem under the
condition that the code needs for it, stated in the theorem:

| theorem | says |
|---|---|
| `FilesWereCommitted` | `Spec => [](NothingStagedIsLost => OnlyCommittedContent)` |
| `FilesFollow` | `Spec => [](Alone => FilesFollowRows)` |
| `SessionsSeeTheirWork` | `Spec => [](Alone => SessionSeesItsWork)` |
| `RepositoryImplementsStore` | `Spec => (NothingStagedIsLost => ImplementsBlobStore)` |

`NothingStagedIsLost` is that neither `rollback_staged` nor `close_staged` happens
(with one of them the property is false, see `repository_close`); any number of
sessions may run, fail and crash. Files change only when a commit is published, so the
invariant (`ContentInv`) must say that what a session is about to publish was committed. It
is inductive with these facts: at every moment the transactions of a session
agree, of each uuid that one of them knows, with what its database transaction
says (`AgreesWithRows`), and would agree again with the savepoint it may go back to; a
transaction that is deactivated, cleared, or closed without a commit has
nothing left (`NothingLeft`); and what is left to publish is of the root's
transaction and in the history of the rows (`PublishesRows`).

`Alone` is one session whose only fault is `io_error`; two may publish one file,
and a crash or an error in the second attempt leaves files out of date. `FollowsInv`
adds to `ContentInv` the converse: until the commit, files are as the rows and every row that
the session changed is staged, at each level of savepoints (`Before`); after it,
each file that is not as its row is still to be written or deleted (`After`). A
failed publication forgets how far it went, and that is no harm since the
transaction still has everything.

`RepositoryImplementsStore` shows what the run `repository_layers` checks of one session and
one blob for any number of both, any depth, and through every fault that
`NothingStagedIsLost` allows. A first group of lemmas (`StoreChanges` to `StoreDies`) says
which change of the mapped functions (`Layers`, `Dead`, `Committed`, `Todo`) is which step
of `BlobStore`; then each action has a lemma that it makes such a change, or none. Merging
two transactions must be merging two layers (`MergedLayer`), which is where the sets that
`_commit_parent` adjusts matter. The invariant is `ContentInv` with two facts more
(`Spent`): a transaction that `end_transaction` commits although its session never did
stages nothing, and a session is broken only by an error at its end. `BlobStore` lets a
layer go only when it is empty, and that it is comes from `NothingLeft`.

`IndexQueueProofs` proves, for any finite set of objects, any contents and bounds:

| theorem | says |
|---|---|
| `TypeCorrect` | types |
| `ChangesAreQueued` | `Spec => []QueueCoversChanges` |
| `CommitsAreIndexed` | `Spec => []IndexFollowsRows` |
| `OnlyCommittedIndexed` | `Spec => OnlyCommittedRowsIndexed` |

The invariant has three parts. `QueueInv` has `QueueCoversChanges` at each level of
savepoints, since a rollback goes back to the rows of a level and leaves the queue
as it is: what a level has changed since the index was last told has an item
(`Covered`), and the queue only grows until a commit. `KnownInv` says what the
session knows of its objects: which level touched what, that a row nobody touched
is the committed one, that what is deleted stays deleted in the levels above, and
that every touch has an item that says how. `FollowsInv` says that while nothing is
undone in the queue, `after_commit` can read each object in it, one with a row has
an item that makes the task write it, and the index says what is committed.

What a task makes of the index is a loop over its items. `RecursionExists` shows
that a function defined by recursion on a prefix of the naturals exists, and with
it `ItemsProperties` and `ProcessingProperties` say, of any queue, which items are
sent and what the writer is told: each by the least number of items at which it
would be otherwise. That objects are finitely many (`QueueAssumption`) is what makes
a flush's items a sequence.

`IndexUpdateProofs` proves, for any objects, contents, workers, strategies,
batch sizes and bounds:

| theorem | says |
|---|---|
| `TypeCorrect` | types, and that one writer at most has the lock |
| `NoDuplicates` | `Spec => []OneDocumentPerObject` |
| `CatchesUp` | `Spec => []IndexCatchesUp` |

The property is not inductive: a batch of a progressive reindexing adds without
deleting. `IndInv` adds that what a worker's writer adds it also deletes, that
a reindexing with the lock still has everything to delete, and that while one
without it is not disturbed the index has nothing of the objects whose
documents are to come (`RoomForTheRest`). The proof has a lemma on each operator
of `IndexTask` and one per action. It uses `UpdateAssumption` (the bounds are
natural numbers) and nothing of how many workers or objects there are.

`CatchesUp` rests on `CatchInv`, for any number of workers. What is wrong in an index
that is trusted is outstanding (`WrongIsOutstanding`): a task that waits has an item of
the object, or a worker has told its writer of it and is not done. What a worker will
write of an object is right, or a task that waits or another worker will write it
right, or the worker is late on it: another has written it since it was read
(`Keeps`). Where none of these is so, a task was lost, and then either the worker has
the lock or a reindexing is disturbed (`WrongIsNoticed`). This is why a reindexing that
was not disturbed may be trusted afterwards: a worker that could spoil its work
unnoticed would have kept it waiting, and one that waits itself is late from the
moment the reindexing begins (see "Two workers of the index" below). An
item that says deleted is about an object that has no row and never will
(`DeletedForGood`), since an id is not given twice.

`SecurityProofs` proves, for any users, groups, objects, roles and assignments:

| theorem | says |
|---|---|
| `TypeCorrect` | types |
| `SoundCaches` | `Spec => []CachesAreSound` |
| `CurrentPermissions` | `has_permission` from caches is `has_permission` from rows |
| `ListingsArePermitted`, `PermissionsAreListed` | what a listing shows is permitted, and what is permitted and not listed has a named reason |
| `SearchesAreReadable` | a search finds nothing that the user may not read |

`TypeOK /\ CachesAreSound` is inductive. Each operation changes one assignment, and
`OtherRoles` says that it matters only to its principal and, when that is a
group, to its members: `ungrant_role` drops the caches of all of these, and
`grant_role` may leave the members' because they only lack what the group now
has (`MoreRows`). `CurrentPermissions` follows since a role of a user is its own
or one of its groups' (`WhoseRole`), and whoever it is assigned to has it in its
cache. The other three need no cache: every way to be listed is a way to have
the permission (`PermittedByRole`, `PermittedByTie`). Of the constants they
assume `RulesAssumption`: users, groups and roles are different things, which
the prefixes of `indexable_role` see to in the index.

`AuditProofs` proves, for any sessions, entities, columns, values and bounds:

| theorem | says |
|---|---|
| `TypeCorrect` | types; of a hidden or a large value only the mark is written down |
| `FlagLowered` | `Spec => []FlagIsHeld` |
| `TransactionsTold` | `Spec => []TransactionsTell` |
| `EntriesTellRows` | `Spec => []TrailTellsRows` |

What is committed tells the rows because what a transaction has recorded tells
its instances at every moment (`TransactionTells`), and that is inductive only
with the rest of `EntityOK`: an instance has changes only while they are to be
logged or are stale, and what is stale and still counts is to be logged. The
proof goes entity by entity (`SameEntity`, `OtherSession`): `SetAttributeCoherent`,
`CollectionCoherent` and `CreationTells` are the lemmas about the listeners,
`LogTells` the one about an entry. It uses `ChangesAssumption` (marks are no
values, a large value is not a false one) and `ServiceAssumption`.

`UploadsProofs` proves, for any files, workers and fields:

| theorem | says |
|---|---|
| `TypeCorrect` | types; a form that reads a file has a handle |
| `HandlesAreReadable` | `Spec => []ShownIsReadable` |
| `FormsLeaveUnfinishedOnly` | `Spec => OnlyUnfinishedLeftBehind` |
| `FormsSaveWhatTheyShow` | `Spec => []SavedIsShown` |
| `InvalidFormsKeepFiles` | `Spec => InvalidKeepsFiles` |

The inductive invariant joins what the server has of each file at each point of
`add_file`, and that only a deletion or a day takes it away (`StoreInv`); that a
handle comes to the page only with the answer of the request that made it, and
that a node without a handle has a request outstanding (`PageInv`); and that what
the form has read so far is what the page showed (`PostedInv`). The second of these is
what `FormsLeaveUnfinishedOnly` rests on: a form that leaves a file behind leaves one
whose request is outstanding, and `onFormSubmit`, where it is bound, waits for these. That a file is
saved with its name needs the order of removals: `remove_file` unlinks the content
before the metadata, so who finds the content later finds the name. That a form
that is not valid comes back with its files is about one step, and needs to know
what the steps before it kept (`KeptInv`): while the handles are looked up one after
the other, each is still to be looked up, was found, or is that of a file that has
gone, and such a file is not written again (`GoneIsNotWritten`).

`ConversionProofs` proves, for any calls, documents, servers and crashes:

| theorem | says |
|---|---|
| `TypeCorrect` | types; a thread waits for a process that was started |
| `AloneCallsAreSafe` | `Spec => []AloneIsSafe` |
| `ConversionsAreWhole` | `Spec => []ConvertedWhole` |

For a call alone the attribute is its own from `Popen` to `del` (`AloneInv`);
calls that overlap know of it (`OverlapInv`). That the cache is whole after many
have written the same file over each other rests on `CacheInv`: a file that is not
whole has a writer that will still write what is missing, since whoever empties it
writes all of it afterwards.

`SearchTableProofs` proves, for any filters, draws and loads of the page:

| theorem | says |
|---|---|
| `TypeCorrect` | types; no answer is awaited to a draw to come |
| `HonestIndicator` | `Spec => []IndicatorIsHonest` |
| `HonestExport` | `Spec => []ExportIsShown` |
| `ReloadsAskTheSame` | `(\A page \in Forms : \A f \in Names : IsReloadable(page[f])) => (Spec => ReloadAsksTheSame)` |

What the page asks for lags behind what its filters hold by the text that is being
typed: `Settled` is the filters without it. The request of the last draw asks for
what is settled (`LastAsksSettled`), and so did the one whose answer is displayed
when none is awaited (`ShownIsSettled`), each unless it was asked for while a text
was typed. What the kinds of filters make of their values does not matter here,
and the proof never opens `Val`.

For `ReloadsAskTheSame` it does matter, and the theorem separates what is about one
filter from what is about the order of events. `IsReloadable(filter)` is the first: of
whatever the filter may hold, `save` and then `load` in a new page make something that
asks for the same, or nothing when it asked for nothing. It has no variables; TLC
evaluates it for the filters of the run (`PagesAreReloadable` in `MCSearchTable`). It is
no matter of course: a select-radio whose unset value is not empty does not have it. Of
the order of events, the theorem proves that the saved state is at every moment what
some filters held (`StateIsOfHeld`), and that of the answer that is displayed
(`StateIsShown`), although it is saved from the filters as they are when that answer
comes and not from what was asked.

Only model-checked: `IsReloadable` of the filters of the run, a computation on
sequences of options; and liveness, which is out of the prover's reach:
`TasksAreRun`, `StalledFilesGo`, `EveryConversionReturns`.

## Not modelled

Of the repository: the registry keyed by `id(session)` in an application
context (one context per session is assumed), stopping the service while a
transaction is open, a session shared by threads, an error while a staged file
is renamed into its parent's directory, and writing through a deactivated
session (loading a blob's attributes fails first). Row locks are not modelled:
they order two sessions' flushes, which touch nothing that is shared.

Of indexing: what is in a document (adapters, schema, value providers) and
searching; `clear()`, which also stops the service; `index_objects`, which
nothing calls; several classes in one reindexing; an error while the command
counts a class's rows, which skips the class. A progressive reindexing of a
class that has no rows leaves its documents in the index unless it was told to
clear it (`cli/indexing.py:102` returns before the COMMIT that would delete
them): the model has this, and does not count it as a repair.

Of security: `get_principals` and `entries_for`, which only read; the roles a
caller of `has_permission` may add; that a role change does not reindex
the objects it is about; objects that are deleted, with their assignments.

Two workers of the index: one that has read its objects waits for the lock while
another takes it, for an older and for a newer task; then it writes what it read over
what the newer task wrote. Nothing in the code says that the index survives this, and
nothing repairs it but the next change of the object or a reindexing. `IndexUpdate` has
this behaviour and notes it: a worker that writes an object which another has written
since it read it (`late`) makes an index that `IndexCatchesUp` says nothing of until a
reindexing. The property is that any number of workers go wrong in no other way.
`OneDocumentPerObject` has no such exception.

Of audit: models that are related to an entity and logged under it, savepoints,
reading entries, and the columns of an entry that say who made it and when.

Of uploads: several users (each has a directory of its own), several fields in a
page, downloads, images with a preview, the sizes shown; the chunks and retries of
FileAPI, which the widget does not ask for.

Of conversion: images, metadata, the handlers that nothing registers (Unoconv,
AbiWord, Cloudooo), a hanging pdftotext, temporary files.

Of listings: the length of pages and the global search, the kinds `selectAjax` and
`optional_criterions`, selects of several values, sorting. A page turned while an answer
is awaited is computed from the total of the answer on display: the table may
then ask for a page past the end.

The scripts under `web/resources` are nearly all libraries that the repository
vendors (nvd3, jQuery, DataTables, FileAPI, select2, Bootstrap, RequireJS,
TinyMCE and others). Of DataTables, FileAPI and select2 the functions that the repository's own
scripts run are modelled, with those scripts; the rest is third-party code that
no behaviour of this system depends on, or drawing and event plumbing without a
protocol to check. Modelling it would describe those libraries, not this program.

The other parts are listed, with the reason, in `PROJECT.json`: what two requests
of one user do to a login session (`services/auth/service.py:247`), to the position of
a new vocabulary item (`services/vocabularies/models.py:130`) or to a slug
(`core/entities.py:405`) is a read followed by an insert, which the isolation of
the database decides and nothing in the code does. The md5 of a blob whose content
becomes empty (`core/models/blob.py:82`) stays that of the former content.

## Plan

The core (repository, indexing, security, audit), uploads, conversion and listings
are done. What is left, in this order:

1. Models related to an entity in `AuditService`.
2. `Auth`, `Vocabulary`, `Slugs`: check-then-insert races.
3. `OptionalCriterion` filters, and several file fields in a page.
