------------------------ MODULE RepositoryTransaction ------------------------
(***************************************************************************)
(* One RepositoryTransaction of services/repository/service.py and the     *)
(* chain it forms with its parents.  A transaction stages what a database  *)
(* transaction wants done to the files of blobs: the uuids to write, with  *)
(* their content in a directory of its own, and the uuids to delete.       *)
(*                                                                         *)
(* A chain is a sequence: its first element is the root transaction        *)
(* (_parent is None) and the parent of element i is element i - 1.         *)
(***************************************************************************)
EXTENDS Integers, Sequences, SequencesExt

CONSTANTS
    UUID,       \* uuids of blobs
    Content,    \* contents of files
    Absent,     \* no file
    NullMark    \* _NULL_MARK: no transaction of the chain knows the uuid

ASSUME SentinelAssumption ==
    /\ Absent \notin Content
    /\ NullMark \notin Content
    /\ NullMark # Absent

\* What a file, or its absence, may be.
Cell == Content \cup {Absent}

RepositoryTransactions ==
    [cleared : BOOLEAN, deleted : SUBSET UUID, set : SUBSET UUID,
     dir : [UUID -> Cell]]

EmptyDir == [u \in UUID |-> Absent]

NewTransaction ==
    [cleared |-> FALSE, deleted |-> {}, set |-> {}, dir |-> EmptyDir]

(***************************************************************************)
(* _clear removes the directory and the two sets: a cleared transaction    *)
(* stages nothing.                                                         *)
(***************************************************************************)
ClearedTransaction ==
    [cleared |-> TRUE, deleted |-> {}, set |-> {}, dir |-> EmptyDir]

\* set(): the uuid leaves _deleted, enters _set, and its content is written.
Staged(tr, u, c) ==
    [tr EXCEPT !.deleted = @ \ {u}, !.set = @ \cup {u}, !.dir[u] = c]

\* delete(): the file staged earlier, if any, stays in the directory.
Unstaged(tr, u) ==
    [tr EXCEPT !.deleted = @ \cup {u}, !.set = @ \ {u}]

(***************************************************************************)
(* A slip _commit_parent could have had, put in the place of MergedInto to *)
(* see that a property notices: the parent's own sets are not adjusted.    *)
(***************************************************************************)
MergedIntoAddingOnly(parent, child) ==
    [parent EXCEPT
        !.deleted = @ \cup child.deleted,
        !.set     = @ \cup child.set,
        !.dir     = [u \in UUID |-> IF u \in child.set THEN child.dir[u]
                                                       ELSE @[u]]]

(***************************************************************************)
(* _commit_parent: the parent after the child's changes are merged into    *)
(* it.  The child's files are renamed over the parent's.                   *)
(***************************************************************************)
MergedInto(parent, child) ==
    [parent EXCEPT
        !.deleted = (@ \cup child.deleted) \ child.set,
        !.set     = (@ \cup child.set) \ child.deleted,
        !.dir     = [u \in UUID |-> IF u \in child.set THEN child.dir[u]
                                                       ELSE @[u]]]

\* commit() of the last transaction of a chain that has a parent.
CommittedToParent(chain) ==
    LET n == Len(chain)
    IN  [chain EXCEPT ![n - 1] = MergedInto(chain[n - 1], chain[n]),
                      ![n]     = ClearedTransaction]

Knows(tr, u) == u \in tr.deleted \cup tr.set

StagesNothing(tr) == tr.deleted = {} /\ tr.set = {}

(***************************************************************************)
(* What one transaction says of a uuid, and what the chain says: get()     *)
(* asks the last transaction first, then its parents.                      *)
(***************************************************************************)
Overlay(tr, u) ==
    IF u \in tr.deleted THEN Absent
    ELSE IF u \in tr.set THEN tr.dir[u]
    ELSE NullMark

\* The slip of asking the parents first.
LookupFromRoot(chain, u) ==
    IF \A i \in DOMAIN chain : ~Knows(chain[i], u)
    THEN NullMark
    ELSE LET i == CHOOSE j \in DOMAIN chain :
                    /\ Knows(chain[j], u)
                    /\ \A k \in DOMAIN chain : k < j => ~Knows(chain[k], u)
         IN  Overlay(chain[i], u)

Lookup(chain, u) ==
    IF \A i \in DOMAIN chain : ~Knows(chain[i], u)
    THEN NullMark
    ELSE LET i == CHOOSE j \in DOMAIN chain :
                    /\ Knows(chain[j], u)
                    /\ \A k \in DOMAIN chain : k > j => ~Knows(chain[k], u)
         IN  Overlay(chain[i], u)

(***************************************************************************)
(* A transaction object the code relies on: a uuid is never both to write  *)
(* and to delete, and what is to be written is in the directory            *)
(* (`assert path.exists()` in get(), content.open() in                     *)
(* _commit_repository).                                                    *)
(***************************************************************************)
WellFormed(tr) ==
    /\ tr.set \cap tr.deleted = {}
    /\ \A u \in tr.set : tr.dir[u] \in Content
==============================================================================
