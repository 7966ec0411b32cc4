------------------------------- MODULE IndexTask -------------------------------
(***************************************************************************)
(* The loop of index_update in services/indexing/service.py.  A task is a  *)
(* list of items, each an operation and the object it was seen on.  The    *)
(* worker looks at the database for each item and tells a whoosh writer    *)
(* what to delete and what to add; nothing is written before the writer    *)
(* commits.                                                                *)
(*                                                                         *)
(* A row is the content of an object in the database, a document is the    *)
(* content that was indexed for it: the index maps each object to the      *)
(* documents under its object_key.                                         *)
(***************************************************************************)
EXTENDS Naturals, Sequences, FiniteSets

CONSTANTS
    Object,     \* indexable objects
    Value,      \* what a row may say
    Absent      \* no row

ASSUME AbsentAssumption == Absent \notin Value

Row == Value \cup {Absent}
Op == {"new", "changed", "deleted"}
Item == Op \X Object

\* What a writer is told: the keys to delete, and the documents to add.
Writer == [deletes : SUBSET Object, adds : [Object -> Seq(Value)]]
FreshWriter == [deletes |-> {}, adds |-> [o \in Object |-> <<>>]]

\* An index without duplicates is one that agrees with some rows.
IndexOf(rows) ==
    [o \in Object |-> IF rows[o] = Absent THEN <<>> ELSE <<rows[o]>>]

(***************************************************************************)
(* The slip the comment in the loop warns of: "don't add twice the same    *)
(* document in same transaction".                                          *)
(***************************************************************************)
ProcessedAgain(writer, item, rows) ==
    LET op == item[1]
        o  == item[2]
    IN  [deletes |-> writer.deletes \cup {o},
         adds |-> IF op = "deleted" \/ rows[o] = Absent
                  THEN writer.adds
                  ELSE [writer.adds EXCEPT ![o] = Append(@, rows[o])]]

\* The slip of adding without deleting first.
ProcessedWithoutDelete(writer, item, rows) ==
    LET op == item[1]
        o  == item[2]
        skipped == op = "deleted" \/ rows[o] = Absent \/ writer.adds[o] # <<>>
    IN  [deletes |-> IF op = "deleted" THEN writer.deletes \cup {o}
                                       ELSE writer.deletes,
         adds |-> IF skipped THEN writer.adds
                  ELSE [writer.adds EXCEPT ![o] = <<rows[o]>>]]

\* The slip of not looking whether the object was found.
ProcessedUnfound(writer, item, rows) ==
    LET op == item[1]
        o  == item[2]
        skipped == op = "deleted" \/ writer.adds[o] # <<>>
    IN  [deletes |-> writer.deletes \cup {o},
         adds |-> IF skipped THEN writer.adds
                  ELSE [writer.adds EXCEPT ![o] = <<rows[o]>>]]

(***************************************************************************)
(* One item: the object's documents are to be deleted, and its row, as it  *)
(* is now, is to be added unless the task has added it already.            *)
(***************************************************************************)
Processed(writer, item, rows) ==
    LET op == item[1]
        o  == item[2]
        skipped == op = "deleted" \/ rows[o] = Absent \/ writer.adds[o] # <<>>
    IN  [deletes |-> writer.deletes \cup {o},
         adds |-> IF skipped THEN writer.adds
                  ELSE [writer.adds EXCEPT ![o] = <<rows[o]>>]]

\* The loop, over all the items of a task.
Processing(items, rows) ==
    LET writer[n \in 0 .. Len(items)] ==
            IF n = 0 THEN FreshWriter
                     ELSE Processed(writer[n - 1], items[n], rows)
    IN  writer[Len(items)]

(***************************************************************************)
(* The writer commits: deletions concern what the index holds, never what  *)
(* the same writer adds.                                                   *)
(***************************************************************************)
Written(index, writer) ==
    [o \in Object |->
        (IF o \in writer.deletes THEN <<>> ELSE index[o]) \o writer.adds[o]]
================================================================================
