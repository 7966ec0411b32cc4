------------------------------- MODULE BlobStore -------------------------------
(***************************************************************************)
(* What the session repository promises: blobs behave as if they were      *)
(* columns of the database.  A session works in layers, one per database   *)
(* transaction it has open; a layer says what becomes of some blobs.       *)
(* Releasing a layer hands its changes to the one below, undoing layers    *)
(* loses their changes, and only the changes of a committed session reach  *)
(* the files, one file at a time.                                          *)
(***************************************************************************)
EXTENDS Integers, Sequences, SequencesExt

CONSTANTS
    Session, UUID, Content, Absent, NullMark, Torn,
    MayDie      \* may the process of a session die?

VARIABLES
    files,      \* the files every session sees
    layers,     \* per session: what each open layer says of each blob
    dead,       \* per session: which layers the database has undone
    committed,  \* per session: its work is committed and being published
    todo        \* per session: blobs it has still to publish

vars == <<files, layers, dead, committed, todo>>

Cell == Content \cup {Absent}
Blank == [u \in UUID |-> NullMark]
Changes(layer) == {u \in UUID : layer[u] # NullMark}
Over(upper, lower) ==
    [u \in UUID |-> IF upper[u] = NullMark THEN lower[u] ELSE upper[u]]

\* The uppermost layer's changes move to the layer below it.
Merged(stack) ==
    LET n == Len(stack)
    IN  [stack EXCEPT ![n - 1] = Over(stack[n], stack[n - 1]), ![n] = Blank]

Depth(s) == Len(layers[s])
Working(s) == ~committed[s]
Live(s) == Working(s) /\ ~dead[s][Depth(s)]

Init ==
    /\ files \in [UUID -> Cell]
    /\ layers = [s \in Session |-> <<Blank>>]
    /\ dead = [s \in Session |-> <<FALSE>>]
    /\ committed = [s \in Session |-> FALSE]
    /\ todo = [s \in Session |-> {}]

\* A blob is given a content, or loses it, in the uppermost layer.
Change(s, u, c) ==
    /\ Live(s)
    /\ layers' = [layers EXCEPT ![s][Depth(s)][u] = c]
    /\ UNCHANGED <<files, dead, committed, todo>>

Open(s) ==
    /\ Live(s)
    /\ layers' = [layers EXCEPT ![s] = Append(@, Blank)]
    /\ dead' = [dead EXCEPT ![s] = Append(@, FALSE)]
    /\ UNCHANGED <<files, committed, todo>>

\* The uppermost layer hands its changes to the layer below.
Release(s) ==
    /\ Live(s)
    /\ Depth(s) > 1
    /\ layers' = [layers EXCEPT ![s] = Merged(layers[s])]
    /\ UNCHANGED <<files, dead, committed, todo>>

\* An empty layer goes; the last one is replaced by a live one.
Leave(s) ==
    /\ Working(s)
    /\ layers[s][Depth(s)] = Blank
    /\ IF Depth(s) = 1
       THEN /\ dead' = [dead EXCEPT ![s] = <<FALSE>>]
            /\ UNCHANGED layers
       ELSE /\ layers' = [layers EXCEPT ![s] = Front(layers[s])]
            /\ dead' = [dead EXCEPT ![s] = Front(dead[s])]
    /\ UNCHANGED <<files, committed, todo>>

\* Releasing the uppermost layer and leaving it at once.
ReleaseAndLeave(s) ==
    /\ Live(s)
    /\ Depth(s) > 1
    /\ layers' = [layers EXCEPT ![s] = Front(Merged(layers[s]))]
    /\ dead' = [dead EXCEPT ![s] = Front(dead[s])]
    /\ UNCHANGED <<files, committed, todo>>

\* The database undoes the work of layer b and of those above it.
Undo(s, b) ==
    /\ Working(s)
    /\ layers' = [layers EXCEPT ![s] =
                    [i \in DOMAIN @ |-> IF i >= b THEN Blank ELSE @[i]]]
    /\ dead' = [dead EXCEPT ![s] = [i \in DOMAIN @ |-> i >= b \/ @[i]]]
    /\ UNCHANGED <<files, committed, todo>>

Commit(s) ==
    /\ Live(s)
    /\ Depth(s) = 1
    /\ committed' = [committed EXCEPT ![s] = TRUE]
    /\ todo' = [todo EXCEPT ![s] = Changes(layers[s][1])]
    /\ UNCHANGED <<files, layers, dead>>

\* A file being written is torn until it has its content.
Tear(s, u) ==
    /\ u \in todo[s]
    /\ layers[s][1][u] # Absent
    /\ files' = [files EXCEPT ![u] = Torn]
    /\ UNCHANGED <<layers, dead, committed, todo>>

Publish(s, u) ==
    /\ u \in todo[s]
    /\ files' = [files EXCEPT ![u] = layers[s][1][u]]
    /\ todo' = [todo EXCEPT ![s] = @ \ {u}]
    /\ UNCHANGED <<layers, dead, committed>>

\* Publishing failed: it starts again with every change.
Restart(s) ==
    /\ committed[s]
    /\ todo' = [todo EXCEPT ![s] = Changes(layers[s][1])]
    /\ UNCHANGED <<files, layers, dead, committed>>

Published(s) ==
    /\ committed[s]
    /\ todo[s] = {}
    /\ layers' = [layers EXCEPT ![s] = <<Blank>>]
    /\ UNCHANGED <<files, dead, committed, todo>>

Finish(s) ==
    /\ committed[s]
    /\ layers[s] = <<Blank>>
    /\ todo[s] = {}
    /\ committed' = [committed EXCEPT ![s] = FALSE]
    /\ dead' = [dead EXCEPT ![s] = <<FALSE>>]
    /\ UNCHANGED <<files, layers, todo>>

\* The process of the session dies: what it did not publish is lost.
Die(s) ==
    /\ MayDie
    /\ layers' = [layers EXCEPT ![s] = <<Blank>>]
    /\ dead' = [dead EXCEPT ![s] = <<FALSE>>]
    /\ committed' = [committed EXCEPT ![s] = FALSE]
    /\ todo' = [todo EXCEPT ![s] = {}]
    /\ UNCHANGED files

Next ==
    \E s \in Session :
        \/ \E u \in UUID :
            \/ \E c \in Cell : Change(s, u, c)
            \/ Tear(s, u)
            \/ Publish(s, u)
        \/ Open(s) \/ Release(s) \/ Leave(s) \/ ReleaseAndLeave(s)
        \/ \E b \in 1 .. Depth(s) : Undo(s, b)
        \/ Commit(s) \/ Restart(s) \/ Published(s) \/ Finish(s)
        \/ Die(s)

Spec == Init /\ [][Next]_vars
================================================================================
