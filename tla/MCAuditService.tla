----------------------------- MODULE MCAuditService -----------------------------
(* AuditService for TLC: one session edits the title and the tags of an    *)
(* entity, or deletes it, while the other creates one.                     *)
EXTENDS AuditService

CONSTANTS s1, s2, e1, e2, m1

MCColumnValue == [title |-> {"null", "empty", "a"}, password |-> {"b"}, note |-> {"long"}]
MCNewRow ==
    {[columns |-> [title |-> "null", password |-> "b", note |-> "long"], members |-> {}]}
MCWork == {<<s1, e1>>, <<s2, e2>>}
MCAssigned == {<<e1, "title", "a">>, <<e1, "title", "empty">>}
MCCollected == {<<e1, m1>>}
================================================================================
