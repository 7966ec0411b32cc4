---------------------------- MODULE MCConversion ----------------------------
(***************************************************************************)
(* Two calls: of one server for one document and for two, and of two       *)
(* servers for one document; to PDF and to text.                           *)
(***************************************************************************)
EXTENDS Conversion

CONSTANTS c1, c2, d1, d2, s1, s2

Job(kind, doc, server) == [kind |-> kind, doc |-> doc, server |-> server]
Case(x, y) == [c \in Calls |-> IF c = c1 THEN x ELSE y]

MCCases == {Case(Job("pdf", d1, s1), Job("text", d1, s1)),
            Case(Job("text", d1, s1), Job("text", d1, s2)),
            Case(Job("pdf", d1, s1), Job("pdf", d2, s1))}
=============================================================================
