----------------------------- MODULE MCUploads -----------------------------
(***************************************************************************)
(* Two files.  The field is single, and the widget does not find its form, *)
(* as with the templates of the repository, or is multiple and does.       *)
(***************************************************************************)
EXTENDS Uploads

CONSTANTS f1, f2

MCFields == {[inForm |-> FALSE, multiple |-> FALSE], [inForm |-> TRUE, multiple |-> TRUE]}
=============================================================================
