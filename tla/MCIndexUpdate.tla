----------------------------- MODULE MCIndexUpdate -----------------------------
(* IndexUpdate for TLC.  Without symmetry: a run checks liveness.          *)
EXTENDS IndexUpdate
================================================================================
