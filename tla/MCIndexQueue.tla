----------------------------- MODULE MCIndexQueue -----------------------------
(* IndexQueue for TLC: objects are alike, and so are values.               *)
EXTENDS IndexQueue, TLC

Symmetry == Permutations(Object) \cup Permutations(Value)
================================================================================
