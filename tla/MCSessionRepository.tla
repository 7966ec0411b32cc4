------------------------- MODULE MCSessionRepository -------------------------
(* Symmetry of the model values SessionRepository is checked with.         *)
EXTENDS SessionRepository

Symmetry == Permutations(UUID) \cup Permutations(Content) \cup Permutations(Session)
==============================================================================
