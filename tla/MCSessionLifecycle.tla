------------------------- MODULE MCSessionLifecycle -------------------------
(* Model-checking instances of SessionLifecycle: engines and tasks are     *)
(* interchangeable, so safety runs take their permutations as symmetry.    *)
EXTENDS SessionLifecycle, TLC

Symm == Permutations(Engines) \cup Permutations(Tasks) \cup Permutations(Sessions)

=============================================================================
