-------------------------- MODULE MCResponseCache --------------------------
(* Instances of ResponseCache for TLC: request slots are interchangeable.  *)
EXTENDS ResponseCache, TLC

TaskSymmetry == Permutations(Tasks)

=============================================================================
