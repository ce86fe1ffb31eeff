------------------------- MODULE MCDatasetDirectory -------------------------
(* Instances of DatasetDirectory for TLC: request slots are interchangeable. *)
EXTENDS DatasetDirectory, TLC

TaskSymmetry == Permutations(Tasks)
=============================================================================
