--------------------------- MODULE MCVectorTable ---------------------------
(* Instances of VectorTable for TLC: request slots and ids are             *)
(* interchangeable, and a batch holds one or two ids.                      *)
EXTENDS VectorTable, TLC

Pairs == UNION {[1 .. n -> Ids] : n \in 1 .. 2}
Singles == [{1} -> Ids]

\* Where the run stops following a history: once a delete met another request
\* by index, once two updates of one vector met, or once a delete met an insert
\* of a table whose inserts do not all skip.  The invariants say less and less
\* there, and VectorTableProofs proves them of every history.
StillAsked == ~raced /\ ~crossed /\ ~(torn /\ plain)

TableSymmetry == Permutations(Tasks) \cup Permutations(Ids)

=============================================================================
