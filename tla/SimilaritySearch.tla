-------------------------- MODULE SimilaritySearch --------------------------
(***************************************************************************)
(* Scores of DeepLakeService.search_vectors, in                            *)
(* src/app/services/deeplake_service.py, and the indexes of                *)
(* src/app/services/index_service.py.                                      *)
(*                                                                         *)
(* Vectors have two components of -1, 0 or 1.  Scores and distances are on *)
(* a scale of integers that has the order of the code's floats: the cosine *)
(* is squared, with its sign, and One, for which the division leaves no    *)
(* remainder, is the score of equal directions.                            *)
(***************************************************************************)
EXTENDS Integers

One == 4

Dot(a, b) == a[1] * b[1] + a[2] * b[2]
Sign(n) == IF n < 0 THEN -1 ELSE 1

Cosine(q, v) ==
    IF Dot(q, q) = 0 \/ Dot(v, v) = 0 THEN 0
    ELSE Sign(Dot(q, v)) * ((One * Dot(q, v) * Dot(q, v)) \div (Dot(q, q) * Dot(v, v)))

Minus(a, b) == <<a[1] - b[1], a[2] - b[2]>>
SquaredL2(q, v) == Dot(Minus(q, v), Minus(q, v))

\* Every metric that is not the cosine is L2.
Score(metric, q, v) ==
    IF metric = "cosine" THEN Cosine(q, v) ELSE One - SquaredL2(q, v)
Distance(metric, q, v) ==
    IF metric = "cosine" THEN One - Cosine(q, v) ELSE SquaredL2(q, v)

-----------------------------------------------------------------------------
(* Indexes.  A search calls get_search_params and does not use what it      *)
(* returns, so its answer does not depend on them.                          *)

Least(a, b) == IF a < b THEN a ELSE b
Most(a, b) == IF a > b THEN a ELSE b

\* The parameters of HNSW follow the size of the table.
HnswM(m, size) ==
    CASE size < 10000 -> Least(m, 8)
      [] size > 1000000 -> Most(m, 32)
      [] OTHER -> m
HnswEf(ef, size) ==
    CASE size < 10000 -> Least(ef, 100)
      [] size > 1000000 -> Most(ef, 400)
      [] OTHER -> ef

\* An index needs so many vectors, and Deep Lake may refuse to build it: then
\* the index is flat, which is none.
HnswIndex(size, supported) == IF size >= 100 /\ supported THEN "hnsw" ELSE "flat"
IvfIndex(size, nlist, supported) ==
    IF size >= nlist * 40 /\ supported THEN "ivf" ELSE "flat"

\* What create_index answers as the type of the index.
CreateIndex(kind, size, nlist, supported) ==
    CASE kind = "hnsw" -> HnswIndex(size, supported)
      [] kind = "ivf" -> IvfIndex(size, nlist, supported)
      [] OTHER -> kind

\* An insert builds the index of the dataset once there are enough vectors.
IndexAfterInsert(kind, size, supported) ==
    IF size >= 1000 /\ kind # "flat" THEN CreateIndex(kind, size, 100, supported) ELSE "none"

=============================================================================
