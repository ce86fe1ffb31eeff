---------------------------- MODULE HybridRanking ----------------------------
(***************************************************************************)
(* HybridSearchService, src/app/services/hybrid_search_service.py: how the *)
(* text search finds its hits, and what becomes of them.                   *)
(*                                                                         *)
(* A hybrid search is a vector search and a text search, whose hits are    *)
(* fused.  The vector half calls search_vectors with a parameter it does   *)
(* not have; the exception is caught, and the half has no hits.  What the  *)
(* five fusions make of two lists that both have hits, which is never      *)
(* asked of them, is left out, and with it the filter, the reranking and   *)
(* the threshold that come after, as an empty list is returned before.     *)
(*                                                                         *)
(* What the code divides by lengths and logarithms is multiplied out with  *)
(* the constants below.                                                    *)
(***************************************************************************)
EXTENDS Integers, Sequences, FiniteSets, FiniteSetsExt

CONSTANTS
    ShareScale, \* a multiple of the length of every text
    Logs        \* Logs[n, m]: the logarithm of n / m, on a scale of integers

ASSUME RankingAssumption ==
    /\ ShareScale \in Nat
    /\ \A p \in DOMAIN Logs : Logs[p] \in Nat

-----------------------------------------------------------------------------
(* Text search *)

Count(word, text) == Cardinality({i \in DOMAIN text : text[i] = word})
Having(docs, word) == {d \in DOMAIN docs : Count(word, docs[d]) > 0}

TermFrequency(word, text) ==
    IF text = <<>> THEN 0 ELSE (ShareScale * Count(word, text)) \div Len(text)
Idf(docs, word) == Logs[<<Len(docs), Cardinality(Having(docs, word))>>]

\* Mutant of TermScore: the frequency of a word is not taken relative to the text.
TermScoreByCount(docs, word, d) ==
    IF Having(docs, word) = {} THEN 0 ELSE Count(word, docs[d]) * Idf(docs, word)

\* What a word of the query adds to the score of a text.
TermScore(docs, word, d) ==
    IF Having(docs, word) = {} THEN 0 ELSE TermFrequency(word, docs[d]) * Idf(docs, word)

TextScore(docs, query, d) ==
    LET score[k \in 0 .. Len(query)] ==
            IF k = 0 THEN 0 ELSE score[k - 1] + TermScore(docs, query[k], d)
    IN  score[Len(query)]

\* Only scores above 0 are hits.
TextHits(docs, query) == {d \in DOMAIN docs : TextScore(docs, query, d) > 0}

\* The best 2 * top_k; which of two equal ones comes first is open, as it
\* follows the order of a set of strings.
TextOrders(docs, query, topK) ==
    LET hits == TextHits(docs, query)
        n == Min({Cardinality(hits), 2 * topK})
    IN  {s \in [1 .. n -> hits] :
            /\ \A i, j \in 1 .. n : i < j =>
                  s[i] # s[j] /\ TextScore(docs, query, s[i]) >= TextScore(docs, query, s[j])
            /\ \A d \in hits \ {s[i] : i \in 1 .. n}, i \in 1 .. n :
                  TextScore(docs, query, d) <= TextScore(docs, query, s[i])}

-----------------------------------------------------------------------------
(* Fusion *)

\* Both weights 0: the division by their sum raises.
HybridRaises(r) == r.wv + r.wt = 0

\* _vector_search: the hits of the vector half.
VectorHits == <<>>

\* Each fusion gives a score to the hits of both halves, and answers in the
\* order of the scores, which is left open, those that are in result_map: the
\* hits of the vector half.
Fused(vec) ==
    {s \in [DOMAIN vec -> {vec[i] : i \in DOMAIN vec}] : \A i, j \in DOMAIN s : i # j => s[i] # s[j]}

=============================================================================
