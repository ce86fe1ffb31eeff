---------------------------- MODULE SearchService ----------------------------
(***************************************************************************)
(* What a search answers: DeepLakeService.search_vectors with its metadata *)
(* filter, HybridSearchService with its fusion and its text search, and    *)
(* the index that is built for a search.                                   *)
(*                                                                         *)
(* A search awaits once, for the first rows of the table; the rest runs    *)
(* without a suspension, so a request sees one table.  What the table is   *)
(* while others write to it is in VectorTable, and what becomes of an      *)
(* answer in ResponseCache.                                                *)
(***************************************************************************)
EXTENDS MetadataFilter, SimilaritySearch, HybridRanking

CONSTANTS
    Searches,       \* the requests of each kind, whose fields are below,
    FilterSearches, \* and of these, those of filters
    HybridSearches,
    IndexRequests,
    Oversample      \* how many rows are read for each one wanted: 10

VARIABLES
    request,        \* the request
    phase,          \* how far it is
    expression,     \* metadata_filter_expr
    candidates,     \* candidates, from the one the loop looks at
    results         \* results

vars == <<request, phase, expression, candidates, results>>

(* Every request has a kind.  A "search" has rows, each with its vec, its   *)
(* metadata and whether it is sound, and query, metric, topK, minScore,     *)
(* maxDistance, withMetadata and filter.  A "hybrid" has docs, the contents *)
(* of the table, and query, topK and the weights wv and wt; an "index" has  *)
(* index, size, m, ef, nlist and supported.                                 *)
NoScore == -100
NoDistance == 100
NoFilter == [form |-> "none"]

\* Without include_metadata a row has its fields without their values.
Blank(metadata) == [f \in DOMAIN metadata |-> Null]

IsSearch(r) ==
    /\ r.kind = "search" /\ r.topK \in Nat /\ r.minScore \in Int /\ r.maxDistance \in Int
    /\ r.query \in Int \X Int
    /\ Len(r.rows) \in Nat /\ DOMAIN r.rows = 1 .. Len(r.rows)
    /\ \A i \in DOMAIN r.rows :
          /\ r.rows[i].vec \in Int \X Int
          /\ {r.rows[i].metadata, Blank(r.rows[i].metadata)} \subseteq Metadatas
    /\ \/ r.filter.form = "none"
       \/ r.filter.form = "dict" /\ r.filter.dict \in Dicts
       \/ r.filter.form = "sql" /\ r.filter.sql \in Seq(STRING)

\* Weights are from 0 to 1 in the code.
IsHybrid(r) ==
    /\ r.kind = "hybrid" /\ r.topK \in Nat /\ r.wv \in Nat /\ r.wt \in Nat
    /\ Len(r.query) \in Nat /\ DOMAIN r.query = 1 .. Len(r.query)
    /\ Len(r.docs) \in Nat /\ DOMAIN r.docs = 1 .. Len(r.docs)
    /\ (1 .. Len(r.docs)) \X (1 .. Len(r.docs)) \subseteq DOMAIN Logs
    /\ \A d \in DOMAIN r.docs :
          /\ Len(r.docs[d]) \in Nat /\ DOMAIN r.docs[d] = 1 .. Len(r.docs[d])
          /\ r.docs[d] # <<>> => ShareScale % Len(r.docs[d]) = 0

ASSUME SearchAssumption ==
    /\ Oversample \in Nat
    /\ \A r \in Searches \cup FilterSearches : IsSearch(r)
    /\ \A r \in HybridSearches : IsHybrid(r)
    /\ \A r \in IndexRequests : r.kind = "index"

Init ==
    /\ \/ request \in Searches
       \/ request \in FilterSearches
       \/ request \in HybridSearches
       \/ request \in IndexRequests
    /\ phase = "received"
    /\ expression = Empty
    /\ candidates = <<>>
    /\ results = <<>>

-----------------------------------------------------------------------------
(* search_vectors *)

\* The rows that are read; one that cannot be processed is skipped.
Window == {i \in DOMAIN request.rows : i <= Oversample * request.topK /\ request.rows[i].sound}

Candidate(i) ==
    [row |-> i,
     score |-> Score(request.metric, request.query, request.rows[i].vec),
     distance |-> Distance(request.metric, request.query, request.rows[i].vec)]

\* The metadata the filter sees is that of the answer.
Metadata(i) ==
    IF request.withMetadata THEN request.rows[i].metadata ELSE Blank(request.rows[i].metadata)

\* Mutant of Before: the sort is by distance, in the same direction.
BeforeFarthest(a, b) == a.distance > b.distance \/ (a.distance = b.distance /\ a.row < b.row)

\* The sort is stable.
Before(a, b) == a.score > b.score \/ (a.score = b.score /\ a.row < b.row)

Sorted(S) ==
    [p \in 1 .. Cardinality(S) |-> CHOOSE c \in S : Cardinality({b \in S : Before(b, c)}) = p - 1]

Fail ==
    /\ phase' = "failed"
    /\ UNCHANGED <<request, expression, candidates, results>>

\* The candidates are made and sorted without a suspension.
Fetch ==
    /\ phase = "received" /\ request.kind = "search"
    /\ candidates' = Sorted({Candidate(i) : i \in Window})
    /\ phase' = "sorted"
    /\ UNCHANGED <<request, expression, results>>

\* There is no such dataset, it or its metadata cannot be read, or the query
\* has another dimension.
FetchFails == phase = "received" /\ request.kind = "search" /\ Fail

Parsed(filter) ==
    CASE filter.form = "none" -> Empty
      [] filter.form = "dict" -> ParseDict[filter.dict]
      [] filter.form = "sql" -> ParseSql[filter.sql]

ParseFilter ==
    /\ phase = "sorted"
    /\ expression' = Parsed(request.filter)
    /\ phase' = IF expression' = Malformed THEN "failed" ELSE "filtering"
    /\ UNCHANGED <<request, candidates, results>>

Refused(c) ==
    \/ c.score < request.minScore
    \/ c.distance > request.maxDistance
    \/ request.filter.form # "none" /\ ~ApplyFilter(Metadata(c.row), expression)

Enough == Len(results) >= request.topK

SkipHead ==
    /\ phase = "filtering" /\ candidates # <<>>
    /\ Refused(Head(candidates))
    /\ candidates' = Tail(candidates)
    /\ UNCHANGED <<request, phase, expression, results>>

Result(c, rank) == [id |-> c.row, score |-> c.score, rank |-> rank]

TakeHead ==
    /\ phase = "filtering" /\ candidates # <<>>
    /\ ~Refused(Head(candidates)) /\ ~Enough
    /\ results' = Append(results, Result(Head(candidates), Len(results) + 1))
    /\ candidates' = Tail(candidates)
    /\ UNCHANGED <<request, phase, expression>>

\* The results are answered, and has_more is false whatever is left.
Answer ==
    /\ phase = "filtering"
    /\ candidates # <<>> => ~Refused(Head(candidates)) /\ Enough
    /\ phase' = "answered"
    /\ UNCHANGED <<request, expression, candidates, results>>

-----------------------------------------------------------------------------
(* The other requests *)

Respond(answer) ==
    /\ phase' = "answered"
    /\ results' = answer
    /\ UNCHANGED <<request, expression, candidates>>

\* hybrid_search: the weights are divided by their sum.
RefuseWeights ==
    /\ phase = "received" /\ request.kind = "hybrid" /\ HybridRaises(request)
    /\ Fail

\* The hits of the text half.  Of a half that raises there are none.
TextSearch ==
    /\ phase = "received" /\ request.kind = "hybrid" /\ ~HybridRaises(request)
    /\ \/ \E order \in TextOrders(request.docs, request.query, request.topK) :
             candidates' = [i \in DOMAIN order |->
                               [id |-> order[i], score |-> TextScore(request.docs, request.query, order[i])]]
       \/ candidates' = <<>>
    /\ phase' = "found"
    /\ UNCHANGED <<request, expression, results>>

\* Both halves are there, and fused.
FuseHits ==
    /\ phase = "found"
    /\ \E order \in Fused(VectorHits) : Respond(order)

\* An empty table is taken for one that is not loaded.
BuildIndex ==
    /\ phase = "received" /\ request.kind = "index"
    /\ IF request.size = 0 THEN Fail
       ELSE Respond(<<[index |-> CreateIndex(request.index, request.size, request.nlist, request.supported),
                       m |-> HnswM(request.m, request.size),
                       ef |-> HnswEf(request.ef, request.size)]>>)

Next ==
    \/ Fetch \/ FetchFails \/ ParseFilter \/ SkipHead \/ TakeHead \/ Answer
    \/ RefuseWeights \/ TextSearch \/ FuseHits \/ BuildIndex

Spec == Init /\ [][Next]_vars

-----------------------------------------------------------------------------
(* Properties *)

\* The type invariant; a search never has more results than were asked for.
TypeOK ==
    /\ request.kind \in {"search", "hybrid", "index"}
    /\ phase \in {"received", "sorted", "filtering", "found", "answered", "failed"}
    /\ request.kind = "search" =>
          /\ Len(results) <= request.topK
          /\ Len(candidates) <= Oversample * request.topK
          /\ \A p \in DOMAIN results : results[p].id \in Window /\ results[p].rank = p

Answered(kind) == phase = "answered" /\ request.kind = kind

Within(i) ==
    /\ Candidate(i).score >= request.minScore
    /\ Candidate(i).distance <= request.maxDistance
Passes(i) ==
    Within(i) /\ (request.filter.form = "none" \/ ApplyFilter(Metadata(i), expression))

\* How many rows that pass have a better score, or an equal one and come first.
Rivals(i) ==
    {j \in Window : Passes(j) /\ \/ Candidate(j).score > Candidate(i).score
                                 \/ Candidate(j).score = Candidate(i).score /\ j < i}

\* What is answered are the best of the rows read that pass the thresholds and
\* the filter, each once, in the order of their scores, and no row that passes
\* is left out while a worse one is in, whatever the loop skipped on its way.
BestMatchesInOrder ==
    Answered("search") =>
        /\ \A i \in Window :
              Passes(i) /\ Cardinality(Rivals(i)) < request.topK =>
                  /\ Cardinality(Rivals(i)) < Len(results)
                  /\ results[Cardinality(Rivals(i)) + 1].id = i
        /\ \A p \in DOMAIN results : Passes(results[p].id)

InAnswer(i) == \E p \in DOMAIN results : results[p].id = i
Full == Len(results) = request.topK

\* A filter in the form of a dictionary whose conditions are documented and
\* read so is the Boolean combination that it spells, of the conditions on the
\* metadata of the row, however deep $and, $or and $not are nested: what it
\* means is answered, and nothing else is.  Rows on which a condition raises
\* are refused, whatever the filter means.
FilterIsItsLogic ==
    (Answered("search") /\ request.filter.form = "dict" /\ WellFormed(request.filter.dict)) =>
        \A i \in Window :
            LET raises == \E f \in FieldsOf(request.filter.dict) :
                    ConditionRaises(Metadata(i), FieldCondition(f))
                meant == ~raises /\ Metadata(i) \in Meant[request.filter.dict]
            IN  /\ InAnswer(i) => meant
                /\ (meant /\ Within(i)) => InAnswer(i) \/ Full

\* A filter in the form of SQL without parentheses is an OR of ANDs: AND binds
\* more tightly than OR.
SqlIsItsLogic ==
    (Answered("search") /\ request.filter.form = "sql" /\ ~Grouped(request.filter.sql)) =>
        \A i \in Window :
            LET sql == request.filter.sql
                raises == \E k \in DOMAIN sql :
                    sql[k] \in DOMAIN Phrases /\ ConditionRaises(Metadata(i), Phrases[sql[k]])
                meant == ~raises /\ MeansSql(Metadata(i), sql)
            IN  /\ InAnswer(i) => meant
                /\ (meant /\ Within(i)) => InAnswer(i) \/ Full

\* Of the hits of the text search, none is before another whose share of every
\* word of the query is at least its own, unless their scores are equal.
TextFavours ==
    phase = "found" =>
        \A i, j \in DOMAIN candidates :
            LET Share(p, w) == TermFrequency(w, request.docs[candidates[p].id])
            IN  (\A k \in DOMAIN request.query : Share(i, request.query[k]) >= Share(j, request.query[k]))
                    => i <= j \/ candidates[i].score = candidates[j].score

-----------------------------------------------------------------------------
(* Properties the code does not have *)

\* "category = 'programming' AND (level = 'beginner' OR level = 'intermediate')
\* AND rating > 4.0", docs/metadata-filtering.md:53: what stands on both sides
\* of a group in parentheses counts.
ParenthesesAreKept ==
    (Answered("search") /\ request.filter.form = "sql") =>
        LET sql == request.filter.sql
            start == GroupStart(sql)
        IN  Grouped(sql) /\ start > 2 /\ sql[1] \in DOMAIN Phrases /\ sql[2] = "AND" =>
                \A p \in DOMAIN results : EvaluateCondition(Metadata(results[p].id), Phrases[sql[1]])

\* {"deprecated": {"$exists": false}} is "field doesn't exist",
\* docs/metadata-filtering.md:88: the value of $exists counts.
ExistsReadsItsValue ==
    (Answered("search") /\ request.filter.form = "dict") =>
        \A f \in request.filter.dict.fields, p \in DOMAIN results :
            request.filter.dict.key = "none" /\ f[2] = "$exists" /\ f[3] = Bool(FALSE) =>
                FieldValue(Metadata(results[p].id), f[1]) = Null

\* A filter looks at the metadata of the row whether it is answered or not.
FilterSeesMetadata ==
    (Answered("search") /\ request.filter.form = "dict" /\ WellFormed(request.filter.dict)) =>
        \A i \in Window : ~request.withMetadata /\ Within(i) /\ ~Full /\ ~InAnswer(i) =>
            request.rows[i].metadata \notin Meant[request.filter.dict]

\* A search looks at the whole table.
SearchIsExact ==
    (Answered("search") /\ request.filter.form = "none") =>
        \A i \in DOMAIN request.rows, p \in DOMAIN results :
            request.rows[i].sound /\ ~InAnswer(i) => Candidate(i).score <= results[p].score

\* docs/hybrid-search.md:9, "Text-based Search: Handles exact keyword matching":
\* a hybrid search whose text half has hits answers something.
HybridAnswersHits == (Answered("hybrid") /\ candidates # <<>>) => results # <<>>

\* A word that every text has is found.
TextFinds ==
    (phase = "found" /\ request.docs # <<>>) =>
        \A k \in DOMAIN request.query : Having(request.docs, request.query[k]) # {} => candidates # <<>>

=============================================================================
