--------------------------- MODULE MCSearchService ---------------------------
(* SearchService on small tables, filters and texts. *)
EXTENDS SearchService, TLC

\* "tech", in "technology" and in "['tech']".
MCInside == {<<12, 13>>, <<12, 30>>}

MCPhrases ==
    "a = 1" :> Condition("a", "EQ", Number(1)) @@
    "b LIKE '%'" :> Condition("b", "LIKE", Anything) @@
    "a IS NULL" :> Condition("a", "IS_NULL", Null)

-----------------------------------------------------------------------------
(* Searches of all small tables *)

Plain == [a |-> Number(1), b |-> Null]
Other == [a |-> Null, b |-> Text(12)]
Row(vec, metadata, sound) == [vec |-> vec, metadata |-> metadata, sound |-> sound]
RowsOfTables ==
    {Row(v, m, TRUE) : v \in {<<1, 0>>, <<1, 1>>, <<-1, 0>>}, m \in {Plain, Other}}
    \cup {Row(<<0, 0>>, Plain, FALSE)}
Tables == UNION {[1 .. n -> RowsOfTables] : n \in 0 .. 3}

SearchOf(rows, query, metric, topK, minScore, maxDistance, withMetadata, filter) ==
    [kind |-> "search", rows |-> rows, query |-> query, metric |-> metric, topK |-> topK,
     minScore |-> minScore, maxDistance |-> maxDistance, withMetadata |-> withMetadata,
     filter |-> filter]

OfDict(d) == [form |-> "dict", dict |-> d]
OfSql(s) == [form |-> "sql", sql |-> s]
HasA == OfDict(Dict({<<"a", "$eq", Number(1)>>}, "none", {}))

TableSearches ==
    {SearchOf(rows, <<1, 0>>, metric, topK, minScore, maxDistance, TRUE, filter) :
        rows \in Tables, metric \in {"cosine", "l2"}, topK \in {1, 2},
        minScore \in {NoScore, 1}, maxDistance \in {NoDistance, 2}, filter \in {NoFilter, HasA}}
    \cup {SearchOf(rows, <<0, 0>>, "cosine", 1, 0, NoDistance, FALSE, HasA) : rows \in Tables}

-----------------------------------------------------------------------------
(* Filters on one table of every kind of metadata *)

MetadataList == <<
    [a |-> Number(1), b |-> Null], [a |-> Number(2), b |-> Text(12)],
    [a |-> Text(1), b |-> Null], [a |-> Null, b |-> Text(12)],
    [a |-> Bool(TRUE), b |-> Number(1)], [a |-> Text(12), b |-> Text(1)],
    [a |-> Null, b |-> Null],
    [a |-> List(<<Number(1)>>, 31), b |-> List(<<Text(12)>>, 30)]>>
MCMetadatas == {MetadataList[i] : i \in DOMAIN MetadataList}
FilterTable == [i \in DOMAIN MetadataList |-> Row(<<1, 0>>, MetadataList[i], TRUE)]

Leaves == {
    <<"a", "$eq", Number(1)>>, <<"a", "$gt", Number(1)>>, <<"b", "$ne", Text(12)>>,
    <<"b", "$in", List(<<Text(12), Number(1)>>, 32)>>, <<"a", "$exists", Bool(FALSE)>>,
    <<"b", "$in", Number(1)>>, <<"b", "$like", Anything>>, <<"a", "$eq", Bool(TRUE)>>,
    <<"a", "$null", Bool(TRUE)>>}
Alone == {<<"b", "$nin", Text(13)>>, <<"a", "$eq", List(<<Bool(TRUE)>>, 33)>>}
Pairs(S) == {{x, y} : x \in S, y \in S}
Singles == {Dict({f}, "none", {}) : f \in Leaves}
Level0 == {Dict(fs, "none", {}) : fs \in Pairs(Leaves) \cup {{f} : f \in Alone}}
Nested(key, args) == Dict({}, key, args)
Level1 ==
    {Nested("$not", {d}) : d \in Level0}
    \cup {Nested(key, args) : key \in {"$and", "$or"}, args \in Pairs(Singles)}
    \cup {Nested("$or", {}), Dict({<<"a", "$eq", Number(1)>>}, "$or", Singles)}
FewSingles == {Dict({f}, "none", {}) : f \in {<<"a", "$gt", Number(1)>>, <<"b", "$ne", Text(12)>>}}
Level2 ==
    {Nested("$not", {d}) : d \in Level1}
    \cup {Nested(key, {d, e}) : key \in {"$and", "$or"}, d \in Level1, e \in FewSingles}
MCDicts == {Dict({}, "none", {})} \cup Level0 \cup Level1 \cup Level2
MCNesting ==
    [d \in MCDicts |-> IF d.args = {} THEN 0 ELSE IF d \in Level1 THEN 1 ELSE 2]

RECURSIVE Chains(_)
Chains(n) ==
    IF n = 1 THEN {<<c>> : c \in DOMAIN MCPhrases}
    ELSE {<<c, op>> \o s : c \in DOMAIN MCPhrases, op \in {"AND", "OR"}, s \in Chains(n - 1)}
Groups == {<<"(">> \o s \o <<")">> : s \in Chains(1) \cup Chains(2)}
Operators == {"AND", "OR"}
Sqls ==
    UNION {Chains(n) : n \in 1 .. 4}
    \cup Groups
    \cup {<<"NOT">> \o g : g \in Groups}
    \cup {g \o <<op>> \o c : g \in Groups, op \in Operators, c \in Chains(1) \cup Groups}
    \cup {c \o <<op>> \o g : c \in Chains(1), op \in Operators, g \in Groups}
    \cup {c \o <<"AND">> \o g \o <<op>> \o c : c \in Chains(1), op \in Operators, g \in Groups}
    \cup {<<"a = 1", "AND", "b IN", "(", "1", ")">>, <<"(", "a = 1">>, <<"b IN">>,
          <<")", "(", "a = 1">>, <<"(", "(", "a = 1", ")">>}

MCFilterSearches ==
    {SearchOf(FilterTable, <<1, 0>>, "cosine", topK, NoScore, NoDistance, TRUE, filter) :
        topK \in {4, 8}, filter \in {OfDict(d) : d \in MCDicts} \cup {OfSql(s) : s \in Sqls}}

-----------------------------------------------------------------------------
(* Texts and indexes *)

MCLogs ==    \* thousandths; what is never asked is 0
    [n \in 1 .. 3, m \in 1 .. 3 |->
        CASE n = 2 /\ m = 1 -> 693
          [] n = 3 /\ m = 1 -> 1099
          [] n = 3 /\ m = 2 -> 405
          [] OTHER -> 0]

Words == {"w", "x"}
Texts == UNION {[1 .. n -> Words] : n \in 0 .. 3}
Hybrids ==
    {[kind |-> "hybrid", docs |-> docs, query |-> query, topK |-> 1, wv |-> wv, wt |-> 1 - wv] :
        docs \in UNION {[1 .. n -> Texts] : n \in 1 .. 3},
        query \in {<<"w">>, <<"w", "x">>, <<"w", "z">>}, wv \in {0, 1}}
    \cup {[kind |-> "hybrid", docs |-> <<<<"w">>>>, query |-> <<"w">>, topK |-> 1, wv |-> 0, wt |-> 0]}

Indexes ==
    {[kind |-> "index", index |-> index, size |-> size, m |-> m, ef |-> ef, nlist |-> 100,
      supported |-> supported] :
        index \in {"hnsw", "ivf", "flat", "default"},
        size \in {0, 99, 100, 3999, 4000, 9999, 10000, 1000000, 1000001},
        m \in {4, 16, 64}, ef \in {50, 200, 500}, supported \in BOOLEAN}

=============================================================================
