--------------------------- MODULE MetadataFilter ---------------------------
(***************************************************************************)
(* MetadataFilterService, src/app/services/metadata_filter.py: what a      *)
(* filter is parsed into, and when it takes a vector's metadata.           *)
(*                                                                         *)
(* A value is its type and a number.  The strings 0 .. 9 are the numerals, *)
(* 10 and 11 are the words "False" and "True", and those from 12 on are    *)
(* other words, which differ in more than case.  A list has items, none of *)
(* them a list, and the number of the string that str makes of it.  Left   *)
(* out are floats and dates, which behave as integers and as strings do,   *)
(* integers above 9, patterns but for the word itself and "%", and which   *)
(* of two lists is the less (ListsUnordered).                              *)
(* Metadata is a function from fields to values; a field that is missing is*)
(* a null, as get makes it, and a nested field is one more name.           *)
(*                                                                         *)
(* A filter in the form of a dictionary is its fields, each with operators *)
(* and values, and at most one of $and, $or and $not; one in the form of   *)
(* SQL is a sequence of words, of which a condition is one.  Texts in which*)
(* something that is no operator follows a condition are left out.         *)
(***************************************************************************)
EXTENDS Integers, Sequences, FiniteSets

CONSTANTS
    Metadatas,  \* the metadata that a filter may see
    Inside,     \* pairs of different strings, the first of which is part of the second
    Phrases,    \* the conditions of SQL: a function from their text
    Dicts,      \* the filters in the form of a dictionary, with all that are nested
    Nesting     \* in them, and how deep they are nested

Keywords == {"AND", "OR", "NOT", "(", ")"}
Keys == {"none", "$and", "$or", "$not"}

ASSUME FilterAssumption ==
    /\ Metadatas # {}
    /\ DOMAIN Phrases \subseteq STRING \ Keywords
    /\ Nesting \in [Dicts -> Nat]
    /\ \A d \in Dicts :
          /\ d.key \in Keys /\ d.args \subseteq Dicts
          /\ \A a \in d.args : Nesting[a] < Nesting[d]
          /\ d.key = "none" => d.args = {}
          /\ d.key = "$not" => \E a \in d.args : d.args = {a}

Null == [type |-> "null", v |-> 0]
Number(n) == [type |-> "integer", v |-> n]
Bool(b) == [type |-> "boolean", v |-> IF b THEN 1 ELSE 0]
Text(n) == [type |-> "string", v |-> n]
List(items, text) == [type |-> "array", items |-> items, v |-> text]
FalseWord == 10
TrueWord == 11
Anything == Text(99)    \* the pattern %

-----------------------------------------------------------------------------
(* Conditions *)

Numeric(a) == a.type \in {"integer", "boolean"}
Comparable(a, b) ==
    \/ Numeric(a) /\ Numeric(b)
    \/ a.type = "string" /\ b.type = "string"

\* == of Python: never raises.
SameScalar(a, b) == a = b \/ (Comparable(a, b) /\ a.v = b.v)
Same(a, b) ==
    \/ SameScalar(a, b)
    \/ /\ a.type = "array" /\ b.type = "array" /\ Len(a.items) = Len(b.items)
       /\ \A i \in DOMAIN a.items : SameScalar(a.items[i], b.items[i])

AsText(a) ==
    CASE a.type = "boolean" -> IF a.v = 1 THEN Text(TrueWord) ELSE Text(FalseWord)
      [] a.type \in {"integer", "array"} -> Text(a.v)
      [] OTHER -> a

\* _convert_value_type: what cannot be converted stays as it is.
Convert(a, type) ==
    CASE a.type = "null" -> a
      [] type = "integer" /\ a.type = "string" /\ a.v \in 0 .. 9 -> Number(a.v)
      [] type = "boolean" /\ a.type # "boolean" -> Bool(AsText(a).v \in {1, TrueWord})
      [] type = "string" -> AsText(a)
      [] OTHER -> a

\* $eq and what the mapping does not know compare for equality.
MapOperator(op) ==
    CASE op = "$ne" -> "NE"
      [] op = "$lt" -> "LT"
      [] op \in {"$le", "$lte"} -> "LE"
      [] op = "$gt" -> "GT"
      [] op \in {"$ge", "$gte"} -> "GE"
      [] op = "$in" -> "IN"
      [] op = "$nin" -> "NOT_IN"
      [] op \in {"$like", "$regex"} -> "LIKE"
      [] op = "$exists" -> "EXISTS"
      [] op = "$null" -> "IS_NULL"
      [] OTHER -> "EQ"

Condition(field, operator, value) ==
    [field |-> field, operator |-> operator, value |-> value]

\* _get_nested_value
FieldValue(metadata, field) ==
    IF field \in DOMAIN metadata THEN metadata[field] ELSE Null

Missing(metadata, c) == FieldValue(metadata, c.field) = Null
Left(metadata, c) == Convert(FieldValue(metadata, c.field), c.value.type)
Right(c) == Convert(c.value, c.value.type)

Ordering == {"LT", "LE", "GT", "GE"}

ASSUME ListsUnordered ==
    \A d \in Dicts : \A f \in d.fields : MapOperator(f[2]) \in Ordering => f[3].type # "array"

\* An order of values that have none, or membership in what is neither a list
\* nor a string.
ConditionRaises(metadata, c) ==
    /\ ~Missing(metadata, c)
    /\ \/ c.operator \in Ordering /\ ~Comparable(Left(metadata, c), Right(c))
       \/ c.operator \in {"IN", "NOT_IN"} /\ c.value.type \notin {"array", "string"}

\* in of Python: an item of a list, a part of a string.
Member(a, b) ==
    IF b.type = "array" THEN \E i \in DOMAIN b.items : Same(a, b.items[i])
    ELSE a.v = b.v \/ <<a.v, b.v>> \in Inside

\* Of the condition that does not raise.
HoldsOf(a, operator, b) ==
    CASE operator = "EQ" -> Same(a, b)
      [] operator = "NE" -> ~Same(a, b)
      [] operator = "LT" -> a.v < b.v
      [] operator = "LE" -> a.v <= b.v
      [] operator = "GT" -> a.v > b.v
      [] operator = "GE" -> a.v >= b.v
      [] operator = "IN" -> Member(a, b)
      [] operator = "NOT_IN" -> ~Member(a, b)
      [] operator = "LIKE" -> b = Anything \/ AsText(a) = AsText(b)
      [] operator = "NOT_LIKE" -> ~(b = Anything \/ AsText(a) = AsText(b))

\* The operators about existence do not look at their value; of the others,
\* none holds of a field that is missing.
EvaluateCondition(metadata, c) ==
    CASE c.operator \in {"EXISTS", "IS_NOT_NULL"} -> ~Missing(metadata, c)
      [] c.operator \in {"NOT_EXISTS", "IS_NULL"} -> Missing(metadata, c)
      [] OTHER -> ~Missing(metadata, c) /\ HoldsOf(Left(metadata, c), c.operator, Right(c))

-----------------------------------------------------------------------------
(* Expressions *)

\* Mutant of Combine: NOT is not known, and what is not known is an AND.
CombineNoNot(operator, results) ==
    IF operator = "OR" THEN results = {} \/ TRUE \in results ELSE FALSE \notin results

\* What is empty takes everything, and AND is what is not said.
Combine(operator, results) ==
    \/ results = {}
    \/ CASE operator = "OR" -> TRUE \in results
         [] operator = "NOT" -> FALSE \in results
         [] OTHER -> FALSE \notin results

Verdict(taken) == IF taken THEN "takes" ELSE "refuses"
ConditionVerdict(metadata, c) ==
    IF ConditionRaises(metadata, c) THEN "raises" ELSE Verdict(EvaluateCondition(metadata, c))

\* Every part is evaluated, and what one raises is not caught.
Decide(operator, verdicts) ==
    IF "raises" \in verdicts THEN "raises"
    ELSE Verdict(Combine(operator, {v = "takes" : v \in verdicts}))

\* A FilterExpression is what _evaluate_expression makes of it: a verdict on
\* all metadata.
Expression(operator, conditions, subs) ==
    [m \in Metadatas |->
        Decide(operator, {ConditionVerdict(m, c) : c \in conditions} \cup {e[m] : e \in subs})]
Empty == Expression("none", {}, {})

\* What there is in the place of an expression if the parser raises.
Malformed == [m \in {} |-> "raises"]

\* A vector whose metadata make a condition raise is refused.
ApplyFilter(metadata, e) == e[metadata] = "takes"

-----------------------------------------------------------------------------
(* Filters as dictionaries *)

\* fields: of <<field, operator, value>>; "$eq" is a value by itself.
Dict(fields, key, args) == [fields |-> fields, key |-> key, args |-> args]

FieldCondition(f) == Condition(f[1], MapOperator(f[2]), f[3])

\* $and before $or before $not, and fields only where there is none of them.
ParseDict[d \in Dicts] ==
    LET parsed == {ParseDict[a] : a \in d.args}
    IN  CASE d.key = "$and" -> Expression("AND", {}, parsed)
          [] d.key = "$or" -> Expression("OR", {}, parsed)
          [] d.key = "$not" -> Expression("NOT", {}, parsed)
          [] OTHER -> Expression("AND", {FieldCondition(f) : f \in d.fields}, {})

-----------------------------------------------------------------------------
(* Filters as SQL *)

Has(s, word) == \E i \in DOMAIN s : s[i] = word
Grouped(s) == Has(s, "(") /\ Has(s, ")")

\* The parts of a text around a word.
Parts(s, word) ==
    LET cuts == {0, Len(s) + 1} \cup {i \in DOMAIN s : s[i] = word}
        around == {p \in cuts \X cuts : p[1] < p[2] /\ ~\E k \in cuts : p[1] < k /\ k < p[2]}
    IN  {SubSeq(s, p[1] + 1, p[2] - 1) : p \in around}

\* How many parentheses are open after the i-th word.
Depth(s, i) ==
    Cardinality({k \in 1 .. i : s[k] = "("}) - Cardinality({k \in 1 .. i : s[k] = ")"})

\* Where the first group in parentheses begins and ends: 0 if none does.
GroupEnd(s) ==
    LET ends == {i \in DOMAIN s : s[i] = ")" /\ Depth(s, i) <= 0}
    IN  IF ends = {} THEN 0 ELSE CHOOSE i \in ends : \A j \in ends : i <= j
GroupStart(s) == CHOOSE i \in DOMAIN s : s[i] = "(" /\ \A j \in DOMAIN s : s[j] = "(" => i <= j

\* What a text is parsed as: an operator on the texts it is cut into, none for
\* what is a condition or nothing at all.
Cut(operator, texts) == [operator |-> operator, texts |-> texts]
NoCut == Cut("none", {})

\* A group that is never closed, and one that is closed before it is opened.
Unbalanced(s) == GroupEnd(s) = 0 \/ Depth(s, GroupEnd(s)) < 0

\* What is before and after the first group: both, and only the group counts;
\* before it, only a NOT; after it, an AND or an OR with all the rest.
CutGroup(s) ==
    LET inner == SubSeq(s, GroupStart(s) + 1, GroupEnd(s) - 1)
        before == SubSeq(s, 1, GroupStart(s) - 1)
        after == SubSeq(s, GroupEnd(s) + 1, Len(s))
    IN  IF Unbalanced(s) THEN NoCut
        ELSE CASE before # <<>> /\ after = <<>> /\ before[Len(before)] = "NOT" -> Cut("NOT", {inner})
               [] before = <<>> /\ after # <<>> /\ after[1] \in {"AND", "OR"} ->
                     Cut(after[1], {inner, Tail(after)})
               [] OTHER -> Cut("none", {inner})

\* Mutant of CutText: a text is cut at AND before it is cut at OR.
CutTextAndFirst(s) ==
    CASE Grouped(s) -> CutGroup(s)
      [] ~Grouped(s) /\ Has(s, "AND") -> Cut("AND", Parts(s, "AND"))
      [] ~Grouped(s) /\ ~Has(s, "AND") /\ Has(s, "OR") -> Cut("OR", Parts(s, "OR"))
      [] OTHER -> NoCut

CutText(s) ==
    CASE Grouped(s) -> CutGroup(s)
      [] ~Grouped(s) /\ Has(s, "OR") -> Cut("OR", Parts(s, "OR"))
      [] ~Grouped(s) /\ ~Has(s, "OR") /\ Has(s, "AND") -> Cut("AND", Parts(s, "AND"))
      [] OTHER -> NoCut

\* A text in which one part cannot be parsed cannot be.
ParseSql[s \in Seq(STRING)] ==
    LET parsed == {ParseSql[t] : t \in CutText(s).texts}
    IN  CASE parsed # {} /\ Malformed \notin parsed -> Expression(CutText(s).operator, {}, parsed)
          [] parsed = {} /\ Len(s) = 1 /\ s[1] \in DOMAIN Phrases ->
                Expression("none", {Phrases[s[1]]}, {})
          [] OTHER -> Malformed

-----------------------------------------------------------------------------
(* What a filter means, for reference *)

\* A filter as a set of metadata.  Of metadata on which a condition raises it
\* says nothing.
Meant[d \in Dicts] ==
    LET meant == {Meant[a] : a \in d.args}
    IN  CASE d.key = "$and" -> {m \in Metadatas : \A M \in meant : m \in M}
          [] d.key = "$or" -> UNION meant
          [] d.key = "$not" -> Metadatas \ UNION meant
          [] OTHER -> {m \in Metadatas :
                          \A f \in d.fields : ConditionVerdict(m, FieldCondition(f)) = "takes"}

\* A dictionary with all that are nested in it.
PartsOf[d \in Dicts] == {d} \cup UNION {PartsOf[a] : a \in d.args}
FieldsOf(d) == UNION {p.fields : p \in PartsOf[d]}

\* The conditions that the code reads as docs/metadata-filtering.md:60-90 has
\* them.  It does not so read $exists and $null with false, nor $not_like.
Documented(f) ==
    \/ f[2] \in {"$eq", "$ne", "$lt", "$lte", "$gt", "$gte", "$like"}
    \/ f[2] \in {"$in", "$nin"} /\ f[3].type = "array"
    \/ f[2] \in {"$exists", "$null"} /\ f[3] = Bool(TRUE)

\* What the documentation has a meaning for: no key beside $and, $or or $not,
\* and something in each of them.
WellFormed(d) ==
    \A p \in PartsOf[d] :
        /\ p.key # "none" => p.fields = {} /\ p.args # {}
        /\ \A f \in p.fields : Documented(f)

\* A text without parentheses is an OR of ANDs of conditions.
MeansSql(metadata, s) ==
    \E p \in Parts(s, "OR") :
        \A i \in DOMAIN p : p[i] # "AND" => EvaluateCondition(metadata, Phrases[p[i]])

=============================================================================
