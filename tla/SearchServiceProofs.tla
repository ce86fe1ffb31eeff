------------------------ MODULE SearchServiceProofs ------------------------
(***************************************************************************)
(* Proofs about SearchService: what a search answers, what a filter means  *)
(* and how texts are ranked, for all requests, tables, dictionaries, texts *)
(* of filters and contents.                                                *)
(*                                                                         *)
(* BestMatchesInOrder needs the invariant of the loop, IInv: what was      *)
(* taken passes, what passes was taken or is left, and everything taken    *)
(* comes before everything left in an order that is strict and total.      *)
(* The filters are defined by recursion, over the nesting of a dictionary  *)
(* and over the length of a text.  Recursion says that a function which is *)
(* defined so exists, and LeastRank is the induction.                      *)
(***************************************************************************)
EXTENDS SearchService, FiniteSetTheorems, SequenceTheorems, WellFoundedInduction, TLAPS

(* Induction, recursion and orders, for any sets *)

(* Induction without an operator parameter: of the members of a set that   *)
(* have a rank, one has the least.                                          *)
LEMMA LeastRank ==
  ASSUME NEW T, NEW Rank \in [T -> Nat], NEW B \in SUBSET T, B # {}
  PROVE  \E t \in B : \A u \in B : Rank[t] <= Rank[u]
  <1> DEFINE R == {Rank[t] : t \in B}
  <1>1. R \subseteq Nat /\ R # {}
    OBVIOUS
  <1>2. \E n \in R : \A m \in R : ~(<<m, n>> \in OpToRel(<, Nat))
    BY <1>1, WFMin, NatLessThanWellFounded
  <1>3. \E n \in R : \A m \in R : n <= m
    <2>1. PICK n \in R : \A m \in R : ~(<<m, n>> \in OpToRel(<, Nat))
      BY <1>2
    <2>2. \A m \in R : ~(m < n)
      BY <2>1, <1>1 DEF OpToRel
    <2> QED  BY <1>1, <2>2
  <1> QED  BY <1>3

\* f computes by H what t and what its parts are computed as determine.
Computes(f, T, Part, H) == f = [t \in T |-> H[<<t, {f[u] : u \in Part[t]}>>]]

(* A function that is defined by recursion over parts of a lower rank.     *)
LEMMA Recursion ==
  ASSUME NEW T, NEW V, NEW Rank \in [T -> Nat], NEW Part \in [T -> SUBSET T],
         \A t \in T : \A u \in Part[t] : Rank[u] < Rank[t],
         NEW H \in [T \X SUBSET V -> V]
  PROVE  \E f \in [T -> V] : Computes(f, T, Part, H)
  <1> DEFINE Upto(n) == {t \in T : Rank[t] < n}
             Of(f, t) == H[<<t, {f[u] : u \in Part[t]}>>]
             Approx(f, n) == f \in [T -> V] /\ \A t \in Upto(n) : f[t] = Of(f, t)
  <1>1. \A f, g : \A n \in Nat : Approx(f, n) /\ Approx(g, n) => \A t \in Upto(n) : f[t] = g[t]
    <2> SUFFICES ASSUME NEW f, NEW g, NEW n \in Nat, Approx(f, n), Approx(g, n)
                 PROVE  \A t \in Upto(n) : f[t] = g[t]
      <3> HIDE DEF Approx, Upto
      <3> QED  OBVIOUS
    <2> DEFINE B == {t \in Upto(n) : f[t] # g[t]}
    <2> SUFFICES ASSUME B # {} PROVE FALSE
      OBVIOUS
    <2>1. B \in SUBSET T
      OBVIOUS
    <2>2. PICK t \in B : \A u \in B : Rank[t] <= Rank[u]
      BY <2>1, LeastRank
    <2>3. \A u \in Part[t] : u \in Upto(n) /\ u \notin B
      BY <2>1, <2>2
    <2>4. \A u \in Part[t] : f[u] = g[u]
      BY <2>3
    <2>5. {f[u] : u \in Part[t]} = {g[u] : u \in Part[t]}
      BY <2>4
    <2> QED  BY <2>2, <2>5
  <1>2. [T -> V] # {}
    <2>1. CASE T = {}
      <3>1. [t \in T |-> t] \in [T -> V]
        BY <2>1
      <3> QED  BY <3>1
    <2>2. CASE T # {}
      <3>1. PICK t \in T : TRUE
        BY <2>2
      <3>2. <<t, {}>> \in T \X SUBSET V
        OBVIOUS
      <3>3. H[<<t, {}>>] \in V
        BY <3>2
      <3>4. [u \in T |-> H[<<t, {}>>]] \in [T -> V]
        BY <3>3
      <3> QED  BY <3>4
    <2> QED  BY <2>1, <2>2
  <1>3. \A n \in Nat : \E f : Approx(f, n)
    <2> DEFINE B == {n \in Nat : ~\E f : Approx(f, n)}
               Id == [n \in Nat |-> n]
    <2> SUFFICES ASSUME B # {} PROVE FALSE
      OBVIOUS
    <2>1. PICK n \in B : \A m \in B : n <= m
      <3>1. \E n \in B : \A m \in B : Id[n] <= Id[m]
        BY LeastRank
      <3> QED  BY <3>1
    <2>2. CASE n = 0
      <3>2. PICK f \in [T -> V] : TRUE
        BY <1>2
      <3>3. Approx(f, 0)
        <4>1. Upto(0) = {}
          OBVIOUS
        <4> QED  BY <4>1
      <3> QED  BY <2>1, <2>2, <3>3
    <2>3. CASE n # 0
      <3>1. n - 1 \in Nat /\ n - 1 \notin B
        <4> HIDE DEF Approx
        <4> QED  BY <2>1, <2>3
      <3>2. PICK f : Approx(f, n - 1)
        BY <3>1
      <3> DEFINE g == [t \in T |-> Of(f, t)]
      <3>3. \A t \in T : {f[u] : u \in Part[t]} \in SUBSET V
        BY <3>2
      <3>4. g \in [T -> V]
        BY <3>3
      <3>5. \A t \in Upto(n) : \A u \in Part[t] : g[u] = f[u]
        <4> TAKE t \in Upto(n)
        <4> TAKE u \in Part[t]
        <4>1. u \in T
          OBVIOUS
        <4>2. Rank[u] < Rank[t] /\ Rank[t] < n /\ Rank[u] \in Nat /\ Rank[t] \in Nat /\ n \in Nat
          OBVIOUS
        <4>3. Rank[u] < n - 1
          BY <4>2
        <4> QED  BY <4>1, <4>3, <3>2
      <3>6. \A t \in Upto(n) : g[t] = Of(g, t)
        <4> TAKE t \in Upto(n)
        <4>1. {g[u] : u \in Part[t]} = {f[u] : u \in Part[t]}
          BY ZenonT(40), <3>5
        <4> QED  BY <4>1
      <3> QED  BY <2>1, <3>4, <3>6
    <2> QED  BY <2>2, <2>3
  <1> DEFINE Chosen(t) == CHOOSE f : Approx(f, Rank[t] + 1)
             F == [t \in T |-> Chosen(t)[t]]
  <1>4. \A t \in T : Approx(Chosen(t), Rank[t] + 1)
    <2> TAKE t \in T
    <2>1. Rank[t] + 1 \in Nat
      OBVIOUS
    <2> HIDE DEF Approx
    <2>2. \E f : Approx(f, Rank[t] + 1)
      BY <1>3, <2>1
    <2> QED  BY <2>2
  <1> HIDE DEF Chosen
  <1>5. F \in [T -> V]
    BY <1>4
  <1>6. \A t \in T : F[t] = Of(F, t)
    <2> TAKE t \in T
    <2>1. \A u \in Part[t] : Chosen(t)[u] = F[u]
      <3> TAKE u \in Part[t]
      <3>1. u \in T /\ Rank[u] < Rank[t] /\ Rank[u] \in Nat /\ Rank[t] \in Nat
        OBVIOUS
      <3>2. Approx(Chosen(t), Rank[u] + 1)
        <4>1. Approx(Chosen(t), Rank[t] + 1)
          BY <1>4
        <4>2. Upto(Rank[u] + 1) \subseteq Upto(Rank[t] + 1)
          BY <3>1
        <4> QED  BY <4>1, <4>2
      <3>3. Approx(Chosen(u), Rank[u] + 1)
        <4> HIDE DEF Approx
        <4> QED  BY <1>4, <3>1
      <3>4. u \in Upto(Rank[u] + 1) /\ Rank[u] + 1 \in Nat
        BY <3>1
      <3>5. Chosen(t)[u] = Chosen(u)[u]
        <4> HIDE DEF Approx, Upto
        <4> QED  BY <1>1, <3>2, <3>3, <3>4
      <3> QED  BY <3>1, <3>5
    <2>2. {Chosen(t)[u] : u \in Part[t]} = {F[u] : u \in Part[t]}
      BY <2>1
    <2>3. t \in Upto(Rank[t] + 1)
      OBVIOUS
    <2> QED  BY <1>4, <2>2, <2>3
  <1> QED  BY <1>5, <1>6 DEF Computes

\* Those before c in S, in the order R.
Predecessors(R, S, c) == {b \in S : <<b, c>> \in R}
StrictOrder(R, S) ==
    /\ \A a \in S : <<a, a>> \notin R
    /\ \A a, b, c \in S : <<a, b>> \in R /\ <<b, c>> \in R => <<a, c>> \in R
    /\ \A a, b \in S : a # b => <<a, b>> \in R \/ <<b, a>> \in R

(* Ranks in a finite set with a strict total order: the numbers of those    *)
(* before are 0, 1, ..., each that of one member.                           *)
LEMMA Ranking ==
  ASSUME NEW S, IsFiniteSet(S), NEW R,
         StrictOrder(R, S)
  PROVE  /\ \A c \in S : Cardinality(Predecessors(R, S, c)) \in 0 .. Cardinality(S) - 1
         /\ \A a, b \in S : <<a, b>> \in R <=> Cardinality(Predecessors(R, S, a)) < Cardinality(Predecessors(R, S, b))
         /\ \A k \in 0 .. Cardinality(S) - 1 : \E c \in S : Cardinality(Predecessors(R, S, c)) = k
  <1> DEFINE P(c) == Predecessors(R, S, c)
             n == Cardinality(S)
  <1>0. n \in Nat
    BY FS_CardinalityType
  <1>1. \A c \in S : P(c) \in SUBSET S /\ c \notin P(c)
    BY DEF Predecessors, StrictOrder
  <1>2. \A c \in S : IsFiniteSet(P(c)) /\ Cardinality(P(c)) \in Nat /\ Cardinality(P(c)) < n
    <2> TAKE c \in S
    <2>1. P(c) \in SUBSET (S \ {c})
      BY <1>1
    <2>2. IsFiniteSet(S \ {c}) /\ Cardinality(S \ {c}) = n - 1
      BY FS_RemoveElement
    <2>3. IsFiniteSet(P(c)) /\ Cardinality(P(c)) <= n - 1
      BY <2>1, <2>2, FS_Subset
    <2> QED  BY <2>3, <1>0, FS_CardinalityType
  <1>3. \A a, b \in S : <<a, b>> \in R => Cardinality(P(a)) < Cardinality(P(b))
    <2> TAKE a, b \in S
    <2> HAVE <<a, b>> \in R
    <2>1. P(a) \in SUBSET P(b)
      BY DEF Predecessors, StrictOrder
    <2>2. a \in P(b) /\ a \notin P(a)
      BY DEF Predecessors, StrictOrder
    <2>3. Cardinality(P(a)) <= Cardinality(P(b)) /\ Cardinality(P(a)) # Cardinality(P(b))
      BY <1>2, <2>1, <2>2, FS_Subset
    <2> QED  BY <2>3, <1>2
  <1>4. \A a, b \in S : <<a, b>> \in R <=> Cardinality(P(a)) < Cardinality(P(b))
    <2> TAKE a, b \in S
    <2> HIDE DEF P
    <2>1. Cardinality(P(a)) \in Nat /\ Cardinality(P(b)) \in Nat
      BY <1>2
    <2>2. <<a, b>> \in R => Cardinality(P(a)) < Cardinality(P(b))
      BY <1>3
    <2>3. <<b, a>> \in R => Cardinality(P(b)) < Cardinality(P(a))
      BY <1>3
    <2>4. a = b \/ <<a, b>> \in R \/ <<b, a>> \in R
      BY DEF StrictOrder
    <2> QED  BY <2>1, <2>2, <2>3, <2>4
  <1> DEFINE F == [c \in S |-> Cardinality(P(c))]
  <1>5. F \in [S -> 0 .. n - 1]
    BY <1>0, <1>2
  <1>6. \A a, b \in S : F[a] = F[b] => a = b
    <2> SUFFICES ASSUME NEW a \in S, NEW b \in S, F[a] = F[b], a # b PROVE FALSE
      OBVIOUS
    <2>1. Cardinality(P(a)) = Cardinality(P(b)) /\ Cardinality(P(a)) \in Nat
      BY <1>2
    <2>2. <<a, b>> \in R \/ <<b, a>> \in R
      BY DEF StrictOrder
    <2>3. Cardinality(P(a)) < Cardinality(P(b)) \/ Cardinality(P(b)) < Cardinality(P(a))
      BY <1>3, <2>2
    <2> QED  BY <2>1, <2>3
  <1>7. F \in Injection(S, 0 .. n - 1)
    BY <1>5, <1>6 DEF Injection, IsInjective
  <1>8. IsFiniteSet(0 .. n - 1) /\ Cardinality(0 .. n - 1) = n
    <2>1. 0 \in Int /\ n - 1 \in Int
      BY <1>0
    <2>2. IsFiniteSet(0 .. n - 1) /\ Cardinality(0 .. n - 1) = IF 0 > n - 1 THEN 0 ELSE (n - 1) - 0 + 1
      BY <2>1, FS_Interval
    <2> QED  BY <2>2, <1>0
  <1>9. F \in Surjection(S, 0 .. n - 1)
    BY <1>7, <1>8, FS_Injection
  <1>10. \A k \in 0 .. n - 1 : \E c \in S : F[c] = k
    BY <1>9 DEF Surjection
  <1> QED  BY <1>0, <1>2, <1>4, <1>10

-----------------------------------------------------------------------------
(* Numbers and sequences *)

(* What integer division leaves over is less than the divisor.               *)
LEMMA DivFacts ==
  ASSUME NEW a \in Nat, NEW b \in Nat, b # 0
  PROVE  /\ a \div b \in Nat /\ b * (a \div b) <= a /\ a < b * (a \div b) + b
  OBVIOUS

(* A weight that is not negative keeps the order of what it weighs.          *)
LEMMA TimesMonotone == \A w \in Nat, x, y \in Int : x >= y => w * x >= w * y
  OBVIOUS

(* A part of a sequence, place by place.                                     *)
LEMMA SubSeqOf ==
  ASSUME NEW S, NEW s \in Seq(S), NEW a \in Nat, NEW b \in Int, 1 <= a, a <= b + 1, b <= Len(s)
  PROVE  /\ SubSeq(s, a, b) \in Seq(S)
         /\ Len(SubSeq(s, a, b)) = b - a + 1
         /\ DOMAIN SubSeq(s, a, b) = 1 .. b - a + 1
         /\ \A i \in 1 .. b - a + 1 : SubSeq(s, a, b)[i] = s[a + i - 1]
  <1>0. Len(s) \in Nat /\ DOMAIN s = 1 .. Len(s) /\ \A i \in DOMAIN s : s[i] \in S
    OBVIOUS
  <1>1. \A i \in a .. b : s[i] \in S
    BY <1>0
  <1>a. a \in Int
    OBVIOUS
  <1>2. SubSeq(s, a, b) \in Seq(S)
    BY ONLY <1>1, <1>a, SubSeqProperties, b \in Int
  <1>3. Len(SubSeq(s, a, b)) = IF a <= b THEN b - a + 1 ELSE 0
    BY ONLY <1>1, <1>a, SubSeqProperties, b \in Int
  <1>4. \A i \in 1 .. b - a + 1 : SubSeq(s, a, b)[i] = s[a + i - 1]
    BY ONLY <1>1, <1>a, SubSeqProperties, b \in Int
  <1> QED  BY <1>2, <1>3, <1>4

(* There are n numbers from 1 to n.                                          *)
LEMMA NatInterval ==
  ASSUME NEW n \in Nat
  PROVE  IsFiniteSet(1 .. n) /\ Cardinality(1 .. n) = n
  <1>1. 1 \in Int /\ n \in Int
    OBVIOUS
  <1>2. IsFiniteSet(1 .. n) /\ Cardinality(1 .. n) = IF 1 > n THEN 0 ELSE n - 1 + 1
    BY <1>1, FS_Interval
  <1> QED  BY <1>2

-----------------------------------------------------------------------------
(* Filters as dictionaries *)

Verdicts == {"takes", "refuses", "raises"}
Decisions == [Metadatas -> Verdicts]

(* The verdict of an expression on metadata m, from those of its parts. *)
VerdictsOf(conditions, subs, m) == {ConditionVerdict(m, c) : c \in conditions} \cup {e[m] : e \in subs}

(* An expression decides on metadata by the verdicts of its parts on them.   *)
LEMMA ExpressionAt ==
  ASSUME NEW operator, NEW conditions, NEW subs, NEW m \in Metadatas
  PROVE  Expression(operator, conditions, subs)[m] = Decide(operator, VerdictsOf(conditions, subs, m))
  BY DEF Expression, VerdictsOf

(* A condition takes metadata, refuses them or raises.                       *)
LEMMA ConditionVerdicts == \A m, c : ConditionVerdict(m, c) \in Verdicts
  BY DEF ConditionVerdict, Verdict, Verdicts

(* Whatever an expression is made of, it is a verdict on all metadata.       *)
LEMMA ExpressionDecides ==
  \A operator, conditions, subs : Expression(operator, conditions, subs) \in Decisions
  BY DEF Expression, Decisions, Verdicts, Verdict, Decide

(* _evaluate_expression on results none of which raised: OR wants one that   *)
(* takes, NOT one that refuses, and whatever else none that refuses.         *)
LEMMA Combined ==
  ASSUME NEW operator, NEW S \in SUBSET {"takes", "refuses"}, S # {}
  PROVE  Combine(operator, {v = "takes" : v \in S}) <=>
           CASE operator = "OR" -> "takes" \in S
             [] operator = "NOT" -> "refuses" \in S
             [] OTHER -> "refuses" \notin S
  <1> DEFINE B == {v = "takes" : v \in S}
  <1>1. B # {}
    OBVIOUS
  <1>2. TRUE \in B <=> "takes" \in S
    <2>1. TRUE \in B <=> \E v \in S : TRUE = (v = "takes")
      OBVIOUS
    <2> QED  BY <2>1
  <1>3. FALSE \in B <=> "refuses" \in S
    <2>1. FALSE \in B <=> \E v \in S : FALSE = (v = "takes")
      OBVIOUS
    <2> QED  BY <2>1
  <1> HIDE DEF B
  <1>4. CASE operator = "OR"
    <2>1. Combine(operator, B) <=> TRUE \in B
      BY <1>1, <1>4 DEF Combine
    <2> QED  BY <1>2, <1>4, <2>1 DEF B
  <1>5. CASE operator = "NOT"
    <2>1. Combine(operator, B) <=> FALSE \in B
      BY <1>1, <1>5 DEF Combine
    <2> QED  BY <1>3, <1>5, <2>1 DEF B
  <1>6. CASE operator # "OR" /\ operator # "NOT"
    <2>1. Combine(operator, B) <=> FALSE \notin B
      BY <1>1, <1>6 DEF Combine
    <2> QED  BY <1>3, <1>6, <2>1 DEF B
  <1> QED  BY <1>4, <1>5, <1>6

(* The same with what raises and with no part at all, which takes            *)
(* everything.                                                               *)
LEMMA Decided ==
  ASSUME NEW operator, NEW S \in SUBSET Verdicts
  PROVE  Decide(operator, S) =
           CASE "raises" \in S -> "raises"
             [] "raises" \notin S /\ S = {} -> "takes"
             [] "raises" \notin S /\ S # {} /\ operator = "OR" -> Verdict("takes" \in S)
             [] "raises" \notin S /\ S # {} /\ operator = "NOT" -> Verdict("refuses" \in S)
             [] OTHER -> Verdict("refuses" \notin S)
  <1> DEFINE B == {v = "takes" : v \in S}
  <1>1. CASE "raises" \in S
    BY <1>1 DEF Decide
  <1>2. CASE "raises" \notin S /\ S = {}
    <2>1. B = {}
      BY <1>2
    <2>2. Decide(operator, S) = Verdict(Combine(operator, B))
      BY <1>2 DEF Decide
    <2>4. Combine(operator, B) = TRUE
      BY <2>1 DEF Combine
    <2>5. Verdict(TRUE) = "takes"
      BY DEF Verdict
    <2>6. Decide(operator, S) = "takes"
      BY <2>2, <2>4, <2>5, Zenon
    <2> QED  BY <1>2, <2>6
  <1>3. CASE "raises" \notin S /\ S # {}
    <2>1. S \in SUBSET {"takes", "refuses"}
      BY <1>3 DEF Verdicts
    <2>2. Combine(operator, B) <=>
            CASE operator = "OR" -> "takes" \in S
              [] operator = "NOT" -> "refuses" \in S
              [] OTHER -> "refuses" \notin S
      BY <1>3, <2>1, Combined
    <2>3. Decide(operator, S) = Verdict(Combine(operator, B))
      BY <1>3 DEF Decide
    <2> HIDE DEF B
    <2> QED  BY <1>3, <2>2, <2>3 DEF Verdict
  <1> QED  BY <1>1, <1>2, <1>3

DictAs(d, parsed) ==
    CASE d.key = "$and" -> Expression("AND", {}, parsed)
      [] d.key = "$or" -> Expression("OR", {}, parsed)
      [] d.key = "$not" -> Expression("NOT", {}, parsed)
      [] OTHER -> Expression("AND", {FieldCondition(f) : f \in d.fields}, {})

ArgsOf == [d \in Dicts |-> d.args]

(* The arguments of a dictionary are nested less deep than it is.            *)
LEMMA ArgsRank == /\ ArgsOf \in [Dicts -> SUBSET Dicts]
                  /\ \A d \in Dicts : \A a \in ArgsOf[d] : Nesting[a] < Nesting[d]
                  /\ Nesting \in [Dicts -> Nat]
  BY FilterAssumption DEF ArgsOf

(* The recursion of _parse_dict_expression ends: it has the value its        *)
(* definition says, on every dictionary.                                     *)
LEMMA ParseDictEquation ==
  ParseDict = [d \in Dicts |-> DictAs(d, {ParseDict[a] : a \in d.args})]
  <1> DEFINE H == [x \in Dicts \X SUBSET Decisions |-> DictAs(x[1], x[2])]
  <1>1. \A d, parsed : DictAs(d, parsed) \in Decisions
    BY ExpressionDecides DEF DictAs
  <1>2. H \in [Dicts \X SUBSET Decisions -> Decisions]
    BY <1>1
  <1> HIDE DEF H
  <1>3. PICK f \in [Dicts -> Decisions] : Computes(f, Dicts, ArgsOf, H)
    BY <1>2, ArgsRank, Recursion
  <1>4. \A d \in Dicts : H[<<d, {f[a] : a \in ArgsOf[d]}>>] = DictAs(d, {f[a] : a \in d.args})
    <2> TAKE d \in Dicts
    <2>1. {f[a] : a \in ArgsOf[d]} = {f[a] : a \in d.args}
      BY DEF ArgsOf
    <2>2. {f[a] : a \in d.args} \in SUBSET Decisions
      BY FilterAssumption
    <2>3. <<d, {f[a] : a \in d.args}>> \in Dicts \X SUBSET Decisions
      BY <2>2
    <2> QED  BY <2>1, <2>3 DEF H
  <1>5. f = [d \in Dicts |-> DictAs(d, {f[a] : a \in d.args})]
    BY <1>3, <1>4 DEF Computes
  <1>6. \E g : g = [d \in Dicts |-> DictAs(d, {g[a] : a \in d.args})]
    BY <1>5
  <1> QED  BY <1>6 DEF ParseDict, DictAs

MeantAs(d, meant) ==
    CASE d.key = "$and" -> {m \in Metadatas : \A M \in meant : m \in M}
      [] d.key = "$or" -> UNION meant
      [] d.key = "$not" -> Metadatas \ UNION meant
      [] OTHER -> {m \in Metadatas :
                      \A f \in d.fields : ConditionVerdict(m, FieldCondition(f)) = "takes"}

(* So has the meaning of a dictionary,                                       *)
LEMMA MeantEquation ==
  Meant = [d \in Dicts |-> MeantAs(d, {Meant[a] : a \in d.args})]
  <1> DEFINE V == SUBSET Metadatas
             H == [x \in Dicts \X SUBSET V |-> MeantAs(x[1], x[2])]
  <1>1. \A d \in Dicts, meant \in SUBSET V : MeantAs(d, meant) \in V
    BY DEF MeantAs
  <1>2. H \in [Dicts \X SUBSET V -> V]
    BY <1>1
  <1> HIDE DEF H
  <1>3. PICK f \in [Dicts -> V] : Computes(f, Dicts, ArgsOf, H)
    BY <1>2, ArgsRank, Recursion
  <1>4. \A d \in Dicts : H[<<d, {f[a] : a \in ArgsOf[d]}>>] = MeantAs(d, {f[a] : a \in d.args})
    <2> TAKE d \in Dicts
    <2>1. {f[a] : a \in ArgsOf[d]} = {f[a] : a \in d.args}
      BY DEF ArgsOf
    <2>2. {f[a] : a \in d.args} \in SUBSET V
      BY FilterAssumption
    <2>3. <<d, {f[a] : a \in d.args}>> \in Dicts \X SUBSET V
      BY <2>2
    <2> QED  BY <2>1, <2>3 DEF H
  <1>5. f = [d \in Dicts |-> MeantAs(d, {f[a] : a \in d.args})]
    BY <1>3, <1>4 DEF Computes
  <1>6. \E g : g = [d \in Dicts |-> MeantAs(d, {g[a] : a \in d.args})]
    BY <1>5
  <1> QED  BY <1>6 DEF Meant, MeantAs

(* and so have the dictionaries that are nested in it.                       *)
LEMMA PartsOfEquation ==
  PartsOf = [d \in Dicts |-> {d} \cup UNION {PartsOf[a] : a \in d.args}]
  <1> DEFINE V == SUBSET Dicts
             H == [x \in Dicts \X SUBSET V |-> {x[1]} \cup UNION x[2]]
  <1>2. H \in [Dicts \X SUBSET V -> V]
    OBVIOUS
  <1> HIDE DEF H
  <1>3. PICK f \in [Dicts -> V] : Computes(f, Dicts, ArgsOf, H)
    BY <1>2, ArgsRank, Recursion
  <1>4. \A d \in Dicts : H[<<d, {f[a] : a \in ArgsOf[d]}>>] = {d} \cup UNION {f[a] : a \in d.args}
    <2> TAKE d \in Dicts
    <2>1. {f[a] : a \in ArgsOf[d]} = {f[a] : a \in d.args}
      BY DEF ArgsOf
    <2>2. {f[a] : a \in d.args} \in SUBSET V
      BY FilterAssumption
    <2>3. <<d, {f[a] : a \in d.args}>> \in Dicts \X SUBSET V
      BY <2>2
    <2> QED  BY <2>1, <2>3 DEF H
  <1>5. f = [d \in Dicts |-> {d} \cup UNION {f[a] : a \in d.args}]
    BY <1>3, <1>4 DEF Computes
  <1>6. \E g : g = [d \in Dicts |-> {d} \cup UNION {g[a] : a \in d.args}]
    BY <1>5
  <1> QED  BY <1>6 DEF PartsOf

(* The same for one dictionary. *)
LEMMA DictEquations ==
  ASSUME NEW d \in Dicts
  PROVE  /\ ParseDict[d] = DictAs(d, {ParseDict[a] : a \in d.args})
         /\ Meant[d] = MeantAs(d, {Meant[a] : a \in d.args})
         /\ PartsOf[d] = {d} \cup UNION {PartsOf[a] : a \in d.args}
  <1>1. ParseDict[d] = DictAs(d, {ParseDict[a] : a \in d.args})
    <2> DEFINE g == [e \in Dicts |-> DictAs(e, {ParseDict[a] : a \in e.args})]
    <2>1. ParseDict = g
      BY ParseDictEquation
    <2>2. g[d] = DictAs(d, {ParseDict[a] : a \in d.args})
      OBVIOUS
    <2> HIDE DEF g
    <2> QED  BY <2>1, <2>2
  <1>2. Meant[d] = MeantAs(d, {Meant[a] : a \in d.args})
    <2> DEFINE g == [e \in Dicts |-> MeantAs(e, {Meant[a] : a \in e.args})]
    <2>1. Meant = g
      BY MeantEquation
    <2>2. g[d] = MeantAs(d, {Meant[a] : a \in d.args})
      OBVIOUS
    <2> HIDE DEF g
    <2> QED  BY <2>1, <2>2
  <1>3. PartsOf[d] = {d} \cup UNION {PartsOf[a] : a \in d.args}
    <2> DEFINE g == [e \in Dicts |-> {e} \cup UNION {PartsOf[a] : a \in e.args}]
    <2>1. PartsOf = g
      BY PartsOfEquation
    <2>2. g[d] = {d} \cup UNION {PartsOf[a] : a \in d.args}
      OBVIOUS
    <2> HIDE DEF g
    <2> QED  BY <2>1, <2>2
  <1> QED  BY <1>1, <1>2, <1>3

(* What a dictionary is parsed into is a verdict on all metadata: no         *)
(* dictionary is refused.                                                    *)
LEMMA DictsDecide == \A d \in Dicts : ParseDict[d] \in Decisions
  <1>1. \A d, parsed : DictAs(d, parsed) \in Decisions
    BY ExpressionDecides DEF DictAs
  <1> TAKE d \in Dicts
  <1>2. ParseDict[d] = DictAs(d, {ParseDict[a] : a \in d.args})
    BY DictEquations
  <1> QED  BY <1>1, <1>2

(* The fields and the form of a dictionary are its own and those of its      *)
(* arguments.                                                                *)
LEMMA PartsAndFields ==
  ASSUME NEW d \in Dicts
  PROVE  /\ FieldsOf(d) = d.fields \cup UNION {FieldsOf(a) : a \in d.args}
         /\ WellFormed(d) =>
               /\ d.key # "none" => d.fields = {} /\ d.args # {}
               /\ \A a \in d.args : WellFormed(a)
  <1>1. PartsOf[d] = {d} \cup UNION {PartsOf[a] : a \in d.args}
    BY DictEquations
  <1>2. FieldsOf(d) = d.fields \cup UNION {FieldsOf(a) : a \in d.args}
    BY <1>1 DEF FieldsOf
  <1>3. WellFormed(d) => (d.key # "none" => d.fields = {} /\ d.args # {})
    BY <1>1 DEF WellFormed
  <1>4. WellFormed(d) => \A a \in d.args : WellFormed(a)
    BY <1>1 DEF WellFormed
  <1> QED  BY <1>2, <1>3, <1>4

Raises(d, m) == \E f \in FieldsOf(d) : ConditionRaises(m, FieldCondition(f))
AsMeant(d, m) == ParseDict[d][m] = IF Raises(d, m) THEN "raises" ELSE Verdict(m \in Meant[d])

(* A dictionary of fields means that all its conditions hold.                *)
LEMMA FieldsAsMeant ==
  ASSUME NEW d \in Dicts, NEW m \in Metadatas, d.key = "none"
  PROVE  AsMeant(d, m)
  <1> DEFINE C == {FieldCondition(f) : f \in d.fields}
             S == VerdictsOf(C, {}, m)
  <1>1. d.args = {}
    BY FilterAssumption
  <1>2. ParseDict[d] = Expression("AND", C, {})
    BY DictEquations DEF DictAs
  <1>3. Meant[d] = {n \in Metadatas : \A f \in d.fields : ConditionVerdict(n, FieldCondition(f)) = "takes"}
    BY DictEquations DEF MeantAs
  <1>4. FieldsOf(d) = d.fields
    <2>1. FieldsOf(d) = d.fields \cup UNION {FieldsOf(a) : a \in d.args}
      BY PartsAndFields
    <2>2. {FieldsOf(a) : a \in d.args} = {}
      BY <1>1
    <2> QED  BY <2>1, <2>2
  <1>5. S = {ConditionVerdict(m, FieldCondition(f)) : f \in d.fields}
    BY DEF VerdictsOf
  <1>s. S \in SUBSET Verdicts /\ ParseDict[d][m] = Decide("AND", S)
    <2>1. S \in SUBSET Verdicts
      BY <1>5, ConditionVerdicts
    <2> HIDE DEF C
    <2> QED  BY <1>2, <2>1, ExpressionAt
  <1>6. "raises" \in S <=> Raises(d, m)
    <2>1. \A f : ConditionVerdict(m, FieldCondition(f)) = "raises" <=> ConditionRaises(m, FieldCondition(f))
      BY DEF ConditionVerdict, Verdict
    <2> QED  BY <1>4, <1>5, <2>1 DEF Raises
  <1>7. m \in Meant[d] <=> \A v \in S : v = "takes"
    BY <1>3, <1>5
  <1> HIDE DEF S
  <1>8. CASE Raises(d, m)
    BY <1>s, <1>6, <1>8, Decided DEF AsMeant
  <1>9. CASE ~Raises(d, m)
    <2>1. m \in Meant[d] <=> "refuses" \notin S
      BY <1>s, <1>6, <1>7, <1>9 DEF Verdicts
    <2>2. ParseDict[d][m] = Verdict("refuses" \notin S)
      BY <1>s, <1>6, <1>9, Decided DEF Verdict
    <2> QED  BY <1>9, <2>1, <2>2 DEF AsMeant, Verdict
  <1> QED  BY <1>8, <1>9

(* If the arguments of $and, $or or $not mean what they spell, so does the   *)
(* dictionary.                                                               *)
LEMMA NestedAsMeant ==
  ASSUME NEW d \in Dicts, NEW m \in Metadatas, d.key # "none", d.fields = {}, d.args # {},
         \A a \in d.args : AsMeant(a, m)
  PROVE  AsMeant(d, m)
  <1> DEFINE E == {ParseDict[a] : a \in d.args}
             S == VerdictsOf({}, E, m)
             operator == CASE d.key = "$and" -> "AND" [] d.key = "$or" -> "OR" [] d.key = "$not" -> "NOT"
  <1>1. d.key \in {"$and", "$or", "$not"} /\ d.args \subseteq Dicts
    BY FilterAssumption DEF Keys
  <1>2. ParseDict[d] = Expression(operator, {}, E)
    BY <1>1, DictEquations DEF DictAs
  <1>3. FieldsOf(d) = UNION {FieldsOf(a) : a \in d.args}
    BY PartsAndFields
  <1>4. S = {ParseDict[a][m] : a \in d.args}
    BY DEF VerdictsOf
  <1>5. Raises(d, m) <=> \E a \in d.args : Raises(a, m)
    BY <1>3 DEF Raises
  <1>6. \A a \in d.args : ParseDict[a][m] = IF Raises(a, m) THEN "raises" ELSE Verdict(m \in Meant[a])
    BY DEF AsMeant
  <1>7. "raises" \in S <=> Raises(d, m)
    BY <1>4, <1>5, <1>6 DEF Verdict
  <1>8. S \in SUBSET Verdicts /\ S # {}
    BY <1>4, <1>6 DEF Verdict, Verdicts
  <1>9. ParseDict[d][m] = Decide(operator, S)
    <2> HIDE DEF E, operator
    <2> QED  BY <1>2, ExpressionAt
  <1> HIDE DEF S
  <1>10. CASE Raises(d, m)
    BY <1>7, <1>8, <1>9, <1>10, Decided DEF AsMeant
  <1>11. CASE ~Raises(d, m)
    <2>1. \A a \in d.args : ParseDict[a][m] = Verdict(m \in Meant[a])
      BY <1>5, <1>6, <1>11
    <2>2. "takes" \in S <=> \E a \in d.args : m \in Meant[a]
      BY <1>4, <2>1 DEF Verdict
    <2>3. "refuses" \in S <=> \E a \in d.args : m \notin Meant[a]
      BY <1>4, <2>1 DEF Verdict
    <2>4. Meant[d] = MeantAs(d, {Meant[a] : a \in d.args})
      BY DictEquations
    <2>5. CASE d.key = "$and"
      <3>1. m \in Meant[d] <=> \A a \in d.args : m \in Meant[a]
        BY <2>4, <2>5 DEF MeantAs
      <3>2. Decide("AND", S) = Verdict("refuses" \notin S)
        BY <1>7, <1>8, <1>11, Decided
      <3> QED  BY <1>9, <1>11, <2>3, <2>5, <3>1, <3>2 DEF AsMeant, Verdict
    <2>6. CASE d.key = "$or"
      <3>1. m \in Meant[d] <=> \E a \in d.args : m \in Meant[a]
        BY <2>4, <2>6 DEF MeantAs
      <3>2. Decide("OR", S) = Verdict("takes" \in S)
        BY <1>7, <1>8, <1>11, Decided
      <3> QED  BY <1>9, <1>11, <2>2, <2>6, <3>1, <3>2 DEF AsMeant, Verdict
    <2>7. CASE d.key = "$not"
      <3>1. m \in Meant[d] <=> ~\E a \in d.args : m \in Meant[a]
        BY <2>4, <2>7 DEF MeantAs
      <3>2. Decide("NOT", S) = Verdict("refuses" \in S)
        BY <1>7, <1>8, <1>11, Decided
      <3>3. PICK a \in d.args : d.args = {a}
        BY <2>7, FilterAssumption
      <3> QED  BY <1>9, <1>11, <2>3, <2>7, <3>1, <3>2, <3>3 DEF AsMeant, Verdict
    <2> QED  BY <1>1, <2>5, <2>6, <2>7
  <1> QED  BY <1>10, <1>11

(* What a dictionary is parsed into means what it spells, however deep. *)
LEMMA DictMeans ==
  ASSUME NEW m \in Metadatas
  PROVE  \A d \in Dicts : WellFormed(d) => AsMeant(d, m)
  <1> DEFINE B == {d \in Dicts : WellFormed(d) /\ ~AsMeant(d, m)}
  <1> SUFFICES ASSUME B # {} PROVE FALSE
    OBVIOUS
  <1>1. PICK d \in B : \A e \in B : Nesting[d] <= Nesting[e]
    BY LeastRank, ArgsRank
  <1>2. \A a \in d.args : a \in Dicts /\ WellFormed(a) /\ a \notin B
    <2> TAKE a \in d.args
    <2>1. a \in Dicts /\ WellFormed(a)
      BY PartsAndFields, FilterAssumption
    <2>2. Nesting[a] < Nesting[d] /\ Nesting[a] \in Nat /\ Nesting[d] \in Nat
      BY <2>1, FilterAssumption
    <2> HIDE DEF B
    <2> QED  BY <1>1, <2>1, <2>2
  <1>3. \A a \in d.args : AsMeant(a, m)
    BY <1>2
  <1>4. CASE d.key = "none"
    BY <1>4, FieldsAsMeant
  <1>5. CASE d.key # "none"
    BY <1>3, <1>5, NestedAsMeant, PartsAndFields
  <1> QED  BY <1>4, <1>5

-----------------------------------------------------------------------------
(* Filters as SQL *)

(* A part of a text around a word has the text's words without that one, and *)
(* is shorter if the word is there.                                          *)
LEMMA PartsInside ==
  ASSUME NEW s \in Seq(STRING), NEW word, NEW q \in Parts(s, word)
  PROVE  /\ q \in Seq(STRING)
         /\ \A i \in DOMAIN q : q[i] # word /\ \E k \in DOMAIN s : s[k] = q[i]
         /\ Has(s, word) => Len(q) < Len(s)
  <1> DEFINE cuts == {0, Len(s) + 1} \cup {i \in DOMAIN s : s[i] = word}
  <1>0. Len(s) \in Nat /\ DOMAIN s = 1 .. Len(s)
    OBVIOUS
  <1>1. PICK p \in cuts \X cuts : /\ p[1] < p[2] /\ ~\E k \in cuts : p[1] < k /\ k < p[2]
                                  /\ q = SubSeq(s, p[1] + 1, p[2] - 1)
    BY DEF Parts
  <1> DEFINE a == p[1] + 1
             b == p[2] - 1
  <1>2. p[1] \in Nat /\ p[2] \in Nat /\ a \in Nat /\ b \in Int /\ 1 <= a /\ a <= b + 1 /\ b <= Len(s)
    BY <1>0, <1>1
  <1>3. /\ q \in Seq(STRING) /\ Len(q) = b - a + 1
        /\ DOMAIN q = 1 .. b - a + 1
        /\ \A i \in 1 .. b - a + 1 : q[i] = s[a + i - 1]
    <2> HIDE DEF a, b
    <2>1. q = SubSeq(s, a, b)
      BY <1>1 DEF a, b
    <2> QED  BY <1>2, <2>1, SubSeqOf
  <1>4. \A i \in DOMAIN q : a + i - 1 \in DOMAIN s /\ p[1] < a + i - 1 /\ a + i - 1 < p[2]
    <2> TAKE i \in DOMAIN q
    <2>1. i \in 1 .. b - a + 1
      BY <1>3
    <2>2. i \in Int /\ 1 <= i /\ i <= b - a + 1
      BY <1>2, <2>1
    <2> QED  BY SMTT(30), <1>0, <1>2, <2>2
  <1>5. \A i \in DOMAIN q : q[i] # word /\ q[i] = s[a + i - 1]
    <2> TAKE i \in DOMAIN q
    <2>1. q[i] = s[a + i - 1]
      BY <1>3
    <2>2. a + i - 1 \in DOMAIN s /\ a + i - 1 \notin cuts
      BY <1>1, <1>4
    <2> QED  BY <2>1, <2>2
  <1>6. ASSUME Has(s, word) PROVE Len(q) < Len(s)
    <2>1. PICK k \in DOMAIN s : s[k] = word
      BY <1>6 DEF Has
    <2>2. k \in cuts
      BY <2>1
    <2>3. ~(p[1] = 0 /\ p[2] = Len(s) + 1)
      BY <1>0, <1>1, <2>1, <2>2
    <2>4. p[1] \in 0 .. Len(s) + 1 /\ p[2] \in 0 .. Len(s) + 1
      BY <1>0
    <2>5. p[2] - p[1] < Len(s) + 1
      BY <1>0, <1>2, <2>3, <2>4
    <2>6. Len(q) = p[2] - p[1] - 1
      BY <1>2, <1>3
    <2> QED  BY <1>0, <1>2, <2>5, <2>6
  <1> QED  BY <1>3, <1>4, <1>5, <1>6

(* Every other word of the text is in one of the parts.                      *)
LEMMA PartsCover ==
  ASSUME NEW s \in Seq(STRING), NEW word, NEW k \in DOMAIN s, s[k] # word
  PROVE  \E q \in Parts(s, word) : \E i \in DOMAIN q : q[i] = s[k]
  <1> DEFINE cuts == {0, Len(s) + 1} \cup {i \in DOMAIN s : s[i] = word}
             Id == [n \in Nat |-> n]
             Far == [n \in cuts |-> Len(s) + 1 - n]
             B == {n \in cuts : n < k}
             A == {n \in cuts : k < n}
  <1>0. Len(s) \in Nat /\ DOMAIN s = 1 .. Len(s) /\ cuts \in SUBSET Nat /\ k \in Nat
    OBVIOUS
  <1>1. k \notin cuts
    BY <1>0
  <1>2. PICK hi \in A : \A n \in A : hi <= n
    <2>1. A \in SUBSET Nat /\ A # {}
      BY <1>0
    <2>2. Id \in [Nat -> Nat]
      OBVIOUS
    <2> HIDE DEF A, Id
    <2>3. \E t \in A : \A u \in A : Id[t] <= Id[u]
      BY <2>1, <2>2, LeastRank
    <2> QED  BY <2>1, <2>3 DEF Id
  <1>3. PICK lo \in B : \A n \in B : n <= lo
    <2>1. B \in SUBSET cuts /\ B # {} /\ Far \in [cuts -> Nat]
      BY <1>0
    <2> HIDE DEF B, Far, cuts
    <2>2. \E t \in B : \A u \in B : Far[t] <= Far[u]
      BY <2>1, LeastRank
    <2>3. PICK t \in B : \A u \in B : Len(s) + 1 - t <= Len(s) + 1 - u
      BY <2>1, <2>2 DEF Far
    <2>4. \A u \in B : u \in Nat /\ t \in Nat
      BY <1>0, <2>1
    <2>5. \A u \in B : u <= t
      BY <1>0, <2>3, <2>4
    <2> QED  BY <2>5
  <1>4. lo \in cuts /\ hi \in cuts /\ lo < k /\ k < hi /\ lo \in Nat /\ hi \in Nat
    BY <1>0
  <1>5. ~\E n \in cuts : lo < n /\ n < hi
    <2> SUFFICES ASSUME NEW n \in cuts, lo < n, n < hi PROVE FALSE
      OBVIOUS
    <2>1. n \in Nat /\ n # k
      BY <1>0, <1>1
    <2>2. n \in A \/ n \in B
      BY <1>0, <2>1
    <2> QED  BY <1>0, <1>2, <1>3, <1>4, <2>1, <2>2
  <1> DEFINE a == lo + 1
             b == hi - 1
             q == SubSeq(s, a, b)
  <1>6. q \in Parts(s, word)
    <2>1. <<lo, hi>> \in cuts \X cuts
      BY <1>4
    <2> HIDE DEF q
    <2> DEFINE p == <<lo, hi>>
    <2>2. p[1] = lo /\ p[2] = hi /\ p \in cuts \X cuts
      BY <2>1
    <2>3. q = SubSeq(s, p[1] + 1, p[2] - 1)
      BY <2>2 DEF q
    <2>4. p[1] < p[2] /\ ~\E n \in cuts : p[1] < n /\ n < p[2]
      BY <1>4, <1>5, <2>2
    <2> HIDE DEF p
    <2> QED  BY <2>2, <2>3, <2>4 DEF Parts
  <1>7. hi <= Len(s) + 1
    BY <1>0, <1>4
  <1>8. a \in Nat /\ b \in Int /\ 1 <= a /\ a <= b + 1 /\ b <= Len(s)
    BY <1>0, <1>4, <1>7
  <1>9. DOMAIN q = 1 .. b - a + 1 /\ \A i \in 1 .. b - a + 1 : q[i] = s[a + i - 1]
    <2> HIDE DEF a, b
    <2> QED  BY <1>8, SubSeqOf
  <1>10. k - lo \in 1 .. b - a + 1 /\ a + (k - lo) - 1 = k
    BY <1>0, <1>4
  <1>11. k - lo \in DOMAIN q /\ q[k - lo] = s[k]
    <2> HIDE DEF q
    <2> QED  BY <1>9, <1>10
  <1> HIDE DEF q
  <1> QED  BY <1>6, <1>11

(* A text without the word is its own only part.                             *)
LEMMA PartsWhole ==
  ASSUME NEW s \in Seq(STRING), NEW word, ~Has(s, word)
  PROVE  Parts(s, word) = {s}
  <1> DEFINE cuts == {0, Len(s) + 1} \cup {i \in DOMAIN s : s[i] = word}
             around == {p \in cuts \X cuts : p[1] < p[2] /\ ~\E k \in cuts : p[1] < k /\ k < p[2]}
  <1>0. Len(s) \in Nat
    OBVIOUS
  <1>1. cuts = {0, Len(s) + 1}
    BY DEF Has
  <1>2. around = {<<0, Len(s) + 1>>}
    <2>1. \A p \in around : p = <<0, Len(s) + 1>>
      BY <1>0, <1>1
    <2>2. <<0, Len(s) + 1>> \in around
      BY <1>0, <1>1
    <2> HIDE DEF around
    <2> QED  BY <2>1, <2>2
  <1>3. Parts(s, word) = {SubSeq(s, p[1] + 1, p[2] - 1) : p \in around}
    BY DEF Parts
  <1> HIDE DEF around
  <1>4. Parts(s, word) = {SubSeq(s, <<0, Len(s) + 1>>[1] + 1, <<0, Len(s) + 1>>[2] - 1)}
    BY <1>2, <1>3, Zenon
  <1>5. <<0, Len(s) + 1>>[1] + 1 = 1 /\ <<0, Len(s) + 1>>[2] - 1 = Len(s)
    BY <1>0
  <1>6. SubSeq(s, 1, Len(s)) = s
    BY SubSeqFull
  <1> QED  BY <1>4, <1>5, <1>6

Texts == Seq(STRING)
CutOf == [s \in Texts |-> CutText(s).texts]
LenOf == [s \in Texts |-> Len(s)]

(* What is cut from a text at either side is shorter.                        *)
LEMMA ShorterSubSeq ==
  ASSUME NEW s \in Texts, NEW a \in Nat, NEW b \in Int, 1 <= a, b <= Len(s), 1 < a \/ b < Len(s), a <= Len(s) + 1
  PROVE  SubSeq(s, a, b) \in Texts /\ Len(SubSeq(s, a, b)) < Len(s) + (IF s = <<>> THEN 1 ELSE 0)
  <1>0. Len(s) \in Nat /\ s \in Seq(STRING)
    BY DEF Texts
  <1>1. CASE a <= b + 1
    <2>1. SubSeq(s, a, b) \in Texts /\ Len(SubSeq(s, a, b)) = b - a + 1
      BY <1>0, <1>1, SubSeqOf DEF Texts
    <2> QED  BY <1>0, <2>1
  <1>2. CASE ~(a <= b + 1)
    <2>1. SubSeq(s, a, b) = <<>>
      <3>1. a \in Int /\ b < a
        BY <1>2
      <3> QED  BY <3>1, SubSeqEmpty
    <2>2. s # <<>> => Len(s) > 0
      BY <1>0
    <2> QED  BY <1>0, <2>1, <2>2 DEF Texts
  <1> QED  BY <1>1, <1>2

(* The ends of a first group that is balanced. *)
LEMMA GroupEnds ==
  ASSUME NEW s \in Texts, Grouped(s), ~Unbalanced(s)
  PROVE  GroupStart(s) \in DOMAIN s /\ GroupEnd(s) \in DOMAIN s
  <1> DEFINE opens == {i \in DOMAIN s : s[i] = "("}
             ends == {i \in DOMAIN s : s[i] = ")" /\ Depth(s, i) <= 0}
             Id == [n \in Nat |-> n]
  <1>0. Len(s) \in Nat /\ DOMAIN s = 1 .. Len(s) /\ Id \in [Nat -> Nat]
    BY DEF Texts
  <1>1. \E i \in opens : \A j \in opens : i <= j
    <2>1. opens \in SUBSET Nat /\ opens # {}
      BY <1>0 DEF Grouped, Has
    <2>2. \E i \in opens : \A j \in opens : Id[i] <= Id[j]
      <3> HIDE DEF opens, Id
      <3> QED  BY <1>0, <2>1, LeastRank
    <2> QED  BY <2>1, <2>2
  <1>2. GroupStart(s) \in DOMAIN s
    BY <1>1 DEF GroupStart
  <1>3. ends # {}
    <2>1. GroupEnd(s) # 0
      BY DEF Unbalanced
    <2> QED  BY <2>1 DEF GroupEnd
  <1>4. \E i \in ends : \A j \in ends : i <= j
    <2>1. ends \in SUBSET Nat
      BY <1>0
    <2>2. \E i \in ends : \A j \in ends : Id[i] <= Id[j]
      <3> HIDE DEF ends, Id
      <3> QED  BY <1>0, <1>3, <2>1, LeastRank
    <2> QED  BY <2>1, <2>2
  <1>5. GroupEnd(s) \in ends
    <2>1. GroupEnd(s) = CHOOSE i \in ends : \A j \in ends : i <= j
      BY <1>3 DEF GroupEnd
    <2> HIDE DEF ends
    <2> QED  BY <1>4, <2>1
  <1> QED  BY <1>2, <1>5

(* What _parse_parentheses cuts a text into is shorter than the text,        *)
LEMMA GroupIsShorter ==
  ASSUME NEW s \in Texts, Grouped(s), NEW t \in CutGroup(s).texts
  PROVE  t \in Texts /\ Len(t) < Len(s)
  <1> DEFINE inner == SubSeq(s, GroupStart(s) + 1, GroupEnd(s) - 1)
             before == SubSeq(s, 1, GroupStart(s) - 1)
             after == SubSeq(s, GroupEnd(s) + 1, Len(s))
  <1>0. Len(s) \in Nat /\ DOMAIN s = 1 .. Len(s) /\ s # <<>>
    BY DEF Texts, Grouped, Has
  <1>1. ~Unbalanced(s)
    BY DEF CutGroup, NoCut, Cut
  <1>2. GroupStart(s) \in 1 .. Len(s) /\ GroupEnd(s) \in 1 .. Len(s)
    BY <1>0, <1>1, GroupEnds
  <1>3. inner \in Texts /\ Len(inner) < Len(s)
    <2>1. GroupStart(s) + 1 \in Nat /\ GroupEnd(s) - 1 \in Int /\ 1 <= GroupStart(s) + 1
          /\ GroupEnd(s) - 1 <= Len(s) /\ 1 < GroupStart(s) + 1 /\ GroupStart(s) + 1 <= Len(s) + 1
      BY <1>0, <1>2
    <2> QED  BY <1>0, <2>1, ShorterSubSeq
  <1>4. after \in Texts /\ Len(after) < Len(s)
    <2>1. GroupEnd(s) + 1 \in Nat /\ Len(s) \in Int /\ 1 <= GroupEnd(s) + 1
          /\ Len(s) <= Len(s) /\ 1 < GroupEnd(s) + 1 /\ GroupEnd(s) + 1 <= Len(s) + 1
      BY <1>0, <1>2
    <2> QED  BY <1>0, <2>1, ShorterSubSeq
  <1>5. after # <<>> => Tail(after) \in Texts /\ Len(Tail(after)) < Len(s)
    <2> HIDE DEF after
    <2> QED  BY <1>0, <1>4 DEF Texts
  <1> HIDE DEF inner, before, after
  <1>6. t = inner \/ (after # <<>> /\ t = Tail(after))
    BY <1>1 DEF CutGroup, Cut, inner, before, after
  <1> QED  BY <1>3, <1>5, <1>6

(* and so is what any text is cut into: the recursion of the parser ends.    *)
LEMMA CutsAreShorter ==
  ASSUME NEW s \in Texts, NEW t \in CutText(s).texts
  PROVE  t \in Texts /\ Len(t) < Len(s)
  <1>1. CASE Grouped(s)
    BY <1>1, GroupIsShorter DEF CutText
  <1>2. CASE ~Grouped(s) /\ Has(s, "OR")
    BY <1>2, PartsInside DEF CutText, Cut, Texts
  <1>3. CASE ~Grouped(s) /\ ~Has(s, "OR") /\ Has(s, "AND")
    BY <1>3, PartsInside DEF CutText, Cut, Texts
  <1>4. CASE ~Grouped(s) /\ ~Has(s, "OR") /\ ~Has(s, "AND")
    BY <1>4 DEF CutText, Cut, NoCut
  <1> QED  BY <1>1, <1>2, <1>3, <1>4

SqlAs(s, parsed) ==
    CASE parsed # {} /\ Malformed \notin parsed -> Expression(CutText(s).operator, {}, parsed)
      [] parsed = {} /\ Len(s) = 1 /\ s[1] \in DOMAIN Phrases ->
            Expression("none", {Phrases[s[1]]}, {})
      [] OTHER -> Malformed

(* So the parser has the value its definition says, a verdict on all         *)
(* metadata or nothing.                                                      *)
LEMMA ParseSqlEquation ==
  /\ ParseSql = [s \in Texts |-> SqlAs(s, {ParseSql[t] : t \in CutText(s).texts})]
  /\ \A s \in Texts : ParseSql[s] \in Decisions \cup {Malformed}
  <1> DEFINE V == Decisions \cup {Malformed}
             H == [x \in Texts \X SUBSET V |-> SqlAs(x[1], x[2])]
  <1>1. \A s \in Texts, parsed \in SUBSET V : SqlAs(s, parsed) \in V
    BY ExpressionDecides DEF SqlAs
  <1>2. H \in [Texts \X SUBSET V -> V]
    <2> HIDE DEF V
    <2> QED  BY <1>1
  <1>a. /\ CutOf \in [Texts -> SUBSET Texts] /\ LenOf \in [Texts -> Nat]
        /\ \A s \in Texts : \A t \in CutOf[s] : LenOf[t] < LenOf[s]
    <2>1. \A s \in Texts : \A t \in CutText(s).texts : t \in Texts /\ Len(t) < Len(s)
      BY CutsAreShorter
    <2>2. \A s \in Texts : Len(s) \in Nat
      BY DEF Texts
    <2> HIDE DEF Texts
    <2> QED  BY <2>1, <2>2 DEF CutOf, LenOf
  <1> HIDE DEF H, V
  <1>3. PICK f \in [Texts -> V] : Computes(f, Texts, CutOf, H)
    BY <1>2, <1>a, Recursion
  <1>4. \A s \in Texts : H[<<s, {f[t] : t \in CutOf[s]}>>] = SqlAs(s, {f[t] : t \in CutText(s).texts})
    <2> TAKE s \in Texts
    <2>1. {f[t] : t \in CutOf[s]} = {f[t] : t \in CutText(s).texts}
      BY DEF CutOf
    <2>2. {f[t] : t \in CutText(s).texts} \in SUBSET V
      BY CutsAreShorter
    <2>3. <<s, {f[t] : t \in CutText(s).texts}>> \in Texts \X SUBSET V
      BY <2>2
    <2> QED  BY <2>1, <2>3 DEF H
  <1>5. f = [s \in Texts |-> SqlAs(s, {f[t] : t \in CutText(s).texts})]
    BY <1>3, <1>4 DEF Computes
  <1>6. \E g : g = [s \in Texts |-> SqlAs(s, {g[t] : t \in CutText(s).texts})]
    BY <1>5
  <1>7. ParseSql = [s \in Texts |-> SqlAs(s, {ParseSql[t] : t \in CutText(s).texts})]
    BY <1>6 DEF ParseSql, SqlAs, Texts
  <1>8. \A s \in Texts : ParseSql[s] \in V
    <2> DEFINE B == {s \in Texts : ParseSql[s] \notin V}
    <2> SUFFICES ASSUME B # {} PROVE FALSE
      OBVIOUS
    <2>1. PICK s \in B : \A t \in B : LenOf[s] <= LenOf[t]
      BY <1>a, LeastRank
    <2>2. \A t \in CutText(s).texts : t \in Texts /\ t \notin B
      <3> TAKE t \in CutText(s).texts
      <3>1. t \in Texts /\ Len(t) < Len(s) /\ Len(t) \in Nat /\ Len(s) \in Nat
        BY CutsAreShorter DEF Texts
      <3>2. t \in B => Len(s) <= Len(t)
        BY <2>1, <3>1 DEF LenOf
      <3> QED  BY <3>1, <3>2
    <2>3. {ParseSql[t] : t \in CutText(s).texts} \in SUBSET V
      BY <2>2
    <2>4. ParseSql[s] = SqlAs(s, {ParseSql[t] : t \in CutText(s).texts})
      <3> DEFINE g == [u \in Texts |-> SqlAs(u, {ParseSql[t] : t \in CutText(u).texts})]
      <3>1. ParseSql = g
        BY <1>7
      <3>2. g[s] = SqlAs(s, {ParseSql[t] : t \in CutText(s).texts})
        OBVIOUS
      <3> HIDE DEF g
      <3> QED  BY <3>1, <3>2
    <2> QED  BY <1>1, <2>3, <2>4
  <1> QED  BY <1>7, <1>8 DEF V

(* The same for one text.                                                    *)
LEMMA ParseSqlAt ==
  ASSUME NEW s \in Texts
  PROVE  ParseSql[s] = SqlAs(s, {ParseSql[t] : t \in CutText(s).texts})
  <1> DEFINE g == [u \in Texts |-> SqlAs(u, {ParseSql[t] : t \in CutText(u).texts})]
  <1>1. ParseSql = g
    BY ParseSqlEquation
  <1>2. g[s] = SqlAs(s, {ParseSql[t] : t \in CutText(s).texts})
    OBVIOUS
  <1> HIDE DEF g
  <1> QED  BY <1>1, <1>2

(* A text that cannot be parsed is told from every expression.               *)
LEMMA MalformedIsNone == Malformed \notin Decisions
  <1>1. DOMAIN Malformed = {}
    BY DEF Malformed
  <1>2. \A f \in Decisions : DOMAIN f = Metadatas
    BY DEF Decisions
  <1> QED  BY <1>1, <1>2, FilterAssumption

(* A text that is cut into parts that can be parsed. *)
LEMMA CutMeans ==
  ASSUME NEW s \in Texts, NEW m \in Metadatas, NEW operator \in {"AND", "OR"},
         ~Grouped(s), CutText(s).operator = operator, CutText(s).texts # {},
         ParseSql[s] # Malformed
  PROVE  /\ \A t \in CutText(s).texts : ParseSql[t] \in Decisions
         /\ ParseSql[s][m] = Decide(operator, {ParseSql[t][m] : t \in CutText(s).texts})
         /\ {ParseSql[t][m] : t \in CutText(s).texts} \in SUBSET Verdicts
  <1> DEFINE P == {ParseSql[t] : t \in CutText(s).texts}
  <1>1. P # {}
    OBVIOUS
  <1>2. ParseSql[s] = SqlAs(s, P)
    BY ParseSqlAt
  <1>3. Malformed \notin P /\ ParseSql[s] = Expression(operator, {}, P)
    <2> HIDE DEF P
    <2> QED  BY <1>1, <1>2 DEF SqlAs
  <1>4. \A t \in CutText(s).texts : ParseSql[t] \in Decisions
    <2> TAKE t \in CutText(s).texts
    <2>1. t \in Texts
      BY CutsAreShorter
    <2>2. ParseSql[t] \in Decisions \cup {Malformed}
      BY <2>1, ParseSqlEquation
    <2>3. ParseSql[t] # Malformed
      BY <1>3
    <2> QED  BY <2>2, <2>3
  <1>5. VerdictsOf({}, P, m) = {ParseSql[t][m] : t \in CutText(s).texts}
    BY DEF VerdictsOf
  <1>6. ParseSql[s][m] = Decide(operator, VerdictsOf({}, P, m))
    <2> HIDE DEF P
    <2> QED  BY <1>3, ExpressionAt
  <1>7. {ParseSql[t][m] : t \in CutText(s).texts} \in SUBSET Verdicts
    BY <1>4 DEF Decisions
  <1>8. ParseSql[s][m] = Decide(operator, {ParseSql[t][m] : t \in CutText(s).texts})
    BY <1>5, <1>6, Zenon
  <1> QED  BY <1>4, <1>7, <1>8

RaisesSql(s, m) == \E k \in DOMAIN s : s[k] \in DOMAIN Phrases /\ ConditionRaises(m, Phrases[s[k]])
AndMeans(s, m) == \A i \in DOMAIN s : s[i] # "AND" => EvaluateCondition(m, Phrases[s[i]])
AndAsMeant(s, m) == ParseSql[s][m] = IF RaisesSql(s, m) THEN "raises" ELSE Verdict(AndMeans(s, m))
Wordless(s) == ~Grouped(s) /\ ~Has(s, "OR") /\ ~Has(s, "AND")

(* A text without operators is a condition. *)
LEMMA PhraseMeans ==
  ASSUME NEW s \in Texts, NEW m \in Metadatas, Wordless(s), ParseSql[s] # Malformed
  PROVE  /\ Len(s) = 1 /\ s[1] \in DOMAIN Phrases
         /\ ParseSql[s][m] = ConditionVerdict(m, Phrases[s[1]])
  <1>1. CutText(s) = NoCut
    BY DEF Wordless, CutText
  <1>2. {ParseSql[t] : t \in CutText(s).texts} = {}
    BY <1>1 DEF NoCut, Cut
  <1>3. ParseSql[s] = SqlAs(s, {})
    BY <1>2, ParseSqlAt
  <1>4. /\ Len(s) = 1 /\ s[1] \in DOMAIN Phrases
        /\ ParseSql[s] = Expression("none", {Phrases[s[1]]}, {})
    BY <1>3 DEF SqlAs
  <1> DEFINE C == {Phrases[s[1]]}
  <1>5. ParseSql[s][m] = Decide("none", VerdictsOf(C, {}, m))
    <2>1. ParseSql[s] = Expression("none", C, {})
      BY <1>4
    <2> HIDE DEF C
    <2> QED  BY <2>1, ExpressionAt
  <1>6. VerdictsOf(C, {}, m) = {ConditionVerdict(m, Phrases[s[1]])}
    BY DEF VerdictsOf
  <1> DEFINE v == ConditionVerdict(m, Phrases[s[1]])
  <1>7. v \in Verdicts
    BY ConditionVerdicts
  <1> HIDE DEF v
  <1>8. Decide("none", {v}) = v
    BY <1>7, Decided DEF Verdicts, Verdict
  <1> QED  BY <1>4, <1>5, <1>6, <1>8 DEF v

(* The parts of a text are made of its words but for the one it is cut at. *)
LEMMA PartsOfCut ==
  ASSUME NEW s \in Texts, NEW word \in {"AND", "OR"}, ~Grouped(s), word = "AND" => ~Has(s, "OR"),
         NEW t \in Parts(s, word)
  PROVE  /\ t \in Texts /\ ~Grouped(t) /\ ~Has(t, word) /\ (word = "AND" => ~Has(t, "OR"))
         /\ \A i \in DOMAIN t : \E k \in DOMAIN s : s[k] = t[i]
  <1>1. /\ t \in Texts
        /\ \A i \in DOMAIN t : t[i] # word /\ \E k \in DOMAIN s : s[k] = t[i]
    BY PartsInside DEF Texts
  <1>2. \A w : Has(t, w) => Has(s, w)
    BY <1>1 DEF Has
  <1> QED  BY <1>1, <1>2 DEF Grouped, Has

(* A text with an operator is not a condition, so it has parts. *)
LEMMA HasParts ==
  ASSUME NEW s \in Texts, NEW word \in {"AND", "OR"}, Has(s, word), ~Grouped(s),
         CutText(s) = Cut(word, Parts(s, word)), ParseSql[s] # Malformed
  PROVE  Parts(s, word) # {}
  <1> SUFFICES ASSUME Parts(s, word) = {} PROVE FALSE
    OBVIOUS
  <1>1. {ParseSql[t] : t \in CutText(s).texts} = {}
    BY DEF Cut
  <1>2. ParseSql[s] = SqlAs(s, {})
    BY <1>1, ParseSqlAt
  <1>3. Len(s) = 1 /\ s[1] \in DOMAIN Phrases
    BY <1>2 DEF SqlAs
  <1>4. s[1] = word
    <2>1. DOMAIN s = 1 .. 1
      BY <1>3 DEF Texts
    <2>2. PICK k \in DOMAIN s : s[k] = word
      BY DEF Has
    <2>3. k = 1
      BY <2>1
    <2> QED  BY <2>2, <2>3
  <1> QED  BY <1>3, <1>4, FilterAssumption DEF Keywords

(* A text without OR means that all its conditions hold.                     *)
LEMMA AndIsMeant ==
  ASSUME NEW s \in Texts, NEW m \in Metadatas, ~Grouped(s), ~Has(s, "OR"), ParseSql[s] # Malformed
  PROVE  AndAsMeant(s, m)
  <1>0. \A p \in DOMAIN Phrases : p # "AND"
    BY FilterAssumption DEF Keywords
  <1>1. CASE ~Has(s, "AND")
    <2>1. /\ Len(s) = 1 /\ s[1] \in DOMAIN Phrases
          /\ ParseSql[s][m] = ConditionVerdict(m, Phrases[s[1]])
      BY <1>1, PhraseMeans DEF Wordless
    <2>2. DOMAIN s = {1}
      BY <2>1 DEF Texts
    <2>3. RaisesSql(s, m) <=> ConditionRaises(m, Phrases[s[1]])
      BY <2>1, <2>2 DEF RaisesSql
    <2>4. AndMeans(s, m) <=> EvaluateCondition(m, Phrases[s[1]])
      BY <1>0, <2>1, <2>2 DEF AndMeans
    <2> QED  BY <2>1, <2>3, <2>4 DEF AndAsMeant, ConditionVerdict, Verdict
  <1>2. CASE Has(s, "AND")
    <2> DEFINE T == Parts(s, "AND")
               S == {ParseSql[t][m] : t \in T}
    <2>1. CutText(s) = Cut("AND", T)
      BY <1>2 DEF CutText
    <2>2. T # {}
      BY <1>2, <2>1, HasParts
    <2>3. /\ \A t \in T : ParseSql[t] \in Decisions
          /\ ParseSql[s][m] = Decide("AND", S)
          /\ S \in SUBSET Verdicts
      <3>1. CutText(s).texts = T /\ CutText(s).operator = "AND"
        BY <2>1 DEF Cut
      <3> HIDE DEF T
      <3> QED  BY <2>2, <3>1, CutMeans
    <2>4. \A t \in T : /\ t \in Texts /\ Len(t) = 1 /\ t[1] \in DOMAIN Phrases /\ DOMAIN t = {1}
                       /\ ParseSql[t][m] = ConditionVerdict(m, Phrases[t[1]])
                       /\ \E k \in DOMAIN s : s[k] = t[1]
      <3> TAKE t \in T
      <3>1. t \in Texts /\ Wordless(t) /\ \A i \in DOMAIN t : \E k \in DOMAIN s : s[k] = t[i]
        BY PartsOfCut DEF Wordless
      <3>2. ParseSql[t] # Malformed
        BY <2>3, MalformedIsNone
      <3>3. Len(t) = 1 /\ t[1] \in DOMAIN Phrases /\ ParseSql[t][m] = ConditionVerdict(m, Phrases[t[1]])
        BY <3>1, <3>2, PhraseMeans
      <3>4. DOMAIN t = {1}
        BY <3>1, <3>3 DEF Texts
      <3> QED  BY <3>1, <3>3, <3>4
    <2>5. \A k \in DOMAIN s : s[k] # "AND" => \E t \in T : t[1] = s[k]
      <3> TAKE k \in DOMAIN s
      <3> HAVE s[k] # "AND"
      <3>1. PICK t \in T : \E i \in DOMAIN t : t[i] = s[k]
        BY PartsCover DEF Texts
      <3> QED  BY <2>4, <3>1
    <2>6. RaisesSql(s, m) <=> \E t \in T : ConditionRaises(m, Phrases[t[1]])
      <3> HIDE DEF T
      <3> QED  BY <1>0, <2>4, <2>5 DEF RaisesSql
    <2>7. AndMeans(s, m) <=> \A t \in T : EvaluateCondition(m, Phrases[t[1]])
      <3> HIDE DEF T
      <3> QED  BY <1>0, <2>4, <2>5 DEF AndMeans
    <2>8. "raises" \in S <=> RaisesSql(s, m)
      <3> HIDE DEF T
      <3> QED  BY <2>4, <2>6 DEF ConditionVerdict, Verdict
    <2>9. ~RaisesSql(s, m) => ("refuses" \notin S <=> AndMeans(s, m))
      <3> HIDE DEF T
      <3> QED  BY <2>4, <2>6, <2>7 DEF ConditionVerdict, Verdict
    <2>10. S # {}
      BY <2>2
    <2> HIDE DEF S
    <2>11. Decide("AND", S) = IF "raises" \in S THEN "raises" ELSE Verdict("refuses" \notin S)
      BY <2>3, <2>10, Decided
    <2> QED  BY <2>3, <2>8, <2>9, <2>11 DEF AndAsMeant, Verdict
  <1> QED  BY <1>1, <1>2

(* What a text without parentheses is parsed into means what it says. *)
LEMMA SqlMeans ==
  ASSUME NEW s \in Texts, NEW m \in Metadatas, ~Grouped(s), ParseSql[s] # Malformed
  PROVE  ParseSql[s][m] = IF RaisesSql(s, m) THEN "raises" ELSE Verdict(MeansSql(m, s))
  <1>0. \A p \in DOMAIN Phrases : p # "OR"
    BY FilterAssumption DEF Keywords
  <1> DEFINE T == Parts(s, "OR")
             S == {ParseSql[t][m] : t \in T}
  <1>m. MeansSql(m, s) <=> \E t \in T : AndMeans(t, m)
    BY DEF MeansSql, AndMeans
  <1>1. CASE ~Has(s, "OR")
    <2>1. T = {s}
      BY <1>1, PartsWhole DEF Texts
    <2>2. AndAsMeant(s, m)
      BY <1>1, AndIsMeant
    <2> HIDE DEF T
    <2> QED  BY <1>m, <2>1, <2>2 DEF AndAsMeant, Verdict
  <1>2. CASE Has(s, "OR")
    <2>1. CutText(s) = Cut("OR", T)
      BY <1>2 DEF CutText
    <2>2. T # {}
      BY <1>2, <2>1, HasParts
    <2>3. /\ \A t \in T : ParseSql[t] \in Decisions
          /\ ParseSql[s][m] = Decide("OR", S)
          /\ S \in SUBSET Verdicts
      <3>1. CutText(s).texts = T /\ CutText(s).operator = "OR"
        BY <2>1 DEF Cut
      <3> HIDE DEF T
      <3> QED  BY <2>2, <3>1, CutMeans
    <2>4. \A t \in T : /\ \A i \in DOMAIN t : \E k \in DOMAIN s : s[k] = t[i]
                       /\ AndAsMeant(t, m)
      <3> TAKE t \in T
      <3>1. /\ t \in Texts /\ ~Grouped(t) /\ ~Has(t, "OR")
            /\ \A i \in DOMAIN t : \E k \in DOMAIN s : s[k] = t[i]
        BY PartsOfCut
      <3>2. ParseSql[t] # Malformed
        BY <2>3, MalformedIsNone
      <3> QED  BY <3>1, <3>2, AndIsMeant
    <2>5. \A k \in DOMAIN s : s[k] # "OR" => \E t \in T : \E i \in DOMAIN t : t[i] = s[k]
      BY PartsCover DEF Texts
    <2> HIDE DEF T
    <2>6. RaisesSql(s, m) <=> \E t \in T : RaisesSql(t, m)
      BY <1>0, <2>4, <2>5 DEF RaisesSql
    <2>7. \A t \in T : ParseSql[t][m] = IF RaisesSql(t, m) THEN "raises" ELSE Verdict(AndMeans(t, m))
      BY <2>4 DEF AndAsMeant
    <2>8. "raises" \in S <=> RaisesSql(s, m)
      BY <2>6, <2>7 DEF Verdict
    <2>9. ~RaisesSql(s, m) => ("takes" \in S <=> MeansSql(m, s))
      BY <1>m, <2>6, <2>7 DEF Verdict
    <2>10. S # {}
      BY <2>2
    <2> HIDE DEF S
    <2>11. Decide("OR", S) = IF "raises" \in S THEN "raises" ELSE Verdict("takes" \in S)
      BY <2>3, <2>10, Decided
    <2> QED  BY <2>3, <2>8, <2>9, <2>11 DEF Verdict
  <1> QED  BY <1>1, <1>2

-----------------------------------------------------------------------------
(* Scores and the sort of the candidates *)

(* A square is not negative.                                                 *)
LEMMA Squares == \A n \in Int : n * n \in Nat
  OBVIOUS

(* The products that scores are made of.                                     *)
LEMMA DotIsInt ==
  ASSUME NEW a \in Int \X Int, NEW b \in Int \X Int
  PROVE  Dot(a, b) \in Int /\ Dot(a, a) \in Nat
  <1>1. a[1] \in Int /\ a[2] \in Int /\ b[1] \in Int /\ b[2] \in Int
    OBVIOUS
  <1>2. a[1] * a[1] \in Nat /\ a[2] * a[2] \in Nat
    BY <1>1, Squares
  <1>3. a[1] * b[1] \in Int /\ a[2] * b[2] \in Int
    BY <1>1
  <1> QED  BY <1>2, <1>3 DEF Dot

(* Division by what is not 0 has a quotient.                                 *)
LEMMA Divided == \A a \in Int, b \in Nat : b # 0 => a \div b \in Int
  OBVIOUS

(* A vector has a score and a distance in every metric.                      *)
LEMMA ScoreIsInt ==
  ASSUME NEW metric, NEW q \in Int \X Int, NEW v \in Int \X Int
  PROVE  Score(metric, q, v) \in Int /\ Distance(metric, q, v) \in Int
  <1>1. Cosine(q, v) \in Int
    <2>1. CASE Dot(q, q) = 0 \/ Dot(v, v) = 0
      BY <2>1 DEF Cosine
    <2>2. CASE ~(Dot(q, q) = 0 \/ Dot(v, v) = 0)
      <3> DEFINE n == One * Dot(q, v) * Dot(q, v)
                 d == Dot(q, q) * Dot(v, v)
      <3>1. Dot(q, q) \in Nat /\ Dot(v, v) \in Nat /\ Dot(q, v) \in Int
        BY DotIsInt
      <3>2. n \in Int
        BY <3>1 DEF One
      <3>3. d \in Nat /\ d # 0
        BY <2>2, <3>1
      <3>4. Sign(Dot(q, v)) \in Int
        BY DEF Sign
      <3>5. Cosine(q, v) = Sign(Dot(q, v)) * (n \div d)
        BY <2>2 DEF Cosine
      <3> HIDE DEF n, d
      <3>6. n \div d \in Int
        BY <3>2, <3>3, Divided
      <3> QED  BY <3>4, <3>5, <3>6
    <2> QED  BY <2>1, <2>2
  <1>2. SquaredL2(q, v) \in Int
    <2>1. Minus(q, v) \in Int \X Int
      BY DEF Minus
    <2> QED  BY <2>1, DotIsInt DEF SquaredL2
  <1>3. One - SquaredL2(q, v) \in Int /\ One - Cosine(q, v) \in Int
    BY <1>1, <1>2 DEF One
  <1> QED  BY <1>1, <1>2, <1>3 DEF Score, Distance

(* The members of a set in an order, by the number of those before. *)
Ranked(R, S, L) ==
    /\ L \in [1 .. Cardinality(S) -> S]
    /\ \A p \in 1 .. Cardinality(S) : Cardinality(Predecessors(R, S, L[p])) = p - 1
Lists(R, S, L) ==
    /\ L \in Seq(S) /\ Len(L) = Cardinality(S)
    /\ \A p, q \in DOMAIN L : p < q => <<L[p], L[q]>> \in R
    /\ \A c \in S : \E p \in DOMAIN L : L[p] = c

(* A list by the number of those before is in the order, and has every       *)
(* member.                                                                   *)
LEMMA Listing ==
  ASSUME NEW S, IsFiniteSet(S), NEW R,
         StrictOrder(R, S),
         NEW L, Ranked(R, S, L)
  PROVE  Lists(R, S, L)
  <1> DEFINE rank(c) == Cardinality(Predecessors(R, S, c))
             n == Cardinality(S)
  <1>0. n \in Nat
    BY FS_CardinalityType
  <1>1. \A c \in S : rank(c) \in 0 .. n - 1
    BY Ranking
  <1>2. \A a, b \in S : <<a, b>> \in R <=> rank(a) < rank(b)
    BY Ranking
  <1>3. L \in [1 .. n -> S] /\ \A p \in 1 .. n : rank(L[p]) = p - 1
    BY DEF Ranked
  <1> HIDE DEF rank, n
  <1>4. \A p \in 1 .. n : L[p] \in S
    BY <1>3
  <1>7. L \in Seq(S) /\ Len(L) = n /\ DOMAIN L = 1 .. n
    BY <1>0, <1>3
  <1>8. \A p, q \in 1 .. n : p < q => <<L[p], L[q]>> \in R
    BY <1>0, <1>2, <1>3, <1>4
  <1>9. \A c \in S : \E p \in 1 .. n : L[p] = c
    <2> TAKE c \in S
    <2>1. rank(c) + 1 \in 1 .. n /\ rank(c) \in Nat
      BY <1>0, <1>1
    <2>2. L[rank(c) + 1] \in S /\ rank(L[rank(c) + 1]) = rank(c)
      BY <1>3, <1>4, <2>1
    <2>3. L[rank(c) + 1] = c
      BY <1>2, <2>1, <2>2 DEF StrictOrder
    <2> QED  BY <2>1, <2>3
  <1> QED  BY <1>7, <1>8, <1>9 DEF n, Lists

(* A sort of candidates. *)
CandidateOrder(S) == {p \in S \X S : Before(p[1], p[2])}
Sortable(S) ==
    /\ \A c \in S : c.score \in Int /\ c.row \in Int
    /\ \A a, b \in S : a.row = b.row => a = b

(* The sort of the candidates: all of them, each before those of lower       *)
(* scores and those of later rows.                                           *)
LEMMA SortedOrders ==
  ASSUME NEW S, IsFiniteSet(S), Sortable(S)
  PROVE  /\ Sorted(S) \in Seq(S) /\ Len(Sorted(S)) = Cardinality(S)
         /\ \A p, q \in DOMAIN Sorted(S) : p < q => Before(Sorted(S)[p], Sorted(S)[q])
         /\ \A c \in S : \E p \in DOMAIN Sorted(S) : Sorted(S)[p] = c
  <1> DEFINE R == CandidateOrder(S)
  <1>0. \A a, b \in S : <<a, b>> \in R <=> Before(a, b)
    BY DEF CandidateOrder
  <1> HIDE DEF R
  <1>1. StrictOrder(R, S)
    <2>1. \A a \in S : <<a, a>> \notin R
      BY <1>0 DEF Before, Sortable
    <2>2. \A a, b, c \in S : <<a, b>> \in R /\ <<b, c>> \in R => <<a, c>> \in R
      BY <1>0 DEF Before, Sortable
    <2>3. \A a, b \in S : a # b => <<a, b>> \in R \/ <<b, a>> \in R
      BY <1>0 DEF Before, Sortable
    <2> QED  BY <2>1, <2>2, <2>3 DEF StrictOrder
  <1>4. \A c \in S : {b \in S : Before(b, c)} = Predecessors(R, S, c)
    BY <1>0 DEF Predecessors
  <1> DEFINE n == Cardinality(S)
             rank(c) == Cardinality({b \in S : Before(b, c)})
             L == [p \in 1 .. n |-> CHOOSE c \in S : rank(c) = p - 1]
  <1>5. Sorted(S) = L
    BY DEF Sorted
  <1>n. n \in Nat
    BY FS_CardinalityType
  <1>6. \A p \in 1 .. n : \E c \in S : rank(c) = p - 1
    <2> TAKE p \in 1 .. n
    <2>1. p - 1 \in 0 .. Cardinality(S) - 1
      BY <1>n
    <2>2. \E c \in S : Cardinality(Predecessors(R, S, c)) = p - 1
      BY <1>1, <2>1, Ranking
    <2> QED  BY <1>4, <2>2
  <1>7. \A p \in 1 .. n : L[p] \in S /\ rank(L[p]) = p - 1
    <2> HIDE DEF rank
    <2> QED  BY <1>6
  <1>8. Ranked(R, S, L)
    <2>1. L \in [1 .. n -> S]
      <3> HIDE DEF rank, n
      <3> QED  BY <1>7
    <2> QED  BY <1>4, <1>7, <2>1 DEF Ranked
  <1> HIDE DEF L
  <1>9. Lists(R, S, L)
    BY <1>1, <1>8, Listing
  <1>10. \A p \in DOMAIN L : L[p] \in S
    BY <1>9 DEF Lists
  <1>11. \A p, q \in DOMAIN L : p < q => Before(L[p], L[q])
    BY <1>0, <1>9, <1>10 DEF Lists
  <1> QED  BY <1>5, <1>9, <1>11 DEF Lists

-----------------------------------------------------------------------------
(* The loop of a search *)

(* The requests are what the service accepts. *)
Requests == Searches \cup FilterSearches \cup HybridSearches \cup IndexRequests
RequestOK == request \in Requests

(* A request is what the service accepts of its kind.                        *)
LEMMA Kinds ==
  ASSUME RequestOK
  PROVE  /\ request.kind \in {"search", "hybrid", "index"}
         /\ request.kind = "search" => IsSearch(request)
         /\ request.kind = "hybrid" => IsHybrid(request)
  BY SearchAssumption DEF RequestOK, Requests, IsSearch, IsHybrid

CandidateSet == {Candidate(i) : i \in Window}

(* The rows that are read, and what is computed of each.                     *)
LEMMA WindowRows ==
  ASSUME RequestOK, request.kind = "search"
  PROVE  /\ request.topK \in Nat /\ Oversample * request.topK \in Nat
         /\ Window \in SUBSET (1 .. Oversample * request.topK) /\ Window \in SUBSET Nat
         /\ \A i \in Window : /\ Candidate(i).row = i
                              /\ Candidate(i).score \in Int /\ Candidate(i).distance \in Int
                              /\ Metadata(i) \in Metadatas
  <1>0. IsSearch(request) /\ Oversample \in Nat
    BY Kinds, SearchAssumption
  <1>1. request.topK \in Nat /\ Oversample * request.topK \in Nat
    BY <1>0 DEF IsSearch
  <1>2. Window \in SUBSET (1 .. Oversample * request.topK)
    <2>1. Len(request.rows) \in Nat /\ DOMAIN request.rows = 1 .. Len(request.rows)
      BY <1>0 DEF IsSearch
    <2> QED  BY <1>1, <2>1 DEF Window
  <1>3. \A i \in Window : i \in DOMAIN request.rows
    BY DEF Window
  <1>4. ASSUME NEW i \in Window
        PROVE  /\ Candidate(i).row = i
               /\ Candidate(i).score \in Int /\ Candidate(i).distance \in Int
               /\ Metadata(i) \in Metadatas
    <2>1. request.query \in Int \X Int /\ request.rows[i].vec \in Int \X Int
      BY <1>0, <1>3 DEF IsSearch
    <2>2. Metadata(i) \in Metadatas
      BY <1>0, <1>3 DEF IsSearch, Metadata
    <2> QED  BY <2>1, <2>2, ScoreIsInt DEF Candidate
  <1>5. Window \in SUBSET Nat
    BY <1>2
  <1> QED  BY <1>1, <1>2, <1>4, <1>5

(* The candidates are finitely many, at most as many as rows were asked of   *)
(* the table, and differ in their rows.                                      *)
LEMMA CandidatesSortable ==
  ASSUME RequestOK, request.kind = "search"
  PROVE  /\ IsFiniteSet(CandidateSet) /\ Sortable(CandidateSet)
         /\ Cardinality(CandidateSet) <= Oversample * request.topK
  <1> DEFINE n == Oversample * request.topK
  <1>1. n \in Nat /\ Window \in SUBSET (1 .. n)
    BY WindowRows
  <1> HIDE DEF n
  <1>2. IsFiniteSet(1 .. n) /\ Cardinality(1 .. n) = n
    BY <1>1, NatInterval
  <1>3. IsFiniteSet(Window) /\ Cardinality(Window) <= n
    BY <1>1, <1>2, FS_Subset
  <1>4. IsFiniteSet(CandidateSet) /\ Cardinality(CandidateSet) <= Cardinality(Window)
    <2> DEFINE f == [i \in Window |-> Candidate(i)]
    <2>1. f \in Surjection(Window, CandidateSet)
      BY DEF CandidateSet, Surjection
    <2> HIDE DEF f
    <2> QED  BY <1>3, <2>1, FS_Surjection
  <1>5. Cardinality(CandidateSet) <= n
    <2>1. Cardinality(CandidateSet) \in Nat /\ Cardinality(Window) \in Nat
      BY <1>3, <1>4, FS_CardinalityType
    <2> QED  BY <1>1, <1>3, <1>4, <2>1
  <1>6. Sortable(CandidateSet)
    BY WindowRows DEF Sortable, CandidateSet
  <1> QED  BY <1>4, <1>5, <1>6 DEF n

HitSet == [id : Window, score : Int, rank : Nat]

\* What the loop has done of a search, and what it has left.
Looped ==
    /\ expression = Parsed(request.filter) /\ expression # Malformed
    /\ \A p \in DOMAIN results : Passes(results[p].id)
    /\ \A p, q \in DOMAIN results :
          p < q => Before(Candidate(results[p].id), Candidate(results[q].id))
    /\ \A p \in DOMAIN results, q \in DOMAIN candidates :
          Before(Candidate(results[p].id), candidates[q])
    /\ \A i \in Window :
          Passes(i) => InAnswer(i) \/ \E q \in DOMAIN candidates : candidates[q].row = i

\* The inductive invariant of a search.
SearchInv ==
    request.kind = "search" =>
        /\ candidates \in Seq(CandidateSet) /\ Len(candidates) <= Oversample * request.topK
        /\ \A p, q \in DOMAIN candidates : p < q => Before(candidates[p], candidates[q])
        /\ results \in Seq(HitSet)
        /\ Len(results) \in Nat /\ DOMAIN results = 1 .. Len(results) /\ Len(results) <= request.topK
        /\ \A p \in DOMAIN results : results[p].id \in Window /\ results[p].rank = p
        /\ phase \in {"received", "sorted"} => results = <<>>
        /\ phase = "sorted" => \A i \in Window : \E q \in DOMAIN candidates : candidates[q].row = i
        /\ phase \in {"filtering", "answered"} => Looped
        /\ phase = "answered" => candidates = <<>> \/ Enough

IInv ==
    /\ RequestOK
    /\ phase \in {"received", "sorted", "filtering", "found", "answered", "failed"}
    /\ phase \in {"sorted", "filtering"} => request.kind = "search"
    /\ phase = "found" => request.kind = "hybrid"
    /\ SearchInv

(* A request that was received has nothing yet.                              *)
LEMMA InitInv == Init => IInv
  <1> SUFFICES ASSUME Init PROVE IInv
    OBVIOUS
  <1>1. RequestOK
    BY DEF Init, RequestOK, Requests
  <1>2. phase = "received" /\ candidates = <<>> /\ results = <<>>
    BY DEF Init
  <1>3. ASSUME request.kind = "search"
        PROVE  /\ 0 <= Oversample * request.topK /\ 0 <= request.topK
               /\ candidates \in Seq(CandidateSet) /\ results \in Seq(HitSet)
    <2>1. request.topK \in Nat /\ Oversample * request.topK \in Nat
      BY <1>1, <1>3, WindowRows
    <2> QED  BY <1>2, <2>1
  <1>4. Len(candidates) = 0 /\ Len(results) = 0 /\ DOMAIN candidates = {} /\ DOMAIN results = 1 .. Len(results)
        /\ DOMAIN results = {}
    BY <1>2
  <1>5. SearchInv
    BY <1>2, <1>3, <1>4 DEF SearchInv
  <1> QED  BY <1>1, <1>2, <1>5 DEF IInv

(* Reading and sorting: every row that was read is a candidate.              *)
LEMMA FetchInv == IInv /\ Fetch => IInv'
  <1> SUFFICES ASSUME IInv, Fetch PROVE IInv'
    OBVIOUS
  <1>1. RequestOK /\ request.kind = "search" /\ request' = request /\ results = <<>> /\ results' = results
        /\ phase' = "sorted"
    BY DEF IInv, SearchInv, Fetch
  <1>2. CandidateSet' = CandidateSet /\ Window' = Window
    BY <1>1 DEF CandidateSet, Candidate, Window
  <1>3. candidates' = Sorted(CandidateSet)
    BY DEF Fetch, CandidateSet
  <1>4. /\ candidates' \in Seq(CandidateSet) /\ Len(candidates') <= Oversample * request.topK
        /\ \A p, q \in DOMAIN candidates' : p < q => Before(candidates'[p], candidates'[q])
        /\ \A c \in CandidateSet : \E p \in DOMAIN candidates' : candidates'[p] = c
    BY <1>1, <1>3, CandidatesSortable, SortedOrders
  <1>5. \A i \in Window : \E q \in DOMAIN candidates' : candidates'[q].row = i
    <2> TAKE i \in Window
    <2>1. Candidate(i) \in CandidateSet /\ Candidate(i).row = i
      BY <1>1, WindowRows DEF CandidateSet
    <2> QED  BY <1>4, <2>1
  <1>6. SearchInv'
    <2>1. Len(results) \in Nat /\ DOMAIN results = 1 .. Len(results) /\ Len(results) <= request.topK
          /\ results \in Seq(HitSet) /\ HitSet' = HitSet
          /\ \A p \in DOMAIN results : results[p].id \in Window /\ results[p].rank = p
      BY <1>1, <1>2 DEF IInv, SearchInv, HitSet
    <2> QED  BY <1>1, <1>2, <1>4, <1>5, <2>1 DEF SearchInv
  <1>7. RequestOK'
    BY <1>1 DEF RequestOK
  <1> QED  BY <1>1, <1>6, <1>7 DEF IInv

(* Parsing: the loop only begins with an expression.                         *)
LEMMA ParseFilterInv == IInv /\ ParseFilter => IInv'
  <1> SUFFICES ASSUME IInv, ParseFilter PROVE IInv'
    OBVIOUS
  <1>1. RequestOK /\ request.kind = "search" /\ request' = request /\ results = <<>> /\ results' = results
        /\ phase' \in {"failed", "filtering"} /\ phase = "sorted" /\ candidates' = candidates
        /\ expression' = Parsed(request.filter)
        /\ (phase' = "filtering" => expression' # Malformed)
    BY DEF IInv, SearchInv, ParseFilter
  <1>2. CandidateSet' = CandidateSet /\ Window' = Window
    BY <1>1 DEF CandidateSet, Candidate, Window
  <1>3. phase' = "filtering" => Looped'
    <2>1. \A i \in Window : \E q \in DOMAIN candidates : candidates[q].row = i
      BY <1>1 DEF IInv, SearchInv
    <2>2. DOMAIN results' = {}
      BY <1>1
    <2>3. Parsed(request'.filter) = Parsed(request.filter)
      BY <1>1
    <2>4. \A i \in Window' : \E q \in DOMAIN candidates' : candidates'[q].row = i
      BY <1>1, <1>2, <2>1
    <2> QED  BY <1>1, <2>2, <2>3, <2>4 DEF Looped
  <1>4. SearchInv'
    BY <1>1, <1>2, <1>3 DEF IInv, SearchInv, HitSet
  <1>5. RequestOK'
    BY <1>1 DEF RequestOK
  <1> QED  BY <1>1, <1>4, <1>5 DEF IInv

(* The head of what is left, and the rest. *)
LEMMA HeadOfCandidates ==
  ASSUME IInv, request.kind = "search", candidates # <<>>
  PROVE  /\ 1 \in DOMAIN candidates /\ Head(candidates) = candidates[1]
         /\ Head(candidates).row \in Window /\ Head(candidates) = Candidate(Head(candidates).row)
         /\ Tail(candidates) \in Seq(CandidateSet)
         /\ Len(Tail(candidates)) = Len(candidates) - 1
         /\ \A p \in DOMAIN Tail(candidates) :
               p + 1 \in DOMAIN candidates /\ Tail(candidates)[p] = candidates[p + 1] /\ 1 < p + 1
         /\ \A q \in DOMAIN candidates : q = 1 \/ q - 1 \in DOMAIN Tail(candidates)
  <1>1. candidates \in Seq(CandidateSet)
    BY DEF IInv, SearchInv
  <1>2. Len(candidates) \in Nat /\ Len(candidates) # 0 /\ DOMAIN candidates = 1 .. Len(candidates)
    BY <1>1
  <1>3. Head(candidates) \in CandidateSet /\ Head(candidates) = candidates[1]
    BY <1>1, <1>2
  <1>4. Head(candidates).row \in Window /\ Head(candidates) = Candidate(Head(candidates).row)
    BY <1>3, WindowRows DEF CandidateSet, IInv
  <1>5. /\ Tail(candidates) \in Seq(CandidateSet)
        /\ Len(Tail(candidates)) = Len(candidates) - 1
        /\ \A p \in 1 .. Len(Tail(candidates)) : Tail(candidates)[p] = candidates[p + 1]
    BY <1>1, HeadTailProperties
  <1>6. DOMAIN Tail(candidates) = 1 .. Len(candidates) - 1
    BY <1>5
  <1> QED  BY <1>2, <1>3, <1>4, <1>5, <1>6

\* What the loop does not change of a search.
LEMMA Unchanged ==
  ASSUME request' = request
  PROVE  /\ CandidateSet' = CandidateSet /\ Window' = Window /\ HitSet' = HitSet
         /\ \A i : Candidate(i)' = Candidate(i)
         /\ expression' = expression => \A i : Passes(i)' <=> Passes(i)
  BY DEF CandidateSet, Candidate, Window, Passes, Within, Metadata, HitSet

(* What the loop does not refuse is what passes the thresholds and the       *)
(* filter.                                                                   *)
LEMMA PassesNotRefused ==
  ASSUME RequestOK, request.kind = "search", NEW i \in Window
  PROVE  ~Refused(Candidate(i)) <=> Passes(i)
  <1>1. /\ Candidate(i).row = i /\ Candidate(i).score \in Int /\ Candidate(i).distance \in Int
    BY WindowRows
  <1>2. request.minScore \in Int /\ request.maxDistance \in Int
    BY Kinds DEF IsSearch
  <1> DEFINE s == Candidate(i).score
             d == Candidate(i).distance
             f == request.filter.form # "none"
             a == ApplyFilter(Metadata(i), expression)
  <1>3. Refused(Candidate(i)) <=> s < request.minScore \/ d > request.maxDistance \/ (f /\ ~a)
    BY <1>1 DEF Refused
  <1>4. Passes(i) <=> s >= request.minScore /\ d <= request.maxDistance /\ (~f \/ a)
    BY DEF Passes, Within
  <1> HIDE DEF s, d, f, a
  <1>5. s \in Int /\ d \in Int
    BY <1>1 DEF s, d
  <1> QED  BY <1>2, <1>3, <1>4, <1>5

(* A candidate that is skipped does not pass.                                *)
LEMMA SkipHeadInv == IInv /\ SkipHead => IInv'
  <1> SUFFICES ASSUME IInv, SkipHead PROVE IInv'
    OBVIOUS
  <1>1. /\ RequestOK /\ request.kind = "search" /\ request' = request
        /\ results' = results /\ phase' = phase /\ phase = "filtering"
        /\ expression' = expression /\ candidates # <<>> /\ candidates' = Tail(candidates)
        /\ Refused(Head(candidates))
    BY DEF IInv, SkipHead
  <1> DEFINE h == Head(candidates)
             rest == Tail(candidates)
  <1>2. /\ CandidateSet' = CandidateSet /\ Window' = Window /\ HitSet' = HitSet
        /\ \A i : Candidate(i)' = Candidate(i)
        /\ \A i : Passes(i)' <=> Passes(i)
    BY <1>1, Unchanged
  <1>3. /\ 1 \in DOMAIN candidates /\ h = candidates[1]
        /\ h.row \in Window /\ h = Candidate(h.row)
        /\ rest \in Seq(CandidateSet)
        /\ Len(rest) = Len(candidates) - 1
        /\ \A p \in DOMAIN rest : p + 1 \in DOMAIN candidates /\ rest[p] = candidates[p + 1] /\ 1 < p + 1
        /\ \A q \in DOMAIN candidates : q = 1 \/ q - 1 \in DOMAIN rest
    BY <1>1, HeadOfCandidates
  <1>4. ~Passes(h.row)
    BY <1>1, <1>3, PassesNotRefused
  <1>5. Looped
    BY <1>1 DEF IInv, SearchInv
  <1>6. Looped'
    <2>1. \A i \in Window : Passes(i) => InAnswer(i) \/ \E q \in DOMAIN rest : rest[q].row = i
      <3> SUFFICES ASSUME NEW i \in Window, Passes(i), ~InAnswer(i)
                   PROVE  \E q \in DOMAIN rest : rest[q].row = i
        OBVIOUS
      <3>1. PICK q \in DOMAIN candidates : candidates[q].row = i
        BY <1>5 DEF Looped
      <3>2. q # 1
        BY <1>3, <1>4, <3>1
      <3>3. q - 1 \in DOMAIN rest /\ q \in Int
        BY <1>1, <1>3, <3>2 DEF IInv, SearchInv
      <3>4. rest[q - 1] = candidates[q - 1 + 1] /\ q - 1 + 1 = q
        BY <1>3, <3>3
      <3> QED  BY <3>1, <3>3, <3>4
    <2>2. \A p \in DOMAIN results, q \in DOMAIN rest : Before(Candidate(results[p].id), rest[q])
      BY <1>3, <1>5 DEF Looped
    <2>3. \A i : InAnswer(i)' <=> InAnswer(i)
      BY <1>1 DEF InAnswer
    <2> HIDE DEF rest
    <2>4. candidates' = rest
      BY <1>1 DEF rest
    <2> QED  BY <1>1, <1>2, <1>5, <2>1, <2>2, <2>3, <2>4 DEF Looped
  <1>7. SearchInv'
    <2>1. \A p, q \in DOMAIN rest : p < q => Before(rest[p], rest[q])
      <3>1. \A p, q \in DOMAIN candidates : p < q => Before(candidates[p], candidates[q])
        BY <1>1 DEF IInv, SearchInv
      <3>2. \A p \in DOMAIN rest : p \in Int
        BY <1>3
      <3> TAKE p, q \in DOMAIN rest
      <3> HAVE p < q
      <3>3. p + 1 \in DOMAIN candidates /\ q + 1 \in DOMAIN candidates /\ p + 1 < q + 1
        BY <1>3, <3>2
      <3> QED  BY <1>3, <3>1, <3>3
    <2>2. Len(rest) <= Oversample * request.topK
      <3>1. Len(candidates) <= Oversample * request.topK /\ Len(candidates) \in Nat
        BY <1>1 DEF IInv, SearchInv
      <3>2. Oversample * request.topK \in Nat
        BY <1>1, WindowRows
      <3> QED  BY <1>3, <3>1, <3>2
    <2> HIDE DEF rest
    <2>3. candidates' = rest
      BY <1>1 DEF rest
    <2> QED  BY <1>1, <1>2, <1>3, <1>6, <2>1, <2>2, <2>3 DEF IInv, SearchInv
  <1>8. RequestOK'
    BY <1>1 DEF RequestOK
  <1> QED  BY <1>1, <1>7, <1>8 DEF IInv

(* A candidate that is taken passes, and comes after all that were taken.    *)
LEMMA TakeHeadInv == IInv /\ TakeHead => IInv'
  <1> SUFFICES ASSUME IInv, TakeHead PROVE IInv'
    OBVIOUS
  <1> DEFINE h == Head(candidates)
             rest == Tail(candidates)
             n == Len(results)
             more == results'
  <1>1. /\ RequestOK /\ request.kind = "search" /\ request' = request
        /\ phase' = phase /\ phase = "filtering"
        /\ expression' = expression /\ candidates # <<>> /\ candidates' = rest
        /\ ~Refused(h) /\ ~Enough
        /\ results' = Append(results, Result(h, n + 1))
    BY DEF IInv, TakeHead
  <1>2. /\ CandidateSet' = CandidateSet /\ Window' = Window /\ HitSet' = HitSet
        /\ \A i : Candidate(i)' = Candidate(i)
        /\ \A i : Passes(i)' <=> Passes(i)
    BY <1>1, Unchanged
  <1>3. /\ 1 \in DOMAIN candidates /\ h = candidates[1]
        /\ h.row \in Window /\ h = Candidate(h.row)
        /\ rest \in Seq(CandidateSet)
        /\ Len(rest) = Len(candidates) - 1
        /\ \A p \in DOMAIN rest : p + 1 \in DOMAIN candidates /\ rest[p] = candidates[p + 1] /\ 1 < p + 1
        /\ \A q \in DOMAIN candidates : q = 1 \/ q - 1 \in DOMAIN rest
    BY <1>1, HeadOfCandidates
  <1>4. Passes(h.row)
    BY <1>1, <1>3, PassesNotRefused
  <1>5. Looped
    BY <1>1 DEF IInv, SearchInv
  <1>6. /\ n \in Nat /\ DOMAIN results = 1 .. n
        /\ \A p \in DOMAIN results : results[p].id \in Window /\ results[p].rank = p
    BY <1>1 DEF IInv, SearchInv
  <1>7. /\ Len(more) = n + 1 /\ DOMAIN more = 1 .. n + 1
        /\ \A p \in 1 .. n : more[p] = results[p]
        /\ more[n + 1] = Result(h, n + 1)
    <2>1. results \in Seq(HitSet)
      BY <1>1 DEF IInv, SearchInv
    <2> QED  BY <1>1, <1>6, <2>1
  <1>8. more[n + 1].id = h.row /\ more[n + 1].rank = n + 1
    BY <1>7 DEF Result
  <1>9. n + 1 <= request.topK
    BY <1>1, <1>6, WindowRows DEF Enough
  <1>10. \A p \in 1 .. n : p \in DOMAIN results /\ p \in DOMAIN more
    BY <1>6, <1>7
  <1>11. \A p \in DOMAIN more : p \in 1 .. n \/ p = n + 1
    BY <1>6, <1>7
  <1>12. \A p, q \in DOMAIN candidates : p < q => Before(candidates[p], candidates[q])
    BY <1>1 DEF IInv, SearchInv
  <1> HIDE DEF more, rest, n, h
  <1>13. more = results' /\ rest = candidates'
    BY <1>1 DEF more, rest
  <1>14. \A p \in DOMAIN more : more[p].id \in Window /\ more[p].rank = p /\ Passes(more[p].id)
    BY <1>3, <1>4, <1>5, <1>6, <1>7, <1>8, <1>10, <1>11 DEF Looped
  <1>15. \A p, q \in DOMAIN more : p < q => Before(Candidate(more[p].id), Candidate(more[q].id))
    <2> TAKE p, q \in DOMAIN more
    <2> HAVE p < q
    <2>1. p \in 1 .. n
      BY <1>6, <1>7
    <2>2. CASE q \in 1 .. n
      BY <1>5, <1>7, <1>10, <2>1, <2>2 DEF Looped
    <2>3. CASE q = n + 1
      <3>1. Before(Candidate(results[p].id), h)
        BY <1>3, <1>5, <1>10, <2>1 DEF Looped
      <3> QED  BY <1>3, <1>7, <1>8, <2>1, <2>3, <3>1
    <2> QED  BY <1>11, <2>2, <2>3
  <1>16. \A p \in DOMAIN more, q \in DOMAIN rest : Before(Candidate(more[p].id), rest[q])
    <2> TAKE p \in DOMAIN more, q \in DOMAIN rest
    <2>1. q + 1 \in DOMAIN candidates /\ rest[q] = candidates[q + 1] /\ 1 < q + 1
      BY <1>3
    <2>2. CASE p \in 1 .. n
      BY <1>5, <1>7, <1>10, <2>1, <2>2 DEF Looped
    <2>3. CASE p = n + 1
      BY <1>3, <1>8, <1>12, <2>1, <2>3
    <2> QED  BY <1>11, <2>2, <2>3
  <1>17. \A i \in Window : Passes(i) =>
            (\E p \in DOMAIN more : more[p].id = i) \/ \E q \in DOMAIN rest : rest[q].row = i
    <2> SUFFICES ASSUME NEW i \in Window, Passes(i), ~\E p \in DOMAIN more : more[p].id = i
                 PROVE  \E q \in DOMAIN rest : rest[q].row = i
      OBVIOUS
    <2>1. ~InAnswer(i)
      BY <1>6, <1>7, <1>10 DEF InAnswer
    <2>2. PICK q \in DOMAIN candidates : candidates[q].row = i
      BY <1>5, <2>1 DEF Looped
    <2>3. n + 1 \in DOMAIN more
      BY <1>6, <1>7
    <2>4. q # 1
      BY <1>3, <1>8, <2>2, <2>3
    <2>5. q - 1 \in DOMAIN rest /\ q \in Int
      BY <1>1, <1>3, <2>4 DEF IInv, SearchInv
    <2>6. rest[q - 1] = candidates[q - 1 + 1] /\ q - 1 + 1 = q
      BY <1>3, <2>5
    <2> QED  BY <2>2, <2>5, <2>6
  <1>18. Looped'
    <2>1. \A i : InAnswer(i)' <=> \E p \in DOMAIN more : more[p].id = i
      BY <1>13 DEF InAnswer
    <2> QED  BY <1>1, <1>2, <1>5, <1>13, <1>14, <1>15, <1>16, <1>17, <2>1 DEF Looped
  <1>19. SearchInv'
    <2>1. \A p, q \in DOMAIN rest : p < q => Before(rest[p], rest[q])
      <3>2. \A p \in DOMAIN rest : p \in Int
        BY <1>3
      <3> TAKE p, q \in DOMAIN rest
      <3> HAVE p < q
      <3>3. p + 1 \in DOMAIN candidates /\ q + 1 \in DOMAIN candidates /\ p + 1 < q + 1
        BY <1>3, <3>2
      <3> QED  BY <1>3, <1>12, <3>3
    <2>2. Len(rest) <= Oversample * request.topK
      <3>1. Len(candidates) <= Oversample * request.topK /\ Len(candidates) \in Nat
        BY <1>1 DEF IInv, SearchInv
      <3>2. Oversample * request.topK \in Nat
        BY <1>1, WindowRows
      <3> QED  BY <1>3, <3>1, <3>2
    <2>3. Len(more) \in Nat /\ DOMAIN more = 1 .. Len(more) /\ Len(more) <= request.topK
      BY <1>6, <1>7, <1>9
    <2>4. more \in Seq(HitSet)
      <3>1. results \in Seq(HitSet)
        BY <1>1 DEF IInv, SearchInv
      <3>2. Result(h, n + 1) \in HitSet
        <4>1. h.score \in Int
          BY <1>1, <1>3, WindowRows
        <4> QED  BY <1>3, <1>6, <4>1 DEF Result, HitSet
      <3> QED  BY <1>1, <1>13, <3>1, <3>2
    <2> QED  BY <1>1, <1>2, <1>3, <1>13, <1>14, <1>18, <2>1, <2>2, <2>3, <2>4 DEF SearchInv
  <1>20. RequestOK'
    BY <1>1 DEF RequestOK
  <1> QED  BY <1>1, <1>19, <1>20 DEF IInv

(* An answer is given when nothing is left or enough was taken.              *)
LEMMA AnswerInv == IInv /\ Answer => IInv'
  <1> SUFFICES ASSUME IInv, Answer PROVE IInv'
    OBVIOUS
  <1>1. /\ RequestOK /\ request.kind = "search" /\ request' = request
        /\ phase = "filtering" /\ phase' = "answered" /\ results' = results
        /\ expression' = expression /\ candidates' = candidates
        /\ candidates # <<>> => Enough
    BY DEF IInv, Answer
  <1>2. /\ CandidateSet' = CandidateSet /\ Window' = Window /\ HitSet' = HitSet
        /\ \A i : Candidate(i)' = Candidate(i)
        /\ \A i : Passes(i)' <=> Passes(i)
    BY <1>1, Unchanged
  <1>3. Looped'
    <2>1. Looped
      BY <1>1 DEF IInv, SearchInv
    <2> QED  BY <1>1, <1>2, <2>1 DEF Looped, InAnswer
  <1>4. SearchInv'
    BY <1>1, <1>2, <1>3 DEF IInv, SearchInv, Enough
  <1>5. RequestOK'
    BY <1>1 DEF RequestOK
  <1> QED  BY <1>1, <1>4, <1>5 DEF IInv

(* A search that fails before its rows were read has found nothing.          *)
LEMMA FetchFailsInv == IInv /\ FetchFails => IInv'
  <1> SUFFICES ASSUME IInv, FetchFails PROVE IInv'
    OBVIOUS
  <1>1. /\ RequestOK /\ request.kind = "search" /\ request' = request
        /\ phase = "received" /\ phase' = "failed" /\ results' = results
        /\ expression' = expression /\ candidates' = candidates
    BY DEF IInv, FetchFails, Fail
  <1>2. /\ CandidateSet' = CandidateSet /\ Window' = Window /\ HitSet' = HitSet
        /\ \A i : Candidate(i)' = Candidate(i)
    BY <1>1, Unchanged
  <1>3. SearchInv'
    BY <1>1, <1>2 DEF IInv, SearchInv
  <1>4. RequestOK'
    BY <1>1 DEF RequestOK
  <1> QED  BY <1>1, <1>3, <1>4 DEF IInv

\* The requests that are no searches.
LEMMA OthersInv == IInv /\ (RefuseWeights \/ TextSearch \/ FuseHits \/ BuildIndex) => IInv'
  <1> SUFFICES ASSUME IInv, RefuseWeights \/ TextSearch \/ FuseHits \/ BuildIndex PROVE IInv'
    OBVIOUS
  <1>1. /\ RequestOK /\ request.kind \in {"hybrid", "index"} /\ request' = request
        /\ phase' \in {"found", "answered", "failed"}
        /\ phase' = "found" => request.kind = "hybrid"
    BY DEF IInv, RefuseWeights, FuseHits, TextSearch, BuildIndex, Respond, Fail
  <1>2. SearchInv'
    BY <1>1 DEF SearchInv
  <1>3. RequestOK'
    BY <1>1 DEF RequestOK
  <1> QED  BY <1>1, <1>2, <1>3 DEF IInv

(* Every step keeps the invariant.                                           *)
LEMMA NextInv == IInv /\ [Next]_vars => IInv'
  <1> SUFFICES ASSUME IInv, [Next]_vars PROVE IInv'
    OBVIOUS
  <1>1. CASE UNCHANGED vars
    <2>1. /\ request' = request /\ phase' = phase /\ results' = results
          /\ expression' = expression /\ candidates' = candidates
      BY <1>1 DEF vars
    <2>2. /\ CandidateSet' = CandidateSet /\ Window' = Window /\ HitSet' = HitSet
          /\ \A i : Candidate(i)' = Candidate(i)
          /\ \A i : Passes(i)' <=> Passes(i)
      BY <2>1, Unchanged
    <2>3. Looped => Looped'
      BY <2>1, <2>2 DEF Looped, InAnswer
    <2>4. SearchInv'
      BY <2>1, <2>2, <2>3 DEF IInv, SearchInv, Enough
    <2>5. RequestOK'
      BY <2>1 DEF IInv, RequestOK
    <2> QED  BY <2>1, <2>4, <2>5 DEF IInv
  <1> QED  BY <1>1, FetchInv, FetchFailsInv, ParseFilterInv, SkipHeadInv, TakeHeadInv, AnswerInv, OthersInv
          DEF Next

(* The invariant holds in every state of every request.                      *)
THEOREM SearchInductive == Spec => []IInv
  <1>1. Init => IInv
    BY InitInv
  <1>2. IInv /\ [Next]_vars => IInv'
    BY NextInv
  <1> QED  BY <1>1, <1>2, PTL DEF Spec

-----------------------------------------------------------------------------
(* What a search answers *)

(* The order of the sort, in terms of rows.                                  *)
LEMMA BeforeOrders ==
  ASSUME RequestOK, request.kind = "search"
  PROVE  /\ \A i, j \in Window : ~(Before(Candidate(i), Candidate(j)) /\ Before(Candidate(j), Candidate(i)))
         /\ \A i \in Window : ~Before(Candidate(i), Candidate(i))
         /\ \A i, j \in Window : Before(Candidate(j), Candidate(i)) <=>
               \/ Candidate(j).score > Candidate(i).score
               \/ Candidate(j).score = Candidate(i).score /\ j < i
  <1>1. \A i \in Window : Candidate(i).row = i /\ Candidate(i).score \in Int /\ i \in Nat
    BY WindowRows
  <1>2. \A i, j \in Window : Before(Candidate(j), Candidate(i)) <=>
               \/ Candidate(j).score > Candidate(i).score
               \/ Candidate(j).score = Candidate(i).score /\ j < i
    BY <1>1 DEF Before
  <1> QED  BY <1>1, <1>2

(* What an answered search has of the rows that pass. *)
LEMMA AnsweredSearch ==
  ASSUME IInv, Answered("search")
  PROVE  /\ RequestOK /\ request.kind = "search" /\ Looped
         /\ \A i \in Window : Passes(i) => InAnswer(i) \/ Full
         /\ \A i \in Window : InAnswer(i) => Passes(i)
  <1>1. RequestOK /\ request.kind = "search" /\ Looped /\ (candidates = <<>> \/ Enough)
    BY DEF IInv, SearchInv, Answered
  <1>2. Len(results) \in Nat /\ Len(results) <= request.topK /\ request.topK \in Nat
    BY <1>1, WindowRows DEF IInv, SearchInv
  <1>3. Enough => Full
    BY <1>2 DEF Enough, Full
  <1>4. candidates = <<>> => DOMAIN candidates = {}
    OBVIOUS
  <1> QED  BY <1>1, <1>3, <1>4 DEF Looped, InAnswer

(* The places of the rivals of a result are those before it. *)
LEMMA RivalsOfResult ==
  ASSUME IInv, Answered("search"), NEW p \in DOMAIN results
  PROVE  Cardinality(Rivals(results[p].id)) = p - 1
  <1> DEFINE i == results[p].id
             f == [q \in 1 .. p - 1 |-> results[q].id]
  <1>1. /\ RequestOK /\ request.kind = "search" /\ Looped
        /\ DOMAIN results = 1 .. Len(results) /\ Len(results) \in Nat
        /\ \A q \in DOMAIN results : results[q].id \in Window
    BY AnsweredSearch DEF IInv, SearchInv
  <1>2. /\ \A q \in DOMAIN results : Passes(results[q].id)
        /\ \A q, r \in DOMAIN results :
              q < r => Before(Candidate(results[q].id), Candidate(results[r].id))
    BY <1>1 DEF Looped
  <1>3. \A q \in 1 .. p - 1 : q \in DOMAIN results /\ q < p
    BY <1>1
  <1>4. \A q \in 1 .. p - 1 : results[q].id \in Rivals(i)
    <2> TAKE q \in 1 .. p - 1
    <2>1. Before(Candidate(results[q].id), Candidate(i))
      BY <1>2, <1>3
    <2> QED  BY <1>1, <1>2, <1>3, <2>1, BeforeOrders DEF Rivals
  <1>5. \A j \in Rivals(i) : \E q \in 1 .. p - 1 : results[q].id = j
    <2> TAKE j \in Rivals(i)
    <2>1. j \in Window /\ Passes(j) /\ Before(Candidate(j), Candidate(i))
      BY <1>1, BeforeOrders DEF Rivals
    <2>2. InAnswer(j)
      <3> SUFFICES ASSUME ~InAnswer(j) PROVE FALSE
        OBVIOUS
      <3>1. PICK q \in DOMAIN candidates : candidates[q].row = j
        BY <1>1, <2>1 DEF Looped
      <3>2. Before(Candidate(i), candidates[q])
        BY <1>1 DEF Looped
      <3>3. candidates[q] \in CandidateSet
        BY <1>1, <3>1 DEF IInv, SearchInv
      <3>4. candidates[q] = Candidate(j)
        BY <1>1, <3>1, <3>3, WindowRows DEF CandidateSet
      <3> HIDE DEF i
      <3>5. i \in Window
        BY <1>1 DEF i
      <3> QED  BY <1>1, <2>1, <3>2, <3>4, <3>5, BeforeOrders
    <2>3. PICK q \in DOMAIN results : results[q].id = j
      BY <2>2 DEF InAnswer
    <2>4. ~(p < q) /\ q # p
      <3>1. q # p
        BY <1>1, <2>1, <2>3, BeforeOrders
      <3>2. ~(p < q)
        BY <1>1, <1>2, <2>1, <2>3, BeforeOrders
      <3> QED  BY <3>1, <3>2
    <2> QED  BY <1>1, <2>3, <2>4
  <1>6. \A q, r \in 1 .. p - 1 : results[q].id = results[r].id => q = r
    <2> SUFFICES ASSUME NEW q \in 1 .. p - 1, NEW r \in 1 .. p - 1, results[q].id = results[r].id, q # r
                 PROVE  FALSE
      OBVIOUS
    <2>1. q < r \/ r < q
      BY <1>1
    <2>2. Before(Candidate(results[q].id), Candidate(results[q].id))
      BY <1>2, <1>3, <2>1
    <2> QED  BY <1>1, <1>3, <2>2, BeforeOrders
  <1> HIDE DEF i
  <1>7. f \in Bijection(1 .. p - 1, Rivals(i))
    BY <1>4, <1>5, <1>6 DEF Bijection, Injection, Surjection, IsInjective
  <1>8. IsFiniteSet(1 .. p - 1) /\ Cardinality(1 .. p - 1) = p - 1
    <2>1. p - 1 \in Nat
      BY <1>1
    <2> QED  BY <2>1, NatInterval
  <1> HIDE DEF f
  <1>9. ExistsBijection(1 .. p - 1, Rivals(i))
    BY <1>7 DEF ExistsBijection
  <1>10. Cardinality(Rivals(i)) = p - 1
    BY <1>8, <1>9, FS_Bijection
  <1> QED  BY <1>10 DEF i

(* A row that passes and is not answered has as many rivals as were asked for. *)
LEMMA RivalsOfOther ==
  ASSUME IInv, Answered("search"), NEW i \in Window, Passes(i), ~InAnswer(i)
  PROVE  ~(Cardinality(Rivals(i)) < request.topK)
  <1> DEFINE n == Len(results)
             A == {results[q].id : q \in 1 .. n}
             f == [q \in 1 .. n |-> results[q].id]
  <1>1. /\ RequestOK /\ request.kind = "search" /\ Looped /\ Full
        /\ DOMAIN results = 1 .. n /\ n \in Nat
        /\ \A q \in DOMAIN results : results[q].id \in Window
    BY AnsweredSearch DEF IInv, SearchInv
  <1>2. \A q \in 1 .. n : results[q].id \in Rivals(i)
    <2> TAKE q \in 1 .. n
    <2>1. PICK r \in DOMAIN candidates : candidates[r].row = i
      BY <1>1 DEF Looped
    <2>2. Before(Candidate(results[q].id), candidates[r])
      BY <1>1 DEF Looped
    <2>3. candidates[r] \in CandidateSet
      BY <1>1, <2>1 DEF IInv, SearchInv
    <2>4. candidates[r] = Candidate(i)
      BY <1>1, <2>1, <2>3, WindowRows DEF CandidateSet
    <2> QED  BY <1>1, <2>2, <2>4, BeforeOrders DEF Rivals, Looped
  <1>3. \A q, r \in 1 .. n : results[q].id = results[r].id => q = r
    <2> SUFFICES ASSUME NEW q \in 1 .. n, NEW r \in 1 .. n, results[q].id = results[r].id, q # r
                 PROVE  FALSE
      OBVIOUS
    <2>1. q < r \/ r < q
      BY <1>1
    <2>2. Before(Candidate(results[q].id), Candidate(results[q].id))
      BY <1>1, <2>1 DEF Looped
    <2> QED  BY <1>1, <2>2, BeforeOrders
  <1>4. f \in Injection(1 .. n, Rivals(i))
    BY <1>2, <1>3 DEF Injection, IsInjective
  <1>5. IsFiniteSet(Rivals(i))
    <2> DEFINE m == Oversample * request.topK
    <2>1. m \in Nat /\ Window \in SUBSET (1 .. m)
      BY <1>1, WindowRows
    <2> HIDE DEF m
    <2>2. IsFiniteSet(1 .. m)
      BY <2>1, NatInterval
    <2>3. Rivals(i) \in SUBSET (1 .. m)
      BY <2>1 DEF Rivals
    <2> QED  BY <2>2, <2>3, FS_Subset
  <1> HIDE DEF f
  <1>6. Cardinality(1 .. n) <= Cardinality(Rivals(i))
    BY <1>4, <1>5, FS_Injection
  <1>7. Cardinality(1 .. n) = n
    BY <1>1, NatInterval
  <1>8. n = request.topK
    BY <1>1 DEF Full
  <1>9. Cardinality(Rivals(i)) \in Nat
    BY <1>5, FS_CardinalityType
  <1> QED  BY <1>1, <1>6, <1>7, <1>8, <1>9

(* The invariant implies BestMatchesInOrder.                                 *)
LEMMA BestMatches == IInv => BestMatchesInOrder
  <1> SUFFICES ASSUME IInv, Answered("search")
               PROVE  /\ \A i \in Window :
                            Passes(i) /\ Cardinality(Rivals(i)) < request.topK =>
                               /\ Cardinality(Rivals(i)) < Len(results)
                               /\ results[Cardinality(Rivals(i)) + 1].id = i
                      /\ \A p \in DOMAIN results : Passes(results[p].id)
    BY DEF BestMatchesInOrder
  <1>1. \A p \in DOMAIN results : Passes(results[p].id)
    BY AnsweredSearch DEF Looped
  <1>2. ASSUME NEW i \in Window, Passes(i), Cardinality(Rivals(i)) < request.topK
        PROVE  Cardinality(Rivals(i)) < Len(results) /\ results[Cardinality(Rivals(i)) + 1].id = i
    <2>1. InAnswer(i)
      BY <1>2, RivalsOfOther
    <2>2. PICK p \in DOMAIN results : results[p].id = i
      BY <2>1 DEF InAnswer
    <2>3. Cardinality(Rivals(i)) = p - 1
      BY <2>2, RivalsOfResult
    <2>4. p \in 1 .. Len(results) /\ Len(results) \in Nat
      BY AnsweredSearch DEF IInv, SearchInv
    <2> QED  BY <2>2, <2>3, <2>4
  <1> QED  BY <1>1, <1>2

(* search_vectors answers the best of the rows it read, in order, for every  *)
(* table, query, metric, threshold and filter (BestMatchesInOrder).          *)
THEOREM BestMatchesAreAnswered == Spec => []BestMatchesInOrder
  BY SearchInductive, BestMatches, PTL

(* The invariant implies the types.                                          *)
LEMMA SearchType == IInv => TypeOK
  BY Kinds, WindowRows DEF IInv, SearchInv, TypeOK

(* The invariant implies FilterIsItsLogic: what passes is what the           *)
(* dictionary means.                                                         *)
LEMMA FilterLogic == IInv => FilterIsItsLogic
  <1> SUFFICES ASSUME IInv, Answered("search"), request.filter.form = "dict", WellFormed(request.filter.dict),
                      NEW i \in Window
               PROVE  LET raises == \E f \in FieldsOf(request.filter.dict) :
                              ConditionRaises(Metadata(i), FieldCondition(f))
                          meant == ~raises /\ Metadata(i) \in Meant[request.filter.dict]
                      IN  /\ InAnswer(i) => meant
                          /\ (meant /\ Within(i)) => InAnswer(i) \/ Full
    BY DEF FilterIsItsLogic
  <1> DEFINE d == request.filter.dict
             m == Metadata(i)
             meant == ~Raises(d, m) /\ m \in Meant[d]
  <1>1. /\ RequestOK /\ request.kind = "search" /\ Looped
        /\ \A j \in Window : Passes(j) => InAnswer(j) \/ Full
        /\ \A j \in Window : InAnswer(j) => Passes(j)
    BY AnsweredSearch
  <1>2. d \in Dicts /\ m \in Metadatas
    BY <1>1, Kinds, WindowRows DEF IsSearch
  <1>3. expression = ParseDict[d]
    BY <1>1 DEF Looped, Parsed
  <1>4. AsMeant(d, m)
    BY <1>2, DictMeans
  <1>5. Passes(i) <=> Within(i) /\ meant
    BY <1>3, <1>4 DEF Passes, ApplyFilter, AsMeant, Verdict
  <1> QED  BY <1>1, <1>5 DEF Raises

(* The invariant implies SqlIsItsLogic.                                      *)
LEMMA SqlLogic == IInv => SqlIsItsLogic
  <1> SUFFICES ASSUME IInv, Answered("search"), request.filter.form = "sql", ~Grouped(request.filter.sql),
                      NEW i \in Window
               PROVE  LET sql == request.filter.sql
                          raises == \E k \in DOMAIN sql :
                              sql[k] \in DOMAIN Phrases /\ ConditionRaises(Metadata(i), Phrases[sql[k]])
                          meant == ~raises /\ MeansSql(Metadata(i), sql)
                      IN  /\ InAnswer(i) => meant
                          /\ (meant /\ Within(i)) => InAnswer(i) \/ Full
    BY DEF SqlIsItsLogic
  <1> DEFINE s == request.filter.sql
             m == Metadata(i)
             meant == ~RaisesSql(s, m) /\ MeansSql(m, s)
  <1>1. /\ RequestOK /\ request.kind = "search" /\ Looped
        /\ \A j \in Window : Passes(j) => InAnswer(j) \/ Full
        /\ \A j \in Window : InAnswer(j) => Passes(j)
    BY AnsweredSearch
  <1>2. s \in Texts /\ m \in Metadatas
    BY <1>1, Kinds, WindowRows DEF IsSearch, Texts
  <1>3. expression = ParseSql[s] /\ ParseSql[s] # Malformed
    BY <1>1 DEF Looped, Parsed
  <1>4. ParseSql[s][m] = IF RaisesSql(s, m) THEN "raises" ELSE Verdict(MeansSql(m, s))
    BY <1>2, <1>3, SqlMeans
  <1>5. Passes(i) <=> Within(i) /\ meant
    BY <1>3, <1>4 DEF Passes, ApplyFilter, Verdict
  <1> QED  BY <1>1, <1>5 DEF RaisesSql

(* _parse_dict_expression and apply_filter answer what a dictionary means,   *)
(* for every dictionary however deep, and all metadata (FilterIsItsLogic).   *)
THEOREM FilterLogicHolds == Spec => []FilterIsItsLogic
  BY SearchInductive, FilterLogic, PTL

(* _parse_sql_expression reads a text without parentheses as an OR of ANDs,  *)
(* for every text and every set of conditions (SqlIsItsLogic).               *)
THEOREM SqlLogicHolds == Spec => []SqlIsItsLogic
  BY SearchInductive, SqlLogic, PTL

(* A search never has more results than were asked for, nor more candidates  *)
(* than rows were read, and ranks are places (TypeOK).                       *)
THEOREM SearchTypeCorrect == Spec => []TypeOK
  BY SearchInductive, SearchType, PTL

\* The hits of the text search when it is over.
TextFound ==
    phase = "found" =>
        \/ candidates = <<>>
        \/ \E order \in TextOrders(request.docs, request.query, request.topK) :
               candidates = [i \in DOMAIN order |->
                               [id |-> order[i], score |-> TextScore(request.docs, request.query, order[i])]]

(* Nothing is found of a request that was received.                          *)
LEMMA TextFoundInit == Init => TextFound
  BY DEF Init, TextFound

(* Every step keeps what is said of the hits of a text search.               *)
LEMMA TextFoundNext == TextFound /\ [Next]_vars => TextFound'
  <1> SUFFICES ASSUME TextFound, [Next]_vars PROVE TextFound'
    OBVIOUS
  <1>1. CASE UNCHANGED vars
    <2>1. request' = request /\ phase' = phase /\ candidates' = candidates
      BY <1>1 DEF vars
    <2> QED  BY <2>1 DEF TextFound
  <1>2. CASE TextSearch
    <2>1. request' = request
      BY <1>2 DEF TextSearch
    <2> QED  BY <1>2, <2>1 DEF TextFound, TextSearch
  <1>3. CASE \/ Fetch \/ FetchFails \/ ParseFilter \/ SkipHead \/ TakeHead \/ Answer
             \/ RefuseWeights \/ FuseHits \/ BuildIndex
    <2>1. phase' # "found"
      BY <1>3 DEF Fetch, FetchFails, ParseFilter, SkipHead, TakeHead, Answer, RefuseWeights, FuseHits,
                  BuildIndex, Respond, Fail
    <2> QED  BY <2>1 DEF TextFound
  <1> QED  BY <1>1, <1>2, <1>3 DEF Next

(* Both invariants hold in every state.                                      *)
THEOREM TextFoundInductive == Spec => [](IInv /\ TextFound)
  <1>1. Init => IInv /\ TextFound
    BY InitInv, TextFoundInit
  <1>2. (IInv /\ TextFound) /\ [Next]_vars => (IInv /\ TextFound)'
    BY NextInv, TextFoundNext
  <1> QED  BY <1>1, <1>2, PTL DEF Spec

-----------------------------------------------------------------------------
(* Text search *)

(* The score of a word for a text is higher if its share of the text is.     *)
LEMMA TermScores ==
  ASSUME NEW r, IsHybrid(r), NEW word, NEW d \in DOMAIN r.docs
  PROVE  /\ TermFrequency(word, r.docs[d]) \in Nat
         /\ TermScore(r.docs, word, d) \in Int
         /\ \A e \in DOMAIN r.docs :
               TermFrequency(word, r.docs[e]) <= TermFrequency(word, r.docs[d])
                  => TermScore(r.docs, word, e) <= TermScore(r.docs, word, d)
  <1>0. /\ Len(r.docs) \in Nat /\ DOMAIN r.docs = 1 .. Len(r.docs)
        /\ (1 .. Len(r.docs)) \X (1 .. Len(r.docs)) \subseteq DOMAIN Logs
        /\ ShareScale \in Nat /\ \A p \in DOMAIN Logs : Logs[p] \in Nat
    BY RankingAssumption DEF IsHybrid
  <1>1. \A e \in DOMAIN r.docs : TermFrequency(word, r.docs[e]) \in Nat
    <2> TAKE e \in DOMAIN r.docs
    <2> DEFINE text == r.docs[e]
    <2>1. Len(text) \in Nat /\ DOMAIN text = 1 .. Len(text)
      BY DEF IsHybrid
    <2> HIDE DEF text
    <2>2. Count(word, text) \in Nat
      <3> DEFINE at == {i \in DOMAIN text : text[i] = word}
      <3>1. at \in SUBSET (1 .. Len(text))
        BY <2>1
      <3> HIDE DEF at
      <3>2. Cardinality(at) \in Nat
        BY <2>1, <3>1, NatInterval, FS_Subset, FS_CardinalityType
      <3> QED  BY <3>2 DEF at, Count
    <2>3. CASE text = <<>>
      BY <2>3 DEF TermFrequency, text
    <2>4. CASE text # <<>>
      <3>1. ShareScale * Count(word, text) \in Nat
        BY <1>0, <2>2
      <3>2. CASE Len(text) # 0
        <4>1. (ShareScale * Count(word, text)) \div Len(text) \in Nat
          BY <2>1, <3>1, <3>2, DivFacts
        <4> QED  BY <2>4, <4>1 DEF TermFrequency, text
      <3>3. CASE Len(text) = 0
        BY <2>1, <2>4, <3>3 DEF text, IsHybrid
      <3> QED  BY <2>1, <3>2, <3>3
    <2> QED  BY <2>3, <2>4 DEF text
  <1>2. CASE Having(r.docs, word) = {}
    <2>1. \A e : TermScore(r.docs, word, e) = 0
      BY <1>2 DEF TermScore
    <2> QED  BY <1>1, <2>1
  <1>3. CASE Having(r.docs, word) # {}
    <2> DEFINE idf == Idf(r.docs, word)
    <2>1. idf \in Nat
      <3> DEFINE m == Cardinality(Having(r.docs, word))
                 n == Len(r.docs)
      <3>1. Having(r.docs, word) \in SUBSET (1 .. n)
        BY <1>0 DEF Having
      <3>2. IsFiniteSet(Having(r.docs, word)) /\ m <= n /\ m \in Nat
        BY <1>0, <3>1, NatInterval, FS_Subset, FS_CardinalityType
      <3>3. m # 0
        BY <1>3, <3>2, FS_EmptySet
      <3>4. <<n, m>> \in (1 .. n) \X (1 .. n)
        BY <1>0, <3>2, <3>3
      <3> QED  BY <1>0, <3>4 DEF Idf
    <2>2. \A e : TermScore(r.docs, word, e) = TermFrequency(word, r.docs[e]) * idf
      BY <1>3 DEF TermScore
    <2> HIDE DEF idf
    <2> DEFINE tf(e) == TermFrequency(word, r.docs[e])
    <2>3. \A e \in DOMAIN r.docs : tf(e) \in Nat
      BY <1>1
    <2> HIDE DEF tf
    <2>4. \A e \in DOMAIN r.docs : tf(e) <= tf(d) => tf(e) * idf <= tf(d) * idf
      <3> TAKE e \in DOMAIN r.docs
      <3> HAVE tf(e) <= tf(d)
      <3>1. tf(e) \in Int /\ tf(d) \in Int
        BY <2>3
      <3>2. idf * tf(d) >= idf * tf(e)
        BY <2>1, <3>1, TimesMonotone
      <3> QED  BY <2>1, <3>1, <3>2
    <2>5. tf(d) * idf \in Int
      BY <2>1, <2>3
    <2> QED  BY <1>1, <2>2, <2>4, <2>5 DEF tf
  <1> QED  BY <1>2, <1>3

\* f has the sums of the scores of the words of a query for a text.
SumsScores(f, docs, query, d) ==
    /\ f \in [0 .. Len(query) -> Int]
    /\ f[0] = 0 /\ \A k \in 1 .. Len(query) : f[k] = f[k - 1] + TermScore(docs, query[k], d)
    /\ TextScore(docs, query, d) = f[Len(query)]

(* The score of a query is the sum of those of its words, whatever their     *)
(* number.                                                                   *)
LEMMA TextScoreSums ==
  ASSUME NEW r, IsHybrid(r), NEW d \in DOMAIN r.docs
  PROVE  \E f : SumsScores(f, r.docs, r.query, d)
  <1> DEFINE n == Len(r.query)
             T == 0 .. n
             term(k) == TermScore(r.docs, r.query[k], d)
             Part == [k \in T |-> IF k = 0 THEN {} ELSE {k - 1}]
             Rank == [k \in T |-> k]
             H == [x \in T \X SUBSET Int |->
                      IF x[1] = 0 \/ x[2] = {} THEN 0 ELSE (CHOOSE y \in x[2] : TRUE) + term(x[1])]
  <1>1. n \in Nat
    BY DEF IsHybrid
  <1>2. \A k \in T : term(k) \in Int
    BY TermScores
  <1> HIDE DEF term
  <1>3. Rank \in [T -> Nat] /\ Part \in [T -> SUBSET T] /\ \A t \in T : \A u \in Part[t] : Rank[u] < Rank[t]
    BY <1>1
  <1>4. H \in [T \X SUBSET Int -> Int]
    BY <1>2
  <1> HIDE DEF T, Part, Rank, H
  <1>5. PICK f \in [T -> Int] : Computes(f, T, Part, H)
    BY <1>3, <1>4, Recursion
  <1>6. \A k \in T : f[k] = H[<<k, {f[u] : u \in Part[k]}>>]
    BY <1>5 DEF Computes
  <1>7. \A k \in T : f[k] = IF k = 0 THEN 0 ELSE f[k - 1] + term(k)
    <2> TAKE k \in T
    <2>1. CASE k = 0
      <3>1. {f[u] : u \in Part[k]} = {}
        BY <2>1 DEF Part
      <3>2. H[<<k, {}>>] = 0
        BY <2>1 DEF H
      <3> QED  BY <1>6, <2>1, <3>1, <3>2
    <2>2. CASE k # 0
      <3>1. Part[k] = {k - 1}
        BY <2>2 DEF Part
      <3>2. k - 1 \in T
        BY <1>1, <2>2 DEF T
      <3>3. f[k - 1] \in Int
        BY <1>5, <3>2
      <3>4. {f[u] : u \in Part[k]} = {f[k - 1]}
        BY <3>1
      <3>5. H[<<k, {f[k - 1]}>>] = f[k - 1] + term(k)
        BY <2>2, <3>3 DEF H
      <3> QED  BY <1>6, <2>2, <3>4, <3>5
    <2> QED  BY <2>1, <2>2
  <1> DEFINE Sum(g) == [k \in 0 .. n |-> IF k = 0 THEN 0 ELSE g[k - 1] + term(k)]
             score == CHOOSE g : g = Sum(g)
  <1>8. f = Sum(f)
    BY <1>7 DEF T
  <1>9. score = Sum(score)
    <2> HIDE DEF Sum
    <2> QED  BY <1>8
  <1>10. TextScore(r.docs, r.query, d) = score[n]
    BY DEF TextScore, term
  <1> HIDE DEF score
  <1>11. \A k \in T : score[k] = IF k = 0 THEN 0 ELSE score[k - 1] + term(k)
    BY <1>9 DEF T
  <1>12. \A k \in T : score[k] \in Int
    <2> DEFINE B == {k \in T : score[k] \notin Int}
    <2> SUFFICES ASSUME B # {} PROVE FALSE
      OBVIOUS
    <2>1. PICK k \in B : \A l \in B : Rank[k] <= Rank[l]
      <3>1. B \in SUBSET T
        OBVIOUS
      <3> HIDE DEF B
      <3> QED  BY <1>3, <3>1, LeastRank
    <2>2. k # 0
      BY <1>11
    <2>3. k - 1 \in T /\ k \in Nat
      BY <1>1, <2>2 DEF T
    <2>4. k - 1 \notin B
      BY <2>1, <2>3 DEF Rank
    <2> QED  BY <1>2, <1>11, <2>2, <2>3, <2>4
  <1>13. score \in [0 .. n -> Int]
    BY <1>9, <1>12 DEF T
  <1>14. score[0] = 0 /\ \A k \in 1 .. n : score[k] = score[k - 1] + TermScore(r.docs, r.query[k], d)
    BY <1>1, <1>11 DEF T, term
  <1> QED  BY <1>10, <1>13, <1>14 DEF SumsScores

\* A text with no smaller share of any word has no smaller score.
LEMMA TextScoreOrders ==
  ASSUME NEW r, IsHybrid(r), NEW d \in DOMAIN r.docs, NEW e \in DOMAIN r.docs,
         \A k \in DOMAIN r.query : TermFrequency(r.query[k], r.docs[e]) <= TermFrequency(r.query[k], r.docs[d])
  PROVE  /\ TextScore(r.docs, r.query, d) \in Int /\ TextScore(r.docs, r.query, e) \in Int
         /\ TextScore(r.docs, r.query, e) <= TextScore(r.docs, r.query, d)
  <1> DEFINE n == Len(r.query)
             T == 0 .. n
             Rank == [k \in T |-> k]
  <1>1. n \in Nat /\ DOMAIN r.query = 1 .. n
    BY DEF IsHybrid
  <1>2. PICK f : SumsScores(f, r.docs, r.query, d)
    BY TextScoreSums
  <1>3. PICK g : SumsScores(g, r.docs, r.query, e)
    BY TextScoreSums
  <1>4. \A k \in T : f[k] \in Int /\ g[k] \in Int
    BY <1>2, <1>3 DEF SumsScores
  <1>5. \A k \in 1 .. n : /\ f[k] = f[k - 1] + TermScore(r.docs, r.query[k], d)
                          /\ g[k] = g[k - 1] + TermScore(r.docs, r.query[k], e)
    BY <1>2, <1>3 DEF SumsScores
  <1>6. \A k \in 1 .. n : /\ TermScore(r.docs, r.query[k], e) <= TermScore(r.docs, r.query[k], d)
                          /\ TermScore(r.docs, r.query[k], d) \in Int
                          /\ TermScore(r.docs, r.query[k], e) \in Int
    BY <1>1, TermScores
  <1>7. \A k \in T : g[k] <= f[k]
    <2> DEFINE B == {k \in T : ~(g[k] <= f[k])}
    <2> SUFFICES ASSUME B # {} PROVE FALSE
      OBVIOUS
    <2>1. PICK k \in B : \A l \in B : Rank[k] <= Rank[l]
      <3>1. B \in SUBSET T /\ Rank \in [T -> Nat]
        BY <1>1
      <3> HIDE DEF B, T, Rank
      <3> QED  BY <3>1, LeastRank
    <2>2. k # 0
      BY <1>2, <1>3 DEF SumsScores
    <2>3. k - 1 \in T /\ k \in 1 .. n /\ k \in Nat
      BY <1>1, <2>2
    <2>4. k - 1 \notin B
      <3>1. Rank[k] = k /\ Rank[k - 1] = k - 1
        BY <2>3
      <3>2. k - 1 \in B => Rank[k] <= Rank[k - 1]
        BY <2>1
      <3> QED  BY <2>3, <3>1, <3>2
    <2>5. g[k - 1] <= f[k - 1] /\ g[k - 1] \in Int /\ f[k - 1] \in Int
      BY <1>4, <2>3, <2>4
    <2> QED  BY <1>5, <1>6, <2>3, <2>5
  <1>8. n \in T
    BY <1>1
  <1> QED  BY <1>2, <1>3, <1>4, <1>7, <1>8 DEF SumsScores

(* The invariants imply TextFavours.                                         *)
LEMMA TextFavoursShares == IInv /\ TextFound => TextFavours
  <1> SUFFICES ASSUME IInv, TextFound, phase = "found",
                      NEW i \in DOMAIN candidates, NEW j \in DOMAIN candidates,
                      \A k \in DOMAIN request.query :
                         TermFrequency(request.query[k], request.docs[candidates[i].id])
                         >= TermFrequency(request.query[k], request.docs[candidates[j].id])
               PROVE  i <= j \/ candidates[i].score = candidates[j].score
    BY DEF TextFavours
  <1> DEFINE docs == request.docs
             query == request.query
             hits == TextHits(docs, query)
             n == Min({Cardinality(hits), 2 * request.topK})
  <1>1. IsHybrid(request) /\ candidates # <<>>
    BY Kinds DEF IInv
  <1>2. PICK s \in TextOrders(docs, query, request.topK) :
              candidates = [p \in DOMAIN s |->
                            [id |-> s[p], score |-> TextScore(docs, query, s[p])]]
    BY <1>1 DEF TextFound
  <1>3. /\ s \in [1 .. n -> hits]
        /\ \A p, q \in 1 .. n : p < q => TextScore(docs, query, s[p]) >= TextScore(docs, query, s[q])
    BY DEF TextOrders
  <1> HIDE DEF n
  <1>4. DOMAIN candidates = 1 .. n /\ \A p \in 1 .. n : /\ candidates[p].id = s[p] /\ s[p] \in DOMAIN docs
                                                    /\ candidates[p].score = TextScore(docs, query, s[p])
    BY <1>2, <1>3 DEF TextHits
  <1>5. /\ candidates[i].score \in Int /\ candidates[j].score \in Int
        /\ candidates[j].score <= candidates[i].score
    <2>1. \A k \in DOMAIN query : TermFrequency(query[k], docs[s[i]]) >= TermFrequency(query[k], docs[s[j]])
      BY <1>4
    <2>2. \A k \in DOMAIN query : TermFrequency(query[k], docs[s[j]]) <= TermFrequency(query[k], docs[s[i]])
      <3> TAKE k \in DOMAIN query
      <3>1. TermFrequency(query[k], docs[s[i]]) \in Nat /\ TermFrequency(query[k], docs[s[j]]) \in Nat
        BY <1>1, <1>4, TermScores
      <3> QED  BY <2>1, <3>1
    <2>3. s[i] \in DOMAIN request.docs /\ s[j] \in DOMAIN request.docs
      BY <1>4
    <2>4. TextScore(docs, query, s[i]) \in Int /\ TextScore(docs, query, s[j]) \in Int
          /\ TextScore(docs, query, s[j]) <= TextScore(docs, query, s[i])
      BY <1>1, <2>2, <2>3, TextScoreOrders
    <2> QED  BY <1>4, <2>4
  <1>6. CASE j < i
    <2>1. candidates[j].score >= candidates[i].score
      BY <1>3, <1>4, <1>6
    <2> QED  BY <1>5, <2>1
  <1>7. CASE ~(j < i)
    <2>1. i \in Int /\ j \in Int
      BY <1>4
    <2> QED  BY <1>7, <2>1
  <1> QED  BY <1>6, <1>7

(* The text search never puts a text behind one that has no larger share   *)
(* of any word of the query, unless their scores are equal, for all texts    *)
(* and queries (TextFavours).                                                *)
THEOREM TextFavoursHolds == Spec => []TextFavours
  BY TextFoundInductive, TextFavoursShares, PTL
=============================================================================
