------------------------- MODULE RateLimiterProofs -------------------------
(***************************************************************************)
(* What holds of RateLimiter for every number of workers and checks, all   *)
(* costs and limits, whatever fails, restarts or is reset: the limits that *)
(* are kept with INCRBY are exact; the usage covers what was answered; the *)
(* sliding window lets two calls too many through for each further check   *)
(* that overlaps and one for each entry that its key took too early, no    *)
(* more, and refuses none that it need not; that key takes an entry too    *)
(* early only with that of a failed check; the token bucket is exact as    *)
(* long as no two checks overlap.                                          *)
(***************************************************************************)
EXTENDS RateLimiter, FiniteSetTheorems, TLAPS

-----------------------------------------------------------------------------
(* Sums over finite sets: what SumFunctionOnSet of the community modules is *)
(* for a set, and how it changes with the set and with the function.       *)

(* Induction over finite sets without an operator parameter: of the subsets *)
(* of a finite set with some defect, one has no defective proper subset.    *)
LEMMA SmallestDefect ==
  ASSUME NEW S, IsFiniteSet(S), NEW B, B \subseteq SUBSET S, B # {}
  PROVE  \E T \in B : \A U \in B : U \subseteq T => U = T
  <1>1. IsWellFoundedOn(StrictSubsetOrdering(S), FiniteSubsetsOf(S))
    BY FS_StrictSubsetOrderingWellFounded
  <1>2. B \subseteq FiniteSubsetsOf(S)
    BY FS_Subset DEF FiniteSubsetsOf
  <1>3. \E T \in B : \A U \in B : ~(<<U, T>> \in StrictSubsetOrdering(S))
    BY <1>1, <1>2, WFMin
  <1> QED  BY <1>3 DEF StrictSubsetOrdering

Picked(s) == CHOOSE x \in s : TRUE

\* g computes the sum of f over every subset of S, as SumFunctionOnSet does.
Sums(g, f, S) ==
    g = [s \in SUBSET S |-> IF s = {} THEN 0 ELSE f[Picked(s)] + g[s \ {Picked(s)}]]

LEMMA PickedIn == ASSUME NEW s, s # {} PROVE Picked(s) \in s
  BY DEF Picked

LEMMA SumsEquation ==
  ASSUME NEW g, NEW f, NEW S, Sums(g, f, S)
  PROVE  \A s \in SUBSET S :
            g[s] = IF s = {} THEN 0 ELSE f[Picked(s)] + g[s \ {Picked(s)}]
  <1> SUFFICES ASSUME NEW s \in SUBSET S
               PROVE  g[s] = IF s = {} THEN 0 ELSE f[Picked(s)] + g[s \ {Picked(s)}]
    OBVIOUS
  <1> DEFINE h == [t \in SUBSET S |-> IF t = {} THEN 0 ELSE f[Picked(t)] + g[t \ {Picked(t)}]]
  <1>1. g = h
    BY DEF Sums
  <1>2. h[s] = IF s = {} THEN 0 ELSE f[Picked(s)] + g[s \ {Picked(s)}]
    OBVIOUS
  <1> HIDE DEF h
  <1> QED  BY <1>1, <1>2

Alike(f, e, S) == \A x \in S : f[x] = e[x]

LEMMA SumsAgree ==
  ASSUME NEW S, NEW T, NEW U, NEW f, NEW e, NEW g, NEW h,
         IsFiniteSet(S), U \subseteq S, U \subseteq T,
         Sums(g, f, S), Sums(h, e, T), Alike(f, e, U)
  PROVE  g[U] = h[U]
  <1> DEFINE B == {s \in SUBSET U : g[s] # h[s]}
  <1>1. SUFFICES ASSUME B # {} PROVE FALSE
    OBVIOUS
  <1>2. IsFiniteSet(U)
    BY FS_Subset
  <1>3. PICK s \in B : \A t \in B : t \subseteq s => t = s
    <2>1. B \subseteq SUBSET U
      OBVIOUS
    <2> HIDE DEF B
    <2> QED  BY <1>1, <1>2, <2>1, SmallestDefect
  <1> DEFINE x == Picked(s)
  <1>4. /\ g[s] = IF s = {} THEN 0 ELSE f[x] + g[s \ {x}]
        /\ h[s] = IF s = {} THEN 0 ELSE e[x] + h[s \ {x}]
    <2>1. s \in SUBSET S /\ s \in SUBSET T
      OBVIOUS
    <2>2. \A t \in SUBSET S : g[t] = IF t = {} THEN 0 ELSE f[Picked(t)] + g[t \ {Picked(t)}]
      BY SumsEquation
    <2>3. \A t \in SUBSET T : h[t] = IF t = {} THEN 0 ELSE e[Picked(t)] + h[t \ {Picked(t)}]
      BY SumsEquation
    <2> QED  BY <2>1, <2>2, <2>3
  <1>5. s # {}
    BY <1>4
  <1>6. x \in s
    BY <1>5, PickedIn
  <1>7. s \ {x} \notin B
    BY <1>3, <1>6
  <1>8. g[s \ {x}] = h[s \ {x}] /\ f[x] = e[x]
    BY <1>6, <1>7 DEF Alike
  <1> QED  BY <1>4, <1>5, <1>8

LEMMA SumsExist ==
  ASSUME NEW f, NEW S, IsFiniteSet(S)
  PROVE  \E g : Sums(g, f, S)
  <1> DEFINE B == {s \in SUBSET S : ~\E g : Sums(g, f, s)}
  <1>1. SUFFICES ASSUME B # {} PROVE FALSE
    OBVIOUS
  <1>2. PICK s \in B : \A t \in B : t \subseteq s => t = s
    <2>1. B \subseteq SUBSET S
      OBVIOUS
    <2> HIDE DEF B
    <2> QED  BY <1>1, <2>1, SmallestDefect
  <1> DEFINE G(t) == CHOOSE g : Sums(g, f, t)
             v(t) == IF t = {} THEN 0 ELSE f[Picked(t)] + G(t \ {Picked(t)})[t \ {Picked(t)}]
             h == [t \in SUBSET s |-> v(t)]
  <1>3. ASSUME NEW t \in SUBSET s, t # s PROVE Sums(G(t), f, t) /\ IsFiniteSet(t)
    <2>1. \E g : Sums(g, f, t)
      BY <1>2, <1>3
    <2> QED  BY <2>1, FS_Subset
  <1>4. ASSUME NEW t \in SUBSET s, t # s PROVE v(t) = G(t)[t]
    <2>1. G(t)[t] = IF t = {} THEN 0 ELSE f[Picked(t)] + G(t)[t \ {Picked(t)}]
      BY <1>3, <1>4, SumsEquation
    <2>2. CASE t = {}
      BY <2>1, <2>2
    <2>3. CASE t # {}
      <3> DEFINE r == t \ {Picked(t)}
      <3>1. r \in SUBSET s /\ r # s /\ r \subseteq t
        BY <1>4, <2>3, PickedIn
      <3>2. Sums(G(r), f, r)
        BY <1>3, <3>1
      <3>3. Sums(G(t), f, t) /\ IsFiniteSet(t)
        BY <1>3, <1>4
      <3>4. Alike(f, f, r)
        BY DEF Alike
      <3> HIDE DEF G, r
      <3>5. G(t)[r] = G(r)[r]
        BY <3>1, <3>2, <3>3, <3>4, SumsAgree
      <3> QED  BY <2>1, <2>3, <3>5 DEF r
    <2> QED  BY <2>2, <2>3
  <1> HIDE DEF G
  <1>5. ASSUME NEW t \in SUBSET s
        PROVE  h[t] = IF t = {} THEN 0 ELSE f[Picked(t)] + h[t \ {Picked(t)}]
    <2>1. CASE t = {}
      BY <2>1
    <2>2. CASE t # {}
      <3> DEFINE r == t \ {Picked(t)}
      <3>1. r \in SUBSET s /\ r # s
        BY <2>2, PickedIn
      <3>2. h[r] = G(r)[r]
        BY <1>4, <3>1
      <3> QED  BY <2>2, <3>2
    <2> QED  BY <2>1, <2>2
  <1>6. Sums(h, f, s)
    <2> DEFINE k == [t \in SUBSET s |-> IF t = {} THEN 0 ELSE f[Picked(t)] + h[t \ {Picked(t)}]]
    <2>1. \A t \in SUBSET s : h[t] = k[t]
      BY <1>5
    <2>2. h = k
      BY <2>1
    <2> QED  BY <2>2 DEF Sums
  <1> QED  BY <1>2, <1>6

LEMMA SumIsOne ==
  ASSUME NEW f, NEW S, IsFiniteSet(S)
  PROVE  \E g : Sums(g, f, S) /\ SumFunctionOnSet(f, S) = g[S]
  <1> DEFINE g == CHOOSE g : Sums(g, f, S)
  <1>1. Sums(g, f, S)
    BY SumsExist
  <1>2. SumFunctionOnSet(f, S) = g[S]
    BY DEF SumFunctionOnSet, FoldFunctionOnSet, MapThenFoldSet, Sums, Picked
  <1> QED  BY <1>1, <1>2

(* The equation of a sum. *)
LEMMA SumEquation ==
  ASSUME NEW f, NEW S, IsFiniteSet(S)
  PROVE  SumFunctionOnSet(f, S) =
           IF S = {} THEN 0
           ELSE f[Picked(S)] + SumFunctionOnSet(f, S \ {Picked(S)})
  <1>1. PICK g : Sums(g, f, S) /\ SumFunctionOnSet(f, S) = g[S]
    BY SumIsOne
  <1>2. g[S] = IF S = {} THEN 0 ELSE f[Picked(S)] + g[S \ {Picked(S)}]
    BY <1>1, SumsEquation
  <1>3. CASE S # {}
    <2> DEFINE r == S \ {Picked(S)}
    <2>1. IsFiniteSet(r)
      BY FS_Subset
    <2>2. PICK h : Sums(h, f, r) /\ SumFunctionOnSet(f, r) = h[r]
      BY <2>1, SumIsOne
    <2>3. Alike(f, f, r) /\ r \subseteq S
      BY DEF Alike
    <2> HIDE DEF r
    <2>4. g[r] = h[r]
      BY <1>1, <2>2, <2>3, SumsAgree
    <2> QED  BY <1>1, <1>2, <1>3, <2>2, <2>4 DEF r
  <1> QED  BY <1>1, <1>2, <1>3

(* A sum depends on the values at its indices. *)
LEMMA SumCongruent ==
  ASSUME NEW S, IsFiniteSet(S), NEW f, NEW e, \A x \in S : f[x] = e[x]
  PROVE  SumFunctionOnSet(f, S) = SumFunctionOnSet(e, S)
  <1>1. PICK g : Sums(g, f, S) /\ SumFunctionOnSet(f, S) = g[S]
    BY SumIsOne
  <1>2. PICK h : Sums(h, e, S) /\ SumFunctionOnSet(e, S) = h[S]
    BY SumIsOne
  <1>3. g[S] = h[S]
    <2>1. Sums(g, f, S) /\ Sums(h, e, S)
      BY <1>1, <1>2
    <2>2. Alike(f, e, S)
      BY DEF Alike
    <2> QED  BY <2>1, <2>2, SumsAgree
  <1> QED  BY <1>1, <1>2, <1>3

LEMMA SumEmpty == \A f : SumFunctionOnSet(f, {}) = 0
  BY FS_EmptySet, SumEquation

LEMMA SumNat ==
  ASSUME NEW S, IsFiniteSet(S), NEW f, \A x \in S : f[x] \in Nat
  PROVE  SumFunctionOnSet(f, S) \in Nat
  <1> DEFINE B == {s \in SUBSET S : SumFunctionOnSet(f, s) \notin Nat}
  <1>1. SUFFICES ASSUME B # {} PROVE FALSE
    OBVIOUS
  <1>2. PICK s \in B : \A t \in B : t \subseteq s => t = s
    <2>1. B \subseteq SUBSET S
      OBVIOUS
    <2> HIDE DEF B
    <2> QED  BY <1>1, <2>1, SmallestDefect
  <1> DEFINE x == Picked(s)
  <1>3. IsFiniteSet(s)
    BY FS_Subset
  <1>4. SumFunctionOnSet(f, s) = IF s = {} THEN 0 ELSE f[x] + SumFunctionOnSet(f, s \ {x})
    BY <1>3, SumEquation
  <1>5. s # {}
    BY <1>4
  <1>6. x \in s
    BY <1>5, PickedIn
  <1>7. s \ {x} \notin B
    BY <1>2, <1>6
  <1>8. SumFunctionOnSet(f, s \ {x}) \in Nat /\ f[x] \in Nat
    BY <1>6, <1>7
  <1> QED  BY <1>4, <1>5, <1>8

(* Any index may be taken first. *)
LEMMA SumRemove ==
  ASSUME NEW S, IsFiniteSet(S), NEW f, \A x \in S : f[x] \in Nat, NEW y \in S
  PROVE  SumFunctionOnSet(f, S) = f[y] + SumFunctionOnSet(f, S \ {y})
  <1> DEFINE Total(s) == SumFunctionOnSet(f, s)
             B == {s \in SUBSET S : \E z \in s : Total(s) # f[z] + Total(s \ {z})}
  <1>1. SUFFICES ASSUME B # {} PROVE FALSE
    OBVIOUS
  <1>2. PICK s \in B : \A t \in B : t \subseteq s => t = s
    <2>1. B \subseteq SUBSET S
      OBVIOUS
    <2> HIDE DEF B
    <2> QED  BY <1>1, <2>1, SmallestDefect
  <1>3. PICK z \in s : Total(s) # f[z] + Total(s \ {z})
    OBVIOUS
  <1> DEFINE x == Picked(s)
  <1>4. IsFiniteSet(s) /\ IsFiniteSet(s \ {z}) /\ IsFiniteSet((s \ {z}) \ {x})
    BY FS_Subset
  <1>5. Total(s) = f[x] + Total(s \ {x})
    BY <1>3, <1>4, SumEquation
  <1>6. x \in s /\ x # z
    BY <1>3, <1>5, PickedIn
  <1>7. s \ {x} \notin B /\ s \ {z} \notin B
    BY <1>2, <1>6
  <1>8. Total(s \ {x}) = f[z] + Total((s \ {x}) \ {z})
    BY <1>6, <1>7
  <1>9. Total(s \ {z}) = f[x] + Total((s \ {z}) \ {x})
    BY <1>6, <1>7
  <1>10. (s \ {x}) \ {z} = (s \ {z}) \ {x}
    OBVIOUS
  <1>11. Total((s \ {z}) \ {x}) \in Nat /\ f[x] \in Nat /\ f[z] \in Nat
    BY <1>4, <1>6, SumNat
  <1> HIDE DEF Total
  <1> QED  BY <1>3, <1>5, <1>8, <1>9, <1>10, <1>11

LEMMA SumAdd ==
  ASSUME NEW S, IsFiniteSet(S), NEW y, y \notin S,
         NEW f, \A x \in S \cup {y} : f[x] \in Nat
  PROVE  SumFunctionOnSet(f, S \cup {y}) = SumFunctionOnSet(f, S) + f[y]
  <1>1. IsFiniteSet(S \cup {y})
    BY FS_AddElement
  <1>2. (S \cup {y}) \ {y} = S
    OBVIOUS
  <1>3. SumFunctionOnSet(f, S \cup {y}) = f[y] + SumFunctionOnSet(f, S)
    BY <1>1, <1>2, SumRemove
  <1>4. SumFunctionOnSet(f, S) \in Nat /\ f[y] \in Nat
    BY SumNat
  <1> QED  BY <1>3, <1>4

LEMMA SumMonotone ==
  ASSUME NEW T, IsFiniteSet(T), NEW S \in SUBSET T, NEW f, \A x \in T : f[x] \in Nat
  PROVE  SumFunctionOnSet(f, S) <= SumFunctionOnSet(f, T)
  <1> DEFINE Total(s) == SumFunctionOnSet(f, s)
             B == {s \in SUBSET T : \E r \in SUBSET s : ~(Total(r) <= Total(s))}
  <1>1. SUFFICES ASSUME B # {} PROVE FALSE
    OBVIOUS
  <1>2. PICK s \in B : \A t \in B : t \subseteq s => t = s
    <2>1. B \subseteq SUBSET T
      OBVIOUS
    <2> HIDE DEF B
    <2> QED  BY <1>1, <2>1, SmallestDefect
  <1>3. PICK r \in SUBSET s : ~(Total(r) <= Total(s))
    OBVIOUS
  <1>4. IsFiniteSet(s) /\ IsFiniteSet(r)
    BY FS_Subset
  <1>5. Total(s) \in Nat /\ Total(r) \in Nat
    BY <1>4, SumNat
  <1>6. r # s
    BY <1>3, <1>5
  <1>7. PICK z \in s : z \notin r
    BY <1>6
  <1>8. s \ {z} \notin B
    BY <1>2
  <1>9. Total(r) <= Total(s \ {z})
    BY <1>7, <1>8
  <1>10. Total(s) = f[z] + Total(s \ {z})
    BY <1>4, SumRemove
  <1>11. Total(s \ {z}) \in Nat /\ f[z] \in Nat
    BY <1>4, FS_Subset, SumNat
  <1> HIDE DEF Total
  <1> QED  BY <1>3, <1>5, <1>9, <1>10, <1>11

(* Indices at which f is zero can be left out. *)
LEMMA SumZeros ==
  ASSUME NEW T, IsFiniteSet(T), NEW S \in SUBSET T, NEW f, \A x \in S : f[x] \in Nat,
         \A x \in T \ S : f[x] = 0
  PROVE  SumFunctionOnSet(f, T) = SumFunctionOnSet(f, S)
  <1> DEFINE Total(s) == SumFunctionOnSet(f, s)
             B == {s \in SUBSET (T \ S) : Total(S \cup s) # Total(S)}
  <1>1. CASE B = {}
    <2>1. T \ S \notin B /\ S \cup (T \ S) = T
      BY <1>1
    <2> QED  BY <2>1
  <1>2. CASE B # {}
    <2>1. IsFiniteSet(T \ S)
      BY FS_Subset
    <2>2. PICK s \in B : \A t \in B : t \subseteq s => t = s
      <3>1. B \subseteq SUBSET (T \ S)
        OBVIOUS
      <3> HIDE DEF B
      <3> QED  BY <1>2, <2>1, <3>1, SmallestDefect
    <2>3. PICK z : z \in s
      <3>1. s # {}
        BY <2>2
      <3> QED  BY <3>1
    <2>4. s \ {z} \notin B
      BY <2>2, <2>3
    <2>5. Total(S \cup (s \ {z})) = Total(S)
      BY <2>4
    <2>6. IsFiniteSet(S \cup s) /\ (S \cup s) \ {z} = S \cup (s \ {z})
      BY <2>3, FS_Subset
    <2>7. Total(S \cup s) = f[z] + Total(S \cup (s \ {z}))
      BY <2>3, <2>6, SumRemove
    <2>8. Total(S) \in Nat /\ f[z] = 0
      BY <2>3, FS_Subset, SumNat
    <2> HIDE DEF Total
    <2> QED  BY <2>2, <2>5, <2>7, <2>8
  <1> QED  BY <1>1, <1>2

(* One value raised by one. *)
LEMMA SumRaise ==
  ASSUME NEW S, IsFiniteSet(S), NEW f, NEW e, NEW y \in S, \A x \in S : f[x] \in Nat,
         \A x \in S : e[x] = IF x = y THEN f[x] + 1 ELSE f[x]
  PROVE  SumFunctionOnSet(e, S) = SumFunctionOnSet(f, S) + 1
  <1>1. IsFiniteSet(S \ {y})
    BY FS_Subset
  <1>2. SumFunctionOnSet(e, S \ {y}) = SumFunctionOnSet(f, S \ {y})
    BY <1>1, SumCongruent
  <1>3. SumFunctionOnSet(e, S) = e[y] + SumFunctionOnSet(e, S \ {y})
    BY SumRemove
  <1>4. SumFunctionOnSet(f, S) = f[y] + SumFunctionOnSet(f, S \ {y})
    BY SumRemove
  <1>5. SumFunctionOnSet(f, S \ {y}) \in Nat /\ f[y] \in Nat
    BY <1>1, SumNat
  <1> QED  BY <1>2, <1>3, <1>4, <1>5

(* Lower values have a lower sum. *)
LEMMA SumLower ==
  ASSUME NEW S, IsFiniteSet(S), NEW f, NEW e, \A x \in S : f[x] \in Nat /\ e[x] \in Nat,
         \A x \in S : e[x] <= f[x]
  PROVE  SumFunctionOnSet(e, S) <= SumFunctionOnSet(f, S)
  <1> DEFINE B == {s \in SUBSET S : ~(SumFunctionOnSet(e, s) <= SumFunctionOnSet(f, s))}
  <1>1. SUFFICES ASSUME B # {} PROVE FALSE
    BY SumNat
  <1>2. PICK s \in B : \A t \in B : t \subseteq s => t = s
    <2>1. B \subseteq SUBSET S
      OBVIOUS
    <2> HIDE DEF B
    <2> QED  BY <1>1, <2>1, SmallestDefect
  <1> DEFINE x == Picked(s)
  <1>3. IsFiniteSet(s) /\ IsFiniteSet(s \ {x})
    BY FS_Subset
  <1>4. /\ SumFunctionOnSet(f, s) = IF s = {} THEN 0 ELSE f[x] + SumFunctionOnSet(f, s \ {x})
        /\ SumFunctionOnSet(e, s) = IF s = {} THEN 0 ELSE e[x] + SumFunctionOnSet(e, s \ {x})
    BY <1>3, SumEquation
  <1>5. s # {}
    BY <1>4
  <1>6. x \in s
    BY <1>5, PickedIn
  <1>7. s \ {x} \notin B
    BY <1>2, <1>6
  <1>8. SumFunctionOnSet(e, s \ {x}) <= SumFunctionOnSet(f, s \ {x})
    BY <1>6, <1>7
  <1>9. SumFunctionOnSet(e, s \ {x}) \in Nat /\ SumFunctionOnSet(f, s \ {x}) \in Nat
    BY <1>3, SumNat
  <1>10. f[x] \in Nat /\ e[x] \in Nat /\ e[x] <= f[x]
    BY <1>6
  <1> QED  BY <1>4, <1>5, <1>8, <1>9, <1>10

-----------------------------------------------------------------------------
(* Types *)

USE RateLimiterAssumption

LEMMA InProgressCounts == Cardinality(InProgress) \in Nat
  <1>1. InProgress \subseteq Checks
    BY DEF InProgress
  <1> QED  BY <1>1, FS_Subset, FS_CardinalityType

LEMMA WindowTyped == ASSUME NEW t \in Times PROVE WindowOf(t) \in Windows
  BY DEF Windows

LEMMA CostTyped ==
  ASSUME TypeOK, NEW c \in Checks
  PROVE  /\ Cost(c) \in Nat \ {0}
         /\ kind[c] \in Kinds
         /\ WindowOf(time[c]) \in Windows
         /\ <<kind[c], WindowOf(time[c])>> \in Kinds \X Windows
  <1>1. kind[c] \in Kinds /\ time[c] \in Times
    BY DEF TypeOK
  <1>2. WindowOf(time[c]) \in Windows
    BY <1>1, WindowTyped
  <1> QED  BY <1>1, <1>2 DEF Cost

LEMMA TInit == Init => TypeOK
  <1> SUFFICES ASSUME Init PROVE TypeOK
    OBVIOUS
  <1> 0 \in Times
    BY DEF Times
  <1> QED  BY DEF Init, TypeOK, Counters, Phases, Ended

LEMMA FirstStepTyped == ASSUME TypeOK PROVE FirstStep \in Phases
  BY DEF TypeOK, FirstStep, Phases, Ended

LEMMA TStart ==
  ASSUME TypeOK, NEW c \in Checks, Start(c) PROVE TypeOK'
  <1>1. peak' \in Nat \ {0}
    BY InProgressCounts DEF TypeOK, Start
  <1>2. pc' \in [Checks -> Phases]
    BY FirstStepTyped DEF TypeOK, Start, Goto, Phases
  <1> QED  BY <1>1, <1>2 DEF TypeOK, Start, redis, sorted, bucket

LEMMA TChargeOperation ==
  ASSUME TypeOK, NEW c \in Checks, ChargeOperation(c) PROVE TypeOK'
  <1> DEFINE key == <<kind[c], WindowOf(time[c])>>
  <1>1. Cost(c) \in Nat /\ key \in Kinds \X Windows
    BY CostTyped
  <1>2. opUsed' = [opUsed EXCEPT ![key] = opUsed[key] + Cost(c)]
    BY DEF ChargeOperation
  <1>3. \/ opGranted' = opGranted
        \/ opGranted' = [opGranted EXCEPT ![key] = @ + Cost(c)]
    BY DEF ChargeOperation
  <1> HIDE DEF key
  <1>4. opUsed' \in Counters /\ opGranted' \in Counters
    BY <1>1, <1>2, <1>3 DEF TypeOK, Counters
  <1>5. pc' \in [Checks -> Phases]
    BY DEF TypeOK, ChargeOperation, Goto, Phases, Ended
  <1> QED  BY <1>4, <1>5 DEF TypeOK, ChargeOperation, sorted, bucket, call

LEMMA TSliding ==
  ASSUME TypeOK, NEW c \in Checks, Purge(c) \/ Count(c) \/ Add(c) \/ Expire(c)
  PROVE  TypeOK'
  <1>1. zset' \in [Times -> Nat]
    BY DEF TypeOK, Purge, Count, Add, Expire, redis, sorted
  <1>2. pc' \in [Checks -> Phases]
    BY DEF TypeOK, Purge, Count, Add, Expire, Goto, Phases, Ended
  <1>3. counted' \subseteq Checks
    BY DEF TypeOK, Purge, Count, Add, Expire, history
  <1>4. zdies' \in Nat
    <2>1. now + Ttl \in Nat /\ zdies \in Nat
      BY DEF TypeOK, Times
    <2>2. zdies' \in {0, zdies, now + Ttl}
      BY DEF Purge, Count, Add, Expire, Expiry, redis, sorted
    <2> QED  BY <2>1, <2>2
  <1>5. CASE Purge(c)
    BY <1>1, <1>2, <1>3, <1>4, <1>5 DEF TypeOK, Purge, call, bucket, history
  <1>6. CASE Count(c)
    BY <1>1, <1>2, <1>3, <1>4, <1>6 DEF TypeOK, Count, call, redis, bucket, history
  <1>7. CASE Add(c)
    BY <1>1, <1>2, <1>3, <1>4, <1>7 DEF TypeOK, Add, call, bucket
  <1>8. CASE Expire(c)
    BY <1>1, <1>2, <1>3, <1>4, <1>8 DEF TypeOK, Expire, call, bucket, history
  <1> QED  BY <1>5, <1>6, <1>7, <1>8

LEMMA TIncrement ==
  ASSUME TypeOK, NEW c \in Checks, Increment(c) PROVE TypeOK'
  <1> DEFINE w == WindowOf(time[c])
  <1>1. Cost(c) \in Nat /\ w \in Windows
    BY CostTyped
  <1>2. fixed' = [fixed EXCEPT ![w] = fixed[w] + Cost(c)]
    BY DEF Increment
  <1>3. \/ granted' = granted
        \/ granted' = [granted EXCEPT ![w] = @ + Cost(c)]
    BY DEF Increment
  <1> HIDE DEF w
  <1>4. fixed' \in [Windows -> Nat] /\ granted' \in [Windows -> Nat]
    BY <1>1, <1>2, <1>3 DEF TypeOK
  <1>5. pc' \in [Checks -> Phases] /\ counted' \subseteq Checks
    BY DEF TypeOK, Increment, Goto, Phases, Ended
  <1> QED  BY <1>4, <1>5 DEF TypeOK, Increment, sorted, bucket, call

LEMMA RefilledTyped ==
  ASSUME NEW t \in Times, NEW l \in Limits, TypeOK
  PROVE  Refilled(t, l) \in Int
  <1>1. Full \in Nat
    BY DEF Full
  <1>2. t \in Int /\ updated \in Int /\ tokens \in Int /\ l \in Int
    BY DEF TypeOK, Times
  <1>3. (t - updated) * l \in Int
    BY <1>2
  <1> QED  BY <1>1, <1>2, <1>3 DEF Refilled

LEMMA TGetBucket ==
  ASSUME TypeOK, NEW c \in Checks, GetBucket(c) PROVE TypeOK'
  <1> DEFINE level == Refilled(time[c], limit[c])
             price == Cost(c) * Window
  <1>1. level \in Int
    BY RefilledTyped DEF TypeOK
  <1>2. price \in Nat
    <2>1. Cost(c) \in Nat /\ Window \in Nat
      BY CostTyped
    <2> QED  BY <2>1
  <1>3. \/ left' = left
        \/ level >= price /\ left' = [left EXCEPT ![c] = level - price]
    BY DEF GetBucket
  <1> HIDE DEF level, price
  <1>4. left' \in [Checks -> Nat]
    BY <1>1, <1>2, <1>3 DEF TypeOK
  <1>5. pc' \in [Checks -> Phases]
    BY DEF TypeOK, GetBucket, Goto, Phases, Ended
  <1> QED  BY <1>4, <1>5 DEF TypeOK, GetBucket, redis, sorted, bucket, call, history

LEMMA TSetBucket ==
  ASSUME TypeOK, NEW c \in Checks, SetBucket(c) PROVE TypeOK'
  <1>1. pc' \in [Checks -> Phases]
    BY DEF TypeOK, SetBucket, Goto, Phases
  <1>2. tokens' \in Nat /\ updated' \in Times /\ dies' \in Nat
    BY DEF TypeOK, SetBucket, Times
  <1> QED  BY <1>1, <1>2 DEF TypeOK, SetBucket, sorted, call

LEMMA TEnd ==
  ASSUME TypeOK, NEW c \in Checks,
         Begin(c) \/ RecordUsage(c) \/ Reply(c) \/ Fails(c)
  PROVE  TypeOK'
  <1>1. pc' \in [Checks -> Phases]
    BY FirstStepTyped
       DEF TypeOK, Begin, RecordUsage, Reply, Fails, Goto, Phases, Ended
  <1>2. usage' \in Nat
    <2>1. Cost(c) \in Nat /\ usage \in Nat
      BY CostTyped DEF TypeOK
    <2>2. usage' = usage \/ usage' = usage + Cost(c)
      BY DEF Begin, RecordUsage, Reply, Fails, redis, sorted
    <2> QED  BY <2>1, <2>2
  <1>3. time' \in [Checks -> Times]
    BY DEF TypeOK, Begin, RecordUsage, Reply, Fails
  <1>4. CASE Begin(c)
    BY <1>1, <1>2, <1>3, <1>4 DEF TypeOK, Begin, redis, sorted, bucket, call, history
  <1>5. CASE RecordUsage(c)
    BY <1>1, <1>2, <1>3, <1>5 DEF TypeOK, RecordUsage, sorted, bucket, call, history
  <1>6. CASE Reply(c)
    BY <1>1, <1>2, <1>3, <1>6 DEF TypeOK, Reply, redis, sorted, bucket, call, history
  <1>7. CASE Fails(c)
    BY <1>1, <1>2, <1>3, <1>7 DEF TypeOK, Fails, redis, sorted, bucket, call, history
  <1> QED  BY <1>4, <1>5, <1>6, <1>7

LEMMA TRestart ==
  ASSUME TypeOK, NEW w \in Workers, Restart(w) PROVE TypeOK'
  <1>1. pc' \in [Checks -> Phases]
    BY DEF TypeOK, Restart, Phases, Ended
  <1> QED  BY <1>1 DEF TypeOK, Restart, redis, sorted, bucket, call, history

LEMMA TAdmin ==
  ASSUME TypeOK, Reset \/ Tick \/ \E w \in Workers, l \in Limits : UpdateLimits(w, l)
  PROVE  TypeOK'
  <1>1. CASE Reset
    <2>1. opUsed' \in Counters /\ opGranted' \in Counters
      BY <1>1 DEF Reset, Counters
    <2> QED  BY <1>1, <2>1 DEF TypeOK, Reset, call
  <1>2. CASE Tick
    <2>1. zset' \in [Times -> Nat] /\ zdies' \in Nat /\ lapsed' \subseteq Checks
      BY <1>2 DEF TypeOK, Tick, sorted
    <2>2. now' \in Times
      BY <1>2 DEF TypeOK, Tick, Times
    <2> QED  BY <1>2, <2>1, <2>2 DEF TypeOK, Tick, bucket, call
  <1>3. CASE \E w \in Workers, l \in Limits : UpdateLimits(w, l)
    BY <1>3 DEF TypeOK, UpdateLimits, redis, sorted, bucket, call
  <1> QED  BY <1>1, <1>2, <1>3

LEMMA TStutter == ASSUME TypeOK, UNCHANGED vars PROVE TypeOK'
  BY DEF TypeOK, vars, redis, sorted, bucket, call, history

LEMMA TNext == TypeOK /\ [Next]_vars => TypeOK'
  <1> SUFFICES ASSUME TypeOK, [Next]_vars PROVE TypeOK'
    OBVIOUS
  <1>1. ASSUME NEW c \in Checks, Check(c) PROVE TypeOK'
    BY <1>1, TStart, TChargeOperation, TSliding, TIncrement, TGetBucket,
       TSetBucket, TEnd DEF Check
  <1> QED  BY <1>1, TEnd, TRestart, TAdmin, TStutter DEF Next

(* Every variable of RateLimiter keeps its type; in particular no check    *)
(* that does not fail writes an overdrawn token bucket back.               *)
THEOREM TypeCorrect == Spec => []TypeOK
  BY TInit, TNext, PTL DEF Spec

-----------------------------------------------------------------------------
(* What redis, sorted has counted is never less than what was let through, and what *)
(* was let through was within the limit when it was counted.  The two go    *)
(* together: the second is inductive only with the first.                   *)

Kept(count, through, bound) == through <= count /\ through <= bound

WindowsKept == \A w \in Windows : Kept(fixed[w], granted[w], HighestLimit)

OperationsKept ==
    \A k \in DOMAIN OperationLimits, w \in Windows :
        Kept(opUsed[<<k, w>>], opGranted[<<k, w>>], OperationLimits[k])

LEMMA KInit == Init => WindowsKept /\ OperationsKept
  <1> SUFFICES ASSUME Init PROVE WindowsKept /\ OperationsKept
    OBVIOUS
  <1>1. WindowsKept
    BY DEF Init, WindowsKept, Kept
  <1>2. OperationsKept
    <2> SUFFICES ASSUME NEW k \in DOMAIN OperationLimits, NEW w \in Windows
                 PROVE  Kept(opUsed[<<k, w>>], opGranted[<<k, w>>],
                             OperationLimits[k])
      BY DEF OperationsKept
    <2>1. opUsed[<<k, w>>] = 0 /\ opGranted[<<k, w>>] = 0
      BY DEF Init
    <2> QED  BY <2>1 DEF Kept
  <1> QED  BY <1>1, <1>2

\* Only Increment and Reset touch the counters of the windows, only
\* ChargeOperation and Reset those of the operations.
LEMMA Untouched ==
  ASSUME [Next]_vars
  PROVE  /\ \/ UNCHANGED <<fixed, granted>>
            \/ \E c \in Checks : Increment(c)
            \/ Reset
         /\ \/ UNCHANGED <<opUsed, opGranted>>
            \/ \E c \in Checks : ChargeOperation(c)
            \/ Reset
  <1>1. ASSUME NEW c \in Checks, Check(c)
        PROVE  /\ UNCHANGED <<fixed, granted>> \/ Increment(c)
               /\ UNCHANGED <<opUsed, opGranted>> \/ ChargeOperation(c)
    BY <1>1 DEF Check, Start, ChargeOperation, Begin, Purge, Count, Add, Expire,
                Increment, GetBucket, SetBucket, RecordUsage, Reply,
                redis, sorted, history
  <1>2. ASSUME NEW c \in Checks, Fails(c)
        PROVE  UNCHANGED <<fixed, granted, opUsed, opGranted>>
    BY <1>2 DEF Fails, redis, sorted, history
  <1>3. ASSUME NEW w \in Workers, Restart(w) \/ \E l \in Limits : UpdateLimits(w, l)
        PROVE  UNCHANGED <<fixed, granted, opUsed, opGranted>>
    BY <1>3 DEF Restart, UpdateLimits, redis, sorted, history
  <1>4. Tick \/ UNCHANGED vars => UNCHANGED <<fixed, granted, opUsed, opGranted>>
    BY DEF Tick, vars, redis, sorted, history
  <1> QED  BY <1>1, <1>2, <1>3, <1>4 DEF Next

LEMMA KIncrement ==
  ASSUME TypeOK, WindowsKept, NEW c \in Checks, Increment(c)
  PROVE  /\ WindowsKept'
         /\ Quota!Next \/ UNCHANGED granted
  <1> DEFINE w == WindowOf(time[c])
             count == fixed[w] + Cost(c)
  <1>1. /\ Cost(c) \in Nat \ {0} /\ w \in Windows
        /\ fixed[w] \in Nat /\ granted[w] \in Nat /\ limit[c] \in Limits
    BY CostTyped DEF TypeOK
  <1>2. /\ limit[c] \in Nat /\ limit[c] <= HighestLimit
        /\ granted[w] <= fixed[w]
    BY <1>1 DEF WindowsKept, Kept
  <1>3. /\ fixed' = [fixed EXCEPT ![w] = count]
        /\ \/ granted' = granted
           \/ /\ count <= limit[c]
              /\ granted' = [granted EXCEPT ![w] = granted[w] + Cost(c)]
    BY DEF Increment
  <1> HIDE DEF w
  <1>4. CASE granted' = granted
    <2> SUFFICES ASSUME NEW v \in Windows
                 PROVE  Kept(fixed'[v], granted'[v], HighestLimit)
      BY <1>4 DEF WindowsKept
    <2>1. fixed'[v] = IF v = w THEN count ELSE fixed[v]
      BY <1>3 DEF TypeOK
    <2>2. fixed[v] \in Nat /\ granted[v] \in Nat
      BY DEF TypeOK
    <2> QED  BY <1>1, <1>4, <2>1, <2>2 DEF WindowsKept, Kept
  <1>5. CASE /\ count <= limit[c]
             /\ granted' = [granted EXCEPT ![w] = granted[w] + Cost(c)]
    <2>1. granted[w] + Cost(c) <= HighestLimit
      BY <1>1, <1>2, <1>5
    <2>2. Cost(c) \in 1 .. HighestLimit
      BY <1>1, <2>1
    <2>3. Quota!Next
      BY <1>1, <1>5, <2>1, <2>2 DEF Quota!Next, Quota!Grant
    <2>4. ASSUME NEW v \in Windows
          PROVE  Kept(fixed'[v], granted'[v], HighestLimit)
      <3>1. /\ fixed'[v] = IF v = w THEN count ELSE fixed[v]
            /\ granted'[v] = IF v = w THEN granted[w] + Cost(c) ELSE granted[v]
        BY <1>3, <1>5 DEF TypeOK
      <3>2. fixed[v] \in Nat /\ granted[v] \in Nat
        BY DEF TypeOK
      <3> QED  BY <1>1, <1>2, <2>1, <3>1, <3>2 DEF WindowsKept, Kept
    <2> QED  BY <2>3, <2>4 DEF WindowsKept
  <1> QED  BY <1>3, <1>4, <1>5

LEMMA KChargeOperation ==
  ASSUME TypeOK, OperationsKept, NEW c \in Checks, ChargeOperation(c)
  PROVE  OperationsKept'
  <1> DEFINE key == <<kind[c], WindowOf(time[c])>>
             count == opUsed[key] + Cost(c)
  <1>1. Cost(c) \in Nat /\ key \in Kinds \X Windows
    BY CostTyped
  <1>2. /\ opUsed' = [opUsed EXCEPT ![key] = count]
        /\ \/ opGranted' = opGranted
           \/ /\ count <= OperationLimits[kind[c]]
              /\ opGranted' = [opGranted EXCEPT ![key] = opGranted[key] + Cost(c)]
    BY DEF ChargeOperation
  <1> SUFFICES ASSUME NEW k \in DOMAIN OperationLimits, NEW w \in Windows
               PROVE  Kept(opUsed'[<<k, w>>], opGranted'[<<k, w>>],
                           OperationLimits[k])
    BY DEF OperationsKept
  <1> DEFINE other == <<k, w>>
  <1>3. /\ k \in Kinds /\ OperationLimits[k] \in Nat
        /\ other \in Kinds \X Windows
        /\ other = key => k = kind[c]
    OBVIOUS
  <1>4. Kept(opUsed[other], opGranted[other], OperationLimits[k])
    BY DEF OperationsKept
  <1> HIDE DEF key, other
  <1>5. /\ opUsed[other] \in Nat /\ opGranted[other] \in Nat
        /\ opUsed[key] \in Nat /\ opGranted[key] \in Nat
    BY <1>1, <1>3 DEF TypeOK, Counters
  <1>6. opUsed'[other] = IF other = key THEN count ELSE opUsed[other]
    BY <1>1, <1>2, <1>3 DEF TypeOK, Counters
  <1>7. CASE opGranted' = opGranted
    BY <1>1, <1>4, <1>5, <1>6, <1>7 DEF Kept, other
  <1>8. CASE /\ count <= OperationLimits[kind[c]]
             /\ opGranted' = [opGranted EXCEPT ![key] = opGranted[key] + Cost(c)]
    <2>1. opGranted'[other] = IF other = key THEN opGranted[key] + Cost(c)
                              ELSE opGranted[other]
      BY <1>1, <1>3, <1>8 DEF TypeOK, Counters
    <2>2. Kept(opUsed'[other], opGranted'[other], OperationLimits[k])
      BY <1>1, <1>3, <1>4, <1>5, <1>6, <1>8, <2>1 DEF Kept
    <2> QED  BY <2>2 DEF other
  <1> QED  BY <1>2, <1>7, <1>8

LEMMA KReset ==
  ASSUME Reset PROVE WindowsKept' /\ OperationsKept' /\ Quota!Next
  <1>1. WindowsKept'
    BY DEF Reset, WindowsKept, Kept
  <1>2. OperationsKept'
    <2> SUFFICES ASSUME NEW k \in DOMAIN OperationLimits, NEW w \in Windows
                 PROVE  Kept(opUsed'[<<k, w>>], opGranted'[<<k, w>>],
                             OperationLimits[k])
      BY DEF OperationsKept
    <2>1. opUsed'[<<k, w>>] = 0 /\ opGranted'[<<k, w>>] = 0
      BY DEF Reset
    <2> QED  BY <2>1 DEF Kept
  <1>3. Quota!Next
    BY DEF Reset, Quota!Next, Quota!Forget
  <1> QED  BY <1>1, <1>2, <1>3

LEMMA KNext ==
  ASSUME TypeOK, WindowsKept, OperationsKept, [Next]_vars
  PROVE  WindowsKept' /\ OperationsKept' /\ [Quota!Next]_granted
  <1>1. UNCHANGED <<fixed, granted>> => WindowsKept'
    BY DEF WindowsKept
  <1>2. UNCHANGED <<opUsed, opGranted>> => OperationsKept'
    BY DEF OperationsKept
  <1> QED  BY <1>1, <1>2, Untouched, KIncrement, KChargeOperation, KReset

LEMMA KAlways == Spec => [](TypeOK /\ WindowsKept /\ OperationsKept)
  <1>1. /\ TypeOK /\ WindowsKept /\ OperationsKept
        /\ [Next]_vars
        => (TypeOK /\ WindowsKept /\ OperationsKept)'
    BY TNext, KNext
  <1> QED  BY <1>1, TInit, KInit, PTL DEF Spec

(* In no window does the cost let through by the fixed-window strategy pass *)
(* the highest limit, whatever the number of workers and checks.            *)
THEOREM FixedWindowNeverExceeded == Spec => []FixedWindowExact
  <1>1. WindowsKept => FixedWindowExact
    BY DEF WindowsKept, Kept, FixedWindowExact
  <1> QED  BY <1>1, KAlways, PTL

(* In no window does the cost let through by the limit of an operation pass *)
(* that limit.                                                              *)
THEOREM OperationLimitNeverExceeded == Spec => []OperationLimitExact
  <1>1. OperationsKept => OperationLimitExact
    BY DEF OperationsKept, Kept, OperationLimitExact
  <1> QED  BY <1>1, KAlways, PTL

(* The fixed-window strategy implements WindowQuota: every step lets a call *)
(* through within the quota, forgets all windows, or leaves the quota alone. *)
THEOREM FixedWindowImplementsQuota == Spec => ImplementsQuota
  <1>1. Init => Quota!Init
    BY DEF Init, Quota!Init
  <1>2. /\ TypeOK /\ WindowsKept /\ OperationsKept
        /\ [Next]_vars
        => [Quota!Next]_granted
    BY KNext
  <1> QED  BY <1>1, <1>2, KAlways, PTL DEF Spec, Quota!Spec, ImplementsQuota

-----------------------------------------------------------------------------
(* Usage *)

Costs == [c \in Checks |-> Cost(c)]
CostIn(S) == SumFunctionOnSet(Costs, S)

Answered == {c \in Checks : pc[c] \in {"reply", "granted"}}
Charged == {c \in Checks : pc[c] \in {"reply", "granted", "failed"}}

LEMMA CostsTyped ==
  ASSUME TypeOK, NEW S \in SUBSET Checks
  PROVE  /\ IsFiniteSet(S)
         /\ \A c \in S : Costs[c] = Cost(c) /\ Costs[c] \in Nat \ {0}
         /\ CostIn(S) \in Nat
         /\ CostOfAll(S) = CostIn(S)
  <1>1. IsFiniteSet(S)
    BY FS_Subset
  <1>2. \A c \in S : Costs[c] = Cost(c) /\ Costs[c] \in Nat \ {0}
    <2> SUFFICES ASSUME NEW c \in S PROVE Costs[c] = Cost(c) /\ Costs[c] \in Nat \ {0}
      OBVIOUS
    <2>1. Costs[c] = Cost(c)
      BY DEF Costs
    <2> QED  BY <2>1, CostTyped
  <1>3. CostIn(S) \in Nat
    BY <1>1, <1>2, SumNat DEF CostIn
  <1> DEFINE f == [c \in S |-> Cost(c)]
  <1>4. \A c \in S : f[c] = Costs[c]
    BY <1>2
  <1> HIDE DEF f
  <1>5. SumFunctionOnSet(f, S) = SumFunctionOnSet(Costs, S)
    BY <1>1, <1>4, SumCongruent
  <1> QED  BY <1>1, <1>2, <1>3, <1>5 DEF CostIn, CostOfAll, f

\* The requests of a tenant keep their kind and the service its strategy.
LEMMA Fixed == [Next]_vars => kind' = kind /\ strategy' = strategy
  BY DEF Next, Check, Start, ChargeOperation, Begin, Purge, Count, Add, Expire, Increment,
         GetBucket, SetBucket, RecordUsage, Reply, Fails, Restart, UpdateLimits,
         Reset, Tick, vars, call

LEMMA CostsFixed == [Next]_vars => Costs' = Costs
  BY Fixed DEF Costs, Cost

\* Only RecordUsage adds to the usage, or answers a check.
LEMMA Uncharged ==
  ASSUME TypeOK, [Next]_vars
  PROVE  \/ \E c \in Checks : RecordUsage(c)
         \/ usage' = usage /\ Answered' \subseteq Answered /\ Charged \subseteq Charged'
  <1>1. ASSUME NEW c \in Checks, Check(c)
        PROVE  \/ RecordUsage(c)
               \/ usage' = usage /\ Answered' \subseteq Answered /\ Charged \subseteq Charged'
    <2>1. ASSUME NEW phase, Goto(c, phase), phase \notin {"reply", "granted"},
                 pc[c] \notin {"reply", "granted", "failed"}
          PROVE  Answered' \subseteq Answered /\ Charged \subseteq Charged'
      BY <2>1 DEF Goto, TypeOK, Answered, Charged
    <2>2. FirstStep \notin {"reply", "granted"}
      BY DEF TypeOK, FirstStep
    <2>3. CASE Start(c)
      BY <2>1, <2>2, <2>3 DEF Start, redis, sorted
    <2>7. CASE ChargeOperation(c) \/ Begin(c)
      BY <2>1, <2>2, <2>7 DEF ChargeOperation, Begin, redis, sorted
    <2>4. CASE Purge(c) \/ Count(c) \/ Add(c) \/ Expire(c)
      BY <2>1, <2>4 DEF Purge, Count, Add, Expire, redis, sorted
    <2>5. CASE Increment(c) \/ GetBucket(c) \/ SetBucket(c)
      BY <2>1, <2>5 DEF Increment, GetBucket, SetBucket, redis, sorted
    <2>6. CASE Reply(c)
      BY <2>6 DEF Reply, Goto, TypeOK, Answered, Charged, redis, sorted
    <2> QED  BY <1>1, <2>3, <2>4, <2>5, <2>6, <2>7 DEF Check
  <1>2. ASSUME NEW c \in Checks, Fails(c)
        PROVE  usage' = usage /\ Answered' \subseteq Answered /\ Charged \subseteq Charged'
    BY <1>2 DEF Fails, Goto, TypeOK, Answered, Charged, redis, sorted
  <1>3. ASSUME NEW w \in Workers, Restart(w)
        PROVE  usage' = usage /\ Answered' \subseteq Answered /\ Charged \subseteq Charged'
    BY <1>3 DEF Restart, TypeOK, Answered, Charged, redis, sorted, InProgress, Ended
  <1>4. ASSUME NEW w \in Workers, NEW l \in Limits, UpdateLimits(w, l)
        PROVE  usage' = usage /\ pc' = pc
    BY <1>4 DEF UpdateLimits, redis, sorted
  <1>5. Reset \/ Tick \/ UNCHANGED vars => usage' = usage /\ pc' = pc
    BY DEF Reset, Tick, vars, redis, sorted
  <1>6. pc' = pc => Answered' = Answered /\ Charged' = Charged
    BY DEF Answered, Charged
  <1> QED  BY <1>1, <1>2, <1>3, <1>4, <1>5, <1>6 DEF Next

UsageInv == CostIn(Answered) <= usage /\ usage <= CostIn(Charged)

LEMMA UsageStep ==
  ASSUME TypeOK, UsageInv, [Next]_vars PROVE UsageInv'
  <1>1. /\ Answered \subseteq Charged /\ Charged \subseteq Checks
        /\ Answered' \subseteq Checks /\ Charged' \subseteq Checks
    BY DEF Answered, Charged
  <1>2. Costs' = Costs
    BY CostsFixed
  <1>3. \A S \in SUBSET Checks : CostIn(S) \in Nat
    BY CostsTyped
  <1>4. \A S, T \in SUBSET Checks : S \subseteq T => CostIn(S) <= CostIn(T)
    BY CostsTyped, SumMonotone DEF CostIn
  <1>5. CostIn(Answered)' = CostIn(Answered') /\ CostIn(Charged)' = CostIn(Charged')
    BY <1>2 DEF CostIn
  <1>6. CASE usage' = usage /\ Answered' \subseteq Answered /\ Charged \subseteq Charged'
    <2>1. CostIn(Answered') <= CostIn(Answered) /\ CostIn(Charged) <= CostIn(Charged')
      BY <1>1, <1>4, <1>6
    <2> QED  BY <1>1, <1>3, <1>5, <1>6, <2>1 DEF UsageInv, TypeOK
  <1>7. ASSUME NEW c \in Checks, RecordUsage(c) PROVE UsageInv'
    <2>1. c \notin Charged /\ c \notin Answered /\ usage' = usage + Cost(c)
      BY <1>7 DEF RecordUsage, Answered, Charged
    <2>2. Answered' = Answered \cup {c} /\ Charged' = Charged \cup {c}
      BY <1>7 DEF RecordUsage, Goto, TypeOK, Answered, Charged
    <2>3. ASSUME NEW S \in SUBSET Checks, c \notin S
          PROVE  CostIn(S \cup {c}) = CostIn(S) + Cost(c)
      <3>1. IsFiniteSet(S) /\ \A d \in S \cup {c} : Costs[d] \in Nat
        BY CostsTyped
      <3>2. Costs[c] = Cost(c)
        BY DEF Costs
      <3> QED  BY <2>3, <3>1, <3>2, SumAdd DEF CostIn
    <2>4. CostIn(Answered') = CostIn(Answered) + Cost(c)
      BY <1>1, <2>1, <2>2, <2>3
    <2>5. CostIn(Charged') = CostIn(Charged) + Cost(c)
      BY <1>1, <2>1, <2>2, <2>3
    <2>6. Cost(c) \in Nat /\ usage \in Nat
      BY CostTyped DEF TypeOK
    <2> QED  BY <1>1, <1>3, <1>5, <2>1, <2>4, <2>5, <2>6 DEF UsageInv
  <1> QED  BY <1>6, <1>7, Uncharged

(* The usage shown to the tenant covers what was answered, and counts      *)
(* nothing but answered and failed checks.                                 *)
THEOREM UsageIsCovered == Spec => []UsageCovers
  <1>1. Init => UsageInv
    <2> SUFFICES ASSUME Init PROVE UsageInv
      OBVIOUS
    <2>1. Answered = {} /\ Charged = {} /\ usage = 0
      BY DEF Init, Answered, Charged
    <2> QED  BY <2>1, SumEmpty DEF UsageInv, CostIn
  <1>2. TypeOK /\ UsageInv /\ [Next]_vars => UsageInv'
    BY UsageStep
  <1>3. TypeOK /\ UsageInv => UsageCovers
    <2> SUFFICES ASSUME TypeOK, UsageInv PROVE UsageCovers
      OBVIOUS
    <2>1. Charged = Answered \cup {c \in Checks : pc[c] = "failed"}
      BY DEF Answered, Charged
    <2>2. Answered \in SUBSET Checks /\ Charged \in SUBSET Checks
      BY DEF Answered, Charged
    <2>3. CostOfAll(Answered) = CostIn(Answered) /\ CostOfAll(Charged) = CostIn(Charged)
      BY <2>2, CostsTyped
    <2>4. CostOfAll(Answered) \in Nat /\ CostOfAll(Charged) \in Nat /\ usage \in Nat
      BY <2>2, <2>3, CostsTyped DEF TypeOK
    <2> HIDE DEF CostOfAll
    <2> QED  BY <2>1, <2>3, <2>4 DEF UsageInv, UsageCovers, Answered
  <1> QED  BY <1>1, <1>2, <1>3, TypeCorrect, PTL DEF Spec

-----------------------------------------------------------------------------
(* What every check in progress keeps to, under every strategy *)

At(phases) == {c \in Checks : pc[c] \in phases}

Timely == \A c \in InProgress : time[c] <= now /\ now <= time[c] + MaxDelay
Past == counted \subseteq At({"expire", "record", "reply", "granted", "failed"})
PeakSeen == Cardinality(InProgress) <= peak
Staged ==
    \A c \in Checks :
        /\ pc[c] \in {"purge", "count", "add", "expire"} => strategy = "sliding"
        /\ pc[c] = "incr" => strategy = "fixed"
        /\ pc[c] \in {"get", "set"} => strategy = "token"
Allowed == \A c \in At({"add"}) : limit[c] >= 1

Calls == Timely /\ Past /\ PeakSeen /\ Staged /\ Allowed

LEMMA TimesFinite == IsFiniteSet(Times)
  BY FS_Interval DEF Times

LEMMA AtIn == \A phases : At(phases) \in SUBSET Checks
  BY DEF At

LEMMA FirstStepStaged ==
  ASSUME TypeOK
  PROVE  /\ FirstStep = "purge" => strategy = "sliding"
         /\ FirstStep = "incr" => strategy = "fixed"
         /\ FirstStep = "get" => strategy = "token"
         /\ FirstStep \in {"purge", "incr", "get"}
  BY DEF TypeOK, FirstStep

\* Outside of Start nobody enters, so no step but Start raises the number of
\* checks in progress.
LEMMA CallsStart ==
  ASSUME TypeOK, Calls, NEW c \in Checks, Start(c) PROVE Calls'
  <1>1. InProgress' = InProgress \cup {c} /\ c \notin InProgress
    BY FirstStepStaged DEF Start, Goto, TypeOK, InProgress, Ended
  <1>2. PeakSeen'
    <2>1. IsFiniteSet(InProgress)
      BY FS_Subset DEF InProgress
    <2>2. Cardinality(InProgress') = Cardinality(InProgress) + 1
      BY <1>1, <2>1, FS_AddElement
    <2> QED  BY <2>2, InProgressCounts DEF Calls, PeakSeen, Start, TypeOK
  <1>3. Timely'
    <2>1. \A d \in Checks : time'[d] = IF d = c THEN now ELSE time[d]
      BY DEF Start, TypeOK
    <2>2. now \in Nat /\ now' = now /\ MaxDelay \in Nat
      BY DEF Start, TypeOK, Times
    <2> QED  BY <1>1, <2>1, <2>2 DEF Calls, Timely, InProgress
  <1>4. Past' /\ Allowed'
    BY FirstStepStaged DEF Calls, Past, Allowed, At, Start, Goto, TypeOK, Ended
  <1>5. Staged'
    BY FirstStepStaged DEF Calls, Staged, Start, Goto, TypeOK
  <1> QED  BY <1>2, <1>3, <1>4, <1>5 DEF Calls

\* Steps that start no check and let no time pass.
LEMMA PeakKept ==
  ASSUME TypeOK, Calls, InProgress' \subseteq InProgress, peak' = peak PROVE PeakSeen'
  <1>1. IsFiniteSet(InProgress) /\ IsFiniteSet(InProgress')
    BY FS_Subset DEF InProgress
  <1>2. Cardinality(InProgress') <= Cardinality(InProgress)
    BY <1>1, FS_Subset
  <1>3. Cardinality(InProgress') \in Nat /\ Cardinality(InProgress) \in Nat
    BY <1>1, FS_CardinalityType
  <1> QED  BY <1>2, <1>3 DEF Calls, PeakSeen, TypeOK

LEMMA TimelyKept ==
  ASSUME TypeOK, Calls, InProgress' \subseteq InProgress, now' = now,
         \A c \in Checks : time'[c] = time[c] \/ time'[c] = now
  PROVE  Timely'
  <1>1. now \in Nat /\ MaxDelay \in Nat
    BY DEF TypeOK, Times
  <1> QED  BY <1>1 DEF Calls, Timely, InProgress

LEMMA CallsCheck ==
  ASSUME TypeOK, Calls, NEW c \in Checks,
         Check(c) \/ Fails(c), ~Start(c)
  PROVE  Calls'
  <1>1. now' = now /\ peak' = peak /\ strategy' = strategy /\ limit' = limit
    BY DEF Check, ChargeOperation, Begin, Purge, Count, Add, Expire, Increment,
           GetBucket, SetBucket, RecordUsage, Reply, Fails, call, history
  <1>2. c \in InProgress
    BY DEF Check, ChargeOperation, Begin, Purge, Count, Add, Expire, Increment,
           GetBucket, SetBucket, RecordUsage, Reply, Fails, InProgress, Ended
  <1>3. InProgress' \subseteq InProgress
    <2>1. \A d \in Checks : d # c => pc'[d] = pc[d]
      BY DEF Check, ChargeOperation, Begin, Purge, Count, Add, Expire, Increment,
             GetBucket, SetBucket, RecordUsage, Reply, Fails, Goto, TypeOK
    <2> QED  BY <1>2, <2>1 DEF InProgress
  <1>4. \A d \in Checks : time'[d] = time[d] \/ time'[d] = now
    BY DEF Check, ChargeOperation, Begin, Purge, Count, Add, Expire, Increment,
           GetBucket, SetBucket, RecordUsage, Reply, Fails, TypeOK
  <1>5. Timely' /\ PeakSeen'
    BY <1>1, <1>3, <1>4, PeakKept, TimelyKept
  <1>6. CASE ChargeOperation(c) \/ Begin(c)
    BY <1>1, <1>5, <1>6, FirstStepStaged
       DEF ChargeOperation, Begin, Goto, TypeOK, Calls, Past, Staged, Allowed, At, Ended, history
  <1>7. CASE Purge(c) \/ Add(c) \/ Expire(c)
    BY <1>1, <1>5, <1>7
       DEF Purge, Add, Expire, Goto, TypeOK, Calls, Past, Staged, Allowed, At, Ended, history
  <1>8. CASE Count(c)
    <2>1. pc'[c] = "add" => limit[c] >= 1
      <3>1. SumFunctionOnSet(zset, Times) \in Nat
        BY TimesFinite, SumNat DEF TypeOK
      <3>2. Cost(c) \in Nat \ {0} /\ limit[c] \in Nat
        BY CostTyped DEF TypeOK
      <3> QED  BY <1>8, <3>1, <3>2 DEF Count, Goto, TypeOK
    <2> QED  BY <1>1, <1>5, <1>8, <2>1
             DEF Count, Goto, TypeOK, Calls, Past, Staged, Allowed, At, Ended, history
  <1>9. CASE Increment(c) \/ GetBucket(c)
    BY <1>1, <1>5, <1>9
       DEF Increment, GetBucket, Goto, TypeOK, Calls, Past, Staged, Allowed, At, Ended, history
  <1>10. CASE SetBucket(c) \/ RecordUsage(c)
    BY <1>1, <1>5, <1>10
       DEF SetBucket, RecordUsage, Goto, TypeOK, Calls, Past, Staged, Allowed, At, Ended, history
  <1>11. CASE Reply(c) \/ Fails(c)
    BY <1>1, <1>5, <1>11
       DEF Reply, Fails, Goto, TypeOK, Calls, Past, Staged, Allowed, At, Ended, history
  <1> QED  BY <1>6, <1>7, <1>8, <1>9, <1>10, <1>11 DEF Check

LEMMA CallsStep == TypeOK /\ Calls /\ [Next]_vars => Calls'
  <1> SUFFICES ASSUME TypeOK, Calls, [Next]_vars PROVE Calls'
    OBVIOUS
  <1>1. ASSUME NEW c \in Checks, Check(c) \/ Fails(c) PROVE Calls'
    BY <1>1, CallsStart, CallsCheck
  <1>2. ASSUME NEW w \in Workers, Restart(w) PROVE Calls'
    <2>1. InProgress' \subseteq InProgress /\ peak' = peak /\ now' = now /\ time' = time
      BY <1>2 DEF Restart, InProgress, TypeOK, Ended, history
    <2>2. Timely' /\ PeakSeen'
      BY <2>1, PeakKept, TimelyKept
    <2> QED  BY <1>2, <2>2
             DEF Restart, TypeOK, Calls, Past, Staged, Allowed, At, Ended, history, call
  <1>3. ASSUME NEW w \in Workers, NEW l \in Limits, UpdateLimits(w, l) PROVE Calls'
    BY <1>3 DEF UpdateLimits, Calls, Timely, Past, PeakSeen, Staged, Allowed, At, InProgress, call
  <1>4. CASE Reset
    BY <1>4 DEF Reset, Calls, Timely, Past, PeakSeen, Staged, Allowed, At, InProgress, call
  <1>5. CASE Tick
    <2>1. Timely'
      <3>1. now \in Nat /\ MaxDelay \in Nat /\ \A c \in Checks : time[c] \in Nat
        BY DEF TypeOK, Times
      <3> QED  BY <1>5, <3>1 DEF Tick, Calls, Timely, InProgress
    <2> QED  BY <1>5, <2>1
             DEF Tick, Calls, Past, PeakSeen, Staged, Allowed, At, InProgress, call, history
  <1>6. CASE UNCHANGED vars
    BY <1>6 DEF vars, Calls, Timely, Past, PeakSeen, Staged, Allowed, At, InProgress, call, history
  <1> QED  BY <1>1, <1>2, <1>3, <1>4, <1>5, <1>6 DEF Next

LEMMA CallsInit == Init => Calls
  <1> SUFFICES ASSUME Init PROVE Calls
    OBVIOUS
  <1>1. InProgress = {} /\ peak = 1
    BY DEF Init, InProgress
  <1> QED  BY <1>1, FS_EmptySet DEF Init, Calls, Timely, Past, PeakSeen, Staged, Allowed, At

-----------------------------------------------------------------------------
(* The sliding window *)

Among(S, T) == {c \in S : time[c] \in T}
Minute(t) == t .. t + Window - 1
Entries(T) == SumFunctionOnSet(zset, T)

Adding == At({"add"})
Looking == At({"purge", "count"})

\* As long as nobody of a later minute has purged, what is let through in a
\* minute is in the sorted set, unless the expiry of the key took it, and what
\* is about to be was judged by it.  From the first such purge on, nobody new
\* reads the clock in that minute.
Gone == Cardinality(lapsed)
Unpurged(t) ==
    /\ Cardinality(Among(counted, Minute(t))) <= Entries(Minute(t) \cap Times) + Gone
    /\ Cardinality(Among(counted \cup Adding, Minute(t))) <= HighestLimit + peak - 1 + Gone
Purged(t) ==
    /\ now >= t + Window
    /\ Cardinality(Among(counted \cup Adding \cup Looking, Minute(t)))
          <= HighestLimit + 2 * (peak - 1) + Gone
Bounded == MaxDelay <= Ttl - Window => \A t \in Times : Unpurged(t) \/ Purged(t)

\* No entry without a call that was let through.
NoMore == \A T \in SUBSET Times : Entries(T) <= Cardinality(Among(counted, T))

LEMMA AmongFinite ==
  ASSUME NEW S \in SUBSET Checks, NEW T
  PROVE  Among(S, T) \in SUBSET Checks /\ IsFiniteSet(Among(S, T))
         /\ Cardinality(Among(S, T)) \in Nat
  <1>1. Among(S, T) \in SUBSET Checks
    BY DEF Among
  <1> QED  BY <1>1, FS_Subset, FS_CardinalityType

LEMMA Bigger ==
  ASSUME NEW T \in SUBSET Checks, NEW S \in SUBSET T
  PROVE  /\ Cardinality(S) <= Cardinality(T)
         /\ Cardinality(S) \in Nat /\ Cardinality(T) \in Nat
  BY FS_Subset, FS_CardinalityType

LEMMA GoneTyped == TypeOK => Gone \in Nat
  BY FS_Subset, FS_CardinalityType DEF Gone, TypeOK

LEMMA EntriesTyped ==
  ASSUME TypeOK, NEW T \in SUBSET Times
  PROVE  IsFiniteSet(T) /\ Entries(T) \in Nat /\ Entries(T) <= Entries(Times)
  <1>1. \A u \in Times : zset[u] \in Nat
    BY DEF TypeOK
  <1> QED  BY <1>1, TimesFinite, FS_Subset, SumNat, SumMonotone DEF Entries

\* Steps that change no entry and judge nobody: checks that go or come, time.
Quiet ==
    /\ zset' = zset /\ counted' = counted /\ lapsed' = lapsed
    /\ peak <= peak' /\ now <= now'
    /\ \A c \in counted : time'[c] = time[c]
    /\ \A c \in Checks :
          /\ pc'[c] = "add" => pc[c] = "add" /\ time'[c] = time[c]
          /\ pc'[c] \in {"purge", "count"} =>
                \/ pc[c] \in {"purge", "count"} /\ time'[c] = time[c]
                \/ time'[c] = now'

LEMMA QuietStep ==
  ASSUME TypeOK, TypeOK', Bounded, NoMore, Quiet PROVE Bounded' /\ NoMore'
  <1>0. counted \subseteq Checks /\ counted' = counted
    BY DEF TypeOK, Quiet
  <1>1. \A T : Among(counted, T)' = Among(counted, T)
    BY DEF Quiet, Among
  <1>2. NoMore'
    BY <1>1 DEF NoMore, Entries, Quiet
  <1>3. ASSUME MaxDelay <= Ttl - Window, NEW t \in Times
        PROVE  (Unpurged(t) \/ Purged(t))'
    <2>1. /\ peak \in Nat /\ peak' \in Nat /\ now \in Nat /\ now' \in Nat
          /\ peak <= peak' /\ now <= now' /\ t \in Nat
      BY DEF TypeOK, Times, Quiet
    <2>4. Gone \in Nat /\ Gone' = Gone
      BY GoneTyped DEF Quiet, Gone
    <2>2. CASE Unpurged(t)
      <3>1. Among(counted \cup Adding, Minute(t))' \subseteq Among(counted \cup Adding, Minute(t))
        BY DEF Among, Adding, At, Quiet
      <3>2. Among(counted \cup Adding, Minute(t)) \in SUBSET Checks
        BY <1>0 DEF Among, Adding, At
      <3>3. /\ Cardinality(Among(counted \cup Adding, Minute(t))')
                  <= Cardinality(Among(counted \cup Adding, Minute(t)))
            /\ Cardinality(Among(counted \cup Adding, Minute(t))') \in Nat
            /\ Cardinality(Among(counted \cup Adding, Minute(t))) \in Nat
        BY <3>1, <3>2, Bigger
      <3>4. zset' = zset
        BY DEF Quiet
      <3>5. Cardinality(Among(counted, Minute(t)))' <= Entries(Minute(t) \cap Times)' + Gone'
        BY <1>1, <2>2, <2>4, <3>4 DEF Unpurged, Entries
      <3>6. Cardinality(Among(counted \cup Adding, Minute(t)))' <= HighestLimit + peak' - 1 + Gone'
        BY <2>1, <2>2, <2>4, <3>3 DEF Unpurged
      <3> QED  BY <3>5, <3>6 DEF Unpurged
    <2>3. CASE Purged(t)
      <3> DEFINE All == Among(counted \cup Adding \cup Looking, Minute(t))
      <3>1. now' >= t + Window
        BY <2>1, <2>3 DEF Purged
      <3>2. now' \notin Minute(t)
        BY <2>1, <3>1 DEF Minute
      <3>3. All' \subseteq All
        BY <3>2 DEF Among, Adding, Looking, At, Quiet
      <3>4. All \in SUBSET Checks
        BY <1>0 DEF Among, Adding, Looking, At
      <3> HIDE DEF All
      <3>5. /\ Cardinality(All') <= Cardinality(All)
            /\ Cardinality(All') \in Nat /\ Cardinality(All) \in Nat
        BY <3>3, <3>4, Bigger
      <3>6. Cardinality(All) <= HighestLimit + 2 * (peak - 1) + Gone
        BY <2>3 DEF Purged, All
      <3>7. Cardinality(All') <= HighestLimit + 2 * (peak' - 1) + Gone'
        BY <2>1, <2>4, <3>5, <3>6
      <3> QED  BY <3>1, <3>7 DEF Purged, All
    <2> QED  BY <1>3, <2>2, <2>3 DEF Bounded
  <1> QED  BY <1>2, <1>3 DEF Bounded

LEMMA QuietCheck ==
  ASSUME TypeOK, Calls, NEW c \in Checks, strategy = "sliding",
         Check(c) \/ Fails(c), ~Purge(c), ~Add(c), ~(Count(c) /\ pc'[c] = "add")
  PROVE  Quiet
  <1>1. ~Increment(c) /\ ~GetBucket(c) /\ ~SetBucket(c)
    BY DEF Calls, Staged, Increment, GetBucket, SetBucket
  <1>2. counted \cap At({"new", "op", "begin", "purge", "count", "add"}) = {}
    BY DEF Calls, Past, At, Ended
  <1>3. /\ peak \in Nat /\ now \in Nat /\ counted \subseteq Checks
        /\ pc \in [Checks -> Phases] /\ time \in [Checks -> Times]
    BY DEF TypeOK, Times
  <1>4. zset' = zset /\ counted' = counted /\ lapsed' = lapsed /\ now' = now
    BY <1>1 DEF Check, Start, ChargeOperation, Begin, Count, Expire, RecordUsage, Reply,
                Fails, redis, sorted, history
  <1>5. peak <= peak'
    BY <1>1, <1>3, InProgressCounts
       DEF Check, Start, ChargeOperation, Begin, Count, Expire, RecordUsage, Reply, Fails, history
  <1>6. \A d \in Checks : d # c => pc'[d] = pc[d] /\ time'[d] = time[d]
    BY <1>1, <1>3 DEF Check, Start, ChargeOperation, Begin, Count, Expire, RecordUsage, Reply,
                Fails, Goto
  <1>7. CASE Start(c) \/ Begin(c)
    <2>1. c \notin counted
      BY <1>2, <1>7 DEF Start, Begin, At
    <2>2. time'[c] = now'
      BY <1>3, <1>4, <1>7 DEF Start, Begin
    <2>3. pc'[c] \in {"op", "purge", "incr", "get"}
      BY <1>3, <1>7, FirstStepStaged DEF Start, Begin, Goto
    <2> QED  BY <1>3, <1>4, <1>5, <1>6, <2>1, <2>2, <2>3 DEF Quiet
  <1>8. CASE ~Start(c) /\ ~Begin(c)
    <2>1. time' = time /\ pc'[c] \notin {"purge", "count", "add"}
      BY <1>1, <1>3, <1>8 DEF Check, ChargeOperation, Count, Expire, RecordUsage, Reply, Fails, Goto
    <2> QED  BY <1>3, <1>4, <1>5, <1>6, <2>1 DEF Quiet
  <1> QED  BY <1>7, <1>8

\* A step that leaves the clocks alone.
Still == time' = time /\ now' = now /\ peak' = peak /\ lapsed' = lapsed

LEMMA PurgeStep ==
  ASSUME TypeOK, TypeOK', Calls, Bounded, NoMore, NEW c \in Checks, Purge(c)
  PROVE  Bounded' /\ NoMore'
  <1>1. /\ counted' = counted /\ Still
        /\ zset' = [t \in Times |-> IF t + Window <= time[c] THEN 0 ELSE zset[t]]
        /\ pc[c] = "purge" /\ pc' = [pc EXCEPT ![c] = "count"]
    BY DEF Purge, Still, Goto, history
  <1>2. Adding' = Adding /\ Looking' = Looking
    BY <1>1 DEF Adding, Looking, At, TypeOK
  <1>4. ASSUME NEW T \in SUBSET Times PROVE (Entries(T) <= Cardinality(Among(counted, T)))'
    <2>1. IsFiniteSet(T) /\ Entries(T) \in Nat
      BY EntriesTyped
    <2>2. \A t \in T : zset[t] \in Nat /\ zset'[t] \in Nat /\ zset'[t] <= zset[t]
      BY <1>1 DEF TypeOK
    <2>3. Entries(T)' <= Entries(T)
      BY <2>1, <2>2, SumLower DEF Entries
    <2>4. Entries(T)' \in Nat
      BY <2>1, <2>2, SumNat DEF Entries
    <2>5. Among(counted, T)' = Among(counted, T)
      BY <1>1 DEF Among, Still
    <2>6. Cardinality(Among(counted, T)) \in Nat
      BY AmongFinite DEF TypeOK
    <2> QED  BY <2>1, <2>3, <2>4, <2>5, <2>6 DEF NoMore
  <1>5. ASSUME MaxDelay <= Ttl - Window, NEW t \in Times
        PROVE  (Unpurged(t) \/ Purged(t))'
    <2> DEFINE Some == Among(counted \cup Adding, Minute(t))
               All == Among(counted \cup Adding \cup Looking, Minute(t))
    <2>1. Some' = Some /\ All' = All /\ Among(counted, Minute(t))' = Among(counted, Minute(t))
      BY <1>1, <1>2 DEF Among, Still
    <2>2. /\ Some \in SUBSET Checks /\ IsFiniteSet(Some) /\ Cardinality(Some) \in Nat
          /\ All \in SUBSET Checks /\ IsFiniteSet(All) /\ Cardinality(All) \in Nat
      <3>1. /\ counted \cup Adding \in SUBSET Checks
            /\ counted \cup Adding \cup Looking \in SUBSET Checks
        BY DEF TypeOK, Adding, Looking, At
      <3> QED  BY <3>1, AmongFinite
    <2>7. Gone \in Nat /\ Gone' = Gone
      BY <1>1, GoneTyped DEF Still, Gone
    <2>3. t \in Nat /\ time[c] \in Nat /\ now \in Nat /\ peak \in Nat \ {0} /\ time[c] <= now
      <3>1. c \in InProgress
        BY <1>1 DEF InProgress, Ended
      <3> QED  BY <3>1 DEF TypeOK, Times, Calls, Timely
    <2>4. CASE Purged(t)
      BY <1>1, <2>1, <2>4, <2>7 DEF Purged, Still
    <2>5. CASE Unpurged(t) /\ time[c] < t + Window
      <3>1. \A u \in Minute(t) \cap Times : zset'[u] = zset[u]
        BY <1>1, <2>3, <2>5 DEF Minute, Times
      <3>2. Minute(t) \cap Times \in SUBSET Times
        OBVIOUS
      <3>3. Entries(Minute(t) \cap Times)' = Entries(Minute(t) \cap Times)
        BY <3>1, <3>2, EntriesTyped, SumCongruent DEF Entries
      <3> QED  BY <1>1, <2>1, <2>5, <2>7, <3>3 DEF Unpurged, Still
    <2>6. CASE Unpurged(t) /\ time[c] >= t + Window
      <3>1. now >= t + Window
        BY <2>3, <2>6
      <3>2. c \in InProgress /\ InProgress \subseteq Checks /\ IsFiniteSet(InProgress)
        BY <1>1, FS_Subset DEF InProgress, Ended
      <3>3. All \subseteq Some \cup (InProgress \ {c})
        <4>1. time[c] \notin Minute(t)
          BY <2>3, <2>6 DEF Minute
        <4> QED  BY <4>1 DEF Among, Looking, At, InProgress, Ended
      <3>4. Cardinality(InProgress \ {c}) = Cardinality(InProgress) - 1
            /\ IsFiniteSet(InProgress \ {c})
        BY <3>2, FS_RemoveElement
      <3>5. /\ Cardinality(Some \cup (InProgress \ {c}))
                  <= Cardinality(Some) + Cardinality(InProgress) - 1
            /\ Some \cup (InProgress \ {c}) \in SUBSET Checks
        <4>1. Cardinality(Some \cap (InProgress \ {c})) \in Nat
          BY <2>2, FS_Intersection, FS_CardinalityType
        <4>2. Cardinality(Some \cup (InProgress \ {c})) =
                Cardinality(Some) + Cardinality(InProgress \ {c})
                   - Cardinality(Some \cap (InProgress \ {c}))
          BY <2>2, <3>4, FS_Union
        <4> HIDE DEF Some
        <4> QED  BY <2>2, <3>2, <3>4, <4>1, <4>2, InProgressCounts
      <3>6. Cardinality(All) <= Cardinality(Some \cup (InProgress \ {c}))
            /\ Cardinality(Some \cup (InProgress \ {c})) \in Nat
        BY <3>3, <3>5, Bigger
      <3>7. Cardinality(InProgress) <= peak /\ Cardinality(Some) <= HighestLimit + peak - 1 + Gone
        BY <2>6 DEF Calls, PeakSeen, Unpurged
      <3> HIDE DEF All, Some
      <3>8. Cardinality(All) <= HighestLimit + 2 * (peak - 1) + Gone
        BY <2>2, <2>3, <2>7, <3>5, <3>6, <3>7, InProgressCounts
      <3>9. Purged(t)
        BY <3>1, <3>8 DEF Purged, All
      <3> QED  BY <1>1, <2>1, <2>7, <3>9 DEF Purged, Still, All
    <2> QED  BY <1>5, <2>3, <2>4, <2>5, <2>6 DEF Bounded
  <1> QED  BY <1>4, <1>5 DEF Bounded, NoMore

LEMMA CountStep ==
  ASSUME TypeOK, TypeOK', Calls, Bounded, NoMore, NEW c \in Checks, Count(c), pc'[c] = "add"
  PROVE  Bounded' /\ NoMore'
  <1>1. /\ counted' = counted /\ zset' = zset /\ Still
        /\ pc[c] = "count" /\ pc' = [pc EXCEPT ![c] = "add"]
        /\ SumFunctionOnSet(zset, Times) + Cost(c) <= limit[c]
    <2>1. SumFunctionOnSet(zset, Times) \in Nat /\ Cost(c) \in Nat /\ limit[c] \in Nat
      BY EntriesTyped, CostTyped DEF Entries, TypeOK
    <2>2. counted' = counted /\ zset' = zset /\ Still /\ pc[c] = "count"
      BY DEF Count, Still, redis, sorted, history
    <2>3. pc' = [pc EXCEPT ![c] = IF SumFunctionOnSet(zset, Times) + Cost(c) > limit[c]
                                  THEN "refused" ELSE "add"]
      BY DEF Count, Goto
    <2>4. ~(SumFunctionOnSet(zset, Times) + Cost(c) > limit[c])
      BY <2>3 DEF TypeOK
    <2> QED  BY <2>1, <2>2, <2>3, <2>4
  <1>2. /\ Adding' = Adding \cup {c} /\ c \in Looking
        /\ Adding' \cup Looking' = Adding \cup Looking
    BY <1>1 DEF Adding, Looking, At, TypeOK
  <1>3. \A T : Among(counted, T)' = Among(counted, T) /\ Entries(T)' = Entries(T)
    BY <1>1 DEF Among, Entries, Still
  <1>4. NoMore'
    BY <1>3 DEF NoMore
  <1>5. ASSUME MaxDelay <= Ttl - Window, NEW t \in Times
        PROVE  (Unpurged(t) \/ Purged(t))'
    <2> DEFINE Some == Among(counted \cup Adding, Minute(t))
               All == Among(counted \cup Adding \cup Looking, Minute(t))
    <2>1. peak \in Nat \ {0} /\ counted \in SUBSET Checks /\ Gone \in Nat
      BY GoneTyped DEF TypeOK
    <2>5. Gone' = Gone
      BY <1>1 DEF Still, Gone
    <2>2. CASE Purged(t)
      <3>1. All' = All
        BY <1>1, <1>2 DEF Among, Still
      <3> QED  BY <1>1, <2>2, <2>5, <3>1 DEF Purged, Still
    <2>3. CASE Unpurged(t) /\ time[c] \notin Minute(t)
      <3>1. Some' = Some
        BY <1>1, <1>2, <2>3 DEF Among, Still
      <3> QED  BY <1>1, <1>3, <2>3, <2>5, <3>1 DEF Unpurged, Still
    <2>4. CASE Unpurged(t) /\ time[c] \in Minute(t)
      <3> DEFINE Let == Among(counted, Minute(t))
      <3>1. Cardinality(Let) <= Entries(Minute(t) \cap Times) + Gone
        BY <2>4 DEF Unpurged
      <3>2. /\ Entries(Minute(t) \cap Times) \in Nat /\ Entries(Times) \in Nat
            /\ Entries(Minute(t) \cap Times) <= Entries(Times)
        <4>1. Minute(t) \cap Times \in SUBSET Times /\ Times \in SUBSET Times
          OBVIOUS
        <4> QED  BY <4>1, EntriesTyped
      <3>3. Entries(Times) + Cost(c) <= HighestLimit /\ Cost(c) \in Nat \ {0}
        <4>1. limit[c] <= HighestLimit /\ limit[c] \in Nat
          BY DEF TypeOK
        <4>2. Entries(Times) + Cost(c) <= limit[c]
          BY <1>1 DEF Entries
        <4>3. Cost(c) \in Nat \ {0}
          BY CostTyped
        <4> QED  BY <3>2, <4>1, <4>2, <4>3
      <3>4. Some' \subseteq Let \cup InProgress
        BY <1>1, <1>2 DEF Among, Still, Adding, Looking, At, InProgress, Ended
      <3>5. /\ Let \in SUBSET Checks /\ IsFiniteSet(Let) /\ Cardinality(Let) \in Nat
            /\ InProgress \in SUBSET Checks /\ IsFiniteSet(InProgress)
        BY <2>1, AmongFinite, FS_Subset DEF InProgress
      <3> HIDE DEF Let, Some
      <3>6. Cardinality(Let \cup InProgress) <= Cardinality(Let) + Cardinality(InProgress)
        <4>1. Cardinality(Let \cap InProgress) \in Nat
          BY <3>5, FS_Intersection, FS_CardinalityType
        <4>2. Cardinality(Let \cup InProgress) =
                Cardinality(Let) + Cardinality(InProgress) - Cardinality(Let \cap InProgress)
          BY <3>5, FS_Union
        <4> QED  BY <3>5, <4>1, <4>2, InProgressCounts
      <3>7. Cardinality(Some') <= Cardinality(Let \cup InProgress)
            /\ Cardinality(Some') \in Nat /\ Cardinality(Let \cup InProgress) \in Nat
        BY <3>4, <3>5, Bigger
      <3>8. Cardinality(InProgress) <= peak
        BY DEF Calls, PeakSeen
      <3>9. Cardinality(Some') <= HighestLimit + peak - 1 + Gone
        BY <2>1, <3>1, <3>2, <3>3, <3>5, <3>6, <3>7, <3>8, InProgressCounts
      <3> QED  BY <1>1, <1>3, <2>4, <2>5, <3>9 DEF Unpurged, Still, Some
    <2> QED  BY <1>5, <2>2, <2>3, <2>4 DEF Bounded
  <1> QED  BY <1>4, <1>5 DEF Bounded

\* One more call let through is one more entry, at the tick it carries.
LEMMA AddOne ==
  ASSUME TypeOK, Calls, NEW c \in Checks, Add(c), NEW T \in SUBSET Times
  PROVE  /\ Entries(T)' = Entries(T) + (IF time[c] \in T THEN 1 ELSE 0)
         /\ Cardinality(Among(counted, T))' =
               Cardinality(Among(counted, T)) + (IF time[c] \in T THEN 1 ELSE 0)
  <1>1. /\ counted' = counted \cup {c} /\ c \notin counted /\ time' = time
        /\ zset' = [zset EXCEPT ![time[c]] = @ + 1]
    BY DEF Add, Calls, Past, At, Ended
  <1>2. IsFiniteSet(T) /\ \A u \in T : zset[u] \in Nat
    BY EntriesTyped DEF TypeOK
  <1>3. \A u \in T : zset'[u] = IF u = time[c] THEN zset[u] + 1 ELSE zset[u]
    BY <1>1 DEF TypeOK
  <1>4. IsFiniteSet(Among(counted, T)) /\ Cardinality(Among(counted, T)) \in Nat
    BY AmongFinite DEF TypeOK
  <1>5. CASE time[c] \in T
    <2>1. Entries(T)' = Entries(T) + 1
      BY <1>2, <1>3, <1>5, SumRaise DEF Entries
    <2>2. Among(counted, T)' = Among(counted, T) \cup {c} /\ c \notin Among(counted, T)
      BY <1>1, <1>5 DEF Among
    <2>3. Cardinality(Among(counted, T) \cup {c}) = Cardinality(Among(counted, T)) + 1
      BY <1>4, <2>2, FS_AddElement
    <2> QED  BY <1>5, <2>1, <2>2, <2>3
  <1>6. CASE time[c] \notin T
    <2>1. \A u \in T : zset[u] = zset'[u]
      BY <1>3, <1>6
    <2>2. Entries(T)' = Entries(T)
      BY <1>2, <2>1, SumCongruent DEF Entries
    <2>3. Among(counted, T)' = Among(counted, T)
      BY <1>1, <1>6 DEF Among
    <2>4. Entries(T) \in Nat
      BY EntriesTyped
    <2> QED  BY <1>4, <1>6, <2>2, <2>3, <2>4
  <1> QED  BY <1>5, <1>6

LEMMA AddStep ==
  ASSUME TypeOK, TypeOK', Calls, Bounded, NoMore, NEW c \in Checks, Add(c)
  PROVE  Bounded' /\ NoMore'
  <1>1. /\ counted' = counted \cup {c} /\ Still
        /\ pc[c] = "add" /\ pc' = [pc EXCEPT ![c] = "expire"]
    BY DEF Add, Still, Goto
  <1>2. counted' \cup Adding' = counted \cup Adding /\ Looking' = Looking
    BY <1>1 DEF Adding, Looking, At, TypeOK
  <1>3. ASSUME NEW T \in SUBSET Times PROVE (Entries(T) <= Cardinality(Among(counted, T)))'
    <2>1. Entries(T) <= Cardinality(Among(counted, T))
      BY DEF NoMore
    <2>2. Entries(T) \in Nat /\ Cardinality(Among(counted, T)) \in Nat
      BY EntriesTyped, AmongFinite DEF TypeOK
    <2> QED  BY <2>1, <2>2, AddOne
  <1>4. ASSUME MaxDelay <= Ttl - Window, NEW t \in Times
        PROVE  (Unpurged(t) \/ Purged(t))'
    <2>1. /\ Among(counted \cup Adding, Minute(t))' = Among(counted \cup Adding, Minute(t))
          /\ Among(counted \cup Adding \cup Looking, Minute(t))'
                = Among(counted \cup Adding \cup Looking, Minute(t))
      BY <1>1, <1>2 DEF Among, Still
    <2>4. Gone \in Nat /\ Gone' = Gone
      BY <1>1, GoneTyped DEF Still, Gone
    <2>2. CASE Purged(t)
      BY <1>1, <2>1, <2>2, <2>4 DEF Purged, Still
    <2>3. CASE Unpurged(t)
      <3> DEFINE T == Minute(t) \cap Times
      <3>1. T \in SUBSET Times
        OBVIOUS
      <3>2. /\ Among(counted, Minute(t)) = Among(counted, T)
            /\ Among(counted, Minute(t))' = Among(counted, T)'
        <4>1. \A d \in counted \cup {c} : time[d] \in Times
          BY DEF TypeOK
        <4> QED  BY <1>1, <4>1 DEF Among, Still
      <3>3. Entries(T) \in Nat /\ Cardinality(Among(counted, T)) \in Nat
        BY <3>1, EntriesTyped, AmongFinite DEF TypeOK
      <3>4. Cardinality(Among(counted, T)) <= Entries(T) + Gone
        BY <2>3, <3>2 DEF Unpurged
      <3> HIDE DEF T
      <3>5. Cardinality(Among(counted, T))' <= Entries(T)' + Gone
        BY <2>4, <3>1, <3>3, <3>4, AddOne
      <3>6. Cardinality(Among(counted, Minute(t)))' <= Entries(Minute(t) \cap Times)' + Gone
        BY <3>2, <3>5 DEF T
      <3> QED  BY <1>1, <2>1, <2>3, <2>4, <3>6 DEF Unpurged, Still
    <2> QED  BY <1>4, <2>2, <2>3 DEF Bounded
  <1> QED  BY <1>3, <1>4 DEF Bounded, NoMore

LEMMA NoEntries ==
  ASSUME zset = [t \in Times |-> 0], NEW T \in SUBSET Times PROVE Entries(T) = 0
  <1>1. IsFiniteSet(T) /\ {} \in SUBSET T /\ \A t \in T \ {} : zset[t] = 0
    BY TimesFinite, FS_Subset
  <1>2. SumFunctionOnSet(zset, T) = SumFunctionOnSet(zset, {})
    BY <1>1, SumZeros
  <1> QED  BY <1>2, SumEmpty DEF Entries

Emptied == \A T \in SUBSET Times : Entries(T) = 0

LEMMA EmptiedAfter == (zset = [t \in Times |-> 0])' => Emptied'
  <1>1. zset = [t \in Times |-> 0] => Emptied
    BY NoEntries DEF Emptied
  <1> QED  BY <1>1, PTL

\* With nothing let through and no entries, only the checks in progress count.
LEMMA Forgotten ==
  TypeOK /\ Calls /\ counted = {} /\ zset = [t \in Times |-> 0] => Bounded /\ NoMore
  <1> SUFFICES ASSUME TypeOK, Calls, counted = {}, zset = [t \in Times |-> 0]
               PROVE  Bounded /\ NoMore
    OBVIOUS
  <1>1. \A T : Among(counted, T) = {}
    BY DEF Among
  <1>2. NoMore
    BY <1>1, NoEntries, FS_EmptySet DEF NoMore
  <1>3. ASSUME NEW t \in Times PROVE Unpurged(t)
    <2>0. Gone \in Nat
      BY GoneTyped
    <2>1. Cardinality(Among(counted, Minute(t))) <= Entries(Minute(t) \cap Times) + Gone
      <3>1. Minute(t) \cap Times \in SUBSET Times
        OBVIOUS
      <3> QED  BY <1>1, <2>0, <3>1, NoEntries, FS_EmptySet
    <2> DEFINE Some == Among(counted \cup Adding, Minute(t))
    <2>2. Some \subseteq InProgress /\ InProgress \in SUBSET Checks /\ Some \subseteq Adding
      BY DEF Among, Adding, At, InProgress, Ended
    <2> HIDE DEF Some
    <2>3. Cardinality(Some) <= Cardinality(InProgress) /\ Cardinality(Some) \in Nat
      BY <2>2, Bigger
    <2>4. Cardinality(InProgress) <= peak /\ peak \in Nat \ {0} /\ HighestLimit \in Nat
      BY DEF Calls, PeakSeen, TypeOK
    <2>5. CASE Some = {}
      <3>1. Cardinality(Some) <= HighestLimit + peak - 1 + Gone
        BY <2>0, <2>4, <2>5, FS_EmptySet
      <3> QED  BY <2>1, <3>1 DEF Unpurged, Some
    <2>6. CASE Some # {}
      <3>1. PICK d \in Adding : TRUE
        BY <2>2, <2>6
      <3>2. limit[d] >= 1 /\ limit[d] \in Nat /\ limit[d] <= HighestLimit
        BY <3>1 DEF Calls, Allowed, Adding, At, TypeOK
      <3>3. Cardinality(Some) <= HighestLimit + peak - 1 + Gone
        BY <2>0, <2>3, <2>4, <3>2, InProgressCounts
      <3> QED  BY <2>1, <3>3 DEF Unpurged, Some
    <2> QED  BY <2>5, <2>6
  <1> QED  BY <1>2, <1>3 DEF Bounded

LEMMA ForgottenNext ==
  (TypeOK /\ Calls /\ counted = {} /\ zset = [t \in Times |-> 0])' => (Bounded /\ NoMore)'
  BY Forgotten, PTL

\* When the key expires, either every call let through in a minute has lost
\* its entry too early, or one of them is Ttl old, and then no check that is in
\* progress can carry a time of that minute.
LEMMA LapseStep ==
  ASSUME TypeOK, TypeOK', Calls', Bounded, NoMore, Tick, zdies = now'
  PROVE  Bounded' /\ NoMore'
  <1>1. /\ counted' = counted /\ peak' = peak /\ now' = now + 1 /\ time' = time /\ pc' = pc
        /\ zset' = [t \in Times |-> 0]
        /\ lapsed' = lapsed \cup {c \in counted : time[c] + Ttl > now'}
    BY DEF Tick
  <1>2. \A T : Among(counted, T)' = Among(counted, T)
    BY <1>1 DEF Among
  <1>3. \A T \in SUBSET Times : Entries(T)' = 0
    BY <1>1, EmptiedAfter DEF Emptied
  <1>4. counted \in SUBSET Checks /\ lapsed \in SUBSET lapsed' /\ lapsed' \in SUBSET Checks
    BY <1>1 DEF TypeOK
  <1>5. NoMore'
    <2> SUFFICES ASSUME NEW T \in SUBSET Times
                 PROVE  Entries(T)' <= Cardinality(Among(counted, T))'
      BY DEF NoMore
    <2>1. Cardinality(Among(counted, T)) \in Nat
      BY <1>4, AmongFinite
    <2> QED  BY <1>2, <1>3, <2>1
  <1>6. Gone <= Gone' /\ Gone \in Nat /\ Gone' \in Nat
    BY <1>4, Bigger DEF Gone
  <1>7. ASSUME MaxDelay <= Ttl - Window, NEW t \in Times
        PROVE  (Unpurged(t) \/ Purged(t))'
    <2> DEFINE Let == Among(counted, Minute(t))
               Some == Among(counted \cup Adding, Minute(t))
               All == Among(counted \cup Adding \cup Looking, Minute(t))
    <2>1. Some' = Some /\ All' = All /\ Let' = Let
      BY <1>1 DEF Among, Adding, Looking, At
    <2>2. Some \in SUBSET Checks /\ All \in SUBSET Checks /\ Let \in SUBSET Some
      BY <1>4 DEF Among, Adding, Looking, At
    <2>3. t \in Nat /\ now \in Nat /\ peak \in Nat \ {0} /\ MaxDelay \in Nat
          /\ \A c \in Checks : time[c] \in Nat
      BY DEF TypeOK, Times
    <2>4. CASE Purged(t)
      <3>1. Cardinality(All) \in Nat
        BY <2>2, Bigger
      <3> QED  BY <1>1, <1>6, <2>1, <2>3, <2>4, <3>1 DEF Purged
    <2>5. CASE Unpurged(t) /\ Let \subseteq lapsed'
      <3>1. Cardinality(Let) <= Gone' /\ Cardinality(Let) \in Nat
        BY <1>4, <2>5, Bigger DEF Gone
      <3>2. Minute(t) \cap Times \in SUBSET Times
        OBVIOUS
      <3>3. Cardinality(Let)' <= Entries(Minute(t) \cap Times)' + Gone'
        BY <1>3, <1>6, <2>1, <3>1, <3>2
      <3>4. Cardinality(Some) \in Nat
        BY <2>2, Bigger
      <3>5. Cardinality(Some)' <= HighestLimit + peak' - 1 + Gone'
        BY <1>1, <1>6, <2>1, <2>3, <2>5, <3>4 DEF Unpurged
      <3> QED  BY <3>3, <3>5 DEF Unpurged
    <2>6. CASE Unpurged(t) /\ ~(Let \subseteq lapsed')
      <3>1. PICK f \in counted : time[f] \in Minute(t) /\ ~(time[f] + Ttl > now')
        BY <1>1, <2>6 DEF Among
      <3>2. t + Ttl <= now' /\ t + Window <= now'
        <4>1. f \in Checks /\ time[f] \in Nat /\ Ttl \in Nat /\ Window \in Nat
          BY <1>4, <2>3
        <4> QED  BY <1>1, <1>7, <2>3, <3>1, <4>1 DEF Minute
      <3>3. \A c \in InProgress : time[c] \notin Minute(t)
        <4> SUFFICES ASSUME NEW c \in InProgress PROVE time[c] \notin Minute(t)
          OBVIOUS
        <4>1. now' <= time[c] + MaxDelay /\ c \in Checks
          <5>1. InProgress' = InProgress
            BY <1>1 DEF InProgress
          <5> QED  BY <1>1, <5>1 DEF Calls, Timely, InProgress
        <4>2. time[c] >= t + Window
          BY <1>1, <1>7, <2>3, <3>2, <4>1
        <4> QED  BY <2>3, <4>1, <4>2 DEF Minute
      <3>4. All \subseteq Some
        BY <3>3 DEF Among, Looking, Adding, At, InProgress, Ended
      <3>5. Cardinality(All) <= Cardinality(Some)
            /\ Cardinality(All) \in Nat /\ Cardinality(Some) \in Nat
        BY <2>2, <3>4, Bigger
      <3>6. Cardinality(All)' <= HighestLimit + 2 * (peak' - 1) + Gone'
        BY <1>1, <1>6, <2>1, <2>3, <2>6, <3>5 DEF Unpurged
      <3> QED  BY <3>2, <3>6, <1>1 DEF Purged
    <2> QED  BY <1>7, <2>4, <2>5, <2>6 DEF Bounded
  <1> QED  BY <1>5, <1>7 DEF Bounded

Sliding == (strategy = "sliding") => Bounded /\ NoMore

LEMMA SlidingStep ==
  TypeOK /\ TypeOK' /\ Calls /\ Calls' /\ Sliding /\ [Next]_vars => Sliding'
  <1> SUFFICES ASSUME TypeOK, TypeOK', Calls, Calls', Sliding, [Next]_vars,
                      strategy = "sliding"
               PROVE  Bounded' /\ NoMore'
    BY Fixed DEF Sliding
  <1>0. Bounded /\ NoMore
    BY DEF Sliding
  <1>1. Quiet => Bounded' /\ NoMore'
    BY <1>0, QuietStep
  <1>2. ASSUME NEW c \in Checks, Check(c) \/ Fails(c) PROVE Bounded' /\ NoMore'
    BY <1>0, <1>1, <1>2, QuietCheck, PurgeStep, CountStep, AddStep
  <1>3. /\ peak \in Nat /\ now \in Nat /\ counted \subseteq Checks
        /\ pc \in [Checks -> Phases] /\ time \in [Checks -> Times]
    <2>1. /\ peak \in Nat \ {0} /\ now \in Times /\ counted \subseteq Checks
          /\ pc \in [Checks -> Phases] /\ time \in [Checks -> Times]
      BY DEF TypeOK
    <2>2. Times \subseteq Nat
      BY DEF Times
    <2> QED  BY <2>1, <2>2
  <1>4. ASSUME NEW w \in Workers, Restart(w) PROVE Quiet
    BY <1>3, <1>4 DEF Restart, Quiet, redis, sorted, history
  <1>5. ASSUME NEW w \in Workers, NEW l \in Limits, UpdateLimits(w, l) PROVE Quiet
    BY <1>3, <1>5 DEF UpdateLimits, Quiet, redis, sorted
  <1>6. CASE Tick
    <2>1. /\ counted' = counted /\ peak' = peak
          /\ now' = now + 1 /\ time' = time /\ pc' = pc
      BY <1>6 DEF Tick
    <2>2. CASE zdies = now'
      BY <1>0, <1>6, <2>2, LapseStep
    <2>3. CASE zdies # now'
      <3>1. zset' = zset /\ lapsed' = lapsed
        BY <1>6, <2>3 DEF Tick, sorted
      <3> QED  BY <1>1, <1>3, <2>1, <3>1 DEF Quiet
    <2> QED  BY <2>2, <2>3
  <1>8. CASE UNCHANGED vars
    <2>1. /\ zset' = zset /\ counted' = counted /\ lapsed' = lapsed /\ peak' = peak
          /\ now' = now /\ time' = time /\ pc' = pc
      BY <1>8 DEF vars, redis, sorted, history
    <2> QED  BY <1>1, <1>3, <2>1 DEF Quiet
  <1>7. CASE Reset
    <2>1. counted' = {} /\ zset' = [t \in Times |-> 0]
      BY <1>7 DEF Reset
    <2>2. TypeOK' /\ Calls'
      OBVIOUS
    <2> QED  BY <2>1, <2>2, ForgottenNext
  <1> QED  BY <1>1, <1>2, <1>4, <1>5, <1>6, <1>7, <1>8 DEF Next

LEMMA SlidingAlways == Spec => [](TypeOK /\ Calls /\ Sliding)
  <1>1. Init => Sliding
    <2>1. Init => counted = {} /\ zset = [t \in Times |-> 0]
      BY DEF Init
    <2> QED  BY <2>1, TInit, CallsInit, Forgotten DEF Sliding
  <1>2. TypeOK /\ Calls /\ Sliding /\ [Next]_vars => (TypeOK /\ Calls /\ Sliding)'
    BY TNext, CallsStep, SlidingStep
  <1> QED  BY <1>1, <1>2, TInit, CallsInit, PTL DEF Spec

(* Sliding window: if no check takes the ten seconds between the minute and *)
(* the life of the key, in no minute are more calls let through than the   *)
(* limit, two for each further check that was ever in progress at one time, *)
(* and one for each entry that the expiry of the key took too early.       *)
THEOREM SlidingWindowIsBounded == Spec => []SlidingBounded
  <1>1. TypeOK /\ Calls /\ Sliding => SlidingBounded
    <2> SUFFICES ASSUME TypeOK, Calls, Sliding, strategy = "sliding",
                        MaxDelay <= Ttl - Window, NEW t \in Times
                 PROVE  Cardinality(CountedIn(t, t + Window - 1))
                           <= HighestLimit + 2 * (peak - 1) + Gone
      BY DEF SlidingBounded, Gone
    <2> DEFINE Let == Among(counted, Minute(t))
    <2>1. CountedIn(t, t + Window - 1) = Let
      BY DEF CountedIn, Among, Minute
    <2>2. /\ Let \subseteq Among(counted \cup Adding, Minute(t))
          /\ Let \subseteq Among(counted \cup Adding \cup Looking, Minute(t))
          /\ Among(counted \cup Adding, Minute(t)) \in SUBSET Checks
          /\ Among(counted \cup Adding \cup Looking, Minute(t)) \in SUBSET Checks
      BY DEF Among, TypeOK, Adding, Looking, At
    <2> HIDE DEF Let
    <2>3. /\ Cardinality(Let) \in Nat
          /\ Cardinality(Let) <= Cardinality(Among(counted \cup Adding, Minute(t)))
          /\ Cardinality(Let) <= Cardinality(Among(counted \cup Adding \cup Looking, Minute(t)))
          /\ Cardinality(Among(counted \cup Adding, Minute(t))) \in Nat
          /\ Cardinality(Among(counted \cup Adding \cup Looking, Minute(t))) \in Nat
      BY <2>2, Bigger
    <2>4. peak \in Nat \ {0} /\ HighestLimit \in Nat /\ Gone \in Nat
      BY GoneTyped DEF TypeOK
    <2>5. Unpurged(t) \/ Purged(t)
      BY DEF Sliding, Bounded
    <2>6. Cardinality(Let) <= HighestLimit + 2 * (peak - 1) + Gone
      BY <2>3, <2>4, <2>5 DEF Unpurged, Purged
    <2> QED  BY <2>1, <2>6
  <1> QED  BY <1>1, SlidingAlways, PTL

-----------------------------------------------------------------------------
(* A refusal by the sliding window.  What a check counts has been purged of *)
(* every entry that its clock calls old, and no slower check puts one back, *)
(* as long as no check takes a minute.                                      *)

Cleared ==
    \A c \in At({"count"}), t \in Times : t + Window <= time[c] => zset[t] = 0

LEMMA ClearedStep ==
  ASSUME MaxDelay < Window, TypeOK, Calls, Cleared, [Next]_vars PROVE Cleared'
  <1>1. ASSUME zset' = zset,
               \A c \in Checks : pc'[c] = "count" => pc[c] = "count" /\ time'[c] = time[c]
        PROVE  Cleared'
    BY <1>1 DEF Cleared, At
  <1>2. ASSUME NEW c \in Checks, Check(c) \/ Fails(c) PROVE Cleared'
    <2>1. CASE Purge(c)
      <3>1. /\ time' = time /\ pc' = [pc EXCEPT ![c] = "count"]
            /\ zset' = [t \in Times |-> IF t + Window <= time[c] THEN 0 ELSE zset[t]]
        BY <2>1 DEF Purge, Goto
      <3>2. \A d \in Checks : d # c => pc'[d] = pc[d]
        BY <3>1 DEF TypeOK
      <3> QED  BY <3>1, <3>2 DEF Cleared, At
    <2>2. CASE Add(c)
      <3>1. /\ time' = time /\ pc' = [pc EXCEPT ![c] = "expire"] /\ pc[c] = "add"
            /\ zset' = [zset EXCEPT ![time[c]] = @ + 1]
        BY <2>2 DEF Add, Goto
      <3>2. \A d \in Checks : pc'[d] = "count" => pc[d] = "count"
        BY <3>1 DEF TypeOK
      <3>3. ASSUME NEW d \in At({"count"}) PROVE ~(time[c] + Window <= time[d])
        <4>1. c \in InProgress /\ d \in InProgress
          BY <3>1 DEF At, InProgress, Ended
        <4>2. time[d] <= now /\ now <= time[c] + MaxDelay
          BY <4>1 DEF Calls, Timely
        <4>3. time[c] \in Nat /\ time[d] \in Nat /\ now \in Nat
          BY <4>1 DEF TypeOK, Times, At
        <4> QED  BY <4>2, <4>3
      <3>4. \A t \in Times : zset'[t] = IF t = time[c] THEN zset[t] + 1 ELSE zset[t]
        BY <3>1 DEF TypeOK
      <3> QED  BY <3>1, <3>2, <3>3, <3>4 DEF Cleared, At
    <2>3. CASE ~Purge(c) /\ ~Add(c)
      <3>1. zset' = zset
        BY <1>2, <2>3 DEF Check, Start, ChargeOperation, Begin, Count, Expire, Increment,
                          GetBucket, SetBucket, RecordUsage, Reply, Fails, redis, sorted
      <3>2. \A d \in Checks : d # c => pc'[d] = pc[d] /\ time'[d] = time[d]
        BY <1>2, <2>3 DEF Check, Start, ChargeOperation, Begin, Count, Expire, Increment,
                          GetBucket, SetBucket, RecordUsage, Reply, Fails, Goto, TypeOK
      <3>3. pc'[c] # "count"
        BY <1>2, <2>3, FirstStepStaged
           DEF Check, Start, ChargeOperation, Begin, Count, Expire, Increment,
               GetBucket, SetBucket, RecordUsage, Reply, Fails, Goto, TypeOK
      <3> QED  BY <1>1, <3>1, <3>2, <3>3
    <2> QED  BY <2>1, <2>2, <2>3
  <1>3. ASSUME NEW w \in Workers, Restart(w) PROVE Cleared'
    <2>1. zset' = zset /\ time' = time
      BY <1>3 DEF Restart, redis, sorted
    <2>2. \A c \in Checks : pc'[c] = "count" => pc[c] = "count"
      BY <1>3 DEF Restart, TypeOK
    <2> QED  BY <1>1, <2>1, <2>2
  <1>4. CASE Reset
    BY <1>4 DEF Reset, Cleared, At
  <1>5. CASE (\E w \in Workers, l \in Limits : UpdateLimits(w, l)) \/ UNCHANGED vars
    <2>1. zset' = zset /\ time' = time /\ pc' = pc
      BY <1>5 DEF UpdateLimits, vars, redis, sorted
    <2> QED  BY <1>1, <2>1
  <1>6. CASE Tick
    <2>1. zset' = zset \/ zset' = [t \in Times |-> 0]
      BY <1>6 DEF Tick, sorted
    <2>2. time' = time /\ pc' = pc
      BY <1>6 DEF Tick
    <2> QED  BY <2>1, <2>2 DEF Cleared, At
  <1> QED  BY <1>2, <1>3, <1>4, <1>5, <1>6 DEF Next

\* Nothing but Count refuses a check that is about to count.
LEMMA RefusedByCount ==
  ASSUME TypeOK, [Next]_vars, NEW c \in Checks, pc[c] = "count", pc'[c] = "refused"
  PROVE  SumFunctionOnSet(zset, Times) + Cost(c) > limit[c]
  <1>1. ASSUME NEW d \in Checks, Check(d) \/ Fails(d) PROVE Count(c)
    <2>1. d = c
      BY <1>1 DEF Check, Start, ChargeOperation, Begin, Purge, Count, Add, Expire, Increment,
                  GetBucket, SetBucket, RecordUsage, Reply, Fails, Goto, TypeOK
    <2> QED  BY <1>1, <2>1
             DEF Check, Start, ChargeOperation, Begin, Purge, Add, Expire, Increment,
                 GetBucket, SetBucket, RecordUsage, Reply, Fails, Goto, TypeOK
  <1>2. ASSUME NEW w \in Workers, Restart(w) PROVE FALSE
    BY <1>2 DEF Restart, TypeOK
  <1>3. pc' # pc
    OBVIOUS
  <1>4. Count(c)
    BY <1>1, <1>2, <1>3 DEF Next, UpdateLimits, Reset, Tick, vars
  <1>5. pc' = [pc EXCEPT ![c] = IF SumFunctionOnSet(zset, Times) + Cost(c) > limit[c]
                                THEN "refused" ELSE "add"]
    BY <1>4 DEF Count, Goto
  <1> QED  BY <1>5 DEF TypeOK

LEMMA FullWhenRefused ==
  ASSUME TypeOK, Calls, Sliding, Cleared, [Next]_vars,
         NEW c \in Checks, pc[c] = "count", pc'[c] = "refused"
  PROVE  Cardinality(CountedIn(time[c] - Window + 1, MaxTime)) + Cost(c) > limit[c]
  <1> DEFINE Late == {t \in Times : time[c] < t + Window}
  <1>1. NoMore
    BY DEF Calls, Staged, Sliding
  <1>2. Late \in SUBSET Times /\ IsFiniteSet(Late) /\ Entries(Late) \in Nat
    <2>1. Late \in SUBSET Times
      OBVIOUS
    <2> QED  BY <2>1, EntriesTyped
  <1>3. \A t \in Times \ Late : zset[t] = 0
    <2> SUFFICES ASSUME NEW t \in Times \ Late PROVE zset[t] = 0
      OBVIOUS
    <2>1. time[c] \in Nat /\ t \in Nat
      BY DEF TypeOK, Times
    <2>2. t + Window <= time[c]
      BY <2>1
    <2> QED  BY <2>2 DEF Cleared, At
  <1>4. CountedIn(time[c] - Window + 1, MaxTime) = Among(counted, Late)
    <2>1. \A d \in counted : time[d] \in Nat /\ time[d] <= MaxTime /\ time[d] \in Times
      BY DEF TypeOK, Times
    <2>2. time[c] \in Nat
      BY DEF TypeOK, Times
    <2> QED  BY <2>1, <2>2 DEF CountedIn, Among
  <1> HIDE DEF Late
  <1>5. SumFunctionOnSet(zset, Times) = SumFunctionOnSet(zset, Late)
    <2>1. \A t \in Late : zset[t] \in Nat
      BY <1>2 DEF TypeOK
    <2> QED  BY <1>2, <1>3, <2>1, TimesFinite, SumZeros
  <1>6. Entries(Late) <= Cardinality(Among(counted, Late))
    BY <1>1, <1>2 DEF NoMore
  <1>7. Cardinality(Among(counted, Late)) \in Nat
    BY AmongFinite DEF TypeOK
  <1>8. Cost(c) \in Nat /\ limit[c] \in Nat
    BY CostTyped DEF TypeOK
  <1>9. Entries(Late) + Cost(c) > limit[c]
    BY <1>5, RefusedByCount DEF Entries
  <1> QED  BY <1>2, <1>4, <1>6, <1>7, <1>8, <1>9

(* If every check takes less than a minute, the sliding window refuses one  *)
(* only when as many calls as its limit allows were let through in the      *)
(* minute before it or since it read the clock.                             *)
THEOREM SlidingWindowRefusesNoOther ==
  ASSUME MaxDelay < Window PROVE Spec => RefusedOnlyWhenFull
  <1>1. Init => Cleared
    BY DEF Init, Cleared, At
  <1>2. TypeOK /\ Calls /\ Cleared /\ [Next]_vars => Cleared'
    BY ClearedStep
  <1>3. TypeOK /\ Calls /\ Sliding /\ Cleared /\ [Next]_vars =>
          [\A c \in Checks : pc[c] = "count" /\ pc'[c] = "refused" =>
              Cardinality(CountedIn(time[c] - Window + 1, MaxTime)) + Cost(c)
                  > limit[c]]_vars
    BY FullWhenRefused
  <1> QED  BY <1>1, <1>2, <1>3, SlidingAlways, PTL DEF Spec, RefusedOnlyWhenFull

-----------------------------------------------------------------------------
(* The life of the sorted set.  Its expiry was set Ttl ticks after the time *)
(* Renewed.  Every entry later than that belongs to a check that has yet to *)
(* set the expiry, and a check that can count such an entry a minute later *)
(* has one of them before it that is not so late; if none of them fails,   *)
(* the one before is too slow for the key to expire first.                 *)

Renewed == zdies - Ttl

Clocks ==
    /\ \A c \in Checks : time[c] <= now
    /\ \A u \in Times : zset[u] # 0 => u <= now

Lost == \E f \in counted : pc[f] = "failed" /\ time[f] > Renewed
Due == {d \in counted : pc[d] = "expire" /\ time[d] > Renewed}
Coming == At({"count", "add"}) \cup Due

\* Who has set the expiry, or is past that, is older than it.
Covered == zdies # 0 => \A g \in counted \cap At({"record", "reply", "granted"}) :
                            time[g] <= Renewed
\* An entry it does not cover will have its expiry, or its check failed.
Owed == zdies # 0 => \/ Lost
                     \/ \A u \in Times : zset[u] # 0 /\ u > Renewed =>
                            \E d \in Due : time[d] = u
\* A check that comes a minute after the expiry was set follows one that has
\* yet to set it and came earlier than that, or one that failed.
Followed == zdies # 0 => \/ Lost
                         \/ \A c \in Coming : time[c] >= Renewed + Window =>
                                \E d \in Due : time[d] < Renewed + Window

Blamed == lapsed # {} => \E c \in lapsed : pc[c] = "failed"

KeyKept == Clocks /\ Covered /\ Owed /\ Followed /\ Blamed

LEMMA KeyTypes ==
  ASSUME TypeOK
  PROVE  /\ now \in Nat /\ zdies \in Nat /\ Renewed \in Int /\ Ttl \in Nat /\ Window \in Nat \ {0}
         /\ MaxDelay \in Nat
         /\ \A c \in Checks : time[c] \in Nat /\ time[c] \in Times
         /\ \A u \in Times : u \in Nat
         /\ counted \subseteq Checks /\ pc \in [Checks -> Phases] /\ zset \in [Times -> Nat]
  BY DEF TypeOK, Times, Renewed

\* Steps that leave the sorted set alone: a check that was to set the expiry
\* still is, or has failed, and nobody comes.
Uninvolved ==
    /\ zset' = zset /\ zdies' = zdies /\ counted' = counted /\ lapsed' = lapsed
    /\ now <= now'
    /\ \A c \in Checks :
          /\ \/ time'[c] = time[c]
             \/ c \notin counted /\ time'[c] <= now'
          /\ pc'[c] \in {"count", "add"} => pc[c] \in {"count", "add"} /\ time'[c] = time[c]
          /\ pc[c] = "failed" => pc'[c] = "failed"
          /\ pc[c] = "expire" => pc'[c] \in {"expire", "failed"}
          /\ pc'[c] = "expire" => pc[c] = "expire"
          /\ pc'[c] \in {"record", "reply", "granted"} =>
                pc[c] \in {"record", "reply", "granted"} \/ c \notin counted

LEMMA UninvolvedStep ==
  ASSUME TypeOK, TypeOK', KeyKept, Uninvolved PROVE KeyKept'
  <1>1. /\ Renewed' = Renewed /\ zset' = zset /\ zdies' = zdies /\ counted' = counted
        /\ lapsed' = lapsed
    BY DEF Renewed, Uninvolved
  <1>2. \A c \in counted : c \in Checks /\ time'[c] = time[c]
    BY KeyTypes DEF Uninvolved
  <1>3. Clocks'
    <2>1. /\ now \in Nat /\ now' \in Nat /\ \A c \in Checks : time[c] \in Nat /\ time'[c] \in Nat
          /\ \A u \in Times : u \in Nat
      BY DEF TypeOK, Times
    <2> QED  BY <2>1 DEF Clocks, KeyKept, Uninvolved
  <1>4. Covered'
    BY <1>1, <1>2 DEF Covered, KeyKept, At, Uninvolved
  <1>5. Lost => Lost'
    BY <1>1, <1>2 DEF Lost, Uninvolved
  <1>6. Lost' \/ Due' = Due
    <2>1. Due' \subseteq Due
      BY <1>1, <1>2 DEF Due, Uninvolved
    <2>2. ASSUME NEW d \in Due, d \notin Due' PROVE Lost'
      BY <1>1, <1>2, <2>2 DEF Due, Lost, Uninvolved
    <2> QED  BY <2>1, <2>2
  <1>7. Owed'
    BY <1>1, <1>2, <1>5, <1>6 DEF Owed, KeyKept, Due
  <1>8. Followed'
    <2>1. \A c \in At({"count", "add"})' : c \in At({"count", "add"}) /\ time'[c] = time[c]
      BY DEF At, Uninvolved
    <2>2. \A d \in Due : time'[d] = time[d]
      BY <1>2 DEF Due
    <2>3. Due' = Due => \A c \in Coming' : c \in Coming /\ time'[c] = time[c]
      BY <2>1, <2>2 DEF Coming
    <2> QED  BY <1>1, <1>5, <1>6, <2>2, <2>3 DEF Followed, KeyKept
  <1>9. Blamed'
    <2>1. lapsed \subseteq Checks
      BY DEF TypeOK
    <2> QED  BY <1>1, <2>1 DEF Blamed, KeyKept, Uninvolved
  <1> QED  BY <1>3, <1>4, <1>7, <1>8, <1>9 DEF KeyKept

LEMMA KeyPurge ==
  ASSUME TypeOK, TypeOK', Calls, KeyKept, NEW c \in Checks, Purge(c) PROVE KeyKept'
  <1>1. /\ counted' = counted /\ lapsed' = lapsed /\ time' = time /\ now' = now
        /\ zset' = [t \in Times |-> IF t + Window <= time[c] THEN 0 ELSE zset[t]]
        /\ pc[c] = "purge" /\ pc' = [pc EXCEPT ![c] = "count"]
        /\ zdies' = IF \A t \in Times : zset'[t] = 0 THEN 0 ELSE zdies
    BY DEF Purge, Expiry, Goto, history
  <1>2. /\ \A d \in Checks : pc'[d] = IF d = c THEN "count" ELSE pc[d]
        /\ \A u \in Times : zset'[u] # 0 => zset[u] # 0 /\ time[c] < u + Window
    BY <1>1, KeyTypes
  <1>3. c \notin counted
    BY <1>1 DEF Calls, Past, At
  <1>4. Clocks' /\ Blamed'
    <2>1. lapsed \subseteq Checks
      BY DEF TypeOK
    <2> QED  BY <1>1, <1>2, <2>1 DEF Clocks, Blamed, KeyKept
  <1>5. CASE zdies' = 0
    BY <1>4, <1>5 DEF KeyKept, Covered, Owed, Followed
  <1>6. CASE zdies' # 0
    <2>1. zdies' = zdies /\ Renewed' = Renewed
      BY <1>1, <1>6 DEF Renewed
    <2>2. PICK u \in Times : zset'[u] # 0
      BY <1>1, <1>6
    <2>3. Lost' = Lost /\ Due' = Due
      BY <1>1, <1>2, <1>3, <2>1, KeyTypes DEF Lost, Due
    <2>4. Covered'
      BY <1>1, <1>2, <1>3, <2>1 DEF Covered, KeyKept, At
    <2>5. Owed'
      BY <1>1, <1>2, <2>1, <2>3 DEF Owed, KeyKept, Due
    <2>6. Followed'
      <3>1. Coming' = Coming \cup {c}
        BY <1>2, <2>3 DEF Coming, At
      <3>2. ASSUME ~Lost, time[c] >= Renewed + Window
            PROVE  \E d \in Due : time[d] < Renewed + Window
        <4>1. u > Renewed /\ zset[u] # 0
          BY <1>2, <2>2, <3>2, KeyTypes
        <4>2. PICK d \in Due : time[d] = u
          BY <1>6, <2>1, <3>2, <4>1 DEF KeyKept, Owed
        <4>3. CASE u < Renewed + Window
          BY <4>2, <4>3
        <4>4. CASE u >= Renewed + Window
          BY <1>6, <2>1, <3>2, <4>2, <4>4 DEF KeyKept, Followed, Coming
        <4> QED  BY <4>3, <4>4, KeyTypes
      <3> QED  BY <1>1, <1>6, <2>1, <2>3, <3>1, <3>2 DEF Followed, KeyKept
    <2> QED  BY <1>4, <2>4, <2>5, <2>6 DEF KeyKept
  <1> QED  BY <1>5, <1>6

LEMMA KeyAdd ==
  ASSUME TypeOK, TypeOK', Calls, KeyKept, NEW c \in Checks, Add(c) PROVE KeyKept'
  <1>1. /\ counted' = counted \cup {c} /\ lapsed' = lapsed /\ time' = time /\ now' = now
        /\ zset' = [zset EXCEPT ![time[c]] = @ + 1] /\ zdies' = zdies
        /\ pc[c] = "add" /\ pc' = [pc EXCEPT ![c] = "expire"]
    BY DEF Add, Goto
  <1>2. /\ \A d \in Checks : pc'[d] = IF d = c THEN "expire" ELSE pc[d]
        /\ \A u \in Times : zset'[u] # 0 => zset[u] # 0 \/ u = time[c]
        /\ Renewed' = Renewed
    BY <1>1, KeyTypes DEF Renewed
  <1>3. c \notin counted /\ counted \subseteq Checks
    BY <1>1, KeyTypes DEF Calls, Past, At
  <1>4. Clocks' /\ Blamed'
    <2>1. lapsed \subseteq Checks
      BY DEF TypeOK
    <2> QED  BY <1>1, <1>2, <2>1 DEF Clocks, Blamed, KeyKept
  <1>5. /\ Lost => Lost'
        /\ Due' = Due \cup {d \in {c} : time[d] > Renewed}
    BY <1>1, <1>2, <1>3 DEF Lost, Due
  <1>6. Covered'
    BY <1>1, <1>2, <1>3 DEF Covered, KeyKept, At
  <1>7. Owed'
    BY <1>1, <1>2, <1>5 DEF Owed, KeyKept, Due
  <1>8. Followed'
    <2>1. c \in Coming /\ Coming' \subseteq Coming
      BY <1>1, <1>2, <1>5 DEF Coming, At
    <2> QED  BY <1>1, <1>2, <1>5, <2>1 DEF Followed, KeyKept
  <1> QED  BY <1>4, <1>6, <1>7, <1>8 DEF KeyKept

LEMMA KeyExpire ==
  ASSUME TypeOK, TypeOK', KeyKept, NEW c \in Checks, Expire(c) PROVE KeyKept'
  <1>1. /\ counted' = counted /\ lapsed' = lapsed /\ time' = time /\ now' = now /\ zset' = zset
        /\ pc[c] = "expire" /\ pc' = [pc EXCEPT ![c] = "record"]
        /\ zdies' = 0 \/ zdies' = now + Ttl
    BY DEF Expire, Goto, history
  <1>2. \A d \in Checks : pc'[d] = IF d = c THEN "record" ELSE pc[d]
    BY <1>1, KeyTypes
  <1>3. Clocks' /\ Blamed'
    <2>1. lapsed \subseteq Checks
      BY DEF TypeOK
    <2> QED  BY <1>1, <1>2, <2>1 DEF Clocks, Blamed, KeyKept
  <1>4. CASE zdies' = 0
    BY <1>3, <1>4 DEF KeyKept, Covered, Owed, Followed
  <1>5. CASE zdies' = now + Ttl
    <2>1. Renewed' = now
      BY <1>5, KeyTypes DEF Renewed
    <2>2. \A d \in Checks : time'[d] <= now
      BY <1>1 DEF KeyKept, Clocks
    <2>3. Covered'
      BY <2>1, <2>2 DEF Covered, At
    <2>4. Owed'
      <3>1. \A u \in Times : zset'[u] # 0 => ~(u > now)
        BY <1>1, KeyTypes DEF KeyKept, Clocks
      <3> QED  BY <2>1, <3>1 DEF Owed
    <2>5. Followed'
      <3>1. \A d \in Checks : ~(time'[d] >= now + Window)
        BY <1>1, <2>2, KeyTypes
      <3>2. Coming' \subseteq Checks
        BY <1>1, KeyTypes DEF Coming, Due, At
      <3> QED  BY <2>1, <3>1, <3>2 DEF Followed
    <2> QED  BY <1>3, <2>3, <2>4, <2>5 DEF KeyKept
  <1> QED  BY <1>1, <1>4, <1>5

LEMMA KeyTick ==
  ASSUME TypeOK, TypeOK', Calls, Calls', KeyKept, strategy = "sliding",
         MaxDelay <= Ttl - Window, Tick
  PROVE  KeyKept'
  <1>1. /\ counted' = counted /\ time' = time /\ pc' = pc /\ now' = now + 1
    BY DEF Tick
  <1>2. CASE zdies # now'
    <2>1. zset' = zset /\ zdies' = zdies /\ lapsed' = lapsed
      BY <1>2 DEF Tick, sorted
    <2>2. now \in Nat
      BY KeyTypes
    <2>3. Uninvolved
      BY <1>1, <2>1, <2>2 DEF Uninvolved
    <2> QED  BY <2>3, UninvolvedStep
  <1>3. CASE zdies = now'
    <2>1. /\ zset' = [t \in Times |-> 0] /\ zdies' = 0
          /\ lapsed' = lapsed \cup {c \in counted : time[c] + Ttl > now'}
      BY <1>3 DEF Tick
    <2>2. Clocks'
      BY <1>1, <2>1, KeyTypes DEF Clocks, KeyKept
    <2>3. zdies # 0
      BY <1>1, <1>3, KeyTypes
    <2>4. ASSUME NEW l \in counted, time[l] + Ttl > now' PROVE Lost
      <3>1. SUFFICES ASSUME ~Lost PROVE FALSE
        OBVIOUS
      <3>2. l \in Checks /\ time[l] > Renewed
        BY <1>3, <2>4, KeyTypes DEF Renewed
      <3>3. pc[l] = "expire"
        BY <2>3, <3>1, <3>2, KeyTypes DEF Calls, Past, At, KeyKept, Covered, Lost
      <3>4. \A d \in Due : time[d] >= Renewed + Window
        <4> SUFFICES ASSUME NEW d \in Due PROVE time[d] >= Renewed + Window
          OBVIOUS
        <4>1. d \in InProgress' /\ d \in Checks
          BY <1>1, KeyTypes DEF Due, InProgress, Ended
        <4>2. now' <= time[d] + MaxDelay
          BY <1>1, <4>1 DEF Calls, Timely
        <4> QED  BY <1>1, <1>3, <4>1, <4>2, KeyTypes DEF Renewed
      <3>5. l \in Due
        BY <3>2, <3>3 DEF Due
      <3> QED  BY <2>3, <3>1, <3>4, <3>5, KeyTypes DEF KeyKept, Followed, Coming, Due
    <2>5. Lost => \E f \in lapsed' : pc'[f] = "failed"
      BY <1>1, <1>3, <2>1, KeyTypes DEF Lost, Renewed
    <2>6. Blamed'
      BY <1>1, <2>1, <2>4, <2>5 DEF Blamed, KeyKept
    <2> QED  BY <2>1, <2>2, <2>6 DEF KeyKept, Covered, Owed, Followed
  <1> QED  BY <1>2, <1>3

LEMMA KeyOther ==
  ASSUME TypeOK, TypeOK', Calls, strategy = "sliding", NEW c \in Checks,
         Check(c) \/ Fails(c), ~Purge(c), ~Add(c), ~Expire(c)
  PROVE  Uninvolved
  <1>0. /\ now \in Nat /\ counted \subseteq Checks
        /\ pc \in [Checks -> Phases] /\ time \in [Checks -> Times]
    BY KeyTypes DEF TypeOK
  <1>1. ~Increment(c) /\ ~GetBucket(c) /\ ~SetBucket(c)
    BY DEF Calls, Staged, Increment, GetBucket, SetBucket
  <1>2. counted \cap At({"new", "op", "begin", "purge", "count", "add"}) = {}
    BY DEF Calls, Past, At
  <1>3. /\ zset' = zset /\ zdies' = zdies /\ counted' = counted /\ lapsed' = lapsed
        /\ now' = now
    BY <1>1 DEF Check, Start, ChargeOperation, Begin, Count, RecordUsage, Reply,
                Fails, redis, sorted, history
  <1>4. \A d \in Checks : d # c => pc'[d] = pc[d] /\ time'[d] = time[d]
    BY <1>0, <1>1 DEF Check, Start, ChargeOperation, Begin, Count, RecordUsage, Reply,
                Fails, Goto
  <1>5. \/ time'[c] = time[c]
        \/ c \notin counted /\ time'[c] <= now'
    <2>1. CASE Start(c) \/ Begin(c)
      BY <1>0, <1>2, <1>3, <2>1 DEF Start, Begin, At
    <2>2. CASE ~Start(c) /\ ~Begin(c)
      BY <1>1, <2>2 DEF Check, ChargeOperation, Count, RecordUsage, Reply, Fails
    <2> QED  BY <2>1, <2>2
  <1>6. CASE Start(c) \/ Begin(c) \/ ChargeOperation(c) \/ Count(c)
    <2>1. /\ pc[c] \in {"new", "op", "begin", "count"}
          /\ \/ pc'[c] \in {"op", "begin", "opRefused", "refused", "purge", "incr", "get"}
             \/ Count(c) /\ pc'[c] = "add" /\ time'[c] = time[c]
      BY <1>0, <1>6, FirstStepStaged DEF Start, Begin, ChargeOperation, Count, Goto
    <2>2. Count(c) => pc[c] = "count"
      BY DEF Count
    <2> QED  BY <1>0, <1>3, <1>4, <1>5, <2>1, <2>2 DEF Uninvolved
  <1>7. CASE RecordUsage(c) \/ Reply(c)
    <2>1. /\ pc[c] \in {"record", "reply"} /\ pc'[c] \in {"reply", "granted"}
      BY <1>0, <1>7 DEF RecordUsage, Reply, Goto
    <2> QED  BY <1>0, <1>3, <1>4, <1>5, <2>1 DEF Uninvolved
  <1>8. CASE Fails(c)
    <2>1. pc'[c] = "failed"
      BY <1>0, <1>8 DEF Fails, Goto
    <2> QED  BY <1>0, <1>3, <1>4, <1>5, <2>1 DEF Uninvolved
  <1> QED  BY <1>1, <1>6, <1>7, <1>8 DEF Check

Key == (strategy = "sliding" /\ MaxDelay <= Ttl - Window) => KeyKept

LEMMA KeyStep ==
  TypeOK /\ TypeOK' /\ Calls /\ Calls' /\ Key /\ [Next]_vars => Key'
  <1> SUFFICES ASSUME TypeOK, TypeOK', Calls, Calls', Key, [Next]_vars,
                      strategy = "sliding", MaxDelay <= Ttl - Window
               PROVE  KeyKept'
    BY Fixed DEF Key
  <1>1. KeyKept
    BY DEF Key
  <1>2. Uninvolved => KeyKept'
    BY <1>1, UninvolvedStep
  <1>3. ASSUME NEW c \in Checks, Check(c) \/ Fails(c) PROVE KeyKept'
    BY <1>1, <1>2, <1>3, KeyPurge, KeyAdd, KeyExpire, KeyOther
  <1>4. ASSUME NEW w \in Workers, Restart(w) PROVE Uninvolved
    <2>1. /\ zset' = zset /\ zdies' = zdies /\ counted' = counted /\ lapsed' = lapsed
          /\ now' = now /\ time' = time
      BY <1>4 DEF Restart, redis, sorted, history
    <2>2. \A c \in Checks : pc'[c] = pc[c] \/ pc'[c] = "failed"
      BY <1>4, KeyTypes DEF Restart
    <2>3. now \in Nat
      BY KeyTypes
    <2> QED  BY <2>1, <2>2, <2>3 DEF Uninvolved
  <1>5. ASSUME NEW w \in Workers, NEW l \in Limits, UpdateLimits(w, l) PROVE Uninvolved
    <2>1. /\ zset' = zset /\ zdies' = zdies /\ counted' = counted /\ lapsed' = lapsed
          /\ now' = now /\ time' = time /\ pc' = pc
      BY <1>5 DEF UpdateLimits, redis, sorted
    <2>2. now \in Nat
      BY KeyTypes
    <2> QED  BY <2>1, <2>2 DEF Uninvolved
  <1>6. CASE Reset
    <2>1. /\ zdies' = 0 /\ lapsed' = {} /\ zset' = [t \in Times |-> 0]
          /\ now' = now /\ time' = time
      BY <1>6 DEF Reset, call
    <2> QED  BY <1>1, <2>1 DEF KeyKept, Clocks, Covered, Owed, Followed, Blamed
  <1>7. CASE Tick
    BY <1>1, <1>7, KeyTick
  <1>8. CASE UNCHANGED vars
    <2>1. /\ zset' = zset /\ zdies' = zdies /\ counted' = counted /\ lapsed' = lapsed
          /\ now' = now /\ time' = time /\ pc' = pc
      BY <1>8 DEF vars, redis, sorted, history
    <2>2. now \in Nat
      BY KeyTypes
    <2>3. Uninvolved
      BY <2>1, <2>2 DEF Uninvolved
    <2> QED  BY <1>2, <2>3
  <1> QED  BY <1>2, <1>3, <1>4, <1>5, <1>6, <1>7, <1>8 DEF Next

(* If no check takes the ten seconds between the minute and the life of the *)
(* key, the expiry takes an entry too early only together with that of a   *)
(* check that failed after it had added it.                                *)
THEOREM SlidingKeyOutlivesEntries == Spec => []LapseNeedsFailure
  <1>1. Init => Key
    <2> SUFFICES ASSUME Init PROVE KeyKept
      BY DEF Key
    <2>1. zdies = 0 /\ lapsed = {} /\ now = 0 /\ zset = [t \in Times |-> 0]
          /\ \A c \in Checks : time[c] = 0
      BY DEF Init
    <2> QED  BY <2>1 DEF KeyKept, Clocks, Covered, Owed, Followed, Blamed
  <1>2. TypeOK /\ Calls /\ Key /\ [Next]_vars => Key'
    BY TNext, CallsStep, KeyStep
  <1>3. Key => LapseNeedsFailure
    BY DEF Key, KeyKept, Blamed, LapseNeedsFailure
  <1> QED  BY <1>1, <1>2, <1>3, SlidingAlways, PTL DEF Spec

-----------------------------------------------------------------------------
(* The token bucket, for checks of which no two overlap                    *)

Drip(ticks) == ticks * HighestLimit
Price(S) == CostIn(S) * Window
Since(first) == {c \in counted : time[c] >= first}

FillsUp == \A l \in Limits : Full <= (2 * Window - MaxDelay) * l

\* The bucket bounds what was let through up to its last update, and a check
\* that is about to write it back what there will be then.
BucketKept ==
    /\ \A c \in counted : time[c] <= updated
    /\ \A c \in At({"get", "set"}) : updated <= time[c]
    /\ updated <= now
    /\ counted # {} => dies >= updated + 2 * Window
BucketBounds ==
    \A first \in Times :
        first <= updated => Price(Since(first)) + tokens <= Full + Drip(updated - first)
ChangeBounds ==
    \A c \in At({"set"}), first \in Times :
        first <= time[c] =>
            Price(Since(first)) + Cost(c) * Window + left[c] <= Full + Drip(time[c] - first)
PastBounds ==
    \A first \in Times : \A last \in first .. MaxTime :
        Price(CountedIn(first, last)) <= Full + Drip(last - first)

Bucket == BucketKept /\ BucketBounds /\ ChangeBounds /\ PastBounds

LEMMA Drips ==
  /\ Full \in Nat
  /\ \A d \in Int : Drip(d) \in Int
  /\ \A d \in Nat : Drip(d) \in Nat
  /\ \A d, e \in Int : Drip(d + e) = Drip(d) + Drip(e)
  /\ \A d, e \in Int : d <= e => Drip(d) <= Drip(e)
  /\ \A d \in Nat, l \in Limits : d * l <= Drip(d) /\ d * l \in Nat
  <1>1. HighestLimit \in Nat /\ \A l \in Limits : l \in Nat /\ l <= HighestLimit
    OBVIOUS
  <1>2. Full \in Nat
    BY DEF Full
  <1>3. \A d, h \in Int : d * h \in Int
    OBVIOUS
  <1>4. \A d, h \in Nat : d * h \in Nat
    OBVIOUS
  <1>5. \A d, e, h \in Int : (d + e) * h = d * h + e * h
    OBVIOUS
  <1>6. \A d, e \in Int, h \in Nat : d <= e => d * h <= e * h
    OBVIOUS
  <1>7. \A d, l, h \in Nat : l <= h => d * l <= d * h
    OBVIOUS
  <1> QED  BY <1>1, <1>2, <1>3, <1>4, <1>5, <1>6, <1>7 DEF Drip

LEMMA Prices ==
  ASSUME TypeOK
  PROVE  /\ \A S \in SUBSET Checks : Price(S) \in Nat
         /\ \A S, T \in SUBSET Checks : S \subseteq T => Price(S) <= Price(T)
         /\ \A S \in SUBSET Checks : \A c \in Checks \ S :
               Price(S \cup {c}) = Price(S) + Cost(c) * Window
         /\ \A c \in Checks : Cost(c) * Window \in Nat
         /\ Price({}) = 0
  <1>1. \A m, n \in Nat : m * n \in Nat
    OBVIOUS
  <1>2. \A k, m, n \in Nat : k <= m => k * n <= m * n
    OBVIOUS
  <1>3. \A k, m, n \in Nat : (k + m) * n = k * n + m * n
    OBVIOUS
  <1>4. \A S \in SUBSET Checks : CostIn(S) \in Nat
    BY CostsTyped
  <1>5. \A S, T \in SUBSET Checks : S \subseteq T => CostIn(S) <= CostIn(T)
    BY CostsTyped, SumMonotone DEF CostIn
  <1>6. \A c \in Checks : Cost(c) \in Nat
    BY CostTyped
  <1>7. ASSUME NEW S \in SUBSET Checks, NEW c \in Checks \ S
        PROVE  CostIn(S \cup {c}) = CostIn(S) + Cost(c)
    <2>1. IsFiniteSet(S) /\ \A d \in S \cup {c} : Costs[d] \in Nat
      BY CostsTyped
    <2>2. Costs[c] = Cost(c)
      BY DEF Costs
    <2> QED  BY <2>1, <2>2, SumAdd DEF CostIn
  <1>8. CostIn({}) = 0
    BY SumEmpty DEF CostIn
  <1>9. Window \in Nat
    OBVIOUS
  <1> HIDE DEF CostIn
  <1>10. \A S \in SUBSET Checks : Price(S) \in Nat
    BY <1>1, <1>4, <1>9 DEF Price
  <1>11. \A S, T \in SUBSET Checks : S \subseteq T => Price(S) <= Price(T)
    BY <1>2, <1>4, <1>5, <1>9 DEF Price
  <1>12. \A S \in SUBSET Checks : \A c \in Checks \ S :
            Price(S \cup {c}) = Price(S) + Cost(c) * Window
    <2> SUFFICES ASSUME NEW S \in SUBSET Checks, NEW c \in Checks \ S
                 PROVE  Price(S \cup {c}) = Price(S) + Cost(c) * Window
      OBVIOUS
    <2> DEFINE m == CostIn(S)
               n == Cost(c)
    <2>1. CostIn(S \cup {c}) = m + n
      BY <1>7
    <2>2. m \in Nat /\ n \in Nat
      BY <1>4, <1>6
    <2> HIDE DEF m, n
    <2>3. (m + n) * Window = m * Window + n * Window
      BY <1>3, <1>9, <2>2
    <2> QED  BY <2>1, <2>3 DEF Price, m, n
  <1>13. \A c \in Checks : Cost(c) * Window \in Nat
    BY <1>1, <1>6, <1>9
  <1>14. Price({}) = 0
    BY <1>8, <1>9 DEF Price
  <1> QED  BY <1>10, <1>11, <1>12, <1>13, <1>14

\* Steps that leave the bucket alone, or forget what was let through.
Idle ==
    /\ counted' \subseteq counted
    /\ tokens' = tokens /\ updated' = updated /\ now <= now'
    /\ counted' # {} => dies' = dies
    /\ \A c \in counted' : time'[c] = time[c]
    /\ \A c \in Checks :
          /\ pc'[c] = "set" => pc[c] = "set" /\ time'[c] = time[c] /\ left'[c] = left[c]
          /\ pc'[c] = "get" => \/ pc[c] = "get" /\ time'[c] = time[c]
                               \/ time'[c] = now'

LEMMA IdleStep ==
  ASSUME TypeOK, TypeOK', [Next]_vars, Bucket, Idle PROVE Bucket'
  <1>1. /\ counted \in SUBSET Checks /\ counted' \in SUBSET Checks
        /\ updated \in Nat /\ now \in Nat /\ now' \in Nat /\ tokens \in Nat
        /\ \A c \in Checks : time[c] \in Nat /\ time'[c] \in Nat /\ left[c] \in Nat
    <2>1. Times \subseteq Nat
      BY DEF Times
    <2> QED  BY <2>1 DEF TypeOK
  <1>2. Costs' = Costs /\ \A c \in Checks : Cost(c)' = Cost(c)
    BY CostsFixed, Fixed DEF Cost
  <1>3. \A S \in SUBSET Checks : Price(S)' = Price(S)
    BY <1>2 DEF Price, CostIn
  <1>4. BucketKept'
    BY <1>1 DEF Bucket, BucketKept, Idle, At
  <1>5. ASSUME NEW first \in Times
        PROVE  /\ Price(Since(first))' \in Nat /\ Price(Since(first)) \in Nat
               /\ Price(Since(first))' <= Price(Since(first))
    <2>1. /\ Since(first)' \subseteq Since(first)
          /\ Since(first)' \in SUBSET Checks /\ Since(first) \in SUBSET Checks
      BY <1>1 DEF Since, Idle
    <2> HIDE DEF Since
    <2>2. Price(Since(first))' = Price(Since(first)')
      BY <1>2 DEF Price, CostIn
    <2> QED  BY <2>1, <2>2, Prices
  <1>6. BucketBounds'
    <2> SUFFICES ASSUME NEW first \in Times, first <= updated
                 PROVE  Price(Since(first))' + tokens <= Full + Drip(updated - first)
      BY DEF BucketBounds, Idle
    <2>1. Price(Since(first)) + tokens <= Full + Drip(updated - first)
      BY DEF Bucket, BucketBounds
    <2>2. Drip(updated - first) \in Int /\ Full \in Nat
      BY <1>1, Drips DEF Times
    <2> QED  BY <1>1, <1>5, <2>1, <2>2
  <1>7. ChangeBounds'
    <2> SUFFICES ASSUME NEW c \in Checks, pc'[c] = "set", NEW first \in Times, first <= time'[c]
                 PROVE  Price(Since(first))' + Cost(c)' * Window + left'[c]
                           <= Full + Drip(time'[c] - first)
      BY DEF ChangeBounds, At
    <2>1. /\ pc[c] = "set" /\ time'[c] = time[c] /\ left'[c] = left[c]
          /\ Cost(c)' = Cost(c)
      BY <1>2 DEF Idle
    <2>2. Price(Since(first)) + Cost(c) * Window + left[c] <= Full + Drip(time[c] - first)
      BY <2>1 DEF Bucket, ChangeBounds, At
    <2>3. Drip(time[c] - first) \in Int /\ Full \in Nat /\ Cost(c) * Window \in Nat
      <3>1. time[c] - first \in Int /\ Cost(c) * Window \in Nat
        BY <1>1, Prices DEF Times
      <3> QED  BY <3>1, Drips
    <2> HIDE DEF Cost
    <2> QED  BY <1>1, <1>5, <2>1, <2>2, <2>3
  <1>8. PastBounds'
    <2> SUFFICES ASSUME NEW first \in Times, NEW last \in first .. MaxTime
                 PROVE  Price(CountedIn(first, last))' <= Full + Drip(last - first)
      BY DEF PastBounds
    <2>1. Price(CountedIn(first, last)) <= Full + Drip(last - first)
      BY DEF Bucket, PastBounds
    <2>2. /\ CountedIn(first, last)' \subseteq CountedIn(first, last)
          /\ CountedIn(first, last)' \in SUBSET Checks /\ CountedIn(first, last) \in SUBSET Checks
      BY <1>1 DEF CountedIn, Idle
    <2> HIDE DEF CountedIn
    <2>3. Price(CountedIn(first, last))' = Price(CountedIn(first, last)')
      BY <1>2 DEF Price, CostIn
    <2>4. Drip(last - first) \in Int /\ Full \in Nat
      BY Drips DEF Times
    <2> QED  BY <2>1, <2>2, <2>3, <2>4, Prices
  <1> QED  BY <1>4, <1>6, <1>7, <1>8 DEF Bucket

\* Only reading the bucket and writing it back are not idle.
LEMMA IdleCheck ==
  ASSUME TypeOK, Calls, NEW c \in Checks, strategy = "token",
         Check(c) \/ Fails(c), ~GetBucket(c), ~SetBucket(c)
  PROVE  Idle
  <1>1. ~Purge(c) /\ ~Count(c) /\ ~Add(c) /\ ~Expire(c) /\ ~Increment(c)
    BY DEF Calls, Staged, Purge, Count, Add, Expire, Increment
  <1>2. counted \cap At({"new", "op", "begin", "get", "set"}) = {}
    BY DEF Calls, Past, At, Ended
  <1>3. /\ now \in Nat /\ counted \subseteq Checks
        /\ pc \in [Checks -> Phases] /\ time \in [Checks -> Times]
    <2>1. now \in Times /\ counted \subseteq Checks
          /\ pc \in [Checks -> Phases] /\ time \in [Checks -> Times]
      BY DEF TypeOK
    <2>2. Times \subseteq Nat
      BY DEF Times
    <2> QED  BY <2>1, <2>2
  <1>4. /\ counted' = counted /\ now' = now /\ left' = left
        /\ tokens' = tokens /\ updated' = updated /\ dies' = dies
    BY <1>1 DEF Check, Start, ChargeOperation, Begin, RecordUsage, Reply,
                Fails, redis, sorted, bucket, history
  <1>5. \A d \in Checks : d # c => pc'[d] = pc[d] /\ time'[d] = time[d]
    BY <1>1, <1>3 DEF Check, Start, ChargeOperation, Begin, RecordUsage, Reply, Fails, Goto
  <1>6. CASE Start(c) \/ Begin(c)
    <2>1. c \notin counted
      BY <1>2, <1>6 DEF Start, Begin, At
    <2>2. time'[c] = now' /\ pc'[c] # "set"
      BY <1>3, <1>4, <1>6, FirstStepStaged DEF Start, Begin, Goto
    <2> QED  BY <1>3, <1>4, <1>5, <2>1, <2>2 DEF Idle
  <1>7. CASE ~Start(c) /\ ~Begin(c)
    <2>1. time' = time /\ pc'[c] \notin {"get", "set"}
      BY <1>1, <1>3, <1>7 DEF Check, ChargeOperation, RecordUsage, Reply, Fails, Goto
    <2> QED  BY <1>3, <1>4, <1>5, <2>1 DEF Idle
  <1> QED  BY <1>6, <1>7

LEMMA IdleOther ==
  ASSUME TypeOK,
         \/ \E w \in Workers : Restart(w) \/ \E l \in Limits : UpdateLimits(w, l)
         \/ Reset \/ Tick \/ UNCHANGED vars
  PROVE  Idle
  <1>1. now \in Nat
    BY DEF TypeOK, Times
  <1>2. ASSUME NEW w \in Workers, Restart(w) PROVE Idle
    <2>1. /\ counted' = counted /\ now' = now /\ left' = left /\ time' = time
          /\ tokens' = tokens /\ updated' = updated /\ dies' = dies
      BY <1>2 DEF Restart, redis, sorted, bucket, history
    <2>2. \A c \in Checks : pc'[c] \in {"get", "set"} => pc'[c] = pc[c]
      BY <1>2 DEF Restart, TypeOK
    <2> QED  BY <1>1, <2>1, <2>2 DEF Idle
  <1>3. CASE Reset
    BY <1>1, <1>3 DEF Reset, Idle
  <1>4. CASE Tick
    BY <1>1, <1>4 DEF Tick, Idle, redis, sorted, bucket, history
  <1>5. CASE (\E w \in Workers, l \in Limits : UpdateLimits(w, l)) \/ UNCHANGED vars
    <2>1. /\ counted' = counted /\ now' = now /\ left' = left /\ time' = time /\ pc' = pc
          /\ tokens' = tokens /\ updated' = updated /\ dies' = dies
      BY <1>5 DEF UpdateLimits, vars, redis, sorted, bucket, history
    <2> QED  BY <1>1, <2>1 DEF Idle
  <1> QED  BY <1>2, <1>3, <1>4, <1>5

\* If no two checks ever overlapped, a check in progress is alone.
LEMMA Alone ==
  ASSUME TypeOK, Calls, peak = 1, NEW c \in InProgress, NEW d \in InProgress
  PROVE  c = d
  <1>1. InProgress \in SUBSET Checks /\ ({c} \cup {d}) \in SUBSET InProgress
    BY DEF InProgress
  <1>2. IsFiniteSet(InProgress)
    BY <1>1, FS_Subset
  <1>3. Cardinality({c} \cup {d}) <= Cardinality(InProgress)
    BY <1>1, <1>2, FS_Subset
  <1>4. c # d => Cardinality({c} \cup {d}) = 2
    <2> SUFFICES ASSUME c # d PROVE Cardinality({c} \cup {d}) = 2
      OBVIOUS
    <2>1. IsFiniteSet({c}) /\ Cardinality({c}) = 1
      BY FS_Singleton
    <2>2. d \notin {c}
      OBVIOUS
    <2>3. Cardinality({c} \cup {d}) = 1 + 1
      BY <2>1, <2>2, FS_AddElement
    <2> QED  BY <2>3
  <1>5. Cardinality(InProgress) <= 1
    BY DEF Calls, PeakSeen
  <1> QED  BY <1>3, <1>4, <1>5, InProgressCounts

\* What a check finds: never more than a full bucket, nor than has dripped
\* into it since its last update, unless nothing was let through.
LEMMA LevelBounds ==
  ASSUME TypeOK, Calls, FillsUp, BucketKept, NEW c \in Checks, pc[c] = "get"
  PROVE  /\ Refilled(time[c], limit[c]) \in Int
         /\ Refilled(time[c], limit[c]) <= Full
         /\ counted # {} => Refilled(time[c], limit[c]) <= tokens + Drip(time[c] - updated)
  <1> DEFINE since == time[c] - updated
             level == tokens + since * limit[c]
             gap == 2 * Window - MaxDelay
  <1>1. /\ tokens \in Nat /\ updated \in Nat /\ time[c] \in Nat /\ limit[c] \in Limits
        /\ now \in Nat /\ dies \in Nat
    BY DEF TypeOK, Times
  <1>2. c \in InProgress /\ updated <= time[c]
    BY DEF At, InProgress, Ended, BucketKept
  <1>3. since \in Nat /\ now <= time[c] + MaxDelay
    BY <1>1, <1>2 DEF Calls, Timely
  <1>4. /\ since * limit[c] <= Drip(since) /\ since * limit[c] \in Nat
        /\ Drip(since) \in Nat /\ Full \in Nat
    BY <1>1, <1>3, Drips
  <1>5. ASSUME now >= dies, counted # {} PROVE Full <= Drip(since)
    <2>1. dies >= updated + 2 * Window
      BY <1>5 DEF BucketKept
    <2>2. gap <= since /\ gap \in Int
      BY <1>1, <1>3, <1>5, <2>1
    <2>3. Full <= gap * limit[c]
      BY <1>1 DEF FillsUp
    <2>4. \A d, e \in Int, l \in Nat : (d <= e => d * l <= e * l) /\ d * l \in Int
      OBVIOUS
    <2> HIDE DEF gap, since
    <2>5. limit[c] \in Nat /\ gap * limit[c] \in Int
      BY <1>1, <2>2, <2>4
    <2>6. gap * limit[c] <= since * limit[c]
      BY <1>3, <2>2, <2>4, <2>5
    <2> QED  BY <1>4, <2>3, <2>5, <2>6
  <1>6. Refilled(time[c], limit[c]) = IF now >= dies \/ level > Full THEN Full ELSE level
    BY DEF Refilled
  <1>7. level \in Nat /\ level <= tokens + Drip(since)
    BY <1>1, <1>4
  <1>8. Full > level \/ Full <= tokens + Drip(since) \/ now >= dies
    BY <1>1, <1>4, <1>7
  <1> HIDE DEF level, since
  <1>9. CASE now >= dies
    BY <1>1, <1>4, <1>5, <1>6, <1>9 DEF since
  <1>10. CASE ~(now >= dies)
    BY <1>1, <1>4, <1>6, <1>7, <1>10 DEF since
  <1> QED  BY <1>9, <1>10

LEMMA GetStep ==
  ASSUME TypeOK, Calls, FillsUp, Bucket, NEW c \in Checks, GetBucket(c)
  PROVE  Bucket'
  <1> DEFINE level == Refilled(time[c], limit[c])
             price == Cost(c) * Window
  <1>1. /\ counted' = counted /\ tokens' = tokens /\ updated' = updated /\ dies' = dies
        /\ now' = now /\ time' = time /\ kind' = kind /\ pc[c] = "get"
        /\ \/ pc' = [pc EXCEPT ![c] = "refused"] /\ left' = left
           \/ /\ pc' = [pc EXCEPT ![c] = "set"]
              /\ left' = [left EXCEPT ![c] = level - price]
    BY DEF GetBucket, Goto, redis, sorted, bucket, call, history
  <1>2. \A S : Price(S)' = Price(S)
    BY <1>1 DEF Price, CostIn, Costs, Cost
  <1>3. \A first : Since(first)' = Since(first)
    BY <1>1 DEF Since
  <1>4. BucketKept'
    <2>1. \A d \in Checks : pc'[d] \in {"get", "set"} => pc[d] \in {"get", "set"}
      BY <1>1 DEF TypeOK
    <2> QED  BY <1>1, <2>1 DEF Bucket, BucketKept, At
  <1>5. BucketBounds'
    BY <1>1, <1>2, <1>3 DEF Bucket, BucketBounds
  <1>6. PastBounds'
    <2>1. \A first, last : CountedIn(first, last)' = CountedIn(first, last)
      BY <1>1 DEF CountedIn
    <2> QED  BY <1>2, <2>1 DEF Bucket, PastBounds
  <1>7. ChangeBounds'
    <2> SUFFICES ASSUME NEW d \in Checks, pc'[d] = "set", NEW first \in Times, first <= time[d]
                 PROVE  Price(Since(first)) + Cost(d) * Window + left'[d]
                           <= Full + Drip(time[d] - first)
      BY <1>1, <1>2, <1>3 DEF ChangeBounds, At, Cost
    <2>1. CASE d # c
      <3>1. pc[d] = "set" /\ left'[d] = left[d]
        BY <1>1, <2>1 DEF TypeOK
      <3> QED  BY <3>1 DEF Bucket, ChangeBounds, At
    <2>2. CASE d = c
      <3>1. left'[c] = level - price
        BY <1>1, <2>2 DEF TypeOK
      <3>2. /\ level \in Int /\ level <= Full
            /\ counted # {} => level <= tokens + Drip(time[c] - updated)
        BY <1>1, LevelBounds DEF Bucket
      <3>3. price \in Nat
        BY Prices
      <3>4. Since(first) \in SUBSET Checks
        BY DEF Since, TypeOK
      <3>5. /\ tokens \in Nat /\ updated \in Nat /\ time[c] \in Nat /\ first \in Nat
            /\ updated <= time[c] /\ Full \in Nat
        BY <1>1, Drips DEF TypeOK, Times, Bucket, BucketKept, At
      <3>6. /\ Price(Since(first)) \in Nat
            /\ Since(first) = {} => Price(Since(first)) = 0
        BY <3>4, Prices
      <3>7. Drip(time[c] - first) \in Nat
        <4>1. time[c] - first \in Nat
          BY <2>2, <3>5
        <4> QED  BY <4>1, Drips
      <3> HIDE DEF level, price
      <3>8. Price(Since(first)) + level <= Full + Drip(time[c] - first)
        <4>1. CASE Since(first) = {}
          BY <3>2, <3>5, <3>6, <3>7, <4>1
        <4>2. CASE Since(first) # {}
          <5>1. PICK e \in counted : time[e] >= first
            BY <4>2 DEF Since
          <5>2. first <= updated
            <6>1. time[e] <= updated /\ time[e] \in Nat
              BY <5>1 DEF Bucket, BucketKept, TypeOK, Times
            <6> QED  BY <3>5, <5>1, <6>1
          <5>3. Price(Since(first)) + tokens <= Full + Drip(updated - first)
            BY <5>2 DEF Bucket, BucketBounds
          <5>4. time[c] - first = (time[c] - updated) + (updated - first)
                /\ time[c] - updated \in Int /\ updated - first \in Int
            BY <3>5
          <5>5. /\ Drip(time[c] - first) = Drip(time[c] - updated) + Drip(updated - first)
                /\ Drip(time[c] - updated) \in Int /\ Drip(updated - first) \in Int
            BY <5>4, Drips
          <5> QED  BY <3>2, <3>5, <3>6, <5>1, <5>3, <5>5
        <4> QED  BY <4>1, <4>2
      <3>9. Price(Since(first)) + price + left'[c] <= Full + Drip(time[c] - first)
        BY <3>1, <3>2, <3>3, <3>5, <3>6, <3>7, <3>8
      <3> QED  BY <2>2, <3>9 DEF price
    <2> QED  BY <2>1, <2>2
  <1> QED  BY <1>4, <1>5, <1>6, <1>7 DEF Bucket

LEMMA SetStep ==
  ASSUME TypeOK, TypeOK', Calls, peak = 1, Bucket, NEW c \in Checks, SetBucket(c)
  PROVE  Bucket'
  <1> DEFINE price == Cost(c) * Window
  <1>1. /\ counted' = counted \cup {c} /\ tokens' = left[c] /\ updated' = time[c]
        /\ dies' = now + 2 * Window /\ now' = now /\ time' = time /\ kind' = kind
        /\ pc[c] = "set" /\ pc' = [pc EXCEPT ![c] = "record"] /\ left' = left
    BY DEF SetBucket, Goto, call
  <1>2. c \in InProgress /\ c \notin counted
    BY <1>1 DEF InProgress, Ended, Calls, Past, At
  <1>3. /\ \A d \in counted' : d \in Checks /\ time[d] \in Nat
        /\ updated \in Nat /\ time[c] \in Nat /\ now \in Nat /\ left[c] \in Nat
        /\ time[c] \in Times /\ counted \in SUBSET Checks
    <2>1. Times \subseteq Nat
      BY DEF Times
    <2>2. /\ counted \in SUBSET Checks /\ time \in [Checks -> Times]
          /\ updated \in Times /\ now \in Times /\ left[c] \in Nat
      BY DEF TypeOK
    <2> QED  BY <1>1, <2>1, <2>2
  <1>4. updated <= time[c] /\ time[c] <= now /\ \A d \in counted : time[d] <= updated
    BY <1>1, <1>2 DEF Bucket, BucketKept, At, Calls, Timely
  <1>5. \A d \in Checks : pc'[d] \notin {"get", "set"}
    <2> SUFFICES ASSUME NEW d \in Checks, pc'[d] \in {"get", "set"} PROVE FALSE
      OBVIOUS
    <2>1. d # c /\ pc[d] \in {"get", "set"}
      BY <1>1 DEF TypeOK
    <2>2. d \in InProgress
      BY <2>1 DEF InProgress, Ended
    <2> QED  BY <1>2, <2>1, <2>2, Alone
  <1>6. BucketKept'
    <2>1. \A d \in counted' : time'[d] <= updated'
      BY <1>1, <1>3, <1>4
    <2>2. dies' >= updated' + 2 * Window /\ updated' <= now'
      BY <1>1, <1>3, <1>4
    <2> QED  BY <1>5, <2>1, <2>2 DEF BucketKept, At
  <1>7. ChangeBounds'
    BY <1>5 DEF ChangeBounds, At
  <1>8. \A S : Price(S)' = Price(S)
    BY <1>1 DEF Price, CostIn, Costs, Cost
  <1>9. price \in Nat /\ Full \in Nat
    BY Prices, Drips
  <1>10. ASSUME NEW first \in Times, first <= time[c]
         PROVE  /\ Price(Since(first)') \in Nat
                /\ Price(Since(first)') + left[c] <= Full + Drip(time[c] - first)
    <2>1. /\ Since(first)' = Since(first) \cup {c}
          /\ Since(first) \in SUBSET Checks /\ c \in Checks \ Since(first)
      BY <1>1, <1>2, <1>3, <1>10 DEF Since
    <2>2. Price(Since(first)') = Price(Since(first)) + price /\ Price(Since(first)) \in Nat
      BY <2>1, Prices
    <2>3. Price(Since(first)) + price + left[c] <= Full + Drip(time[c] - first)
      BY <1>1, <1>10 DEF Bucket, ChangeBounds, At
    <2> HIDE DEF price
    <2> QED  BY <1>3, <1>9, <2>2, <2>3
  <1>11. BucketBounds'
    BY <1>1, <1>8, <1>10 DEF BucketBounds
  <1>12. PastBounds'
    <2> SUFFICES ASSUME NEW first \in Times, NEW last \in first .. MaxTime
                 PROVE  Price(CountedIn(first, last)') <= Full + Drip(last - first)
      BY <1>8 DEF PastBounds
    <2>1. CASE time[c] \notin first .. last
      <3>1. CountedIn(first, last)' = CountedIn(first, last)
        BY <1>1, <2>1 DEF CountedIn
      <3> QED  BY <3>1 DEF Bucket, PastBounds
    <2>2. CASE time[c] \in first .. last
      <3>1. /\ CountedIn(first, last)' \subseteq Since(first)'
            /\ Since(first)' \in SUBSET Checks /\ CountedIn(first, last)' \in SUBSET Checks
        <4>1. first \in Nat /\ last \in Nat
          BY DEF Times
        <4> QED  BY <1>1, <1>3, <4>1 DEF CountedIn, Since
      <3>2. Price(CountedIn(first, last)') <= Price(Since(first)')
            /\ Price(CountedIn(first, last)') \in Nat
        BY <3>1, Prices
      <3>3. first \in Nat /\ last \in Nat /\ first <= time[c] /\ time[c] <= last
        BY <1>3, <2>2 DEF Times
      <3>4. /\ Drip(time[c] - first) <= Drip(last - first)
            /\ Drip(time[c] - first) \in Int /\ Drip(last - first) \in Int
        <4>1. time[c] - first \in Int /\ last - first \in Int /\ time[c] - first <= last - first
          BY <1>3, <3>3
        <4> QED  BY <4>1, Drips
      <3> QED  BY <1>3, <1>9, <1>10, <3>2, <3>3, <3>4
    <2> QED  BY <2>1, <2>2
  <1> QED  BY <1>6, <1>7, <1>11, <1>12 DEF Bucket

Alternating == (strategy = "token" /\ peak = 1 /\ FillsUp) => Bucket

\* The most checks ever in progress at one time is never forgotten.
LEMMA PeakGrows == ASSUME TypeOK, [Next]_vars PROVE peak' = 1 => peak = 1
  <1>1. peak \in Nat \ {0}
    BY DEF TypeOK
  <1>2. ASSUME NEW c \in Checks, Check(c) \/ Fails(c) PROVE peak' = peak \/ Start(c)
    BY <1>2 DEF Check, ChargeOperation, Begin, Purge, Count, Add, Expire, Increment,
                GetBucket, SetBucket, RecordUsage, Reply, Fails, history
  <1>3. ASSUME NEW c \in Checks, Start(c) PROVE peak' = 1 => peak = 1
    BY <1>1, <1>3, InProgressCounts DEF Start
  <1>4. \/ \E w \in Workers : Restart(w) \/ \E l \in Limits : UpdateLimits(w, l)
        \/ Reset \/ Tick \/ UNCHANGED vars
        => peak' = peak
    BY DEF Restart, UpdateLimits, Reset, Tick, vars, history
  <1> QED  BY <1>2, <1>3, <1>4 DEF Next

LEMMA AlternatingStep ==
  TypeOK /\ TypeOK' /\ Calls /\ Alternating /\ [Next]_vars => Alternating'
  <1> SUFFICES ASSUME TypeOK, TypeOK', Calls, Alternating, [Next]_vars,
                      strategy = "token", peak = 1, FillsUp
               PROVE  Bucket'
    BY Fixed, PeakGrows DEF Alternating, FillsUp
  <1>1. Bucket
    BY DEF Alternating
  <1>2. Idle => Bucket'
    BY <1>1, IdleStep
  <1>3. ASSUME NEW c \in Checks, Check(c) \/ Fails(c) PROVE Bucket'
    BY <1>1, <1>2, <1>3, IdleCheck, GetStep, SetStep
  <1> QED  BY <1>2, <1>3, IdleOther DEF Next

LEMMA AlternatingInit == Init => Alternating
  <1> SUFFICES ASSUME Init PROVE Bucket
    BY DEF Alternating
  <1>1. /\ counted = {} /\ tokens = 0 /\ updated = 0 /\ now = 0
        /\ \A c \in Checks : pc[c] = "new"
    BY DEF Init
  <1>2. Price({}) = 0
    BY TInit, Prices
  <1>3. BucketKept /\ ChangeBounds
    BY <1>1 DEF BucketKept, ChangeBounds, At
  <1>4. BucketBounds
    <2> SUFFICES ASSUME NEW first \in Times, first <= 0
                 PROVE  Price({}) + 0 <= Full + Drip(0 - first)
      BY <1>1 DEF BucketBounds, Since
    <2>1. 0 - first \in Nat
      BY DEF Times
    <2>2. Drip(0 - first) \in Nat /\ Full \in Nat
      BY <2>1, Drips
    <2> QED  BY <1>2, <2>2
  <1>5. PastBounds
    <2> SUFFICES ASSUME NEW first \in Times, NEW last \in first .. MaxTime
                 PROVE  Price({}) <= Full + Drip(last - first)
      BY <1>1 DEF PastBounds, CountedIn
    <2>1. last - first \in Nat
      BY DEF Times
    <2>2. Drip(last - first) \in Nat /\ Full \in Nat
      BY <2>1, Drips
    <2> QED  BY <1>2, <2>2
  <1> QED  BY <1>3, <1>4, <1>5 DEF Bucket

(* If no two checks overlapped, and a bucket fills up before it is          *)
(* forgotten, what the token bucket lets through between any two ticks is    *)
(* at most a full bucket and what dripped in since.                          *)
THEOREM TokenBucketIsExact == Spec => []TokenBucketExact
  <1>1. TypeOK /\ Alternating => TokenBucketExact
    <2> SUFFICES ASSUME TypeOK, Bucket, NEW first \in Times, NEW last \in first .. MaxTime
                 PROVE  CostOfAll(CountedIn(first, last)) * Window
                           <= Full + (last - first) * HighestLimit
      BY DEF Alternating, FillsUp, TokenBucketExact
    <2>1. CountedIn(first, last) \in SUBSET Checks
      BY DEF CountedIn, TypeOK
    <2>2. CostOfAll(CountedIn(first, last)) = CostIn(CountedIn(first, last))
      BY <2>1, CostsTyped
    <2>3. Price(CountedIn(first, last)) <= Full + Drip(last - first)
      BY DEF Bucket, PastBounds
    <2> QED  BY <2>2, <2>3 DEF Price, Drip
  <1>2. TypeOK /\ Calls /\ Alternating /\ [Next]_vars => (TypeOK /\ Calls /\ Alternating)'
    BY TNext, CallsStep, AlternatingStep
  <1> QED  BY <1>1, <1>2, TInit, CallsInit, AlternatingInit, PTL DEF Spec

=============================================================================
