--------------------------- MODULE MCRateLimiter ---------------------------
(* Instances of RateLimiter for TLC.  A minute is two ticks.               *)
EXTENDS RateLimiter, TLC

\* Operations as main.py and the service configure them, scaled down where
\* the instance only needs their order: "search" costs 1, "create" more.
UnitCost == [k \in Kinds |-> 1]
TwoCosts == [k \in Kinds |-> IF k = "create" THEN 2 ELSE 1]
NoOperationLimit == [k \in {} |-> 0]
CreateLimit == [k \in {"create"} |-> 2]

\* Costs and limits of import and search as they are in the code.
RealCosts == [k \in Kinds |-> IF k = "import" THEN 50 ELSE 1]
RealLimits == [k \in {"import", "search"} |-> IF k = "import" THEN 5 ELSE 100]

RateLimiterSymmetry == Permutations(Checks) \cup Permutations(Workers)

=============================================================================
