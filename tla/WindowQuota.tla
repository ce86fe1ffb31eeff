---------------------------- MODULE WindowQuota ----------------------------
(***************************************************************************)
(* What a fixed-window limit promises, apart from how it is counted: in    *)
(* each window the cost of the calls that are let through never passes     *)
(* Cap, whoever makes them and in whatever order.  An administrator may    *)
(* start all windows afresh.  RateLimiter is shown to implement it.        *)
(***************************************************************************)
EXTENDS Naturals

CONSTANTS Windows, Cap

VARIABLE used    \* cost let through, by window

Init == used = [w \in Windows |-> 0]

Grant(w, cost) ==
    /\ used[w] + cost <= Cap
    /\ used' = [used EXCEPT ![w] = @ + cost]

Forget == used' = [w \in Windows |-> 0]

Next == Forget \/ \E w \in Windows, cost \in 1 .. Cap : Grant(w, cost)

Spec == Init /\ [][Next]_used

=============================================================================
