--------------------------- MODULE MCTransferJobs ---------------------------
(* Instances of TransferJobs for TLC. *)
EXTENDS TransferJobs

\* No rows, rows of every sort, more good rows than a batch holds, a file
\* that is not UTF-8.
SmallFiles ==
    {[good |-> 0, wrong |-> 0, junk |-> 0, text |-> TRUE],
     [good |-> 0, wrong |-> 0, junk |-> 1, text |-> TRUE],
     [good |-> 3, wrong |-> 1, junk |-> 1, text |-> TRUE],
     [good |-> 2, wrong |-> 0, junk |-> 0, text |-> TRUE],
     [good |-> 1, wrong |-> 0, junk |-> 0, text |-> FALSE]}

=============================================================================
