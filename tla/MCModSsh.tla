------------------------------ MODULE MCModSsh ------------------------------
(* Two attempts, four threads.                                             *)
EXTENDS ModSsh

\* Once both histories are set every property holds by its own condition:
\* nothing is left to check from there on.
SomethingToCheck == ~(overlap /\ mixed)

=============================================================================
