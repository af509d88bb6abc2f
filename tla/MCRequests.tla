----------------------------- MODULE MCRequests -----------------------------
(* Small instances of Requests: two single calls and a batch of two.       *)
EXTENDS Requests, TLC

CONSTANTS a, b, m

MCSize == [c \in Calls |-> IF c = m THEN 2 ELSE 1]

MCSymmetry == Permutations({a, b})

=============================================================================
