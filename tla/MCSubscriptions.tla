-------------------------- MODULE MCSubscriptions ---------------------------
(* Two streams, one with two notifications.  The nodes are alike, so the   *)
(* request of one stream may as well go to the first.                      *)
EXTENDS Subscriptions

CONSTANTS s1, s2, n1

MCReach == [s \in Streams |-> IF s = s1 THEN {n1} ELSE Nodes]

MCEvents == [s \in Streams |-> IF s = s1 THEN 2 ELSE 1]
=============================================================================
