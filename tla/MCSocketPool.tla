---------------------------- MODULE MCSocketPool ----------------------------
(* Two workers, one or two senders. *)
EXTENDS SocketPool, TLC

CONSTANTS w1, w2, s1, s2

MCConnected == <<w1, w2>>

MCSymmetry == Permutations({s1, s2})

=============================================================================
