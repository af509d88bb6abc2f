----------------------------- MODULE MCFutures ------------------------------
(* Batches of a few requests. *)
EXTENDS Futures
=============================================================================
