------------------------- MODULE MCTransactionStream ------------------------
(* Small lists and queues. *)
EXTENDS TransactionStream
=============================================================================
