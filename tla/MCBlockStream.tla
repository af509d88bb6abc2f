--------------------------- MODULE MCBlockStream ----------------------------
(* Small ranges and queues. *)
EXTENDS BlockStream
=============================================================================
