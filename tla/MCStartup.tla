----------------------------- MODULE MCStartup ------------------------------
(* Few workers. *)
EXTENDS Startup
=============================================================================
