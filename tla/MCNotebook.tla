---------------------------- MODULE MCNotebook ----------------------------
(* The notebook for TLC. *)
EXTENDS Repl
=============================================================================
