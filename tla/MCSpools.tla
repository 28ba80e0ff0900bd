------------------------------- MODULE MCSpools -------------------------------
(* A TLC instance of Spools: one thread of the search service. *)
EXTENDS Spools
=============================================================================
