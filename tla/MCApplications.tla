-------------------------- MODULE MCApplications --------------------------
(* A game the shelf decides about, and an app the rating decides about. *)
EXTENDS Applications
=============================================================================
