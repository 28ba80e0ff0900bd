------------------------------- MODULE MCGuardian -------------------------------
(* A TLC instance of Guardian: one administrator and one other person, every   *)
(* failure.                                                                  *)
EXTENDS Guardian

AllFaults == {"save", "apply", "boot"}
===============================================================================
