------------------------------- MODULE MCUpdates -------------------------------
(* A TLC instance of Updates: one channel, one pull request's build.           *)
EXTENDS Updates
===============================================================================
