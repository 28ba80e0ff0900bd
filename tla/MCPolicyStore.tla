----------------------------- MODULE MCPolicyStore -----------------------------
(* A TLC instance of PolicyStore: failures before the policy file is replaced. *)
EXTENDS PolicyStore

EarlyFaults == {"save", "unit"}
===============================================================================
