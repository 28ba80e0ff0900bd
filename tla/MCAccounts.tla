------------------------------- MODULE MCAccounts -------------------------------
(* A TLC instance of Accounts: every failure, two groups, one of them under   *)
(* the name a Hebrew label is given.                                         *)
EXTENDS Accounts, TLC

AllFaults == FaultKinds
UserSymmetry == Permutations(Users)
TwoKinds == {[web |-> "strict", apps |-> "none"], [web |-> "floor", apps |-> "installs"]}
Floor == [web |-> "floor", apps |-> "installs"]
===============================================================================
