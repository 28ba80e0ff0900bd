------------------------------ MODULE MCTimekeeper ------------------------------
(* A TLC instance of Timekeeper: a budget larger than the first warning, hours  *)
(* that end in the day, hours over midnight.                                  *)
EXTENDS Timekeeper

TwoWarnings == {1, 2}
Usual == {Free, [limit |-> 3, hours |-> Minutes], [limit |-> 0, hours |-> Minutes \ {3}]}
SomeFaults == {"list", "lock", "end", "conf", "usage", "restart", "bypass"}
===============================================================================
