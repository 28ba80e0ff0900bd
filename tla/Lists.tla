--------------------------------- MODULE Lists ---------------------------------
(* What is left of a list when some of what it holds is taken out: deployments  *)
(* that are removed (Updates), rules that a new one replaces (Requests).        *)
EXTENDS Naturals, Sequences

(* What of a list is in a set, in its order. *)
Only(list, S) ==
  LET upTo[n \in 0..Len(list)] ==
        IF n = 0 THEN <<>>
        ELSE IF list[n] \in S THEN Append(upTo[n - 1], list[n]) ELSE upTo[n - 1]
  IN  upTo[Len(list)]
===============================================================================
