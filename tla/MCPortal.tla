------------------------------- MODULE MCPortal -------------------------------
(* TLC instances of Portal: all lists with a catalogue, or one without. *)
EXTENDS Portal, TLC

SomeOffers == {[names |-> Names, cat |-> 1], [names |-> {"words"}, cat |-> 0]}
=============================================================================
