---------------------------- MODULE MCAnswers ----------------------------
(* Deltas that cut the listed phrase, and an innocent word, at every place. *)
EXTENDS Answers

MCLetters == {"x", "k", "sp", "m", "notice", "close"}
MCPieces == {<<"x">>, <<"k">>, <<"sp">>, <<"x", "sp">>, <<"sp", "k">>}
MCArguments == {<<"x", "sp">>, <<"k", "close">>}
=============================================================================
