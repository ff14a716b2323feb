----------------------------- MODULE MCProvider -----------------------------
(* Turns with up to two calls, of which one may have arguments in two pieces. *)
EXTENDS Provider

MCAnswers == [text : {0, 2}, calls : {<< >>, <<1>>, <<2, 1>>}]

=============================================================================
