---------------------------- MODULE MCRecording ----------------------------
(* One chat that talks and one that does not: it opens the store at the    *)
(* same time, and prunes.                                                  *)
EXTENDS Recording, TLC

CONSTANTS c1, c2
MCMaxTurns == c1 :> 3 @@ c2 :> 0
=============================================================================
