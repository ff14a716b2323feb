--------------------------- MODULE MCVigilSession ---------------------------
(***************************************************************************)
(* Worlds in which commands do not overlap, or only while they work, with  *)
(* and without processes that die.                                         *)
(***************************************************************************)
EXTENDS VigilSession, TLC

MCWorlds == [overlap : {"none", "work"}, crashes : BOOLEAN]

MCSymmetry == Permutations(Procs)

=============================================================================
