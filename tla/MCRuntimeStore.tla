-------------------------- MODULE MCRuntimeStore --------------------------
(***************************************************************************)
(* Small instances of RuntimeStore for TLC.                                *)
(***************************************************************************)
EXTENDS RuntimeStore, TLC

MCTimes == 1..2

MCSymmetry ==
  Permutations(Writers) \cup Permutations(Collections) \cup Permutations(Names) \cup Permutations(Targets)

===========================================================================
