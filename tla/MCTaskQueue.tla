---------------------------- MODULE MCTaskQueue ----------------------------
(***************************************************************************)
(* Small instances, with as many stamps as messages can be live at once.   *)
(***************************************************************************)
EXTENDS TaskQueue, TLC

LiveStamps == 1..5

Symmetry == Permutations(Workers) \union Permutations(Clients) \union Permutations(Keys)
============================================================================
