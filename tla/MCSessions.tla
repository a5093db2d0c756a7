----------------------------- MODULE MCSessions -----------------------------
(* Sessions for TLC.                                                       *)
EXTENDS Sessions, TLC

Symmetry == Permutations(Clients) \union Permutations(Handlers)

=============================================================================
