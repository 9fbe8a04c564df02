---------------------------- MODULE MCPagedKVPool ----------------------------
(* Instances of PagedKVPool for TLC. *)
EXTENDS PagedKVPool, TLC

Symmetry == Permutations(Tokens) \cup Permutations(Slots)
==============================================================================
