---------------------------- MODULE MCMediaObjects ----------------------------
(* Instances of MediaObjects for TLC. *)
EXTENDS MediaObjects, TLC

Symmetry == Permutations(Shas) \cup Permutations(Requests) \cup Permutations(Memories)

=============================================================================
