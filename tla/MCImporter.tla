------------------------------ MODULE MCImporter ------------------------------
(* Instances of Importer for TLC. *)
EXTENDS Importer, TLC

\* No references; references to earlier entries, within a chunk and across
\* two; and references to later ones, as in a reordered rollout of Codex.
Backward == (1 :> {}) @@ (2 :> {1}) @@ (3 :> {1, 2})
Forward == (1 :> {2}) @@ (2 :> {3}) @@ (3 :> {})

LineagesMC == {NoParents, Backward, Forward}

\* The first file of the vault has two versions.
FileOfMC == (1 :> "f") @@ (2 :> "f") @@ (3 :> "g")

=============================================================================
