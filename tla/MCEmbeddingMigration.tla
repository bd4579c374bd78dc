------------------------- MODULE MCEmbeddingMigration -------------------------
(* Instances of EmbeddingMigration for TLC. *)
EXTENDS EmbeddingMigration, TLC

\* Every table in a directory of its own.
Separate == [t \in Tables |-> t]

\* Memory and reflection tables share a directory; threads have their own.
Shared == [t \in Tables |-> IF t < TableCount THEN 1 ELSE 2]

=============================================================================
