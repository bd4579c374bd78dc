--------------------------- MODULE MCEmbeddingIndex ---------------------------
(* Instances of EmbeddingIndex for TLC. *)
EXTENDS EmbeddingIndex, TLC

CONSTANTS v1, v2

\* One version is a single chunk, the other has two, so that rows of one can
\* complete the chunk range of the other.
TwoCounts == (v1 :> 1) @@ (v2 :> 2)

=============================================================================
