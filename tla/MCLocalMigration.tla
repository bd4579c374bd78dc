--------------------------- MODULE MCLocalMigration ---------------------------
(* Instances of LocalMigration for TLC. *)
EXTENDS LocalMigration, TLC

=============================================================================
