---------------------------- MODULE MCThreadTimes ----------------------------
(* Instances of ThreadTimes for TLC. *)
EXTENDS ThreadTimes, TLC

\* Three ids with vector rows, of which thread 2 has been deleted.
MCThreads == {1, 3}
MCIndexed == {1, 2, 3}

=============================================================================
