---------------------------- MODULE MCThreadGroups ----------------------------
(* Instances of ThreadGroups for TLC. *)
EXTENDS ThreadGroups, TLC

CONSTANTS spawned, first, second

Found(child, parent, rank) ==
    [child |-> child, parent |-> parent, rank |-> rank, kind |-> "delegated"]

\* Two exact parents of one thread that rule each other out when an import
\* carries both, and strong evidence that closes a cycle with one of them.
MCEvidence ==
    {Found(spawned, first, 3), Found(spawned, second, 3), Found(second, spawned, 1)}

MCBatches ==
    {{}, {Found(spawned, first, 3)}, {Found(second, spawned, 1)},
     {Found(spawned, first, 3), Found(spawned, second, 3)}}

=============================================================================
