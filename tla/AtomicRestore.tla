---------------------------- MODULE AtomicRestore ----------------------------
(***************************************************************************)
(* What `local restore' promises to whoever opens the data afterwards: the *)
(* database and the resources beside it are one data set.  A restore takes *)
(* it away and gives back either a whole backup or what was there before.  *)
(***************************************************************************)
CONSTANTS
    Whole,       \* the data sets whose parts belong together
    Exchanging   \* stands for the data set during a restore

VARIABLES
    data,      \* the data set as the next command or server finds it
    before,    \* the data set the restore in progress found
    backups    \* the complete backups

vars == <<data, before, backups>>

Init == data \in Whole /\ before = data /\ backups = {}

\* A migration or a server changes the data set.
Change == data # Exchanging /\ data' \in Whole /\ UNCHANGED <<before, backups>>

Backup ==
    /\ data # Exchanging
    /\ \E b \in Whole : backups' = backups \union {b}
    /\ UNCHANGED <<data, before>>

Begin ==
    /\ data # Exchanging
    /\ data' = Exchanging /\ before' = data
    /\ UNCHANGED backups

End ==
    /\ data = Exchanging
    /\ data' \in backups \union {before}
    /\ UNCHANGED <<before, backups>>

Next == Change \/ Backup \/ Begin \/ End

Spec == Init /\ [][Next]_vars

=============================================================================
