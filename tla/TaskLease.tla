------------------------------ MODULE TaskLease ------------------------------
(***************************************************************************)
(* The durable row of a data-migration task and the transitions every task *)
(* shares (grpc-admin/src/db_migrate/state.rs).  An execution claims the   *)
(* row, receives a fencing token one larger than the last one, and from    *)
(* then on changes the row only while it still carries that token.  The    *)
(* expiry of the lease makes the row claimable; it does not by itself stop *)
(* the execution that holds the token.                                     *)
(*                                                                         *)
(* The clock is abstracted to `live': whether the expiry stored in the row *)
(* is still in the future.  Every renewal moves it there again.            *)
(***************************************************************************)
EXTENDS Naturals

\* TaskStateKind.
TaskStates == {"pending", "running", "completed", "failed"}

\* The row as INSERT_IF_ABSENT_SQL creates it; `cp' is the checkpoint of an
\* execution that finds none.
NewTask(cp) == [state |-> "pending", token |-> 0, live |-> FALSE, cp |-> cp]

TaskRows(Checkpoints) ==
    [state : TaskStates, token : Nat, live : BOOLEAN, cp : Checkpoints]

\* is_active_lease.
Leased(row) == row.state = "running" /\ row.live

\* Mutant: a row left `running' by a crash is never claimed again.
ClaimableStopped(row) == row.state \in {"pending", "failed"}

\* claim_tx: neither completed nor under an active lease.
Claimable(row) == row.state # "completed" /\ ~Leased(row)

\* CLAIM_SQL: the token grows, the checkpoint stays.
Claimed(row) ==
    [row EXCEPT !.state = "running", !.token = @ + 1, !.live = TRUE]

\* Mutant: the updates ask for a running task only.
OwnsAny(row, token) == row.state = "running" /\ row.token >= token

\* The condition of RENEW_LEASE_SQL, UPDATE_CHECKPOINT_SQL, COMPLETE_SQL and
\* FAIL_SQL.
Owns(row, token) == row.state = "running" /\ row.token = token

Renewed(row) == [row EXCEPT !.live = TRUE]

Checkpointed(row, cp) == [row EXCEPT !.live = TRUE, !.cp = cp]

CompletedTask(row) == [row EXCEPT !.state = "completed", !.live = FALSE]

FailedTask(row) == [row EXCEPT !.state = "failed", !.live = FALSE]

=============================================================================
