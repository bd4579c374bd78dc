-------------------------- MODULE EmbeddingMigration --------------------------
(***************************************************************************)
(* Moving the vector tables of memory-store to another embedding space.    *)
(*                                                                         *)
(* The administration commands `embedding switch`, `abandon`, `finalize`   *)
(* and `restore` keep an attempt record in a state file and a migration    *)
(* marker on every vector table.  Both are written one at a time, so a     *)
(* command may stop between any two writes; the next command derives an    *)
(* effective stage from the record and the markers together and continues  *)
(* from there.  The server decides from the tables alone whether it may    *)
(* start, and in which mode.                                               *)
(***************************************************************************)
EXTENDS Integers, FiniteSets

CONSTANTS
    TableCount,   \* configured vector tables, replaced in this order
    DirCount,     \* LanceDB directories they live in
    DirOf,        \* the directory of each table
    Spaces,       \* embedding spaces
    MaxAttempts,  \* bound on migration attempts
    MaxEdits,     \* bound on changes of the RDB
    MaxFaults,    \* bound on interrupted commands
    WriterLock,   \* writers hold a lock that commands take (PostgreSQL);
                  \* without it (SQLite) a command only looks for writers
    None,         \* no table, space, marker, attempt or backup
    Empty         \* the rows of an empty table

Tables == 1 .. TableCount

Dirs == 1 .. DirCount

ASSUME LayoutAssumption ==
    /\ TableCount \in Nat \ {0}
    /\ DirCount \in Nat \ {0}
    /\ DirOf \in [Tables -> Dirs]

ASSUME MigrationBounds ==
    /\ MaxAttempts \in Nat
    /\ MaxEdits \in Nat
    /\ MaxFaults \in Nat
    /\ WriterLock \in BOOLEAN

ASSUME DistinctValues == None \notin Spaces

Attempts == 1 .. MaxAttempts

\* What the rows of a table were generated from: the space, and the edition
\* of the RDB they cover completely.  Edition 0 has nothing to embed.
Rows == [space: Spaces, edition: 1..MaxEdits] \cup {Empty}

MarkerStates == {"switching", "pending", "committing", "restoring", "discarding"}

Markers == [state: MarkerStates, attempt: Attempts] \cup {None}

\* A vector table with its space record and its migration marker.
VectorTables == [space: Spaces \cup {None}, marker: Markers, rows: Rows] \cup {None}

AttemptRecords ==
    [id: Attempts, method: {"backup", "no_backup"}, target: Spaces,
     stage: {"backup", "replace", "rebuild_pending", "commit"},
     status: {"running", "completed", "abandoned", "restored"},
     cancel: {"none", "restore", "discard"}, discarded: BOOLEAN,
     backupComplete: BOOLEAN]

Backups == [complete: BOOLEAN, tables: [Tables -> VectorTables]]

\* What stands for an absent thing is nothing else, and so are the rows of an
\* empty table.
ASSUME NothingAssumption ==
    /\ None \notin Attempts
    /\ None \notin [state: MarkerStates, attempt: Attempts]
    /\ None \notin [space: Spaces \cup {None}, marker: Markers, rows: Rows]
    /\ None \notin AttemptRecords
    /\ None \notin Backups
    /\ Empty \notin [space: Spaces, edition: 1..MaxEdits]

Operations == {"none", "switch", "abandon", "discard", "finalize", "restore"}

Steps == {"idle", "mark", "recheck", "backup", "copy", "save_replace", "replace",
          "create", "label", "seal", "save_pending", "clear", "drop_backup",
          "save_abandoned", "save_discard", "discard_mark", "save_discarded",
          "purge", "verify", "commit_mark", "save_commit", "save_completed",
          "unmark", "retain", "save_cancel", "restore_mark", "swap",
          "save_restored"}

VARIABLES
    table,     \* the vector tables on disk
    rec,       \* the attempt record in the state directory
    backup,    \* the backup directory of the attempt
    cmd,       \* the command that holds the operation lock, and its position
    server,    \* the server process
    edition,   \* changes made to the RDB
    source,    \* history: rows the last normal operation left in each table
    faults

vars == <<table, rec, backup, cmd, server, edition, source, faults>>

Idle == [op |-> "none", pc |-> "idle", at |-> 1]

Down == [phase |-> "down", space |-> None, rebuilding |-> None, todo |-> {}]

TypeOK ==
    /\ table \in [Tables -> VectorTables]
    /\ rec \in AttemptRecords \cup {None}
    /\ backup \in Backups \cup {None}
    /\ cmd \in [op: Operations, pc: Steps, at: 1..(TableCount + DirCount)]
    /\ cmd.pc # "swap" => cmd.at \in Tables
    /\ cmd.pc = "swap" => cmd.at \in Dirs
    /\ server \in [phase: {"down", "opening", "labelling", "up"},
                   space: Spaces \cup {None}, rebuilding: Attempts \cup {None},
                   todo: SUBSET Tables]
    /\ edition \in 0..MaxEdits
    /\ source \in [Tables -> Rows]
    /\ faults \in 0..MaxFaults

Init ==
    /\ table = [t \in Tables |-> None]
    /\ rec = None
    /\ backup = None
    /\ cmd = Idle
    /\ server = Down
    /\ edition = 0
    /\ source = [t \in Tables |-> Empty]
    /\ faults = 0

-----------------------------------------------------------------------------
(* Markers and the effective stage. *)

\* A table just created: no record, no rows.
NewTable == [space |-> None, marker |-> None, rows |-> Empty]

OpenOrCreate(t) == IF table[t] = None THEN NewTable ELSE table[t]

RowsOf(v) == IF v = None THEN Empty ELSE v.rows

MarkerOf(t) == IF table[t] = None THEN None ELSE table[t].marker

Mine(state) == [state |-> state, attempt |-> rec.id]

AnyMine(state) == \E t \in Tables : MarkerOf(t) = Mine(state)

Marked == \E t \in Tables : MarkerOf(t) # None /\ MarkerOf(t).attempt = rec.id

Replacing == AnyMine("pending") \/ rec.stage = "replace"

EffectiveStage ==
    IF rec = None THEN "none"
    ELSE IF rec.status # "running" /\ ~Marked THEN "none"
    ELSE IF rec.cancel = "restore" \/ AnyMine("restoring") \/ rec.status = "restored"
         THEN "restoring"
    ELSE IF \/ rec.cancel = "discard"
            \/ AnyMine("discarding")
            \/ rec.status = "abandoned" /\ rec.discarded
         THEN "discarding"
    ELSE IF AnyMine("committing") \/ rec.stage = "commit" \/ rec.status = "completed"
         THEN "commit"
    ELSE IF \A t \in Tables : MarkerOf(t) = Mine("pending") THEN "rebuild_pending"
    ELSE IF Replacing THEN "replace"
    ELSE "backup"

\* The stage tables: the stages at which each command goes on.
CanResume == EffectiveStage \in {"backup", "replace"}

\* Mutant: a discard under way is refused like any other cancellation.
CanAbandonUncancelled ==
    \/ EffectiveStage = "backup"
    \/ EffectiveStage \in {"replace", "rebuild_pending"} /\ rec.method = "no_backup"

CanAbandon ==
    \/ EffectiveStage \in {"backup", "discarding"}
    \/ EffectiveStage \in {"replace", "rebuild_pending"} /\ rec.method = "no_backup"

CanFinalize == EffectiveStage \in {"rebuild_pending", "commit"}

\* Mutant: a restore can be begun but not continued.
CanRestoreOnce ==
    EffectiveStage \in {"replace", "rebuild_pending", "commit"} /\ rec.method = "backup"

CanRestore ==
    \/ EffectiveStage = "restoring"
    \/ EffectiveStage \in {"replace", "rebuild_pending", "commit"} /\ rec.method = "backup"

UsableBackup == backup # None /\ backup.complete

-----------------------------------------------------------------------------
(* Commands.  The operation lock admits one at a time, and a command starts  *)
(* its work only when it finds no writer.                                    *)

NoWriter == server.phase = "down"

Free == cmd = Idle /\ NoWriter

Begin(op, pc) == cmd' = [op |-> op, pc |-> pc, at |-> 1]

Goto(pc) == cmd' = [cmd EXCEPT !.pc = pc, !.at = 1]

Done == cmd' = Idle

\* Mutant: the loop runs one table too far.
NextTableOff(loop, after) ==
    IF cmd.at <= TableCount THEN cmd' = [cmd EXCEPT !.pc = loop, !.at = @ + 1]
    ELSE after

\* Go on with the next table of the loop, or with what follows it.
NextTable(loop, after) ==
    IF cmd.at < TableCount THEN cmd' = [cmd EXCEPT !.pc = loop, !.at = @ + 1]
    ELSE after

SetTable(t, value) == table' = [table EXCEPT ![t] = value]

SetMarker(t, marker) == SetTable(t, [OpenOrCreate(t) EXCEPT !.marker = marker])

RecordedSpaces ==
    {table[t].space : t \in {u \in Tables : table[u] # None}} \ {None}

NothingToEmbed ==
    edition = 0 /\ \A t \in Tables : table[t] # None => table[t].rows = Empty

\* A new attempt.
SwitchNew(method, target) ==
    /\ Free
    /\ EffectiveStage = "none"
    /\ \A t \in Tables : MarkerOf(t) = None
    /\ ~NothingToEmbed
    /\ RecordedSpaces # {target}
    /\ LET id == IF rec = None THEN 1 ELSE rec.id + 1 IN
       /\ id \in Attempts
       /\ rec' = [id |-> id, method |-> method, target |-> target, stage |-> "backup",
                  status |-> "running", cancel |-> "none", discarded |-> FALSE,
                  backupComplete |-> FALSE]
    /\ backup' = None
    /\ Begin("switch", "mark")
    /\ UNCHANGED <<table, server, edition, source, faults>>

MarkSwitching ==
    /\ cmd.pc = "mark"
    /\ SetMarker(cmd.at, Mine("switching"))
    /\ NextTable("mark", Goto("recheck"))
    /\ UNCHANGED <<rec, backup, server, edition, source, faults>>

\* Look for writers once more, now that no new one can start.
RecheckWriter ==
    /\ cmd.pc = "recheck"
    /\ IF ~NoWriter THEN Done
       ELSE Goto(IF rec.method = "backup" THEN "backup" ELSE "save_replace")
    /\ UNCHANGED <<table, rec, backup, server, edition, source, faults>>

\* An unfinished backup of the attempt is replaced; the manifest is marked
\* complete after the copies.
BackupBegin ==
    /\ cmd.pc = "backup"
    /\ backup' = [complete |-> FALSE, tables |-> [t \in Tables |-> None]]
    /\ Goto("copy")
    /\ UNCHANGED <<table, rec, server, edition, source, faults>>

BackupComplete ==
    /\ cmd.pc = "copy"
    /\ backup' = [complete |-> TRUE, tables |-> table]
    /\ Goto("save_replace")
    /\ UNCHANGED <<table, rec, server, edition, source, faults>>

SaveReplace ==
    /\ cmd.pc = "save_replace"
    /\ rec' = [rec EXCEPT !.stage = "replace", !.backupComplete = (rec.method = "backup")]
    /\ Goto("replace")
    /\ UNCHANGED <<table, backup, server, edition, source, faults>>

\* replace_tables leaves tables alone that an earlier run has replaced.
SkipReplaced ==
    /\ cmd.pc = "replace"
    /\ cmd.op = "switch"
    /\ MarkerOf(cmd.at) = Mine("pending")
    /\ NextTable("replace", Goto("save_pending"))
    /\ UNCHANGED <<table, rec, backup, server, edition, source, faults>>

\* replace_with_empty: drop the table, create it, record its space (only for
\* a switch), and mark it, each in a write of its own.
DropTable ==
    /\ cmd.pc = "replace"
    /\ cmd.op = "switch" => MarkerOf(cmd.at) # Mine("pending")
    /\ SetTable(cmd.at, None)
    /\ cmd' = [cmd EXCEPT !.pc = "create"]
    /\ UNCHANGED <<rec, backup, server, edition, source, faults>>

CreateTable ==
    /\ cmd.pc = "create"
    /\ SetTable(cmd.at, OpenOrCreate(cmd.at))
    /\ cmd' = [cmd EXCEPT !.pc = IF cmd.op = "switch" THEN "label" ELSE "seal"]
    /\ UNCHANGED <<rec, backup, server, edition, source, faults>>

LabelTable ==
    /\ cmd.pc = "label"
    /\ SetTable(cmd.at, [OpenOrCreate(cmd.at) EXCEPT !.space = rec.target])
    /\ cmd' = [cmd EXCEPT !.pc = "seal"]
    /\ UNCHANGED <<rec, backup, server, edition, source, faults>>

SealTable ==
    /\ cmd.pc = "seal"
    /\ SetMarker(cmd.at, Mine(IF cmd.op = "switch" THEN "pending" ELSE "discarding"))
    /\ NextTable("replace", Goto(IF cmd.op = "switch" THEN "save_pending" ELSE "save_discarded"))
    /\ UNCHANGED <<rec, backup, server, edition, source, faults>>

SavePending ==
    /\ cmd.pc = "save_pending"
    /\ rec' = [rec EXCEPT !.stage = "rebuild_pending"]
    /\ Done
    /\ UNCHANGED <<table, backup, server, edition, source, faults>>

\* `switch --resume` goes on only from a state it can verify.
ResumeBackup ==
    /\ Free
    /\ CanResume
    /\ EffectiveStage = "backup"
    /\ \A t \in Tables : MarkerOf(t) \in {None, Mine("switching")}
    /\ rec.target \notin RecordedSpaces
    /\ Begin("switch", "mark")
    /\ UNCHANGED <<table, rec, backup, server, edition, source, faults>>

ResumeReplace ==
    /\ Free
    /\ CanResume
    /\ EffectiveStage = "replace"
    /\ \A t \in Tables : MarkerOf(t) \in {Mine("switching"), Mine("pending")}
    /\ rec.method = "backup" => rec.backupComplete /\ UsableBackup
    /\ Begin("switch", "replace")
    /\ UNCHANGED <<table, rec, backup, server, edition, source, faults>>

\* Abandon before anything was replaced: take the markers off.
AbandonUnreplaced ==
    /\ Free
    /\ CanAbandon
    /\ EffectiveStage = "backup"
    /\ Begin("abandon", "clear")
    /\ UNCHANGED <<table, rec, backup, server, edition, source, faults>>

ClearSwitching ==
    /\ cmd.pc = "clear"
    /\ IF MarkerOf(cmd.at) = Mine("switching") THEN SetMarker(cmd.at, None)
       ELSE UNCHANGED table
    /\ NextTable("clear", Goto("drop_backup"))
    /\ UNCHANGED <<rec, backup, server, edition, source, faults>>

DropBackup ==
    /\ cmd.pc = "drop_backup"
    /\ backup' = None
    /\ Goto("save_abandoned")
    /\ UNCHANGED <<table, rec, server, edition, source, faults>>

SaveAbandoned ==
    /\ cmd.pc = "save_abandoned"
    /\ rec' = [rec EXCEPT !.status = "abandoned"]
    /\ Done
    /\ UNCHANGED <<table, backup, server, edition, source, faults>>

\* Discard an attempt without a backup: empty every table, end the attempt,
\* and drop the tables so that the next start creates them.
AbandonReplaced ==
    /\ Free
    /\ CanAbandon
    /\ EffectiveStage # "backup"
    /\ Begin("discard", IF rec.status = "abandoned" THEN "purge" ELSE "save_discard")
    /\ UNCHANGED <<table, rec, backup, server, edition, source, faults>>

SaveDiscard ==
    /\ cmd.pc = "save_discard"
    /\ rec' = [rec EXCEPT !.cancel = "discard", !.discarded = TRUE]
    /\ source' = [t \in Tables |-> Empty]
    /\ Goto("discard_mark")
    /\ UNCHANGED <<table, backup, server, edition, faults>>

MarkDiscarding ==
    /\ cmd.pc = "discard_mark"
    /\ SetMarker(cmd.at, Mine("discarding"))
    /\ NextTable("discard_mark", Goto("replace"))
    /\ UNCHANGED <<rec, backup, server, edition, source, faults>>

\* A table that cannot be opened is passed over.
SkipDiscarding ==
    /\ faults < MaxFaults
    /\ cmd.pc = "discard_mark"
    /\ NextTable("discard_mark", Goto("replace"))
    /\ faults' = faults + 1
    /\ UNCHANGED <<table, rec, backup, server, edition, source>>

SaveDiscarded ==
    /\ cmd.pc = "save_discarded"
    /\ rec' = [rec EXCEPT !.status = "abandoned"]
    /\ Goto("purge")
    /\ UNCHANGED <<table, backup, server, edition, source, faults>>

PurgeTable ==
    /\ cmd.pc = "purge"
    /\ IF MarkerOf(cmd.at) = Mine("discarding") THEN SetTable(cmd.at, None)
       ELSE UNCHANGED table
    /\ NextTable("purge", Done)
    /\ UNCHANGED <<rec, backup, server, edition, source, faults>>

-----------------------------------------------------------------------------
(* finalize and restore. *)

\* A commit under way is not verified again.
Finalize ==
    /\ Free
    /\ CanFinalize
    /\ Begin("finalize", IF EffectiveStage = "rebuild_pending" THEN "verify"
                         ELSE IF rec.status = "completed" THEN "unmark"
                         ELSE "commit_mark")
    /\ UNCHANGED <<table, rec, backup, server, edition, source, faults>>

Rebuilt ==
    /\ RecordedSpaces = {rec.target}
    /\ \A t \in Tables : /\ table[t] # None
                         /\ table[t].rows = [space |-> rec.target, edition |-> edition]

Verify ==
    /\ cmd.pc = "verify"
    /\ IF Rebuilt THEN Goto("commit_mark") ELSE Done
    /\ UNCHANGED <<table, rec, backup, server, edition, source, faults>>

\* mark_all: every existing table.
MarkAll(marker) ==
    IF table[cmd.at] = None THEN UNCHANGED table ELSE SetMarker(cmd.at, marker)

MarkCommitting ==
    /\ cmd.pc = "commit_mark"
    /\ MarkAll(Mine("committing"))
    /\ NextTable("commit_mark", Goto("save_commit"))
    /\ UNCHANGED <<rec, backup, server, edition, source, faults>>

SaveCommit ==
    /\ cmd.pc = "save_commit"
    /\ rec' = [rec EXCEPT !.stage = "commit"]
    /\ Goto("save_completed")
    /\ UNCHANGED <<table, backup, server, edition, source, faults>>

SaveCompleted ==
    /\ cmd.pc = "save_completed"
    /\ rec' = [rec EXCEPT !.status = "completed"]
    /\ source' = [t \in Tables |-> RowsOf(table[t])]
    /\ Goto("unmark")
    /\ UNCHANGED <<table, backup, server, edition, faults>>

Unmark ==
    /\ cmd.pc = "unmark"
    /\ MarkAll(None)
    /\ NextTable("unmark", IF cmd.op = "finalize" THEN Goto("retain") ELSE Done)
    /\ UNCHANGED <<rec, backup, server, edition, source, faults>>

\* Retention may remove the backup of the finished attempt.
Retain ==
    /\ cmd.pc = "retain"
    /\ backup' \in {backup, None}
    /\ Done
    /\ UNCHANGED <<table, rec, server, edition, source, faults>>

Restore ==
    /\ Free
    /\ CanRestore
    /\ UsableBackup
    /\ Begin("restore", IF rec.status = "restored" THEN "unmark" ELSE "save_cancel")
    /\ UNCHANGED <<table, rec, backup, server, edition, source, faults>>

\* (History: restoring an attempt that had completed brings back the rows of
\* its backup, and those are what must be preserved from here on.)
SaveCancel ==
    /\ cmd.pc = "save_cancel"
    /\ rec' = [rec EXCEPT !.cancel = "restore"]
    /\ source' = IF rec.status = "completed"
                 THEN [t \in Tables |-> RowsOf(backup.tables[t])]
                 ELSE source
    /\ Goto("restore_mark")
    /\ UNCHANGED <<table, backup, server, edition, faults>>

MarkRestoring ==
    /\ cmd.pc = "restore_mark"
    /\ MarkAll(Mine("restoring"))
    /\ NextTable("restore_mark", Goto("swap"))
    /\ UNCHANGED <<rec, backup, server, edition, source, faults>>

\* put_back: a staged copy of the directory, already marked, is exchanged
\* with the live one.
SwapIn ==
    /\ cmd.pc = "swap"
    /\ table' = [t \in Tables |->
         IF DirOf[t] # cmd.at THEN table[t]
         ELSE IF backup.tables[t] = None THEN None
         ELSE [backup.tables[t] EXCEPT !.marker = Mine("restoring")]]
    /\ IF cmd.at < DirCount THEN cmd' = [cmd EXCEPT !.at = @ + 1]
       ELSE Goto("save_restored")
    /\ UNCHANGED <<rec, backup, server, edition, source, faults>>

SaveRestored ==
    /\ cmd.pc = "save_restored"
    /\ rec' = [rec EXCEPT !.status = "restored"]
    /\ Goto("unmark")
    /\ UNCHANGED <<table, backup, server, edition, source, faults>>

\* The process is killed or a write fails: the lock is released and nothing
\* is undone.
Interrupted ==
    /\ faults < MaxFaults
    /\ cmd # Idle
    /\ Done
    /\ faults' = faults + 1
    /\ UNCHANGED <<table, rec, backup, server, edition, source>>

-----------------------------------------------------------------------------
(* The server.  It opens the tables (creating missing ones), decides from    *)
(* their markers and space records, and records the space where none is.     *)

Announce(s) ==
    /\ server.phase = "down"
    /\ WriterLock => cmd = Idle
    /\ server' = [Down EXCEPT !.phase = "opening", !.space = s]
    /\ UNCHANGED <<table, rec, backup, cmd, edition, source, faults>>

\* Mutant: rule 1 is missing, so a commit under way looks like a rebuild.
HaltingButCommit == {"restoring", "discarding", "switching"}

\* Rules 0, 1 and 2: markers that stop the server.
Halting == {"restoring", "discarding", "committing", "switching"}

\* Mutant: rule 2a is missing, so the first marker decides.
FirstMarked(opened) == \E t \in Tables : opened[t].marker # None

\* Rule 2a: every table is marked, and for the same attempt.
UniformlyMarked(opened) ==
    /\ \A t \in Tables : opened[t].marker # None
    /\ \A t \in Tables : opened[t].marker.attempt = opened[1].marker.attempt

\* Rules 4 to 7: a recorded space is the configured one.
Matches(opened, s) == \A t \in Tables : opened[t].space \in {None, s}

\* Rule 3: nothing is embedded and there is nothing to embed.
Adoptable(opened) == edition = 0 /\ \A t \in Tables : opened[t].rows = Empty

\* The startup decision for a server configured for space s.  (Rule 8, on
\* tables older than space records, is left out: every row of this model was
\* written into a recorded table.)
Decide(opened, s) ==
    LET marked == {t \in Tables : opened[t].marker # None}
    IN CASE \E t \in marked : opened[t].marker.state \in Halting -> "refuse"
         [] marked # {} /\ (\A t \in marked : opened[t].marker.state \notin Halting) ->
              IF UniformlyMarked(opened) /\ Matches(opened, s) THEN "rebuild" ELSE "refuse"
         [] marked = {} ->
              IF Adoptable(opened) \/ Matches(opened, s) THEN "normal" ELSE "refuse"

\* The attempt named by the first marker.
RebuildAttempt(opened) ==
    opened[CHOOSE t \in Tables : opened[t].marker # None].marker.attempt

\* The tables whose space record the decision writes.
Unrecorded(opened, s) == {t \in Tables : opened[t].space # s}

Bootstrap ==
    /\ server.phase = "opening"
    /\ LET opened == [t \in Tables |-> OpenOrCreate(t)]
           decided == Decide(opened, server.space)
       IN /\ table' = opened
          /\ server' =
               IF decided = "refuse" THEN Down
               ELSE IF decided = "rebuild"
               THEN [server EXCEPT !.phase = "up", !.rebuilding = RebuildAttempt(opened)]
               ELSE [server EXCEPT !.phase = "labelling",
                                   !.todo = Unrecorded(opened, server.space)]
    /\ UNCHANGED <<rec, backup, cmd, edition, source, faults>>

RecordSpace(t) ==
    /\ server.phase = "labelling"
    /\ t \in server.todo
    /\ table[t] # None
    /\ SetTable(t, [table[t] EXCEPT !.space = server.space])
    /\ server' = [server EXCEPT !.todo = @ \ {t}]
    /\ UNCHANGED <<rec, backup, cmd, edition, source, faults>>

Serve ==
    /\ server.phase = "labelling"
    /\ server.todo = {}
    /\ server' = [server EXCEPT !.phase = "up"]
    /\ UNCHANGED <<table, rec, backup, cmd, edition, source, faults>>

\* Clients change the RDB ...
EditRdb ==
    /\ server.phase = "up"
    /\ edition < MaxEdits
    /\ edition' = edition + 1
    /\ UNCHANGED <<table, rec, backup, cmd, server, source, faults>>

\* ... and embedding brings a table up to date (see EmbeddingIndex).
Reembed(t) ==
    /\ server.phase = "up"
    /\ edition > 0
    /\ table[t] # None
    /\ LET rows == [space |-> server.space, edition |-> edition] IN
       /\ SetTable(t, [table[t] EXCEPT !.rows = rows])
       /\ source' = IF server.rebuilding = None THEN [source EXCEPT ![t] = rows] ELSE source
    /\ UNCHANGED <<rec, backup, cmd, server, edition, faults>>

\* The server is stopped, or dies, at any point.
StopServer ==
    /\ server.phase # "down"
    /\ server' = Down
    /\ UNCHANGED <<table, rec, backup, cmd, edition, source, faults>>

-----------------------------------------------------------------------------

\* An unfinished attempt is taken further by one of these.
Continue ==
    \/ ResumeBackup \/ ResumeReplace \/ AbandonUnreplaced \/ AbandonReplaced
    \/ Finalize \/ Restore

CommandStep ==
    \/ MarkSwitching \/ RecheckWriter \/ BackupBegin \/ BackupComplete \/ SaveReplace
    \/ SkipReplaced \/ DropTable \/ CreateTable \/ LabelTable \/ SealTable \/ SavePending
    \/ ClearSwitching \/ DropBackup \/ SaveAbandoned
    \/ SaveDiscard \/ MarkDiscarding \/ SaveDiscarded \/ PurgeTable
    \/ Verify \/ MarkCommitting \/ SaveCommit \/ SaveCompleted \/ Unmark \/ Retain
    \/ SaveCancel \/ MarkRestoring \/ SwapIn \/ SaveRestored

ServerStep ==
    \/ \E s \in Spaces : Announce(s)
    \/ Bootstrap
    \/ \E t \in Tables : RecordSpace(t)
    \/ Serve
    \/ EditRdb
    \/ \E t \in Tables : Reembed(t)
    \/ StopServer

Next ==
    \/ \E method \in {"backup", "no_backup"}, target \in Spaces : SwitchNew(method, target)
    \/ Continue
    \/ CommandStep
    \/ SkipDiscarding
    \/ Interrupted
    \/ ServerStep

Spec == Init /\ [][Next]_vars

\* A command runs to its end unless it is interrupted; the server is stopped
\* at some point; and the operator keeps running a command that continues the
\* attempt whenever one is accepted.
FairSpec ==
    /\ Spec
    /\ WF_vars(CommandStep)
    /\ WF_vars(StopServer)
    /\ SF_vars(Continue)

-----------------------------------------------------------------------------
(* Properties. *)

\* A server that serves (bootstrap::run returned) finds every table in its own
\* space, with rows of that space only, and the tables agree: either no table
\* is being migrated and nothing has been replaced, or all are pending for the
\* attempt the server rebuilds.
ServesWhole ==
    server.phase = "up" =>
        /\ \A t \in Tables :
             /\ table[t] # None
             /\ table[t].space = server.space
             /\ table[t].rows # Empty => table[t].rows.space = server.space
             /\ table[t].marker = IF server.rebuilding = None THEN None
                                  ELSE [state |-> "pending", attempt |-> server.rebuilding]
        /\ IF server.rebuilding = None
           THEN EffectiveStage \in {"none", "backup"}
           ELSE rec # None /\ rec.id = server.rebuilding /\ rec.target = server.space

\* With a backup, the rows that served before the switch are never lost: until
\* the attempt completes they are in the table or in a complete backup, and a
\* restored or abandoned attempt has them back in the tables.
SourceKept ==
    rec # None =>
        /\ rec.method = "backup" /\ rec.status = "running" =>
             \A t \in Tables :
                 \/ RowsOf(table[t]) = source[t]
                 \/ UsableBackup /\ RowsOf(backup.tables[t]) = source[t]
        /\ rec.status = "restored" \/ (rec.status = "abandoned" /\ ~rec.discarded) =>
             \A t \in Tables : RowsOf(table[t]) = source[t]

\* "A `committing` marker means verification passed under this same exclusion":
\* from the first marker to the last, the tables are what was verified, so a
\* resumed finalize may skip the verification.
CommitVerified == EffectiveStage = "commit" => Rebuilt

\* No row is given up before its successor is verified: the source rows can be
\* had back until the commit, and the commit is of verified tables.
RowsAccountedFor == SourceKept /\ CommitVerified

\* Every marker on a table belongs to the recorded attempt, and that attempt
\* still accepts a command; a finished attempt leaves no marker behind.
MarkersAccountedFor ==
    \A t \in Tables :
        MarkerOf(t) # None =>
            /\ rec # None
            /\ MarkerOf(t).attempt = rec.id
            /\ CanResume \/ CanAbandon \/ CanFinalize \/ CanRestore

\* No interruption leaves an attempt in a stage that running the accepted
\* commands again does not lead out of: time and again the attempt is finished
\* or waits for its rebuild.
NeverStuck == []<>(cmd = Idle /\ EffectiveStage \in {"none", "rebuild_pending"})

=============================================================================
