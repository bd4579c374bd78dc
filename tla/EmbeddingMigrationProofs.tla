----------------------- MODULE EmbeddingMigrationProofs ------------------------
(***************************************************************************)
(* Proofs about EmbeddingMigration, for any tables, directories, spaces,   *)
(* attempts, changes and interruptions: every marker belongs to an attempt *)
(* that goes on, no row is given up before its successor is verified, and  *)
(* a server never serves a mixture.                                        *)
(***************************************************************************)
EXTENDS EmbeddingMigration, TLAPS

(* Types, and what they rest on.                                           *)

\* Every marker is one of the recorded attempt; a command works for a recorded
\* attempt, and a restore has a backup to bring back.
Base ==
    /\ TypeOK
    /\ \A t \in Tables : MarkerOf(t) # None => rec # None /\ MarkerOf(t).attempt = rec.id
    /\ cmd # Idle => rec # None
    /\ cmd.pc \in {"save_cancel", "restore_mark", "swap"} => UsableBackup
    /\ server.phase # "down" => server.space \in Spaces


-----------------------------------------------------------------------------
(* Values.                                                                 *)

TableRecords == [space: Spaces \cup {None}, marker: Markers, rows: Rows]

LEMMA TablesAre ==
    /\ Tables \subseteq Nat /\ 1 \in Tables /\ TableCount \in Tables
    /\ \A t \in Tables : t < TableCount => t + 1 \in Tables
    /\ 1 \in Dirs
    /\ \A d \in Dirs : d < DirCount => d + 1 \in Dirs
BY LayoutAssumption DEF Tables, Dirs

LEMMA RecordsAre ==
    /\ VectorTables = TableRecords \cup {None}
    /\ None \notin TableRecords
BY NothingAssumption DEF VectorTables, TableRecords

LEMMA MineIs ==
    ASSUME Base, rec # None, NEW s \in MarkerStates
    PROVE  /\ Mine(s) \in Markers /\ Mine(s) # None
           /\ Mine(s).attempt = rec.id /\ Mine(s).state = s
BY NothingAssumption DEF Base, TypeOK, Mine, Markers, AttemptRecords

LEMMA NewTableIs == NewTable \in TableRecords
BY DEF NewTable, TableRecords, Markers, Rows

LEMMA OpenOrCreateIs ==
    ASSUME Base, NEW t \in Tables
    PROVE  /\ OpenOrCreate(t) \in TableRecords
           /\ OpenOrCreate(t).marker = MarkerOf(t)
           /\ OpenOrCreate(t).rows = RowsOf(table[t])
           /\ MarkerOf(t) \in Markers
           /\ RowsOf(table[t]) \in Rows
<1>1. table[t] \in TableRecords \/ table[t] = None
  BY RecordsAre DEF Base, TypeOK
<1>2. CASE table[t] = None
  BY <1>2, NewTableIs DEF OpenOrCreate, MarkerOf, RowsOf, NewTable, TableRecords
<1>3. CASE table[t] \in TableRecords
  BY <1>3, RecordsAre DEF OpenOrCreate, MarkerOf, RowsOf, TableRecords
<1> QED BY <1>1, <1>2, <1>3

\* The marker of one table is written.
LEMMA SetMarkerIs ==
    ASSUME Base, NEW k \in Tables, NEW m \in Markers, SetMarker(k, m)
    PROVE  /\ table' \in [Tables -> VectorTables]
           /\ table'[k] = [OpenOrCreate(k) EXCEPT !.marker = m]
           /\ table'[k] \in TableRecords
           /\ MarkerOf(k)' = m
           /\ RowsOf(table'[k]) = RowsOf(table[k])
           /\ \A t \in Tables \ {k} : table'[t] = table[t] /\ MarkerOf(t)' = MarkerOf(t)
<1> DEFINE v == [OpenOrCreate(k) EXCEPT !.marker = m]
<1>1. v \in TableRecords /\ v.marker = m /\ v.rows = RowsOf(table[k])
  BY OpenOrCreateIs DEF TableRecords
<1>2. v \in VectorTables /\ v # None
  BY <1>1, RecordsAre
<1>3. table \in [Tables -> VectorTables] /\ table' = [table EXCEPT ![k] = v]
  BY DEF Base, TypeOK, SetMarker, SetTable
<1> HIDE DEF v
<1>4. /\ table' \in [Tables -> VectorTables] /\ table'[k] = v
      /\ \A t \in Tables \ {k} : table'[t] = table[t]
  BY <1>2, <1>3
<1>5. MarkerOf(k)' = m /\ RowsOf(table'[k]) = RowsOf(table[k])
  BY <1>1, <1>2, <1>4 DEF MarkerOf, RowsOf
<1>6. \A t \in Tables \ {k} : MarkerOf(t)' = MarkerOf(t)
  BY <1>4 DEF MarkerOf
<1> QED BY <1>1, <1>4, <1>5, <1>6 DEF v

LEMMA SetTableIs ==
    ASSUME Base, NEW k \in Tables, NEW v \in VectorTables, SetTable(k, v)
    PROVE  /\ table' \in [Tables -> VectorTables]
           /\ table'[k] = v
           /\ MarkerOf(k)' = IF v = None THEN None ELSE v.marker
           /\ \A t \in Tables \ {k} : table'[t] = table[t] /\ MarkerOf(t)' = MarkerOf(t)
<1>1. table \in [Tables -> VectorTables] /\ table' = [table EXCEPT ![k] = v]
  BY DEF Base, TypeOK, SetTable
<1>2. /\ table' \in [Tables -> VectorTables] /\ table'[k] = v
      /\ \A t \in Tables \ {k} : table'[t] = table[t]
  BY <1>1
<1> QED BY <1>2 DEF MarkerOf

\* Where a command is.
LEMMA AtIs ==
    ASSUME Base, cmd.pc # "swap"
    PROVE  /\ cmd = [op |-> cmd.op, pc |-> cmd.pc, at |-> cmd.at]
           /\ cmd.at \in Tables /\ cmd.op \in Operations
           /\ cmd.at < TableCount => cmd.at + 1 \in Tables
           /\ ~(cmd.at < TableCount) => cmd.at = TableCount
BY TablesAre DEF Base, TypeOK, Tables

\* A position that has its type.
Placed(c) ==
    /\ c \in [op: Operations, pc: Steps, at: Nat]
    /\ c.pc # "swap" => c.at \in Tables
    /\ c.pc = "swap" => c.at \in Dirs

LEMMA PlacedIs ==
    ASSUME NEW c, Placed(c)
    PROVE  /\ c \in [op: Operations, pc: Steps, at: 1..(TableCount + DirCount)]
           /\ c.pc # "swap" => c.at \in Tables
           /\ c.pc = "swap" => c.at \in Dirs
BY LayoutAssumption DEF Placed, Tables, Dirs

LEMMA CommandMoves ==
    ASSUME Base, CommandStep
    PROVE  /\ Placed(cmd')
           /\ cmd'.pc \in {"save_cancel", "restore_mark", "swap"} =>
                  cmd.pc \in {"save_cancel", "restore_mark", "swap"}
           /\ cmd # Idle
<1>1. /\ cmd \in [op: Operations, pc: Steps, at: Nat]
      /\ cmd.pc # "swap" => cmd.at \in Tables
      /\ cmd.pc = "swap" => cmd.at \in Dirs
  BY TablesAre DEF Base, TypeOK
<1>2. /\ cmd.pc # "swap" /\ cmd.at < TableCount => cmd.at + 1 \in Tables
      /\ cmd.pc = "swap" /\ cmd.at < DirCount => cmd.at + 1 \in Dirs
      /\ 1 \in Tables /\ 1 \in Dirs
      /\ Tables \subseteq Nat /\ Dirs \subseteq Nat
  BY <1>1, TablesAre DEF Dirs
<1>3. Idle \in [op: {"none"}, pc: {"idle"}, at: {1}]
  BY DEF Idle
<1> USE DEF Placed, Operations
<1>10. CASE MarkSwitching
  BY <1>10, <1>1, <1>2, <1>3 DEF MarkSwitching, NextTable, Goto, Done, Steps
<1>11. CASE RecheckWriter
  BY <1>11, <1>1, <1>2, <1>3 DEF RecheckWriter, NextTable, Goto, Done, Steps
<1>12. CASE BackupBegin
  BY <1>12, <1>1, <1>2, <1>3 DEF BackupBegin, NextTable, Goto, Done, Steps
<1>13. CASE BackupComplete
  BY <1>13, <1>1, <1>2, <1>3 DEF BackupComplete, NextTable, Goto, Done, Steps
<1>14. CASE SaveReplace
  BY <1>14, <1>1, <1>2, <1>3 DEF SaveReplace, NextTable, Goto, Done, Steps
<1>15. CASE SkipReplaced
  BY <1>15, <1>1, <1>2, <1>3 DEF SkipReplaced, NextTable, Goto, Done, Steps
<1>16. CASE DropTable
  BY <1>16, <1>1, <1>2, <1>3 DEF DropTable, NextTable, Goto, Done, Steps
<1>17. CASE CreateTable
  BY <1>17, <1>1, <1>2, <1>3 DEF CreateTable, NextTable, Goto, Done, Steps
<1>18. CASE LabelTable
  BY <1>18, <1>1, <1>2, <1>3 DEF LabelTable, NextTable, Goto, Done, Steps
<1>19. CASE SealTable
  BY <1>19, <1>1, <1>2, <1>3 DEF SealTable, NextTable, Goto, Done, Steps
<1>20. CASE SavePending
  BY <1>20, <1>1, <1>2, <1>3 DEF SavePending, NextTable, Goto, Done, Steps
<1>21. CASE ClearSwitching
  BY <1>21, <1>1, <1>2, <1>3 DEF ClearSwitching, NextTable, Goto, Done, Steps
<1>22. CASE DropBackup
  BY <1>22, <1>1, <1>2, <1>3 DEF DropBackup, NextTable, Goto, Done, Steps
<1>23. CASE SaveAbandoned
  BY <1>23, <1>1, <1>2, <1>3 DEF SaveAbandoned, NextTable, Goto, Done, Steps
<1>24. CASE SaveDiscard
  BY <1>24, <1>1, <1>2, <1>3 DEF SaveDiscard, NextTable, Goto, Done, Steps
<1>25. CASE MarkDiscarding
  BY <1>25, <1>1, <1>2, <1>3 DEF MarkDiscarding, NextTable, Goto, Done, Steps
<1>26. CASE SaveDiscarded
  BY <1>26, <1>1, <1>2, <1>3 DEF SaveDiscarded, NextTable, Goto, Done, Steps
<1>27. CASE PurgeTable
  BY <1>27, <1>1, <1>2, <1>3 DEF PurgeTable, NextTable, Goto, Done, Steps
<1>28. CASE Verify
  BY <1>28, <1>1, <1>2, <1>3 DEF Verify, NextTable, Goto, Done, Steps
<1>29. CASE MarkCommitting
  BY <1>29, <1>1, <1>2, <1>3 DEF MarkCommitting, NextTable, Goto, Done, Steps
<1>30. CASE SaveCommit
  BY <1>30, <1>1, <1>2, <1>3 DEF SaveCommit, NextTable, Goto, Done, Steps
<1>31. CASE SaveCompleted
  BY <1>31, <1>1, <1>2, <1>3 DEF SaveCompleted, NextTable, Goto, Done, Steps
<1>32. CASE Unmark
  BY <1>32, <1>1, <1>2, <1>3 DEF Unmark, NextTable, Goto, Done, Steps
<1>33. CASE Retain
  BY <1>33, <1>1, <1>2, <1>3 DEF Retain, NextTable, Goto, Done, Steps
<1>34. CASE SaveCancel
  BY <1>34, <1>1, <1>2, <1>3 DEF SaveCancel, NextTable, Goto, Done, Steps
<1>35. CASE MarkRestoring
  BY <1>35, <1>1, <1>2, <1>3 DEF MarkRestoring, NextTable, Goto, Done, Steps
<1>36. CASE SwapIn
  BY <1>36, <1>1, <1>2, <1>3 DEF SwapIn, NextTable, Goto, Done, Steps
<1>37. CASE SaveRestored
  BY <1>37, <1>1, <1>2, <1>3 DEF SaveRestored, NextTable, Goto, Done, Steps
<1> QED BY <1>10, <1>11, <1>12, <1>13, <1>14, <1>15, <1>16, <1>17, <1>18, <1>19, <1>20, <1>21, <1>22, <1>23, <1>24, <1>25, <1>26, <1>27, <1>28, <1>29, <1>30, <1>31, <1>32, <1>33, <1>34, <1>35, <1>36, <1>37 DEF CommandStep

\* A step of a command keeps the attempt.
LEMMA CommandRecords ==
    ASSUME Base, CommandStep
    PROVE  rec' \in AttemptRecords /\ rec'.id = rec.id
<1>1. rec \in AttemptRecords
  BY CommandMoves DEF Base, TypeOK
<1>2. ASSUME SaveReplace \/ SavePending \/ SaveAbandoned \/ SaveDiscard \/ SaveDiscarded
             \/ SaveCommit \/ SaveCompleted \/ SaveCancel \/ SaveRestored
      PROVE  rec' \in AttemptRecords /\ rec'.id = rec.id
  BY <1>1, <1>2 DEF AttemptRecords, SaveReplace, SavePending, SaveAbandoned, SaveDiscard,
         SaveDiscarded, SaveCommit, SaveCompleted, SaveCancel, SaveRestored
<1>3. ASSUME ~(SaveReplace \/ SavePending \/ SaveAbandoned \/ SaveDiscard \/ SaveDiscarded
               \/ SaveCommit \/ SaveCompleted \/ SaveCancel \/ SaveRestored)
      PROVE  rec' = rec
  BY <1>3 DEF CommandStep, MarkSwitching, RecheckWriter, BackupBegin, BackupComplete,
         SkipReplaced, DropTable, CreateTable, LabelTable, SealTable, ClearSwitching,
         DropBackup, MarkDiscarding, PurgeTable, Verify, MarkCommitting, Unmark, Retain,
         MarkRestoring, SwapIn
<1> QED BY <1>1, <1>2, <1>3

\* The backup of a restore under way is kept, and every backup has its type.
LEMMA CommandBacksUp ==
    ASSUME Base, CommandStep
    PROVE  /\ backup' \in Backups \cup {None}
           /\ cmd.pc \in {"save_cancel", "restore_mark", "swap"} => backup' = backup
<1>1. backup \in Backups \cup {None} /\ table \in [Tables -> VectorTables]
  BY DEF Base, TypeOK
<1>2. None \in VectorTables
  BY DEF VectorTables
<1>3. ASSUME BackupBegin \/ BackupComplete \/ DropBackup \/ Retain
      PROVE  /\ backup' \in Backups \cup {None}
             /\ cmd.pc \notin {"save_cancel", "restore_mark", "swap"}
  <2>1. /\ [complete |-> FALSE, tables |-> [t \in Tables |-> None]] \in Backups
        /\ [complete |-> TRUE, tables |-> table] \in Backups
    BY <1>1, <1>2 DEF Backups
  <2> QED BY <2>1, <1>1, <1>3 DEF BackupBegin, BackupComplete, DropBackup, Retain
<1>4. ASSUME ~(BackupBegin \/ BackupComplete \/ DropBackup \/ Retain)
      PROVE  backup' = backup
  BY <1>4 DEF CommandStep, MarkSwitching, RecheckWriter, SaveReplace, SkipReplaced,
         DropTable, CreateTable, LabelTable, SealTable, SavePending, ClearSwitching,
         SaveAbandoned, SaveDiscard, MarkDiscarding, SaveDiscarded, PurgeTable, Verify,
         MarkCommitting, SaveCommit, SaveCompleted, Unmark, SaveCancel, MarkRestoring,
         SwapIn, SaveRestored
<1> QED BY <1>1, <1>3, <1>4

LEMMA CommandSources ==
    ASSUME Base, CommandStep
    PROVE  source' \in [Tables -> Rows]
<1>1. source \in [Tables -> Rows] /\ Empty \in Rows
  BY DEF Base, TypeOK, Rows
<1>2. CASE SaveDiscard
  BY <1>1, <1>2 DEF SaveDiscard
<1>3. CASE SaveCompleted
  BY <1>3, OpenOrCreateIs DEF SaveCompleted
<1>4. CASE SaveCancel
  <2>1. UsableBackup /\ \A t \in Tables : backup.tables[t] \in VectorTables
    BY <1>4 DEF Base, TypeOK, SaveCancel, UsableBackup, Backups
  <2>2. \A t \in Tables : RowsOf(backup.tables[t]) \in Rows
    BY <2>1, <1>1, RecordsAre DEF RowsOf, TableRecords
  <2> QED BY <1>1, <1>4, <2>2 DEF SaveCancel
<1>5. ASSUME ~(SaveDiscard \/ SaveCompleted \/ SaveCancel)
      PROVE  source' = source
  BY <1>5 DEF CommandStep, MarkSwitching, RecheckWriter, BackupBegin, BackupComplete,
         SaveReplace, SkipReplaced, DropTable, CreateTable, LabelTable, SealTable,
         SavePending, ClearSwitching, DropBackup, SaveAbandoned, MarkDiscarding,
         SaveDiscarded, PurgeTable, Verify, MarkCommitting, SaveCommit, Unmark, Retain,
         MarkRestoring, SwapIn, SaveRestored
<1> QED BY <1>1, <1>2, <1>3, <1>4, <1>5

\* A step of a command writes tables, and only markers of its own attempt.
LEMMA CommandWrites ==
    ASSUME Base, CommandStep
    PROVE  /\ table' \in [Tables -> VectorTables]
           /\ \A t \in Tables : MarkerOf(t)' # None => MarkerOf(t)'.attempt = rec.id
<1>1. /\ rec # None /\ cmd.at \in Nat
      /\ cmd.pc # "swap" => cmd.at \in Tables
  BY CommandMoves, TablesAre DEF Base, TypeOK
<1>2. /\ table \in [Tables -> VectorTables]
      /\ \A t \in Tables : MarkerOf(t) # None => MarkerOf(t).attempt = rec.id
  BY DEF Base, TypeOK
<1> DEFINE Marks == {None} \cup {Mine(s) : s \in MarkerStates}
<1>3. /\ Marks \subseteq Markers
      /\ \A m \in Marks : m # None => m.attempt = rec.id
      /\ None \in Marks
      /\ \A s \in MarkerStates : Mine(s) \in Marks
  BY <1>1, MineIs DEF Markers
<1> HIDE DEF Marks
<1>4. ASSUME cmd.pc # "swap", NEW m \in Marks, SetMarker(cmd.at, m) \/ MarkAll(m)
      PROVE  /\ table' \in [Tables -> VectorTables]
             /\ \A t \in Tables : MarkerOf(t)' # None => MarkerOf(t)'.attempt = rec.id
  <2>1. m \in Markers /\ cmd.at \in Tables
    BY <1>1, <1>3, <1>4
  <2>2. CASE SetMarker(cmd.at, m)
    <3>1. /\ table' \in [Tables -> VectorTables]
          /\ \A t \in Tables : MarkerOf(t)' = IF t = cmd.at THEN m ELSE MarkerOf(t)
      BY <2>1, <2>2, SetMarkerIs
    <3>2. m # None => m.attempt = rec.id
      BY <1>3, <1>4
    <3>3. ASSUME NEW t \in Tables, MarkerOf(t)' # None
          PROVE  MarkerOf(t)'.attempt = rec.id
      BY <3>1, <3>2, <3>3, <1>2
    <3> QED BY <3>1, <3>3
  <2>3. CASE table' = table
    BY <2>3, <1>2 DEF MarkerOf
  <2> QED BY <1>4, <2>2, <2>3 DEF MarkAll
<1>5. ASSUME cmd.pc # "swap", NEW v \in VectorTables, SetTable(cmd.at, v),
             v # None => v.marker = None
      PROVE  /\ table' \in [Tables -> VectorTables]
             /\ \A t \in Tables : MarkerOf(t)' # None => MarkerOf(t)'.attempt = rec.id
  BY <1>1, <1>2, <1>5, SetTableIs
<1>6. ASSUME MarkSwitching \/ SealTable \/ ClearSwitching \/ MarkDiscarding
             \/ MarkCommitting \/ Unmark \/ MarkRestoring
      PROVE  /\ cmd.pc # "swap"
             /\ \/ \E m \in Marks : SetMarker(cmd.at, m) \/ MarkAll(m)
                \/ table' = table
  BY <1>3, <1>6 DEF MarkerStates, MarkSwitching, SealTable, ClearSwitching, MarkDiscarding,
         MarkCommitting, Unmark, MarkRestoring
<1>7. CASE DropTable
  BY <1>5, <1>7 DEF DropTable, VectorTables
<1>8. CASE CreateTable
  <2>1. OpenOrCreate(cmd.at) \in TableRecords
    BY <1>1, <1>8, OpenOrCreateIs DEF CreateTable
  <2>2. ASSUME table[cmd.at] = None PROVE OpenOrCreate(cmd.at).marker = None
    BY <2>2 DEF OpenOrCreate, NewTable
  <2>3. OpenOrCreate(cmd.at) \in VectorTables /\ OpenOrCreate(cmd.at).marker = MarkerOf(cmd.at)
    BY <1>1, <1>8, <2>1, RecordsAre, OpenOrCreateIs DEF CreateTable
  <2>4. cmd.at \in Tables /\ SetTable(cmd.at, OpenOrCreate(cmd.at))
    BY <1>1, <1>8 DEF CreateTable
  <2> QED BY <1>2, <2>1, <2>3, <2>4, SetTableIs
<1>9. CASE LabelTable
  <2> DEFINE v == [OpenOrCreate(cmd.at) EXCEPT !.space = rec.target]
  <2>1. cmd.at \in Tables /\ SetTable(cmd.at, v)
    BY <1>1, <1>9 DEF LabelTable
  <2>2. OpenOrCreate(cmd.at) \in TableRecords /\ OpenOrCreate(cmd.at).marker = MarkerOf(cmd.at)
    BY <2>1, OpenOrCreateIs
  <2>3. rec.target \in Spaces
    BY <1>1 DEF Base, TypeOK, AttemptRecords
  <2>4. v \in TableRecords /\ v.marker = MarkerOf(cmd.at)
    BY <2>2, <2>3 DEF TableRecords
  <2> HIDE DEF v
  <2> QED BY <1>2, <2>1, <2>4, RecordsAre, SetTableIs
<1>10. CASE PurgeTable
  <2>1. cmd.at \in Tables /\ None \in VectorTables
    BY <1>1, <1>10 DEF PurgeTable, VectorTables
  <2>2. CASE SetTable(cmd.at, None)
    BY <2>1, <2>2, <1>2, SetTableIs
  <2>3. CASE table' = table
    BY <2>3, <1>2 DEF MarkerOf
  <2> QED BY <1>10, <2>2, <2>3 DEF PurgeTable
<1>11. CASE SwapIn
  <2>1. backup # None /\ backup.tables \in [Tables -> VectorTables]
    BY <1>11 DEF Base, TypeOK, SwapIn, UsableBackup, Backups
  <2>2. \A t \in Tables : table'[t] =
           IF DirOf[t] # cmd.at THEN table[t]
           ELSE IF backup.tables[t] = None THEN None
           ELSE [backup.tables[t] EXCEPT !.marker = Mine("restoring")]
    BY <1>11 DEF SwapIn
  <2>3. Mine("restoring") \in Markers /\ Mine("restoring").attempt = rec.id
    BY <1>1, MineIs DEF MarkerStates
  <2>4. ASSUME NEW t \in Tables, backup.tables[t] # None
        PROVE  LET v == [backup.tables[t] EXCEPT !.marker = Mine("restoring")]
               IN  v \in TableRecords /\ v.marker = Mine("restoring")
    BY <2>1, <2>3, <2>4, RecordsAre DEF TableRecords
  <2>5. ASSUME NEW t \in Tables
        PROVE  /\ table'[t] \in VectorTables
               /\ MarkerOf(t)' # None => MarkerOf(t)'.attempt = rec.id
    <3>1. CASE DirOf[t] # cmd.at
      BY <3>1, <2>2, <1>2 DEF MarkerOf
    <3>2. CASE DirOf[t] = cmd.at /\ backup.tables[t] = None
      BY <3>2, <2>2, RecordsAre DEF MarkerOf
    <3>3. CASE DirOf[t] = cmd.at /\ backup.tables[t] # None
      <4>1. table'[t] \in TableRecords /\ table'[t].marker = Mine("restoring")
        BY <3>3, <2>2, <2>4
      <4> QED BY <4>1, <2>3, RecordsAre DEF MarkerOf
    <3> QED BY <3>1, <3>2, <3>3
  <2>6. table' = [t \in Tables |-> table'[t]]
    BY <1>11 DEF SwapIn
  <2> QED BY <2>5, <2>6
<1>12. ASSUME ~(MarkSwitching \/ SealTable \/ ClearSwitching \/ MarkDiscarding
                \/ MarkCommitting \/ Unmark \/ MarkRestoring \/ DropTable \/ CreateTable
                \/ LabelTable \/ PurgeTable \/ SwapIn)
       PROVE  table' = table
  BY <1>12 DEF CommandStep, RecheckWriter, BackupBegin, BackupComplete, SaveReplace,
         SkipReplaced, SavePending, DropBackup, SaveAbandoned, SaveDiscard, SaveDiscarded,
         Verify, SaveCommit, SaveCompleted, Retain, SaveCancel, SaveRestored
<1> QED BY <1>2, <1>4, <1>6, <1>7, <1>8, <1>9, <1>10, <1>11, <1>12 DEF MarkerOf

-----------------------------------------------------------------------------
(* The base holds throughout.                                              *)

LEMMA InitBase == Init => Base
<1> SUFFICES ASSUME Init PROVE Base
  OBVIOUS
<1>1. TypeOK
  <2>1. cmd \in [op: Operations, pc: Steps, at: 1..(TableCount + DirCount)]
        /\ cmd.pc # "swap" /\ cmd.at \in Tables
    BY TablesAre, LayoutAssumption DEF Init, Idle, Operations, Steps, Tables
  <2>2. server \in [phase: {"down", "opening", "labelling", "up"}, space: Spaces \cup {None},
                    rebuilding: Attempts \cup {None}, todo: SUBSET Tables]
    BY DEF Init, Down
  <2>3. /\ table \in [Tables -> VectorTables] /\ source \in [Tables -> Rows]
    BY DEF Init, VectorTables, Rows
  <2>4. edition \in 0..MaxEdits /\ faults \in 0..MaxFaults
    BY MigrationBounds DEF Init
  <2> QED BY <2>1, <2>2, <2>3, <2>4 DEF TypeOK, Init
<1>2. \A t \in Tables : MarkerOf(t) = None
  BY DEF Init, MarkerOf
<1> QED BY <1>1, <1>2 DEF Base, Init, Idle, Down

\* What a step does to the variables, one by one, is enough for the base.
LEMMA BaseBy ==
    ASSUME Base,
           table' \in [Tables -> VectorTables],
           rec' \in AttemptRecords,
           \A t \in Tables : MarkerOf(t)' # None => MarkerOf(t)'.attempt = rec'.id,
           backup' \in Backups \cup {None},
           Placed(cmd'),
           cmd'.pc \in {"save_cancel", "restore_mark", "swap"} => UsableBackup',
           source' \in [Tables -> Rows],
           faults' \in 0..MaxFaults,
           UNCHANGED <<server, edition>>
    PROVE  Base'
<1>1. rec' # None
  BY NothingAssumption
<1>2. /\ server' \in [phase: {"down", "opening", "labelling", "up"}, space: Spaces \cup {None},
                     rebuilding: Attempts \cup {None}, todo: SUBSET Tables]
      /\ edition' \in 0..MaxEdits
      /\ server'.phase # "down" => server'.space \in Spaces
  BY DEF Base, TypeOK
<1>3. TypeOK'
  BY <1>2, PlacedIs DEF TypeOK
<1> QED BY <1>1, <1>2, <1>3 DEF Base

LEMMA CommandKeepsBase == ASSUME Base, CommandStep PROVE Base'
<1>1. UNCHANGED <<server, edition, faults>>
  BY DEF CommandStep, MarkSwitching, RecheckWriter, BackupBegin, BackupComplete, SaveReplace,
         SkipReplaced, DropTable, CreateTable, LabelTable, SealTable, SavePending,
         ClearSwitching, DropBackup, SaveAbandoned, SaveDiscard, MarkDiscarding,
         SaveDiscarded, PurgeTable, Verify, MarkCommitting, SaveCommit, SaveCompleted,
         Unmark, Retain, SaveCancel, MarkRestoring, SwapIn, SaveRestored
<1>2. faults' \in 0..MaxFaults
  BY <1>1 DEF Base, TypeOK
<1>3. cmd'.pc \in {"save_cancel", "restore_mark", "swap"} => UsableBackup'
  BY CommandMoves, CommandBacksUp DEF Base, UsableBackup
<1>4. \A t \in Tables : MarkerOf(t)' # None => MarkerOf(t)'.attempt = rec'.id
  BY CommandWrites, CommandRecords
<1> QED BY <1>1, <1>2, <1>3, <1>4, CommandMoves, CommandWrites, CommandRecords,
        CommandBacksUp, CommandSources, BaseBy

LEMMA BeginningKeepsBase ==
    ASSUME Base,
           \/ \E method \in {"backup", "no_backup"}, target \in Spaces : SwitchNew(method, target)
           \/ Continue
    PROVE  Base'
<1>1. ASSUME NEW op \in Operations, NEW pc \in Steps \ {"swap"}, Begin(op, pc)
      PROVE  Placed(cmd') /\ cmd'.pc = pc
  BY <1>1, TablesAre DEF Begin, Placed
<1>2. ASSUME NEW method \in {"backup", "no_backup"}, NEW target \in Spaces,
             SwitchNew(method, target)
      PROVE  Base'
  <2>1. /\ rec' \in AttemptRecords
        /\ table' = table /\ \A t \in Tables : MarkerOf(t)' = None
    BY <1>2 DEF SwitchNew, AttemptRecords, MarkerOf
  <2>2. Placed(cmd') /\ cmd'.pc = "mark"
    BY <1>2, <1>1 DEF SwitchNew, Operations, Steps
  <2>3. /\ table' \in [Tables -> VectorTables] /\ source' \in [Tables -> Rows]
        /\ faults' \in 0..MaxFaults /\ backup' \in Backups \cup {None}
        /\ UNCHANGED <<server, edition>>
    BY <1>2 DEF SwitchNew, Base, TypeOK
  <2> QED BY <2>1, <2>2, <2>3, BaseBy
<1>3. ASSUME Continue PROVE Base'
  <2>1. rec # None /\ rec \in AttemptRecords
    BY <1>3 DEF Continue, ResumeBackup, ResumeReplace, AbandonUnreplaced, AbandonReplaced,
            Finalize, Restore, CanResume, CanAbandon, CanFinalize, CanRestore,
            EffectiveStage, Base, TypeOK
  <2>2. /\ Placed(cmd')
        /\ cmd'.pc \in {"save_cancel", "restore_mark", "swap"} => UsableBackup
    BY <1>3, <1>1 DEF Continue, ResumeBackup, ResumeReplace, AbandonUnreplaced, AbandonReplaced,
            Finalize, Restore, Operations, Steps
  <2>3. UNCHANGED <<table, rec, backup, server, edition, source, faults>>
    BY <1>3 DEF Continue, ResumeBackup, ResumeReplace, AbandonUnreplaced, AbandonReplaced,
            Finalize, Restore
  <2>4. /\ table' \in [Tables -> VectorTables] /\ source' \in [Tables -> Rows]
        /\ faults' \in 0..MaxFaults /\ backup' \in Backups \cup {None}
        /\ rec' \in AttemptRecords
        /\ \A t \in Tables : MarkerOf(t)' # None => MarkerOf(t)'.attempt = rec'.id
    BY <2>1, <2>3 DEF Base, TypeOK, MarkerOf
  <2> QED BY <2>2, <2>3, <2>4, BaseBy DEF UsableBackup
<1> QED BY <1>2, <1>3

LEMMA FaultKeepsBase == ASSUME Base, SkipDiscarding \/ Interrupted PROVE Base'
<1>1. /\ rec # None
      /\ UNCHANGED <<table, rec, backup, server, edition, source>>
      /\ faults' = faults + 1 /\ faults < MaxFaults
  BY DEF SkipDiscarding, Interrupted, Base, Idle
<1>2. Placed(cmd') /\ cmd'.pc \notin {"save_cancel", "restore_mark", "swap"}
  <2>1. CASE SkipDiscarding
    BY <2>1, AtIs, TablesAre DEF SkipDiscarding, NextTable, Goto, Placed, Steps
  <2>2. CASE Interrupted
    BY <2>2, TablesAre DEF Interrupted, Done, Idle, Placed, Operations, Steps
  <2> QED BY <2>1, <2>2
<1>3. /\ table' \in [Tables -> VectorTables] /\ source' \in [Tables -> Rows]
      /\ backup' \in Backups \cup {None}
      /\ rec' \in AttemptRecords
      /\ \A t \in Tables : MarkerOf(t)' # None => MarkerOf(t)'.attempt = rec'.id
  BY <1>1 DEF Base, TypeOK, MarkerOf
<1>4. faults' \in 0..MaxFaults
  BY <1>1, MigrationBounds DEF Base, TypeOK
<1> QED BY <1>1, <1>2, <1>3, <1>4, BaseBy

\* A server that has its type.
Hosted(s) ==
    /\ s \in [phase: {"down", "opening", "labelling", "up"}, space: Spaces \cup {None},
              rebuilding: Attempts \cup {None}, todo: SUBSET Tables]
    /\ s.phase # "down" => s.space \in Spaces

LEMMA ServerKeepsBase == ASSUME Base, ServerStep PROVE Base'
<1>1. /\ table \in [Tables -> VectorTables] /\ source \in [Tables -> Rows]
      /\ rec \in AttemptRecords \cup {None} /\ backup \in Backups \cup {None}
      /\ edition \in 0..MaxEdits /\ faults \in 0..MaxFaults
      /\ \A t \in Tables : MarkerOf(t) # None => rec # None /\ MarkerOf(t).attempt = rec.id
      /\ Hosted(server)
  BY DEF Base, TypeOK, Hosted
<1>2. ASSUME UNCHANGED <<rec, backup, cmd, faults>>,
             table' \in [Tables -> VectorTables],
             \A t \in Tables : MarkerOf(t)' = MarkerOf(t),
             source' \in [Tables -> Rows],
             edition' \in 0..MaxEdits,
             Hosted(server')
      PROVE  Base'
  <2>1. TypeOK'
    BY <1>2 DEF Base, TypeOK, Hosted
  <2> QED BY <2>1, <1>2 DEF Base, Hosted, UsableBackup, Idle
<1>3. ASSUME table' = table
      PROVE  \A t \in Tables : MarkerOf(t)' = MarkerOf(t)
  BY <1>3 DEF MarkerOf
<1>4. ASSUME \/ \E s \in Spaces : Announce(s)
             \/ Serve \/ EditRdb \/ StopServer
      PROVE  Base'
  <2>1. /\ UNCHANGED <<table, rec, backup, cmd, source, faults>>
        /\ edition' \in 0..MaxEdits
        /\ Hosted(server')
    <3>1. ASSUME NEW s \in Spaces, Announce(s)
          PROVE  Hosted(server') /\ edition' = edition
      BY <3>1 DEF Announce, Down, Hosted
    <3>2. Serve => Hosted(server') /\ edition' = edition
      BY <1>1 DEF Serve, Hosted
    <3>3. EditRdb => Hosted(server') /\ edition' \in 0..MaxEdits
      BY <1>1, MigrationBounds DEF EditRdb
    <3>4. StopServer => Hosted(server') /\ edition' = edition
      BY DEF StopServer, Down, Hosted
    <3> QED BY <3>1, <3>2, <3>3, <3>4, <1>1, <1>4 DEF Announce, Serve, EditRdb, StopServer
  <2> QED BY <2>1, <1>1, <1>2, <1>3
<1>5. CASE Bootstrap
  <2> DEFINE opened == [t \in Tables |-> OpenOrCreate(t)]
  <2>1. /\ opened \in [Tables -> TableRecords]
        /\ \A t \in Tables : opened[t].marker = MarkerOf(t) /\ MarkerOf(t) \in Markers
    BY OpenOrCreateIs
  <2>2. /\ table' = opened /\ UNCHANGED <<rec, backup, cmd, edition, source, faults>>
        /\ server.space \in Spaces
    BY <1>1, <1>5 DEF Bootstrap, Hosted
  <2>3. ASSUME Decide(opened, server.space) = "rebuild"
        PROVE  RebuildAttempt(opened) \in Attempts
    <3>1. \E t \in Tables : opened[t].marker # None
      BY <2>3 DEF Decide
    <3>2. PICK t \in Tables : /\ opened[t].marker # None
                            /\ RebuildAttempt(opened) = opened[t].marker.attempt
      BY <3>1 DEF RebuildAttempt
    <3> QED BY <3>2, <2>1 DEF Markers
  <2>4. Hosted(server')
    <3>1. Unrecorded(opened, server.space) \subseteq Tables
      BY DEF Unrecorded
    <3>2. \/ server' = Down
          \/ /\ Decide(opened, server.space) = "rebuild"
             /\ server' = [server EXCEPT !.phase = "up", !.rebuilding = RebuildAttempt(opened)]
          \/ server' = [server EXCEPT !.phase = "labelling",
                                      !.todo = Unrecorded(opened, server.space)]
      BY <1>5 DEF Bootstrap
    <3> HIDE DEF opened
    <3>3. Hosted(Down)
      BY DEF Hosted, Down
    <3>4. ASSUME Decide(opened, server.space) = "rebuild"
          PROVE  Hosted([server EXCEPT !.phase = "up", !.rebuilding = RebuildAttempt(opened)])
      BY <3>4, <2>2, <2>3, <1>1 DEF Hosted
    <3>5. Hosted([server EXCEPT !.phase = "labelling",
                                !.todo = Unrecorded(opened, server.space)])
      BY <3>1, <2>2, <1>1 DEF Hosted
    <3> QED BY <3>2, <3>3, <3>4, <3>5
  <2>5. \A t \in Tables : MarkerOf(t)' = MarkerOf(t)
    <3>1. ASSUME NEW t \in Tables PROVE MarkerOf(t)' = MarkerOf(t)
      <4>1. table'[t] = opened[t] /\ opened[t] # None
        BY <2>1, <2>2, RecordsAre
      <4> QED BY <4>1, <2>1 DEF MarkerOf
    <3> QED BY <3>1
  <2>6. table' \in [Tables -> VectorTables]
    BY <2>1, <2>2, RecordsAre
  <2> QED BY <1>1, <1>2, <2>2, <2>4, <2>5, <2>6
<1>6. ASSUME NEW t \in Tables, RecordSpace(t) PROVE Base'
  <2> DEFINE v == [table[t] EXCEPT !.space = server.space]
  <2>1. table[t] \in TableRecords /\ server.space \in Spaces
    BY <1>1, <1>6, RecordsAre DEF RecordSpace, Hosted
  <2>2. v \in TableRecords /\ v.marker = table[t].marker
    BY <2>1 DEF TableRecords
  <2>3. SetTable(t, v)
    BY <1>6 DEF RecordSpace
  <2> HIDE DEF v
  <2>4. /\ table' \in [Tables -> VectorTables]
        /\ \A u \in Tables : MarkerOf(u)' = MarkerOf(u)
    BY <1>6, <2>2, <2>3, RecordsAre, SetTableIs DEF MarkerOf, RecordSpace
  <2>5. /\ UNCHANGED <<rec, backup, cmd, edition, source, faults>>
        /\ Hosted(server')
    BY <1>1, <1>6 DEF RecordSpace, Hosted
  <2> QED BY <1>1, <1>2, <2>4, <2>5
<1>7. ASSUME NEW t \in Tables, Reembed(t) PROVE Base'
  <2> DEFINE fresh == [space |-> server.space, edition |-> edition]
             v == [table[t] EXCEPT !.rows = fresh]
  <2>1. table[t] \in TableRecords /\ fresh \in Rows
    BY <1>1, <1>7, RecordsAre, MigrationBounds DEF Reembed, Rows, Hosted
  <2>2. v \in TableRecords /\ v.marker = table[t].marker
    BY <2>1 DEF TableRecords
  <2>3. SetTable(t, v) /\ source' \in [Tables -> Rows]
    BY <1>1, <1>7, <2>1 DEF Reembed
  <2> HIDE DEF v
  <2>4. /\ table' \in [Tables -> VectorTables]
        /\ \A u \in Tables : MarkerOf(u)' = MarkerOf(u)
    BY <1>7, <2>2, <2>3, RecordsAre, SetTableIs DEF MarkerOf, Reembed
  <2>5. UNCHANGED <<rec, backup, cmd, edition, server, faults>>
    BY <1>7 DEF Reembed
  <2> QED BY <1>1, <1>2, <2>3, <2>4, <2>5
<1> QED BY <1>4, <1>5, <1>6, <1>7 DEF ServerStep

LEMMA BaseIsInductive == Base /\ [Next]_vars => Base'
<1>1. ASSUME Base, UNCHANGED vars PROVE Base'
  BY <1>1 DEF vars, Base, TypeOK, MarkerOf, UsableBackup, Idle
<1> QED BY <1>1, BeginningKeepsBase, CommandKeepsBase, FaultKeepsBase, ServerKeepsBase DEF Next

\* Every variable has its type, with any tables, faults and servers.
THEOREM TypeCorrect == Spec => []TypeOK
<1>1. Base => TypeOK
  BY DEF Base
<1> QED BY <1>1, InitBase, BaseIsInductive, PTL DEF Spec

\* A marker on a table always belongs to the recorded attempt, and this attempt
\* accepts a command, whatever was interrupted.
THEOREM EveryMarkerHasAWayOut == Spec => []MarkersAccountedFor
<1>1. Base => MarkersAccountedFor
  <2> SUFFICES ASSUME Base, NEW t \in Tables, MarkerOf(t) # None
               PROVE  /\ rec # None /\ MarkerOf(t).attempt = rec.id
                      /\ CanResume \/ CanAbandon \/ CanFinalize \/ CanRestore
    BY DEF MarkersAccountedFor
  <2>1. rec # None /\ MarkerOf(t).attempt = rec.id
    BY DEF Base
  <2>2. Marked
    BY <2>1 DEF Marked
  <2> QED BY <2>1, <2>2 DEF EffectiveStage, CanResume, CanAbandon, CanFinalize, CanRestore
<1> QED BY <1>1, InitBase, BaseIsInductive, PTL DEF Spec


-----------------------------------------------------------------------------
(* The attempt by its record: what has been decided, table by table.       *)

Running == rec.status = "running"

\* Begun, but nothing is replaced yet.
Fresh == Running /\ rec.stage = "backup"

\* Replacement has begun and neither completed nor undone.
Forward == Running /\ rec.cancel = "none" /\ rec.stage # "backup"

Discarding == Running /\ rec.cancel = "discard"

Undoing == rec.cancel = "restore" /\ rec.status # "restored"

RecordShape ==
    rec # None =>
        /\ rec.discarded <=> rec.cancel = "discard"
        /\ rec.cancel = "discard" => rec.method = "no_backup" /\ rec.status \in {"running", "abandoned"}
        /\ rec.cancel = "restore" => rec.method = "backup" /\ rec.status # "abandoned"
        /\ rec.status = "restored" => rec.cancel = "restore"
        /\ rec.status = "completed" => rec.stage = "commit"
        /\ rec.status = "abandoned" /\ rec.cancel = "none" => rec.stage = "backup"
        /\ rec.stage = "backup" => rec.cancel = "none" /\ rec.status \in {"running", "abandoned"}

\* The states of markers of the attempt, none included.
MarkedAs(states) == \A t \in Tables : MarkerOf(t) \in {Mine(s) : s \in states}

MarkedAtMost(states) == \A t \in Tables : MarkerOf(t) \in {Mine(s) : s \in states} \cup {None}

Original == \A t \in Tables : RowsOf(table[t]) = source[t]

MarkersFit ==
    rec # None =>
        /\ Fresh => MarkedAtMost({"switching"})
        /\ Forward =>
             /\ Marked
             /\ MarkedAtMost({"switching", "pending", "committing"})
             /\ rec.stage = "rebuild_pending" => MarkedAs({"pending", "committing"})
             /\ rec.stage = "commit" => MarkedAs({"committing"})
             /\ AnyMine("committing") => MarkedAs({"pending", "committing"}) /\ Rebuilt
        /\ rec.status = "completed" /\ rec.cancel = "none" =>
             /\ MarkedAtMost({"committing"})
             /\ Marked => Rebuilt
        /\ rec.status = "abandoned" => MarkedAtMost({"discarding"})
        /\ rec.status = "abandoned" /\ rec.cancel = "none" => MarkedAtMost({})
        /\ rec.status = "restored" => MarkedAtMost({"restoring"})
        /\ Undoing => Marked
        /\ Discarding => MarkedAtMost({"switching", "pending", "discarding"})

\* A row belongs to the space its table is recorded for.
Recorded(v) == v # None /\ v.rows # Empty => v.space = v.rows.space

TablesFit ==
    \A t \in Tables :
        /\ Recorded(table[t])
        /\ rec # None /\ MarkerOf(t) = Mine("pending") => table[t].space = rec.target
        /\ rec # None /\ rec.status = "abandoned" /\ MarkerOf(t) = Mine("discarding") =>
               table[t].rows = Empty

BackedUp ==
    /\ UsableBackup
    /\ \A t \in Tables : RowsOf(backup.tables[t]) = source[t]

BackupFits ==
    UsableBackup => \A t \in Tables : backup.tables[t] # None /\ Recorded(backup.tables[t])

\* Where the rows of the last normal operation are.
SourceIs ==
    /\ rec = None => Original
    /\ rec # None =>
        /\ Fresh \/ rec.status \in {"restored", "abandoned"} => Original
        /\ rec.status = "completed" /\ rec.cancel = "none" => Original
        /\ Forward /\ rec.method = "backup" => BackedUp
        /\ Undoing => BackedUp

Gone == \A t \in Tables : source[t] = Empty

\* The tables before the one at hand.
Passed == {t \in Tables : t < cmd.at}

Later == {t \in Tables : t > cmd.at}

\* What a command has established when it is at pc.
SwitchAt ==
    /\ cmd.op = "switch" => cmd.pc \in {"mark", "recheck", "backup", "copy", "save_replace",
                             "replace", "create", "label", "seal", "save_pending"}
    /\ cmd.pc \in {"mark", "recheck", "backup", "copy", "save_replace"} => cmd.op = "switch" /\ Fresh
    /\ cmd.pc = "mark" => \A t \in Passed : MarkerOf(t) = Mine("switching")
    /\ cmd.pc \in {"recheck", "backup", "copy", "save_replace"} => MarkedAs({"switching"})
    /\ cmd.pc \in {"backup", "copy"} => rec.method = "backup"
    /\ cmd.pc = "save_replace" /\ rec.method = "backup" => BackedUp
    /\ cmd.pc \in {"replace", "create", "label", "seal", "save_pending"} /\ cmd.op = "switch" =>
          Forward /\ rec.stage = "replace"
    /\ cmd.pc \in {"replace", "create", "label", "seal"} /\ cmd.op = "switch" =>
          /\ \A t \in Passed : MarkerOf(t) = Mine("pending")
          /\ \A t \in Later : MarkerOf(t) \in {Mine("pending"), Mine("switching")}
    /\ cmd.pc = "replace" /\ cmd.op = "switch" =>
          MarkerOf(cmd.at) \in {Mine("pending"), Mine("switching")}
    /\ cmd.pc = "create" => table[cmd.at] = None
    /\ cmd.pc = "label" => cmd.op = "switch" /\ table[cmd.at] = NewTable
    /\ cmd.pc = "seal" => table[cmd.at] = [NewTable EXCEPT
                              !.space = IF cmd.op = "switch" THEN rec.target ELSE None]
    /\ cmd.pc = "save_pending" => cmd.op = "switch" /\ MarkedAs({"pending"})

CancelAt ==
    /\ cmd.op = "abandon" => cmd.pc \in {"clear", "drop_backup", "save_abandoned"}
    /\ cmd.pc \in {"clear", "drop_backup", "save_abandoned"} => cmd.op = "abandon" /\ Fresh
    /\ cmd.pc = "clear" => \A t \in Passed : MarkerOf(t) = None
    /\ cmd.pc \in {"drop_backup", "save_abandoned"} => MarkedAtMost({})
    /\ cmd.op = "discard" => cmd.pc \in {"save_discard", "discard_mark", "replace", "create",
                                         "seal", "save_discarded", "purge"}
    /\ cmd.pc \in {"save_discard", "discard_mark", "save_discarded", "purge"} => cmd.op = "discard"
    /\ cmd.pc = "save_discard" =>
          /\ rec.method = "no_backup" /\ (Forward \/ Discarding)
          /\ MarkedAtMost({"switching", "pending", "discarding"})
    /\ cmd.op = "discard" /\ cmd.pc \notin {"save_discard", "purge"} => Discarding /\ Gone
    /\ cmd.op = "discard" /\ cmd.pc \in {"replace", "create", "seal"} =>
          \A t \in Passed : MarkerOf(t) = Mine("discarding") /\ table[t].rows = Empty
    /\ cmd.pc = "save_discarded" =>
          \A t \in Tables : MarkerOf(t) = Mine("discarding") /\ table[t].rows = Empty
    /\ cmd.pc = "purge" => rec.status = "abandoned" /\ rec.discarded

FinishAt ==
    /\ cmd.op = "finalize" => cmd.pc \in {"verify", "commit_mark", "save_commit",
                                          "save_completed", "unmark", "retain"}
    /\ cmd.pc \in {"verify", "commit_mark", "save_commit", "save_completed"} =>
          cmd.op = "finalize" /\ Forward
    /\ cmd.pc = "verify" => MarkedAs({"pending"})
    /\ cmd.pc = "commit_mark" => MarkedAs({"pending", "committing"}) /\ Rebuilt
    /\ cmd.pc = "commit_mark" => \A t \in Passed : MarkerOf(t) = Mine("committing")
    /\ cmd.pc \in {"save_commit", "save_completed"} => MarkedAs({"committing"})
    /\ cmd.pc = "save_completed" => rec.stage = "commit"
    /\ cmd.pc \in {"unmark", "retain"} /\ cmd.op = "finalize" =>
          rec.status = "completed" /\ rec.cancel = "none"
    /\ cmd.pc = "unmark" => cmd.op \in {"finalize", "restore"}
    /\ cmd.pc = "retain" => cmd.op = "finalize"

RestoreAt ==
    /\ cmd.op = "restore" => cmd.pc \in {"save_cancel", "restore_mark", "swap",
                                         "save_restored", "unmark"} /\ UsableBackup
    /\ cmd.pc \in {"save_cancel", "restore_mark", "swap", "save_restored"} =>
          cmd.op = "restore" /\ Marked
    /\ cmd.pc = "save_cancel" =>
          /\ rec.method = "backup"
          /\ Forward \/ rec.status = "completed" \/ Undoing
    /\ cmd.pc \in {"restore_mark", "swap", "save_restored"} => Undoing
    /\ cmd.pc = "restore_mark" =>
          \A t \in Passed : table[t] = None \/ MarkerOf(t) = Mine("restoring")
    /\ cmd.pc \in {"swap", "save_restored"} =>
          \A t \in Tables : table[t] = None \/ MarkerOf(t) = Mine("restoring")
    /\ cmd.pc = "swap" =>
          \A t \in Tables : DirOf[t] < cmd.at => RowsOf(table[t]) = source[t]
    /\ cmd.pc = "save_restored" => Original
    /\ cmd.pc = "unmark" /\ cmd.op = "restore" => rec.status = "restored"

CommandAt ==
    /\ cmd.op = "none" <=> cmd = Idle
    /\ cmd.op = "none" <=> cmd.pc = "idle"
    /\ cmd # Idle => rec # None /\ server.phase = "down"
    /\ cmd # Idle => SwitchAt /\ CancelAt /\ FinishAt /\ RestoreAt

\* What the server relies on once it has decided to start.
ServerAt ==
    /\ server.phase \in {"opening", "labelling"} => server.rebuilding = None
    /\ server.phase \in {"labelling", "up"} => \A t \in Tables :
        /\ table[t] # None
        /\ table[t].marker = IF server.rebuilding = None THEN None
                             ELSE [state |-> "pending", attempt |-> server.rebuilding]
        /\ IF server.phase = "labelling" /\ t \in server.todo THEN table[t].rows = Empty
           ELSE table[t].space = server.space

Inv ==
    /\ RecordShape /\ MarkersFit /\ TablesFit /\ BackupFits /\ SourceIs
    /\ CommandAt /\ ServerAt

-----------------------------------------------------------------------------
(* Marks and stages.                                                       *)

\* The states of markers are told apart.
LEMMA MineDiffer ==
    ASSUME Base, rec # None, NEW s \in MarkerStates, NEW u \in MarkerStates, Mine(s) = Mine(u)
    PROVE  s = u
BY MineIs

LEMMA MarksAre ==
    ASSUME Base, rec # None
    PROVE  /\ Marked <=> \E t \in Tables : MarkerOf(t) # None
           /\ \A t \in Tables : \/ MarkerOf(t) = None
                               \/ \E s \in MarkerStates : MarkerOf(t) = Mine(s)
<1>1. Marked <=> \E t \in Tables : MarkerOf(t) # None
  BY DEF Base, Marked
<1>2. ASSUME NEW t \in Tables, MarkerOf(t) # None
      PROVE  \E s \in MarkerStates : MarkerOf(t) = Mine(s)
  <2>1. MarkerOf(t) \in [state: MarkerStates, attempt: Attempts]
    BY <1>2, OpenOrCreateIs DEF Markers
  <2>2. MarkerOf(t).attempt = rec.id
    BY <1>2 DEF Base
  <2>3. MarkerOf(t) = Mine(MarkerOf(t).state)
    BY <2>1, <2>2 DEF Mine
  <2> QED BY <2>1, <2>3
<1> QED BY <1>1, <1>2

\* What each effective stage says of the record and the markers.
LEMMA StageMeans ==
    ASSUME Base, RecordShape, MarkersFit
    PROVE  /\ EffectiveStage = "none" => rec = None \/ (~Running /\ ~Marked)
           /\ EffectiveStage # "none" => rec # None
           /\ EffectiveStage = "backup" => Fresh
           /\ EffectiveStage = "replace" => Forward /\ MarkedAtMost({"switching", "pending"})
           /\ EffectiveStage = "rebuild_pending" => Forward /\ MarkedAs({"pending"})
           /\ EffectiveStage = "commit" =>
                 \/ Forward /\ MarkedAs({"pending", "committing"}) /\ Rebuilt
                 \/ rec.status = "completed" /\ rec.cancel = "none" /\ Marked /\ Rebuilt
           /\ EffectiveStage = "restoring" => Undoing \/ (rec.status = "restored" /\ Marked)
           /\ EffectiveStage = "discarding" => Discarding \/ (rec.status = "abandoned" /\ rec.discarded)
<1>1. CASE rec = None
  BY <1>1 DEF EffectiveStage
<1>2. CASE rec # None /\ ~Running /\ ~Marked
  BY <1>2 DEF EffectiveStage, Running
<1>3. CASE rec # None /\ (Running \/ Marked)
  <2> DEFINE live == rec.cancel = "restore" \/ AnyMine("restoring") \/ rec.status = "restored"
             gone == \/ rec.cancel = "discard" \/ AnyMine("discarding")
                     \/ rec.status = "abandoned" /\ rec.discarded
  <2>1. rec \in AttemptRecords
    BY <1>3 DEF Base, TypeOK
  <2>2. \A s \in MarkerStates, u \in MarkerStates : Mine(s) = Mine(u) => s = u
    BY <1>3, MineDiffer
  <2>3. \A s \in MarkerStates : Mine(s) # None
    BY <1>3, MineIs
  <2>4. live => Undoing \/ (rec.status = "restored" /\ Marked)
    BY <1>3, <2>1, <2>2, <2>3 DEF RecordShape, MarkersFit, Undoing, Running, Fresh, Forward,
       Discarding, AnyMine, MarkedAtMost, MarkedAs, AttemptRecords, MarkerStates
  <2>5. ~live /\ gone => Discarding \/ (rec.status = "abandoned" /\ rec.discarded)
    BY <1>3, <2>1, <2>2, <2>3 DEF RecordShape, MarkersFit, Undoing, Running, Fresh, Forward,
       Discarding, AnyMine, MarkedAtMost, MarkedAs, AttemptRecords, MarkerStates
  <2>6. ~live /\ ~gone =>
          Fresh \/ Forward \/ (rec.status = "completed" /\ rec.cancel = "none" /\ Marked)
    <3>1. rec.status = "abandoned" /\ rec.cancel = "none" => ~Marked
      BY <1>3, MarksAre DEF MarkersFit, MarkedAtMost
    <3>2. /\ rec.cancel \in {"none", "restore", "discard"}
          /\ rec.status \in {"running", "completed", "abandoned", "restored"}
      BY <2>1 DEF AttemptRecords
    <3>3. ~live /\ ~gone => rec.cancel = "none" /\ rec.status # "restored"
      BY <3>2
    <3> HIDE DEF live, gone
    <3> QED BY <1>3, <3>1, <3>2, <3>3 DEF Running, Fresh, Forward
  <2>7. ~live /\ ~gone /\ (AnyMine("committing") \/ rec.stage = "commit" \/ rec.status = "completed")
          => \/ Forward /\ MarkedAs({"pending", "committing"}) /\ Rebuilt
             \/ rec.status = "completed" /\ rec.cancel = "none" /\ Marked /\ Rebuilt
    <3>1. SUFFICES ASSUME ~live, ~gone,
                          AnyMine("committing") \/ rec.stage = "commit" \/ rec.status = "completed"
                   PROVE  \/ Forward /\ MarkedAs({"pending", "committing"}) /\ Rebuilt
                          \/ rec.status = "completed" /\ rec.cancel = "none" /\ Marked /\ Rebuilt
      OBVIOUS
    <3>2. CASE Fresh
      <4>1. ~AnyMine("committing")
        BY <1>3, <2>2, <2>3, <3>2 DEF MarkersFit, MarkedAtMost, AnyMine, MarkerStates
      <4> QED BY <3>1, <3>2, <4>1 DEF Fresh, Running
    <3>3. CASE Forward
      <4>1. rec.stage = "commit" => AnyMine("committing")
        BY <1>3, <3>3, TablesAre DEF MarkersFit, MarkedAs, AnyMine
      <4> QED BY <1>3, <3>1, <3>3, <4>1 DEF MarkersFit, Forward, Running
    <3>4. CASE rec.status = "completed" /\ rec.cancel = "none" /\ Marked
      BY <1>3, <3>4 DEF MarkersFit
    <3> QED BY <2>6, <3>1, <3>2, <3>3, <3>4
  <2>8. ~live /\ ~gone /\ rec.status # "completed" /\ (\A t \in Tables : MarkerOf(t) = Mine("pending"))
          => Forward /\ MarkedAs({"pending"})
    BY <1>3, <2>1, <2>2, <2>3, <2>6, TablesAre DEF MarkersFit, Fresh, MarkedAtMost, MarkedAs,
       MarkerStates
  <2>9. ~live /\ ~gone /\ rec.status # "completed" /\ Replacing /\ ~AnyMine("committing")
          => Forward /\ MarkedAtMost({"switching", "pending"})
    <3>1. Fresh => ~AnyMine("pending")
      BY <1>3, <2>2, <2>3 DEF MarkersFit, MarkedAtMost, AnyMine, MarkerStates
    <3>2. Forward /\ ~AnyMine("committing") => MarkedAtMost({"switching", "pending"})
      BY <1>3 DEF MarkersFit, MarkedAtMost, AnyMine
    <3> QED BY <2>6, <3>1, <3>2 DEF Replacing, Fresh
  <2>10. ~live /\ ~gone /\ rec.status # "completed" /\ ~Replacing
           /\ ~(AnyMine("committing") \/ rec.stage = "commit") => Fresh
    <3>1. CASE Forward
      <4>1. rec.stage \in {"rebuild_pending", "commit"} => AnyMine("pending") \/ AnyMine("committing")
        BY <1>3, <3>1, TablesAre DEF MarkersFit, MarkedAs, AnyMine
      <4> QED BY <2>1, <3>1, <4>1 DEF Replacing, Forward, AttemptRecords
    <3> QED BY <2>6, <3>1
  <2> QED BY <1>3, <2>4, <2>5, <2>7, <2>8, <2>9, <2>10 DEF EffectiveStage, Running
<1> QED BY <1>1, <1>2, <1>3

\* While the attempt and the markers are the same, so is what they say.
LEMMA SameMarks ==
    ASSUME rec'.id = rec.id, \A t \in Tables : MarkerOf(t)' = MarkerOf(t)
    PROVE  /\ \A s : Mine(s)' = Mine(s)
           /\ Marked' <=> Marked
           /\ \A s : AnyMine(s)' <=> AnyMine(s)
           /\ \A S : MarkedAs(S)' <=> MarkedAs(S)
           /\ \A S : MarkedAtMost(S)' <=> MarkedAtMost(S)
<1>1. \A s : Mine(s)' = Mine(s)
  BY DEF Mine
<1>2. Marked' <=> Marked
  BY DEF Marked
<1>3. ASSUME NEW s PROVE AnyMine(s)' <=> AnyMine(s)
  BY <1>1 DEF AnyMine
<1>4. ASSUME NEW S PROVE MarkedAs(S)' <=> MarkedAs(S)
  BY <1>1 DEF MarkedAs
<1>5. ASSUME NEW S PROVE MarkedAtMost(S)' <=> MarkedAtMost(S)
  BY <1>1 DEF MarkedAtMost
<1> QED BY <1>1, <1>2, <1>3, <1>4, <1>5

LEMMA SameTables ==
    ASSUME table' = table
    PROVE  /\ \A t \in Tables : MarkerOf(t)' = MarkerOf(t)
           /\ RecordedSpaces' = RecordedSpaces
BY DEF MarkerOf, RecordedSpaces

\* Rebuilt, table by table.
LEMMA RebuiltIs ==
    Rebuilt <=> /\ \A t \in Tables :
                     /\ table[t] # None
                     /\ table[t].rows = [space |-> rec.target, edition |-> edition]
                     /\ table[t].space \in {None, rec.target}
                /\ rec.target # None
                /\ \E t \in Tables : table[t].space = rec.target
<1>1. ASSUME Rebuilt
      PROVE  /\ \A t \in Tables : table[t].space \in {None, rec.target}
             /\ rec.target # None
             /\ \E t \in Tables : table[t].space = rec.target
  BY <1>1 DEF Rebuilt, RecordedSpaces
<1>2. ASSUME \A t \in Tables : table[t] # None /\ table[t].space \in {None, rec.target},
             rec.target # None,
             \E t \in Tables : table[t].space = rec.target
      PROVE  RecordedSpaces = {rec.target}
  BY <1>2 DEF RecordedSpaces
<1> QED BY <1>1, <1>2 DEF Rebuilt

-----------------------------------------------------------------------------
(* The record.                                                             *)

\* The command that makes a step, and what it has established.
LEMMA Working ==
    ASSUME Base, Inv, CommandStep
    PROVE  /\ rec # None /\ rec \in AttemptRecords /\ rec' \in AttemptRecords /\ rec' # None
           /\ server.phase = "down"
           /\ SwitchAt /\ CancelAt /\ FinishAt /\ RestoreAt
BY CommandMoves, CommandRecords, NothingAssumption DEF Base, TypeOK, Inv, CommandAt

RecordSteps ==
    \/ SaveReplace \/ SavePending \/ SaveAbandoned \/ SaveDiscard \/ SaveDiscarded
    \/ SaveCommit \/ SaveCompleted \/ SaveCancel \/ SaveRestored

TableSteps ==
    \/ MarkSwitching \/ DropTable \/ CreateTable \/ LabelTable \/ SealTable \/ ClearSwitching
    \/ MarkDiscarding \/ PurgeTable \/ MarkCommitting \/ Unmark \/ MarkRestoring \/ SwapIn

BackupSteps == BackupBegin \/ BackupComplete \/ DropBackup \/ Retain

\* A step changes the record, the tables or the backup, and only one of them.
LEMMA StepsChange ==
    ASSUME CommandStep
    PROVE  /\ UNCHANGED <<server, edition, faults>>
           /\ RecordSteps \/ UNCHANGED <<rec, source>>
           /\ TableSteps \/ UNCHANGED table
           /\ BackupSteps \/ UNCHANGED backup
           /\ RecordSteps => UNCHANGED <<table, backup>>
           /\ TableSteps => UNCHANGED <<rec, backup, source>>
           /\ BackupSteps => UNCHANGED <<rec, table, source>>
<1> USE DEF RecordSteps, TableSteps, BackupSteps
<1>1. ASSUME RecordSteps
      PROVE  UNCHANGED <<server, edition, faults, table, backup>>
  BY <1>1 DEF SaveReplace, SavePending, SaveAbandoned, SaveDiscard, SaveDiscarded,
         SaveCommit, SaveCompleted, SaveCancel, SaveRestored
<1>2. ASSUME TableSteps
      PROVE  UNCHANGED <<server, edition, faults, rec, backup, source>>
  BY <1>2 DEF MarkSwitching, DropTable, CreateTable, LabelTable, SealTable, ClearSwitching,
         MarkDiscarding, PurgeTable, MarkCommitting, Unmark, MarkRestoring, SwapIn
<1>3. ASSUME BackupSteps
      PROVE  UNCHANGED <<server, edition, faults, rec, table, source>>
  BY <1>3 DEF BackupBegin, BackupComplete, DropBackup, Retain
<1>4. ASSUME RecheckWriter \/ SkipReplaced \/ Verify
      PROVE  UNCHANGED <<server, edition, faults, rec, table, backup, source>>
  BY <1>4 DEF RecheckWriter, SkipReplaced, Verify
<1>5. RecordSteps \/ TableSteps \/ BackupSteps \/ RecheckWriter \/ SkipReplaced \/ Verify
  BY DEF CommandStep
<1> HIDE DEF RecordSteps, TableSteps, BackupSteps
<1> QED BY <1>1, <1>2, <1>3, <1>4, <1>5

LEMMA CommandShape == ASSUME Base, Inv, CommandStep PROVE RecordShape'
<1>1. /\ rec # None /\ rec \in AttemptRecords /\ RecordShape
      /\ SwitchAt /\ CancelAt /\ FinishAt /\ RestoreAt
  BY Working DEF Inv
<1> USE DEF AttemptRecords, RecordShape, Running, Fresh, Forward, Discarding, Undoing
<1>2. CASE SaveReplace
  BY <1>1, <1>2 DEF SaveReplace, SwitchAt
<1>3. CASE SavePending
  BY <1>1, <1>3 DEF SavePending, SwitchAt
<1>4. CASE SaveAbandoned
  BY <1>1, <1>4 DEF SaveAbandoned, CancelAt
<1>5. CASE SaveDiscard
  BY <1>1, <1>5 DEF SaveDiscard, CancelAt
<1>6. CASE SaveDiscarded
  BY <1>1, <1>6 DEF SaveDiscarded, CancelAt
<1>7. CASE SaveCommit
  BY <1>1, <1>7 DEF SaveCommit, FinishAt
<1>8. CASE SaveCompleted
  BY <1>1, <1>8 DEF SaveCompleted, FinishAt
<1>9. CASE SaveCancel
  BY <1>1, <1>9 DEF SaveCancel, RestoreAt
<1>10. CASE SaveRestored
  BY <1>1, <1>10 DEF SaveRestored, RestoreAt
<1>11. CASE rec' = rec
  BY <1>1, <1>11
<1> QED BY <1>2, <1>3, <1>4, <1>5, <1>6, <1>7, <1>8, <1>9, <1>10, <1>11, StepsChange
        DEF RecordSteps

-----------------------------------------------------------------------------
(* The markers.                                                            *)

LEMMA RecordStepsKeepMarkers == ASSUME Base, Inv, CommandStep, RecordSteps PROVE MarkersFit'
<1>1. /\ rec # None /\ rec \in AttemptRecords
      /\ RecordShape /\ MarkersFit
      /\ SwitchAt /\ CancelAt /\ FinishAt /\ RestoreAt
  BY Working DEF Inv
<1>2. /\ rec'.id = rec.id /\ UNCHANGED <<table, edition>>
      /\ \A t \in Tables : MarkerOf(t)' = MarkerOf(t)
  BY CommandRecords, StepsChange, SameTables
<1>3. /\ Marked' <=> Marked
      /\ \A s : AnyMine(s)' <=> AnyMine(s)
      /\ \A S : MarkedAs(S)' <=> MarkedAs(S)
      /\ \A S : MarkedAtMost(S)' <=> MarkedAtMost(S)
  BY <1>2, SameMarks
<1>4. Rebuilt' <=> Rebuilt
  <2>1. rec'.target = rec.target
    BY <1>1 DEF AttemptRecords, RecordSteps, SaveReplace, SavePending, SaveAbandoned, SaveDiscard,
       SaveDiscarded, SaveCommit, SaveCompleted, SaveCancel, SaveRestored
  <2> QED BY <1>2, <2>1 DEF Rebuilt, RecordedSpaces
<1>5. \A s \in MarkerStates : Mine(s) # None
  BY <1>1, MineIs
<1>6. \A s \in MarkerStates, u \in MarkerStates : Mine(s) = Mine(u) => s = u
  BY <1>1, MineDiffer
<1> USE DEF AttemptRecords, Running, Fresh, Forward, Discarding, Undoing
<1>7. CASE SaveReplace
  <2>1. MarkedAs({"switching"})
    BY <1>1, <1>7 DEF SaveReplace, SwitchAt
  <2>2. Marked /\ ~AnyMine("committing") /\ MarkedAtMost({"switching", "pending", "committing"})
    BY <1>1, <1>5, <1>6, <2>1, MarksAre, TablesAre DEF MarkedAs, MarkedAtMost, AnyMine, MarkerStates
  <2> QED BY <1>1, <1>3, <1>7, <2>2 DEF SaveReplace, SwitchAt, RecordShape, MarkersFit
<1>8. CASE SavePending
  <2>1. MarkedAs({"pending"})
    BY <1>1, <1>8 DEF SavePending, SwitchAt
  <2>2. /\ Marked /\ ~AnyMine("committing") /\ MarkedAtMost({"switching", "pending", "committing"})
        /\ MarkedAs({"pending", "committing"})
    BY <1>1, <1>5, <1>6, <2>1, MarksAre, TablesAre DEF MarkedAs, MarkedAtMost, AnyMine, MarkerStates
  <2> QED BY <1>1, <1>3, <1>8, <2>2 DEF SavePending, SwitchAt, RecordShape, MarkersFit
<1>9. CASE SaveAbandoned
  <2>1. MarkedAtMost({})
    BY <1>1, <1>9 DEF SaveAbandoned, CancelAt
  <2>2. MarkedAtMost({"discarding"})
    BY <2>1 DEF MarkedAtMost
  <2> QED BY <1>1, <1>3, <1>9, <2>1, <2>2 DEF SaveAbandoned, CancelAt, RecordShape, MarkersFit
<1>10. CASE SaveDiscard
  BY <1>1, <1>3, <1>10 DEF SaveDiscard, CancelAt, RecordShape, MarkersFit
<1>11. CASE SaveDiscarded
  <2>1. MarkedAtMost({"discarding"})
    BY <1>1, <1>11 DEF SaveDiscarded, CancelAt, MarkedAtMost
  <2> QED BY <1>1, <1>3, <1>11, <2>1 DEF SaveDiscarded, CancelAt, RecordShape, MarkersFit
<1>12. CASE SaveCommit \/ SaveCompleted
  <2>1. MarkedAs({"committing"}) /\ Forward
    BY <1>1, <1>12 DEF SaveCommit, SaveCompleted, FinishAt
  <2>2. /\ Marked /\ AnyMine("committing") /\ MarkedAs({"pending", "committing"})
        /\ MarkedAtMost({"switching", "pending", "committing"}) /\ MarkedAtMost({"committing"})
    BY <1>1, <1>5, <2>1, MarksAre, TablesAre DEF MarkedAs, MarkedAtMost, AnyMine, MarkerStates
  <2>3. Rebuilt
    BY <1>1, <2>1, <2>2 DEF MarkersFit
  <2> QED BY <1>1, <1>3, <1>4, <1>12, <2>1, <2>2, <2>3 DEF SaveCommit, SaveCompleted, FinishAt, RecordShape, MarkersFit
<1>13. CASE SaveCancel
  BY <1>1, <1>3, <1>13 DEF SaveCancel, RestoreAt, RecordShape, MarkersFit
<1>14. CASE SaveRestored
  <2>1. MarkedAtMost({"restoring"})
    BY <1>1, <1>14 DEF SaveRestored, RestoreAt, MarkedAtMost, MarkerOf
  <2> QED BY <1>1, <1>3, <1>14, <2>1 DEF SaveRestored, RestoreAt, RecordShape, MarkersFit
<1> QED BY <1>7, <1>8, <1>9, <1>10, <1>11, <1>12, <1>13, <1>14 DEF RecordSteps

\* The marker of the table at hand is written, and nothing else of it.
LEMMA MarkingIs ==
    ASSUME Base, rec # None, UNCHANGED rec, cmd.pc # "swap", NEW m \in Markers,
           SetMarker(cmd.at, m)
    PROVE  /\ \A t \in Tables : MarkerOf(t)' = IF t = cmd.at THEN m ELSE MarkerOf(t)
           /\ \A s : Mine(s)' = Mine(s)
           /\ \A t \in Tables : RowsOf(table[t])' = RowsOf(table[t])
           /\ \A t \in Tables : t # cmd.at => table'[t] = table[t]
           /\ \A t \in Tables : /\ table[t] # None => /\ table'[t] # None
                                                     /\ table'[t].space = table[t].space
                                                     /\ table'[t].rows = table[t].rows
                                /\ t = cmd.at => /\ table'[t] \in TableRecords
                                                 /\ table'[t] = [OpenOrCreate(t) EXCEPT !.marker = m]
<1>1. PICK k \in Tables : k = cmd.at
  BY AtIs
<1>2. SetMarker(k, m)
  BY <1>1 DEF SetMarker, SetTable
<1>3. /\ table'[k] = [OpenOrCreate(k) EXCEPT !.marker = m]
      /\ table'[k] \in TableRecords
      /\ MarkerOf(k)' = m
      /\ RowsOf(table'[k]) = RowsOf(table[k])
      /\ \A t \in Tables \ {k} : table'[t] = table[t] /\ MarkerOf(t)' = MarkerOf(t)
  BY <1>2, SetMarkerIs
<1>4. table[k] # None => /\ table'[k] # None /\ table'[k].space = table[k].space
                         /\ table'[k].rows = table[k].rows
  BY <1>3, RecordsAre DEF OpenOrCreate, Base, TypeOK, TableRecords
<1>5. \A t \in Tables : RowsOf(table[t])' = RowsOf(table[t])
  BY <1>3 DEF RowsOf
<1>6. \A s : Mine(s)' = Mine(s)
  BY DEF Mine
<1> QED BY <1>1, <1>3, <1>4, <1>5, <1>6

\* Rebuilt does not ask for markers.
LEMMA RebuiltStays ==
    ASSUME rec'.target = rec.target, UNCHANGED edition, Rebuilt,
           \A t \in Tables : table[t] # None => /\ table'[t] # None
                                                /\ table'[t].space = table[t].space
                                                /\ table'[t].rows = table[t].rows
    PROVE  Rebuilt'
<1>1. /\ \A t \in Tables :
          /\ table[t] # None
          /\ table[t].rows = [space |-> rec.target, edition |-> edition]
          /\ table[t].space \in {None, rec.target}
      /\ rec.target # None
      /\ \E t \in Tables : table[t].space = rec.target
  BY RebuiltIs
<1>2. /\ \A t \in Tables :
          /\ table'[t] # None
          /\ table'[t].rows = [space |-> rec'.target, edition |-> edition']
          /\ table'[t].space \in {None, rec'.target}
      /\ rec'.target # None
      /\ \E t \in Tables : table'[t].space = rec'.target
  BY <1>1
<1>3. RecordedSpaces' = {rec'.target}
  BY <1>2 DEF RecordedSpaces
<1> QED BY <1>2, <1>3 DEF Rebuilt

\* The table that is being replaced: the others are left alone.
LEMMA ReplacingIs ==
    ASSUME Base, rec # None, DropTable \/ CreateTable \/ LabelTable \/ SealTable
    PROVE  \A t \in Tables :
              /\ t # cmd.at => table'[t] = table[t] /\ MarkerOf(t)' = MarkerOf(t)
              /\ t = cmd.at =>
                   /\ DropTable => table'[t] = None /\ MarkerOf(t)' = None
                   /\ CreateTable => /\ table'[t] = OpenOrCreate(t) /\ MarkerOf(t)' = MarkerOf(t)
                   /\ LabelTable => /\ table'[t] = [OpenOrCreate(t) EXCEPT !.space = rec.target]
                                    /\ MarkerOf(t)' = MarkerOf(t)
                   /\ SealTable =>
                        LET m == IF cmd.op = "switch" THEN Mine("pending") ELSE Mine("discarding")
                        IN  /\ table'[t] = [OpenOrCreate(t) EXCEPT !.marker = m]
                            /\ MarkerOf(t)' = m
<1>1. cmd.at \in Tables /\ cmd.pc # "swap" /\ UNCHANGED rec
  BY AtIs DEF DropTable, CreateTable, LabelTable, SealTable
<1>2. PICK k \in Tables : k = cmd.at
  BY <1>1
<1>3. \A s \in MarkerStates : Mine(s) \in Markers
  BY MineIs
<1>4. OpenOrCreate(k) \in TableRecords /\ OpenOrCreate(k).marker = MarkerOf(k)
  BY OpenOrCreateIs
<1>5. CASE DropTable
  <2>1. SetTable(k, None) /\ None \in VectorTables
    BY <1>2, <1>5, RecordsAre DEF DropTable, SetTable
  <2> QED BY <1>2, <1>5, <2>1, SetTableIs DEF DropTable, CreateTable, LabelTable, SealTable
<1>6. CASE CreateTable
  <2>1. SetTable(k, OpenOrCreate(k)) /\ OpenOrCreate(k) \in VectorTables
    BY <1>2, <1>4, <1>6, RecordsAre DEF CreateTable, SetTable
  <2> QED BY <1>2, <1>4, <1>6, <2>1, RecordsAre, SetTableIs DEF DropTable, CreateTable, LabelTable, SealTable
<1>7. CASE LabelTable
  <2> DEFINE v == [OpenOrCreate(k) EXCEPT !.space = rec.target]
  <2>1. v \in TableRecords /\ v.marker = MarkerOf(k)
    BY <1>4 DEF TableRecords, Base, TypeOK, AttemptRecords
  <2>2. SetTable(k, v)
    BY <1>2, <1>7 DEF LabelTable, SetTable
  <2> HIDE DEF v
  <2>3. /\ table'[k] = v /\ MarkerOf(k)' = MarkerOf(k)
        /\ \A t \in Tables \ {k} : table'[t] = table[t] /\ MarkerOf(t)' = MarkerOf(t)
    BY <2>1, <2>2, RecordsAre, SetTableIs
  <2> QED BY <1>2, <1>7, <2>3 DEF v, DropTable, CreateTable, LabelTable, SealTable
<1>8. CASE SealTable
  <2> DEFINE m == IF cmd.op = "switch" THEN Mine("pending") ELSE Mine("discarding")
  <2>1. m \in Markers /\ SetMarker(cmd.at, m)
    BY <1>3, <1>8 DEF MarkerStates, SealTable
  <2> HIDE DEF m
  <2>2. \A t \in Tables : /\ MarkerOf(t)' = IF t = cmd.at THEN m ELSE MarkerOf(t)
                          /\ t # cmd.at => table'[t] = table[t]
                          /\ t = cmd.at => table'[t] = [OpenOrCreate(t) EXCEPT !.marker = m]
    BY <1>1, <2>1, MarkingIs
  <2> QED BY <1>8, <2>2 DEF m, DropTable, CreateTable, LabelTable, SealTable
<1> QED BY <1>5, <1>6, <1>7, <1>8

LEMMA TableStepsKeepMarkers ==
    ASSUME Base, Inv, CommandStep, TableSteps, TableCount > 1 PROVE MarkersFit'
<1>1. /\ rec # None /\ rec \in AttemptRecords
      /\ RecordShape /\ MarkersFit
      /\ SwitchAt /\ CancelAt /\ FinishAt /\ RestoreAt
  BY Working DEF Inv
<1>2. UNCHANGED <<rec, edition>>
  BY StepsChange
<1>3. \A s \in MarkerStates : Mine(s) \in Markers /\ Mine(s) # None
  BY <1>1, MineIs
<1>4. \A s \in MarkerStates, u \in MarkerStates : Mine(s) = Mine(u) => s = u
  BY <1>1, MineDiffer
<1>5. None \in Markers
  BY DEF Markers
<1>6. \A s : Mine(s)' = Mine(s)
  BY <1>2 DEF Mine
<1>7. Marked' <=> \E t \in Tables : MarkerOf(t)' # None
  BY CommandKeepsBase, <1>1, <1>2 DEF Base, Marked
<1> USE DEF AttemptRecords, Running, Fresh, Forward, Discarding, Undoing
<1>8. CASE MarkSwitching \/ ClearSwitching
  <2>1. Fresh /\ MarkedAtMost({"switching"}) /\ cmd.pc # "swap"
    BY <1>1, <1>8 DEF MarkSwitching, ClearSwitching, SwitchAt, CancelAt, MarkersFit
  <2>2. \/ table' = table
        \/ SetMarker(cmd.at, Mine("switching"))
        \/ SetMarker(cmd.at, None)
    BY <1>8 DEF MarkSwitching, ClearSwitching
  <2>3. \A t \in Tables : MarkerOf(t)' \in {MarkerOf(t), Mine("switching"), None}
    BY <1>1, <1>2, <1>3, <1>5, <2>1, <2>2, MarkingIs, SameTables DEF MarkerStates
  <2>4. MarkedAtMost({"switching"})'
    BY <1>6, <2>1, <2>3 DEF MarkedAtMost
  <2> QED BY <1>1, <1>2, <2>1, <2>4 DEF MarkersFit, RecordShape
<1>9. CASE MarkDiscarding
  <2>1. Discarding /\ MarkedAtMost({"switching", "pending", "discarding"}) /\ cmd.pc # "swap"
    BY <1>1, <1>9 DEF MarkDiscarding, CancelAt, MarkersFit
  <2>2. \A t \in Tables : MarkerOf(t)' \in {MarkerOf(t), Mine("discarding")}
    BY <1>1, <1>2, <1>3, <1>9, <2>1, MarkingIs DEF MarkerStates, MarkDiscarding
  <2>3. MarkedAtMost({"switching", "pending", "discarding"})'
    BY <1>6, <2>1, <2>2 DEF MarkedAtMost
  <2> QED BY <1>1, <1>2, <2>1, <2>3 DEF MarkersFit, RecordShape
<1>10. CASE PurgeTable
  <2>1. rec.status = "abandoned" /\ rec.discarded /\ MarkedAtMost({"discarding"}) /\ cmd.pc # "swap"
    BY <1>1, <1>10 DEF PurgeTable, CancelAt, MarkersFit
  <2>2. cmd.at \in Tables /\ None \in VectorTables
    BY <2>1, AtIs, RecordsAre
  <2>3. \A t \in Tables : MarkerOf(t)' \in {MarkerOf(t), None}
    BY <1>10, <2>2, SetTableIs, SameTables DEF PurgeTable
  <2>4. MarkedAtMost({"discarding"})'
    BY <1>6, <2>1, <2>3 DEF MarkedAtMost
  <2> QED BY <1>1, <1>2, <2>1, <2>4 DEF MarkersFit, RecordShape
<1>11. CASE MarkCommitting
  <2>1. /\ Forward /\ MarkedAs({"pending", "committing"}) /\ Rebuilt /\ cmd.pc # "swap"
        /\ rec.stage = "commit" => MarkedAs({"committing"})
    BY <1>1, <1>11 DEF MarkCommitting, FinishAt, MarkersFit
  <2>2. SetMarker(cmd.at, Mine("committing"))
    BY <1>11, <2>1, AtIs, RebuiltIs DEF MarkCommitting, MarkAll
  <2>3. /\ \A t \in Tables : MarkerOf(t)' \in {MarkerOf(t), Mine("committing")}
        /\ \A t \in Tables : table[t] # None => /\ table'[t] # None
                                                /\ table'[t].space = table[t].space
                                                /\ table'[t].rows = table[t].rows
    BY <1>1, <1>2, <1>3, <2>1, <2>2, MarkingIs DEF MarkerStates
  <2>4. Rebuilt'
    BY <1>2, <2>1, <2>3, RebuiltStays
  <2>5. MarkedAs({"pending", "committing"})' /\ (rec.stage = "commit" => MarkedAs({"committing"})')
    BY <1>6, <2>1, <2>3 DEF MarkedAs
  <2>6. MarkedAtMost({"switching", "pending", "committing"})' /\ Marked'
    BY <1>3, <1>6, <1>7, <2>5, TablesAre DEF MarkedAs, MarkedAtMost, MarkerStates
  <2> QED BY <1>1, <1>2, <2>1, <2>4, <2>5, <2>6 DEF MarkersFit, RecordShape
<1>12. CASE Unmark
  <2>1. /\ \/ rec.status = "completed" /\ rec.cancel = "none" /\ MarkedAtMost({"committing"})
           \/ rec.status = "restored" /\ MarkedAtMost({"restoring"})
        /\ cmd.pc # "swap"
    BY <1>1, <1>12 DEF Unmark, FinishAt, RestoreAt, MarkersFit
  <2>2. /\ \A t \in Tables : MarkerOf(t)' \in {MarkerOf(t), None}
        /\ \A t \in Tables : table[t] # None => /\ table'[t] # None
                                                /\ table'[t].space = table[t].space
                                                /\ table'[t].rows = table[t].rows
    BY <1>1, <1>2, <1>5, <1>12, <2>1, MarkingIs, SameTables DEF Unmark, MarkAll
  <2>3. Marked' => Marked
    BY <1>1, <1>7, <2>2, MarksAre
  <2>4. /\ MarkedAtMost({"committing"}) => MarkedAtMost({"committing"})'
        /\ MarkedAtMost({"restoring"}) => MarkedAtMost({"restoring"})'
    BY <1>6, <2>2 DEF MarkedAtMost
  <2>5. Marked /\ rec.status = "completed" /\ rec.cancel = "none" => Rebuilt'
    BY <1>1, <1>2, <2>2, RebuiltStays DEF MarkersFit
  <2> QED BY <1>1, <1>2, <2>1, <2>3, <2>4, <2>5 DEF MarkersFit, RecordShape
<1>13. CASE MarkRestoring
  <2>1. Undoing /\ Marked /\ cmd.pc # "swap"
    BY <1>1, <1>13 DEF MarkRestoring, RestoreAt
  <2>2. \A t \in Tables : MarkerOf(t)' \in {MarkerOf(t), Mine("restoring")}
    BY <1>1, <1>2, <1>3, <1>13, <2>1, MarkingIs, SameTables DEF MarkRestoring, MarkAll, MarkerStates
  <2>3. Marked'
    BY <1>1, <1>3, <1>7, <2>1, <2>2, MarksAre DEF MarkerStates
  <2> QED BY <1>1, <1>2, <2>1, <2>3 DEF MarkersFit, RecordShape
<1>14. CASE SwapIn
  <2>1. Undoing /\ Marked /\ UsableBackup
    BY <1>1, <1>14 DEF SwapIn, RestoreAt
  <2>2. \A t \in Tables : table'[t] # table[t] => MarkerOf(t)' # None
    <3>1. SUFFICES ASSUME NEW t \in Tables, table'[t] # table[t] PROVE MarkerOf(t)' # None
      OBVIOUS
    <3>2. backup.tables[t] \in TableRecords
      BY <2>1, RecordsAre DEF Base, TypeOK, UsableBackup, Backups, Inv, BackupFits
    <3>3. table'[t] = [backup.tables[t] EXCEPT !.marker = Mine("restoring")]
      BY <1>14, <3>1, <3>2, RecordsAre DEF SwapIn
    <3>4. table'[t] \in TableRecords /\ table'[t].marker = Mine("restoring")
      BY <1>3, <3>2, <3>3 DEF TableRecords, MarkerStates
    <3> QED BY <1>3, <3>4, RecordsAre DEF MarkerOf, MarkerStates
  <2>3. Marked'
    BY <1>1, <1>7, <2>1, <2>2, MarksAre DEF MarkerOf
  <2> QED BY <1>1, <1>2, <2>1, <2>3 DEF MarkersFit, RecordShape
<1>15. CASE DropTable \/ CreateTable \/ LabelTable \/ SealTable
  <2>1. /\ cmd.pc \in {"replace", "create", "label", "seal"} /\ cmd.op \in {"switch", "discard"}
        /\ cmd.at \in Tables
    BY <1>1, <1>15, AtIs DEF DropTable, CreateTable, LabelTable, SealTable, Operations,
       SwitchAt, CancelAt, FinishAt, RestoreAt, Inv, CommandAt
  <2>2. \A t \in Tables : /\ t # cmd.at => MarkerOf(t)' = MarkerOf(t)
                          /\ t = cmd.at => MarkerOf(t)' \in {None, MarkerOf(t),
                               IF cmd.op = "switch" THEN Mine("pending") ELSE Mine("discarding")}
    BY <1>1, <1>15, <2>1, ReplacingIs
  <2>3. CASE cmd.op = "switch"
    <3>1. Forward /\ rec.stage = "replace"
      BY <1>1, <2>1, <2>3 DEF SwitchAt
    <3>2. \A t \in Tables : t # cmd.at => MarkerOf(t)' \in {Mine("pending"), Mine("switching")}
      BY <1>1, <2>1, <2>2, <2>3 DEF SwitchAt, Passed, Later, Tables
    <3>3. MarkedAtMost({"switching", "pending", "committing"})' /\ ~AnyMine("committing")'
      <4>1. \A t \in Tables : t = cmd.at /\ (CreateTable \/ LabelTable) => MarkerOf(t) = None
        BY <1>1, NewTableIs, RecordsAre DEF CreateTable, LabelTable, SwitchAt, MarkerOf, NewTable
      <4>2. \A t \in Tables : MarkerOf(t)' \in {None, Mine("pending"), Mine("switching")}
        BY <1>1, <1>15, <2>3, <3>2, <4>1, ReplacingIs
      <4>3. MarkedAtMost({"switching", "pending", "committing"})'
        BY <1>6, <4>2 DEF MarkedAtMost
      <4>4. ~AnyMine("committing")'
        BY <1>3, <1>4, <1>6, <4>2 DEF AnyMine, MarkerStates
      <4> QED BY <4>3, <4>4
    <3>4. Marked'
      <4>1. PICK t \in Tables : t # cmd.at
        BY TablesAre, LayoutAssumption DEF Tables
      <4> QED BY <1>3, <1>7, <3>2, <4>1 DEF MarkerStates
    <3> QED BY <1>1, <1>2, <3>1, <3>3, <3>4 DEF MarkersFit, RecordShape
  <2>4. CASE cmd.op = "discard"
    <3>1. Discarding /\ MarkedAtMost({"switching", "pending", "discarding"})
      BY <1>1, <2>1, <2>4 DEF CancelAt, MarkersFit
    <3>2. MarkedAtMost({"switching", "pending", "discarding"})'
      BY <1>6, <2>2, <2>4, <3>1 DEF MarkedAtMost
    <3> QED BY <1>1, <1>2, <3>1, <3>2 DEF MarkersFit, RecordShape
  <2> QED BY <2>1, <2>3, <2>4
<1> QED BY <1>8, <1>9, <1>10, <1>11, <1>12, <1>13, <1>14, <1>15 DEF TableSteps

-----------------------------------------------------------------------------
(* The rows of the tables, of the backup, and of the last normal operation. *)

\* A step that writes markers, and no rows.
MarkSteps ==
    \/ MarkSwitching \/ ClearSwitching \/ MarkDiscarding \/ MarkCommitting \/ Unmark
    \/ MarkRestoring

LEMMA MarkStepsAre ==
    ASSUME Base, CommandStep, MarkSteps
    PROVE  \A t \in Tables :
              /\ Recorded(table[t]) => Recorded(table[t])'
              /\ RowsOf(table[t])' = RowsOf(table[t])
              /\ MarkerOf(t)' = MarkerOf(t) => \/ table'[t] = table[t]
                                               \/ table[t] = None
                                               \/ table'[t].space = table[t].space
              /\ MarkerOf(t)' \in {MarkerOf(t), None, Mine("switching"), Mine("discarding"),
                                   Mine("committing"), Mine("restoring")}
<1>1. /\ cmd.pc # "swap" /\ rec # None /\ UNCHANGED rec
      /\ \/ table' = table
         \/ \E m \in {None, Mine("switching"), Mine("discarding"), Mine("committing"),
                      Mine("restoring")} : SetMarker(cmd.at, m)
  BY CommandMoves DEF Base, MarkSteps, MarkSwitching, ClearSwitching, MarkDiscarding,
     MarkCommitting, Unmark, MarkRestoring, MarkAll
<1>2. CASE table' = table
  BY <1>2, SameTables DEF Recorded, RowsOf
<1>3. ASSUME NEW m \in {None, Mine("switching"), Mine("discarding"), Mine("committing"),
                        Mine("restoring")},
             SetMarker(cmd.at, m)
      PROVE  \A t \in Tables :
              /\ Recorded(table[t]) => Recorded(table[t])'
              /\ RowsOf(table[t])' = RowsOf(table[t])
              /\ table'[t] = table[t] \/ table[t] = None \/ table'[t].space = table[t].space
              /\ MarkerOf(t)' \in {MarkerOf(t), m}
  <2>1. m \in Markers
    BY <1>1, <1>3, MineIs DEF MarkerStates, Markers
  <2>2. SUFFICES ASSUME NEW t \in Tables
                 PROVE  /\ Recorded(table[t]) => Recorded(table[t])'
                        /\ RowsOf(table[t])' = RowsOf(table[t])
                        /\ table'[t] = table[t] \/ table[t] = None \/ table'[t].space = table[t].space
                        /\ MarkerOf(t)' \in {MarkerOf(t), m}
    OBVIOUS
  <2>3. /\ MarkerOf(t)' \in {MarkerOf(t), m}
        /\ RowsOf(table[t])' = RowsOf(table[t])
        /\ t # cmd.at => table'[t] = table[t]
        /\ table[t] # None => /\ table'[t] # None
                              /\ table'[t].space = table[t].space
                              /\ table'[t].rows = table[t].rows
        /\ t = cmd.at => table'[t] = [OpenOrCreate(t) EXCEPT !.marker = m]
    BY <1>1, <1>3, <2>1, MarkingIs
  <2>4. table[t] = None /\ t = cmd.at => table'[t].rows = Empty
    BY <2>3 DEF OpenOrCreate, NewTable
  <2> QED BY <2>3, <2>4 DEF Recorded
<1> QED BY <1>1, <1>2, <1>3

LEMMA CommandKeepsTables == ASSUME Base, Inv, CommandStep PROVE TablesFit'
<1>1. /\ rec # None /\ rec' # None /\ rec \in AttemptRecords
      /\ RecordShape /\ MarkersFit /\ TablesFit /\ BackupFits
      /\ SwitchAt /\ CancelAt /\ FinishAt /\ RestoreAt
  BY Working DEF Inv
<1>2. /\ \A s \in MarkerStates : Mine(s) # None
      /\ \A s \in MarkerStates, u \in MarkerStates : Mine(s) = Mine(u) => s = u
  BY <1>1, MineIs, MineDiffer
<1>3. \A s : Mine(s)' = Mine(s)
  BY CommandRecords DEF Mine
<1> USE DEF AttemptRecords, Running, Fresh, Forward, Discarding, Undoing
<1>4. ASSUME table' = table PROVE TablesFit'
  <2>1. rec'.target = rec.target
    BY <1>1, StepsChange DEF RecordSteps, SaveReplace, SavePending, SaveAbandoned, SaveDiscard,
       SaveDiscarded, SaveCommit, SaveCompleted, SaveCancel, SaveRestored
  <2>2. CASE SaveAbandoned \/ SaveDiscarded
    <3>1. \A t \in Tables : MarkerOf(t) = Mine("discarding") => table[t].rows = Empty
      BY <1>1, <1>2, <2>2 DEF SaveAbandoned, SaveDiscarded, CancelAt, MarkedAtMost, MarkerStates
    <3> QED BY <1>1, <1>3, <1>4, <2>1, <3>1, SameTables DEF TablesFit, Recorded
  <2>3. CASE ~(SaveAbandoned \/ SaveDiscarded)
    <3>1. rec'.status = "abandoned" => rec.status = "abandoned"
      BY <1>1, <2>3, StepsChange DEF RecordSteps, SaveReplace, SavePending, SaveDiscard,
         SaveCommit, SaveCompleted, SaveCancel, SaveRestored
    <3> QED BY <1>1, <1>3, <1>4, <2>1, <3>1, SameTables DEF TablesFit, Recorded
  <2> QED BY <2>2, <2>3
<1>5. ASSUME TableSteps PROVE rec' = rec
  BY <1>5, StepsChange
<1>6. ASSUME MarkSteps PROVE TablesFit'
  <2>1. rec.status # "abandoned"
    BY <1>1, <1>6 DEF MarkSteps, MarkSwitching, ClearSwitching, MarkDiscarding, MarkCommitting,
       Unmark, MarkRestoring, SwitchAt, CancelAt, FinishAt, RestoreAt, RecordShape
  <2>2. rec' = rec
    BY <1>5, <1>6 DEF MarkSteps, TableSteps
  <2>3. ASSUME NEW t \in Tables, MarkerOf(t)' = Mine("pending")
        PROVE  table'[t].space = rec.target
    <3>1. MarkerOf(t) = Mine("pending") /\ table[t] # None
      BY <1>2, <1>6, <2>3, MarkStepsAre DEF MarkerStates, MarkerOf
    <3> QED BY <1>1, <1>6, <2>3, <3>1, MarkStepsAre DEF TablesFit
  <2> QED BY <1>1, <1>3, <1>6, <2>1, <2>2, <2>3, MarkStepsAre DEF TablesFit
<1>7. CASE PurgeTable
  <2>1. cmd.at \in Tables /\ None \in VectorTables /\ rec' = rec
    BY <1>7, AtIs, RecordsAre DEF PurgeTable
  <2>2. \A t \in Tables : \/ table'[t] = None /\ MarkerOf(t)' = None
                          \/ table'[t] = table[t] /\ MarkerOf(t)' = MarkerOf(t)
    BY <1>7, <2>1, SetTableIs, SameTables DEF PurgeTable
  <2> QED BY <1>1, <1>2, <1>3, <2>1, <2>2 DEF TablesFit, Recorded, MarkerStates
<1>8. CASE SwapIn
  <2>1. UsableBackup /\ rec' = rec /\ Undoing
    BY <1>1, <1>8 DEF SwapIn, RestoreAt
  <2>2. ASSUME NEW t \in Tables
        PROVE  \/ table'[t] = table[t] /\ MarkerOf(t)' = MarkerOf(t)
               \/ Recorded(table[t])' /\ MarkerOf(t)' = Mine("restoring")
    <3>1. CASE DirOf[t] # cmd.at
      BY <1>8, <3>1 DEF SwapIn, MarkerOf
    <3>2. CASE DirOf[t] = cmd.at
      <4>1. backup.tables[t] \in TableRecords /\ Recorded(backup.tables[t])
        BY <1>1, <2>1, RecordsAre DEF Base, TypeOK, UsableBackup, Backups, BackupFits
      <4>2. table'[t] = [backup.tables[t] EXCEPT !.marker = Mine("restoring")]
        BY <1>8, <3>2, <4>1, RecordsAre DEF SwapIn
      <4>3. Mine("restoring") \in Markers
        BY <1>1, MineIs DEF MarkerStates
      <4>4. /\ table'[t] \in TableRecords /\ table'[t].marker = Mine("restoring")
            /\ table'[t].space = backup.tables[t].space /\ table'[t].rows = backup.tables[t].rows
        BY <4>1, <4>2, <4>3 DEF TableRecords
      <4> QED BY <4>1, <4>4, RecordsAre DEF MarkerOf, Recorded
    <3> QED BY <3>1, <3>2
  <2> QED BY <1>1, <1>2, <1>3, <2>1, <2>2 DEF TablesFit, Recorded, MarkerStates, RecordShape
<1>9. CASE DropTable \/ CreateTable \/ LabelTable \/ SealTable
  <2>1. rec.status = "running" /\ rec' = rec
    BY <1>1, <1>9 DEF DropTable, CreateTable, LabelTable, SealTable, SwitchAt, CancelAt, FinishAt,
       RestoreAt, Inv, CommandAt, Base, TypeOK, Operations
  <2>2. ASSUME NEW t \in Tables, t = cmd.at
        PROVE  Recorded(table[t])' /\ (MarkerOf(t)' = Mine("pending") => table'[t].space = rec.target)
    <3>1. /\ DropTable => table'[t] = None /\ MarkerOf(t)' = None
          /\ CreateTable => table'[t] = OpenOrCreate(t) /\ MarkerOf(t)' = MarkerOf(t)
          /\ LabelTable => /\ table'[t] = [OpenOrCreate(t) EXCEPT !.space = rec.target]
                           /\ MarkerOf(t)' = MarkerOf(t)
          /\ SealTable =>
               LET m == IF cmd.op = "switch" THEN Mine("pending") ELSE Mine("discarding")
               IN  table'[t] = [OpenOrCreate(t) EXCEPT !.marker = m] /\ MarkerOf(t)' = m
      BY <1>1, <1>9, <2>2, ReplacingIs
    <3>2. Mine("pending") # None /\ Mine("pending") # Mine("discarding")
      BY <1>2 DEF MarkerStates
    <3>3. NewTable # None /\ NewTable.rows = Empty /\ NewTable.marker = None
      BY NewTableIs, RecordsAre DEF NewTable
    <3>4. CASE DropTable
      BY <3>1, <3>2, <3>4 DEF Recorded
    <3>5. CASE CreateTable
      <4>1. table[t] = None
        BY <1>1, <2>2, <3>5 DEF SwitchAt, CreateTable
      <4>2. OpenOrCreate(t) = NewTable /\ MarkerOf(t) = None
        BY <4>1 DEF OpenOrCreate, MarkerOf
      <4> QED BY <3>1, <3>2, <3>3, <3>5, <4>2 DEF Recorded
    <3>6. CASE LabelTable
      <4>1. table[t] = NewTable
        BY <1>1, <2>2, <3>6 DEF SwitchAt, LabelTable
      <4>2. OpenOrCreate(t) = NewTable /\ MarkerOf(t) = None
        BY <3>3, <4>1 DEF OpenOrCreate, MarkerOf
      <4>3. table'[t] = [NewTable EXCEPT !.space = rec.target] /\ MarkerOf(t)' = None
        BY <3>1, <3>6, <4>2
      <4>4. table'[t].rows = Empty
        BY <4>3 DEF NewTable
      <4> QED BY <3>2, <4>3, <4>4 DEF Recorded
    <3>7. CASE SealTable
      <4>1. table[t] = [NewTable EXCEPT !.space = IF cmd.op = "switch" THEN rec.target ELSE None]
        BY <1>1, <2>2, <3>7 DEF SwitchAt, SealTable
      <4>2. /\ table[t] \in TableRecords /\ table[t].rows = Empty
            /\ cmd.op = "switch" => table[t].space = rec.target
        BY <1>1, <4>1 DEF NewTable, TableRecords, Markers, Rows
      <4>3. OpenOrCreate(t) = table[t]
        BY <4>2, RecordsAre DEF OpenOrCreate
      <4> DEFINE m == IF cmd.op = "switch" THEN Mine("pending") ELSE Mine("discarding")
      <4>4. table'[t] = [table[t] EXCEPT !.marker = m] /\ MarkerOf(t)' = m
        BY <3>1, <3>7, <4>3
      <4>5. table'[t].rows = Empty /\ table'[t].space = table[t].space
        BY <4>2, <4>4 DEF TableRecords
      <4> QED BY <3>2, <4>2, <4>4, <4>5 DEF Recorded
    <3> QED BY <1>9, <3>4, <3>5, <3>6, <3>7
  <2> QED BY <1>1, <1>3, <1>9, <2>1, <2>2, ReplacingIs DEF TablesFit, Recorded
<1> QED BY <1>4, <1>6, <1>7, <1>8, <1>9, StepsChange DEF TableSteps, MarkSteps

LEMMA CommandKeepsBackup == ASSUME Base, Inv, CommandStep PROVE BackupFits'
<1>1. TablesFit /\ BackupFits /\ SwitchAt
  BY Working DEF Inv
<1>2. CASE BackupBegin
  BY <1>2 DEF BackupBegin, BackupFits, UsableBackup
<1>3. CASE BackupComplete
  <2>1. MarkedAs({"switching"}) /\ rec # None
    BY <1>1, <1>3, Working DEF BackupComplete, SwitchAt
  <2>2. \A t \in Tables : table[t] # None /\ Recorded(table[t])
    BY <1>1, <2>1, MineIs DEF MarkedAs, TablesFit, MarkerOf, MarkerStates
  <2>3. backup'.tables = table
    BY <1>3 DEF BackupComplete
  <2> QED BY <2>2, <2>3 DEF BackupFits, Recorded
<1>4. CASE DropBackup \/ Retain
  BY <1>1, <1>4 DEF DropBackup, Retain, BackupFits, UsableBackup, Recorded
<1>5. CASE backup' = backup
  BY <1>1, <1>5 DEF BackupFits, UsableBackup, Recorded
<1> QED BY <1>2, <1>3, <1>4, <1>5, StepsChange DEF BackupSteps

LEMMA CommandKeepsSource == ASSUME Base, Inv, CommandStep PROVE SourceIs'
<1>1. /\ rec # None /\ rec' # None /\ rec \in AttemptRecords
      /\ RecordShape /\ MarkersFit /\ TablesFit /\ BackupFits /\ SourceIs
      /\ SwitchAt /\ CancelAt /\ FinishAt /\ RestoreAt
  BY Working DEF Inv
<1>2. ASSUME backup' = backup, source' = source PROVE BackedUp' <=> BackedUp
  BY <1>2 DEF BackedUp, UsableBackup
<1>3. ASSUME \A t \in Tables : RowsOf(table[t])' = RowsOf(table[t]), source' = source
      PROVE  Original' <=> Original
  BY <1>3 DEF Original
<1>4. table' = table => \A t \in Tables : RowsOf(table[t])' = RowsOf(table[t])
  BY DEF RowsOf
<1> USE DEF AttemptRecords, Running, Fresh, Forward, Discarding, Undoing
<1>5. CASE SaveReplace \/ SavePending \/ SaveAbandoned \/ SaveCommit
  <2>1. UNCHANGED <<table, backup, source>>
    BY <1>5 DEF SaveReplace, SavePending, SaveAbandoned, SaveCommit
  <2>2. (Original' <=> Original) /\ (BackedUp' <=> BackedUp)
    BY <2>1, <1>2, <1>3, <1>4
  <2> QED BY <1>1, <1>5, <2>2 DEF SaveReplace, SavePending, SaveAbandoned, SaveCommit,
          SwitchAt, CancelAt, FinishAt, SourceIs, RecordShape
<1>6. CASE SaveDiscard
  BY <1>1, <1>6 DEF SaveDiscard, CancelAt, SourceIs, RecordShape
<1>7. CASE SaveDiscarded
  <2>1. Gone /\ \A t \in Tables : MarkerOf(t) = Mine("discarding") /\ table[t].rows = Empty
    BY <1>1, <1>7 DEF SaveDiscarded, CancelAt
  <2>2. \A t \in Tables : RowsOf(table[t]) = Empty /\ source[t] = Empty
    BY <2>1 DEF RowsOf, Gone
  <2>3. Original'
    BY <1>3, <1>4, <1>7, <2>2 DEF SaveDiscarded, Original
  <2> QED BY <1>1, <1>7, <2>3 DEF SaveDiscarded, CancelAt, SourceIs, RecordShape
<1>8. CASE SaveCompleted
  <2>1. Original'
    BY <1>8, <1>4 DEF SaveCompleted, Original
  <2> QED BY <1>1, <1>8, <2>1 DEF SaveCompleted, FinishAt, SourceIs, RecordShape
<1>9. CASE SaveCancel
  <2>1. UsableBackup /\ rec.method = "backup"
    BY <1>1, <1>9 DEF SaveCancel, RestoreAt
  <2>2. CASE rec.status = "completed"
    <3>1. \A t \in Tables : source'[t] = RowsOf(backup.tables[t])
      BY <1>9, <2>2 DEF SaveCancel
    <3>2. backup' = backup
      BY <1>9 DEF SaveCancel
    <3>3. BackedUp'
      BY <2>1, <3>1, <3>2 DEF BackedUp, UsableBackup, RowsOf
    <3> QED BY <1>1, <1>9, <2>2, <3>3 DEF SaveCancel, SourceIs, RecordShape
  <2>3. CASE rec.status # "completed"
    <3>1. BackedUp'
      BY <1>1, <1>2, <1>9, <2>1, <2>3 DEF SaveCancel, RestoreAt, SourceIs
    <3> QED BY <1>1, <1>9, <2>3, <3>1 DEF SaveCancel, RestoreAt, SourceIs, RecordShape
  <2> QED BY <2>2, <2>3
<1>10. CASE SaveRestored
  <2>1. Original'
    BY <1>1, <1>3, <1>4, <1>10 DEF SaveRestored, RestoreAt
  <2> QED BY <1>1, <1>10, <2>1 DEF SaveRestored, RestoreAt, SourceIs, RecordShape
<1>11. ASSUME MarkSteps PROVE SourceIs'
  <2>1. UNCHANGED <<rec, backup, source>> /\ \A t \in Tables : RowsOf(table[t])' = RowsOf(table[t])
    BY <1>11, MarkStepsAre, StepsChange DEF MarkSteps, TableSteps
  <2>2. (Original' <=> Original) /\ (BackedUp' <=> BackedUp)
    BY <2>1, <1>2, <1>3
  <2> QED BY <1>1, <2>1, <2>2 DEF SourceIs
<1>12. CASE PurgeTable
  <2>1. rec.status = "abandoned" /\ Original /\ UNCHANGED <<rec, backup, source>> /\ cmd.at \in Tables
    BY <1>1, <1>12, AtIs DEF PurgeTable, CancelAt, SourceIs
  <2>2. None \in VectorTables
    BY RecordsAre
  <2>3. ASSUME NEW t \in Tables
        PROVE  table'[t] = table[t] \/ (table'[t] = None /\ MarkerOf(t) = Mine("discarding"))
    BY <1>12, <2>1, <2>2, SetTableIs DEF PurgeTable
  <2>4. ASSUME NEW t \in Tables
        PROVE  RowsOf(table[t])' = RowsOf(table[t])
    BY <1>1, <2>1, <2>3 DEF RowsOf, TablesFit
  <2> QED BY <1>1, <1>2, <1>3, <2>1, <2>4 DEF SourceIs
<1>13. CASE DropTable \/ CreateTable \/ LabelTable \/ SealTable
  <2>1. /\ Forward \/ Discarding
        /\ UNCHANGED <<rec, backup, source>>
    BY <1>1, <1>13 DEF DropTable, CreateTable, LabelTable, SealTable, SwitchAt, CancelAt, FinishAt,
       RestoreAt, Inv, CommandAt, Base, TypeOK, Operations
  <2> QED BY <1>1, <1>2, <2>1 DEF SourceIs, RecordShape
<1>14. CASE SwapIn
  <2>1. Undoing /\ UNCHANGED <<rec, backup, source>>
    BY <1>1, <1>14 DEF SwapIn, RestoreAt
  <2> QED BY <1>1, <1>2, <2>1 DEF SourceIs, RecordShape
<1>15. CASE BackupSteps
  <2>1. /\ Fresh \/ (rec.status = "completed" /\ rec.cancel = "none")
        /\ UNCHANGED <<rec, table, source>>
    BY <1>1, <1>15 DEF BackupSteps, BackupBegin, BackupComplete, DropBackup, Retain, SwitchAt,
       CancelAt, FinishAt, Inv, CommandAt
  <2>2. Original'
    BY <1>1, <1>3, <1>4, <2>1 DEF SourceIs
  <2> QED BY <1>1, <2>1, <2>2 DEF SourceIs, RecordShape
<1>16. CASE UNCHANGED <<rec, table, backup, source>>
  BY <1>1, <1>2, <1>3, <1>4, <1>16 DEF SourceIs
<1> QED BY <1>5, <1>6, <1>7, <1>8, <1>9, <1>10, <1>11, <1>12, <1>13, <1>14, <1>15, <1>16, StepsChange
        DEF RecordSteps, TableSteps, MarkSteps

-----------------------------------------------------------------------------
(* The commands.                                                           *)

\* From one table of a loop to the next, or to the first.
LEMMA PassedMoves ==
    ASSUME Base, cmd.pc # "swap"
    PROVE  /\ cmd'.at = cmd.at + 1 => /\ Passed' = Passed \cup {cmd.at}
                                      /\ Later' \subseteq Later
                                      /\ cmd.at < TableCount => cmd'.at \in Later
           /\ cmd'.at = 1 => Passed' = {}
           /\ cmd'.at = cmd.at => Passed' = Passed /\ Later' = Later
           /\ ~(cmd.at < TableCount) => Tables = Passed \cup {cmd.at}
           /\ cmd.at \in Tables /\ cmd.at \notin Passed /\ cmd.at \notin Later
           /\ Passed \subseteq Tables /\ Later \subseteq Tables
<1>1. cmd.at \in Tables /\ (cmd.at < TableCount => cmd.at + 1 \in Tables)
  BY AtIs
<1>2. Tables \subseteq Nat /\ TableCount \in Nat /\ \A t \in Tables : 1 <= t /\ t <= TableCount
  BY LayoutAssumption DEF Tables
<1>3. /\ \A t : t \in Passed <=> t \in Tables /\ t < cmd.at
      /\ \A t : t \in Later <=> t \in Tables /\ t > cmd.at
      /\ \A t : t \in Passed' <=> t \in Tables /\ t < cmd'.at
      /\ \A t : t \in Later' <=> t \in Tables /\ t > cmd'.at
  BY DEF Passed, Later
<1>4. PICK k \in Tables : k = cmd.at
  BY <1>1
<1>5. ASSUME cmd'.at = cmd.at + 1
      PROVE  /\ Passed' = Passed \cup {cmd.at}
             /\ Later' \subseteq Later
             /\ cmd.at < TableCount => cmd'.at \in Later
  <2>1. cmd'.at = k + 1 /\ k \in Nat
    BY <1>2, <1>4, <1>5
  <2>2. \A t \in Tables : t < k + 1 <=> t < k \/ t = k
    BY <1>2, <2>1
  <2>3. \A t \in Tables : t > k + 1 => t > k
    BY <1>2, <2>1
  <2>4. \A t : t \in Passed' <=> t \in Passed \/ t = cmd.at
    BY <1>3, <1>4, <2>1, <2>2
  <2>5. \A t : t \in Later' => t \in Later
    BY <1>3, <1>4, <2>1, <2>3
  <2>6. k < TableCount => k + 1 \in Later
    BY <1>1, <1>2, <1>3, <1>4, <2>1
  <2> QED BY <1>4, <2>1, <2>4, <2>5, <2>6
<1>6. cmd'.at = 1 => Passed' = {}
  <2>1. \A t \in Tables : ~(t < 1)
    BY <1>2
  <2> QED BY <1>3, <2>1
<1>7. cmd'.at = cmd.at => Passed' = Passed /\ Later' = Later
  BY <1>3
<1>8. ~(cmd.at < TableCount) => Tables = Passed \cup {cmd.at}
  <2>1. ~(k < TableCount) => \A t \in Tables : t < k \/ t = k
    BY <1>2
  <2> QED BY <1>1, <1>3, <1>4, <2>1
<1>9. /\ cmd.at \notin Passed /\ cmd.at \notin Later
      /\ Passed \subseteq Tables /\ Later \subseteq Tables
  BY <1>2, <1>3, <1>4
<1> QED BY <1>1, <1>5, <1>6, <1>7, <1>8, <1>9

\* What is said of the record alone, and of the record and the backup.
LEMMA SameRecord ==
    ASSUME UNCHANGED rec
    PROVE  /\ Fresh' <=> Fresh
           /\ Forward' <=> Forward
           /\ Discarding' <=> Discarding
           /\ Undoing' <=> Undoing
           /\ \A s : Mine(s)' = Mine(s)
BY DEF Fresh, Forward, Discarding, Undoing, Running, Mine

LEMMA SameBackup ==
    ASSUME UNCHANGED backup
    PROVE  /\ UsableBackup' <=> UsableBackup
           /\ UNCHANGED source => (BackedUp' <=> BackedUp)
BY DEF UsableBackup, BackedUp

LEMMA CommandEnds ==
    ASSUME cmd' = Idle
    PROVE  CommandAt'
BY DEF CommandAt, Idle

LEMMA CommandGoesOn ==
    ASSUME Base, Inv, CommandStep, cmd'.op = cmd.op, cmd'.pc # "idle",
           SwitchAt', CancelAt', FinishAt', RestoreAt'
    PROVE  CommandAt'
<1>1. cmd.op # "none" /\ rec' # None /\ server'.phase = "down"
  BY CommandMoves, Working, StepsChange DEF Inv, CommandAt
<1>2. cmd' # Idle
  BY <1>1 DEF Idle
<1> QED BY <1>1, <1>2 DEF CommandAt

\* What a command relies on at each pc.
LEMMA Position ==
    ASSUME Base, Inv, CommandStep
    PROVE  /\ cmd = [op |-> cmd.op, pc |-> cmd.pc, at |-> cmd.at]
           /\ cmd.op \in {"switch", "abandon", "discard", "finalize", "restore"}
           /\ cmd.pc # "idle"
BY CommandMoves DEF Base, TypeOK, Inv, CommandAt, Operations

LEMMA SwitchProceeds ==
    ASSUME Base, Inv, CommandStep,
           MarkSwitching \/ RecheckWriter \/ BackupBegin \/ BackupComplete \/ SaveReplace
           \/ SkipReplaced \/ SavePending
    PROVE  CommandAt'
<1>1. /\ rec # None /\ rec' # None /\ server.phase = "down"
      /\ RecordShape /\ MarkersFit /\ SourceIs
      /\ SwitchAt /\ CancelAt /\ FinishAt /\ RestoreAt
  BY Working DEF Inv
<1>2. cmd = [op |-> cmd.op, pc |-> cmd.pc, at |-> cmd.at]
  BY Position
<1>3. CASE MarkSwitching
  <2>1. /\ cmd.op = "switch" /\ Fresh /\ Fresh' /\ cmd.pc = "mark"
        /\ \A t \in Passed : MarkerOf(t) = Mine("switching")
        /\ \A s : Mine(s)' = Mine(s)
    BY <1>1, <1>3, SameRecord DEF MarkSwitching, SwitchAt
  <2>2. \A t \in Tables : MarkerOf(t)' = IF t = cmd.at THEN Mine("switching") ELSE MarkerOf(t)
    BY <1>1, <1>3, MineIs, MarkingIs DEF MarkSwitching, MarkerStates
  <2>3. CASE cmd.at < TableCount
    <3>1. cmd' = [op |-> "switch", pc |-> "mark", at |-> cmd.at + 1]
      BY <1>2, <1>3, <2>1, <2>3 DEF MarkSwitching, NextTable
    <3>2. \A t \in Passed' : MarkerOf(t)' = Mine("switching")'
      BY <2>1, <2>2, <3>1, PassedMoves
    <3>3. SwitchAt' /\ CancelAt' /\ FinishAt' /\ RestoreAt'
      BY <2>1, <3>1, <3>2 DEF SwitchAt, CancelAt, FinishAt, RestoreAt
    <3> QED BY <2>1, <3>1, <3>3, CommandGoesOn
  <2>4. CASE ~(cmd.at < TableCount)
    <3>1. cmd' = [op |-> "switch", pc |-> "recheck", at |-> 1]
      BY <1>2, <1>3, <2>1, <2>4 DEF MarkSwitching, NextTable, Goto
    <3>2. MarkedAs({"switching"})'
      BY <2>1, <2>2, <2>4, PassedMoves DEF MarkedAs
    <3>3. SwitchAt' /\ CancelAt' /\ FinishAt' /\ RestoreAt'
      BY <2>1, <3>1, <3>2 DEF SwitchAt, CancelAt, FinishAt, RestoreAt
    <3> QED BY <2>1, <3>1, <3>3, CommandGoesOn
  <2> QED BY <2>3, <2>4
<1>4. CASE RecheckWriter \/ BackupBegin \/ BackupComplete
  <2>1. cmd.op = "switch" /\ Fresh /\ MarkedAs({"switching"}) /\ UNCHANGED <<rec, table, source>>
    BY <1>1, <1>4 DEF RecheckWriter, BackupBegin, BackupComplete, SwitchAt
  <2>2. Fresh' /\ MarkedAs({"switching"})'
    BY <2>1, SameRecord, SameTables, SameMarks
  <2>3. \/ cmd' = [op |-> "switch", pc |-> "backup", at |-> 1] /\ rec.method = "backup"
        \/ cmd' = [op |-> "switch", pc |-> "copy", at |-> 1] /\ rec.method = "backup"
        \/ cmd' = [op |-> "switch", pc |-> "save_replace", at |-> 1] /\ rec.method # "backup"
        \/ cmd' = [op |-> "switch", pc |-> "save_replace", at |-> 1] /\ BackedUp'
    <3>1. CASE RecheckWriter
      BY <1>1, <1>2, <2>1, <3>1 DEF RecheckWriter, NoWriter, Goto
    <3>2. CASE BackupBegin
      BY <1>1, <1>2, <2>1, <3>2 DEF BackupBegin, SwitchAt, Goto
    <3>3. CASE BackupComplete
      <4>1. Original /\ backup' = [complete |-> TRUE, tables |-> table]
        BY <1>1, <2>1, <3>3 DEF BackupComplete, SourceIs
      <4>2. backup' # None
        <5>1. backup' \in Backups
          BY <4>1 DEF Backups, Base, TypeOK
        <5> QED BY <5>1, NothingAssumption
      <4>3. BackedUp'
        BY <2>1, <4>1, <4>2 DEF BackedUp, UsableBackup, Original, RowsOf
      <4> QED BY <1>2, <2>1, <3>3, <4>3 DEF BackupComplete, Goto
    <3> QED BY <1>4, <3>1, <3>2, <3>3
  <2>4. SwitchAt' /\ CancelAt' /\ FinishAt' /\ RestoreAt'
    BY <2>1, <2>2, <2>3 DEF SwitchAt, CancelAt, FinishAt, RestoreAt
  <2>5. cmd'.op = cmd.op /\ cmd'.pc # "idle"
    BY <2>1, <2>3
  <2> QED BY <2>4, <2>5, CommandGoesOn
<1>5. CASE SaveReplace
  <2>1. cmd.op = "switch" /\ Fresh /\ MarkedAs({"switching"}) /\ rec \in AttemptRecords
    BY <1>1, <1>5, Working DEF SaveReplace, SwitchAt
  <2>2. /\ rec'.id = rec.id /\ table' = table
        /\ Forward' /\ rec'.stage = "replace"
    BY <1>1, <1>5, <2>1 DEF SaveReplace, AttemptRecords, Fresh, Forward, Running, RecordShape
  <2>3. \A t \in Tables : MarkerOf(t)' = Mine("switching")'
    BY <2>1, <2>2, SameTables, SameMarks DEF MarkedAs
  <2>4. cmd' = [op |-> "switch", pc |-> "replace", at |-> 1]
    BY <1>2, <1>5, <2>1 DEF SaveReplace, Goto
  <2>5. Passed' = {} /\ Later' \subseteq Tables /\ cmd'.at \in Tables
    BY <2>4, TablesAre DEF Passed, Later, Tables
  <2>6. SwitchAt' /\ CancelAt' /\ FinishAt' /\ RestoreAt'
    BY <2>2, <2>3, <2>4, <2>5 DEF SwitchAt, CancelAt, FinishAt, RestoreAt
  <2> QED BY <2>1, <2>4, <2>6, CommandGoesOn
<1>6. CASE SkipReplaced
  <2>1. /\ cmd.op = "switch" /\ Forward /\ rec.stage = "replace"
        /\ cmd.pc = "replace" /\ UNCHANGED <<rec, table>>
        /\ \A t \in Passed : MarkerOf(t) = Mine("pending")
        /\ \A t \in Later : MarkerOf(t) \in {Mine("pending"), Mine("switching")}
    BY <1>1, <1>6 DEF SkipReplaced, SwitchAt
  <2>2. \A t \in Tables : t = cmd.at => MarkerOf(t) = Mine("pending")
    BY <1>6 DEF SkipReplaced
  <2>3. /\ Forward' /\ \A s : Mine(s)' = Mine(s)
        /\ \A t \in Tables : MarkerOf(t)' = MarkerOf(t)
    BY <2>1, SameRecord, SameTables
  <2>4. CASE cmd.at < TableCount
    <3>1. cmd' = [op |-> "switch", pc |-> "replace", at |-> cmd.at + 1]
      BY <1>2, <1>6, <2>1, <2>4 DEF SkipReplaced, NextTable
    <3>2. /\ Passed' = Passed \cup {cmd.at} /\ Later' \subseteq Later /\ cmd'.at \in Later
          /\ Passed \subseteq Tables /\ Later \subseteq Tables /\ cmd.at \in Tables
      BY <2>1, <2>4, <3>1, PassedMoves
    <3>3. /\ \A t \in Passed' : MarkerOf(t)' = Mine("pending")'
          /\ \A t \in Later' : MarkerOf(t)' \in {Mine("pending")', Mine("switching")'}
          /\ \A t \in Tables : t = cmd'.at => MarkerOf(t)' \in {Mine("pending")', Mine("switching")'}
      BY <2>1, <2>2, <2>3, <3>2
    <3>4. SwitchAt' /\ CancelAt' /\ FinishAt' /\ RestoreAt'
      BY <2>1, <2>3, <3>1, <3>2, <3>3 DEF SwitchAt, CancelAt, FinishAt, RestoreAt
    <3> QED BY <2>1, <3>1, <3>4, CommandGoesOn
  <2>5. CASE ~(cmd.at < TableCount)
    <3>1. cmd' = [op |-> "switch", pc |-> "save_pending", at |-> 1]
      BY <1>2, <1>6, <2>1, <2>5 DEF SkipReplaced, NextTable, Goto
    <3>2. MarkedAs({"pending"})'
      BY <2>1, <2>2, <2>3, <2>5, PassedMoves DEF MarkedAs
    <3>3. SwitchAt' /\ CancelAt' /\ FinishAt' /\ RestoreAt'
      BY <2>1, <2>3, <3>1, <3>2 DEF SwitchAt, CancelAt, FinishAt, RestoreAt
    <3> QED BY <2>1, <3>1, <3>3, CommandGoesOn
  <2> QED BY <2>4, <2>5
<1>7. CASE SavePending
  BY <1>7, CommandEnds DEF SavePending, Done
<1> QED BY <1>3, <1>4, <1>5, <1>6, <1>7

LEMMA ReplacingProceeds ==
    ASSUME Base, Inv, CommandStep, DropTable \/ CreateTable \/ LabelTable \/ SealTable
    PROVE  CommandAt'
<1>1. /\ rec # None /\ rec \in AttemptRecords
      /\ SwitchAt /\ CancelAt /\ FinishAt /\ RestoreAt
  BY Working
<1>2. /\ cmd = [op |-> cmd.op, pc |-> cmd.pc, at |-> cmd.at]
      /\ cmd.pc \in {"replace", "create", "label", "seal"} /\ cmd.op \in {"switch", "discard"}
      /\ UNCHANGED <<rec, source>>
  BY <1>1, Position DEF DropTable, CreateTable, LabelTable, SealTable, SwitchAt, CancelAt,
     FinishAt, RestoreAt
<1>3. /\ cmd.op = "switch" => Forward /\ Forward' /\ rec.stage = "replace"
      /\ cmd.op = "discard" => Discarding /\ Discarding' /\ Gone /\ Gone'
  BY <1>1, <1>2, SameRecord DEF SwitchAt, CancelAt, Gone
<1>4. /\ cmd.op = "switch" =>
           /\ \A t \in Passed : MarkerOf(t) = Mine("pending")
           /\ \A t \in Later : MarkerOf(t) \in {Mine("pending"), Mine("switching")}
      /\ cmd.op = "discard" =>
           \A t \in Passed : MarkerOf(t) = Mine("discarding") /\ table[t].rows = Empty
  BY <1>1, <1>2 DEF SwitchAt, CancelAt
<1>5. PICK k \in Tables : k = cmd.at /\ k \notin Passed /\ k \notin Later
  BY <1>2, PassedMoves
<1>6. \A t \in Tables : t # k => table'[t] = table[t] /\ MarkerOf(t)' = MarkerOf(t)
  BY <1>1, <1>5, ReplacingIs
<1>7. \A s : Mine(s)' = Mine(s)
  BY <1>2, SameRecord
<1>8. /\ Passed \subseteq Tables /\ Later \subseteq Tables
      /\ cmd.op = "switch" =>
           /\ \A t \in Passed : MarkerOf(t)' = Mine("pending")'
           /\ \A t \in Later : MarkerOf(t)' \in {Mine("pending")', Mine("switching")'}
      /\ cmd.op = "discard" =>
           \A t \in Passed : MarkerOf(t)' = Mine("discarding")' /\ table'[t].rows = Empty
  BY <1>2, <1>4, <1>5, <1>6, <1>7, PassedMoves
<1>9. /\ CreateTable => table[k] = None
      /\ LabelTable => table[k] = NewTable /\ cmd.op = "switch"
      /\ SealTable => table[k] = [NewTable EXCEPT
                          !.space = IF cmd.op = "switch" THEN rec.target ELSE None]
  BY <1>1, <1>5 DEF CreateTable, LabelTable, SealTable, SwitchAt
<1>10. NewTable # None
  BY NewTableIs, RecordsAre
<1>11. /\ CreateTable => OpenOrCreate(k) = NewTable
       /\ LabelTable => OpenOrCreate(k) = NewTable
  BY <1>9, <1>10 DEF OpenOrCreate
<1>12. ASSUME DropTable \/ CreateTable \/ LabelTable
       PROVE  CommandAt'
  <2>1. /\ cmd'.op = cmd.op /\ cmd'.at = cmd.at
        /\ cmd'.pc \in {"create", "label", "seal"}
        /\ cmd'.pc = "create" => DropTable
        /\ cmd'.pc = "label" => CreateTable /\ cmd.op = "switch"
        /\ cmd'.pc = "seal" => (CreateTable /\ cmd.op # "switch") \/ LabelTable
    BY <1>2, <1>12 DEF DropTable, CreateTable, LabelTable
  <2>2. /\ cmd'.pc = "create" => table'[k] = None
        /\ cmd'.pc = "label" => table'[k] = NewTable
        /\ cmd'.pc = "seal" => table'[k] = [NewTable EXCEPT
                                  !.space = IF cmd.op = "switch" THEN rec.target ELSE None]
    <3>1. DropTable => table'[k] = None
      BY <1>1, <1>5, ReplacingIs
    <3>2. CreateTable => table'[k] = NewTable
      BY <1>1, <1>5, <1>11, ReplacingIs
    <3>3. LabelTable => table'[k] = [NewTable EXCEPT !.space = rec.target]
      BY <1>1, <1>5, <1>11, ReplacingIs
    <3>4. NewTable = [NewTable EXCEPT !.space = None]
      BY DEF NewTable
    <3> QED BY <1>9, <2>1, <3>1, <3>2, <3>3, <3>4
  <2>3. Passed' = Passed /\ Later' = Later
    BY <1>2, <2>1, PassedMoves
  <2>4. SwitchAt'
    BY <1>2, <1>3, <1>5, <1>8, <2>1, <2>2, <2>3 DEF SwitchAt
  <2>5. CancelAt'
    BY <1>2, <1>3, <1>8, <2>1, <2>3 DEF CancelAt
  <2>6. FinishAt' /\ RestoreAt'
    BY <1>2, <2>1 DEF FinishAt, RestoreAt
  <2>7. cmd'.op = cmd.op /\ cmd'.pc # "idle"
    BY <2>1
  <2> QED BY <2>4, <2>5, <2>6, <2>7, CommandGoesOn
<1>13. CASE SealTable
  <2>1. /\ table[k] \in TableRecords /\ table[k].rows = Empty
    <3> DEFINE sp == IF cmd.op = "switch" THEN rec.target ELSE None
    <3>1. sp \in Spaces \cup {None} /\ table[k] = [NewTable EXCEPT !.space = sp]
      BY <1>1, <1>9, <1>13 DEF AttemptRecords
    <3> HIDE DEF sp
    <3> QED BY <3>1, NewTableIs DEF NewTable, TableRecords
  <2>2. OpenOrCreate(k) = table[k]
    BY <2>1, RecordsAre DEF OpenOrCreate
  <2>3. \E m : /\ table'[k] = [table[k] EXCEPT !.marker = m] /\ MarkerOf(k)' = m
               /\ m = IF cmd.op = "switch" THEN Mine("pending") ELSE Mine("discarding")
    BY <1>1, <1>5, <1>13, <2>2, ReplacingIs
  <2>4. /\ table'[k].rows = Empty
        /\ MarkerOf(k)' = IF cmd.op = "switch" THEN Mine("pending")' ELSE Mine("discarding")'
    BY <1>7, <2>1, <2>3 DEF TableRecords
  <2>5. CASE cmd.at < TableCount
    <3>1. cmd' = [op |-> cmd.op, pc |-> "replace", at |-> cmd.at + 1]
      BY <1>2, <1>13, <2>5 DEF SealTable, NextTable
    <3>2. /\ Passed' = Passed \cup {k} /\ Later' \subseteq Later /\ cmd'.at \in Later
      BY <1>2, <1>5, <2>5, <3>1, PassedMoves
    <3>3. /\ cmd.op = "switch" =>
             /\ \A t \in Passed' : MarkerOf(t)' = Mine("pending")'
             /\ \A t \in Later' : MarkerOf(t)' \in {Mine("pending")', Mine("switching")'}
             /\ \A t \in Tables : t = cmd'.at => MarkerOf(t)' \in {Mine("pending")', Mine("switching")'}
          /\ cmd.op = "discard" =>
             \A t \in Passed' : MarkerOf(t)' = Mine("discarding")' /\ table'[t].rows = Empty
      BY <1>2, <1>8, <2>4, <3>2
    <3>4. SwitchAt'
      BY <1>2, <1>3, <1>8, <3>1, <3>2, <3>3 DEF SwitchAt
    <3>5. CancelAt' /\ FinishAt' /\ RestoreAt'
      BY <1>2, <1>3, <3>1, <3>3 DEF CancelAt, FinishAt, RestoreAt
    <3>6. cmd'.op = cmd.op /\ cmd'.pc # "idle"
      BY <3>1
    <3> QED BY <3>4, <3>5, <3>6, CommandGoesOn
  <2>6. CASE ~(cmd.at < TableCount)
    <3>1. /\ Tables = Passed \cup {k}
          /\ cmd' = [op |-> cmd.op, at |-> 1,
                     pc |-> IF cmd.op = "switch" THEN "save_pending" ELSE "save_discarded"]
      BY <1>2, <1>5, <1>13, <2>6, PassedMoves DEF SealTable, NextTable, Goto
    <3>2. /\ cmd.op = "switch" => MarkedAs({"pending"})'
          /\ cmd.op = "discard" =>
                \A t \in Tables : MarkerOf(t)' = Mine("discarding")' /\ table'[t].rows = Empty
      BY <1>2, <1>8, <2>4, <3>1 DEF MarkedAs
    <3>3. SwitchAt' /\ CancelAt' /\ FinishAt' /\ RestoreAt'
      BY <1>2, <1>3, <3>1, <3>2 DEF SwitchAt, CancelAt, FinishAt, RestoreAt
    <3>4. cmd'.op = cmd.op /\ cmd'.pc # "idle"
      BY <1>2, <3>1
    <3> QED BY <3>3, <3>4, CommandGoesOn
  <2> QED BY <2>5, <2>6
<1> QED BY <1>12, <1>13

LEMMA CancelProceeds ==
    ASSUME Base, Inv, CommandStep,
           ClearSwitching \/ DropBackup \/ SaveAbandoned \/ SaveDiscard \/ MarkDiscarding
           \/ SaveDiscarded \/ PurgeTable
    PROVE  CommandAt'
<1>1. /\ rec # None /\ rec \in AttemptRecords /\ MarkersFit /\ RecordShape
      /\ SwitchAt /\ CancelAt /\ FinishAt /\ RestoreAt
  BY Working DEF Inv
<1>2. cmd = [op |-> cmd.op, pc |-> cmd.pc, at |-> cmd.at]
  BY Position
<1>3. CASE ClearSwitching
  <2>1. /\ cmd.op = "abandon" /\ Fresh /\ Fresh' /\ cmd.pc = "clear"
        /\ \A t \in Passed : MarkerOf(t) = None
        /\ MarkedAtMost({"switching"})
        /\ UNCHANGED rec
    BY <1>1, <1>3, SameRecord DEF ClearSwitching, CancelAt, MarkersFit
  <2>2. /\ cmd.at \in Tables /\ cmd.at \notin Passed /\ Passed \subseteq Tables
    BY <2>1, PassedMoves
  <2>3. \A t \in Tables : MarkerOf(t)' = IF t = cmd.at THEN None ELSE MarkerOf(t)
    <3>1. CASE MarkerOf(cmd.at) = Mine("switching")
      <4>1. SetMarker(cmd.at, None) /\ None \in Markers
        BY <1>3, <3>1 DEF ClearSwitching, Markers
      <4> QED BY <1>1, <2>1, <4>1, MarkingIs
    <3>2. CASE MarkerOf(cmd.at) # Mine("switching")
      <4>1. table' = table
        BY <1>3, <3>2 DEF ClearSwitching
      <4>2. MarkerOf(cmd.at) = None
        BY <2>1, <2>2, <3>2 DEF MarkedAtMost
      <4> QED BY <4>1, <4>2, SameTables
    <3> QED BY <3>1, <3>2
  <2>4. CASE cmd.at < TableCount
    <3>1. cmd' = [op |-> "abandon", pc |-> "clear", at |-> cmd.at + 1]
      BY <1>2, <1>3, <2>1, <2>4 DEF ClearSwitching, NextTable
    <3>2. \A t \in Passed' : MarkerOf(t)' = None
      BY <2>1, <2>2, <2>3, <3>1, PassedMoves
    <3>3. SwitchAt' /\ CancelAt' /\ FinishAt' /\ RestoreAt'
      BY <2>1, <3>1, <3>2 DEF SwitchAt, CancelAt, FinishAt, RestoreAt
    <3> QED BY <2>1, <3>1, <3>3, CommandGoesOn
  <2>5. CASE ~(cmd.at < TableCount)
    <3>1. cmd' = [op |-> "abandon", pc |-> "drop_backup", at |-> 1]
      BY <1>2, <1>3, <2>1, <2>5 DEF ClearSwitching, NextTable, Goto
    <3>2. Tables = Passed \cup {cmd.at}
      BY <2>1, <2>5, PassedMoves
    <3>3. MarkedAtMost({})'
      BY <2>1, <2>2, <2>3, <3>2 DEF MarkedAtMost
    <3>4. SwitchAt' /\ CancelAt' /\ FinishAt' /\ RestoreAt'
      BY <2>1, <3>1, <3>3 DEF SwitchAt, CancelAt, FinishAt, RestoreAt
    <3> QED BY <2>1, <3>1, <3>4, CommandGoesOn
  <2> QED BY <2>4, <2>5
<1>4. CASE DropBackup
  <2>1. /\ cmd.op = "abandon" /\ Fresh /\ Fresh' /\ MarkedAtMost({}) /\ UNCHANGED <<rec, table>>
        /\ cmd' = [op |-> "abandon", pc |-> "save_abandoned", at |-> 1]
    BY <1>1, <1>2, <1>4, SameRecord DEF DropBackup, CancelAt, Goto
  <2>2. MarkedAtMost({})'
    BY <2>1, SameTables, SameMarks
  <2>3. SwitchAt' /\ CancelAt' /\ FinishAt' /\ RestoreAt'
    BY <2>1, <2>2 DEF SwitchAt, CancelAt, FinishAt, RestoreAt
  <2> QED BY <2>1, <2>3, CommandGoesOn
<1>5. CASE SaveAbandoned
  BY <1>5, CommandEnds DEF SaveAbandoned, Done
<1>6. CASE SaveDiscard
  <2>1. /\ cmd.op = "discard" /\ cmd' = [op |-> "discard", pc |-> "discard_mark", at |-> 1]
        /\ Discarding' /\ Gone'
    BY <1>1, <1>2, <1>6 DEF SaveDiscard, CancelAt, Goto, AttemptRecords, Forward, Discarding, Running,
       Gone
  <2>2. SwitchAt' /\ CancelAt' /\ FinishAt' /\ RestoreAt'
    BY <2>1 DEF SwitchAt, CancelAt, FinishAt, RestoreAt
  <2> QED BY <2>1, <2>2, CommandGoesOn
<1>7. CASE MarkDiscarding
  <2>1. /\ cmd.op = "discard" /\ UNCHANGED <<rec, source>>
        /\ Discarding' /\ Gone'
        /\ \/ cmd' = [op |-> "discard", pc |-> "discard_mark", at |-> cmd.at + 1]
           \/ cmd' = [op |-> "discard", pc |-> "replace", at |-> 1]
    BY <1>1, <1>2, <1>7, SameRecord DEF MarkDiscarding, CancelAt, NextTable, Goto, Gone
  <2>2. cmd'.pc = "replace" => Passed' = {}
    <3>1. \A t \in Tables : ~(t < 1)
      BY LayoutAssumption DEF Tables
    <3> QED BY <2>1, <3>1 DEF Passed
  <2>3. SwitchAt' /\ CancelAt' /\ FinishAt' /\ RestoreAt'
    BY <2>1, <2>2 DEF SwitchAt, CancelAt, FinishAt, RestoreAt
  <2>4. cmd'.op = cmd.op /\ cmd'.pc # "idle"
    BY <2>1
  <2> QED BY <2>3, <2>4, CommandGoesOn
<1>8. CASE SaveDiscarded
  <2>1. /\ cmd.op = "discard" /\ cmd' = [op |-> "discard", pc |-> "purge", at |-> 1]
        /\ rec'.status = "abandoned" /\ rec'.discarded
    BY <1>1, <1>2, <1>8 DEF SaveDiscarded, CancelAt, Goto, AttemptRecords, Discarding, RecordShape
  <2>2. SwitchAt' /\ CancelAt' /\ FinishAt' /\ RestoreAt'
    BY <2>1 DEF SwitchAt, CancelAt, FinishAt, RestoreAt
  <2> QED BY <2>1, <2>2, CommandGoesOn
<1>9. CASE PurgeTable
  <2>1. CASE cmd' = Idle
    BY <2>1, CommandEnds
  <2>2. CASE cmd' # Idle
    <3>1. /\ cmd.op = "discard" /\ cmd' = [op |-> "discard", pc |-> "purge", at |-> cmd.at + 1]
          /\ rec'.status = "abandoned" /\ rec'.discarded
      BY <1>1, <1>2, <1>9, <2>2 DEF PurgeTable, CancelAt, NextTable, Done
    <3>2. SwitchAt' /\ CancelAt' /\ FinishAt' /\ RestoreAt'
      BY <3>1 DEF SwitchAt, CancelAt, FinishAt, RestoreAt
    <3> QED BY <3>1, <3>2, CommandGoesOn
  <2> QED BY <2>1, <2>2
<1> QED BY <1>3, <1>4, <1>5, <1>6, <1>7, <1>8, <1>9

LEMMA FinishProceeds ==
    ASSUME Base, Inv, CommandStep, TableCount > 1,
           Verify \/ MarkCommitting \/ SaveCommit \/ SaveCompleted \/ Unmark \/ Retain
    PROVE  CommandAt'
<1>1. /\ rec # None /\ rec \in AttemptRecords /\ MarkersFit /\ RecordShape
      /\ SwitchAt /\ CancelAt /\ FinishAt /\ RestoreAt
  BY Working DEF Inv
<1>2. cmd = [op |-> cmd.op, pc |-> cmd.pc, at |-> cmd.at]
  BY Position
<1>3. CASE cmd' = Idle
  BY <1>3, CommandEnds
<1>4. CASE Verify /\ cmd' # Idle
  <2>1. /\ cmd.op = "finalize" /\ Forward /\ MarkedAs({"pending"}) /\ Rebuilt
        /\ UNCHANGED <<rec, table, edition>>
        /\ cmd' = [op |-> "finalize", pc |-> "commit_mark", at |-> 1]
    BY <1>1, <1>2, <1>4 DEF Verify, FinishAt, Goto, Done
  <2>2. Forward' /\ Rebuilt'
    BY <2>1, SameRecord DEF Rebuilt, RecordedSpaces
  <2>3. MarkedAs({"pending", "committing"})'
    BY <2>1, SameRecord, SameTables DEF MarkedAs
  <2>4. Passed' = {}
    <3>1. \A t \in Tables : ~(t < 1)
      BY LayoutAssumption DEF Tables
    <3> QED BY <2>1, <3>1 DEF Passed
  <2>5. SwitchAt' /\ CancelAt' /\ FinishAt' /\ RestoreAt'
    BY <2>1, <2>2, <2>3, <2>4 DEF SwitchAt, CancelAt, FinishAt, RestoreAt
  <2> QED BY <2>1, <2>5, CommandGoesOn
<1>5. CASE MarkCommitting
  <2>1. /\ cmd.op = "finalize" /\ Forward /\ Forward' /\ UNCHANGED <<rec, edition>>
        /\ MarkedAs({"pending", "committing"}) /\ Rebuilt /\ cmd.pc = "commit_mark"
        /\ \A t \in Passed : MarkerOf(t) = Mine("committing")
        /\ \A s : Mine(s)' = Mine(s)
    BY <1>1, <1>5, SameRecord DEF MarkCommitting, FinishAt
  <2>2. /\ cmd.at \in Tables /\ cmd.at \notin Passed /\ Passed \subseteq Tables
    BY <2>1, PassedMoves
  <2>3. Mine("committing") \in Markers /\ SetMarker(cmd.at, Mine("committing"))
    BY <1>1, <1>5, <2>1, <2>2, MineIs, RebuiltIs DEF MarkCommitting, MarkAll, MarkerStates
  <2>4. /\ \A t \in Tables : MarkerOf(t)' = IF t = cmd.at THEN Mine("committing") ELSE MarkerOf(t)
        /\ \A t \in Tables : table[t] # None => /\ table'[t] # None
                                                /\ table'[t].space = table[t].space
                                                /\ table'[t].rows = table[t].rows
    BY <1>1, <2>1, <2>3, MarkingIs
  <2>5. Rebuilt'
    BY <2>1, <2>4, RebuiltStays
  <2>6. MarkedAs({"pending", "committing"})'
    BY <2>1, <2>4 DEF MarkedAs
  <2>7. CASE cmd.at < TableCount
    <3>1. cmd' = [op |-> "finalize", pc |-> "commit_mark", at |-> cmd.at + 1]
      BY <1>2, <1>5, <2>1, <2>7 DEF MarkCommitting, NextTable
    <3>2. \A t \in Passed' : MarkerOf(t)' = Mine("committing")'
      BY <2>1, <2>2, <2>4, <3>1, PassedMoves
    <3>3. SwitchAt' /\ CancelAt' /\ FinishAt' /\ RestoreAt'
      BY <2>1, <2>5, <2>6, <3>1, <3>2 DEF SwitchAt, CancelAt, FinishAt, RestoreAt
    <3> QED BY <2>1, <3>1, <3>3, CommandGoesOn
  <2>8. CASE ~(cmd.at < TableCount)
    <3>1. cmd' = [op |-> "finalize", pc |-> "save_commit", at |-> 1]
      BY <1>2, <1>5, <2>1, <2>8 DEF MarkCommitting, NextTable, Goto
    <3>2. MarkedAs({"committing"})'
      BY <2>1, <2>2, <2>4, <2>8, PassedMoves DEF MarkedAs
    <3>3. SwitchAt' /\ CancelAt' /\ FinishAt' /\ RestoreAt'
      BY <2>1, <3>1, <3>2 DEF SwitchAt, CancelAt, FinishAt, RestoreAt
    <3> QED BY <2>1, <3>1, <3>3, CommandGoesOn
  <2> QED BY <2>7, <2>8
<1>6. CASE SaveCommit
  <2>1. /\ cmd.op = "finalize" /\ Forward /\ MarkedAs({"committing"})
        /\ cmd' = [op |-> "finalize", pc |-> "save_completed", at |-> 1]
        /\ rec' = [rec EXCEPT !.stage = "commit"] /\ table' = table
    BY <1>1, <1>2, <1>6 DEF SaveCommit, FinishAt, Goto
  <2>2. Forward' /\ rec'.stage = "commit" /\ rec'.id = rec.id
    BY <1>1, <2>1 DEF Forward, Running, AttemptRecords
  <2>3. MarkedAs({"committing"})'
    BY <2>1, <2>2, SameTables, SameMarks
  <2>4. SwitchAt' /\ CancelAt' /\ FinishAt' /\ RestoreAt'
    BY <2>1, <2>2, <2>3 DEF SwitchAt, CancelAt, FinishAt, RestoreAt
  <2> QED BY <2>1, <2>4, CommandGoesOn
<1>7. CASE SaveCompleted
  <2>1. /\ cmd.op = "finalize" /\ cmd' = [op |-> "finalize", pc |-> "unmark", at |-> 1]
        /\ rec'.status = "completed" /\ rec'.cancel = "none"
    BY <1>1, <1>2, <1>7 DEF SaveCompleted, FinishAt, Goto, AttemptRecords, Forward
  <2>2. SwitchAt' /\ CancelAt' /\ FinishAt' /\ RestoreAt'
    BY <2>1 DEF SwitchAt, CancelAt, FinishAt, RestoreAt
  <2> QED BY <2>1, <2>2, CommandGoesOn
<1>8. CASE Unmark /\ cmd' # Idle
  <2>1. /\ UNCHANGED <<rec, backup>> /\ cmd.pc = "unmark"
        /\ \/ /\ cmd.op = "finalize" /\ rec.status = "completed" /\ rec.cancel = "none"
              /\ \/ cmd' = [op |-> "finalize", pc |-> "unmark", at |-> cmd.at + 1]
                 \/ cmd' = [op |-> "finalize", pc |-> "retain", at |-> 1]
           \/ /\ cmd.op = "restore" /\ rec.status = "restored" /\ UsableBackup
              /\ cmd' = [op |-> "restore", pc |-> "unmark", at |-> cmd.at + 1]
    BY <1>1, <1>2, <1>8 DEF Unmark, FinishAt, RestoreAt, NextTable, Goto, Done
  <2>2. UsableBackup' <=> UsableBackup
    BY <2>1, SameBackup
  <2>3. SwitchAt' /\ CancelAt' /\ FinishAt' /\ RestoreAt'
    BY <2>1, <2>2 DEF SwitchAt, CancelAt, FinishAt, RestoreAt
  <2>4. cmd'.op = cmd.op /\ cmd'.pc # "idle"
    BY <2>1
  <2> QED BY <2>3, <2>4, CommandGoesOn
<1>9. CASE Retain
  BY <1>9, CommandEnds DEF Retain, Done
<1> QED BY <1>3, <1>4, <1>5, <1>6, <1>7, <1>8, <1>9

LEMMA RestoreProceeds ==
    ASSUME Base, Inv, CommandStep, TableCount > 1,
           SaveCancel \/ MarkRestoring \/ SwapIn \/ SaveRestored
    PROVE  CommandAt'
<1>1. /\ rec # None /\ rec \in AttemptRecords /\ MarkersFit /\ RecordShape /\ SourceIs /\ BackupFits
      /\ SwitchAt /\ CancelAt /\ FinishAt /\ RestoreAt
  BY Working DEF Inv
<1>2. cmd = [op |-> cmd.op, pc |-> cmd.pc, at |-> cmd.at]
  BY Position
<1>3. cmd.op = "restore" /\ Marked /\ UsableBackup /\ UsableBackup'
  <2>1. UNCHANGED backup
    BY DEF SaveCancel, MarkRestoring, SwapIn, SaveRestored
  <2> QED BY <1>1, <2>1, SameBackup DEF SaveCancel, MarkRestoring, SwapIn, SaveRestored, RestoreAt
<1>4. CASE SaveCancel
  <2>1. /\ cmd' = [op |-> "restore", pc |-> "restore_mark", at |-> 1]
        /\ rec' = [rec EXCEPT !.cancel = "restore"] /\ table' = table
        /\ Forward \/ rec.status = "completed" \/ Undoing
    BY <1>1, <1>2, <1>3, <1>4 DEF SaveCancel, RestoreAt, Goto
  <2>2. Undoing' /\ rec'.id = rec.id
    BY <1>1, <2>1 DEF Forward, Undoing, Running, AttemptRecords
  <2>3. Marked' /\ Passed' = {}
    <3>1. \A t \in Tables : ~(t < 1)
      BY LayoutAssumption DEF Tables
    <3> QED BY <1>3, <2>1, <2>2, <3>1, SameTables, SameMarks DEF Passed
  <2>4. SwitchAt' /\ CancelAt' /\ FinishAt' /\ RestoreAt'
    BY <1>3, <2>1, <2>2, <2>3 DEF SwitchAt, CancelAt, FinishAt, RestoreAt
  <2> QED BY <1>3, <2>1, <2>4, CommandGoesOn
<1>5. ASSUME MarkRestoring \/ SwapIn
      PROVE  Undoing /\ Undoing' /\ Marked' /\ UNCHANGED <<rec, backup, source>>
  <2>1. Undoing /\ UNCHANGED <<rec, backup, source>>
    BY <1>1, <1>5 DEF MarkRestoring, SwapIn, RestoreAt
  <2>2. MarkersFit'
    BY <1>5, TableStepsKeepMarkers DEF TableSteps
  <2> QED BY <1>1, <2>1, <2>2, SameRecord DEF MarkersFit
<1>6. CASE MarkRestoring
  <2>1. /\ cmd.pc = "restore_mark" /\ MarkAll(Mine("restoring"))
        /\ \A t \in Passed : table[t] = None \/ MarkerOf(t) = Mine("restoring")
        /\ \A s : Mine(s)' = Mine(s)
        /\ Mine("restoring") \in Markers
    BY <1>1, <1>5, <1>6, SameRecord, MineIs DEF MarkRestoring, RestoreAt, MarkerStates
  <2>2. cmd.at \in Tables /\ cmd.at \notin Passed /\ Passed \subseteq Tables
    BY <2>1, PassedMoves
  <2>3. \A t \in Tables : IF t = cmd.at
                          THEN table'[t] = None \/ MarkerOf(t)' = Mine("restoring")
                          ELSE table'[t] = table[t] /\ MarkerOf(t)' = MarkerOf(t)
    <3>1. CASE table[cmd.at] = None
      BY <2>1, <3>1, SameTables DEF MarkAll
    <3>2. CASE table[cmd.at] # None
      <4>1. SetMarker(cmd.at, Mine("restoring"))
        BY <2>1, <3>2 DEF MarkAll
      <4> QED BY <1>1, <1>5, <1>6, <2>1, <4>1, MarkingIs
    <3> QED BY <3>1, <3>2
  <2>4. CASE cmd.at < TableCount
    <3>1. cmd' = [op |-> "restore", pc |-> "restore_mark", at |-> cmd.at + 1]
      BY <1>2, <1>3, <1>6, <2>1, <2>4 DEF MarkRestoring, NextTable
    <3>2. \A t \in Passed' : table'[t] = None \/ MarkerOf(t)' = Mine("restoring")'
      BY <2>1, <2>2, <2>3, <3>1, PassedMoves
    <3>3. SwitchAt' /\ CancelAt' /\ FinishAt' /\ RestoreAt'
      BY <1>3, <1>5, <1>6, <3>1, <3>2 DEF SwitchAt, CancelAt, FinishAt, RestoreAt
    <3> QED BY <1>3, <3>1, <3>3, CommandGoesOn
  <2>5. CASE ~(cmd.at < TableCount)
    <3>1. cmd' = [op |-> "restore", pc |-> "swap", at |-> 1]
      BY <1>2, <1>3, <1>6, <2>1, <2>5 DEF MarkRestoring, NextTable, Goto
    <3>2. \A t \in Tables : table'[t] = None \/ MarkerOf(t)' = Mine("restoring")'
      BY <2>1, <2>2, <2>3, <2>5, PassedMoves
    <3>3. \A t \in Tables : ~(DirOf[t] < cmd'.at)
      BY <3>1, LayoutAssumption DEF Dirs
    <3>4. SwitchAt' /\ CancelAt' /\ FinishAt' /\ RestoreAt'
      BY <1>3, <1>5, <1>6, <3>1, <3>2, <3>3 DEF SwitchAt, CancelAt, FinishAt, RestoreAt
    <3> QED BY <1>3, <3>1, <3>4, CommandGoesOn
  <2> QED BY <2>4, <2>5
<1>7. CASE SwapIn
  <2>1. /\ cmd.pc = "swap" /\ cmd.at \in Dirs
        /\ \A t \in Tables : table[t] = None \/ MarkerOf(t) = Mine("restoring")
        /\ \A t \in Tables : DirOf[t] < cmd.at => RowsOf(table[t]) = source[t]
        /\ \A s : Mine(s)' = Mine(s)
        /\ BackedUp
    BY <1>1, <1>5, <1>7, SameRecord DEF SwapIn, RestoreAt, SourceIs, Base, TypeOK
  <2>2. ASSUME NEW t \in Tables
        PROVE  /\ table'[t] = None \/ MarkerOf(t)' = Mine("restoring")'
               /\ DirOf[t] < cmd.at \/ DirOf[t] = cmd.at => RowsOf(table[t])' = source'[t]
    <3>1. CASE DirOf[t] # cmd.at
      <4>1. table'[t] = table[t]
        BY <1>7, <3>1 DEF SwapIn
      <4> QED BY <1>5, <1>7, <2>1, <3>1, <4>1 DEF MarkerOf, RowsOf
    <3>2. CASE DirOf[t] = cmd.at
      <4>1. backup.tables[t] \in TableRecords /\ RowsOf(backup.tables[t]) = source[t]
        BY <1>1, <1>3, <2>1, RecordsAre DEF Base, TypeOK, UsableBackup, Backups, BackupFits, BackedUp
      <4>2. table'[t] = [backup.tables[t] EXCEPT !.marker = Mine("restoring")]
        BY <1>7, <3>2, <4>1, RecordsAre DEF SwapIn
      <4>3. Mine("restoring") \in Markers
        BY <1>1, MineIs DEF MarkerStates
      <4>4. /\ table'[t] \in TableRecords /\ table'[t].marker = Mine("restoring")
            /\ table'[t].rows = backup.tables[t].rows
        BY <4>1, <4>2, <4>3 DEF TableRecords
      <4>5. MarkerOf(t)' = Mine("restoring") /\ RowsOf(table[t])' = backup.tables[t].rows
        BY <4>4, RecordsAre DEF MarkerOf, RowsOf
      <4> QED BY <1>5, <1>7, <2>1, <4>1, <4>5, RecordsAre DEF RowsOf
    <3> QED BY <3>1, <3>2
  <2>3. DirCount \in Nat /\ \A t \in Tables : DirOf[t] \in Dirs
    BY LayoutAssumption
  <2>4. CASE cmd.at < DirCount
    <3>1. cmd' = [op |-> "restore", pc |-> "swap", at |-> cmd.at + 1]
      BY <1>2, <1>3, <1>7, <2>1, <2>4 DEF SwapIn
    <3>2. \A t \in Tables : DirOf[t] < cmd'.at => DirOf[t] < cmd.at \/ DirOf[t] = cmd.at
      BY <2>1, <2>3, <3>1 DEF Dirs
    <3>3. SwitchAt' /\ CancelAt' /\ FinishAt' /\ RestoreAt'
      BY <1>3, <1>5, <1>7, <2>2, <3>1, <3>2 DEF SwitchAt, CancelAt, FinishAt, RestoreAt
    <3> QED BY <1>3, <3>1, <3>3, CommandGoesOn
  <2>5. CASE ~(cmd.at < DirCount)
    <3>1. cmd' = [op |-> "restore", pc |-> "save_restored", at |-> 1]
      BY <1>2, <1>3, <1>7, <2>1, <2>5 DEF SwapIn, Goto
    <3>2. \A t \in Tables : DirOf[t] < cmd.at \/ DirOf[t] = cmd.at
      BY <2>1, <2>3, <2>5 DEF Dirs
    <3>3. Original'
      BY <2>2, <3>2 DEF Original
    <3>4. SwitchAt' /\ CancelAt' /\ FinishAt' /\ RestoreAt'
      BY <1>3, <1>5, <1>7, <2>2, <3>1, <3>3 DEF SwitchAt, CancelAt, FinishAt, RestoreAt
    <3> QED BY <1>3, <3>1, <3>4, CommandGoesOn
  <2> QED BY <2>4, <2>5
<1>8. CASE SaveRestored
  <2>1. /\ cmd' = [op |-> "restore", pc |-> "unmark", at |-> 1]
        /\ rec'.status = "restored"
    BY <1>1, <1>2, <1>3, <1>8 DEF SaveRestored, Goto, AttemptRecords
  <2>2. SwitchAt' /\ CancelAt' /\ FinishAt' /\ RestoreAt'
    BY <1>3, <2>1 DEF SwitchAt, CancelAt, FinishAt, RestoreAt
  <2> QED BY <1>3, <2>1, <2>2, CommandGoesOn
<1> QED BY <1>4, <1>6, <1>7, <1>8

LEMMA CommandKeepsInv == ASSUME Base, Inv, CommandStep, TableCount > 1 PROVE Inv'
<1>1. RecordShape'
  BY CommandShape
<1>2. MarkersFit'
  <2>1. CASE RecordSteps
    BY <2>1, RecordStepsKeepMarkers
  <2>2. CASE TableSteps
    BY <2>2, TableStepsKeepMarkers
  <2>3. CASE UNCHANGED <<rec, table, edition>>
    <3>1. MarkersFit /\ rec' # None
      BY Working DEF Inv
    <3> QED BY <2>3, <3>1, SameRecord, SameTables, SameMarks
            DEF MarkersFit, Rebuilt, RecordedSpaces
  <2> QED BY <2>1, <2>2, <2>3, StepsChange
<1>3. TablesFit' /\ BackupFits' /\ SourceIs'
  BY CommandKeepsTables, CommandKeepsBackup, CommandKeepsSource
<1>4. CommandAt'
  BY SwitchProceeds, ReplacingProceeds, CancelProceeds, FinishProceeds, RestoreProceeds
     DEF CommandStep
<1>5. ServerAt'
  <2>1. server'.phase = "down"
    BY Working, StepsChange
  <2> QED BY <2>1 DEF ServerAt
<1> QED BY <1>1, <1>2, <1>3, <1>4, <1>5 DEF Inv

-----------------------------------------------------------------------------
(* Commands that begin, and commands that are interrupted.                 *)

\* What is stored is the same, and so is all that is said of it.
LEMMA SameContents ==
    ASSUME Inv, UNCHANGED <<table, rec, backup, source, edition>>
    PROVE  /\ RecordShape' /\ MarkersFit' /\ TablesFit' /\ BackupFits' /\ SourceIs'
           /\ UNCHANGED server => ServerAt'
<1>1. /\ RecordShape /\ MarkersFit /\ TablesFit /\ BackupFits /\ SourceIs /\ ServerAt
      /\ \A s : Mine(s)' = Mine(s)
      /\ \A t \in Tables : MarkerOf(t)' = MarkerOf(t)
      /\ BackedUp' <=> BackedUp
      /\ UsableBackup' <=> UsableBackup
      /\ Fresh' <=> Fresh
      /\ Forward' <=> Forward
      /\ Discarding' <=> Discarding
      /\ Undoing' <=> Undoing
  BY SameRecord, SameTables, SameBackup DEF Inv
<1>2. /\ Marked' <=> Marked
      /\ \A s : AnyMine(s)' <=> AnyMine(s)
      /\ \A S : MarkedAs(S)' <=> MarkedAs(S)
      /\ \A S : MarkedAtMost(S)' <=> MarkedAtMost(S)
      /\ Rebuilt' <=> Rebuilt
  BY <1>1, SameMarks DEF Rebuilt, RecordedSpaces
<1>3. Original' <=> Original
  BY DEF Original
<1>4. RecordShape'
  BY <1>1 DEF RecordShape
<1>5. MarkersFit'
  BY <1>1, <1>2 DEF MarkersFit
<1>6. TablesFit'
  BY <1>1 DEF TablesFit
<1>7. BackupFits'
  BY <1>1 DEF BackupFits
<1>8. SourceIs'
  BY <1>1, <1>3 DEF SourceIs
<1>9. UNCHANGED server => ServerAt'
  BY <1>1 DEF ServerAt
<1> QED BY <1>4, <1>5, <1>6, <1>7, <1>8, <1>9

LEMMA NoneBefore == cmd'.at = 1 => Passed' = {}
<1>1. \A t \in Tables : ~(t < 1)
  BY LayoutAssumption DEF Tables
<1> QED BY <1>1 DEF Passed

\* A replacement is resumed when it was under way.
LEMMA ReplaceStage ==
    ASSUME Base, RecordShape, MarkersFit, EffectiveStage = "replace"
    PROVE  rec.stage = "replace"
<1>1. Forward /\ MarkedAtMost({"switching", "pending"}) /\ rec # None /\ rec \in AttemptRecords
  BY StageMeans DEF Base, TypeOK
<1>2. \A s \in MarkerStates, u \in MarkerStates : Mine(s) = Mine(u) => s = u
  BY <1>1, MineDiffer
<1>3. \A s \in MarkerStates : Mine(s) # None
  BY <1>1, MineIs
<1>4. PICK k \in Tables : MarkerOf(k) # Mine("pending")
  BY DEF EffectiveStage
<1>5. MarkerOf(k) # Mine("committing")
  BY <1>1, <1>2, <1>3 DEF MarkedAtMost, MarkerStates
<1>6. rec.stage \notin {"rebuild_pending", "commit"}
  BY <1>1, <1>4, <1>5 DEF MarkersFit, MarkedAs
<1> QED BY <1>1, <1>6 DEF Forward, AttemptRecords

LEMMA ContinueKeepsInv == ASSUME Base, Inv, Continue PROVE Inv'
<1>1. /\ UNCHANGED <<table, rec, backup, server, edition, source, faults>>
      /\ server.phase = "down"
  BY DEF Continue, ResumeBackup, ResumeReplace, AbandonUnreplaced, AbandonReplaced,
         Finalize, Restore, Free, NoWriter
<1>2. /\ RecordShape' /\ MarkersFit' /\ TablesFit' /\ BackupFits' /\ SourceIs' /\ ServerAt'
  BY <1>1, SameContents
<1> SUFFICES CommandAt'
  BY <1>2 DEF Inv
<1>3. rec # None /\ rec \in AttemptRecords /\ rec' = rec /\ RecordShape /\ MarkersFit
  <2>1. EffectiveStage # "none"
    BY DEF Continue, ResumeBackup, ResumeReplace, AbandonUnreplaced, AbandonReplaced,
         Finalize, Restore, CanResume, CanAbandon, CanFinalize, CanRestore
  <2> QED BY <2>1, <1>1, StageMeans DEF Base, TypeOK, Inv
<1>4. /\ Fresh' <=> Fresh
      /\ Forward' <=> Forward
      /\ Discarding' <=> Discarding
      /\ Undoing' <=> Undoing
      /\ \A s : Mine(s)' = Mine(s)
      /\ \A t \in Tables : MarkerOf(t)' = MarkerOf(t)
      /\ UsableBackup' <=> UsableBackup
  BY <1>1, SameRecord, SameTables, SameBackup
<1>5. /\ Marked' <=> Marked
      /\ \A S : MarkedAs(S)' <=> MarkedAs(S)
      /\ \A S : MarkedAtMost(S)' <=> MarkedAtMost(S)
      /\ Rebuilt' <=> Rebuilt
  BY <1>1, <1>4, SameMarks DEF Rebuilt, RecordedSpaces
<1>6. ASSUME cmd'.op # "none", cmd'.pc # "idle", SwitchAt', CancelAt', FinishAt', RestoreAt'
      PROVE  CommandAt'
  BY <1>1, <1>3, <1>6 DEF CommandAt, Idle
<1>7. CASE ResumeBackup
  <2>1. Fresh /\ cmd' = [op |-> "switch", pc |-> "mark", at |-> 1]
    BY <1>3, <1>7, StageMeans DEF ResumeBackup, Begin
  <2>2. SwitchAt' /\ CancelAt' /\ FinishAt' /\ RestoreAt'
    BY <1>4, <2>1, NoneBefore DEF SwitchAt, CancelAt, FinishAt, RestoreAt
  <2> QED BY <1>6, <2>1, <2>2
<1>8. CASE ResumeReplace
  <2>1. /\ Forward /\ rec.stage = "replace"
        /\ cmd' = [op |-> "switch", pc |-> "replace", at |-> 1]
        /\ \A t \in Tables : MarkerOf(t) \in {Mine("switching"), Mine("pending")}
    BY <1>3, <1>8, StageMeans, ReplaceStage DEF ResumeReplace, Begin
  <2>2. cmd'.at \in Tables /\ Later' \subseteq Tables
    BY <2>1, TablesAre DEF Later
  <2>3. SwitchAt' /\ CancelAt' /\ FinishAt' /\ RestoreAt'
    BY <1>3, <1>4, <2>1, <2>2, NoneBefore DEF SwitchAt, CancelAt, FinishAt, RestoreAt
  <2> QED BY <1>6, <2>1, <2>3
<1>9. CASE AbandonUnreplaced
  <2>1. Fresh /\ cmd' = [op |-> "abandon", pc |-> "clear", at |-> 1]
    BY <1>3, <1>9, StageMeans DEF AbandonUnreplaced, Begin
  <2>2. SwitchAt' /\ CancelAt' /\ FinishAt' /\ RestoreAt'
    BY <1>4, <2>1, NoneBefore DEF SwitchAt, CancelAt, FinishAt, RestoreAt
  <2> QED BY <1>6, <2>1, <2>2
<1>10. CASE AbandonReplaced
  <2>1. \/ EffectiveStage = "discarding"
        \/ EffectiveStage \in {"replace", "rebuild_pending"} /\ rec.method = "no_backup"
    BY <1>10 DEF AbandonReplaced, CanAbandon
  <2>2. CASE rec.status = "abandoned"
    <3>1. rec.discarded
      BY <1>3, <2>1, <2>2, StageMeans DEF Forward, Discarding, Running
    <3>2. cmd' = [op |-> "discard", pc |-> "purge", at |-> 1] /\ Begin("discard", "purge")
      BY <1>10, <2>2 DEF AbandonReplaced, Begin
    <3>3. SwitchAt' /\ CancelAt' /\ FinishAt' /\ RestoreAt'
      BY <1>3, <2>2, <3>1, <3>2 DEF SwitchAt, CancelAt, FinishAt, RestoreAt
    <3> QED BY <1>6, <3>2, <3>3
  <2>3. CASE rec.status # "abandoned"
    <3>1. Forward \/ Discarding
      BY <1>3, <2>1, <2>3, StageMeans
    <3>2. rec.method = "no_backup"
      BY <1>3, <2>1, <2>3, StageMeans DEF RecordShape, Discarding
    <3>3. MarkedAtMost({"switching", "pending", "discarding"})
      <4>1. MarkedAtMost({"switching", "pending"}) \/ MarkedAs({"pending"})
            \/ MarkedAtMost({"switching", "pending", "discarding"})
        BY <1>3, <2>1, <2>3, StageMeans DEF MarkersFit
      <4> QED BY <4>1 DEF MarkedAtMost, MarkedAs
    <3>4. /\ cmd' = [op |-> "discard", pc |-> "save_discard", at |-> 1]
          /\ Begin("discard", "save_discard")
      BY <1>10, <2>3 DEF AbandonReplaced, Begin
    <3>5. SwitchAt' /\ CancelAt' /\ FinishAt' /\ RestoreAt'
      BY <1>3, <1>4, <1>5, <3>1, <3>2, <3>3, <3>4 DEF SwitchAt, CancelAt, FinishAt, RestoreAt
    <3> QED BY <1>6, <3>4, <3>5
  <2> QED BY <2>2, <2>3
<1>11. CASE Finalize
  <2>1. PICK pc \in {"verify", "unmark", "commit_mark"} :
          /\ Begin("finalize", pc)
          /\ pc = "verify" => Forward /\ MarkedAs({"pending"})
          /\ pc = "unmark" => rec.status = "completed" /\ rec.cancel = "none"
          /\ pc = "commit_mark" => Forward /\ MarkedAs({"pending", "committing"}) /\ Rebuilt
    <3>1. CASE EffectiveStage = "rebuild_pending"
      BY <1>3, <1>11, <3>1, StageMeans DEF Finalize
    <3>2. CASE EffectiveStage = "commit"
      BY <1>3, <1>11, <3>2, StageMeans DEF Finalize, Forward, Running
    <3> QED BY <1>11, <3>1, <3>2 DEF Finalize, CanFinalize
  <2>2. cmd' = [op |-> "finalize", pc |-> pc, at |-> 1]
    BY <2>1 DEF Begin
  <2>3. SwitchAt' /\ CancelAt' /\ FinishAt' /\ RestoreAt'
    BY <1>3, <1>4, <1>5, <2>1, <2>2, NoneBefore DEF SwitchAt, CancelAt, FinishAt, RestoreAt
  <2> QED BY <1>6, <2>1, <2>2, <2>3
<1>12. CASE Restore
  <2>1. UsableBackup
    BY <1>12 DEF Restore
  <2>2. CASE rec.status = "restored"
    <3>1. cmd' = [op |-> "restore", pc |-> "unmark", at |-> 1] /\ Begin("restore", "unmark")
      BY <1>12, <2>2 DEF Restore, Begin
    <3>2. SwitchAt' /\ CancelAt' /\ FinishAt' /\ RestoreAt'
      BY <1>3, <1>4, <2>1, <2>2, <3>1 DEF SwitchAt, CancelAt, FinishAt, RestoreAt
    <3> QED BY <1>6, <3>1, <3>2
  <2>3. CASE rec.status # "restored"
    <3>1. \/ EffectiveStage = "restoring"
          \/ EffectiveStage \in {"replace", "rebuild_pending", "commit"} /\ rec.method = "backup"
      BY <1>12 DEF Restore, CanRestore
    <3>2. /\ Marked
          /\ Forward \/ rec.status = "completed" \/ Undoing
          /\ rec.method = "backup"
      BY <1>3, <2>3, <3>1, StageMeans DEF MarkersFit, RecordShape, Undoing
    <3>3. cmd' = [op |-> "restore", pc |-> "save_cancel", at |-> 1] /\ Begin("restore", "save_cancel")
      BY <1>12, <2>3 DEF Restore, Begin
    <3>4. SwitchAt' /\ CancelAt' /\ FinishAt' /\ RestoreAt'
      BY <1>3, <1>4, <1>5, <2>1, <3>2, <3>3 DEF SwitchAt, CancelAt, FinishAt, RestoreAt
    <3> QED BY <1>6, <3>3, <3>4
  <2> QED BY <2>2, <2>3
<1> QED BY <1>7, <1>8, <1>9, <1>10, <1>11, <1>12 DEF Continue

LEMMA SwitchKeepsInv ==
    ASSUME Base, Inv, NEW method \in {"backup", "no_backup"}, NEW target \in Spaces,
           SwitchNew(method, target)
    PROVE  Inv'
<1>1. /\ RecordShape /\ MarkersFit /\ TablesFit /\ SourceIs /\ ServerAt
      /\ UNCHANGED <<table, server, edition, source>> /\ backup' = None
      /\ server.phase = "down"
      /\ cmd' = [op |-> "switch", pc |-> "mark", at |-> 1]
      /\ EffectiveStage = "none"
      /\ \A t \in Tables : MarkerOf(t) = None
  BY DEF Inv, SwitchNew, Free, NoWriter, Begin
<1>2. PICK id : /\ id \in Attempts
                /\ rec' = [id |-> id, method |-> method, target |-> target, stage |-> "backup",
                           status |-> "running", cancel |-> "none", discarded |-> FALSE,
                           backupComplete |-> FALSE]
  BY DEF SwitchNew
<1>3. rec' # None
  <2>1. rec' \in AttemptRecords
    BY <1>2 DEF AttemptRecords
  <2> QED BY <2>1, NothingAssumption
<1>4. \A t \in Tables : MarkerOf(t)' = None
  BY <1>1, SameTables
<1>5. Fresh' /\ ~Forward' /\ ~Discarding' /\ ~Undoing' /\ MarkedAtMost({"switching"})'
  BY <1>2, <1>4 DEF Fresh, Forward, Discarding, Undoing, Running, MarkedAtMost
<1>6. RecordShape'
  BY <1>2 DEF RecordShape
<1>7. MarkersFit'
  BY <1>2, <1>5 DEF MarkersFit
<1>8. TablesFit'
  <2>1. \A t \in Tables : Recorded(table[t])'
    BY <1>1 DEF TablesFit, Recorded
  <2>2. \A s \in MarkerStates : Mine(s)' # None
    BY <1>2, NothingAssumption DEF Mine
  <2> QED BY <1>4, <2>1, <2>2 DEF TablesFit, MarkerStates
<1>9. BackupFits'
  BY <1>1 DEF BackupFits, UsableBackup
<1>10. SourceIs'
  <2>1. Original
    <3>1. CASE rec = None
      BY <1>1, <3>1 DEF SourceIs
    <3>2. CASE rec # None
      <4>1. ~Running /\ ~Marked /\ rec \in AttemptRecords
        BY <1>1, <3>2, StageMeans DEF Base, TypeOK
      <4>2. ~Undoing
        BY <1>1, <3>2, <4>1 DEF MarkersFit
      <4>3. rec.status = "completed" => rec.cancel = "none"
        BY <1>1, <3>2, <4>1, <4>2 DEF RecordShape, Undoing, AttemptRecords
      <4> QED BY <1>1, <3>2, <4>1, <4>3 DEF SourceIs, Running, AttemptRecords
    <3> QED BY <3>1, <3>2
  <2>2. Original'
    BY <1>1, <2>1 DEF Original, RowsOf
  <2> QED BY <1>2, <1>3, <1>5, <2>2 DEF SourceIs
<1>11. CommandAt'
  <2>1. SwitchAt' /\ CancelAt' /\ FinishAt' /\ RestoreAt'
    BY <1>1, <1>5, NoneBefore DEF SwitchAt, CancelAt, FinishAt, RestoreAt
  <2> QED BY <1>1, <1>3, <2>1 DEF CommandAt, Idle
<1>12. ServerAt'
  BY <1>1 DEF ServerAt
<1> QED BY <1>6, <1>7, <1>8, <1>9, <1>10, <1>11, <1>12 DEF Inv

LEMMA FaultKeepsInv == ASSUME Base, Inv, SkipDiscarding \/ Interrupted PROVE Inv'
<1>1. UNCHANGED <<table, rec, backup, server, edition, source>>
  BY DEF SkipDiscarding, Interrupted
<1>2. /\ RecordShape' /\ MarkersFit' /\ TablesFit' /\ BackupFits' /\ SourceIs' /\ ServerAt'
  BY <1>1, SameContents
<1>3. CASE Interrupted
  BY <1>2, <1>3, CommandEnds DEF Interrupted, Done, Inv
<1>4. CASE SkipDiscarding
  <2>1. cmd # Idle /\ cmd.pc = "discard_mark"
    BY <1>4 DEF SkipDiscarding, Idle
  <2>2. /\ rec # None /\ server.phase = "down" /\ CancelAt
        /\ cmd = [op |-> cmd.op, pc |-> cmd.pc, at |-> cmd.at]
    BY <2>1, AtIs DEF Inv, CommandAt
  <2>3. /\ cmd.op = "discard" /\ Discarding' /\ Gone'
    BY <1>1, <2>1, <2>2, SameRecord DEF CancelAt, Gone
  <2>4. \/ cmd' = [op |-> "discard", pc |-> "discard_mark", at |-> cmd.at + 1]
        \/ cmd' = [op |-> "discard", pc |-> "replace", at |-> 1]
    BY <1>4, <2>2, <2>3 DEF SkipDiscarding, NextTable, Goto
  <2>5. SwitchAt' /\ CancelAt' /\ FinishAt' /\ RestoreAt'
    BY <2>3, <2>4, NoneBefore DEF SwitchAt, CancelAt, FinishAt, RestoreAt
  <2>6. CommandAt'
    BY <1>1, <2>2, <2>4, <2>5 DEF CommandAt, Idle
  <2> QED BY <1>2, <2>6 DEF Inv
<1> QED BY <1>3, <1>4

-----------------------------------------------------------------------------
(* The server.                                                             *)

\* A server starts only between commands, and none begins while it runs.
LEMMA ServerAlone ==
    ASSUME Inv, ServerStep, WriterLock
    PROVE  /\ cmd = Idle /\ cmd' = Idle /\ CommandAt'
           /\ UNCHANGED <<rec, backup>>
<1>1. cmd = Idle /\ cmd' = cmd /\ UNCHANGED <<rec, backup>>
  BY DEF ServerStep, Announce, Bootstrap, RecordSpace, Serve, EditRdb, Reembed, StopServer,
     Inv, CommandAt
<1> QED BY <1>1, CommandEnds

\* The markers under a server that has decided to start: what the record says
\* of the tables is settled by them.
LEMMA UnderServer ==
    ASSUME Base, Inv, server.phase \in {"labelling", "up"}, rec # None
    PROVE  /\ server.rebuilding = None =>
                /\ \A t \in Tables : MarkerOf(t) = None
                /\ ~Marked /\ ~Forward /\ ~Undoing
           /\ server.rebuilding # None =>
                /\ \A t \in Tables : MarkerOf(t) = Mine("pending")
                /\ ~Fresh /\ rec.status \notin {"restored", "abandoned"}
                /\ rec.status = "completed" => rec.cancel # "none"
           /\ ~AnyMine("committing")
<1>1. MarkersFit /\ ServerAt /\ RecordShape /\ rec \in AttemptRecords
  BY DEF Inv, Base, TypeOK
<1>2. CASE server.rebuilding = None
  <2>1. \A t \in Tables : MarkerOf(t) = None
    BY <1>1, <1>2 DEF ServerAt, MarkerOf
  <2>2. ~Marked /\ ~AnyMine("committing")
    BY <2>1, MarksAre, MineIs DEF AnyMine, MarkerStates
  <2> QED BY <1>1, <1>2, <2>1, <2>2 DEF MarkersFit
<1>3. CASE server.rebuilding # None
  <2>1. \A t \in Tables : /\ table[t] # None
                          /\ table[t].marker = [state |-> "pending", attempt |-> server.rebuilding]
    BY <1>1, <1>3 DEF ServerAt
  <2>2. \A t \in Tables : /\ MarkerOf(t) = [state |-> "pending", attempt |-> server.rebuilding]
                          /\ MarkerOf(t) # None
    <3>1. server.rebuilding \in Attempts
      BY <1>3 DEF Base, TypeOK
    <3>2. [state |-> "pending", attempt |-> server.rebuilding]
             \in [state: MarkerStates, attempt: Attempts]
      BY <3>1 DEF MarkerStates
    <3> QED BY <2>1, <3>2, NothingAssumption DEF MarkerOf
  <2>3. \A t \in Tables : MarkerOf(t) = Mine("pending")
    BY <2>2 DEF Base, Mine
  <2>4. \A s \in MarkerStates, u \in MarkerStates : Mine(s) = Mine(u) => s = u
    BY MineDiffer
  <2>5. \A s \in MarkerStates : Mine(s) # None
    BY MineIs
  <2>6. ~AnyMine("committing") /\ ~Fresh /\ rec.status \notin {"restored", "abandoned"}
    BY <1>1, <2>3, <2>4, <2>5, TablesAre DEF AnyMine, MarkersFit, MarkedAtMost, MarkerStates
  <2>7. rec.status = "completed" => rec.cancel # "none"
    BY <1>1, <2>3, <2>4, <2>5, TablesAre DEF MarkersFit, MarkedAtMost, MarkerStates
  <2> QED BY <1>1, <1>3, <2>3, <2>6, <2>7
<1> QED BY <1>2, <1>3

\* What a running server may do to the tables: the markers stay, and the rows
\* stay too unless it rebuilds or keeps account of them.
LEMMA UnderServerKeeps ==
    ASSUME Base, Inv, UNCHANGED <<rec, backup>>,
           server.phase \in {"labelling", "up"},
           \A t \in Tables : MarkerOf(t)' = MarkerOf(t),
           \A t \in Tables : table'[t] # None /\ Recorded(table[t])',
           server.rebuilding # None =>
               source' = source /\ \A t \in Tables : table'[t].space = table[t].space,
           server.rebuilding = None /\ Original => Original'
    PROVE  RecordShape' /\ MarkersFit' /\ TablesFit' /\ BackupFits' /\ SourceIs'
<1>1. /\ RecordShape /\ MarkersFit /\ TablesFit /\ BackupFits /\ SourceIs /\ ServerAt
      /\ \A s : Mine(s)' = Mine(s)
      /\ UsableBackup' <=> UsableBackup
      /\ source' = source => (BackedUp' <=> BackedUp)
      /\ Fresh' <=> Fresh
      /\ Forward' <=> Forward
      /\ Discarding' <=> Discarding
      /\ Undoing' <=> Undoing
  BY SameRecord, SameBackup DEF Inv
<1>2. /\ Marked' <=> Marked
      /\ \A s : AnyMine(s)' <=> AnyMine(s)
      /\ \A S : MarkedAs(S)' <=> MarkedAs(S)
      /\ \A S : MarkedAtMost(S)' <=> MarkedAtMost(S)
  BY SameMarks
<1>3. RecordShape' /\ BackupFits'
  BY <1>1 DEF RecordShape, BackupFits
<1>4. CASE rec = None
  <2>1. \A t \in Tables : MarkerOf(t) = None
    BY <1>4 DEF Base
  <2>2. server.rebuilding = None
    <3>1. SUFFICES ASSUME server.rebuilding # None PROVE FALSE
      OBVIOUS
    <3>2. /\ table[1] # None
          /\ table[1].marker = [state |-> "pending", attempt |-> server.rebuilding]
          /\ server.rebuilding \in Attempts
      BY <1>1, <3>1, TablesAre DEF ServerAt, Base, TypeOK
    <3>3. table[1].marker # None
      BY <3>2, NothingAssumption DEF MarkerStates
    <3> QED BY <2>1, <3>2, <3>3, TablesAre DEF MarkerOf
  <2> QED BY <1>1, <1>3, <1>4, <2>2 DEF MarkersFit, TablesFit, SourceIs
<1>5. CASE rec # None /\ server.rebuilding = None
  <2>1. /\ \A t \in Tables : MarkerOf(t) = None
        /\ ~Marked /\ ~Forward /\ ~Undoing /\ ~AnyMine("committing")
    BY <1>5, UnderServer
  <2>2. MarkersFit'
    BY <1>1, <1>2, <1>5, <2>1 DEF MarkersFit
  <2>3. TablesFit'
    BY <1>1, <1>5, <2>1, MineIs DEF TablesFit, MarkerStates
  <2>4. SourceIs'
    BY <1>1, <1>5, <2>1 DEF SourceIs
  <2> QED BY <1>3, <2>2, <2>3, <2>4
<1>6. CASE rec # None /\ server.rebuilding # None
  <2>1. /\ \A t \in Tables : MarkerOf(t) = Mine("pending")
        /\ ~Fresh /\ rec.status \notin {"restored", "abandoned"}
        /\ rec.status = "completed" => rec.cancel # "none"
        /\ ~AnyMine("committing")
    BY <1>6, UnderServer
  <2>2. MarkersFit'
    BY <1>1, <1>2, <1>6, <2>1 DEF MarkersFit
  <2>3. TablesFit'
    BY <1>1, <1>6, <2>1 DEF TablesFit
  <2>4. SourceIs'
    BY <1>1, <1>6, <2>1 DEF SourceIs
  <2> QED BY <1>3, <2>2, <2>3, <2>4
<1> QED BY <1>4, <1>5, <1>6

LEMMA BootstrapKeepsInv == ASSUME Base, Inv, Bootstrap, WriterLock PROVE Inv'
<1> DEFINE opened == [t \in Tables |-> OpenOrCreate(t)]
<1>1. /\ RecordShape /\ MarkersFit /\ TablesFit /\ BackupFits /\ SourceIs
      /\ server.phase = "opening" /\ table' = opened
      /\ UNCHANGED <<rec, backup, edition, source>>
      /\ server.space \in Spaces /\ server.rebuilding \in Attempts \cup {None}
  BY DEF Inv, Bootstrap, Base, TypeOK
<1>2. CommandAt'
  BY ServerAlone DEF ServerStep
<1>3. \A t \in Tables :
        /\ table'[t] = opened[t] /\ opened[t] \in TableRecords /\ opened[t] # None
        /\ opened[t].marker = MarkerOf(t) /\ opened[t].rows = RowsOf(table[t])
        /\ table[t] # None => table'[t] = table[t]
        /\ MarkerOf(t)' = MarkerOf(t)
        /\ RowsOf(table[t])' = RowsOf(table[t])
        /\ Recorded(table[t])'
  <2>1. SUFFICES ASSUME NEW t \in Tables
                 PROVE  /\ table'[t] = opened[t] /\ opened[t] \in TableRecords /\ opened[t] # None
                        /\ opened[t].marker = MarkerOf(t) /\ opened[t].rows = RowsOf(table[t])
                        /\ table[t] # None => table'[t] = table[t]
                        /\ MarkerOf(t)' = MarkerOf(t)
                        /\ RowsOf(table[t])' = RowsOf(table[t])
                        /\ Recorded(table[t])'
    OBVIOUS
  <2>2. /\ table'[t] = OpenOrCreate(t) /\ opened[t] = OpenOrCreate(t)
        /\ OpenOrCreate(t) \in TableRecords /\ OpenOrCreate(t) # None
        /\ OpenOrCreate(t).marker = MarkerOf(t) /\ OpenOrCreate(t).rows = RowsOf(table[t])
    BY <1>1, OpenOrCreateIs, RecordsAre
  <2>3. table[t] # None => OpenOrCreate(t) = table[t]
    BY DEF OpenOrCreate
  <2>4. MarkerOf(t)' = MarkerOf(t) /\ RowsOf(table[t])' = RowsOf(table[t])
    BY <2>2 DEF MarkerOf, RowsOf
  <2>5. Recorded(table[t])'
    BY <1>1, <2>2, <2>3 DEF Recorded, TablesFit, RowsOf
  <2> QED BY <2>2, <2>3, <2>4, <2>5
<1> HIDE DEF opened
<1>4. /\ \A s : Mine(s)' = Mine(s)
      /\ UsableBackup' <=> UsableBackup
      /\ BackedUp' <=> BackedUp
      /\ Fresh' <=> Fresh
      /\ Forward' <=> Forward
      /\ Discarding' <=> Discarding
      /\ Undoing' <=> Undoing
  BY <1>1, SameRecord, SameBackup
<1>5. /\ Marked' <=> Marked
      /\ \A s : AnyMine(s)' <=> AnyMine(s)
      /\ \A S : MarkedAs(S)' <=> MarkedAs(S)
      /\ \A S : MarkedAtMost(S)' <=> MarkedAtMost(S)
  BY <1>1, <1>3, SameMarks
<1>6. Rebuilt => Rebuilt'
  BY <1>1, <1>3, RebuiltStays
<1>7. Original' <=> Original
  BY <1>1, <1>3 DEF Original
<1>8. RecordShape' /\ BackupFits' /\ SourceIs'
  BY <1>1, <1>4, <1>7 DEF RecordShape, BackupFits, SourceIs
<1>9. MarkersFit'
  BY <1>1, <1>4, <1>5, <1>6 DEF MarkersFit
<1>10. TablesFit'
  <2>1. rec # None => Mine("pending") # None /\ Mine("discarding") # None
    BY MineIs DEF MarkerStates
  <2> QED BY <1>1, <1>3, <1>4, <2>1 DEF TablesFit, MarkerOf
<1>11. ServerAt'
  <2>1. CASE Decide(opened, server.space) = "refuse"
    BY <2>1 DEF Bootstrap, opened, Down, ServerAt
  <2>2. CASE Decide(opened, server.space) = "rebuild"
    <3>1. /\ server'.phase = "up" /\ server'.space = server.space
          /\ server'.rebuilding = RebuildAttempt(opened)
      BY <2>2 DEF Bootstrap, opened, Base, TypeOK
    <3>2. /\ \A t \in Tables : opened[t].marker # None
                             /\ opened[t].marker.attempt = opened[1].marker.attempt
                             /\ opened[t].marker.state \notin Halting
          /\ Matches(opened, server.space)
      BY <2>2 DEF Decide, UniformlyMarked
    <3>3. PICK k \in Tables : RebuildAttempt(opened) = opened[k].marker.attempt
      BY <3>2, TablesAre DEF RebuildAttempt
    <3>4. ASSUME NEW t \in Tables
          PROVE  /\ opened[t].marker = [state |-> "pending", attempt |-> RebuildAttempt(opened)]
                 /\ opened[t].space = server.space
                 /\ RebuildAttempt(opened) # None
      <4>1. opened[t].marker \in [state: MarkerStates, attempt: Attempts]
        BY <1>3, <3>2 DEF TableRecords, Markers
      <4>2. opened[t].marker.state = "pending" /\ opened[t].marker.attempt = RebuildAttempt(opened)
        BY <3>2, <3>3, <4>1 DEF Halting, MarkerStates
      <4>3. rec # None /\ MarkerOf(t) = Mine("pending") /\ rec \in AttemptRecords
        BY <1>3, <4>1, <4>2, <3>2 DEF Base, TypeOK, Mine
      <4>4. opened[t] = table[t] /\ table[t].space = rec.target
        <5>1. table[t] # None
          BY <4>3, MineIs DEF MarkerOf, MarkerStates
        <5> QED BY <1>1, <1>3, <4>3, <5>1 DEF TablesFit
      <4>5. rec.target # None
        BY <4>3, DistinctValues DEF AttemptRecords
      <4>6. opened[t].space = server.space
        BY <3>2, <4>4, <4>5 DEF Matches
      <4>7. opened[t].marker = [state |-> "pending", attempt |-> RebuildAttempt(opened)]
        BY <4>1, <4>2
      <4>8. RebuildAttempt(opened) # None
        BY <4>1, <4>2, NothingAssumption
      <4> QED BY <4>6, <4>7, <4>8
    <3> HIDE DEF Matches
    <3> QED BY <1>3, <3>1, <3>4, TablesAre DEF ServerAt
  <2>3. CASE Decide(opened, server.space) \notin {"refuse", "rebuild"}
    <3>1. /\ server'.phase = "labelling" /\ server'.space = server.space
          /\ server'.rebuilding = None
          /\ server'.todo = Unrecorded(opened, server.space)
      BY <1>1, <2>3 DEF Bootstrap, opened, Base, TypeOK, Inv, ServerAt
    <3>2. /\ \A t \in Tables : opened[t].marker = None
          /\ Adoptable(opened) \/ Matches(opened, server.space)
      <4> DEFINE marked == {t \in Tables : opened[t].marker # None}
      <4>1. CASE \E t \in marked : opened[t].marker.state \in Halting
        BY <2>3, <4>1 DEF Decide
      <4>2. CASE marked # {} /\ \A t \in marked : opened[t].marker.state \notin Halting
        BY <2>3, <4>2 DEF Decide
      <4>3. CASE marked = {}
        BY <2>3, <4>3 DEF Decide
      <4> QED BY <4>1, <4>2, <4>3
    <3>3. ASSUME NEW t \in Tables, t \in Unrecorded(opened, server.space)
          PROVE  opened[t].rows = Empty
      <4>1. opened[t].space # server.space
        BY <3>3 DEF Unrecorded
      <4>2. CASE Adoptable(opened)
        BY <4>2 DEF Adoptable
      <4>3. CASE Matches(opened, server.space)
        <5>1. opened[t].space = None
          BY <4>1, <4>3 DEF Matches
        <5>2. opened[t].rows # Empty => opened[t].rows.space \in Spaces
          BY <1>3 DEF TableRecords, Rows
        <5> QED BY <1>3, <5>1, <5>2, DistinctValues DEF Recorded
      <4> QED BY <3>2, <4>2, <4>3
    <3>4. \A t \in Tables : t \notin Unrecorded(opened, server.space) => opened[t].space = server.space
      BY DEF Unrecorded
    <3> QED BY <1>1, <1>3, <3>1, <3>2, <3>3, <3>4 DEF ServerAt
  <2> QED BY <2>1, <2>2, <2>3
<1> QED BY <1>2, <1>8, <1>9, <1>10, <1>11 DEF Inv

LEMMA ServerKeepsInv == ASSUME Base, Inv, ServerStep, WriterLock PROVE Inv'
<1>1. /\ CommandAt' /\ UNCHANGED <<rec, backup>>
      /\ RecordShape /\ MarkersFit /\ TablesFit /\ BackupFits /\ SourceIs /\ ServerAt
  BY ServerAlone DEF Inv
<1>2. ASSUME NEW s \in Spaces, Announce(s) PROVE Inv'
  <2>1. UNCHANGED <<table, rec, backup, edition, source>>
    BY <1>2 DEF Announce
  <2>2. server'.phase = "opening" /\ server'.rebuilding = None
    BY <1>2 DEF Announce, Down
  <2> QED BY <1>1, <2>1, <2>2, SameContents DEF ServerAt, Inv
<1>3. CASE Bootstrap
  BY <1>3, BootstrapKeepsInv
<1>4. ASSUME NEW k \in Tables, RecordSpace(k) PROVE Inv'
  <2> DEFINE v == [table[k] EXCEPT !.space = server.space]
  <2>1. /\ table[k] \in TableRecords /\ server.space \in Spaces
        /\ server.phase = "labelling" /\ k \in server.todo /\ server.rebuilding = None
        /\ table[k].rows = Empty /\ table[k].marker = None
        /\ UNCHANGED <<source, edition>>
    BY <1>1, <1>4, RecordsAre DEF RecordSpace, ServerAt, Base, TypeOK
  <2>2. /\ v \in TableRecords /\ v.marker = None /\ v.rows = Empty /\ v.space = server.space
    BY <2>1 DEF TableRecords
  <2>3. SetTable(k, v) /\ v \in VectorTables /\ v # None
    BY <1>4, <2>2, RecordsAre DEF RecordSpace
  <2>4. table[k] # None
    BY <1>4 DEF RecordSpace
  <2> HIDE DEF v
  <2>5. /\ table'[k] = v
        /\ \A t \in Tables \ {k} : table'[t] = table[t] /\ MarkerOf(t)' = MarkerOf(t)
        /\ \A t \in Tables : MarkerOf(t)' = MarkerOf(t)
    BY <2>1, <2>2, <2>3, <2>4, SetTableIs DEF MarkerOf
  <2>6. \A t \in Tables : RowsOf(table[t])' = RowsOf(table[t])
    BY <2>1, <2>2, <2>3, <2>4, <2>5 DEF RowsOf
  <2>7. \A t \in Tables : table'[t] # None /\ Recorded(table[t])'
    BY <1>1, <2>1, <2>2, <2>3, <2>5 DEF ServerAt, TablesFit, Recorded
  <2>8. Original => Original'
    BY <2>1, <2>6 DEF Original
  <2>9. /\ server'.phase = "labelling" /\ server'.todo = server.todo \ {k}
        /\ server'.space = server.space /\ server'.rebuilding = None
    BY <1>4, <2>1 DEF RecordSpace, Base, TypeOK
  <2>10. ServerAt'
    <3>1. \A t \in Tables : /\ table'[t].marker = None
                            /\ IF t \in server'.todo THEN table'[t].rows = Empty
                               ELSE table'[t].space = server'.space
      BY <1>1, <2>1, <2>2, <2>5, <2>9 DEF ServerAt
    <3> QED BY <2>7, <2>9, <3>1 DEF ServerAt
  <2> QED BY <1>1, <2>1, <2>5, <2>7, <2>8, <2>10, UnderServerKeeps DEF Inv
<1>5. CASE Serve
  <2>1. /\ UNCHANGED <<table, rec, backup, edition, source>>
        /\ server.phase = "labelling" /\ server.todo = {} /\ server.rebuilding = None
        /\ server'.phase = "up" /\ server'.rebuilding = None /\ server'.space = server.space
    BY <1>1, <1>5 DEF Serve, ServerAt, Base, TypeOK
  <2>2. ServerAt'
    BY <1>1, <2>1 DEF ServerAt
  <2> QED BY <1>1, <2>1, <2>2, SameContents DEF Inv
<1>6. CASE EditRdb
  <2>1. UNCHANGED <<table, rec, backup, server, source>> /\ server.phase = "up"
    BY <1>6 DEF EditRdb
  <2>2. /\ \A t \in Tables : MarkerOf(t)' = MarkerOf(t)
        /\ \A t \in Tables : table'[t] # None /\ Recorded(table[t])'
    BY <1>1, <2>1, SameTables DEF ServerAt, TablesFit, Recorded
  <2>3. Original => Original'
    BY <2>1 DEF Original
  <2>4. ServerAt'
    BY <1>1, <2>1 DEF ServerAt
  <2> QED BY <1>1, <2>1, <2>2, <2>3, <2>4, UnderServerKeeps DEF Inv
<1>7. ASSUME NEW k \in Tables, Reembed(k) PROVE Inv'
  <2> DEFINE fresh == [space |-> server.space, edition |-> edition]
             v == [table[k] EXCEPT !.rows = fresh]
  <2>1. /\ table[k] \in TableRecords /\ fresh \in Rows /\ fresh # Empty
        /\ server.phase = "up" /\ table[k] # None /\ UNCHANGED <<server, edition>>
        /\ table[k].space = server.space
    <3>1. edition \in 1..MaxEdits /\ server.space \in Spaces
      BY <1>7, MigrationBounds DEF Reembed, Base, TypeOK
    <3>2. fresh \in [space: Spaces, edition: 1..MaxEdits]
      BY <3>1
    <3> QED BY <1>1, <1>7, <3>2, NothingAssumption, RecordsAre DEF Rows, Reembed, ServerAt, Base, TypeOK
  <2>2. /\ v \in TableRecords /\ v.marker = table[k].marker /\ v.rows = fresh
        /\ v.space = server.space
    BY <2>1 DEF TableRecords
  <2>3. SetTable(k, v) /\ v \in VectorTables /\ v # None
    BY <1>7, <2>2, RecordsAre DEF Reembed
  <2>4. source' = IF server.rebuilding = None THEN [source EXCEPT ![k] = fresh] ELSE source
    BY <1>7 DEF Reembed
  <2>5. fresh.space = server.space
    OBVIOUS
  <2> HIDE DEF v, fresh
  <2>6. /\ table'[k] = v
        /\ \A t \in Tables \ {k} : table'[t] = table[t] /\ MarkerOf(t)' = MarkerOf(t)
        /\ \A t \in Tables : MarkerOf(t)' = MarkerOf(t)
    BY <2>1, <2>2, <2>3, SetTableIs DEF MarkerOf
  <2>7. \A t \in Tables : table'[t] # None /\ Recorded(table[t])'
    BY <1>1, <2>1, <2>2, <2>3, <2>5, <2>6 DEF ServerAt, TablesFit, Recorded
  <2>8. server.rebuilding = None /\ Original => Original'
    <3>1. ASSUME server.rebuilding = None, Original, NEW t \in Tables
          PROVE  RowsOf(table'[t]) = source'[t]
      <4>1. source'[t] = IF t = k THEN fresh ELSE source[t]
        BY <2>4, <3>1 DEF Base, TypeOK
      <4> QED BY <2>2, <2>3, <2>6, <3>1, <4>1 DEF Original, RowsOf
    <3> QED BY <3>1 DEF Original
  <2>9. \A t \in Tables : table'[t].space = table[t].space /\ table'[t].marker = table[t].marker
    BY <2>1, <2>2, <2>6
  <2>10. ServerAt'
    BY <1>1, <2>1, <2>7, <2>9 DEF ServerAt
  <2> QED BY <1>1, <2>1, <2>4, <2>6, <2>7, <2>8, <2>9, <2>10, UnderServerKeeps DEF Inv
<1>8. CASE StopServer
  <2>1. UNCHANGED <<table, rec, backup, edition, source>> /\ server'.phase = "down"
    BY <1>8 DEF StopServer, Down
  <2> QED BY <1>1, <2>1, SameContents DEF ServerAt, Inv
<1> QED BY <1>2, <1>3, <1>4, <1>5, <1>6, <1>7, <1>8 DEF ServerStep

LEMMA InitInv == Init => Inv
<1> SUFFICES ASSUME Init PROVE Inv
  OBVIOUS
<1>1. /\ rec = None /\ backup = None /\ cmd = Idle /\ server = Down
      /\ \A t \in Tables : table[t] = None /\ source[t] = Empty
  BY DEF Init
<1>2. RecordShape /\ MarkersFit /\ BackupFits
  BY <1>1 DEF RecordShape, MarkersFit, BackupFits, UsableBackup
<1>3. TablesFit /\ SourceIs
  BY <1>1 DEF TablesFit, Recorded, SourceIs, Original, RowsOf
<1>4. CommandAt /\ ServerAt
  BY <1>1 DEF CommandAt, Idle, ServerAt, Down
<1> QED BY <1>2, <1>3, <1>4 DEF Inv

LEMMA InvIsInductive ==
    ASSUME WriterLock, TableCount > 1
    PROVE  Base /\ Inv /\ [Next]_vars => Inv'
<1>1. ASSUME Base, Inv, UNCHANGED vars PROVE Inv'
  <2>1. UNCHANGED <<table, rec, backup, source, edition, server, cmd>>
    BY <1>1 DEF vars
  <2>2. CommandAt'
    <3>1. /\ \A s : Mine(s)' = Mine(s)
          /\ \A t \in Tables : MarkerOf(t)' = MarkerOf(t)
          /\ UsableBackup' <=> UsableBackup
          /\ BackedUp' <=> BackedUp
          /\ Fresh' <=> Fresh
          /\ Forward' <=> Forward
          /\ Discarding' <=> Discarding
          /\ Undoing' <=> Undoing
      BY <2>1, SameRecord, SameTables, SameBackup
    <3>2. /\ Marked' <=> Marked
          /\ \A S : MarkedAs(S)' <=> MarkedAs(S)
          /\ \A S : MarkedAtMost(S)' <=> MarkedAtMost(S)
          /\ Rebuilt' <=> Rebuilt
      BY <2>1, <3>1, SameMarks DEF Rebuilt, RecordedSpaces
    <3>3. /\ Passed' = Passed /\ Later' = Later
          /\ Original' <=> Original
          /\ Gone' <=> Gone
          /\ MarkerOf(cmd.at)' = MarkerOf(cmd.at)
      BY <2>1 DEF Passed, Later, Original, Gone, RowsOf, MarkerOf
    <3>4. /\ Passed \subseteq Tables /\ Later \subseteq Tables
      BY DEF Passed, Later
    <3>5. SwitchAt => SwitchAt'
      BY <2>1, <3>1, <3>2, <3>3, <3>4 DEF SwitchAt
    <3>6. CancelAt => CancelAt'
      BY <2>1, <3>1, <3>2, <3>3, <3>4 DEF CancelAt
    <3>7. FinishAt => FinishAt'
      BY <2>1, <3>1, <3>2, <3>3, <3>4 DEF FinishAt
    <3>8. RestoreAt => RestoreAt'
      BY <2>1, <3>1, <3>2, <3>3, <3>4 DEF RestoreAt, RowsOf
    <3> QED BY <1>1, <2>1, <3>5, <3>6, <3>7, <3>8 DEF CommandAt, Inv, Idle
  <2> QED BY <1>1, <2>1, <2>2, SameContents DEF Inv
<1>2. ASSUME Base, Inv, Next PROVE Inv'
  BY <1>2, SwitchKeepsInv, ContinueKeepsInv, CommandKeepsInv, FaultKeepsInv, ServerKeepsInv DEF Next
<1> QED BY <1>1, <1>2

\* No row is given up before its successor is verified.
LEMMA InvKeepsRows == ASSUME Base, Inv PROVE RowsAccountedFor
<1>1. /\ RecordShape /\ MarkersFit /\ SourceIs
      /\ rec # None => rec \in AttemptRecords
  BY DEF Inv, Base, TypeOK
<1>2. SourceKept
  <2>1. SUFFICES ASSUME rec # None PROVE SourceKept
    BY DEF SourceKept
  <2>2. ASSUME rec.method = "backup", rec.status = "running"
        PROVE  Original \/ BackedUp
    <3>1. Fresh \/ Forward \/ Undoing
      BY <1>1, <2>1, <2>2 DEF RecordShape, AttemptRecords, Fresh, Forward, Undoing, Running
    <3> QED BY <1>1, <2>1, <2>2, <3>1 DEF SourceIs
  <2>3. rec.status \in {"restored", "abandoned"} => Original
    BY <1>1, <2>1 DEF SourceIs
  <2> QED BY <2>2, <2>3 DEF SourceKept, Original, BackedUp
<1>3. CommitVerified
  BY StageMeans DEF CommitVerified, Inv
<1> QED BY <1>2, <1>3 DEF RowsAccountedFor

\* With writers locked out, no table of source rows is given up before the rows
\* that take its place are verified, and what a commit leaves is what was verified,
\* whatever was interrupted: the source of each table is in it, in the backup, or
\* superseded by a commit.
THEOREM RowsAreKept ==
    ASSUME WriterLock, TableCount > 1
    PROVE  Spec => []RowsAccountedFor
<1>1. Init => Base /\ Inv
  BY InitBase, InitInv
<1>2. Base /\ Inv /\ [Next]_vars => Base' /\ Inv'
  BY BaseIsInductive, InvIsInductive
<1>3. Base /\ Inv => RowsAccountedFor
  BY InvKeepsRows
<1> QED BY <1>1, <1>2, <1>3, PTL DEF Spec

-----------------------------------------------------------------------------
(* A server that serves.                                                   *)

\* What a server finds in whatever tables it serves: one space and one mode.
ServesOneSpace ==
    server.phase = "up" =>
        /\ \A t \in Tables :
             /\ table[t] # None
             /\ table[t].space = server.space
             /\ table[t].rows # Empty => table[t].rows.space = server.space
             /\ table[t].marker = IF server.rebuilding = None THEN None
                                  ELSE [state |-> "pending", attempt |-> server.rebuilding]
        /\ IF server.rebuilding = None
           THEN EffectiveStage \in {"none", "backup", "discarding"}
           ELSE rec # None /\ rec.id = server.rebuilding /\ rec.target = server.space

LEMMA ServingIs == ASSUME Base, Inv PROVE ServesOneSpace
<1>1. SUFFICES ASSUME server.phase = "up" PROVE ServesOneSpace
  BY DEF ServesOneSpace
<1>2. /\ RecordShape /\ MarkersFit /\ TablesFit /\ ServerAt
      /\ rec # None => rec \in AttemptRecords
  BY DEF Inv, Base, TypeOK
<1>3. \A t \in Tables :
         /\ table[t] # None
         /\ table[t].space = server.space
         /\ table[t].rows # Empty => table[t].rows.space = server.space
         /\ table[t].marker = IF server.rebuilding = None THEN None
                              ELSE [state |-> "pending", attempt |-> server.rebuilding]
  BY <1>1, <1>2 DEF ServerAt, TablesFit, Recorded
<1>4. CASE server.rebuilding = None
  <2>1. SUFFICES ASSUME rec # None, EffectiveStage # "none"
                 PROVE  EffectiveStage \in {"backup", "discarding"}
    BY <1>1, <1>3, <1>4 DEF ServesOneSpace, EffectiveStage
  <2>2. /\ \A t \in Tables : MarkerOf(t) = None
        /\ ~Marked /\ ~Forward /\ ~Undoing
    BY <1>1, <1>4, <2>1, UnderServer
  <2>3. ~\A t \in Tables : MarkerOf(t) = Mine("pending")
    BY <2>1, <2>2, MineIs, TablesAre DEF MarkerStates
  <2>4. EffectiveStage \in {"none", "backup", "replace", "rebuild_pending", "commit", "restoring",
                            "discarding"}
    BY DEF EffectiveStage
  <2> QED BY <1>2, <2>1, <2>2, <2>4, StageMeans
<1>5. CASE server.rebuilding # None
  <2>1. rec # None
    <3>1. server.rebuilding \in Attempts /\ table[1].marker \in [state: MarkerStates, attempt: Attempts]
      BY <1>3, <1>5, TablesAre DEF Base, TypeOK, MarkerStates
    <3> QED BY <1>3, <3>1, TablesAre, NothingAssumption DEF Base, MarkerOf
  <2>2. \A t \in Tables : MarkerOf(t) = Mine("pending")
    BY <1>1, <1>5, <2>1, UnderServer
  <2>3. table[1].marker = Mine("pending") /\ table[1].space = rec.target
    BY <1>2, <1>3, <2>1, <2>2, TablesAre DEF TablesFit, MarkerOf
  <2>4. rec.id = server.rebuilding
    BY <1>3, <1>5, <2>3, TablesAre DEF Mine
  <2> QED BY <1>1, <1>3, <1>5, <2>1, <2>3, <2>4, TablesAre DEF ServesOneSpace
<1> QED BY <1>4, <1>5

\* A discard that passes over no table leaves no moment without a marker.
DiscardAt ==
    /\ rec # None /\ Discarding => Marked
    /\ cmd.op = "discard" /\ cmd.pc \in {"replace", "create", "seal"} =>
          \A t \in Later : MarkerOf(t) = Mine("discarding")
    /\ cmd.pc = "discard_mark" => \A t \in Passed : MarkerOf(t) = Mine("discarding")

LEMMA CommandKeepsDiscard ==
    ASSUME Base, Inv, DiscardAt, CommandStep, TableCount > 1
    PROVE  DiscardAt'
<1>1. /\ rec # None /\ rec \in AttemptRecords /\ MarkersFit /\ RecordShape
      /\ SwitchAt /\ CancelAt /\ FinishAt /\ RestoreAt
  BY Working DEF Inv
<1>2. cmd = [op |-> cmd.op, pc |-> cmd.pc, at |-> cmd.at]
  BY Position
<1>3. rec' # None /\ Base' /\ rec'.id = rec.id
  BY Working, CommandKeepsBase, CommandRecords
<1>4. Marked' <=> \E t \in Tables : MarkerOf(t)' # None
  BY <1>3 DEF Base, Marked
<1>5. Mine("discarding") # None /\ Mine("discarding") \in Markers /\ Mine("discarding")' = Mine("discarding")
  BY <1>1, <1>3, MineIs DEF MarkerStates, Mine
<1> USE DEF Running, Fresh, Forward, Discarding, Undoing
<1>6. CASE cmd.op # "discard"
  <2>1. ~Discarding
    BY <1>1, <1>6, Position DEF SwitchAt, CancelAt, FinishAt, RestoreAt, RecordShape
  <2>2. rec'.cancel = "discard" => rec.cancel = "discard" /\ rec'.status = rec.status
    <3>1. ~SaveDiscard /\ ~SaveDiscarded
      BY <1>1, <1>6 DEF SaveDiscard, SaveDiscarded, CancelAt
    <3>2. rec.cancel = "discard" => ~SaveAbandoned /\ ~SaveCompleted /\ ~SaveRestored
      BY <1>1 DEF SaveAbandoned, SaveCompleted, SaveRestored, CancelAt, FinishAt, RestoreAt, RecordShape
    <3>3. CASE SaveReplace \/ SavePending \/ SaveCommit
      BY <1>1, <3>3 DEF SaveReplace, SavePending, SaveCommit, AttemptRecords
    <3>4. CASE SaveAbandoned \/ SaveCompleted \/ SaveRestored
      BY <1>1, <3>2, <3>4 DEF SaveAbandoned, SaveCompleted, SaveRestored, AttemptRecords
    <3>5. CASE SaveCancel
      BY <1>1, <3>5 DEF SaveCancel, AttemptRecords
    <3> QED BY <3>1, <3>3, <3>4, <3>5, StepsChange DEF RecordSteps
  <2>3. cmd'.op # "discard" /\ cmd'.pc # "discard_mark"
    <3>1. cmd' = Idle \/ (cmd'.op = cmd.op /\ CancelAt')
      <4>1. CommandAt'
        BY CommandKeepsInv DEF Inv
      <4>2. cmd' = Idle \/ cmd'.op = cmd.op
        <5>1. CASE cmd.pc # "swap"
          BY <1>2, <5>1 DEF CommandStep, MarkSwitching, RecheckWriter, BackupBegin, BackupComplete,
             SaveReplace, SkipReplaced, DropTable, CreateTable, LabelTable, SealTable, SavePending,
             ClearSwitching, DropBackup, SaveAbandoned, SaveDiscard, MarkDiscarding, SaveDiscarded,
             PurgeTable, Verify, MarkCommitting, SaveCommit, SaveCompleted, Unmark, Retain,
             SaveCancel, MarkRestoring, SwapIn, SaveRestored, NextTable, Goto, Done
        <5>2. CASE cmd.pc = "swap"
          BY <1>2, <5>2 DEF CommandStep, MarkSwitching, RecheckWriter, BackupBegin, BackupComplete,
             SaveReplace, SkipReplaced, DropTable, CreateTable, LabelTable, SealTable, SavePending,
             ClearSwitching, DropBackup, SaveAbandoned, SaveDiscard, MarkDiscarding, SaveDiscarded,
             PurgeTable, Verify, MarkCommitting, SaveCommit, SaveCompleted, Unmark, Retain,
             SaveCancel, MarkRestoring, SwapIn, SaveRestored, Goto
        <5> QED BY <5>1, <5>2
      <4> QED BY <4>1, <4>2 DEF CommandAt
    <3> QED BY <1>6, <3>1 DEF Idle, CancelAt
  <2> QED BY <1>1, <2>1, <2>2, <2>3 DEF DiscardAt
<1>7. CASE cmd.op = "discard" /\ (SaveDiscard \/ SaveDiscarded)
  <2>1. /\ table' = table
        /\ Marked' <=> Marked
    BY <1>3, <1>7, SameTables, SameMarks DEF SaveDiscard, SaveDiscarded
  <2>2. SaveDiscard => /\ cmd' = [op |-> "discard", pc |-> "discard_mark", at |-> 1]
                       /\ Marked
    BY <1>1, <1>2, <1>7 DEF SaveDiscard, Goto, CancelAt, DiscardAt, MarkersFit
  <2>3. SaveDiscarded => /\ cmd' = [op |-> "discard", pc |-> "purge", at |-> 1]
                         /\ rec'.status = "abandoned"
    BY <1>1, <1>2, <1>7 DEF SaveDiscarded, Goto, AttemptRecords
  <2> QED BY <1>7, <2>1, <2>2, <2>3, NoneBefore DEF DiscardAt
<1>8. CASE cmd.op = "discard" /\ MarkDiscarding
  <2>1. /\ \A t \in Passed : MarkerOf(t) = Mine("discarding")
        /\ cmd.pc = "discard_mark"
    BY <1>8 DEF DiscardAt, MarkDiscarding
  <2>2. \A t \in Tables : MarkerOf(t)' = IF t = cmd.at THEN Mine("discarding") ELSE MarkerOf(t)
    BY <1>1, <1>5, <1>8, MarkingIs DEF MarkDiscarding
  <2>3. cmd.at \in Tables /\ Passed \subseteq Tables
    BY <2>1, PassedMoves
  <2>4. Marked'
    BY <1>4, <1>5, <2>2, <2>3
  <2>5. CASE cmd.at < TableCount
    <3>1. cmd' = [op |-> "discard", pc |-> "discard_mark", at |-> cmd.at + 1]
      BY <1>2, <1>8, <2>1, <2>5 DEF MarkDiscarding, NextTable
    <3>2. Passed' = Passed \cup {cmd.at}
      BY <2>1, <3>1, PassedMoves
    <3> QED BY <1>5, <2>1, <2>2, <2>3, <2>4, <3>1, <3>2 DEF DiscardAt
  <2>6. CASE ~(cmd.at < TableCount)
    <3>1. cmd' = [op |-> "discard", pc |-> "replace", at |-> 1]
      BY <1>2, <1>8, <2>1, <2>6 DEF MarkDiscarding, NextTable, Goto
    <3>2. Tables = Passed \cup {cmd.at} /\ Later' \subseteq Tables
      BY <2>1, <2>6, PassedMoves DEF Later
    <3> QED BY <1>5, <2>1, <2>2, <2>4, <3>1, <3>2 DEF DiscardAt
  <2> QED BY <2>5, <2>6
<1>9. CASE cmd.op = "discard" /\ (DropTable \/ CreateTable \/ LabelTable \/ SealTable)
  <2>1. /\ cmd.pc \in {"replace", "create", "seal"}
        /\ \A t \in Passed : MarkerOf(t) = Mine("discarding")
        /\ \A t \in Later : MarkerOf(t) = Mine("discarding")
    BY <1>1, <1>9 DEF DropTable, CreateTable, LabelTable, SealTable, CancelAt, DiscardAt
  <2>2. /\ cmd.at \in Tables /\ cmd.at \notin Later /\ Later \subseteq Tables
        /\ \A t \in Tables : t # cmd.at => MarkerOf(t)' = MarkerOf(t)
    BY <1>1, <1>9, <2>1, ReplacingIs, PassedMoves
  <2>3. PICK k \in Tables : k # cmd.at
    BY LayoutAssumption, TablesAre DEF Tables
  <2>4. k \in Passed \/ k \in Later
    <3>1. k \in Nat /\ cmd.at \in Nat
      BY <2>2, TablesAre
    <3> QED BY <2>3, <3>1 DEF Passed, Later
  <2>5. Marked'
    BY <1>4, <1>5, <2>1, <2>2, <2>3, <2>4
  <2>6. \/ cmd'.at = cmd.at /\ cmd'.pc \in {"create", "label", "seal"}
        \/ cmd'.at = cmd.at + 1 /\ cmd'.pc = "replace"
        \/ cmd'.pc = "save_discarded"
    BY <1>2, <1>9 DEF DropTable, CreateTable, LabelTable, SealTable, NextTable, Goto
  <2>7. cmd'.pc # "save_discarded" => Later' \subseteq Later
    BY <2>1, <2>6, PassedMoves
  <2> QED BY <1>5, <2>1, <2>2, <2>5, <2>6, <2>7 DEF DiscardAt
<1>10. CASE cmd.op = "discard" /\ PurgeTable
  <2>1. rec.status = "abandoned" /\ rec' = rec
    BY <1>1, <1>10 DEF PurgeTable, CancelAt
  <2>2. cmd' = Idle \/ cmd' = [op |-> "discard", pc |-> "purge", at |-> cmd.at + 1]
    BY <1>2, <1>10 DEF PurgeTable, NextTable, Done
  <2> QED BY <2>1, <2>2 DEF DiscardAt, Idle
<1>11. cmd.op = "discard" => SaveDiscard \/ SaveDiscarded \/ MarkDiscarding \/ DropTable
                             \/ CreateTable \/ LabelTable \/ SealTable \/ PurgeTable
  BY <1>1 DEF CommandStep, MarkSwitching, RecheckWriter, BackupBegin, BackupComplete,
     SaveReplace, SkipReplaced, SavePending, ClearSwitching, DropBackup, SaveAbandoned,
     Verify, MarkCommitting, SaveCommit, SaveCompleted, Unmark, Retain,
     SaveCancel, MarkRestoring, SwapIn, SaveRestored, SwitchAt, CancelAt, FinishAt, RestoreAt
<1> QED BY <1>6, <1>7, <1>8, <1>9, <1>10, <1>11

\* A server never writes a marker.
LEMMA ServerKeepsMarkers ==
    ASSUME Base, ServerStep
    PROVE  UNCHANGED <<rec, cmd>> /\ \A t \in Tables : MarkerOf(t)' = MarkerOf(t)
<1>1. UNCHANGED <<rec, cmd>>
  BY DEF ServerStep, Announce, Bootstrap, RecordSpace, Serve, EditRdb, Reembed, StopServer
<1>2. CASE table' = table
  BY <1>1, <1>2, SameTables
<1>3. CASE Bootstrap
  <2>1. \A t \in Tables : /\ table'[t] = OpenOrCreate(t)
                          /\ OpenOrCreate(t) # None /\ OpenOrCreate(t).marker = MarkerOf(t)
    BY <1>3, OpenOrCreateIs, RecordsAre DEF Bootstrap
  <2> QED BY <1>1, <2>1 DEF MarkerOf
<1>4. ASSUME NEW k \in Tables, RecordSpace(k) \/ Reembed(k)
      PROVE  \A t \in Tables : MarkerOf(t)' = MarkerOf(t)
  <2>1. /\ table \in [Tables -> VectorTables] /\ table[k] \in TableRecords /\ table[k] # None
    BY <1>4, RecordsAre DEF RecordSpace, Reembed, Base, TypeOK
  <2>2. \/ table' = [table EXCEPT ![k] = [table[k] EXCEPT !.space = server.space]]
        \/ table' = [table EXCEPT ![k] = [table[k] EXCEPT
                                            !.rows = [space |-> server.space, edition |-> edition]]]
    BY <1>4 DEF RecordSpace, Reembed, SetTable
  <2>3. \A t \in Tables : t # k => table'[t] = table[t]
    BY <2>1, <2>2
  <2>4. table'[k] \in TableRecords /\ table'[k].marker = table[k].marker
    <3>1. \/ server.space \in Spaces /\ [space |-> server.space, edition |-> edition] \in Rows
          \/ table'[k] = [table[k] EXCEPT !.space = server.space] /\ server.space \in Spaces
      BY <1>4, <2>1, <2>2, MigrationBounds DEF RecordSpace, Reembed, SetTable, Base, TypeOK, Rows
    <3> QED BY <2>1, <2>2, <3>1 DEF TableRecords
  <2> QED BY <2>1, <2>3, <2>4, RecordsAre DEF MarkerOf
<1> QED BY <1>1, <1>2, <1>3, <1>4 DEF ServerStep, Announce, Serve, EditRdb, StopServer

LEMMA DiscardIsInductive ==
    ASSUME WriterLock, TableCount > 1
    PROVE  Base /\ Inv /\ DiscardAt /\ [Next]_vars /\ [~SkipDiscarding]_vars => DiscardAt'
<1>1. ASSUME Base, Inv, DiscardAt, UNCHANGED rec, \A t \in Tables : MarkerOf(t)' = MarkerOf(t),
             \/ cmd' = cmd
             \/ /\ cmd'.pc # "discard_mark"
                /\ cmd'.op # "discard" \/ cmd'.pc \in {"save_discard", "purge"}
      PROVE  DiscardAt'
  <2>1. /\ Discarding' <=> Discarding
        /\ Marked' <=> Marked
        /\ Mine("discarding")' = Mine("discarding")
    BY <1>1, SameRecord, SameMarks
  <2>2. cmd' = cmd => Later' = Later /\ Passed' = Passed
    BY DEF Later, Passed
  <2> QED BY <1>1, <2>1, <2>2 DEF DiscardAt, Later, Passed
<1>2. ASSUME Base, Inv, DiscardAt, UNCHANGED vars PROVE DiscardAt'
  BY <1>1, <1>2, SameTables DEF vars
<1>3. ASSUME Base, Inv, DiscardAt, NEW method \in {"backup", "no_backup"}, NEW target \in Spaces,
             SwitchNew(method, target)
      PROVE  DiscardAt'
  BY <1>3 DEF SwitchNew, Begin, DiscardAt, Discarding
<1>4. ASSUME Base, Inv, DiscardAt, Continue PROVE DiscardAt'
  BY <1>1, <1>4, SameTables DEF Continue, ResumeBackup, ResumeReplace, AbandonUnreplaced,
     AbandonReplaced, Finalize, Restore, Begin
<1>5. ASSUME Base, Inv, DiscardAt, Interrupted PROVE DiscardAt'
  BY <1>1, <1>5, SameTables DEF Interrupted, Done, Idle
<1>6. ASSUME Base, Inv, DiscardAt, ServerStep PROVE DiscardAt'
  BY <1>1, <1>6, ServerKeepsMarkers
<1>7. ASSUME Base, Inv, DiscardAt, Next, ~SkipDiscarding PROVE DiscardAt'
  BY <1>3, <1>4, <1>5, <1>6, <1>7, CommandKeepsDiscard DEF Next
<1> QED BY <1>2, <1>7

LEMMA DiscardServes == ASSUME Base, Inv, DiscardAt PROVE ServesWhole
<1>1. ServesOneSpace
  BY ServingIs
<1>2. ASSUME server.phase = "up", server.rebuilding = None PROVE EffectiveStage # "discarding"
  <2>1. SUFFICES ASSUME EffectiveStage = "discarding" PROVE FALSE
    OBVIOUS
  <2>2. /\ rec # None
        /\ Discarding \/ (rec.status = "abandoned" /\ rec.discarded)
        /\ EffectiveStage # "none"
    BY <2>1, StageMeans DEF Inv
  <2>3. rec # None /\ ~Marked
    BY <1>2, <2>1, StageMeans, UnderServer DEF Inv
  <2>4. rec.status = "running"
    BY <2>2, <2>3 DEF EffectiveStage
  <2> QED BY <2>2, <2>3, <2>4 DEF DiscardAt
<1> QED BY <1>1, <1>2 DEF ServesOneSpace, ServesWhole

\* With writers locked out, a server that serves finds one space and one mode
\* in its tables, whatever was interrupted.
THEOREM ServersServeOneSpace ==
    ASSUME WriterLock, TableCount > 1
    PROVE  Spec => []ServesOneSpace
<1>1. Init => Base /\ Inv
  BY InitBase, InitInv
<1>2. Base /\ Inv /\ [Next]_vars => Base' /\ Inv'
  BY BaseIsInductive, InvIsInductive
<1>3. Base /\ Inv => ServesOneSpace
  BY ServingIs
<1> QED BY <1>1, <1>2, <1>3, PTL DEF Spec

\* And it serves no attempt that is half done, unless a discard passed over a
\* table it could not open.
THEOREM ServersServeWhole ==
    ASSUME WriterLock, TableCount > 1
    PROVE  Spec /\ [][~SkipDiscarding]_vars => []ServesWhole
<1>1. Init => Base /\ Inv /\ DiscardAt
  BY InitBase, InitInv DEF Init, DiscardAt, Idle
<1>2. Base /\ Inv /\ DiscardAt /\ [Next]_vars /\ [~SkipDiscarding]_vars
        => Base' /\ Inv' /\ DiscardAt'
  BY BaseIsInductive, InvIsInductive, DiscardIsInductive
<1>3. Base /\ Inv /\ DiscardAt => ServesWhole
  BY DiscardServes
<1> QED BY <1>1, <1>2, <1>3, PTL DEF Spec

=============================================================================
