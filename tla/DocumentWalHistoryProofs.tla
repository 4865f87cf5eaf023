---------------------- MODULE DocumentWalHistoryProofs ----------------------
(***************************************************************************)
(* Rollback restores the documents of its savepoint: HistoryInv is         *)
(* inductive.  A document that changes has, from the line logged for the   *)
(* change on, a line that still has to be undone; this is all the argument *)
(* needs, and what the lemmas on Unwinds say.  So does recovery: the log   *)
(* of a transaction gives back what the transaction found, and a crash     *)
(* hands it over to the next start (RecoveryInv).                          *)
(***************************************************************************)
EXTENDS DocumentWalHistory, DocumentWalProofs

(* SavepointsHold, by what a step does to the log and to one record. *)

\* A step that changes no document and no line.
LEMMA HoldsQuiet ==
    ASSUME SavepointsHold, phase # "down",
           log' = log, saved' = saved, rolled \subseteq rolled',
           \A r \in Rids : Content(r)' = Content(r),
           \A i \in DOMAIN log, c \in Colls : Kept(i, c)' => Kept(i, c)
    PROVE  SavepointsHold'
<1> SUFFICES ASSUME NEW h \in Hashes \ rolled', NEW i \in DOMAIN log, IsLastSave(log, i, h),
                    NEW r \in Rids, Kept(i, CollOf[r])'
             PROVE  Unwinds(log, i, Len(log), r, Content(r)', saved[h][r])
    BY DEF SavepointsHold
<1>1. Kept(i, CollOf[r])
      BY WalLogAssumption
<1>2. QED
      BY <1>1 DEF SavepointsHold

\* A step that logs a line: of no record, or of one whose content it keeps.
LEMMA HoldsLogged ==
    ASSUME TypeOK, SavepointsHold, phase # "down",
           NEW line \in Lines, Log(line), line.kind # "SavePoint",
           saved' = saved, rolled' = rolled,
           \A r \in Rids : \/ ~Touches(line, r) /\ Content(r)' = Content(r)
                           \/ Touches(line, r) /\ line.before = Content(r),
           \A i \in DOMAIN log, c \in Colls : Kept(i, c)' => Kept(i, c)
    PROVE  SavepointsHold'
<1> SUFFICES ASSUME NEW h \in Hashes \ rolled, NEW i \in DOMAIN log', IsLastSave(log', i, h),
                    NEW r \in Rids, Kept(i, CollOf[r])'
             PROVE  Unwinds(log', i, Len(log'), r, Content(r)', saved[h][r])
    BY DEF SavepointsHold
<1>1. log' = Append(log, line) /\ log \in Seq(Lines) /\ Len(log') = Len(log) + 1
      BY Logged DEF Log, TypeOK
<1>2. line # SavePointLine(h)
      BY DEF SavePointLine
<1>3. i \in DOMAIN log /\ IsLastSave(log, i, h)
      BY <1>1, <1>2, LastSaveStays
<1>4. Kept(i, CollOf[r])
      BY <1>3, WalLogAssumption
<1>5. Unwinds(log, i, Len(log), r, Content(r), saved[h][r])
      BY <1>3, <1>4 DEF SavepointsHold
<1>6. CASE ~Touches(line, r) /\ Content(r)' = Content(r)
      BY <1>1, <1>3, <1>5, <1>6, UnwindsQuiet
<1>7. CASE Touches(line, r) /\ line.before = Content(r)
      BY <1>1, <1>3, <1>5, <1>7, UnwindsChange
<1>8. QED
      BY <1>6, <1>7

\* A step that changes the document of s, when a savepoint that still gives s
\* back has a line of s above it.
LEMMA HoldsChanged ==
    ASSUME SavepointsHold, phase # "down",
           log' = log, saved' = saved, rolled' = rolled,
           NEW s \in Rids,
           \A r \in Rids : r # s => Content(r)' = Content(r),
           \A i \in DOMAIN log, c \in Colls : Kept(i, c)' => Kept(i, c),
           \A h \in Hashes \ rolled, i \in DOMAIN log :
              IsLastSave(log, i, h) /\ Kept(i, CollOf[s])' =>
                 \E j \in DOMAIN log : j \in i + 1 .. Len(log) /\ Touches(log[j], s)
    PROVE  SavepointsHold'
<1> SUFFICES ASSUME NEW h \in Hashes \ rolled, NEW i \in DOMAIN log, IsLastSave(log, i, h),
                    NEW r \in Rids, Kept(i, CollOf[r])'
             PROVE  Unwinds(log, i, Len(log), r, Content(r)', saved[h][r])
    BY DEF SavepointsHold
<1>1. Unwinds(log, i, Len(log), r, Content(r), saved[h][r])
      BY WalLogAssumption DEF SavepointsHold
<1>2. CASE r # s
      BY <1>1, <1>2
<1>3. CASE r = s
  <2>1. PICK j \in DOMAIN log : j \in i + 1 .. Len(log) /\ Touches(log[j], s)
        BY <1>3
  <2>2. QED
        BY <1>1, <1>3, <2>1, UnwindsTouched
<1>4. QED
      BY <1>2, <1>3

-----------------------------------------------------------------------------
(* SavepointsHold, the steps that change no document and no line. *)

\* Only the database in use changes.
LEMMA UseDatabaseHolds ==
    ASSUME WalInv, SavepointsHold, saved' = saved, NEW d \in Dbs, UseDatabase(d)
    PROVE  SavepointsHold'
<1>0. TypeOK /\ KnownRids /\ QuerySteps /\ JobSteps
      BY DEF WalInv
<1>1. \A s \in Rids : Content(s)' = Content(s)
      BY <1>0, DocumentWalAssumption DEF UseDatabase, Content, Torn, InTransaction, store
<1>2. \A i \in DOMAIN log, cc \in Colls : Kept(i, cc)' => Kept(i, cc)
      BY <1>0, DocumentWalAssumption DEF UseDatabase, Kept, store
<1>3. phase # "down" /\ log' = log /\ rolled \subseteq rolled'
      BY <1>0 DEF UseDatabase, store
<1>4. QED
      BY <1>1, <1>2, <1>3, HoldsQuiet

\* The failed query is forgotten; what it logged stays logged.
LEMMA QueryFailsHolds ==
    ASSUME WalInv, SavepointsHold, saved' = saved, QueryFails
    PROVE  SavepointsHold'
<1>0. TypeOK /\ KnownRids /\ QuerySteps /\ JobSteps
      BY DEF WalInv
<1>1. \A s \in Rids : Content(s)' = Content(s)
      BY <1>0, DocumentWalAssumption
         DEF QueryFails, Content, Torn, InTransaction, QuerySteps, NoQuery, Writers,
             Erasers
<1>2. \A i \in DOMAIN log, cc \in Colls : Kept(i, cc)' => Kept(i, cc)
      BY <1>0, DocumentWalAssumption
         DEF QueryFails, Kept, UnchangedByWrites, QuerySteps, NoQuery, Writers,
             Erasers
<1>3. phase # "down" /\ log' = log /\ rolled \subseteq rolled'
      BY <1>0 DEF QueryFails, UnchangedByWrites
<1>4. QED
      BY <1>1, <1>2, <1>3, HoldsQuiet

\* The update is forgotten; its document stays empty, above its line.
LEMMA UpdateThrowsHolds ==
    ASSUME WalInv, SavepointsHold, saved' = saved, UpdateThrows
    PROVE  SavepointsHold'
<1>0. TypeOK /\ KnownRids /\ QuerySteps /\ JobSteps
      BY DEF WalInv
<1>1. \A s \in Rids : Content(s)' = Content(s)
      BY <1>0, DocumentWalAssumption
         DEF UpdateThrows, Content, Torn, InTransaction, In, QuerySteps, NoQuery,
             Writers, Erasers
<1>2. \A i \in DOMAIN log, cc \in Colls : Kept(i, cc)' => Kept(i, cc)
      BY <1>0, DocumentWalAssumption
         DEF UpdateThrows, Kept, In, UnchangedByWrites, QuerySteps, NoQuery,
             Writers, Erasers
<1>3. phase # "down" /\ log' = log /\ rolled \subseteq rolled'
      BY <1>0 DEF UpdateThrows, In, UnchangedByWrites
<1>4. QED
      BY <1>1, <1>2, <1>3, HoldsQuiet

\* The file is emptied, but the update still holds what was in it.
LEMMA UpdateOpensContent ==
    ASSUME WalInv, NEW r \in Rids, UpdateOpens(r)
    PROVE  \A s \in Rids : Content(s)' = Content(s)
<1>0. TypeOK /\ KnownRids /\ QuerySteps /\ JobSteps
      BY DEF WalInv
<1>1. \A s \in Rids : Content(s)' = Content(s)
      BY <1>0, DocumentWalAssumption
         DEF UpdateOpens, Content, Torn, InTransaction, In, TypeOK, Queries,
             QuerySteps, NoQuery, Writers, Erasers
<1>2. QED
      BY <1>1

\* Savepoints give back what they did.
LEMMA UpdateOpensHolds ==
    ASSUME WalInv, SavepointsHold, saved' = saved, NEW r \in Rids, UpdateOpens(r)
    PROVE  SavepointsHold'
<1>0. TypeOK /\ KnownRids /\ QuerySteps /\ JobSteps
      BY DEF WalInv
<1>1. \A s \in Rids : Content(s)' = Content(s)
      BY UpdateOpensContent
<1>2. \A i \in DOMAIN log, cc \in Colls : Kept(i, cc)' => Kept(i, cc)
      BY <1>0, DocumentWalAssumption
         DEF UpdateOpens, Kept, In, UnchangedByWrites, TypeOK, Queries
<1>3. phase # "down" /\ log' = log /\ rolled \subseteq rolled'
      BY <1>0 DEF UpdateOpens, In, UnchangedByWrites
<1>4. QED
      BY <1>1, <1>2, <1>3, HoldsQuiet

\* From here on the collection is no longer kept.
LEMMA BeginDropHolds ==
    ASSUME WalInv, SavepointsHold, saved' = saved, NEW c \in Colls, BeginDrop(c)
    PROVE  SavepointsHold'
<1>0. TypeOK /\ KnownRids /\ QuerySteps /\ JobSteps
      BY DEF WalInv
<1>1. \A s \in Rids : Content(s)' = Content(s)
      BY <1>0, DocumentWalAssumption
         DEF BeginDrop, Content, Torn, InTransaction, QuerySteps, NoQuery, Writers,
             Erasers
<1>2. \A i \in DOMAIN log, cc \in Colls : Kept(i, cc)' => Kept(i, cc)
      BY <1>0, DocumentWalAssumption
         DEF BeginDrop, Kept, UnchangedByWrites, QuerySteps, NoQuery, Writers,
             Erasers
<1>3. phase # "down" /\ log' = log /\ rolled \subseteq rolled'
      BY <1>0 DEF BeginDrop, UnchangedByWrites
<1>4. QED
      BY <1>1, <1>2, <1>3, HoldsQuiet

\* A dropped collection stays lost.
LEMMA EraseEndsHolds ==
    ASSUME WalInv, SavepointsHold, saved' = saved, EraseEnds
    PROVE  SavepointsHold'
<1>0. TypeOK /\ KnownRids /\ QuerySteps /\ JobSteps
      BY DEF WalInv
<1>1. \A s \in Rids : Content(s)' = Content(s)
      BY <1>0, DocumentWalAssumption
         DEF EraseEnds, Content, Torn, InTransaction, QuerySteps, NoQuery, Writers,
             Erasers
<1>2. \A i \in DOMAIN log, cc \in Colls : Kept(i, cc)' => Kept(i, cc)
      BY <1>0, DocumentWalAssumption
         DEF EraseEnds, Kept, disk, QuerySteps, NoQuery, Writers, Erasers
<1>3. phase # "down" /\ log' = log /\ rolled \subseteq rolled'
      BY <1>0 DEF EraseEnds, disk
<1>4. QED
      BY <1>1, <1>2, <1>3, HoldsQuiet

\* A rollback that starts only takes savepoints away.
LEMMA RollbackToHolds ==
    ASSUME WalInv, SavepointsHold, saved' = saved, NEW h \in Hashes, RollbackTo(h)
    PROVE  SavepointsHold'
<1>0. TypeOK /\ KnownRids /\ QuerySteps /\ JobSteps
      BY DEF WalInv
<1>1. \A s \in Rids : Content(s)' = Content(s)
      BY <1>0, DocumentWalAssumption
         DEF RollbackTo, Content, Torn, InTransaction, store, QuerySteps, NoQuery,
             Writers, Erasers
<1>2. \A i \in DOMAIN log, cc \in Colls : Kept(i, cc)' => Kept(i, cc)
      BY <1>0, DocumentWalAssumption DEF RollbackTo, Kept, store
<1>3. phase # "down" /\ log' = log /\ rolled \subseteq rolled'
      BY <1>0 DEF RollbackTo, TryRollback
<1>4. QED
      BY <1>1, <1>2, <1>3, HoldsQuiet

\* A rollback that starts only takes savepoints away.
LEMMA RollbackLastHolds ==
    ASSUME WalInv, SavepointsHold, saved' = saved, RollbackLast
    PROVE  SavepointsHold'
<1>0. TypeOK /\ KnownRids /\ QuerySteps /\ JobSteps
      BY DEF WalInv
<1>1. \A s \in Rids : Content(s)' = Content(s)
      BY <1>0, DocumentWalAssumption
         DEF RollbackLast, Content, Torn, InTransaction, store, QuerySteps, NoQuery,
             Writers, Erasers
<1>2. \A i \in DOMAIN log, cc \in Colls : Kept(i, cc)' => Kept(i, cc)
      BY <1>0, DocumentWalAssumption DEF RollbackLast, Kept, store
<1>3. phase # "down" /\ log' = log /\ rolled \subseteq rolled'
      BY <1>0 DEF RollbackLast, TryRollback
<1>4. QED
      BY <1>1, <1>2, <1>3, HoldsQuiet

\* Only the cursor moves.
LEMMA UndoSkipsHolds ==
    ASSUME WalInv, SavepointsHold, saved' = saved, UndoSkips
    PROVE  SavepointsHold'
<1>0. TypeOK /\ KnownRids /\ QuerySteps /\ JobSteps
      BY DEF WalInv
<1>1. \A s \in Rids : Content(s)' = Content(s)
      BY <1>0, DocumentWalAssumption
         DEF UndoSkips, Content, Torn, InTransaction, UnchangedByUndo, QuerySteps,
             NoQuery, Writers, Erasers
<1>2. \A i \in DOMAIN log, cc \in Colls : Kept(i, cc)' => Kept(i, cc)
      BY <1>0, DocumentWalAssumption DEF UndoSkips, Kept, UnchangedByUndo
<1>3. phase # "down" /\ log' = log /\ rolled \subseteq rolled'
      BY <1>0 DEF UndoSkips, Undoing, UnchangedByUndo
<1>4. QED
      BY <1>1, <1>2, <1>3, HoldsQuiet

\* The rollback is given up where it is.
LEMMA UndoThrowsHolds ==
    ASSUME WalInv, SavepointsHold, saved' = saved, UndoThrows
    PROVE  SavepointsHold'
<1>0. TypeOK /\ KnownRids /\ QuerySteps /\ JobSteps
      BY DEF WalInv
<1>1. \A s \in Rids : Content(s)' = Content(s)
      BY <1>0, DocumentWalAssumption
         DEF UndoThrows, Content, Torn, InTransaction, UnchangedByUndo, QuerySteps,
             NoQuery, Writers, Erasers
<1>2. \A i \in DOMAIN log, cc \in Colls : Kept(i, cc)' => Kept(i, cc)
      BY <1>0, DocumentWalAssumption DEF UndoThrows, Kept, UnchangedByUndo
<1>3. phase # "down" /\ log' = log /\ rolled \subseteq rolled'
      BY <1>0 DEF UndoThrows, Undoing, UnchangedByUndo
<1>4. QED
      BY <1>1, <1>2, <1>3, HoldsQuiet

\* One more savepoint is taken away.
LEMMA RollbackMarksHolds ==
    ASSUME WalInv, SavepointsHold, saved' = saved, RollbackMarks
    PROVE  SavepointsHold'
<1>0. TypeOK /\ KnownRids /\ QuerySteps /\ JobSteps
      BY DEF WalInv
<1>1. \A s \in Rids : Content(s)' = Content(s)
      BY <1>0, DocumentWalAssumption
         DEF RollbackMarks, Content, Torn, InTransaction, UnchangedByUndo,
             QuerySteps, NoQuery, Writers, Erasers
<1>2. \A i \in DOMAIN log, cc \in Colls : Kept(i, cc)' => Kept(i, cc)
      BY <1>0, DocumentWalAssumption DEF RollbackMarks, Kept, UnchangedByUndo
<1>3. phase # "down" /\ log' = log /\ rolled \subseteq rolled'
      BY <1>0 DEF RollbackMarks, UnchangedByUndo
<1>4. QED
      BY <1>1, <1>2, <1>3, HoldsQuiet

\* Only wal.rollbacks is written.
LEMMA RollbackEndsHolds ==
    ASSUME WalInv, SavepointsHold, saved' = saved, RollbackEnds
    PROVE  SavepointsHold'
<1>0. TypeOK /\ KnownRids /\ QuerySteps /\ JobSteps
      BY DEF WalInv
<1>1. \A s \in Rids : Content(s)' = Content(s)
      BY <1>0, DocumentWalAssumption
         DEF RollbackEnds, Content, Torn, InTransaction, UnchangedByUndo,
             QuerySteps, NoQuery, Writers, Erasers
<1>2. \A i \in DOMAIN log, cc \in Colls : Kept(i, cc)' => Kept(i, cc)
      BY <1>0, DocumentWalAssumption DEF RollbackEnds, Kept, UnchangedByUndo
<1>3. phase # "down" /\ log' = log /\ rolled \subseteq rolled'
      BY <1>0 DEF RollbackEnds, UnchangedByUndo
<1>4. QED
      BY <1>1, <1>2, <1>3, HoldsQuiet

\* Only the process state changes.
LEMMA RecoveryEndsHolds ==
    ASSUME WalInv, SavepointsHold, saved' = saved, RecoveryEnds
    PROVE  SavepointsHold'
<1>0. TypeOK /\ KnownRids /\ QuerySteps /\ JobSteps
      BY DEF WalInv
<1>1. \A s \in Rids : Content(s)' = Content(s)
      BY <1>0, DocumentWalAssumption
         DEF RecoveryEnds, Content, Torn, InTransaction, UnchangedByUndo,
             QuerySteps, NoQuery, Writers, Erasers
<1>2. \A i \in DOMAIN log, cc \in Colls : Kept(i, cc)' => Kept(i, cc)
      BY <1>0, DocumentWalAssumption DEF RecoveryEnds, Kept, UnchangedByUndo
<1>3. phase # "down" /\ log' = log /\ rolled \subseteq rolled'
      BY <1>0 DEF RecoveryEnds, UnchangedByUndo
<1>4. QED
      BY <1>1, <1>2, <1>3, HoldsQuiet

-----------------------------------------------------------------------------
(* SavepointsHold, the steps that log a line. *)

\* The line that opens a transaction names no record.
LEMMA BeginQueryHolds ==
    ASSUME WalInv, SavepointsHold, saved' = saved, NEW kind \in Writers, NEW c \in Colls, NEW todo \in SUBSET Rids,
           BeginQuery(kind, c, todo)
    PROVE  SavepointsHold'
<1>0. TypeOK /\ KnownRids /\ QuerySteps /\ JobSteps
      BY DEF WalInv
<1>1. OpenLine \in Lines /\ Log(OpenLine) /\ OpenLine.kind # "SavePoint"
      BY <1>0, MadeLines
         DEF BeginQuery, OpenLine, CloseLine, TruncateLine, InsertLine, UpdateLine,
             DeleteLine
<1>2. \A s \in Rids : ~Touches(OpenLine, s) /\ Content(s)' = Content(s)
      BY <1>0, TouchedRecords, WalLogAssumption, DocumentWalAssumption
         DEF BeginQuery, Content, Torn, InTransaction, QuerySteps, NoQuery, Writers,
             Erasers
<1>3. \A i \in DOMAIN log, cc \in Colls : Kept(i, cc)' => Kept(i, cc)
      BY <1>0, <1>1, Logged, DocumentWalAssumption
         DEF BeginQuery, Kept, UnchangedByWrites, QuerySteps, NoQuery, Writers,
             Erasers
<1>4. phase # "down" /\ rolled' = rolled
      BY <1>0 DEF BeginQuery, UnchangedByWrites
<1>5. QED
      BY <1>0, <1>1, <1>2, <1>3, <1>4, HoldsLogged

\* The line that opens a transaction names no record.
LEMMA BeginFailsHolds ==
    ASSUME WalInv, SavepointsHold, saved' = saved, NEW c \in Colls, BeginFails(c)
    PROVE  SavepointsHold'
<1>0. TypeOK /\ KnownRids /\ QuerySteps /\ JobSteps
      BY DEF WalInv
<1>1. OpenLine \in Lines /\ Log(OpenLine) /\ OpenLine.kind # "SavePoint"
      BY <1>0, MadeLines
         DEF BeginFails, OpenLine, CloseLine, TruncateLine, InsertLine, UpdateLine,
             DeleteLine
<1>2. \A s \in Rids : ~Touches(OpenLine, s) /\ Content(s)' = Content(s)
      BY <1>0, TouchedRecords, WalLogAssumption, DocumentWalAssumption
         DEF BeginFails, Content, Torn, InTransaction, QuerySteps, NoQuery, Writers,
             Erasers
<1>3. \A i \in DOMAIN log, cc \in Colls : Kept(i, cc)' => Kept(i, cc)
      BY <1>0, <1>1, Logged, DocumentWalAssumption DEF BeginFails, Kept, UnchangedByWrites
<1>4. phase # "down" /\ rolled' = rolled
      BY <1>0 DEF BeginFails, UnchangedByWrites
<1>5. QED
      BY <1>0, <1>1, <1>2, <1>3, <1>4, HoldsLogged

\* The line that closes a transaction names no record.
LEMMA QueryClosesHolds ==
    ASSUME WalInv, SavepointsHold, saved' = saved, QueryCloses
    PROVE  SavepointsHold'
<1>0. TypeOK /\ KnownRids /\ QuerySteps /\ JobSteps
      BY DEF WalInv
<1>1. CloseLine \in Lines /\ Log(CloseLine) /\ CloseLine.kind # "SavePoint"
      BY <1>0, MadeLines
         DEF QueryCloses, OpenLine, CloseLine, TruncateLine, InsertLine, UpdateLine,
             DeleteLine
<1>2. \A s \in Rids : ~Touches(CloseLine, s) /\ Content(s)' = Content(s)
      BY <1>0, TouchedRecords, WalLogAssumption, DocumentWalAssumption
         DEF QueryCloses, Content, Torn, InTransaction, QuerySteps, NoQuery,
             Writers, Erasers
<1>3. \A i \in DOMAIN log, cc \in Colls : Kept(i, cc)' => Kept(i, cc)
      BY <1>0, <1>1, Logged, DocumentWalAssumption
         DEF QueryCloses, Kept, UnchangedByWrites, QuerySteps, NoQuery, Writers,
             Erasers
<1>4. phase # "down" /\ rolled' = rolled
      BY <1>0 DEF QueryCloses, UnchangedByWrites
<1>5. QED
      BY <1>0, <1>1, <1>2, <1>3, <1>4, HoldsLogged

\* A truncate line names no record and lets its collection go.
LEMMA BeginTruncateHolds ==
    ASSUME WalInv, SavepointsHold, saved' = saved, NEW c \in Colls, BeginTruncate(c)
    PROVE  SavepointsHold'
<1>0. TypeOK /\ KnownRids /\ QuerySteps /\ JobSteps
      BY DEF WalInv
<1>1. TruncateLine(c) \in Lines /\ Log(TruncateLine(c)) /\ (TruncateLine(c)).kind # "SavePoint"
      BY <1>0, MadeLines
         DEF BeginTruncate, OpenLine, CloseLine, TruncateLine, InsertLine,
             UpdateLine, DeleteLine
<1>2. \A s \in Rids : ~Touches(TruncateLine(c), s) /\ Content(s)' = Content(s)
      BY <1>0, TouchedRecords, WalLogAssumption, DocumentWalAssumption
         DEF BeginTruncate, Content, Torn, InTransaction, QuerySteps, NoQuery,
             Writers, Erasers
<1>3. \A i \in DOMAIN log, cc \in Colls : Kept(i, cc)' => Kept(i, cc)
      BY <1>0, <1>1, Logged, DocumentWalAssumption
         DEF BeginTruncate, Kept, UnchangedByWrites, QuerySteps, NoQuery, Writers,
             Erasers
<1>4. phase # "down" /\ rolled' = rolled
      BY <1>0 DEF BeginTruncate, UnchangedByWrites
<1>5. QED
      BY <1>0, <1>1, <1>2, <1>3, <1>4, HoldsLogged

\* A new record has no file yet, which is what its line keeps.
LEMMA InsertLogsLine ==
    ASSUME WalInv, NEW r \in Rids, InsertLogs(r)
    PROVE  /\ InsertLine(r) \in Lines /\ Log(InsertLine(r)) /\ (InsertLine(r)).kind = "Insert"
           /\ \A s \in Rids :
                 \/ ~Touches(InsertLine(r), s) /\ Content(s)' = Content(s)
                 \/ Touches(InsertLine(r), s) /\ (InsertLine(r)).before = Content(s)
<1>0. TypeOK /\ KnownRids /\ QuerySteps /\ JobSteps
      BY DEF WalInv
<1>1. InsertLine(r) \in Lines /\ Log(InsertLine(r)) /\ (InsertLine(r)).kind = "Insert"
      BY <1>0, MadeLines
         DEF InsertLogs, OpenLine, CloseLine, TruncateLine, InsertLine, UpdateLine,
             DeleteLine
<1>2. \A s \in Rids :
         \/ ~Touches(InsertLine(r), s) /\ Content(s)' = Content(s)
         \/ Touches(InsertLine(r), s) /\ (InsertLine(r)).before = Content(s)
  <2>1. (InsertLine(r)).before = Absent
        BY DEF InsertLine
  <2>2. Content(r) = Absent
        BY <1>0, DocumentWalAssumption
           DEF InsertLogs, In, Content, Torn, InTransaction, KnownRids
  <2>3. \A s \in Rids : s # r => Content(s)' = Content(s)
        BY <1>0, DocumentWalAssumption
           DEF InsertLogs, Content, Torn, InTransaction, In, AtStep, TypeOK,
               Queries, QuerySteps, NoQuery, Writers, Erasers
  <2>4. \A s \in Rids : s # r => ~Touches(InsertLine(r), s)
        BY TouchedRecords
  <2>5. Touches(InsertLine(r), r)
        BY TouchedRecords
  <2>6. QED
        BY <2>1, <2>2, <2>3, <2>4, <2>5
<1>3. QED
      BY <1>1, <1>2

\* A savepoint below the line gives back what it did.
LEMMA InsertLogsHolds ==
    ASSUME WalInv, SavepointsHold, saved' = saved, NEW r \in Rids, InsertLogs(r)
    PROVE  SavepointsHold'
<1>0. TypeOK /\ KnownRids /\ QuerySteps /\ JobSteps
      BY DEF WalInv
<1>1. InsertLine(r) \in Lines /\ Log(InsertLine(r)) /\ (InsertLine(r)).kind # "SavePoint"
      BY InsertLogsLine
<1>2. \A s \in Rids :
         \/ ~Touches(InsertLine(r), s) /\ Content(s)' = Content(s)
         \/ Touches(InsertLine(r), s) /\ (InsertLine(r)).before = Content(s)
      BY InsertLogsLine
<1>3. \A i \in DOMAIN log, cc \in Colls : Kept(i, cc)' => Kept(i, cc)
      BY <1>0, <1>1, Logged, DocumentWalAssumption
         DEF InsertLogs, Kept, In, AtStep, TypeOK, Queries, UnchangedByWrites
<1>4. phase # "down" /\ rolled' = rolled
      BY <1>0 DEF InsertLogs, UnchangedByWrites, In
<1>5. QED
      BY <1>0, <1>1, <1>2, <1>3, <1>4, HoldsLogged

\* The line keeps what the update took out of the file.
LEMMA UpdateLogsLine ==
    ASSUME WalInv, UpdateLogs
    PROVE  /\ UpdateLine(query.rid, query.old) \in Lines /\ Log(UpdateLine(query.rid, query.old)) /\ (UpdateLine(query.rid, query.old)).kind = "Update"
           /\ \A s \in Rids :
                 \/ ~Touches(UpdateLine(query.rid, query.old), s) /\ Content(s)' = Content(s)
                 \/ Touches(UpdateLine(query.rid, query.old), s) /\ (UpdateLine(query.rid, query.old)).before = Content(s)
<1>0. TypeOK /\ KnownRids /\ QuerySteps /\ JobSteps
      BY DEF WalInv
<1>a. query.rid \in Rids /\ query.old \in Values
      BY <1>0 DEF UpdateLogs, In, QuerySteps
<1>1. UpdateLine(query.rid, query.old) \in Lines /\ Log(UpdateLine(query.rid, query.old)) /\ (UpdateLine(query.rid, query.old)).kind = "Update"
      BY <1>0, <1>a, MadeLines
         DEF UpdateLogs, OpenLine, CloseLine, TruncateLine, InsertLine, UpdateLine,
             DeleteLine
<1>2. \A s \in Rids :
         \/ ~Touches(UpdateLine(query.rid, query.old), s) /\ Content(s)' = Content(s)
         \/ Touches(UpdateLine(query.rid, query.old), s) /\ (UpdateLine(query.rid, query.old)).before = Content(s)
  <2>1. (UpdateLine(query.rid, query.old)).before = query.old
        BY DEF UpdateLine
  <2>2. Content(query.rid) = query.old
        BY <1>0, <1>a, DocumentWalAssumption
           DEF UpdateLogs, In, Content, Torn, InTransaction, Writers
  <2>3. \A s \in Rids : s # query.rid => Content(s)' = Content(s)
        BY <1>0, <1>a, DocumentWalAssumption
           DEF UpdateLogs, Content, Torn, InTransaction, In, AtStep, TypeOK,
               Queries, QuerySteps, NoQuery, Writers, Erasers
  <2>4. \A s \in Rids : s # query.rid => ~Touches(UpdateLine(query.rid, query.old), s)
        BY TouchedRecords
  <2>5. Touches(UpdateLine(query.rid, query.old), query.rid)
        BY TouchedRecords
  <2>6. QED
        BY <2>1, <2>2, <2>3, <2>4, <2>5
<1>3. QED
      BY <1>1, <1>2

\* A savepoint below the line gives back what it did.
LEMMA UpdateLogsHolds ==
    ASSUME WalInv, SavepointsHold, saved' = saved, UpdateLogs
    PROVE  SavepointsHold'
<1>0. TypeOK /\ KnownRids /\ QuerySteps /\ JobSteps
      BY DEF WalInv
<1>1. UpdateLine(query.rid, query.old) \in Lines /\ Log(UpdateLine(query.rid, query.old)) /\ (UpdateLine(query.rid, query.old)).kind # "SavePoint"
      BY UpdateLogsLine
<1>2. \A s \in Rids :
         \/ ~Touches(UpdateLine(query.rid, query.old), s) /\ Content(s)' = Content(s)
         \/ Touches(UpdateLine(query.rid, query.old), s) /\ (UpdateLine(query.rid, query.old)).before = Content(s)
      BY UpdateLogsLine
<1>3. \A i \in DOMAIN log, cc \in Colls : Kept(i, cc)' => Kept(i, cc)
      BY <1>0, <1>1, Logged, DocumentWalAssumption
         DEF UpdateLogs, Kept, In, AtStep, TypeOK, Queries, UnchangedByWrites
<1>4. phase # "down" /\ rolled' = rolled
      BY <1>0 DEF UpdateLogs, UnchangedByWrites, In
<1>5. QED
      BY <1>0, <1>1, <1>2, <1>3, <1>4, HoldsLogged

\* The line keeps what is in the file.
LEMMA DeleteLogsLine ==
    ASSUME WalInv, NEW r \in Rids, DeleteLogs(r)
    PROVE  /\ DeleteLine(r, docs[r]) \in Lines /\ Log(DeleteLine(r, docs[r])) /\ (DeleteLine(r, docs[r])).kind = "Delete"
           /\ \A s \in Rids :
                 \/ ~Touches(DeleteLine(r, docs[r]), s) /\ Content(s)' = Content(s)
                 \/ Touches(DeleteLine(r, docs[r]), s) /\ (DeleteLine(r, docs[r])).before = Content(s)
<1>0. TypeOK /\ KnownRids /\ QuerySteps /\ JobSteps
      BY DEF WalInv
<1>a. docs[r] \in Values
      BY <1>0, DocumentWalAssumption DEF DeleteLogs, In, QuerySteps
<1>1. DeleteLine(r, docs[r]) \in Lines /\ Log(DeleteLine(r, docs[r])) /\ (DeleteLine(r, docs[r])).kind = "Delete"
      BY <1>0, <1>a, MadeLines
         DEF DeleteLogs, OpenLine, CloseLine, TruncateLine, InsertLine, UpdateLine,
             DeleteLine
<1>2. \A s \in Rids :
         \/ ~Touches(DeleteLine(r, docs[r]), s) /\ Content(s)' = Content(s)
         \/ Touches(DeleteLine(r, docs[r]), s) /\ (DeleteLine(r, docs[r])).before = Content(s)
  <2>1. (DeleteLine(r, docs[r])).before = docs[r]
        BY DEF DeleteLine
  <2>2. Content(r) = docs[r]
        BY <1>0, <1>a, DocumentWalAssumption
           DEF DeleteLogs, In, Content, Torn, InTransaction, Writers
  <2>3. \A s \in Rids : s # r => Content(s)' = Content(s)
        BY <1>0, <1>a, DocumentWalAssumption
           DEF DeleteLogs, Content, Torn, InTransaction, In, AtStep, TypeOK,
               Queries, QuerySteps, NoQuery, Writers, Erasers
  <2>4. \A s \in Rids : s # r => ~Touches(DeleteLine(r, docs[r]), s)
        BY TouchedRecords
  <2>5. Touches(DeleteLine(r, docs[r]), r)
        BY TouchedRecords
  <2>6. QED
        BY <2>1, <2>2, <2>3, <2>4, <2>5
<1>3. QED
      BY <1>1, <1>2

\* A savepoint below the line gives back what it did.
LEMMA DeleteLogsHolds ==
    ASSUME WalInv, SavepointsHold, saved' = saved, NEW r \in Rids, DeleteLogs(r)
    PROVE  SavepointsHold'
<1>0. TypeOK /\ KnownRids /\ QuerySteps /\ JobSteps
      BY DEF WalInv
<1>1. DeleteLine(r, docs[r]) \in Lines /\ Log(DeleteLine(r, docs[r])) /\ (DeleteLine(r, docs[r])).kind # "SavePoint"
      BY DeleteLogsLine
<1>2. \A s \in Rids :
         \/ ~Touches(DeleteLine(r, docs[r]), s) /\ Content(s)' = Content(s)
         \/ Touches(DeleteLine(r, docs[r]), s) /\ (DeleteLine(r, docs[r])).before = Content(s)
      BY DeleteLogsLine
<1>3. \A i \in DOMAIN log, cc \in Colls : Kept(i, cc)' => Kept(i, cc)
      BY <1>0, <1>1, Logged, DocumentWalAssumption
         DEF DeleteLogs, Kept, In, AtStep, TypeOK, Queries, UnchangedByWrites
<1>4. phase # "down" /\ rolled' = rolled
      BY <1>0 DEF DeleteLogs, UnchangedByWrites, In
<1>5. QED
      BY <1>0, <1>1, <1>2, <1>3, <1>4, HoldsLogged

-----------------------------------------------------------------------------
(* SavepointsHold, the steps that change a document. *)

\* The new file is above its line.
LEMMA InsertCreatesAbove ==
    ASSUME WalInv, InsertCreates
    PROVE  /\ query.rid \in Rids /\ log # <<>> /\ Touches(log[Len(log)], query.rid)
           /\ \A s \in Rids : s # query.rid => Content(s)' = Content(s)
<1>0. TypeOK /\ KnownRids /\ QuerySteps /\ JobSteps
      BY DEF WalInv
<1>a. query.rid \in Rids /\ log # <<>> /\ Touches(log[Len(log)], query.rid)
      BY <1>0 DEF InsertCreates, In, QuerySteps
<1>1. \A x \in Rids : x # query.rid => Content(x)' = Content(x)
      BY <1>0, <1>a, DocumentWalAssumption
         DEF InsertCreates, Content, Torn, InTransaction, TypeOK, Queries, In,
             AtStep, QuerySteps, NoQuery, Writers, Erasers
<1>2. QED
      BY <1>a, <1>1

\* A savepoint below the line gives back what it did.
LEMMA InsertCreatesHolds ==
    ASSUME WalInv, SavepointsHold, saved' = saved, InsertCreates
    PROVE  SavepointsHold'
<1>0. TypeOK /\ KnownRids /\ QuerySteps /\ JobSteps
      BY DEF WalInv
<1>a. query.rid \in Rids /\ log # <<>> /\ Touches(log[Len(log)], query.rid)
      BY InsertCreatesAbove
<1>1. \A x \in Rids : x # query.rid => Content(x)' = Content(x)
      BY InsertCreatesAbove
<1>2. \A i \in DOMAIN log, cc \in Colls : Kept(i, cc)' => Kept(i, cc)
      BY <1>0 DEF InsertCreates, Kept, TypeOK, Queries, In, AtStep, UnchangedByWrites
<1>3. \A h \in Hashes \ rolled, i \in DOMAIN log :
         IsLastSave(log, i, h) => Len(log) \in i + 1 .. Len(log) /\ Len(log) \in DOMAIN log /\ Touches(log[Len(log)], query.rid)
      BY <1>0, <1>a, TouchedRecords DEF TypeOK, IsLastSave
<1>4. phase # "down" /\ log' = log /\ rolled' = rolled
      BY <1>0 DEF InsertCreates, In, UnchangedByWrites
<1>5. QED
      BY <1>a, <1>1, <1>2, <1>3, <1>4, HoldsChanged

\* The new content is above its line.
LEMMA InsertWritesAbove ==
    ASSUME WalInv, NEW v \in Values, InsertWrites(v)
    PROVE  /\ query.rid \in Rids /\ log # <<>> /\ Touches(log[Len(log)], query.rid)
           /\ \A s \in Rids : s # query.rid => Content(s)' = Content(s)
<1>0. TypeOK /\ KnownRids /\ QuerySteps /\ JobSteps
      BY DEF WalInv
<1>a. query.rid \in Rids /\ log # <<>> /\ Touches(log[Len(log)], query.rid)
      BY <1>0 DEF InsertWrites, In, QuerySteps
<1>1. \A x \in Rids : x # query.rid => Content(x)' = Content(x)
      BY <1>0, <1>a, DocumentWalAssumption
         DEF InsertWrites, Content, Torn, InTransaction, TypeOK, Queries, In,
             NextRecord, QuerySteps, NoQuery, Writers, Erasers
<1>2. QED
      BY <1>a, <1>1

\* A savepoint below the line gives back what it did.
LEMMA InsertWritesHolds ==
    ASSUME WalInv, SavepointsHold, saved' = saved, NEW v \in Values, InsertWrites(v)
    PROVE  SavepointsHold'
<1>0. TypeOK /\ KnownRids /\ QuerySteps /\ JobSteps
      BY DEF WalInv
<1>a. query.rid \in Rids /\ log # <<>> /\ Touches(log[Len(log)], query.rid)
      BY InsertWritesAbove
<1>1. \A x \in Rids : x # query.rid => Content(x)' = Content(x)
      BY InsertWritesAbove
<1>2. \A i \in DOMAIN log, cc \in Colls : Kept(i, cc)' => Kept(i, cc)
      BY <1>0 DEF InsertWrites, Kept, TypeOK, Queries, In, NextRecord, UnchangedByWrites
<1>3. \A h \in Hashes \ rolled, i \in DOMAIN log :
         IsLastSave(log, i, h) => Len(log) \in i + 1 .. Len(log) /\ Len(log) \in DOMAIN log /\ Touches(log[Len(log)], query.rid)
      BY <1>0, <1>a, TouchedRecords DEF TypeOK, IsLastSave
<1>4. phase # "down" /\ log' = log /\ rolled' = rolled
      BY <1>0 DEF InsertWrites, In, UnchangedByWrites
<1>5. QED
      BY <1>a, <1>1, <1>2, <1>3, <1>4, HoldsChanged

\* The new content is above its line.
LEMMA UpdateWritesAbove ==
    ASSUME WalInv, NEW v \in Values, UpdateWrites(v)
    PROVE  /\ query.rid \in Rids /\ log # <<>> /\ Touches(log[Len(log)], query.rid)
           /\ \A s \in Rids : s # query.rid => Content(s)' = Content(s)
<1>0. TypeOK /\ KnownRids /\ QuerySteps /\ JobSteps
      BY DEF WalInv
<1>a. query.rid \in Rids /\ log # <<>> /\ Touches(log[Len(log)], query.rid)
      BY <1>0 DEF UpdateWrites, In, QuerySteps
<1>1. \A x \in Rids : x # query.rid => Content(x)' = Content(x)
      BY <1>0, <1>a, DocumentWalAssumption
         DEF UpdateWrites, Content, Torn, InTransaction, TypeOK, Queries, In,
             NextRecord, QuerySteps, NoQuery, Writers, Erasers
<1>2. QED
      BY <1>a, <1>1

\* A savepoint below the line gives back what it did.
LEMMA UpdateWritesHolds ==
    ASSUME WalInv, SavepointsHold, saved' = saved, NEW v \in Values, UpdateWrites(v)
    PROVE  SavepointsHold'
<1>0. TypeOK /\ KnownRids /\ QuerySteps /\ JobSteps
      BY DEF WalInv
<1>a. query.rid \in Rids /\ log # <<>> /\ Touches(log[Len(log)], query.rid)
      BY UpdateWritesAbove
<1>1. \A x \in Rids : x # query.rid => Content(x)' = Content(x)
      BY UpdateWritesAbove
<1>2. \A i \in DOMAIN log, cc \in Colls : Kept(i, cc)' => Kept(i, cc)
      BY <1>0 DEF UpdateWrites, Kept, TypeOK, Queries, In, NextRecord, UnchangedByWrites
<1>3. \A h \in Hashes \ rolled, i \in DOMAIN log :
         IsLastSave(log, i, h) => Len(log) \in i + 1 .. Len(log) /\ Len(log) \in DOMAIN log /\ Touches(log[Len(log)], query.rid)
      BY <1>0, <1>a, TouchedRecords DEF TypeOK, IsLastSave
<1>4. phase # "down" /\ log' = log /\ rolled' = rolled
      BY <1>0 DEF UpdateWrites, In, UnchangedByWrites
<1>5. QED
      BY <1>a, <1>1, <1>2, <1>3, <1>4, HoldsChanged

\* The file that goes is above its line.
LEMMA DeleteRemovesAbove ==
    ASSUME WalInv, DeleteRemoves
    PROVE  /\ query.rid \in Rids /\ log # <<>> /\ Touches(log[Len(log)], query.rid)
           /\ \A s \in Rids : s # query.rid => Content(s)' = Content(s)
<1>0. TypeOK /\ KnownRids /\ QuerySteps /\ JobSteps
      BY DEF WalInv
<1>a. query.rid \in Rids /\ log # <<>> /\ Touches(log[Len(log)], query.rid)
      BY <1>0 DEF DeleteRemoves, In, QuerySteps
<1>1. \A x \in Rids : x # query.rid => Content(x)' = Content(x)
      BY <1>0, <1>a, DocumentWalAssumption
         DEF DeleteRemoves, Content, Torn, InTransaction, TypeOK, Queries, In,
             NextRecord, QuerySteps, NoQuery, Writers, Erasers
<1>2. QED
      BY <1>a, <1>1

\* A savepoint below the line gives back what it did.
LEMMA DeleteRemovesHolds ==
    ASSUME WalInv, SavepointsHold, saved' = saved, DeleteRemoves
    PROVE  SavepointsHold'
<1>0. TypeOK /\ KnownRids /\ QuerySteps /\ JobSteps
      BY DEF WalInv
<1>a. query.rid \in Rids /\ log # <<>> /\ Touches(log[Len(log)], query.rid)
      BY DeleteRemovesAbove
<1>1. \A x \in Rids : x # query.rid => Content(x)' = Content(x)
      BY DeleteRemovesAbove
<1>2. \A i \in DOMAIN log, cc \in Colls : Kept(i, cc)' => Kept(i, cc)
      BY <1>0 DEF DeleteRemoves, Kept, TypeOK, Queries, In, NextRecord, UnchangedByWrites
<1>3. \A h \in Hashes \ rolled, i \in DOMAIN log :
         IsLastSave(log, i, h) => Len(log) \in i + 1 .. Len(log) /\ Len(log) \in DOMAIN log /\ Touches(log[Len(log)], query.rid)
      BY <1>0, <1>a, TouchedRecords DEF TypeOK, IsLastSave
<1>4. phase # "down" /\ log' = log /\ rolled' = rolled
      BY <1>0 DEF DeleteRemoves, In, UnchangedByWrites
<1>5. QED
      BY <1>a, <1>1, <1>2, <1>3, <1>4, HoldsChanged

\* The collection whose files go is not kept.
LEMMA EraseRemovesHolds ==
    ASSUME WalInv, SavepointsHold, saved' = saved, NEW r \in Rids, EraseRemoves(r)
    PROVE  SavepointsHold'
<1>0. TypeOK /\ KnownRids /\ QuerySteps /\ JobSteps
      BY DEF WalInv
<1>a. CollOf[r] = query.coll /\ query.kind \in Erasers /\ phase = "query"
      BY <1>0 DEF EraseRemoves, QuerySteps
<1>1. \A x \in Rids : x # r => Content(x)' = Content(x)
      BY <1>0, <1>a
         DEF EraseRemoves, Content, Torn, InTransaction, TypeOK, Queries, Writers,
             Erasers
<1>2. \A i \in DOMAIN log, cc \in Colls : Kept(i, cc)' => Kept(i, cc)
      BY <1>0 DEF EraseRemoves, Kept, TypeOK, Queries, UnchangedByWrites
<1>3. \A h \in Hashes \ rolled, i \in DOMAIN log : IsLastSave(log, i, h) => ~Kept(i, CollOf[r])'
  <2> TAKE h \in Hashes \ rolled, i \in DOMAIN log
  <2>1. CASE query.kind = "Drop"
        BY <1>0, <1>a, <2>1 DEF EraseRemoves, Kept, TypeOK, Queries
  <2>2. CASE query.kind = "Truncate"
    <3>1. /\ log' = log /\ Len(log) \in DOMAIN log /\ log[Len(log)] = TruncateLine(CollOf[r])
          /\ i <= Len(log)
          BY <1>0, <1>a, <2>2 DEF QuerySteps, TypeOK, EraseRemoves
    <3>2. IsLastSave(log, i, h) => i # Len(log)
          BY <3>1 DEF IsLastSave, SavePointLine, TruncateLine
    <3>3. QED
          BY <1>0, <3>1, <3>2 DEF Kept, TypeOK
  <2>3. QED
        BY <1>a, <2>1, <2>2 DEF Erasers
<1>4. phase # "down" /\ log' = log /\ rolled' = rolled
      BY <1>0 DEF EraseRemoves, UnchangedByWrites
<1>5. QED
      BY <1>1, <1>2, <1>3, <1>4, HoldsChanged

\* Every line that is undone is above the savepoints that can still be used.
LEMMA UndoneAbove ==
    ASSUME WalInv, RollbackOnItsWay, phase \in {"rollback", "recover"}, job.at > job.target,
           IsChange(JobLine), NEW h \in Hashes \ rolled, NEW i \in DOMAIN log,
           IsLastSave(log, i, h)
    PROVE  \E j \in DOMAIN log : j \in i + 1 .. Len(log) /\ Touches(log[j], JobLine.rid)
<1>1. TypeOK /\ JobSteps
      BY DEF WalInv
<1>2. phase = "rollback" /\ JobLog = log
      BY <1>1 DEF JobSteps, JobLog
<1>3. i <= job.target /\ i \in Nat
      BY <1>1, <1>2 DEF RollbackOnItsWay, TypeOK
<1>4. job.at \in DOMAIN log /\ job.at \in Nat /\ job.target \in Nat
      BY <1>2, DueLine
<1>5. job.at \in i + 1 .. Len(log)
      BY <1>1, <1>3, <1>4 DEF TypeOK
<1>6. Touches(log[job.at], JobLine.rid)
      BY <1>2 DEF Touches, JobLine
<1>7. QED
      BY <1>4, <1>5, <1>6

\* What undo removes is above its line.
LEMMA UndoRemovesHolds ==
    ASSUME WalInv, RollbackOnItsWay, SavepointsHold, saved' = saved, UndoRemoves
    PROVE  SavepointsHold'
<1>1. phase \in {"rollback", "recover"} /\ job.at > job.target /\ IsChange(JobLine)
      BY DEF UndoRemoves, Undoing
<1>2. JobLine.rid \in Rids
      BY <1>1, DueLine
<1>3. \A r \in Rids : r # JobLine.rid => Content(r)' = Content(r)
      BY <1>1, <1>2 DEF UndoRemoves, UnchangedByUndo, Content, Torn, InTransaction, WalInv, TypeOK
<1>4. \A i \in DOMAIN log, c \in Colls : Kept(i, c)' => Kept(i, c)
      BY DEF UndoRemoves, UnchangedByUndo, Kept
<1>5. phase # "down" /\ log' = log /\ rolled' = rolled
      BY <1>1 DEF UndoRemoves, UnchangedByUndo
<1>6. QED
      BY <1>1, <1>2, <1>3, <1>4, <1>5, UndoneAbove, HoldsChanged

\* What undo creates is above its line.
LEMMA UndoCreatesHolds ==
    ASSUME WalInv, RollbackOnItsWay, SavepointsHold, saved' = saved, UndoCreates
    PROVE  SavepointsHold'
<1>1. phase \in {"rollback", "recover"} /\ job.at > job.target /\ IsChange(JobLine)
      BY DEF UndoCreates, Undoing, WalInv, JobSteps
<1>2. JobLine.rid \in Rids
      BY <1>1, DueLine
<1>3. \A r \in Rids : r # JobLine.rid => Content(r)' = Content(r)
      BY <1>1, <1>2 DEF UndoCreates, UnchangedByUndo, Content, Torn, InTransaction, WalInv, TypeOK
<1>4. \A i \in DOMAIN log, c \in Colls : Kept(i, c)' => Kept(i, c)
      BY DEF UndoCreates, UnchangedByUndo, Kept
<1>5. phase # "down" /\ log' = log /\ rolled' = rolled
      BY <1>1 DEF UndoCreates, UnchangedByUndo
<1>6. QED
      BY <1>1, <1>2, <1>3, <1>4, <1>5, UndoneAbove, HoldsChanged

\* What undo writes is above its line.
LEMMA UndoWritesHolds ==
    ASSUME WalInv, RollbackOnItsWay, SavepointsHold, saved' = saved, UndoWrites
    PROVE  SavepointsHold'
<1>1. phase \in {"rollback", "recover"} /\ job.at > job.target /\ IsChange(JobLine)
      BY DEF UndoWrites, Undoing, WalInv, JobSteps
<1>2. JobLine.rid \in Rids
      BY <1>1, DueLine
<1>3. \A r \in Rids : r # JobLine.rid => Content(r)' = Content(r)
      BY <1>1, <1>2 DEF UndoWrites, UnchangedByUndo, Content, Torn, InTransaction, WalInv, TypeOK
<1>4. \A i \in DOMAIN log, c \in Colls : Kept(i, c)' => Kept(i, c)
      BY DEF UndoWrites, UnchangedByUndo, Kept
<1>5. phase # "down" /\ log' = log /\ rolled' = rolled
      BY <1>1 DEF UndoWrites, UnchangedByUndo
<1>6. QED
      BY <1>1, <1>2, <1>3, <1>4, <1>5, UndoneAbove, HoldsChanged

\* The new savepoint holds the documents of the moment, and a line of no record
\* leaves the others what they hold.
LEMMA SavePointHolds ==
    ASSUME WalInv, HTypeOK, SavepointsHold, NEW h \in Hashes, SavePoint(h),
           saved' = [saved EXCEPT ![h] = docs]
    PROVE  SavepointsHold'
<1> DEFINE line == SavePointLine(h)
<1>1. /\ TypeOK /\ phase = "idle" /\ line \in Lines /\ Log(line) /\ rolled' = rolled
      /\ docs' = docs /\ dropped' = dropped /\ query' = query /\ phase' = phase
      BY MadeLines DEF WalInv, SavePoint, store
<1>2. /\ log' = Append(log, line) /\ log \in Seq(Lines) /\ Len(log') = Len(log) + 1
      /\ Len(log) \in Nat /\ log'[Len(log')] = line
      /\ DOMAIN log' = 1 .. Len(log') /\ DOMAIN log = 1 .. Len(log)
      /\ \A i \in DOMAIN log : log'[i] = log[i]
      BY <1>1, Logged DEF Log, TypeOK
<1> HIDE DEF line
<1>3. \A r \in Rids : Content(r)' = docs[r] /\ Content(r) = docs[r]
      BY <1>1, DocumentWalAssumption DEF Content, Torn, InTransaction
<1> SUFFICES ASSUME NEW g \in Hashes \ rolled, NEW i \in DOMAIN log', IsLastSave(log', i, g),
                    NEW r \in Rids, Kept(i, CollOf[r])'
             PROVE  Unwinds(log', i, Len(log'), r, docs[r], saved'[g][r])
    BY <1>1, <1>3 DEF SavepointsHold
<1>4. CASE g = h
  <2>1. i = Len(log')
        BY <1>2, <1>4 DEF IsLastSave, line
  <2>2. saved'[g][r] = docs[r]
        BY <1>4 DEF HTypeOK
  <2>3. \A j \in DOMAIN log' : j \notin i + 1 .. Len(log')
        BY <1>2, <2>1
  <2>4. QED
        BY <2>2, <2>3 DEF Unwinds, FirstTouch
<1>5. CASE g # h
  <2>1. line # SavePointLine(g)
        BY <1>5 DEF line, SavePointLine
  <2>2. i \in DOMAIN log /\ IsLastSave(log, i, g)
        BY <1>1, <1>2, <2>1, LastSaveStays
  <2>3. Kept(i, CollOf[r])
        BY <1>1, <1>2, <2>2 DEF Kept
  <2>4. Unwinds(log, i, Len(log), r, docs[r], saved[g][r])
        BY <1>1, <1>3, <2>2, <2>3 DEF SavepointsHold
  <2>5. ~Touches(line, r)
        BY TouchedRecords DEF line
  <2>6. saved'[g][r] = saved[g][r]
        BY <1>5 DEF HTypeOK
  <2>7. Unwinds(Append(log, line), i, Len(log) + 1, r, docs[r], saved[g][r])
        BY <1>1, <1>2, <2>2, <2>4, <2>5, UnwindsQuiet
  <2>8. QED
        BY <1>2, <2>6, <2>7
<1>6. QED
      BY <1>4, <1>5

\* A process that starts has an empty log, and one that ended owes nothing.
LEMMA EndsHold ==
    ASSUME phase' = "down" \/ log' = <<>>
    PROVE  SavepointsHold'
BY DEF SavepointsHold

\* Nothing that SavepointsHold reads changes.
LEMMA StutterHolds ==
    ASSUME SavepointsHold, UNCHANGED hvars
    PROVE  SavepointsHold'
BY DEF SavepointsHold, hvars, vars, store, disk, IsLastSave, Kept, Content, Torn, InTransaction

-----------------------------------------------------------------------------
(* RollbackOnItsWay *)

\* No rollback is under way after the step.
LEMMA NotOnItsWay ==
    ASSUME phase' # "rollback"
    PROVE  RollbackOnItsWay'
BY DEF RollbackOnItsWay

\* A rollback that starts has everything above its savepoint before it.
LEMMA RollbackSetsOut ==
    ASSUME WalInv, SavepointsHold, phase = "idle", NEW h \in Hashes, TryRollback(h),
           log' = log, docs' = docs, saved' = saved, dropped' = dropped, query' = query
    PROVE  RollbackOnItsWay'
<1>1. CASE h \in rolled \/ inUse = None
      BY <1>1 DEF TryRollback, RollbackOnItsWay
<1>2. CASE ~(h \in rolled \/ inUse = None)
  <2>1. PICK t \in 0 .. Len(log) :
           /\ RollbackTarget(log, h, t)
           /\ rolled' = rolled \cup PassedHashes(log, h, t)
           /\ job' = [hash |-> h, target |-> t, at |-> Len(log),
                      again |-> TwoChanges(log, t), step |-> "next", db |-> inUse]
        BY <1>2 DEF TryRollback
  <2>2. job'.target = t /\ job'.at = Len(log) /\ job'.hash = h
        BY <2>1
  <2>3. log \in Seq(Lines) /\ DOMAIN log = 1 .. Len(log) /\ Len(log) \in Nat
        BY DEF WalInv, TypeOK
  <2>4. ASSUME NEW g \in Hashes \ rolled', NEW i \in DOMAIN log, IsLastSave(log, i, g)
        PROVE  i <= t
    <3>1. CASE IsLastSave(log, t, h)
          BY <2>1, <2>3, <2>4, <3>1 DEF PassedHashes, IsLastSave
    <3>2. CASE t = Len(log)
          BY <2>3, <3>2
    <3>3. QED
          BY <2>1, <3>1, <3>2 DEF RollbackTarget
  <2>5. ASSUME t # 0, log[t] = SavePointLine(h), NEW r \in Rids, Kept(t, CollOf[r])'
        PROVE  Unwinds(log, t, Len(log), r, docs[r], saved[h][r])
    <3>1. t \in DOMAIN log /\ IsLastSave(log, t, h)
          BY <2>1, <2>3, <2>5 DEF RollbackTarget
    <3>2. Kept(t, CollOf[r])
          BY <2>5 DEF Kept
    <3>3. Content(r) = docs[r]
          BY DocumentWalAssumption DEF Content, Torn, InTransaction
    <3>4. QED
          BY <1>2, <3>1, <3>2, <3>3 DEF SavepointsHold
  <2>6. QED
        BY <2>2, <2>4, <2>5 DEF RollbackOnItsWay
<1>3. QED
      BY <1>1, <1>2

\* A step of a rollback: what was to be restored still is.
LEMMA OnItsWay ==
    ASSUME RollbackOnItsWay, phase = "rollback", log' = log, saved' = saved,
           dropped' = dropped, query' = query, rolled \subseteq rolled',
           job'.target = job.target, job'.hash = job.hash,
           \A v : \A r \in Rids : Unwinds(log, job.target, job.at, r, docs[r], v) =>
                                 Unwinds(log, job.target, job'.at, r, docs'[r], v)
    PROVE  RollbackOnItsWay'
<1>1. \A i, c : Kept(i, c)' => Kept(i, c)
      BY DEF Kept
<1>2. \A h \in Hashes \ rolled', i \in DOMAIN log : IsLastSave(log, i, h) => i <= job.target
      BY DEF RollbackOnItsWay
<1>3. QED
      BY <1>1, <1>2 DEF RollbackOnItsWay

\* The line under the cursor is done: it leaves its record as it was before it.
LEMMA DoneUnwinds ==
    ASSUME WalInv, phase \in {"rollback", "recover"}, job.at > job.target, IsChange(JobLine),
           LineDone, docs' = [docs EXCEPT ![JobLine.rid] = JobLine.before], NEW r \in Rids, NEW v,
           Unwinds(JobLog, job.target, job.at, r, docs[r], v)
    PROVE  Unwinds(JobLog, job.target, job'.at, r, docs'[r], v)
<1> DEFINE lo == job.target
           hi == job.at
           l  == JobLog
<1>1. /\ lo \in Nat /\ hi \in Nat /\ lo < hi /\ l \in Seq(Lines) /\ hi \in DOMAIN l
      /\ JobLine = l[hi] /\ docs \in [Rids -> Cells]
      BY DueLine DEF WalInv, TypeOK, JobLine
<1>2. DOMAIN l \subseteq Nat /\ \A j \in lo + 1 .. hi : j \in DOMAIN l
      BY <1>1
<1>3. job'.at = hi \/ job'.at = hi - 1
      BY DoneLine
<1>4. Unwinds(l, lo, hi, r, docs[r], v)
      OBVIOUS
<1> HIDE DEF lo, hi, l
<1>5. CASE r = JobLine.rid
  <2>1. Touches(l[hi], r) /\ docs'[r] = l[hi].before
        BY <1>1, <1>5 DEF Touches
  <2>2. hi \in lo + 1 .. hi
        BY <1>1
  <2>3. Unwinds(l, lo, hi, r, docs'[r], v)
        BY <1>1, <1>4, <2>1, <2>2, UnwindsTouched
  <2>4. Unwinds(l, lo, hi - 1, r, l[hi].before, v)
        BY <1>1, <1>2, <1>4, <2>1, UnwindsUndone
  <2>5. QED
        BY <1>3, <2>1, <2>3, <2>4 DEF lo, l
<1>6. CASE r # JobLine.rid
  <2>1. ~Touches(l[hi], r) /\ docs'[r] = docs[r]
        BY <1>1, <1>6 DEF Touches
  <2>2. Unwinds(l, lo, hi - 1, r, docs[r], v)
        BY <1>1, <1>4, <2>1, UnwindsPast
  <2>3. QED
        BY <1>3, <1>4, <2>1, <2>2 DEF lo, l
<1>7. QED
      BY <1>5, <1>6

\* The file of the line under the cursor is removed or made: it is still to be
\* written.
LEMMA DueUnwinds ==
    ASSUME WalInv, phase \in {"rollback", "recover"}, job.at > job.target, IsChange(JobLine),
           job'.at = job.at, NEW any, docs' = [docs EXCEPT ![JobLine.rid] = any],
           NEW r \in Rids, NEW v, Unwinds(JobLog, job.target, job.at, r, docs[r], v)
    PROVE  Unwinds(JobLog, job.target, job'.at, r, docs'[r], v)
<1>1. /\ job.at \in DOMAIN JobLog /\ JobLine = JobLog[job.at] /\ docs \in [Rids -> Cells]
      /\ job.at \in job.target + 1 .. job.at
      BY DueLine DEF WalInv, TypeOK, JobLine
<1>2. CASE r = JobLine.rid
      BY <1>1, <1>2, UnwindsTouched DEF Touches
<1>3. CASE r # JobLine.rid
      BY <1>1, <1>3
<1>4. QED
      BY <1>2, <1>3

(* The steps of an undoing, a rollback's or a recovery's: what the rest of the *)
(* lines gives back stays the same.                                            *)

\* A line that is no change has nothing to undo.
LEMMA UndoSkipsUnwinds ==
    ASSUME WalInv, UndoSkips
    PROVE  /\ job'.target = job.target /\ job'.hash = job.hash
           /\ \A v : \A r \in Rids : Unwinds(JobLog, job.target, job.at, r, docs[r], v) =>
                                    Unwinds(JobLog, job.target, job'.at, r, docs'[r], v)
<1>1. /\ job \in Jobs /\ job.at \in Nat /\ job.target \in Nat /\ job.target < job.at
      /\ JobLine = JobLog[job.at]
      BY DueLine DEF UndoSkips, Undoing, WalInv, TypeOK, JobLine
<1>2. job'.target = job.target /\ job'.hash = job.hash /\ job'.at = job.at - 1 /\ docs' = docs
      BY <1>1 DEF UndoSkips, Jobs
<1>3. \A r \in Rids : ~Touches(JobLog[job.at], r)
      BY <1>1 DEF UndoSkips, Touches
<1>4. QED
      BY <1>1, <1>2, <1>3, UnwindsPast

\* An insert is undone when its file is gone; another change is still due.
LEMMA UndoRemovesUnwinds ==
    ASSUME WalInv, UndoRemoves
    PROVE  /\ job'.target = job.target /\ job'.hash = job.hash
           /\ \A v : \A r \in Rids : Unwinds(JobLog, job.target, job.at, r, docs[r], v) =>
                                    Unwinds(JobLog, job.target, job'.at, r, docs'[r], v)
<1>1. /\ phase \in {"rollback", "recover"} /\ job \in Jobs /\ job.at > job.target
      /\ IsChange(JobLine) /\ JobLine \in Lines
      BY DueLine DEF UndoRemoves, Undoing, WalInv, TypeOK
<1>2. CASE JobLine.kind = "Insert"
  <2>1. JobLine.before = Absent
        BY <1>1, <1>2 DEF Lines, OpenLine, CloseLine
  <2>2. LineDone /\ docs' = [docs EXCEPT ![JobLine.rid] = JobLine.before]
        BY <1>2, <2>1 DEF UndoRemoves
  <2>3. job'.target = job.target /\ job'.hash = job.hash
        BY <1>1, <2>2, DoneLine
  <2>4. QED
        BY <1>1, <2>2, <2>3, DoneUnwinds
<1>3. CASE JobLine.kind # "Insert"
  <2>1. job'.target = job.target /\ job'.hash = job.hash /\ job'.at = job.at
        BY <1>1, <1>3 DEF UndoRemoves, Jobs
  <2>2. docs' = [docs EXCEPT ![JobLine.rid] = Absent]
        BY DEF UndoRemoves
  <2>3. QED
        BY <1>1, <2>1, <2>2, DueUnwinds
<1>4. QED
      BY <1>2, <1>3

\* The line under the cursor is still due.
LEMMA UndoCreatesUnwinds ==
    ASSUME WalInv, UndoCreates
    PROVE  /\ job'.target = job.target /\ job'.hash = job.hash
           /\ \A v : \A r \in Rids : Unwinds(JobLog, job.target, job.at, r, docs[r], v) =>
                                    Unwinds(JobLog, job.target, job'.at, r, docs'[r], v)
<1>1. phase \in {"rollback", "recover"} /\ job \in Jobs /\ job.at > job.target /\ IsChange(JobLine)
      BY DEF UndoCreates, Undoing, WalInv, TypeOK, JobSteps
<1>2. job'.target = job.target /\ job'.hash = job.hash /\ job'.at = job.at
      BY <1>1 DEF UndoCreates, Jobs
<1>3. docs' = [docs EXCEPT ![JobLine.rid] = Empty]
      BY DEF UndoCreates
<1>4. QED
      BY <1>1, <1>2, <1>3, DueUnwinds

\* The line under the cursor is undone.
LEMMA UndoWritesUnwinds ==
    ASSUME WalInv, UndoWrites
    PROVE  /\ job'.target = job.target /\ job'.hash = job.hash
           /\ \A v : \A r \in Rids : Unwinds(JobLog, job.target, job.at, r, docs[r], v) =>
                                    Unwinds(JobLog, job.target, job'.at, r, docs'[r], v)
<1>1. /\ phase \in {"rollback", "recover"} /\ job.at > job.target /\ IsChange(JobLine) /\ LineDone
      /\ docs' = [docs EXCEPT ![JobLine.rid] = JobLine.before]
      BY DEF UndoWrites, Undoing, WalInv, TypeOK, JobSteps
<1>2. job'.target = job.target /\ job'.hash = job.hash
      BY <1>1, DoneLine
<1>3. QED
      BY <1>1, <1>2, DoneUnwinds

\* A step that undoes leaves a rollback on its way.
LEMMA UndoesOnItsWay ==
    ASSUME WalInv, RollbackOnItsWay, saved' = saved,
           UndoSkips \/ UndoRemoves \/ UndoCreates \/ UndoWrites
    PROVE  RollbackOnItsWay'
<1>1. /\ job'.target = job.target /\ job'.hash = job.hash
      /\ \A v : \A r \in Rids : Unwinds(JobLog, job.target, job.at, r, docs[r], v) =>
                               Unwinds(JobLog, job.target, job'.at, r, docs'[r], v)
      BY UndoSkipsUnwinds, UndoRemovesUnwinds, UndoCreatesUnwinds, UndoWritesUnwinds
<1>2. /\ phase' = phase /\ log' = log /\ dropped' = dropped /\ query' = query /\ rolled' = rolled
      BY DEF UndoSkips, UndoRemoves, UndoCreates, UndoWrites, UnchangedByUndo
<1>3. CASE phase # "rollback"
      BY <1>2, <1>3, NotOnItsWay
<1>4. CASE phase = "rollback"
  <2>1. JobLog = log
        BY <1>4 DEF JobLog
  <2>2. QED
        BY <1>1, <1>2, <1>4, <2>1, OnItsWay
<1>5. QED
      BY <1>3, <1>4

\* The rollback's own savepoint is taken away too.
LEMMA RollbackMarksOnItsWay ==
    ASSUME WalInv, RollbackOnItsWay, saved' = saved, RollbackMarks
    PROVE  RollbackOnItsWay'
<1>1. job'.target = job.target /\ job'.hash = job.hash /\ job'.at = job.at
      BY DEF RollbackMarks, WalInv, TypeOK, Jobs
<1>2. QED
      BY <1>1, OnItsWay DEF RollbackMarks, UnchangedByUndo

-----------------------------------------------------------------------------
(* The steps together. *)

\* The history variables keep their types.
LEMMA HistoryTypes ==
    ASSUME WalInv, WalInv', HTypeOK, HNext
    PROVE  HTypeOK'
<1>1. docs \in [Rids -> Cells] /\ query \in Queries /\ QuerySteps
      BY DEF WalInv, TypeOK
<1>2. Forgotten \in [Rids -> Cells]
      BY DEF Forgotten, Cells, Rows
<1>3. Torn \in Rids \cup {None}
      BY <1>1 DEF Torn, QuerySteps
<1>4. \A h \in Hashes : [saved EXCEPT ![h] = docs] \in [Hashes -> [Rids -> Cells]]
      BY <1>1 DEF HTypeOK
<1>5. Owed \in [how : {"exit", "crash", "other"}, owed : [Rids -> Cells], torn : Rids \cup {None}]
      BY <1>2, <1>3 DEF Owed, HTypeOK
<1>6. QED
      BY <1>1, <1>2, <1>4, <1>5 DEF HNext, HTypeOK

\* Queries that start.
LEMMA OpenKeeps ==
    ASSUME HistoryInv, saved' = saved, Open
    PROVE  SavepointsHold' /\ RollbackOnItsWay'
<1>1. WalInv /\ SavepointsHold
      BY DEF HistoryInv
<1>2. SavepointsHold'
      BY <1>1, BeginQueryHolds, BeginFailsHolds DEF Open
<1>3. phase' # "rollback"
      BY DEF Open, BeginQuery, BeginFails
<1>4. QED
      BY <1>2, <1>3, NotOnItsWay

\* The steps of inserts, updates and deletes.
LEMMA WriteKeeps ==
    ASSUME HistoryInv, saved' = saved, Write
    PROVE  SavepointsHold' /\ RollbackOnItsWay'
<1>1. WalInv /\ SavepointsHold
      BY DEF HistoryInv
<1>2. SavepointsHold'
      BY <1>1, QueryFailsHolds, QueryClosesHolds, InsertLogsHolds, UpdateOpensHolds,
         DeleteLogsHolds, InsertWritesHolds, UpdateWritesHolds, InsertCreatesHolds,
         UpdateLogsHolds, UpdateThrowsHolds, DeleteRemovesHolds
      DEF Write
<1>3. phase' # "rollback"
      BY DEF Write, QueryFails, QueryCloses, InsertLogs, UpdateOpens, DeleteLogs, InsertWrites,
             UpdateWrites, InsertCreates, UpdateLogs, UpdateThrows, DeleteRemoves, In
<1>4. QED
      BY <1>2, <1>3, NotOnItsWay

\* Truncations and drops.
LEMMA EraseKeeps ==
    ASSUME HistoryInv, saved' = saved, Erase
    PROVE  SavepointsHold' /\ RollbackOnItsWay'
<1>1. WalInv /\ SavepointsHold
      BY DEF HistoryInv
<1>2. SavepointsHold'
      BY <1>1, BeginTruncateHolds, BeginDropHolds, EraseRemovesHolds, EraseEndsHolds DEF Erase
<1>3. phase' # "rollback"
      BY DEF Erase, BeginTruncate, BeginDrop, EraseRemoves, EraseEnds
<1>4. QED
      BY <1>2, <1>3, NotOnItsWay

\* Rollbacks that start, or are refused.
LEMMA RollbackKeeps ==
    ASSUME HistoryInv, saved' = saved, Rollback
    PROVE  SavepointsHold' /\ RollbackOnItsWay'
<1>1. WalInv /\ SavepointsHold
      BY DEF HistoryInv
<1>2. SavepointsHold'
      BY <1>1, RollbackToHolds, RollbackLastHolds DEF Rollback
<1>3. CASE \E h \in Hashes : RollbackTo(h)
      BY <1>1, <1>2, <1>3, RollbackSetsOut DEF RollbackTo, store
<1>4. CASE RollbackLast
  <2>1. history[Len(history)] \in Hashes
        BY <1>1, <1>4 DEF RollbackLast, WalInv, TypeOK
  <2>2. QED
        BY <1>1, <1>2, <1>4, <2>1, RollbackSetsOut DEF RollbackLast, store
<1>5. QED
      BY <1>2, <1>3, <1>4 DEF Rollback

\* The steps of an undoing.
LEMMA UndoKeeps ==
    ASSUME HistoryInv, saved' = saved, Undo
    PROVE  SavepointsHold' /\ RollbackOnItsWay'
<1>1. WalInv /\ SavepointsHold /\ RollbackOnItsWay
      BY DEF HistoryInv
<1>2. SavepointsHold'
      BY <1>1, UndoSkipsHolds, UndoRemovesHolds, UndoCreatesHolds, UndoWritesHolds,
         UndoThrowsHolds, RollbackMarksHolds, RollbackEndsHolds, RecoveryEndsHolds
      DEF Undo
<1>3. CASE UndoThrows \/ RollbackEnds \/ RecoveryEnds
      BY <1>2, <1>3, NotOnItsWay DEF UndoThrows, RollbackEnds, RecoveryEnds
<1>4. CASE UndoSkips \/ UndoRemoves \/ UndoCreates \/ UndoWrites \/ RollbackMarks
      BY <1>1, <1>2, <1>4, UndoesOnItsWay, RollbackMarksOnItsWay
<1>5. QED
      BY <1>2, <1>3, <1>4 DEF Undo

\* Before the first start no line is logged.
LEMMA InitHistoryInv == HInit => HistoryInv
<1> SUFFICES ASSUME HInit PROVE HistoryInv
    OBVIOUS
<1>1. WalInv /\ phase = "down"
      BY InitWalInv DEF HInit, Init
<1>2. HTypeOK
      BY <1>1 DEF HInit, HTypeOK, Forgotten, WalInv, TypeOK, Cells, Rows
<1>3. QED
      BY <1>1, <1>2 DEF HistoryInv, SavepointsHold, RollbackOnItsWay

\* A step of the process with its history is a step of the process.
LEMMA HNextIsNext == HNext => Next
BY DEF HNext, Next

\* Every step preserves HistoryInv.
LEMMA HistoryKeeps == HistoryInv /\ [HNext]_hvars => HistoryInv'
<1> SUFFICES ASSUME HistoryInv, [HNext]_hvars PROVE HistoryInv'
    OBVIOUS
<1>1. WalInv /\ HTypeOK /\ SavepointsHold /\ RollbackOnItsWay
      BY DEF HistoryInv
<1>2. WalInv'
      BY <1>1, NextKeeps, HNextIsNext DEF hvars
<1>3. CASE UNCHANGED hvars
  <2>1. HTypeOK'
        BY <1>1, <1>3 DEF HTypeOK, hvars
  <2>2. SavepointsHold'
        BY <1>1, <1>3, StutterHolds
  <2>3. RollbackOnItsWay'
        BY <1>1, <1>3 DEF RollbackOnItsWay, hvars, vars, store, disk, IsLastSave, Kept
  <2>4. QED
        BY <1>2, <2>1, <2>2, <2>3 DEF HistoryInv
<1>4. CASE HNext
  <2>1. HTypeOK'
        BY <1>1, <1>2, <1>4, HistoryTypes
  <2>2. SavepointsHold' /\ RollbackOnItsWay'
    <3>1. CASE \E h \in Hashes : SavePoint(h) /\ saved' = [saved EXCEPT ![h] = docs]
          BY <1>1, <3>1, SavePointHolds, NotOnItsWay DEF SavePoint
    <3>2. CASE saved' = saved /\ (Open \/ Write \/ Erase \/ Rollback \/ Undo)
          BY <3>2, OpenKeeps, WriteKeeps, EraseKeeps, RollbackKeeps, UndoKeeps
    <3>3. CASE Exit \/ Crash \/ RecoveryAborts
          BY <3>3, EndsHold, NotOnItsWay DEF Exit, Crash, RecoveryAborts, Stop
    <3>4. CASE \E p \in Products : Start(p)
          BY <3>4, EndsHold, NotOnItsWay DEF Start
    <3>5. CASE saved' = saved /\ \E d \in Dbs : UseDatabase(d)
          BY <1>1, <3>5, UseDatabaseHolds, NotOnItsWay DEF UseDatabase
    <3>6. QED
          BY <1>4, <3>1, <3>2, <3>3, <3>4, <3>5 DEF HNext
  <2>3. QED
        BY <1>2, <2>1, <2>2 DEF HistoryInv
<1>5. QED
      BY <1>3, <1>4

-----------------------------------------------------------------------------
\* The files, the log, the savepoints and a rollback under way agree in every
\* state: what the two theorems below rest on.
THEOREM HistoryInvariant == HSpec => []HistoryInv
<1>1. QED
      BY InitHistoryInv, HistoryKeeps, PTL DEF HSpec

\* Every savepoint of the session that no rollback has passed can be restored,
\* for any collections, documents, logs and numbers of rollbacks (savepoint,
\* rollback, and the writes that log before they change a file).
THEOREM SavepointsCanBeRestored == HSpec => []SavepointsHold
<1>1. HistoryInv => SavepointsHold
      BY DEF HistoryInv
<1>2. QED
      BY <1>1, HistoryInvariant, PTL

\* A rollback that has undone its lines has restored the documents its
\* savepoint saw, but for the collections truncated or dropped since
\* (rollback, rollbackLog, undoInsert, undoUpdate, undoDelete).
THEOREM RollbackIsCorrect == HSpec => []RollbackRestores
<1>1. HistoryInv => RollbackRestores
  <2> SUFFICES ASSUME HistoryInv, phase = "rollback", job.step = "saving", job.target # 0,
                      log[job.target] = SavePointLine(job.hash),
                      NEW r \in Rids, Kept(job.target, CollOf[r])
               PROVE  docs[r] = saved[job.hash][r]
      BY DEF RollbackRestores
  <2>1. job.at = job.target /\ job.target \in Nat
        BY DEF HistoryInv, WalInv, TypeOK, JobSteps, Jobs
  <2>2. Unwinds(log, job.target, job.target, r, docs[r], saved[job.hash][r])
        BY <2>1 DEF HistoryInv, RollbackOnItsWay
  <2>3. QED
        BY <2>1, <2>2, UnwindsDone
<1>2. QED
      BY <1>1, HistoryInvariant, PTL

-----------------------------------------------------------------------------
(* Recovery.  TransactionOnItsWay, by what a step does to the log and to one record. *)

\* No transaction is under way after the step.
LEMMA NoTransaction ==
    ASSUME phase' # "query" \/ query'.kind \notin Writers
    PROVE  TransactionOnItsWay'
BY DEF TransactionOnItsWay, InTransaction

\* The line that opens the transaction gives back what is there.
LEMMA TransactionOpened ==
    ASSUME TypeOK, Log(OpenLine), opened' = docs, \A r \in Rids : Content(r)' = docs[r]
    PROVE  TransactionOnItsWay'
<1>1. /\ log' \in Seq(Lines) /\ log' # <<>> /\ log'[Len(log')] = OpenLine
      /\ Len(log') \in DOMAIN log' /\ DOMAIN log' = 1 .. Len(log') /\ Len(log') \in Nat
      BY MadeLines, Logged
<1>2. IsOpen(log', Len(log'))
      BY <1>1 DEF IsOpen
<1>3. \A j \in DOMAIN log' : j \notin Len(log') + 1 .. Len(log')
      BY <1>1
<1>4. \A r \in Rids : Unwinds(log', Len(log'), Len(log'), r, Content(r)', opened'[r])
      BY <1>3 DEF Unwinds, FirstTouch
<1>5. QED
      BY <1>1, <1>2, <1>4 DEF TransactionOnItsWay

\* A change is logged: of a record whose content the line keeps.
LEMMA TransactionLogged ==
    ASSUME TypeOK, TransactionOnItsWay, InTransaction, opened' = opened,
           NEW line \in Lines, Log(line), line.kind \notin {"Open", "Close"},
           \A r \in Rids : \/ ~Touches(line, r) /\ Content(r)' = Content(r)
                           \/ Touches(line, r) /\ line.before = Content(r)
    PROVE  TransactionOnItsWay'
<1>1. PICK i \in DOMAIN log :
         /\ IsOpen(log, i)
         /\ \A r \in Rids : Unwinds(log, i, Len(log), r, Content(r), opened[r])
      BY DEF TransactionOnItsWay
<1>2. /\ log' = Append(log, line) /\ log \in Seq(Lines) /\ Len(log') = Len(log) + 1
      /\ DOMAIN log = 1 .. Len(log) /\ DOMAIN log' = 1 .. Len(log') /\ Len(log) \in Nat
      /\ log'[Len(log')] = line /\ \A j \in DOMAIN log : log'[j] = log[j]
      BY Logged DEF Log, TypeOK
<1>3. line \notin {OpenLine, CloseLine}
      BY DEF OpenLine, CloseLine
<1>4. i \in DOMAIN log' /\ IsOpen(log', i)
      BY <1>1, <1>2, <1>3 DEF IsOpen
<1>5. ASSUME NEW r \in Rids
      PROVE  Unwinds(log', i, Len(log'), r, Content(r)', opened'[r])
  <2>1. Unwinds(log, i, Len(log), r, Content(r), opened[r])
        BY <1>1
  <2>2. CASE ~Touches(line, r) /\ Content(r)' = Content(r)
        BY <1>2, <2>1, <2>2, UnwindsQuiet
  <2>3. CASE Touches(line, r) /\ line.before = Content(r)
        BY <1>2, <2>1, <2>3, UnwindsChange
  <2>4. QED
        BY <2>2, <2>3
<1>6. QED
      BY <1>4, <1>5 DEF TransactionOnItsWay

\* The document of the last line changes.
LEMMA TransactionChanged ==
    ASSUME TypeOK, TransactionOnItsWay, InTransaction, opened' = opened, log' = log,
           NEW s \in Rids, log # <<>>, Touches(log[Len(log)], s),
           \A r \in Rids : r # s => Content(r)' = Content(r)
    PROVE  TransactionOnItsWay'
<1>1. PICK i \in DOMAIN log :
         /\ IsOpen(log, i)
         /\ \A r \in Rids : Unwinds(log, i, Len(log), r, Content(r), opened[r])
      BY DEF TransactionOnItsWay
<1>2. Len(log) \in DOMAIN log /\ Len(log) \in i + 1 .. Len(log)
      BY <1>1, TouchedRecords DEF TypeOK, IsOpen
<1>3. \A r \in Rids : Unwinds(log, i, Len(log), r, Content(r)', opened[r])
      BY <1>1, <1>2, UnwindsTouched
<1>4. QED
      BY <1>1, <1>3 DEF TransactionOnItsWay

\* Nothing changes but the steps of the query.
LEMMA TransactionQuiet ==
    ASSUME TransactionOnItsWay, InTransaction, opened' = opened, log' = log,
           \A r \in Rids : Content(r)' = Content(r)
    PROVE  TransactionOnItsWay'
BY DEF TransactionOnItsWay

-----------------------------------------------------------------------------
(* TransactionOnItsWay, step by step. *)

\* A query that writes opens its transaction with what it finds; one that finds
\* no collection is over.
LEMMA OpenOpens ==
    ASSUME WalInv, Open, opened' = IF phase' = "query" THEN docs ELSE Forgotten
    PROVE  TransactionOnItsWay'
<1>1. ASSUME NEW kind \in Writers, NEW c \in Colls, NEW todo \in SUBSET Rids,
             BeginQuery(kind, c, todo)
      PROVE  TransactionOnItsWay'
  <2>1. TypeOK /\ Log(OpenLine) /\ opened' = docs /\ docs' = docs
        BY <1>1 DEF BeginQuery, WalInv
  <2>2. \A r \in Rids : Content(r)' = docs[r]
        BY <1>1, <2>1, DocumentWalAssumption DEF BeginQuery, Content, Torn, InTransaction, NoQuery
  <2>3. QED
        BY <2>1, <2>2, TransactionOpened
<1>2. ASSUME NEW c \in Colls, BeginFails(c)
      PROVE  TransactionOnItsWay'
      BY <1>2, NoTransaction DEF BeginFails
<1>3. QED
      BY <1>1, <1>2 DEF Open

\* The steps of inserts, updates and deletes.
LEMMA WriteGoesOn ==
    ASSUME WalInv, TransactionOnItsWay, Write,
           opened' = IF phase' = "query" THEN opened ELSE Forgotten
    PROVE  TransactionOnItsWay'
<1>0. TypeOK /\ QuerySteps
      BY DEF WalInv
<1>1. CASE QueryFails \/ QueryCloses \/ UpdateThrows
      BY <1>1, NoTransaction DEF QueryFails, QueryCloses, UpdateThrows
<1>2. ASSUME NEW r \in Rids, InsertLogs(r)
      PROVE  TransactionOnItsWay'
  <2>1. InTransaction /\ opened' = opened
        BY <1>2 DEF InsertLogs, In, InTransaction, Writers
  <2>2. QED
        BY <1>0, <1>2, <2>1, InsertLogsLine, TransactionLogged
<1>3. CASE UpdateLogs
  <2>1. InTransaction /\ opened' = opened
        BY <1>3 DEF UpdateLogs, In, InTransaction, Writers
  <2>2. QED
        BY <1>0, <1>3, <2>1, UpdateLogsLine, TransactionLogged
<1>4. ASSUME NEW r \in Rids, DeleteLogs(r)
      PROVE  TransactionOnItsWay'
  <2>1. InTransaction /\ opened' = opened
        BY <1>4 DEF DeleteLogs, In, InTransaction, Writers
  <2>2. QED
        BY <1>0, <1>4, <2>1, DeleteLogsLine, TransactionLogged
<1>5. ASSUME NEW r \in Rids, UpdateOpens(r)
      PROVE  TransactionOnItsWay'
  <2>1. InTransaction /\ opened' = opened /\ log' = log
        BY <1>5 DEF UpdateOpens, In, InTransaction, Writers
  <2>2. QED
        BY <1>5, <2>1, UpdateOpensContent, TransactionQuiet
<1>6. ASSUME InsertCreates \/ DeleteRemoves \/ \E v \in Values : InsertWrites(v) \/ UpdateWrites(v)
      PROVE  TransactionOnItsWay'
  <2>1. InTransaction /\ opened' = opened /\ log' = log
        BY <1>6 DEF InsertCreates, DeleteRemoves, InsertWrites, UpdateWrites, In, InTransaction, Writers
  <2>2. /\ query.rid \in Rids /\ log # <<>> /\ Touches(log[Len(log)], query.rid)
        /\ \A r \in Rids : r # query.rid => Content(r)' = Content(r)
        BY <1>6, InsertCreatesAbove, DeleteRemovesAbove, InsertWritesAbove, UpdateWritesAbove
  <2>3. QED
        BY <1>0, <2>1, <2>2, TransactionChanged
<1>7. QED
      BY <1>1, <1>2, <1>3, <1>4, <1>5, <1>6 DEF Write

\* A truncation or a drop is no transaction.
LEMMA EraseIsNone ==
    ASSUME WalInv, Erase
    PROVE  TransactionOnItsWay'
<1>1. phase' = "query" => query'.kind \in Erasers
      BY DEF WalInv, TypeOK, Queries, QuerySteps, Erase, BeginTruncate, BeginDrop, EraseRemoves,
             EraseEnds, NoQuery, Erasers
<1>2. QED
      BY <1>1, NoTransaction DEF Writers, Erasers

-----------------------------------------------------------------------------
(* CrashOwes and RecoveryOnItsWay. *)

\* The process is not down after the step, or owes no transaction.
LEMMA NothingOwed ==
    ASSUME phase' # "down" \/ last'.how # "crash"
    PROVE  CrashOwes'
BY DEF CrashOwes

\* No recovery is under way after the step.
LEMMA NotRecovering ==
    ASSUME phase' # "recover"
    PROVE  RecoveryOnItsWay'
BY DEF RecoveryOnItsWay

\* The process ends in the middle of a transaction, or of something else.
LEMMA EndOwes ==
    ASSUME WalInv, TransactionOnItsWay, Stop, last' = Owed
    PROVE  CrashOwes'
<1>1. CASE ~InTransaction
      BY <1>1, NothingOwed DEF Owed
<1>2. CASE InTransaction
  <2>1. PICK i \in DOMAIN log :
           /\ IsOpen(log, i)
           /\ \A r \in Rids : Unwinds(log, i, Len(log), r, Content(r), opened[r])
        BY <1>2 DEF TransactionOnItsWay
  <2>2. log' = log /\ docs' = docs /\ last'.owed = opened /\ last'.torn = Torn
        BY <1>2 DEF Stop, store, Owed
  <2>3. \A r \in Rids \ {Torn} : Unwinds(log, i, Len(log), r, docs[r], opened[r])
        BY <2>1 DEF Content
  <2>4. QED
        BY <2>1, <2>2, <2>3 DEF CrashOwes, Whole
<1>3. QED
      BY <1>1, <1>2

\* recover() finds the line that opened the transaction.
LEMMA OpenIsTarget ==
    ASSUME NEW l \in Seq(Lines), NEW i \in DOMAIN l, IsOpen(l, i),
           NEW t \in 0 .. Len(l), RecoveryTarget(l, t)
    PROVE  t = i
<1>1. Len(l) \in Nat /\ DOMAIN l = 1 .. Len(l)
      OBVIOUS
<1>2. OpenLine # CloseLine
      BY DEF OpenLine, CloseLine
<1>3. ~EndsClosed(l)
  <2> SUFFICES ASSUME l[Len(l)] = CloseLine PROVE FALSE
      BY DEF EndsClosed
  <2>1. Len(l) \in DOMAIN l /\ ~(Len(l) > i)
        BY <1>1 DEF IsOpen
  <2>2. Len(l) = i
        BY <1>1, <2>1
  <2>3. QED
        BY <1>2, <2>2 DEF IsOpen
<1>4. l[i] = OpenLine /\ \A j \in DOMAIN l : j > i => l[j] # OpenLine
      BY DEF IsOpen
<1>5. /\ t = 0 \/ (t \in DOMAIN l /\ l[t] = OpenLine)
      /\ \A j \in DOMAIN l : j > t => l[j] # OpenLine
      BY <1>3 DEF RecoveryTarget
<1>6. QED
      BY <1>1, <1>4, <1>5

\* A start takes over the log with what it owes.
LEMMA StartOwes ==
    ASSUME WalInv, CrashOwes, NEW p \in Products, Start(p), last' = last
    PROVE  RecoveryOnItsWay'
<1>1. phase = "down" /\ oldLog' = log /\ docs' = docs
      BY DEF Start, store
<1>2. CASE phase' # "recover" \/ last.how # "crash"
      BY <1>2 DEF RecoveryOnItsWay
<1>3. CASE phase' = "recover" /\ last.how = "crash"
  <2>1. PICK i \in DOMAIN log :
           /\ IsOpen(log, i)
           /\ \A r \in Whole : Unwinds(log, i, Len(log), r, docs[r], last.owed[r])
        BY <1>1, <1>3 DEF CrashOwes
  <2>2. PICK t \in 0 .. Len(log) :
           /\ RecoveryTarget(log, t)
           /\ job' = [NoJob EXCEPT !.target = t, !.at = Len(log)]
        BY <1>3, Zenon DEF Start
  <2>3. t = i
        BY <2>1, <2>2, OpenIsTarget DEF WalInv, TypeOK
  <2>4. job'.target = i /\ job'.at = Len(log)
        BY <2>2, <2>3 DEF NoJob
  <2>5. QED
        BY <1>1, <2>1, <2>4 DEF RecoveryOnItsWay, Whole
<1>4. QED
      BY <1>2, <1>3

\* A step that undoes leaves a recovery on its way.
LEMMA UndoesRecovering ==
    ASSUME WalInv, RecoveryOnItsWay, last' = last,
           UndoSkips \/ UndoRemoves \/ UndoCreates \/ UndoWrites
    PROVE  RecoveryOnItsWay'
<1>1. /\ job'.target = job.target
      /\ \A v : \A r \in Rids : Unwinds(JobLog, job.target, job.at, r, docs[r], v) =>
                               Unwinds(JobLog, job.target, job'.at, r, docs'[r], v)
      BY UndoSkipsUnwinds, UndoRemovesUnwinds, UndoCreatesUnwinds, UndoWritesUnwinds
<1>2. phase' = phase /\ oldLog' = oldLog
      BY DEF UndoSkips, UndoRemoves, UndoCreates, UndoWrites, UnchangedByUndo
<1>3. phase = "recover" => JobLog = oldLog
      BY DEF JobLog
<1>4. QED
      BY <1>1, <1>2, <1>3 DEF RecoveryOnItsWay, Whole

-----------------------------------------------------------------------------
(* The steps together. *)

\* Before the first start no process has ended.
LEMMA InitRecoveryInv == HInit => RecoveryInv
<1> SUFFICES ASSUME HInit PROVE RecoveryInv
    OBVIOUS
<1>1. WalInv /\ HTypeOK
      BY InitHistoryInv DEF HistoryInv
<1>2. phase = "down" /\ last.how = "other"
      BY DEF HInit, Init
<1>3. QED
      BY <1>1, <1>2 DEF RecoveryInv, TransactionOnItsWay, InTransaction, CrashOwes, RecoveryOnItsWay

\* Every step preserves RecoveryInv.
LEMMA RecoveryKeeps == RecoveryInv /\ [HNext]_hvars => RecoveryInv'
<1> SUFFICES ASSUME RecoveryInv, [HNext]_hvars PROVE RecoveryInv'
    OBVIOUS
<1>1. WalInv /\ HTypeOK /\ TransactionOnItsWay /\ CrashOwes /\ RecoveryOnItsWay
      BY DEF RecoveryInv
<1>2. WalInv'
      BY <1>1, NextKeeps, HNextIsNext DEF hvars
<1>3. CASE UNCHANGED hvars
  <2>1. HTypeOK'
        BY <1>1, <1>3 DEF HTypeOK, hvars
  <2>2. TransactionOnItsWay'
        BY <1>1, <1>3 DEF TransactionOnItsWay, InTransaction, Content, Torn, hvars, vars, store
  <2>3. CrashOwes' /\ RecoveryOnItsWay'
        BY <1>1, <1>3 DEF CrashOwes, RecoveryOnItsWay, Whole, hvars, vars, store, disk
  <2>4. QED
        BY <1>2, <2>1, <2>2, <2>3 DEF RecoveryInv
<1>4. CASE HNext
  <2>1. HTypeOK'
        BY <1>1, <1>2, <1>4, HistoryTypes
  <2>2. TransactionOnItsWay' /\ CrashOwes' /\ RecoveryOnItsWay'
    <3>1. CASE \E h \in Hashes : SavePoint(h)
          BY <3>1, NoTransaction, NothingOwed, NotRecovering DEF SavePoint
    <3>2. CASE Open /\ opened' = (IF phase' = "query" THEN docs ELSE Forgotten)
      <4>1. phase' \notin {"down", "recover"}
            BY <3>2 DEF Open, BeginQuery, BeginFails
      <4>2. QED
            BY <1>1, <3>2, <4>1, OpenOpens, NothingOwed, NotRecovering
    <3>3. CASE Write /\ opened' = (IF phase' = "query" THEN opened ELSE Forgotten)
      <4>1. phase' \notin {"down", "recover"}
            BY <3>3 DEF Write, QueryFails, QueryCloses, InsertLogs, UpdateOpens, DeleteLogs,
                        InsertWrites, UpdateWrites, InsertCreates, UpdateLogs, UpdateThrows,
                        DeleteRemoves, In
      <4>2. QED
            BY <1>1, <3>3, <4>1, WriteGoesOn, NothingOwed, NotRecovering
    <3>4. CASE Exit /\ last' = [how |-> "exit", owed |-> docs, torn |-> None]
          BY <3>4, NoTransaction, NothingOwed, NotRecovering DEF Exit, Stop
    <3>5. CASE (Crash \/ RecoveryAborts) /\ last' = Owed
      <4>1. Stop /\ phase' = "down"
            BY <3>5 DEF Crash, RecoveryAborts, Stop
      <4>2. QED
            BY <1>1, <3>5, <4>1, NoTransaction, EndOwes, NotRecovering
    <3>6. CASE Erase
      <4>1. phase' \notin {"down", "recover"}
            BY <3>6 DEF Erase, BeginTruncate, BeginDrop, EraseRemoves, EraseEnds
      <4>2. QED
            BY <1>1, <3>6, <4>1, EraseIsNone, NothingOwed, NotRecovering
    <3>7. CASE Rollback
      <4>1. phase' \in {"idle", "rollback"}
            BY <3>7 DEF Rollback, RollbackTo, RollbackLast, TryRollback
      <4>2. QED
            BY <4>1, NoTransaction, NothingOwed, NotRecovering
    <3>8. CASE UndoThrows \/ RollbackMarks \/ RollbackEnds \/ RecoveryEnds
      <4>1. phase' \in {"idle", "rollback"}
            BY <3>8 DEF UndoThrows, RollbackMarks, RollbackEnds, RecoveryEnds
      <4>2. QED
            BY <4>1, NoTransaction, NothingOwed, NotRecovering
    <3>9. CASE (UndoSkips \/ UndoRemoves \/ UndoCreates \/ UndoWrites) /\ last' = last
      <4>1. phase' \in {"rollback", "recover"}
            BY <3>9 DEF UndoSkips, UndoRemoves, UndoCreates, UndoWrites, Undoing
      <4>2. QED
            BY <1>1, <3>9, <4>1, NoTransaction, NothingOwed, UndoesRecovering
    <3>10. CASE last' = last /\ \E p \in Products : Start(p)
      <4>1. phase' \in {"idle", "recover"}
            BY <3>10 DEF Start
      <4>2. QED
            BY <1>1, <3>10, <4>1, NoTransaction, NothingOwed, StartOwes
    <3>11. CASE \E d \in Dbs : UseDatabase(d)
          BY <3>11, NoTransaction, NothingOwed, NotRecovering DEF UseDatabase
    <3>12. QED
          BY <1>4, <3>1, <3>2, <3>3, <3>4, <3>5, <3>6, <3>7, <3>8, <3>9, <3>10, <3>11
          DEF HNext, Undo
  <2>3. QED
        BY <1>2, <2>1, <2>2 DEF RecoveryInv
<1>5. QED
      BY <1>3, <1>4

-----------------------------------------------------------------------------
\* A transaction's log gives back what the transaction found: while it is
\* written, after a crash, and while the next start undoes it (openTransaction,
\* the writes of DocumentManager, recover).
THEOREM RecoveryInvariant == HSpec => []RecoveryInv
<1>1. QED
      BY InitRecoveryInv, RecoveryKeeps, PTL DEF HSpec

\* A recovery that runs to its end after a crash within a transaction has given
\* every document, but for one truncated and not yet logged, the content the
\* transaction found, for any collections, documents and logs (recover).
THEOREM RecoveryIsCorrect == HSpec => []RecoveryRestores
<1>1. RecoveryInv => RecoveryRestores
  <2> SUFFICES ASSUME RecoveryInv, Recovered, last.how = "crash", NEW r \in Rids, r # last.torn
               PROVE  docs[r] = last.owed[r]
      BY DEF RecoveryRestores
  <2>1. phase = "recover" /\ job.at = job.target /\ job.target \in Nat
        BY DEF Recovered, RecoveryInv, WalInv, TypeOK, Jobs
  <2>2. Unwinds(oldLog, job.target, job.target, r, docs[r], last.owed[r])
        BY <2>1 DEF RecoveryInv, RecoveryOnItsWay, Whole
  <2>3. QED
        BY <2>1, <2>2, UnwindsDone
<1>2. QED
      BY <1>1, RecoveryInvariant, PTL
=============================================================================
