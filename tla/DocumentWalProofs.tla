-------------------------- MODULE DocumentWalProofs --------------------------
(***************************************************************************)
(* Lemmas about log lines and about what undoing a part of a log leaves in *)
(* a record; and DocumentWal is type correct: WalInv holds initially and   *)
(* every step preserves it.                                                *)
(***************************************************************************)
EXTENDS DocumentWal, SequenceTheorems, TLAPS

(* What is known of a line, so that no other proof unfolds the records. *)

\* Each line the code writes is a line of a log.
LEMMA MadeLines ==
    /\ OpenLine \in Lines /\ CloseLine \in Lines
    /\ \A h \in Hashes : SavePointLine(h) \in Lines
    /\ \A c \in Colls : TruncateLine(c) \in Lines
    /\ \A r \in Rids : InsertLine(r) \in Lines
    /\ \A r \in Rids, v \in Values : UpdateLine(r, v) \in Lines /\ DeleteLine(r, v) \in Lines
BY DEF Lines, OpenLine, CloseLine, SavePointLine, TruncateLine, InsertLine, UpdateLine, DeleteLine

\* A line that undo reads names a record and a content to leave in it.
LEMMA ChangeLines ==
    \A l \in Lines : IsChange(l) => l.rid \in Rids /\ l.before \in Rows
BY DEF Lines, OpenLine, CloseLine, IsChange, Rows

\* Which of the lines the code writes undo reads, and for which record.
LEMMA TouchedRecords ==
    /\ \A r : ~Touches(OpenLine, r) /\ ~Touches(CloseLine, r)
    /\ \A r, h : ~Touches(SavePointLine(h), r)
    /\ \A r, c : ~Touches(TruncateLine(c), r)
    /\ \A r, s : Touches(InsertLine(s), r) <=> r = s
    /\ \A r, s, v : Touches(UpdateLine(s, v), r) <=> r = s
    /\ \A r, s, v : Touches(DeleteLine(s, v), r) <=> r = s
BY DEF Touches, IsChange, OpenLine, CloseLine, SavePointLine, TruncateLine, InsertLine,
       UpdateLine, DeleteLine

\* Log appends one line and keeps the others.
LEMMA Appended ==
    ASSUME NEW l \in Seq(Lines), NEW line \in Lines
    PROVE  /\ Append(l, line) \in Seq(Lines)
           /\ Len(Append(l, line)) = Len(l) + 1
           /\ Append(l, line) # <<>>
           /\ Append(l, line)[Len(l) + 1] = line
           /\ \A i \in DOMAIN l : Append(l, line)[i] = l[i]
           /\ DOMAIN Append(l, line) = DOMAIN l \cup {Len(l) + 1}
           /\ DOMAIN l = 1 .. Len(l)
OBVIOUS

-----------------------------------------------------------------------------
(* Unwinds, as the log grows. *)

\* A line that changes another record, or none, changes nothing.
LEMMA UnwindsQuiet ==
    ASSUME NEW l \in Seq(Lines), NEW line \in Lines, NEW i \in DOMAIN l, NEW r, NEW now, NEW v,
           ~Touches(line, r), Unwinds(l, i, Len(l), r, now, v)
    PROVE  Unwinds(Append(l, line), i, Len(l) + 1, r, now, v)
<1> DEFINE m == Append(l, line)
<1>0. /\ Len(l) \in Nat /\ i \in 1 .. Len(l) /\ DOMAIN l = 1 .. Len(l) /\ DOMAIN m = 1 .. Len(l) + 1
      /\ m[Len(l) + 1] = line /\ \A j \in 1 .. Len(l) : m[j] = l[j]
      BY Appended
<1> HIDE DEF m
<1>1. ASSUME NEW j \in DOMAIN m, FirstTouch(m, i, Len(l) + 1, r, j)
      PROVE  m[j].before = v
  <2>1. j \in 1 .. Len(l) /\ FirstTouch(l, i, Len(l), r, j)
        BY <1>0, <1>1 DEF FirstTouch
  <2>2. QED
        BY <1>0, <2>1 DEF Unwinds
<1>2. ASSUME \A j \in DOMAIN m : j \in i + 1 .. Len(l) + 1 => ~Touches(m[j], r)
      PROVE  now = v
  <2>1. \A j \in DOMAIN l : j \in i + 1 .. Len(l) => ~Touches(l[j], r)
        BY <1>0, <1>2
  <2>2. QED
        BY <2>1 DEF Unwinds
<1>3. QED
      BY <1>1, <1>2 DEF Unwinds, m

\* A line that changes r and keeps its content restores it, whatever is then
\* written to r.
LEMMA UnwindsChange ==
    ASSUME NEW l \in Seq(Lines), NEW line \in Lines, NEW i \in DOMAIN l, NEW r, NEW now, NEW v,
           Touches(line, r), line.before = now, Unwinds(l, i, Len(l), r, now, v), NEW any
    PROVE  Unwinds(Append(l, line), i, Len(l) + 1, r, any, v)
<1> DEFINE m == Append(l, line)
<1>0. /\ Len(l) \in Nat /\ i \in 1 .. Len(l) /\ DOMAIN l = 1 .. Len(l) /\ DOMAIN m = 1 .. Len(l) + 1
      /\ m[Len(l) + 1] = line /\ \A j \in 1 .. Len(l) : m[j] = l[j]
      BY Appended
<1> HIDE DEF m
<1>1. ASSUME NEW j \in DOMAIN m, FirstTouch(m, i, Len(l) + 1, r, j)
      PROVE  m[j].before = v
  <2>1. CASE j \in 1 .. Len(l)
    <3>1. FirstTouch(l, i, Len(l), r, j)
          BY <1>0, <1>1, <2>1 DEF FirstTouch
    <3>2. QED
          BY <1>0, <2>1, <3>1 DEF Unwinds
  <2>2. CASE j = Len(l) + 1
    <3>1. \A k \in DOMAIN l : k \in i + 1 .. Len(l) => ~Touches(l[k], r)
          BY <1>0, <1>1, <2>2 DEF FirstTouch
    <3>2. QED
          BY <1>0, <2>2, <3>1 DEF Unwinds
  <2>3. QED
        BY <1>0, <2>1, <2>2
<1>2. ~ \A j \in DOMAIN m : j \in i + 1 .. Len(l) + 1 => ~Touches(m[j], r)
      BY <1>0
<1>3. QED
      BY <1>1, <1>2 DEF Unwinds, m

\* A record that is still to be undone may hold anything.
LEMMA UnwindsTouched ==
    ASSUME NEW l, NEW lo, NEW hi, NEW r, NEW now, NEW v, Unwinds(l, lo, hi, r, now, v),
           NEW j \in DOMAIN l, j \in lo + 1 .. hi, Touches(l[j], r), NEW any
    PROVE  Unwinds(l, lo, hi, r, any, v)
BY DEF Unwinds

(* Unwinds, as the cursor of an undoing comes down. *)

\* Undoing a line of another record, or skipping one, leaves r as it is.
LEMMA UnwindsPast ==
    ASSUME NEW l, NEW lo \in Nat, NEW hi \in Nat, lo < hi, NEW r, NEW now, NEW v,
           Unwinds(l, lo, hi, r, now, v), ~Touches(l[hi], r)
    PROVE  Unwinds(l, lo, hi - 1, r, now, v)
<1>1. \A j \in DOMAIN l : FirstTouch(l, lo, hi - 1, r, j) => FirstTouch(l, lo, hi, r, j)
      BY DEF FirstTouch
<1>2. (\A j \in DOMAIN l : j \in lo + 1 .. hi - 1 => ~Touches(l[j], r))
         => \A j \in DOMAIN l : j \in lo + 1 .. hi => ~Touches(l[j], r)
      OBVIOUS
<1>3. QED
      BY <1>1, <1>2 DEF Unwinds

\* Undoing a line of r leaves in r what the line had kept.
LEMMA UnwindsUndone ==
    ASSUME NEW l, NEW lo \in Nat, NEW hi \in Nat, lo < hi, hi \in DOMAIN l,
           DOMAIN l \subseteq Nat, \A j \in lo + 1 .. hi : j \in DOMAIN l,
           NEW r, NEW now, NEW v,
           Unwinds(l, lo, hi, r, now, v), Touches(l[hi], r)
    PROVE  Unwinds(l, lo, hi - 1, r, l[hi].before, v)
<1>1. \A j \in DOMAIN l : FirstTouch(l, lo, hi - 1, r, j) => FirstTouch(l, lo, hi, r, j)
      BY DEF FirstTouch
<1>2. (\A j \in DOMAIN l : j \in lo + 1 .. hi - 1 => ~Touches(l[j], r))
         => FirstTouch(l, lo, hi, r, hi)
      BY DEF FirstTouch
<1>3. QED
      BY <1>1, <1>2 DEF Unwinds

\* With nothing left to undo, r holds v.
LEMMA UnwindsDone ==
    ASSUME NEW l, NEW lo \in Nat, NEW r, NEW now, NEW v, Unwinds(l, lo, lo, r, now, v)
    PROVE  now = v
BY DEF Unwinds

\* A line that is no savepoint of h leaves the last one where it is.
LEMMA LastSaveStays ==
    ASSUME NEW l \in Seq(Lines), NEW line \in Lines, NEW h, NEW i,
           line # SavePointLine(h), IsLastSave(Append(l, line), i, h)
    PROVE  i \in DOMAIN l /\ IsLastSave(l, i, h)
<1> DEFINE m == Append(l, line)
<1>0. /\ Len(l) \in Nat /\ DOMAIN l = 1 .. Len(l) /\ DOMAIN m = 1 .. Len(l) + 1
      /\ m[Len(l) + 1] = line /\ \A j \in 1 .. Len(l) : m[j] = l[j]
      BY Appended
<1> HIDE DEF m
<1>1. IsLastSave(m, i, h)
      BY DEF m
<1>2. QED
      BY <1>0, <1>1 DEF IsLastSave

-----------------------------------------------------------------------------
(* Logging and type correctness. *)

\* What is known of wal.log when an action logs a line.
LEMMA Logged ==
    ASSUME TypeOK, NEW line \in Lines, Log(line)
    PROVE  /\ log' \in Seq(Lines) /\ log' # <<>>
           /\ Len(log') = Len(log) + 1 /\ Len(log) \in Nat
           /\ log'[Len(log')] = line
           /\ DOMAIN log = 1 .. Len(log) /\ DOMAIN log' = 1 .. Len(log')
           /\ \A i \in DOMAIN log : i \in DOMAIN log' /\ log'[i] = log[i] /\ log[i] \in Lines
           /\ \A i \in DOMAIN log' : i \in DOMAIN log \/ i = Len(log')
           /\ \A i \in DOMAIN log' : log'[i] \in Lines
BY Appended DEF TypeOK, Log

\* rollback() either refuses or starts with its cursor at the end of the log.
LEMMA RollbackStarts ==
    ASSUME TypeOK, phase = "idle", NEW h \in Hashes, TryRollback(h)
    PROVE  /\ rolled' \subseteq Hashes
           /\ job' \in Jobs
           /\ \/ phase' = "idle" /\ job' = job
              \/ /\ phase' = "rollback"
                 /\ job'.target \in 0 .. Len(log) /\ job'.at = Len(log)
                 /\ job'.step = "next" /\ job'.hash = h
<1>1. CASE h \in rolled \/ inUse = None
      BY <1>1 DEF TryRollback, TypeOK
<1>2. CASE ~(h \in rolled \/ inUse = None)
  <2>1. PICK t \in 0 .. Len(log) :
           /\ rolled' = rolled \cup PassedHashes(log, h, t)
           /\ phase' = "rollback"
           /\ job' = [hash |-> h, target |-> t, at |-> Len(log),
                      again |-> TwoChanges(log, t), step |-> "next", db |-> inUse]
        BY <1>2 DEF TryRollback
  <2>2. t \in Nat /\ Len(log) \in Nat /\ inUse \in Dbs \cup {None}
        BY DEF TypeOK
  <2>3. TwoChanges(log, t) \in BOOLEAN
        BY DEF TwoChanges
  <2>4. job' \in Jobs
        BY <2>1, <2>2, <2>3 DEF Jobs
  <2>5. PassedHashes(log, h, t) \subseteq Hashes
        BY DEF PassedHashes
  <2>6. QED
        BY <2>1, <2>2, <2>4, <2>5 DEF TypeOK
<1>3. QED
      BY <1>1, <1>2

\* The line the cursor is on, and what it names.
LEMMA DueLine ==
    ASSUME WalInv, phase \in {"rollback", "recover"}, job.at > job.target
    PROVE  /\ job.at \in Nat /\ job.target \in Nat
           /\ job.at - 1 \in Nat /\ job.at - 1 \in job.target .. Len(JobLog)
           /\ JobLog \in Seq(Lines) /\ job.at \in DOMAIN JobLog /\ JobLine \in Lines
           /\ IsChange(JobLine) =>
                 JobLine.rid \in Rids /\ JobLine.rid \in used /\ JobLine.before \in Rows
<1>1. TypeOK /\ KnownRids /\ JobSteps
      BY DEF WalInv
<1>2. job.at \in Nat /\ job.target \in Nat
      BY <1>1 DEF TypeOK, Jobs
<1>3. JobLog \in Seq(Lines)
      BY <1>1 DEF TypeOK, JobLog
<1>4. job.at \in 1 .. Len(JobLog) /\ Len(JobLog) \in Nat
      BY <1>1, <1>2, <1>3 DEF JobSteps
<1>5. JobLine \in Lines
      BY <1>3, <1>4 DEF JobLine
<1>6. IsChange(JobLine) => JobLine.rid \in used
      BY <1>1, <1>3, <1>4, <1>5, ChangeLines DEF KnownRids, JobLine, JobLog, Touches
<1>7. QED
      BY <1>2, <1>3, <1>4, <1>5, <1>6, ChangeLines

\* A line that is done leaves the cursor on it or on the one below.
LEMMA DoneLine ==
    ASSUME WalInv, phase \in {"rollback", "recover"}, job.at > job.target, LineDone
    PROVE  /\ job' \in Jobs
           /\ job'.step = "next" /\ job'.target = job.target /\ job'.hash = job.hash
           /\ job'.at \in {job.at, job.at - 1}
<1>1. job \in Jobs /\ job.at \in Nat /\ job.at - 1 \in Nat
      BY DueLine DEF WalInv, TypeOK
<1>2. CASE job.again
      BY <1>1, <1>2 DEF LineDone, Jobs
<1>3. CASE ~job.again
      BY <1>1, <1>3 DEF LineDone, Jobs
<1>4. QED
      BY <1>2, <1>3

-----------------------------------------------------------------------------
(* The initial states and, one lemma per action, the steps. *)

\* A new home, and one left by earlier sessions.
LEMMA InitWalInv == Init => WalInv
<1> SUFFICES ASSUME Init PROVE WalInv
    OBVIOUS
<1> USE WalLogAssumption, DocumentWalAssumption
<1>1. TypeOK
      BY DEF Init, TypeOK, Queries, Jobs, Cells, Rows, NoQuery, NoJob, Writers, Erasers
<1>2. KnownRids
      BY DEF Init, KnownRids
<1>3. QuerySteps
      BY DEF Init, QuerySteps, NoQuery, Writers, Erasers
<1>4. JobSteps
      BY DEF Init, JobSteps, NoJob
<1>5. QED
      BY <1>1, <1>2, <1>3, <1>4 DEF WalInv

\* A start: the log becomes the log before, and the cursor is put at its end.
LEMMA StartKeeps ==
    ASSUME WalInv, NEW p \in Products, Start(p)
    PROVE  WalInv'
<1>0. /\ TypeOK /\ KnownRids /\ QuerySteps /\ phase = "down"
      /\ log' = <<>> /\ oldLog' = log /\ rolled' = rolledDisk
      /\ flag' = IF flag = "missing" THEN "Y" ELSE flag
      /\ starts' = starts + 1 /\ product' = p
      /\ UNCHANGED <<docs, dropped, used, rolledDisk, history, inUse, query>>
      BY DEF WalInv, Start, store
<1>a. Len(log) \in Nat
      BY <1>0 DEF TypeOK
<1>1. KnownRids'
      BY <1>0 DEF TypeOK, KnownRids
<1>2. phase' \in {"idle", "recover"} => QuerySteps'
      BY <1>0, DocumentWalAssumption DEF QuerySteps, NoQuery, Writers, Erasers
<1>b. CASE phase' = "idle" /\ job' = NoJob
  <2>1. job' \in Jobs
        BY <1>b DEF NoJob, Jobs
  <2>2. TypeOK'
        BY <1>0, <1>b, <2>1 DEF TypeOK
  <2>3. JobSteps'
        BY <1>b DEF JobSteps
  <2>4. QED
        BY <1>1, <1>2, <1>b, <2>2, <2>3 DEF WalInv
<1>c. ASSUME NEW t \in 0 .. Len(log), phase' = "recover",
             job' = [NoJob EXCEPT !.target = t, !.at = Len(log)]
      PROVE  WalInv'
  <2>0. t \in Nat /\ t <= Len(log)
        BY <1>a
  <2>1. job' \in Jobs
        BY <1>a, <1>c, <2>0 DEF NoJob, Jobs
  <2>2. TypeOK'
        BY <1>0, <1>c, <2>1 DEF TypeOK
  <2>3. job'.target = t /\ job'.at = Len(log) /\ job'.step = "next" /\ JobLog' = log
        BY <1>0, <1>a, <1>c, <2>0 DEF NoJob, JobLog
  <2>4. JobSteps'
        BY <1>0, <1>a, <1>c, <2>0, <2>3 DEF JobSteps
  <2>5. QED
        BY <1>1, <1>2, <1>c, <2>2, <2>4 DEF WalInv
<1>3. QED
      BY <1>b, <1>c, Zenon DEF Start

\* An exit at the prompt.
LEMMA ExitKeeps ==
    ASSUME WalInv, Exit
    PROVE  WalInv'
<1>0. TypeOK /\ KnownRids /\ QuerySteps /\ JobSteps
      BY DEF WalInv
<1>1. TypeOK'
      BY <1>0, WalLogAssumption, DocumentWalAssumption
         DEF Exit, Stop, store, disk, TypeOK, Cells, Rows, NoQuery, Queries, NoJob,
             Jobs
<1>2. KnownRids'
      BY <1>0 DEF Exit, Stop, store, disk, KnownRids
<1>3. QuerySteps'
      BY <1>0, DocumentWalAssumption DEF Exit, Stop, QuerySteps, NoQuery, Writers, Erasers, store
<1>4. JobSteps'
      BY <1>0 DEF Exit, Stop, JobSteps
<1>5. QED
      BY <1>1, <1>2, <1>3, <1>4 DEF WalInv

\* A crash.
LEMMA CrashKeeps ==
    ASSUME WalInv, Crash
    PROVE  WalInv'
<1>0. TypeOK /\ KnownRids /\ QuerySteps /\ JobSteps
      BY DEF WalInv
<1>1. TypeOK'
      BY <1>0, WalLogAssumption, DocumentWalAssumption
         DEF Crash, Stop, store, disk, TypeOK, Cells, Rows, NoQuery, Queries, NoJob,
             Jobs
<1>2. KnownRids'
      BY <1>0 DEF Crash, Stop, store, disk, KnownRids
<1>3. QuerySteps'
      BY <1>0, DocumentWalAssumption DEF Crash, Stop, QuerySteps, NoQuery, Writers, Erasers, store
<1>4. JobSteps'
      BY <1>0 DEF Crash, Stop, JobSteps
<1>5. QED
      BY <1>1, <1>2, <1>3, <1>4 DEF WalInv

\* useDatabase.
LEMMA UseDatabaseKeeps ==
    ASSUME WalInv, NEW d \in Dbs, UseDatabase(d)
    PROVE  WalInv'
<1>0. TypeOK /\ KnownRids /\ QuerySteps /\ JobSteps
      BY DEF WalInv
<1>1. TypeOK'
      BY <1>0, WalLogAssumption, DocumentWalAssumption
         DEF UseDatabase, store, disk, TypeOK, Cells, Rows
<1>2. KnownRids'
      BY <1>0 DEF UseDatabase, store, disk, KnownRids
<1>3. QuerySteps'
      BY <1>0, DocumentWalAssumption DEF UseDatabase, QuerySteps, NoQuery, Writers, Erasers, store
<1>4. JobSteps'
      BY <1>0 DEF UseDatabase, JobSteps, JobLog, JobLine
<1>5. QED
      BY <1>1, <1>2, <1>3, <1>4 DEF WalInv

\* openTransaction and the listing of the collection.
LEMMA BeginQueryKeeps ==
    ASSUME WalInv, NEW kind \in Writers, NEW c \in Colls, NEW todo \in SUBSET Rids, BeginQuery(kind, c, todo)
    PROVE  WalInv'
<1>0. TypeOK /\ KnownRids /\ QuerySteps /\ JobSteps
      BY DEF WalInv
<1>1. TypeOK'
  <2>1. query' \in Queries
        BY <1>0, WalLogAssumption, DocumentWalAssumption
           DEF BeginQuery, NoQuery, TypeOK, Queries, Rows
  <2>2. log' \in Seq(Lines)
        BY <1>0, MadeLines, Logged DEF BeginQuery
  <2>3. QED
        BY <1>0, <2>1, <2>2 DEF BeginQuery, In, TypeOK, UnchangedByWrites, disk
<1>2. KnownRids'
      BY <1>0, MadeLines, Logged, TouchedRecords DEF BeginQuery, UnchangedByWrites, disk, KnownRids
<1>3. QuerySteps'
      BY <1>0, MadeLines, Logged, TouchedRecords, DocumentWalAssumption
         DEF BeginQuery, Listed, DocsOf, QuerySteps, NoQuery, Writers, Erasers,
             TypeOK, Cells, Rows
<1>4. JobSteps'
      BY <1>0 DEF BeginQuery, JobSteps
<1>5. QED
      BY <1>1, <1>2, <1>3, <1>4 DEF WalInv

\* openTransaction of a query that finds no collection.
LEMMA BeginFailsKeeps ==
    ASSUME WalInv, NEW c \in Colls, BeginFails(c)
    PROVE  WalInv'
<1>0. TypeOK /\ KnownRids /\ QuerySteps /\ JobSteps
      BY DEF WalInv
<1>1. TypeOK'
      BY <1>0, MadeLines, Logged, WalLogAssumption, DocumentWalAssumption
         DEF BeginFails, UnchangedByWrites, disk, TypeOK, Cells, Rows, Queries
<1>2. KnownRids'
      BY <1>0, MadeLines, Logged, TouchedRecords DEF BeginFails, UnchangedByWrites, disk, KnownRids
<1>3. QuerySteps'
      BY <1>0, MadeLines, Logged, TouchedRecords, DocumentWalAssumption
         DEF BeginFails, QuerySteps, NoQuery, Writers, Erasers
<1>4. JobSteps'
      BY <1>0 DEF BeginFails, JobSteps
<1>5. QED
      BY <1>1, <1>2, <1>3, <1>4 DEF WalInv

\* A query that ends by an exception between two records.
LEMMA QueryFailsKeeps ==
    ASSUME WalInv, QueryFails
    PROVE  WalInv'
<1>0. TypeOK /\ KnownRids /\ QuerySteps /\ JobSteps
      BY DEF WalInv
<1>1. TypeOK'
      BY <1>0, WalLogAssumption, DocumentWalAssumption
         DEF QueryFails, UnchangedByWrites, disk, TypeOK, Cells, Rows, Queries,
             NoQuery
<1>2. KnownRids'
      BY <1>0 DEF QueryFails, UnchangedByWrites, disk, KnownRids
<1>3. QuerySteps'
      BY <1>0, DocumentWalAssumption DEF QueryFails, QuerySteps, NoQuery, Writers, Erasers
<1>4. JobSteps'
      BY <1>0 DEF QueryFails, JobSteps
<1>5. QED
      BY <1>1, <1>2, <1>3, <1>4 DEF WalInv

\* closeTransaction.
LEMMA QueryClosesKeeps ==
    ASSUME WalInv, QueryCloses
    PROVE  WalInv'
<1>0. TypeOK /\ KnownRids /\ QuerySteps /\ JobSteps
      BY DEF WalInv
<1>1. TypeOK'
      BY <1>0, MadeLines, Logged, WalLogAssumption, DocumentWalAssumption
         DEF QueryCloses, UnchangedByWrites, disk, TypeOK, Cells, Rows, Queries,
             NoQuery
<1>2. KnownRids'
      BY <1>0, MadeLines, Logged, TouchedRecords DEF QueryCloses, UnchangedByWrites, disk, KnownRids
<1>3. QuerySteps'
      BY <1>0, MadeLines, Logged, TouchedRecords, DocumentWalAssumption
         DEF QueryCloses, QuerySteps, NoQuery, Writers, Erasers
<1>4. JobSteps'
      BY <1>0 DEF QueryCloses, JobSteps
<1>5. QED
      BY <1>1, <1>2, <1>3, <1>4 DEF WalInv

\* insert(): the log line,
LEMMA InsertLogsKeeps ==
    ASSUME WalInv, NEW r \in Rids, InsertLogs(r)
    PROVE  WalInv'
<1>0. TypeOK /\ KnownRids /\ QuerySteps /\ JobSteps
      BY DEF WalInv
<1>1. TypeOK'
  <2>1. query' \in Queries
        BY <1>0, WalLogAssumption, DocumentWalAssumption
           DEF InsertLogs, AtStep, TypeOK, Queries, Rows
  <2>2. log' \in Seq(Lines)
        BY <1>0, MadeLines, Logged DEF InsertLogs
  <2>3. QED
        BY <1>0, <2>1, <2>2 DEF InsertLogs, In, TypeOK, UnchangedByWrites, disk, Cells, Rows
<1>2. KnownRids'
      BY <1>0, MadeLines, Logged, TouchedRecords
         DEF InsertLogs, In, UnchangedByWrites, disk, KnownRids
<1>3. QuerySteps'
      BY <1>0, MadeLines, Logged, TouchedRecords, DocumentWalAssumption
         DEF InsertLogs, In, AtStep, QuerySteps, NoQuery, Writers, Erasers
<1>4. JobSteps'
      BY <1>0 DEF InsertLogs, In, JobSteps
<1>5. QED
      BY <1>1, <1>2, <1>3, <1>4 DEF WalInv

\* ... the file,
LEMMA InsertCreatesKeeps ==
    ASSUME WalInv, InsertCreates
    PROVE  WalInv'
<1>0. TypeOK /\ KnownRids /\ QuerySteps /\ JobSteps
      BY DEF WalInv
<1>1. TypeOK'
      BY <1>0, WalLogAssumption, DocumentWalAssumption
         DEF InsertCreates, In, AtStep, UnchangedByWrites, disk, TypeOK, Cells,
             Rows, Queries
<1>2. KnownRids'
      BY <1>0 DEF InsertCreates, In, UnchangedByWrites, disk, KnownRids, QuerySteps, TypeOK
<1>3. QuerySteps'
      BY <1>0, DocumentWalAssumption
         DEF InsertCreates, In, AtStep, QuerySteps, NoQuery, Writers, Erasers
<1>4. JobSteps'
      BY <1>0 DEF InsertCreates, In, JobSteps
<1>5. QED
      BY <1>1, <1>2, <1>3, <1>4 DEF WalInv

\* ... and its content.
LEMMA InsertWritesKeeps ==
    ASSUME WalInv, NEW v \in Values, InsertWrites(v)
    PROVE  WalInv'
<1>0. TypeOK /\ KnownRids /\ QuerySteps /\ JobSteps
      BY DEF WalInv
<1>1. TypeOK'
      BY <1>0, WalLogAssumption, DocumentWalAssumption
         DEF InsertWrites, In, NextRecord, UnchangedByWrites, disk, TypeOK, Cells,
             Rows, Queries
<1>2. KnownRids'
      BY <1>0 DEF InsertWrites, In, UnchangedByWrites, disk, KnownRids, QuerySteps, TypeOK
<1>3. QuerySteps'
      BY <1>0, DocumentWalAssumption
         DEF InsertWrites, In, NextRecord, QuerySteps, NoQuery, Writers, Erasers
<1>4. JobSteps'
      BY <1>0 DEF InsertWrites, In, JobSteps
<1>5. QED
      BY <1>1, <1>2, <1>3, <1>4 DEF WalInv

\* update(): the file is truncated while its record has no line yet,
LEMMA UpdateOpensKeeps ==
    ASSUME WalInv, NEW r \in Rids, UpdateOpens(r)
    PROVE  WalInv'
<1>0. TypeOK /\ KnownRids /\ QuerySteps /\ JobSteps
      BY DEF WalInv
<1>a. docs[r] \in Values
      BY <1>0, DocumentWalAssumption DEF UpdateOpens, In, QuerySteps
<1>1. TypeOK'
  <2>1. query' \in Queries
        BY <1>0, <1>a, WalLogAssumption, DocumentWalAssumption
           DEF UpdateOpens, In, TypeOK, Queries, Rows
  <2>2. log' \in Seq(Lines)
        BY <1>0, <1>a, <1>0 DEF UpdateOpens, TypeOK
  <2>3. QED
        BY <1>0, <2>1, <2>2 DEF UpdateOpens, In, TypeOK, UnchangedByWrites, disk, Cells
<1>2. KnownRids'
      BY <1>0, <1>a, WalLogAssumption
         DEF UpdateOpens, In, UnchangedByWrites, disk, KnownRids, TypeOK
<1>3. QuerySteps'
      BY <1>0, <1>a, DocumentWalAssumption
         DEF UpdateOpens, In, QuerySteps, NoQuery, Writers, Erasers, TypeOK, Queries
<1>4. JobSteps'
      BY <1>0 DEF UpdateOpens, In, JobSteps
<1>5. QED
      BY <1>1, <1>2, <1>3, <1>4 DEF WalInv

\* ... the log line,
LEMMA UpdateLogsKeeps ==
    ASSUME WalInv, UpdateLogs
    PROVE  WalInv'
<1>0. TypeOK /\ KnownRids /\ QuerySteps /\ JobSteps
      BY DEF WalInv
<1>1. TypeOK'
      BY <1>0, MadeLines, Logged, DocumentWalAssumption
         DEF UpdateLogs, In, AtStep, UnchangedByWrites, disk, TypeOK, Queries,
             QuerySteps
<1>2. KnownRids'
  <2>0. UpdateLine(query.rid, query.old) \in Lines /\ query.rid \in Rids
        BY <1>0, MadeLines DEF UpdateLogs, In, QuerySteps
  <2>1. query.rid \in used
        BY <1>0, DocumentWalAssumption DEF KnownRids, UpdateLogs, In, QuerySteps, Rows
  <2>2. \A r \in Rids \ used : ~Touches(log'[Len(log')], r)
        BY <1>0, <2>0, <2>1, Logged, TouchedRecords DEF UpdateLogs
  <2>3. QED
        BY <1>0, <2>0, <2>2, Logged DEF KnownRids, UpdateLogs, UnchangedByWrites, disk
<1>3. QuerySteps'
      BY <1>0, MadeLines, Logged, TouchedRecords, DocumentWalAssumption
         DEF UpdateLogs, In, AtStep, QuerySteps, NoQuery, Writers, Erasers
<1>4. JobSteps'
      BY <1>0 DEF UpdateLogs, In, JobSteps
<1>5. QED
      BY <1>1, <1>2, <1>3, <1>4 DEF WalInv

\* ... the new content,
LEMMA UpdateWritesKeeps ==
    ASSUME WalInv, NEW v \in Values, UpdateWrites(v)
    PROVE  WalInv'
<1>0. TypeOK /\ KnownRids /\ QuerySteps /\ JobSteps
      BY DEF WalInv
<1>1. TypeOK'
      BY <1>0, WalLogAssumption, DocumentWalAssumption
         DEF UpdateWrites, In, NextRecord, UnchangedByWrites, disk, TypeOK, Cells,
             Rows, Queries
<1>2. KnownRids'
      BY <1>0 DEF UpdateWrites, In, UnchangedByWrites, disk, KnownRids, QuerySteps, TypeOK
<1>3. QuerySteps'
      BY <1>0, DocumentWalAssumption
         DEF UpdateWrites, In, NextRecord, QuerySteps, NoQuery, Writers, Erasers
<1>4. JobSteps'
      BY <1>0 DEF UpdateWrites, In, JobSteps
<1>5. QED
      BY <1>1, <1>2, <1>3, <1>4 DEF WalInv

\* ... or the exception that leaves the file empty.
LEMMA UpdateThrowsKeeps ==
    ASSUME WalInv, UpdateThrows
    PROVE  WalInv'
<1>0. TypeOK /\ KnownRids /\ QuerySteps /\ JobSteps
      BY DEF WalInv
<1>1. TypeOK'
      BY <1>0, WalLogAssumption, DocumentWalAssumption
         DEF UpdateThrows, In, UnchangedByWrites, disk, TypeOK, Cells, Rows,
             Queries, NoQuery
<1>2. KnownRids'
      BY <1>0 DEF UpdateThrows, In, UnchangedByWrites, disk, KnownRids
<1>3. QuerySteps'
      BY <1>0, DocumentWalAssumption DEF UpdateThrows, In, QuerySteps, NoQuery, Writers, Erasers
<1>4. JobSteps'
      BY <1>0 DEF UpdateThrows, In, JobSteps
<1>5. QED
      BY <1>1, <1>2, <1>3, <1>4 DEF WalInv

\* deleteWhere(): the log line,
LEMMA DeleteLogsKeeps ==
    ASSUME WalInv, NEW r \in Rids, DeleteLogs(r)
    PROVE  WalInv'
<1>0. TypeOK /\ KnownRids /\ QuerySteps /\ JobSteps
      BY DEF WalInv
<1>a. docs[r] \in Values
      BY <1>0, DocumentWalAssumption DEF DeleteLogs, In, QuerySteps
<1>1. TypeOK'
  <2>1. query' \in Queries
        BY <1>0, <1>a, WalLogAssumption, DocumentWalAssumption
           DEF DeleteLogs, AtStep, TypeOK, Queries, Rows
  <2>2. log' \in Seq(Lines)
        BY <1>0, <1>a, MadeLines, Logged DEF DeleteLogs
  <2>3. QED
        BY <1>0, <2>1, <2>2 DEF DeleteLogs, In, TypeOK, UnchangedByWrites, disk
<1>2. KnownRids'
      BY <1>0, <1>a, MadeLines, Logged, TouchedRecords, WalLogAssumption
         DEF DeleteLogs, In, UnchangedByWrites, disk, KnownRids
<1>3. QuerySteps'
      BY <1>0, <1>a, MadeLines, Logged, TouchedRecords, DocumentWalAssumption
         DEF DeleteLogs, In, AtStep, QuerySteps, NoQuery, Writers, Erasers, TypeOK,
             Queries
<1>4. JobSteps'
      BY <1>0 DEF DeleteLogs, In, JobSteps
<1>5. QED
      BY <1>1, <1>2, <1>3, <1>4 DEF WalInv

\* ... then the file is removed.
LEMMA DeleteRemovesKeeps ==
    ASSUME WalInv, DeleteRemoves
    PROVE  WalInv'
<1>0. TypeOK /\ KnownRids /\ QuerySteps /\ JobSteps
      BY DEF WalInv
<1>1. TypeOK'
      BY <1>0, WalLogAssumption, DocumentWalAssumption
         DEF DeleteRemoves, In, NextRecord, UnchangedByWrites, disk, TypeOK, Cells,
             Rows, Queries
<1>2. KnownRids'
      BY <1>0 DEF DeleteRemoves, In, UnchangedByWrites, disk, KnownRids, QuerySteps, TypeOK
<1>3. QuerySteps'
      BY <1>0, DocumentWalAssumption
         DEF DeleteRemoves, In, NextRecord, QuerySteps, NoQuery, Writers, Erasers
<1>4. JobSteps'
      BY <1>0 DEF DeleteRemoves, In, JobSteps
<1>5. QED
      BY <1>1, <1>2, <1>3, <1>4 DEF WalInv

\* Truncate::execute, up to the directory.
LEMMA BeginTruncateKeeps ==
    ASSUME WalInv, NEW c \in Colls, BeginTruncate(c)
    PROVE  WalInv'
<1>0. TypeOK /\ KnownRids /\ QuerySteps /\ JobSteps
      BY DEF WalInv
<1>a. /\ log' \in Seq(Lines) /\ log' # <<>> /\ log'[Len(log')] = TruncateLine(c)
      /\ phase \in {"idle"} /\ UNCHANGED <<docs, used>> /\ UnchangedByWrites
      BY <1>0, MadeLines, Logged DEF BeginTruncate
<1>b. \/ phase' = phase /\ query' = query
      \/ phase' = "query" /\ query' = [NoQuery EXCEPT !.kind = "Truncate", !.coll = c, !.todo = DocsOf(c)]
      BY DEF BeginTruncate
<1>c. DocsOf(c) \in SUBSET Rids /\ \A r \in DocsOf(c) : CollOf[r] = c
      BY DEF DocsOf
<1>1. TypeOK'
  <2>1. query' \in Queries
        BY <1>0, <1>b, <1>c DEF NoQuery, TypeOK, Queries, Rows, Erasers
  <2>2. QED
        BY <1>0, <1>a, <1>b, <2>1 DEF TypeOK, UnchangedByWrites, disk
<1>2. KnownRids'
      BY <1>0, MadeLines, Logged, TouchedRecords
         DEF BeginTruncate, UnchangedByWrites, disk, KnownRids
<1>3. QuerySteps'
  <2>1. CASE phase' = phase /\ query' = query
        BY <1>0, <1>a, <2>1, DocumentWalAssumption DEF QuerySteps, NoQuery, Writers, Erasers
  <2>2. CASE phase' = "query" /\ query' = [NoQuery EXCEPT !.kind = "Truncate", !.coll = c, !.todo = DocsOf(c)]
    <3>1. /\ query'.kind = "Truncate" /\ query'.coll = c /\ query'.todo = DocsOf(c)
          /\ query'.step = "next" /\ query'.rid = None
          BY <2>2 DEF NoQuery
    <3>2. QED
          BY <1>a, <1>c, <2>2, <3>1, DocumentWalAssumption DEF QuerySteps, Writers, Erasers
  <2>3. QED
        BY <1>b, <2>1, <2>2
<1>4. JobSteps'
      BY <1>0 DEF BeginTruncate, JobSteps
<1>5. QED
      BY <1>1, <1>2, <1>3, <1>4 DEF WalInv

\* dropCollection, up to the directory.
LEMMA BeginDropKeeps ==
    ASSUME WalInv, NEW c \in Colls, BeginDrop(c)
    PROVE  WalInv'
<1>0. TypeOK /\ KnownRids /\ QuerySteps /\ JobSteps
      BY DEF WalInv
<1>1. TypeOK'
  <2>1. query' \in Queries
        BY <1>0, WalLogAssumption, DocumentWalAssumption
           DEF BeginDrop, NoQuery, Erasers, DocsOf, TypeOK, Queries, Rows
  <2>2. log' \in Seq(Lines)
        BY <1>0, <1>0 DEF BeginDrop, TypeOK
  <2>3. QED
        BY <1>0, <2>1, <2>2 DEF BeginDrop, In, TypeOK, UnchangedByWrites, disk
<1>2. KnownRids'
      BY <1>0 DEF BeginDrop, UnchangedByWrites, disk, KnownRids
<1>3. QuerySteps'
      BY <1>0, DocumentWalAssumption DEF BeginDrop, DocsOf, QuerySteps, NoQuery, Writers, Erasers
<1>4. JobSteps'
      BY <1>0 DEF BeginDrop, JobSteps
<1>5. QED
      BY <1>1, <1>2, <1>3, <1>4 DEF WalInv

\* remove_all takes one file.
LEMMA EraseRemovesKeeps ==
    ASSUME WalInv, NEW r \in Rids, EraseRemoves(r)
    PROVE  WalInv'
<1>0. TypeOK /\ KnownRids /\ QuerySteps /\ JobSteps
      BY DEF WalInv
<1>1. TypeOK'
      BY <1>0, WalLogAssumption, DocumentWalAssumption
         DEF EraseRemoves, UnchangedByWrites, disk, TypeOK, Cells, Rows, Queries
<1>2. KnownRids'
      BY <1>0 DEF EraseRemoves, UnchangedByWrites, disk, KnownRids, QuerySteps
<1>3. QuerySteps'
      BY <1>0, DocumentWalAssumption DEF EraseRemoves, QuerySteps, NoQuery, Writers, Erasers
<1>4. JobSteps'
      BY <1>0 DEF EraseRemoves, JobSteps
<1>5. QED
      BY <1>1, <1>2, <1>3, <1>4 DEF WalInv

\* The end of a truncate or a drop.
LEMMA EraseEndsKeeps ==
    ASSUME WalInv, EraseEnds
    PROVE  WalInv'
<1>0. TypeOK /\ KnownRids /\ QuerySteps /\ JobSteps
      BY DEF WalInv
<1>1. TypeOK'
      BY <1>0, DocumentWalAssumption DEF EraseEnds, disk, TypeOK, NoQuery, Queries, Rows, QuerySteps
<1>2. KnownRids'
      BY <1>0 DEF EraseEnds, disk, KnownRids
<1>3. QuerySteps'
      BY <1>0, DocumentWalAssumption DEF EraseEnds, QuerySteps, NoQuery, Writers, Erasers
<1>4. JobSteps'
      BY <1>0 DEF EraseEnds, JobSteps
<1>5. QED
      BY <1>1, <1>2, <1>3, <1>4 DEF WalInv

\* savepoint and commit.
LEMMA SavePointKeeps ==
    ASSUME WalInv, NEW h \in Hashes, SavePoint(h)
    PROVE  WalInv'
<1>0. TypeOK /\ KnownRids /\ QuerySteps /\ JobSteps
      BY DEF WalInv
<1>1. TypeOK'
      BY <1>0, MadeLines, Logged, WalLogAssumption, DocumentWalAssumption
         DEF SavePoint, store, disk, TypeOK, Cells, Rows
<1>2. KnownRids'
      BY <1>0, MadeLines, Logged, TouchedRecords DEF SavePoint, store, disk, KnownRids
<1>3. QuerySteps'
      BY <1>0, MadeLines, Logged, TouchedRecords, DocumentWalAssumption
         DEF SavePoint, QuerySteps, NoQuery, Writers, Erasers, store
<1>4. JobSteps'
      BY <1>0 DEF SavePoint, JobSteps
<1>5. QED
      BY <1>1, <1>2, <1>3, <1>4 DEF WalInv

\* rollback with a hash.
LEMMA RollbackToKeeps ==
    ASSUME WalInv, NEW h \in Hashes, RollbackTo(h)
    PROVE  WalInv'
<1>0. TypeOK /\ KnownRids /\ QuerySteps /\ JobSteps
      BY DEF WalInv
<1>b. /\ rolled' \subseteq Hashes /\ job' \in Jobs
      /\ \/ phase' = "idle" /\ job' = job
         \/ /\ phase' = "rollback"
            /\ job'.target \in 0 .. Len(log) /\ job'.at = Len(log)
            /\ job'.step = "next" /\ job'.hash \in Hashes
      BY <1>0, RollbackStarts DEF RollbackTo
<1>1. TypeOK'
      BY <1>0, <1>b DEF RollbackTo, TypeOK, store, disk
<1>2. KnownRids'
      BY <1>0 DEF RollbackTo, KnownRids, store, disk
<1>3. QuerySteps'
      BY <1>0, <1>b DEF RollbackTo, QuerySteps, store
<1>4. JobSteps'
      BY <1>0, <1>b DEF RollbackTo, JobSteps, JobLog, TypeOK
<1>5. QED
      BY <1>1, <1>2, <1>3, <1>4 DEF WalInv

\* rollback without one.
LEMMA RollbackLastKeeps ==
    ASSUME WalInv, RollbackLast
    PROVE  WalInv'
<1>0. TypeOK /\ KnownRids /\ QuerySteps /\ JobSteps
      BY DEF WalInv
<1>a. history[Len(history)] \in Hashes /\ SubSeq(history, 1, Len(history) - 1) \in Seq(Hashes)
      BY <1>0 DEF RollbackLast, TypeOK
<1>b. /\ rolled' \subseteq Hashes /\ job' \in Jobs
      /\ \/ phase' = "idle" /\ job' = job
         \/ /\ phase' = "rollback"
            /\ job'.target \in 0 .. Len(log) /\ job'.at = Len(log)
            /\ job'.step = "next" /\ job'.hash \in Hashes
      BY <1>0, <1>a, RollbackStarts DEF RollbackLast
<1>1. TypeOK'
      BY <1>0, <1>a, <1>b DEF RollbackLast, TypeOK, store, disk
<1>2. KnownRids'
      BY <1>0 DEF RollbackLast, KnownRids, store, disk
<1>3. QuerySteps'
      BY <1>0, <1>b DEF RollbackLast, QuerySteps, store
<1>4. JobSteps'
      BY <1>0, <1>b DEF RollbackLast, JobSteps, JobLog, TypeOK
<1>5. QED
      BY <1>1, <1>2, <1>3, <1>4 DEF WalInv

\* A line that undo does not read.
LEMMA UndoSkipsKeeps ==
    ASSUME WalInv, UndoSkips
    PROVE  WalInv'
<1>0. TypeOK /\ KnownRids /\ QuerySteps /\ JobSteps
      BY DEF WalInv
<1>a. /\ phase \in {"rollback", "recover"} /\ job.at > job.target
      /\ UnchangedByUndo /\ phase' = phase /\ UNCHANGED <<rolledDisk, rolled, history>>
      /\ inUse' \in Dbs \cup {None}
      BY <1>0, DueLine, WalLogAssumption, DocumentWalAssumption DEF UndoSkips, Undoing, TypeOK
<1>b. /\ job.at \in Nat /\ job.target \in Nat /\ job.at - 1 \in Nat
      /\ job.at - 1 \in job.target .. Len(JobLog) /\ job.at \in job.target .. Len(JobLog)
      /\ IsChange(JobLine) => JobLine.rid \in Rids /\ JobLine.rid \in used /\ JobLine.before \in Rows
      BY <1>0, <1>a, DueLine DEF JobSteps
<1>c. /\ job' \in Jobs /\ job'.target = job.target /\ job'.hash = job.hash
      /\ job'.at \in {job.at, job.at - 1}
      /\ job'.step \in {"next", "removed", "created"}
      /\ job'.step # "next" => job'.at = job.at /\ IsChange(JobLine)
      BY <1>0, <1>a, <1>b DEF UndoSkips, Undoing, TypeOK, Jobs
<1>d. docs' \in [Rids -> Cells] /\ \A r \in Rids \ used : docs'[r] = docs[r]
      BY <1>0, <1>a, <1>b DEF UndoSkips, Undoing, JobSteps, TypeOK, Cells, Rows
<1>1. TypeOK'
      BY <1>0, <1>a, <1>c, <1>d DEF TypeOK, UnchangedByUndo
<1>2. KnownRids'
      BY <1>0, <1>a, <1>d DEF KnownRids, UnchangedByUndo
<1>3. QuerySteps'
      BY <1>0, <1>a DEF QuerySteps, NoQuery, UnchangedByUndo
<1>4. JobSteps'
      BY <1>0, <1>a, <1>b, <1>c DEF JobSteps, JobLog, JobLine, UnchangedByUndo
<1>5. QED
      BY <1>1, <1>2, <1>3, <1>4 DEF WalInv

\* undoInsert, and the removal in undoUpdate and undoDelete,
LEMMA UndoRemovesKeeps ==
    ASSUME WalInv, UndoRemoves
    PROVE  WalInv'
<1>0. TypeOK /\ KnownRids /\ QuerySteps /\ JobSteps
      BY DEF WalInv
<1>a. /\ phase \in {"rollback", "recover"} /\ job.at > job.target
      /\ UnchangedByUndo /\ phase' = phase /\ UNCHANGED <<rolledDisk, rolled, history>>
      /\ inUse' \in Dbs \cup {None}
      BY <1>0, DueLine, WalLogAssumption, DocumentWalAssumption DEF UndoRemoves, Undoing, TypeOK
<1>b. /\ job.at \in Nat /\ job.target \in Nat /\ job.at - 1 \in Nat
      /\ job.at - 1 \in job.target .. Len(JobLog) /\ job.at \in job.target .. Len(JobLog)
      /\ IsChange(JobLine) => JobLine.rid \in Rids /\ JobLine.rid \in used /\ JobLine.before \in Rows
      BY <1>0, <1>a, DueLine DEF JobSteps
<1>c. /\ job' \in Jobs /\ job'.target = job.target /\ job'.hash = job.hash
      /\ job'.at \in {job.at, job.at - 1}
      /\ job'.step \in {"next", "removed", "created"}
      /\ job'.step # "next" => job'.at = job.at /\ IsChange(JobLine)
  <2>1. CASE JobLine.kind = "Insert"
        BY <1>a, <2>1, DoneLine DEF UndoRemoves, Undoing
  <2>2. CASE JobLine.kind # "Insert"
        BY <1>0, <1>a, <1>b, <2>2 DEF UndoRemoves, Undoing, TypeOK, Jobs
  <2>3. QED
        BY <2>1, <2>2
<1>d. docs' \in [Rids -> Cells] /\ \A r \in Rids \ used : docs'[r] = docs[r]
      BY <1>0, <1>a, <1>b DEF UndoRemoves, Undoing, JobSteps, TypeOK, Cells, Rows
<1>1. TypeOK'
      BY <1>0, <1>a, <1>c, <1>d DEF TypeOK, UnchangedByUndo
<1>2. KnownRids'
      BY <1>0, <1>a, <1>d DEF KnownRids, UnchangedByUndo
<1>3. QuerySteps'
      BY <1>0, <1>a DEF QuerySteps, NoQuery, UnchangedByUndo
<1>4. JobSteps'
      BY <1>0, <1>a, <1>b, <1>c DEF JobSteps, JobLog, JobLine, UnchangedByUndo
<1>5. QED
      BY <1>1, <1>2, <1>3, <1>4 DEF WalInv

\* ... the new file,
LEMMA UndoCreatesKeeps ==
    ASSUME WalInv, UndoCreates
    PROVE  WalInv'
<1>0. TypeOK /\ KnownRids /\ QuerySteps /\ JobSteps
      BY DEF WalInv
<1>a. /\ phase \in {"rollback", "recover"} /\ job.at > job.target
      /\ UnchangedByUndo /\ phase' = phase /\ UNCHANGED <<rolledDisk, rolled, history>>
      /\ inUse' \in Dbs \cup {None}
      BY <1>0, DueLine, WalLogAssumption, DocumentWalAssumption DEF UndoCreates, Undoing, TypeOK
<1>b. /\ job.at \in Nat /\ job.target \in Nat /\ job.at - 1 \in Nat
      /\ job.at - 1 \in job.target .. Len(JobLog) /\ job.at \in job.target .. Len(JobLog)
      /\ IsChange(JobLine) => JobLine.rid \in Rids /\ JobLine.rid \in used /\ JobLine.before \in Rows
      BY <1>0, <1>a, DueLine DEF JobSteps
<1>c. /\ job' \in Jobs /\ job'.target = job.target /\ job'.hash = job.hash
      /\ job'.at \in {job.at, job.at - 1}
      /\ job'.step \in {"next", "removed", "created"}
      /\ job'.step # "next" => job'.at = job.at /\ IsChange(JobLine)
      BY <1>0, <1>a, <1>b DEF UndoCreates, Undoing, TypeOK, Jobs, JobSteps
<1>d. docs' \in [Rids -> Cells] /\ \A r \in Rids \ used : docs'[r] = docs[r]
      BY <1>0, <1>a, <1>b DEF UndoCreates, Undoing, JobSteps, TypeOK, Cells, Rows
<1>1. TypeOK'
      BY <1>0, <1>a, <1>c, <1>d DEF TypeOK, UnchangedByUndo
<1>2. KnownRids'
      BY <1>0, <1>a, <1>d DEF KnownRids, UnchangedByUndo
<1>3. QuerySteps'
      BY <1>0, <1>a DEF QuerySteps, NoQuery, UnchangedByUndo
<1>4. JobSteps'
      BY <1>0, <1>a, <1>b, <1>c DEF JobSteps, JobLog, JobLine, UnchangedByUndo
<1>5. QED
      BY <1>1, <1>2, <1>3, <1>4 DEF WalInv

\* ... and the content of the line.
LEMMA UndoWritesKeeps ==
    ASSUME WalInv, UndoWrites
    PROVE  WalInv'
<1>0. TypeOK /\ KnownRids /\ QuerySteps /\ JobSteps
      BY DEF WalInv
<1>a. /\ phase \in {"rollback", "recover"} /\ job.at > job.target
      /\ UnchangedByUndo /\ phase' = phase /\ UNCHANGED <<rolledDisk, rolled, history>>
      /\ inUse' \in Dbs \cup {None}
      BY <1>0, DueLine, WalLogAssumption, DocumentWalAssumption DEF UndoWrites, Undoing, TypeOK
<1>b. /\ job.at \in Nat /\ job.target \in Nat /\ job.at - 1 \in Nat
      /\ job.at - 1 \in job.target .. Len(JobLog) /\ job.at \in job.target .. Len(JobLog)
      /\ IsChange(JobLine) => JobLine.rid \in Rids /\ JobLine.rid \in used /\ JobLine.before \in Rows
      BY <1>0, <1>a, DueLine DEF JobSteps
<1>c. /\ job' \in Jobs /\ job'.target = job.target /\ job'.hash = job.hash
      /\ job'.at \in {job.at, job.at - 1}
      /\ job'.step \in {"next", "removed", "created"}
      /\ job'.step # "next" => job'.at = job.at /\ IsChange(JobLine)
      BY <1>a, DoneLine DEF UndoWrites, Undoing
<1>d. docs' \in [Rids -> Cells] /\ \A r \in Rids \ used : docs'[r] = docs[r]
      BY <1>0, <1>a, <1>b DEF UndoWrites, Undoing, JobSteps, TypeOK, Cells, Rows
<1>1. TypeOK'
      BY <1>0, <1>a, <1>c, <1>d DEF TypeOK, UnchangedByUndo
<1>2. KnownRids'
      BY <1>0, <1>a, <1>d DEF KnownRids, UnchangedByUndo
<1>3. QuerySteps'
      BY <1>0, <1>a DEF QuerySteps, NoQuery, UnchangedByUndo
<1>4. JobSteps'
      BY <1>0, <1>a, <1>b, <1>c DEF JobSteps, JobLog, JobLine, UnchangedByUndo
<1>5. QED
      BY <1>1, <1>2, <1>3, <1>4 DEF WalInv

\* A line of a dropped collection, in a rollback,
LEMMA UndoThrowsKeeps ==
    ASSUME WalInv, UndoThrows
    PROVE  WalInv'
<1>0. TypeOK /\ KnownRids /\ QuerySteps /\ JobSteps
      BY DEF WalInv
<1>1. TypeOK'
      BY <1>0, WalLogAssumption, DocumentWalAssumption
         DEF UndoThrows, Undoing, UnchangedByUndo, TypeOK, Cells, Rows, NoJob, Jobs
<1>2. KnownRids'
      BY <1>0 DEF UndoThrows, Undoing, UnchangedByUndo, KnownRids
<1>3. QuerySteps'
      BY <1>0, DocumentWalAssumption
         DEF UndoThrows, Undoing, QuerySteps, NoQuery, Writers, Erasers,
             UnchangedByUndo
<1>4. JobSteps'
      BY <1>0 DEF UndoThrows, Undoing, UnchangedByUndo, JobSteps
<1>5. QED
      BY <1>1, <1>2, <1>3, <1>4 DEF WalInv

\* The end of a rollback: the hash is marked,
LEMMA RollbackMarksKeeps ==
    ASSUME WalInv, RollbackMarks
    PROVE  WalInv'
<1>0. TypeOK /\ KnownRids /\ QuerySteps /\ JobSteps
      BY DEF WalInv
<1>1. TypeOK'
  <2>1. job' \in Jobs
        BY <1>0 DEF RollbackMarks, TypeOK, Jobs
  <2>2. rolled' \subseteq Hashes /\ inUse' \in Dbs \cup {None}
        BY <1>0 DEF RollbackMarks, TypeOK, Jobs, JobSteps
  <2>3. QED
        BY <1>0, <2>1, <2>2 DEF RollbackMarks, TypeOK, UnchangedByUndo
<1>2. KnownRids'
      BY <1>0 DEF RollbackMarks, UnchangedByUndo, KnownRids
<1>3. QuerySteps'
      BY <1>0, DocumentWalAssumption
         DEF RollbackMarks, QuerySteps, NoQuery, Writers, Erasers, UnchangedByUndo
<1>4. JobSteps'
      BY <1>0 DEF RollbackMarks, UnchangedByUndo, JobSteps, JobLog, JobLine
<1>5. QED
      BY <1>1, <1>2, <1>3, <1>4 DEF WalInv

\* ... and wal.rollbacks is written.
LEMMA RollbackEndsKeeps ==
    ASSUME WalInv, RollbackEnds
    PROVE  WalInv'
<1>0. TypeOK /\ KnownRids /\ QuerySteps /\ JobSteps
      BY DEF WalInv
<1>1. TypeOK'
      BY <1>0, WalLogAssumption, DocumentWalAssumption
         DEF RollbackEnds, UnchangedByUndo, TypeOK, Cells, Rows, NoJob, Jobs
<1>2. KnownRids'
      BY <1>0 DEF RollbackEnds, UnchangedByUndo, KnownRids
<1>3. QuerySteps'
      BY <1>0, DocumentWalAssumption
         DEF RollbackEnds, QuerySteps, NoQuery, Writers, Erasers, UnchangedByUndo
<1>4. JobSteps'
      BY <1>0 DEF RollbackEnds, UnchangedByUndo, JobSteps
<1>5. QED
      BY <1>1, <1>2, <1>3, <1>4 DEF WalInv

\* The end of a recovery.
LEMMA RecoveryEndsKeeps ==
    ASSUME WalInv, RecoveryEnds
    PROVE  WalInv'
<1>0. TypeOK /\ KnownRids /\ QuerySteps /\ JobSteps
      BY DEF WalInv
<1>1. TypeOK'
      BY <1>0, WalLogAssumption, DocumentWalAssumption
         DEF RecoveryEnds, UnchangedByUndo, TypeOK, Cells, Rows, NoJob, Jobs
<1>2. KnownRids'
      BY <1>0 DEF RecoveryEnds, UnchangedByUndo, KnownRids
<1>3. QuerySteps'
      BY <1>0, DocumentWalAssumption
         DEF RecoveryEnds, QuerySteps, NoQuery, Writers, Erasers, UnchangedByUndo
<1>4. JobSteps'
      BY <1>0 DEF RecoveryEnds, UnchangedByUndo, JobSteps
<1>5. QED
      BY <1>1, <1>2, <1>3, <1>4 DEF WalInv

\* ... and in a recovery.
LEMMA RecoveryAbortsKeeps ==
    ASSUME WalInv, RecoveryAborts
    PROVE  WalInv'
<1>0. TypeOK /\ KnownRids /\ QuerySteps /\ JobSteps
      BY DEF WalInv
<1>1. TypeOK'
      BY <1>0, WalLogAssumption, DocumentWalAssumption
         DEF RecoveryAborts, Stop, store, disk, TypeOK, Cells, Rows, NoQuery,
             Queries, NoJob, Jobs
<1>2. KnownRids'
      BY <1>0 DEF RecoveryAborts, Stop, store, disk, KnownRids
<1>3. QuerySteps'
      BY <1>0, DocumentWalAssumption
         DEF RecoveryAborts, Stop, QuerySteps, NoQuery, Writers, Erasers, store
<1>4. JobSteps'
      BY <1>0 DEF RecoveryAborts, Stop, JobSteps
<1>5. QED
      BY <1>1, <1>2, <1>3, <1>4 DEF WalInv

-----------------------------------------------------------------------------
\* Every step of the process keeps the records, the query and the undoing under
\* way in agreement with the log.
LEMMA NextKeeps == WalInv /\ [Next]_vars => WalInv'
<1> SUFFICES ASSUME WalInv, [Next]_vars PROVE WalInv'
    OBVIOUS
<1>1. CASE Open
      BY <1>1, BeginQueryKeeps, BeginFailsKeeps DEF Open
<1>2. CASE Write
      BY <1>2, QueryFailsKeeps, QueryClosesKeeps, InsertLogsKeeps, UpdateOpensKeeps, DeleteLogsKeeps,
         InsertWritesKeeps, UpdateWritesKeeps, InsertCreatesKeeps, UpdateLogsKeeps,
         UpdateThrowsKeeps, DeleteRemovesKeeps
      DEF Write
<1>3. CASE Erase
      BY <1>3, BeginTruncateKeeps, BeginDropKeeps, EraseRemovesKeeps, EraseEndsKeeps DEF Erase
<1>4. CASE \E h \in Hashes : SavePoint(h)
      BY <1>4, SavePointKeeps
<1>5. CASE Rollback
      BY <1>5, RollbackToKeeps, RollbackLastKeeps DEF Rollback
<1>6. CASE Undo
      BY <1>6, UndoSkipsKeeps, UndoRemovesKeeps, UndoCreatesKeeps, UndoWritesKeeps, UndoThrowsKeeps,
         RollbackMarksKeeps, RollbackEndsKeeps, RecoveryEndsKeeps
      DEF Undo
<1>7. CASE \E p \in Products : Start(p)
      BY <1>7, StartKeeps
<1>8. CASE \E d \in Dbs : UseDatabase(d)
      BY <1>8, UseDatabaseKeeps
<1>9. CASE Exit \/ Crash \/ RecoveryAborts
      BY <1>9, ExitKeeps, CrashKeeps, RecoveryAbortsKeeps
<1>10. CASE UNCHANGED vars
      BY <1>10 DEF vars, store, disk, WalInv, TypeOK, KnownRids, QuerySteps, JobSteps, JobLog, JobLine
<1>11. QED
      BY <1>1, <1>2, <1>3, <1>4, <1>5, <1>6, <1>7, <1>8, <1>9, <1>10 DEF Next

\* In every state of the process the log, the files and the step a query or an
\* undoing has reached agree (WriteAheadLogger, DocumentManager).
THEOREM WalInvariant == Spec => []WalInv
<1>1. QED
      BY InitWalInv, NextKeeps, PTL DEF Spec

\* The types, which say that undo and delete always find a line and a document
\* they can read (rollbackLog, recover, deleteWhere).
THEOREM TypeCorrect == Spec => []TypeOK
<1>1. WalInv => TypeOK
      BY DEF WalInv
<1>2. QED
      BY <1>1, WalInvariant, PTL
=============================================================================
