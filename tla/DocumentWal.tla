----------------------------- MODULE DocumentWal -----------------------------
(***************************************************************************)
(* One LunarDB process over its life: it starts, recovers, answers queries *)
(* on document collections one at a time, and ends by a natural exit or a  *)
(* crash at any point.  The module composes what decides whether data is   *)
(* restored: the query wrapper that opens and closes transactions          *)
(* (QueryHandlingUtils), DocumentManager's writes to the .ldbdoc files and *)
(* their undo, WriteAheadLogger's savepoint, rollback and recover, and the *)
(* start and the end of the CLI and Server programs.                       *)
(*                                                                         *)
(* A file is written in the steps the operating system sees: it is created *)
(* or truncated (Empty), then written.  A log line is flushed as it is     *)
(* logged, so wal.log and the files survive a crash of the process; what   *)
(* is kept in memory does not.                                             *)
(***************************************************************************)
EXTENDS WalLog, FiniteSets

CONSTANTS
    Dbs,        \* databases
    DbOf,       \* DbOf[c]: the database of collection c
    Products,   \* the programs run on this LUNARDB_HOME
    Empty,      \* a file of length zero, which does not parse as JSON
    None,       \* no database, record, collection or hash
    MaxLog,     \* bound: lines of wal.log and of the log before it together
    MaxStarts   \* bound: starts of the process

Writers == {"Insert", "Update", "Delete"}
Erasers == {"Truncate", "Drop"}

ASSUME DocumentWalAssumption ==
    /\ DbOf \in [Colls -> Dbs]
    /\ Products \subseteq {"CLI", "Server"}
    /\ Empty \notin Rows
    /\ None \notin Dbs \cup Rids \cup Colls \cup Hashes \cup Writers \cup Erasers
    /\ MaxLog \in Nat
    /\ MaxStarts \in Nat

VARIABLES
    docs,       \* docs[r]: what is in the file of r
    dropped,    \* collections whose catalog entry is gone
    used,       \* rids that were generated
    log,        \* wal.log of this process
    oldLog,     \* the log of the process before, renamed session.*.wal.log
    flag,       \* wal.recovery.flag
    rolledDisk, \* wal.rollbacks
    rolled,     \* m_rollbacked_hashes
    history,    \* m_savepoints_history, the top last
    inUse,      \* SystemCatalog's database in use
    product,    \* the program that runs, or ran last
    phase,      \* what the process is doing
    query,      \* the insert, update, delete, truncate or drop under way
    job,        \* the undoing under way, of a rollback or a recovery
    starts      \* starts so far

store == <<docs, dropped, used>>
disk  == <<oldLog, flag, rolledDisk>>
vars  == <<store, log, disk, rolled, history, inUse, product, phase, query, job, starts>>

Cells == Rows \cup {Empty}

NoQuery == [kind |-> None, coll |-> None, todo |-> {}, step |-> "next", rid |-> None, old |-> Absent]

NoJob == [hash |-> None, target |-> 0, at |-> 0, again |-> FALSE, step |-> "next", db |-> None]

Queries == [kind : Writers \cup Erasers \cup {None},
            coll : Colls \cup {None},
            todo : SUBSET Rids,
            step : {"next", "opened", "logged", "created"},
            rid  : Rids \cup {None},
            old  : Rows]

Jobs == [hash   : Hashes \cup {None},
         target : Nat,
         at     : Nat,
         again  : BOOLEAN,
         step   : {"next", "removed", "created", "saving"},
         db     : Dbs \cup {None}]

\* The files, the log and what the process keeps in memory are of these types:
\* in particular undo and delete never meet a line or a document they cannot
\* read (WriteAheadLogger, DocumentManager).
TypeOK ==
    /\ docs \in [Rids -> Cells]
    /\ dropped \subseteq Colls
    /\ used \subseteq Rids
    /\ log \in Seq(Lines)
    /\ oldLog \in Seq(Lines)
    /\ flag \in {"missing", "Y", "N"}
    /\ rolledDisk \subseteq Hashes
    /\ rolled \subseteq Hashes
    /\ history \in Seq(Hashes)
    /\ inUse \in Dbs \cup {None}
    /\ product \in Products
    /\ phase \in {"down", "idle", "query", "rollback", "recover"}
    /\ query \in Queries
    /\ job \in Jobs
    /\ starts \in Nat

\* A new home directory, or one left by earlier sessions: their documents, a
\* flag, and no line of their logs that a later start could still read.
Init ==
    /\ docs \in [Rids -> Rows]
    /\ flag \in {"missing", "Y", "N"}
    /\ flag = "missing" => docs = [r \in Rids |-> Absent]
    /\ dropped = {}
    /\ used = {r \in Rids : docs[r] # Absent}
    /\ log = <<>>
    /\ oldLog = <<>>
    /\ rolledDisk = {}
    /\ rolled = {}
    /\ history = <<>>
    /\ inUse = None
    /\ product \in Products
    /\ phase = "down"
    /\ query = NoQuery
    /\ job = NoJob
    /\ starts = 0

DocsOf(c) == {r \in Rids : CollOf[r] = c /\ docs[r] # Absent}

\* WriteAheadLogger::log: one line, flushed.
Log(line) ==
    /\ Len(oldLog) + Len(log) < MaxLog
    /\ log' = Append(log, line)

-----------------------------------------------------------------------------
(* The life of the process. *)

\* The WAL singleton renames the log of the process before and loads the
\* rolled back hashes.  The CLI recovers whatever the flag says (the test of
\* it is commented out), the Server only when it says Recover; reading a
\* missing flag sets it.
Start(p) ==
    /\ phase = "down"
    /\ starts < MaxStarts
    /\ starts' = starts + 1
    /\ product' = p
    /\ oldLog' = log
    /\ log' = <<>>
    /\ rolled' = rolledDisk
    /\ flag' = IF flag = "missing" THEN "Y" ELSE flag
    /\ \/ /\ p = "CLI" \/ flag # "N"
          /\ phase' = "recover"
          /\ \E t \in 0 .. Len(log) :
                /\ RecoveryTarget(log, t)
                /\ job' = [NoJob EXCEPT !.target = t, !.at = Len(log)]
       \/ /\ p = "Server" /\ flag = "N"
          /\ phase' = "idle"
          /\ job' = NoJob
    /\ UNCHANGED <<store, rolledDisk, history, inUse, query>>

\* What ends with the process: everything it kept in memory.
Stop ==
    /\ phase' = "down"
    /\ rolled' = {}
    /\ history' = <<>>
    /\ inUse' = None
    /\ query' = NoQuery
    /\ job' = NoJob
    /\ UNCHANGED <<store, log, oldLog, rolledDisk, product, starts>>

\* `exit' at the prompt of the CLI.  The Server's loop has no end.
Exit ==
    /\ phase = "idle"
    /\ product = "CLI"
    /\ flag' = "N"
    /\ Stop

\* A kill, an abort, an EXIT_FAILURE of main before its query loop.
Crash ==
    /\ phase # "down"
    /\ flag' = flag
    /\ Stop

\* SystemCatalog::useDatabase
UseDatabase(d) ==
    /\ phase = "idle"
    /\ inUse' = d
    /\ UNCHANGED <<store, log, disk, rolled, history, product, phase, query, job, starts>>

-----------------------------------------------------------------------------
(* Queries that write: handleQuery and DocumentManager. *)

\* Everything but the files, the log and the query under way.
UnchangedByWrites == UNCHANGED <<dropped, disk, rolled, history, inUse, product, job, starts>>

\* Mutant: a file that does not parse is taken for a match.
ListedAll(c) == DocsOf(c)

\* The files of c that parse: the others end the scan with an exception.
Listed(c) == {r \in DocsOf(c) : docs[r] # Empty}

Reachable(c) == inUse = DbOf[c] /\ c \notin dropped

\* openTransaction; then the executor finds the collection and the manager
\* lists its files.  `todo' are the listed documents the where clause matches.
BeginQuery(kind, c, todo) ==
    /\ phase = "idle"
    /\ Reachable(c)
    /\ kind = "Insert" => todo = {}
    /\ todo \subseteq Listed(c)
    /\ Log(OpenLine)
    /\ phase' = "query"
    /\ query' = [NoQuery EXCEPT !.kind = kind, !.coll = c, !.todo = todo]
    /\ UNCHANGED <<docs, used>> /\ UnchangedByWrites

\* openTransaction, then no database is in use or the collection is unknown.
BeginFails(c) ==
    /\ phase = "idle"
    /\ ~Reachable(c)
    /\ Log(OpenLine)
    /\ UNCHANGED <<docs, used, phase, query>> /\ UnchangedByWrites

\* An exception between two records: a where clause or jsonify that throws, a
\* document that does not parse.  on_error is called, nothing is logged.
QueryFails ==
    /\ phase = "query"
    /\ query.kind \in Writers
    /\ query.step = "next"
    /\ phase' = "idle"
    /\ query' = NoQuery
    /\ UNCHANGED <<docs, used, log>> /\ UnchangedByWrites

\* closeTransaction.  An update or a delete parses every file of the
\* collection, so it does not get here past an empty one.
QueryCloses ==
    /\ phase = "query"
    /\ query.kind \in Writers
    /\ query.step = "next"
    /\ query.todo = {}
    /\ query.kind # "Insert" => \A r \in DocsOf(query.coll) : docs[r] # Empty
    /\ Log(CloseLine)
    /\ phase' = "idle"
    /\ query' = NoQuery
    /\ UNCHANGED <<docs, used>> /\ UnchangedByWrites

\* Sets the record under way and how far it got.
AtStep(r, step) == query' = [query EXCEPT !.rid = r, !.step = step]

NextRecord(r) ==
    query' = [query EXCEPT !.rid = None, !.step = "next", !.old = Absent,
                           !.todo = @ \ {r}]

In(kind, step) == phase = "query" /\ query.kind = kind /\ query.step = step

\* insert(): a new rid, jsonify, the log line, ...
InsertLogs(r) ==
    /\ In("Insert", "next")
    /\ r \notin used /\ CollOf[r] = query.coll
    /\ Log(InsertLine(r))
    /\ used' = used \cup {r}
    /\ AtStep(r, "logged")
    /\ UNCHANGED <<docs, phase>> /\ UnchangedByWrites

\* ... the new file, ...
InsertCreates ==
    /\ In("Insert", "logged")
    /\ docs' = [docs EXCEPT ![query.rid] = Empty]
    /\ AtStep(query.rid, "created")
    /\ UNCHANGED <<used, log, phase>> /\ UnchangedByWrites

\* ... and its content.
InsertWrites(v) ==
    /\ In("Insert", "created")
    /\ docs' = [docs EXCEPT ![query.rid] = v]
    /\ NextRecord(query.rid)
    /\ UNCHANGED <<used, log, phase>> /\ UnchangedByWrites

\* update(): the file of a match is opened with trunc before it is logged, ...
UpdateOpens(r) ==
    /\ In("Update", "next")
    /\ r \in query.todo
    /\ docs' = [docs EXCEPT ![r] = Empty]
    /\ query' = [query EXCEPT !.rid = r, !.step = "opened", !.old = docs[r]]
    /\ UNCHANGED <<used, log, phase>> /\ UnchangedByWrites

\* ... then the old content is logged, ...
UpdateLogs ==
    /\ In("Update", "opened")
    /\ Log(UpdateLine(query.rid, query.old))
    /\ AtStep(query.rid, "logged")
    /\ UNCHANGED <<docs, used, phase>> /\ UnchangedByWrites

\* ... then the modify list is applied and the file is written, ...
UpdateWrites(v) ==
    /\ In("Update", "logged")
    /\ docs' = [docs EXCEPT ![query.rid] = v]
    /\ NextRecord(query.rid)
    /\ UNCHANGED <<used, log, phase>> /\ UnchangedByWrites

\* ... or applying it throws: a boolean field always does (the missing break
\* runs into the Integer case), a value that does not convert may.  The file
\* stays empty.
UpdateThrows ==
    /\ In("Update", "logged")
    /\ phase' = "idle"
    /\ query' = NoQuery
    /\ UNCHANGED <<docs, used, log>> /\ UnchangedByWrites

\* Mutant: the file is removed before the line is logged.
DeleteLogsLate(r) ==
    /\ In("Delete", "next")
    /\ r \in query.todo
    /\ docs' = [docs EXCEPT ![r] = Absent]
    /\ AtStep(r, "logged")
    /\ UNCHANGED <<used, log, phase>> /\ UnchangedByWrites

\* deleteWhere(): the old content is logged, ...
DeleteLogs(r) ==
    /\ In("Delete", "next")
    /\ r \in query.todo
    /\ Log(DeleteLine(r, docs[r]))
    /\ AtStep(r, "logged")
    /\ UNCHANGED <<docs, used, phase>> /\ UnchangedByWrites

\* ... then the file is removed.
DeleteRemoves ==
    /\ In("Delete", "logged")
    /\ docs' = [docs EXCEPT ![query.rid] = Absent]
    /\ NextRecord(query.rid)
    /\ UNCHANGED <<used, log, phase>> /\ UnchangedByWrites

-----------------------------------------------------------------------------
(* Truncate and drop: a whole directory is removed, with no undo. *)

\* The truncate line is logged before the collection is looked up.
BeginTruncate(c) ==
    /\ phase = "idle"
    /\ inUse = DbOf[c]
    /\ Log(TruncateLine(c))
    /\ IF c \in dropped
       THEN UNCHANGED <<phase, query>>
       ELSE /\ phase' = "query"
            /\ query' = [NoQuery EXCEPT !.kind = "Truncate", !.coll = c, !.todo = DocsOf(c)]
    /\ UNCHANGED <<docs, used>> /\ UnchangedByWrites

BeginDrop(c) ==
    /\ phase = "idle"
    /\ Reachable(c)
    /\ phase' = "query"
    /\ query' = [NoQuery EXCEPT !.kind = "Drop", !.coll = c, !.todo = DocsOf(c)]
    /\ UNCHANGED <<docs, used, log>> /\ UnchangedByWrites

\* remove_all takes the files one after the other.
EraseRemoves(r) ==
    /\ phase = "query"
    /\ query.kind \in Erasers
    /\ r \in query.todo
    /\ docs' = [docs EXCEPT ![r] = Absent]
    /\ query' = [query EXCEPT !.todo = @ \ {r}]
    /\ UNCHANGED <<used, log, phase>> /\ UnchangedByWrites

EraseEnds ==
    /\ phase = "query"
    /\ query.kind \in Erasers
    /\ query.todo = {}
    /\ dropped' = IF query.kind = "Drop" THEN dropped \cup {query.coll} ELSE dropped
    /\ phase' = "idle"
    /\ query' = NoQuery
    /\ UNCHANGED <<docs, used, log, disk, rolled, history, inUse, product, job, starts>>

-----------------------------------------------------------------------------
(* Savepoints and rollback. *)

\* savepoint(hash), and commit() with a hash it generates.
SavePoint(h) ==
    /\ phase = "idle"
    /\ Log(SavePointLine(h))
    /\ history' = Append(history, h)
    /\ UNCHANGED <<store, disk, rolled, inUse, product, phase, query, job, starts>>

\* The newest of several lines to undo is undone twice.
TwoChanges(l, t) ==
    \E i, j \in DOMAIN l : t < i /\ i < j /\ IsChange(l[i]) /\ IsChange(l[j])

\* rollback() once it has its hash.  A hash that was rolled back is refused,
\* and so is any when no database is in use.
TryRollback(h) ==
    IF h \in rolled \/ inUse = None
    THEN UNCHANGED <<rolled, phase, job>>
    ELSE \E t \in 0 .. Len(log) :
            /\ RollbackTarget(log, h, t)
            /\ rolled' = rolled \cup PassedHashes(log, h, t)
            /\ phase' = "rollback"
            /\ job' = [hash |-> h, target |-> t, at |-> Len(log),
                       again |-> TwoChanges(log, t), step |-> "next", db |-> inUse]

RollbackTo(h) ==
    /\ phase = "idle"
    /\ TryRollback(h)
    /\ UNCHANGED <<store, log, disk, history, inUse, product, query, starts>>

\* Without a hash the newest savepoint is popped, before anything can fail.
RollbackLast ==
    /\ phase = "idle"
    /\ history # <<>>
    /\ TryRollback(history[Len(history)])
    /\ history' = SubSeq(history, 1, Len(history) - 1)
    /\ UNCHANGED <<store, log, disk, inUse, product, query, starts>>

-----------------------------------------------------------------------------
(* Undoing, for a rollback and for a recovery: rollbackLog, the loop of    *)
(* recover, and DocumentManager's undoInsert, undoUpdate and undoDelete.   *)
(* The cursor job.at walks the lines the code has collected, newest first. *)

JobLog  == IF phase = "recover" THEN oldLog ELSE log
JobLine == JobLog[job.at]

Undoing(step) ==
    /\ phase \in {"rollback", "recover"}
    /\ job.step = step
    /\ job.at > job.target

\* Everything but the files, the process state and the cursor.
UnchangedByUndo ==
    UNCHANGED <<dropped, used, log, oldLog, flag, product, query, starts>>

\* Mutant: the newest line stays due.
LineDoneAgain ==
    job' = IF job.again
           THEN [job EXCEPT !.step = "next"]
           ELSE [job EXCEPT !.step = "next", !.at = @ - 1]

\* The line is done; the newest one may be due again.
LineDone ==
    job' = IF job.again
           THEN [job EXCEPT !.step = "next", !.again = FALSE]
           ELSE [job EXCEPT !.step = "next", !.at = @ - 1]

\* A line that is not a change.
UndoSkips ==
    /\ Undoing("next")
    /\ ~IsChange(JobLine)
    /\ job' = [job EXCEPT !.at = @ - 1]
    /\ UNCHANGED <<docs, rolledDisk, rolled, history, inUse, phase>> /\ UnchangedByUndo

\* useDatabase, getCollection; the file is removed if it exists.
UndoRemoves ==
    /\ Undoing("next")
    /\ IsChange(JobLine)
    /\ CollOf[JobLine.rid] \notin dropped
    /\ inUse' = DbOf[CollOf[JobLine.rid]]
    /\ docs' = [docs EXCEPT ![JobLine.rid] = Absent]
    /\ IF JobLine.kind = "Insert" THEN LineDone ELSE job' = [job EXCEPT !.step = "removed"]
    /\ UNCHANGED <<rolledDisk, rolled, history, phase>> /\ UnchangedByUndo

UndoCreates ==
    /\ Undoing("removed")
    /\ docs' = [docs EXCEPT ![JobLine.rid] = Empty]
    /\ job' = [job EXCEPT !.step = "created"]
    /\ UNCHANGED <<rolledDisk, rolled, history, inUse, phase>> /\ UnchangedByUndo

UndoWrites ==
    /\ Undoing("created")
    /\ docs' = [docs EXCEPT ![JobLine.rid] = JobLine.before]
    /\ LineDone
    /\ UNCHANGED <<rolledDisk, rolled, history, inUse, phase>> /\ UnchangedByUndo

\* The collection was dropped: handleQuery reports the error, and the database
\* of the line stays in use.
UndoThrows ==
    /\ phase = "rollback"
    /\ Undoing("next")
    /\ IsChange(JobLine)
    /\ CollOf[JobLine.rid] \in dropped
    /\ phase' = "idle"
    /\ inUse' = DbOf[CollOf[JobLine.rid]]
    /\ job' = NoJob
    /\ UNCHANGED <<docs, rolledDisk, rolled, history>> /\ UnchangedByUndo

\* In recover nothing catches the exception: it ends the process.
RecoveryAborts ==
    /\ phase = "recover"
    /\ Undoing("next")
    /\ IsChange(JobLine)
    /\ CollOf[JobLine.rid] \in dropped
    /\ flag' = flag
    /\ Stop

\* rollback(): the database comes back in use, the hash is marked and
\* wal.rollbacks is opened with trunc, ...
RollbackMarks ==
    /\ phase = "rollback"
    /\ job.step = "next"
    /\ job.at = job.target
    /\ inUse' = job.db
    /\ rolled' = rolled \cup {job.hash}
    /\ rolledDisk' = {}
    /\ job' = [job EXCEPT !.step = "saving"]
    /\ UNCHANGED <<docs, history, phase>> /\ UnchangedByUndo

\* ... then written.
RollbackEnds ==
    /\ phase = "rollback"
    /\ job.step = "saving"
    /\ rolledDisk' = rolled
    /\ phase' = "idle"
    /\ job' = NoJob
    /\ UNCHANGED <<docs, rolled, history, inUse>> /\ UnchangedByUndo

\* The database of the last line undone stays in use.
RecoveryEnds ==
    /\ phase = "recover"
    /\ job.step = "next"
    /\ job.at = job.target
    /\ phase' = "idle"
    /\ job' = NoJob
    /\ UNCHANGED <<docs, rolledDisk, rolled, history, inUse>> /\ UnchangedByUndo

-----------------------------------------------------------------------------
Open ==
    \/ \E kind \in Writers, c \in Colls, todo \in SUBSET Rids :
          BeginQuery(kind, c, todo)
    \/ \E c \in Colls : BeginFails(c)

Write ==
    \/ QueryFails \/ QueryCloses
    \/ \E r \in Rids : InsertLogs(r) \/ UpdateOpens(r) \/ DeleteLogs(r)
    \/ \E v \in Values : InsertWrites(v) \/ UpdateWrites(v)
    \/ InsertCreates \/ UpdateLogs \/ UpdateThrows \/ DeleteRemoves

Erase ==
    \/ \E c \in Colls : BeginTruncate(c) \/ BeginDrop(c)
    \/ \E r \in Rids : EraseRemoves(r)
    \/ EraseEnds

Rollback ==
    \/ \E h \in Hashes : RollbackTo(h)
    \/ RollbackLast

\* The steps that end: one rollback or one recovery has finitely many.
Undo ==
    \/ UndoSkips \/ UndoRemoves \/ UndoCreates \/ UndoWrites \/ UndoThrows
    \/ RollbackMarks \/ RollbackEnds \/ RecoveryEnds

Next ==
    \/ Open \/ Write \/ Erase
    \/ \E h \in Hashes : SavePoint(h)
    \/ Rollback \/ Undo
    \/ \E p \in Products : Start(p)
    \/ \E d \in Dbs : UseDatabase(d)
    \/ Exit \/ Crash \/ RecoveryAborts

Spec == Init /\ [][Next]_vars

-----------------------------------------------------------------------------
(* What holds besides TypeOK and makes it inductive. *)

\* A rid that was not generated names no file and no line.
KnownRids ==
    \A r \in Rids \ used :
        /\ docs[r] = Absent
        /\ \A j \in DOMAIN log : ~Touches(log[j], r)
        /\ \A j \in DOMAIN oldLog : ~Touches(oldLog[j], r)

\* The steps of a query: what is opened but not logged, and what is logged but
\* not yet done, always under the last line of the log.
QuerySteps ==
    /\ phase # "query" => query = NoQuery
    /\ phase = "query" => query.kind # None /\ query.coll \in Colls
    /\ query.step = "next" => query.rid = None
    /\ query.step # "next" => query.rid \in Rids
    /\ query.step = "opened" => 
          query.kind = "Update" /\ query.old \in Values /\ docs[query.rid] = Empty
    /\ query.step \in {"logged", "created"} =>
          /\ query.kind \in Writers
          /\ log # <<>> /\ Touches(log[Len(log)], query.rid)
    /\ query.kind \in {"Update", "Delete"} =>
          \A r \in query.todo \ {query.rid} : docs[r] \in Values
    /\ query.kind \in Erasers =>
          query.step = "next" /\ \A r \in query.todo : CollOf[r] = query.coll
    /\ query.kind = "Truncate" => log # <<>> /\ log[Len(log)] = TruncateLine(query.coll)

\* The cursor stays on the lines it has to undo.
JobSteps ==
    /\ phase = "recover" => log = <<>>
    /\ phase = "rollback" => job.hash \in Hashes
    /\ phase \in {"rollback", "recover"} =>
          /\ job.target \in 0 .. Len(JobLog) /\ job.at \in job.target .. Len(JobLog)
          /\ job.step \in {"removed", "created"} => job.at > job.target /\ IsChange(JobLine)
          /\ job.step = "saving" => phase = "rollback" /\ job.at = job.target

\* The records, the query and the undoing under way agree with the log: the
\* strengthening of TypeOK that every step preserves.
WalInv == TypeOK /\ KnownRids /\ QuerySteps /\ JobSteps
=============================================================================
