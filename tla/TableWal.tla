------------------------------ MODULE TableWal ------------------------------
(***************************************************************************)
(* Selenity's tables (TableManager) under BrightMoon's write-ahead log: a  *)
(* data file of rows that are never removed, a count of them in            *)
(* metadata.ldb, inserts that buffer their rows, updates and deletes that  *)
(* write a row in place, and the three undo operations with the batches    *)
(* they share.  A table may have a nested field, whose rows are in a table *)
(* of their own.  The database is in use and its tables stay; hashes are   *)
(* always given; both are the subject of DocumentWal.                      *)
(***************************************************************************)
EXTENDS Naturals, Sequences, SequencesExt, FiniteSets

CONSTANTS
    Tables,
    Rids,       \* record ids
    TableOf,    \* TableOf[r]: the table row r is inserted into
    ChildOf,    \* ChildOf[t]: the table of t's nested field, or None
    RefOf,      \* RefOf[r]: the nested row that row r refers to, or None
    NamesDiffer,\* NamesDiffer[<<s, t>>]: tables of different names in different databases
    Contents,   \* contents of a row
    Size,       \* Size[v]: its length in the file
    Hashes,     \* savepoint hashes
    None,
    Stored,     \* Stored[t]: the rows that earlier sessions have left in t
    Inserted,   \* bound: Inserted[r], the contents that row r may be inserted with
    MaxLog,     \* bound: lines of the log and of the one before
    MaxStarts   \* bound: starts of the process

\* What a row of the file holds besides its rid: _del is a string.
RowContents == [val : Contents, del : {"0", "1"}]
Slots       == [rid : Rids, val : Contents, del : {"0", "1"}]

\* A nested table has no nested table of its own: overwrite looks the rows of
\* one up with a wrong rid.  With one level the frames of an insert are two.
ASSUME TableWalAssumption ==
    /\ IsFiniteSet(Rids)
    /\ TableOf \in [Rids -> Tables]
    /\ RefOf \in [Rids -> Rids \cup {None}]
    /\ ChildOf \in [Tables -> Tables \cup {None}]
    /\ \A t \in Tables : ChildOf[t] # None => ChildOf[ChildOf[t]] = None
    /\ NamesDiffer \in [Tables \X Tables -> BOOLEAN]
    /\ Stored \in [Tables -> Seq(Slots)]
    /\ \A t \in Tables : \A i, j \in DOMAIN Stored[t] :
          /\ TableOf[Stored[t][i].rid] = t
          /\ Stored[t][i].rid = Stored[t][j].rid => i = j
    /\ Inserted \in [Rids -> SUBSET Contents]
    /\ None \notin Tables \cup Rids \cup RowContents

INSTANCE WalLog WITH Colls <- Tables, CollOf <- TableOf, Values <- RowContents, Absent <- None

VARIABLES
    file,       \* file[t]: the rows of data.ldbtbl, in order
    holes,      \* holes[t]: positions at which a scan from the start reads no row
    count,      \* count[t]: the number in metadata.ldb, 0 when the file is empty
    log, oldLog,
    rolled,     \* hashes rolled back
    batch,      \* the static batches of undoInsert, undoUpdate and undoDelete
    phase,
    op,         \* the query under way
    job,        \* the undoing under way
    used,       \* rids generated
    starts

store == <<file, holes, count>>
vars  == <<store, log, oldLog, rolled, batch, phase, op, job, used, starts>>

Slot(r, v, del) == [rid |-> r, val |-> v, del |-> del]
Held(slot)      == [val |-> slot.val, del |-> slot.del]
Positions       == 1 .. Cardinality(Rids)

\* An insert works in a frame per table: the nested insert in front.
Frame(t) == [table |-> t, step |-> "open", entries |-> 0, buffer |-> <<>>, row |-> None, ref |-> None]

NoOp    == [kind |-> None, table |-> None, frames |-> <<>>, step |-> "next",
            at |-> 0, entries |-> 0, holes |-> {}, stuck |-> FALSE]
NoJob   == [hash |-> None, target |-> 0, at |-> 0, again |-> FALSE]
NoBatch == [inserted |-> {}, updated |-> [r \in {} |-> None], deleted |-> {}]

\* Earlier sessions have ended with an exit: every row is counted.
Init ==
    /\ file = Stored
    /\ holes = [t \in Tables |-> {}]
    /\ count = [t \in Tables |-> Len(Stored[t])]
    /\ log = <<>>
    /\ oldLog = <<>>
    /\ rolled = {}
    /\ batch = NoBatch
    /\ phase = "down"
    /\ op = NoOp
    /\ job = NoJob
    /\ used = UNION {{Stored[t][i].rid : i \in DOMAIN Stored[t]} : t \in Tables}
    /\ starts = 0

-----------------------------------------------------------------------------
(* Scans. *)

Reads(t, i) == i \in DOMAIN file[t] /\ i \notin holes[t]

\* A scan of count[t] rows reaches every one of them, or throws at the first
\* it cannot read.
Whole(t) == \A i \in 1 .. count[t] : Reads(t, i)

\* selectEntry: the row of rid r, whose _del is compared with a number.
Found(t, i, r) ==
    /\ i \in 1 .. count[t]
    /\ \A j \in 1 .. i : Reads(t, j)
    /\ file[t][i].rid = r

\* The nested row of a row that is scanned: it is read, or left as its rid when
\* it is not there; otherwise the scan throws.  A row that refers to None holds
\* some text in its field, or nothing: a scan throws at nothing (ScanThrows).
Fetches(slot) ==
    LET c == ChildOf[TableOf[slot.rid]] IN
    c # None => Whole(c) \/ \E i \in Positions : Found(c, i, RefOf[slot.rid])

\* The row at position i of t is written over with a new content: in place when
\* it keeps its length.  A longer first row would start before the file: the
\* stream fails and nothing is written.  Otherwise the row and its neighbour
\* overlap: no later scan reads the row, nor, unless by luck, what follows.
Behind(i) == {j \in Positions : j >= i}
Overwrites(t, i, held) ==
    LET old == Size[file[t][i].val]
        new == Size[held.val] IN
    IF new > old /\ i = 1 THEN UNCHANGED <<file, holes>>
    ELSE /\ file' = [file EXCEPT ![t][i].val = held.val, ![t][i].del = held.del]
         /\ \E lost \in IF new = old THEN {{}}
                        ELSE IF new > old THEN {Behind(i), Behind(i - 1)}
                        ELSE {{i}, Behind(i)} :
               holes' = [holes EXCEPT ![t] = @ \cup lost]

Log(line) ==
    /\ Len(oldLog) + Len(log) < MaxLog
    /\ log' = Append(log, line)

-----------------------------------------------------------------------------
(* The life of the process. *)

Start ==
    /\ phase = "down"
    /\ starts < MaxStarts
    /\ starts' = starts + 1
    /\ oldLog' = log
    /\ log' = <<>>
    /\ phase' = "recover"
    /\ \E t \in 0 .. Len(log) :
          /\ RecoveryTarget(log, t)
          /\ job' = [NoJob EXCEPT !.target = t, !.at = Len(log)]
    /\ UNCHANGED <<store, rolled, batch, op, used>>

\* Exit, crash, or an exception that recover() lets through.
Stop ==
    /\ phase' = "down"
    /\ batch' = NoBatch
    /\ op' = NoOp
    /\ job' = NoJob
    /\ UNCHANGED <<count, log, oldLog, rolled, used, starts>>

\* The rows that wait for t's file to be flushed.
Buffered(t) ==
    LET frames == {frame \in ToSet(op.frames) : frame.table = t} IN
    IF frames = {} THEN <<>> ELSE (CHOOSE frame \in frames : TRUE).buffer

\* A buffer that ran over within its first row leaves a part of that row at the
\* end of the file: no scan reads it, nor what later inserts put behind it.
Crash ==
    /\ phase # "down"
    /\ \E torn \in SUBSET {t \in Tables : Buffered(t) # <<>>} :
          /\ file' = [t \in Tables |->
                IF t \in torn THEN Append(file[t], Head(Buffered(t))) ELSE file[t]]
          /\ holes' = [t \in Tables |->
                IF t \in torn THEN holes[t] \cup Behind(Len(file[t]) + 1) ELSE holes[t]]
    /\ Stop

-----------------------------------------------------------------------------
(* Queries that write. *)

UnchangedByQueries == UNCHANGED <<oldLog, rolled, batch, job, starts>>

\* openTransaction, then update and deleteWhere read the count.
BeginQuery(kind, t) ==
    /\ phase = "idle"
    /\ Log(OpenLine)
    /\ phase' = "query"
    /\ op' = [NoOp EXCEPT !.kind = kind, !.table = t,
                          !.frames = IF kind = "Insert" THEN <<Frame(t)>> ELSE <<>>,
                          !.entries = count[t], !.holes = holes[t]]
    /\ UNCHANGED <<store, used>> /\ UnchangedByQueries

Returns == phase' = "idle" /\ op' = NoOp

QueryCloses ==
    /\ phase = "query"
    /\ op.frames = <<>> /\ op.step = "next"
    /\ op.kind # "Insert" =>
          /\ op.stuck => op.at = op.entries
          /\ \A i \in op.at + 1 .. op.entries :
                i \in DOMAIN file[op.table] \ op.holes /\ Fetches(file[op.table][i])
    /\ Log(CloseLine)
    /\ Returns
    /\ UNCHANGED <<store, used>> /\ UnchangedByQueries

\* update and deleteWhere throw at a row that cannot be read or whose clause
\* cannot be evaluated.
ScanThrows ==
    /\ phase = "query"
    /\ op.kind # "Insert" /\ op.step = "next"
    /\ op.at < op.entries
    /\ Returns
    /\ UNCHANGED <<store, log, used>> /\ UnchangedByQueries

-----------------------------------------------------------------------------
(* insert(): the objects of a query, and the one object of a nested field. *)

Top == Head(op.frames)
InFrame(step) == phase = "query" /\ op.frames # <<>> /\ Top.step = step
SetTop(frame) == op' = [op EXCEPT !.frames = <<frame>> \o Tail(@)]
Innermost     == Len(op.frames) = 1
Nests(t)      == t # None /\ ChildOf[t] # None

\* Both files are opened, the count is read and its file truncated.
InsertOpens ==
    /\ InFrame("open")
    /\ SetTop([Top EXCEPT !.entries = count[Top.table], !.step = "object"])
    /\ count' = [count EXCEPT ![Top.table] = 0]
    /\ UNCHANGED <<file, holes, log, phase, used>> /\ UnchangedByQueries

\* jsonify of an object throws, before a nested insert or after it: the rows
\* buffered so far are written when the files close, the counts stay as they
\* were last written.
InsertThrows ==
    /\ InFrame("object") \/ InFrame("nested")
    /\ file' = [t \in Tables |-> file[t] \o Buffered(t)]
    /\ Returns
    /\ UNCHANGED <<holes, count, log, used>> /\ UnchangedByQueries

\* jsonify inserts a nested object before the row itself is logged, ...
InsertNests ==
    /\ InFrame("object")
    /\ Nests(Top.table)
    /\ op' = [op EXCEPT !.frames = <<Frame(ChildOf[Top.table])>> \o @]
    /\ UNCHANGED <<store, log, phase, used>> /\ UnchangedByQueries

\* ... then the row is logged, which refers to the nested one.  A nested field
\* may also be left out, or hold a text, be it the rid of a row or not.
InsertLogs(r, v) ==
    /\ \/ InFrame("nested") /\ RefOf[r] = Top.ref
       \/ InFrame("object") /\ RefOf[r] \in used \cup {None}
    /\ r \notin used /\ TableOf[r] = Top.table
    /\ Log(InsertLine(r))
    /\ used' = used \cup {r}
    /\ SetTop([Top EXCEPT !.row = Slot(r, v, "0"), !.step = "logged"])
    /\ UNCHANGED <<store, phase>> /\ UnchangedByQueries

Flushes(rows, kept) ==
    /\ file' = [file EXCEPT ![Top.table] = @ \o rows]
    /\ SetTop([Top EXCEPT !.buffer = kept, !.step = "buffered"])

\* ... put in the buffer, which may run over within the row or at its end, ...
InsertBuffers ==
    /\ InFrame("logged")
    /\ LET rows == Append(Top.buffer, Top.row) IN
       Flushes(<<>>, rows) \/ Flushes(Top.buffer, <<Top.row>>) \/ Flushes(rows, <<>>)
    /\ UNCHANGED <<holes, count, log, phase, used>> /\ UnchangedByQueries

\* ... and counted.
InsertCounts ==
    /\ InFrame("buffered")
    /\ count' = [count EXCEPT ![Top.table] = Top.entries + 1]
    /\ SetTop([Top EXCEPT !.entries = @ + 1, !.ref = None,
                          !.step = IF Innermost THEN "object" ELSE "close"])
    /\ UNCHANGED <<file, holes, log, phase, used>> /\ UnchangedByQueries

\* The buffered rows are flushed; a nested insert returns the rid.
InsertFlushes ==
    /\ InFrame("close") \/ (InFrame("object") /\ Innermost /\ Top.row # None)
    /\ file' = [file EXCEPT ![Top.table] = @ \o Top.buffer]
    /\ op' = [op EXCEPT !.frames =
          IF Innermost THEN <<>>
          ELSE <<[op.frames[2] EXCEPT !.ref = Top.row.rid, !.step = "nested"]>>]
    /\ UNCHANGED <<holes, count, log, phase, used>> /\ UnchangedByQueries

-----------------------------------------------------------------------------
(* update() and deleteWhere(): a scan that writes its matches in place. *)

Scanning(kind, step) == phase = "query" /\ op.kind = kind /\ op.step = step

Row == file[op.table][op.at]
Nested(i) == Nests(op.table) /\ Found(ChildOf[op.table], i, RefOf[Row.rid])

\* The next match is the row at position i.  Rows with _del = "1" match as
\* well: _del is compared with the number 1.
Matches(i) ==
    /\ i \in op.at + 1 .. op.entries
    /\ ~op.stuck
    /\ \A j \in op.at + 1 .. i :
          j \in DOMAIN file[op.table] \ op.holes /\ Fetches(file[op.table][j])

UpdateLogs(i) ==
    /\ Scanning("Update", "next")
    /\ Matches(i)
    /\ Log(UpdateLine(file[op.table][i].rid, Held(file[op.table][i])))
    /\ op' = [op EXCEPT !.at = i, !.step = "logged"]
    /\ UNCHANGED <<store, phase, used>> /\ UnchangedByQueries

\* The modify list throws, or a nested row is not there to be changed.
UpdateThrows ==
    /\ Scanning("Update", "logged")
    /\ Returns
    /\ UNCHANGED <<store, log, used>> /\ UnchangedByQueries

\* The nested row is logged and written (overwrite) ...
OverwriteLogs(i) ==
    /\ Scanning("Update", "logged")
    /\ Nested(i)
    /\ Log(UpdateLine(RefOf[Row.rid], Held(file[ChildOf[op.table]][i])))
    /\ op' = [op EXCEPT !.step = "nestedLogged"]
    /\ UNCHANGED <<store, phase, used>> /\ UnchangedByQueries

OverwriteWrites(i, v) ==
    /\ Scanning("Update", "nestedLogged")
    /\ Nested(i)
    /\ Overwrites(ChildOf[op.table], i, [Held(file[ChildOf[op.table]][i]) EXCEPT !.val = v])
    /\ op' = [op EXCEPT !.step = "nestedWritten"]
    /\ UNCHANGED <<count, log, phase, used>> /\ UnchangedByQueries

\* ... before the row itself is written.
UpdateWrites(v) ==
    /\ IF Nests(op.table) THEN Scanning("Update", "nestedWritten") ELSE Scanning("Update", "logged")
    /\ Overwrites(op.table, op.at, [Held(Row) EXCEPT !.val = v])
    /\ op' = [op EXCEPT !.step = "next", !.stuck = op.at = 1 /\ Size[v] > Size[Row.val]]
    /\ UNCHANGED <<count, log, phase, used>> /\ UnchangedByQueries

\* Mutant: the row is marked before it is logged.
DeleteLogsLate(i) ==
    /\ Scanning("Delete", "next")
    /\ Matches(i)
    /\ file' = [file EXCEPT ![op.table][i].del = "1"]
    /\ op' = [op EXCEPT !.at = i, !.step = "logged"]
    /\ UNCHANGED <<holes, count, log, phase, used>> /\ UnchangedByQueries

DeleteLogs(i) ==
    /\ Scanning("Delete", "next")
    /\ Matches(i)
    /\ Log(DeleteLine(file[op.table][i].rid, Held(file[op.table][i])))
    /\ op' = [op EXCEPT !.at = i, !.step = "logged"]
    /\ UNCHANGED <<store, phase, used>> /\ UnchangedByQueries

DeleteWrites ==
    /\ Scanning("Delete", "logged")
    /\ Overwrites(op.table, op.at, [Held(Row) EXCEPT !.del = "1"])
    /\ op' = [op EXCEPT !.step = "next"]
    /\ UNCHANGED <<count, log, phase, used>> /\ UnchangedByQueries

-----------------------------------------------------------------------------
(* Savepoints, rollback and undo. *)

SavePoint(h) ==
    /\ phase = "idle"
    /\ Log(SavePointLine(h))
    /\ UNCHANGED <<store, oldLog, rolled, batch, phase, op, job, used, starts>>

\* Mutant: only another kind of line ends a batch.
LogDiffKind(a, b) == a.kind # b.kind

\* log_diff: false for two lines of a kind whose tables differ in name and in
\* database.
LogDiff(a, b) == ~(a.kind = b.kind /\ NamesDiffer[<<TableOf[a.rid], TableOf[b.rid]>>])

\* The newest of several lines to undo is undone twice.
TwoChanges(l, t) ==
    \E i, j \in DOMAIN l : t < i /\ i < j /\ IsChange(l[i]) /\ IsChange(l[j])

RollbackTo(h) ==
    /\ phase = "idle"
    /\ h \notin rolled
    /\ \E t \in 0 .. Len(log) :
          /\ RollbackTarget(log, h, t)
          /\ rolled' = rolled \cup PassedHashes(log, h, t)
          /\ job' = [hash |-> h, target |-> t, at |-> Len(log), again |-> TwoChanges(log, t)]
    /\ phase' = "rollback"
    /\ UNCHANGED <<store, log, oldLog, batch, op, used, starts>>

-----------------------------------------------------------------------------
(* Undoing, for a rollback and for a recovery: rollbackHistory, the loop of *)
(* recover, and TableManager's undoInsert, undoUpdate and undoDelete.  The  *)
(* cursor job.at walks the lines the code has collected, newest first.      *)

JobLog == IF phase = "recover" THEN oldLog ELSE log

JobLine == JobLog[job.at]

Undoing == phase \in {"rollback", "recover"} /\ job.at > job.target
Called  == job' = IF job.again THEN [job EXCEPT !.again = FALSE] ELSE [job EXCEPT !.at = @ - 1]

\* The last call on a table.  In a rollback the next line differs; recover()
\* takes the last of all lines, of whatever table, for it.
LastCall ==
    IF phase = "recover" THEN job.at = job.target + 1
    ELSE \A j \in job.target + 1 .. job.at - 1 :
            IsChange(log[j]) /\ (\A k \in j + 1 .. job.at - 1 : ~IsChange(log[k]))
                => LogDiff(JobLine, log[j])

\* The rows of t that an undo scan reads: where a scan would throw, it goes on.
Seen(t) == {i \in 1 .. count[t] : Reads(t, i)}

\* The rows of t at the positions at, with a rid in rids, get another _del ...
Marks(t, at, rids, del) ==
    file' = [file EXCEPT ![t] = [i \in DOMAIN @ |->
                IF i \in at /\ @[i].rid \in rids THEN [@[i] EXCEPT !.del = del] ELSE @[i]]]

\* ... or their old contents, which have the length of the new ones: a row that
\* an update gave another length is not read any more.
PutsBack(t, at, old) ==
    file' = [file EXCEPT ![t] = [i \in DOMAIN @ |->
                IF i \in at /\ @[i].rid \in DOMAIN old
                THEN Slot(@[i].rid, old[@[i].rid].val, old[@[i].rid].del) ELSE @[i]]]

UnchangedByUndo == UNCHANGED <<log, oldLog, rolled, phase, op, used, starts>>

\* A line that is not a change.
UndoSkips ==
    /\ Undoing /\ ~IsChange(JobLine)
    /\ job' = [job EXCEPT !.at = @ - 1]
    /\ UNCHANGED <<store, batch>> /\ UnchangedByUndo

\* Every call but the last only adds to its batch.
Collected ==
    [inserted |-> batch.inserted \cup {r \in {JobLine.rid} : JobLine.kind = "Insert"},
     updated  |-> IF JobLine.kind # "Update" \/ JobLine.rid \in DOMAIN batch.updated THEN batch.updated
                  ELSE [r \in DOMAIN batch.updated \cup {JobLine.rid} |->
                           IF r = JobLine.rid THEN JobLine.before ELSE batch.updated[r]],
     deleted  |-> batch.deleted \cup {r \in {JobLine.rid} : JobLine.kind = "Delete"}]

UndoCollects ==
    /\ Undoing /\ IsChange(JobLine) /\ ~LastCall
    /\ batch' = Collected
    /\ Called
    /\ UNCHANGED store /\ UnchangedByUndo

Undoes(kind) == Undoing /\ JobLine.kind = kind /\ LastCall

\* Mutant: the count is written back as it was.
RepairedCountAsIs(t) == count' = count

\* undoInsert leaves out of the count the rows it cannot read.
RepairedCount(t) == count' = [count EXCEPT ![t] = Cardinality(Seen(t))]

UndoInsert ==
    /\ Undoes("Insert")
    /\ LET t == TableOf[JobLine.rid] IN Marks(t, Seen(t), Collected.inserted, "1") /\ RepairedCount(t)
    /\ batch' = [batch EXCEPT !.inserted = {}]
    /\ Called
    /\ UNCHANGED holes /\ UnchangedByUndo

\* Mutant: the batch is kept.
UndoneUpdatesKept == Collected

UndoneUpdates == [batch EXCEPT !.updated = NoBatch.updated]

UndoUpdate ==
    /\ Undoes("Update")
    /\ LET t == TableOf[JobLine.rid] IN PutsBack(t, Seen(t), Collected.updated)
    /\ batch' = UndoneUpdates
    /\ Called
    /\ UNCHANGED <<holes, count>> /\ UnchangedByUndo

UndoDelete ==
    /\ Undoes("Delete")
    /\ LET t == TableOf[JobLine.rid] IN Marks(t, Seen(t), Collected.deleted, "0")
    /\ batch' = [batch EXCEPT !.deleted = {}]
    /\ Called
    /\ UNCHANGED <<holes, count>> /\ UnchangedByUndo

\* What is left of the batches when the scan has come past the rows rids.
Remaining(rids) ==
    [inserted |-> IF JobLine.kind = "Insert" THEN Collected.inserted \ rids ELSE Collected.inserted,
     updated  |-> IF JobLine.kind = "Update" THEN Restrict(Collected.updated, DOMAIN Collected.updated \ rids)
                  ELSE Collected.updated,
     deleted  |-> IF JobLine.kind = "Delete" THEN Collected.deleted \ rids ELSE Collected.deleted]

\* A size read from within a row throws outside of the try block, when the rows
\* before have been undone: the others stay in the batch, a rollback ends, and a
\* recovery takes the process with it.
UndoThrows ==
    /\ Undoing /\ IsChange(JobLine) /\ LastCall
    /\ LET t == TableOf[JobLine.rid] IN
       \E i \in holes[t] \cap 1 .. count[t] :
          LET passed == {j \in Seen(t) : j < i} IN
          /\ \/ JobLine.kind = "Insert" /\ Marks(t, passed, Collected.inserted, "1")
             \/ JobLine.kind = "Update" /\ PutsBack(t, passed, Collected.updated)
             \/ JobLine.kind = "Delete" /\ Marks(t, passed, Collected.deleted, "0")
          /\ IF phase = "recover" THEN Stop
             ELSE /\ batch' = Remaining({file[t][j].rid : j \in passed})
                  /\ phase' = "idle"
                  /\ job' = NoJob
                  /\ UNCHANGED <<count, log, oldLog, rolled, op, used, starts>>
    /\ UNCHANGED holes

UndoEnds ==
    /\ phase \in {"rollback", "recover"}
    /\ job.at = job.target
    /\ rolled' = IF phase = "rollback" THEN rolled \cup {job.hash} ELSE rolled
    /\ phase' = "idle"
    /\ job' = NoJob
    /\ UNCHANGED <<store, log, oldLog, batch, op, used, starts>>

-----------------------------------------------------------------------------
Insert ==
    \/ InsertOpens \/ InsertThrows \/ InsertNests
    \/ \E r \in Rids : \E v \in Inserted[r] : InsertLogs(r, v)
    \/ InsertBuffers \/ InsertCounts \/ InsertFlushes

Update ==
    \/ \E i \in Positions : UpdateLogs(i) \/ OverwriteLogs(i)
    \/ \E i \in Positions, v \in Contents : OverwriteWrites(i, v)
    \/ \E v \in Contents : UpdateWrites(v)
    \/ UpdateThrows

Delete == (\E i \in Positions : DeleteLogs(i)) \/ DeleteWrites

Open  == \E kind \in {"Insert", "Update", "Delete"}, t \in Tables : BeginQuery(kind, t)
Write == Insert \/ Update \/ Delete \/ QueryCloses \/ ScanThrows
Save  == \E h \in Hashes : SavePoint(h)

Undo == UndoSkips \/ UndoCollects \/ UndoInsert \/ UndoUpdate \/ UndoDelete \/ UndoThrows \/ UndoEnds

Next == Start \/ Crash \/ Open \/ Write \/ Save \/ Undo \/ \E h \in Hashes : RollbackTo(h)

Spec == Init /\ [][Next]_vars
=============================================================================
