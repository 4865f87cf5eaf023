--------------------------- MODULE TableWalProofs ---------------------------
(***************************************************************************)
(* The theorems about TableWalHistory: rows stay unique and in the table   *)
(* they were inserted into, the batches of undo are empty between          *)
(* rollbacks as long as every row can be read, and a row is changed only   *)
(* under a line of the log that takes the change back.                     *)
(***************************************************************************)
EXTENDS TableWalHistory, SequenceTheorems, FiniteSetTheorems, TLAPS

Kinds == {"Insert", "Update", "Delete"}

(* The inductive invariant. *)

Distinct(rows) == \A i, j \in DOMAIN rows : rows[i].rid = rows[j].rid => i = j

\* The query under way, if any, and the frames of an insert.
OpOK ==
    /\ phase # "query" => op = NoOp
    /\ phase = "query" => op.kind \in Kinds /\ op.table \in Tables
    /\ op.kind # "Insert" => op.frames = <<>>
    /\ op.step # "next" =>
          /\ op.kind \in {"Update", "Delete"}
          /\ op.at \in Positions /\ op.at \in DOMAIN file[op.table]
    /\ op.step \in {"nestedLogged", "nestedWritten"} => op.kind = "Update" /\ Nests(op.table)
    /\ Len(op.frames) <= 2
    /\ Len(op.frames) = 2 => ChildOf[op.frames[2].table] = op.frames[1].table

\* Every row is in the table it was inserted into, once, ...
FilesOK ==
    \A t \in Tables :
        /\ Distinct(file[t])
        /\ \A i \in DOMAIN file[t] : TableOf[file[t][i].rid] = t /\ file[t][i].rid \in used

\* ... and so will be the rows that wait in a buffer and the one being
\* inserted, which are logged.
Insertion(slot, t) ==
    /\ TableOf[slot.rid] = t
    /\ slot.rid \in used
    /\ \E j \in DOMAIN log : log[j] = InsertLine(slot.rid)

FrameOK(frame) ==
    LET rows == file[frame.table] \o frame.buffer IN
    /\ Distinct(rows)
    /\ \A i \in DOMAIN frame.buffer : Insertion(frame.buffer[i], frame.table)
    /\ frame.step = "logged" =>
          /\ Insertion(frame.row, frame.table)
          /\ \A i \in DOMAIN rows : rows[i].rid # frame.row.rid
    /\ frame.step \in {"logged", "buffered", "close"} => frame.row \in Slots

FramesOK == \A k \in DOMAIN op.frames : FrameOK(op.frames[k])

\* The change lines of a query follow one another and the line that opened its
\* transaction, and are of one kind.
Together(l) ==
    \A i \in DOMAIN l : IsChange(l[i]) =>
        /\ i > 1
        /\ l[i - 1] = OpenLine \/ (IsChange(l[i - 1]) /\ l[i - 1].kind = l[i].kind)

LogsOK ==
    /\ \A j \in DOMAIN log : IsChange(log[j]) => log[j].rid \in used
    /\ \A j \in DOMAIN oldLog : IsChange(oldLog[j]) => oldLog[j].rid \in used
    /\ Together(log) /\ Together(oldLog)
    /\ phase = "query" =>
          /\ log # <<>>
          /\ log[Len(log)] = OpenLine \/ (IsChange(log[Len(log)]) /\ log[Len(log)].kind = op.kind)

\* The cursor stays on the lines it has to undo; those of a recovery are of one
\* transaction.
JobOK ==
    /\ phase \in {"rollback", "recover"} => job.target <= job.at /\ job.at <= Len(JobLog)
    /\ phase = "rollback" => job.hash \in Hashes
    /\ phase = "recover" =>
          /\ ~job.again
          /\ \A j \in DOMAIN oldLog : j > job.target => oldLog[j] # OpenLine

\* The next line to undo is of this kind.
Due(kind) ==
    \E j \in job.target + 1 .. job.at :
        /\ IsChange(JobLog[j]) /\ JobLog[j].kind = kind
        /\ \A k \in j + 1 .. job.at : ~IsChange(JobLog[k])

\* As long as every row can be read, what has been collected is undone by a
\* later line of the same rollback or recovery.
BatchOK ==
    (\A t \in Tables : holes[t] = {}) =>
        IF phase \in {"rollback", "recover"}
        THEN /\ batch.inserted # {} => Due("Insert")
             /\ DOMAIN batch.updated # {} => Due("Update")
             /\ batch.deleted # {} => Due("Delete")
        ELSE batch = NoBatch

\* The newest line about rid r keeps what the slot holds.
Kept(r, slot) == \E j \in DOMAIN log : LastTouch(log, j, r) /\ log[j].before = Held(slot)

\* The row about to be written over, and the nested row.
GuardsOK ==
    /\ op.step # "next" => Kept(Row.rid, Row)
    /\ op.step = "nestedLogged" =>
          \A i \in DOMAIN file[ChildOf[op.table]] :
              file[ChildOf[op.table]][i].rid = RefOf[Row.rid] =>
                  Kept(RefOf[Row.rid], file[ChildOf[op.table]][i])

TablesIInv == TypeOK /\ OpOK /\ FilesOK /\ FramesOK /\ LogsOK /\ JobOK /\ BatchOK /\ GuardsOK

-----------------------------------------------------------------------------
(* Lines, rows and sequences of them. *)

\* Each line the code writes is a line of a log, and of its kind.
LEMMA MadeLines ==
    /\ OpenLine \in Lines /\ CloseLine \in Lines
    /\ \A h \in Hashes : SavePointLine(h) \in Lines
    /\ \A r \in Rids : InsertLine(r) \in Lines
    /\ \A r \in Rids, v \in RowContents : UpdateLine(r, v) \in Lines /\ DeleteLine(r, v) \in Lines
BY DEF Lines, OpenLine, CloseLine, SavePointLine, InsertLine, UpdateLine, DeleteLine

LEMMA LineKinds ==
    /\ ~IsChange(OpenLine) /\ ~IsChange(CloseLine) /\ \A h : ~IsChange(SavePointLine(h))
    /\ \A r : /\ IsChange(InsertLine(r)) /\ InsertLine(r).kind = "Insert" /\ InsertLine(r).rid = r
              /\ InsertLine(r) # OpenLine
    /\ \A r, v : /\ IsChange(UpdateLine(r, v)) /\ UpdateLine(r, v).kind = "Update"
                 /\ UpdateLine(r, v).rid = r /\ UpdateLine(r, v).before = v
                 /\ UpdateLine(r, v) # OpenLine
    /\ \A r, v : /\ IsChange(DeleteLine(r, v)) /\ DeleteLine(r, v).kind = "Delete"
                 /\ DeleteLine(r, v).rid = r /\ DeleteLine(r, v).before = v
                 /\ DeleteLine(r, v) # OpenLine
    /\ CloseLine # OpenLine /\ \A h : SavePointLine(h) # OpenLine
BY DEF IsChange, OpenLine, CloseLine, SavePointLine, InsertLine, UpdateLine, DeleteLine

\* A line that undo reads names a row; an update's keeps its content.
LEMMA ChangeLines ==
    \A l \in Lines : IsChange(l) =>
        /\ l.rid \in Rids /\ l.kind \in Kinds
        /\ l.kind = "Update" => l.before \in RowContents
        /\ l # OpenLine
BY DEF Lines, OpenLine, CloseLine, IsChange, Kinds

\* Log appends one line and keeps the others.
LEMMA Logged ==
    ASSUME log \in Seq(Lines), NEW line \in Lines, Log(line)
    PROVE  /\ log' \in Seq(Lines) /\ log' # <<>>
           /\ Len(log') = Len(log) + 1 /\ Len(log) \in Nat
           /\ DOMAIN log = 1 .. Len(log) /\ DOMAIN log' = 1 .. Len(log')
           /\ log'[Len(log')] = line
           /\ \A j \in DOMAIN log : j \in DOMAIN log' /\ log'[j] = log[j]
           /\ \A j \in DOMAIN log' : j \in DOMAIN log \/ j = Len(log')
BY DEF Log

\* What a slot is made of.
LEMMA SlotParts ==
    /\ \A slot \in Slots : slot.rid \in Rids /\ slot.val \in Contents /\ slot.del \in {"0", "1"}
    /\ \A slot \in Slots : Held(slot) \in RowContents
    /\ \A r \in Rids, v \in Contents, del \in {"0", "1"} : Slot(r, v, del) \in Slots
    /\ \A r, v, del : Slot(r, v, del).rid = r
BY DEF Slots, Held, RowContents, Slot

\* Two sequences put together.
LEMMA Concatenated ==
    ASSUME NEW s \in Seq(Slots), NEW b \in Seq(Slots)
    PROVE  /\ s \o b \in Seq(Slots)
           /\ Len(s) \in Nat /\ Len(b) \in Nat
           /\ DOMAIN s = 1 .. Len(s) /\ DOMAIN b = 1 .. Len(b)
           /\ DOMAIN (s \o b) = 1 .. Len(s) + Len(b)
           /\ \A i \in DOMAIN s : i \in DOMAIN (s \o b) /\ (s \o b)[i] = s[i]
           /\ \A i \in DOMAIN b : Len(s) + i \in DOMAIN (s \o b) /\ (s \o b)[Len(s) + i] = b[i]
           /\ \A i \in DOMAIN (s \o b) :
                 \/ i \in DOMAIN s
                 \/ i - Len(s) \in DOMAIN b /\ (s \o b)[i] = b[i - Len(s)]
OBVIOUS

LEMMA NoneBehind ==
    ASSUME NEW s \in Seq(Slots), NEW b \in Seq(Slots), NEW r,
           \A i \in DOMAIN s : s[i].rid # r, \A i \in DOMAIN b : b[i].rid # r
    PROVE  \A i \in DOMAIN (s \o b) : (s \o b)[i].rid # r
<1> DEFINE sb == s \o b
<1>1. \A i \in DOMAIN sb :
         \/ i \in DOMAIN s /\ sb[i] = s[i]
         \/ i - Len(s) \in DOMAIN b /\ sb[i] = b[i - Len(s)]
      BY Concatenated
<1> HIDE DEF sb
<1>2. \A i \in DOMAIN sb : sb[i].rid # r
      BY <1>1
<1>3. QED
      BY <1>2 DEF sb

LEMMA AllBehind ==
    ASSUME NEW s \in Seq(Slots), NEW b \in Seq(Slots), NEW rids,
           \A i \in DOMAIN s : s[i].rid \in rids, \A i \in DOMAIN b : b[i].rid \in rids
    PROVE  \A i \in DOMAIN (s \o b) : (s \o b)[i].rid \in rids
<1> DEFINE sb == s \o b
<1>1. \A i \in DOMAIN sb :
         \/ i \in DOMAIN s /\ sb[i] = s[i]
         \/ i - Len(s) \in DOMAIN b /\ sb[i] = b[i - Len(s)]
      BY Concatenated
<1> HIDE DEF sb
<1>2. \A i \in DOMAIN sb : sb[i].rid \in rids
      BY <1>1
<1>3. QED
      BY <1>2 DEF sb

LEMMA Regrouped ==
    ASSUME NEW s \in Seq(Slots), NEW b \in Seq(Slots), NEW c \in Seq(Slots)
    PROVE  (s \o b) \o c = s \o (b \o c)
BY ConcatAssociative

LEMMA DistinctParts ==
    ASSUME NEW s \in Seq(Slots), NEW b \in Seq(Slots), Distinct(s \o b)
    PROVE  Distinct(s) /\ Distinct(b)
<1> DEFINE sb == s \o b
<1>1. /\ \A i \in DOMAIN s : i \in DOMAIN sb /\ sb[i] = s[i]
      /\ \A i \in DOMAIN b : Len(s) + i \in DOMAIN sb /\ sb[Len(s) + i] = b[i]
      /\ Distinct(sb)
      /\ Len(s) \in Nat /\ DOMAIN b = 1 .. Len(b)
      BY Concatenated
<1> HIDE DEF sb
<1>2. \A i, j \in DOMAIN b : b[i].rid = b[j].rid => Len(s) + i = Len(s) + j
      BY <1>1 DEF Distinct
<1>3. QED
      BY <1>1, <1>2 DEF Distinct

\* A row with a new rid is put behind.
LEMMA DistinctAppend ==
    ASSUME NEW s \in Seq(Slots), NEW slot \in Slots, Distinct(s),
           \A i \in DOMAIN s : s[i].rid # slot.rid
    PROVE  Append(s, slot) \in Seq(Slots) /\ Distinct(Append(s, slot))
<1> DEFINE m == Append(s, slot)
<1>1. /\ m \in Seq(Slots) /\ DOMAIN m = DOMAIN s \cup {Len(s) + 1}
      /\ \A i \in DOMAIN s : m[i] = s[i]
      /\ m[Len(s) + 1] = slot
      OBVIOUS
<1> HIDE DEF m
<1>2. \A i, j \in DOMAIN m : m[i].rid = m[j].rid => i = j
      BY <1>1 DEF Distinct
<1>3. QED
      BY <1>1, <1>2 DEF Distinct, m

LEMMA AppendBehind ==
    ASSUME NEW s \in Seq(Slots), NEW b \in Seq(Slots), NEW slot \in Slots
    PROVE  s \o Append(b, slot) = Append(s \o b, slot)
OBVIOUS

\* Rows written over in place keep their rids.
LEMMA DistinctKept ==
    ASSUME NEW s, NEW m, DOMAIN m = DOMAIN s, \A i \in DOMAIN s : m[i].rid = s[i].rid, Distinct(s)
    PROVE  Distinct(m)
BY DEF Distinct

-----------------------------------------------------------------------------
(* What leaves a part of the invariant alone. *)

\* No query is under way.
LEMMA NoOpIsOK == NoOp \in Queries
BY DEF NoOp, Queries

LEMMA NoBatchIsOK == NoBatch \in Batches /\ NoBatch.inserted = {} /\ NoBatch.deleted = {}
                        /\ DOMAIN NoBatch.updated = {} /\ NoBatch.updated \in [{} -> RowContents]
<1>1. {} \in SUBSET used /\ [r \in {} |-> None] \in [{} -> RowContents]
      OBVIOUS
<1>2. [r \in {} |-> None] \in UNION {[rids -> RowContents] : rids \in SUBSET used}
      BY <1>1
<1>3. QED
      BY <1>1, <1>2 DEF NoBatch, Batches

LEMMA NoJobIsOK == NoJob \in [hash : Hashes \cup {None}, target : Nat, at : Nat, again : BOOLEAN]
BY DEF NoJob

LEMMA NoOpLater ==
    ASSUME op' = NoOp, phase' # "query"
    PROVE  op' \in Queries' /\ OpOK' /\ FramesOK' /\ GuardsOK'
<1>1. /\ op'.frames = <<>> /\ op'.step = "next" /\ Len(op'.frames) = 0 /\ DOMAIN op'.frames = {}
      BY DEF NoOp
<1>2. Queries' = Queries
      BY DEF Queries, Frames, Slots, Positions
<1>3. OpOK'
      BY <1>1 DEF OpOK
<1>4. FramesOK' /\ GuardsOK'
      BY <1>1 DEF FramesOK, GuardsOK
<1>5. QED
      BY <1>2, <1>3, <1>4, NoOpIsOK

LEMMA FilesStay ==
    ASSUME FilesOK, file' = file, used \subseteq used'
    PROVE  FilesOK'
BY DEF FilesOK

LEMMA LogsStay ==
    ASSUME TypeOK, LogsOK, log' = log, oldLog' = oldLog, used \subseteq used',
           phase' = "query" => phase = "query" /\ op'.kind = op.kind
    PROVE  LogsOK'
BY DEF LogsOK

\* Outside of rollback and recovery the batches are empty; rows that cannot be
\* read stay so.
LEMMA BatchStays ==
    ASSUME TypeOK, BatchOK, phase \notin {"rollback", "recover"}, phase' \notin {"rollback", "recover"},
           batch' = batch \/ batch' = NoBatch,
           \A t \in Tables : holes[t] \subseteq holes'[t]
    PROVE  BatchOK'
BY DEF BatchOK

LEMMA BatchesStay ==
    ASSUME TypeOK, used \subseteq used', batch' = batch \/ batch' = NoBatch
    PROVE  batch' \in Batches'
<1>1. batch \in Batches => batch \in Batches'
  <2>1. UNION {[rids -> RowContents] : rids \in SUBSET used}
           \subseteq UNION {[rids -> RowContents] : rids \in SUBSET used'}
        OBVIOUS
  <2>2. QED
        BY <2>1 DEF Batches
<1>2. NoBatch \in Batches => NoBatch \in Batches'
  <2>1. UNION {[rids -> RowContents] : rids \in SUBSET used}
           \subseteq UNION {[rids -> RowContents] : rids \in SUBSET used'}
        OBVIOUS
  <2>2. QED
        BY <2>1 DEF Batches
<1>3. QED
      BY <1>1, <1>2, NoBatchIsOK DEF TypeOK

LEMMA JobRests ==
    ASSUME phase' \notin {"rollback", "recover"}
    PROVE  JobOK'
BY DEF JobOK

-----------------------------------------------------------------------------
(* The life of the process. *)

LEMMA Initially == HInit => TablesIInv
<1> SUFFICES ASSUME HInit PROVE TablesIInv
    OBVIOUS
<1> USE DEF HInit, Init
<1>1. \A t \in Tables :
         /\ Stored[t] \in Seq(Slots) /\ Len(Stored[t]) \in Nat
         /\ \A i \in DOMAIN Stored[t] : Stored[t][i].rid \in Rids
  <2>1. SUFFICES ASSUME NEW t \in Tables
                 PROVE  /\ Stored[t] \in Seq(Slots) /\ Len(Stored[t]) \in Nat
                        /\ \A i \in DOMAIN Stored[t] : Stored[t][i].rid \in Rids
        OBVIOUS
  <2>2. Stored[t] \in Seq(Slots)
        BY TableWalAssumption
  <2>3. \A i \in DOMAIN Stored[t] : Stored[t][i] \in Slots
        BY <2>2
  <2>4. QED
        BY <2>2, <2>3 DEF Slots
<1>2. TypeOK
  <2>1. file \in [Tables -> Seq(Slots)]
        BY TableWalAssumption
  <2>2. count \in [Tables -> Nat]
        BY <1>1
  <2>3. used \subseteq Rids
        BY <1>1
  <2>4. batch \in Batches /\ op \in Queries
        BY NoOpIsOK, NoBatchIsOK
  <2>5. QED
        BY <2>1, <2>2, <2>3, <2>4, NoJobIsOK DEF TypeOK
<1>3. OpOK /\ FramesOK /\ GuardsOK
      BY DEF OpOK, FramesOK, GuardsOK, NoOp
<1>4. FilesOK
  <2>1. SUFFICES ASSUME NEW t \in Tables
                 PROVE  /\ Distinct(file[t])
                        /\ \A i \in DOMAIN file[t] :
                              TableOf[file[t][i].rid] = t /\ file[t][i].rid \in used
        BY DEF FilesOK
  <2>2. Distinct(file[t])
        BY TableWalAssumption DEF Distinct
  <2>3. \A i \in DOMAIN file[t] : TableOf[file[t][i].rid] = t
        BY TableWalAssumption
  <2>4. \A i \in DOMAIN file[t] : file[t][i].rid \in used
        OBVIOUS
  <2>5. QED
        BY <2>2, <2>3, <2>4
<1>5. LogsOK
      BY DEF LogsOK, Together
<1>6. JobOK /\ BatchOK
      BY DEF JobOK, BatchOK
<1>7. QED
      BY <1>2, <1>3, <1>4, <1>5, <1>6 DEF TablesIInv

LEMMA StartKeeps ==
    ASSUME TablesIInv, Start
    PROVE  TablesIInv'
<1> USE DEF TablesIInv
<1>1. PICK t \in 0 .. Len(log) :
         RecoveryTarget(log, t) /\ job' = [NoJob EXCEPT !.target = t, !.at = Len(log)]
      BY DEF Start
<1>2. /\ phase = "down" /\ phase' = "recover" /\ oldLog' = log /\ log' = <<>>
      /\ UNCHANGED <<file, holes, count, rolled, batch, op, used>>
      BY DEF Start, store
<1>3. /\ Len(log) \in Nat /\ DOMAIN log = 1 .. Len(log) /\ t \in Nat
      BY DEF TypeOK
<1>4. /\ job'.target = t /\ job'.at = Len(log) /\ job'.again = FALSE /\ job'.hash = None
      /\ job' \in [hash : Hashes \cup {None}, target : Nat, at : Nat, again : BOOLEAN]
      BY <1>1, <1>3 DEF NoJob
<1>5. op = NoOp
      BY <1>2 DEF OpOK
<1>6. batch' \in Batches'
      BY <1>2, BatchesStay
<1>7. op' \in Queries' /\ OpOK' /\ FramesOK' /\ GuardsOK'
      BY <1>2, <1>5, NoOpLater
<1>8. TypeOK'
      BY <1>2, <1>4, <1>6, <1>7 DEF TypeOK
<1>9. FilesOK'
      BY <1>2, FilesStay
<1>10. LogsOK'
      BY <1>2 DEF LogsOK, Together
<1>11. \A j \in DOMAIN log : j > t => log[j] # OpenLine
      BY <1>1, <1>3 DEF RecoveryTarget
<1>12. JobOK'
      BY <1>2, <1>3, <1>4, <1>11 DEF JobOK, JobLog
<1>13. BatchOK'
  <2>1. CASE \A s \in Tables : holes[s] = {}
    <3>1. batch = NoBatch
          BY <1>2, <2>1 DEF BatchOK
    <3>2. QED
          BY <1>2, <3>1, NoBatchIsOK DEF BatchOK
  <2>2. CASE ~ \A s \in Tables : holes[s] = {}
        BY <1>2, <2>2 DEF BatchOK
  <2>3. QED
        BY <2>1, <2>2
<1>14. QED
      BY <1>7, <1>8, <1>9, <1>10, <1>12, <1>13

LEMMA StopKeeps ==
    ASSUME TablesIInv, Stop, FilesOK',
           file' \in [Tables -> Seq(Slots)], holes' \in [Tables -> SUBSET Positions]
    PROVE  TablesIInv'
<1> USE DEF TablesIInv
<1>1. /\ phase' = "down" /\ batch' = NoBatch /\ op' = NoOp /\ job' = NoJob
      /\ UNCHANGED <<count, log, oldLog, rolled, used>>
      BY DEF Stop
<1>2. batch' \in Batches'
      BY <1>1, BatchesStay
<1>3. op' \in Queries' /\ OpOK' /\ FramesOK' /\ GuardsOK'
      BY <1>1, NoOpLater
<1>4. TypeOK'
      BY <1>1, <1>2, <1>3, NoJobIsOK DEF TypeOK
<1>5. LogsOK' /\ JobOK'
      BY <1>1, LogsStay, JobRests
<1>6. BatchOK'
      BY <1>1 DEF BatchOK
<1>7. QED
      BY <1>3, <1>4, <1>5, <1>6

\* A line is logged: a change line by the query under way, of its kind.
LEMMA LogsGrow ==
    ASSUME TypeOK, LogsOK, NEW line \in Lines, Log(line), oldLog' = oldLog, used \subseteq used',
           IsChange(line) => line.rid \in used' /\ phase = "query" /\ line.kind = op.kind,
           phase' = "query" => line = OpenLine \/ (IsChange(line) /\ op'.kind = op.kind)
    PROVE  log' \in Seq(Lines) /\ LogsOK'
<1>1. /\ log' \in Seq(Lines) /\ log' # <<>>
      /\ Len(log') = Len(log) + 1 /\ Len(log) \in Nat
      /\ DOMAIN log = 1 .. Len(log) /\ DOMAIN log' = 1 .. Len(log')
      /\ log'[Len(log')] = line
      /\ \A j \in DOMAIN log : j \in DOMAIN log' /\ log'[j] = log[j]
      /\ \A j \in DOMAIN log' : j \in DOMAIN log \/ j = Len(log')
      BY Logged DEF TypeOK
<1>2. \A j \in DOMAIN log' : IsChange(log'[j]) => log'[j].rid \in used'
      BY <1>1 DEF LogsOK
<1>3. Together(log)'
  <2> SUFFICES ASSUME NEW i \in DOMAIN log', IsChange(log'[i])
               PROVE  /\ i > 1
                      /\ \/ log'[i - 1] = OpenLine
                         \/ IsChange(log'[i - 1]) /\ log'[i - 1].kind = log'[i].kind
      BY DEF Together
  <2>1. CASE i \in DOMAIN log
    <3>1. i > 1 /\ (log[i - 1] = OpenLine \/ (IsChange(log[i - 1]) /\ log[i - 1].kind = log[i].kind))
          BY <1>1, <2>1 DEF LogsOK, Together
    <3>2. i - 1 \in DOMAIN log
          BY <1>1, <2>1, <3>1
    <3>3. QED
          BY <1>1, <2>1, <3>1, <3>2
  <2>2. CASE i = Len(log')
    <3>1. /\ log # <<>>
          /\ log[Len(log)] = OpenLine \/ (IsChange(log[Len(log)]) /\ log[Len(log)].kind = line.kind)
          BY <1>1, <2>2 DEF LogsOK
    <3>2. Len(log) \in DOMAIN log /\ i - 1 = Len(log)
          BY <1>1, <2>2, <3>1 DEF TypeOK
    <3>3. QED
          BY <1>1, <2>2, <3>1, <3>2
  <2>3. QED
        BY <1>1, <2>1, <2>2
<1>4. Together(oldLog)' /\ \A j \in DOMAIN oldLog' : IsChange(oldLog'[j]) => oldLog'[j].rid \in used'
      BY DEF LogsOK, Together
<1>5. phase' = "query" =>
          /\ log' # <<>>
          /\ log'[Len(log')] = OpenLine
                \/ (IsChange(log'[Len(log')]) /\ log'[Len(log')].kind = op'.kind)
      BY <1>1
<1>6. QED
      BY <1>1, <1>2, <1>3, <1>4, <1>5 DEF LogsOK

\* A query is opened.
LEMMA BeginKeeps ==
    ASSUME TablesIInv, NEW kind \in Kinds, NEW t \in Tables, BeginQuery(kind, t)
    PROVE  TablesIInv'
<1> USE DEF TablesIInv
<1>1. /\ phase = "idle" /\ phase' = "query" /\ Log(OpenLine)
      /\ op' = [NoOp EXCEPT !.kind = kind, !.table = t,
                            !.frames = IF kind = "Insert" THEN <<Frame(t)>> ELSE <<>>,
                            !.entries = count[t], !.holes = holes[t]]
      /\ UNCHANGED <<file, holes, count, oldLog, rolled, batch, job, used>>
      BY DEF BeginQuery, UnchangedByQueries, store
<1>2. Frame(t) \in Frames /\ Frame(t).table = t /\ Frame(t).step = "open" /\ Frame(t).buffer = <<>>
      BY DEF Frame, Frames
<1>3. (IF kind = "Insert" THEN <<Frame(t)>> ELSE <<>>) \in Seq(Frames)
      BY <1>2
<1>4. /\ op' \in Queries /\ op'.kind = kind /\ op'.table = t /\ op'.step = "next"
      /\ op'.frames = IF kind = "Insert" THEN <<Frame(t)>> ELSE <<>>
  <2>1. count[t] \in Nat /\ holes[t] \in SUBSET Positions
        BY DEF TypeOK
  <2> DEFINE fs == IF kind = "Insert" THEN <<Frame(t)>> ELSE <<>>
  <2> HIDE DEF fs
  <2>2. fs \in Seq(Frames) /\ op' = [NoOp EXCEPT !.kind = kind, !.table = t, !.frames = fs,
                                                 !.entries = count[t], !.holes = holes[t]]
        BY <1>1, <1>3 DEF fs
  <2>3. op' \in Queries /\ op'.kind = kind /\ op'.table = t /\ op'.step = "next" /\ op'.frames = fs
        BY <2>1, <2>2 DEF Queries, Kinds, NoOp
  <2>4. QED
        BY <2>3 DEF fs
<1>5. Queries' = Queries
      BY DEF Queries, Frames, Slots, Positions
<1>6. log' \in Seq(Lines) /\ LogsOK'
      BY <1>1, LogsGrow, MadeLines, LineKinds
<1>7. batch' \in Batches'
      BY <1>1, BatchesStay
<1>8. TypeOK'
      BY <1>1, <1>4, <1>5, <1>6, <1>7 DEF TypeOK
<1>9. OpOK'
  <2>1. Len(op'.frames) \in {0, 1} /\ (kind # "Insert" => op'.frames = <<>>)
        BY <1>4
  <2>2. QED
        BY <1>1, <1>4, <2>1 DEF OpOK
<1>10. FilesOK' /\ JobOK' /\ BatchOK'
      BY <1>1, FilesStay, JobRests, BatchStays
<1>11. FramesOK'
  <2>1. file[t] \in Seq(Slots) /\ file[t] \o <<>> = file[t]
        BY DEF TypeOK
  <2>2. FrameOK(Frame(t))'
        BY <1>1, <1>2, <2>1 DEF FrameOK, FilesOK
  <2>3. \A k \in DOMAIN op'.frames : op'.frames[k] = Frame(t)
        BY <1>4
  <2>4. QED
        BY <2>2, <2>3 DEF FramesOK
<1>12. GuardsOK'
      BY <1>4 DEF GuardsOK
<1>13. QED
      BY <1>8, <1>9, <1>10, <1>11, <1>12, <1>6

\* A query ends, by closing its transaction or with an exception.
LEMMA QuitKeeps ==
    ASSUME TablesIInv, phase = "query", Returns, UnchangedByQueries, holes' = holes, count' = count,
           file' \in [Tables -> Seq(Slots)], FilesOK', used' = used,
           log' = log \/ Log(CloseLine)
    PROVE  TablesIInv'
<1> USE DEF TablesIInv
<1>1. /\ phase' = "idle" /\ op' = NoOp
      /\ UNCHANGED <<oldLog, rolled, batch, job>>
      BY DEF Returns, UnchangedByQueries
<1>2. op' \in Queries' /\ OpOK' /\ FramesOK' /\ GuardsOK'
      BY <1>1, NoOpLater
<1>3. log' \in Seq(Lines) /\ LogsOK'
  <2>1. CASE log' = log
        BY <1>1, <2>1, LogsStay DEF TypeOK
  <2>2. CASE Log(CloseLine)
        BY <1>1, <2>2, LogsGrow, MadeLines, LineKinds
  <2>3. QED
        BY <2>1, <2>2
<1>4. batch' \in Batches'
      BY <1>1, BatchesStay
<1>5. TypeOK'
      BY <1>1, <1>2, <1>3, <1>4 DEF TypeOK
<1>6. JobOK' /\ BatchOK'
      BY <1>1, JobRests, BatchStays
<1>7. QED
      BY <1>2, <1>3, <1>5, <1>6

LEMMA SavePointKeeps ==
    ASSUME TablesIInv, NEW h \in Hashes, SavePoint(h)
    PROVE  TablesIInv'
<1> USE DEF TablesIInv
<1>1. /\ phase = "idle" /\ phase' = "idle" /\ Log(SavePointLine(h))
      /\ UNCHANGED <<file, holes, count, oldLog, rolled, batch, op, job, used>>
      BY DEF SavePoint, store
<1>2. op = NoOp
      BY <1>1 DEF OpOK
<1>3. op' \in Queries' /\ OpOK' /\ FramesOK' /\ GuardsOK'
      BY <1>1, <1>2, NoOpLater
<1>4. log' \in Seq(Lines) /\ LogsOK'
      BY <1>1, LogsGrow, MadeLines, LineKinds
<1>5. batch' \in Batches'
      BY <1>1, BatchesStay
<1>6. TypeOK'
      BY <1>1, <1>3, <1>4, <1>5 DEF TypeOK
<1>7. FilesOK' /\ JobOK' /\ BatchOK'
      BY <1>1, FilesStay, JobRests, BatchStays
<1>8. QED
      BY <1>3, <1>4, <1>6, <1>7

LEMMA RollbackKeeps ==
    ASSUME TablesIInv, NEW h \in Hashes, RollbackTo(h)
    PROVE  TablesIInv'
<1> USE DEF TablesIInv
<1>1. PICK t \in 0 .. Len(log) :
         /\ rolled' = rolled \cup PassedHashes(log, h, t)
         /\ job' = [hash |-> h, target |-> t, at |-> Len(log), again |-> TwoChanges(log, t)]
      BY DEF RollbackTo
<1>2. /\ phase = "idle" /\ phase' = "rollback"
      /\ UNCHANGED <<file, holes, count, log, oldLog, batch, op, used>>
      BY DEF RollbackTo, store
<1>3. op = NoOp /\ Len(log) \in Nat /\ t \in Nat
      BY <1>2 DEF OpOK, TypeOK
<1>4. op' \in Queries' /\ OpOK' /\ FramesOK' /\ GuardsOK'
      BY <1>2, <1>3, NoOpLater
<1>5. TwoChanges(log, t) \in BOOLEAN
      BY Zenon DEF TwoChanges
<1>6. /\ job' \in [hash : Hashes \cup {None}, target : Nat, at : Nat, again : BOOLEAN]
      /\ job'.target = t /\ job'.at = Len(log) /\ job'.hash = h
      BY <1>1, <1>3, <1>5
<1>7. rolled' \subseteq Hashes
      BY <1>1 DEF TypeOK, PassedHashes
<1>8. batch' \in Batches'
      BY <1>2, BatchesStay
<1>9. TypeOK'
      BY <1>2, <1>4, <1>6, <1>7, <1>8 DEF TypeOK
<1>10. FilesOK' /\ LogsOK'
      BY <1>2, FilesStay, LogsStay
<1>11. JobOK'
      BY <1>2, <1>3, <1>6 DEF JobOK, JobLog
<1>12. BatchOK'
      BY <1>2, NoBatchIsOK DEF BatchOK
<1>13. QED
      BY <1>4, <1>9, <1>10, <1>11, <1>12

-----------------------------------------------------------------------------
(* insert(). *)

LEMMA InsertionStays ==
    ASSUME NEW slot, NEW t, Insertion(slot, t), used \subseteq used',
           \A j \in DOMAIN log : j \in DOMAIN log' /\ log'[j] = log[j]
    PROVE  Insertion(slot, t)'
BY DEF Insertion

LEMMA FrameStays ==
    ASSUME NEW frame, FrameOK(frame), file'[frame.table] = file[frame.table], used \subseteq used',
           \A j \in DOMAIN log : j \in DOMAIN log' /\ log'[j] = log[j]
    PROVE  FrameOK(frame)'
<1>1. \A i \in DOMAIN frame.buffer : Insertion(frame.buffer[i], frame.table)'
      BY InsertionStays DEF FrameOK
<1>2. frame.step = "logged" => Insertion(frame.row, frame.table)'
      BY InsertionStays DEF FrameOK
<1>3. QED
      BY <1>1, <1>2 DEF FrameOK

LEMMA OneOrTwo ==
    ASSUME NEW fs \in Seq(Frames), fs # <<>>, Len(fs) <= 2
    PROVE  /\ (Len(fs) = 1 \/ Len(fs) = 2) /\ DOMAIN fs = 1 .. Len(fs) /\ Head(fs) = fs[1] /\ 1 \in DOMAIN fs
           /\ \A k \in DOMAIN fs : k # 1 => k = 2 /\ Len(fs) = 2
<1>1. Len(fs) \in Nat /\ DOMAIN fs = 1 .. Len(fs) /\ Len(fs) # 0
      BY EmptySeq
<1>2. Head(fs) = fs[1]
      BY HeadTailProperties
<1>3. QED
      BY <1>1, <1>2

\* The frames of the insert under way.
LEMMA TheFrames ==
    ASSUME TablesIInv, op.frames # <<>>
    PROVE  /\ op.frames \in Seq(Frames) /\ (Len(op.frames) = 1 \/ Len(op.frames) = 2)
           /\ DOMAIN op.frames = 1 .. Len(op.frames)
           /\ Top = op.frames[1] /\ Top \in Frames /\ Top.table \in Tables
           /\ Top.buffer \in Seq(Slots) /\ file[Top.table] \in Seq(Slots)
           /\ FrameOK(Top)
           /\ phase = "query" /\ op.kind = "Insert" /\ op.step = "next"
           /\ \A k \in DOMAIN op.frames : k # 1 =>
                 /\ k = 2 /\ Len(op.frames) = 2
                 /\ op.frames[2] \in Frames /\ op.frames[2].table # Top.table
                 /\ ChildOf[op.frames[2].table] = Top.table
                 /\ FrameOK(op.frames[2])
<1> USE DEF TablesIInv
<1>1. op.frames \in Seq(Frames) /\ Len(op.frames) <= 2
      BY DEF TypeOK, Queries, OpOK
<1>2. /\ (Len(op.frames) = 1 \/ Len(op.frames) = 2) /\ DOMAIN op.frames = 1 .. Len(op.frames)
      /\ Top = op.frames[1] /\ 1 \in DOMAIN op.frames
      /\ \A k \in DOMAIN op.frames : k # 1 => k = 2 /\ Len(op.frames) = 2
      BY <1>1, OneOrTwo DEF Top
<1>3. Top \in Frames
      BY <1>1, <1>2
<1>4. Top.table \in Tables /\ Top.buffer \in Seq(Slots)
      BY <1>3 DEF Frames
<1>5. file[Top.table] \in Seq(Slots)
      BY <1>4 DEF TypeOK
<1>6. FrameOK(Top)
      BY <1>2 DEF FramesOK
<1>7. op.kind = "Insert" /\ op.step = "next" /\ phase = "query"
  <2>1. NoOp.frames = <<>>
        BY DEF NoOp
  <2>2. QED
        BY <2>1 DEF OpOK, TypeOK, Queries
<1>8. ASSUME NEW k \in DOMAIN op.frames, k # 1
      PROVE  /\ k = 2 /\ Len(op.frames) = 2
             /\ op.frames[2] \in Frames /\ op.frames[2].table # Top.table
             /\ ChildOf[op.frames[2].table] = Top.table
             /\ FrameOK(op.frames[2])
  <2>1. k = 2 /\ Len(op.frames) = 2
        BY <1>2, <1>8
  <2>2. op.frames[2] \in Frames /\ ChildOf[op.frames[2].table] = Top.table
        BY <1>1, <1>2, <2>1 DEF OpOK
  <2>3. op.frames[2].table \in Tables
        BY <2>2 DEF Frames
  <2>4. op.frames[2].table # Top.table
    <3>1. /\ None \notin Tables
          /\ \A t \in Tables : ChildOf[t] # None => ChildOf[ChildOf[t]] = None
          BY Zenon, TableWalAssumption
    <3>2. Top.table # None
          BY <1>4, <3>1
    <3>3. QED
          BY <2>2, <2>3, <3>1, <3>2
  <2>5. QED
        BY <1>2, <2>1, <2>2, <2>4 DEF FramesOK
<1>9. QED
      BY <1>1, <1>2, <1>3, <1>4, <1>5, <1>6, <1>7, <1>8

\* A step of insert() that works in the frame in front.
LEMMA TopStepKeeps ==
    ASSUME TablesIInv, op.frames # <<>>, NEW frame \in Frames, frame.table = Top.table, SetTop(frame),
           phase' = phase, UnchangedByQueries, holes' = holes, count' \in [Tables -> Nat],
           file' \in [Tables -> Seq(Slots)], FilesOK',
           \A t \in Tables : t # Top.table => file'[t] = file[t],
           used \subseteq used', used' \subseteq Rids,
           log' = log \/ \E line \in Lines :
               Log(line) /\ IsChange(line) /\ line.kind = "Insert" /\ line.rid \in used',
           FrameOK(frame)'
    PROVE  TablesIInv'
<1> USE DEF TablesIInv
<1>1. /\ op.frames \in Seq(Frames) /\ (Len(op.frames) = 1 \/ Len(op.frames) = 2)
      /\ DOMAIN op.frames = 1 .. Len(op.frames)
      /\ phase = "query" /\ op.kind = "Insert" /\ op.step = "next"
      BY TheFrames
<1>2. UNCHANGED <<oldLog, rolled, batch, job>>
      BY DEF UnchangedByQueries
<1> DEFINE fs == <<frame>> \o Tail(op.frames)
<1>3. /\ fs \in Seq(Frames) /\ Len(fs) = Len(op.frames) /\ fs[1] = frame
      /\ Len(fs) = 2 => fs[2] = op.frames[2]
      /\ DOMAIN fs = 1 .. Len(op.frames)
      BY <1>1
<1>4. op' = [op EXCEPT !.frames = fs]
      BY DEF SetTop
<1> HIDE DEF fs
<1>5. /\ op' \in Queries /\ op'.frames = fs
      /\ op'.kind = "Insert" /\ op'.table = op.table /\ op'.step = "next"
      BY <1>1, <1>3, <1>4 DEF TypeOK, Queries
<1>6. Queries' = Queries
      BY DEF Queries, Frames, Slots, Positions
<1>7. /\ log' \in Seq(Lines) /\ LogsOK'
      /\ \A j \in DOMAIN log : j \in DOMAIN log' /\ log'[j] = log[j]
  <2>1. CASE log' = log
    <3>1. LogsOK'
          BY <1>1, <1>2, <1>5, <2>1, LogsStay
    <3>2. QED
          BY <2>1, <3>1 DEF TypeOK
  <2>2. CASE \E line \in Lines : Log(line) /\ IsChange(line) /\ line.kind = "Insert" /\ line.rid \in used'
    <3>1. PICK line \in Lines : Log(line) /\ IsChange(line) /\ line.kind = "Insert" /\ line.rid \in used'
          BY <2>2
    <3>2. log' \in Seq(Lines) /\ LogsOK'
          BY <1>1, <1>2, <1>5, <3>1, LogsGrow
    <3>3. QED
          BY <3>1, <3>2, Logged DEF TypeOK
  <2>3. QED
        BY <2>1, <2>2
<1>8. batch' \in Batches'
      BY <1>2, BatchesStay
<1>9. TypeOK'
      BY <1>1, <1>2, <1>5, <1>6, <1>7, <1>8 DEF TypeOK
<1>10. OpOK'
  <2>1. Len(fs) = 2 => ChildOf[fs[2].table] = fs[1].table
        BY <1>1, <1>3, TheFrames
  <2>2. Len(fs) <= 2
    <3>1. PICK n : n = Len(fs)
          OBVIOUS
    <3>2. n = 1 \/ n = 2
          BY <1>1, <1>3, <3>1
    <3>3. QED
          BY <3>1, <3>2
  <2>3. op'.kind \in Kinds /\ op'.table \in Tables
        BY <1>1, <1>5 DEF OpOK, Kinds
  <2>4. QED
        BY <1>1, <1>5, <2>1, <2>2, <2>3 DEF OpOK
<1>11. FramesOK'
  <2>1. ASSUME NEW k \in DOMAIN op.frames, k # 1
        PROVE  FrameOK(op.frames[k])'
    <3>1. /\ op.frames[2] \in Frames /\ op.frames[2].table # Top.table /\ FrameOK(op.frames[2])
          BY <2>1, TheFrames
    <3>2. op.frames[2].table \in Tables
          BY <3>1 DEF Frames
    <3>3. PICK f : f = op.frames[2]
          OBVIOUS
    <3>4. f.table # Top.table /\ f.table \in Tables /\ FrameOK(f)
          BY <3>1, <3>2, <3>3
    <3>5. FrameOK(f)'
          BY <1>7, <3>4, FrameStays
    <3>6. k = 2 /\ Len(fs) = 2
          BY <1>3, <2>1, TheFrames
    <3>7. op'.frames[k] = f
          BY <1>3, <1>5, <3>3, <3>6
    <3>8. QED
          BY <3>5, <3>7
  <2>2. op'.frames[1] = frame /\ DOMAIN op'.frames = DOMAIN op.frames
        BY <1>1, <1>3, <1>5
  <2>3. QED
        BY <2>1, <2>2 DEF FramesOK
<1>12. GuardsOK'
      BY <1>5 DEF GuardsOK
<1>13. JobOK' /\ BatchOK'
      BY <1>1, <1>2, JobRests, BatchStays
<1>14. QED
      BY <1>7, <1>9, <1>10, <1>11, <1>12, <1>13

LEMMA SameLog ==
    ASSUME log' = log
    PROVE  \A j \in DOMAIN log : j \in DOMAIN log' /\ log'[j] = log[j]
OBVIOUS

LEMMA InsertOpensKeeps ==
    ASSUME TablesIInv, InsertOpens
    PROVE  TablesIInv'
<1> DEFINE frame == [Top EXCEPT !.entries = count[Top.table], !.step = "object"]
<1>1. /\ op.frames # <<>> /\ SetTop(frame) /\ count' = [count EXCEPT ![Top.table] = 0]
      /\ UNCHANGED <<file, holes, log, phase, used>> /\ UnchangedByQueries
      BY DEF InsertOpens, InFrame
<1>2. /\ Top \in Frames /\ Top.table \in Tables /\ FrameOK(Top)
      BY <1>1, TheFrames
<1>3. TypeOK /\ FilesOK
      BY DEF TablesIInv
<1>4. count[Top.table] \in Nat /\ count' \in [Tables -> Nat]
      BY <1>1, <1>2, <1>3 DEF TypeOK
<1>5. /\ frame \in Frames /\ frame.table = Top.table /\ frame.buffer = Top.buffer
      /\ frame.step = "object"
      BY <1>2, <1>4 DEF Frames
<1> HIDE DEF frame
<1>6. FrameOK(frame)
      BY <1>2, <1>5 DEF FrameOK
<1>7. PICK f : f = frame
      OBVIOUS
<1>8. FrameOK(f)'
      BY <1>1, <1>6, <1>7, FrameStays, SameLog
<1>9. /\ file' \in [Tables -> Seq(Slots)] /\ FilesOK' /\ used' \subseteq Rids
      BY <1>1, <1>3, FilesStay DEF TypeOK
<1>10. f \in Frames /\ f.table = Top.table /\ SetTop(f)
      BY <1>1, <1>5, <1>7
<1>11. QED
      BY <1>1, <1>4, <1>8, <1>9, <1>10, TopStepKeeps

LEMMA InsertCountsKeeps ==
    ASSUME TablesIInv, InsertCounts
    PROVE  TablesIInv'
<1> PICK step \in {"object", "close"} : step = IF Innermost THEN "object" ELSE "close"
    OBVIOUS
<1> DEFINE frame == [Top EXCEPT !.entries = @ + 1, !.ref = None, !.step = step]
<1>1. /\ op.frames # <<>> /\ Top.step = "buffered"
      /\ SetTop(frame) /\ count' = [count EXCEPT ![Top.table] = Top.entries + 1]
      /\ UNCHANGED <<file, holes, log, phase, used>> /\ UnchangedByQueries
      BY DEF InsertCounts, InFrame
<1>2. /\ Top \in Frames /\ Top.table \in Tables /\ FrameOK(Top)
      BY <1>1, TheFrames
<1>3. TypeOK /\ FilesOK
      BY DEF TablesIInv
<1>4. Top.entries \in Nat /\ count' \in [Tables -> Nat]
      BY <1>1, <1>2, <1>3 DEF TypeOK, Frames
<1>5. /\ frame \in Frames /\ frame.table = Top.table /\ frame.buffer = Top.buffer
      /\ frame.row = Top.row /\ frame.step \in {"object", "close"}
  <2>1. PICK n \in Nat : n = Top.entries + 1
        BY <1>4
  <2>2. frame = [Top EXCEPT !.entries = n, !.ref = None, !.step = step]
        BY <2>1
  <2>3. step = "object" \/ step = "close"
        OBVIOUS
  <2>4. QED
        BY <1>2, <2>2, <2>3 DEF Frames
<1> HIDE DEF frame
<1>6. FrameOK(frame)
      BY <1>1, <1>2, <1>5 DEF FrameOK
<1>7. PICK f : f = frame
      OBVIOUS
<1>8. FrameOK(f)'
      BY <1>1, <1>6, <1>7, FrameStays, SameLog
<1>9. /\ file' \in [Tables -> Seq(Slots)] /\ FilesOK' /\ used' \subseteq Rids
      BY <1>1, <1>3, FilesStay DEF TypeOK
<1>10. f \in Frames /\ f.table = Top.table /\ SetTop(f)
      BY <1>1, <1>5, <1>7
<1>11. QED
      BY <1>1, <1>4, <1>8, <1>9, <1>10, TopStepKeeps

\* A row with a new rid is logged.
LEMMA InsertLogsKeeps ==
    ASSUME TablesIInv, NEW r \in Rids, NEW v \in Inserted[r], InsertLogs(r, v)
    PROVE  TablesIInv'
<1> DEFINE slot == Slot(r, v, "0")
           frame == [Top EXCEPT !.row = slot, !.step = "logged"]
<1>1. /\ op.frames # <<>> /\ Top.step \in {"nested", "object"}
      /\ r \notin used /\ TableOf[r] = Top.table
      /\ Log(InsertLine(r)) /\ used' = used \cup {r} /\ SetTop(frame)
      /\ UNCHANGED <<file, holes, count, phase>> /\ UnchangedByQueries
      BY DEF InsertLogs, InFrame, store
<1>2. /\ Top \in Frames /\ Top.table \in Tables /\ FrameOK(Top)
      /\ Top.buffer \in Seq(Slots) /\ file[Top.table] \in Seq(Slots)
      BY <1>1, TheFrames
<1>3. TypeOK /\ FilesOK
      BY DEF TablesIInv
<1>4. slot \in Slots /\ slot.rid = r
      BY SlotParts, TableWalAssumption
<1> HIDE DEF slot
<1>5. /\ frame \in Frames /\ frame.table = Top.table /\ frame.buffer = Top.buffer
      /\ frame.row = slot /\ frame.step = "logged"
      BY <1>2, <1>4 DEF Frames
<1> HIDE DEF frame
<1>6. PICK f : f = frame
      OBVIOUS
<1>7. PICK t : t = Top.table
      OBVIOUS
<1>8. f \in Frames /\ f.table = t /\ f.buffer = Top.buffer /\ f.row = slot /\ f.step = "logged"
      BY <1>5, <1>6, <1>7
<1>9. /\ \A j \in DOMAIN log : j \in DOMAIN log' /\ log'[j] = log[j]
      /\ log'[Len(log')] = InsertLine(r) /\ Len(log') \in DOMAIN log'
      BY <1>1, <1>3, Logged, MadeLines DEF TypeOK
<1>10. Distinct(file[t] \o f.buffer) /\ \A i \in DOMAIN f.buffer : Insertion(f.buffer[i], t)
      BY <1>2, <1>7, <1>8 DEF FrameOK
<1>11. \A i \in DOMAIN f.buffer : Insertion(f.buffer[i], t)'
      BY <1>1, <1>9, <1>10, InsertionStays
<1>12. Insertion(slot, t)'
      BY <1>1, <1>4, <1>7, <1>9 DEF Insertion
<1>13. \A i \in DOMAIN (file[t] \o f.buffer) : (file[t] \o f.buffer)[i].rid # slot.rid
  <2>1. \A i \in DOMAIN file[t] : file[t][i].rid # r
        BY <1>1, <1>2, <1>3, <1>7 DEF FilesOK
  <2>2. \A i \in DOMAIN f.buffer : f.buffer[i].rid # r
        BY <1>1, <1>10 DEF Insertion
  <2>3. file[t] \in Seq(Slots) /\ f.buffer \in Seq(Slots)
        BY <1>2, <1>7, <1>8
  <2>4. QED
        BY <1>4, <2>1, <2>2, <2>3, NoneBehind
<1>14. FrameOK(f)'
  <2>1. file'[t] = file[t] /\ slot \in Slots
        BY <1>1, <1>4
  <2>2. QED
        BY <1>8, <1>10, <1>11, <1>12, <1>13, <2>1 DEF FrameOK
<1>15. /\ file' \in [Tables -> Seq(Slots)] /\ FilesOK' /\ used' \subseteq Rids
       /\ count' \in [Tables -> Nat]
      BY <1>1, <1>3, FilesStay DEF TypeOK
<1>16. f \in Frames /\ f.table = Top.table /\ SetTop(f)
      BY <1>1, <1>6, <1>7, <1>8
<1>17. \E line \in Lines : Log(line) /\ IsChange(line) /\ line.kind = "Insert" /\ line.rid \in used'
      BY <1>1, MadeLines, LineKinds
<1>18. QED
      BY <1>1, <1>14, <1>15, <1>16, <1>17, TopStepKeeps

\* Rows that belong to t are put behind its file.
LEMMA FlushKeepsFiles ==
    ASSUME TypeOK, FilesOK, NEW t \in Tables, NEW b \in Seq(Slots), Distinct(file[t] \o b),
           \A i \in DOMAIN b : TableOf[b[i].rid] = t /\ b[i].rid \in used
    PROVE  /\ file[t] \o b \in Seq(Slots)
           /\ \A i \in DOMAIN (file[t] \o b) :
                 TableOf[(file[t] \o b)[i].rid] = t /\ (file[t] \o b)[i].rid \in used
<1>1. file[t] \in Seq(Slots)
      BY DEF TypeOK
<1> DEFINE rids == {r \in used : TableOf[r] = t}
<1>2. \A i \in DOMAIN file[t] : file[t][i].rid \in rids
      BY DEF FilesOK
<1>3. \A i \in DOMAIN b : b[i].rid \in rids
      OBVIOUS
<1> HIDE DEF rids
<1>4. \A i \in DOMAIN (file[t] \o b) : (file[t] \o b)[i].rid \in rids
      BY <1>1, <1>2, <1>3, AllBehind
<1>5. QED
      BY <1>1, <1>4, Concatenated DEF rids

LEMMA Flushed ==
    ASSUME TypeOK, FilesOK, NEW t \in Tables, NEW b \in Seq(Slots), Distinct(file[t] \o b),
           \A i \in DOMAIN b : TableOf[b[i].rid] = t /\ b[i].rid \in used,
           file' = [file EXCEPT ![t] = @ \o b], used' = used
    PROVE  /\ file' \in [Tables -> Seq(Slots)] /\ FilesOK'
           /\ file'[t] = file[t] \o b
           /\ \A u \in Tables : u # t => file'[u] = file[u]
<1> DEFINE m == file[t] \o b
<1>1. m \in Seq(Slots) /\ \A i \in DOMAIN m : TableOf[m[i].rid] = t /\ m[i].rid \in used
      BY FlushKeepsFiles
<1>2. Distinct(m) /\ file' = [file EXCEPT ![t] = m]
      OBVIOUS
<1> HIDE DEF m
<1>3. /\ file' \in [Tables -> Seq(Slots)] /\ file'[t] = m
      /\ \A u \in Tables : u # t => file'[u] = file[u]
      BY <1>1, <1>2 DEF TypeOK
<1>4. FilesOK'
      BY <1>1, <1>2, <1>3 DEF FilesOK
<1>5. QED
      BY <1>3, <1>4 DEF m

LEMMA InsertBuffersKeeps ==
    ASSUME TablesIInv, InsertBuffers
    PROVE  TablesIInv'
<1>1. /\ op.frames # <<>> /\ Top.step = "logged"
      /\ UNCHANGED <<holes, count, log, phase, used>> /\ UnchangedByQueries
      BY DEF InsertBuffers, InFrame
<1>2. PICK t, b, slot, s, rows :
         t = Top.table /\ b = Top.buffer /\ slot = Top.row /\ s = file[t] /\ rows = Append(b, slot)
      OBVIOUS
<1>3. PICK flushed, kept :
         /\ Flushes(flushed, kept)
         /\ \/ flushed = <<>> /\ kept = rows
            \/ flushed = b /\ kept = <<slot>>
            \/ flushed = rows /\ kept = <<>>
      BY <1>2, Zenon DEF InsertBuffers
<1>4. /\ Top \in Frames /\ t \in Tables /\ b \in Seq(Slots) /\ s \in Seq(Slots)
      /\ FrameOK(Top)
      BY <1>1, <1>2, TheFrames
<1>5. TypeOK /\ FilesOK
      BY DEF TablesIInv
<1>6. /\ Distinct(s \o b) /\ slot \in Slots /\ Insertion(slot, t)
      /\ \A i \in DOMAIN b : Insertion(b[i], t)
      /\ \A i \in DOMAIN (s \o b) : (s \o b)[i].rid # slot.rid
      BY <1>1, <1>2, <1>4 DEF FrameOK
<1>7. rows \in Seq(Slots) /\ <<slot>> \in Seq(Slots)
      BY <1>2, <1>4, <1>6
<1>8. flushed \in Seq(Slots) /\ kept \in Seq(Slots) /\ flushed \o kept = rows
  <2>1. CASE flushed = <<>> /\ kept = rows
        BY <1>7, <2>1
  <2>2. CASE flushed = b /\ kept = <<slot>>
    <3>1. b \o <<slot>> = Append(b, slot)
          BY <1>6
    <3>2. QED
          BY <1>2, <1>6, <1>7, <2>2, <3>1
  <2>3. CASE flushed = rows /\ kept = <<>>
        BY <1>7, <2>3
  <2>4. QED
        BY <1>3, <2>1, <2>2, <2>3
<1>9. Distinct(s \o rows)
  <2>1. s \o b \in Seq(Slots)
        BY <1>4, Concatenated
  <2>2. Distinct(Append(s \o b, slot))
        BY <1>6, <2>1, DistinctAppend
  <2>3. s \o rows = Append(s \o b, slot)
        BY <1>2, <1>4, <1>6, AppendBehind
  <2>4. QED
        BY <2>2, <2>3
<1>10. /\ \A i \in DOMAIN flushed : Insertion(flushed[i], t)
       /\ \A i \in DOMAIN kept : Insertion(kept[i], t)
  <2>1. \A i \in DOMAIN rows : (i \in DOMAIN b /\ rows[i] = b[i]) \/ rows[i] = slot
        BY <1>2, <1>4, <1>6
  <2>2. \A i \in DOMAIN rows : Insertion(rows[i], t)
        BY <1>6, <2>1
  <2>3. \A i \in DOMAIN <<slot>> : <<slot>>[i] = slot
        OBVIOUS
  <2>4. QED
        BY <1>3, <1>6, <2>2, <2>3
<1>11. PICK f : f = [Top EXCEPT !.buffer = kept, !.step = "buffered"]
      OBVIOUS
<1>12. /\ f \in Frames /\ f.table = t /\ f.buffer = kept /\ f.step = "buffered" /\ f.row = slot
      BY <1>2, <1>4, <1>8, <1>11 DEF Frames
<1>13. SetTop(f) /\ file' = [file EXCEPT ![t] = @ \o flushed]
      BY <1>2, <1>3, <1>11 DEF Flushes
<1>14. PICK sf : sf = s \o flushed
      OBVIOUS
<1>15. sf \in Seq(Slots) /\ sf \o kept = s \o rows
  <2>1. (s \o flushed) \o kept = s \o (flushed \o kept)
        BY <1>4, <1>8, Regrouped
  <2>2. QED
        BY <1>4, <1>8, <1>14, <2>1, Concatenated
<1>16. Distinct(sf)
      BY <1>8, <1>9, <1>15, DistinctParts
<1>17. /\ file' \in [Tables -> Seq(Slots)] /\ FilesOK' /\ file'[t] = sf
       /\ \A u \in Tables : u # t => file'[u] = file[u]
  <2>1. \A i \in DOMAIN flushed : TableOf[flushed[i].rid] = t /\ flushed[i].rid \in used
        BY <1>10 DEF Insertion
  <2>2. Distinct(file[t] \o flushed) /\ used' = used
        BY <1>1, <1>2, <1>14, <1>16
  <2>3. /\ file' \in [Tables -> Seq(Slots)] /\ FilesOK' /\ file'[t] = file[t] \o flushed
        /\ \A u \in Tables : u # t => file'[u] = file[u]
        BY ZenonT(60), <1>4, <1>5, <1>8, <1>13, <2>1, <2>2, Flushed
  <2>4. QED
        BY <1>2, <1>14, <2>3
<1>18. \A i \in DOMAIN kept : Insertion(kept[i], t)'
      BY <1>1, <1>10, InsertionStays, SameLog
<1>19. FrameOK(f)'
  <2>1. Distinct(file'[t] \o kept)
        BY <1>9, <1>15, <1>17
  <2>2. QED
        BY <1>6, <1>12, <1>18, <2>1 DEF FrameOK
<1>20. used' \subseteq Rids /\ count' \in [Tables -> Nat]
      BY <1>1, <1>5 DEF TypeOK
<1>21. QED
      BY <1>1, <1>2, <1>12, <1>13, <1>17, <1>19, <1>20, TopStepKeeps

\* A step of insert() that adds or removes a frame.
LEMMA FramesStepKeeps ==
    ASSUME TablesIInv, op.frames # <<>>, NEW fs \in Seq(Frames), op' = [op EXCEPT !.frames = fs],
           Len(fs) <= 2, Len(fs) = 2 => ChildOf[fs[2].table] = fs[1].table,
           UnchangedByQueries, UNCHANGED <<holes, count, log, phase, used>>,
           file' \in [Tables -> Seq(Slots)], FilesOK',
           \A k \in DOMAIN fs : FrameOK(fs[k])'
    PROVE  TablesIInv'
<1> USE DEF TablesIInv
<1>1. phase = "query" /\ op.kind = "Insert" /\ op.step = "next"
      BY TheFrames
<1>2. UNCHANGED <<oldLog, rolled, batch, job>>
      BY DEF UnchangedByQueries
<1>3. /\ op' \in Queries /\ op'.frames = fs
      /\ op'.kind = "Insert" /\ op'.table = op.table /\ op'.step = "next"
      BY <1>1 DEF TypeOK, Queries
<1>4. Queries' = Queries
      BY DEF Queries, Frames, Slots, Positions
<1>5. batch' \in Batches'
      BY <1>2, BatchesStay
<1>6. TypeOK'
      BY <1>1, <1>2, <1>3, <1>4, <1>5 DEF TypeOK
<1>7. LogsOK'
      BY <1>1, <1>2, <1>3, LogsStay
<1>8. OpOK'
  <2>1. op'.kind \in Kinds /\ op'.table \in Tables
        BY <1>1, <1>3 DEF OpOK, Kinds
  <2>2. QED
        BY <1>1, <1>3, <2>1 DEF OpOK
<1>9. FramesOK' /\ GuardsOK'
      BY <1>3 DEF FramesOK, GuardsOK
<1>10. JobOK' /\ BatchOK'
      BY <1>1, <1>2, JobRests, BatchStays
<1>11. QED
      BY <1>6, <1>7, <1>8, <1>9, <1>10

LEMMA OneBefore ==
    ASSUME NEW old \in Seq(Frames), Len(old) = 1, NEW new \in Frames
    PROVE  /\ <<new>> \o old \in Seq(Frames) /\ Len(<<new>> \o old) = 2
           /\ (<<new>> \o old)[1] = new /\ (<<new>> \o old)[2] = old[1]
<1>1. PICK s : s = <<new>>
      OBVIOUS
<1>2. s \in Seq(Frames) /\ Len(s) = 1 /\ s[1] = new
      BY <1>1
<1>3. /\ s \o old \in Seq(Frames) /\ Len(s \o old) = Len(s) + Len(old)
      /\ \A i \in 1 .. Len(s) + Len(old) :
            (s \o old)[i] = IF i <= Len(s) THEN s[i] ELSE old[i - Len(s)]
      BY <1>2, ConcatProperties
<1>4. QED
      BY <1>1, <1>2, <1>3

LEMMA InsertNestsKeeps ==
    ASSUME TablesIInv, InsertNests
    PROVE  TablesIInv'
<1>1. /\ op.frames # <<>> /\ Nests(Top.table)
      /\ op' = [op EXCEPT !.frames = <<Frame(ChildOf[Top.table])>> \o @]
      /\ UNCHANGED <<file, holes, count, log, phase, used>> /\ UnchangedByQueries
      BY DEF InsertNests, InFrame, store
<1>2. PICK old, top, c : old = op.frames /\ top = Top /\ c = ChildOf[Top.table]
      OBVIOUS
<1>3. /\ old \in Seq(Frames) /\ (Len(old) = 1 \/ Len(old) = 2)
      /\ top = old[1] /\ top \in Frames /\ top.table \in Tables
      /\ Len(old) = 2 => old[2] \in Frames /\ ChildOf[old[2].table] = top.table
      /\ FrameOK(top)
  <2>1. Len(old) = 2 => 2 \in DOMAIN old
        BY <1>1, <1>2, TheFrames
  <2>2. QED
        BY <1>1, <1>2, <2>1, TheFrames
<1>4. c # None /\ c \in Tables /\ c = ChildOf[top.table]
      BY <1>1, <1>2, <1>3, TableWalAssumption DEF Nests
<1>5. Len(old) = 1
  <2>1. Len(old) = 2 => old[2].table \in Tables
        BY <1>3 DEF Frames
  <2>2. QED
        BY <1>3, <1>4, <2>1, TableWalAssumption
<1>6. /\ Frame(c) \in Frames /\ Frame(c).table = c /\ Frame(c).step = "open"
      /\ Frame(c).buffer = <<>>
      BY <1>4 DEF Frame, Frames
<1>7. PICK new : new = Frame(c)
      OBVIOUS
<1>8. PICK fs : fs = <<new>> \o old
      OBVIOUS
<1>9. /\ fs \in Seq(Frames) /\ Len(fs) = 2 /\ fs[1] = new /\ fs[2] = top
      /\ DOMAIN fs = 1 .. 2
  <2>1. new \in Frames
        BY <1>6, <1>7
  <2>2. <<new>> \in Seq(Frames) /\ Len(<<new>>) = 1 /\ <<new>>[1] = new
        BY <2>1
  <2>3. /\ fs \in Seq(Frames) /\ Len(fs) = 2 /\ fs[1] = new /\ fs[2] = old[1]
        BY <1>3, <1>5, <1>8, <2>1, OneBefore
  <2>4. QED
        BY <1>3, <1>5, <2>3
<1>10. TypeOK /\ FilesOK
      BY DEF TablesIInv
<1>11. /\ file' \in [Tables -> Seq(Slots)] /\ FilesOK'
      BY <1>1, <1>10, FilesStay DEF TypeOK
<1>12. FrameOK(new)'
  <2>1. file[c] \in Seq(Slots) /\ file[c] \o <<>> = file[c]
        BY <1>4, <1>10 DEF TypeOK
  <2>2. new.table = c /\ new.step = "open" /\ new.buffer = <<>> /\ file'[c] = file[c]
        BY <1>1, <1>6, <1>7
  <2>3. Distinct(file'[c])
        BY <1>4, <1>10, <2>2 DEF FilesOK
  <2>4. QED
        BY <2>1, <2>2, <2>3 DEF FrameOK
<1>13. FrameOK(top)'
      BY <1>1, <1>3, FrameStays, SameLog
<1>14. \A k \in DOMAIN fs : FrameOK(fs[k])'
      BY <1>9, <1>12, <1>13
<1>15. op' = [op EXCEPT !.frames = fs]
      BY <1>1, <1>2, <1>7, <1>8
<1>16. ChildOf[fs[2].table] = fs[1].table
      BY <1>4, <1>6, <1>7, <1>9
<1>17. Len(fs) <= 2
      BY <1>9
<1>18. UNCHANGED <<holes, count, log, phase, used>> /\ UnchangedByQueries
      BY <1>1
<1>19. QED
      BY <1>1, <1>9, <1>11, <1>14, <1>15, <1>16, <1>17, <1>18, FramesStepKeeps

LEMMA InsertFlushesKeeps ==
    ASSUME TablesIInv, InsertFlushes
    PROVE  TablesIInv'
<1>1. PICK t, b, top : t = Top.table /\ b = Top.buffer /\ top = Top
      OBVIOUS
<1>2. /\ op.frames # <<>> /\ (top.step = "close" \/ Innermost)
      /\ file' = [file EXCEPT ![t] = @ \o b]
      /\ op' = [op EXCEPT !.frames =
             IF Innermost THEN <<>>
             ELSE <<[op.frames[2] EXCEPT !.ref = top.row.rid, !.step = "nested"]>>]
      /\ UNCHANGED <<holes, count, log, phase, used>> /\ UnchangedByQueries
      BY <1>1 DEF InsertFlushes, InFrame
<1>3. /\ top \in Frames /\ t \in Tables /\ b \in Seq(Slots) /\ FrameOK(top) /\ t = top.table
      BY <1>1, <1>2, TheFrames
<1>4. TypeOK /\ FilesOK
      BY DEF TablesIInv
<1>5. /\ file' \in [Tables -> Seq(Slots)] /\ FilesOK'
      /\ \A u \in Tables : u # t => file'[u] = file[u]
  <2>1. Distinct(file[t] \o b) /\ \A i \in DOMAIN b : TableOf[b[i].rid] = t /\ b[i].rid \in used
        BY <1>1, <1>3 DEF FrameOK, Insertion
  <2>2. used' = used
        BY <1>2
  <2>3. QED
        BY <1>2, <1>3, <1>4, <2>1, <2>2, Flushed
<1>6. CASE Innermost
  <2>1. PICK fs : fs = <<>>
        OBVIOUS
  <2>2. op' = [op EXCEPT !.frames = fs]
        BY <1>2, <1>6, <2>1
  <2>3. fs \in Seq(Frames) /\ Len(fs) = 0 /\ \A k \in DOMAIN fs : FrameOK(fs[k])'
        BY <2>1
  <2>4. Len(fs) <= 2 /\ Len(fs) # 2
        BY <2>3
  <2>5. UNCHANGED <<holes, count, log, phase, used>> /\ UnchangedByQueries
        BY <1>2
  <2>6. QED
        BY <1>2, <1>5, <2>2, <2>3, <2>4, <2>5, FramesStepKeeps
<1>7. CASE ~Innermost
  <2>1. 2 \in DOMAIN op.frames
        BY <1>2, <1>7, TheFrames DEF Innermost
  <2>2. PICK below : below = op.frames[2]
        OBVIOUS
  <2>3. below \in Frames /\ below.table # t /\ below.table \in Tables /\ FrameOK(below)
    <3>1. below \in Frames /\ below.table # t /\ FrameOK(below)
          BY <1>1, <1>2, <2>1, <2>2, TheFrames
    <3>2. QED
          BY <3>1 DEF Frames
  <2>4. top.row \in Slots /\ top.row.rid \in Rids
    <3>1. top.row \in Slots
          BY <1>2, <1>3, <1>7 DEF FrameOK
    <3>2. QED
          BY <3>1, SlotParts
  <2>5. PICK new : new = [below EXCEPT !.ref = top.row.rid, !.step = "nested"]
        OBVIOUS
  <2>6. new \in Frames /\ new.table = below.table /\ new.buffer = below.buffer /\ new.step = "nested"
        BY <2>3, <2>4, <2>5 DEF Frames
  <2>7. FrameOK(new)
        BY <2>3, <2>6 DEF FrameOK
  <2>8. FrameOK(new)'
        BY <1>2, <1>5, <2>3, <2>6, <2>7, FrameStays, SameLog
  <2>9. PICK fs : fs = <<new>>
        OBVIOUS
  <2>10. /\ fs \in Seq(Frames) /\ Len(fs) = 1 /\ \A k \in DOMAIN fs : fs[k] = new
        BY <2>6, <2>9
  <2>11. op' = [op EXCEPT !.frames = fs]
        BY <1>2, <1>7, <2>2, <2>5, <2>9
  <2>12. \A k \in DOMAIN fs : FrameOK(fs[k])'
        BY <2>8, <2>10
  <2>13. Len(fs) <= 2 /\ Len(fs) # 2
        BY <2>10
  <2>14. UNCHANGED <<holes, count, log, phase, used>> /\ UnchangedByQueries
        BY <1>2
  <2>15. QED
        BY <1>2, <1>5, <2>10, <2>11, <2>12, <2>13, <2>14, FramesStepKeeps
<1>8. QED
      BY <1>6, <1>7

\* The rows that wait for t, if an insert works on t.
LEMMA WaitingRows ==
    ASSUME NEW t
    PROVE  Buffered(t) = <<>> \/ \E k \in DOMAIN op.frames :
               op.frames[k].table = t /\ Buffered(t) = op.frames[k].buffer
<1> DEFINE frames == {frame \in ToSet(op.frames) : frame.table = t}
<1>1. frames # {} => (CHOOSE frame \in frames : TRUE) \in frames
      OBVIOUS
<1>2. \A frame \in frames : \E k \in DOMAIN op.frames : op.frames[k] = frame /\ frame.table = t
      BY DEF ToSet
<1>3. Buffered(t) = IF frames = {} THEN <<>> ELSE (CHOOSE frame \in frames : TRUE).buffer
      BY DEF Buffered
<1> HIDE DEF frames
<1>4. PICK frame : frame = CHOOSE f \in frames : TRUE
      OBVIOUS
<1>5. QED
      BY <1>1, <1>2, <1>3, <1>4

\* They are logged, belong to t and are not in its file.
LEMMA WaitingAreRows ==
    ASSUME TablesIInv, NEW t \in Tables
    PROVE  /\ file[t] \in Seq(Slots) /\ Buffered(t) \in Seq(Slots)
           /\ Distinct(file[t] \o Buffered(t))
           /\ \A i \in DOMAIN Buffered(t) : Insertion(Buffered(t)[i], t)
<1>1. PICK b : b = Buffered(t)
      OBVIOUS
<1>2. TypeOK /\ FilesOK /\ FramesOK /\ file[t] \in Seq(Slots)
      BY DEF TablesIInv, TypeOK
<1>3. CASE b = <<>>
  <2>1. file[t] \o b = file[t] /\ b \in Seq(Slots)
        BY <1>2, <1>3
  <2>2. QED
        BY <1>1, <1>2, <1>3, <2>1 DEF FilesOK
<1>4. CASE \E k \in DOMAIN op.frames : op.frames[k].table = t /\ b = op.frames[k].buffer
  <2>1. PICK k \in DOMAIN op.frames : op.frames[k].table = t /\ b = op.frames[k].buffer
        BY <1>4
  <2>2. PICK frame : frame = op.frames[k]
        OBVIOUS
  <2>3. op.frames \in Seq(Frames)
        BY <1>2 DEF TypeOK, Queries
  <2>4. frame \in Frames
        BY <2>1, <2>2, <2>3
  <2>5. FrameOK(frame) /\ frame.table = t /\ frame.buffer = b
        BY <1>2, <2>1, <2>2 DEF FramesOK
  <2>6. b \in Seq(Slots)
        BY <2>4, <2>5 DEF Frames
  <2>7. Distinct(file[t] \o b) /\ \A i \in DOMAIN b : Insertion(b[i], t)
        BY <2>5 DEF FrameOK
  <2>8. QED
        BY <1>1, <1>2, <2>6, <2>7
<1>5. QED
      BY <1>1, <1>3, <1>4, WaitingRows

LEMMA InsertThrowsKeeps ==
    ASSUME TablesIInv, InsertThrows
    PROVE  TablesIInv'
<1>1. /\ op.frames # <<>> /\ file' = [t \in Tables |-> file[t] \o Buffered(t)]
      /\ Returns /\ UNCHANGED <<holes, count, log, used>> /\ UnchangedByQueries
      BY DEF InsertThrows, InFrame
<1>2. TypeOK /\ FilesOK /\ phase = "query"
      BY <1>1, TheFrames DEF TablesIInv
<1>3. ASSUME NEW t \in Tables
      PROVE  /\ file'[t] \in Seq(Slots) /\ Distinct(file'[t])
             /\ \A i \in DOMAIN file'[t] : TableOf[file'[t][i].rid] = t /\ file'[t][i].rid \in used
  <2>1. PICK b, m : b = Buffered(t) /\ m = file[t] \o b
        OBVIOUS
  <2>2. file'[t] = m
        BY <1>1, <2>1
  <2>3. /\ b \in Seq(Slots) /\ Distinct(file[t] \o b)
        /\ \A i \in DOMAIN b : TableOf[b[i].rid] = t /\ b[i].rid \in used
        BY <2>1, WaitingAreRows DEF Insertion
  <2>4. m \in Seq(Slots) /\ \A i \in DOMAIN m : TableOf[m[i].rid] = t /\ m[i].rid \in used
        BY <1>2, <2>1, <2>3, FlushKeepsFiles
  <2>5. QED
        BY <2>1, <2>2, <2>3, <2>4
<1>4. file' \in [Tables -> Seq(Slots)] /\ FilesOK'
      BY <1>1, <1>3 DEF FilesOK
<1>5. QED
      BY <1>1, <1>2, <1>4, QuitKeeps

\* The part of a row that a crash leaves is of a row that was not in the file.
LEMMA TornRow ==
    ASSUME TablesIInv, NEW t \in Tables, Buffered(t) # <<>>
    PROVE  /\ 1 \in DOMAIN Buffered(t) /\ Head(Buffered(t)) = Buffered(t)[1]
           /\ Head(Buffered(t)) \in Slots /\ Insertion(Head(Buffered(t)), t)
           /\ Append(file[t], Head(Buffered(t))) \in Seq(Slots)
           /\ Distinct(Append(file[t], Head(Buffered(t))))
<1>1. PICK s, b : s = file[t] /\ b = Buffered(t)
      OBVIOUS
<1>2. /\ s \in Seq(Slots) /\ b \in Seq(Slots) /\ b # <<>> /\ Distinct(s \o b)
      /\ \A i \in DOMAIN b : Insertion(b[i], t)
      BY <1>1, WaitingAreRows
<1>3. 1 \in DOMAIN b /\ Head(b) = b[1] /\ b[1] \in Slots
      BY <1>2, EmptySeq
<1>4. PICK sb : sb = s \o b
      OBVIOUS
<1>5. /\ \A i \in DOMAIN s : i \in DOMAIN sb /\ sb[i] = s[i]
      /\ Len(s) + 1 \in DOMAIN sb /\ sb[Len(s) + 1] = b[1]
      /\ DOMAIN s = 1 .. Len(s) /\ Len(s) \in Nat
      BY <1>2, <1>3, <1>4, Concatenated
<1>6. ASSUME NEW i \in DOMAIN s, s[i].rid = b[1].rid
      PROVE  FALSE
  <2>1. PICK j : j = Len(s) + 1
        OBVIOUS
  <2>2. /\ i \in DOMAIN sb /\ j \in DOMAIN sb /\ i # j
        /\ sb[i].rid = sb[j].rid
        BY <1>5, <1>6, <2>1
  <2>3. QED
        BY <1>2, <1>4, <2>2 DEF Distinct
<1>7. Append(s, b[1]) \in Seq(Slots) /\ Distinct(Append(s, b[1]))
  <2>1. Distinct(s)
        BY <1>2, DistinctParts
  <2>2. QED
        BY <1>2, <1>3, <1>6, <2>1, DistinctAppend
<1>8. QED
      BY <1>1, <1>2, <1>3, <1>7

LEMMA CrashKeeps ==
    ASSUME TablesIInv, Crash
    PROVE  TablesIInv'
<1>1. PICK torn \in SUBSET {t \in Tables : Buffered(t) # <<>>} :
         /\ file' = [t \in Tables |->
               IF t \in torn THEN Append(file[t], Head(Buffered(t))) ELSE file[t]]
         /\ holes' = [t \in Tables |->
               IF t \in torn THEN holes[t] \cup Behind(Len(file[t]) + 1) ELSE holes[t]]
      BY DEF Crash
<1>2. Stop /\ used' = used /\ TypeOK /\ FilesOK
      BY DEF Crash, Stop, TablesIInv
<1>3. holes' \in [Tables -> SUBSET Positions]
      BY <1>1, <1>2 DEF TypeOK, Behind
<1>4. ASSUME NEW t \in Tables
      PROVE  /\ file'[t] \in Seq(Slots) /\ Distinct(file'[t])
             /\ \A i \in DOMAIN file'[t] : TableOf[file'[t][i].rid] = t /\ file'[t][i].rid \in used
  <2>1. CASE t \notin torn
        BY <1>1, <1>2, <2>1 DEF TypeOK, FilesOK
  <2>2. CASE t \in torn
    <3>1. PICK slot, m : slot = Head(Buffered(t)) /\ m = Append(file[t], slot)
          OBVIOUS
    <3>2. slot \in Slots /\ Insertion(slot, t) /\ m \in Seq(Slots) /\ Distinct(m)
          BY <1>1, <2>2, <3>1, TornRow
    <3>3. \A i \in DOMAIN m : (i \in DOMAIN file[t] /\ m[i] = file[t][i]) \/ m[i] = slot
          BY <1>2, <3>1, <3>2 DEF TypeOK
    <3>4. file'[t] = m
          BY <1>1, <2>2, <3>1
    <3>5. QED
          BY <1>2, <3>2, <3>3, <3>4 DEF FilesOK, Insertion
  <2>3. QED
        BY <2>1, <2>2
<1>5. file' \in [Tables -> Seq(Slots)] /\ FilesOK'
      BY <1>1, <1>2, <1>4 DEF FilesOK
<1>6. QED
      BY <1>2, <1>3, <1>5, StopKeeps

-----------------------------------------------------------------------------
(* update() and deleteWhere(). *)

\* A logged content stays the newest one kept of its row until the row is
\* logged again.
LEMMA KeptLogged ==
    ASSUME TypeOK, NEW line \in Lines, Log(line), NEW r, NEW slot,
           Touches(line, r), line.before = Held(slot)
    PROVE  Kept(r, slot)'
<1>1. /\ log' # <<>> /\ Len(log') = Len(log) + 1 /\ Len(log) \in Nat
      /\ DOMAIN log' = 1 .. Len(log') /\ log'[Len(log')] = line
      BY Logged DEF TypeOK
<1>2. LastTouch(log', Len(log'), r)
      BY <1>1 DEF LastTouch
<1>3. QED
      BY <1>1, <1>2 DEF Kept

LEMMA KeptStays ==
    ASSUME TypeOK, NEW r, NEW slot, Kept(r, slot),
           log' = log \/ \E line \in Lines : Log(line) /\ ~Touches(line, r)
    PROVE  Kept(r, slot)'
<1>1. CASE log' = log
      BY <1>1 DEF Kept, LastTouch
<1>2. CASE \E line \in Lines : Log(line) /\ ~Touches(line, r)
  <2>1. PICK line \in Lines : Log(line) /\ ~Touches(line, r)
        BY <1>2
  <2>2. /\ DOMAIN log = 1 .. Len(log) /\ DOMAIN log' = 1 .. Len(log')
        /\ log'[Len(log')] = line
        /\ \A j \in DOMAIN log : j \in DOMAIN log' /\ log'[j] = log[j]
        /\ \A j \in DOMAIN log' : j \in DOMAIN log \/ j = Len(log')
        BY <2>1, Logged DEF TypeOK
  <2>3. PICK j \in DOMAIN log : LastTouch(log, j, r) /\ log[j].before = Held(slot)
        BY DEF Kept
  <2>4. LastTouch(log', j, r) /\ log'[j].before = Held(slot)
        BY <2>1, <2>2, <2>3 DEF LastTouch
  <2>5. QED
        BY <2>2, <2>4 DEF Kept
<1>3. QED
      BY <1>1, <1>2

\* The scan under way, and the row it has stopped at.
LEMMA TheScan ==
    ASSUME TablesIInv, phase = "query", op.kind # "Insert"
    PROVE  /\ op.kind \in {"Update", "Delete"} /\ op.table \in Tables /\ op.frames = <<>>
           /\ file[op.table] \in Seq(Slots) /\ op.at \in Nat
           /\ op.step # "next" =>
                 /\ op.at \in Positions /\ op.at \in DOMAIN file[op.table]
                 /\ Row \in Slots /\ Row.rid \in used /\ TableOf[Row.rid] = op.table
<1>1. TypeOK /\ OpOK /\ FilesOK
      BY DEF TablesIInv
<1>2. op.kind \in {"Update", "Delete"} /\ op.table \in Tables /\ op.frames = <<>>
      BY <1>1 DEF OpOK, Kinds
<1>3. file[op.table] \in Seq(Slots) /\ op.at \in Nat
      BY <1>1, <1>2 DEF TypeOK, Queries
<1>4. ASSUME op.step # "next"
      PROVE  /\ op.at \in Positions /\ op.at \in DOMAIN file[op.table]
             /\ Row \in Slots /\ Row.rid \in used /\ TableOf[Row.rid] = op.table
  <2>1. op.at \in Positions /\ op.at \in DOMAIN file[op.table]
        BY <1>1, <1>4 DEF OpOK
  <2>2. QED
        BY <1>1, <1>2, <1>3, <2>1 DEF Row, FilesOK
<1>5. QED
      BY <1>2, <1>3, <1>4

\* A step of a scan: it may log a line and write over a row.
LEMMA ScanStepKeeps ==
    ASSUME TablesIInv, phase = "query", op.kind # "Insert",
           op' \in Queries, op'.kind = op.kind, op'.table = op.table, op'.frames = op.frames,
           op'.step # "next" => op'.at \in Positions /\ op'.at \in DOMAIN file[op.table],
           op'.step \in {"nestedLogged", "nestedWritten"} => op.kind = "Update" /\ Nests(op.table),
           phase' = phase, UnchangedByQueries, count' = count, used' = used,
           holes' \in [Tables -> SUBSET Positions], \A t \in Tables : holes[t] \subseteq holes'[t],
           file' \in [Tables -> Seq(Slots)],
           \A t \in Tables : DOMAIN file'[t] = DOMAIN file[t],
           \A t \in Tables : \A i \in DOMAIN file[t] : file'[t][i].rid = file[t][i].rid,
           log' = log \/ \E line \in Lines :
               Log(line) /\ IsChange(line) /\ line.kind = op.kind /\ line.rid \in used,
           GuardsOK'
    PROVE  TablesIInv'
<1> USE DEF TablesIInv
<1>1. /\ op.kind \in {"Update", "Delete"} /\ op.table \in Tables /\ op.frames = <<>>
      BY TheScan
<1>2. UNCHANGED <<oldLog, rolled, batch, job>>
      BY DEF UnchangedByQueries
<1>3. Queries' = Queries
      BY DEF Queries, Frames, Slots, Positions
<1>4. log' \in Seq(Lines) /\ LogsOK'
  <2>1. CASE log' = log
    <3>1. LogsOK'
          BY <1>2, <2>1, LogsStay
    <3>2. QED
          BY <2>1, <3>1 DEF TypeOK
  <2>2. CASE \E line \in Lines : Log(line) /\ IsChange(line) /\ line.kind = op.kind /\ line.rid \in used
    <3>1. PICK line \in Lines : Log(line) /\ IsChange(line) /\ line.kind = op.kind /\ line.rid \in used
          BY <2>2
    <3>2. QED
          BY <1>1, <1>2, <3>1, LogsGrow
  <2>3. QED
        BY <2>1, <2>2
<1>5. batch' \in Batches'
      BY <1>2, BatchesStay
<1>6. TypeOK'
      BY <1>2, <1>3, <1>4, <1>5 DEF TypeOK
<1>7. OpOK'
  <2>1. Len(op'.frames) = 0
        BY <1>1
  <2>2. op'.kind \in Kinds /\ op'.kind \in {"Update", "Delete"}
        BY <1>1 DEF Kinds
  <2>3. QED
        BY <1>1, <2>1, <2>2 DEF OpOK
<1>8. FilesOK'
  <2>1. \A t \in Tables : Distinct(file'[t])
        BY DistinctKept DEF FilesOK
  <2>2. QED
        BY <2>1 DEF FilesOK
<1>9. FramesOK'
      BY <1>1 DEF FramesOK
<1>10. JobOK' /\ BatchOK'
      BY <1>2, JobRests, BatchStays
<1>11. QED
      BY <1>4, <1>6, <1>7, <1>8, <1>9, <1>10

\* What Overwrites does to the files.
LEMMA Overwritten ==
    ASSUME TypeOK, NEW t \in Tables, NEW i \in DOMAIN file[t], i \in Positions,
           NEW held \in RowContents, Overwrites(t, i, held)
    PROVE  /\ file' \in [Tables -> Seq(Slots)]
           /\ holes' \in [Tables -> SUBSET Positions]
           /\ \A u \in Tables : holes[u] \subseteq holes'[u]
           /\ \A u \in Tables : u # t => file'[u] = file[u]
           /\ \A u \in Tables : DOMAIN file'[u] = DOMAIN file[u]
           /\ \A u \in Tables : \A k \in DOMAIN file[u] : file'[u][k].rid = file[u][k].rid
           /\ \A k \in DOMAIN file[t] : k # i => file'[t][k] = file[t][k]
<1>1. CASE UNCHANGED <<file, holes>>
      BY <1>1 DEF TypeOK
<1>2. CASE /\ file' = [file EXCEPT ![t][i].val = held.val, ![t][i].del = held.del]
           /\ \E lost \in SUBSET Positions : holes' = [holes EXCEPT ![t] = @ \cup lost]
  <2>1. PICK lost \in SUBSET Positions : holes' = [holes EXCEPT ![t] = @ \cup lost]
        BY <1>2
  <2>2. /\ holes' \in [Tables -> SUBSET Positions]
        /\ \A u \in Tables : holes[u] \subseteq holes'[u]
        BY <2>1 DEF TypeOK
  <2>3. file[t] \in Seq(Slots) /\ file[t][i] \in Slots
        BY DEF TypeOK
  <2>4. PICK new : new = [file[t][i] EXCEPT !.val = held.val, !.del = held.del]
        OBVIOUS
  <2>5. new \in Slots /\ new.rid = file[t][i].rid
        BY <2>3, <2>4 DEF Slots, RowContents
  <2>6. PICK m : m = [file[t] EXCEPT ![i] = new]
        OBVIOUS
  <2>7. /\ m \in Seq(Slots) /\ DOMAIN m = DOMAIN file[t]
        /\ m[i] = new /\ \A k \in DOMAIN file[t] : k # i => m[k] = file[t][k]
        BY <2>3, <2>5, <2>6
  <2>8. file' = [file EXCEPT ![t] = m]
        BY <1>2, <2>3, <2>4, <2>6 DEF TypeOK
  <2>9. file' \in [Tables -> Seq(Slots)] /\ file'[t] = m /\ \A u \in Tables : u # t => file'[u] = file[u]
        BY <2>7, <2>8 DEF TypeOK
  <2>10. QED
        BY <2>2, <2>5, <2>7, <2>9
<1>3. QED
  <2>1. ASSUME NEW j
        PROVE  Behind(j) \in SUBSET Positions
        BY DEF Behind
  <2>2. {i} \in SUBSET Positions /\ {} \in SUBSET Positions
        OBVIOUS
  <2>3. UNCHANGED <<file, holes>> \/
           (/\ file' = [file EXCEPT ![t][i].val = held.val, ![t][i].del = held.del]
            /\ \E lost \in {{}, {i}, Behind(i), Behind(i - 1)} :
                  holes' = [holes EXCEPT ![t] = @ \cup lost])
        BY DEF Overwrites
  <2>4. QED
        BY <1>1, <1>2, <2>1, <2>2, <2>3

LEMMA ReturnsKeep ==
    ASSUME TablesIInv, QueryCloses \/ ScanThrows \/ UpdateThrows
    PROVE  TablesIInv'
<1>1. /\ phase = "query" /\ Returns /\ UnchangedByQueries
      /\ UNCHANGED <<file, holes, count, used>>
      /\ log' = log \/ Log(CloseLine)
      BY DEF QueryCloses, ScanThrows, UpdateThrows, Scanning, store
<1>2. file' \in [Tables -> Seq(Slots)] /\ FilesOK'
      BY <1>1, FilesStay DEF TablesIInv, TypeOK
<1>3. QED
      BY <1>1, <1>2, QuitKeeps

\* A match is logged before it is changed.
LEMMA MatchLogsKeeps ==
    ASSUME TablesIInv, NEW i \in Positions, UpdateLogs(i) \/ DeleteLogs(i)
    PROVE  TablesIInv'
<1>1. PICK t, slot : t = op.table /\ slot = file[t][i]
      OBVIOUS
<1>2. /\ phase = "query" /\ op.kind \in {"Update", "Delete"} /\ op.step = "next" /\ Matches(i)
      /\ op' = [op EXCEPT !.at = i, !.step = "logged"]
      /\ UNCHANGED <<file, holes, count, phase, used>> /\ UnchangedByQueries
      BY DEF UpdateLogs, DeleteLogs, Scanning, store
<1>3. /\ TypeOK /\ FilesOK /\ t \in Tables /\ file[t] \in Seq(Slots) /\ op.at \in Nat
      /\ i \in Nat /\ op.frames = <<>>
      BY <1>1, <1>2, TheScan DEF TablesIInv, Positions
<1>4. i \in DOMAIN file[t]
      BY <1>1, <1>2, <1>3 DEF Matches
<1>5. slot \in Slots /\ slot.rid \in Rids /\ slot.rid \in used /\ Held(slot) \in RowContents
      BY <1>1, <1>3, <1>4, SlotParts DEF FilesOK
<1>6. PICK line \in Lines :
         Log(line) /\ IsChange(line) /\ line.kind = op.kind /\ line.rid = slot.rid
            /\ line.before = Held(slot)
  <2>1. CASE UpdateLogs(i)
        BY <1>1, <1>5, <2>1, MadeLines, LineKinds DEF UpdateLogs, Scanning
  <2>2. CASE DeleteLogs(i)
        BY <1>1, <1>5, <2>2, MadeLines, LineKinds DEF DeleteLogs, Scanning
  <2>3. QED
        BY <2>1, <2>2
<1>7. /\ op' \in Queries /\ op'.kind = op.kind /\ op'.table = op.table /\ op'.frames = op.frames
      /\ op'.at = i /\ op'.step = "logged"
      BY <1>2, <1>3 DEF TypeOK, Queries
<1>8. PICK r : r = slot.rid
      OBVIOUS
<1>9. Kept(r, slot)'
      BY <1>3, <1>6, <1>8, KeptLogged DEF Touches
<1>10. Row' = slot
      BY <1>1, <1>2, <1>7 DEF Row
<1>11. GuardsOK'
      BY <1>7, <1>8, <1>9, <1>10 DEF GuardsOK
<1>12. holes' \in [Tables -> SUBSET Positions] /\ file' \in [Tables -> Seq(Slots)]
      BY <1>2, <1>3 DEF TypeOK
<1>13. \E l \in Lines : Log(l) /\ IsChange(l) /\ l.kind = op.kind /\ l.rid \in used
      BY <1>5, <1>6
<1>14. QED
      BY <1>1, <1>2, <1>4, <1>7, <1>11, <1>12, <1>13, ScanStepKeeps

\* The nested row that Nested(i) finds.
LEMMA TheNested ==
    ASSUME TablesIInv, phase = "query", op.kind = "Update", op.step # "next", NEW i, Nested(i)
    PROVE  /\ ChildOf[op.table] \in Tables /\ ChildOf[op.table] # op.table
           /\ i \in DOMAIN file[ChildOf[op.table]]
           /\ file[ChildOf[op.table]][i] \in Slots
           /\ file[ChildOf[op.table]][i].rid = RefOf[Row.rid]
           /\ RefOf[Row.rid] # Row.rid /\ RefOf[Row.rid] \in used
           /\ \A k \in DOMAIN file[ChildOf[op.table]] :
                 file[ChildOf[op.table]][k].rid = RefOf[Row.rid] => k = i
<1>1. PICK c : c = ChildOf[op.table]
      OBVIOUS
<1>2. op.table \in Tables /\ Row \in Slots /\ TableOf[Row.rid] = op.table
      BY TheScan
<1>3. c # None /\ c \in Tables /\ c # op.table
  <2>1. c # None
        BY <1>1, <1>2 DEF Nested, Nests
  <2>2. QED
        BY <1>1, <1>2, <2>1, TableWalAssumption
<1>4. i \in 1 .. count[c] /\ (\A j \in 1 .. i : Reads(c, j)) /\ file[c][i].rid = RefOf[Row.rid]
      BY <1>1 DEF Nested, Found
<1>5. TypeOK /\ FilesOK
      BY DEF TablesIInv
<1>6. i \in 1 .. i
      BY <1>3, <1>4, <1>5 DEF TypeOK
<1>7. i \in DOMAIN file[c]
      BY <1>4, <1>6 DEF Reads
<1>8. file[c] \in Seq(Slots) /\ file[c][i] \in Slots
      BY <1>3, <1>5, <1>7 DEF TypeOK
<1>9. TableOf[RefOf[Row.rid]] = c /\ RefOf[Row.rid] \in used
      BY <1>3, <1>4, <1>5, <1>7 DEF FilesOK
<1>10. \A k \in DOMAIN file[c] : file[c][k].rid = RefOf[Row.rid] => k = i
      BY <1>3, <1>4, <1>5, <1>7 DEF FilesOK, Distinct
<1>11. QED
      BY <1>1, <1>2, <1>3, <1>4, <1>7, <1>8, <1>9, <1>10

LEMMA OverwriteLogsKeeps ==
    ASSUME TablesIInv, NEW i \in Positions, OverwriteLogs(i)
    PROVE  TablesIInv'
<1>1. /\ phase = "query" /\ op.kind = "Update" /\ op.step = "logged" /\ Nested(i)
      /\ Log(UpdateLine(RefOf[Row.rid], Held(file[ChildOf[op.table]][i])))
      /\ op' = [op EXCEPT !.step = "nestedLogged"]
      /\ UNCHANGED <<file, holes, count, phase, used>> /\ UnchangedByQueries
      BY DEF OverwriteLogs, Scanning, store
<1>2. PICK c, slot, r, row : /\ c = ChildOf[op.table] /\ slot = file[c][i]
                             /\ r = RefOf[Row.rid] /\ row = Row
      OBVIOUS
<1>3. /\ c \in Tables /\ slot \in Slots /\ r # row.rid /\ r \in used /\ i \in DOMAIN file[c]
      /\ \A k \in DOMAIN file[c] : file[c][k].rid = r => k = i
      BY <1>1, <1>2, TheNested
<1>4. /\ TypeOK /\ GuardsOK /\ op.at \in Positions /\ op.at \in DOMAIN file[op.table]
      /\ Nests(op.table)
      BY <1>1, TheScan DEF TablesIInv, Nested
<1>5. PICK line : line = UpdateLine(r, Held(slot))
      OBVIOUS
<1>6. /\ line \in Lines /\ Log(line) /\ IsChange(line) /\ line.kind = "Update" /\ line.rid = r
      /\ line.before = Held(slot)
  <2>1. r \in Rids /\ Held(slot) \in RowContents
        BY <1>3, <1>4, SlotParts DEF TypeOK
  <2>2. QED
        BY <1>1, <1>2, <1>5, <2>1, MadeLines, LineKinds
<1>7. /\ op' \in Queries /\ op'.kind = op.kind /\ op'.table = op.table /\ op'.frames = op.frames
      /\ op'.at = op.at /\ op'.step = "nestedLogged"
      BY <1>1, <1>4 DEF TypeOK, Queries
<1>8. PICK own : own = row.rid
      OBVIOUS
<1>9. Kept(own, row)
      BY <1>1, <1>2, <1>4, <1>8 DEF GuardsOK
<1>10. Kept(own, row)'
      BY <1>3, <1>4, <1>6, <1>8, <1>9, KeptStays DEF Touches
<1>11. Kept(r, slot)'
      BY <1>4, <1>6, KeptLogged DEF Touches
<1>12. Row' = row /\ ChildOf[op'.table] = c
      BY <1>1, <1>2, <1>7 DEF Row
<1>13. GuardsOK'
  <2>1. Kept(Row.rid, Row)'
        BY <1>8, <1>10, <1>12
  <2>2. RefOf[Row'.rid] = r
        BY <1>2, <1>12
  <2>3. \A k \in DOMAIN file'[c] : file'[c][k].rid = r => k = i /\ file'[c][k] = slot
        BY <1>1, <1>2, <1>3
  <2>4. QED
        BY <1>11, <1>12, <2>1, <2>2, <2>3 DEF GuardsOK
<1>14. holes' \in [Tables -> SUBSET Positions] /\ file' \in [Tables -> Seq(Slots)]
      BY <1>1, <1>4 DEF TypeOK
<1>15. \E l \in Lines : Log(l) /\ IsChange(l) /\ l.kind = op.kind /\ l.rid \in used
      BY <1>1, <1>3, <1>6
<1>16. QED
      BY <1>1, <1>4, <1>7, <1>13, <1>14, <1>15, ScanStepKeeps

LEMMA OverwriteWritesKeeps ==
    ASSUME TablesIInv, NEW i \in Positions, NEW v \in Contents, OverwriteWrites(i, v)
    PROVE  TablesIInv'
<1>1. PICK c, held : c = ChildOf[op.table] /\ held = [Held(file[c][i]) EXCEPT !.val = v]
      OBVIOUS
<1>2. /\ phase = "query" /\ op.kind = "Update" /\ op.step = "nestedLogged" /\ Nested(i)
      /\ Overwrites(c, i, held)
      /\ op' = [op EXCEPT !.step = "nestedWritten"]
      /\ UNCHANGED <<count, log, phase, used>> /\ UnchangedByQueries
      BY <1>1 DEF OverwriteWrites, Scanning
<1>3. /\ c \in Tables /\ c # op.table /\ i \in DOMAIN file[c] /\ file[c][i] \in Slots
      BY <1>1, <1>2, TheNested
<1>4. /\ TypeOK /\ GuardsOK /\ op.at \in Positions /\ op.at \in DOMAIN file[op.table]
      /\ Nests(op.table) /\ op.table \in Tables
      BY <1>2, TheScan DEF TablesIInv, Nested
<1>5. held \in RowContents
      BY <1>1, <1>3 DEF Slots, Held, RowContents
<1>6. /\ file' \in [Tables -> Seq(Slots)]
      /\ holes' \in [Tables -> SUBSET Positions]
      /\ \A u \in Tables : holes[u] \subseteq holes'[u]
      /\ \A u \in Tables : u # c => file'[u] = file[u]
      /\ \A u \in Tables : DOMAIN file'[u] = DOMAIN file[u]
      /\ \A u \in Tables : \A k \in DOMAIN file[u] : file'[u][k].rid = file[u][k].rid
      BY <1>2, <1>3, <1>4, <1>5, Overwritten
<1>7. /\ op' \in Queries /\ op'.kind = op.kind /\ op'.table = op.table /\ op'.frames = op.frames
      /\ op'.at = op.at /\ op'.step = "nestedWritten"
      BY <1>2, <1>4 DEF TypeOK, Queries
<1>8. PICK row, own : row = Row /\ own = row.rid
      OBVIOUS
<1>9. Kept(own, row)
      BY <1>2, <1>4, <1>8 DEF GuardsOK
<1>10. Kept(own, row)'
      BY <1>2, <1>4, <1>9, KeptStays
<1>11. Row' = row
      BY <1>3, <1>4, <1>6, <1>7, <1>8 DEF Row
<1>12. GuardsOK'
      BY <1>7, <1>8, <1>10, <1>11 DEF GuardsOK
<1>13. QED
      BY <1>2, <1>4, <1>6, <1>7, <1>12, ScanStepKeeps

LEMMA MatchWritesKeeps ==
    ASSUME TablesIInv, DeleteWrites \/ \E v \in Contents : UpdateWrites(v)
    PROVE  TablesIInv'
<1>1. /\ phase = "query" /\ op.kind # "Insert" /\ op.step # "next"
      /\ UNCHANGED <<count, log, phase, used>> /\ UnchangedByQueries
      BY DEF DeleteWrites, UpdateWrites, Scanning
<1>2. PICK t, i : t = op.table /\ i = op.at
      OBVIOUS
<1>3. /\ TypeOK /\ t \in Tables /\ i \in Positions /\ i \in DOMAIN file[t] /\ Row \in Slots
      BY <1>1, <1>2, TheScan DEF TablesIInv
<1>4. PICK held \in RowContents : Overwrites(t, i, held)
  <2>1. CASE DeleteWrites
    <3>1. [Held(Row) EXCEPT !.del = "1"] \in RowContents
          BY <1>3 DEF Slots, Held, RowContents
    <3>2. QED
          BY <1>2, <2>1, <3>1 DEF DeleteWrites
  <2>2. CASE \E v \in Contents : UpdateWrites(v)
    <3>1. PICK v \in Contents : UpdateWrites(v)
          BY <2>2
    <3>2. [Held(Row) EXCEPT !.val = v] \in RowContents
          BY <1>3 DEF Slots, Held, RowContents
    <3>3. QED
          BY <1>2, <3>1, <3>2 DEF UpdateWrites
  <2>3. QED
        BY <2>1, <2>2
<1>5. /\ file' \in [Tables -> Seq(Slots)]
      /\ holes' \in [Tables -> SUBSET Positions]
      /\ \A u \in Tables : holes[u] \subseteq holes'[u]
      /\ \A u \in Tables : DOMAIN file'[u] = DOMAIN file[u]
      /\ \A u \in Tables : \A k \in DOMAIN file[u] : file'[u][k].rid = file[u][k].rid
      BY <1>3, <1>4, Overwritten
<1>6. PICK stuck \in BOOLEAN : op' = [op EXCEPT !.step = "next", !.stuck = stuck]
  <2>1. CASE DeleteWrites
    <3>1. op' = [op EXCEPT !.step = "next"] /\ op.stuck \in BOOLEAN
          BY <1>3, <2>1 DEF DeleteWrites, TypeOK, Queries
    <3>2. op' = [op EXCEPT !.step = "next", !.stuck = op.stuck]
          BY <1>3, <3>1 DEF TypeOK, Queries
    <3>3. QED
          BY <3>1, <3>2
  <2>2. CASE \E v \in Contents : UpdateWrites(v)
    <3>1. PICK v \in Contents : UpdateWrites(v)
          BY <2>2
    <3>2. QED
          BY <3>1 DEF UpdateWrites
  <2>3. QED
        BY <2>1, <2>2
<1>7. /\ op' \in Queries /\ op'.kind = op.kind /\ op'.table = op.table /\ op'.frames = op.frames
      /\ op'.step = "next"
      BY <1>3, <1>6 DEF TypeOK, Queries
<1>8. GuardsOK'
      BY <1>7 DEF GuardsOK
<1>9. QED
      BY <1>1, <1>5, <1>7, <1>8, ScanStepKeeps

-----------------------------------------------------------------------------
(* Undoing. *)

\* The line at the cursor.
LEMMA TheJob ==
    ASSUME TablesIInv, phase \in {"rollback", "recover"}
    PROVE  /\ JobLog \in Seq(Lines) /\ DOMAIN JobLog = 1 .. Len(JobLog) /\ Len(JobLog) \in Nat
           /\ job.at \in Nat /\ job.target \in Nat /\ job.target <= job.at /\ job.at <= Len(JobLog)
           /\ op = NoOp
           /\ job.at > job.target =>
                 /\ job.at \in DOMAIN JobLog /\ JobLine \in Lines
                 /\ IsChange(JobLine) =>
                       /\ JobLine.rid \in used /\ JobLine.rid \in Rids /\ JobLine.kind \in Kinds
                       /\ TableOf[JobLine.rid] \in Tables
                       /\ JobLine.kind = "Update" => JobLine.before \in RowContents
<1>1. TypeOK /\ OpOK /\ LogsOK /\ JobOK
      BY DEF TablesIInv
<1>2. /\ JobLog \in Seq(Lines) /\ (JobLog = log \/ JobLog = oldLog)
      BY <1>1 DEF TypeOK, JobLog
<1>3. DOMAIN JobLog = 1 .. Len(JobLog) /\ Len(JobLog) \in Nat
      BY <1>2
<1>4. job.at \in Nat /\ job.target \in Nat /\ job.target <= job.at /\ job.at <= Len(JobLog)
      BY <1>1 DEF TypeOK, JobOK
<1>5. op = NoOp
      BY <1>1 DEF OpOK
<1>6. ASSUME job.at > job.target
      PROVE  /\ job.at \in DOMAIN JobLog /\ JobLine \in Lines
             /\ IsChange(JobLine) =>
                   /\ JobLine.rid \in used /\ JobLine.rid \in Rids /\ JobLine.kind \in Kinds
                   /\ TableOf[JobLine.rid] \in Tables
                   /\ JobLine.kind = "Update" => JobLine.before \in RowContents
  <2>1. job.at \in DOMAIN JobLog
        BY <1>3, <1>4, <1>6
  <2>2. JobLine \in Lines
        BY <1>2, <2>1 DEF JobLine
  <2>3. IsChange(JobLine) => JobLine.rid \in used
        BY <1>1, <1>2, <2>1 DEF JobLine, LogsOK
  <2>4. QED
        BY <2>1, <2>2, <2>3, ChangeLines, TableWalAssumption
<1>7. QED
      BY <1>2, <1>3, <1>4, <1>5, <1>6

\* The cursor at a change line: no other kind is due.
LEMMA OneDue ==
    ASSUME TablesIInv, Undoing, IsChange(JobLine), NEW kind, Due(kind)
    PROVE  kind = JobLine.kind
<1>1. PICK j \in job.target + 1 .. job.at :
         /\ JobLog[j].kind = kind
         /\ \A k \in j + 1 .. job.at : ~IsChange(JobLog[k])
      BY DEF Due
<1>2. job.at \in Nat /\ job.target \in Nat
      BY TheJob DEF Undoing
<1>3. ~(j < job.at)
      BY <1>1, <1>2 DEF JobLine
<1>4. j = job.at
      BY <1>1, <1>2, <1>3
<1>5. QED
      BY <1>1, <1>4 DEF JobLine

LEMMA CalledJob ==
    ASSUME TablesIInv, Undoing, Called
    PROVE  /\ job' \in [hash : Hashes \cup {None}, target : Nat, at : Nat, again : BOOLEAN]
           /\ job'.target = job.target /\ job'.hash = job.hash /\ ~job'.again
           /\ job'.at = IF job.again THEN job.at ELSE job.at - 1
<1>1. job.at \in Nat /\ job.target \in Nat /\ job.at > job.target
      BY TheJob DEF Undoing
<1>2. job \in [hash : Hashes \cup {None}, target : Nat, at : Nat, again : BOOLEAN]
      BY DEF TablesIInv, TypeOK
<1>3. CASE job.again
      BY <1>2, <1>3 DEF Called
<1>4. CASE ~job.again
  <2>1. PICK at \in Nat : at = job.at - 1
        BY <1>1
  <2>2. job' = [job EXCEPT !.at = at] /\ job.again = FALSE
        BY <1>2, <1>4, <2>1 DEF Called
  <2>3. QED
        BY <1>2, <1>4, <2>1, <2>2
<1>5. QED
      BY <1>3, <1>4

\* A call that is not the last on its table leaves its kind due.
LEMMA StillDue ==
    ASSUME TablesIInv, Undoing, IsChange(JobLine), ~LastCall, Called, UnchangedByUndo,
           NEW kind, kind = JobLine.kind
    PROVE  Due(kind)'
<1>1. /\ job.at \in Nat /\ job.target \in Nat /\ job.at > job.target
      /\ job.at \in DOMAIN JobLog /\ DOMAIN JobLog = 1 .. Len(JobLog) /\ Len(JobLog) \in Nat
      BY TheJob DEF Undoing
<1>2. /\ job'.target = job.target
      /\ job'.at = IF job.again THEN job.at ELSE job.at - 1
      BY CalledJob
<1>3. JobLog' = JobLog /\ phase' = phase
      BY DEF UnchangedByUndo, JobLog
<1>4. CASE job.again
  <2>1. /\ job.at \in job'.target + 1 .. job'.at
        /\ IsChange(JobLog'[job.at]) /\ JobLog'[job.at].kind = kind
        /\ \A k \in job.at + 1 .. job'.at : ~IsChange(JobLog'[k])
        BY <1>1, <1>2, <1>3, <1>4 DEF JobLine
  <2>2. QED
        BY <2>1 DEF Due
<1>5. CASE ~job.again
  <2>1. PICK j \in job.target + 1 .. job.at - 1 :
           /\ IsChange(JobLog[j]) /\ JobLog[j].kind = kind
           /\ \A k \in j + 1 .. job.at - 1 : ~IsChange(JobLog[k])
    <3>1. CASE phase = "recover"
      <4>1. job.at # job.target + 1 /\ JobLog = oldLog
            BY <3>1 DEF LastCall, JobLog
      <4>2. job.at - 1 \in job.target + 1 .. job.at - 1 /\ job.at - 1 \in DOMAIN oldLog
            BY <1>1, <4>1
      <4>3. oldLog[job.at - 1] # OpenLine
            BY <1>1, <3>1, <4>2 DEF TablesIInv, JobOK
      <4>4. IsChange(oldLog[job.at - 1]) /\ oldLog[job.at - 1].kind = kind
            BY <1>1, <4>1, <4>3 DEF TablesIInv, LogsOK, Together, JobLine
      <4>5. \A k \in (job.at - 1) + 1 .. job.at - 1 : ~IsChange(JobLog[k])
            BY <1>1
      <4>6. QED
            BY <4>1, <4>2, <4>4, <4>5
    <3>2. CASE phase # "recover"
      <4>1. JobLog = log
            BY <3>2 DEF JobLog
      <4>2. PICK j \in job.target + 1 .. job.at - 1 :
               /\ IsChange(log[j]) /\ \A k \in j + 1 .. job.at - 1 : ~IsChange(log[k])
               /\ ~LogDiff(JobLine, log[j])
            BY <3>2 DEF LastCall
      <4>3. log[j].kind = kind
            BY <4>2 DEF LogDiff
      <4>4. QED
            BY <4>1, <4>2, <4>3
    <3>3. QED
          BY <3>1, <3>2
  <2>2. job'.at = job.at - 1
        BY <1>2, <1>5
  <2>3. QED
        BY <1>2, <1>3, <2>1, <2>2 DEF Due
<1>6. QED
      BY <1>4, <1>5

\* A step of undoing.
LEMMA UndoStepKeeps ==
    ASSUME TablesIInv, Undoing, UnchangedByUndo, holes' = holes, count' \in [Tables -> Nat],
           file' \in [Tables -> Seq(Slots)], FilesOK', batch' \in Batches, BatchOK',
           job' \in [hash : Hashes \cup {None}, target : Nat, at : Nat, again : BOOLEAN],
           job'.target = job.target, job'.hash = job.hash, job'.again => job.again,
           job'.at = job.at \/ job'.at = job.at - 1
    PROVE  TablesIInv'
<1> USE DEF TablesIInv
<1>1. /\ phase \in {"rollback", "recover"} /\ phase' = phase
      /\ UNCHANGED <<log, oldLog, rolled, op, used>>
      BY DEF Undoing, UnchangedByUndo
<1>2. /\ op = NoOp /\ job.at \in Nat /\ job.target \in Nat /\ job.at > job.target
      /\ job.at <= Len(JobLog) /\ Len(JobLog) \in Nat
      BY <1>1, TheJob DEF Undoing
<1>3. op' \in Queries' /\ OpOK' /\ FramesOK' /\ GuardsOK'
      BY <1>1, <1>2, NoOpLater
<1>4. Batches' = Batches
      BY <1>1 DEF Batches
<1>5. TypeOK'
      BY <1>1, <1>3, <1>4 DEF TypeOK
<1>6. LogsOK'
      BY <1>1, LogsStay
<1>7. JobOK'
  <2>1. JobLog' = JobLog
        BY <1>1 DEF JobLog
  <2>2. job'.target <= job'.at /\ job'.at <= Len(JobLog)
        BY <1>2
  <2>3. QED
        BY <1>1, <2>1, <2>2 DEF JobOK
<1>8. QED
      BY <1>3, <1>5, <1>6, <1>7

LEMMA UndoSkipsKeeps ==
    ASSUME TablesIInv, UndoSkips
    PROVE  TablesIInv'
<1>1. /\ Undoing /\ ~IsChange(JobLine) /\ UnchangedByUndo
      /\ job' = [job EXCEPT !.at = @ - 1]
      /\ UNCHANGED <<file, holes, count, batch>>
      BY DEF UndoSkips, store
<1>2. /\ job.at \in Nat /\ job.target \in Nat /\ job.at > job.target
      /\ phase \in {"rollback", "recover"}
      BY <1>1, TheJob DEF Undoing
<1>3. PICK at \in Nat : at = job.at - 1
      BY <1>2
<1>4. TypeOK /\ FilesOK /\ BatchOK
      BY DEF TablesIInv
<1>5. /\ job' \in [hash : Hashes \cup {None}, target : Nat, at : Nat, again : BOOLEAN]
      /\ job'.target = job.target /\ job'.at = at /\ job'.again = job.again
      /\ job'.hash = job.hash
  <2>1. job' = [job EXCEPT !.at = at]
        BY <1>1, <1>3
  <2>2. QED
        BY <1>3, <1>4, <2>1 DEF TypeOK
<1>6. used' = used /\ phase' = phase /\ JobLog' = JobLog
      BY <1>1 DEF UnchangedByUndo, JobLog
<1>7. FilesOK'
      BY <1>1, <1>4, <1>6, FilesStay
<1>8. ASSUME NEW kind, Due(kind)
      PROVE  Due(kind)'
  <2>1. PICK j \in job.target + 1 .. job.at :
           /\ IsChange(JobLog[j]) /\ JobLog[j].kind = kind
           /\ \A k \in j + 1 .. job.at : ~IsChange(JobLog[k])
        BY <1>8 DEF Due
  <2>2. j # job.at
        BY <1>1, <2>1 DEF JobLine
  <2>3. j \in job'.target + 1 .. job'.at /\ \A k \in j + 1 .. job'.at : k \in j + 1 .. job.at
        BY <1>2, <1>3, <1>5, <2>1, <2>2
  <2>4. QED
        BY <1>6, <2>1, <2>3 DEF Due
<1>9. BatchOK'
      BY <1>1, <1>2, <1>4, <1>6, <1>8 DEF BatchOK
<1>10. /\ count' \in [Tables -> Nat] /\ file' \in [Tables -> Seq(Slots)] /\ batch' \in Batches
      BY <1>1, <1>4 DEF TypeOK
<1>11. job'.at = job.at - 1
      BY <1>3, <1>5
<1>12. QED
      BY <1>1, <1>5, <1>7, <1>9, <1>10, <1>11, UndoStepKeeps

\* What a call adds to the batch of its kind.
LEMMA TheCollected ==
    ASSUME TablesIInv, Undoing, IsChange(JobLine)
    PROVE  /\ Collected \in Batches
           /\ JobLine.kind # "Insert" => Collected.inserted = batch.inserted
           /\ JobLine.kind # "Update" => Collected.updated = batch.updated
           /\ JobLine.kind # "Delete" => Collected.deleted = batch.deleted
<1> DEFINE ins == batch.inserted \cup {r \in {JobLine.rid} : JobLine.kind = "Insert"}
           upd == IF JobLine.kind # "Update" \/ JobLine.rid \in DOMAIN batch.updated THEN batch.updated
                  ELSE [r \in DOMAIN batch.updated \cup {JobLine.rid} |->
                           IF r = JobLine.rid THEN JobLine.before ELSE batch.updated[r]]
           del == batch.deleted \cup {r \in {JobLine.rid} : JobLine.kind = "Delete"}
<1>1. batch \in Batches /\ JobLine.rid \in used
         /\ (JobLine.kind = "Update" => JobLine.before \in RowContents)
      BY TheJob DEF TablesIInv, TypeOK, Undoing
<1>2. batch.inserted \in SUBSET used /\ batch.deleted \in SUBSET used
      BY <1>1 DEF Batches
<1>3. PICK rids \in SUBSET used : batch.updated \in [rids -> RowContents]
      BY <1>1 DEF Batches
<1>4. ins \in SUBSET used /\ del \in SUBSET used
      BY <1>1, <1>2
<1>5. upd \in UNION {[s -> RowContents] : s \in SUBSET used}
  <2>1. CASE JobLine.kind # "Update" \/ JobLine.rid \in DOMAIN batch.updated
        BY <1>3, <2>1
  <2>2. CASE JobLine.kind = "Update" /\ JobLine.rid \notin DOMAIN batch.updated
    <3>1. rids \cup {JobLine.rid} \in SUBSET used
          BY <1>1
    <3>2. upd \in [rids \cup {JobLine.rid} -> RowContents]
          BY <1>1, <1>3, <2>2
    <3>3. QED
          BY <3>1, <3>2
  <2>3. QED
        BY <2>1, <2>2
<1>6. Collected = [inserted |-> ins, updated |-> upd, deleted |-> del]
      BY DEF Collected
<1>7. JobLine.kind # "Insert" => ins = batch.inserted
      OBVIOUS
<1>8. JobLine.kind # "Delete" => del = batch.deleted
      OBVIOUS
<1>9. JobLine.kind # "Update" => upd = batch.updated
      OBVIOUS
<1> HIDE DEF ins, upd, del
<1>10. QED
      BY <1>4, <1>5, <1>6, <1>7, <1>8, <1>9 DEF Batches

LEMMA UndoCollectsKeeps ==
    ASSUME TablesIInv, UndoCollects
    PROVE  TablesIInv'
<1>1. /\ Undoing /\ IsChange(JobLine) /\ ~LastCall /\ Called /\ UnchangedByUndo
      /\ batch' = Collected /\ UNCHANGED <<file, holes, count>>
      BY DEF UndoCollects, store
<1>2. TypeOK /\ FilesOK /\ BatchOK /\ phase \in {"rollback", "recover"}
      BY <1>1 DEF TablesIInv, Undoing
<1>3. /\ job' \in [hash : Hashes \cup {None}, target : Nat, at : Nat, again : BOOLEAN]
      /\ job'.target = job.target /\ job'.hash = job.hash /\ ~job'.again
      /\ job'.at = job.at \/ job'.at = job.at - 1
      BY <1>1, CalledJob
<1>4. PICK kind : kind = JobLine.kind
      OBVIOUS
<1>5. Due(kind)'
      BY <1>1, <1>4, StillDue
<1>6. used' = used /\ phase' = phase
      BY <1>1 DEF UnchangedByUndo
<1>7. FilesOK'
      BY <1>1, <1>2, <1>6, FilesStay
<1>8. BatchOK'
  <2> SUFFICES ASSUME \A t \in Tables : holes[t] = {}
               PROVE  /\ batch'.inserted # {} => Due("Insert")'
                      /\ DOMAIN batch'.updated # {} => Due("Update")'
                      /\ batch'.deleted # {} => Due("Delete")'
      BY <1>1, <1>2, <1>6 DEF BatchOK
  <2>1. /\ batch.inserted # {} => Due("Insert")
        /\ DOMAIN batch.updated # {} => Due("Update")
        /\ batch.deleted # {} => Due("Delete")
        BY <1>2 DEF BatchOK
  <2>2. /\ batch'.inserted # {} => kind = "Insert"
        /\ DOMAIN batch'.updated # {} => kind = "Update"
        /\ batch'.deleted # {} => kind = "Delete"
        BY <1>1, <1>4, <2>1, OneDue, TheCollected
  <2>3. QED
        BY <1>5, <2>2
<1>9. /\ count' \in [Tables -> Nat] /\ file' \in [Tables -> Seq(Slots)] /\ batch' \in Batches
      BY <1>1, <1>2, TheCollected DEF TypeOK
<1>10. QED
      BY <1>1, <1>3, <1>7, <1>8, <1>9, UndoStepKeeps

\* The last call on a table reverts what is collected: rows are written over in
\* place, and the batch of the kind is emptied.
LEMMA UndoneKeeps ==
    ASSUME TablesIInv, Undoing, IsChange(JobLine), Called, UnchangedByUndo, holes' = holes,
           count' \in [Tables -> Nat], NEW t \in Tables, NEW m \in Seq(Slots),
           DOMAIN m = DOMAIN file[t], \A i \in DOMAIN m : m[i].rid = file[t][i].rid,
           file' = [file EXCEPT ![t] = m], batch' \in Batches,
           JobLine.kind # "Insert" => batch'.inserted = batch.inserted,
           JobLine.kind # "Update" => batch'.updated = batch.updated,
           JobLine.kind # "Delete" => batch'.deleted = batch.deleted,
           JobLine.kind = "Insert" => batch'.inserted = {},
           JobLine.kind = "Update" => DOMAIN batch'.updated = {},
           JobLine.kind = "Delete" => batch'.deleted = {}
    PROVE  TablesIInv'
<1>1. TypeOK /\ FilesOK /\ BatchOK /\ phase \in {"rollback", "recover"}
      BY DEF TablesIInv, Undoing
<1>2. /\ job' \in [hash : Hashes \cup {None}, target : Nat, at : Nat, again : BOOLEAN]
      /\ job'.target = job.target /\ job'.hash = job.hash /\ ~job'.again
      /\ job'.at = job.at \/ job'.at = job.at - 1
      BY CalledJob
<1>3. used' = used /\ phase' = phase
      BY DEF UnchangedByUndo
<1>4. /\ file' \in [Tables -> Seq(Slots)] /\ file'[t] = m
      /\ \A u \in Tables : u # t => file'[u] = file[u]
      BY <1>1 DEF TypeOK
<1>5. FilesOK'
  <2>1. \A u \in Tables : Distinct(file'[u])
        BY <1>1, <1>4, DistinctKept DEF FilesOK
  <2>2. QED
        BY <1>1, <1>3, <1>4, <2>1 DEF FilesOK
<1>6. BatchOK'
  <2> SUFFICES ASSUME \A u \in Tables : holes[u] = {}
               PROVE  batch'.inserted = {} /\ DOMAIN batch'.updated = {} /\ batch'.deleted = {}
      BY <1>1, <1>3 DEF BatchOK
  <2>1. /\ batch.inserted # {} => JobLine.kind = "Insert"
        /\ DOMAIN batch.updated # {} => JobLine.kind = "Update"
        /\ batch.deleted # {} => JobLine.kind = "Delete"
        BY <1>1, OneDue DEF BatchOK
  <2>2. QED
        BY <2>1
<1>7. QED
      BY <1>2, <1>4, <1>5, <1>6, UndoStepKeeps

LEMMA WrittenInPlace ==
    ASSUME TypeOK, NEW t \in Tables, NEW m, m \in [DOMAIN file[t] -> Slots],
           \A i \in DOMAIN file[t] : m[i].rid = file[t][i].rid
    PROVE  m \in Seq(Slots) /\ DOMAIN m = DOMAIN file[t] /\ \A i \in DOMAIN m : m[i].rid = file[t][i].rid
<1>1. file[t] \in Seq(Slots)
      BY DEF TypeOK
<1>2. DOMAIN file[t] = 1 .. Len(file[t]) /\ Len(file[t]) \in Nat
      BY <1>1
<1>3. QED
      BY <1>2

LEMMA Marked ==
    ASSUME TypeOK, NEW t \in Tables, NEW at, NEW rids, NEW del \in {"0", "1"}, Marks(t, at, rids, del)
    PROVE  \E m \in Seq(Slots) :
              /\ DOMAIN m = DOMAIN file[t] /\ \A i \in DOMAIN m : m[i].rid = file[t][i].rid
              /\ file' = [file EXCEPT ![t] = m]
<1>1. PICK m : m = [i \in DOMAIN file[t] |->
                       IF i \in at /\ file[t][i].rid \in rids
                       THEN [file[t][i] EXCEPT !.del = del] ELSE file[t][i]]
      OBVIOUS
<1>2. file' = [file EXCEPT ![t] = m]
      BY <1>1 DEF Marks, TypeOK
<1>3. ASSUME NEW i \in DOMAIN file[t]
      PROVE  m[i] \in Slots /\ m[i].rid = file[t][i].rid
  <2>1. file[t][i] \in Slots
        BY DEF TypeOK
  <2>2. [file[t][i] EXCEPT !.del = del] \in Slots /\ [file[t][i] EXCEPT !.del = del].rid = file[t][i].rid
        BY <2>1 DEF Slots
  <2>3. QED
        BY <1>1, <2>1, <2>2
<1>4. m \in [DOMAIN file[t] -> Slots]
      BY <1>1, <1>3
<1>5. m \in Seq(Slots) /\ DOMAIN m = DOMAIN file[t] /\ \A i \in DOMAIN m : m[i].rid = file[t][i].rid
      BY <1>3, <1>4, WrittenInPlace
<1>6. QED
      BY <1>2, <1>5

LEMMA PutBack ==
    ASSUME TypeOK, NEW t \in Tables, NEW at, NEW old, PutsBack(t, at, old),
           \A r \in DOMAIN old : old[r] \in RowContents
    PROVE  \E m \in Seq(Slots) :
              /\ DOMAIN m = DOMAIN file[t] /\ \A i \in DOMAIN m : m[i].rid = file[t][i].rid
              /\ file' = [file EXCEPT ![t] = m]
<1>1. PICK m : m = [i \in DOMAIN file[t] |->
                       IF i \in at /\ file[t][i].rid \in DOMAIN old
                       THEN Slot(file[t][i].rid, old[file[t][i].rid].val, old[file[t][i].rid].del)
                       ELSE file[t][i]]
      OBVIOUS
<1>2. file' = [file EXCEPT ![t] = m]
      BY <1>1 DEF PutsBack, TypeOK
<1>3. ASSUME NEW i \in DOMAIN file[t]
      PROVE  m[i] \in Slots /\ m[i].rid = file[t][i].rid
  <2>1. file[t][i] \in Slots /\ file[t][i].rid \in Rids
        BY SlotParts DEF TypeOK
  <2>2. CASE i \in at /\ file[t][i].rid \in DOMAIN old
    <3>1. old[file[t][i].rid].val \in Contents /\ old[file[t][i].rid].del \in {"0", "1"}
          BY <2>2 DEF RowContents
    <3>2. m[i] = Slot(file[t][i].rid, old[file[t][i].rid].val, old[file[t][i].rid].del)
          BY <1>1, <2>2
    <3>3. QED
          BY <2>1, <3>1, <3>2, SlotParts
  <2>3. CASE ~(i \in at /\ file[t][i].rid \in DOMAIN old)
        BY <1>1, <2>1, <2>3
  <2>4. QED
        BY <2>2, <2>3
<1>4. m \in [DOMAIN file[t] -> Slots]
      BY <1>1, <1>3
<1>5. m \in Seq(Slots) /\ DOMAIN m = DOMAIN file[t] /\ \A i \in DOMAIN m : m[i].rid = file[t][i].rid
      BY <1>3, <1>4, WrittenInPlace
<1>6. QED
      BY <1>2, <1>5

LEMMA CollectedContents ==
    ASSUME TablesIInv, Undoing, IsChange(JobLine)
    PROVE  \A r \in DOMAIN Collected.updated : Collected.updated[r] \in RowContents
<1>1. Collected \in Batches
      BY TheCollected
<1>2. Collected.updated \in UNION {[rids -> RowContents] : rids \in SUBSET used}
      BY <1>1 DEF Batches
<1>3. QED
      BY <1>2

LEMMA EmptiedBatches ==
    ASSUME TypeOK
    PROVE  /\ [batch EXCEPT !.inserted = {}] \in Batches
           /\ [batch EXCEPT !.updated = NoBatch.updated] \in Batches
           /\ [batch EXCEPT !.deleted = {}] \in Batches
           /\ \A x : /\ [batch EXCEPT !.inserted = x].inserted = x
                     /\ [batch EXCEPT !.inserted = x].updated = batch.updated
                     /\ [batch EXCEPT !.inserted = x].deleted = batch.deleted
                     /\ [batch EXCEPT !.updated = x].inserted = batch.inserted
                     /\ [batch EXCEPT !.updated = x].updated = x
                     /\ [batch EXCEPT !.updated = x].deleted = batch.deleted
                     /\ [batch EXCEPT !.deleted = x].inserted = batch.inserted
                     /\ [batch EXCEPT !.deleted = x].updated = batch.updated
                     /\ [batch EXCEPT !.deleted = x].deleted = x
<1>1. PICK S : S = UNION {[rids -> RowContents] : rids \in SUBSET used}
      OBVIOUS
<1>2. batch \in [inserted : SUBSET used, updated : S, deleted : SUBSET used]
      BY <1>1 DEF TypeOK, Batches
<1>3. NoBatch.updated \in S
      BY <1>1, NoBatchIsOK DEF Batches
<1>4. PICK none : none = NoBatch.updated
      OBVIOUS
<1>5. /\ [batch EXCEPT !.inserted = {}] \in [inserted : SUBSET used, updated : S, deleted : SUBSET used]
      /\ [batch EXCEPT !.updated = none] \in [inserted : SUBSET used, updated : S, deleted : SUBSET used]
      /\ [batch EXCEPT !.deleted = {}] \in [inserted : SUBSET used, updated : S, deleted : SUBSET used]
      BY <1>2, <1>3, <1>4
<1>6. /\ \A x : /\ [batch EXCEPT !.inserted = x].inserted = x
                /\ [batch EXCEPT !.inserted = x].updated = batch.updated
                /\ [batch EXCEPT !.inserted = x].deleted = batch.deleted
      /\ \A x : /\ [batch EXCEPT !.updated = x].inserted = batch.inserted
                /\ [batch EXCEPT !.updated = x].updated = x
                /\ [batch EXCEPT !.updated = x].deleted = batch.deleted
      /\ \A x : /\ [batch EXCEPT !.deleted = x].inserted = batch.inserted
                /\ [batch EXCEPT !.deleted = x].updated = batch.updated
                /\ [batch EXCEPT !.deleted = x].deleted = x
      BY <1>2
<1>7. QED
      BY <1>1, <1>4, <1>5, <1>6 DEF Batches

LEMMA UndoInsertKeeps ==
    ASSUME TablesIInv, UndoInsert
    PROVE  TablesIInv'
<1>1. PICK t : t = TableOf[JobLine.rid]
      OBVIOUS
<1>2. /\ Undoing /\ JobLine.kind = "Insert" /\ Called /\ UnchangedByUndo /\ holes' = holes
      /\ Marks(t, Seen(t), Collected.inserted, "1") /\ count' = [count EXCEPT ![t] = Cardinality(Seen(t))]
      /\ batch' = [batch EXCEPT !.inserted = {}]
      BY <1>1 DEF UndoInsert, Undoes, RepairedCount
<1>3. IsChange(JobLine)
      BY <1>2 DEF IsChange
<1>4. TypeOK /\ t \in Tables
      BY <1>1, <1>2, <1>3, TheJob DEF TablesIInv, Undoing
<1>5. count' \in [Tables -> Nat]
  <2>1. IsFiniteSet(1 .. count[t]) /\ Seen(t) \subseteq 1 .. count[t]
        BY <1>4, FS_Interval DEF TypeOK, Seen
  <2>2. Cardinality(Seen(t)) \in Nat
        BY <2>1, FS_Subset, FS_CardinalityType
  <2>3. QED
        BY <1>2, <1>4, <2>2 DEF TypeOK
<1>6. PICK m \in Seq(Slots) :
         /\ DOMAIN m = DOMAIN file[t] /\ \A i \in DOMAIN m : m[i].rid = file[t][i].rid
         /\ file' = [file EXCEPT ![t] = m]
      BY <1>2, <1>4, Marked
<1>7. batch' \in Batches /\ batch'.inserted = {} /\ batch'.updated = batch.updated /\ batch'.deleted = batch.deleted
      BY <1>2, <1>4, EmptiedBatches
<1>8. QED
      BY Zenon, <1>2, <1>3, <1>4, <1>5, <1>6, <1>7, UndoneKeeps

LEMMA UndoDeleteKeeps ==
    ASSUME TablesIInv, UndoDelete
    PROVE  TablesIInv'
<1>1. PICK t : t = TableOf[JobLine.rid]
      OBVIOUS
<1>2. /\ Undoing /\ JobLine.kind = "Delete" /\ Called /\ UnchangedByUndo
      /\ holes' = holes /\ count' = count
      /\ Marks(t, Seen(t), Collected.deleted, "0")
      /\ batch' = [batch EXCEPT !.deleted = {}]
      BY <1>1 DEF UndoDelete, Undoes
<1>3. IsChange(JobLine)
      BY <1>2 DEF IsChange
<1>4. TypeOK /\ t \in Tables
      BY <1>1, <1>2, <1>3, TheJob DEF TablesIInv, Undoing
<1>5. count' \in [Tables -> Nat]
      BY <1>2, <1>4 DEF TypeOK
<1>6. PICK m \in Seq(Slots) :
         /\ DOMAIN m = DOMAIN file[t] /\ \A i \in DOMAIN m : m[i].rid = file[t][i].rid
         /\ file' = [file EXCEPT ![t] = m]
      BY <1>2, <1>4, Marked
<1>7. batch' \in Batches /\ batch'.inserted = batch.inserted /\ batch'.updated = batch.updated /\ batch'.deleted = {}
      BY <1>2, <1>4, EmptiedBatches
<1>8. QED
      BY <1>2, <1>3, <1>4, <1>5, <1>6, <1>7, UndoneKeeps

LEMMA UndoUpdateKeeps ==
    ASSUME TablesIInv, UndoUpdate
    PROVE  TablesIInv'
<1>1. PICK t : t = TableOf[JobLine.rid]
      OBVIOUS
<1>2. /\ Undoing /\ JobLine.kind = "Update" /\ Called /\ UnchangedByUndo
      /\ holes' = holes /\ count' = count
      /\ PutsBack(t, Seen(t), Collected.updated)
      /\ batch' = [batch EXCEPT !.updated = NoBatch.updated]
      BY Zenon, <1>1 DEF UndoUpdate, Undoes, UndoneUpdates
<1>3. IsChange(JobLine)
      BY Zenon, <1>2 DEF IsChange
<1>4. TypeOK /\ t \in Tables
      BY Zenon, <1>1, <1>2, <1>3, TheJob DEF TablesIInv, Undoing
<1>5. count' \in [Tables -> Nat]
      BY <1>2, <1>4 DEF TypeOK
<1>6. PICK m \in Seq(Slots) :
         /\ DOMAIN m = DOMAIN file[t] /\ \A i \in DOMAIN m : m[i].rid = file[t][i].rid
         /\ file' = [file EXCEPT ![t] = m]
  <2>1. \A r \in DOMAIN Collected.updated : Collected.updated[r] \in RowContents
        BY <1>2, <1>3, CollectedContents
  <2>2. QED
        BY <1>2, <1>4, <2>1, PutBack
<1>7. batch' \in Batches /\ batch'.inserted = batch.inserted /\ DOMAIN batch'.updated = {} /\ batch'.deleted = batch.deleted
      BY <1>2, <1>4, EmptiedBatches, NoBatchIsOK
<1>8. QED
      BY <1>2, <1>3, <1>4, <1>5, <1>6, <1>7, UndoneKeeps

\* What remains of the batches when an undo throws.
LEMMA RemainingBatches ==
    ASSUME TablesIInv, Undoing, IsChange(JobLine), NEW rids
    PROVE  /\ Remaining(rids) \in Batches
           /\ Remaining(rids).inserted \subseteq Collected.inserted
           /\ DOMAIN Remaining(rids).updated \subseteq DOMAIN Collected.updated
           /\ Remaining(rids).deleted \subseteq Collected.deleted
<1>1. PICK batches, S : batches = Collected /\ S = UNION {[s -> RowContents] : s \in SUBSET used}
      OBVIOUS
<1>2. batches \in [inserted : SUBSET used, updated : S, deleted : SUBSET used]
      BY <1>1, TheCollected DEF Batches
<1>3. PICK some : some = Restrict(batches.updated, DOMAIN batches.updated \ rids)
      OBVIOUS
<1>4. DOMAIN some = DOMAIN batches.updated \ rids /\ some \in S
  <2>1. PICK s \in SUBSET used : batches.updated \in [s -> RowContents]
        BY <1>1, <1>2
  <2>2. some \in [s \ rids -> RowContents] /\ s \ rids \in SUBSET used
        BY <1>3, <2>1 DEF Restrict
  <2>3. QED
        BY <1>1, <2>1, <2>2
<1>5. Remaining(rids) =
         [inserted |-> IF JobLine.kind = "Insert" THEN batches.inserted \ rids ELSE batches.inserted,
          updated  |-> IF JobLine.kind = "Update" THEN some ELSE batches.updated,
          deleted  |-> IF JobLine.kind = "Delete" THEN batches.deleted \ rids ELSE batches.deleted]
      BY <1>1, <1>3 DEF Remaining
<1>6. PICK ins, upd, del :
         /\ ins = IF JobLine.kind = "Insert" THEN batches.inserted \ rids ELSE batches.inserted
         /\ upd = IF JobLine.kind = "Update" THEN some ELSE batches.updated
         /\ del = IF JobLine.kind = "Delete" THEN batches.deleted \ rids ELSE batches.deleted
      OBVIOUS
<1>7. /\ ins \in SUBSET used /\ ins \subseteq batches.inserted
      /\ upd \in S /\ DOMAIN upd \subseteq DOMAIN batches.updated
      /\ del \in SUBSET used /\ del \subseteq batches.deleted
      BY <1>2, <1>4, <1>6
<1>8. Remaining(rids) = [inserted |-> ins, updated |-> upd, deleted |-> del]
      BY <1>5, <1>6
<1>9. QED
      BY <1>1, <1>7, <1>8 DEF Batches

\* Before an undo throws, it has written rows in place.
LEMMA ThrownHalfway ==
    ASSUME TablesIInv, UndoThrows
    PROVE  LET t == TableOf[JobLine.rid] IN
           /\ Undoing /\ IsChange(JobLine) /\ t \in Tables /\ holes[t] # {} /\ UNCHANGED holes
           /\ \E m \in Seq(Slots) :
                 /\ DOMAIN m = DOMAIN file[t] /\ \A i \in DOMAIN m : m[i].rid = file[t][i].rid
                 /\ file' = [file EXCEPT ![t] = m]
           /\ IF phase = "recover" THEN Stop
              ELSE /\ \E rids : batch' = Remaining(rids)
                   /\ phase' = "idle"
                   /\ job' = NoJob
                   /\ UNCHANGED <<count, log, oldLog, rolled, op, used, starts>>
<1>1. PICK t : t = TableOf[JobLine.rid]
      OBVIOUS
<1>2. PICK passed :
         /\ holes[t] # {}
         /\ \/ Marks(t, passed, Collected.inserted, "1")
            \/ PutsBack(t, passed, Collected.updated)
            \/ Marks(t, passed, Collected.deleted, "0")
         /\ IF phase = "recover" THEN Stop
            ELSE /\ batch' = Remaining({file[t][j].rid : j \in passed})
                 /\ phase' = "idle"
                 /\ job' = NoJob
                 /\ UNCHANGED <<count, log, oldLog, rolled, op, used, starts>>
      BY <1>1, Zenon DEF UndoThrows
<1>3. Undoing /\ IsChange(JobLine) /\ UNCHANGED holes
      BY DEF UndoThrows
<1>4. TypeOK /\ t \in Tables
      BY <1>1, <1>3, TheJob DEF TablesIInv, Undoing
<1>5. \E m \in Seq(Slots) :
         /\ DOMAIN m = DOMAIN file[t] /\ \A j \in DOMAIN m : m[j].rid = file[t][j].rid
         /\ file' = [file EXCEPT ![t] = m]
  <2>1. CASE Marks(t, passed, Collected.inserted, "1") \/ Marks(t, passed, Collected.deleted, "0")
        BY <1>4, <2>1, Marked
  <2>2. CASE PutsBack(t, passed, Collected.updated)
        BY <1>3, <1>4, <2>2, PutBack, CollectedContents
  <2>3. QED
        BY <1>2, <2>1, <2>2
<1>6. QED
      BY <1>1, <1>2, <1>3, <1>4, <1>5

LEMMA UndoThrowsKeeps ==
    ASSUME TablesIInv, UndoThrows
    PROVE  TablesIInv'
<1>1. PICK t : t = TableOf[JobLine.rid]
      OBVIOUS
<1>2. Undoing /\ IsChange(JobLine) /\ t \in Tables /\ holes[t] # {} /\ UNCHANGED holes
      BY <1>1, ThrownHalfway
<1>3. PICK m \in Seq(Slots) :
         /\ DOMAIN m = DOMAIN file[t] /\ \A i \in DOMAIN m : m[i].rid = file[t][i].rid
         /\ file' = [file EXCEPT ![t] = m]
      BY <1>1, ThrownHalfway
<1>4. TypeOK /\ FilesOK /\ LogsOK /\ op = NoOp
      BY <1>2, TheJob DEF TablesIInv, Undoing
<1>5. /\ file' \in [Tables -> Seq(Slots)] /\ file'[t] = m
      /\ \A u \in Tables : u # t => file'[u] = file[u]
      BY <1>2, <1>3, <1>4 DEF TypeOK
<1>6. ASSUME used' = used
      PROVE  FilesOK'
  <2>1. \A u \in Tables : Distinct(file'[u])
        BY <1>3, <1>4, <1>5, DistinctKept DEF FilesOK
  <2>2. QED
        BY <1>3, <1>4, <1>5, <1>6, <2>1 DEF FilesOK
<1>7. CASE phase = "recover"
  <2>1. Stop
        BY <1>7, ThrownHalfway
  <2>2. used' = used /\ holes' \in [Tables -> SUBSET Positions]
        BY <1>2, <1>4, <2>1 DEF Stop, TypeOK
  <2>3. QED
        BY <1>5, <1>6, <2>1, <2>2, StopKeeps
<1>8. CASE phase # "recover"
  <2>1. /\ \E rids : batch' = Remaining(rids)
        /\ phase' = "idle" /\ job' = NoJob
        /\ UNCHANGED <<holes, count, log, oldLog, rolled, op, used>>
        BY <1>2, <1>8, ThrownHalfway
  <2>2. op' \in Queries' /\ OpOK' /\ FramesOK' /\ GuardsOK'
        BY <1>4, <2>1, NoOpLater
  <2>3. Batches' = Batches
        BY <2>1 DEF Batches
  <2>4. batch' \in Batches'
        BY <1>2, <2>1, <2>3, RemainingBatches
  <2>5. TypeOK'
        BY <1>4, <1>5, <2>1, <2>2, <2>4, NoJobIsOK DEF TypeOK
  <2>6. FilesOK' /\ LogsOK' /\ JobOK'
        BY <1>4, <1>6, <2>1, LogsStay, JobRests
  <2>7. BatchOK'
        BY <1>2, <2>1 DEF BatchOK
  <2>8. QED
        BY <2>2, <2>5, <2>6, <2>7 DEF TablesIInv
<1>9. QED
      BY <1>7, <1>8

\* With nothing left to undo, nothing is left in a batch.
LEMMA UndoEndsKeeps ==
    ASSUME TablesIInv, UndoEnds
    PROVE  TablesIInv'
<1>1. /\ phase \in {"rollback", "recover"} /\ job.at = job.target
      /\ rolled' = IF phase = "rollback" THEN rolled \cup {job.hash} ELSE rolled
      /\ phase' = "idle" /\ job' = NoJob
      /\ UNCHANGED <<file, holes, count, log, oldLog, batch, op, used>>
      BY DEF UndoEnds, store
<1>2. TypeOK /\ FilesOK /\ LogsOK /\ JobOK /\ BatchOK /\ op = NoOp /\ job.at \in Nat
      BY <1>1, TheJob DEF TablesIInv
<1>3. op' \in Queries' /\ OpOK' /\ FramesOK' /\ GuardsOK'
      BY <1>1, <1>2, NoOpLater
<1>4. batch' \in Batches'
      BY <1>1, <1>2, BatchesStay
<1>5. rolled' \subseteq Hashes
      BY <1>1, <1>2 DEF TypeOK, JobOK
<1>6. TypeOK'
      BY <1>1, <1>2, <1>3, <1>4, <1>5, NoJobIsOK DEF TypeOK
<1>7. FilesOK' /\ LogsOK' /\ JobOK'
      BY <1>1, <1>2, FilesStay, LogsStay, JobRests
<1>8. BatchOK'
  <2> SUFFICES ASSUME \A t \in Tables : holes[t] = {}
               PROVE  batch = NoBatch
      BY <1>1 DEF BatchOK
  <2>1. \A kind : ~Due(kind)
        BY <1>1, <1>2 DEF Due
  <2>2. batch.inserted = {} /\ DOMAIN batch.updated = {} /\ batch.deleted = {}
        BY <1>1, <1>2, <2>1 DEF BatchOK
  <2>3. batch.updated = [r \in {} |-> None]
    <3>1. batch.updated \in UNION {[rids -> RowContents] : rids \in SUBSET used}
          BY <1>2 DEF TypeOK, Batches
    <3>2. PICK rids \in SUBSET used : batch.updated \in [rids -> RowContents]
          BY <3>1
    <3>3. QED
          BY <2>2, <3>2
  <2>4. QED
    <3>1. PICK S : S = UNION {[rids -> RowContents] : rids \in SUBSET used}
          OBVIOUS
    <3>2. batch \in [inserted : SUBSET used, updated : S, deleted : SUBSET used]
          BY <1>2, <3>1 DEF TypeOK, Batches
    <3>3. batch = [inserted |-> batch.inserted, updated |-> batch.updated, deleted |-> batch.deleted]
          BY <3>2
    <3>4. QED
          BY <2>2, <2>3, <3>3 DEF NoBatch
<1>9. QED
      BY <1>3, <1>6, <1>7, <1>8 DEF TablesIInv

-----------------------------------------------------------------------------
(* Every step keeps the invariant. *)

LEMMA StutterKeeps ==
    ASSUME TablesIInv, UNCHANGED vars
    PROVE  TablesIInv'
<1>1. UNCHANGED <<file, holes, count, log, oldLog, rolled, batch, phase, op, job, used>>
      BY DEF vars, store
<1>2. TypeOK' /\ OpOK' /\ FilesOK'
      BY SMTT(30), <1>1 DEF TablesIInv, TypeOK, OpOK, FilesOK, Batches
<1>3. FramesOK'
      BY Zenon, <1>1 DEF TablesIInv, FramesOK, FrameOK, Insertion
<1>4. LogsOK' /\ JobOK'
      BY <1>1 DEF TablesIInv, LogsOK, Together, JobOK, JobLog
<1>5. BatchOK'
      BY <1>1 DEF TablesIInv, BatchOK, Due, JobLog
<1>6. GuardsOK'
      BY <1>1 DEF TablesIInv, GuardsOK, Kept, LastTouch, Row
<1>7. QED
      BY <1>2, <1>3, <1>4, <1>5, <1>6 DEF TablesIInv

LEMMA WriteKeeps == TablesIInv /\ Write => TablesIInv'
<1> SUFFICES ASSUME TablesIInv, Write PROVE TablesIInv'
    OBVIOUS
<1>1. CASE Insert
  <2>1. CASE \E r \in Rids : \E v \in Inserted[r] : InsertLogs(r, v)
        BY <2>1, InsertLogsKeeps
  <2>2. QED
        BY <1>1, <2>1, InsertOpensKeeps, InsertThrowsKeeps, InsertNestsKeeps, InsertBuffersKeeps,
           InsertCountsKeeps, InsertFlushesKeeps DEF Insert
<1>2. CASE Update
      BY <1>2, MatchLogsKeeps, OverwriteLogsKeeps, OverwriteWritesKeeps, MatchWritesKeeps, ReturnsKeep
         DEF Update
<1>3. CASE Delete
      BY <1>3, MatchLogsKeeps, MatchWritesKeeps DEF Delete
<1>4. QED
      BY <1>1, <1>2, <1>3, ReturnsKeep DEF Write

LEMMA UndoKeeps == TablesIInv /\ Undo => TablesIInv'
BY UndoSkipsKeeps, UndoCollectsKeeps, UndoInsertKeeps, UndoUpdateKeeps, UndoDeleteKeeps,
   UndoThrowsKeeps, UndoEndsKeeps DEF Undo

LEMMA StepKeeps == TablesIInv /\ [HNext]_hvars => TablesIInv'
<1> SUFFICES ASSUME TablesIInv, [HNext]_hvars PROVE TablesIInv'
    OBVIOUS
<1>1. CASE UNCHANGED hvars
      BY <1>1, StutterKeeps DEF hvars
<1>2. CASE \E h \in Hashes : SavePoint(h)
      BY <1>2, SavePointKeeps
<1>3. CASE Open
      BY <1>3, BeginKeeps DEF Open, Kinds
<1>4. CASE Write
      BY <1>4, WriteKeeps
<1>5. CASE Crash
      BY <1>5, CrashKeeps
<1>6. CASE Start \/ Undo
      BY <1>6, StartKeeps, UndoKeeps
<1>7. CASE \E h \in Hashes : RollbackTo(h)
      BY <1>7, RollbackKeeps
<1>8. QED
      BY <1>1, <1>2, <1>3, <1>4, <1>5, <1>6, <1>7 DEF HNext

THEOREM TablesInvariant == HSpec => []TablesIInv
BY Initially, StepKeeps, PTL DEF HSpec

\* Rows stay unique and in the table they were inserted into, and as long as
\* every row can be read the batches of undoInsert, undoUpdate and undoDelete
\* are empty whenever no rollback or recovery is under way.
THEOREM TablesAreRight == HSpec => []TablesInv
<1>1. TablesIInv => TablesInv
      BY DEF TablesIInv, TablesInv, BatchOK, FilesOK, Distinct
<1>2. QED
      BY <1>1, TablesInvariant, PTL

-----------------------------------------------------------------------------
(* Changes are logged. *)

\* What LoggedBefore asks of a step.
ChangesLogged == \A t \in Tables : \A i \in DOMAIN file'[t] :
    LET r == file'[t][i].rid IN
    IF i \notin DOMAIN file[t] THEN \E j \in DOMAIN log : log[j] = InsertLine(r)
    ELSE file'[t][i] # file[t][i] =>
            \E j \in DOMAIN log : LastTouch(log, j, r) /\ log[j].before = Held(file[t][i])

LEMMA NothingChanged == file' = file => ChangesLogged
BY DEF ChangesLogged

\* Rows put behind a file are logged as inserts.
LEMMA BehindLogged ==
    ASSUME TypeOK, NEW t \in Tables, NEW b \in Seq(Slots), file'[t] = file[t] \o b,
           \A i \in DOMAIN b : Insertion(b[i], t)
    PROVE  \A i \in DOMAIN file'[t] :
               IF i \notin DOMAIN file[t] THEN \E j \in DOMAIN log : log[j] = InsertLine(file'[t][i].rid)
               ELSE file'[t][i] = file[t][i]
<1>1. PICK s, m : s = file[t] /\ m = file'[t]
      OBVIOUS
<1>2. s \in Seq(Slots) /\ m = s \o b
      BY <1>1 DEF TypeOK
<1>3. /\ \A i \in DOMAIN s : m[i] = s[i]
      /\ \A i \in DOMAIN m : i \in DOMAIN s \/ (i - Len(s) \in DOMAIN b /\ m[i] = b[i - Len(s)])
      BY <1>2, Concatenated
<1>4. ASSUME NEW i \in DOMAIN m
      PROVE  IF i \notin DOMAIN s THEN \E j \in DOMAIN log : log[j] = InsertLine(m[i].rid)
             ELSE m[i] = s[i]
      BY <1>3 DEF Insertion
<1>5. QED
      BY <1>1, <1>4

\* The row written over is the only one that changes, under the line that kept it.
LEMMA WritesLogged ==
    ASSUME TypeOK, NEW t \in Tables, NEW i \in DOMAIN file[t], i \in Positions,
           NEW held \in RowContents, Overwrites(t, i, held), Kept(file[t][i].rid, file[t][i])
    PROVE  ChangesLogged
<1>1. /\ \A u \in Tables : u # t => file'[u] = file[u]
      /\ \A u \in Tables : DOMAIN file'[u] = DOMAIN file[u]
      /\ file'[t][i].rid = file[t][i].rid
      /\ \A k \in DOMAIN file[t] : k # i => file'[t][k] = file[t][k]
      BY Overwritten
<1>2. \E j \in DOMAIN log : LastTouch(log, j, file'[t][i].rid) /\ log[j].before = Held(file[t][i])
      BY <1>1 DEF Kept
<1>3. QED
      BY <1>1, <1>2 DEF ChangesLogged

LEMMA InsertLogged == TablesIInv /\ Insert => ChangesLogged
<1> SUFFICES ASSUME TablesIInv, Insert PROVE ChangesLogged
    OBVIOUS
<1>1. TypeOK /\ FramesOK
      BY DEF TablesIInv
<1>2. CASE file' = file
      BY <1>2, NothingChanged
<1>3. CASE InsertThrows
  <2>1. op.frames # <<>> /\ file' = [t \in Tables |-> file[t] \o Buffered(t)]
        BY <1>3 DEF InsertThrows, InFrame
  <2>2. ASSUME NEW t \in Tables
        PROVE  \A i \in DOMAIN file'[t] :
                   IF i \notin DOMAIN file[t]
                   THEN \E j \in DOMAIN log : log[j] = InsertLine(file'[t][i].rid)
                   ELSE file'[t][i] = file[t][i]
    <3>1. PICK b : b = Buffered(t)
          OBVIOUS
    <3>2. b \in Seq(Slots) /\ \A i \in DOMAIN b : Insertion(b[i], t)
          BY <3>1, WaitingAreRows
    <3>3. file'[t] = file[t] \o b
          BY Zenon, <2>1, <3>1
    <3>4. QED
          BY <1>1, <3>2, <3>3, BehindLogged
  <2>3. QED
        BY <2>2 DEF ChangesLogged
<1>4. CASE InsertBuffers \/ InsertFlushes
  <2>1. op.frames # <<>>
        BY Zenon, <1>4 DEF InsertBuffers, InsertFlushes, InFrame
  <2>2. PICK t, top : t = Top.table /\ top = Top
        OBVIOUS
  <2>3. t \in Tables /\ top \in Frames /\ FrameOK(top) /\ top.table = t
        BY <2>1, <2>2, TheFrames
  <2>4. top.buffer \in Seq(Slots) /\ \A i \in DOMAIN top.buffer : Insertion(top.buffer[i], t)
        BY <2>3 DEF Frames, FrameOK
  <2>5. PICK b \in Seq(Slots) :
           /\ \A i \in DOMAIN b : Insertion(b[i], t)
           /\ file' = file \/ file' = [file EXCEPT ![t] = @ \o b]
    <3>1. CASE InsertBuffers
      <4>1. PICK row : row = Top.row
            OBVIOUS
      <4>2. row \in Slots /\ Insertion(row, t)
            BY <2>2, <2>3, <3>1, <4>1 DEF InsertBuffers, InFrame, FrameOK
      <4>3. PICK rows : rows = Append(top.buffer, row)
            OBVIOUS
      <4>4. /\ rows \in Seq(Slots)
            /\ \A i \in DOMAIN rows : (i \in DOMAIN top.buffer /\ rows[i] = top.buffer[i]) \/ rows[i] = row
            BY <2>4, <4>2, <4>3
      <4>5. \A i \in DOMAIN rows : Insertion(rows[i], t)
            BY <2>4, <4>2, <4>4
      <4>6. PICK flushed :
               /\ file' = [file EXCEPT ![t] = @ \o flushed]
               /\ flushed = <<>> \/ flushed = top.buffer \/ flushed = rows
            BY <2>2, <3>1, <4>1, <4>3, Zenon DEF InsertBuffers, Flushes
      <4>7. flushed \in Seq(Slots) /\ \A i \in DOMAIN flushed : Insertion(flushed[i], t)
        <5>1. CASE flushed = <<>>
              BY <5>1
        <5>2. QED
              BY <2>4, <4>4, <4>5, <4>6, <5>1
      <4>8. QED
            BY <4>6, <4>7
    <3>2. CASE InsertFlushes
      <4>1. file' = [file EXCEPT ![t] = @ \o top.buffer]
            BY <2>2, <3>2 DEF InsertFlushes
      <4>2. QED
            BY <2>4, <4>1
    <3>3. QED
          BY <1>4, <3>1, <3>2
  <2>6. CASE file' = [file EXCEPT ![t] = @ \o b]
    <3>1. file'[t] = file[t] \o b /\ \A u \in Tables : u # t => file'[u] = file[u]
          BY <1>1, <2>3, <2>6 DEF TypeOK
    <3>2. \A i \in DOMAIN file'[t] :
              IF i \notin DOMAIN file[t]
              THEN \E j \in DOMAIN log : log[j] = InsertLine(file'[t][i].rid)
              ELSE file'[t][i] = file[t][i]
          BY <1>1, <2>3, <2>5, <3>1, BehindLogged
    <3>3. QED
          BY <3>1, <3>2 DEF ChangesLogged
  <2>7. QED
        BY <2>5, <2>6, NothingChanged
<1>5. QED
  <2>1. InsertOpens \/ InsertNests \/ InsertCounts \/ (\E r \in Rids : \E v \in Inserted[r] : InsertLogs(r, v))
           => file' = file
        BY DEF InsertOpens, InsertNests, InsertCounts, InsertLogs, store
  <2>2. QED
        BY <1>2, <1>3, <1>4, <2>1 DEF Insert

LEMMA ScanLogged == TablesIInv /\ (Update \/ Delete) => ChangesLogged
<1> SUFFICES ASSUME TablesIInv, Update \/ Delete PROVE ChangesLogged
    OBVIOUS
<1>1. TypeOK /\ GuardsOK
      BY DEF TablesIInv
<1>2. ASSUME NEW i \in Positions, NEW v \in Contents, OverwriteWrites(i, v)
      PROVE  ChangesLogged
  <2>1. PICK c, held : c = ChildOf[op.table] /\ held = [Held(file[c][i]) EXCEPT !.val = v]
        OBVIOUS
  <2>2. /\ phase = "query" /\ op.kind = "Update" /\ op.step = "nestedLogged" /\ Nested(i)
        /\ Overwrites(c, i, held)
        BY <1>2, <2>1 DEF OverwriteWrites, Scanning
  <2>3. /\ c \in Tables /\ i \in DOMAIN file[c] /\ file[c][i] \in Slots
        /\ file[c][i].rid = RefOf[Row.rid]
        BY <2>1, <2>2, TheNested
  <2>4. held \in RowContents
        BY <2>1, <2>3 DEF Slots, Held, RowContents
  <2>5. Kept(file[c][i].rid, file[c][i])
        BY <1>1, <2>1, <2>2, <2>3 DEF GuardsOK
  <2>6. QED
        BY <1>1, <2>2, <2>3, <2>4, <2>5, WritesLogged
<1>3. ASSUME DeleteWrites \/ \E v \in Contents : UpdateWrites(v)
      PROVE  ChangesLogged
  <2>1. phase = "query" /\ op.kind # "Insert" /\ op.step # "next"
        BY <1>3 DEF DeleteWrites, UpdateWrites, Scanning
  <2>2. PICK t, i : t = op.table /\ i = op.at
        OBVIOUS
  <2>3. /\ t \in Tables /\ i \in Positions /\ i \in DOMAIN file[t] /\ Row \in Slots
        /\ Row = file[t][i]
        BY <2>1, <2>2, TheScan DEF Row
  <2>4. PICK held \in RowContents : Overwrites(t, i, held)
    <3>1. [Held(Row) EXCEPT !.del = "1"] \in RowContents
          BY <2>3 DEF Slots, Held, RowContents
    <3>2. \A v \in Contents : [Held(Row) EXCEPT !.val = v] \in RowContents
          BY <2>3 DEF Slots, Held, RowContents
    <3>3. QED
          BY <1>3, <2>2, <3>1, <3>2 DEF DeleteWrites, UpdateWrites
  <2>5. Kept(file[t][i].rid, file[t][i])
        BY <1>1, <2>1, <2>3 DEF GuardsOK
  <2>6. QED
        BY <1>1, <2>3, <2>4, <2>5, WritesLogged
<1>4. ASSUME NEW i \in Positions, UpdateLogs(i) \/ OverwriteLogs(i) \/ DeleteLogs(i)
      PROVE  ChangesLogged
      BY <1>4, NothingChanged DEF UpdateLogs, OverwriteLogs, DeleteLogs, store
<1>5. CASE UpdateThrows
      BY <1>5, NothingChanged DEF UpdateThrows, store
<1>6. QED
      BY <1>2, <1>3, <1>4, <1>5 DEF Update, Delete

\* A part of a row that a crash leaves is of a logged row.
LEMMA CrashLogged == TablesIInv /\ Crash => ChangesLogged
<1> SUFFICES ASSUME TablesIInv, Crash PROVE ChangesLogged
    OBVIOUS
<1>1. PICK torn \in SUBSET {t \in Tables : Buffered(t) # <<>>} :
         file' = [t \in Tables |->
               IF t \in torn THEN Append(file[t], Head(Buffered(t))) ELSE file[t]]
      BY DEF Crash
<1>2. ASSUME NEW t \in Tables
      PROVE  \A i \in DOMAIN file'[t] :
                 IF i \notin DOMAIN file[t]
                 THEN \E j \in DOMAIN log : log[j] = InsertLine(file'[t][i].rid)
                 ELSE file'[t][i] = file[t][i]
  <2>1. CASE t \notin torn
        BY <1>1, <2>1
  <2>2. CASE t \in torn
    <3>1. PICK slot, s, m : slot = Head(Buffered(t)) /\ s = file[t] /\ m = file'[t]
          OBVIOUS
    <3>2. slot \in Slots /\ Insertion(slot, t) /\ s \in Seq(Slots)
          BY <1>1, <2>2, <3>1, TornRow DEF TablesIInv, TypeOK
    <3>3. m = Append(s, slot)
          BY <1>1, <2>2, <3>1
    <3>4. \A i \in DOMAIN m : IF i \in DOMAIN s THEN m[i] = s[i] ELSE m[i] = slot
          BY <3>2, <3>3
    <3>5. \E j \in DOMAIN log : log[j] = InsertLine(slot.rid)
          BY <3>2 DEF Insertion
    <3>6. QED
          BY <3>1, <3>4, <3>5
  <2>3. QED
        BY <2>1, <2>2
<1>3. QED
      BY <1>2 DEF ChangesLogged

LEMMA StepLogged ==
    TablesIInv /\ [HNext]_hvars => (phase = "query" => ChangesLogged)
<1> SUFFICES ASSUME TablesIInv, [HNext]_hvars, phase = "query" PROVE ChangesLogged
    OBVIOUS
<1>1. CASE UNCHANGED hvars
      BY <1>1, NothingChanged DEF hvars, vars, store
<1>2. CASE Write
      BY <1>2, InsertLogged, ScanLogged, NothingChanged DEF Write, QueryCloses, ScanThrows, store
<1>3. CASE Crash
      BY <1>3, CrashLogged
<1>4. ~Start /\ ~Undo
      BY DEF Start, Undo, UndoSkips, UndoCollects, UndoInsert, UndoUpdate, UndoDelete, UndoThrows,
             UndoEnds, Undoes, Undoing
<1>5. /\ ~Open /\ ~ \E h \in Hashes : SavePoint(h)
      /\ ~ \E h \in Hashes : RollbackTo(h)
      BY DEF Open, BeginQuery, SavePoint, RollbackTo
<1>6. QED
      BY <1>1, <1>2, <1>3, <1>4, <1>5 DEF HNext

\* A query adds a row to a file only under a line that inserts it, and changes
\* a row only when the newest line about it keeps what the row held.
THEOREM ChangesAreLogged == HSpec => LoggedBefore
<1>1. TablesIInv /\ [HNext]_hvars => [phase = "query" => ChangesLogged]_hvars
      BY StepLogged
<1>2. HSpec => [][phase = "query" => ChangesLogged]_hvars
      BY <1>1, TablesInvariant, PTL DEF HSpec
<1>3. QED
      BY <1>2 DEF LoggedBefore, ChangesLogged
=============================================================================
