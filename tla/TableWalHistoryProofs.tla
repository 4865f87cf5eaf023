----------------------- MODULE TableWalHistoryProofs -----------------------
(***************************************************************************)
(* Rollback and recovery bring back in tables what a select showed: each   *)
(* line of the log, undone, leads back to the rows shown before it         *)
(* (Falls, Back), and RestoreInv carries this from the savepoint, or from  *)
(* the opening of a query, through writing, crash, start and undoing.      *)
(***************************************************************************)
EXTENDS TableWalProofs

(* What undoing lines of a log leaves in a row, its _del and its content   *)
(* apart: undoDelete writes the one and not the other.                     *)

\* The lines of l about row r, and those that undo writes its content from.
Touched(l, r)   == {j \in DOMAIN l : Touches(l[j], r)}
Rewritten(l, r) == {j \in DOMAIN l : Touches(l[j], r) /\ l[j].kind = "Update"}

\* The _del that undoing a line leaves in its row.
Mark(line) ==
    IF line.kind = "Insert" THEN "1" ELSE IF line.kind = "Update" THEN line.before.del ELSE "0"
Dels(l)    == [j \in DOMAIN l |-> Mark(l[j])]
Vals(l, r) == [j \in Rewritten(l, r) |-> l[j].before.val]

\* With `now' in a field, undoing the lines js among hi, hi-1, ..., lo+1, of
\* which line j leaves left[j], leaves v there.
Falls(js, left, lo, hi, now, v) ==
    /\ \A j \in js : lo < j /\ j <= hi /\ (\A k \in js : lo < k => j <= k) => left[j] = v
    /\ (\A j \in js : ~(lo < j /\ j <= hi)) => now = v

DelFalls(l, lo, hi, slot, del) == Falls(Touched(l, slot.rid), Dels(l), lo, hi, slot.del, del)
ValFalls(l, lo, hi, slot, val) ==
    Falls(Rewritten(l, slot.rid), Vals(l, slot.rid), lo, hi, slot.val, val)

\* Undoing lines hi, ..., lo+1 of l leaves in rows, but for rows deleted twice, the
\* rows that were shown.
Back(l, lo, hi, rows, shown) ==
    LET twice == DeletedTwice(l, lo) IN
    /\ shown \subseteq {slot \in Slots : slot.del # "1"}
    /\ \A slot \in shown : slot.rid \notin twice =>
          \E i \in DOMAIN rows :
              /\ rows[i].rid = slot.rid
              /\ DelFalls(l, lo, hi, rows[i], slot.del)
              /\ ValFalls(l, lo, hi, rows[i], slot.val)
    /\ \A i \in DOMAIN rows : rows[i].rid \notin twice =>
          \E del \in {"0", "1"} :
              /\ DelFalls(l, lo, hi, rows[i], del)
              /\ del # "1" =>
                    \E val \in Contents : /\ ValFalls(l, lo, hi, rows[i], val)
                                          /\ Slot(rows[i].rid, val, del) \in shown

-----------------------------------------------------------------------------
(* The inductive invariant. *)

\* What the frames of an insert know of their counts.
CountOK(frame) ==
    /\ frame.step = "open" => frame.buffer = <<>> /\ frame.row = None
    /\ frame.step # "open" => count[frame.table] <= frame.entries
    /\ frame.step = "close" \/ (frame.step = "object" /\ frame.row # None)
          => count[frame.table] = frame.entries

CountsOK ==
    /\ \A k \in DOMAIN op.frames : CountOK(op.frames[k])
    /\ Len(op.frames) = 2 => op.frames[2].step = "object"

\* Rows of t are not counted and will not be: no undo counts them.
FrameOf(k, t) ==
    k \in DOMAIN op.frames /\ op.frames[k].table = t /\ op.frames[k].step # "open"
Uncounted(frame, rows) ==
    frame.entries + (IF frame.step = "buffered" THEN 1 ELSE 0) < Len(rows) + Len(frame.buffer)
Missing(t) ==
    \/ \E k \in DOMAIN op.frames : FrameOf(k, t) /\ Uncounted(op.frames[k], file[t])
    \/ (\A k \in DOMAIN op.frames : ~FrameOf(k, t)) /\ count[t] < Len(file[t])

\* Row r has a line above line lo, or is inserted by one.
InsertedAbove(l, lo, r) == \E j \in DOMAIN l : lo < j /\ l[j] = InsertLine(r)
TouchedAbove(l, lo, r)  == \E j \in DOMAIN l : lo < j /\ Touches(l[j], r)

\* Lines of one kind about different rows of table q.
Stretch(l, lo, q, kind) ==
    \A j \in DOMAIN l : lo < j =>
        /\ IsChange(l[j]) /\ l[j].kind = kind /\ TableOf[l[j].rid] = q
        /\ \A k \in DOMAIN l : lo < k /\ l[k].rid = l[j].rid => k = j

\* The lines of the query under way are those above the line that opened it.
LinesAbove(lo) ==
    /\ lo \in DOMAIN log /\ log[lo] = OpenLine
    /\ \A j \in DOMAIN log : lo < j => IsChange(log[j]) /\ log[j].kind = op.kind

ScanAbove(lo) ==
    /\ op.step # "next" => TouchedAbove(log, lo, Row.rid)
    /\ op.step = "nestedLogged" => TouchedAbove(log, lo, RefOf[Row.rid])

FrameAbove(lo, frame) ==
    /\ \A i \in DOMAIN frame.buffer : InsertedAbove(log, lo, frame.buffer[i].rid)
    /\ frame.step \in {"logged", "buffered"} =>
          InsertedAbove(log, lo, frame.row.rid) /\ TableOf[frame.row.rid] = frame.table
FramesAbove(lo) == \A k \in DOMAIN op.frames : FrameAbove(lo, op.frames[k])

\* A query on a table without nested rows has one line for each row.
OneTable(lo) ==
    /\ Stretch(log, lo, op.table, op.kind)
    /\ \A k \in DOMAIN op.frames : op.frames[k].table = op.table
    /\ op.kind # "Insert" => \A j \in DOMAIN log : lo < j =>
          \E i \in 1 .. op.at : i \in DOMAIN file[op.table] /\ file[op.table][i].rid = log[j].rid

\* A count without its row is of a table that a line inserts into.
CountAhead(l, lo, t) ==
    count[t] > Len(file[t]) =>
        \E j \in DOMAIN l : lo < j /\ l[j].kind = "Insert" /\ TableOf[l[j].rid] = t

\* The rows that no line above lo inserts are counted, or will be.
Counted(lo, t) ==
    \A i \in DOMAIN file[t] :
        \/ i <= count[t]
        \/ \E k \in DOMAIN op.frames : FrameOf(k, t) /\ i <= op.frames[k].entries
        \/ InsertedAbove(log, lo, file[t][i].rid)

OpenedBack(lo) ==
    \A t \in Tables : opened[t] # None /\ holes[t] = {} =>
        Back(log, lo, Len(log), file[t], opened[t]) /\ CountAhead(log, lo, t) /\ Counted(lo, t)

OpenedAt(lo) ==
    /\ LinesAbove(lo) /\ ScanAbove(lo) /\ FramesAbove(lo)
    /\ ~Nests(op.table) => OneTable(lo)
    /\ OpenedBack(lo)

QueryOK == phase = "query" => \E lo \in DOMAIN log : OpenedAt(lo)

\* What a crash left for the next recovery.
Owing(l, lo, t, shown) ==
    /\ Back(l, lo, Len(l), file[t], shown)
    /\ CountAhead(l, lo, t)
    /\ \A i \in DOMAIN file[t] : i <= count[t] \/ InsertedAbove(l, lo, file[t][i].rid)

DownOK == phase = "down" =>
    /\ batch = NoBatch
    /\ owed = Nothing \/
          \E lo \in 0 .. Len(log), q \in Tables, kind \in Kinds :
              /\ RecoveryTarget(log, lo) /\ Stretch(log, lo, q, kind)
              /\ \A t \in Tables : owed[t] # None /\ holes[t] = {} => Owing(log, lo, t, owed[t])

\* The batches hold the lines above the cursor.
BatchHolds(kind) ==
    LET rids == {oldLog[j].rid : j \in job.at + 1 .. Len(oldLog)} IN
    /\ kind = "Insert" => batch.inserted = rids
    /\ kind = "Delete" => batch.deleted = rids
    /\ kind = "Update" =>
          /\ DOMAIN batch.updated = rids
          /\ \A j \in job.at + 1 .. Len(oldLog) : batch.updated[oldLog[j].rid] = oldLog[j].before

Restored(t) ==
    LET twice == DeletedTwice(oldLog, job.target) IN
    Except(Shown(t), twice) = Except(owed[t], twice)

RecoverOK == phase = "recover" =>
    /\ log = <<>>
    /\ owed = Nothing \/
          \E q \in Tables, kind \in Kinds :
              /\ Stretch(oldLog, job.target, q, kind)
              /\ job.target < job.at => BatchHolds(kind)
              /\ \A t \in Tables : owed[t] # None /\ holes[t] = {} =>
                    IF job.target < job.at THEN Owing(oldLog, job.target, t, owed[t]) ELSE Restored(t)

\* What stays in the batches is of tables with rows that no undo can read, or of
\* which log_diff has passed over a line.
Waiting == batch.inserted \cup DOMAIN batch.updated \cup batch.deleted
MayWait(t) ==
    \/ holes[t] # {}
    \/ LeftBehind(t)
    \/ phase = "rollback" /\ PassedOver(job.target, t)
StaleOK ==
    /\ phase # "recover" => \A r \in Waiting : MayWait(TableOf[r])
    /\ phase = "recover" =>
          /\ batch.inserted # {} => Due("Insert")
          /\ DOMAIN batch.updated # {} => Due("Update")
          /\ batch.deleted # {} => Due("Delete")

\* A row is inserted before any other line is about it.
FreshOK == \A j, k \in DOMAIN log : log[j].kind = "Insert" /\ Touches(log[k], log[j].rid) => j <= k

\* Rows of t with lines above line s may not be undone.
GoesAstray(s, t) == PassedOver(s, t) \/ LeftBehind(t)

\* Savepoints that a rollback may still be asked for.
Usable(h, s) == h \in Hashes \ rolled /\ IsLastSave(log, s, h)

Keeps(s, at, h) ==
    \A t \in Tables : holes[t] = {} /\ ~GoesAstray(s, t) /\ saved[h][t] # {Unreadable} =>
        Missing(t) \/ Back(log, s, at, file[t], saved[h][t])

SavedOK ==
    /\ saved \in [Hashes -> [Tables -> {None} \cup SUBSET (Slots \cup {Unreadable})]]
    /\ phase # "down" => \A h \in Hashes, s \in DOMAIN log : Usable(h, s) => Keeps(s, Len(log), h)

RollbackOK == phase = "rollback" =>
    /\ \A h \in Hashes, s \in DOMAIN log : Usable(h, s) => s <= job.target
    /\ job.target # 0 /\ log[job.target] = SavePointLine(job.hash) => Keeps(job.target, job.at, job.hash)

\* What is remembered of a table are rows of it.
Own(shown, t) == shown # None => \A slot \in shown : slot \in Slots /\ TableOf[slot.rid] = t
OwnOK == \A t \in Tables : Own(opened[t], t) /\ Own(owed[t], t)

RestoreInv ==
    /\ CountsOK /\ QueryOK /\ DownOK /\ RecoverOK /\ FreshOK /\ OwnOK
    /\ StaleOK /\ SavedOK /\ RollbackOK

-----------------------------------------------------------------------------
(* What is left in a field. *)

LEMMA FallsTouched ==
    ASSUME NEW js, NEW left, NEW lo, NEW hi, NEW now, NEW v, NEW new,
           Falls(js, left, lo, hi, now, v), \E j \in js : lo < j /\ j <= hi
    PROVE  Falls(js, left, lo, hi, new, v)
BY DEF Falls

LEMMA FallsGrows ==
    ASSUME NEW lo \in Nat, NEW hi \in Nat, lo <= hi, NEW js \in SUBSET (1 .. hi), NEW left,
           NEW js2 \in SUBSET (1 .. hi + 1), NEW left2, NEW now, NEW v,
           Falls(js, left, lo, hi, now, v),
           js = js2 \ {hi + 1}, \A j \in js : left2[j] = left[j],
           hi + 1 \in js2 => left2[hi + 1] = now
    PROVE  Falls(js2, left2, lo, hi + 1, now, v)
<1>1. CASE \A j \in js : ~(lo < j /\ j <= hi)
  <2>1. now = v
        BY <1>1 DEF Falls
  <2>2. \A j \in js2 : lo < j => j = hi + 1
        BY <1>1
  <2>3. QED
        BY <2>1, <2>2 DEF Falls
<1>2. CASE ~ \A j \in js : ~(lo < j /\ j <= hi)
  <2>1. PICK m \in js : lo < m /\ m <= hi
        BY <1>2
  <2>2. ASSUME NEW j \in js2, lo < j, j <= hi + 1, \A k \in js2 : lo < k => j <= k
        PROVE  left2[j] = v
    <3>1. j <= m /\ j \in js
          BY <2>1, <2>2
    <3>2. left[j] = v
          BY <2>2, <3>1 DEF Falls
    <3>3. QED
          BY <3>1, <3>2
  <2>3. m \in js2 /\ m <= hi + 1
        BY <2>1
  <2>4. QED
        BY <2>1, <2>2, <2>3 DEF Falls
<1>3. QED
      BY <1>1, <1>2

\* Line hi is undone.
LEMMA FallsUndone ==
    ASSUME NEW lo \in Nat, NEW hi \in Nat, lo < hi, NEW js \in SUBSET Nat, NEW left,
           NEW now, NEW new, NEW v, Falls(js, left, lo, hi, now, v),
           IF hi \in js THEN new = left[hi] ELSE new = now
    PROVE  Falls(js, left, lo, hi - 1, new, v)
<1>1. ASSUME NEW j \in js, lo < j, j <= hi - 1, \A k \in js : lo < k => j <= k
      PROVE  left[j] = v
      BY <1>1 DEF Falls
<1>2. ASSUME \A j \in js : ~(lo < j /\ j <= hi - 1)
      PROVE  new = v
  <2>1. CASE hi \in js
    <3>1. \A k \in js : lo < k => hi <= k
          BY <1>2
    <3>2. QED
          BY <2>1, <3>1 DEF Falls
  <2>2. CASE hi \notin js
        BY <1>2, <2>2 DEF Falls
  <2>3. QED
        BY <2>1, <2>2
<1>3. QED
      BY <1>1, <1>2 DEF Falls

LEMMA FallsDone ==
    ASSUME NEW lo \in Nat, NEW js \in SUBSET Nat, NEW left, NEW now, NEW v,
           Falls(js, left, lo, lo, now, v)
    PROVE  now = v
BY DEF Falls

LEMMA FallsNone ==
    ASSUME NEW lo \in Nat, NEW hi \in Nat, NEW js \in SUBSET Nat, NEW left, NEW now,
           \A j \in js : ~(lo < j /\ j <= hi)
    PROVE  Falls(js, left, lo, hi, now, now)
BY DEF Falls

-----------------------------------------------------------------------------
(* What is left in the rows of a table. *)

\* A row is carried from one state to another with its place in what was shown.
LEMMA BackMoves ==
    ASSUME NEW l, NEW lo, NEW hi, NEW rows, NEW shown, Back(l, lo, hi, rows, shown),
           NEW l2, NEW hi2, NEW rows2, DOMAIN rows2 = DOMAIN rows,
           \A i \in DOMAIN rows : rows2[i].rid = rows[i].rid,
           DeletedTwice(l, lo) \subseteq DeletedTwice(l2, lo),
           \A i \in DOMAIN rows : rows[i].rid \notin DeletedTwice(l2, lo) =>
              /\ \A del \in {"0", "1"} :
                    DelFalls(l, lo, hi, rows[i], del) => DelFalls(l2, lo, hi2, rows2[i], del)
              /\ \A val \in Contents :
                    ValFalls(l, lo, hi, rows[i], val) => ValFalls(l2, lo, hi2, rows2[i], val)
    PROVE  Back(l2, lo, hi2, rows2, shown)
<1> DEFINE twice == DeletedTwice(l, lo)
           twice2 == DeletedTwice(l2, lo)
<1>1. /\ shown \subseteq {slot \in Slots : slot.del # "1"}
      /\ \A slot \in shown : slot.rid \notin twice =>
            \E i \in DOMAIN rows :
                /\ rows[i].rid = slot.rid
                /\ DelFalls(l, lo, hi, rows[i], slot.del)
                /\ ValFalls(l, lo, hi, rows[i], slot.val)
      /\ \A i \in DOMAIN rows : rows[i].rid \notin twice =>
            \E del \in {"0", "1"} :
                /\ DelFalls(l, lo, hi, rows[i], del)
                /\ del # "1" =>
                      \E val \in Contents : /\ ValFalls(l, lo, hi, rows[i], val)
                                            /\ Slot(rows[i].rid, val, del) \in shown
      BY DEF Back
<1> HIDE DEF twice, twice2
<1>2. twice \subseteq twice2
      BY DEF twice, twice2
<1>3. \A i \in DOMAIN rows : rows[i].rid \notin twice2 =>
         /\ \A del \in {"0", "1"} :
               DelFalls(l, lo, hi, rows[i], del) => DelFalls(l2, lo, hi2, rows2[i], del)
         /\ \A val \in Contents :
               ValFalls(l, lo, hi, rows[i], val) => ValFalls(l2, lo, hi2, rows2[i], val)
      BY DEF twice2
<1>4. ASSUME NEW slot \in shown, slot.rid \notin twice2
      PROVE  \E i \in DOMAIN rows2 :
                /\ rows2[i].rid = slot.rid
                /\ DelFalls(l2, lo, hi2, rows2[i], slot.del)
                /\ ValFalls(l2, lo, hi2, rows2[i], slot.val)
  <2>1. slot.val \in Contents /\ slot.del \in {"0", "1"}
        BY <1>1, SlotParts
  <2>2. PICK i \in DOMAIN rows :
                /\ rows[i].rid = slot.rid
                /\ DelFalls(l, lo, hi, rows[i], slot.del)
                /\ ValFalls(l, lo, hi, rows[i], slot.val)
        BY <1>1, <1>2, <1>4
  <2>3. QED
        BY <1>3, <1>4, <2>1, <2>2
<1>5. ASSUME NEW i \in DOMAIN rows2, rows2[i].rid \notin twice2
      PROVE  \E del \in {"0", "1"} :
                /\ DelFalls(l2, lo, hi2, rows2[i], del)
                /\ del # "1" =>
                      \E val \in Contents : /\ ValFalls(l2, lo, hi2, rows2[i], val)
                                            /\ Slot(rows2[i].rid, val, del) \in shown
  <2>1. i \in DOMAIN rows /\ rows2[i].rid = rows[i].rid
        OBVIOUS
  <2>2. PICK del \in {"0", "1"} :
                /\ DelFalls(l, lo, hi, rows[i], del)
                /\ del # "1" =>
                      \E val \in Contents : /\ ValFalls(l, lo, hi, rows[i], val)
                                            /\ Slot(rows[i].rid, val, del) \in shown
        BY <1>1, <1>2, <1>5, <2>1
  <2>3. DelFalls(l2, lo, hi2, rows2[i], del)
        BY <1>3, <1>5, <2>1, <2>2
  <2>4. del # "1" => \E val \in Contents : /\ ValFalls(l2, lo, hi2, rows2[i], val)
                                           /\ Slot(rows2[i].rid, val, del) \in shown
        BY <1>3, <1>5, <2>1, <2>2
  <2>5. QED
        BY <2>3, <2>4
<1>6. QED
      BY <1>1, <1>4, <1>5 DEF Back, twice2

\* A log and the same log with one more line.
LEMMA OneMore ==
    ASSUME NEW l \in Seq(Lines), NEW line \in Lines, NEW l2, l2 = Append(l, line)
    PROVE  /\ l2 \in Seq(Lines) /\ Len(l) \in Nat /\ Len(l2) = Len(l) + 1
           /\ DOMAIN l = 1 .. Len(l) /\ DOMAIN l2 = 1 .. Len(l) + 1
           /\ \A j \in DOMAIN l : l2[j] = l[j]
           /\ l2[Len(l) + 1] = line
OBVIOUS

\* The row of a line keeps what undoing the line leaves in it.
LEMMA RowLogged ==
    ASSUME NEW l \in Seq(Lines), NEW line \in Lines, NEW l2, l2 = Append(l, line),
           NEW lo \in Nat, lo <= Len(l), NEW slot \in Slots,
           Touches(line, slot.rid) =>
               Mark(line) = slot.del /\ (line.kind = "Update" => line.before.val = slot.val)
    PROVE  /\ \A del : DelFalls(l, lo, Len(l), slot, del) => DelFalls(l2, lo, Len(l2), slot, del)
           /\ \A val : ValFalls(l, lo, Len(l), slot, val) => ValFalls(l2, lo, Len(l2), slot, val)
<1>1. /\ l2 \in Seq(Lines) /\ Len(l) \in Nat /\ Len(l2) = Len(l) + 1
      /\ DOMAIN l = 1 .. Len(l) /\ DOMAIN l2 = 1 .. Len(l) + 1
      /\ \A j \in DOMAIN l : l2[j] = l[j]
      /\ l2[Len(l) + 1] = line
      BY OneMore
<1>2. ASSUME NEW del, DelFalls(l, lo, Len(l), slot, del)
      PROVE  DelFalls(l2, lo, Len(l2), slot, del)
  <2> DEFINE js == Touched(l, slot.rid)
             js2 == Touched(l2, slot.rid)
             left == Dels(l)
             left2 == Dels(l2)
  <2>1. js \in SUBSET (1 .. Len(l)) /\ js2 \in SUBSET (1 .. Len(l) + 1) /\ js = js2 \ {Len(l) + 1}
        BY <1>1 DEF Touched
  <2>2. \A j \in js : left2[j] = left[j]
        BY <1>1, <2>1 DEF Dels
  <2>3. Len(l) + 1 \in js2 => left2[Len(l) + 1] = slot.del
        BY <1>1 DEF Touched, Dels
  <2>4. Falls(js, left, lo, Len(l), slot.del, del)
        BY <1>2 DEF DelFalls
  <2> HIDE DEF js, js2, left, left2
  <2>5. Falls(js2, left2, lo, Len(l) + 1, slot.del, del)
        BY <1>1, <2>1, <2>2, <2>3, <2>4, FallsGrows
  <2>6. QED
        BY <1>1, <2>5 DEF DelFalls, js2, left2
<1>3. ASSUME NEW val, ValFalls(l, lo, Len(l), slot, val)
      PROVE  ValFalls(l2, lo, Len(l2), slot, val)
  <2> DEFINE js == Rewritten(l, slot.rid)
             js2 == Rewritten(l2, slot.rid)
             left == Vals(l, slot.rid)
             left2 == Vals(l2, slot.rid)
  <2>1. js \in SUBSET (1 .. Len(l)) /\ js2 \in SUBSET (1 .. Len(l) + 1) /\ js = js2 \ {Len(l) + 1}
        BY <1>1 DEF Rewritten
  <2>2. \A j \in js : left2[j] = left[j]
        BY <1>1, <2>1 DEF Vals
  <2>3. Len(l) + 1 \in js2 => left2[Len(l) + 1] = slot.val
        BY <1>1 DEF Rewritten, Vals
  <2>4. Falls(js, left, lo, Len(l), slot.val, val)
        BY <1>3 DEF ValFalls
  <2> HIDE DEF js, js2, left, left2
  <2>5. Falls(js2, left2, lo, Len(l) + 1, slot.val, val)
        BY <1>1, <2>1, <2>2, <2>3, <2>4, FallsGrows
  <2>6. QED
        BY <1>1, <2>5 DEF ValFalls, js2, left2
<1>4. QED
      BY <1>2, <1>3

\* A line is logged that keeps the row it is about, if any.
LEMMA BackLogged ==
    ASSUME NEW l \in Seq(Lines), NEW line \in Lines, NEW l2, l2 = Append(l, line),
           NEW lo \in Nat, lo <= Len(l), NEW rows \in Seq(Slots), NEW shown,
           Back(l, lo, Len(l), rows, shown),
           \A i \in DOMAIN rows : Touches(line, rows[i].rid) =>
               line.kind # "Insert" /\ line.before = Held(rows[i])
    PROVE  Back(l2, lo, Len(l2), rows, shown)
<1>1. /\ l2 \in Seq(Lines) /\ Len(l) \in Nat /\ Len(l2) = Len(l) + 1
      /\ DOMAIN l = 1 .. Len(l) /\ DOMAIN l2 = 1 .. Len(l) + 1
      /\ \A j \in DOMAIN l : l2[j] = l[j]
      /\ l2[Len(l) + 1] = line
      BY OneMore
<1>2. DeletedTwice(l, lo) \subseteq DeletedTwice(l2, lo)
      BY <1>1 DEF DeletedTwice
<1>3. ASSUME NEW i \in DOMAIN rows, rows[i].rid \notin DeletedTwice(l2, lo)
      PROVE  /\ \A del \in {"0", "1"} :
                   DelFalls(l, lo, Len(l), rows[i], del) => DelFalls(l2, lo, Len(l2), rows[i], del)
             /\ \A val \in Contents :
                   ValFalls(l, lo, Len(l), rows[i], val) => ValFalls(l2, lo, Len(l2), rows[i], val)
  <2>1. rows[i] \in Slots
        OBVIOUS
  <2>2. Touches(line, rows[i].rid) =>
            Mark(line) = rows[i].del /\ (line.kind = "Update" => line.before.val = rows[i].val)
    <3> HAVE Touches(line, rows[i].rid)
    <3>1. line.kind \in {"Update", "Delete"} /\ line.rid = rows[i].rid /\ line.before = Held(rows[i])
          BY DEF Touches, IsChange
    <3>2. line.before.val = rows[i].val /\ line.before.del = rows[i].del /\ rows[i].del \in {"0", "1"}
          BY <2>1, <3>1, SlotParts DEF Held
    <3>3. line.kind = "Delete" => line.before.del # "1"
      <4> HAVE line.kind = "Delete"
      <4>1. Len(l) + 1 \in DOMAIN l2 /\ Len(l) + 1 > lo
            BY <1>1
      <4>2. QED
            BY <1>1, <1>3, <3>1, <4>1 DEF DeletedTwice
    <3>4. QED
          BY <3>1, <3>2, <3>3 DEF Mark
  <2>3. QED
        BY <2>1, <2>2, RowLogged
<1>4. QED
      BY <1>2, <1>3, BackMoves

\* A row that has a line above lo is written over.
LEMMA BackWritten ==
    ASSUME NEW l \in Seq(Lines), NEW lo \in Nat, NEW rows \in Seq(Slots), NEW shown,
           NEW hi \in Nat, Back(l, lo, hi, rows, shown),
           NEW rows2, DOMAIN rows2 = DOMAIN rows,
           \A i \in DOMAIN rows :
              /\ rows2[i].rid = rows[i].rid
              /\ rows2[i].del # rows[i].del => \E j \in DOMAIN l : lo < j /\ j <= hi /\ Touches(l[j], rows[i].rid)
              /\ rows2[i].val # rows[i].val =>
                    \E j \in DOMAIN l : lo < j /\ j <= hi /\ Touches(l[j], rows[i].rid) /\ l[j].kind = "Update"
    PROVE  Back(l, lo, hi, rows2, shown)
<1>1. ASSUME NEW i \in DOMAIN rows
      PROVE  /\ \A del : DelFalls(l, lo, hi, rows[i], del) => DelFalls(l, lo, hi, rows2[i], del)
             /\ \A val : ValFalls(l, lo, hi, rows[i], val) => ValFalls(l, lo, hi, rows2[i], val)
  <2> DEFINE js == Touched(l, rows[i].rid)
             ks == Rewritten(l, rows[i].rid)
  <2>1. rows2[i].rid = rows[i].rid
        OBVIOUS
  <2>2. rows2[i].del = rows[i].del \/ \E j \in js : lo < j /\ j <= hi
        BY DEF Touched
  <2>3. rows2[i].val = rows[i].val \/ \E j \in ks : lo < j /\ j <= hi
        BY DEF Rewritten
  <2> HIDE DEF js, ks
  <2>4. ASSUME NEW del, DelFalls(l, lo, hi, rows[i], del) PROVE DelFalls(l, lo, hi, rows2[i], del)
    <3>1. Falls(js, Dels(l), lo, hi, rows[i].del, del)
          BY <2>4 DEF DelFalls, js
    <3>2. Falls(js, Dels(l), lo, hi, rows2[i].del, del)
          BY <2>2, <3>1, FallsTouched
    <3>3. QED
          BY <2>1, <3>2 DEF DelFalls, js
  <2>5. ASSUME NEW val, ValFalls(l, lo, hi, rows[i], val) PROVE ValFalls(l, lo, hi, rows2[i], val)
    <3>1. Falls(ks, Vals(l, rows[i].rid), lo, hi, rows[i].val, val)
          BY <2>5 DEF ValFalls, ks
    <3>2. Falls(ks, Vals(l, rows[i].rid), lo, hi, rows2[i].val, val)
          BY <2>3, <3>1, FallsTouched
    <3>3. QED
          BY <2>1, <3>2 DEF ValFalls, ks
  <2>6. QED
        BY <2>4, <2>5
<1>2. QED
      BY <1>1, BackMoves

\* Line hi is undone: its row gets what it leaves there.
LEMMA BackUndone ==
    ASSUME NEW l \in Seq(Lines), NEW lo \in Nat, NEW hi \in Nat, lo < hi, hi <= Len(l),
           NEW rows \in Seq(Slots), NEW shown, Back(l, lo, hi, rows, shown),
           NEW rows2, DOMAIN rows2 = DOMAIN rows,
           \A i \in DOMAIN rows :
              /\ rows2[i].rid = rows[i].rid
              /\ rows2[i].del = IF Touches(l[hi], rows[i].rid) THEN Mark(l[hi]) ELSE rows[i].del
              /\ rows2[i].val = IF Touches(l[hi], rows[i].rid) /\ l[hi].kind = "Update"
                                THEN l[hi].before.val ELSE rows[i].val
    PROVE  Back(l, lo, hi - 1, rows2, shown)
<1>0. Len(l) \in Nat /\ DOMAIN l = 1 .. Len(l) /\ hi \in DOMAIN l
      OBVIOUS
<1>1. ASSUME NEW i \in DOMAIN rows
      PROVE  /\ \A del : DelFalls(l, lo, hi, rows[i], del) => DelFalls(l, lo, hi - 1, rows2[i], del)
             /\ \A val : ValFalls(l, lo, hi, rows[i], val) => ValFalls(l, lo, hi - 1, rows2[i], val)
  <2> DEFINE js == Touched(l, rows[i].rid)
             ks == Rewritten(l, rows[i].rid)
             dels == Dels(l)
             vals == Vals(l, rows[i].rid)
  <2>1. rows2[i].rid = rows[i].rid
        OBVIOUS
  <2>2. IF hi \in js THEN rows2[i].del = dels[hi] ELSE rows2[i].del = rows[i].del
        BY <1>0 DEF Touched, Dels
  <2>3. IF hi \in ks THEN rows2[i].val = vals[hi] ELSE rows2[i].val = rows[i].val
        BY <1>0 DEF Rewritten, Vals
  <2>4. js \in SUBSET Nat /\ ks \in SUBSET Nat
        BY <1>0 DEF Touched, Rewritten
  <2> HIDE DEF js, ks, dels, vals
  <2>5. ASSUME NEW del, DelFalls(l, lo, hi, rows[i], del) PROVE DelFalls(l, lo, hi - 1, rows2[i], del)
    <3>1. Falls(js, dels, lo, hi, rows[i].del, del)
          BY <2>5 DEF DelFalls, js, dels
    <3>2. Falls(js, dels, lo, hi - 1, rows2[i].del, del)
          BY <2>2, <2>4, <3>1, FallsUndone
    <3>3. QED
          BY <2>1, <3>2 DEF DelFalls, js, dels
  <2>6. ASSUME NEW val, ValFalls(l, lo, hi, rows[i], val) PROVE ValFalls(l, lo, hi - 1, rows2[i], val)
    <3>1. Falls(ks, vals, lo, hi, rows[i].val, val)
          BY <2>6 DEF ValFalls, ks, vals
    <3>2. Falls(ks, vals, lo, hi - 1, rows2[i].val, val)
          BY <2>3, <2>4, <3>1, FallsUndone
    <3>3. QED
          BY <2>1, <3>2 DEF ValFalls, ks, vals
  <2>7. QED
        BY <2>5, <2>6
<1>2. QED
      BY <1>1, BackMoves

\* Rows are put behind that lines above lo insert.
LEMMA BackRows ==
    ASSUME NEW l \in Seq(Lines), NEW lo \in Nat, NEW rows \in Seq(Slots), NEW shown,
           Back(l, lo, Len(l), rows, shown), NEW b \in Seq(Slots),
           \A i \in DOMAIN b : InsertedAbove(l, lo, b[i].rid),
           \A j, k \in DOMAIN l : l[j].kind = "Insert" /\ Touches(l[k], l[j].rid) => j <= k
    PROVE  Back(l, lo, Len(l), rows \o b, shown)
<1> DEFINE twice == DeletedTwice(l, lo)
           rows2 == rows \o b
           hi == Len(l)
<1>1. /\ Len(rows) \in Nat /\ Len(b) \in Nat
      /\ DOMAIN rows = 1 .. Len(rows) /\ DOMAIN b = 1 .. Len(b)
      /\ \A i \in DOMAIN rows : i \in DOMAIN rows2 /\ rows2[i] = rows[i]
      /\ \A i \in DOMAIN rows2 : i \in DOMAIN rows \/ (i - Len(rows) \in DOMAIN b /\ rows2[i] = b[i - Len(rows)])
      BY Concatenated
<1>2. /\ shown \subseteq {slot \in Slots : slot.del # "1"}
      /\ \A slot \in shown : slot.rid \notin twice =>
            \E i \in DOMAIN rows :
                /\ rows[i].rid = slot.rid
                /\ DelFalls(l, lo, hi, rows[i], slot.del)
                /\ ValFalls(l, lo, hi, rows[i], slot.val)
      /\ \A i \in DOMAIN rows : rows[i].rid \notin twice =>
            \E del \in {"0", "1"} :
                /\ DelFalls(l, lo, hi, rows[i], del)
                /\ del # "1" =>
                      \E val \in Contents : /\ ValFalls(l, lo, hi, rows[i], val)
                                            /\ Slot(rows[i].rid, val, del) \in shown
      BY DEF Back
<1>3. Len(l) \in Nat /\ DOMAIN l = 1 .. Len(l)
      OBVIOUS
<1>4. ASSUME NEW i \in DOMAIN b
      PROVE  DelFalls(l, lo, hi, b[i], "1")
  <2>1. PICK m \in DOMAIN l : lo < m /\ l[m] = InsertLine(b[i].rid)
        BY DEF InsertedAbove
  <2>2. l[m].kind = "Insert" /\ l[m].rid = b[i].rid /\ Touches(l[m], b[i].rid)
        BY <2>1, LineKinds DEF Touches
  <2>3. m \in Touched(l, b[i].rid) /\ m <= hi
        BY <1>3, <2>2 DEF Touched
  <2>4. \A j \in Touched(l, b[i].rid) : m <= j
        BY <2>2 DEF Touched
  <2>5. Dels(l)[m] = "1"
        BY <2>2 DEF Dels, Mark
  <2>6. Touched(l, b[i].rid) \subseteq 1 .. hi
        BY <1>3 DEF Touched
  <2> DEFINE js == Touched(l, b[i].rid)
             left == Dels(l)
  <2> HIDE DEF js, left
  <2>7. Falls(js, left, lo, hi, b[i].del, "1")
    <3>1. m \in js /\ m <= hi /\ lo < m /\ left[m] = "1" /\ (\A j \in js : m <= j) /\ js \subseteq 1 .. hi
          BY <2>1, <2>3, <2>4, <2>5, <2>6 DEF js, left
    <3>2. ASSUME NEW j \in js, \A k \in js : lo < k => j <= k
          PROVE  left[j] = "1"
      <4>1. j = m
            BY <1>3, <3>1, <3>2
      <4>2. QED
            BY <3>1, <4>1
    <3>3. QED
          BY <3>1, <3>2 DEF Falls
  <2>8. QED
        BY <2>7 DEF DelFalls, js, left
<1> HIDE DEF twice, rows2, hi
<1>5. ASSUME NEW i \in DOMAIN rows2, rows2[i].rid \notin twice
      PROVE  \E del \in {"0", "1"} :
                /\ DelFalls(l, lo, hi, rows2[i], del)
                /\ del # "1" =>
                      \E val \in Contents : /\ ValFalls(l, lo, hi, rows2[i], val)
                                            /\ Slot(rows2[i].rid, val, del) \in shown
  <2>1. CASE i \in DOMAIN rows
        BY <1>1, <1>2, <1>5, <2>1
  <2>2. CASE i \notin DOMAIN rows
    <3>1. DelFalls(l, lo, hi, rows2[i], "1")
          BY <1>1, <1>4, <2>2
    <3>2. QED
          BY <3>1
  <2>3. QED
        BY <2>1, <2>2
<1>6. \A slot \in shown : slot.rid \notin twice =>
            \E i \in DOMAIN rows2 :
                /\ rows2[i].rid = slot.rid
                /\ DelFalls(l, lo, hi, rows2[i], slot.del)
                /\ ValFalls(l, lo, hi, rows2[i], slot.val)
      BY <1>1, <1>2
<1>7. QED
      BY <1>2, <1>5, <1>6 DEF Back, twice, rows2, hi

\* The rows that are shown, before any line is logged.
Live(rows) == {rows[i] : i \in {j \in DOMAIN rows : rows[j].del # "1"}}

LEMMA BackFresh ==
    ASSUME NEW l \in Seq(Lines), NEW lo \in Nat, NEW rows \in Seq(Slots),
           \A j \in DOMAIN l : lo < j => ~IsChange(l[j])
    PROVE  Back(l, lo, Len(l), rows, Live(rows))
<1>1. Len(l) \in Nat /\ DOMAIN l = 1 .. Len(l)
      OBVIOUS
<1>2. \A i \in DOMAIN rows : rows[i] \in Slots
      OBVIOUS
<1>3. ASSUME NEW slot
      PROVE  DelFalls(l, lo, Len(l), slot, slot.del) /\ ValFalls(l, lo, Len(l), slot, slot.val)
  <2> DEFINE js == Touched(l, slot.rid)
             ks == Rewritten(l, slot.rid)
             dels == Dels(l)
             vals == Vals(l, slot.rid)
  <2>1. js \in SUBSET Nat /\ ks \in SUBSET Nat
        BY <1>1 DEF Touched, Rewritten
  <2>2. (\A j \in js : ~(lo < j /\ j <= Len(l))) /\ (\A j \in ks : ~(lo < j /\ j <= Len(l)))
        BY DEF Touched, Rewritten, Touches
  <2> HIDE DEF js, ks, dels, vals
  <2>3. Falls(js, dels, lo, Len(l), slot.del, slot.del)
        BY <1>1, <2>1, <2>2, FallsNone
  <2>4. Falls(ks, vals, lo, Len(l), slot.val, slot.val)
        BY <1>1, <2>1, <2>2, FallsNone
  <2>5. QED
        BY <2>3, <2>4 DEF DelFalls, ValFalls, js, ks, dels, vals
<1>4. Live(rows) \subseteq {slot \in Slots : slot.del # "1"}
      BY <1>2 DEF Live
<1>5. \A slot \in Live(rows) : \E i \in DOMAIN rows : rows[i] = slot
      BY DEF Live
<1>6. ASSUME NEW i \in DOMAIN rows
      PROVE  \E del \in {"0", "1"} :
                /\ DelFalls(l, lo, Len(l), rows[i], del)
                /\ del # "1" =>
                      \E val \in Contents : /\ ValFalls(l, lo, Len(l), rows[i], val)
                                            /\ Slot(rows[i].rid, val, del) \in Live(rows)
  <2>1. rows[i].del \in {"0", "1"} /\ rows[i].val \in Contents
        BY <1>2, SlotParts
  <2>2. Slot(rows[i].rid, rows[i].val, rows[i].del) = rows[i]
        BY <1>2 DEF Slots, Slot
  <2>3. rows[i].del # "1" => rows[i] \in Live(rows)
        BY DEF Live
  <2>4. QED
        BY <1>3, <2>1, <2>2, <2>3
<1>7. \A slot \in Live(rows) : \E i \in DOMAIN rows :
                /\ rows[i].rid = slot.rid
                /\ DelFalls(l, lo, Len(l), rows[i], slot.del)
                /\ ValFalls(l, lo, Len(l), rows[i], slot.val)
      BY <1>3, <1>5
<1>8. QED
      BY <1>4, <1>6, <1>7 DEF Back

\* All lines are undone: but for rows deleted twice, the rows are those shown.
LEMMA BackDone ==
    ASSUME NEW l \in Seq(Lines), NEW lo \in Nat, NEW rows \in Seq(Slots), NEW shown,
           Back(l, lo, lo, rows, shown)
    PROVE  Except(Live(rows), DeletedTwice(l, lo)) = Except(shown, DeletedTwice(l, lo))
<1> DEFINE twice == DeletedTwice(l, lo)
<1>1. /\ shown \subseteq {slot \in Slots : slot.del # "1"}
      /\ \A slot \in shown : slot.rid \notin twice =>
            \E i \in DOMAIN rows :
                /\ rows[i].rid = slot.rid
                /\ DelFalls(l, lo, lo, rows[i], slot.del)
                /\ ValFalls(l, lo, lo, rows[i], slot.val)
      /\ \A i \in DOMAIN rows : rows[i].rid \notin twice =>
            \E del \in {"0", "1"} :
                /\ DelFalls(l, lo, lo, rows[i], del)
                /\ del # "1" =>
                      \E val \in Contents : /\ ValFalls(l, lo, lo, rows[i], val)
                                            /\ Slot(rows[i].rid, val, del) \in shown
      BY DEF Back
<1>2. \A r : Touched(l, r) \in SUBSET Nat /\ Rewritten(l, r) \in SUBSET Nat
      BY DEF Touched, Rewritten
<1>3. \A slot, del : DelFalls(l, lo, lo, slot, del) => slot.del = del
      BY <1>2, FallsDone DEF DelFalls
<1>4. \A slot, val : ValFalls(l, lo, lo, slot, val) => slot.val = val
      BY <1>2, FallsDone DEF ValFalls
<1> HIDE DEF twice
<1>5. \A i \in DOMAIN rows : rows[i] \in Slots
      OBVIOUS
<1>6. \A x, y \in Slots : x.rid = y.rid /\ x.del = y.del /\ x.val = y.val => x = y
      BY DEF Slots
<1>7. ASSUME NEW slot \in shown, slot.rid \notin twice
      PROVE  slot \in Live(rows)
  <2>1. slot \in Slots /\ slot.del # "1"
        BY <1>1
  <2>2. PICK i \in DOMAIN rows : /\ rows[i].rid = slot.rid
                                 /\ DelFalls(l, lo, lo, rows[i], slot.del)
                                 /\ ValFalls(l, lo, lo, rows[i], slot.val)
        BY <1>1, <1>7
  <2>3. rows[i] = slot
        BY <1>3, <1>4, <1>5, <1>6, <2>1, <2>2
  <2>4. QED
        BY <2>1, <2>3 DEF Live
<1>8. ASSUME NEW slot \in Live(rows), slot.rid \notin twice
      PROVE  slot \in shown
  <2>1. PICK i \in DOMAIN rows : rows[i] = slot /\ rows[i].del # "1"
        BY DEF Live
  <2>2. PICK del \in {"0", "1"} :
                /\ DelFalls(l, lo, lo, rows[i], del)
                /\ del # "1" =>
                      \E val \in Contents : /\ ValFalls(l, lo, lo, rows[i], val)
                                            /\ Slot(rows[i].rid, val, del) \in shown
        BY <1>1, <1>8, <2>1
  <2>3. rows[i].del = del
        BY <1>3, <2>2
  <2>4. PICK val \in Contents : ValFalls(l, lo, lo, rows[i], val) /\ Slot(rows[i].rid, val, del) \in shown
        BY <2>1, <2>2, <2>3
  <2>5. rows[i].val = val
        BY <1>4, <2>4
  <2>6. Slot(rows[i].rid, rows[i].val, rows[i].del) = rows[i]
        BY <1>5 DEF Slots, Slot
  <2>7. QED
        BY <2>1, <2>3, <2>4, <2>5, <2>6
<1>9. \A slot \in shown \cup Live(rows) : slot # Unreadable
      BY <1>1, <1>5, UnreadableAssumption DEF Live
<1>10. QED
      BY <1>7, <1>8, <1>9 DEF Except, twice

-----------------------------------------------------------------------------
(* What a step of a query does to the tables' past. *)

\* No step makes rows above line lo impossible to take back.
StepBack(lo) ==
    \A t \in Tables, s \in 0 .. lo : \A shown :
        holes'[t] = {} /\ Back(log, s, Len(log), file[t], shown)
            => Back(log', s, Len(log'), file'[t], shown)

LEMMA SameBack ==
    ASSUME NEW lo \in Nat, log' = log, file' = file
    PROVE  StepBack(lo)
BY DEF StepBack

\* A line is logged that keeps the row it is about.
LEMMA LogBack ==
    ASSUME TypeOK, NEW lo \in DOMAIN log, NEW line \in Lines, Log(line), file' = file,
           \A t \in Tables : \A i \in DOMAIN file[t] : Touches(line, file[t][i].rid) =>
               line.kind # "Insert" /\ line.before = Held(file[t][i])
    PROVE  StepBack(lo)
<1>1. log \in Seq(Lines) /\ log' = Append(log, line) /\ Len(log) \in Nat /\ lo <= Len(log) /\ lo \in Nat
      BY DEF TypeOK, Log
<1>2. ASSUME NEW t \in Tables, NEW s \in 0 .. lo, NEW shown, Back(log, s, Len(log), file[t], shown)
      PROVE  Back(log', s, Len(log'), file[t], shown)
  <2>1. file[t] \in Seq(Slots) /\ s \in Nat /\ s <= Len(log)
        BY <1>1 DEF TypeOK
  <2>2. \A i \in DOMAIN file[t] : Touches(line, file[t][i].rid) =>
               line.kind # "Insert" /\ line.before = Held(file[t][i])
        OBVIOUS
  <2>3. QED
        BY <1>1, <1>2, <2>1, <2>2, BackLogged
<1>3. QED
      BY <1>2 DEF StepBack

\* Rows are put behind that the query has logged.
LEMMA RowsBack ==
    ASSUME TypeOK, FreshOK, NEW lo \in DOMAIN log, log' = log,
           \A t \in Tables : \E b \in Seq(Slots) :
               file'[t] = file[t] \o b /\ \A i \in DOMAIN b : InsertedAbove(log, lo, b[i].rid)
    PROVE  StepBack(lo)
<1>1. log \in Seq(Lines) /\ lo \in Nat
      BY DEF TypeOK
<1>2. ASSUME NEW t \in Tables, NEW s \in 0 .. lo, NEW shown, Back(log, s, Len(log), file[t], shown)
      PROVE  Back(log, s, Len(log), file'[t], shown)
  <2>1. PICK b \in Seq(Slots) :
               file'[t] = file[t] \o b /\ \A i \in DOMAIN b : InsertedAbove(log, lo, b[i].rid)
        OBVIOUS
  <2>2. file[t] \in Seq(Slots) /\ s \in Nat
        BY <1>1 DEF TypeOK
  <2>3. \A i \in DOMAIN b : InsertedAbove(log, s, b[i].rid)
    <3>1. \A j \in DOMAIN log : j \in Nat
          BY <1>1
    <3>2. QED
          BY <1>1, <2>1, <3>1 DEF InsertedAbove
  <2>4. \A j, k \in DOMAIN log : log[j].kind = "Insert" /\ Touches(log[k], log[j].rid) => j <= k
        BY DEF FreshOK
  <2>5. Back(log, s, Len(log), file[t] \o b, shown)
        BY <1>1, <1>2, <2>2, <2>3, <2>4, BackRows
  <2>6. QED
        BY <2>1, <2>5
<1>3. QED
      BY <1>2 DEF StepBack

\* Rows are written over that the query has logged.
LEMMA WriteBack ==
    ASSUME TypeOK, NEW lo \in DOMAIN log, log' = log,
           \A t \in Tables : holes'[t] = {} =>
              /\ DOMAIN file'[t] = DOMAIN file[t]
              /\ \A i \in DOMAIN file[t] :
                    /\ file'[t][i].rid = file[t][i].rid
                    /\ file'[t][i].del # file[t][i].del => TouchedAbove(log, lo, file[t][i].rid)
                    /\ file'[t][i].val # file[t][i].val =>
                          \E j \in DOMAIN log : lo < j /\ Touches(log[j], file[t][i].rid) /\ log[j].kind = "Update"
    PROVE  StepBack(lo)
<1>1. log \in Seq(Lines) /\ lo \in Nat /\ Len(log) \in Nat /\ DOMAIN log = 1 .. Len(log)
      BY DEF TypeOK
<1>2. ASSUME NEW t \in Tables, NEW s \in 0 .. lo, NEW shown, Back(log, s, Len(log), file[t], shown),
             holes'[t] = {}
      PROVE  Back(log, s, Len(log), file'[t], shown)
  <2>1. file[t] \in Seq(Slots) /\ s \in Nat
        BY <1>1 DEF TypeOK
  <2>2. PICK rows2 : rows2 = file'[t]
        OBVIOUS
  <2>3. DOMAIN rows2 = DOMAIN file[t]
        BY <1>2, <2>2
  <2>4. \A i \in DOMAIN file[t] :
              /\ rows2[i].rid = file[t][i].rid
              /\ rows2[i].del # file[t][i].del =>
                    \E j \in DOMAIN log : s < j /\ j <= Len(log) /\ Touches(log[j], file[t][i].rid)
              /\ rows2[i].val # file[t][i].val =>
                    \E j \in DOMAIN log : s < j /\ j <= Len(log) /\ Touches(log[j], file[t][i].rid)
                                             /\ log[j].kind = "Update"
    <3> SUFFICES ASSUME NEW i \in DOMAIN file[t]
                 PROVE  /\ rows2[i].rid = file[t][i].rid
                        /\ rows2[i].del # file[t][i].del =>
                              \E j \in DOMAIN log : s < j /\ j <= Len(log) /\ Touches(log[j], file[t][i].rid)
                        /\ rows2[i].val # file[t][i].val =>
                              \E j \in DOMAIN log : s < j /\ j <= Len(log) /\ Touches(log[j], file[t][i].rid)
                                                       /\ log[j].kind = "Update"
        OBVIOUS
    <3>1. /\ rows2[i].rid = file[t][i].rid
          /\ rows2[i].del # file[t][i].del => TouchedAbove(log, lo, file[t][i].rid)
          /\ rows2[i].val # file[t][i].val =>
                \E j \in DOMAIN log : lo < j /\ Touches(log[j], file[t][i].rid) /\ log[j].kind = "Update"
          BY <1>2, <2>2
    <3>2. \A j \in DOMAIN log : lo < j => s < j /\ j <= Len(log)
          BY <1>1
    <3>3. QED
          BY <3>1, <3>2 DEF TouchedAbove
  <2>5. Back(log, s, Len(log), rows2, shown)
        BY <1>1, <1>2, <2>1, <2>3, <2>4, BackWritten
  <2>6. QED
        BY <2>2, <2>5
<1>3. QED
      BY <1>2 DEF StepBack

\* What is above line lo of a log stays there when the log grows.
LEMMA AboveStays ==
    ASSUME \A j \in DOMAIN log : j \in DOMAIN log' /\ log'[j] = log[j], NEW lo, NEW r
    PROVE  /\ InsertedAbove(log, lo, r) => InsertedAbove(log', lo, r)
           /\ TouchedAbove(log, lo, r) => TouchedAbove(log', lo, r)
BY DEF InsertedAbove, TouchedAbove

\* A row is inserted by the first line about it.
LEMMA FreshGrows ==
    ASSUME TypeOK, LogsOK, FreshOK, NEW line \in Lines, Log(line),
           line.kind = "Insert" => line.rid \notin used
    PROVE  FreshOK'
<1>1. /\ Len(log') = Len(log) + 1 /\ Len(log) \in Nat
      /\ DOMAIN log = 1 .. Len(log) /\ DOMAIN log' = 1 .. Len(log')
      /\ log'[Len(log')] = line
      /\ \A j \in DOMAIN log : j \in DOMAIN log' /\ log'[j] = log[j]
      /\ \A j \in DOMAIN log' : j \in DOMAIN log \/ j = Len(log')
      BY Logged DEF TypeOK
<1>2. ASSUME NEW j \in DOMAIN log', NEW k \in DOMAIN log', log'[j].kind = "Insert",
             Touches(log'[k], log'[j].rid)
      PROVE  j <= k
  <2>1. CASE k \in DOMAIN log /\ j \in DOMAIN log
        BY <1>1, <1>2, <2>1 DEF FreshOK
  <2>2. CASE k \in DOMAIN log /\ j \notin DOMAIN log
    <3>1. log'[j] = line /\ log[k].rid = line.rid /\ IsChange(log[k])
          BY <1>1, <1>2, <2>2 DEF Touches
    <3>2. log[k].rid \in used
          BY <2>2, <3>1 DEF LogsOK
    <3>3. QED
          BY <1>2, <3>1, <3>2
  <2>3. CASE k \notin DOMAIN log
        BY <1>1, <1>2, <2>3
  <2>4. QED
        BY <2>1, <2>2, <2>3
<1>3. QED
      BY <1>2 DEF FreshOK

-----------------------------------------------------------------------------
(* A step of a query: what it owes to the invariant. *)

QueryGoesOn(lo) ==
    /\ CountsOK' /\ FreshOK' /\ StepBack(lo)
    /\ \A t \in Tables : Missing(t) => Missing(t)'
    /\ phase' = "query" => OpenedAt(lo)'

\* The rows of t that are counted, or will be when the frame is done.
LEMMA OpenedStays ==
    ASSUME TypeOK, NEW lo \in DOMAIN log, OpenedBack(lo), StepBack(lo), opened' = opened,
           \A t \in Tables : holes[t] \subseteq holes'[t],
           \A t \in Tables : opened[t] # None /\ holes[t] = {} =>
               (CountAhead(log, lo, t) => CountAhead(log, lo, t)') /\ (Counted(lo, t) => Counted(lo, t)')
    PROVE  OpenedBack(lo)'
<1>1. lo \in Nat /\ lo \in 0 .. lo
      BY DEF TypeOK
<1>2. ASSUME NEW t \in Tables, opened'[t] # None, holes'[t] = {}
      PROVE  Back(log', lo, Len(log'), file'[t], opened'[t]) /\ CountAhead(log, lo, t)' /\ Counted(lo, t)'
  <2>1. holes[t] = {} /\ opened[t] # None
        BY <1>2
  <2>2. Back(log, lo, Len(log), file[t], opened[t]) /\ CountAhead(log, lo, t) /\ Counted(lo, t)
        BY <2>1 DEF OpenedBack
  <2>3. Back(log', lo, Len(log'), file'[t], opened[t])
        BY <1>1, <1>2, <2>2 DEF StepBack
  <2>4. QED
        BY <2>1, <2>2, <2>3
<1>3. QED
      BY <1>2 DEF OpenedBack

\* A step of insert() that works in the frame in front.
LEMMA TopGoesOn ==
    ASSUME TablesIInv, CountsOK, FreshOK', op.frames # <<>>, NEW lo \in DOMAIN log, OpenedAt(lo),
           opened' = opened, phase' = phase, holes' = holes,
           NEW frame \in Frames, frame.table = Top.table, frame.step # "open", SetTop(frame),
           \A t \in Tables : t # Top.table => file'[t] = file[t] /\ count'[t] = count[t],
           \A j \in DOMAIN log : j \in DOMAIN log' /\ log'[j] = log[j],
           LinesAbove(lo)', StepBack(lo), CountOK(frame)', FrameAbove(lo, frame)',
           ~Nests(op.table) => Stretch(log', lo, op.table, op.kind),
           NEW u, u = Top.table,
           CountAhead(log, lo, u) => CountAhead(log, lo, u)',
           IF Top.step = "open" THEN count[u] < Len(file[u]) => Uncounted(frame, file'[u])
           ELSE Uncounted(Top, file[u]) => Uncounted(frame, file'[u]),
           \A i \in DOMAIN file'[u] :
              IF i \in DOMAIN file[u]
              THEN /\ file'[u][i] = file[u][i]
                   /\ i <= count[u] \/ (Top.step # "open" /\ i <= Top.entries) => i <= frame.entries
              ELSE InsertedAbove(log', lo, file'[u][i].rid)
    PROVE  QueryGoesOn(lo)
<1>1. /\ op.frames \in Seq(Frames) /\ (Len(op.frames) = 1 \/ Len(op.frames) = 2)
      /\ DOMAIN op.frames = 1 .. Len(op.frames)
      /\ Top = op.frames[1] /\ Top.table \in Tables
      /\ phase = "query" /\ op.kind = "Insert" /\ op.step = "next"
      /\ \A k \in DOMAIN op.frames : k # 1 =>
            /\ k = 2 /\ Len(op.frames) = 2
            /\ op.frames[2] \in Frames /\ op.frames[2].table # Top.table
      BY TheFrames
<1>2. TypeOK /\ OpOK
      BY DEF TablesIInv
<1> DEFINE fs == <<frame>> \o Tail(op.frames)
<1>3. /\ fs \in Seq(Frames) /\ Len(fs) = Len(op.frames) /\ fs[1] = frame
      /\ Len(fs) = 2 => fs[2] = op.frames[2]
      /\ DOMAIN fs = 1 .. Len(op.frames)
      BY <1>1
<1>4. op' = [op EXCEPT !.frames = fs]
      BY DEF SetTop
<1> HIDE DEF fs
<1>5. /\ op'.frames = fs /\ op'.kind = op.kind /\ op'.table = op.table /\ op'.step = "next"
      BY <1>1, <1>2, <1>3, <1>4 DEF TypeOK, Queries
<1>6. /\ DOMAIN op'.frames = DOMAIN op.frames /\ op'.frames[1] = frame /\ 1 \in DOMAIN op.frames
      /\ \A k \in DOMAIN op.frames : k # 1 => op'.frames[k] = op.frames[k]
      BY <1>1, <1>3, <1>5
<1>7. \A k \in DOMAIN op.frames : k # 1 => op.frames[k].table # u /\ op.frames[k].table \in Tables
  <2>1. \A f \in Frames : f.table \in Tables
        BY DEF Frames
  <2>2. QED
        BY <1>1, <2>1
<1>8. CountsOK'
  <2>1. ASSUME NEW k \in DOMAIN op'.frames
        PROVE  CountOK(op.frames[k])'
    <3>1. CASE k = 1
          BY <1>6, <3>1
    <3>2. CASE k # 1
      <4>1. PICK f : f = op.frames[k]
            OBVIOUS
      <4>2. CountOK(f) /\ f.table \in Tables /\ f.table # Top.table
            BY <1>6, <1>7, <2>1, <3>2, <4>1 DEF CountsOK
      <4>3. CountOK(f)'
            BY <4>2 DEF CountOK
      <4>4. QED
            BY <1>6, <2>1, <3>2, <4>1, <4>3
    <3>3. QED
          BY <3>1, <3>2
  <2>2. Len(op'.frames) = 2 => op'.frames[2].step = "object"
        BY <1>1, <1>3, <1>5 DEF CountsOK
  <2>3. QED
        BY <2>1, <2>2 DEF CountsOK
<1>9. \A t \in Tables, k \in DOMAIN op.frames : k # 1 => (FrameOf(k, t)' <=> FrameOf(k, t))
      BY <1>6 DEF FrameOf
<1>10. \A k : FrameOf(k, u)' <=> k = 1
      BY <1>6, <1>7 DEF FrameOf
<1>11. \A k : FrameOf(k, u) <=> k = 1 /\ Top.step # "open"
      BY <1>1, <1>6, <1>7 DEF FrameOf
<1>12. \A t \in Tables : t # u => \A k : (FrameOf(k, t)' <=> FrameOf(k, t)) /\ (FrameOf(k, t) => k # 1)
      BY <1>1, <1>6, <1>9 DEF FrameOf
<1>13. ASSUME NEW t \in Tables, Missing(t)
       PROVE  Missing(t)'
  <2>1. CASE t = u
    <3>1. Uncounted(frame, file'[u])
      <4>1. CASE Top.step = "open"
        <5>1. count[u] < Len(file[u])
              BY <1>11, <1>13, <2>1, <4>1 DEF Missing
        <5>2. QED
              BY <4>1, <5>1
      <4>2. CASE Top.step # "open"
        <5>1. FrameOf(1, u) /\ 1 \in DOMAIN op.frames
              BY <1>6, <1>11, <4>2
        <5>2. PICK k \in DOMAIN op.frames : FrameOf(k, u) /\ Uncounted(op.frames[k], file[u])
              BY <1>13, <2>1, <5>1 DEF Missing
        <5>3. k = 1
              BY <1>11, <5>2
        <5>4. Uncounted(op.frames[1], file[u])
              BY <5>2, <5>3
        <5>5. Uncounted(Top, file[u])
              BY <1>1, <5>4 DEF Uncounted
        <5>6. QED
              BY <4>2, <5>5
      <4>3. QED
            BY <4>1, <4>2
    <3>2. FrameOf(1, u)' /\ op'.frames[1] = frame /\ 1 \in DOMAIN op'.frames
          BY <1>6, <1>10
    <3>3. QED
          BY <2>1, <3>1, <3>2 DEF Missing, Uncounted
  <2>2. CASE t # u
    <3>1. file'[t] = file[t] /\ count'[t] = count[t]
          BY <2>2
    <3>2. \A k \in DOMAIN op.frames : FrameOf(k, t) => op'.frames[k] = op.frames[k]
          BY <1>6, <1>12, <2>2
    <3>3. QED
          BY <1>6, <1>12, <1>13, <2>2, <3>1, <3>2 DEF Missing, Uncounted
  <2>3. QED
        BY <2>1, <2>2
<1>14. ScanAbove(lo)'
      BY <1>5 DEF ScanAbove
<1>15. FramesAbove(lo)'
  <2>1. ASSUME NEW k \in DOMAIN op.frames, k # 1
        PROVE  FrameAbove(lo, op.frames[k])'
    <3>1. PICK f : f = op.frames[k]
          OBVIOUS
    <3>2. FrameAbove(lo, f)
          BY <2>1, <3>1 DEF OpenedAt, FramesAbove
    <3>3. FrameAbove(lo, f)'
          BY <3>2, AboveStays DEF FrameAbove
    <3>4. QED
          BY <1>6, <2>1, <3>1, <3>3
  <2>2. QED
        BY <1>6, <2>1 DEF FramesAbove
<1>16. ~Nests(op.table)' => OneTable(lo)'
  <2>1. Nests(op.table)' <=> Nests(op.table)
        BY <1>5 DEF Nests
  <2>2. ASSUME OneTable(lo)
        PROVE  \A k \in DOMAIN op'.frames : op'.frames[k].table = op'.table
        BY <1>1, <1>5, <1>6, <2>2 DEF OneTable
  <2>3. QED
        BY <1>1, <1>5, <2>1, <2>2 DEF OneTable, OpenedAt
<1>17. ASSUME NEW t \in Tables, CountAhead(log, lo, t)
       PROVE  CountAhead(log, lo, t)'
  <2>1. CASE t # u
        BY <1>17, <2>1 DEF CountAhead
  <2>2. QED
        BY <1>17, <2>1
<1>18. ASSUME NEW t \in Tables, Counted(lo, t)
       PROVE  Counted(lo, t)'
  <2>1. CASE t = u
    <3>1. ASSUME NEW i \in DOMAIN file'[u]
          PROVE  FrameOf(1, u)' /\ (i <= op'.frames[1].entries \/ InsertedAbove(log', lo, file'[u][i].rid))
      <4>1. CASE i \in DOMAIN file[u]
        <5>1. file'[u][i] = file[u][i]
              BY <3>1, <4>1
        <5>2. i <= count[u] \/ (Top.step # "open" /\ i <= Top.entries) \/ InsertedAbove(log, lo, file[u][i].rid)
              BY <1>1, <1>11, <1>18, <2>1, <4>1 DEF Counted
        <5>3. i <= frame.entries \/ InsertedAbove(log', lo, file'[u][i].rid)
              BY <3>1, <4>1, <5>1, <5>2, AboveStays
        <5>4. QED
              BY <1>6, <1>10, <5>3
      <4>2. CASE i \notin DOMAIN file[u]
            BY <1>10, <3>1, <4>2
      <4>3. QED
            BY <4>1, <4>2
    <3>2. 1 \in DOMAIN op'.frames
          BY <1>6
    <3>3. QED
          BY <2>1, <3>1, <3>2 DEF Counted
  <2>2. CASE t # u
    <3>1. file'[t] = file[t] /\ count'[t] = count[t]
          BY <2>2
    <3>2. \A k \in DOMAIN op.frames : FrameOf(k, t) => FrameOf(k, t)' /\ op'.frames[k] = op.frames[k]
          BY <1>6, <1>12, <2>2
    <3>3. ASSUME NEW i \in DOMAIN file[t]
          PROVE  \/ i <= count[t]
                 \/ \E k \in DOMAIN op'.frames : FrameOf(k, t)' /\ i <= op'.frames[k].entries
                 \/ InsertedAbove(log', lo, file[t][i].rid)
      <4>1. \/ i <= count[t]
            \/ \E k \in DOMAIN op.frames : FrameOf(k, t) /\ i <= op.frames[k].entries
            \/ InsertedAbove(log, lo, file[t][i].rid)
            BY <1>18, <3>3 DEF Counted
      <4>2. QED
            BY <1>6, <3>2, <4>1, AboveStays
    <3>4. QED
          BY <3>1, <3>3 DEF Counted
  <2>3. QED
        BY <2>1, <2>2
<1>19. OpenedBack(lo)'
      BY <1>2, <1>17, <1>18, OpenedStays DEF OpenedAt
<1>20. OpenedAt(lo)'
      BY <1>14, <1>15, <1>16, <1>19 DEF OpenedAt
<1>21. QED
      BY <1>8, <1>13, <1>20 DEF QueryGoesOn

LEMMA LinesStay ==
    ASSUME NEW lo \in DOMAIN log, LinesAbove(lo), log' = log, op'.kind = op.kind
    PROVE  LinesAbove(lo)'
BY DEF LinesAbove

LEMMA LinesGrow ==
    ASSUME TypeOK, NEW lo \in DOMAIN log, LinesAbove(lo), NEW line \in Lines, Log(line),
           IsChange(line), line.kind = op.kind, op'.kind = op.kind
    PROVE  LinesAbove(lo)' /\ \A j \in DOMAIN log : j \in DOMAIN log' /\ log'[j] = log[j]
<1>1. /\ log'[Len(log')] = line
      /\ \A j \in DOMAIN log : j \in DOMAIN log' /\ log'[j] = log[j]
      /\ \A j \in DOMAIN log' : j \in DOMAIN log \/ j = Len(log')
      BY Logged DEF TypeOK
<1>2. QED
      BY <1>1 DEF LinesAbove

LEMMA TopKind ==
    ASSUME TypeOK, NEW frame, SetTop(frame)
    PROVE  op'.kind = op.kind
BY DEF TypeOK, SetTop, Queries

LEMMA InsertOpensGoesOn ==
    ASSUME TablesIInv, CountsOK, FreshOK, NEW lo \in DOMAIN log, OpenedAt(lo), opened' = opened,
           InsertOpens
    PROVE  QueryGoesOn(lo)
<1> DEFINE frame == [Top EXCEPT !.entries = count[Top.table], !.step = "object"]
<1>1. /\ op.frames # <<>> /\ SetTop(frame) /\ count' = [count EXCEPT ![Top.table] = 0] /\ Top.step = "open"
      /\ UNCHANGED <<file, holes, log, phase, used>> /\ UnchangedByQueries
      BY DEF InsertOpens, InFrame
<1>2. /\ Top \in Frames /\ Top.table \in Tables /\ Top = op.frames[1] /\ 1 \in DOMAIN op.frames
      BY <1>1, TheFrames
<1>3. TypeOK
      BY DEF TablesIInv
<1>4. count[Top.table] \in Nat /\ count \in [Tables -> Nat]
      BY <1>1, <1>2, <1>3 DEF TypeOK
<1>5. /\ frame \in Frames /\ frame.table = Top.table /\ frame.buffer = Top.buffer
      /\ frame.step = "object" /\ frame.entries = count[Top.table] /\ frame.row = Top.row
      BY <1>2, <1>4 DEF Frames
<1> HIDE DEF frame
<1>6. PICK f, u, n : f = frame /\ u = Top.table /\ n = count[Top.table]
      OBVIOUS
<1>7. /\ f \in Frames /\ f.table = Top.table /\ f.buffer = Top.buffer
      /\ f.step = "object" /\ f.entries = n /\ f.row = Top.row /\ SetTop(f) /\ u \in Tables /\ n \in Nat
      BY <1>1, <1>2, <1>4, <1>5, <1>6
<1>8. count'[u] = 0 /\ \A t \in Tables : t # Top.table => file'[t] = file[t] /\ count'[t] = count[t]
      BY <1>1, <1>2, <1>4, <1>6
<1>9. FreshOK' /\ StepBack(lo) /\ LinesAbove(lo)'
  <2>1. lo \in Nat
        BY <1>3 DEF TypeOK
  <2>2. LinesAbove(lo)'
        BY <1>1, <1>3, <1>7, TopKind, LinesStay DEF OpenedAt
  <2>3. QED
        BY <1>1, <2>1, <2>2, SameBack DEF FreshOK
<1>10. CountOK(Top) /\ FrameAbove(lo, Top)
      BY <1>1, <1>2 DEF CountsOK, OpenedAt, FramesAbove
<1>11. Top.buffer = <<>> /\ Top.row = None
      BY <1>1, <1>10 DEF CountOK
<1>12. CountOK(f)'
      BY <1>6, <1>7, <1>8, <1>11 DEF CountOK
<1>13. FrameAbove(lo, f)'
      BY <1>7, <1>11 DEF FrameAbove
<1>14. ~Nests(op.table) => Stretch(log', lo, op.table, op.kind)
      BY <1>1 DEF OpenedAt, OneTable
<1>15. file[u] \in Seq(Slots) /\ Len(file[u]) \in Nat /\ DOMAIN file[u] = 1 .. Len(file[u]) /\ file'[u] = file[u]
      BY <1>1, <1>3, <1>7 DEF TypeOK
<1>16. CountAhead(log, lo, u) => CountAhead(log, lo, u)'
      BY <1>8, <1>15 DEF CountAhead
<1>17. count[u] < Len(file[u]) => Uncounted(f, file'[u])
      BY <1>6, <1>7, <1>11, <1>15 DEF Uncounted
<1>18. f.step # "open" /\ \A j \in DOMAIN log : j \in DOMAIN log' /\ log'[j] = log[j]
      BY <1>1, <1>7
<1>19. IF Top.step = "open" THEN count[u] < Len(file[u]) => Uncounted(f, file'[u])
       ELSE Uncounted(Top, file[u]) => Uncounted(f, file'[u])
      BY <1>1, <1>17
<1>20. \A i \in DOMAIN file'[u] :
              IF i \in DOMAIN file[u]
              THEN /\ file'[u][i] = file[u][i]
                   /\ i <= count[u] \/ (Top.step # "open" /\ i <= Top.entries) => i <= f.entries
              ELSE InsertedAbove(log', lo, file'[u][i].rid)
      BY <1>1, <1>6, <1>7, <1>15
<1>21. QED
      BY <1>1, <1>6, <1>7, <1>8, <1>9, <1>12, <1>13, <1>14, <1>16, <1>18, <1>19, <1>20, TopGoesOn

LEMMA InsertCountsGoesOn ==
    ASSUME TablesIInv, CountsOK, FreshOK, NEW lo \in DOMAIN log, OpenedAt(lo), opened' = opened,
           InsertCounts
    PROVE  QueryGoesOn(lo)
<1> PICK step \in {"object", "close"} : step = IF Innermost THEN "object" ELSE "close"
    OBVIOUS
<1> DEFINE frame == [Top EXCEPT !.entries = @ + 1, !.ref = None, !.step = step]
<1>1. /\ op.frames # <<>> /\ Top.step = "buffered"
      /\ SetTop(frame) /\ count' = [count EXCEPT ![Top.table] = Top.entries + 1]
      /\ UNCHANGED <<file, holes, log, phase, used>> /\ UnchangedByQueries
      BY DEF InsertCounts, InFrame
<1>2. /\ Top \in Frames /\ Top.table \in Tables /\ Top = op.frames[1] /\ 1 \in DOMAIN op.frames
      BY <1>1, TheFrames
<1>3. TypeOK
      BY DEF TablesIInv
<1>4. Top.entries \in Nat /\ count \in [Tables -> Nat]
      BY <1>1, <1>2, <1>3 DEF TypeOK, Frames
<1>5. /\ frame \in Frames /\ frame.table = Top.table /\ frame.buffer = Top.buffer
      /\ frame.row = Top.row /\ frame.step \in {"object", "close"} /\ frame.entries = Top.entries + 1
  <2>1. PICK n \in Nat : n = Top.entries + 1
        BY <1>4
  <2>2. frame = [Top EXCEPT !.entries = n, !.ref = None, !.step = step]
        BY <2>1
  <2>3. step = "object" \/ step = "close"
        OBVIOUS
  <2>4. QED
        BY <1>2, <2>1, <2>2, <2>3 DEF Frames
<1> HIDE DEF frame
<1>6. PICK f, u, n : f = frame /\ u = Top.table /\ n = Top.entries
      OBVIOUS
<1>7. /\ f \in Frames /\ f.table = Top.table /\ f.buffer = Top.buffer
      /\ f.step \in {"object", "close"} /\ f.entries = n + 1 /\ f.row = Top.row /\ SetTop(f)
      /\ u \in Tables /\ n \in Nat /\ f.table = u
      BY <1>1, <1>2, <1>4, <1>5, <1>6
<1>8. count'[u] = n + 1 /\ \A t \in Tables : t # Top.table => file'[t] = file[t] /\ count'[t] = count[t]
      BY <1>1, <1>2, <1>4, <1>6
<1>9. FreshOK' /\ StepBack(lo) /\ LinesAbove(lo)'
  <2>1. lo \in Nat
        BY <1>3 DEF TypeOK
  <2>2. LinesAbove(lo)'
        BY <1>1, <1>3, <1>7, TopKind, LinesStay DEF OpenedAt
  <2>3. QED
        BY <1>1, <2>1, <2>2, SameBack DEF FreshOK
<1>10. CountOK(Top) /\ FrameAbove(lo, Top)
      BY <1>1, <1>2 DEF CountsOK, OpenedAt, FramesAbove
<1>11. CountOK(f)'
      BY <1>6, <1>7, <1>8 DEF CountOK
<1>12. FrameAbove(lo, f)'
  <2>1. \A i \in DOMAIN f.buffer : InsertedAbove(log, lo, f.buffer[i].rid)
        BY <1>7, <1>10 DEF FrameAbove
  <2>2. QED
        BY <1>1, <1>7, <2>1 DEF FrameAbove
<1>13. ~Nests(op.table) => Stretch(log', lo, op.table, op.kind)
      BY <1>1 DEF OpenedAt, OneTable
<1>14. file[u] \in Seq(Slots) /\ Len(file[u]) \in Nat /\ DOMAIN file[u] = 1 .. Len(file[u]) /\ file'[u] = file[u]
      BY <1>1, <1>3, <1>7 DEF TypeOK
<1>15. CountAhead(log, lo, u)'
  <2>1. InsertedAbove(log, lo, Top.row.rid) /\ TableOf[Top.row.rid] = u
        BY <1>1, <1>6, <1>10 DEF FrameAbove
  <2>2. PICK j \in DOMAIN log : lo < j /\ log[j] = InsertLine(Top.row.rid)
        BY <2>1 DEF InsertedAbove
  <2>3. log[j].kind = "Insert" /\ TableOf[log[j].rid] = u
        BY <2>1, <2>2, LineKinds
  <2>4. QED
        BY <1>1, <2>2, <2>3 DEF CountAhead
<1>16. Len(Top.buffer) \in Nat
      BY <1>2 DEF Frames
<1>17. Uncounted(Top, file[u]) => Uncounted(f, file'[u])
  <2>1. PICK m, k : m = Len(Top.buffer) /\ k = Len(file[u])
        OBVIOUS
  <2>2. m \in Nat /\ k \in Nat /\ Len(f.buffer) = m /\ Len(file'[u]) = k
        BY <1>7, <1>14, <1>16, <2>1
  <2>3. Uncounted(Top, file[u]) => n + 1 < k + m
        BY <1>1, <1>6, <2>1 DEF Uncounted
  <2>4. f.step # "buffered"
        BY <1>7
  <2>5. n + 1 < k + m => Uncounted(f, file'[u])
        BY <1>7, <2>2, <2>4 DEF Uncounted
  <2>6. QED
        BY <2>3, <2>5
<1>18. f.step # "open" /\ \A j \in DOMAIN log : j \in DOMAIN log' /\ log'[j] = log[j]
      BY <1>1, <1>7
<1>19. IF Top.step = "open" THEN count[u] < Len(file[u]) => Uncounted(f, file'[u])
       ELSE Uncounted(Top, file[u]) => Uncounted(f, file'[u])
      BY <1>1, <1>17
<1>20. \A i \in DOMAIN file'[u] :
              IF i \in DOMAIN file[u]
              THEN /\ file'[u][i] = file[u][i]
                   /\ i <= count[u] \/ (Top.step # "open" /\ i <= Top.entries) => i <= f.entries
              ELSE InsertedAbove(log', lo, file'[u][i].rid)
  <2>1. count[u] <= n
        BY <1>1, <1>6, <1>10 DEF CountOK
  <2>2. count[u] \in Nat
        BY <1>4, <1>7
  <2>3. QED
        BY <1>6, <1>7, <1>14, <2>1, <2>2
<1>21. QED
      BY <1>1, <1>6, <1>7, <1>8, <1>9, <1>11, <1>12, <1>13, <1>15, <1>18, <1>19, <1>20, TopGoesOn

LEMMA InsertLogsGoesOn ==
    ASSUME TablesIInv, CountsOK, FreshOK, NEW lo \in DOMAIN log, OpenedAt(lo), opened' = opened,
           NEW r \in Rids, NEW v \in Inserted[r], InsertLogs(r, v)
    PROVE  QueryGoesOn(lo)
<1> DEFINE slot == Slot(r, v, "0")
           frame == [Top EXCEPT !.row = slot, !.step = "logged"]
<1>1. /\ op.frames # <<>> /\ Top.step \in {"nested", "object"}
      /\ r \notin used /\ TableOf[r] = Top.table
      /\ Log(InsertLine(r)) /\ used' = used \cup {r} /\ SetTop(frame)
      /\ UNCHANGED <<file, holes, count, phase>> /\ UnchangedByQueries
      BY DEF InsertLogs, InFrame, store
<1>2. /\ Top \in Frames /\ Top.table \in Tables /\ Top = op.frames[1] /\ 1 \in DOMAIN op.frames
      /\ op.kind = "Insert"
      BY <1>1, TheFrames
<1>3. TypeOK /\ FilesOK /\ LogsOK
      BY DEF TablesIInv
<1>4. slot \in Slots /\ slot.rid = r
      BY SlotParts, TableWalAssumption
<1> HIDE DEF slot
<1>5. /\ frame \in Frames /\ frame.table = Top.table /\ frame.buffer = Top.buffer
      /\ frame.row = slot /\ frame.step = "logged" /\ frame.entries = Top.entries
      BY <1>2, <1>4 DEF Frames
<1> HIDE DEF frame
<1>6. PICK f, u : f = frame /\ u = Top.table
      OBVIOUS
<1>7. /\ f \in Frames /\ f.table = Top.table /\ f.buffer = Top.buffer /\ f.table = u
      /\ f.step = "logged" /\ f.entries = Top.entries /\ f.row.rid = r /\ SetTop(f)
      /\ u \in Tables
      BY <1>1, <1>2, <1>4, <1>5, <1>6
<1>8. count' = count /\ file' = file
      BY <1>1
<1>9. InsertLine(r) \in Lines /\ IsChange(InsertLine(r)) /\ InsertLine(r).kind = "Insert" /\ InsertLine(r).rid = r
      BY MadeLines, LineKinds
<1>10. PICK line : line = InsertLine(r)
      OBVIOUS
<1>11. line \in Lines /\ IsChange(line) /\ line.kind = "Insert" /\ line.rid = r /\ Log(line)
      BY <1>1, <1>9, <1>10
<1>12. LinesAbove(lo)' /\ \A j \in DOMAIN log : j \in DOMAIN log' /\ log'[j] = log[j]
  <2>1. op'.kind = op.kind /\ LinesAbove(lo)
        BY <1>3, <1>7, TopKind DEF OpenedAt
  <2>2. QED
        BY <1>2, <1>3, <1>11, <2>1, LinesGrow
<1>13. StepBack(lo)
  <2>1. \A t \in Tables : \A i \in DOMAIN file[t] : ~Touches(line, file[t][i].rid)
        BY <1>1, <1>3, <1>11 DEF FilesOK, Touches
  <2>2. QED
        BY <1>3, <1>8, <1>11, <2>1, LogBack
<1>14. FreshOK'
      BY <1>1, <1>3, <1>11, FreshGrows
<1>15. /\ log'[Len(log')] = line /\ Len(log') \in DOMAIN log' /\ Len(log') = Len(log) + 1
       /\ Len(log) \in Nat /\ DOMAIN log = 1 .. Len(log) /\ lo \in DOMAIN log
       /\ \A j \in DOMAIN log' : j \in DOMAIN log \/ j = Len(log')
      BY <1>3, <1>11, Logged DEF TypeOK
<1>16. CountOK(Top) /\ FrameAbove(lo, Top)
      BY <1>1, <1>2 DEF CountsOK, OpenedAt, FramesAbove
<1>17. CountOK(f)'
      BY <1>1, <1>7, <1>8, <1>16 DEF CountOK
<1>18. FrameAbove(lo, f)'
  <2>1. \A i \in DOMAIN f.buffer : InsertedAbove(log', lo, f.buffer[i].rid)
        BY <1>7, <1>12, <1>16, AboveStays DEF FrameAbove
  <2>2. InsertedAbove(log', lo, r)
        BY <1>10, <1>15 DEF InsertedAbove
  <2>3. TableOf[r] = u
        BY <1>1, <1>6
  <2>4. QED
        BY <1>7, <2>1, <2>2, <2>3 DEF FrameAbove
<1>19. ~Nests(op.table) => Stretch(log', lo, op.table, op.kind)
  <2> HAVE ~Nests(op.table)
  <2>1. Stretch(log, lo, op.table, op.kind) /\ u = op.table
        BY <1>2, <1>6 DEF OpenedAt, OneTable
  <2>2. \A j \in DOMAIN log : IsChange(log[j]) => log[j].rid # r
        BY <1>1, <1>3 DEF LogsOK
  <2>3. TableOf[r] = op.table
        BY <1>1, <1>6, <2>1
  <2>4. ASSUME NEW j \in DOMAIN log', lo < j
        PROVE  /\ IsChange(log'[j]) /\ log'[j].kind = op.kind /\ TableOf[log'[j].rid] = op.table
               /\ \A k \in DOMAIN log' : lo < k /\ log'[k].rid = log'[j].rid => k = j
    <3>1. CASE j \in DOMAIN log
          BY <1>11, <1>12, <1>15, <2>1, <2>2, <2>4, <3>1 DEF Stretch
    <3>2. CASE j = Len(log')
      <4>1. log'[j] = line
            BY <1>15, <3>2
      <4>2. \A k \in DOMAIN log : lo < k => log[k].rid # r
            BY <2>1, <2>2 DEF Stretch
      <4>3. QED
            BY <1>2, <1>11, <1>12, <1>15, <2>3, <3>2, <4>1, <4>2
    <3>3. QED
          BY <1>15, <3>1, <3>2
  <2>5. QED
        BY <2>4 DEF Stretch
<1>20. CountAhead(log, lo, u) => CountAhead(log, lo, u)'
      BY <1>8, <1>12 DEF CountAhead
<1>21. IF Top.step = "open" THEN count[u] < Len(file[u]) => Uncounted(f, file'[u])
       ELSE Uncounted(Top, file[u]) => Uncounted(f, file'[u])
      BY <1>1, <1>7, <1>8 DEF Uncounted
<1>22. \A i \in DOMAIN file'[u] :
              IF i \in DOMAIN file[u]
              THEN /\ file'[u][i] = file[u][i]
                   /\ i <= count[u] \/ (Top.step # "open" /\ i <= Top.entries) => i <= f.entries
              ELSE InsertedAbove(log', lo, file'[u][i].rid)
  <2>1. count[u] <= Top.entries
        BY <1>1, <1>6, <1>16 DEF CountOK
  <2>2. count[u] \in Nat /\ Top.entries \in Nat /\ DOMAIN file[u] = 1 .. Len(file[u])
        BY <1>2, <1>3, <1>7 DEF TypeOK, Frames
  <2>3. QED
        BY <1>7, <1>8, <2>1, <2>2
<1>23. /\ f.step # "open"
       /\ \A t \in Tables : t # Top.table => file'[t] = file[t] /\ count'[t] = count[t]
      BY <1>7, <1>8
<1>24. QED
      BY <1>1, <1>6, <1>7, <1>12, <1>13, <1>14, <1>17, <1>18, <1>19, <1>20, <1>21, <1>22, <1>23, TopGoesOn

LEMMA InsertBuffersGoesOn ==
    ASSUME TablesIInv, CountsOK, FreshOK, NEW lo \in DOMAIN log, OpenedAt(lo), opened' = opened,
           InsertBuffers
    PROVE  QueryGoesOn(lo)
<1> PICK none : none = <<>>
    OBVIOUS
<1>0. none = <<>> /\ none \in Seq(Slots) /\ Len(none) = 0 /\ DOMAIN none = {}
      OBVIOUS
<1>1. PICK rows, flushed, buffer :
         /\ rows = Append(Top.buffer, Top.row)
         /\ file' = [file EXCEPT ![Top.table] = @ \o flushed]
         /\ SetTop([Top EXCEPT !.buffer = buffer, !.step = "buffered"])
         /\ \/ flushed = <<>> /\ buffer = rows
            \/ flushed = Top.buffer /\ buffer = <<Top.row>>
            \/ flushed = rows /\ buffer = <<>>
      BY Zenon DEF InsertBuffers, Flushes
<1>2. /\ op.frames # <<>> /\ Top.step = "logged"
      /\ UNCHANGED <<holes, count, log, phase, used>> /\ UnchangedByQueries
      BY DEF InsertBuffers, InFrame
<1>3. PICK u, b, slot, s, n : u = Top.table /\ b = Top.buffer /\ slot = Top.row /\ s = file[u] /\ n = Top.entries
      OBVIOUS
<1>4. /\ Top \in Frames /\ u \in Tables /\ b \in Seq(Slots) /\ s \in Seq(Slots) /\ n \in Nat
      /\ slot \in Slots /\ Top = op.frames[1] /\ 1 \in DOMAIN op.frames
      BY <1>2, <1>3, TheFrames DEF FrameOK, Frames
<1>5. TypeOK
      BY DEF TablesIInv
<1>6. PICK one : one = <<slot>>
      OBVIOUS
<1>7. /\ rows = Append(b, slot) /\ rows \in Seq(Slots) /\ <<>> \in Seq(Slots)
      /\ Len(b) \in Nat /\ Len(s) \in Nat /\ Len(rows) = Len(b) + 1
      /\ \A i \in DOMAIN rows : (i \in DOMAIN b /\ rows[i] = b[i]) \/ rows[i] = slot
      /\ one \in Seq(Slots) /\ Len(one) = 1 /\ \A i \in DOMAIN one : one[i] = slot
  <2>1. rows = Append(b, slot)
        BY <1>1, <1>3
  <2>2. one \in Seq(Slots) /\ Len(one) = 1 /\ \A i \in DOMAIN one : one[i] = slot
        BY <1>4, <1>6
  <2>3. QED
        BY SMTT(30), <1>4, <2>1, <2>2
<1>8. CountOK(Top) /\ FrameAbove(lo, Top)
      BY <1>2, <1>4 DEF CountsOK, OpenedAt, FramesAbove
<1>9. InsertedAbove(log, lo, slot.rid) /\ TableOf[slot.rid] = u
      BY <1>2, <1>3, <1>8 DEF FrameAbove
<1>10. /\ \A i \in DOMAIN b : InsertedAbove(log, lo, b[i].rid)
       /\ \A i \in DOMAIN rows : InsertedAbove(log, lo, rows[i].rid)
       /\ \A i \in DOMAIN one : InsertedAbove(log, lo, one[i].rid)
      BY <1>3, <1>7, <1>8, <1>9 DEF FrameAbove
<1>11. /\ flushed \in Seq(Slots) /\ buffer \in Seq(Slots)
       /\ Len(flushed) + Len(buffer) = Len(b) + 1
       /\ \A i \in DOMAIN flushed : InsertedAbove(log, lo, flushed[i].rid)
       /\ \A i \in DOMAIN buffer : InsertedAbove(log, lo, buffer[i].rid)
  <2>1. CASE flushed = none /\ buffer = rows
        BY <1>0, <1>7, <1>10, <2>1
  <2>2. CASE flushed = b /\ buffer = one
        BY <1>4, <1>7, <1>10, <2>2
  <2>3. CASE flushed = rows /\ buffer = none
        BY <1>0, <1>7, <1>10, <2>3
  <2>4. QED
        BY <1>0, <1>1, <1>3, <1>6, <2>1, <2>2, <2>3
<1>12. file'[u] = s \o flushed
      BY <1>1, <1>3, <1>4, <1>5 DEF TypeOK
<1>13. PICK f : f = [Top EXCEPT !.buffer = buffer, !.step = "buffered"]
      OBVIOUS
<1>14. /\ f \in Frames /\ f.table = u /\ f.buffer = buffer /\ f.step = "buffered" /\ f.row = slot
      /\ f.entries = n
      BY <1>3, <1>4, <1>13, <1>11 DEF Frames
<1>15. SetTop(f)
      BY <1>1, <1>13
<1>16. \A t \in Tables : t # u => file'[t] = file[t]
      BY <1>1, <1>3, <1>5 DEF TypeOK
<1>17. PICK m : m = file'[u]
      OBVIOUS
<1>18. /\ m \in Seq(Slots) /\ Len(m) = Len(s) + Len(flushed) /\ Len(flushed) \in Nat
       /\ DOMAIN m = 1 .. Len(m) /\ DOMAIN s = 1 .. Len(s) /\ Len(buffer) \in Nat
       /\ \A i \in DOMAIN s : i \in DOMAIN m /\ m[i] = s[i]
       /\ \A i \in DOMAIN m : i \in DOMAIN s \/ (i - Len(s) \in DOMAIN flushed /\ m[i] = flushed[i - Len(s)])
      BY <1>4, <1>7, <1>11, <1>17, <1>12, Concatenated
<1>19. FreshOK' /\ StepBack(lo) /\ LinesAbove(lo)'
  <2>1. LinesAbove(lo)'
        BY <1>2, <1>5, <1>15, TopKind, LinesStay DEF OpenedAt
  <2>2. ASSUME NEW t \in Tables
        PROVE  \E c \in Seq(Slots) :
                  file'[t] = file[t] \o c /\ \A i \in DOMAIN c : InsertedAbove(log, lo, c[i].rid)
    <3>1. CASE t = u
          BY <1>3, <1>11, <1>12, <3>1
    <3>2. CASE t # u
      <4>1. file[t] \in Seq(Slots) /\ file'[t] = file[t]
            BY <1>5, <1>16, <3>2 DEF TypeOK
      <4>2. file'[t] = file[t] \o none
            BY <1>0, <4>1
      <4>3. QED
            BY <1>0, <4>2
    <3>3. QED
          BY <3>1, <3>2
  <2>3. StepBack(lo)
        BY <1>2, <1>5, <2>2, RowsBack
  <2>4. QED
        BY <1>2, <2>1, <2>3 DEF FreshOK
<1>20. CountOK(f)'
      BY <1>2, <1>3, <1>14, <1>8 DEF CountOK
<1>21. FrameAbove(lo, f)'
  <2>1. \A i \in DOMAIN f.buffer : InsertedAbove(log, lo, f.buffer[i].rid)
        BY <1>14, <1>11
  <2>2. QED
        BY <1>2, <1>14, <1>9, <2>1 DEF FrameAbove
<1>22. ~Nests(op.table) => Stretch(log', lo, op.table, op.kind)
      BY <1>2 DEF OpenedAt, OneTable
<1>23. CountAhead(log, lo, u) => CountAhead(log, lo, u)'
  <2>1. PICK c : c = count[u]
        OBVIOUS
  <2>2. c \in Nat /\ count'[u] = c
        BY <1>2, <1>4, <1>5, <2>1 DEF TypeOK
  <2>3. c > Len(m) => c > Len(s)
        BY <1>7, <1>18, <2>2
  <2>4. QED
        BY <1>2, <1>3, <1>17, <2>1, <2>2, <2>3 DEF CountAhead
<1>24. Uncounted(Top, file[u]) => Uncounted(f, file'[u])
  <2>1. PICK x, y, z, w : x = Len(b) /\ y = Len(s) /\ z = Len(m) /\ w = Len(buffer)
        OBVIOUS
  <2>2. x \in Nat /\ y \in Nat /\ z \in Nat /\ w \in Nat /\ z + w = y + x + 1
    <3>1. PICK k : k = Len(flushed)
          OBVIOUS
    <3>2. k \in Nat /\ z = y + k /\ k + w = x + 1
          BY <1>11, <1>18, <2>1, <3>1
    <3>3. x \in Nat /\ y \in Nat /\ w \in Nat
          BY <1>7, <1>18, <2>1
    <3>4. QED
          BY <3>2, <3>3
  <2>3. Uncounted(Top, file[u]) => n + 0 < y + x
        BY <1>2, <1>3, <2>1 DEF Uncounted
  <2>4. n < y + x => n + 1 < z + w
        BY <1>4, <2>2
  <2>5. n + 1 < z + w => Uncounted(f, m)
        BY <1>14, <2>1 DEF Uncounted
  <2>6. QED
        BY <1>4, <1>17, <2>3, <2>4, <2>5
<1>25. /\ IF Top.step = "open" THEN count[u] < Len(file[u]) => Uncounted(f, file'[u])
          ELSE Uncounted(Top, file[u]) => Uncounted(f, file'[u])
       /\ f.step # "open" /\ \A j \in DOMAIN log : j \in DOMAIN log' /\ log'[j] = log[j]
      BY <1>2, <1>14, <1>24
<1>26. \A i \in DOMAIN file'[u] :
              IF i \in DOMAIN file[u]
              THEN /\ file'[u][i] = file[u][i]
                   /\ i <= count[u] \/ (Top.step # "open" /\ i <= Top.entries) => i <= f.entries
              ELSE InsertedAbove(log', lo, file'[u][i].rid)
  <2>1. PICK c : c = count[u]
        OBVIOUS
  <2>2. c <= n /\ c \in Nat
        BY <1>2, <1>3, <1>4, <1>5, <1>8, <2>1 DEF CountOK, TypeOK
  <2>3. \A i \in DOMAIN s : m[i] = s[i] /\ (i <= c \/ i <= n => i <= n)
        BY <1>4, <1>18, <2>2
  <2>4. \A i \in DOMAIN m : i \notin DOMAIN s => InsertedAbove(log, lo, m[i].rid)
        BY <1>11, <1>18
  <2>5. QED
        BY <1>2, <1>3, <1>14, <1>17, <2>1, <2>3, <2>4
<1>27. \A t \in Tables : t # Top.table => file'[t] = file[t] /\ count'[t] = count[t]
      BY <1>2, <1>3, <1>16
<1>28. f.table = Top.table /\ phase' = phase /\ holes' = holes
      BY <1>2, <1>3, <1>14
<1>29. QED
      BY <1>2, <1>3, <1>14, <1>15, <1>19, <1>20, <1>21, <1>22, <1>23, <1>25, <1>26, <1>27, <1>28, TopGoesOn

\* A step of insert() that adds or removes a frame.
LEMMA FramesGoOn ==
    ASSUME TablesIInv, FreshOK, op.frames # <<>>, NEW lo \in DOMAIN log, OpenedAt(lo),
           UNCHANGED <<opened, holes, count, log, phase>>,
           NEW fs \in Seq(Frames), op' = [op EXCEPT !.frames = fs],
           CountsOK', StepBack(lo), FramesAbove(lo)',
           ~Nests(op.table) => \A k \in DOMAIN fs : fs[k].table = op.table,
           \A t \in Tables : Missing(t) => Missing(t)',
           \A t \in Tables : CountAhead(log, lo, t) => CountAhead(log, lo, t)',
           \A t \in Tables : Counted(lo, t) => Counted(lo, t)'
    PROVE  QueryGoesOn(lo)
<1>1. phase = "query" /\ op.kind = "Insert" /\ op.step = "next"
      BY TheFrames
<1>2. TypeOK
      BY DEF TablesIInv
<1>3. /\ op'.frames = fs /\ op'.kind = op.kind /\ op'.table = op.table /\ op'.step = "next"
      BY <1>1, <1>2 DEF TypeOK, Queries
<1>4. LinesAbove(lo)' /\ ScanAbove(lo)'
      BY <1>3 DEF OpenedAt, LinesAbove, ScanAbove
<1>5. ~Nests(op.table)' => OneTable(lo)'
      BY <1>1, <1>3 DEF OpenedAt, OneTable, Nests
<1>6. OpenedBack(lo)'
      BY <1>2, OpenedStays DEF OpenedAt
<1>7. QED
      BY <1>4, <1>5, <1>6 DEF QueryGoesOn, OpenedAt, FreshOK

LEMMA InsertNestsGoesOn ==
    ASSUME TablesIInv, CountsOK, FreshOK, NEW lo \in DOMAIN log, OpenedAt(lo), opened' = opened,
           InsertNests
    PROVE  QueryGoesOn(lo)
<1>1. /\ op.frames # <<>> /\ Nests(Top.table) /\ Top.step = "object"
      /\ op' = [op EXCEPT !.frames = <<Frame(ChildOf[Top.table])>> \o @]
      /\ UNCHANGED <<file, holes, count, log, phase>>
      BY DEF InsertNests, InFrame, store
<1>2. PICK old, top, c, new : old = op.frames /\ top = Top /\ c = ChildOf[Top.table] /\ new = Frame(c)
      OBVIOUS
<1>3. /\ old \in Seq(Frames) /\ (Len(old) = 1 \/ Len(old) = 2)
      /\ top = old[1] /\ top \in Frames /\ top.table \in Tables
      /\ Len(old) = 2 => old[2] \in Frames /\ ChildOf[old[2].table] = top.table
  <2>1. Len(old) = 2 => 2 \in DOMAIN old
        BY <1>1, <1>2, TheFrames
  <2>2. QED
        BY <1>1, <1>2, <2>1, TheFrames
<1>4. c # None /\ c \in Tables /\ c = ChildOf[top.table]
      BY <1>1, <1>2, <1>3, TableWalAssumption DEF Nests
<1>5. Len(old) = 1 /\ DOMAIN old = {1}
  <2>1. Len(old) = 2 => old[2].table \in Tables
        BY <1>3 DEF Frames
  <2>2. QED
        BY <1>3, <1>4, <2>1, TableWalAssumption
<1>6. /\ new \in Frames /\ new.step = "open" /\ new.buffer = <<>> /\ new.row = None /\ new.table = c
      BY <1>2, <1>4 DEF Frame, Frames
<1>7. PICK fs : fs = <<new>> \o old
      OBVIOUS
<1>8. /\ fs \in Seq(Frames) /\ Len(fs) = 2 /\ fs[1] = new /\ fs[2] = top /\ DOMAIN fs = {1, 2}
  <2>1. /\ fs \in Seq(Frames) /\ Len(fs) = 2 /\ fs[1] = new /\ fs[2] = old[1]
        BY <1>3, <1>5, <1>6, <1>7, OneBefore
  <2>2. QED
        BY <1>3, <2>1
<1>9. op' = [op EXCEPT !.frames = fs]
      BY <1>1, <1>2, <1>7
<1>10. op'.frames = fs /\ TypeOK
      BY <1>9 DEF TablesIInv, TypeOK, Queries
<1>11. CountOK(top) /\ FrameAbove(lo, top) /\ top.step = "object"
      BY <1>1, <1>2, <1>3, <1>5 DEF CountsOK, OpenedAt, FramesAbove
<1>12. CountsOK'
  <2>1. CountOK(new)'
        BY <1>6 DEF CountOK
  <2>2. CountOK(top)'
        BY <1>1, <1>11 DEF CountOK
  <2>3. QED
        BY <1>8, <1>10, <1>11, <2>1, <2>2 DEF CountsOK
<1>13. FramesAbove(lo)'
  <2>1. FrameAbove(lo, new)'
        BY <1>6 DEF FrameAbove
  <2>2. FrameAbove(lo, top)'
        BY <1>1, <1>11 DEF FrameAbove
  <2>3. QED
        BY <1>8, <1>10, <2>1, <2>2 DEF FramesAbove
<1>14. \A t, k : FrameOf(k, t)' <=> k = 2 /\ top.table = t
      BY <1>6, <1>8, <1>10, <1>11 DEF FrameOf
<1>15. \A t, k : FrameOf(k, t) <=> k = 1 /\ top.table = t
      BY <1>2, <1>3, <1>5, <1>11 DEF FrameOf
<1>16. op.frames[1] = top /\ op'.frames[2] = top /\ 1 \in DOMAIN op.frames /\ 2 \in DOMAIN op'.frames
      BY <1>2, <1>3, <1>5, <1>8, <1>10
<1>17. ASSUME NEW t \in Tables, Missing(t)
       PROVE  Missing(t)'
  <2>1. CASE t = top.table
    <3>1. PICK k : FrameOf(k, t) /\ Uncounted(op.frames[k], file[t])
          BY <1>15, <1>16, <1>17, <2>1 DEF Missing
    <3>2. Uncounted(top, file[t])
          BY <1>15, <1>16, <3>1
    <3>3. Uncounted(op'.frames[2], file'[t]) /\ FrameOf(2, t)'
          BY <1>1, <1>14, <1>16, <2>1, <3>2
    <3>4. QED
          BY <1>16, <3>3 DEF Missing, Uncounted
  <2>2. CASE t # top.table
        BY <1>1, <1>14, <1>15, <1>17, <2>2 DEF Missing
  <2>3. QED
        BY <2>1, <2>2
<1>18. ASSUME NEW t \in Tables, Counted(lo, t)
       PROVE  Counted(lo, t)'
      BY <1>1, <1>14, <1>15, <1>16, <1>18 DEF Counted
<1>19. ~Nests(op.table) => \A k \in DOMAIN fs : fs[k].table = op.table
      BY <1>1, <1>2, <1>16 DEF OpenedAt, OneTable
<1>20. StepBack(lo)
  <2>1. lo \in Nat
        BY <1>10 DEF TypeOK
  <2>2. QED
        BY <1>1, <2>1, SameBack
<1>21. \A t \in Tables : CountAhead(log, lo, t) => CountAhead(log, lo, t)'
      BY <1>1 DEF CountAhead
<1>22. QED
      BY <1>1, <1>8, <1>9, <1>12, <1>13, <1>17, <1>18, <1>19, <1>20, <1>21, FramesGoOn

\* The rows of the frame in front are flushed.
LEMMA FlushBack ==
    ASSUME TypeOK, FreshOK, NEW lo \in DOMAIN log, log' = log, NEW u \in Tables, NEW b \in Seq(Slots),
           file' = [file EXCEPT ![u] = @ \o b], \A i \in DOMAIN b : InsertedAbove(log, lo, b[i].rid)
    PROVE  /\ StepBack(lo)
           /\ file'[u] = file[u] \o b /\ \A t \in Tables : t # u => file'[t] = file[t]
<1> PICK none : none = <<>>
    OBVIOUS
<1>1. none = <<>> /\ none \in Seq(Slots) /\ DOMAIN none = {}
      OBVIOUS
<1>2. file'[u] = file[u] \o b /\ \A t \in Tables : t # u => file'[t] = file[t]
      BY DEF TypeOK
<1>3. ASSUME NEW t \in Tables
      PROVE  \E c \in Seq(Slots) :
                file'[t] = file[t] \o c /\ \A i \in DOMAIN c : InsertedAbove(log, lo, c[i].rid)
  <2>1. CASE t = u
        BY <1>2, <2>1
  <2>2. CASE t # u
    <3>1. file[t] \in Seq(Slots) /\ file'[t] = file[t]
          BY <1>2, <2>2 DEF TypeOK
    <3>2. file'[t] = file[t] \o none
          BY <1>1, <3>1
    <3>3. QED
          BY <1>1, <3>2
  <2>3. QED
        BY <2>1, <2>2
<1>4. StepBack(lo)
      BY <1>3, RowsBack
<1>5. QED
      BY <1>2, <1>4

LEMMA InsertFlushesGoesOn ==
    ASSUME TablesIInv, CountsOK, FreshOK, NEW lo \in DOMAIN log, OpenedAt(lo), opened' = opened,
           InsertFlushes
    PROVE  QueryGoesOn(lo)
<1>1. PICK u, b, top, n : u = Top.table /\ b = Top.buffer /\ top = Top /\ n = Top.entries
      OBVIOUS
<1>2. /\ op.frames # <<>>
      /\ top.step = "close" \/ (top.step = "object" /\ top.row # None)
      /\ ~Innermost => top.step = "close"
      /\ file' = [file EXCEPT ![u] = @ \o b]
      /\ op' = [op EXCEPT !.frames =
             IF Innermost THEN <<>>
             ELSE <<[op.frames[2] EXCEPT !.ref = top.row.rid, !.step = "nested"]>>]
      /\ UNCHANGED <<holes, count, log, phase>>
      BY <1>1 DEF InsertFlushes, InFrame
<1>3. /\ top \in Frames /\ u \in Tables /\ b \in Seq(Slots) /\ n \in Nat /\ u = top.table
      /\ top = op.frames[1] /\ 1 \in DOMAIN op.frames /\ top.buffer = b /\ top.entries = n
      /\ FrameOK(top) /\ (Len(op.frames) = 1 \/ Len(op.frames) = 2) /\ DOMAIN op.frames = 1 .. Len(op.frames)
      BY <1>1, <1>2, TheFrames DEF Frames
<1>4. TypeOK
      BY DEF TablesIInv
<1>5. CountOK(top) /\ FrameAbove(lo, top)
      BY <1>3 DEF CountsOK, OpenedAt, FramesAbove
<1>6. count[u] = n
      BY <1>2, <1>3, <1>5 DEF CountOK
<1>7. \A i \in DOMAIN b : InsertedAbove(log, lo, b[i].rid)
      BY Zenon, <1>3, <1>5 DEF FrameAbove
<1>8. /\ StepBack(lo)
      /\ file'[u] = file[u] \o b /\ \A t \in Tables : t # u => file'[t] = file[t]
  <2>1. log' = log /\ file' = [file EXCEPT ![u] = @ \o b]
        BY <1>2
  <2>2. QED
        BY ZenonT(60), <1>3, <1>4, <1>7, <2>1, FlushBack
<1>9. PICK s, m : s = file[u] /\ m = file'[u]
      OBVIOUS
<1>10. /\ Len(m) = Len(s) + Len(b) /\ Len(s) \in Nat /\ Len(b) \in Nat
       /\ DOMAIN m = 1 .. Len(m) /\ DOMAIN s = 1 .. Len(s)
       /\ \A i \in DOMAIN s : i \in DOMAIN m /\ m[i] = s[i]
       /\ \A i \in DOMAIN m : i \in DOMAIN s \/ (i - Len(s) \in DOMAIN b /\ m[i] = b[i - Len(s)])
  <2>1. s \in Seq(Slots) /\ m = s \o b
        BY <1>3, <1>4, <1>8, <1>9 DEF TypeOK
  <2>2. QED
        BY <1>3, <2>1, Concatenated
<1>11. Uncounted(top, file[u]) => count'[u] < Len(m)
  <2>1. PICK x, y : x = Len(s) /\ y = Len(b)
        OBVIOUS
  <2>2. Uncounted(top, file[u]) => n + 0 < x + y
        BY <1>2, <1>3, <1>9, <2>1 DEF Uncounted
  <2>3. QED
        BY <1>2, <1>3, <1>6, <1>10, <2>1, <2>2
<1>12. \A k : FrameOf(k, u) <=> k = 1
  <2>1. \A k \in DOMAIN op.frames : k # 1 => op.frames[k].table # u
        BY <1>1, <1>2, TheFrames
  <2>2. top.step # "open"
        BY <1>2
  <2>3. QED
        BY <1>3, <2>1, <2>2 DEF FrameOf
<1>13. PICK k2 : k2 = IF Innermost THEN 0 ELSE 1
       OBVIOUS
<1>14. PICK fs \in Seq(Frames) :
          /\ op' = [op EXCEPT !.frames = fs] /\ Len(fs) = k2 /\ DOMAIN fs = 1 .. k2
          /\ ~Innermost =>
                /\ k2 = 1 /\ Len(op.frames) = 2 /\ fs[1].table # u /\ fs[1].table \in Tables
                /\ fs[1].table = op.frames[2].table
                /\ fs[1].entries = op.frames[2].entries /\ fs[1].buffer = op.frames[2].buffer
                /\ fs[1].step = "nested" /\ op.frames[2].step = "object"
  <2>1. CASE Innermost
    <3>1. PICK fs : fs = <<>>
          OBVIOUS
    <3>2. fs \in Seq(Frames) /\ Len(fs) = 0 /\ DOMAIN fs = {}
          BY <3>1
    <3>3. op' = [op EXCEPT !.frames = fs]
          BY <1>2, <2>1, <3>1
    <3>4. 1 .. k2 = {}
          BY <1>13, <2>1
    <3>5. QED
          BY <1>13, <2>1, <3>2, <3>3, <3>4
  <2>2. CASE ~Innermost
    <3>0. Len(op.frames) = 2
          BY <1>3, <2>2 DEF Innermost
    <3>1. Len(op.frames) = 2 /\ 2 \in DOMAIN op.frames
      <4>1. DOMAIN op.frames = 1 .. 2
            BY <1>3, <3>0
      <4>2. QED
            BY <3>0, <4>1
    <3>2. PICK below : below = op.frames[2]
          OBVIOUS
    <3>3. below \in Frames /\ below.table # u /\ below.table \in Tables
      <4>1. below \in Frames /\ below.table # u
            BY <1>1, <1>2, <3>1, <3>2, TheFrames
      <4>2. QED
            BY <4>1 DEF Frames
    <3>4. top.row \in Slots /\ top.row.rid \in Rids
      <4>1. top.row \in Slots
            BY <1>2, <1>3, <2>2 DEF FrameOK
      <4>2. QED
            BY Zenon, <4>1, SlotParts
    <3>5. PICK new : new = [below EXCEPT !.ref = top.row.rid, !.step = "nested"]
          OBVIOUS
    <3>6. /\ new \in Frames /\ new.table = below.table /\ new.buffer = below.buffer
          /\ new.step = "nested" /\ new.entries = below.entries
          BY <3>3, <3>4, <3>5 DEF Frames
    <3>7. PICK fs : fs = <<new>>
          OBVIOUS
    <3>8. fs \in Seq(Frames) /\ Len(fs) = 1 /\ DOMAIN fs = 1 .. 1 /\ fs[1] = new
          BY <3>6, <3>7
    <3>9. op' = [op EXCEPT !.frames = fs]
          BY <1>2, <2>2, <3>2, <3>5, <3>7
    <3>10. below.step = "object"
          BY <3>1, <3>2 DEF CountsOK
    <3>11. k2 = 1
          BY <1>13, <2>2
    <3>12. QED
          BY <2>2, <3>1, <3>2, <3>3, <3>6, <3>8, <3>9, <3>10, <3>11
  <2>3. QED
        BY <2>1, <2>2
<1>15. op'.frames = fs
      BY <1>4, <1>14 DEF TypeOK, Queries
<1>16. /\ Innermost => k2 = 0 /\ Len(op.frames) = 1
       /\ k2 = 0 \/ k2 = 1
      BY <1>3, <1>13 DEF Innermost
<1>17. /\ \A t, k : FrameOf(k, t)' <=> k = 1 /\ k2 = 1 /\ fs[1].table = t
       /\ \A t, k : FrameOf(k, t) /\ t # u <=> k = 2 /\ k2 = 1 /\ op.frames[2].table = t
  <2>1. CASE Innermost
    <3>1. Len(op.frames) = 1 /\ k2 = 0
          BY <1>16, <2>1
    <3>2. (\A k : k \in DOMAIN op.frames => k = 1) /\ \A k : k \notin DOMAIN fs
          BY <1>3, <1>14, <3>1
    <3>3. \A t, k : ~FrameOf(k, t)'
          BY <1>15, <3>2 DEF FrameOf
    <3>4. \A t, k : FrameOf(k, t) => t = u
          BY <1>3, <3>2 DEF FrameOf
    <3>5. QED
          BY <3>1, <3>3, <3>4
  <2>2. CASE ~Innermost
    <3>1. Len(op.frames) = 2 /\ k2 = 1
          BY <1>14, <2>2
    <3>2. (\A k : k \in DOMAIN op.frames <=> k = 1 \/ k = 2) /\ \A k : k \in DOMAIN fs <=> k = 1
          BY <1>3, <1>14, <3>1
    <3>3. fs[1].step # "open" /\ op.frames[2].step # "open" /\ op.frames[2].table # u
          BY <1>14, <2>2
    <3>4. \A t, k : FrameOf(k, t)' <=> k = 1 /\ k2 = 1 /\ fs[1].table = t
          BY <1>15, <3>1, <3>2, <3>3 DEF FrameOf
    <3>5. \A t, k : FrameOf(k, t) /\ t # u <=> k = 2 /\ k2 = 1 /\ op.frames[2].table = t
          BY <1>3, <3>1, <3>2, <3>3 DEF FrameOf
    <3>6. QED
          BY <3>4, <3>5
  <2>3. QED
        BY <2>1, <2>2
<1>18. ~Innermost => CountOK(op.frames[2]) /\ FrameAbove(lo, op.frames[2])
  <2> HAVE ~Innermost
  <2>1. 2 \in DOMAIN op.frames
        BY <1>3, <1>14
  <2>2. QED
        BY <2>1 DEF CountsOK, OpenedAt, FramesAbove
<1>19. CountsOK'
  <2>1. ASSUME NEW k \in DOMAIN fs
        PROVE  CountOK(fs[k])'
    <3>1. k = 1 /\ k2 = 1 /\ ~Innermost
          BY <1>14, <1>16, <2>1
    <3>2. PICK f, g : f = fs[1] /\ g = op.frames[2]
          OBVIOUS
    <3>3. /\ CountOK(g) /\ f.table = g.table /\ f.step = "nested" /\ g.step = "object" /\ f.entries = g.entries
          BY <1>14, <1>18, <3>1, <3>2
    <3>4. CountOK(f)'
          BY <1>2, <3>3 DEF CountOK
    <3>5. QED
          BY <3>1, <3>2, <3>4
  <2>2. Len(fs) # 2
        BY <1>14, <1>16
  <2>3. QED
        BY <1>15, <2>1, <2>2 DEF CountsOK
<1>20. FramesAbove(lo)'
  <2>1. ASSUME NEW k \in DOMAIN fs
        PROVE  FrameAbove(lo, fs[k])'
    <3>1. k = 1 /\ k2 = 1 /\ ~Innermost
          BY <1>14, <1>16, <2>1
    <3>2. PICK f, g : f = fs[1] /\ g = op.frames[2]
          OBVIOUS
    <3>3. FrameAbove(lo, g) /\ f.step = "nested" /\ f.buffer = g.buffer
          BY <1>14, <1>18, <3>1, <3>2
    <3>4. FrameAbove(lo, f)'
          BY <1>2, <3>3 DEF FrameAbove
    <3>5. QED
          BY <3>1, <3>2, <3>4
  <2>2. QED
        BY <1>15, <2>1 DEF FramesAbove
<1>21. ASSUME NEW t \in Tables, Missing(t)
       PROVE  Missing(t)'
  <2>1. CASE t = u
    <3>1. Uncounted(top, file[u])
          BY <1>3, <1>12, <1>21, <2>1 DEF Missing
    <3>2. \A k : ~FrameOf(k, t)'
          BY <1>14, <1>16, <1>17, <2>1
    <3>3. QED
          BY <1>9, <1>11, <2>1, <3>1, <3>2 DEF Missing
  <2>2. CASE t # u /\ \E k : FrameOf(k, t)
    <3>0. PICK k \in DOMAIN op.frames : FrameOf(k, t) /\ Uncounted(op.frames[k], file[t])
      <4>1. \A k : FrameOf(k, t) => k \in DOMAIN op.frames
            BY DEF FrameOf
      <4>2. QED
            BY <1>21, <2>2, <4>1 DEF Missing
    <3>1. k2 = 1 /\ op.frames[2].table = t /\ Uncounted(op.frames[2], file[t])
          BY <1>17, <2>2, <3>0
    <3>2. PICK f, g : f = fs[1] /\ g = op.frames[2]
          OBVIOUS
    <3>3. /\ f.table = t /\ f.step = "nested" /\ g.step = "object"
          /\ f.entries = g.entries /\ f.buffer = g.buffer /\ Uncounted(g, file'[t])
          BY <1>8, <1>14, <1>16, <2>2, <3>1, <3>2
    <3>4. Uncounted(f, file'[t])
          BY <3>3 DEF Uncounted
    <3>5. FrameOf(1, t)' /\ 1 \in DOMAIN op'.frames /\ op'.frames[1] = f
          BY <1>14, <1>15, <1>17, <3>1, <3>2, <3>3
    <3>6. QED
          BY <3>4, <3>5 DEF Missing, Uncounted
  <2>3. CASE t # u /\ ~ \E k : FrameOf(k, t)
    <3>1. \A k : ~FrameOf(k, t)'
      <4> SUFFICES ASSUME NEW k, FrameOf(k, t)' PROVE FALSE
          OBVIOUS
      <4>1. k2 = 1 /\ fs[1].table = t
            BY <1>17
      <4>2. op.frames[2].table = t
            BY <1>14, <1>16, <4>1
      <4>3. FrameOf(2, t)
            BY <1>17, <4>1, <4>2
      <4>4. QED
            BY <2>3, <4>3
    <3>2. QED
          BY <1>2, <1>8, <1>21, <2>3, <3>1 DEF Missing
  <2>4. QED
        BY <2>1, <2>2, <2>3
<1>22. ASSUME NEW t \in Tables, Counted(lo, t)
       PROVE  Counted(lo, t)'
  <2>1. CASE t = u
    <3>1. ASSUME NEW i \in DOMAIN m
          PROVE  i <= count'[u] \/ InsertedAbove(log', lo, m[i].rid)
      <4>1. CASE i \in DOMAIN s
        <5>1. i <= count[u] \/ i <= n \/ InsertedAbove(log, lo, s[i].rid)
              BY <1>3, <1>9, <1>12, <1>22, <2>1, <4>1 DEF Counted
        <5>2. QED
              BY <1>2, <1>6, <1>10, <4>1, <5>1
      <4>2. CASE i \notin DOMAIN s
            BY <1>2, <1>7, <1>10, <4>2
      <4>3. QED
            BY <4>1, <4>2
    <3>2. QED
          BY <1>9, <2>1, <3>1 DEF Counted
  <2>2. CASE t # u
    <3>1. ASSUME NEW i \in DOMAIN file[t]
          PROVE  \/ i <= count[t]
                 \/ \E k \in DOMAIN op'.frames : FrameOf(k, t)' /\ i <= op'.frames[k].entries
                 \/ InsertedAbove(log', lo, file[t][i].rid)
      <4>1. CASE \E k \in DOMAIN op.frames : FrameOf(k, t) /\ i <= op.frames[k].entries
        <5>1. k2 = 1 /\ op.frames[2].table = t /\ i <= op.frames[2].entries
              BY <1>17, <2>2, <4>1
        <5>2. fs[1].table = t /\ i <= fs[1].entries
              BY <1>14, <1>16, <5>1
        <5>3. FrameOf(1, t)' /\ 1 \in DOMAIN op'.frames
              BY <1>14, <1>15, <1>17, <5>1, <5>2
        <5>4. QED
              BY <1>15, <5>2, <5>3
      <4>2. CASE i <= count[t] \/ InsertedAbove(log, lo, file[t][i].rid)
            BY <1>2, <4>2
      <4>3. QED
            BY <1>22, <3>1, <4>1, <4>2 DEF Counted
    <3>2. file'[t] = file[t] /\ count' = count
          BY <1>2, <1>8, <2>2
    <3>3. QED
          BY <3>1, <3>2 DEF Counted
  <2>3. QED
        BY <2>1, <2>2
<1>23. ~Nests(op.table) => \A k \in DOMAIN fs : fs[k].table = op.table
  <2> HAVE ~Nests(op.table)
  <2>1. \A k \in DOMAIN op.frames : op.frames[k].table = op.table
        BY DEF OpenedAt, OneTable
  <2>2. Innermost
    <3>1. ~Innermost => 2 \in DOMAIN op.frames /\ op.frames[2].table # u
          BY <1>3, <1>14
    <3>2. QED
          BY <1>3, <2>1, <3>1
  <2>3. QED
        BY <1>14, <1>16, <2>2
<1>24. ASSUME NEW t \in Tables, CountAhead(log, lo, t)
       PROVE  CountAhead(log, lo, t)'
  <2>1. CASE t = u
    <3>1. n > Len(m) => n > Len(s)
          BY <1>3, <1>10
    <3>2. QED
          BY <1>2, <1>6, <1>9, <1>24, <2>1, <3>1 DEF CountAhead
  <2>2. CASE t # u
        BY <1>2, <1>8, <1>24, <2>2 DEF CountAhead
  <2>3. QED
        BY <2>1, <2>2
<1>25. UNCHANGED <<opened, holes, count, log, phase>>
      BY <1>2
<1>26. QED
      BY <1>2, <1>8, <1>14, <1>19, <1>20, <1>21, <1>22, <1>23, <1>24, <1>25, FramesGoOn

\* The rows that wait for the table of frame k.
LEMMA WaitingRowsOf ==
    ASSUME NEW t, NEW k \in DOMAIN op.frames, op.frames[k].table = t,
           \A j \in DOMAIN op.frames : op.frames[j].table = t => j = k
    PROVE  Buffered(t) = op.frames[k].buffer
<1> DEFINE frames == {frame \in ToSet(op.frames) : frame.table = t}
<1>1. \A frame \in frames : frame = op.frames[k]
      BY DEF ToSet
<1>2. op.frames[k] \in frames
      BY DEF ToSet
<1>3. Buffered(t) = IF frames = {} THEN <<>> ELSE (CHOOSE frame \in frames : TRUE).buffer
      BY DEF Buffered
<1> HIDE DEF frames
<1>4. PICK frame : frame = CHOOSE f \in frames : TRUE
      OBVIOUS
<1>5. frame \in frames
      BY <1>2, <1>4
<1>6. QED
      BY <1>1, <1>2, <1>3, <1>4, <1>5

LEMMA InsertThrowsGoesOn ==
    ASSUME TablesIInv, CountsOK, FreshOK, NEW lo \in DOMAIN log, OpenedAt(lo),
           InsertThrows
    PROVE  QueryGoesOn(lo)
<1>1. /\ op.frames # <<>> /\ Top.step \in {"object", "nested"} /\ file' = [t \in Tables |-> file[t] \o Buffered(t)]
      /\ op' = NoOp /\ phase' = "idle" /\ log' = log /\ count' = count
      BY DEF InsertThrows, InFrame, Returns
<1>2. TypeOK
      BY DEF TablesIInv
<1>3. op.frames \in Seq(Frames) /\ Top = op.frames[1] /\ op.frames[1].table = Top.table
      BY <1>1, TheFrames
<1>4. \A j, k \in DOMAIN op.frames : op.frames[j].table = op.frames[k].table => j = k
  <2>1. \A j \in DOMAIN op.frames : j # 1 => j = 2 /\ op.frames[2].table # Top.table
        BY <1>1, TheFrames
  <2>2. QED
        BY <1>3, <2>1
<1>5. \A k \in DOMAIN op.frames : op.frames[k].step \in {"object", "nested"} /\ CountOK(op.frames[k]) /\ FrameAbove(lo, op.frames[k])
  <2>1. \A j \in DOMAIN op.frames : j # 1 => j = 2 /\ Len(op.frames) = 2
        BY <1>1, TheFrames
  <2>2. QED
        BY <1>1, <1>3, <2>1 DEF CountsOK, OpenedAt, FramesAbove
<1>6. \A k \in DOMAIN op.frames : Buffered(op.frames[k].table) = op.frames[k].buffer
  <2> TAKE k \in DOMAIN op.frames
  <2>1. PICK t : t = op.frames[k].table
        OBVIOUS
  <2>2. \A j \in DOMAIN op.frames : op.frames[j].table = t => j = k
        BY <1>4, <2>1
  <2>3. QED
        BY <2>1, <2>2, WaitingRowsOf
<1>7. \A k \in DOMAIN op.frames : op.frames[k] \in Frames
      BY <1>3
<1>8. ASSUME NEW t \in Tables
      PROVE  /\ Buffered(t) \in Seq(Slots) /\ file'[t] = file[t] \o Buffered(t)
             /\ \A i \in DOMAIN Buffered(t) : InsertedAbove(log, lo, Buffered(t)[i].rid)
  <2>1. PICK b : b = Buffered(t)
        OBVIOUS
  <2>2. CASE b = <<>>
    <3>1. b \in Seq(Slots) /\ DOMAIN b = {}
          BY <2>2
    <3>2. QED
          BY <1>1, <2>1, <3>1
  <2>3. CASE \E k \in DOMAIN op.frames : op.frames[k].table = t /\ b = op.frames[k].buffer
        BY <1>1, <1>5, <1>7, <2>1, <2>3 DEF Frames, FrameAbove
  <2>4. b = <<>> \/ \E k \in DOMAIN op.frames : op.frames[k].table = t /\ b = op.frames[k].buffer
        BY <2>1, WaitingRows
  <2>5. QED
        BY <2>2, <2>3, <2>4
<1>9. op'.frames = <<>> /\ DOMAIN op'.frames = {} /\ Len(op'.frames) # 2
  <2>1. op'.frames = <<>>
        BY <1>1 DEF NoOp
  <2>2. QED
        BY <2>1
<1>10. ASSUME NEW t \in Tables, Missing(t)
       PROVE  Missing(t)'
  <2>1. PICK b, s, c : b = Buffered(t) /\ s = file[t] /\ c = count[t]
        OBVIOUS
  <2>2. /\ Len(s) \in Nat /\ Len(b) \in Nat /\ Len(file'[t]) = Len(s) + Len(b) /\ c \in Nat
    <3>1. s \in Seq(Slots) /\ b \in Seq(Slots) /\ file'[t] = s \o b /\ c \in Nat
          BY <1>2, <1>8, <2>1 DEF TypeOK
    <3>2. QED
          BY <3>1, Concatenated
  <2>3. c < Len(file'[t])
    <3>1. CASE \E k \in DOMAIN op.frames : FrameOf(k, t)
      <4>1. PICK k \in DOMAIN op.frames : FrameOf(k, t) /\ Uncounted(op.frames[k], file[t])
            BY <1>10, <3>1 DEF Missing
      <4>2. PICK f : f = op.frames[k]
            OBVIOUS
      <4>3. f.table = t /\ f.step \in {"object", "nested"} /\ f.buffer = b /\ CountOK(f) /\ Uncounted(f, s) /\ f.entries \in Nat
            BY <1>5, <1>6, <1>7, <2>1, <4>1, <4>2 DEF FrameOf, Frames
      <4>4. c <= f.entries
            BY <2>1, <4>3 DEF CountOK
      <4>5. f.entries + 0 < Len(s) + Len(b)
            BY <4>3 DEF Uncounted
      <4>6. QED
            BY <2>2, <4>3, <4>4, <4>5
    <3>2. CASE \A k \in DOMAIN op.frames : ~FrameOf(k, t)
      <4>1. c < Len(s)
            BY <1>10, <2>1, <3>2 DEF Missing
      <4>2. QED
            BY <2>2, <4>1
    <3>3. QED
          BY <3>1, <3>2
  <2>4. QED
        BY <1>1, <1>9, <2>1, <2>3 DEF Missing
<1>11. StepBack(lo)
      BY <1>1, <1>2, <1>8, RowsBack
<1>12. CountsOK'
      BY <1>9 DEF CountsOK
<1>13. QED
      BY <1>1, <1>10, <1>11, <1>12 DEF QueryGoesOn, FreshOK

-----------------------------------------------------------------------------
(* update() and deleteWhere(). *)

\* A step of a scan: it may log a line and write over a row.
LEMMA ScanGoesOn ==
    ASSUME TablesIInv, FreshOK', NEW lo \in DOMAIN log, OpenedAt(lo), opened' = opened, count' = count,
           phase = "query", phase' = phase, op.kind # "Insert",
           op'.frames = op.frames, op'.kind = op.kind, op'.table = op.table,
           file' \in [Tables -> Seq(Slots)],
           \A t \in Tables : DOMAIN file'[t] = DOMAIN file[t],
           \A t \in Tables : \A i \in DOMAIN file[t] : file'[t][i].rid = file[t][i].rid,
           \A t \in Tables : holes[t] \subseteq holes'[t],
           \A j \in DOMAIN log : j \in DOMAIN log' /\ log'[j] = log[j],
           StepBack(lo), LinesAbove(lo)', ScanAbove(lo)',
           ~Nests(op.table) =>
              /\ Stretch(log', lo, op.table, op.kind)
              /\ \A j \in DOMAIN log' : lo < j =>
                    \E i \in 1 .. op'.at : i \in DOMAIN file[op.table] /\ file[op.table][i].rid = log'[j].rid
    PROVE  QueryGoesOn(lo)
<1>1. /\ op.kind \in {"Update", "Delete"} /\ op.table \in Tables /\ op.frames = <<>>
      BY TheScan
<1>2. DOMAIN op.frames = {} /\ Len(op.frames) # 2
      BY <1>1
<1>3. TypeOK
      BY DEF TablesIInv
<1>4. \A t \in Tables : Len(file'[t]) = Len(file[t])
  <2>1. \A s, m \in Seq(Slots) : DOMAIN s = DOMAIN m => Len(s) = Len(m)
        OBVIOUS
  <2>2. QED
        BY <1>3, <2>1 DEF TypeOK
<1>5. CountsOK'
      BY <1>2 DEF CountsOK
<1>6. FramesAbove(lo)'
      BY <1>2 DEF FramesAbove
<1>7. \A t \in Tables : Missing(t) => Missing(t)'
      BY <1>2, <1>4 DEF Missing
<1>8. \A t \in Tables : CountAhead(log, lo, t) => CountAhead(log, lo, t)'
      BY <1>4 DEF CountAhead
<1>9. ASSUME NEW t \in Tables, Counted(lo, t)
      PROVE  Counted(lo, t)'
  <2>1. ASSUME NEW i \in DOMAIN file'[t]
        PROVE  i <= count[t] \/ InsertedAbove(log', lo, file'[t][i].rid)
    <3>1. i <= count[t] \/ InsertedAbove(log, lo, file[t][i].rid)
          BY <1>2, <1>9, <2>1 DEF Counted
    <3>2. QED
          BY <2>1, <3>1, AboveStays
  <2>2. QED
        BY <2>1 DEF Counted
<1>10. OpenedBack(lo)'
      BY <1>3, <1>8, <1>9, OpenedStays DEF OpenedAt
<1>11. ~Nests(op.table)' => OneTable(lo)'
  <2> HAVE ~Nests(op.table)'
  <2>1. ~Nests(op.table)
        BY DEF Nests
  <2>2. Stretch(log', lo, op'.table, op'.kind)
        BY <2>1
  <2>3. \A j \in DOMAIN log' : lo < j =>
            \E i \in 1 .. op'.at : i \in DOMAIN file'[op'.table] /\ file'[op'.table][i].rid = log'[j].rid
        BY SMTT(60), <1>1, <2>1
  <2>4. QED
        BY <1>2, <2>2, <2>3 DEF OneTable
<1>12. OpenedAt(lo)'
      BY <1>6, <1>10, <1>11 DEF OpenedAt
<1>13. QED
      BY <1>5, <1>7, <1>12 DEF QueryGoesOn

\* The newest line is about the row it names.
LEMMA NewestAbove ==
    ASSUME TypeOK, NEW lo \in DOMAIN log, NEW line \in Lines, Log(line), IsChange(line)
    PROVE  TouchedAbove(log', lo, line.rid)
<1>1. /\ log'[Len(log')] = line /\ Len(log') = Len(log) + 1 /\ Len(log) \in Nat
      /\ DOMAIN log = 1 .. Len(log) /\ DOMAIN log' = 1 .. Len(log')
      BY Logged DEF TypeOK
<1>2. QED
      BY <1>1 DEF TouchedAbove, Touches

LEMMA MatchLogsGoesOn ==
    ASSUME TablesIInv, FreshOK, NEW lo \in DOMAIN log, OpenedAt(lo), opened' = opened,
           NEW i \in Positions, UpdateLogs(i) \/ DeleteLogs(i)
    PROVE  QueryGoesOn(lo)
<1>1. PICK t, slot, k : t = op.table /\ slot = file[t][i] /\ k = op.kind
      OBVIOUS
<1>2. /\ phase = "query" /\ op.kind \in {"Update", "Delete"} /\ op.step = "next" /\ Matches(i)
      /\ op' = [op EXCEPT !.at = i, !.step = "logged"]
      /\ UNCHANGED <<file, holes, count, phase>>
      BY DEF UpdateLogs, DeleteLogs, Scanning, store
<1>3. /\ TypeOK /\ FilesOK /\ LogsOK /\ t \in Tables /\ file[t] \in Seq(Slots) /\ op.at \in Nat
      /\ i \in Nat /\ op.frames = <<>>
      BY <1>1, <1>2, TheScan DEF TablesIInv, Positions
<1>4. i \in DOMAIN file[t] /\ op.at < i
      BY <1>1, <1>2, <1>3 DEF Matches
<1>5. slot \in Slots /\ slot.rid \in Rids /\ slot.rid \in used /\ Held(slot) \in RowContents /\ TableOf[slot.rid] = t
      BY <1>1, <1>3, <1>4, SlotParts DEF FilesOK
<1>6. PICK line \in Lines :
         Log(line) /\ IsChange(line) /\ line.kind = op.kind /\ line.rid = slot.rid
            /\ line.before = Held(slot)
  <2>1. CASE UpdateLogs(i)
        BY <1>1, <1>5, <2>1, MadeLines, LineKinds DEF UpdateLogs, Scanning
  <2>2. CASE DeleteLogs(i)
        BY <1>1, <1>5, <2>2, MadeLines, LineKinds DEF DeleteLogs, Scanning
  <2>3. QED
        BY <2>1, <2>2
<1>7. /\ op'.kind = op.kind /\ op'.table = op.table /\ op'.frames = op.frames
      /\ op'.at = i /\ op'.step = "logged"
      BY <1>2, <1>3 DEF TypeOK, Queries
<1>8. LinesAbove(lo)' /\ \A j \in DOMAIN log : j \in DOMAIN log' /\ log'[j] = log[j]
  <2>1. LinesAbove(lo)
        BY DEF OpenedAt
  <2>2. QED
        BY <1>3, <1>6, <1>7, <2>1, LinesGrow
<1>9. StepBack(lo)
  <2>1. \A u \in Tables : \A j \in DOMAIN file[u] : Touches(line, file[u][j].rid) =>
            line.kind # "Insert" /\ line.before = Held(file[u][j])
    <3> TAKE u \in Tables
    <3> TAKE j \in DOMAIN file[u]
    <3> HAVE Touches(line, file[u][j].rid)
    <3>1. file[u][j].rid = slot.rid
          BY <1>6 DEF Touches
    <3>2. u = t
          BY <1>3, <1>5, <3>1 DEF FilesOK
    <3>3. j = i
          BY <1>1, <1>3, <1>4, <3>1, <3>2 DEF FilesOK, Distinct
    <3>4. QED
          BY <1>1, <1>2, <1>6, <3>2, <3>3
  <2>2. file' = file
        BY <1>2
  <2>3. QED
        BY <1>3, <1>6, <2>1, <2>2, LogBack
<1>10. FreshOK'
  <2>1. line.kind # "Insert"
        BY <1>2, <1>6
  <2>2. QED
        BY <1>3, <1>6, <2>1, FreshGrows
<1>11. ScanAbove(lo)'
  <2>1. TouchedAbove(log', lo, slot.rid)
        BY <1>3, <1>6, NewestAbove
  <2>2. Row' = slot
        BY <1>1, <1>2, <1>7 DEF Row
  <2>3. QED
        BY <1>7, <2>1, <2>2 DEF ScanAbove
<1>12. /\ log'[Len(log')] = line /\ \A j \in DOMAIN log' : j \in DOMAIN log \/ j = Len(log')
       /\ Len(log') = Len(log) + 1 /\ Len(log) \in Nat /\ DOMAIN log = 1 .. Len(log)
      BY <1>3, <1>6, Logged DEF TypeOK
<1>13. ASSUME ~Nests(op.table)
       PROVE  /\ Stretch(log', lo, t, k)
              /\ \A j \in DOMAIN log' : lo < j =>
                    \E m \in 1 .. op'.at : m \in DOMAIN file[t] /\ file[t][m].rid = log'[j].rid
  <2>1. Stretch(log, lo, t, k)
        BY <1>1, <1>13 DEF OpenedAt, OneTable
  <2>2. \A j \in DOMAIN log : lo < j => \E m \in 1 .. op.at : m \in DOMAIN file[t] /\ file[t][m].rid = log[j].rid
        BY <1>1, <1>2, <1>13 DEF OpenedAt, OneTable
  <2>3. ASSUME NEW j \in DOMAIN log, lo < j
        PROVE  log[j].rid # slot.rid
    <3>1. PICK m \in 1 .. op.at : m \in DOMAIN file[t] /\ file[t][m].rid = log[j].rid
          BY <2>2, <2>3
    <3>2. m # i
          BY <1>3, <1>4, <3>1
    <3>3. QED
          BY <1>1, <1>3, <1>4, <3>1, <3>2 DEF FilesOK, Distinct
  <2>4. ASSUME NEW j \in DOMAIN log', lo < j
        PROVE  /\ IsChange(log'[j]) /\ log'[j].kind = k /\ TableOf[log'[j].rid] = t
               /\ \A n \in DOMAIN log' : lo < n /\ log'[n].rid = log'[j].rid => n = j
               /\ \E m \in 1 .. op'.at : m \in DOMAIN file[t] /\ file[t][m].rid = log'[j].rid
    <3>1. CASE j \in DOMAIN log
      <4>1. log'[j] = log[j] /\ log[j].rid # slot.rid
            BY <1>8, <2>3, <2>4, <3>1
      <4>2. IsChange(log[j]) /\ log[j].kind = k /\ TableOf[log[j].rid] = t
            BY <2>1, <2>4, <3>1 DEF Stretch
      <4>3. \A n \in DOMAIN log : lo < n /\ log[n].rid = log[j].rid => n = j
            BY <2>1, <2>4, <3>1 DEF Stretch
      <4>4. \A n \in DOMAIN log' : lo < n /\ log'[n].rid = log'[j].rid => n = j
            BY <1>6, <1>8, <1>12, <4>1, <4>3
      <4>5. PICK m \in 1 .. op.at : m \in DOMAIN file[t] /\ file[t][m].rid = log[j].rid
            BY <2>2, <2>4, <3>1
      <4>6. m \in 1 .. op'.at
            BY <1>3, <1>4, <1>7
      <4>7. QED
            BY <4>1, <4>2, <4>4, <4>5, <4>6
    <3>2. CASE j = Len(log') /\ j \notin DOMAIN log
      <4>1. log'[j] = line
            BY <1>12, <3>2
      <4>2. \A n \in DOMAIN log' : lo < n /\ log'[n].rid = line.rid => n = j
            BY <1>6, <1>8, <1>12, <2>3, <3>2
      <4>3. i \in 1 .. op'.at
            BY <1>3, <1>4, <1>7
      <4>4. QED
            BY <1>1, <1>4, <1>5, <1>6, <4>1, <4>2, <4>3
    <3>3. QED
          BY <1>12, <2>4, <3>1, <3>2
  <2>5. QED
        BY <2>4 DEF Stretch
<1>14. ~Nests(op.table) =>
          /\ Stretch(log', lo, op.table, op.kind)
          /\ \A j \in DOMAIN log' : lo < j =>
                \E m \in 1 .. op'.at : m \in DOMAIN file[op.table] /\ file[op.table][m].rid = log'[j].rid
      BY <1>1, <1>13
<1>15. /\ op.kind # "Insert" /\ count' = count /\ phase' = phase /\ file' \in [Tables -> Seq(Slots)]
       /\ file' = file /\ holes' = holes
      BY <1>2, <1>3 DEF TypeOK
<1>16. QED
      BY <1>2, <1>7, <1>8, <1>9, <1>10, <1>11, <1>14, <1>15, ScanGoesOn

LEMMA OverwriteLogsGoesOn ==
    ASSUME TablesIInv, FreshOK, NEW lo \in DOMAIN log, OpenedAt(lo), opened' = opened,
           NEW i \in Positions, OverwriteLogs(i)
    PROVE  QueryGoesOn(lo)
<1>1. /\ phase = "query" /\ op.kind = "Update" /\ op.step = "logged" /\ Nested(i)
      /\ Log(UpdateLine(RefOf[Row.rid], Held(file[ChildOf[op.table]][i])))
      /\ op' = [op EXCEPT !.step = "nestedLogged"]
      /\ UNCHANGED <<file, holes, count, phase>>
      BY DEF OverwriteLogs, Scanning, store
<1>2. PICK c, slot, r, row : /\ c = ChildOf[op.table] /\ slot = file[c][i]
                             /\ r = RefOf[Row.rid] /\ row = Row
      OBVIOUS
<1>3. /\ c \in Tables /\ slot \in Slots /\ slot.rid = r /\ r \in used /\ i \in DOMAIN file[c]
      /\ \A k \in DOMAIN file[c] : file[c][k].rid = r => k = i
      BY <1>1, <1>2, TheNested
<1>4. /\ TypeOK /\ FilesOK /\ LogsOK /\ Nests(op.table)
      BY <1>1 DEF TablesIInv, Nested
<1>5. PICK line : line = UpdateLine(r, Held(slot))
      OBVIOUS
<1>6. /\ line \in Lines /\ Log(line) /\ IsChange(line) /\ line.kind = "Update" /\ line.rid = r
      /\ line.before = Held(slot)
  <2>1. r \in Rids /\ Held(slot) \in RowContents
        BY <1>3, <1>4, SlotParts DEF TypeOK
  <2>2. QED
        BY <1>1, <1>2, <1>5, <2>1, MadeLines, LineKinds
<1>7. /\ op'.kind = op.kind /\ op'.table = op.table /\ op'.frames = op.frames
      /\ op'.at = op.at /\ op'.step = "nestedLogged"
      BY <1>1, <1>4 DEF TypeOK, Queries
<1>8. LinesAbove(lo)' /\ \A j \in DOMAIN log : j \in DOMAIN log' /\ log'[j] = log[j]
  <2>1. LinesAbove(lo) /\ line.kind = op.kind
        BY <1>1, <1>6 DEF OpenedAt
  <2>2. QED
        BY <1>4, <1>6, <1>7, <2>1, LinesGrow
<1>9. StepBack(lo)
  <2>1. \A u \in Tables : \A j \in DOMAIN file[u] : Touches(line, file[u][j].rid) =>
            line.kind # "Insert" /\ line.before = Held(file[u][j])
    <3> TAKE u \in Tables
    <3> TAKE j \in DOMAIN file[u]
    <3> HAVE Touches(line, file[u][j].rid)
    <3>1. file[u][j].rid = r /\ file[c][i].rid = r
          BY <1>2, <1>3, <1>6 DEF Touches
    <3>2. u = c
          BY <1>3, <1>4, <3>1 DEF FilesOK
    <3>3. j = i
          BY <1>3, <3>1, <3>2
    <3>4. QED
          BY <1>2, <1>6, <3>2, <3>3
  <2>2. file' = file
        BY <1>1
  <2>3. QED
        BY <1>4, <1>6, <2>1, <2>2, LogBack
<1>10. FreshOK'
  <2>1. line.kind # "Insert"
        BY <1>6
  <2>2. QED
        BY <1>4, <1>6, <2>1, FreshGrows
<1>11. ScanAbove(lo)'
  <2>1. TouchedAbove(log', lo, r)
        BY <1>4, <1>6, NewestAbove
  <2>2. PICK own : own = row.rid
        OBVIOUS
  <2>3. TouchedAbove(log, lo, own)
        BY <1>1, <1>2, <2>2 DEF OpenedAt, ScanAbove
  <2>4. TouchedAbove(log', lo, own)
        BY <1>8, <2>3, AboveStays
  <2>5. Row' = row
        BY <1>1, <1>2, <1>7 DEF Row
  <2>6. QED
        BY <1>2, <2>1, <2>2, <2>4, <2>5 DEF ScanAbove
<1>12. /\ op.kind # "Insert" /\ count' = count /\ phase' = phase /\ file' \in [Tables -> Seq(Slots)]
       /\ file' = file /\ holes' = holes
      BY <1>1, <1>4 DEF TypeOK
<1>13. QED
      BY <1>1, <1>4, <1>7, <1>8, <1>9, <1>10, <1>11, <1>12, ScanGoesOn

\* What Overwrites leaves in the row it writes.
LEMMA OverwrittenRow ==
    ASSUME TypeOK, NEW t \in Tables, NEW i \in DOMAIN file[t], i \in Positions,
           NEW held \in RowContents, Overwrites(t, i, held)
    PROVE  /\ file'[t][i].val # file[t][i].val => file'[t][i].val = held.val
           /\ file'[t][i].del # file[t][i].del => file'[t][i].del = held.del
<1>1. CASE file' = file
      BY <1>1
<1>2. CASE file' = [file EXCEPT ![t][i].val = held.val, ![t][i].del = held.del]
  <2>1. file[t] \in Seq(Slots) /\ file[t][i] \in Slots
        BY DEF TypeOK
  <2>2. PICK new : new = [file[t][i] EXCEPT !.val = held.val, !.del = held.del]
        OBVIOUS
  <2>3. new.val = held.val /\ new.del = held.del
        BY <2>1, <2>2 DEF Slots
  <2>4. PICK m : m = [file[t] EXCEPT ![i] = new]
        OBVIOUS
  <2>5. m[i] = new
        BY <2>1, <2>4
  <2>6. file' = [file EXCEPT ![t] = m]
        BY <1>2, <2>1, <2>2, <2>4 DEF TypeOK
  <2>7. file'[t] = m
        BY <2>6 DEF TypeOK
  <2>8. QED
        BY <2>3, <2>5, <2>7
<1>3. QED
      BY <1>1, <1>2 DEF Overwrites

\* A row that the query has logged is written over.
LEMMA OverwriteBack ==
    ASSUME TypeOK, NEW lo \in DOMAIN log, log' = log, LinesAbove(lo),
           NEW t \in Tables, NEW i \in DOMAIN file[t], i \in Positions,
           NEW held \in RowContents, Overwrites(t, i, held),
           TouchedAbove(log, lo, file[t][i].rid),
           held.val # file[t][i].val => op.kind = "Update"
    PROVE  StepBack(lo)
<1>1. /\ \A u \in Tables : u # t => file'[u] = file[u]
      /\ \A u \in Tables : DOMAIN file'[u] = DOMAIN file[u]
      /\ \A u \in Tables : \A k \in DOMAIN file[u] : file'[u][k].rid = file[u][k].rid
      /\ \A k \in DOMAIN file[t] : k # i => file'[t][k] = file[t][k]
      BY Overwritten
<1>2. file'[t][i].val # file[t][i].val => op.kind = "Update"
      BY OverwrittenRow
<1>3. op.kind = "Update" =>
          \E j \in DOMAIN log : lo < j /\ Touches(log[j], file[t][i].rid) /\ log[j].kind = "Update"
      BY DEF LinesAbove, TouchedAbove
<1>4. ASSUME NEW u \in Tables, NEW k \in DOMAIN file[u]
      PROVE  /\ file'[u][k].del # file[u][k].del => TouchedAbove(log, lo, file[u][k].rid)
             /\ file'[u][k].val # file[u][k].val =>
                   \E j \in DOMAIN log : lo < j /\ Touches(log[j], file[u][k].rid) /\ log[j].kind = "Update"
  <2>1. CASE u = t /\ k = i
        BY <1>2, <1>3, <2>1
  <2>2. CASE ~(u = t /\ k = i)
    <3>1. file'[u][k] = file[u][k]
          BY <1>1, <2>2
    <3>2. QED
          BY <3>1
  <2>3. QED
        BY <2>1, <2>2
<1>5. \A u \in Tables : holes'[u] = {} =>
              /\ DOMAIN file'[u] = DOMAIN file[u]
              /\ \A k \in DOMAIN file[u] :
                    /\ file'[u][k].rid = file[u][k].rid
                    /\ file'[u][k].del # file[u][k].del => TouchedAbove(log, lo, file[u][k].rid)
                    /\ file'[u][k].val # file[u][k].val =>
                          \E j \in DOMAIN log : lo < j /\ Touches(log[j], file[u][k].rid) /\ log[j].kind = "Update"
      BY <1>1, <1>4
<1>6. QED
      BY <1>5, WriteBack

\* A step of a scan that writes over a row that the query has logged.
LEMMA WriteGoesOn ==
    ASSUME TablesIInv, FreshOK, NEW lo \in DOMAIN log, OpenedAt(lo),
           UNCHANGED <<opened, count, log, phase>>, phase = "query", op.kind # "Insert",
           op'.frames = op.frames, op'.kind = op.kind, op'.table = op.table, op'.at = op.at,
           NEW t \in Tables, NEW i \in DOMAIN file[t], i \in Positions,
           NEW held \in RowContents, Overwrites(t, i, held),
           TouchedAbove(log, lo, file[t][i].rid),
           held.val # file[t][i].val => op.kind = "Update",
           op'.step = "next" \/ (op'.step = "nestedWritten" /\ op.step # "next")
    PROVE  QueryGoesOn(lo)
<1>1. TypeOK /\ OpOK
      BY DEF TablesIInv
<1>2. /\ file' \in [Tables -> Seq(Slots)]
      /\ \A u \in Tables : holes[u] \subseteq holes'[u]
      /\ \A u \in Tables : DOMAIN file'[u] = DOMAIN file[u]
      /\ \A u \in Tables : \A k \in DOMAIN file[u] : file'[u][k].rid = file[u][k].rid
      BY <1>1, Overwritten
<1>3. LinesAbove(lo)
      BY DEF OpenedAt
<1>4. StepBack(lo)
      BY <1>1, <1>3, OverwriteBack
<1>5. FreshOK' /\ LinesAbove(lo)'
      BY <1>3 DEF FreshOK, LinesAbove
<1>6. ScanAbove(lo)'
  <2>1. CASE op'.step = "next"
        BY <2>1 DEF ScanAbove
  <2>2. CASE op'.step = "nestedWritten" /\ op.step # "next"
    <3>1. op.table \in Tables /\ op.at \in DOMAIN file[op.table]
          BY <2>2, TheScan
    <3>2. Row'.rid = Row.rid
          BY <1>2, <3>1 DEF Row
    <3>3. TouchedAbove(log, lo, Row.rid)
          BY <2>2 DEF OpenedAt, ScanAbove
    <3>4. QED
          BY <2>2, <3>2, <3>3 DEF ScanAbove
  <2>3. QED
        BY <2>1, <2>2
<1>7. ~Nests(op.table) =>
          /\ Stretch(log', lo, op.table, op.kind)
          /\ \A j \in DOMAIN log' : lo < j =>
                \E m \in 1 .. op'.at : m \in DOMAIN file[op.table] /\ file[op.table][m].rid = log'[j].rid
      BY DEF OpenedAt, OneTable
<1>8. \A j \in DOMAIN log : j \in DOMAIN log' /\ log'[j] = log[j]
      OBVIOUS
<1>9. QED
      BY <1>2, <1>4, <1>5, <1>6, <1>7, <1>8, ScanGoesOn

LEMMA OverwriteWritesGoesOn ==
    ASSUME TablesIInv, FreshOK, NEW lo \in DOMAIN log, OpenedAt(lo), opened' = opened,
           NEW i \in Positions, NEW v \in Contents, OverwriteWrites(i, v)
    PROVE  QueryGoesOn(lo)
<1>1. PICK c, held : c = ChildOf[op.table] /\ held = [Held(file[c][i]) EXCEPT !.val = v]
      OBVIOUS
<1>2. /\ phase = "query" /\ op.kind = "Update" /\ op.step = "nestedLogged" /\ Nested(i)
      /\ Overwrites(c, i, held)
      /\ op' = [op EXCEPT !.step = "nestedWritten"]
      /\ UNCHANGED <<count, log, phase>>
      BY <1>1 DEF OverwriteWrites, Scanning
<1>3. /\ c \in Tables /\ i \in DOMAIN file[c] /\ file[c][i] \in Slots /\ file[c][i].rid = RefOf[Row.rid]
      BY <1>1, <1>2, TheNested
<1>4. TypeOK
      BY DEF TablesIInv
<1>5. held \in RowContents
      BY <1>1, <1>3 DEF Slots, Held, RowContents
<1>6. /\ op'.kind = op.kind /\ op'.table = op.table /\ op'.frames = op.frames
      /\ op'.at = op.at /\ op'.step = "nestedWritten"
      BY <1>2, <1>4 DEF TypeOK, Queries
<1>7. TouchedAbove(log, lo, file[c][i].rid)
      BY <1>2, <1>3 DEF OpenedAt, ScanAbove
<1>8. UNCHANGED <<opened, count, log, phase>> /\ op.kind # "Insert" /\ op.step # "next"
      BY <1>2
<1>9. QED
      BY <1>2, <1>3, <1>5, <1>6, <1>7, <1>8, WriteGoesOn

LEMMA MatchWritesGoesOn ==
    ASSUME TablesIInv, FreshOK, NEW lo \in DOMAIN log, OpenedAt(lo), opened' = opened,
           DeleteWrites \/ \E v \in Contents : UpdateWrites(v)
    PROVE  QueryGoesOn(lo)
<1>1. /\ phase = "query" /\ op.kind # "Insert" /\ op.step # "next"
      /\ UNCHANGED <<count, log, phase>>
      BY DEF DeleteWrites, UpdateWrites, Scanning
<1>2. PICK t, i : t = op.table /\ i = op.at
      OBVIOUS
<1>3. /\ TypeOK /\ t \in Tables /\ i \in Positions /\ i \in DOMAIN file[t] /\ Row \in Slots /\ Row = file[t][i]
      BY <1>1, <1>2, TheScan DEF TablesIInv, Row
<1>4. PICK held \in RowContents :
          Overwrites(t, i, held) /\ (held.val # file[t][i].val => op.kind = "Update")
  <2>1. CASE DeleteWrites
    <3>1. PICK held : held = [Held(Row) EXCEPT !.del = "1"]
          OBVIOUS
    <3>2. held \in RowContents /\ held.val = Row.val
          BY <1>3, <3>1 DEF Slots, Held, RowContents
    <3>3. QED
          BY <1>2, <1>3, <2>1, <3>1, <3>2 DEF DeleteWrites
  <2>2. CASE \E v \in Contents : UpdateWrites(v)
    <3>1. PICK v \in Contents : UpdateWrites(v)
          BY <2>2
    <3>2. [Held(Row) EXCEPT !.val = v] \in RowContents
          BY <1>3 DEF Slots, Held, RowContents
    <3>3. QED
          BY Zenon, <1>2, <1>3, <3>1, <3>2 DEF UpdateWrites, Scanning
  <2>3. QED
        BY <2>1, <2>2
<1>5. /\ op'.kind = op.kind /\ op'.table = op.table /\ op'.frames = op.frames
      /\ op'.at = op.at /\ op'.step = "next"
  <2>1. CASE DeleteWrites
        BY <1>3, <2>1 DEF DeleteWrites, TypeOK, Queries
  <2>2. CASE \E v \in Contents : UpdateWrites(v)
    <3>1. PICK v \in Contents : UpdateWrites(v)
          BY <2>2
    <3>2. QED
          BY <1>3, <3>1 DEF UpdateWrites, TypeOK, Queries
  <2>3. QED
        BY <2>1, <2>2
<1>6. TouchedAbove(log, lo, file[t][i].rid)
      BY <1>1, <1>3 DEF OpenedAt, ScanAbove
<1>7. UNCHANGED <<opened, count, log, phase>>
      BY <1>1
<1>8. QED
      BY <1>1, <1>3, <1>4, <1>5, <1>6, <1>7, WriteGoesOn

LEMMA ReturnsGoOn ==
    ASSUME TablesIInv, CountsOK, FreshOK, NEW lo \in DOMAIN log, OpenedAt(lo),
           QueryCloses \/ ScanThrows \/ UpdateThrows
    PROVE  QueryGoesOn(lo)
<1>1. /\ phase = "query" /\ phase' = "idle" /\ op' = NoOp
      /\ UNCHANGED <<file, holes, count>>
      /\ log' = log \/ Log(CloseLine)
      BY DEF QueryCloses, ScanThrows, UpdateThrows, Scanning, store, Returns
<1>2. op.frames = <<>>
  <2>1. QueryCloses => op.frames = <<>>
        BY DEF QueryCloses
  <2>2. ScanThrows \/ UpdateThrows => op.kind # "Insert"
        BY DEF ScanThrows, UpdateThrows, Scanning
  <2>3. QED
        BY <1>1, <2>1, <2>2, TheScan
<1>3. op'.frames = <<>>
      BY <1>1 DEF NoOp
<1>4. DOMAIN op.frames = {} /\ DOMAIN op'.frames = {} /\ Len(op'.frames) # 2
      BY <1>2, <1>3
<1>5. \A t \in Tables : Missing(t) => Missing(t)'
      BY <1>1, <1>4 DEF Missing
<1>6. CountsOK'
      BY <1>4 DEF CountsOK
<1>7. TypeOK /\ LogsOK
      BY DEF TablesIInv
<1>8. FreshOK' /\ StepBack(lo)
  <2>1. CASE log' = log
    <3>1. lo \in Nat /\ file' = file
          BY <1>1, <1>7 DEF TypeOK
    <3>2. QED
          BY <2>1, <3>1, SameBack DEF FreshOK
  <2>2. CASE Log(CloseLine)
    <3>1. PICK line : line = CloseLine
          OBVIOUS
    <3>2. line \in Lines /\ ~IsChange(line) /\ Log(line) /\ line.kind # "Insert"
          BY <2>2, <3>1, MadeLines, LineKinds DEF CloseLine
    <3>3. FreshOK'
          BY <1>7, <3>2, FreshGrows
    <3>4. \A t \in Tables : \A i \in DOMAIN file[t] : ~Touches(line, file[t][i].rid)
          BY <3>2 DEF Touches
    <3>5. file' = file
          BY <1>1
    <3>6. StepBack(lo)
          BY <1>7, <3>2, <3>4, <3>5, LogBack
    <3>7. QED
          BY <3>3, <3>6
  <2>3. QED
        BY <1>1, <2>1, <2>2
<1>9. QED
      BY <1>1, <1>5, <1>6, <1>8 DEF QueryGoesOn

\* A step of a query leaves what is not the query's.
WriteLeaves ==
    /\ phase = "query" /\ phase' \in {"query", "idle"}
    /\ UNCHANGED <<oldLog, rolled, batch>>
    /\ \A t \in Tables : holes[t] \subseteq holes'[t]
    /\ log' = log \/ \E line \in Lines : Log(line) /\ line.kind # "SavePoint"

LEMMA InsertLeaves == TablesIInv /\ Insert => WriteLeaves
<1> SUFFICES ASSUME TablesIInv, Insert PROVE WriteLeaves
    OBVIOUS
<1>1. CASE \E r \in Rids : \E v \in Inserted[r] : InsertLogs(r, v)
  <2>1. PICK r \in Rids : \E v \in Inserted[r] : InsertLogs(r, v)
        BY <1>1
  <2>2. op.frames # <<>> /\ Log(InsertLine(r)) /\ phase' = phase /\ holes' = holes /\ UnchangedByQueries
    <3>1. PICK v \in Inserted[r] : InsertLogs(r, v)
          BY <2>1
    <3>2. QED
          BY <3>1 DEF InsertLogs, InFrame, store
  <2>3. InsertLine(r) \in Lines /\ InsertLine(r).kind # "SavePoint"
        BY MadeLines, LineKinds
  <2>4. QED
        BY <2>2, <2>3, TheFrames DEF WriteLeaves, UnchangedByQueries
<1>2. CASE InsertThrows
      BY <1>2 DEF InsertThrows, InFrame, Returns, WriteLeaves, UnchangedByQueries
<1>3. CASE InsertOpens \/ InsertNests \/ InsertBuffers \/ InsertCounts \/ InsertFlushes
  <2>1. op.frames # <<>> /\ phase' = phase /\ log' = log /\ holes' = holes /\ UnchangedByQueries
        BY Zenon, <1>3 DEF InsertOpens, InsertNests, InsertBuffers, InsertCounts, InsertFlushes, InFrame, store
  <2>2. QED
        BY Zenon, <2>1, TheFrames DEF WriteLeaves, UnchangedByQueries
<1>4. QED
      BY <1>1, <1>2, <1>3 DEF Insert

LEMMA ScanLeaves ==
    ASSUME TablesIInv, phase = "query", op.kind # "Insert", phase' \in {"query", "idle"}, UnchangedByQueries,
           \/ /\ holes' = holes
              /\ log' = log \/ \E line \in Lines : Log(line) /\ line.kind # "SavePoint"
           \/ /\ log' = log
              /\ \E t \in Tables : \E i \in DOMAIN file[t] : \E held \in RowContents :
                    i \in Positions /\ Overwrites(t, i, held)
    PROVE  WriteLeaves
BY Overwritten DEF WriteLeaves, UnchangedByQueries, TablesIInv

LEMMA ChangesLeave == TablesIInv /\ (Update \/ Delete) => WriteLeaves
<1> SUFFICES ASSUME TablesIInv, Update \/ Delete PROVE WriteLeaves
    OBVIOUS
<1>1. ASSUME NEW i \in Positions, UpdateLogs(i) \/ DeleteLogs(i)
      PROVE  WriteLeaves
  <2>1. /\ phase = "query" /\ op.kind # "Insert" /\ phase' = phase /\ holes' = holes /\ UnchangedByQueries
        /\ Matches(i)
        /\ \/ Log(UpdateLine(file[op.table][i].rid, Held(file[op.table][i])))
           \/ Log(DeleteLine(file[op.table][i].rid, Held(file[op.table][i])))
        BY <1>1 DEF UpdateLogs, DeleteLogs, Scanning, store
  <2>2. file[op.table] \in Seq(Slots) /\ op.at \in Nat
        BY <2>1, TheScan
  <2>3. i \in DOMAIN file[op.table]
        BY <2>1, <2>2 DEF Matches, Positions
  <2>4. file[op.table][i] \in Slots
        BY <2>2, <2>3
  <2>5. file[op.table][i].rid \in Rids /\ Held(file[op.table][i]) \in RowContents
        BY <2>4, SlotParts
  <2>6. \E line \in Lines : Log(line) /\ line.kind # "SavePoint"
        BY <2>1, <2>5, MadeLines, LineKinds
  <2>7. QED
        BY <2>1, <2>6, ScanLeaves
<1>2. ASSUME NEW i \in Positions, OverwriteLogs(i)
      PROVE  WriteLeaves
  <2>1. /\ phase = "query" /\ op.kind = "Update" /\ op.step = "logged" /\ Nested(i)
        /\ phase' = phase /\ holes' = holes /\ UnchangedByQueries
        /\ Log(UpdateLine(RefOf[Row.rid], Held(file[ChildOf[op.table]][i])))
        BY <1>2 DEF OverwriteLogs, Scanning, store
  <2>2. RefOf[Row.rid] \in Rids /\ Held(file[ChildOf[op.table]][i]) \in RowContents
        BY <2>1, TheNested, SlotParts
  <2>3. \E line \in Lines : Log(line) /\ line.kind # "SavePoint"
        BY <2>1, <2>2, MadeLines, LineKinds
  <2>4. QED
        BY <2>1, <2>3, ScanLeaves
<1>3. ASSUME NEW i \in Positions, NEW v \in Contents, OverwriteWrites(i, v)
      PROVE  WriteLeaves
  <2>1. PICK c, held : c = ChildOf[op.table] /\ held = [Held(file[c][i]) EXCEPT !.val = v]
        OBVIOUS
  <2>2. /\ phase = "query" /\ op.kind = "Update" /\ op.step # "next" /\ Nested(i)
        /\ phase' = phase /\ log' = log /\ UnchangedByQueries /\ Overwrites(c, i, held)
        BY <1>3, <2>1 DEF OverwriteWrites, Scanning
  <2>3. c \in Tables /\ i \in DOMAIN file[c] /\ file[c][i] \in Slots
        BY <2>1, <2>2, TheNested
  <2>4. held \in RowContents
        BY <2>1, <2>3 DEF Slots, Held, RowContents
  <2>5. QED
        BY <2>2, <2>3, <2>4, ScanLeaves
<1>4. ASSUME DeleteWrites \/ \E v \in Contents : UpdateWrites(v)
      PROVE  WriteLeaves
  <2>1. /\ phase = "query" /\ op.kind # "Insert" /\ op.step # "next"
        /\ phase' = phase /\ log' = log /\ UnchangedByQueries
        BY <1>4 DEF DeleteWrites, UpdateWrites, Scanning
  <2>2. op.table \in Tables /\ op.at \in Positions /\ op.at \in DOMAIN file[op.table] /\ Row \in Slots
        BY <2>1, TheScan
  <2>3. \A v \in Contents : [Held(Row) EXCEPT !.val = v] \in RowContents
        BY <2>2 DEF Slots, Held, RowContents
  <2>4. [Held(Row) EXCEPT !.del = "1"] \in RowContents
        BY <2>2 DEF Slots, Held, RowContents
  <2>5. \E held \in RowContents : Overwrites(op.table, op.at, held)
        BY <1>4, <2>3, <2>4 DEF DeleteWrites, UpdateWrites
  <2>6. QED
        BY <2>1, <2>2, <2>5, ScanLeaves
<1>5. ASSUME UpdateThrows
      PROVE  WriteLeaves
  <2>1. /\ phase = "query" /\ op.kind # "Insert" /\ phase' = "idle" /\ holes' = holes /\ log' = log
        /\ UnchangedByQueries
        BY <1>5 DEF UpdateThrows, Scanning, Returns, store
  <2>2. QED
        BY <2>1, ScanLeaves
<1>6. QED
      BY <1>1, <1>2, <1>3, <1>4, <1>5 DEF Update, Delete

LEMMA EveryWriteLeaves == TablesIInv /\ Write => WriteLeaves
<1> SUFFICES ASSUME TablesIInv, Write PROVE WriteLeaves
    OBVIOUS
<1>1. CASE QueryCloses
  <2>1. /\ phase = "query" /\ phase' = "idle" /\ holes' = holes /\ Log(CloseLine) /\ UnchangedByQueries
        BY <1>1 DEF QueryCloses, Returns, store
  <2>2. CloseLine \in Lines /\ CloseLine.kind # "SavePoint"
        BY MadeLines DEF CloseLine
  <2>3. QED
        BY <2>1, <2>2 DEF WriteLeaves, UnchangedByQueries
<1>2. CASE ScanThrows
  <2>1. /\ phase = "query" /\ phase' = "idle" /\ holes' = holes /\ log' = log /\ UnchangedByQueries
        BY <1>2 DEF ScanThrows, Returns, store
  <2>2. QED
        BY <2>1 DEF WriteLeaves, UnchangedByQueries
<1>3. QED
      BY <1>1, <1>2, InsertLeaves, ChangesLeave DEF Write

\* Every step of a query goes on.
LEMMA EveryWriteGoesOn ==
    ASSUME TablesIInv, CountsOK, FreshOK, NEW lo \in DOMAIN log, OpenedAt(lo), Write,
           opened' = IF phase' = "query" THEN opened ELSE Nothing
    PROVE  QueryGoesOn(lo)
<1>1. CASE QueryCloses \/ ScanThrows \/ UpdateThrows
      BY <1>1, ReturnsGoOn
<1>2. CASE InsertThrows
      BY <1>2, InsertThrowsGoesOn
<1>3. CASE phase' = phase
  <2>1. opened' = opened
        BY <1>3, EveryWriteLeaves DEF WriteLeaves
  <2>2. ASSUME NEW r \in Rids, NEW v \in Inserted[r], InsertLogs(r, v)
        PROVE  QueryGoesOn(lo)
        BY <2>1, <2>2, InsertLogsGoesOn
  <2>3. CASE Insert
        BY <2>1, <2>2, <2>3, <1>2, InsertOpensGoesOn, InsertNestsGoesOn, InsertBuffersGoesOn,
           InsertCountsGoesOn, InsertFlushesGoesOn DEF Insert
  <2>4. ASSUME NEW i \in Positions, UpdateLogs(i) \/ DeleteLogs(i)
        PROVE  QueryGoesOn(lo)
        BY <2>1, <2>4, MatchLogsGoesOn
  <2>5. ASSUME NEW i \in Positions, OverwriteLogs(i)
        PROVE  QueryGoesOn(lo)
        BY <2>1, <2>5, OverwriteLogsGoesOn
  <2>6. ASSUME NEW i \in Positions, NEW v \in Contents, OverwriteWrites(i, v)
        PROVE  QueryGoesOn(lo)
        BY <2>1, <2>6, OverwriteWritesGoesOn
  <2>7. ASSUME DeleteWrites \/ \E v \in Contents : UpdateWrites(v)
        PROVE  QueryGoesOn(lo)
        BY <2>1, <2>7, MatchWritesGoesOn
  <2>8. CASE Update \/ Delete
        BY <1>1, <2>4, <2>5, <2>6, <2>7, <2>8 DEF Update, Delete
  <2>9. QED
        BY <1>1, <2>3, <2>8 DEF Write
<1>4. CASE phase' # phase
  <2>1. CASE Insert
    <3>1. InsertOpens \/ InsertNests \/ (\E r \in Rids : \E v \in Inserted[r] : InsertLogs(r, v))
             \/ InsertBuffers \/ InsertCounts \/ InsertFlushes => phase' = phase
          BY Zenon DEF InsertOpens, InsertNests, InsertLogs, InsertBuffers, InsertCounts, InsertFlushes
    <3>2. QED
          BY Zenon, <1>2, <1>4, <2>1, <3>1 DEF Insert
  <2>2. CASE Update \/ Delete
    <3>1. \A i \in Positions : UpdateLogs(i) \/ OverwriteLogs(i) \/ DeleteLogs(i) => phase' = phase
          BY DEF UpdateLogs, OverwriteLogs, DeleteLogs
    <3>2. \A i \in Positions, v \in Contents : OverwriteWrites(i, v) => phase' = phase
          BY DEF OverwriteWrites
    <3>3. DeleteWrites \/ (\E v \in Contents : UpdateWrites(v)) => phase' = phase
          BY DEF DeleteWrites, UpdateWrites
    <3>4. QED
          BY <1>1, <1>4, <2>2, <3>1, <3>2, <3>3 DEF Update, Delete
  <2>3. QED
        BY <1>1, <2>1, <2>2 DEF Write
<1>5. QED
      BY <1>3, <1>4

\* A line that log_diff has passed over stays so when the log grows.
LEMMA StraysOn ==
    ASSUME log \in Seq(Lines), \A j \in DOMAIN log : j \in DOMAIN log' /\ log'[j] = log[j],
           \A u \in Tables : holes[u] \subseteq holes'[u], NEW s, NEW t
    PROVE  /\ PassedOver(s, t) => PassedOver(s, t)'
           /\ LeftBehind(t) => LeftBehind(t)'
           /\ GoesAstray(s, t) => GoesAstray(s, t)'
<1>1. ASSUME NEW lo, PassedOver(lo, t)
      PROVE  PassedOver(lo, t)'
  <2>1. PICK i \in DOMAIN log, j \in DOMAIN log :
           /\ lo < i /\ i < j /\ IsChange(log[i]) /\ IsChange(log[j])
           /\ \A k \in i + 1 .. j - 1 : ~IsChange(log[k])
           /\ TableOf[log[j].rid] = t
           /\ log[i].kind = log[j].kind /\ NamesDiffer[<<t, TableOf[log[i].rid]>>]
        BY <1>1 DEF PassedOver
  <2>2. \A k \in i + 1 .. j - 1 : k \in DOMAIN log
        OBVIOUS
  <2>3. /\ i \in DOMAIN log' /\ j \in DOMAIN log' /\ log'[i] = log[i] /\ log'[j] = log[j]
        /\ \A k \in i + 1 .. j - 1 : log'[k] = log[k]
        BY <2>2
  <2>4. QED
        BY <2>1, <2>3 DEF PassedOver
<1>2. LeftBehind(t) => LeftBehind(t)'
      BY <1>1 DEF LeftBehind
<1>3. QED
      BY <1>1, <1>2 DEF GoesAstray

LEMMA StraysBelow ==
    ASSUME log \in Seq(Lines), NEW lo \in Nat, NEW s \in Nat, s <= lo, NEW t
    PROVE  /\ PassedOver(lo, t) => PassedOver(s, t)
           /\ GoesAstray(lo, t) => GoesAstray(s, t)
<1>1. \A i \in DOMAIN log : lo < i => s < i
      OBVIOUS
<1>2. PassedOver(lo, t) => PassedOver(s, t)
      BY <1>1 DEF PassedOver
<1>3. QED
      BY <1>2 DEF GoesAstray

\* What was shown at a savepoint can be brought back after a step as before.
LEMMA KeepsOn ==
    ASSUME SavedOK, phase # "down", saved' = saved, log \in Seq(Lines),
           \A j \in DOMAIN log : j \in DOMAIN log' /\ log'[j] = log[j], NEW h \in Hashes, NEW s \in DOMAIN log, Usable(h, s),
           NEW lo \in Nat, s \in Nat, s <= lo, StepBack(lo),
           \A t \in Tables : holes[t] \subseteq holes'[t],
           \A t \in Tables : Missing(t) => Missing(t)'
    PROVE  Keeps(s, Len(log), h)'
<1>1. Keeps(s, Len(log), h)
      BY DEF SavedOK
<1>2. s \in 0 .. lo
      OBVIOUS
<1>3. ASSUME NEW t \in Tables, holes'[t] = {}, ~GoesAstray(s, t)', saved'[h][t] # {Unreadable}
      PROVE  Missing(t)' \/ Back(log', s, Len(log'), file'[t], saved'[h][t])
  <2>1. holes[t] = {} /\ ~GoesAstray(s, t) /\ saved[h][t] # {Unreadable}
        BY <1>3, StraysOn
  <2>2. Missing(t) \/ Back(log, s, Len(log), file[t], saved[h][t])
        BY <1>1, <2>1 DEF Keeps
  <2>3. QED
        BY <1>2, <1>3, <2>2 DEF StepBack
<1>4. QED
      BY <1>3 DEF Keeps

\* A step that changes nothing of this leaves it so.
LEMMA KeepsStays ==
    ASSUME NEW s, NEW at, NEW h, Keeps(s, at, h), UNCHANGED <<holes, count, log, op, saved>>,
           \A t \in Tables : holes[t] = {} => file'[t] = file[t]
    PROVE  Keeps(s, at, h)'
<1>1. \A t \in Tables : GoesAstray(s, t)' <=> GoesAstray(s, t)
      BY DEF GoesAstray, PassedOver, LeftBehind
<1>2. QED
      BY <1>1 DEF Keeps, Missing, FrameOf, Uncounted

LEMMA SavedStays ==
    ASSUME SavedOK, phase # "down", UNCHANGED <<holes, count, log, op, saved>>, rolled \subseteq rolled',
           \A t \in Tables : holes[t] = {} => file'[t] = file[t]
    PROVE  SavedOK'
<1>1. saved' \in [Hashes -> [Tables -> {None} \cup SUBSET (Slots \cup {Unreadable})]]
      BY DEF SavedOK
<1>2. ASSUME NEW h \in Hashes, NEW s \in DOMAIN log', Usable(h, s)'
      PROVE  Keeps(s, Len(log), h)'
  <2>1. s \in DOMAIN log /\ Usable(h, s)
        BY <1>2 DEF Usable
  <2>2. Keeps(s, Len(log), h)
        BY <2>1 DEF SavedOK
  <2>3. PICK at : at = Len(log)
        OBVIOUS
  <2>4. Keeps(s, at, h)'
        BY <2>2, <2>3, KeepsStays
  <2>5. Len(log') = at
        BY <2>3
  <2>6. QED
        BY <2>4, <2>5
<1>3. QED
      BY <1>1, <1>2 DEF SavedOK

\* What waits in the batches goes on waiting.
LEMMA WaitingStays ==
    ASSUME TypeOK, StaleOK, phase # "recover", phase' # "recover",
           phase = "rollback" => phase' = "rollback" /\ job'.target = job.target,
           \A r \in Waiting' : r \in Waiting,
           \A j \in DOMAIN log : j \in DOMAIN log' /\ log'[j] = log[j],
           \A t \in Tables : holes[t] \subseteq holes'[t]
    PROVE  StaleOK'
<1>1. ASSUME NEW r \in Waiting'
      PROVE  MayWait(TableOf[r])'
  <2>1. r \in Waiting
        BY <1>1
  <2>2. r \in Rids
        BY <2>1 DEF Waiting, TypeOK, Batches
  <2>3. PICK t \in Tables : t = TableOf[r]
        BY <2>2, TableWalAssumption
  <2>4. MayWait(t)
        BY <2>1, <2>3 DEF StaleOK
  <2>5. MayWait(t)'
    <3>1. log \in Seq(Lines)
          BY DEF TypeOK
    <3>2. CASE holes[t] # {}
          BY <3>2 DEF MayWait
    <3>3. CASE LeftBehind(t)
          BY <3>1, <3>3, StraysOn DEF MayWait
    <3>4. CASE phase = "rollback" /\ PassedOver(job.target, t)
      <4>1. PICK lo : lo = job.target
            OBVIOUS
      <4>2. PassedOver(lo, t)'
            BY <3>1, <3>4, <4>1, StraysOn
      <4>3. job'.target = lo /\ phase' = "rollback"
            BY <3>4, <4>1
      <4>4. PassedOver(job.target, t)'
            BY <4>2, <4>3 DEF PassedOver
      <4>5. QED
            BY <4>3, <4>4 DEF MayWait
    <3>5. QED
          BY <2>4, <3>2, <3>3, <3>4 DEF MayWait
  <2>6. QED
        BY <2>3, <2>5
<1>2. QED
      BY <1>1 DEF StaleOK

LEMMA OwnStays ==
    ASSUME OwnOK, opened' = opened \/ opened' = Nothing, owed' = owed
    PROVE  OwnOK'
BY DEF OwnOK, Own, Nothing

LEMMA WriteRestores ==
    ASSUME TablesIInv, RestoreInv, Write, UNCHANGED <<saved, owed>>,
           opened' = IF phase' = "query" THEN opened ELSE Nothing
    PROVE  RestoreInv'
<1>1. /\ phase = "query" /\ phase' \in {"query", "idle"}
      /\ UNCHANGED <<oldLog, rolled, batch>>
      /\ \A t \in Tables : holes[t] \subseteq holes'[t]
      /\ log' = log \/ \E line \in Lines : Log(line) /\ line.kind # "SavePoint"
      BY EveryWriteLeaves DEF WriteLeaves
<1>2. TypeOK /\ CountsOK /\ FreshOK /\ OwnOK
      BY DEF TablesIInv, RestoreInv
<1>3. PICK lo \in DOMAIN log : OpenedAt(lo)
      BY <1>1 DEF RestoreInv, QueryOK
<1>4. QueryGoesOn(lo)
      BY <1>2, <1>3, EveryWriteGoesOn
<1>5. CountsOK' /\ FreshOK' /\ StepBack(lo) /\ (\A t \in Tables : Missing(t) => Missing(t)')
      BY <1>4 DEF QueryGoesOn
<1>6. QueryOK'
  <2>1. ASSUME phase' = "query"
        PROVE  lo \in DOMAIN log' /\ OpenedAt(lo)'
        BY <1>4, <2>1 DEF QueryGoesOn, OpenedAt, LinesAbove
  <2>2. QED
        BY <2>1 DEF QueryOK
<1>7. DownOK' /\ RecoverOK' /\ RollbackOK'
      BY <1>1 DEF DownOK, RecoverOK, RollbackOK
<1>8. OwnOK'
      BY <1>2, OwnStays
<1>9. StaleOK' /\ SavedOK'
  <2>1. StaleOK /\ SavedOK
        BY DEF RestoreInv
  <2>2. \A r \in Waiting' : r \in Waiting
        BY <1>1 DEF Waiting
  <2>3. StaleOK' /\ log \in Seq(Lines) /\ \A j \in DOMAIN log : j \in DOMAIN log' /\ log'[j] = log[j]
    <3>1. log \in Seq(Lines)
          BY <1>2 DEF TypeOK
    <3>2. \A j \in DOMAIN log : j \in DOMAIN log' /\ log'[j] = log[j]
          BY <1>1, <3>1, Logged
    <3>3. phase # "recover" /\ phase' # "recover" /\ phase # "rollback"
          BY <1>1
    <3>4. QED
          BY <1>1, <1>2, <2>1, <2>2, <3>1, <3>2, <3>3, WaitingStays
  <2>4. ASSUME NEW h \in Hashes, NEW s \in DOMAIN log', Usable(h, s)'
        PROVE  Keeps(s, Len(log), h)'
    <3>1. s \in DOMAIN log /\ Usable(h, s)
      <4>1. CASE log' = log
            BY <1>1, <2>4, <4>1 DEF Usable
      <4>2. CASE \E line \in Lines : Log(line) /\ line.kind # "SavePoint"
        <5>1. PICK line \in Lines : Log(line) /\ line.kind # "SavePoint"
              BY <4>2
        <5>2. /\ log'[Len(log')] = line
              /\ \A j \in DOMAIN log : j \in DOMAIN log' /\ log'[j] = log[j]
              /\ \A j \in DOMAIN log' : j \in DOMAIN log \/ j = Len(log')
              BY <1>2, <5>1, Logged DEF TypeOK
        <5>3. /\ h \notin rolled /\ log'[s] = SavePointLine(h)
              /\ \A j \in DOMAIN log' : j > s => log'[j] # SavePointLine(h)
              BY <1>1, <2>4 DEF Usable, IsLastSave
        <5>4. line # SavePointLine(h)
              BY <5>1 DEF SavePointLine
        <5>5. s \in DOMAIN log
              BY <5>2, <5>3, <5>4
        <5>6. QED
              BY <5>2, <5>3, <5>5 DEF Usable, IsLastSave
      <4>3. QED
            BY <1>1, <4>1, <4>2
    <3>2. lo \in Nat /\ s \in Nat
          BY <1>2, <3>1 DEF TypeOK
    <3>3. s <= lo
      <4>1. log[s] = SavePointLine(h)
            BY <3>1 DEF Usable, IsLastSave
      <4>2. ~IsChange(log[s])
            BY <4>1, LineKinds
      <4>3. QED
            BY <1>3, <3>1, <3>2, <4>2 DEF OpenedAt, LinesAbove
    <3>4. phase # "down" /\ saved' = saved
          BY <1>1
    <3>5. QED
          BY <1>1, <1>5, <2>1, <2>3, <3>1, <3>2, <3>3, <3>4, KeepsOn
  <2>5. saved' \in [Hashes -> [Tables -> {None} \cup SUBSET (Slots \cup {Unreadable})]]
        BY <2>1 DEF SavedOK
  <2>6. QED
        BY <2>3, <2>4, <2>5 DEF SavedOK
<1>10. QED
       BY <1>5, <1>6, <1>7, <1>8, <1>9 DEF RestoreInv

\* A sound table shows its live rows.
LEMMA SoundShows ==
    ASSUME NEW t \in Tables, file[t] \in Seq(Slots), Sound(t)
    PROVE  Shown(t) = Live(file[t])
BY DEF Sound, Shown, Whole, Reads, Live

\* While no query is under way, the rows of a table are missing in its count.
LEMMA IdleMissing ==
    ASSUME op = NoOp, NEW t
    PROVE  Missing(t) <=> count[t] < Len(file[t])
<1>1. op.frames = <<>>
      BY DEF NoOp
<1>2. DOMAIN op.frames = {}
      BY <1>1
<1>3. QED
      BY <1>2 DEF Missing, FrameOf

\* A line that is not a change is logged, and what was shown before is kept.
LEMMA QuietLine ==
    ASSUME TablesIInv, SavedOK, phase = "idle", NEW line \in Lines, Log(line), ~IsChange(line),
           UNCHANGED <<file, holes, rolled>>, \A t \in Tables : Missing(t) => Missing(t)',
           NEW h \in Hashes, NEW s \in DOMAIN log', Usable(h, s)', line # SavePointLine(h),
           saved'[h] = saved[h]
    PROVE  Keeps(s, Len(log), h)'
<1>1. TypeOK
      BY DEF TablesIInv
<1>2. /\ Len(log) \in Nat /\ DOMAIN log = 1 .. Len(log)
      /\ log'[Len(log')] = line
      /\ \A j \in DOMAIN log : j \in DOMAIN log' /\ log'[j] = log[j]
      /\ \A j \in DOMAIN log' : j \in DOMAIN log \/ j = Len(log')
      BY <1>1, Logged DEF TypeOK
<1>3. /\ h \notin rolled /\ log'[s] = SavePointLine(h)
      /\ \A j \in DOMAIN log' : j > s => log'[j] # SavePointLine(h)
      BY DEF Usable, IsLastSave
<1>4. s \in DOMAIN log
      BY <1>2, <1>3
<1>5. Usable(h, s)
      BY <1>2, <1>3, <1>4 DEF Usable, IsLastSave
<1>6. PICK lo : lo = Len(log)
      OBVIOUS
<1>7. lo \in Nat /\ lo \in DOMAIN log /\ s \in Nat /\ s <= lo
      BY <1>2, <1>4, <1>6
<1>8. \A t \in Tables : \A i \in DOMAIN file[t] : ~Touches(line, file[t][i].rid)
      BY DEF Touches
<1>9. file' = file
      OBVIOUS
<1>10. StepBack(lo)
       BY <1>1, <1>7, <1>8, <1>9, LogBack
<1>11. Keeps(s, Len(log), h)
       BY <1>4, <1>5 DEF SavedOK
<1>12. ASSUME NEW t \in Tables, holes'[t] = {}, ~GoesAstray(s, t)', saved'[h][t] # {Unreadable}
       PROVE  Missing(t)' \/ Back(log', s, Len(log'), file'[t], saved'[h][t])
  <2>1. holes[t] = {} /\ ~GoesAstray(s, t) /\ saved[h][t] # {Unreadable}
    <3>1. log \in Seq(Lines) /\ \A u \in Tables : holes[u] \subseteq holes'[u]
          BY <1>1 DEF TypeOK
    <3>2. QED
          BY <1>2, <1>12, <3>1, StraysOn
  <2>2. Missing(t) \/ Back(log, s, Len(log), file[t], saved[h][t])
        BY <1>11, <2>1 DEF Keeps
  <2>3. s \in 0 .. lo
        BY <1>7
  <2>4. QED
        BY <1>10, <1>12, <2>2, <2>3 DEF StepBack
<1>13. QED
       BY <1>12 DEF Keeps

LEMMA SavePointRestores ==
    ASSUME TablesIInv, RestoreInv, NEW h \in Hashes, SavePoint(h),
           saved' = [saved EXCEPT ![h] = AllShown], UNCHANGED <<opened, owed>>
    PROVE  RestoreInv'
<1>1. /\ phase = "idle" /\ phase' = "idle" /\ Log(SavePointLine(h))
      /\ UNCHANGED <<file, holes, count, oldLog, rolled, batch, op, job, used>>
      BY DEF SavePoint, store
<1>2. TypeOK /\ CountsOK /\ FreshOK /\ OwnOK /\ LogsOK /\ op = NoOp
      BY <1>1 DEF TablesIInv, RestoreInv, OpOK
<1>3. PICK line : line = SavePointLine(h)
      OBVIOUS
<1>4. line \in Lines /\ ~IsChange(line) /\ line.kind # "Insert" /\ Log(line)
      BY <1>1, <1>3, MadeLines, LineKinds DEF SavePointLine
<1>5. FreshOK'
      BY <1>2, <1>4, FreshGrows
<1>6. CountsOK'
      BY <1>1, <1>2 DEF CountsOK, CountOK
<1>7. QueryOK' /\ DownOK' /\ RecoverOK' /\ RollbackOK'
      BY <1>1 DEF QueryOK, DownOK, RecoverOK, RollbackOK
<1>8. OwnOK'
      BY <1>2, OwnStays
<1>9. \A t \in Tables : Missing(t) => Missing(t)'
      BY <1>1 DEF Missing, FrameOf, Uncounted
<1>10. /\ log' \in Seq(Lines) /\ Len(log') \in Nat /\ DOMAIN log' = 1 .. Len(log')
       /\ log'[Len(log')] = line /\ \A j \in DOMAIN log' : j <= Len(log')
       BY <1>2, <1>4, Logged DEF TypeOK
<1>11. ASSUME NEW t \in Tables
       PROVE  /\ Shown(t) \in SUBSET (Slots \cup {Unreadable})
              /\ holes[t] = {} /\ Shown(t) # {Unreadable} =>
                    Missing(t) \/ Back(log', Len(log'), Len(log'), file[t], Shown(t))
  <2>1. file[t] \in Seq(Slots) /\ count[t] \in Nat /\ Len(file[t]) \in Nat
        BY <1>2 DEF TypeOK
  <2>2. DOMAIN file[t] = 1 .. Len(file[t]) /\ \A i \in DOMAIN file[t] : file[t][i] \in Slots
        BY <2>1
  <2>3. Shown(t) \in SUBSET (Slots \cup {Unreadable})
        BY <2>2 DEF Shown, Whole, Reads
  <2>4. ASSUME holes[t] = {}, Shown(t) # {Unreadable}, ~Missing(t)
        PROVE  Back(log', Len(log'), Len(log'), file[t], Shown(t))
    <3>1. Whole(t)
          BY <2>4 DEF Shown
    <3>2. ~(count[t] < Len(file[t]))
          BY <1>2, <2>4, IdleMissing
    <3>3. count[t] = Len(file[t])
          BY <2>1, <2>2, <3>1, <3>2 DEF Whole, Reads
    <3>4. Sound(t)
          BY <2>4, <3>3 DEF Sound
    <3>5. Shown(t) = Live(file[t])
          BY <2>1, <3>4, SoundShows
    <3>6. \A j \in DOMAIN log' : Len(log') < j => ~IsChange(log'[j])
          BY <1>10
    <3>7. QED
          BY <1>10, <2>1, <3>5, <3>6, BackFresh
  <2>5. QED
        BY <2>3, <2>4
<1>12. StaleOK' /\ SavedOK'
  <2>1. StaleOK /\ SavedOK
        BY DEF RestoreInv
  <2>2. \A r \in Waiting' : r \in Waiting
        BY <1>1 DEF Waiting
  <2>3. StaleOK'
    <3>1. \A j \in DOMAIN log : j \in DOMAIN log' /\ log'[j] = log[j]
          BY <1>2, <1>4, Logged DEF TypeOK
    <3>2. phase # "recover" /\ phase' # "recover" /\ phase # "rollback"
          BY <1>1
    <3>3. QED
          BY <1>1, <1>2, <2>1, <2>2, <3>1, <3>2, WaitingStays
  <2>4. saved \in [Hashes -> [Tables -> {None} \cup SUBSET (Slots \cup {Unreadable})]]
        BY <2>1 DEF SavedOK
  <2>5. AllShown \in [Tables -> {None} \cup SUBSET (Slots \cup {Unreadable})]
        BY <1>11 DEF AllShown
  <2>6. /\ saved' \in [Hashes -> [Tables -> {None} \cup SUBSET (Slots \cup {Unreadable})]]
        /\ saved'[h] = AllShown /\ \A g \in Hashes : g # h => saved'[g] = saved[g]
        BY <2>4, <2>5
  <2>7. ASSUME NEW g \in Hashes, NEW s \in DOMAIN log', Usable(g, s)'
        PROVE  Keeps(s, Len(log), g)'
    <3>1. CASE g # h
      <4>1. line # SavePointLine(g) /\ saved'[g] = saved[g]
            BY <1>3, <2>6, <3>1 DEF SavePointLine
      <4>2. UNCHANGED <<file, holes, rolled>>
            BY <1>1
      <4>3. QED
            BY <1>1, <1>4, <1>9, <2>1, <2>7, <4>1, <4>2, QuietLine
    <3>2. CASE g = h
      <4>1. s = Len(log')
            BY <1>3, <1>10, <2>7, <3>2 DEF Usable, IsLastSave
      <4>2. ASSUME NEW t \in Tables, holes'[t] = {}, saved'[g][t] # {Unreadable}
            PROVE  Missing(t)' \/ Back(log', s, Len(log'), file'[t], saved'[g][t])
        <5>1. saved'[g][t] = Shown(t)
              BY <2>6, <3>2 DEF AllShown
        <5>2. holes[t] = {} /\ file'[t] = file[t]
              BY <1>1, <4>2
        <5>3. QED
              BY <1>9, <1>11, <4>1, <4>2, <5>1, <5>2
      <4>3. QED
            BY <4>2 DEF Keeps
    <3>3. QED
          BY <3>1, <3>2
  <2>8. QED
        BY <2>3, <2>6, <2>7 DEF SavedOK
<1>13. QED
       BY <1>5, <1>6, <1>7, <1>8, <1>12 DEF RestoreInv

LEMMA BeginRestores ==
    ASSUME TablesIInv, RestoreInv, NEW kind \in Kinds, NEW t \in Tables, BeginQuery(kind, t),
           opened' = [u \in Tables |-> IF Sound(u) THEN Shown(u) ELSE None], UNCHANGED <<saved, owed>>
    PROVE  RestoreInv'
<1>1. /\ phase = "idle" /\ phase' = "query" /\ Log(OpenLine)
      /\ op' = [NoOp EXCEPT !.kind = kind, !.table = t,
                            !.frames = IF kind = "Insert" THEN <<Frame(t)>> ELSE <<>>,
                            !.entries = count[t], !.holes = holes[t]]
      /\ UNCHANGED <<file, holes, count, oldLog, rolled, batch, job, used>>
      BY DEF BeginQuery, UnchangedByQueries, store
<1>2. TypeOK /\ CountsOK /\ FreshOK /\ OwnOK /\ LogsOK /\ FilesOK /\ op = NoOp
      BY <1>1 DEF TablesIInv, RestoreInv, OpOK
<1>3. PICK line : line = OpenLine
      OBVIOUS
<1>4. line \in Lines /\ ~IsChange(line) /\ line.kind # "Insert" /\ Log(line)
      BY <1>1, <1>3, MadeLines, LineKinds DEF OpenLine
<1>5. FreshOK'
      BY <1>2, <1>4, FreshGrows
<1>6. op'.kind = kind /\ op'.table = t /\ op'.step = "next" /\ op'.at = 0
      BY <1>1 DEF NoOp
<1>7. PICK fs : fs = op'.frames
      OBVIOUS
<1>8. fs = IF kind = "Insert" THEN <<Frame(t)>> ELSE <<>>
      BY <1>1, <1>7 DEF NoOp
<1>9. Len(fs) # 2 /\ \A k \in DOMAIN fs : fs[k] = Frame(t)
      BY <1>8
<1>10. Frame(t).step = "open" /\ Frame(t).buffer = <<>> /\ Frame(t).row = None /\ Frame(t).table = t
       BY DEF Frame
<1>11. CountsOK'
  <2>1. ASSUME NEW k \in DOMAIN fs
        PROVE  CountOK(fs[k])'
        BY <1>9, <1>10 DEF CountOK
  <2>2. QED
        BY <1>7, <1>9, <2>1 DEF CountsOK
<1>12. \A u \in Tables : Missing(u) => Missing(u)'
  <2>1. ASSUME NEW u \in Tables, NEW k
        PROVE  ~FrameOf(k, u)'
        BY <1>7, <1>9, <1>10 DEF FrameOf
  <2>2. ASSUME NEW u \in Tables, Missing(u)
        PROVE  Missing(u)'
    <3>1. count'[u] < Len(file'[u])
          BY <1>1, <1>2, <2>2, IdleMissing
    <3>2. QED
          BY <2>1, <3>1 DEF Missing
  <2>3. QED
        BY <2>2
<1>13. /\ log' \in Seq(Lines) /\ Len(log') \in Nat /\ DOMAIN log' = 1 .. Len(log')
       /\ Len(log') \in DOMAIN log'
       /\ log'[Len(log')] = line /\ \A j \in DOMAIN log' : j <= Len(log')
       BY <1>2, <1>4, Logged DEF TypeOK
<1>14. PICK lo : lo = Len(log')
       OBVIOUS
<1>15. lo \in DOMAIN log' /\ lo \in Nat /\ log'[lo] = OpenLine /\ \A j \in DOMAIN log' : ~(lo < j)
       BY <1>3, <1>13, <1>14
<1>16. OpenedAt(lo)'
  <2>1. LinesAbove(lo)'
        BY <1>15 DEF LinesAbove
  <2>2. ScanAbove(lo)'
        BY <1>6 DEF ScanAbove
  <2>3. FramesAbove(lo)'
    <3>1. ASSUME NEW k \in DOMAIN fs
          PROVE  FrameAbove(lo, fs[k])'
          BY <1>9, <1>10 DEF FrameAbove
    <3>2. QED
          BY <1>7, <3>1 DEF FramesAbove
  <2>4. OneTable(lo)'
    <3>1. Stretch(log, lo, op.table, op.kind)'
          BY <1>15 DEF Stretch
    <3>2. \A k \in DOMAIN fs : fs[k].table = op'.table
          BY <1>6, <1>9, <1>10
    <3>3. QED
          BY <1>7, <1>15, <3>1, <3>2 DEF OneTable
  <2>5. ASSUME NEW u \in Tables, opened'[u] # None
        PROVE  /\ Back(log', lo, Len(log'), file'[u], opened'[u])
               /\ CountAhead(log, lo, u)' /\ Counted(lo, u)'
    <3>1. Sound(u) /\ opened'[u] = Shown(u)
          BY <2>5
    <3>2. file[u] \in Seq(Slots) /\ file'[u] = file[u] /\ count'[u] = count[u] /\ count[u] \in Nat
          BY <1>1, <1>2 DEF TypeOK
    <3>3. opened'[u] = Live(file[u])
          BY <3>1, <3>2, SoundShows
    <3>4. \A j \in DOMAIN log' : lo < j => ~IsChange(log'[j])
          BY <1>15
    <3>5. Back(log', lo, Len(log'), file[u], Live(file[u]))
          BY <1>13, <1>15, <3>2, <3>4, BackFresh
    <3>6. count'[u] = Len(file'[u]) /\ \A i \in DOMAIN file'[u] : i <= count'[u]
          BY <3>1, <3>2 DEF Sound
    <3>7. CountAhead(log, lo, u)' /\ Counted(lo, u)'
          BY <3>2, <3>6 DEF CountAhead, Counted
    <3>8. QED
          BY <3>2, <3>3, <3>5, <3>7
  <2>6. OpenedBack(lo)'
        BY <2>5 DEF OpenedBack
  <2>7. QED
        BY <2>1, <2>2, <2>3, <2>4, <2>6 DEF OpenedAt
<1>17. QueryOK'
       BY <1>15, <1>16 DEF QueryOK
<1>18. DownOK' /\ RecoverOK' /\ RollbackOK'
       BY <1>1 DEF DownOK, RecoverOK, RollbackOK
<1>19. OwnOK'
  <2>1. ASSUME NEW u \in Tables
        PROVE  Own(opened[u], u)'
    <3>1. CASE Sound(u)
      <4>1. file[u] \in Seq(Slots)
            BY <1>2 DEF TypeOK
      <4>2. opened'[u] = Live(file[u])
            BY <3>1, <4>1, SoundShows
      <4>3. \A i \in DOMAIN file[u] : file[u][i] \in Slots /\ TableOf[file[u][i].rid] = u
            BY <1>2, <4>1 DEF FilesOK
      <4>4. QED
            BY <4>2, <4>3 DEF Own, Live
    <3>2. CASE ~Sound(u)
          BY <3>2 DEF Own
    <3>3. QED
          BY <3>1, <3>2
  <2>2. QED
        BY <1>2, <2>1 DEF OwnOK, Own
<1>20. StaleOK' /\ SavedOK'
  <2>1. StaleOK /\ SavedOK
        BY DEF RestoreInv
  <2>2. \A r \in Waiting' : r \in Waiting
        BY <1>1 DEF Waiting
  <2>3. StaleOK'
    <3>1. \A j \in DOMAIN log : j \in DOMAIN log' /\ log'[j] = log[j]
          BY <1>2, <1>4, Logged DEF TypeOK
    <3>2. phase # "recover" /\ phase' # "recover" /\ phase # "rollback"
          BY <1>1
    <3>3. QED
          BY <1>1, <1>2, <2>1, <2>2, <3>1, <3>2, WaitingStays
  <2>4. saved' \in [Hashes -> [Tables -> {None} \cup SUBSET (Slots \cup {Unreadable})]]
        BY <2>1 DEF SavedOK
  <2>5. UNCHANGED <<file, holes, rolled>>
        BY <1>1
  <2>6. ASSUME NEW h \in Hashes, NEW s \in DOMAIN log', Usable(h, s)'
        PROVE  Keeps(s, Len(log), h)'
    <3>1. line # SavePointLine(h) /\ saved'[h] = saved[h]
          BY <1>3, LineKinds
    <3>2. QED
          BY <1>1, <1>4, <1>12, <2>1, <2>5, <2>6, <3>1, QuietLine
  <2>7. QED
        BY <2>3, <2>4, <2>6 DEF SavedOK
<1>21. QED
       BY <1>5, <1>11, <1>17, <1>18, <1>19, <1>20 DEF RestoreInv

LEMMA RollbackBegins ==
    ASSUME TablesIInv, RestoreInv, NEW h \in Hashes, RollbackTo(h), UNCHANGED <<saved, opened, owed>>
    PROVE  RestoreInv'
<1>1. PICK t \in 0 .. Len(log) :
         /\ RollbackTarget(log, h, t)
         /\ rolled' = rolled \cup PassedHashes(log, h, t)
         /\ job' = [hash |-> h, target |-> t, at |-> Len(log), again |-> TwoChanges(log, t)]
      BY DEF RollbackTo
<1>2. /\ phase = "idle" /\ phase' = "rollback" /\ h \notin rolled
      /\ UNCHANGED <<file, holes, count, log, oldLog, batch, op, used>>
      BY DEF RollbackTo, store
<1>3. TypeOK /\ CountsOK /\ FreshOK /\ OwnOK
      BY DEF TablesIInv, RestoreInv
<1>4. CountsOK' /\ FreshOK'
      BY <1>2, <1>3 DEF CountsOK, CountOK, FreshOK
<1>5. QueryOK' /\ DownOK' /\ RecoverOK'
      BY <1>2 DEF QueryOK, DownOK, RecoverOK
<1>6. OwnOK'
      BY <1>3, OwnStays
<1>7. StaleOK' /\ SavedOK' /\ RollbackOK'
  <2>1. StaleOK /\ SavedOK
        BY DEF RestoreInv
  <2>2. \A r \in Waiting' : r \in Waiting
        BY <1>2 DEF Waiting
  <2>3. StaleOK'
    <3>1. phase # "recover" /\ phase' # "recover" /\ phase # "rollback"
          BY <1>2
    <3>2. QED
          BY <1>2, <1>3, <2>1, <2>2, <3>1, WaitingStays
  <2>4. UNCHANGED <<file, holes, count, log, op, saved>> /\ rolled \subseteq rolled'
        BY <1>1, <1>2
  <2>5. SavedOK'
        BY <1>2, <2>1, <2>4, SavedStays
  <2>6. job'.target = t /\ job'.at = Len(log) /\ job'.hash = h
        BY <1>1
  <2>7. ASSUME NEW g \in Hashes, NEW s \in DOMAIN log', Usable(g, s)'
        PROVE  s <= job'.target
    <3>1. s \in DOMAIN log /\ log[s] = SavePointLine(g) /\ g \notin PassedHashes(log, h, t)
          BY <1>1, <1>2, <2>7 DEF Usable, IsLastSave
    <3>2. s \in Nat /\ s <= Len(log) /\ t \in Nat
          BY <1>1, <1>3, <3>1 DEF TypeOK
    <3>3. CASE IsLastSave(log, t, h)
          BY <2>6, <3>1, <3>2, <3>3 DEF PassedHashes
    <3>4. CASE ~IsLastSave(log, t, h)
          BY <1>1, <2>6, <3>2, <3>4 DEF RollbackTarget
    <3>5. QED
          BY <3>3, <3>4
  <2>8. ASSUME job'.target # 0, log'[job'.target] = SavePointLine(job'.hash)
        PROVE  Keeps(job.target, job.at, job.hash)'
    <3>1. t \in DOMAIN log /\ log[t] = SavePointLine(h)
          BY <1>1, <1>2, <1>3, <2>6, <2>8 DEF TypeOK
    <3>2. IsLastSave(log, t, h)
          BY <1>1, <3>1 DEF RollbackTarget
    <3>3. Usable(h, t)
          BY <1>2, <3>2 DEF Usable
    <3>4. PICK at : at = Len(log)
          OBVIOUS
    <3>5. Keeps(t, at, h)
          BY <1>2, <2>1, <3>1, <3>3, <3>4 DEF SavedOK
    <3>6. UNCHANGED <<file, holes, count, log, op, saved>>
          BY <1>2
    <3>7. Keeps(t, at, h)'
          BY <3>5, <3>6, KeepsStays
    <3>8. \A u \in Tables : GoesAstray(job.target, u)' <=> GoesAstray(t, u)'
          BY <2>6 DEF GoesAstray, PassedOver
    <3>9. QED
          BY <2>6, <3>4, <3>7, <3>8 DEF Keeps
  <2>9. RollbackOK'
        BY <2>7, <2>8 DEF RollbackOK
  <2>10. QED
         BY <2>3, <2>5, <2>9
<1>8. QED
      BY <1>4, <1>5, <1>6, <1>7 DEF RestoreInv

\* Stopping, whatever is owed then.
LEMMA StopRestores ==
    ASSUME TablesIInv, RestoreInv, Stop, saved' = saved, OwnOK',
           NEW left, owed' = left, left # Nothing =>
              \E lo \in 0 .. Len(log), q \in Tables, kind \in Kinds :
                 /\ RecoveryTarget(log, lo) /\ Stretch(log, lo, q, kind)
                 /\ \A t \in Tables : left[t] # None /\ holes'[t] = {} =>
                       file'[t] = file[t] /\ Owing(log, lo, t, left[t])
    PROVE  RestoreInv'
<1>1. /\ phase' = "down" /\ batch' = NoBatch /\ op' = NoOp
      /\ UNCHANGED <<count, log, oldLog, rolled, used>>
      BY DEF Stop
<1>2. CountsOK'
      BY <1>1 DEF CountsOK, NoOp
<1>3. FreshOK'
      BY <1>1 DEF RestoreInv, FreshOK
<1>4. QueryOK' /\ RecoverOK' /\ RollbackOK'
      BY <1>1 DEF QueryOK, RecoverOK, RollbackOK
<1>5. DownOK'
  <2>1. CASE left = Nothing
        BY <1>1, <2>1 DEF DownOK, Nothing
  <2>2. CASE left # Nothing
    <3>1. PICK lo \in 0 .. Len(log), q \in Tables, kind \in Kinds :
              /\ RecoveryTarget(log, lo) /\ Stretch(log, lo, q, kind)
              /\ \A t \in Tables : left[t] # None /\ holes'[t] = {} =>
                    file'[t] = file[t] /\ Owing(log, lo, t, left[t])
          BY <2>2
    <3>2. ASSUME NEW t \in Tables, owed'[t] # None, holes'[t] = {}
          PROVE  Owing(log, lo, t, owed[t])'
      <4>1. Owing(log, lo, t, left[t]) /\ file'[t] = file[t]
            BY <1>1, <3>1, <3>2
      <4>2. Owing(log, lo, t, left[t])'
            BY <1>1, <4>1 DEF Owing, CountAhead
      <4>3. QED
            BY <4>2 DEF Owing
    <3>3. lo \in 0 .. Len(log') /\ RecoveryTarget(log', lo) /\ Stretch(log', lo, q, kind)
          BY <1>1, <3>1
    <3>4. QED
          BY <1>1, <3>2, <3>3 DEF DownOK
  <2>3. QED
        BY <2>1, <2>2
<1>7. SavedOK'
      BY <1>1 DEF SavedOK, RestoreInv
<1>8. StaleOK'
      BY <1>1, NoBatchIsOK DEF StaleOK, Waiting
<1>9. OwnOK'
      OBVIOUS
<1>10. QED
       BY <1>2, <1>3, <1>4, <1>5, <1>7, <1>8, <1>9 DEF RestoreInv

\* A row that a crash leaves in part cannot be read.
LEMMA TornIsHole ==
    ASSUME TablesIInv, Crash, NEW t \in Tables, holes'[t] = {}
    PROVE  holes[t] = {} /\ file'[t] = file[t]
<1>1. PICK torn \in SUBSET {u \in Tables : Buffered(u) # <<>>} :
         /\ file' = [u \in Tables |->
               IF u \in torn THEN Append(file[u], Head(Buffered(u))) ELSE file[u]]
         /\ holes' = [u \in Tables |->
               IF u \in torn THEN holes[u] \cup Behind(Len(file[u]) + 1) ELSE holes[u]]
      BY DEF Crash
<1>2. ASSUME t \in torn
      PROVE  FALSE
  <2>1. PICK m, s, slot : s = file[t] /\ slot = Head(Buffered(t)) /\ m = Append(s, slot)
        OBVIOUS
  <2>2. /\ m \in Seq(Slots) /\ Distinct(m) /\ s \in Seq(Slots)
        BY <1>1, <1>2, <2>1, TornRow DEF TablesIInv, TypeOK
  <2>3. Len(m) = Len(s) + 1 /\ Len(s) \in Nat /\ DOMAIN m = 1 .. Len(m) /\ Len(m) \in Nat
        BY <2>1, <2>2
  <2>4. PICK f : f = [i \in 1 .. Len(m) |-> m[i].rid]
        OBVIOUS
  <2>5. f \in [1 .. Len(m) -> Rids]
        BY <2>2, <2>3, <2>4, SlotParts
  <2>6. f \in Injection(1 .. Len(m), Rids)
        BY <2>2, <2>3, <2>4, <2>5 DEF Distinct, Injection, IsInjective
  <2>7. Cardinality(1 .. Len(m)) <= Cardinality(Rids)
        BY <2>6, FS_Injection, TableWalAssumption
  <2>8. Cardinality(1 .. Len(m)) = Len(m)
    <3>1. 1 \in Int /\ Len(m) \in Int
          BY <2>3
    <3>2. Cardinality(1 .. Len(m)) = IF 1 > Len(m) THEN 0 ELSE Len(m) - 1 + 1
          BY <3>1, FS_Interval
    <3>3. QED
          BY <2>3, <3>2
  <2>9. Cardinality(Rids) \in Nat
        BY FS_CardinalityType, TableWalAssumption
  <2>10. Len(s) + 1 \in Behind(Len(s) + 1)
         BY <2>3, <2>7, <2>8, <2>9 DEF Behind, Positions
  <2>11. Len(s) + 1 \in holes'[t]
         BY <1>1, <1>2, <2>1, <2>10
  <2>12. QED
         BY <2>11
<1>3. QED
      BY <1>1, <1>2

\* A crash owes what can be brought back.
LEMMA CrashRestores ==
    ASSUME TablesIInv, RestoreInv, Crash, owed' = Owed, opened' = Nothing, saved' = saved
    PROVE  RestoreInv'
<1>1. Stop /\ OwnOK
      BY DEF Crash, RestoreInv
<1>2. PICK left : left = Owed
      OBVIOUS
<1>3. CASE phase = "query" /\ ~Nests(op.table)
  <2>1. left = [t \in Tables |-> IF CountLost(t) THEN None ELSE opened[t]]
        BY <1>2, <1>3 DEF Owed
  <2>2. OwnOK'
    <3>1. ASSUME NEW t \in Tables
          PROVE  Own(left[t], t) /\ Own(Nothing[t], t)
          BY <1>1, <2>1 DEF OwnOK, Own, Nothing
    <3>2. QED
          BY <1>2, <3>1 DEF OwnOK, Own, Nothing
  <2>3. PICK lo \in DOMAIN log : OpenedAt(lo)
        BY <1>3 DEF RestoreInv, QueryOK
  <2>4. log \in Seq(Lines) /\ Len(log) \in Nat /\ DOMAIN log = 1 .. Len(log) /\ lo \in 0 .. Len(log)
        BY DEF TablesIInv, TypeOK
  <2>5. /\ log[lo] = OpenLine
        /\ \A j \in DOMAIN log : lo < j => IsChange(log[j])
        BY <2>3 DEF OpenedAt, LinesAbove
  <2>6. \A j \in DOMAIN log : lo < j => log[j] # OpenLine
        BY <2>5, LineKinds
  <2>7. ~EndsClosed(log)
    <3>1. CASE lo = Len(log)
          BY <2>5, <3>1, LineKinds DEF EndsClosed
    <3>2. CASE lo # Len(log)
      <4>1. Len(log) \in DOMAIN log /\ lo < Len(log)
            BY <2>4, <3>2
      <4>2. QED
            BY <2>5, <4>1, LineKinds DEF EndsClosed
    <3>3. QED
          BY <3>1, <3>2
  <2>8. RecoveryTarget(log, lo)
        BY <2>5, <2>6, <2>7 DEF RecoveryTarget
  <2>9. OneTable(lo) /\ OpenedBack(lo)
        BY <1>3, <2>3 DEF OpenedAt
  <2>10. Stretch(log, lo, op.table, op.kind)
         BY <2>9 DEF OneTable
  <2>11. op.table \in Tables /\ op.kind \in Kinds
         BY <1>3 DEF TablesIInv, OpOK
  <2>12. ASSUME NEW t \in Tables, left[t] # None, holes'[t] = {}
         PROVE  file'[t] = file[t] /\ Owing(log, lo, t, left[t])
    <3>1. ~CountLost(t) /\ left[t] = opened[t] /\ holes[t] = {} /\ file'[t] = file[t]
          BY <2>1, <2>12, TornIsHole
    <3>2. Back(log, lo, Len(log), file[t], opened[t]) /\ CountAhead(log, lo, t) /\ Counted(lo, t)
          BY <2>1, <2>9, <2>12, <3>1 DEF OpenedBack
    <3>3. file[t] \in Seq(Slots) /\ count[t] \in Nat /\ op.frames \in Seq(Frames)
          BY DEF TablesIInv, TypeOK, Queries
    <3>4. ASSUME NEW k \in DOMAIN op.frames, FrameOf(k, t)
          PROVE  op.frames[k].entries <= count[t]
      <4>1. op.frames[k] \in ToSet(op.frames) /\ op.frames[k] \in Frames
            BY <3>3 DEF ToSet
      <4>2. op.frames[k].table = t /\ op.frames[k].entries \in Nat
            BY <3>4, <4>1 DEF FrameOf, Frames
      <4>3. ~(count[t] < op.frames[k].entries)
            BY <3>1, <4>1, <4>2 DEF CountLost
      <4>4. QED
            BY <3>3, <4>2, <4>3
    <3>5. ASSUME NEW i \in DOMAIN file[t]
          PROVE  i <= count[t] \/ InsertedAbove(log, lo, file[t][i].rid)
      <4>1. CASE \E k \in DOMAIN op.frames : FrameOf(k, t) /\ i <= op.frames[k].entries
        <5>1. PICK k \in DOMAIN op.frames : FrameOf(k, t) /\ i <= op.frames[k].entries
              BY <4>1
        <5>2. op.frames[k].entries <= count[t] /\ op.frames[k] \in Frames /\ i \in Nat
              BY <3>3, <3>4, <5>1
        <5>3. op.frames[k].entries \in Nat
              BY <5>2 DEF Frames
        <5>4. QED
              BY <3>3, <5>1, <5>2, <5>3
      <4>2. QED
            BY <3>2, <4>1 DEF Counted
    <3>6. QED
          BY <3>1, <3>2, <3>5 DEF Owing
  <2>13. owed' = left
         BY <1>2
  <2>14. QED
         BY <1>1, <2>2, <2>4, <2>8, <2>10, <2>11, <2>12, <2>13, StopRestores
<1>4. CASE ~(phase = "query" /\ ~Nests(op.table))
  <2>1. left = Nothing
        BY <1>2, <1>4 DEF Owed
  <2>2. OwnOK'
        BY <1>2, <2>1 DEF OwnOK, Own, Nothing
  <2>3. owed' = left
        BY <1>2
  <2>4. QED
        BY <1>1, <2>1, <2>2, <2>3, StopRestores
<1>5. QED
      BY <1>3, <1>4

-----------------------------------------------------------------------------
(* Recovery. *)

\* With lines about different rows undone at once, what was shown is back.
LEMMA BackAllUndone ==
    ASSUME NEW l \in Seq(Lines), NEW lo \in Nat, lo <= Len(l), NEW rows \in Seq(Slots), NEW shown,
           Back(l, lo, Len(l), rows, shown),
           NEW q, NEW kind, Stretch(l, lo, q, kind),
           NEW rows2, DOMAIN rows2 = DOMAIN rows,
           \A i \in DOMAIN rows :
              /\ rows2[i].rid = rows[i].rid
              /\ (\A j \in DOMAIN l : lo < j => ~Touches(l[j], rows[i].rid)) =>
                    rows2[i].del = rows[i].del /\ rows2[i].val = rows[i].val
              /\ \A j \in DOMAIN l : lo < j /\ Touches(l[j], rows[i].rid) =>
                    /\ rows2[i].del = Mark(l[j])
                    /\ rows2[i].val = IF l[j].kind = "Update" THEN l[j].before.val ELSE rows[i].val
    PROVE  Back(l, lo, lo, rows2, shown)
<1>1. Len(l) \in Nat /\ DOMAIN l = 1 .. Len(l)
      OBVIOUS
<1>2. ASSUME NEW i \in DOMAIN rows, NEW del \in {"0", "1"}, DelFalls(l, lo, Len(l), rows[i], del)
      PROVE  DelFalls(l, lo, lo, rows2[i], del)
  <2> DEFINE js == Touched(l, rows[i].rid)
             left == Dels(l)
  <2>1. Falls(js, left, lo, Len(l), rows[i].del, del)
        BY <1>2 DEF DelFalls
  <2>2. js \in SUBSET (1 .. Len(l))
        BY <1>1 DEF Touched
  <2>3. rows2[i].del = del
    <3>1. CASE \A j \in js : ~(lo < j)
      <4>1. rows[i].del = del
            BY <2>1, <3>1 DEF Falls
      <4>2. \A j \in DOMAIN l : lo < j => ~Touches(l[j], rows[i].rid)
            BY <3>1 DEF Touched
      <4>3. QED
            BY <4>1, <4>2
    <3>2. CASE \E j \in js : lo < j
      <4>1. PICK j \in js : lo < j
            BY <3>2
      <4>2. j \in DOMAIN l /\ Touches(l[j], rows[i].rid) /\ j <= Len(l)
            BY <1>1, <4>1 DEF Touched
      <4>3. \A k \in js : lo < k => k = j
            BY <4>1, <4>2 DEF Touched, Touches, Stretch
      <4>4. \A k \in js : lo < k => j <= k
            BY <2>2, <4>1, <4>3
      <4>5. left[j] = del
            BY <2>1, <4>1, <4>2, <4>4 DEF Falls
      <4>6. left[j] = Mark(l[j])
            BY <4>2 DEF Dels
      <4>7. QED
            BY <4>1, <4>2, <4>5, <4>6
    <3>3. QED
          BY <3>1, <3>2
  <2>4. Falls(js, left, lo, lo, rows2[i].del, del)
        BY <2>2, <2>3 DEF Falls
  <2>5. QED
        BY <2>4 DEF DelFalls
<1>3. ASSUME NEW i \in DOMAIN rows, NEW val \in Contents, ValFalls(l, lo, Len(l), rows[i], val)
      PROVE  ValFalls(l, lo, lo, rows2[i], val)
  <2> DEFINE js == Rewritten(l, rows[i].rid)
             left == Vals(l, rows[i].rid)
  <2>1. Falls(js, left, lo, Len(l), rows[i].val, val)
        BY <1>3 DEF ValFalls
  <2>2. js \in SUBSET (1 .. Len(l))
        BY <1>1 DEF Rewritten
  <2>3. rows2[i].val = val
    <3>1. CASE \A j \in js : ~(lo < j)
      <4>1. rows[i].val = val
            BY <2>1, <3>1 DEF Falls
      <4>2. \A j \in DOMAIN l : lo < j /\ Touches(l[j], rows[i].rid) => l[j].kind # "Update"
            BY <3>1 DEF Rewritten
      <4>3. CASE \A j \in DOMAIN l : lo < j => ~Touches(l[j], rows[i].rid)
            BY <4>1, <4>3
      <4>4. CASE \E j \in DOMAIN l : lo < j /\ Touches(l[j], rows[i].rid)
            BY <4>1, <4>2, <4>4
      <4>5. QED
            BY <4>3, <4>4
    <3>2. CASE \E j \in js : lo < j
      <4>1. PICK j \in js : lo < j
            BY <3>2
      <4>2. j \in DOMAIN l /\ Touches(l[j], rows[i].rid) /\ l[j].kind = "Update" /\ j <= Len(l)
            BY <1>1, <4>1 DEF Rewritten
      <4>3. \A k \in js : lo < k => k = j
            BY <4>1, <4>2 DEF Rewritten, Touches, Stretch
      <4>4. \A k \in js : lo < k => j <= k
            BY <2>2, <4>1, <4>3
      <4>5. left[j] = val
            BY <2>1, <4>1, <4>2, <4>4 DEF Falls
      <4>6. left[j] = l[j].before.val
            BY <4>1 DEF Vals
      <4>7. QED
            BY <4>1, <4>2, <4>5, <4>6
    <3>3. QED
          BY <3>1, <3>2
  <2>4. Falls(js, left, lo, lo, rows2[i].val, val)
        BY <2>2, <2>3 DEF Falls
  <2>5. QED
        BY <2>4 DEF ValFalls
<1>4. QED
      BY <1>2, <1>3, BackMoves

\* What is owed of a table is shown once its lines are undone in the rows that
\* are counted, and no other row is.
LEMMA Brought ==
    ASSUME NEW t \in Tables, NEW l \in Seq(Lines), NEW lo \in Nat, lo <= Len(l),
           NEW q, NEW kind, Stretch(l, lo, q, kind), NEW shown, Owing(l, lo, t, shown),
           file[t] \in Seq(Slots), file'[t] \in Seq(Slots), count[t] \in Nat, count'[t] \in Nat,
           holes'[t] = {}, DOMAIN file'[t] = DOMAIN file[t],
           \A i \in DOMAIN file[t] : i <= count[t] =>
              /\ file'[t][i].rid = file[t][i].rid
              /\ (\A j \in DOMAIN l : lo < j => ~Touches(l[j], file[t][i].rid)) =>
                    file'[t][i].del = file[t][i].del /\ file'[t][i].val = file[t][i].val
              /\ \A j \in DOMAIN l : lo < j /\ Touches(l[j], file[t][i].rid) =>
                    /\ file'[t][i].del = Mark(l[j])
                    /\ file'[t][i].val = IF l[j].kind = "Update" THEN l[j].before.val ELSE file[t][i].val,
           count'[t] <= Len(file[t]),
           \A i \in DOMAIN file[t] : i <= count'[t] <=> i <= count[t]
    PROVE  Except(Shown(t)', DeletedTwice(l, lo)) = Except(shown, DeletedTwice(l, lo))
<1>1. PICK rows, after, n, m : rows = file[t] /\ after = file'[t] /\ n = count[t] /\ m = count'[t]
      OBVIOUS
<1>2. /\ rows \in Seq(Slots) /\ after \in Seq(Slots) /\ n \in Nat /\ m \in Nat
      /\ Len(rows) \in Nat /\ DOMAIN rows = 1 .. Len(rows) /\ DOMAIN after = DOMAIN rows
      /\ m <= Len(rows) /\ \A i \in DOMAIN rows : i <= m <=> i <= n
      BY <1>1
<1>3. \A i \in DOMAIN rows : rows[i] \in Slots /\ after[i] \in Slots
      BY <1>2
<1> DEFINE rows2 == [i \in DOMAIN rows |-> IF i <= n THEN after[i] ELSE Slot(rows[i].rid, rows[i].val, "1")]
<1>4. Back(l, lo, Len(l), rows, shown) /\ \A i \in DOMAIN rows : i <= n \/ InsertedAbove(l, lo, rows[i].rid)
      BY <1>1 DEF Owing
<1>5. rows2 \in Seq(Slots)
  <2>1. \A i \in DOMAIN rows : Slot(rows[i].rid, rows[i].val, "1") \in Slots
        BY <1>3, SlotParts
  <2>2. rows2 \in [1 .. Len(rows) -> Slots]
        BY <1>2, <1>3, <2>1
  <2>3. QED
        BY <1>2, <2>2
<1>6. DOMAIN rows2 = DOMAIN rows
      OBVIOUS
<1>7. ASSUME NEW i \in DOMAIN rows
      PROVE  /\ rows2[i].rid = rows[i].rid
             /\ (\A j \in DOMAIN l : lo < j => ~Touches(l[j], rows[i].rid)) =>
                   rows2[i].del = rows[i].del /\ rows2[i].val = rows[i].val
             /\ \A j \in DOMAIN l : lo < j /\ Touches(l[j], rows[i].rid) =>
                   /\ rows2[i].del = Mark(l[j])
                   /\ rows2[i].val = IF l[j].kind = "Update" THEN l[j].before.val ELSE rows[i].val
  <2>1. CASE i <= n
    <3>1. rows2[i] = after[i]
          BY <2>1
    <3>2. QED
          BY <1>1, <2>1, <3>1
  <2>2. CASE ~(i <= n)
    <3>1. rows2[i] = Slot(rows[i].rid, rows[i].val, "1")
          BY <2>2
    <3>2. rows2[i].rid = rows[i].rid /\ rows2[i].val = rows[i].val /\ rows2[i].del = "1"
          BY <3>1 DEF Slot
    <3>3. PICK k \in DOMAIN l : lo < k /\ l[k] = InsertLine(rows[i].rid)
          BY <1>4, <2>2 DEF InsertedAbove
    <3>4. Touches(l[k], rows[i].rid) /\ l[k].kind = "Insert" /\ l[k].rid = rows[i].rid
          BY <3>3, LineKinds DEF Touches
    <3>5. ASSUME NEW j \in DOMAIN l, lo < j, Touches(l[j], rows[i].rid)
          PROVE  Mark(l[j]) = "1" /\ l[j].kind # "Update"
      <4>1. l[j].kind = kind /\ l[k].kind = kind
            BY <3>3, <3>5 DEF Stretch
      <4>2. QED
            BY <3>4, <4>1 DEF Mark
    <3>6. QED
          BY <3>2, <3>3, <3>4, <3>5
  <2>3. QED
        BY <2>1, <2>2
<1>8. Back(l, lo, lo, rows2, shown)
  <2> HIDE DEF rows2
  <2>1. QED
        BY <1>2, <1>4, <1>6, <1>7, BackAllUndone
<1>9. Except(Live(rows2), DeletedTwice(l, lo)) = Except(shown, DeletedTwice(l, lo))
  <2> HIDE DEF rows2
  <2>1. QED
        BY <1>5, <1>8, BackDone
<1>10. Shown(t)' = Live(rows2)
  <2>1. Whole(t)'
        BY <1>1, <1>2 DEF Whole, Reads
  <2>2. Shown(t)' = {after[i] : i \in {j \in 1 .. m : after[j].del # "1"}}
        BY <1>1, <2>1 DEF Shown
  <2>3. \A i \in 1 .. m : i \in DOMAIN rows /\ rows2[i] = after[i]
        BY SMTT(60), <1>2
  <2>4. ASSUME NEW i \in DOMAIN rows, rows2[i].del # "1"
        PROVE  i \in 1 .. m
    <3>1. ~(i <= n) => rows2[i].del = "1"
          BY DEF Slot
    <3>2. QED
          BY <1>2, <2>4, <3>1
  <2>5. Live(rows2) = {rows2[i] : i \in {j \in DOMAIN rows : rows2[j].del # "1"}}
        BY <1>6 DEF Live
  <2> HIDE DEF rows2
  <2>6. QED
        BY SMTT(60), <2>2, <2>3, <2>4, <2>5
<1>11. PICK live : live = Live(rows2)
       OBVIOUS
<1>12. Except(live, DeletedTwice(l, lo)) = Except(shown, DeletedTwice(l, lo))
       BY <1>9, <1>11
<1>13. Shown(t)' = live
       BY <1>10, <1>11
<1>14. QED
       BY <1>12, <1>13 DEF Except

\* There is one line to which a recovery goes.
LEMMA OneTarget ==
    ASSUME NEW l \in Seq(Lines), NEW a \in 0 .. Len(l), NEW b \in 0 .. Len(l),
           RecoveryTarget(l, a), RecoveryTarget(l, b)
    PROVE  a = b
<1>1. Len(l) \in Nat /\ a \in Nat /\ b \in Nat
      OBVIOUS
<1>2. CASE EndsClosed(l)
      BY <1>2 DEF RecoveryTarget
<1>3. CASE ~EndsClosed(l)
      BY <1>1, <1>3 DEF RecoveryTarget
<1>4. QED
      BY <1>2, <1>3

LEMMA StartRestores ==
    ASSUME TablesIInv, RestoreInv, Start, UNCHANGED <<saved, opened, owed>>
    PROVE  RestoreInv'
<1>1. PICK at \in 0 .. Len(log) :
         RecoveryTarget(log, at) /\ job' = [NoJob EXCEPT !.target = at, !.at = Len(log)]
      BY DEF Start
<1>2. /\ phase = "down" /\ phase' = "recover" /\ oldLog' = log /\ log' = <<>>
      /\ UNCHANGED <<file, holes, count, rolled, batch, op, used>>
      BY DEF Start, store
<1>3. /\ TypeOK /\ CountsOK /\ OwnOK /\ batch = NoBatch
      /\ log \in Seq(Lines) /\ Len(log) \in Nat /\ at \in Nat
      BY <1>1, <1>2 DEF TablesIInv, RestoreInv, TypeOK, DownOK
<1>4. job'.target = at /\ job'.at = Len(log)
      BY <1>1 DEF NoJob
<1>5. CountsOK'
      BY <1>2, <1>3 DEF CountsOK, CountOK
<1>6. FreshOK' /\ QueryOK' /\ DownOK' /\ RollbackOK'
      BY <1>2 DEF FreshOK, QueryOK, DownOK, RollbackOK
<1>7. OwnOK'
      BY <1>3, OwnStays
<1>8. SavedOK'
      BY <1>2 DEF SavedOK, RestoreInv
<1>9. StaleOK'
      BY <1>2, <1>3, NoBatchIsOK DEF StaleOK
<1>10. RecoverOK'
  <2>1. CASE owed = Nothing
        BY <1>2, <2>1 DEF RecoverOK, Nothing
  <2>2. CASE owed # Nothing
    <3>1. PICK lo \in 0 .. Len(log), q \in Tables, kind \in Kinds :
              /\ RecoveryTarget(log, lo) /\ Stretch(log, lo, q, kind)
              /\ \A t \in Tables : owed[t] # None /\ holes[t] = {} => Owing(log, lo, t, owed[t])
          BY <1>2, <2>2 DEF RestoreInv, DownOK
    <3>2. lo = at
          BY <1>1, <1>3, <3>1, OneTarget
    <3>3. Stretch(oldLog', job'.target, q, kind)
          BY <1>2, <1>4, <3>1, <3>2
    <3>4. BatchHolds(kind)'
      <4>1. job'.at + 1 .. Len(oldLog') = {}
            BY <1>2, <1>3, <1>4
      <4>2. batch' = NoBatch
            BY <1>2, <1>3
      <4>3. QED
            BY <4>1, <4>2, NoBatchIsOK DEF BatchHolds
    <3>5. ASSUME NEW t \in Tables, owed'[t] # None, holes'[t] = {}
          PROVE  IF job'.target < job'.at THEN Owing(oldLog, job.target, t, owed[t])' ELSE Restored(t)'
      <4>1. Owing(log, at, t, owed[t]) /\ file'[t] = file[t] /\ count'[t] = count[t]
            BY <1>2, <3>1, <3>2, <3>5
      <4>2. CASE at < Len(log)
        <5>1. Owing(oldLog, job.target, t, owed[t])'
              BY <1>2, <1>4, <4>1 DEF Owing, CountAhead
        <5>2. QED
              BY <1>4, <4>2, <5>1
      <4>3. CASE ~(at < Len(log))
        <5>1. \A j \in DOMAIN log : ~(at < j)
              BY <1>3, <4>3
        <5>2. file[t] \in Seq(Slots) /\ count[t] \in Nat /\ Len(file[t]) \in Nat
              BY <1>3 DEF TypeOK
        <5>3. ~(count[t] > Len(file[t]))
              BY <4>1, <5>1 DEF Owing, CountAhead
        <5>4. count'[t] <= Len(file[t])
              BY <4>1, <5>2, <5>3
        <5>5. PICK shown, l : shown = owed[t] /\ l = log
              OBVIOUS
        <5>6. l \in Seq(Lines) /\ at <= Len(l) /\ Stretch(l, at, q, kind) /\ Owing(l, at, t, shown)
              BY <1>3, <3>1, <3>2, <4>1, <5>5
        <5>7. \A i \in DOMAIN file[t] : i <= count[t] =>
                /\ file'[t][i].rid = file[t][i].rid
                /\ (\A j \in DOMAIN l : at < j => ~Touches(l[j], file[t][i].rid)) =>
                      file'[t][i].del = file[t][i].del /\ file'[t][i].val = file[t][i].val
                /\ \A j \in DOMAIN l : at < j /\ Touches(l[j], file[t][i].rid) =>
                      /\ file'[t][i].del = Mark(l[j])
                      /\ file'[t][i].val = IF l[j].kind = "Update" THEN l[j].before.val ELSE file[t][i].val
              BY <4>1, <5>1, <5>5
        <5>8. /\ file'[t] \in Seq(Slots) /\ count'[t] \in Nat /\ DOMAIN file'[t] = DOMAIN file[t]
              /\ \A i \in DOMAIN file[t] : i <= count'[t] <=> i <= count[t]
              BY <4>1, <5>2
        <5>9. Except(Shown(t)', DeletedTwice(l, at)) = Except(shown, DeletedTwice(l, at))
              BY SMTT(60), <1>3, <3>5, <5>2, <5>4, <5>6, <5>7, <5>8, Brought
        <5>10. Restored(t)'
               BY <1>2, <1>4, <5>5, <5>9 DEF Restored
        <5>11. QED
               BY <1>4, <4>3, <5>10
      <4>4. QED
            BY <4>2, <4>3
    <3>6. QED
          BY <1>2, <3>3, <3>4, <3>5 DEF RecoverOK
  <2>3. QED
        BY <2>1, <2>2
<1>11. QED
       BY <1>5, <1>6, <1>7, <1>8, <1>9, <1>10 DEF RestoreInv

\* What the last call for a table writes: the rows it has collected, where it
\* reads them.
CollectedRids ==
    IF JobLine.kind = "Insert" THEN Collected.inserted
    ELSE IF JobLine.kind = "Update" THEN DOMAIN Collected.updated ELSE Collected.deleted

LeftIn(slot) ==
    IF JobLine.kind = "Insert" THEN Slot(slot.rid, slot.val, "1")
    ELSE IF JobLine.kind = "Update"
         THEN Slot(slot.rid, Collected.updated[slot.rid].val, Collected.updated[slot.rid].del)
    ELSE Slot(slot.rid, slot.val, "0")

UndoneIn(t) ==
    /\ file' \in [Tables -> Seq(Slots)]
    /\ \A u \in Tables : u # t => file'[u] = file[u]
    /\ DOMAIN file'[t] = DOMAIN file[t]
    /\ \A i \in DOMAIN file[t] :
          file'[t][i] = IF i \in Seen(t) /\ file[t][i].rid \in CollectedRids
                        THEN LeftIn(file[t][i]) ELSE file[t][i]

EmptiedOf(kind) ==
    /\ batch'.inserted = IF kind = "Insert" THEN {} ELSE batch.inserted
    /\ DOMAIN batch'.updated = IF kind = "Update" THEN {} ELSE DOMAIN batch.updated
    /\ batch'.deleted = IF kind = "Delete" THEN {} ELSE batch.deleted

LEMMA MarkedRows ==
    ASSUME TypeOK, NEW t \in Tables, NEW at, NEW rids, NEW del \in {"0", "1"}, Marks(t, at, rids, del)
    PROVE  /\ file' \in [Tables -> Seq(Slots)]
           /\ \A u \in Tables : u # t => file'[u] = file[u]
           /\ DOMAIN file'[t] = DOMAIN file[t]
           /\ \A i \in DOMAIN file[t] :
                 file'[t][i] = IF i \in at /\ file[t][i].rid \in rids
                               THEN Slot(file[t][i].rid, file[t][i].val, del) ELSE file[t][i]
<1>1. PICK m : m = [i \in DOMAIN file[t] |->
                       IF i \in at /\ file[t][i].rid \in rids
                       THEN [file[t][i] EXCEPT !.del = del] ELSE file[t][i]]
      OBVIOUS
<1>2. file' = [file EXCEPT ![t] = m]
      BY <1>1 DEF Marks, TypeOK
<1>3. PICK m2 \in Seq(Slots) :
         /\ DOMAIN m2 = DOMAIN file[t] /\ \A i \in DOMAIN m2 : m2[i].rid = file[t][i].rid
         /\ file' = [file EXCEPT ![t] = m2]
      BY Marked
<1>4. file \in [Tables -> Seq(Slots)]
      BY DEF TypeOK
<1>5. file'[t] = m /\ file'[t] = m2 /\ file' \in [Tables -> Seq(Slots)]
      BY <1>2, <1>3, <1>4
<1>6. ASSUME NEW slot \in Slots
      PROVE  [slot EXCEPT !.del = del] = Slot(slot.rid, slot.val, del)
      BY DEF Slots, Slot
<1>7. ASSUME NEW i \in DOMAIN file[t]
      PROVE  m[i] = IF i \in at /\ file[t][i].rid \in rids
                    THEN Slot(file[t][i].rid, file[t][i].val, del) ELSE file[t][i]
  <2>1. file[t][i] \in Slots
        BY <1>4
  <2>2. [file[t][i] EXCEPT !.del = del] = Slot(file[t][i].rid, file[t][i].val, del)
        BY <1>6, <2>1
  <2>3. QED
        BY <1>1, <2>2
<1>8. QED
      BY <1>2, <1>3, <1>4, <1>5, <1>7

LEMMA TheUndone ==
    ASSUME TablesIInv, UndoInsert \/ UndoUpdate \/ UndoDelete, NEW t, t = TableOf[JobLine.rid]
    PROVE  /\ Undoing /\ IsChange(JobLine) /\ LastCall /\ Called /\ UnchangedByUndo /\ holes' = holes
           /\ t \in Tables /\ UndoneIn(t) /\ EmptiedOf(JobLine.kind)
           /\ \A u \in Tables : u # t => count'[u] = count[u]
           /\ count'[t] = IF JobLine.kind = "Insert" THEN Cardinality(Seen(t)) ELSE count[t]
<1>1. Undoing /\ IsChange(JobLine) /\ LastCall /\ Called /\ UnchangedByUndo /\ holes' = holes
      BY Zenon DEF UndoInsert, UndoUpdate, UndoDelete, Undoes, IsChange
<1>2. TypeOK /\ t \in Tables
      BY <1>1, TheJob DEF TablesIInv, Undoing
<1>3. CASE UndoInsert
  <2>1. /\ JobLine.kind = "Insert" /\ Marks(t, Seen(t), Collected.inserted, "1")
        /\ count' = [count EXCEPT ![t] = Cardinality(Seen(t))]
        /\ batch' = [batch EXCEPT !.inserted = {}]
        BY <1>3 DEF UndoInsert, Undoes, RepairedCount
  <2>2. UndoneIn(t)
        BY <1>2, <2>1, MarkedRows DEF UndoneIn, CollectedRids, LeftIn
  <2>3. EmptiedOf("Insert")
        BY <1>2, <2>1, EmptiedBatches DEF EmptiedOf
  <2>4. QED
        BY <1>1, <1>2, <2>1, <2>2, <2>3 DEF TypeOK
<1>4. CASE UndoDelete
  <2>1. /\ JobLine.kind = "Delete" /\ Marks(t, Seen(t), Collected.deleted, "0")
        /\ count' = count /\ batch' = [batch EXCEPT !.deleted = {}]
        BY <1>4 DEF UndoDelete, Undoes
  <2>2. UndoneIn(t)
        BY <1>2, <2>1, MarkedRows DEF UndoneIn, CollectedRids, LeftIn
  <2>3. EmptiedOf("Delete")
        BY Zenon, <1>2, <2>1, EmptiedBatches DEF EmptiedOf
  <2>4. QED
        BY <1>1, <1>2, <2>1, <2>2, <2>3
<1>5. CASE UndoUpdate
  <2>1. PICK old : old = Collected.updated
        OBVIOUS
  <2>2. /\ JobLine.kind = "Update" /\ count' = count
        /\ file' = [file EXCEPT ![t] = [i \in DOMAIN @ |->
                     IF i \in Seen(t) /\ @[i].rid \in DOMAIN old
                     THEN Slot(@[i].rid, old[@[i].rid].val, old[@[i].rid].del) ELSE @[i]]]
        /\ batch' = [batch EXCEPT !.updated = NoBatch.updated]
        BY Zenon, <1>5, <2>1 DEF UndoUpdate, Undoes, UndoneUpdates, PutsBack
  <2>3. PICK m : m = [i \in DOMAIN file[t] |->
                     IF i \in Seen(t) /\ file[t][i].rid \in DOMAIN old
                     THEN Slot(file[t][i].rid, old[file[t][i].rid].val, old[file[t][i].rid].del)
                     ELSE file[t][i]]
        OBVIOUS
  <2>4. file' = [file EXCEPT ![t] = m] /\ file \in [Tables -> Seq(Slots)]
        BY <1>2, <2>2, <2>3 DEF TypeOK
  <2>5. file'[t] = m /\ \A u \in Tables : u # t => file'[u] = file[u]
        BY <1>2, <2>4
  <2>6. TypeOK'
        BY UndoUpdateKeeps, <1>5 DEF TablesIInv
  <2>7. UndoneIn(t)
    <3>1. CollectedRids = DOMAIN old
          BY Zenon, <2>1, <2>2 DEF CollectedRids
    <3>2. \A slot : LeftIn(slot) = Slot(slot.rid, old[slot.rid].val, old[slot.rid].del)
          BY Zenon, <2>1, <2>2 DEF LeftIn
    <3>3. \A i \in DOMAIN file[t] :
              m[i] = IF i \in Seen(t) /\ file[t][i].rid \in CollectedRids THEN LeftIn(file[t][i]) ELSE file[t][i]
          BY <2>3, <3>1, <3>2
    <3>4. DOMAIN m = DOMAIN file[t]
          BY <2>3
    <3>5. file' \in [Tables -> Seq(Slots)]
          BY Zenon, <2>6 DEF TypeOK
    <3>6. QED
          BY Zenon, <2>5, <3>3, <3>4, <3>5 DEF UndoneIn
  <2>8. EmptiedOf("Update")
        BY <1>2, <2>2, EmptiedBatches, NoBatchIsOK DEF EmptiedOf
  <2>9. QED
        BY <1>1, <1>2, <2>2, <2>7, <2>8
<1>6. QED
      BY Zenon, <1>3, <1>4, <1>5

\* With every row readable, undo sees the rows that are counted.
LEMMA SeenCount ==
    ASSUME NEW t, file[t] \in Seq(Slots), count[t] \in Nat, holes[t] = {}
    PROVE  \E m \in Nat : /\ Seen(t) = 1 .. m /\ Cardinality(Seen(t)) = m
                          /\ m <= count[t] /\ m <= Len(file[t])
                          /\ m = count[t] \/ m = Len(file[t])
<1>1. Len(file[t]) \in Nat /\ DOMAIN file[t] = 1 .. Len(file[t])
      OBVIOUS
<1>2. PICK m \in Nat : m <= count[t] /\ m <= Len(file[t]) /\ (m = count[t] \/ m = Len(file[t]))
      BY <1>1
<1>3. Seen(t) = 1 .. m
      BY <1>1, <1>2 DEF Seen, Reads
<1>4. Cardinality(1 .. m) = m
  <2>1. 1 \in Int /\ m \in Int
        BY <1>2
  <2>2. Cardinality(1 .. m) = IF 1 > m THEN 0 ELSE m - 1 + 1
        BY <2>1, FS_Interval
  <2>3. QED
        BY <1>2, <2>2
<1>5. QED
      BY <1>2, <1>3, <1>4

\* With line at, the batches hold the lines from there on.
HoldsFrom(at, kind) ==
    LET rids == {oldLog[j].rid : j \in at .. Len(oldLog)} IN
    /\ kind = "Insert" => Collected.inserted = rids
    /\ kind = "Delete" => Collected.deleted = rids
    /\ kind = "Update" =>
          /\ DOMAIN Collected.updated = rids
          /\ \A j \in at .. Len(oldLog) : Collected.updated[oldLog[j].rid] = oldLog[j].before

LEMMA CollectedHolds ==
    ASSUME TablesIInv, phase = "recover", Undoing, NEW q, NEW kind,
           Stretch(oldLog, job.target, q, kind), BatchHolds(kind)
    PROVE  /\ IsChange(JobLine) /\ kind = JobLine.kind /\ q = TableOf[JobLine.rid]
           /\ HoldsFrom(job.at, kind)
<1>1. /\ JobLog = oldLog /\ JobLine = oldLog[job.at] /\ oldLog \in Seq(Lines)
      /\ DOMAIN oldLog = 1 .. Len(oldLog) /\ Len(oldLog) \in Nat
      /\ job.at \in Nat /\ job.target \in Nat /\ job.target < job.at /\ job.at <= Len(oldLog)
      /\ job.at \in DOMAIN oldLog
      BY TheJob DEF JobLog, JobLine, Undoing, TablesIInv, TypeOK
<1>2. IsChange(JobLine) /\ kind = JobLine.kind /\ q = TableOf[JobLine.rid]
      BY <1>1 DEF Stretch
<1>3. PICK l, at, n : l = oldLog /\ at = job.at /\ n = Len(oldLog)
      OBVIOUS
<1>4. at .. n = {at} \cup (at + 1 .. n)
      BY <1>1, <1>3
<1> DEFINE above == {l[j].rid : j \in at + 1 .. n}
           rids  == {l[j].rid : j \in at .. n}
<1>5. rids = above \cup {JobLine.rid}
      BY <1>1, <1>3, <1>4
<1>6. \A j \in at + 1 .. n : j \in DOMAIN l /\ l[j].rid # JobLine.rid
      BY <1>1, <1>3 DEF Stretch
<1>7. JobLine.rid \notin above
      BY <1>6
<1>8. /\ kind = "Insert" => batch.inserted = above
      /\ kind = "Delete" => batch.deleted = above
      /\ kind = "Update" =>
            /\ DOMAIN batch.updated = above
            /\ \A j \in at + 1 .. n : batch.updated[l[j].rid] = l[j].before
      BY <1>3 DEF BatchHolds
<1>9. kind = "Insert" => Collected.inserted = rids
      BY <1>2, <1>5, <1>8 DEF Collected
<1>10. kind = "Delete" => Collected.deleted = rids
       BY <1>2, <1>5, <1>8 DEF Collected
<1>11. ASSUME kind = "Update"
       PROVE  /\ DOMAIN Collected.updated = rids
              /\ \A j \in at .. n : Collected.updated[l[j].rid] = l[j].before
  <2>1. Collected.updated = [r \in above \cup {JobLine.rid} |->
                                IF r = JobLine.rid THEN JobLine.before ELSE batch.updated[r]]
        BY <1>2, <1>7, <1>8, <1>11 DEF Collected
  <2>2. DOMAIN Collected.updated = rids
        BY <1>5, <2>1
  <2>3. ASSUME NEW j \in at .. n
        PROVE  Collected.updated[l[j].rid] = l[j].before
    <3>1. CASE j = at
          BY <1>1, <1>3, <2>1, <3>1
    <3>2. CASE j # at
      <4>1. j \in at + 1 .. n
            BY <1>4, <3>2
      <4>2. l[j].rid \in above /\ l[j].rid # JobLine.rid /\ batch.updated[l[j].rid] = l[j].before
            BY <1>6, <1>8, <1>11, <4>1
      <4>3. QED
            BY <2>1, <4>2
    <3>3. QED
          BY <3>1, <3>2
  <2>4. QED
        BY <2>2, <2>3
<1>12. HoldsFrom(job.at, kind)
       BY <1>3, <1>9, <1>10, <1>11 DEF HoldsFrom
<1>13. QED
       BY <1>2, <1>12

\* A step of recovery leaves the rest alone.
LEMMA RecoveryStays ==
    ASSUME TablesIInv, RestoreInv, phase = "recover", UnchangedByUndo,
           UNCHANGED <<saved, opened, owed>>, RecoverOK', StaleOK'
    PROVE  RestoreInv'
<1>1. phase' = "recover" /\ log' = <<>> /\ op' = NoOp
      BY DEF UnchangedByUndo, RestoreInv, RecoverOK, TablesIInv, OpOK
<1>2. CountsOK'
      BY <1>1 DEF CountsOK, NoOp
<1>3. FreshOK' /\ QueryOK' /\ DownOK' /\ RollbackOK'
      BY <1>1 DEF FreshOK, QueryOK, DownOK, RollbackOK
<1>4. OwnOK'
      BY OwnStays DEF RestoreInv
<1>5. SavedOK'
  <2>1. \A s \in DOMAIN log' : FALSE
        BY <1>1
  <2>2. saved' \in [Hashes -> [Tables -> {None} \cup SUBSET (Slots \cup {Unreadable})]]
        BY DEF RestoreInv, SavedOK
  <2>3. QED
        BY <2>1, <2>2 DEF SavedOK
<1>6. QED
      BY <1>2, <1>3, <1>4, <1>5 DEF RestoreInv

LEMMA SkipsInRecovery ==
    ASSUME TablesIInv, RestoreInv, phase = "recover", UndoSkips, UNCHANGED <<saved, opened, owed>>
    PROVE  RestoreInv'
<1>1. /\ Undoing /\ ~IsChange(JobLine) /\ UnchangedByUndo
      /\ job' = [job EXCEPT !.at = @ - 1]
      /\ UNCHANGED <<file, holes, count, batch>>
      BY DEF UndoSkips, store
<1>2. /\ job.at \in Nat /\ job.target \in Nat /\ job.at > job.target
      /\ job.at \in DOMAIN JobLog /\ DOMAIN JobLog = 1 .. Len(JobLog)
      BY <1>1, TheJob DEF Undoing
<1>3. log' = log /\ oldLog' = oldLog /\ phase' = phase /\ JobLog' = JobLog
      BY <1>1 DEF UnchangedByUndo, JobLog
<1>4. job'.at = job.at - 1 /\ job'.target = job.target
      BY <1>1 DEF TablesIInv, TypeOK
<1>5. owed = Nothing
  <2>1. ASSUME NEW q \in Tables, NEW kind \in Kinds, Stretch(oldLog, job.target, q, kind)
        PROVE  FALSE
    <3>1. job.at \in DOMAIN oldLog /\ JobLine = oldLog[job.at]
          BY <1>2 DEF JobLog, JobLine
    <3>2. QED
          BY <1>1, <1>2, <2>1, <3>1 DEF Stretch
  <2>2. QED
        BY <2>1 DEF RestoreInv, RecoverOK
<1>6. RecoverOK'
      BY <1>3, <1>5 DEF RecoverOK, RestoreInv, Nothing
<1>7. ASSUME NEW kind, Due(kind)
      PROVE  Due(kind)'
  <2>1. PICK j \in job.target + 1 .. job.at :
           /\ IsChange(JobLog[j]) /\ JobLog[j].kind = kind
           /\ \A k \in j + 1 .. job.at : ~IsChange(JobLog[k])
        BY <1>7 DEF Due
  <2>2. j # job.at
        BY <1>1, <2>1 DEF JobLine
  <2>3. j \in job'.target + 1 .. job'.at /\ \A k \in j + 1 .. job'.at : k \in j + 1 .. job.at
        BY <1>2, <1>4, <2>1, <2>2
  <2>4. QED
        BY <1>3, <2>1, <2>3 DEF Due
<1>8. StaleOK'
      BY <1>1, <1>3, <1>7 DEF StaleOK, RestoreInv
<1>9. QED
      BY <1>1, <1>6, <1>8, RecoveryStays

LEMMA CollectsInRecovery ==
    ASSUME TablesIInv, RestoreInv, phase = "recover", UndoCollects, UNCHANGED <<saved, opened, owed>>
    PROVE  RestoreInv'
<1>1. /\ Undoing /\ IsChange(JobLine) /\ ~LastCall /\ Called /\ UnchangedByUndo
      /\ batch' = Collected /\ UNCHANGED <<file, holes, count>>
      BY DEF UndoCollects, store
<1>2. /\ job.at \in Nat /\ job.target \in Nat /\ job.at > job.target
      BY <1>1, TheJob DEF Undoing
<1>3. log' = log /\ oldLog' = oldLog /\ phase' = phase
      BY <1>1 DEF UnchangedByUndo
<1>4. job'.at = job.at - 1 /\ job'.target = job.target /\ job.target < job'.at
  <2>1. ~job.again /\ job.at # job.target + 1
        BY <1>1 DEF TablesIInv, JobOK, LastCall
  <2>2. job'.at = job.at - 1 /\ job'.target = job.target
        BY <1>1, <2>1, CalledJob
  <2>3. QED
        BY <1>2, <2>1, <2>2
<1>5. RecoverOK'
  <2>1. CASE owed = Nothing
        BY <1>3, <2>1 DEF RecoverOK, RestoreInv, Nothing
  <2>2. CASE owed # Nothing
    <3>1. PICK q \in Tables, kind \in Kinds :
              /\ Stretch(oldLog, job.target, q, kind)
              /\ BatchHolds(kind)
              /\ \A t \in Tables : owed[t] # None /\ holes[t] = {} => Owing(oldLog, job.target, t, owed[t])
          BY <1>2, <2>2 DEF RestoreInv, RecoverOK
    <3>2. HoldsFrom(job.at, kind)
          BY <1>1, <3>1, CollectedHolds
    <3>3. job'.at + 1 = job.at
          BY <1>2, <1>4
    <3>4. BatchHolds(kind)'
          BY <1>1, <1>3, <3>2, <3>3 DEF BatchHolds, HoldsFrom
    <3>5. Stretch(oldLog', job'.target, q, kind)
          BY <1>3, <1>4, <3>1
    <3>6. ASSUME NEW t \in Tables, owed'[t] # None, holes'[t] = {}
          PROVE  Owing(oldLog, job.target, t, owed[t])'
      <4>1. Owing(oldLog, job.target, t, owed[t])
            BY <1>1, <3>1, <3>6
      <4>2. QED
            BY <1>1, <1>3, <1>4, <4>1 DEF Owing, CountAhead
    <3>7. job'.target < job'.at
          BY <1>4
    <3>8. log' = <<>>
          BY <1>3 DEF RestoreInv, RecoverOK
    <3>9. QED
          BY <3>4, <3>5, <3>6, <3>7, <3>8 DEF RecoverOK
  <2>3. QED
        BY <2>1, <2>2
<1>6. StaleOK'
  <2>1. PICK kind : kind = JobLine.kind
        OBVIOUS
  <2>2. Due(kind)'
        BY <1>1, <2>1, StillDue
  <2>3. /\ batch.inserted # {} => Due("Insert")
        /\ DOMAIN batch.updated # {} => Due("Update")
        /\ batch.deleted # {} => Due("Delete")
        BY DEF StaleOK, RestoreInv
  <2>4. /\ batch'.inserted # {} => kind = "Insert"
        /\ DOMAIN batch'.updated # {} => kind = "Update"
        /\ batch'.deleted # {} => kind = "Delete"
        BY <1>1, <2>1, <2>3, OneDue, TheCollected
  <2>5. QED
        BY <1>3, <2>2, <2>4 DEF StaleOK
<1>7. QED
      BY <1>1, <1>5, <1>6, RecoveryStays

\* Tables that no line above lo is about are as they were.
LEMMA ElsewhereBrought ==
    ASSUME NEW t \in Tables, NEW l \in Seq(Lines), NEW lo \in Nat, lo <= Len(l),
           NEW q, t # q, NEW kind, Stretch(l, lo, q, kind), NEW shown, Owing(l, lo, t, shown),
           file[t] \in Seq(Slots), \A i \in DOMAIN file[t] : TableOf[file[t][i].rid] = t,
           count[t] \in Nat, holes'[t] = {}, file'[t] = file[t], count'[t] = count[t]
    PROVE  Except(Shown(t)', DeletedTwice(l, lo)) = Except(shown, DeletedTwice(l, lo))
<1>1. \A i \in DOMAIN file[t] : \A j \in DOMAIN l : lo < j => ~Touches(l[j], file[t][i].rid)
      BY DEF Stretch, Touches
<1>2. Len(file[t]) \in Nat
      OBVIOUS
<1>3. ~(count[t] > Len(file[t]))
      BY DEF Owing, CountAhead, Stretch
<1>4. count'[t] <= Len(file[t]) /\ count[t] <= Len(file[t])
      BY <1>2, <1>3
<1>5. \A i \in DOMAIN file[t] : i <= count[t] =>
          /\ file'[t][i].rid = file[t][i].rid
          /\ (\A j \in DOMAIN l : lo < j => ~Touches(l[j], file[t][i].rid)) =>
                file'[t][i].del = file[t][i].del /\ file'[t][i].val = file[t][i].val
          /\ \A j \in DOMAIN l : lo < j /\ Touches(l[j], file[t][i].rid) =>
                /\ file'[t][i].del = Mark(l[j])
                /\ file'[t][i].val = IF l[j].kind = "Update" THEN l[j].before.val ELSE file[t][i].val
      BY <1>1
<1>6. /\ file'[t] \in Seq(Slots) /\ count'[t] \in Nat /\ DOMAIN file'[t] = DOMAIN file[t]
      /\ \A i \in DOMAIN file[t] : i <= count'[t] <=> i <= count[t]
      OBVIOUS
<1>7. QED
      BY <1>4, <1>5, <1>6, Brought

\* The row of a line keeps after the last call what the line says.
LEMMA LeftByLine ==
    ASSUME phase = "recover", oldLog \in Seq(Lines), NEW kind, kind = JobLine.kind, IsChange(JobLine),
           NEW at \in Nat, HoldsFrom(at, kind), NEW j \in DOMAIN oldLog, at <= j, oldLog[j].kind = kind,
           NEW slot \in Slots, oldLog[j].rid = slot.rid
    PROVE  /\ slot.rid \in CollectedRids
           /\ LeftIn(slot).rid = slot.rid
           /\ LeftIn(slot).del = Mark(oldLog[j])
           /\ LeftIn(slot).val = IF oldLog[j].kind = "Update" THEN oldLog[j].before.val ELSE slot.val
<1>1. j \in at .. Len(oldLog)
      OBVIOUS
<1>2. kind \in Kinds
      BY DEF IsChange, Kinds
<1>3. CASE kind = "Insert"
  <2>1. slot.rid \in CollectedRids
        BY <1>1, <1>3 DEF HoldsFrom, CollectedRids
  <2>2. LeftIn(slot) = Slot(slot.rid, slot.val, "1")
        BY <1>3 DEF LeftIn
  <2>3. QED
        BY <1>3, <2>1, <2>2 DEF Slot, Mark
<1>4. CASE kind = "Delete"
  <2>1. slot.rid \in CollectedRids
        BY <1>1, <1>4 DEF HoldsFrom, CollectedRids
  <2>2. LeftIn(slot) = Slot(slot.rid, slot.val, "0")
        BY <1>4 DEF LeftIn
  <2>3. QED
        BY <1>4, <2>1, <2>2 DEF Slot, Mark
<1>5. CASE kind = "Update"
  <2>1. slot.rid \in CollectedRids
        BY <1>1, <1>5 DEF HoldsFrom, CollectedRids
  <2>2. Collected.updated[slot.rid] = oldLog[j].before
        BY <1>1, <1>5 DEF HoldsFrom
  <2>3. LeftIn(slot) = Slot(slot.rid, oldLog[j].before.val, oldLog[j].before.del)
        BY <1>5, <2>2 DEF LeftIn
  <2>4. QED
        BY <1>5, <2>1, <2>3 DEF Slot, Mark
<1>6. QED
      BY <1>2, <1>3, <1>4, <1>5 DEF Kinds

\* The last call of a recovery brings back what is owed.
LEMMA UndoneInRecovery ==
    ASSUME TablesIInv, RestoreInv, phase = "recover", UndoInsert \/ UndoUpdate \/ UndoDelete,
           UNCHANGED <<saved, opened, owed>>
    PROVE  RestoreInv'
<1>1. PICK t, k : t = TableOf[JobLine.rid] /\ k = JobLine.kind
      OBVIOUS
<1>2. /\ Undoing /\ IsChange(JobLine) /\ LastCall /\ Called /\ UnchangedByUndo /\ holes' = holes
      /\ t \in Tables /\ UndoneIn(t) /\ EmptiedOf(k)
      /\ \A u \in Tables : u # t => count'[u] = count[u]
      /\ count'[t] = IF k = "Insert" THEN Cardinality(Seen(t)) ELSE count[t]
      BY <1>1, TheUndone
<1>3. /\ job.at \in Nat /\ job.target \in Nat /\ job.at > job.target
      /\ JobLog = oldLog /\ JobLine = oldLog[job.at] /\ oldLog \in Seq(Lines)
      /\ job.at <= Len(oldLog) /\ Len(oldLog) \in Nat /\ DOMAIN oldLog = 1 .. Len(oldLog)
      BY <1>2, TheJob DEF Undoing, JobLog, JobLine
<1>4. log' = log /\ oldLog' = oldLog /\ phase' = phase
      BY <1>2 DEF UnchangedByUndo
<1>5. job.at = job.target + 1 /\ job'.at = job.target /\ job'.target = job.target
  <2>1. ~job.again /\ job.at = job.target + 1
        BY <1>2 DEF TablesIInv, JobOK, LastCall
  <2>2. QED
        BY <1>2, <1>3, <2>1, CalledJob
<1>6. TypeOK /\ FilesOK /\ TypeOK'
      BY UndoInsertKeeps, UndoUpdateKeeps, UndoDeleteKeeps DEF TablesIInv
<1>7. RecoverOK'
  <2>1. CASE owed = Nothing
        BY <1>4, <2>1 DEF RecoverOK, RestoreInv, Nothing
  <2>2. CASE owed # Nothing
    <3>1. PICK q \in Tables, kind \in Kinds :
              /\ Stretch(oldLog, job.target, q, kind)
              /\ BatchHolds(kind)
              /\ \A u \in Tables : owed[u] # None /\ holes[u] = {} => Owing(oldLog, job.target, u, owed[u])
          BY <1>3, <2>2 DEF RestoreInv, RecoverOK
    <3>2. HoldsFrom(job.at, kind) /\ kind = k /\ q = t
          BY <1>1, <1>2, <3>1, CollectedHolds
    <3>3. Stretch(oldLog', job'.target, q, kind)
          BY <1>4, <1>5, <3>1
    <3>4. ASSUME NEW u \in Tables, owed'[u] # None, holes'[u] = {}
          PROVE  Restored(u)'
      <4>1. PICK l, lo, shown : l = oldLog /\ lo = job.target /\ shown = owed[u]
            OBVIOUS
      <4>2. /\ l \in Seq(Lines) /\ lo \in Nat /\ lo <= Len(l) /\ Stretch(l, lo, q, kind)
            /\ Owing(l, lo, u, shown)
            BY <1>2, <1>3, <3>1, <3>4, <4>1
      <4>3. /\ file[u] \in Seq(Slots) /\ count[u] \in Nat /\ Len(file[u]) \in Nat
            /\ file'[u] \in Seq(Slots) /\ count'[u] \in Nat
            /\ DOMAIN file[u] = 1 .. Len(file[u])
            /\ \A i \in DOMAIN file[u] : TableOf[file[u][i].rid] = u
            BY SMTT(30), <1>6 DEF TypeOK, FilesOK
      <4>4. Except(Shown(u)', DeletedTwice(l, lo)) = Except(shown, DeletedTwice(l, lo))
        <5>1. CASE u # t
          <6>1. file'[u] = file[u] /\ count'[u] = count[u]
                BY <1>2, <5>1 DEF UndoneIn
          <6>2. QED
                BY SMTT(60), <3>2, <3>4, <4>2, <4>3, <5>1, <6>1, ElsewhereBrought
        <5>2. CASE u = t
          <6>1. DOMAIN file'[u] = DOMAIN file[u] /\ holes[u] = {}
                BY <1>2, <3>4, <5>2 DEF UndoneIn
          <6>2. count'[u] <= Len(file[u]) /\ \A i \in DOMAIN file[u] : i <= count'[u] <=> i <= count[u]
            <7>1. CASE k = "Insert"
              <8>1. PICK m \in Nat : /\ Seen(t) = 1 .. m /\ Cardinality(Seen(t)) = m
                                     /\ m <= count[t] /\ m <= Len(file[t])
                                     /\ m = count[t] \/ m = Len(file[t])
                    BY <4>3, <5>2, <6>1, SeenCount
              <8>2. count'[u] = m
                    BY <1>2, <5>2, <7>1, <8>1
              <8>3. QED
                    BY <4>3, <5>2, <8>1, <8>2
            <7>2. CASE k # "Insert"
              <8>1. count'[u] = count[u]
                    BY <1>2, <5>2, <7>2
              <8>2. ~(count[u] > Len(file[u]))
                    BY <3>2, <4>2, <7>2 DEF Owing, CountAhead, Stretch
              <8>3. QED
                    BY <4>3, <8>1, <8>2
            <7>3. QED
                  BY <7>1, <7>2
          <6>3. ASSUME NEW i \in DOMAIN file[u], i <= count[u]
                PROVE  /\ file'[u][i].rid = file[u][i].rid
                       /\ (\A j \in DOMAIN l : lo < j => ~Touches(l[j], file[u][i].rid)) =>
                             file'[u][i].del = file[u][i].del /\ file'[u][i].val = file[u][i].val
                       /\ \A j \in DOMAIN l : lo < j /\ Touches(l[j], file[u][i].rid) =>
                             /\ file'[u][i].del = Mark(l[j])
                             /\ file'[u][i].val = IF l[j].kind = "Update" THEN l[j].before.val
                                                  ELSE file[u][i].val
            <7>1. PICK slot \in Slots : slot = file[u][i]
                  BY <4>3
            <7>2. i \in Seen(t)
                  BY <4>3, <5>2, <6>1, <6>3 DEF Seen, Reads
            <7>3. file'[u][i] = IF slot.rid \in CollectedRids THEN LeftIn(slot) ELSE slot
                  BY <1>2, <5>2, <7>1, <7>2 DEF UndoneIn
            <7>4. ASSUME NEW j \in DOMAIN l, lo < j, Touches(l[j], slot.rid)
                  PROVE  /\ file'[u][i].rid = slot.rid
                         /\ file'[u][i].del = Mark(l[j])
                         /\ file'[u][i].val = IF l[j].kind = "Update" THEN l[j].before.val ELSE slot.val
              <8>1. j \in DOMAIN oldLog /\ job.at <= j /\ oldLog[j].kind = kind /\ oldLog[j].rid = slot.rid
                    BY SMTT(30), <1>3, <1>5, <4>1, <4>2, <7>4 DEF Stretch, Touches
              <8>2. /\ slot.rid \in CollectedRids
                    /\ LeftIn(slot).rid = slot.rid
                    /\ LeftIn(slot).del = Mark(oldLog[j])
                    /\ LeftIn(slot).val = IF oldLog[j].kind = "Update" THEN oldLog[j].before.val ELSE slot.val
                    BY <1>1, <1>2, <1>3, <3>2, <8>1, LeftByLine
              <8>3. QED
                    BY <4>1, <7>3, <8>2
            <7>5. ASSUME \A j \in DOMAIN l : lo < j => ~Touches(l[j], slot.rid)
                  PROVE  file'[u][i] = slot
              <8>1. ASSUME slot.rid \in CollectedRids
                    PROVE  FALSE
                <9>1. slot.rid \in {oldLog[j].rid : j \in job.at .. Len(oldLog)}
                      BY <1>1, <1>2, <3>2, <8>1 DEF HoldsFrom, CollectedRids, IsChange
                <9>2. PICK j \in job.at .. Len(oldLog) : oldLog[j].rid = slot.rid
                      BY <9>1
                <9>3. j \in DOMAIN l /\ lo < j
                      BY <1>3, <1>5, <4>1, <9>2
                <9>4. QED
                      BY <4>1, <4>2, <7>5, <9>2, <9>3 DEF Stretch, Touches
              <8>2. QED
                    BY <7>3, <8>1
            <7>6. CASE \A j \in DOMAIN l : lo < j => ~Touches(l[j], slot.rid)
                  BY <7>1, <7>5, <7>6
            <7>7. CASE \E j \in DOMAIN l : lo < j /\ Touches(l[j], slot.rid)
                  BY <7>1, <7>4, <7>7
            <7>8. QED
                  BY <7>6, <7>7
          <6>4. QED
                BY <3>4, <4>2, <4>3, <6>1, <6>2, <6>3, Brought
        <5>3. QED
              BY <5>1, <5>2
      <4>5. owed'[u] = shown /\ oldLog' = l /\ job'.target = lo
            BY <1>4, <1>5, <4>1
      <4>6. QED
            BY <4>4, <4>5 DEF Restored
    <3>5. ~(job'.target < job'.at)
          BY <1>3, <1>5
    <3>6. log' = <<>>
          BY <1>4 DEF RestoreInv, RecoverOK
    <3>7. QED
          BY <3>3, <3>4, <3>5, <3>6 DEF RecoverOK
  <2>3. QED
        BY <2>1, <2>2
<1>8. ASSUME StaleOK
      PROVE  StaleOK'
  <2>1. /\ batch.inserted # {} => Due("Insert")
        /\ DOMAIN batch.updated # {} => Due("Update")
        /\ batch.deleted # {} => Due("Delete")
        BY <1>8 DEF StaleOK
  <2>2. /\ batch.inserted # {} => k = "Insert"
        /\ DOMAIN batch.updated # {} => k = "Update"
        /\ batch.deleted # {} => k = "Delete"
        BY <1>1, <1>2, <2>1, OneDue
  <2>3. batch'.inserted = {} /\ DOMAIN batch'.updated = {} /\ batch'.deleted = {}
        BY <1>2, <2>2 DEF EmptiedOf
  <2>4. QED
        BY <1>4, <2>3 DEF StaleOK
<1>9. QED
      BY <1>2, <1>7, <1>8, RecoveryStays DEF RestoreInv

LEMMA EndsRestores ==
    ASSUME TablesIInv, RestoreInv, UndoEnds, UNCHANGED <<saved, opened, owed>>
    PROVE  RestoreInv'
<1>1. /\ phase \in {"rollback", "recover"} /\ job.at = job.target
      /\ rolled' = IF phase = "rollback" THEN rolled \cup {job.hash} ELSE rolled
      /\ phase' = "idle"
      /\ UNCHANGED <<file, holes, count, log, oldLog, batch, op, used>>
      BY DEF UndoEnds, store
<1>2. TypeOK /\ CountsOK /\ FreshOK /\ OwnOK /\ job.at \in Nat
      BY <1>1, TheJob DEF TablesIInv, RestoreInv
<1>3. CountsOK' /\ FreshOK'
      BY <1>1, <1>2 DEF CountsOK, CountOK, FreshOK
<1>4. QueryOK' /\ DownOK' /\ RecoverOK' /\ RollbackOK'
      BY <1>1 DEF QueryOK, DownOK, RecoverOK, RollbackOK
<1>5. OwnOK'
      BY <1>2, OwnStays
<1>6. StaleOK'
  <2>1. CASE phase = "rollback" /\ \A t \in Tables : holes[t] = {}
    <3>1. \A kind : ~Due(kind)
          BY <1>1, <1>2 DEF Due
    <3>2. batch.inserted = {} /\ DOMAIN batch.updated = {} /\ batch.deleted = {}
          BY <2>1, <3>1 DEF TablesIInv, BatchOK
    <3>3. QED
          BY <1>1, <3>2 DEF StaleOK, Waiting
  <2>2. CASE phase = "rollback" /\ \E t \in Tables : holes[t] # {}
    <3>1. ASSUME NEW r \in Waiting'
          PROVE  MayWait(TableOf[r])'
      <4>1. r \in Waiting
            BY <1>1, <3>1 DEF Waiting
      <4>2. PICK t : t = TableOf[r]
            OBVIOUS
      <4>3. MayWait(t)
            BY <2>2, <4>1, <4>2 DEF RestoreInv, StaleOK
      <4>4. holes[t] # {} \/ PassedOver(0, t)
        <5>1. log \in Seq(Lines) /\ job.target \in Nat /\ 0 \in Nat /\ 0 <= job.target
              BY <1>1, <1>2 DEF TypeOK
        <5>2. PassedOver(job.target, t) => PassedOver(0, t)
              BY <5>1, StraysBelow
        <5>3. QED
              BY <4>3, <5>2 DEF MayWait, LeftBehind
      <4>5. holes'[t] # {} \/ LeftBehind(t)'
            BY <1>1, <2>2, <4>4 DEF LeftBehind, PassedOver
      <4>6. MayWait(t)'
            BY <4>5 DEF MayWait
      <4>7. QED
            BY <4>2, <4>6
    <3>2. QED
          BY <1>1, <3>1 DEF StaleOK
  <2>3. CASE phase = "recover"
    <3>1. \A kind : ~Due(kind)
          BY <1>1, <1>2 DEF Due
    <3>2. batch.inserted = {} /\ DOMAIN batch.updated = {} /\ batch.deleted = {}
          BY <2>3, <3>1 DEF RestoreInv, StaleOK
    <3>3. QED
          BY <1>1, <3>2 DEF StaleOK, Waiting
  <2>4. QED
        BY <1>1, <2>1, <2>2, <2>3
<1>7. SavedOK'
  <2>1. UNCHANGED <<file, holes, count, log, op, saved>> /\ rolled \subseteq rolled' /\ phase # "down"
        BY <1>1
  <2>2. QED
        BY <2>1, SavedStays DEF RestoreInv
<1>8. QED
      BY <1>3, <1>4, <1>5, <1>6, <1>7 DEF RestoreInv

\* What is owed of tables that no line is about is owed without the log too.
LEMMA OwedElsewhere ==
    ASSUME NEW t \in Tables, NEW l \in Seq(Lines), NEW lo \in Nat, lo <= Len(l),
           NEW q, t # q, NEW kind, Stretch(l, lo, q, kind), NEW shown, Owing(l, lo, t, shown),
           file[t] \in Seq(Slots), \A i \in DOMAIN file[t] : TableOf[file[t][i].rid] = t,
           \A slot \in shown : slot \in Slots /\ TableOf[slot.rid] = t,
           count[t] \in Nat, NEW none, none = <<>>
    PROVE  Owing(none, 0, t, shown)
<1>1. PICK rows : rows = file[t]
      OBVIOUS
<1>2. \A i \in DOMAIN rows : \A j \in DOMAIN l : lo < j => ~Touches(l[j], rows[i].rid)
      BY <1>1 DEF Stretch, Touches
<1>3. rows \in Seq(Slots) /\ Back(l, lo, Len(l), rows, shown) /\ Len(rows) \in Nat
      BY <1>1 DEF Owing
<1>4. Back(l, lo, lo, rows, shown)
      BY <1>2, <1>3, BackAllUndone
<1>5. Except(Live(rows), DeletedTwice(l, lo)) = Except(shown, DeletedTwice(l, lo))
      BY <1>3, <1>4, BackDone
<1>6. \A r \in DeletedTwice(l, lo) : TableOf[r] = q
  <2>1. lo \in Nat /\ DOMAIN l = 1 .. Len(l) /\ Len(l) \in Nat
        OBVIOUS
  <2>2. QED
        BY <2>1 DEF DeletedTwice, Stretch
<1>7. \A slot \in Live(rows) : slot \in Slots /\ TableOf[slot.rid] = t
      BY <1>1, <1>3 DEF Live
<1>8. Live(rows) = shown
  <2>1. PICK live, twice : live = Live(rows) /\ twice = DeletedTwice(l, lo)
        OBVIOUS
  <2>2. Except(live, twice) = live
        BY <1>6, <1>7, <2>1 DEF Except
  <2>3. Except(shown, twice) = shown
        BY <1>6, <2>1 DEF Except
  <2>4. QED
        BY <1>5, <2>1, <2>2, <2>3
<1>9. none \in Seq(Lines) /\ Len(none) = 0 /\ DOMAIN none = {}
      OBVIOUS
<1>10. Back(none, 0, Len(none), rows, Live(rows))
       BY <1>3, <1>9, BackFresh
<1>11. ~(count[t] > Len(file[t]))
       BY DEF Owing, CountAhead, Stretch
<1>12. \A i \in DOMAIN file[t] : i <= count[t]
  <2>1. ASSUME NEW i \in DOMAIN file[t], InsertedAbove(l, lo, file[t][i].rid)
        PROVE  FALSE
    <3>1. PICK j \in DOMAIN l : lo < j /\ l[j] = InsertLine(rows[i].rid)
          BY <1>1, <2>1 DEF InsertedAbove
    <3>2. Touches(l[j], rows[i].rid)
          BY <3>1, LineKinds DEF Touches
    <3>3. QED
          BY <1>1, <1>2, <2>1, <3>1, <3>2
  <2>2. QED
        BY <2>1 DEF Owing
<1>13. QED
       BY <1>1, <1>8, <1>10, <1>11, <1>12 DEF Owing, CountAhead

LEMMA ThrowsInRecovery ==
    ASSUME TablesIInv, RestoreInv, phase = "recover", UndoThrows, UNCHANGED <<saved, opened, owed>>
    PROVE  RestoreInv'
<1>1. /\ Undoing /\ IsChange(JobLine) /\ holes[TableOf[JobLine.rid]] # {} /\ Stop
      /\ holes' = holes /\ \A u \in Tables : u # TableOf[JobLine.rid] => file'[u] = file[u]
      BY ThrownHalfway DEF TablesIInv, TypeOK
<1>2. OwnOK /\ OwnOK'
      BY OwnStays DEF RestoreInv
<1>3. PICK left, none : left = owed /\ none = <<>>
      OBVIOUS
<1>4. log = none /\ Len(none) = 0 /\ DOMAIN none = {}
      BY <1>3 DEF RestoreInv, RecoverOK
<1>5. /\ job.at \in Nat /\ job.target \in Nat /\ job.at > job.target /\ job.at <= Len(oldLog)
      /\ JobLine = oldLog[job.at] /\ oldLog \in Seq(Lines)
      BY <1>1, TheJob DEF Undoing, JobLog, JobLine
<1>6. ASSUME left # Nothing
      PROVE  \E lo \in 0 .. Len(log), q \in Tables, kind \in Kinds :
                 /\ RecoveryTarget(log, lo) /\ Stretch(log, lo, q, kind)
                 /\ \A t \in Tables : left[t] # None /\ holes'[t] = {} =>
                       file'[t] = file[t] /\ Owing(log, lo, t, left[t])
  <2>1. PICK q \in Tables, kind \in Kinds :
            /\ Stretch(oldLog, job.target, q, kind)
            /\ BatchHolds(kind)
            /\ \A u \in Tables : owed[u] # None /\ holes[u] = {} => Owing(oldLog, job.target, u, owed[u])
        BY <1>3, <1>5, <1>6 DEF RestoreInv, RecoverOK
  <2>2. q = TableOf[JobLine.rid]
        BY <1>1, <2>1, CollectedHolds
  <2>3. RecoveryTarget(log, 0) /\ Stretch(log, 0, q, kind)
        BY <1>3, <1>4 DEF RecoveryTarget, EndsClosed, Stretch
  <2>4. ASSUME NEW t \in Tables, left[t] # None, holes'[t] = {}
        PROVE  file'[t] = file[t] /\ Owing(log, 0, t, left[t])
    <3>1. t # q /\ holes[t] = {} /\ file'[t] = file[t]
          BY <1>1, <2>2, <2>4
    <3>2. PICK l, lo, shown : l = oldLog /\ lo = job.target /\ shown = left[t]
          OBVIOUS
    <3>3. /\ l \in Seq(Lines) /\ lo \in Nat /\ lo <= Len(l) /\ Stretch(l, lo, q, kind)
          /\ Owing(l, lo, t, shown)
          BY <1>3, <1>5, <2>1, <2>4, <3>1, <3>2
    <3>4. /\ file[t] \in Seq(Slots) /\ count[t] \in Nat
          /\ \A i \in DOMAIN file[t] : TableOf[file[t][i].rid] = t
          BY DEF TablesIInv, TypeOK, FilesOK
    <3>5. \A slot \in shown : slot \in Slots /\ TableOf[slot.rid] = t
          BY <1>2, <1>3, <2>4, <3>2 DEF OwnOK, Own
    <3>6. Owing(none, 0, t, shown)
          BY <1>3, <3>1, <3>3, <3>4, <3>5, OwedElsewhere
    <3>7. QED
          BY <1>4, <3>1, <3>2, <3>6
  <2>5. 0 \in 0 .. Len(log)
        BY <1>4
  <2>6. QED
        BY <2>3, <2>4, <2>5
<1>7. owed' = left /\ saved' = saved
      BY <1>3
<1>8. QED
      BY <1>1, <1>2, <1>6, <1>7, StopRestores

-----------------------------------------------------------------------------
(* Rollback: a call that is not the last is of a line that is passed over.  *)

LEMMA MissingLater ==
    ASSUME op' = NoOp, NEW t
    PROVE  Missing(t)' <=> count'[t] < Len(file'[t])
<1>1. PICK fs : fs = op'.frames
      OBVIOUS
<1>2. fs = <<>>
      BY <1>1 DEF NoOp
<1>3. DOMAIN fs = {}
      BY <1>2
<1>4. QED
      BY <1>1, <1>3 DEF Missing, FrameOf

\* The line under the cursor is undone in the rows of t.
LineUndone(t) ==
    /\ DOMAIN file'[t] = DOMAIN file[t]
    /\ \A i \in DOMAIN file[t] :
          /\ file'[t][i].rid = file[t][i].rid
          /\ file'[t][i].del = IF Touches(JobLine, file[t][i].rid) THEN Mark(JobLine) ELSE file[t][i].del
          /\ file'[t][i].val = IF Touches(JobLine, file[t][i].rid) /\ JobLine.kind = "Update"
                               THEN JobLine.before.val ELSE file[t][i].val

LEMMA RollbackGoesOn ==
    ASSUME TablesIInv, RestoreInv, phase = "rollback", Undoing, UnchangedByUndo,
           UNCHANGED <<holes, saved, opened, owed>>,
           job'.target = job.target, job'.hash = job.hash, job'.at = job.at \/ job'.at = job.at - 1,
           StaleOK',
           \A t \in Tables : holes[t] = {} /\ ~GoesAstray(job.target, t) =>
               (Missing(t) => Missing(t)') /\ (~Missing(t) => LineUndone(t))
    PROVE  RestoreInv'
<1>1. /\ phase' = "rollback" /\ log' = log /\ rolled' = rolled /\ op = NoOp /\ op' = NoOp
      BY DEF UnchangedByUndo, TablesIInv, OpOK
<1>2. CountsOK'
      BY <1>1 DEF CountsOK, NoOp
<1>3. FreshOK'
      BY <1>1 DEF FreshOK, RestoreInv
<1>4. QueryOK' /\ DownOK' /\ RecoverOK'
      BY <1>1 DEF QueryOK, DownOK, RecoverOK
<1>5. OwnOK'
      BY OwnStays DEF RestoreInv
<1>6. SavedOK' /\ RollbackOK'
  <2>1. SavedOK /\ RollbackOK
        BY DEF RestoreInv
  <2>2. PICK l, at, target : l = log /\ at = job.at /\ target = job.target
        OBVIOUS
  <2>3. /\ l \in Seq(Lines) /\ Len(l) \in Nat /\ DOMAIN l = 1 .. Len(l) /\ at \in Nat /\ target \in Nat
        /\ target < at /\ at <= Len(l) /\ at \in DOMAIN l /\ JobLine = l[at]
        BY <2>2, TheJob DEF Undoing, JobLog, JobLine
  <2>4. ASSUME NEW t \in Tables, holes[t] = {}, ~GoesAstray(target, t), ~Missing(t)
        PROVE  /\ DOMAIN file'[t] = DOMAIN file[t] /\ file[t] \in Seq(Slots)
               /\ \A i \in DOMAIN file[t] :
                     /\ file'[t][i].rid = file[t][i].rid
                     /\ file'[t][i].del = IF Touches(l[at], file[t][i].rid) THEN Mark(l[at]) ELSE file[t][i].del
                     /\ file'[t][i].val = IF Touches(l[at], file[t][i].rid) /\ l[at].kind = "Update"
                                          THEN l[at].before.val ELSE file[t][i].val
        BY <2>2, <2>3, <2>4 DEF LineUndone, TablesIInv, TypeOK
  <2>5. ASSUME NEW t \in Tables, holes[t] = {}, ~GoesAstray(target, t), ~Missing(t),
               NEW s \in Nat, s <= target, NEW hi \in Nat, at <= hi, NEW shown, Back(l, s, hi, file[t], shown)
        PROVE  Back(l, s, hi, file'[t], shown)
    <3>1. \A i \in DOMAIN file[t] :
              /\ file'[t][i].rid = file[t][i].rid
              /\ file'[t][i].del # file[t][i].del =>
                    \E j \in DOMAIN l : s < j /\ j <= hi /\ Touches(l[j], file[t][i].rid)
              /\ file'[t][i].val # file[t][i].val =>
                    \E j \in DOMAIN l : s < j /\ j <= hi /\ Touches(l[j], file[t][i].rid) /\ l[j].kind = "Update"
      <4>1. s < at /\ at <= hi
            BY <2>3, <2>5
      <4>2. QED
            BY <2>3, <2>4, <2>5, <4>1
    <3>2. QED
          BY <2>3, <2>4, <2>5, <3>1, BackWritten
  <2>6. ASSUME NEW t \in Tables, holes[t] = {}, ~GoesAstray(target, t), ~Missing(t), NEW shown, Back(l, target, at, file[t], shown)
        PROVE  Back(l, target, at - 1, file'[t], shown)
        BY <2>3, <2>4, <2>6, BackUndone
  <2>7. saved' \in [Hashes -> [Tables -> {None} \cup SUBSET (Slots \cup {Unreadable})]]
        BY <2>1 DEF SavedOK
  <2>8. ASSUME NEW h \in Hashes, NEW s \in DOMAIN log', Usable(h, s)'
        PROVE  s <= job'.target /\ Keeps(s, Len(log), h)'
    <3>1. s \in DOMAIN log /\ Usable(h, s)
          BY <1>1, <2>8 DEF Usable
    <3>2. s <= target /\ s \in Nat
          BY <2>1, <2>2, <2>3, <3>1 DEF RollbackOK
    <3>3. Keeps(s, Len(log), h)
          BY <2>1, <3>1 DEF SavedOK
    <3>4. ASSUME NEW t \in Tables, holes'[t] = {}, ~GoesAstray(s, t)', saved'[h][t] # {Unreadable},
                 ~Missing(t)'
          PROVE  Back(log', s, Len(log'), file'[t], saved'[h][t])
      <4>0. holes[t] = {} /\ ~GoesAstray(s, t) /\ ~GoesAstray(target, t)
        <5>1. GoesAstray(s, t)' <=> GoesAstray(s, t)
              BY <1>1 DEF GoesAstray, PassedOver, LeftBehind
        <5>2. QED
              BY <2>2, <2>3, <3>2, <3>4, <5>1, StraysBelow
      <4>1. holes[t] = {} /\ ~Missing(t) /\ saved[h][t] # {Unreadable}
            BY <2>2, <3>4, <4>0
      <4>2. Back(log, s, Len(log), file[t], saved[h][t])
            BY <3>3, <4>0, <4>1 DEF Keeps
      <4>3. PICK hi, shown : hi = Len(log) /\ shown = saved[h][t]
            OBVIOUS
      <4>4. hi \in Nat /\ at <= hi /\ Back(l, s, hi, file[t], shown)
            BY <2>2, <2>3, <4>2, <4>3
      <4>5. Back(l, s, hi, file'[t], shown)
            BY <2>5, <3>2, <4>0, <4>1, <4>4
      <4>6. log' = l /\ Len(log') = hi /\ saved'[h][t] = shown
            BY <1>1, <2>2, <4>3
      <4>7. QED
            BY <4>5, <4>6
    <3>5. Keeps(s, Len(log), h)'
          BY <3>4 DEF Keeps
    <3>6. QED
          BY <2>2, <3>2, <3>5
  <2>9. ASSUME job'.target # 0, log'[job'.target] = SavePointLine(job'.hash)
        PROVE  Keeps(job.target, job.at, job.hash)'
    <3>1. Keeps(job.target, job.at, job.hash)
          BY <1>1, <2>1, <2>9 DEF RollbackOK
    <3>2. PICK h : h = job.hash
          OBVIOUS
    <3>3. ASSUME NEW t \in Tables, holes'[t] = {}, ~GoesAstray(target, t)', saved'[h][t] # {Unreadable},
                 ~Missing(t)'
          PROVE  Back(log', job'.target, job'.at, file'[t], saved'[h][t])
      <4>0. holes[t] = {} /\ ~GoesAstray(target, t)
            BY <1>1, <3>3 DEF GoesAstray, PassedOver, LeftBehind
      <4>1. holes[t] = {} /\ ~Missing(t) /\ saved[h][t] # {Unreadable}
            BY <2>2, <3>3, <4>0
      <4>2. PICK shown : shown = saved[h][t]
            OBVIOUS
      <4>3. Back(l, target, at, file[t], shown)
            BY <2>2, <3>1, <3>2, <4>0, <4>1, <4>2 DEF Keeps
      <4>4. Back(l, target, at - 1, file'[t], shown)
            BY <2>6, <4>0, <4>1, <4>3
      <4>5. Back(l, target, at, file'[t], shown)
            BY <2>3, <2>5, <4>0, <4>1, <4>3
      <4>6. log' = l /\ job'.target = target /\ saved'[h][t] = shown /\ (job'.at = at \/ job'.at = at - 1)
            BY <1>1, <2>2, <4>2
      <4>7. QED
            BY <4>4, <4>5, <4>6
    <3>4. job'.hash = h
          BY <3>2
    <3>5. job'.target = target
          BY <2>2
    <3>6. \A t \in Tables : GoesAstray(job.target, t)' <=> GoesAstray(target, t)'
          BY <3>5 DEF GoesAstray, PassedOver
    <3>7. QED
          BY <3>3, <3>4, <3>6 DEF Keeps
  <2>10. QED
         BY <2>7, <2>8, <2>9 DEF SavedOK, RollbackOK
<1>7. QED
      BY <1>2, <1>3, <1>4, <1>5, <1>6 DEF RestoreInv

LEMMA SkipsInRollback ==
    ASSUME TablesIInv, RestoreInv, phase = "rollback", UndoSkips, UNCHANGED <<saved, opened, owed>>
    PROVE  RestoreInv'
<1>1. /\ Undoing /\ ~IsChange(JobLine) /\ UnchangedByUndo
      /\ job' = [job EXCEPT !.at = @ - 1]
      /\ UNCHANGED <<file, holes, count, batch>>
      BY DEF UndoSkips, store
<1>2. TypeOK /\ phase' = "rollback" /\ op = NoOp /\ op' = NoOp
      BY <1>1 DEF UnchangedByUndo, TablesIInv, OpOK
<1>3. job'.target = job.target /\ job'.hash = job.hash /\ job'.at = job.at - 1
      BY <1>1, <1>2 DEF TypeOK
<1>4. StaleOK'
  <2>1. \A r \in Waiting' : r \in Waiting
        BY <1>1 DEF Waiting
  <2>2. holes' = holes /\ log' = log
        BY <1>1 DEF UnchangedByUndo
  <2>3. StaleOK
        BY DEF RestoreInv
  <2>4. QED
        BY <1>2, <1>3, <2>1, <2>2, <2>3, WaitingStays
<1>5. ASSUME NEW t \in Tables
      PROVE  (Missing(t) => Missing(t)') /\ LineUndone(t)
  <2>1. Missing(t) => Missing(t)'
        BY <1>1, <1>2, IdleMissing, MissingLater
  <2>2. LineUndone(t)
        BY <1>1 DEF LineUndone, Touches
  <2>3. QED
        BY <2>1, <2>2
<1>6. UNCHANGED <<holes, saved, opened, owed>>
      BY <1>1
<1>7. QED
      BY <1>1, <1>3, <1>4, <1>5, <1>6, RollbackGoesOn

\* A call that is not the last is of a line that log_diff has passed over.
LEMMA NotTheLast ==
    ASSUME TablesIInv, phase = "rollback", Undoing, IsChange(JobLine), ~LastCall
    PROVE  PassedOver(job.target, TableOf[JobLine.rid])
<1>1. PICK line, a, lo, t : line = JobLine /\ a = job.at /\ lo = job.target /\ t = TableOf[line.rid]
      OBVIOUS
<1>2. /\ line = log[a] /\ a \in DOMAIN log /\ log \in Seq(Lines)
      /\ lo \in Nat /\ a \in Nat /\ DOMAIN log = 1 .. Len(log) /\ Len(log) \in Nat
      BY <1>1, TheJob DEF Undoing, JobLog, JobLine
<1>3. PICK j \in lo + 1 .. a - 1 :
         /\ IsChange(log[j]) /\ \A k \in j + 1 .. a - 1 : ~IsChange(log[k])
         /\ ~LogDiff(line, log[j])
      BY <1>1 DEF LastCall
<1>4. log[j].kind = line.kind /\ NamesDiffer[<<t, TableOf[log[j].rid]>>]
      BY <1>1, <1>3 DEF LogDiff
<1>5. j \in DOMAIN log /\ lo < j /\ j < a
      BY <1>2, <1>3
<1>6. PassedOver(lo, t)
      BY <1>1, <1>2, <1>3, <1>4, <1>5 DEF PassedOver
<1>7. QED
      BY <1>1, <1>6

LEMMA CollectsInRollback ==
    ASSUME TablesIInv, RestoreInv, phase = "rollback", UndoCollects, UNCHANGED <<saved, opened, owed>>
    PROVE  RestoreInv'
<1>1. /\ Undoing /\ IsChange(JobLine) /\ ~LastCall /\ Called /\ UnchangedByUndo
      /\ batch' = Collected /\ UNCHANGED <<file, holes, count>>
      BY DEF UndoCollects, store
<1>2. job.at \in Nat /\ op = NoOp /\ op' = NoOp /\ log' = log /\ phase' = "rollback"
      BY <1>1, TheJob DEF Undoing, UnchangedByUndo
<1>3. /\ job'.target = job.target /\ job'.hash = job.hash
      /\ job'.at = job.at \/ job'.at = job.at - 1
      BY <1>1, CalledJob
<1>4. PICK t, rid, lo : t = TableOf[JobLine.rid] /\ rid = JobLine.rid /\ lo = job.target
      OBVIOUS
<1>5. PassedOver(lo, t)
      BY <1>1, <1>4, NotTheLast
<1>6. StaleOK'
  <2>1. \A r \in Waiting' : r \in Waiting \/ r = rid
        BY <1>1, <1>4 DEF Waiting, Collected
  <2>2. ASSUME NEW u, MayWait(u)
        PROVE  MayWait(u)'
        BY <1>1, <1>2, <1>3, <2>2 DEF MayWait, LeftBehind, PassedOver
  <2>3. MayWait(t)
        BY <1>4, <1>5 DEF MayWait
  <2>4. \A r \in Waiting : MayWait(TableOf[r])
        BY DEF RestoreInv, StaleOK
  <2>5. \A r \in Waiting' : MayWait(TableOf[r])'
    <3>1. ASSUME NEW r \in Waiting'
          PROVE  MayWait(TableOf[r])'
      <4>1. PICK u : u = TableOf[r]
            OBVIOUS
      <4>2. MayWait(u)
            BY <1>4, <2>1, <2>3, <2>4, <3>1, <4>1
      <4>3. QED
            BY <2>2, <4>1, <4>2
    <3>2. QED
          BY <3>1
  <2>6. QED
        BY <1>2, <2>5 DEF StaleOK
<1>7. ASSUME NEW u \in Tables, ~GoesAstray(job.target, u)
      PROVE  (Missing(u) => Missing(u)') /\ LineUndone(u)
  <2>1. u # t
        BY <1>4, <1>5, <1>7 DEF GoesAstray
  <2>2. FilesOK
        BY DEF TablesIInv
  <2>3. \A i \in DOMAIN file[u] : ~Touches(JobLine, file[u][i].rid)
        BY <1>4, <2>1, <2>2 DEF Touches, FilesOK
  <2>4. LineUndone(u)
        BY <1>1, <2>3 DEF LineUndone
  <2>5. Missing(u) => Missing(u)'
        BY <1>1, <1>2, IdleMissing, MissingLater
  <2>6. QED
        BY <2>4, <2>5
<1>8. UNCHANGED <<holes, saved, opened, owed>>
      BY <1>1
<1>9. QED
      BY <1>1, <1>3, <1>6, <1>7, <1>8, RollbackGoesOn

\* What an undo throws at waits for the next.
LEMMA ThrowsInRollback ==
    ASSUME TablesIInv, RestoreInv, phase = "rollback", UndoThrows, UNCHANGED <<saved, opened, owed>>
    PROVE  RestoreInv'
<1>1. PICK t, rid : t = TableOf[JobLine.rid] /\ rid = JobLine.rid
      OBVIOUS
<1>2. PICK rids :
         /\ Undoing /\ IsChange(JobLine) /\ batch' = Remaining(rids) /\ phase' = "idle" /\ job' = NoJob
         /\ UNCHANGED <<holes, count, log, oldLog, rolled, op, used, starts>>
         /\ t \in Tables /\ holes[t] # {} /\ \A u \in Tables : u # t => file'[u] = file[u]
      BY <1>1, ThrownHalfway DEF TablesIInv, TypeOK
<1>3. op = NoOp /\ TypeOK
      BY DEF TablesIInv, OpOK
<1>4. CountsOK'
      BY <1>2, <1>3 DEF CountsOK, NoOp
<1>5. FreshOK'
      BY <1>2 DEF FreshOK, RestoreInv
<1>6. QueryOK' /\ DownOK' /\ RecoverOK' /\ RollbackOK'
      BY <1>2 DEF QueryOK, DownOK, RecoverOK, RollbackOK
<1>7. OwnOK'
      BY OwnStays DEF RestoreInv
<1>8. StaleOK'
  <2>1. /\ batch'.inserted \subseteq Collected.inserted
        /\ DOMAIN batch'.updated \subseteq DOMAIN Collected.updated
        /\ batch'.deleted \subseteq Collected.deleted
        BY <1>2, RemainingBatches
  <2>2. \A r \in Waiting' : r \in Waiting \/ r = rid
        BY <1>1, <2>1 DEF Waiting, Collected
  <2>3. ASSUME NEW r \in Waiting'
        PROVE  MayWait(TableOf[r])'
    <3>1. PICK u : u = TableOf[r]
          OBVIOUS
    <3>2. CASE r = rid
          BY <1>1, <1>2, <3>1, <3>2 DEF MayWait
    <3>3. CASE r # rid
      <4>1. MayWait(u)
            BY <1>2, <2>2, <2>3, <3>1, <3>3 DEF RestoreInv, StaleOK
      <4>2. PassedOver(job.target, u) => PassedOver(0, u)
        <5>1. log \in Seq(Lines) /\ job.target \in Nat /\ 0 \in Nat /\ 0 <= job.target
              BY <1>3, TheJob DEF TypeOK
        <5>2. QED
              BY <5>1, StraysBelow
      <4>3. holes[u] # {} \/ LeftBehind(u)
            BY <1>2, <4>1, <4>2 DEF MayWait, LeftBehind
      <4>4. holes'[u] # {} \/ LeftBehind(u)'
            BY <1>2, <4>3 DEF LeftBehind, PassedOver
      <4>5. QED
            BY <3>1, <4>4 DEF MayWait
    <3>4. QED
          BY <3>2, <3>3
  <2>4. QED
        BY <1>2, <2>3 DEF StaleOK
<1>9. SavedOK'
  <2>1. SavedOK /\ \A u \in Tables : holes[u] = {} => file'[u] = file[u]
        BY <1>2 DEF RestoreInv
  <2>2. QED
        BY <1>2, <2>1, SavedStays
<1>10. QED
       BY <1>4, <1>5, <1>6, <1>7, <1>8, <1>9 DEF RestoreInv

\* With nothing waiting for its table, the row of the line is the one undone.
LEMMA OnlyTheLine ==
    ASSUME TablesIInv, Undoing, IsChange(JobLine), phase = "rollback", StaleOK,
           NEW t, t = TableOf[JobLine.rid], holes[t] = {}, ~GoesAstray(job.target, t),
           NEW slot \in Slots, TableOf[slot.rid] = t
    PROVE  /\ slot.rid \in CollectedRids <=> slot.rid = JobLine.rid
           /\ slot.rid = JobLine.rid =>
                 /\ LeftIn(slot).rid = slot.rid
                 /\ LeftIn(slot).del = Mark(JobLine)
                 /\ LeftIn(slot).val = IF JobLine.kind = "Update" THEN JobLine.before.val ELSE slot.val
<1>1. PICK r, k, before : r = JobLine.rid /\ k = JobLine.kind /\ before = JobLine.before
      OBVIOUS
<1>2. k \in Kinds
      BY <1>1, TheJob DEF Undoing
<1>3. r \notin Waiting /\ slot.rid \notin Waiting
      BY <1>1 DEF StaleOK, MayWait, GoesAstray
<1>4. CASE k = "Insert"
  <2>1. CollectedRids = batch.inserted \cup {r}
        BY <1>1, <1>4 DEF CollectedRids, Collected
  <2>2. LeftIn(slot) = Slot(slot.rid, slot.val, "1")
        BY <1>1, <1>4 DEF LeftIn
  <2>3. QED
        BY <1>1, <1>3, <1>4, <2>1, <2>2 DEF Slot, Mark, Waiting
<1>5. CASE k = "Delete"
  <2>1. CollectedRids = batch.deleted \cup {r}
        BY <1>1, <1>5 DEF CollectedRids, Collected
  <2>2. LeftIn(slot) = Slot(slot.rid, slot.val, "0")
        BY <1>1, <1>5 DEF LeftIn
  <2>3. QED
        BY <1>1, <1>3, <1>5, <2>1, <2>2 DEF Slot, Mark, Waiting
<1>6. CASE k = "Update"
  <2>1. r \notin DOMAIN batch.updated
        BY <1>3 DEF Waiting
  <2>2. PICK m : m = [s \in DOMAIN batch.updated \cup {r} |-> IF s = r THEN before ELSE batch.updated[s]]
        OBVIOUS
  <2>3. Collected.updated = m
        BY <1>1, <1>6, <2>1, <2>2 DEF Collected
  <2>4. DOMAIN m = DOMAIN batch.updated \cup {r} /\ m[r] = before
        BY <2>2
  <2>5. CollectedRids = DOMAIN batch.updated \cup {r}
        BY <1>1, <1>6, <2>3, <2>4 DEF CollectedRids
  <2>6. LeftIn(slot) = Slot(slot.rid, m[slot.rid].val, m[slot.rid].del)
        BY <1>1, <1>6, <2>3 DEF LeftIn
  <2>7. QED
        BY <1>1, <1>3, <1>6, <2>4, <2>5, <2>6 DEF Slot, Mark, Waiting
<1>7. QED
      BY <1>2, <1>4, <1>5, <1>6 DEF Kinds

LEMMA UndoneInRollback ==
    ASSUME TablesIInv, RestoreInv, phase = "rollback", UndoInsert \/ UndoUpdate \/ UndoDelete,
           UNCHANGED <<saved, opened, owed>>
    PROVE  RestoreInv'
<1>1. PICK q, k : q = TableOf[JobLine.rid] /\ k = JobLine.kind
      OBVIOUS
<1>2. /\ Undoing /\ IsChange(JobLine) /\ Called /\ UnchangedByUndo /\ holes' = holes
      /\ q \in Tables /\ UndoneIn(q) /\ EmptiedOf(k)
      /\ \A u \in Tables : u # q => count'[u] = count[u]
      /\ count'[q] = IF k = "Insert" THEN Cardinality(Seen(q)) ELSE count[q]
      BY <1>1, TheUndone
<1>3. TypeOK /\ FilesOK /\ phase' = "rollback" /\ op = NoOp /\ op' = NoOp
      BY <1>2 DEF UnchangedByUndo, TablesIInv, OpOK
<1>4. job.at \in Nat
      BY <1>2, TheJob DEF Undoing
<1>5. /\ job'.target = job.target /\ job'.hash = job.hash
      /\ job'.at = job.at \/ job'.at = job.at - 1
      BY <1>2, CalledJob
<1>6. StaleOK'
  <2>1. \A r \in Waiting' : r \in Waiting
        BY <1>2 DEF Waiting, EmptiedOf
  <2>2. holes' = holes /\ log' = log
        BY <1>2 DEF UnchangedByUndo
  <2>3. StaleOK
        BY DEF RestoreInv
  <2>4. QED
        BY <1>3, <1>5, <2>1, <2>2, <2>3, WaitingStays
<1>7. ASSUME NEW t \in Tables, holes[t] = {}, ~GoesAstray(job.target, t)
      PROVE  (Missing(t) => Missing(t)') /\ (~Missing(t) => LineUndone(t))
  <2>1. /\ file[t] \in Seq(Slots) /\ Len(file[t]) \in Nat /\ DOMAIN file[t] = 1 .. Len(file[t])
        /\ count[t] \in Nat /\ file' \in [Tables -> Seq(Slots)]
        /\ \A i \in DOMAIN file[t] : file[t][i] \in Slots /\ TableOf[file[t][i].rid] = t
        BY <1>2, <1>3 DEF TypeOK, FilesOK, UndoneIn
  <2>2. CASE t # q
    <3>1. file'[t] = file[t] /\ count'[t] = count[t]
          BY <1>2, <2>2 DEF UndoneIn
    <3>2. Missing(t) => Missing(t)'
          BY <1>3, <3>1, IdleMissing, MissingLater
    <3>3. \A i \in DOMAIN file[t] : ~Touches(JobLine, file[t][i].rid)
          BY <1>1, <2>1, <2>2 DEF Touches
    <3>4. LineUndone(t)
          BY <3>1, <3>3 DEF LineUndone
    <3>5. QED
          BY <3>2, <3>4
  <2>3. CASE t = q
    <3>1. DOMAIN file'[t] = DOMAIN file[t] /\ Len(file'[t]) = Len(file[t])
          BY <1>2, <2>1, <2>3 DEF UndoneIn
    <3>2. PICK m \in Nat : /\ Seen(t) = 1 .. m /\ Cardinality(Seen(t)) = m
                           /\ m <= count[t] /\ m <= Len(file[t])
                           /\ m = count[t] \/ m = Len(file[t])
          BY <1>7, <2>1, SeenCount
    <3>3. count'[t] = m \/ count'[t] = count[t]
          BY <1>2, <2>3, <3>2
    <3>4. count[t] < Len(file[t]) => count'[t] < Len(file'[t])
          BY <2>1, <3>1, <3>2, <3>3
    <3>5. Missing(t) => Missing(t)'
          BY <1>3, <3>4, IdleMissing, MissingLater
    <3>6. ASSUME ~Missing(t)
          PROVE  LineUndone(t)
      <4>1. ~(count[t] < Len(file[t]))
            BY <1>3, <3>6, IdleMissing
      <4>2. Seen(t) = DOMAIN file[t]
            BY <2>1, <3>2, <4>1
      <4>3. ASSUME NEW i \in DOMAIN file[t]
            PROVE  /\ file'[t][i].rid = file[t][i].rid
                   /\ file'[t][i].del = IF Touches(JobLine, file[t][i].rid) THEN Mark(JobLine)
                                        ELSE file[t][i].del
                   /\ file'[t][i].val = IF Touches(JobLine, file[t][i].rid) /\ JobLine.kind = "Update"
                                        THEN JobLine.before.val ELSE file[t][i].val
        <5>1. PICK slot \in Slots : slot = file[t][i]
              BY <2>1
        <5>2. file'[t][i] = IF slot.rid \in CollectedRids THEN LeftIn(slot) ELSE slot
              BY <1>2, <2>3, <4>2, <5>1 DEF UndoneIn
        <5>3. StaleOK
              BY DEF RestoreInv
        <5>4. /\ slot.rid \in CollectedRids <=> slot.rid = JobLine.rid
              /\ slot.rid = JobLine.rid =>
                    /\ LeftIn(slot).rid = slot.rid
                    /\ LeftIn(slot).del = Mark(JobLine)
                    /\ LeftIn(slot).val = IF JobLine.kind = "Update" THEN JobLine.before.val ELSE slot.val
              BY <1>1, <1>2, <1>7, <2>1, <2>3, <5>1, <5>3, OnlyTheLine
        <5>5. Touches(JobLine, slot.rid) <=> slot.rid = JobLine.rid
              BY <1>2 DEF Touches
        <5>6. QED
              BY <5>1, <5>2, <5>4, <5>5
      <4>4. QED
            BY <3>1, <4>3 DEF LineUndone
    <3>7. QED
          BY <3>5, <3>6
  <2>4. QED
        BY <2>2, <2>3
<1>8. UNCHANGED <<holes, saved, opened, owed>>
      BY <1>2
<1>9. QED
      BY <1>2, <1>5, <1>6, <1>7, <1>8, RollbackGoesOn

-----------------------------------------------------------------------------
(* The theorems. *)

LEMMA InitiallyRestores == HInit => RestoreInv
<1> SUFFICES ASSUME HInit PROVE RestoreInv
    OBVIOUS
<1>1. /\ log = <<>> /\ batch = NoBatch /\ phase = "down" /\ op = NoOp
      /\ saved = [h \in Hashes |-> Nothing] /\ opened = Nothing /\ owed = Nothing
      BY DEF HInit, Init
<1>2. CountsOK
      BY <1>1 DEF CountsOK, NoOp
<1>3. QueryOK /\ DownOK /\ RecoverOK /\ RollbackOK
      BY <1>1 DEF QueryOK, DownOK, RecoverOK, RollbackOK
<1>4. FreshOK
      BY <1>1 DEF FreshOK
<1>5. OwnOK
      BY <1>1 DEF OwnOK, Own, Nothing
<1>6. StaleOK
      BY <1>1 DEF StaleOK, Waiting, NoBatch
<1>7. SavedOK
      BY <1>1 DEF SavedOK, Nothing
<1>8. QED
      BY <1>2, <1>3, <1>4, <1>5, <1>6, <1>7 DEF RestoreInv

LEMMA StutterRestores ==
    ASSUME RestoreInv, UNCHANGED hvars
    PROVE  RestoreInv'
<1>1. UNCHANGED <<file, holes, count, log, oldLog, rolled, batch, phase, op, job, saved, opened, owed>>
      BY DEF hvars, vars, store
<1>2. CountsOK' /\ FreshOK' /\ OwnOK'
      BY <1>1 DEF RestoreInv, CountsOK, CountOK, FreshOK, OwnOK, Own
<1>3. QueryOK'
  <2>1. ASSUME NEW lo, OpenedAt(lo)
        PROVE  OpenedAt(lo)'
    <3>1. LinesAbove(lo)' /\ ScanAbove(lo)' /\ FramesAbove(lo)'
          BY <1>1, <2>1 DEF OpenedAt, LinesAbove, ScanAbove, TouchedAbove, FramesAbove, FrameAbove,
                            InsertedAbove, Row
    <3>2. (~Nests(op.table))' => OneTable(lo)'
          BY <1>1, <2>1 DEF OpenedAt, OneTable, Nests
    <3>3. OpenedBack(lo)'
          BY <1>1, <2>1 DEF OpenedAt, OpenedBack, CountAhead, Counted, FrameOf, InsertedAbove
    <3>4. QED
          BY <3>1, <3>2, <3>3 DEF OpenedAt
  <2>2. QED
        BY <1>1, <2>1 DEF RestoreInv, QueryOK
<1>4. DownOK'
  <2>1. CASE phase = "down" /\ owed # Nothing
    <3>1. PICK lo \in 0 .. Len(log), q \in Tables, kind \in Kinds :
              /\ RecoveryTarget(log, lo) /\ Stretch(log, lo, q, kind)
              /\ \A t \in Tables : owed[t] # None /\ holes[t] = {} => Owing(log, lo, t, owed[t])
          BY <2>1 DEF RestoreInv, DownOK
    <3>2. \A t \in Tables : Owing(log, lo, t, owed[t]) => Owing(log, lo, t, owed[t])'
          BY <1>1 DEF Owing, CountAhead
    <3>3. QED
          BY <1>1, <2>1, <3>1, <3>2 DEF RestoreInv, DownOK
  <2>2. CASE phase # "down" \/ owed = Nothing
        BY <1>1, <2>2 DEF RestoreInv, DownOK, Nothing
  <2>3. QED
        BY <2>1, <2>2
<1>5. RecoverOK'
  <2>1. ASSUME NEW t, Restored(t)
        PROVE  Restored(t)'
        BY <1>1, <2>1 DEF Restored, Shown, Whole, Reads
  <2>2. ASSUME NEW t, NEW l, NEW lo, NEW shown, Owing(l, lo, t, shown)
        PROVE  Owing(l, lo, t, shown)'
        BY <1>1, <2>2 DEF Owing, CountAhead
  <2>3. ASSUME NEW kind, BatchHolds(kind)
        PROVE  BatchHolds(kind)'
        BY <1>1, <2>3 DEF BatchHolds
  <2>4. CASE owed = Nothing
        BY <1>1, <2>4 DEF RestoreInv, RecoverOK, Nothing
  <2>5. CASE owed # Nothing /\ phase = "recover"
    <3>1. PICK q \in Tables, kind \in Kinds :
              /\ Stretch(oldLog, job.target, q, kind)
              /\ job.target < job.at => BatchHolds(kind)
              /\ \A t \in Tables : owed[t] # None /\ holes[t] = {} =>
                    IF job.target < job.at THEN Owing(oldLog, job.target, t, owed[t]) ELSE Restored(t)
          BY <2>5 DEF RestoreInv, RecoverOK
    <3>2. PICK l, lo : l = oldLog /\ lo = job.target
          OBVIOUS
    <3>3. oldLog' = l /\ job'.target = lo
          BY <1>1, <3>2
    <3>4. Stretch(oldLog', job'.target, q, kind) /\ (job'.target < job'.at => BatchHolds(kind)')
          BY <1>1, <2>3, <3>1
    <3>5. ASSUME NEW t \in Tables, owed'[t] # None, holes'[t] = {}
          PROVE  IF job'.target < job'.at THEN Owing(oldLog, job.target, t, owed[t])' ELSE Restored(t)'
      <4>1. PICK shown : shown = owed[t]
            OBVIOUS
      <4>2. owed'[t] = shown
            BY <1>1, <4>1
      <4>3. IF job'.target < job'.at THEN Owing(l, lo, t, shown)' ELSE Restored(t)'
            BY <1>1, <2>1, <2>2, <3>1, <3>2, <3>5, <4>1
      <4>4. Owing(l, lo, t, shown)' => Owing(oldLog, job.target, t, owed[t])'
            BY <3>3, <4>2 DEF Owing
      <4>5. QED
            BY <4>3, <4>4
    <3>6. log' = <<>>
          BY <1>1, <2>5 DEF RestoreInv, RecoverOK
    <3>7. QED
          BY <3>4, <3>5, <3>6 DEF RecoverOK
  <2>6. CASE phase # "recover"
        BY <1>1, <2>6 DEF RecoverOK
  <2>7. QED
        BY <2>4, <2>5, <2>6
<1>6. StaleOK' /\ SavedOK' /\ RollbackOK'
  <2>1. StaleOK'
    <3>1. ASSUME NEW t
          PROVE  MayWait(t) <=> MayWait(t)'
          BY <1>1 DEF MayWait, LeftBehind, PassedOver
    <3>2. QED
          BY <1>1, <3>1 DEF RestoreInv, StaleOK, Waiting, Due, JobLog
  <2>2. ASSUME NEW s, NEW at, NEW h, Keeps(s, at, h)
        PROVE  Keeps(s, at, h)'
        BY <1>1, <2>2, KeepsStays
  <2>3. SavedOK'
        BY <1>1, <2>2 DEF RestoreInv, SavedOK, Usable
  <2>4. RollbackOK'
        BY <1>1, <2>2 DEF RestoreInv, RollbackOK, Usable
  <2>5. QED
        BY <2>1, <2>3, <2>4
<1>7. QED
      BY <1>2, <1>3, <1>4, <1>5, <1>6 DEF RestoreInv

LEMMA UndoRestores ==
    ASSUME TablesIInv, RestoreInv, Undo, UNCHANGED <<saved, opened, owed>>
    PROVE  RestoreInv'
<1>1. CASE UndoSkips
  <2>1. phase = "rollback" \/ phase = "recover"
        BY <1>1 DEF UndoSkips, Undoing
  <2>2. QED
        BY <1>1, <2>1, SkipsInRollback, SkipsInRecovery
<1>2. CASE UndoCollects
  <2>1. phase = "rollback" \/ phase = "recover"
        BY <1>2 DEF UndoCollects, Undoing
  <2>2. QED
        BY <1>2, <2>1, CollectsInRollback, CollectsInRecovery
<1>3. CASE UndoInsert \/ UndoUpdate \/ UndoDelete
  <2>1. phase = "rollback" \/ phase = "recover"
        BY Zenon, <1>3 DEF UndoInsert, UndoUpdate, UndoDelete, Undoes, Undoing
  <2>2. QED
        BY Zenon, <1>3, <2>1, UndoneInRollback, UndoneInRecovery
<1>4. CASE UndoThrows
  <2>1. phase = "rollback" \/ phase = "recover"
        BY <1>4 DEF UndoThrows, Undoing
  <2>2. QED
        BY <1>4, <2>1, ThrowsInRollback, ThrowsInRecovery
<1>5. CASE UndoEnds
      BY <1>5, EndsRestores
<1>6. QED
      BY <1>1, <1>2, <1>3, <1>4, <1>5 DEF Undo

LEMMA StepRestores == TablesIInv /\ RestoreInv /\ [HNext]_hvars => RestoreInv'
<1> SUFFICES ASSUME TablesIInv, RestoreInv, [HNext]_hvars PROVE RestoreInv'
    OBVIOUS
<1>1. CASE UNCHANGED hvars
      BY <1>1, StutterRestores
<1>2. CASE /\ \E h \in Hashes : SavePoint(h) /\ saved' = [saved EXCEPT ![h] = AllShown]
           /\ UNCHANGED <<opened, owed>>
      BY <1>2, SavePointRestores
<1>3. CASE /\ Open /\ opened' = [t \in Tables |-> IF Sound(t) THEN Shown(t) ELSE None]
           /\ UNCHANGED <<saved, owed>>
  <2>1. PICK kind \in Kinds, t \in Tables : BeginQuery(kind, t)
        BY <1>3 DEF Open, Kinds
  <2>2. QED
        BY <1>3, <2>1, BeginRestores
<1>4. CASE /\ Write /\ opened' = (IF phase' = "query" THEN opened ELSE Nothing)
           /\ UNCHANGED <<saved, owed>>
      BY <1>4, WriteRestores
<1>5. CASE Crash /\ owed' = Owed /\ opened' = Nothing /\ UNCHANGED saved
      BY <1>5, CrashRestores
<1>6. CASE (Start \/ Undo \/ \E h \in Hashes : RollbackTo(h)) /\ UNCHANGED <<saved, opened, owed>>
  <2>1. UNCHANGED <<saved, opened, owed>>
        BY <1>6
  <2>2. CASE Start
        BY <2>1, <2>2, StartRestores
  <2>3. CASE Undo
        BY <2>1, <2>3, UndoRestores
  <2>4. CASE \E h \in Hashes : RollbackTo(h)
        BY <2>1, <2>4, RollbackBegins
  <2>5. QED
        BY <1>6, <2>2, <2>3, <2>4
<1>7. QED
      BY <1>1, <1>2, <1>3, <1>4, <1>5, <1>6 DEF HNext

\* What the log, the files and the batches have in common while tables are
\* written, rolled back and recovered: undoing the lines above the savepoint,
\* or those of the transaction under way, leaves the rows that were shown then.
THEOREM RestoreInvariant == HSpec => []RestoreInv
<1>1. HSpec => HInit /\ [][HNext]_hvars
      BY DEF HSpec
<1>2. QED
      BY <1>1, InitiallyRestores, StepRestores, TablesInvariant, PTL

\* When recover() has undone the lines of the query that a crash cut off, a
\* select shows what it showed when the query was opened, but for rows deleted
\* twice: of every table whose rows were counted then and have kept their length,
\* unless the crash lost its count, after a query on a table without nested rows.
THEOREM RecoveryIsRight == HSpec => []RecoveryRestores
<1>1. TablesIInv /\ RestoreInv => RecoveryRestores
  <2> SUFFICES ASSUME TablesIInv, RestoreInv, Recovered, NEW t \in Tables, owed[t] # None, holes[t] = {}
               PROVE  Restored(t)
      BY DEF RecoveryRestores, Restored
  <2>1. phase = "recover" /\ job.at = job.target
        BY DEF Recovered
  <2>2. owed # Nothing
        BY DEF Nothing
  <2>3. ~(job.target < job.at)
        BY <2>1, TheJob
  <2>4. QED
        BY <2>1, <2>2, <2>3 DEF RestoreInv, RecoverOK
<1>2. QED
      BY <1>1, TablesInvariant, RestoreInvariant, PTL

\* When rollback() has undone the lines down to its savepoint, a select shows
\* the rows it showed when the savepoint was logged, but for rows deleted twice,
\* of every table whose rows are counted and have kept their length, and of which
\* log_diff has passed over no line.
THEOREM RollbackIsRight == HSpec => []RollbackRestores
<1>1. TablesIInv /\ RestoreInv => RollbackRestores
  <2> SUFFICES ASSUME TablesIInv, RestoreInv, phase = "rollback", job.at = job.target,
                      job.target # 0, log[job.target] = SavePointLine(job.hash),
                      NEW t \in Tables, Sound(t), saved[job.hash][t] # {Unreadable},
                      ~PassedOver(job.target, t), ~LeftBehind(t)
               PROVE  LET twice == DeletedTwice(log, job.target) IN
                      Except(Shown(t), twice) = Except(saved[job.hash][t], twice)
      BY DEF RollbackRestores
  <2>1. PICK l, at, rows, shown : /\ l = log /\ at = job.at /\ rows = file[t]
                                  /\ shown = saved[job.hash][t]
        OBVIOUS
  <2>2. l \in Seq(Lines) /\ at \in Nat /\ rows \in Seq(Slots) /\ op = NoOp
        BY <2>1 DEF TablesIInv, TypeOK, OpOK
  <2>3. ~Missing(t) /\ holes[t] = {}
    <3>1. count[t] = Len(rows) /\ Len(rows) \in Nat /\ holes[t] = {}
          BY <2>1, <2>2 DEF Sound
    <3>2. QED
          BY <2>1, <2>2, <3>1, IdleMissing
  <2>4. Keeps(job.target, job.at, job.hash)
        BY DEF RestoreInv, RollbackOK
  <2>5. Back(l, at, at, rows, shown)
        BY <2>1, <2>3, <2>4 DEF Keeps, GoesAstray
  <2>6. Except(Live(rows), DeletedTwice(l, at)) = Except(shown, DeletedTwice(l, at))
        BY <2>2, <2>5, BackDone
  <2>7. Shown(t) = Live(rows)
        BY <2>1, <2>2, SoundShows
  <2>8. QED
        BY <2>1, <2>6, <2>7
<1>2. QED
      BY <1>1, TablesInvariant, RestoreInvariant, PTL
=============================================================================
