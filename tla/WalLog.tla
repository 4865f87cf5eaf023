------------------------------- MODULE WalLog -------------------------------
(***************************************************************************)
(* The lines BrightMoon's WriteAheadLogger writes to wal.log, and what its *)
(* two readers, rollback() and recover(), look for when they walk a log    *)
(* from its last line towards its first.                                   *)
(*                                                                         *)
(* A line keeps the part of its text that a reader uses: the kind (the     *)
(* first word of the line), the hash of a savepoint, and for a change the  *)
(* record it names and the content undo leaves in that record.  The        *)
(* database and the collection of a change are those of its record.        *)
(***************************************************************************)
EXTENDS Naturals, Sequences

CONSTANTS
    Colls,      \* collections, over all databases
    Rids,       \* record ids, the names of the .ldbdoc files
    CollOf,     \* CollOf[r]: the collection in which r is created
    Values,     \* contents a document can have
    Hashes,     \* savepoint hashes, given by the user or generated
    Absent      \* a record that has no file

ASSUME WalLogAssumption ==
    /\ CollOf \in [Rids -> Colls]
    /\ Absent \notin Values

Rows == Values \cup {Absent}

OpenLine            == [kind |-> "Open"]
CloseLine           == [kind |-> "Close"]
SavePointLine(h)    == [kind |-> "SavePoint", hash |-> h]
TruncateLine(c)     == [kind |-> "Truncate", coll |-> c]

\* Insert logs the whole new document, but undoInsert reads only its _rid and
\* removes the file: what it leaves behind is no file at all.
InsertLine(r)       == [kind |-> "Insert", rid |-> r, before |-> Absent]
UpdateLine(r, old)  == [kind |-> "Update", rid |-> r, before |-> old]
DeleteLine(r, old)  == [kind |-> "Delete", rid |-> r, before |-> old]

Lines ==
    {OpenLine, CloseLine}
        \cup [kind : {"SavePoint"}, hash : Hashes]
        \cup [kind : {"Truncate"}, coll : Colls]
        \cup [kind : {"Insert"}, rid : Rids, before : {Absent}]
        \cup [kind : {"Update", "Delete"}, rid : Rids, before : Values]

-----------------------------------------------------------------------------
(* What the readers recognise. *)

\* Mutant: delete lines forgotten, as with the letters "IU".
IsChangeNoDelete(line) == line.kind \in {"Insert", "Update"}

\* rollback() keeps the lines whose first letter is in "IUD"; recover() undoes
\* the same three and logs an error for any other line.
IsChange(line) == line.kind \in {"Insert", "Update", "Delete"}

\* Line i of l is the last savepoint with hash h: the one a backward scan for
\* h stops at.
IsLastSave(l, i, h) ==
    /\ i \in DOMAIN l
    /\ l[i] = SavePointLine(h)
    /\ \A j \in DOMAIN l : j > i => l[j] # SavePointLine(h)

\* Mutant: a scan for the hash from the first line on.
RollbackTargetFirst(l, h, t) ==
    \/ /\ t \in DOMAIN l /\ l[t] = SavePointLine(h)
       /\ \A j \in DOMAIN l : j < t => l[j] # SavePointLine(h)
    \/ /\ t = Len(l)
       /\ \A j \in DOMAIN l : l[j] # SavePointLine(h)

\* The line down to which rollback(h) undoes l.  When no savepoint has the
\* hash the scan ends at the first line, the collected lines are cleared and
\* nothing is undone: the target is then the end of the log.
RollbackTarget(l, h, t) ==
    \/ IsLastSave(l, t, h)
    \/ /\ t = Len(l)
       /\ \A j \in DOMAIN l : l[j] # SavePointLine(h)

\* Mutant: the passed savepoints stay usable.
PassedHashesNone(l, h, t) == {}

\* The hashes the scan for h passes on its way to line t and marks as rolled
\* back.  The first line of the file is handled apart and never marked.
PassedHashes(l, h, t) ==
    {g \in Hashes : \E j \in DOMAIN l :
        /\ l[j] = SavePointLine(g)
        /\ IF IsLastSave(l, t, h) THEN j > t ELSE j > 1}

\* The line down to which recover() undoes l: nothing when the log's last
\* line closes a transaction, otherwise down to the last line that opens one,
\* or the whole log when none does.
EndsClosed(l) == l # <<>> /\ l[Len(l)] = CloseLine

RecoveryTarget(l, t) ==
    IF EndsClosed(l)
    THEN t = Len(l)
    ELSE /\ t = 0 \/ (t \in DOMAIN l /\ l[t] = OpenLine)
         /\ \A j \in DOMAIN l : j > t => l[j] # OpenLine

-----------------------------------------------------------------------------
(* The content of a record at an earlier line, read off the log. *)

Touches(line, r) == IsChange(line) /\ line.rid = r

\* Line j is the first of lines lo+1..hi that changes r.
FirstTouch(l, lo, hi, r, j) ==
    /\ j \in lo + 1 .. hi
    /\ Touches(l[j], r)
    /\ \A k \in lo + 1 .. j - 1 : ~Touches(l[k], r)

\* Undoing lines hi, hi-1, ..., lo+1 of l, with `now' in r, leaves v in r.
Unwinds(l, lo, hi, r, now, v) ==
    /\ \A j \in DOMAIN l : FirstTouch(l, lo, hi, r, j) => l[j].before = v
    /\ (\A j \in DOMAIN l : j \in lo + 1 .. hi => ~Touches(l[j], r)) => now = v
=============================================================================
