--------------------------- MODULE TableWalHistory ---------------------------
(***************************************************************************)
(* TableWal with a memory of the rows a select showed when a savepoint or  *)
(* a transaction was logged, and what rollback and recovery owe with       *)
(* respect to it.  No action of TableWal reads the added variables.        *)
(***************************************************************************)
EXTENDS TableWal

CONSTANT Unreadable     \* what a select shows that throws

ASSUME UnreadableAssumption == Unreadable \notin Slots

VARIABLES
    saved,      \* saved[h]: what was shown when savepoint h was last logged
    opened,     \* what sound tables showed when the transaction under way was opened
    owed        \* what the next recovery has to bring back, None where nothing is owed

hvars == <<vars, saved, opened, owed>>

\* select: the rows that are counted and whose _del is not "1".
Shown(t) ==
    IF Whole(t) THEN {file[t][i] : i \in {j \in 1 .. count[t] : file[t][j].del # "1"}}
    ELSE {Unreadable}
AllShown == [t \in Tables |-> Shown(t)]

\* Every row of t is counted and none has changed its length.
Sound(t) == count[t] = Len(file[t]) /\ holes[t] = {}
Nothing  == [t \in Tables |-> None]

HInit ==
    /\ Init
    /\ saved = [h \in Hashes |-> Nothing]
    /\ opened = Nothing
    /\ owed = Nothing

\* An insert has truncated the count of t and not written it again.
CountLost(t) == \E frame \in ToSet(op.frames) : frame.table = t /\ count[t] < frame.entries

\* A crash within a query on a table without nested rows owes what was shown
\* when the query was opened, where the table was sound and the count is there.
Owed ==
    IF phase = "query" /\ ~Nests(op.table)
    THEN [t \in Tables |-> IF CountLost(t) THEN None ELSE opened[t]]
    ELSE Nothing

HNext ==
    \/ /\ \E h \in Hashes : SavePoint(h) /\ saved' = [saved EXCEPT ![h] = AllShown]
       /\ UNCHANGED <<opened, owed>>
    \/ Open /\ opened' = [t \in Tables |-> IF Sound(t) THEN Shown(t) ELSE None] /\ UNCHANGED <<saved, owed>>
    \/ Write /\ opened' = (IF phase' = "query" THEN opened ELSE Nothing) /\ UNCHANGED <<saved, owed>>
    \/ Crash /\ owed' = Owed /\ opened' = Nothing /\ UNCHANGED saved
    \/ (Start \/ Undo \/ \E h \in Hashes : RollbackTo(h)) /\ UNCHANGED <<saved, opened, owed>>

HSpec == HInit /\ [][HNext]_hvars

-----------------------------------------------------------------------------
Frames == [table : Tables, step : {"open", "object", "nested", "logged", "buffered", "close"},
           entries : Nat, buffer : Seq(Slots), row : Slots \cup {None}, ref : Rids \cup {None}]

Queries == [kind : {"Insert", "Update", "Delete", None}, table : Tables \cup {None},
            frames : Seq(Frames), step : {"next", "logged", "nestedLogged", "nestedWritten"},
            at : Nat, entries : Nat, holes : SUBSET Positions, stuck : BOOLEAN]
Batches == [inserted : SUBSET used, updated : UNION {[rids -> RowContents] : rids \in SUBSET used},
            deleted : SUBSET used]

TypeOK ==
    /\ file \in [Tables -> Seq(Slots)]
    /\ holes \in [Tables -> SUBSET Positions]
    /\ count \in [Tables -> Nat]
    /\ log \in Seq(Lines) /\ oldLog \in Seq(Lines)
    /\ rolled \subseteq Hashes
    /\ batch \in Batches
    /\ phase \in {"down", "idle", "query", "rollback", "recover"}
    /\ op \in Queries
    /\ job \in [hash : Hashes \cup {None}, target : Nat, at : Nat, again : BOOLEAN]
    /\ used \subseteq Rids

\* The rids that undo collects in batches shared by all tables do not wait
\* there for a later rollback, unless an undo threw half-way; and no row is in
\* the files twice or in a table it was not inserted into (undoInsert,
\* undoUpdate, undoDelete).
TablesInv ==
    /\ TypeOK
    /\ phase = "idle" /\ (\A t \in Tables : holes[t] = {}) => batch = NoBatch
    /\ \A t \in Tables : \A i, j \in DOMAIN file[t] :
          /\ TableOf[file[t][i].rid] = t
          /\ file[t][i].rid = file[t][j].rid => i = j

\* A query adds or changes a row only when the newest line about it in the log
\* says how to take the change back (insert, update, overwrite, deleteWhere).
LastTouch(l, j, r) == j \in DOMAIN l /\ Touches(l[j], r) /\ \A k \in DOMAIN l : k > j => ~Touches(l[k], r)
LoggedBefore == [][phase = "query" => \A t \in Tables : \A i \in DOMAIN file'[t] :
    LET r == file'[t][i].rid IN
    IF i \notin DOMAIN file[t] THEN \E j \in DOMAIN log : log[j] = InsertLine(r)
    ELSE file'[t][i] # file[t][i] =>
            \E j \in DOMAIN log : LastTouch(log, j, r) /\ log[j].before = Held(file[t][i])]_hvars

\* Rows that a line of l after line i deletes though they were deleted: undo
\* brings them back (deleteWhere takes them for matches).
DeletedTwice(l, i) ==
    {l[j].rid : j \in {k \in DOMAIN l : k > i /\ l[k].kind = "Delete" /\ l[k].before.del = "1"}}

Except(shown, rids) == {slot \in shown : slot = Unreadable \/ slot.rid \notin rids}

\* A line about t, above line lo, comes right after one of its kind that is
\* about a table of another name in another database: log_diff then takes the
\* call that undoes it for not the last, and its row is looked for in that other
\* table ...
PassedOver(lo, t) ==
    \E i, j \in DOMAIN log :
        /\ lo < i /\ i < j /\ IsChange(log[i]) /\ IsChange(log[j])
        /\ \A k \in i + 1 .. j - 1 : ~IsChange(log[k])
        /\ TableOf[log[j].rid] = t
        /\ log[i].kind = log[j].kind /\ NamesDiffer[<<t, TableOf[log[i].rid]>>]

\* ... or waits for a later rollback, when an undo throws half-way before that.
LeftBehind(t) == PassedOver(0, t) /\ \E u \in Tables : holes[u] # {}

\* When rollback() has undone the lines down to its savepoint, a select shows
\* the rows it showed when the savepoint was logged, but for rows deleted twice,
\* of every table whose rows are counted and keep their length and of which
\* log_diff has passed over no line.
RollbackRestores ==
    /\ phase = "rollback" /\ job.at = job.target
    /\ job.target # 0 /\ log[job.target] = SavePointLine(job.hash)
    => \A t \in Tables :
          /\ Sound(t) /\ saved[job.hash][t] # {Unreadable}
          /\ ~PassedOver(job.target, t) /\ ~LeftBehind(t)
          => LET twice == DeletedTwice(log, job.target) IN
             Except(Shown(t), twice) = Except(saved[job.hash][t], twice)

Recovered == phase = "recover" /\ job.at = job.target

\* A recovery that runs to its end after a crash within a query on one table
\* brings back what a select showed when the query was opened, but for rows
\* deleted twice, also when the count was written and the row was not (recover,
\* undoInsert).
RecoveryRestores ==
    Recovered => \A t \in Tables : owed[t] # None /\ holes[t] = {} =>
        LET twice == DeletedTwice(oldLog, job.target) IN
        Except(Shown(t), twice) = Except(owed[t], twice)

\* What recovery collects it reverts: no row whose insert was collected is
\* shown when it has ended.
CollectedIsReverted ==
    Recovered => \A j \in DOMAIN oldLog : j > job.target /\ oldLog[j].kind = "Insert" =>
        \A t \in Tables : \A slot \in Shown(t) \ {Unreadable} : slot.rid # oldLog[j].rid
=============================================================================
