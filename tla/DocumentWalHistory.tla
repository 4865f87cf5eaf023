-------------------------- MODULE DocumentWalHistory --------------------------
(***************************************************************************)
(* DocumentWal with a memory of what the documents were when a savepoint   *)
(* or a transaction was logged and when the process before ended, and what *)
(* rollback and recovery owe with respect to it.  The added variables are  *)
(* read by no action of DocumentWal.                                       *)
(***************************************************************************)
EXTENDS DocumentWal

VARIABLES
    saved,      \* saved[h]: the documents when savepoint h was last logged
    opened,     \* the documents when the transaction under way was opened
    last        \* how the process before ended, and what is owed after it

hvars == <<vars, saved, opened, last>>

HTypeOK ==
    /\ saved \in [Hashes -> [Rids -> Cells]]
    /\ opened \in [Rids -> Cells]
    /\ last \in [how  : {"exit", "crash", "other"},
                 owed : [Rids -> Cells],
                 torn : Rids \cup {None}]

Forgotten == [r \in Rids |-> Absent]

HInit ==
    /\ Init
    /\ saved = [h \in Hashes |-> docs]
    /\ opened = Forgotten
    /\ last = [how |-> "other", owed |-> Forgotten, torn |-> None]

InTransaction == phase = "query" /\ query.kind \in Writers

\* The document an update has truncated and not yet logged.
Torn == IF InTransaction /\ query.step = "opened" THEN query.rid ELSE None

\* What is owed after the process ends: after an exit nothing changes, and a
\* crash within a transaction goes back to where it was opened.
Owed ==
    IF InTransaction
    THEN [how |-> "crash", owed |-> opened, torn |-> Torn]
    ELSE [how |-> "other", owed |-> Forgotten, torn |-> None]

HNext ==
    \/ /\ \E h \in Hashes : SavePoint(h) /\ saved' = [saved EXCEPT ![h] = docs]
       /\ UNCHANGED <<opened, last>>
    \/ /\ Open /\ opened' = (IF phase' = "query" THEN docs ELSE Forgotten)
       /\ UNCHANGED <<saved, last>>
    \/ /\ Write /\ opened' = (IF phase' = "query" THEN opened ELSE Forgotten)
       /\ UNCHANGED <<saved, last>>
    \/ /\ Exit /\ last' = [how |-> "exit", owed |-> docs, torn |-> None]
       /\ UNCHANGED <<saved, opened>>
    \/ (Crash \/ RecoveryAborts) /\ last' = Owed /\ opened' = Forgotten /\ UNCHANGED saved
    \/ /\ \/ Erase \/ Rollback \/ Undo
          \/ \E p \in Products : Start(p)
          \/ \E d \in Dbs : UseDatabase(d)
       /\ UNCHANGED <<saved, opened, last>>

HSpec == HInit /\ [][HNext]_hvars

\* While it undoes, main's thread does nothing else and waits for nothing: it
\* takes the next step, or the process ends.
HFairSpec == HSpec /\ WF_vars(Undo \/ RecoveryAborts)

-----------------------------------------------------------------------------
(* Rollback *)

\* Collection c was neither truncated nor dropped since line i was logged:
\* what a savepoint at i can still give back of it.  Both remove documents
\* without a line that undo reads.
Kept(i, c) ==
    /\ c \notin dropped
    /\ ~(query.kind = "Drop" /\ query.coll = c)
    /\ \A j \in DOMAIN log : j > i => log[j] # TruncateLine(c)

\* What is in r, or what the update that truncated r is about to log.
Content(r) == IF Torn = r THEN query.old ELSE docs[r]

\* Every savepoint of the session that no rollback has passed can still be
\* restored, whatever mixture of queries that failed half-way, erased
\* collections and rollbacks came after it: undoing the log down to its line
\* gives each kept document the content it had there.  Rollbacks log nothing
\* and never shorten the log, so this rests on the marking of the passed
\* savepoints and on undo leaving the oldest content logged (rollback, undo*).
SavepointsHold ==
    phase # "down" =>
        \A h \in Hashes \ rolled : \A i \in DOMAIN log :
            IsLastSave(log, i, h) =>
                \A r \in Rids : Kept(i, CollOf[r]) =>
                    Unwinds(log, i, Len(log), r, Content(r), saved[h][r])

\* When rollback() has undone the lines down to its savepoint, every document
\* is what it was when that savepoint was logged.
RollbackRestores ==
    /\ phase = "rollback" /\ job.step = "saving"
    /\ job.target # 0 /\ log[job.target] = SavePointLine(job.hash)
    => \A r \in Rids : Kept(job.target, CollOf[r]) => docs[r] = saved[job.hash][r]

\* A rollback on its way: a savepoint it left usable is not above its target,
\* and undoing the rest of the lines restores its own.
RollbackOnItsWay ==
    phase = "rollback" =>
        /\ \A h \in Hashes \ rolled : \A i \in DOMAIN log :
              IsLastSave(log, i, h) => i <= job.target
        /\ job.target # 0 /\ log[job.target] = SavePointLine(job.hash) =>
              \A r \in Rids : Kept(job.target, CollOf[r]) =>
                  Unwinds(log, job.target, job.at, r, docs[r], saved[job.hash][r])

\* The strengthening of SavepointsHold and RollbackRestores that every step
\* preserves.
HistoryInv == WalInv /\ HTypeOK /\ SavepointsHold /\ RollbackOnItsWay

(* Recovery *)

Recovered == phase = "recover" /\ job.step = "next" /\ job.at = job.target

\* After a crash within a transaction, a recovery that runs to its end gives
\* every document the content it had when the transaction was opened, but for
\* one an update had truncated without having logged it (recover, update).
RecoveryRestores ==
    Recovered /\ last.how = "crash" =>
        \A r \in Rids : docs[r] = last.owed[r] \/ r = last.torn

\* Line i of l opens a transaction, and no later line opens or closes one.
IsOpen(l, i) ==
    /\ i \in DOMAIN l
    /\ l[i] = OpenLine
    /\ \A j \in DOMAIN l : j > i => l[j] \notin {OpenLine, CloseLine}

\* Undoing the lines of a transaction under way gives each document what the
\* transaction found.
TransactionOnItsWay ==
    InTransaction =>
        \E i \in DOMAIN log :
            /\ IsOpen(log, i)
            /\ \A r \in Rids : Unwinds(log, i, Len(log), r, Content(r), opened[r])

Whole == Rids \ {last.torn}

\* So does undoing the lines of one that a crash cut off, ...
CrashOwes ==
    phase = "down" /\ last.how = "crash" =>
        \E i \in DOMAIN log :
            /\ IsOpen(log, i)
            /\ \A r \in Whole : Unwinds(log, i, Len(log), r, docs[r], last.owed[r])

\* ... and undoing the rest of them, once a recovery is on its way.
RecoveryOnItsWay ==
    phase = "recover" /\ last.how = "crash" =>
        \A r \in Whole : Unwinds(oldLog, job.target, job.at, r, docs[r], last.owed[r])

\* The strengthening of RecoveryRestores that every step preserves: a log goes
\* from the transaction that writes it over the crash to the start that reads
\* it, and gives back the same documents all the way (openTransaction, recover).
RecoveryInv == WalInv /\ HTypeOK /\ TransactionOnItsWay /\ CrashOwes /\ RecoveryOnItsWay

\* A transaction that was closed before an exit at the prompt is not undone by
\* the next start.
ClosedIsKept ==
    /\ Recovered /\ last.how = "exit"
    /\ \E i \in DOMAIN oldLog :
          oldLog[i] = CloseLine /\ \A j \in DOMAIN oldLog : j > i => oldLog[j] # OpenLine
    => docs = last.owed

\* Whichever program is started after a crash within a transaction, it takes
\* queries only once the transaction is undone.
CrashIsRecovered ==
    [][phase = "down" /\ phase' = "idle" /\ last.how = "crash" =>
        \A r \in Rids : docs[r] = last.owed[r] \/ r = last.torn]_hvars

\* Undoing comes to an end: the CLI comes back to its prompt and the Server to
\* its socket, or the process ends.
UndoEnds == phase \in {"rollback", "recover"} ~> phase \in {"idle", "down"}
=============================================================================
