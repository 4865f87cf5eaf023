# Verification of LunarDB

LunarDB is a small database with two programs, the `CLI` and the `Server`, over
one home directory. Data is kept in *collections*: a document collection is a
directory of `.ldbdoc` JSON files, one per record, a table collection is one
file of BSON rows with a row count beside it. Every query that writes is logged
in a write-ahead log from which the programs undo: on request (`rollback`, to a
`savepoint`) and after a crash (`recover`).

This directory holds TLA+ modules translated from the source, the TLC runs
that check them on small instances, and TLAPS proofs for every instance. It is
built around the question whether data that should come back does come back,
whatever was cut off, failed or undone before.

## 1. Inventory

| component | state | operations | hard behaviour | what makes it correct |
|---|---|---|---|---|
| BrightMoon, `WriteAheadLogger` | `wal.log`, the renamed log of the session before, `wal.recovery.flag`, `wal.rollbacks`; `m_rollbacked_hashes`, `m_savepoints_history` | `log`, `openTransaction`, `closeTransaction`, `savepoint`, `rollback`, `recover`, the flag | crash between any two steps; rollbacks after rollbacks over a log that only grows; undo that throws | a savepoint gives back what it saw; a cut transaction is undone; a closed one is not |
| Selenity, `DocumentManager` | one file per document | `insert`, `update`, `deleteWhere`, `truncate`, `undoInsert`, `undoUpdate`, `undoDelete` | file and log steps in different orders; exceptions half-way through a list of matches | the log says how to go back before a file is changed |
| Selenity, `TableManager` | `data.ldbtbl`, `metadata.ldb`; static sets in the undo functions | the same, with `selectEntry` and `overwrite` for nested tables | in-place rewriting, a count apart from its rows, undo in batches shared by all tables | rows and count agree; undo reaches the rows of every table |
| Selenity, `DatabaseManager`, `CatalogManager`, `SystemCatalog`, `SchemasCatalog` | catalogs in memory and in files, the database in use, the current user, a schema cache | create, drop, bind, use, load and save of catalogs and schemas | files truncated and then written; a create or a drop in several steps, some of them recursive; a stale cache; bindings to what is gone | catalog entries, files and directories agree, also after a restart |
| Selenity, `EvaluateWhereClause`, `Common` | static caches of the lists of `in` and the regex of `like` | evaluation of clauses, `jsonify`, `Calculus` | statics kept from one entry, term and query to the next; groups; precedence, overflow | a query takes the records its clause means, whatever came before; an update stores what its expression means |
| Astral | none | one executor per query | log before or after the lookup of a collection | failure leaves nothing behind |
| Celestial, `UsersCatalog` | users by name and by uid, a file per user, a file of names | create, remove, password, permissions, authentication | two files per operation; use of an erased entry; a key that is not the same in the next process | names and users agree, in memory and on disk; a user comes back as it was saved; a removed name is free |
| Moonlight | none | parsers from text to `QueryData` | nested groups and negations; empty texts | a clause that parses is the one written |
| CLI, Server, `QueryHandlingUtils` | the session's user; the WAL singleton | start, recovery, the query loop, exit | two programs with different starts over one home | no query is answered over half-undone data |
| CppExtensions, Cryptography, Crescentum | none that others rely on | binary I/O, ids, ciphers, log output | partial reads | what is written is read back |

Components call each other directly on one thread per process: the program
hands a line to `handleQuery`, which parses it (Moonlight), opens a transaction
(BrightMoon), runs an executor (Astral), which calls a manager (Selenity), which
logs (BrightMoon) and writes its files; `rollback` and `recover` call back from
BrightMoon into Selenity. There are no threads, no messages and no locks; what
interleaves with everything is the end of the process, and what a step finds is
what failed or interrupted steps before it left behind, on disk and in the
singletons.

## 2. Modules

| module | what it holds |
|---|---|
| `WalLog` | the lines of `wal.log`, how far a rollback or a recovery goes back, and `Unwinds`: what undoing a stretch of the log leaves in a record |
| `DocumentWal` | the life of one process over document collections: `handleQuery`, `DocumentManager`, `WriteAheadLogger`, the start and the end of both programs |
| `DocumentWalHistory` | `DocumentWal` with the documents each savepoint and each transaction saw, and the properties stated with them |
| `TableWal` | the same log over table collections: `TableManager`'s data file and row count, nested rows, and the undo batches |
| `TableWalHistory` | `TableWal` with what a select showed at each savepoint and each open, and the properties |
| `SchemasCatalog` | schemas, their files and their cache |
| `Catalogs` | the system catalog, the database catalogs and the bindings, in memory and on disk, task by task |
| `CatalogStore` | what the catalogs promise: stores of entries that change one at a time |
| `UsersCatalog` | users by name and by uid, in memory and in their two kinds of file; login and permissions |
| `UserDirectory` | what the users catalog promises: a directory of accounts that changes in single steps |
| `UsersDirectory` | `UsersCatalog` with the change on its way to disk, and the refinement mapping |
| `Calculus` | the arithmetic of update expressions, and what an expression means |
| `WhereClause` | the parser of where clauses and their evaluation on an entry, with its static caches |
| `Queries` | scans: insert, select, update and delete of documents with clauses and expressions, and what a clause means |
| `MCDocumentWal`, `MCTables`, `MCCatalogs`, `MCUsers`, `MCQueries` | the instances TLC checks |
| `DocumentWalProofs`, `DocumentWalHistoryProofs` | the savepoint and recovery theorems of document collections |
| `TableWalProofs` | the tables' invariant, and that their changes are logged before they are made |
| `TableWalHistoryProofs` | the rollback and recovery theorems of tables |
| `UsersProofs` | the users catalog's invariant, and the proof that it implements `UserDirectory` |
| `CatalogsProofs` | the catalogs' invariant and action properties, and the proof that they implement `CatalogStore` |
| `QueriesProofs` | the parser, the evaluation of clauses and the arithmetic do what the clause and the expression mean |
| `Recursion` | induction over sets of numbers, and that recursive functions exist |

`DocumentWal` and `TableWal` are both composed with `WalLog`; `Catalogs`
extends `SchemasCatalog`; `Queries` extends `WhereClause`, which extends
`Calculus`. What is arbitrary in one module is computed in another: the matches
and contents of `DocumentWal` are those of `Queries`, its erased collections
and databases in use are the subject of `Catalogs`.

### Documents under the log

**State.** `docs[r]` is the content of the file of record `r`: a value, `Absent`
(no file) or `Empty` (created or truncated, not yet written; it does not parse).
`log` is this session's `wal.log`, `oldLog` the one the start renamed, `flag` and
`rolledDisk` the files `wal.recovery.flag` and `wal.rollbacks`, `rolled` and
`history` their counterparts in memory. `query` is the query under way with the
matches still to do and the step its current record is at; `job` is a rollback
or recovery under way, with the line `at` that is next and the line `target` at
which it stops. `phase` says which of the two, or none, the thread is in.

**Actions.** One per step that a crash can follow: a log line (flushed by
`std::endl`), a file created or truncated, a file written or removed, a change
of phase in memory. `insert` is `InsertLogs`, `InsertCreates`, `InsertWrites`;
`update` is `UpdateOpens`, `UpdateLogs`, `UpdateWrites` or `UpdateThrows`;
`deleteWhere` is `DeleteLogs`, `DeleteRemoves`; `handleQuery` around them is
`BeginQuery`, then `QueryCloses`, or `QueryFails` on an exception between
records. `rollback` is `RollbackTo` or `RollbackLast` (with the scan of the log
and the marking of the hashes it passes), the undo steps, `RollbackMarks` and
`RollbackEnds`; `recover` is chosen in `Start`, then the same undo steps and
`RecoveryEnds`, or `RecoveryAborts`. `Crash` may follow any step.

**What is abstract.** A line keeps its kind and what undo reads of it. Which
documents a where clause matches is an arbitrary set of documents that parse;
what `jsonify` and the modify list compute is an arbitrary value or an
exception. A cascading drop is several drops. I/O errors that the code only logs
are not modelled, nor power failures: what the process has handed to the system
survives it. A record belongs to one collection, and a dropped collection is not
created again. A `TRUNCATE` line whose collection happens to be named like the
hash of a rollback, which the scan would take for a savepoint if it were the
first line of the file, is left out.

### Tables under the log

`file[t]` are the rows of `data.ldbtbl` (record id, content, `_del`), which are
never removed, those of earlier sessions (`Stored[t]`) first; `holes[t]` the positions a scan can no longer read because a row
of another length was written over its neighbour; `count[t]` the number in
`metadata.ldb`, apart from the rows. An `insert` works in a frame per table: it
opens (and so truncates) `metadata.ldb`, calls `jsonify`, which for an object in
a nested field runs a whole insert into another table (`InsertNests`), logs,
buffers, counts and flushes. The field may also be left out or hold a text, be it
the rid of a row or not. `jsonify` may throw before a nested insert and after it
(`InsertThrows`): the files then close with the rows buffered so far. A buffer may
run over within a row, so that a crash leaves a part of it at the end of the file
(`Crash`), a hole like the others. `update` logs and writes a row in place, reaching
a nested row through `overwrite`; `deleteWhere` rewrites it with `_del = "1"`. A row whose
`_del` is the string `"1"` is still matched by later updates and deletes, which
compare it with the number. The three undo operations collect record ids in
`batch`, static and shared by all tables, and scan a file only at a line marked
as the last call; a scan that reaches a hole throws, with the rows before it
rewritten (`UndoThrows`). The lines the code collects in a queue before it undoes them
are the lines of the log above `job.target`; `job.at` walks them, newest first,
and `LastCall` gives the mark. Rids, contents and matches are arbitrary; truncating and
dropping a table is `DocumentWal`'s erase of a directory.

### Catalogs

A query is a sequence of tasks, `todo`; an action carries out its first task,
and the process may end between any two (`Crash`), by an assertion or by a
recursion without end (`Dies`). `databases` and `collections` are the catalogs
in memory, `systemFile` and `databaseFile` their files (missing, torn or whole),
`homes` and `dirs` the directories. `Save` and `Write` are the two halves of
`saveConfigs`; `RemovesHome` is `remove_all` of a database directory, file by
file in any order. `createCollection` is `Creates`, `AddsNested` for each nested
field (which creates a collection of its own first) and `Adds`;
`dropCollection` is `Drops`, `DropsRest` and `DropsBound` for a cascade along
the bindings, `Removes`, `Erases`. `Rebind` with clean drops the collection a
field was bound to, and may then read a unique id from freed memory (`Binds`).
`CreateBlended` flattens a schema. `SchemasCatalog` has the cache and the files
of schemas: a schema defined again is another one on disk than in the cache, until
the exit writes the cached one back. Which of the two is meant the repository does
not say, so this is modelled and judged by no property.

`CatalogStore` is what remains without files and tasks: every catalog is a map
of entries that change one at a time, and a start finds it as it was last saved
or, after a crash in a save, as before, as after or empty. The mapping
(`Content`, `Found`) takes a database that is being dropped for empty at once.

### Users

`names` and `cache` are `UsersCatalog`'s maps, `namesFile` and `userFile` the
files behind them, `op` the operation under way with its file steps
(`TruncatesUser`, `WritesUser`, `UnlinksUser`, `TruncatesNames`, `WritesNames`);
`current` is the user of the session.

A user's name and password are enciphered in its file. The key is a string of 16
digits, from which the cipher takes 32 bytes, and empty in the process that
generates it, so what another process deciphers is a choice (`Deciphered`): the
user as it was saved, or one whose name and password are `Garbled`. A garbled user
in the cache is saved garbled by the next change to it. The plain text of
permissions and uids is not affected. Within a process the key stays the same. The
name to erase is kept in the user, so a garbled or blank user has none: its name
stays in the file of names when it is removed.

`removeUser` erases the configuration and then uses the name in it: memory that
was freed, so `RemoveUser` erases the name or leaves it, also for a user that was
read right.

`UserDirectory` is one map from names to accounts (`users`), and for each name how
the process that runs has read it (`read`: not yet, right or wrong). An account
read wrong is right again in a process that reads it right, unless it was edited
in between (`EditDamages`); what a crash in the middle of a change may cost is part
of its `Ends`. The directory says which accounts there are, and a removed one is
gone; whether its name can be given again is not its matter but that of
`RemovedNameIsFree`.

### Clauses and expressions

`ParseGroup`, `convert`, `sameTypeAs`, `evaluateBinaryExpression`,
`evaluateBooleanExpression` and `solveNumericExpression` keep the code's names
and are functions of tokens, entries and the static caches. What the code does by
a loop or by calling itself is a recursive function: `ParseItems` has for each
token what the parser makes of the text from there on, `Evaluation` for each depth
what the groups of that depth evaluate to, `Results`, `Reads` and `ReduceWhile`
the state after each turn of their loops. `Word` is `extractWord`: an empty text in
quotes that something follows is not found, and all the rest of the query is taken
for the word. `Extract` is what an operator takes for its right hand side: `in` all
up to the first `]`, which need not be in its own term, `between` a range, the
others a word. `Joined` is the text that some tokens are together. What a user
writes is `Written(clause)`, with the word after the clause that `select` and
`update` have (`After`); they throw when the parser has gone past it, while `delete`
looks at nothing after its clause (`Accepted`), so that it may be carried out with
another clause than was written. `Plainly` says that a clause has no empty text and
a list after each `in`; what else is written may be refused or taken for another
clause, and the run asks such queries too. `Depth` is how deep the groups of a
clause nest, `Groups[n]` the clauses of depth `n`, with any number of items.
`Queries` is a scan of documents in any order: each `Examine` takes the caches the
last one left.
`Meets` and `Meaning` say what a clause and an expression mean, independently of
the way they are evaluated. An `int` lies in `-MaxInt-1 .. MaxInt`; the result of an
overflow, of a modulo by zero or of the least `int` by `-1`, and of an operation
without operands is undefined, and a division by zero throws.

## 3. Runs

| run | instance | checks |
|---|---|---|
| `documents` | CLI, 2 documents of 1 collection, 2 values, 2 hashes, 4 lines over two sessions, 2 starts | `TypeOK`, `SavepointsHold`, `RollbackRestores`, `RecoveryRestores`, `RecoveryInv` |
| `databases` | Server, 2 documents in 2 collections of 2 databases, 1 hash, 4 lines | `HistoryInv`, `RollbackRestores` |
| `undo_ends` | CLI, 2 documents, 1 value, 4 lines, 2 starts, fairness | `UndoEnds` |
| `tables` | a table with a nested field, the table of its rows and one of another name in another database, 5 rows, 3 of them stored before, contents of 2 lengths, 5 lines, 2 starts | `TablesInv`, `RollbackRestores`, `RecoveryRestores`, `LoggedBefore` |
| `catalogs` | 1 database, collections `a` and `a_f`, 4 schemas (flat, nesting, recursive, blended), 2 unique ids, 2 starts | `CatalogInv`, `ImplementsStore`, `NothingLeftBehind` |
| `users` | 2 names, 3 uids, 2 passwords, 1 permission, 3 starts | `UsersInv`, `SessionHasUser`, `ImplementsDirectory` |
| `queries` | 2 documents, 4 kinds of entry, 36 clauses with groups in groups, empty texts and an `in` without a list, 7 expressions of a number, ints from -3 to 2 | `ParsedAsWritten`, `TakenMeet`, `PassedDoNotMeet`, `UpdatedAsWritten`, `StoredReadable` |
| `exit_then_start` | CLI, 1 document, 4 lines, 2 starts | `ClosedIsKept` is violated |
| `server_after_cli` | both programs, 1 document, 2 values, 4 lines, 3 starts, fairness | `CrashIsRecovered` is violated |
| `removed_name` | 1 name, 1 uid, 1 start | `RemovedNameIsFree` is violated |
| `dangling_binding` | as `catalogs` | `BoundCollectionFound` is violated |
| `nested_recovery` | as `tables` | `CollectedIsReverted` is violated |

**Bounds.** `MaxLog` bounds the lines of the two logs together and `MaxStarts`
the starts, `MaxUids` the collections created, `Inserted` the contents a row may
be inserted with; all are guards, so a run stops where it would pass them, and
deadlock is not checked: once the process is down and the starts are used up
nothing is left to do. A first session finds any documents there may be, and the
rows `Stored` names, so that no line is spent on creating what is changed later. In
`documents` four lines hold a savepoint, two changes in a transaction and a second
savepoint, which is what a rollback over another rollback's savepoint needs; over
two sessions, a transaction of three lines that a crash cuts and one line of the
next. Two documents are enough for one to be changed under a rollback of the other,
two values for a content to be told from the one before. In `tables` five lines hold
a savepoint and a query that changes two stored rows of different databases, or one
row twice, or an open and a nested insert beside a change of each row it made; two
lengths let an update write over its neighbour. The theorems hold for any bound.
In `catalogs` a collection with one nested field is
the smallest that is created and dropped in several steps; two names bind and
drop each other. Three uids in `users` let a name be given twice and two names
live at once. Symmetry is used for records, values, hashes, names and uids where
no instance names one; never with a liveness property.

**Fairness.** Only `HFairSpec` has any: an undoing takes its next step or the
process ends, since the thread that undoes does nothing else and waits for
nothing. Queries, rollbacks and starts are up to the user and get none.

**What they show.** With `documents` and `databases`: no mixture of queries that
fail or are abandoned half-way, erased collections and rollbacks makes a usable
savepoint wrong, although failed updates leave empty files, rollbacks log
nothing and never shorten the log, and the newest line is undone twice. This
rests on three things in the code: an insert and a delete log before they touch
the file, an update logs before the file gets its new content, and a rollback
marks every savepoint it passes as used up. And a crash at any step of a
transaction is undone by the next start of the CLI, except for one document
that an update had truncated without having logged it yet.

With `tables`: the same holds of what a select shows, with the exceptions the
code forces on the properties and the properties name: rows deleted twice come
back, tables in which a row was written over by a longer one are left out, and
so are tables whose count an insert that threw has truncated. The row a
crash leaves without a count, or the count without a row, is repaired by undo.
A rollback over two databases restores every table of which `log_diff` has passed
over no line since the savepoint, whatever happens to the tables it has passed over. It
passes over a line that comes right after one of its kind about a table that differs
in name and in database (`PassedOver`), and the rows of such lines do stay as they
are: what the code does to them no doc, comment or test of the repository speaks of.

With `catalogs`: catalogs and their files agree whenever no save is under way,
also after a query that failed half-way; a drop removes what it drops from disk
before it forgets it. With `users`: what a start may find of a user is what was
saved or, garbled, what the cipher makes of it; a crash costs at most the account
being edited or, while the file of names is written, all names; a removed account
never comes back; and no session outlives its user. With `queries`: what a query takes
and changes does not depend on what the static caches hold from the entries,
terms and queries before, and a clause that is written plainly is parsed as written. `TakenMeet` and `PassedDoNotMeet` judge clauses
without negation and with at most two terms a group; longer groups, negations and
groups in second place are evaluated in the run, and judged by no property since
the code gives them a meaning of its own (a group in second place replaces what
was found before it).

**Disagreements found.** `exit_then_start`: after a session that closed its
transaction, took a savepoint and left with `exit`, the next start undoes the
closed transaction, because `recover` looks for the close only in the last line
of the log and ignores the flag. `server_after_cli`: the flag an `exit` of the CLI
leaves is never cleared, so the Server never again recovers in that home: the run
has it end in an update that has truncated its document, and the next one takes
queries on the empty document. `removed_name`: `removeUser` erases a user's name
through a reference to the entry it has just erased, and the name may stay, with no
user behind it, and cannot be given again.
`dangling_binding`: dropping a collection leaves the bindings of others to it, and
the next cascade, clean rebind or nested insert along one fails an assertion; the run
drops `a`, to which the field of `a_f` is bound, and rebinds that field with clean.
`nested_recovery`: recovery gives the last-call mark to its oldest
line only, so of a transaction over two tables it reverts one.

**Assertions** are taken as compiled in: a failed one ends the process.

## 4. Proofs

The assumptions named in the modules (`WalLogAssumption`,
`DocumentWalAssumption`, `TableWalAssumption`, `UnreadableAssumption`,
`UsersCatalogAssumption`, `CatalogsAssumption`, `CalculusAssumption`,
`WhereClauseAssumption`, `QueriesAssumption`) are all that is assumed of the
constants: sentinels that are told apart from names and values, definitions that
are records with a name, and, for tables, that a nested table nests nothing itself,
which bounds the model and not only a run. Of texts it is assumed that what
`std::to_string` writes `std::stoi` reads back as the same number, that a token of
digits alone is a number that is not negative, that texts have an order, that the
items of lists, the bounds of ranges and the texts that match a pattern are texts,
and that an inserted entry holds texts in fields of the schema, that the text the parser
takes for a part of a query it accepts is among the texts; of the schema,
that no field is named like an opening brace or one of `+ - * /`, which an
expression could not tell from the operator. But for the record ids of tables,
of which there are finitely many, the sets are any sets and the bounds any
numbers.

*Type correctness.* `TypeOK` is not inductive: undo reads lines by index and
writes back what they keep. `WalInv` adds that unknown records have neither file
nor line (`KnownRids`), that a query under way has logged what it is about to do
(`QuerySteps`), and that the cursor of an undoing is on a line of the log and on
a change when a file is half undone (`JobSteps`). `InitWalInv` and `NextKeeps`
(one lemma per action) give `WalInvariant` and `TypeCorrect`.

*Savepoints.* `Unwinds(l, lo, hi, r, now, v)` says that undoing lines `lo+1..hi`
leaves `v` in `r`: the first of these lines that changes `r` keeps `v`, or none
does and `r` holds `v` now. `SavepointsHold` states it for each usable savepoint
and the whole log above it. A step either logs nothing and changes nothing,
logs a line of no record (`UnwindsQuiet`), logs a line that keeps the content of
its record (`UnwindsChange`), or changes a record that has a line above the
savepoint (`UnwindsTouched`). For undo the last case needs that a savepoint left
usable is never above the target of the rollback under way, which is the first
half of `RollbackOnItsWay`; its second half follows the rollback's own savepoint
down the log (`UnwindsPast`, `UnwindsUndone`). Together they are `HistoryInv`,
which TLC checks in `databases`; `HistoryInvariant` is its theorem, and
`SavepointsCanBeRestored` and `RollbackIsCorrect` follow.

*Recovery.* The same `Unwinds` is carried through three phases: from the open of
the transaction under way (`TransactionOnItsWay`), over the crash that cuts it
(`CrashOwes`) to the start that renames the log and walks it back
(`RecoveryOnItsWay`). `RecoveryInv` is their conjunction, checked by TLC in
`documents` and proved in `RecoveryInvariant`; `RecoveryIsCorrect` follows.

*Users.* `UsersInv` says that files and memory agree but for the steps left of
the operation under way (`SaveSteps`, `FilesAgree`: a user in memory is one that its
file can be deciphered as, or is blank and its file torn), that no two names share a
uid, and that a user is read under the name it was created with unless it is garbled
or blank (`OwnName`); it is inductive as it stands, and `UsersInvariant` has one
lemma per action. `SessionsHaveUsers` adds the session. `CatalogIsDirectory` shows
that `UsersCatalog` implements `UserDirectory`: `DirectoryInv` adds to `UsersInv`
which steps each kind of operation still has, that the operation is about its own
name, and what the files hold of the change. The mapping shows of a user what memory
has of it, unless that is a mistake of the cipher that nothing is saved of
(`Mistaken`); then it shows what the file has. `ShownIs` says what this comes to: a
running process shows what is saved or about to be, whatever it has read, so that a
look at a user maps to a `Reads` of the directory and changes no account. Each other
step maps to a change of the directory, the end of one, a crash of it, or a stutter.

*Catalogs.* `CatalogInv` says nothing of the order in which a query's tasks come,
and without it an erased entry might never be saved. `CatalogsInv` adds it
(`Ordered`: files removed, then the entry erased, then its catalog saved, and a
write only as the first task), that the files of what is about to be erased are
gone and the directory of what is about to be written is there (`HeadOK`), that
memory and files agree but for the catalog whose save is next and the database
on its way out (`Agreed`), that a database without a directory, which is never
saved, has neither file nor collections (`Homeless`), and that schemas have the
names they are stored under (`SchemasInv`). A step on schemas, or one that only
replaces the first task, is covered by `TaskGoesOn`; one that changes an entry by
`EntryChanges`; the steps of a save and of a drop of a database have lemmas of
their own. `CatalogsAgree` follows from the invariant, and `DropsLeaveNothing` from it
and the steps that touch entries and directories (`DataSteps`).

*Catalogs as stores.* `CatalogsAreAStore` shows that `Catalogs` implements
`CatalogStore`. Three facts of `CatalogsInv` are there for it: memory and file of
a catalog agree unless its save is on its way, an erased database has lost its
file before its entry, and a database that is about to be erased has no
collections left. A step then maps, catalog by catalog, to a change of one entry,
the beginning or the end of a save, the end of the process, or a stutter.

*Tables.* `TablesInv` says of the batches and of the rows what a reader of the
undo operations would like to rely on, and neither is inductive. `TablesIInv`
adds, in parts: what the frames of an insert hold at each step and that at most
one of them nests another (`OpOK`, `FrameOK`); that a row is in one file, in one
buffer or on its way to it, once (`FilesOK`, `FramesOK`); that lines are about rids
in use, and those of a transaction are of one kind and follow its open without a gap
(`LogsOK`); where the cursor of an undoing stands (`JobOK`); and, as long as every
row can be read, that a rid waits in a batch only while a line further down is
still to be undone that empties it (`BatchOK`): the last call of a kind is due
for each batch that is not empty. `GuardsOK` says that between the line of an
update or a delete and the write, the row still has the content the line kept,
for the row itself and for the nested one. `TablesInvariant` has one lemma per
action and part; `TablesAreRight` follows, and `ChangesAreLogged` from `GuardsOK`
and the few actions that write a file in a query.

*Rollback and recovery of tables.* A row is three things that undo reaches in
different ways: `undoDelete` writes `_del` and not the content, `undoUpdate` both,
and an insert is undone by marking the row. So what a stretch of the log leaves
is said of one field at a time: `Falls(js, left, lo, hi, now, v)` holds when the
oldest of the lines `js` in the stretch leaves `v`, or there is none and the field
is `v` now; `Back(l, lo, hi, rows, shown)` says that undoing the lines leaves in the
file, but for rows deleted twice, the rows `shown`. Lemmas about `Back` cover each
thing a step can do: log a line about no row, or about a row with what it holds
(`BackLogged`); write a row that has a line in the stretch (`BackWritten`); flush
rows that lines of it insert (`BackRows`); undo the newest line (`BackUndone`), or
all lines at once, as a recovery does (`BackAllUndone`); and `BackDone`: at the end
of the stretch the rows are there.

`Back` speaks of the file, `Shown` of the counted rows, and between the two stand
the steps at which a row is buffered, in the file and not counted, or counted and
not in the file. `RestoreInv` therefore says, in parts, what each frame of an
insert knows of its count (`CountsOK`, `Missing`); for a query under way, which
lines above its open are its own, which rows they are about, and that what is not
counted yet has a line that inserts it (`QueryOK`); for a crash, that the log
the next start renames still owes what was shown (`DownOK`); for a recovery, that
the batch holds exactly the lines walked so far, since the one scan of the last
call undoes them all (`RecoverOK`); that a row's insert is its oldest line
(`FreshOK`); and for rollbacks that what stays in the batches belongs to tables
with rows no scan can read or with lines that were passed over (`StaleOK`), that
every usable savepoint leads back for every other table (`SavedOK`), and that the one being rolled back to does, from the cursor on
(`RollbackOK`). TLC checked each part on the instance of `tables` before it was
proved. `RestoreInvariant` has a lemma for each action and phase;
`RecoveryIsRight` and `RollbackIsRight` follow.

`RollbackIsRight` is for any number of databases. `log_diff` is
`!(same kind && databases differ && names differ)`, and where it is false
the line is only collected and its rows are looked for in the next table, or wait in
the batch when an undo throws before that. `PassedOver` says of a table that this is
so of one of its lines above the savepoint, `LeftBehind` that it is so of any and that
an undo may have thrown; the theorem is about all other tables, next to those. Its
proof needs that a batch never holds a row of a table it does not name, however the
tables follow each other in the log, which is `StaleOK`.

*Clauses and expressions.* What a recursive function computes needs induction, and
the library's induction theorems take the formula as an operator, which the
provers cannot instantiate. `Recursion` states induction of a *set* of numbers
instead (`NatSet`, `RangeSet`), which the least element of the set's complement
gives, and each proof names the set of numbers it has shown its claim for.
Its last lemma says that a recursive function satisfies its equation; an
instance replaces `Base` and `Step` by those of the parser, the evaluation, or a
loop of the arithmetic.

The four arguments that meet in `QInv`:

- *Parser.* From the tokens of a group that is written plainly, wherever they stand
  in the text, the parser gets the group back and ends after it (`Rebuilds`), by
  induction on the depth and, inside, on the items from the last to the first. Of
  such tokens `Word` takes one (`WordPlain`), and `Extract` the list, the range or the
  word of its operator (`ExtractPlain`). `ParsesPlainClauses` is the result for a whole
  query: every plainly written clause is accepted, rebuilt, and the parser stops at
  what follows it. For all other texts the proof shows only that what `Word` and
  `Extract` take ends where the text does or before (`WordReaches`, `ExtractReaches`),
  which is what makes the parser's function one. A term's left side is no brace, `!`,
  `and` or `or` - what stands there would be parsed as something else.
- *Arithmetic.* `Represents` relates the machine, after each operand, to what has
  been read of the sum: one value, or a sum and a product with the sign between.
  An operator token brings it into the form that the next operand continues
  (`SolvedAsMeant`), for expressions of any length, as long as the meaning has a
  value: the code does the same operations on the same numbers, in an order that
  differs only in when they are carried out. `SolvedTyped` says of every
  expression, sensible or not, that it ends with an int, an exception or in
  undefined behaviour, which `StoredReadable` rests on.
- *One term.* `TermMeans` compares the conversion of both sides and the order of
  their alternatives with the plain comparison of numbers and texts; its
  hypothesis `Comparable` is what `Judged` says of a term. `CacheOK` is what the
  statics keep between entries, terms and queries: the regex is that of the last
  pattern, unless this was malformed or empty. `TermFine` shows that every term
  leaves it so, also one that throws.
- *Groups.* `AllEvaluatesFine` and `AllSound` carry both over groups of any depth:
  a yes of the evaluation means that the entry meets the clause, a no that it does
  not, provided groups come first.

`QInv` adds to the properties that the rows, and the rows the query found, are
entries of the schema or empty (`RowsOK`, `ScanOK`), that the scan has changed only
what it took, and that the clause is the one asked (`QueryOK`). It is inductive,
with one lemma per action; TLC found no state of `queries` outside it.
`ParsesAsWritten`, `TakesWhatMeets`, `LeavesWhatDoesNot`, `UpdatesAsWritten` and
`StoresReadable` follow.

*Only model-checked.* `UndoEnds`, since liveness and `ENABLED` are beyond the
prover, and the five runs that end in a violation.

## 5. Not modelled, and what is left

Not modelled: the backup of a database directory and the system configuration
file (each one copy or one read, with no state the rest depends on); Float, Date
and DateTime fields and arrays; the parsers of queries other than clauses (text to
one record, keyword by keyword); `migrate`, `rename`, `index` and `view`, stubs in
the code; the printing of selections, the prompt, the websocket of the Server (a
library, one client at a time); the cipher itself, of which the users see that it may
garble what another process saved, and the logger (no state).

Noted while modelling and judged by no property, since nothing in the repository
says what is meant. Of the log: a document that an update had truncated before a
crash, and had not logged, is lost; rows deleted twice come back; a rollback over two
databases leaves the rows of lines it has passed over. Of tables: an insert that
throws has lost the row count. Of catalogs: a catalog file torn by a crash loses
every entry while the directories stay; a create that fails after its nested
collections were made leaves them, and their names block every retry; a schema
defined again is one on disk and another in memory. Of users: one that another process
saved, with another key, comes back garbled. Of clauses: a group in second
place replaces what was found before it; a quoted empty text that something follows
takes the rest of the query, which the tests of the parser have as it is; an `in`
without a list takes all up to a later `]`; a boolean in capitals is stored by
`jsonify` and ends the process in `convert`; a malformed pattern leaves the pattern of
`like` set and the regex of the one before; `)` always throws in an update's
expression; the empty pattern of `like` counts as compiled before any other was; `in`
looks for an empty text in the list searched last, since the text a list was read from
is never kept; a text that matches `.*and.*` is left a text when it is compared with
an Integer field, but not as a bound of `between`. All of these are in the models, and
the properties name each as an exception where they would run into it: `last.torn`,
`DeletedTwice`, `PassedOver` and `Sound`, `Found`, `Garbled`, `Plainly`, `Plain` and `Comparable`.

Left, in order: `SavepointStore`, an abstract store whose rollback restores in one step,
implemented by `DocumentWalHistory`; the users and the catalogs composed with the
log in one process.
