------------------------------ MODULE Catalogs ------------------------------
(***************************************************************************)
(* Selenity's catalogs: the databases of the system catalog, the           *)
(* collections of each database with the bindings between them, and the    *)
(* schemas they are created from, in memory and on disk.  A query is       *)
(* carried out task by task; the process may end between any two tasks.    *)
(***************************************************************************)
EXTENDS Naturals, Sequences, FiniteSets, TLC, SchemasCatalog

CONSTANTS
    Dbs,        \* database names
    Cols,       \* collection names: <<"a">>, and <<"a", "f">> for the collection a_f
    None,       \* no database
    Bindings,   \* the bindings that queries create collections with
    MaxUids,    \* bound: collections created
    MaxStarts   \* bound: starts of the process

System == "system"

ASSUME CatalogsAssumption ==
    /\ None \notin Dbs /\ System \notin Dbs
    /\ TornSchema \notin Schemas
    /\ \A d \in Given \cup Definitions :
          d.name \in Schemas /\ d = Schema(d.name, d.fields, d.inherits)
    /\ \A s \in DOMAIN BlendedName : BlendedName[s] \in Schemas

VARIABLES
    databases,      \* the system catalog in memory: names of databases
    systemFile,     \* system_catalog.ldb
    inUse,          \* m_database_in_use
    collections,    \* collections[d][c]: the catalog of database d in memory
    databaseFile,   \* databaseFile[d]: database_catalog.ldb of d
    homes,          \* databases whose directory exists
    dirs,           \* dirs[d]: collections of d whose directory exists
    uids,           \* unique ids generated so far
    todo,           \* the tasks left of the query, the start or the exit
    up,             \* whether the process runs
    starts          \* starts so far

memory == <<databases, inUse, collections, schemaCache>>
disk   == <<systemFile, databaseFile, homes, dirs, schemaFile>>
vars   == <<memory, disk, uids, todo, up, starts>>

\* A file: there is none, it has length zero, or it is whole.
Missing        == [state |-> "missing"]
Torn           == [state |-> "torn"]
File(content)  == [state |-> "whole", content |-> content]

\* An entry of a database catalog: its schema's fields and its bindings, from
\* fields to the unique ids of collections.
Entry(uid, fields, bindings) == [uid |-> uid, fields |-> fields, bindings |-> bindings]
NoEntry == [uid |-> 0]
Unbound == [field \in {} |-> 0]

NoCollections == [c \in Cols |-> NoEntry]

Init ==
    /\ SchemasInit
    /\ databases = {}
    /\ systemFile = Missing
    /\ inUse = None
    /\ collections = [d \in Dbs |-> NoCollections]
    /\ databaseFile = [d \in Dbs |-> Missing]
    /\ homes = {}
    /\ dirs = [d \in Dbs |-> {}]
    /\ uids = 0
    /\ todo = <<>>
    /\ up = FALSE
    /\ starts = 0

-----------------------------------------------------------------------------
(* Tasks. *)

SaveSchema(schema)     == [task |-> "saveSchema", schema |-> schema]
Cache(schema)          == [task |-> "cache", schema |-> schema]
WriteSchema(schema)    == [task |-> "writeSchema", schema |-> schema]
Create(c, s, bindings) == [task |-> "create", name |-> c, of |-> s, bindings |-> bindings]
Add(c, s, bindings, i) == [task |-> "add", name |-> c, of |-> s, bindings |-> bindings, next |-> i]
Drop(c, cascade)       == [task |-> "drop", name |-> c, cascade |-> cascade]
DropRest(c, fields)    == [task |-> "dropRest", name |-> c, fields |-> fields]
DropBound(uid)         == [task |-> "dropBound", uid |-> uid]
RemoveFiles(c)         == [task |-> "remove", name |-> c]
Erase(c)               == [task |-> "erase", name |-> c]
Bind(c, f, uid)        == [task |-> "bind", name |-> c, field |-> f, uid |-> uid]
Resolve(uid)           == [task |-> "resolve", uid |-> uid]
RemoveHome(d)          == [task |-> "removeHome", name |-> d]
EraseDatabase(d)       == [task |-> "eraseDatabase", name |-> d]
Save(catalog)          == [task |-> "save", of |-> catalog]
Write(catalog)         == [task |-> "write", of |-> catalog]
SaveSchemas(schemas)   == [task |-> "saveSchemas", of |-> schemas]
SaveManagers(ds)       == [task |-> "saveManagers", of |-> ds]
End                    == [task |-> "end"]

At(task)     == up /\ todo # <<>> /\ Head(todo).task = task
Then(tasks)  == todo' = tasks \o Tail(todo)
Ready        == up /\ todo = <<>>

\* An exception ends the query; what it did so far stays.
Throws == todo' = <<>> /\ UNCHANGED <<memory, disk>>

\* The process ends without another write: a crash, a failed assertion, or a
\* recursion without end.
Dies ==
    /\ up' = FALSE
    /\ databases' = {}
    /\ inUse' = None
    /\ collections' = [d \in Dbs |-> NoCollections]
    /\ schemaCache' = [s \in Schemas |-> NoSchema]
    /\ todo' = <<>>
    /\ UNCHANGED <<disk, uids, starts>>

Lives == UNCHANGED <<up, starts>>

-----------------------------------------------------------------------------
(* The catalog files: truncated, then written; one that is missing or of     *)
(* length zero holds no entries.  Without its directory a file is not saved. *)

DatabasesOnDisk      == IF systemFile \in {Missing, Torn} THEN {} ELSE systemFile.content
CollectionsOnDisk(d) ==
    IF databaseFile[d] \in {Missing, Torn} THEN NoCollections ELSE databaseFile[d].content

Saves ==
    /\ At("save")
    /\ LET catalog == Head(todo).of IN
       IF catalog = System
       THEN /\ systemFile' = Torn
            /\ Then(<<Write(catalog)>>)
            /\ UNCHANGED databaseFile
       ELSE /\ databaseFile' = IF catalog \in homes THEN [databaseFile EXCEPT ![catalog] = Torn]
                               ELSE databaseFile
            /\ Then(IF catalog \in homes THEN <<Write(catalog)>> ELSE <<>>)
            /\ UNCHANGED systemFile
    /\ UNCHANGED <<memory, homes, dirs, schemaFile, uids>> /\ Lives

Writes ==
    /\ At("write")
    /\ LET catalog == Head(todo).of IN
       IF catalog = System
       THEN systemFile' = File(databases) /\ UNCHANGED databaseFile
       ELSE /\ databaseFile' = [databaseFile EXCEPT ![catalog] = File(collections[catalog])]
            /\ UNCHANGED systemFile
    /\ Then(<<>>)
    /\ UNCHANGED <<memory, homes, dirs, schemaFile, uids>> /\ Lives

-----------------------------------------------------------------------------
(* The life of the process. *)

\* Catalogs and schemas are saved one by one, in the order of a hash table.  The
\* files have nothing to do with each other: one order stands for all.
SaveEach(ds) == IF ds = {} THEN <<>> ELSE <<SaveManagers(ds)>>

SavesManagers ==
    /\ At("saveManagers")
    /\ LET d == CHOOSE d \in Head(todo).of : TRUE IN
       Then(<<Save(d)>> \o SaveEach(Head(todo).of \ {d}))
    /\ UNCHANGED <<memory, disk, uids>> /\ Lives

SavesSchemas ==
    /\ At("saveSchemas")
    /\ LET left == Head(todo).of
           schema == CHOOSE schema \in left : TRUE IN
       Then(IF left = {} THEN <<>> ELSE <<SaveSchema(schema), SaveSchemas(left \ {schema})>>)
    /\ UNCHANGED <<memory, disk, uids>> /\ Lives

\* main: the first use of the catalog loads it, and loadConfigs once more, which
\* ends the managers of the first load.
Start ==
    /\ ~up /\ starts < MaxStarts
    /\ up' = TRUE
    /\ starts' = starts + 1
    /\ databases' = DatabasesOnDisk
    /\ collections' = [d \in Dbs |-> IF d \in databases' THEN CollectionsOnDisk(d) ELSE NoCollections]
    /\ inUse' = None
    /\ todo' = SaveEach(databases')
    /\ UNCHANGED <<schemaCache, disk, uids>>

Crash == up /\ Dies

\* The end of main, and the destructors of the singletons.
Exit ==
    /\ Ready
    /\ todo' = <<Save(System), SaveSchemas({schemaCache[s] : s \in Schemas} \ {NoSchema}),
                 Save(System)>> \o SaveEach(databases) \o <<End>>
    /\ UNCHANGED <<memory, disk, uids>> /\ Lives

ExitEnds == At("end") /\ Dies

-----------------------------------------------------------------------------
(* Queries on databases. *)

\* A directory that is still there brings its collections back.
CreateDatabase(d) ==
    /\ Ready
    /\ d \notin databases
    /\ databases' = databases \cup {d}
    /\ homes' = homes \cup {d}
    /\ collections' = [collections EXCEPT ![d] = CollectionsOnDisk(d)]
    /\ todo' = <<Save(System)>>
    /\ UNCHANGED <<inUse, schemaCache, systemFile, databaseFile, dirs, schemaFile, uids>> /\ Lives

\* Mutant: the database stays in use.
DropDatabaseInUse(d) ==
    /\ Ready
    /\ d \in databases
    /\ todo' = <<RemoveHome(d), EraseDatabase(d), Save(System)>>
    /\ UNCHANGED <<memory, disk, uids>> /\ Lives

\* Mutant: the entry goes first, the files last.
DropDatabaseFilesLast(d) ==
    /\ Ready
    /\ d \in databases
    /\ inUse' = IF inUse = d THEN None ELSE inUse
    /\ todo' = <<EraseDatabase(d), Save(System), RemoveHome(d)>>
    /\ UNCHANGED <<databases, collections, schemaCache, disk, uids>> /\ Lives

DropDatabase(d) ==
    /\ Ready
    /\ d \in databases
    /\ inUse' = IF inUse = d THEN None ELSE inUse
    /\ todo' = <<RemoveHome(d), EraseDatabase(d), Save(System)>>
    /\ UNCHANGED <<databases, collections, schemaCache, disk, uids>> /\ Lives

\* remove_all: what the directory holds, in any order, and then the directory.
RemovesHome ==
    /\ At("removeHome")
    /\ LET d == Head(todo).name IN
       \/ /\ databaseFile[d] # Missing
          /\ databaseFile' = [databaseFile EXCEPT ![d] = Missing]
          /\ UNCHANGED <<homes, dirs, todo>>
       \/ /\ \E c \in dirs[d] : dirs' = [dirs EXCEPT ![d] = @ \ {c}]
          /\ UNCHANGED <<homes, databaseFile, todo>>
       \/ /\ databaseFile[d] = Missing /\ dirs[d] = {}
          /\ homes' = homes \ {d}
          /\ Then(<<>>)
          /\ UNCHANGED <<databaseFile, dirs>>
    /\ UNCHANGED <<memory, systemFile, schemaFile, uids>> /\ Lives

\* The destructor of the manager has no directory to save its catalog in.
ErasesDatabase ==
    /\ At("eraseDatabase")
    /\ LET d == Head(todo).name IN
       /\ databases' = databases \ {d}
       /\ collections' = [collections EXCEPT ![d] = NoCollections]
    /\ Then(<<>>)
    /\ UNCHANGED <<inUse, schemaCache, disk, uids>> /\ Lives

UseDatabase(d) ==
    /\ Ready
    /\ d \in databases
    /\ inUse' = d
    /\ UNCHANGED <<databases, collections, schemaCache, disk, todo, uids>> /\ Lives

-----------------------------------------------------------------------------
(* Schemas. *)

\* A definition whose inherited schemas exist is saved and then cached.
DefineSchema(definition) ==
    /\ Ready
    /\ \A s \in Inherits(definition) : HasSchema(s)
    /\ todo' = <<SaveSchema(Extended(definition)), Cache(Extended(definition))>>
    /\ schemaCache' = CacheWith(Inherits(definition))
    /\ UNCHANGED <<databases, inUse, collections, disk, uids>> /\ Lives

SavesSchema ==
    /\ At("saveSchema")
    /\ SchemaTruncated(Head(todo).schema)
    /\ Then(<<WriteSchema(Head(todo).schema)>>)
    /\ UNCHANGED <<memory, systemFile, databaseFile, homes, dirs, uids>> /\ Lives

WritesSchema ==
    /\ At("writeSchema")
    /\ SchemaWritten(Head(todo).schema)
    /\ Then(<<>>)
    /\ UNCHANGED <<memory, systemFile, databaseFile, homes, dirs, uids>> /\ Lives

CachesSchema ==
    /\ At("cache")
    /\ Cached(Head(todo).schema)
    /\ Then(<<>>)
    /\ UNCHANGED <<databases, inUse, collections, disk, uids>> /\ Lives

-----------------------------------------------------------------------------
(* Creating a collection. *)

Exists(c)     == collections[inUse][c] # NoEntry
UidOf(c)      == collections[inUse][c].uid
Managed(uid)  == \E c \in Cols : Exists(c) /\ UidOf(c) = uid
NameOf(uid)   == CHOOSE c \in Cols : Exists(c) /\ UidOf(c) = uid
SetEntry(c, e) == collections' = [collections EXCEPT ![inUse][c] = e]

\* Create::execute; bindings go from fields to the names of collections.  With a
\* name that is taken or a schema that does not exist it only throws.
CreateCollection(c, s, bindings) ==
    /\ Ready
    /\ inUse # None
    /\ ~Exists(c) /\ HasSchema(s)
    /\ todo' = <<Create(c, s, bindings)>>
    /\ UNCHANGED <<memory, disk, uids>> /\ Lives

\* A blended collection is created from a blended schema of its own.  Blending
\* reads the nested schemas, throws when one does not exist and never ends when
\* one nests itself.
CreateBlended(c, s) ==
    /\ Ready
    /\ inUse # None
    /\ s \in DOMAIN BlendedName
    /\ HasSchema(s) /\ GetSchema(s) # Blank
    /\ LET schema == GetSchema(s)
           inner  == Reached(schema) IN
       IF \E t \in inner \cup {s} : HasSchema(t) /\ t \in Reached(GetSchema(t)) THEN Dies
       ELSE /\ IF \A t \in inner \cup Inherits(schema) : HasSchema(t)
               THEN LET blended == Extended(Blended(schema)) IN
                    /\ schemaCache' = CacheWith(inner \cup {s} \cup Inherits(blended))
                    /\ todo' = <<SaveSchema(blended), Cache(blended), Create(c, blended.name, Unbound)>>
               ELSE /\ \E read \in SUBSET inner : schemaCache' = CacheWith(read \cup {s})
                    /\ UNCHANGED todo
            /\ UNCHANGED <<databases, inUse, collections, disk, uids>> /\ Lives

\* createCollection; a schema that nests itself never ends.
Creates ==
    /\ At("create")
    /\ LET c == Head(todo).name
           s == Head(todo).of IN
       \/ /\ Exists(c) \/ ~HasSchema(s)
          /\ Throws /\ UNCHANGED uids /\ Lives
       \/ /\ ~Exists(c) /\ HasSchema(s)
          /\ s \in Reached(GetSchema(s))
          /\ Dies
       \/ /\ ~Exists(c) /\ HasSchema(s)
          /\ s \notin Reached(GetSchema(s))
          /\ schemaCache' = CacheWith({s})
          /\ Then(<<Add(c, s, Head(todo).bindings, 1)>>)
          /\ UNCHANGED <<databases, inUse, collections, disk, uids>> /\ Lives

\* The collections of nested fields come first, named after the field and
\* created from its schema.
AddsNested ==
    /\ At("add")
    /\ LET c      == Head(todo).name
           s      == Head(todo).of
           nested == NestedFields(GetSchema(s))
           i      == Head(todo).next IN
       /\ i \in DOMAIN nested
       /\ Append(c, nested[i].name) \in Cols
       /\ Then(<<Create(Append(c, nested[i].name), nested[i].type, Unbound),
                 Add(c, s, Head(todo).bindings, i + 1)>>)
    /\ UNCHANGED <<memory, disk, uids>> /\ Lives

\* Bindings are resolved; the entry, the directory and the manager are made.
Adds ==
    /\ At("add")
    /\ LET c        == Head(todo).name
           nested   == NestedFields(GetSchema(Head(todo).of))
           bindings == Head(todo).bindings
                          @@ [f \in {nested[i].name : i \in DOMAIN nested} |-> Append(c, f)] IN
       /\ Head(todo).next \notin DOMAIN nested
       /\ IF \E f \in DOMAIN bindings : ~Exists(bindings[f])
          THEN Throws /\ UNCHANGED uids
          ELSE /\ uids < MaxUids
               /\ uids' = uids + 1
               /\ SetEntry(c, Entry(uids', GetSchema(Head(todo).of).fields,
                                    [f \in DOMAIN bindings |-> UidOf(bindings[f])]))
               /\ homes' = homes \cup {inUse}
               /\ dirs' = [dirs EXCEPT ![inUse] = @ \cup {c}]
               /\ Then(<<Save(inUse)>>)
               /\ UNCHANGED <<databases, inUse, schemaCache, systemFile, databaseFile, schemaFile>>
    /\ Lives

-----------------------------------------------------------------------------
(* Dropping and binding collections. *)

DropCollection(c, cascade) ==
    /\ Ready
    /\ inUse # None
    /\ Exists(c)
    /\ todo' = <<Drop(c, cascade)>>
    /\ UNCHANGED <<memory, disk, uids>> /\ Lives

\* Mutant: the entry is erased before the files are removed.
RemovalEraseFirst(c) == <<Erase(c), RemoveFiles(c), Save(inUse)>>

Removal(c) == <<RemoveFiles(c), Erase(c), Save(inUse)>>

\* A cascade drops the bound collections first, in the order of a hash table.
Rest(c, fields) == IF fields = {} THEN Removal(c) ELSE <<DropRest(c, fields)>>

\* dropCollection
Drops ==
    /\ At("drop")
    /\ LET c == Head(todo).name IN
       IF ~Exists(c) THEN Throws
       ELSE /\ Then(Rest(c, IF Head(todo).cascade THEN DOMAIN collections[inUse][c].bindings ELSE {}))
            /\ UNCHANGED <<memory, disk>>
    /\ UNCHANGED uids /\ Lives

DropsRest ==
    /\ At("dropRest")
    /\ LET c == Head(todo).name IN
       \E f \in Head(todo).fields :
          Then(<<DropBound(collections[inUse][c].bindings[f])>> \o Rest(c, Head(todo).fields \ {f}))
    /\ UNCHANGED <<memory, disk, uids>> /\ Lives

\* getCollection by unique id asserts that there is one; a cascade that comes
\* back to a collection never ends.
DropsBound ==
    /\ At("dropBound")
    /\ LET uid      == Head(todo).uid
           onItsWay == \E task \in ToSet(todo) :
                          task.task \in {"remove", "dropRest"} /\ task.name = NameOf(uid) IN
       IF ~Managed(uid) \/ onItsWay THEN Dies
       ELSE Then(<<Drop(NameOf(uid), TRUE)>>) /\ UNCHANGED <<memory, disk, uids>> /\ Lives

Removes ==
    /\ At("remove")
    /\ dirs' = [dirs EXCEPT ![inUse] = @ \ {Head(todo).name}]
    /\ Then(<<>>)
    /\ UNCHANGED <<memory, systemFile, databaseFile, homes, schemaFile, uids>> /\ Lives

Erases ==
    /\ At("erase")
    /\ SetEntry(Head(todo).name, NoEntry)
    /\ Then(<<>>)
    /\ UNCHANGED <<databases, inUse, schemaCache, disk, uids>> /\ Lives

\* rebind: a field that holds record ids is bound to another collection; clean
\* drops the one it was bound to.
Rebind(c, field, to, clean) ==
    /\ Ready
    /\ inUse # None
    /\ Exists(c) /\ Exists(to)
    /\ \E f \in ToSet(collections[inUse][c].fields) : f.name = field /\ f.type # "plain"
    /\ LET bindings == collections[inUse][c].bindings IN
       todo' = (IF clean /\ field \in DOMAIN bindings THEN <<DropBound(bindings[field])>> ELSE <<>>)
                 \o <<Bind(c, field, UidOf(to)), Save(inUse)>>
    /\ UNCHANGED <<memory, disk, uids>> /\ Lives

\* The clean may have dropped the collection to bind, whose unique id is then
\* read from memory that was freed, and the one whose field it is.
Binds ==
    /\ At("bind")
    /\ LET c == Head(todo).name IN
       IF ~Exists(c) THEN UNCHANGED collections
       ELSE \E uid \in {Head(todo).uid} \cup (IF Managed(Head(todo).uid) THEN {} ELSE {0}) :
            SetEntry(c, Entry(UidOf(c), collections[inUse][c].fields,
                              (Head(todo).field :> uid) @@ collections[inUse][c].bindings))
    /\ Then(<<>>)
    /\ UNCHANGED <<databases, inUse, schemaCache, disk, uids>> /\ Lives

\* A nested object that is inserted goes to the collection its field is bound to.
InsertNested(c, field) ==
    /\ Ready
    /\ inUse # None
    /\ Exists(c)
    /\ field \in DOMAIN collections[inUse][c].bindings
    /\ todo' = <<Resolve(collections[inUse][c].bindings[field])>>
    /\ UNCHANGED <<memory, disk, uids>> /\ Lives

Resolves ==
    /\ At("resolve")
    /\ IF Managed(Head(todo).uid) THEN Then(<<>>) /\ UNCHANGED <<memory, disk, uids>> /\ Lives
       ELSE Dies

-----------------------------------------------------------------------------
FieldNames == {f.name : f \in Fields}

Process == Start \/ Crash \/ Exit \/ ExitEnds \/ Saves \/ Writes \/ SavesManagers \/ SavesSchemas

Databases ==
    \/ \E d \in Dbs : CreateDatabase(d) \/ DropDatabase(d) \/ UseDatabase(d)
    \/ RemovesHome \/ ErasesDatabase

SchemaQueries ==
    \/ \E definition \in Definitions : DefineSchema(definition)
    \/ SavesSchema \/ WritesSchema \/ CachesSchema

Collections ==
    \/ \E c \in Cols, s \in Schemas :
          CreateBlended(c, s) \/ \E bindings \in Bindings : CreateCollection(c, s, bindings)
    \/ \E c \in Cols : \E cascade \in BOOLEAN : DropCollection(c, cascade)
    \/ \E c, to \in Cols, f \in FieldNames : \E clean \in BOOLEAN : Rebind(c, f, to, clean)
    \/ \E c \in Cols, f \in FieldNames : InsertNested(c, f)
    \/ Creates \/ AddsNested \/ Adds \/ Drops \/ DropsRest \/ DropsBound \/ Removes \/ Erases \/ Binds \/ Resolves

Next == Process \/ Databases \/ SchemaQueries \/ Collections

Spec == Init /\ [][Next]_vars

-----------------------------------------------------------------------------
(* Properties. *)

Saving(catalog) == todo # <<>> /\ Head(todo) \in {Save(catalog), Write(catalog)}

TypeOK ==
    /\ databases \subseteq Dbs /\ homes \subseteq Dbs
    /\ inUse \in databases \cup {None}
    /\ \A d \in Dbs, c \in Cols : {collections[d][c].uid, CollectionsOnDisk(d)[c].uid} \subseteq 0..uids
    /\ \A s \in Schemas : schemaCache[s] # NoSchema => schemaCache[s].name \in {s, TornSchema}

\* A database in use is one that exists (getDatabaseInUse reads its manager
\* unchecked), two collections never share a unique id, and with no save to
\* come the files say what memory says, also when a query has failed.
CatalogInv ==
    /\ TypeOK
    /\ \A d \in Dbs, b, c \in Cols :
          collections[d][b] # NoEntry /\ collections[d][b].uid = collections[d][c].uid => b = c
    /\ up /\ ~Saving(System) => DatabasesOnDisk = databases
    /\ up => \A d \in databases :
          ~Saving(d) /\ EraseDatabase(d) \notin ToSet(todo) => CollectionsOnDisk(d) = collections[d]

\* A running process leaves no data behind that no entry names: what a drop
\* removes from the catalog it has removed from disk before (dropCollection,
\* dropDatabase).
LeftBehind == UNION {{<<d, c>> : c \in {b \in dirs[d] : d \in databases => collections[d][b] = NoEntry}} : d \in Dbs}
NothingLeftBehind == [][up /\ up' => LeftBehind' \subseteq LeftBehind]_vars

\* What the assertion of getCollection says, where a cascade and an insert of a
\* nested object reach it.
BoundCollectionFound == At("dropBound") \/ At("resolve") => Managed(Head(todo).uid)

-----------------------------------------------------------------------------
(* The catalogs implement a store of entries that change one at a time.  A   *)
(* database that is dropped is empty at once; one that is not in the system  *)
(* catalog holds what its directory holds.                                   *)
Present == [uid |-> 1]

Content == [catalog \in Dbs \cup {System} |->
    IF catalog = System
    THEN LET present == IF up THEN databases ELSE DatabasesOnDisk
         IN  [d \in Dbs |-> IF d \in present THEN Present ELSE NoEntry]
    ELSE IF EraseDatabase(catalog) \in ToSet(todo) THEN NoCollections
    ELSE IF catalog \in databases THEN collections[catalog] ELSE CollectionsOnDisk(catalog)]

OnDisk(catalog) ==
    IF catalog = System THEN [d \in Dbs |-> IF d \in DatabasesOnDisk THEN Present ELSE NoEntry]
    ELSE CollectionsOnDisk(catalog)

Found == [catalog \in Dbs \cup {System} |->
    IF Saving(catalog) \/ EraseDatabase(catalog) \in ToSet(todo)
    THEN {Content[catalog], OnDisk(catalog)}
    ELSE {Content[catalog]}]

Store == INSTANCE CatalogStore WITH content <- Content, found <- Found, Absent <- NoEntry

ImplementsStore == Store!Spec

=============================================================================
