--------------------------- MODULE CatalogsProofs ---------------------------
(***************************************************************************)
(* The catalogs of databases and collections and their files: CatalogInv   *)
(* always holds and drops leave no data behind.  The catalogs implement    *)
(* the store of entries that change one at a time: a start finds each      *)
(* catalog as it was last saved.                                           *)
(***************************************************************************)
EXTENDS Catalogs, SequenceTheorems, TLAPS

(* The inductive invariant. *)

\* Schemas have the names they are stored under, but for what was read from a
\* torn file.
SchemasInv ==
    /\ schemaFile = [s \in Schemas |-> schemaFile[s]]
    /\ schemaCache = [s \in Schemas |-> schemaCache[s]]
    /\ \A s \in Schemas :
          /\ schemaCache[s] \notin {NoSchema, Blank} => schemaCache[s].name = s
          /\ schemaFile[s] \notin {NoSchema, TornSchema} => schemaFile[s].name = s

OnCollections == {"create", "add", "drop", "dropRest", "dropBound", "remove", "erase", "bind", "resolve"}
Named         == {"create", "add", "drop", "dropRest", "remove", "erase", "bind"}

\* What task t is about exists, and a task on collections has a database in use,
\* u, that is not being dropped.
TaskOK(t, u) ==
    /\ t.task \in OnCollections => u # None
    /\ t.task \in Named => t.name \in Cols
    /\ t.task \in {"removeHome", "eraseDatabase"} => t.name \in Dbs /\ t.name # u
    /\ t.task \in {"save", "write"} => t.of \in Dbs \cup {System}
    /\ t.task = "saveManagers" => t.of \subseteq Dbs /\ t.of # {}
    /\ t.task \in {"saveSchema", "writeSchema", "cache"} => t.schema.name \in Schemas \cup {TornSchema}
    /\ t.task = "saveSchemas" => \A x \in t.of : x.name \in Schemas \cup {TornSchema}

\* An entry is erased after its files were removed, and saved right after that.
Ordered(s, u) == \A i \in 1..Len(s) :
    /\ TaskOK(s[i], u)
    /\ s[i].task \in {"erase", "bind"} => i < Len(s) /\ s[i + 1] = Save(u)
    /\ s[i].task = "remove"            => i < Len(s) /\ s[i + 1] = Erase(s[i].name)
    /\ s[i].task = "removeHome"        => i = 1 /\ i < Len(s) /\ s[i + 1] = EraseDatabase(s[i].name)
    /\ s[i].task = "eraseDatabase"     => i < Len(s) /\ s[i + 1] = Save(System)
    /\ i > 1 => /\ s[i].task = "erase" => s[i - 1] = RemoveFiles(s[i].name)
                /\ s[i].task = "eraseDatabase" => s[i - 1] = RemoveHome(s[i].name)
                /\ s[i].task # "write"

HeadOK ==
    /\ At("erase") => Head(todo).name \notin dirs[inUse]
    /\ At("eraseDatabase") => dirs[Head(todo).name] = {} /\ databaseFile[Head(todo).name] = Missing
    /\ At("write") => Head(todo).of \in homes \cup {System}

TasksInv == todo \in Seq(ToSet(todo)) /\ Ordered(todo, inUse) /\ HeadOK

\* A catalog of collections: each entry has a unique id of its own, at most n.
CatalogOK(m, n) ==
    /\ m = [c \in Cols |-> m[c]]
    /\ \A c \in Cols : m[c] # NoEntry => m[c].uid \in 1..n
    /\ \A b, c \in Cols : m[b] # NoEntry /\ m[c] # NoEntry /\ m[b].uid = m[c].uid => b = c

Erasing(d) == EraseDatabase(d) \in ToSet(todo)

StateOK ==
    /\ databases \subseteq Dbs /\ homes \subseteq Dbs /\ DatabasesOnDisk \subseteq Dbs
    /\ inUse \in databases \cup {None}
    /\ uids \in Nat
    /\ collections = [d \in Dbs |-> collections[d]]
    /\ databaseFile = [d \in Dbs |-> databaseFile[d]]
    /\ dirs = [d \in Dbs |-> dirs[d]] /\ \A d \in Dbs : dirs[d] \subseteq Cols
    /\ \A d \in Dbs : CatalogOK(collections[d], uids) /\ CatalogOK(CollectionsOnDisk(d), uids)
    /\ \A d \in Dbs \ databases : collections[d] = NoCollections

Agreed ==
    up => /\ Saving(System) \/ DatabasesOnDisk = databases
          /\ \A d \in databases : Saving(d) \/ Erasing(d) \/ CollectionsOnDisk(d) = collections[d]

\* A database without a directory has no file and no collections.
Homeless == \A d \in Dbs \ homes :
    /\ databaseFile[d] = Missing
    /\ up /\ d \in databases => Erasing(d) \/ collections[d] = NoCollections

Down == ~up => databases = {} /\ inUse = None /\ collections = [d \in Dbs |-> NoCollections] /\ todo = <<>>

CatalogsInv == SchemasInv /\ TasksInv /\ StateOK /\ Agreed /\ Homeless /\ Down

-----------------------------------------------------------------------------
(* Tasks. *)

LEMMA Tasks ==
    /\ \A x : SaveSchema(x).task = "saveSchema" /\ SaveSchema(x).schema = x
    /\ \A x : Cache(x).task = "cache" /\ Cache(x).schema = x
    /\ \A x : WriteSchema(x).task = "writeSchema" /\ WriteSchema(x).schema = x
    /\ \A c, s, b : Create(c, s, b).task = "create" /\ Create(c, s, b).name = c
    /\ \A c, s, b, i : Add(c, s, b, i).task = "add" /\ Add(c, s, b, i).name = c
    /\ \A c, x : Drop(c, x).task = "drop" /\ Drop(c, x).name = c
    /\ \A c, x : DropRest(c, x).task = "dropRest" /\ DropRest(c, x).name = c
    /\ \A x : DropBound(x).task = "dropBound" /\ Resolve(x).task = "resolve"
    /\ \A c : RemoveFiles(c).task = "remove" /\ RemoveFiles(c).name = c
    /\ \A c : Erase(c).task = "erase" /\ Erase(c).name = c
    /\ \A c, f, x : Bind(c, f, x).task = "bind" /\ Bind(c, f, x).name = c
    /\ \A d : RemoveHome(d).task = "removeHome" /\ RemoveHome(d).name = d
    /\ \A d : EraseDatabase(d).task = "eraseDatabase" /\ EraseDatabase(d).name = d
    /\ \A x : Save(x).task = "save" /\ Save(x).of = x
    /\ \A x : Write(x).task = "write" /\ Write(x).of = x
    /\ \A x : SaveSchemas(x).task = "saveSchemas" /\ SaveSchemas(x).of = x
    /\ \A x : SaveManagers(x).task = "saveManagers" /\ SaveManagers(x).of = x
    /\ End.task = "end"
BY DEF SaveSchema, Cache, WriteSchema, Create, Add, Drop, DropRest, DropBound, Resolve, RemoveFiles, Erase,
       Bind, RemoveHome, EraseDatabase, Save, Write, SaveSchemas, SaveManagers, End

\* Tasks that may come first and ask for nothing after them.
Plain(t, u) ==
    /\ TaskOK(t, u)
    /\ t.task \notin {"erase", "bind", "remove", "removeHome", "eraseDatabase", "write"}

\* A sequence of tasks that may come after any task but a removal.
Closed(s) == s # <<>> => s[1].task \notin {"erase", "eraseDatabase", "write", "removeHome"}

LEMMA InOwnSet ==
    ASSUME NEW S, NEW s \in Seq(S)
    PROVE  s \in Seq(ToSet(s))
<1>1. Len(s) \in Nat /\ s \in [1..Len(s) -> S] /\ DOMAIN s = 1..Len(s)
      BY LenProperties
<1>2. s \in [1..Len(s) -> ToSet(s)]
      BY <1>1 DEF ToSet
<1>3. QED
      BY <1>1, <1>2, SeqDef

\* Sequences of plain tasks are ordered.
LEMMA OrderedTuples ==
    ASSUME NEW u
    PROVE  /\ Ordered(<<>>, u) /\ Closed(<<>>)
           /\ \A a : Plain(a, u) => Ordered(<<a>>, u) /\ Closed(<<a>>)
           /\ \A a, b : Plain(a, u) /\ Plain(b, u) => Ordered(<<a, b>>, u) /\ Closed(<<a, b>>)
           /\ \A a, b, c : Plain(a, u) /\ Plain(b, u) /\ Plain(c, u) =>
                 Ordered(<<a, b, c>>, u) /\ Closed(<<a, b, c>>)
BY DEF Ordered, Closed, Plain

LEMMA ClosedConcat ==
    ASSUME NEW S, NEW s \in Seq(S), NEW T, NEW t \in Seq(T), NEW u,
           Ordered(s, u), Ordered(t, u), Closed(t)
    PROVE  /\ Ordered(s \o t, u)
           /\ Closed(s) => Closed(s \o t)
           /\ s \o t \in Seq(ToSet(s \o t))
<1>1. s \in Seq(S \cup T) /\ t \in Seq(S \cup T)
      BY SeqMonotonic
<1>2. /\ s \o t \in Seq(S \cup T)
      /\ Len(s \o t) = Len(s) + Len(t)
      /\ \A i \in 1..(Len(s) + Len(t)) : (s \o t)[i] = IF i <= Len(s) THEN s[i] ELSE t[i - Len(s)]
      BY <1>1, ConcatProperties
<1>3. Len(s) \in Nat /\ Len(t) \in Nat
      BY <1>1, LenProperties
<1>4. s \o t \in Seq(ToSet(s \o t))
      BY <1>2, InOwnSet
<1>5. t # <<>> <=> Len(t) > 0
      BY <1>1, <1>3, EmptySeq
<1>6. ASSUME NEW i \in 1..Len(s \o t)
      PROVE  /\ TaskOK((s \o t)[i], u)
             /\ (s \o t)[i].task \in {"erase", "bind"} => i < Len(s \o t) /\ (s \o t)[i + 1] = Save(u)
             /\ (s \o t)[i].task = "remove" => i < Len(s \o t) /\ (s \o t)[i + 1] = Erase((s \o t)[i].name)
             /\ (s \o t)[i].task = "removeHome" =>
                   i = 1 /\ i < Len(s \o t) /\ (s \o t)[i + 1] = EraseDatabase((s \o t)[i].name)
             /\ (s \o t)[i].task = "eraseDatabase" => i < Len(s \o t) /\ (s \o t)[i + 1] = Save(System)
             /\ i > 1 => /\ (s \o t)[i].task = "erase" => (s \o t)[i - 1] = RemoveFiles((s \o t)[i].name)
                         /\ (s \o t)[i].task = "eraseDatabase" => (s \o t)[i - 1] = RemoveHome((s \o t)[i].name)
                         /\ (s \o t)[i].task # "write"
  <2>1. CASE i <= Len(s)
    <3>1. i \in 1..Len(s) /\ (s \o t)[i] = s[i]
          BY <1>2, <1>3, <2>1
    <3>2. i < Len(s) => i < Len(s \o t) /\ (s \o t)[i + 1] = s[i + 1]
          BY <1>2, <1>3, <2>1
    <3>3. i > 1 => (s \o t)[i - 1] = s[i - 1]
          BY <1>2, <1>3, <2>1
    <3>4. QED
          BY <3>1, <3>2, <3>3 DEF Ordered
  <2>2. CASE i > Len(s)
    <3> DEFINE j == i - Len(s)
    <3>1. j \in 1..Len(t) /\ (s \o t)[i] = t[j]
          BY <1>2, <1>3, <2>2
    <3>2. j < Len(t) => i < Len(s \o t) /\ (s \o t)[i + 1] = t[j + 1]
          BY <1>2, <1>3, <2>2
    <3>3. j > 1 => i > 1 /\ (s \o t)[i - 1] = t[j - 1]
          BY <1>2, <1>3, <2>2
    <3>4. t[j].task # "removeHome"
      <4>1. j = 1 => t[j].task \notin {"erase", "eraseDatabase", "write", "removeHome"}
            BY <1>3, <1>5, <3>1 DEF Closed
      <4>2. QED
            BY <3>1, <4>1 DEF Ordered
    <3>5. j = 1 => t[j].task \notin {"erase", "eraseDatabase", "write"}
          BY <1>3, <1>5, <3>1 DEF Closed
    <3>6. QED
          BY <1>3, <3>1, <3>2, <3>3, <3>4, <3>5 DEF Ordered
  <2>3. i <= Len(s) \/ i > Len(s)
        BY <1>2, <1>3
  <2>4. QED
        BY <2>1, <2>2, <2>3
<1>7. Ordered(s \o t, u)
      BY <1>6 DEF Ordered
<1>8. ASSUME Closed(s)
      PROVE  Closed(s \o t)
  <2>1. CASE s = <<>>
        BY <1>1, <2>1, ConcatEmptySeq
  <2>2. CASE s # <<>>
    <3>1. Len(s) > 0
          BY <1>1, <1>3, <2>2, EmptySeq
    <3>2. (s \o t)[1] = s[1]
          BY <1>2, <1>3, <3>1
    <3>3. QED
          BY <1>8, <2>2, <3>2 DEF Closed
  <2>3. QED
        BY <2>1, <2>2
<1>9. QED
      BY <1>4, <1>7, <1>8

\* What is left after the first task.
LEMMA TailOrdered ==
    ASSUME TasksInv, todo # <<>>
    PROVE  /\ Head(todo) = todo[1] /\ TaskOK(Head(todo), inUse)
           /\ Tail(todo) \in Seq(ToSet(todo)) /\ Ordered(Tail(todo), inUse)
           /\ Head(todo).task \notin {"remove", "removeHome"} => Closed(Tail(todo))
           /\ Head(todo).task \in {"erase", "bind"} =>
                 Tail(todo) # <<>> /\ Head(Tail(todo)) = Save(inUse)
           /\ Head(todo).task = "remove" =>
                 Tail(todo) # <<>> /\ Head(Tail(todo)) = Erase(Head(todo).name)
           /\ Head(todo).task = "removeHome" =>
                 Tail(todo) # <<>> /\ Head(Tail(todo)) = EraseDatabase(Head(todo).name)
           /\ Head(todo).task = "eraseDatabase" =>
                 Tail(todo) # <<>> /\ Head(Tail(todo)) = Save(System)
<1> DEFINE t == Tail(todo)
<1>1. todo \in Seq(ToSet(todo)) /\ Ordered(todo, inUse)
      BY DEF TasksInv
<1>2. /\ Head(todo) = todo[1]
      /\ t \in Seq(ToSet(todo)) /\ Len(todo) \in Nat /\ Len(todo) > 0
      /\ Len(t) = Len(todo) - 1
      /\ \A i \in 1..Len(t) : t[i] = todo[i + 1]
      BY <1>1, HeadTailProperties, EmptySeq, LenProperties
<1>3. Len(t) > 0 => t # <<>> /\ Head(t) = t[1]
      BY <1>2
<1>4. t # <<>> => Len(t) > 0
      BY <1>2, EmptySeq
<1>5. ASSUME NEW i \in 1..Len(t)
      PROVE  /\ TaskOK(t[i], inUse)
             /\ t[i].task \in {"erase", "bind"} => i < Len(t) /\ t[i + 1] = Save(inUse)
             /\ t[i].task = "remove" => i < Len(t) /\ t[i + 1] = Erase(t[i].name)
             /\ t[i].task # "removeHome"
             /\ t[i].task = "eraseDatabase" => i < Len(t) /\ t[i + 1] = Save(System)
             /\ t[i].task = "erase" => todo[i] = RemoveFiles(t[i].name)
             /\ t[i].task = "eraseDatabase" => todo[i] = RemoveHome(t[i].name)
             /\ t[i].task # "write"
             /\ i > 1 => todo[i] = t[i - 1]
  <2>1. i + 1 \in 1..Len(todo) /\ t[i] = todo[i + 1] /\ (i + 1) - 1 = i /\ i + 1 > 1 /\ i + 1 # 1
        BY <1>2
  <2>2. i + 1 < Len(todo) => i < Len(t) /\ t[i + 1] = todo[(i + 1) + 1]
        BY <1>2
  <2>3. i > 1 => todo[i] = t[i - 1]
        BY <1>2
  <2>4. QED
        BY <1>1, <2>1, <2>2, <2>3 DEF Ordered
<1>6. Ordered(t, inUse)
      BY <1>5 DEF Ordered
<1>7. ASSUME Head(todo).task \notin {"remove", "removeHome"}
      PROVE  Closed(t)
  <2>1. CASE t = <<>>
        BY <2>1 DEF Closed
  <2>2. CASE t # <<>>
    <3>1. 1 \in 1..Len(t)
          BY <1>2, <1>4, <2>2
    <3>2. /\ t[1].task = "erase" => todo[1] = RemoveFiles(t[1].name)
          /\ t[1].task = "eraseDatabase" => todo[1] = RemoveHome(t[1].name)
          /\ t[1].task # "removeHome" /\ t[1].task # "write"
          BY <1>5, <3>1
    <3>3. /\ todo[1] # RemoveFiles(t[1].name) /\ todo[1] # RemoveHome(t[1].name)
          BY <1>2, <1>7, Tasks
    <3>4. QED
          BY <3>2, <3>3 DEF Closed
  <2>3. QED
        BY <2>1, <2>2
<1>8. /\ TaskOK(todo[1], inUse)
      /\ todo[1].task \in {"erase", "bind"} => 1 < Len(todo) /\ todo[2] = Save(inUse)
      /\ todo[1].task = "remove" => 1 < Len(todo) /\ todo[2] = Erase(todo[1].name)
      /\ todo[1].task = "removeHome" => 1 < Len(todo) /\ todo[2] = EraseDatabase(todo[1].name)
      /\ todo[1].task = "eraseDatabase" => 1 < Len(todo) /\ todo[2] = Save(System)
      BY <1>1, <1>2 DEF Ordered
<1>9. 1 < Len(todo) => t # <<>> /\ Head(t) = todo[2]
      BY <1>2, <1>3
<1>10. QED
      BY <1>2, <1>6, <1>7, <1>8, <1>9

\* After its first task a query goes on with tasks put in front of the rest.
LEMMA PutInFront ==
    ASSUME TasksInv, todo # <<>>, Head(todo).task \notin {"remove", "removeHome"},
           NEW S, NEW s \in Seq(S), Ordered(s, inUse), Then(s), inUse' = inUse
    PROVE  /\ todo' \in Seq(ToSet(todo')) /\ Ordered(todo', inUse')
           /\ Closed(s) => Closed(todo')
           /\ s # <<>> => todo' # <<>> /\ Head(todo') = s[1]
<1>1. /\ Tail(todo) \in Seq(ToSet(todo)) /\ Ordered(Tail(todo), inUse)
      /\ Closed(Tail(todo))
      BY TailOrdered
<1>2. todo' = s \o Tail(todo)
      BY DEF Then
<1>3. /\ Ordered(s \o Tail(todo), inUse)
      /\ Closed(s) => Closed(s \o Tail(todo))
      /\ s \o Tail(todo) \in Seq(ToSet(s \o Tail(todo)))
      BY <1>1, ClosedConcat
<1>4. ASSUME s # <<>>
      PROVE  todo' # <<>> /\ Head(todo') = s[1]
  <2>1. s \in Seq(S \cup ToSet(todo)) /\ Tail(todo) \in Seq(S \cup ToSet(todo))
        BY <1>1, SeqMonotonic
  <2>2. Len(s) \in Nat /\ Len(s) > 0 /\ Len(Tail(todo)) \in Nat
        BY <1>4, <2>1, EmptySeq, LenProperties
  <2>3. /\ Len(todo') = Len(s) + Len(Tail(todo))
        /\ todo'[1] = s[1]
        BY <1>2, <2>1, <2>2, ConcatProperties
  <2>4. todo' # <<>>
        BY <1>3, <1>2, <2>2, <2>3, EmptySeq
  <2>5. QED
        BY <1>2, <1>3, <2>3, <2>4
<1>5. QED
      BY <1>2, <1>3, <1>4

\* A database is on its way out while its directory is removed and its entry
\* erased, and at no other time.
LEMMA ErasingHead ==
    ASSUME TasksInv, NEW d
    PROVE  Erasing(d) <=> todo # <<>> /\ (Head(todo) = EraseDatabase(d)
                                            \/ (Head(todo).task = "removeHome" /\ Head(todo).name = d))
<1>1. todo \in Seq(ToSet(todo)) /\ Ordered(todo, inUse)
      BY DEF TasksInv
<1>2. Len(todo) \in Nat /\ DOMAIN todo = 1..Len(todo) /\ (todo # <<>> => Len(todo) > 0 /\ Head(todo) = todo[1])
      BY <1>1, LenProperties, EmptySeq, HeadTailProperties
<1>3. ASSUME NEW i \in DOMAIN todo, todo[i] = EraseDatabase(d), i > 1
      PROVE  i = 2 /\ todo[1] = RemoveHome(d)
  <2>1. todo[i].task = "eraseDatabase" /\ todo[i].name = d
        BY <1>3, Tasks
  <2>2. todo[i - 1] = RemoveHome(d)
        BY <1>1, <1>2, <1>3, <2>1 DEF Ordered
  <2>3. i - 1 \in 1..Len(todo)
        BY <1>2, <1>3
  <2>4. i - 1 = 1
        BY <1>1, <2>2, <2>3, Tasks DEF Ordered
  <2>5. QED
        BY <1>2, <1>3, <2>2, <2>4
<1>4. Erasing(d) => \E i \in DOMAIN todo : todo[i] = EraseDatabase(d)
      BY DEF Erasing, ToSet
<1>5. ASSUME todo # <<>>, Head(todo).task = "removeHome", Head(todo).name = d
      PROVE  Erasing(d)
  <2>1. 1 < Len(todo) /\ todo[2] = EraseDatabase(d)
        BY <1>1, <1>2, <1>5 DEF Ordered
  <2>2. 2 \in DOMAIN todo
        BY <1>2, <2>1
  <2>3. QED
        BY <2>1, <2>2 DEF Erasing, ToSet
<1>6. todo # <<>> /\ Head(todo) = EraseDatabase(d) => Erasing(d)
  <2>1. todo # <<>> => 1 \in DOMAIN todo
        BY <1>2
  <2>2. QED
        BY <1>2, <2>1 DEF Erasing, ToSet
<1>7. ASSUME Erasing(d)
      PROVE  todo # <<>> /\ (Head(todo) = EraseDatabase(d)
                               \/ (Head(todo).task = "removeHome" /\ Head(todo).name = d))
  <2>1. PICK i \in DOMAIN todo : todo[i] = EraseDatabase(d)
        BY <1>4, <1>7
  <2>2. todo # <<>> /\ Head(todo) = todo[1]
        BY <1>1, <1>2, <2>1, EmptySeq
  <2>3. i = 1 \/ i > 1
        BY <1>2, <2>1
  <2>4. QED
        BY <1>3, <2>1, <2>2, <2>3, Tasks
<1>8. QED
      BY <1>5, <1>6, <1>7

-----------------------------------------------------------------------------
(* Steps that leave the catalogs of databases and collections alone.         *)

\* The first task, if there is one, is not part of a save or of a drop of a
\* database.
Settled == todo # <<>> => Head(todo).task \notin {"save", "write", "removeHome", "eraseDatabase"}

\* Then memory and files agree.
LEMMA SettledAgrees ==
    ASSUME CatalogsInv, Settled
    PROVE  /\ \A d : ~Erasing(d) /\ ~Saving(d)
           /\ up => /\ DatabasesOnDisk = databases
                    /\ \A d \in databases : CollectionsOnDisk(d) = collections[d]
           /\ \A d \in Dbs \ homes : /\ databaseFile[d] = Missing
                                     /\ up /\ d \in databases => collections[d] = NoCollections
<1>1. \A d : ~Erasing(d)
      BY ErasingHead, Tasks DEF CatalogsInv, Settled
<1>2. \A d : ~Saving(d)
      BY Tasks DEF Settled, Saving
<1>3. QED
      BY <1>1, <1>2 DEF CatalogsInv, Agreed, Homeless

CatalogsUnchanged ==
    UNCHANGED <<databases, systemFile, collections, databaseFile, homes, dirs, uids, up>>

LEMMA QuietKeeps ==
    ASSUME CatalogsInv, Settled, up, CatalogsUnchanged, inUse' \in databases \cup {None}
    PROVE  StateOK' /\ Agreed' /\ Homeless' /\ Down'
<1>1. DatabasesOnDisk' = DatabasesOnDisk /\ \A d : CollectionsOnDisk(d)' = CollectionsOnDisk(d)
      BY DEF CatalogsUnchanged, DatabasesOnDisk, CollectionsOnDisk
<1>2. StateOK'
      BY <1>1 DEF CatalogsInv, StateOK, CatalogsUnchanged
<1>3. Agreed'
      BY <1>1, SettledAgrees DEF Agreed, CatalogsUnchanged
<1>4. Homeless'
      BY SettledAgrees DEF Homeless, CatalogsUnchanged
<1>5. Down'
      BY DEF Down, CatalogsUnchanged
<1>6. QED
      BY <1>2, <1>3, <1>4, <1>5

\* A task on collections or schemas that puts closed tasks in front.
LEMMA TaskGoesOn ==
    ASSUME CatalogsInv, up, todo # <<>>, Settled, Head(todo).task # "remove",
           CatalogsUnchanged, inUse' = inUse, SchemasInv',
           NEW S, NEW s \in Seq(S), Ordered(s, inUse), Closed(s), Then(s)
    PROVE  CatalogsInv'
<1>1. TasksInv
      BY DEF CatalogsInv
<1>2. todo' \in Seq(ToSet(todo')) /\ Ordered(todo', inUse') /\ Closed(todo')
      BY <1>1, PutInFront DEF Settled
<1>3. TasksInv'
  <2>1. todo' # <<>> => Head(todo').task \notin {"erase", "eraseDatabase", "write"}
        BY <1>2 DEF Closed
  <2>2. HeadOK'
        BY <2>1 DEF HeadOK, At
  <2>3. QED
        BY <1>2, <2>2 DEF TasksInv
<1>4. inUse' \in databases \cup {None}
      BY DEF CatalogsInv, StateOK
<1>5. QED
      BY <1>3, <1>4, QuietKeeps DEF CatalogsInv

\* A query that begins.
LEMMA QueryBegins ==
    ASSUME CatalogsInv, Ready, CatalogsUnchanged, inUse' \in databases \cup {None}, SchemasInv',
           NEW S, todo' \in Seq(S), Ordered(todo', inUse'), Closed(todo')
    PROVE  CatalogsInv'
<1>1. Settled
      BY DEF Settled, Ready
<1>2. TasksInv'
  <2>1. todo' # <<>> => Head(todo').task \notin {"erase", "eraseDatabase", "write"}
        BY DEF Closed
  <2>2. HeadOK'
        BY <2>1 DEF HeadOK, At
  <2>3. todo' \in Seq(ToSet(todo'))
        BY InOwnSet
  <2>4. QED
        BY <2>2, <2>3 DEF TasksInv
<1>3. QED
      BY <1>1, <1>2, QuietKeeps DEF CatalogsInv, Ready

-----------------------------------------------------------------------------
(* Schemas. *)

LEMMA SchemasStay ==
    ASSUME SchemasInv, UNCHANGED <<schemaFile, schemaCache>>
    PROVE  SchemasInv'
BY DEF SchemasInv

\* What getSchema returns has the name it was asked for, or is blank.
LEMMA SchemaNames ==
    ASSUME SchemasInv, NEW s \in Schemas, HasSchema(s)
    PROVE  GetSchema(s) = Blank \/ GetSchema(s).name = s
BY DEF SchemasInv, HasSchema, GetSchema

LEMMA BlankName == Blank.name = TornSchema
BY DEF Blank, Schema

LEMMA ReadKeeps ==
    ASSUME SchemasInv, NEW schemas, schemaCache' = CacheWith(schemas), UNCHANGED schemaFile
    PROVE  /\ SchemasInv'
           /\ \A s \in Schemas : schemaCache[s] # NoSchema => schemaCache'[s] = schemaCache[s]
<1>1. \A s \in Schemas : schemaCache'[s] = IF s \in schemas /\ HasSchema(s) THEN GetSchema(s) ELSE schemaCache[s]
      BY DEF CacheWith
<1>2. schemaCache' = [s \in Schemas |-> schemaCache'[s]]
      BY DEF CacheWith
<1>3. SchemasInv'
      BY <1>1, <1>2, SchemaNames DEF SchemasInv
<1>4. QED
      BY <1>1, <1>3 DEF GetSchema

LEMMA CachedKeeps ==
    ASSUME SchemasInv, NEW x, x.name \in Schemas \cup {TornSchema}, Cached(x), UNCHANGED schemaFile
    PROVE  /\ SchemasInv'
           /\ \A s \in Schemas : schemaCache[s] # NoSchema => schemaCache'[s] = schemaCache[s]
<1>1. \A s \in Schemas : schemaCache'[s] = IF s = x.name /\ schemaCache[s] = NoSchema THEN x ELSE schemaCache[s]
      BY DEF Cached, SchemasInv
<1>2. schemaCache' = [s \in Schemas |-> schemaCache'[s]]
      BY DEF Cached, SchemasInv
<1>3. QED
      BY <1>1, <1>2 DEF SchemasInv

LEMMA FileKeeps ==
    ASSUME SchemasInv, NEW x, x.name \in Schemas \cup {TornSchema}, UNCHANGED schemaCache,
           SchemaTruncated(x) \/ SchemaWritten(x)
    PROVE  SchemasInv'
<1>1. \A s \in Schemas : schemaFile'[s] \in {schemaFile[s], TornSchema} \/ (schemaFile'[s] = x /\ x.name = s)
      BY CatalogsAssumption DEF SchemaTruncated, SchemaWritten, SchemasInv
<1>2. schemaFile' = [s \in Schemas |-> schemaFile'[s]]
      BY DEF SchemaTruncated, SchemaWritten, SchemasInv
<1>3. QED
      BY <1>1, <1>2 DEF SchemasInv

\* The schemas that are saved when the process ends.
LEMMA CachedNames ==
    ASSUME SchemasInv
    PROVE  \A x \in {schemaCache[s] : s \in Schemas} \ {NoSchema} : x.name \in Schemas \cup {TornSchema}
BY BlankName DEF SchemasInv

\* createSchema stores a schema under the name it is given.
LEMMA ExtendedName ==
    ASSUME NEW n, NEW fields, NEW inherits
    PROVE  Extended(Schema(n, fields, inherits)).name = n
BY DEF Extended, Schema

LEMMA DefinitionName ==
    ASSUME NEW definition \in Definitions
    PROVE  Extended(definition).name \in Schemas
<1>1. /\ definition.name \in Schemas
      /\ definition = Schema(definition.name, definition.fields, definition.inherits)
      BY CatalogsAssumption
<1>2. QED
      BY <1>1, ExtendedName

LEMMA BlendedNames ==
    ASSUME SchemasInv, NEW s \in Schemas, s \in DOMAIN BlendedName, HasSchema(s), GetSchema(s) # Blank
    PROVE  /\ Blended(GetSchema(s)).name \in Schemas
           /\ Extended(Blended(GetSchema(s))).name \in Schemas
<1>1. GetSchema(s).name = s
      BY SchemaNames
<1>2. BlendedName[s] \in Schemas
      BY CatalogsAssumption
<1> DEFINE f == Flat[GetSchema(s).fields]
           h == SetToSeq(Inherits(GetSchema(s)) \cup UNION {Inherits(GetSchema(t)) : t \in Reached(GetSchema(s))})
<1>3. Blended(GetSchema(s)) = Schema(BlendedName[s], f, h)
      BY <1>1 DEF Blended
<1>4. Blended(GetSchema(s)).name = BlendedName[s]
      BY <1>3 DEF Schema
<1> HIDE DEF f, h
<1>5. Extended(Blended(GetSchema(s))).name = BlendedName[s]
      BY <1>3, ExtendedName
<1>6. QED
      BY <1>2, <1>4, <1>5

-----------------------------------------------------------------------------
(* Queries that begin. *)

LEMMA InUseStays ==
    ASSUME CatalogsInv
    PROVE  inUse \in databases \cup {None} /\ databases \subseteq Dbs /\ (inUse # None => inUse \in Dbs)
BY DEF CatalogsInv, StateOK

\* Tuples of tasks are sequences.
LEMMA Tuples ==
    /\ \A S : <<>> \in Seq(S)
    /\ \A a : <<a>> \in Seq({a}) /\ <<a>> # <<>> /\ <<a>>[1] = a
    /\ \A a, b : <<a, b>> \in Seq({a, b}) /\ <<a, b>> # <<>> /\ <<a, b>>[1] = a
    /\ \A a, b, c : <<a, b, c>> \in Seq({a, b, c}) /\ <<a, b, c>> # <<>> /\ <<a, b, c>>[1] = a
OBVIOUS

\* The plain tasks.
LEMMA PlainTasks ==
    ASSUME NEW u
    PROVE  /\ \A c \in Dbs \cup {System} : Plain(Save(c), u)
           /\ \A x : x.name \in Schemas \cup {TornSchema} =>
                 Plain(SaveSchema(x), u) /\ Plain(WriteSchema(x), u) /\ Plain(Cache(x), u)
           /\ \A xs : (\A x \in xs : x.name \in Schemas \cup {TornSchema}) => Plain(SaveSchemas(xs), u)
           /\ \A ds : ds \subseteq Dbs /\ ds # {} => Plain(SaveManagers(ds), u)
           /\ Plain(End, u)
           /\ u # None => /\ \A x : Plain(DropBound(x), u) /\ Plain(Resolve(x), u)
                          /\ \A c \in Cols : /\ \A s, b : Plain(Create(c, s, b), u)
                                             /\ \A s, b, i : Plain(Add(c, s, b, i), u)
                                             /\ \A x : Plain(Drop(c, x), u) /\ Plain(DropRest(c, x), u)
BY Tasks DEF Plain, TaskOK, OnCollections, Named

\* The tasks that come together.
LEMMA TogetherTasks ==
    /\ \A u \in Dbs, c \in Cols : u # None =>
          /\ Ordered(<<RemoveFiles(c), Erase(c), Save(u)>>, u)
          /\ Closed(<<RemoveFiles(c), Erase(c), Save(u)>>)
          /\ \A f, x : /\ Ordered(<<Bind(c, f, x), Save(u)>>, u)
                       /\ Closed(<<Bind(c, f, x), Save(u)>>)
    /\ \A u, d : d \in Dbs /\ d # u =>
          Ordered(<<RemoveHome(d), EraseDatabase(d), Save(System)>>, u)
<1>1. \A u \in Dbs, c \in Cols : u # None =>
         /\ TaskOK(RemoveFiles(c), u) /\ TaskOK(Erase(c), u) /\ TaskOK(Save(u), u)
         /\ \A f, x : TaskOK(Bind(c, f, x), u)
      BY Tasks DEF TaskOK, OnCollections, Named
<1>2. \A u, d : d \in Dbs /\ d # u =>
         TaskOK(RemoveHome(d), u) /\ TaskOK(EraseDatabase(d), u) /\ TaskOK(Save(System), u)
      BY Tasks DEF TaskOK, OnCollections, Named
<1>3. ASSUME NEW u \in Dbs, NEW c \in Cols, u # None
      PROVE  /\ Ordered(<<RemoveFiles(c), Erase(c), Save(u)>>, u)
             /\ Closed(<<RemoveFiles(c), Erase(c), Save(u)>>)
      BY <1>1, <1>3, Tasks DEF Ordered, Closed
<1>4. ASSUME NEW u \in Dbs, NEW c \in Cols, u # None, NEW f, NEW x
      PROVE  /\ Ordered(<<Bind(c, f, x), Save(u)>>, u)
             /\ Closed(<<Bind(c, f, x), Save(u)>>)
      BY <1>1, <1>4, Tasks DEF Ordered, Closed
<1>5. ASSUME NEW u, NEW d \in Dbs, d # u
      PROVE  Ordered(<<RemoveHome(d), EraseDatabase(d), Save(System)>>, u)
      BY <1>2, <1>5, Tasks DEF Ordered
<1>6. QED
      BY <1>3, <1>4, <1>5

LEMMA SaveEachTasks ==
    ASSUME NEW ds, ds \subseteq Dbs, NEW u
    PROVE  /\ SaveEach(ds) \in Seq({SaveManagers(ds)})
           /\ Ordered(SaveEach(ds), u) /\ Closed(SaveEach(ds))
<1>1. CASE ds = {}
      BY <1>1, OrderedTuples, Tuples DEF SaveEach
<1>2. CASE ds # {}
      BY <1>2, OrderedTuples, Tuples, PlainTasks DEF SaveEach
<1>3. QED
      BY <1>1, <1>2

LEMMA ExitKeeps ==
    ASSUME CatalogsInv, Exit
    PROVE  CatalogsInv'
<1> DEFINE schemas == {schemaCache[s] : s \in Schemas} \ {NoSchema}
           first == <<Save(System), SaveSchemas(schemas), Save(System)>>
           each  == SaveEach(databases)
<1>1. todo' = first \o each \o <<End>>
      BY DEF Exit
<1>2. \A x \in schemas : x.name \in Schemas \cup {TornSchema}
      BY CachedNames DEF CatalogsInv
<1>3. /\ Ordered(first, inUse) /\ Closed(first)
      /\ Ordered(<<End>>, inUse) /\ Closed(<<End>>)
  <2>1. Plain(Save(System), inUse) /\ Plain(SaveSchemas(schemas), inUse) /\ Plain(End, inUse)
        BY <1>2, PlainTasks
  <2>2. QED
        BY <2>1, OrderedTuples
<1>4. /\ first \in Seq({Save(System), SaveSchemas(schemas), Save(System)})
      /\ <<End>> \in Seq({End})
      BY Tuples
<1>5. /\ each \in Seq({SaveManagers(databases)}) /\ Ordered(each, inUse) /\ Closed(each)
      BY SaveEachTasks, InUseStays
<1> HIDE DEF first, each
<1>6. /\ first \o each \in Seq(ToSet(first \o each)) /\ Ordered(first \o each, inUse) /\ Closed(first \o each)
      BY <1>3, <1>4, <1>5, ClosedConcat
<1>7. /\ todo' \in Seq(ToSet(todo')) /\ Ordered(todo', inUse) /\ Closed(todo')
  <2>1. (first \o each) \o <<End>> \in Seq(ToSet((first \o each) \o <<End>>))
        /\ Ordered((first \o each) \o <<End>>, inUse) /\ Closed((first \o each) \o <<End>>)
        BY <1>3, <1>4, <1>6, ClosedConcat
  <2>2. QED
        BY <1>1, <2>1
<1>8. CatalogsUnchanged /\ inUse' = inUse /\ Ready /\ UNCHANGED <<schemaFile, schemaCache>>
      BY DEF Exit, CatalogsUnchanged, memory, disk, Lives
<1>9. SchemasInv'
      BY <1>8, SchemasStay DEF CatalogsInv
<1>10. QED
      BY <1>7, <1>8, <1>9, InUseStays, QueryBegins

LEMMA DropDatabaseKeeps ==
    ASSUME CatalogsInv, NEW d \in Dbs, DropDatabase(d)
    PROVE  CatalogsInv'
<1> DEFINE s == <<RemoveHome(d), EraseDatabase(d), Save(System)>>
<1>1. /\ Ready /\ CatalogsUnchanged /\ UNCHANGED <<schemaFile, schemaCache>>
      /\ todo' = s /\ inUse' \in {inUse, None} /\ inUse' # d
      BY CatalogsAssumption DEF DropDatabase, CatalogsUnchanged, disk, Lives
<1>2. Ordered(s, inUse') /\ s \in Seq({RemoveHome(d), EraseDatabase(d), Save(System)}) /\ s # <<>> /\ s[1] = RemoveHome(d)
      BY <1>1, TogetherTasks, Tuples
<1>3. SchemasInv'
      BY <1>1, SchemasStay DEF CatalogsInv
<1>4. todo' \in Seq(ToSet(todo'))
      BY <1>1, <1>2, InOwnSet
<1>5. Head(todo').task = "removeHome"
      BY <1>1, <1>2, Tasks
<1>6. TasksInv'
  <2>1. HeadOK'
        BY <1>5 DEF HeadOK, At
  <2>2. QED
        BY <1>1, <1>2, <1>4, <2>1 DEF TasksInv
<1>7. inUse' \in databases \cup {None}
      BY <1>1, InUseStays
<1>8. Settled
      BY <1>1 DEF Settled, Ready
<1>9. StateOK' /\ Agreed' /\ Homeless' /\ Down'
      BY <1>1, <1>7, <1>8, QuietKeeps DEF Ready
<1>10. QED
      BY <1>3, <1>6, <1>9 DEF CatalogsInv

LEMMA UseDatabaseKeeps ==
    ASSUME CatalogsInv, NEW d \in Dbs, UseDatabase(d)
    PROVE  CatalogsInv'
<1>1. /\ Ready /\ CatalogsUnchanged /\ UNCHANGED <<schemaFile, schemaCache>>
      /\ todo' = <<>> /\ inUse' \in databases
      BY DEF UseDatabase, CatalogsUnchanged, disk, Lives, Ready
<1>2. Ordered(<<>>, inUse') /\ Closed(<<>>) /\ <<>> \in Seq({})
      BY OrderedTuples, Tuples
<1>3. SchemasInv'
      BY <1>1, SchemasStay DEF CatalogsInv
<1>4. QED
      BY <1>1, <1>2, <1>3, QueryBegins

\* A query that begins with one or two plain tasks or with none.
LEMMA PlainQueryBegins ==
    ASSUME CatalogsInv, Ready, CatalogsUnchanged, inUse' = inUse, SchemasInv',
           \/ todo' = <<>>
           \/ \E a : Plain(a, inUse) /\ todo' = <<a>>
           \/ \E a, b, c : Plain(a, inUse) /\ Plain(b, inUse) /\ Plain(c, inUse)
                             /\ todo' \in {<<a, b>>, <<a, b, c>>}
    PROVE  CatalogsInv'
<1>1. inUse' \in databases \cup {None}
      BY InUseStays
<1>2. CASE todo' = <<>>
  <2>1. Ordered(<<>>, inUse) /\ Closed(<<>>) /\ <<>> \in Seq({})
        BY OrderedTuples, Tuples
  <2>2. QED
        BY <1>1, <1>2, <2>1, QueryBegins
<1>3. CASE \E a : Plain(a, inUse) /\ todo' = <<a>>
  <2>1. PICK a : Plain(a, inUse) /\ todo' = <<a>>
        BY <1>3
  <2>2. Ordered(<<a>>, inUse) /\ Closed(<<a>>) /\ <<a>> \in Seq({a})
        BY <2>1, OrderedTuples, Tuples
  <2>3. QED
        BY <1>1, <2>1, <2>2, QueryBegins
<1>4. CASE \E a, b, c : Plain(a, inUse) /\ Plain(b, inUse) /\ Plain(c, inUse)
                         /\ todo' \in {<<a, b>>, <<a, b, c>>}
  <2>1. PICK a, b, c : Plain(a, inUse) /\ Plain(b, inUse) /\ Plain(c, inUse)
                       /\ todo' \in {<<a, b>>, <<a, b, c>>}
        BY <1>4
  <2>2. /\ Ordered(<<a, b>>, inUse) /\ Closed(<<a, b>>) /\ <<a, b>> \in Seq({a, b})
        /\ Ordered(<<a, b, c>>, inUse) /\ Closed(<<a, b, c>>) /\ <<a, b, c>> \in Seq({a, b, c})
        BY <2>1, OrderedTuples, Tuples
  <2>3. CASE todo' = <<a, b>>
        BY <1>1, <2>2, <2>3, QueryBegins
  <2>4. CASE todo' = <<a, b, c>>
        BY <1>1, <2>2, <2>4, QueryBegins
  <2>5. QED
        BY <2>1, <2>3, <2>4
<1>5. QED
      BY <1>2, <1>3, <1>4

LEMMA DefineSchemaKeeps ==
    ASSUME CatalogsInv, NEW definition \in Definitions, DefineSchema(definition)
    PROVE  CatalogsInv'
<1> DEFINE x == Extended(definition)
<1>1. /\ Ready /\ CatalogsUnchanged /\ inUse' = inUse /\ UNCHANGED schemaFile
      /\ todo' = <<SaveSchema(x), Cache(x)>> /\ schemaCache' = CacheWith(Inherits(definition))
      BY DEF DefineSchema, CatalogsUnchanged, disk, Lives
<1>2. x.name \in Schemas
      BY DefinitionName
<1>3. Plain(SaveSchema(x), inUse) /\ Plain(Cache(x), inUse)
      BY <1>2, PlainTasks
<1>4. SchemasInv'
      BY <1>1, ReadKeeps DEF CatalogsInv
<1> HIDE DEF x
<1>5. QED
      BY <1>1, <1>3, <1>4, PlainQueryBegins

LEMMA CreateCollectionKeeps ==
    ASSUME CatalogsInv, NEW c \in Cols, NEW s, NEW bindings, CreateCollection(c, s, bindings)
    PROVE  CatalogsInv'
<1>1. /\ Ready /\ CatalogsUnchanged /\ inUse' = inUse /\ UNCHANGED <<schemaFile, schemaCache>>
      /\ inUse # None /\ todo' = <<Create(c, s, bindings)>>
      BY DEF CreateCollection, CatalogsUnchanged, memory, disk, Lives
<1>2. Plain(Create(c, s, bindings), inUse)
      BY <1>1, PlainTasks
<1>3. SchemasInv'
      BY <1>1, SchemasStay DEF CatalogsInv
<1>4. QED
      BY <1>1, <1>2, <1>3, PlainQueryBegins

LEMMA DropCollectionKeeps ==
    ASSUME CatalogsInv, NEW c \in Cols, NEW cascade, DropCollection(c, cascade)
    PROVE  CatalogsInv'
<1>1. /\ Ready /\ CatalogsUnchanged /\ inUse' = inUse /\ UNCHANGED <<schemaFile, schemaCache>>
      /\ inUse # None /\ todo' = <<Drop(c, cascade)>>
      BY DEF DropCollection, CatalogsUnchanged, memory, disk, Lives
<1>2. Plain(Drop(c, cascade), inUse)
      BY <1>1, PlainTasks
<1>3. SchemasInv'
      BY <1>1, SchemasStay DEF CatalogsInv
<1>4. QED
      BY <1>1, <1>2, <1>3, PlainQueryBegins

LEMMA InsertNestedKeeps ==
    ASSUME CatalogsInv, NEW c \in Cols, NEW field, InsertNested(c, field)
    PROVE  CatalogsInv'
<1>1. /\ Ready /\ CatalogsUnchanged /\ inUse' = inUse /\ UNCHANGED <<schemaFile, schemaCache>>
      /\ inUse # None /\ todo' = <<Resolve(collections[inUse][c].bindings[field])>>
      BY DEF InsertNested, CatalogsUnchanged, memory, disk, Lives
<1>2. Plain(Resolve(collections[inUse][c].bindings[field]), inUse)
      BY <1>1, PlainTasks
<1>3. SchemasInv'
      BY <1>1, SchemasStay DEF CatalogsInv
<1>4. QED
      BY <1>1, <1>2, <1>3, PlainQueryBegins

LEMMA RebindKeeps ==
    ASSUME CatalogsInv, NEW c \in Cols, NEW field, NEW to \in Cols, NEW clean, Rebind(c, field, to, clean)
    PROVE  CatalogsInv'
<1> DEFINE bind == <<Bind(c, field, UidOf(to)), Save(inUse)>>
<1>1. /\ Ready /\ CatalogsUnchanged /\ inUse' = inUse /\ UNCHANGED <<schemaFile, schemaCache>>
      /\ inUse # None
      /\ todo' = <<>> \o bind \/ \E x : todo' = <<DropBound(x)>> \o bind
      BY DEF Rebind, CatalogsUnchanged, memory, disk, Lives
<1>2. inUse \in Dbs
      BY <1>1, InUseStays
<1>3. Ordered(bind, inUse) /\ Closed(bind) /\ bind \in Seq({Bind(c, field, UidOf(to)), Save(inUse)})
      BY <1>1, <1>2, TogetherTasks, Tuples
<1>4. SchemasInv'
      BY <1>1, SchemasStay DEF CatalogsInv
<1> HIDE DEF bind
<1>5. ASSUME NEW S, NEW first \in Seq(S), Ordered(first, inUse), Closed(first)
      PROVE  /\ Ordered(first \o bind, inUse) /\ Closed(first \o bind)
             /\ first \o bind \in Seq(ToSet(first \o bind))
      BY <1>3, <1>5, ClosedConcat
<1>6. Ordered(todo', inUse) /\ Closed(todo') /\ todo' \in Seq(ToSet(todo'))
  <2>1. CASE todo' = <<>> \o bind
    <3>1. <<>> \in Seq({}) /\ Ordered(<<>>, inUse) /\ Closed(<<>>)
          BY OrderedTuples, Tuples
    <3>2. QED
          BY <1>5, <2>1, <3>1
  <2>2. CASE \E x : todo' = <<DropBound(x)>> \o bind
    <3>1. PICK x : todo' = <<DropBound(x)>> \o bind
          BY <2>2
    <3>2. <<DropBound(x)>> \in Seq({DropBound(x)}) /\ Ordered(<<DropBound(x)>>, inUse) /\ Closed(<<DropBound(x)>>)
          BY <1>1, OrderedTuples, Tuples, PlainTasks
    <3>3. QED
          BY <1>5, <3>1, <3>2
  <2>3. QED
        BY <1>1, <2>1, <2>2
<1>7. QED
      BY <1>1, <1>4, <1>6, InUseStays, QueryBegins

-----------------------------------------------------------------------------
(* The process ends, starts and reads. *)

LEMMA EmptyCatalog ==
    ASSUME NEW n
    PROVE  CatalogOK(NoCollections, n)
BY DEF CatalogOK, NoCollections

LEMMA DiesKeeps ==
    ASSUME CatalogsInv, Dies
    PROVE  CatalogsInv'
<1>1. /\ ~up' /\ databases' = {} /\ inUse' = None /\ todo' = <<>>
      /\ collections' = [d \in Dbs |-> NoCollections]
      /\ schemaCache' = [s \in Schemas |-> NoSchema]
      /\ UNCHANGED <<systemFile, databaseFile, homes, dirs, schemaFile, uids>>
      BY DEF Dies, disk
<1>2. DatabasesOnDisk' = DatabasesOnDisk /\ \A d : CollectionsOnDisk(d)' = CollectionsOnDisk(d)
      BY <1>1 DEF DatabasesOnDisk, CollectionsOnDisk
<1>3. SchemasInv'
      BY <1>1 DEF CatalogsInv, SchemasInv
<1>4. TasksInv'
  <2>1. Ordered(<<>>, inUse') /\ <<>> \in Seq({})
        BY OrderedTuples, Tuples
  <2>2. todo' \in Seq(ToSet(todo'))
        BY <1>1, <2>1, InOwnSet
  <2>3. HeadOK'
        BY <1>1 DEF HeadOK, At
  <2>4. QED
        BY <1>1, <2>1, <2>2, <2>3 DEF TasksInv
<1>5. StateOK'
      BY <1>1, <1>2, EmptyCatalog DEF CatalogsInv, StateOK
<1>6. Agreed' /\ Homeless' /\ Down'
      BY <1>1 DEF CatalogsInv, Agreed, Homeless, Down
<1>7. QED
      BY <1>3, <1>4, <1>5, <1>6 DEF CatalogsInv

LEMMA StartKeeps ==
    ASSUME CatalogsInv, Start
    PROVE  CatalogsInv'
<1>1. /\ ~up /\ up' /\ databases' = DatabasesOnDisk /\ inUse' = None
      /\ collections' = [d \in Dbs |-> IF d \in databases' THEN CollectionsOnDisk(d) ELSE NoCollections]
      /\ todo' = SaveEach(databases')
      /\ UNCHANGED <<systemFile, databaseFile, homes, dirs, schemaFile, schemaCache, uids>>
      BY DEF Start, disk
<1>2. DatabasesOnDisk' = DatabasesOnDisk /\ \A d : CollectionsOnDisk(d)' = CollectionsOnDisk(d)
      BY <1>1 DEF DatabasesOnDisk, CollectionsOnDisk
<1>3. SchemasInv'
      BY <1>1, SchemasStay DEF CatalogsInv
<1>4. databases' \subseteq Dbs
      BY <1>1 DEF CatalogsInv, StateOK
<1>5. TasksInv'
  <2>1. /\ todo' \in Seq({SaveManagers(databases')}) /\ Ordered(todo', inUse') /\ Closed(todo')
        BY <1>1, <1>4, SaveEachTasks
  <2>2. todo' \in Seq(ToSet(todo'))
        BY <2>1, InOwnSet
  <2>3. todo' # <<>> => Head(todo').task \notin {"erase", "eraseDatabase", "write"}
        BY <2>1 DEF Closed
  <2>4. HeadOK'
        BY <2>3 DEF HeadOK, At
  <2>5. QED
        BY <2>1, <2>2, <2>4 DEF TasksInv
<1>6. StateOK'
      BY <1>1, <1>2, <1>4, EmptyCatalog DEF CatalogsInv, StateOK
<1>7. Agreed' /\ Down'
      BY <1>1, <1>2, <1>4 DEF Agreed, Down
<1>8. Homeless'
      BY <1>1, <1>4 DEF CatalogsInv, Homeless, CollectionsOnDisk
<1>9. QED
      BY <1>3, <1>5, <1>6, <1>7, <1>8 DEF CatalogsInv

LEMMA CreateBlendedKeeps ==
    ASSUME CatalogsInv, NEW c \in Cols, NEW s \in Schemas, CreateBlended(c, s)
    PROVE  CatalogsInv'
<1> DEFINE x == Extended(Blended(GetSchema(s)))
<1>1. /\ Ready /\ inUse # None /\ s \in DOMAIN BlendedName /\ HasSchema(s) /\ GetSchema(s) # Blank
      BY DEF CreateBlended
<1>2. x.name \in Schemas
      BY <1>1, BlendedNames DEF CatalogsInv
<1> DEFINE Creating(b) == todo' = <<SaveSchema(b), Cache(b), Create(c, b.name, Unbound)>>
<1>3. \/ Dies
      \/ /\ CatalogsUnchanged /\ inUse' = inUse /\ UNCHANGED schemaFile
         /\ \E read : schemaCache' = CacheWith(read)
         /\ todo' = <<>> \/ Creating(x)
  <2> HIDE DEF Creating
  <2>1. CreateBlended(c, s) =>
           Dies \/ /\ UNCHANGED <<databases, inUse, collections, disk, uids>> /\ Lives
                   /\ \E read : schemaCache' = CacheWith(read)
                   /\ UNCHANGED todo \/ Creating(x)
        BY DEF CreateBlended, Creating
  <2>2. QED
        BY <1>1, <2>1 DEF CatalogsUnchanged, disk, Lives, Ready
<1>4. CASE Dies
      BY <1>4, DiesKeeps
<1>5. CASE /\ CatalogsUnchanged /\ inUse' = inUse /\ UNCHANGED schemaFile
           /\ \E read : schemaCache' = CacheWith(read)
           /\ todo' = <<>> \/ Creating(x)
  <2>1. SchemasInv'
        BY <1>5, ReadKeeps DEF CatalogsInv
  <2>2. Plain(SaveSchema(x), inUse) /\ Plain(Cache(x), inUse)
        BY <1>2, PlainTasks
  <2>3. Plain(Create(c, x.name, Unbound), inUse)
        BY <1>1, PlainTasks
  <2> HIDE DEF x
  <2>4. QED
        BY <1>1, <1>5, <2>1, <2>2, <2>3, PlainQueryBegins
<1>6. QED
      BY <1>3, <1>4, <1>5

-----------------------------------------------------------------------------
(* Tasks that leave the catalogs alone. *)

\* A task that goes on with none, one or two plain tasks.
LEMMA PlainTaskGoesOn ==
    ASSUME CatalogsInv, up, todo # <<>>, Settled, Head(todo).task # "remove",
           CatalogsUnchanged, inUse' = inUse, SchemasInv',
           \/ Then(<<>>)
           \/ \E a : Plain(a, inUse) /\ Then(<<a>>)
           \/ \E a, b : Plain(a, inUse) /\ Plain(b, inUse) /\ Then(<<a, b>>)
    PROVE  CatalogsInv'
<1>1. CASE Then(<<>>)
  <2>1. Ordered(<<>>, inUse) /\ Closed(<<>>) /\ <<>> \in Seq({})
        BY OrderedTuples, Tuples
  <2>2. QED
        BY <1>1, <2>1, TaskGoesOn
<1>2. CASE \E a : Plain(a, inUse) /\ Then(<<a>>)
  <2>1. PICK a : Plain(a, inUse) /\ Then(<<a>>)
        BY <1>2
  <2>2. Ordered(<<a>>, inUse) /\ Closed(<<a>>) /\ <<a>> \in Seq({a})
        BY <2>1, OrderedTuples, Tuples
  <2>3. QED
        BY <2>1, <2>2, TaskGoesOn
<1>3. CASE \E a, b : Plain(a, inUse) /\ Plain(b, inUse) /\ Then(<<a, b>>)
  <2>1. PICK a, b : Plain(a, inUse) /\ Plain(b, inUse) /\ Then(<<a, b>>)
        BY <1>3
  <2>2. Ordered(<<a, b>>, inUse) /\ Closed(<<a, b>>) /\ <<a, b>> \in Seq({a, b})
        BY <2>1, OrderedTuples, Tuples
  <2>3. QED
        BY <2>1, <2>2, TaskGoesOn
<1>4. QED
      BY <1>1, <1>2, <1>3

\* What is known of the first task.
LEMMA FirstTask ==
    ASSUME CatalogsInv, todo # <<>>
    PROVE  /\ TaskOK(Head(todo), inUse)
           /\ Head(todo).task \in OnCollections => inUse # None /\ inUse \in Dbs
BY TailOrdered, InUseStays DEF CatalogsInv, TaskOK

LEMMA SavesManagersKeeps ==
    ASSUME CatalogsInv, SavesManagers
    PROVE  CatalogsInv'
<1> DEFINE d == CHOOSE d \in Head(todo).of : TRUE
           rest == SaveEach(Head(todo).of \ {d})
<1>1. /\ up /\ todo # <<>> /\ Head(todo).task = "saveManagers" /\ Settled
      /\ Then(<<Save(d)>> \o rest)
      /\ CatalogsUnchanged /\ inUse' = inUse /\ UNCHANGED <<schemaFile, schemaCache>>
      BY DEF SavesManagers, At, Settled, CatalogsUnchanged, memory, disk, Lives
<1>2. Head(todo).of \subseteq Dbs /\ Head(todo).of # {}
      BY <1>1, FirstTask DEF TaskOK
<1>3. d \in Dbs
      BY <1>2
<1>4. <<Save(d)>> \in Seq({Save(d)}) /\ Ordered(<<Save(d)>>, inUse) /\ Closed(<<Save(d)>>)
      BY <1>3, OrderedTuples, Tuples, PlainTasks
<1>5. /\ rest \in Seq({SaveManagers(Head(todo).of \ {d})}) /\ Ordered(rest, inUse) /\ Closed(rest)
      BY <1>2, SaveEachTasks
<1> HIDE DEF d, rest
<1>6. /\ Ordered(<<Save(d)>> \o rest, inUse) /\ Closed(<<Save(d)>> \o rest)
      /\ <<Save(d)>> \o rest \in Seq(ToSet(<<Save(d)>> \o rest))
      BY <1>4, <1>5, ClosedConcat
<1>7. SchemasInv'
      BY <1>1, SchemasStay DEF CatalogsInv
<1>8. QED
      BY <1>1, <1>6, <1>7, TaskGoesOn

LEMMA SavesSchemasKeeps ==
    ASSUME CatalogsInv, SavesSchemas
    PROVE  CatalogsInv'
<1> DEFINE left == Head(todo).of
           x == CHOOSE x \in left : TRUE
<1>1. /\ up /\ todo # <<>> /\ Head(todo).task = "saveSchemas" /\ Settled
      /\ Then(IF left = {} THEN <<>> ELSE <<SaveSchema(x), SaveSchemas(left \ {x})>>)
      /\ CatalogsUnchanged /\ inUse' = inUse /\ UNCHANGED <<schemaFile, schemaCache>>
      BY DEF SavesSchemas, At, Settled, CatalogsUnchanged, memory, disk, Lives
<1>2. \A y \in left : y.name \in Schemas \cup {TornSchema}
      BY <1>1, FirstTask DEF TaskOK
<1>3. left # {} => Plain(SaveSchema(x), inUse) /\ Plain(SaveSchemas(left \ {x}), inUse)
      BY <1>2, PlainTasks
<1>4. SchemasInv'
      BY <1>1, SchemasStay DEF CatalogsInv
<1> HIDE DEF left, x
<1>5. QED
      BY <1>1, <1>3, <1>4, PlainTaskGoesOn

LEMMA SavesSchemaKeeps ==
    ASSUME CatalogsInv, SavesSchema
    PROVE  CatalogsInv'
<1> DEFINE x == Head(todo).schema
<1>1. /\ up /\ todo # <<>> /\ Head(todo).task = "saveSchema" /\ Settled
      /\ Then(<<WriteSchema(x)>>) /\ SchemaTruncated(x)
      /\ CatalogsUnchanged /\ inUse' = inUse /\ UNCHANGED schemaCache
      BY DEF SavesSchema, At, Settled, CatalogsUnchanged, memory, Lives
<1>2. x.name \in Schemas \cup {TornSchema}
      BY <1>1, FirstTask DEF TaskOK
<1>3. Plain(WriteSchema(x), inUse)
      BY <1>2, PlainTasks
<1>4. SchemasInv'
      BY <1>1, <1>2, FileKeeps DEF CatalogsInv
<1> HIDE DEF x
<1>5. QED
      BY <1>1, <1>3, <1>4, PlainTaskGoesOn

LEMMA WritesSchemaKeeps ==
    ASSUME CatalogsInv, WritesSchema
    PROVE  CatalogsInv'
<1> DEFINE x == Head(todo).schema
<1>1. /\ up /\ todo # <<>> /\ Head(todo).task = "writeSchema" /\ Settled
      /\ Then(<<>>) /\ SchemaWritten(x)
      /\ CatalogsUnchanged /\ inUse' = inUse /\ UNCHANGED schemaCache
      BY DEF WritesSchema, At, Settled, CatalogsUnchanged, memory, Lives
<1>2. x.name \in Schemas \cup {TornSchema}
      BY <1>1, FirstTask DEF TaskOK
<1>3. SchemasInv'
      BY <1>1, <1>2, FileKeeps DEF CatalogsInv
<1>4. QED
      BY <1>1, <1>3, PlainTaskGoesOn

LEMMA CachesSchemaKeeps ==
    ASSUME CatalogsInv, CachesSchema
    PROVE  CatalogsInv'
<1> DEFINE x == Head(todo).schema
<1>1. /\ up /\ todo # <<>> /\ Head(todo).task = "cache" /\ Settled
      /\ Then(<<>>) /\ Cached(x)
      /\ CatalogsUnchanged /\ inUse' = inUse /\ UNCHANGED schemaFile
      BY DEF CachesSchema, At, Settled, CatalogsUnchanged, disk, Lives
<1>2. x.name \in Schemas \cup {TornSchema}
      BY <1>1, FirstTask DEF TaskOK
<1>3. SchemasInv'
      BY <1>1, <1>2, CachedKeeps DEF CatalogsInv
<1>4. QED
      BY <1>1, <1>3, PlainTaskGoesOn

\* An exception drops the tasks that are left.
LEMMA ThrowsKeeps ==
    ASSUME CatalogsInv, up, todo # <<>>, Settled, Throws, Lives, UNCHANGED uids
    PROVE  CatalogsInv'
<1>1. CatalogsUnchanged /\ inUse' = inUse /\ UNCHANGED <<schemaFile, schemaCache>> /\ todo' = <<>>
      BY DEF Throws, CatalogsUnchanged, memory, disk, Lives
<1>2. Ordered(<<>>, inUse') /\ <<>> \in Seq({})
      BY OrderedTuples, Tuples
<1>3. TasksInv'
  <2>1. HeadOK' /\ todo' \in Seq(ToSet(todo'))
        BY <1>1, <1>2, InOwnSet DEF HeadOK, At
  <2>2. QED
        BY <1>1, <1>2, <2>1 DEF TasksInv
<1>4. SchemasInv'
      BY <1>1, SchemasStay DEF CatalogsInv
<1>5. QED
      BY <1>1, <1>3, <1>4, InUseStays, QuietKeeps DEF CatalogsInv

LEMMA CreatesKeeps ==
    ASSUME CatalogsInv, Creates
    PROVE  CatalogsInv'
<1> DEFINE c == Head(todo).name
           s == Head(todo).of
           b == Head(todo).bindings
<1>1. /\ up /\ todo # <<>> /\ Head(todo).task = "create" /\ Settled
      /\ \/ Throws /\ UNCHANGED uids /\ Lives
         \/ Dies
         \/ /\ schemaCache' = CacheWith({s}) /\ Then(<<Add(c, s, b, 1)>>)
            /\ UNCHANGED <<databases, inUse, collections, disk, uids>> /\ Lives
      BY DEF Creates, At, Settled
<1>2. inUse # None /\ c \in Cols
      BY <1>1, FirstTask DEF TaskOK, OnCollections, Named
<1>3. Plain(Add(c, s, b, 1), inUse)
      BY <1>2, PlainTasks
<1>4. CASE /\ schemaCache' = CacheWith({s}) /\ Then(<<Add(c, s, b, 1)>>)
           /\ UNCHANGED <<databases, inUse, collections, disk, uids>> /\ Lives
  <2>1. CatalogsUnchanged /\ inUse' = inUse /\ UNCHANGED schemaFile
        BY <1>4 DEF CatalogsUnchanged, disk, Lives
  <2>2. SchemasInv'
        BY <1>4, <2>1, ReadKeeps DEF CatalogsInv
  <2> HIDE DEF c, s, b
  <2>3. QED
        BY <1>1, <1>3, <1>4, <2>1, <2>2, PlainTaskGoesOn
<1>5. QED
      BY <1>1, <1>4, ThrowsKeeps, DiesKeeps

LEMMA AddsNestedKeeps ==
    ASSUME CatalogsInv, AddsNested
    PROVE  CatalogsInv'
<1> DEFINE nested == NestedFields(GetSchema(Head(todo).of))
           i == Head(todo).next
           a == Create(Append(Head(todo).name, nested[i].name), nested[i].type, Unbound)
           b == Add(Head(todo).name, Head(todo).of, Head(todo).bindings, i + 1)
<1>1. /\ up /\ todo # <<>> /\ Head(todo).task = "add" /\ Settled
      /\ Append(Head(todo).name, nested[i].name) \in Cols
      /\ CatalogsUnchanged /\ inUse' = inUse /\ UNCHANGED <<schemaFile, schemaCache>>
      BY DEF AddsNested, At, Settled, CatalogsUnchanged, memory, disk, Lives
<1>2. Then(<<a, b>>)
      BY DEF AddsNested
<1>3. inUse # None /\ Head(todo).name \in Cols
      BY <1>1, FirstTask DEF TaskOK, OnCollections, Named
<1>4. Plain(a, inUse) /\ Plain(b, inUse)
      BY <1>1, <1>3, PlainTasks
<1>5. SchemasInv'
      BY <1>1, SchemasStay DEF CatalogsInv
<1> HIDE DEF a, b
<1>6. QED
      BY <1>1, <1>2, <1>4, <1>5, PlainTaskGoesOn

\* What Removal and Rest give can go in front.
LEMMA RestTasks ==
    ASSUME inUse \in Dbs, inUse # None, NEW c \in Cols, NEW fields
    PROVE  /\ Ordered(Rest(c, fields), inUse) /\ Closed(Rest(c, fields))
           /\ Rest(c, fields) \in Seq({RemoveFiles(c), Erase(c), Save(inUse), DropRest(c, fields)})
<1>1. /\ Ordered(Removal(c), inUse) /\ Closed(Removal(c))
      /\ Removal(c) \in Seq({RemoveFiles(c), Erase(c), Save(inUse)})
      BY TogetherTasks, Tuples DEF Removal
<1>2. /\ Ordered(<<DropRest(c, fields)>>, inUse) /\ Closed(<<DropRest(c, fields)>>)
      /\ <<DropRest(c, fields)>> \in Seq({DropRest(c, fields)})
      BY OrderedTuples, Tuples, PlainTasks
<1>3. /\ \A s \in Seq({RemoveFiles(c), Erase(c), Save(inUse)}) :
            s \in Seq({RemoveFiles(c), Erase(c), Save(inUse), DropRest(c, fields)})
      /\ \A s \in Seq({DropRest(c, fields)}) :
            s \in Seq({RemoveFiles(c), Erase(c), Save(inUse), DropRest(c, fields)})
      BY SeqMonotonic
<1>4. QED
      BY <1>1, <1>2, <1>3 DEF Rest

LEMMA DropsKeeps ==
    ASSUME CatalogsInv, Drops
    PROVE  CatalogsInv'
<1> DEFINE c == Head(todo).name
           fields == IF Head(todo).cascade THEN DOMAIN collections[inUse][c].bindings ELSE {}
<1>1. /\ up /\ todo # <<>> /\ Head(todo).task = "drop" /\ Settled
      /\ UNCHANGED uids /\ Lives
      /\ Throws \/ (Then(Rest(c, fields)) /\ UNCHANGED <<memory, disk>>)
      BY DEF Drops, At, Settled
<1>2. inUse # None /\ inUse \in Dbs /\ c \in Cols
      BY <1>1, FirstTask DEF TaskOK, OnCollections, Named
<1> HIDE DEF c, fields
<1>3. CASE Then(Rest(c, fields)) /\ UNCHANGED <<memory, disk>>
  <2>1. CatalogsUnchanged /\ inUse' = inUse /\ UNCHANGED <<schemaFile, schemaCache>>
        BY <1>1, <1>3 DEF CatalogsUnchanged, memory, disk, Lives
  <2>2. /\ Ordered(Rest(c, fields), inUse) /\ Closed(Rest(c, fields))
        /\ Rest(c, fields) \in Seq({RemoveFiles(c), Erase(c), Save(inUse), DropRest(c, fields)})
        BY <1>2, RestTasks
  <2>3. SchemasInv'
        BY <2>1, SchemasStay DEF CatalogsInv
  <2>4. QED
        BY <1>1, <1>3, <2>1, <2>2, <2>3, TaskGoesOn
<1>4. QED
      BY <1>1, <1>3, ThrowsKeeps

LEMMA DropsRestKeeps ==
    ASSUME CatalogsInv, DropsRest
    PROVE  CatalogsInv'
<1> DEFINE c == Head(todo).name
<1>1. /\ up /\ todo # <<>> /\ Head(todo).task = "dropRest" /\ Settled
      /\ CatalogsUnchanged /\ inUse' = inUse /\ UNCHANGED <<schemaFile, schemaCache>>
      BY DEF DropsRest, At, Settled, CatalogsUnchanged, memory, disk, Lives
<1>2. inUse # None /\ inUse \in Dbs /\ c \in Cols
      BY <1>1, FirstTask DEF TaskOK, OnCollections, Named
<1>3. PICK f \in Head(todo).fields :
         Then(<<DropBound(collections[inUse][c].bindings[f])>> \o Rest(c, Head(todo).fields \ {f}))
      BY Zenon DEF DropsRest
<1> DEFINE x == collections[inUse][c].bindings[f]
           rest == Rest(c, Head(todo).fields \ {f})
<1>4. Then(<<DropBound(x)>> \o rest)
      BY <1>3
<1> HIDE DEF x
<1>5. /\ <<DropBound(x)>> \in Seq({DropBound(x)})
      /\ Ordered(<<DropBound(x)>>, inUse) /\ Closed(<<DropBound(x)>>)
      BY <1>2, OrderedTuples, Tuples, PlainTasks
<1>6. /\ Ordered(rest, inUse) /\ Closed(rest)
      /\ rest \in Seq({RemoveFiles(c), Erase(c), Save(inUse), DropRest(c, Head(todo).fields \ {f})})
      BY <1>2, RestTasks
<1> HIDE DEF rest
<1>7. SchemasInv'
      BY <1>1, SchemasStay DEF CatalogsInv
<1>8. /\ Ordered(<<DropBound(x)>> \o rest, inUse) /\ Closed(<<DropBound(x)>> \o rest)
      /\ <<DropBound(x)>> \o rest \in Seq(ToSet(<<DropBound(x)>> \o rest))
      BY <1>5, <1>6, ClosedConcat
<1>9. QED
      BY <1>1, <1>4, <1>7, <1>8, TaskGoesOn

LEMMA DropsBoundKeeps ==
    ASSUME CatalogsInv, DropsBound
    PROVE  CatalogsInv'
<1> DEFINE uid == Head(todo).uid
<1>1. /\ up /\ todo # <<>> /\ Head(todo).task = "dropBound" /\ Settled
      /\ \/ Dies
         \/ /\ Managed(uid) /\ Then(<<Drop(NameOf(uid), TRUE)>>)
            /\ UNCHANGED <<memory, disk, uids>> /\ Lives
      BY DEF DropsBound, At, Settled
<1>2. inUse # None
      BY <1>1, FirstTask DEF OnCollections
<1>3. CASE /\ Managed(uid) /\ Then(<<Drop(NameOf(uid), TRUE)>>)
           /\ UNCHANGED <<memory, disk, uids>> /\ Lives
  <2>1. CatalogsUnchanged /\ inUse' = inUse /\ UNCHANGED <<schemaFile, schemaCache>>
        BY <1>3 DEF CatalogsUnchanged, memory, disk, Lives
  <2>2. NameOf(uid) \in Cols
        BY <1>3 DEF Managed, NameOf
  <2>3. Plain(Drop(NameOf(uid), TRUE), inUse)
        BY <1>2, <2>2, PlainTasks
  <2>4. SchemasInv'
        BY <2>1, SchemasStay DEF CatalogsInv
  <2>5. QED
        BY <1>1, <1>3, <2>1, <2>3, <2>4, PlainTaskGoesOn
<1>4. QED
      BY <1>1, <1>3, DiesKeeps

LEMMA ResolvesKeeps ==
    ASSUME CatalogsInv, Resolves
    PROVE  CatalogsInv'
<1>1. /\ up /\ todo # <<>> /\ Head(todo).task = "resolve" /\ Settled
      /\ Dies \/ (Then(<<>>) /\ UNCHANGED <<memory, disk, uids>> /\ Lives)
      BY DEF Resolves, At, Settled
<1>2. CASE Then(<<>>) /\ UNCHANGED <<memory, disk, uids>> /\ Lives
  <2>1. CatalogsUnchanged /\ inUse' = inUse /\ UNCHANGED <<schemaFile, schemaCache>>
        BY <1>2 DEF CatalogsUnchanged, memory, disk, Lives
  <2>2. SchemasInv'
        BY <2>1, SchemasStay DEF CatalogsInv
  <2>3. QED
        BY <1>1, <1>2, <2>1, <2>2, PlainTaskGoesOn
<1>3. QED
      BY <1>1, <1>2, DiesKeeps

-----------------------------------------------------------------------------
(* Saving. *)

LEMMA FileKinds ==
    /\ Missing # Torn
    /\ \A x : File(x) # Missing /\ File(x) # Torn /\ File(x).content = x
<1>1. Missing.state = "missing" /\ Torn.state = "torn"
      BY DEF Missing, Torn
<1>2. \A x : File(x).state = "whole" /\ File(x).content = x
      BY DEF File
<1>3. QED
      BY <1>1, <1>2

LEMMA TailGoesOn ==
    ASSUME TasksInv, todo # <<>>, Then(<<>>)
    PROVE  todo' = Tail(todo)
<1>1. Tail(todo) \in Seq(ToSet(todo))
      BY TailOrdered
<1>2. QED
      BY <1>1, ConcatEmptySeq DEF Then

\* Catalog x is all that a step of a save is about.
LEMMA SavingHead ==
    ASSUME TasksInv, todo # <<>>, Head(todo).task \in {"save", "write"}
    PROVE  /\ \A d : ~Erasing(d)
           /\ \A d : Saving(d) => d = Head(todo).of
<1>1. \A d : ~Erasing(d)
      BY ErasingHead, Tasks
<1>2. \A d : Saving(d) => d = Head(todo).of
      BY Tasks DEF Saving
<1>3. QED
      BY <1>1, <1>2

\* While a catalog is saved, the others agree with their files.
LEMMA OthersAgree ==
    ASSUME CatalogsInv, up, todo # <<>>, Head(todo).task \in {"save", "write"}, NEW x, x = Head(todo).of
    PROVE  /\ x # System => DatabasesOnDisk = databases
           /\ \A d \in databases : d # x => CollectionsOnDisk(d) = collections[d]
           /\ \A d \in Dbs \ homes : /\ databaseFile[d] = Missing
                                     /\ d \in databases => collections[d] = NoCollections
<1>1. /\ \A d : ~Erasing(d)
      /\ \A d : Saving(d) => d = x
      BY SavingHead DEF CatalogsInv
<1>2. QED
      BY <1>1 DEF CatalogsInv, Agreed, Homeless

LEMMA SavesKeeps ==
    ASSUME CatalogsInv, Saves
    PROVE  CatalogsInv'
<1>1. PICK x : x = Head(todo).of
      OBVIOUS
<1>2. /\ up /\ todo # <<>> /\ Head(todo).task = "save"
      /\ UNCHANGED <<databases, inUse, collections, homes, dirs, uids, up, schemaFile, schemaCache>>
      BY DEF Saves, At, memory, Lives
<1>3. x \in Dbs \cup {System} /\ System \notin Dbs /\ TasksInv
      BY <1>1, <1>2, FirstTask, CatalogsAssumption DEF TaskOK, CatalogsInv
<1>4. /\ x # System => DatabasesOnDisk = databases
      /\ \A d \in databases : d # x => CollectionsOnDisk(d) = collections[d]
      /\ \A d \in Dbs \ homes : /\ databaseFile[d] = Missing
                                /\ d \in databases => collections[d] = NoCollections
      BY <1>1, <1>2, OthersAgree
<1>5. SchemasInv'
      BY <1>2, SchemasStay DEF CatalogsInv
<1>6. /\ Ordered(<<Write(x)>>, inUse) /\ <<Write(x)>> \in Seq({Write(x)})
      /\ <<Write(x)>> # <<>> /\ <<Write(x)>>[1] = Write(x)
  <2>1. TaskOK(Write(x), inUse)
        BY <1>3, Tasks DEF TaskOK, OnCollections, Named
  <2>2. QED
        BY <2>1, Tuples, Tasks DEF Ordered
<1>7. ASSUME Then(<<Write(x)>>), x \in homes \cup {System}
      PROVE  TasksInv' /\ Saving(x)'
  <2>1. /\ todo' \in Seq(ToSet(todo')) /\ Ordered(todo', inUse') /\ todo' # <<>> /\ Head(todo') = Write(x)
        BY <1>2, <1>3, <1>6, <1>7, PutInFront
  <2>2. HeadOK'
        BY <1>2, <1>7, <2>1, Tasks DEF HeadOK, At
  <2>3. QED
        BY <2>1, <2>2 DEF TasksInv, Saving
<1>8. CASE x = System
  <2>1. systemFile' = Torn /\ Then(<<Write(x)>>) /\ UNCHANGED databaseFile
        BY <1>1, <1>8 DEF Saves
  <2>2. DatabasesOnDisk' = {} /\ \A d : CollectionsOnDisk(d)' = CollectionsOnDisk(d)
        BY <2>1 DEF DatabasesOnDisk, CollectionsOnDisk
  <2>3. TasksInv' /\ Saving(System)'
        BY <1>7, <1>8, <2>1
  <2>4. StateOK'
        BY <1>2, <2>1, <2>2 DEF CatalogsInv, StateOK
  <2>5. Agreed' /\ Homeless' /\ Down'
        BY <1>2, <1>3, <1>4, <1>8, <2>1, <2>2, <2>3 DEF CatalogsInv, StateOK, Agreed, Homeless, Down
  <2>6. QED
        BY <1>5, <2>3, <2>4, <2>5 DEF CatalogsInv
<1>9. CASE x \in homes
  <2>1. /\ databaseFile' = [databaseFile EXCEPT ![x] = Torn] /\ Then(<<Write(x)>>) /\ UNCHANGED systemFile
        BY <1>1, <1>3, <1>9 DEF Saves, CatalogsInv, StateOK
  <2>2. x \in Dbs /\ databaseFile = [d \in Dbs |-> databaseFile[d]]
        BY <1>9 DEF CatalogsInv, StateOK
  <2>3. /\ DatabasesOnDisk' = DatabasesOnDisk
        /\ CollectionsOnDisk(x)' = NoCollections
        /\ \A d \in Dbs \ {x} : databaseFile'[d] = databaseFile[d] /\ CollectionsOnDisk(d)' = CollectionsOnDisk(d)
        /\ databaseFile' = [d \in Dbs |-> databaseFile'[d]]
        BY <2>1, <2>2 DEF DatabasesOnDisk, CollectionsOnDisk
  <2>4. TasksInv' /\ Saving(x)'
        BY <1>7, <1>9, <2>1
  <2>5. StateOK'
        BY <1>2, <2>2, <2>3, EmptyCatalog DEF CatalogsInv, StateOK
  <2>6. Agreed'
        BY <1>2, <1>3, <1>4, <2>2, <2>3, <2>4 DEF CatalogsInv, StateOK, Agreed
  <2>7. Homeless' /\ Down'
        BY <1>2, <1>4, <1>9, <2>2, <2>3 DEF Homeless, Down
  <2>8. QED
        BY <1>5, <2>4, <2>5, <2>6, <2>7 DEF CatalogsInv
<1>10. CASE x \in Dbs \ homes
  <2>1. /\ UNCHANGED databaseFile /\ Then(<<>>) /\ UNCHANGED systemFile
        BY <1>1, <1>3, <1>10 DEF Saves
  <2>2. DatabasesOnDisk' = DatabasesOnDisk /\ \A d : CollectionsOnDisk(d)' = CollectionsOnDisk(d)
        BY <2>1 DEF DatabasesOnDisk, CollectionsOnDisk
  <2>3. CollectionsOnDisk(x) = NoCollections /\ (x \in databases => collections[x] = NoCollections)
        BY <1>4, <1>10 DEF CollectionsOnDisk
  <2>4. TasksInv'
    <3>1. Ordered(<<>>, inUse) /\ Closed(<<>>) /\ <<>> \in Seq({})
          BY OrderedTuples, Tuples
    <3>2. todo' \in Seq(ToSet(todo')) /\ Ordered(todo', inUse') /\ Closed(todo')
          BY <1>2, <1>3, <2>1, <3>1, PutInFront
    <3>3. todo' # <<>> => Head(todo').task \notin {"erase", "eraseDatabase", "write"}
          BY <3>2 DEF Closed
    <3>4. HeadOK'
          BY <3>3 DEF HeadOK, At
    <3>5. QED
          BY <3>2, <3>4 DEF TasksInv
  <2>5. StateOK'
        BY <1>2, <2>1, <2>2 DEF CatalogsInv, StateOK
  <2>6. Agreed' /\ Homeless' /\ Down'
        BY <1>2, <1>3, <1>4, <1>10, <2>1, <2>2, <2>3 DEF Agreed, Homeless, Down
  <2>7. QED
        BY <1>5, <2>4, <2>5, <2>6 DEF CatalogsInv
<1>11. QED
      BY <1>3, <1>8, <1>9, <1>10

LEMMA WritesKeeps ==
    ASSUME CatalogsInv, Writes
    PROVE  CatalogsInv'
<1>1. PICK x : x = Head(todo).of
      OBVIOUS
<1>2. /\ up /\ todo # <<>> /\ Head(todo).task = "write" /\ At("write") /\ Then(<<>>)
      /\ UNCHANGED <<databases, inUse, collections, homes, dirs, uids, up, schemaFile, schemaCache>>
      BY DEF Writes, At, memory, Lives
<1>3. x \in homes \cup {System} /\ homes \subseteq Dbs /\ System \notin Dbs /\ TasksInv
      BY <1>1, <1>2, CatalogsAssumption DEF CatalogsInv, TasksInv, HeadOK, StateOK
<1>4. /\ x # System => DatabasesOnDisk = databases
      /\ \A d \in databases : d # x => CollectionsOnDisk(d) = collections[d]
      /\ \A d \in Dbs \ homes : /\ databaseFile[d] = Missing
                                /\ d \in databases => collections[d] = NoCollections
      BY <1>1, <1>2, OthersAgree
<1>5. SchemasInv'
      BY <1>2, SchemasStay DEF CatalogsInv
<1>6. TasksInv'
  <2>1. Ordered(<<>>, inUse) /\ Closed(<<>>) /\ <<>> \in Seq({})
        BY OrderedTuples, Tuples
  <2>2. todo' \in Seq(ToSet(todo')) /\ Ordered(todo', inUse') /\ Closed(todo')
        BY <1>2, <1>3, <2>1, PutInFront
  <2>3. todo' # <<>> => Head(todo').task \notin {"erase", "eraseDatabase", "write"}
        BY <2>2 DEF Closed
  <2>4. HeadOK'
        BY <2>3 DEF HeadOK, At
  <2>5. QED
        BY <2>2, <2>4 DEF TasksInv
<1>7. CASE x = System
  <2>1. systemFile' = File(databases) /\ UNCHANGED databaseFile
        BY <1>1, <1>7 DEF Writes
  <2>2. DatabasesOnDisk' = databases /\ \A d : CollectionsOnDisk(d)' = CollectionsOnDisk(d)
        BY <2>1, FileKinds DEF DatabasesOnDisk, CollectionsOnDisk
  <2>3. StateOK'
        BY <1>2, <2>1, <2>2 DEF CatalogsInv, StateOK
  <2>4. Agreed' /\ Homeless' /\ Down'
        BY <1>2, <1>3, <1>4, <1>7, <2>1, <2>2 DEF CatalogsInv, StateOK, Agreed, Homeless, Down
  <2>5. QED
        BY <1>5, <1>6, <2>3, <2>4 DEF CatalogsInv
<1>8. CASE x \in homes
  <2>1. databaseFile' = [databaseFile EXCEPT ![x] = File(collections[x])] /\ UNCHANGED systemFile
        BY <1>1, <1>3, <1>8 DEF Writes
  <2>2. x \in Dbs /\ databaseFile = [d \in Dbs |-> databaseFile[d]]
        BY <1>8 DEF CatalogsInv, StateOK
  <2>3. databaseFile'[x] = File(collections[x])
        BY <2>1, <2>2
  <2>4. /\ DatabasesOnDisk' = DatabasesOnDisk
        /\ CollectionsOnDisk(x)' = collections[x]
        /\ \A d \in Dbs \ {x} : databaseFile'[d] = databaseFile[d] /\ CollectionsOnDisk(d)' = CollectionsOnDisk(d)
        /\ databaseFile' = [d \in Dbs |-> databaseFile'[d]]
        BY <1>2, <2>1, <2>2, <2>3, FileKinds DEF DatabasesOnDisk, CollectionsOnDisk
  <2>5. StateOK'
        BY <1>2, <2>2, <2>4 DEF CatalogsInv, StateOK
  <2>6. Agreed'
        BY <1>2, <1>3, <1>4, <2>2, <2>4 DEF CatalogsInv, StateOK, Agreed
  <2>7. Homeless' /\ Down'
        BY <1>2, <1>4, <1>8, <2>2, <2>4 DEF Homeless, Down
  <2>8. QED
        BY <1>5, <1>6, <2>5, <2>6, <2>7 DEF CatalogsInv
<1>9. QED
      BY <1>3, <1>7, <1>8

-----------------------------------------------------------------------------
(* Databases. *)

LEMMA CreateDatabaseKeeps ==
    ASSUME CatalogsInv, NEW d \in Dbs, CreateDatabase(d)
    PROVE  CatalogsInv'
<1>1. /\ up /\ Settled /\ up' = up /\ d \notin databases
      /\ databases' = databases \cup {d} /\ homes' = homes \cup {d}
      /\ collections' = [collections EXCEPT ![d] = CollectionsOnDisk(d)]
      /\ todo' = <<Save(System)>>
      /\ UNCHANGED <<inUse, schemaCache, systemFile, databaseFile, dirs, schemaFile, uids>>
      BY DEF CreateDatabase, Ready, Settled, Lives
<1>2. DatabasesOnDisk' = DatabasesOnDisk /\ \A e : CollectionsOnDisk(e)' = CollectionsOnDisk(e)
      BY <1>1 DEF DatabasesOnDisk, CollectionsOnDisk
<1>3. collections = [e \in Dbs |-> collections[e]]
      BY DEF CatalogsInv, StateOK
<1>4. /\ collections' = [e \in Dbs |-> collections'[e]]
      /\ \A e \in Dbs : collections'[e] = IF e = d THEN CollectionsOnDisk(d) ELSE collections[e]
      BY <1>1, <1>3
<1>5. SchemasInv'
      BY <1>1, SchemasStay DEF CatalogsInv
<1>6. /\ Ordered(<<Save(System)>>, inUse) /\ <<Save(System)>> \in Seq({Save(System)})
      /\ <<Save(System)>> # <<>> /\ Head(<<Save(System)>>) = Save(System)
  <2>1. Plain(Save(System), inUse)
        BY PlainTasks
  <2>2. Ordered(<<Save(System)>>, inUse)
        BY <2>1, OrderedTuples
  <2>3. QED
        BY <2>2, Tuples
<1>7. TasksInv' /\ Saving(System)'
  <2>1. todo' \in Seq(ToSet(todo')) /\ todo' # <<>> /\ Head(todo') = Save(System)
        BY <1>1, <1>6, InOwnSet
  <2>2. HeadOK'
        BY <2>1, Tasks DEF HeadOK, At
  <2>3. QED
        BY <1>1, <1>6, <2>1, <2>2 DEF TasksInv, Saving
<1>8. StateOK'
      BY <1>1, <1>2, <1>4 DEF CatalogsInv, StateOK
<1>9. Agreed'
      BY <1>1, <1>2, <1>4, <1>7, <1>8, SettledAgrees DEF Agreed, StateOK
<1>10. Homeless' /\ Down'
      BY <1>1, <1>4, SettledAgrees DEF Homeless, Down
<1>11. QED
      BY <1>5, <1>7, <1>8, <1>9, <1>10 DEF CatalogsInv

\* A removal goes on with what is left of it.
LEMMA TailTasks ==
    ASSUME TasksInv, todo # <<>>, Then(<<>>), inUse' = inUse
    PROVE  /\ todo' = Tail(todo)
           /\ todo' \in Seq(ToSet(todo')) /\ Ordered(todo', inUse')
<1>1. /\ todo' = Tail(todo)
      /\ Tail(todo) \in Seq(ToSet(todo)) /\ Ordered(Tail(todo), inUse)
      BY TailOrdered, TailGoesOn
<1>2. todo' \in Seq(ToSet(todo'))
      BY <1>1, InOwnSet
<1>3. QED
      BY <1>1, <1>2

\* While database x is on its way out, memory and files agree on the others.
LEMMA OthersStay ==
    ASSUME CatalogsInv, up, todo # <<>>, Head(todo).task \in {"removeHome", "eraseDatabase"},
           NEW x, x = Head(todo).name
    PROVE  /\ x \in Dbs /\ x # inUse
           /\ \A d : ~Saving(d)
           /\ DatabasesOnDisk = databases
           /\ \A d \in databases \ {x} : ~Erasing(d) /\ CollectionsOnDisk(d) = collections[d]
           /\ \A d \in Dbs \ homes : databaseFile[d] = Missing
           /\ \A d \in databases \ {x} : d \in Dbs \ homes => collections[d] = NoCollections
<1>1. x \in Dbs /\ x # inUse
      BY FirstTask DEF TaskOK
<1>2. \A d : ~Saving(d)
      BY Tasks DEF Saving
<1>3. \A d : Erasing(d) => d = x
      BY ErasingHead, Tasks DEF CatalogsInv
<1>4. QED
      BY <1>1, <1>2, <1>3 DEF CatalogsInv, Agreed, Homeless

LEMMA RemovesHomeKeeps ==
    ASSUME CatalogsInv, RemovesHome
    PROVE  CatalogsInv'
<1>1. PICK x : x = Head(todo).name
      OBVIOUS
<1>2. /\ up /\ todo # <<>> /\ Head(todo).task = "removeHome"
      /\ UNCHANGED <<databases, inUse, collections, systemFile, uids, up, schemaFile, schemaCache>>
      BY DEF RemovesHome, At, memory, Lives
<1>3. \/ /\ databaseFile' = [databaseFile EXCEPT ![x] = Missing]
         /\ UNCHANGED <<homes, dirs, todo>>
      \/ /\ \E c \in dirs[x] : dirs' = [dirs EXCEPT ![x] = @ \ {c}]
         /\ UNCHANGED <<homes, databaseFile, todo>>
      \/ /\ databaseFile[x] = Missing /\ dirs[x] = {}
         /\ homes' = homes \ {x} /\ Then(<<>>)
         /\ UNCHANGED <<databaseFile, dirs>>
      BY <1>1 DEF RemovesHome
<1>4. /\ x \in Dbs /\ x # inUse
      /\ \A d : ~Saving(d)
      /\ DatabasesOnDisk = databases
      /\ \A d \in databases \ {x} : ~Erasing(d) /\ CollectionsOnDisk(d) = collections[d]
      /\ \A d \in Dbs \ homes : databaseFile[d] = Missing
      /\ \A d \in databases \ {x} : d \in Dbs \ homes => collections[d] = NoCollections
      BY <1>1, <1>2, OthersStay
<1>5. SchemasInv' /\ TasksInv
      BY <1>2, SchemasStay DEF CatalogsInv
<1>6. ASSUME UNCHANGED todo
      PROVE  TasksInv' /\ Erasing(x)'
  <2>1. HeadOK'
        BY <1>2, <1>6 DEF HeadOK, At
  <2>2. Erasing(x)
        BY <1>1, <1>2, <1>5, ErasingHead
  <2>3. QED
        BY <1>2, <1>5, <1>6, <2>1, <2>2 DEF TasksInv, Erasing
<1>7. CASE /\ databaseFile' = [databaseFile EXCEPT ![x] = Missing]
           /\ UNCHANGED <<homes, dirs, todo>>
  <2>1. databaseFile = [d \in Dbs |-> databaseFile[d]]
        BY DEF CatalogsInv, StateOK
  <2>2. /\ DatabasesOnDisk' = DatabasesOnDisk
        /\ databaseFile'[x] = Missing /\ CollectionsOnDisk(x)' = NoCollections
        /\ \A d \in Dbs \ {x} : databaseFile'[d] = databaseFile[d] /\ CollectionsOnDisk(d)' = CollectionsOnDisk(d)
        /\ databaseFile' = [d \in Dbs |-> databaseFile'[d]]
        BY <1>2, <1>4, <1>7, <2>1 DEF DatabasesOnDisk, CollectionsOnDisk
  <2>3. StateOK'
        BY <1>2, <1>7, <2>2, EmptyCatalog DEF CatalogsInv, StateOK
  <2>4. TasksInv' /\ Erasing(x)'
        BY <1>6, <1>7
  <2>5. Agreed' /\ Homeless' /\ Down'
        BY <1>2, <1>4, <1>7, <2>2, <2>3, <2>4 DEF Agreed, Homeless, Down, StateOK
  <2>6. QED
        BY <1>5, <2>3, <2>4, <2>5 DEF CatalogsInv
<1>8. CASE /\ \E c \in dirs[x] : dirs' = [dirs EXCEPT ![x] = @ \ {c}]
           /\ UNCHANGED <<homes, databaseFile, todo>>
  <2>1. dirs = [d \in Dbs |-> dirs[d]] /\ \A d \in Dbs : dirs[d] \subseteq Cols
        BY DEF CatalogsInv, StateOK
  <2>2. dirs' = [d \in Dbs |-> dirs'[d]] /\ \A d \in Dbs : dirs'[d] \subseteq Cols
        BY <1>8, <2>1
  <2>3. DatabasesOnDisk' = DatabasesOnDisk /\ \A d : CollectionsOnDisk(d)' = CollectionsOnDisk(d)
        BY <1>2, <1>8 DEF DatabasesOnDisk, CollectionsOnDisk
  <2>4. StateOK'
        BY <1>2, <1>8, <2>2, <2>3 DEF CatalogsInv, StateOK
  <2>5. TasksInv' /\ Erasing(x)'
        BY <1>6, <1>8
  <2>6. Agreed' /\ Homeless' /\ Down'
        BY <1>2, <1>4, <1>8, <2>3, <2>4, <2>5 DEF Agreed, Homeless, Down, StateOK
  <2>7. QED
        BY <1>5, <2>4, <2>5, <2>6 DEF CatalogsInv
<1>9. CASE /\ databaseFile[x] = Missing /\ dirs[x] = {}
           /\ homes' = homes \ {x} /\ Then(<<>>)
           /\ UNCHANGED <<databaseFile, dirs>>
  <2>1. /\ todo' \in Seq(ToSet(todo')) /\ Ordered(todo', inUse')
        /\ todo' # <<>> /\ Head(todo') = EraseDatabase(x)
        BY <1>1, <1>2, <1>5, <1>9, TailTasks, TailOrdered
  <2>2. HeadOK'
        BY <1>9, <2>1, Tasks DEF HeadOK, At
  <2>3. TasksInv'
        BY <2>1, <2>2 DEF TasksInv
  <2>4. Erasing(x)'
    <3>1. 1 \in DOMAIN todo' /\ todo'[1] = EraseDatabase(x)
          BY <2>1, EmptySeq, LenProperties, HeadTailProperties
    <3>2. QED
          BY <3>1 DEF Erasing, ToSet
  <2>5. DatabasesOnDisk' = DatabasesOnDisk /\ \A d : CollectionsOnDisk(d)' = CollectionsOnDisk(d)
        BY <1>2, <1>9 DEF DatabasesOnDisk, CollectionsOnDisk
  <2>6. StateOK'
        BY <1>2, <1>9, <2>5 DEF CatalogsInv, StateOK
  <2>7. Agreed' /\ Homeless' /\ Down'
        BY <1>2, <1>4, <1>9, <2>4, <2>5, <2>6 DEF Agreed, Homeless, Down, StateOK
  <2>8. QED
        BY <1>5, <2>3, <2>6, <2>7 DEF CatalogsInv
<1>10. QED
      BY <1>3, <1>7, <1>8, <1>9

LEMMA ErasesDatabaseKeeps ==
    ASSUME CatalogsInv, ErasesDatabase
    PROVE  CatalogsInv'
<1>1. PICK x : x = Head(todo).name
      OBVIOUS
<1>2. /\ up /\ todo # <<>> /\ Head(todo).task = "eraseDatabase" /\ Then(<<>>)
      /\ databases' = databases \ {x}
      /\ collections' = [collections EXCEPT ![x] = NoCollections]
      /\ UNCHANGED <<inUse, systemFile, databaseFile, homes, dirs, uids, up, schemaFile, schemaCache>>
      BY <1>1 DEF ErasesDatabase, At, disk, Lives
<1>3. /\ x \in Dbs /\ x # inUse
      /\ DatabasesOnDisk = databases
      /\ \A d \in databases \ {x} : ~Erasing(d) /\ CollectionsOnDisk(d) = collections[d]
      /\ \A d \in Dbs \ homes : databaseFile[d] = Missing
      /\ \A d \in databases \ {x} : d \in Dbs \ homes => collections[d] = NoCollections
      BY <1>1, <1>2, OthersStay
<1>4. SchemasInv' /\ TasksInv
      BY <1>2, SchemasStay DEF CatalogsInv
<1>5. TasksInv' /\ Saving(System)'
  <2>1. /\ todo' \in Seq(ToSet(todo')) /\ Ordered(todo', inUse')
        /\ todo' # <<>> /\ Head(todo') = Save(System)
        BY <1>2, <1>4, TailTasks, TailOrdered
  <2>2. HeadOK'
        BY <2>1, Tasks DEF HeadOK, At
  <2>3. QED
        BY <2>1, <2>2 DEF TasksInv, Saving
<1>6. collections = [d \in Dbs |-> collections[d]]
      BY DEF CatalogsInv, StateOK
<1>7. /\ collections' = [d \in Dbs |-> collections'[d]]
      /\ \A d \in Dbs : collections'[d] = IF d = x THEN NoCollections ELSE collections[d]
      BY <1>2, <1>6
<1>8. DatabasesOnDisk' = DatabasesOnDisk /\ \A d : CollectionsOnDisk(d)' = CollectionsOnDisk(d)
      BY <1>2 DEF DatabasesOnDisk, CollectionsOnDisk
<1>9. StateOK'
      BY <1>2, <1>3, <1>7, <1>8, EmptyCatalog DEF CatalogsInv, StateOK
<1>10. Agreed' /\ Homeless' /\ Down'
      BY <1>2, <1>3, <1>5, <1>7, <1>8, <1>9 DEF Agreed, Homeless, Down, StateOK
<1>11. QED
      BY <1>4, <1>5, <1>9, <1>10 DEF CatalogsInv

-----------------------------------------------------------------------------
(* Entries of collections. *)

LEMMA GrownCatalog ==
    ASSUME NEW m, NEW n \in Nat, CatalogOK(m, n)
    PROVE  CatalogOK(m, n + 1)
BY DEF CatalogOK

\* An entry may change, be added with a fresh unique id, or go.
LEMMA ChangedCatalog ==
    ASSUME NEW m, NEW n \in Nat, CatalogOK(m, n), NEW c \in Cols, NEW e,
           e = NoEntry \/ (e.uid \in 1..n /\ \A b \in Cols \ {c} : m[b] # NoEntry => m[b].uid # e.uid)
    PROVE  CatalogOK([m EXCEPT ![c] = e], n)
<1> DEFINE new == [m EXCEPT ![c] = e]
<1>1. m = [b \in Cols |-> m[b]]
      BY DEF CatalogOK
<1>2. new = [b \in Cols |-> IF b = c THEN e ELSE m[b]]
      BY <1>1
<1>3. /\ new = [b \in Cols |-> new[b]]
      /\ \A b \in Cols : new[b] = IF b = c THEN e ELSE m[b]
      BY <1>2
<1> HIDE DEF new
<1>4. QED
      BY <1>3 DEF CatalogOK, new

\* The entry of a collection of the database in use changes, and its catalog is
\* saved next.
LEMMA EntryChanges ==
    ASSUME CatalogsInv, up, Settled, inUse \in Dbs, inUse # None,
           NEW c \in Cols, NEW e, SetEntry(c, e),
           uids' \in Nat, uids' = uids \/ uids' = uids + 1,
           \/ e = NoEntry
           \/ e.uid \in 1..uids' /\ \A b \in Cols \ {c} :
                 collections[inUse][b] # NoEntry => collections[inUse][b].uid # e.uid,
           e = NoEntry \/ inUse \in homes',
           homes' \subseteq Dbs, homes \subseteq homes',
           dirs' = [d \in Dbs |-> dirs'[d]], \A d \in Dbs : dirs'[d] \subseteq Cols,
           todo' \in Seq(ToSet(todo')), Ordered(todo', inUse'),
           todo' # <<>>, Head(todo') = Save(inUse),
           UNCHANGED <<databases, inUse, systemFile, databaseFile, schemaFile, up>>,
           SchemasInv'
    PROVE  CatalogsInv'
<1>1. /\ \A d : ~Erasing(d) /\ ~Saving(d)
      /\ DatabasesOnDisk = databases
      /\ \A d \in databases : CollectionsOnDisk(d) = collections[d]
      /\ \A d \in Dbs \ homes : /\ databaseFile[d] = Missing
                                /\ d \in databases => collections[d] = NoCollections
      BY SettledAgrees
<1>2. DatabasesOnDisk' = DatabasesOnDisk /\ \A d : CollectionsOnDisk(d)' = CollectionsOnDisk(d)
      BY DEF DatabasesOnDisk, CollectionsOnDisk
<1>3. /\ collections = [d \in Dbs |-> collections[d]]
      /\ inUse \in databases /\ uids \in Nat
      /\ \A d \in Dbs : CatalogOK(collections[d], uids) /\ CatalogOK(CollectionsOnDisk(d), uids)
      BY DEF CatalogsInv, StateOK
<1>4. \A d \in Dbs : CatalogOK(collections[d], uids') /\ CatalogOK(CollectionsOnDisk(d), uids')
      BY <1>3, GrownCatalog
<1> DEFINE new == [collections[inUse] EXCEPT ![c] = e]
<1>5. CatalogOK(new, uids')
      BY <1>4, ChangedCatalog
<1>6. collections' = [collections EXCEPT ![inUse] = new]
      BY DEF SetEntry
<1>7. e = NoEntry /\ collections[inUse] = NoCollections => new = NoCollections
      BY DEF NoCollections
<1> HIDE DEF new
<1>8. /\ collections' = [d \in Dbs |-> collections'[d]]
      /\ \A d \in Dbs : collections'[d] = IF d = inUse THEN new ELSE collections[d]
      BY <1>3, <1>6
<1>9. TasksInv' /\ Saving(inUse)'
  <2>1. HeadOK'
        BY Tasks DEF HeadOK, At
  <2>2. QED
        BY <2>1 DEF TasksInv, Saving
<1>10. StateOK'
       BY <1>2, <1>4, <1>5, <1>8 DEF CatalogsInv, StateOK
<1>11. Agreed'
       BY <1>1, <1>2, <1>8, <1>9, <1>10 DEF Agreed, StateOK
<1>12. Homeless' /\ Down'
       BY <1>1, <1>3, <1>7, <1>8 DEF Homeless, Down
<1>13. QED
       BY <1>9, <1>10, <1>11, <1>12 DEF CatalogsInv

LEMMA AddsKeeps ==
    ASSUME CatalogsInv, Adds
    PROVE  CatalogsInv'
<1>1. /\ up /\ todo # <<>> /\ Head(todo).task = "add" /\ Settled /\ Lives
      BY DEF Adds, At, Settled
<1>2. CASE Throws /\ UNCHANGED uids
      BY <1>1, <1>2, ThrowsKeeps
<1>3. CASE \E fields, bindings :
              /\ uids' = uids + 1
              /\ SetEntry(Head(todo).name, Entry(uids', fields, bindings))
              /\ homes' = homes \cup {inUse}
              /\ dirs' = [dirs EXCEPT ![inUse] = @ \cup {Head(todo).name}]
              /\ Then(<<Save(inUse)>>)
              /\ UNCHANGED <<databases, inUse, schemaCache, systemFile, databaseFile, schemaFile>>
  <2>1. PICK fields, bindings :
              /\ uids' = uids + 1
              /\ SetEntry(Head(todo).name, Entry(uids', fields, bindings))
              /\ homes' = homes \cup {inUse}
              /\ dirs' = [dirs EXCEPT ![inUse] = @ \cup {Head(todo).name}]
              /\ Then(<<Save(inUse)>>)
              /\ UNCHANGED <<databases, inUse, schemaCache, systemFile, databaseFile, schemaFile>>
        BY <1>3
  <2>2. PICK e : e = Entry(uids', fields, bindings)
        OBVIOUS
  <2>3. inUse \in Dbs /\ inUse # None /\ Head(todo).name \in Cols
        BY <1>1, FirstTask DEF TaskOK, OnCollections, Named
  <2>4. /\ uids \in Nat /\ homes \subseteq Dbs
        /\ dirs = [d \in Dbs |-> dirs[d]] /\ \A d \in Dbs : dirs[d] \subseteq Cols
        /\ CatalogOK(collections[inUse], uids) /\ TasksInv
        BY <2>3 DEF CatalogsInv, StateOK
  <2>5. /\ e.uid \in 1..uids' /\ uids' \in Nat
        /\ \A b \in Cols : collections[inUse][b] # NoEntry => collections[inUse][b].uid # e.uid
        BY <2>1, <2>2, <2>4 DEF CatalogOK, Entry
  <2>6. dirs' = [d \in Dbs |-> dirs'[d]] /\ \A d \in Dbs : dirs'[d] \subseteq Cols
        BY <2>1, <2>3, <2>4
  <2>7. /\ todo' \in Seq(ToSet(todo')) /\ Ordered(todo', inUse')
        /\ todo' # <<>> /\ Head(todo') = Save(inUse)
    <3>1. Plain(Save(inUse), inUse)
          BY <2>3, PlainTasks
    <3>2. Ordered(<<Save(inUse)>>, inUse)
          BY <3>1, OrderedTuples
    <3>3. <<Save(inUse)>> \in Seq({Save(inUse)}) /\ <<Save(inUse)>> # <<>> /\ <<Save(inUse)>>[1] = Save(inUse)
          BY Tuples
    <3>4. QED
          BY <1>1, <2>1, <2>4, <3>2, <3>3, PutInFront
  <2>8. SchemasInv'
        BY <2>1, SchemasStay DEF CatalogsInv
  <2>9. SetEntry(Head(todo).name, e)
        BY <2>1, <2>2
  <2>10. QED
        BY <1>1, <2>1, <2>3, <2>4, <2>5, <2>6, <2>7, <2>8, <2>9, EntryChanges DEF Lives
<1>4. QED
      BY <1>2, <1>3, Zenon DEF Adds

LEMMA RemovesKeeps ==
    ASSUME CatalogsInv, Removes
    PROVE  CatalogsInv'
<1>1. PICK x : x = Head(todo).name
      OBVIOUS
<1>2. /\ up /\ todo # <<>> /\ Head(todo).task = "remove" /\ Settled /\ Then(<<>>)
      /\ dirs' = [dirs EXCEPT ![inUse] = @ \ {x}]
      /\ UNCHANGED <<databases, inUse, collections, systemFile, databaseFile, homes, uids, up,
                     schemaFile, schemaCache>>
      BY <1>1 DEF Removes, At, Settled, memory, Lives
<1>3. /\ inUse \in Dbs /\ TasksInv
      /\ dirs = [d \in Dbs |-> dirs[d]] /\ \A d \in Dbs : dirs[d] \subseteq Cols
      BY <1>2, FirstTask DEF OnCollections, CatalogsInv, StateOK
<1>4. /\ dirs' = [d \in Dbs |-> dirs'[d]] /\ x \notin dirs'[inUse]
      /\ \A d \in Dbs : dirs'[d] \subseteq Cols
      BY <1>2, <1>3
<1>5. /\ todo' \in Seq(ToSet(todo')) /\ Ordered(todo', inUse')
      /\ todo' # <<>> /\ Head(todo') = Erase(x)
      BY <1>1, <1>2, <1>3, TailTasks, TailOrdered
<1>6. TasksInv'
  <2>1. HeadOK'
        BY <1>2, <1>4, <1>5, Tasks DEF HeadOK, At
  <2>2. QED
        BY <1>5, <2>1 DEF TasksInv
<1>7. DatabasesOnDisk' = DatabasesOnDisk /\ \A d : CollectionsOnDisk(d)' = CollectionsOnDisk(d)
      BY <1>2 DEF DatabasesOnDisk, CollectionsOnDisk
<1>8. SchemasInv' /\ StateOK'
      BY <1>2, <1>4, <1>7, SchemasStay DEF CatalogsInv, StateOK
<1>9. Agreed' /\ Homeless' /\ Down'
      BY <1>2, <1>7, SettledAgrees DEF Agreed, Homeless, Down
<1>10. QED
      BY <1>6, <1>8, <1>9 DEF CatalogsInv

LEMMA ErasesKeeps ==
    ASSUME CatalogsInv, Erases
    PROVE  CatalogsInv'
<1>1. /\ up /\ todo # <<>> /\ Head(todo).task = "erase" /\ Settled /\ Then(<<>>)
      /\ SetEntry(Head(todo).name, NoEntry)
      /\ UNCHANGED <<databases, inUse, systemFile, databaseFile, homes, dirs, uids, up,
                     schemaFile, schemaCache>>
      BY DEF Erases, At, Settled, disk, Lives
<1>2. inUse \in Dbs /\ inUse # None /\ Head(todo).name \in Cols
      BY <1>1, FirstTask DEF TaskOK, OnCollections, Named
<1>3. /\ uids \in Nat /\ homes \subseteq Dbs /\ TasksInv
      /\ dirs = [d \in Dbs |-> dirs[d]] /\ \A d \in Dbs : dirs[d] \subseteq Cols
      BY DEF CatalogsInv, StateOK
<1>4. /\ todo' \in Seq(ToSet(todo')) /\ Ordered(todo', inUse')
      /\ todo' # <<>> /\ Head(todo') = Save(inUse)
      BY <1>1, <1>3, TailTasks, TailOrdered
<1>5. SchemasInv'
      BY <1>1, SchemasStay DEF CatalogsInv
<1>6. QED
      BY <1>1, <1>2, <1>3, <1>4, <1>5, EntryChanges

LEMMA BindsKeeps ==
    ASSUME CatalogsInv, Binds
    PROVE  CatalogsInv'
<1> DEFINE c == Head(todo).name
<1>1. /\ up /\ todo # <<>> /\ Head(todo).task = "bind" /\ Settled /\ Then(<<>>)
      /\ UNCHANGED <<databases, inUse, systemFile, databaseFile, homes, dirs, uids, up,
                     schemaFile, schemaCache>>
      BY DEF Binds, At, Settled, disk, Lives
<1>2. inUse \in Dbs /\ inUse # None /\ c \in Cols
      BY <1>1, FirstTask DEF TaskOK, OnCollections, Named
<1>3. /\ uids \in Nat /\ homes \subseteq Dbs /\ TasksInv
      /\ dirs = [d \in Dbs |-> dirs[d]] /\ \A d \in Dbs : dirs[d] \subseteq Cols
      /\ CatalogOK(collections[inUse], uids) /\ inUse \in databases
      /\ collections = [d \in Dbs |-> collections[d]]
      BY <1>2 DEF CatalogsInv, StateOK
<1>4. /\ todo' \in Seq(ToSet(todo')) /\ Ordered(todo', inUse')
      /\ todo' # <<>> /\ Head(todo') = Save(inUse)
      BY <1>1, <1>3, TailTasks, TailOrdered
<1>5. SchemasInv'
      BY <1>1, SchemasStay DEF CatalogsInv
<1>6. PICK e : SetEntry(c, e) /\ (e = collections[inUse][c] \/ (Exists(c) /\ e.uid = UidOf(c)))
  <2>1. CASE ~Exists(c)
    <3>1. UNCHANGED collections
          BY <2>1 DEF Binds
    <3>2. SetEntry(c, collections[inUse][c])
          BY <1>2, <1>3, <3>1 DEF SetEntry, CatalogOK
    <3>3. QED
          BY <3>2
  <2>2. CASE Exists(c)
    <3>1. \E fields, bindings : SetEntry(c, Entry(UidOf(c), fields, bindings))
          BY <2>2, Zenon DEF Binds
    <3>2. QED
          BY <2>2, <3>1 DEF Entry
  <2>3. QED
        BY <2>1, <2>2
<1> HIDE DEF c
<1>7. \/ e = NoEntry
      \/ e.uid \in 1..uids /\ \A b \in Cols \ {c} :
            collections[inUse][b] # NoEntry => collections[inUse][b].uid # e.uid
      BY <1>2, <1>3, <1>6 DEF CatalogOK, Exists, UidOf
<1>8. e = NoEntry \/ inUse \in homes
  <2>1. ASSUME inUse \notin homes
        PROVE  collections[inUse] = NoCollections
        BY <1>1, <1>2, <1>3, <2>1, SettledAgrees
  <2>2. QED
        BY <1>2, <1>6, <2>1 DEF Exists, NoCollections
<1>9. QED
      BY <1>1, <1>2, <1>3, <1>4, <1>5, <1>6, <1>7, <1>8, EntryChanges

-----------------------------------------------------------------------------
(* The specification. *)

LEMMA InitKeeps ==
    ASSUME Init
    PROVE  CatalogsInv
<1>1. /\ databases = {} /\ systemFile = Missing /\ inUse = None /\ homes = {} /\ uids = 0
      /\ collections = [d \in Dbs |-> NoCollections]
      /\ databaseFile = [d \in Dbs |-> Missing]
      /\ dirs = [d \in Dbs |-> {}]
      /\ todo = <<>> /\ ~up /\ SchemasInit
      BY DEF Init
<1>2. DatabasesOnDisk = {} /\ \A d \in Dbs : CollectionsOnDisk(d) = NoCollections
      BY <1>1 DEF DatabasesOnDisk, CollectionsOnDisk
<1>3. SchemasInv
  <2>1. ASSUME NEW s \in Schemas
        PROVE  /\ schemaCache[s] = NoSchema
               /\ schemaFile[s] \notin {NoSchema, TornSchema} => schemaFile[s].name = s
    <3>1. schemaCache[s] = NoSchema
          BY <1>1 DEF SchemasInit
    <3>2. schemaFile[s] = IF \E d \in Given : d.name = s THEN CHOOSE d \in Given : d.name = s ELSE NoSchema
          BY <1>1 DEF SchemasInit
    <3>3. QED
          BY <3>1, <3>2
  <2>2. schemaFile = [s \in Schemas |-> schemaFile[s]] /\ schemaCache = [s \in Schemas |-> schemaCache[s]]
        BY <1>1 DEF SchemasInit
  <2>3. QED
        BY <2>1, <2>2 DEF SchemasInv
<1>4. TasksInv
  <2>1. <<>> \in Seq(ToSet(<<>>)) /\ Ordered(<<>>, inUse)
        BY Tuples, OrderedTuples
  <2>2. HeadOK
        BY <1>1 DEF HeadOK, At
  <2>3. QED
        BY <1>1, <2>1, <2>2 DEF TasksInv
<1>5. StateOK
      BY <1>1, <1>2, EmptyCatalog DEF StateOK
<1>6. Agreed /\ Homeless /\ Down
      BY <1>1 DEF Agreed, Homeless, Down
<1>7. QED
      BY <1>3, <1>4, <1>5, <1>6 DEF CatalogsInv

LEMMA StutterKeeps ==
    ASSUME CatalogsInv, UNCHANGED vars
    PROVE  CatalogsInv'
<1>1. UNCHANGED <<databases, inUse, collections, schemaCache, systemFile, databaseFile, homes, dirs, schemaFile,
                  uids, todo, up, starts>>
      BY DEF vars, memory, disk
<1>2. DatabasesOnDisk' = DatabasesOnDisk /\ \A d : CollectionsOnDisk(d)' = CollectionsOnDisk(d)
      BY <1>1 DEF DatabasesOnDisk, CollectionsOnDisk
<1>3. SchemasInv' /\ TasksInv'
      BY <1>1 DEF CatalogsInv, SchemasInv, TasksInv, HeadOK, At
<1>4. StateOK' /\ Agreed' /\ Homeless' /\ Down'
      BY <1>1, <1>2 DEF CatalogsInv, StateOK, Agreed, Homeless, Down, Saving, Erasing
<1>5. QED
      BY <1>3, <1>4 DEF CatalogsInv

LEMMA ProcessKeeps ==
    ASSUME CatalogsInv, Process
    PROVE  CatalogsInv'
<1>1. CASE Start
      BY <1>1, StartKeeps
<1>2. CASE Crash \/ ExitEnds
      BY <1>2, DiesKeeps DEF Crash, ExitEnds
<1>3. CASE Exit
      BY <1>3, ExitKeeps
<1>4. CASE Saves \/ Writes
      BY <1>4, SavesKeeps, WritesKeeps
<1>5. CASE SavesManagers \/ SavesSchemas
      BY <1>5, SavesManagersKeeps, SavesSchemasKeeps
<1>6. QED
      BY <1>1, <1>2, <1>3, <1>4, <1>5 DEF Process

LEMMA DatabasesKeep ==
    ASSUME CatalogsInv, Databases
    PROVE  CatalogsInv'
<1>1. CASE \E d \in Dbs : CreateDatabase(d) \/ DropDatabase(d) \/ UseDatabase(d)
      BY <1>1, CreateDatabaseKeeps, DropDatabaseKeeps, UseDatabaseKeeps
<1>2. CASE RemovesHome \/ ErasesDatabase
      BY <1>2, RemovesHomeKeeps, ErasesDatabaseKeeps
<1>3. QED
      BY <1>1, <1>2 DEF Databases

LEMMA SchemaQueriesKeep ==
    ASSUME CatalogsInv, SchemaQueries
    PROVE  CatalogsInv'
BY DefineSchemaKeeps, SavesSchemaKeeps, WritesSchemaKeeps, CachesSchemaKeeps DEF SchemaQueries

LEMMA CollectionsKeep ==
    ASSUME CatalogsInv, Collections
    PROVE  CatalogsInv'
<1>1. CASE \E c \in Cols, s \in Schemas :
              CreateBlended(c, s) \/ \E bindings \in Bindings : CreateCollection(c, s, bindings)
      BY <1>1, CreateBlendedKeeps, CreateCollectionKeeps
<1>2. CASE \E c \in Cols : \E cascade \in BOOLEAN : DropCollection(c, cascade)
      BY <1>2, DropCollectionKeeps
<1>3. CASE \E c, to \in Cols, f \in FieldNames : \E clean \in BOOLEAN : Rebind(c, f, to, clean)
      BY <1>3, RebindKeeps
<1>4. CASE \E c \in Cols, f \in FieldNames : InsertNested(c, f)
      BY <1>4, InsertNestedKeeps
<1>5. CASE Creates \/ AddsNested \/ Adds
      BY <1>5, CreatesKeeps, AddsNestedKeeps, AddsKeeps
<1>6. CASE Drops \/ DropsRest \/ DropsBound
      BY <1>6, DropsKeeps, DropsRestKeeps, DropsBoundKeeps
<1>7. CASE Removes \/ Erases \/ Binds \/ Resolves
      BY <1>7, RemovesKeeps, ErasesKeeps, BindsKeeps, ResolvesKeeps
<1>8. QED
      BY <1>1, <1>2, <1>3, <1>4, <1>5, <1>6, <1>7 DEF Collections

\* The invariant that carries the others: schemas have the names they are
\* stored under, the tasks of a query keep their order (files removed, entry
\* erased, catalog saved), and memory and files agree but for the catalog that
\* is being saved (SystemCatalog.cpp, DatabaseCatalog.cpp).
THEOREM CatalogsInvariant == Spec => []CatalogsInv
<1>1. Init => CatalogsInv
      BY InitKeeps
<1>2. CatalogsInv /\ [Next]_vars => CatalogsInv'
  <2>1. ASSUME CatalogsInv, Next
        PROVE  CatalogsInv'
        BY <2>1, ProcessKeeps, DatabasesKeep, SchemaQueriesKeep, CollectionsKeep DEF Next
  <2>2. QED
        BY <2>1, StutterKeeps
<1>3. QED
      BY <1>1, <1>2, PTL DEF Spec

\* The database in use exists, collections do not share unique ids, and when no
\* save is to come the files say what memory says, whatever failed before
\* (SystemCatalog, DatabaseCatalog and DatabaseManager).
THEOREM CatalogsAgree == Spec => []CatalogInv
<1>1. CatalogsInv => CatalogInv
  <2> SUFFICES ASSUME CatalogsInv
               PROVE  CatalogInv
      OBVIOUS
  <2>1. /\ SchemasInv /\ uids \in Nat
        /\ \A d \in Dbs : CatalogOK(collections[d], uids) /\ CatalogOK(CollectionsOnDisk(d), uids)
        BY DEF CatalogsInv, StateOK
  <2>2. ASSUME NEW m, CatalogOK(m, uids), NEW c \in Cols
        PROVE  m[c].uid \in 0..uids /\ (m[c] # NoEntry => m[c].uid > 0) /\ (m[c] = NoEntry => m[c].uid = 0)
        BY <2>1, <2>2 DEF CatalogOK, NoEntry
  <2>3. TypeOK
    <3>1. \A d \in Dbs, c \in Cols : {collections[d][c].uid, CollectionsOnDisk(d)[c].uid} \subseteq 0..uids
          BY <2>1, <2>2
    <3>2. \A s \in Schemas : schemaCache[s] # NoSchema => schemaCache[s].name \in {s, TornSchema}
          BY <2>1, BlankName DEF SchemasInv
    <3>3. QED
          BY <3>1, <3>2 DEF TypeOK, CatalogsInv, StateOK
  <2>4. ASSUME NEW d \in Dbs, NEW b \in Cols, NEW c \in Cols,
               collections[d][b] # NoEntry, collections[d][b].uid = collections[d][c].uid
        PROVE  b = c
    <3>1. collections[d][c] # NoEntry
          BY <2>1, <2>2, <2>4
    <3>2. QED
          BY <2>1, <2>4, <3>1 DEF CatalogOK
  <2>5. QED
        BY <2>3, <2>4 DEF CatalogInv, CatalogsInv, Agreed, Erasing
<1>2. QED
      BY <1>1, CatalogsInvariant, PTL

-----------------------------------------------------------------------------
(* Data without an entry. *)

LEMMA NotLeftBehind ==
    ASSUME \A d \in Dbs : \A c \in dirs'[d] :
              (d \in databases' => collections'[d][c] = NoEntry) =>
                 c \in dirs[d] /\ (d \in databases => collections[d][c] = NoEntry)
    PROVE  LeftBehind' \subseteq LeftBehind
<1>1. ASSUME NEW x \in LeftBehind'
      PROVE  x \in LeftBehind
  <2>1. PICK d \in Dbs : \E c \in dirs'[d] :
            x = <<d, c>> /\ (d \in databases' => collections'[d][c] = NoEntry)
        BY <1>1 DEF LeftBehind
  <2>2. PICK c \in dirs'[d] : x = <<d, c>> /\ (d \in databases' => collections'[d][c] = NoEntry)
        BY <2>1
  <2>3. c \in dirs[d] /\ (d \in databases => collections[d][c] = NoEntry)
        BY <2>2
  <2>4. QED
        BY <2>2, <2>3 DEF LeftBehind
<1>2. QED
      BY <1>1

\* Most steps have nothing to do with data or entries.
LEMMA DataSteps ==
    ASSUME Next
    PROVE  \/ ~up \/ ~up'
           \/ UNCHANGED <<databases, collections, dirs>>
           \/ (\E d \in Dbs : CreateDatabase(d)) \/ RemovesHome \/ ErasesDatabase
           \/ Adds \/ Removes \/ Erases \/ Binds
<1>1. Process => ~up \/ ~up' \/ UNCHANGED <<databases, collections, dirs>>
      BY DEF Process, Start, Crash, Exit, ExitEnds, Saves, Writes, SavesManagers, SavesSchemas, Dies, memory, disk
<1>2. Databases => \/ (\E d \in Dbs : CreateDatabase(d)) \/ RemovesHome \/ ErasesDatabase
                   \/ UNCHANGED <<databases, collections, dirs>>
      BY DEF Databases, DropDatabase, UseDatabase, memory, disk
<1>3. SchemaQueries => UNCHANGED <<databases, collections, dirs>>
      BY DEF SchemaQueries, DefineSchema, SavesSchema, WritesSchema, CachesSchema, memory, disk
<1>4. ASSUME Collections
      PROVE  \/ ~up' \/ UNCHANGED <<databases, collections, dirs>>
             \/ Adds \/ Removes \/ Erases \/ Binds
  <2>1. ASSUME NEW c \in Cols, NEW s \in Schemas, CreateBlended(c, s)
        PROVE  ~up' \/ UNCHANGED <<databases, collections, dirs>>
        BY <2>1, Zenon DEF CreateBlended, Dies, disk
  <2>2. Creates \/ Drops \/ DropsRest \/ AddsNested => ~up' \/ UNCHANGED <<databases, collections, dirs>>
        BY DEF Creates, Drops, DropsRest, AddsNested, Throws, Dies, memory, disk
  <2>3. DropsBound \/ Resolves => ~up' \/ UNCHANGED <<databases, collections, dirs>>
        BY DEF DropsBound, Resolves, Dies, memory, disk
  <2>4. \A c, s, bindings : CreateCollection(c, s, bindings) => UNCHANGED <<databases, collections, dirs>>
        BY DEF CreateCollection, memory, disk
  <2>5. /\ \A c, x : DropCollection(c, x) => UNCHANGED <<databases, collections, dirs>>
        /\ \A c, f, to, x : Rebind(c, f, to, x) => UNCHANGED <<databases, collections, dirs>>
        /\ \A c, f : InsertNested(c, f) => UNCHANGED <<databases, collections, dirs>>
        BY DEF DropCollection, Rebind, InsertNested, memory, disk
  <2>6. QED
        BY <1>4, <2>1, <2>2, <2>3, <2>4, <2>5, Zenon DEF Collections
<1>5. QED
      BY <1>1, <1>2, <1>3, <1>4 DEF Next

\* Of the directories of collections a running process leaves none behind that
\* no entry names: files go before their entry does, in dropCollection and in
\* dropDatabase, and a directory comes with its entry.
THEOREM DropsLeaveNothing == Spec => NothingLeftBehind
<1> DEFINE Kept == up /\ up' => LeftBehind' \subseteq LeftBehind
<1>1. ASSUME CatalogsInv, Next
      PROVE  Kept
  <2>1. /\ collections = [d \in Dbs |-> collections[d]]
        /\ dirs = [d \in Dbs |-> dirs[d]] /\ \A d \in Dbs : dirs[d] \subseteq Cols
        /\ uids \in Nat
        /\ \A d \in Dbs : CatalogOK(collections[d], uids)
        BY <1>1 DEF CatalogsInv, StateOK
  <2>2. CASE ~up \/ ~up'
        BY <2>2
  <2>3. CASE UNCHANGED <<databases, collections, dirs>>
        BY <2>3, NotLeftBehind
  <2>4. ASSUME NEW d \in Dbs, CreateDatabase(d)
        PROVE  Kept
    <3>1. /\ d \notin databases /\ databases' = databases \cup {d}
          /\ \A e \in Dbs \ {d} : collections'[e] = collections[e]
          /\ UNCHANGED dirs
          BY <2>1, <2>4 DEF CreateDatabase
    <3>2. QED
          BY <3>1, NotLeftBehind
  <2>5. CASE RemovesHome
    <3>1. UNCHANGED <<databases, collections>> /\ \A d \in Dbs : dirs'[d] \subseteq dirs[d]
          BY <2>1, <2>5 DEF RemovesHome, memory
    <3>2. QED
          BY <3>1, NotLeftBehind
  <2>6. CASE ErasesDatabase
    <3>1. PICK x : x = Head(todo).name
          OBVIOUS
    <3>2. /\ databases' = databases \ {x} /\ collections' = [collections EXCEPT ![x] = NoCollections]
          /\ UNCHANGED dirs /\ At("eraseDatabase")
          BY <2>6, <3>1 DEF ErasesDatabase, disk
    <3>3. dirs[x] = {}
          BY <1>1, <3>1, <3>2 DEF CatalogsInv, TasksInv, HeadOK
    <3>4. \A d \in Dbs \ {x} : collections'[d] = collections[d]
          BY <2>1, <3>2
    <3>5. QED
          BY <3>2, <3>3, <3>4, NotLeftBehind
  <2>7. CASE Adds
    <3>1. CASE Throws
          BY <3>1, NotLeftBehind DEF Throws, memory, disk
    <3>2. CASE \E fields, bindings :
                  /\ uids' = uids + 1
                  /\ SetEntry(Head(todo).name, Entry(uids', fields, bindings))
                  /\ dirs' = [dirs EXCEPT ![inUse] = @ \cup {Head(todo).name}]
                  /\ UNCHANGED <<databases, inUse>>
      <4>1. PICK fields, bindings :
                  /\ uids' = uids + 1
                  /\ SetEntry(Head(todo).name, Entry(uids', fields, bindings))
                  /\ dirs' = [dirs EXCEPT ![inUse] = @ \cup {Head(todo).name}]
                  /\ UNCHANGED <<databases, inUse>>
            BY <3>2
      <4>2. PICK c, e : c = Head(todo).name /\ e = Entry(uids', fields, bindings)
            OBVIOUS
      <4>3. todo # <<>> /\ Head(todo).task = "add"
            BY <2>7 DEF Adds, At
      <4>4. inUse \in Dbs /\ c \in Cols
            BY <1>1, <4>2, <4>3, FirstTask DEF TaskOK, OnCollections, Named
      <4>5. e # NoEntry
            BY <2>1, <4>1, <4>2 DEF Entry, NoEntry
      <4>6. collections[inUse] = [b \in Cols |-> collections[inUse][b]]
            BY <2>1, <4>4 DEF CatalogOK
      <4>7. inUse \in databases'
            BY <1>1, <4>1, <4>3, FirstTask, InUseStays DEF OnCollections
      <4>8. collections' = [collections EXCEPT ![inUse] = [@ EXCEPT ![c] = e]]
            BY <4>1, <4>2 DEF SetEntry
      <4>9. /\ collections'[inUse][c] = e
            /\ \A b \in Cols \ {c} : collections'[inUse][b] = collections[inUse][b]
            /\ \A d \in Dbs \ {inUse} : collections'[d] = collections[d]
            BY <2>1, <4>4, <4>6, <4>8
      <4>10. QED
            BY <2>1, <4>1, <4>2, <4>4, <4>5, <4>7, <4>9, NotLeftBehind
    <3>3. QED
          BY <2>7, <3>1, <3>2, Zenon DEF Adds
  <2>8. CASE Removes
    <3>1. UNCHANGED <<databases, collections>> /\ \A d \in Dbs : dirs'[d] \subseteq dirs[d]
          BY <2>1, <2>8 DEF Removes, memory
    <3>2. QED
          BY <3>1, NotLeftBehind
  <2>9. ASSUME Erases \/ Binds
        PROVE  Kept
    <3>1. PICK c : c = Head(todo).name
          OBVIOUS
    <3>2. /\ todo # <<>> /\ Head(todo).task \in {"erase", "bind"}
          /\ UNCHANGED <<databases, inUse, dirs>>
          BY <2>9 DEF Erases, Binds, At, disk
    <3>3. inUse \in Dbs /\ c \in Cols
          BY <1>1, <3>1, <3>2, FirstTask DEF TaskOK, OnCollections, Named
    <3>4. collections[inUse] = [b \in Cols |-> collections[inUse][b]]
          BY <2>1, <3>3 DEF CatalogOK
    <3>5. PICK e : /\ SetEntry(c, e)
                   /\ e = NoEntry => c \notin dirs[inUse] \/ collections[inUse][c] = NoEntry
      <4>1. CASE Erases
        <5>1. SetEntry(c, NoEntry) /\ At("erase")
              BY <3>1, <4>1 DEF Erases
        <5>2. c \notin dirs[inUse]
              BY <1>1, <3>1, <5>1 DEF CatalogsInv, TasksInv, HeadOK
        <5>3. QED
              BY <5>1, <5>2
      <4>2. CASE Binds /\ ~Exists(c)
        <5>1. UNCHANGED collections
              BY <3>1, <4>2 DEF Binds
        <5>2. SetEntry(c, collections[inUse][c])
              BY <2>1, <3>3, <3>4, <5>1 DEF SetEntry
        <5>3. QED
              BY <4>2, <5>2 DEF Exists
      <4>3. CASE Binds /\ Exists(c)
        <5>1. \E fields, bindings : SetEntry(c, Entry(UidOf(c), fields, bindings))
              BY <3>1, <4>3, Zenon DEF Binds
        <5>2. UidOf(c) # 0
              BY <2>1, <3>3, <4>3 DEF CatalogOK, Exists, UidOf
        <5>3. \A fields, bindings : Entry(UidOf(c), fields, bindings) # NoEntry
              BY <5>2 DEF Entry, NoEntry
        <5>4. QED
              BY <5>1, <5>3
      <4>4. QED
            BY <2>9, <4>1, <4>2, <4>3
    <3>6. collections' = [collections EXCEPT ![inUse] = [@ EXCEPT ![c] = e]]
          BY <3>5 DEF SetEntry
    <3>7. /\ collections'[inUse][c] = e
          /\ \A b \in Cols \ {c} : collections'[inUse][b] = collections[inUse][b]
          /\ \A d \in Dbs \ {inUse} : collections'[d] = collections[d]
          BY <2>1, <3>3, <3>4, <3>6
    <3>8. QED
          BY <2>1, <3>2, <3>3, <3>5, <3>7, NotLeftBehind
  <2>10. QED
         BY <1>1, <2>2, <2>3, <2>4, <2>5, <2>6, <2>7, <2>8, <2>9, DataSteps
<1>2. CatalogsInv /\ [Next]_vars => [Kept]_vars
      BY <1>1
<1>3. QED
      BY <1>2, CatalogsInvariant, PTL DEF Spec, NothingLeftBehind

-----------------------------------------------------------------------------
Catalog == Dbs \cup {System}

-----------------------------------------------------------------------------
(* The refinement mapping, catalog by catalog. *)

NamesIn(ds) == [d \in Dbs |-> IF d \in ds THEN Present ELSE NoEntry]

Systems ==
    /\ Content[System] = IF up THEN NamesIn(databases) ELSE NamesIn(DatabasesOnDisk)
    /\ OnDisk(System) = NamesIn(DatabasesOnDisk)

Contents == \A d \in Dbs :
    /\ Content[d] = IF Erasing(d) THEN NoCollections
                    ELSE IF d \in databases THEN collections[d] ELSE CollectionsOnDisk(d)
    /\ OnDisk(d) = CollectionsOnDisk(d)

\* A start finds a catalog as it is or as it is on disk.
Founds == \A c \in Catalog : Found[c] = {Content[c], OnDisk(c)}

\* A database is on its way out only while its directory or its entry goes.
Outs == \A d :
    /\ Erasing(d) => /\ todo # <<>> /\ Head(todo).name = d
                     /\ Head(todo).task = "removeHome" \/ Head(todo).task = "eraseDatabase"
    /\ todo # <<>> /\ Head(todo) = EraseDatabase(d) => Erasing(d)

\* Catalogs are functions on the names of their entries.
Entries ==
    /\ DOMAIN Content = Catalog /\ DOMAIN Found = Catalog
    /\ \A c \in Catalog \ {System} : DOMAIN Content[c] = Cols /\ DOMAIN OnDisk(c) = Cols
    /\ DOMAIN Content[System] = Dbs

Mapped == Systems /\ Contents /\ Founds /\ Outs /\ Entries

LEMMA Maps == CatalogsInv => Mapped
<1> SUFFICES ASSUME CatalogsInv
             PROVE  Mapped
    OBVIOUS
<1>1. Systems
      BY DEF Systems, Content, OnDisk, NamesIn
<1>2. Contents
      BY CatalogsAssumption DEF Contents, Content, OnDisk, Erasing
<1>3. ASSUME NEW c \in Catalog
      PROVE  Found[c] = {Content[c], OnDisk(c)}
  <2>1. \/ Found[c] = {Content[c], OnDisk(c)}
        \/ Found[c] = {Content[c]} /\ ~Saving(c) /\ ~Erasing(c)
        BY DEF Found, Erasing, Catalog
  <2>2. ASSUME ~Saving(c), ~Erasing(c)
        PROVE  OnDisk(c) = Content[c]
    <3>1. CASE c = System
          BY <1>1, <2>2, <3>1 DEF Systems, CatalogsInv, Agreed
    <3>2. CASE c \in Dbs
          BY <1>2, <2>2, <3>2 DEF Contents, CatalogsInv, Agreed, Down
    <3>3. QED
          BY <3>1, <3>2 DEF Catalog
  <2>3. QED
        BY <2>1, <2>2
<1>4. Outs
  <2>1. ASSUME NEW d, Erasing(d)
        PROVE  /\ todo # <<>> /\ Head(todo).name = d
               /\ Head(todo).task = "removeHome" \/ Head(todo).task = "eraseDatabase"
        BY <2>1, ErasingHead, Tasks DEF CatalogsInv
  <2>2. \A d : todo # <<>> /\ Head(todo) = EraseDatabase(d) => Erasing(d)
        BY ErasingHead DEF CatalogsInv
  <2>3. QED
        BY <2>1, <2>2 DEF Outs
<1>5. Entries
  <2>1. \A d \in Dbs : DOMAIN collections[d] = Cols /\ DOMAIN CollectionsOnDisk(d) = Cols
        BY DEF CatalogsInv, StateOK, CatalogOK
  <2>2. DOMAIN NoCollections = Cols
        BY DEF NoCollections
  <2>3. \A c \in Catalog \ {System} : DOMAIN Content[c] = Cols /\ DOMAIN OnDisk(c) = Cols
        BY <1>2, <2>1, <2>2 DEF Contents, Catalog
  <2>4. DOMAIN Content[System] = Dbs
        BY <1>1 DEF Systems, NamesIn
  <2>5. DOMAIN Content = Catalog /\ DOMAIN Found = Catalog
        BY DEF Content, Found, Catalog
  <2>6. QED
        BY <2>3, <2>4, <2>5 DEF Entries
<1>6. QED
      BY <1>1, <1>2, <1>3, <1>4, <1>5 DEF Mapped, Founds

LEMMA MapsLater == CatalogsInv' => Mapped'
BY Maps, PTL

-----------------------------------------------------------------------------
(* Steps of the store. *)

\* Catalog c stays as it is, in memory and on disk.
Stays(c) == Content'[c] = Content[c] /\ OnDisk(c)' = OnDisk(c)

LEMMA Stutters ==
    ASSUME Mapped, Mapped', \A c \in Catalog : Stays(c)
    PROVE  UNCHANGED <<Content, Found>>
<1>1. /\ Content = [c \in Catalog |-> Content[c]] /\ Content' = [c \in Catalog |-> Content'[c]]
      /\ Found = [c \in Catalog |-> Found[c]] /\ Found' = [c \in Catalog |-> Found'[c]]
      BY DEF Content, Found, Catalog
<1>2. \A c \in Catalog : Content'[c] = Content[c] /\ Found'[c] = Found[c]
      BY DEF Mapped, Founds, Stays
<1>3. QED
      BY <1>1, <1>2

LEMMA OthersAreKept ==
    ASSUME Mapped, Mapped', NEW x \in Catalog, \A c \in Catalog \ {x} : Stays(c)
    PROVE  Store!OthersKept(x)
<1>1. \A c \in Catalog \ {x} : Content'[c] = Content[c] /\ Found'[c] = Found[c]
      BY DEF Mapped, Founds, Stays
<1>2. DOMAIN Content' = Catalog /\ DOMAIN Content = Catalog
      BY DEF Mapped, Entries
<1>3. QED
      BY <1>1, <1>2 DEF Store!OthersKept

LEMMA Empties ==
    ASSUME Mapped
    PROVE  /\ \A d \in Dbs : Store!Empty(Content[d]) = NoCollections
           /\ Store!Empty(Content[System]) = NamesIn({})
BY CatalogsAssumption DEF Mapped, Entries, Catalog, Store!Empty, NoCollections, NamesIn

LEMMA Changes ==
    ASSUME Mapped, Mapped', NEW x \in Catalog, \A c \in Catalog \ {x} : Stays(c),
           \/ Content'[x] = Store!Empty(Content[x])
           \/ \E n \in DOMAIN Content[x] : \A m \in DOMAIN Content[x] \ {n} : Content'[x][m] = Content[x][m],
           OnDisk(x)' \in {Content[x], OnDisk(x), Content'[x], Store!Empty(Content[x])}
    PROVE  Store!Next
<1>1. Found[x] = {Content[x], OnDisk(x)} /\ Found'[x] = {Content'[x], OnDisk(x)'}
      BY DEF Mapped, Founds
<1>2. Found'[x] \subseteq Found[x] \cup {Content'[x], Store!Empty(Content[x])}
      BY <1>1
<1>3. Store!Change(x)
      BY <1>2, OthersAreKept DEF Store!Change
<1>4. QED
      BY <1>3 DEF Store!Next, Mapped, Entries

LEMMA SaveGoesOn ==
    ASSUME Mapped, Mapped', NEW x \in Catalog, \A c \in Catalog \ {x} : Stays(c),
           Content'[x] = Content[x],
           OnDisk(x)' \in {Content[x], OnDisk(x), Store!Empty(Content[x])}
    PROVE  Store!Next
<1>1. Found[x] = {Content[x], OnDisk(x)} /\ Found'[x] = {Content'[x], OnDisk(x)'}
      BY DEF Mapped, Founds
<1>2. /\ Found'[x] \subseteq {Content[x], Store!Empty(Content[x])} \cup Found[x]
      /\ Content[x] \in Found'[x]
      BY <1>1
<1>3. Content' = Content
  <2>1. Content = [c \in Catalog |-> Content[c]] /\ Content' = [c \in Catalog |-> Content'[c]]
        BY DEF Content, Catalog
  <2>2. \A c \in Catalog : Content'[c] = Content[c]
        BY DEF Stays
  <2>3. QED
        BY <2>1, <2>2
<1>4. Store!Save(x)
      BY <1>2, <1>3, OthersAreKept DEF Store!Save
<1>5. QED
      BY <1>4 DEF Store!Next, Mapped, Entries

LEMMA Ends ==
    ASSUME Mapped, Mapped',
           \A c \in Catalog : Content'[c] = OnDisk(c) /\ OnDisk(c)' = OnDisk(c)
    PROVE  Store!Next
<1>1. \A c \in Catalog : Content'[c] \in Found[c] /\ Found'[c] = {Content'[c]}
      BY DEF Mapped, Founds
<1>2. Found' = [c \in Catalog |-> {Content'[c]}]
  <2>1. Found' = [c \in Catalog |-> Found'[c]]
        BY DEF Found, Catalog
  <2>2. QED
        BY <1>1, <2>1
<1>3. Store!End
      BY <1>1, <1>2 DEF Store!End, Mapped, Entries
<1>4. QED
      BY <1>3 DEF Store!Next

-----------------------------------------------------------------------------
(* Steps of the catalogs. *)

\* What is on disk stays while the files stay.
LEMMA FilesStay ==
    ASSUME UNCHANGED <<systemFile, databaseFile>>
    PROVE  DatabasesOnDisk' = DatabasesOnDisk /\ \A d : CollectionsOnDisk(d)' = CollectionsOnDisk(d)
BY DEF DatabasesOnDisk, CollectionsOnDisk

LEMMA SystemStays ==
    ASSUME Mapped, Mapped', DatabasesOnDisk' = DatabasesOnDisk, UNCHANGED <<databases, up>>
    PROVE  Stays(System)
BY DEF Mapped, Systems, Stays, NamesIn

LEMMA DatabaseStays ==
    ASSUME Mapped, Mapped', NEW d \in Dbs, CollectionsOnDisk(d)' = CollectionsOnDisk(d),
           d \in databases' <=> d \in databases, d \in databases => collections'[d] = collections[d],
           Erasing(d)' <=> Erasing(d)
    PROVE  Stays(d)
BY DEF Mapped, Contents, Stays

\* A step that changes neither catalogs nor files stutters, or it is the drop of
\* a database that begins.
LEMMA QuietSteps ==
    ASSUME CatalogsInv, CatalogsInv', Settled,
           UNCHANGED <<databases, collections, systemFile, databaseFile, up>>
    PROVE  UNCHANGED <<Content, Found>> \/ Store!Next
<1>1. Mapped /\ Mapped'
      BY Maps, MapsLater
<1>2. DatabasesOnDisk' = DatabasesOnDisk /\ \A d : CollectionsOnDisk(d)' = CollectionsOnDisk(d)
      BY FilesStay
<1>3. Stays(System)
      BY <1>1, <1>2, SystemStays
<1>4. \A d : ~Erasing(d)
      BY SettledAgrees
<1>5. \A d \in Dbs : Erasing(d)' \/ Stays(d)
      BY <1>1, <1>2, <1>4, DatabaseStays
<1>6. CASE \A d \in Dbs : ~Erasing(d)'
      BY <1>1, <1>3, <1>5, <1>6, Stutters DEF Catalog
<1>7. ASSUME NEW x \in Dbs, Erasing(x)'
      PROVE  Store!Next
  <2>1. \A d \in Dbs \ {x} : ~Erasing(d)'
        BY <1>1, <1>7 DEF Mapped, Outs
  <2>2. \A c \in Catalog \ {x} : Stays(c)
        BY <1>3, <1>5, <2>1 DEF Catalog
  <2>3. /\ Content'[x] = Store!Empty(Content[x])
        /\ OnDisk(x)' = OnDisk(x) /\ x \in Catalog
        BY <1>1, <1>2, <1>7, Empties DEF Mapped, Contents, Catalog
  <2>4. QED
        BY <1>1, <2>2, <2>3, Changes
<1>8. QED
      BY <1>6, <1>7

\* The process ends: every catalog is what it is on disk.
LEMMA DiesSteps ==
    ASSUME CatalogsInv, CatalogsInv', Dies
    PROVE  Store!Next
<1>1. Mapped /\ Mapped'
      BY Maps, MapsLater
<1>2. /\ ~up' /\ databases' = {} /\ todo' = <<>> /\ UNCHANGED <<systemFile, databaseFile>>
      BY DEF Dies, disk
<1>3. DatabasesOnDisk' = DatabasesOnDisk /\ \A d : CollectionsOnDisk(d)' = CollectionsOnDisk(d)
      BY <1>2, FilesStay
<1>4. Content'[System] = OnDisk(System) /\ OnDisk(System)' = OnDisk(System)
      BY <1>1, <1>2, <1>3 DEF Mapped, Systems, NamesIn
<1>5. ASSUME NEW d \in Dbs
      PROVE  Content'[d] = OnDisk(d) /\ OnDisk(d)' = OnDisk(d)
  <2>1. ~Erasing(d)'
        BY <1>1, <1>2 DEF Mapped, Outs
  <2>2. QED
        BY <1>1, <1>2, <1>3, <2>1 DEF Mapped, Contents
<1>6. QED
      BY <1>1, <1>4, <1>5, Ends DEF Catalog

\* The process starts: memory is read from disk.
LEMMA StartSteps ==
    ASSUME CatalogsInv, CatalogsInv', Start
    PROVE  UNCHANGED <<Content, Found>>
<1>1. Mapped /\ Mapped'
      BY Maps, MapsLater
<1>2. /\ ~up /\ up' /\ databases' = DatabasesOnDisk /\ UNCHANGED <<systemFile, databaseFile>>
      /\ collections' = [d \in Dbs |-> IF d \in databases' THEN CollectionsOnDisk(d) ELSE NoCollections]
      /\ todo' = SaveEach(databases')
      BY DEF Start, disk
<1>3. DatabasesOnDisk' = DatabasesOnDisk /\ \A d : CollectionsOnDisk(d)' = CollectionsOnDisk(d)
      BY <1>2, FilesStay
<1>4. Stays(System)
      BY <1>1, <1>2, <1>3 DEF Mapped, Systems, Stays, NamesIn
<1>5. ASSUME NEW d \in Dbs
      PROVE  Stays(d)
  <2>1. ~Erasing(d) /\ d \notin databases
        BY <1>1, <1>2 DEF CatalogsInv, Down, Mapped, Outs
  <2>2. ~Erasing(d)'
    <3>1. todo' # <<>> => Head(todo') = SaveManagers(databases')
          BY <1>2 DEF SaveEach
    <3>2. QED
          BY <1>1, <3>1, Tasks DEF Mapped, Outs
  <2>3. QED
        BY <1>1, <1>2, <1>3, <2>1, <2>2 DEF Mapped, Contents, Stays
<1>6. QED
      BY <1>1, <1>4, <1>5, Stutters DEF Catalog

\* What is left after a save or an erasure that is not of a database.
LEMMA NoneOutAfter ==
    ASSUME CatalogsInv, CatalogsInv', todo # <<>>, Head(todo).task \notin {"remove", "removeHome"}, Then(<<>>)
    PROVE  \A d : ~Erasing(d)'
<1>1. todo' = Tail(todo) /\ Closed(Tail(todo)) /\ Tail(todo) \in Seq(ToSet(todo))
      BY TailGoesOn, TailOrdered DEF CatalogsInv
<1>2. todo' # <<>> => Head(todo') = todo'[1]
      BY <1>1, HeadTailProperties
<1>3. todo' # <<>> => Head(todo').task \notin {"removeHome", "eraseDatabase"}
      BY <1>1, <1>2 DEF Closed
<1>4. QED
      BY <1>3, MapsLater DEF Mapped, Outs

\* A save begins: the file is truncated.
LEMMA SavesSteps ==
    ASSUME CatalogsInv, CatalogsInv', Saves
    PROVE  UNCHANGED <<Content, Found>> \/ Store!Next
<1>1. Mapped /\ Mapped'
      BY Maps, MapsLater
<1>2. PICK x : x = Head(todo).of
      OBVIOUS
<1>3. /\ up /\ todo # <<>> /\ Head(todo).task = "save"
      /\ UNCHANGED <<databases, collections, up, inUse>>
      BY DEF Saves, At, memory, Lives
<1>4. x \in Catalog
      BY <1>2, <1>3, FirstTask DEF TaskOK, Catalog
<1>5. \/ x = System /\ systemFile' = Torn /\ Then(<<Write(x)>>) /\ UNCHANGED databaseFile
      \/ /\ x # System /\ x \in homes /\ databaseFile' = [databaseFile EXCEPT ![x] = Torn]
         /\ Then(<<Write(x)>>) /\ UNCHANGED systemFile
      \/ x # System /\ x \notin homes /\ Then(<<>>) /\ UNCHANGED <<systemFile, databaseFile>>
      BY <1>2 DEF Saves
<1>6. \A d : ~Erasing(d) /\ ~Erasing(d)'
  <2>1. \A d : ~Erasing(d)
        BY <1>1, <1>3 DEF Mapped, Outs
  <2>2. CASE Then(<<>>)
        BY <1>3, <2>1, <2>2, NoneOutAfter
  <2>3. CASE Then(<<Write(x)>>)
    <3>1. TaskOK(Write(x), inUse)
          BY <1>4, Tasks DEF TaskOK, OnCollections, Named, Catalog
    <3>2. /\ Ordered(<<Write(x)>>, inUse) /\ <<Write(x)>> \in Seq({Write(x)})
          /\ <<Write(x)>> # <<>> /\ <<Write(x)>>[1] = Write(x)
          BY <3>1, Tuples, Tasks DEF Ordered
    <3>3. todo' # <<>> /\ Head(todo') = Write(x)
          BY <1>3, <2>3, <3>2, PutInFront DEF CatalogsInv
    <3>4. QED
          BY <1>1, <2>1, <3>3, Tasks DEF Mapped, Outs
  <2>4. QED
        BY <1>5, <2>2, <2>3
<1>7. ASSUME NEW c \in Catalog, c # x
      PROVE  Stays(c)
  <2>1. CASE c = System
    <3>1. DatabasesOnDisk' = DatabasesOnDisk
          BY <1>5, <1>7, <2>1 DEF DatabasesOnDisk
    <3>2. QED
          BY <1>1, <1>3, <2>1, <3>1, SystemStays
  <2>2. CASE c \in Dbs
    <3>1. databaseFile'[c] = databaseFile[c]
          BY <1>5, <1>7, <2>2 DEF CatalogsInv, StateOK
    <3>2. CollectionsOnDisk(c)' = CollectionsOnDisk(c)
          BY <3>1 DEF CollectionsOnDisk
    <3>3. QED
          BY <1>1, <1>3, <1>6, <2>2, <3>2, DatabaseStays
  <2>3. QED
        BY <2>1, <2>2 DEF Catalog
<1>8. CASE x = System
  <2>1. DatabasesOnDisk' = {}
        BY <1>5, <1>8 DEF DatabasesOnDisk
  <2>2. Content'[x] = Content[x] /\ OnDisk(x)' = Store!Empty(Content[x])
        BY <1>1, <1>3, <1>8, <2>1, Empties DEF Mapped, Systems
  <2>3. QED
        BY <1>1, <1>4, <1>7, <2>2, SaveGoesOn
<1>9. CASE x # System /\ x \in homes
  <2>1. x \in Dbs /\ databaseFile = [d \in Dbs |-> databaseFile[d]]
        BY <1>4, <1>9 DEF CatalogsInv, StateOK, Catalog
  <2>2. databaseFile'[x] = Torn
        BY <1>5, <1>9, <2>1
  <2>3. OnDisk(x)' = NoCollections
        BY <1>1, <2>1, <2>2 DEF Mapped, Contents, CollectionsOnDisk
  <2>4. CASE x \in databases
    <3>1. Content'[x] = Content[x]
          BY <1>1, <1>3, <1>6, <2>1, <2>4 DEF Mapped, Contents
    <3>2. QED
          BY <1>1, <1>4, <1>7, <2>1, <2>3, <3>1, Empties, SaveGoesOn
  <2>5. CASE x \notin databases
    <3>1. Content'[x] = NoCollections
          BY <1>1, <1>3, <1>6, <2>1, <2>3, <2>5 DEF Mapped, Contents
    <3>2. QED
          BY <1>1, <1>4, <1>7, <2>1, <2>3, <3>1, Empties, Changes
  <2>6. QED
        BY <2>4, <2>5
<1>10. CASE x # System /\ x \notin homes
  <2>1. x \in Dbs /\ UNCHANGED <<systemFile, databaseFile>>
        BY <1>4, <1>5, <1>10 DEF Catalog
  <2>2. CollectionsOnDisk(x)' = CollectionsOnDisk(x)
        BY <2>1 DEF CollectionsOnDisk
  <2>3. Stays(x)
        BY <1>1, <1>3, <1>6, <2>1, <2>2, DatabaseStays
  <2>4. QED
        BY <1>1, <1>7, <2>3, Stutters
<1>11. QED
       BY <1>8, <1>9, <1>10

\* A save ends: the file says what memory says.
LEMMA WritesSteps ==
    ASSUME CatalogsInv, CatalogsInv', Writes
    PROVE  Store!Next
<1>1. Mapped /\ Mapped'
      BY Maps, MapsLater
<1>2. PICK x : x = Head(todo).of
      OBVIOUS
<1>3. /\ up /\ todo # <<>> /\ Head(todo).task = "write" /\ At("write") /\ Then(<<>>)
      /\ UNCHANGED <<databases, collections, up>>
      BY DEF Writes, At, memory, Lives
<1>4. x \in Catalog /\ System \notin Dbs /\ (x # System => x \in Dbs)
      BY <1>2, <1>3, FirstTask, CatalogsAssumption DEF TaskOK, Catalog
<1>5. \/ x = System /\ systemFile' = File(databases) /\ UNCHANGED databaseFile
      \/ /\ x # System /\ databaseFile' = [databaseFile EXCEPT ![x] = File(collections[x])]
         /\ UNCHANGED systemFile
      BY <1>2 DEF Writes
<1>6. \A d : ~Erasing(d) /\ ~Erasing(d)'
      BY <1>1, <1>3, NoneOutAfter DEF Mapped, Outs
<1>7. ASSUME NEW c \in Catalog, c # x
      PROVE  Stays(c)
  <2>1. CASE c = System
    <3>1. DatabasesOnDisk' = DatabasesOnDisk
          BY <1>5, <1>7, <2>1 DEF DatabasesOnDisk
    <3>2. QED
          BY <1>1, <1>3, <2>1, <3>1, SystemStays
  <2>2. CASE c \in Dbs
    <3>1. databaseFile'[c] = databaseFile[c]
          BY <1>5, <1>7, <2>2 DEF CatalogsInv, StateOK
    <3>2. CollectionsOnDisk(c)' = CollectionsOnDisk(c)
          BY <3>1 DEF CollectionsOnDisk
    <3>3. QED
          BY <1>1, <1>3, <1>6, <2>2, <3>2, DatabaseStays
  <2>3. QED
        BY <2>1, <2>2 DEF Catalog
<1>8. CASE x = System
  <2>1. DatabasesOnDisk' = databases
        BY <1>5, <1>8, FileKinds DEF DatabasesOnDisk
  <2>2. Content'[x] = Content[x] /\ OnDisk(x)' = Content[x]
        BY <1>1, <1>3, <1>8, <2>1 DEF Mapped, Systems
  <2>3. QED
        BY <1>1, <1>4, <1>7, <2>2, SaveGoesOn
<1>9. CASE x # System
  <2>1. x \in Dbs /\ databaseFile = [d \in Dbs |-> databaseFile[d]]
        BY <1>4, <1>9 DEF CatalogsInv, StateOK
  <2>2. databaseFile'[x] = File(collections[x])
        BY <1>5, <1>9, <2>1
  <2>3. OnDisk(x)' = collections[x]
        BY <1>1, <2>1, <2>2, FileKinds DEF Mapped, Contents, CollectionsOnDisk
  <2>4. CASE x \in databases
    <3>1. Content'[x] = Content[x] /\ Content[x] = collections[x]
          BY <1>1, <1>3, <1>6, <2>1, <2>4 DEF Mapped, Contents
    <3>2. QED
          BY <1>1, <1>4, <1>7, <2>3, <3>1, SaveGoesOn
  <2>5. CASE x \notin databases
    <3>1. collections[x] = NoCollections
          BY <2>1, <2>5 DEF CatalogsInv, StateOK
    <3>2. Content'[x] = NoCollections
          BY <1>1, <1>3, <1>6, <2>1, <2>3, <2>5, <3>1 DEF Mapped, Contents
    <3>3. QED
          BY <1>1, <1>4, <1>7, <2>1, <2>3, <3>1, <3>2, Empties, Changes
  <2>6. QED
        BY <2>4, <2>5
<1>10. QED
       BY <1>8, <1>9

\* A database is created: one name more in the system catalog.
LEMMA CreateDatabaseSteps ==
    ASSUME CatalogsInv, CatalogsInv', NEW d \in Dbs, CreateDatabase(d)
    PROVE  Store!Next
<1>1. Mapped /\ Mapped'
      BY Maps, MapsLater
<1>2. /\ up /\ up' /\ Settled /\ d \notin databases
      /\ databases' = databases \cup {d}
      /\ collections' = [collections EXCEPT ![d] = CollectionsOnDisk(d)]
      /\ todo' = <<Save(System)>> /\ UNCHANGED <<systemFile, databaseFile>>
      BY DEF CreateDatabase, Ready, Settled, Lives
<1>3. DatabasesOnDisk' = DatabasesOnDisk /\ \A e : CollectionsOnDisk(e)' = CollectionsOnDisk(e)
      BY <1>2, FilesStay
<1>4. \A e \in Dbs : collections'[e] = IF e = d THEN CollectionsOnDisk(d) ELSE collections[e]
      BY <1>2 DEF CatalogsInv, StateOK
<1>5. \A e : ~Erasing(e) /\ ~Erasing(e)'
  <2>1. todo' # <<>> /\ Head(todo') = Save(System)
        BY <1>2
  <2>2. QED
        BY <1>1, <1>2, <2>1, SettledAgrees, Tasks DEF Mapped, Outs
<1>6. \A e \in Dbs \ {d} : Stays(e)
      BY <1>1, <1>2, <1>3, <1>4, <1>5, DatabaseStays
<1>7. Stays(d)
      BY <1>1, <1>2, <1>3, <1>4, <1>5 DEF Mapped, Contents, Stays
<1>8. \A m \in DOMAIN Content[System] \ {d} : Content'[System][m] = Content[System][m]
      BY <1>1, <1>2 DEF Mapped, Systems, Entries, NamesIn
<1>9. d \in DOMAIN Content[System] /\ OnDisk(System)' = OnDisk(System) /\ System \in Catalog
      BY <1>1, <1>3 DEF Mapped, Systems, Entries, Catalog
<1>10. \A c \in Catalog \ {System} : Stays(c)
      BY <1>6, <1>7 DEF Catalog
<1>11. QED
      BY <1>1, <1>8, <1>9, <1>10, Changes

\* The directory of a database is removed, and its catalog with it.
LEMMA RemovesHomeSteps ==
    ASSUME CatalogsInv, CatalogsInv', RemovesHome
    PROVE  UNCHANGED <<Content, Found>> \/ Store!Next
<1>1. Mapped /\ Mapped'
      BY Maps, MapsLater
<1>2. PICK x : x = Head(todo).name
      OBVIOUS
<1>3. /\ up /\ todo # <<>> /\ Head(todo).task = "removeHome"
      /\ UNCHANGED <<databases, collections, systemFile, up>>
      BY DEF RemovesHome, At, memory, Lives
<1>4. /\ x \in Dbs /\ Erasing(x)
      /\ \A d : Erasing(d) => d = x
      BY <1>1, <1>2, <1>3, FirstTask, ErasingHead DEF TaskOK, CatalogsInv, Mapped, Outs
<1>5. \/ databaseFile' = [databaseFile EXCEPT ![x] = Missing] /\ UNCHANGED todo
      \/ UNCHANGED databaseFile /\ (UNCHANGED todo \/ Then(<<>>))
      BY <1>2 DEF RemovesHome
<1>6. \A d : Erasing(d)' <=> Erasing(d)
  <2>1. CASE UNCHANGED todo
        BY <2>1 DEF Erasing
  <2>2. CASE Then(<<>>)
    <3>1. todo' = Tail(todo) /\ todo' # <<>> /\ Head(todo') = EraseDatabase(x)
          BY <1>2, <1>3, <2>2, TailGoesOn, TailOrdered DEF CatalogsInv
    <3>2. Erasing(x)'
          BY <1>1, <3>1 DEF Mapped, Outs
    <3>3. \A d : Erasing(d)' => d = x
          BY <1>1, <3>1, Tasks DEF Mapped, Outs
    <3>4. QED
          BY <1>4, <3>2, <3>3
  <2>3. QED
        BY <1>5, <2>1, <2>2
<1>7. DatabasesOnDisk' = DatabasesOnDisk
      BY <1>3 DEF DatabasesOnDisk
<1>8. ASSUME NEW c \in Catalog, c # x
      PROVE  Stays(c)
  <2>1. CASE c = System
        BY <1>1, <1>3, <1>7, <2>1, SystemStays
  <2>2. CASE c \in Dbs
    <3>1. databaseFile'[c] = databaseFile[c]
          BY <1>5, <1>8, <2>2 DEF CatalogsInv, StateOK
    <3>2. CollectionsOnDisk(c)' = CollectionsOnDisk(c)
          BY <3>1 DEF CollectionsOnDisk
    <3>3. QED
          BY <1>1, <1>3, <1>6, <2>2, <3>2, DatabaseStays
  <2>3. QED
        BY <2>1, <2>2 DEF Catalog
<1>9. CASE UNCHANGED databaseFile
  <2>1. CollectionsOnDisk(x)' = CollectionsOnDisk(x)
        BY <1>9 DEF CollectionsOnDisk
  <2>2. Stays(x)
        BY <1>1, <1>3, <1>4, <1>6, <2>1, DatabaseStays
  <2>3. QED
        BY <1>1, <1>8, <2>2, Stutters
<1>10. CASE databaseFile' = [databaseFile EXCEPT ![x] = Missing]
  <2>1. databaseFile'[x] = Missing
        BY <1>4, <1>10 DEF CatalogsInv, StateOK
  <2>2. /\ Content'[x] = Content[x] /\ x \in Catalog
        /\ OnDisk(x)' = Store!Empty(Content[x])
        BY <1>1, <1>4, <1>6, <2>1, Empties DEF Mapped, Contents, CollectionsOnDisk, Catalog
  <2>3. QED
        BY <1>1, <1>8, <2>2, SaveGoesOn
<1>11. QED
       BY <1>5, <1>9, <1>10

\* The entry of a database is erased: one name less in the system catalog.
LEMMA ErasesDatabaseSteps ==
    ASSUME CatalogsInv, CatalogsInv', ErasesDatabase
    PROVE  Store!Next
<1>1. Mapped /\ Mapped'
      BY Maps, MapsLater
<1>2. PICK x : x = Head(todo).name
      OBVIOUS
<1>3. /\ up /\ up' /\ todo # <<>> /\ Head(todo).task = "eraseDatabase" /\ Then(<<>>)
      /\ databases' = databases \ {x}
      /\ collections' = [collections EXCEPT ![x] = NoCollections]
      /\ UNCHANGED <<systemFile, databaseFile>>
      BY <1>2 DEF ErasesDatabase, At, disk, Lives
<1>4. /\ x \in Dbs /\ databaseFile[x] = Missing
      /\ \A d : ~Saving(d) /\ (Erasing(d) => d = x)
  <2>1. x \in Dbs /\ \A d : ~Saving(d) /\ (Erasing(d) => d = x)
        BY <1>1, <1>2, <1>3, OthersStay DEF Mapped, Outs
  <2>2. databaseFile[x] = Missing
        BY <1>2, <1>3 DEF CatalogsInv, TasksInv, HeadOK, At
  <2>3. QED
        BY <2>1, <2>2
<1>5. DatabasesOnDisk' = DatabasesOnDisk /\ \A e : CollectionsOnDisk(e)' = CollectionsOnDisk(e)
      BY <1>3, FilesStay
<1>6. \A d : ~Erasing(d)'
      BY <1>3, NoneOutAfter
<1>7. \A e \in Dbs \ {x} : Stays(e)
  <2>1. \A e \in Dbs \ {x} : collections'[e] = collections[e]
        BY <1>3 DEF CatalogsInv, StateOK
  <2>2. QED
        BY <1>1, <1>3, <1>4, <1>5, <1>6, <2>1, DatabaseStays
<1>8. Stays(x)
  <2>1. CollectionsOnDisk(x) = NoCollections
        BY <1>4 DEF CollectionsOnDisk
  <2>2. Content[x] = NoCollections
        BY <1>1, <1>3, <1>4, <2>1 DEF Mapped, Contents, CatalogsInv, Agreed
  <2>3. Content'[x] = NoCollections
        BY <1>1, <1>3, <1>4, <1>5, <1>6, <2>1 DEF Mapped, Contents
  <2>4. QED
        BY <1>1, <1>4, <1>5, <2>2, <2>3 DEF Mapped, Contents, Stays
<1>9. \A m \in DOMAIN Content[System] \ {x} : Content'[System][m] = Content[System][m]
      BY <1>1, <1>3 DEF Mapped, Systems, Entries, NamesIn
<1>10. x \in DOMAIN Content[System] /\ OnDisk(System)' = OnDisk(System) /\ System \in Catalog
       BY <1>1, <1>4, <1>5 DEF Mapped, Systems, Entries, Catalog
<1>11. \A c \in Catalog \ {System} : Stays(c)
       BY <1>7, <1>8 DEF Catalog
<1>12. QED
       BY <1>1, <1>9, <1>10, <1>11, Changes

\* An entry of the database in use changes, and its catalog is to be saved.
LEMMA EntrySteps ==
    ASSUME CatalogsInv, CatalogsInv', up, Settled, inUse # None, NEW c \in Cols, NEW e, SetEntry(c, e),
           todo' # <<>>, Head(todo') = Save(inUse),
           UNCHANGED <<databases, systemFile, databaseFile, up>>
    PROVE  Store!Next
<1>0. PICK u : u = inUse
      OBVIOUS
<1>1. Mapped /\ Mapped'
      BY Maps, MapsLater
<1>2. u \in Dbs /\ u \in databases /\ u \in Catalog /\ u # System
      BY <1>0, InUseStays, CatalogsAssumption DEF Catalog
<1>3. DatabasesOnDisk' = DatabasesOnDisk /\ \A d : CollectionsOnDisk(d)' = CollectionsOnDisk(d)
      BY FilesStay
<1>4. \A d : ~Erasing(d) /\ ~Erasing(d)'
      BY <1>1, SettledAgrees, Tasks DEF Mapped, Outs
<1>5. /\ \A d \in Dbs \ {u} : collections'[d] = collections[d]
      /\ \A b \in Cols \ {c} : collections'[u][b] = collections[u][b]
  <2>1. collections = [d \in Dbs |-> collections[d]] /\ collections[u] = [b \in Cols |-> collections[u][b]]
        BY <1>2 DEF CatalogsInv, StateOK, CatalogOK
  <2>2. collections' = [collections EXCEPT ![u] = [collections[u] EXCEPT ![c] = e]]
        BY <1>0 DEF SetEntry
  <2>3. QED
        BY <1>2, <2>1, <2>2
<1>6. \A b \in Catalog \ {u} : Stays(b)
      BY <1>1, <1>3, <1>4, <1>5, SystemStays, DatabaseStays DEF Catalog
<1>7. /\ c \in DOMAIN Content[u]
      /\ \A m \in DOMAIN Content[u] \ {c} : Content'[u][m] = Content[u][m]
      BY <1>1, <1>2, <1>4, <1>5 DEF Mapped, Contents, Entries
<1>8. OnDisk(u)' = OnDisk(u)
      BY <1>1, <1>2, <1>3 DEF Mapped, Contents
<1>9. QED
      BY <1>1, <1>2, <1>6, <1>7, <1>8, Changes

LEMMA AddsSteps ==
    ASSUME CatalogsInv, CatalogsInv', Adds
    PROVE  UNCHANGED <<Content, Found>> \/ Store!Next
<1>1. /\ up /\ todo # <<>> /\ Head(todo).task = "add" /\ Settled /\ Lives
      BY DEF Adds, At, Settled
<1>2. inUse \in Dbs /\ inUse # None /\ Head(todo).name \in Cols
      BY <1>1, FirstTask DEF TaskOK, OnCollections, Named
<1>3. CASE Throws /\ UNCHANGED uids
      BY <1>1, <1>3, QuietSteps DEF Throws, memory, disk, Lives
<1>4. CASE \E e : /\ SetEntry(Head(todo).name, e)
                  /\ Then(<<Save(inUse)>>)
                  /\ UNCHANGED <<databases, inUse, schemaCache, systemFile, databaseFile, schemaFile>>
  <2>1. PICK e : /\ SetEntry(Head(todo).name, e)
                 /\ Then(<<Save(inUse)>>)
                 /\ UNCHANGED <<databases, inUse, schemaCache, systemFile, databaseFile, schemaFile>>
        BY <1>4
  <2>2. Plain(Save(inUse), inUse)
        BY <1>2, PlainTasks
  <2>3. Ordered(<<Save(inUse)>>, inUse)
        BY <2>2, OrderedTuples
  <2>4. <<Save(inUse)>> \in Seq({Save(inUse)}) /\ <<Save(inUse)>> # <<>> /\ <<Save(inUse)>>[1] = Save(inUse)
        BY Tuples
  <2>5. todo' # <<>> /\ Head(todo') = Save(inUse)
        BY <1>1, <2>1, <2>3, <2>4, PutInFront DEF CatalogsInv
  <2>6. QED
        BY <1>1, <1>2, <2>1, <2>5, EntrySteps DEF Lives
<1>5. QED
      BY <1>3, <1>4, Zenon DEF Adds

LEMMA ErasesSteps ==
    ASSUME CatalogsInv, CatalogsInv', Erases
    PROVE  Store!Next
<1>1. /\ up /\ todo # <<>> /\ Head(todo).task = "erase" /\ Settled /\ Then(<<>>)
      /\ SetEntry(Head(todo).name, NoEntry)
      /\ UNCHANGED <<databases, inUse, systemFile, databaseFile, up>>
      BY DEF Erases, At, Settled, disk, Lives
<1>2. inUse # None /\ Head(todo).name \in Cols
      BY <1>1, FirstTask DEF TaskOK, OnCollections, Named
<1>3. todo' # <<>> /\ Head(todo') = Save(inUse)
      BY <1>1, TailGoesOn, TailOrdered DEF CatalogsInv
<1>4. QED
      BY <1>1, <1>2, <1>3, EntrySteps

LEMMA BindsSteps ==
    ASSUME CatalogsInv, CatalogsInv', Binds
    PROVE  UNCHANGED <<Content, Found>> \/ Store!Next
<1>1. /\ up /\ todo # <<>> /\ Head(todo).task = "bind" /\ Settled /\ Then(<<>>)
      /\ UNCHANGED <<databases, inUse, systemFile, databaseFile, up>>
      BY DEF Binds, At, Settled, disk, Lives
<1>2. inUse # None /\ Head(todo).name \in Cols
      BY <1>1, FirstTask DEF TaskOK, OnCollections, Named
<1>3. todo' # <<>> /\ Head(todo') = Save(inUse)
      BY <1>1, TailGoesOn, TailOrdered DEF CatalogsInv
<1>4. CASE UNCHANGED collections
      BY <1>1, <1>4, QuietSteps
<1>5. CASE \E e : SetEntry(Head(todo).name, e)
      BY <1>1, <1>2, <1>3, <1>5, EntrySteps
<1>6. QED
      BY <1>4, <1>5, Zenon DEF Binds

\* Every other step leaves catalogs and files alone.
OtherSteps ==
    \/ Dies \/ Start \/ Saves \/ Writes
    \/ (\E d \in Dbs : CreateDatabase(d)) \/ RemovesHome \/ ErasesDatabase
    \/ Adds \/ Erases \/ Binds

Quiet == Settled /\ UNCHANGED <<databases, collections, systemFile, databaseFile, up>>

LEMMA QuietElsewhere ==
    ASSUME Next
    PROVE  OtherSteps \/ Quiet
<1>1. Process => OtherSteps \/ Quiet
      BY DEF Process, OtherSteps, Quiet, Crash, Exit, ExitEnds, SavesManagers, SavesSchemas, Settled, Ready, At,
             memory, disk, Lives
<1>2. Databases => OtherSteps \/ Quiet
      BY DEF Databases, OtherSteps, Quiet, DropDatabase, UseDatabase, Settled, Ready, At, memory, disk, Lives
<1>3. SchemaQueries => OtherSteps \/ Quiet
      BY DEF SchemaQueries, OtherSteps, Quiet, DefineSchema, SavesSchema, WritesSchema, CachesSchema,
             Settled, Ready, At, memory, disk, Lives
<1>4. ASSUME Collections
      PROVE  OtherSteps \/ Quiet
  <2>1. ASSUME NEW c \in Cols, NEW s \in Schemas, CreateBlended(c, s)
        PROVE  Dies \/ Quiet
    <3>1. /\ Ready
          /\ \/ Dies
             \/ UNCHANGED <<databases, inUse, collections, disk, uids>> /\ Lives
          BY <2>1, Zenon DEF CreateBlended
    <3>2. QED
          BY <3>1 DEF Quiet, Settled, Ready, disk, Lives
  <2>2. Creates \/ Drops \/ DropsRest \/ AddsNested => Dies \/ Quiet
        BY DEF Creates, Drops, DropsRest, AddsNested, Throws, Quiet, Settled, At, memory, disk, Lives
  <2>3. DropsBound \/ Resolves \/ Removes => Dies \/ Quiet
        BY DEF DropsBound, Resolves, Removes, Quiet, Settled, At, memory, disk, Lives
  <2>4. \A c, s, bindings : CreateCollection(c, s, bindings) => Quiet
        BY DEF CreateCollection, Quiet, Settled, Ready, memory, disk, Lives
  <2>5. /\ \A c, x : DropCollection(c, x) => Quiet
        /\ \A c, f, to, x : Rebind(c, f, to, x) => Quiet
        /\ \A c, f : InsertNested(c, f) => Quiet
        BY DEF DropCollection, Rebind, InsertNested, Quiet, Settled, Ready, memory, disk, Lives
  <2>6. QED
        BY <1>4, <2>1, <2>2, <2>3, <2>4, <2>5, Zenon DEF Collections, OtherSteps
<1>5. QED
      BY <1>1, <1>2, <1>3, <1>4 DEF Next

LEMMA StoreSteps ==
    ASSUME CatalogsInv, CatalogsInv', Next
    PROVE  UNCHANGED <<Content, Found>> \/ Store!Next
<1>1. CASE Quiet
      BY <1>1, QuietSteps DEF Quiet
<1>2. CASE OtherSteps
      BY <1>2, DiesSteps, StartSteps, SavesSteps, WritesSteps, CreateDatabaseSteps, RemovesHomeSteps,
         ErasesDatabaseSteps, AddsSteps, ErasesSteps, BindsSteps DEF OtherSteps
<1>3. QED
      BY <1>1, <1>2, QuietElsewhere

LEMMA StoreStutters ==
    ASSUME CatalogsInv, CatalogsInv', UNCHANGED vars
    PROVE  UNCHANGED <<Content, Found>>
<1>1. Mapped /\ Mapped'
      BY Maps, MapsLater
<1>2. UNCHANGED <<databases, collections, systemFile, databaseFile, todo, up>>
      BY DEF vars, memory, disk
<1>3. DatabasesOnDisk' = DatabasesOnDisk /\ \A d : CollectionsOnDisk(d)' = CollectionsOnDisk(d)
      BY <1>2, FilesStay
<1>4. \A d : Erasing(d)' <=> Erasing(d)
      BY <1>2 DEF Erasing
<1>5. \A c \in Catalog : Stays(c)
      BY <1>1, <1>2, <1>3, <1>4, SystemStays, DatabaseStays DEF Catalog
<1>6. QED
      BY <1>1, <1>5, Stutters

LEMMA StoreInit ==
    ASSUME CatalogsInv, Init
    PROVE  Store!Init
<1>1. Mapped
      BY Maps
<1>2. /\ databases = {} /\ todo = <<>> /\ ~up /\ systemFile = Missing
      /\ databaseFile = [d \in Dbs |-> Missing]
      BY DEF Init
<1>3. DatabasesOnDisk = {} /\ \A d \in Dbs : CollectionsOnDisk(d) = NoCollections
      BY <1>2 DEF DatabasesOnDisk, CollectionsOnDisk
<1>4. Content[System] = NamesIn({}) /\ OnDisk(System) = NamesIn({})
      BY <1>1, <1>2, <1>3 DEF Mapped, Systems
<1>5. \A d \in Dbs : Content[d] = NoCollections /\ OnDisk(d) = NoCollections
      BY <1>1, <1>2, <1>3 DEF Mapped, Contents
<1>6. /\ \A c \in Catalog : Store!IsEmpty(Content[c])
      /\ \A c \in Catalog : Found[c] = {Content[c]}
      BY <1>1, <1>4, <1>5 DEF Mapped, Founds, Catalog, NamesIn, NoCollections, Store!IsEmpty
<1>7. Found = [c \in DOMAIN Content |-> {Content[c]}]
  <2>1. Found = [c \in Catalog |-> Found[c]]
        BY DEF Found, Catalog
  <2>2. DOMAIN Content = Catalog
        BY <1>1 DEF Mapped, Entries
  <2>3. QED
        BY <1>6, <2>1, <2>2
<1>8. QED
      BY <1>1, <1>6, <1>7 DEF Store!Init, Mapped, Entries

\* A start finds every catalog as it was last saved, or, when the process ended
\* during a save, as it was before it, as it is after it, or empty; entries are
\* added, changed and removed one at a time, and a database that is dropped is
\* empty at once (CatalogManager: saveConfigs and loadConfigs).
THEOREM CatalogsAreAStore == Spec => ImplementsStore
<1>1. Init => Store!Init
      BY InitKeeps, StoreInit
<1>2. CatalogsInv /\ CatalogsInv' /\ [Next]_vars => [Store!Next]_(Store!store)
  <2>1. ASSUME CatalogsInv, CatalogsInv', [Next]_vars
        PROVE  UNCHANGED <<Content, Found>> \/ Store!Next
        BY <2>1, StoreSteps, StoreStutters
  <2>2. QED
        BY <2>1 DEF Store!store
<1>3. QED
      BY <1>1, <1>2, CatalogsInvariant, PTL DEF Spec, ImplementsStore, Store!Spec
=============================================================================
