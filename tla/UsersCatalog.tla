---------------------------- MODULE UsersCatalog ----------------------------
(***************************************************************************)
(* Celestial's users catalog: the names and the users it keeps in memory,  *)
(* the file of names usernames.db and one file per user, with the queries  *)
(* that change them (UserExecutor, GrantExecutor, RevokeExecutor), the     *)
(* login (AuthExecutor) and the permission check of the CLI.  Each file is *)
(* truncated and then written; the process may end between any two steps. *)
(***************************************************************************)
EXTENDS Naturals, Sequences

CONSTANTS
    Names,      \* user names other than root
    Uids,       \* unique ids of users
    Passwords,  \* passwords that users are given
    Perms,      \* permissions: a kind of query on a collection of a database
    Root,       \* the user root
    None,       \* no user, uid or name
    Missing,    \* a file that does not exist
    Torn,       \* a file of length zero
    Blank,      \* the name and the password read from a torn file
    Garbled,    \* a name and a password deciphered with another key
    MaxStarts   \* bound: starts of the process

ASSUME UsersCatalogAssumption ==
    /\ Names # {}
    /\ Root \notin Names
    /\ None \notin Names \cup Uids \cup {Root}
    /\ {Blank, Garbled} \cap (Names \cup Passwords \cup {None}) = {}
    /\ Blank # Garbled
    /\ Missing # Torn /\ {Missing, Torn} \cap (Names \cup {Garbled}) = {}
    /\ {Missing, Torn} \cap [Names -> Uids \cup {None}] = {}
    /\ MaxStarts \in Nat

User(n, p, perms) == [name |-> n, password |-> p, permissions |-> perms]

\* Users as they are written; a user loaded with another key than it was saved
\* with, whose uid and permissions are not enciphered; and the user loaded from
\* a torn file: nothing of it is read, so it has no uid of its own and what is
\* granted to it later is saved to another file.
WholeUsers   == [name : Names, password : Passwords, permissions : SUBSET Perms]
GarbledUsers == [name : {Garbled}, password : Passwords \cup {Garbled}, permissions : SUBSET Perms]
SavedUsers   == WholeUsers \cup GarbledUsers
BlankUsers   == [name : {Blank}, password : Passwords \cup {Blank}, permissions : SUBSET Perms]

NoUser  == [name |-> None]
NoFile  == [name |-> Missing]
NoBytes == [name |-> Torn]

VARIABLES
    names,      \* m_name_to_uid, None for a name that is not in it
    cache,      \* m_uid_to_config_cache, NoUser for a uid that is not in it
    namesFile,  \* usernames.db: Missing, Torn or a map like names
    userFile,   \* userFile[u]: the file of u
    used,       \* uids that were generated
    current,    \* the user of the session
    op,         \* the change under way
    up,         \* whether the process runs
    starts      \* starts so far

vars == <<names, cache, namesFile, userFile, used, current, op, up, starts>>

NoNames == [n \in Names |-> None]
NoCache == [u \in Uids |-> NoUser]

\* The files still to write, in order: the first of steps is next.
Steps == {<<>>, <<"unlink", "names">>, <<"user", "names">>, <<"user">>, <<"names">>}

NoOp == [kind |-> "none", name |-> None, uid |-> None, steps |-> <<>>, open |-> FALSE, perms |-> {}]

Ops == [kind  : {"none", "create", "remove", "password", "grant", "revoke", "exit"},
        name  : Names \cup {None},
        uid   : Uids \cup {None},
        steps : Steps,
        open  : BOOLEAN,        \* the file of the first step is truncated
        perms : SUBSET Perms]   \* permissions still to grant or revoke

TypeOK ==
    /\ names \in [Names -> Uids \cup {None}]
    /\ cache \in [Uids -> SavedUsers \cup BlankUsers \cup {NoUser}]
    /\ namesFile \in [Names -> Uids \cup {None}] \cup {Missing, Torn}
    /\ userFile \in [Uids -> SavedUsers \cup {NoFile, NoBytes}]
    /\ used \subseteq Uids
    /\ current \in Names \cup {Root, None}
    /\ op \in Ops
    /\ up \in BOOLEAN
    /\ starts \in Nat

Init ==
    /\ names = NoNames
    /\ cache = NoCache
    /\ namesFile = Missing
    /\ userFile = [u \in Uids |-> NoFile]
    /\ used = {}
    /\ current = None
    /\ op = NoOp
    /\ up = FALSE
    /\ starts = 0

-----------------------------------------------------------------------------
(* Reading. *)

\* loadFromDisk: no file, and a torn one, hold no names.
NamesOnDisk == IF namesFile \in {Missing, Torn} THEN NoNames ELSE namesFile

\* decrypt, of a file that another process wrote.  The cipher reads 32 bytes of
\* a key of 16, or of none in the process that generates it, so two processes
\* need not have the same key: the name and the password come back or not.
\* That two wrong keys in turn give back what was saved is left out.
Deciphered(user) == {user, [user EXCEPT !.name = Garbled, !.password = Garbled]}

\* loadUserFromDisk: a torn file yields a user without a name, with an empty
\* password and no permission.
Loads(file) == IF file = NoBytes THEN {User(Blank, Blank, {})} ELSE Deciphered(file)

\* getUserFromUID: from the cache, otherwise from the file, which must exist.
UsersOf(u)  == IF cache[u] # NoUser THEN {cache[u]} ELSE Loads(userFile[u])
Findable(u) == cache[u] # NoUser \/ userFile[u] # NoFile

\* The catalog takes a query: the process runs and has no file to write.
Ready == up /\ op = NoOp

-----------------------------------------------------------------------------
(* The life of the process. *)

\* init() reads the names, or saves an empty map when there is no file; users
\* are read when they are first asked for.  The Server's user is root from the
\* start, the CLI asks for a user first.
Start(who) ==
    /\ ~up
    /\ starts < MaxStarts
    /\ who \in {Root, None}
    /\ names' = NamesOnDisk
    /\ namesFile' = IF namesFile = Missing THEN NoNames ELSE namesFile
    /\ cache' = NoCache
    /\ current' = who
    /\ up' = TRUE
    /\ starts' = starts + 1
    /\ UNCHANGED <<userFile, used, op>>

Stopped ==
    /\ up' = FALSE
    /\ names' = NoNames
    /\ cache' = NoCache
    /\ current' = None
    /\ op' = NoOp
    /\ UNCHANGED <<namesFile, userFile, used, starts>>

Crash == up /\ Stopped

\* The end of main, also after a failed login: the destructor saves the names.
Exit ==
    /\ Ready
    /\ op' = [NoOp EXCEPT !.kind = "exit", !.steps = <<"names">>]
    /\ UNCHANGED <<names, cache, namesFile, userFile, used, current, up, starts>>

-----------------------------------------------------------------------------
(* Sessions. *)

\* Mutant: queries on users left to the permission check that knows no user.
MayAdministerAll == current # None

\* after_parsing: queries on users and permissions are for root only.
MayAdminister == current = Root

\* authenticateUser with the right password, then setCurrentUser.
LoginUser(n) ==
    /\ Ready
    /\ names[n] # None
    /\ Findable(names[n])
    /\ \E user \in UsersOf(names[n]) : cache' = [cache EXCEPT ![names[n]] = user]
    /\ current' = n
    /\ UNCHANGED <<names, namesFile, userFile, used, op, up, starts>>

LoginRoot ==
    /\ Ready
    /\ current' = Root
    /\ UNCHANGED <<names, cache, namesFile, userFile, used, op, up, starts>>

\* A wrong password, or the permission check of another query: the user is
\* read into the cache and nothing else happens.
LooksUp(n) ==
    /\ Ready
    /\ names[n] # None
    /\ Findable(names[n])
    /\ \E user \in UsersOf(names[n]) : cache' = [cache EXCEPT ![names[n]] = user]
    /\ UNCHANGED <<names, namesFile, userFile, used, current, op, up, starts>>

-----------------------------------------------------------------------------
(* Changes: memory first, then the files. *)

Administers == Ready /\ MayAdminister

\* Mutant: the names are saved before the user.
CreateUserNamesFirst(n, p, u) ==
    /\ Administers
    /\ names[n] = None
    /\ u \notin used
    /\ used' = used \cup {u}
    /\ names' = [names EXCEPT ![n] = u]
    /\ cache' = [cache EXCEPT ![u] = User(n, p, {})]
    /\ op' = [NoOp EXCEPT !.kind = "create", !.name = n, !.uid = u, !.steps = <<"names", "user">>]
    /\ UNCHANGED <<namesFile, userFile, current, up, starts>>

\* createUser
CreateUser(n, p, u) ==
    /\ Administers
    /\ names[n] = None
    /\ u \notin used
    /\ used' = used \cup {u}
    /\ names' = [names EXCEPT ![n] = u]
    /\ cache' = [cache EXCEPT ![u] = User(n, p, {})]
    /\ op' = [NoOp EXCEPT !.kind = "create", !.name = n, !.uid = u, !.steps = <<"user", "names">>]
    /\ UNCHANGED <<namesFile, userFile, current, up, starts>>

\* Mutant: the user stays in the cache.
RemoveUserCached(n) ==
    /\ Administers
    /\ names[n] # None
    /\ Findable(names[n])
    /\ names' = [names EXCEPT ![n] = None]
    /\ op' = [NoOp EXCEPT !.kind = "remove", !.name = n, !.uid = names[n], !.steps = <<"unlink", "names">>]
    /\ UNCHANGED <<cache, namesFile, userFile, used, current, up, starts>>

\* removeUser.  The name to erase is read from the cache entry that was erased
\* just before: the name it held, or what has overwritten it by then.  A blank
\* or garbled user has no name to erase in any case.
RemoveUser(n) ==
    /\ Administers
    /\ names[n] # None
    /\ LET u == names[n] IN
       /\ Findable(u)
       /\ cache' = [cache EXCEPT ![u] = NoUser]
       /\ \/ \E user \in UsersOf(u) : user.name = n /\ names' = [names EXCEPT ![n] = None]
          \/ UNCHANGED names
       /\ op' = [NoOp EXCEPT !.kind = "remove", !.name = n, !.uid = u, !.steps = <<"unlink", "names">>]
    /\ UNCHANGED <<namesFile, userFile, used, current, up, starts>>

\* saveUserToDisk writes to the path of the user's own uid, which a blank user
\* does not have: its own file stays as it is.
SaveUser(user) == IF user.name = Blank THEN <<>> ELSE <<"user">>

\* updatePassword, which no query calls.
UpdatePassword(n, p) ==
    /\ Ready
    /\ names[n] # None
    /\ LET u == names[n] IN
       /\ Findable(u)
       /\ \E user \in UsersOf(u) :
             /\ cache' = [cache EXCEPT ![u] = [user EXCEPT !.password = p]]
             /\ op' = [NoOp EXCEPT !.kind = "password", !.name = n, !.uid = u, !.steps = SaveUser(user)]
    /\ UNCHANGED <<names, namesFile, userFile, used, current, up, starts>>

\* The executors of grant and revoke take the permissions one by one, ...
BeginPermissions(kind, n, perms) ==
    /\ Administers
    /\ names[n] # None
    /\ perms # {}
    /\ op' = [NoOp EXCEPT !.kind = kind, !.name = n, !.uid = names[n], !.perms = perms]
    /\ UNCHANGED <<names, cache, namesFile, userFile, used, current, up, starts>>

Updated(kind, user, p) ==
    [user EXCEPT !.permissions = IF kind = "grant" THEN @ \cup {p} ELSE @ \ {p}]

\* ... updatePermission changes the user in memory and saves it.
UpdatePermission(p) ==
    /\ up
    /\ op.kind \in {"grant", "revoke"} /\ op.steps = <<>> /\ p \in op.perms
    /\ Findable(op.uid)
    /\ \E user \in UsersOf(op.uid) :
          /\ cache' = [cache EXCEPT ![op.uid] = Updated(op.kind, user, p)]
          /\ op' = [op EXCEPT !.perms = @ \ {p}, !.steps = SaveUser(user)]
    /\ UNCHANGED <<names, namesFile, userFile, used, current, up, starts>>

\* The user is not there: the query ends with an exception.
PermissionFails ==
    /\ up
    /\ op.kind \in {"grant", "revoke"} /\ op.steps = <<>>
    /\ ~Findable(op.uid)
    /\ op' = NoOp
    /\ UNCHANGED <<names, cache, namesFile, userFile, used, current, up, starts>>

-----------------------------------------------------------------------------
(* Files. *)

\* The first of the steps left, with its file truncated or not yet.
AtStep(step, open) == up /\ op.steps # <<>> /\ Head(op.steps) = step /\ op.open = open

Opens    == op' = [op EXCEPT !.open = TRUE]
StepDone == op' = [op EXCEPT !.open = FALSE, !.steps = Tail(@)]

\* saveUserToDisk
TruncatesUser ==
    /\ AtStep("user", FALSE)
    /\ userFile' = [userFile EXCEPT ![op.uid] = NoBytes]
    /\ Opens
    /\ UNCHANGED <<names, cache, namesFile, used, current, up, starts>>

WritesUser ==
    /\ AtStep("user", TRUE)
    /\ userFile' = [userFile EXCEPT ![op.uid] = cache[op.uid]]
    /\ StepDone
    /\ UNCHANGED <<names, cache, namesFile, used, current, up, starts>>

UnlinksUser ==
    /\ AtStep("unlink", FALSE)
    /\ userFile' = [userFile EXCEPT ![op.uid] = NoFile]
    /\ StepDone
    /\ UNCHANGED <<names, cache, namesFile, used, current, up, starts>>

\* saveUserNamesToDisk
TruncatesNames ==
    /\ AtStep("names", FALSE)
    /\ namesFile' = Torn
    /\ Opens
    /\ UNCHANGED <<names, cache, userFile, used, current, up, starts>>

WritesNames ==
    /\ AtStep("names", TRUE)
    /\ namesFile' = names
    /\ StepDone
    /\ UNCHANGED <<names, cache, userFile, used, current, up, starts>>

ChangeEnds ==
    /\ up /\ op.kind \notin {"none", "exit"}
    /\ op.steps = <<>> /\ op.perms = {}
    /\ op' = NoOp
    /\ UNCHANGED <<names, cache, namesFile, userFile, used, current, up, starts>>

ExitEnds ==
    /\ op.kind = "exit" /\ op.steps = <<>>
    /\ Stopped

-----------------------------------------------------------------------------
Session ==
    \/ \E who \in {Root, None} : Start(who)
    \/ Exit \/ LoginRoot
    \/ \E n \in Names : LoginUser(n) \/ LooksUp(n)

Administer ==
    \/ \E n \in Names :
          \/ \E p \in Passwords : UpdatePassword(n, p) \/ \E u \in Uids : CreateUser(n, p, u)
          \/ RemoveUser(n)
          \/ \E kind \in {"grant", "revoke"}, perms \in SUBSET Perms : BeginPermissions(kind, n, perms)
    \/ \E p \in Perms : UpdatePermission(p)
    \/ PermissionFails

Save ==
    \/ TruncatesUser \/ WritesUser \/ UnlinksUser
    \/ TruncatesNames \/ WritesNames
    \/ ChangeEnds \/ ExitEnds

Next == Session \/ Administer \/ Save \/ Crash

Spec == Init /\ [][Next]_vars

-----------------------------------------------------------------------------
(* What holds besides TypeOK. *)

\* No user has two names, in memory or on disk, and no name a uid that was
\* never generated.
OneName(map) ==
    /\ \A n \in Names : map[n] # None => map[n] \in used
    /\ \A n, m \in Names : map[n] = map[m] /\ map[n] # None => n = m

\* A user read under a name is the user that was created with it.
OwnName ==
    \A n \in Names, u \in Uids : u \in {names[n], NamesOnDisk[n]} =>
        /\ cache[u] # NoUser => cache[u].name \in {n, Garbled, Blank}
        /\ userFile[u] \in {NoFile, NoBytes} \/ userFile[u].name \in {n, Garbled}

\* Nothing is kept in memory without a process.
WhileDown == ~up => names = NoNames /\ cache = NoCache /\ current = None /\ op = NoOp

\* A uid that was not generated names no user and no file.
NewUids == \A u \in Uids \ used : cache[u] = NoUser /\ userFile[u] = NoFile

SavesUser   == op.steps \in {<<"user", "names">>, <<"user">>}
RemovesUser == op.steps = <<"unlink", "names">>
SavesNames  == op.steps \in {<<"unlink", "names">>, <<"user", "names">>, <<"names">>}

\* What is to be saved is in the cache, what is to be unlinked is not.
SaveSteps ==
    /\ op.kind \notin {"none", "exit"} => op.name \in Names /\ op.uid \in Uids
    /\ SavesUser => op.uid \in Uids /\ cache[op.uid] \in SavedUsers
    /\ RemovesUser => op.uid \in Uids /\ cache[op.uid] = NoUser

\* The files say what memory says, but for what is left to write: a user in
\* the cache is one that its file can be read as, or is blank and its file torn.
FilesAgree ==
    up => /\ SavesNames \/ NamesOnDisk = names
          /\ \A u \in Uids : cache[u] # NoUser /\ ~(SavesUser /\ u = op.uid) =>
                IF cache[u].name = Blank THEN userFile[u] = NoBytes
                ELSE userFile[u] \notin {NoFile, NoBytes} /\ cache[u] \in Deciphered(userFile[u])

\* Names, users and their files stay together through every query, failure,
\* exit and crash (createUser, removeUser, saveUserToDisk, saveUserNamesToDisk).
UsersInv ==
    /\ TypeOK
    /\ OneName(names) /\ OneName(NamesOnDisk)
    /\ OwnName
    /\ WhileDown /\ NewUids
    /\ SaveSteps
    /\ FilesAgree

\* A session of an ordinary user is never left without its user: only root
\* removes users, and root's session is not theirs (after_parsing, removeUser).
SessionHasUser == current \in Names => names[current] # None

\* A user that is removed is removed from memory, its name included, so that
\* the name can be given again (removeUser, "2. Remove user from internal data").
RemovedNameIsFree == op.kind = "remove" => names[op.name] = None

=============================================================================
