---------------------------- MODULE UsersProofs -----------------------------
(***************************************************************************)
(* Names, users and their files stay together: UsersInv is inductive, and  *)
(* a session never loses its user.  The users catalog implements the       *)
(* directory of UserDirectory: initial states map to initial states, every *)
(* step to a step or a stutter.                                            *)
(***************************************************************************)
EXTENDS UsersDirectory, TLAPS

(* Users, files and steps. *)

\* Users that were saved, blank users, and what stands for none of them are
\* told apart by their names.
LEMMA Kinds ==
    /\ \A x \in SavedUsers : /\ x.name \in Names \cup {Garbled} /\ x.name # Blank
                             /\ x \notin BlankUsers
                             /\ x # NoUser /\ x # NoFile /\ x # NoBytes
    /\ \A x \in WholeUsers : x \in SavedUsers /\ x.name \in Names /\ x.name # Garbled
    /\ \A x \in SavedUsers \ WholeUsers : x.name = Garbled
    /\ \A x \in BlankUsers : x.name = Blank /\ x # NoUser
    /\ NoFile # NoBytes
    /\ Loads(NoBytes) = {User(Blank, Blank, {})} /\ User(Blank, Blank, {}) \in BlankUsers
    /\ \A x \in SavedUsers : Loads(x) = Deciphered(x)
<1>1. \A x \in WholeUsers : x.name \in Names
      BY DEF WholeUsers
<1>2. \A x \in BlankUsers : x.name = Blank
      BY DEF BlankUsers
<1>3. \A x \in GarbledUsers : x.name = Garbled
      BY DEF GarbledUsers
<1>4. NoUser.name = None /\ NoFile.name = Missing /\ NoBytes.name = Torn
      BY DEF NoUser, NoFile, NoBytes
<1>5. /\ Blank \notin Names /\ Blank # None /\ None \notin Names
      /\ Missing \notin Names /\ Torn \notin Names /\ Missing # Torn
      /\ Garbled \notin Names /\ Garbled # None /\ Garbled # Blank
      /\ Garbled # Missing /\ Garbled # Torn
      BY UsersCatalogAssumption
<1>6. \A x \in SavedUsers : x.name \in Names \cup {Garbled}
      BY <1>1, <1>3 DEF SavedUsers
<1>7. Loads(NoBytes) = {User(Blank, Blank, {})} /\ User(Blank, Blank, {}) \in BlankUsers
      BY DEF Loads, User, BlankUsers
<1>8. \A x \in SavedUsers : x # NoBytes /\ Loads(x) = Deciphered(x)
      BY <1>4, <1>5, <1>6 DEF Loads
<1>9. /\ \A x \in WholeUsers : x \in SavedUsers /\ x.name # Garbled
      /\ \A x \in SavedUsers \ WholeUsers : x.name = Garbled
      BY <1>1, <1>3, <1>5 DEF SavedUsers
<1>10. \A x \in SavedUsers : /\ x.name # Blank /\ x \notin BlankUsers
                             /\ x # NoUser /\ x # NoFile
      BY <1>2, <1>4, <1>5, <1>6
<1>11. \A x \in BlankUsers : x # NoUser
      BY <1>2, <1>4, <1>5
<1>12. NoFile # NoBytes
      BY <1>4, <1>5
<1>13. QED
      BY <1>1, <1>2, <1>6, <1>7, <1>8, <1>9, <1>10, <1>11, <1>12

\* A user that was saved is deciphered as it was, or with its name and its
\* password garbled.
LEMMA Ciphers ==
    ASSUME NEW x \in SavedUsers, NEW y \in Deciphered(x)
    PROVE  y \in SavedUsers /\ y.name \in {x.name, Garbled} /\ (y = x \/ y.name = Garbled)
<1>1. [x EXCEPT !.name = Garbled, !.password = Garbled] \in GarbledUsers
      BY DEF SavedUsers, WholeUsers, GarbledUsers
<1>2. [x EXCEPT !.name = Garbled, !.password = Garbled].name = Garbled
      BY <1>1 DEF GarbledUsers
<1>3. QED
      BY <1>1, <1>2 DEF Deciphered, SavedUsers

\* What the queries make of a user.
LEMMA Changes ==
    /\ \A n \in Names, p \in Passwords :
          User(n, p, {}) \in WholeUsers /\ User(n, p, {}).name = n
    /\ \A x \in SavedUsers \cup BlankUsers, p \in Passwords :
          /\ [x EXCEPT !.password = p] \in SavedUsers \cup BlankUsers
          /\ [x EXCEPT !.password = p].name = x.name
    /\ \A kind : \A x \in SavedUsers \cup BlankUsers, p \in Perms :
          /\ Updated(kind, x, p) \in SavedUsers \cup BlankUsers
          /\ Updated(kind, x, p).name = x.name
<1>1. \A n \in Names, p \in Passwords : User(n, p, {}) \in WholeUsers /\ User(n, p, {}).name = n
      BY DEF User, WholeUsers
<1>2. \A x \in SavedUsers \cup BlankUsers, p \in Passwords :
         /\ [x EXCEPT !.password = p] \in SavedUsers \cup BlankUsers
         /\ [x EXCEPT !.password = p].name = x.name
      BY DEF SavedUsers, WholeUsers, GarbledUsers, BlankUsers
<1>3. ASSUME NEW x \in SavedUsers \cup BlankUsers, NEW kind, NEW p \in Perms
      PROVE  /\ Updated(kind, x, p) \in SavedUsers \cup BlankUsers
             /\ Updated(kind, x, p).name = x.name
      BY DEF Updated, SavedUsers, WholeUsers, GarbledUsers, BlankUsers
<1>4. QED
      BY <1>1, <1>2, <1>3, Zenon

\* The steps of a save.
LEMMA StepsOf ==
    /\ Head(<<"user", "names">>) = "user"     /\ Tail(<<"user", "names">>) = <<"names">>
    /\ Head(<<"unlink", "names">>) = "unlink" /\ Tail(<<"unlink", "names">>) = <<"names">>
    /\ Head(<<"user">>) = "user"              /\ Tail(<<"user">>) = <<>>
    /\ Head(<<"names">>) = "names"            /\ Tail(<<"names">>) = <<>>
    /\ <<"user", "names">> # <<>> /\ <<"unlink", "names">> # <<>> /\ <<"user">> # <<>>
    /\ <<"names">> # <<>>
    /\ <<"user", "names">> # <<"unlink", "names">> /\ <<"user">> # <<"names">>
    /\ <<"user", "names">> # <<"names">> /\ <<"unlink", "names">> # <<"names">>
    /\ <<"user", "names">> # <<"user">> /\ <<"unlink", "names">> # <<"user">>
OBVIOUS

-----------------------------------------------------------------------------
(* Reading. *)

\* The names on disk are a map of names, as those in memory.
LEMMA DiskTypes ==
    ASSUME TypeOK
    PROVE  /\ NamesOnDisk \in [Names -> Uids \cup {None}]
           /\ NoNames \in [Names -> Uids \cup {None}]
           /\ NoCache \in [Uids -> SavedUsers \cup BlankUsers \cup {NoUser}]
BY DEF TypeOK, NamesOnDisk, NoNames, NoCache

\* A user that is found was generated, and was saved or is blank; it is blank
\* when its file is torn, and otherwise what its file can be read as.
LEMMA Reads ==
    ASSUME UsersInv, up, op.steps = <<>>, NEW u \in Uids, Findable(u), NEW x \in UsersOf(u)
    PROVE  /\ x \in SavedUsers \cup BlankUsers
           /\ u \in used
           /\ IF x.name = Blank THEN userFile[u] = NoBytes
              ELSE userFile[u] \in SavedUsers /\ x \in Deciphered(userFile[u])
<1>1. /\ cache[u] \in SavedUsers \cup BlankUsers \cup {NoUser}
      /\ userFile[u] \in SavedUsers \cup {NoFile, NoBytes}
      BY DEF UsersInv, TypeOK
<1>2. u \in used
      BY DEF UsersInv, NewUids, Findable
<1>3. CASE cache[u] # NoUser
  <2>1. ~SavesUser
        BY StepsOf DEF SavesUser
  <2>2. x = cache[u]
        BY <1>3 DEF UsersOf
  <2>3. QED
        BY <1>1, <1>2, <1>3, <2>1, <2>2 DEF UsersInv, FilesAgree
<1>4. CASE cache[u] = NoUser
  <2>1. userFile[u] \in SavedUsers \cup {NoBytes} /\ x \in Loads(userFile[u])
        BY <1>1, <1>4 DEF Findable, UsersOf
  <2>2. CASE userFile[u] = NoBytes
        BY <1>2, <2>1, <2>2, Kinds
  <2>3. CASE userFile[u] \in SavedUsers
    <3>1. x \in Deciphered(userFile[u])
          BY <2>1, <2>3, Kinds
    <3>2. x \in SavedUsers
          BY <2>3, <3>1, Ciphers
    <3>3. QED
          BY <1>2, <2>3, <3>1, <3>2, Kinds
  <2>4. QED
        BY <2>1, <2>2, <2>3
<1>5. QED
      BY <1>3, <1>4

\* A step that puts a user into the cache, as it was read or changed and then
\* to be saved.
LEMMA Puts ==
    ASSUME UsersInv, up, op.steps = <<>>,
           NEW u \in Uids, Findable(u),
           NEW y \in UsersOf(u), NEW x \in SavedUsers \cup BlankUsers, x.name = y.name,
           cache' = [cache EXCEPT ![u] = x],
           \/ op'.steps = <<>> /\ (x = y \/ x.name = Blank)
           \/ op'.steps = <<"user">> /\ op'.uid = u /\ x.name # Blank,
           op' \in Ops, op'.kind \notin {"none", "exit"} => op'.name \in Names /\ op'.uid \in Uids,
           current' \in Names \cup {Root, None},
           UNCHANGED <<names, namesFile, userFile, used, up, starts>>
    PROVE  UsersInv'
<1>1. /\ TypeOK /\ OneName(names) /\ OneName(NamesOnDisk) /\ OwnName /\ WhileDown /\ NewUids
      /\ SaveSteps /\ FilesAgree
      BY DEF UsersInv
<1>2. /\ y \in SavedUsers \cup BlankUsers /\ u \in used
      /\ IF y.name = Blank THEN userFile[u] = NoBytes
         ELSE userFile[u] \in SavedUsers /\ y \in Deciphered(userFile[u])
      BY Reads
<1>3. /\ cache'[u] = x /\ \A v \in Uids \ {u} : cache'[v] = cache[v]
      BY <1>1 DEF TypeOK
<1>4. TypeOK'
      BY <1>1 DEF TypeOK
<1>5. NamesOnDisk' = NamesOnDisk
      BY DEF NamesOnDisk
<1>6. OneName(names)' /\ OneName(NamesOnDisk)'
      BY <1>1, <1>5 DEF OneName
<1>7. OwnName'
  <2> SUFFICES ASSUME NEW n \in Names, NEW v \in Uids, v \in {names[n], NamesOnDisk[n]}
               PROVE  /\ cache'[v] # NoUser => cache'[v].name \in {n, Garbled, Blank}
                      /\ userFile[v] \in {NoFile, NoBytes} \/ userFile[v].name \in {n, Garbled}
      BY <1>5 DEF OwnName
  <2>1. /\ cache[v] # NoUser => cache[v].name \in {n, Garbled, Blank}
        /\ userFile[v] \in {NoFile, NoBytes} \/ userFile[v].name \in {n, Garbled}
        BY <1>1 DEF OwnName
  <2>2. CASE v # u
        BY <1>3, <2>1, <2>2
  <2>3. CASE v = u
    <3>1. x.name = Blank \/ (userFile[u] \in SavedUsers /\ x.name \in {userFile[u].name, Garbled})
          BY <1>2, Ciphers
    <3>2. QED
          BY <1>3, <2>1, <2>3, <3>1, Kinds
  <2>4. QED
        BY <2>2, <2>3
<1>8. WhileDown'
      BY DEF WhileDown
<1>9. NewUids'
      BY <1>1, <1>2, <1>3 DEF NewUids
<1>10. SavesUser' => op'.steps = <<"user">>
      BY StepsOf DEF SavesUser
<1>11. ~RemovesUser'
      BY StepsOf DEF RemovesUser
<1>12. SaveSteps'
      BY <1>2, <1>3, <1>10, <1>11, StepsOf, Kinds DEF SaveSteps
<1>13. FilesAgree'
  <2>1. NamesOnDisk' = names'
        BY <1>1, <1>5, StepsOf DEF FilesAgree, SavesNames
  <2>2. ASSUME NEW v \in Uids, cache'[v] # NoUser, ~(SavesUser' /\ v = op'.uid)
        PROVE  IF cache'[v].name = Blank THEN userFile[v] = NoBytes
               ELSE userFile[v] \notin {NoFile, NoBytes} /\ cache'[v] \in Deciphered(userFile[v])
    <3>1. CASE v # u
      <4>1. ~SavesUser
            BY StepsOf DEF SavesUser
      <4>2. QED
            BY <1>1, <1>3, <2>2, <3>1, <4>1 DEF FilesAgree
    <3>2. CASE v = u
      <4>1. op'.steps = <<>>
            BY <2>2, <3>2 DEF SavesUser
      <4>2. x = y \/ x.name = Blank
            BY <4>1, StepsOf
      <4>3. QED
            BY <1>2, <1>3, <3>2, <4>2, Kinds
    <3>3. QED
          BY <3>1, <3>2
  <2>3. QED
        BY <2>1, <2>2 DEF FilesAgree
<1>14. QED
      BY <1>4, <1>6, <1>7, <1>8, <1>9, <1>12, <1>13 DEF UsersInv

-----------------------------------------------------------------------------
(* The actions. *)

\* A catalog without names or users, and no file.
LEMMA InitUsersInv == Init => UsersInv
<1> SUFFICES ASSUME Init PROVE UsersInv
    OBVIOUS
<1>1. NamesOnDisk = NoNames /\ \A n \in Names : NoNames[n] = None
      BY DEF Init, NamesOnDisk, NoNames
<1>2. NoOp \in Ops
      BY DEF NoOp, Ops, Steps
<1>3. TypeOK
      BY <1>2, UsersCatalogAssumption DEF Init, TypeOK, NoNames, NoCache
<1>4. OneName(names) /\ OneName(NamesOnDisk) /\ OwnName
      BY <1>1, UsersCatalogAssumption DEF Init, OneName, OwnName, NoNames, NoCache
<1>5. WhileDown /\ NewUids /\ FilesAgree
      BY DEF Init, WhileDown, NewUids, FilesAgree, NoCache
<1>6. SaveSteps
      BY StepsOf DEF Init, SaveSteps, NoOp, SavesUser, RemovesUser
<1>7. QED
      BY <1>3, <1>4, <1>5, <1>6 DEF UsersInv

\* The names are read, the users are not.
LEMMA StartKeeps ==
    ASSUME UsersInv, NEW who \in {Root, None}, Start(who)
    PROVE  UsersInv'
<1>1. /\ TypeOK /\ OneName(names) /\ OneName(NamesOnDisk) /\ OwnName /\ op = NoOp /\ NewUids
      BY DEF UsersInv, WhileDown, Start
<1>2. NamesOnDisk' = NamesOnDisk
      BY UsersCatalogAssumption, DiskTypes, <1>1 DEF Start, NamesOnDisk
<1>3. TypeOK'
      BY <1>1, DiskTypes DEF Start, TypeOK
<1>4. OneName(names)' /\ OneName(NamesOnDisk)'
      BY <1>1, <1>2 DEF Start, OneName
<1>5. OwnName' /\ NewUids' /\ WhileDown'
      BY <1>1, <1>2 DEF Start, OwnName, NewUids, NoCache, WhileDown
<1>6. SaveSteps'
      BY <1>1, StepsOf DEF Start, SaveSteps, NoOp, SavesUser, RemovesUser
<1>7. FilesAgree'
      BY <1>2 DEF Start, FilesAgree, NoCache
<1>8. QED
      BY <1>3, <1>4, <1>5, <1>6, <1>7 DEF UsersInv

\* The files stay as they are.
LEMMA StoppedKeeps ==
    ASSUME UsersInv, Stopped
    PROVE  UsersInv'
<1>1. TypeOK /\ OneName(NamesOnDisk) /\ OwnName /\ NewUids
      BY DEF UsersInv
<1>2. NamesOnDisk' = NamesOnDisk /\ names' = NoNames /\ \A n \in Names : NoNames[n] = None
      BY DEF Stopped, NamesOnDisk, NoNames
<1>3. NoOp \in Ops
      BY DEF NoOp, Ops, Steps
<1>4. TypeOK'
      BY <1>1, <1>3, DiskTypes DEF Stopped, TypeOK
<1>5. OneName(names)' /\ OneName(NamesOnDisk)'
      BY <1>1, <1>2 DEF Stopped, OneName
<1>6. OwnName'
      BY <1>1, <1>2, UsersCatalogAssumption DEF Stopped, OwnName, NoCache
<1>7. WhileDown' /\ NewUids' /\ FilesAgree'
      BY <1>1 DEF Stopped, WhileDown, NewUids, FilesAgree, NoCache
<1>8. SaveSteps'
      BY StepsOf DEF Stopped, SaveSteps, NoOp, SavesUser, RemovesUser
<1>9. QED
      BY <1>4, <1>5, <1>6, <1>7, <1>8 DEF UsersInv

\* A step of the session or of an executor that leaves names, users and files
\* alone, with nothing to save but perhaps the names.
LEMMA SessionKeeps ==
    ASSUME UsersInv, up, op.steps = <<>>, op' \in Ops,
           op'.steps \in {<<>>, <<"names">>},
           op'.kind \notin {"none", "exit"} => op'.name \in Names /\ op'.uid \in Uids,
           current' \in Names \cup {Root, None},
           UNCHANGED <<names, cache, namesFile, userFile, used, up, starts>>
    PROVE  UsersInv'
<1>1. /\ TypeOK /\ OneName(names) /\ OneName(NamesOnDisk) /\ OwnName /\ WhileDown /\ NewUids
      /\ SaveSteps /\ FilesAgree
      BY DEF UsersInv
<1>2. NamesOnDisk' = NamesOnDisk
      BY DEF NamesOnDisk
<1>3. TypeOK'
      BY <1>1 DEF TypeOK
<1>4. OneName(names)' /\ OneName(NamesOnDisk)' /\ OwnName' /\ WhileDown' /\ NewUids'
      BY <1>1, <1>2 DEF OneName, OwnName, WhileDown, NewUids
<1>5. ~SavesUser /\ ~RemovesUser /\ ~SavesUser' /\ ~RemovesUser' /\ ~SavesNames
      BY StepsOf DEF SavesUser, RemovesUser, SavesNames
<1>6. SaveSteps'
      BY <1>5 DEF SaveSteps
<1>7. FilesAgree'
      BY <1>1, <1>2, <1>5 DEF FilesAgree
<1>8. QED
      BY <1>3, <1>4, <1>6, <1>7 DEF UsersInv

\* createUser: a new uid, and both files to write.
LEMMA CreateUserKeeps ==
    ASSUME UsersInv, NEW n \in Names, NEW p \in Passwords, NEW u \in Uids, CreateUser(n, p, u)
    PROVE  UsersInv'
<1>1. /\ TypeOK /\ OneName(names) /\ OneName(NamesOnDisk) /\ OwnName /\ WhileDown /\ NewUids
      /\ SaveSteps /\ FilesAgree
      BY DEF UsersInv
<1>2. /\ up /\ op = NoOp /\ u \notin used /\ used' = used \cup {u} /\ up' = up
      /\ names' = [names EXCEPT ![n] = u] /\ cache' = [cache EXCEPT ![u] = User(n, p, {})]
      /\ op' = [NoOp EXCEPT !.kind = "create", !.name = n, !.uid = u, !.steps = <<"user", "names">>]
      /\ UNCHANGED <<namesFile, userFile, current, starts>>
      BY DEF CreateUser, Administers, Ready
<1>3. User(n, p, {}) \in WholeUsers /\ User(n, p, {}).name = n
      BY Changes
<1>4. NamesOnDisk' = NamesOnDisk /\ NamesOnDisk \in [Names -> Uids \cup {None}]
      BY <1>1, <1>2, DiskTypes DEF NamesOnDisk
<1>5. op' \in Ops /\ op'.uid = u /\ op'.name = n /\ op'.steps = <<"user", "names">> /\ op'.kind = "create"
      BY <1>2 DEF NoOp, Ops, Steps
<1>6. TypeOK'
      BY <1>1, <1>2, <1>3, <1>5, Kinds DEF TypeOK
<1>7. OneName(names)' /\ OneName(NamesOnDisk)'
  <2>1. \A m \in Names : names[m] # u
        BY <1>1, <1>2, UsersCatalogAssumption DEF OneName
  <2>2. names'[n] = u /\ \A m \in Names \ {n} : names'[m] = names[m]
        BY <1>1, <1>2 DEF TypeOK
  <2>3. OneName(names)'
        BY <1>1, <1>2, <2>1, <2>2 DEF OneName
  <2>4. OneName(NamesOnDisk)'
        BY <1>1, <1>2, <1>4 DEF OneName
  <2>5. QED
        BY <2>3, <2>4
<1>8. cache'[u] = User(n, p, {}) /\ \A v \in Uids \ {u} : cache'[v] = cache[v]
      BY <1>1, <1>2 DEF TypeOK
<1>9. OwnName'
  <2> SUFFICES ASSUME NEW m \in Names, NEW v \in Uids, v \in {names'[m], NamesOnDisk[m]}
               PROVE  /\ cache'[v] # NoUser => cache'[v].name \in {m, Garbled, Blank}
                      /\ userFile[v] \in {NoFile, NoBytes} \/ userFile[v].name \in {m, Garbled}
      BY <1>2, <1>4 DEF OwnName
  <2>1. CASE v = u
    <3>1. NamesOnDisk[m] # u /\ (m # n => names'[m] # u)
          BY <1>1, <1>2, UsersCatalogAssumption DEF OneName, TypeOK
    <3>2. m = n
          BY <2>1, <3>1
    <3>3. userFile[v] = NoFile
          BY <1>1, <1>2, <2>1 DEF NewUids
    <3>4. QED
          BY <1>3, <1>8, <2>1, <3>2, <3>3
  <2>2. CASE v # u
    <3>1. v \in {names[m], NamesOnDisk[m]}
          BY <1>1, <1>2, <2>2 DEF TypeOK
    <3>2. QED
          BY <1>1, <1>8, <2>2, <3>1 DEF OwnName
  <2>3. QED
        BY <2>1, <2>2
<1>10. WhileDown' /\ NewUids'
      BY <1>1, <1>2, <1>8 DEF WhileDown, NewUids
<1>11. SaveSteps'
      BY <1>3, <1>5, <1>8, StepsOf, Kinds DEF SaveSteps, SavesUser, RemovesUser
<1>12. FilesAgree'
  <2>1. ~SavesUser /\ SavesUser' /\ SavesNames'
        BY <1>2, <1>5, StepsOf DEF SavesUser, SavesNames, NoOp
  <2>2. QED
        BY <1>1, <1>2, <1>5, <1>8, <2>1 DEF FilesAgree
<1>13. QED
      BY <1>6, <1>7, <1>9, <1>10, <1>11, <1>12 DEF UsersInv

\* removeUser: the user is gone from memory, its name may be left.
LEMMA RemoveUserKeeps ==
    ASSUME UsersInv, NEW n \in Names, RemoveUser(n)
    PROVE  UsersInv'
<1>1. /\ TypeOK /\ OneName(names) /\ OneName(NamesOnDisk) /\ OwnName /\ WhileDown /\ NewUids
      /\ SaveSteps /\ FilesAgree
      BY DEF UsersInv
<1> DEFINE u == names[n]
<1>2. /\ up /\ op = NoOp /\ u # None /\ up' = up
      /\ cache' = [cache EXCEPT ![u] = NoUser]
      /\ names' = [names EXCEPT ![n] = None] \/ names' = names
      /\ op' = [NoOp EXCEPT !.kind = "remove", !.name = n, !.uid = u, !.steps = <<"unlink", "names">>]
      /\ UNCHANGED <<namesFile, userFile, used, current, starts>>
      BY DEF RemoveUser, Administers, Ready
<1>3. u \in Uids
      BY <1>1, <1>2 DEF TypeOK
<1> HIDE DEF u
<1>4. NamesOnDisk' = NamesOnDisk
      BY <1>2 DEF NamesOnDisk
<1>5. op' \in Ops /\ op'.uid = u /\ op'.name = n /\ op'.steps = <<"unlink", "names">> /\ op'.kind = "remove"
      BY <1>2, <1>3 DEF NoOp, Ops, Steps
<1>6. TypeOK'
      BY <1>1, <1>2, <1>3, <1>5 DEF TypeOK
<1>7. \A m \in Names : names'[m] \in {names[m], None}
      BY <1>1, <1>2 DEF TypeOK
<1>8. cache'[u] = NoUser /\ \A v \in Uids \ {u} : cache'[v] = cache[v]
      BY <1>1, <1>2, <1>3 DEF TypeOK
<1>9. OneName(names)' /\ OneName(NamesOnDisk)'
      BY <1>1, <1>2, <1>4, <1>7 DEF OneName
<1>10. OwnName'
  <2> SUFFICES ASSUME NEW m \in Names, NEW v \in Uids, v \in {names'[m], NamesOnDisk[m]}
               PROVE  /\ cache'[v] # NoUser => cache'[v].name \in {m, Garbled, Blank}
                      /\ userFile[v] \in {NoFile, NoBytes} \/ userFile[v].name \in {m, Garbled}
      BY <1>2, <1>4 DEF OwnName
  <2>1. v \in {names[m], NamesOnDisk[m]}
        BY <1>7, UsersCatalogAssumption
  <2>2. QED
        BY <1>1, <1>8, <2>1 DEF OwnName
<1>11. WhileDown' /\ NewUids'
      BY <1>1, <1>2, <1>8 DEF WhileDown, NewUids
<1>12. SaveSteps'
      BY <1>3, <1>5, <1>8, StepsOf DEF SaveSteps, SavesUser, RemovesUser
<1>13. FilesAgree'
  <2>1. ~SavesUser /\ ~SavesUser' /\ SavesNames'
        BY <1>2, <1>5, StepsOf DEF SavesUser, SavesNames, NoOp
  <2>2. QED
        BY <1>1, <1>2, <1>8, <2>1 DEF FilesAgree
<1>14. QED
      BY <1>6, <1>9, <1>10, <1>11, <1>12, <1>13 DEF UsersInv

\* Logins, failed logins and permission checks read a user into the cache.
LEMMA LooksUpKeeps ==
    ASSUME UsersInv, NEW n \in Names, LoginUser(n) \/ LooksUp(n)
    PROVE  UsersInv'
<1>1. /\ up /\ op = NoOp /\ names[n] # None /\ Findable(names[n])
      /\ \E x \in UsersOf(names[n]) : cache' = [cache EXCEPT ![names[n]] = x]
      /\ current' \in {n, current} /\ op' = op
      /\ UNCHANGED <<names, namesFile, userFile, used, up, starts>>
      BY DEF LoginUser, LooksUp, Ready
<1>2. names[n] \in Uids /\ op' \in Ops /\ current' \in Names \cup {Root, None}
      BY <1>1 DEF UsersInv, TypeOK
<1>3. op.steps = <<>> /\ op'.steps = <<>> /\ op'.kind = "none"
      BY <1>1 DEF NoOp
<1>4. PICK x \in UsersOf(names[n]) : cache' = [cache EXCEPT ![names[n]] = x]
      BY <1>1
<1>5. x \in SavedUsers \cup BlankUsers
      BY <1>1, <1>2, <1>3, Reads
<1>6. QED
      BY <1>1, <1>2, <1>3, <1>4, <1>5, Puts

\* updatePassword
LEMMA UpdatePasswordKeeps ==
    ASSUME UsersInv, NEW n \in Names, NEW p \in Passwords, UpdatePassword(n, p)
    PROVE  UsersInv'
<1> DEFINE u == names[n]
<1>1. /\ up /\ op = NoOp /\ u # None /\ Findable(u)
      /\ \E y \in UsersOf(u) :
            /\ cache' = [cache EXCEPT ![u] = [y EXCEPT !.password = p]]
            /\ op' = [NoOp EXCEPT !.kind = "password", !.name = n, !.uid = u, !.steps = SaveUser(y)]
      /\ UNCHANGED <<names, namesFile, userFile, used, current, up, starts>>
      BY DEF UpdatePassword, Ready
<1>2. u \in Uids /\ current' \in Names \cup {Root, None} /\ op.steps = <<>>
      BY <1>1 DEF UsersInv, TypeOK, NoOp
<1>3. PICK y \in UsersOf(u) :
            /\ cache' = [cache EXCEPT ![u] = [y EXCEPT !.password = p]]
            /\ op' = [NoOp EXCEPT !.kind = "password", !.name = n, !.uid = u, !.steps = SaveUser(y)]
      BY <1>1
<1> DEFINE x == [y EXCEPT !.password = p]
<1>4. y \in SavedUsers \cup BlankUsers
      BY <1>1, <1>2, Reads
<1>5. x \in SavedUsers \cup BlankUsers /\ x.name = y.name /\ cache' = [cache EXCEPT ![u] = x]
      BY <1>3, <1>4, Changes
<1> HIDE DEF x, u
<1>6. \/ SaveUser(y) = <<>> /\ x.name = Blank
      \/ SaveUser(y) = <<"user">> /\ x.name # Blank
      BY <1>5 DEF SaveUser
<1>7. op'.steps = SaveUser(y) /\ op'.uid = u /\ op'.name = n /\ op' \in Ops
      BY <1>2, <1>3, <1>6 DEF NoOp, Ops, Steps
<1>8. QED
      BY <1>1, <1>2, <1>5, <1>6, <1>7, Puts

\* updatePermission
LEMMA UpdatePermissionKeeps ==
    ASSUME UsersInv, NEW p \in Perms, UpdatePermission(p)
    PROVE  UsersInv'
<1> DEFINE u == op.uid
<1>1. /\ up /\ op.kind \in {"grant", "revoke"} /\ op.steps = <<>> /\ Findable(u)
      /\ \E y \in UsersOf(u) :
            /\ cache' = [cache EXCEPT ![u] = Updated(op.kind, y, p)]
            /\ op' = [op EXCEPT !.perms = @ \ {p}, !.steps = SaveUser(y)]
      /\ UNCHANGED <<names, namesFile, userFile, used, current, up, starts>>
      BY DEF UpdatePermission
<1>2. u \in Uids /\ op.name \in Names /\ op \in Ops /\ current' \in Names \cup {Root, None}
      BY <1>1 DEF UsersInv, TypeOK, SaveSteps
<1>3. PICK y \in UsersOf(u) :
            /\ cache' = [cache EXCEPT ![u] = Updated(op.kind, y, p)]
            /\ op' = [op EXCEPT !.perms = @ \ {p}, !.steps = SaveUser(y)]
      BY <1>1
<1> DEFINE x == Updated(op.kind, y, p)
<1>4. y \in SavedUsers \cup BlankUsers
      BY <1>1, <1>2, Reads
<1>5. x \in SavedUsers \cup BlankUsers /\ x.name = y.name /\ cache' = [cache EXCEPT ![u] = x]
      BY <1>3, <1>4, Changes
<1> HIDE DEF x
<1>6. \/ SaveUser(y) = <<>> /\ x.name = Blank
      \/ SaveUser(y) = <<"user">> /\ x.name # Blank
      BY <1>5 DEF SaveUser
<1>7. op'.steps = SaveUser(y) /\ op'.uid = u /\ op'.name = op.name /\ op' \in Ops
      BY <1>1, <1>2, <1>3, <1>6 DEF Ops, Steps
<1>8. QED
      BY <1>1, <1>2, <1>5, <1>6, <1>7, Puts

-----------------------------------------------------------------------------
(* The files. *)

\* What the first of the steps left says of the others.
LEMMA NextStep ==
    ASSUME TypeOK, NEW step, NEW open, AtStep(step, open)
    PROVE  /\ up /\ op \in Ops
           /\ step = "user" => /\ SavesUser /\ ~RemovesUser
                               /\ op.steps = <<"user", "names">> \/ op.steps = <<"user">>
           /\ step = "unlink" => RemovesUser /\ ~SavesUser
           /\ step = "names" => op.steps = <<"names">> /\ ~SavesUser /\ ~RemovesUser
           /\ Tail(op.steps) \in {<<>>, <<"names">>}
           /\ SavesNames /\ step # "names" => Tail(op.steps) = <<"names">>
<1>1. op \in Ops /\ op.steps \in Steps /\ up /\ op.steps # <<>> /\ Head(op.steps) = step
      BY DEF TypeOK, Ops, AtStep
<1>2. QED
      BY <1>1, StepsOf DEF Steps, SavesUser, RemovesUser, SavesNames

\* saveUserToDisk, the file truncated: its user is still in the cache.
LEMMA TruncatesUserKeeps ==
    ASSUME UsersInv, TruncatesUser
    PROVE  UsersInv'
<1>1. /\ TypeOK /\ OneName(names) /\ OneName(NamesOnDisk) /\ OwnName /\ WhileDown /\ NewUids
      /\ SaveSteps /\ FilesAgree
      BY DEF UsersInv
<1>2. /\ up /\ op \in Ops /\ SavesUser /\ userFile' = [userFile EXCEPT ![op.uid] = NoBytes]
      /\ op' = [op EXCEPT !.open = TRUE]
      /\ UNCHANGED <<names, cache, namesFile, used, current, up, starts>>
      BY <1>1, NextStep DEF TruncatesUser, Opens
<1>3. op.uid \in Uids /\ cache[op.uid] \in SavedUsers
      BY <1>1, <1>2 DEF SaveSteps
<1>4. op' \in Ops /\ op'.steps = op.steps /\ op'.uid = op.uid /\ op'.name = op.name /\ op'.kind = op.kind
      BY <1>2 DEF Ops
<1>5. userFile'[op.uid] = NoBytes /\ \A v \in Uids \ {op.uid} : userFile'[v] = userFile[v]
      BY <1>1, <1>2, <1>3 DEF TypeOK
<1>6. TypeOK'
      BY <1>1, <1>2, <1>3, <1>4 DEF TypeOK
<1>7. NamesOnDisk' = NamesOnDisk
      BY <1>2 DEF NamesOnDisk
<1>8. OneName(names)' /\ OneName(NamesOnDisk)' /\ OwnName' /\ WhileDown'
      BY <1>1, <1>2, <1>5, <1>7 DEF OneName, OwnName, WhileDown
<1>9. op.uid \in used
      BY <1>1, <1>3, Kinds DEF NewUids
<1>10. NewUids'
      BY <1>1, <1>2, <1>5, <1>9 DEF NewUids
<1>11. SaveSteps'
      BY <1>1, <1>2, <1>4 DEF SaveSteps, SavesUser, RemovesUser
<1>12. FilesAgree'
      BY <1>1, <1>2, <1>4, <1>5, <1>7 DEF FilesAgree, SavesUser, SavesNames
<1>13. QED
      BY <1>6, <1>8, <1>10, <1>11, <1>12 DEF UsersInv

\* saveUserToDisk, the file written.
LEMMA WritesUserKeeps ==
    ASSUME UsersInv, WritesUser
    PROVE  UsersInv'
<1>1. /\ TypeOK /\ OneName(names) /\ OneName(NamesOnDisk) /\ OwnName /\ WhileDown /\ NewUids
      /\ SaveSteps /\ FilesAgree
      BY DEF UsersInv
<1>2. /\ up /\ op \in Ops /\ SavesUser /\ userFile' = [userFile EXCEPT ![op.uid] = cache[op.uid]]
      /\ op' = [op EXCEPT !.open = FALSE, !.steps = Tail(@)]
      /\ Tail(op.steps) \in {<<>>, <<"names">>} /\ (SavesNames => Tail(op.steps) = <<"names">>)
      /\ UNCHANGED <<names, cache, namesFile, used, current, up, starts>>
      BY <1>1, NextStep DEF WritesUser, StepDone
<1>3. op.uid \in Uids /\ cache[op.uid] \in SavedUsers
      BY <1>1, <1>2 DEF SaveSteps
<1>4. /\ op' \in Ops /\ op'.steps = Tail(op.steps) /\ op'.uid = op.uid /\ op'.name = op.name
      /\ op'.kind = op.kind
      BY <1>2 DEF Ops, Steps
<1>5. userFile'[op.uid] = cache[op.uid] /\ \A v \in Uids \ {op.uid} : userFile'[v] = userFile[v]
      BY <1>1, <1>2, <1>3 DEF TypeOK
<1>6. TypeOK'
      BY <1>1, <1>2, <1>3, <1>4 DEF TypeOK
<1>7. NamesOnDisk' = NamesOnDisk
      BY <1>2 DEF NamesOnDisk
<1>8. OneName(names)' /\ OneName(NamesOnDisk)' /\ WhileDown'
      BY <1>1, <1>2, <1>7 DEF OneName, WhileDown
<1>9. OwnName'
      BY <1>1, <1>2, <1>3, <1>5, <1>7, Kinds DEF OwnName
<1>10. op.uid \in used
      BY <1>1, <1>3, Kinds DEF NewUids
<1>11. NewUids'
      BY <1>1, <1>2, <1>5, <1>10 DEF NewUids
<1>12. ~SavesUser' /\ ~RemovesUser' /\ (SavesNames => SavesNames')
      BY <1>2, <1>4, StepsOf DEF SavesUser, RemovesUser, SavesNames
<1>13. SaveSteps'
      BY <1>1, <1>4, <1>12 DEF SaveSteps
<1>14. FilesAgree'
      BY <1>1, <1>2, <1>3, <1>5, <1>7, <1>12, Kinds DEF FilesAgree, Deciphered
<1>15. QED
      BY <1>6, <1>8, <1>9, <1>11, <1>13, <1>14 DEF UsersInv

\* The file of a removed user is gone.
LEMMA UnlinksUserKeeps ==
    ASSUME UsersInv, UnlinksUser
    PROVE  UsersInv'
<1>1. /\ TypeOK /\ OneName(names) /\ OneName(NamesOnDisk) /\ OwnName /\ WhileDown /\ NewUids
      /\ SaveSteps /\ FilesAgree
      BY DEF UsersInv
<1>2. /\ up /\ op \in Ops /\ RemovesUser /\ ~SavesUser
      /\ userFile' = [userFile EXCEPT ![op.uid] = NoFile]
      /\ op' = [op EXCEPT !.open = FALSE, !.steps = Tail(@)]
      /\ Tail(op.steps) \in {<<>>, <<"names">>} /\ (SavesNames => Tail(op.steps) = <<"names">>)
      /\ UNCHANGED <<names, cache, namesFile, used, current, up, starts>>
      BY <1>1, NextStep DEF UnlinksUser, StepDone
<1>3. op.uid \in Uids /\ cache[op.uid] = NoUser
      BY <1>1, <1>2 DEF SaveSteps
<1>4. /\ op' \in Ops /\ op'.steps = Tail(op.steps) /\ op'.uid = op.uid /\ op'.name = op.name
      /\ op'.kind = op.kind
      BY <1>2 DEF Ops, Steps
<1>5. userFile'[op.uid] = NoFile /\ \A v \in Uids \ {op.uid} : userFile'[v] = userFile[v]
      BY <1>1, <1>2, <1>3 DEF TypeOK
<1>6. TypeOK'
      BY <1>1, <1>2, <1>3, <1>4 DEF TypeOK
<1>7. NamesOnDisk' = NamesOnDisk
      BY <1>2 DEF NamesOnDisk
<1>8. OneName(names)' /\ OneName(NamesOnDisk)' /\ WhileDown' /\ OwnName'
      BY <1>1, <1>2, <1>5, <1>7 DEF OneName, WhileDown, OwnName
<1>9. NewUids'
      BY <1>1, <1>2, <1>5 DEF NewUids
<1>10. ~SavesUser' /\ ~RemovesUser' /\ (SavesNames => SavesNames')
      BY <1>2, <1>4, StepsOf DEF SavesUser, RemovesUser, SavesNames
<1>11. SaveSteps'
      BY <1>1, <1>4, <1>10 DEF SaveSteps
<1>12. FilesAgree'
      BY <1>1, <1>2, <1>3, <1>5, <1>7, <1>10 DEF FilesAgree
<1>13. QED
      BY <1>6, <1>8, <1>9, <1>11, <1>12 DEF UsersInv

\* saveUserNamesToDisk: the names are lost, and then there again.
LEMMA NamesKeep ==
    ASSUME UsersInv, TruncatesNames \/ WritesNames
    PROVE  UsersInv'
<1>1. /\ TypeOK /\ OneName(names) /\ OneName(NamesOnDisk) /\ OwnName /\ WhileDown /\ NewUids
      /\ SaveSteps /\ FilesAgree
      BY DEF UsersInv
<1>2. /\ up /\ op \in Ops /\ op.steps = <<"names">> /\ ~SavesUser /\ ~RemovesUser
      /\ UNCHANGED <<names, cache, userFile, used, current, up, starts>>
      BY <1>1, NextStep DEF TruncatesNames, WritesNames
<1>3. \/ /\ namesFile' = Torn /\ op' = [op EXCEPT !.open = TRUE]
         /\ NamesOnDisk' = NoNames
      \/ /\ namesFile' = names /\ op' = [op EXCEPT !.open = FALSE, !.steps = <<>>]
         /\ NamesOnDisk' = names
      BY <1>1, <1>2, StepsOf, UsersCatalogAssumption
      DEF TruncatesNames, WritesNames, Opens, StepDone, NamesOnDisk, TypeOK
<1>4. /\ op' \in Ops /\ op'.uid = op.uid /\ op'.name = op.name /\ op'.kind = op.kind
      /\ op'.steps = <<"names">> \/ op'.steps = <<>>
      BY <1>2, <1>3 DEF Ops, Steps
<1>5. TypeOK'
      BY <1>1, <1>2, <1>3, <1>4 DEF TypeOK
<1>6. \A n \in Names : NamesOnDisk'[n] \in {names[n], None}
      BY <1>3 DEF NoNames
<1>7. OneName(names)' /\ OneName(NamesOnDisk)'
      BY <1>1, <1>2, <1>6 DEF OneName
<1>8. OwnName'
      BY <1>1, <1>2, <1>6, UsersCatalogAssumption DEF OwnName
<1>9. WhileDown' /\ NewUids'
      BY <1>1, <1>2 DEF WhileDown, NewUids
<1>10. ~SavesUser' /\ ~RemovesUser'
      BY <1>4, StepsOf DEF SavesUser, RemovesUser
<1>11. SaveSteps'
      BY <1>1, <1>4, <1>10 DEF SaveSteps
<1>12. SavesNames' \/ NamesOnDisk' = names'
      BY <1>2, <1>3, <1>4 DEF SavesNames, Ops
<1>13. FilesAgree'
      BY <1>1, <1>2, <1>10, <1>12 DEF FilesAgree
<1>14. QED
      BY <1>5, <1>7, <1>8, <1>9, <1>11, <1>13 DEF UsersInv

-----------------------------------------------------------------------------
(* The steps together. *)

\* Logins of root, the executors' other steps, and changes that end.
LEMMA OthersKeep ==
    ASSUME UsersInv,
           \/ Exit \/ LoginRoot \/ PermissionFails \/ ChangeEnds
           \/ \E n \in Names : \E kind \in {"grant", "revoke"}, perms \in SUBSET Perms :
                 BeginPermissions(kind, n, perms)
    PROVE  UsersInv'
<1>1. TypeOK /\ op \in Ops /\ current \in Names \cup {Root, None}
      BY DEF UsersInv, TypeOK
<1>2. CASE Exit
      BY <1>1, <1>2, SessionKeeps DEF Exit, Ready, NoOp, Ops, Steps
<1>3. CASE LoginRoot
      BY <1>1, <1>3, SessionKeeps DEF LoginRoot, Ready, NoOp
<1>4. CASE PermissionFails \/ ChangeEnds
  <2>1. NoOp \in Ops /\ NoOp.steps = <<>> /\ NoOp.kind = "none"
        BY DEF NoOp, Ops, Steps
  <2>2. /\ up /\ op.steps = <<>> /\ op' = NoOp
        /\ UNCHANGED <<names, cache, namesFile, userFile, used, current, up, starts>>
        BY <1>4 DEF PermissionFails, ChangeEnds
  <2>3. QED
        BY <1>1, <2>1, <2>2, SessionKeeps
<1>5. ASSUME NEW n \in Names, NEW kind \in {"grant", "revoke"}, NEW perms \in SUBSET Perms,
             BeginPermissions(kind, n, perms)
      PROVE  UsersInv'
  <2>1. names[n] \in Uids
        BY <1>1, <1>5 DEF BeginPermissions, TypeOK
  <2>2. op' \in Ops /\ op'.steps = <<>> /\ op'.name = n /\ op'.uid = names[n]
        BY <1>5, <2>1 DEF BeginPermissions, NoOp, Ops, Steps
  <2>3. QED
        BY <1>1, <1>5, <2>1, <2>2, SessionKeeps DEF BeginPermissions, Administers, Ready, NoOp
<1>6. QED
      BY <1>2, <1>3, <1>4, <1>5

\* Every step preserves UsersInv.
LEMMA UsersKeep == UsersInv /\ [Next]_vars => UsersInv'
<1> SUFFICES ASSUME UsersInv, [Next]_vars PROVE UsersInv'
    OBVIOUS
<1>1. CASE UNCHANGED vars
      BY <1>1 DEF vars, UsersInv, TypeOK, OneName, NamesOnDisk, OwnName, WhileDown, NewUids,
                  SaveSteps, SavesUser, RemovesUser, SavesNames, FilesAgree
<1>2. CASE Session
      BY <1>2, StartKeeps, LooksUpKeeps, OthersKeep DEF Session
<1>3. CASE Administer
      BY <1>3, CreateUserKeeps, RemoveUserKeeps, UpdatePasswordKeeps, UpdatePermissionKeeps,
         OthersKeep
      DEF Administer
<1>4. CASE Save
      BY <1>4, TruncatesUserKeeps, WritesUserKeeps, UnlinksUserKeeps, NamesKeep, OthersKeep,
         StoppedKeeps
      DEF Save, ExitEnds
<1>5. CASE Crash
      BY <1>5, StoppedKeeps DEF Crash
<1>6. QED
      BY <1>1, <1>2, <1>3, <1>4, <1>5 DEF Next

\* A session of an ordinary user that goes on keeps its user.
LEMMA SessionsKeep == TypeOK /\ SessionHasUser /\ [Next]_vars => SessionHasUser'
<1> SUFFICES ASSUME TypeOK, SessionHasUser, [Next]_vars PROVE SessionHasUser'
    OBVIOUS
<1>1. Root \notin Names /\ None \notin Names /\ None \notin Uids
      BY UsersCatalogAssumption
<1>2. CASE names' = names /\ current' = current
      BY <1>2 DEF SessionHasUser
<1>3. ASSUME NEW n \in Names, LoginUser(n) PROVE SessionHasUser'
      BY <1>3 DEF LoginUser, SessionHasUser
<1>4. CASE current' \in {Root, None}
      BY <1>1, <1>4 DEF SessionHasUser
<1>5. ASSUME NEW n \in Names, NEW p \in Passwords, NEW u \in Uids, CreateUser(n, p, u)
      PROVE  SessionHasUser'
      BY <1>1, <1>5 DEF CreateUser, SessionHasUser, TypeOK
<1>6. ASSUME NEW n \in Names, RemoveUser(n) PROVE SessionHasUser'
  <2>1. current' = Root
        BY <1>6 DEF RemoveUser, Administers, MayAdminister
  <2>2. QED
        BY <1>4, <2>1
<1>7. CASE UNCHANGED vars
      BY <1>2, <1>7 DEF vars
<1>8. CASE Session
      BY <1>2, <1>3, <1>4, <1>8 DEF Session, Start, Exit, LoginRoot, LooksUp
<1>9. CASE Administer
      BY <1>2, <1>5, <1>6, <1>9
      DEF Administer, UpdatePassword, BeginPermissions, UpdatePermission, PermissionFails
<1>10. CASE Save \/ Crash
      BY <1>2, <1>4, <1>10 DEF Save, Crash, Stopped, TruncatesUser, WritesUser, UnlinksUser,
         TruncatesNames, WritesNames, ChangeEnds, ExitEnds
<1>11. QED
      BY <1>7, <1>8, <1>9, <1>10 DEF Next

-----------------------------------------------------------------------------
\* Over any queries, logins, exits and crashes no user has two names, a user
\* read under a name is the user created with it, and with nothing left to save
\* the files say what memory says (UsersCatalog).
THEOREM UsersInvariant == Spec => []UsersInv
<1>1. QED
      BY InitUsersInv, UsersKeep, PTL DEF Spec

\* A session is never left without its user, whoever administers users and
\* whatever a crash costs (after_parsing, removeUser).
THEOREM SessionsHaveUsers == Spec => []SessionHasUser
<1>1. Init => SessionHasUser
      BY UsersCatalogAssumption DEF Init, SessionHasUser
<1>2. UsersInv => TypeOK
      BY DEF UsersInv
<1>3. QED
      BY <1>1, <1>2, UsersInvariant, SessionsKeep, PTL DEF Spec

-----------------------------------------------------------------------------
(* The invariant of the mapping. *)

Edits == {"password", "grant", "revoke"}

\* The steps each kind of change has left; a file is open only at a step.
StepsOfKind ==
    /\ op.steps = <<>>    => op.open = FALSE
    /\ op.kind = "none"   => op.steps = <<>>
    /\ op.kind = "exit"   => op.steps \in {<<>>, <<"names">>}
    /\ op.kind = "create" => op.steps \in {<<"user", "names">>, <<"names">>, <<>>}
    /\ op.kind = "remove" => op.steps \in {<<"unlink", "names">>, <<"names">>, <<>>}
    /\ op.kind \in Edits  => op.steps \in {<<"user">>, <<>>}

\* What the change under way is about: the name and the uid belong together,
\* and a user that is removed is neither in the cache nor, once unlinked, on disk.
OwnChange ==
    /\ op.kind \in {"create"} \cup Edits => names[op.name] = op.uid
    /\ op.kind = "remove" =>
          /\ names[op.name] \in {None, op.uid}
          /\ cache[op.uid] = NoUser
          /\ RemovesUser \/ userFile[op.uid] = NoFile

NamesTorn == op.steps = <<"names">> /\ op.open

\* Until they are saved, the names on disk differ from those in memory in the
\* name that is created or removed, and in no other.
NamesLag ==
    /\ NamesTorn => namesFile = Torn
    /\ SavesNames /\ ~NamesTorn =>
          /\ \A n \in Names : \/ NamesOnDisk[n] = names[n]
                              \/ n = op.name /\ op.kind \in {"create", "remove"}
          /\ op.kind = "create" => NamesOnDisk[op.name] = None
          /\ op.kind = "remove" => NamesOnDisk[op.name] = op.uid

\* What a change replaced is what its file holds until the file is truncated.
BeforeOnDisk ==
    /\ op.kind = "create" => before = Absent
    /\ RemovesUser => before = AccountOf(userFile[op.uid])
    /\ op.steps = <<"user">> /\ op.kind \in Edits =>
          IF op.open THEN userFile[op.uid] = NoBytes ELSE before = AccountOf(userFile[op.uid])

DirectoryInv == StepsOfKind /\ OwnChange /\ NamesLag /\ BeforeOnDisk

-----------------------------------------------------------------------------
(* Accounts. *)

AccountSet == [password : Passwords, permissions : SUBSET Perms]

\* Whole users have accounts; the account of any other user, and of a torn file,
\* is damaged.
LEMMA AccountsOf ==
    /\ \A x \in WholeUsers : AccountOf(x) \in AccountSet
    /\ \A x \in BlankUsers : AccountOf(x) = Damaged
    /\ \A x \in SavedUsers : x.name = Garbled => AccountOf(x) = Damaged
    /\ \A x \in SavedUsers \cup {NoBytes} : AccountOf(x) \in AccountSet \cup {Damaged}
    /\ AccountOf(NoFile) = Absent
    /\ AccountOf(NoBytes) = Damaged
<1>1. ASSUME NEW x \in WholeUsers PROVE AccountOf(x) \in AccountSet
  <2>1. AccountOf(x) = [password |-> x.password, permissions |-> x.permissions]
        BY Kinds DEF AccountOf
  <2>2. x.password \in Passwords /\ x.permissions \in SUBSET Perms
        BY DEF WholeUsers
  <2>3. QED
        BY <2>1, <2>2 DEF AccountSet
<1>2. ASSUME NEW x \in BlankUsers PROVE AccountOf(x) = Damaged
  <2>1. DOMAIN x = {"name", "password", "permissions"} /\ DOMAIN NoFile = {"name"}
        BY DEF BlankUsers, NoFile
  <2>2. x # NoFile /\ x.name = Blank
        BY <2>1, Kinds
  <2>3. QED
        BY <2>2 DEF AccountOf
<1>3. \A x \in SavedUsers : x.name = Garbled => AccountOf(x) = Damaged
      BY Kinds DEF AccountOf
<1>4. AccountOf(NoFile) = Absent
      BY DEF AccountOf
<1>5. AccountOf(NoBytes) = Damaged
      BY Kinds DEF AccountOf
<1>6. \A x \in SavedUsers \cup {NoBytes} : AccountOf(x) \in AccountSet \cup {Damaged}
      BY <1>1, <1>3, <1>5, Kinds
<1>7. QED
      BY <1>1, <1>2, <1>3, <1>4, <1>5, <1>6

Removes(n) == op.kind = "remove" /\ op.name = n

\* What is kept of a user: what is to be saved, and otherwise what its file holds.
Behind(u) == IF SavesUser /\ op.uid = u THEN AccountOf(cache[u]) ELSE AccountOf(userFile[u])

\* A running process shows what is kept under a name, whatever it has read.
LEMMA ShownIs ==
    UsersInv /\ up =>
        \A n \in Names : ShownUnder(n) = IF names[n] = None \/ Removes(n) THEN Absent
                                         ELSE Behind(names[n])
<1> SUFFICES ASSUME UsersInv, up, NEW n \in Names
             PROVE  ShownUnder(n) = IF names[n] = None \/ Removes(n) THEN Absent
                                    ELSE Behind(names[n])
    OBVIOUS
<1> DEFINE u == names[n]
<1>1. UidOf(n) = u /\ u \in Uids \cup {None}
      BY DEF UidOf, UsersInv, TypeOK
<1> HIDE DEF u
<1>2. CASE u = None \/ Removes(n)
      BY <1>1, <1>2 DEF ShownUnder, Removes, u
<1>3. CASE u \in Uids /\ u # None /\ ~Removes(n)
  <2>1. /\ cache[u] \in SavedUsers \cup BlankUsers \cup {NoUser}
        /\ userFile[u] \in SavedUsers \cup {NoFile, NoBytes}
        BY <1>3 DEF UsersInv, TypeOK
  <2>2. ShownUnder(n) = IF cache[u] # NoUser /\ ~Mistaken(u) THEN AccountOf(cache[u])
                        ELSE AccountOf(userFile[u])
        BY <1>1, <1>3 DEF ShownUnder, Removes
  <2>3. CASE SavesUser /\ op.uid = u
    <3>1. cache[u] # NoUser /\ ~Mistaken(u)
          BY <2>3, Kinds DEF UsersInv, SaveSteps, Mistaken
    <3>2. QED
          BY <1>3, <2>2, <2>3, <3>1 DEF Behind, u
  <2>4. CASE ~(SavesUser /\ op.uid = u) /\ cache[u] # NoUser /\ ~Mistaken(u)
    <3>1. IF cache[u].name = Blank THEN userFile[u] = NoBytes
          ELSE userFile[u] \in SavedUsers /\ cache[u] \in Deciphered(userFile[u])
          BY <1>3, <2>1, <2>4 DEF UsersInv, FilesAgree
    <3>2. CASE cache[u].name = Blank
      <4>1. AccountOf(cache[u]) = Damaged /\ AccountOf(userFile[u]) = Damaged
            BY <2>1, <2>4, <3>1, <3>2, Kinds, AccountsOf
      <4>2. QED
            BY <1>3, <2>2, <2>4, <4>1 DEF Behind, u
    <3>3. CASE cache[u] = userFile[u]
          BY <1>3, <2>2, <2>4, <3>3 DEF Behind, u
    <3>4. CASE cache[u].name = Garbled
      <4>1. userFile[u] \in SavedUsers /\ userFile[u] \notin WholeUsers
            BY <2>4, <3>1, <3>4, UsersCatalogAssumption DEF Mistaken
      <4>2. AccountOf(cache[u]) = Damaged /\ AccountOf(userFile[u]) = Damaged
            BY <2>1, <2>4, <3>4, <4>1, Kinds, AccountsOf
      <4>3. QED
            BY <1>3, <2>2, <2>4, <4>2 DEF Behind, u
    <3>5. QED
          BY <3>1, <3>2, <3>3, <3>4, Ciphers
  <2>5. CASE ~(SavesUser /\ op.uid = u) /\ ~(cache[u] # NoUser /\ ~Mistaken(u))
        BY <1>3, <2>2, <2>5 DEF Behind, u
  <2>6. QED
        BY <2>3, <2>4, <2>5
<1>4. QED
      BY <1>1, <1>2, <1>3

LEMMA ShownIsNext ==
    (UsersInv /\ up =>
        \A n \in Names : ShownUnder(n) = IF names[n] = None \/ Removes(n) THEN Absent
                                         ELSE Behind(names[n]))'
BY ShownIs, PTL

\* The account a start finds under a name.
FoundUnder(n) ==
    IF NamesOnDisk[n] = None THEN Absent ELSE AccountOf(userFile[NamesOnDisk[n]])

\* A start finds a name as it is shown, when it is on disk and not in the change
\* under way.
LEMMA FoundAsShown ==
    ASSUME UsersInv, up, NEW n \in Names, NamesOnDisk[n] = names[n],
           ~(SavesUser /\ names[n] = op.uid), ~Removes(n)
    PROVE  FoundUnder(n) = ShownUnder(n)
BY ShownIs DEF FoundUnder, Behind

-----------------------------------------------------------------------------
(* Steps of the directory. *)

\* A step of the catalog is one of the directory, or none.
Mapped ==
    [Directory!Next]_<<[n \in Names |-> ShownUnder(n)], [n \in Names |-> ReadUnder(n)], ChangeOf>>

LEMMA Stutters ==
    ASSUME \A n \in Names : ShownUnder(n)' = ShownUnder(n) /\ ReadUnder(n)' = ReadUnder(n),
           ChangeOf' = ChangeOf
    PROVE  Mapped
<1>1. /\ [n \in Names |-> ShownUnder(n)]' = [n \in Names |-> ShownUnder(n)]
      /\ [n \in Names |-> ReadUnder(n)]' = [n \in Names |-> ReadUnder(n)]
      OBVIOUS
<1>2. QED
      BY <1>1 DEF Mapped

\* One account changes.
LEMMA ChangedAt ==
    ASSUME NEW m \in Names, NEW v, ShownUnder(m)' = v,
           \A n \in Names \ {m} : ShownUnder(n)' = ShownUnder(n)
    PROVE  [n \in Names |-> ShownUnder(n)]' = [[n \in Names |-> ShownUnder(n)] EXCEPT ![m] = v]
<1>1. \A n \in Names : ShownUnder(n)' = IF n = m THEN v ELSE ShownUnder(n)
      OBVIOUS
<1>2. QED
      BY <1>1

\* One account is read.
LEMMA ReadAt ==
    ASSUME NEW m \in Names, NEW r, ReadUnder(m)' = r,
           \A n \in Names \ {m} : ReadUnder(n)' = ReadUnder(n)
    PROVE  [n \in Names |-> ReadUnder(n)]' = [[n \in Names |-> ReadUnder(n)] EXCEPT ![m] = r]
<1>1. \A n \in Names : ReadUnder(n)' = IF n = m THEN r ELSE ReadUnder(n)
      OBVIOUS
<1>2. QED
      BY <1>1

\* What is shown under a name depends on its uid, on a removal and on what is
\* kept of the user, ...
LEMMA ShownSame ==
    ASSUME UsersInv, UsersInv', up, up', NEW n \in Names, names'[n] = names[n],
           Removes(n)' <=> Removes(n),
           names[n] \in Uids => Behind(names[n])' = Behind(names[n])
    PROVE  ShownUnder(n)' = ShownUnder(n)
<1>1. names[n] \in Uids \cup {None}
      BY DEF UsersInv, TypeOK
<1>2. CASE names[n] = None \/ Removes(n)
      BY <1>2, ShownIs, ShownIsNext
<1>3. CASE names[n] \in Uids /\ names[n] # None /\ ~Removes(n)
  <2>1. ShownUnder(n) = Behind(names[n])
        BY <1>3, ShownIs
  <2>2. ShownUnder(n)' = Behind(names[n])'
        BY <1>3, ShownIsNext
  <2>3. QED
        BY <1>3, <2>1, <2>2
<1>4. QED
      BY <1>1, <1>2, <1>3

\* ... and how it is read, on its uid and on the user in the cache.
LEMMA ReadSame ==
    ASSUME up, up', NEW n \in Names, names'[n] = names[n],
           names[n] # None => /\ cache'[names[n]] = NoUser <=> cache[names[n]] = NoUser
                              /\ Mistaken(names[n])' <=> Mistaken(names[n])
    PROVE  ReadUnder(n)' = ReadUnder(n)
<1>1. UidOf(n) = names[n] /\ UidOf(n)' = names[n]
      BY DEF UidOf
<1>2. ReadUnder(n) = IF names[n] = None \/ cache[names[n]] = NoUser THEN "not yet"
                     ELSE IF Mistaken(names[n]) THEN "wrong" ELSE "right"
      BY <1>1 DEF ReadUnder
<1>3. ReadUnder(n)' = IF names[n] = None \/ cache'[names[n]] = NoUser THEN "not yet"
                      ELSE IF Mistaken(names[n])' THEN "wrong" ELSE "right"
      BY <1>1 DEF ReadUnder, Mistaken, SavesUser
<1>4. CASE names[n] = None \/ cache[names[n]] = NoUser
      BY <1>2, <1>3, <1>4
<1>5. CASE names[n] # None /\ cache[names[n]] # NoUser /\ Mistaken(names[n])
      BY <1>2, <1>3, <1>5
<1>6. CASE names[n] # None /\ cache[names[n]] # NoUser /\ ~Mistaken(names[n])
      BY <1>2, <1>3, <1>6
<1>7. QED
      BY <1>4, <1>5, <1>6

\* Nothing is left to write.
LEMMA IdleInv ==
    ASSUME op'.steps = <<>>, op'.open = FALSE, op'.kind \in {"none", "exit"}
    PROVE  DirectoryInv'
<1>1. ~SavesNames' /\ ~RemovesUser' /\ ~NamesTorn' /\ op'.steps # <<"user">>
      BY StepsOf DEF SavesNames, RemovesUser, NamesTorn
<1>2. QED
      BY <1>1 DEF DirectoryInv, StepsOfKind, OwnChange, NamesLag, BeforeOnDisk, Edits

\* The same, in the middle of grant and revoke.
LEMMA EditIdleInv ==
    ASSUME op'.steps = <<>>, op'.open = FALSE, op'.kind \in Edits, names'[op'.name] = op'.uid
    PROVE  DirectoryInv'
<1>1. ~SavesNames' /\ ~RemovesUser' /\ ~NamesTorn' /\ op'.steps # <<"user">>
      BY StepsOf DEF SavesNames, RemovesUser, NamesTorn
<1>2. op'.kind \notin {"none", "exit", "create", "remove"}
      BY DEF Edits
<1>3. QED
      BY <1>1, <1>2 DEF DirectoryInv, StepsOfKind, OwnChange, NamesLag, BeforeOnDisk

-----------------------------------------------------------------------------
(* Sessions. *)

LEMMA StartMaps ==
    ASSUME UsersInv, NEW who \in {Root, None}, Start(who)
    PROVE  Mapped /\ DirectoryInv'
<1>1. /\ ~up /\ up' /\ op = NoOp /\ op' = NoOp /\ names' = NamesOnDisk
      /\ cache = NoCache /\ cache' = NoCache /\ userFile' = userFile
      BY DEF UsersInv, WhileDown, Start
<1>2. NoOp.steps = <<>> /\ NoOp.open = FALSE /\ NoOp.kind = "none"
      BY DEF NoOp
<1>3. NamesOnDisk \in [Names -> Uids \cup {None}]
      BY DiskTypes DEF UsersInv
<1>4. \A n \in Names : UidOf(n)' = UidOf(n) /\ UidOf(n) \in Uids \cup {None}
      BY <1>1, <1>3 DEF UidOf
<1>5. \A n \in Names : ShownUnder(n)' = ShownUnder(n) /\ ReadUnder(n)' = ReadUnder(n)
      BY <1>1, <1>2, <1>4 DEF ShownUnder, ReadUnder, NoCache, AccountOf
<1>6. ChangeOf' = ChangeOf
      BY <1>1, <1>2 DEF ChangeOf
<1>7. QED
      BY <1>1, <1>2, <1>5, <1>6, Stutters, IdleInv

\* A user that is read, by a login or a lookup.
LEMMA ReadMaps ==
    ASSUME UsersInv, UsersInv', NEW n \in Names, LoginUser(n) \/ LooksUp(n)
    PROVE  Mapped /\ DirectoryInv'
<1>1. /\ up /\ up' /\ op = NoOp /\ op' = NoOp /\ names' = names /\ userFile' = userFile
      /\ names[n] # None /\ Findable(names[n])
      /\ \E y \in UsersOf(names[n]) : cache' = [cache EXCEPT ![names[n]] = y]
      BY DEF LoginUser, LooksUp, Ready
<1>2. /\ names \in [Names -> Uids \cup {None}] /\ names[n] \in Uids
      /\ \A m \in Names \ {n} : names[m] # names[n]
      /\ cache \in [Uids -> SavedUsers \cup BlankUsers \cup {NoUser}]
      BY <1>1 DEF UsersInv, TypeOK, OneName
<1>3. PICK u \in Uids : names[n] = u
      BY <1>2
<1>4. NoOp.steps = <<>> /\ NoOp.open = FALSE /\ NoOp.kind = "none"
      BY DEF NoOp
<1>5. ~Removes(n) /\ \A m \in Names : Removes(m)' <=> Removes(m)
      BY <1>1, <1>4 DEF Removes
<1>5a. ~SavesUser /\ ~SavesUser'
      BY <1>1, <1>4, StepsOf DEF SavesUser
<1>6. PICK y \in UsersOf(u) : cache' = [cache EXCEPT ![u] = y]
      BY <1>1, <1>3
<1>7. cache'[u] = y /\ \A v \in Uids \ {u} : cache'[v] = cache[v]
      BY <1>2, <1>6
<1>8. /\ y \in SavedUsers \cup BlankUsers
      /\ userFile[u] \in SavedUsers \cup {NoBytes}
      BY <1>1, <1>3, <1>4, <1>6, Reads
<1>9. y # NoUser
      BY <1>8, Kinds
<1>10. \A v \in Uids : Behind(v)' = Behind(v)
      BY <1>1, <1>5a DEF Behind, AccountOf
<1>11. \A m \in Names : ShownUnder(m)' = ShownUnder(m)
      BY <1>1, <1>2, <1>5, <1>10, ShownSame
<1>12. ASSUME NEW m \in Names \ {n} PROVE ReadUnder(m)' = ReadUnder(m)
  <2>1. names[m] # None => /\ cache'[names[m]] = cache[names[m]]
                           /\ Mistaken(names[m])' <=> Mistaken(names[m])
        BY <1>1, <1>2, <1>3, <1>5a, <1>7 DEF Mistaken
  <2>2. QED
        BY <1>1, <2>1, ReadSame
<1>13. ChangeOf = [kind |-> "none"] /\ ChangeOf' = [kind |-> "none"]
      BY <1>1, <1>4 DEF ChangeOf
<1>14. DirectoryInv'
      BY <1>1, <1>4, IdleInv
<1>15. CASE cache[u] # NoUser
  <2>1. cache' = cache
        BY <1>2, <1>6, <1>15 DEF UsersOf
  <2>2. Mistaken(u)' <=> Mistaken(u)
        BY <1>1, <1>5a, <2>1 DEF Mistaken
  <2>3. ReadUnder(n)' = ReadUnder(n)
        BY <1>1, <1>3, <2>1, <2>2, ReadSame
  <2>4. QED
        BY <1>11, <1>12, <1>13, <1>14, <2>3, Stutters
<1>16. CASE cache[u] = NoUser
  <2>1. ReadUnder(n) = "not yet"
        BY <1>1, <1>3, <1>16 DEF ReadUnder, UidOf
  <2>2. PICK r \in {"right", "wrong"} : ReadUnder(n)' = r
        BY <1>1, <1>3, <1>7, <1>9 DEF ReadUnder, UidOf
  <2>3. ShownUnder(n) = AccountOf(userFile[u])
        BY <1>1, <1>3, <1>5, <1>5a, ShownIs DEF Behind
  <2>4. ShownUnder(n) \in AccountSet \cup {Damaged}
        BY <1>8, <2>3, AccountsOf
  <2>5. [m \in Names |-> ReadUnder(m)]' = [[m \in Names |-> ReadUnder(m)] EXCEPT ![n] = r]
        BY <1>12, <2>2, ReadAt
  <2>6. [m \in Names |-> ShownUnder(m)]' = [m \in Names |-> ShownUnder(m)]
        BY <1>11
  <2>7. Directory!Reads(n)
        BY <1>13, <2>1, <2>4, <2>5, <2>6
        DEF Directory!Reads, Directory!Taken, Directory!NoChange, AccountSet
  <2>8. QED
        BY <1>14, <2>7 DEF Mapped, Directory!Next
<1>17. QED
      BY <1>15, <1>16

\* A login of root, the begin of an exit, and the executors' own steps.
LEMMA SessionMaps ==
    ASSUME UsersInv, UsersInv', DirectoryInv,
           \/ Exit \/ LoginRoot \/ PermissionFails
           \/ \E n \in Names : \E kind \in {"grant", "revoke"}, perms \in SUBSET Perms :
                 BeginPermissions(kind, n, perms)
    PROVE  Mapped /\ DirectoryInv'
<1>1. /\ up /\ up' /\ op.steps = <<>> /\ op.kind # "remove" /\ op'.kind # "remove"
      /\ UNCHANGED <<names, cache, userFile, namesFile>>
  <2>1. CASE Exit
        BY <2>1 DEF Exit, Ready, NoOp
  <2>2. CASE LoginRoot
        BY <2>2 DEF LoginRoot, Ready, NoOp
  <2>3. CASE PermissionFails
        BY <2>3 DEF PermissionFails, NoOp
  <2>4. ASSUME NEW n \in Names, NEW kind \in {"grant", "revoke"}, NEW perms \in SUBSET Perms,
               BeginPermissions(kind, n, perms)
        PROVE  /\ up /\ up' /\ op.steps = <<>> /\ op.kind # "remove" /\ op'.kind # "remove"
               /\ UNCHANGED <<names, cache, userFile, namesFile>>
        BY <2>4 DEF BeginPermissions, Administers, Ready, NoOp
  <2>5. QED
        BY <2>1, <2>2, <2>3, <2>4
<1>2. NoOp.kind = "none" /\ NoOp.steps = <<>> /\ NoOp.open = FALSE
      BY DEF NoOp
<1>3. ~SavesUser /\ ~SavesUser'
  <2>1. op'.steps \in {<<>>, <<"names">>}
        BY <1>1, <1>2 DEF Exit, LoginRoot, PermissionFails, BeginPermissions, NoOp, Ready
  <2>2. QED
        BY <1>1, <2>1, StepsOf DEF SavesUser
<1>4. \A n \in Names : ShownUnder(n)' = ShownUnder(n) /\ ReadUnder(n)' = ReadUnder(n)
  <2> SUFFICES ASSUME NEW n \in Names
               PROVE  ShownUnder(n)' = ShownUnder(n) /\ ReadUnder(n)' = ReadUnder(n)
      OBVIOUS
  <2>1. names'[n] = names[n] /\ (Removes(n)' <=> Removes(n))
        BY <1>1 DEF Removes
  <2>2. Behind(names[n])' = Behind(names[n]) /\ (Mistaken(names[n])' <=> Mistaken(names[n]))
        BY <1>1, <1>3 DEF Behind, Mistaken, AccountOf
  <2>3. ShownUnder(n)' = ShownUnder(n)
        BY <1>1, <2>1, <2>2, ShownSame
  <2>4. ReadUnder(n)' = ReadUnder(n)
        BY <1>1, <2>1, <2>2, ReadSame
  <2>5. QED
        BY <2>3, <2>4
<1>5. CASE Exit
  <2>1. op' = [NoOp EXCEPT !.kind = "exit", !.steps = <<"names">>]
        BY <1>5 DEF Exit
  <2>2. op'.kind = "exit" /\ op'.steps = <<"names">> /\ ~op'.open /\ op'.name = None
        BY <2>1 DEF NoOp
  <2>3. ChangeOf = [kind |-> "none"] /\ ChangeOf' = [kind |-> "exit"]
        BY <1>1, <2>2, StepsOf DEF ChangeOf
  <2>4. /\ [n \in Names |-> ShownUnder(n)]' = [n \in Names |-> ShownUnder(n)]
        /\ [n \in Names |-> ReadUnder(n)]' = [n \in Names |-> ReadUnder(n)]
        BY <1>4
  <2>5. Mapped
        BY <2>3, <2>4 DEF Mapped, Directory!Next, Directory!BeginExit, Directory!NoChange
  <2>6. NamesOnDisk' = NamesOnDisk /\ NamesOnDisk = names
        BY <1>1, StepsOf DEF UsersInv, FilesAgree, SavesNames, NamesOnDisk
  <2>7. DirectoryInv'
        BY <1>1, <2>2, <2>6, StepsOf
        DEF DirectoryInv, StepsOfKind, OwnChange, NamesLag, NamesTorn, BeforeOnDisk, RemovesUser, Edits
  <2>8. QED
        BY <2>5, <2>7
<1>6. CASE LoginRoot \/ PermissionFails
  <2>1. op' = NoOp
        BY <1>6 DEF LoginRoot, Ready, PermissionFails
  <2>2. ChangeOf' = ChangeOf
        BY <1>1, <1>2, <2>1 DEF ChangeOf
  <2>3. QED
        BY <1>2, <1>4, <2>1, <2>2, Stutters, IdleInv
<1>7. ASSUME NEW n \in Names, NEW kind \in {"grant", "revoke"}, NEW perms \in SUBSET Perms,
             BeginPermissions(kind, n, perms)
      PROVE  Mapped /\ DirectoryInv'
  <2>1. op'.steps = <<>> /\ op'.open = FALSE /\ op'.kind = kind /\ op'.name = n /\ op'.uid = names[n]
        BY <1>7 DEF BeginPermissions, NoOp
  <2>2. ChangeOf' = ChangeOf
        BY <1>1, <2>1 DEF ChangeOf
  <2>3. kind \in Edits /\ names'[op'.name] = op'.uid
        BY <1>1, <2>1 DEF Edits
  <2>4. QED
        BY <1>4, <2>1, <2>2, <2>3, Stutters, EditIdleInv
<1>8. QED
      BY <1>5, <1>6, <1>7

-----------------------------------------------------------------------------
(* Changes. *)

LEMMA CreateUserMaps ==
    ASSUME UsersInv, UsersInv', Remember,
           NEW n \in Names, NEW p \in Passwords, NEW u \in Uids, CreateUser(n, p, u)
    PROVE  Mapped /\ DirectoryInv'
<1>1. /\ up /\ up' /\ op = NoOp /\ names[n] = None /\ u \notin used
      /\ names' = [names EXCEPT ![n] = u] /\ cache' = [cache EXCEPT ![u] = User(n, p, {})]
      /\ op' = [NoOp EXCEPT !.kind = "create", !.name = n, !.uid = u, !.steps = <<"user", "names">>]
      /\ UNCHANGED <<namesFile, userFile>>
      BY DEF CreateUser, Administers, Ready
<1>2. /\ names \in [Names -> Uids \cup {None}] /\ cache \in [Uids -> SavedUsers \cup BlankUsers \cup {NoUser}]
      /\ \A m \in Names : names[m] # u
      BY <1>1, UsersCatalogAssumption DEF UsersInv, TypeOK, OneName
<1>3. op.steps = <<>> /\ op.kind = "none" /\ op'.kind = "create" /\ op'.name = n /\ op'.uid = u
      /\ op'.steps = <<"user", "names">>
      BY <1>1 DEF NoOp
<1>4. /\ User(n, p, {}) \in WholeUsers /\ n # None /\ u # None
      /\ User(n, p, {}) # NoUser /\ User(n, p, {}).name # Garbled
      BY Changes, Kinds, UsersCatalogAssumption
<1>5. ~SavesUser /\ SavesUser'
      BY <1>3, StepsOf DEF SavesUser
<1>6. \A m \in Names : ~Removes(m) /\ ~Removes(m)'
      BY <1>3 DEF Removes
<1>7. ShownUnder(n) = Absent /\ before' = Absent
  <2>1. ShownUnder(n) = Absent
        BY <1>1, ShownIs
  <2>2. QED
        BY <1>3, <1>4, <2>1, StepsOf DEF Remember
<1> DEFINE a == AccountOf(User(n, p, {}))
<1>8. a \in AccountSet
      BY <1>4, AccountsOf
<1>9. /\ names'[n] = u /\ cache'[u] = User(n, p, {})
      /\ \A v \in Uids \ {u} : cache'[v] = cache[v]
      /\ \A m \in Names \ {n} : names'[m] = names[m]
      BY <1>1, <1>2
<1>10. ShownUnder(n)' = a
  <2>1. ShownUnder(n)' = Behind(u)'
        BY <1>1, <1>4, <1>6, <1>9, ShownIsNext
  <2>2. Behind(u)' = AccountOf(cache'[u])
        BY <1>3, <1>5 DEF Behind, AccountOf
  <2>3. QED
        BY <1>9, <2>1, <2>2
<1>11. ReadUnder(n)' = "right"
      BY <1>1, <1>4, <1>9 DEF ReadUnder, UidOf, Mistaken
<1> HIDE DEF a
<1>12. ASSUME NEW m \in Names \ {n}
       PROVE  ShownUnder(m)' = ShownUnder(m) /\ ReadUnder(m)' = ReadUnder(m)
  <2>1. names'[m] = names[m] /\ (Removes(m)' <=> Removes(m))
        BY <1>6, <1>9
  <2>2. ASSUME names[m] \in Uids
        PROVE  /\ cache'[names[m]] = cache[names[m]]
               /\ Behind(names[m])' = Behind(names[m])
               /\ Mistaken(names[m])' <=> Mistaken(names[m])
    <3>1. PICK v \in Uids \ {u} : names[m] = v
          BY <1>2, <2>2
    <3>2. cache'[v] = cache[v] /\ userFile'[v] = userFile[v] /\ op'.uid # v
          BY <1>1, <1>3, <1>9
    <3>3. Behind(v)' = Behind(v) /\ (Mistaken(v)' <=> Mistaken(v))
          BY <1>5, <3>2 DEF Behind, Mistaken, AccountOf
    <3>4. Behind(names[m])' = Behind(v)' /\ (Mistaken(names[m])' <=> Mistaken(v)')
          BY <2>1, <3>1 DEF Behind, Mistaken
    <3>5. QED
          BY <3>1, <3>2, <3>3, <3>4
  <2>3. ShownUnder(m)' = ShownUnder(m)
        BY <1>1, <2>1, <2>2, ShownSame
  <2>4. names[m] # None => names[m] \in Uids
        BY <1>2
  <2>5. ReadUnder(m)' = ReadUnder(m)
        BY <1>1, <2>1, <2>2, <2>4, ReadSame
  <2>6. QED
        BY <2>3, <2>5
<1>13. [m \in Names |-> ShownUnder(m)]' = [[m \in Names |-> ShownUnder(m)] EXCEPT ![n] = a]
      BY <1>10, <1>12, ChangedAt
<1>14. [m \in Names |-> ReadUnder(m)]' = [[m \in Names |-> ReadUnder(m)] EXCEPT ![n] = "right"]
      BY <1>11, <1>12, ReadAt
<1>15. ChangeOf = [kind |-> "none"]
       /\ ChangeOf' = [kind |-> "create", name |-> n, before |-> ShownUnder(n)]
      BY <1>3, <1>7, StepsOf DEF ChangeOf
<1>16. Directory!Create(n, a)
      BY <1>7, <1>13, <1>14, <1>15 DEF Directory!Create, Directory!Changed, Directory!NoChange
<1>17. Mapped
      BY <1>8, <1>16 DEF Mapped, Directory!Next, AccountSet
<1>18. NamesOnDisk' = NamesOnDisk /\ NamesOnDisk = names
      BY <1>1, <1>3, StepsOf DEF UsersInv, FilesAgree, SavesNames, NamesOnDisk
<1>19. \A m \in Names : NamesOnDisk'[m] = names'[m] \/ m = n
      BY <1>9, <1>18
<1>20. DirectoryInv'
      BY <1>1, <1>3, <1>7, <1>9, <1>18, <1>19, StepsOf
      DEF DirectoryInv, StepsOfKind, OwnChange, NamesLag, NamesTorn, BeforeOnDisk, RemovesUser, Edits
<1>21. QED
      BY <1>17, <1>20

LEMMA RemoveUserMaps ==
    ASSUME UsersInv, UsersInv', Remember, NEW n \in Names, RemoveUser(n)
    PROVE  Mapped /\ DirectoryInv'
<1>1. names[n] # None /\ names \in [Names -> Uids \cup {None}]
      BY DEF RemoveUser, UsersInv, TypeOK
<1>2. PICK u \in Uids : names[n] = u
      BY <1>1
<1>3. /\ up /\ up' /\ op = NoOp /\ u # None /\ Findable(u)
      /\ cache' = [cache EXCEPT ![u] = NoUser]
      /\ names' = [names EXCEPT ![n] = None] \/ names' = names
      /\ op' = [NoOp EXCEPT !.kind = "remove", !.name = n, !.uid = u, !.steps = <<"unlink", "names">>]
      /\ UNCHANGED <<namesFile, userFile>>
      BY <1>2 DEF RemoveUser, Administers, Ready
<1>4. /\ cache \in [Uids -> SavedUsers \cup BlankUsers \cup {NoUser}]
      /\ \A m \in Names \ {n} : names[m] # u
      BY <1>1, <1>2 DEF UsersInv, TypeOK, OneName
<1>5. op.steps = <<>> /\ op.kind = "none" /\ op'.kind = "remove" /\ op'.name = n /\ op'.uid = u
      /\ op'.steps = <<"unlink", "names">>
      BY <1>3 DEF NoOp
<1>6. n # None /\ ~SavesUser /\ ~SavesUser'
      BY <1>5, StepsOf, UsersCatalogAssumption DEF SavesUser
<1>7. Removes(n)' /\ ~Removes(n) /\ \A m \in Names \ {n} : ~Removes(m) /\ ~Removes(m)'
      BY <1>5 DEF Removes
<1>8. PICK y : y \in UsersOf(u)
      BY <1>3, <1>5, Kinds DEF Findable, UsersOf, Loads, Deciphered
<1>9. userFile[u] \in SavedUsers \cup {NoBytes}
      BY <1>3, <1>5, <1>8, Reads
<1>10. ShownUnder(n) = AccountOf(userFile[u])
      BY <1>2, <1>3, <1>6, <1>7, ShownIs DEF Behind
<1>11. ShownUnder(n) \in AccountSet \cup {Damaged}
      BY <1>9, <1>10, AccountsOf
<1>12. before' = ShownUnder(n)
      BY <1>5, <1>6, StepsOf DEF Remember
<1>13. /\ \A v \in Uids \ {u} : cache'[v] = cache[v]
       /\ \A m \in Names \ {n} : names'[m] = names[m]
       /\ names'[n] \in {None, u} /\ cache'[u] = NoUser
      BY <1>1, <1>2, <1>3, <1>4
<1>14. ShownUnder(n)' = Absent
      BY <1>3, <1>7, ShownIsNext
<1>15. ReadUnder(n)' = "not yet"
      BY <1>3, <1>13 DEF ReadUnder, UidOf
<1>16. ASSUME NEW m \in Names \ {n}
       PROVE  ShownUnder(m)' = ShownUnder(m) /\ ReadUnder(m)' = ReadUnder(m)
  <2>1. names'[m] = names[m] /\ (Removes(m)' <=> Removes(m))
        BY <1>7, <1>13
  <2>2. ASSUME names[m] \in Uids
        PROVE  /\ cache'[names[m]] = cache[names[m]]
               /\ Behind(names[m])' = Behind(names[m])
               /\ Mistaken(names[m])' <=> Mistaken(names[m])
    <3>1. PICK v \in Uids \ {u} : names[m] = v
          BY <1>4, <2>2
    <3>2. cache'[v] = cache[v] /\ userFile'[v] = userFile[v]
          BY <1>3, <1>13
    <3>3. Behind(v)' = Behind(v) /\ (Mistaken(v)' <=> Mistaken(v))
          BY <1>6, <3>2 DEF Behind, Mistaken, AccountOf
    <3>4. Behind(names[m])' = Behind(v)' /\ (Mistaken(names[m])' <=> Mistaken(v)')
          BY <2>1, <3>1 DEF Behind, Mistaken
    <3>5. QED
          BY <3>1, <3>2, <3>3, <3>4
  <2>3. ShownUnder(m)' = ShownUnder(m)
        BY <1>3, <2>1, <2>2, ShownSame
  <2>4. names[m] # None => names[m] \in Uids
        BY <1>1
  <2>5. ReadUnder(m)' = ReadUnder(m)
        BY <1>3, <2>1, <2>2, <2>4, ReadSame
  <2>6. QED
        BY <2>3, <2>5
<1>17. [m \in Names |-> ShownUnder(m)]' = [[m \in Names |-> ShownUnder(m)] EXCEPT ![n] = Absent]
      BY <1>14, <1>16, ChangedAt
<1>18. [m \in Names |-> ReadUnder(m)]' = [[m \in Names |-> ReadUnder(m)] EXCEPT ![n] = "not yet"]
      BY <1>15, <1>16, ReadAt
<1>19. ChangeOf = [kind |-> "none"]
       /\ ChangeOf' = [kind |-> "remove", name |-> n, before |-> ShownUnder(n)]
      BY <1>5, <1>12, StepsOf DEF ChangeOf
<1>20. Directory!Remove(n)
      BY <1>11, <1>17, <1>18, <1>19
      DEF Directory!Remove, Directory!Taken, Directory!Changed, Directory!NoChange, AccountSet
<1>21. Mapped
      BY <1>20 DEF Mapped, Directory!Next
<1>22. NamesOnDisk' = NamesOnDisk /\ NamesOnDisk = names
      BY <1>3, <1>5, StepsOf DEF UsersInv, FilesAgree, SavesNames, NamesOnDisk
<1>23. RemovesUser'
      BY <1>5 DEF RemovesUser
<1>24. DirectoryInv'
      BY <1>2, <1>3, <1>5, <1>10, <1>12, <1>13, <1>22, <1>23, StepsOf
      DEF DirectoryInv, StepsOfKind, OwnChange, NamesLag, NamesTorn, BeforeOnDisk, Edits, AccountOf
<1>25. QED
      BY <1>21, <1>24

\* A user in memory is given a password or a permission.
LEMMA EditMaps ==
    ASSUME UsersInv, UsersInv', Remember, up, up', op.steps = <<>>, op.kind # "remove",
           NEW n \in Names, NEW u \in Uids, names[n] = u, Findable(u),
           NEW y \in UsersOf(u), NEW x \in SavedUsers \cup BlankUsers, x.name = y.name,
           cache' = [cache EXCEPT ![u] = x],
           op'.kind \in Edits, op'.name = n, op'.uid = u, op'.open = FALSE, op'.steps = SaveUser(y),
           UNCHANGED <<names, namesFile, userFile>>
    PROVE  Mapped /\ DirectoryInv'
<1>1. /\ names \in [Names -> Uids \cup {None}] /\ cache \in [Uids -> SavedUsers \cup BlankUsers \cup {NoUser}]
      /\ \A m \in Names \ {n} : names[m] # u
      /\ u # None /\ n # None
      BY UsersCatalogAssumption DEF UsersInv, TypeOK, OneName
<1>2. cache'[u] = x /\ x # NoUser /\ \A v \in Uids \ {u} : cache'[v] = cache[v]
      BY <1>1, Kinds
<1>3. ~SavesUser /\ op'.kind \notin {"none", "exit", "create", "remove"}
      BY StepsOf DEF SavesUser, Edits
<1>4. \A m \in Names : ~Removes(m) /\ ~Removes(m)'
      BY <1>3 DEF Removes
<1>5. /\ y \in SavedUsers \cup BlankUsers
      /\ IF y.name = Blank THEN userFile[u] = NoBytes
         ELSE userFile[u] \in SavedUsers /\ y \in Deciphered(userFile[u])
      BY Reads
<1>6. ShownUnder(n) = AccountOf(userFile[u])
      BY <1>1, <1>3, <1>4, ShownIs DEF Behind
<1>7. cache[u] # NoUser => y = cache[u]
      BY DEF UsersOf
<1>8. ReadUnder(n) = IF cache[u] = NoUser THEN "not yet" ELSE IF Mistaken(u) THEN "wrong" ELSE "right"
      BY <1>1 DEF ReadUnder, UidOf
<1>9. ASSUME NEW m \in Names \ {n}
      PROVE  ShownUnder(m)' = ShownUnder(m) /\ ReadUnder(m)' = ReadUnder(m)
  <2>1. names'[m] = names[m] /\ (Removes(m)' <=> Removes(m))
        BY <1>4
  <2>2. ASSUME names[m] \in Uids
        PROVE  /\ cache'[names[m]] = cache[names[m]]
               /\ Behind(names[m])' = Behind(names[m])
               /\ Mistaken(names[m])' <=> Mistaken(names[m])
    <3>1. PICK v \in Uids \ {u} : names[m] = v
          BY <1>1, <2>2
    <3>2. cache'[v] = cache[v] /\ userFile'[v] = userFile[v] /\ op'.uid # v
          BY <1>2
    <3>3. Behind(v)' = Behind(v) /\ (Mistaken(v)' <=> Mistaken(v))
          BY <1>3, <3>2 DEF Behind, Mistaken, AccountOf
    <3>4. Behind(names[m])' = Behind(v)' /\ (Mistaken(names[m])' <=> Mistaken(v)')
          BY <2>1, <3>1 DEF Behind, Mistaken
    <3>5. QED
          BY <3>1, <3>2, <3>3, <3>4
  <2>3. ShownUnder(m)' = ShownUnder(m)
        BY <2>1, <2>2, ShownSame
  <2>4. names[m] # None => names[m] \in Uids
        BY <1>1
  <2>5. ReadUnder(m)' = ReadUnder(m)
        BY <2>1, <2>2, <2>4, ReadSame
  <2>6. QED
        BY <2>3, <2>5
<1>10. ChangeOf = [kind |-> "none"]
      BY DEF ChangeOf
<1>11. CASE y.name = Blank
  <2>1. op'.steps = <<>> /\ userFile[u] = NoBytes
        BY <1>5, <1>11 DEF SaveUser
  <2>2. ~SavesUser'
        BY <2>1, StepsOf DEF SavesUser
  <2>3. Behind(u)' = Behind(u)
        BY <1>3, <2>2 DEF Behind, AccountOf
  <2>4. ShownUnder(n)' = ShownUnder(n)
        BY <1>4, <2>3, ShownSame
  <2>5. ChangeOf' = [kind |-> "none"]
        BY <2>1 DEF ChangeOf
  <2>6. DirectoryInv'
        BY <2>1, EditIdleInv
  <2>7. ReadUnder(n)' = "right"
        BY <1>1, <1>2, <1>11, UsersCatalogAssumption DEF ReadUnder, UidOf, Mistaken
  <2>8. CASE cache[u] # NoUser
    <3>1. ~Mistaken(u)
          BY <1>7, <1>11, <2>8, UsersCatalogAssumption DEF Mistaken
    <3>2. ReadUnder(n)' = ReadUnder(n)
          BY <1>8, <2>7, <2>8, <3>1
    <3>3. QED
          BY <1>9, <1>10, <2>4, <2>5, <2>6, <3>2, Stutters
  <2>9. CASE cache[u] = NoUser
    <3>1. ReadUnder(n) = "not yet" /\ ShownUnder(n) = Damaged
          BY <1>6, <1>8, <2>1, <2>9, AccountsOf
    <3>2. [m \in Names |-> ReadUnder(m)]' = [[m \in Names |-> ReadUnder(m)] EXCEPT ![n] = "right"]
          BY <1>9, <2>7, ReadAt
    <3>3. [m \in Names |-> ShownUnder(m)]' = [m \in Names |-> ShownUnder(m)]
          BY <1>9, <2>4
    <3>4. Directory!Reads(n)
          BY <1>10, <2>5, <3>1, <3>2, <3>3 DEF Directory!Reads, Directory!Taken, Directory!NoChange
    <3>5. QED
          BY <2>6, <3>4 DEF Mapped, Directory!Next
  <2>10. QED
        BY <2>8, <2>9
<1>12. CASE y.name # Blank
  <2>1. userFile[u] \in SavedUsers /\ (y = userFile[u] \/ y.name = Garbled) /\ x \in SavedUsers
        BY <1>5, <1>12, Ciphers, Kinds
  <2>2. op'.steps = <<"user">>
        BY <1>12 DEF SaveUser
  <2>3. before' = ShownUnder(n)
        BY <1>1, <2>2, StepsOf DEF Remember
  <2>4. SavesUser'
        BY <2>2 DEF SavesUser
  <2> DEFINE a == AccountOf(x)
  <2>5. ShownUnder(n)' = a
    <3>1. ShownUnder(n)' = Behind(u)'
          BY <1>1, <1>4, ShownIsNext
    <3>2. Behind(u)' = AccountOf(cache'[u])
          BY <2>4 DEF Behind, AccountOf
    <3>3. QED
          BY <1>2, <3>1, <3>2
  <2>6. ReadUnder(n)' = "right"
        BY <1>1, <1>2, <2>4 DEF ReadUnder, UidOf, Mistaken
  <2> HIDE DEF a
  <2>7. [m \in Names |-> ShownUnder(m)]' = [[m \in Names |-> ShownUnder(m)] EXCEPT ![n] = a]
        BY <1>9, <2>5, ChangedAt
  <2>8. [m \in Names |-> ReadUnder(m)]' = [[m \in Names |-> ReadUnder(m)] EXCEPT ![n] = "right"]
        BY <1>9, <2>6, ReadAt
  <2>9. ChangeOf' = [kind |-> "edit", name |-> n, before |-> ShownUnder(n)]
        BY <1>3, <2>2, <2>3, StepsOf DEF ChangeOf
  <2>10. DirectoryInv'
        BY <1>3, <1>6, <2>2, <2>3, StepsOf
        DEF DirectoryInv, StepsOfKind, OwnChange, NamesLag, NamesTorn, BeforeOnDisk, RemovesUser, SavesNames,
            AccountOf
  <2>11. CASE y.name = Garbled
    <3>1. a = Damaged
          BY <2>1, <2>11, AccountsOf DEF a
    <3>2. ShownUnder(n) = Damaged \/ (ShownUnder(n) \in AccountSet /\ ReadUnder(n) # "right")
      <4>1. CASE userFile[u] \in WholeUsers
        <5>1. cache[u] # NoUser => Mistaken(u)
              BY <1>3, <1>7, <2>11, <4>1 DEF Mistaken
        <5>2. QED
              BY <1>6, <1>8, <4>1, <5>1, AccountsOf
      <4>2. CASE userFile[u] \notin WholeUsers
            BY <1>6, <2>1, <4>2, Kinds, AccountsOf
      <4>3. QED
            BY <4>1, <4>2
    <3>3. Directory!EditDamages(n)
          BY <1>10, <2>7, <2>8, <2>9, <3>1, <3>2
          DEF Directory!EditDamages, Directory!Changed, Directory!NoChange, AccountSet
    <3>4. QED
          BY <2>10, <3>3 DEF Mapped, Directory!Next
  <2>12. CASE y.name # Garbled
    <3>1. y \in WholeUsers /\ userFile[u] = y /\ x \in WholeUsers
          BY <2>1, <2>12, Kinds
    <3>2. a \in AccountSet /\ ShownUnder(n) \in AccountSet
          BY <1>6, <3>1, AccountsOf DEF a
    <3>3. cache[u] # NoUser => ~Mistaken(u)
          BY <1>7, <2>12 DEF Mistaken
    <3>4. ReadUnder(n) # "wrong"
          BY <1>8, <3>3
    <3>5. Directory!Edit(n, a)
          BY <1>10, <2>7, <2>8, <2>9, <3>2, <3>4
          DEF Directory!Edit, Directory!Changed, Directory!NoChange, AccountSet
    <3>6. QED
          BY <2>10, <3>2, <3>5 DEF Mapped, Directory!Next, AccountSet
  <2>13. QED
        BY <2>11, <2>12
<1>13. QED
      BY <1>11, <1>12

LEMMA UpdatePasswordMaps ==
    ASSUME UsersInv, UsersInv', Remember, NEW n \in Names, NEW p \in Passwords, UpdatePassword(n, p)
    PROVE  Mapped /\ DirectoryInv'
<1>1. names[n] \in Uids
      BY DEF UpdatePassword, UsersInv, TypeOK
<1>2. PICK u \in Uids : names[n] = u
      BY <1>1
<1>3. /\ up /\ up' /\ op = NoOp /\ Findable(u)
      /\ \E y \in UsersOf(u) :
            /\ cache' = [cache EXCEPT ![u] = [y EXCEPT !.password = p]]
            /\ op' = [NoOp EXCEPT !.kind = "password", !.name = n, !.uid = u, !.steps = SaveUser(y)]
      /\ UNCHANGED <<names, namesFile, userFile>>
      BY <1>2 DEF UpdatePassword, Ready
<1>4. PICK y \in UsersOf(u) :
            /\ cache' = [cache EXCEPT ![u] = [y EXCEPT !.password = p]]
            /\ op' = [NoOp EXCEPT !.kind = "password", !.name = n, !.uid = u, !.steps = SaveUser(y)]
      BY <1>3
<1>5. op.steps = <<>> /\ op.kind # "remove"
      BY <1>3 DEF NoOp
<1>6. y \in SavedUsers \cup BlankUsers
      BY <1>3, <1>5, Reads
<1>7. PICK x \in SavedUsers \cup BlankUsers : x = [y EXCEPT !.password = p] /\ x.name = y.name
      BY <1>6, Changes
<1>8. cache' = [cache EXCEPT ![u] = x]
      BY <1>4, <1>7
<1>9. op'.kind \in Edits /\ op'.name = n /\ op'.uid = u /\ op'.open = FALSE /\ op'.steps = SaveUser(y)
      BY <1>4 DEF NoOp, Edits
<1>10. QED
      BY <1>2, <1>3, <1>5, <1>7, <1>8, <1>9, EditMaps

LEMMA UpdatePermissionMaps ==
    ASSUME UsersInv, UsersInv', DirectoryInv, Remember, NEW p \in Perms, UpdatePermission(p)
    PROVE  Mapped /\ DirectoryInv'
<1>1. /\ up /\ up' /\ op.kind \in {"grant", "revoke"} /\ op.steps = <<>>
      /\ UNCHANGED <<names, namesFile, userFile>>
      BY DEF UpdatePermission
<1>2. op.uid \in Uids /\ op.name \in Names /\ op \in Ops
      BY <1>1 DEF UsersInv, SaveSteps, TypeOK
<1>3. PICK u \in Uids : op.uid = u
      BY <1>2
<1>4. PICK n \in Names : op.name = n
      BY <1>2
<1>5. /\ Findable(u)
      /\ \E y \in UsersOf(u) :
            /\ cache' = [cache EXCEPT ![u] = Updated(op.kind, y, p)]
            /\ op' = [op EXCEPT !.perms = @ \ {p}, !.steps = SaveUser(y)]
      BY <1>3 DEF UpdatePermission
<1>6. PICK y \in UsersOf(u) :
            /\ cache' = [cache EXCEPT ![u] = Updated(op.kind, y, p)]
            /\ op' = [op EXCEPT !.perms = @ \ {p}, !.steps = SaveUser(y)]
      BY <1>5
<1>7. names[n] = u /\ op.kind \in Edits /\ op.kind # "remove"
      BY <1>1, <1>3, <1>4 DEF DirectoryInv, OwnChange, Edits
<1>8. y \in SavedUsers \cup BlankUsers
      BY <1>1, <1>5, Reads
<1>9. PICK x \in SavedUsers \cup BlankUsers : x = Updated(op.kind, y, p) /\ x.name = y.name
      BY <1>8, Changes
<1>10. cache' = [cache EXCEPT ![u] = x]
      BY <1>6, <1>9
<1>11. op'.kind = op.kind /\ op'.name = n /\ op'.uid = u /\ op'.open = op.open /\ op'.steps = SaveUser(y)
      BY <1>2, <1>3, <1>4, <1>6 DEF Ops
<1>12. op.open = FALSE
      BY <1>1 DEF DirectoryInv, StepsOfKind
<1>13. QED
      BY <1>1, <1>5, <1>7, <1>9, <1>10, <1>11, <1>12, EditMaps

-----------------------------------------------------------------------------
(* Files. *)

\* The steps tell the change.
LEMMA KindOfSteps ==
    ASSUME UsersInv, DirectoryInv
    PROVE  /\ op.steps = <<"user", "names">>   => op.kind = "create"
           /\ op.steps = <<"user">>            => op.kind \in Edits
           /\ op.steps = <<"unlink", "names">> => op.kind = "remove"
           /\ op.steps = <<"names">>           => op.kind \in {"create", "remove", "exit"}
<1>1. op.kind \in {"none", "create", "remove", "password", "grant", "revoke", "exit"}
      BY DEF UsersInv, TypeOK, Ops
<1>2. QED
      BY <1>1, StepsOf DEF DirectoryInv, StepsOfKind, Edits

\* The user to save is shown from the cache.
LEMMA TruncatesUserMaps ==
    ASSUME UsersInv, UsersInv', DirectoryInv, Remember, TruncatesUser
    PROVE  Mapped /\ DirectoryInv'
<1>0. PICK u : op.uid = u
      OBVIOUS
<1>1. /\ up /\ up' /\ op.steps # <<>> /\ Head(op.steps) = "user" /\ op.open = FALSE
      /\ userFile' = [userFile EXCEPT ![u] = NoBytes] /\ op' = [op EXCEPT !.open = TRUE]
      /\ UNCHANGED <<names, cache, namesFile>>
      BY <1>0 DEF TruncatesUser, AtStep, Opens
<1>2. op \in Ops /\ userFile \in [Uids -> SavedUsers \cup {NoFile, NoBytes}]
      /\ names \in [Names -> Uids \cup {None}]
      BY DEF UsersInv, TypeOK
<1>3. /\ op'.steps = op.steps /\ op'.kind = op.kind /\ op'.name = op.name /\ op'.uid = u
      /\ op'.open = TRUE
      BY <1>0, <1>1, <1>2 DEF Ops
<1>4. op.steps \in {<<"user", "names">>, <<"user">>} /\ SavesUser
      BY <1>1, <1>2, StepsOf DEF Ops, Steps, SavesUser
<1>5. u \in Uids /\ cache[u] # NoUser /\ cache[u] \in SavedUsers
      BY <1>0, <1>4, Kinds DEF UsersInv, SaveSteps
<1>6. userFile'[u] = NoBytes /\ \A v \in Uids \ {u} : userFile'[v] = userFile[v]
      BY <1>1, <1>2, <1>5
<1>6a. \A v \in Uids : Behind(v)' = Behind(v) /\ (Mistaken(v)' <=> Mistaken(v))
  <2> SUFFICES ASSUME NEW v \in Uids PROVE Behind(v)' = Behind(v) /\ (Mistaken(v)' <=> Mistaken(v))
      OBVIOUS
  <2>1. SavesUser /\ SavesUser' /\ op.uid = u /\ op'.uid = u
        BY <1>3, <1>4, <1>0 DEF SavesUser
  <2>2. CASE v = u
        BY <1>1, <2>1, <2>2 DEF Behind, Mistaken, AccountOf
  <2>3. CASE v # u
        BY <1>1, <1>6, <2>1, <2>3 DEF Behind, Mistaken, AccountOf
  <2>4. QED
        BY <2>2, <2>3
<1>7. ASSUME NEW n \in Names
      PROVE  ShownUnder(n)' = ShownUnder(n) /\ ReadUnder(n)' = ReadUnder(n)
  <2>1. names'[n] = names[n] /\ (Removes(n)' <=> Removes(n)) /\ (names[n] # None => names[n] \in Uids)
        BY <1>1, <1>2, <1>3 DEF Removes
  <2>2. ASSUME names[n] \in Uids
        PROVE  /\ cache'[names[n]] = cache[names[n]]
               /\ Behind(names[n])' = Behind(names[n])
               /\ Mistaken(names[n])' <=> Mistaken(names[n])
    <3>1. PICK v \in Uids : names[n] = v
          BY <2>2
    <3>2. Behind(v)' = Behind(v) /\ (Mistaken(v)' <=> Mistaken(v))
          BY <1>6a
    <3>3. Behind(names[n])' = Behind(v)' /\ (Mistaken(names[n])' <=> Mistaken(v)')
          BY <2>1, <3>1 DEF Behind, Mistaken
    <3>4. QED
          BY <1>1, <3>1, <3>2, <3>3
  <2>3. ShownUnder(n)' = ShownUnder(n)
        BY <1>1, <2>1, <2>2, ShownSame
  <2>4. ReadUnder(n)' = ReadUnder(n)
        BY <1>1, <2>1, <2>2, ReadSame
  <2>5. QED
        BY <2>3, <2>4
<1>8. before' = before
      BY <1>1 DEF Remember
<1>9. ChangeOf' = ChangeOf
      BY <1>3, <1>8 DEF ChangeOf
<1>10. op.kind \in {"create"} \cup Edits /\ op.kind # "remove"
      BY <1>4, KindOfSteps DEF Edits
<1>11. NamesOnDisk' = NamesOnDisk /\ ~NamesTorn /\ ~NamesTorn' /\ ~RemovesUser'
      /\ (SavesNames' => SavesNames)
      BY <1>1, <1>3, <1>4, StepsOf DEF NamesOnDisk, NamesTorn, RemovesUser, SavesNames
<1>12. DirectoryInv'
      BY <1>0, <1>1, <1>3, <1>4, <1>6, <1>8, <1>10, <1>11, StepsOf
      DEF DirectoryInv, StepsOfKind, OwnChange, NamesLag, BeforeOnDisk
<1>13. QED
      BY <1>7, <1>9, <1>12, Stutters

\* The last step of a save is the end of the change.
LEMMA SavedMaps ==
    ASSUME op.steps # <<>>, op'.steps = <<>>,
           \A n \in Names : ShownUnder(n)' = ShownUnder(n) /\ ReadUnder(n)' = ReadUnder(n)
    PROVE  Mapped
<1>1. /\ [n \in Names |-> ShownUnder(n)]' = [n \in Names |-> ShownUnder(n)]
      /\ [n \in Names |-> ReadUnder(n)]' = [n \in Names |-> ReadUnder(n)]
      OBVIOUS
<1>2. ChangeOf # [kind |-> "none"] /\ ChangeOf' = [kind |-> "none"]
  <2>1. ChangeOf.kind \in {"exit", "create", "remove", "edit"}
        BY DEF ChangeOf
  <2>2. QED
        BY <2>1 DEF ChangeOf
<1>3. QED
      BY <1>1, <1>2 DEF Mapped, Directory!Next, Directory!Saved, Directory!NoChange

LEMMA WritesUserMaps ==
    ASSUME UsersInv, UsersInv', DirectoryInv, Remember, WritesUser
    PROVE  Mapped /\ DirectoryInv'
<1>0. PICK u : op.uid = u
      OBVIOUS
<1>1. /\ up /\ up' /\ op.steps # <<>> /\ Head(op.steps) = "user" /\ op.open = TRUE
      /\ userFile' = [userFile EXCEPT ![u] = cache[u]]
      /\ op' = [op EXCEPT !.open = FALSE, !.steps = Tail(op.steps)]
      /\ UNCHANGED <<names, cache, namesFile>>
      BY <1>0 DEF WritesUser, AtStep, StepDone
<1>2. op \in Ops /\ userFile \in [Uids -> SavedUsers \cup {NoFile, NoBytes}]
      /\ names \in [Names -> Uids \cup {None}]
      BY DEF UsersInv, TypeOK
<1>3. /\ op'.steps = Tail(op.steps) /\ op'.kind = op.kind /\ op'.name = op.name /\ op'.uid = u
      /\ op'.open = FALSE
      BY <1>0, <1>1, <1>2 DEF Ops
<1>4. op.steps \in {<<"user", "names">>, <<"user">>} /\ SavesUser
      BY <1>1, <1>2, StepsOf DEF Ops, Steps, SavesUser
<1>5. u \in Uids /\ cache[u] # NoUser /\ cache[u] \in SavedUsers
      BY <1>0, <1>4, Kinds DEF UsersInv, SaveSteps
<1>6. \A v \in Uids \ {u} : userFile'[v] = userFile[v]
      BY <1>1, <1>2, <1>5
<1>6a. \A v \in Uids : Behind(v)' = Behind(v) /\ (Mistaken(v)' <=> Mistaken(v))
  <2> SUFFICES ASSUME NEW v \in Uids PROVE Behind(v)' = Behind(v) /\ (Mistaken(v)' <=> Mistaken(v))
      OBVIOUS
  <2>1. SavesUser /\ ~SavesUser' /\ op.uid = u
        BY <1>0, <1>3, <1>4, StepsOf DEF SavesUser
  <2>2. CASE v = u
    <3>1. userFile'[v] = cache[v] /\ cache'[v] = cache[v]
          BY <1>1, <1>2, <1>5, <2>2
    <3>2. ~Mistaken(v) /\ ~Mistaken(v)'
          BY <2>1, <2>2, <3>1, Kinds DEF Mistaken
    <3>3. Behind(v)' = Behind(v)
          BY <2>1, <2>2, <3>1 DEF Behind, AccountOf
    <3>4. QED
          BY <3>2, <3>3
  <2>3. CASE v # u
        BY <1>1, <1>6, <2>1, <2>3 DEF Behind, Mistaken, AccountOf
  <2>4. QED
        BY <2>2, <2>3
<1>7. ASSUME NEW n \in Names
      PROVE  ShownUnder(n)' = ShownUnder(n) /\ ReadUnder(n)' = ReadUnder(n)
  <2>1. names'[n] = names[n] /\ (Removes(n)' <=> Removes(n)) /\ (names[n] # None => names[n] \in Uids)
        BY <1>1, <1>2, <1>3 DEF Removes
  <2>2. ASSUME names[n] \in Uids
        PROVE  /\ cache'[names[n]] = cache[names[n]]
               /\ Behind(names[n])' = Behind(names[n])
               /\ Mistaken(names[n])' <=> Mistaken(names[n])
    <3>1. PICK v \in Uids : names[n] = v
          BY <2>2
    <3>2. Behind(v)' = Behind(v) /\ (Mistaken(v)' <=> Mistaken(v))
          BY <1>6a
    <3>3. Behind(names[n])' = Behind(v)' /\ (Mistaken(names[n])' <=> Mistaken(v)')
          BY <2>1, <3>1 DEF Behind, Mistaken
    <3>4. QED
          BY <1>1, <3>1, <3>2, <3>3
  <2>3. ShownUnder(n)' = ShownUnder(n)
        BY <1>1, <2>1, <2>2, ShownSame
  <2>4. ReadUnder(n)' = ReadUnder(n)
        BY <1>1, <2>1, <2>2, ReadSame
  <2>5. QED
        BY <2>3, <2>4
<1>8. before' = before
      BY <1>1 DEF Remember
<1>9. NamesOnDisk' = NamesOnDisk /\ ~RemovesUser' /\ ~NamesTorn /\ ~NamesTorn'
      BY <1>1, <1>3, <1>4, StepsOf DEF NamesOnDisk, NamesTorn, RemovesUser
<1>10. CASE op.steps = <<"user", "names">>
  <2>1. op'.steps = <<"names">> /\ op.kind = "create"
        BY <1>3, <1>10, StepsOf, KindOfSteps
  <2>2. ChangeOf' = ChangeOf
        BY <1>1, <1>3, <1>8, <2>1, StepsOf DEF ChangeOf
  <2>3. SavesNames /\ "create" \notin Edits
        BY <1>10 DEF SavesNames, Edits
  <2>4. DirectoryInv'
        BY <1>0, <1>1, <1>3, <1>8, <1>9, <2>1, <2>3, StepsOf
        DEF DirectoryInv, StepsOfKind, OwnChange, NamesLag, BeforeOnDisk
  <2>5. QED
        BY <1>7, <2>2, <2>4, Stutters
<1>11. CASE op.steps = <<"user">>
  <2>1. op'.steps = <<>> /\ op.kind \in Edits
        BY <1>3, <1>11, StepsOf, KindOfSteps
  <2>2. names'[op'.name] = op'.uid
        BY <1>0, <1>1, <1>3, <2>1 DEF DirectoryInv, OwnChange
  <2>3. DirectoryInv'
        BY <1>3, <2>1, <2>2, EditIdleInv
  <2>4. QED
        BY <1>1, <1>7, <2>1, <2>3, SavedMaps
<1>12. QED
      BY <1>4, <1>10, <1>11

\* The file of the user that is removed is shown under no other name.
LEMMA UnlinksUserMaps ==
    ASSUME UsersInv, UsersInv', DirectoryInv, Remember, UnlinksUser
    PROVE  Mapped /\ DirectoryInv'
<1>0. PICK u : op.uid = u
      OBVIOUS
<1>1. /\ up /\ up' /\ op.steps # <<>> /\ Head(op.steps) = "unlink" /\ op.open = FALSE
      /\ userFile' = [userFile EXCEPT ![u] = NoFile]
      /\ op' = [op EXCEPT !.open = FALSE, !.steps = Tail(op.steps)]
      /\ UNCHANGED <<names, cache, namesFile>>
      BY <1>0 DEF UnlinksUser, AtStep, StepDone
<1>2. op \in Ops /\ userFile \in [Uids -> SavedUsers \cup {NoFile, NoBytes}]
      /\ names \in [Names -> Uids \cup {None}]
      BY DEF UsersInv, TypeOK
<1>3. op.steps = <<"unlink", "names">> /\ RemovesUser
      BY <1>1, <1>2, StepsOf DEF Ops, Steps, RemovesUser
<1>4. /\ op'.steps = <<"names">> /\ op'.kind = op.kind /\ op'.name = op.name /\ op'.uid = u
      /\ op'.open = FALSE /\ op.kind = "remove"
      BY <1>0, <1>1, <1>2, <1>3, StepsOf, KindOfSteps DEF Ops
<1>5. u \in Uids /\ op.name \in Names
      BY <1>0, <1>3, <1>4 DEF UsersInv, SaveSteps
<1>6. SavesNames /\ ~NamesTorn /\ ~NamesTorn' /\ ~RemovesUser' /\ NamesOnDisk' = NamesOnDisk
      BY <1>1, <1>3, <1>4, StepsOf DEF SavesNames, NamesTorn, RemovesUser, NamesOnDisk
<1>7. /\ names[op.name] \in {None, u} /\ cache[u] = NoUser /\ NamesOnDisk[op.name] = u
      /\ \A n \in Names \ {op.name} : NamesOnDisk[n] = names[n]
      BY <1>0, <1>4, <1>6 DEF DirectoryInv, OwnChange, NamesLag
<1>8. \A n \in Names \ {op.name} : names[n] # u
      BY <1>5, <1>7, UsersCatalogAssumption DEF UsersInv, OneName
<1>9. userFile'[u] = NoFile /\ \A v \in Uids \ {u} : userFile'[v] = userFile[v]
      BY <1>1, <1>2, <1>5
<1>9a. \A v \in Uids : (Mistaken(v)' <=> Mistaken(v)) /\ (v # u => Behind(v)' = Behind(v))
  <2> SUFFICES ASSUME NEW v \in Uids
               PROVE  (Mistaken(v)' <=> Mistaken(v)) /\ (v # u => Behind(v)' = Behind(v))
      OBVIOUS
  <2>1. ~SavesUser /\ ~SavesUser'
        BY <1>3, <1>4, StepsOf DEF SavesUser
  <2>2. CASE v = u
        BY <1>1, <1>7, <2>2 DEF Mistaken
  <2>3. CASE v # u
        BY <1>1, <1>9, <2>1, <2>3 DEF Behind, Mistaken, AccountOf
  <2>4. QED
        BY <2>2, <2>3
<1>10. ASSUME NEW n \in Names
       PROVE  ShownUnder(n)' = ShownUnder(n) /\ ReadUnder(n)' = ReadUnder(n)
  <2>1. names'[n] = names[n] /\ (Removes(n)' <=> Removes(n)) /\ (names[n] # None => names[n] \in Uids)
        BY <1>1, <1>2, <1>4 DEF Removes
  <2>2. names[n] \in Uids => Mistaken(names[n])' <=> Mistaken(names[n])
    <3> SUFFICES ASSUME names[n] \in Uids PROVE Mistaken(names[n])' <=> Mistaken(names[n])
        OBVIOUS
    <3>1. PICK v \in Uids : names[n] = v
          OBVIOUS
    <3>2. Mistaken(names[n])' <=> Mistaken(v)'
          BY <2>1, <3>1 DEF Mistaken
    <3>3. QED
          BY <1>9a, <3>1, <3>2
  <2>3. ReadUnder(n)' = ReadUnder(n)
        BY <1>1, <2>1, <2>2, ReadSame
  <2>4. CASE Removes(n)
    <3>1. ShownUnder(n) = Absent /\ ShownUnder(n)' = Absent
          BY <1>1, <2>1, <2>4, ShownIs, ShownIsNext
    <3>2. QED
          BY <2>3, <3>1
  <2>5. CASE ~Removes(n)
    <3>1. n # op.name
          BY <1>4, <2>5 DEF Removes
    <3>2. ASSUME names[n] \in Uids PROVE Behind(names[n])' = Behind(names[n])
      <4>1. PICK v \in Uids : names[n] = v
            BY <3>2
      <4>2. v # u
            BY <1>8, <3>1, <4>1
      <4>3. Behind(names[n])' = Behind(v)'
            BY <2>1, <4>1 DEF Behind
      <4>4. QED
            BY <1>9a, <4>1, <4>2, <4>3
    <3>3. ShownUnder(n)' = ShownUnder(n)
          BY <1>1, <2>1, <3>2, ShownSame
    <3>4. QED
          BY <2>3, <3>3
  <2>6. QED
        BY <2>4, <2>5
<1>11. before' = before
      BY <1>1 DEF Remember
<1>12. ChangeOf' = ChangeOf
      BY <1>1, <1>4, <1>11, StepsOf DEF ChangeOf
<1>13. "remove" \notin Edits
      BY DEF Edits
<1>14. DirectoryInv'
      BY <1>0, <1>1, <1>4, <1>6, <1>7, <1>9, <1>13, StepsOf
      DEF DirectoryInv, StepsOfKind, OwnChange, NamesLag, BeforeOnDisk
<1>15. QED
      BY <1>10, <1>12, <1>14, Stutters

LEMMA NamesMap ==
    ASSUME UsersInv, UsersInv', DirectoryInv, Remember, TruncatesNames \/ WritesNames
    PROVE  Mapped /\ DirectoryInv'
<1>1. /\ up /\ up' /\ op.steps # <<>> /\ Head(op.steps) = "names"
      /\ UNCHANGED <<names, cache, userFile>>
      BY DEF TruncatesNames, WritesNames, AtStep
<1>2. op \in Ops /\ names \in [Names -> Uids \cup {None}]
      BY DEF UsersInv, TypeOK
<1>3. op.steps = <<"names">> /\ op.kind \in {"create", "remove", "exit"}
      BY <1>1, <1>2, StepsOf, KindOfSteps DEF Ops, Steps
<1>4. op'.kind = op.kind /\ op'.name = op.name /\ op'.uid = op.uid
      BY <1>2 DEF TruncatesNames, WritesNames, Opens, StepDone, Ops
<1>5. ASSUME NEW n \in Names
      PROVE  ShownUnder(n)' = ShownUnder(n) /\ ReadUnder(n)' = ReadUnder(n)
  <2>1. ~SavesUser /\ ~SavesUser'
        BY <1>2, <1>3, StepsOf DEF SavesUser, TruncatesNames, WritesNames, Opens, StepDone, Ops
  <2>2. names'[n] = names[n] /\ (Removes(n)' <=> Removes(n))
        BY <1>1, <1>4 DEF Removes
  <2>3. Behind(names[n])' = Behind(names[n]) /\ (Mistaken(names[n])' <=> Mistaken(names[n]))
        BY <1>1, <2>1 DEF Behind, Mistaken, AccountOf
  <2>4. ShownUnder(n)' = ShownUnder(n)
        BY <1>1, <2>2, <2>3, ShownSame
  <2>5. ReadUnder(n)' = ReadUnder(n)
        BY <1>1, <2>2, <2>3, ReadSame
  <2>6. QED
        BY <2>4, <2>5
<1>6. before' = before
      BY <1>1 DEF Remember
<1>7. /\ ~RemovesUser /\ ~RemovesUser' /\ op.kind \notin Edits
      /\ (SavesNames' => op'.steps = <<"names">>)
      BY <1>2, <1>3, <1>4, StepsOf
      DEF RemovesUser, SavesNames, Edits, TruncatesNames, WritesNames, Opens, StepDone, Ops
<1>8. CASE TruncatesNames
  <2>1. op'.steps = <<"names">> /\ op'.open = TRUE /\ namesFile' = Torn
        BY <1>2, <1>3, <1>8 DEF TruncatesNames, Opens, Ops
  <2>2. ChangeOf' = ChangeOf
        BY <1>3, <1>4, <1>6, <2>1 DEF ChangeOf
  <2>3. DirectoryInv'
        BY <1>1, <1>3, <1>4, <1>6, <1>7, <2>1, StepsOf
        DEF DirectoryInv, StepsOfKind, OwnChange, NamesLag, NamesTorn, BeforeOnDisk
  <2>4. QED
        BY <1>5, <2>2, <2>3, Stutters
<1>9. CASE WritesNames
  <2>1. op'.steps = <<>> /\ op'.open = FALSE
        BY <1>2, <1>3, <1>9, StepsOf DEF WritesNames, StepDone, Ops
  <2>2. DirectoryInv'
        BY <1>1, <1>3, <1>4, <1>6, <1>7, <2>1, StepsOf
        DEF DirectoryInv, StepsOfKind, OwnChange, NamesLag, NamesTorn, BeforeOnDisk
  <2>3. QED
        BY <1>1, <1>5, <2>1, <2>2, SavedMaps
<1>10. QED
      BY <1>8, <1>9

-----------------------------------------------------------------------------
(* Ends. *)

\* Whatever the change was, with nothing left to write its user is shown as a
\* start would find it.
LEMMA ChangeEndsMaps ==
    ASSUME UsersInv, UsersInv', DirectoryInv, ChangeEnds
    PROVE  Mapped /\ DirectoryInv'
<1>1. /\ up /\ up' /\ op.steps = <<>> /\ op' = NoOp
      /\ UNCHANGED <<names, cache, userFile, namesFile>>
      BY DEF ChangeEnds
<1>2. NoOp.steps = <<>> /\ NoOp.open = FALSE /\ NoOp.kind = "none"
      BY DEF NoOp
<1>3. names \in [Names -> Uids \cup {None}]
      BY DEF UsersInv, TypeOK
<1>4. op.kind = "remove" => /\ names[op.name] \in {None, op.uid} /\ cache[op.uid] = NoUser
                            /\ userFile[op.uid] = NoFile
      BY <1>1, StepsOf DEF DirectoryInv, OwnChange, RemovesUser
<1>5. ~SavesUser /\ ~SavesUser' /\ \A n \in Names : ~Removes(n)'
      BY <1>1, <1>2, StepsOf DEF SavesUser, Removes
<1>5a. ASSUME NEW n \in Names
       PROVE  ShownUnder(n)' = ShownUnder(n) /\ ReadUnder(n)' = ReadUnder(n)
  <2>1. Behind(names[n])' = Behind(names[n]) /\ (Mistaken(names[n])' <=> Mistaken(names[n]))
        BY <1>1, <1>5 DEF Behind, Mistaken, AccountOf
  <2>2. ReadUnder(n)' = ReadUnder(n)
        BY <1>1, <2>1, ReadSame
  <2>3. CASE Removes(n)
    <3>1. ShownUnder(n) = Absent
          BY <1>1, <2>3, ShownIs
    <3>2. names[n] = None \/ Behind(names[n]) = Absent
          BY <1>4, <1>5, <2>3, AccountsOf DEF Removes, Behind
    <3>3. ShownUnder(n)' = IF names[n] = None THEN Absent ELSE Behind(names[n])'
          BY <1>1, <1>5, ShownIsNext
    <3>4. QED
          BY <2>1, <2>2, <3>1, <3>2, <3>3
  <2>4. CASE ~Removes(n)
    <3>1. ShownUnder(n)' = ShownUnder(n)
          BY <1>1, <1>5, <2>1, <2>4, ShownSame
    <3>2. QED
          BY <2>2, <3>1
  <2>5. QED
        BY <2>3, <2>4
<1>6. ChangeOf' = ChangeOf
      BY <1>1, <1>2 DEF ChangeOf
<1>7. QED
      BY <1>1, <1>2, <1>5a, <1>6, Stutters, IdleInv

\* A name that no change is about is found as it was shown, unless the file of
\* names is torn.
LEMMA OthersFound ==
    ASSUME UsersInv, DirectoryInv, up, ~NamesTorn,
           NEW n \in Names, n # op.name \/ op.steps = <<>> \/ op.kind = "exit"
    PROVE  FoundUnder(n) = ShownUnder(n)
<1>1. NamesOnDisk[n] = names[n]
  <2>1. CASE SavesNames
    <3>1. n = op.name /\ op.kind \in {"create", "remove"} => FALSE
          BY <2>1, StepsOf DEF SavesNames
    <3>2. QED
          BY <2>1, <3>1 DEF DirectoryInv, NamesLag
  <2>2. CASE ~SavesNames
        BY <2>2 DEF UsersInv, FilesAgree
  <2>3. QED
        BY <2>1, <2>2
<1>2. ASSUME SavesUser, names[n] = op.uid PROVE FALSE
  <2>1. op.kind \in {"create"} \cup Edits /\ op.steps # <<>>
        BY <1>2, KindOfSteps, StepsOf DEF SavesUser
  <2>2. op.name \in Names /\ op.uid \in Uids
        BY <2>1, UsersCatalogAssumption DEF UsersInv, SaveSteps, Edits
  <2>3. names[op.name] = op.uid /\ n # op.name
        BY <2>1 DEF DirectoryInv, OwnChange, Edits
  <2>4. QED
        BY <1>2, <2>2, <2>3, UsersCatalogAssumption DEF UsersInv, OneName
<1>3. CASE ~Removes(n)
      BY <1>1, <1>2, <1>3, FoundAsShown
<1>4. CASE Removes(n)
  <2>1. op.steps = <<>> /\ op.kind = "remove" /\ op.name = n
        BY <1>4 DEF Removes
  <2>2. names[n] \in {None, op.uid} /\ userFile[op.uid] = NoFile
        BY <2>1, StepsOf DEF DirectoryInv, OwnChange, RemovesUser
  <2>3. ShownUnder(n) = Absent
        BY <1>4, ShownIs
  <2>4. QED
        BY <1>1, <2>2, <2>3, AccountsOf DEF FoundUnder
<1>5. QED
      BY <1>3, <1>4

\* A crash, or an exit that ends: what the next start will find.
LEMMA StoppedMaps ==
    ASSUME UsersInv, DirectoryInv, up, Stopped
    PROVE  Mapped /\ DirectoryInv'
<1>1. /\ ~up' /\ op' = NoOp /\ cache' = NoCache /\ userFile' = userFile
      /\ NamesOnDisk' = NamesOnDisk
      BY DEF Stopped, NamesOnDisk
<1>2. NoOp.steps = <<>> /\ NoOp.open = FALSE /\ NoOp.kind = "none"
      BY DEF NoOp
<1>3. NamesOnDisk \in [Names -> Uids \cup {None}]
      BY DiskTypes DEF UsersInv
<1>4. /\ \A n \in Names : ShownUnder(n)' = FoundUnder(n)
      /\ [n \in Names |-> ReadUnder(n)]' = [n \in Names |-> "not yet"]
  <2>1. \A n \in Names : UidOf(n)' = NamesOnDisk[n] /\ NamesOnDisk[n] \in Uids \cup {None}
        BY <1>1, <1>3 DEF UidOf
  <2>2. \A n \in Names : ShownUnder(n)' = FoundUnder(n)
        BY <1>1, <1>2, <2>1 DEF ShownUnder, FoundUnder, NoCache, AccountOf
  <2>3. \A n \in Names : ReadUnder(n)' = "not yet"
        BY <1>1, <2>1 DEF ReadUnder, NoCache
  <2>4. QED
        BY <2>2, <2>3
<1>5. DirectoryInv'
      BY <1>1, <1>2, IdleInv
<1>6. ChangeOf' = [kind |-> "none"]
      BY <1>1, <1>2 DEF ChangeOf
<1>7. op.kind \in {"none", "create", "remove", "password", "grant", "revoke", "exit"}
      BY DEF UsersInv, TypeOK, Ops
<1>8. CASE op.steps = <<>>
  <2>1. ~NamesTorn
        BY <1>8, StepsOf DEF NamesTorn
  <2>2. \A n \in Names : ShownUnder(n)' = ShownUnder(n)
        BY <1>4, <1>8, <2>1, OthersFound
  <2>3. [n \in Names |-> ShownUnder(n)]' = [n \in Names |-> ShownUnder(n)]
        BY <2>2
  <2>4. Directory!Ends
        BY <1>4, <1>6, <2>3 DEF Directory!Ends, Directory!NoneRead, Directory!NoChange
  <2>5. QED
        BY <1>5, <2>4 DEF Mapped, Directory!Next
<1>9. CASE op.steps # <<>> /\ NamesTorn
  <2>1. op.kind \in {"create", "remove", "exit"}
        BY <1>9, KindOfSteps DEF NamesTorn
  <2>2. ChangeOf.kind \in {"create", "remove", "exit"}
        BY <1>9, <2>1 DEF ChangeOf
  <2>3. NamesOnDisk = NoNames
        BY <1>9 DEF DirectoryInv, NamesLag, NamesOnDisk
  <2>4. \A n \in Names : ShownUnder(n)' = Absent
        BY <1>4, <2>3 DEF FoundUnder, NoNames
  <2>5. [n \in Names |-> ShownUnder(n)]' = [n \in Names |-> Absent]
        BY <2>4
  <2>6. Directory!Ends
        BY <1>4, <1>6, <2>2, <2>5 DEF Directory!Ends, Directory!LoseAll, Directory!NoneRead, Directory!NoChange
  <2>7. QED
        BY <1>5, <2>6 DEF Mapped, Directory!Next
<1>10. CASE op.steps # <<>> /\ ~NamesTorn /\ op.kind = "exit"
  <2>1. \A n \in Names : ShownUnder(n)' = ShownUnder(n)
        BY <1>4, <1>10, OthersFound
  <2>2. [n \in Names |-> ShownUnder(n)]' = [n \in Names |-> ShownUnder(n)]
        BY <2>1
  <2>3. ChangeOf = [kind |-> "exit"]
        BY <1>10 DEF ChangeOf
  <2>4. Directory!Ends
        BY <1>4, <1>6, <2>2, <2>3 DEF Directory!Ends, Directory!NoneRead, Directory!NoChange
  <2>5. QED
        BY <1>5, <2>4 DEF Mapped, Directory!Next
<1>11. CASE op.steps # <<>> /\ ~NamesTorn /\ op.kind \in {"create", "remove"} \cup Edits
  <2>1. op.name \in Names /\ op.uid \in Uids /\ op.uid # None
        BY <1>11, UsersCatalogAssumption DEF UsersInv, SaveSteps, Edits
  <2>2. \A n \in Names \ {op.name} : ShownUnder(n)' = ShownUnder(n)
        BY <1>4, <1>11, OthersFound
  <2>3. ChangeOf = [kind   |-> IF op.kind \in {"create", "remove"} THEN op.kind ELSE "edit",
                    name   |-> op.name, before |-> before]
        BY <1>11 DEF ChangeOf, Edits
  <2>4. \/ FoundUnder(op.name) = before
        \/ ChangeOf.kind = "edit" /\ FoundUnder(op.name) = Damaged
        \/ ChangeOf.kind = "remove" /\ FoundUnder(op.name) = ShownUnder(op.name)
    <3>1. CASE op.kind = "create"
      <4>1. SavesNames
            BY <1>11, <3>1 DEF DirectoryInv, StepsOfKind, SavesNames
      <4>2. QED
            BY <1>11, <3>1, <4>1 DEF DirectoryInv, NamesLag, BeforeOnDisk, FoundUnder
    <3>2. CASE op.kind = "remove"
      <4>1. SavesNames
            BY <1>11, <3>2 DEF DirectoryInv, StepsOfKind, SavesNames
      <4>2. FoundUnder(op.name) = AccountOf(userFile[op.uid])
            BY <1>11, <2>1, <3>2, <4>1 DEF DirectoryInv, NamesLag, FoundUnder
      <4>3. CASE RemovesUser
            BY <4>2, <4>3 DEF DirectoryInv, BeforeOnDisk
      <4>4. CASE ~RemovesUser
        <5>1. FoundUnder(op.name) = Absent
              BY <3>2, <4>2, <4>4, AccountsOf DEF DirectoryInv, OwnChange
        <5>2. ShownUnder(op.name) = Absent
              BY <2>1, <3>2, ShownIs DEF Removes
        <5>3. QED
              BY <2>3, <3>2, <5>1, <5>2
      <4>5. QED
            BY <4>3, <4>4
    <3>3. CASE op.kind \in Edits
      <4>1. op.steps = <<"user">>
            BY <1>11, <3>3 DEF DirectoryInv, StepsOfKind
      <4>2. NamesOnDisk = names /\ names[op.name] = op.uid
            BY <3>3, <4>1, StepsOf DEF UsersInv, FilesAgree, SavesNames, DirectoryInv, OwnChange
      <4>3. FoundUnder(op.name) = AccountOf(userFile[op.uid])
            BY <2>1, <4>2 DEF FoundUnder
      <4>4. ChangeOf.kind = "edit"
            BY <2>3, <3>3 DEF Edits
      <4>5. QED
            BY <3>3, <4>1, <4>3, <4>4, AccountsOf DEF DirectoryInv, BeforeOnDisk
    <3>4. QED
          BY <1>11, <3>1, <3>2, <3>3
  <2> DEFINE v == FoundUnder(op.name)
  <2>5. [n \in Names |-> ShownUnder(n)]' = [[n \in Names |-> ShownUnder(n)] EXCEPT ![op.name] = v]
        BY <1>4, <2>1, <2>2, ChangedAt
  <2> HIDE DEF v
  <2>6. ChangeOf.kind \in {"create", "remove", "edit"} /\ ChangeOf.name = op.name /\ ChangeOf.before = before
        BY <2>3
  <2>8. v = before \/ (ChangeOf.kind = "edit" /\ v = Damaged) \/ v = ShownUnder(op.name)
        BY <2>4 DEF v
  <2>9. CASE v = ShownUnder(op.name)
    <3>1. \A n \in Names : ShownUnder(n)' = ShownUnder(n)
          BY <1>4, <2>2, <2>9 DEF v
    <3>2. [n \in Names |-> ShownUnder(n)]' = [n \in Names |-> ShownUnder(n)]
          BY <3>1
    <3>3. Directory!Ends
          BY <1>4, <1>6, <3>2 DEF Directory!Ends, Directory!NoneRead, Directory!NoChange
    <3>4. QED
          BY <1>5, <3>3 DEF Mapped, Directory!Next
  <2>10. CASE v = before \/ (ChangeOf.kind = "edit" /\ v = Damaged)
    <3>1. Directory!Ends
          BY <1>4, <1>6, <2>5, <2>6, <2>10
          DEF Directory!Ends, Directory!Keep, Directory!NoneRead, Directory!NoChange
    <3>2. QED
          BY <1>5, <3>1 DEF Mapped, Directory!Next
  <2>11. QED
        BY <2>8, <2>9, <2>10
<1>12. QED
  <2>1. op.kind = "none" => op.steps = <<>>
        BY DEF DirectoryInv, StepsOfKind
  <2>2. QED
        BY <1>7, <1>8, <1>9, <1>10, <1>11, <2>1 DEF Edits

-----------------------------------------------------------------------------
(* The steps together. *)

LEMMA StepsMap == UsersInv /\ DirectoryInv /\ [DNext]_dvars => Mapped /\ DirectoryInv'
<1> SUFFICES ASSUME UsersInv, DirectoryInv, [DNext]_dvars PROVE Mapped /\ DirectoryInv'
    OBVIOUS
<1>1. CASE UNCHANGED dvars
  <2>1. /\ [n \in Names |-> ShownUnder(n)]' = [n \in Names |-> ShownUnder(n)]
        /\ [n \in Names |-> ReadUnder(n)]' = [n \in Names |-> ReadUnder(n)]
        /\ ChangeOf' = ChangeOf
        BY <1>1 DEF dvars, vars, ShownUnder, ReadUnder, UidOf, Mistaken, SavesUser, NamesOnDisk,
                    AccountOf, ChangeOf
  <2>2. DirectoryInv'
        BY <1>1 DEF dvars, vars, DirectoryInv, StepsOfKind, OwnChange, NamesLag, NamesTorn, BeforeOnDisk,
           NamesOnDisk, RemovesUser, SavesNames, AccountOf
  <2>3. QED
        BY <2>1, <2>2 DEF Mapped
<1>2. CASE Next /\ Remember
  <2>0. UsersInv'
        BY <1>2, UsersKeep
  <2>1. CASE Session
        BY <1>2, <2>0, <2>1, StartMaps, ReadMaps, SessionMaps DEF Session
  <2>2. CASE Administer
        BY <1>2, <2>0, <2>2, CreateUserMaps, RemoveUserMaps, UpdatePasswordMaps, UpdatePermissionMaps, SessionMaps
        DEF Administer
  <2>3. CASE Save \/ Crash
    <3>1. ASSUME ExitEnds PROVE up /\ Stopped
      <4>1. op # NoOp
            BY <3>1 DEF ExitEnds, NoOp
      <4>2. QED
            BY <3>1, <4>1 DEF ExitEnds, UsersInv, WhileDown
    <3>2. QED
          BY <1>2, <2>0, <2>3, <3>1, TruncatesUserMaps, WritesUserMaps, UnlinksUserMaps, NamesMap, ChangeEndsMaps,
             StoppedMaps
          DEF Save, Crash
  <2>4. QED
        BY <1>2, <2>1, <2>2, <2>3 DEF Next
<1>3. QED
      BY <1>1, <1>2 DEF DNext

LEMMA InitMaps == DInit => Directory!Init /\ DirectoryInv
<1> SUFFICES ASSUME DInit PROVE Directory!Init /\ DirectoryInv
    OBVIOUS
<1>1. op.steps = <<>> /\ op.open = FALSE /\ op.kind = "none" /\ NamesOnDisk = NoNames /\ ~up
      BY DEF DInit, Init, NoOp, NamesOnDisk
<1>2. \A n \in Names : ShownUnder(n) = Absent /\ ReadUnder(n) = "not yet"
      BY <1>1 DEF ShownUnder, ReadUnder, UidOf, NoNames
<1>3. ChangeOf = [kind |-> "none"]
      BY <1>1 DEF ChangeOf
<1>4. Directory!Init
      BY <1>2, <1>3 DEF Directory!Init, Directory!Entries, Directory!NoneRead, Directory!NoChange
<1>5. ~SavesNames /\ ~RemovesUser /\ ~NamesTorn /\ op.steps # <<"user">>
      BY <1>1, StepsOf DEF SavesNames, RemovesUser, NamesTorn
<1>6. DirectoryInv
      BY <1>1, <1>5 DEF DirectoryInv, StepsOfKind, OwnChange, NamesLag, BeforeOnDisk, Edits
<1>7. QED
      BY <1>4, <1>6

-----------------------------------------------------------------------------
\* Over any queries, logins, exits and crashes the catalog and its two kinds of
\* file behave as one directory of accounts (UsersCatalog).
THEOREM CatalogIsDirectory == DSpec => ImplementsDirectory
<1>1. DInit => Init /\ UsersInv
      BY InitUsersInv DEF DInit
<1>2. [DNext]_dvars => [Next]_vars
      BY DEF DNext, dvars
<1>3. DSpec => []UsersInv
      BY <1>1, <1>2, UsersKeep, PTL DEF DSpec
<1>4. DSpec => []DirectoryInv
      BY <1>3, InitMaps, StepsMap, PTL DEF DSpec
<1>5. UsersInv /\ DirectoryInv /\ [DNext]_dvars
         => [Directory!Next]_<<[n \in Names |-> ShownUnder(n)],
                               [n \in Names |-> ReadUnder(n)], ChangeOf>>
      BY StepsMap DEF Mapped
<1>6. QED
      BY <1>3, <1>4, <1>5, InitMaps, PTL DEF DSpec, ImplementsDirectory, Directory!Spec
=============================================================================
