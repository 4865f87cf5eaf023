--------------------------- MODULE UsersDirectory ---------------------------
(***************************************************************************)
(* UsersCatalog implements UserDirectory.  The one thing the mapping needs *)
(* besides the catalog's state is the account a change is replacing, kept  *)
(* in an added variable that no action of UsersCatalog reads.              *)
(***************************************************************************)
EXTENDS UsersCatalog

CONSTANTS Absent, Damaged     \* entries of the directory without an account

AccountOf(user) ==
    IF user = NoFile THEN Absent
    ELSE IF user = NoBytes \/ user.name \in {Blank, Garbled} THEN Damaged
    ELSE [password |-> user.password, permissions |-> user.permissions]

\* The cipher failed on a file that is whole, and nothing is saved over it yet.
Mistaken(u) ==
    /\ cache[u] # NoUser /\ cache[u].name = Garbled
    /\ userFile[u] \in WholeUsers
    /\ ~(SavesUser /\ op.uid = u)

UidOf(n) == IF up THEN names[n] ELSE NamesOnDisk[n]

\* The account behind a name: what memory holds of it, or what the next start
\* will read.  A name left over from a removal has none.
ShownUnder(n) ==
    LET u == UidOf(n) IN
    IF u = None \/ (op.kind = "remove" /\ op.name = n) THEN Absent
    ELSE IF cache[u] # NoUser /\ ~Mistaken(u) THEN AccountOf(cache[u])
    ELSE AccountOf(userFile[u])

\* How the process has read it.
ReadUnder(n) ==
    IF UidOf(n) = None \/ cache[UidOf(n)] = NoUser THEN "not yet"
    ELSE IF Mistaken(UidOf(n)) THEN "wrong"
    ELSE "right"

VARIABLE before     \* what the change under way replaced

dvars == <<vars, before>>

\* Steps that leave something to write start a change of the directory.
Remember ==
    before' = IF op.steps = <<>> /\ op'.steps # <<>> /\ op'.name # None
              THEN ShownUnder(op'.name)
              ELSE before

DInit == Init /\ before = Absent
DNext == Next /\ Remember
DSpec == DInit /\ [][DNext]_dvars

ChangeOf ==
    IF op.steps = <<>> THEN [kind |-> "none"]
    ELSE IF op.kind = "exit" THEN [kind |-> "exit"]
    ELSE [kind   |-> IF op.kind \in {"create", "remove"} THEN op.kind ELSE "edit",
          name   |-> op.name,
          before |-> before]

Directory == INSTANCE UserDirectory WITH
    Accounts <- [password : Passwords, permissions : SUBSET Perms],
    users    <- [n \in Names |-> ShownUnder(n)],
    read     <- [n \in Names |-> ReadUnder(n)],
    change   <- ChangeOf

\* Over any sequence of queries, logins, exits and crashes, the catalog and its
\* two kinds of file behave as one directory of accounts: what was saved stays,
\* a removed account never comes back by itself, and neither a crash nor the
\* cipher costs more than UserDirectory!Ends and Reads say (UsersCatalog).
\* Which names can be given again is not its matter: see RemovedNameIsFree.
ImplementsDirectory == Directory!Spec
=============================================================================
