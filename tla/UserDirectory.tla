---------------------------- MODULE UserDirectory ----------------------------
(***************************************************************************)
(* What Celestial's users catalog gives the executors, the login and the   *)
(* permission checks, over crashes of the process: a directory from user   *)
(* names to accounts.  A change takes effect at once and is then on its    *)
(* way to disk; it survives a crash once it is there.  A crash with        *)
(* nothing on its way changes nothing.  A crash in the middle of a change  *)
(* keeps it, drops it, or costs what the code rewrites in place: the       *)
(* account being edited, or, while the file of names is rewritten, every   *)
(* name.  A process reads an account of an earlier one when it is first    *)
(* asked for, and may read it wrong: the next may read it right again,     *)
(* unless it was edited.                                                   *)
(***************************************************************************)
CONSTANTS
    Names,      \* names a user can have
    Accounts,   \* passwords and permissions, in one value
    Absent,     \* no account is behind the name
    Damaged     \* the name or the password of the account was lost

VARIABLES
    users,      \* users[n]: the account behind name n
    read,       \* how the process that runs has read the account of a name
    change      \* the change on its way to disk

Entries == Accounts \cup {Absent, Damaged}

NoChange == [kind |-> "none"]

Changes ==
    {NoChange, [kind |-> "exit"]}
        \cup [kind : {"create", "remove", "edit"}, name : Names, before : Entries]

NoneRead == [n \in Names |-> "not yet"]

Init ==
    /\ users \in [Names -> Entries]
    /\ read = NoneRead
    /\ change = NoChange

\* The change of name n to v takes effect; r says how n is read from then on.
Changed(kind, n, v, r) ==
    /\ change = NoChange
    /\ users' = [users EXCEPT ![n] = v]
    /\ read' = [read EXCEPT ![n] = r]
    /\ change' = [kind |-> kind, name |-> n, before |-> users[n]]

Taken(n) == users[n] \in Accounts \cup {Damaged}

Create(n, a) == users[n] = Absent /\ Changed("create", n, a, "right")

Remove(n) == Taken(n) /\ Changed("remove", n, Absent, "not yet")

\* An account that is not read yet is read by the edit.
Edit(n, a) == users[n] \in Accounts /\ read[n] # "wrong" /\ Changed("edit", n, a, "right")

\* What is set in an account that was read wrong damages it for good.
EditDamages(n) ==
    /\ users[n] = Damaged \/ (users[n] \in Accounts /\ read[n] # "right")
    /\ Changed("edit", n, Damaged, "right")

Reads(n) ==
    /\ change = NoChange
    /\ Taken(n) /\ read[n] = "not yet"
    /\ \E how \in {"right", "wrong"} : read' = [read EXCEPT ![n] = how]
    /\ UNCHANGED <<users, change>>

BeginExit ==
    /\ change = NoChange
    /\ change' = [kind |-> "exit"]
    /\ UNCHANGED <<users, read>>

Saved ==
    /\ change # NoChange
    /\ change' = NoChange
    /\ UNCHANGED <<users, read>>

Keep(n, v) == users' = [users EXCEPT ![n] = v]
LoseAll    == users' = [n \in Names |-> Absent]

\* The end of the process, and what a crash leaves of the change it cuts off.
Ends ==
    /\ change' = NoChange
    /\ read' = NoneRead
    /\ \/ UNCHANGED users
       \/ change.kind \in {"create", "remove", "edit"} /\ Keep(change.name, change.before)
       \/ change.kind = "edit" /\ Keep(change.name, Damaged)
       \/ change.kind \in {"create", "remove", "exit"} /\ LoseAll

Next ==
    \/ \E n \in Names :
          \/ \E a \in Accounts : Create(n, a) \/ Edit(n, a)
          \/ Remove(n) \/ EditDamages(n) \/ Reads(n)
    \/ BeginExit \/ Saved \/ Ends

Spec == Init /\ [][Next]_<<users, read, change>>
=============================================================================
