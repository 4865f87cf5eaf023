--------------------------- MODULE CatalogStore ---------------------------
(***************************************************************************)
(* What the catalogs promise, without files: every catalog holds entries   *)
(* that change one at a time, and a start finds a catalog as it was last   *)
(* saved.  When the process ends while a catalog is being saved, the start *)
(* finds it as it was before the change, as it is after it, or empty.      *)
(***************************************************************************)
CONSTANT Absent     \* no entry under a name

VARIABLES
    content,    \* content[c][n]: the entry of catalog c under the name n
    found       \* found[c]: what a start may find in catalog c

store == <<content, found>>

Empty(entries)  == [n \in DOMAIN entries |-> Absent]
IsEmpty(entries) == \A n \in DOMAIN entries : entries[n] = Absent

Init ==
    /\ \A c \in DOMAIN content : IsEmpty(content[c])
    /\ found = [c \in DOMAIN content |-> {content[c]}]

OthersKept(c) ==
    /\ DOMAIN content' = DOMAIN content
    /\ \A b \in DOMAIN content \ {c} : content'[b] = content[b]
    /\ \A b \in DOMAIN content \ {c} : found'[b] = found[b]

\* One entry is added, removed or changed, or all are removed; the catalog is
\* still to be saved.
Change(c) ==
    /\ OthersKept(c)
    /\ \/ content'[c] = Empty(content[c])
       \/ \E n \in DOMAIN content[c] : \A m \in DOMAIN content[c] \ {n} :
             content'[c][m] = content[c][m]
    /\ found'[c] \subseteq found[c] \cup {content'[c], Empty(content[c])}

\* A save begins, goes on or has ended.
Save(c) ==
    /\ content' = content
    /\ OthersKept(c)
    /\ found'[c] \subseteq {content[c], Empty(content[c])} \cup found[c]
    /\ content[c] \in found'[c]

\* The process ends, and what a start finds is settled.
End ==
    /\ DOMAIN content' = DOMAIN content
    /\ \A c \in DOMAIN content : content'[c] \in found[c]
    /\ found' = [c \in DOMAIN content |-> {content'[c]}]

Next ==
    \/ \E c \in DOMAIN content : Change(c) \/ Save(c)
    \/ End

Spec == Init /\ [][Next]_store

=============================================================================
