---------------------------- MODULE MCDocumentWal ----------------------------
(* Instances of DocumentWalHistory for TLC. *)
EXTENDS DocumentWalHistory, TLC

CONSTANTS r1, r2, c1, c2, d1, d2

\* Records of one collection.
OneColl == [r \in Rids |-> c1]
OneDb   == [c \in Colls |-> d1]

\* A record in each of two collections of two databases.
CollPerRid == r1 :> c1 @@ r2 :> c2
DbPerColl  == c1 :> d1 @@ c2 :> d2

\* Records, contents and hashes are only compared: nothing orders them.
Symmetry == Permutations(Rids) \cup Permutations(Values) \cup Permutations(Hashes)

ContentSymmetry == Permutations(Values) \cup Permutations(Hashes)
=============================================================================
