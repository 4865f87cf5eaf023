------------------------------ MODULE MCUsers ------------------------------
(* An instance of UsersDirectory for TLC. *)
EXTENDS UsersDirectory, TLC

\* Names, uids and passwords are only compared, here and in UserDirectory.
Symmetry == Permutations(Names) \cup Permutations(Uids) \cup Permutations(Passwords)
=============================================================================
