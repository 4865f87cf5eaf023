CONSTANTS
    Names = {n1, n2}
    Uids = {u1, u2, u3}
    Passwords = {p1, p2}
    Perms = {q1}
    Root = Root
    None = None
    Missing = Missing
    Torn = Torn
    Blank = Blank
    Garbled = Garbled
    Absent = Absent
    Damaged = Damaged
    MaxStarts = 3
SPECIFICATION DSpec
INVARIANTS UsersInv SessionHasUser
PROPERTY ImplementsDirectory
SYMMETRY Symmetry
CHECK_DEADLOCK FALSE
