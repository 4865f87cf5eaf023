CONSTANTS
    Names = {n1}
    Uids = {u1}
    Passwords = {p1}
    Perms = {q1}
    Root = Root
    None = None
    Missing = Missing
    Torn = Torn
    Blank = Blank
    Garbled = Garbled
    Absent = Absent
    Damaged = Damaged
    MaxStarts = 1
SPECIFICATION DSpec
INVARIANT RemovedNameIsFree
CHECK_DEADLOCK FALSE
