CONSTANTS
    r1 = r1
    r2 = r2
    c1 = c1
    c2 = c2
    d1 = d1
    d2 = d2
    Rids = {r1,r2}
    Colls = {c1}
    Dbs = {d1}
    Values = {v1}
    Hashes = {h1}
    CollOf <- OneColl
    DbOf <- OneDb
    Products = {"CLI"}
    Absent = Absent
    Empty = Empty
    None = None
    MaxLog = 4
    MaxStarts = 2
SPECIFICATION HFairSpec
PROPERTY UndoEnds
CHECK_DEADLOCK FALSE
