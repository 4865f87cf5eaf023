CONSTANTS
    r1 = r1
    r2 = r2
    c1 = c1
    c2 = c2
    d1 = d1
    d2 = d2
    Rids = {r1,r2}
    Colls = {c1,c2}
    Dbs = {d1,d2}
    Values = {v1,v2}
    Hashes = {h1}
    CollOf <- CollPerRid
    DbOf <- DbPerColl
    Products = {"Server"}
    Absent = Absent
    Empty = Empty
    None = None
    MaxLog = 4
    MaxStarts = 1
SPECIFICATION HSpec
INVARIANTS HistoryInv RollbackRestores
SYMMETRY ContentSymmetry
CHECK_DEADLOCK FALSE
