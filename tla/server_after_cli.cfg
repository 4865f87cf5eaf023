CONSTANTS
    r1 = r1
    r2 = r2
    c1 = c1
    c2 = c2
    d1 = d1
    d2 = d2
    Rids = {r1}
    Colls = {c1}
    Dbs = {d1}
    Values = {v1,v2}
    Hashes = {h1}
    CollOf <- OneColl
    DbOf <- OneDb
    Products = {"CLI", "Server"}
    Absent = Absent
    Empty = Empty
    None = None
    MaxLog = 4
    MaxStarts = 3
SPECIFICATION HFairSpec
PROPERTY CrashIsRecovered
CHECK_DEADLOCK FALSE
