CONSTANTS
    tp = tp
    tc = tc
    tx = tx
    p1 = p1
    p2 = p2
    c1 = c1
    c2 = c2
    x1 = x1
    short = short
    other = other
    long = long
    Tables = {tp, tc, tx}
    Rids = {p1, p2, c1, c2, x1}
    TableOf <- MCTableOf
    ChildOf <- MCChildOf
    RefOf <- MCRefOf
    Stored <- MCStored
    NamesDiffer <- TwoDatabases
    Contents = {short, other, long}
    Inserted <- MCInserted
    Size <- MCSize
    Hashes = {h1}
    None = None
    Unreadable = Unreadable
    MaxLog = 5
    MaxStarts = 2
SPECIFICATION HSpec
INVARIANTS TablesInv RollbackRestores RecoveryRestores
PROPERTY LoggedBefore
CHECK_DEADLOCK FALSE
