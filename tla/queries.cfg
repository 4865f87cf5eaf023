CONSTANTS
    Rids = {r1, r2}
    Absent = Absent
    Blank = Blank
    None = None
    NaN = NaN
    MaxInt = 2
    Number <- NumberOf
    Symbols <- SymbolsOf
    Digits <- DigitsOf
    to_string <- TextOf
    Depth = 2
    FieldType <- TypeOf
    Nested = {"city"}
    TextOrder <- TextsInOrder
    HoldsAnd = {"andy", "[andy]", "2 or name in [andy]"}
    Malformed = {"an[", ")"}
    Joined <- JoinedOf
    Capitals = {"TRUE"}
    Lists <- ListOf
    Ranges <- RangeOf
    Patterns <- PatternOf
    Entries <- EntriesOf
    Requests <- RequestsOf
SPECIFICATION Spec
INVARIANTS ParsedAsWritten TakenMeet PassedDoNotMeet UpdatedAsWritten StoredReadable
SYMMETRY Symmetry
CHECK_DEADLOCK FALSE
