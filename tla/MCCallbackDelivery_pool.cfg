SPECIFICATION FairSpec
CONSTANTS
    NoItem = NoItem
    Workers = {c1}
    Items = {i1, i2}
    Retain = {i2}
    Again = {i2}
    Left <- MCLeft
INVARIANTS
    SlotsExact
    RowsAwaitTheirReport
PROPERTIES
    WorkersReturn
    LeasesEnd
CHECK_DEADLOCK FALSE
