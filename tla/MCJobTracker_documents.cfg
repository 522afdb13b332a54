SPECIFICATION Spec
SYMMETRY Alike
CONSTANTS
    NoJob = NoJob
    NoDoc = NoDoc
    NoEntry = NoEntry
    NoKey = NoKey
    NoPrint = NoPrint
    j1 = j1
    j2 = j2
    j3 = j3
    d1 = d1
    d2 = d2
    d3 = d3
    d4 = d4
    d5 = d5
    e1 = e1
    k1 = k1
    p1 = p1
    p2 = p2
    c1 = c1
    c2 = c2
    Jobs = {j1, j2, j3}
    Docs = {d1, d2, d3, d4, d5}
    Entries = {e1}
    Keys = {k1}
    Expected <- Expected_one
    KeyOf <- KeyOf_one
    PrintOf <- PrintOf_one
    JobOf <- JobOf_one
    EntryOf <- EntryOf_one
    ContentOf <- ContentOf_one
    MaxJobs = 2
    ProgressStep = 2
    EvictionInterval = 2
INVARIANTS
    TypeOK
    MapsAgree
    CountsMatchDocuments
    FinalizedExactly
    ProgressIsRecent
PROPERTIES
    TerminalIsFinal
    AgedNeverAdvances
CHECK_DEADLOCK FALSE
