SPECIFICATION FairSpec
CONSTANTS
    w1 = w1
    c1 = c1
    NoWork = NoWork
    NoPool = NoPool
    NoJob = NoJob
    NoDoc = NoDoc
    NoEntry = NoEntry
    NoKey = NoKey
    NoPrint = NoPrint
    NoClaimer = NoClaimer
    j1 = j1
    e1 = e1
    Work = {w1}
    Pools = {"batch"}
    Claimers = {c1}
    RowWork = {w1}
    SidecarWork = {}
    TwinWork = {}
    Limit = 1
    Cap = 1
    SpoolLimit = 100
    MaxDeliveryAttempts = 2
    MaxGeneration = 2
    MaxCalls = 1
    Jobs = {j1}
    Entries = {e1}
    Keys = {}
    MaxJobs = 1
    ProgressStep = 1
    EvictionInterval = 1
    PoolOf <- MCPoolOf
    ClaimsFrom <- MCClaimsFrom
    HasSidecar <- SidecarWork
    PayloadBytes <- MCBytes
    SidecarBytes <- MCBytes
    QueueLimit <- MCQueueLimit
    LeaseCap <- MCLeaseCap
    Losable <- MCLosable
    Retain <- RowWork
    Expected <- MCExpected
    KeyOf <- MCKeyOf
    PrintOf <- MCPrintOf
    JobOf <- MCJobOf
    EntryOf <- MCEntryOf
    ContentOf <- MCContentOf
PROPERTIES
    Settles
    ShutdownEnds
CHECK_DEADLOCK FALSE
