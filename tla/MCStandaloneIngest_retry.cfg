SPECIFICATION Spec
CONSTANTS
    d1 = d1
    d2 = d2
    d3 = d3
    d4 = d4
    j1 = j1
    e1 = e1
    s1 = s1
    k1 = k1
    k2 = k2
    NoJob = NoJob
    NoDoc = NoDoc
    NoEntry = NoEntry
    NoKey = NoKey
    NoPrint = NoPrint
    NoSidecar = NoSidecar
    Docs = {d1, d2, d3}
    Jobs = {j1}
    Entries = {e1}
    Keys = {}
    Twins = {d2, d3}
    Edited = {}
    WithSidecar = {}
    Sidecars = {s1}
    SingleUse = {s1}
    MaxEntries = 1
    Pools = {"batch"}
    Workers = {k1}
    Size = 1
    Documents = 3
    MaxJobs = 1
    ProgressStep = 1
    EvictionInterval = 2
    Expected <- MCExpected
    KeyOf <- MCKeyOf
    PrintOf <- MCPrintOf
    JobOf <- MCJobOf
    EntryOf <- MCEntryOf
    ContentOf <- MCContentOf
    SidecarOf <- MCSidecarOf
    PoolOf <- MCPoolOf
    QueueSize <- MCQueueSize
    Serves <- MCServes
INVARIANT
    RetryIsWorkedOn
CHECK_DEADLOCK FALSE
