SPECIFICATION FairSpec
CONSTANTS
    Lifecycle = Lifecycle
    ProgressStep = 1
    QueueLimit = 2
    Files = {f1, f2}
    TheJob = job
    TheStream = sse
    Jobs = {job}
    Streams = {sse}
    Docs <- MCDocs
    JobOf <- MCJobOf
    FilterOf <- MCFilterOf
    Expected <- MCExpected
    MaxTries = 2
INVARIANTS
    Accounted
    StreamIsExact
    DoneMeansReported
PROPERTIES
    Returns
CHECK_DEADLOCK FALSE
