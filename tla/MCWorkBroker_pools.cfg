SPECIFICATION Spec
CONSTANTS
    r1 = r1
    b1 = b1
    b2 = b2
    b3 = b3
    c1 = c1
    Work = {r1, b1, b2, b3}
    Pools = {"realtime", "batch"}
    Claimers = {c1}
    NoWork = NoWork
    NoPool = NoPool
    RealtimeWork = {r1}
    RealtimeClaimers = {}
    SidecarWork = {r1}
    Limit = 2
    Cap = 2
    MaxDeliveryAttempts = 1
    SpoolLimit = 6
    MaxGeneration = 2
    PoolOf <- MCPoolOf
    ClaimsFrom <- MCClaimsFrom
    HasSidecar <- MCHasSidecar
    PayloadBytes <- MCPayloadBytes
    SidecarBytes <- MCSidecarBytes
    QueueLimit <- MCQueueLimit
    LeaseCap <- MCLeaseCap
    Losable <- MCLosable
SYMMETRY MCSymmetry
INVARIANTS
    TypeOK
    QueueExact
    AttemptsExact
    PoolBounds
    SpoolExact
    RetriesFirst
    StoppedIsEmpty
PROPERTIES
    EndsOnce
    FifoDelivery
