SPECIFICATION FairSpec
CONSTANTS
    c1 = c1
    c2 = c2
    d1 = d1
    v1 = v1
    v2 = v2
    Clients = {c1, c2}
    Reconciler = Reconciler
    Docs = {d1}
    Versions = {v1, v2}
    NoRow = NoRow
    NoTable = NoTable
    Nobody = Nobody
    None = None
    Gone = Gone
    MaxCalls = 5
    MaxFaults = 2
INVARIANTS
    InUseIsUntouched
    SettledIsTrue
    OrphansAreDeletions
PROPERTIES
    Recovers
