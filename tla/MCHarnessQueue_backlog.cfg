SPECIFICATION Spec
CONSTANTS
    t1 = t1
    t2 = t2
    r1 = r1
    r2 = r2
    nightly = nightly
    Threads = {t1, t2}
    Schedules = {nightly}
    Runners = {r1, r2}
    NoRunner = NoRunner
    NoSchedule = NoSchedule
    Sizes = {1, 2}
    MaxPending = 1
    Lacks <- MCLacks
    Managed = {r2}
    Touched = {1}
    Manual = {2}
    N = 3
SYMMETRY MCSymmetry
INVARIANTS
    BacklogKept
    RunsWhereAssigned
