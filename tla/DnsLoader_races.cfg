\* Three runs of two versions, at most two of them interleaved.
CONSTANTS
    r1 = r1
    r2 = r2
    r3 = r3
    root = root
    slice = slice
    t1 = t1
    t2 = t2
    connect4 = connect4
    recvmsg4 = recvmsg4
    None = None
    Runs = {r1, r2, r3}
    Hooks = {connect4, recvmsg4}
    Tags = {t1, t2}
    Objects <- TwoVersions
    Cgroups = {root}
    Kernels = {TRUE}
SYMMETRY RunSymmetry
CONSTRAINT TwoAtATime
SPECIFICATION Spec
INVARIANTS TypeOK FreshNotStale RaceNeverSilent
CHECK_DEADLOCK FALSE
PROPERTY SharedTable
