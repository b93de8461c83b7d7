\* Two runs that are given different cgroup directories.
CONSTANTS
    r1 = r1
    r2 = r2
    r3 = r3
    root = root
    slice = slice
    t1 = t1
    t2 = t2
    connect4 = connect4
    recvmsg4 = recvmsg4
    None = None
    Runs = {r1, r2}
    Hooks = {connect4, recvmsg4}
    Tags = {t1, t2}
    Objects <- TwoVersions
    Cgroups = {root, slice}
    Kernels = {TRUE}
SYMMETRY RunSymmetry
CONSTRAINT OneAtATime
SPECIFICATION Spec
INVARIANT AttachedAtCgroup
CHECK_DEADLOCK FALSE
