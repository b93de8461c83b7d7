\* Three runs of whole and odd objects, one after another; any of them may die half-way.
CONSTANTS
    r1 = r1
    r2 = r2
    r3 = r3
    root = root
    slice = slice
    t1 = t1
    t2 = t2
    connect4 = connect4
    recvmsg4 = recvmsg4
    None = None
    Runs = {r1, r2, r3}
    Hooks = {connect4, recvmsg4}
    Tags = {t1, t2}
    Objects <- OddObjects
    Cgroups = {root, slice}
    Kernels = {TRUE, FALSE}
SYMMETRY RunSymmetry
CONSTRAINT OneAtATime
SPECIFICATION Spec
INVARIANTS SoloRunTakesEffect
PROPERTY NoNeedlessGap
CHECK_DEADLOCK FALSE
