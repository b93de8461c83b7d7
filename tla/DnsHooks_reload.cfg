\* A resolver of the nameserver and one of an upstream while rules and hooks change.
CONSTANTS
    loopback = loopback
    one = one
    gw = gw
    zero = zero
    p53 = p53
    p5353 = p5353
    p0 = p0
    c1 = c1
    c2 = c2
    None = None
    Resolvers = {c1, c2}
    Asks <- AsksBoth
    Connecting = {c1, c2}
    Sending = {c1, c2}
    Verifying = {c1, c2}
    Servers <- BothServers
    RuleSets <- SamePort
    Blank <- Unwritten
    MaxWrites = 2
SPECIFICATION Spec
INVARIANTS TypeOK SentAsConfigured SeesNameserver
CHECK_DEADLOCK FALSE
