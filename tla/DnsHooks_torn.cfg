\* Rules replaced by rules that differ in two fields.
CONSTANTS
    loopback = loopback
    one = one
    gw = gw
    zero = zero
    p53 = p53
    p5353 = p5353
    p0 = p0
    c1 = c1
    c2 = c2
    None = None
    Resolvers = {c1}
    Asks <- AsksNameserver
    Connecting = {c1}
    Sending = {c1}
    Verifying = {c1}
    Servers <- BothServers
    RuleSets <- OtherPort
    Blank <- Unwritten
    MaxWrites = 2
SPECIFICATION Spec
INVARIANT SentAsConfigured
CHECK_DEADLOCK FALSE
