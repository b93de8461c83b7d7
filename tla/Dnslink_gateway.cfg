\* A gateway as the last token of the kernel command line.
CONSTANTS
    self = self
    root = root
    t1 = t1
    connect4 = connect4
    recvmsg4 = recvmsg4
    one = one
    gw = gw
    loop = loop
    p53 = p53
    p5353 = p5353
    None = None
    Junk = Junk
    Self = self
    Hooks = {connect4, recvmsg4}
    Tags = {t1}
    Objects <- OneObject
    Cgroups = {root}
    Kernels = {TRUE}
    Ips = {one, gw, loop}
    Ports = {p53, p5353}
    NAMESERVER_PORT = p53
    Argvs <- PlainBoot
    Cmdlines <- ShortCmdlines
SPECIFICATION Spec
INVARIANT GatewayHonoured
CHECK_DEADLOCK FALSE
