\* PID 1 and the attach command, every short kernel command line, every failure.
CONSTANTS
    self = self
    root = root
    t1 = t1
    connect4 = connect4
    recvmsg4 = recvmsg4
    one = one
    gw = gw
    loop = loop
    p53 = p53
    p5353 = p5353
    None = None
    Junk = Junk
    Self = self
    Hooks = {connect4, recvmsg4}
    Tags = {t1}
    Objects <- OddObjects
    Cgroups = {root}
    Kernels = {TRUE, FALSE}
    Ips = {one, gw, loop}
    Ports = {p53, p5353}
    NAMESERVER_PORT = p53
    Argvs <- AllArgvs
    Cmdlines <- ShortCmdlines
SPECIFICATION Spec
INVARIANTS TypeOK NeverSilentlyUnhooked UpstreamAsConfigured
PROPERTY BootReachesRealInit
CHECK_DEADLOCK FALSE
