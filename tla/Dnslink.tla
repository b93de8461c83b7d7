------------------------------- MODULE Dnslink -------------------------------
(***************************************************************************)
(* One execution of the dnslink binary (dnslink/src/main.rs and init.rs),  *)
(* from its arguments to the exec of the real init, as PID 1 of the VM or  *)
(* as the attach command, composed with the loader it calls (DnsLoader,    *)
(* with this execution as its only run on a fresh kernel).                 *)
(*                                                                         *)
(* The system calls are external: each may fail, and the model follows the *)
(* code's reaction.  An address, a port or a file is a model value; Junk   *)
(* is any text that parses as none of them.                                *)
(***************************************************************************)
EXTENDS Naturals, Sequences

CONSTANTS
    Self,             \* this execution, as a run of the loader
    Hooks, Tags, Objects, Cgroups, Kernels, None,   \* see DnsLoader
    Ips,              \* the texts that parse as IPv4 addresses
    Ports,            \* the texts that parse as ports
    Junk,             \* a text that parses as neither
    NAMESERVER_PORT,  \* 53
    Argvs,            \* the command lines dnslink may be given
    Cmdlines          \* the kernel command lines: sequences of key=value tokens

Texts == Ips \cup Ports \cup {Junk}

ASSUME PortAssumption == NAMESERVER_PORT \in Ports
ASSUME JunkAssumption == Junk \notin Ips \cup Ports
ASSUME ArgvsAssumption == \A a \in Argvs : a.target \in Texts \X Ports
ASSUME CmdlinesAssumption == Cmdlines \subseteq Seq([key : STRING, value : Texts])

VARIABLES
    argv,      \* the arguments after argv[0], as the option loop understands them
    cmdline,   \* the tokens of the kernel command line
    proc,      \* procfs is mounted at /proc
    upstream,  \* <<target_ip_str, target_port>>
    bpffs,     \* a bpffs is mounted at the pin directory's parent
    stage,     \* where main or init::run is, or how the execution ended
    said,      \* what it last printed about the hooks
    (* the loader's own *)
    fdLinks, obj, cgroup, pinDir, pinned, table, link,
    attached, pc, todo, cur, fd, found, pinFailed, filled, solo

Loader == INSTANCE DnsLoader WITH Runs <- {Self}

(* What the loader asks of its constants.                                   *)
ASSUME LoaderAssumption ==
    /\ None # Self /\ None \notin Hooks \cup Loader!Maps
    /\ {"unpinned", "stale"} \cap Tags = {} /\ Kernels \subseteq BOOLEAN
    /\ \A o \in Objects : Loader!IsObject(o)

input == <<argv, cmdline, proc>>
rest == <<fdLinks, obj, cgroup, pinned, table, link, attached, pc, todo, cur, fd, found,
          pinFailed, filled, solo>>
loader == <<rest, pinDir>>
vars == <<input, upstream, bpffs, stage, said, loader>>

(* argc = 1, as the kernel starts PID 1, means init.                        *)
PidOne == argv.sub \in {"none", "init"}

Ended == {"usage", "error", "done", "watching", "real", "no init", "killed"}

-----------------------------------------------------------------------------
Init ==
    /\ Loader!Init /\ pinDir = FALSE
    /\ argv \in Argvs
    /\ cmdline \in Cmdlines
    /\ proc \in BOOLEAN
    /\ upstream = argv.target
    /\ bpffs \in BOOLEAN
    /\ stage = "options"
    /\ said = "nothing"

At(s, to) == stage = s /\ stage' = to

(* mount(2): mounted, found mounted, or failed.                             *)
mount(mounted) == {"ok", "failed"} \cup (IF mounted THEN {"busy"} ELSE {})

(* execve(2) replaces the process, or returns.                              *)
execve(s, returned) == At(s, "real") \/ At(s, returned)

(* Whether a text is an IPv4 address.                                       *)
aton(text) == text \in Ips

(* The mode and the option loop: anything unknown, incomplete or out of     *)
(* range ends in usage().                                                   *)
ParseOptions ==
    /\ At("options", IF argv.sub = "other" \/ ~argv.wellFormed THEN "usage"
                     ELSE IF PidOne THEN "procfs" ELSE "object")
    /\ UNCHANGED <<input, upstream, bpffs, said, loader>>

mount_procfs ==
    /\ At("procfs", "cmdline")
    /\ \E result \in mount(proc) : proc' = (proc \/ result = "ok")
    /\ UNCHANGED <<argv, cmdline, upstream, bpffs, said, loader>>

(* cmdline_value: the first token with the key, when the file can be read.  *)
(* The file ends in a newline which stays part of its last token, so that   *)
(* one's value never parses.                                                *)
Tokens(key) == {i \in DOMAIN cmdline : cmdline[i].key = key}
Given(key) == Tokens(key) # {}
First(key) == CHOOSE i \in Tokens(key) : \A j \in Tokens(key) : i <= j
cmdline_value(key) == IF First(key) = Len(cmdline) THEN Junk ELSE cmdline[First(key)].value

port_from_cmdline ==
    IF Given("dnslink.port") /\ cmdline_value("dnslink.port") \in Ports
      THEN cmdline_value("dnslink.port")
      ELSE NAMESERVER_PORT

ReadCmdline_KeepPort ==
    /\ At("cmdline", "object")
    /\ upstream' = IF proc /\ Given("dnslink.gateway")
                     THEN <<cmdline_value("dnslink.gateway"), upstream[2]>>
                     ELSE upstream
    /\ UNCHANGED <<input, bpffs, said, loader>>

(* The upstream of the kernel command line, for PID 1; the port counts only *)
(* next to a gateway.  Without procfs there is nothing to read (a read that *)
(* fails on a mounted one is left out).                                     *)
ReadCmdline ==
    /\ At("cmdline", "object")
    /\ upstream' = IF proc /\ Given("dnslink.gateway")
                     THEN <<cmdline_value("dnslink.gateway"), port_from_cmdline>>
                     ELSE upstream
    /\ UNCHANGED <<input, bpffs, said, loader>>

(* --obj, and aton on both addresses: a failure exits, PID 1 or not.        *)
ReadObject ==
    /\ At("object", IF argv.readable THEN "addresses" ELSE "error")
    /\ UNCHANGED <<input, upstream, bpffs, said, loader>>

ParseAddresses ==
    /\ At("addresses", IF aton(argv.bind) /\ aton(upstream[1]) THEN "bpffs" ELSE "error")
    /\ UNCHANGED <<input, upstream, bpffs, said, loader>>

(* is_fs_mounted_at: whether a bpffs is at the pin directory's parent can   *)
(* only be told with procfs, and not always then.                           *)
FindBpffs ==
    /\ \/ proc /\ bpffs /\ At("bpffs", "pin path")
       \/ proc /\ ~bpffs /\ At("bpffs", "mount point")
       \/ At("bpffs", "mount point")
    /\ UNCHANGED <<input, upstream, bpffs, said, loader>>

(* create_dir_all: an error leaves ensure_bpffs with no pin directory made. *)
MakeMountPoint ==
    /\ At("mount point", "mount bpffs") \/ (~bpffs /\ At("mount point", "dispatch"))
    /\ UNCHANGED <<input, upstream, bpffs, said, loader>>

(* After a failed mount the pin directory is made all the same, on the file *)
(* system below.                                                            *)
MountBpffs ==
    /\ At("mount bpffs", "pin path")
    /\ \E result \in mount(bpffs) : bpffs' = (bpffs \/ result = "ok")
    /\ UNCHANGED <<input, upstream, said, loader>>

EnsurePinPath_Anywhere ==
    /\ At("pin path", "dispatch")
    /\ pinDir' \in BOOLEAN
    /\ UNCHANGED <<input, upstream, bpffs, said, rest>>

EnsurePinPath ==
    /\ At("pin path", "dispatch")
    /\ pinDir' \in {bpffs, FALSE}
    /\ UNCHANGED <<input, upstream, bpffs, said, rest>>

(* attach insists on --cgroup only now.                                     *)
Dispatch ==
    /\ At("dispatch", IF PidOne THEN "mkdir" ELSE IF argv.cgroup THEN "open" ELSE "usage")
    /\ UNCHANGED <<input, upstream, bpffs, said, loader>>

(* init::run creates and mounts a cgroup2 directory; a parent may have      *)
(* mounted it already, and the hierarchy is the same.                       *)
PrepareCgroup ==
    /\ \/ At("mkdir", "mount")
       \/ \E result \in mount(TRUE) \ {"failed"} : At("mount", "open")
    /\ UNCHANGED <<input, upstream, bpffs, said, loader>>

(* attach_mode opens the directory it was given, init::run its own.         *)
OpenCgroup ==
    /\ At("open", "load")
    /\ UNCHANGED <<input, upstream, bpffs, said, loader>>

CgroupFails_Exit ==
    /\ \E s \in {"mkdir", "mount", "open"} : At(s, "error")
    /\ UNCHANGED <<input, upstream, bpffs, said, loader>>

CgroupFails ==
    /\ \E s \in {"mkdir", "mount", "open"} : At(s, IF PidOne THEN "exec" ELSE "error")
    /\ said' = IF PidOne THEN "running without redirect" ELSE said
    /\ UNCHANGED <<input, upstream, bpffs, loader>>

Load ==
    /\ stage = "load" /\ (Loader!Start(Self) \/ Loader!LoaderStep(Self))
    /\ UNCHANGED <<input, upstream, bpffs, stage, said>>

Loaded ==
    /\ pc[Self] = "ok"
    /\ At("load", IF PidOne THEN "exec" ELSE IF argv.watch THEN "watching" ELSE "done")
    /\ said' = "attached"
    /\ UNCHANGED <<input, upstream, bpffs, loader>>

LoadFailed_Attached ==
    /\ pc[Self] = "failed"
    /\ At("load", IF PidOne THEN "exec" ELSE "error")
    /\ said' = IF PidOne THEN "attached" ELSE said
    /\ UNCHANGED <<input, upstream, bpffs, loader>>

LoadFailed ==
    /\ pc[Self] = "failed"
    /\ At("load", IF PidOne THEN "exec" ELSE "error")
    /\ said' = IF PidOne THEN "running without redirect" ELSE said
    /\ UNCHANGED <<input, upstream, bpffs, loader>>

exec_real ==
    /\ execve("exec", "fallback")
    /\ UNCHANGED <<input, upstream, bpffs, said, loader>>

(* run returned its error to main, which tries once more.                   *)
FallBack ==
    /\ execve("fallback", "no init")
    /\ UNCHANGED <<input, upstream, bpffs, said, loader>>

(* Somebody interrupts the attach command.                                  *)
Interrupt ==
    /\ ~PidOne /\ stage \notin Ended \ {"watching"}
    /\ stage' = "killed"
    /\ IF Loader!Active(Self) THEN Loader!Kill(Self) ELSE UNCHANGED loader
    /\ UNCHANGED <<input, upstream, bpffs, said>>

Step ==
    \/ ParseOptions \/ mount_procfs \/ ReadCmdline \/ ReadObject \/ ParseAddresses
    \/ FindBpffs \/ MakeMountPoint \/ MountBpffs \/ EnsurePinPath \/ Dispatch
    \/ PrepareCgroup \/ OpenCgroup \/ CgroupFails
    \/ Load \/ Loaded \/ LoadFailed \/ exec_real \/ FallBack

Next == Step \/ Interrupt

(* A sequential program whose system calls return.                          *)
Spec == Init /\ [][Next]_vars /\ WF_vars(Step)

-----------------------------------------------------------------------------
(* Types, of the loader's state too.                                        *)
TypeOK ==
    /\ Loader!TypeOK
    /\ argv \in Argvs /\ cmdline \in Cmdlines
    /\ upstream \in Texts \X Ports
    /\ bpffs \in BOOLEAN /\ (pinDir => bpffs)
    /\ stage \in Ended \cup {"options", "procfs", "cmdline", "object", "addresses", "bpffs",
                             "mount point", "mount bpffs", "pin path", "dispatch", "mkdir",
                             "mount", "open", "load", "exec", "fallback"}
    /\ said \in {"nothing", "attached", "running without redirect"}
    /\ Loader!Active(Self) => stage = "load"

(* The upstream the kernel command line asks for, as the README's table and *)
(* the comment over its parsing have it: the gateway with the port or 53,   *)
(* or the defaults.                                                         *)
Asked(key) == cmdline[First(key)].value
Configured ==
    << IF Given("dnslink.gateway") THEN Asked("dnslink.gateway") ELSE argv.target[1],
       IF Given("dnslink.port") THEN Asked("dnslink.port")
       ELSE IF Given("dnslink.gateway") THEN NAMESERVER_PORT ELSE argv.target[2] >>

(* What an operator can rely on: every key in front of another token, and   *)
(* the port next to a gateway, both of them texts that parse.               *)
SafeCmdline ==
    /\ \A key \in {"dnslink.gateway", "dnslink.port"} :
           Given(key) => First(key) < Len(cmdline)
    /\ Given("dnslink.gateway") => Asked("dnslink.gateway") \in Ips
    /\ Given("dnslink.port") => Asked("dnslink.port") \in Ports /\ Given("dnslink.gateway")

(* Whatever fails on the way (bpffs, cgroup2, the loader, the first exec),  *)
(* PID 1 with readable inputs reaches the real init; it ends otherwise only *)
(* when the real init could not be executed twice.                          *)
BootReachesRealInit ==
    PidOne /\ argv.wellFormed /\ argv.readable /\ argv.bind \in Ips /\ argv.target[1] \in Ips
        /\ SafeCmdline ~> stage \in {"real", "no init"}

(* The redirect is never missing in silence: when the VM runs its real      *)
(* init, or the attach command succeeded, every hook of the object is in    *)
(* force unless the output says "running real init without DNS redirect" or *)
(* "hook not in effect".                                                    *)
NeverSilentlyUnhooked ==
    stage \in {"real", "done", "watching"} /\ said # "running without redirect"
        /\ ~pinFailed[Self] =>
            \A h \in DOMAIN obj[Self].tags : Loader!InForce(Self, h)

(* Once the rules are in the table, they name the upstream that a sound     *)
(* kernel command line asked for.                                           *)
UpstreamAsConfigured ==
    PidOne /\ proc /\ SafeCmdline /\ Loader!Rules = Self => upstream = Configured

(* README: "dnslink.gateway=<ip>: upstream DNS server = <ip>:53".           *)
GatewayHonoured ==
    PidOne /\ proc /\ Given("dnslink.gateway") /\ Asked("dnslink.gateway") \in Ips =>
        (stage \in {"addresses", "bpffs"} => upstream[1] = Asked("dnslink.gateway"))
=============================================================================
