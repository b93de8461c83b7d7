---------------------------- MODULE Dnslink_proofs ----------------------------
(***************************************************************************)
(* Theorems about Dnslink, for any command lines, objects, hooks and        *)
(* kernels.  What the loader achieves is taken from its own theorems, for   *)
(* a single run; what is left is the order in which the binary goes.        *)
(***************************************************************************)
EXTENDS Dnslink, WellFoundedInduction, TLAPS

(* The loader's theorems, for this execution alone.                         *)
Alone == INSTANCE DnsLoader_proofs WITH Runs <- {Self}

(* The loader runs from "load" on, and nobody else ever does.               *)
BeforeLoad == {"options", "procfs", "cmdline", "object", "addresses", "bpffs", "mount point",
               "mount bpffs", "pin path", "dispatch", "mkdir", "mount", "open", "usage"}
LoaderInTurn ==
    /\ stage \in BeforeLoad => pc[Self] = "idle" /\ pinned["cfg_map"] = None
    /\ pc[Self] \notin {"idle", "ok", "failed"} => stage = "load"
    /\ pc[Self] # "idle" => solo = Self

(* What has been said of the hooks once the loader is through.              *)
Reported ==
    stage \in {"exec", "fallback", "real", "no init", "done", "watching"} =>
        said = "running without redirect" \/ pc[Self] = "ok"

(* The upstream before and after the kernel command line was read.          *)
UpstreamInTurn ==
    /\ stage \in {"options", "procfs", "cmdline"} => upstream = argv.target
    /\ stage \notin {"options", "procfs", "cmdline", "usage"} /\ PidOne /\ proc /\ SafeCmdline
           => upstream = Configured

Stages == Ended \cup {"options", "procfs", "cmdline", "object", "addresses", "bpffs",
                      "mount point", "mount bpffs", "pin path", "dispatch", "mkdir", "mount",
                      "open", "load", "exec", "fallback"}
Types ==
    /\ argv \in Argvs /\ cmdline \in Cmdlines
    /\ upstream \in Texts \X Ports
    /\ bpffs \in BOOLEAN /\ pinDir \in BOOLEAN /\ (pinDir => bpffs)
    /\ stage \in Stages
    /\ said \in {"nothing", "attached", "running without redirect"}

DInv == Types /\ LoaderInTurn /\ Reported /\ UpstreamInTurn
IInv == DInv /\ Alone!IInv /\ Alone!SInv

-----------------------------------------------------------------------------
(* The theorems' loader is the model's.                                     *)
LEMMA LoaderConstants ==
    /\ None \notin {Self} /\ None \notin Hooks /\ None \notin Alone!Maps
    /\ {"unpinned", "stale"} \cap Tags = {} /\ Kernels \subseteq BOOLEAN
    /\ \A o \in Objects : Alone!IsObject(o)
  BY LoaderAssumption DEF Loader!Maps, Alone!Maps, Loader!IsObject, Alone!IsObject

LEMMA SameInit == Loader!Init => Alone!Init
  BY DEF Loader!Init, Alone!Init, Loader!Maps, Alone!Maps, Loader!Nothing, Alone!Nothing

LEMMA SameTypes == Alone!TypeOK => Loader!TypeOK
  BY DEF Loader!TypeOK, Alone!TypeOK, Loader!Maps, Alone!Maps, Loader!Done, Alone!Done

LEMMA SameInForce ==
    ASSUME NEW h
    PROVE  Alone!InForce(Self, h) <=> Loader!InForce(Self, h)
  BY DEF Loader!InForce, Alone!InForce, Loader!InEffect, Alone!InEffect, Loader!Serves,
     Alone!Serves, Loader!Tag, Alone!Tag

LEMMA SameSteps ==
    /\ Loader!Start(Self) => Alone!Start(Self)
    /\ Loader!LoaderStep(Self) => Alone!LoaderStep(Self)
    /\ Loader!Kill(Self) => Alone!Kill(Self)
<1> USE DEF Loader!args, Alone!args, Loader!kernel, Alone!kernel, Loader!local, Alone!local,
            Loader!history, Alone!history, Loader!Go, Alone!Go, Loader!End, Alone!End,
            Loader!Nothing, Alone!Nothing, Loader!NextHook, Alone!NextHook, Loader!Active,
            Alone!Active, Loader!Done, Alone!Done
<1>1. Loader!Start(Self) => Alone!Start(Self)
  BY DEF Loader!Start, Alone!Start
<1>2. Loader!Kill(Self) => Alone!Kill(Self)
  BY DEF Loader!Kill, Alone!Kill
<1>3. Loader!ScanPin(Self) => Alone!ScanPin(Self)
  BY DEF Loader!ScanPin, Alone!ScanPin, Loader!Tag, Alone!Tag
<1>4. Loader!ReuseMap(Self) => Alone!ReuseMap(Self)
  BY DEF Loader!ReuseMap, Alone!ReuseMap
<1>5. Loader!CreateMap(Self) => Alone!CreateMap(Self)
  BY DEF Loader!CreateMap, Alone!CreateMap
<1>6. Loader!PinMap(Self) => Alone!PinMap(Self)
  BY DEF Loader!PinMap, Alone!PinMap
<1>7. Loader!WriteRules(Self) => Alone!WriteRules(Self)
  BY DEF Loader!WriteRules, Alone!WriteRules
<1>8. Loader!KeepLink(Self) => Alone!KeepLink(Self)
  BY DEF Loader!KeepLink, Alone!KeepLink, Loader!SameTag, Alone!SameTag, Loader!Tag, Alone!Tag
<1>9. Loader!Relink(Self) => Alone!Relink(Self)
  BY DEF Loader!Relink, Alone!Relink, Loader!SameTag, Alone!SameTag, Loader!Tag, Alone!Tag
<1>10. Loader!DropStalePin(Self) => Alone!DropStalePin(Self)
  BY DEF Loader!DropStalePin, Alone!DropStalePin
<1>11. /\ Loader!AttachLink(Self) => Alone!AttachLink(Self)
       /\ Loader!AttachProg(Self) => Alone!AttachProg(Self)
  BY DEF Loader!AttachLink, Alone!AttachLink, Loader!AttachProg, Alone!AttachProg
<1>12. /\ Loader!PinLink(Self) => Alone!PinLink(Self)
       /\ Loader!PinLinkFails(Self) => Alone!PinLinkFails(Self)
  BY DEF Loader!PinLink, Alone!PinLink, Loader!PinLinkFails, Alone!PinLinkFails
<1>13. /\ Loader!Finish(Self) => Alone!Finish(Self)
       /\ Loader!Fail(Self) => Alone!Fail(Self)
  BY DEF Loader!Finish, Alone!Finish, Loader!Fail, Alone!Fail, Loader!MayFail, Alone!MayFail
<1> QED
  BY <1>1, <1>2, <1>3, <1>4, <1>5, <1>6, <1>7, <1>8, <1>9, <1>10, <1>11, <1>12, <1>13
  DEF Loader!LoaderStep, Alone!LoaderStep

-----------------------------------------------------------------------------
(* The loader's state is as its theorems say, also when the pin directory   *)
(* appears.                                                                 *)
LEMMA LoaderInvInit == Init => Alone!IInv /\ Alone!SInv
  BY SameInit, LoaderConstants, Alone!IInvInit, Alone!SInvInit DEF Init

LEMMA LoaderInvSteps ==
    ASSUME Alone!IInv, Alone!SInv,
           \/ Loader!Start(Self) \/ Loader!LoaderStep(Self) \/ Loader!Kill(Self)
           \/ UNCHANGED loader
    PROVE  Alone!IInv' /\ Alone!SInv'
<1>1. [Alone!Next]_(Alone!vars)
  BY SameSteps DEF Alone!Next, Alone!vars, Alone!args, Alone!kernel, Alone!local, Alone!history,
     loader, rest
<1> QED
  BY <1>1, LoaderConstants, Alone!IInvInductive, Alone!SInvInductive

LEMMA LoaderInvPinDir ==
    ASSUME Alone!IInv, Alone!SInv, pinDir' \in BOOLEAN, UNCHANGED rest
    PROVE  Alone!IInv' /\ Alone!SInv'
<1>1. UNCHANGED <<fdLinks, obj, cgroup, Alone!kernel, Alone!local, Alone!history>>
  BY DEF rest, Alone!kernel, Alone!local, Alone!history
<1> QED
  BY <1>1, LoaderConstants, Alone!IInvPinDir, Alone!SInvPinDir

(* A step of the loader moves it on from where it is, and to no other run.  *)
LEMMA LoaderMoves ==
    ASSUME Alone!TypeOK
    PROVE  /\ Loader!Start(Self) => pc[Self] = "idle" /\ pc'[Self] = "scan" /\ solo' = Self
           /\ Loader!LoaderStep(Self) \/ Loader!Kill(Self) =>
                  pc[Self] # "idle" /\ pc'[Self] # "idle" /\ solo' = solo
           /\ Loader!Kill(Self) => pc'[Self] = "failed"
           /\ Loader!Start(Self) \/ Loader!LoaderStep(Self) \/ Loader!Kill(Self) => pinDir' = pinDir
<1> USE DEF Alone!TypeOK, Alone!Done, Loader!Go, Loader!End, Loader!NextHook, Loader!args,
            Loader!history, Loader!Active, Loader!Done
<1>1. Loader!Start(Self) => pc[Self] = "idle" /\ pc'[Self] = "scan" /\ solo' = Self /\ pinDir' = pinDir
  BY DEF Loader!Start
<1>2. Loader!Kill(Self) => pc[Self] # "idle" /\ pc'[Self] = "failed" /\ solo' = solo /\ pinDir' = pinDir
  BY DEF Loader!Kill
<1>3. Loader!LoaderStep(Self) => solo' = solo /\ pinDir' = pinDir
  BY DEF Loader!LoaderStep, Loader!ScanPin, Loader!ReuseMap, Loader!CreateMap, Loader!PinMap,
     Loader!WriteRules, Loader!KeepLink, Loader!Relink, Loader!DropStalePin, Loader!AttachLink,
     Loader!AttachProg, Loader!PinLink, Loader!PinLinkFails, Loader!Finish, Loader!Fail
<1>4. Loader!LoaderStep(Self) => pc[Self] # "idle" /\ pc'[Self] # "idle"
  BY DEF Loader!LoaderStep, Loader!ScanPin, Loader!ReuseMap, Loader!CreateMap, Loader!PinMap,
     Loader!WriteRules, Loader!KeepLink, Loader!Relink, Loader!DropStalePin, Loader!AttachLink,
     Loader!AttachProg, Loader!PinLink, Loader!PinLinkFails, Loader!Finish, Loader!Fail,
     Loader!MayFail
<1> QED
  BY <1>1, <1>2, <1>3, <1>4

-----------------------------------------------------------------------------
(* Reading the kernel command line.                                         *)
LEMMA SameInput ==
    UNCHANGED <<argv, cmdline>> => PidOne' = PidOne /\ SafeCmdline' = SafeCmdline
                                   /\ Configured' = Configured
  BY DEF PidOne, SafeCmdline, Configured, Given, Asked, First, Tokens

LEMMA Least ==
    ASSUME NEW T \in SUBSET Nat, T # {}
    PROVE  \E i \in T : \A j \in T : i <= j
<1> DEFINE R == {ij \in Nat \X Nat : ij[1] < ij[2]}
<1>1. IsWellFoundedOn(R, Nat)
  BY NatLessThanWellFounded DEF OpToRel
<1>2. \A i \in T : \A j \in T : <<j, i>> \notin R => i <= j
  OBVIOUS
<1> HIDE DEF R
<1>3. PICK i \in T : \A j \in T : <<j, i>> \notin R
  BY <1>1, WFMin
<1> QED
  BY <1>2, <1>3

LEMMA FirstToken ==
    ASSUME Types, NEW key, Given(key)
    PROVE  First(key) \in 1..Len(cmdline) /\ Asked(key) \in Texts /\ Len(cmdline) \in Nat
<1>1. cmdline \in Seq([key : STRING, value : Texts])
  BY CmdlinesAssumption DEF Types
<1>2. Tokens(key) \subseteq 1..Len(cmdline) /\ Tokens(key) # {} /\ Len(cmdline) \in Nat
  <2>1. DOMAIN cmdline = 1..Len(cmdline) /\ Len(cmdline) \in Nat
    BY <1>1
  <2> QED
    BY <2>1 DEF Tokens, Given
<1>3. \E i \in Tokens(key) : \A j \in Tokens(key) : i <= j
  BY <1>2, Least
<1>4. First(key) \in Tokens(key)
  BY <1>3 DEF First
<1>5. cmdline[First(key)] \in [key : STRING, value : Texts]
  <2>1. \A T, c : c \in Seq(T) => \A i \in 1..Len(c) : c[i] \in T
    OBVIOUS
  <2> HIDE DEF Asked
  <2> QED
    BY <1>1, <1>2, <1>4, <2>1
<1> QED
  BY <1>2, <1>4, <1>5 DEF Asked

(* A key in front of another token has the value it was given.              *)
LEMMA ReadAsAsked ==
    ASSUME Types, NEW key, Given(key), First(key) < Len(cmdline)
    PROVE  cmdline_value(key) = Asked(key)
  BY FirstToken DEF cmdline_value, Asked

LEMMA ReadTypes ==
    ASSUME Types, Given("dnslink.gateway")
    PROVE  <<cmdline_value("dnslink.gateway"), port_from_cmdline>> \in Texts \X Ports
<1>1. cmdline_value("dnslink.gateway") \in Texts
  BY FirstToken DEF cmdline_value, Texts, Asked
<1>2. port_from_cmdline \in Ports
  BY PortAssumption DEF port_from_cmdline
<1> QED
  BY <1>1, <1>2

LEMMA ReadConfigured ==
    ASSUME Types, ReadCmdline, proc, SafeCmdline, upstream = argv.target
    PROVE  upstream' = Configured
<1>1. argv.target \in Texts \X Ports
  BY ArgvsAssumption DEF Types
<1>2. CASE Given("dnslink.gateway")
  <2>1. cmdline_value("dnslink.gateway") = Asked("dnslink.gateway")
    BY <1>2, ReadAsAsked DEF SafeCmdline
  <2>2. port_from_cmdline = IF Given("dnslink.port") THEN Asked("dnslink.port") ELSE NAMESERVER_PORT
    BY ReadAsAsked DEF port_from_cmdline, SafeCmdline
  <2> QED
    BY <1>2, <2>1, <2>2 DEF ReadCmdline, Configured
<1>3. CASE ~Given("dnslink.gateway")
  <2>1. ~Given("dnslink.port")
    BY <1>3 DEF SafeCmdline
  <2>2. argv.target = <<argv.target[1], argv.target[2]>>
    BY <1>1
  <2> QED
    BY <1>3, <2>1, <2>2 DEF ReadCmdline, Configured
<1> QED
  BY <1>2, <1>3

-----------------------------------------------------------------------------
LEMMA DInvInit == Init => DInv
<1> SUFFICES ASSUME Init PROVE DInv
  OBVIOUS
<1>1. Types
  BY ArgvsAssumption DEF Init, Types, Stages
<1> QED
  BY <1>1 DEF Init, Loader!Init, Loader!Maps, DInv, LoaderInTurn, Reported, UpstreamInTurn,
     BeforeLoad

(* The steps of the binary itself: they follow its stages, say nothing      *)
(* before the loader is through, and only one of them sets the upstream.    *)
LEMMA OwnSteps ==
    ASSUME DInv, UNCHANGED rest, UNCHANGED <<argv, cmdline>>,
           \/ ParseOptions \/ mount_procfs \/ ReadObject \/ ParseAddresses \/ FindBpffs
           \/ MakeMountPoint \/ MountBpffs \/ EnsurePinPath \/ Dispatch \/ PrepareCgroup
           \/ OpenCgroup \/ CgroupFails \/ Loaded \/ LoadFailed \/ exec_real \/ FallBack
    PROVE  DInv'
<1> USE DEF DInv, input, loader, rest, At, execve, mount
<1>1. PidOne' = PidOne /\ SafeCmdline' = SafeCmdline /\ Configured' = Configured
  BY SameInput
<1>2. Types'
  <2>1. upstream' = upstream
    BY DEF ParseOptions, mount_procfs, ReadObject, ParseAddresses, FindBpffs, MakeMountPoint,
       MountBpffs, EnsurePinPath, Dispatch, PrepareCgroup, OpenCgroup, CgroupFails, Loaded,
       LoadFailed, exec_real, FallBack
  <2>2. stage' \in Stages
    BY DEF ParseOptions, mount_procfs, ReadObject, ParseAddresses, FindBpffs, MakeMountPoint,
       MountBpffs, EnsurePinPath, Dispatch, PrepareCgroup, OpenCgroup, CgroupFails, Loaded,
       LoadFailed, exec_real, FallBack, Stages, Ended
  <2>3. said' \in {said, "attached", "running without redirect"}
    BY DEF ParseOptions, mount_procfs, ReadObject, ParseAddresses, FindBpffs, MakeMountPoint,
       MountBpffs, EnsurePinPath, Dispatch, PrepareCgroup, OpenCgroup, CgroupFails, Loaded,
       LoadFailed, exec_real, FallBack
  <2>4. /\ bpffs' \in BOOLEAN /\ (bpffs => bpffs')
        /\ pinDir' \in BOOLEAN /\ (pinDir' => pinDir \/ bpffs)
    <3>1. CASE MountBpffs
      <4>1. PICK result \in mount(bpffs) : bpffs' = (bpffs \/ result = "ok")
        BY <3>1 DEF MountBpffs
      <4>2. bpffs' \in BOOLEAN /\ (bpffs => bpffs')
        BY <4>1, Zenon
      <4>3. pinDir' = pinDir
        BY <3>1 DEF MountBpffs
      <4> QED
        BY <4>2, <4>3 DEF Types
    <3>2. CASE EnsurePinPath
      <4>1. bpffs' = bpffs /\ bpffs \in BOOLEAN /\ (pinDir' = bpffs \/ pinDir' = FALSE)
        BY <3>2 DEF EnsurePinPath, Types
      <4> QED
        <5>1. CASE pinDir' = bpffs
          BY <4>1, <5>1, Zenon
        <5>2. CASE pinDir' = FALSE
          BY <4>1, <5>2, Zenon
        <5> QED
          BY <4>1, <5>1, <5>2
    <3>3. CASE ~MountBpffs /\ ~EnsurePinPath
      <4>1. bpffs' = bpffs /\ pinDir' = pinDir
        BY <3>3 DEF ParseOptions, mount_procfs, ReadObject, ParseAddresses, FindBpffs,
           MakeMountPoint, Dispatch, PrepareCgroup, OpenCgroup, CgroupFails, Loaded, LoadFailed,
           exec_real, FallBack
      <4> QED
        BY <4>1 DEF Types
    <3> QED
      BY <3>1, <3>2, <3>3
  <2> QED
    BY <2>1, <2>2, <2>3, <2>4 DEF Types
<1>3. LoaderInTurn'
  <2> USE DEF LoaderInTurn, BeforeLoad
  <2>1. CASE ParseOptions \/ ReadObject \/ ParseAddresses \/ FindBpffs \/ MakeMountPoint
    BY <2>1 DEF ParseOptions, ReadObject, ParseAddresses, FindBpffs, MakeMountPoint
  <2>2. CASE mount_procfs \/ MountBpffs \/ EnsurePinPath
    BY <2>2 DEF mount_procfs, MountBpffs, EnsurePinPath
  <2>3. CASE Dispatch \/ PrepareCgroup \/ OpenCgroup \/ CgroupFails
    BY <2>3 DEF Dispatch, PrepareCgroup, OpenCgroup, CgroupFails
  <2>4. CASE Loaded \/ LoadFailed \/ exec_real \/ FallBack
    BY <2>4 DEF Loaded, LoadFailed, exec_real, FallBack
  <2> QED
    BY <2>1, <2>2, <2>3, <2>4
<1>4. Reported'
  <2> USE DEF Reported
  <2>1. CASE ParseOptions \/ ReadObject \/ ParseAddresses \/ FindBpffs \/ MakeMountPoint
    BY <2>1 DEF ParseOptions, ReadObject, ParseAddresses, FindBpffs, MakeMountPoint
  <2>2. CASE mount_procfs \/ MountBpffs \/ EnsurePinPath
    BY <2>2 DEF mount_procfs, MountBpffs, EnsurePinPath
  <2>3. CASE Dispatch \/ PrepareCgroup \/ OpenCgroup \/ CgroupFails
    BY <2>3 DEF Dispatch, PrepareCgroup, OpenCgroup, CgroupFails
  <2>4. CASE Loaded \/ LoadFailed \/ exec_real \/ FallBack
    BY <2>4 DEF Loaded, LoadFailed, exec_real, FallBack
  <2> QED
    BY <2>1, <2>2, <2>3, <2>4
<1>5. UpstreamInTurn'
  <2>1. upstream' = upstream
    BY DEF ParseOptions, mount_procfs, ReadObject, ParseAddresses, FindBpffs, MakeMountPoint,
       MountBpffs, EnsurePinPath, Dispatch, PrepareCgroup, OpenCgroup, CgroupFails, Loaded,
       LoadFailed, exec_real, FallBack
  <2>2. \/ stage' \in {"procfs", "cmdline", "usage"} /\ stage \in {"options", "procfs"}
        \/ stage = "options" /\ stage' = "object" /\ ~PidOne
        \/ stage \notin {"options", "procfs", "cmdline", "usage"} /\ proc' = proc
             /\ stage' \notin {"options", "procfs", "cmdline"}
    BY DEF ParseOptions, mount_procfs, ReadObject, ParseAddresses, FindBpffs, MakeMountPoint,
       MountBpffs, EnsurePinPath, Dispatch, PrepareCgroup, OpenCgroup, CgroupFails, Loaded,
       LoadFailed, exec_real, FallBack
  <2> QED
    BY <1>1, <2>1, <2>2 DEF UpstreamInTurn
<1> QED
  BY <1>2, <1>3, <1>4, <1>5

LEMMA DInvCmdline == DInv /\ ReadCmdline => DInv'
<1> SUFFICES ASSUME DInv, ReadCmdline PROVE DInv'
  OBVIOUS
<1>1. /\ UNCHANGED <<argv, cmdline>> /\ proc' = proc /\ stage = "cmdline" /\ stage' = "object"
      /\ said' = said /\ bpffs' = bpffs /\ pinDir' = pinDir
      /\ pc' = pc /\ pinned' = pinned /\ solo' = solo
  BY DEF ReadCmdline, At, input, loader, rest
<1>2. PidOne' = PidOne /\ SafeCmdline' = SafeCmdline /\ Configured' = Configured
  BY <1>1, SameInput
<1>3. upstream = argv.target
  BY <1>1 DEF DInv, UpstreamInTurn
<1>4. proc /\ SafeCmdline => upstream' = Configured
  BY <1>3, ReadConfigured DEF DInv
<1>5. upstream' \in Texts \X Ports
  BY ReadTypes DEF DInv, Types, ReadCmdline
<1>6. Types'
  BY <1>1, <1>5 DEF DInv, Types, Stages
<1>7. LoaderInTurn' /\ Reported'
  BY <1>1 DEF DInv, LoaderInTurn, Reported, BeforeLoad
<1>8. UpstreamInTurn'
  BY <1>1, <1>2, <1>4 DEF UpstreamInTurn
<1> QED
  BY <1>6, <1>7, <1>8 DEF DInv

LEMMA DInvLoad == DInv /\ Alone!TypeOK /\ Load => DInv'
<1> SUFFICES ASSUME DInv, Alone!TypeOK, Load PROVE DInv'
  OBVIOUS
<1>1. /\ UNCHANGED <<argv, cmdline>> /\ proc' = proc /\ stage = "load" /\ stage' = stage
      /\ said' = said /\ bpffs' = bpffs /\ upstream' = upstream
  BY DEF Load, input
<1>2. PidOne' = PidOne /\ SafeCmdline' = SafeCmdline /\ Configured' = Configured
  BY <1>1, SameInput
<1>3. pc'[Self] # "idle" /\ solo' = Self /\ pinDir' = pinDir
  BY LoaderMoves DEF Load, DInv, LoaderInTurn
<1>4. Types' /\ UpstreamInTurn'
  BY <1>1, <1>2, <1>3 DEF DInv, Types, UpstreamInTurn
<1>5. LoaderInTurn' /\ Reported'
  BY <1>1, <1>3 DEF LoaderInTurn, Reported, BeforeLoad
<1> QED
  BY <1>4, <1>5 DEF DInv

LEMMA DInvInterrupt == DInv /\ Alone!TypeOK /\ Interrupt => DInv'
<1> SUFFICES ASSUME DInv, Alone!TypeOK, Interrupt PROVE DInv'
  OBVIOUS
<1>1. /\ UNCHANGED <<argv, cmdline>> /\ proc' = proc /\ stage' = "killed"
      /\ said' = said /\ bpffs' = bpffs /\ upstream' = upstream /\ ~PidOne
  BY DEF Interrupt, input
<1>2. PidOne' = PidOne
  BY <1>1, SameInput
<1>3. /\ pc'[Self] \in {"idle", "ok", "failed"} /\ pinDir' = pinDir
      /\ pc'[Self] # "idle" => solo' = Self
  <2>1. CASE Loader!Active(Self)
    BY <2>1, LoaderMoves DEF Interrupt, DInv, LoaderInTurn
  <2>2. CASE ~Loader!Active(Self)
    <3>1. pc' = pc /\ solo' = solo /\ pinDir' = pinDir
      BY <2>2 DEF Interrupt, loader, rest
    <3> QED
      BY <2>2, <3>1 DEF DInv, LoaderInTurn, Loader!Active, Loader!Done
  <2> QED
    BY <2>1, <2>2
<1>4. Types'
  BY <1>1, <1>3 DEF DInv, Types, Stages, Ended
<1>5. UpstreamInTurn' /\ LoaderInTurn' /\ Reported'
  BY <1>1, <1>2, <1>3 DEF UpstreamInTurn, LoaderInTurn, Reported, BeforeLoad
<1> QED
  BY <1>4, <1>5 DEF DInv

LEMMA DInvStutter == DInv /\ UNCHANGED vars => DInv'
<1> SUFFICES ASSUME DInv, UNCHANGED vars PROVE DInv'
  OBVIOUS
<1>1. /\ UNCHANGED <<argv, cmdline>> /\ proc' = proc /\ stage' = stage /\ said' = said
      /\ bpffs' = bpffs /\ upstream' = upstream /\ pinDir' = pinDir
      /\ pc' = pc /\ pinned' = pinned /\ solo' = solo
  BY DEF vars, input, loader, rest
<1>2. PidOne' = PidOne /\ SafeCmdline' = SafeCmdline /\ Configured' = Configured
  BY <1>1, SameInput
<1> QED
  BY <1>1, <1>2 DEF DInv, Types, LoaderInTurn, Reported, UpstreamInTurn

-----------------------------------------------------------------------------
LEMMA IInvInductive == IInv /\ [Next]_vars => IInv'
<1> SUFFICES ASSUME IInv, [Next]_vars PROVE IInv'
  OBVIOUS
<1>1. DInv /\ Alone!IInv /\ Alone!SInv /\ Alone!TypeOK
  BY DEF IInv, Alone!IInv
<1>2. CASE Load
  BY <1>1, <1>2, DInvLoad, LoaderInvSteps DEF Load, IInv
<1>3. CASE Interrupt
  BY <1>1, <1>3, DInvInterrupt, LoaderInvSteps DEF Interrupt, IInv
<1>4. CASE ReadCmdline
  <2>1. UNCHANGED loader
    BY <1>4 DEF ReadCmdline
  <2> QED
    BY <1>1, <1>4, <2>1, DInvCmdline, LoaderInvSteps DEF IInv
<1>5. CASE UNCHANGED vars
  <2>1. UNCHANGED loader
    BY <1>5 DEF vars
  <2> QED
    BY <1>1, <1>5, <2>1, DInvStutter, LoaderInvSteps DEF IInv
<1>6. CASE Step /\ ~Load /\ ~ReadCmdline
  <2>1. UNCHANGED rest /\ UNCHANGED <<argv, cmdline>>
    BY <1>6 DEF Step, ParseOptions, mount_procfs, ReadObject, ParseAddresses, FindBpffs,
       MakeMountPoint, MountBpffs, EnsurePinPath, Dispatch, PrepareCgroup, OpenCgroup,
       CgroupFails, Loaded, LoadFailed, exec_real, FallBack, input, loader
  <2>2. DInv'
    BY <1>1, <1>6, <2>1, OwnSteps DEF Step
  <2>3. pinDir' \in BOOLEAN
    BY <2>2 DEF DInv, Types
  <2> QED
    BY <1>1, <2>1, <2>2, <2>3, LoaderInvPinDir DEF IInv
<1> QED
  BY <1>2, <1>3, <1>4, <1>5, <1>6 DEF Next, Step

LEMMA Invariance == Spec => []IInv
<1>1. Init => IInv
  BY DInvInit, LoaderInvInit DEF IInv
<1> QED
  BY <1>1, IInvInductive, PTL DEF Spec

(* main's and init::run's state has its types, and so has the loader's; the *)
(* pin directory is only made below a mounted bpffs (sys.rs create_dir_all, *)
(* main.rs ensure_bpffs), and the loader is in the middle of its work only  *)
(* inside load_and_attach.                                                  *)
THEOREM TypesOfABoot == Spec => []TypeOK
<1>1. IInv => TypeOK
  <2> SUFFICES ASSUME IInv PROVE TypeOK
    OBVIOUS
  <2>1. Loader!TypeOK
    BY SameTypes DEF IInv, Alone!IInv
  <2>2. Loader!Active(Self) => stage = "load"
    BY DEF IInv, DInv, LoaderInTurn, Loader!Active, Loader!Done
  <2> QED
    BY <2>1, <2>2 DEF IInv, DInv, Types, Stages, TypeOK
<1> QED
  BY <1>1, Invariance, PTL

(* When the VM runs its real init, or the attach command has succeeded,     *)
(* every hook of the object is in force, unless the output said otherwise   *)
(* (init.rs run, main.rs attach_mode, loader.rs load_and_attach).           *)
THEOREM BootKeepsItsWord == Spec => []NeverSilentlyUnhooked
<1>1. IInv => NeverSilentlyUnhooked
  <2> SUFFICES ASSUME IInv, stage \in {"real", "done", "watching"},
                      said # "running without redirect", ~pinFailed[Self],
                      NEW h \in DOMAIN obj[Self].tags
               PROVE  Loader!InForce(Self, h)
    BY DEF NeverSilentlyUnhooked
  <2>1. pc[Self] = "ok" /\ solo = Self
    BY DEF IInv, DInv, LoaderInTurn, Reported
  <2> QED
    BY <2>1, LoaderConstants, Alone!SInvInForce, SameInForce DEF IInv, Alone!SoloRunTakesEffect
<1> QED
  BY <1>1, Invariance, PTL

(* The rules of PID 1 never name another upstream than a sound kernel       *)
(* command line asked for (main.rs main, the dnslink.* keys).               *)
THEOREM RulesAsConfigured == Spec => []UpstreamAsConfigured
<1>1. IInv => UpstreamAsConfigured
  <2> SUFFICES ASSUME IInv, PidOne, proc, SafeCmdline, Loader!Rules = Self
               PROVE  upstream = Configured
    BY DEF UpstreamAsConfigured
  <2>1. pinned["cfg_map"] # None
    BY LoaderAssumption DEF Loader!Rules
  <2> QED
    BY <2>1 DEF IInv, DInv, LoaderInTurn, BeforeLoad, UpstreamInTurn
<1> QED
  BY <1>1, Invariance, PTL
=============================================================================
