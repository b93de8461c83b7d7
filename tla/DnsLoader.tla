------------------------------ MODULE DnsLoader ------------------------------
(***************************************************************************)
(* dnslink's loader (dnslink/src/loader.rs, load_and_attach): any number   *)
(* of runs, one after another or at the same time, that load an eBPF       *)
(* object, write the redirect rules and attach the object's hook programs, *)
(* all against one pin directory of bpffs.                                 *)
(*                                                                         *)
(* A run is identified by the process that executes it.  Whatever a run    *)
(* makes in the kernel carries its name: the map instance it creates, the  *)
(* rules it writes and the link it attaches for a hook are all just "r".   *)
(* The kernel (maps, links, bpffs) and the aya library are external and    *)
(* appear only through what load_and_attach relies on: a pin keeps a map   *)
(* or a link alive, an unpinned link lives as long as the file descriptor  *)
(* of the run that attached it, and pinning on an occupied path fails.     *)
(***************************************************************************)
EXTENDS Naturals, FiniteSets

CONSTANTS
    Runs,      \* executions of load_and_attach
    Hooks,     \* the names in HOOKS
    Tags,      \* tags the kernel computes for loaded programs
    Objects,   \* the object files a run may be given
    Cgroups,   \* the cgroup directories a run may be given
    Kernels,   \* kinds of kernel: TRUE if attachments are links (5.7 and later)
    None       \* no run, no map, no hook

Maps == {"cfg_map", "hit_cnt"}

(* An object file: the hook programs it has, each with the tag the kernel   *)
(* will give it, and the maps it declares.                                  *)
IsObject(o) ==
    /\ o.tags \in UNION {[H -> Tags] : H \in SUBSET Hooks}
    /\ o.maps \in SUBSET Maps

ASSUME NoneAssumption == None \notin Runs /\ None \notin Hooks /\ None \notin Maps
ASSUME TagsAssumption == {"unpinned", "stale"} \cap Tags = {}
ASSUME ObjectsAssumption == \A o \in Objects : IsObject(o)
ASSUME KernelsAssumption == Kernels \subseteq BOOLEAN

VARIABLES
    fdLinks,      \* the kernel's attachments are links
    obj, cgroup,  \* the arguments of each run
    pinDir,       \* the pin directory exists on a mounted bpffs
    pinned,       \* pinned[m]: the map instance pinned under the name m
    table,        \* table[i]: the run whose rules the cfg_map instance i holds
    link,         \* link[h]: the link pinned under the name h
    attached,     \* attached[h][c]: program attached without a link (before 5.7)
    pc, todo, cur,\* where a run is, what is left of its loop, its current item
    fd,           \* fd[r][m]: the map instance run r uses as m
    found,        \* found[r][h]: what the pre-scan of r found pinned for h
    pinFailed,    \* run r printed "hook not in effect"
    filled,       \* history: <<i, r>> once r has written its rules to i
    solo          \* history: the run that has had no company since it started

args == <<fdLinks, obj, cgroup, pinDir>>
kernel == <<pinned, table, link, attached>>
local == <<pc, todo, cur, fd, found, pinFailed>>
history == <<filled, solo>>
vars == <<args, kernel, local, history>>

Done == {"ok", "failed"}
Active(r) == pc[r] \notin Done \cup {"idle"}

(* Tag(q, h): the tag of the program that run q attached for hook h.        *)
Tag(q, h) == obj[q].tags[h]

(* A hook is in effect through every program attached for it: the pinned    *)
(* link, a link not yet pinned that its run still holds open, and (before   *)
(* 5.7) the programs attached without a link.                               *)
InEffect(h) ==
    ({link[h]} \cup {attached[h][c] : c \in Cgroups}
        \cup {r \in Runs : pc[r] = "pin" /\ cur[r] = h}) \ {None}

(* What the pre-scan has found before it starts.                            *)
Nothing == [h \in Hooks |-> "unpinned"]

-----------------------------------------------------------------------------
Init ==
    /\ fdLinks \in Kernels
    /\ obj \in [Runs -> Objects]
    /\ cgroup \in [Runs -> Cgroups]
    /\ pinDir \in BOOLEAN
    /\ pinned = [m \in Maps |-> None]
    /\ table = [r \in Runs |-> None]
    /\ link = [h \in Hooks |-> None]
    /\ attached = [h \in Hooks |-> [c \in Cgroups |-> None]]
    /\ pc = [r \in Runs |-> "idle"]
    /\ todo = [r \in Runs |-> {}]
    /\ cur = [r \in Runs |-> None]
    /\ fd = [r \in Runs |-> [m \in Maps |-> None]]
    /\ found = [r \in Runs |-> Nothing]
    /\ pinFailed = [r \in Runs |-> FALSE]
    /\ filled = {}
    /\ solo = None

Go(r, from, to) == pc[r] = from /\ pc' = [pc EXCEPT ![r] = to]

(* The call is over, and its variables with it.                             *)
End(r, how) ==
    /\ pc' = [pc EXCEPT ![r] = how]
    /\ todo' = [todo EXCEPT ![r] = {}]
    /\ cur' = [cur EXCEPT ![r] = None]
    /\ found' = [found EXCEPT ![r] = Nothing]
    /\ UNCHANGED <<args, kernel, fd, pinFailed, history>>

(* The turn of the loop for cur[r] is over.                                 *)
NextHook(r) ==
    /\ pc' = [pc EXCEPT ![r] = "progs"]
    /\ todo' = [todo EXCEPT ![r] = @ \ {cur[r]}]
    /\ cur' = [cur EXCEPT ![r] = None]

(* load_and_attach is called.                                               *)
Start(r) ==
    /\ Go(r, "idle", "scan")
    /\ todo' = [todo EXCEPT ![r] = Hooks]
    /\ solo' = IF \A q \in Runs : ~Active(q) THEN r ELSE None
    /\ UNCHANGED <<args, kernel, cur, fd, found, pinFailed, filled>>

(* The pre-scan opens the pin of each hook and asks for the tag of the      *)
(* program behind it.  The tag cannot be recovered when the link's info     *)
(* fails or when its program was loaded after the list of programs was      *)
(* taken.                                                                   *)
ScanPin(r) == \E h \in todo[r] :
    /\ Go(r, "scan", IF todo[r] = {h} THEN "maps" ELSE "scan")
    /\ todo' = [todo EXCEPT ![r] = @ \ {h}]
    /\ \E t \in (IF link[h] = None THEN {"unpinned"} ELSE {Tag(link[h], h), "stale"}) :
           found' = [found EXCEPT ![r][h] = t]
    /\ UNCHANGED <<args, kernel, cur, fd, pinFailed, history>>

(* Loading the object opens each of its maps by its pin ...                 *)
ReuseMap_Private(r) == \E m \in obj[r].maps :
    /\ pc[r] = "maps" /\ fd[r][m] = None /\ pinned[m] # None
    /\ fd' = [fd EXCEPT ![r][m] = r]
    /\ UNCHANGED <<args, kernel, pc, todo, cur, found, pinFailed, history>>

ReuseMap(r) == \E m \in obj[r].maps :
    /\ pc[r] = "maps" /\ fd[r][m] = None /\ pinned[m] # None
    /\ fd' = [fd EXCEPT ![r][m] = pinned[m]]
    /\ UNCHANGED <<args, kernel, pc, todo, cur, found, pinFailed, history>>

(* ... or, when nothing is pinned there, creates an instance ...            *)
CreateMap(r) == \E m \in obj[r].maps :
    /\ fd[r][m] = None /\ pinned[m] = None
    /\ Go(r, "maps", "mkmap")
    /\ cur' = [cur EXCEPT ![r] = m]
    /\ UNCHANGED <<args, kernel, todo, fd, found, pinFailed, history>>

(* ... and pins it, unless another run was faster.                          *)
PinMap(r) ==
    /\ Go(r, "mkmap", "maps")
    /\ pinDir /\ pinned[cur[r]] = None
    /\ pinned' = [pinned EXCEPT ![cur[r]] = r]
    /\ fd' = [fd EXCEPT ![r][cur[r]] = r]
    /\ cur' = [cur EXCEPT ![r] = None]
    /\ UNCHANGED <<args, table, link, attached, todo, found, pinFailed, history>>

(* The rules are written into the map the run has open; then every hook     *)
(* program of the object is due.                                            *)
WriteRules_KeepFirst(r) ==
    /\ Go(r, "maps", "progs")
    /\ "cfg_map" \in obj[r].maps /\ \A m \in obj[r].maps : fd[r][m] # None
    /\ todo' = [todo EXCEPT ![r] = DOMAIN obj[r].tags]
    /\ IF table[fd[r]["cfg_map"]] = None
         THEN /\ table' = [table EXCEPT ![fd[r]["cfg_map"]] = r]
              /\ filled' = filled \cup {<<fd[r]["cfg_map"], r>>}
         ELSE UNCHANGED <<table, filled>>
    /\ UNCHANGED <<args, pinned, link, attached, cur, fd, found, pinFailed, solo>>

WriteRules(r) ==
    /\ Go(r, "maps", "progs")
    /\ "cfg_map" \in obj[r].maps /\ \A m \in obj[r].maps : fd[r][m] # None
    /\ todo' = [todo EXCEPT ![r] = DOMAIN obj[r].tags]
    /\ table' = [table EXCEPT ![fd[r]["cfg_map"]] = r]
    /\ filled' = filled \cup {<<fd[r]["cfg_map"], r>>}
    /\ UNCHANGED <<args, pinned, link, attached, cur, fd, found, pinFailed, solo>>

(* The link found by the pre-scan is kept when it runs the same program.    *)
SameTag_AnyPin(r, h) == found[r][h] # "unpinned"
SameTag_Never(r, h) == FALSE
SameTag(r, h) == found[r][h] = Tag(r, h)

KeepLink(r) == \E h \in todo[r] :
    /\ pc[r] = "progs" /\ SameTag(r, h)
    /\ todo' = [todo EXCEPT ![r] = @ \ {h}]
    /\ UNCHANGED <<args, kernel, pc, cur, fd, found, pinFailed, history>>

Relink_NoCurrent(r) == \E h \in todo[r] :
    /\ Go(r, "progs", "unpin")
    /\ ~SameTag(r, h)
    /\ UNCHANGED <<args, kernel, todo, cur, fd, found, pinFailed, history>>

Relink(r) == \E h \in todo[r] :
    /\ Go(r, "progs", "unpin")
    /\ ~SameTag(r, h)
    /\ cur' = [cur EXCEPT ![r] = h]
    /\ UNCHANGED <<args, kernel, todo, fd, found, pinFailed, history>>

(* Removing the pin detaches the link behind it: nothing else holds it.     *)
(* A removal that fails is ignored by the code and left out here: the pin   *)
(* of the new link then fails on the path that is taken, as in PinLinkFails.*)
DropStalePin(r) ==
    /\ Go(r, "unpin", "attach")
    /\ link' = [link EXCEPT ![cur[r]] = None]
    /\ UNCHANGED <<args, pinned, table, attached, todo, cur, fd, found, pinFailed, history>>

(* An attachment with a link is in effect at once and held by its run; one  *)
(* without a link replaces the program of its cgroup and needs no pin.      *)
AttachLink(r) ==
    /\ fdLinks
    /\ Go(r, "attach", "pin")
    /\ UNCHANGED <<args, kernel, todo, cur, fd, found, pinFailed, history>>

AttachProg(r) ==
    /\ ~fdLinks
    /\ pc[r] = "attach" /\ NextHook(r)
    /\ attached' = [attached EXCEPT ![cur[r]][cgroup[r]] = r]
    /\ UNCHANGED <<args, pinned, table, link, fd, found, pinFailed, history>>

PinLink(r) ==
    /\ pc[r] = "pin" /\ NextHook(r)
    /\ pinDir /\ link[cur[r]] = None
    /\ link' = [link EXCEPT ![cur[r]] = r]
    /\ UNCHANGED <<args, pinned, table, attached, fd, found, pinFailed, history>>

(* A failed pin closes the link.  The run says so, counts the hook among    *)
(* the attached ones all the same, and goes on.                             *)
PinLinkFails_Silent(r) ==
    /\ pc[r] = "pin" /\ NextHook(r)
    /\ UNCHANGED <<args, kernel, fd, found, pinFailed, history>>

PinLinkFails(r) ==
    /\ pc[r] = "pin" /\ NextHook(r)
    /\ pinFailed' = [pinFailed EXCEPT ![r] = TRUE]
    /\ UNCHANGED <<args, kernel, fd, found, history>>

(* The loop is over: the run succeeds if it saw a hook program and can      *)
(* take the hit counters.                                                   *)
Finish(r) ==
    /\ pc[r] = "progs" /\ todo[r] = {}
    /\ DOMAIN obj[r].tags # {} /\ "hit_cnt" \in obj[r].maps
    /\ End(r, "ok")

(* Every "?" of load_and_attach: loading the object or a program, creating  *)
(* or pinning a map, writing the rules, attaching, taking a map the object  *)
(* does not have.  What was done stays done.                                *)
MayFail(r) ==
    \/ pc[r] \in {"maps", "mkmap", "attach"}
    \/ pc[r] = "progs" /\ (todo[r] # {} \/ DOMAIN obj[r].tags = {} \/ "hit_cnt" \notin obj[r].maps)

Fail(r) == MayFail(r) /\ End(r, "failed")

(* The process dies; its descriptors are closed.                            *)
Kill(r) == Active(r) /\ End(r, "failed")

(* One step of load_and_attach proper.                                      *)
LoaderStep(r) ==
    \/ ScanPin(r) \/ ReuseMap(r) \/ CreateMap(r) \/ PinMap(r) \/ WriteRules(r)
    \/ KeepLink(r) \/ Relink(r) \/ DropStalePin(r) \/ AttachLink(r) \/ AttachProg(r)
    \/ PinLink(r) \/ PinLinkFails(r) \/ Finish(r) \/ Fail(r)

Next == \E r \in Runs : Start(r) \/ LoaderStep(r) \/ Kill(r)

Spec == Init /\ [][Next]_vars

-----------------------------------------------------------------------------
(* Types; a run in the middle of relinking a hook, or of creating a map,    *)
(* knows which one; and what is pinned for a hook is a program of an object *)
(* that has that hook.                                                      *)
TypeOK ==
    /\ fdLinks \in BOOLEAN
    /\ obj \in [Runs -> Objects] /\ cgroup \in [Runs -> Cgroups] /\ pinDir \in BOOLEAN
    /\ pinned \in [Maps -> Runs \cup {None}]
    /\ table \in [Runs -> Runs \cup {None}]
    /\ link \in [Hooks -> Runs \cup {None}]
    /\ attached \in [Hooks -> [Cgroups -> Runs \cup {None}]]
    /\ pc \in [Runs -> Done \cup {"idle", "scan", "maps", "mkmap", "progs", "unpin", "attach", "pin"}]
    /\ todo \in [Runs -> SUBSET Hooks]
    /\ cur \in [Runs -> Hooks \cup Maps \cup {None}]
    /\ fd \in [Runs -> [Maps -> Runs \cup {None}]]
    /\ found \in [Runs -> [Hooks -> Tags \cup {"unpinned", "stale"}]]
    /\ pinFailed \in [Runs -> BOOLEAN]
    /\ filled \subseteq Runs \X Runs
    /\ solo \in Runs \cup {None}
    /\ \A h \in Hooks : link[h] # None => h \in DOMAIN obj[link[h]].tags
    /\ \A r \in Runs :
         /\ pc[r] = "mkmap" => cur[r] \in obj[r].maps
         /\ pc[r] \in {"progs", "unpin", "attach", "pin"} => todo[r] \subseteq DOMAIN obj[r].tags
         /\ pc[r] \in {"unpin", "attach", "pin"} => cur[r] \in todo[r]

(* "a fresh program never runs against stale rules" (load_and_attach, the   *)
(* comment on populating cfg_map): whatever other runs did meanwhile, a     *)
(* program in effect reads a rule table its own run has already written.    *)
FreshNotStale ==
    \A h \in Hooks : \A q \in InEffect(h) : <<fd[q]["cfg_map"], q>> \in filled

(* Hook h does what run r asked for: one program is in effect for it (the   *)
(* one r's cgroup sees, before 5.7), it has the tag of r's object, and the  *)
(* rules it reads are r's.                                                  *)
Serves(q, r, h) == Tag(q, h) = Tag(r, h) /\ table[fd[q]["cfg_map"]] = r
InForce(r, h) ==
    IF fdLinks
      THEN \E q \in Runs : InEffect(h) = {q} /\ Serves(q, r, h)
      ELSE attached[h][cgroup[r]] # None /\ Serves(attached[h][cgroup[r]], r, h)

(* A run that had no company and reported neither an error nor a failed pin *)
(* has put its object and its rules in force, whatever the earlier runs     *)
(* left behind: other versions, half-finished attachments, crashes.         *)
SoloRunTakesEffect ==
    \A r \in Runs : solo = r /\ pc[r] = "ok" /\ ~pinFailed[r] =>
        \A h \in DOMAIN obj[r].tags : InForce(r, h)

(* However the runs interleave, none of them silently undoes another: when  *)
(* all that were started are over and none failed, was killed or reported   *)
(* a failed pin, every hook of every one of them is in effect.              *)
RaceNeverSilent ==
    (\A r \in Runs : pc[r] \in {"idle", "ok"} /\ ~pinFailed[r]) =>
        \A r \in Runs : pc[r] = "ok" =>
            \A h \in DOMAIN obj[r].tags : InEffect(h) # {}

(* Running dnslink again does not interrupt a hook that already runs the    *)
(* same program: a run without company unpins a link only if its program    *)
(* differs or its tag could not be recovered.                               *)
NoNeedlessGap ==
    [][\A h \in Hooks : \A r \in Runs :
          solo = r /\ Active(r) /\ link[h] # None /\ link'[h] = None =>
              found[r][h] = "stale" \/ Tag(link[h], h) # Tag(r, h)]_vars

(* The runs, however they interleave and wherever they stop, implement one   *)
(* rule table shared by every hook: no program in effect, of whatever       *)
(* version, ever consults another one than the program of the next hook.    *)
Rules == IF pinned["cfg_map"] = None THEN None ELSE table[pinned["cfg_map"]]
Serving == [h \in Hooks |-> {table[fd[q]["cfg_map"]] : q \in InEffect(h)}]

OneTable == INSTANCE RuleTable WITH Rules <- Runs, rules <- Rules, serving <- Serving
SharedTable == OneTable!Spec

(* What the message "attached N cgroup hook(s) at <cgroup>" tells whoever   *)
(* ran dnslink alone and saw no failed pin.                                 *)
AttachedAtCgroup ==
    \A r \in Runs : solo = r /\ pc[r] = "ok" /\ ~pinFailed[r] =>
        \A h \in DOMAIN obj[r].tags : \E q \in InEffect(h) : cgroup[q] = cgroup[r]
=============================================================================
