--------------------------- MODULE DnsLoader_proofs ---------------------------
(***************************************************************************)
(* Theorems about DnsLoader, for any number of runs, hooks, objects and    *)
(* cgroups, on kernels with and without cgroup links.                      *)
(***************************************************************************)
EXTENDS DnsLoader, TLAPS

USE DEF Done, Maps

(* What an object file of the model has: hooks, tags and maps known to it.  *)
LEMMA ObjectType ==
    \A o \in Objects :
        /\ DOMAIN o.tags \subseteq Hooks
        /\ \A h \in DOMAIN o.tags : o.tags[h] \in Tags
        /\ o.maps \subseteq Maps
  BY ObjectsAssumption DEF IsObject

LEMMA TypeInit == Init => TypeOK
  BY NoneAssumption, KernelsAssumption DEF Init, TypeOK, Nothing

LEMMA TypeStep == TypeOK /\ [Next]_vars => TypeOK'
<1> SUFFICES ASSUME TypeOK, [Next]_vars PROVE TypeOK'
  OBVIOUS
<1> USE NoneAssumption, ObjectType DEF TypeOK, Go, End, NextHook, Nothing,
        args, kernel, history
<1>1. ASSUME NEW r \in Runs, Start(r) PROVE TypeOK'
  BY <1>1 DEF Start
<1>2. ASSUME NEW r \in Runs, ScanPin(r) PROVE TypeOK'
  BY <1>2 DEF ScanPin, Tag
<1>3. ASSUME NEW r \in Runs, ReuseMap(r) PROVE TypeOK'
  BY <1>3 DEF ReuseMap
<1>4. ASSUME NEW r \in Runs, CreateMap(r) PROVE TypeOK'
  BY <1>4 DEF CreateMap
<1>5. ASSUME NEW r \in Runs, PinMap(r) PROVE TypeOK'
  BY <1>5 DEF PinMap
<1>6. ASSUME NEW r \in Runs, WriteRules(r) PROVE TypeOK'
  BY <1>6 DEF WriteRules
<1>7. ASSUME NEW r \in Runs, KeepLink(r) PROVE TypeOK'
  BY <1>7 DEF KeepLink
<1>8. ASSUME NEW r \in Runs, Relink(r) PROVE TypeOK'
  BY <1>8 DEF Relink
<1>9. ASSUME NEW r \in Runs, DropStalePin(r) PROVE TypeOK'
  BY <1>9 DEF DropStalePin
<1>10. ASSUME NEW r \in Runs, AttachLink(r) PROVE TypeOK'
  BY <1>10 DEF AttachLink
<1>11. ASSUME NEW r \in Runs, AttachProg(r) PROVE TypeOK'
  BY <1>11 DEF AttachProg
<1>12. ASSUME NEW r \in Runs, PinLink(r) PROVE TypeOK'
  BY <1>12 DEF PinLink
<1>13. ASSUME NEW r \in Runs, PinLinkFails(r) PROVE TypeOK'
  BY <1>13 DEF PinLinkFails
<1>14. ASSUME NEW r \in Runs, Finish(r) PROVE TypeOK'
  BY <1>14 DEF Finish
<1>15. ASSUME NEW r \in Runs, Fail(r) PROVE TypeOK'
  BY <1>15 DEF Fail
<1>16. ASSUME NEW r \in Runs, Kill(r) PROVE TypeOK'
  BY <1>16 DEF Kill
<1>17. CASE UNCHANGED vars
  BY <1>17 DEF vars, local
<1> QED
  BY <1>1, <1>2, <1>3, <1>4, <1>5, <1>6, <1>7, <1>8, <1>9, <1>10, <1>11,
     <1>12, <1>13, <1>14, <1>15, <1>16, <1>17 DEF Next, LoaderStep

(* The type invariant holds whatever the runs, hooks and objects are.       *)
THEOREM TypeCorrect == Spec => []TypeOK
  BY TypeInit, TypeStep, PTL DEF Spec

-----------------------------------------------------------------------------
(* A map a run uses is the pinned one: pins are never removed or replaced.  *)
OneInstance == \A r \in Runs : \A m \in Maps : fd[r][m] # None => fd[r][m] = pinned[m]

(* Run q has written its rules to the table its programs read.              *)
Wrote(q) == fd[q]["cfg_map"] # None /\ <<fd[q]["cfg_map"], q>> \in filled

(* Rules come before programs: for a run that is past writing them, and for *)
(* every program that outlived its run.                                     *)
RulesFirst ==
    /\ \A r \in Runs : pc[r] \in {"progs", "unpin", "attach", "pin"} => Wrote(r)
    /\ \A h \in Hooks : link[h] # None => Wrote(link[h])
    /\ \A h \in Hooks : \A c \in Cgroups : attached[h][c] # None => Wrote(attached[h][c])

(* A table that was written holds somebody's rules ever after.              *)
NeverEmptied == \A i \in Runs : \A q \in Runs : <<i, q>> \in filled => table[i] # None

(* Rules are only ever written to the pinned table.                         *)
OnlyPinned == \A i \in Runs : table[i] # None => pinned["cfg_map"] = i

IInv == TypeOK /\ OneInstance /\ RulesFirst /\ NeverEmptied /\ OnlyPinned

(* The files a run uses do not change once it has them.                     *)
LEMMA FdStable ==
    ASSUME TypeOK, OneInstance, [Next]_vars, NEW q \in Runs, NEW m \in Maps, fd[q][m] # None
    PROVE  fd'[q][m] = fd[q][m] /\ pinned'[m] = pinned[m]
<1> USE DEF TypeOK, OneInstance, Go, End, NextHook, args, kernel, history
<1>1. ASSUME NEW r \in Runs, ReuseMap(r) PROVE fd'[q][m] = fd[q][m] /\ pinned'[m] = pinned[m]
  BY <1>1 DEF ReuseMap
<1>2. ASSUME NEW r \in Runs, PinMap(r) PROVE fd'[q][m] = fd[q][m] /\ pinned'[m] = pinned[m]
  BY <1>2, ObjectType DEF PinMap
<1>3. CASE UNCHANGED <<fd, pinned>>
  BY <1>3
<1> QED
  BY <1>1, <1>2, <1>3 DEF Next, LoaderStep, Start, ScanPin, CreateMap, WriteRules, KeepLink,
     Relink, DropStalePin, AttachLink, AttachProg, PinLink, PinLinkFails, Finish, Fail, Kill,
     vars, local

LEMMA WroteStable ==
    ASSUME TypeOK, OneInstance, [Next]_vars, NEW q \in Runs, Wrote(q)
    PROVE  Wrote(q)'
<1>1. filled \subseteq filled'
  BY DEF Next, LoaderStep, Start, ScanPin, ReuseMap, CreateMap, PinMap, WriteRules, KeepLink,
     Relink, DropStalePin, AttachLink, AttachProg, PinLink, PinLinkFails, Finish, Fail, Kill,
     Go, End, NextHook, vars, history
<1> QED
  BY <1>1, FdStable DEF Wrote

LEMMA IInvInductive == IInv /\ [Next]_vars => IInv'
<1> SUFFICES ASSUME IInv, [Next]_vars PROVE IInv'
  OBVIOUS
<1> USE DEF IInv
<1>1. TypeOK'
  BY TypeStep
<1>2. OneInstance'
  <2> USE DEF TypeOK, OneInstance, Go, End, NextHook, args, kernel, history
  <2>1. ASSUME NEW r \in Runs, ReuseMap(r) PROVE OneInstance'
    BY <2>1 DEF ReuseMap
  <2>2. ASSUME NEW r \in Runs, PinMap(r) PROVE OneInstance'
    BY <2>2, ObjectType, NoneAssumption DEF PinMap
  <2>3. CASE UNCHANGED <<fd, pinned>>
    BY <2>3
  <2> QED
    BY <2>1, <2>2, <2>3 DEF Next, LoaderStep, Start, ScanPin, CreateMap, WriteRules, KeepLink,
       Relink, DropStalePin, AttachLink, AttachProg, PinLink, PinLinkFails, Finish, Fail, Kill,
       vars, local
<1>3. RulesFirst'
  <2>1. \A q \in Runs : Wrote(q) => Wrote(q)'
    BY WroteStable
  <2> USE <2>1, NoneAssumption DEF TypeOK, RulesFirst, Go, End, NextHook, args, kernel, history
  <2>2. ASSUME NEW r \in Runs, WriteRules(r) PROVE RulesFirst'
    <3>1. Wrote(r)'
      BY <2>2, ObjectType DEF WriteRules, Wrote
    <3> QED
      BY <2>2, <3>1 DEF WriteRules
  <2>3. ASSUME NEW r \in Runs, AttachProg(r) PROVE RulesFirst'
    BY <2>3 DEF AttachProg
  <2>4. ASSUME NEW r \in Runs, PinLink(r) PROVE RulesFirst'
    BY <2>4 DEF PinLink
  <2>5. ASSUME NEW r \in Runs, DropStalePin(r) PROVE RulesFirst'
    BY <2>5 DEF DropStalePin
  <2>6. ASSUME NEW r \in Runs, Start(r) \/ ScanPin(r) \/ ReuseMap(r) \/ CreateMap(r) \/ PinMap(r)
        PROVE RulesFirst'
    BY <2>6 DEF Start, ScanPin, ReuseMap, CreateMap, PinMap
  <2>7. ASSUME NEW r \in Runs, KeepLink(r) \/ Relink(r) \/ AttachLink(r) \/ PinLinkFails(r)
        PROVE RulesFirst'
    BY <2>7 DEF KeepLink, Relink, AttachLink, PinLinkFails
  <2>8. ASSUME NEW r \in Runs, Finish(r) \/ Fail(r) \/ Kill(r) PROVE RulesFirst'
    BY <2>8 DEF Finish, Fail, Kill
  <2>9. CASE UNCHANGED vars
    BY <2>9 DEF vars, local
  <2> QED
    BY <2>2, <2>3, <2>4, <2>5, <2>6, <2>7, <2>8, <2>9 DEF Next, LoaderStep
<1>4. NeverEmptied'
  <2>1. ASSUME NEW r \in Runs, WriteRules(r) PROVE NeverEmptied'
    BY <2>1, NoneAssumption DEF WriteRules, TypeOK, NeverEmptied
  <2>2. CASE UNCHANGED <<table, filled>>
    BY <2>2 DEF NeverEmptied
  <2> QED
    BY <2>1, <2>2 DEF Next, LoaderStep, Start, ScanPin, ReuseMap, CreateMap, PinMap, KeepLink,
       Relink, DropStalePin, AttachLink, AttachProg, PinLink, PinLinkFails, Finish, Fail, Kill,
       End, NextHook, kernel, history, vars
<1>5. OnlyPinned'
  <2> USE DEF TypeOK, OnlyPinned, Go, End, NextHook, args, kernel, history
  <2>1. ASSUME NEW r \in Runs, WriteRules(r) PROVE OnlyPinned'
    BY <2>1, NoneAssumption DEF WriteRules, OneInstance
  <2>2. ASSUME NEW r \in Runs, PinMap(r) PROVE OnlyPinned'
    BY <2>2, ObjectType, NoneAssumption DEF PinMap
  <2>3. CASE UNCHANGED <<table, pinned>>
    BY <2>3
  <2> QED
    BY <2>1, <2>2, <2>3 DEF Next, LoaderStep, Start, ScanPin, ReuseMap, CreateMap, KeepLink,
       Relink, DropStalePin, AttachLink, AttachProg, PinLink, PinLinkFails, Finish, Fail, Kill,
       vars, local
<1> QED
  BY <1>1, <1>2, <1>3, <1>4, <1>5

LEMMA IInvInit == Init => IInv
<1>1. Init => TypeOK
  BY TypeInit
<1> QED
  BY <1>1 DEF IInv, Init, OneInstance, RulesFirst, NeverEmptied, OnlyPinned

(* Only the types depend on the pin directory.                              *)
LEMMA IInvPinDir ==
    IInv /\ pinDir' \in BOOLEAN /\ UNCHANGED <<fdLinks, obj, cgroup, kernel, local, history>> => IInv'
<1> SUFFICES ASSUME IInv, pinDir' \in BOOLEAN,
                    UNCHANGED <<fdLinks, obj, cgroup, kernel, local, history>>
             PROVE  IInv'
  OBVIOUS
<1> USE DEF kernel, local, history
<1>1. TypeOK'
  BY DEF IInv, TypeOK
<1>2. OneInstance' /\ RulesFirst' /\ NeverEmptied' /\ OnlyPinned'
  BY DEF IInv, OneInstance, RulesFirst, NeverEmptied, OnlyPinned, Wrote
<1> QED
  BY <1>1, <1>2 DEF IInv

THEOREM Invariance == Spec => []IInv
  BY IInvInit, IInvInductive, PTL DEF Spec

(* "a fresh program never runs against stale rules": whatever the other     *)
(* runs do meanwhile, and wherever any of them fails or dies, a program in  *)
(* effect reads a table its own run has written.                            *)
THEOREM FreshNeverStale == Spec => []FreshNotStale
<1>1. IInv => FreshNotStale
  BY DEF IInv, TypeOK, RulesFirst, Wrote, FreshNotStale, InEffect
<1> QED
  BY <1>1, Invariance, PTL

-----------------------------------------------------------------------------
(* Every program in effect reads the pinned table, and it has rules.        *)
LEMMA ServedByTable ==
    ASSUME IInv, NEW h \in Hooks
    PROVE  /\ Serving[h] = IF InEffect(h) = {} THEN {} ELSE {Rules}
           /\ InEffect(h) # {} => Rules # None
<1>1. \A q \in InEffect(h) : q \in Runs /\ Wrote(q)
  BY DEF IInv, TypeOK, RulesFirst, InEffect
<1>2. \A q \in InEffect(h) : table[fd[q]["cfg_map"]] = Rules /\ Rules # None
  BY <1>1, NoneAssumption DEF IInv, TypeOK, OneInstance, NeverEmptied, Wrote, Rules
<1> QED
  BY <1>2 DEF Serving

(* So the state always has the form the abstract specification writes.      *)
Served == {h \in Hooks : InEffect(h) # {}}
Abstract ==
    /\ Serving = OneTable!Consulted(Served, Rules)
    /\ OneTable!On = Served
    /\ Served # {} => Rules # None

LEMMA AsAbstract == IInv => Abstract
<1> SUFFICES ASSUME IInv PROVE Abstract
  OBVIOUS
<1>1. Serving = [h \in Hooks |-> Serving[h]]
  BY DEF Serving
<1>2. OneTable!On = Served
  BY ServedByTable DEF OneTable!On, Served
<1> QED
  BY <1>1, <1>2, ServedByTable DEF Abstract, Served, OneTable!Consulted

(* What a step does to the rules: only writing them changes them.           *)
LEMMA RulesStep ==
    ASSUME IInv, [Next]_vars
    PROVE  \/ Rules' = Rules
           \/ \E r \in Runs : Rules' = r /\ \A h \in Hooks : InEffect(h)' = InEffect(h)
<1> USE DEF IInv, TypeOK, Go, End, NextHook, args, kernel, history
<1>1. ASSUME NEW r \in Runs, WriteRules(r)
      PROVE  Rules' = r /\ \A h \in Hooks : InEffect(h)' = InEffect(h)
  <2>1. Rules' = r
    BY <1>1, NoneAssumption DEF WriteRules, OneInstance, Rules
  <2>2. \A h \in Hooks : InEffect(h)' = InEffect(h)
    BY <1>1 DEF WriteRules, InEffect
  <2> QED
    BY <2>1, <2>2
<1>2. ASSUME NEW r \in Runs, PinMap(r) PROVE Rules' = Rules
  BY <1>2, ObjectType, NoneAssumption DEF PinMap, OnlyPinned, Rules
<1>3. CASE UNCHANGED <<table, pinned>>
  BY <1>3 DEF Rules
<1> QED
  BY <1>1, <1>2, <1>3 DEF Next, LoaderStep, Start, ScanPin, ReuseMap, CreateMap, KeepLink,
     Relink, DropStalePin, AttachLink, AttachProg, PinLink, PinLinkFails, Finish, Fail, Kill,
     vars, local

(* What a step does to the hooks: one at most gains or loses a program.     *)
LEMMA OneHookAtATime ==
    ASSUME IInv, [Next]_vars
    PROVE  \/ \A h \in Hooks : InEffect(h)' = InEffect(h)
           \/ \E g \in Hooks : \A h \in Hooks \ {g} : InEffect(h)' = InEffect(h)
<1> DEFINE Same == \A h \in Hooks : InEffect(h)' = InEffect(h)
           One(g) == \A h \in Hooks \ {g} : InEffect(h)' = InEffect(h)
<1> USE ObjectType DEF IInv, TypeOK, Go, End, NextHook, args, kernel, history
<1>1. ASSUME NEW r \in Runs, Start(r) \/ ScanPin(r) \/ ReuseMap(r) \/ CreateMap(r) PROVE Same
  BY <1>1 DEF Start, ScanPin, ReuseMap, CreateMap, InEffect
<1>2. ASSUME NEW r \in Runs, PinMap(r) \/ WriteRules(r) \/ KeepLink(r) \/ Relink(r) PROVE Same
  BY <1>2 DEF PinMap, WriteRules, KeepLink, Relink, InEffect
<1>3. ASSUME NEW r \in Runs, DropStalePin(r) PROVE cur[r] \in Hooks /\ One(cur[r])
  BY <1>3 DEF DropStalePin, InEffect
<1>4. ASSUME NEW r \in Runs, AttachLink(r) PROVE cur[r] \in Hooks /\ One(cur[r])
  BY <1>4 DEF AttachLink, InEffect
<1>5. ASSUME NEW r \in Runs, AttachProg(r) PROVE cur[r] \in Hooks /\ One(cur[r])
  BY <1>5 DEF AttachProg, InEffect
<1>6. ASSUME NEW r \in Runs, PinLink(r) PROVE cur[r] \in Hooks /\ One(cur[r])
  BY <1>6 DEF PinLink, InEffect
<1>7. ASSUME NEW r \in Runs, PinLinkFails(r) PROVE cur[r] \in Hooks /\ One(cur[r])
  BY <1>7 DEF PinLinkFails, InEffect
<1>8. ASSUME NEW r \in Runs, Finish(r) \/ Fail(r) PROVE Same
  BY <1>8 DEF Finish, Fail, MayFail, InEffect
<1>9. ASSUME NEW r \in Runs, Kill(r) PROVE Same \/ (cur[r] \in Hooks /\ One(cur[r]))
  <2>1. CASE pc[r] = "pin"
    BY <1>9, <2>1 DEF Kill, InEffect
  <2>2. CASE pc[r] # "pin"
    BY <1>9, <2>2 DEF Kill, InEffect
  <2> QED
    BY <2>1, <2>2
<1>10. CASE UNCHANGED vars
  BY <1>10 DEF vars, local, InEffect
<1> QED
  BY <1>1, <1>2, <1>3, <1>4, <1>5, <1>6, <1>7, <1>8, <1>9, <1>10 DEF Next, LoaderStep

(* The loader implements one shared rule table: every step of any run sets  *)
(* the rules for all hooks at once, changes one hook, or changes nothing    *)
(* that the hooks can see.                                                  *)
THEOREM SharedTableImplemented == Spec => SharedTable
<1>1. Init => OneTable!Init
  <2>1. ASSUME Init PROVE Rules = None /\ \A h \in Hooks : InEffect(h) = {}
    BY <2>1 DEF Init, Rules, InEffect
  <2> QED
    BY <2>1 DEF OneTable!Init, OneTable!Consulted, Serving
<1>2. Abstract /\ Abstract' /\ IInv /\ [Next]_vars => [OneTable!Next]_<<Rules, Serving>>
  <2> SUFFICES ASSUME Abstract, Abstract', IInv, [Next]_vars
               PROVE  [OneTable!Next]_<<Rules, Serving>>
    OBVIOUS
  <2> USE DEF Abstract
  <2>1. ASSUME NEW r \in Runs, Rules' = r, Served' = Served
        PROVE  OneTable!Next
    BY <2>1 DEF OneTable!Next, OneTable!SetRules, OneTable!Consulted
  <2>2. ASSUME Rules' = Rules, NEW g \in Hooks, Served' = Served \cup {g}
        PROVE  OneTable!Next
    BY <2>2 DEF OneTable!Next, OneTable!TakeEffect, OneTable!Consulted
  <2>3. ASSUME Rules' = Rules, NEW g \in Hooks, Served' = Served \ {g}
        PROVE  OneTable!Next
    BY <2>3 DEF OneTable!Next, OneTable!LoseEffect, OneTable!Consulted
  <2>4. CASE Rules' = Rules /\ Served' = Served
    BY <2>4 DEF OneTable!Consulted
  <2>5. Served' = Served \/ \E g \in Hooks : Served' = Served \cup {g} \/ Served' = Served \ {g}
    BY OneHookAtATime DEF Served
  <2>6. Rules' = Rules \/ \E r \in Runs : Rules' = r /\ Served' = Served
    BY RulesStep DEF Served
  <2> QED
    BY <2>1, <2>2, <2>3, <2>4, <2>5, <2>6
<1> QED
  BY <1>1, <1>2, AsAbstract, Invariance, PTL DEF Spec, SharedTable, OneTable!Spec

-----------------------------------------------------------------------------
(* What a run achieves when it has no company, and what runs that have     *)
(* company do not undo.                                                     *)

(* A kernel has links or it has not.                                        *)
LinkKind ==
    /\ fdLinks => \A h \in Hooks : \A c \in Cgroups : attached[h][c] = None
    /\ ~fdLinks => (\A h \in Hooks : link[h] = None) /\ \A r \in Runs : pc[r] # "pin"

(* Between two maps and between two hooks a run has no current one; before  *)
(* it starts, no finds; after it is over, nothing is left to do.            *)
Fresh ==
    /\ \A r \in Runs : pc[r] \in {"idle", "scan", "maps", "progs"} => cur[r] = None
    /\ \A r \in Runs : pc[r] = "idle" => found[r] = Nothing
    /\ \A r \in Runs : pc[r] \in Done => todo[r] = {}

Past == {"progs", "unpin", "attach", "pin", "ok"}

Alone(r) == pc[r] # "idle" /\ \A q \in Runs \ {r} : ~Active(q)

(* The run has scanned hook h and not dealt with it yet.                    *)
Ahead(r, h) ==
    \/ pc[r] = "scan" /\ h \notin todo[r]
    \/ pc[r] \in {"maps", "mkmap"}
    \/ pc[r] \in Past /\ h \in todo[r] /\ (h # cur[r] \/ pc[r] = "unpin")

(* What the pre-scan found is still so for the hooks not yet dealt with,    *)
(* and what is being replaced has not the tag of its replacement.           *)
Trusted(r) ==
    /\ \A h \in Hooks : Ahead(r, h) =>
         /\ found[r][h] \in Tags => link[h] # None /\ Tag(link[h], h) = found[r][h]
         /\ found[r][h] = "unpinned" => link[h] = None
    /\ pc[r] = "unpin" => ~SameTag(r, cur[r])

(* Hook h runs the program of r's object.                                   *)
Carried(r, h) ==
    IF fdLinks
      THEN link[h] # None /\ Tag(link[h], h) = Tag(r, h)
      ELSE attached[h][cgroup[r]] # None /\ Tag(attached[h][cgroup[r]], h) = Tag(r, h)

(* Of a run without company: its rules are the rules, and what it has dealt *)
(* with runs its programs.                                                  *)
Prevails(r) ==
    pc[r] \in Past =>
        /\ Rules = r
        /\ ~pinFailed[r] => \A h \in DOMAIN obj[r].tags \ todo[r] : Carried(r, h)

Undisputed(r) == Alone(r) /\ Trusted(r) /\ Prevails(r)

SInv == LinkKind /\ Fresh /\ \A r \in Runs : solo = r => Undisputed(r)

LEMMA SInvInit == Init => SInv
  BY NoneAssumption DEF Init, SInv, LinkKind, Fresh, Nothing

LEMMA LinkKindStep == TypeOK /\ LinkKind /\ [Next]_vars => LinkKind'
<1> SUFFICES ASSUME TypeOK, LinkKind, [Next]_vars PROVE LinkKind'
  OBVIOUS
<1> USE NoneAssumption DEF TypeOK, LinkKind, Go, End, NextHook, args, kernel, history
<1>1. ASSUME NEW r \in Runs, Start(r) \/ ScanPin(r) \/ ReuseMap(r) \/ CreateMap(r) \/ PinMap(r)
      PROVE  LinkKind'
  BY <1>1 DEF Start, ScanPin, ReuseMap, CreateMap, PinMap
<1>2. ASSUME NEW r \in Runs, WriteRules(r) \/ KeepLink(r) \/ Relink(r) \/ DropStalePin(r)
      PROVE  LinkKind'
  BY <1>2 DEF WriteRules, KeepLink, Relink, DropStalePin
<1>3. ASSUME NEW r \in Runs, AttachLink(r) \/ AttachProg(r) \/ PinLink(r) \/ PinLinkFails(r)
      PROVE  LinkKind'
  BY <1>3 DEF AttachLink, AttachProg, PinLink, PinLinkFails
<1>4. ASSUME NEW r \in Runs, Finish(r) \/ Fail(r) \/ Kill(r) PROVE LinkKind'
  BY <1>4 DEF Finish, Fail, Kill
<1>5. CASE UNCHANGED vars
  BY <1>5 DEF vars, local
<1> QED
  BY <1>1, <1>2, <1>3, <1>4, <1>5 DEF Next, LoaderStep

LEMMA FreshStep == TypeOK /\ Fresh /\ [Next]_vars => Fresh'
<1> SUFFICES ASSUME TypeOK, Fresh, [Next]_vars PROVE Fresh'
  OBVIOUS
<1> USE NoneAssumption DEF TypeOK, Fresh, Go, End, NextHook, args, kernel, history
<1>1. ASSUME NEW r \in Runs, Start(r) PROVE Fresh'
  BY <1>1 DEF Start
<1>2. ASSUME NEW r \in Runs, ScanPin(r) PROVE Fresh'
  BY <1>2 DEF ScanPin
<1>3. ASSUME NEW r \in Runs, ReuseMap(r) PROVE Fresh'
  BY <1>3 DEF ReuseMap
<1>4. ASSUME NEW r \in Runs, CreateMap(r) PROVE Fresh'
  BY <1>4 DEF CreateMap
<1>5. ASSUME NEW r \in Runs, PinMap(r) PROVE Fresh'
  BY <1>5 DEF PinMap
<1>6. ASSUME NEW r \in Runs, WriteRules(r) PROVE Fresh'
  BY <1>6 DEF WriteRules
<1>7. ASSUME NEW r \in Runs, KeepLink(r) PROVE Fresh'
  BY <1>7 DEF KeepLink
<1>8. ASSUME NEW r \in Runs, Relink(r) PROVE Fresh'
  BY <1>8 DEF Relink
<1>9. ASSUME NEW r \in Runs, DropStalePin(r) PROVE Fresh'
  BY <1>9 DEF DropStalePin
<1>10. ASSUME NEW r \in Runs, AttachLink(r) PROVE Fresh'
  BY <1>10 DEF AttachLink
<1>11. ASSUME NEW r \in Runs, AttachProg(r) PROVE Fresh'
  BY <1>11 DEF AttachProg
<1>12. ASSUME NEW r \in Runs, PinLink(r) PROVE Fresh'
  BY <1>12 DEF PinLink
<1>13. ASSUME NEW r \in Runs, PinLinkFails(r) PROVE Fresh'
  BY <1>13 DEF PinLinkFails
<1>14. ASSUME NEW r \in Runs, Finish(r) PROVE Fresh'
  BY <1>14 DEF Finish
<1>15. ASSUME NEW r \in Runs, Fail(r) PROVE Fresh'
  BY <1>15 DEF Fail, MayFail
<1>16. ASSUME NEW r \in Runs, Kill(r) PROVE Fresh'
  BY <1>16 DEF Kill, Active
<1>17. CASE UNCHANGED vars
  BY <1>17 DEF vars, local
<1> QED
  BY <1>1, <1>2, <1>3, <1>4, <1>5, <1>6, <1>7, <1>8, <1>9,
     <1>10, <1>11, <1>12, <1>13, <1>14, <1>15, <1>16, <1>17 DEF Next, LoaderStep

(* The next run to start without company trusts what its scan will find.    *)
LEMMA StartUndisputed ==
    ASSUME TypeOK, SInv, NEW q \in Runs, Start(q), NEW r \in Runs, solo' = r
    PROVE  Undisputed(r)'
<1> USE NoneAssumption DEF TypeOK, SInv, Fresh, Start, Go, args, kernel
<1>1. r = q /\ \A p \in Runs : ~Active(p)
  OBVIOUS
<1>2. Alone(r)'
  BY <1>1 DEF Alone, Active
<1>3. Trusted(r)'
  BY <1>1, TagsAssumption DEF Trusted, Ahead, Nothing, Past
<1>4. Prevails(r)'
  BY <1>1 DEF Prevails, Past
<1> QED
  BY <1>2, <1>3, <1>4 DEF Undisputed

(* While a run has no company, every step is its own.                       *)
LEMMA OwnStep ==
    ASSUME TypeOK, NEW r \in Runs, Alone(r), NEW q \in Runs, LoaderStep(q) \/ Kill(q)
    PROVE  q = r /\ solo' = solo /\ Alone(r)'
<1> USE DEF TypeOK, Alone, Active, Go, End, NextHook, history
<1>1. CASE ScanPin(q) \/ ReuseMap(q) \/ CreateMap(q) \/ PinMap(q)
  BY <1>1 DEF ScanPin, ReuseMap, CreateMap, PinMap
<1>2. CASE WriteRules(q) \/ KeepLink(q) \/ Relink(q) \/ DropStalePin(q)
  BY <1>2 DEF WriteRules, KeepLink, Relink, DropStalePin
<1>3. CASE AttachLink(q) \/ AttachProg(q) \/ PinLink(q) \/ PinLinkFails(q)
  BY <1>3 DEF AttachLink, AttachProg, PinLink, PinLinkFails
<1>4. CASE Finish(q) \/ Fail(q) \/ Kill(q)
  BY <1>4 DEF Finish, Fail, MayFail, Kill
<1> QED
  BY <1>1, <1>2, <1>3, <1>4 DEF LoaderStep

LEMMA TrustedStep ==
    ASSUME TypeOK, Fresh, NEW r \in Runs, Trusted(r), LoaderStep(r) \/ Kill(r)
    PROVE  Trusted(r)'
<1> USE NoneAssumption DEF TypeOK, Fresh, Trusted, Ahead, SameTag, Past, Tag, Go, End, NextHook,
        args, kernel
<1>1. CASE ScanPin(r)
  <2>1. \A h \in Hooks : link[h] # None => Tag(link[h], h) \in Tags
    BY ObjectType
  <2> QED
    BY <1>1, <2>1, TagsAssumption DEF ScanPin
<1>2. CASE ReuseMap(r) \/ CreateMap(r) \/ PinMap(r)
  BY <1>2 DEF ReuseMap, CreateMap, PinMap
<1>3. CASE WriteRules(r) \/ KeepLink(r) \/ Relink(r)
  BY <1>3 DEF WriteRules, KeepLink, Relink
<1>4. CASE DropStalePin(r)
  BY <1>4 DEF DropStalePin
<1>5. CASE AttachLink(r) \/ AttachProg(r)
  BY <1>5 DEF AttachLink, AttachProg
<1>6. CASE PinLink(r) \/ PinLinkFails(r)
  BY <1>6 DEF PinLink, PinLinkFails
<1>7. CASE Finish(r) \/ Fail(r) \/ Kill(r)
  BY <1>7 DEF Finish, Fail, Kill
<1> QED
  BY <1>1, <1>2, <1>3, <1>4, <1>5, <1>6, <1>7 DEF LoaderStep

LEMMA PrevailsStep ==
    ASSUME IInv, LinkKind, Fresh, NEW r \in Runs, Trusted(r), Prevails(r),
           LoaderStep(r) \/ Kill(r)
    PROVE  Prevails(r)'
<1> USE NoneAssumption DEF IInv, TypeOK, Prevails, Past, Go, End, NextHook, args, kernel
<1>1. CASE ScanPin(r) \/ ReuseMap(r) \/ CreateMap(r) \/ PinMap(r)
  BY <1>1 DEF ScanPin, ReuseMap, CreateMap, PinMap
<1>2. CASE WriteRules(r)
  <2>1. Rules' = r
    BY <1>2 DEF WriteRules, OneInstance, Rules
  <2> QED
    BY <1>2, <2>1 DEF WriteRules
<1>3. CASE KeepLink(r)
  <2>1. PICK h \in todo[r] : SameTag(r, h) /\ todo' = [todo EXCEPT ![r] = @ \ {h}]
    BY <1>3 DEF KeepLink
  <2>2. fdLinks /\ link[h] # None /\ Tag(link[h], h) = Tag(r, h)
    BY <1>3, <2>1, ObjectType DEF KeepLink, SameTag, Trusted, Ahead, Fresh, LinkKind, Tag
  <2> QED
    BY <1>3, <2>1, <2>2 DEF KeepLink, Carried, Rules, Tag
<1>4. CASE Relink(r) \/ AttachLink(r) \/ PinLinkFails(r)
  BY <1>4 DEF Relink, AttachLink, PinLinkFails, Carried, Rules, Tag
<1>5. CASE DropStalePin(r)
  BY <1>5 DEF DropStalePin, Carried, Rules, Tag
<1>6. CASE AttachProg(r)
  BY <1>6, ObjectType DEF AttachProg, Carried, Rules, Tag
<1>7. CASE PinLink(r)
  BY <1>7, ObjectType DEF PinLink, LinkKind, Carried, Rules, Tag
<1>8. CASE Finish(r) \/ Fail(r) \/ Kill(r)
  BY <1>8 DEF Finish, Fail, Kill, Carried, Rules, Tag
<1> QED
  BY <1>1, <1>2, <1>3, <1>4, <1>5, <1>6, <1>7, <1>8 DEF LoaderStep

LEMMA SInvInductive == IInv /\ SInv /\ [Next]_vars => SInv'
<1> SUFFICES ASSUME IInv, SInv, [Next]_vars PROVE SInv'
  OBVIOUS
<1>1. LinkKind' /\ Fresh'
  BY LinkKindStep, FreshStep DEF IInv, SInv
<1>2. ASSUME NEW r \in Runs, solo' = r PROVE Undisputed(r)'
  <2>1. ASSUME NEW q \in Runs, Start(q) PROVE Undisputed(r)'
    BY <1>2, <2>1, StartUndisputed DEF IInv
  <2>2. ASSUME NEW q \in Runs, LoaderStep(q) \/ Kill(q) PROVE Undisputed(r)'
    <3>1. solo' = solo
      BY <2>2 DEF LoaderStep, ScanPin, ReuseMap, CreateMap, PinMap, WriteRules, KeepLink, Relink,
         DropStalePin, AttachLink, AttachProg, PinLink, PinLinkFails, Finish, Fail, Kill,
         End, history
    <3>2. Undisputed(r)
      BY <1>2, <3>1 DEF SInv
    <3>3. q = r /\ Alone(r)'
      BY <2>2, <3>2, OwnStep DEF IInv, Undisputed
    <3> QED
      BY <2>2, <3>2, <3>3, TrustedStep, PrevailsStep DEF IInv, SInv, Undisputed
  <2>3. CASE UNCHANGED vars
    <3> USE <2>3 DEF vars, args, kernel, local, history
    <3>1. Alone(r) => Alone(r)'
      BY DEF Alone, Active
    <3>2. Trusted(r) => Trusted(r)'
      BY DEF Trusted, Ahead, SameTag, Tag
    <3>3. Prevails(r) => Prevails(r)'
      BY DEF Prevails, Carried, Rules, Tag
    <3> QED
      BY <1>2, <3>1, <3>2, <3>3 DEF SInv, Undisputed
  <2> QED
    BY <2>1, <2>2, <2>3 DEF Next
<1> QED
  BY <1>1, <1>2 DEF SInv

LEMMA SInvPinDir ==
    SInv /\ UNCHANGED <<fdLinks, obj, cgroup, kernel, local, history>> => SInv'
<1> SUFFICES ASSUME SInv, UNCHANGED <<fdLinks, obj, cgroup, kernel, local, history>> PROVE SInv'
  OBVIOUS
<1> USE DEF kernel, local, history
<1>1. LinkKind' /\ Fresh'
  BY DEF SInv, LinkKind, Fresh
<1>2. ASSUME NEW r \in Runs, solo' = r PROVE Undisputed(r)'
  <2>1. Alone(r) => Alone(r)'
    BY DEF Alone, Active
  <2>2. Trusted(r) => Trusted(r)'
    BY DEF Trusted, Ahead, SameTag, Tag
  <2>3. Prevails(r) => Prevails(r)'
    BY DEF Prevails, Carried, Rules, Tag
  <2> QED
    BY <1>2, <2>1, <2>2, <2>3 DEF SInv, Undisputed
<1> QED
  BY <1>1, <1>2 DEF SInv

LEMMA SInvInForce == IInv /\ SInv => SoloRunTakesEffect
<1> SUFFICES ASSUME IInv, SInv, NEW r \in Runs, solo = r, pc[r] = "ok", ~pinFailed[r],
                    NEW h \in DOMAIN obj[r].tags, h \in Hooks
             PROVE  InForce(r, h)
  BY ObjectType DEF SoloRunTakesEffect, IInv, TypeOK
<1>1. Rules = r /\ Carried(r, h)
  BY DEF SInv, Fresh, Undisputed, Prevails, Past
<1>2. CASE fdLinks
  <2>1. \A q \in Runs : pc[q] # "pin"
    BY DEF SInv, Undisputed, Alone, Active
  <2>2. \A c \in Cgroups : attached[h][c] = None
    BY <1>2 DEF SInv, LinkKind
  <2>3. link[h] \in Runs /\ Tag(link[h], h) = Tag(r, h)
    BY <1>1, <1>2 DEF Carried, IInv, TypeOK
  <2>4. InEffect(h) = {link[h]}
    BY <2>1, <2>2, <2>3, NoneAssumption DEF InEffect
  <2>5. table[fd[link[h]]["cfg_map"]] = r
    BY <1>1, <2>3, NoneAssumption DEF IInv, TypeOK, RulesFirst, Wrote, OneInstance, Rules
  <2> QED
    BY <1>2, <2>3, <2>4, <2>5 DEF InForce, Serves
<1>3. CASE ~fdLinks
  <2> DEFINE q == attached[h][cgroup[r]]
  <2>1. q \in Runs /\ Tag(q, h) = Tag(r, h)
    BY <1>1, <1>3 DEF Carried, IInv, TypeOK
  <2>2. table[fd[q]["cfg_map"]] = r
    BY <1>1, <2>1, NoneAssumption DEF IInv, TypeOK, RulesFirst, Wrote, OneInstance, Rules
  <2> QED
    BY <1>3, <2>1, <2>2, NoneAssumption DEF InForce, Serves
<1> QED
  BY <1>2, <1>3

(* A run that had no company and reported neither an error nor a failed pin *)
(* has put its object and its rules in force, on any kernel and over        *)
(* whatever the earlier runs left behind.                                   *)
THEOREM SoloRunsTakeEffect == Spec => []SoloRunTakesEffect
  BY SInvInForce, SInvInit, SInvInductive, Invariance, PTL DEF Spec

(* Running dnslink again does not interrupt a hook that already runs the    *)
(* same program: without company, a link is only unpinned for another       *)
(* program or one whose tag could not be recovered.                         *)
THEOREM NoGapWithoutNeed == Spec => NoNeedlessGap
<1>1. ASSUME IInv, SInv, [Next]_vars, NEW h \in Hooks, NEW r \in Runs,
             solo = r, Active(r), link[h] # None, link'[h] = None
      PROVE  found[r][h] = "stale" \/ Tag(link[h], h) # Tag(r, h)
  <2> USE DEF IInv, TypeOK
  <2>1. PICK q \in Runs : DropStalePin(q) /\ h = cur[q]
    <3>1. ASSUME NEW q \in Runs, PinLink(q) PROVE FALSE
      BY <1>1, <3>1, NoneAssumption DEF PinLink
    <3>2. ASSUME NEW q \in Runs, DropStalePin(q) PROVE h = cur[q]
      BY <1>1, <3>2 DEF DropStalePin
    <3>3. link' # link
      BY <1>1
    <3> QED
      BY <1>1, <3>1, <3>2, <3>3 DEF Next, LoaderStep, Start, ScanPin, ReuseMap, CreateMap, PinMap,
         WriteRules, KeepLink, Relink, AttachLink, AttachProg, PinLinkFails, Finish, Fail, Kill,
         End, kernel, vars
  <2>2. Trusted(r) /\ Alone(r)
    BY <1>1 DEF SInv, Undisputed
  <2>3. q = r
    BY <1>1, <2>1, <2>2, OwnStep DEF LoaderStep
  <2>4. pc[r] = "unpin" /\ h \in todo[r]
    BY <1>1, <2>1, <2>3 DEF DropStalePin, Go
  <2> QED
    BY <1>1, <2>1, <2>2, <2>3, <2>4 DEF Trusted, Ahead, Past, SameTag
<1>2. IInv /\ SInv /\ [Next]_vars =>
        [\A h \in Hooks : \A r \in Runs :
           solo = r /\ Active(r) /\ link[h] # None /\ link'[h] = None =>
               found[r][h] = "stale" \/ Tag(link[h], h) # Tag(r, h)]_vars
  BY <1>1
<1> QED
  BY <1>2, SInvInit, SInvInductive, Invariance, PTL DEF Spec, NoNeedlessGap

-----------------------------------------------------------------------------
(* Run r knows a program was attached for hook h: its scan found it, or it  *)
(* has dealt with h itself.                                                 *)
Known(r, h) ==
    \/ found[r][h] # "unpinned"
    \/ pc[r] \in Past /\ h \in DOMAIN obj[r].tags \ todo[r]

(* Somebody is to blame for a missing link: a run that failed, reported a   *)
(* failed pin, or is about to bring it back.                                *)
Blamed(h) ==
    \E q \in Runs : pc[q] = "failed" \/ pinFailed[q] \/ (pc[q] \in {"attach", "pin"} /\ cur[q] = h)

NothingLost ==
    \A r \in Runs : \A h \in Hooks : Known(r, h) =>
        IF fdLinks THEN link[h] # None \/ Blamed(h)
                   ELSE found[r][h] = "unpinned" /\ attached[h][cgroup[r]] # None

LInv == LinkKind /\ Fresh /\ NothingLost

LEMMA LInvInit == Init => LInv
  BY SInvInit DEF SInv, Init, LInv, NothingLost, Known, Past, Nothing

LEMMA NothingLostStep == TypeOK /\ LInv /\ [Next]_vars => NothingLost'
<1> SUFFICES ASSUME TypeOK, LInv, [Next]_vars PROVE NothingLost'
  OBVIOUS
<1> USE NoneAssumption DEF TypeOK, LInv, LinkKind, Fresh, Past, Go, End, NextHook, Nothing,
        args, kernel, history
<1>1. ASSUME NEW r \in Runs, Start(r) PROVE NothingLost'
  <2>1. \A q \in Runs : \A h \in Hooks : Known(q, h)' => Known(q, h)
    BY <1>1 DEF Start, Known
  <2>2. \A h \in Hooks : Blamed(h) => Blamed(h)'
    BY <1>1 DEF Start, Blamed
  <2> QED
    BY <1>1, <2>1, <2>2 DEF Start, NothingLost
<1>2. ASSUME NEW r \in Runs, ReuseMap(r) PROVE NothingLost'
  <2>1. \A q \in Runs : \A h \in Hooks : Known(q, h)' => Known(q, h)
    BY <1>2 DEF ReuseMap, Known
  <2>2. \A h \in Hooks : Blamed(h) => Blamed(h)'
    BY <1>2 DEF ReuseMap, Blamed
  <2> QED
    BY <1>2, <2>1, <2>2 DEF ReuseMap, NothingLost
<1>3. ASSUME NEW r \in Runs, CreateMap(r) PROVE NothingLost'
  <2>1. \A q \in Runs : \A h \in Hooks : Known(q, h)' => Known(q, h)
    BY <1>3 DEF CreateMap, Known
  <2>2. \A h \in Hooks : Blamed(h) => Blamed(h)'
    BY <1>3 DEF CreateMap, Blamed
  <2> QED
    BY <1>3, <2>1, <2>2 DEF CreateMap, NothingLost
<1>4. ASSUME NEW r \in Runs, PinMap(r) PROVE NothingLost'
  <2>1. \A q \in Runs : \A h \in Hooks : Known(q, h)' => Known(q, h)
    BY <1>4 DEF PinMap, Known
  <2>2. \A h \in Hooks : Blamed(h) => Blamed(h)'
    BY <1>4 DEF PinMap, Blamed
  <2> QED
    BY <1>4, <2>1, <2>2 DEF PinMap, NothingLost
<1>5. ASSUME NEW r \in Runs, WriteRules(r) PROVE NothingLost'
  <2>1. \A q \in Runs : \A h \in Hooks : Known(q, h)' => Known(q, h)
    BY <1>5 DEF WriteRules, Known
  <2>2. \A h \in Hooks : Blamed(h) => Blamed(h)'
    BY <1>5 DEF WriteRules, Blamed
  <2> QED
    BY <1>5, <2>1, <2>2 DEF WriteRules, NothingLost
<1>6. ASSUME NEW r \in Runs, Relink(r) PROVE NothingLost'
  <2>1. \A q \in Runs : \A h \in Hooks : Known(q, h)' => Known(q, h)
    BY <1>6 DEF Relink, Known
  <2>2. \A h \in Hooks : Blamed(h) => Blamed(h)'
    BY <1>6 DEF Relink, Blamed
  <2> QED
    BY <1>6, <2>1, <2>2 DEF Relink, NothingLost
<1>7. ASSUME NEW r \in Runs, AttachLink(r) PROVE NothingLost'
  <2>1. \A q \in Runs : \A h \in Hooks : Known(q, h)' => Known(q, h)
    BY <1>7 DEF AttachLink, Known
  <2>2. \A h \in Hooks : Blamed(h) => Blamed(h)'
    BY <1>7 DEF AttachLink, Blamed
  <2> QED
    BY <1>7, <2>1, <2>2 DEF AttachLink, NothingLost
<1>8. ASSUME NEW r \in Runs, PinLinkFails(r) PROVE NothingLost'
  <2>1. \A h \in Hooks : Blamed(h)'
    BY <1>8 DEF PinLinkFails, Blamed
  <2> QED
    BY <1>8, <2>1 DEF PinLinkFails, NothingLost, LinkKind, Known
<1>9. ASSUME NEW r \in Runs, Finish(r) PROVE NothingLost'
  <2>1. \A q \in Runs : \A h \in Hooks : Known(q, h)' => Known(q, h)
    BY <1>9 DEF Finish, Known
  <2>2. \A h \in Hooks : Blamed(h) => Blamed(h)'
    BY <1>9 DEF Finish, Blamed
  <2> QED
    BY <1>9, <2>1, <2>2 DEF Finish, NothingLost
<1>10. ASSUME NEW r \in Runs, Fail(r) PROVE NothingLost'
  <2>1. \A q \in Runs : \A h \in Hooks : Known(q, h)' => Known(q, h)
    BY <1>10 DEF Fail, MayFail, Known
  <2>2. \A h \in Hooks : Blamed(h) => Blamed(h)'
    BY <1>10 DEF Fail, MayFail, Blamed
  <2> QED
    BY <1>10, <2>1, <2>2 DEF Fail, MayFail, NothingLost
<1>11. ASSUME NEW r \in Runs, Kill(r) PROVE NothingLost'
  <2>1. \A q \in Runs : \A h \in Hooks : Known(q, h)' => Known(q, h)
    BY <1>11 DEF Kill, Active, Known
  <2>2. \A h \in Hooks : Blamed(h) => Blamed(h)'
    BY <1>11 DEF Kill, Active, Blamed
  <2> QED
    BY <1>11, <2>1, <2>2 DEF Kill, Active, NothingLost
<1>12. ASSUME NEW r \in Runs, ScanPin(r) PROVE NothingLost'
  <2>1. \A q \in Runs : \A h \in Hooks : Known(q, h)' => Known(q, h) \/ link[h] # None
    BY <1>12 DEF ScanPin, Known
  <2>2. \A h \in Hooks : Blamed(h) => Blamed(h)'
    BY <1>12 DEF ScanPin, Blamed
  <2>3. ~fdLinks => found' = found \/ \E h \in Hooks : found' = [found EXCEPT ![r][h] = "unpinned"]
    BY <1>12 DEF ScanPin
  <2>4. CASE fdLinks
    BY <1>12, <2>1, <2>2, <2>4 DEF ScanPin, NothingLost
  <2>5. CASE ~fdLinks
    BY <1>12, <2>1, <2>3, <2>5 DEF ScanPin, NothingLost
  <2> QED
    BY <2>4, <2>5
<1>13. ASSUME NEW r \in Runs, KeepLink(r) PROVE NothingLost'
  BY <1>13, ObjectType, TagsAssumption DEF KeepLink, SameTag, Tag, NothingLost, Known, Blamed
<1>14. ASSUME NEW r \in Runs, DropStalePin(r) PROVE NothingLost'
  <2>1. \A q \in Runs : \A h \in Hooks : Known(q, h)' => Known(q, h)
    BY <1>14 DEF DropStalePin, Known
  <2>2. \A h \in Hooks : Blamed(h) \/ h = cur[r] => Blamed(h)'
    BY <1>14 DEF DropStalePin, Blamed
  <2> QED
    BY <1>14, <2>1, <2>2 DEF DropStalePin, NothingLost
<1>15. ASSUME NEW r \in Runs, AttachProg(r) PROVE NothingLost'
  BY <1>15 DEF AttachProg, NothingLost, Known, Blamed
<1>16. ASSUME NEW r \in Runs, PinLink(r) PROVE NothingLost'
  <2>1. fdLinks /\ link'[cur[r]] # None /\ \A h \in Hooks \ {cur[r]} : link'[h] = link[h]
    BY <1>16, ObjectType DEF PinLink
  <2>2. \A q \in Runs : \A h \in Hooks \ {cur[r]} : Known(q, h)' => Known(q, h)
    BY <1>16 DEF PinLink, Known
  <2>3. \A h \in Hooks \ {cur[r]} : Blamed(h) => Blamed(h)'
    BY <1>16 DEF PinLink, Blamed
  <2> QED
    BY <1>16, <2>1, <2>2, <2>3 DEF PinLink, NothingLost
<1>17. CASE UNCHANGED vars
  BY <1>17 DEF vars, local, NothingLost, Known, Blamed
<1> QED
  BY <1>1, <1>2, <1>3, <1>4, <1>5, <1>6, <1>7, <1>8, <1>9,
     <1>10, <1>11, <1>12, <1>13, <1>14, <1>15, <1>16, <1>17 DEF Next, LoaderStep

(* However the runs interleave, none of them silently undoes another.       *)
THEOREM NoRaceIsSilent == Spec => []RaceNeverSilent
<1>1. TypeOK /\ LInv => RaceNeverSilent
  <2> SUFFICES ASSUME TypeOK, LInv,
                      \A q \in Runs : pc[q] \in {"idle", "ok"} /\ ~pinFailed[q],
                      NEW r \in Runs, pc[r] = "ok",
                      NEW h \in DOMAIN obj[r].tags, h \in Hooks
               PROVE  InEffect(h) # {}
    BY ObjectType DEF RaceNeverSilent, TypeOK
  <2>1. Known(r, h) /\ ~Blamed(h)
    BY DEF LInv, Fresh, Known, Past, Blamed
  <2>2. CASE fdLinks
    BY <2>1, <2>2 DEF LInv, NothingLost, InEffect
  <2>3. CASE ~fdLinks
    BY <2>1, <2>3 DEF LInv, NothingLost, InEffect, TypeOK
  <2> QED
    BY <2>2, <2>3
<1>2. TypeOK /\ LInv /\ [Next]_vars => LInv'
  BY LinkKindStep, FreshStep, NothingLostStep DEF LInv
<1> QED
  BY <1>1, <1>2, LInvInit, TypeCorrect, PTL DEF Spec
=============================================================================
