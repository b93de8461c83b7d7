--------------------------- MODULE HitCounters_proofs ---------------------------
(***************************************************************************)
(* Theorems about HitCounters, for any number of CPUs, programs, readings   *)
(* and restarts, and the facts about sums they rest on.                     *)
(***************************************************************************)
EXTENDS HitCounters, FiniteSetTheorems, TLAPS

(* A finite set has a least of any of its subsets.                          *)
LEMMA MinSet ==
    ASSUME NEW T, IsFiniteSet(T), NEW P \in SUBSET (SUBSET T), P # {}
    PROVE  \E U \in P : \A V \in P : V \subseteq U => V = U
<1> DEFINE R == StrictSubsetOrdering(T)
<1>1. IsWellFoundedOn(R, SUBSET T)
  BY FS_StrictSubsetOrderingWellFounded, FS_FiniteSubsetsOfFinite
<1>2. \A U, V \in SUBSET T : <<V, U>> \notin R => (V \subseteq U => V = U)
  BY DEF StrictSubsetOrdering
<1> HIDE DEF R
<1>3. PICK U \in P : \A V \in P : <<V, U>> \notin R
  BY <1>1, WFMin
<1>4. ASSUME NEW V \in P, V \subseteq U PROVE V = U
  <2>1. U \in SUBSET T /\ V \in SUBSET T /\ <<V, U>> \notin R
    BY <1>3
  <2> QED
    BY <1>2, <1>4, <2>1
<1> QED
  BY <1>4

Pick(s) == CHOOSE x \in s : TRUE
Adds(f, S, it) ==
    it = [s \in SUBSET S |-> IF s = {} THEN 0 ELSE f[Pick(s)] + it[s \ {Pick(s)}]]
Sum(f, S) == SumFunctionOnSet(f, S)

LEMMA SumIs == \A f, S : Sum(f, S) = (CHOOSE it : Adds(f, S, it))[S]
  BY DEF Sum, SumFunctionOnSet, FoldFunctionOnSet, MapThenFoldSet, Adds, Pick

LEMMA AddsOnce ==
    ASSUME NEW f, NEW S, IsFiniteSet(S), NEW a, NEW b, Adds(f, S, a), Adds(f, S, b)
    PROVE  a = b
<1> DEFINE P == {U \in SUBSET S : a[U] # b[U]}
<1>1. CASE P = {}
  BY <1>1 DEF Adds
<1>2. CASE P # {}
  <2>1. PICK U \in P : \A V \in P : V \subseteq U => V = U
    <3>1. P \in SUBSET (SUBSET S)
      OBVIOUS
    <3> HIDE DEF P
    <3> QED
      BY <1>2, <3>1, MinSet
  <2>2. CASE U = {}
    BY <2>1, <2>2 DEF Adds
  <2>3. CASE U # {}
    <3>1. Pick(U) \in U
      BY <2>3 DEF Pick
    <3>2. U \ {Pick(U)} \in SUBSET S /\ U \ {Pick(U)} \notin P
      BY <2>1, <3>1
    <3>3. a[U \ {Pick(U)}] = b[U \ {Pick(U)}]
      BY <3>2
    <3> QED
      BY <2>1, <2>3, <3>3 DEF Adds
  <2> QED
    BY <2>2, <2>3
<1> QED
  BY <1>1, <1>2

(* What it adds up for a subset is that subset's sum.                       *)
LEMMA AddsPart ==
    ASSUME NEW f, NEW S, IsFiniteSet(S), NEW a, Adds(f, S, a), NEW U \in SUBSET S
    PROVE  a[U] = Sum(f, U)
<1> DEFINE b == [s \in SUBSET U |-> a[s]]
<1>1. Adds(f, U, b)
  <2>1. \A s \in SUBSET U : s # {} => s \ {Pick(s)} \in SUBSET U
    OBVIOUS
  <2> QED
    BY <2>1 DEF Adds
<1> HIDE DEF b
<1>2. Adds(f, U, CHOOSE it : Adds(f, U, it))
  BY <1>1
<1>3. IsFiniteSet(U)
  BY FS_Subset
<1>4. b = CHOOSE it : Adds(f, U, it)
  BY <1>1, <1>2, <1>3, AddsOnce
<1>5. Sum(f, U) = b[U]
  BY <1>4, SumIs
<1> QED
  BY <1>5 DEF b

LEMMA AddsUnfold ==
    ASSUME NEW f, NEW S, IsFiniteSet(S), NEW a, Adds(f, S, a)
    PROVE  Sum(f, S) = IF S = {} THEN 0 ELSE f[Pick(S)] + Sum(f, S \ {Pick(S)})
<1>1. Sum(f, S) = a[S]
  BY AddsPart
<1>2. S \ {Pick(S)} \in SUBSET S
  OBVIOUS
<1>3. Sum(f, S \ {Pick(S)}) = a[S \ {Pick(S)}]
  BY <1>2, AddsPart
<1> QED
  BY <1>1, <1>3 DEF Adds

LEMMA AddsExists ==
    ASSUME NEW f, NEW S, IsFiniteSet(S)
    PROVE  \E a : Adds(f, S, a)
<1> DEFINE P == {U \in SUBSET S : ~\E a : Adds(f, U, a)}
<1>1. CASE P = {}
  <2>1. S \in SUBSET S
    OBVIOUS
  <2> QED
    BY <1>1, <2>1
<1>2. CASE P # {}
  <2>1. PICK T \in P : \A V \in P : V \subseteq T => V = T
    <3>1. P \in SUBSET (SUBSET S)
      OBVIOUS
    <3> HIDE DEF P
    <3> QED
      BY <1>2, <3>1, MinSet
  <2> DEFINE g == [s \in SUBSET T |-> IF s = {} THEN 0 ELSE f[Pick(s)] + Sum(f, s \ {Pick(s)})]
  <2>2. ASSUME NEW s \in SUBSET T, s # {}
        PROVE  g[s \ {Pick(s)}] = Sum(f, s \ {Pick(s)})
    <3>1. PICK U : U = s \ {Pick(s)}
      OBVIOUS
    <3>2. Pick(s) \in s
      BY <2>2 DEF Pick
    <3>3. U \in SUBSET T /\ U # T /\ U \in SUBSET S
      BY <3>1, <3>2
    <3>4. PICK a : Adds(f, U, a)
      BY <2>1, <3>3
    <3>5. IsFiniteSet(U)
      BY <3>3, FS_Subset
    <3>6. Sum(f, U) = IF U = {} THEN 0 ELSE f[Pick(U)] + Sum(f, U \ {Pick(U)})
      BY <3>4, <3>5, AddsUnfold
    <3> QED
      BY <3>1, <3>3, <3>6
  <2>3. Adds(f, T, g)
    <3>1. g = [s \in SUBSET T |-> IF s = {} THEN 0 ELSE f[Pick(s)] + g[s \ {Pick(s)}]]
      BY <2>2
    <3> HIDE DEF g
    <3> QED
      BY <3>1 DEF Adds
  <2> HIDE DEF g
  <2> QED
    BY <2>1, <2>3
<1> QED
  BY <1>1, <1>2

(* The sum over a set is that of one of its elements and of the others.     *)
LEMMA SumUnfold ==
    ASSUME NEW f, NEW S, IsFiniteSet(S)
    PROVE  Sum(f, S) = IF S = {} THEN 0 ELSE f[Pick(S)] + Sum(f, S \ {Pick(S)})
  BY AddsExists, AddsUnfold

LEMMA SumNat ==
    ASSUME NEW f, NEW S, IsFiniteSet(S), \A x \in S : f[x] \in Nat
    PROVE  Sum(f, S) \in Nat
<1> DEFINE P == {U \in SUBSET S : Sum(f, U) \notin Nat}
<1>1. P = {}
  <2> SUFFICES ASSUME P # {} PROVE FALSE
    OBVIOUS
  <2>1. PICK U \in P : \A V \in P : V \subseteq U => V = U
    <3>1. P \in SUBSET (SUBSET S)
      OBVIOUS
    <3> HIDE DEF P
    <3> QED
      BY <3>1, MinSet
  <2>2. IsFiniteSet(U) /\ U \subseteq S
    BY FS_Subset
  <2>3. Sum(f, U) = IF U = {} THEN 0 ELSE f[Pick(U)] + Sum(f, U \ {Pick(U)})
    BY <2>2, SumUnfold
  <2>4. U # {}
    BY <2>3
  <2>5. Pick(U) \in U
    BY <2>4 DEF Pick
  <2>6. Sum(f, U \ {Pick(U)}) \in Nat
    BY <2>1, <2>2, <2>5
  <2> QED
    BY <2>2, <2>3, <2>4, <2>5, <2>6
<1>2. S \in SUBSET S
  OBVIOUS
<1> QED
  BY <1>1, <1>2

LEMMA SumTake ==
    ASSUME NEW f, NEW S, IsFiniteSet(S), \A x \in S : f[x] \in Nat, NEW z \in S
    PROVE  Sum(f, S) = f[z] + Sum(f, S \ {z})
<1> DEFINE P == {U \in SUBSET S : \E x \in U : Sum(f, U) # f[x] + Sum(f, U \ {x})}
<1>1. P = {}
  <2> SUFFICES ASSUME P # {} PROVE FALSE
    OBVIOUS
  <2>1. PICK U \in P : \A V \in P : V \subseteq U => V = U
    <3>1. P \in SUBSET (SUBSET S)
      OBVIOUS
    <3> HIDE DEF P
    <3> QED
      BY <3>1, MinSet
  <2>2. PICK x \in U : Sum(f, U) # f[x] + Sum(f, U \ {x})
    OBVIOUS
  <2>3. PICK c : c = Pick(U) /\ c \in U
    BY <2>2 DEF Pick
  <2>4. \A V \in SUBSET S : IsFiniteSet(V) /\ Sum(f, V) \in Nat
    BY FS_Subset, SumNat
  <2>5. Sum(f, U) = f[c] + Sum(f, U \ {c})
    BY <2>2, <2>3, <2>4, SumUnfold
  <2>6. c # x
    BY <2>2, <2>5
  <2>7. Sum(f, U \ {c}) = f[x] + Sum(f, (U \ {c}) \ {x})
    <3>1. U \ {c} \in SUBSET S /\ U \ {c} # U /\ x \in U \ {c}
      BY <2>3, <2>6
    <3> QED
      BY <2>1, <3>1
  <2>8. Sum(f, U \ {x}) = f[c] + Sum(f, (U \ {x}) \ {c})
    <3>1. U \ {x} \in SUBSET S /\ U \ {x} # U /\ c \in U \ {x}
      BY <2>3, <2>6
    <3> QED
      BY <2>1, <3>1
  <2>9. (U \ {x}) \ {c} = (U \ {c}) \ {x} /\ (U \ {c}) \ {x} \in SUBSET S
    OBVIOUS
  <2>10. f[x] \in Nat /\ f[c] \in Nat /\ Sum(f, (U \ {c}) \ {x}) \in Nat
    BY <2>3, <2>4, <2>9
  <2> QED
    BY <2>2, <2>5, <2>7, <2>8, <2>9, <2>10
<1>2. S \in SUBSET S
  OBVIOUS
<1> QED
  BY <1>1, <1>2

LEMMA SumSame ==
    ASSUME NEW f, NEW g, NEW S, IsFiniteSet(S), \A x \in S : f[x] = g[x]
    PROVE  Sum(f, S) = Sum(g, S)
<1> DEFINE P == {U \in SUBSET S : Sum(f, U) # Sum(g, U)}
<1>1. P = {}
  <2> SUFFICES ASSUME P # {} PROVE FALSE
    OBVIOUS
  <2>1. PICK U \in P : \A V \in P : V \subseteq U => V = U
    <3>1. P \in SUBSET (SUBSET S)
      OBVIOUS
    <3> HIDE DEF P
    <3> QED
      BY <3>1, MinSet
  <2>2. IsFiniteSet(U) /\ U \subseteq S
    BY FS_Subset
  <2>3. /\ Sum(f, U) = IF U = {} THEN 0 ELSE f[Pick(U)] + Sum(f, U \ {Pick(U)})
        /\ Sum(g, U) = IF U = {} THEN 0 ELSE g[Pick(U)] + Sum(g, U \ {Pick(U)})
    BY <2>2, SumUnfold
  <2>4. U # {}
    BY <2>3
  <2>5. Pick(U) \in U
    BY <2>4 DEF Pick
  <2>6. Sum(f, U \ {Pick(U)}) = Sum(g, U \ {Pick(U)})
    BY <2>1, <2>2, <2>5
  <2> QED
    BY <2>2, <2>3, <2>4, <2>5, <2>6
<1>2. S \in SUBSET S
  OBVIOUS
<1> QED
  BY <1>1, <1>2

LEMMA SumZero ==
    ASSUME NEW f, NEW S, IsFiniteSet(S), \A x \in S : f[x] = 0
    PROVE  Sum(f, S) = 0
<1> DEFINE P == {U \in SUBSET S : Sum(f, U) # 0}
<1>1. P = {}
  <2> SUFFICES ASSUME P # {} PROVE FALSE
    OBVIOUS
  <2>1. PICK U \in P : \A V \in P : V \subseteq U => V = U
    <3>1. P \in SUBSET (SUBSET S)
      OBVIOUS
    <3> HIDE DEF P
    <3> QED
      BY <3>1, MinSet
  <2>2. IsFiniteSet(U) /\ U \subseteq S
    BY FS_Subset
  <2>3. Sum(f, U) = IF U = {} THEN 0 ELSE f[Pick(U)] + Sum(f, U \ {Pick(U)})
    BY <2>2, SumUnfold
  <2>4. U # {}
    BY <2>3
  <2>5. Pick(U) \in U
    BY <2>4 DEF Pick
  <2>6. Sum(f, U \ {Pick(U)}) = 0
    BY <2>1, <2>2, <2>5
  <2> QED
    BY <2>2, <2>3, <2>4, <2>5, <2>6
<1>2. S \in SUBSET S
  OBVIOUS
<1> QED
  BY <1>1, <1>2

LEMMA SumBump ==
    ASSUME NEW f, NEW g, NEW S, IsFiniteSet(S), \A x \in S : f[x] \in Nat,
           NEW z \in S, g[z] = f[z] + 1, \A x \in S \ {z} : g[x] = f[x]
    PROVE  Sum(g, S) = Sum(f, S) + 1
<1>1. \A x \in S : g[x] \in Nat
  OBVIOUS
<1>2. Sum(f, S) = f[z] + Sum(f, S \ {z}) /\ Sum(g, S) = g[z] + Sum(g, S \ {z})
  BY <1>1, SumTake
<1>3. IsFiniteSet(S \ {z})
  BY FS_Subset
<1>4. Sum(g, S \ {z}) = Sum(f, S \ {z}) /\ Sum(f, S \ {z}) \in Nat
  BY <1>3, SumSame, SumNat
<1> QED
  BY <1>2, <1>4

(* An element is no more than the sum.                                      *)
LEMMA SumBounds ==
    ASSUME NEW f, NEW S, IsFiniteSet(S), \A x \in S : f[x] \in Nat, NEW z \in S
    PROVE  f[z] <= Sum(f, S)
<1>1. IsFiniteSet(S \ {z})
  BY FS_Subset
<1>2. Sum(f, S) = f[z] + Sum(f, S \ {z}) /\ Sum(f, S \ {z}) \in Nat
  BY <1>1, SumTake, SumNat
<1> QED
  BY <1>2

-----------------------------------------------------------------------------
Prog(n) == HOOKS[n][1]
Key(n) == HOOKS[n][2]
Frame == [program : Programs, saw : Nat]
depth == [c \in Cpus |-> Len(stack[c])]

Shape ==
    /\ slots \in SlotSets
    /\ hit_cnt \in [Keys -> [slots -> Nat]]
    /\ stack \in [Cpus -> Seq(Frame)]
    /\ \A c \in Cpus : Len(stack[c]) <= MaxDepth
    /\ at \in 0..3 /\ unread \subseteq slots /\ sum \in Nat
    /\ line \in [Programs -> Nat]
    /\ last = << >> \/ last \in [Programs -> Nat]
    /\ counted \in [Programs -> Nat] /\ since \in [Programs -> Nat]
    /\ shown \in [Programs -> Nat]

(* The slots hold what was counted, and no program runs unbounded.          *)
Books ==
    /\ \A p \in Programs : Sum(hit_cnt[dns_hit_key[p]], slots) = counted[p]
    /\ Sum(counted, Programs) + Sum(depth, Cpus) <= MaxHits

(* What the watcher has of a counter and what it has still to read.         *)
Reading ==
    /\ at = 0 => unread = {} /\ sum = 0
    /\ at # 0 =>
         /\ since[Prog(at)] <= sum + Sum(hit_cnt[Key(at)], unread)
         /\ sum + Sum(hit_cnt[Key(at)], unread) <= counted[Prog(at)]

(* Nothing is ahead of what was counted; what a reading began with is not   *)
(* behind what was shown, nor what a sound line has so far.                 *)
Shown ==
    /\ \A p \in Programs :
          /\ since[p] <= counted[p] /\ shown[p] <= counted[p] /\ line[p] <= counted[p]
          /\ last # << >> => last[p] <= counted[p]
          /\ at # 0 => shown[p] <= since[p]
    /\ sound => \A n \in 1..3 : n < at => shown[Prog(n)] <= line[Prog(n)]
    /\ NeverGoesBack

IInv == Shape /\ Books /\ Reading /\ Shown
-----------------------------------------------------------------------------
(* The loader's table and the object agree on who bumps which counter.      *)
LEMMA Hooks ==
    /\ IsFiniteSet(Programs) /\ Len(HOOKS) = 3
    /\ \A n \in 1..3 : Prog(n) \in Programs /\ dns_hit_key[Prog(n)] = Key(n) /\ Key(n) \in Keys
    /\ \A p \in Programs : dns_hit_key[p] \in Keys /\ \E n \in 1..3 : p = Prog(n)
    /\ \A p, q \in Programs : dns_hit_key[p] = dns_hit_key[q] => p = q
    /\ \A m, n \in 1..3 : Prog(m) = Prog(n) => m = n
    /\ \A k \in Keys : \E n \in 1..3 : k = Key(n)
<1>1. Programs = {"redirect_dns_query_connect", "redirect_dns_query_sendmsg", "rewrite_dns_answer_recvmsg"}
  BY DEF Programs, dns_hit_key
<1>2. IsFiniteSet(Programs)
  <2>1. Programs = (({} \cup {"redirect_dns_query_connect"}) \cup {"redirect_dns_query_sendmsg"})
                       \cup {"rewrite_dns_answer_recvmsg"}
    BY <1>1
  <2> QED
    BY <2>1, FS_EmptySet, FS_AddElement
<1>3. /\ dns_hit_key["redirect_dns_query_connect"] = 0
      /\ dns_hit_key["redirect_dns_query_sendmsg"] = 1
      /\ dns_hit_key["rewrite_dns_answer_recvmsg"] = 2
  BY DEF dns_hit_key
<1>4. /\ Len(HOOKS) = 3
      /\ Prog(1) = "redirect_dns_query_connect" /\ Key(1) = 0
      /\ Prog(2) = "redirect_dns_query_sendmsg" /\ Key(2) = 1
      /\ Prog(3) = "rewrite_dns_answer_recvmsg" /\ Key(3) = 2
  BY DEF HOOKS, Prog, Key
<1>5. 1..3 = {1, 2, 3} /\ Keys = {0, 1, 2}
  BY DEF Keys
<1> HIDE DEF Programs
<1> QED
  BY <1>1, <1>2, <1>3, <1>4, <1>5

LEMMA Slots ==
    ASSUME slots \in SlotSets
    PROVE  IsFiniteSet(slots) /\ \A c \in Cpus : SlotOf(c) \in slots
<1>1. slots = Cpus \/ slots = {All}
  BY SlotsAssumption
<1>2. IsFiniteSet({All})
  BY FS_Singleton
<1> QED
  BY <1>1, <1>2, SlotsAssumption DEF SlotOf

LEMMA Whole == \A f : SumFunction(f) = Sum(f, DOMAIN f)
  BY DEF SumFunction, Sum

LEMMA StartedIs ==
    ASSUME Shape
    PROVE  Started = Sum(counted, Programs) + Sum(depth, Cpus)
<1>1. DOMAIN counted = Programs
  BY DEF Shape
<1>2. SumFunction(counted) = Sum(counted, Programs)
  BY <1>1, Whole
<1>3. depth = [c \in Cpus |-> Len(stack[c])] /\ DOMAIN depth = Cpus
  BY DEF depth
<1>4. SumFunction(depth) = Sum(depth, Cpus)
  BY <1>3, Whole
<1> QED
  BY <1>2, <1>3, <1>4 DEF Started

-----------------------------------------------------------------------------
LEMMA IInvInit == Init => IInv
<1> SUFFICES ASSUME Init PROVE IInv
  OBVIOUS
<1>1. slots \in SlotSets /\ IsFiniteSet(slots)
  BY Slots DEF Init
<1>2. Shape
  <2>1. /\ hit_cnt \in [Keys -> [slots -> Nat]]
        /\ counted \in [Programs -> Nat] /\ since \in [Programs -> Nat]
        /\ line \in [Programs -> Nat] /\ shown \in [Programs -> Nat]
    BY DEF Init, Zero
  <2>2. stack \in [Cpus -> Seq(Frame)]
    BY DEF Init
  <2>3. \A c \in Cpus : Len(stack[c]) <= MaxDepth
    BY BoundsAssumption DEF Init
  <2> QED
    BY <1>1, <2>1, <2>2, <2>3 DEF Init, Shape
<1>3. Books
  <2>1. ASSUME NEW p \in Programs PROVE Sum(hit_cnt[dns_hit_key[p]], slots) = counted[p]
    <3>1. dns_hit_key[p] \in Keys
      BY Hooks
    <3>2. \A s \in slots : hit_cnt[dns_hit_key[p]][s] = 0
      BY <3>1 DEF Init
    <3>3. Sum(hit_cnt[dns_hit_key[p]], slots) = 0
      BY <1>1, <3>2, SumZero
    <3> QED
      BY <3>3 DEF Init, Zero
  <2>2. Sum(counted, Programs) = 0
    <3>1. \A p \in Programs : counted[p] = 0
      BY DEF Init, Zero
    <3> QED
      BY <3>1, Hooks, SumZero
  <2>3. Sum(depth, Cpus) = 0
    <3>1. \A c \in Cpus : depth[c] = 0
      BY DEF Init, depth
    <3> QED
      BY <3>1, SlotsAssumption, SumZero
  <2> QED
    BY <2>1, <2>2, <2>3, BoundsAssumption DEF Books
<1>4. Reading
  BY DEF Init, Reading
<1>5. Shown
  BY DEF Init, Shown, Zero, NeverGoesBack
<1> QED
  BY <1>2, <1>3, <1>4, <1>5 DEF IInv

-----------------------------------------------------------------------------
(* A program that found its counter is one deeper, and is paid for.         *)
LEMMA FindCounterStep ==
    ASSUME IInv, NEW c \in Cpus, NEW p \in Programs, FindCounter(c, p)
    PROVE  IInv'
<1> USE DEF IInv
<1>1. PICK e \in Frame :
         stack' = [stack EXCEPT ![c] = <<e>> \o @]
  <2>1. dns_hit_key[p] \in Keys /\ SlotOf(c) \in slots
    BY Hooks, Slots DEF Shape
  <2>2. hit_cnt[dns_hit_key[p]][SlotOf(c)] \in Nat
    BY <2>1 DEF Shape
  <2> QED
    BY <2>2 DEF FindCounter, Frame
<1>2. PICK q \in Seq(Frame) : q = stack[c]
  BY DEF Shape
<1>3. /\ <<e>> \o stack[c] \in Seq(Frame) /\ Len(stack[c]) \in Nat
      /\ Len(<<e>> \o stack[c]) = Len(stack[c]) + 1
  <2>1. <<e>> \o q \in Seq(Frame) /\ Len(q) \in Nat /\ Len(<<e>> \o q) = Len(q) + 1
    OBVIOUS
  <2> QED
    BY <1>2, <2>1
<1>4. /\ stack'[c] = <<e>> \o stack[c]
      /\ \A d \in Cpus \ {c} : stack'[d] = stack[d]
      /\ stack' \in [Cpus -> Seq(Frame)]
  BY <1>1, <1>3 DEF Shape
<1>5. Shape'
  <2>1. \A d \in Cpus : Len(stack'[d]) <= MaxDepth
    BY <1>2, <1>3, <1>4, BoundsAssumption DEF Shape, FindCounter
  <2> QED
    BY <1>4, <2>1 DEF Shape, FindCounter, watcher
<1>6. Books'
  <2>1. depth'[c] = depth[c] + 1 /\ \A d \in Cpus \ {c} : depth'[d] = depth[d]
    BY <1>3, <1>4 DEF depth
  <2>2. \A d \in Cpus : depth[d] \in Nat
    BY DEF depth, Shape
  <2>3. Sum(depth', Cpus) = Sum(depth, Cpus) + 1
    BY <2>1, <2>2, SumBump, SlotsAssumption
  <2>4. Sum(depth, Cpus) \in Nat /\ Sum(counted, Programs) \in Nat
    BY <2>2, SumNat, SlotsAssumption, Hooks DEF Shape
  <2>5. Sum(counted, Programs) + Sum(depth, Cpus) < MaxHits
    BY StartedIs DEF FindCounter
  <2>6. counted' = counted /\ hit_cnt' = hit_cnt /\ slots' = slots
    BY DEF FindCounter
  <2> QED
    BY <2>3, <2>4, <2>5, <2>6, BoundsAssumption DEF Books
<1>7. Reading' /\ Shown'
  BY DEF Reading, Shown, NeverGoesBack, FindCounter, watcher
<1> QED
  BY <1>5, <1>6, <1>7

(* A count is one more in a slot of its program's counter, and one more     *)
(* counted.                                                                 *)
LEMMA CountStep ==
    ASSUME IInv, NEW c \in Cpus, Count(c)
    PROVE  IInv'
<1> USE DEF IInv
<1>1. PICK q \in Seq(Frame) : q = stack[c] /\ q # << >>
  BY DEF Shape, Count
<1>2. PICK p \in Programs : p = Head(stack[c]).program
  <2>1. Head(q) \in Frame
    BY <1>1
  <2> QED
    BY <1>1, <2>1 DEF Frame
<1>3. PICK k \in Keys : k = dns_hit_key[p]
  BY Hooks
<1>4. PICK s \in slots : s = SlotOf(c)
  BY Slots DEF Shape
<1>5. /\ hit_cnt' = [hit_cnt EXCEPT ![k][s] = @ + 1]
      /\ counted' = [counted EXCEPT ![p] = @ + 1]
      /\ stack' = [stack EXCEPT ![c] = Tail(@)]
      /\ slots' = slots /\ watcher' = watcher
  BY <1>2, <1>3, <1>4 DEF Count
<1>6. /\ hit_cnt'[k][s] = hit_cnt[k][s] + 1
      /\ \A t \in slots \ {s} : hit_cnt'[k][t] = hit_cnt[k][t]
      /\ \A j \in Keys \ {k} : hit_cnt'[j] = hit_cnt[j]
      /\ hit_cnt' \in [Keys -> [slots -> Nat]]
  <2>1. PICK f \in [slots -> Nat] : f = hit_cnt[k]
    BY DEF Shape
  <2>2. PICK g : g = [f EXCEPT ![s] = @ + 1]
    OBVIOUS
  <2>3. hit_cnt' = [hit_cnt EXCEPT ![k] = g]
    BY <1>5, <2>1, <2>2
  <2>4. f[s] + 1 \in Nat
    OBVIOUS
  <2>5. g \in [slots -> Nat] /\ g[s] = f[s] + 1 /\ \A t \in slots \ {s} : g[t] = f[t]
    BY <2>2, <2>4
  <2>6. hit_cnt' \in [Keys -> [slots -> Nat]] /\ hit_cnt'[k] = g /\ \A j \in Keys \ {k} : hit_cnt'[j] = hit_cnt[j]
    BY <2>3, <2>5 DEF Shape
  <2> QED
    BY <2>1, <2>5, <2>6
<1>7. /\ counted'[p] = counted[p] + 1
      /\ \A r \in Programs \ {p} : counted'[r] = counted[r]
      /\ counted' \in [Programs -> Nat]
  <2>1. counted \in [Programs -> Nat] /\ counted[p] \in Nat
    BY DEF Shape
  <2>2. counted[p] + 1 \in Nat
    BY <2>1
  <2> QED
    BY <1>5, <2>1, <2>2
<1>8. /\ Tail(stack[c]) \in Seq(Frame)
      /\ Len(stack[c]) \in Nat /\ Len(Tail(stack[c])) = Len(stack[c]) - 1
      /\ Len(Tail(stack[c])) \in Nat
  <2>1. /\ Tail(q) \in Seq(Frame) /\ Len(q) \in Nat /\ Len(Tail(q)) = Len(q) - 1
        /\ Len(Tail(q)) \in Nat
    BY <1>1
  <2> QED
    BY <1>1, <2>1
<1>9. /\ stack'[c] = Tail(stack[c])
      /\ \A d \in Cpus \ {c} : stack'[d] = stack[d]
      /\ stack' \in [Cpus -> Seq(Frame)]
  BY <1>5, <1>8 DEF Shape
<1>10. Shape'
  <2>1. \A d \in Cpus : Len(stack'[d]) <= MaxDepth
    <3>1. ASSUME NEW d \in Cpus PROVE Len(stack'[d]) <= MaxDepth
      <4>1. Len(stack[d]) <= MaxDepth
        BY DEF Shape
      <4> QED
        BY <1>8, <1>9, <4>1, BoundsAssumption
    <3> QED
      BY <3>1
  <2> QED
    BY <1>5, <1>6, <1>7, <1>9, <2>1 DEF Shape, watcher
<1>11. IsFiniteSet(slots) /\ IsFiniteSet(unread) /\ unread \subseteq slots
  BY Slots, FS_Subset DEF Shape
<1>12. \A j \in Keys, t \in slots : hit_cnt[j][t] \in Nat
  BY DEF Shape
<1>13. PICK f, g : f = hit_cnt[k] /\ g = hit_cnt'[k]
  OBVIOUS
<1>14. /\ \A t \in slots : f[t] \in Nat
       /\ g[s] = f[s] + 1 /\ \A t \in slots \ {s} : g[t] = f[t]
  BY <1>6, <1>12, <1>13
<1>15. Books'
  <2>1. Sum(hit_cnt'[k], slots) = Sum(hit_cnt[k], slots) + 1
    <3>1. Sum(g, slots) = Sum(f, slots) + 1
      BY <1>11, <1>14, SumBump
    <3> QED
      BY <1>13, <3>1
  <2>2. ASSUME NEW r \in Programs PROVE Sum(hit_cnt'[dns_hit_key[r]], slots) = counted'[r]
    <3>1. CASE r = p
      BY <1>3, <1>7, <2>1, <3>1 DEF Books
    <3>2. CASE r # p
      <4>1. dns_hit_key[r] \in Keys \ {k}
        BY <1>3, <3>2, Hooks
      <4> QED
        BY <1>6, <1>7, <3>2, <4>1 DEF Books
    <3> QED
      BY <3>1, <3>2
  <2>3. \A r \in Programs : counted[r] \in Nat
    BY DEF Shape
  <2>4. Sum(counted', Programs) = Sum(counted, Programs) + 1
    BY <1>7, <2>3, SumBump, Hooks
  <2>5. depth[c] = depth'[c] + 1 /\ \A d \in Cpus \ {c} : depth[d] = depth'[d]
    BY <1>8, <1>9 DEF depth
  <2>6. \A d \in Cpus : depth'[d] \in Nat
    BY <1>9 DEF depth
  <2>7. Sum(depth, Cpus) = Sum(depth', Cpus) + 1
    BY <2>5, <2>6, SumBump, SlotsAssumption
  <2>8. Sum(depth', Cpus) \in Nat /\ Sum(counted, Programs) \in Nat
    BY <2>3, <2>6, SumNat, SlotsAssumption, Hooks
  <2>9. Sum(counted', Programs) + Sum(depth', Cpus) <= MaxHits
    BY <2>4, <2>7, <2>8 DEF Books
  <2> QED
    BY <1>5, <2>2, <2>9 DEF Books
<1>16. Reading'
  <2>1. CASE at = 0
    BY <1>5, <2>1 DEF Reading, watcher
  <2>2. CASE at # 0
    <3>1. PICK n \in 1..3 : n = at /\ Prog(n) \in Programs /\ Key(n) \in Keys /\ dns_hit_key[Prog(n)] = Key(n)
      BY <2>2, Hooks DEF Shape
    <3>2. Sum(hit_cnt[Key(n)], unread) \in Nat
      BY <1>11, <1>12, <3>1, SumNat
    <3>3. /\ since[Prog(n)] <= sum + Sum(hit_cnt[Key(n)], unread)
          /\ sum + Sum(hit_cnt[Key(n)], unread) <= counted[Prog(n)]
          /\ since[Prog(n)] \in Nat /\ sum \in Nat /\ counted[Prog(n)] \in Nat
      BY <2>2, <3>1 DEF Reading, Shape
    <3>4. CASE Key(n) # k
      <4>1. Prog(n) # p /\ Key(n) \in Keys \ {k}
        BY <1>3, <3>1, <3>4
      <4>2. hit_cnt'[Key(n)] = hit_cnt[Key(n)] /\ counted'[Prog(n)] = counted[Prog(n)]
        BY <1>6, <1>7, <3>1, <4>1
      <4> QED
        BY <1>5, <2>2, <3>1, <3>3, <4>2 DEF Reading, watcher
    <3>5. CASE Key(n) = k
      <4>1. Prog(n) = p
        BY <1>3, <3>1, <3>5, Hooks
      <4>2. counted'[Prog(n)] = counted[Prog(n)] + 1
        BY <1>7, <4>1
      <4>3. CASE s \in unread
        <5>1. Sum(hit_cnt'[k], unread) = Sum(hit_cnt[k], unread) + 1
          <6>1. Sum(g, unread) = Sum(f, unread) + 1
            <7>1. /\ \A t \in unread : f[t] \in Nat
                  /\ \A t \in unread \ {s} : g[t] = f[t]
              BY <1>11, <1>14
            <7> QED
              BY <1>11, <1>14, <4>3, <7>1, SumBump
          <6> QED
            BY <1>13, <6>1
        <5>2. /\ since[Prog(n)] <= sum + Sum(hit_cnt'[Key(n)], unread)
              /\ sum + Sum(hit_cnt'[Key(n)], unread) <= counted'[Prog(n)]
          BY <3>2, <3>3, <3>5, <4>2, <5>1
        <5> QED
          BY <1>5, <2>2, <3>1, <5>2 DEF Reading, watcher
      <4>4. CASE s \notin unread
        <5>1. Sum(hit_cnt'[k], unread) = Sum(hit_cnt[k], unread)
          <6>1. \A t \in unread : f[t] = g[t]
            BY <1>11, <1>14, <4>4
          <6>2. Sum(f, unread) = Sum(g, unread)
            BY <1>11, <6>1, SumSame
          <6> QED
            BY <1>13, <6>2
        <5>2. /\ since[Prog(n)] <= sum + Sum(hit_cnt'[Key(n)], unread)
              /\ sum + Sum(hit_cnt'[Key(n)], unread) <= counted'[Prog(n)]
          BY <3>2, <3>3, <3>5, <4>2, <5>1
        <5> QED
          BY <1>5, <2>2, <3>1, <5>2 DEF Reading, watcher
      <4> QED
        BY <4>3, <4>4
    <3> QED
      BY <3>4, <3>5
  <2> QED
    BY <2>1, <2>2
<1>17. Shown'
  <2>1. \A r \in Programs : counted[r] \in Nat /\ counted[r] <= counted'[r] /\ counted'[r] \in Nat
    <3>1. \A r \in Programs : counted[r] \in Nat
      BY DEF Shape
    <3> QED
      BY <1>7, <3>1
  <2>2. /\ \A r \in Programs : since[r] \in Nat /\ shown[r] \in Nat /\ line[r] \in Nat
        /\ last # << >> => \A r \in Programs : last[r] \in Nat
    BY DEF Shape
  <2> QED
    BY <1>5, <2>1, <2>2 DEF Shown, NeverGoesBack, watcher
<1> QED
  BY <1>10, <1>15, <1>16, <1>17

-----------------------------------------------------------------------------
(* A reading begins with what its counter holds, which is what its program  *)
(* counted.                                                                 *)
LEMMA Begins ==
    ASSUME IInv, NEW n \in 1..3, BeginRead(n),
           UNCHANGED <<slots, hit_cnt, stack, counted>>
    PROVE  Books' /\ Reading'
<1> USE DEF IInv
<1>1. Books'
  <2>1. depth' = depth
    BY DEF depth
  <2> QED
    BY <2>1 DEF Books
<1>2. Prog(n) \in Programs /\ dns_hit_key[Prog(n)] = Key(n)
  BY Hooks
<1>3. Sum(hit_cnt[Key(n)], slots) = counted[Prog(n)] /\ counted[Prog(n)] \in Nat
  BY <1>2 DEF Books, Shape
<1>4. at' = n /\ unread' = slots /\ sum' = 0 /\ since' = counted /\ n # 0
  BY DEF BeginRead
<1>5. Reading'
  BY <1>3, <1>4 DEF Reading
<1> QED
  BY <1>1, <1>5

LEMMA WakeStep == ASSUME IInv, Wake PROVE IInv'
<1> USE DEF IInv
<1>1. 1 \in 1..3 /\ BeginRead(1) /\ UNCHANGED <<slots, hit_cnt, stack, counted>>
  BY DEF Wake
<1>2. Books' /\ Reading'
  BY <1>1, Begins
<1>3. \A p \in Programs : counted[p] \in Nat /\ Zero[p] = 0 /\ Zero \in [Programs -> Nat]
  BY DEF Shape, Zero
<1>4. Zero \in [Programs -> Nat]
  BY DEF Zero
<1>5. Shape'
  BY <1>1, <1>4 DEF Shape, Wake, BeginRead
<1>6. Shown'
  <2>1. at' = 1 /\ line' = Zero /\ since' = counted /\ counted' = counted /\ shown' = shown /\ last' = last
    BY DEF Wake, BeginRead
  <2> QED
    BY <1>3, <2>1 DEF Shown, NeverGoesBack
<1> QED
  BY <1>2, <1>5, <1>6

(* Reading a slot moves what it holds from what is unread to the sum.       *)
LEMMA ReadSlotStep == ASSUME IInv, NEW s \in slots, ReadSlot(s) PROVE IInv'
<1> USE DEF IInv
<1>1. /\ s \in unread /\ unread' = unread \ {s}
      /\ UNCHANGED <<slots, hit_cnt, stack, counted, at, line, last, since, sound, shown>>
  BY DEF ReadSlot
<1>2. at # 0
  BY <1>1 DEF Reading
<1>3. PICK n \in 1..3 : n = at /\ Prog(n) \in Programs /\ Key(n) \in Keys
  BY <1>2, Hooks DEF Shape
<1>4. sum' = sum + hit_cnt[Key(n)][s]
  BY <1>3 DEF ReadSlot, Key
<1>5. IsFiniteSet(unread) /\ IsFiniteSet(unread') /\ unread \subseteq slots
  BY <1>1, Slots, FS_Subset DEF Shape
<1>6. PICK f : f = hit_cnt[Key(n)]
  OBVIOUS
<1>7. \A t \in slots : f[t] \in Nat
  BY <1>3, <1>6 DEF Shape
<1>8. Sum(f, unread) = f[s] + Sum(f, unread') /\ Sum(f, unread') \in Nat /\ f[s] \in Nat
  BY <1>1, <1>5, <1>7, SumTake, SumNat
<1>9. Shape'
  <2>1. sum \in Nat /\ sum' \in Nat
    BY <1>4, <1>6, <1>8 DEF Shape
  <2> QED
    BY <1>1, <2>1 DEF Shape
<1>10. Books'
  <2>1. depth' = depth
    BY <1>1 DEF depth
  <2> QED
    BY <1>1, <2>1 DEF Books
<1>11. Reading'
  <2>1. /\ since[Prog(n)] <= sum + Sum(f, unread) /\ sum + Sum(f, unread) <= counted[Prog(n)]
        /\ since[Prog(n)] \in Nat /\ counted[Prog(n)] \in Nat /\ sum \in Nat
    BY <1>2, <1>3, <1>6 DEF Reading, Shape
  <2>2. /\ since[Prog(n)] <= sum' + Sum(f, unread')
        /\ sum' + Sum(f, unread') <= counted[Prog(n)]
    BY <1>4, <1>6, <1>8, <2>1
  <2> QED
    BY <1>1, <1>2, <1>3, <1>6, <2>2 DEF Reading
<1>12. Shown'
  BY <1>1 DEF Shown, NeverGoesBack
<1> QED
  BY <1>9, <1>10, <1>11, <1>12

(* A reading that is whole is recent.                                       *)
LEMMA ReadWhole ==
    ASSUME Shape, Reading, at # 0, unread = {}
    PROVE  sum \in Nat /\ since[Prog(at)] <= sum /\ sum <= counted[Prog(at)]
<1>1. PICK f : f = hit_cnt[Key(at)]
  OBVIOUS
<1>2. Sum(f, {}) = 0
  BY FS_EmptySet, SumZero
<1>3. sum \in Nat /\ since[Prog(at)] <= sum + Sum(f, {}) /\ sum + Sum(f, {}) <= counted[Prog(at)]
  BY <1>1 DEF Shape, Reading
<1> QED
  BY <1>2, <1>3

(* A line takes hits that were counted, and, as long as it is sound, hits   *)
(* no fewer than were ever shown.                                           *)
LEMMA NextCounterStep ==
    ASSUME IInv, at # 0, NEW hits \in Nat, NextCounter(hits),
           hits <= counted[Prog(at)],
           sound' => sound /\ since[Prog(at)] <= hits
    PROVE  IInv'
<1> USE DEF IInv
<1>1. PICK n \in 1..3 : n = at /\ Prog(n) \in Programs
  BY Hooks DEF Shape
<1>2. /\ line' = [line EXCEPT ![Prog(n)] = hits]
      /\ UNCHANGED <<slots, hit_cnt, stack, counted>>
  BY <1>1 DEF NextCounter, Prog
<1>3. /\ line' \in [Programs -> Nat] /\ line'[Prog(n)] = hits
      /\ \A p \in Programs : p # Prog(n) => line'[p] = line[p]
  BY <1>1, <1>2 DEF Shape
<1>4. /\ \A p \in Programs : line[p] <= counted[p] /\ shown[p] <= counted[p] /\ since[p] <= counted[p]
      /\ \A p \in Programs : shown[p] <= since[p]
      /\ \A p \in Programs : last # << >> => last[p] <= counted[p]
  BY DEF Shown
<1>5. \A p \in Programs : shown[p] \in Nat /\ since[p] \in Nat /\ counted[p] \in Nat
  BY DEF Shape
<1>6. \A p \in Programs : line'[p] <= counted[p]
  BY <1>1, <1>3, <1>4
<1>7. sound' => \A m \in 1..3 : m <= n => shown[Prog(m)] <= line'[Prog(m)]
  <2> SUFFICES ASSUME sound', NEW m \in 1..3, m <= n PROVE shown[Prog(m)] <= line'[Prog(m)]
    OBVIOUS
  <2>1. CASE m = n
    BY <1>1, <1>3, <1>4, <1>5, <2>1
  <2>2. CASE m # n
    <3>1. m < at /\ Prog(m) \in Programs /\ Prog(m) # Prog(n)
      <4>1. m < n
        BY <2>2
      <4> QED
        BY <1>1, <2>2, <4>1, Hooks
    <3>2. shown[Prog(m)] <= line[Prog(m)]
      BY <3>1 DEF Shown
    <3> QED
      BY <1>3, <3>1, <3>2
  <2> QED
    BY <2>1, <2>2
<1>8. CASE n < 3
  <2>1. n + 1 \in 1..3 /\ BeginRead(n + 1) /\ last' = last /\ shown' = shown
    BY <1>1, <1>8, Hooks DEF NextCounter
  <2>2. at' = n + 1 /\ unread' = slots /\ sum' = 0 /\ since' = counted
    BY <2>1 DEF BeginRead
  <2>3. Books' /\ Reading'
    BY <1>2, <2>1, Begins
  <2>4. Shape'
    BY <1>2, <1>3, <2>1, <2>2 DEF Shape
  <2>5. Shown'
    BY <1>2, <1>4, <1>5, <1>6, <1>7, <2>1, <2>2 DEF Shown, NeverGoesBack
  <2> QED
    BY <2>3, <2>4, <2>5
<1>9. CASE n = 3
  <2>1. /\ at' = 0 /\ last' = line' /\ unread' = {} /\ sum' = 0 /\ since' = since
        /\ shown' = [p \in Programs |-> IF line'[p] > shown[p] THEN line'[p] ELSE shown[p]]
    BY <1>1, <1>9, Hooks DEF NextCounter
  <2>2. /\ shown' \in [Programs -> Nat] /\ \A p \in Programs : shown'[p] <= counted[p]
        /\ \A p \in Programs : shown[p] <= line'[p] => shown'[p] = line'[p]
    BY <1>3, <1>4, <1>5, <1>6, <2>1
  <2>3. Shape'
    BY <1>2, <1>3, <2>1, <2>2 DEF Shape
  <2>4. Books'
    <3>1. depth' = depth
      BY <1>2 DEF depth
    <3> QED
      BY <1>2, <3>1 DEF Books
  <2>5. Reading'
    BY <2>1 DEF Reading
  <2>6. NeverGoesBack'
    <3> SUFFICES ASSUME sound', NEW p \in Programs PROVE last'[p] = shown'[p]
      BY DEF NeverGoesBack
    <3>1. PICK m \in 1..3 : p = Prog(m)
      BY Hooks
    <3>2. shown[p] <= line'[p]
      BY <1>7, <1>9, <3>1
    <3> QED
      BY <2>1, <2>2, <3>2
  <2>7. Shown'
    BY <1>2, <1>4, <1>6, <2>1, <2>2, <2>6 DEF Shown
  <2> QED
    BY <2>3, <2>4, <2>5, <2>7
<1> QED
  BY <1>8, <1>9

LEMMA Invariance == IInv /\ [Next]_vars => IInv'
<1> SUFFICES ASSUME IInv, [Next]_vars PROVE IInv'
  OBVIOUS
<1>1. ASSUME NEW c \in Cpus, Count(c) PROVE IInv'
  BY <1>1, CountStep
<1>2. ASSUME NEW c \in Cpus, NEW p \in Programs, FindCounter(c, p) PROVE IInv'
  BY <1>2, FindCounterStep
<1>3. ASSUME Wake PROVE IInv'
  BY <1>3, WakeStep
<1>4. ASSUME NEW s \in slots, ReadSlot(s) PROVE IInv'
  BY <1>4, ReadSlotStep
<1>5. ASSUME AddUp PROVE IInv'
  <2>1. at # 0 /\ unread = {} /\ NextCounter(sum) /\ sound' = sound
    BY <1>5 DEF AddUp
  <2>2. sum \in Nat /\ since[Prog(at)] <= sum /\ sum <= counted[Prog(at)]
    BY <2>1, ReadWhole DEF IInv
  <2> QED
    BY <2>1, <2>2, NextCounterStep
<1>6. ASSUME ReadFails PROVE IInv'
  <2>1. at # 0 /\ NextCounter(0) /\ ~sound'
    BY <1>6 DEF ReadFails
  <2>2. 0 \in Nat /\ 0 <= counted[Prog(at)]
    <3>1. Prog(at) \in Programs
      BY <2>1, Hooks DEF IInv, Shape
    <3> QED
      BY <3>1 DEF IInv, Shape
  <2> QED
    BY <2>1, <2>2, NextCounterStep
<1>7. ASSUME Rewatch PROVE IInv'
  <2>1. /\ UNCHANGED <<slots, hit_cnt, stack, counted, since, sound, shown>>
        /\ at' = 0 /\ unread' = {} /\ sum' = 0 /\ line' = Zero /\ last' = << >>
    BY <1>7 DEF Rewatch
  <2>2. Zero \in [Programs -> Nat] /\ \A p \in Programs : Zero[p] = 0 /\ counted[p] \in Nat
    BY DEF Zero, IInv, Shape
  <2>3. depth' = depth
    BY <2>1 DEF depth
  <2>4. Shape' /\ Books' /\ Reading'
    BY <2>1, <2>2, <2>3 DEF IInv, Shape, Books, Reading
  <2>5. Shown'
    BY <2>1, <2>2 DEF IInv, Shown, NeverGoesBack
  <2> QED
    BY <2>4, <2>5 DEF IInv
<1>8. ASSUME UNCHANGED vars PROVE IInv'
  <2>1. depth' = depth
    BY <1>8 DEF depth, vars
  <2> QED
    BY <1>8, <2>1 DEF IInv, Shape, Books, Reading, Shown, NeverGoesBack, vars, watcher
<1> QED
  BY <1>1, <1>2, <1>3, <1>4, <1>5, <1>6, <1>7, <1>8 DEF Next, Watch

LEMMA IInvHolds == Spec => []IInv
  BY IInvInit, Invariance, PTL DEF Spec

-----------------------------------------------------------------------------
(* Whatever is counted, summed up or shown is bounded by the programs run.  *)
LEMMA Bounded ==
    ASSUME Shape, Books
    PROVE  /\ \A p \in Programs : counted[p] <= MaxHits
           /\ \A k \in Keys, s \in slots : hit_cnt[k][s] <= MaxHits
<1>1. ASSUME NEW p \in Programs PROVE counted[p] <= MaxHits
  <2>1. \A q \in Programs : counted[q] \in Nat
    BY DEF Shape
  <2>2. counted[p] <= Sum(counted, Programs) /\ Sum(counted, Programs) \in Nat
    BY <2>1, Hooks, SumBounds, SumNat
  <2>3. \A c \in Cpus : depth[c] \in Nat
    BY DEF depth, Shape
  <2>4. Sum(depth, Cpus) \in Nat
    BY <2>3, SlotsAssumption, SumNat
  <2> QED
    BY <2>1, <2>2, <2>4, BoundsAssumption DEF Books
<1>2. ASSUME NEW k \in Keys, NEW s \in slots PROVE hit_cnt[k][s] <= MaxHits
  <2>1. PICK p \in Programs : dns_hit_key[p] = k
    BY Hooks
  <2>2. PICK f : f = hit_cnt[k]
    OBVIOUS
  <2>3. IsFiniteSet(slots) /\ \A t \in slots : f[t] \in Nat
    BY <2>2, Slots DEF Shape
  <2>4. f[s] <= Sum(f, slots)
    BY <2>3, SumBounds
  <2>5. Sum(f, slots) = counted[p] /\ counted[p] \in Nat /\ counted[p] <= MaxHits
    BY <1>1, <2>1, <2>2 DEF Books, Shape
  <2> QED
    BY <2>2, <2>3, <2>4, <2>5, BoundsAssumption
<1> QED
  BY <1>1, <1>2

LEMMA IInvTypes == IInv => TypeOK
<1> SUFFICES ASSUME IInv PROVE TypeOK
  OBVIOUS
<1> USE DEF IInv
<1>1. /\ \A p \in Programs : counted[p] <= MaxHits
      /\ \A k \in Keys, s \in slots : hit_cnt[k][s] <= MaxHits
  BY Bounded
<1>2. \A p \in Programs : counted[p] \in Nat /\ since[p] \in Nat /\ shown[p] \in Nat /\ line[p] \in Nat
  BY DEF Shape
<1>3. hit_cnt \in [Keys -> [slots -> 0..MaxHits]]
  <2>1. \A k \in Keys : hit_cnt[k] \in [slots -> Nat]
    BY DEF Shape
  <2>2. \A k \in Keys, s \in slots : hit_cnt[k][s] \in 0..MaxHits
    BY <1>1, <2>1, BoundsAssumption
  <2>3. \A k \in Keys : hit_cnt[k] \in [slots -> 0..MaxHits]
    BY <2>1, <2>2
  <2> QED
    BY <2>3 DEF Shape
<1>4. at \in 0..Len(HOOKS)
  BY Hooks DEF Shape
<1>5. sum \in 0..MaxHits
  <2>1. CASE at = 0
    BY <2>1, BoundsAssumption DEF Reading
  <2>2. CASE at # 0
    <3>1. PICK n \in 1..3 : n = at /\ Prog(n) \in Programs /\ Key(n) \in Keys
      BY <2>2, Hooks DEF Shape
    <3>2. PICK f : f = hit_cnt[Key(n)]
      OBVIOUS
    <3>3. IsFiniteSet(unread) /\ \A t \in unread : f[t] \in Nat
      BY <3>1, <3>2, Slots, FS_Subset DEF Shape
    <3>4. Sum(f, unread) \in Nat
      BY <3>3, SumNat
    <3>5. sum + Sum(f, unread) <= counted[Prog(n)] /\ sum \in Nat
      BY <2>2, <3>1, <3>2 DEF Reading, Shape
    <3> QED
      BY <1>1, <1>2, <3>1, <3>4, <3>5, BoundsAssumption
  <2> QED
    BY <2>1, <2>2
<1>6. line \in [Programs -> 0..MaxHits]
  <2>1. \A p \in Programs : line[p] \in 0..MaxHits
    BY <1>1, <1>2, BoundsAssumption DEF Shown
  <2> QED
    BY <2>1 DEF Shape
<1>7. last = << >> \/ last \in [Programs -> 0..MaxHits]
  <2> SUFFICES ASSUME last # << >> PROVE last \in [Programs -> 0..MaxHits]
    OBVIOUS
  <2>1. last \in [Programs -> Nat]
    BY DEF Shape
  <2>2. \A p \in Programs : last[p] \in 0..MaxHits
    BY <1>1, <1>2, <2>1, BoundsAssumption DEF Shown
  <2> QED
    BY <2>1, <2>2
<1>8. \A p \in Programs : since[p] <= counted[p] /\ shown[p] <= MaxHits
  BY <1>1, <1>2, BoundsAssumption DEF Shown
<1> QED
  BY <1>3, <1>4, <1>5, <1>6, <1>7, <1>8 DEF TypeOK, Shape

(* count_hit and watch_hits keep to their types: no counter, sum or line is *)
(* ever more than the programs run.                                         *)
THEOREM TypesOfCounters == Spec => []TypeOK
  BY IInvHolds, IInvTypes, PTL

(* count_hit loses no hit, however deep programs nest on a CPU and however  *)
(* they interleave between lookup and addition, on a per-CPU map and on a   *)
(* plain one: the slots of a counter add up to what its program counted.    *)
THEOREM AllHitsCounted == Spec => []NoHitLost
<1>1. ASSUME IInv PROVE NoHitLost
  <2> SUFFICES ASSUME NEW p \in Programs
               PROVE  SumFunction(hit_cnt[dns_hit_key[p]]) = counted[p]
    BY DEF NoHitLost
  <2>1. dns_hit_key[p] \in Keys
    BY Hooks
  <2>2. DOMAIN hit_cnt[dns_hit_key[p]] = slots
    BY <1>1, <2>1 DEF IInv, Shape
  <2>3. SumFunction(hit_cnt[dns_hit_key[p]]) = Sum(hit_cnt[dns_hit_key[p]], slots)
    BY <2>2, Whole
  <2> QED
    BY <1>1, <2>3 DEF IInv, Books
<1> QED
  BY <1>1, IInvHolds, PTL

(* The hits a watcher adds up slot by slot, while they move, are those of   *)
(* the program they are shown under, no fewer than when it began to read    *)
(* and no more than there are.                                              *)
THEOREM ReadsAreRecent == Spec => []ReadIsRecent
<1>1. ASSUME IInv PROVE ReadIsRecent
  <2> SUFFICES ASSUME at # 0, unread = {}
               PROVE  since[HOOKS[at][1]] <= sum /\ sum <= counted[HOOKS[at][1]]
    BY DEF ReadIsRecent
  <2>1. since[Prog(at)] <= sum /\ sum <= counted[Prog(at)]
    BY <1>1, ReadWhole DEF IInv
  <2> QED
    BY <2>1 DEF Prog
<1> QED
  BY <1>1, IInvHolds, PTL

(* No line goes back behind what any watcher showed, one that dnslink run   *)
(* again took the place of included, unless a read of it failed.            *)
THEOREM ShownNeverGoesBack == Spec => []NeverGoesBack
<1>1. IInv => NeverGoesBack
  BY DEF IInv, Shown
<1> QED
  BY <1>1, IInvHolds, PTL
=============================================================================
