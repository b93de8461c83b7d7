----------------------------- MODULE HitCounters -----------------------------
(***************************************************************************)
(* The hit counters: count_hit (ebpf/dns_cfg.h) on every CPU, and the      *)
(* watchers of `dnslink attach --watch` (watch_hits, main.rs) that add     *)
(* them up while they move.                                                *)
(*                                                                         *)
(* On one CPU a program may be interrupted between finding its counter and *)
(* counting, by a program that runs to its end first; CPUs interleave      *)
(* freely.  A counter's width (64 bits) is out of reach of any count.      *)
(***************************************************************************)
EXTENDS Naturals, Sequences, FiniteSets, Functions

CONSTANTS
    Cpus,
    All,         \* the slot of a map that is not per-CPU
    SlotSets,    \* the maps: the slots of a counter are Cpus or {All}
    MaxHits,     \* bound on the programs run
    MaxDepth,    \* bound on the programs nested on one CPU
    MaxTroubles  \* bound on failed reads and restarts of the watcher

ASSUME SlotsAssumption == IsFiniteSet(Cpus) /\ All \notin Cpus /\ SlotSets \subseteq {Cpus, {All}}
ASSUME BoundsAssumption == MaxHits \in Nat /\ MaxDepth \in Nat /\ MaxTroubles \in Nat

(* The sections of the object with the counter each of them bumps.          *)
dns_hit_key == [redirect_dns_query_connect |-> 0,
                redirect_dns_query_sendmsg |-> 1,
                rewrite_dns_answer_recvmsg |-> 2]
Programs == DOMAIN dns_hit_key
Keys == 0..2

HOOKS_Swapped == << <<"redirect_dns_query_connect", 0>>,
                    <<"redirect_dns_query_sendmsg", 2>>,
                    <<"rewrite_dns_answer_recvmsg", 1>> >>

(* The loader's table of the same: the program, which names the label, and  *)
(* its key.                                                                 *)
HOOKS == << <<"redirect_dns_query_connect", 0>>,
            <<"redirect_dns_query_sendmsg", 1>>,
            <<"rewrite_dns_answer_recvmsg", 2>> >>

VARIABLES
    slots,     \* the slots of each counter
    hit_cnt,   \* hit_cnt[k][s]
    stack,     \* programs under way on each CPU, innermost first, each with
               \* the count it found
    at,        \* the watcher: the entry of HOOKS it reads, 0 asleep
    unread,    \* the slots the kernel has not yet copied for it
    sum,       \* the sum of those it has
    line,      \* the hits per program so far
    last,      \* the line printed last, << >> before the first
    troubles,
    counted,   \* history: how often each program counted
    since,     \* history: counted when the reading of a counter began
    sound,     \* history: no read of this line failed
    shown      \* history: the highest hits any watcher has printed

watcher == <<at, unread, sum, line, last, troubles, since, sound, shown>>
vars == <<slots, hit_cnt, stack, counted, watcher>>

-----------------------------------------------------------------------------
SlotOf(c) == IF c \in slots THEN c ELSE All

Zero == [p \in Programs |-> 0]

Init ==
    /\ slots \in SlotSets
    /\ hit_cnt = [k \in Keys |-> [s \in slots |-> 0]]
    /\ stack = [c \in Cpus |-> << >>]
    /\ at = 0 /\ unread = {} /\ sum = 0
    /\ line = Zero /\ last = << >>
    /\ troubles = 0
    /\ counted = Zero
    /\ since = Zero /\ sound = TRUE /\ shown = Zero

Started == SumFunction(counted) + SumFunction([c \in Cpus |-> Len(stack[c])])

(* count_hit: the lookup of the counter, ...                                *)
FindCounter(c, p) ==
    /\ Len(stack[c]) < MaxDepth /\ Started < MaxHits
    /\ stack' = [stack EXCEPT ![c] =
                    <<[program |-> p, saw |-> hit_cnt[dns_hit_key[p]][SlotOf(c)]]>> \o @]
    /\ UNCHANGED <<slots, hit_cnt, counted, watcher>>

(* ... and the atomic addition, by the innermost program.                   *)
Count_LoadStore(c) ==
    /\ stack[c] # << >>
    /\ LET p == Head(stack[c]).program
       IN  /\ hit_cnt' = [hit_cnt EXCEPT ![dns_hit_key[p]][SlotOf(c)] = Head(stack[c]).saw + 1]
           /\ counted' = [counted EXCEPT ![p] = @ + 1]
    /\ stack' = [stack EXCEPT ![c] = Tail(@)]
    /\ UNCHANGED <<slots, watcher>>

Count(c) ==
    /\ stack[c] # << >>
    /\ LET p == Head(stack[c]).program
       IN  /\ hit_cnt' = [hit_cnt EXCEPT ![dns_hit_key[p]][SlotOf(c)] = @ + 1]
           /\ counted' = [counted EXCEPT ![p] = @ + 1]
    /\ stack' = [stack EXCEPT ![c] = Tail(@)]
    /\ UNCHANGED <<slots, watcher>>

-----------------------------------------------------------------------------
(* watch_hits begins to read a counter, ...                                 *)
BeginRead(n) ==
    /\ at' = n /\ unread' = slots /\ sum' = 0
    /\ since' = counted

Wake ==
    /\ at = 0
    /\ BeginRead(1)
    /\ line' = Zero /\ sound' = TRUE
    /\ UNCHANGED <<slots, hit_cnt, stack, counted, last, troubles, shown>>

(* ... the kernel copies it slot by slot, ...                               *)
ReadSlot_Again(s) ==
    /\ s \in unread
    /\ sum' = sum + hit_cnt[HOOKS[at][2]][s]
    /\ unread' \in {unread, unread \ {s}}
    /\ UNCHANGED <<slots, hit_cnt, stack, counted, at, line, last, troubles, since, sound, shown>>

ReadSlot(s) ==
    /\ s \in unread
    /\ sum' = sum + hit_cnt[HOOKS[at][2]][s]
    /\ unread' = unread \ {s}
    /\ UNCHANGED <<slots, hit_cnt, stack, counted, at, line, last, troubles, since, sound, shown>>

NextCounter_DropLine(hits) ==
    /\ line' = [Zero EXCEPT ![HOOKS[at][1]] = hits]
    /\ IF at < Len(HOOKS)
         THEN BeginRead(at + 1) /\ UNCHANGED <<last, shown>>
         ELSE /\ at' = 0 /\ last' = line'
              /\ shown' = [p \in Programs |-> IF line'[p] > shown[p] THEN line'[p] ELSE shown[p]]
              /\ unread' = {} /\ sum' = 0 /\ UNCHANGED since
    /\ UNCHANGED <<slots, hit_cnt, stack, counted>>

(* ... and its hits go into the line, which is printed when it is whole and *)
(* not the one printed last.                                                *)
NextCounter(hits) ==
    /\ line' = [line EXCEPT ![HOOKS[at][1]] = hits]
    /\ IF at < Len(HOOKS)
         THEN BeginRead(at + 1) /\ UNCHANGED <<last, shown>>
         ELSE /\ at' = 0 /\ last' = line'
              /\ shown' = [p \in Programs |-> IF line'[p] > shown[p] THEN line'[p] ELSE shown[p]]
              /\ unread' = {} /\ sum' = 0 /\ UNCHANGED since
    /\ UNCHANGED <<slots, hit_cnt, stack, counted>>

AddUp ==
    /\ at # 0 /\ unread = {}
    /\ NextCounter(sum)
    /\ UNCHANGED <<troubles, sound>>

(* An error counts as no hits.                                              *)
ReadFails ==
    /\ at # 0 /\ unread # {} /\ troubles < MaxTroubles
    /\ troubles' = troubles + 1
    /\ sound' = FALSE
    /\ NextCounter(0)

Rewatch_NewMap ==
    /\ troubles < MaxTroubles
    /\ troubles' = troubles + 1
    /\ at' = 0 /\ unread' = {} /\ sum' = 0 /\ line' = Zero /\ last' = << >>
    /\ hit_cnt' = [k \in Keys |-> [s \in slots |-> 0]]
    /\ UNCHANGED <<slots, stack, counted, since, sound, shown>>

(* The watcher is interrupted and dnslink run again: it takes hit_cnt from  *)
(* its pin, with the counts in it.                                          *)
Rewatch ==
    /\ troubles < MaxTroubles
    /\ troubles' = troubles + 1
    /\ at' = 0 /\ unread' = {} /\ sum' = 0 /\ line' = Zero /\ last' = << >>
    /\ UNCHANGED <<slots, hit_cnt, stack, counted, since, sound, shown>>

Watch == Wake \/ (\E s \in slots : ReadSlot(s)) \/ AddUp

Next ==
    \/ \E c \in Cpus : Count(c) \/ \E p \in Programs : FindCounter(c, p)
    \/ Watch \/ ReadFails \/ Rewatch

(* Programs run to their end; the watcher sleeps one second at a time and   *)
(* its system calls return.                                                 *)
Spec == Init /\ [][Next]_vars /\ WF_vars(Watch) /\ \A c \in Cpus : WF_vars(Count(c))

-----------------------------------------------------------------------------
(* Types; the watcher reads a counter or sleeps, and reads each slot of it  *)
(* once.                                                                    *)
TypeOK ==
    /\ hit_cnt \in [Keys -> [slots -> 0..MaxHits]]
    /\ \A c \in Cpus : Len(stack[c]) <= MaxDepth
    /\ at \in 0..Len(HOOKS) /\ unread \subseteq slots /\ sum \in 0..MaxHits
    /\ line \in [Programs -> 0..MaxHits]
    /\ last = << >> \/ last \in [Programs -> 0..MaxHits]
    /\ \A p \in Programs : since[p] <= counted[p] /\ shown[p] <= MaxHits

(* "a nested same-CPU invocation cannot lose an update", and "also keeps    *)
(* the count correct if hit_cnt is ever a non-percpu map" (dns_cfg.h): what *)
(* the slots of a counter add up to is how often its program counted, with  *)
(* programs nested and CPUs interleaved between lookup and addition.        *)
NoHitLost == \A p \in Programs : SumFunction(hit_cnt[dns_hit_key[p]]) = counted[p]

(* Although the counters move while they are read slot by slot, the hits in *)
(* a line stand under the program they belong to, and are no fewer than it  *)
(* had counted when the reading began and no more than it has counted since.*)
ReadIsRecent ==
    at # 0 /\ unread = {} =>
        LET p == HOOKS[at][1] IN since[p] <= sum /\ sum <= counted[p]

(* What is shown never goes back, from one watcher to the next either,      *)
(* unless a read failed.                                                    *)
NeverGoesBack ==
    at = 0 /\ last # << >> /\ sound => \A p \in Programs : last[p] = shown[p]

(* When traffic stops, the line printed last says what was counted.         *)
ShownInTheEnd == <>[](last = counted)
=============================================================================
