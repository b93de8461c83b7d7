------------------------------- MODULE DnsHooks -------------------------------
(***************************************************************************)
(* The hook programs (ebpf/dns_sockaddr.bpf.c, dns_cfg.h) on live traffic: *)
(* resolvers that look names up through UDP sockets while the loader's     *)
(* runs write rules and attach or detach hooks.  The runs appear as their  *)
(* abstract specification, RuleTable, which DnsLoader implements.          *)
(*                                                                         *)
(* A program runs in one step, but the loader's write into the table does  *)
(* not: the fields of a rule are copied in some order while programs read. *)
(* The writes of two runs do not overlap.  Counting is in HitCounters.     *)
(* A socket's queries and answers are sets of addresses, so datagrams are  *)
(* lost (never picked), duplicated (picked again) and reordered.           *)
(*                                                                         *)
(* The resolvers, the UDP sockets and the servers are external: connect4   *)
(* runs at connect, sendmsg4 at a send on an unconnected socket, recvmsg4  *)
(* at every receive, and a connected socket receives from its peer only.   *)
(***************************************************************************)
EXTENDS Naturals

CONSTANTS
    Resolvers,  \* resolvers, each with one socket at a time
    Asks,       \* Asks[c]: the nameserver address resolver c is configured with
    Connecting, \* the resolvers that may connect a socket
    Sending,    \* the resolvers that may send without connecting it
    Verifying,  \* the resolvers that compare an answer's source with Asks
    Servers,    \* the addresses that answer queries
    RuleSets,   \* the rules the runs may write
    Blank,      \* a slot of the table never written: all fields zero
    None,
    MaxWrites   \* bound on the rule writes of a behaviour

(* An address is <<ip, port>>; a rule pairs two of them.                    *)
Addresses == Servers \cup {Asks[c] : c \in Resolvers} \cup
             UNION {{v.requested, v.actual} : v \in RuleSets \cup {Blank}}
Ips == {a[1] : a \in Addresses}
Ports == {a[2] : a \in Addresses}

DNS_QUERY == "requested"
DNS_ANSWER == "actual"
Fields == {DNS_QUERY, DNS_ANSWER} \X {1, 2}
MAXNS == 3

IsAddress(a) == a \in Ips \X Ports
IsRule(v) ==
    /\ v = [dir \in {DNS_QUERY, DNS_ANSWER} |-> v[dir]]
    /\ IsAddress(v[DNS_QUERY]) /\ IsAddress(v[DNS_ANSWER])

ASSUME AsksAssumption == Asks \in [Resolvers -> Ips \X Ports]
ASSUME ServersAssumption == \A a \in Servers : IsAddress(a)
ASSUME RulesAssumption == \A v \in RuleSets \cup {Blank} : IsRule(v)
ASSUME BlankAssumption == Blank[DNS_QUERY] = Blank[DNS_ANSWER]
ASSUME NoneAssumption == None \notin RuleSets /\ None # Blank /\ ~IsAddress(None)
ASSUME MaxWritesAssumption == MaxWrites \in Nat

Hooks == {"connect4", "sendmsg4", "recvmsg4"}

VARIABLES
    rules, serving,  \* the control plane: see RuleTable
    cfg_map,         \* the slots as the programs read them
    pending,         \* fields of rules not yet copied into slot 0
    phase,           \* what each resolver does
    peer,            \* where its socket is connected to
    queries, answers,\* destinations of its queries, sources of the answers to them
    reported,        \* the source its last receive reported
    writes,          \* rule writes so far
    visible,         \* history: the rules some field of the table comes from
    allowed,         \* history: where the rules visible since Open send what is for Asks[c]
    undisturbed      \* history: all hooks on and no write since Open

Control == INSTANCE RuleTable WITH Rules <- RuleSets

control == <<rules, serving, cfg_map, pending, writes, visible>>
vars == <<control, phase, peer, queries, answers, reported, allowed, undisturbed>>

(* The hook programs that are in effect.                                    *)
On == {h \in Hooks : serving[h] # {}}

-----------------------------------------------------------------------------
(* match_rule: the first slot whose side for this direction is the address. *)
match_rule(a, dir) ==
    LET matching == {i \in 0..MAXNS - 1 : cfg_map[i][dir] = a}
    IN  IF matching = {} THEN None
        ELSE cfg_map[CHOOSE i \in matching : \A j \in matching : i <= j]

(* What a hook makes of an address: the other side of the matching rule.    *)
Rewrite_SameSide(h, a, from, to) ==
    IF h \in On /\ match_rule(a, to) # None THEN match_rule(a, to)[from] ELSE a

Rewrite(h, a, from, to) ==
    IF h \in On /\ match_rule(a, from) # None THEN match_rule(a, from)[to] ELSE a

redirect_query(h, a) == Rewrite(h, a, DNS_QUERY, DNS_ANSWER)

rewrite_dns_answer_recvmsg_Query(a) == Rewrite("recvmsg4", a, DNS_QUERY, DNS_ANSWER)
rewrite_dns_answer_recvmsg(a) == Rewrite("recvmsg4", a, DNS_ANSWER, DNS_QUERY)

-----------------------------------------------------------------------------
Init ==
    /\ Control!Init
    /\ cfg_map = [i \in 0..MAXNS - 1 |-> Blank]
    /\ pending = {}
    /\ phase = [c \in Resolvers |-> "closed"]
    /\ peer = [c \in Resolvers |-> None]
    /\ queries = [c \in Resolvers |-> {}]
    /\ answers = [c \in Resolvers |-> {}]
    /\ reported = [c \in Resolvers |-> None]
    /\ writes = 0
    /\ visible = {}
    /\ allowed = [c \in Resolvers |-> {}]
    /\ undisturbed = [c \in Resolvers |-> FALSE]

(* Where a set of rules sends what is addressed to a.                       *)
Target(v, a) == IF v # None /\ v.requested = a THEN v.actual ELSE a

(* cfg_map.set of slot 0: the new rules are visible from now on, field by   *)
(* field.                                                                   *)
SetRules(v) ==
    /\ pending = {} /\ writes < MaxWrites
    /\ Control!SetRules(v)
    /\ pending' = Fields
    /\ writes' = writes + 1
    /\ visible' = visible \cup {v}
    /\ allowed' = [c \in Resolvers |-> allowed[c] \cup {Target(v, Asks[c])}]
    /\ undisturbed' = [c \in Resolvers |-> FALSE]
    /\ UNCHANGED <<cfg_map, phase, peer, queries, answers, reported>>

CopyField_NextSlot(f) ==
    /\ f \in pending
    /\ cfg_map' = [cfg_map EXCEPT ![1][f[1]][f[2]] = rules[f[1]][f[2]]]
    /\ pending' = pending \ {f}
    /\ visible' = IF pending = {f} THEN {rules} ELSE visible
    /\ UNCHANGED <<rules, serving, writes, phase, peer, queries, answers, reported,
                   allowed, undisturbed>>

CopyField(f) ==
    /\ f \in pending
    /\ cfg_map' = [cfg_map EXCEPT ![0][f[1]][f[2]] = rules[f[1]][f[2]]]
    /\ pending' = pending \ {f}
    /\ visible' = IF pending = {f} THEN {rules} ELSE visible
    /\ UNCHANGED <<rules, serving, writes, phase, peer, queries, answers, reported,
                   allowed, undisturbed>>

(* A run attaches after its own write returned, while another may be        *)
(* writing; a detached hook lets what is addressed to a nameserver go there.*)
AttachHook(h) ==
    /\ h \notin On /\ (pending = {} \/ writes > 1)
    /\ Control!TakeEffect(h)
    /\ UNCHANGED <<cfg_map, pending, writes, visible, phase, peer, queries, answers,
                   reported, allowed, undisturbed>>

DetachHook(h) ==
    /\ h \in On
    /\ Control!LoseEffect(h)
    /\ allowed' = [c \in Resolvers |-> allowed[c] \cup {Asks[c]}]
    /\ undisturbed' = [c \in Resolvers |-> FALSE]
    /\ UNCHANGED <<cfg_map, pending, writes, visible, phase, peer, queries, answers,
                   reported>>

(* A resolver opens a socket for a lookup ...                               *)
Open(c) ==
    /\ phase[c] \in {"closed", "answered"}
    /\ phase' = [phase EXCEPT ![c] = "open"]
    /\ queries' = [queries EXCEPT ![c] = {}]
    /\ answers' = [answers EXCEPT ![c] = {}]
    /\ reported' = [reported EXCEPT ![c] = None]
    /\ allowed' = [allowed EXCEPT ![c] = {Target(v, Asks[c]) : v \in visible} \cup
                                         (IF On = Hooks THEN {} ELSE {Asks[c]})]
    /\ undisturbed' = [undisturbed EXCEPT ![c] = On = Hooks /\ pending = {}]
    /\ UNCHANGED control

(* ... and connects it, which connect4 sees, ...                            *)
Connect(c) ==
    /\ c \in Connecting
    /\ Open(c)
    /\ peer' = [peer EXCEPT ![c] = redirect_query("connect4", Asks[c])]

(* ... or does not.                                                         *)
Bind(c) ==
    /\ c \in Sending
    /\ Open(c)
    /\ peer' = [peer EXCEPT ![c] = None]

Connected(c) == peer[c] # None

(* It sends its query to its peer, or to the nameserver through sendmsg4.   *)
Send(c) ==
    /\ phase[c] = "open"
    /\ phase' = [phase EXCEPT ![c] = "waiting"]
    /\ queries' = [queries EXCEPT ![c] = @ \cup
                     {IF Connected(c) THEN peer[c] ELSE redirect_query("sendmsg4", Asks[c])}]
    /\ UNCHANGED <<control, peer, answers, reported, allowed, undisturbed>>

Answer(c) == \E s \in queries[c] \cap Servers :
    /\ answers' = [answers EXCEPT ![c] = @ \cup {s}]
    /\ UNCHANGED <<control, phase, peer, queries, reported, allowed, undisturbed>>

(* It receives an answer with the source recvmsg4 reports, and takes it if  *)
(* it does not verify the source or the source is the nameserver it asked.  *)
Receive(c) == \E s \in answers[c] :
    /\ phase[c] = "waiting"
    /\ Connected(c) => s = peer[c]
    /\ reported' = [reported EXCEPT ![c] = rewrite_dns_answer_recvmsg(s)]
    /\ phase' = IF c \in Verifying => rewrite_dns_answer_recvmsg(s) = Asks[c]
                  THEN [phase EXCEPT ![c] = "answered"] ELSE phase
    /\ UNCHANGED <<control, peer, queries, answers, allowed, undisturbed>>

(* It sends again, or closes the socket, and what was under way is lost.    *)
Resend(c) ==
    /\ phase[c] = "waiting"
    /\ phase' = [phase EXCEPT ![c] = "open"]
    /\ UNCHANGED <<control, peer, queries, answers, reported, allowed, undisturbed>>

GiveUp(c) ==
    /\ phase[c] = "waiting"
    /\ phase' = [phase EXCEPT ![c] = "closed"]
    /\ peer' = [peer EXCEPT ![c] = None]
    /\ queries' = [queries EXCEPT ![c] = {}]
    /\ answers' = [answers EXCEPT ![c] = {}]
    /\ reported' = [reported EXCEPT ![c] = None]
    /\ UNCHANGED <<control, allowed, undisturbed>>

Next ==
    \/ \E v \in RuleSets : SetRules(v)
    \/ \E f \in Fields : CopyField(f)
    \/ \E h \in Hooks : AttachHook(h) \/ DetachHook(h)
    \/ \E c \in Resolvers : Connect(c) \/ Bind(c) \/ Send(c) \/ Answer(c) \/ Receive(c)
                            \/ Resend(c) \/ GiveUp(c)

(* A resolver keeps going; it gives up a socket now and then; of the        *)
(* queries it keeps sending some are answered, and of the answers some      *)
(* arrive before it does.                                                   *)
Fairness ==
    /\ \A f \in Fields : WF_vars(CopyField(f))
    /\ \A c \in Resolvers :
          WF_vars(Connect(c) \/ Bind(c)) /\ WF_vars(Send(c)) /\ SF_vars(GiveUp(c))
              /\ SF_vars(Answer(c)) /\ SF_vars(Receive(c))

Spec == Init /\ [][Next]_vars /\ Fairness

-----------------------------------------------------------------------------
(* Types; the control plane's state, and what a complete write leaves.      *)
TypeOK ==
    /\ rules \in RuleSets \cup {None}
    /\ serving = Control!Consulted(On, rules)
    /\ cfg_map \in [0..MAXNS - 1 -> [{DNS_QUERY, DNS_ANSWER} -> Ips \X Ports]]
    /\ pending \subseteq Fields
    /\ pending = {} /\ rules # None => cfg_map[0] = rules
    /\ phase \in [Resolvers -> {"closed", "open", "waiting", "answered"}]
    /\ peer \in [Resolvers -> (Ips \X Ports) \cup {None}]
    /\ queries \in [Resolvers -> SUBSET (Ips \X Ports)]
    /\ answers \in [Resolvers -> SUBSET Servers]
    /\ reported \in [Resolvers -> (Ips \X Ports) \cup {None}]
    /\ writes \in 0..MaxWrites
    /\ visible \subseteq RuleSets
    /\ undisturbed \in [Resolvers -> BOOLEAN]

(* A query goes where the rules of one run, in the table at some time since *)
(* its socket was opened, send what is addressed to its nameserver; what no *)
(* rule is about goes where it is addressed.  Only while a hook is missing  *)
(* may a query for a redirected nameserver go there itself.                 *)
SentAsConfigured == \A c \in Resolvers : queries[c] \subseteq allowed[c]

(* "resolvers that verify the peer see the requested nameserver" (README):  *)
(* as long as the hooks and the rules stay as they were when the socket was *)
(* opened, connected or not.  A resolver that asks the upstream of the      *)
(* rules directly is left out: recvmsg4 cannot tell whose answer it is, and *)
(* reports the nameserver to it as well.                                    *)
SeesNameserver ==
    \A c \in Resolvers : undisturbed[c] /\ Asks[c] # rules.actual =>
        reported[c] \in {None, Asks[c]}

(* "Every DNS query that nameserver-aware apps send to e.g. 127.0.8.6:53 is *)
(* transparently redirected to the configured upstream": once the hooks and *)
(* the rules are settled, a resolver that is configured with the nameserver *)
(* of the rules is answered again and again, whatever its earlier sockets   *)
(* went through while hooks were missing or rules were being replaced.      *)
Settled(c) ==
    /\ On = Hooks /\ pending = {}
    /\ rules.requested = Asks[c] /\ rules.actual \in Servers

LookupsAnswered ==
    \A c \in Resolvers : <>[]Settled(c) => []<>(phase[c] = "answered")
=============================================================================
