---------------------------- MODULE DnsHooks_proofs ----------------------------
(***************************************************************************)
(* Theorems about DnsHooks, for any resolvers, servers and rules.          *)
(***************************************************************************)
EXTENDS DnsHooks, TLAPS

USE DEF DNS_QUERY, DNS_ANSWER, MAXNS, Hooks

Dirs == {DNS_QUERY, DNS_ANSWER}

LEMMA RuleType ==
    \A v \in RuleSets \cup {Blank} :
        v \in [Dirs -> Ips \X Ports] /\ v # None
  BY RulesAssumption, NoneAssumption DEF IsRule, IsAddress, Dirs

-----------------------------------------------------------------------------
(* A slot that matches comes before the later ones.                         *)
LEMMA MatchFirst ==
    ASSUME NEW a, NEW dir, cfg_map[0][dir] = a
    PROVE  match_rule(a, dir) = cfg_map[0]
<1> DEFINE matching == {i \in 0..2 : cfg_map[i][dir] = a}
<1>1. 0 \in matching /\ \A j \in matching : 0 <= j
  OBVIOUS
<1>2. \A i \in matching : (\A j \in matching : i <= j) => i = 0
  BY <1>1
<1>3. (CHOOSE i \in matching : \A j \in matching : i <= j) = 0
  BY <1>1, <1>2
<1> QED
  BY <1>1, <1>3 DEF match_rule

(* Without a match in slot 0 only a blank slot can match.                   *)
LEMMA MatchLater ==
    ASSUME NEW a, NEW dir, cfg_map[0][dir] # a, cfg_map[1] = Blank, cfg_map[2] = Blank
    PROVE  match_rule(a, dir) = IF Blank[dir] = a THEN Blank ELSE None
<1> DEFINE matching == {i \in 0..2 : cfg_map[i][dir] = a}
<1>1. matching \subseteq {1, 2}
  OBVIOUS
<1>2. CASE Blank[dir] = a
  <2>1. 1 \in matching /\ \A j \in matching : 1 <= j
    BY <1>1, <1>2
  <2>2. (CHOOSE i \in matching : \A j \in matching : i <= j) \in {1, 2}
    BY <1>1, <2>1
  <2> QED
    BY <1>2, <2>1, <2>2 DEF match_rule
<1>3. CASE Blank[dir] # a
  <2>1. matching = {}
    BY <1>1, <1>3
  <2> QED
    BY <1>3, <2>1 DEF match_rule
<1> QED
  BY <1>2, <1>3

(* The slots that no rule was written to stay blank, and the fields already *)
(* copied into slot 0 are those of the rules.                               *)
Slots ==
    /\ cfg_map[1] = Blank /\ cfg_map[2] = Blank
    /\ \A f \in Fields \ pending : rules # None => cfg_map[0][f[1]][f[2]] = rules[f[1]][f[2]]

(* There are rules wherever a hook is in effect or rules are being copied,  *)
(* and once they were written.                                              *)
Ruled ==
    /\ On # {} \/ pending # {} => rules # None
    /\ rules # None <=> writes > 0

TInv == TypeOK /\ Slots /\ Ruled

(* A slot with all fields of a rule is that rule.                           *)
LEMMA Complete ==
    ASSUME NEW slot \in [Dirs -> Ips \X Ports], NEW v \in RuleSets,
           \A f \in Fields : slot[f[1]][f[2]] = v[f[1]][f[2]]
    PROVE  slot = v
<1>1. v \in [Dirs -> Ips \X Ports]
  BY RuleType
<1>2. ASSUME NEW dir \in Dirs PROVE slot[dir] = v[dir]
  <2>1. slot[dir] \in Ips \X Ports /\ v[dir] \in Ips \X Ports
    BY <1>1
  <2>2. <<dir, 1>> \in Fields /\ <<dir, 2>> \in Fields
    BY DEF Fields, Dirs
  <2>3. slot[dir][1] = v[dir][1] /\ slot[dir][2] = v[dir][2]
    BY <2>2
  <2> QED
    BY <2>1, <2>3
<1> QED
  BY <1>1, <1>2

(* What the programs make of an address is an address.                      *)
LEMMA RewriteType ==
    ASSUME TypeOK, Slots, NEW h, NEW a \in Ips \X Ports, NEW from \in Dirs, NEW to \in Dirs
    PROVE  Rewrite(h, a, from, to) \in Ips \X Ports
<1>1. cfg_map[0] \in [Dirs -> Ips \X Ports] /\ Blank \in [Dirs -> Ips \X Ports]
  BY RuleType DEF TypeOK, Dirs
<1>2. match_rule(a, from) \in {cfg_map[0], Blank, None}
  BY MatchFirst, MatchLater DEF Slots
<1> QED
  BY <1>1, <1>2 DEF Rewrite

LEMMA TInvInit == Init => TInv
  BY RuleType, MaxWritesAssumption
  DEF Init, TInv, TypeOK, Slots, Ruled, On, Dirs, Control!Init, Control!Consulted

(* The hooks in effect follow the control plane.                            *)
LEMMA OnStep ==
    /\ \A v : Control!SetRules(v) => On' = On /\ serving' = Control!Consulted(On', rules')
    /\ \A h \in Hooks : Control!TakeEffect(h) =>
          On' = On \cup {h} /\ rules # None /\ serving' = Control!Consulted(On', rules')
    /\ \A h \in Hooks : Control!LoseEffect(h) =>
          On' = On \ {h} /\ serving' = Control!Consulted(On', rules')
<1>1. Control!On = On
  BY DEF Control!On, On
<1>2. ASSUME NEW on \in SUBSET Hooks, NEW v, serving' = Control!Consulted(on, v)
      PROVE  On' = on
  <2>1. \A h \in Hooks : serving'[h] = IF h \in on THEN {v} ELSE {}
    BY <1>2 DEF Control!Consulted
  <2>2. {v} # {}
    OBVIOUS
  <2> QED
    BY <2>1, <2>2 DEF On
<1>3. On \subseteq Hooks
  BY DEF On
<1>4. ASSUME NEW v, Control!SetRules(v)
      PROVE  On' = On /\ serving' = Control!Consulted(On', rules')
  BY <1>1, <1>2, <1>3, <1>4 DEF Control!SetRules
<1>5. ASSUME NEW h \in Hooks, Control!TakeEffect(h)
      PROVE  On' = On \cup {h} /\ rules # None /\ serving' = Control!Consulted(On', rules')
  <2>1. On \cup {h} \in SUBSET Hooks /\ serving' = Control!Consulted(On \cup {h}, rules)
    BY <1>1, <1>3, <1>5 DEF Control!TakeEffect
  <2> QED
    BY <1>2, <1>5, <2>1 DEF Control!TakeEffect
<1>6. ASSUME NEW h \in Hooks, Control!LoseEffect(h)
      PROVE  On' = On \ {h} /\ serving' = Control!Consulted(On', rules')
  <2>1. On \ {h} \in SUBSET Hooks /\ serving' = Control!Consulted(On \ {h}, rules)
    BY <1>1, <1>3, <1>6 DEF Control!LoseEffect
  <2> QED
    BY <1>2, <1>6, <2>1 DEF Control!LoseEffect
<1> QED
  BY <1>4, <1>5, <1>6

LEMMA TInvStep == TInv /\ [Next]_vars => TInv'
<1> SUFFICES ASSUME TInv, [Next]_vars PROVE TInv'
  OBVIOUS
<1> USE AsksAssumption DEF TInv
<1>1. ASSUME NEW v \in RuleSets, SetRules(v) PROVE TInv'
  <2> USE <1>1 DEF SetRules
  <2>1. On' = On /\ serving' = Control!Consulted(On', rules') /\ rules' = v
    BY OnStep DEF Control!SetRules
  <2>2. pending' = Fields /\ Fields # {}
    <3>1. <<DNS_QUERY, 1>> \in Fields
      BY DEF Fields
    <3> QED
      BY <3>1
  <2>3. TypeOK'
    BY <2>1, <2>2, MaxWritesAssumption DEF TypeOK
  <2>4. writes' > 0
    BY MaxWritesAssumption DEF TypeOK
  <2> QED
    BY <2>1, <2>3, <2>4, RuleType DEF Slots, Ruled
<1>2. ASSUME NEW f \in Fields, CopyField(f) PROVE TInv'
  <2> USE <1>2 DEF CopyField
  <2>1. rules \in RuleSets /\ rules \in [Dirs -> Ips \X Ports]
    BY RuleType DEF Ruled, TypeOK
  <2>2. f[1] \in Dirs /\ f[2] \in {1, 2} /\ f = <<f[1], f[2]>>
    BY DEF Fields, Dirs
  <2>3. cfg_map' = [cfg_map EXCEPT ![0][f[1]][f[2]] = rules[f[1]][f[2]]]
    OBVIOUS
  <2>4. cfg_map' \in [0..2 -> [Dirs -> Ips \X Ports]]
    <3>1. PICK A : A = Ips \X Ports
      OBVIOUS
    <3>2. cfg_map \in [0..2 -> [Dirs -> A]]
      BY <3>1 DEF TypeOK, Dirs
    <3>3. [cfg_map[0][f[1]] EXCEPT ![f[2]] = rules[f[1]][f[2]]] \in A
      <4>1. PICK old \in Ips \X Ports, new \in Ips \X Ports :
                old = cfg_map[0][f[1]] /\ new = rules[f[1]]
        BY <2>1, <2>2, <3>1, <3>2
      <4>2. [old EXCEPT ![f[2]] = new[f[2]]] \in Ips \X Ports
        BY <2>2
      <4> QED
        BY <3>1, <4>1, <4>2
    <3>4. PICK b \in A : b = [cfg_map[0][f[1]] EXCEPT ![f[2]] = rules[f[1]][f[2]]]
      BY <3>3
    <3>5. cfg_map' = [cfg_map EXCEPT ![0][f[1]] = b]
      BY <2>3, <3>4
    <3>6. cfg_map' \in [0..2 -> [Dirs -> A]]
      BY <2>2, <3>2, <3>5
    <3> QED
      BY <3>1, <3>6
  <2>5. Slots'
    BY <2>1, <2>2, <2>3 DEF TypeOK, Slots, Fields, Dirs
  <2>6. pending' = {} => cfg_map'[0] = rules
    <3>1. cfg_map'[0] \in [Dirs -> Ips \X Ports] /\ rules' = rules /\ rules # None
      BY <2>1, <2>4, RuleType
    <3>2. pending' = {} => \A f1 \in Fields : cfg_map'[0][f1[1]][f1[2]] = rules[f1[1]][f1[2]]
      BY <2>5, <3>1 DEF Slots
    <3> QED
      BY <2>1, <3>1, <3>2, Complete
  <2>7. On' = On
    BY DEF On
  <2> QED
    BY <2>1, <2>4, <2>5, <2>6, <2>7 DEF TypeOK, Ruled, Dirs
<1>3. ASSUME NEW h \in Hooks, AttachHook(h) PROVE TInv'
  <2>1. rules' = rules
    BY <1>3 DEF AttachHook, Control!TakeEffect
  <2> QED
    BY <1>3, <2>1, OnStep DEF AttachHook, TypeOK, Slots, Ruled
<1>4. ASSUME NEW h \in Hooks, DetachHook(h) PROVE TInv'
  <2>1. rules' = rules
    BY <1>4 DEF DetachHook, Control!LoseEffect
  <2> QED
    BY <1>4, <2>1, OnStep DEF DetachHook, TypeOK, Slots, Ruled
<1>5. UNCHANGED control => On' = On /\ Slots' /\ Ruled'
  BY DEF control, On, TInv, Slots, Ruled
<1>6. ASSUME NEW c \in Resolvers, Connect(c) \/ Bind(c) PROVE TInv'
  <2>1. redirect_query("connect4", Asks[c]) \in Ips \X Ports
    BY RewriteType DEF redirect_query, Dirs
  <2>2. CASE Connect(c)
    BY <1>5, <2>1, <2>2 DEF Connect, Open, TypeOK, control
  <2>3. CASE Bind(c)
    BY <1>5, <2>3 DEF Bind, Open, TypeOK, control
  <2> QED
    BY <1>6, <2>2, <2>3
<1>7. ASSUME NEW c \in Resolvers, Send(c) PROVE TInv'
  <2>1. redirect_query("sendmsg4", Asks[c]) \in Ips \X Ports
    BY RewriteType DEF redirect_query, Dirs
  <2>2. queries' \in [Resolvers -> SUBSET (Ips \X Ports)]
    <3>1. PICK A : A = Ips \X Ports
      OBVIOUS
    <3>2. queries \in [Resolvers -> SUBSET A] /\ peer[c] \in A \cup {None}
      BY <3>1 DEF TypeOK
    <3>3. PICK q : q \in A /\ queries' = [queries EXCEPT ![c] = @ \cup {q}]
      <4>1. CASE Connected(c)
        BY <1>7, <3>2, <4>1 DEF Send, Connected
      <4>2. CASE ~Connected(c)
        BY <1>7, <2>1, <3>1, <4>2 DEF Send
      <4> QED
        BY <4>1, <4>2
    <3>4. queries[c] \cup {q} \in SUBSET A
      BY <3>2, <3>3
    <3>5. queries' \in [Resolvers -> SUBSET A]
      BY <3>2, <3>3, <3>4
    <3> QED
      BY <3>1, <3>5
  <2> QED
    BY <1>5, <1>7, <2>2 DEF Send, TypeOK, control
<1>8. ASSUME NEW c \in Resolvers, Answer(c) PROVE TInv'
  BY <1>5, <1>8 DEF Answer, TypeOK, control
<1>9. ASSUME NEW c \in Resolvers, Receive(c) PROVE TInv'
  <2>1. PICK s \in answers[c] : reported' = [reported EXCEPT ![c] = rewrite_dns_answer_recvmsg(s)]
    BY <1>9 DEF Receive
  <2>2. s \in Ips \X Ports
    BY <2>1, ServersAssumption DEF TypeOK, IsAddress
  <2>3. rewrite_dns_answer_recvmsg(s) \in Ips \X Ports
    BY <2>2, RewriteType DEF rewrite_dns_answer_recvmsg, Dirs
  <2>4. reported' \in [Resolvers -> (Ips \X Ports) \cup {None}]
    BY <2>1, <2>3 DEF TypeOK
  <2>5. phase' \in [Resolvers -> {"closed", "open", "waiting", "answered"}]
    BY <1>9 DEF Receive, TypeOK
  <2> QED
    BY <1>5, <1>9, <2>4, <2>5 DEF Receive, TypeOK, control
<1>10. ASSUME NEW c \in Resolvers, Resend(c) PROVE TInv'
  BY <1>5, <1>10 DEF Resend, TypeOK, control
<1>11. ASSUME NEW c \in Resolvers, GiveUp(c) PROVE TInv'
  BY <1>5, <1>11 DEF GiveUp, TypeOK, control
<1>12. CASE UNCHANGED vars
  BY <1>5, <1>12 DEF vars, TypeOK, control
<1> QED
  BY <1>1, <1>2, <1>3, <1>4, <1>6, <1>7, <1>8, <1>9, <1>10, <1>11, <1>12 DEF Next

(* The types of the traffic, and a table that holds what was written.       *)
THEOREM HooksTypeCorrect == Spec => []TypeOK
<1>1. TInv => TypeOK
  BY DEF TInv
<1> QED
  BY <1>1, TInvInit, TInvStep, PTL DEF Spec

-----------------------------------------------------------------------------
(* All hooks are on and the table holds the rules of the last write.        *)
Calm == On = Hooks /\ pending = {}

(* Then a program turns the rules' address into the other one and leaves    *)
(* every other address alone.                                               *)
LEMMA CalmRewrite ==
    ASSUME TInv, Calm, NEW h \in Hooks, NEW a,
           NEW from \in Dirs, NEW to \in Dirs
    PROVE  /\ rules \in RuleSets
           /\ Rewrite(h, a, from, to) = IF rules[from] = a THEN rules[to] ELSE a
<1>1. rules \in RuleSets /\ rules # None /\ cfg_map[0] = rules
  BY DEF TInv, TypeOK, Ruled, Calm
<1>2. Blank # None /\ Blank[to] = Blank[from]
  BY NoneAssumption, BlankAssumption DEF Dirs
<1>3. h \in On
  BY DEF Calm
<1>4. CASE rules[from] = a
  <2>1. match_rule(a, from) = rules
    BY <1>1, <1>4, MatchFirst
  <2> QED
    BY <1>1, <1>3, <1>4, <2>1 DEF Rewrite
<1>5. CASE rules[from] # a
  <2>1. match_rule(a, from) = IF Blank[from] = a THEN Blank ELSE None
    BY <1>1, <1>5, MatchLater DEF TInv, Slots
  <2> QED
    BY <1>1, <1>2, <1>5, <2>1 DEF Rewrite
<1> QED
  BY <1>4, <1>5

(* What an undisturbed socket has: the peer and the traffic the rules       *)
(* prescribe, and no other source than the nameserver.                      *)
Prescribed(c) ==
    /\ Calm
    /\ peer[c] \in {None, Target(rules, Asks[c])}
    /\ queries[c] \subseteq {Target(rules, Asks[c])}
    /\ answers[c] \subseteq {Target(rules, Asks[c])}
    /\ Asks[c] # rules.actual => reported[c] \in {None, Asks[c]}

QInv == \A c \in Resolvers : undisturbed[c] => Prescribed(c)

LEMMA CalmTarget ==
    ASSUME TInv, Calm, NEW c \in Resolvers, NEW h \in Hooks
    PROVE  redirect_query(h, Asks[c]) = Target(rules, Asks[c])
<1>1. rules # None
  BY DEF TInv, Ruled, Calm
<1> QED
  BY <1>1, CalmRewrite DEF redirect_query, Target, Dirs

LEMMA CalmSource ==
    ASSUME TInv, Calm, NEW c \in Resolvers, Asks[c] # rules.actual
    PROVE  rewrite_dns_answer_recvmsg(Target(rules, Asks[c])) = Asks[c]
<1>1. rules # None
  BY DEF TInv, Ruled, Calm
<1> QED
  BY <1>1, CalmRewrite DEF rewrite_dns_answer_recvmsg, Target, Dirs

LEMMA QInvStep == TInv /\ QInv /\ [Next]_vars => QInv'
<1> SUFFICES ASSUME TInv, QInv, [Next]_vars, NEW c \in Resolvers, undisturbed'[c]
             PROVE  Prescribed(c)'
  BY DEF QInv
<1> DEFINE same(d) == /\ peer'[d] = peer[d] /\ queries'[d] = queries[d]
                      /\ answers'[d] = answers[d] /\ reported'[d] = reported[d]
                      /\ undisturbed'[d] = undisturbed[d]
<1>1. undisturbed[c] => Prescribed(c)
  BY DEF QInv
<1>2. UNCHANGED control => Calm' = Calm /\ rules' = rules
  BY DEF control, Calm, On
<1>3. UNCHANGED control /\ same(c) => Prescribed(c)'
  BY <1>1, <1>2 DEF Prescribed, Target
<1>4. ASSUME NEW v \in RuleSets, SetRules(v) PROVE FALSE
  BY <1>4 DEF SetRules
<1>5. ASSUME NEW h \in Hooks, DetachHook(h) PROVE FALSE
  BY <1>5 DEF DetachHook
<1>6. ASSUME NEW f \in Fields, CopyField(f) PROVE FALSE
  BY <1>1, <1>6 DEF CopyField, Prescribed, Calm
<1>7. ASSUME NEW h \in Hooks, AttachHook(h) PROVE FALSE
  BY <1>1, <1>7 DEF AttachHook, Prescribed, Calm
<1>8. ASSUME NEW d \in Resolvers, Connect(d) PROVE Prescribed(c)'
  <2>1. CASE d = c
    <3>1. /\ UNCHANGED control /\ Calm /\ queries'[c] = {} /\ answers'[c] = {}
          /\ reported'[c] = None
      BY <1>8, <2>1 DEF Connect, Open, TInv, TypeOK, Calm
    <3>2. peer'[c] = redirect_query("connect4", Asks[c])
      BY <1>8, <2>1 DEF Connect, TInv, TypeOK
    <3>3. peer'[c] = Target(rules, Asks[c])
      BY <3>1, <3>2, CalmTarget
    <3> QED
      BY <1>2, <3>1, <3>3 DEF Prescribed, Target
  <2>2. CASE d # c
    BY <1>3, <1>8, <2>2 DEF Connect, Open, TInv, TypeOK
  <2> QED
    BY <2>1, <2>2
<1>9. ASSUME NEW d \in Resolvers, Bind(d) PROVE Prescribed(c)'
  <2>1. CASE d = c
    <3>1. /\ UNCHANGED control /\ Calm /\ queries'[c] = {} /\ answers'[c] = {}
          /\ reported'[c] = None /\ peer'[c] = None
      BY <1>9, <2>1 DEF Bind, Open, TInv, TypeOK, Calm
    <3> QED
      BY <1>2, <3>1 DEF Prescribed
  <2>2. CASE d # c
    BY <1>3, <1>9, <2>2 DEF Bind, Open, TInv, TypeOK
  <2> QED
    BY <2>1, <2>2
<1>10. ASSUME NEW d \in Resolvers, Send(d) PROVE Prescribed(c)'
  <2>1. CASE d = c
    <3>1. Prescribed(c)
      BY <1>1, <1>10 DEF Send
    <3>2. redirect_query("sendmsg4", Asks[c]) = Target(rules, Asks[c])
      BY <3>1, CalmTarget DEF Prescribed
    <3>3. queries'[c] \subseteq {Target(rules, Asks[c])}
      <4>1. CASE Connected(c)
        <5>1. queries'[c] = queries[c] \cup {peer[c]}
          BY <1>10, <2>1, <4>1 DEF Send, TInv, TypeOK
        <5> QED
          BY <3>1, <4>1, <5>1 DEF Prescribed, Connected
      <4>2. CASE ~Connected(c)
        <5>1. queries'[c] = queries[c] \cup {redirect_query("sendmsg4", Asks[c])}
          BY <1>10, <2>1, <4>2 DEF Send, TInv, TypeOK
        <5> QED
          BY <3>1, <3>2, <5>1 DEF Prescribed
      <4> QED
        BY <4>1, <4>2
    <3>4. UNCHANGED <<control, peer, answers, reported>>
      BY <1>10 DEF Send
    <3> QED
      BY <1>2, <3>1, <3>3, <3>4 DEF Prescribed, Target
  <2>2. CASE d # c
    <3>1. UNCHANGED <<control, peer, answers, reported, undisturbed>>
      BY <1>10 DEF Send
    <3>2. queries'[c] = queries[c]
      BY <1>10, <2>2 DEF Send, TInv, TypeOK
    <3> QED
      BY <1>3, <3>1, <3>2
  <2> QED
    BY <2>1, <2>2
<1>11. ASSUME NEW d \in Resolvers, Answer(d) PROVE Prescribed(c)'
  <2>1. PICK s \in queries[d] \cap Servers : answers' = [answers EXCEPT ![d] = @ \cup {s}]
    BY <1>11 DEF Answer
  <2>2. UNCHANGED <<control, peer, queries, reported, undisturbed>>
    BY <1>11 DEF Answer
  <2>3. answers'[c] = IF d = c THEN answers[c] \cup {s} ELSE answers[c]
    BY <2>1 DEF TInv, TypeOK
  <2> QED
    BY <1>1, <1>2, <2>1, <2>2, <2>3 DEF Prescribed, Target
<1>12. ASSUME NEW d \in Resolvers, Receive(d) PROVE Prescribed(c)'
  <2>1. PICK s \in answers[d] :
            reported' = [reported EXCEPT ![d] = rewrite_dns_answer_recvmsg(s)]
    BY <1>12 DEF Receive
  <2>2. UNCHANGED <<control, peer, queries, answers, undisturbed>>
    BY <1>12 DEF Receive
  <2>3. CASE d = c
    <3>1. Prescribed(c) /\ s = Target(rules, Asks[c])
      BY <1>1, <2>1, <2>2, <2>3 DEF Prescribed
    <3>2. reported'[c] = rewrite_dns_answer_recvmsg(s)
      BY <2>1, <2>3 DEF TInv, TypeOK
    <3>3. Asks[c] # rules.actual => reported'[c] = Asks[c]
      BY <3>1, <3>2, CalmSource DEF Prescribed
    <3> QED
      BY <1>2, <2>2, <3>1, <3>3 DEF Prescribed, Target
  <2>4. CASE d # c
    BY <1>3, <2>1, <2>2, <2>4 DEF TInv, TypeOK
  <2> QED
    BY <2>3, <2>4
<1>13. ASSUME NEW d \in Resolvers, Resend(d) PROVE Prescribed(c)'
  BY <1>3, <1>13 DEF Resend
<1>14. ASSUME NEW d \in Resolvers, GiveUp(d) PROVE Prescribed(c)'
  <2>1. CASE d = c
    <3>1. /\ UNCHANGED control /\ queries'[c] = {} /\ answers'[c] = {}
          /\ reported'[c] = None /\ peer'[c] = None /\ undisturbed'[c] = undisturbed[c]
      BY <1>14, <2>1 DEF GiveUp, TInv, TypeOK
    <3> QED
      BY <1>1, <1>2, <3>1 DEF Prescribed
  <2>2. CASE d # c
    BY <1>3, <1>14, <2>2 DEF GiveUp, TInv, TypeOK
  <2> QED
    BY <2>1, <2>2
<1>15. CASE UNCHANGED vars
  BY <1>3, <1>15 DEF vars
<1> QED
  BY <1>4, <1>5, <1>6, <1>7, <1>8, <1>9, <1>10, <1>11, <1>12, <1>13, <1>14, <1>15 DEF Next

(* As long as the hooks and the rules stay as they were when a socket was   *)
(* opened, its resolver is told that the nameserver it asked answered.      *)
THEOREM NameserverSeen == Spec => []SeesNameserver
<1>1. Init => QInv
  BY DEF Init, QInv
<1>2. QInv => SeesNameserver
  BY DEF QInv, Prescribed, SeesNameserver
<1> QED
  BY <1>1, <1>2, TInvInit, TInvStep, QInvStep, PTL DEF Spec

-----------------------------------------------------------------------------
(* Any two rules of the runs differ in one field at most: half an address.  *)
DifferInOneField ==
    \A v, w \in RuleSets : \A f, g \in Fields :
        v[f[1]][f[2]] # w[f[1]][f[2]] /\ v[g[1]][g[2]] # w[g[1]][g[2]] => f = g

(* Then a half-copied rule is the old one or the new one.                   *)
InTable ==
    /\ rules # None => rules \in visible
    /\ writes > 1 => cfg_map[0] \in visible
    /\ On # {} /\ pending # {} => writes > 1

(* What a socket's resolver may be told by the table from now on, and what  *)
(* it was told, is allowed.                                                 *)
Covered(c) ==
    /\ queries[c] \subseteq allowed[c]
    /\ peer[c] \in {None} \cup allowed[c]
    /\ phase[c] # "closed" =>
         /\ \A v \in visible : Target(v, Asks[c]) \in allowed[c]
         /\ On # Hooks => Asks[c] \in allowed[c]

AInv == allowed \in [Resolvers -> SUBSET (Ips \X Ports)] /\ InTable /\ \A c \in Resolvers : Covered(c)

LEMMA TargetType ==
    \A v \in RuleSets, c \in Resolvers : Target(v, Asks[c]) \in Ips \X Ports
<1> TAKE v \in RuleSets, c \in Resolvers
<1>1. v.requested \in Ips \X Ports /\ v.actual \in Ips \X Ports
  BY RulesAssumption DEF IsRule, IsAddress
<1> QED
  BY <1>1, AsksAssumption DEF Target

(* One field more of one rule in a slot with another rule makes it the one  *)
(* or the other.                                                            *)
LEMMA HalfCopied ==
    ASSUME DifferInOneField, NEW v \in RuleSets, NEW w \in RuleSets, NEW f \in Fields,
           NEW slot, slot = [v EXCEPT ![f[1]][f[2]] = w[f[1]][f[2]]]
    PROVE  slot \in {v, w}
<1>1. f[1] \in Dirs /\ f[2] \in {1, 2} /\ f = <<f[1], f[2]>>
  BY DEF Fields, Dirs
<1>2. v \in [Dirs -> Ips \X Ports] /\ w \in [Dirs -> Ips \X Ports]
  BY RuleType
<1>3. slot \in [Dirs -> Ips \X Ports]
  BY <1>1, <1>2
<1>4. /\ slot[f[1]][f[2]] = w[f[1]][f[2]]
      /\ \A g \in Fields : g # f => slot[g[1]][g[2]] = v[g[1]][g[2]]
  BY <1>1, <1>2 DEF Fields, Dirs
<1>5. CASE v[f[1]][f[2]] = w[f[1]][f[2]]
  <2>1. \A g \in Fields : slot[g[1]][g[2]] = v[g[1]][g[2]]
    BY <1>4, <1>5
  <2> QED
    BY <1>3, <2>1, Complete
<1>6. CASE v[f[1]][f[2]] # w[f[1]][f[2]]
  <2>1. \A g \in Fields : g # f => v[g[1]][g[2]] = w[g[1]][g[2]]
    BY <1>6 DEF DifferInOneField
  <2>2. \A g \in Fields : slot[g[1]][g[2]] = w[g[1]][g[2]]
    BY <1>4, <2>1
  <2> QED
    BY <1>3, <2>2, Complete
<1> QED
  BY <1>5, <1>6

LEMMA SlotInTable == ASSUME TInv, InTable, On # {} PROVE cfg_map[0] \in visible
  BY DEF TInv, TypeOK, Ruled, InTable

(* What the programs make of a nameserver's address is where some rule in   *)
(* the table sends it, or, with the hook missing, that address.             *)
LEMMA RedirectInTable ==
    ASSUME TInv, InTable, NEW h \in Hooks, NEW c \in Resolvers
    PROVE  \/ h \notin On /\ On # Hooks /\ redirect_query(h, Asks[c]) = Asks[c]
           \/ \E v \in visible : redirect_query(h, Asks[c]) = Target(v, Asks[c])
<1>1. CASE h \notin On
  BY <1>1 DEF redirect_query, Rewrite
<1>2. CASE h \in On
  <2>1. PICK v \in visible : v = cfg_map[0]
    BY <1>2, SlotInTable
  <2>2. v \in RuleSets /\ v # None
    BY <2>1, RuleType DEF TInv, TypeOK
  <2>3. Blank # None /\ Blank[DNS_ANSWER] = Blank[DNS_QUERY]
    BY NoneAssumption, BlankAssumption
  <2>4. CASE v[DNS_QUERY] = Asks[c]
    <3>1. match_rule(Asks[c], DNS_QUERY) = v
      BY <2>1, <2>4, MatchFirst
    <3> QED
      BY <1>2, <2>2, <2>4, <3>1 DEF redirect_query, Rewrite, Target
  <2>5. CASE v[DNS_QUERY] # Asks[c]
    <3>1. match_rule(Asks[c], DNS_QUERY) = IF Blank[DNS_QUERY] = Asks[c] THEN Blank ELSE None
      BY <2>1, <2>5, MatchLater DEF TInv, Slots
    <3> QED
      BY <1>2, <2>2, <2>3, <2>5, <3>1 DEF redirect_query, Rewrite, Target
  <2> QED
    BY <2>4, <2>5
<1> QED
  BY <1>1, <1>2

LEMMA AInvInit == Init => AInv
  BY DEF Init, AInv, InTable, Covered, Control!Init, Control!Consulted, On

(* The table keeps a rule of some run while hooks are on.                   *)
LEMMA InTableStep ==
    ASSUME DifferInOneField, TInv, InTable, [Next]_vars
    PROVE  InTable'
<1>1. UNCHANGED control => InTable'
  BY DEF control, InTable, On
<1>2. ASSUME NEW v \in RuleSets, SetRules(v) PROVE InTable'
  <2>1. /\ On' = On /\ rules' = v /\ cfg_map' = cfg_map /\ visible' = visible \cup {v}
        /\ pending = {} /\ writes \in Nat /\ writes' = writes + 1
    BY <1>2, OnStep, MaxWritesAssumption DEF SetRules, Control!SetRules, TInv, TypeOK
  <2>2. On # {} \/ writes > 0 => rules # None /\ writes > 0 /\ cfg_map[0] \in visible
    BY <2>1 DEF TInv, TypeOK, Ruled, InTable
  <2> QED
    BY <2>1, <2>2 DEF InTable
<1>3. ASSUME NEW f \in Fields, CopyField(f) PROVE InTable'
  <2>1. /\ f \in pending /\ pending' = pending \ {f}
        /\ cfg_map' = [cfg_map EXCEPT ![0][f[1]][f[2]] = rules[f[1]][f[2]]]
        /\ visible' = IF pending = {f} THEN {rules} ELSE visible
        /\ rules' = rules /\ On' = On /\ writes' = writes
    BY <1>3 DEF CopyField, On
  <2>2. rules \in visible /\ rules \in RuleSets
    BY <2>1 DEF TInv, TypeOK, Ruled, InTable
  <2>3. CASE pending = {f}
    <3>1. pending' = {}
      BY <2>1, <2>3
    <3>2. TInv'
      BY TInvStep
    <3>3. cfg_map'[0] = rules
      BY <2>1, <2>2, <3>1, <3>2, NoneAssumption DEF TInv, TypeOK
    <3> QED
      BY <2>1, <2>3, <3>3 DEF InTable
  <2>4. CASE pending # {f}
    <3> SUFFICES ASSUME writes > 1 PROVE cfg_map'[0] \in visible
      BY <2>1, <2>2, <2>4 DEF InTable
    <3>1. PICK v \in visible : v = cfg_map[0]
      BY DEF InTable
    <3>2. v \in RuleSets
      BY <3>1 DEF TInv, TypeOK
    <3>3. cfg_map'[0] = [v EXCEPT ![f[1]][f[2]] = rules[f[1]][f[2]]]
      BY <2>1, <3>1 DEF TInv, TypeOK
    <3>4. cfg_map'[0] \in {v, rules}
      BY <2>2, <3>2, <3>3, HalfCopied
    <3> QED
      BY <2>2, <3>1, <3>4
  <2> QED
    BY <2>3, <2>4
<1>4. ASSUME NEW h \in Hooks, AttachHook(h) PROVE InTable'
  <2>1. /\ pending = {} \/ writes > 1
        /\ UNCHANGED <<rules, cfg_map, pending, writes, visible>>
    BY <1>4 DEF AttachHook, Control!TakeEffect
  <2> QED
    BY <2>1 DEF InTable
<1>5. ASSUME NEW h \in Hooks, DetachHook(h) PROVE InTable'
  <2>1. On' = On \ {h} /\ UNCHANGED <<rules, cfg_map, pending, writes, visible>>
    BY <1>5, OnStep DEF DetachHook, Control!LoseEffect
  <2> QED
    BY <2>1 DEF InTable
<1>6. ASSUME NEW c \in Resolvers, Connect(c) \/ Bind(c) \/ Send(c) \/ Answer(c) \/ Receive(c)
                                       \/ Resend(c) \/ GiveUp(c)
      PROVE  UNCHANGED control
  BY <1>6 DEF Connect, Bind, Open, Send, Answer, Receive, Resend, GiveUp
<1>7. CASE UNCHANGED vars
  BY <1>1, <1>7 DEF vars
<1> QED
  BY <1>1, <1>2, <1>3, <1>4, <1>5, <1>6, <1>7 DEF Next

LEMMA AInvStep ==
    ASSUME DifferInOneField, TInv, AInv, [Next]_vars
    PROVE  AInv'
<1> DEFINE Sent == allowed \in [Resolvers -> SUBSET (Ips \X Ports)] /\ \A c \in Resolvers : Covered(c)
<1>1. InTable /\ InTable'
  BY InTableStep DEF AInv
<1> SUFFICES Sent'
  BY <1>1 DEF AInv
<1>2. /\ allowed \in [Resolvers -> SUBSET (Ips \X Ports)]
      /\ queries \in [Resolvers -> SUBSET (Ips \X Ports)]
      /\ phase \in [Resolvers -> {"closed", "open", "waiting", "answered"}]
      /\ peer \in [Resolvers -> (Ips \X Ports) \cup {None}]
      /\ visible \subseteq RuleSets
  BY DEF AInv, TInv, TypeOK
<1>3. \A c \in Resolvers : Covered(c) /\ Asks[c] \in Ips \X Ports
  BY AsksAssumption DEF AInv
<1>4. ASSUME NEW v \in RuleSets, SetRules(v) PROVE Sent'
  <2>1. /\ On' = On /\ visible' = visible \cup {v} /\ UNCHANGED <<phase, peer, queries>>
        /\ allowed' = [c \in Resolvers |-> allowed[c] \cup {Target(v, Asks[c])}]
    BY <1>4, OnStep DEF SetRules
  <2>2. allowed' \in [Resolvers -> SUBSET (Ips \X Ports)]
    BY <1>2, <2>1, TargetType
  <2> QED
    BY <1>3, <2>1, <2>2 DEF Covered
<1>5. ASSUME NEW f \in Fields, CopyField(f) PROVE Sent'
  <2>1. /\ On' = On /\ UNCHANGED <<phase, peer, queries, allowed>>
        /\ visible' = visible \/ visible' = {rules}
    BY <1>5 DEF CopyField, On
  <2>2. rules \in visible
    BY <1>1, <1>5 DEF CopyField, InTable, TInv, Ruled
  <2> QED
    BY <1>2, <1>3, <2>1, <2>2 DEF Covered
<1>6. ASSUME NEW h \in Hooks, AttachHook(h) PROVE Sent'
  <2>1. On' = On \cup {h} /\ UNCHANGED <<visible, phase, peer, queries, allowed>>
    BY <1>6, OnStep DEF AttachHook
  <2>2. On \subseteq Hooks
    BY DEF On
  <2>3. On' # Hooks => On # Hooks
    BY <2>1, <2>2
  <2> QED
    BY <1>2, <1>3, <2>1, <2>3 DEF Covered
<1>7. ASSUME NEW h \in Hooks, DetachHook(h) PROVE Sent'
  <2>1. /\ allowed' = [c \in Resolvers |-> allowed[c] \cup {Asks[c]}]
        /\ UNCHANGED <<visible, phase, peer, queries>>
    BY <1>7 DEF DetachHook
  <2> QED
    BY <1>2, <1>3, <2>1 DEF Covered
<1>8. ASSUME NEW d \in Resolvers, Connect(d) \/ Bind(d) PROVE Sent'
  <2> DEFINE opened == {Target(v, Asks[d]) : v \in visible} \cup (IF On = Hooks THEN {} ELSE {Asks[d]})
  <2>1. /\ allowed' = [allowed EXCEPT ![d] = opened]
        /\ queries' = [queries EXCEPT ![d] = {}]
        /\ phase' = [phase EXCEPT ![d] = "open"]
        /\ visible' = visible /\ On' = On
    BY <1>8 DEF Connect, Bind, Open, control, On
  <2>2. opened \in SUBSET (Ips \X Ports)
    BY <1>2, <1>3, TargetType
  <2>3. redirect_query("connect4", Asks[d]) \in opened
    BY <1>1, RedirectInTable
  <2>4. PICK q \in {None} \cup opened : peer' = [peer EXCEPT ![d] = q]
    BY <1>8, <2>3 DEF Connect, Bind
  <2>5. /\ \A v \in visible : Target(v, Asks[d]) \in opened
        /\ On # Hooks => Asks[d] \in opened
    OBVIOUS
  <2> HIDE DEF opened
  <2>6. allowed' \in [Resolvers -> SUBSET (Ips \X Ports)]
    BY <1>2, <2>1, <2>2
  <2>7. Covered(d)'
    BY <1>2, <2>1, <2>4, <2>5 DEF Covered
  <2>8. ASSUME NEW c \in Resolvers, c # d PROVE Covered(c)'
    <3>1. allowed'[c] = allowed[c] /\ queries'[c] = queries[c] /\ phase'[c] = phase[c] /\ peer'[c] = peer[c]
      BY <1>2, <2>1, <2>4, <2>8
    <3> QED
      BY <1>3, <2>1, <3>1 DEF Covered
  <2> QED
    BY <2>6, <2>7, <2>8
<1>9. ASSUME NEW d \in Resolvers, Send(d) PROVE Sent'
  <2>1. /\ phase[d] = "open" /\ phase' = [phase EXCEPT ![d] = "waiting"]
        /\ UNCHANGED <<visible, peer, allowed>> /\ On' = On
    BY <1>9 DEF Send, control, On
  <2>2. PICK q \in allowed[d] : queries' = [queries EXCEPT ![d] = @ \cup {q}]
    <3>1. CASE Connected(d)
      BY <1>3, <1>9, <3>1 DEF Send, Connected, Covered
    <3>2. CASE ~Connected(d)
      <4>1. queries' = [queries EXCEPT ![d] = @ \cup {redirect_query("sendmsg4", Asks[d])}]
        BY <1>9, <3>2 DEF Send
      <4>2. redirect_query("sendmsg4", Asks[d]) \in allowed[d]
        <5>1. /\ \A v \in visible : Target(v, Asks[d]) \in allowed[d]
              /\ On # Hooks => Asks[d] \in allowed[d]
          BY <1>3, <2>1 DEF Covered
        <5> QED
          BY <1>1, <5>1, RedirectInTable
      <4> QED
        BY <4>1, <4>2
    <3> QED
      BY <3>1, <3>2
  <2>3. ASSUME NEW c \in Resolvers PROVE Covered(c)'
    <3>1. /\ queries'[c] = IF c = d THEN queries[c] \cup {q} ELSE queries[c]
          /\ phase'[c] # "closed" => phase[c] # "closed"
      BY <1>2, <2>1, <2>2
    <3> QED
      BY <1>3, <2>1, <2>2, <3>1 DEF Covered
  <2> QED
    BY <1>2, <2>1, <2>3
<1>10. ASSUME NEW d \in Resolvers, Answer(d) \/ Receive(d) \/ Resend(d) PROVE Sent'
  <2>1. UNCHANGED <<visible, peer, queries, allowed>> /\ On' = On
    BY <1>10 DEF Answer, Receive, Resend, control, On
  <2>2. \A c \in Resolvers : phase'[c] # "closed" => phase[c] # "closed"
    BY <1>2, <1>10 DEF Answer, Receive, Resend
  <2> QED
    BY <1>2, <1>3, <2>1, <2>2 DEF Covered
<1>11. ASSUME NEW d \in Resolvers, GiveUp(d) PROVE Sent'
  <2>1. /\ UNCHANGED <<visible, allowed>> /\ On' = On
        /\ phase' = [phase EXCEPT ![d] = "closed"] /\ peer' = [peer EXCEPT ![d] = None]
        /\ queries' = [queries EXCEPT ![d] = {}]
    BY <1>11 DEF GiveUp, control, On
  <2>2. ASSUME NEW c \in Resolvers PROVE Covered(c)'
    <3>1. CASE c = d
      BY <1>2, <2>1, <3>1 DEF Covered
    <3>2. CASE c # d
      <4>1. queries'[c] = queries[c] /\ phase'[c] = phase[c] /\ peer'[c] = peer[c]
        BY <1>2, <2>1, <3>2
      <4> QED
        BY <1>3, <2>1, <4>1 DEF Covered
    <3> QED
      BY <3>1, <3>2
  <2> QED
    BY <1>2, <2>1, <2>2
<1>12. CASE UNCHANGED vars
  BY <1>2, <1>3, <1>12 DEF vars, control, On, Covered
<1> QED
  BY <1>4, <1>5, <1>6, <1>7, <1>8, <1>9, <1>10, <1>11, <1>12 DEF Next

(* Where the rules of any two runs differ in one field at most, as runs for *)
(* the same nameserver and port with another upstream do, a query goes      *)
(* where the rules of one run send it, also while these are replaced and    *)
(* hooks come and go: the hypothesis is the one DnsHooks_torn refutes the   *)
(* theorem without.                                                         *)
THEOREM QueriesAsConfigured == Spec => [](DifferInOneField => SentAsConfigured)
<1> DEFINE Inv == TInv /\ (DifferInOneField => AInv)
<1>1. Init => Inv
  BY TInvInit, AInvInit
<1>2. Inv /\ [Next]_vars => Inv'
  <2>1. DifferInOneField' = DifferInOneField
    BY DEF DifferInOneField
  <2> QED
    BY <2>1, TInvStep, AInvStep
<1>3. Inv => (DifferInOneField => SentAsConfigured)
  BY DEF AInv, Covered, SentAsConfigured
<1> HIDE DEF Inv
<1> QED
  BY <1>1, <1>2, <1>3, PTL DEF Spec
=============================================================================
