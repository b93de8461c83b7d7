------------------------------ MODULE RuleTable ------------------------------
(***************************************************************************)
(* What the loader's runs promise the hooks, together: one rule table      *)
(* ("one shared instance serves every hook section of the object",         *)
(* ebpf/dns_cfg.h on cfg_map), written before anything consults it and     *)
(* never taken away.  Setting the rules changes them for every hook that   *)
(* is in effect in the same step; hooks come and go one at a time.         *)
(***************************************************************************)
CONSTANTS Hooks, Rules, None

VARIABLES
    rules,   \* the rules in the table, None before the first are written
    serving  \* serving[h]: the set of rule tables consulted for hook h

Consulted(on, v) == [h \in Hooks |-> IF h \in on THEN {v} ELSE {}]
On == {h \in Hooks : serving[h] # {}}

Init == rules = None /\ serving = Consulted({}, None)

SetRules(v) ==
    /\ rules' = v
    /\ serving' = Consulted(On, v)

TakeEffect(h) ==
    /\ rules # None
    /\ serving' = Consulted(On \cup {h}, rules)
    /\ UNCHANGED rules

LoseEffect(h) ==
    /\ serving' = Consulted(On \ {h}, rules)
    /\ UNCHANGED rules

Next ==
    \/ \E v \in Rules : SetRules(v)
    \/ \E h \in Hooks : TakeEffect(h) \/ LoseEffect(h)

Spec == Init /\ [][Next]_<<rules, serving>>
=============================================================================
