----------------------------- MODULE MCDnsHooks ------------------------------
(* Small instances of DnsHooks for TLC.                                     *)
EXTENDS DnsHooks

CONSTANTS loopback, one, gw, zero, p53, p5353, p0, c1, c2

Nameserver == <<loopback, p53>>
One == <<one, p53>>
Gateway == <<gw, p53>>

Rule(r, a) == [requested |-> r, actual |-> a]
Unwritten == Rule(<<zero, p0>>, <<zero, p0>>)

(* Another upstream at the same port: the rules differ in one field.        *)
SamePort == {Rule(Nameserver, One), Rule(Nameserver, Gateway)}
(* Another upstream at another port: the rules differ in two.               *)
OtherPort == {Rule(Nameserver, One), Rule(Nameserver, <<gw, p5353>>)}

BothServers == {One, Gateway}

(* A resolver of the nameserver, or with it one of an upstream.             *)
AsksNameserver == [c \in {c1} |-> Nameserver]
AsksBoth == [c \in {c1, c2} |-> IF c = c1 THEN Nameserver ELSE Gateway]
=============================================================================
