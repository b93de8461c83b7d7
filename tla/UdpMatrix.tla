------------------------------ MODULE UdpMatrix ------------------------------
(***************************************************************************)
(* One scenario of the UDP bind matrix (run_scenario and delivery,         *)
(* udp_bind_matrix.py): two sockets bound to one port, datagrams from      *)
(* several senders, and with connect "auto" the first receiver connected   *)
(* to its sender before the burst.                                         *)
(*                                                                         *)
(* The waits for datagrams have a deadline, so time is a choice: a timer   *)
(* may run out before a datagram arrives or is read.  Sending has none: it *)
(* is tried again as long as the send buffer is full.  The kernel (who may *)
(* bind, who gets a datagram, when a buffer is full) is external, as the   *)
(* tables of the README have it; so is a process that takes the port after *)
(* it was picked.                                                          *)
(***************************************************************************)
EXTENDS Naturals, Sequences, FiniteSets

CONSTANTS
    Scenarios,     \* records of os, addr, reuse (per socket), target, topology, connect
    SINGLE_PKTS,   \* packets of the single topology
    DUAL_PAIRS,    \* pairs of the dual one
    MANY_SENDERS,  \* senders of the many one
    Intruders,     \* the <<addr, reuse>> another process may bind to the port
    None

Sockets == {"s1", "s2"}
Other == "other"

ASSUME TrafficAssumption == {SINGLE_PKTS, DUAL_PAIRS, MANY_SENDERS} \subseteq Nat \ {0, 1}
ASSUME ScenariosAssumption == \A c \in Scenarios : c.topology \in {"single", "dual", "many"}
ASSUME NoneAssumption == None \notin Nat \cup Sockets \cup {Other} \cup Intruders

VARIABLES
    scenario,
    stage,     \* what the harness does
    bound,     \* the sockets bound to the port
    intruder,  \* the <<addr, reuse>> of the other process, or None
    full,      \* the kernel takes no datagram: the send buffer is full
    sent,      \* datagrams sent so far
    flight,    \* those under way
    buffer,    \* what each socket has not been read yet
    peer,      \* the sender each socket is connected to, or None
    order,     \* the receipts: <<datagram, socket>>
    pinned,    \* the socket connected in auto mode, or None
    wasPinned, \* history: it was when the burst began
    late       \* history: a timer ran out with datagrams under way or unread

traffic == <<full, sent, flight, buffer, peer, order, pinned, wasPinned, late>>
vars == <<scenario, stage, bound, intruder, traffic>>

Addr(s) == IF s = Other THEN intruder[1] ELSE scenario.addr[s]
Reuse(s) == IF s = Other THEN intruder[2] ELSE scenario.reuse[s]

-----------------------------------------------------------------------------
(* send_seq: who sends the n-th datagram.                                   *)
send_seq ==
    CASE scenario.topology = "single" -> [n \in 1..SINGLE_PKTS |-> 1]
      [] scenario.topology = "dual" -> [n \in 1..2 * DUAL_PAIRS |-> IF n % 2 = 1 THEN 1 ELSE 2]
      [] scenario.topology = "many" -> [n \in 1..MANY_SENDERS |-> n]
expected == Len(send_seq)
received == Len(order)
auto_connect == scenario.connect = "auto" /\ scenario.topology # "single"

hearable(addr) == addr = "any" \/ addr = scenario.target

(* Who may bind next to t: sockets that share an option (Linux); whose      *)
(* newcomer has one, or both REUSEPORT at the same address (macOS).         *)
Allows(t, addr, reuse) ==
    IF scenario.os = "linux" THEN Reuse(t) \cap reuse # {}
    ELSE IF Addr(t) = addr THEN "port" \in Reuse(t) \cap reuse
    ELSE reuse # {}

CanBind(addr, reuse) == \A t \in bound : Allows(t, addr, reuse)

(* Who gets the n-th datagram: of the sockets that hear the target and are  *)
(* not connected elsewhere, one that is connected to its sender, or bound   *)
(* to the very address, or any.                                             *)
Rank(s) == IF peer[s] # None THEN 2 ELSE IF Addr(s) = "any" THEN 0 ELSE 1
Hearing(n) == {s \in bound : hearable(Addr(s)) /\ peer[s] \in {None, send_seq[n]}}
Receivers(n) == {s \in Hearing(n) : \A t \in Hearing(n) : Rank(t) <= Rank(s)}

-----------------------------------------------------------------------------
Init ==
    /\ scenario \in Scenarios
    /\ stage = "bind_s1" /\ bound = {} /\ intruder = None
    /\ full = FALSE /\ sent = 0 /\ flight = {}
    /\ buffer = [s \in Sockets \cup {Other} |-> << >>]
    /\ peer = [s \in Sockets \cup {Other} |-> None]
    /\ order = << >> /\ pinned = None
    /\ wasPinned = FALSE /\ late = FALSE

(* pick_free_port released the port before anybody binds it.                *)
TakePort(i) ==
    /\ stage \in {"bind_s1", "bind_s2"} /\ intruder = None
    /\ CanBind(i[1], i[2])
    /\ intruder' = i /\ bound' = bound \cup {Other}
    /\ UNCHANGED <<scenario, stage, traffic>>

Binding(s) == IF s = "s1" THEN "bind_s1" ELSE "bind_s2"

(* try_bind on both sockets, whatever the first returned; traffic only when *)
(* both are bound and one of them can hear it.                              *)
TryBind(s) ==
    LET now == IF CanBind(Addr(s), Reuse(s)) THEN bound \cup {s} ELSE bound
    IN  /\ stage = Binding(s)
        /\ bound' = now
        /\ stage' = IF s = "s1" THEN "bind_s2"
                    ELSE IF Sockets \subseteq now /\ \E t \in Sockets : hearable(Addr(t))
                      THEN "first" ELSE "close"
        /\ UNCHANGED <<scenario, intruder, traffic>>

Transmit_NoWait ==
    /\ stage \in {"first", "burst"} /\ ~full
    /\ sent' = sent + 1 /\ flight' = flight \cup {sent + 1}
    /\ stage' = IF sent + 1 = expected THEN "drain" ELSE "burst"
    /\ UNCHANGED <<scenario, bound, intruder, full, buffer, peer, order, pinned, wasPinned, late>>

(* transmit: the next datagram, once the buffer has room for it; the first  *)
(* of auto mode is waited for.                                              *)
Transmit ==
    /\ stage \in {"first", "burst"} /\ ~full
    /\ sent' = sent + 1 /\ flight' = flight \cup {sent + 1}
    /\ stage' = IF stage = "first" /\ auto_connect THEN "wait"
                ELSE IF sent + 1 = expected THEN "drain" ELSE "burst"
    /\ UNCHANGED <<scenario, bound, intruder, full, buffer, peer, order, pinned, wasPinned, late>>

(* The buffer of the sender fills up or drains while it sends.              *)
SendBuffer ==
    /\ stage \in {"first", "burst"} /\ full' = ~full
    /\ UNCHANGED <<scenario, stage, bound, intruder, sent, flight, buffer, peer, order, pinned,
                   wasPinned, late>>

Deliver(n) ==
    /\ n \in flight
    /\ flight' = flight \ {n}
    /\ \/ \E s \in Receivers(n) : buffer' = [buffer EXCEPT ![s] = Append(@, n)]
       \/ Receivers(n) = {} /\ UNCHANGED buffer
    /\ UNCHANGED <<scenario, stage, bound, intruder, full, sent, peer, order, pinned, wasPinned,
                   late>>

(* process_events runs while sending, waiting and draining.                 *)
Polling ==
    \/ stage = "burst"
    \/ stage = "wait" /\ received = 0
    \/ stage = "drain" /\ received < expected

ReadOnce_NotConnected(s) ==
    /\ Polling /\ buffer[s] # << >>
    /\ buffer' = [buffer EXCEPT ![s] = Tail(@)]
    /\ order' = Append(order, <<Head(buffer[s]), s>>)
    /\ pinned' = IF auto_connect /\ pinned = None THEN s ELSE pinned
    /\ UNCHANGED <<scenario, stage, bound, intruder, full, sent, flight, peer, wasPinned, late>>

ReadOnce_Peek(s) ==
    /\ Polling /\ buffer[s] # << >>
    /\ order' = Append(order, <<Head(buffer[s]), s>>)
    /\ IF auto_connect /\ pinned = None
         THEN pinned' = s /\ peer' = [peer EXCEPT ![s] = send_seq[Head(buffer[s])]]
         ELSE UNCHANGED <<pinned, peer>>
    /\ UNCHANGED <<scenario, stage, bound, intruder, full, sent, flight, buffer, wasPinned, late>>

(* read_once: one receipt, and in auto mode the first one connects.  What   *)
(* the socket holds already stays in it.                                    *)
ReadOnce(s) ==
    /\ Polling /\ buffer[s] # << >>
    /\ buffer' = [buffer EXCEPT ![s] = Tail(@)]
    /\ order' = Append(order, <<Head(buffer[s]), s>>)
    /\ IF auto_connect /\ pinned = None
         THEN pinned' = s /\ peer' = [peer EXCEPT ![s] = send_seq[Head(buffer[s])]]
         ELSE UNCHANGED <<pinned, peer>>
    /\ UNCHANGED <<scenario, stage, bound, intruder, full, sent, flight, wasPinned, late>>

(* The wait ends with the first receipt or its deadline, ...                *)
Pending == flight # {} \/ \E s \in Sockets : buffer[s] # << >>

WaitOver ==
    /\ stage = "wait" /\ stage' = "burst"
    /\ wasPinned' = (pinned # None)
    /\ late' = (late \/ (received = 0 /\ Pending))
    /\ UNCHANGED <<scenario, bound, intruder, full, sent, flight, buffer, peer, order, pinned>>

DrainOver_All ==
    /\ stage = "drain" /\ received = expected
    /\ stage' = "close"
    /\ late' = (late \/ (received < expected /\ Pending))
    /\ UNCHANGED <<scenario, bound, intruder, full, sent, flight, buffer, peer, order, pinned,
                   wasPinned>>

(* ... the drain with the last one, its deadline, or a silence.             *)
DrainOver ==
    /\ stage = "drain" /\ stage' = "close"
    /\ late' = (late \/ (received < expected /\ Pending))
    /\ UNCHANGED <<scenario, bound, intruder, full, sent, flight, buffer, peer, order, pinned,
                   wasPinned>>

Close ==
    /\ stage = "close" /\ stage' = "closed"
    /\ bound' = bound \ Sockets
    /\ UNCHANGED <<scenario, intruder, traffic>>

Harness ==
    \/ \E s \in Sockets : TryBind(s) \/ ReadOnce(s)
    \/ Transmit \/ WaitOver \/ DrainOver \/ Close

Next ==
    \/ Harness
    \/ \E i \in Intruders : TakePort(i)
    \/ SendBuffer
    \/ \E n \in 1..expected : Deliver(n)

(* The harness runs on, and its timers run out; nothing is assumed of the   *)
(* kernel, nor of when a full buffer drains.                                *)
Spec == Init /\ [][Next]_vars /\ WF_vars(Harness)

-----------------------------------------------------------------------------
(* Types; and "a UDP datagram is always delivered to exactly one socket"    *)
(* (udp_bind_matrix/README): a datagram is in one place, and counted once.  *)
Places(n) ==
    Cardinality({s \in Sockets \cup {Other} : \E i \in DOMAIN buffer[s] : buffer[s][i] = n})
    + Cardinality({i \in DOMAIN order : order[i][1] = n}) + Cardinality(flight \cap {n})
TypeOK ==
    /\ scenario \in Scenarios
    /\ bound \subseteq Sockets \cup {Other} /\ (Other \in bound <=> intruder # None)
    /\ full \in BOOLEAN /\ (full => stage \in {"first", "burst"})
    /\ sent \in 0..expected /\ flight \subseteq 1..sent
    /\ \A n \in 1..sent : Places(n) <= 1
    /\ pinned \in Sockets \cup {None}
    /\ \A s \in Sockets : peer[s] # None <=> pinned = s

(* The first receiver is connected before the burst, so it hears nobody but *)
(* its peer, in whatever order datagrams arrive and are read, and also when *)
(* another process shares the port.                                         *)
PinnedHearsItsPeer ==
    wasPinned => \A i \in DOMAIN order :
        order[i][2] = pinned => send_seq[order[i][1]] = peer[pinned]

(* The row that is printed, when no timer beat a datagram and nobody else   *)
(* has the port: every datagram is counted; in auto mode the first sender's *)
(* at the pinned socket, and the others at its sibling if that one can hear *)
(* the target (1 + 25, "only 1 datagram is received" otherwise).            *)
Count(s) == Cardinality({i \in DOMAIN order : order[i][2] = s})
First == Cardinality({n \in 1..expected : send_seq[n] = 1})
RowIsRight ==
    stage = "close" /\ sent > 0 /\ ~late /\ intruder = None =>
        IF auto_connect
          THEN /\ pinned # None /\ Count(pinned) = First
               /\ \A s \in Sockets \ {pinned} :
                      Count(s) = IF hearable(Addr(s)) THEN expected - First ELSE 0
          ELSE received = expected

(* Whatever is lost, late or read by others, a scenario ends, unless its    *)
(* send buffer is full again and again: that wait of transmit is the only   *)
(* one without a deadline.                                                  *)
ScenarioEnds == <>(stage = "closed") \/ []<>full
=============================================================================
