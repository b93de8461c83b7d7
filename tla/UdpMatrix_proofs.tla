---------------------------- MODULE UdpMatrix_proofs ----------------------------
(***************************************************************************)
(* Theorems about UdpMatrix, for any scenarios, any amount of traffic and   *)
(* any other process that takes the port.                                   *)
(***************************************************************************)
EXTENDS UdpMatrix, FiniteSetTheorems, TLAPS

AllSockets == Sockets \cup {Other}
Stages == {"bind_s1", "bind_s2", "first", "wait", "burst", "drain", "close", "closed"}

Shape ==
    /\ scenario \in Scenarios /\ stage \in Stages
    /\ full \in BOOLEAN /\ (full => stage \in {"first", "burst"})
    /\ bound \subseteq AllSockets /\ (Other \in bound <=> intruder # None)
    /\ sent \in 0..expected /\ flight \subseteq 1..sent
    /\ buffer \in [AllSockets -> Seq(Nat)]
    /\ \A s \in AllSockets : \A i \in DOMAIN buffer[s] : buffer[s][i] \in 1..sent
    /\ order \in Seq(Nat \X Sockets)
    /\ \A i \in DOMAIN order : order[i][1] \in 1..sent
    /\ pinned \in Sockets \cup {None}
    /\ peer \in [AllSockets -> Nat \cup {None}]
    /\ \A s \in AllSockets : peer[s] # None <=> pinned = s

(* What the harness has sent, read and connected where it is.               *)
Progress ==
    /\ stage \in {"bind_s1", "bind_s2", "first"} => sent = 0
    /\ stage = "wait" => sent = 1 /\ auto_connect
    /\ stage = "burst" => 0 < sent /\ sent < expected
    /\ stage = "drain" => sent = expected
    /\ stage = "close" => sent = 0 \/ sent = expected
    /\ pinned # None => auto_connect /\ sent > 0
    /\ wasPinned => pinned # None
    /\ auto_connect /\ order # << >> => pinned # None

Held(n, s) == \E i \in DOMAIN buffer[s] : buffer[s][i] = n
Reached(n, s) == \E i \in DOMAIN order : order[i][1] = n /\ order[i][2] = s

(* A datagram is in one place.                                              *)
Once ==
    /\ \A s \in AllSockets : \A i, j \in DOMAIN buffer[s] :
           buffer[s][i] = buffer[s][j] => i = j
    /\ \A i, j \in DOMAIN order : order[i][1] = order[j][1] => i = j
    /\ \A s, t \in AllSockets : \A n \in 1..sent : Held(n, s) /\ Held(n, t) => s = t
    /\ \A s \in AllSockets : \A n \in flight : ~Held(n, s)
    /\ \A s \in Sockets : \A n \in flight : ~Reached(n, s)
    /\ \A s \in AllSockets : \A t \in Sockets : \A n \in 1..sent : ~(Held(n, s) /\ Reached(n, t))

Hears(s) == hearable(Addr(s))

(* A socket that was connected before the burst holds nothing of others.    *)
Heard ==
    /\ stage = "wait" /\ pinned # None => peer[pinned] = send_seq[1]
    /\ wasPinned => \A s \in Sockets : \A n \in 1..sent :
           s = pinned /\ (Held(n, s) \/ Reached(n, s)) => send_seq[n] = peer[s]

(* Traffic has sockets to go to, and reaches none that cannot hear it.      *)
Hosts ==
    /\ stage \in {"first", "wait", "burst", "drain"} \/ (stage = "close" /\ sent > 0) =>
           Sockets \subseteq bound /\ \E s \in Sockets : Hears(s)
    /\ \A s \in Sockets : \A n \in 1..sent : Held(n, s) \/ Reached(n, s) => Hears(s)
    /\ \A s \in Sockets : s = pinned => Hears(s)
    /\ intruder = None => buffer[Other] = << >>

(* Where a datagram belongs: anywhere before a socket is connected, then    *)
(* the peer's at that socket and the others' at its sibling.                *)
Due(n) ==
    IF pinned = None THEN Sockets
    ELSE IF send_seq[n] = 1 THEN {pinned}
    ELSE {s \in Sockets \ {pinned} : Hears(s)}

(* Without an intruder or a late datagram nothing is lost.                  *)
Calm == ~late /\ intruder = None /\ stage # "closed"
Kept ==
    Calm =>
      /\ auto_connect /\ sent > 0 /\ stage \in {"burst", "drain", "close"} => wasPinned
      /\ pinned # None => peer[pinned] = 1
      /\ \A n \in 1..sent : Due(n) # {} =>
             n \in flight \/ \E s \in Due(n) : Held(n, s) \/ Reached(n, s)
      /\ stage = "close" =>
             \A n \in 1..sent : Due(n) # {} => \E s \in Due(n) : Reached(n, s)

IInv == Shape /\ Progress /\ Once /\ Heard /\ Hosts /\ Kept
-----------------------------------------------------------------------------
LEMMA SendSeq ==
    ASSUME scenario \in Scenarios
    PROVE  /\ expected \in Nat /\ expected > 1
           /\ send_seq \in [1..expected -> Nat] /\ send_seq[1] = 1
<1>1. \A k \in Nat : \A f \in [1..k -> Nat] : Len(f) = k
  <2> SUFFICES ASSUME NEW k \in Nat, NEW f \in [1..k -> Nat] PROVE Len(f) = k
    OBVIOUS
  <2>1. f \in Seq(Nat)
    OBVIOUS
  <2>2. Len(f) \in Nat /\ DOMAIN f = 1..Len(f) /\ DOMAIN f = 1..k
    BY <2>1
  <2> QED
    BY <2>2
<1>2. \E k \in Nat : k > 1 /\ send_seq \in [1..k -> Nat] /\ send_seq[1] = 1
  <2>1. CASE scenario.topology = "single"
    <3>1. send_seq = [n \in 1..SINGLE_PKTS |-> 1]
      BY <2>1 DEF send_seq
    <3> QED
      BY <3>1, TrafficAssumption
  <2>2. CASE scenario.topology = "dual"
    <3>1. send_seq = [n \in 1..2 * DUAL_PAIRS |-> IF n % 2 = 1 THEN 1 ELSE 2]
      BY <2>2 DEF send_seq
    <3>2. 2 * DUAL_PAIRS \in Nat /\ 2 * DUAL_PAIRS > 1
      BY TrafficAssumption
    <3> QED
      BY <3>1, <3>2
  <2>3. CASE scenario.topology = "many"
    <3>1. send_seq = [n \in 1..MANY_SENDERS |-> n]
      BY <2>3 DEF send_seq
    <3> QED
      BY <3>1, TrafficAssumption
  <2> QED
    BY <2>1, <2>2, <2>3, ScenariosAssumption
<1> QED
  BY <1>1, <1>2 DEF expected

LEMMA SameScenario ==
    scenario' = scenario =>
        /\ send_seq' = send_seq /\ expected' = expected /\ (auto_connect' <=> auto_connect)
        /\ \A s \in Sockets : Hears(s)' <=> Hears(s)
  BY DEF send_seq, expected, auto_connect, Hears, hearable, Addr, Sockets, Other

(* A datagram under way gets into one buffer at most, ...                   *)
LEMMA DeliverMoves ==
    ASSUME Shape, NEW n \in flight, NEW s \in AllSockets,
           buffer' = [buffer EXCEPT ![s] = Append(@, n)]
    PROVE  /\ buffer' \in [AllSockets -> Seq(Nat)]
           /\ \A k, t : t \in AllSockets => (Held(k, t)' <=> Held(k, t) \/ (t = s /\ k = n))
           /\ Once => \A t \in AllSockets : \A i, j \in DOMAIN buffer'[t] :
                          buffer'[t][i] = buffer'[t][j] => i = j
<1>1. n \in Nat /\ buffer \in [AllSockets -> Seq(Nat)]
  BY DEF Shape
<1>2. buffer'[s] = Append(buffer[s], n) /\ \A t \in AllSockets \ {s} : buffer'[t] = buffer[t]
  BY <1>1
<1>3. buffer' \in [AllSockets -> Seq(Nat)]
  BY <1>1
<1>4. \A k, t : t \in AllSockets => (Held(k, t)' <=> Held(k, t) \/ (t = s /\ k = n))
  <2> SUFFICES ASSUME NEW k, NEW t \in AllSockets
               PROVE  Held(k, t)' <=> Held(k, t) \/ (t = s /\ k = n)
    OBVIOUS
  <2>1. CASE t # s
    BY <1>2, <2>1 DEF Held
  <2>2. CASE t = s
    <3>1. PICK b \in Seq(Nat) : b = buffer[s]
      BY <1>1
    <3>2. /\ buffer'[s] = Append(b, n) /\ Len(b) \in Nat /\ DOMAIN b = 1..Len(b)
          /\ DOMAIN Append(b, n) = 1..Len(b) + 1 /\ Append(b, n)[Len(b) + 1] = n
          /\ \A i \in 1..Len(b) : Append(b, n)[i] = b[i]
      BY <1>1, <1>2, <3>1
    <3> QED
      BY <2>2, <3>1, <3>2 DEF Held
  <2> QED
    BY <2>1, <2>2
<1>5. ASSUME Once
      PROVE  \A t \in AllSockets : \A i, j \in DOMAIN buffer'[t] :
                 buffer'[t][i] = buffer'[t][j] => i = j
  BY <1>1, <1>2, <1>5 DEF Once, Held
<1> QED
  BY <1>3, <1>4, <1>5

(* ... and from there into the receipts.                                    *)
LEMMA ReadMoves ==
    ASSUME Shape, Once, NEW s \in Sockets, buffer[s] # << >>,
           buffer' = [buffer EXCEPT ![s] = Tail(@)],
           order' = Append(order, <<Head(buffer[s]), s>>)
    PROVE  /\ Head(buffer[s]) \in 1..sent /\ Held(Head(buffer[s]), s)
           /\ buffer' \in [AllSockets -> Seq(Nat)] /\ order' \in Seq(Nat \X Sockets)
           /\ \A k, t : t \in AllSockets =>
                  (Held(k, t)' <=> Held(k, t) /\ ~(t = s /\ k = Head(buffer[s])))
           /\ \A k, t : Reached(k, t)' <=> Reached(k, t) \/ (t = s /\ k = Head(buffer[s]))
           /\ \A t \in AllSockets : \A i, j \in DOMAIN buffer'[t] :
                  buffer'[t][i] = buffer'[t][j] => i = j
           /\ \A i, j \in DOMAIN order' : order'[i][1] = order'[j][1] => i = j
<1>1. PICK b \in Seq(Nat) : b = buffer[s]
  BY DEF Shape, AllSockets
<1>2. PICK m \in Nat : m = Head(b) /\ b # << >> /\ m = b[1] /\ 1 \in DOMAIN b
  BY <1>1
<1>17. PICK z \in Nat : z = Len(b)
  BY <1>1
<1>3. PICK c \in Seq(Nat) : /\ c = Tail(b) /\ DOMAIN b = 1..z /\ DOMAIN c = 1..z - 1
                           /\ \A i \in 1..z - 1 : c[i] = b[i + 1]
  <2>1. Tail(b) \in Seq(Nat) /\ DOMAIN Tail(b) = 1..z - 1 /\ DOMAIN b = 1..z
    BY <1>1, <1>2, <1>17
  <2>2. \A i \in 1..z - 1 : Tail(b)[i] = b[i + 1]
    BY <1>1, <1>2, <1>17
  <2> QED
    BY <2>1, <2>2
<1>4. buffer'[s] = c /\ \A t \in AllSockets \ {s} : buffer'[t] = buffer[t]
  BY <1>1, <1>3 DEF Shape, AllSockets
<1>5. buffer' \in [AllSockets -> Seq(Nat)]
  BY <1>1, <1>3 DEF Shape
<1>6. m \in 1..sent /\ Held(m, s)
  BY <1>1, <1>2 DEF Shape, AllSockets, Held
<1>7. \A i, j \in DOMAIN b : b[i] = b[j] => i = j
  BY <1>1 DEF Once, AllSockets
<1>8. \A k, t : t \in AllSockets => (Held(k, t)' <=> Held(k, t) /\ ~(t = s /\ k = m))
  <2> SUFFICES ASSUME NEW k, NEW t \in AllSockets
               PROVE  Held(k, t)' <=> Held(k, t) /\ ~(t = s /\ k = m)
    OBVIOUS
  <2>1. CASE t # s
    BY <1>4, <2>1 DEF Held
  <2>2. CASE t = s
    <3>1. \A i \in DOMAIN b : i # 1 => i - 1 \in DOMAIN c /\ c[i - 1] = b[i]
      BY <1>3
    <3>2. \A i \in DOMAIN c : i + 1 \in DOMAIN b /\ i + 1 # 1
      BY <1>3
    <3>3. Held(k, t)' => Held(k, t) /\ k # m
      <4> SUFFICES ASSUME NEW i \in DOMAIN c, c[i] = k PROVE Held(k, t) /\ k # m
        BY <1>4, <2>2 DEF Held
      <4>1. i + 1 \in DOMAIN b /\ i + 1 # 1 /\ b[i + 1] = k
        BY <1>3, <3>2
      <4> QED
        BY <1>1, <1>2, <1>7, <2>2, <4>1 DEF Held
    <3>4. Held(k, t) /\ k # m => Held(k, t)'
      <4> SUFFICES ASSUME NEW i \in DOMAIN b, b[i] = k, k # m PROVE Held(k, t)'
        BY <1>1, <2>2 DEF Held
      <4>1. i - 1 \in DOMAIN c /\ c[i - 1] = k
        BY <1>2, <3>1
      <4> QED
        BY <1>4, <2>2, <4>1 DEF Held
    <3> QED
      BY <2>2, <3>3, <3>4
  <2> QED
    BY <2>1, <2>2
<1>9. \A t \in AllSockets : \A i, j \in DOMAIN buffer'[t] : buffer'[t][i] = buffer'[t][j] => i = j
  <2> SUFFICES ASSUME NEW t \in AllSockets, NEW i \in DOMAIN buffer'[t], NEW j \in DOMAIN buffer'[t],
                      buffer'[t][i] = buffer'[t][j]
               PROVE  i = j
    OBVIOUS
  <2>1. CASE t # s
    BY <1>4, <2>1 DEF Once
  <2>2. CASE t = s
    <3>2. i \in 1..z - 1 /\ j \in 1..z - 1 /\ c[i] = c[j]
      BY <1>3, <1>4, <2>2
    <3>1. i + 1 \in DOMAIN b /\ j + 1 \in DOMAIN b /\ b[i + 1] = b[j + 1]
      BY <1>3, <3>2
    <3> QED
      BY <1>7, <3>1, <3>2
  <2> QED
    BY <2>1, <2>2
<1>10. PICK o \in Seq(Nat \X Sockets) : o = order
  BY DEF Shape
<1>11. /\ order' = Append(o, <<m, s>>) /\ order' \in Seq(Nat \X Sockets)
  BY <1>1, <1>2, <1>10
<1>16. /\ Len(o) \in Nat /\ DOMAIN o = 1..Len(o) /\ DOMAIN order' = 1..Len(o) + 1
       /\ order'[Len(o) + 1] = <<m, s>> /\ \A i \in DOMAIN o : order'[i] = o[i]
  <2>1. <<m, s>> \in Nat \X Sockets
    OBVIOUS
  <2> QED
    BY <1>10, <1>11, <2>1
<1>12. \A k, t : Reached(k, t)' <=> Reached(k, t) \/ (t = s /\ k = m)
  <2>1. PICK l \in Nat : l = Len(o)
    BY <1>10
  <2>2. /\ DOMAIN o = 1..l /\ DOMAIN order' = 1..l + 1
        /\ order'[l + 1][1] = m /\ order'[l + 1][2] = s
        /\ \A i \in 1..l : order'[i] = o[i]
    <3>1. order'[l + 1] = <<m, s>>
      BY <1>16, <2>1
    <3>2. DOMAIN o = 1..l /\ DOMAIN order' = 1..l + 1 /\ \A i \in 1..l : order'[i] = o[i]
      BY <1>16, <2>1
    <3> QED
      BY <3>1, <3>2
  <2>3. \A i \in DOMAIN o : i \in 1..l /\ i \in DOMAIN order' /\ order'[i] = o[i]
    BY <2>2
  <2>4. \A i \in DOMAIN order' : i \in DOMAIN o \/ i = l + 1
    BY <2>2
  <2>5. l + 1 \in DOMAIN order'
    BY <2>2
  <2> QED
    BY <1>10, <2>2, <2>3, <2>4, <2>5 DEF Reached
<1>13. \A i \in DOMAIN o : o[i][1] # m
  <2> SUFFICES ASSUME NEW i \in DOMAIN o, o[i][1] = m PROVE FALSE
    OBVIOUS
  <2>1. o[i] \in Nat \X Sockets
    BY <1>10, <1>11, <1>16
  <2>2. o[i][2] \in Sockets /\ Reached(m, o[i][2])
    BY <1>10, <2>1 DEF Reached
  <2> QED
    BY <1>6, <2>2 DEF Once, AllSockets
<1>14. \A i, j \in DOMAIN o : o[i][1] = o[j][1] => i = j
  BY <1>10 DEF Once
<1>15. \A i, j \in DOMAIN order' : order'[i][1] = order'[j][1] => i = j
  <2> SUFFICES ASSUME NEW i \in DOMAIN order', NEW j \in DOMAIN order', order'[i][1] = order'[j][1]
               PROVE  i = j
    OBVIOUS
  <2>1. PICK l : l = Len(o) + 1 /\ order'[l][1] = m
    BY <1>16
  <2>2. \A k \in DOMAIN order' : k = l \/ k \in DOMAIN o
    BY <1>16, <2>1
  <2>3. \A k \in DOMAIN o : order'[k] = o[k] /\ order'[k][1] # m
    BY <1>13, <1>16
  <2>4. CASE i = l
    BY <2>1, <2>2, <2>3, <2>4
  <2>5. CASE j = l
    BY <2>1, <2>2, <2>3, <2>5
  <2>6. CASE i # l /\ j # l
    BY <1>14, <2>2, <2>3, <2>6
  <2> QED
    BY <2>4, <2>5, <2>6
<1> QED
  BY <1>1, <1>2, <1>5, <1>6, <1>8, <1>9, <1>11, <1>16, <1>12, <1>15

LEMMA SameTraffic ==
    UNCHANGED <<buffer, order>> =>
        \A k, t : (Held(k, t)' <=> Held(k, t)) /\ (Reached(k, t)' <=> Reached(k, t))
  BY DEF Held, Reached

LEMMA SameDue ==
    scenario' = scenario /\ pinned' = pinned => \A n : Due(n)' = Due(n)
  BY SameScenario DEF Due

LEMMA InPlace ==
    ASSUME Shape, NEW n, NEW s
    PROVE  /\ s \in AllSockets /\ Held(n, s) => n \in 1..sent
           /\ Reached(n, s) => n \in 1..sent
  BY DEF Shape, Held, Reached

-----------------------------------------------------------------------------
LEMMA Nothing == (\A S : << >> \in Seq(S)) /\ DOMAIN << >> = {} /\ 1..0 = {}
<1>1. DOMAIN << >> = {}
  OBVIOUS
<1>2. \A S : << >> \in Seq(S)
  OBVIOUS
<1> QED
  BY <1>1, <1>2

LEMMA IInvInit == Init => IInv
<1> SUFFICES ASSUME Init PROVE IInv
  OBVIOUS
<1>1. expected \in Nat /\ expected > 1
  BY SendSeq DEF Init
<1>2. (\A S : << >> \in Seq(S)) /\ DOMAIN << >> = {} /\ 1..0 = {}
  BY Nothing
<1>3. None \notin Sockets /\ None \notin Nat /\ Other \notin Sockets
  BY NoneAssumption DEF Sockets, Other
<1>4. buffer \in [AllSockets -> Seq(Nat)] /\ order \in Seq(Nat \X Sockets)
  BY <1>2 DEF Init, AllSockets
<1>5. /\ \A s \in AllSockets : DOMAIN buffer[s] = {} /\ buffer[s] = << >>
      /\ order = << >> /\ DOMAIN order = {}
  BY <1>2 DEF Init, AllSockets
<1>6. peer \in [AllSockets -> Nat \cup {None}] /\ \A s \in AllSockets : peer[s] = None
  BY DEF Init, AllSockets
<1>7. \A k, t : (t \in AllSockets => ~Held(k, t)) /\ ~Reached(k, t)
  BY <1>5 DEF Held, Reached
<1>8. /\ scenario \in Scenarios /\ stage = "bind_s1" /\ bound = {} /\ intruder = None
      /\ full = FALSE /\ sent = 0 /\ flight = {} /\ pinned = None /\ ~wasPinned
  BY DEF Init
<1>9. \A s \in AllSockets : pinned # s
  BY <1>8, NoneAssumption DEF AllSockets
<1>14. full \in BOOLEAN /\ (full => stage \in {"first", "burst"})
  BY <1>8
<1>10. Shape
  BY <1>14, <1>1, <1>4, <1>5, <1>6, <1>8, <1>9 DEF Shape, Stages
<1>11. Progress
  BY <1>1, <1>5, <1>8 DEF Progress
<1>12. Once /\ Heard /\ Hosts
  BY <1>5, <1>7, <1>8, <1>9 DEF Once, Heard, Hosts, AllSockets
<1>13. Kept
  BY <1>2, <1>8 DEF Kept, Calm
<1> QED
  BY <1>10, <1>11, <1>12, <1>13 DEF IInv

(* Somebody else takes the port.                                            *)
LEMMA TakePortStep == ASSUME IInv, NEW i \in Intruders, TakePort(i) PROVE IInv'
<1> USE DEF TakePort, traffic
<1>1. /\ send_seq' = send_seq /\ expected' = expected /\ (auto_connect' <=> auto_connect)
      /\ \A s \in Sockets : Hears(s)' <=> Hears(s)
  BY SameScenario
<1>2. \A k, t : (Held(k, t)' <=> Held(k, t)) /\ (Reached(k, t)' <=> Reached(k, t))
  BY SameTraffic
<1>3. intruder' # None
  BY NoneAssumption
<1>4. Shape'
  BY <1>1, <1>3 DEF IInv, Shape, AllSockets
<1>5. Progress' /\ Once' /\ Heard'
  BY <1>1, <1>2 DEF IInv, Progress, Once, Heard
<1>6. Hosts' /\ Kept'
  BY <1>1, <1>2, <1>3 DEF IInv, Hosts, Kept, Calm
<1> QED
  BY <1>4, <1>5, <1>6 DEF IInv

LEMMA TryBindStep == ASSUME IInv, NEW s \in Sockets, TryBind(s) PROVE IInv'
<1> USE DEF TryBind, traffic
<1>1. /\ send_seq' = send_seq /\ expected' = expected /\ (auto_connect' <=> auto_connect)
      /\ \A t \in Sockets : Hears(t)' <=> Hears(t)
  BY SameScenario
<1>2. \A k, t : (Held(k, t)' <=> Held(k, t)) /\ (Reached(k, t)' <=> Reached(k, t))
  BY SameTraffic
<1>3. /\ stage \in {"bind_s1", "bind_s2"} /\ stage' \in {"bind_s2", "first", "close"}
      /\ stage' = "first" => Sockets \subseteq bound' /\ \E t \in Sockets : Hears(t)
      /\ bound \subseteq bound' /\ bound' \subseteq bound \cup {s}
  BY DEF Binding, Hears
<1>4. sent = 0 /\ sent' = 0 /\ s # Other /\ 1..sent' = {}
  BY <1>3 DEF IInv, Progress, Sockets, Other
<1>5. Shape'
  BY <1>1, <1>3, <1>4 DEF IInv, Shape, AllSockets, Stages
<1>6. Progress' /\ Once' /\ Heard'
  BY <1>1, <1>2, <1>3, <1>4 DEF IInv, Progress, Once, Heard
<1>7. Hosts'
  BY <1>1, <1>2, <1>3, <1>4 DEF IInv, Hosts
<1>8. Kept'
  <2>1. 1..sent' = {}
    BY <1>4
  <2> QED
    BY <1>1, <1>4, <2>1 DEF IInv, Kept, Calm, Progress
<1> QED
  BY <1>5, <1>6, <1>7, <1>8 DEF IInv

LEMMA TransmitStep == ASSUME IInv, Transmit PROVE IInv'
<1> USE DEF Transmit
<1>1. /\ send_seq' = send_seq /\ expected' = expected /\ (auto_connect' <=> auto_connect)
      /\ \A t \in Sockets : Hears(t)' <=> Hears(t)
  BY SameScenario
<1>2. \A k, t : (Held(k, t)' <=> Held(k, t)) /\ (Reached(k, t)' <=> Reached(k, t))
  BY SameTraffic
<1>3. \A n : Due(n)' = Due(n)
  BY SameDue
<1>12. expected \in Nat /\ expected > 1
  BY SendSeq DEF IInv, Shape
<1>13. stage \in {"first", "burst"} /\ sent \in 0..expected
  BY DEF IInv, Shape
<1>4. expected \in Nat /\ expected > 1 /\ sent \in Nat /\ sent < expected
  BY <1>12, <1>13 DEF IInv, Progress
<1>5. 1..sent' = 1..sent \cup {sent + 1} /\ sent' \in 0..expected /\ sent + 1 \notin 1..sent
  BY <1>4
<1>6. /\ \A t \in AllSockets : ~Held(sent + 1, t)
      /\ \A t : ~Reached(sent + 1, t)
  BY <1>5, InPlace DEF IInv
<1>7. Shape'
  BY <1>1, <1>5 DEF IInv, Shape, Stages
<1>8. Progress'
  BY <1>1, <1>4 DEF IInv, Progress
<1>9. Once'
  BY <1>2, <1>5, <1>6 DEF IInv, Once, Sockets, AllSockets
<1>10. Heard' /\ Hosts'
  BY <1>1, <1>2, <1>4, <1>5, <1>6 DEF IInv, Heard, Hosts, Progress, Shape, AllSockets
<1>11. Kept'
  <2> SUFFICES ASSUME Calm' PROVE Kept'
    BY DEF Kept
  <2>1. Calm /\ stage' # "close"
    BY DEF Calm
  <2>2. auto_connect /\ stage' \in {"burst", "drain"} => wasPinned
    BY <1>4, <2>1 DEF IInv, Kept, Progress
  <2> QED
    BY <1>1, <1>2, <1>3, <1>5, <2>1, <2>2 DEF IInv, Kept
<1> QED
  BY <1>7, <1>8, <1>9, <1>10, <1>11 DEF IInv

LEMMA CloseStep == ASSUME IInv, Close PROVE IInv'
<1> USE DEF Close, traffic
<1>1. /\ send_seq' = send_seq /\ expected' = expected /\ (auto_connect' <=> auto_connect)
      /\ \A t \in Sockets : Hears(t)' <=> Hears(t)
  BY SameScenario
<1>2. \A k, t : (Held(k, t)' <=> Held(k, t)) /\ (Reached(k, t)' <=> Reached(k, t))
  BY SameTraffic
<1>3. Shape'
  BY <1>1 DEF IInv, Shape, AllSockets, Stages, Sockets, Other
<1>4. Progress' /\ Once' /\ Heard' /\ Hosts'
  BY <1>1, <1>2 DEF IInv, Progress, Once, Heard, Hosts
<1>5. Kept'
  BY DEF Kept, Calm
<1> QED
  BY <1>3, <1>4, <1>5 DEF IInv

LEMMA StutterStep == ASSUME IInv, UNCHANGED vars PROVE IInv'
<1> USE DEF vars, traffic
<1>1. /\ send_seq' = send_seq /\ expected' = expected /\ (auto_connect' <=> auto_connect)
      /\ \A t \in Sockets : Hears(t)' <=> Hears(t)
  BY SameScenario
<1>2. \A k, t : (Held(k, t)' <=> Held(k, t)) /\ (Reached(k, t)' <=> Reached(k, t))
  BY SameTraffic
<1>3. \A n : Due(n)' = Due(n)
  BY SameDue
<1>4. Shape' /\ Progress'
  BY <1>1 DEF IInv, Shape, Progress
<1>5. Once' /\ Heard' /\ Hosts'
  BY <1>1, <1>2 DEF IInv, Once, Heard, Hosts
<1>6. Kept'
  BY <1>1, <1>2, <1>3 DEF IInv, Kept, Calm
<1> QED
  BY <1>4, <1>5, <1>6 DEF IInv

(* A full buffer holds the harness up and moves nothing.                    *)
LEMMA SendBufferStep == ASSUME IInv, SendBuffer PROVE IInv'
<1> USE DEF SendBuffer
<1>1. /\ send_seq' = send_seq /\ expected' = expected /\ (auto_connect' <=> auto_connect)
      /\ \A t \in Sockets : Hears(t)' <=> Hears(t)
  BY SameScenario
<1>2. \A k, t : (Held(k, t)' <=> Held(k, t)) /\ (Reached(k, t)' <=> Reached(k, t))
  BY SameTraffic
<1>3. \A n : Due(n)' = Due(n)
  BY SameDue
<1>4. Shape'
  BY <1>1 DEF IInv, Shape
<1>5. Progress' /\ Once' /\ Heard' /\ Hosts'
  BY <1>1, <1>2 DEF IInv, Progress, Once, Heard, Hosts
<1>6. Kept'
  BY <1>1, <1>2, <1>3 DEF IInv, Kept, Calm
<1> QED
  BY <1>4, <1>5, <1>6 DEF IInv

(* A connected socket hears its peer alone, and what is for others goes to  *)
(* its sibling.                                                             *)
LEMMA ReceiversAreDue ==
    ASSUME IInv, Calm, NEW n \in flight, Due(n) # {}
    PROVE  Receivers(n) # {} /\ Receivers(n) \subseteq Due(n)
<1>1. n \in 1..sent /\ 0 < sent /\ sent \in Nat /\ send_seq[n] \in Nat
  <2>1. sent \in 0..expected /\ expected \in Nat /\ n \in 1..sent
    BY SendSeq DEF IInv, Shape
  <2> QED
    BY <2>1, SendSeq DEF IInv, Shape
<1>2. Sockets \subseteq bound /\ \E s \in Sockets : Hears(s)
  <2>1. stage \in {"wait", "burst", "drain", "close"}
    BY <1>1 DEF IInv, Shape, Stages, Progress, Calm
  <2> QED
    BY <1>1, <2>1 DEF IInv, Hosts
<1>3. bound = Sockets
  BY <1>2 DEF IInv, Shape, Calm, AllSockets
<1>4. Hearing(n) = {s \in Sockets : Hears(s) /\ peer[s] \in {None, send_seq[n]}}
  BY <1>3 DEF Hearing, Hears
<1>5. None \notin Nat /\ None \notin Sockets /\ \A s \in Sockets : Rank(s) \in {0, 1, 2}
  BY NoneAssumption DEF Rank
<1>6. CASE pinned = None
  <2>1. \A s \in Sockets : peer[s] = None
    BY <1>5, <1>6 DEF IInv, Shape, AllSockets
  <2>2. Hearing(n) = {s \in Sockets : Hears(s)}
    BY <1>4, <2>1
  <2>3. Due(n) = Sockets
    BY <1>6 DEF Due
  <2>4. Receivers(n) # {}
    <3>1. PICK s \in Sockets : s \in Hearing(n)
      BY <1>2, <2>2
    <3>2. \E t \in Hearing(n) : \A u \in Hearing(n) : Rank(u) <= Rank(t)
      <4>1. CASE \A u \in Hearing(n) : Rank(u) <= Rank(s)
        BY <3>1, <4>1
      <4>2. CASE ~(\A u \in Hearing(n) : Rank(u) <= Rank(s))
        <5>1. PICK u \in Hearing(n) : ~(Rank(u) <= Rank(s))
          BY <4>2
        <5>2. u \in Sockets /\ u # s /\ \A t \in Sockets : t = s \/ t = u
          BY <1>4, <1>5, <3>1, <5>1 DEF Sockets
        <5>3. \A t \in Hearing(n) : Rank(t) <= Rank(u)
          BY <1>4, <1>5, <3>1, <5>1, <5>2
        <5> QED
          BY <5>1, <5>3
      <4> QED
        BY <4>1, <4>2
    <3> QED
      BY <3>2 DEF Receivers
  <2> QED
    BY <2>2, <2>3, <2>4 DEF Receivers
<1>7. CASE pinned # None
  <2>1. /\ pinned \in Sockets /\ peer[pinned] = 1 /\ peer[pinned] # None /\ Rank(pinned) = 2
        /\ \A s \in Sockets \ {pinned} : peer[s] = None /\ Rank(s) < 2
    BY <1>5, <1>7 DEF IInv, Shape, Kept, AllSockets, Rank
  <2>2. CASE send_seq[n] = 1
    <3>1. Due(n) = {pinned}
      BY <1>7, <2>2 DEF Due
    <3>2. Hears(pinned)
      BY <2>1 DEF IInv, Hosts
    <3>3. pinned \in Hearing(n)
      BY <1>4, <2>1, <2>2, <3>2
    <3>4. Receivers(n) = {pinned}
      BY <1>4, <1>5, <2>1, <3>3 DEF Receivers
    <3> QED
      BY <3>1, <3>4
  <2>3. CASE send_seq[n] # 1
    <3>1. Due(n) = {s \in Sockets \ {pinned} : Hears(s)}
      BY <1>7, <2>3 DEF Due
    <3>2. Hearing(n) = Due(n)
      BY <1>4, <1>5, <2>1, <2>3, <3>1
    <3>3. \A s, t \in Due(n) : s = t
      BY <2>1, <3>1 DEF Sockets
    <3>4. Receivers(n) = Due(n)
      BY <1>5, <3>1, <3>2, <3>3 DEF Receivers
    <3> QED
      BY <3>4
  <2> QED
    BY <2>2, <2>3
<1> QED
  BY <1>6, <1>7

LEMMA DeliverStep == ASSUME IInv, NEW n \in 1..expected, Deliver(n) PROVE IInv'
<1>1. /\ n \in flight /\ flight' = flight \ {n}
      /\ UNCHANGED <<scenario, stage, bound, intruder, full, sent, peer, order, pinned, wasPinned, late>>
  BY DEF Deliver
<1>2. /\ send_seq' = send_seq /\ expected' = expected /\ (auto_connect' <=> auto_connect)
      /\ \A t \in Sockets : Hears(t)' <=> Hears(t)
  BY <1>1, SameScenario
<1>3. \A k : Due(k)' = Due(k)
  BY <1>1, SameDue
<1>4. n \in 1..sent /\ \A k, t : Reached(k, t)' <=> Reached(k, t)
  BY <1>1 DEF IInv, Shape, Reached
<1>5. CASE Receivers(n) = {} /\ buffer' = buffer
  <2>1. \A k, t : Held(k, t)' <=> Held(k, t)
    BY <1>5 DEF Held
  <2>2. Shape' /\ Progress'
    BY <1>1, <1>2, <1>5 DEF IInv, Shape, Progress
  <2>3. Once'
    BY <1>1, <1>4, <1>5, <2>1 DEF IInv, Once
  <2>4. Heard' /\ Hosts'
    BY <1>1, <1>2, <1>4, <1>5, <2>1 DEF IInv, Heard, Hosts
  <2>5. Kept'
    <3>1. Calm => Due(n) = {}
      BY <1>1, <1>5, ReceiversAreDue
    <3> QED
      BY <1>1, <1>2, <1>3, <1>4, <2>1, <3>1 DEF IInv, Kept, Calm
  <2> QED
    BY <2>2, <2>3, <2>4, <2>5 DEF IInv
<1>6. ASSUME NEW s \in Receivers(n), buffer' = [buffer EXCEPT ![s] = Append(@, n)]
      PROVE  IInv'
  <2>1. /\ s \in AllSockets /\ s \in bound /\ peer[s] \in {None, send_seq[n]}
        /\ s \in Sockets => Hears(s)
    BY DEF Receivers, Hearing, IInv, Shape, Hears
  <2>2. /\ buffer' \in [AllSockets -> Seq(Nat)]
        /\ \A k, t : t \in AllSockets => (Held(k, t)' <=> Held(k, t) \/ (t = s /\ k = n))
        /\ \A t \in AllSockets : \A i, j \in DOMAIN buffer'[t] :
               buffer'[t][i] = buffer'[t][j] => i = j
    BY <1>1, <1>6, <2>1, DeliverMoves DEF IInv
  <2>3. \A t \in AllSockets : ~Held(n, t)
    BY <1>1 DEF IInv, Once
  <2>4. \A t \in Sockets : ~Reached(n, t)
    BY <1>1 DEF IInv, Once
  <2>5. Shape'
    <3>1. \A t \in AllSockets : \A i \in DOMAIN buffer'[t] : buffer'[t][i] \in 1..sent
      <4> SUFFICES ASSUME NEW t \in AllSockets, NEW i \in DOMAIN buffer'[t]
                   PROVE  buffer'[t][i] \in 1..sent
        OBVIOUS
      <4>1. Held(buffer'[t][i], t) \/ buffer'[t][i] = n
        <5>1. PICK k : k = buffer'[t][i]
          OBVIOUS
        <5>2. Held(k, t)'
          BY <5>1 DEF Held
        <5> QED
          BY <2>2, <5>1, <5>2
      <4> QED
        BY <1>4, <4>1, InPlace DEF IInv
    <3> QED
      BY <1>1, <1>2, <2>2, <3>1 DEF IInv, Shape
  <2>6. Progress'
    BY <1>1, <1>2 DEF IInv, Progress
  <2>7. Once'
    BY <1>1, <1>4, <2>2, <2>3, <2>4 DEF IInv, Once
  <2>8. Heard'
    <3>1. wasPinned /\ s = pinned => send_seq[n] = peer[s]
      BY <2>1, NoneAssumption DEF IInv, Progress, Shape
    <3> QED
      BY <1>1, <1>2, <1>4, <2>2, <3>1 DEF IInv, Heard, AllSockets
  <2>9. Hosts'
    <3>1. intruder = None => buffer'[Other] = << >>
      <4>1. intruder = None => s # Other
        BY <2>1 DEF IInv, Shape
      <4> QED
        BY <1>6, <2>1, <4>1 DEF IInv, Hosts, Shape, AllSockets
    <3> QED
      BY <1>1, <1>2, <1>4, <2>1, <2>2, <3>1 DEF IInv, Hosts, AllSockets
  <2>10. Kept'
    <3>1. Calm /\ Due(n) # {} => s \in Due(n)
      BY <1>1, ReceiversAreDue
    <3>2. \A k : Due(k) \subseteq AllSockets
      BY DEF Due, IInv, Shape, AllSockets
    <3> SUFFICES ASSUME Calm' PROVE Kept'
      BY DEF Kept
    <3>3. Calm
      BY <1>1 DEF Calm
    <3>4. ASSUME NEW k \in 1..sent, Due(k) # {}
          PROVE  k \in flight' \/ \E t \in Due(k) : Held(k, t)' \/ Reached(k, t)'
      <4>1. CASE k = n
        BY <2>1, <2>2, <3>1, <3>3, <3>4, <4>1
      <4>2. CASE k # n
        BY <1>1, <1>4, <2>2, <3>2, <3>3, <3>4, <4>2 DEF IInv, Kept
      <4> QED
        BY <4>1, <4>2
    <3> QED
      BY <1>1, <1>2, <1>3, <1>4, <3>3, <3>4 DEF IInv, Kept
  <2> QED
    BY <2>5, <2>6, <2>7, <2>8, <2>9, <2>10 DEF IInv
<1> QED
  BY <1>5, <1>6 DEF Deliver

LEMMA ReadOnceStep == ASSUME IInv, NEW s \in Sockets, ReadOnce(s) PROVE IInv'
<1>1. /\ stage \in {"burst", "wait", "drain"} /\ buffer[s] # << >>
      /\ buffer' = [buffer EXCEPT ![s] = Tail(@)]
      /\ order' = Append(order, <<Head(buffer[s]), s>>)
      /\ UNCHANGED <<scenario, stage, bound, intruder, full, sent, flight, wasPinned, late>>
  BY DEF ReadOnce, Polling
<1>2. /\ send_seq' = send_seq /\ expected' = expected /\ (auto_connect' <=> auto_connect)
      /\ \A t \in Sockets : Hears(t)' <=> Hears(t)
  BY <1>1, SameScenario
<1>3. PICK m \in 1..sent : m = Head(buffer[s])
  BY <1>1, ReadMoves DEF IInv
<1>4. /\ Held(m, s)
      /\ buffer' \in [AllSockets -> Seq(Nat)] /\ order' \in Seq(Nat \X Sockets)
      /\ \A k, t : t \in AllSockets => (Held(k, t)' <=> Held(k, t) /\ ~(t = s /\ k = m))
      /\ \A k, t : Reached(k, t)' <=> Reached(k, t) \/ (t = s /\ k = m)
      /\ \A t \in AllSockets : \A i, j \in DOMAIN buffer'[t] :
             buffer'[t][i] = buffer'[t][j] => i = j
      /\ \A i, j \in DOMAIN order' : order'[i][1] = order'[j][1] => i = j
  BY <1>1, <1>3, ReadMoves DEF IInv
<1>5. \/ auto_connect /\ pinned = None /\ pinned' = s /\ peer' = [peer EXCEPT ![s] = send_seq[m]]
      \/ ~(auto_connect /\ pinned = None) /\ pinned' = pinned /\ peer' = peer
  BY <1>3 DEF ReadOnce
<1>6. /\ sent \in Nat /\ sent > 0 /\ send_seq[m] \in Nat /\ None \notin Nat /\ None \notin Sockets
      /\ send_seq[1] = 1
  <2>1. sent \in 0..expected /\ expected \in Nat /\ send_seq \in [1..expected -> Nat] /\ send_seq[1] = 1
    BY SendSeq DEF IInv, Shape
  <2> QED
    BY <1>3, <2>1, NoneAssumption
<1>7. Shape'
  <2>1. \A t \in AllSockets : \A i \in DOMAIN buffer'[t] : buffer'[t][i] \in 1..sent
    <3> SUFFICES ASSUME NEW t \in AllSockets, NEW i \in DOMAIN buffer'[t]
                 PROVE  buffer'[t][i] \in 1..sent
      OBVIOUS
    <3>1. PICK k : k = buffer'[t][i]
      OBVIOUS
    <3>2. Held(k, t)'
      BY <3>1 DEF Held
    <3> QED
      BY <1>4, <3>1, <3>2, InPlace DEF IInv
  <2>2. \A i \in DOMAIN order' : order'[i][1] \in 1..sent
    <3> SUFFICES ASSUME NEW i \in DOMAIN order' PROVE order'[i][1] \in 1..sent
      OBVIOUS
    <3>1. PICK k, t : k = order'[i][1] /\ t = order'[i][2]
      OBVIOUS
    <3>2. Reached(k, t)'
      BY <3>1 DEF Reached
    <3> QED
      BY <1>3, <1>4, <3>1, <3>2, InPlace DEF IInv
  <2>3. peer' \in [AllSockets -> Nat \cup {None}] /\ pinned' \in Sockets \cup {None}
    BY <1>5, <1>6 DEF IInv, Shape, AllSockets
  <2>4. \A t \in AllSockets : peer'[t] # None <=> pinned' = t
    <3>1. \A t \in AllSockets : peer[t] # None <=> pinned = t
      BY DEF IInv, Shape
    <3>2. CASE pinned = None /\ pinned' = s /\ peer' = [peer EXCEPT ![s] = send_seq[m]]
      <4>1. peer'[s] = send_seq[m] /\ \A t \in AllSockets \ {s} : peer'[t] = peer[t]
        BY <3>2 DEF IInv, Shape, AllSockets
      <4>2. \A t \in AllSockets : peer[t] = None
        BY <3>1, <3>2, NoneAssumption DEF AllSockets
      <4> QED
        BY <1>6, <3>2, <4>1, <4>2
    <3> QED
      BY <1>5, <3>1, <3>2
  <2> QED
    BY <1>1, <1>2, <1>4, <2>1, <2>2, <2>3, <2>4 DEF IInv, Shape
<1>8. Progress'
  BY <1>1, <1>2, <1>5, <1>6 DEF IInv, Progress
<1>9. Once'
  <2>1. /\ m \notin flight /\ \A t \in AllSockets : Held(m, t) => t = s
        /\ s \in AllSockets /\ flight' = flight /\ sent' = sent
    BY <1>1, <1>4 DEF IInv, Once, AllSockets
  <2>2. \A t, u \in AllSockets : \A n \in 1..sent : Held(n, t)' /\ Held(n, u)' => t = u
    BY <1>4 DEF IInv, Once
  <2>3. \A n \in flight : /\ \A t \in AllSockets : ~Held(n, t)'
                          /\ \A t \in Sockets : ~Reached(n, t)'
    BY <1>4, <2>1 DEF IInv, Once
  <2>4. \A t \in AllSockets : \A u \in Sockets : \A n \in 1..sent : ~(Held(n, t)' /\ Reached(n, u)')
    BY <1>4, <2>1 DEF IInv, Once
  <2> QED
    BY <1>4, <2>1, <2>2, <2>3, <2>4 DEF Once
<1>10. Heard'
  <2>1. stage = "wait" => m = 1
    BY <1>3 DEF IInv, Progress
  <2>2. wasPinned => pinned' = pinned /\ peer' = peer
    BY <1>5 DEF IInv, Progress
  <2>3. stage = "wait" /\ pinned' # None => peer'[pinned'] = send_seq[1]
    BY <1>5, <2>1 DEF IInv, Heard, Shape, AllSockets
  <2> QED
    BY <1>1, <1>2, <1>4, <2>2, <2>3 DEF IInv, Heard, AllSockets
<1>11. Hosts'
  <2>1. Hears(s)
    BY <1>3, <1>4 DEF IInv, Hosts
  <2>2. intruder = None => buffer'[Other] = << >>
    BY <1>1 DEF IInv, Hosts, Shape, AllSockets, Sockets, Other
  <2> QED
    BY <1>1, <1>2, <1>4, <1>5, <2>1, <2>2 DEF IInv, Hosts, AllSockets
<1>12. Kept'
  <2> SUFFICES ASSUME Calm' PROVE Kept'
    BY DEF Kept
  <2>1. Calm /\ Kept /\ stage' # "close"
    BY <1>1 DEF Calm, IInv
  <2>2. CASE pinned' = pinned /\ peer' = peer
    <3>1. \A k : Due(k)' = Due(k)
      BY <1>1, <2>2, SameDue
    <3>2. \A k : Due(k) \subseteq AllSockets
      BY DEF Due, IInv, Shape, AllSockets
    <3> QED
      BY <1>1, <1>2, <1>4, <2>1, <2>2, <3>1, <3>2 DEF Kept
  <2>3. CASE auto_connect /\ pinned = None /\ pinned' = s /\ peer' = [peer EXCEPT ![s] = send_seq[m]]
    <3>1. stage = "wait"
      BY <1>1, <1>6, <2>1, <2>3 DEF Kept, IInv, Progress
    <3>2. sent = 1 /\ m = 1 /\ 1..sent = {1} /\ peer'[s] = 1
      BY <1>3, <1>6, <2>3, <3>1 DEF IInv, Progress, Shape, AllSockets
    <3>3. Due(1)' = {s}
      BY <1>2, <1>6, <2>3 DEF Due
    <3>4. Reached(1, s)'
      BY <1>4, <3>2
    <3> QED
      BY <1>1, <2>1, <2>3, <3>1, <3>2, <3>3, <3>4 DEF Kept
  <2> QED
    BY <1>5, <2>2, <2>3
<1> QED
  BY <1>7, <1>8, <1>9, <1>10, <1>11, <1>12 DEF IInv

LEMMA WaitOverStep == ASSUME IInv, WaitOver PROVE IInv'
<1>1. /\ stage = "wait" /\ stage' = "burst"
      /\ UNCHANGED <<scenario, bound, intruder, full, sent, flight, buffer, peer, order, pinned>>
  BY DEF WaitOver
<1>2. /\ send_seq' = send_seq /\ expected' = expected /\ (auto_connect' <=> auto_connect)
      /\ \A t \in Sockets : Hears(t)' <=> Hears(t)
  BY <1>1, SameScenario
<1>3. \A k, t : (Held(k, t)' <=> Held(k, t)) /\ (Reached(k, t)' <=> Reached(k, t))
  BY <1>1, SameTraffic
<1>4. \A k : Due(k)' = Due(k)
  BY <1>1, SameDue
<1>5. wasPinned' <=> pinned # None
  <2>1. wasPinned' = (pinned # None)
    BY DEF WaitOver
  <2> QED
    BY <2>1, Zenon
<1>6. ~late' => ~late /\ ~(received = 0 /\ Pending)
  <2>1. late' = (late \/ (received = 0 /\ Pending))
    BY DEF WaitOver
  <2> QED
    BY <2>1, Zenon
<1>7. expected \in Nat /\ expected > 1 /\ send_seq[1] = 1 /\ sent = 1 /\ 1..sent = {1} /\ auto_connect
  BY <1>1, SendSeq DEF IInv, Shape, Progress
<1>8. Shape'
  BY <1>1, <1>2 DEF IInv, Shape, Stages
<1>9. Progress' /\ Once'
  BY <1>1, <1>2, <1>3, <1>5, <1>7 DEF IInv, Progress, Once
<1>10. Heard' /\ Hosts'
  BY <1>1, <1>2, <1>3, <1>5, <1>7 DEF IInv, Heard, Hosts
<1>11. Kept'
  <2> SUFFICES ASSUME Calm' PROVE Kept'
    BY DEF Kept
  <2>1. Calm /\ Kept /\ ~(received = 0 /\ Pending)
    BY <1>1, <1>6 DEF Calm, IInv
  <2>2. pinned # None
    <3> SUFFICES ASSUME pinned = None PROVE FALSE
      OBVIOUS
    <3>1. Due(1) = Sockets /\ Due(1) # {}
      BY DEF Due, Sockets
    <3>2. 1 \in flight \/ \E s \in Sockets : Held(1, s) \/ Reached(1, s)
      BY <1>7, <2>1, <3>1 DEF Kept
    <3>3. order = << >> /\ received = 0
      BY <1>7 DEF IInv, Progress, received
    <3>4. \A s : ~Reached(1, s)
      BY <3>3, Nothing DEF Reached
    <3>5. \A s : Held(1, s) => buffer[s] # << >>
      BY Nothing DEF Held
    <3> QED
      BY <2>1, <3>2, <3>3, <3>4, <3>5 DEF Pending
  <2> QED
    BY <1>1, <1>2, <1>3, <1>4, <1>5, <2>1, <2>2 DEF Kept
<1> QED
  BY <1>8, <1>9, <1>10, <1>11 DEF IInv

(* When as many were received as were sent, it was all of them.             *)
LEMMA AllReached ==
    ASSUME Shape, Once, sent = expected, received >= expected, NEW n \in 1..expected
    PROVE  \E s \in Sockets : Reached(n, s)
<1>1. PICK o \in Seq(Nat \X Sockets) : o = order
  BY DEF Shape
<1>2. PICK k \in Nat : k = expected
  BY SendSeq DEF Shape
<1>3. PICK l \in Nat : l = Len(o) /\ DOMAIN o = 1..l
  BY <1>1
<1>4. \A i \in 1..l : o[i] \in Nat \X Sockets /\ o[i][1] \in 1..k /\ o[i][2] \in Sockets
  BY <1>1, <1>2, <1>3 DEF Shape
<1>5. \A i, j \in 1..l : o[i][1] = o[j][1] => i = j
  BY <1>1, <1>3 DEF Once
<1> DEFINE f == [i \in 1..l |-> o[i][1]]
<1>6. f \in Injection(1..l, 1..k)
  BY <1>4, <1>5 DEF Injection, IsInjective
<1>7. IsFiniteSet(1..l) /\ Cardinality(1..l) = l /\ IsFiniteSet(1..k) /\ Cardinality(1..k) = k
  BY FS_Interval
<1>8. l >= k
  BY <1>1, <1>2, <1>3 DEF received
<1> HIDE DEF f
<1>9. Cardinality(1..l) <= Cardinality(1..k)
  BY <1>6, <1>7, FS_Injection
<1>10. Cardinality(1..l) = Cardinality(1..k)
  BY <1>7, <1>8, <1>9
<1>11. f \in Surjection(1..l, 1..k)
  BY <1>6, <1>7, <1>10, FS_Injection
<1>12. \E i \in 1..l : f[i] = n
  BY <1>2, <1>11 DEF Surjection
<1> QED
  BY <1>1, <1>3, <1>4, <1>12 DEF Reached, f

LEMMA DrainOverStep == ASSUME IInv, DrainOver PROVE IInv'
<1>1. /\ stage = "drain" /\ stage' = "close"
      /\ UNCHANGED <<scenario, bound, intruder, full, sent, flight, buffer, peer, order, pinned, wasPinned>>
  BY DEF DrainOver
<1>2. /\ send_seq' = send_seq /\ expected' = expected /\ (auto_connect' <=> auto_connect)
      /\ \A t \in Sockets : Hears(t)' <=> Hears(t)
  BY <1>1, SameScenario
<1>3. \A k, t : (Held(k, t)' <=> Held(k, t)) /\ (Reached(k, t)' <=> Reached(k, t))
  BY <1>1, SameTraffic
<1>4. \A k : Due(k)' = Due(k)
  BY <1>1, SameDue
<1>5. ~late' => ~late /\ ~(received < expected /\ Pending)
  <2>1. late' = (late \/ (received < expected /\ Pending))
    BY DEF DrainOver
  <2> QED
    BY <2>1, Zenon
<1>6. expected \in Nat /\ sent = expected /\ received \in Nat
  BY <1>1, SendSeq DEF IInv, Shape, Progress, received
<1>7. Shape'
  BY <1>1, <1>2 DEF IInv, Shape, Stages
<1>8. Progress' /\ Once' /\ Heard' /\ Hosts'
  BY <1>1, <1>2, <1>3 DEF IInv, Progress, Once, Heard, Hosts
<1>9. Kept'
  <2> SUFFICES ASSUME Calm' PROVE Kept'
    BY DEF Kept
  <2>1. Calm /\ Kept /\ ~(received < expected /\ Pending)
    BY <1>1, <1>5 DEF Calm, IInv
  <2>2. ASSUME NEW k \in 1..sent, Due(k) # {}
        PROVE  \E s \in Due(k) : Reached(k, s)
    <3>1. k \in flight \/ \E s \in Due(k) : Held(k, s) \/ Reached(k, s)
      BY <2>1, <2>2 DEF Kept
    <3>2. Due(k) \subseteq Sockets
      BY DEF Due, IInv, Shape
    <3>3. CASE ~Pending
      <4>1. \A s \in Sockets : ~Held(k, s)
        BY <3>3, Nothing DEF Pending, Held
      <4> QED
        BY <3>1, <3>2, <3>3, <4>1 DEF Pending
    <3>4. CASE received >= expected
      <4>1. PICK s \in Sockets : Reached(k, s)
        BY <1>6, <3>4, AllReached DEF IInv
      <4>2. k \notin flight /\ \A t \in AllSockets : ~Held(k, t)
        BY <4>1 DEF IInv, Once
      <4> QED
        BY <3>1, <3>2, <4>2 DEF AllSockets
    <3> QED
      BY <1>6, <2>1, <3>3, <3>4
  <2> QED
    BY <1>1, <1>2, <1>3, <1>4, <1>6, <2>1, <2>2 DEF Kept
<1> QED
  BY <1>7, <1>8, <1>9 DEF IInv

-----------------------------------------------------------------------------
LEMMA Invariance == Spec => []IInv
<1>1. IInv /\ [Next]_vars => IInv'
  BY TakePortStep, TryBindStep, TransmitStep, SendBufferStep, DeliverStep, ReadOnceStep,
     WaitOverStep, DrainOverStep, CloseStep, StutterStep DEF Next, Harness
<1> QED
  BY <1>1, IInvInit, PTL DEF Spec

LEMMA AtMostOne ==
    ASSUME NEW S, \A a, b \in S : a = b
    PROVE  Cardinality(S) = IF S = {} THEN 0 ELSE 1
<1>1. CASE S = {}
  BY <1>1, FS_EmptySet
<1>2. CASE S # {}
  <2>1. PICK a : S = {a}
    BY <1>2
  <2> QED
    BY <2>1, FS_Singleton
<1> QED
  BY <1>1, <1>2

(* run_scenario's state has its types; a datagram is under way, in one      *)
(* socket's buffer or counted, never in two places (delivery).              *)
THEOREM TypesOfAScenario == Spec => []TypeOK
<1>1. IInv => TypeOK
  <2> SUFFICES ASSUME IInv, NEW n \in 1..sent PROVE Places(n) <= 1
    BY NoneAssumption DEF IInv, Shape, TypeOK, AllSockets, Places
  <2> DEFINE A == {s \in Sockets \cup {Other} : \E i \in DOMAIN buffer[s] : buffer[s][i] = n}
             B == {i \in DOMAIN order : order[i][1] = n}
             C == flight \cap {n}
  <2>1. A = {s \in AllSockets : Held(n, s)}
    BY DEF AllSockets, Held
  <2>2. B # {} => \E s \in Sockets : Reached(n, s)
    BY DEF IInv, Shape, Reached
  <2>3. Cardinality(A) = IF A = {} THEN 0 ELSE 1
    <3>1. \A a, b \in A : a = b
      BY <2>1 DEF IInv, Once
    <3> HIDE DEF A
    <3> QED
      BY <3>1, AtMostOne
  <2>4. Cardinality(B) = IF B = {} THEN 0 ELSE 1
    <3>1. \A a, b \in B : a = b
      BY DEF IInv, Once
    <3> HIDE DEF B
    <3> QED
      BY <3>1, AtMostOne
  <2>5. Cardinality(C) = IF C = {} THEN 0 ELSE 1
    <3>1. \A a, b \in C : a = b
      OBVIOUS
    <3> HIDE DEF C
    <3> QED
      BY <3>1, AtMostOne
  <2>6. (A = {} \/ B = {}) /\ (A = {} \/ C = {}) /\ (B = {} \/ C = {})
    BY <2>1, <2>2 DEF IInv, Once
  <2>7. Places(n) = Cardinality(A) + Cardinality(B) + Cardinality(C)
    BY DEF Places
  <2> HIDE DEF A, B, C
  <2> QED
    BY <2>3, <2>4, <2>5, <2>6, <2>7
<1> QED
  BY <1>1, Invariance, PTL

(* The socket that run_scenario connected before the burst, if it connected *)
(* one by then, counts nobody but its peer, whatever arrives when and       *)
(* whoever shares the port.                                                 *)
THEOREM PinnedSocketsHearOne == Spec => []PinnedHearsItsPeer
<1>1. IInv => PinnedHearsItsPeer
  <2> SUFFICES ASSUME IInv, wasPinned, NEW i \in DOMAIN order, order[i][2] = pinned
               PROVE  send_seq[order[i][1]] = peer[pinned]
    BY DEF PinnedHearsItsPeer
  <2>1. pinned \in Sockets /\ order[i][1] \in 1..sent
    BY DEF IInv, Shape, Progress
  <2>2. Reached(order[i][1], pinned)
    BY DEF Reached
  <2> QED
    BY <2>1, <2>2 DEF IInv, Heard
<1> QED
  BY <1>1, Invariance, PTL

-----------------------------------------------------------------------------
(* A socket that received these datagrams and no others counts them.        *)
LEMMA Tally ==
    ASSUME IInv, NEW s \in Sockets, NEW N \in SUBSET (1..expected),
           \A i \in DOMAIN order : order[i][2] = s => order[i][1] \in N,
           \A n \in N : Reached(n, s)
    PROVE  Count(s) = Cardinality(N)
<1> DEFINE S == {i \in DOMAIN order : order[i][2] = s}
           f == [i \in S |-> order[i][1]]
<1>1. IsFiniteSet(S)
  <2>1. PICK l \in Nat : DOMAIN order = 1..l
    <3>1. order \in Seq(Nat \X Sockets)
      BY DEF IInv, Shape
    <3>2. DOMAIN order = 1..Len(order) /\ Len(order) \in Nat
      BY <3>1
    <3> QED
      BY <3>2
  <2>2. IsFiniteSet(1..l)
    BY FS_Interval
  <2>3. S \subseteq 1..l
    BY <2>1
  <2> HIDE DEF S
  <2> QED
    BY <2>2, <2>3, FS_Subset
<1>2. f \in [S -> N]
  OBVIOUS
<1>3. \A i, j \in S : f[i] = f[j] => i = j
  BY DEF IInv, Once
<1>4. \A n \in N : \E i \in S : f[i] = n
  BY DEF Reached
<1>5. Count(s) = Cardinality(S)
  BY DEF Count
<1> HIDE DEF S, f
<1>6. f \in Bijection(S, N)
  BY <1>2, <1>3, <1>4 DEF Bijection, Injection, Surjection, IsInjective
<1> QED
  BY <1>1, <1>5, <1>6, FS_Bijection DEF ExistsBijection

LEMMA TallyAll ==
    ASSUME IInv, sent = expected, \A n \in 1..expected : \E s \in Sockets : Reached(n, s)
    PROVE  received = expected
<1>1. PICK l \in Nat : l = Len(order) /\ DOMAIN order = 1..l
  BY DEF IInv, Shape
<1>2. PICK k \in Nat : k = expected
  BY SendSeq DEF IInv, Shape
<1> DEFINE f == [i \in 1..l |-> order[i][1]]
<1>3. f \in [1..l -> 1..k]
  BY <1>1, <1>2 DEF IInv, Shape
<1>4. \A i, j \in 1..l : f[i] = f[j] => i = j
  BY <1>1 DEF IInv, Once
<1>5. \A n \in 1..k : \E i \in 1..l : f[i] = n
  BY <1>1, <1>2 DEF Reached
<1> HIDE DEF f
<1>6. f \in Bijection(1..l, 1..k)
  BY <1>3, <1>4, <1>5 DEF Bijection, Injection, Surjection, IsInjective
<1>7. IsFiniteSet(1..l) /\ Cardinality(1..l) = l /\ Cardinality(1..k) = k
  BY FS_Interval
<1>8. Cardinality(1..k) = Cardinality(1..l)
  BY <1>6, <1>7, FS_Bijection DEF ExistsBijection
<1> QED
  BY <1>1, <1>2, <1>7, <1>8 DEF received

(* The row that run_scenario reports, for any amount of traffic: without a  *)
(* late datagram or another process everything is counted, and in auto mode *)
(* at the socket that was connected and at its sibling, as the README's     *)
(* table has it (run_scenario, format_row).                                 *)
THEOREM RowsAreRight == Spec => []RowIsRight
<1>1. IInv => RowIsRight
  <2> SUFFICES ASSUME IInv, stage = "close", sent > 0, ~late, intruder = None
               PROVE  IF auto_connect
                        THEN /\ pinned # None /\ Count(pinned) = First
                             /\ \A s \in Sockets \ {pinned} :
                                    Count(s) = IF Hears(s) THEN expected - First ELSE 0
                        ELSE received = expected
    BY DEF RowIsRight, Hears
  <2>1. /\ expected \in Nat /\ sent = expected /\ Kept /\ Calm
        /\ auto_connect => wasPinned /\ pinned \in Sockets /\ peer[pinned] = 1
        /\ ~auto_connect => pinned = None
    <3>1. expected \in Nat /\ sent = expected
      BY SendSeq DEF IInv, Shape, Progress
    <3>2. Kept /\ Calm
      BY DEF IInv, Calm
    <3>3. auto_connect => wasPinned /\ pinned # None /\ peer[pinned] = 1
      BY <3>2 DEF IInv, Kept, Progress
    <3>4. pinned \in Sockets \cup {None} /\ (~auto_connect => pinned = None)
      BY DEF IInv, Shape, Progress
    <3> QED
      BY <3>1, <3>2, <3>3, <3>4
  <2>2. \A n \in 1..expected : Due(n) # {} => \E s \in Due(n) : Reached(n, s)
    BY <2>1 DEF Kept
  <2>3. CASE ~auto_connect
    <3>1. \A n : Due(n) = Sockets /\ Due(n) # {}
      BY <2>1, <2>3 DEF Due, Sockets
    <3> QED
      BY <2>1, <2>2, <2>3, <3>1, TallyAll
  <2>4. CASE auto_connect
    <3> DEFINE N == {n \in 1..expected : send_seq[n] = 1}
    <3>0. PICK p \in Sockets : p = pinned /\ p # None
      BY <2>1, <2>4, NoneAssumption
    <3>1. \A n \in N : Reached(n, p)
      BY <2>2, <3>0 DEF Due
    <3>2. \A i \in DOMAIN order : order[i][1] \in 1..expected /\ Reached(order[i][1], order[i][2])
                                 /\ order[i][2] \in Sockets
      <4>1. PICK o \in Seq(Nat \X Sockets) : o = order
        BY DEF IInv, Shape
      <4>2. \A i \in DOMAIN o : o[i] \in Nat \X Sockets
        BY <4>1
      <4>3. \A i \in DOMAIN order : order[i][1] \in 1..expected
        BY <2>1 DEF IInv, Shape
      <4>4. \A i \in DOMAIN order : Reached(order[i][1], order[i][2])
        BY DEF Reached
      <4> QED
        BY <4>1, <4>2, <4>3, <4>4
    <3>3. \A i \in DOMAIN order : order[i][2] = p => order[i][1] \in N
      BY <2>1, <2>4, <3>0, <3>2 DEF IInv, Heard
    <3>4. Count(p) = Cardinality(N) /\ First = Cardinality(N)
      <4>1. N \in SUBSET (1..expected) /\ First = Cardinality(N)
        BY DEF First
      <4> HIDE DEF N
      <4> QED
        BY <3>1, <3>3, <4>1, Tally
    <3>5. ASSUME NEW s \in Sockets \ {p}
          PROVE  Count(s) = IF Hears(s) THEN expected - First ELSE 0
      <4> DEFINE M == (1..expected) \ N
      <4>1. CASE Hears(s)
        <5>1. \A t \in Sockets : t = s \/ t = p
          BY <3>5 DEF Sockets
        <5>2. \A n \in M : Reached(n, s)
          <6> SUFFICES ASSUME NEW n \in M PROVE Reached(n, s)
            OBVIOUS
          <6>1. Due(n) = {t \in Sockets \ {p} : Hears(t)}
            BY <3>0 DEF Due
          <6>2. Due(n) = {s}
            BY <3>5, <4>1, <5>1, <6>1
          <6> QED
            BY <2>2, <6>2
        <5>3. \A i \in DOMAIN order : order[i][2] = s => order[i][1] \in M
          <6> SUFFICES ASSUME NEW i \in DOMAIN order, order[i][2] = s, order[i][1] \in N PROVE FALSE
            BY <3>2
          <6>1. PICK j \in DOMAIN order : order[j][1] = order[i][1] /\ order[j][2] = p
            BY <3>1 DEF Reached
          <6>2. i = j
            BY <6>1 DEF IInv, Once
          <6> QED
            BY <3>5, <6>1, <6>2
        <5>4. M \in SUBSET (1..expected) /\ (1..expected) \cap N = N
          OBVIOUS
        <5>5. Count(s) = Cardinality(M)
          <6> HIDE DEF M
          <6> QED
            BY <5>2, <5>3, <5>4, Tally
        <5>6. IsFiniteSet(1..expected) /\ Cardinality(1..expected) = expected
          BY <2>1, FS_Interval
        <5>7. Cardinality(M) = Cardinality(1..expected) - Cardinality((1..expected) \cap N)
          <6> HIDE DEF N
          <6> QED
            BY <5>6, FS_Difference
        <5> QED
          BY <3>4, <4>1, <5>4, <5>5, <5>6, <5>7
      <4>2. CASE ~Hears(s)
        <5>1. \A i \in DOMAIN order : order[i][2] # s
          BY <2>1, <3>2, <4>2 DEF IInv, Hosts
        <5>2. Count(s) = Cardinality({})
          <6>1. {i \in DOMAIN order : order[i][2] = s} = {}
            BY <5>1
          <6> QED
            BY <6>1 DEF Count
        <5> QED
          BY <4>2, <5>2, FS_EmptySet
      <4> QED
        BY <4>1, <4>2
    <3> QED
      BY <2>4, <3>0, <3>4, <3>5
  <2> QED
    BY <2>3, <2>4
<1> QED
  BY <1>1, Invariance, PTL
=============================================================================
