----------------------------- MODULE MCUdpMatrix -----------------------------
(* Small instances of UdpMatrix for TLC.                                    *)
EXTENDS UdpMatrix

Options == {{}, {"addr"}, {"port"}, {"addr", "port"}}
Addrs == {"loopback", "any"}
Targets == {"loopback", "lan"}

Scenario(os, a1, r1, a2, r2, target, topology, connect) ==
    [os |-> os, addr |-> [s1 |-> a1, s2 |-> a2], reuse |-> [s1 |-> r1, s2 |-> r2],
     target |-> target, topology |-> topology, connect |-> connect]

(* Every pair of addresses and options with a little traffic, and all the   *)
(* traffic for one pair of options that always binds.                       *)
Binds ==
    { Scenario(os, a1, r1, a2, r2, "loopback", "single", "none") :
        os \in {"linux", "macos"}, a1 \in Addrs, a2 \in Addrs, r1 \in Options, r2 \in Options }
Traffic ==
    { Scenario(os, a1, {"port"}, a2, {"port"}, t, top, c) :
        os \in {"linux", "macos"}, a1 \in Addrs, a2 \in Addrs, t \in Targets,
        top \in {"single", "dual", "many"}, c \in {"none", "auto"} }
MatrixScenarios == Binds \cup Traffic

Neighbours == {<<"any", {"port"}>>, <<"loopback", {"addr", "port"}>>, <<"any", {}>>}
=============================================================================
