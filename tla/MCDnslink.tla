------------------------------ MODULE MCDnslink ------------------------------
(* Small instances of Dnslink for TLC.                                      *)
EXTENDS Dnslink, TLC

CONSTANTS t1, connect4, recvmsg4, one, gw, loop, p53, p5353

OneObject == {[tags |-> (connect4 :> t1 @@ recvmsg4 :> t1), maps |-> {"cfg_map", "hit_cnt"}]}
OddObjects == OneObject \cup
    { [tags |-> << >>, maps |-> {"cfg_map", "hit_cnt"}],
      [tags |-> (connect4 :> t1), maps |-> {"cfg_map"}] }

Argv(sub, wf, rd, c, b, t, w) ==
    [sub |-> sub, wellFormed |-> wf, readable |-> rd, cgroup |-> c, bind |-> b,
     target |-> <<t, p53>>, watch |-> w]

(* As the kernel starts PID 1, and with an init subcommand and options.     *)
BootArgvs ==
    { Argv("none", TRUE, TRUE, FALSE, loop, one, FALSE),
      Argv("init", TRUE, FALSE, FALSE, loop, one, FALSE),
      Argv("init", TRUE, TRUE, FALSE, Junk, one, FALSE),
      Argv("init", FALSE, TRUE, FALSE, loop, one, FALSE),
      [Argv("init", TRUE, TRUE, FALSE, loop, one, FALSE) EXCEPT !.target = <<one, p5353>>] }
PlainBoot == {Argv("none", TRUE, TRUE, FALSE, loop, one, FALSE)}
AttachArgvs ==
    { Argv("attach", TRUE, TRUE, c, loop, t, w) :
        c \in BOOLEAN, t \in {one, Junk}, w \in BOOLEAN }
    \cup { Argv("other", TRUE, TRUE, FALSE, loop, one, FALSE),
           Argv("attach", TRUE, FALSE, TRUE, loop, one, FALSE) }

AllArgvs == BootArgvs \cup AttachArgvs

Quiet == [key |-> "quiet", value |-> Junk]
Gateway(v) == [key |-> "dnslink.gateway", value |-> v]
Port(v) == [key |-> "dnslink.port", value |-> v]
CmdlineTokens == {Quiet, Gateway(gw), Gateway(Junk), Port(p5353), Port(Junk)}
ShortCmdlines == UNION {[1..n -> CmdlineTokens] : n \in 0..2} \cup
    { <<a, b, Quiet>> : a \in CmdlineTokens, b \in CmdlineTokens }
=============================================================================
