----------------------------- MODULE MCDnsLoader -----------------------------
(* Small instances of DnsLoader for TLC.                                    *)
EXTENDS DnsLoader, TLC

CONSTANTS t1, t2, connect4, recvmsg4

(* Two versions of the embedded object that share the recvmsg4 program, so  *)
(* that one tag matches across versions and the other does not.             *)
Version(t) == [tags |-> (connect4 :> t @@ recvmsg4 :> t1), maps |-> Maps]
TwoVersions == {Version(t1), Version(t2)}

(* Objects given with --obj: one without the answer hook, one without the   *)
(* hit counters, one with no hook program and one without a rule table.     *)
OddObjects ==
    TwoVersions \cup
    { [tags |-> (connect4 :> t2), maps |-> Maps],
      [tags |-> (connect4 :> t1 @@ recvmsg4 :> t1), maps |-> {"cfg_map"}],
      [tags |-> << >>, maps |-> Maps],
      [tags |-> (connect4 :> t1), maps |-> {"hit_cnt"}] }

(* Bounds on how many runs interleave.                                      *)
AtOnce == Cardinality({r \in Runs : Active(r)})
OneAtATime == AtOnce <= 1
TwoAtATime == AtOnce <= 2

RunSymmetry == Permutations(Runs)
=============================================================================
