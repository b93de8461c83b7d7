---------------------------- MODULE MCHitCounters ----------------------------
(* Small instances of HitCounters for TLC.                                  *)
EXTENDS HitCounters

CONSTANTS c1, c2

BothMaps == {Cpus, {All}}
=============================================================================
