---------------------------- MODULE MCPublishing -----------------------------
(* Small instances of Publishing for TLC.                                   *)
EXTENDS Publishing

(* The second commit changes the renderer, the third the query as well.     *)
QueryOf == <<"q1", "q1", "q2">>
RendererOf == <<"r1", "r2", "r3">>
=============================================================================
