--------------------------- MODULE MCApplySessions ---------------------------
(* Two lots, a sell that takes a part of the first, one that takes what is *)
(* left of both.                                                           *)
EXTENDS ApplySessions, TLC

FewShares == (1 :> 2) @@ (2 :> 2) @@ (3 :> 1) @@ (4 :> 3)
=============================================================================
