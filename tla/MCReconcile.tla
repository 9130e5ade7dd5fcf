---------------------------- MODULE MCReconcile ----------------------------
(* A small calendar for Reconcile: two sessions, a weekend and two sessions *)
(* more; Fyers misses two last closes, and one session does not agree.      *)
EXTENDS Reconcile

Week == {-4, -3, 0, 1}
Served == {[s \in Week |-> IF s = 0 THEN "bad" ELSE IF s = -4 THEN "good" ELSE "off"]}
============================================================================
