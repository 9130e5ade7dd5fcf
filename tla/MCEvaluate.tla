----------------------------- MODULE MCEvaluate -----------------------------
(* A lot opened on day 2, splits of two shares for one from day 3 on. *)
EXTENDS Evaluate

Bar(c, h, l, a, f) == [close |-> c, high |-> h, low |-> l, atr |-> a, flip |-> f]

\* Terms that no lot comes to are quoted too: a match may fold a split twice.
MCScale(k) == 2 ^ (6 - k)

Quiet == Bar(3, 4, 3, 1, FALSE)
Low   == Bar(1, 4, 1, 2, FALSE)
High  == Bar(7, 7, 5, 4, FALSE)

MCTrades == <<{Quiet}, {Quiet}, {Quiet, High}, {Quiet, Low}>>
MCLevels == [stop |-> 2, t1 |-> 5, t2 |-> 6]
=============================================================================
