----------------------------- MODULE ShareCounts -----------------------------
(* Sums of share counts, as cardinalities of sets of single shares. *)
EXTENDS Integers, FiniteSets

(* Shares of the lots S; a count that is not positive holds none. *)
Shares(count, S) == UNION {{b} \X (1 .. count[b]) : b \in S}
Total(count, S)  == Cardinality(Shares(count, S))
=============================================================================
