------------------------------ MODULE MCLedger ------------------------------
(* Small ledgers for TLC: values for the constants of Ledger. *)
EXTENDS Ledger, TLC

NoActions == [a \in {} |-> 0]

(* Two bonuses that leave fractions, on days 1 and 2; a lot opened before   *)
(* them and one on the first ex-date; two sells, one of them corrected.    *)
BookExDate   == ("b1" :> 1) @@ ("b2" :> 2)
BookNew      == ("b1" :> 3) @@ ("b2" :> 4)
BookOld      == ("b1" :> 2) @@ ("b2" :> 3)
BookDays     == (1 :> 0) @@ (2 :> 1) @@ (3 :> 1) @@ (4 :> 1)
BookReported == (1 :> {5}) @@ (2 :> {4}) @@ (3 :> {1, 2}) @@ (4 :> {6})

(* Two lots and two sells for an operator to reattribute.                  *)
ManualDays     == (1 :> 0) @@ (2 :> 0) @@ (3 :> 0) @@ (4 :> 0)
ManualReported == (1 :> {1}) @@ (2 :> {2}) @@ (3 :> {1}) @@ (4 :> {2})

(* A 2-for-1 split on day 1 and a 1:2 bonus (3 shares for 2) on day 2.     *)
TermsExDate == ("split" :> 1) @@ ("bonus" :> 2)
TermsNew    == ("split" :> 2) @@ ("bonus" :> 3)
TermsOld    == ("split" :> 1) @@ ("bonus" :> 2)
TermsDays     == (1 :> 0) @@ (2 :> 1) @@ (3 :> 1)
TermsReported == (1 :> {1, 3}) @@ (2 :> {1}) @@ (3 :> {1})
=============================================================================
