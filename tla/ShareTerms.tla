----------------------------- MODULE ShareTerms -----------------------------
(***************************************************************************)
(* Share terms: what a split or a bonus does to a share count.            *)
(*                                                                         *)
(* A corporate action replaces OldShares[a] shares by NewShares[a] from    *)
(* its ex-date on (the code keeps the inverse, price_factor).  A Ratio is  *)
(* a product of such factors; counts are multiplied by it and rounded the  *)
(* way Python's round() does.  The runs keep to ratios and counts for      *)
(* which the code's floating point division is exact enough to round as    *)
(* the rational arithmetic of this module does.                            *)
(***************************************************************************)
EXTENDS Integers, FiniteSets

CONSTANTS Actions,     \* split and bonus rows that may ever be known
          ExDate,      \* the day an action takes effect
          NewShares,   \* shares held after the action ...
          OldShares    \* ... for this many held before it

ASSUME TermsAssumption ==
  /\ IsFiniteSet(Actions)
  /\ ExDate    \in [Actions -> Nat]
  /\ NewShares \in [Actions -> Nat \ {0}]
  /\ OldShares \in [Actions -> Nat \ {0}]
  \* A sub-division or a bonus never leaves fewer shares than before.
  /\ \A a \in Actions : OldShares[a] <= NewShares[a]

Ratio    == [new : Nat \ {0}, old : Nat \ {0}]
Unchanged == [new |-> 1, old |-> 1]
Times(r, s) == [new |-> r.new * s.new, old |-> r.old * s.old]

(* The product of the factors of a set of actions. *)
Combined[S \in SUBSET Actions] ==
  IF S = {} THEN Unchanged
  ELSE LET a == CHOOSE a \in S : TRUE
       IN  Times(Combined[S \ {a}],
                 [new |-> NewShares[a], old |-> OldShares[a]])

(* The known actions that take effect after `since`, up to and on `upTo`. *)
EffectiveIn(known, since, upTo) ==
  {a \in known : since < ExDate[a] /\ ExDate[a] <= upTo}

(* round(n / d): to the nearest integer, a tie to the even one. *)
RoundHalfEven(n, d) ==
  LET q == n \div d
      r == n % d
  IN  IF 2 * r < d \/ (2 * r = d /\ q % 2 = 0) THEN q ELSE q + 1

(* round(quantity / factor): a share count in the terms the ratio leads to *)
Restate(quantity, ratio) == RoundHalfEven(quantity * ratio.new, ratio.old)

(* Variant: the factor the wrong way round. *)
IsFractionalInverse(quantity, ratio) == (quantity * ratio.new) % ratio.old # 0

(* Does a count, taken back to the terms of its fill, leave a fraction?    *)
IsFractional(quantity, ratio) == (quantity * ratio.old) % ratio.new # 0
=============================================================================
