------------------------- MODULE MCCorporateActions -------------------------
\* Two dividends that go ex together after a bonus and before a split.  A load
\* by the API is of this company or, with no company of these, of others.
EXTENDS CorporateActions, TLC

MCCompany == 1 :> "c" @@ 2 :> "c" @@ 3 :> "c" @@ 4 :> "c"
MCKind    == 1 :> "dividend" @@ 2 :> "dividend" @@ 3 :> "split" @@ 4 :> "bonus"
MCFirstEx == 1 :> 2 @@ 2 :> 2 @@ 3 :> 3 @@ 4 :> 1
MCAmount  == 1 :> 1 @@ 2 :> 2 @@ 3 :> 0 @@ 4 :> 0
MCFactor  == 1 :> One @@ 2 :> One @@ 3 :> [num |-> 1, den |-> 5] @@ 4 :> [num |-> 1, den |-> 2]
MCClose   == [d \in Days |-> IF d < 1 THEN 40 ELSE IF d < 3 THEN 20 + d ELSE d + 2]
MCWindows == {<<1, 2>>}
=============================================================================
