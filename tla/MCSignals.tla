----------------------------- MODULE MCSignals ------------------------------
EXTENDS Signals

\* A bar in a tight, narrow range on the way up, in which nothing happens.
Dull == [trend |-> TRUE, tight |-> TRUE, strength |-> 0, accelerates |-> FALSE,
         retests |-> FALSE, green |-> TRUE, positive |-> TRUE, bullish |-> FALSE,
         narrow |-> TRUE, above |-> FALSE, upper |-> FALSE, room |-> TRUE,
         on |-> TRUE, momentum |-> 0, volume |-> 0, gap |-> 1]

\* A weak breakout, out of the upper band, against Supertrend and MACD.
Weak == [Dull EXCEPT !.strength = 1, !.accelerates = TRUE, !.above = TRUE, !.volume = 3,
                     !.tight = FALSE, !.room = FALSE, !.green = FALSE, !.positive = FALSE,
                     !.gap = 2]

\* A strong one that releases the squeeze.
Strong == [Dull EXCEPT !.strength = 2, !.accelerates = TRUE,
                       !.on = FALSE, !.momentum = 1, !.narrow = FALSE, !.volume = 2,
                       !.room = FALSE]

\* A quiet bar that holds the old resistance; enough for Confluence.
Retest == [Dull EXCEPT !.retests = TRUE, !.bullish = TRUE, !.upper = TRUE, !.gap = 0]

MCKinds == {Dull, Weak, Strong, Retest}
MCHistory == <<Dull, Strong>>
MCRequests == {Strategies}
=============================================================================
