------------------------------- MODULE MCFeed -------------------------------
(* Feed on a symbol with a history from yfinance and a second one without: *)
(* the script is run for all symbols, or for one symbol at a time.         *)
EXTENDS Feed

All == [symbols |-> Symbols, limit |-> 2, allow |-> FALSE, anyway |-> FALSE]
MCInvocations == {All, [All EXCEPT !.limit = 1, !.anyway = TRUE]}
=============================================================================
