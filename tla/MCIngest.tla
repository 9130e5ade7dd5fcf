------------------------------ MODULE MCIngest ------------------------------
(* Runs of the API: a backfill, intraday bars only, daily bars only.       *)
EXTENDS Ingest

Backfill == [mode |-> "backfill", timeframes |-> Timeframes]
Intraday == [mode |-> "incremental", timeframes |-> {"1h", "4h"}]
Daily == [mode |-> "incremental", timeframes |-> {"1d"}]
SomeRequests == {Backfill, Intraday, Daily}
=============================================================================
