----------------------------- MODULE MCDailyJob -----------------------------
(* Small calendars for DailyJob. *)
EXTENDS DailyJob, TLC

Interchangeable == Permutations(Ticks)
=============================================================================
