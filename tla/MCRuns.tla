------------------------------- MODULE MCRuns -------------------------------
(* Small instances of Runs for TLC. *)
EXTENDS Runs, TLC

Interchangeable == Permutations(Requests)

Daily == {{"reap", "evaluate"}, {"reap"}}
=============================================================================
