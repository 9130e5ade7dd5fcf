------------------------------ MODULE DailyDuty ------------------------------
(* What the scheduler promises of a job that is due once a day: one at a    *)
(* time, never again on a day that is done; a job that dies leaves the day  *)
(* undone.                                                                  *)
CONSTANTS Days, None

VARIABLES active,   \* the day of the job that is running, or None
          doneDay   \* the last day that is done, or None

Init == active = None /\ doneDay = None

Start(d) ==
  /\ active = None /\ doneDay # d
  /\ active' = d
  /\ UNCHANGED doneDay

Finish ==
  /\ active # None
  /\ doneDay' = active
  /\ active' = None

Die ==
  /\ active # None
  /\ active' = None
  /\ UNCHANGED doneDay

Next == (\E d \in Days : Start(d)) \/ Finish \/ Die

Spec == Init /\ [][Next]_<<active, doneDay>>
=============================================================================
