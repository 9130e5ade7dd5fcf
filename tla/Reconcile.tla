------------------------------ MODULE Reconcile ------------------------------
(* The nightly reconcile of one symbol's hourly bars with NSE's bhavcopy:   *)
(* ingest re-writes the newest sessions, the reconcile checks and patches   *)
(* them, and signals are generated unless a session failed or is pending.   *)
(* A history that Fyers has re-adjusted is rebuilt, its rows deleted.       *)
EXTENDS Integers, FiniteSets

CONSTANTS
  Sessions,      \* trading days
  FirstDay,      \* the clock runs from FirstDay
  LastDay,       \* to LastDay (a bound)
  Overlap,       \* incremental_overlap_days, calendar days
  Lookback,      \* signal_check_lookback_sessions
  Histories,     \* what Fyers may serve of the sessions, see Bars
  ExDates,       \* of splits that Fyers folds on that day or later
  MaxWrites,     \* bounds on ingest runs of the API,
  MaxCorrections,\* on times that Fyers changes what it serves,
  MaxFailures    \* and on steps that fail

(* The stored bars of a session: none, those of its first hours, and of a   *)
(* closed session those that agree with NSE, that agree in all but the last *)
(* close, and those that do not.                                            *)
Bars == {"none", "part", "good", "off", "bad"}

ASSUME ReconcileAssumption ==
  /\ Sessions \subseteq Int /\ ExDates \subseteq Int /\ FirstDay \in Int /\ LastDay \in Int
  /\ Overlap \in Nat /\ MaxWrites \in Nat /\ MaxCorrections \in Nat /\ MaxFailures \in Nat
  /\ Lookback \in Nat \ {0}
  /\ Histories \subseteq [Sessions -> {"good", "off", "bad"}]

VARIABLES
  today, closed,   \* the clock: has today's session closed
  fyers,           \* what Fyers serves of each session once it has closed
  published,       \* sessions whose bhavcopy is out
  bars,            \* candles, 1h
  stale,           \* sessions whose stored daily bars Fyers serves otherwise by now
  check,           \* bar_checks.status, 1h, or "none"
  job,             \* the daily job or the re-check that is running
  unchecked,       \* history: sessions written since a check read what is stored
  owed,            \* history: a check changed bars or lifted a hold since the
                   \* job last came to signals
  writes, corrections, failures

clock == <<today, closed>>
external == <<fyers, published>>
bounds == <<writes, corrections, failures>>
vars == <<clock, external, bars, stale, check, job, unchecked, owed, bounds>>

Status == {"none", "pass", "fail", "pending"}

Job == [kind : {"daily", "recheck"},
        pc : {"idle", "ingest", "open", "check", "write", "load", "generate"},
        asked : Int,              \* the day the job was started for
        stored : SUBSET Sessions, \* history: what was stored before its ingest
        wrote : SUBSET Sessions,  \* history: what its ingest wrote, but for
        rebuilt : BOOLEAN,        \* a rebuild, which wrote all sessions
        day : Int,                \* the newest session it checks
        todo : SUBSET Sessions,   \* what is left to check
        seen : Bars \cup {"no bhavcopy"}, \* of the session in hand, and
        prev : Status,            \* prev_status, its row
        changed : BOOLEAN,        \* changed_symbols has the symbol
        whole : BOOLEAN,          \* history: its reconcile did not raise, and
        alone : BOOLEAN]          \* no other ingest wrote since it started

TypeOK ==
  /\ today \in Int /\ closed \in BOOLEAN
  /\ fyers \in [Sessions -> Bars] /\ published \subseteq Sessions
  /\ bars \in [Sessions -> Bars] /\ stale \subseteq Sessions
  /\ check \in [Sessions -> Status]
  /\ job \in Job
  /\ unchecked \subseteq Sessions /\ owed \in BOOLEAN
  /\ writes \in Nat /\ corrections \in Nat /\ failures \in Nat

Idle == [kind |-> "daily", pc |-> "idle", asked |-> FirstDay, stored |-> {}, wrote |-> {},
         rebuilt |-> FALSE, day |-> FirstDay, todo |-> {}, seen |-> "none", prev |-> "none",
         changed |-> FALSE, whole |-> TRUE, alone |-> TRUE]

(* After the cutover: the history is downloaded, nothing of it checked. *)
Init ==
  /\ today = FirstDay /\ closed = FALSE
  /\ fyers \in Histories
  /\ published = {s \in Sessions : s < FirstDay}
  /\ bars = [s \in Sessions |-> IF s < FirstDay THEN fyers[s] ELSE "none"]
  /\ stale = {}
  /\ check = [s \in Sessions |-> "none"]
  /\ job = Idle
  /\ unchecked = {} /\ owed = FALSE
  /\ writes = 0 /\ corrections = 0 /\ failures = 0

-----------------------------------------------------------------------------
(* The clock, NSE and Fyers.                                               *)

Closed == {s \in Sessions : s < today \/ (s = today /\ closed)}

Closes ==
  /\ today \in Sessions /\ ~closed
  /\ closed' = TRUE
  /\ UNCHANGED <<today, external, bars, stale, check, job, unchecked, owed, bounds>>

MidnightPasses ==
  /\ today < LastDay /\ (today \in Sessions => closed)
  /\ today' = today + 1 /\ closed' = FALSE
  /\ UNCHANGED <<external, bars, stale, check, job, unchecked, owed, bounds>>

Publishes ==
  /\ \E s \in Closed \ published : published' = published \cup {s}
  /\ UNCHANGED <<clock, fyers, bars, stale, check, job, unchecked, owed, bounds>>

Kept == {s \in Sessions : bars[s] \in {"good", "off", "bad"}}  \* with a daily bar

(* Fyers corrects the hourly bars of a session, the daily one too or not.   *)
Corrects ==
  /\ corrections < MaxCorrections
  /\ corrections' = corrections + 1
  /\ \E s \in Closed, daily \in SUBSET Kept :
       /\ fyers[s] = "bad" /\ fyers' = [fyers EXCEPT ![s] = "good"]
       /\ daily \subseteq {s} /\ stale' = stale \cup daily
  /\ UNCHANGED <<clock, published, bars, check, job, unchecked, owed, writes, failures>>

(* Fyers folds a split into the bars before its ex-date: they agree with no *)
(* bhavcopy any more.                                                       *)
Readjusts ==
  /\ corrections < MaxCorrections
  /\ corrections' = corrections + 1
  /\ \E x \in ExDates :
       /\ x <= today
       /\ fyers' = [s \in Sessions |-> IF s < x THEN "bad" ELSE fyers[s]]
       /\ stale' = stale \cup {s \in Kept : s < x}
  /\ UNCHANGED <<clock, published, bars, check, job, unchecked, owed, writes, failures>>

-----------------------------------------------------------------------------
(* Ingest.                                                                 *)

Stored == {s \in Sessions : bars[s] # "none"}
Fetchable == {s \in Sessions : s <= today}

(* _incremental_start: Overlap days before the last stored candle; all of   *)
(* the history if there is none.                                            *)
Incremental == {d \in Fetchable : \A s \in Stored : s - Overlap <= d}

(* Upserts what Fyers answers of the sessions D; the bars of an open        *)
(* session may have begun, the one that is forming is dropped.              *)
Ingests(D) ==
  /\ \E now \in {"none", "part"} :
       bars' = [s \in Sessions |-> IF s \notin D THEN bars[s]
                                   ELSE IF s \in Closed THEN fyers[s]
                                   ELSE IF bars[s] = "none" THEN now ELSE bars[s]]
  /\ unchecked' = unchecked \cup D

(* needs_redownload: a stored daily bar before today, of those fetched      *)
(* again, differs.                                                          *)
NeedsRedownload == \E d \in stale : d < today /\ \A s \in Kept : s - Overlap <= d

(* rebuild_symbol_history: all sessions as Fyers serves them, no row left.  *)
Rebuilds ==
  /\ Ingests(Fetchable)
  /\ stale' = {}
  /\ check' = [s \in Sessions |-> "none"]

(* Upserts the sessions D, daily bars too. *)
Upserts(D) == Ingests(D) /\ stale' = stale \ D /\ UNCHANGED check

(* _ingest_symbol_fyers, incremental, of all timeframes. *)
IngestsNew == IF NeedsRedownload THEN Rebuilds ELSE Upserts(Incremental)

(* A run of the API: incremental, of the hourly timeframes only or not, or  *)
(* a backfill.                                                              *)
ApiIngests ==
  /\ writes < MaxWrites
  /\ writes' = writes + 1
  /\ \/ IngestsNew
     \/ Ingests(Incremental) /\ UNCHANGED <<stale, check>>
     \/ Upserts(Fetchable)
  /\ job' = [job EXCEPT !.alone = FALSE]
  /\ UNCHANGED <<clock, external, owed, corrections, failures>>

-----------------------------------------------------------------------------
(* The daily job (ingest, reconcile, signals) and the re-check (reconcile,  *)
(* and signals if it changed anything). The scheduler runs one at a time.   *)

LastTradingDay(s) == s \in Fetchable /\ \A r \in Fetchable : r <= s

StartDaily ==
  /\ job.pc = "idle"
  /\ \E s \in Sessions :
       /\ LastTradingDay(s)
       /\ job' = [Idle EXCEPT !.pc = "ingest", !.asked = s]
  /\ UNCHANGED <<clock, external, bars, stale, check, unchecked, owed, bounds>>

StartRecheck ==
  /\ job.pc = "idle"
  /\ job' = [Idle EXCEPT !.kind = "recheck", !.pc = "open", !.asked = today]
  /\ UNCHANGED <<clock, external, bars, stale, check, unchecked, owed, bounds>>

JobIngests ==
  /\ job.pc = "ingest"
  /\ IngestsNew
  /\ job' = [job EXCEPT !.pc = "open", !.stored = Stored, !.wrote = Incremental,
                        !.rebuilt = NeedsRedownload]
  /\ UNCHANGED <<clock, external, owed, bounds>>

(* Within the last Lookback of the sessions S (shift_sessions). *)
Recent(d, S) == Cardinality({s \in S : d < s}) < Lookback

FailCutoff(d, day) == Recent(d, {s \in Sessions : s <= day})

(* Variant: from Overlap days before the day itself. *)
RefetchedOfDay(day) == {d \in Sessions : d <= day /\ day - Overlap <= d}

(* refetched_days: from Overlap days before the session that precedes day. *)
Refetched(day) ==
  {d \in Sessions : d <= day /\ \A p \in Sessions : p < day => p - Overlap <= d}

(* Variant: pending rows are given up with the failed ones. *)
OpenRowsRecent(day) ==
  {d \in Sessions : d <= day /\ check[d] \in {"pending", "fail"} /\ FailCutoff(d, day)}

(* The rows that are looked at again. *)
OpenRows(day) ==
  {d \in Sessions :
     /\ d <= day
     /\ \/ check[d] = "pending"
        \/ check[d] = "fail" /\ FailCutoff(d, day)}

(* select_targets *)
Targets(day) == {day} \cup Refetched(day) \cup OpenRows(day)

(* Variant: the day that was asked for, closed or not. *)
CheckedAsAsked(day) ==
  day \in Sessions /\ day <= job.asked /\ \A s \in Sessions : s <= job.asked => s <= day

(* check_day: the newest closed session up to the one asked for. *)
Checked(day) ==
  /\ day \in Closed /\ day <= job.asked
  /\ \A s \in Closed : s <= job.asked => s <= day

Opens ==
  /\ job.pc = "open"
  /\ \E day \in Sessions :
       /\ Checked(day)
       /\ job' = [job EXCEPT !.pc = "check", !.day = day,
                             !.todo = Targets(day)]
  /\ UNCHANGED <<clock, external, bars, stale, check, unchecked, owed, bounds>>

(* The days are checked from the oldest to the newest. *)
InHand(d) == d \in job.todo /\ \A e \in job.todo : d <= e

(* fetch_bhavcopy: None while it is not out; any other error counts as that. *)
Bhavcopy(d, fails) == d \in published /\ ~fails

(* The bhavcopy of a session, then its bars and its row. *)
ReadsDay ==
  /\ job.pc = "check"
  /\ \E d \in Sessions, fails \in BOOLEAN :
       /\ InHand(d)
       /\ fails => d \in published /\ failures < MaxFailures
       /\ failures' = IF fails THEN failures + 1 ELSE failures
       /\ job' = [job EXCEPT !.pc = "write",
                    !.seen = IF Bhavcopy(d, fails) THEN bars[d] ELSE "no bhavcopy",
                    !.prev = IF Bhavcopy(d, fails) THEN check[d] ELSE "none"]
  /\ UNCHANGED <<clock, external, bars, stale, check, unchecked, owed, writes, corrections>>

(* check_hourly: a last close that is off is patched and passes. *)
Verdict(b) == IF b = "no bhavcopy" THEN "pending"
              ELSE IF b \in {"good", "off"} THEN "pass" ELSE "fail"

(* Variant: the close is compared, not patched. *)
PatchedNot(b) == b

(* _apply_patch, on the last bar that is stored by then. *)
Patched(b) == IF b = "off" THEN "good" ELSE b

(* Variant: a patch is no change. *)
ChangesIfResolved(prev, seen) == prev \in {"pending", "fail"} /\ Verdict(seen) = "pass"

(* classify_change *)
Changes(prev, seen) ==
  \/ seen = "off"
  \/ prev \in {"pending", "fail"} /\ Verdict(seen) = "pass"

UpsertCheck(d, status) == check' = [check EXCEPT ![d] = status]

(* One day's transaction: the patch and the row. *)
WritesDay ==
  /\ job.pc = "write"
  /\ \E d \in Sessions :
       /\ InHand(d)
       /\ UpsertCheck(d, Verdict(job.seen))
       /\ bars' = IF job.seen = "off" THEN [bars EXCEPT ![d] = Patched(@)] ELSE bars
       /\ unchecked' = IF job.seen = bars[d] THEN unchecked \ {d} ELSE unchecked
       /\ owed' = (\/ owed \/ bars' # bars
                   \/ check[d] \in {"pending", "fail"} /\ check'[d] = "pass")
       /\ job' = [job EXCEPT !.pc = "check", !.todo = @ \ {d}, !.seen = "none",
                             !.prev = "none", !.changed = @ \/ Changes(job.prev, job.seen)]
  /\ UNCHANGED <<clock, external, stale, bounds>>

GoesToSignals == job.kind = "daily" \/ job.changed

ReconcileEnds ==
  /\ job.pc = "check" /\ job.todo = {}
  /\ job' = IF GoesToSignals THEN [job EXCEPT !.pc = "load"] ELSE Idle
  /\ UNCHANGED <<clock, external, bars, stale, check, unchecked, owed, bounds>>

Held == \E d \in Closed : check[d] \in {"fail", "pending"} /\ Recent(d, Closed)

(* load_held. A symbol that is held keeps its signals; what lifts the hold  *)
(* is a change again, or the next daily job comes to it.                    *)
LoadsHeld ==
  /\ job.pc = "load"
  /\ IF Held THEN job' = Idle /\ owed' = FALSE
     ELSE job' = [job EXCEPT !.pc = "generate"] /\ UNCHANGED owed
  /\ UNCHANGED <<clock, external, bars, stale, check, unchecked, bounds>>

Generates ==
  /\ job.pc = "generate"
  /\ job' = Idle /\ owed' = FALSE
  /\ UNCHANGED <<clock, external, bars, stale, check, unchecked, bounds>>

(* A step raises and is rolled back: the daily job goes on with the next    *)
(* step, the re-check ends.                                                 *)
StepRaises ==
  /\ job.pc # "idle" /\ failures < MaxFailures
  /\ failures' = failures + 1
  /\ job' = IF job.pc = "ingest" THEN [job EXCEPT !.pc = "open"]
            ELSE IF job.kind = "daily" /\ job.pc \in {"open", "check", "write"}
            THEN [job EXCEPT !.pc = "load", !.whole = FALSE]
            ELSE Idle
  /\ UNCHANGED <<clock, external, bars, stale, check, unchecked, owed, writes, corrections>>

Dies ==
  /\ job.pc # "idle" /\ failures < MaxFailures
  /\ failures' = failures + 1
  /\ job' = Idle
  /\ UNCHANGED <<clock, external, bars, stale, check, unchecked, owed, writes, corrections>>

GoesOn == JobIngests \/ Opens \/ ReadsDay \/ WritesDay \/ ReconcileEnds \/ LoadsHeld \/ Generates

Next ==
  \/ Closes \/ MidnightPasses \/ Publishes \/ Corrects \/ Readjusts
  \/ ApiIngests \/ StartDaily \/ StartRecheck \/ GoesOn \/ StepRaises \/ Dies

Spec == Init /\ [][Next]_vars

(* The daily job runs again and again, and a job goes on. *)
FairSpec == Spec /\ WF_vars(StartDaily) /\ WF_vars(GoesOn)

-----------------------------------------------------------------------------
(* Properties.                                                             *)

(* A session that has not closed is never checked, whenever the job starts  *)
(* and however long it takes: its bhavcopy cannot exist, and a row for it   *)
(* would hold all signals until the evening (reconcile_service.py:9-10).    *)
OnlyClosedAreChecked == \A d \in Sessions : check[d] # "none" => d \in Closed

(* A row says what is stored, patches included, of every session that was   *)
(* not written again since it was read, by an overlapping ingest say.       *)
RowDescribesBars ==
  \A d \in Sessions \ unchecked :
    /\ check[d] = "pass" => bars[d] = "good"
    /\ check[d] = "fail" => bars[d] \notin {"good", "off"}

(* No session was missed between what was stored and the day checked. *)
NoneMissed == \E s \in job.stored : \A p \in Sessions : p < job.day => p <= s

(* When the daily job comes to signals, it has checked every session up to  *)
(* its day that its own ingest has written: the window of the reconcile     *)
(* (refetched_days) covers that of ingest (_incremental_start), although    *)
(* one counts from the day checked and the other from what was stored. A    *)
(* rebuild writes the sessions before that window as well. The reconcile    *)
(* does not come to them, but no row says anything of the bars they had:    *)
(* such a row could never pass, or vouches for what is gone (_wipe_symbol). *)
RewritesAreChecked ==
  job.pc \in {"load", "generate"} /\ job.whole /\ job.alone /\ NoneMissed
    => \A d \in unchecked :
         /\ d \in job.wrote /\ d <= job.day => check[d] = "pending"
         /\ job.rebuilt => check[d] \in {"none", "pending"}

(* A change of bars, or a hold that was lifted, reaches signals in the job  *)
(* that made it: the re-check "regenerates everything it unblocked"         *)
(* (RUNBOOK.md:400).                                                        *)
NothingStaysOwed == job.pc = "idle" /\ failures = 0 => ~owed

(* A pending session is resolved once its bhavcopy is out, however long ago *)
(* it was ("any day up to that session", RUNBOOK.md:372).                   *)
PendingResolves == []<>(\A d \in published : check[d] # "pending")
=============================================================================
