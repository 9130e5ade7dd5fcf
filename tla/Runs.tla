-------------------------------- MODULE Runs --------------------------------
(* The rows of ingest_runs: requests that start a run behind the 409 guard, *)
(* background workers that keep the row's counters and outcome, the daily   *)
(* job that starts runs of its own, and the reaper that fails rows whose    *)
(* process seems to have died.                                              *)
EXTENDS Naturals, Sequences, FiniteSets

CONSTANTS
  Requests,    \* POST requests that may be handled at the same time
  ApiModes,    \* what they start: backfill and incremental are "ingest"
  JobSteps,    \* the --steps of daily_sync; reap_stale_runs.py is {"reap"}
  Symbols,     \* how many symbols (or accounts, positions) a run goes through
  StaleAfter,  \* the reaper's age threshold, in hours
  DbErrors,    \* TRUE if a statement may fail in the database
  MaxApiRuns,  \* bounds on the rows the API and the job insert
  MaxJobRuns,
  MaxDeaths    \* bound on the processes that die

LiveModes == {"ingest", "indicators", "signals"}  \* counters committed per symbol
Modes == LiveModes \cup {"broker_sync", "evaluate"}
Steps == Modes \cup {"reap"}

(* parse_steps: the wanted ones of the steps that have a row, and of the    *)
(* reaper, in their order.                                                  *)
Plan(wanted) ==
  LET If(s) == IF s \in wanted THEN <<s>> ELSE <<>>
  IN  If("reap") \o If("ingest") \o If("indicators") \o If("signals")
        \o If("broker_sync") \o If("evaluate")

ASSUME RunsAssumption ==
  /\ ApiModes \subseteq LiveModes
  /\ JobSteps \subseteq SUBSET Steps
  /\ {Symbols, StaleAfter, MaxApiRuns, MaxJobRuns, MaxDeaths} \subseteq Nat
  /\ DbErrors \in BOOLEAN

VARIABLES
  rows,      \* ingest_runs, in order of id
  work,      \* the function call behind each row
  checked,   \* requests that passed the guard and have not inserted their row,
             \* with the number of rows there were then (history)
  stale,     \* the rows the reaper has selected and not yet written
  job,       \* the daily job: its plan, next step, row it waits for, reports
  deaths

vars == <<rows, work, checked, stale, job, deaths>>

MaxRuns == MaxApiRuns + MaxJobRuns

Runs == 1..Len(rows)
RunsOf(by) == {r \in Runs : rows[r].by = by}
Off == [plan |-> <<>>, next |-> 1, waits |-> 0, report |-> <<>>]

Row == [mode : Modes, by : {"api", "job"}, status : {"running", "completed", "failed"},
        age : 0..(StaleAfter + 1), total : 0..Symbols, ok : 0..Symbols, failed : 0..Symbols]

(* pc: "queued" until the function starts, "over" once it returned or       *)
(* raised, "killed" if its process died first. good counts the symbols      *)
(* really processed, tried those it is done with.                           *)
Call == [pc : {"queued", "working", "over", "killed"}, tried : 0..Symbols,
         good : 0..Symbols, outcome : {"none", "completed", "failed"}]

Job == [plan : Seq(Steps), next : Nat \ {0}, waits : Nat,
        report : Seq({"ok", "warning", "failed"})]

TypeOK ==
  /\ rows \in Seq(Row)
  /\ work \in Seq(Call) /\ Len(work) = Len(rows)
  /\ checked \subseteq [request : Requests, saw : 0..Len(rows)]
  /\ stale \subseteq Runs
  /\ job \in Job /\ job.next <= Len(job.plan) + 1 /\ job.waits <= Len(rows)
  /\ deaths \in 0..MaxDeaths

Init ==
  /\ rows = <<>> /\ work = <<>>
  /\ checked = {}
  /\ stale = {}
  /\ job = Off
  /\ deaths = 0

NewRow(m, by) == [mode |-> m, by |-> by, status |-> "running", age |-> 0,
                  total |-> 0, ok |-> 0, failed |-> 0]
NewCall == [pc |-> "queued", tried |-> 0, good |-> 0, outcome |-> "none"]

Insert(m, by) ==
  /\ rows' = Append(rows, NewRow(m, by))
  /\ work' = Append(work, NewCall)

-----------------------------------------------------------------------------
(* Requests: POST /ingest/run, /indicators/run, /signals/run.              *)

Running == {r \in Runs : rows[r].status = "running"}

(* The rows that answer 409. *)
Blocking == Running

CheckGuard(q) ==
  /\ \A c \in checked : c.request # q
  /\ Blocking = {}
  /\ checked' = checked \cup {[request |-> q, saw |-> Len(rows)]}
  /\ UNCHANGED <<rows, work, stale, job, deaths>>

(* The row is committed, then the background task is queued and 202 sent. *)
Accept(c) ==
  /\ Cardinality(RunsOf("api")) < MaxApiRuns
  /\ \E m \in ApiModes : Insert(m, "api")
  /\ checked' = checked \ {c}
  /\ UNCHANGED <<stale, job, deaths>>

-----------------------------------------------------------------------------
(* Workers: run_ingest, run_compute, run_signals, and the bodies of the    *)
(* broker and evaluate steps. The worker's session never re-reads the row: *)
(* it writes its own outcome over whatever the row says.                   *)

Working(r) == work[r].pc = "working"
Active(r) == work[r].pc \in {"queued", "working"}

Begin(r) ==
  /\ work[r].pc = "queued"
  /\ work' = [work EXCEPT ![r].pc = "working"]
  /\ rows' = [rows EXCEPT ![r].total = Symbols]
  /\ UNCHANGED <<checked, stale, job, deaths>>

SymbolOk(r) ==
  /\ Working(r) /\ work[r].tried < Symbols
  /\ work' = [work EXCEPT ![r].tried = @ + 1, ![r].good = @ + 1]
  /\ rows' = IF rows[r].mode \in LiveModes
             THEN [rows EXCEPT ![r].ok = @ + 1] ELSE rows
  /\ UNCHANGED <<checked, stale, job, deaths>>

(* Variant: the failure is counted before the rollback, which undoes it. *)
SymbolFailsUncounted(r) ==
  /\ Working(r) /\ work[r].tried < Symbols
  /\ work' = [work EXCEPT ![r].tried = @ + 1]
  /\ UNCHANGED <<rows, checked, stale, job, deaths>>

(* One symbol, account or position fails and is recorded as failed. *)
SymbolFails(r) ==
  /\ Working(r) /\ work[r].tried < Symbols
  /\ work' = [work EXCEPT ![r].tried = @ + 1]
  /\ rows' = IF rows[r].mode \in LiveModes
             THEN [rows EXCEPT ![r].failed = @ + 1] ELSE rows
  /\ UNCHANGED <<checked, stale, job, deaths>>

(* A statement fails outside of what is rolled back for one symbol, which   *)
(* in run_compute is nothing: with the transaction aborted the last commit  *)
(* of the outcome raises, too, and the row stays as it was last committed.  *)
StatementFails(r) ==
  /\ DbErrors /\ Active(r)
  /\ work' = [work EXCEPT ![r].pc = "over"]
  /\ UNCHANGED <<rows, checked, stale, job, deaths>>

End(r, outcome) ==
  /\ Working(r)
  /\ work' = [work EXCEPT ![r].pc = "over", ![r].outcome = outcome]
  /\ UNCHANGED <<checked, stale, job, deaths>>

Finish(r) ==
  /\ rows[r].mode \in LiveModes /\ work[r].tried = Symbols
  /\ End(r, "completed")
  /\ rows' = [rows EXCEPT ![r].status = "completed"]

(* The broker and evaluate steps write their counters at the end. *)
FinishStep(r) ==
  /\ rows[r].mode \notin LiveModes /\ work[r].tried = Symbols
  /\ End(r, "completed")
  /\ rows' = [rows EXCEPT ![r].status = "completed", ![r].ok = work[r].good,
                          ![r].failed = Symbols - work[r].good]

Fail(r) == End(r, "failed") /\ rows' = [rows EXCEPT ![r].status = "failed"]

(* Fyers has no token, or refuses it half-way. *)
LoginLost(r) == rows[r].mode = "ingest" /\ Fail(r)

(* Anything else outside one symbol raises; not caught in the broker step. *)
Crash(r) == rows[r].mode # "broker_sync" /\ Fail(r)

Worker(r) ==
  \/ Begin(r) \/ SymbolOk(r) \/ SymbolFails(r) \/ StatementFails(r)
  \/ Finish(r) \/ FinishStep(r) \/ LoginLost(r) \/ Crash(r)

-----------------------------------------------------------------------------
(* The reaper (reap_stale_runs): select the rows, then write them.         *)

(* Variant: only ingest runs are selected. *)
StaleIngests == {r \in Running : rows[r].mode = "ingest" /\ rows[r].age > StaleAfter}

StaleRuns == {r \in Running : rows[r].age > StaleAfter}

-----------------------------------------------------------------------------
(* The daily job: one step after the other, one row per step but reap.     *)

JobOn == job.plan # <<>>
Step == job.plan[job.next]

JobStarts(wanted) ==
  /\ ~JobOn
  /\ Cardinality(RunsOf("job")) + Cardinality(wanted \ {"reap"}) <= MaxJobRuns
  /\ job' = [Off EXCEPT !.plan = Plan(wanted)]
  /\ UNCHANGED <<rows, work, checked, stale, deaths>>

Report(status) == [plan |-> job.plan, next |-> job.next + 1, waits |-> 0,
                   report |-> Append(job.report, status)]

JobSelects ==
  /\ JobOn /\ job.next <= Len(job.plan) /\ Step = "reap"
  /\ stale = {} /\ StaleRuns # {}
  /\ stale' = StaleRuns
  /\ UNCHANGED <<rows, work, checked, job, deaths>>

JobReaps ==
  /\ JobOn /\ job.next <= Len(job.plan) /\ Step = "reap"
  /\ stale = {} => StaleRuns = {}
  /\ rows' = [r \in Runs |-> IF r \in stale THEN [rows[r] EXCEPT !.status = "failed"]
                             ELSE rows[r]]
  /\ stale' = {}
  /\ job' = Report("ok")
  /\ UNCHANGED <<work, checked, deaths>>

(* _create_run and the step's worker, without the guard. *)
JobCreates ==
  /\ JobOn /\ job.next <= Len(job.plan) /\ Step # "reap"
  /\ job.waits = 0
  /\ Insert(Step, "job")
  /\ job' = [job EXCEPT !.waits = Len(rows')]
  /\ UNCHANGED <<checked, stale, deaths>>

(* Variant: failed symbols do not matter. *)
ResultOfStatus(r) == IF rows[r].status = "failed" THEN "failed"
                     ELSE IF rows[r].status # "completed" THEN "warning" ELSE "ok"

(* _finalize_worker_step; an exception of the worker is a failed step. *)
Result(r) ==
  IF rows[r].status = "failed" \/ work[r].outcome = "none" THEN "failed"
  ELSE IF rows[r].status # "completed" \/ rows[r].failed > 0 THEN "warning"
  ELSE "ok"

JobContinues ==
  /\ job.waits # 0 /\ work[job.waits].pc = "over"
  /\ job' = Report(Result(job.waits))
  /\ UNCHANGED <<rows, work, checked, stale, deaths>>

JobEnds ==
  /\ JobOn /\ job.next > Len(job.plan)
  /\ job' = Off
  /\ UNCHANGED <<rows, work, checked, stale, deaths>>

-----------------------------------------------------------------------------
(* Processes die, hours pass.                                              *)

Killed(by) == [r \in Runs |-> IF rows[r].by = by /\ work[r].pc \in {"queued", "working"}
                              THEN [work[r] EXCEPT !.pc = "killed"] ELSE work[r]]

ApiDies ==
  /\ deaths < MaxDeaths
  /\ \E r \in RunsOf("api") : work[r].pc \in {"queued", "working"}
  /\ work' = Killed("api")
  /\ checked' = {}
  /\ deaths' = deaths + 1
  /\ UNCHANGED <<rows, stale, job>>

JobDies ==
  /\ deaths < MaxDeaths
  /\ JobOn
  /\ work' = Killed("job")
  /\ stale' = {}
  /\ job' = Off
  /\ deaths' = deaths + 1
  /\ UNCHANGED <<rows, checked>>

HourPasses ==
  /\ \E r \in Running : rows[r].age <= StaleAfter
  /\ rows' = [r \in Runs |-> IF r \in Running /\ rows[r].age <= StaleAfter
                             THEN [rows[r] EXCEPT !.age = @ + 1] ELSE rows[r]]
  /\ UNCHANGED <<work, checked, stale, job, deaths>>

JobGoesOn == JobSelects \/ JobReaps \/ JobCreates \/ JobContinues \/ JobEnds

Next ==
  \/ \E q \in Requests : CheckGuard(q)
  \/ \E c \in checked : Accept(c)
  \/ \E r \in Runs : Worker(r)
  \/ \E wanted \in JobSteps : JobStarts(wanted)
  \/ JobGoesOn
  \/ ApiDies \/ JobDies
  \/ HourPasses

(* Cron starts a job that reaps every day, the job goes on, its workers      *)
(* answer or raise, and time passes. Workers of the API may hang for ever.  *)
Fairness ==
  /\ WF_vars(\E wanted \in JobSteps : "reap" \in wanted /\ JobStarts(wanted))
  /\ WF_vars(JobGoesOn)
  /\ \A r \in 1..MaxRuns : WF_vars(r \in Runs /\ rows[r].by = "job" /\ Worker(r))
  /\ WF_vars(HourPasses)

Spec == Init /\ [][Next]_vars
FairSpec == Spec /\ Fairness

-----------------------------------------------------------------------------
(* Properties.                                                             *)

(* "Only one run can be active at a time" (UI_HANDOFF.md:207), which holds  *)
(* when requests are handled one after the other and no row is reaped.      *)
OneActiveRun ==
  \A r, s \in Runs :
    r # s /\ rows[r].by = "api" /\ rows[s].by = "api" /\ Active(r) /\ Active(s)
      => rows[r].status # "running" \/ rows[s].status # "running"

(* What the guard (start_ingest, start_compute, start_signals) does give: a *)
(* request gets its row beside a running one only if that one was inserted  *)
(* after the request had passed the guard, so only while requests overlap   *)
(* with each other or with a run of the job.                                *)
GuardHolds ==
  [][\A c \in checked : c \notin checked' /\ Len(rows') > Len(rows) =>
       \A r \in Running : r > c.saw]_vars

(* The counters of a completed row are the symbols processed and failed,    *)
(* whatever was rolled back on the way (run_ingest, run_signals).           *)
CountsAreTrue ==
  \A r \in Runs : rows[r].status = "completed" =>
    /\ rows[r].ok = work[r].good
    /\ rows[r].failed = rows[r].total - work[r].good

(* A step of the job is only reported ok if its worker processed every      *)
(* symbol (_finalize_worker_step).                                          *)
OkMeansAll ==
  [][\A r \in Runs : job.waits = r /\ job'.next = job.next + 1
                     /\ job'.report[job.next] = "ok" => work[r].good = Symbols]_vars

(* No row blocks the guard for ever: dead runs are reaped by a later job    *)
(* ("so a dead run from a prior day never wedges the rest of the pipeline", *)
(* reap_stale_runs.py:10).                                                  *)
EveryRunEnds == \A r \in 1..MaxRuns : (r \in Running) ~> (r \notin Running)

(* A run whose function has returned, or raised, is not left running: the   *)
(* row is for the reaper only if the process died (reap_stale_runs.py:1).   *)
OverIsRecorded == \A r \in Runs : work[r].pc = "over" => rows[r].status # "running"
=============================================================================
