-------------------------------- MODULE Feed --------------------------------
(***************************************************************************)
(* The Fyers login and what hangs on it: the ingest runs, the cutover of   *)
(* the stored history from yfinance to Fyers, and the indicators computed  *)
(* from the stored candles.  Three kinds of worker do this, one symbol per *)
(* transaction: the daily job, a run of the API and the cutover script,    *)
(* which is run again until every symbol is done.                          *)
(*                                                                         *)
(* Candles are known by their sources, indicators by whether the candles   *)
(* have been rewritten since.  Which bars a run asks for is the subject of *)
(* Ingest; the signals, computed next from the candles, that of Signals.   *)
(***************************************************************************)
EXTENDS Integers, FiniteSets, FiniteSetsExt

CONSTANTS
  Symbols,      \* the active symbols, numbered in the order of their names
  Listed,       \* those with a history from yfinance; the others have none
  Workers,      \* those of "job", "api" and "cutover" that may run
  Invocations,  \* of the script: [symbols, limit, allow, anyway]
  EndDay,       \* days 1..EndDay; a token lives for one
  AtOnce,       \* so many workers overlap at most
  MaxEvents     \* failed calls, empty answers, processes that die, API runs

Timeframes == {"1d", "1h", "4h"}
NoSymbol == 0
NoToken == 0

\* The options of the script; --symbols is all of them if it is not given.
Invocation == [symbols : SUBSET Symbols, limit : Nat, allow : BOOLEAN, anyway : BOOLEAN]

ASSUME FeedConstants ==
  /\ IsFiniteSet(Symbols) /\ Symbols \subseteq Nat \ {NoSymbol} /\ Listed \subseteq Symbols
  /\ Workers \subseteq {"job", "api", "cutover"}
  /\ EndDay \in Nat \ {0} /\ AtOnce \in Nat /\ MaxEvents \in Nat
  /\ Invocations \subseteq Invocation

VARIABLES
  day,         \* a day begins at 06:00, when the token of the last one dies
  stored,      \* the day of the stored token
  enabled,     \* the setting daily_job_enabled
  jobDay,      \* the last day of the daily job
  candles,     \* candles[s][tf]: the sources of the stored bars
  indicators,  \* indicators[s]: none, or computed from which bars
  run,         \* run[w]: what each worker holds
  exit,        \* how the last cutover ended
  events       \* so many of those that MaxEvents counts

auth == <<day, stored>>
data == <<candles, indicators>>
feedVars == <<auth, enabled, jobDay, data, run, exit, events>>

Bars == {"current", "outdated", "wiped"}
Values == {"none", "current", "outdated", "mixed"}
Steps == {"idle", "ingest", "rebuild", "indicators"}

Idle == [step |-> "idle", todo |-> {}, token |-> NoToken, at |-> NoSymbol,
         bars |-> "current", result |-> "ok", empty |-> {}, alone |-> FALSE,
         all |-> FALSE, args |-> [symbols |-> {}, anyway |-> FALSE]]

TypeOK ==
  /\ day \in 1..EndDay /\ stored \in 0..EndDay
  /\ enabled \in BOOLEAN /\ jobDay \in 0..EndDay /\ events \in 0..MaxEvents
  /\ candles \in [Symbols -> [Timeframes -> SUBSET {"yfinance", "fyers"}]]
  /\ indicators \in [Symbols -> Values]
  /\ exit \in {"none", "ok", "failed", "login"}
  /\ \A w \in Workers :
       /\ run[w].step \in Steps /\ run[w].todo \subseteq Symbols
       /\ run[w].empty \subseteq Symbols
       /\ run[w].at \in Symbols \cup {NoSymbol} /\ run[w].bars \in Bars
       /\ run[w].token \in 0..EndDay
       /\ run[w].result \in {"ok", "warning", "failed"}

-----------------------------------------------------------------------------
(* The login.                                                              *)

\* get_token: a row that has not expired.
LoggedIn == stored = day

\* complete_login: a user posts the code Fyers has given him, with a login
\* state of his own that is not older than its ttl, and the code is exchanged;
\* when anything is amiss the stored token stays as it is.
LogsIn ==
  /\ ~LoggedIn /\ stored' = day
  /\ UNCHANGED <<day, enabled, jobDay, data, run, exit, events>>

\* Deletes the row.  A fetcher keeps the copy it was built with.
LogsOut ==
  /\ stored # NoToken /\ stored' = NoToken
  /\ UNCHANGED <<day, enabled, jobDay, data, run, exit, events>>

\* At 06:00 the token dies.
TokenDies ==
  /\ day < EndDay /\ day' = day + 1
  /\ UNCHANGED <<stored, enabled, jobDay, data, run, exit, events>>

\* put_settings, for daily_job_enabled.
Toggles ==
  /\ enabled' = ~enabled
  /\ UNCHANGED <<auth, jobDay, data, run, exit, events>>

\* A call to Fyers ends, after up to three attempts, in an answer, in an error
\* or in the finding that the token is dead, which is not tried again.
CanCall(w) == run[w].token = day

-----------------------------------------------------------------------------
(* The workers.                                                            *)

Busy(w) == run[w].step # "idle"

\* A worker starts with a step that is not over or with one that has failed.
Starts(w, step, result, todo, args, all) ==
  /\ ~Busy(w) /\ Cardinality({o \in Workers : Busy(o)}) < AtOnce
  /\ run' = [v \in Workers |->
       IF v # w THEN [run[v] EXCEPT !.alone = FALSE]
       ELSE [Idle EXCEPT !.step = step, !.result = result, !.todo = todo,
                         !.token = stored, !.args = args, !.all = all,
                         !.alone = \A o \in Workers \ {w} : ~Busy(o)]]

Everything == [symbols |-> Symbols, anyway |-> FALSE]

\* The steps of the job that belong here are ingest and indicators; without a
\* login the first fails at once, and the second still runs.
JobStarts ==
  /\ "job" \in Workers /\ enabled /\ jobDay < day
  /\ jobDay' = day
  /\ IF LoggedIn THEN Starts("job", "ingest", "ok", Symbols, Everything, TRUE)
     ELSE Starts("job", "indicators", "failed", Symbols, Everything, TRUE)
  /\ UNCHANGED <<auth, enabled, data, exit, events>>

\* POST /ingest/run or /indicators/run: refused while a row is running.  The
\* cutover has none before its compute steps.
HasRow(w) == run[w].step \in {"ingest", "indicators"}

\* Without a login the run of the API ends before its first symbol.
ApiStarts(step) ==
  /\ "api" \in Workers
  /\ \A w \in Workers : ~HasRow(w)
  /\ step = "ingest" => LoggedIn
  /\ events < MaxEvents /\ events' = events + 1
  /\ Starts("api", step, "ok", Symbols, Everything, FALSE)
  /\ UNCHANGED <<auth, enabled, jobDay, data, exit>>

(* Variant: the daily bars alone tell whether a symbol is done. *)
DoneByDaily(s) == candles[s]["1d"] = {"fyers"}

\* is_cutover_done: bars in all timeframes, and none of another source.
Done(s) == \A tf \in Timeframes : candles[s][tf] = {"fyers"}

\* plan_rebuild, and --limit: the first of the symbols that are not done.
Plan(args) ==
  LET undone == {s \in args.symbols : ~Done(s)}
  IN  {s \in undone : Cardinality({o \in undone : o < s}) < args.limit}

\* The setting is read once, before the start.
MayStart(args) == ~enabled \/ args.allow

CutoverStarts(args) ==
  /\ "cutover" \in Workers
  /\ MayStart(args) /\ LoggedIn
  /\ Starts("cutover", "rebuild", "ok", Plan(args),
            [symbols |-> args.symbols, anyway |-> args.anyway],
            args.symbols = Symbols /\ args.limit >= Cardinality(Symbols))
  /\ exit' = "none"
  /\ UNCHANGED <<auth, enabled, jobDay, data, events>>

-----------------------------------------------------------------------------
(* What a worker writes for one symbol.                                    *)

Worse(a, b) == IF "failed" \in {a, b} THEN "failed"
               ELSE IF "warning" \in {a, b} THEN "warning" ELSE "ok"

\* The worker is through with a symbol, with this result.
Ticked(w, s, result) ==
  [run[w] EXCEPT !.todo = @ \ {s}, !.at = NoSymbol, !.bars = "current",
                 !.result = Worse(@, result)]

\* So is it when Fyers had no daily bar of the symbol, which is no failure:
\* only the history field empty remembers it.
Missed(w, s) == [Ticked(w, s, "ok") EXCEPT !.empty = @ \cup {s}]

\* Others that have loaded the candles of s will compute from the old ones.
Overtaken(v, s, wiped) ==
  IF run[v].at # s THEN run[v]
  ELSE [run[v] EXCEPT !.bars = IF wiped \/ @ = "wiped" THEN "wiped" ELSE "outdated"]

\* The indicator rows are wiped with the candles they were computed from.
WithoutIndicators(s, wiped) ==
  IF wiped \/ indicators[s] = "none" THEN "none"
  ELSE IF indicators[s] = "mixed" THEN "mixed" ELSE "outdated"

\* Worker w commits new candles of s and becomes x.
Writes(w, x, s, new, wiped) ==
  /\ candles' = [candles EXCEPT ![s] = new]
  /\ indicators' = [indicators EXCEPT ![s] = WithoutIndicators(s, wiped)]
  /\ run' = [v \in Workers |-> IF v = w THEN x ELSE Overtaken(v, s, wiped)]

AllFyers == [tf \in Timeframes |-> {"fyers"}]

\* An upsert of the timeframes that have bars in the answer.
WithFyers(s, tfs) ==
  [tf \in Timeframes |-> IF tf \in tfs THEN candles[s][tf] \cup {"fyers"} ELSE candles[s][tf]]

\* The symbols are taken in their order.
At(w, step, s) ==
  run[w].step = step /\ run[w].todo # {} /\ s = Min(run[w].todo)

Ingests(w, s) ==
  /\ At(w, "ingest", s) /\ CanCall(w)
  /\ Writes(w, Ticked(w, s, "ok"), s, WithFyers(s, Timeframes), FALSE)
  /\ UNCHANGED <<auth, enabled, jobDay, exit, events>>

\* There are no hourly or no daily bars in the answers, or neither: an outage,
\* or a symbol renamed.  The symbol counts as ingested all the same.
IngestsLess(w, s) ==
  /\ At(w, "ingest", s) /\ CanCall(w)
  /\ events < MaxEvents /\ events' = events + 1
  /\ \/ Writes(w, Ticked(w, s, "ok"), s, WithFyers(s, {"1d"}), FALSE)
     \/ Writes(w, Missed(w, s), s, WithFyers(s, {"1h", "4h"}), FALSE)
     \/ run' = [run EXCEPT ![w] = Missed(w, s)] /\ UNCHANGED data
  /\ UNCHANGED <<auth, enabled, jobDay, exit>>

\* rebuild_symbol_history
Rebuilds(w, s) ==
  /\ CanCall(w)
  /\ Writes(w, Ticked(w, s, "ok"), s, AllFyers, TRUE)
  /\ UNCHANGED <<auth, enabled, jobDay, exit, events>>

\* A symbol of the cutover.
CutsOver(w, s) == At(w, "rebuild", s) /\ Rebuilds(w, s)

\* A symbol whose stored daily bars an ingest run finds to differ from those of
\* Fyers.
Readjusts(w, s) == At(w, "ingest", s) /\ candles[s]["1d"] # {} /\ Rebuilds(w, s)

\* An error of Fyers or of the database: the symbol is rolled back.
Fails(w, s) ==
  /\ At(w, "ingest", s) \/ At(w, "rebuild", s)
  /\ events < MaxEvents /\ events' = events + 1
  /\ run' = [run EXCEPT ![w] =
       Ticked(w, s, IF run[w].step = "rebuild" THEN "failed" ELSE "warning")]
  /\ UNCHANGED <<auth, enabled, jobDay, data, exit>>

-----------------------------------------------------------------------------
(* run_compute reads the candles of a symbol, and then commits what it has *)
(* computed from them.                                                     *)

\* A symbol without candles is passed over.
Loads(w, s) ==
  /\ At(w, "indicators", s) /\ run[w].at = NoSymbol
  /\ run' = [run EXCEPT ![w] = IF \A tf \in Timeframes : candles[s][tf] = {}
                               THEN Ticked(w, s, "ok") ELSE [@ EXCEPT !.at = s]]
  /\ UNCHANGED <<auth, enabled, jobDay, data, exit, events>>

(* Variant: on a conflict nothing is done. *)
UpsertedIfMissing(old, bars) == IF old = "none" THEN bars ELSE old

\* Rows are written by their time; none is deleted, so that rows at times the
\* new history does not have stay among the others.
Upserted(old, bars) ==
  IF old = "mixed" \/ bars = "wiped" THEN "mixed" ELSE bars

Stores(w, s) ==
  /\ run[w].at = s
  /\ run' = [run EXCEPT ![w] = Ticked(w, s, "ok")]
  /\ indicators' = [indicators EXCEPT ![s] = Upserted(@, run[w].bars)]
  /\ UNCHANGED <<auth, enabled, jobDay, candles, exit, events>>

\* One timeframe fails.  Nothing is rolled back: what has been written for the
\* timeframes before it is committed.
ComputeFails(w, s) ==
  /\ run[w].at = s
  /\ events < MaxEvents /\ events' = events + 1
  /\ run' = [run EXCEPT ![w] = Ticked(w, s, "warning")]
  /\ \E v \in {indicators[s], Upserted(indicators[s],
                 IF run[w].bars = "current" THEN "outdated" ELSE run[w].bars)} :
       indicators' = [indicators EXCEPT ![s] = v]
  /\ UNCHANGED <<auth, enabled, jobDay, candles, exit>>

-----------------------------------------------------------------------------
(* From step to step.                                                      *)

\* The job and the cutover go on to the indicators.
GoneOn(w, result) ==
  [run[w] EXCEPT !.step = "indicators", !.todo = run[w].args.symbols, !.token = NoToken,
                 !.args.anyway = FALSE, !.result = Worse(@, result)]

\* The step is over; a run of the API has no other.
GoesOn(w, result) ==
  run' = [run EXCEPT ![w] = IF w = "api" THEN Idle ELSE GoneOn(w, result)]

Through(w, step) == run[w].step = step /\ run[w].todo = {}

IngestEnds(w) ==
  /\ Through(w, "ingest")
  /\ GoesOn(w, "ok")
  /\ UNCHANGED <<auth, enabled, jobDay, data, exit, events>>

\* The run has failed, whatever it has done before.
ResultOfLostLogin == "failed"

\* The token died in mid-run: the run stops at this symbol.
IngestLosesLogin(w) ==
  /\ run[w].step = "ingest" /\ run[w].todo # {} /\ ~CanCall(w)
  /\ GoesOn(w, ResultOfLostLogin)
  /\ UNCHANGED <<auth, enabled, jobDay, data, exit, events>>

\* The cutover returns at once: nothing is recomputed.
RebuildLosesLogin(w) ==
  /\ run[w].step = "rebuild" /\ run[w].todo # {} /\ ~CanCall(w)
  /\ run' = [run EXCEPT ![w] = Idle] /\ exit' = "login"
  /\ UNCHANGED <<auth, enabled, jobDay, data, events>>

\* With failures nothing is recomputed, unless --compute-anyway.
Recomputes(w) == run[w].result = "ok" \/ run[w].args.anyway

RebuildEnds(w) ==
  /\ Through(w, "rebuild")
  /\ IF Recomputes(w) THEN GoesOn(w, "ok") /\ UNCHANGED exit
     ELSE run' = [run EXCEPT ![w] = Idle] /\ exit' = "failed"
  /\ UNCHANGED <<auth, enabled, jobDay, data, events>>

\* The exit code of the cutover: a warning is no failure.
ExitCode(result) == IF result = "failed" THEN "failed" ELSE "ok"

\* The worker is through.  The steps after it may fail, too.
Ends(w) ==
  /\ Through(w, "indicators")
  /\ run' = [run EXCEPT ![w] = Idle]
  /\ \/ exit' = IF w = "cutover" THEN ExitCode(run[w].result) ELSE exit
     \/ w = "cutover" /\ exit' = "failed"
  /\ UNCHANGED <<auth, enabled, jobDay, data, events>>

\* The step crashes as a whole, and is reported as failed.
StepCrashes(w) ==
  /\ run[w].step = "indicators" /\ run[w].todo # {}
  /\ events < MaxEvents /\ events' = events + 1
  /\ run' = [run EXCEPT ![w] = [@ EXCEPT !.todo = {}, !.at = NoSymbol, !.bars = "current",
                                        !.result = "failed"]]
  /\ UNCHANGED <<auth, enabled, jobDay, data, exit>>

\* The process dies: what it has committed stays.
Dies(w) ==
  /\ Busy(w) /\ events < MaxEvents /\ events' = events + 1
  /\ run' = [run EXCEPT ![w] = Idle]
  /\ UNCHANGED <<auth, enabled, jobDay, data, exit>>

-----------------------------------------------------------------------------
FeedInit ==
  /\ day = 1 /\ stored = NoToken
  /\ enabled = TRUE /\ jobDay = 0 /\ events = 0 /\ exit = "none"
  /\ candles = [s \in Symbols |->
                  [tf \in Timeframes |-> IF s \in Listed THEN {"yfinance"} ELSE {}]]
  /\ indicators = [s \in Symbols |-> IF s \in Listed THEN "current" ELSE "none"]
  /\ run = [w \in Workers |-> Idle]

Works(w) ==
  \/ \E s \in Symbols :
       Ingests(w, s) \/ CutsOver(w, s) \/ Readjusts(w, s) \/ Loads(w, s) \/ Stores(w, s)
  \/ IngestEnds(w) \/ IngestLosesLogin(w) \/ RebuildEnds(w) \/ RebuildLosesLogin(w)
  \/ Ends(w)

FeedNext ==
  \/ LogsIn \/ LogsOut \/ TokenDies \/ Toggles
  \/ JobStarts \/ \E step \in {"ingest", "indicators"} : ApiStarts(step)
  \/ \E args \in Invocations : CutoverStarts(args)
  \/ \E w \in Workers :
       \/ Works(w) \/ StepCrashes(w) \/ Dies(w)
       \/ \E s \in Symbols : IngestsLess(w, s) \/ Fails(w, s) \/ ComputeFails(w, s)

\* Workers go on.  The operator follows the script's instructions: whenever he
\* can start it he will, with all symbols and the job turned off.
Fairness ==
  /\ \A w \in Workers : WF_feedVars(Works(w))
  /\ \A args \in Invocations : SF_feedVars(CutoverStarts(args))

FeedSpec == FeedInit /\ [][FeedNext]_feedVars /\ Fairness

-----------------------------------------------------------------------------
(* Properties.                                                             *)

\* Worker w goes through its last step with nothing failed on the way.
EndsWell(w) == Through(w, "indicators") /\ run'[w] = Idle /\ run[w].result = "ok"

\* The cutover of all symbols exits with 0 only when every candle of every
\* symbol is from Fyers, however often it was interrupted, limited or overlapped
\* by ingest runs that mix their bars into the old history (rebuild_symbol_history
\* refuses an empty answer); and a job without a failure has asked Fyers for every
\* symbol, so a login lost halfway shows: there are daily bars of Fyers of all but
\* those for which Fyers had none, which _ingest_symbol_fyers counts as ingested
\* (main, plan_rebuild, is_cutover_done; run_ingest).
EndsTell ==
  [][/\ exit # "ok" /\ exit' = "ok" /\ run["cutover"].all =>
          \A s \in Symbols : candles[s] = AllFyers
     /\ \A w \in Workers \ {"cutover"} : EndsWell(w) /\ run[w].all =>
          \A s \in Symbols \ run[w].empty : "fyers" \in candles[s]["1d"]]_feedVars

\* A job or cutover that had the candles to itself and ends well leaves the
\* indicators of the candles as they are, whatever overlapping, failed or killed
\* workers left behind (the order of the steps, the full recomputation in
\* run_compute, _wipe_symbol).
LeavesCurrentIndicators ==
  [][\A w \in Workers \ {"api"} :
       EndsWell(w) /\ run[w].alone /\ run[w].args.symbols = Symbols =>
       \A s \in Symbols : candles[s] # [tf \in Timeframes |-> {}] =>
         indicators[s] \in {"current", "mixed"}]_feedVars

\* Run again after each lost login, failure or kill, the script comes to an end:
\* all symbols are done, unless from some time on nobody logs in or the daily
\* job is left on (module docstring of cutover_to_fyers).
Startable == LoggedIn /\ \A args \in Invocations : MayStart(args)
Resumes ==
  \/ <>[](\A s \in Symbols : candles[s] = AllFyers)
  \/ <>[]~Startable

\* No indicator row is at a time for which there is no candle
\* ("Indicators are dropped so no row survives at a timestamp the rebuilt
\* history no longer has", _wipe_symbol).
NoOrphans == \A s \in Symbols : indicators[s] # "mixed"
=============================================================================
