------------------------------- MODULE Ingest -------------------------------
(***************************************************************************)
(* The stored candles of one symbol and the ingest runs that write them:   *)
(* the daily job and runs of the API, which may overlap.  Fyers serves     *)
(* every bar in the share terms it has folded so far and may fold another  *)
(* split or bonus into the whole history between two fetches.  A run       *)
(* notices that in its daily bars and replaces the history of the symbol.  *)
(*                                                                         *)
(* A day stands for its bars.  The price of a bar is the set of ex-dates   *)
(* folded into it: two fetches of a bar differ by more than a tick exactly *)
(* if these sets do.                                                       *)
(***************************************************************************)
EXTENDS Integers, FiniteSets, FiniteSetsExt

CONSTANTS
  FirstDay,     \* the model starts in the morning of this day,
  LastDay,      \* and ends with this one
  Trading,      \* the trading days among 1..LastDay
  ExDates,      \* ex-dates of splits and bonuses Fyers will fold
  FoldLag,      \* Fyers folds at most so many days after the ex-date
  Overlap,      \* settings.incremental_overlap_days
  ApiRequests,  \* what operators ask for: [mode, timeframes]
  MaxFailures   \* runs that fail or find the login gone

Days == 1..LastDay
Timeframes == {"1d", "1h", "4h"}

ASSUME IngestConstants ==
  /\ FirstDay \in Nat \ {0} /\ LastDay \in Nat /\ FirstDay <= LastDay
  /\ Overlap \in Nat /\ FoldLag \in Nat
  /\ MaxFailures \in Nat
  /\ Trading \subseteq Days /\ ExDates \subseteq Trading
  /\ \A x \in ExDates : x >= FirstDay
  /\ ApiRequests \subseteq [mode : {"backfill", "incremental"},
                            timeframes : (SUBSET Timeframes) \ {{}}]

VARIABLES
  today,      \* the date (IST)
  closed,     \* today's session has closed
  folded,     \* the ex-dates Fyers has folded into what it serves
  candles,    \* candles[tf]: the stored days with their terms
  run,        \* run[r]: what each worker of run_ingest holds
  hidden,     \* history: the next run may not notice a re-adjustment
  failures    \* failures so far

ingestVars == <<today, closed, folded, candles, run, hidden, failures>>

Workers == {"job", "api"}
Bars == UNION {[D -> SUBSET ExDates] : D \in SUBSET Days}
NoBars == [d \in {} |-> {}]

Idle == [step |-> "idle", incremental |-> TRUE, timeframes |-> Timeframes,
         today |-> 0, daily |-> NoBars, hourly |-> NoBars]

IngestTypeOK ==
  /\ today \in Days /\ closed \in BOOLEAN /\ folded \subseteq ExDates
  /\ hidden \in BOOLEAN /\ failures \in 0..MaxFailures
  /\ DOMAIN candles = Timeframes
  /\ \A tf \in Timeframes : candles[tf] \in Bars
  /\ \A r \in Workers :
       /\ run[r].step \in {"idle", "daily", "compare", "refetch", "rehourly",
                           "replace", "hourly", "write"}
       /\ run[r].today \in 0..today
       /\ run[r].daily \in Bars /\ run[r].hourly \in Bars

-----------------------------------------------------------------------------
(* What Fyers serves: complete bars only, in the terms folded so far.      *)

\* The terms in which Fyers serves a bar: later ex-dates are folded into it.
Terms(d) == {x \in folded : x > d}

\* Still-forming bars are dropped: today's daily and 4h bars until the close,
\* while the complete hours of today are already there.
Complete(tf, d) == d < today \/ (d = today /\ (closed \/ tf = "1h"))

Served(tf, since) ==
  [d \in {e \in Trading : e >= since /\ Complete(tf, e)} |-> Terms(d)]

-----------------------------------------------------------------------------
(* What a run does with the answers.                                       *)

LastStored(tf) == Max(DOMAIN candles[tf])

\* A backfill, and a timeframe with nothing stored, ask for all of history.
Incremental(r, tf) == run[r].incremental /\ candles[tf] # NoBars

\* period_to_start: the days of the model are within any backfill's period.
FullStart == 1

(* Variant: the last daily candle counts for every timeframe. *)
StartDateOfDaily(r, tf) ==
  IF Incremental(r, tf) /\ candles["1d"] # NoBars THEN LastStored("1d") - Overlap
  ELSE FullStart

\* The first date to ask for: two days before the last stored candle.
StartDate(r, tf) ==
  IF Incremental(r, tf) THEN LastStored(tf) - Overlap ELSE FullStart

\* The days of the stored daily bars from the first fetched one on.
StoredDaily(r) ==
  {d \in DOMAIN candles["1d"] : \E e \in DOMAIN run[r].daily : e <= d}

(* Variant: only the last stored bar is compared. *)
NeedsRedownloadByLast(r) ==
  \E d \in StoredDaily(r) \cap DOMAIN run[r].daily :
    /\ d < run[r].today /\ candles["1d"][d] # run[r].daily[d]
    /\ d = LastStored("1d")

\* Fyers re-adjusted the history: a stored daily bar of a day before the
\* run's own differs from the one just fetched.
NeedsRedownload(r) ==
  \E d \in StoredDaily(r) \cap DOMAIN run[r].daily :
    d < run[r].today /\ candles["1d"][d] # run[r].daily[d]

\* upsert_candles: rows of the same time are overwritten, the others stay.
Upsert(old, new) ==
  [d \in DOMAIN old \cup DOMAIN new |-> IF d \in DOMAIN new THEN new[d] ELSE old[d]]

\* 4h bars are built from the hourly answer; open bins are dropped.
FourHourly(hourly) ==
  [d \in {e \in DOMAIN hourly : Complete("4h", e)} |-> hourly[d]]

\* The three series as a run has fetched them.
Fetched(r) ==
  [tf \in Timeframes |-> CASE tf = "1d" -> run[r].daily
                           [] tf = "1h" -> run[r].hourly
                           [] tf = "4h" -> FourHourly(run[r].hourly)]

-----------------------------------------------------------------------------
\* The symbol has been ingested before: the bars of the days before FirstDay are
\* stored in all timeframes.
IngestInit ==
  /\ today = FirstDay /\ closed = (FirstDay \notin Trading)
  /\ folded = {} /\ hidden = FALSE /\ failures = 0
  /\ candles = [tf \in Timeframes |-> [d \in {e \in Trading : e < FirstDay} |-> {}]]
  /\ run = [r \in Workers |-> Idle]

\* The session of today closes.
Closes ==
  /\ ~closed /\ closed' = TRUE
  /\ UNCHANGED <<hidden, today, folded, candles, run, failures>>

\* Midnight.  Fyers has folded what is due (FoldLag), and no run of an earlier
\* day is still at this symbol: its requests time out within minutes.
NextDay ==
  /\ closed /\ today < LastDay
  /\ \A x \in ExDates \ folded : today < x + FoldLag
  /\ \A r \in Workers : run[r].step # "idle" => run[r].today = today
  /\ today' = today + 1
  /\ closed' = (today + 1 \notin Trading)
  /\ UNCHANGED <<hidden, folded, candles, run, failures>>

\* No daily bar before x will be fetched again: those that are stored, or that a
\* run has in hand, are past x by more than the overlap reaches back.  After a
\* Monday's run all bars of the Friday are, with an overlap of two days.
OutOfSight(x) ==
  \E e \in DOMAIN candles["1d"] \cup UNION {DOMAIN run[r].daily : r \in Workers} :
    \A d \in Trading : d < x => d < e - Overlap

\* Fyers folds a split or bonus into the bars of all days before its ex-date.
Readjusts(x) ==
  /\ x \in ExDates \ folded /\ today >= x
  /\ folded' = folded \cup {x}
  /\ hidden' = (hidden \/ OutOfSight(x))
  /\ UNCHANGED <<today, closed, candles, run, failures>>

-----------------------------------------------------------------------------
(* A run reaches the symbol; it works with the date on which it started.   *)

Begins(r, req) ==
  /\ run[r].step = "idle"
  /\ run' = [run EXCEPT ![r] =
       [Idle EXCEPT !.step = IF "1d" \in req.timeframes THEN "daily" ELSE "hourly",
                    !.incremental = (req.mode = "incremental"),
                    !.timeframes = req.timeframes, !.today = today]]
  /\ UNCHANGED <<hidden, today, closed, folded, candles, failures>>

\* The daily job asks for everything since the last candle, at any hour.
JobBegins == Begins("job", [mode |-> "incremental", timeframes |-> Timeframes])

\* A run of the API, refused while the row of the job's run is running.
ApiBegins ==
  /\ run["job"].step = "idle"
  /\ \E req \in ApiRequests : Begins("api", req)

\* A worker goes on with an answer: the bars it asked for or, as a fault of
\* Fyers (a renamed symbol, an outage), none.
Gets(r, series, answer, next) ==
  /\ \/ /\ run' = [run EXCEPT ![r] = [@ EXCEPT ![series] = answer, !.step = next]]
        /\ UNCHANGED failures
     \/ /\ failures < MaxFailures /\ failures' = failures + 1
        /\ run' = [run EXCEPT ![r] = [@ EXCEPT ![series] = NoBars, !.step = next]]
  /\ UNCHANGED <<hidden, today, closed, folded, candles>>

FetchesDaily(r) ==
  /\ run[r].step = "daily"
  /\ Gets(r, "daily", Served("1d", StartDate(r, "1d")),
          IF Incremental(r, "1d") THEN "compare" ELSE "hourly")

\* The stored bars are loaded after the answer, and compared with it.
Compares(r) ==
  /\ run[r].step = "compare"
  /\ run' = [run EXCEPT ![r].step = IF NeedsRedownload(r) THEN "refetch" ELSE "hourly"]
  /\ UNCHANGED <<hidden, today, closed, folded, candles, failures>>

\* Hourly bars serve both intraday timeframes; the start is that of 1h.
WantsHourly(r) == run[r].timeframes \cap {"1h", "4h"} # {}

FetchesHourly(r) ==
  /\ run[r].step = "hourly" /\ WantsHourly(r)
  /\ Gets(r, "hourly", Served("1h", StartDate(r, "1h")), "write")

SkipsHourly(r) ==
  /\ run[r].step = "hourly" /\ ~WantsHourly(r)
  /\ run' = [run EXCEPT ![r].step = "write"]
  /\ UNCHANGED <<hidden, today, closed, folded, candles, failures>>

\* A run that has an answer already will write it over what is committed now.
UnderWay(r) == run[r].daily # NoBars \/ run[r].hourly # NoBars

\* A backfill compares nothing, and may get daily bars but no hourly ones.
RewritesDailyOnly(r) ==
  ~run[r].incremental /\ run[r].daily # NoBars /\ run[r].hourly = NoBars

\* A run commits what it has written for the symbol.
Commits(r, stored) ==
  /\ candles' = stored
  /\ run' = [run EXCEPT ![r] = Idle]
  /\ hidden' = (hidden \/ RewritesDailyOnly(r) \/ \E o \in Workers \ {r} : UnderWay(o))
  /\ UNCHANGED <<today, closed, folded, failures>>

\* What was asked for is upserted: run_ingest goes on to the next symbol.
Written(r) ==
  [tf \in Timeframes |-> IF tf \in run[r].timeframes
                        THEN Upsert(candles[tf], Fetched(r)[tf]) ELSE candles[tf]]

Writes(r) ==
  /\ run[r].step = "write"
  /\ Commits(r, Written(r))

-----------------------------------------------------------------------------
(* rebuild_symbol_history: all is fetched before anything is deleted.      *)

RefetchesDaily(r) ==
  /\ run[r].step = "refetch"
  /\ Gets(r, "daily", Served("1d", FullStart), "rehourly")

RefetchesHourly(r) ==
  /\ run[r].step = "rehourly"
  /\ Gets(r, "hourly", Served("1h", FullStart), "replace")

(* Variant: one of the two answers is enough. *)
ReplaceableIfAny(r) == run[r].daily # NoBars \/ run[r].hourly # NoBars

\* An empty answer raises: the stored history is left untouched.
Replaceable(r) == run[r].daily # NoBars /\ run[r].hourly # NoBars

\* All timeframes are wiped and written anew, in one transaction.
Replaces(r) ==
  /\ run[r].step = "replace" /\ Replaceable(r)
  /\ Commits(r, Fetched(r))

\* A run rolls the symbol back: an empty rebuild, an error of Fyers or of the
\* database, the login gone, a killed process.
Refuses(r) ==
  /\ run[r].step = "replace" /\ ~Replaceable(r)
  /\ run' = [run EXCEPT ![r] = Idle]
  /\ UNCHANGED <<hidden, today, closed, folded, candles, failures>>

Fails(r) ==
  /\ run[r].step # "idle" /\ failures < MaxFailures
  /\ failures' = failures + 1
  /\ run' = [run EXCEPT ![r] = Idle]
  /\ UNCHANGED <<hidden, today, closed, folded, candles>>

Works(r) ==
  \/ FetchesDaily(r) \/ Compares(r)
  \/ FetchesHourly(r) \/ SkipsHourly(r) \/ Writes(r)
  \/ RefetchesDaily(r) \/ RefetchesHourly(r) \/ Replaces(r) \/ Refuses(r)

IngestNext ==
  \/ Closes \/ NextDay
  \/ \E x \in ExDates : Readjusts(x)
  \/ JobBegins \/ ApiBegins
  \/ \E r \in Workers : Works(r) \/ Fails(r)

\* The clock, the scheduler and every worker go on.
IngestFairness ==
  /\ WF_ingestVars(Closes) /\ WF_ingestVars(NextDay)
  /\ WF_ingestVars(JobBegins)
  /\ \A r \in Workers : WF_ingestVars(Works(r))

IngestSpec == IngestInit /\ [][IngestNext]_ingestVars /\ IngestFairness

-----------------------------------------------------------------------------
(* Properties.                                                             *)

\* No trading day is missing inside a series, and a 4h bar is the one its
\* hourly bars give: an incremental run starts at the last stored candle, so
\* whatever is missing before it would be missing for ever
\* (_incremental_start, _write_fyers).
SeriesAreWhole ==
  /\ \A tf \in Timeframes : \A d, e \in DOMAIN candles[tf] :
       (d..e) \cap Trading \subseteq DOMAIN candles[tf]
  /\ \A d \in DOMAIN candles["4h"] :
       d \in DOMAIN candles["1h"] /\ candles["1h"][d] = candles["4h"][d]

\* A stored bar is only lost to a rebuild, and only one of the day of that
\* rebuild or later: what it deletes it has fetched before
\* (rebuild_symbol_history), whatever fails or is empty.
LosesOnlyNewer ==
  [][\A tf \in Timeframes : \A d \in DOMAIN candles[tf] \ DOMAIN (candles'[tf]) :
       \E r \in Workers : run[r].step = "replace" /\ d >= run[r].today]_ingestVars

\* Whichever runs fail, or fetch some timeframes only: in the end every stored
\* bar is in the terms Fyers serves (needs_redownload and the rebuild), unless
\* Fyers folded a split when no daily bar before it was to be fetched again, a
\* run wrote what it had fetched over another one's commit, or a backfill wrote
\* daily bars alone.
InFyersTerms ==
  \A tf \in Timeframes : \A d \in DOMAIN candles[tf] : candles[tf][d] = Terms(d)
Heals == []<>(InFyersTerms \/ hidden)
=============================================================================
