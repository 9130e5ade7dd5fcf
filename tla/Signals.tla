------------------------------ MODULE Signals -------------------------------
(***************************************************************************)
(* The daily bars of one symbol, the signals the strategies find in them,  *)
(* the runs that regenerate the stored signals, and the choice of the      *)
(* signal a fill is matched with.                                          *)
(*                                                                         *)
(* A bar is what the indicators say of it: which of the strategies' tests  *)
(* it passes.  The rules that join the tests of several bars are the       *)
(* strategies; stops and targets follow from the bar of the signal.        *)
(***************************************************************************)
EXTENDS Integers, FiniteSets, Sequences

CONSTANTS
  Kinds,          \* the bars that may occur
  History,        \* the bars there are at first
  MaxBars,        \* bound: bars of the symbol
  MaxRevisions,   \* bound: bars rewritten by a later fetch
  Runners,        \* the job's step, and runs of the API
  Requests,       \* sets of strategies they are asked for
  MinHistory,     \* run_pipeline: 210 bars
  RetestWindow,   \* run_pipeline: 10
  SqueezeWindow,  \* strategy_3: 10
  MacdFrom,       \* strategy_2 starts at bar 10,
  ConfluenceFrom, \* strategy_4 at bar 30
  MinScore,       \* MIN_SCORE
  MatchWindow,    \* settings.match_window_sessions
  FillDays        \* bound: the sessions in which there may be a fill

Strategies == {"PIPELINE", "S1_ST_Flip", "S2_MACD_Zero", "S3_BB_Squeeze",
               "Confluence", "TTM_Squeeze"}

\* The tests of a bar.  strength is how far the close clears the resistance, in
\* thresholds: 1 for 0.2, 2 for 0.5 ATR; volume is 1 above the average, 2 at 1.5
\* times, 3 above that; gap is the distance of the close from the fill's
\* price, in percent.
Tests == [trend : BOOLEAN, tight : BOOLEAN, strength : 0..2, accelerates : BOOLEAN,
          retests : BOOLEAN, green : BOOLEAN, positive : BOOLEAN, bullish : BOOLEAN,
          narrow : BOOLEAN, above : BOOLEAN, upper : BOOLEAN, room : BOOLEAN,
          on : BOOLEAN, momentum : Int, volume : 0..3, gap : Nat]

ASSUME SignalsConstants ==
  /\ Kinds \subseteq Tests /\ History \in Seq(Kinds)
  /\ MaxBars \in Nat /\ MaxRevisions \in Nat /\ MinHistory \in Nat /\ ConfluenceFrom \in Nat
  /\ RetestWindow \in Nat \ {0} /\ SqueezeWindow \in Nat \ {0} /\ MatchWindow \in Nat \ {0}
  /\ MacdFrom \in Nat \ {0}
  /\ MinScore \in 0..4 /\ FillDays \subseteq 1..MaxBars
  /\ Requests \subseteq (SUBSET Strategies) \ {{}}

VARIABLES
  bars,       \* the stored daily bars
  revisions,  \* bars rewritten so far
  held,       \* the last checks of the symbol failed or are pending
  stored,     \* committed rows: [sig, copy]
  run,        \* run[r]: a run of run_signals at this symbol
  match       \* the last match of a fill: its day, and the signal if any

vars == <<bars, revisions, held, stored, run, match>>

-----------------------------------------------------------------------------
(* The strategies: the signals found in a series of bars.                  *)

Signal(strategy, i, of) == [strategy |-> strategy, at |-> i, of |-> of]

(* Variant: consolidated at the bar after it: shifted the wrong way. *)
SetupReadyByNext(b, i) ==
  /\ i < Len(b) /\ b[i].trend /\ b[i + 1].tight
  /\ b[i].strength >= 1 /\ b[i].accelerates /\ b[i].volume >= 2

\* Consolidated until the bar before, then a breakout with momentum and volume.
SetupReady(b, i) ==
  /\ i > 1 /\ b[i].trend /\ b[i - 1].tight
  /\ b[i].strength >= 1 /\ b[i].accelerates /\ b[i].volume >= 2

\* The bars in which a weak breakout may be retested: of the retest_window from
\* the breakout on, without it.
RetestBars(b, i) == {j \in 1..Len(b) : i < j /\ j < i + RetestWindow /\ b[j].retests}

\* A strong breakout is a signal at once, a weak one at its first valid retest.
Pipeline(b) ==
  IF Len(b) < MinHistory THEN {}
  ELSE {Signal("PIPELINE", i, i) :
          i \in {k \in 1..Len(b) : SetupReady(b, k) /\ b[k].strength = 2}}
       \cup UNION {
         {Signal("PIPELINE", j, i) :
            j \in {k \in RetestBars(b, i) : \A e \in RetestBars(b, i) : k <= e}} :
         i \in {k \in 1..Len(b) : SetupReady(b, k) /\ b[k].strength = 1}}

SupertrendFlip(b) ==
  {Signal("S1_ST_Flip", i, i) :
     i \in {k \in 2..Len(b) : ~b[k - 1].green /\ b[k].green /\ b[k].volume >= 1}}

MacdZeroCross(b) ==
  {Signal("S2_MACD_Zero", i, i) :
     i \in {k \in (MacdFrom + 1)..Len(b) :
              ~b[k - 1].positive /\ b[k].positive /\ b[k].green}}

BbSqueezeBreakout(b) ==
  {Signal("S3_BB_Squeeze", i, i) :
     i \in {k \in (SqueezeWindow + 2)..Len(b) :
              /\ \E s \in (k - SqueezeWindow)..(k - 1) : b[s].narrow
              /\ b[k].above /\ ~b[k - 1].above /\ b[k].volume = 3}}

One(test) == IF test THEN 1 ELSE 0

\* A red Supertrend and a close too near the upper band are vetoes.
Confluence(b) ==
  {Signal("Confluence", i, i) :
     i \in {k \in (ConfluenceFrom + 1)..Len(b) :
              /\ b[k].green /\ b[k].room
              /\ 1 + One(b[k].bullish) + One(b[k].upper) + One(b[k].volume >= 1) >= MinScore}}

TtmSqueeze(b) ==
  {Signal("TTM_Squeeze", i, i) :
     i \in {k \in 2..Len(b) :
              /\ b[k - 1].on /\ ~b[k].on
              /\ b[k].momentum > 0 /\ b[k].momentum > b[k - 1].momentum
              /\ b[k].green}}

\* STRATEGY_FUNCS.
Found(b, strategies) ==
  {s \in Pipeline(b) \cup SupertrendFlip(b) \cup MacdZeroCross(b)
         \cup BbSqueezeBreakout(b) \cup Confluence(b) \cup TtmSqueeze(b) :
     s.strategy \in strategies}

-----------------------------------------------------------------------------
(* The bars come and go.                                                   *)

Idle == [step |-> "idle"]
NoMatch == [day |-> 0, with |-> {}]

Init ==
  /\ bars = History /\ revisions = 0 /\ held = FALSE /\ stored = {}
  /\ run = [r \in Runners |-> Idle]
  /\ match = NoMatch

\* What a run has computed is no longer what the bars say.
Outdated ==
  [r \in Runners |-> IF run[r].step \in {"deletes", "commits"}
                     THEN [run[r] EXCEPT !.current = FALSE] ELSE run[r]]

\* An ingest run stores the bar of a closed session.
BarCloses(kind) ==
  /\ Len(bars) < MaxBars /\ bars' = Append(bars, kind)
  /\ run' = Outdated
  /\ UNCHANGED <<revisions, held, stored, match>>

\* A later fetch of the last bar differs, and that of the history before it,
\* rebuilt, may.
Revises(i, kind) ==
  /\ i \in 1..Len(bars) /\ bars[i] # kind
  /\ revisions < MaxRevisions /\ revisions' = revisions + 1
  /\ bars' = [bars EXCEPT ![i] = kind]
  /\ run' = Outdated /\ match' = NoMatch
  /\ UNCHANGED <<held, stored>>

\* A reconcile finds the bars wrong or not yet checked, or passes them.
Reconciles ==
  /\ held' = ~held
  /\ UNCHANGED <<bars, revisions, stored, run, match>>

-----------------------------------------------------------------------------
(* run_signals at this symbol: one transaction.                            *)

Busy(r) == run[r].step # "idle"

\* What is held is loaded once, before the first symbol.  The API refuses a run
\* while there is one, the job does not.
Begins(r, strategies) ==
  /\ ~Busy(r)
  /\ r = "api" => \A o \in Runners : ~Busy(o)
  /\ run' = [o \in Runners |->
       IF o = r THEN [step |-> "loads", strategies |-> strategies, held |-> held,
                      alone |-> \A x \in Runners \ {r} : ~Busy(x)]
       ELSE IF Busy(o) THEN [run[o] EXCEPT !.alone = FALSE] ELSE run[o]]
  /\ UNCHANGED <<bars, revisions, held, stored, match>>

\* A held symbol keeps its signals, one without bars has none.
PassedOver(r) == run[r].held \/ bars = <<>>

Skips(r) ==
  /\ run[r].step = "loads" /\ PassedOver(r)
  /\ run' = [run EXCEPT ![r] = Idle]
  /\ UNCHANGED <<bars, revisions, held, stored, match>>

Loads(r) ==
  /\ run[r].step = "loads" /\ ~PassedOver(r)
  /\ run' = [run EXCEPT ![r] =
       [step |-> "deletes", strategies |-> @.strategies, alone |-> @.alone,
        current |-> TRUE, found |-> Found(bars, @.strategies)]]
  /\ UNCHANGED <<bars, revisions, held, stored, match>>

(* Variant: nothing is deleted when nothing was found. *)
SeenIfFound(r) ==
  IF run[r].found = {} THEN {}
  ELSE {row \in stored : row.sig.strategy \in run[r].strategies}

\* The rows a DELETE sees: those of its strategies that are committed.
Seen(r) == {row \in stored : row.sig.strategy \in run[r].strategies}

\* It waits for another transaction that has deleted one of them.
Deletes(r) ==
  /\ run[r].step = "deletes"
  /\ run' = [run EXCEPT ![r] =
       [step |-> "commits", strategies |-> @.strategies, alone |-> @.alone,
        current |-> @.current, found |-> @.found, seen |-> Seen(r),
        after |-> {o \in Runners \ {r} :
                     run[o].step = "commits" /\ run[o].seen \cap Seen(r) # {}}]]
  /\ UNCHANGED <<bars, revisions, held, stored, match>>

\* A transaction that has ended is waited for no more, and the rows it has deleted
\* are passed over.
Released(r, deleted) ==
  [o \in Runners |->
     IF o = r THEN Idle
     ELSE IF run[o].step = "commits"
     THEN [run[o] EXCEPT !.after = @ \ {r}, !.seen = @ \ deleted]
     ELSE run[o]]

\* A row of the signal beside those that stay: the table has no unique key.
Inserted(sig, left) ==
  [sig |-> sig, copy |-> CHOOSE n \in 1..(Cardinality(left) + 1) :
     /\ [sig |-> sig, copy |-> n] \notin left
     /\ \A k \in 1..(n - 1) : [sig |-> sig, copy |-> k] \in left]

\* The found signals are inserted, and all is committed: rows another run has
\* inserted since the DELETE stay.
Commits(r) ==
  /\ run[r].step = "commits" /\ run[r].after = {}
  /\ LET left == stored \ run[r].seen
     IN  stored' = left \cup {Inserted(sig, left) : sig \in run[r].found}
  /\ run' = Released(r, run[r].seen)
  /\ UNCHANGED <<bars, revisions, held, match>>

\* The symbol fails and is rolled back.
RollsBack(r) ==
  /\ Busy(r)
  /\ run' = Released(r, {})
  /\ UNCHANGED <<bars, revisions, held, stored, match>>

-----------------------------------------------------------------------------
(* The signal a fill on day d is matched with.                             *)

Committed == {row.sig : row \in stored}

(* Variant: sessions up to the newest bar. *)
AgeToday(d, sig) == Len(bars) - sig.at

\* sessions_between the signal and the fill.
Age(d, sig) == d - sig.at

\* The signals of the window's sessions up to the fill's own.
Candidates(d) == {sig \in Committed : d - MatchWindow <= sig.at /\ sig.at <= d}

IsEvent(sig) == sig.strategy # "Confluence"

\* 50 for the price, 30 for the kind of strategy, 20 for recency, each multiplied
\* by the window; 5 percent is the widest gap.
Score(d, sig) ==
  MatchWindow * (50 - 10 * bars[sig.at].gap)
    + MatchWindow * (IF IsEvent(sig) THEN 30 ELSE 15)
    + 20 * (MatchWindow - Age(d, sig))

Eligible(d, sig) ==
  /\ Age(d, sig) <= MatchWindow
  /\ bars[sig.at].gap <= 5
  /\ Score(d, sig) >= 50 * MatchWindow

Beats(d, sig, winner) ==
  IF Score(d, sig) # Score(d, winner) THEN Score(d, sig) > Score(d, winner)
  ELSE IF IsEvent(sig) # IsEvent(winner) THEN IsEvent(sig)
  ELSE sig.at > winner.at

\* The winner so far, if any, after one more row.
After(d, winner, row) == IF \A w \in winner : Beats(d, row, w) THEN {row} ELSE winner

\* The winners that the orders in which the rows may come lead to; {} is none.
Outcomes(d) ==
  LET eligible == {sig \in Candidates(d) : Eligible(d, sig)}
      of[rows \in SUBSET eligible] ==
        IF rows = {} THEN {{}}
        ELSE UNION {{After(d, winner, last) : winner \in of[rows \ {last}]} : last \in rows}
  IN  of[eligible]

\* The signals of the bars up to the fill are all there.
Settled(d) ==
  /\ d <= Len(bars) /\ Len(bars) >= MinHistory
  /\ Committed = Found(bars, Strategies)

\* A fill of day d is applied, the same evening or, after a failure or an import,
\* days later, and takes its levels from the signal.  Parts of an order are fills
\* of their own.  Remembered is a match among settled signals.
Matches(d) ==
  /\ match.day \in {0, d}
  /\ \E winner \in Outcomes(d) :
       match' = IF Settled(d) THEN [day |-> d, with |-> winner] ELSE NoMatch
  /\ UNCHANGED <<bars, revisions, held, stored, run>>

Next ==
  \/ \E kind \in Kinds : BarCloses(kind)
  \/ \E i \in 1..MaxBars, kind \in Kinds : Revises(i, kind)
  \/ Reconciles
  \/ \E r \in Runners :
       \/ \E strategies \in Requests : Begins(r, strategies)
       \/ Skips(r) \/ Loads(r) \/ Deletes(r) \/ Commits(r) \/ RollsBack(r)
  \/ \E d \in FillDays : Matches(d)

Spec == Init /\ [][Next]_vars

-----------------------------------------------------------------------------
(* Properties.                                                             *)

PastStands ==
  Len(bars') > Len(bars) /\ Len(bars) >= MinHistory
    => {s \in Found(bars', Strategies) : s.at <= Len(bars)} = Found(bars, Strategies)

\* The bars of later sessions say nothing of the past: the signals found up to
\* a bar are those that were found when it was the last one, from the first bar
\* with enough history on.  (core.py: every rule looks back, and a weak breakout
\* becomes a signal only at its retest.)
NoHindsight == [][PastStands]_vars

\* What the commit of the run leaves of its strategies is what they find, once.
LeavesWhatIsFound(r) ==
  LET rows == {row \in stored' : row.sig.strategy \in run[r].strategies}
  IN  /\ {row.sig : row \in rows} = Found(bars, run[r].strategies)
      /\ \A x, y \in rows : x.sig = y.sig => x = y

\* A run that had the symbol to itself and whose bars are still the stored ones
\* leaves exactly the signals of the bars, each once: neither revised bars nor
\* runs that overlapped before leave a stale or a double row of its strategies.
\* (service.py: data revisions can never leave stale signals behind.)
Regenerates ==
  [][ \A r \in Runners :
        run[r].step = "commits" /\ Commits(r) /\ run[r].alone /\ run[r].current
        => LeavesWhatIsFound(r) ]_vars

\* It does not matter when a fill is applied.  However many sessions and runs
\* later, among signals deleted and inserted again, in any order and with ties,
\* it finds a signal of the rank an equal fill found before, as long as no bar
\* was revised: a later bar never takes it away from the signal that led to it.
\* (_apply_buy: match_signal by the day and price of the fill.)
LateMatchAgrees ==
  match.day # 0 /\ Settled(match.day)
  => \A again \in Outcomes(match.day) :
       /\ again = {} <=> match.with = {}
       /\ \A a \in again, w \in match.with :
            a.at = w.at /\ Score(match.day, a) = Score(match.day, w)
=============================================================================
