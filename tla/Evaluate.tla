------------------------------ MODULE Evaluate ------------------------------
(***************************************************************************)
(* The daily verdict on one lot: the fill that opens it, its frozen        *)
(* levels, the bars of its symbol, the splits that put both in other share *)
(* terms, and the evaluations of the daily job and of the API, which may   *)
(* overlap.                                                                *)
(*                                                                         *)
(* The splits are of one ratio, n shares for one: the terms of a price are *)
(* the number of splits folded into it, and prices that differ in terms    *)
(* are further apart than a fill may be from its signal.  Shares stay      *)
(* whole, so QTY_MISMATCH (other ratios) is left to Ledger.  Broker        *)
(* quantities, volume and the holding period, which only warn, are left    *)
(* out.                                                                    *)
(***************************************************************************)
EXTENDS Integers, FiniteSets, FiniteSetsExt

CONSTANTS
  Scale(_),     \* what a price of one is quoted as, so many splits folded
  Splits,       \* ex-dates of splits and bonuses of the symbol
  Demergers,    \* ex-dates of its demergers
  Notice,       \* an action is stored so many days before its ex-date, or
                \* earlier
  Trades,       \* Trades[d]: what day d may trade, [close, high, low, atr,
                \* flip], the ATR already times the multiple of the chandelier
  Levels,       \* stop and targets of the signal: [stop, t1, t2]
  OpenedOn,     \* Position.opened_on
  EndDay,       \* the model ends with this day
  Behind,       \* POST /evaluate is asked for days from so many behind
  Ahead         \* to so many ahead

Calendar == 1..EndDay
Bars     == UNION {Trades[d] : d \in Calendar}

ASSUME EvaluateConstants ==
  /\ EndDay \in Nat /\ OpenedOn \in Calendar /\ Ahead \in Nat /\ Behind \in Nat /\ Notice \in Nat
  /\ Splits \subseteq Calendar /\ Demergers \subseteq Calendar
  /\ \A x \in Splits : x > OpenedOn
  /\ \A d \in Calendar : Trades[d] # {}
  /\ Bars \subseteq [close : Nat, high : Nat, low : Nat, atr : Nat, flip : BOOLEAN]
  /\ Levels \in [stop : Nat, t1 : Nat, t2 : Nat]
  /\ \A k \in 0..Cardinality(Splits) : Scale(k) \in Nat \ {0}

VARIABLES
  today,     \* last_trading_day()
  bars,      \* bars[d]: the stored daily candle of day d
  folded,    \* the splits folded into every stored candle
  lot,       \* the positions row; `fits` is history, see Matches
  held,      \* held[w]: the row as session w loaded it, and its as_of
  rows       \* position_evaluations that are judged by the properties

evaluateVars == <<today, bars, folded, lot, held, rows>>

Sessions == {"job", "api"}
Nothing  == [asOf |-> -1]
NoTrail  == -1

-----------------------------------------------------------------------------
(* Share terms, as the number of splits folded into a price.               *)

Quote(price, halvings) == price * Scale(halvings)

EffectiveBy(d) == Cardinality({x \in Splits : x <= d})

\* A bar trades in the terms of its day; later splits are folded into it only
\* when the history of the symbol is replaced.
HalvingsOf(d) == Cardinality(folded \cup {x \in Splits : x <= d})

\* The rows of corporate_actions among some ex-dates.
Known(exDates) == {x \in exDates : x <= today + Notice}

-----------------------------------------------------------------------------
(* What an evaluation as of a day reads.                                   *)

Dated(asOf)   == {d \in DOMAIN bars : d <= asOf}
BarDate(asOf) == Max(Dated(asOf))

Price(d, field) == Quote(bars[d][field], HalvingsOf(d))

HasEntryBar == \E d \in DOMAIN bars : d >= OpenedOn
Held(last)  == {d \in DOMAIN bars : OpenedOn <= d /\ d <= last}

(* Variant: the chandelier stop of the last bar alone. *)
ChandelierOfLastBar(last) ==
  IF ~HasEntryBar THEN NoTrail
  ELSE Max({Price(e, "high") : e \in Held(last)}) - Price(last, "atr")

\* The highest stop of the bars since the entry: it never trails down.
Chandelier(last) ==
  IF ~HasEntryBar THEN NoTrail
  ELSE Max({Max({Price(e, "high") : e \in Held(d)}) - Price(d, "atr") : d \in Held(last)})

\* The stored bars since the entry are in the terms of the last of them.
Uniform(last) == \A d \in Held(last) : HalvingsOf(d) = HalvingsOf(last)

\* An evaluation as of a day before the entry finds later bars of the lot,
\* but no trailing stop among the bars it may look at.
Raises(asOf) == Dated(asOf) # {} /\ HasEntryBar /\ Held(BarDate(asOf)) = {}

-----------------------------------------------------------------------------
(* decide, of the lot p and the bar that it is judged by.                  *)

Inputs(p, asOf) ==
  LET d == BarDate(asOf)
  IN [close     |-> Price(d, "close"),
      low       |-> Price(d, "low"),
      stop      |-> Quote(Levels.stop, p.halvings),
      target1   |-> Quote(Levels.t1, p.halvings),
      target2   |-> Quote(Levels.t2, p.halvings),
      unmatched |-> ~p.matched,
      trail     |-> Chandelier(d),
      flip      |-> bars[d].flip,
      demerger  |-> \E x \in Known(Demergers) : OpenedOn < x /\ x <= asOf,
      upcoming  |-> \E x \in Known(Splits \cup Demergers) : x > asOf,
      stale     |-> d < asOf]

\* Unmatched lots have no frozen stop: the trailing stop is theirs.
StopLevel(i) == IF i.unmatched THEN i.trail ELSE i.stop

Reasons(i) ==
  LET stop  == StopLevel(i)
      fires == [DEMERGER_CLIFF  |-> i.demerger,
                STOP_HIT        |-> stop # NoTrail /\ i.close < stop,
                SUPERTREND_FLIP |-> i.flip,
                TRAIL_HIT       |-> i.trail \notin {NoTrail, stop} /\ i.close < i.trail,
                T2_HIT          |-> ~i.unmatched /\ i.close >= i.target2,
                T1_HIT          |-> ~i.unmatched /\ i.close >= i.target1]
  IN  {r \in DOMAIN fires : fires[r]}

\* The first rule that fires decides; rules of one verdict stand together.
Verdict(reasons) ==
  IF reasons \cap {"NO_DATA", "DEMERGER_CLIFF"} # {} THEN "REVIEW"
  ELSE IF reasons \cap {"STOP_HIT", "SUPERTREND_FLIP", "TRAIL_HIT", "T2_HIT"} # {} THEN "EXIT"
  ELSE IF "T1_HIT" \in reasons THEN "PARTIAL" ELSE "HOLD"

Warnings(i) ==
  LET stop == StopLevel(i)
      warn == [LOW_BREACH      |-> stop # NoTrail /\ i.low < stop /\ stop <= i.close,
               UPCOMING_ACTION |-> i.upcoming,
               STALE_BAR       |-> i.stale]
  IN  {w \in DOMAIN warn : warn[w]}

\* The last two columns are history: the terms of the bar, and whether those
\* of all bars held are the same.
Decide(p, asOf) ==
  LET i == Inputs(p, asOf)
  IN  [verdict |-> Verdict(Reasons(i)), reasons |-> Reasons(i), warnings |-> Warnings(i),
       trail |-> i.trail, matched |-> p.matched, halvings |-> HalvingsOf(BarDate(asOf)),
       uniform |-> Uniform(BarDate(asOf))]

\* The row of a lot; without a bar there is nothing but a REVIEW.
Evaluation(p, asOf) ==
  IF Dated(asOf) = {}
  THEN [reasons |-> {"NO_DATA"}, warnings |-> {}, verdict |-> Verdict({"NO_DATA"})]
  ELSE Decide(p, asOf)

ReasonCodes == {"NO_DATA", "DEMERGER_CLIFF", "STOP_HIT", "SUPERTREND_FLIP",
                "TRAIL_HIT", "T2_HIT", "T1_HIT"}
WarningCodes == {"LOW_BREACH", "UPCOMING_ACTION", "STALE_BAR"}

PositionEvaluation ==
  [verdict : {"REVIEW", "EXIT", "PARTIAL", "HOLD"}, reasons : SUBSET ReasonCodes,
   warnings : SUBSET WarningCodes, trail : Int, matched : BOOLEAN,
   halvings : 0..Cardinality(Splits), uniform : BOOLEAN]

EvaluateTypeOK ==
  /\ today \in Calendar /\ folded \subseteq Splits
  /\ DOMAIN bars \subseteq Calendar /\ \A d \in DOMAIN bars : bars[d] \in Bars
  /\ lot \in [open : BOOLEAN, matched : BOOLEAN, halvings : Nat, restatedOn : Nat, fits : BOOLEAN]
  /\ DOMAIN rows \subseteq Calendar /\ \A d \in DOMAIN rows : rows[d] \in PositionEvaluation

\* Rows of the day they were made on, by the bar of that day.  The levels fit
\* (Matches), and were not restated for a day to come.
Judged(p, asOf) ==
  /\ asOf = today /\ asOf \in DOMAIN bars
  /\ p.matched => p.fits /\ p.restatedOn <= asOf

\* One row per day, of the lot p; the model forgets one that is not judged.
Upserts(p, asOf) ==
  LET days == IF Judged(p, asOf) THEN DOMAIN rows \cup {asOf} ELSE DOMAIN rows \ {asOf}
  IN  rows' = [d \in days |-> IF d = asOf THEN Evaluation(p, asOf) ELSE rows[d]]

-----------------------------------------------------------------------------
EvaluateInit ==
  /\ today = OpenedOn /\ folded = {}
  /\ bars = [d \in 1..(OpenedOn - 1) |-> CHOOSE b \in Trades[d] : TRUE]
  /\ held = [s \in Sessions |-> Nothing]
  /\ rows = [d \in {} |-> 0]
  /\ lot = [open |-> FALSE, matched |-> FALSE, halvings |-> 0, restatedOn |-> OpenedOn,
            fits |-> FALSE]

NextDay ==
  /\ today < EndDay
  /\ today' = today + 1
  /\ UNCHANGED <<bars, folded, lot, held, rows>>

\* The daily job stores the bars of all days since it last ran, today's too.
Ingests ==
  LET missing == (1..today) \ DOMAIN bars
  IN  /\ missing # {}
      /\ \E new \in [missing -> Bars] :
           /\ \A d \in missing : new[d] \in Trades[d]
           /\ bars' = [d \in 1..today |-> IF d \in missing THEN new[d] ELSE bars[d]]
      /\ UNCHANGED <<today, folded, lot, held, rows>>

\* The history comes to be replaced, some time from the ex-date on.
Rebuilds(x) ==
  /\ x \in Splits \ folded /\ x <= today
  /\ folded' = folded \cup {x}
  /\ UNCHANGED <<today, bars, lot, held, rows>>

\* The terms that a signal of a bar up to the entry may be in: those of the
\* bars, or of the bars as they were when run_signals last replaced it.
SignalTerms == 0..HalvingsOf(OpenedOn)

\* _apply_buy, on the day of the fill or later, folds the splits that have
\* taken effect and looks for a signal near the price: only one in the same
\* terms is near enough.
Buys ==
  /\ ~lot.open
  /\ \E matched \in BOOLEAN :
       /\ matched => EffectiveBy(today) \in SignalTerms
       /\ lot' = [open |-> TRUE, matched |-> matched,
                  halvings |-> IF matched THEN EffectiveBy(today) ELSE 0,
                  restatedOn |-> today, fits |-> matched]
  /\ UNCHANGED <<today, bars, folded, held, rows>>

\* POST /positions/{id}/match freezes the levels of a signal as they are now,
\* whatever terms the lot is in and whoever evaluates it.  History: they fit
\* the lot if they are in its terms and no session holds the row without them.
Matches ==
  /\ lot.open
  /\ \E signal \in SignalTerms :
       lot' = [lot EXCEPT !.matched = TRUE, !.halvings = signal,
                          !.fits = /\ signal = EffectiveBy(lot.restatedOn)
                                   /\ \A s \in Sessions : held[s] = Nothing]
  /\ UNCHANGED <<today, bars, folded, held, rows>>

\* evaluate_all loads the open lots of the session.
Loads(s, asOf) ==
  /\ held[s] = Nothing /\ lot.open
  /\ held' = [held EXCEPT ![s] = [asOf |-> asOf, lot |-> lot]]
  /\ UNCHANGED <<today, bars, folded, lot, rows>>

JobLoads == Loads("job", today)
ApiLoads == \E asOf \in (today - Behind)..(today + Ahead) : Loads("api", asOf)

(* Variant: actions are folded from the day after their ex-date. *)
ToFoldLate(p, asOf) == {x \in Known(Splits) : p.restatedOn < x /\ x < asOf}

\* Effective since the lot was last restated, or opened.
ToFold(p, asOf) == {x \in Known(Splits) : p.restatedOn < x /\ x <= asOf}

\* restate: a lot without frozen levels has none to restate.
Restate(p, asOf) ==
  IF ToFold(p, asOf) = {} THEN p
  ELSE [p EXCEPT !.restatedOn = asOf,
                 !.halvings = IF p.matched THEN @ + Cardinality(ToFold(p, asOf)) ELSE @]

\* last_restated_on says that all splits up to a day are folded: true of a
\* day to come only if those before it are announced.
Announced(asOf) == \A x \in Splits : x <= asOf => x \in Known(Splits)

(* Variant: last_restated_on follows every evaluation, back to past days too. *)
WriteAlways(p, asOf) ==
  [lot EXCEPT !.restatedOn = asOf,
              !.halvings = IF p.matched THEN Restate(p, asOf).halvings ELSE @]

\* The session writes the columns it has changed, with the values it has
\* computed from what it loaded.
Write(p, asOf) ==
  IF ToFold(p, asOf) = {} THEN lot
  ELSE [lot EXCEPT !.restatedOn = asOf,
                   !.halvings = IF p.matched THEN Restate(p, asOf).halvings ELSE @,
                   !.fits = @ /\ Announced(asOf)]

\* restate_for_actions, evaluate_position and the commit of one lot.
Evaluates(s) ==
  LET asOf == held[s].asOf
      p    == held[s].lot
  IN  /\ held[s] # Nothing
      /\ ~Raises(asOf)
      /\ lot' = Write(p, asOf)
      /\ Upserts(Restate(p, asOf), asOf)
      /\ held' = [held EXCEPT ![s] = Nothing]
      /\ UNCHANGED <<today, bars, folded>>

\* An error on one lot: its transaction is rolled back.
Fails(s) ==
  /\ held[s] # Nothing
  /\ held' = [held EXCEPT ![s] = Nothing]
  /\ UNCHANGED <<today, bars, folded, lot, rows>>

EvaluateNext ==
  \/ NextDay \/ Ingests \/ Buys \/ Matches
  \/ \E x \in Splits : Rebuilds(x)
  \/ JobLoads \/ ApiLoads
  \/ \E s \in Sessions : Evaluates(s) \/ Fails(s)

EvaluateSpec == EvaluateInit /\ [][EvaluateNext]_evaluateVars

-----------------------------------------------------------------------------
(* A stop or a target is reported hit exactly if the close is worth so     *)
(* much, on any day around any number of splits: levels and bar are in the *)
(* same terms, however late the lot was opened, whatever days were         *)
(* evaluated by overlapping sessions before, and while Fyers has not       *)
(* folded a split into older bars (restate.py: "otherwise a stop level     *)
(* frozen from a matched signal would sit at the wrong multiple of the     *)
(* current price").  Not promised, for the code does not keep it (Judged): *)
(* after an operator's match on a signal that is in other terms than the   *)
(* lot, or during an evaluation of it, until the next match; after an      *)
(* evaluation of a future day, until that day comes, and for good if a     *)
(* split before it was not announced yet.                                  *)
LevelsAreTrue ==
  \A d \in DOMAIN rows : rows[d].matched =>
    /\ "STOP_HIT" \in rows[d].reasons <=> bars[d].close < Levels.stop
    /\ "T1_HIT" \in rows[d].reasons <=> bars[d].close >= Levels.t1
    /\ "T2_HIT" \in rows[d].reasons <=> bars[d].close >= Levels.t2

\* The trailing stop of day d, in what prices are worth.
TrailWorth(d) ==
  Max({Max({bars[e].high : e \in Held(f)}) - bars[f].atr : f \in Held(d)})

(* The verdict is the one an operator would reach who sees all prices in   *)
(* one kind of shares: review a demerger, leave at the stop, the trail,    *)
(* the flip or the second target, sell a part at the first, else hold.     *)
(* It is promised where the code can keep it: the bars since the entry     *)
(* are in one kind of shares (`uniform`; after the ex-date of a split and  *)
(* before Fyers folds it into the older bars they are not, and TRAIL_HIT   *)
(* and EXIT may be false), and the levels are judged, as above.            *)
VerdictIsTrue ==
  \A d \in DOMAIN rows : rows[d].uniform =>
    LET matched == rows[d].matched
        close   == bars[d].close
    IN  /\ rows[d].verdict = "REVIEW" <=> \E x \in Demergers : OpenedOn < x /\ x <= d
        /\ rows[d].verdict # "REVIEW" =>
             (/\ rows[d].verdict = "EXIT" <=>
                   \/ close < TrailWorth(d) \/ bars[d].flip
                   \/ matched /\ (close < Levels.stop \/ close >= Levels.t2)
              /\ rows[d].verdict = "PARTIAL" =>
                   matched /\ close >= Levels.t1 /\ close < Levels.t2)

(* The trailing stop never falls from one day to a later one, also over    *)
(* splits that have been folded into the history (chandelier_since: "it    *)
(* never trails down"); both in one kind of shares, as above.  Quotes of   *)
(* different terms are compared by what they are worth, crosswise.         *)
TrailNeverFalls ==
  \A a, b \in DOMAIN rows :
    a < b /\ rows[a].uniform /\ rows[b].uniform =>
      rows[a].trail * Scale(rows[b].halvings) <= rows[b].trail * Scale(rows[a].halvings)

=============================================================================
