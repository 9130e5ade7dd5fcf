-------------------------- MODULE CorporateActions --------------------------
(***************************************************************************)
(* The corporate actions NSE announces, the table they are loaded into day *)
(* by day, and the factors that turn a stored series into one of total     *)
(* returns.                                                                *)
(*                                                                         *)
(* A record of NSE is a line of English; what the parser makes of it is    *)
(* given: its kind, its amount or ratio, and whether it can be read.  Days *)
(* are calendar days with a bar each.                                      *)
(***************************************************************************)
EXTENDS Integers, FiniteSets, FiniteSetsExt

CONSTANTS
  Records,    \* NSE's records, in the order of its answer
  Company,    \* Company[r]
  Kind,       \* Kind[r]: what classify makes of it
  FirstEx,    \* FirstEx[r]: the ex-date first announced
  Amount,     \* Amount[r]: rupees per share, of a dividend
  Factor,     \* Factor[r]: of a split or a bonus, as [num, den]
  Close,      \* Close[d]: the close of day d in its own share terms
  Lookback,   \* the job loads ex-dates from 7 days back
  Ahead,      \* to 30 days ahead
  LastDay,    \* bound: days
  MaxMissed,  \* bound: consecutive days without a successful load
  MaxMoves,   \* bound: ex-dates that NSE moves
  Windows     \* bound: the ranges asked of the API

Days == 0..LastDay
Kinds == {"split", "bonus", "rights", "demerger", "dividend", "none"}
Structural == {"split", "bonus"}
One == [num |-> 1, den |-> 1]

ASSUME CorporateActionsConstants ==
  /\ Records \subseteq Nat /\ IsFiniteSet(Records) /\ LastDay \in Nat
  /\ Kind \in [Records -> Kinds] /\ FirstEx \in [Records -> Days]
  /\ Amount \in [Records -> Nat]
  /\ Factor \in [Records -> [num : Nat \ {0}, den : Nat \ {0}]]
  /\ Close \in [Days -> Nat \ {0}]
  /\ Lookback \in Nat /\ Ahead \in Nat /\ MaxMissed \in Nat /\ MaxMoves \in Nat
  /\ Windows \subseteq Days \X Days

VARIABLES
  today, loaded,  \* the day, and whether its job has come to the actions
  missed,         \* days in a row on which NSE did not answer
  known,          \* companies in symbols
  notice,         \* notice[r]: "none", "garbled" or "clear", and its ex-date
  since,          \* history: the first day on which a load could have read r
  moves,          \* ex-dates moved
  rows            \* the table: [company, kind, ex, amount, factor]

vars == <<today, loaded, missed, known, notice, since, moves, rows>>

Companies == {Company[r] : r \in Records}
Never == LastDay + 2

Init ==
  /\ today = 0 /\ loaded = FALSE /\ missed = 0 /\ moves = 0
  /\ known \in SUBSET Companies
  /\ notice = [r \in Records |-> [text |-> "none", ex |-> FirstEx[r]]]
  /\ since = [r \in Records |-> Never]
  /\ rows = {}

-----------------------------------------------------------------------------
(* What happens outside: companies are listed, NSE announces and corrects. *)

Loadable(r, n, companies) == n[r].text = "clear" /\ Company[r] \in companies

\* From when on the records can have been read, after a change.
Since(n, companies) ==
  [r \in Records |->
     IF ~Loadable(r, n, companies) THEN Never
     ELSE IF since[r] # Never /\ n[r] = notice[r] THEN since[r]
     ELSE IF loaded THEN today + 1 ELSE today]

\* refresh_universe, or a symbol that something asked for.
Lists(c) ==
  /\ c \notin known
  /\ known' = known \cup {c}
  /\ since' = Since(notice, known')
  /\ UNCHANGED <<today, loaded, missed, notice, moves, rows>>

\* A record appears by its ex-date, in words the parser knows or not.
Announces(r, text) ==
  /\ notice[r].text = "none" /\ today <= notice[r].ex
  /\ notice' = [notice EXCEPT ![r].text = text]
  /\ since' = Since(notice', known)
  /\ UNCHANGED <<today, loaded, missed, known, moves, rows>>

Rewords(r) ==
  /\ notice[r].text = "garbled"
  /\ notice' = [notice EXCEPT ![r].text = "clear"]
  /\ since' = Since(notice', known)
  /\ UNCHANGED <<today, loaded, missed, known, moves, rows>>

\* An ex-date still ahead is put off.
Moves(r, day) ==
  /\ notice[r].text # "none" /\ today < notice[r].ex /\ notice[r].ex < day
  /\ moves < MaxMoves /\ moves' = moves + 1
  /\ notice' = [notice EXCEPT ![r].ex = day]
  /\ since' = Since(notice', known)
  /\ UNCHANGED <<today, loaded, missed, known, rows>>

-----------------------------------------------------------------------------
(* load_actions                                                            *)

\* What is left of NSE's answer for a range: records that move the price, of
\* companies that are wanted and there, that can be read.
Parsed(frm, to, wanted) ==
  {r \in Records :
     /\ notice[r].ex \in frm..to /\ Company[r] \in wanted
     /\ Kind[r] # "none" /\ Loadable(r, notice, known)}

Key(r) == <<Company[r], notice[r].ex, Kind[r]>>
KeyOf(row) == <<row.company, row.ex, row.kind>>

(* Variant: of several records the last one counts. *)
RowOfLast(group) ==
  LET last == Max(group)
  IN  [company |-> Company[last], kind |-> Kind[last], ex |-> notice[last].ex,
       amount |-> Amount[last], factor |-> Factor[last]]

AmountOf(group) == MapThenSumSet(LAMBDA r : Amount[r], group)

\* One row for the records of a key: dividends of a day are summed, of several
\* others the first one counts.
RowOf(group) ==
  LET first == Min(group)
  IN  [company |-> Company[first], kind |-> Kind[first], ex |-> notice[first].ex,
       amount |-> IF Kind[first] = "dividend" THEN AmountOf(group) ELSE Amount[first],
       factor |-> Factor[first]]

Deduped(parsed) == {RowOf({q \in parsed : Key(q) = Key(r)}) : r \in parsed}

\* A new row takes the place of the one with its key; no row is ever deleted.
Load(frm, to, wanted) ==
  LET new == Deduped(Parsed(frm, to, wanted))
  IN  rows' = {row \in rows : \A n \in new : KeyOf(n) # KeyOf(row)} \cup new

(* Variant: from today on. *)
FromToday(day) == day

\* The window of _step_actions starts in the past,
From(day) == IF day < Lookback THEN 0 ELSE day - Lookback

JobLoads ==
  /\ ~loaded /\ loaded' = TRUE
  /\ Load(From(today), today + Ahead, Companies)
  /\ missed' = 0
  /\ UNCHANGED <<today, known, notice, since, moves>>

\* and a refusal is only a warning.
JobFails ==
  /\ ~loaded /\ loaded' = TRUE
  /\ missed < MaxMissed /\ missed' = missed + 1
  /\ UNCHANGED <<today, known, notice, since, moves, rows>>

\* POST /corporate-actions/load, of some companies; no filter asks for all.
ApiLoads(window, wanted) ==
  /\ window[1] <= window[2]
  /\ Load(window[1], window[2], wanted)
  /\ UNCHANGED <<today, loaded, missed, known, notice, since, moves>>

NextDay ==
  /\ loaded /\ today < LastDay
  /\ today' = today + 1 /\ loaded' = FALSE
  /\ UNCHANGED <<missed, known, notice, since, moves, rows>>

Next ==
  \/ NextDay \/ JobLoads \/ JobFails
  \/ \E window \in Windows, wanted \in SUBSET Companies : ApiLoads(window, wanted)
  \/ \E c \in Companies : Lists(c)
  \/ \E r \in Records :
       \/ \E text \in {"garbled", "clear"} : Announces(r, text)
       \/ Rewords(r)
       \/ \E day \in Days : Moves(r, day)

Spec == Init /\ [][Next]_vars

-----------------------------------------------------------------------------
(* adjustment_series                                                       *)

Product(f, g) == [num |-> f.num * g.num, den |-> f.den * g.den]
Same(f, g) == f.num * g.den = g.num * f.den

\* The product of the factors f[x], of all x.
ProductOf(f) == FoldFunction(Product, One, f)

RowsOf(c, kinds) == {row \in rows : row.company = c /\ row.kind \in kinds}

\* structural_factor_after
StructuralFactorAfter(c, day) ==
  ProductOf([row \in {a \in RowsOf(c, Structural) : a.ex > day} |-> row.factor])

\* What really happened to the shares from one day to another.
Happenings(c, from, to) ==
  {r \in Records : /\ Company[r] = c /\ Kind[r] \in Structural /\ notice[r].text # "none"
                   /\ from < notice[r].ex /\ notice[r].ex <= to}

Happened(c, from, to) == ProductOf([r \in Happenings(c, from, to) |-> Factor[r]])

\* The stored close of a day: Fyers adjusts it for what has happened since.
Stored(c, day) == Product([num |-> Close[day], den |-> 1], Happened(c, day, today))

\* 1 - amount / close
Less(amount, close) ==
  [num |-> close.num * amount.den - amount.num * close.den, den |-> close.num * amount.den]

\* The bars before an ex-date end with this one.
Prior(ex) == Min({ex - 1, today})

\* Each dividend takes its part of the close before it, in the share terms of
\* that close; one of the whole price or more is an error and left out.
PerAction(c) ==
  {a \in {[ex |-> row.ex,
           f  |-> Less(Product([num |-> row.amount, den |-> 1], StructuralFactorAfter(c, row.ex)),
                       Stored(c, Prior(row.ex)))] :
          row \in {d \in RowsOf(c, {"dividend"}) : d.ex > 0}} : a.f.num > 0}

(* Variant: the bar of the ex-date is adjusted too. *)
AfterOrOn(ex, day) == ex >= day

After(ex, day) == ex > day

\* One walk back over the bars: what is left of the dividends, and their product.
AdjustmentSeries(c) ==
  LET walk[day \in 0..(today + 1)] ==
        IF day = today + 1 THEN [left |-> PerAction(c), f |-> One]
        ELSE LET later == walk[day + 1]
                 gone  == {a \in later.left : After(a.ex, day)}
             IN  [left |-> later.left \ gone,
                  f    |-> Product(ProductOf([a \in gone |-> a.f]), later.f)]
  IN  [day \in 0..today |-> walk[day].f]

-----------------------------------------------------------------------------
(* Properties.                                                             *)

\* The days on which a load of the job would have read r, from the first to the
\* last that the bound on refusals guarantees, are over.
Due(r) ==
  LET first == Max({since[r], notice[r].ex - Ahead})
  IN  /\ since[r] # Never /\ Kind[r] # "none"
      /\ first + MaxMissed <= notice[r].ex + Lookback
      /\ first + MaxMissed < today \/ (first + MaxMissed = today /\ loaded)

\* No action slips through: one that could be read on more days of the job's
\* window than NSE refuses in a row is in the table with the date it has now,
\* even if it was announced, reworded or listed after its ex-date, or moved.
\* (_step_actions: a week back, a month ahead.)
NoneSlipsThrough ==
  \A r \in Records : Due(r) => \E row \in rows : KeyOf(row) = Key(r)

\* What goes ex on a day is the total of all dividends of the day, although they
\* are announced one by one and loaded again and again, by job and API.
\* (load_actions: last-wins would understate the factor.)
TotalsGoEx ==
  \A row \in rows :
    LET group == {r \in Records : Key(r) = KeyOf(row) /\ since[r] # Never}
    IN  row.kind = "dividend" /\ moves = 0 /\ (\A r \in group : Due(r))
        => row.amount = AmountOf(group)

\* The table has the splits and bonuses that have happened, no two of a kind on
\* a day, and nothing ahead.
StructureIsKnown(c) ==
  LET happened == Happenings(c, -1, today)
  IN  /\ \A row \in RowsOf(c, Kinds) : row.ex <= today
      /\ \A r \in happened : \E row \in rows : KeyOf(row) = Key(r) /\ row.factor = Factor[r]
      /\ \A row \in RowsOf(c, Structural) : \E r \in happened : Key(r) = KeyOf(row)
      /\ \A q, r \in happened : Key(q) = Key(r) => q = r

\* What is left of the price of its time after a dividend, in the share terms of
\* its time.
Remains(c, row) ==
  Less([num |-> row.amount, den |-> 1],
       Product([num |-> Close[row.ex - 1], den |-> 1], Happened(c, row.ex - 1, row.ex)))

\* Then the factor of a bar is the product of what each later dividend left of
\* the price of its own time, in the share terms of its own time: splits before,
\* between and after cancel out.  (adjust.py: the share-terms trap.)
ReturnsAreTotal ==
  \A c \in Companies :
    StructureIsKnown(c) =>
      \A day \in 0..today :
        Same(AdjustmentSeries(c)[day],
             ProductOf([row \in {d \in RowsOf(c, {"dividend"}) : d.ex > day /\ Remains(c, d).num > 0}
                          |-> Remains(c, row)]))
=============================================================================
