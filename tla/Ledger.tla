------------------------------- MODULE Ledger -------------------------------
(***************************************************************************)
(* The positions ledger of one broker account and one symbol: the fills    *)
(* (broker_trades), the lots they opened (positions), the rows that charge *)
(* a sell to lots (sell_allocations) and the corporate actions that change *)
(* share terms.  Every query of the ledger filters on account and symbol,  *)
(* so the ledger of the whole platform is a product of such ledgers.       *)
(*                                                                         *)
(* One action is one committed transaction.  Prices, matched signals and   *)
(* user ids are left out: nothing below depends on them.                   *)
(***************************************************************************)
EXTENDS ShareTerms, ShareCounts

CONSTANTS Buys, Sells,  \* the account's fills, numbered in trade_ts order
          TradeDay,     \* trade_date of a fill
          Reported,     \* the quantities the broker may report for a fill
          LastDay,      \* bound: the model's last trading day
          MaxFailures   \* bound: failed applications and dead apply runs

Trades == Buys \cup Sells
None   == -1

ASSUME LedgerAssumption ==
  /\ Buys \subseteq Nat /\ Sells \subseteq Nat /\ Buys \cap Sells = {}
  /\ IsFiniteSet(Trades)
  /\ TradeDay \in [Trades -> Nat]
  /\ Reported \in [Trades -> SUBSET (Nat \ {0})]
  /\ LastDay \in Nat /\ MaxFailures \in Nat

VARIABLES today,      \* last_trading_day()
          known,      \* corporate_actions rows
          trade,      \* broker_trades rows
          position,   \* positions rows, by the buy that opened them
          alloc,      \* sell_allocations: alloc[s][b] shares of s charged to b
          loaded,     \* what the running apply_unapplied_trades has in memory:
                      \* the quantity of a fill it has to apply, 0 for others
          nextId,     \* the next positions.id
          failures

vars == <<today, known, trade, position, alloc, loaded, nextId, failures>>

NoPosition == [status |-> "none"]

Lots     == {b \in Buys : position[b] # NoPosition}
OpenLots == {b \in Lots : position[b].status = "open"}
Batch    == {t \in Trades : loaded[t] # 0}

AllocatedTo(b)   == Total([s \in Sells |-> alloc[s][b]], Sells)
Init ==
  /\ today = 0
  /\ known = {}
  /\ trade = [t \in Trades |-> [stored |-> FALSE, qty |-> 0, applied |-> FALSE]]
  /\ position = [b \in Buys |-> NoPosition]
  /\ alloc = [s \in Sells |-> [b \in Buys |-> 0]]
  /\ loaded = [t \in Trades |-> 0]
  /\ nextId = 1
  /\ failures = 0

-----------------------------------------------------------------------------
(* The world: days pass, NSE announces actions, brokers report fills.      *)

NextDay ==
  /\ today < LastDay
  /\ today' = today + 1
  /\ UNCHANGED <<known, trade, position, alloc, loaded, nextId, failures>>

(* load_actions stores an announced action before its ex-date. *)
LoadAction(a) ==
  /\ a \notin known
  /\ today < ExDate[a]
  /\ known' = known \cup {a}
  /\ UNCHANGED <<today, trade, position, alloc, loaded, nextId, failures>>

(* The same row, stored only once it has taken effect: the history of a    *)
(* symbol loaded after the fact, or days on which NSE refused to answer.   *)
LoadActionLate(a) ==
  /\ a \notin known
  /\ ExDate[a] <= today
  /\ known' = known \cup {a}
  /\ UNCHANGED <<today, trade, position, alloc, loaded, nextId, failures>>

(* Insert a fill, or refresh its quantity on conflict; applied_at stays.   *)
UpsertTrade(t, q) ==
  /\ TradeDay[t] <= today
  /\ trade' = [trade EXCEPT ![t].stored = TRUE, ![t].qty = q]
  /\ UNCHANGED <<today, known, position, alloc, loaded, nextId, failures>>

-----------------------------------------------------------------------------
(* apply_unapplied_trades: load the unapplied fills once, then one         *)
(* transaction per fill in trade order.                                    *)

(* Variant: every stored fill is loaded, applied or not. *)
StartApplyAll ==
  /\ Batch = {}
  /\ loaded' = [t \in Trades |-> IF trade[t].stored THEN trade[t].qty ELSE 0]
  /\ UNCHANGED <<today, known, trade, position, alloc, nextId, failures>>

StartApply ==
  /\ Batch = {}
  /\ loaded' = [t \in Trades |->
       IF trade[t].stored /\ ~trade[t].applied THEN trade[t].qty ELSE 0]
  /\ UNCHANGED <<today, known, trade, position, alloc, nextId, failures>>

IsNext(t) == t \in Batch /\ \A u \in Batch : t <= u

FillRatio(t)   == Combined[EffectiveIn(known, TradeDay[t], today)]
QtyNow(t, qty) == Restate(qty, FillRatio(t))

(* The fills left after t, as loaded or as they are in the database now.   *)
Kept(t)     == [loaded EXCEPT ![t] = 0]
Reloaded(t) == [u \in Trades |-> IF u \in Batch \ {t} THEN trade[u].qty ELSE 0]

(* The job's sessions keep what they loaded over a commit, the API's do    *)
(* not (expire_on_commit); a rollback makes both of them reload.           *)
Commit(t)   == loaded' \in {Kept(t), Reloaded(t)}
Rollback(t) == loaded' = Reloaded(t)

ApplyBuy(t) ==
  /\ IsNext(t)
  /\ position' = [position EXCEPT ![t] =
       [status   |-> "open",        id         |-> nextId,
        opened   |-> TradeDay[t],   restatedOn |-> today,
        qtyOpen  |-> QtyNow(t, loaded[t]), qtyTotal |-> QtyNow(t, loaded[t]),
        factor   |-> FillRatio(t),  review     |-> FALSE,
        exit     |-> None,          realized   |-> <<>>]]
  /\ nextId' = nextId + 1
  /\ trade' = [trade EXCEPT ![t].applied = TRUE]
  /\ Commit(t)
  /\ UNCHANGED <<today, known, alloc, failures>>

(* Variant: the order in which the lots were created. *)
OlderById(b, c) == position[b].id < position[c].id

(* FIFO order: by opened_on, then by id. *)
Older(b, c) ==
  \/ position[b].opened < position[c].opened
  \/ position[b].opened = position[c].opened /\ position[b].id < position[c].id

QtyOpen == [b \in Lots |-> position[b].qtyOpen]

(* What a sell of q shares takes from lot b: what the older open lots left *)
(* of it, at most what the lot holds.                                      *)
FifoTake(b, q) ==
  LET left == q - Total(QtyOpen, {c \in OpenLots : Older(c, b)})
  IN  IF position[b].qtyOpen <= 0 \/ left <= 0 THEN 0
      ELSE IF left < position[b].qtyOpen THEN left ELSE position[b].qtyOpen

(* Variant: realized P&L of the closing sell alone. *)
CloseWithOwnRow(p, s, rows) ==
  IF p.qtyOpen # 0 THEN p
  ELSE [p EXCEPT !.status = "closed", !.exit = s,
                 !.realized = [r \in Sells |-> IF r = s THEN rows[r] ELSE 0]]

(* A lot after s was charged to it; rows are its allocations from now on.  *)
CloseIfFlat(p, s, rows) ==
  IF p.qtyOpen # 0 THEN p
  ELSE [p EXCEPT !.status = "closed", !.exit = s, !.realized = rows]

RowsOf(allocations, b) == [s \in Sells |-> allocations[s][b]]

Takes(t) == [b \in Buys |-> IF b \in OpenLots THEN FifoTake(b, QtyNow(t, loaded[t])) ELSE 0]

(* uq_sell_allocation: one row per sell and lot.                           *)
RowExists(t) == \E b \in Buys : alloc[t][b] # 0 /\ Takes(t)[b] # 0

ApplySell(t) ==
  /\ IsNext(t)
  /\ ~RowExists(t)
  /\ alloc' = [alloc EXCEPT ![t] = [b \in Buys |-> @[b] + Takes(t)[b]]]
  /\ position' = [b \in Buys |->
       IF Takes(t)[b] = 0 THEN position[b]
       ELSE CloseIfFlat([position[b] EXCEPT !.qtyOpen = @ - Takes(t)[b]],
                        t, RowsOf(alloc', b))]
  /\ trade' = [trade EXCEPT ![t].applied = TRUE]
  /\ Commit(t)
  /\ UNCHANGED <<today, known, nextId, failures>>

(* A sell an operator attributed before it was applied breaks the unique   *)
(* constraint: rolled back and left unapplied, the loop goes on.           *)
SellRaises(t) ==
  /\ IsNext(t)
  /\ RowExists(t)
  /\ Rollback(t)
  /\ UNCHANGED <<today, known, trade, position, alloc, nextId, failures>>

(* Any other error on one fill: rolled back, the loop goes on.             *)
ApplyFails(t) ==
  /\ IsNext(t)
  /\ failures < MaxFailures
  /\ failures' = failures + 1
  /\ Rollback(t)
  /\ UNCHANGED <<today, known, trade, position, alloc, nextId>>

(* The process dies between two transactions. *)
ApplyDies ==
  /\ Batch # {}
  /\ failures < MaxFailures
  /\ failures' = failures + 1
  /\ loaded' = [t \in Trades |-> 0]
  /\ UNCHANGED <<today, known, trade, position, alloc, nextId>>

-----------------------------------------------------------------------------
(* evaluate_all(as_of): each open lot is restated, then judged, in a       *)
(* transaction of its own; one that fails leaves the others alone.         *)

(* Variant: everything since the fill, restated before or not. *)
DueSinceFill(p, asOf) == EffectiveIn(known, p.opened, asOf)

Due(p, asOf) == EffectiveIn(known, p.restatedOn, asOf)

RestateForActions(p, asOf) ==
  LET r == Combined[Due(p, asOf)]
  IN  IF Due(p, asOf) = {} THEN p
      ELSE [p EXCEPT !.qtyOpen  = Restate(@, r), !.qtyTotal   = Restate(@, r),
                     !.factor   = Times(@, r),   !.restatedOn = asOf]

(* The verdict; of its reasons only QTY_MISMATCH, which looks at qty_total. *)
Evaluated(p) ==
  [p EXCEPT !.review = IsFractional(p.qtyTotal, p.factor)]

Evaluate(b, asOf) ==
  /\ b \in OpenLots
  /\ asOf <= today
  /\ position' = [position EXCEPT ![b] = Evaluated(RestateForActions(@, asOf))]
  /\ UNCHANGED <<today, known, trade, alloc, loaded, nextId, failures>>

-----------------------------------------------------------------------------
(* reattribute_sell: an operator replaces what a sell was charged to.      *)

StoredQty(s) == QtyNow(s, trade[s].qty)

Splits(s) == UNION {[S -> 1 .. StoredQty(s)] : S \in SUBSET Lots}

(* Variant: a reopened lot does not get its shares back. *)
ReversedEmpty(p, s, qty) ==
  IF qty = 0 THEN p
  ELSE IF p.exit = s
       THEN [p EXCEPT !.status = "open", !.exit = None, !.realized = <<>>]
       ELSE [p EXCEPT !.qtyOpen = @ + qty]

(* A lot with the sell's own row taken back. *)
Reversed(p, s, qty) ==
  IF qty = 0 THEN p
  ELSE IF p.exit = s
       THEN [p EXCEPT !.qtyOpen = @ + qty, !.status = "open",
                      !.exit = None, !.realized = <<>>]
       ELSE [p EXCEPT !.qtyOpen = @ + qty]

Reattribute(s, split) ==
  /\ trade[s].stored
  /\ Total(split, DOMAIN split) = StoredQty(s)
  /\ alloc' = [alloc EXCEPT ![s] = [b \in Buys |->
                 IF b \in DOMAIN split THEN split[b] ELSE 0]]
  /\ position' = [b \in Buys |->
       LET back == Reversed(position[b], s, alloc[s][b])
       IN  IF b \in DOMAIN split
           THEN CloseIfFlat([back EXCEPT !.qtyOpen = @ - split[b]],
                            s, RowsOf(alloc', b))
           ELSE back]
  /\ UNCHANGED <<today, known, trade, loaded, nextId, failures>>

-----------------------------------------------------------------------------
Apply == \/ StartApply
         \/ \E t \in Buys  : ApplyBuy(t)
         \/ \E t \in Sells : ApplySell(t) \/ SellRaises(t)

(* The pipeline without hand-made corrections, actions announced in time.  *)
BookNext ==
  \/ NextDay
  \/ \E a \in Actions : LoadAction(a)
  \/ \E t \in Trades : \E q \in Reported[t] : UpsertTrade(t, q)
  \/ Apply
  \/ \E t \in Trades : ApplyFails(t)
  \/ ApplyDies
  \/ \E b \in Buys : \E asOf \in 0 .. LastDay : Evaluate(b, asOf)

LateNext   == BookNext \/ \E a \in Actions : LoadActionLate(a)
ManualNext == BookNext \/ \E s \in Sells : \E split \in Splits(s) : Reattribute(s, split)

BookSpec   == Init /\ [][BookNext]_vars
LateSpec   == Init /\ [][LateNext]_vars
ManualSpec == Init /\ [][ManualNext]_vars

-----------------------------------------------------------------------------
(* Properties.                                                             *)

\* What a closing lot summed up: nothing yet, or its row of every sell.
Realized == {<<>>} \cup [Sells -> Nat]

Position ==
  [status : {"open", "closed"}, id : Nat, opened : Nat, restatedOn : Nat,
   qtyOpen : Int, qtyTotal : Nat, factor : Ratio, review : BOOLEAN,
   exit : Sells \cup {None}, realized : Realized]

(* The rows have the types of their columns; a lot's count may go below    *)
(* zero only by a manual reattribution.                                    *)
TypeOK ==
  /\ today \in 0 .. LastDay
  /\ known \subseteq Actions
  /\ trade \in [Trades -> [stored : BOOLEAN, qty : Nat, applied : BOOLEAN]]
  /\ position \in [Buys -> Position \cup {NoPosition}]
  /\ alloc \in [Sells -> [Buys -> Nat]]
  /\ loaded \in [Trades -> Nat]
  /\ nextId \in Nat
  /\ failures \in 0 .. MaxFailures

(* A lot is closed exactly when none of its shares is open: a lot closed   *)
(* with shares left is never sold or evaluated again, one open without     *)
(* shares never leaves the book (_close_if_flat).                          *)
ClosedIffFlat ==
  \A b \in Lots : position[b].status = "closed" <=> position[b].qtyOpen = 0

(* Shares that are open are in an open lot: taking a sell back from a lot  *)
(* reopens it, whichever sell had closed it ("a position this trade had    *)
(* closed is reopened", reattribute_sell).                                 *)
OpenSharesAreListed ==
  \A b \in Lots : position[b].qtyOpen > 0 => position[b].status = "open"

(* FIFO and restatement never sell more of a lot than it holds.            *)
LotBounds ==
  \A b \in Lots : 0 <= position[b].qtyOpen /\ position[b].qtyOpen <= position[b].qtyTotal

(* Without corporate actions no share appears or disappears: what a lot    *)
(* was opened with is still open or is charged to a sell, whatever the     *)
(* order of late fills, failed runs and manual reattributions.             *)
Conservation ==
  \A b \in Lots : position[b].qtyTotal = position[b].qtyOpen + AllocatedTo(b)

(* The realized P&L of a closed lot was summed over all the rows charged   *)
(* to it and no others (the SUM in _close_if_flat runs before commit).     *)
PnlMatchesRows ==
  \A b \in Lots : position[b].status = "closed" => position[b].realized = RowsOf(alloc, b)

(* structural_factor_applied holds every known action between the fill and *)
(* the last restatement, each of them once, whenever it was announced and  *)
(* whatever past dates were evaluated again in between.                    *)
FactorExact ==
  \A b \in Lots :
    position[b].factor =
      Combined[EffectiveIn(known, position[b].opened, position[b].restatedOn)]

(* A lot is closed when it is sold out and never oversold, in shares that   *)
(* every split and bonus was folded into exactly once.                     *)
LotsAreSound == ClosedIffFlat /\ LotBounds /\ FactorExact

(* A lot whose total passed the QTY_MISMATCH rule holds exactly the shares *)
(* its fill stands for: rounding errors of successive restatements are     *)
(* flagged or cancel out (RUNBOOK: "left a fractional share count"), as    *)
(* long as no more than two of the actions have a ratio that rounds.       *)
UnflaggedIsExact ==
  \A b \in OpenLots :
    IsFractional(position[b].qtyTotal, position[b].factor)
      \/ position[b].qtyTotal * position[b].factor.old
           = trade[b].qty * position[b].factor.new

(* A sell drains the lots of earlier days before it touches a newer one    *)
(* (allocate_fifo).                                                        *)
FifoOrder ==
  [][\A s \in Sells : \A b \in Buys : \A c \in OpenLots :
       alloc'[s][b] > alloc[s][b] /\ position[c].opened < position[b].opened
         => position'[c].qtyOpen = 0]_vars

(* A sell is charged to a lot in the share terms the lot is kept in: no    *)
(* action separates the lot's last restatement from the day of the sell    *)
(* (models.py: a position is "sized in stored (splits_only) terms").       *)
SellInLotTerms ==
  [][\A s \in Sells : \A b \in Lots : alloc'[s][b] > alloc[s][b] =>
       EffectiveIn(known, position[b].restatedOn, today) = {}]_vars

(* A lot evaluated as of today is in today's terms, also when an action    *)
(* was discovered after it took effect (restate.py).                       *)
DiscoveredIsFolded ==
  [][\A b \in Buys : Evaluate(b, today) => position'[b].factor =
       Combined[EffectiveIn(known, position[b].opened, today)]]_vars

(* Applying is once and for all: no later step applies a fill again, moves *)
(* the rows of an applied sell or opens another lot for an applied buy.    *)
AppliedOnce ==
  [][\A t \in Trades : trade[t].applied =>
       /\ trade'[t].applied
       /\ t \in Sells => alloc'[t] = alloc[t]
       /\ t \in Buys  => position'[t].id = position[t].id]_vars

=============================================================================
