---------------------------- MODULE ApplySessions ----------------------------
(***************************************************************************)
(* Runs of apply_unapplied_trades that overlap: the broker and ledger      *)
(* steps of the daily job, POST /broker-accounts/{id}/sync, sync-all and a *)
(* tradebook import all fold the fills of the same account, each in a      *)
(* session of its own and with no lock between them.                       *)
(*                                                                         *)
(* Ledger.tla takes the application of a fill as one step.  Here a sell is *)
(* two: the open lots are read in one step, and the rows computed from     *)
(* what was read are written and committed in another (READ COMMITTED).    *)
(* Share terms and manual reattribution are left out, and the lots are     *)
(* opened on different days, so that their order is that of their buys.    *)
(***************************************************************************)
EXTENDS ShareCounts

CONSTANTS Sessions,     \* sessions that may run apply_unapplied_trades
          Buys, Sells,  \* the account's fills, numbered in trade_ts order
          Qty,          \* shares of a fill
          MaxFailures   \* bound: fills that fail and runs that die

Trades == Buys \cup Sells

ASSUME SessionsAssumption ==
  /\ Buys \subseteq Nat /\ Sells \subseteq Nat /\ Buys \cap Sells = {}
  /\ IsFiniteSet(Trades)
  /\ Qty \in [Trades -> Nat \ {0}]
  /\ MaxFailures \in Nat

VARIABLES stored, applied,  \* broker_trades: the fills, those with applied_at
          lot,              \* positions, by the buy that opened them
          alloc,            \* sell_allocations: alloc[s][b] shares of s on b
          batch,            \* batch[r]: the fills r loaded and has still to do
          seen,             \* seen[r]: the open lots as r read them for its
                            \* next sell; a lot that was not open counts 0
          overlapped,       \* history: two runs were under way at once
          failures

vars == <<stored, applied, lot, alloc, batch, seen, overlapped, failures>>

NoLot   == [status |-> "none", qty |-> 0]
NotRead == [b \in {} |-> 0]

Init ==
  /\ stored = {} /\ applied = {}
  /\ lot = [b \in Buys |-> NoLot]
  /\ alloc = [s \in Sells |-> [b \in Buys |-> 0]]
  /\ batch = [r \in Sessions |-> {}]
  /\ seen = [r \in Sessions |-> NotRead]
  /\ overlapped = FALSE
  /\ failures = 0

(* A sync or an import stores a fill. *)
Store(t) ==
  /\ stored' = stored \cup {t}
  /\ UNCHANGED <<applied, lot, alloc, batch, seen, overlapped, failures>>

Overlaps(r) == \E o \in Sessions \ {r} : batch[o] # {}

(* Variant: applied fills are loaded again. *)
StartAll(r) ==
  /\ batch[r] = {}
  /\ batch' = [batch EXCEPT ![r] = stored]
  /\ overlapped' = (overlapped \/ Overlaps(r))
  /\ UNCHANGED <<stored, applied, lot, alloc, seen, failures>>

(* Variant: a cursor, fills before the last applied one are not looked at. *)
StartFromCursor(r) ==
  /\ batch[r] = {}
  /\ batch' = [batch EXCEPT ![r] = {t \in stored : \A u \in applied : u < t}]
  /\ overlapped' = (overlapped \/ Overlaps(r))
  /\ UNCHANGED <<stored, applied, lot, alloc, seen, failures>>

(* The unapplied fills are loaded once, at the start of a run. *)
Start(r) ==
  /\ batch[r] = {}
  /\ batch' = [batch EXCEPT ![r] = stored \ applied]
  /\ overlapped' = (overlapped \/ Overlaps(r))
  /\ UNCHANGED <<stored, applied, lot, alloc, seen, failures>>

IsNext(r, t) == t \in batch[r] /\ \A u \in batch[r] : t <= u

(* Committed or rolled back, the run goes on with the fill after t. *)
GoesOn(r, t) ==
  /\ batch' = [batch EXCEPT ![r] = @ \ {t}]
  /\ seen' = [seen EXCEPT ![r] = NotRead]

Buy(r, b) ==
  /\ IsNext(r, b)
  /\ lot[b] = NoLot
  /\ lot' = [lot EXCEPT ![b] = [status |-> "open", qty |-> Qty[b]]]
  /\ applied' = applied \cup {b}
  /\ GoesOn(r, b)
  /\ UNCHANGED <<stored, alloc, overlapped, failures>>

(* Positions are unique by entry_trade_id: a buy another run applied since *)
(* it was loaded raises and is rolled back.                                *)
BuyRaises(r, b) ==
  /\ IsNext(r, b)
  /\ lot[b] # NoLot
  /\ GoesOn(r, b)
  /\ UNCHANGED <<stored, applied, lot, alloc, overlapped, failures>>

(* _apply_sell reads the open lots; applied_at is not looked at again. *)
ReadLots(r, s) ==
  /\ IsNext(r, s)
  /\ seen[r] = NotRead
  /\ seen' = [seen EXCEPT ![r] =
       [b \in Buys |-> IF lot[b].status = "open" THEN lot[b].qty ELSE 0]]
  /\ UNCHANGED <<stored, applied, lot, alloc, batch, overlapped, failures>>

(* allocate_fifo on the lots as they were read. *)
Take(r, s, b) ==
  LET left == Qty[s] - Total(seen[r], {c \in Buys : c < b})
  IN  IF left <= 0 THEN 0 ELSE IF left < seen[r][b] THEN left ELSE seen[r][b]

(* uq_sell_allocation: one row per sell and lot. *)
RowExists(r, s) == \E b \in Buys : Take(r, s, b) # 0 /\ alloc[s][b] # 0

(* Variant: the whole row is written back as it was read. *)
ChargedAsRead(r, s, b) ==
  LET q == seen[r][b] - Take(r, s, b)
  IN  IF Take(r, s, b) = 0 THEN lot[b]
      ELSE [status |-> IF q = 0 THEN "closed" ELSE "open", qty |-> q]

(* The UPDATE of a lot: qty_open is what was read less what is taken,      *)
(* whatever is there now; status is written only to close the lot.         *)
Charged(r, s, b) ==
  LET q == seen[r][b] - Take(r, s, b)
  IN  IF Take(r, s, b) = 0 THEN lot[b]
      ELSE [status |-> IF q = 0 THEN "closed" ELSE lot[b].status, qty |-> q]

Sell(r, s) ==
  /\ IsNext(r, s)
  /\ seen[r] # NotRead
  /\ ~RowExists(r, s)
  /\ alloc' = [alloc EXCEPT ![s] = [b \in Buys |-> @[b] + Take(r, s, b)]]
  /\ lot' = [b \in Buys |-> Charged(r, s, b)]
  /\ applied' = applied \cup {s}
  /\ GoesOn(r, s)
  /\ UNCHANGED <<stored, overlapped, failures>>

SellRaises(r, s) ==
  /\ IsNext(r, s)
  /\ seen[r] # NotRead
  /\ RowExists(r, s)
  /\ GoesOn(r, s)
  /\ UNCHANGED <<stored, applied, lot, alloc, overlapped, failures>>

(* Any other error on one fill, a deadlock between two runs among them. *)
Fails(r, t) ==
  /\ IsNext(r, t)
  /\ failures < MaxFailures
  /\ failures' = failures + 1
  /\ GoesOn(r, t)
  /\ UNCHANGED <<stored, applied, lot, alloc, overlapped>>

Dies(r) ==
  /\ batch[r] # {}
  /\ failures < MaxFailures
  /\ failures' = failures + 1
  /\ batch' = [batch EXCEPT ![r] = {}]
  /\ seen' = [seen EXCEPT ![r] = NotRead]
  /\ UNCHANGED <<stored, applied, lot, alloc, overlapped>>

Run(r) ==
  \/ Start(r)
  \/ \E b \in Buys : Buy(r, b) \/ BuyRaises(r, b)
  \/ \E s \in Sells : ReadLots(r, s) \/ Sell(r, s) \/ SellRaises(r, s)

Next ==
  \/ \E t \in Trades : Store(t)
  \/ \E r \in Sessions : Run(r)
  \/ \E r \in Sessions : Dies(r) \/ \E t \in Trades : Fails(r, t)

(* The daily job starts a run every day; a run goes on to its end. *)
Spec == Init /\ [][Next]_vars /\ \A r \in Sessions : WF_vars(Run(r))

-----------------------------------------------------------------------------
(* Properties. *)

Lot == [status : {"open", "closed"}, qty : Nat]

(* The rows have the types of their columns; however runs overlap, no lot  *)
(* ever shows fewer than no shares or more than were bought.               *)
TypeOK ==
  /\ stored \subseteq Trades /\ applied \subseteq stored
  /\ lot \in [Buys -> Lot \cup {NoLot}]
  /\ \A b \in Buys : lot[b] # NoLot => lot[b].qty <= Qty[b]
  /\ alloc \in [Sells -> [Buys -> Nat]]
  /\ batch \in [Sessions -> SUBSET stored]
  /\ seen \in [Sessions -> [Buys -> Nat] \cup {NotRead}]
  /\ overlapped \in BOOLEAN
  /\ failures \in 0 .. MaxFailures

(* A lot that some run closed stays closed, although other runs still      *)
(* write to it what they computed from its open state (_close_if_flat).    *)
ClosedStaysClosed ==
  [][\A b \in Buys : lot[b].status = "closed" => lot'[b].status = "closed"]_vars

(* As long as runs follow one another, whatever fails and dies in them,    *)
(* shares are neither lost nor made, and no sell is charged twice.         *)
ExactWithoutOverlap ==
  ~overlapped =>
    /\ \A b \in Buys : lot[b] # NoLot =>
         lot[b].qty + Total([s \in Sells |-> alloc[s][b]], Sells) = Qty[b]
    /\ \A s \in Sells : Total(alloc[s], Buys) <= Qty[s]

(* No sell is charged more shares than it sold: each fill is folded into   *)
(* the lots once ("Fold every un-applied BrokerTrade").                    *)
ChargedOnce == \A s \in Sells : Total(alloc[s], Buys) <= Qty[s]

(* Every stored fill is applied in the end, also when runs get in each     *)
(* other's way, fail and die.                                              *)
EveryFillApplied == \A t \in Trades : t \in stored ~> t \in applied
=============================================================================
