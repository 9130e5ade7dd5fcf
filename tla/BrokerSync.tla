----------------------------- MODULE BrokerSync -----------------------------
(***************************************************************************)
(* How the fills of one broker account reach the database: pulls by the    *)
(* daily job and by requests (sync_account), imports of a tradebook that   *)
(* an operator exports, and what the account's row says of the last pull.  *)
(* The broker lists the orders of the current day only, filled or not, in  *)
(* pages that move while they are read.                                    *)
(*                                                                         *)
(* One action is one call of the broker or one transaction.  Folding a     *)
(* fill into lots is Ledger.tla; here it commits or is rolled back.        *)
(***************************************************************************)
EXTENDS Integers, Sequences, FiniteSets

CONSTANTS Jobs,         \* sessions of the daily job (expire_on_commit=False)
          Requests,     \* sessions of POST .../sync and /sync-all
          Imports,      \* sessions of POST .../import-tradebook
          Fills,        \* delivery orders that are filled, in trade_ts order
          Others,       \* intraday orders and orders that are never filled
          OrderDay,     \* the day on which an order is placed, and filled
          PlacedBefore, \* bound: the orders placed before anything is pulled,
          FilledBefore, \*        and those filled
          PageSize,     \* orders on a page of the broker's list
          MaxPages,     \* pages that are read at most (_MAX_ORDER_PAGES)
          LastDay,      \* bound: the model's last day
          Exports,      \* the tradebooks an operator may export
          Causes,       \* bound: the statuses that errors of the broker get
          MaxFailures   \* bound: failures of the broker and of fills, and deaths

Pulls    == Jobs \cup Requests
Sessions == Pulls \cup Imports
Orders   == Fills \cup Others
Days     == 0 .. LastDay

\* Keys of broker_trades: the broker's id of a fill, or one of the tradebook.
Rows == Fills \X {"api", "csv"}

ASSUME BrokerSyncAssumption ==
  /\ Fills \subseteq Nat /\ IsFiniteSet(Fills)
  /\ Fills \cap Others = {} /\ OrderDay \in [Orders -> Days]
  /\ PlacedBefore \in Seq({o \in Orders : OrderDay[o] = 0})
  /\ \A i, j \in DOMAIN PlacedBefore : PlacedBefore[i] = PlacedBefore[j] => i = j
  /\ FilledBefore \subseteq Fills
  /\ \A f \in FilledBefore : \E i \in DOMAIN PlacedBefore : PlacedBefore[i] = f
  /\ \A f \in FilledBefore, g \in Fills : g < f => g \in FilledBefore
  /\ Exports \subseteq (SUBSET Fills) \ {{}}
  /\ {PageSize, MaxPages} \subseteq Nat \ {0} /\ {LastDay, MaxFailures} \subseteq Nat
  /\ Causes \subseteq {"error", "auth_failed"}
  /\ Jobs \cap Requests = {} /\ Pulls \cap Imports = {}

VARIABLES today,
          placed,            \* today's orders as they were placed, filled or not
          executed,          \* the delivery orders filled so far
          stored, applied,   \* rows of broker_trades, those with applied_at
          account,           \* last_sync_status
          call,              \* the call each session is executing
          lastPull,          \* history: how the pull that ended last ended
          overtaken,         \* history: failed pulls, not yet recorded, while
                             \* another pull ended well
          failures           \* errors, and sessions that died, so far

broker == <<today, placed, executed>>
vars   == <<broker, stored, applied, account, call, lastPull, overtaken, failures>>

Failed  == {"error", "auth_failed"}
Account == {"none", "ok"} \cup Failed

(* pc    : the next call of the broker or transaction of the call; a job   *)
(*         goes from its broker step to its ledger step                    *)
(* day   : the day asked for                                               *)
(* page  : the next page of orders, and what the pages before it held      *)
(* twice : the orders read again on a later page                           *)
(* fresh : rows inserted and not committed                                 *)
(* batch : the rows loaded to be applied and still to do                   *)
(* known : the account as the session remembers it                         *)
(* cause : the status that a failure is recorded with                      *)
(* before: history: the day's orders filled before the pull began          *)
Idle == [pc |-> "idle", day |-> 0, page |-> 0, read |-> {}, twice |-> {},
         fresh |-> {}, batch |-> {}, known |-> "expired", cause |-> "none",
         before |-> {}]

Init ==
  /\ today = 0 /\ placed = PlacedBefore /\ executed = FilledBefore
  /\ stored = {} /\ applied = {}
  /\ account = "none"
  /\ call = [r \in Sessions |-> Idle]
  /\ lastPull = "none" /\ overtaken = {}
  /\ failures = 0

(* An order is placed, and comes first in the broker's list.  It keeps its *)
(* place behind those placed later, whether it is filled or not.           *)
Places(o) ==
  /\ o \in Orders /\ OrderDay[o] = today
  /\ \A i \in DOMAIN placed : placed[i] # o
  /\ placed' = Append(placed, o)
  /\ UNCHANGED <<today, executed, stored, applied, account, call, lastPull, overtaken, failures>>

Executes(f) ==
  /\ f \in Fills \ executed /\ \E i \in DOMAIN placed : placed[i] = f
  /\ \A g \in Fills : g < f => g \in executed
  /\ executed' = executed \cup {f}
  /\ UNCHANGED <<today, placed, stored, applied, account, call, lastPull, overtaken, failures>>

NextDay ==
  /\ today < LastDay
  /\ \A f \in Fills : OrderDay[f] = today => f \in executed
  /\ today' = today + 1
  /\ placed' = <<>>
  /\ UNCHANGED <<executed, stored, applied, account, call, lastPull, overtaken, failures>>

-----------------------------------------------------------------------------
(* sync_account *)

(* The account is loaded, authenticate has been answered. *)
Starts(r, day) ==
  /\ call[r].pc = "idle"
  /\ call' = [call EXCEPT ![r] =
       [Idle EXCEPT !.pc = "orders", !.day = day,
                    !.known = IF r \in Jobs THEN account ELSE "expired",
                    !.before = {f \in executed : OrderDay[f] = day}]]
  /\ UNCHANGED <<broker, stored, applied, account, lastPull, overtaken, failures>>

JobStarts(r) == r \in Jobs /\ Starts(r, today)

(* A request may ask for an earlier day. *)
RequestStarts(r, day) == r \in Requests /\ day <= today /\ Starts(r, day)

(* A page of the broker's list, which has the newest order first.  The     *)
(* broker decides on the size of a page.                                   *)
OrderPage(page) ==
  {placed[i] : i \in {i \in DOMAIN placed : (Len(placed) - i) \div PageSize = page}}

(* Its delivery orders with a filled unit; the others are passed over. *)
Eligible(page) == OrderPage(page) \cap executed

(* Fills under the ids that the broker gives them, and that a tradebook's  *)
(* rows get: taken to differ, as they do unless its trade_id is the API's. *)
FromApi(fills) == fills \X {"api"}
FromCsv(fills) == fills \X {"csv"}

(* Variant: the list is taken to end with a page of fewer than the 50      *)
(* orders that were asked for, which the broker ignores.                   *)
ReadsShortPage(r) ==
  /\ call[r].pc = "orders"
  /\ call' = [call EXCEPT ![r].pc = "trades", ![r].read = Eligible(0)]
  /\ UNCHANGED <<broker, stored, applied, account, lastPull, overtaken, failures>>

(* Pages are read until one is empty, or as many as may be read. *)
ReadsPage(r) ==
  LET page == call[r].page
      last == OrderPage(page) = {} \/ page + 1 = MaxPages
  IN  /\ call[r].pc = "orders"
      /\ call' = [call EXCEPT
           ![r].pc    = IF last THEN "trades" ELSE "orders",
           ![r].page  = IF last THEN 0 ELSE page + 1,
           ![r].read  = @ \cup Eligible(page),
           ![r].twice = @ \cup (call[r].read \cap Eligible(page))]
      /\ UNCHANGED <<broker, stored, applied, account, lastPull, overtaken, failures>>

(* The fills of the orders read, as far as they are of the day asked for   *)
(* (one fill an order).                                                    *)
OfDay(r, orders) == {f \in orders : OrderDay[f] = call[r].day}

(* upsert_trades, and a commit of its own: one INSERT, which cannot take   *)
(* the same key twice.                                                     *)
PullTrades(r) ==
  /\ call[r].pc = "trades"
  /\ OfDay(r, call[r].twice) = {}
  /\ stored' = stored \cup FromApi(OfDay(r, call[r].read))
  /\ call' = [call EXCEPT ![r].pc = "holdings", ![r].day = 0,
                          ![r].read = {}, ![r].twice = {}, ![r].before = {}]
  /\ UNCHANGED <<broker, applied, account, lastPull, overtaken, failures>>

(* fetch_holdings, upsert_holdings, commit; the unapplied fills are loaded. *)
(* A request's session reads the account again after a commit.             *)
PullHoldings(r) ==
  /\ call[r].pc = "holdings"
  /\ call' = [call EXCEPT
       ![r].pc = "apply", ![r].batch = stored \ applied,
       ![r].known = IF r \in Jobs THEN @ ELSE account]
  /\ UNCHANGED <<broker, stored, applied, account, lastPull, overtaken, failures>>

(* Variant: nothing is written once the account has been synced. *)
FinishedOnce(known) == IF account = "none" THEN "ok" ELSE account

(* The row after "ok" was assigned: a column that already has the value in *)
(* the session's memory is not part of the UPDATE.                         *)
Finished(known) == IF known = "ok" THEN account ELSE "ok"

(* The job goes on to its ledger step, whatever became of the pull. *)
Ended(r) == IF r \in Jobs THEN [Idle EXCEPT !.pc = "ledger"] ELSE Idle

(* Where a session is between reloading the account and recording its own  *)
(* failure, this pull gets ahead of it.                                    *)
Finish(r) ==
  /\ call[r].pc = "apply" /\ call[r].batch = {}
  /\ account' = Finished(call[r].known)
  /\ lastPull' = "ok"
  /\ overtaken' = overtaken \cup {o \in Pulls : call[o].pc = "failing"}
  /\ call' = [call EXCEPT ![r] = Ended(r)]
  /\ UNCHANGED <<broker, stored, applied, failures>>

(* The first half of the except: rolled back, and the account reloaded.    *)
RollsBack(r, cause) ==
  /\ call' = [call EXCEPT ![r] = [Idle EXCEPT !.pc = "failing", !.known = account,
                                              !.cause = cause]]
  /\ UNCHANGED <<broker, stored, applied, account, lastPull, overtaken>>

(* An error of the broker, whose words say which. *)
PullFails(r, cause) ==
  /\ r \in Pulls /\ call[r].pc \in {"orders", "trades", "holdings"}
  /\ failures < MaxFailures
  /\ failures' = failures + 1
  /\ RollsBack(r, cause)

(* An order placed meanwhile moved the others on, and one was read twice:  *)
(* the INSERT of the pull fails, and with it every fill of the day.        *)
ReadTwice(r) ==
  /\ call[r].pc = "trades"
  /\ OfDay(r, call[r].twice) # {}
  /\ RollsBack(r, "error")
  /\ UNCHANGED failures

(* Variant: the failure is raised and nothing is written. *)
RecordsNothing(r) ==
  /\ call[r].pc = "failing"
  /\ lastPull' = IF r \in overtaken THEN "overtaken" ELSE "failed"
  /\ overtaken' = overtaken \ {r}
  /\ call' = [call EXCEPT ![r] = Ended(r)]
  /\ UNCHANGED <<broker, stored, applied, account, failures>>

(* The second half: the status is assigned to the row as it was reloaded,  *)
(* which is an UPDATE where it differs, and committed.                     *)
RecordsFailure(r) ==
  /\ call[r].pc = "failing"
  /\ account' = IF call[r].known = call[r].cause THEN account ELSE call[r].cause
  /\ lastPull' = IF r \in overtaken THEN "overtaken" ELSE "failed"
  /\ overtaken' = overtaken \ {r}
  /\ call' = [call EXCEPT ![r] = Ended(r)]
  /\ UNCHANGED <<broker, stored, applied, failures>>

-----------------------------------------------------------------------------
(* import_tradebook_csv *)

(* Rows are inserted but not committed; the session sees them as unapplied. *)
(* The INSERT waits as long as another import holds one of the keys.       *)
BeginImport(r, fills) ==
  /\ r \in Imports /\ call[r].pc = "idle"
  /\ fills \subseteq executed
  /\ \A o \in Imports : call[o].fresh \cap FromCsv(fills) = {}
  /\ LET fresh == FromCsv(fills) \ stored
     IN  call' = [call EXCEPT ![r] =
           [Idle EXCEPT !.pc = "apply", !.fresh = fresh,
                        !.batch = (stored \ applied) \cup fresh]]
  /\ UNCHANGED <<broker, stored, applied, account, lastPull, overtaken, failures>>

FinishImport(r) ==
  /\ r \in Imports
  /\ call[r].pc = "apply" /\ call[r].batch = {}
  /\ stored' = stored \cup call[r].fresh
  /\ call' = [call EXCEPT ![r] = Idle]
  /\ UNCHANGED <<broker, applied, account, lastPull, overtaken, failures>>

-----------------------------------------------------------------------------
(* apply_unapplied_trades, as a part of both *)

(* The ledger step: the fills are loaded by a session of its own. *)
LoadsUnapplied(r) ==
  /\ call[r].pc = "ledger"
  /\ call' = [call EXCEPT ![r].pc = "fold", ![r].batch = stored \ applied]
  /\ UNCHANGED <<broker, stored, applied, account, lastPull, overtaken, failures>>

LedgerEnds(r) ==
  /\ call[r].pc = "fold" /\ call[r].batch = {}
  /\ call' = [call EXCEPT ![r] = Idle]
  /\ UNCHANGED <<broker, stored, applied, account, lastPull, overtaken, failures>>

IsNext(r, t) == t \in call[r].batch /\ \A u \in call[r].batch : t[1] <= u[1]

(* Variant: only the row at hand is committed with its application. *)
ApplyRow(r, t) ==
  /\ call[r].pc \in {"apply", "fold"} /\ IsNext(r, t)
  /\ stored' = stored \cup {t}
  /\ applied' = applied \cup {t}
  /\ call' = [call EXCEPT ![r].batch = @ \ {t}, ![r].fresh = @ \ {t},
                          ![r].known = IF r \in Jobs THEN @ ELSE "expired"]
  /\ UNCHANGED <<broker, account, lastPull, overtaken, failures>>

(* The commit takes along whatever else the session had inserted. *)
Apply(r, t) ==
  /\ call[r].pc \in {"apply", "fold"} /\ IsNext(r, t)
  /\ stored' = stored \cup call[r].fresh
  /\ applied' = applied \cup {t}
  /\ call' = [call EXCEPT ![r].batch = @ \ {t}, ![r].fresh = {},
                          ![r].known = IF r \in Jobs THEN @ ELSE "expired"]
  /\ UNCHANGED <<broker, account, lastPull, overtaken, failures>>

(* One fill cannot be applied: rolled back, and the loop goes on.          *)
ApplyFails(r, t) ==
  /\ call[r].pc \in {"apply", "fold"} /\ IsNext(r, t)
  /\ call[r].fresh = {}
  /\ failures < MaxFailures
  /\ failures' = failures + 1
  /\ call' = [call EXCEPT ![r].batch = @ \ {t}, ![r].known = "expired"]
  /\ UNCHANGED <<broker, stored, applied, account, lastPull, overtaken>>

(* Variant: the loop goes on with rows that are gone. *)
ImportGoesOn(r, t) ==
  /\ call[r].pc \in {"apply", "fold"} /\ IsNext(r, t)
  /\ call[r].fresh # {}
  /\ failures < MaxFailures
  /\ failures' = failures + 1
  /\ call' = [call EXCEPT ![r].batch = @ \ {t}, ![r].fresh = {}]
  /\ UNCHANGED <<broker, stored, applied, account, lastPull, overtaken>>

(* The rollback takes the uncommitted rows of an import with it.  They are *)
(* still in the loop's list, and reading the first of them raises outside  *)
(* the guarded part: the import ends with an error.                        *)
ImportAborts(r, t) ==
  /\ call[r].pc \in {"apply", "fold"} /\ IsNext(r, t)
  /\ call[r].fresh # {}
  /\ failures < MaxFailures
  /\ failures' = failures + 1
  /\ call' = [call EXCEPT ![r] = Idle]
  /\ UNCHANGED <<broker, stored, applied, account, lastPull, overtaken>>

(* The process dies, or client_for raises: the account's row is not told.  *)
Dies(r) ==
  /\ call[r].pc # "idle"
  /\ failures < MaxFailures
  /\ failures' = failures + 1
  /\ call' = [call EXCEPT ![r] = Idle]
  /\ overtaken' = overtaken \ {r}
  /\ UNCHANGED <<broker, stored, applied, account, lastPull>>

Applies(r) == \E t \in Rows : Apply(r, t)

GoesOn(r) ==
  \/ ReadsPage(r) \/ PullTrades(r) \/ ReadTwice(r) \/ PullHoldings(r) \/ Finish(r)
  \/ RecordsFailure(r) \/ Applies(r) \/ LoadsUnapplied(r) \/ LedgerEnds(r)

Pull(r) ==
  \/ JobStarts(r) \/ \E day \in Days : RequestStarts(r, day)
  \/ GoesOn(r)
  \/ \E cause \in Causes : PullFails(r, cause)

Import(r) ==
  \/ \E fills \in Exports : BeginImport(r, fills)
  \/ Applies(r) \/ FinishImport(r)

Next ==
  \/ NextDay
  \/ \E o \in Orders : Places(o)
  \/ \E f \in Fills : Executes(f)
  \/ \E r \in Pulls : Pull(r)
  \/ \E r \in Imports : Import(r)
  \/ \E r \in Sessions : Dies(r) \/ \E t \in Rows : ApplyFails(r, t) \/ ImportAborts(r, t)

(* The job runs every day and goes on; requests and imports may hang.      *)
Fairness == \A r \in Jobs : WF_vars(JobStarts(r) \/ GoesOn(r))

Spec == Init /\ [][Next]_vars /\ Fairness

-----------------------------------------------------------------------------
(* Properties. *)

Call ==
  [pc : {"idle", "orders", "trades", "holdings", "apply", "failing", "ledger", "fold"},
   day : Days, page : Nat, read : SUBSET Fills, twice : SUBSET Fills,
   fresh : SUBSET Rows, batch : SUBSET Rows, known : Account \cup {"expired"},
   cause : Failed \cup {"none"}, before : SUBSET Fills]

(* The rows have the types of their columns, and what a session works on   *)
(* is in the database or was inserted by itself.                           *)
TypeOK ==
  /\ today \in Days
  /\ placed \in Seq(Orders) /\ executed \subseteq Fills
  /\ stored \subseteq executed \X {"api", "csv"} /\ applied \subseteq stored
  /\ account \in Account
  /\ call \in [Sessions -> Call]
  /\ \A r \in Sessions : call[r].batch \subseteq stored \cup call[r].fresh
  /\ lastPull \in {"none", "ok", "failed", "overtaken"} /\ overtaken \subseteq Pulls
  /\ failures \in 0 .. MaxFailures

(* A tradebook is stored as a whole or not at all, although its rows are   *)
(* committed by whichever of its fills is applied first, among fills that  *)
(* were there before (import_tradebook_csv).                               *)
ImportIsWhole ==
  [][\A r \in Imports :
       (stored' \ stored) \cap call[r].fresh # {} => call[r].fresh \subseteq stored']_vars

(* As long as no later pull has ended, the account shows that the last one *)
(* failed.  Only a pull that ends well between the reload and the commit   *)
(* of the failure covers it up; one that overlapped it and had succeeded   *)
(* before, or remembers the account from earlier, does not (sync_account). *)
FailureShows == lastPull = "failed" => account \in Failed

(* No exception: however pulls overlap, the failure of the one that ended  *)
(* last is seen (last_sync_status).                                        *)
FailureAlwaysShows == lastPull \in {"failed", "overtaken"} => account \in Failed

(* The account tells how the last pull ended ("last_sync_* tracks the most *)
(* recent trade/holdings pull").                                           *)
StatusIsOfLastPull == lastPull = "ok" => account = "ok"

(* A pull of the day that is stored misses no order that was filled before *)
(* it began, although orders placed meanwhile move the list under it, as   *)
(* long as the day's orders, filled or not, fit on the pages that may be   *)
(* read (_all_orders).                                                     *)
PullIsComplete ==
  [][\A r \in Pulls :
       PullTrades(r) /\ call[r].day = today /\ Len(placed) <= MaxPages * PageSize
       => FromApi(call[r].before) \subseteq stored']_vars

(* More is not kept: what a pull stores of a day has no gap, so that with  *)
(* an order every one is stored that was filled earlier (fetch_trades).    *)
PullHasNoGap ==
  [][\A r \in Pulls : PullTrades(r) /\ call[r].day = today =>
       \A f, g \in Fills :
         /\ g \in call[r].read /\ f < g /\ OrderDay[f] = today
         => <<f, "api">> \in stored']_vars

(* A fill that cannot be applied is isolated: an import keeps its rows     *)
(* ("rolled back, logged and recorded rather than aborting the batch").    *)
ImportIsIsolated ==
  [][\A r \in Imports : \A t \in Rows : ImportAborts(r, t) =>
       call[r].fresh \subseteq stored']_vars

(* A failed pull does not leave the account failed for good, even    *)
(* where the successful pull that followed left its status alone.          *)
StatusRecovers == []<>(account \notin Failed)
=============================================================================
