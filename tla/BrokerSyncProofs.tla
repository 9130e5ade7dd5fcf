-------------------------- MODULE BrokerSyncProofs --------------------------
(***************************************************************************)
(* What holds of pulls and imports for every number of sessions, fills,    *)
(* days and failures, and every size of the broker's pages.                *)
(***************************************************************************)
EXTENDS BrokerSync, TLAPS

-----------------------------------------------------------------------------
(* Types. *)

(* What is read and what is inserted was filled. *)
TypeInv ==
  /\ TypeOK
  /\ \A r \in Sessions : call[r].read \subseteq executed
  /\ \A r \in Sessions : call[r].fresh \subseteq FromCsv(executed)

LEMMA IdleCall == Idle \in Call
BY BrokerSyncAssumption DEF Idle, Call, Days

LEMMA TypeInit == Init => TypeInv
<1> SUFFICES ASSUME Init PROVE TypeInv
  OBVIOUS
<1>1. \A r \in Sessions : call[r] = Idle
  BY DEF Init
<1>2. call \in [Sessions -> Call]
  BY IdleCall DEF Init
<1>3. /\ today \in Days /\ executed \subseteq Fills /\ failures \in 0 .. MaxFailures
      /\ account \in Account /\ lastPull \in {"none", "ok", "failed", "overtaken"}
      /\ overtaken \subseteq Pulls
  BY BrokerSyncAssumption DEF Init, Days, Account
<1>5. placed \in Seq(Orders)
  <2>1. PlacedBefore \in Seq({o \in Orders : OrderDay[o] = 0})
    BY BrokerSyncAssumption
  <2> QED  BY <2>1 DEF Init
<1>4. \A r \in Sessions : /\ call[r].batch = {} /\ call[r].read = {} /\ call[r].fresh = {}
  BY <1>1 DEF Idle
<1> QED  BY <1>2, <1>3, <1>4, <1>5 DEF Init, TypeInv, TypeOK

(* A step of one session leaves the calls of the others alone, and makes   *)
(* of its own call one that fits in with the database.                     *)
LEMMA OneCallTyped ==
  ASSUME TypeInv, NEW r \in Sessions, NEW c \in Call,
         call' = [call EXCEPT ![r] = c],
         UNCHANGED broker,
         stored \subseteq stored', stored' \subseteq executed \X {"api", "csv"},
         applied' \subseteq stored',
         account' \in Account, lastPull' \in {"none", "ok", "failed", "overtaken"},
         overtaken' \subseteq Pulls, failures' \in 0 .. MaxFailures,
         c.read \subseteq executed, c.fresh \subseteq FromCsv(executed),
         c.batch \subseteq stored' \cup c.fresh
  PROVE  TypeInv'
<1>1. call' \in [Sessions -> Call]
  BY DEF TypeInv, TypeOK
<1>2. ASSUME NEW o \in Sessions
      PROVE  /\ call'[o].read \subseteq executed
             /\ call'[o].fresh \subseteq FromCsv(executed)
             /\ call'[o].batch \subseteq stored' \cup call'[o].fresh
  <2>1. CASE o = r
    BY <2>1 DEF TypeInv, TypeOK
  <2>2. CASE o # r
    BY <2>2 DEF TypeInv, TypeOK
  <2> QED  BY <2>1, <2>2
<1>3. /\ FromCsv(executed)' = FromCsv(executed)
      /\ UNCHANGED <<today, placed, executed>>
  BY DEF FromCsv, broker
<1> QED  BY <1>1, <1>2, <1>3 DEF TypeInv, TypeOK

LEMMA CallType ==
  ASSUME TypeInv, NEW r \in Sessions
  PROVE  /\ call[r] \in Call
         /\ call[r].read \subseteq executed /\ call[r].fresh \subseteq FromCsv(executed)
         /\ call[r].batch \subseteq stored \cup call[r].fresh
BY DEF TypeInv, TypeOK

LEMMA EligibleType == TypeOK => \A page : Eligible(page) \subseteq executed /\ executed \subseteq Fills
BY DEF Eligible, TypeOK

LEMMA EndedCall == \A r : Ended(r) \in Call /\ Ended(r).read = {} /\ Ended(r).fresh = {} /\ Ended(r).batch = {}
BY IdleCall DEF Ended, Idle, Call

(* The steps of a pull that write nothing but its own call. *)
LEMMA ReadingTyped ==
  ASSUME TypeInv, NEW r \in Sessions,
         \/ \E day \in Days : Starts(r, day)
         \/ ReadsPage(r) \/ PullHoldings(r) \/ LoadsUnapplied(r) \/ LedgerEnds(r)
  PROVE  TypeInv'
<1> USE CallType
<1>1. /\ TypeOK /\ stored \subseteq executed \X {"api", "csv"} /\ applied \subseteq stored
      /\ account \in Account /\ lastPull \in {"none", "ok", "failed", "overtaken"}
      /\ overtaken \subseteq Pulls /\ failures \in 0 .. MaxFailures
  BY DEF TypeInv, TypeOK
<1>2. stored \subseteq Rows
  BY <1>1 DEF TypeOK, Rows
<1>3. ASSUME NEW day \in Days, Starts(r, day) PROVE TypeInv'
  <2> DEFINE c == [Idle EXCEPT !.pc = "orders", !.day = day,
                               !.known = IF r \in Jobs THEN account ELSE "expired",
                               !.before = {f \in executed : OrderDay[f] = day}]
  <2>0. {f \in executed : OrderDay[f] = day} \in SUBSET Fills
    BY DEF TypeInv, TypeOK
  <2> DEFINE early == {f \in executed : OrderDay[f] = day}
  <2>1. c \in Call /\ c.read = {} /\ c.fresh = {} /\ c.batch = {}
    <3> DEFINE known == IF r \in Jobs THEN account ELSE "expired"
    <3>1. early \in SUBSET Fills
      BY <2>0
    <3>2. known \in Account \cup {"expired"}
      BY <1>1
    <3>3. c = [Idle EXCEPT !.pc = "orders", !.day = day, !.known = known, !.before = early]
      OBVIOUS
    <3> HIDE DEF early, c, known
    <3>4. c \in Call
      BY <3>1, <3>2, <3>3, IdleCall DEF Call
    <3>5. c.read = Idle.read /\ c.fresh = Idle.fresh /\ c.batch = Idle.batch
      BY <3>3, IdleCall DEF Call
    <3> QED  BY <3>4, <3>5 DEF Idle
  <2>2. call' = [call EXCEPT ![r] = c]
    BY <1>3 DEF Starts
  <2> HIDE DEF c
  <2> QED  BY <1>1, <1>3, <2>1, <2>2, OneCallTyped DEF Starts
<1>4. CASE ReadsPage(r)
  <2> DEFINE batch == Eligible(call[r].page)
             last  == OrderPage(call[r].page) = {} \/ call[r].page + 1 = MaxPages
             c == [call[r] EXCEPT
                     !.pc    = IF last THEN "trades" ELSE "orders",
                     !.page  = IF last THEN 0 ELSE @ + 1,
                     !.read  = @ \cup batch,
                     !.twice = @ \cup (call[r].read \cap batch)]
  <2>1. batch \subseteq executed /\ batch \subseteq Fills
    BY <1>1, EligibleType
  <2> HIDE DEF batch, last
  <2>2. c \in Call
    <3>1. call[r] \in Call
      OBVIOUS
    <3> DEFINE pc == IF last THEN "trades" ELSE "orders"
               n  == IF last THEN 0 ELSE call[r].page + 1
    <3>2. pc \in {"trades", "orders"} /\ n \in Nat
      BY <3>1 DEF Call
    <3>3. c = [call[r] EXCEPT !.pc = pc, !.page = n, !.read = @ \cup batch,
                              !.twice = @ \cup (call[r].read \cap batch)]
      OBVIOUS
    <3> HIDE DEF pc, n, c
    <3> QED  BY <2>1, <3>1, <3>2, <3>3 DEF Call
  <2>3. c.read = call[r].read \cup batch /\ c.fresh = call[r].fresh /\ c.batch = call[r].batch
    BY DEF Call
  <2>4. call' = [call EXCEPT ![r] = c]
    BY <1>4 DEF ReadsPage, batch, last, TypeInv, TypeOK
  <2> HIDE DEF c
  <2> QED  BY <1>1, <1>4, <2>1, <2>2, <2>3, <2>4, OneCallTyped DEF ReadsPage
<1>5. CASE PullHoldings(r)
  <2> DEFINE c == [call[r] EXCEPT !.pc = "apply", !.batch = stored \ applied,
                                  !.known = IF r \in Jobs THEN @ ELSE account]
  <2>1. c \in Call
    BY <1>1, <1>2 DEF Call
  <2>2. c.read = call[r].read /\ c.fresh = call[r].fresh /\ c.batch = stored \ applied
    BY DEF Call
  <2>3. call' = [call EXCEPT ![r] = c]
    BY <1>5 DEF PullHoldings
  <2> HIDE DEF c
  <2> QED  BY <1>1, <1>5, <2>1, <2>2, <2>3, OneCallTyped DEF PullHoldings
<1>6. CASE LoadsUnapplied(r)
  <2> DEFINE c == [call[r] EXCEPT !.pc = "fold", !.batch = stored \ applied]
  <2>1. c \in Call
    BY <1>1, <1>2 DEF Call
  <2>2. c.read = call[r].read /\ c.fresh = call[r].fresh /\ c.batch = stored \ applied
    BY DEF Call
  <2>3. call' = [call EXCEPT ![r] = c]
    BY <1>6 DEF LoadsUnapplied
  <2> HIDE DEF c
  <2> QED  BY <1>1, <1>6, <2>1, <2>2, <2>3, OneCallTyped DEF LoadsUnapplied
<1>7. CASE LedgerEnds(r)
  <2>1. Idle.read = {} /\ Idle.fresh = {} /\ Idle.batch = {}
    BY DEF Idle
  <2> QED  BY <1>1, <1>7, <2>1, IdleCall, OneCallTyped DEF LedgerEnds
<1> QED  BY <1>3, <1>4, <1>5, <1>6, <1>7

(* The steps that end a call. *)
LEMMA EndingTyped ==
  ASSUME TypeInv, NEW r \in Sessions,
         \/ Finish(r) \/ RecordsFailure(r) \/ FinishImport(r) \/ Dies(r)
         \/ \E cause \in Failed : RollsBack(r, cause) /\ failures' \in 0 .. MaxFailures
         \/ \E t \in Rows : ImportAborts(r, t)
  PROVE  TypeInv'
<1>1. /\ stored \subseteq executed \X {"api", "csv"} /\ applied \subseteq stored
      /\ account \in Account /\ lastPull \in {"none", "ok", "failed", "overtaken"}
      /\ overtaken \subseteq Pulls /\ failures \in 0 .. MaxFailures
      /\ MaxFailures \in Nat
  BY BrokerSyncAssumption DEF TypeInv, TypeOK
<1>2. Idle.read = {} /\ Idle.fresh = {} /\ Idle.batch = {}
  BY DEF Idle
<1>3. {"ok"} \cup Failed \subseteq Account /\ Finished(call[r].known) \in Account
  BY <1>1 DEF Account, Finished
<1>4. failures < MaxFailures => failures + 1 \in 0 .. MaxFailures
  BY <1>1
<1>5. CASE Finish(r)
  BY <1>1, <1>3, <1>5, EndedCall, OneCallTyped DEF Finish
<1>6. ASSUME NEW cause \in Failed, RollsBack(r, cause), failures' \in 0 .. MaxFailures
      PROVE  TypeInv'
  <2> DEFINE c == [Idle EXCEPT !.pc = "failing", !.known = account, !.cause = cause]
  <2>1. c \in Call /\ c.read = {} /\ c.fresh = {} /\ c.batch = {}
    BY <1>1, <1>6, IdleCall DEF Idle, Call
  <2>2. call' = [call EXCEPT ![r] = c]
    BY <1>6 DEF RollsBack
  <2> HIDE DEF c
  <2> QED  BY <1>1, <1>6, <2>1, <2>2, OneCallTyped DEF RollsBack
<1>7. CASE RecordsFailure(r)
  <2>1. call[r].cause \in Failed \cup {"none"} /\ call[r].known \in Account \cup {"expired"}
    BY CallType DEF Call
  <2>2. account' \in Account
    BY <1>1, <1>3, <1>7, <2>1 DEF RecordsFailure, Account
  <2> QED  BY <1>1, <1>7, <2>2, EndedCall, OneCallTyped DEF RecordsFailure
<1>8. CASE FinishImport(r)
  <2>1. stored' \subseteq executed \X {"api", "csv"}
    BY <1>1, <1>8, CallType DEF FinishImport, FromCsv
  <2> QED  BY <1>1, <1>2, <1>8, <2>1, IdleCall, OneCallTyped DEF FinishImport
<1>9. CASE Dies(r) \/ \E t \in Rows : ImportAborts(r, t)
  <2>1. /\ call' = [call EXCEPT ![r] = Idle] /\ failures' = failures + 1
        /\ failures < MaxFailures /\ overtaken' \subseteq overtaken
        /\ UNCHANGED <<broker, stored, applied, account, lastPull>>
    BY <1>9 DEF Dies, ImportAborts
  <2> QED  BY <1>1, <1>2, <1>4, <2>1, IdleCall, OneCallTyped
<1> QED  BY <1>5, <1>6, <1>7, <1>8, <1>9

(* The steps that write fills. *)
LEMMA WritingTyped ==
  ASSUME TypeInv, NEW r \in Sessions,
         \/ PullTrades(r)
         \/ \E fills \in Exports : BeginImport(r, fills)
         \/ \E t \in Rows : Apply(r, t) \/ ApplyFails(r, t)
  PROVE  TypeInv'
<1>1. /\ stored \subseteq executed \X {"api", "csv"} /\ applied \subseteq stored
      /\ account \in Account /\ lastPull \in {"none", "ok", "failed", "overtaken"}
      /\ overtaken \subseteq Pulls /\ failures \in 0 .. MaxFailures
      /\ MaxFailures \in Nat /\ executed \subseteq Fills
  BY BrokerSyncAssumption DEF TypeInv, TypeOK
<1>2. /\ call[r] \in Call
      /\ call[r].read \subseteq executed /\ call[r].fresh \subseteq FromCsv(executed)
      /\ call[r].batch \subseteq stored \cup call[r].fresh
  BY CallType
<1>3. CASE PullTrades(r)
  <2> DEFINE c == [call[r] EXCEPT !.pc = "holdings", !.day = 0, !.read = {}, !.twice = {},
                     !.before = {}]
  <2>1. c \in Call
    <3>1. 0 \in Days
      BY BrokerSyncAssumption DEF Days
    <3> QED  BY <1>2, <3>1 DEF Call
  <2>2. c.read = {} /\ c.fresh = call[r].fresh /\ c.batch = call[r].batch
    BY <1>2 DEF Call
  <2>3. call' = [call EXCEPT ![r] = c]
    BY <1>3 DEF PullTrades
  <2>4. FromApi(OfDay(r, call[r].read)) \subseteq executed \X {"api", "csv"}
    BY <1>2 DEF FromApi, OfDay
  <2> HIDE DEF c
  <2> QED  BY <1>1, <1>2, <1>3, <2>1, <2>2, <2>3, <2>4, OneCallTyped DEF PullTrades
<1>4. ASSUME NEW fills \in Exports, BeginImport(r, fills) PROVE TypeInv'
  <2> DEFINE fresh == FromCsv(fills) \ stored
             c == [Idle EXCEPT !.pc = "apply", !.fresh = fresh,
                               !.batch = (stored \ applied) \cup fresh]
  <2>1. fresh \subseteq FromCsv(executed) /\ fresh \subseteq Rows /\ stored \subseteq Rows
    BY <1>1, <1>4 DEF BeginImport, FromCsv, Rows
  <2>2. call' = [call EXCEPT ![r] = c]
    BY <1>4 DEF BeginImport
  <2> HIDE DEF fresh
  <2>3. c \in Call
    BY <2>1, IdleCall DEF Idle, Call
  <2>4. c.read = {} /\ c.fresh = fresh /\ c.batch = (stored \ applied) \cup fresh
    BY DEF Idle
  <2> HIDE DEF c
  <2> QED  BY <1>1, <1>4, <2>1, <2>2, <2>3, <2>4, OneCallTyped DEF BeginImport
<1>5. ASSUME NEW t \in Rows, Apply(r, t) PROVE TypeInv'
  <2> DEFINE c == [call[r] EXCEPT !.batch = @ \ {t}, !.fresh = {},
                                  !.known = IF r \in Jobs THEN @ ELSE "expired"]
  <2>1. c \in Call
    BY <1>2 DEF Call
  <2>2. c.read = call[r].read /\ c.fresh = {} /\ c.batch = call[r].batch \ {t}
    BY <1>2 DEF Call
  <2>3. call' = [call EXCEPT ![r] = c]
    BY <1>5 DEF Apply
  <2>4. stored' \subseteq executed \X {"api", "csv"} /\ t \in stored'
    BY <1>1, <1>2, <1>5 DEF Apply, IsNext, FromCsv
  <2> HIDE DEF c
  <2>5. {} \subseteq FromCsv(executed)
    OBVIOUS
  <2>6. UNCHANGED <<broker, account, lastPull, overtaken, failures>>
    BY <1>5 DEF Apply
  <2>7. stored \subseteq stored' /\ applied' = applied \cup {t}
    BY <1>5 DEF Apply
  <2>8. c.batch \subseteq stored' \cup c.fresh
    BY <1>2, <1>5, <2>2 DEF Apply
  <2> QED  BY <1>1, <1>2, <2>1, <2>2, <2>3, <2>4, <2>5, <2>6, <2>7, <2>8, OneCallTyped
<1>6. ASSUME NEW t \in Rows, ApplyFails(r, t) PROVE TypeInv'
  <2> DEFINE c == [call[r] EXCEPT !.batch = @ \ {t}, !.known = "expired"]
  <2>1. c \in Call
    BY <1>2 DEF Call
  <2>2. c.read = call[r].read /\ c.fresh = call[r].fresh /\ c.batch = call[r].batch \ {t}
    BY <1>2 DEF Call
  <2>3. call' = [call EXCEPT ![r] = c]
    BY <1>6 DEF ApplyFails
  <2> HIDE DEF c
  <2>4. failures' \in 0 .. MaxFailures
    BY <1>1, <1>6 DEF ApplyFails
  <2>5. UNCHANGED <<broker, stored, applied, account, lastPull, overtaken>>
    BY <1>6 DEF ApplyFails
  <2> QED  BY <1>1, <1>2, <2>1, <2>2, <2>3, <2>4, <2>5, OneCallTyped
<1> QED  BY <1>3, <1>4, <1>5, <1>6

(* The two ways in which a pull fails begin alike. *)
LEMMA FailingRollsBack ==
  ASSUME TypeInv, NEW r \in Sessions,
         (\E cause \in Causes : PullFails(r, cause)) \/ ReadTwice(r)
  PROVE  /\ r \in Sessions /\ call[r].pc \in {"orders", "trades", "holdings"}
         /\ \E cause \in Failed : RollsBack(r, cause) /\ failures' \in 0 .. MaxFailures
<1>1. failures \in 0 .. MaxFailures /\ MaxFailures \in Nat /\ Causes \subseteq Failed
  BY BrokerSyncAssumption DEF TypeInv, TypeOK, Failed
<1>2. ASSUME NEW cause \in Causes, PullFails(r, cause)
      PROVE  RollsBack(r, cause) /\ failures' \in 0 .. MaxFailures
  BY <1>1, <1>2 DEF PullFails
<1>3. ReadTwice(r) => RollsBack(r, "error") /\ failures' \in 0 .. MaxFailures /\ "error" \in Failed
  BY <1>1 DEF ReadTwice, Failed
<1>4. call[r].pc \in {"orders", "trades", "holdings"}
  BY DEF PullFails, ReadTwice
<1> QED  BY <1>1, <1>2, <1>3, <1>4

LEMMA TypeStep == TypeInv /\ [Next]_vars => TypeInv'
<1> SUFFICES ASSUME TypeInv, [Next]_vars PROVE TypeInv'
  OBVIOUS
<1>1. CASE NextDay
  <2>1. today' \in Days /\ placed' \in Seq(Orders)
    BY <1>1, BrokerSyncAssumption DEF NextDay, TypeInv, TypeOK, Days
  <2> QED  BY <1>1, <2>1 DEF NextDay, TypeInv, TypeOK, FromCsv
<1>2. ASSUME NEW f \in Fills, Executes(f) PROVE TypeInv'
  BY <1>2 DEF Executes, TypeInv, TypeOK, FromCsv
<1>3. CASE UNCHANGED vars
  BY <1>3 DEF vars, broker, TypeInv, TypeOK, FromCsv
<1>4. \A r \in Pulls \cup Imports : r \in Sessions
  BY DEF Sessions
<1>5. ASSUME NEW o \in Orders, Places(o) PROVE TypeInv'
  <2>1. placed' \in Seq(Orders)
    BY <1>5 DEF Places, TypeInv, TypeOK
  <2> QED  BY <1>5, <2>1 DEF Places, TypeInv, TypeOK, FromCsv
<1>6. ASSUME NEW r \in Sessions, (\E cause \in Causes : PullFails(r, cause)) \/ ReadTwice(r)
      PROVE  TypeInv'
  BY <1>6, FailingRollsBack, EndingTyped
<1> QED
  BY <1>1, <1>2, <1>3, <1>4, <1>5, <1>6, ReadingTyped, EndingTyped, WritingTyped
     DEF Next, Pull, Import, Applies, GoesOn, JobStarts, RequestStarts, TypeInv, TypeOK

(* Whatever is applied is stored, and whatever is stored was filled. *)
THEOREM TypeCorrect == Spec => []TypeOK
<1>1. TypeInv => TypeOK
  BY DEF TypeInv
<1> QED  BY <1>1, TypeInit, TypeStep, PTL DEF Spec

-----------------------------------------------------------------------------
(* Imports. *)

(* A pull inserts nothing it does not commit, and no two imports hold the  *)
(* same row: the INSERT of the second waits for the first.                 *)
FreshInv ==
  /\ \A r \in Pulls : call[r].fresh = {}
  /\ \A r, o \in Imports : r # o => call[r].fresh \cap call[o].fresh = {}

LEMMA FreshStep == TypeInv /\ FreshInv /\ [Next]_vars => FreshInv'
<1> SUFFICES ASSUME TypeInv, FreshInv, [Next]_vars PROVE FreshInv'
  OBVIOUS
<1>1. CASE UNCHANGED call
  BY <1>1 DEF FreshInv
<1>2. ASSUME NEW r \in Sessions, NEW c,
             call' = [call EXCEPT ![r] = c], c.fresh \subseteq call[r].fresh
      PROVE  FreshInv'
  <2>1. \A o \in Sessions : call'[o] = IF o = r THEN c ELSE call[o]
    BY <1>2 DEF TypeInv, TypeOK
  <2>2. \A o \in Sessions : call'[o].fresh \subseteq call[o].fresh
    BY <1>2, <2>1
  <2> QED  BY <2>2 DEF FreshInv, Sessions
<1>3. ASSUME NEW r \in Imports, NEW fills \in Exports, BeginImport(r, fills)
      PROVE  FreshInv'
  <2> DEFINE fresh == FromCsv(fills) \ stored
             c == [Idle EXCEPT !.pc = "apply", !.fresh = fresh,
                               !.batch = (stored \ applied) \cup fresh]
  <2>1. \A o \in Imports : fresh \cap call[o].fresh = {}
    BY <1>3 DEF BeginImport
  <2>2. call' = [call EXCEPT ![r] = c] /\ c.fresh = fresh
    BY <1>3 DEF BeginImport, Idle
  <2>3. r \in Sessions /\ r \notin Pulls
    BY BrokerSyncAssumption DEF Sessions
  <2> HIDE DEF fresh, c
  <2>4. \A o \in Sessions : call'[o] = IF o = r THEN c ELSE call[o]
    BY <2>2, <2>3 DEF TypeInv, TypeOK
  <2>5. \A o \in Pulls : call'[o].fresh = {}
    BY <2>3, <2>4 DEF Sessions, FreshInv
  <2>6. ASSUME NEW p \in Imports, NEW o \in Imports, p # o
        PROVE  call'[p].fresh \cap call'[o].fresh = {}
    <3>1. p \in Sessions /\ o \in Sessions
      BY DEF Sessions
    <3> QED  BY <2>1, <2>2, <2>4, <2>6, <3>1 DEF FreshInv
  <2> QED  BY <2>5, <2>6 DEF FreshInv
<1>4. ASSUME NEW r \in Sessions,
             \/ \E day \in Days : Starts(r, day)
             \/ \E cause \in Causes : PullFails(r, cause)
             \/ Dies(r) \/ GoesOn(r) \/ FinishImport(r) \/ Applies(r)
             \/ \E t \in Rows : ApplyFails(r, t) \/ ImportAborts(r, t)
      PROVE  FreshInv'
  <2>1. call[r] \in Call /\ Idle.fresh = {} /\ Ended(r).fresh = {}
    BY <1>4, CallType, EndedCall DEF Idle
  <2>2. ASSUME NEW day \in Days, Starts(r, day) PROVE FreshInv'
    <3> DEFINE c == [Idle EXCEPT !.pc = "orders", !.day = day,
                                 !.known = IF r \in Jobs THEN account ELSE "expired",
                                 !.before = {f \in executed : OrderDay[f] = day}]
    <3>1. call' = [call EXCEPT ![r] = c] /\ c.fresh = {}
      BY <2>2 DEF Starts, Idle
    <3> HIDE DEF c
    <3> QED  BY <1>2, <3>1
  <2>3. CASE Finish(r) \/ RecordsFailure(r)
    BY <1>2, <2>1, <2>3 DEF Finish, RecordsFailure
  <2>4. CASE Dies(r) \/ FinishImport(r) \/ LedgerEnds(r) \/ \E t \in Rows : ImportAborts(r, t)
    BY <1>2, <2>1, <2>4 DEF Dies, FinishImport, LedgerEnds, ImportAborts
  <2>5. CASE ReadsPage(r)
    <3> DEFINE batch == Eligible(call[r].page)
               last  == OrderPage(call[r].page) = {} \/ call[r].page + 1 = MaxPages
               c == [call[r] EXCEPT
                       !.pc    = IF last THEN "trades" ELSE "orders",
                       !.page  = IF last THEN 0 ELSE @ + 1,
                       !.read  = @ \cup batch,
                       !.twice = @ \cup (call[r].read \cap batch)]
    <3>1. call' = [call EXCEPT ![r] = c]
      BY <2>5 DEF ReadsPage, TypeInv, TypeOK
    <3>2. c.fresh = call[r].fresh
      BY <2>1 DEF Call
    <3> HIDE DEF c
    <3> QED  BY <1>2, <3>1, <3>2
  <2>6. CASE PullTrades(r)
    <3> DEFINE c == [call[r] EXCEPT !.pc = "holdings", !.day = 0, !.read = {}, !.twice = {},
                     !.before = {}]
    <3>1. call' = [call EXCEPT ![r] = c] /\ c.fresh = call[r].fresh
      BY <2>1, <2>6 DEF PullTrades, Call
    <3> HIDE DEF c
    <3> QED  BY <1>2, <3>1
  <2>7. CASE PullHoldings(r)
    <3> DEFINE c == [call[r] EXCEPT !.pc = "apply", !.batch = stored \ applied,
                                    !.known = IF r \in Jobs THEN @ ELSE account]
    <3>1. call' = [call EXCEPT ![r] = c] /\ c.fresh = call[r].fresh
      BY <2>1, <2>7 DEF PullHoldings, Call
    <3> HIDE DEF c
    <3> QED  BY <1>2, <3>1
  <2>8. CASE LoadsUnapplied(r)
    <3> DEFINE c == [call[r] EXCEPT !.pc = "fold", !.batch = stored \ applied]
    <3>1. call' = [call EXCEPT ![r] = c] /\ c.fresh = call[r].fresh
      BY <2>1, <2>8 DEF LoadsUnapplied, Call
    <3> HIDE DEF c
    <3> QED  BY <1>2, <3>1
  <2>9. ASSUME NEW t \in Rows, Apply(r, t) PROVE FreshInv'
    <3> DEFINE c == [call[r] EXCEPT !.batch = @ \ {t}, !.fresh = {},
                                    !.known = IF r \in Jobs THEN @ ELSE "expired"]
    <3>1. call' = [call EXCEPT ![r] = c] /\ c.fresh = {}
      BY <2>1, <2>9 DEF Apply, Call
    <3> HIDE DEF c
    <3> QED  BY <1>2, <3>1
  <2>10. ASSUME NEW t \in Rows, ApplyFails(r, t) PROVE FreshInv'
    <3> DEFINE c == [call[r] EXCEPT !.batch = @ \ {t}, !.known = "expired"]
    <3>1. call' = [call EXCEPT ![r] = c] /\ c.fresh = call[r].fresh
      BY <2>1, <2>10 DEF ApplyFails, Call
    <3> HIDE DEF c
    <3> QED  BY <1>2, <3>1
  <2>11. CASE (\E cause \in Causes : PullFails(r, cause)) \/ ReadTwice(r)
    <3>1. PICK cause \in Failed : RollsBack(r, cause)
      BY <1>4, <2>11, FailingRollsBack
    <3> DEFINE c == [Idle EXCEPT !.pc = "failing", !.known = account, !.cause = cause]
    <3>2. call' = [call EXCEPT ![r] = c] /\ c.fresh = {}
      BY <3>1 DEF RollsBack, Idle
    <3> HIDE DEF c
    <3> QED  BY <1>2, <3>2
  <2> QED
    BY <1>4, <2>2, <2>3, <2>4, <2>5, <2>6, <2>7, <2>8, <2>9, <2>10, <2>11 DEF GoesOn, Applies
<1>5. \A r \in Pulls \cup Imports : r \in Sessions
  BY DEF Sessions
<1> QED
  BY <1>1, <1>3, <1>4, <1>5 DEF Next, Pull, Import, JobStarts, RequestStarts, NextDay,
     Places, Executes, vars, TypeInv, TypeOK

(* However many tradebooks are imported at once, and whichever fill of one *)
(* of them is applied first: a tradebook's rows become visible together.   *)
THEOREM ImportsWhole == Spec => ImportIsWhole
<1> DEFINE Whole == \A r \in Imports :
       (stored' \ stored) \cap call[r].fresh # {} => call[r].fresh \subseteq stored'
<1>1. ASSUME TypeInv, FreshInv, [Next]_vars PROVE Whole
  <2> SUFFICES ASSUME NEW r \in Imports, (stored' \ stored) \cap call[r].fresh # {}
               PROVE  call[r].fresh \subseteq stored'
    OBVIOUS
  <2>1. r \in Sessions
    BY DEF Sessions
  <2>2. PICK o \in Sessions : PullTrades(o) \/ FinishImport(o) \/ \E t \in Rows : Apply(o, t)
    <3>1. stored' # stored
      OBVIOUS
    <3> QED
      BY <1>1, <3>1 DEF Next, Pull, Import, Applies, GoesOn, JobStarts, RequestStarts, Starts,
         NextDay, Places, Executes, ReadsPage, ReadTwice, PullHoldings, Finish, RecordsFailure,
         LoadsUnapplied, LedgerEnds, PullFails, RollsBack, BeginImport, Dies, ApplyFails,
         ImportAborts, vars, Sessions
  <2>3. CASE PullTrades(o)
    <3>1. stored' \ stored \subseteq Fills \X {"api"}
      BY <1>1, <2>2, <2>3, CallType DEF PullTrades, FromApi, OfDay, TypeInv, TypeOK
    <3>2. call[r].fresh \subseteq Fills \X {"csv"}
      BY <1>1, <2>1, CallType DEF FromCsv, TypeInv, TypeOK
    <3> QED  BY <3>1, <3>2
  <2>4. CASE FinishImport(o) \/ \E t \in Rows : Apply(o, t)
    <3>1. stored' = stored \cup call[o].fresh
      BY <2>4 DEF FinishImport, Apply
    <3>2. o = r
      <4>1. call[o].fresh \cap call[r].fresh # {}
        BY <3>1
      <4> QED  BY <1>1, <2>2, <4>1 DEF FreshInv, Sessions
    <3> QED  BY <3>1, <3>2
  <2> QED  BY <2>2, <2>3, <2>4
<1>2. Init => FreshInv
  BY DEF Init, FreshInv, Idle, Sessions
<1>3. TypeInv /\ FreshInv /\ [Next]_vars => [Whole]_vars
  BY <1>1
<1> HIDE DEF Whole
<1>4. Spec => [][Whole]_vars
  BY <1>2, <1>3, TypeInit, TypeStep, FreshStep, PTL DEF Spec
<1> QED  BY <1>4 DEF ImportIsWhole, Whole

-----------------------------------------------------------------------------
(* The account's row. *)

(* While a failure is being recorded and no pull has ended well since the  *)
(* account was reloaded, a failure that was reloaded still stands.         *)
StatusInv ==
  /\ FailureShows
  /\ \A r \in Sessions :
       call[r].pc = "failing" =>
         /\ r \in Pulls /\ call[r].cause \in Failed
         /\ call[r].known \in Failed /\ r \notin overtaken => account \in Failed

(* The step of one session that leaves the account alone. *)
LEMMA StatusKept ==
  ASSUME TypeInv, StatusInv, NEW r \in Sessions, NEW c,
         call' = [call EXCEPT ![r] = c], UNCHANGED <<account, lastPull>>,
         overtaken' \in {overtaken, overtaken \ {r}},
         c.pc = "failing" => r \in Pulls /\ c.cause \in Failed /\ c.known = account
  PROVE  StatusInv'
<1>1. \A o \in Sessions : call'[o] = IF o = r THEN c ELSE call[o]
  BY DEF TypeInv, TypeOK
<1>2. ASSUME NEW o \in Sessions, call'[o].pc = "failing"
      PROVE  /\ o \in Pulls /\ call'[o].cause \in Failed
             /\ call'[o].known \in Failed /\ o \notin overtaken' => account \in Failed
  <2>1. CASE o = r
    BY <1>1, <1>2, <2>1
  <2>2. CASE o # r
    BY <1>1, <1>2, <2>2 DEF StatusInv
  <2> QED  BY <2>1, <2>2
<1> QED  BY <1>2 DEF StatusInv, FailureShows

LEMMA StatusStep == TypeInv /\ StatusInv /\ [Next]_vars => StatusInv'
<1> SUFFICES ASSUME TypeInv, StatusInv, [Next]_vars PROVE StatusInv'
  OBVIOUS
<1>1. CASE UNCHANGED <<account, call, lastPull, overtaken>>
  BY <1>1 DEF StatusInv, FailureShows
<1>2. ASSUME NEW r \in Sessions, Finish(r) PROVE StatusInv'
  <2>1. lastPull' # "failed"
    BY <1>2 DEF Finish
  <2>2. ASSUME NEW o \in Sessions, call'[o].pc = "failing"
        PROVE  /\ o \in Pulls /\ call'[o].cause \in Failed
               /\ o \in overtaken'
    <3>1. o # r
      BY <1>2, <2>2 DEF Finish, Ended, Idle, TypeInv, TypeOK
    <3>2. call'[o] = call[o]
      BY <1>2, <3>1 DEF Finish, TypeInv, TypeOK
    <3> QED  BY <1>2, <2>2, <3>2 DEF Finish, StatusInv
  <2> QED  BY <2>1, <2>2 DEF StatusInv, FailureShows
<1>3. ASSUME NEW r \in Sessions, RecordsFailure(r) PROVE StatusInv'
  <2>1. /\ call[r].pc = "failing" /\ call[r].cause \in Failed
        /\ call[r].known \in Failed /\ r \notin overtaken => account \in Failed
    BY <1>3 DEF RecordsFailure, StatusInv
  <2>2. FailureShows'
    BY <1>3, <2>1 DEF RecordsFailure, FailureShows
  <2>3. account \in Failed => account' \in Failed
    BY <1>3, <2>1 DEF RecordsFailure
  <2>4. ASSUME NEW o \in Sessions, call'[o].pc = "failing"
        PROVE  /\ o \in Pulls /\ call'[o].cause \in Failed
               /\ call'[o].known \in Failed /\ o \notin overtaken' => account' \in Failed
    <3>1. o # r
      BY <1>3, <2>4 DEF RecordsFailure, Ended, Idle, TypeInv, TypeOK
    <3>2. call'[o] = call[o] /\ (o \in overtaken' <=> o \in overtaken)
      BY <1>3, <3>1 DEF RecordsFailure, TypeInv, TypeOK
    <3> QED  BY <2>3, <2>4, <3>2 DEF StatusInv
  <2> QED  BY <2>2, <2>4 DEF StatusInv
<1>4. ASSUME NEW r \in Pulls, (\E cause \in Causes : PullFails(r, cause)) \/ ReadTwice(r)
      PROVE  StatusInv'
  <2>1. r \in Sessions
    BY DEF Sessions
  <2>2. PICK cause \in Failed : RollsBack(r, cause)
    BY <1>4, <2>1, FailingRollsBack
  <2> DEFINE c == [Idle EXCEPT !.pc = "failing", !.known = account, !.cause = cause]
  <2>3. /\ call' = [call EXCEPT ![r] = c] /\ UNCHANGED <<account, lastPull, overtaken>>
        /\ c.cause \in Failed /\ c.known = account
    BY <2>2 DEF RollsBack, Idle
  <2> HIDE DEF c
  <2> QED  BY <2>1, <2>3, StatusKept
<1>5. ASSUME NEW r \in Sessions, NEW c, call' = [call EXCEPT ![r] = c], c.pc # "failing",
             UNCHANGED <<account, lastPull>>, overtaken' \in {overtaken, overtaken \ {r}}
      PROVE  StatusInv'
  BY <1>5, StatusKept
<1>6. ASSUME NEW r \in Sessions,
             \/ Dies(r) \/ FinishImport(r) \/ LedgerEnds(r)
             \/ \E t \in Rows : ImportAborts(r, t)
      PROVE  StatusInv'
  <2>1. /\ call' = [call EXCEPT ![r] = Idle] /\ UNCHANGED <<account, lastPull>>
        /\ overtaken' \in {overtaken, overtaken \ {r}}
    BY <1>6 DEF Dies, FinishImport, LedgerEnds, ImportAborts
  <2>2. Idle.pc # "failing"
    BY DEF Idle
  <2> QED  BY <1>5, <2>1, <2>2
<1>7. ASSUME NEW r \in Sessions,
             \/ \E day \in Days : Starts(r, day)
             \/ \E fills \in Exports : BeginImport(r, fills)
             \/ ReadsPage(r) \/ PullTrades(r) \/ PullHoldings(r) \/ LoadsUnapplied(r)
             \/ \E t \in Rows : Apply(r, t) \/ ApplyFails(r, t)
      PROVE  StatusInv'
  <2>1. call \in [Sessions -> Call] /\ call[r] \in Call
    BY CallType DEF TypeInv, TypeOK
  <2>3. ASSUME NEW c, call' = [call EXCEPT ![r] = c], c.pc # "failing",
               UNCHANGED <<account, lastPull, overtaken>>
        PROVE  StatusInv'
    BY <1>5, <2>3
  <2>4. ASSUME NEW day \in Days, Starts(r, day) PROVE StatusInv'
    <3> DEFINE c == [Idle EXCEPT !.pc = "orders", !.day = day,
                                 !.known = IF r \in Jobs THEN account ELSE "expired",
                                 !.before = {f \in executed : OrderDay[f] = day}]
    <3>1. call' = [call EXCEPT ![r] = c] /\ c.pc = "orders"
      BY <2>4 DEF Starts, Idle
    <3> HIDE DEF c
    <3> QED  BY <2>3, <2>4, <3>1 DEF Starts
  <2>5. ASSUME NEW fills \in Exports, BeginImport(r, fills) PROVE StatusInv'
    <3> DEFINE fresh == FromCsv(fills) \ stored
               c == [Idle EXCEPT !.pc = "apply", !.fresh = fresh,
                                 !.batch = (stored \ applied) \cup fresh]
    <3>1. call' = [call EXCEPT ![r] = c] /\ c.pc = "apply"
      BY <2>5 DEF BeginImport, Idle
    <3> HIDE DEF c
    <3> QED  BY <2>3, <2>5, <3>1 DEF BeginImport
  <2>6. CASE ReadsPage(r)
    <3> DEFINE last == OrderPage(call[r].page) = {} \/ call[r].page + 1 = MaxPages
               c == [call[r] EXCEPT
                       !.pc    = IF last THEN "trades" ELSE "orders",
                       !.page  = IF last THEN 0 ELSE @ + 1,
                       !.read  = @ \cup Eligible(call[r].page),
                       !.twice = @ \cup (call[r].read \cap Eligible(call[r].page))]
    <3>1. call' = [call EXCEPT ![r] = c]
      BY <2>6, <2>1 DEF ReadsPage
    <3>2. c.pc \in {"trades", "orders"}
      BY <2>1 DEF Call
    <3> HIDE DEF c
    <3> QED  BY <2>3, <2>6, <3>1, <3>2 DEF ReadsPage
  <2>7. CASE PullTrades(r)
    <3> DEFINE c == [call[r] EXCEPT !.pc = "holdings", !.day = 0, !.read = {}, !.twice = {},
                                    !.before = {}]
    <3>1. call' = [call EXCEPT ![r] = c] /\ c.pc = "holdings"
      BY <2>1, <2>7 DEF PullTrades, Call
    <3> HIDE DEF c
    <3> QED  BY <2>3, <2>7, <3>1 DEF PullTrades
  <2>8. CASE PullHoldings(r)
    <3> DEFINE c == [call[r] EXCEPT !.pc = "apply", !.batch = stored \ applied,
                                    !.known = IF r \in Jobs THEN @ ELSE account]
    <3>1. call' = [call EXCEPT ![r] = c] /\ c.pc = "apply"
      BY <2>1, <2>8 DEF PullHoldings, Call
    <3> HIDE DEF c
    <3> QED  BY <2>3, <2>8, <3>1 DEF PullHoldings
  <2>9. CASE LoadsUnapplied(r)
    <3> DEFINE c == [call[r] EXCEPT !.pc = "fold", !.batch = stored \ applied]
    <3>1. call' = [call EXCEPT ![r] = c] /\ c.pc = "fold"
      BY <2>1, <2>9 DEF LoadsUnapplied, Call
    <3> HIDE DEF c
    <3> QED  BY <2>3, <2>9, <3>1 DEF LoadsUnapplied
  <2>10. ASSUME NEW t \in Rows, Apply(r, t) PROVE StatusInv'
    <3> DEFINE c == [call[r] EXCEPT !.batch = @ \ {t}, !.fresh = {},
                                    !.known = IF r \in Jobs THEN @ ELSE "expired"]
    <3>1. call' = [call EXCEPT ![r] = c] /\ c.pc \in {"apply", "fold"}
      BY <2>1, <2>10 DEF Apply, Call
    <3> HIDE DEF c
    <3> QED  BY <2>3, <2>10, <3>1 DEF Apply
  <2>11. ASSUME NEW t \in Rows, ApplyFails(r, t) PROVE StatusInv'
    <3> DEFINE c == [call[r] EXCEPT !.batch = @ \ {t}, !.known = "expired"]
    <3>1. call' = [call EXCEPT ![r] = c] /\ c.pc \in {"apply", "fold"}
      BY <2>1, <2>11 DEF ApplyFails, Call
    <3> HIDE DEF c
    <3> QED  BY <2>3, <2>11, <3>1 DEF ApplyFails
  <2> QED  BY <1>7, <2>4, <2>5, <2>6, <2>7, <2>8, <2>9, <2>10, <2>11
<1>8. \A r \in Pulls \cup Imports : r \in Sessions
  BY DEF Sessions
<1>9. ASSUME NEW r \in Pulls, Pull(r) PROVE StatusInv'
  <2>1. r \in Sessions
    BY <1>8
  <2>2. CASE JobStarts(r) \/ \E day \in Days : RequestStarts(r, day)
    <3>1. today \in Days
      BY DEF TypeInv, TypeOK
    <3> QED  BY <1>7, <2>1, <2>2, <3>1 DEF JobStarts, RequestStarts
  <2>3. CASE (\E cause \in Causes : PullFails(r, cause)) \/ ReadTwice(r)
    BY <1>4, <2>3
  <2>4. CASE ReadsPage(r) \/ PullTrades(r) \/ PullHoldings(r) \/ LoadsUnapplied(r) \/ Applies(r)
    BY <1>7, <2>1, <2>4 DEF Applies
  <2>5. CASE Finish(r) \/ RecordsFailure(r) \/ LedgerEnds(r)
    BY <1>2, <1>3, <1>6, <2>1, <2>5
  <2> QED  BY <1>9, <2>2, <2>3, <2>4, <2>5 DEF Pull, GoesOn
<1>10. ASSUME NEW r \in Imports, Import(r) PROVE StatusInv'
  BY <1>6, <1>7, <1>8, <1>10 DEF Import, Applies
<1>11. CASE \/ NextDay \/ (\E o \in Orders : Places(o)) \/ (\E f \in Fills : Executes(f))
            \/ UNCHANGED vars
  BY <1>1, <1>11 DEF NextDay, Places, Executes, vars
<1> QED
  BY <1>6, <1>7, <1>9, <1>10, <1>11 DEF Next

(* A failure is shown until another pull ends, also where a pull that had  *)
(* overlapped it succeeded with an account it had read before; only one    *)
(* that ends well while the failure is being recorded covers it up.        *)
THEOREM FailuresShow == Spec => []FailureShows
<1>1. Init => StatusInv
  BY DEF Init, StatusInv, FailureShows, Idle
<1>2. StatusInv => FailureShows
  BY DEF StatusInv
<1> QED  BY <1>1, <1>2, TypeInit, TypeStep, StatusStep, PTL DEF Spec

-----------------------------------------------------------------------------
(* The pages of the broker's list. *)

(* The elements of a page of d, counted from the newest. *)
LEMMA OnPage ==
  ASSUME NEW n \in Nat, NEW d \in Nat \ {0}, NEW page \in Nat
  PROVE  n \div d = page <=> page * d <= n /\ n < page * d + d
<1> DEFINE q == n \div d
           m == n % d
<1>1. q \in Int /\ m \in Nat /\ m < d /\ n = q * d + m
  BY SMT
<1> HIDE DEF q, m
<1>2. page * d \in Nat /\ q * d \in Int
  BY <1>1, SMT
<1>3. CASE q = page
  BY <1>1, <1>2, <1>3, SMT
<1>4. CASE q < page
  <2>1. (q + 1) * d <= page * d /\ (q + 1) * d = q * d + d
    BY <1>1, <1>4, SMT
  <2> QED  BY <1>1, <1>2, <1>4, <2>1, SMT
<1>5. CASE page < q
  <2>1. (page + 1) * d <= q * d /\ (page + 1) * d = page * d + d
    BY <1>1, <1>5, SMT
  <2> QED  BY <1>1, <1>2, <1>5, <2>1, SMT
<1>6. q = page <=> page * d <= n /\ n < page * d + d
  BY <1>1, <1>3, <1>4, <1>5
<1> QED  BY <1>6 DEF q

(* An order at the i-th place of the list is still to be read by a pull    *)
(* whose next page is this one, or beyond what may be read.                *)
Ahead(i, pc, page) ==
  \/ pc = "orders" /\ page * PageSize <= Len(placed) - i
  \/ Len(placed) > MaxPages * PageSize

(* No order of the pull's day that was filled before it began is behind    *)
(* the reader without having been read.                                    *)
NoneSkipped(r) ==
  \A f \in call[r].before \ call[r].read :
    \E i \in DOMAIN placed : placed[i] = f /\ Ahead(i, call[r].pc, call[r].page)

PagesInv ==
  /\ \A i \in DOMAIN placed : OrderDay[placed[i]] = today
  /\ \A f \in executed : /\ OrderDay[f] <= today
                         /\ OrderDay[f] = today => \E i \in DOMAIN placed : placed[i] = f
  /\ \A r \in Sessions : call[r].day <= today
  /\ \A r \in Sessions : call[r].pc \in {"orders", "trades"} =>
       /\ call[r].before \subseteq {f \in executed : OrderDay[f] = call[r].day}
       /\ call[r].day = today => NoneSkipped(r)

LEMMA PagesInit == Init => PagesInv
<1> SUFFICES ASSUME Init PROVE PagesInv
  OBVIOUS
<1>1. \A r \in Sessions : call[r] = Idle
  BY DEF Init
<1>2. \A r \in Sessions : call[r].pc = "idle" /\ call[r].day <= today
  BY <1>1 DEF Idle, Init
<1>3. \A i \in DOMAIN placed : OrderDay[placed[i]] = 0
  <2>1. placed \in Seq({o \in Orders : OrderDay[o] = 0})
    BY BrokerSyncAssumption DEF Init
  <2> QED  BY <2>1
<1>4. \A f \in executed : \E i \in DOMAIN placed : placed[i] = f
  BY BrokerSyncAssumption DEF Init
<1>5. today = 0
  BY DEF Init
<1>6. \A f \in executed : OrderDay[f] <= today
  BY <1>3, <1>4, <1>5
<1> QED  BY <1>2, <1>3, <1>4, <1>5, <1>6 DEF PagesInv

(* An order that is placed moves the others away from the pages that were  *)
(* read.                                                                   *)
LEMMA PlacesPages ==
  ASSUME TypeInv, PagesInv, NEW o \in Orders, Places(o)
  PROVE  PagesInv'
<1>1. /\ placed \in Seq(Orders) /\ placed' = Append(placed, o) /\ OrderDay[o] = today
      /\ UNCHANGED <<today, executed, call>>
  BY DEF Places, TypeInv, TypeOK
<1>2. /\ Len(placed') = Len(placed) + 1 /\ Len(placed) \in Nat
      /\ DOMAIN placed = 1 .. Len(placed) /\ DOMAIN placed' = 1 .. Len(placed) + 1
      /\ \A i \in DOMAIN placed : i \in DOMAIN placed' /\ placed'[i] = placed[i]
      /\ placed'[Len(placed) + 1] = o
  BY <1>1
<1>3. \A i \in DOMAIN placed' : i \in DOMAIN placed \/ i = Len(placed) + 1
  BY <1>2
<1>4. \A i \in DOMAIN placed' : OrderDay[placed'[i]] = today'
  BY <1>1, <1>2, <1>3 DEF PagesInv
<1>5. ASSUME NEW r \in Sessions, NoneSkipped(r) PROVE NoneSkipped(r)'
  <2> SUFFICES ASSUME NEW f \in call[r].before \ call[r].read
               PROVE  \E i \in DOMAIN placed' :
                        placed'[i] = f /\ Ahead(i, call[r].pc, call[r].page)'
    BY <1>1 DEF NoneSkipped
  <2>1. PICK i \in DOMAIN placed : placed[i] = f /\ Ahead(i, call[r].pc, call[r].page)
    BY <1>5 DEF NoneSkipped
  <2>2. call[r].page \in Nat /\ PageSize \in Nat /\ MaxPages \in Nat
    BY CallType, BrokerSyncAssumption DEF Call
  <2>3. call[r].page * PageSize \in Nat /\ MaxPages * PageSize \in Nat
    BY <2>2
  <2> DEFINE from == call[r].page * PageSize
             most == MaxPages * PageSize
  <2>4. Ahead(i, call[r].pc, call[r].page)'
    <3>1. \/ call[r].pc = "orders" /\ from <= Len(placed) - i
          \/ Len(placed) > most
      BY <2>1 DEF Ahead
    <3>2. from \in Nat /\ most \in Nat /\ i \in Nat
      BY <1>2, <2>3
    <3> HIDE DEF from, most
    <3>3. \/ call[r].pc = "orders" /\ from <= Len(placed') - i
          \/ Len(placed') > most
      BY <1>2, <3>1, <3>2
    <3> QED  BY <1>1, <3>3 DEF Ahead, from, most
  <2> QED  BY <1>2, <2>1, <2>4
<1>6. \A f \in executed : (\E i \in DOMAIN placed : placed[i] = f)
                        => \E i \in DOMAIN placed' : placed'[i] = f
  BY <1>2
<1> QED  BY <1>1, <1>4, <1>5, <1>6 DEF PagesInv

(* The page that is read next has whatever is ahead of the reader and not  *)
(* beyond it, and is not empty while anything is.                          *)
LEMMA ReadsPages ==
  ASSUME TypeInv, PagesInv, NEW r \in Sessions, ReadsPage(r), call[r].day = today
  PROVE  NoneSkipped(r)'
<1> DEFINE page == call[r].page
           from == page * PageSize
           most == MaxPages * PageSize
           last == OrderPage(page) = {} \/ page + 1 = MaxPages
           Left(i) == \/ ~last /\ from + PageSize <= Len(placed) - i
                      \/ Len(placed) > most
<1>1. /\ placed \in Seq(Orders) /\ page \in Nat /\ PageSize \in Nat \ {0} /\ MaxPages \in Nat
  BY CallType, BrokerSyncAssumption DEF TypeInv, TypeOK, Call
<1>2. /\ call'[r].read = call[r].read \cup Eligible(page)
      /\ call'[r].before = call[r].before
      /\ call'[r].pc   = IF last THEN "trades" ELSE "orders"
      /\ call'[r].page = IF last THEN 0 ELSE page + 1
  <2> DEFINE c == [call[r] EXCEPT
                     !.pc    = IF last THEN "trades" ELSE "orders",
                     !.page  = IF last THEN 0 ELSE page + 1,
                     !.read  = @ \cup Eligible(page),
                     !.twice = @ \cup (call[r].read \cap Eligible(page))]
  <2>1. call' = [call EXCEPT ![r] = c] /\ call \in [Sessions -> Call]
    BY DEF ReadsPage, TypeInv, TypeOK
  <2>2. call[r] \in Call
    BY CallType
  <2> HIDE DEF last
  <2>3. /\ c.read = call[r].read \cup Eligible(page) /\ c.before = call[r].before
        /\ c.pc   = IF last THEN "trades" ELSE "orders"
        /\ c.page = IF last THEN 0 ELSE page + 1
    BY <2>2 DEF Call
  <2> HIDE DEF c
  <2>4. call'[r] = c
    BY <2>1
  <2> QED  BY <2>3, <2>4
<1>3. placed' = placed
  BY DEF ReadsPage, broker
<1>4. /\ from \in Nat /\ most \in Nat /\ (page + 1) * PageSize = from + PageSize
      /\ (page + 1 = MaxPages => most = from + PageSize)
  <2> HIDE DEF page
  <2>1. from \in Nat /\ most \in Nat
    BY <1>1
  <2>2. (page + 1) * PageSize = from + PageSize
    BY <1>1
  <2> QED  BY <2>1, <2>2
<1> SUFFICES ASSUME NEW f \in call[r].before, f \notin call[r].read, f \notin Eligible(page)
             PROVE  \E i \in DOMAIN placed : placed[i] = f /\ Left(i)
  <2> HIDE DEF page, last, from, most
  <2> SUFFICES ASSUME NEW f \in call'[r].before \ call'[r].read
               PROVE  \E i \in DOMAIN placed : placed[i] = f /\ Ahead(i, call'[r].pc, call'[r].page)
    BY <1>3 DEF NoneSkipped, Ahead
  <2>1. PICK i \in DOMAIN placed : placed[i] = f /\ Left(i)
    BY <1>2
  <2>2. Ahead(i, call'[r].pc, call'[r].page)
    BY <1>2, <1>4, <2>1 DEF Ahead, most
  <2> QED  BY <2>1, <2>2
<1>5. /\ f \in executed
      /\ \E i \in DOMAIN placed : placed[i] = f /\ Ahead(i, "orders", page)
  <2>1. call[r].pc = "orders"
    BY DEF ReadsPage
  <2>2. call[r].before \subseteq executed /\ NoneSkipped(r)
    BY <2>1 DEF PagesInv
  <2>3. \E i \in DOMAIN placed : placed[i] = f /\ Ahead(i, call[r].pc, call[r].page)
    BY <2>2 DEF NoneSkipped
  <2> QED  BY <2>1, <2>2, <2>3
<1>6. PICK i \in DOMAIN placed : placed[i] = f /\ Ahead(i, "orders", page)
  BY <1>5
<1>7. i \in 1 .. Len(placed) /\ Len(placed) \in Nat
  BY <1>1
<1>8. CASE Len(placed) > most
  BY <1>6, <1>8
<1>9. CASE from <= Len(placed) - i
  <2>1. Len(placed) - i \in Nat
    BY <1>7
  <2>2. (Len(placed) - i) \div PageSize # page
    BY <1>5, <1>6 DEF Eligible, OrderPage
  <2>3. from + PageSize <= Len(placed) - i
    <3> DEFINE n == Len(placed) - i
    <3>1. n \div PageSize # page /\ n \in Nat /\ from <= n
      BY <1>9, <2>1, <2>2
    <3> HIDE DEF n, page
    <3>2. ~(from <= n /\ n < from + PageSize)
      BY <1>1, <3>1, OnPage
    <3> HIDE DEF from
    <3>3. from + PageSize <= n
      BY <1>1, <1>4, <3>1, <3>2
    <3> QED  BY <3>3 DEF n
  <2>4. OrderPage(page) # {}
    <3> DEFINE j == Len(placed) - from
    <3>1. j \in DOMAIN placed /\ Len(placed) - j = from
      <4> HIDE DEF from
      <4> QED  BY <1>1, <1>4, <1>7, <1>9
    <3>2. from \div PageSize = page
      <4>1. from <= from /\ from < from + PageSize
        <5> HIDE DEF from
        <5> QED  BY <1>1, <1>4
      <4> HIDE DEF page
      <4> QED  BY <1>1, <1>4, <4>1, OnPage
    <3>3. (Len(placed) - j) \div PageSize = page
      BY <3>1, <3>2
    <3>4. placed[j] \in OrderPage(page)
      <4> HIDE DEF j, page
      <4> QED  BY <3>1, <3>3 DEF OrderPage
    <3> QED  BY <3>4
  <2>5. page + 1 = MaxPages => Len(placed) > most
    <3> HIDE DEF from, most
    <3> QED  BY <1>1, <1>4, <1>7, <2>3
  <2> QED  BY <1>6, <2>3, <2>4, <2>5
<1> QED  BY <1>6, <1>8, <1>9 DEF Ahead

(* A step of one session, which reads no page or reads on without a gap. *)
LEMMA OneCallPages ==
  ASSUME TypeInv, PagesInv, NEW r \in Sessions, NEW c,
         call' = [call EXCEPT ![r] = c], UNCHANGED broker,
         c.day <= today,
         c.pc \in {"orders", "trades"} =>
           /\ c.before \subseteq {f \in executed : OrderDay[f] = c.day}
           /\ c.day = today => NoneSkipped(r)'
  PROVE  PagesInv'
<1>1. \A o \in Sessions : call'[o] = IF o = r THEN c ELSE call[o]
  BY DEF TypeInv, TypeOK
<1>2. UNCHANGED <<today, placed, executed>>
  BY DEF broker
<1>3. ASSUME NEW o \in Sessions, call'[o].pc \in {"orders", "trades"}
      PROVE  /\ call'[o].before \subseteq {f \in executed : OrderDay[f] = call'[o].day}
             /\ call'[o].day = today => NoneSkipped(o)'
  <2>1. CASE o = r
    BY <1>1, <1>3, <2>1
  <2>2. CASE o # r
    <3>1. call'[o] = call[o]
      BY <1>1, <2>2
    <3>2. call[o].day = today => NoneSkipped(o)
      BY <1>3, <3>1 DEF PagesInv
    <3> QED  BY <1>2, <1>3, <3>1, <3>2 DEF NoneSkipped, Ahead, PagesInv
  <2> QED  BY <2>1, <2>2
<1>4. \A o \in Sessions : call'[o].day <= today
  BY <1>1 DEF PagesInv
<1> QED  BY <1>2, <1>3, <1>4 DEF PagesInv

LEMMA PagesStep == TypeInv /\ PagesInv /\ [Next]_vars => PagesInv'
<1> SUFFICES ASSUME TypeInv, PagesInv, [Next]_vars PROVE PagesInv'
  OBVIOUS
<1>1. /\ today \in Nat /\ call \in [Sessions -> Call] /\ executed \subseteq Fills
      /\ \A f \in Fills : OrderDay[f] \in Nat
  BY BrokerSyncAssumption DEF TypeInv, TypeOK, Days, Orders
<1>2. CASE UNCHANGED vars
  BY <1>2 DEF PagesInv, NoneSkipped, Ahead, vars, broker
<1>3. CASE NextDay
  <2>1. \A r \in Sessions : call[r].day \in Nat
    BY CallType, BrokerSyncAssumption DEF Call, Days
  <2>2. today' = today + 1 /\ placed' = <<>> /\ UNCHANGED <<executed, call>>
    BY <1>3 DEF NextDay
  <2>3. \A i \in DOMAIN placed' : FALSE
    BY <2>2
  <2>4. \A f \in executed : OrderDay[f] <= today' /\ OrderDay[f] # today'
    BY <1>1, <2>2 DEF PagesInv
  <2>5. \A r \in Sessions : call[r].day <= today' /\ call[r].day # today'
    BY <1>1, <2>1, <2>2 DEF PagesInv
  <2> QED  BY <2>2, <2>3, <2>4, <2>5 DEF PagesInv
<1>4. ASSUME NEW f \in Fills, Executes(f) PROVE PagesInv'
  <2>1. /\ executed' = executed \cup {f} /\ UNCHANGED <<today, placed, call>>
        /\ \E i \in DOMAIN placed : placed[i] = f
    BY <1>4 DEF Executes
  <2>2. OrderDay[f] = today
    BY <2>1 DEF PagesInv
  <2>3. OrderDay[f] <= today
    BY <1>1, <2>2
  <2> QED  BY <2>1, <2>2, <2>3 DEF PagesInv, NoneSkipped, Ahead
<1>5. ASSUME NEW o \in Orders, Places(o) PROVE PagesInv'
  BY <1>5, PlacesPages
<1>6. ASSUME NEW r \in Sessions, NEW c, call' = [call EXCEPT ![r] = c],
             UNCHANGED broker, c.day = 0 \/ c.day = call[r].day,
             c.pc \notin {"orders", "trades"}
      PROVE  PagesInv'
  <2>1. call[r].day <= today /\ 0 <= today
    BY <1>1 DEF PagesInv
  <2> QED  BY <1>6, <2>1, OneCallPages
<1>7. ASSUME NEW r \in Sessions,
             \/ Dies(r) \/ Finish(r) \/ RecordsFailure(r) \/ FinishImport(r) \/ LedgerEnds(r)
             \/ \E t \in Rows : ImportAborts(r, t)
      PROVE  PagesInv'
  <2>1. \A c \in {Idle, Ended(r)} : c.day = 0 /\ c.pc \notin {"orders", "trades"}
    BY DEF Idle, Ended
  <2>2. /\ call' = [call EXCEPT ![r] = Idle] \/ call' = [call EXCEPT ![r] = Ended(r)]
        /\ UNCHANGED broker
    BY <1>7 DEF Dies, Finish, RecordsFailure, FinishImport, LedgerEnds, ImportAborts
  <2> QED  BY <1>6, <2>1, <2>2
<1>8. ASSUME NEW r \in Sessions, (\E cause \in Causes : PullFails(r, cause)) \/ ReadTwice(r)
      PROVE  PagesInv'
  <2>1. PICK cause \in Failed : RollsBack(r, cause)
    BY <1>8, FailingRollsBack
  <2> DEFINE c == [Idle EXCEPT !.pc = "failing", !.known = account, !.cause = cause]
  <2>2. call' = [call EXCEPT ![r] = c] /\ UNCHANGED broker /\ c.day = 0 /\ c.pc = "failing"
    BY <2>1 DEF RollsBack, Idle
  <2> HIDE DEF c
  <2> QED  BY <1>6, <2>2
<1>9. ASSUME NEW r \in Sessions, NEW day \in Days, day <= today, Starts(r, day)
      PROVE  PagesInv'
  <2> DEFINE c == [Idle EXCEPT !.pc = "orders", !.day = day,
                               !.known = IF r \in Jobs THEN account ELSE "expired",
                               !.before = {f \in executed : OrderDay[f] = day}]
  <2>1. /\ call' = [call EXCEPT ![r] = c] /\ UNCHANGED broker
        /\ c.read = {} /\ c.day = day /\ c.pc = "orders" /\ c.page = 0
        /\ c.before = {f \in executed : OrderDay[f] = day}
    BY <1>9 DEF Starts, Idle
  <2> HIDE DEF c
  <2>2. call'[r] = c /\ placed' = placed
    BY <1>1, <2>1 DEF broker
  <2>3. day = today => NoneSkipped(r)'
    <3> SUFFICES ASSUME day = today, NEW f \in c.before
                 PROVE  \E i \in DOMAIN placed : placed[i] = f /\ Ahead(i, "orders", 0)
      BY <2>1, <2>2 DEF NoneSkipped, Ahead
    <3>1. PICK i \in DOMAIN placed : placed[i] = f
      BY <2>1 DEF PagesInv
    <3>2. i \in 1 .. Len(placed) /\ Len(placed) \in Nat /\ PageSize \in Nat
      BY BrokerSyncAssumption DEF TypeInv, TypeOK
    <3>3. 0 * PageSize <= Len(placed) - i
      BY <3>2
    <3> QED  BY <3>1, <3>3 DEF Ahead
  <2> QED  BY <1>9, <2>1, <2>3, OneCallPages
<1>10. ASSUME NEW r \in Sessions, ReadsPage(r) PROVE PagesInv'
  <2> DEFINE last == OrderPage(call[r].page) = {} \/ call[r].page + 1 = MaxPages
             c == [call[r] EXCEPT
                     !.pc    = IF last THEN "trades" ELSE "orders",
                     !.page  = IF last THEN 0 ELSE @ + 1,
                     !.read  = @ \cup Eligible(call[r].page),
                     !.twice = @ \cup (call[r].read \cap Eligible(call[r].page))]
  <2>1. /\ call' = [call EXCEPT ![r] = c] /\ UNCHANGED broker
    BY <1>1, <1>10 DEF ReadsPage
  <2>2. c.day = call[r].day /\ c.before = call[r].before
    BY CallType DEF Call
  <2> HIDE DEF c
  <2>3. call[r].day = today => NoneSkipped(r)'
    BY <1>10, ReadsPages
  <2>4. /\ call[r].before \subseteq {f \in executed : OrderDay[f] = call[r].day}
        /\ call[r].day <= today
    BY <1>10 DEF PagesInv, ReadsPage
  <2> QED  BY <2>1, <2>2, <2>3, <2>4, OneCallPages
<1>11. ASSUME NEW r \in Sessions,
              PullTrades(r) \/ PullHoldings(r) \/ LoadsUnapplied(r)
       PROVE  PagesInv'
  <2> DEFINE trades   == [call[r] EXCEPT !.pc = "holdings", !.day = 0, !.read = {}, !.twice = {},
                                         !.before = {}]
             holdings == [call[r] EXCEPT !.pc = "apply", !.batch = stored \ applied,
                                         !.known = IF r \in Jobs THEN @ ELSE account]
             loads    == [call[r] EXCEPT !.pc = "fold", !.batch = stored \ applied]
  <2>1. PullTrades(r)     => call' = [call EXCEPT ![r] = trades]
    BY <1>1 DEF PullTrades
  <2>2. PullHoldings(r)   => call' = [call EXCEPT ![r] = holdings]
    BY <1>1 DEF PullHoldings
  <2>3. LoadsUnapplied(r) => call' = [call EXCEPT ![r] = loads]
    BY <1>1 DEF LoadsUnapplied
  <2>4. \A c \in {trades, holdings, loads} :
          (c.day = 0 \/ c.day = call[r].day) /\ c.pc \notin {"orders", "trades"}
    <3>1. call[r] \in Call
      BY CallType
    <3>2. trades.day = 0 /\ trades.pc = "holdings"
      BY <3>1 DEF Call
    <3>3. holdings.day = call[r].day /\ holdings.pc = "apply"
      BY <3>1 DEF Call
    <3>4. loads.day = call[r].day /\ loads.pc = "fold"
      BY <3>1 DEF Call
    <3> HIDE DEF trades, holdings, loads
    <3> QED  BY <3>2, <3>3, <3>4
  <2>5. UNCHANGED broker
    BY <1>11 DEF PullTrades, PullHoldings, LoadsUnapplied
  <2> HIDE DEF trades, holdings, loads
  <2> QED  BY <1>6, <1>11, <2>1, <2>2, <2>3, <2>4, <2>5
<1>12. ASSUME NEW r \in Sessions, NEW t \in Rows, Apply(r, t) \/ ApplyFails(r, t)
       PROVE  PagesInv'
  <2> DEFINE done   == [call[r] EXCEPT !.batch = @ \ {t}, !.fresh = {},
                                       !.known = IF r \in Jobs THEN @ ELSE "expired"]
             failed == [call[r] EXCEPT !.batch = @ \ {t}, !.known = "expired"]
  <2>1. Apply(r, t)      => call' = [call EXCEPT ![r] = done]
    BY <1>1 DEF Apply
  <2>2. ApplyFails(r, t) => call' = [call EXCEPT ![r] = failed]
    BY <1>1 DEF ApplyFails
  <2>3. call[r].pc \in {"apply", "fold"} /\ UNCHANGED broker
    BY <1>12 DEF Apply, ApplyFails
  <2>4. /\ done.day = call[r].day /\ done.pc = call[r].pc
        /\ failed.day = call[r].day /\ failed.pc = call[r].pc
    BY CallType DEF Call
  <2> HIDE DEF done, failed
  <2> QED  BY <1>6, <1>12, <2>1, <2>2, <2>3, <2>4
<1>13. ASSUME NEW r \in Imports, NEW fills \in Exports, BeginImport(r, fills) PROVE PagesInv'
  <2> DEFINE fresh == FromCsv(fills) \ stored
             c == [Idle EXCEPT !.pc = "apply", !.fresh = fresh,
                               !.batch = (stored \ applied) \cup fresh]
  <2>1. call' = [call EXCEPT ![r] = c] /\ c.day = 0 /\ c.pc = "apply"
    BY <1>13 DEF BeginImport, Idle
  <2> HIDE DEF c
  <2>2. r \in Sessions
    BY DEF Sessions
  <2> QED  BY <1>6, <1>13, <2>1, <2>2 DEF BeginImport
<1>14. \A r \in Pulls \cup Imports : r \in Sessions
  BY DEF Sessions
<1>15. ASSUME NEW r \in Pulls, Pull(r) PROVE PagesInv'
  <2>1. r \in Sessions /\ today \in Days /\ today <= today
    BY <1>1, <1>14 DEF TypeInv, TypeOK
  <2>2. CASE JobStarts(r) \/ \E day \in Days : RequestStarts(r, day)
    BY <1>9, <2>1, <2>2 DEF JobStarts, RequestStarts
  <2>3. CASE GoesOn(r) \/ \E cause \in Causes : PullFails(r, cause)
    BY <1>7, <1>8, <1>10, <1>11, <1>12, <2>1, <2>3 DEF GoesOn, Applies
  <2> QED  BY <1>15, <2>2, <2>3 DEF Pull
<1>16. ASSUME NEW r \in Imports, Import(r) PROVE PagesInv'
  BY <1>7, <1>12, <1>13, <1>14, <1>16 DEF Import, Applies
<1> QED
  BY <1>2, <1>3, <1>4, <1>5, <1>7, <1>12, <1>15, <1>16 DEF Next

(* A pull of the day stores every order that was filled before it began:   *)
(* an order that is placed while the pages are read moves those that are   *)
(* still ahead further away, never past the reader, and one that is filled *)
(* stays where it is.  The list may not be longer than the pages that are  *)
(* read: its end has the oldest orders, which are left out without an      *)
(* error (_all_orders).                                                    *)
THEOREM PullsAreComplete == Spec => PullIsComplete
<1> DEFINE Complete == \A r \in Pulls :
       PullTrades(r) /\ call[r].day = today /\ Len(placed) <= MaxPages * PageSize
       => FromApi(call[r].before) \subseteq stored'
<1>1. ASSUME TypeInv, PagesInv PROVE Complete
  <2> SUFFICES ASSUME NEW r \in Pulls, PullTrades(r), call[r].day = today,
                      Len(placed) <= MaxPages * PageSize, NEW f \in call[r].before
               PROVE  <<f, "api">> \in stored'
    BY DEF FromApi
  <2>1. r \in Sessions /\ call[r].pc = "trades"
    BY DEF Sessions, PullTrades
  <2>2. ~(Len(placed) > MaxPages * PageSize)
    <3>1. Len(placed) \in Nat /\ MaxPages * PageSize \in Nat
      BY <1>1, BrokerSyncAssumption DEF TypeInv, TypeOK
    <3> QED  BY <3>1
  <2>3. f \in call[r].read
    BY <1>1, <2>1, <2>2 DEF PagesInv, NoneSkipped, Ahead
  <2>4. OrderDay[f] = call[r].day
    BY <1>1, <2>1 DEF PagesInv
  <2> QED  BY <2>3, <2>4 DEF PullTrades, FromApi, OfDay
<1>2. TypeInv /\ PagesInv /\ [Next]_vars => [Complete]_vars
  BY <1>1
<1> HIDE DEF Complete
<1>3. TypeInv /\ PagesInv /\ [Next]_vars => PagesInv'
  BY PagesStep
<1>4. Spec => [][Complete]_vars
  BY <1>2, <1>3, TypeInit, TypeStep, PagesInit, PTL DEF Spec
<1> QED  BY <1>4 DEF PullIsComplete, Complete
=============================================================================
