--------------------------- MODULE ReconcileProofs ---------------------------
(* What the reconcile checks, for any calendar, overlap and lookback.      *)
EXTENDS Reconcile, TLAPS

LEMMA IdleType == Idle \in Job
BY ReconcileAssumption DEF Idle, Job, Bars, Status

LEMMA InitType == Init => TypeOK
<1> SUFFICES ASSUME Init PROVE TypeOK
  OBVIOUS
<1> USE ReconcileAssumption
<1>1. fyers \in [Sessions -> Bars]
  BY DEF Init, Bars
<1>2. bars \in [Sessions -> Bars]
  <2>1. \A s \in Sessions : fyers[s] \in Bars
    BY <1>1
  <2> QED  BY <2>1 DEF Init, Bars
<1>3. job \in Job
  BY IdleType DEF Init
<1>4. check \in [Sessions -> Status]
  BY DEF Init, Status
<1> QED  BY <1>1, <1>2, <1>3, <1>4 DEF Init, TypeOK

(* What an ingest run does to the bars. *)
LEMMA IngestType ==
  ASSUME TypeOK, NEW D \in SUBSET Sessions, Ingests(D)
  PROVE  /\ bars' \in [Sessions -> Bars] /\ unchecked' \subseteq Sessions
         /\ \A s \in Sessions \ unchecked' : bars'[s] = bars[s]
<1>1. PICK now \in {"none", "part"} :
        bars' = [s \in Sessions |-> IF s \notin D THEN bars[s]
                                    ELSE IF s \in Closed THEN fyers[s]
                                    ELSE IF bars[s] = "none" THEN now ELSE bars[s]]
  BY DEF Ingests
<1>2. \A s \in Sessions : bars[s] \in Bars /\ fyers[s] \in Bars
  BY DEF TypeOK
<1>3. now \in Bars
  BY DEF Bars
<1>4. bars' \in [Sessions -> Bars]
  BY <1>1, <1>2, <1>3
<1>5. unchecked' = unchecked \cup D
  BY DEF Ingests
<1>6. \A s \in Sessions \ unchecked' : bars'[s] = bars[s]
  BY <1>1, <1>5
<1> QED  BY <1>4, <1>5, <1>6 DEF TypeOK

LEMMA SessionSets ==
  /\ Incremental \subseteq Sessions /\ Fetchable \subseteq Sessions /\ Stored \subseteq Sessions
  /\ Closed \subseteq Sessions
  /\ \A day : Refetched(day) \subseteq Sessions /\ OpenRows(day) \subseteq Sessions
BY DEF Incremental, Fetchable, Stored, Closed, Refetched, OpenRows

(* What a run of ingest leaves of the bars and of the rows. *)
Stores ==
  \/ IngestsNew
  \/ Ingests(Incremental) /\ UNCHANGED <<stale, check>>
  \/ Upserts(Fetchable)

LEMMA StoresType ==
  ASSUME TypeOK, Stores
  PROVE  /\ bars' \in [Sessions -> Bars] /\ stale' \subseteq Sessions
         /\ check' \in [Sessions -> Status]
         /\ unchecked' \subseteq Sessions /\ unchecked \subseteq unchecked'
         /\ \A s \in Sessions \ unchecked' : bars'[s] = bars[s]
         /\ \A s \in Sessions : check'[s] \in {check[s], "none"}
<1>1. PICK D \in SUBSET Sessions : Ingests(D)
  BY SessionSets DEF Stores, IngestsNew, Rebuilds, Upserts
<1>2. /\ bars' \in [Sessions -> Bars] /\ unchecked' \subseteq Sessions
      /\ \A s \in Sessions \ unchecked' : bars'[s] = bars[s]
  BY <1>1, IngestType
<1>3. unchecked \subseteq unchecked'
  BY <1>1 DEF Ingests
<1>4. /\ stale' \subseteq stale
      /\ check' = check \/ check' = [s \in Sessions |-> "none"]
  BY DEF Stores, IngestsNew, Rebuilds, Upserts
<1>5. check' \in [Sessions -> Status] /\ \A s \in Sessions : check'[s] \in {check[s], "none"}
  BY <1>4 DEF TypeOK, Status
<1> QED  BY <1>2, <1>3, <1>4, <1>5 DEF TypeOK

(* The steps that only move the job on. *)
LEMMA MovesType ==
  ASSUME TypeOK
  PROVE  /\ [job EXCEPT !.pc = "load"] \in Job
         /\ [job EXCEPT !.pc = "generate"] \in Job
         /\ [job EXCEPT !.pc = "open"] \in Job
         /\ [job EXCEPT !.pc = "load", !.whole = FALSE] \in Job
<1>1. job \in Job
  BY DEF TypeOK
<1> QED  BY <1>1 DEF Job

(* What they leave. *)
LEMMA Moves ==
  ASSUME TypeOK, ReconcileEnds \/ LoadsHeld \/ Generates \/ StepRaises \/ Dies
  PROVE  /\ UNCHANGED <<bars, check, unchecked>>
         /\ \/ job' = Idle /\ job'.pc = "idle"
            \/ /\ job'.pc \in {"load", "generate", "open"}
               /\ job'.kind = job.kind /\ job'.day = job.day /\ job'.changed = job.changed
               /\ job'.stored = job.stored /\ job'.wrote = job.wrote
               /\ job'.rebuilt = job.rebuilt
               /\ job'.pc = "open" => job.pc = "ingest" /\ StepRaises
               /\ job'.alone = job.alone
               /\ job'.whole => job.whole
               /\ job'.whole /\ job'.pc = "load" => job.pc = "check" /\ job.todo = {}
               /\ job'.pc = "generate" => job.pc = "load"
<1>1. Idle.pc = "idle"
  BY DEF Idle
<1>2. job \in Job
  BY DEF TypeOK
<1>3. CASE job' = Idle
  BY <1>1, <1>3 DEF ReconcileEnds, LoadsHeld, Generates, StepRaises, Dies
<1>4. CASE ReconcileEnds /\ job' # Idle
  BY <1>2, <1>4 DEF ReconcileEnds, Job
<1>5. CASE LoadsHeld /\ job' # Idle
  BY <1>2, <1>5 DEF LoadsHeld, Job
<1>6. CASE StepRaises /\ job' # Idle
  BY <1>2, <1>6 DEF StepRaises, Job
<1> QED  BY <1>3, <1>4, <1>5, <1>6 DEF Generates, Dies

LEMMA TypeStep == TypeOK /\ [Next]_vars => TypeOK'
<1> SUFFICES ASSUME TypeOK, [Next]_vars PROVE TypeOK'
  OBVIOUS
<1> USE ReconcileAssumption
<1>0. job \in Job /\ job.todo \subseteq Sessions /\ job.seen \in Bars \cup {"no bhavcopy"}
  BY DEF TypeOK, Job
<1>1. CASE Closes \/ MidnightPasses
  <2>1. today' \in Int
    BY <1>1 DEF TypeOK, Closes, MidnightPasses
  <2>3. closed' \in BOOLEAN
    BY <1>1, Zenon DEF Closes, MidnightPasses
  <2>2. UNCHANGED <<external, bars, stale, check, job, unchecked, owed, bounds>>
    BY <1>1 DEF Closes, MidnightPasses
  <2> QED  BY <2>1, <2>2, <2>3 DEF TypeOK, external, bounds
<1>2. CASE Publishes
  BY <1>2, SessionSets DEF TypeOK, Publishes, bounds, clock
<1>3. CASE Corrects \/ Readjusts
  <2>1. CASE Corrects
    <3>1. fyers' \in [Sessions -> Bars] /\ stale' \subseteq Sessions
      BY <2>1, SessionSets DEF Corrects, Kept, TypeOK, Bars
    <3> QED  BY <2>1, <3>1 DEF TypeOK, Corrects, clock
  <2>2. CASE Readjusts
    <3>1. PICK x \in ExDates :
            /\ fyers' = [s \in Sessions |-> IF s < x THEN "bad" ELSE fyers[s]]
            /\ stale' = stale \cup {s \in Kept : s < x}
      BY <2>2 DEF Readjusts
    <3>2. fyers' \in [Sessions -> Bars]
      BY <3>1 DEF TypeOK, Bars
    <3>3. stale' \subseteq Sessions
      BY <3>1 DEF TypeOK, Kept
    <3> QED  BY <2>2, <3>2, <3>3 DEF TypeOK, Readjusts, clock
  <2> QED  BY <1>3, <2>1, <2>2
<1>4. CASE ApiIngests
  <2>1. /\ bars' \in [Sessions -> Bars] /\ unchecked' \subseteq Sessions
        /\ stale' \subseteq Sessions /\ check' \in [Sessions -> Status]
    BY <1>4, StoresType DEF ApiIngests, Stores
  <2>2. job' \in Job
    BY <1>0, <1>4 DEF ApiIngests, Job
  <2> QED  BY <1>4, <2>1, <2>2 DEF ApiIngests, TypeOK, clock, external
<1>5. CASE StartDaily
  <2>1. job' \in Job
    BY <1>5, IdleType, SessionSets DEF StartDaily, LastTradingDay, Job
  <2> QED  BY <1>5, <2>1 DEF StartDaily, LastTradingDay, TypeOK, clock, external, bounds
<1>6. CASE StartRecheck
  <2>1. job' \in Job
    BY <1>6, IdleType DEF StartRecheck, Job, TypeOK
  <2> QED  BY <1>6, <2>1 DEF StartRecheck, TypeOK, clock, external, bounds
<1>7. CASE JobIngests
  <2>1. /\ bars' \in [Sessions -> Bars] /\ unchecked' \subseteq Sessions
        /\ stale' \subseteq Sessions /\ check' \in [Sessions -> Status]
    BY <1>7, StoresType DEF JobIngests, Stores
  <2>2. job' \in Job
    <3>1. NeedsRedownload \in BOOLEAN
      BY DEF NeedsRedownload
    <3> QED  BY <1>0, <1>7, <3>1, SessionSets DEF JobIngests, Job
  <2> QED  BY <1>7, <2>1, <2>2 DEF JobIngests, TypeOK, clock, external, bounds
<1>8. CASE Opens
  <2>1. PICK day \in Sessions :
          job' = [job EXCEPT !.pc = "check", !.day = day,
                             !.todo = {day} \cup Refetched(day) \cup OpenRows(day)]
    BY <1>8 DEF Opens, Targets
  <2>2. day \in Int /\ {day} \cup Refetched(day) \cup OpenRows(day) \subseteq Sessions
    BY SessionSets
  <2>3. job' \in Job
    BY <1>0, <2>1, <2>2 DEF Job
  <2> QED  BY <1>8, <2>3 DEF Opens, Targets, TypeOK, clock, external, bounds
<1>9. CASE ReadsDay
  <2>1. PICK d \in Sessions, fails \in BOOLEAN :
          /\ failures' = IF fails THEN failures + 1 ELSE failures
          /\ job' = [job EXCEPT !.pc = "write",
                       !.seen = IF d \in published /\ ~fails THEN bars[d] ELSE "no bhavcopy",
                       !.prev = IF d \in published /\ ~fails THEN check[d] ELSE "none"]
    BY <1>9 DEF ReadsDay, Bhavcopy
  <2>2. bars[d] \in Bars /\ check[d] \in Status /\ "none" \in Status
    BY DEF TypeOK, Status
  <2>3. job' \in Job
    BY <1>0, <2>1, <2>2 DEF Job
  <2>4. failures' \in Nat
    BY <2>1 DEF TypeOK
  <2> QED  BY <1>9, <2>3, <2>4 DEF ReadsDay, Bhavcopy, TypeOK, clock, external
<1>10. CASE WritesDay
  <2>1. PICK d \in Sessions :
          /\ check' = [check EXCEPT ![d] = Verdict(job.seen)]
          /\ bars' = IF job.seen = "off" THEN [bars EXCEPT ![d] = Patched(@)] ELSE bars
          /\ unchecked' = IF job.seen = bars[d] THEN unchecked \ {d} ELSE unchecked
          /\ owed' = (\/ owed \/ bars' # bars
                      \/ check[d] \in {"pending", "fail"} /\ check'[d] = "pass")
          /\ job' = [job EXCEPT !.pc = "check", !.todo = @ \ {d}, !.seen = "none",
                                !.prev = "none", !.changed = @ \/ Changes(job.prev, job.seen)]
    BY <1>10 DEF WritesDay, UpsertCheck
  <2>2. Verdict(job.seen) \in Status
    BY DEF Verdict, Status
  <2>3. check' \in [Sessions -> Status]
    BY <2>1, <2>2 DEF TypeOK
  <2>4. bars' \in [Sessions -> Bars]
    <3>1. Patched(bars[d]) \in Bars
      BY DEF TypeOK, Patched, Bars
    <3> QED  BY <2>1, <3>1 DEF TypeOK
  <2>5. Changes(job.prev, job.seen) \in BOOLEAN
    BY DEF Changes
  <2>6. job' \in Job
    <3>1. (job.changed \/ Changes(job.prev, job.seen)) \in BOOLEAN
      OBVIOUS
    <3>2. job.todo \ {d} \subseteq Sessions /\ "none" \in Bars /\ "none" \in Status
      BY <1>0 DEF Bars, Status
    <3> QED  BY <1>0, <2>1, <3>1, <3>2 DEF Job
  <2>7. unchecked' \subseteq Sessions /\ owed' \in BOOLEAN
    BY <2>1 DEF TypeOK
  <2> QED  BY <1>10, <2>3, <2>4, <2>6, <2>7 DEF WritesDay, UpsertCheck, TypeOK, clock, external, bounds
<1>11. CASE ReconcileEnds
  <2>1. job' \in Job
    BY <1>11, IdleType, MovesType, Zenon DEF ReconcileEnds
  <2> QED  BY <1>11, <2>1 DEF ReconcileEnds, TypeOK, clock, external, bounds
<1>12. CASE LoadsHeld
  <2>1. job' \in Job
    BY <1>12, IdleType, MovesType, Zenon DEF LoadsHeld
  <2> QED  BY <1>12, <2>1 DEF LoadsHeld, TypeOK, clock, external, bounds
<1>13. CASE Generates
  BY <1>13, IdleType DEF Generates, TypeOK, clock, external, bounds
<1>14. CASE StepRaises
  <2>1. job' \in Job
    BY <1>14, IdleType, MovesType, Zenon DEF StepRaises
  <2> QED  BY <1>14, <2>1 DEF StepRaises, TypeOK, clock, external
<1>15. CASE Dies
  BY <1>15, IdleType DEF Dies, TypeOK, clock, external
<1>16. CASE UNCHANGED vars
  BY <1>16 DEF vars, clock, external, bounds, TypeOK
<1> QED
  BY <1>1, <1>2, <1>3, <1>4, <1>5, <1>6, <1>7, <1>8, <1>9, <1>10, <1>11, <1>12, <1>13,
     <1>14, <1>15, <1>16 DEF Next, GoesOn

(* The reconcile keeps its types. *)
THEOREM TypeCorrect == Spec => []TypeOK
BY InitType, TypeStep, PTL DEF Spec

-----------------------------------------------------------------------------
(* Only closed sessions are checked.                                       *)

CheckingInv == job.pc \in {"check", "write"} => job.day \in Closed /\ job.todo \subseteq Closed

ClosedInv == OnlyClosedAreChecked /\ CheckingInv

(* A closed session stays closed. *)
LEMMA ClosedGrows == TypeOK /\ [Next]_vars => Closed \subseteq Closed'
<1> SUFFICES ASSUME TypeOK, [Next]_vars PROVE Closed \subseteq Closed'
  OBVIOUS
<1> USE ReconcileAssumption
<1>1. CASE Closes
  BY <1>1 DEF Closes, Closed
<1>2. CASE MidnightPasses
  <2>1. today' = today + 1 /\ today \in Int
    BY <1>2 DEF MidnightPasses, TypeOK
  <2>2. ASSUME NEW s \in Closed PROVE s \in Closed'
    <3>1. s \in Sessions /\ s \in Int /\ s <= today
      BY DEF Closed, TypeOK
    <3> QED  BY <2>1, <3>1 DEF Closed
  <2> QED  BY <2>2
<1>3. CASE UNCHANGED clock
  BY <1>3 DEF clock, Closed
<1>4. [Next]_vars => Closes \/ MidnightPasses \/ UNCHANGED clock
  BY DEF Next, Publishes, Corrects, Readjusts, ApiIngests, StartDaily, LastTradingDay, StartRecheck, GoesOn, JobIngests,
         Opens, ReadsDay, WritesDay, ReconcileEnds, LoadsHeld, Generates, StepRaises, Dies, vars
<1> QED  BY <1>1, <1>2, <1>3, <1>4

(* What is opened is closed. *)
LEMMA TargetsClosed ==
  ASSUME TypeOK, OnlyClosedAreChecked, NEW day \in Closed
  PROVE  {day} \cup Refetched(day) \cup OpenRows(day) \subseteq Closed
<1> USE ReconcileAssumption
<1>1. day \in Int /\ today \in Int
  BY DEF Closed, TypeOK
<1>2. ASSUME NEW d \in Sessions, d <= day PROVE d \in Closed
  <2>1. d \in Int
    OBVIOUS
  <2> QED  BY <1>1, <1>2, <2>1 DEF Closed
<1>3. \A d \in Refetched(day) \cup OpenRows(day) : d \in Sessions /\ d <= day
  BY DEF Refetched, OpenRows
<1> QED  BY <1>2, <1>3

LEMMA ClosedStep == TypeOK /\ ClosedInv /\ [Next]_vars => ClosedInv'
<1> SUFFICES ASSUME TypeOK, ClosedInv, [Next]_vars PROVE ClosedInv'
  OBVIOUS
<1>0. Closed \subseteq Closed'
  BY ClosedGrows
<1>1. CASE WritesDay
  <2>1. PICK d \in Sessions :
          /\ InHand(d)
          /\ check' = [check EXCEPT ![d] = Verdict(job.seen)]
          /\ job' = [job EXCEPT !.pc = "check", !.todo = @ \ {d}, !.seen = "none",
                                !.prev = "none", !.changed = @ \/ Changes(job.prev, job.seen)]
    BY <1>1 DEF WritesDay, UpsertCheck
  <2>2. job.pc = "write" /\ job.day \in Closed /\ job.todo \subseteq Closed
    BY <1>1 DEF WritesDay, UpsertCheck, ClosedInv, CheckingInv
  <2>3. d \in Closed
    BY <2>1, <2>2 DEF InHand
  <2>4. \A e \in Sessions : e # d => check'[e] = check[e]
    BY <2>1 DEF TypeOK
  <2>5. OnlyClosedAreChecked'
    BY <1>0, <2>3, <2>4 DEF ClosedInv, OnlyClosedAreChecked
  <2>6. job'.day = job.day /\ job'.todo \subseteq job.todo
    BY <2>1 DEF TypeOK, Job
  <2> QED  BY <1>0, <2>2, <2>5, <2>6 DEF ClosedInv, CheckingInv
<1>2. CASE ~WritesDay
  <2>1. UNCHANGED check \/ \A s \in Sessions : check'[s] \in {check[s], "none"}
    <3>1. CASE ApiIngests \/ JobIngests
      BY <3>1, StoresType DEF ApiIngests, JobIngests, Stores
    <3>2. CASE ~ApiIngests /\ ~JobIngests
      BY <1>2, <3>2 DEF Next, Closes, MidnightPasses, Publishes, Corrects, Readjusts, StartDaily,
                  LastTradingDay, StartRecheck, GoesOn, Opens, ReadsDay, ReconcileEnds,
                  LoadsHeld, Generates, StepRaises, Dies, vars
    <3> QED  BY <3>1, <3>2
  <2>2. OnlyClosedAreChecked'
    BY <1>0, <2>1 DEF ClosedInv, OnlyClosedAreChecked
  <2>3. CASE Opens
    <3>1. PICK day \in Closed :
            job' = [job EXCEPT !.pc = "check", !.day = day,
                               !.todo = {day} \cup Refetched(day) \cup OpenRows(day)]
      BY <2>3 DEF Opens, Targets, Checked
    <3>2. {day} \cup Refetched(day) \cup OpenRows(day) \subseteq Closed
      BY TargetsClosed DEF ClosedInv
    <3>3. job'.day = day /\ job'.todo = {day} \cup Refetched(day) \cup OpenRows(day)
      BY <3>1 DEF TypeOK, Job
    <3> QED  BY <1>0, <2>2, <3>2, <3>3 DEF ClosedInv, CheckingInv
  <2>4. CASE ~Opens
    <3>1. \/ job'.pc \notin {"check", "write"}
          \/ /\ job.pc \in {"check", "write"}
             /\ job'.day = job.day /\ job'.todo = job.todo
      <4>1. job \in Job
        BY DEF TypeOK
      <4>2. CASE UNCHANGED job
        BY <4>2
      <4>3. CASE ApiIngests \/ ReadsDay
        BY <4>1, <4>3 DEF ApiIngests, ReadsDay, Bhavcopy, Job
      <4>4. CASE StartDaily \/ StartRecheck \/ JobIngests
        BY <4>1, <4>4 DEF StartDaily, LastTradingDay, StartRecheck, JobIngests, Job, Idle
      <4>5. CASE ReconcileEnds \/ LoadsHeld \/ Generates \/ Dies \/ StepRaises
        BY <4>5, Moves, Zenon
      <4>7. \/ UNCHANGED job \/ ApiIngests \/ ReadsDay \/ StartDaily \/ StartRecheck \/ JobIngests
            \/ ReconcileEnds \/ LoadsHeld \/ Generates \/ Dies \/ StepRaises
        BY <1>2, <2>4 DEF Next, GoesOn, Closes, MidnightPasses, Publishes, Corrects, Readjusts, vars
      <4> QED  BY <4>2, <4>3, <4>4, <4>5, <4>7
    <3> QED  BY <1>0, <2>2, <3>1 DEF ClosedInv, CheckingInv
  <2> QED  BY <2>3, <2>4
<1> QED  BY <1>1, <1>2

(* The reconcile never writes a row for a session that has not closed. *)
THEOREM ClosedChecked == Spec => []OnlyClosedAreChecked
<1>1. Init => ClosedInv
  BY DEF Init, ClosedInv, OnlyClosedAreChecked, CheckingInv, Idle
<1>2. ClosedInv => OnlyClosedAreChecked
  BY DEF ClosedInv
<1> QED  BY <1>1, <1>2, ClosedStep, TypeCorrect, PTL DEF Spec

-----------------------------------------------------------------------------
(* Rows describe the bars that were read.                                  *)

(* What is stored differs from what was read only by another ingest. *)
SeenInv ==
  \A d \in Sessions :
    job.pc = "write" /\ InHand(d) /\ job.seen \notin {"no bhavcopy", bars[d]}
      => d \in unchecked /\ ~job.alone

RowInv == RowDescribesBars /\ SeenInv

LEMMA OneInHand ==
  ASSUME NEW d \in Sessions, NEW e \in Sessions, InHand(d), InHand(e)
  PROVE  d = e
BY ReconcileAssumption DEF InHand

(* An ingest leaves a row, or what was read, wrong only where it wrote. *)
LEMMA IngestRows ==
  ASSUME TypeOK, RowDescribesBars, Stores
  PROVE  RowDescribesBars'
BY StoresType DEF RowDescribesBars

LEMMA RowStep == TypeOK /\ RowInv /\ [Next]_vars => RowInv'
<1> SUFFICES ASSUME TypeOK, RowInv, [Next]_vars PROVE RowInv'
  OBVIOUS
<1>0. job \in Job
  BY DEF TypeOK
<1>1. CASE WritesDay
  <2>1. PICK d \in Sessions :
          /\ InHand(d)
          /\ check' = [check EXCEPT ![d] = Verdict(job.seen)]
          /\ bars' = IF job.seen = "off" THEN [bars EXCEPT ![d] = Patched(@)] ELSE bars
          /\ unchecked' = IF job.seen = bars[d] THEN unchecked \ {d} ELSE unchecked
    BY <1>1 DEF WritesDay, UpsertCheck
  <2>2. job'.pc = "check"
    BY <1>0, <1>1 DEF WritesDay, UpsertCheck, Job
  <2>3. job.pc = "write" /\ bars[d] \in Bars /\ bars[d] # "no bhavcopy"
    BY <1>1 DEF WritesDay, UpsertCheck, TypeOK, Bars
  <2>4. ASSUME NEW e \in Sessions \ unchecked'
        PROVE  /\ check'[e] = "pass" => bars'[e] = "good"
               /\ check'[e] = "fail" => bars'[e] \notin {"good", "off"}
    <3>1. CASE e # d
      <4>1. e \notin unchecked /\ check'[e] = check[e] /\ bars'[e] = bars[e]
        BY <2>1, <2>4, <3>1 DEF TypeOK
      <4> QED  BY <4>1 DEF RowInv, RowDescribesBars
    <3>2. CASE e = d /\ job.seen = "no bhavcopy"
      <4>1. check'[d] = "pending"
        BY <2>1, <3>2 DEF TypeOK, Verdict
      <4> QED  BY <3>2, <4>1
    <3>3. CASE e = d /\ job.seen # "no bhavcopy"
      <4>1. job.seen = bars[d]
        BY <2>1, <2>3, <2>4, <3>3 DEF RowInv, SeenInv
      <4>2. check'[d] = Verdict(bars[d])
        BY <2>1, <4>1 DEF TypeOK
      <4>3. bars'[d] = Patched(bars[d])
        BY <2>1, <4>1 DEF TypeOK, Patched
      <4> QED  BY <2>3, <3>3, <4>2, <4>3 DEF Verdict, Patched, Bars
    <3> QED  BY <3>1, <3>2, <3>3
  <2>5. RowDescribesBars'
    BY <2>4 DEF RowDescribesBars
  <2> QED  BY <2>2, <2>5 DEF RowInv, SeenInv
<1>2. CASE ReadsDay
  <2>1. PICK d \in Sessions :
          /\ InHand(d)
          /\ job'.seen = bars[d] \/ job'.seen = "no bhavcopy"
          /\ job'.todo = job.todo
    BY <1>0, <1>2 DEF ReadsDay, Bhavcopy, Job
  <2>2. UNCHANGED <<bars, check, unchecked>>
    BY <1>2 DEF ReadsDay, Bhavcopy
  <2>3. ASSUME NEW e \in Sessions, InHand(e)' PROVE job'.seen \in {"no bhavcopy", bars'[e]}
    <3>1. InHand(e)
      BY <2>1, <2>3 DEF InHand
    <3> QED  BY <2>1, <2>2, <3>1, OneInHand
  <2>4. SeenInv'
    BY <2>3 DEF SeenInv
  <2> QED  BY <2>2, <2>4 DEF RowInv, RowDescribesBars
<1>3. CASE ApiIngests
  <2>1. Stores
    BY <1>3 DEF ApiIngests, Stores
  <2>2. unchecked \subseteq unchecked' /\ \A s \in Sessions \ unchecked' : bars'[s] = bars[s]
    BY <2>1, StoresType
  <2>3. RowDescribesBars'
    BY <2>1, IngestRows DEF RowInv
  <2>4. /\ job'.pc = job.pc /\ job'.seen = job.seen /\ job'.todo = job.todo
        /\ job'.alone = FALSE
    BY <1>0, <1>3 DEF ApiIngests, Job
  <2>5. ASSUME NEW e \in Sessions, (job.pc = "write" /\ InHand(e))',
               job'.seen \notin {"no bhavcopy", bars'[e]}
        PROVE  e \in unchecked'
    <3>1. job.pc = "write" /\ InHand(e) /\ job.seen = job'.seen
      BY <2>4, <2>5 DEF InHand
    <3> QED  BY <2>2, <2>5, <3>1 DEF RowInv, SeenInv
  <2>6. SeenInv'
    BY <2>4, <2>5 DEF SeenInv
  <2> QED  BY <2>3, <2>6 DEF RowInv
<1>4. CASE JobIngests
  <2>1. RowDescribesBars'
    BY <1>4, IngestRows DEF JobIngests, Stores, RowInv
  <2>2. job'.pc = "open"
    BY <1>0, <1>4 DEF JobIngests, Job
  <2> QED  BY <2>1, <2>2 DEF RowInv, SeenInv
<1>5. CASE ReconcileEnds \/ LoadsHeld \/ Generates \/ StepRaises \/ Dies
  BY <1>5, Moves DEF RowInv, RowDescribesBars, SeenInv
<1>6. CASE StartDaily \/ StartRecheck \/ Opens
  <2>1. job'.pc # "write"
    BY <1>0, <1>6 DEF StartDaily, LastTradingDay, StartRecheck, Opens, Targets, Job, Idle
  <2>2. UNCHANGED <<bars, check, unchecked>>
    BY <1>6 DEF StartDaily, LastTradingDay, StartRecheck, Opens, Targets
  <2> QED  BY <2>1, <2>2 DEF RowInv, RowDescribesBars, SeenInv
<1>7. CASE UNCHANGED <<bars, check, unchecked, job>>
  BY <1>7 DEF RowInv, RowDescribesBars, SeenInv, InHand
<1>8. \/ WritesDay \/ ReadsDay \/ ApiIngests \/ JobIngests
      \/ ReconcileEnds \/ LoadsHeld \/ Generates \/ StepRaises \/ Dies
      \/ StartDaily \/ StartRecheck \/ Opens \/ UNCHANGED <<bars, check, unchecked, job>>
  BY DEF Next, GoesOn, Closes, MidnightPasses, Publishes, Corrects, Readjusts, vars
<1> QED  BY <1>1, <1>2, <1>3, <1>4, <1>5, <1>6, <1>7, <1>8

(* A row says what is stored, also if ingest runs overlap the reconcile. *)
THEOREM RowsTell == Spec => []RowDescribesBars
<1>1. Init => RowInv
  BY DEF Init, RowInv, RowDescribesBars, SeenInv, Idle
<1>2. RowInv => RowDescribesBars
  BY DEF RowInv
<1> QED  BY <1>1, <1>2, RowStep, TypeCorrect, PTL DEF Spec

-----------------------------------------------------------------------------
(* The window of the reconcile covers that of ingest.                      *)

WroteInv == \A d \in job.wrote, s \in job.stored : s - Overlap <= d

Checking == job.pc \in {"check", "write", "load", "generate"}

(* What was written and not read yet is still to do. *)
WindowInv ==
  Checking /\ job.whole /\ job.alone /\ NoneMissed =>
    \A d \in job.wrote \cap unchecked :
      d <= job.day => check[d] = "pending" \/ (job.pc \in {"check", "write"} /\ d \in job.todo)

(* A rebuild has left no row, and a row of today is of what it stored. *)
RebuiltInv ==
  job.rebuilt /\ job.alone => \A d \in unchecked : check[d] \in {"none", "pending"}

RewriteInv == WroteInv /\ WindowInv /\ RebuiltInv

LEMMA RewriteCovers == RewriteInv => RewritesAreChecked
BY DEF RewriteInv, WindowInv, RebuiltInv, RewritesAreChecked, Checking

(* Arithmetic of the two windows. *)
LEMMA WindowCovers ==
  ASSUME TypeOK, NEW day \in Sessions, NEW d \in job.wrote, NEW s \in job.stored, WroteInv,
         \A p \in Sessions : p < day => p <= s, d <= day
  PROVE  d \in Refetched(day)
<1> USE ReconcileAssumption
<1>1. d \in Sessions /\ s \in Sessions
  BY DEF TypeOK, Job
<1>2. d \in Int /\ s \in Int /\ Overlap \in Int /\ s - Overlap <= d
  <2>1. s - Overlap <= d
    BY DEF WroteInv
  <2> QED  BY <1>1, <2>1
<1>3. ASSUME NEW p \in Sessions, p < day PROVE p - Overlap <= d
  <2>1. p \in Int /\ p <= s
    BY <1>3
  <2> QED  BY <1>2, <2>1
<1> QED  BY <1>1, <1>3 DEF Refetched

LEMMA RewriteStep == TypeOK /\ SeenInv /\ RewriteInv /\ [Next]_vars => RewriteInv'
<1> SUFFICES ASSUME TypeOK, SeenInv, RewriteInv, [Next]_vars PROVE RewriteInv'
  OBVIOUS
<1> USE ReconcileAssumption
<1>0. job \in Job
  BY DEF TypeOK
<1>1. CASE JobIngests
  <2>1. job'.pc = "open" /\ job'.wrote = Incremental /\ job'.stored = Stored
    BY <1>0, <1>1 DEF JobIngests, Job
  <2>2. \A d \in Incremental, s \in Stored : s - Overlap <= d
    BY DEF Incremental
  <2>3. job'.rebuilt = NeedsRedownload
    BY <1>0, <1>1 DEF JobIngests, Job
  <2>4. NeedsRedownload => \A d \in Sessions : check'[d] = "none"
    BY <1>1 DEF JobIngests, IngestsNew, Rebuilds
  <2>5. unchecked' \subseteq Sessions
    BY <1>1, StoresType DEF JobIngests, Stores
  <2>6. RebuiltInv'
    BY <2>3, <2>4, <2>5 DEF RebuiltInv
  <2> QED  BY <2>1, <2>2, <2>6 DEF RewriteInv, WroteInv, WindowInv, Checking
<1>2. CASE Opens
  <2>1. PICK day \in Sessions :
          job' = [job EXCEPT !.pc = "check", !.day = day,
                             !.todo = {day} \cup Refetched(day) \cup OpenRows(day)]
    BY <1>2 DEF Opens, Targets
  <2>2. /\ job'.pc = "check" /\ job'.day = day /\ Refetched(day) \subseteq job'.todo
        /\ job'.wrote = job.wrote /\ job'.stored = job.stored
        /\ job'.rebuilt = job.rebuilt /\ job'.alone = job.alone
    BY <1>0, <2>1 DEF Job
  <2>3. ASSUME NoneMissed', NEW d \in job.wrote, d <= day PROVE d \in job'.todo
    <3>1. PICK s \in job.stored : \A p \in Sessions : p < day => p <= s
      BY <2>2, <2>3 DEF NoneMissed
    <3> QED  BY <2>2, <2>3, <3>1, WindowCovers DEF RewriteInv
  <2>4. WindowInv'
    BY <2>2, <2>3 DEF WindowInv, Checking
  <2>5. UNCHANGED <<check, unchecked>>
    BY <1>2 DEF Opens
  <2> QED  BY <2>2, <2>4, <2>5 DEF RewriteInv, WroteInv, RebuiltInv
<1>3. CASE ReadsDay
  <2>1. /\ job.pc = "check" /\ job'.pc = "write"
        /\ job'.day = job.day /\ job'.todo = job.todo /\ job'.whole = job.whole
        /\ job'.alone = job.alone /\ job'.wrote = job.wrote /\ job'.stored = job.stored
        /\ job'.rebuilt = job.rebuilt
    <3>1. PICK seen, prev : job' = [job EXCEPT !.pc = "write", !.seen = seen, !.prev = prev]
      BY <1>3 DEF ReadsDay
    <3> QED  BY <1>0, <1>3, <3>1 DEF ReadsDay, Job
  <2>2. UNCHANGED <<check, unchecked>>
    BY <1>3 DEF ReadsDay, Bhavcopy
  <2> QED  BY <2>1, <2>2 DEF RewriteInv, WroteInv, RebuiltInv, WindowInv, Checking, NoneMissed
<1>4. CASE WritesDay
  <2>1. PICK d \in Sessions :
          /\ InHand(d)
          /\ check' = [check EXCEPT ![d] = Verdict(job.seen)]
          /\ unchecked' = IF job.seen = bars[d] THEN unchecked \ {d} ELSE unchecked
          /\ job' = [job EXCEPT !.pc = "check", !.todo = @ \ {d}, !.seen = "none",
                                !.prev = "none", !.changed = @ \/ Changes(job.prev, job.seen)]
    BY <1>4 DEF WritesDay, UpsertCheck
  <2>2. /\ job.pc = "write" /\ job'.pc = "check" /\ job'.todo = job.todo \ {d}
        /\ job'.day = job.day /\ job'.whole = job.whole /\ job'.alone = job.alone
        /\ job'.wrote = job.wrote /\ job'.stored = job.stored
        /\ job'.rebuilt = job.rebuilt
    BY <1>0, <1>4, <2>1 DEF WritesDay, UpsertCheck, Job
  <2>3. job.alone /\ job.seen # "no bhavcopy" => d \notin unchecked'
    BY <2>1, <2>2 DEF SeenInv
  <2>4. job.seen = "no bhavcopy" => check'[d] = "pending"
    BY <2>1 DEF TypeOK, Verdict
  <2>5. \A e \in Sessions : e # d => check'[e] = check[e]
    BY <2>1 DEF TypeOK
  <2>6. ASSUME (Checking /\ job.whole /\ job.alone /\ NoneMissed)',
               NEW e \in job'.wrote \cap unchecked', e <= job'.day
        PROVE  check'[e] = "pending" \/ e \in job'.todo
    <3>1. CASE e = d
      BY <2>2, <2>3, <2>4, <2>6, <3>1
    <3>2. CASE e # d
      <4>1. e \in job.wrote \cap unchecked /\ e \in Sessions
        BY <2>1, <2>2, <2>6 DEF TypeOK
      <4>2. Checking /\ job.whole /\ job.alone /\ NoneMissed /\ e <= job.day
        BY <2>2, <2>6 DEF Checking, NoneMissed
      <4>3. check[e] = "pending" \/ e \in job.todo
        BY <4>1, <4>2 DEF RewriteInv, WindowInv
      <4> QED  BY <2>2, <2>5, <3>2, <4>1, <4>3
    <3> QED  BY <3>1, <3>2
  <2>7. WindowInv'
    BY <2>2, <2>6 DEF WindowInv
  <2>8. ASSUME (job.rebuilt /\ job.alone)', NEW e \in unchecked'
        PROVE  check'[e] \in {"none", "pending"}
    <3>1. e \in unchecked /\ e \in Sessions
      BY <2>1 DEF TypeOK
    <3>2. CASE e = d
      BY <2>2, <2>3, <2>4, <2>8, <3>2
    <3>3. CASE e # d
      BY <2>2, <2>5, <2>8, <3>1, <3>3 DEF RewriteInv, RebuiltInv
    <3> QED  BY <3>2, <3>3
  <2>9. RebuiltInv'
    BY <2>8 DEF RebuiltInv
  <2> QED  BY <2>2, <2>7, <2>9 DEF RewriteInv, WroteInv
<1>5. CASE ReconcileEnds \/ LoadsHeld \/ Generates \/ StepRaises \/ Dies
  <2>1. CASE job' = Idle
    BY <2>1 DEF Idle, RewriteInv, WroteInv, WindowInv, RebuiltInv, Checking
  <2>2. CASE job' # Idle
    BY <1>5, <2>2, Moves DEF RewriteInv, WroteInv, WindowInv, RebuiltInv, Checking, NoneMissed, Idle
  <2> QED  BY <2>1, <2>2
<1>6. CASE ApiIngests
  <2>1. job'.alone = FALSE /\ job'.wrote = job.wrote /\ job'.stored = job.stored
    BY <1>0, <1>6 DEF ApiIngests, Job
  <2> QED  BY <2>1 DEF RewriteInv, WroteInv, WindowInv, RebuiltInv
<1>7. CASE StartDaily \/ StartRecheck
  <2>1. job'.wrote = {} /\ job'.pc \in {"ingest", "open"} /\ ~job'.rebuilt
    BY <1>7 DEF StartDaily, LastTradingDay, StartRecheck, Idle
  <2> QED  BY <2>1 DEF RewriteInv, WroteInv, WindowInv, RebuiltInv, Checking
<1>8. CASE UNCHANGED <<check, unchecked, job>>
  BY <1>8 DEF RewriteInv, WroteInv, WindowInv, RebuiltInv, Checking, NoneMissed
<1>9. \/ JobIngests \/ Opens \/ ReadsDay \/ WritesDay
      \/ ReconcileEnds \/ LoadsHeld \/ Generates \/ StepRaises \/ Dies
      \/ ApiIngests \/ StartDaily \/ StartRecheck \/ UNCHANGED <<check, unchecked, job>>
  BY DEF Next, GoesOn, Closes, MidnightPasses, Publishes, Corrects, Readjusts, vars
<1> QED  BY <1>1, <1>2, <1>3, <1>4, <1>5, <1>6, <1>7, <1>8, <1>9

(* What the job's ingest wrote is checked before signals, for any calendar, *)
(* any overlap, and whenever the session closes while the job runs; what    *)
(* only a rebuild wrote has no row.                                         *)
THEOREM RewritesChecked == Spec => []RewritesAreChecked
<1>1. Init => RewriteInv /\ RowInv
  BY DEF Init, RewriteInv, WroteInv, WindowInv, RebuiltInv, Checking, Idle, RowInv, RowDescribesBars, SeenInv
<1>2. RowInv => SeenInv
  BY DEF RowInv
<1> QED  BY <1>1, <1>2, RowStep, RewriteStep, RewriteCovers, TypeCorrect, PTL DEF Spec

-----------------------------------------------------------------------------
(* Changes reach signals.                                                  *)

(* The row is as it was read, or a rebuild has deleted it. *)
PrevInv ==
  job.pc = "write" /\ job.seen # "no bhavcopy" =>
    \A d \in Sessions : InHand(d) => check[d] \in {job.prev, "none"}

LEMMA PrevStep == TypeOK /\ PrevInv /\ [Next]_vars => PrevInv'
<1> SUFFICES ASSUME TypeOK, PrevInv, [Next]_vars PROVE PrevInv'
  OBVIOUS
<1>0. job \in Job
  BY DEF TypeOK
<1>1. CASE ReadsDay
  <2>1. PICK d \in Sessions :
          /\ InHand(d) /\ job'.todo = job.todo
          /\ job'.seen = "no bhavcopy" \/ job'.prev = check[d]
    BY <1>0, <1>1 DEF ReadsDay, Bhavcopy, Job
  <2>2. check' = check
    BY <1>1 DEF ReadsDay
  <2>3. \A e \in Sessions : InHand(e)' => e = d
    BY <2>1, OneInHand DEF InHand
  <2> QED  BY <2>1, <2>2, <2>3 DEF PrevInv
<1>2. CASE ApiIngests
  <2>1. /\ job'.pc = job.pc /\ job'.seen = job.seen /\ job'.todo = job.todo
        /\ job'.prev = job.prev
    BY <1>0, <1>2 DEF ApiIngests, Job
  <2>2. \A s \in Sessions : check'[s] \in {check[s], "none"}
    BY <1>2, StoresType DEF ApiIngests, Stores
  <2> QED  BY <2>1, <2>2 DEF PrevInv, InHand
<1>3. CASE ReconcileEnds \/ LoadsHeld \/ Generates \/ StepRaises \/ Dies
  BY <1>3, Moves DEF PrevInv
<1>4. CASE StartDaily \/ StartRecheck \/ Opens \/ JobIngests \/ WritesDay
  <2>1. job'.pc # "write"
    BY <1>0, <1>4 DEF StartDaily, LastTradingDay, StartRecheck, Opens, JobIngests, WritesDay, Job, Idle
  <2> QED  BY <2>1 DEF PrevInv
<1>5. CASE UNCHANGED <<check, job>>
  BY <1>5 DEF PrevInv, InHand
<1>6. \/ ReadsDay \/ ApiIngests \/ ReconcileEnds \/ LoadsHeld \/ Generates \/ StepRaises \/ Dies
      \/ StartDaily \/ StartRecheck \/ Opens \/ JobIngests \/ WritesDay \/ UNCHANGED <<check, job>>
  BY DEF Next, GoesOn, Closes, MidnightPasses, Publishes, Corrects, Readjusts, vars
<1> QED  BY <1>1, <1>2, <1>3, <1>4, <1>5, <1>6

OwedInv ==
  failures = 0 =>
    /\ job.pc \in {"idle", "ingest", "open"} => ~owed
    /\ job.pc \in {"check", "write"} => (owed => job.changed)

LEMMA OwedStep == TypeOK /\ PrevInv /\ OwedInv /\ [Next]_vars => OwedInv'
<1> SUFFICES ASSUME TypeOK, PrevInv, OwedInv, [Next]_vars, failures' = 0
             PROVE  /\ job'.pc \in {"idle", "ingest", "open"} => ~owed'
                    /\ job'.pc \in {"check", "write"} => (owed' => job'.changed)
  BY DEF OwedInv
<1>0. job \in Job /\ failures \in Nat
  BY DEF TypeOK
<1>1. CASE WritesDay
  <2>1. PICK d \in Sessions :
          /\ InHand(d)
          /\ check' = [check EXCEPT ![d] = Verdict(job.seen)]
          /\ bars' = IF job.seen = "off" THEN [bars EXCEPT ![d] = Patched(@)] ELSE bars
          /\ owed' = (\/ owed \/ bars' # bars
                      \/ check[d] \in {"pending", "fail"} /\ check'[d] = "pass")
          /\ job' = [job EXCEPT !.pc = "check", !.todo = @ \ {d}, !.seen = "none",
                                !.prev = "none", !.changed = @ \/ Changes(job.prev, job.seen)]
    BY <1>1 DEF WritesDay, UpsertCheck
  <2>2. job.pc = "write" /\ failures = 0 /\ (owed => job.changed)
    BY <1>1 DEF WritesDay, UpsertCheck, OwedInv, bounds
  <2>3. bars' # bars => Changes(job.prev, job.seen)
    BY <2>1 DEF Changes
  <2>4. check[d] \in {"pending", "fail"} /\ check'[d] = "pass" => Changes(job.prev, job.seen)
    <3>1. check'[d] = Verdict(job.seen)
      BY <2>1 DEF TypeOK
    <3>2. check'[d] = "pass" => check[d] \in {job.prev, "none"}
      <4>1. check'[d] = "pass" => job.seen # "no bhavcopy"
        BY <3>1 DEF Verdict
      <4>2. job.seen # "no bhavcopy" => check[d] \in {job.prev, "none"}
        BY <2>1, <2>2 DEF PrevInv
      <4> QED  BY <4>1, <4>2
    <3>3. ASSUME check[d] \in {"pending", "fail"}, check'[d] = "pass"
          PROVE  Changes(job.prev, job.seen)
      <4>1. job.prev \in {"pending", "fail"} /\ Verdict(job.seen) = "pass"
        BY <3>1, <3>2, <3>3
      <4> QED  BY <4>1 DEF Changes
    <3> QED  BY <3>3
  <2>5. job'.changed = (job.changed \/ Changes(job.prev, job.seen)) /\ job'.pc = "check"
    BY <1>0, <2>1 DEF Job
  <2> QED  BY <2>1, <2>2, <2>3, <2>4, <2>5
<1>2. CASE ReadsDay
  <2>1. failures = 0
    BY <1>0, <1>2 DEF ReadsDay, Bhavcopy
  <2>2. job.pc = "check" /\ job'.pc = "write" /\ job'.changed = job.changed /\ owed' = owed
    BY <1>0, <1>2 DEF ReadsDay, Bhavcopy, Job
  <2> QED  BY <2>1, <2>2 DEF OwedInv
<1>3. CASE ReconcileEnds
  <2>1. failures = 0 /\ owed' = owed /\ job.pc = "check"
    BY <1>3 DEF ReconcileEnds, bounds
  <2>2. job'.pc = "load" \/ ~job.changed
    BY <1>0, <1>3 DEF ReconcileEnds, GoesToSignals, Job
  <2>3. owed => job.changed
    BY <2>1 DEF OwedInv
  <2>4. job'.pc \notin {"check", "write"}
    BY <1>3, Moves
  <2> QED  BY <2>1, <2>2, <2>3, <2>4
<1>4. CASE LoadsHeld \/ Generates
  <2>1. \/ ~owed' /\ job'.pc = "idle"
        \/ job'.pc = "generate"
    <3>1. Idle.pc = "idle" /\ [job EXCEPT !.pc = "generate"].pc = "generate"
      BY <1>0 DEF Idle, Job
    <3> QED  BY <1>4, <3>1, Zenon DEF LoadsHeld, Generates
  <2> QED  BY <2>1
<1>5. CASE StepRaises \/ Dies
  BY <1>0, <1>5 DEF StepRaises, Dies
<1>6. CASE StartDaily \/ StartRecheck \/ JobIngests \/ Opens
  <2>1. failures = 0 /\ owed' = owed /\ job.pc \in {"idle", "ingest", "open"}
    BY <1>6 DEF StartDaily, LastTradingDay, StartRecheck, JobIngests, Opens, Targets, bounds
  <2> QED  BY <2>1 DEF OwedInv
<1>7. CASE ApiIngests
  <2>1. failures = 0 /\ owed' = owed /\ job'.pc = job.pc /\ job'.changed = job.changed
    BY <1>0, <1>7 DEF ApiIngests, Job
  <2> QED  BY <2>1 DEF OwedInv
<1>8. CASE UNCHANGED <<job, owed, failures>>
  BY <1>8 DEF OwedInv
<1>9. \/ WritesDay \/ ReadsDay \/ ReconcileEnds \/ LoadsHeld \/ Generates \/ StepRaises \/ Dies
      \/ StartDaily \/ StartRecheck \/ JobIngests \/ Opens \/ ApiIngests
      \/ UNCHANGED <<job, owed, failures>>
  BY DEF Next, GoesOn, Closes, MidnightPasses, Publishes, Corrects, Readjusts, vars, bounds
<1> QED  BY <1>1, <1>2, <1>3, <1>4, <1>5, <1>6, <1>7, <1>8, <1>9

(* No job ends with a change of its own that it has not brought to signals. *)
THEOREM ChangesReachSignals == Spec => []NothingStaysOwed
<1>1. Init => OwedInv /\ PrevInv
  BY DEF Init, OwedInv, PrevInv, Idle
<1>2. OwedInv => NothingStaysOwed
  BY DEF OwedInv, NothingStaysOwed
<1> QED  BY <1>1, <1>2, OwedStep, PrevStep, TypeCorrect, PTL DEF Spec
=============================================================================
