----------------------------- MODULE RunsProofs -----------------------------
(* The rows of ingest_runs tell what was done, for any number of runs,      *)
(* requests, symbols, jobs and deaths (Runs).  The candles those runs store *)
(* have no gap and are not lost, for any calendar, setting and requests     *)
(* (Ingest).                                                                *)
EXTENDS Runs, Ingest, SequenceTheorems, FiniteSetTheorems, NaturalsInduction, TLAPS

(* The counters of the row x and what the function call w has done. *)
Counted(x, w) ==
  /\ w.good <= w.tried
  /\ w.pc = "working" => x.total = Symbols
  /\ x.mode \in LiveModes => x.ok = w.good /\ x.failed = w.tried - w.good
  /\ w.pc = "over" => DbErrors \/ x.status # "running"
  /\ x.status = "completed" =>
       /\ w.pc = "over" /\ w.tried = Symbols /\ x.total = Symbols
       /\ x.ok = w.good /\ x.failed = Symbols - w.good

(* A job that waits for a run is at a step that has one, and has reported   *)
(* of every step before.                                                    *)
JobInv ==
  /\ Len(job.report) = job.next - 1
  /\ job.waits # 0 => job.next <= Len(job.plan) /\ Step # "reap"

RunInv == \A r \in Runs : Counted(rows[r], work[r])

IInv == TypeOK /\ RunInv /\ JobInv

-----------------------------------------------------------------------------
(* What changes.                                                           *)

(* Only row and call of the run r change, and only a call that is active   *)
(* changes its row.                                                        *)
OneRun(r) ==
  /\ rows' \in Seq(Row) /\ Len(rows') = Len(rows)
  /\ work' \in Seq(Call) /\ Len(work') = Len(work)
  /\ \A i \in Runs \ {r} : rows'[i] = rows[i] /\ work'[i] = work[i]
  /\ rows'[r].by = rows[r].by
  /\ Active(r) /\ Counted(rows'[r], work'[r])
  /\ rows[r].status # "running" => rows'[r].status # "running"
  /\ UNCHANGED <<checked, stale, job, deaths>>

(* One row and one call are replaced. *)
LEMMA ReplaceOne ==
  ASSUME TypeOK, NEW r \in Runs, NEW x \in Row, NEW w \in Call, Active(r),
         rows' = [rows EXCEPT ![r] = x], work' = [work EXCEPT ![r] = w],
         x.by = rows[r].by, Counted(x, w),
         rows[r].status # "running" => x.status # "running",
         UNCHANGED <<checked, stale, job, deaths>>
  PROVE  OneRun(r)
<1>1. rows \in Seq(Row) /\ work \in Seq(Call) /\ Len(work) = Len(rows) /\ r \in 1..Len(rows)
  BY DEF TypeOK, Runs
<1>2. rows' \in Seq(Row) /\ Len(rows') = Len(rows) /\ work' \in Seq(Call) /\ Len(work') = Len(work)
  BY <1>1, ExceptSeq
<1>3. rows'[r] = x /\ work'[r] = w
      /\ \A i \in Runs \ {r} : rows'[i] = rows[i] /\ work'[i] = work[i]
  BY <1>1 DEF Runs
<1> QED  BY <1>2, <1>3 DEF OneRun

(* What every worker does. *)
LEMMA WorkerStep ==
  ASSUME RunsAssumption, TypeOK, RunInv, NEW r \in Runs, Worker(r)
  PROVE  OneRun(r)
<1> DEFINE x == rows[r]
           w == work[r]
<1>1. x \in Row /\ w \in Call /\ Counted(x, w)
  BY DEF TypeOK, RunInv, Runs
<1>2. Symbols \in Nat
  BY DEF RunsAssumption
<1>0. rows \in Seq(Row) /\ work \in Seq(Call)
  BY DEF TypeOK
<1>3. CASE Begin(r)
  <2> DEFINE nx == [x EXCEPT !.total = Symbols]
             nw == [w EXCEPT !.pc = "working"]
  <2>1. nx \in Row /\ nw \in Call
    BY <1>1, <1>2 DEF Row, Call
  <2>2. Counted(nx, nw)
    BY <1>1, <1>2, <1>3 DEF Counted, Row, Call, Begin
  <2>3. nx.by = x.by /\ nx.status = x.status
    BY <1>1 DEF Row
  <2>4. rows' = [rows EXCEPT ![r] = nx] /\ work' = [work EXCEPT ![r] = nw]
    BY <1>3 DEF Begin
  <2>5. Active(r) /\ UNCHANGED <<checked, stale, job, deaths>>
    BY <1>3 DEF Begin, Active
  <2> HIDE DEF nx, nw
  <2> QED  BY <2>1, <2>2, <2>3, <2>4, <2>5, ReplaceOne
<1>4. CASE SymbolOk(r)
  <2> DEFINE nx == IF x.mode \in LiveModes THEN [x EXCEPT !.ok = @ + 1] ELSE x
             nw == [w EXCEPT !.tried = @ + 1, !.good = @ + 1]
  <2>1. Active(r) /\ UNCHANGED <<checked, stale, job, deaths>>
    BY <1>4 DEF SymbolOk, Active, Working
  <2>2. w.pc = "working" /\ w.tried < Symbols
    BY <1>4 DEF SymbolOk, Working
  <2>3. nx \in Row /\ nw \in Call
    <3>1. w.tried + 1 \in 0..Symbols /\ w.good + 1 \in 0..Symbols
      BY <1>1, <1>2, <2>2 DEF Call, Counted
    <3>2. x.mode \in LiveModes => x.ok + 1 \in 0..Symbols
      BY <1>1, <1>2, <2>2 DEF Row, Call, Counted
    <3>3. x.mode \in LiveModes => [x EXCEPT !.ok = @ + 1] \in Row
      BY <1>1, <3>2 DEF Row
    <3>4. nw \in Call
      BY <1>1, <3>1 DEF Call
    <3> QED  BY <1>1, <3>3, <3>4
  <2>4. Counted(nx, nw)
    BY <1>1, <1>2, <1>4, <2>2 DEF Counted, Row, Call, SymbolOk
  <2>5. nx.by = x.by /\ (x.status # "running" => nx.status # "running")
    BY <1>1 DEF Row
  <2>6. rows' = [rows EXCEPT ![r] = nx]
    <3>1. CASE x.mode \in LiveModes
      BY <1>4, <3>1 DEF SymbolOk
    <3>2. CASE x.mode \notin LiveModes
      <4>1. [rows EXCEPT ![r] = x] = rows
        BY <1>0 DEF Runs
      <4> QED  BY <1>4, <3>2, <4>1 DEF SymbolOk
    <3> QED  BY <3>1, <3>2
  <2>7. work' = [work EXCEPT ![r] = nw]
    BY <1>4, <1>0 DEF SymbolOk, Runs
  <2> HIDE DEF nx, nw
  <2> QED  BY <1>1, <2>1, <2>3, <2>4, <2>5, <2>6, <2>7, ReplaceOne
<1>5. CASE SymbolFails(r)
  <2> DEFINE nx == IF x.mode \in LiveModes THEN [x EXCEPT !.failed = @ + 1] ELSE x
             nw == [w EXCEPT !.tried = @ + 1]
  <2>1. Active(r) /\ UNCHANGED <<checked, stale, job, deaths>>
    BY <1>5 DEF SymbolFails, Active, Working
  <2>2. w.pc = "working" /\ w.tried < Symbols
    BY <1>5 DEF SymbolFails, Working
  <2>3. nx \in Row /\ nw \in Call
    <3>1. w.tried + 1 \in 0..Symbols /\ w.good + 1 \in 0..Symbols
      BY <1>1, <1>2, <2>2 DEF Call, Counted
    <3>2. x.mode \in LiveModes => x.failed + 1 \in 0..Symbols
      BY <1>1, <1>2, <2>2 DEF Row, Call, Counted
    <3>3. x.mode \in LiveModes => [x EXCEPT !.failed = @ + 1] \in Row
      BY <1>1, <3>2 DEF Row
    <3>4. nw \in Call
      BY <1>1, <3>1 DEF Call
    <3> QED  BY <1>1, <3>3, <3>4
  <2>4. Counted(nx, nw)
    BY <1>1, <1>2, <1>5, <2>2 DEF Counted, Row, Call, SymbolFails
  <2>5. nx.by = x.by /\ (x.status # "running" => nx.status # "running")
    BY <1>1 DEF Row
  <2>6. rows' = [rows EXCEPT ![r] = nx]
    <3>1. CASE x.mode \in LiveModes
      BY <1>5, <3>1 DEF SymbolFails
    <3>2. CASE x.mode \notin LiveModes
      <4>1. [rows EXCEPT ![r] = x] = rows
        BY <1>0 DEF Runs
      <4> QED  BY <1>5, <3>2, <4>1 DEF SymbolFails
    <3> QED  BY <3>1, <3>2
  <2>7. work' = [work EXCEPT ![r] = nw]
    BY <1>5, <1>0 DEF SymbolFails, Runs
  <2> HIDE DEF nx, nw
  <2> QED  BY <1>1, <2>1, <2>3, <2>4, <2>5, <2>6, <2>7, ReplaceOne
<1>6. CASE StatementFails(r)
  <2> DEFINE nx == x
             nw == [w EXCEPT !.pc = "over"]
  <2>1. Active(r) /\ UNCHANGED <<checked, stale, job, deaths>> /\ DbErrors
    BY <1>6 DEF StatementFails
  <2>2. w.pc \in {"queued", "working"}
    BY <2>1 DEF Active
  <2>3. nx \in Row /\ nw \in Call
    BY <1>1, <1>2, <2>2 DEF Row, Call, Counted
  <2>4. Counted(nx, nw)
    BY <1>1, <1>2, <2>1, <2>2 DEF Counted, Row, Call
  <2>5. nx.by = x.by /\ (x.status # "running" => nx.status # "running")
    BY <1>1 DEF Row
  <2>6. rows' = [rows EXCEPT ![r] = nx]
    BY <1>6, <1>0 DEF StatementFails, Runs
  <2>7. work' = [work EXCEPT ![r] = nw]
    BY <1>6, <1>0 DEF StatementFails, Runs
  <2> HIDE DEF nx, nw
  <2> QED  BY <1>1, <2>1, <2>3, <2>4, <2>5, <2>6, <2>7, ReplaceOne
<1>7. CASE Finish(r)
  <2> DEFINE nx == [x EXCEPT !.status = "completed"]
             nw == [w EXCEPT !.pc = "over", !.outcome = "completed"]
  <2>1. Active(r) /\ UNCHANGED <<checked, stale, job, deaths>>
    BY <1>7 DEF Finish, Active, Working, End
  <2>2. w.pc = "working"
    BY <1>7 DEF Finish, Working, End
  <2>3. nx \in Row /\ nw \in Call
    BY <1>1, <1>2, <2>2 DEF Row, Call, Counted
  <2>4. Counted(nx, nw)
    BY <1>1, <1>2, <1>7, <2>2 DEF Counted, Row, Call, Finish, End
  <2>5. nx.by = x.by /\ (x.status # "running" => nx.status # "running")
    BY <1>1 DEF Row
  <2>6. rows' = [rows EXCEPT ![r] = nx]
    BY <1>7, <1>0 DEF Finish, Runs, End
  <2>7. work' = [work EXCEPT ![r] = nw]
    BY <1>7, <1>0 DEF Finish, Runs, End
  <2> HIDE DEF nx, nw
  <2> QED  BY <1>1, <2>1, <2>3, <2>4, <2>5, <2>6, <2>7, ReplaceOne
<1>8. CASE FinishStep(r)
  <2> DEFINE nx == [x EXCEPT !.status = "completed", !.ok = w.good, !.failed = Symbols - w.good]
             nw == [w EXCEPT !.pc = "over", !.outcome = "completed"]
  <2>1. Active(r) /\ UNCHANGED <<checked, stale, job, deaths>>
    BY <1>8 DEF FinishStep, Active, Working, End
  <2>2. w.pc = "working"
    BY <1>8 DEF FinishStep, Working, End
  <2>3. nx \in Row /\ nw \in Call
    <3>1. w.good \in 0..Symbols /\ Symbols - w.good \in 0..Symbols
      BY <1>1, <1>2 DEF Call
    <3>2. nx \in Row
      BY <1>1, <3>1 DEF Row
    <3>3. nw \in Call
      BY <1>1 DEF Call
    <3> QED  BY <3>2, <3>3
  <2>4. Counted(nx, nw)
    BY <1>1, <1>2, <1>8, <2>2 DEF Counted, Row, Call, FinishStep, End
  <2>5. nx.by = x.by /\ (x.status # "running" => nx.status # "running")
    BY <1>1 DEF Row
  <2>6. rows' = [rows EXCEPT ![r] = nx]
    BY <1>8, <1>0 DEF FinishStep, Runs, End
  <2>7. work' = [work EXCEPT ![r] = nw]
    BY <1>8, <1>0 DEF FinishStep, Runs, End
  <2> HIDE DEF nx, nw
  <2> QED  BY <1>1, <2>1, <2>3, <2>4, <2>5, <2>6, <2>7, ReplaceOne
<1>9. CASE Fail(r)
  <2> DEFINE nx == [x EXCEPT !.status = "failed"]
             nw == [w EXCEPT !.pc = "over", !.outcome = "failed"]
  <2>1. Active(r) /\ UNCHANGED <<checked, stale, job, deaths>>
    BY <1>9 DEF Fail, Active, Working, End
  <2>2. w.pc = "working"
    BY <1>9 DEF Fail, Working, End
  <2>3. nx \in Row /\ nw \in Call
    BY <1>1, <1>2, <2>2 DEF Row, Call, Counted
  <2>4. Counted(nx, nw)
    BY <1>1, <1>2, <1>9, <2>2 DEF Counted, Row, Call, Fail, End
  <2>5. nx.by = x.by /\ (x.status # "running" => nx.status # "running")
    BY <1>1 DEF Row
  <2>6. rows' = [rows EXCEPT ![r] = nx]
    BY <1>9, <1>0 DEF Fail, Runs, End
  <2>7. work' = [work EXCEPT ![r] = nw]
    BY <1>9, <1>0 DEF Fail, Runs, End
  <2> HIDE DEF nx, nw
  <2> QED  BY <1>1, <2>1, <2>3, <2>4, <2>5, <2>6, <2>7, ReplaceOne
<1>10. LoginLost(r) \/ Crash(r) => Fail(r)
  BY DEF LoginLost, Crash
<1> QED  BY <1>3, <1>4, <1>5, <1>6, <1>7, <1>8, <1>9, <1>10 DEF Worker

-----------------------------------------------------------------------------
(* The other steps that change rows or calls.                              *)

(* A function on the runs is a sequence as long as the rows. *)
LEMMA SeqOfRuns ==
  ASSUME TypeOK, NEW S, NEW f \in [Runs -> S]
  PROVE  f \in Seq(S) /\ Len(f) = Len(rows)
<1>1. Len(rows) \in Nat /\ Runs = 1..Len(rows)
  BY DEF TypeOK, Runs
<1>2. f \in [1..Len(rows) -> S] /\ DOMAIN f = 1..Len(rows)
  BY <1>1
<1>3. f \in Seq(S)
  BY <1>1, <1>2, SeqDef
<1> QED  BY <1>1, <1>2, <1>3, LenProperties

(* A new row and its call are appended; the others stay as they are. *)
LEMMA InsertStep ==
  ASSUME RunsAssumption, TypeOK, RunInv,
         NEW m \in Modes, NEW by \in {"api", "job"}, Insert(m, by)
  PROVE  /\ rows' \in Seq(Row) /\ work' \in Seq(Call)
         /\ Len(rows') = Len(rows) + 1 /\ Len(work') = Len(rows')
         /\ \A i \in Runs : rows'[i] = rows[i] /\ work'[i] = work[i]
         /\ rows'[Len(rows) + 1] = NewRow(m, by) /\ work'[Len(rows) + 1] = NewCall
         /\ RunInv'
<1>1. Symbols \in Nat /\ StaleAfter \in Nat
  BY DEF RunsAssumption
<1>2. rows \in Seq(Row) /\ work \in Seq(Call) /\ Len(work) = Len(rows) /\ Len(rows) \in Nat
  BY DEF TypeOK
<1>3. NewRow(m, by) \in Row /\ NewCall \in Call
  BY <1>1 DEF NewRow, NewCall, Row, Call
<1>4. Counted(NewRow(m, by), NewCall)
  BY <1>1 DEF NewRow, NewCall, Counted
<1> HIDE DEF NewRow, NewCall
<1>5. rows' = Append(rows, NewRow(m, by)) /\ work' = Append(work, NewCall)
  BY DEF Insert
<1>6. rows' \in Seq(Row) /\ Len(rows') = Len(rows) + 1
      /\ rows'[Len(rows) + 1] = NewRow(m, by)
      /\ \A i \in 1..Len(rows) : rows'[i] = rows[i]
  BY <1>2, <1>3, <1>5, AppendProperties
<1>7. work' \in Seq(Call) /\ Len(work') = Len(rows) + 1
      /\ work'[Len(rows) + 1] = NewCall
      /\ \A i \in 1..Len(rows) : work'[i] = work[i]
  BY <1>2, <1>3, <1>5, AppendProperties
<1>8. RunInv'
  <2> SUFFICES ASSUME NEW i \in 1..Len(rows')  PROVE Counted(rows'[i], work'[i])
    BY DEF RunInv, Runs
  <2>1. i \in 1..Len(rows) \/ i = Len(rows) + 1
    BY <1>2, <1>6
  <2>2. CASE i \in 1..Len(rows)
    BY <2>2, <1>6, <1>7 DEF RunInv, Runs
  <2>3. CASE i = Len(rows) + 1
    BY <2>3, <1>4, <1>6, <1>7
  <2> QED  BY <2>1, <2>2, <2>3
<1> QED  BY <1>2, <1>6, <1>7, <1>8 DEF Runs

(* The calls of a process that dies are killed; the rows stay. *)
LEMMA KilledStep ==
  ASSUME TypeOK, RunInv, NEW by, work' = Killed(by), UNCHANGED rows
  PROVE  /\ work' \in Seq(Call) /\ Len(work') = Len(rows')
         /\ \A i \in Runs : work'[i] = work[i] \/ work'[i].pc = "killed"
         /\ RunInv'
<1>1. rows \in Seq(Row) /\ work \in Seq(Call) /\ Len(work) = Len(rows)
  BY DEF TypeOK
<1>2. ASSUME NEW i \in Runs  PROVE [work[i] EXCEPT !.pc = "killed"] \in Call
  <2>1. work[i] \in Call
    BY <1>1 DEF Runs
  <2> QED  BY <2>1 DEF Call
<1>3. work' \in [Runs -> Call]
  BY <1>1, <1>2 DEF Killed, Runs
<1>4. work' \in Seq(Call) /\ Len(work') = Len(rows)
  BY <1>3, SeqOfRuns
<1>5. ASSUME NEW i \in Runs
      PROVE  (work'[i] = work[i] \/ work'[i].pc = "killed") /\ Counted(rows[i], work'[i])
  <2>1. rows[i] \in Row /\ work[i] \in Call /\ Counted(rows[i], work[i])
    BY <1>1 DEF Runs, RunInv
  <2>2. CASE rows[i].by = by /\ work[i].pc \in {"queued", "working"}
    <3>1. work'[i] = [work[i] EXCEPT !.pc = "killed"]
      BY <2>2 DEF Killed
    <3> QED  BY <2>1, <2>2, <3>1 DEF Counted, Row, Call
  <2>3. CASE ~(rows[i].by = by /\ work[i].pc \in {"queued", "working"})
    <3>1. work'[i] = work[i]
      BY <2>3 DEF Killed
    <3> QED  BY <2>1, <3>1
  <2> QED  BY <2>2, <2>3
<1>6. RunInv'
  BY <1>5 DEF RunInv, Runs
<1> QED  BY <1>4, <1>5, <1>6

(* The reaper writes "failed" over the status of the rows it selected. *)
LEMMA ReapStep ==
  ASSUME TypeOK, RunInv, JobReaps
  PROVE  /\ rows' \in Seq(Row) /\ Len(rows') = Len(rows)
         /\ \A i \in Runs : /\ rows'[i].by = rows[i].by
                            /\ rows'[i].status \in {rows[i].status, "failed"}
         /\ RunInv'
<1>1. rows \in Seq(Row) /\ work \in Seq(Call) /\ Len(work) = Len(rows) /\ work' = work
  BY DEF TypeOK, JobReaps
<1>2. ASSUME NEW i \in Runs
      PROVE  /\ rows'[i] \in Row /\ Counted(rows'[i], work[i])
             /\ rows'[i].by = rows[i].by
             /\ rows'[i].status \in {rows[i].status, "failed"}
  <2>1. rows[i] \in Row /\ work[i] \in Call /\ Counted(rows[i], work[i])
    BY <1>1 DEF Runs, RunInv
  <2>2. rows'[i] = [rows[i] EXCEPT !.status = "failed"] \/ rows'[i] = rows[i]
    BY DEF JobReaps
  <2>3. CASE rows'[i] = [rows[i] EXCEPT !.status = "failed"]
    BY <2>1, <2>3 DEF Row, Call, Counted
  <2>4. CASE rows'[i] = rows[i]
    BY <2>1, <2>4
  <2> QED  BY <2>2, <2>3, <2>4
<1>3. rows' \in [Runs -> Row]
  BY <1>2 DEF JobReaps
<1>4. rows' \in Seq(Row) /\ Len(rows') = Len(rows)
  BY <1>3, SeqOfRuns
<1>5. RunInv'
  BY <1>1, <1>2, <1>4 DEF RunInv, Runs
<1> QED  BY <1>2, <1>4, <1>5

(* An hour only changes the age of rows. *)
LEMMA HourStep ==
  ASSUME RunsAssumption, TypeOK, RunInv, HourPasses
  PROVE  /\ rows' \in Seq(Row) /\ Len(rows') = Len(rows)
         /\ \A i \in Runs : rows'[i].by = rows[i].by /\ rows'[i].status = rows[i].status
         /\ RunInv'
<1>1. rows \in Seq(Row) /\ work \in Seq(Call) /\ Len(work) = Len(rows) /\ work' = work
      /\ StaleAfter \in Nat
  BY DEF TypeOK, HourPasses, RunsAssumption
<1>2. ASSUME NEW i \in Runs
      PROVE  /\ rows'[i] \in Row /\ Counted(rows'[i], work[i])
             /\ rows'[i].by = rows[i].by /\ rows'[i].status = rows[i].status
  <2>1. rows[i] \in Row /\ work[i] \in Call /\ Counted(rows[i], work[i])
    BY <1>1 DEF Runs, RunInv
  <2>2. CASE i \in Running /\ rows[i].age <= StaleAfter
    <3>1. rows'[i] = [rows[i] EXCEPT !.age = @ + 1]
      BY <2>2 DEF HourPasses
    <3>2. rows[i].age + 1 \in 0..(StaleAfter + 1)
      <4>1. rows[i].age \in 0..(StaleAfter + 1)
        BY <2>1 DEF Row
      <4> QED  BY <1>1, <2>2, <4>1
    <3> QED  BY <2>1, <3>1, <3>2 DEF Row, Call, Counted
  <2>3. CASE ~(i \in Running /\ rows[i].age <= StaleAfter)
    <3>1. rows'[i] = rows[i]
      BY <2>3 DEF HourPasses
    <3> QED  BY <2>1, <3>1
  <2> QED  BY <2>2, <2>3
<1>3. rows' \in [Runs -> Row]
  BY <1>2 DEF HourPasses
<1>4. rows' \in Seq(Row) /\ Len(rows') = Len(rows)
  BY <1>3, SeqOfRuns
<1>5. RunInv'
  BY <1>1, <1>2, <1>4 DEF RunInv, Runs
<1> QED  BY <1>2, <1>4, <1>5

-----------------------------------------------------------------------------
(* The inductive invariant.                                                *)

(* parse_steps gives a list of steps. *)
LEMMA PlanIsSteps ==
  ASSUME NEW wanted  PROVE Plan(wanted) \in Seq(Steps)
<1> DEFINE If(s) == IF s \in wanted THEN <<s>> ELSE <<>>
<1>1. ASSUME NEW s \in Steps  PROVE If(s) \in Seq(Steps)
  OBVIOUS
<1>2. "reap" \in Steps /\ "ingest" \in Steps /\ "indicators" \in Steps /\ "signals" \in Steps
      /\ "broker_sync" \in Steps /\ "evaluate" \in Steps
  BY DEF Steps, Modes, LiveModes
<1>3. If("reap") \in Seq(Steps) /\ If("ingest") \in Seq(Steps) /\ If("indicators") \in Seq(Steps)
      /\ If("signals") \in Seq(Steps) /\ If("broker_sync") \in Seq(Steps)
      /\ If("evaluate") \in Seq(Steps)
  BY <1>1, <1>2
<1>4. Plan(wanted) = If("reap") \o If("ingest") \o If("indicators") \o If("signals")
                       \o If("broker_sync") \o If("evaluate")
  BY DEF Plan
<1> HIDE DEF If
<1>5. ASSUME NEW s \in Seq(Steps), NEW t \in Seq(Steps)  PROVE s \o t \in Seq(Steps)
  BY <1>5, ConcatProperties
<1> QED  BY <1>3, <1>4, <1>5

(* Nothing that TypeOK, RunInv and JobInv speak of changes but the job. *)
LEMMA JobOnly ==
  ASSUME TypeOK, RunInv, UNCHANGED <<rows, work, checked, stale, deaths>>,
         job' \in Job, job'.next <= Len(job'.plan) + 1, job'.waits <= Len(rows)
  PROVE  TypeOK' /\ RunInv'
BY DEF TypeOK, RunInv, Runs

(* A report moves the job on by one step. *)
LEMMA ReportStep ==
  ASSUME TypeOK, JobInv, NEW status \in {"ok", "warning", "failed"},
         job.next <= Len(job.plan), job' = Report(status)
  PROVE  /\ job' \in Job /\ job'.next = job.next + 1
         /\ job'.next <= Len(job'.plan) + 1 /\ job'.waits = 0
         /\ JobInv'
         /\ job'.report[job.next] = status
<1>1. job \in Job
  BY DEF TypeOK
<1>2. job.plan \in Seq(Steps) /\ job.next \in Nat \ {0}
      /\ job.report \in Seq({"ok", "warning", "failed"}) /\ Len(job.report) = job.next - 1
  BY <1>1 DEF Job, JobInv
<1> DEFINE rep == Append(job.report, status)
<1>3. rep \in Seq({"ok", "warning", "failed"}) /\ Len(rep) = job.next /\ rep[job.next] = status
  BY <1>2, AppendProperties
<1> HIDE DEF rep
<1>4. job' = [plan |-> job.plan, next |-> job.next + 1, waits |-> 0, report |-> rep]
  BY DEF Report, rep
<1>5. job'.plan = job.plan /\ job'.next = job.next + 1 /\ job'.waits = 0 /\ job'.report = rep
  BY <1>4
<1>6. job' \in Job
  <2>1. job.next + 1 \in Nat \ {0} /\ 0 \in Nat
    BY <1>2
  <2> QED  BY <1>2, <1>3, <1>4, <2>1 DEF Job
<1> QED  BY <1>2, <1>3, <1>5, <1>6 DEF JobInv

(* The requests past the guard may have seen up to n rows. *)
PastGuard(n) == [request : Requests, saw : 0..n]

LEMMA AskedGrows == ASSUME NEW n \in Nat  PROVE PastGuard(n) \subseteq PastGuard(n + 1)
<1>1. 0..n \subseteq 0..(n + 1)
  OBVIOUS
<1> QED  BY <1>1 DEF PastGuard

LEMMA InitInv == ASSUME RunsAssumption, Init  PROVE IInv
<1>1. rows = <<>> /\ work = <<>> /\ checked = {} /\ stale = {} /\ job = Off /\ deaths = 0
  BY DEF Init
<1>2. job \in Job /\ job.next = 1 /\ Len(job.plan) = 0 /\ job.waits = 0 /\ Len(job.report) = 0
  BY <1>1 DEF Off, Job
<1>3. Runs = {}
  BY <1>1 DEF Runs
<1>4. MaxDeaths \in Nat
  BY DEF RunsAssumption
<1>5. TypeOK
  BY <1>1, <1>2, <1>3, <1>4 DEF TypeOK
<1> QED  BY <1>2, <1>3, <1>5 DEF IInv, RunInv, JobInv

LEMMA StepInv == ASSUME RunsAssumption, IInv, [Next]_vars  PROVE IInv'
<1>0. TypeOK /\ RunInv /\ JobInv
  BY DEF IInv
<1>1. job \in Job /\ job.next <= Len(job.plan) + 1 /\ job.waits <= Len(rows)
      /\ checked \subseteq PastGuard(Len(rows)) /\ stale \subseteq Runs /\ deaths \in 0..MaxDeaths
      /\ rows \in Seq(Row) /\ work \in Seq(Call) /\ Len(work) = Len(rows) /\ Len(rows) \in Nat
  BY <1>0 DEF TypeOK, PastGuard
<1>2. /\ job.plan \in Seq(Steps) /\ job.next \in Nat \ {0} /\ job.waits \in Nat
      /\ Len(job.plan) \in Nat
  BY <1>1 DEF Job
<1>3. ASSUME NEW q \in Requests, CheckGuard(q)  PROVE IInv'
  <2>1. [request |-> q, saw |-> Len(rows)] \in PastGuard(Len(rows))
    BY <1>1 DEF PastGuard
  <2>2. checked' \subseteq PastGuard(Len(rows)) /\ UNCHANGED <<rows, work, stale, job, deaths>>
    BY <1>1, <1>3, <2>1 DEF CheckGuard
  <2> QED  BY <1>0, <2>2 DEF IInv, TypeOK, RunInv, JobInv, Runs, Step, PastGuard
<1>4. ASSUME NEW c \in checked, Accept(c)  PROVE IInv'
  <2>1. PICK m \in ApiModes : Insert(m, "api")
    BY <1>4 DEF Accept
  <2>2. m \in Modes
    BY DEF RunsAssumption, Modes
  <2>3. /\ rows' \in Seq(Row) /\ work' \in Seq(Call)
        /\ Len(rows') = Len(rows) + 1 /\ Len(work') = Len(rows') /\ RunInv'
    BY <1>0, <2>1, <2>2, InsertStep
  <2>4. checked' \subseteq PastGuard(Len(rows')) /\ UNCHANGED <<stale, job, deaths>>
    BY <1>1, <1>4, <2>3, AskedGrows DEF Accept
  <2>5. stale \subseteq 1..(Len(rows) + 1) /\ job.waits <= Len(rows')
    BY <1>0, <1>1, <1>2, <2>3 DEF TypeOK, Runs
  <2>6. TypeOK'
    BY <1>0, <1>1, <2>3, <2>4, <2>5 DEF TypeOK, Runs, PastGuard
  <2>7. JobInv'
    BY <1>0, <2>4 DEF IInv, JobInv, Step
  <2> QED  BY <2>3, <2>6, <2>7 DEF IInv
<1>5. ASSUME NEW r \in Runs, Worker(r)  PROVE IInv'
  <2>1. OneRun(r)
    BY <1>0, <1>5, WorkerStep
  <2>2. RunInv'
    <3> SUFFICES ASSUME NEW i \in Runs  PROVE Counted(rows'[i], work'[i])
      BY <2>1 DEF RunInv, OneRun, Runs
    <3> QED  BY <1>0, <2>1 DEF OneRun, RunInv
  <2> QED  BY <1>0, <1>1, <2>1, <2>2 DEF IInv, TypeOK, JobInv, Runs, Step, OneRun
<1>6. ASSUME NEW wanted \in JobSteps, JobStarts(wanted)  PROVE IInv'
  <2>1. Plan(wanted) \in Seq(Steps)
    BY PlanIsSteps
  <2>2. job' = [Off EXCEPT !.plan = Plan(wanted)] /\ UNCHANGED <<rows, work, checked, stale, deaths>>
    BY <1>6 DEF JobStarts
  <2>3. job' = [plan |-> Plan(wanted), next |-> 1, waits |-> 0, report |-> <<>>]
    BY <2>2 DEF Off
  <2>4. job' \in Job /\ job'.next <= Len(job'.plan) + 1 /\ job'.waits = 0
        /\ Len(job'.report) = job'.next - 1
    BY <2>1, <2>3 DEF Job
  <2>5. TypeOK' /\ RunInv'
    BY <1>0, <1>1, <2>2, <2>4, JobOnly
  <2> QED  BY <2>4, <2>5 DEF IInv, JobInv
<1>7. ASSUME JobSelects  PROVE IInv'
  <2>1. stale' \subseteq Runs /\ UNCHANGED <<rows, work, checked, job, deaths>>
    BY <1>7 DEF JobSelects, StaleRuns, Running
  <2> QED  BY <1>0, <2>1 DEF IInv, TypeOK, RunInv, JobInv, Runs, Step
<1>8. ASSUME JobReaps  PROVE IInv'
  <2>1. rows' \in Seq(Row) /\ Len(rows') = Len(rows) /\ RunInv'
    BY <1>0, <1>8, ReapStep
  <2>2. job.next <= Len(job.plan) /\ job' = Report("ok")
        /\ stale' = {} /\ UNCHANGED <<work, checked, deaths>>
    BY <1>8 DEF JobReaps
  <2>3. job' \in Job /\ job'.next <= Len(job'.plan) + 1 /\ job'.waits = 0 /\ JobInv'
    BY <1>0, <2>2, ReportStep
  <2> QED  BY <1>0, <1>1, <2>1, <2>2, <2>3 DEF IInv, TypeOK
<1>9. ASSUME JobCreates  PROVE IInv'
  <2>1. job.next <= Len(job.plan) /\ Step # "reap" /\ Insert(Step, "job")
        /\ job' = [job EXCEPT !.waits = Len(rows')] /\ UNCHANGED <<checked, stale, deaths>>
    BY <1>9 DEF JobCreates
  <2>2. Step \in Modes
    BY <1>2, <2>1 DEF Step, Steps
  <2>3. /\ rows' \in Seq(Row) /\ work' \in Seq(Call)
        /\ Len(rows') = Len(rows) + 1 /\ Len(work') = Len(rows') /\ RunInv'
    BY <1>0, <2>1, <2>2, InsertStep
  <2>4. /\ job' \in Job /\ job'.plan = job.plan /\ job'.next = job.next
        /\ job'.waits = Len(rows) + 1 /\ job'.report = job.report
    <3>1. Len(rows') \in Nat
      BY <1>1, <2>3
    <3>2. \A n \in Nat : [job EXCEPT !.waits = n] \in Job
      BY <1>1 DEF Job
    <3> QED  BY <1>1, <2>1, <2>3, <3>1, <3>2 DEF Job
  <2>5. JobInv'
    BY <1>0, <2>1, <2>4 DEF JobInv, Step
  <2>6. checked' \subseteq PastGuard(Len(rows'))
    BY <1>1, <2>1, <2>3, AskedGrows
  <2>7. TypeOK'
    BY <1>1, <2>1, <2>3, <2>4, <2>6 DEF TypeOK, Runs, PastGuard
  <2> QED  BY <2>3, <2>5, <2>7 DEF IInv
<1>10. ASSUME JobContinues  PROVE IInv'
  <2>1. job.waits # 0 /\ job' = Report(Result(job.waits))
        /\ UNCHANGED <<rows, work, checked, stale, deaths>>
    BY <1>10 DEF JobContinues
  <2>2. Result(job.waits) \in {"ok", "warning", "failed"} /\ job.next <= Len(job.plan)
    BY <1>0, <2>1 DEF Result, JobInv
  <2>3. job' \in Job /\ job'.next <= Len(job'.plan) + 1 /\ job'.waits = 0 /\ JobInv'
    BY <1>0, <2>1, <2>2, ReportStep
  <2> QED  BY <1>0, <1>1, <2>1, <2>3, JobOnly DEF IInv
<1>11. ASSUME job' = Off, UNCHANGED rows, stale' \in {stale, {}}, checked' = checked,
              deaths' \in 0..MaxDeaths, work' \in Seq(Call), Len(work') = Len(rows'), RunInv'
       PROVE  IInv'
  <2>1. job' \in Job /\ job'.next = 1 /\ Len(job'.plan) = 0 /\ job'.waits = 0 /\ Len(job'.report) = 0
    BY <1>11 DEF Off, Job
  <2> QED  BY <1>1, <1>11, <2>1 DEF IInv, TypeOK, JobInv, Runs
<1>12. ASSUME JobEnds  PROVE IInv'
  BY <1>0, <1>1, <1>11, <1>12 DEF JobEnds, RunInv, Runs
<1>13. ASSUME ApiDies  PROVE IInv'
  <2>1. /\ work' = Killed("api") /\ deaths < MaxDeaths /\ checked' = {} /\ deaths' = deaths + 1
        /\ UNCHANGED <<rows, stale, job>>
    BY <1>13 DEF ApiDies
  <2>2. work' \in Seq(Call) /\ Len(work') = Len(rows') /\ RunInv'
    BY <1>0, <2>1, KilledStep
  <2>3. deaths' \in 0..MaxDeaths
    BY <1>1, <2>1 DEF RunsAssumption
  <2> QED  BY <1>0, <1>1, <2>1, <2>2, <2>3 DEF IInv, TypeOK, JobInv, Runs, Step
<1>14. ASSUME JobDies  PROVE IInv'
  <2>1. /\ work' = Killed("job") /\ deaths < MaxDeaths /\ job' = Off /\ stale' = {}
        /\ deaths' = deaths + 1 /\ UNCHANGED <<rows, checked>>
    BY <1>14 DEF JobDies
  <2>2. work' \in Seq(Call) /\ Len(work') = Len(rows') /\ RunInv'
    BY <1>0, <2>1, KilledStep
  <2>3. deaths' \in 0..MaxDeaths
    BY <1>1, <2>1 DEF RunsAssumption
  <2> QED  BY <1>11, <2>1, <2>2, <2>3
<1>15. ASSUME HourPasses  PROVE IInv'
  <2>1. rows' \in Seq(Row) /\ Len(rows') = Len(rows) /\ RunInv'
    BY <1>0, <1>15, HourStep
  <2>2. UNCHANGED <<work, checked, stale, job, deaths>>
    BY <1>15 DEF HourPasses
  <2> QED  BY <1>0, <1>1, <2>1, <2>2 DEF IInv, TypeOK, JobInv, Runs, Step
<1>16. ASSUME UNCHANGED vars  PROVE IInv'
  BY <1>0, <1>16 DEF vars, IInv, TypeOK, RunInv, JobInv, Runs, Step
<1> QED  BY <1>3, <1>4, <1>5, <1>6, <1>7, <1>8, <1>9, <1>10, <1>12, <1>13, <1>14, <1>15, <1>16
         DEF Next, JobGoesOn

THEOREM Invariance == Spec => []IInv
<1>1. Init => IInv
  BY RunsAssumption, InitInv
<1>2. IInv /\ [Next]_vars => IInv'
  BY RunsAssumption, StepInv
<1> QED  BY <1>1, <1>2, PTL DEF Spec

-----------------------------------------------------------------------------
(* The theorems.                                                           *)

(* The rows, calls, requests, reaper and job keep their types.              *)
THEOREM TypeCorrect == Spec => []TypeOK
<1>1. IInv => TypeOK
  BY DEF IInv
<1> QED  BY <1>1, Invariance, PTL

(* The counters of a completed row are the symbols processed and failed     *)
(* (run_ingest, run_signals, _step_broker_sync, _step_evaluate), however    *)
(* many runs overlap, die, are reaped and end after all.                    *)
THEOREM CountersTrue == Spec => []CountsAreTrue
<1>1. IInv => CountsAreTrue
  <2> SUFFICES ASSUME IInv, NEW r \in Runs, rows[r].status = "completed"
               PROVE  rows[r].ok = work[r].good /\ rows[r].failed = rows[r].total - work[r].good
    BY DEF CountsAreTrue
  <2>1. Counted(rows[r], work[r])
    BY DEF IInv, RunInv
  <2> QED  BY <2>1 DEF Counted
<1> QED  BY <1>1, Invariance, PTL

(* A step of the job is only reported ok if its worker processed every      *)
(* symbol (_finalize_worker_step).                                          *)
THEOREM OkIsAll == Spec => OkMeansAll
<1> DEFINE OkStep == \A r \in Runs : job.waits = r /\ job'.next = job.next + 1
                                     /\ job'.report[job.next] = "ok" => work[r].good = Symbols
<1>1. IInv /\ [Next]_vars => [OkStep]_vars
  <2> SUFFICES ASSUME IInv, Next, NEW r \in Runs, job.waits = r, job'.next = job.next + 1,
                      job'.report[job.next] = "ok"
               PROVE  work[r].good = Symbols
    OBVIOUS
  <2>1. TypeOK /\ RunInv /\ JobInv /\ RunsAssumption
    BY RunsAssumption DEF IInv
  <2>2. job \in Job /\ job.next \in Nat \ {0} /\ job.waits # 0
        /\ rows[r] \in Row /\ work[r] \in Call
    BY <2>1 DEF TypeOK, Job, Runs
  <2>3. job' # job /\ job' # Off /\ \A p : job' # [Off EXCEPT !.plan = p]
    BY <2>2 DEF Off
  <2>4. ~JobReaps
    BY <2>1, <2>2 DEF JobReaps, JobInv
  <2>5. \A n : job' # [job EXCEPT !.waits = n]
    BY <2>2 DEF Job
  <2>6. JobContinues
    <3>1. \A i \in Runs : ~Worker(i)
      BY <2>1, <2>3, WorkerStep DEF OneRun
    <3> QED  BY <2>3, <2>4, <2>5, <3>1
             DEF Next, JobGoesOn, CheckGuard, Accept, JobStarts, JobSelects, JobCreates,
                 JobEnds, ApiDies, JobDies, HourPasses
  <2>7. job' = Report(Result(r)) /\ Result(r) \in {"ok", "warning", "failed"}
        /\ job.next <= Len(job.plan)
    BY <2>1, <2>2, <2>6 DEF JobContinues, JobInv, Result
  <2>8. Result(r) = "ok"
    BY <2>1, <2>7, ReportStep
  <2>9. rows[r].status = "completed" /\ ~(rows[r].failed > 0)
    BY <2>8 DEF Result
  <2>10. Counted(rows[r], work[r])
    BY <2>1 DEF RunInv
  <2>11. rows[r].failed = Symbols - work[r].good /\ rows[r].failed \in Nat
         /\ work[r].good \in Nat /\ Symbols \in Nat
    BY <2>1, <2>2, <2>9, <2>10 DEF Counted, Row, Call, RunsAssumption
  <2> QED  BY <2>9, <2>11
<1> HIDE DEF OkStep
<1>2. Spec => [][OkStep]_vars
  BY <1>1, Invariance, PTL DEF Spec
<1> QED  BY <1>2 DEF OkStep, OkMeansAll

(* As long as no statement fails in the database, a run whose function has  *)
(* returned or raised is not left running for the reaper (the last commits  *)
(* of run_ingest, run_compute, run_signals and of the job's steps).         *)
THEOREM OverRecorded == ASSUME ~DbErrors  PROVE Spec => []OverIsRecorded
<1>1. IInv => OverIsRecorded
  BY DEF IInv, RunInv, Counted, OverIsRecorded
<1> QED  BY <1>1, Invariance, PTL

-----------------------------------------------------------------------------
(* The guard.                                                              *)

(* What a request has seen when it passed the guard is not running, and    *)
(* will not be again.                                                      *)
GuardInv == \A c \in checked : \A r \in Runs : r <= c.saw => rows[r].status # "running"

LEMMA GuardStep ==
  ASSUME RunsAssumption, IInv, GuardInv, [Next]_vars
  PROVE  GuardInv'
<1>0. TypeOK /\ RunInv /\ Runs = 1..Len(rows) /\ Len(rows) \in Nat
      /\ checked \subseteq PastGuard(Len(rows))
  BY DEF IInv, TypeOK, Runs, PastGuard
<1>1. ASSUME \A i \in Runs : rows[i].status # "running" => rows'[i].status # "running",
             Len(rows') \in {Len(rows), Len(rows) + 1}, checked' \subseteq checked
      PROVE  GuardInv'
  <2> SUFFICES ASSUME NEW c \in checked, NEW i \in Runs', i <= c.saw
               PROVE  rows'[i].status # "running"
    BY <1>1 DEF GuardInv
  <2>1. i \in 1..Len(rows') /\ c.saw \in 0..Len(rows)
    BY <1>0 DEF Runs, PastGuard
  <2>2. i \in Runs
    BY <1>0, <1>1, <2>1
  <2> QED  BY <1>1, <2>2 DEF GuardInv
<1>2. ASSUME NEW q \in Requests, CheckGuard(q)  PROVE GuardInv'
  <2>1. \A i \in Runs : rows[i].status # "running"
    BY <1>2 DEF CheckGuard, Blocking, Running
  <2> QED  BY <1>2, <2>1 DEF CheckGuard, GuardInv, Runs
<1>3. ASSUME NEW c \in checked, Accept(c)  PROVE GuardInv'
  <2>1. PICK m \in ApiModes : Insert(m, "api")
    BY <1>3 DEF Accept
  <2>2. m \in Modes
    BY DEF RunsAssumption, Modes
  <2>3. Len(rows') = Len(rows) + 1 /\ \A i \in Runs : rows'[i] = rows[i]
    BY <1>0, <2>1, <2>2, InsertStep
  <2> QED  BY <1>1, <1>3, <2>3 DEF Accept
<1>4. ASSUME NEW r \in Runs, Worker(r)  PROVE GuardInv'
  <2>1. OneRun(r)
    BY <1>0, <1>4, WorkerStep
  <2>2. \A i \in Runs : rows[i].status # "running" => rows'[i].status # "running"
    BY <2>1 DEF OneRun
  <2> QED  BY <1>1, <2>1, <2>2 DEF OneRun
<1>5. ASSUME JobCreates  PROVE GuardInv'
  <2>1. Step \in Modes
    <3>1. job.plan \in Seq(Steps) /\ job.next \in Nat \ {0}
      BY <1>0 DEF TypeOK, Job
    <3> QED  BY <1>5, <3>1 DEF JobCreates, Step, Steps
  <2>2. Len(rows') = Len(rows) + 1 /\ \A i \in Runs : rows'[i] = rows[i]
    BY <1>0, <1>5, <2>1, InsertStep DEF JobCreates
  <2> QED  BY <1>1, <1>5, <2>2 DEF JobCreates
<1>6. ASSUME JobReaps  PROVE GuardInv'
  <2>1. Len(rows') = Len(rows)
        /\ \A i \in Runs : rows'[i].status \in {rows[i].status, "failed"}
    BY <1>0, <1>6, ReapStep
  <2> QED  BY <1>1, <1>6, <2>1 DEF JobReaps
<1>7. ASSUME HourPasses  PROVE GuardInv'
  <2>1. Len(rows') = Len(rows) /\ \A i \in Runs : rows'[i].status = rows[i].status
    BY <1>0, <1>7, HourStep
  <2> QED  BY <1>1, <1>7, <2>1 DEF HourPasses
<1>8. ASSUME UNCHANGED rows, checked' \subseteq checked  PROVE GuardInv'
  BY <1>8 DEF GuardInv, Runs
<1>9. ApiDies \/ JobDies \/ JobSelects \/ JobContinues \/ JobEnds \/ UNCHANGED vars => GuardInv'
  BY <1>8 DEF ApiDies, JobDies, JobSelects, JobContinues, JobEnds, vars
<1>10. ASSUME NEW wanted \in JobSteps, JobStarts(wanted)  PROVE GuardInv'
  BY <1>8, <1>10 DEF JobStarts
<1> QED  BY <1>2, <1>3, <1>4, <1>5, <1>6, <1>7, <1>9, <1>10 DEF Next, JobGoesOn

(* A request gets its row beside a running one only if that one was        *)
(* inserted after the request had passed the guard: the 409 of POST        *)
(* /ingest/run, /indicators/run and /signals/run, which many threads may   *)
(* handle at the same time (GuardHolds).                                   *)
THEOREM GuardIsKept == Spec => GuardHolds
<1> DEFINE Holds == \A c \in checked : c \notin checked' /\ Len(rows') > Len(rows) =>
                      \A r \in Running : r > c.saw
<1>1. Init => GuardInv
  BY DEF Init, GuardInv
<1>2. IInv /\ GuardInv /\ [Next]_vars => GuardInv'
  BY RunsAssumption, GuardStep
<1>3. IInv /\ GuardInv => Holds
  <2> SUFFICES ASSUME IInv, GuardInv, NEW c \in checked, NEW r \in Running  PROVE r > c.saw
    OBVIOUS
  <2>1. c.saw \in Nat /\ r \in Nat /\ r \in Runs /\ rows[r].status = "running"
    BY DEF IInv, TypeOK, Running, Runs
  <2> QED  BY <2>1 DEF GuardInv
<1>4. Holds => [Holds]_vars
  OBVIOUS
<1>5. GuardHolds <=> [][Holds]_vars
  BY DEF GuardHolds
<1> HIDE DEF Holds
<1> QED  BY <1>1, <1>2, <1>3, <1>4, <1>5, Invariance, PTL DEF Spec

-----------------------------------------------------------------------------
(* Ingest: what is stored, and what the workers hold.                      *)

(* What a worker holds. *)
Asked ==
  [step : {"idle", "daily", "compare", "refetch", "rehourly", "replace", "hourly", "write"},
   incremental : BOOLEAN, timeframes : SUBSET Timeframes, today : 0..LastDay,
   daily : Bars, hourly : Bars]

(* All bars are of trading days that have come. *)
Dated(bars) == DOMAIN bars \subseteq Trading \cap 1..today

IngestTypes ==
  /\ today \in Days /\ closed \in BOOLEAN /\ folded \subseteq ExDates
  /\ hidden \in BOOLEAN /\ failures \in 0..MaxFailures
  /\ candles \in [Timeframes -> Bars] /\ run \in [Workers -> Asked]
  /\ \A tf \in Timeframes : Dated(candles[tf])
  /\ \A r \in Workers :
       Dated(run[r].daily) /\ Dated(run[r].hourly) /\ run[r].today <= today

(* A rebuild holds all there was when it started, or nothing. *)
Covers(bars, day) == bars = NoBars \/ \A e \in Trading : e < day => e \in DOMAIN bars

RebuildsKnow ==
  \A r \in Workers :
    /\ run[r].step \in {"rehourly", "replace"} => Covers(run[r].daily, run[r].today)
    /\ run[r].step = "replace" => Covers(run[r].hourly, run[r].today)

-----------------------------------------------------------------------------
LEMMA BarsHave ==
  ASSUME NEW X \in Bars
  PROVE  /\ DOMAIN X \subseteq Days /\ X = [d \in DOMAIN X |-> X[d]]
         /\ \A d \in DOMAIN X : X[d] \subseteq ExDates
         /\ DOMAIN X = {} <=> X = NoBars
<1>1. PICK D \in SUBSET Days : X \in [D -> SUBSET ExDates]
  BY DEF Bars
<1> QED  BY <1>1 DEF NoBars

LEMMA NoBarsAre == NoBars \in Bars /\ DOMAIN NoBars = {}
<1>1. NoBars \in [{} -> SUBSET ExDates]
  BY DEF NoBars
<1> QED  BY <1>1 DEF NoBars, Bars

(* The last of some days. *)
LEMMA LastOf ==
  ASSUME NEW n \in Nat, NEW S \in SUBSET (1..n), S # {}
  PROVE  Max(S) \in S /\ \A d \in S : d <= Max(S)
<1> DEFINE T == {n - d : d \in S}
<1>1. T # {} /\ T \subseteq Nat
  <2>1. \A d \in S : n - d \in Nat
    OBVIOUS
  <2> QED  BY <2>1
<1>2. PICK m \in T : \A k \in T : <<k, m>> \notin OpToRel(<, Nat)
  BY <1>1, NatLessThanWellFounded, WFMin
<1>3. PICK x \in S : m = n - x
  BY <1>2
<1>4. \A d \in S : ~(n - d < n - x)
  BY <1>1, <1>2, <1>3 DEF OpToRel
<1>5. \A d \in S : x >= d
  BY <1>4
<1> QED  BY <1>5 DEF Max

LEMMA ServedIs ==
  ASSUME IngestConstants, IngestTypes, NEW tf, NEW since
  PROVE  /\ Served(tf, since) \in Bars /\ Dated(Served(tf, since))
         /\ DOMAIN Served(tf, since) = {e \in Trading : e >= since /\ Complete(tf, e)}
<1> DEFINE D == {e \in Trading : e >= since /\ Complete(tf, e)}
<1>1. DOMAIN Served(tf, since) = D
  BY DEF Served
<1>2. \A d : Terms(d) \subseteq ExDates
  BY DEF IngestTypes, Terms
<1>3. D \subseteq Trading \cap 1..today
  <2> SUFFICES ASSUME NEW e \in Trading, Complete(tf, e)  PROVE e \in 1..today
    OBVIOUS
  <2>1. e \in 1..LastDay /\ today \in 1..LastDay /\ LastDay \in Nat
    BY DEF IngestConstants, IngestTypes, Days
  <2>2. e < today \/ e = today
    BY DEF Complete
  <2> QED  BY <2>1, <2>2
<1>4. D \subseteq Days
  BY <1>3 DEF IngestConstants
<1>5. [d \in D |-> Terms(d)] \in [D -> SUBSET ExDates]
  BY <1>2
<1>6. Served(tf, since) \in [D -> SUBSET ExDates]
  BY <1>5 DEF Served
<1>7. Served(tf, since) \in Bars
  BY <1>4, <1>6 DEF Bars
<1>8. Dated(Served(tf, since))
  BY <1>1, <1>3 DEF Dated
<1> QED  BY <1>1, <1>7, <1>8

LEMMA UpsertIs ==
  ASSUME NEW old \in Bars, NEW new \in Bars
  PROVE  /\ Upsert(old, new) \in Bars
         /\ DOMAIN Upsert(old, new) = DOMAIN old \cup DOMAIN new
         /\ \A d \in DOMAIN new : Upsert(old, new)[d] = new[d]
         /\ \A d \in DOMAIN old \ DOMAIN new : Upsert(old, new)[d] = old[d]
<1> DEFINE D == DOMAIN old \cup DOMAIN new
<1>1. D \in SUBSET Days
  BY BarsHave
<1>2. \A d \in D : (IF d \in DOMAIN new THEN new[d] ELSE old[d]) \subseteq ExDates
  BY BarsHave
<1>3. Upsert(old, new) \in [D -> SUBSET ExDates]
  BY <1>2 DEF Upsert
<1>4. Upsert(old, new) \in Bars
  BY <1>1, <1>3 DEF Bars
<1> QED  BY <1>4 DEF Upsert

LEMMA FourHourlyIs ==
  ASSUME NEW X \in Bars
  PROVE  /\ FourHourly(X) \in Bars
         /\ DOMAIN FourHourly(X) = {e \in DOMAIN X : Complete("4h", e)}
         /\ \A d \in DOMAIN FourHourly(X) : FourHourly(X)[d] = X[d]
<1> DEFINE D == {e \in DOMAIN X : Complete("4h", e)}
<1>1. D \in SUBSET Days
  BY BarsHave
<1>2. FourHourly(X) \in [D -> SUBSET ExDates]
  BY BarsHave DEF FourHourly
<1>3. FourHourly(X) \in Bars
  BY <1>1, <1>2 DEF Bars
<1> QED  BY <1>3 DEF FourHourly

-----------------------------------------------------------------------------
(* What a step of a worker changes.                                        *)

(* Worker r, and nothing that is stored. *)
Goes(r) ==
  /\ run' \in [Workers -> Asked] /\ \A o \in Workers \ {r} : run'[o] = run[o]
  /\ Dated(run'[r].daily) /\ Dated(run'[r].hourly) /\ run'[r].today <= today
  /\ UNCHANGED <<today, closed, folded, candles>>
  /\ hidden' \in BOOLEAN /\ failures' \in 0..MaxFailures

(* It goes on with its run. *)
GoesOn(r) ==
  /\ Goes(r) /\ run[r].step # "idle"
  /\ run'[r].today = run[r].today /\ run'[r].timeframes = run[r].timeframes

Asks == [mode : {"backfill", "incremental"}, timeframes : (SUBSET Timeframes) \ {{}}]

LEMMA IdleIs == ASSUME IngestConstants  PROVE Idle \in Asked /\ Dated(NoBars)
<1>1. 0 \in 0..LastDay
  BY DEF IngestConstants
<1> QED  BY <1>1, NoBarsAre DEF Idle, Asked, Dated

(* One record of run is replaced. *)
LEMMA OneRecord ==
  ASSUME IngestTypes, NEW r \in Workers, NEW x \in Asked, run' = [run EXCEPT ![r] = x]
  PROVE  /\ run' \in [Workers -> Asked] /\ run'[r] = x
         /\ \A o \in Workers \ {r} : run'[o] = run[o]
BY DEF IngestTypes

LEMMA BeginsDoes ==
  ASSUME IngestConstants, IngestTypes, NEW r \in Workers, NEW req \in Asks, Begins(r, req)
  PROVE  /\ Goes(r) /\ run[r].step = "idle"
         /\ run'[r].step \in {"daily", "hourly"} /\ run'[r].today = today
         /\ run'[r].daily = NoBars /\ run'[r].hourly = NoBars
         /\ run'[r].timeframes = req.timeframes
<1> DEFINE x == [Idle EXCEPT !.step = IF "1d" \in req.timeframes THEN "daily" ELSE "hourly",
                             !.incremental = (req.mode = "incremental"),
                             !.timeframes = req.timeframes, !.today = today]
<1>1. today \in 0..LastDay /\ today <= today
  BY DEF IngestConstants, IngestTypes, Days
<1>2. x \in Asked
  BY <1>1, IdleIs DEF Asked, Asks
<1>3. /\ x.step \in {"daily", "hourly"} /\ x.today = today
      /\ x.daily = NoBars /\ x.hourly = NoBars /\ x.timeframes = req.timeframes
  BY DEF Idle
<1>4. run' = [run EXCEPT ![r] = x]
  BY DEF Begins
<1> HIDE DEF x
<1>5. run' \in [Workers -> Asked] /\ run'[r] = x /\ \A o \in Workers \ {r} : run'[o] = run[o]
  BY <1>2, <1>4, OneRecord
<1> QED  BY <1>1, <1>3, <1>5, IdleIs DEF Begins, Goes, IngestTypes

LEMMA GetsDaily ==
  ASSUME IngestConstants, IngestTypes, NEW r \in Workers, run[r].step # "idle",
         NEW answer \in Bars, Dated(answer), NEW next \in {"compare", "hourly", "rehourly"},
         Gets(r, "daily", answer, next)
  PROVE  /\ GoesOn(r) /\ run'[r].step = next
         /\ run'[r].daily \in {answer, NoBars} /\ run'[r].hourly = run[r].hourly
<1>1. PICK a \in {answer, NoBars} :
         run' = [run EXCEPT ![r] = [@ EXCEPT !["daily"] = a, !.step = next]]
  BY DEF Gets
<1> DEFINE x == [run[r] EXCEPT !.daily = a, !.step = next]
<1>2. a \in Bars /\ Dated(a)
  BY NoBarsAre, IdleIs
<1>3. run[r] \in Asked /\ Dated(run[r].hourly) /\ run[r].today <= today
  BY DEF IngestTypes
<1>4. x \in Asked /\ x.today = run[r].today /\ x.timeframes = run[r].timeframes
      /\ x.step = next /\ x.daily = a /\ x.hourly = run[r].hourly
  BY <1>2, <1>3 DEF Asked
<1>5. run' = [run EXCEPT ![r] = x]
  BY <1>1
<1> HIDE DEF x
<1>6. run' \in [Workers -> Asked] /\ run'[r] = x /\ \A o \in Workers \ {r} : run'[o] = run[o]
  BY <1>4, <1>5, OneRecord
<1>7. failures' \in 0..MaxFailures
  <2>1. failures \in 0..MaxFailures /\ MaxFailures \in Nat
    BY DEF IngestTypes, IngestConstants
  <2>2. failures' = failures \/ (failures < MaxFailures /\ failures' = failures + 1)
    BY DEF Gets
  <2> QED  BY <2>1, <2>2
<1> QED  BY <1>2, <1>3, <1>4, <1>6, <1>7 DEF Gets, GoesOn, Goes, IngestTypes

LEMMA GetsHourly ==
  ASSUME IngestConstants, IngestTypes, NEW r \in Workers, run[r].step # "idle",
         NEW answer \in Bars, Dated(answer), NEW next \in {"write", "replace"},
         Gets(r, "hourly", answer, next)
  PROVE  /\ GoesOn(r) /\ run'[r].step = next
         /\ run'[r].hourly \in {answer, NoBars} /\ run'[r].daily = run[r].daily
<1>1. PICK a \in {answer, NoBars} :
         run' = [run EXCEPT ![r] = [@ EXCEPT !["hourly"] = a, !.step = next]]
  BY DEF Gets
<1> DEFINE x == [run[r] EXCEPT !.hourly = a, !.step = next]
<1>2. a \in Bars /\ Dated(a)
  BY NoBarsAre, IdleIs
<1>3. run[r] \in Asked /\ Dated(run[r].daily) /\ run[r].today <= today
  BY DEF IngestTypes
<1>4. x \in Asked /\ x.today = run[r].today /\ x.timeframes = run[r].timeframes
      /\ x.step = next /\ x.hourly = a /\ x.daily = run[r].daily
  BY <1>2, <1>3 DEF Asked
<1>5. run' = [run EXCEPT ![r] = x]
  BY <1>1
<1> HIDE DEF x
<1>6. run' \in [Workers -> Asked] /\ run'[r] = x /\ \A o \in Workers \ {r} : run'[o] = run[o]
  BY <1>4, <1>5, OneRecord
<1>7. failures' \in 0..MaxFailures
  <2>1. failures \in 0..MaxFailures /\ MaxFailures \in Nat
    BY DEF IngestTypes, IngestConstants
  <2>2. failures' = failures \/ (failures < MaxFailures /\ failures' = failures + 1)
    BY DEF Gets
  <2> QED  BY <2>1, <2>2
<1> QED  BY <1>2, <1>3, <1>4, <1>6, <1>7 DEF Gets, GoesOn, Goes, IngestTypes

(* No bars are asked for: the run turns to its next step. *)
LEMMA TurnsTo ==
  ASSUME IngestTypes, NEW r \in Workers, run[r].step # "idle",
         NEW next \in {"refetch", "hourly", "write"},
         run' = [run EXCEPT ![r].step = next],
         UNCHANGED <<hidden, today, closed, folded, candles, failures>>
  PROVE  /\ GoesOn(r) /\ run'[r].step = next
         /\ run'[r].daily = run[r].daily /\ run'[r].hourly = run[r].hourly
<1> DEFINE x == [run[r] EXCEPT !.step = next]
<1>1. run[r] \in Asked /\ Dated(run[r].daily) /\ Dated(run[r].hourly) /\ run[r].today <= today
  BY DEF IngestTypes
<1>2. x \in Asked /\ x.today = run[r].today /\ x.timeframes = run[r].timeframes
      /\ x.step = next /\ x.hourly = run[r].hourly /\ x.daily = run[r].daily
  BY <1>1 DEF Asked
<1>3. run' = [run EXCEPT ![r] = x]
  OBVIOUS
<1> HIDE DEF x
<1>4. run' \in [Workers -> Asked] /\ run'[r] = x /\ \A o \in Workers \ {r} : run'[o] = run[o]
  BY <1>2, <1>3, OneRecord
<1> QED  BY <1>1, <1>2, <1>4 DEF GoesOn, Goes, IngestTypes

(* The run is over. *)
LEMMA EndsDo ==
  ASSUME IngestConstants, IngestTypes, NEW r \in Workers, run' = [run EXCEPT ![r] = Idle]
  PROVE  /\ run' \in [Workers -> Asked] /\ run'[r] = Idle
         /\ \A o \in Workers \ {r} : run'[o] = run[o]
         /\ Dated(run'[r].daily) /\ Dated(run'[r].hourly) /\ run'[r].today <= today
<1>1. run' \in [Workers -> Asked] /\ run'[r] = Idle /\ \A o \in Workers \ {r} : run'[o] = run[o]
  BY IdleIs, OneRecord
<1>2. 0 <= today
  BY DEF IngestTypes, IngestConstants, Days
<1> QED  BY <1>1, <1>2, IdleIs DEF Idle

LEMMA FetchedIs ==
  ASSUME IngestTypes, NEW r \in Workers
  PROVE  /\ Fetched(r) \in [Timeframes -> Bars]
         /\ \A tf \in Timeframes : Dated(Fetched(r)[tf])
         /\ Fetched(r)["1d"] = run[r].daily /\ Fetched(r)["1h"] = run[r].hourly
         /\ Fetched(r)["4h"] = FourHourly(run[r].hourly)
<1>1. /\ run[r].daily \in Bars /\ run[r].hourly \in Bars
      /\ Dated(run[r].daily) /\ Dated(run[r].hourly)
  BY DEF IngestTypes, Asked
<1>2. FourHourly(run[r].hourly) \in Bars /\ Dated(FourHourly(run[r].hourly))
  BY <1>1, FourHourlyIs DEF Dated
<1>3. /\ Fetched(r)["1d"] = run[r].daily /\ Fetched(r)["1h"] = run[r].hourly
      /\ Fetched(r)["4h"] = FourHourly(run[r].hourly)
      /\ DOMAIN Fetched(r) = Timeframes /\ Fetched(r) = [tf \in Timeframes |-> Fetched(r)[tf]]
  BY DEF Fetched, Timeframes
<1> QED  BY <1>1, <1>2, <1>3 DEF Timeframes

(* What is stored stays, and what was fetched is stored. *)
Adds(r, tf) ==
  IF tf \in run[r].timeframes
  THEN /\ DOMAIN (candles'[tf]) = DOMAIN candles[tf] \cup DOMAIN Fetched(r)[tf]
       /\ \A d \in DOMAIN Fetched(r)[tf] : candles'[tf][d] = Fetched(r)[tf][d]
       /\ \A d \in DOMAIN candles[tf] \ DOMAIN Fetched(r)[tf] :
            candles'[tf][d] = candles[tf][d]
  ELSE candles'[tf] = candles[tf]

LEMMA WritesDo ==
  ASSUME IngestConstants, IngestTypes, NEW r \in Workers, candles' = Written(r)
  PROVE  /\ candles' \in [Timeframes -> Bars]
         /\ \A tf \in Timeframes : Dated(candles'[tf]) /\ Adds(r, tf)
<1>1. ASSUME NEW tf \in Timeframes, tf \in run[r].timeframes
      PROVE  candles'[tf] \in Bars /\ Dated(candles'[tf]) /\ Adds(r, tf)
  <2>1. candles[tf] \in Bars /\ Fetched(r)[tf] \in Bars
        /\ Dated(candles[tf]) /\ Dated(Fetched(r)[tf])
    BY FetchedIs DEF IngestTypes
  <2> DEFINE old == candles[tf]
             new == Fetched(r)[tf]
             U == Upsert(old, new)
  <2>2. candles'[tf] = U
    BY <1>1 DEF Written
  <2> HIDE DEF old, new
  <2>3. /\ U \in Bars /\ DOMAIN U = DOMAIN old \cup DOMAIN new
        /\ \A d \in DOMAIN new : U[d] = new[d]
        /\ \A d \in DOMAIN old \ DOMAIN new : U[d] = old[d]
    <3>1. old \in Bars /\ new \in Bars
      BY <2>1 DEF old, new
    <3> QED  BY <3>1, UpsertIs
  <2> HIDE DEF U
  <2>4. Dated(candles'[tf])
    BY <2>1, <2>2, <2>3 DEF Dated, old, new
  <2> QED  BY <1>1, <2>2, <2>3, <2>4 DEF Adds, old, new
<1>2. ASSUME NEW tf \in Timeframes, tf \notin run[r].timeframes
      PROVE  candles'[tf] \in Bars /\ Dated(candles'[tf]) /\ Adds(r, tf)
  <2>1. candles'[tf] = candles[tf]
    BY <1>2 DEF Written
  <2> QED  BY <1>2, <2>1 DEF Adds, IngestTypes
<1>3. DOMAIN candles' = Timeframes /\ candles' = [tf \in Timeframes |-> candles'[tf]]
  BY DEF Written
<1> QED  BY <1>1, <1>2, <1>3

LEMMA IngestInitTypes == ASSUME IngestConstants, IngestInit  PROVE IngestTypes /\ RebuildsKnow
<1> DEFINE D == {e \in Trading : e < FirstDay}
           B == [d \in D |-> {}]
<1>1. today \in Days /\ 0 \in 0..MaxFailures /\ 0 <= today
  BY DEF IngestConstants, IngestInit, Days
<1>2. D \in SUBSET Days /\ D \subseteq Trading \cap 1..today
  <2> SUFFICES ASSUME NEW e \in Trading, e < FirstDay  PROVE e \in Days /\ e \in 1..today
    OBVIOUS
  <2>1. e \in 1..LastDay /\ FirstDay \in Nat /\ LastDay \in Nat /\ today = FirstDay
    BY DEF IngestConstants, IngestInit, Days
  <2> QED  BY <2>1 DEF Days
<1>3. B \in [D -> SUBSET ExDates] /\ DOMAIN B = D
  OBVIOUS
<1>4. B \in Bars /\ Dated(B)
  BY <1>2, <1>3 DEF Bars, Dated
<1>5. candles = [tf \in Timeframes |-> B] /\ run = [r \in Workers |-> Idle]
  BY DEF IngestInit
<1> HIDE DEF D, B
<1>6. candles \in [Timeframes -> Bars] /\ \A tf \in Timeframes : Dated(candles[tf])
  BY <1>4, <1>5
<1>7. run \in [Workers -> Asked]
      /\ \A r \in Workers : Dated(run[r].daily) /\ Dated(run[r].hourly) /\ run[r].today = 0
  BY <1>5, IdleIs DEF Idle
<1>8. RebuildsKnow
  BY <1>5 DEF RebuildsKnow, Idle
<1> QED  BY <1>1, <1>6, <1>7, <1>8 DEF IngestInit, IngestTypes

LEMMA GoesTypes == ASSUME IngestTypes, NEW r \in Workers, Goes(r)  PROVE IngestTypes'
<1>1. \A o \in Workers : Dated(run'[o].daily) /\ Dated(run'[o].hourly) /\ run'[o].today <= today
  BY DEF IngestTypes, Goes
<1> QED  BY <1>1 DEF IngestTypes, Goes, Dated

(* All worker steps but the commits leave what is stored alone. *)
LEMMA WorksQuietly ==
  ASSUME IngestConstants, IngestTypes, NEW r \in Workers,
         FetchesDaily(r) \/ Compares(r) \/ FetchesHourly(r) \/ SkipsHourly(r)
         \/ RefetchesDaily(r) \/ RefetchesHourly(r) \/ Refuses(r) \/ Fails(r)
  PROVE  Goes(r)
<1>1. CASE FetchesDaily(r)
  <2>1. Served("1d", StartDate(r, "1d")) \in Bars /\ Dated(Served("1d", StartDate(r, "1d")))
    BY ServedIs
  <2> QED  BY <1>1, <2>1, GetsDaily DEF FetchesDaily, GoesOn
<1>2. CASE Compares(r)
  BY <1>2, TurnsTo DEF Compares, GoesOn
<1>3. CASE FetchesHourly(r)
  <2>1. Served("1h", StartDate(r, "1h")) \in Bars /\ Dated(Served("1h", StartDate(r, "1h")))
    BY ServedIs
  <2> QED  BY <1>3, <2>1, GetsHourly DEF FetchesHourly, GoesOn
<1>4. CASE SkipsHourly(r)
  BY <1>4, TurnsTo DEF SkipsHourly, GoesOn
<1>5. CASE RefetchesDaily(r)
  <2>1. Served("1d", FullStart) \in Bars /\ Dated(Served("1d", FullStart))
    BY ServedIs
  <2> QED  BY <1>5, <2>1, GetsDaily DEF RefetchesDaily, GoesOn
<1>6. CASE RefetchesHourly(r)
  <2>1. Served("1h", FullStart) \in Bars /\ Dated(Served("1h", FullStart))
    BY ServedIs
  <2> QED  BY <1>6, <2>1, GetsHourly DEF RefetchesHourly, GoesOn
<1>7. CASE Refuses(r) \/ Fails(r)
  <2>1. failures' \in 0..MaxFailures
    <3>1. failures \in 0..MaxFailures /\ MaxFailures \in Nat
      BY DEF IngestTypes, IngestConstants
    <3>2. failures' = failures \/ (failures < MaxFailures /\ failures' = failures + 1)
      BY <1>7 DEF Refuses, Fails
    <3> QED  BY <3>1, <3>2
  <2>2. run' = [run EXCEPT ![r] = Idle]
        /\ UNCHANGED <<hidden, today, closed, folded, candles>>
    BY <1>7 DEF Refuses, Fails
  <2>3. hidden' \in BOOLEAN
    BY <2>2 DEF IngestTypes
  <2> QED  BY <2>1, <2>2, <2>3, EndsDo DEF Goes
<1> QED  BY <1>1, <1>2, <1>3, <1>4, <1>5, <1>6, <1>7

(* A worker commits. *)
LEMMA CommitsDo ==
  ASSUME IngestConstants, IngestTypes, NEW r \in Workers, Writes(r) \/ Replaces(r)
  PROVE  /\ IngestTypes' /\ run'[r] = Idle /\ \A o \in Workers \ {r} : run'[o] = run[o]
         /\ UNCHANGED <<today, closed, folded>>
<1>1. /\ run' = [run EXCEPT ![r] = Idle] /\ UNCHANGED <<today, closed, folded, failures>>
      /\ hidden' \in BOOLEAN
  BY DEF Writes, Replaces, Commits, IngestTypes
<1>2. candles' = Written(r) \/ candles' = Fetched(r)
  BY DEF Writes, Replaces, Commits
<1>3. candles' \in [Timeframes -> Bars] /\ \A tf \in Timeframes : Dated(candles'[tf])
  BY <1>2, WritesDo, FetchedIs
<1>4. /\ run' \in [Workers -> Asked] /\ run'[r] = Idle
      /\ \A o \in Workers \ {r} : run'[o] = run[o]
      /\ Dated(run'[r].daily) /\ Dated(run'[r].hourly) /\ run'[r].today <= today
  BY <1>1, EndsDo
<1>5. \A o \in Workers : Dated(run'[o].daily) /\ Dated(run'[o].hourly) /\ run'[o].today <= today
  BY <1>4 DEF IngestTypes
<1> QED  BY <1>1, <1>3, <1>4, <1>5 DEF IngestTypes, Dated

(* Fyers, the market and the calendar. *)
LEMMA WorldTypes ==
  ASSUME IngestConstants, IngestTypes,
         Closes \/ NextDay \/ (\E x \in ExDates : Readjusts(x)) \/ UNCHANGED ingestVars
  PROVE  IngestTypes' /\ UNCHANGED <<run, candles>>
<1>1. CASE Closes
  BY <1>1 DEF Closes, IngestTypes, Dated
<1>2. CASE NextDay
  <2>1. today \in 1..LastDay /\ LastDay \in Nat /\ today < LastDay /\ today' = today + 1
    BY <1>2 DEF NextDay, IngestTypes, IngestConstants, Days
  <2>2. today' \in Days /\ 1..today \subseteq 1..today' /\ \A n \in 0..LastDay : n <= today => n <= today'
    BY <2>1 DEF Days
  <2>3. run' = run /\ candles' = candles /\ closed' \in BOOLEAN /\ UNCHANGED <<folded, hidden, failures>>
    BY <1>2 DEF NextDay
  <2>4. \A X : Dated(X) => Dated(X)'
    BY <2>2 DEF Dated
  <2>5. \A r \in Workers : run[r].today \in 0..LastDay
    BY DEF IngestTypes, Asked
  <2> QED  BY <2>2, <2>3, <2>4, <2>5 DEF IngestTypes
<1>3. CASE \E x \in ExDates : Readjusts(x)
  BY <1>3 DEF Readjusts, IngestTypes, Dated
<1>4. CASE UNCHANGED ingestVars
  BY <1>4 DEF ingestVars, IngestTypes, Dated
<1> QED  BY <1>1, <1>2, <1>3, <1>4

(* A run begins with a request, the job's or one of the API. *)
LEMMA RunBegins ==
  ASSUME IngestConstants, JobBegins \/ ApiBegins
  PROVE  \E r \in Workers : \E req \in Asks :
           /\ Begins(r, req)
           /\ req.timeframes = Timeframes \/ req \in ApiRequests
<1>1. CASE JobBegins
  <2> DEFINE req == [mode |-> "incremental", timeframes |-> Timeframes]
  <2>1. req \in Asks
    BY DEF Asks, Timeframes
  <2> QED  BY <1>1, <2>1 DEF JobBegins, Workers
<1>2. CASE ApiBegins
  BY <1>2 DEF ApiBegins, IngestConstants, Workers, Asks
<1> QED  BY <1>1, <1>2

LEMMA TypesKept ==
  ASSUME IngestConstants, IngestTypes, [IngestNext]_ingestVars
  PROVE  IngestTypes'
<1>1. ASSUME JobBegins \/ ApiBegins  PROVE IngestTypes'
  <2>1. PICK r \in Workers, req \in Asks : Begins(r, req)
    BY <1>1, RunBegins
  <2> QED  BY <2>1, BeginsDoes, GoesTypes
<1>2. ASSUME NEW r \in Workers, Works(r) \/ Fails(r)  PROVE IngestTypes'
  BY <1>2, WorksQuietly, GoesTypes, CommitsDo DEF Works
<1> QED  BY <1>1, <1>2, WorldTypes DEF IngestNext

-----------------------------------------------------------------------------
(* What a rebuild holds.                                                   *)

LEMMA FullCovers ==
  ASSUME IngestConstants, IngestTypes, NEW r \in Workers, NEW tf
  PROVE  Covers(Served(tf, FullStart), run[r].today)
<1>1. ASSUME NEW e \in Trading, e < run[r].today  PROVE e >= FullStart /\ Complete(tf, e)
  <2>1. e \in 1..LastDay /\ today \in 1..LastDay /\ LastDay \in Nat
        /\ run[r].today \in 0..LastDay /\ run[r].today <= today
    BY DEF IngestConstants, IngestTypes, Days, Asked
  <2> QED  BY <1>1, <2>1 DEF Complete, FullStart
<1> QED  BY <1>1, ServedIs DEF Covers

(* A rebuild has fetched all before it replaces anything. *)
Knows(x) ==
  /\ x.step \in {"rehourly", "replace"} => Covers(x.daily, x.today)
  /\ x.step = "replace" => Covers(x.hourly, x.today)

LEMMA OthersKnow ==
  ASSUME RebuildsKnow, NEW r \in Workers, \A o \in Workers \ {r} : run'[o] = run[o],
         Knows(run'[r])
  PROVE  RebuildsKnow'
<1>1. \A o \in Workers : Knows(run'[o])
  BY DEF RebuildsKnow, Knows
<1> QED  BY <1>1 DEF RebuildsKnow, Knows

LEMMA KnowsKept ==
  ASSUME IngestConstants, IngestTypes, RebuildsKnow, [IngestNext]_ingestVars
  PROVE  RebuildsKnow'
<1>1. ASSUME JobBegins \/ ApiBegins  PROVE RebuildsKnow'
  <2>1. PICK r \in Workers, req \in Asks : Begins(r, req)
    BY <1>1, RunBegins
  <2> QED  BY <2>1, BeginsDoes, OthersKnow DEF Goes, Knows
<1>2. ASSUME NEW r \in Workers, Writes(r) \/ Replaces(r)  PROVE RebuildsKnow'
  BY <1>2, CommitsDo, OthersKnow DEF Idle, Knows
<1>3. ASSUME NEW r \in Workers, Refuses(r) \/ Fails(r)  PROVE RebuildsKnow'
  BY <1>3, EndsDo, OthersKnow DEF Refuses, Fails, Idle, Knows
<1>4. ASSUME NEW r \in Workers, FetchesDaily(r)  PROVE RebuildsKnow'
  <2>1. Served("1d", StartDate(r, "1d")) \in Bars /\ Dated(Served("1d", StartDate(r, "1d")))
    BY ServedIs
  <2>2. GoesOn(r) /\ run'[r].step \in {"compare", "hourly"}
    BY <1>4, <2>1, GetsDaily DEF FetchesDaily
  <2> QED  BY <2>2, OthersKnow DEF GoesOn, Goes, Knows
<1>5. ASSUME NEW r \in Workers, Compares(r) \/ SkipsHourly(r)  PROVE RebuildsKnow'
  <2>1. GoesOn(r) /\ run'[r].step \in {"refetch", "hourly", "write"}
    BY <1>5, TurnsTo DEF Compares, SkipsHourly
  <2> QED  BY <2>1, OthersKnow DEF GoesOn, Goes, Knows
<1>6. ASSUME NEW r \in Workers, FetchesHourly(r)  PROVE RebuildsKnow'
  <2>1. Served("1h", StartDate(r, "1h")) \in Bars /\ Dated(Served("1h", StartDate(r, "1h")))
    BY ServedIs
  <2>2. GoesOn(r) /\ run'[r].step = "write"
    BY <1>6, <2>1, GetsHourly DEF FetchesHourly
  <2> QED  BY <2>2, OthersKnow DEF GoesOn, Goes, Knows
<1>7. ASSUME NEW r \in Workers, RefetchesDaily(r)  PROVE RebuildsKnow'
  <2>1. Served("1d", FullStart) \in Bars /\ Dated(Served("1d", FullStart))
    BY ServedIs
  <2>2. GoesOn(r) /\ run'[r].step = "rehourly" /\ run'[r].daily \in {Served("1d", FullStart), NoBars}
    BY <1>7, <2>1, GetsDaily DEF RefetchesDaily
  <2>3. Covers(run'[r].daily, run'[r].today)
    BY <2>2, FullCovers DEF GoesOn, Covers
  <2> QED  BY <2>2, <2>3, OthersKnow DEF GoesOn, Goes, Knows
<1>8. ASSUME NEW r \in Workers, RefetchesHourly(r)  PROVE RebuildsKnow'
  <2>1. Served("1h", FullStart) \in Bars /\ Dated(Served("1h", FullStart))
    BY ServedIs
  <2>2. GoesOn(r) /\ run'[r].step = "replace" /\ run'[r].daily = run[r].daily
        /\ run'[r].hourly \in {Served("1h", FullStart), NoBars}
    BY <1>8, <2>1, GetsHourly DEF RefetchesHourly
  <2>3. Covers(run'[r].hourly, run'[r].today)
    BY <2>2, FullCovers DEF GoesOn, Covers
  <2>4. Covers(run'[r].daily, run'[r].today)
    BY <1>8, <2>2 DEF GoesOn, RebuildsKnow, RefetchesHourly
  <2> QED  BY <2>2, <2>3, <2>4, OthersKnow DEF GoesOn, Goes, Knows
<1>9. ASSUME Closes \/ NextDay \/ (\E x \in ExDates : Readjusts(x)) \/ UNCHANGED ingestVars
      PROVE  RebuildsKnow'
  BY <1>9, WorldTypes DEF RebuildsKnow
<1> QED  BY <1>1, <1>2, <1>3, <1>4, <1>5, <1>6, <1>7, <1>8, <1>9 DEF IngestNext, Works

THEOREM IngestTypesHold == IngestSpec => [](IngestTypes /\ RebuildsKnow)
<1>1. IngestInit => IngestTypes /\ RebuildsKnow
  BY IngestConstants, IngestInitTypes
<1>2. IngestTypes /\ RebuildsKnow /\ [IngestNext]_ingestVars => (IngestTypes /\ RebuildsKnow)'
  BY IngestConstants, TypesKept, KnowsKept
<1> QED  BY <1>1, <1>2, PTL DEF IngestSpec

THEOREM IngestTypeCorrect == IngestSpec => []IngestTypeOK
<1>1. IngestTypes => IngestTypeOK
  <2> SUFFICES ASSUME IngestTypes  PROVE IngestTypeOK
    OBVIOUS
  <2>1. DOMAIN candles = Timeframes /\ \A tf \in Timeframes : candles[tf] \in Bars
    BY DEF IngestTypes
  <2>2. ASSUME NEW r \in Workers
        PROVE  /\ run[r].step \in {"idle", "daily", "compare", "refetch", "rehourly",
                                   "replace", "hourly", "write"}
               /\ run[r].today \in 0..today /\ run[r].daily \in Bars /\ run[r].hourly \in Bars
    <3>1. run[r] \in Asked /\ run[r].today <= today /\ today \in Days
      BY DEF IngestTypes
    <3> QED  BY <3>1 DEF Asked, Days
  <2> QED  BY <2>1, <2>2 DEF IngestTypes, IngestTypeOK
<1> QED  BY <1>1, IngestTypesHold, PTL

(* A rebuild loses no bar of a day before its own. *)
THEOREM RebuildsLoseNothing == IngestSpec => LosesOnlyNewer
<1> DEFINE Loses == \A tf \in Timeframes : \A d \in DOMAIN candles[tf] \ DOMAIN (candles'[tf]) :
                      \E r \in Workers : run[r].step = "replace" /\ d >= run[r].today
<1>1. IngestTypes /\ RebuildsKnow /\ [IngestNext]_ingestVars => [Loses]_ingestVars
  <2> SUFFICES ASSUME IngestTypes, RebuildsKnow, IngestNext,
                      NEW tf \in Timeframes, NEW d \in DOMAIN candles[tf] \ DOMAIN (candles'[tf])
               PROVE  \E r \in Workers : run[r].step = "replace" /\ d >= run[r].today
    OBVIOUS
  <2>0. IngestConstants
    BY IngestConstants
  <2>1. candles' # candles
    OBVIOUS
  <2>2. ~(JobBegins \/ ApiBegins)
    BY <2>1 DEF JobBegins, ApiBegins, Begins
  <2>3. PICK r \in Workers : Writes(r) \/ Replaces(r)
    BY <2>0, <2>1, <2>2, WorldTypes, WorksQuietly DEF IngestNext, Works, Goes
  <2>4. ~Writes(r)
    <3> SUFFICES ASSUME Writes(r)  PROVE FALSE
      OBVIOUS
    <3>1. Adds(r, tf)
      BY <2>0, WritesDo DEF Writes, Commits
    <3> QED  BY <3>1 DEF Adds
  <2>5. run[r].step = "replace" /\ Replaceable(r) /\ candles' = Fetched(r)
    BY <2>3, <2>4 DEF Replaces, Commits
  <2>6. Covers(run[r].daily, run[r].today) /\ Covers(run[r].hourly, run[r].today)
    BY <2>5 DEF RebuildsKnow
  <2>7. d \in Trading /\ d \in 1..LastDay /\ today \in 1..LastDay /\ LastDay \in Nat
        /\ run[r].today \in 0..LastDay /\ run[r].today <= today
    BY <2>0 DEF IngestTypes, Dated, IngestConstants, Days, Asked
  <2>8. ASSUME d < run[r].today  PROVE FALSE
    <3>1. d \in DOMAIN run[r].daily /\ d \in DOMAIN run[r].hourly
      BY <2>5, <2>6, <2>7, <2>8 DEF Covers, Replaceable
    <3>2. Complete("4h", d)
      BY <2>7, <2>8 DEF Complete
    <3>3. d \in DOMAIN FourHourly(run[r].hourly)
      BY <3>1, <3>2 DEF FourHourly
    <3>4. tf \in {"1d", "1h", "4h"}
      BY DEF Timeframes
    <3> QED  BY <2>5, <3>1, <3>3, <3>4, FetchedIs
  <2> QED  BY <2>5, <2>7, <2>8
<1> HIDE DEF Loses
<1>2. IngestSpec => [][Loses]_ingestVars
  BY <1>1, IngestTypesHold, PTL DEF IngestSpec
<1> QED  BY <1>2 DEF Loses, LosesOnlyNewer

-----------------------------------------------------------------------------
(* No day is missing.                                                      *)

(* Bars of all days before the last of them. *)
Full(bars) == \A d \in DOMAIN bars : \A e \in Trading : e < d => e \in DOMAIN bars

(* The days missing before an answer are stored, for good: they are so old *)
(* that no rebuild which is still under way can lose them.                 *)
Follows(bars, tf) ==
  \A d \in DOMAIN bars : \A e \in Trading \ DOMAIN bars :
    e < d => e \in DOMAIN candles[tf] /\ e + 1 < today

Sound(x) ==
  /\ Follows(x.daily, "1d") /\ Follows(x.hourly, "1h") /\ Follows(x.hourly, "4h")
  /\ x.step # "idle" => today <= x.today + 1
  /\ "1h" \in x.timeframes <=> "4h" \in x.timeframes
  /\ x.step \in {"rehourly", "replace"} => Full(x.daily)
  /\ x.step = "replace" => Full(x.hourly)

(* The 4h bars are those of the hourly ones, of all days but perhaps the   *)
(* last.                                                                   *)
KeepsUp ==
  /\ \A d, e \in DOMAIN candles["1h"] : e < d => e \in DOMAIN candles["4h"]
  /\ \A d \in DOMAIN candles["4h"] :
       Complete("4h", d) /\ d \in DOMAIN candles["1h"] /\ candles["1h"][d] = candles["4h"][d]

WholeInv ==
  /\ \A tf \in Timeframes : Full(candles[tf])
  /\ KeepsUp
  /\ \A r \in Workers : Sound(run[r])

(* What the proofs below suppose of the settings and the requests. *)
HourlyTogether == \A req \in ApiRequests : "1h" \in req.timeframes <=> "4h" \in req.timeframes

LEMMA DaysAre ==
  ASSUME IngestConstants, IngestTypes
  PROVE  /\ today \in Nat /\ \A e \in Trading : e \in Nat
         /\ \A tf \in Timeframes : \A d \in DOMAIN candles[tf] : d \in Trading /\ d <= today
         /\ \A r \in Workers :
              /\ run[r].today \in Nat /\ run[r].today <= today
              /\ \A d \in DOMAIN run[r].daily \cup DOMAIN run[r].hourly : d \in Trading /\ d <= today
<1>1. today \in 1..LastDay /\ LastDay \in Nat /\ Trading \subseteq 1..LastDay
  BY DEF IngestConstants, IngestTypes, Days
<1>2. \A r \in Workers : run[r].today \in Nat /\ run[r].today <= today
  BY <1>1 DEF IngestTypes, Asked
<1> QED  BY <1>1, <1>2 DEF IngestTypes, Dated

LEMMA InitWhole == ASSUME IngestConstants, IngestInit  PROVE WholeInv
<1> DEFINE D == {e \in Trading : e < FirstDay}
<1>1. \A tf \in Timeframes : DOMAIN candles[tf] = D /\ \A d \in D : candles[tf][d] = {}
  BY DEF IngestInit
<1>2. \A d \in D, e \in Trading : e < d => e \in D
  <2>1. \A e \in Trading : e \in Nat
    BY DEF IngestConstants, Days
  <2>2. FirstDay \in Nat
    BY DEF IngestConstants
  <2> QED  BY <2>1, <2>2
<1>3. \A d \in D : Complete("4h", d)
  BY DEF IngestInit, Complete
<1> HIDE DEF D
<1>4. \A tf \in Timeframes : Full(candles[tf])
  BY <1>1, <1>2 DEF Full
<1>5. KeepsUp
  <2>1. "1h" \in Timeframes /\ "4h" \in Timeframes
    BY DEF Timeframes
  <2>2. \A d \in D : d \in Trading
    BY DEF D
  <2> QED  BY <1>1, <1>2, <1>3, <2>1, <2>2 DEF KeepsUp
<1>6. \A r \in Workers : run[r] = Idle
  BY DEF IngestInit
<1>7. Sound(Idle)
  BY NoBarsAre DEF Sound, Follows, Full, Idle, Timeframes
<1> QED  BY <1>4, <1>5, <1>6, <1>7 DEF WholeInv

(* The answer for a timeframe starts where the stored bars end. *)
LEMMA AnswerFollows ==
  ASSUME IngestConstants, IngestTypes, WholeInv, Overlap >= 1, NEW r \in Workers,
         NEW tf \in Timeframes,
         NEW x \in DOMAIN Served(tf, StartDate(r, tf)),
         NEW e \in Trading, e \notin DOMAIN Served(tf, StartDate(r, tf)), e < x
  PROVE  /\ e \in DOMAIN candles[tf] /\ e + 1 < today
         /\ \E m \in DOMAIN candles[tf] : e < m
<1> DEFINE s == StartDate(r, tf)
<1>1. x \in Trading /\ Complete(tf, x) /\ ~(e >= s /\ Complete(tf, e))
  BY ServedIs
<1>2. today \in Nat /\ e \in Nat /\ x \in Nat /\ e >= 1 /\ Overlap \in Nat
  BY <1>1, DaysAre DEF IngestConstants, Days
<1>3. x <= today
  BY <1>1, <1>2 DEF Complete
<1>4. Complete(tf, e)
  BY <1>2, <1>3 DEF Complete
<1>5. ~(e >= s)
  BY <1>1, <1>4
<1>6. Incremental(r, tf) /\ s = LastStored(tf) - Overlap
  BY <1>2, <1>5 DEF StartDate, FullStart
<1>7. candles[tf] # NoBars /\ candles[tf] \in Bars
  BY <1>6 DEF Incremental, IngestTypes
<1>8. DOMAIN candles[tf] # {} /\ DOMAIN candles[tf] \in SUBSET (1..today)
  BY <1>7, BarsHave DEF IngestTypes, Dated
<1>9. LastStored(tf) \in DOMAIN candles[tf]
  BY <1>2, <1>8, LastOf DEF LastStored
<1>10. LastStored(tf) \in Nat /\ LastStored(tf) <= today
  BY <1>2, <1>8, <1>9
<1> DEFINE m == LastStored(tf)
<1> HIDE DEF m, s
<1>11. m \in Nat /\ m <= today /\ m \in DOMAIN candles[tf] /\ s = m - Overlap
  BY <1>6, <1>9, <1>10 DEF m, s
<1>12. e < m /\ e + 1 < today
  BY <1>2, <1>5, <1>11
<1>13. e \in DOMAIN candles[tf]
  BY <1>11, <1>12 DEF WholeInv, Full
<1> QED  BY <1>11, <1>12, <1>13

(* A step that leaves what is stored and the clock alone. *)
LEMMA QuietWhole ==
  ASSUME WholeInv, NEW r \in Workers, \A o \in Workers \ {r} : run'[o] = run[o],
         UNCHANGED <<today, closed, candles>>, Sound(run'[r])
  PROVE  WholeInv'
<1>1. KeepsUp'
  BY DEF WholeInv, KeepsUp, Complete
<1>2. \A o \in Workers : Sound(run'[o])
  BY DEF WholeInv
<1>3. \A o \in Workers : Sound(run[o])'
  BY <1>2 DEF Sound, Follows
<1> QED  BY <1>1, <1>3 DEF WholeInv

(* A whole answer has no gap. *)
LEMMA FullAnswer ==
  ASSUME IngestConstants, IngestTypes, NEW tf  PROVE Full(Served(tf, FullStart))
<1> SUFFICES ASSUME NEW d \in DOMAIN Served(tf, FullStart), NEW e \in Trading, e < d
             PROVE  e \in DOMAIN Served(tf, FullStart)
  BY DEF Full
<1>1. d \in Trading /\ Complete(tf, d)
  BY ServedIs
<1>2. today \in Nat /\ e \in Nat /\ d \in Nat /\ e >= 1
  BY <1>1, DaysAre DEF IngestConstants, Days
<1>3. Complete(tf, e) /\ e >= FullStart
  BY <1>1, <1>2 DEF Complete, FullStart
<1> QED  BY <1>3, ServedIs

LEMMA FullFollows ==
  ASSUME NEW bars, NEW tf, Full(bars)  PROVE Follows(bars, tf)
BY DEF Full, Follows

LEMMA FetchesDailyWhole ==
  ASSUME IngestConstants, IngestTypes, WholeInv, Overlap >= 1, NEW r \in Workers,
         FetchesDaily(r) \/ RefetchesDaily(r)
  PROVE  WholeInv'
<1>1. PICK answer \in {Served("1d", StartDate(r, "1d")), Served("1d", FullStart)} :
         /\ FetchesDaily(r) => answer = Served("1d", StartDate(r, "1d"))
         /\ RefetchesDaily(r) => answer = Served("1d", FullStart)
         /\ \E next \in {"compare", "hourly", "rehourly"} :
              /\ Gets(r, "daily", answer, next)
              /\ next = "rehourly" => RefetchesDaily(r)
  BY DEF FetchesDaily, RefetchesDaily
<1>2. answer \in Bars /\ Dated(answer)
  <2>1. \A since : Served("1d", since) \in Bars /\ Dated(Served("1d", since))
    BY ServedIs
  <2> QED  BY <2>1
<1>3. run[r].step # "idle"
  BY DEF FetchesDaily, RefetchesDaily
<1>4. /\ GoesOn(r) /\ run'[r].daily \in {answer, NoBars} /\ run'[r].hourly = run[r].hourly
      /\ run'[r].step \in {"compare", "hourly", "rehourly"}
      /\ run'[r].step = "rehourly" => RefetchesDaily(r)
  BY <1>1, <1>2, <1>3, GetsDaily
<1>5. Follows(answer, "1d") /\ (RefetchesDaily(r) => Full(answer))
  <2>1. CASE FetchesDaily(r)
    <3>1. Follows(answer, "1d")
      BY <1>1, <2>1, AnswerFollows DEF Follows, Timeframes
    <3> QED  BY <2>1, <3>1 DEF FetchesDaily, RefetchesDaily
  <2>2. CASE RefetchesDaily(r)
    BY <1>1, <2>2, FullAnswer, FullFollows
  <2> QED  BY <2>1, <2>2
<1>6. Follows(NoBars, "1d") /\ Full(NoBars)
  BY NoBarsAre DEF Follows, Full
<1>7. Sound(run'[r])
  BY <1>3, <1>4, <1>5, <1>6 DEF Sound, WholeInv, GoesOn
<1> QED  BY <1>4, <1>7, QuietWhole DEF GoesOn, Goes

LEMMA FetchesHourlyWhole ==
  ASSUME IngestConstants, IngestTypes, WholeInv, Overlap >= 1, NEW r \in Workers,
         FetchesHourly(r) \/ RefetchesHourly(r)
  PROVE  WholeInv'
<1>1. PICK answer \in {Served("1h", StartDate(r, "1h")), Served("1h", FullStart)} :
         /\ FetchesHourly(r) => answer = Served("1h", StartDate(r, "1h"))
         /\ RefetchesHourly(r) => answer = Served("1h", FullStart)
         /\ \E next \in {"write", "replace"} :
              /\ Gets(r, "hourly", answer, next)
              /\ next = "replace" => RefetchesHourly(r)
  BY DEF FetchesHourly, RefetchesHourly
<1>2. answer \in Bars /\ Dated(answer)
  <2>1. \A since : Served("1h", since) \in Bars /\ Dated(Served("1h", since))
    BY ServedIs
  <2> QED  BY <2>1
<1>3. run[r].step # "idle" /\ (RefetchesHourly(r) => run[r].step = "rehourly")
  BY DEF FetchesHourly, RefetchesHourly
<1>4. /\ GoesOn(r) /\ run'[r].hourly \in {answer, NoBars} /\ run'[r].daily = run[r].daily
      /\ run'[r].step \in {"write", "replace"}
      /\ run'[r].step = "replace" => RefetchesHourly(r)
  BY <1>1, <1>2, <1>3, GetsHourly
<1>5. /\ Follows(answer, "1h") /\ Follows(answer, "4h")
      /\ RefetchesHourly(r) => Full(answer)
  <2>1. CASE FetchesHourly(r)
    <3>1. ASSUME NEW x \in DOMAIN answer, NEW e \in Trading \ DOMAIN answer, e < x
          PROVE  /\ e \in DOMAIN candles["1h"] /\ e \in DOMAIN candles["4h"] /\ e + 1 < today
      <4>1. /\ e \in DOMAIN candles["1h"] /\ e + 1 < today
            /\ \E m \in DOMAIN candles["1h"] : e < m
        BY <1>1, <2>1, <3>1, AnswerFollows DEF Timeframes
      <4> QED  BY <4>1 DEF WholeInv, KeepsUp
    <3>2. Follows(answer, "1h") /\ Follows(answer, "4h")
      BY <3>1 DEF Follows
    <3> QED  BY <2>1, <3>2 DEF FetchesHourly, RefetchesHourly
  <2>2. CASE RefetchesHourly(r)
    BY <1>1, <2>2, FullAnswer, FullFollows
  <2> QED  BY <2>1, <2>2
<1>6. Follows(NoBars, "1h") /\ Follows(NoBars, "4h") /\ Full(NoBars)
  BY NoBarsAre DEF Follows, Full
<1>7. Sound(run'[r])
  BY <1>3, <1>4, <1>5, <1>6 DEF Sound, WholeInv, GoesOn
<1> QED  BY <1>4, <1>7, QuietWhole DEF GoesOn, Goes

(* An upsert closes the series up to its last day. *)
LEMMA WritesWhole ==
  ASSUME IngestConstants, IngestTypes, WholeInv, NEW r \in Workers, Writes(r)
  PROVE  WholeInv'
<1> DEFINE daily == run[r].daily
           hourly == run[r].hourly
           both == "1h" \in run[r].timeframes
<1>1. \A tf \in Timeframes : Adds(r, tf)
  BY WritesDo DEF Writes, Commits
<1>2. /\ UNCHANGED <<today, closed>>
      /\ run'[r] = Idle /\ \A o \in Workers \ {r} : run'[o] = run[o]
  BY CommitsDo
<1>3. /\ Sound(run[r]) /\ daily \in Bars /\ hourly \in Bars /\ (both <=> "4h" \in run[r].timeframes)
  BY DEF WholeInv, Sound, IngestTypes, Asked
<1>4. /\ Fetched(r)["1d"] = daily /\ Fetched(r)["1h"] = hourly
      /\ DOMAIN Fetched(r)["4h"] = {e \in DOMAIN hourly : Complete("4h", e)}
      /\ \A d \in DOMAIN Fetched(r)["4h"] : Fetched(r)["4h"][d] = hourly[d]
  <2>1. /\ Fetched(r)["1d"] = daily /\ Fetched(r)["1h"] = hourly
        /\ Fetched(r)["4h"] = FourHourly(hourly)
    BY FetchedIs
  <2>2. /\ DOMAIN FourHourly(hourly) = {e \in DOMAIN hourly : Complete("4h", e)}
        /\ \A d \in DOMAIN FourHourly(hourly) : FourHourly(hourly)[d] = hourly[d]
    BY <1>3, FourHourlyIs
  <2> QED  BY <2>1, <2>2
<1>5. ASSUME NEW d \in DOMAIN hourly, NEW e \in DOMAIN hourly, e < d  PROVE Complete("4h", e)
  <2>1. d \in Nat /\ e \in Nat /\ today \in Nat /\ d <= today
    BY DaysAre
  <2> QED  BY <1>5, <2>1 DEF Complete
<1>6. Full(candles'["1d"])
  <2>1. Adds(r, "1d") /\ Full(candles["1d"]) /\ Follows(daily, "1d")
    BY <1>1, <1>3 DEF Timeframes, WholeInv, Sound
  <2>2. DOMAIN (candles'["1d"]) = DOMAIN candles["1d"] \cup DOMAIN daily
        \/ candles'["1d"] = candles["1d"]
    BY <1>4, <2>1 DEF Adds
  <2> QED  BY <2>1, <2>2 DEF Full, Follows
<1>7. Full(candles'["1h"])
  <2>1. Adds(r, "1h") /\ Full(candles["1h"]) /\ Follows(hourly, "1h")
    BY <1>1, <1>3 DEF Timeframes, WholeInv, Sound
  <2>2. DOMAIN (candles'["1h"]) = DOMAIN candles["1h"] \cup DOMAIN hourly
        \/ candles'["1h"] = candles["1h"]
    BY <1>4, <2>1 DEF Adds
  <2> QED  BY <2>1, <2>2 DEF Full, Follows
<1>8. Full(candles'["4h"])
  <2>1. Adds(r, "4h") /\ Full(candles["4h"]) /\ Follows(hourly, "4h")
    BY <1>1, <1>3 DEF Timeframes, WholeInv, Sound
  <2>2. DOMAIN (candles'["4h"]) = DOMAIN candles["4h"] \cup {e \in DOMAIN hourly : Complete("4h", e)}
        \/ candles'["4h"] = candles["4h"]
    BY <1>4, <2>1 DEF Adds
  <2> QED  BY <1>5, <2>1, <2>2 DEF Full, Follows
<1>9. KeepsUp'
  <2>1. CASE ~both
    <3>1. candles'["1h"] = candles["1h"] /\ candles'["4h"] = candles["4h"]
      BY <1>1, <1>3, <2>1 DEF Adds, Timeframes
    <3> QED  BY <1>2, <3>1 DEF WholeInv, KeepsUp, Complete
  <2>2. CASE both
    <3>1. /\ DOMAIN (candles'["1h"]) = DOMAIN candles["1h"] \cup DOMAIN hourly
          /\ \A d \in DOMAIN hourly : candles'["1h"][d] = hourly[d]
          /\ \A d \in DOMAIN candles["1h"] \ DOMAIN hourly : candles'["1h"][d] = candles["1h"][d]
      <4>1. Adds(r, "1h")
        BY <1>1 DEF Timeframes
      <4> QED  BY <1>4, <2>2, <4>1 DEF Adds
    <3>2. /\ DOMAIN (candles'["4h"]) = DOMAIN candles["4h"] \cup {e \in DOMAIN hourly : Complete("4h", e)}
          /\ \A d \in DOMAIN hourly : Complete("4h", d) => candles'["4h"][d] = hourly[d]
          /\ \A d \in DOMAIN candles["4h"] : ~(d \in DOMAIN hourly /\ Complete("4h", d))
               => candles'["4h"][d] = candles["4h"][d]
      <4> DEFINE F == Fetched(r)["4h"]
      <4>1. Adds(r, "4h") /\ "4h" \in run[r].timeframes
        BY <1>1, <1>3, <2>2 DEF Timeframes
      <4>2. /\ DOMAIN (candles'["4h"]) = DOMAIN candles["4h"] \cup DOMAIN F
            /\ \A d \in DOMAIN F : candles'["4h"][d] = F[d]
            /\ \A d \in DOMAIN candles["4h"] \ DOMAIN F : candles'["4h"][d] = candles["4h"][d]
        BY <4>1 DEF Adds
      <4>3. /\ DOMAIN F = {e \in DOMAIN hourly : Complete("4h", e)}
            /\ \A d \in DOMAIN F : F[d] = hourly[d]
        BY <1>4
      <4> HIDE DEF F, hourly
      <4> QED  BY <4>2, <4>3
    <3>3. ASSUME NEW d \in DOMAIN (candles'["1h"]), NEW e \in DOMAIN (candles'["1h"]), e < d
          PROVE  e \in DOMAIN (candles'["4h"])
      <4>1. CASE e \in DOMAIN hourly
        <5>1. d \in Nat /\ e \in Nat /\ today \in Nat /\ d <= today
          BY <3>1, DaysAre DEF Timeframes
        <5> QED  BY <3>2, <3>3, <4>1, <5>1 DEF Complete
      <4>2. CASE e \notin DOMAIN hourly /\ d \in DOMAIN hourly
        <5>1. e \in DOMAIN candles["1h"] /\ "1h" \in Timeframes
          BY <3>1, <4>2 DEF Timeframes
        <5>2. e \in Trading
          BY <5>1, DaysAre
        <5>3. Follows(hourly, "4h")
          BY <1>3 DEF Sound
        <5> QED  BY <3>2, <3>3, <4>2, <5>2, <5>3 DEF Follows
      <4>3. CASE e \notin DOMAIN hourly /\ d \notin DOMAIN hourly
        BY <3>1, <3>2, <3>3, <4>3 DEF WholeInv, KeepsUp
      <4> QED  BY <4>1, <4>2, <4>3
    <3>4. ASSUME NEW d \in DOMAIN (candles'["4h"])
          PROVE  /\ Complete("4h", d) /\ d \in DOMAIN (candles'["1h"])
                 /\ candles'["1h"][d] = candles'["4h"][d]
      BY <3>1, <3>2 DEF WholeInv, KeepsUp
    <3> QED  BY <1>2, <3>3, <3>4 DEF KeepsUp, Complete
  <2> QED  BY <2>1, <2>2
<1>10. \A tf \in Timeframes : DOMAIN candles[tf] \subseteq DOMAIN (candles'[tf])
  BY <1>1 DEF Adds
<1>11. ASSUME NEW o \in Workers  PROVE Sound(run[o])'
  <2>1. CASE o = r
    <3>1. Sound(Idle)'
      BY NoBarsAre DEF Sound, Follows, Full, Idle, Timeframes
    <3> QED  BY <1>2, <2>1, <3>1
  <2>2. CASE o # r
    <3>1. \A bars : \A tf \in Timeframes : Follows(bars, tf) => Follows(bars, tf)'
      BY <1>2, <1>10 DEF Follows
    <3> QED  BY <1>2, <2>2, <3>1 DEF WholeInv, Sound, Timeframes
  <2> QED  BY <2>1, <2>2
<1> QED  BY <1>6, <1>7, <1>8, <1>9, <1>11 DEF WholeInv, Timeframes

(* A rebuild writes whole series, and no less than the others rely on. *)
LEMMA ReplacesWhole ==
  ASSUME IngestConstants, IngestTypes, RebuildsKnow, WholeInv, NEW r \in Workers, Replaces(r)
  PROVE  WholeInv'
<1> DEFINE daily == run[r].daily
           hourly == run[r].hourly
<1>1. /\ UNCHANGED <<today, closed>> /\ candles' = Fetched(r)
      /\ run'[r] = Idle /\ \A o \in Workers \ {r} : run'[o] = run[o]
  BY CommitsDo DEF Replaces, Commits
<1>2. hourly \in Bars /\ run[r].step = "replace" /\ daily # NoBars /\ hourly # NoBars
  BY DEF IngestTypes, Asked, Replaces, Replaceable
<1>3. /\ candles'["1d"] = daily /\ candles'["1h"] = hourly
      /\ candles'["4h"] = FourHourly(hourly)
  BY <1>1, FetchedIs
<1>4. /\ DOMAIN (candles'["4h"]) = {e \in DOMAIN hourly : Complete("4h", e)}
      /\ \A d \in DOMAIN (candles'["4h"]) : candles'["4h"][d] = hourly[d]
  BY <1>2, <1>3, FourHourlyIs
<1>5. Full(daily) /\ Full(hourly)
  BY <1>2 DEF WholeInv, Sound
<1>6. ASSUME NEW d \in DOMAIN hourly, NEW e \in DOMAIN hourly, e < d  PROVE Complete("4h", e)
  <2>1. d \in Nat /\ e \in Nat /\ today \in Nat /\ d <= today
    BY DaysAre
  <2> QED  BY <1>6, <2>1 DEF Complete
<1>7. Full(candles'["4h"])
  BY <1>4, <1>5, <1>6 DEF Full
<1>8. KeepsUp'
  BY <1>1, <1>3, <1>4, <1>6 DEF KeepsUp, Complete
<1>9. ASSUME NEW e \in Trading, e + 1 < today, NEW tf \in Timeframes
      PROVE  e \in DOMAIN (candles'[tf])
  <2>1. e < run[r].today /\ Complete("4h", e)
    <3>1. today <= run[r].today + 1
      BY <1>2 DEF WholeInv, Sound
    <3>2. e \in Nat /\ today \in Nat /\ run[r].today \in Nat
      BY DaysAre
    <3> QED  BY <1>9, <3>1, <3>2 DEF Complete
  <2>2. Covers(daily, run[r].today) /\ Covers(hourly, run[r].today)
    BY <1>2 DEF RebuildsKnow
  <2>3. e \in DOMAIN daily /\ e \in DOMAIN hourly
    BY <1>2, <2>1, <2>2 DEF Covers
  <2> QED  BY <1>3, <1>4, <2>1, <2>3 DEF Timeframes
<1>10. ASSUME NEW o \in Workers  PROVE Sound(run[o])'
  <2>1. CASE o = r
    <3>1. Sound(Idle)'
      BY NoBarsAre DEF Sound, Follows, Full, Idle, Timeframes
    <3> QED  BY <1>1, <2>1, <3>1
  <2>2. CASE o # r
    <3>1. \A bars : \A tf \in Timeframes : Follows(bars, tf) => Follows(bars, tf)'
      BY <1>1, <1>9 DEF Follows
    <3> QED  BY <1>1, <2>2, <3>1 DEF WholeInv, Sound, Timeframes
  <2> QED  BY <2>1, <2>2
<1> QED  BY <1>3, <1>5, <1>7, <1>8, <1>10 DEF WholeInv, Timeframes

LEMMA WorldWhole ==
  ASSUME IngestConstants, IngestTypes, WholeInv,
         Closes \/ NextDay \/ (\E x \in ExDates : Readjusts(x)) \/ UNCHANGED ingestVars
  PROVE  WholeInv'
<1>1. UNCHANGED <<run, candles>> /\ today \in Nat
  BY WorldTypes, DaysAre
<1>2. /\ today' = today \/ NextDay
      /\ \A d \in Trading : d <= today /\ Complete("4h", d) => Complete("4h", d)'
  BY <1>1, DaysAre DEF Closes, NextDay, Readjusts, ingestVars, Complete
<1>3. KeepsUp'
  BY <1>1, <1>2, DaysAre DEF WholeInv, KeepsUp, Timeframes
<1>4. today' \in {today, today + 1}
  BY <1>2 DEF NextDay
<1>5. ASSUME NEW r \in Workers  PROVE Sound(run[r])'
  <2>1. \A bars, tf : Follows(bars, tf) => Follows(bars, tf)'
    <3>1. \A e \in Trading : e + 1 < today => e + 1 < today'
      BY <1>1, <1>4, DaysAre
    <3> QED  BY <1>1, <3>1 DEF Follows
  <2>2. run[r].step # "idle" => today' <= run[r].today + 1
    <3>1. CASE NextDay
      BY <1>1, <3>1 DEF NextDay
    <3>2. CASE today' = today
      BY <3>2 DEF WholeInv, Sound
    <3> QED  BY <1>2, <3>1, <3>2
  <2> QED  BY <1>1, <2>1, <2>2 DEF WholeInv, Sound
<1> QED  BY <1>1, <1>3, <1>5 DEF WholeInv

LEMMA WholeKept ==
  ASSUME IngestConstants, Overlap >= 1, HourlyTogether,
         IngestTypes, RebuildsKnow, WholeInv, [IngestNext]_ingestVars
  PROVE  WholeInv'
<1>1. ASSUME JobBegins \/ ApiBegins  PROVE WholeInv'
  <2>1. PICK r \in Workers, req \in Asks :
          Begins(r, req) /\ (req.timeframes = Timeframes \/ req \in ApiRequests)
    BY <1>1, RunBegins
  <2>2. "1h" \in req.timeframes <=> "4h" \in req.timeframes
    BY <2>1 DEF HourlyTogether, Timeframes
  <2>3. Goes(r) /\ Sound(run'[r])
    <3>1. /\ Goes(r) /\ run'[r].step \in {"daily", "hourly"} /\ run'[r].today = today
          /\ run'[r].daily = NoBars /\ run'[r].hourly = NoBars
          /\ run'[r].timeframes = req.timeframes
      BY <2>1, BeginsDoes
    <3>2. today <= today + 1
      BY DaysAre
    <3> QED  BY <2>2, <3>1, <3>2, NoBarsAre DEF Sound, Follows
  <2> QED  BY <2>3, QuietWhole DEF Goes
<1>2. ASSUME NEW r \in Workers, Refuses(r) \/ Fails(r)  PROVE WholeInv'
  <2>1. Goes(r) /\ run'[r] = Idle
    BY <1>2, WorksQuietly, EndsDo DEF Refuses, Fails
  <2>2. Sound(Idle)
    BY NoBarsAre DEF Sound, Follows, Full, Idle, Timeframes
  <2> QED  BY <2>1, <2>2, QuietWhole DEF Goes
<1>3. ASSUME NEW r \in Workers, Compares(r) \/ SkipsHourly(r)  PROVE WholeInv'
  <2>1. /\ GoesOn(r) /\ run'[r].step \in {"refetch", "hourly", "write"}
        /\ run'[r].daily = run[r].daily /\ run'[r].hourly = run[r].hourly
    BY <1>3, TurnsTo DEF Compares, SkipsHourly
  <2>2. Sound(run'[r])
    BY <2>1 DEF GoesOn, WholeInv, Sound
  <2> QED  BY <2>1, <2>2, QuietWhole DEF GoesOn, Goes
<1> QED  BY <1>1, <1>2, <1>3, FetchesDailyWhole, FetchesHourlyWhole, WritesWhole,
            ReplacesWhole, WorldWhole
         DEF IngestNext, Works

(* Where runs fetch from at least a day before the last candle, and ask    *)
(* for the two intraday timeframes together, no series gets a gap.         *)
THEOREM SeriesStayWhole ==
  ASSUME Overlap >= 1, HourlyTogether  PROVE IngestSpec => []SeriesAreWhole
<1>1. IngestInit => WholeInv
  BY IngestConstants, InitWhole
<1>2. IngestTypes /\ RebuildsKnow /\ WholeInv /\ [IngestNext]_ingestVars => WholeInv'
  BY IngestConstants, WholeKept
<1>3. IngestTypes /\ WholeInv => SeriesAreWhole
  <2> SUFFICES ASSUME IngestTypes, WholeInv  PROVE SeriesAreWhole
    OBVIOUS
  <2>1. ASSUME NEW tf \in Timeframes, NEW d \in DOMAIN candles[tf], NEW e \in DOMAIN candles[tf],
               NEW f \in (d..e) \cap Trading
        PROVE  f \in DOMAIN candles[tf]
    <3>1. f \in Nat /\ e \in Nat /\ f <= e
      BY IngestConstants, DaysAre
    <3> QED  BY <3>1 DEF WholeInv, Full
  <2> QED  BY <2>1 DEF SeriesAreWhole, WholeInv, KeepsUp
<1> QED  BY <1>1, <1>2, <1>3, IngestTypesHold, PTL DEF IngestSpec

=============================================================================
