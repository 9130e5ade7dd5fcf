--------------------------- MODULE DailyJobProofs ---------------------------
(* One job at a time, once per day, and the scheduler implements DailyDuty,*)
(* for any number of ticks, days and deaths.  What the job evaluates, a lot*)
(* around any splits, is reported by the right verdict, on any bars.       *)
EXTENDS DailyJob, Evaluate, FiniteSetTheorems, NaturalsInduction, TLAPS

(* A tick that goes on holds the lock. *)
LockInv == \A t \in Ticks : tick[t].pc # "off" => lock = t

(* What a tick has read is still true of the days that were marked. *)
ReadInv ==
  \A t \in Ticks :
    /\ tick[t].pc = "read" => tick[t].cfg.last = settings.last
    /\ tick[t].pc \in {"read", "running", "marking"} => tick[t].day <= day
    /\ tick[t].pc \in {"read", "running", "marking"} =>
         \A j \in Jobs : settings.last[j] <= tick[t].day
    /\ AtWork(t) => settings.last[tick[t].job] < tick[t].day

LastInv == \A j \in Jobs : settings.last[j] <= day

OnJob(j, d) == \E t \in Ticks : AtWork(t) /\ tick[t].job = j /\ tick[t].day = d

CountInv ==
  \A j \in Jobs : \A d \in Days :
    started[j][d] <= lost[j][d] + IF d <= settings.last[j] \/ OnJob(j, d) THEN 1 ELSE 0

IInv == TypeOK /\ LockInv /\ ReadInv /\ LastInv /\ CountInv

LEMMA InitInv == Init => IInv
<1> SUFFICES ASSUME Init PROVE IInv
  OBVIOUS
<1> USE DailyJobAssumption
<1>1. TypeOK
  <2>1. settings \in Settings
    <3>1. settings \in [time : [Jobs -> JobTimes], enabled : {TRUE}, last : [Jobs -> {None}]]
      BY DEF Init
    <3>2. \A f \in [Jobs -> JobTimes] : f \in [Jobs -> Slots]
      OBVIOUS
    <3>3. \A f \in [Jobs -> {None}] : f \in [Jobs -> Days \cup {None}]
      OBVIOUS
    <3> QED  BY <3>1, <3>2, <3>3 DEF Settings
  <2>2. 0 \in Days /\ 0 \in Slots
    BY DEF Days, Slots
  <2>3. tick \in [Ticks -> Tick]
    BY <2>1, <2>2 DEF Init, Tick, Jobs
  <2>4. started \in [Jobs -> [Days -> Nat]] /\ lost \in [Jobs -> [Days -> Nat]]
    BY DEF Init
  <2>5. changes \in 0..MaxChanges /\ deaths \in 0..MaxDeaths
    BY DEF Init
  <2>6. day \in Days /\ slot \in Slots /\ ticked \in BOOLEAN /\ lock \in Ticks \cup {NoTick}
    BY <2>2 DEF Init
  <2> QED  BY <2>1, <2>3, <2>4, <2>5, <2>6 DEF TypeOK
<1>2. \A t \in Ticks : tick[t].pc = "off"
  BY DEF Init
<1>3. LockInv /\ ReadInv
  BY <1>2 DEF LockInv, ReadInv, AtWork
<1>4. \A j \in Jobs : settings.last[j] = -1
  <2>1. settings \in [time : [Jobs -> JobTimes], enabled : {TRUE}, last : [Jobs -> {None}]]
    BY DEF Init
  <2>2. settings.last \in [Jobs -> {None}]
    BY <2>1
  <2> QED  BY <2>2 DEF None
<1>5. day = 0
  BY DEF Init
<1>6. LastInv
  BY <1>4, <1>5 DEF LastInv
<1>7. CountInv
  BY <1>2 DEF CountInv, Init, OnJob, AtWork
<1> QED  BY <1>1, <1>3, <1>6, <1>7 DEF IInv

(* The types of what a tick and the settings hold. *)
LEMMA Fields ==
  ASSUME TypeOK
  PROVE  /\ day \in Int /\ slot \in Int
         /\ settings.last \in [Jobs -> Int]
         /\ \A j \in Jobs : settings.last[j] \in Days \cup {None}
         /\ \A t \in Ticks : /\ tick[t] \in Tick
                             /\ tick[t].day \in Days /\ tick[t].day \in Nat
                             /\ tick[t].job \in Jobs
                             /\ tick[t].cfg \in Settings
<1> USE DailyJobAssumption
<1>1. Days \subseteq Int /\ Slots \subseteq Int /\ None \in Int /\ Days \subseteq Nat
  BY DEF Days, Slots, None
<1>2. settings \in Settings
  BY DEF TypeOK
<1>3. settings.last \in [Jobs -> Days \cup {None}]
  BY <1>2 DEF Settings
<1>4. \A t \in Ticks : tick[t] \in Tick
  BY DEF TypeOK
<1>5. \A x \in Tick : x.day \in Days /\ x.job \in Jobs /\ x.cfg \in Settings
  BY DEF Tick
<1> QED  BY <1>1, <1>3, <1>4, <1>5 DEF TypeOK

LEMMA OffType ==
  ASSUME TypeOK, NEW t \in Ticks
  PROVE  Off(t) \in Tick /\ Off(t).pc = "off"
<1> USE DailyJobAssumption
<1>1. tick[t] \in Tick /\ settings \in Settings
  BY DEF TypeOK
<1>2. 0 \in Days /\ 0 \in Slots /\ 0 \in 0..JobSteps /\ "daily" \in Jobs
  BY DEF Days, Slots, Jobs
<1> QED  BY <1>1, <1>2 DEF Off, Tick

LEMMA TypeStep == TypeOK /\ [Next]_vars => TypeOK'
<1> SUFFICES ASSUME TypeOK, [Next]_vars PROVE TypeOK'
  OBVIOUS
<1> USE DailyJobAssumption
<1>1. CASE UNCHANGED vars
  BY <1>1 DEF vars, clock, history, TypeOK
<1>2. CASE SlotPasses
  <2>1. slot \in 0..LastSlot /\ LastSlot \in Nat
    BY DEF TypeOK, Slots
  <2>2. slot' \in Slots
    BY <1>2, <2>1 DEF SlotPasses, Slots
  <2> QED  BY <1>2, <2>2 DEF SlotPasses, history, TypeOK
<1>3. CASE MidnightPasses
  <2>1. day \in 0..LastDay /\ LastDay \in Nat
    BY DEF TypeOK, Days
  <2>2. day' \in Days
    BY <1>3, <2>1 DEF MidnightPasses, Days
  <2>3. slot' \in Slots
    BY <1>3 DEF MidnightPasses, Slots
  <2> QED  BY <1>3, <2>2, <2>3 DEF MidnightPasses, history, TypeOK
<1>4. CASE AdminSets
  <2>1. PICK time \in [Jobs -> JobTimes] : \E enabled \in BOOLEAN :
          settings' = [settings EXCEPT !.time = time, !.enabled = enabled]
    BY <1>4 DEF AdminSets, SetMany, Editable
  <2>2. PICK enabled \in BOOLEAN :
          settings' = [settings EXCEPT !.time = time, !.enabled = enabled]
    BY <2>1
  <2>3. time \in [Jobs -> Slots]
    BY <2>1
  <2>4. settings' \in Settings
    BY <2>2, <2>3 DEF TypeOK, Settings
  <2> QED  BY <1>4, <2>4 DEF AdminSets, SetMany, Editable, clock, history, TypeOK
<1>5. ASSUME NEW t \in Ticks, Starts(t) PROVE TypeOK'
  <2>1. [tick[t] EXCEPT !.pc = "locked"] \in Tick
    BY DEF TypeOK, Tick
  <2> QED  BY <1>5, <2>1 DEF Starts, history, TypeOK
<1>6. ASSUME NEW t \in Ticks, Reads(t) PROVE TypeOK'
  <2>1. [tick[t] EXCEPT !.pc = "read", !.day = day, !.slot = slot, !.cfg = settings] \in Tick
    BY DEF TypeOK, Tick
  <2> QED  BY <1>6, <2>1 DEF Reads, clock, history, TypeOK
<1>7. ASSUME NEW t \in Ticks, Decides(t) PROVE TypeOK'
  <2>1. ASSUME NEW j \in Jobs, Runs(t, j) PROVE TypeOK'
    <3> DEFINE left == IF j = "daily" THEN JobSteps ELSE 1
               x == [tick[t] EXCEPT !.pc = "running", !.job = j, !.left = left]
    <3>1. left \in 0..JobSteps
      BY <2>1 DEF Jobs
    <3> HIDE DEF left
    <3>2. x \in Tick
      BY <3>1 DEF TypeOK, Tick
    <3>3. tick' \in [Ticks -> Tick]
      BY <2>1, <3>2 DEF Runs, TypeOK, left
    <3>4. tick[t].day \in Days
      BY Fields
    <3>5. started' \in [Jobs -> [Days -> Nat]]
      BY <2>1, <3>4 DEF Runs, TypeOK
    <3> QED  BY <2>1, <3>3, <3>5 DEF Runs, clock, TypeOK
  <2>2. [tick[t] EXCEPT !.pc = "unlocking"] \in Tick
    BY DEF TypeOK, Tick
  <2>3. ASSUME tick' = [tick EXCEPT ![t].pc = "unlocking"],
               UNCHANGED <<clock, settings, changes, lock, history, deaths>>
        PROVE  TypeOK'
    BY <2>2, <2>3 DEF clock, history, TypeOK
  <2> QED  BY <1>7, <2>1, <2>3 DEF Decides, Jobs
<1>8. ASSUME NEW t \in Ticks, StepEnds(t) PROVE TypeOK'
  <2>1. tick[t].left - 1 \in 0..JobSteps
    BY <1>8 DEF StepEnds, TypeOK, Tick
  <2>2. [tick[t] EXCEPT !.left = @ - 1] \in Tick
    BY <2>1 DEF TypeOK, Tick
  <2> QED  BY <1>8, <2>2 DEF StepEnds, clock, history, TypeOK
<1>9. ASSUME NEW t \in Ticks, JobEnds(t) PROVE TypeOK'
  <2>1. [tick[t] EXCEPT !.pc = "marking"] \in Tick
    BY DEF TypeOK, Tick
  <2> QED  BY <1>9, <2>1 DEF JobEnds, DailyEnds, RecheckEnds, clock, history, TypeOK
<1>10. ASSUME NEW t \in Ticks, Marks(t) PROVE TypeOK'
  <2>1. [tick[t] EXCEPT !.pc = "unlocking"] \in Tick
    BY DEF TypeOK, Tick
  <2>2. tick[t].day \in Days /\ tick[t].job \in Jobs
    BY Fields
  <2>3. settings' \in Settings
    BY <1>10, <2>2 DEF Marks, TypeOK, Settings
  <2> QED  BY <1>10, <2>1, <2>3 DEF Marks, clock, history, TypeOK
<1>11. ASSUME NEW t \in Ticks, Unlocks(t) PROVE TypeOK'
  BY <1>11, OffType DEF Unlocks, Released, clock, history, TypeOK
<1>12. ASSUME NEW t \in Ticks, Dies(t) PROVE TypeOK'
  <2>1. tick[t].day \in Days /\ tick[t].job \in Jobs
    BY Fields
  <2>2. lost' \in [Jobs -> [Days -> Nat]]
    BY <1>12, <2>1 DEF Dies, TypeOK
  <2>3. tick' \in [Ticks -> Tick]
    BY <1>12, OffType DEF Dies, TypeOK
  <2> QED  BY <1>12, <2>2, <2>3 DEF Dies, Released, clock, TypeOK
<1> QED
  BY <1>1, <1>2, <1>3, <1>4, <1>5, <1>6, <1>7, <1>8, <1>9, <1>10, <1>11, <1>12
     DEF Next, GoesOn

-----------------------------------------------------------------------------
(* The lock and the counters.                                              *)

LEMMA StepInv ==
  IInv /\ [Next]_vars => IInv'
<1> SUFFICES ASSUME IInv, [Next]_vars PROVE IInv'
  OBVIOUS
<1> USE DailyJobAssumption
<1>1. TypeOK /\ LockInv /\ ReadInv /\ LastInv /\ CountInv
  BY DEF IInv
<1>2. TypeOK'
  BY <1>1, TypeStep
<1>3. \A t, u \in Ticks : tick[t].pc # "off" /\ tick[u].pc # "off" => t = u
  BY <1>1 DEF LockInv
<1>4. SUFFICES LockInv' /\ ReadInv' /\ LastInv' /\ CountInv'
  BY <1>2 DEF IInv
<1>5. CASE UNCHANGED vars
  BY <1>1, <1>5 DEF vars, clock, history, LockInv, ReadInv, LastInv, CountInv, OnJob, AtWork
<1>6. CASE SlotPasses
  BY <1>1, <1>6 DEF SlotPasses, history, LockInv, ReadInv, LastInv, CountInv, OnJob, AtWork
<1>7. CASE MidnightPasses
  <2>1. \A x \in Int : x <= day => x <= day'
    BY <1>1, <1>7, Fields DEF MidnightPasses
  <2>2. LastInv'
    BY <1>1, <1>7, <2>1, Fields DEF MidnightPasses, LastInv
  <2>3. ReadInv'
    BY <1>1, <1>7, <2>1, Fields DEF MidnightPasses, ReadInv, AtWork
  <2>4. LockInv' /\ CountInv'
    BY <1>1, <1>7 DEF MidnightPasses, history, LockInv, CountInv, OnJob, AtWork
  <2> QED  BY <2>2, <2>3, <2>4
<1>8. CASE AdminSets
  <2>1. settings'.last = settings.last
    BY <1>1, <1>8 DEF AdminSets, SetMany, Editable, TypeOK, Settings
  <2> QED
    BY <1>1, <1>8, <2>1 DEF AdminSets, SetMany, Editable, clock, history, LockInv, ReadInv, LastInv,
       CountInv, OnJob, AtWork
<1>9. ASSUME NEW t \in Ticks, Starts(t) PROVE LockInv' /\ ReadInv' /\ LastInv' /\ CountInv'
  <2>1. CASE lock = NoTick
    <3>1. \A u \in Ticks : tick[u].pc = "off"
      BY <1>1, <2>1 DEF LockInv
    <3>2. lock' = t /\ tick'[t].pc = "locked" /\ \A u \in Ticks : u # t => tick'[u] = tick[u]
      BY <1>1, <1>9, <2>1 DEF Starts, TypeOK, Tick
    <3>3. UNCHANGED <<day, settings, history>>
      BY <1>9 DEF Starts
    <3>4. \A u \in Ticks : ~AtWork(u) /\ ~AtWork(u)'
      BY <3>1, <3>2 DEF AtWork
    <3> QED  BY <1>1, <3>1, <3>2, <3>3, <3>4 DEF LockInv, ReadInv, LastInv, CountInv, OnJob, history
  <2>2. CASE lock # NoTick
    BY <1>1, <1>9, <2>2 DEF Starts, history, LockInv, ReadInv, LastInv, CountInv, OnJob, AtWork
  <2> QED  BY <2>1, <2>2
<1>10. ASSUME NEW t \in Ticks, Reads(t) PROVE LockInv' /\ ReadInv' /\ LastInv' /\ CountInv'
  <2>1. /\ tick'[t].pc = "read" /\ tick'[t].day = day /\ tick'[t].cfg = settings
        /\ \A u \in Ticks : u # t => tick'[u] = tick[u] /\ tick[u].pc = "off"
    BY <1>1, <1>3, <1>10 DEF Reads, TypeOK, Tick
  <2>2. UNCHANGED <<day, settings, lock, started, lost>>
    BY <1>10 DEF Reads, clock, history
  <2>3. tick[t].pc = "locked"
    BY <1>10 DEF Reads
  <2>4. \A u \in Ticks : ~AtWork(u) /\ ~AtWork(u)'
    BY <2>1, <2>3 DEF AtWork
  <2>5. LockInv' /\ LastInv' /\ CountInv'
    BY <1>1, <2>1, <2>2, <2>3, <2>4 DEF LockInv, LastInv, CountInv, OnJob
  <2>6. ReadInv'
    BY <1>1, <2>1, <2>2, <2>4, Fields DEF ReadInv, LastInv
  <2> QED  BY <2>5, <2>6
<1>11. ASSUME NEW t \in Ticks, Decides(t) PROVE LockInv' /\ ReadInv' /\ LastInv' /\ CountInv'
  <2>1. tick[t].pc = "read" /\ UNCHANGED <<day, settings, lock, lost>>
    BY <1>11 DEF Decides, Runs, clock, history
  <2>2. \A u \in Ticks : u # t => tick[u].pc = "off"
    BY <1>3, <2>1
  <2>3. ASSUME NEW j \in Jobs, DueOf(t, j), Runs(t, j)
        PROVE  LockInv' /\ ReadInv' /\ LastInv' /\ CountInv'
    <3> DEFINE d == tick[t].day
    <3>1. /\ tick'[t].pc = "running" /\ tick'[t].day = d /\ tick'[t].job = j
          /\ \A u \in Ticks : u # t => tick'[u] = tick[u]
      BY <1>1, <2>3 DEF Runs, TypeOK, Tick
    <3>2. d \in Days /\ d \in Int /\ settings.last[j] # d /\ settings.last[j] <= d
      BY <1>1, <2>1, <2>3, Fields DEF DueOf, IsDue, ReadInv
    <3>3. settings.last[j] < d /\ settings.last[j] \in Int
      BY <1>1, <3>2, Fields
    <3>4. LockInv' /\ LastInv'
      BY <1>1, <2>1, <3>1 DEF LockInv, LastInv
    <3>5. ReadInv'
      BY <1>1, <2>1, <2>2, <3>1, <3>3 DEF ReadInv, AtWork
    <3>6. \A i \in Jobs : \A e \in Days : ~OnJob(i, e)
      BY <2>1, <2>2 DEF OnJob, AtWork
    <3>7. started[j][d] <= lost[j][d]
      BY <1>1, <3>2, <3>3, <3>6, Fields DEF CountInv, TypeOK
    <3>8. started' = [started EXCEPT ![j][d] = @ + 1]
      BY <2>3 DEF Runs
    <3>9. AtWork(t)' /\ tick'[t].job = j /\ tick'[t].day = d
      BY <3>1 DEF AtWork
    <3>10. CountInv'
      <4> SUFFICES ASSUME NEW i \in Jobs, NEW e \in Days
                   PROVE  started'[i][e] <= lost'[i][e] +
                            IF e <= settings'.last[i] \/ OnJob(i, e)' THEN 1 ELSE 0
        BY DEF CountInv
      <4>1. CASE i = j /\ e = d
        <5>1. started'[i][e] = started[i][e] + 1
          BY <1>1, <3>8, <4>1 DEF TypeOK
        <5>2. OnJob(i, e)' /\ started[i][e] <= lost[i][e]
          BY <3>7, <3>9, <4>1 DEF OnJob
        <5>3. started[i][e] \in Nat /\ lost[i][e] \in Nat
          BY <1>1 DEF TypeOK
        <5> QED  BY <2>1, <5>1, <5>2, <5>3
      <4>2. CASE ~(i = j /\ e = d)
        <5>1. started'[i][e] = started[i][e]
          BY <1>1, <3>8, <4>2 DEF TypeOK
        <5>2. started[i][e] <= lost[i][e] + IF e <= settings.last[i] THEN 1 ELSE 0
          BY <1>1, <3>6 DEF CountInv
        <5>3. started[i][e] \in Nat /\ lost[i][e] \in Nat
          BY <1>1 DEF TypeOK
        <5> QED  BY <2>1, <5>1, <5>2, <5>3
      <4> QED  BY <4>1, <4>2
    <3> QED  BY <3>4, <3>5, <3>10
  <2>4. ASSUME tick' = [tick EXCEPT ![t].pc = "unlocking"], UNCHANGED started
        PROVE  LockInv' /\ ReadInv' /\ LastInv' /\ CountInv'
    <3>1. /\ tick'[t].pc = "unlocking"
          /\ \A u \in Ticks : u # t => tick'[u] = tick[u]
      BY <1>1, <2>4 DEF TypeOK, Tick
    <3>2. \A u \in Ticks : ~AtWork(u) /\ ~AtWork(u)'
      BY <2>1, <2>2, <3>1 DEF AtWork
    <3> QED  BY <1>1, <2>1, <2>2, <2>4, <3>1, <3>2 DEF LockInv, ReadInv, LastInv, CountInv, OnJob
  <2> QED  BY <1>11, <2>3, <2>4 DEF Decides, Jobs, history
<1>12. ASSUME NEW t \in Ticks, StepEnds(t) \/ JobEnds(t)
       PROVE  LockInv' /\ ReadInv' /\ LastInv' /\ CountInv'
  <2>1. tick[t].pc = "running" /\ UNCHANGED <<day, settings, lock, started, lost>>
    BY <1>12 DEF StepEnds, JobEnds, DailyEnds, RecheckEnds, clock, history
  <2>2. /\ tick'[t].pc \in {"running", "marking"}
        /\ tick'[t].job = tick[t].job /\ tick'[t].day = tick[t].day
        /\ \A u \in Ticks : u # t => tick'[u] = tick[u]
    BY <1>1, <1>12, <2>1 DEF StepEnds, JobEnds, DailyEnds, RecheckEnds, TypeOK, Tick
  <2>3. \A u \in Ticks : AtWork(u)' <=> AtWork(u)
    BY <2>1, <2>2 DEF AtWork
  <2>4. \A u \in Ticks : tick'[u].job = tick[u].job /\ tick'[u].day = tick[u].day
    BY <2>2
  <2>5. ReadInv'
    BY <1>1, <2>1, <2>2, <2>3 DEF ReadInv
  <2>6. \A i \in Jobs : \A e \in Days : OnJob(i, e)' <=> OnJob(i, e)
    BY <2>3, <2>4 DEF OnJob
  <2>7. LockInv' /\ LastInv' /\ CountInv'
    BY <1>1, <2>1, <2>2, <2>6 DEF LockInv, LastInv, CountInv
  <2> QED  BY <2>5, <2>7
<1>13. ASSUME NEW t \in Ticks, Marks(t) PROVE LockInv' /\ ReadInv' /\ LastInv' /\ CountInv'
  <2> DEFINE d == tick[t].day
             j == tick[t].job
  <2>1. tick[t].pc = "marking" /\ UNCHANGED <<day, lock, started, lost>>
    BY <1>13 DEF Marks, clock, history
  <2>2. j \in Jobs /\ d \in Days /\ d \in Int /\ d <= day /\ settings.last[j] < d
    BY <1>1, <2>1, Fields DEF ReadInv, AtWork
  <2>3. settings'.last = [settings.last EXCEPT ![j] = d]
    BY <1>1, <1>13 DEF Marks, TypeOK, Settings
  <2>4. settings'.last[j] = d /\ \A i \in Jobs : i # j => settings'.last[i] = settings.last[i]
    BY <1>1, <2>2, <2>3, Fields
  <2>5. /\ tick'[t].pc = "unlocking"
        /\ \A u \in Ticks : u # t => tick'[u] = tick[u] /\ tick[u].pc = "off"
    BY <1>1, <1>3, <1>13, <2>1 DEF Marks, TypeOK, Tick
  <2>6. LockInv' /\ LastInv'
    BY <1>1, <2>1, <2>2, <2>4, <2>5 DEF LockInv, LastInv
  <2>7. ReadInv'
    BY <2>5 DEF ReadInv, AtWork
  <2>8. CountInv'
    <3> SUFFICES ASSUME NEW i \in Jobs, NEW e \in Days
                 PROVE  started[i][e] <= lost[i][e] +
                          IF e <= settings'.last[i] \/ OnJob(i, e)' THEN 1 ELSE 0
      BY <2>1 DEF CountInv
    <3> HIDE DEF d, j
    <3>1. OnJob(i, e) => i = j /\ e = d
      BY <2>5 DEF OnJob, AtWork, d, j
    <3>2. started[i][e] <= lost[i][e] + IF e <= settings.last[i] \/ OnJob(i, e) THEN 1 ELSE 0
      BY <1>1 DEF CountInv
    <3>3. started[i][e] \in Nat /\ lost[i][e] \in Nat /\ e \in Int
      BY <1>1 DEF TypeOK, Days
    <3>4. settings.last[i] \in Int /\ settings.last[i] <= settings'.last[i] /\ settings'.last[i] \in Int
      BY <1>1, <2>2, <2>4, Fields
    <3>5. OnJob(i, e) \/ e <= settings.last[i] => e <= settings'.last[i]
      BY <2>2, <2>4, <3>1, <3>3, <3>4
    <3> QED  BY <3>2, <3>3, <3>5
  <2> QED  BY <2>6, <2>7, <2>8
<1>14. ASSUME NEW t \in Ticks, Unlocks(t) PROVE LockInv' /\ ReadInv' /\ LastInv' /\ CountInv'
  <2>1. tick[t].pc = "unlocking" /\ UNCHANGED <<day, settings, started, lost>>
    BY <1>14 DEF Unlocks, clock, history
  <2>2. /\ tick'[t].pc = "off"
        /\ \A u \in Ticks : u # t => tick'[u] = tick[u] /\ tick[u].pc = "off"
    BY <1>1, <1>3, <1>14, <2>1, OffType DEF Unlocks, TypeOK
  <2>3. \A u \in Ticks : ~AtWork(u) /\ ~AtWork(u)'
    BY <2>1, <2>2 DEF AtWork
  <2> QED  BY <1>1, <2>1, <2>2, <2>3 DEF LockInv, ReadInv, LastInv, CountInv, OnJob
<1>15. ASSUME NEW t \in Ticks, Dies(t) PROVE LockInv' /\ ReadInv' /\ LastInv' /\ CountInv'
  <2> DEFINE d == tick[t].day
             j == tick[t].job
  <2>1. tick[t].pc # "off" /\ UNCHANGED <<day, settings, started>>
    BY <1>15 DEF Dies, clock
  <2>2. /\ tick'[t].pc = "off"
        /\ \A u \in Ticks : u # t => tick'[u] = tick[u] /\ tick[u].pc = "off"
    BY <1>1, <1>3, <1>15, <2>1, OffType DEF Dies, TypeOK
  <2>3. LockInv' /\ ReadInv' /\ LastInv'
    BY <1>1, <2>1, <2>2 DEF LockInv, ReadInv, LastInv, AtWork
  <2>4. \A i \in Jobs : \A e \in Days : ~OnJob(i, e)'
    BY <2>2 DEF OnJob, AtWork
  <2>5. CountInv'
    <3> SUFFICES ASSUME NEW i \in Jobs, NEW e \in Days
                 PROVE  started[i][e] <= lost'[i][e] + IF e <= settings.last[i] THEN 1 ELSE 0
      BY <2>1, <2>4 DEF CountInv
    <3>1. j \in Jobs /\ d \in Days
      BY <1>1, Fields
    <3> HIDE DEF d, j
    <3>2. started[i][e] \in Nat /\ lost[i][e] \in Nat
      BY <1>1 DEF TypeOK
    <3>3. started[i][e] <= lost[i][e] + IF e <= settings.last[i] \/ OnJob(i, e) THEN 1 ELSE 0
      BY <1>1 DEF CountInv
    <3>4. lost' = IF AtWork(t) THEN [lost EXCEPT ![j][d] = @ + 1] ELSE lost
      BY <1>15 DEF Dies, AtWork, d, j
    <3>5. CASE OnJob(i, e)
      <4>1. AtWork(t) /\ i = j /\ e = d
        BY <2>2, <3>5 DEF OnJob, AtWork, d, j
      <4>2. lost'[i][e] = lost[i][e] + 1
        BY <1>1, <3>1, <3>4, <4>1 DEF TypeOK
      <4> QED  BY <3>2, <3>3, <4>2
    <3>6. CASE ~OnJob(i, e)
      <4>1. lost'[i][e] = lost[i][e]
        <5>1. CASE i = j /\ e = d /\ AtWork(t)
          BY <3>6, <5>1 DEF OnJob, d, j
        <5>2. CASE ~(i = j /\ e = d /\ AtWork(t))
          BY <1>1, <3>1, <3>4, <5>2 DEF TypeOK
        <5> QED  BY <5>1, <5>2
      <4> QED  BY <3>2, <3>3, <3>6, <4>1
    <3> QED  BY <3>5, <3>6
  <2> QED  BY <2>3, <2>5
<1> QED
  BY <1>5, <1>6, <1>7, <1>8, <1>9, <1>10, <1>11, <1>12, <1>13, <1>14, <1>15
     DEF Next, GoesOn

LEMMA Invariant ==
  Spec => []IInv
BY InitInv, StepInv, PTL DEF Spec

(* One job at a time: who is at work holds the lock.                       *)
THEOREM MutualExclusion ==
  Spec => []OneJobAtATime
<1>1. IInv => OneJobAtATime
  BY DEF IInv, LockInv, OneJobAtATime, AtWork
<1> QED  BY <1>1, Invariant, PTL

(* Once per day, and again only after a death: the day that is marked never *)
(* goes back, and a tick reads it under the lock.                          *)
THEOREM AtMostOnce ==
  Spec => []OncePerDay
<1>1. IInv => OncePerDay
  <2> SUFFICES ASSUME IInv, NEW j \in Jobs, NEW d \in Days
               PROVE  started[j][d] <= 1 + lost[j][d]
    BY DEF OncePerDay
  <2>1. started[j][d] \in Nat /\ lost[j][d] \in Nat
    BY DEF IInv, TypeOK
  <2> QED  BY <2>1 DEF IInv, CountInv
<1> QED  BY <1>1, Invariant, PTL

-----------------------------------------------------------------------------
(* The refinement.                                                         *)

WorksOn(t, j) == AtWork(t) /\ tick[t].job = j

Mapped ==
  \A j \in Jobs :
    /\ \A t \in Ticks : WorksOn(t, j) => ActiveDay(j) = tick[t].day
    /\ (\A t \in Ticks : ~WorksOn(t, j)) => ActiveDay(j) = None

LEMMA Mapping == IInv => Mapped
<1> SUFFICES ASSUME IInv, NEW j \in Jobs
             PROVE  /\ \A t \in Ticks : WorksOn(t, j) => ActiveDay(j) = tick[t].day
                    /\ (\A t \in Ticks : ~WorksOn(t, j)) => ActiveDay(j) = None
  BY DEF Mapped
<1>1. ASSUME NEW t \in Ticks, WorksOn(t, j) PROVE ActiveDay(j) = tick[t].day
  <2> DEFINE on(u) == u \in Ticks /\ AtWork(u) /\ tick[u].job = j
  <2>1. on(t) /\ \A u : on(u) => u = t
    BY <1>1 DEF IInv, LockInv, WorksOn, AtWork
  <2>2. (CHOOSE u \in Ticks : AtWork(u) /\ tick[u].job = j) = t
    BY <2>1
  <2> QED  BY <1>1, <2>2 DEF ActiveDay, WorksOn
<1>2. ASSUME \A t \in Ticks : ~WorksOn(t, j) PROVE ActiveDay(j) = None
  BY <1>2 DEF ActiveDay, WorksOn
<1> QED  BY <1>1, <1>2

LEMMA MappingPrime == IInv' => Mapped'
BY Mapping, PTL

(* What Next of DailyDuty says of job j under the mapping. *)
DutyStep(j) ==
  \/ /\ ActiveDay(j) = None /\ ActiveDay(j)' \in Days
     /\ settings.last[j] # ActiveDay(j)' /\ settings'.last[j] = settings.last[j]
  \/ /\ ActiveDay(j) # None /\ ActiveDay(j)' = None
     /\ settings'.last[j] \in {ActiveDay(j), settings.last[j]}
  \/ ActiveDay(j)' = ActiveDay(j) /\ settings'.last[j] = settings.last[j]

LEMMA Simulation ==
  ASSUME IInv, IInv', [Next]_vars, NEW j \in Jobs
  PROVE  DutyStep(j)
<1> USE DailyJobAssumption
<1>1. Mapped /\ Mapped'
  BY Mapping, MappingPrime
<1>2. \A t, u \in Ticks : tick[t].pc # "off" /\ tick[u].pc # "off" => t = u
  BY DEF IInv, LockInv
<1>3. None \notin Days
  BY DEF None, Days
<1>4. TypeOK /\ settings.last \in [Jobs -> Int] /\ settings \in Settings
  BY Fields DEF IInv, TypeOK
<1>5. ASSUME \A t \in Ticks : /\ WorksOn(t, j)' <=> WorksOn(t, j)
                              /\ WorksOn(t, j) => tick'[t].day = tick[t].day
      PROVE  ActiveDay(j)' = ActiveDay(j)
  <2>1. CASE \E t \in Ticks : WorksOn(t, j)
    <3>1. PICK t \in Ticks : WorksOn(t, j)
      BY <2>1
    <3>2. WorksOn(t, j)' /\ tick'[t].day = tick[t].day
      BY <1>5, <3>1
    <3> QED  BY <1>1, <3>1, <3>2 DEF Mapped
  <2>2. CASE \A t \in Ticks : ~WorksOn(t, j)
    <3>1. \A t \in Ticks : ~WorksOn(t, j)'
      BY <1>5, <2>2
    <3> QED  BY <1>1, <2>2, <3>1 DEF Mapped
  <2> QED  BY <2>1, <2>2
<1>6. CASE UNCHANGED vars
  BY <1>5, <1>6 DEF vars, DutyStep, WorksOn, AtWork
<1>7. CASE SlotPasses \/ MidnightPasses
  BY <1>5, <1>7 DEF SlotPasses, MidnightPasses, DutyStep, WorksOn, AtWork
<1>8. CASE AdminSets
  <2>1. settings'.last = settings.last
    BY <1>4, <1>8 DEF AdminSets, SetMany, Editable, Settings
  <2> QED  BY <1>5, <1>8, <2>1 DEF AdminSets, SetMany, Editable, DutyStep, WorksOn, AtWork
<1>9. ASSUME NEW t \in Ticks, Starts(t) \/ Reads(t) \/ StepEnds(t) \/ JobEnds(t) \/ Unlocks(t)
      PROVE  DutyStep(j)
  <2>1. UNCHANGED settings
    BY <1>9 DEF Starts, Reads, StepEnds, JobEnds, DailyEnds, RecheckEnds, Unlocks
  <2>2. \A u \in Ticks : u # t => tick'[u] = tick[u]
    BY <1>4, <1>9 DEF Starts, Reads, StepEnds, JobEnds, DailyEnds, RecheckEnds, Unlocks, TypeOK
  <2>3. CASE Starts(t) \/ Reads(t) \/ Unlocks(t)
    <3>1. ~AtWork(t) /\ ~AtWork(t)'
      BY <1>4, <2>3, OffType DEF Starts, Reads, Unlocks, AtWork, TypeOK, Tick
    <3> QED  BY <1>5, <2>1, <2>2, <3>1 DEF DutyStep, WorksOn, AtWork
  <2>4. CASE StepEnds(t) \/ JobEnds(t)
    <3>1. /\ AtWork(t) /\ AtWork(t)'
          /\ tick'[t].job = tick[t].job /\ tick'[t].day = tick[t].day
      BY <1>4, <2>4 DEF StepEnds, JobEnds, DailyEnds, RecheckEnds, AtWork, TypeOK, Tick
    <3> QED  BY <1>5, <2>1, <2>2, <3>1 DEF DutyStep, WorksOn, AtWork
  <2> QED  BY <1>9, <2>3, <2>4
<1>10. ASSUME NEW t \in Ticks, Decides(t) PROVE DutyStep(j)
  <2>1. tick[t].pc = "read" /\ UNCHANGED settings
    BY <1>10 DEF Decides, Runs
  <2>2. \A u \in Ticks : ~WorksOn(u, j)
    BY <1>2, <2>1 DEF WorksOn, AtWork
  <2>3. ActiveDay(j) = None
    BY <1>1, <2>2 DEF Mapped
  <2>4. ASSUME NEW i \in Jobs, DueOf(t, i), Runs(t, i) PROVE DutyStep(j)
    <3>1. /\ tick'[t].pc = "running" /\ tick'[t].job = i /\ tick'[t].day = tick[t].day
          /\ \A u \in Ticks : u # t => tick'[u] = tick[u]
      BY <1>4, <2>4 DEF Runs, TypeOK, Tick
    <3>2. CASE i = j
      <4>1. ActiveDay(j)' = tick[t].day
        BY <1>1, <3>1, <3>2 DEF Mapped, WorksOn, AtWork
      <4>2. tick[t].day \in Days
        BY <1>4, Fields
      <4>3. settings.last[j] # tick[t].day
        BY <2>1, <2>4, <3>2 DEF DueOf, IsDue, IInv, ReadInv
      <4> QED  BY <2>1, <2>3, <4>1, <4>2, <4>3 DEF DutyStep
    <3>3. CASE i # j
      <4>1. \A u \in Ticks : ~WorksOn(u, j)'
        BY <2>2, <3>1, <3>3 DEF WorksOn, AtWork
      <4> QED  BY <1>1, <2>1, <2>3, <4>1 DEF DutyStep, Mapped
    <3> QED  BY <3>2, <3>3
  <2>5. ASSUME tick' = [tick EXCEPT ![t].pc = "unlocking"] PROVE DutyStep(j)
    <3>1. \A u \in Ticks : ~WorksOn(u, j)'
      BY <1>4, <2>2, <2>5 DEF WorksOn, AtWork, TypeOK, Tick
    <3> QED  BY <1>1, <2>1, <2>3, <3>1 DEF DutyStep, Mapped
  <2> QED  BY <1>10, <2>4, <2>5 DEF Decides, Jobs
<1>11. ASSUME NEW t \in Ticks, Marks(t) \/ Dies(t) PROVE DutyStep(j)
  <2>1. tick[t].pc # "off"
    BY <1>11 DEF Marks, Dies
  <2>2. ~AtWork(t)' /\ \A u \in Ticks : u # t => tick'[u] = tick[u] /\ tick[u].pc = "off"
    BY <1>2, <1>4, <1>11, <2>1, OffType DEF Marks, Dies, AtWork, TypeOK, Tick
  <2>3. ActiveDay(j)' = None
    BY <1>1, <2>2 DEF Mapped, WorksOn, AtWork
  <2>4. CASE WorksOn(t, j)
    <3>1. ActiveDay(j) = tick[t].day /\ tick[t].day \in Days
      BY <1>1, <1>4, <2>4, Fields DEF Mapped
    <3>2. settings'.last[j] \in {tick[t].day, settings.last[j]}
      BY <1>4, <1>11, <2>4 DEF Marks, Dies, WorksOn, Settings
    <3> QED  BY <1>3, <2>3, <3>1, <3>2 DEF DutyStep
  <2>5. CASE ~WorksOn(t, j)
    <3>1. ActiveDay(j) = None
      BY <1>1, <2>2, <2>5 DEF Mapped, WorksOn, AtWork
    <3>2. settings'.last[j] = settings.last[j]
      BY <1>4, <1>11, <2>5 DEF Marks, Dies, WorksOn, AtWork, Settings
    <3> QED  BY <2>3, <3>1, <3>2 DEF DutyStep
  <2> QED  BY <2>4, <2>5
<1> QED
  BY <1>6, <1>7, <1>8, <1>9, <1>10, <1>11 DEF Next, GoesOn

LEMMA StartsIdle == Init => \A j \in Jobs : ActiveDay(j) = None /\ settings.last[j] = None
<1> SUFFICES ASSUME Init, NEW j \in Jobs PROVE ActiveDay(j) = None /\ settings.last[j] = None
  OBVIOUS
<1>1. \A t \in Ticks : ~AtWork(t)
  BY DEF Init, AtWork
<1>2. settings \in [time : [Jobs -> JobTimes], enabled : {TRUE}, last : [Jobs -> {None}]]
  BY DEF Init
<1>3. settings.last \in [Jobs -> {None}]
  BY <1>2
<1> QED  BY <1>1, <1>3 DEF ActiveDay

(* The daily job is a job that is due once a day: each step of a tick is a  *)
(* step of DailyDuty or none.                                              *)
THEOREM DailyImplements ==
  Spec => DailyIsDuty
<1>1. Init => Daily!Init
  BY StartsIdle DEF Daily!Init, Jobs
<1>2. IInv /\ IInv' /\ [Next]_vars
        => [Daily!Next]_<<ActiveDay("daily"), settings.last["daily"]>>
  <2> SUFFICES ASSUME IInv, IInv', [Next]_vars
               PROVE  [Daily!Next]_<<ActiveDay("daily"), settings.last["daily"]>>
    OBVIOUS
  <2>1. DutyStep("daily")
    BY Simulation DEF Jobs
  <2> QED  BY <2>1 DEF DutyStep, Daily!Next, Daily!Start, Daily!Finish, Daily!Die
<1> QED  BY <1>1, <1>2, Invariant, PTL DEF Spec, DailyIsDuty, Daily!Spec

(* And so is the re-check. *)
THEOREM RecheckImplements ==
  Spec => RecheckIsDuty
<1>1. Init => Recheck!Init
  BY StartsIdle DEF Recheck!Init, Jobs
<1>2. IInv /\ IInv' /\ [Next]_vars
        => [Recheck!Next]_<<ActiveDay("recheck"), settings.last["recheck"]>>
  <2> SUFFICES ASSUME IInv, IInv', [Next]_vars
               PROVE  [Recheck!Next]_<<ActiveDay("recheck"), settings.last["recheck"]>>
    OBVIOUS
  <2>1. DutyStep("recheck")
    BY Simulation DEF Jobs
  <2> QED  BY <2>1 DEF DutyStep, Recheck!Next, Recheck!Start, Recheck!Finish, Recheck!Die
<1> QED  BY <1>1, <1>2, Invariant, PTL DEF Spec, RecheckIsDuty, Recheck!Spec

(* Both jobs of a day implement the abstract once-a-day job. *)
THEOREM JobsImplement ==
  Spec => JobsAreDuties
BY DailyImplements, RecheckImplements DEF JobsAreDuties

-----------------------------------------------------------------------------
(* One lot, from day to day: the verdicts of Evaluate.                    *)

Lots ==
  [open : BOOLEAN, matched : BOOLEAN, halvings : Int, restatedOn : Int, fits : BOOLEAN]

EvaluateTypes ==
  /\ today \in Calendar /\ OpenedOn <= today
  /\ \E n \in (OpenedOn - 1)..today : bars \in [1..n -> Bars]
  /\ folded \subseteq {x \in Splits : x <= today}
  /\ lot \in Lots /\ DOMAIN rows \subseteq OpenedOn..today
  /\ held = [s \in Sessions |-> held[s]]

(* Levels that fit are in the terms of the day of their restatement. *)
Restates(p) ==
  p \in Lots /\ (p.matched /\ p.fits => p.halvings = EffectiveBy(p.restatedOn))

(* The splits that put the lot p in the terms of a day. *)
Due(p, asOf) == {x \in Splits : p.restatedOn < x /\ x <= asOf}

(* A session holds an opened lot; if its levels fit, it holds them.        *)
HeldInv ==
  \A s \in Sessions : held[s] # Nothing =>
    /\ held[s].asOf \in Int /\ Restates(held[s].lot) /\ lot.open
    /\ lot.fits => held[s].lot.fits /\ held[s].lot.matched = lot.matched

-----------------------------------------------------------------------------
(* Highest of some numbers.                                                *)

Peak(g, a, d) == Max({g[e] : e \in a..d})

LEMMA PeakIs ==
  ASSUME NEW a \in Nat, NEW d \in Nat, a <= d, NEW g, \A e \in a..d : g[e] \in Int
  PROVE  \E m \in a..d : Peak(g, a, d) = g[m] /\ \A e \in a..d : g[e] <= g[m]
<1> DEFINE Without == {k \in Nat : k \in a..d /\ ~\E m \in a..k : \A e \in a..k : g[e] <= g[m]}
<1>1. Without = {}
  <2> SUFFICES ASSUME Without # {}  PROVE FALSE
    OBVIOUS
  <2>1. PICK k \in Without : \A j \in Without : <<j, k>> \notin OpToRel(<, Nat)
    <3>1. Without \subseteq Nat
      OBVIOUS
    <3> HIDE DEF Without
    <3> QED  BY <3>1, NatLessThanWellFounded, WFMin
  <2>2. /\ k \in a..d /\ k \in Nat /\ ~\E m \in a..k : \A e \in a..k : g[e] <= g[m]
        /\ \A j \in a..d : j \in Nat /\ j < k => \E m \in a..j : \A e \in a..j : g[e] <= g[m]
    BY <2>1 DEF OpToRel
  <2> HIDE DEF Without
  <2>3. k # a
    <3> SUFFICES ASSUME k = a  PROVE FALSE
      OBVIOUS
    <3>1. a..k = {a}
      OBVIOUS
    <3>2. g[a] \in Int
      OBVIOUS
    <3> QED  BY <2>2, <3>1, <3>2
  <2>4. k - 1 \in a..d /\ k - 1 < k /\ k - 1 \in Nat
    BY <2>2, <2>3
  <2>5. PICK m \in a..(k - 1) : \A e \in a..(k - 1) : g[e] <= g[m]
    BY <2>2, <2>4
  <2>6. g[k] \in Int /\ g[m] \in Int /\ \A e \in a..(k - 1) : g[e] \in Int
    BY <2>2, <2>4, <2>5
  <2>7. \A e \in a..k : e = k \/ e \in a..(k - 1)
    BY <2>2
  <2>8. CASE g[k] <= g[m]
    <3>1. \A e \in a..k : g[e] <= g[m]
      BY <2>5, <2>7, <2>8
    <3> QED  BY <2>2, <2>5, <2>4, <3>1
  <2>9. CASE g[m] <= g[k]
    <3>1. \A e \in a..k : g[e] <= g[k]
      BY <2>5, <2>6, <2>7, <2>9
    <3>2. k \in a..k
      BY <2>2
    <3> QED  BY <2>2, <3>1, <3>2
  <2> QED  BY <2>6, <2>8, <2>9
<1>2. PICK m \in a..d : \A e \in a..d : g[e] <= g[m]
  BY <1>1
<1> DEFINE S == {g[e] : e \in a..d}
<1>3. g[m] \in S /\ (\A y \in S : g[m] >= y) /\ (\A y \in S : y \in Int)
  BY <1>2
<1>4. Max(S) \in S /\ \A y \in S : Max(S) >= y
  <2> HIDE DEF S
  <2> QED  BY <1>3 DEF Max
<1>5. Max(S) >= g[m] /\ g[m] >= Max(S) /\ Max(S) \in Int
  BY <1>3, <1>4
<1>6. Max(S) = g[m]
  <2> HIDE DEF S
  <2> QED  BY <1>3, <1>5
<1> QED  BY <1>2, <1>6 DEF Peak

LEMMA PeakGrows ==
  ASSUME NEW a \in Nat, NEW c \in Nat, NEW d \in Nat, a <= c, c <= d, NEW g,
         \A e \in a..d : g[e] \in Int
  PROVE  Peak(g, a, c) <= Peak(g, a, d)
<1>1. PICK m \in a..c : Peak(g, a, c) = g[m]
  BY PeakIs
<1>2. PICK n \in a..d : Peak(g, a, d) = g[n] /\ \A e \in a..d : g[e] <= g[n]
  BY PeakIs
<1> QED  BY <1>1, <1>2

Units == Nat \ {0}

LEMMA ScaledOrder ==
  ASSUME NEW q \in Units, NEW x \in Int, NEW y \in Int
  PROVE  x * q \in Int /\ (x <= y <=> x * q <= y * q) /\ (x * q = y * q => x = y)
BY DEF Units

LEMMA PeakScales ==
  ASSUME NEW a \in Nat, NEW d \in Nat, a <= d, NEW g, NEW h, NEW q \in Units,
         \A e \in a..d : g[e] \in Int /\ h[e] = g[e] * q
  PROVE  Peak(g, a, d) \in Int /\ Peak(h, a, d) = Peak(g, a, d) * q
<1>1. PICK m \in a..d : Peak(g, a, d) = g[m] /\ \A e \in a..d : g[e] <= g[m]
  BY PeakIs
<1>2. \A e \in a..d : h[e] \in Int
  BY ScaledOrder
<1>3. PICK n \in a..d : Peak(h, a, d) = h[n] /\ \A e \in a..d : h[e] <= h[n]
  BY <1>2, PeakIs
<1>4. g[n] <= g[m] /\ h[m] <= h[n] /\ h[n] = g[n] * q /\ h[m] = g[m] * q
      /\ g[n] \in Int /\ g[m] \in Int
  BY <1>1, <1>3
<1>5. h[n] = g[m] * q
  <2>1. g[n] * q <= g[m] * q /\ g[n] * q \in Int /\ g[m] * q \in Int
    BY <1>4, ScaledOrder
  <2> QED  BY <1>4, <2>1
<1> QED  BY <1>1, <1>3, <1>4, <1>5

-----------------------------------------------------------------------------
(* The trailing stop, of the highs and ranges of the bars.                 *)

Stops(hi, at) == [f \in Nat |-> Peak(hi, OpenedOn, f) - at[f]]
Trail(hi, at, d) == Peak(Stops(hi, at), OpenedOn, d)

Spans(hi, at, d) == \A e \in OpenedOn..d : hi[e] \in Int /\ at[e] \in Int

LEMMA OpenedIs == OpenedOn \in Nat
BY EvaluateConstants DEF EvaluateConstants, Calendar

LEMMA StopsAre ==
  ASSUME NEW hi, NEW at, NEW d \in Nat, Spans(hi, at, d), NEW f \in OpenedOn..d
  PROVE  Stops(hi, at)[f] \in Int /\ Stops(hi, at)[f] = Peak(hi, OpenedOn, f) - at[f]
<1>1. f \in Nat /\ OpenedOn <= f /\ \A e \in OpenedOn..f : hi[e] \in Int
  BY OpenedIs DEF Spans
<1>2. Peak(hi, OpenedOn, f) \in Int
  BY <1>1, OpenedIs, PeakIs
<1>3. at[f] \in Int
  BY DEF Spans
<1> QED  BY <1>1, <1>2, <1>3 DEF Stops

LEMMA TrailGrows ==
  ASSUME NEW hi, NEW at, NEW c \in Nat, NEW d \in Nat, OpenedOn <= c, c <= d,
         Spans(hi, at, d)
  PROVE  Trail(hi, at, c) <= Trail(hi, at, d)
<1>1. \A e \in OpenedOn..d : Stops(hi, at)[e] \in Int
  BY StopsAre
<1> QED  BY <1>1, OpenedIs, PeakGrows DEF Trail

LEMMA TrailScales ==
  ASSUME NEW hi, NEW at, NEW high, NEW range, NEW d \in Nat, OpenedOn <= d, NEW q \in Units,
         Spans(hi, at, d),
         \A e \in OpenedOn..d : high[e] = hi[e] * q /\ range[e] = at[e] * q
  PROVE  Trail(hi, at, d) \in Int /\ Trail(high, range, d) = Trail(hi, at, d) * q
<1>1. Spans(high, range, d)
  BY ScaledOrder DEF Spans
<1>2. ASSUME NEW f \in OpenedOn..d
      PROVE  /\ Stops(hi, at)[f] \in Int
             /\ Stops(high, range)[f] = Stops(hi, at)[f] * q
  <2>1. /\ Stops(hi, at)[f] \in Int /\ Stops(hi, at)[f] = Peak(hi, OpenedOn, f) - at[f]
        /\ Stops(high, range)[f] = Peak(high, OpenedOn, f) - range[f]
    BY <1>1, StopsAre
  <2>2. f \in Nat /\ OpenedOn <= f
        /\ \A e \in OpenedOn..f : hi[e] \in Int /\ high[e] = hi[e] * q
    BY OpenedIs DEF Spans
  <2>3. Peak(hi, OpenedOn, f) \in Int /\ Peak(high, OpenedOn, f) = Peak(hi, OpenedOn, f) * q
    BY <2>2, OpenedIs, PeakScales
  <2>4. at[f] \in Int /\ range[f] = at[f] * q
    BY DEF Spans
  <2>5. \A x, y \in Int : x * q - y * q = (x - y) * q
    BY DEF Units
  <2> QED  BY <2>1, <2>3, <2>4, <2>5
<1> QED  BY <1>2, OpenedIs, PeakScales DEF Trail

(* Bars of the same prices have the same trailing stop. *)
LEMMA TrailSame ==
  ASSUME NEW hi, NEW at, NEW high, NEW range, NEW d \in Nat, OpenedOn <= d,
         Spans(hi, at, d), \A e \in OpenedOn..d : high[e] = hi[e] /\ range[e] = at[e]
  PROVE  Trail(high, range, d) = Trail(hi, at, d)
<1>1. \A e \in OpenedOn..d : high[e] = hi[e] * 1 /\ range[e] = at[e] * 1
  BY DEF Spans
<1>2. 1 \in Units
  BY DEF Units
<1> QED  BY <1>1, <1>2, TrailScales

-----------------------------------------------------------------------------
(* Share terms.                                                            *)

LEMMA SplitsAre == IsFiniteSet(Splits) /\ Cardinality(Splits) \in Nat
<1>1. IsFiniteSet(Splits)
  <2>1. EndDay \in Int /\ 1 \in Int
    BY EvaluateConstants DEF EvaluateConstants
  <2>2. IsFiniteSet(1..EndDay)
    BY <2>1, FS_Interval
  <2> QED  BY <2>2, EvaluateConstants, FS_Subset DEF EvaluateConstants, Calendar
<1> QED  BY <1>1, FS_CardinalityType

LEMMA FoldsAre ==
  ASSUME NEW S \in SUBSET Splits
  PROVE  IsFiniteSet(S) /\ Cardinality(S) \in 0..Cardinality(Splits)
<1>1. IsFiniteSet(S) /\ Cardinality(S) <= Cardinality(Splits)
  BY SplitsAre, FS_Subset
<1> QED  BY <1>1, SplitsAre, FS_CardinalityType

(* The unit that prices are quoted in after so many splits. *)
Unit(h) == Scale(h)

LEMMA UnitIs ==
  ASSUME NEW h \in 0..Cardinality(Splits)
  PROVE  Unit(h) \in Units /\ \A price \in Int : Quote(price, h) = price * Unit(h)
BY EvaluateConstants DEF EvaluateConstants, Unit, Units, Quote

-----------------------------------------------------------------------------
(* A verdict on a bar that is in the terms of the lot.                     *)

LEMMA ReasonsAre ==
  ASSUME NEW i
  PROVE  /\ "NO_DATA" \notin Reasons(i)
         /\ "DEMERGER_CLIFF" \in Reasons(i) <=> i.demerger
         /\ "STOP_HIT" \in Reasons(i) <=> StopLevel(i) # NoTrail /\ i.close < StopLevel(i)
         /\ "SUPERTREND_FLIP" \in Reasons(i) <=> i.flip
         /\ "TRAIL_HIT" \in Reasons(i) <=>
              i.trail \notin {NoTrail, StopLevel(i)} /\ i.close < i.trail
         /\ "T2_HIT" \in Reasons(i) <=> ~i.unmatched /\ i.close >= i.target2
         /\ "T1_HIT" \in Reasons(i) <=> ~i.unmatched /\ i.close >= i.target1
BY DEF Reasons

LEMMA VerdictIs ==
  ASSUME NEW reasons, "NO_DATA" \notin reasons
  PROVE  /\ Verdict(reasons) = "REVIEW" <=> "DEMERGER_CLIFF" \in reasons
         /\ Verdict(reasons) # "REVIEW" =>
              (/\ Verdict(reasons) = "EXIT" <=>
                    "STOP_HIT" \in reasons \/ "SUPERTREND_FLIP" \in reasons
                    \/ "TRAIL_HIT" \in reasons \/ "T2_HIT" \in reasons
               /\ Verdict(reasons) = "PARTIAL" =>
                    "T1_HIT" \in reasons /\ "T2_HIT" \notin reasons)
BY DEF Verdict

Highs(b) == [e \in Nat |-> b[e].high]
Ranges(b) == [e \in Nat |-> b[e].atr]
TrailOf(b, d) == Trail(Highs(b), Ranges(b), d)

(* What the row of day d says of the bars b. *)
LevelsTell(row, d, b) ==
  row.matched =>
    /\ "STOP_HIT" \in row.reasons <=> b[d].close < Levels.stop
    /\ "T1_HIT" \in row.reasons <=> b[d].close >= Levels.t1
    /\ "T2_HIT" \in row.reasons <=> b[d].close >= Levels.t2

VerdictTells(row, d, b) ==
  /\ row.verdict = "REVIEW" <=> \E x \in Demergers : OpenedOn < x /\ x <= d
  /\ row.verdict # "REVIEW" =>
       (/\ row.verdict = "EXIT" <=>
             \/ b[d].close < TrailOf(b, d) \/ b[d].flip
             \/ row.matched /\ (b[d].close < Levels.stop \/ b[d].close >= Levels.t2)
        /\ row.verdict = "PARTIAL" =>
             row.matched /\ b[d].close >= Levels.t1 /\ b[d].close < Levels.t2)

RowTells(row, d, b) ==
  /\ row.halvings \in 0..Cardinality(Splits)
  /\ LevelsTell(row, d, b)
  /\ row.uniform => /\ row.trail = TrailOf(b, d) * Unit(row.halvings)
                    /\ VerdictTells(row, d, b)

LEMMA PricesScale ==
  ASSUME NEW q \in Units, NEW a \in Int, NEW b \in Int
  PROVE  /\ a * q \in Int /\ (a * q < b * q <=> a < b) /\ (a * q >= b * q <=> a >= b)
         /\ (a \in Nat => a * q \in Nat)
<1>1. a * q \in Int /\ b * q \in Int /\ (a <= b <=> a * q <= b * q) /\ (b <= a <=> b * q <= a * q)
  BY ScaledOrder
<1>2. a \in Nat => a * q \in Nat
  BY DEF Units
<1> QED  BY <1>1, <1>2

LEMMA BarsAre ==
  ASSUME NEW n \in Int, bars \in [1..n -> Bars], NEW e \in 1..n
  PROVE  /\ bars[e].close \in Nat /\ bars[e].high \in Nat /\ bars[e].low \in Nat
         /\ bars[e].atr \in Nat /\ bars[e].flip \in BOOLEAN
<1>1. bars[e] \in Bars
  OBVIOUS
<1> QED  BY <1>1, EvaluateConstants DEF EvaluateConstants

LEMMA SpansOfBars ==
  ASSUME NEW n \in Int, bars \in [1..n -> Bars], NEW d \in 1..n
  PROVE  Spans(Highs(bars), Ranges(bars), d)
<1>1. ASSUME NEW e \in OpenedOn..d
      PROVE  Highs(bars)[e] = bars[e].high /\ Ranges(bars)[e] = bars[e].atr
             /\ bars[e].high \in Nat /\ bars[e].atr \in Nat
  <2>1. e \in 1..n /\ e \in Nat
    BY OpenedIs, EvaluateConstants DEF EvaluateConstants, Calendar
  <2> QED  BY <2>1, BarsAre DEF Highs, Ranges
<1> QED  BY <1>1 DEF Spans

(* The bars held up to a stored day are all days since the lot was opened. *)
LEMMA HeldIs ==
  ASSUME NEW n \in Int, bars \in [1..n -> Bars], NEW d \in 1..n
  PROVE  Held(d) = OpenedOn..d
<1>1. DOMAIN bars = 1..n /\ OpenedOn \in Nat /\ 1 <= OpenedOn
  BY EvaluateConstants DEF EvaluateConstants, Calendar
<1>2. \A e : e \in 1..n /\ OpenedOn <= e /\ e <= d <=> e \in OpenedOn..d
  BY <1>1
<1> QED  BY <1>1, <1>2 DEF Held

LEMMA TrailWorthIs ==
  ASSUME NEW n \in Int, bars \in [1..n -> Bars], NEW d \in 1..n
  PROVE  TrailWorth(d) = TrailOf(bars, d)
<1> DEFINE hi == Highs(bars)
           at == Ranges(bars)
<1>1. ASSUME NEW f \in OpenedOn..d
      PROVE  Max({bars[e].high : e \in Held(f)}) - bars[f].atr = Stops(hi, at)[f]
  <2>1. f \in 1..n /\ f \in Nat
    BY OpenedIs, EvaluateConstants DEF EvaluateConstants, Calendar
  <2>2. Held(f) = OpenedOn..f
    BY <2>1, HeldIs
  <2>3. \A e \in OpenedOn..f : e \in Nat
    BY OpenedIs
  <2>4. {bars[e].high : e \in Held(f)} = {hi[e] : e \in OpenedOn..f}
    BY <2>2, <2>3 DEF Highs
  <2>5. at[f] = bars[f].atr
    BY <2>1 DEF Ranges
  <2> QED  BY <2>1, <2>4, <2>5 DEF Stops, Peak
<1>2. Held(d) = OpenedOn..d
  BY HeldIs
<1> HIDE DEF hi, at
<1>3. {Max({bars[e].high : e \in Held(f)}) - bars[f].atr : f \in Held(d)}
        = {Stops(hi, at)[f] : f \in OpenedOn..d}
  BY <1>1, <1>2
<1> QED  BY <1>3 DEF TrailWorth, TrailOf, Trail, Peak, hi, at

LEMMA TrailIsInt ==
  ASSUME NEW n \in Int, bars \in [1..n -> Bars], NEW d \in 1..n, OpenedOn <= d
  PROVE  TrailOf(bars, d) \in Int
<1>1. Spans(Highs(bars), Ranges(bars), d) /\ d \in Nat
  BY SpansOfBars
<1>2. \A e \in OpenedOn..d : Highs(bars)[e] = Highs(bars)[e] * 1 /\ Ranges(bars)[e] = Ranges(bars)[e] * 1
  BY <1>1 DEF Spans
<1>3. 1 \in Units
  BY DEF Units
<1> QED  BY <1>1, <1>2, <1>3, TrailScales DEF TrailOf

LEMMA ChandelierIs ==
  ASSUME NEW n \in Int, bars \in [1..n -> Bars], NEW d \in 1..n, OpenedOn <= d,
         NEW h \in 0..Cardinality(Splits), \A e \in Held(d) : HalvingsOf(e) = h
  PROVE  Chandelier(d) = TrailOf(bars, d) * Unit(h)
<1> DEFINE hi == Highs(bars)
           at == Ranges(bars)
           high == [e \in Nat |-> Price(e, "high")]
           range == [e \in Nat |-> Price(e, "atr")]
<1>1. /\ Spans(hi, at, d) /\ Unit(h) \in Units /\ d \in Nat
      /\ Held(d) = OpenedOn..d /\ HasEntryBar
  BY SpansOfBars, UnitIs, HeldIs DEF HasEntryBar
<1>2. ASSUME NEW e \in OpenedOn..d
      PROVE  /\ Price(e, "high") = hi[e] * Unit(h) /\ Price(e, "atr") = at[e] * Unit(h)
             /\ high[e] = Price(e, "high") /\ range[e] = Price(e, "atr")
  <2>1. e \in 1..n /\ e \in Nat /\ HalvingsOf(e) = h
    <3>1. HalvingsOf(e) = h
      BY <1>1
    <3> QED  BY <3>1, OpenedIs, EvaluateConstants DEF EvaluateConstants, Calendar
  <2>2. bars[e].high \in Int /\ bars[e].atr \in Int
    BY <2>1, BarsAre
  <2>3. hi[e] = bars[e].high /\ at[e] = bars[e].atr
    BY <2>1 DEF Highs, Ranges
  <2>4. Price(e, "high") = Quote(bars[e].high, h) /\ Price(e, "atr") = Quote(bars[e].atr, h)
    BY <2>1 DEF Price
  <2>5. high[e] = Price(e, "high") /\ range[e] = Price(e, "atr")
    BY <2>1
  <2> QED  BY <2>2, <2>3, <2>4, <2>5, UnitIs
<1>3. Trail(high, range, d) = Trail(hi, at, d) * Unit(h)
  <2>1. \A e \in OpenedOn..d : high[e] = hi[e] * Unit(h) /\ range[e] = at[e] * Unit(h)
    BY <1>2
  <2> HIDE DEF hi, at, high, range
  <2> QED  BY <1>1, <2>1, TrailScales
<1>4. ASSUME NEW f \in OpenedOn..d
      PROVE  Max({Price(e, "high") : e \in Held(f)}) - Price(f, "atr") = Stops(high, range)[f]
  <2>1. f \in 1..n /\ f \in Nat
    BY OpenedIs, EvaluateConstants DEF EvaluateConstants, Calendar
  <2>2. Held(f) = OpenedOn..f
    BY <2>1, HeldIs
  <2>3. \A e \in OpenedOn..f : high[e] = Price(e, "high")
    <3>1. \A e \in OpenedOn..f : e \in OpenedOn..d
      BY OpenedIs
    <3> HIDE DEF high
    <3> QED  BY <1>2, <3>1
  <2>4. {Price(e, "high") : e \in Held(f)} = {high[e] : e \in OpenedOn..f}
    <3> HIDE DEF high
    <3> QED  BY <2>2, <2>3
  <2>5. range[f] = Price(f, "atr")
    BY <2>1
  <2> HIDE DEF high, range
  <2> QED  BY <2>1, <2>4, <2>5 DEF Stops, Peak
<1> HIDE DEF hi, at, high, range
<1>5. {Max({Price(e, "high") : e \in Held(f)}) - Price(f, "atr") : f \in Held(d)}
        = {Stops(high, range)[f] : f \in OpenedOn..d}
  BY <1>1, <1>4
<1>6. Chandelier(d) = Trail(high, range, d)
  BY <1>1, <1>5 DEF Chandelier, Trail, Peak
<1> QED  BY <1>3, <1>6 DEF TrailOf, hi, at

(* Bars are stored without a gap: the last is that of the day.             *)
LEMMA FreshBar ==
  ASSUME EvaluateTypes, NEW n \in Int, n <= today, bars \in [1..n -> Bars],
         today \in DOMAIN bars
  PROVE  today \in 1..n /\ BarDate(today) = today /\ Dated(today) # {}
<1>1. today \in Nat /\ DOMAIN bars = 1..n /\ today = n
  BY EvaluateConstants DEF EvaluateTypes, EvaluateConstants, Calendar
<1>2. Dated(today) = 1..n
  BY <1>1 DEF Dated
<1>3. n \in 1..n /\ \A d \in 1..n : n >= d
  BY <1>1
<1>4. Max(1..n) \in 1..n /\ \A d \in 1..n : Max(1..n) >= d
  BY <1>3 DEF Max
<1>5. Max(1..n) = n
  BY <1>3, <1>4
<1> QED  BY <1>1, <1>2, <1>3, <1>5 DEF BarDate

LEMMA TermsOfToday ==
  ASSUME EvaluateTypes
  PROVE  HalvingsOf(today) = EffectiveBy(today) /\ EffectiveBy(today) \in 0..Cardinality(Splits)
<1>1. folded \cup {x \in Splits : x <= today} = {x \in Splits : x <= today}
  BY DEF EvaluateTypes
<1>2. Cardinality({x \in Splits : x <= today}) \in 0..Cardinality(Splits)
  BY FoldsAre
<1> QED  BY <1>1, <1>2 DEF HalvingsOf, EffectiveBy

LEMMA JudgedIs ==
  ASSUME EvaluateTypes, NEW p \in Lots,
         p.matched => p.halvings = EffectiveBy(today),
         NEW n \in Int, n <= today, bars \in [1..n -> Bars], today \in DOMAIN bars
  PROVE  today \in 1..n /\ RowTells(Decide(p, today), today, bars)
<1> DEFINE i == Inputs(p, today)
           row == Decide(p, today)
           h == EffectiveBy(today)
           q == Unit(h)
           t == TrailOf(bars, today)
<1>1. BarDate(today) = today /\ today \in 1..n
  BY FreshBar
<1>2. h \in 0..Cardinality(Splits) /\ HalvingsOf(today) = h /\ q \in Units
  BY TermsOfToday, UnitIs
<1>3. /\ row.reasons = Reasons(i) /\ row.verdict = Verdict(Reasons(i))
      /\ row.trail = i.trail /\ row.matched = p.matched /\ row.halvings = h
      /\ row.uniform = Uniform(today)
  BY <1>1, <1>2 DEF Decide
<1>4. /\ i.close = Price(today, "close") /\ i.stop = Quote(Levels.stop, p.halvings)
      /\ i.target1 = Quote(Levels.t1, p.halvings) /\ i.target2 = Quote(Levels.t2, p.halvings)
      /\ i.unmatched = ~p.matched /\ i.trail = Chandelier(today)
      /\ i.flip = bars[today].flip
      /\ i.demerger = \E x \in Known(Demergers) : OpenedOn < x /\ x <= today
  BY <1>1 DEF Inputs
<1>5. /\ bars[today].close \in Nat /\ bars[today].flip \in BOOLEAN
      /\ Levels.stop \in Nat /\ Levels.t1 \in Nat /\ Levels.t2 \in Nat
      /\ p.matched \in BOOLEAN
  BY <1>1, BarsAre, EvaluateConstants DEF EvaluateConstants, Lots
<1>6. i.close = bars[today].close * q
  BY <1>2, <1>4, <1>5, UnitIs DEF Price
<1>7. ASSUME p.matched
      PROVE  i.stop = Levels.stop * q /\ i.target1 = Levels.t1 * q /\ i.target2 = Levels.t2 * q
  BY <1>2, <1>4, <1>5, <1>7, UnitIs
<1>8. i.demerger <=> \E x \in Demergers : OpenedOn < x /\ x <= today
  <2>1. \A x \in Demergers : x <= today => x \in Known(Demergers)
    <3>1. today \in Int /\ Notice \in Nat /\ \A x \in Demergers : x \in Int
      BY EvaluateConstants DEF EvaluateConstants, EvaluateTypes, Calendar
    <3> QED  BY <3>1 DEF Known
  <2>2. Known(Demergers) \subseteq Demergers
    BY DEF Known
  <2> QED  BY <1>4, <2>1, <2>2
<1> HIDE DEF i, row, h, q, t
<1>9. LevelsTell(row, today, bars)
  <2> SUFFICES ASSUME row.matched
               PROVE  /\ "STOP_HIT" \in row.reasons <=> bars[today].close < Levels.stop
                      /\ "T1_HIT" \in row.reasons <=> bars[today].close >= Levels.t1
                      /\ "T2_HIT" \in row.reasons <=> bars[today].close >= Levels.t2
    BY DEF LevelsTell
  <2>1. StopLevel(i) = i.stop /\ i.unmatched = FALSE /\ p.matched
    BY <1>3, <1>4, <1>5 DEF StopLevel
  <2>2. i.stop \in Nat /\ i.stop # NoTrail
    BY <1>2, <1>5, <1>7, <2>1, PricesScale DEF NoTrail
  <2>3. /\ i.close < i.stop <=> bars[today].close < Levels.stop
        /\ i.close >= i.target1 <=> bars[today].close >= Levels.t1
        /\ i.close >= i.target2 <=> bars[today].close >= Levels.t2
    <3>1. \A level \in Int : /\ bars[today].close * q < level * q <=> bars[today].close < level
                             /\ bars[today].close * q >= level * q <=> bars[today].close >= level
      BY <1>2, <1>5, PricesScale
    <3>2. i.stop = Levels.stop * q /\ i.target1 = Levels.t1 * q /\ i.target2 = Levels.t2 * q
      BY <1>7, <2>1
    <3> QED  BY <1>5, <1>6, <3>1, <3>2
  <2> QED  BY <1>3, <2>1, <2>2, <2>3, ReasonsAre
<1>10. ASSUME row.uniform
       PROVE  row.trail = t * q /\ VerdictTells(row, today, bars)
  <2>1. OpenedOn <= today
    BY DEF EvaluateTypes
  <2>2. t \in Int /\ i.trail = t * q
    <3>1. \A e \in Held(today) : HalvingsOf(e) = h
      BY <1>2, <1>3, <1>10 DEF Uniform
    <3>2. Chandelier(today) = TrailOf(bars, today) * Unit(h) /\ TrailOf(bars, today) \in Int
      BY <1>1, <1>2, <2>1, <3>1, ChandelierIs, TrailIsInt
    <3> QED  BY <1>4, <3>2 DEF t, q
  <2>3. i.trail \in Int /\ (i.close < i.trail <=> bars[today].close < t)
        /\ (i.trail = NoTrail => ~(i.close < i.trail)) /\ i.close \in Nat
    <3>1. bars[today].close * q < t * q <=> bars[today].close < t
      BY <1>2, <1>5, <2>2, PricesScale
    <3>2. i.close \in Nat /\ i.trail \in Int
      BY <1>2, <1>5, <1>6, <2>2, PricesScale
    <3>3. i.trail = NoTrail => ~(i.close < i.trail)
      BY <3>2 DEF NoTrail
    <3> QED  BY <1>6, <2>2, <3>1, <3>2, <3>3
  <2>4. row.verdict = "REVIEW" <=> \E x \in Demergers : OpenedOn < x /\ x <= today
    BY <1>3, <1>4, <1>8, ReasonsAre, VerdictIs
  <2>5. ASSUME row.verdict # "REVIEW"
        PROVE  /\ row.verdict = "EXIT" <=>
                    \/ bars[today].close < t \/ bars[today].flip
                    \/ row.matched /\ (bars[today].close < Levels.stop \/ bars[today].close >= Levels.t2)
               /\ row.verdict = "PARTIAL" =>
                    row.matched /\ bars[today].close >= Levels.t1 /\ bars[today].close < Levels.t2
    <3>1. /\ row.verdict = "EXIT" <=>
               "STOP_HIT" \in row.reasons \/ "SUPERTREND_FLIP" \in row.reasons
               \/ "TRAIL_HIT" \in row.reasons \/ "T2_HIT" \in row.reasons
          /\ row.verdict = "PARTIAL" => "T1_HIT" \in row.reasons /\ "T2_HIT" \notin row.reasons
      BY <1>3, <2>5, ReasonsAre, VerdictIs
    <3>2. "SUPERTREND_FLIP" \in row.reasons <=> bars[today].flip
      BY <1>3, <1>4, ReasonsAre
    <3>3. CASE p.matched
      <4>1. StopLevel(i) = i.stop /\ i.unmatched = FALSE /\ row.matched
        BY <1>3, <1>4, <1>5, <3>3 DEF StopLevel
      <4>2. i.stop \in Nat /\ (i.close < i.stop <=> bars[today].close < Levels.stop)
        BY <1>2, <1>5, <1>6, <1>7, <3>3, PricesScale
      <4>3. "TRAIL_HIT" \in row.reasons <=> i.trail # i.stop /\ i.close < i.trail
        BY <1>3, <2>3, <4>1, ReasonsAre
      <4>4. "STOP_HIT" \in row.reasons \/ "TRAIL_HIT" \in row.reasons
              <=> bars[today].close < Levels.stop \/ bars[today].close < t
        BY <1>9, <2>3, <4>1, <4>2, <4>3 DEF LevelsTell
      <4> QED  BY <1>5, <1>9, <3>1, <3>2, <4>1, <4>4 DEF LevelsTell
    <3>4. CASE ~p.matched
      <4>1. StopLevel(i) = i.trail /\ i.unmatched = TRUE /\ ~row.matched
        BY <1>3, <1>4, <1>5, <3>4 DEF StopLevel
      <4>2. "T2_HIT" \notin row.reasons /\ "T1_HIT" \notin row.reasons
        BY <1>3, <4>1, ReasonsAre
      <4>3. "TRAIL_HIT" \notin row.reasons
        BY <1>3, <4>1, ReasonsAre
      <4>4. "STOP_HIT" \in row.reasons <=> i.trail # NoTrail /\ i.close < i.trail
        BY <1>3, <4>1, ReasonsAre
      <4> QED  BY <2>3, <3>1, <3>2, <4>1, <4>2, <4>3, <4>4
    <3> QED  BY <3>3, <3>4
  <2>6. row.trail = t * q
    BY <1>3, <2>2
  <2> QED  BY <2>4, <2>5, <2>6 DEF VerdictTells, t
<1>11. row.halvings = h /\ q = Unit(row.halvings)
  BY <1>3 DEF q
<1> QED  BY <1>1, <1>2, <1>9, <1>10, <1>11 DEF RowTells, row, t

-----------------------------------------------------------------------------
(* Every step keeps the rows true.                                         *)

RowsInv ==
  \A d \in DOMAIN rows : d \in DOMAIN bars /\ RowTells(rows[d], d, bars)

EvaluateInv == EvaluateTypes /\ Restates(lot) /\ HeldInv /\ RowsInv

LEMMA Calendars ==
  /\ EndDay \in Nat /\ OpenedOn \in 1..EndDay /\ Notice \in Nat
  /\ Ahead \in Nat /\ Behind \in Nat
  /\ Calendar = 1..EndDay /\ Splits \subseteq 1..EndDay
  /\ \A x \in Splits : x > OpenedOn
BY EvaluateConstants DEF EvaluateConstants, Calendar

(* All is announced by its day. *)
LEMMA ToFoldIs ==
  ASSUME NEW p, NEW asOf, Announced(asOf)
  PROVE  ToFold(p, asOf) = Due(p, asOf)
BY DEF ToFold, Due, Known, Announced

LEMMA AnnouncedByToday ==
  ASSUME EvaluateTypes  PROVE Announced(today)
BY Calendars DEF Announced, Known, EvaluateTypes

LEMMA EffectsAdd ==
  ASSUME NEW p \in Lots, NEW b \in Int, p.restatedOn <= b
  PROVE  EffectiveBy(p.restatedOn) + Cardinality(Due(p, b)) = EffectiveBy(b)
<1> DEFINE S == {x \in Splits : x <= p.restatedOn}
           T == Due(p, b)
<1>1. p.restatedOn \in Int /\ \A x \in Splits : x \in Int
  BY Calendars DEF Lots
<1>2. S \cup T = {x \in Splits : x <= b} /\ S \cap T = {}
  BY <1>1 DEF Due
<1>3. /\ IsFiniteSet(S) /\ IsFiniteSet(T)
      /\ Cardinality(S) \in Int /\ Cardinality(T) \in Int
  BY FoldsAre, SplitsAre DEF Due
<1>4. Cardinality(S \cup T) = Cardinality(S) + Cardinality(T) - Cardinality(S \cap T)
  <2> HIDE DEF S, T
  <2> QED  BY <1>3, FS_Union
<1>5. Cardinality(S \cap T) = 0
  BY <1>2, FS_EmptySet
<1>6. Cardinality(S \cup T) = Cardinality(S) + Cardinality(T)
  <2> HIDE DEF S, T
  <2> QED  BY <1>3, <1>4, <1>5
<1>7. EffectiveBy(p.restatedOn) = Cardinality(S) /\ EffectiveBy(b) = Cardinality(S \cup T)
  BY <1>2 DEF EffectiveBy
<1> QED  BY <1>6, <1>7

(* The lot p with k splits more, as of a day. *)
Refolded(p, asOf, k) ==
  [p EXCEPT !.restatedOn = asOf, !.halvings = IF p.matched THEN @ + k ELSE @]

LEMMA Refolds ==
  ASSUME NEW p \in Lots, NEW asOf \in Int, NEW k \in Int, NEW q,
         q = Refolded(p, asOf, k)
  PROVE  /\ q \in Lots /\ q.matched = p.matched /\ q.fits = p.fits /\ q.restatedOn = asOf
         /\ p.matched => q.halvings = p.halvings + k
<1> DEFINE v == IF p.matched THEN p.halvings + k ELSE p.halvings
<1>1. p = [open |-> p.open, matched |-> p.matched, halvings |-> p.halvings,
           restatedOn |-> p.restatedOn, fits |-> p.fits]
      /\ p.open \in BOOLEAN /\ p.matched \in BOOLEAN /\ p.fits \in BOOLEAN /\ p.halvings \in Int
  BY DEF Lots
<1>2. v \in Int /\ q = [p EXCEPT !.restatedOn = asOf, !.halvings = v]
  BY <1>1 DEF Refolded
<1>3. p.matched => v = p.halvings + k
  OBVIOUS
<1> HIDE DEF v
<1>4. q = [open |-> p.open, matched |-> p.matched, halvings |-> v, restatedOn |-> asOf,
           fits |-> p.fits]
  BY <1>1, <1>2
<1> QED  BY <1>1, <1>2, <1>3, <1>4 DEF Lots

(* The lot as restated for a day: in the terms of that day, if all splits  *)
(* are announced and the lot is in no later terms.                         *)
LEMMA RestateDoes ==
  ASSUME NEW p \in Lots, Restates(p), NEW asOf \in Int, Announced(asOf)
  PROVE  /\ Restate(p, asOf) \in Lots
         /\ Restate(p, asOf).matched = p.matched /\ Restate(p, asOf).fits = p.fits
         /\ Due(p, asOf) = {} => Restate(p, asOf) = p
         /\ p.matched /\ p.fits /\ (Due(p, asOf) # {} \/ p.restatedOn <= asOf) =>
              Restate(p, asOf).halvings = EffectiveBy(asOf)
<1>1. ToFold(p, asOf) = Due(p, asOf)
  BY ToFoldIs
<1>2. p.restatedOn \in Int /\ p.halvings \in Int
  BY DEF Lots
<1>3. Cardinality(Due(p, asOf)) \in Int
  BY FoldsAre, SplitsAre DEF Due
<1>4. ASSUME p.matched, p.fits, p.restatedOn <= asOf
      PROVE  p.halvings + Cardinality(Due(p, asOf)) = EffectiveBy(asOf)
  BY <1>4, EffectsAdd DEF Restates
<1>5. CASE Due(p, asOf) = {}
  <2>1. Restate(p, asOf) = p
    BY <1>1, <1>5 DEF Restate
  <2>2. Cardinality(Due(p, asOf)) = 0
    BY <1>5, FS_EmptySet
  <2>3. ASSUME p.matched, p.fits, p.restatedOn <= asOf
        PROVE  p.halvings = EffectiveBy(asOf)
    BY <1>2, <1>4, <2>2, <2>3
  <2> QED  BY <1>5, <2>1, <2>3
<1>6. CASE Due(p, asOf) # {}
  <2>1. PICK x \in Splits : p.restatedOn < x /\ x <= asOf
    BY <1>6 DEF Due
  <2>2. p.restatedOn <= asOf
    BY <1>2, <2>1, Calendars
  <2>3. PICK k, q : k = Cardinality(Due(p, asOf)) /\ q = Restate(p, asOf)
    OBVIOUS
  <2>4. q = Refolded(p, asOf, k) /\ k \in Int
    BY <1>1, <1>3, <1>6, <2>3 DEF Restate, Refolded
  <2>5. /\ q \in Lots /\ q.matched = p.matched /\ q.fits = p.fits
        /\ p.matched => q.halvings = p.halvings + k
    BY <2>4, Refolds
  <2> QED  BY <1>4, <1>6, <2>2, <2>3, <2>5
<1> QED  BY <1>5, <1>6

(* The row that a session writes is true of the lot that it has not read.  *)
Written(l, asOf, h, fits) == [l EXCEPT !.restatedOn = asOf, !.halvings = h, !.fits = fits]

LEMMA WrittenIs ==
  ASSUME NEW l \in Lots, NEW asOf \in Int, NEW h \in Int, NEW f \in BOOLEAN,
         NEW q, q = Written(l, asOf, h, f)
  PROVE  /\ q \in Lots /\ q.matched = l.matched /\ q.open = l.open
         /\ q.fits = f /\ q.halvings = h /\ q.restatedOn = asOf
<1>1. l = [open |-> l.open, matched |-> l.matched, halvings |-> l.halvings,
           restatedOn |-> l.restatedOn, fits |-> l.fits]
      /\ l.open \in BOOLEAN /\ l.matched \in BOOLEAN
  BY DEF Lots
<1>2. q = [open |-> l.open, matched |-> l.matched, halvings |-> h, restatedOn |-> asOf,
           fits |-> f]
  BY <1>1 DEF Written
<1> QED  BY <1>1, <1>2 DEF Lots

LEMMA WriteDoes ==
  ASSUME Restates(lot), NEW p, Restates(p), NEW asOf \in Int,
         lot.fits => p.fits /\ p.matched = lot.matched
  PROVE  /\ Restates(Write(p, asOf)) /\ Write(p, asOf).open = lot.open
         /\ Write(p, asOf).matched = lot.matched
         /\ Write(p, asOf).fits => lot.fits
<1>1. CASE ToFold(p, asOf) = {}
  BY <1>1 DEF Write
<1>2. CASE ToFold(p, asOf) # {}
  <2> DEFINE g == IF p.matched THEN Restate(p, asOf).halvings ELSE lot.halvings
             u == lot.fits /\ Announced(asOf)
  <2>1. /\ lot \in Lots /\ p \in Lots /\ lot.halvings \in Int /\ lot.fits \in BOOLEAN
        /\ p.matched \in BOOLEAN /\ p.halvings \in Int
    BY DEF Restates, Lots
  <2>2. Restate(p, asOf).halvings \in Int
    <3>1. Cardinality(ToFold(p, asOf)) \in Int
      BY FoldsAre, SplitsAre DEF ToFold, Known
    <3>2. PICK k, q : k = Cardinality(ToFold(p, asOf)) /\ q = Restate(p, asOf)
      OBVIOUS
    <3>3. q = Refolded(p, asOf, k) /\ k \in Int
      BY <1>2, <3>1, <3>2 DEF Restate, Refolded
    <3>4. q \in Lots
      BY <2>1, <3>3, Refolds
    <3> QED  BY <3>2, <3>4 DEF Lots
  <2>3. Write(p, asOf) = Written(lot, asOf, g, u)
    BY <1>2 DEF Write, Written
  <2>4. /\ g \in Int /\ (p.matched => g = Restate(p, asOf).halvings)
        /\ u \in BOOLEAN /\ (u <=> lot.fits /\ Announced(asOf))
    <3>1. Announced(asOf) \in BOOLEAN
      BY DEF Announced
    <3> QED  BY <2>1, <2>2, <3>1
  <2> HIDE DEF g, u
  <2>5. PICK l, q, h, f : l = lot /\ q = Write(p, asOf) /\ h = g /\ f = u
    OBVIOUS
  <2>6. l \in Lots /\ h \in Int /\ f \in BOOLEAN /\ q = Written(l, asOf, h, f)
    BY <2>1, <2>3, <2>4, <2>5
  <2>7. /\ q \in Lots /\ q.matched = l.matched /\ q.open = l.open
        /\ q.fits = f /\ q.halvings = h /\ q.restatedOn = asOf
    BY <2>6, WrittenIs
  <2>8. ASSUME q.matched, q.fits  PROVE q.halvings = EffectiveBy(asOf)
    <3>1. lot.fits /\ Announced(asOf) /\ p.fits /\ p.matched
      <4>1. u /\ lot.matched
        BY <2>5, <2>7, <2>8
      <4>2. lot.fits /\ Announced(asOf)
        BY <2>4, <4>1
      <4> QED  BY <4>1, <4>2
    <3>2. Due(p, asOf) # {}
      BY <1>2, <3>1, ToFoldIs
    <3>3. Restate(p, asOf).halvings = EffectiveBy(asOf)
      BY <2>1, <3>1, <3>2, RestateDoes
    <3> QED  BY <2>4, <2>5, <2>7, <3>1, <3>3
  <2>9. Restates(q)
    BY <2>7, <2>8 DEF Restates
  <2> QED  BY <2>4, <2>5, <2>7, <2>9
<1> QED  BY <1>1, <1>2

(* A row that is true of the bars remains so when bars are added.          *)
LEMMA RowKept ==
  ASSUME NEW n \in Int, bars \in [1..n -> Bars], NEW d \in 1..n, OpenedOn <= d,
         NEW c, \A e \in 1..d : c[e] = bars[e], NEW row,
         RowTells(row, d, bars)
  PROVE  RowTells(row, d, c)
<1>1. TrailOf(c, d) = TrailOf(bars, d)
  <2>1. Spans(Highs(bars), Ranges(bars), d) /\ d \in Nat
    BY SpansOfBars
  <2>2. \A e \in OpenedOn..d : e \in 1..d /\ e \in Nat
    BY OpenedIs, EvaluateConstants DEF EvaluateConstants, Calendar
  <2>3. \A e \in OpenedOn..d : Highs(c)[e] = Highs(bars)[e] /\ Ranges(c)[e] = Ranges(bars)[e]
    BY <2>2 DEF Highs, Ranges
  <2> QED  BY <2>1, <2>3, TrailSame DEF TrailOf
<1>2. c[d] = bars[d]
  OBVIOUS
<1> QED  BY <1>1, <1>2 DEF RowTells, LevelsTell, VerdictTells

LEMMA RowsKept ==
  ASSUME EvaluateTypes, RowsInv, rows' = rows,
         \A e \in DOMAIN bars : e \in DOMAIN bars' /\ bars'[e] = bars[e]
  PROVE  RowsInv'
<1>1. PICK n \in Int : bars \in [1..n -> Bars]
  BY Calendars DEF EvaluateTypes
<1>2. PICK c : c = bars'
  OBVIOUS
<1> SUFFICES ASSUME NEW d \in DOMAIN rows
             PROVE  d \in DOMAIN bars' /\ RowTells(rows[d], d, c)
  BY <1>2 DEF RowsInv
<1>3. d \in 1..n /\ OpenedOn <= d /\ RowTells(rows[d], d, bars)
  BY <1>1, OpenedIs DEF RowsInv, EvaluateTypes
<1>4. \A e \in 1..d : c[e] = bars[e]
  BY <1>1, <1>2, <1>3
<1>5. RowTells(rows[d], d, c)
  BY <1>1, <1>3, <1>4, RowKept
<1> QED  BY <1>1, <1>3, <1>5

LEMMA HeldKept ==
  ASSUME Restates(lot), HeldInv, held' = held, lot' = lot
  PROVE  HeldInv' /\ Restates(lot)'
BY DEF HeldInv, Restates, EffectiveBy

-----------------------------------------------------------------------------
(* One lemma per action.                                                   *)

LEMMA TypesKept ==
  ASSUME EvaluateTypes, today' \in Calendar, today <= today',
         bars' = bars, folded' = folded, lot' \in Lots,
         held' = [r \in Sessions |-> held'[r]],
         DOMAIN rows' \subseteq OpenedOn..today'
  PROVE  EvaluateTypes'
<1>1. today \in Int /\ today' \in Int /\ OpenedOn \in Int
      /\ OpenedOn <= today /\ \A x \in Splits : x \in Int
  BY Calendars DEF EvaluateTypes
<1>2. PICK n \in (OpenedOn - 1)..today : bars \in [1..n -> Bars]
  BY DEF EvaluateTypes
<1>3. n \in (OpenedOn - 1)..today' /\ bars' \in [1..n -> Bars] /\ OpenedOn <= today'
  BY <1>1, <1>2
<1>4. folded' \subseteq {x \in Splits : x <= today'}
  BY <1>1 DEF EvaluateTypes
<1> QED  BY <1>3, <1>4 DEF EvaluateTypes

LEMMA DayKeeps ==
  ASSUME EvaluateInv, NextDay  PROVE EvaluateInv'
<1>1. /\ today \in Int /\ today' \in Calendar /\ today <= today' /\ OpenedOn \in Int
      /\ bars' = bars /\ folded' = folded /\ lot' = lot /\ held' = held /\ rows' = rows
  BY Calendars DEF NextDay, EvaluateInv, EvaluateTypes
<1>2. EvaluateTypes'
  <2>1. today' \in Int /\ DOMAIN rows' \subseteq OpenedOn..today'
    BY <1>1, Calendars DEF EvaluateInv, EvaluateTypes
  <2> QED  BY <1>1, <2>1, TypesKept DEF EvaluateInv, EvaluateTypes
<1>3. HeldInv' /\ Restates(lot)'
  BY <1>1, HeldKept DEF EvaluateInv
<1>4. RowsInv'
  BY <1>1, RowsKept DEF EvaluateInv
<1> QED  BY <1>2, <1>3, <1>4 DEF EvaluateInv

LEMMA IngestsKeeps ==
  ASSUME EvaluateInv, Ingests  PROVE EvaluateInv'
<1>1. /\ today \in Int /\ OpenedOn \in Int /\ OpenedOn <= today /\ today' = today
      /\ folded' = folded /\ lot' = lot /\ held' = held /\ rows' = rows
  BY Calendars DEF Ingests, EvaluateInv, EvaluateTypes
<1>2. PICK n \in (OpenedOn - 1)..today : bars \in [1..n -> Bars]
  BY DEF EvaluateInv, EvaluateTypes
<1>3. PICK new \in [(1..today) \ DOMAIN bars -> Bars] :
        bars' = [d \in 1..today |-> IF d \in (1..today) \ DOMAIN bars THEN new[d] ELSE bars[d]]
  BY DEF Ingests
<1>4. bars' \in [1..today -> Bars]
  BY <1>2, <1>3
<1>5. \A e \in DOMAIN bars : e \in DOMAIN bars' /\ bars'[e] = bars[e]
  BY <1>1, <1>2, <1>3
<1>6. EvaluateTypes'
  BY <1>1, <1>4 DEF EvaluateInv, EvaluateTypes
<1>7. HeldInv' /\ Restates(lot)'
  BY <1>1, HeldKept DEF EvaluateInv
<1>8. RowsInv'
  BY <1>1, <1>5, RowsKept DEF EvaluateInv
<1> QED  BY <1>6, <1>7, <1>8 DEF EvaluateInv

LEMMA RebuildsKeeps ==
  ASSUME EvaluateInv, NEW x \in Splits, Rebuilds(x)  PROVE EvaluateInv'
<1>1. /\ today \in Int /\ today' = today /\ x <= today /\ folded' = folded \cup {x}
      /\ bars' = bars /\ lot' = lot /\ held' = held /\ rows' = rows
  BY Calendars DEF Rebuilds, EvaluateInv, EvaluateTypes
<1>2. EvaluateTypes'
  BY <1>1 DEF EvaluateInv, EvaluateTypes
<1>3. HeldInv' /\ Restates(lot)'
  BY <1>1, HeldKept DEF EvaluateInv
<1>4. RowsInv'
  BY <1>1, RowsKept DEF EvaluateInv
<1> QED  BY <1>2, <1>3, <1>4 DEF EvaluateInv

(* No session holds a lot that is not open.                                *)
LEMMA BuysKeeps ==
  ASSUME EvaluateInv, Buys  PROVE EvaluateInv'
<1>1. PICK matched \in BOOLEAN :
        lot' = [open |-> TRUE, matched |-> matched,
                halvings |-> IF matched THEN EffectiveBy(today) ELSE 0,
                restatedOn |-> today, fits |-> matched]
  BY DEF Buys
<1>2. /\ today' = today /\ folded' = folded /\ bars' = bars /\ held' = held /\ rows' = rows
      /\ ~lot.open /\ today \in Int /\ today \in Calendar
      /\ EvaluateTypes /\ HeldInv /\ RowsInv
  BY Calendars DEF Buys, EvaluateInv, EvaluateTypes
<1>3. EffectiveBy(today) \in Int
  BY FoldsAre, SplitsAre DEF EffectiveBy
<1>4. PICK h \in Int : h = IF matched THEN EffectiveBy(today) ELSE 0
  BY <1>3
<1>5. /\ lot' \in Lots /\ lot'.restatedOn = today
      /\ lot'.matched => lot'.halvings = EffectiveBy(today)
  BY <1>1, <1>2, <1>4 DEF Lots
<1>6. EvaluateTypes'
  BY <1>2, <1>5 DEF EvaluateTypes
<1>7. Restates(lot)'
  BY <1>5 DEF Restates, EffectiveBy
<1>8. HeldInv'
  BY <1>2 DEF HeldInv
<1>9. RowsInv'
  BY <1>2, RowsKept
<1> QED  BY <1>6, <1>7, <1>8, <1>9 DEF EvaluateInv

(* Levels fit that are in the terms of the lot, if no session holds it.    *)
LEMMA MatchesKeeps ==
  ASSUME EvaluateInv, Matches  PROVE EvaluateInv'
<1>1. PICK signal \in SignalTerms :
        lot' = [lot EXCEPT !.matched = TRUE, !.halvings = signal,
                           !.fits = /\ signal = EffectiveBy(lot.restatedOn)
                                    /\ \A s \in Sessions : held[s] = Nothing]
  BY DEF Matches
<1>2. /\ today' = today /\ folded' = folded /\ bars' = bars /\ held' = held /\ rows' = rows
      /\ EvaluateTypes /\ HeldInv /\ RowsInv /\ lot \in Lots /\ today \in Int
  BY Calendars DEF Matches, EvaluateInv, EvaluateTypes
<1>3. signal \in Int
  BY <1>1 DEF SignalTerms
<1>4. PICK f \in BOOLEAN : f <=> /\ signal = EffectiveBy(lot.restatedOn)
                                 /\ \A s \in Sessions : held[s] = Nothing
  OBVIOUS
<1>5. lot' = [lot EXCEPT !.matched = TRUE, !.halvings = signal, !.fits = f]
  <2>1. f = (/\ signal = EffectiveBy(lot.restatedOn)
             /\ \A s \in Sessions : held[s] = Nothing)
    BY <1>4
  <2> QED  BY <1>1, <2>1
<1>6. /\ lot' \in Lots /\ lot'.matched = TRUE /\ lot'.halvings = signal
      /\ lot'.restatedOn = lot.restatedOn /\ lot'.fits = f /\ lot'.open = lot.open
  <2>1. lot = [open |-> lot.open, matched |-> lot.matched, halvings |-> lot.halvings,
               restatedOn |-> lot.restatedOn, fits |-> lot.fits]
        /\ lot.open \in BOOLEAN /\ lot.restatedOn \in Int
    BY <1>2 DEF Lots
  <2>2. lot' = [open |-> lot.open, matched |-> TRUE, halvings |-> signal,
                restatedOn |-> lot.restatedOn, fits |-> f]
    BY <1>5, <2>1
  <2> QED  BY <1>3, <2>1, <2>2 DEF Lots
<1>7. EvaluateTypes'
  BY <1>2, <1>6 DEF EvaluateTypes
<1>8. Restates(lot)'
  BY <1>4, <1>6 DEF Restates, EffectiveBy
<1>9. HeldInv'
  <2>1. ASSUME NEW s \in Sessions, held'[s] # Nothing
        PROVE  /\ held'[s].asOf \in Int /\ Restates(held[s].lot)' /\ lot'.open
               /\ ~lot'.fits
    <3>1. held[s].asOf \in Int /\ Restates(held[s].lot) /\ lot.open
      BY <1>2, <2>1 DEF HeldInv
    <3>2. ~f
      BY <1>2, <1>4, <2>1
    <3> QED  BY <1>2, <1>6, <3>1, <3>2 DEF Restates, EffectiveBy
  <2> QED  BY <2>1 DEF HeldInv
<1>10. RowsInv'
  BY <1>2, RowsKept
<1> QED  BY <1>7, <1>8, <1>9, <1>10 DEF EvaluateInv

LEMMA LoadsKeeps ==
  ASSUME EvaluateInv, NEW s \in Sessions, NEW asOf \in Int, Loads(s, asOf)
  PROVE  EvaluateInv'
<1>1. /\ held' = [held EXCEPT ![s] = [asOf |-> asOf, lot |-> lot]] /\ lot.open
      /\ today' = today /\ folded' = folded /\ bars' = bars /\ lot' = lot /\ rows' = rows
  BY DEF Loads
<1>2. EvaluateTypes /\ Restates(lot) /\ HeldInv /\ RowsInv
  BY DEF EvaluateInv
<1>3. /\ held' = [r \in Sessions |-> held'[r]] /\ held'[s] = [asOf |-> asOf, lot |-> lot]
      /\ \A r \in Sessions : r # s => held'[r] = held[r]
  BY <1>1, <1>2 DEF EvaluateTypes
<1>4. EvaluateTypes'
  BY <1>1, <1>2, <1>3 DEF EvaluateTypes
<1>5. Restates(lot)'
  BY <1>1, <1>2 DEF Restates, EffectiveBy
<1>6. HeldInv'
  <2>1. ASSUME NEW r \in Sessions, held'[r] # Nothing
        PROVE  /\ held'[r].asOf \in Int /\ Restates(held[r].lot)' /\ lot'.open
               /\ lot'.fits => held'[r].lot.fits /\ held'[r].lot.matched = lot'.matched
    <3>1. CASE r = s
      <4>1. held'[r].asOf = asOf /\ held'[r].lot = lot
        BY <1>3, <3>1
      <4> QED  BY <1>1, <1>2, <4>1 DEF Restates, EffectiveBy
    <3>2. CASE r # s
      <4>1. held'[r] = held[r] /\ held[r] # Nothing
        BY <1>3, <2>1, <3>2
      <4> QED  BY <1>1, <1>2, <4>1 DEF HeldInv, Restates, EffectiveBy
    <3> QED  BY <3>1, <3>2
  <2> QED  BY <2>1 DEF HeldInv
<1>7. RowsInv'
  BY <1>1, <1>2, RowsKept
<1> QED  BY <1>4, <1>5, <1>6, <1>7 DEF EvaluateInv

LEMMA FailsKeeps ==
  ASSUME EvaluateInv, NEW s \in Sessions, Fails(s)  PROVE EvaluateInv'
<1>1. /\ held' = [held EXCEPT ![s] = Nothing]
      /\ today' = today /\ folded' = folded /\ bars' = bars /\ lot' = lot /\ rows' = rows
  BY DEF Fails
<1>2. EvaluateTypes /\ Restates(lot) /\ HeldInv /\ RowsInv
  BY DEF EvaluateInv
<1>3. /\ held' = [r \in Sessions |-> held'[r]]
      /\ \A r \in Sessions : held'[r] # Nothing => held'[r] = held[r]
  BY <1>1, <1>2 DEF EvaluateTypes
<1>4. EvaluateTypes'
  BY <1>1, <1>2, <1>3 DEF EvaluateTypes
<1>5. Restates(lot)'
  BY <1>1, <1>2 DEF Restates, EffectiveBy
<1>6. HeldInv'
  <2>1. ASSUME NEW r \in Sessions, held'[r] # Nothing
        PROVE  /\ held'[r].asOf \in Int /\ Restates(held[r].lot)' /\ lot'.open
               /\ lot'.fits => held'[r].lot.fits /\ held'[r].lot.matched = lot'.matched
    <3>1. held'[r] = held[r] /\ held[r] # Nothing
      BY <1>3, <2>1
    <3>2. /\ held[r].asOf \in Int /\ Restates(held[r].lot) /\ lot.open
          /\ lot.fits => held[r].lot.fits /\ held[r].lot.matched = lot.matched
      BY <1>2, <3>1 DEF HeldInv
    <3>3. Restates(held[r].lot)'
      BY <1>1, <3>1, <3>2 DEF Restates, EffectiveBy
    <3> QED  BY <1>1, <3>1, <3>2, <3>3
  <2> QED  BY <2>1 DEF HeldInv
<1>7. RowsInv'
  BY <1>1, <1>2, RowsKept
<1> QED  BY <1>4, <1>5, <1>6, <1>7 DEF EvaluateInv

(* The new row is judged by today's bar, of a lot restated for today.      *)
LEMMA NewRow ==
  ASSUME EvaluateInv, NEW p \in Lots, Restates(p), Judged(Restate(p, today), today)
  PROVE  RowTells(Evaluation(Restate(p, today), today), today, bars)
<1>1. PICK n \in Int : n <= today /\ bars \in [1..n -> Bars]
  BY Calendars DEF EvaluateInv, EvaluateTypes
<1>2. today \in Int /\ EvaluateTypes /\ today \in DOMAIN bars
  BY Calendars DEF EvaluateInv, EvaluateTypes, Judged
<1>3. Announced(today)
  BY <1>2, AnnouncedByToday
<1>4. PICK q : q = Restate(p, today)
  OBVIOUS
<1>5. /\ q \in Lots /\ q.matched = p.matched /\ q.fits = p.fits
      /\ Due(p, today) = {} => q = p
      /\ p.matched /\ p.fits /\ (Due(p, today) # {} \/ p.restatedOn <= today) =>
           q.halvings = EffectiveBy(today)
  BY <1>2, <1>3, <1>4, RestateDoes
<1>6. q.matched => q.fits /\ q.restatedOn <= today
  BY <1>4 DEF Judged
<1>7. q.matched => q.halvings = EffectiveBy(today)
  BY <1>5, <1>6
<1>8. Dated(today) # {}
  BY <1>1, <1>2, FreshBar
<1>9. Evaluation(q, today) = Decide(q, today)
  BY <1>8 DEF Evaluation
<1>10. RowTells(Decide(q, today), today, bars)
  BY <1>1, <1>2, <1>5, <1>7, JudgedIs
<1> QED  BY <1>4, <1>9, <1>10

LEMMA EvaluatesKeeps ==
  ASSUME EvaluateInv, NEW s \in Sessions, Evaluates(s)  PROVE EvaluateInv'
<1>1. PICK asOf, p : asOf = held[s].asOf /\ p = held[s].lot
  OBVIOUS
<1>2. /\ held[s] # Nothing /\ lot' = Write(p, asOf)
      /\ Upserts(Restate(p, asOf), asOf)
      /\ held' = [held EXCEPT ![s] = Nothing]
      /\ today' = today /\ folded' = folded /\ bars' = bars
  BY <1>1 DEF Evaluates
<1>3. EvaluateTypes /\ Restates(lot) /\ HeldInv /\ RowsInv
      /\ today \in Int /\ OpenedOn \in Int /\ OpenedOn <= today
  BY Calendars DEF EvaluateInv, EvaluateTypes
<1>4. /\ p \in Lots /\ Restates(p) /\ asOf \in Int
      /\ (lot.fits => p.fits /\ p.matched = lot.matched)
  BY <1>1, <1>2, <1>3 DEF HeldInv, Restates
<1>5. /\ Restates(Write(p, asOf)) /\ Write(p, asOf).open = lot.open
      /\ Write(p, asOf).matched = lot.matched
      /\ Write(p, asOf).fits => lot.fits
  BY <1>3, <1>4, WriteDoes
<1>6. /\ Restates(lot)' /\ lot' \in Lots
      /\ lot'.open = lot.open /\ lot'.matched = lot.matched /\ (lot'.fits => lot.fits)
  BY <1>2, <1>5 DEF Restates, EffectiveBy
<1>7. /\ held' = [r \in Sessions |-> held'[r]]
      /\ \A r \in Sessions : held'[r] # Nothing => held'[r] = held[r]
  BY <1>2, <1>3 DEF EvaluateTypes
<1>8. HeldInv'
  <2>1. ASSUME NEW r \in Sessions, held'[r] # Nothing
        PROVE  /\ held'[r].asOf \in Int /\ Restates(held[r].lot)' /\ lot'.open
               /\ lot'.fits => held'[r].lot.fits /\ held'[r].lot.matched = lot'.matched
    <3>1. held'[r] = held[r] /\ held[r] # Nothing
      BY <1>7, <2>1
    <3> QED  BY <1>3, <1>6, <3>1 DEF HeldInv, Restates, EffectiveBy
  <2> QED  BY <2>1 DEF HeldInv
<1>9. PICK q : q = Restate(p, asOf)
  OBVIOUS
<1>10. CASE Judged(q, asOf)
  <2>1. asOf = today /\ today \in DOMAIN bars
    BY <1>10 DEF Judged
  <2>2. rows' = [d \in DOMAIN rows \cup {today} |-> IF d = today THEN Evaluation(q, today) ELSE rows[d]]
    BY <1>2, <1>9, <1>10, <2>1 DEF Upserts
  <2>3. DOMAIN rows' \subseteq OpenedOn..today'
    BY <1>2, <1>3, <2>2 DEF EvaluateTypes
  <2>4. EvaluateTypes'
    BY <1>2, <1>3, <1>6, <1>7, <2>3 DEF EvaluateTypes
  <2>5. RowTells(Evaluation(q, today), today, bars)
    BY <1>4, <1>9, <1>10, <2>1, NewRow
  <2>6. ASSUME NEW d \in DOMAIN rows'
        PROVE  d \in DOMAIN bars' /\ RowTells(rows'[d], d, bars')
    <3>1. CASE d = today
      <4>1. rows'[d] = Evaluation(q, today)
        BY <2>2, <3>1
      <4> QED  BY <1>2, <2>1, <2>5, <3>1, <4>1
    <3>2. CASE d # today
      <4>1. rows'[d] = rows[d] /\ d \in DOMAIN rows
        BY <2>2, <2>6, <3>2
      <4> QED  BY <1>2, <1>3, <4>1 DEF RowsInv
    <3> QED  BY <3>1, <3>2
  <2>7. RowsInv'
    BY <1>2, <2>6 DEF RowsInv, RowTells, LevelsTell, VerdictTells, TrailOf, Trail, Stops, Highs,
       Ranges, Peak, Unit
  <2> QED  BY <1>6, <1>8, <2>4, <2>7 DEF EvaluateInv
<1>11. CASE ~Judged(q, asOf)
  <2>1. rows' = [d \in DOMAIN rows \ {asOf} |-> rows[d]]
    <3>1. rows' = [d \in DOMAIN rows \ {asOf} |-> IF d = asOf THEN Evaluation(q, asOf) ELSE rows[d]]
      BY <1>2, <1>9, <1>11 DEF Upserts
    <3> QED  BY <3>1
  <2>2. DOMAIN rows' \subseteq OpenedOn..today'
    BY <1>2, <1>3, <2>1 DEF EvaluateTypes
  <2>3. EvaluateTypes'
    BY <1>2, <1>3, <1>6, <1>7, <2>2 DEF EvaluateTypes
  <2>4. \A d \in DOMAIN rows' : d \in DOMAIN rows /\ rows'[d] = rows[d]
    BY <2>1
  <2>5. \A d \in DOMAIN rows' : d \in DOMAIN bars' /\ RowTells(rows'[d], d, bars')
    BY <1>2, <1>3, <2>4 DEF RowsInv
  <2>6. RowsInv'
    BY <1>2, <2>5 DEF RowsInv, RowTells, LevelsTell, VerdictTells, TrailOf, Trail, Stops, Highs,
       Ranges, Peak, Unit
  <2> QED  BY <1>6, <1>8, <2>3, <2>6 DEF EvaluateInv
<1> QED  BY <1>10, <1>11

LEMMA EvaluateInvInit == ASSUME EvaluateInit  PROVE EvaluateInv
<1>1. /\ today = OpenedOn /\ folded = {}
      /\ bars = [d \in 1..(OpenedOn - 1) |-> CHOOSE b \in Trades[d] : TRUE]
      /\ held = [s \in Sessions |-> Nothing] /\ rows = [d \in {} |-> 0]
      /\ lot = [open |-> FALSE, matched |-> FALSE, halvings |-> 0, restatedOn |-> OpenedOn,
                fits |-> FALSE]
      /\ OpenedOn \in Calendar /\ OpenedOn \in Nat
  BY Calendars DEF EvaluateInit
<1>2. lot \in Lots /\ ~lot.matched
  BY <1>1 DEF Lots
<1>3. EvaluateTypes
  <2>1. \A d \in 1..(OpenedOn - 1) : (CHOOSE b \in Trades[d] : TRUE) \in Bars
    <3> SUFFICES ASSUME NEW d \in 1..(OpenedOn - 1)  PROVE (CHOOSE b \in Trades[d] : TRUE) \in Bars
      OBVIOUS
    <3>1. d \in Calendar
      BY Calendars
    <3>2. (CHOOSE b \in Trades[d] : TRUE) \in Trades[d]
      BY <3>1, EvaluateConstants DEF EvaluateConstants
    <3> QED  BY <3>1, <3>2 DEF Bars
  <2>2. bars \in [1..(OpenedOn - 1) -> Bars] /\ OpenedOn - 1 \in (OpenedOn - 1)..today
    BY <1>1, <2>1
  <2>3. DOMAIN rows \subseteq OpenedOn..today
    BY <1>1
  <2>4. folded \subseteq {x \in Splits : x <= today} /\ held = [s \in Sessions |-> held[s]]
    BY <1>1
  <2>5. \E n \in (OpenedOn - 1)..today : bars \in [1..n -> Bars]
    BY <2>2
  <2>6. today \in Calendar /\ OpenedOn <= today
    BY <1>1
  <2> QED  BY <1>2, <2>3, <2>4, <2>5, <2>6 DEF EvaluateTypes
<1>4. Restates(lot)
  BY <1>2 DEF Restates
<1>5. HeldInv
  BY <1>1 DEF HeldInv
<1>6. RowsInv
  BY <1>1 DEF RowsInv
<1> QED  BY <1>3, <1>4, <1>5, <1>6 DEF EvaluateInv

LEMMA EvaluateInvStep ==
  ASSUME EvaluateInv, [EvaluateNext]_evaluateVars  PROVE EvaluateInv'
<1>1. CASE UNCHANGED evaluateVars
  <2>1. /\ today' = today /\ bars' = bars /\ folded' = folded /\ lot' = lot
        /\ held' = held /\ rows' = rows
    BY <1>1 DEF evaluateVars
  <2>2. EvaluateTypes'
    BY <2>1 DEF EvaluateInv, EvaluateTypes
  <2>3. HeldInv' /\ Restates(lot)'
    BY <2>1, HeldKept DEF EvaluateInv
  <2>4. RowsInv'
    BY <2>1, RowsKept DEF EvaluateInv
  <2> QED  BY <2>2, <2>3, <2>4 DEF EvaluateInv
<1>2. CASE NextDay
  BY <1>2, DayKeeps
<1>3. CASE Ingests
  BY <1>3, IngestsKeeps
<1>4. CASE Buys
  BY <1>4, BuysKeeps
<1>5. CASE Matches
  BY <1>5, MatchesKeeps
<1>6. CASE \E x \in Splits : Rebuilds(x)
  BY <1>6, RebuildsKeeps
<1>7. CASE JobLoads
  <2>1. PICK asOf : asOf = today /\ asOf \in Int
    BY Calendars DEF EvaluateInv, EvaluateTypes
  <2>2. Loads("job", asOf) /\ "job" \in Sessions
    BY <1>7, <2>1 DEF JobLoads, Sessions
  <2> QED  BY <2>1, <2>2, LoadsKeeps
<1>8. CASE ApiLoads
  <2>1. PICK asOf \in (today - Behind)..(today + Ahead) : Loads("api", asOf)
    BY <1>8 DEF ApiLoads
  <2>2. asOf \in Int /\ "api" \in Sessions
    BY <2>1 DEF Sessions
  <2> QED  BY <2>1, <2>2, LoadsKeeps
<1>9. CASE \E s \in Sessions : Evaluates(s) \/ Fails(s)
  BY <1>9, EvaluatesKeeps, FailsKeeps
<1> QED  BY <1>1, <1>2, <1>3, <1>4, <1>5, <1>6, <1>7, <1>8, <1>9 DEF EvaluateNext

(* EvaluateInv is inductive: stored bars have no gap, levels that fit are  *)
(* in the terms of last_restated_on, and so is what sessions hold.         *)
LEMMA EvaluateHolds == EvaluateSpec => []EvaluateInv
<1>1. EvaluateInit => EvaluateInv
  BY EvaluateInvInit
<1>2. EvaluateInv /\ [EvaluateNext]_evaluateVars => EvaluateInv'
  BY EvaluateInvStep
<1> QED  BY <1>1, <1>2, PTL DEF EvaluateSpec

(* Around any splits, however the sessions of the job and of the API       *)
(* overlap and whatever days they are asked for, a stop or a target is     *)
(* reported hit exactly if the close is worth so much, of levels that are  *)
(* judged: restate_for_actions has put them in the terms of the bar that   *)
(* evaluate_position looks at.                                             *)
THEOREM LevelsStayTrue == EvaluateSpec => []LevelsAreTrue
<1>1. EvaluateInv => LevelsAreTrue
  BY DEF EvaluateInv, RowsInv, RowTells, LevelsTell, LevelsAreTrue
<1> QED  BY <1>1, EvaluateHolds, PTL

(* The verdict that decide stores is the one of prices seen in one kind of *)
(* shares: REVIEW where the levels cannot judge, EXIT at the stop, the     *)
(* highest chandelier stop, the flip or the second target, PARTIAL at the  *)
(* first.                                                                  *)
THEOREM VerdictsAreTrue == EvaluateSpec => []VerdictIsTrue
<1>1. EvaluateInv => VerdictIsTrue
  <2> SUFFICES ASSUME EvaluateInv, NEW d \in DOMAIN rows, rows[d].uniform
               PROVE  /\ rows[d].verdict = "REVIEW" <=> \E x \in Demergers : OpenedOn < x /\ x <= d
                      /\ rows[d].verdict # "REVIEW" =>
                           (/\ rows[d].verdict = "EXIT" <=>
                                 \/ bars[d].close < TrailWorth(d) \/ bars[d].flip
                                 \/ /\ rows[d].matched
                                    /\ bars[d].close < Levels.stop \/ bars[d].close >= Levels.t2
                            /\ rows[d].verdict = "PARTIAL" =>
                                 rows[d].matched /\ bars[d].close >= Levels.t1
                                 /\ bars[d].close < Levels.t2)
    BY DEF VerdictIsTrue
  <2>1. PICK n \in Int : bars \in [1..n -> Bars]
    BY Calendars DEF EvaluateInv, EvaluateTypes
  <2>2. d \in 1..n /\ RowTells(rows[d], d, bars)
    BY <2>1 DEF EvaluateInv, RowsInv
  <2>3. TrailWorth(d) = TrailOf(bars, d)
    BY <2>1, <2>2, TrailWorthIs
  <2>4. VerdictTells(rows[d], d, bars)
    BY <2>2 DEF RowTells
  <2> QED  BY <2>3, <2>4 DEF VerdictTells
<1> QED  BY <1>1, EvaluateHolds, PTL

(* The stop that chandelier_since returns never falls, also over splits    *)
(* that are folded into the history between two days.                      *)
THEOREM TrailsNeverFall == EvaluateSpec => []TrailNeverFalls
<1>1. EvaluateInv => TrailNeverFalls
  <2> SUFFICES ASSUME EvaluateInv, NEW a \in DOMAIN rows, NEW b \in DOMAIN rows,
                      a < b, rows[a].uniform, rows[b].uniform
               PROVE  rows[a].trail * Scale(rows[b].halvings) <= rows[b].trail * Scale(rows[a].halvings)
    BY DEF TrailNeverFalls
  <2>1. PICK n \in Int : bars \in [1..n -> Bars]
    BY Calendars DEF EvaluateInv, EvaluateTypes
  <2>2. /\ a \in 1..n /\ b \in 1..n /\ OpenedOn <= a /\ OpenedOn <= b
        /\ RowTells(rows[a], a, bars) /\ RowTells(rows[b], b, bars)
    BY <2>1, OpenedIs DEF EvaluateInv, RowsInv, EvaluateTypes
  <2>3. /\ rows[a].halvings \in 0..Cardinality(Splits) /\ rows[b].halvings \in 0..Cardinality(Splits)
        /\ rows[a].trail = TrailOf(bars, a) * Unit(rows[a].halvings)
        /\ rows[b].trail = TrailOf(bars, b) * Unit(rows[b].halvings)
    BY <2>2 DEF RowTells
  <2>4. PICK t, u : t = TrailOf(bars, a) /\ u = TrailOf(bars, b)
    OBVIOUS
  <2>5. t \in Int /\ u \in Int /\ t <= u
    <3>1. Spans(Highs(bars), Ranges(bars), b) /\ a \in Nat /\ b \in Nat
      BY <2>1, <2>2, SpansOfBars
    <3>2. TrailOf(bars, a) <= TrailOf(bars, b)
      BY <2>2, <3>1, TrailGrows DEF TrailOf
    <3>3. TrailOf(bars, a) \in Int /\ TrailOf(bars, b) \in Int
      BY <2>1, <2>2, TrailIsInt
    <3> QED  BY <2>4, <3>2, <3>3
  <2>6. PICK x \in Units, y \in Units : x = Unit(rows[a].halvings) /\ y = Unit(rows[b].halvings)
    BY <2>3, UnitIs
  <2>7. (t * x) * y <= (u * y) * x
    <3>1. x * y \in Units
      BY DEF Units
    <3>2. t * (x * y) <= u * (x * y)
      BY <2>5, <3>1, ScaledOrder
    <3>3. (t * x) * y = t * (x * y) /\ (u * y) * x = u * (x * y)
      BY <2>5 DEF Units
    <3> QED  BY <3>2, <3>3
  <2> QED  BY <2>3, <2>4, <2>6, <2>7 DEF Unit
<1> QED  BY <1>1, EvaluateHolds, PTL

=============================================================================
