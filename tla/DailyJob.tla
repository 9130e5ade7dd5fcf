------------------------------ MODULE DailyJob ------------------------------
(* The cron-driven scheduler: ticks that take an advisory lock, read the    *)
(* clock and the settings, run the daily job or the re-check when due, and  *)
(* mark the day. Ticks may die or lose the lock, midnight may pass, and an  *)
(* admin may change the settings at any time.                               *)
EXTENDS Integers, FiniteSets

CONSTANTS
  Ticks,         \* processes that cron may have running at the same time
  LastDay,       \* bound on the calendar
  LastSlot,      \* the last time of the day
  TradingDays,
  TickSlots,     \* times of the day at which cron starts ticks
  JobTimes,      \* the times an admin may set
  JobSteps,      \* how many steps the daily job has
  PromptDays,    \* days on which every tick ends before the clock moves
  MaxChanges,    \* bounds on the changes of the settings
  MaxDeaths      \* and on the ticks that die

Days == 0..LastDay
Slots == 0..LastSlot
Jobs == {"daily", "recheck"}
None == -1
NoTick == "no tick"

ASSUME DailyJobAssumption ==
  /\ {LastDay, LastSlot, MaxChanges, MaxDeaths} \subseteq Nat
  /\ JobSteps \in Nat \ {0}
  /\ TradingDays \subseteq Days /\ PromptDays \subseteq Days
  /\ TickSlots \subseteq Slots /\ JobTimes \subseteq Slots
  /\ NoTick \notin Ticks

VARIABLES
  day, slot,  \* the clock, IST
  ticked,     \* cron has started a tick in this slot
  settings,   \* app_settings: times, enabled, and the day each job last ran
  changes,
  lock,       \* who holds the advisory lock
  tick,       \* the ticks: what they run, with the clock and settings they read
  started,    \* history: jobs started for a day
  lost,       \* history: jobs of a day that died before the day was marked
  deaths

clock == <<day, slot, ticked>>
history == <<started, lost>>
vars == <<clock, settings, changes, lock, tick, history, deaths>>

Settings == [time : [Jobs -> Slots], enabled : BOOLEAN, last : [Jobs -> Days \cup {None}]]

Tick == [pc : {"off", "locked", "read", "running", "marking", "unlocking"},
         day : Days, slot : Slots, cfg : Settings, job : Jobs, left : 0..JobSteps]

TypeOK ==
  /\ day \in Days /\ slot \in Slots /\ ticked \in BOOLEAN
  /\ settings \in Settings
  /\ lock \in Ticks \cup {NoTick}
  /\ tick \in [Ticks -> Tick]
  /\ started \in [Jobs -> [Days -> Nat]] /\ lost \in [Jobs -> [Days -> Nat]]
  /\ changes \in 0..MaxChanges /\ deaths \in 0..MaxDeaths

Init ==
  /\ day = 0 /\ slot = 0 /\ ticked = FALSE
  /\ settings \in [time : [Jobs -> JobTimes], enabled : {TRUE}, last : [Jobs -> {None}]]
  /\ changes = 0
  /\ lock = NoTick
  /\ tick = [t \in Ticks |-> [pc |-> "off", day |-> 0, slot |-> 0, cfg |-> settings,
                              job |-> "daily", left |-> 0]]
  /\ started = [j \in Jobs |-> [d \in Days |-> 0]]
  /\ lost = [j \in Jobs |-> [d \in Days |-> 0]]
  /\ deaths = 0

Off(t) == [tick[t] EXCEPT !.pc = "off", !.day = 0, !.slot = 0, !.cfg = settings,
                          !.job = "daily", !.left = 0]

-----------------------------------------------------------------------------
(* The clock and the admin page.                                           *)

MayMove == day \in PromptDays => (ticked \/ slot \notin TickSlots) /\ \A t \in Ticks : tick[t].pc = "off"

SlotPasses ==
  /\ slot < LastSlot /\ MayMove
  /\ slot' = slot + 1 /\ ticked' = FALSE
  /\ UNCHANGED <<day, settings, changes, lock, tick, history, deaths>>

MidnightPasses ==
  /\ slot = LastSlot /\ day < LastDay /\ MayMove
  /\ day' = day + 1 /\ slot' = 0 /\ ticked' = FALSE
  /\ UNCHANGED <<settings, changes, lock, tick, history, deaths>>

(* validate_updates: the editable keys, never the bookkeeping. *)
Editable == [time : [Jobs -> JobTimes], enabled : BOOLEAN]

SetMany(updates) ==
  settings' = [settings EXCEPT !.time = updates.time, !.enabled = updates.enabled]

(* PUT /admin/settings *)
AdminSets ==
  /\ changes < MaxChanges
  /\ changes' = changes + 1
  /\ \E updates \in Editable : SetMany(updates)
  /\ UNCHANGED <<clock, lock, tick, history, deaths>>

-----------------------------------------------------------------------------
(* A tick (main and tick).                                                 *)

(* Variant: the lock is not looked at. *)
StartsUnlocked(t) ==
  /\ tick[t].pc = "off" /\ slot \in TickSlots
  /\ ticked' = TRUE
  /\ tick' = [tick EXCEPT ![t].pc = "locked"]
  /\ lock' = t
  /\ UNCHANGED <<day, slot, settings, changes, history, deaths>>

(* Cron starts a tick; one that does not get the lock exits at once. *)
Starts(t) ==
  /\ tick[t].pc = "off" /\ slot \in TickSlots
  /\ ticked' = TRUE
  /\ IF lock = NoTick
     THEN /\ tick' = [tick EXCEPT ![t].pc = "locked"]
          /\ lock' = t
     ELSE UNCHANGED <<tick, lock>>
  /\ UNCHANGED <<day, slot, settings, changes, history, deaths>>

Reads(t) ==
  /\ tick[t].pc = "locked"
  /\ tick' = [tick EXCEPT ![t].pc = "read", ![t].day = day, ![t].slot = slot,
                          ![t].cfg = settings]
  /\ UNCHANGED <<clock, settings, changes, lock, history, deaths>>

(* Variant: the minute of the job time does not count. *)
IsDueLater(j, cfg, d, s) ==
  /\ cfg.enabled /\ d \in TradingDays
  /\ s > cfg.time[j]
  /\ cfg.last[j] # d

(* is_due *)
IsDue(j, cfg, d, s) ==
  /\ cfg.enabled /\ d \in TradingDays
  /\ s >= cfg.time[j]
  /\ cfg.last[j] # d

DueOf(t, j) == IsDue(j, tick[t].cfg, tick[t].day, tick[t].slot)

Runs(t, j) ==
  /\ tick' = [tick EXCEPT ![t].pc = "running", ![t].job = j,
                          ![t].left = IF j = "daily" THEN JobSteps ELSE 1]
  /\ started' = [started EXCEPT ![j][tick[t].day] = @ + 1]
  /\ UNCHANGED <<clock, settings, changes, lock, lost, deaths>>

(* The daily job goes first; the re-check is left to a later tick. *)
Decides(t) ==
  /\ tick[t].pc = "read"
  /\ \/ DueOf(t, "daily") /\ Runs(t, "daily")
     \/ ~DueOf(t, "daily") /\ DueOf(t, "recheck") /\ Runs(t, "recheck")
     \/ /\ \A j \in Jobs : ~DueOf(t, j)
        /\ tick' = [tick EXCEPT ![t].pc = "unlocking"]
        /\ UNCHANGED <<clock, settings, changes, lock, history, deaths>>

(* One step of daily_sync.main ends, well or not: the others still run. *)
StepEnds(t) ==
  /\ tick[t].pc = "running" /\ tick[t].left > 0
  /\ tick' = [tick EXCEPT ![t].left = @ - 1]
  /\ UNCHANGED <<clock, settings, changes, lock, history, deaths>>

(* The daily job returns, or raises: the schema check before the first step. *)
DailyEnds(t) ==
  /\ tick[t].pc = "running" /\ tick[t].job = "daily"
  /\ tick[t].left \in {0, JobSteps}
  /\ tick' = [tick EXCEPT ![t].pc = "marking"]
  /\ UNCHANGED <<clock, settings, changes, lock, history, deaths>>

(* The re-check returns, or its reconcile raises. *)
RecheckEnds(t) ==
  /\ tick[t].pc = "running" /\ tick[t].job = "recheck"
  /\ tick' = [tick EXCEPT ![t].pc = "marking"]
  /\ UNCHANGED <<clock, settings, changes, lock, history, deaths>>

JobEnds(t) == DailyEnds(t) \/ RecheckEnds(t)

(* Variant: the day that is marked is read from the clock again. *)
MarksToday(t) ==
  /\ tick[t].pc = "marking"
  /\ settings' = [settings EXCEPT !.last[tick[t].job] = day]
  /\ tick' = [tick EXCEPT ![t].pc = "unlocking"]
  /\ UNCHANGED <<clock, changes, lock, history, deaths>>

(* set_last_run, whatever became of the job. *)
Marks(t) ==
  /\ tick[t].pc = "marking"
  /\ settings' = [settings EXCEPT !.last[tick[t].job] = tick[t].day]
  /\ tick' = [tick EXCEPT ![t].pc = "unlocking"]
  /\ UNCHANGED <<clock, changes, lock, history, deaths>>

Released(t) == IF lock = t THEN NoTick ELSE lock

(* Variant: the lock survives its tick. *)
UnlocksNot(t) ==
  /\ tick[t].pc = "unlocking"
  /\ tick' = [tick EXCEPT ![t] = Off(t)]
  /\ UNCHANGED <<clock, settings, changes, lock, history, deaths>>

Unlocks(t) ==
  /\ tick[t].pc = "unlocking"
  /\ tick' = [tick EXCEPT ![t] = Off(t)]
  /\ lock' = Released(t)
  /\ UNCHANGED <<clock, settings, changes, history, deaths>>

-----------------------------------------------------------------------------
(* Faults.                                                                 *)

(* A tick is killed, or cannot write its mark; its connection is closed. *)
Dies(t) ==
  /\ deaths < MaxDeaths /\ tick[t].pc # "off"
  /\ deaths' = deaths + 1
  /\ lost' = IF tick[t].pc \in {"running", "marking"}
             THEN [lost EXCEPT ![tick[t].job][tick[t].day] = @ + 1] ELSE lost
  /\ tick' = [tick EXCEPT ![t] = Off(t)]
  /\ lock' = Released(t)
  /\ UNCHANGED <<clock, settings, changes, started>>

(* The connection that holds the lock is lost, a database restart say; the  *)
(* job goes on with connections of its own.                                 *)
LosesLock(t) ==
  /\ lock = t
  /\ lock' = NoTick
  /\ UNCHANGED <<clock, settings, changes, tick, history, deaths>>

GoesOn(t) == Reads(t) \/ Decides(t) \/ StepEnds(t) \/ JobEnds(t) \/ Marks(t) \/ Unlocks(t)

Next ==
  \/ SlotPasses \/ MidnightPasses \/ AdminSets
  \/ \E t \in Ticks : Starts(t) \/ GoesOn(t) \/ Dies(t)

Spec == Init /\ [][Next]_vars
LossySpec == Init /\ [][Next \/ \E t \in Ticks : LosesLock(t)]_vars

(* Cron keeps starting ticks, and every tick goes on until it ends. *)
Fairness ==
  /\ WF_vars(\E t \in Ticks : Starts(t) /\ lock' = t)
  /\ \A t \in Ticks : WF_vars(GoesOn(t))

FairSpec == Spec /\ Fairness

-----------------------------------------------------------------------------
(* Properties.                                                             *)

AtWork(t) == tick[t].pc \in {"running", "marking"}

(* Two ticks never run a job at the same time: the advisory lock makes      *)
(* overlapping ticks exit (scheduler_tick.py:11).                           *)
OneJobAtATime == \A t, u \in Ticks : AtWork(t) /\ AtWork(u) => t = u

(* A job is started once for a day, and again only for each time it died    *)
(* before the day was marked ("once per day", scheduler_tick.py:6), whatever *)
(* the admin changes and whenever midnight passes.                          *)
OncePerDay == \A j \in Jobs, d \in Days : started[j][d] <= 1 + lost[j][d]

ActiveDay(j) ==
  IF \E t \in Ticks : AtWork(t) /\ tick[t].job = j
  THEN tick[CHOOSE t \in Ticks : AtWork(t) /\ tick[t].job = j].day
  ELSE None

Daily == INSTANCE DailyDuty WITH active <- ActiveDay("daily"), doneDay <- settings.last["daily"]
Recheck == INSTANCE DailyDuty WITH active <- ActiveDay("recheck"), doneDay <- settings.last["recheck"]

(* Each job implements the duty of a job that is due once a day. *)
DailyIsDuty == Daily!Spec
RecheckIsDuty == Recheck!Spec

(* Both jobs are done as a job that is due once a day. *)
JobsAreDuties == DailyIsDuty /\ RecheckIsDuty

(* While ticks come, no job stays due for ever, the re-check not either,    *)
(* which waits for a tick that does not run the daily job (tick: return).   *)
NothingStaysDue == \A j \in Jobs : []<>(~IsDue(j, settings, day, slot))

(* No trading day passes without its job when "the IST time has passed      *)
(* daily_job_time" (RUNBOOK.md:514), if ticks end before the next one is    *)
(* due, none was killed and the times were not changed.                     *)
NoDayIsSkipped ==
  [][MidnightPasses /\ day \in PromptDays /\ deaths = 0 /\ changes = 0
       /\ settings.enabled /\ day \in TradingDays /\ slot >= settings.time["daily"]
     => settings.last["daily"] = day]_vars
=============================================================================
