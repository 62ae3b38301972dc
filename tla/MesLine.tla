------------------------------ MODULE MesLine ------------------------------
(***************************************************************************)
(* The synthetic line (engine.py) as the MES server drives it: operators'  *)
(* commands between ticks, the ticker thread that advances the line and    *)
(* stores each tick, and the runs that replace one another.                *)
(*                                                                         *)
(* Every command and every tick runs under MesService._lock, so each is    *)
(* one action.  Measurements, coil positions and component wear are        *)
(* abstracted to what the recovery logic reads: which signal is forced out *)
(* of its range, and whether coils are on hold.                            *)
(***************************************************************************)
EXTENDS Integers, Sequences, Subsequences

CONSTANTS
  Faults,         \* scenario ids other than "normal"
  Authored,       \* scenarios with their own recovery actions: these have to be performed
  Holding,        \* scenarios that put the coils on the line on hold (product_hold)
  Planless,       \* scrap_discharge: no recovery plan
  Cause,          \* the equipment whose capability the scenario disturbs
  Code,           \* the alarm (code and severity) a scenario raises there, or NoCode
  Signal,         \* the signal a scenario forces out of range there, or NoSignal
  Equipment, Codes, Signals, NoCode, NoSignal,
  RecoveryTicks,  \* ScenarioSpec.recovery_ticks
  Pausing,        \* FALSE where a run leaves the pause command out
  MaxRun, MaxSeq, \* bounds: runs, ticks of a run
  MaxPending,     \* bound: events waiting for the next tick
  MaxSaveFailures \* bound: ticks the database refuses to store

\* configuration.validate: holds need release actions, recovery takes at least a tick.
ASSUME LineAssumption ==
  /\ "normal" \notin Faults
  /\ Authored \subseteq Faults /\ Holding \subseteq Authored /\ Planless \subseteq Faults \ Authored
  /\ NoCode \notin Codes /\ NoSignal \notin Signals /\ "none" \notin Equipment
  /\ Cause \in [Faults -> Equipment]
  /\ Code \in [Faults -> Codes \cup {NoCode}] /\ Signal \in [Faults -> Signals \cup {NoSignal}]
  /\ \A f \in Holding \cup Planless : Code[f] = NoCode
  /\ RecoveryTicks \in Nat \ {0}
  /\ Pausing \in BOOLEAN
  /\ {MaxRun, MaxSeq, MaxPending, MaxSaveFailures} \subseteq Nat /\ MaxRun > 0

VARIABLES
  run,       \* the run in memory; runs are numbered instead of given a UUID
  seq,       \* _sequence: the simulated time of the run
  running,   \* _running
  mode,      \* snapshot.line_mode, what screens and apply_config see
  resume,    \* _resume_mode: what start() shows again
  scenario,  \* _scenario
  plan,      \* the scenario _recovery_spec was made for, or "none"
  done,      \* the plan's single action is among _completed_actions
  ticks,     \* _recovery_ticks
  held,      \* some coil's quality_status is "hold"
  alarm,     \* _active_alarms: at most one, only the cause of the scenario is at fault
  events,    \* events of the run, alarms and recoveries only
  pending,   \* _pending_events: belong to the next tick
  stored,    \* runtime_events of the run in the database
  ticker,    \* the ticker thread is alive
  failures

vars == <<run, seq, running, mode, resume, scenario, plan, done, ticks, held, alarm,
          events, pending, stored, ticker, failures>>
runVars == <<run, seq, stored, ticker, failures>>
repairVars == <<scenario, plan, done, ticks, held>>

NoAlarm == [eq |-> "none", code |-> NoCode]
Alarms == [eq : Equipment, code : Codes]
Scenarios == Faults \cup {"normal"}

\* _recovery_required: only plans the scenario's author wrote block anything.
RecoveryRequired == scenario \in Authored

\* _cause_equipment_id of the plan on screen.
PlanEquipment == IF plan = "none" THEN "none" ELSE Cause[plan]

\* _signal_effect: the value is forced until the plan's last action is recorded.
Deviation(e) ==
  IF scenario \in Faults /\ ~(plan # "none" /\ done) /\ Cause[scenario] = e
  THEN Signal[scenario] ELSE NoSignal

-----------------------------------------------------------------------------
(* _states and _update_alarms, for the values the handler leaves behind.   *)

LineMode(on, s, left) ==
  CASE ~on -> "stopped"
    [] on /\ left > 0 -> "recovering"
    [] on /\ left = 0 /\ s \in Holding -> "quality_hold"
    [] on /\ left = 0 /\ s \in Faults /\ Code[s] # NoCode -> "fault"
    [] OTHER -> "running"

\* Only a running line that is not recovering shows its cause equipment at fault.
AlarmNow(on, s, left) ==
  IF LineMode(on, s, left) = "fault" THEN [eq |-> Cause[s], code |-> Code[s]] ELSE NoAlarm

Event(type, a) == [type |-> type, eq |-> a.eq, code |-> a.code]
Recovered == Event("recovered", NoAlarm)

\* Mutant: only the cause equipment is looked at, an alarm elsewhere stays.
ChangesOfCauseOnly(old, new) ==
  IF old = new THEN <<>>
  ELSE IF new = NoAlarm THEN <<Event("alarm_cleared", old)>>
  ELSE IF old.eq = new.eq THEN <<Event("alarm_cleared", old), Event("alarm_raised", new)>>
  ELSE <<Event("alarm_raised", new)>>

\* The cause is looked at first; alarms of other equipment are cleared after it.
Changes(old, new) ==
  IF old = new THEN <<>>
  ELSE IF old = NoAlarm THEN <<Event("alarm_raised", new)>>
  ELSE IF new = NoAlarm THEN <<Event("alarm_cleared", old)>>
  ELSE IF old.eq = new.eq THEN <<Event("alarm_cleared", old), Event("alarm_raised", new)>>
  ELSE <<Event("alarm_raised", new), Event("alarm_cleared", old)>>

At(n, es) == [i \in DOMAIN es |-> [at |-> n, event |-> es[i]]]

\* Mutant: what a command changes is logged under the tick that is already stored.
RefreshIntoLog(s, left) ==
  /\ alarm' = AlarmNow(running, s, left)
  /\ mode' = IF mode = "paused" THEN "paused" ELSE LineMode(running, s, left)
  /\ events' = events \o At(seq, Changes(alarm, alarm'))
  /\ pending' = pending

\* _refresh_snapshot: a command's alarms wait for the next tick; a paused line stays paused.
Refresh(s, left) ==
  /\ alarm' = AlarmNow(running, s, left)
  /\ mode' = IF mode = "paused" THEN "paused" ELSE LineMode(running, s, left)
  /\ pending' = pending \o Changes(alarm, alarm')
  /\ events' = events

-----------------------------------------------------------------------------
\* reset and a fresh engine leave the same state.
Fresh ==
  /\ seq' = 0 /\ running' = FALSE /\ mode' = "stopped" /\ resume' = "running"
  /\ scenario' = "normal" /\ plan' = "none" /\ done' = FALSE /\ ticks' = 0 /\ held' = FALSE
  /\ alarm' = NoAlarm /\ events' = <<>> /\ pending' = <<>> /\ stored' = <<>>

Init ==
  /\ run = 1
  /\ seq = 0 /\ running = FALSE /\ mode = "stopped" /\ resume = "running"
  /\ scenario = "normal" /\ plan = "none" /\ done = FALSE /\ ticks = 0 /\ held = FALSE
  /\ alarm = NoAlarm /\ events = <<>> /\ pending = <<>> /\ stored = <<>>
  /\ ticker = TRUE /\ failures = 0

\* Neither start nor pause looks at the equipment again; only the mode shown changes.
Start ==
  /\ ~running
  /\ running' = TRUE
  /\ mode' = resume
  /\ UNCHANGED <<runVars, repairVars, resume, alarm, events, pending>>

\* Mutant: the mode is kept for resuming even when the line was not running.
PauseKeepsAnyMode ==
  /\ Pausing
  /\ resume' = mode
  /\ running' = FALSE
  /\ mode' = "paused"
  /\ UNCHANGED <<runVars, repairVars, alarm, events, pending>>

Pause ==
  /\ Pausing
  /\ resume' = IF running THEN mode ELSE resume
  /\ running' = FALSE
  /\ mode' = "paused"
  /\ UNCHANGED <<runVars, repairVars, alarm, events, pending>>

\* Mutant: a scenario can be replaced whenever the line is not recovering from it.
MayLeaveUnlessRecovering == ticks = 0

MayLeave == ~(scenario # "normal" /\ RecoveryRequired)

\* Holding scenarios put every coil then on the line on hold; there may be none.
SetScenario(s) ==
  /\ MayLeave
  /\ Len(pending) < MaxPending
  /\ scenario' = s
  /\ ticks' = 0 /\ done' = FALSE
  /\ plan' = IF s \in Faults \ Planless THEN s ELSE "none"
  /\ IF s \in Holding THEN held' \in {held, TRUE} ELSE held' = held
  /\ Refresh(s, 0)
  /\ UNCHANGED <<runVars, running, resume>>

\* perform_action: the plan's one remaining action, the confirmation.
PerformAction ==
  /\ plan # "none" /\ scenario # "normal" /\ ticks = 0
  /\ IF done THEN UNCHANGED <<done, mode, alarm, events, pending>>
     ELSE done' = TRUE /\ Refresh(scenario, 0)
  /\ UNCHANGED <<runVars, running, resume, scenario, plan, ticks, held>>

\* Mutant: recovery starts without the confirmation.
MayRecoverUnconfirmed == scenario # "normal"

MayRecover == scenario # "normal" /\ (RecoveryRequired => done)

Recover ==
  /\ MayRecover
  /\ IF ticks > 0 THEN UNCHANGED <<ticks, mode, alarm, events, pending>>
     ELSE ticks' = RecoveryTicks /\ Refresh(scenario, RecoveryTicks)
  /\ UNCHANGED <<runVars, running, resume, scenario, plan, done, held>>

\* Mutant: the coils stay on hold when the recovery ends.
ReleasedNever(finished) == held
Released(finished) == IF finished THEN FALSE ELSE held

\* MesEngine.tick: pending events, recovery, then the equipment is looked at again.
Advance ==
  LET finished == ticks = 1
      left == IF ticks > 0 THEN ticks - 1 ELSE 0
      now == IF finished THEN "normal" ELSE scenario
  IN  /\ running /\ ticker
      /\ seq < MaxSeq
      /\ seq' = seq + 1
      /\ ticks' = left
      /\ scenario' = now
      /\ held' = Released(finished)
      /\ alarm' = AlarmNow(TRUE, now, left)
      /\ mode' = LineMode(TRUE, now, left)
      /\ events' = events \o At(seq + 1, pending \o (IF finished THEN <<Recovered>> ELSE <<>>)
                                                 \o Changes(alarm, alarm'))
      /\ pending' = <<>>
      /\ UNCHANGED <<run, running, resume, plan, done>>

\* _save_current_tick stores the events stamped with the tick.
Tick ==
  /\ Advance
  /\ stored' = stored \o Selected(events', {i \in DOMAIN events' : events'[i].at = seq'})
  /\ UNCHANGED <<ticker, failures>>

\* save_tick raises (a locked database, a full disk): nothing catches it in _run_ticks.
TickNotSaved ==
  /\ failures < MaxSaveFailures
  /\ failures' = failures + 1
  /\ Advance
  /\ ticker' = FALSE
  /\ UNCHANGED stored

NextRun == run < MaxRun /\ run' = run + 1

Reset == NextRun /\ Fresh /\ UNCHANGED <<ticker, failures>>

\* Refused (409) while the line runs: the new engine starts from nothing.
ApplyConfig ==
  /\ mode \in {"paused", "stopped"}
  /\ NextRun /\ Fresh
  /\ UNCHANGED <<ticker, failures>>

\* A restarted process opens a new run with a new ticker; the old run stays as stored.
Restart == NextRun /\ Fresh /\ ticker' = TRUE /\ UNCHANGED failures

Commands ==
  \/ Start \/ Pause \/ PerformAction \/ Recover \/ Reset \/ ApplyConfig
  \/ \E s \in Scenarios : SetScenario(s)

Next == Commands \/ Tick \/ TickNotSaved \/ Restart

Spec == Init /\ [][Next]_vars

-----------------------------------------------------------------------------
(* Properties.                                                             *)

\* Every variable of the engine but its logs stays within its type.
LineTypeOK ==
  /\ run \in 1..MaxRun /\ seq \in 0..MaxSeq
  /\ running \in BOOLEAN /\ done \in BOOLEAN /\ held \in BOOLEAN /\ ticker \in BOOLEAN
  /\ mode \in {"running", "stopped", "paused", "fault", "quality_hold", "recovering"}
  /\ resume \in {"running", "fault", "quality_hold", "recovering"}
  /\ scenario \in Scenarios
  /\ plan \in (Faults \ Planless) \cup {"none"}
  /\ ticks \in 0..RecoveryTicks
  /\ alarm \in Alarms \cup {NoAlarm}
  /\ failures \in 0..MaxSaveFailures

\* The log of a run, with what the next tick will add to it.
Log == [i \in DOMAIN events |-> events[i].event] \o pending
\* Reading a run's log gives its active alarm: an equipment's last alarm event is a raise
\* exactly while that alarm is active, across commands, ticks, pauses and recoveries.
AlarmsMatchLog ==
  \A e \in Equipment, c \in Codes :
    alarm = [eq |-> e, code |-> c] <=>
      \E i \in DOMAIN Log : /\ Log[i] = [type |-> "alarm_raised", eq |-> e, code |-> c]
                            /\ \A j \in DOMAIN Log : j > i => Log[j].eq # e

\* No event is lost on the way to the database: what commands queue between ticks and what
\* ticks add is stored in order, once, as long as the ticker lives.
StoredMatchesLog == ticker => stored = events

\* The mode apply_config checks is the truth: "paused" or "stopped" is shown exactly while
\* the line does not run, whatever pauses, commands and resumes went before.
ShownStoppedMeansStopped == mode \in {"paused", "stopped"} <=> ~running

\* A fault whose scenario prescribes a repair ends only with a new run, or by running out
\* the observation that its confirmation had to open.
AuthoredFaultNeedsRepair ==
  [][scenario' # scenario /\ scenario \in Authored =>
       run' # run \/ (done /\ ticks = 1 /\ scenario' = "normal")]_vars

\* Coils on hold are those of the holding scenario in force: none is left behind when the
\* scenario changes, and none is released while it is being recovered from.
HoldsEndWithScenario ==
  [][/\ held' => scenario' \in Holding
     /\ held /\ ~held' => run' # run \/ scenario' = "normal"]_vars

=============================================================================
