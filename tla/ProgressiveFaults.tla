-------------------------- MODULE ProgressiveFaults --------------------------
(***************************************************************************)
(* The progressive mode of the line (progressive_factory.py): one hidden   *)
(* fault at a time that grows until it is repaired, and the repair plan    *)
(* that the console and repair sessions of the PDA (MesService._sim_link)  *)
(* work through.  _manual_mode is never anything but the mode switched     *)
(* off, so one variable stands for both.  In this mode every machine works *)
(* while the line runs.                                                    *)
(***************************************************************************)
EXTENDS Integers, Sequences, FiniteSets

CONSTANTS
  Machines,      \* active machines in the order of the configuration
  Breakable,     \* those a mechanism of the generator fits
  Queueing,      \* those whose queue may leave its range by itself
  Gaps,          \* working ticks between a repair and the next fault (180..420)
  Visible,       \* age at which readings are certainly out of range (at most 120)
  Confirmations, \* healthy ticks in a row that complete a repair (3)
  NoPlan, NoFault,
  MaxFaultTicks, MaxSteps, MaxFaultsMade  \* bounds

FaultRecords == [machine : Machines, age : Nat]
PlanRecords ==
  [machine : Machines, stage : {"actions", "ready", "stabilizing", "completed"}, left : Nat]

ASSUME ProgressiveAssumption ==
  /\ Machines \subseteq Nat /\ Breakable \subseteq Machines /\ Queueing \subseteq Machines
  /\ Gaps \subseteq Nat \ {0} /\ Visible \in Nat /\ Confirmations \in Nat \ {0}
  /\ {MaxFaultTicks, MaxSteps, MaxFaultsMade} \subseteq Nat
  /\ NoFault \notin FaultRecords /\ NoPlan \notin PlanRecords

VARIABLES
  working,    \* engine._running
  mode,       \* "standard" or "progressive"
  scenario,   \* of the standard mode: "normal", "chosen" or "recovering"
  ticks,      \* ticks so far
  due,        \* ticks until the next fault may begin (next_fault - clock)
  fault,      \* scheduler.active: its machine and age
  plan,       \* _progressive_recovery: machine, stage, remaining ticks
  basePlan,   \* _recovery_spec: the machine of the standard mode's plan, if there is one;
              \* it outlives the end of its scenario and a change of mode
  steps,      \* steps recorded by repair sessions
  made, repaired,   \* faults made and repairs logged in this run
  watched     \* history: healthy ticks in a row of the plan's machine since its restart

progressiveVars == <<working, mode, scenario, ticks, due, fault, plan, basePlan, steps,
                     made, repaired, watched>>
schedule == <<due, fault, made>>
progress == <<ticks, watched>>
selected == <<scenario, basePlan>>

Plan(e, stage, left) == [machine |-> e, stage |-> stage, left |-> left]
Open(stages) == plan # NoPlan /\ plan.stage \in stages
Unfinished == Open({"actions", "ready", "stabilizing"})
Broken(e) == fault # NoFault /\ fault.machine = e

ProgressiveInit ==
  /\ working = FALSE /\ mode = "standard" /\ scenario = "normal"
  /\ ticks = 0 /\ due \in Gaps
  /\ fault = NoFault /\ plan = NoPlan /\ basePlan = {}
  /\ steps = <<>> /\ made = 0 /\ repaired = 0 /\ watched = 0

-----------------------------------------------------------------------------
(* The tick.                                                               *)

\* A fault that is due begins on a machine it fits, and grows.
AdvanceTick(f) ==
  \/ fault # NoFault /\ f = [fault EXCEPT !.age = @ + 1]
  \/ fault = NoFault /\ due > 1 /\ f = NoFault
  \/ fault = NoFault /\ due <= 1 /\ Breakable = {} /\ f = NoFault
  \/ fault = NoFault /\ due <= 1 /\ \E e \in Breakable : f = [machine |-> e, age |-> 1]

\* The machines whose readings are out of range.
OutOfRange(f) ==
  {out \in SUBSET Machines :
     /\ out \subseteq Queueing \cup (IF f = NoFault THEN {} ELSE {f.machine})
     /\ f # NoFault /\ f.age >= Visible => f.machine \in out}

First(out) == CHOOSE e \in out : \A d \in out : e <= d

\* Mutant: a relapse during the confirmation does not start it again.
ReadableOnce(out) ==
  IF Open({"stabilizing"})
  THEN LET left == IF plan.left = 0 THEN 0 ELSE plan.left - 1
       IN Plan(plan.machine, IF left = 0 THEN "completed" ELSE "stabilizing", left)
  ELSE IF Unfinished \/ out = {} THEN plan
  ELSE Plan(First(out), "actions", 0)
\* _observe_recovery: a new plan for the first machine out of range, or one
\* more tick of the confirmation.
Readable(out) ==
  IF Open({"stabilizing"})
  THEN LET left == IF plan.machine \in out THEN Confirmations
                   ELSE IF plan.left = 0 THEN 0 ELSE plan.left - 1
       IN Plan(plan.machine, IF left = 0 THEN "completed" ELSE "stabilizing", left)
  ELSE IF Unfinished \/ out = {} THEN plan
  ELSE Plan(First(out), "actions", 0)

TickProgressive ==
  /\ working /\ mode = "progressive" /\ ticks < MaxFaultTicks
  /\ ticks' = ticks + 1
  /\ \E f \in {NoFault} \cup [machine : Breakable, age : 1..MaxFaultTicks] :
       /\ AdvanceTick(f) /\ fault' = f
       /\ made' = made + (IF fault = NoFault /\ f # NoFault THEN 1 ELSE 0)
       /\ made' <= MaxFaultsMade
       /\ \E out \in OutOfRange(f) :
            /\ plan' = Readable(out)
            /\ watched' = IF ~Open({"stabilizing"}) THEN watched
                          ELSE IF plan.machine \in out THEN 0
                          ELSE IF watched < Confirmations THEN watched + 1 ELSE watched
  /\ due' = IF due > 0 THEN due - 1 ELSE 0
  /\ UNCHANGED <<working, mode, selected, steps, repaired>>

\* A tick of the standard mode; a recovery comes to its end in some tick.
TickStandard ==
  /\ working /\ mode = "standard" /\ ticks < MaxFaultTicks
  /\ ticks' = ticks + 1
  /\ \/ UNCHANGED scenario
     \/ scenario = "recovering" /\ scenario' = "normal"
  /\ UNCHANGED <<working, mode, schedule, plan, basePlan, steps, repaired, watched>>

-----------------------------------------------------------------------------
(* Commands of the console.                                                *)

StartWork ==
  /\ ~working /\ working' = TRUE
  /\ UNCHANGED <<mode, selected, progress, schedule, plan, steps, repaired>>

PauseWork ==
  /\ working /\ working' = FALSE
  /\ UNCHANGED <<mode, selected, progress, schedule, plan, steps, repaired>>

\* Mutant: only the plan is asked about.
SetProgressiveBetweenPlans(enabled) ==
  /\ enabled # (mode = "progressive")
  /\ ~Unfinished /\ scenario = "normal"
  /\ mode' = IF enabled THEN "progressive" ELSE "standard"
  /\ plan' = NoPlan /\ due' \in Gaps
  /\ working' = (enabled \/ working)
  /\ UNCHANGED <<selected, progress, steps, made, repaired, fault>>
\* set_progressive: refused while a fault or an unfinished plan is there.
SetProgressive(enabled) ==
  /\ enabled # (mode = "progressive")
  /\ fault = NoFault /\ ~Unfinished /\ scenario = "normal"
  /\ mode' = IF enabled THEN "progressive" ELSE "standard"
  /\ plan' = NoPlan /\ fault' = NoFault /\ due' \in Gaps
  /\ working' = (enabled \/ working)
  /\ UNCHANGED <<selected, progress, steps, made, repaired>>

\* set_scenario leaves the progressive mode, under the same condition.  A scenario has a
\* plan for the machine of its cause; scrap_discharge and the normal one have none.
ChooseScenario ==
  /\ fault = NoFault /\ ~Unfinished
  /\ \/ scenario' = "chosen" /\ basePlan' \in {{}} \cup {{e} : e \in Machines}
     \/ scenario' = "normal" /\ basePlan' = {}
  /\ mode' = "standard" /\ plan' = NoPlan
  /\ UNCHANGED <<working, progress, schedule, steps, repaired>>

RecoverScenario ==
  /\ mode = "standard" /\ scenario = "chosen" /\ scenario' = "recovering"
  /\ UNCHANGED <<working, mode, progress, schedule, plan, basePlan, steps, repaired>>

\* repair_fault: the machine's fault is gone, its plan stays as it is.
RepairFault(e) ==
  /\ ~working /\ Broken(e)
  /\ fault' = NoFault /\ due' \in Gaps /\ repaired' = repaired + 1
  /\ UNCHANGED <<working, mode, selected, progress, made, plan, steps>>

\* perform_action("verify") for plan p: the line pauses, the fault is repaired.
Verify(p) ==
  /\ p.stage = "actions"
  /\ fault # NoFault => fault.machine = p.machine
  /\ working' = FALSE
  /\ IF fault = NoFault THEN UNCHANGED <<fault, due, repaired>>
     ELSE fault' = NoFault /\ due' \in Gaps /\ repaired' = repaired + 1
  /\ plan' = Plan(p.machine, "ready", 0) /\ watched' = 0
  /\ UNCHANGED <<mode, selected, ticks, made>>

PerformVerify ==
  /\ mode = "progressive" /\ plan # NoPlan /\ Verify(plan)
  /\ UNCHANGED steps

\* recover: a plan that is ready is watched from now on, and the line starts.
Restarted ==
  IF Open({"ready"})
  THEN /\ plan' = Plan(plan.machine, "stabilizing", Confirmations) /\ working' = TRUE
       /\ watched' = 0
  ELSE UNCHANGED <<plan, working, watched>>

RecoverPlan ==
  /\ mode = "progressive" /\ Open({"ready"}) /\ Restarted
  /\ UNCHANGED <<mode, selected, ticks, schedule, steps, repaired>>

\* Mutant: the generator is not made anew.
ResetKeepsFault ==
  /\ working' = FALSE /\ mode' = "standard" /\ scenario' = "normal"
  /\ plan' = NoPlan /\ basePlan' = {} /\ made' = 0 /\ repaired' = 0 /\ watched' = 0
  /\ UNCHANGED <<ticks, steps, due, fault>>
\* reset: a new run in the standard mode, everything from the start.
ResetProgressive ==
  /\ working' = FALSE /\ mode' = "standard" /\ scenario' = "normal"
  /\ due' \in Gaps /\ fault' = NoFault /\ plan' = NoPlan /\ basePlan' = {}
  /\ made' = 0 /\ repaired' = 0 /\ watched' = 0
  /\ UNCHANGED <<ticks, steps>>

-----------------------------------------------------------------------------
(* Steps of repair sessions in this mode.  A session of an earlier run is  *)
(* refused; what steps do in the standard mode is the subject of           *)
(* RepairSession.                                                          *)

Record(e, action, linked) == [machine |-> e, action |-> action, linked |-> linked]
MayStep == mode = "progressive" /\ Len(steps) < MaxSteps
\* snapshot.recovery is a plan of machine e: the mode's own, or else the standard mode's.
PlannedSteps(e) == IF plan # NoPlan THEN plan.machine = e ELSE e \in basePlan
\* Its repair is open; what the standard mode planned is done or has no such action.
RepairOpen == Open({"actions"})

\* prepare_recovery: a plan for a machine whose fault is in progress.
MayPrepare(e) == ~PlannedSteps(e) /\ Broken(e) /\ ~Open({"ready", "stabilizing"})

\* "repair recorded": done by the engine,
StepRepair(e) ==
  /\ MayStep
  /\ \/ PlannedSteps(e) /\ RepairOpen /\ Verify(plan)
     \/ MayPrepare(e) /\ Verify(Plan(e, "actions", 0))
  /\ steps' = Append(steps, Record(e, "repair", TRUE))

\* and only written down where the plan shown for the machine has nothing left to repair -
\* even if that is the standard mode's and the machine is broken by now.
StepNoted(e) ==
  /\ MayStep /\ PlannedSteps(e) /\ ~RepairOpen
  /\ steps' = Append(steps, Record(e, "repair", FALSE))
  /\ UNCHANGED <<working, mode, selected, progress, schedule, plan, repaired>>

\* "restart": the engine's recover, which may have nothing to do,
StepRestart(e) ==
  /\ MayStep /\ PlannedSteps(e) /\ ~RepairOpen
  /\ Restarted
  /\ steps' = Append(steps, Record(e, "restart", TRUE))
  /\ UNCHANGED <<mode, selected, ticks, schedule, repaired>>

\* and which is refused before any repair, when the plan has been prepared.
RefuseRestart(e) ==
  /\ MayStep /\ MayPrepare(e)
  /\ plan' = Plan(e, "actions", 0)
  /\ UNCHANGED <<working, mode, selected, progress, schedule, steps, repaired>>

ProgressiveNext ==
  \/ TickProgressive \/ TickStandard
  \/ StartWork \/ PauseWork \/ ChooseScenario \/ RecoverScenario
  \/ \E enabled \in BOOLEAN : SetProgressive(enabled)
  \/ PerformVerify \/ RecoverPlan \/ ResetProgressive
  \/ \E e \in Machines :
       \/ RepairFault(e) \/ StepRepair(e) \/ StepNoted(e)
       \/ StepRestart(e) \/ RefuseRestart(e)

ProgressiveSpec == ProgressiveInit /\ [][ProgressiveNext]_progressiveVars

-----------------------------------------------------------------------------
(* Properties.                                                             *)

\* Leaving the mode hides nothing: outside of it there is neither a fault
\* that still grows nor a plan that is still to be finished.
ModeHidesNothing == mode = "standard" => fault = NoFault /\ ~Unfinished

\* A fault ends by a repair that is in the log and in no other way: not by a
\* pause, another machine's repair, a change of mode or an early recovery.
FaultsEndByRepair == made = repaired + (IF fault = NoFault THEN 0 ELSE 1)

\* A plan is completed only after its machine's readings were in range for the whole
\* confirmation, without a break, since the line was restarted after the repair.
CompletedWasCalm == Open({"completed"}) => watched >= Confirmations
=============================================================================
