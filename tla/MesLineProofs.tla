--------------------------- MODULE MesLineProofs ---------------------------
(* Proofs about MesLine for every set of scenarios, equipment, alarms and  *)
(* signals, every length of recovery and all bounds.                       *)
EXTENDS MesLine, SubsequenceFacts, SequenceTheorems

\* Only the holding scenario in force keeps coils on hold.
HeldByScenario == held => scenario \in Holding

\* A prescribed repair is confirmed before its recovery is observed.
RecoveryConfirmed == scenario \in Authored /\ ticks > 0 => done

IInv == LineTypeOK /\ ShownStoppedMeansStopped /\ HeldByScenario /\ RecoveryConfirmed

-----------------------------------------------------------------------------
(* The values _states and _update_alarms leave.                            *)

\* A mode other than "stopped" is shown exactly by a line that runs; none of them is "paused".
LEMMA ModeType ==
  ASSUME NEW on \in BOOLEAN, NEW s \in Scenarios, NEW left \in Nat
  PROVE  /\ LineMode(on, s, left) \in {"running", "stopped", "fault", "quality_hold", "recovering"}
         /\ LineMode(on, s, left) = "stopped" <=> ~on
         /\ LineMode(on, s, left) = "fault" => s \in Faults /\ Code[s] # NoCode
  BY DEF LineMode

LEMMA AlarmType ==
  ASSUME NEW on \in BOOLEAN, NEW s \in Scenarios, NEW left \in Nat
  PROVE  AlarmNow(on, s, left) \in Alarms \cup {NoAlarm}
<1>1. CASE LineMode(on, s, left) = "fault"
  <2>1. s \in Faults /\ Code[s] # NoCode
    BY <1>1, ModeType
  <2>2. Cause[s] \in Equipment /\ Code[s] \in Codes
    BY <2>1, LineAssumption
  <2> QED
    BY <1>1, <2>2 DEF AlarmNow, Alarms
<1>2. CASE LineMode(on, s, left) # "fault"
  BY <1>2 DEF AlarmNow
<1> QED
  BY <1>1, <1>2

\* A command's refresh keeps the mode true and the alarm typed.
LEMMA RefreshKeeps ==
  ASSUME LineTypeOK, ShownStoppedMeansStopped, NEW s \in Scenarios, NEW left \in Nat,
         Refresh(s, left), running' = running
  PROVE  /\ mode' \in {"running", "stopped", "paused", "fault", "quality_hold", "recovering"}
         /\ alarm' \in Alarms \cup {NoAlarm}
         /\ ShownStoppedMeansStopped'
<1>1. running \in BOOLEAN
  BY DEF LineTypeOK
<1>2. alarm' \in Alarms \cup {NoAlarm}
  BY <1>1, AlarmType DEF Refresh
<1>3. CASE mode = "paused"
  BY <1>2, <1>3 DEF Refresh, ShownStoppedMeansStopped
<1>4. CASE mode # "paused"
  <2>1. mode' = LineMode(running, s, left)
    BY <1>4 DEF Refresh
  <2> QED
    BY <1>1, <1>2, <2>1, ModeType DEF ShownStoppedMeansStopped
<1> QED
  BY <1>3, <1>4

-----------------------------------------------------------------------------
LEMMA Bounds ==
  /\ RecoveryTicks \in Nat /\ RecoveryTicks > 0 /\ MaxRun \in Nat /\ MaxRun > 0
  /\ MaxSeq \in Nat /\ MaxSaveFailures \in Nat
  BY LineAssumption

LEMMA InitInv == Init => IInv
<1> SUFFICES ASSUME Init PROVE IInv
  OBVIOUS
<1>1. /\ 1 \in 1..MaxRun /\ 0 \in 0..MaxSeq
      /\ 0 \in 0..RecoveryTicks /\ 0 \in 0..MaxSaveFailures
  BY Bounds
<1>2. LineTypeOK
  BY <1>1 DEF Init, LineTypeOK, Scenarios
<1>3. ShownStoppedMeansStopped /\ HeldByScenario /\ RecoveryConfirmed
  BY DEF Init, ShownStoppedMeansStopped, HeldByScenario, RecoveryConfirmed
<1> QED
  BY <1>2, <1>3 DEF IInv

\* A new run starts from nothing.
LEMMA FreshInv ==
  ASSUME IInv, NextRun, Fresh, ticker' \in BOOLEAN, failures' = failures
  PROVE  IInv'
<1>1. run' \in 1..MaxRun
  BY Bounds DEF NextRun, IInv, LineTypeOK
<1>2. failures' \in 0..MaxSaveFailures
  BY DEF IInv, LineTypeOK
<1>3. 0 \in 0..MaxSeq /\ 0 \in 0..RecoveryTicks
  BY Bounds
<1>4. LineTypeOK'
  BY <1>1, <1>2, <1>3 DEF Fresh, LineTypeOK, Scenarios, NoAlarm
<1> QED
  BY <1>4, LineAssumption
     DEF IInv, Fresh, ShownStoppedMeansStopped, HeldByScenario, RecoveryConfirmed

LEMMA StartPauseInv ==
  ASSUME IInv, Start \/ Pause
  PROVE  IInv'
<1>1. CASE Start
  BY <1>1 DEF Start, IInv, LineTypeOK, ShownStoppedMeansStopped, HeldByScenario, RecoveryConfirmed,
              runVars, repairVars
<1>2. CASE Pause
  BY <1>2 DEF Pause, IInv, LineTypeOK, ShownStoppedMeansStopped, HeldByScenario, RecoveryConfirmed,
              runVars, repairVars
<1> QED
  BY <1>1, <1>2

\* The coils a scenario holds are held for that scenario: no other can have left any, because
\* a holding scenario prescribes its repair.
LEMMA SetScenarioInv ==
  ASSUME IInv, NEW s \in Scenarios, SetScenario(s)
  PROVE  IInv'
<1>1. /\ LineTypeOK /\ ShownStoppedMeansStopped /\ MayLeave /\ Refresh(s, 0)
      /\ scenario' = s /\ ticks' = 0 /\ done' = FALSE
      /\ plan' = IF s \in Faults \ Planless THEN s ELSE "none"
      /\ UNCHANGED <<runVars, running, resume>>
  BY DEF IInv, SetScenario
<1>2. ~held
  BY <1>1, LineAssumption DEF IInv, HeldByScenario, MayLeave, RecoveryRequired
<1>3. held' \in BOOLEAN /\ (held' => s \in Holding)
  <2>1. held = FALSE
    BY <1>1, <1>2 DEF LineTypeOK
  <2>2. CASE s \in Holding
    <3>1. held' \in {held, TRUE}
      BY <2>2 DEF SetScenario
    <3>2. held' \in BOOLEAN
      BY <2>1, <3>1
    <3> QED
      BY <2>2, <3>2
  <2>3. CASE s \notin Holding
    <3>1. held' = FALSE
      BY <2>1, <2>3 DEF SetScenario
    <3> QED
      BY <3>1
  <2> QED
    BY <2>2, <2>3
<1>4. /\ mode' \in {"running", "stopped", "paused", "fault", "quality_hold", "recovering"}
      /\ alarm' \in Alarms \cup {NoAlarm} /\ ShownStoppedMeansStopped'
  BY <1>1, RefreshKeeps
<1>5. LineTypeOK'
  <2>1. plan' \in (Faults \ Planless) \cup {"none"} /\ ticks' \in 0..RecoveryTicks
    BY <1>1, Bounds
  <2>2. /\ run' = run /\ seq' = seq /\ ticker' = ticker /\ failures' = failures
        /\ running' = running /\ resume' = resume /\ done' \in BOOLEAN
    BY <1>1 DEF runVars
  <2> QED
    BY <1>1, <1>3, <1>4, <2>1, <2>2 DEF LineTypeOK
<1>6. HeldByScenario' /\ RecoveryConfirmed'
  BY <1>1, <1>3 DEF HeldByScenario, RecoveryConfirmed
<1> QED
  BY <1>4, <1>5, <1>6 DEF IInv

LEMMA PerformActionInv ==
  ASSUME IInv, PerformAction
  PROVE  IInv'
<1>1. CASE done
  BY <1>1 DEF PerformAction, IInv, LineTypeOK, ShownStoppedMeansStopped, HeldByScenario,
              RecoveryConfirmed, runVars
<1>2. CASE ~done
  <2>1. /\ LineTypeOK /\ ShownStoppedMeansStopped /\ scenario \in Scenarios /\ 0 \in Nat
        /\ done' = TRUE /\ Refresh(scenario, 0)
        /\ UNCHANGED <<runVars, running, resume, scenario, plan, ticks, held>>
    BY <1>2 DEF IInv, LineTypeOK, PerformAction
  <2>2. /\ mode' \in {"running", "stopped", "paused", "fault", "quality_hold", "recovering"}
        /\ alarm' \in Alarms \cup {NoAlarm} /\ ShownStoppedMeansStopped'
    BY <2>1, RefreshKeeps
  <2> QED
    BY <2>1, <2>2 DEF IInv, LineTypeOK, HeldByScenario, RecoveryConfirmed, runVars
<1> QED
  BY <1>1, <1>2

LEMMA RecoverInv ==
  ASSUME IInv, Recover
  PROVE  IInv'
<1>1. CASE ticks > 0
  BY <1>1 DEF Recover, IInv, LineTypeOK, ShownStoppedMeansStopped, HeldByScenario,
              RecoveryConfirmed, runVars
<1>2. CASE ~(ticks > 0)
  <2>1. /\ LineTypeOK /\ ShownStoppedMeansStopped /\ scenario \in Scenarios /\ RecoveryTicks \in Nat
        /\ ticks' = RecoveryTicks /\ Refresh(scenario, RecoveryTicks)
        /\ scenario \in Authored => done
        /\ UNCHANGED <<runVars, running, resume, scenario, plan, done, held>>
    BY <1>2, LineAssumption DEF IInv, LineTypeOK, Recover, MayRecover, RecoveryRequired
  <2>2. /\ mode' \in {"running", "stopped", "paused", "fault", "quality_hold", "recovering"}
        /\ alarm' \in Alarms \cup {NoAlarm} /\ ShownStoppedMeansStopped'
    BY <2>1, RefreshKeeps
  <2> QED
    BY <2>1, <2>2 DEF IInv, LineTypeOK, HeldByScenario, RecoveryConfirmed, runVars
<1> QED
  BY <1>1, <1>2

LEMMA AdvanceInv ==
  ASSUME IInv, Advance, ticker' \in BOOLEAN, failures' \in 0..MaxSaveFailures
  PROVE  IInv'
<1> DEFINE left == IF ticks > 0 THEN ticks - 1 ELSE 0
           now == IF ticks = 1 THEN "normal" ELSE scenario
<1>1. /\ running /\ seq < MaxSeq /\ seq' = seq + 1
      /\ ticks' = left /\ scenario' = now
      /\ held' = IF ticks = 1 THEN FALSE ELSE held
      /\ alarm' = AlarmNow(TRUE, now, left) /\ mode' = LineMode(TRUE, now, left)
      /\ UNCHANGED <<run, running, resume, plan, done>>
  BY DEF Advance, Released
<1>2. LineTypeOK /\ ticks \in 0..RecoveryTicks /\ scenario \in Scenarios
  BY DEF IInv, LineTypeOK
<1>3. left \in 0..RecoveryTicks /\ left \in Nat /\ now \in Scenarios
  BY <1>2, Bounds DEF Scenarios
<1>4. /\ mode' \in {"running", "fault", "quality_hold", "recovering"}
      /\ alarm' \in Alarms \cup {NoAlarm}
  <2> HIDE DEF left, now
  <2> QED
    BY <1>1, <1>3, ModeType, AlarmType
<1>5. LineTypeOK'
  <2>1. seq' \in 0..MaxSeq
    BY <1>1, <1>2, Bounds DEF LineTypeOK
  <2>2. held' \in BOOLEAN
    BY <1>1, <1>2 DEF LineTypeOK
  <2> HIDE DEF left, now
  <2> QED
    BY <1>1, <1>2, <1>3, <1>4, <2>1, <2>2 DEF LineTypeOK
<1>6. ShownStoppedMeansStopped'
  BY <1>1, <1>4 DEF ShownStoppedMeansStopped
<1>7. HeldByScenario' /\ RecoveryConfirmed'
  BY <1>1, <1>2, LineAssumption DEF IInv, HeldByScenario, RecoveryConfirmed
<1> QED
  BY <1>5, <1>6, <1>7 DEF IInv

LEMMA NextInv == IInv /\ [Next]_vars => IInv'
<1> SUFFICES ASSUME IInv, [Next]_vars PROVE IInv'
  OBVIOUS
<1>1. ticker \in BOOLEAN /\ failures \in 0..MaxSaveFailures /\ MaxSaveFailures \in Nat
  BY Bounds DEF IInv, LineTypeOK
<1>2. CASE Start \/ Pause
  BY <1>2, StartPauseInv
<1>3. CASE \E s \in Scenarios : SetScenario(s)
  BY <1>3, SetScenarioInv
<1>4. CASE PerformAction
  BY <1>4, PerformActionInv
<1>5. CASE Recover
  BY <1>5, RecoverInv
<1>6. CASE Tick
  BY <1>1, <1>6, AdvanceInv DEF Tick
<1>7. CASE TickNotSaved
  <2>1. Advance /\ ticker' \in BOOLEAN /\ failures' = failures + 1 /\ failures < MaxSaveFailures
    BY <1>7 DEF TickNotSaved
  <2>2. failures' \in 0..MaxSaveFailures
    BY <1>1, <2>1
  <2> QED
    BY <2>1, <2>2, AdvanceInv
<1>8. CASE Reset \/ ApplyConfig \/ Restart
  BY <1>1, <1>8, FreshInv DEF Reset, ApplyConfig, Restart
<1>9. CASE UNCHANGED vars
  BY <1>9 DEF vars, IInv, LineTypeOK, ShownStoppedMeansStopped, HeldByScenario, RecoveryConfirmed
<1> QED
  BY <1>2, <1>3, <1>4, <1>5, <1>6, <1>7, <1>8, <1>9 DEF Next, Commands

LEMMA Invariant == Spec => []IInv
  BY InitInv, NextInv, PTL DEF Spec

\* The engine's mode, scenario, plan, countdown and alarm stay within their types.
THEOREM LineTypeCorrect == Spec => []LineTypeOK
<1>1. IInv => LineTypeOK
  BY DEF IInv
<1> QED
  BY <1>1, Invariant, PTL

\* apply_config never takes a running line for a stopped one, nor the reverse.
THEOREM ShownModeCorrect == Spec => []ShownStoppedMeansStopped
<1>1. IInv => ShownStoppedMeansStopped
  BY DEF IInv
<1> QED
  BY <1>1, Invariant, PTL

-----------------------------------------------------------------------------
\* Which steps can change the scenario: a command, the end of a recovery, or a new run.
LEMMA ScenarioChanges ==
  ASSUME IInv, Next, scenario' # scenario
  PROVE  \/ MayLeave /\ \E s \in Scenarios : SetScenario(s)
         \/ Advance /\ ticks = 1 /\ scenario' = "normal"
         \/ run' # run
<1>1. CASE NextRun
  BY <1>1 DEF NextRun, IInv, LineTypeOK
<1>2. CASE Advance
  <2>1. scenario' = IF ticks = 1 THEN "normal" ELSE scenario
    BY <1>2 DEF Advance
  <2> QED
    BY <1>2, <2>1
<1> QED
  BY <1>1, <1>2
     DEF Next, Commands, Start, Pause, SetScenario, PerformAction, Recover, Tick, TickNotSaved,
         Reset, ApplyConfig, Restart, runVars, repairVars

\* No command, pause or restart of the line gets around a prescribed repair.
THEOREM AuthoredRepair == Spec => AuthoredFaultNeedsRepair
<1>1. ASSUME IInv, Next, scenario' # scenario, scenario \in Authored
      PROVE  run' # run \/ (done /\ ticks = 1 /\ scenario' = "normal")
  <2>1. ~MayLeave
    BY <1>1, LineAssumption DEF MayLeave, RecoveryRequired
  <2>2. ticks = 1 => done
    BY <1>1 DEF IInv, RecoveryConfirmed
  <2> QED
    BY <1>1, <2>1, <2>2, ScenarioChanges
<1>2. IInv /\ [Next]_vars =>
        [scenario' # scenario /\ scenario \in Authored =>
           run' # run \/ (done /\ ticks = 1 /\ scenario' = "normal")]_vars
  BY <1>1
<1> QED
  BY <1>2, Invariant, PTL DEF Spec, AuthoredFaultNeedsRepair

\* Coils are on hold only under a holding scenario and leave the hold only when it has ended.
THEOREM HoldsCorrect == Spec => HoldsEndWithScenario
<1>1. ASSUME IInv, Next
      PROVE  /\ held' => scenario' \in Holding
             /\ held /\ ~held' => run' # run \/ scenario' = "normal"
  <2>1. IInv'
    BY <1>1, NextInv
  <2>2. held' => scenario' \in Holding
    BY <2>1 DEF IInv, HeldByScenario
  <2>3. ASSUME held, ~held' PROVE run' # run \/ scenario' = "normal"
    <3>1. CASE NextRun
      BY <1>1, <3>1 DEF NextRun, IInv, LineTypeOK
    <3>2. CASE Advance
      BY <2>3, <3>2 DEF Advance, Released
    <3>3. CASE \E s \in Scenarios : SetScenario(s)
      BY <2>3, <3>3 DEF SetScenario
    <3> QED
      BY <1>1, <2>3, <3>1, <3>2, <3>3
         DEF Next, Commands, Start, Pause, PerformAction, Recover, Tick, TickNotSaved,
             Reset, ApplyConfig, Restart, repairVars
  <2> QED
    BY <2>2, <2>3
<1>2. IInv /\ [Next]_vars =>
        [/\ held' => scenario' \in Holding
         /\ held /\ ~held' => run' # run \/ scenario' = "normal"]_vars
  BY <1>1
<1> QED
  BY <1>2, Invariant, PTL DEF Spec, HoldsEndWithScenario

-----------------------------------------------------------------------------
(* The log of a run and what of it is stored.                              *)

Events == [type : {"alarm_raised", "alarm_cleared", "recovered"},
           eq : Equipment \cup {"none"}, code : Codes \cup {NoCode}]
Stamped == [at : Nat, event : Events]

\* The reader's last word on an alarm, and the alarm that agrees with it.
Raised(e, c) == [type |-> "alarm_raised", eq |-> e, code |-> c]
Active(log, e, c) ==
  \E i \in DOMAIN log : log[i] = Raised(e, c) /\ \A j \in DOMAIN log : j > i => log[j].eq # e
Reads(log, a) == \A e \in Equipment, c \in Codes : a = [eq |-> e, code |-> c] <=> Active(log, e, c)

EventsOf(es) == [i \in DOMAIN es |-> es[i].event]

\* What is logged is stamped with a time that is past, or is the present tick's.
LogInv ==
  /\ IInv
  /\ events \in Seq(Stamped) /\ pending \in Seq(Events)
  /\ \A i \in DOMAIN events : events[i].at <= seq
  /\ AlarmsMatchLog /\ StoredMatchesLog

LEMMA MatchIsReading == AlarmsMatchLog <=> Reads(Log, alarm)
  BY DEF AlarmsMatchLog, Reads, Active, Raised

\* Only an event of the equipment itself changes what is read of it.
LEMMA ActiveAfter ==
  ASSUME NEW log \in Seq(Events), NEW x \in Events, NEW e \in Equipment, NEW c \in Codes
  PROVE  Active(Append(log, x), e, c) <=> IF x.eq = e THEN x = Raised(e, c) ELSE Active(log, e, c)
<1> DEFINE n == Len(log)
<1>1. PICK longer : longer = Append(log, x)
  OBVIOUS
<1>2. /\ n \in Nat /\ DOMAIN log = 1..n /\ DOMAIN longer = 1..(n + 1) /\ longer[n + 1] = x
      /\ \A i \in 1..n : longer[i] = log[i]
  BY <1>1
<1> HIDE DEF n
<1>3. CASE x.eq = e
  <2>1. \A i \in 1..n : n + 1 > i /\ n + 1 \in DOMAIN longer
    BY <1>2
  <2>2. \A i \in DOMAIN longer : i \in 1..n \/ i = n + 1
    BY <1>2
  <2>3. \A j \in DOMAIN longer : ~(j > n + 1)
    BY <1>2
  <2>4. Active(longer, e, c) <=> x = Raised(e, c)
    BY <1>2, <1>3, <2>1, <2>2, <2>3 DEF Active
  <2> QED
    BY <1>1, <1>3, <2>4
<1>4. CASE x.eq # e
  <2>1. x # Raised(e, c)
    BY <1>4 DEF Raised
  <2>2. ASSUME Active(longer, e, c) PROVE Active(log, e, c)
    <3>1. PICK i \in DOMAIN longer : longer[i] = Raised(e, c) /\ \A j \in DOMAIN longer : j > i => longer[j].eq # e
      BY <2>2 DEF Active
    <3>2. i \in 1..n
      BY <1>2, <2>1, <3>1
    <3>3. \A j \in 1..n : j \in DOMAIN longer
      BY <1>2
    <3> QED
      BY <1>2, <3>1, <3>2, <3>3 DEF Active
  <2>3. ASSUME Active(log, e, c) PROVE Active(longer, e, c)
    <3>1. PICK i \in DOMAIN log : log[i] = Raised(e, c) /\ \A j \in DOMAIN log : j > i => log[j].eq # e
      BY <2>3 DEF Active
    <3>2. i \in DOMAIN longer /\ longer[i] = Raised(e, c)
      BY <1>2, <3>1
    <3>3. \A j \in DOMAIN longer : j > i => longer[j].eq # e
      BY <1>2, <1>4, <3>1
    <3> QED
      BY <3>2, <3>3 DEF Active
  <2> QED
    BY <1>1, <1>4, <2>2, <2>3
<1> QED
  BY <1>3, <1>4

LEMMA EventTypes ==
  /\ Recovered \in Events
  /\ \A a \in Alarms : /\ Event("alarm_raised", a) \in Events /\ Event("alarm_cleared", a) \in Events
                       /\ a.eq \in Equipment /\ a.code \in Codes /\ a # NoAlarm
                       /\ a = [eq |-> a.eq, code |-> a.code]
                       /\ Event("alarm_raised", a) = Raised(a.eq, a.code)
                       /\ Event("alarm_cleared", a).eq = a.eq
                       /\ \A e, c : Event("alarm_cleared", a) # Raised(e, c)
  /\ Recovered.eq \notin Equipment
  BY LineAssumption DEF Events, Event, Recovered, NoAlarm, Alarms, Raised

\* Raising, clearing, and an event that is about no equipment.
LEMMA RaisedIsRead ==
  ASSUME NEW log \in Seq(Events), NEW a \in Alarms \cup {NoAlarm}, NEW b \in Alarms,
         Reads(log, a), a = NoAlarm \/ a.eq = b.eq
  PROVE  Reads(Append(log, Event("alarm_raised", b)), b)
<1> SUFFICES ASSUME NEW e \in Equipment, NEW c \in Codes
             PROVE  b = [eq |-> e, code |-> c] <=> Active(Append(log, Event("alarm_raised", b)), e, c)
  BY DEF Reads
<1>1. Event("alarm_raised", b) \in Events /\ Event("alarm_raised", b) = Raised(b.eq, b.code)
  BY EventTypes
<1>2. Raised(b.eq, b.code).eq = b.eq
  BY DEF Raised
<1>3. CASE e = b.eq
  <2>1. Active(Append(log, Event("alarm_raised", b)), e, c) <=> Raised(b.eq, b.code) = Raised(e, c)
    BY <1>1, <1>2, <1>3, ActiveAfter
  <2>2. Raised(b.eq, b.code) = Raised(e, c) <=> b.code = c
    BY <1>3 DEF Raised
  <2>3. b = [eq |-> e, code |-> c] <=> b.code = c
    BY <1>3, EventTypes
  <2> QED
    BY <2>1, <2>2, <2>3
<1>4. CASE e # b.eq
  <2>1. Active(Append(log, Event("alarm_raised", b)), e, c) <=> Active(log, e, c)
    BY <1>1, <1>2, <1>4, ActiveAfter
  <2>2. a # [eq |-> e, code |-> c]
    BY <1>4, LineAssumption DEF NoAlarm
  <2>3. ~Active(log, e, c)
    BY <2>2 DEF Reads
  <2>4. b # [eq |-> e, code |-> c]
    BY <1>4
  <2> QED
    BY <2>1, <2>3, <2>4
<1> QED
  BY <1>3, <1>4

LEMMA ClearedIsRead ==
  ASSUME NEW log \in Seq(Events), NEW a \in Alarms, Reads(log, a)
  PROVE  Reads(Append(log, Event("alarm_cleared", a)), NoAlarm)
<1> SUFFICES ASSUME NEW e \in Equipment, NEW c \in Codes
             PROVE  ~Active(Append(log, Event("alarm_cleared", a)), e, c)
  BY LineAssumption DEF Reads, NoAlarm
<1>1. /\ Event("alarm_cleared", a) \in Events /\ Event("alarm_cleared", a).eq = a.eq
      /\ Event("alarm_cleared", a) # Raised(e, c)
  BY EventTypes
<1>2. CASE e = a.eq
  BY <1>1, <1>2, ActiveAfter
<1>3. CASE e # a.eq
  <2>1. a # [eq |-> e, code |-> c]
    BY <1>3
  <2>2. ~Active(log, e, c)
    BY <2>1 DEF Reads
  <2> QED
    BY <1>1, <1>3, <2>2, ActiveAfter
<1> QED
  BY <1>2, <1>3

\* The alarm of the new cause is raised before the old one elsewhere is cleared.
LEMMA MovedIsRead ==
  ASSUME NEW log \in Seq(Events), NEW a \in Alarms, NEW b \in Alarms, Reads(log, a), a.eq # b.eq
  PROVE  Reads(Append(Append(log, Event("alarm_raised", b)), Event("alarm_cleared", a)), b)
<1> DEFINE x == Event("alarm_raised", b)
           y == Event("alarm_cleared", a)
<1> SUFFICES ASSUME NEW e \in Equipment, NEW c \in Codes
             PROVE  b = [eq |-> e, code |-> c] <=> Active(Append(Append(log, x), y), e, c)
  BY DEF Reads
<1>1. x \in Events /\ x = Raised(b.eq, b.code) /\ x.eq = b.eq
  <2>1. Raised(b.eq, b.code).eq = b.eq
    BY DEF Raised
  <2> QED
    BY <2>1, EventTypes
<1>2. y \in Events /\ y.eq = a.eq /\ y # Raised(e, c)
  BY EventTypes
<1> HIDE DEF x, y
<1>3. Append(log, x) \in Seq(Events)
  BY <1>1
<1>4. Active(Append(Append(log, x), y), e, c) <=>
        IF e = a.eq THEN FALSE ELSE IF e = b.eq THEN x = Raised(e, c) ELSE Active(log, e, c)
  <2>1. Active(Append(Append(log, x), y), e, c) <=>
          IF y.eq = e THEN y = Raised(e, c) ELSE Active(Append(log, x), e, c)
    BY <1>2, <1>3, ActiveAfter
  <2>2. Active(Append(log, x), e, c) <=> IF x.eq = e THEN x = Raised(e, c) ELSE Active(log, e, c)
    BY <1>1, ActiveAfter
  <2> QED
    BY <1>1, <1>2, <2>1, <2>2
<1>5. CASE e = a.eq
  <2>1. b # [eq |-> e, code |-> c]
    BY <1>5
  <2> QED
    BY <1>4, <1>5, <2>1
<1>6. CASE e # a.eq /\ e = b.eq
  <2>1. x = Raised(e, c) <=> b.code = c
    BY <1>1, <1>6 DEF Raised
  <2>2. b = [eq |-> e, code |-> c] <=> b.code = c
    BY <1>6, EventTypes
  <2> QED
    BY <1>4, <1>6, <2>1, <2>2
<1>7. CASE e # a.eq /\ e # b.eq
  <2>1. a # [eq |-> e, code |-> c] /\ b # [eq |-> e, code |-> c]
    BY <1>7
  <2>2. ~Active(log, e, c)
    BY <2>1 DEF Reads
  <2> QED
    BY <1>4, <1>7, <2>1, <2>2
<1> QED
  BY <1>5, <1>6, <1>7

LEMMA RecoveredIsRead ==
  ASSUME NEW log \in Seq(Events), NEW a, Reads(log, a)
  PROVE  Reads(Append(log, Recovered), a)
<1> SUFFICES ASSUME NEW e \in Equipment, NEW c \in Codes
             PROVE  Active(Append(log, Recovered), e, c) <=> Active(log, e, c)
  BY DEF Reads
<1>1. Recovered \in Events /\ Recovered.eq # e
  BY EventTypes
<1> QED
  BY <1>1, ActiveAfter

\* What _update_alarms adds to a log that agrees with the old alarm makes it agree with the new.
LEMMA ChangesAreRead ==
  ASSUME NEW log \in Seq(Events), NEW old \in Alarms \cup {NoAlarm}, NEW new \in Alarms \cup {NoAlarm},
         Reads(log, old)
  PROVE  Changes(old, new) \in Seq(Events) /\ Reads(log \o Changes(old, new), new)
<1>1. CASE old = new
  BY <1>1, ConcatEmptySeq DEF Changes
<1>2. CASE old # new /\ old = NoAlarm
  <2>1. new \in Alarms /\ Changes(old, new) = <<Event("alarm_raised", new)>>
    BY <1>2 DEF Changes
  <2>2. Event("alarm_raised", new) \in Events
    BY <2>1, EventTypes
  <2>3. log \o Changes(old, new) = Append(log, Event("alarm_raised", new))
    BY <2>1, <2>2
  <2>4. Changes(old, new) \in Seq(Events)
    BY <2>1, <2>2
  <2>5. Reads(Append(log, Event("alarm_raised", new)), new)
    BY <1>2, <2>1, RaisedIsRead
  <2> QED
    BY <1>2, <2>3, <2>4, <2>5
<1>3. CASE old # new /\ old # NoAlarm /\ new = NoAlarm
  <2>1. old \in Alarms /\ Changes(old, new) = <<Event("alarm_cleared", old)>>
    BY <1>3 DEF Changes
  <2>2. Event("alarm_cleared", old) \in Events
    BY <2>1, EventTypes
  <2>3. log \o Changes(old, new) = Append(log, Event("alarm_cleared", old))
    BY <2>1, <2>2
  <2>4. Changes(old, new) \in Seq(Events)
    BY <2>1, <2>2
  <2>5. Reads(Append(log, Event("alarm_cleared", old)), NoAlarm)
    BY <1>3, <2>1, ClearedIsRead
  <2> QED
    BY <1>3, <2>3, <2>4, <2>5
<1>4. CASE old # new /\ old # NoAlarm /\ new # NoAlarm /\ old.eq = new.eq
  <2>1. /\ old \in Alarms /\ new \in Alarms
        /\ Changes(old, new) = <<Event("alarm_cleared", old), Event("alarm_raised", new)>>
    BY <1>4 DEF Changes
  <2>2. Event("alarm_cleared", old) \in Events /\ Event("alarm_raised", new) \in Events
    BY <2>1, EventTypes
  <2>3. log \o Changes(old, new) = Append(Append(log, Event("alarm_cleared", old)), Event("alarm_raised", new))
    BY <2>1, <2>2
  <2>4. /\ Append(log, Event("alarm_cleared", old)) \in Seq(Events)
        /\ Reads(Append(log, Event("alarm_cleared", old)), NoAlarm)
    BY <2>1, <2>2, ClearedIsRead
  <2>5. Changes(old, new) \in Seq(Events)
    BY <2>1, <2>2
  <2>6. Reads(Append(Append(log, Event("alarm_cleared", old)), Event("alarm_raised", new)), new)
    BY <2>1, <2>4, RaisedIsRead
  <2> QED
    BY <2>3, <2>5, <2>6
<1>5. CASE old # new /\ old # NoAlarm /\ new # NoAlarm /\ old.eq # new.eq
  <2>1. /\ old \in Alarms /\ new \in Alarms
        /\ Changes(old, new) = <<Event("alarm_raised", new), Event("alarm_cleared", old)>>
    BY <1>5 DEF Changes
  <2>2. Event("alarm_cleared", old) \in Events /\ Event("alarm_raised", new) \in Events
    BY <2>1, EventTypes
  <2>3. log \o Changes(old, new) = Append(Append(log, Event("alarm_raised", new)), Event("alarm_cleared", old))
    BY <2>1, <2>2
  <2>4. Changes(old, new) \in Seq(Events)
    BY <2>1, <2>2
  <2>5. Reads(Append(Append(log, Event("alarm_raised", new)), Event("alarm_cleared", old)), new)
    BY <1>5, <2>1, MovedIsRead
  <2> QED
    BY <1>5, <2>3, <2>4, <2>5
<1> QED
  BY <1>1, <1>2, <1>3, <1>4, <1>5

-----------------------------------------------------------------------------
LEMMA LogType ==
  ASSUME LogInv
  PROVE  /\ EventsOf(events) \in Seq(Events) /\ Log = EventsOf(events) \o pending
         /\ Log \in Seq(Events) /\ Reads(Log, alarm)
<1>1. EventsOf(events) \in Seq(Events)
  <2>1. events \in Seq(Stamped) /\ Len(events) \in Nat /\ DOMAIN events = 1..Len(events)
    BY DEF LogInv
  <2>2. \A i \in 1..Len(events) : events[i] \in Stamped
    BY <2>1
  <2>3. \A i \in 1..Len(events) : events[i].event \in Events
    BY <2>2 DEF Stamped
  <2> QED
    BY <2>1, <2>3 DEF EventsOf
<1>2. Log = EventsOf(events) \o pending /\ Log \in Seq(Events)
  BY <1>1 DEF LogInv, Log, EventsOf
<1> QED
  BY <1>1, <1>2, MatchIsReading DEF LogInv

\* A command's alarms are queued behind what is logged and queued already.
LEMMA RefreshLogs ==
  ASSUME LogInv, IInv', NEW s, NEW left, Refresh(s, left), UNCHANGED <<seq, stored, ticker>>
  PROVE  LogInv'
<1>1. /\ alarm \in Alarms \cup {NoAlarm} /\ alarm' \in Alarms \cup {NoAlarm}
      /\ pending' = pending \o Changes(alarm, alarm') /\ events' = events
      /\ events \in Seq(Stamped) /\ pending \in Seq(Events)
  BY DEF LogInv, IInv, LineTypeOK, Refresh
<1>2. Changes(alarm, alarm') \in Seq(Events) /\ Reads(Log \o Changes(alarm, alarm'), alarm')
  BY <1>1, LogType, ChangesAreRead
<1>3. Log' = EventsOf(events) \o (pending \o Changes(alarm, alarm'))
  BY <1>1 DEF Log, EventsOf
<1>4. Log' = Log \o Changes(alarm, alarm')
  <2>1. Log = EventsOf(events) \o pending /\ EventsOf(events) \in Seq(Events)
    BY LogType
  <2>2. (EventsOf(events) \o pending) \o Changes(alarm, alarm')
          = EventsOf(events) \o (pending \o Changes(alarm, alarm'))
    BY <1>1, <1>2, <2>1, ConcatAssociative
  <2> QED
    BY <1>3, <2>1, <2>2
<1>5. AlarmsMatchLog'
  <2>1. Reads(Log', alarm')
    BY <1>2, <1>4
  <2> QED
    BY <2>1 DEF AlarmsMatchLog, Reads, Active, Raised
<1>6. pending' \in Seq(Events)
  BY <1>1, <1>2
<1> QED
  BY <1>1, <1>5, <1>6 DEF LogInv, StoredMatchesLog

\* Events of one time, as they are added to a log.
LEMMA AtTime ==
  ASSUME NEW n \in Nat, NEW es \in Seq(Events)
  PROVE  /\ At(n, es) \in Seq(Stamped) /\ Len(At(n, es)) = Len(es)
         /\ \A i \in 1..Len(es) : At(n, es)[i].at = n /\ At(n, es)[i].event = es[i]
<1>1. Len(es) \in Nat /\ DOMAIN es = 1..Len(es) /\ \A i \in 1..Len(es) : es[i] \in Events
  OBVIOUS
<1>2. \A i \in 1..Len(es) : [at |-> n, event |-> es[i]] \in Stamped
  BY <1>1 DEF Stamped
<1> QED
  BY <1>1, <1>2 DEF At

LEMMA EventsOfLonger ==
  ASSUME NEW log \in Seq(Stamped), NEW n \in Nat, NEW es \in Seq(Events)
  PROVE  EventsOf(log \o At(n, es)) = EventsOf(log) \o es
<1> DEFINE a == Len(log)
           b == Len(es)
<1>1. PICK more : more = At(n, es)
  OBVIOUS
<1>2. /\ more \in Seq(Stamped) /\ Len(more) = b
      /\ \A i \in 1..b : more[i].event = es[i]
  BY <1>1, AtTime
<1>3. PICK longer : longer = log \o more
  OBVIOUS
<1>4. /\ a \in Nat /\ b \in Nat /\ DOMAIN longer = 1..(a + b) /\ DOMAIN log = 1..a
      /\ \A i \in 1..(a + b) : longer[i] = IF i <= a THEN log[i] ELSE more[i - a]
  <2>0. a \in Nat /\ b \in Nat
    OBVIOUS
  <2>1. longer \in Seq(Stamped) /\ Len(longer) = a + b /\ a \in Nat /\ b \in Nat
    <3>1. more \in Seq(Stamped)
      BY <1>2
    <3>2. longer \in Seq(Stamped) /\ Len(longer) = Len(log) + Len(more)
      BY <1>3, <3>1, ConcatProperties
    <3> QED
      BY <1>2, <2>0, <3>2
  <2>2. \A i \in 1..(a + b) : longer[i] = IF i <= a THEN log[i] ELSE more[i - a]
    BY <1>2, <1>3, ConcatProperties
  <2> QED
    BY <2>1, <2>2
<1>5. EventsOf(log) \in Seq(Events) /\ Len(EventsOf(log)) = a /\ \A i \in 1..a : EventsOf(log)[i] = log[i].event
  <2>1. \A i \in 1..a : log[i] \in Stamped
    BY <1>4
  <2>2. \A i \in 1..a : log[i].event \in Events
    BY <2>1 DEF Stamped
  <2> QED
    BY <1>4, <2>2 DEF EventsOf
<1>6. PICK heard : heard = EventsOf(log)
  OBVIOUS
<1>7. heard \o es = [i \in 1..(a + b) |-> IF i <= a THEN heard[i] ELSE es[i - a]]
  <2>1. PICK both : both = heard \o es
    OBVIOUS
  <2>2. both \in Seq(Events) /\ Len(both) = a + b
    <3>1. heard \in Seq(Events) /\ Len(heard) = a
      BY <1>5, <1>6
    <3>2. both \in Seq(Events) /\ Len(both) = Len(heard) + Len(es)
      BY <2>1, <3>1, ConcatProperties
    <3> QED
      BY <3>1, <3>2
  <2>3. \A i \in 1..(a + b) : both[i] = IF i <= a THEN heard[i] ELSE es[i - a]
    BY <1>5, <1>6, <2>1, ConcatProperties
  <2>4. both = [i \in 1..(a + b) |-> both[i]]
    BY <2>2
  <2> QED
    BY <2>1, <2>3, <2>4
<1> HIDE DEF a, b
<1>8. \A i \in 1..(a + b) : longer[i].event = IF i <= a THEN heard[i] ELSE es[i - a]
  <2> SUFFICES ASSUME NEW i \in 1..(a + b)
               PROVE  longer[i].event = IF i <= a THEN heard[i] ELSE es[i - a]
    OBVIOUS
  <2>1. CASE i <= a
    <3>1. i \in 1..a
      BY <1>4, <2>1
    <3> QED
      BY <1>4, <1>5, <1>6, <2>1, <3>1
  <2>2. CASE ~(i <= a)
    <3>1. i - a \in 1..b
      BY <1>4, <2>2
    <3> QED
      BY <1>2, <1>4, <2>2, <3>1
  <2> QED
    BY <2>1, <2>2
<1> QED
  BY <1>1, <1>3, <1>4, <1>6, <1>7, <1>8 DEF EventsOf

\* A tick logs what was queued, the recovery and the alarms, all under its own time.
LEMMA AdvanceLogs ==
  ASSUME LogInv, Advance
  PROVE  /\ events' \in Seq(Stamped) /\ pending' \in Seq(Events)
         /\ \A i \in DOMAIN events' : events'[i].at <= seq'
         /\ AlarmsMatchLog'
         /\ \E more \in Seq(Stamped) :
              /\ events' = events \o more
              /\ {i \in DOMAIN events' : events'[i].at = seq'} = (Len(events) + 1)..Len(events \o more)
<1> DEFINE finished == IF ticks = 1 THEN <<Recovered>> ELSE <<>>
           changes == Changes(alarm, alarm')
           added == (pending \o finished) \o changes
<1>1. /\ seq \in Nat /\ seq' = seq + 1 /\ alarm \in Alarms \cup {NoAlarm} /\ scenario \in Scenarios
      /\ ticks \in Nat /\ events \in Seq(Stamped) /\ pending \in Seq(Events) /\ pending' = <<>>
  BY Bounds DEF LogInv, IInv, LineTypeOK, Advance
<1>2. events' = events \o At(seq + 1, added)
  BY DEF Advance
<1>3. alarm' \in Alarms \cup {NoAlarm}
  <2> DEFINE left == IF ticks > 0 THEN ticks - 1 ELSE 0
             now == IF ticks = 1 THEN "normal" ELSE scenario
  <2>1. alarm' = AlarmNow(TRUE, now, left)
    BY DEF Advance
  <2>2. left \in Nat /\ now \in Scenarios
    BY <1>1 DEF Scenarios
  <2> HIDE DEF left, now
  <2> QED
    BY <2>1, <2>2, AlarmType
<1>4. PICK heard : heard = EventsOf(events)
  OBVIOUS
<1>5. heard \in Seq(Events) /\ Log = heard \o pending /\ Log \in Seq(Events) /\ Reads(Log, alarm)
  BY <1>4, LogType
<1>6. finished \in Seq(Events) /\ Log \o finished \in Seq(Events) /\ Reads(Log \o finished, alarm)
  <2>1. CASE ticks = 1
    <3>1. finished = <<Recovered>> /\ Recovered \in Events
      BY <2>1, EventTypes
    <3>2. Log \o finished = Append(Log, Recovered) /\ finished \in Seq(Events)
      BY <1>5, <3>1
    <3>3. Append(Log, Recovered) \in Seq(Events)
      BY <1>5, <3>1
    <3> QED
      BY <1>5, <3>2, <3>3, RecoveredIsRead
  <2>2. CASE ticks # 1
    <3>1. finished = <<>> /\ Log \o <<>> = Log
      BY <1>5, <2>2, ConcatEmptySeq
    <3>2. <<>> \in Seq(Events)
      OBVIOUS
    <3> QED
      BY <1>5, <3>1, <3>2
  <2> QED
    BY <2>1, <2>2
<1> HIDE DEF finished
<1>7. changes \in Seq(Events) /\ Reads((Log \o finished) \o changes, alarm')
  BY <1>1, <1>3, <1>6, ChangesAreRead
<1> HIDE DEF changes
<1>8. (Log \o finished) \o changes = heard \o added
  <2>1. PICK queued : queued = pending \o finished
    OBVIOUS
  <2>2. queued \in Seq(Events)
    BY <1>1, <1>6, <2>1
  <2>3. (heard \o pending) \o finished = heard \o queued
    BY <1>1, <1>5, <1>6, <2>1, ConcatAssociative
  <2>4. (heard \o queued) \o changes = heard \o (queued \o changes)
    BY <1>5, <1>7, <2>2, ConcatAssociative
  <2> QED
    BY <1>5, <2>1, <2>3, <2>4
<1>9. added \in Seq(Events) /\ heard \o added \in Seq(Events)
  BY <1>1, <1>5, <1>6, <1>7
<1> HIDE DEF added
<1>10. PICK more : more = At(seq + 1, added)
  OBVIOUS
<1>11. /\ more \in Seq(Stamped) /\ Len(more) \in Nat
       /\ \A i \in 1..Len(more) : more[i].at = seq + 1
  BY <1>1, <1>9, <1>10, AtTime
<1>12. AlarmsMatchLog'
  <2>1. EventsOf(events') = heard \o added
    <3>1. seq + 1 \in Nat
      BY <1>1
    <3>2. EventsOf(events \o At(seq + 1, added)) = EventsOf(events) \o added
      BY <1>1, <1>9, <3>1, EventsOfLonger
    <3> QED
      BY <1>2, <1>4, <3>2
  <2>2. Log' = (heard \o added) \o <<>>
    BY <1>1, <2>1 DEF Log, EventsOf
  <2>3. Log' = heard \o added
    BY <1>9, <2>2, ConcatEmptySeq
  <2>4. Reads(Log', alarm')
    BY <1>7, <1>8, <2>3
  <2> QED
    BY <2>4 DEF AlarmsMatchLog, Reads, Active, Raised
<1>13. PICK longer : longer = events \o more
  OBVIOUS
<1>14. /\ longer \in Seq(Stamped) /\ Len(events) \in Nat /\ DOMAIN events = 1..Len(events)
       /\ Len(longer) = Len(events) + Len(more) /\ DOMAIN longer = 1..Len(longer)
       /\ \A i \in DOMAIN longer : longer[i] = IF i <= Len(events) THEN events[i] ELSE more[i - Len(events)]
  BY <1>1, <1>11, <1>13
<1>15. \A i \in DOMAIN longer : IF i <= Len(events) THEN longer[i].at <= seq ELSE longer[i].at = seq + 1
  <2> SUFFICES ASSUME NEW i \in DOMAIN longer
               PROVE  IF i <= Len(events) THEN longer[i].at <= seq ELSE longer[i].at = seq + 1
    OBVIOUS
  <2>1. CASE i <= Len(events)
    <3>1. i \in DOMAIN events
      BY <1>14, <2>1
    <3> QED
      BY <1>14, <2>1, <3>1 DEF LogInv
  <2>2. CASE ~(i <= Len(events))
    <3>1. i - Len(events) \in 1..Len(more)
      BY <1>11, <1>14, <2>2
    <3> QED
      BY <1>11, <1>14, <2>2, <3>1
  <2> QED
    BY <2>1, <2>2
<1>16. \A i \in DOMAIN longer : longer[i].at \in Nat
  <2>1. \A i \in DOMAIN longer : longer[i] \in Stamped
    BY <1>14
  <2> QED
    BY <2>1 DEF Stamped
<1>17. \A i \in DOMAIN longer : longer[i].at <= seq + 1
  BY <1>1, <1>15, <1>16
<1>18. {i \in DOMAIN longer : longer[i].at = seq + 1} = (Len(events) + 1)..Len(longer)
  <2>1. \A i \in DOMAIN longer : longer[i].at = seq + 1 <=> ~(i <= Len(events))
    BY <1>1, <1>15, <1>16
  <2>2. {i \in DOMAIN longer : longer[i].at = seq + 1} = {i \in 1..Len(longer) : ~(i <= Len(events))}
    BY <1>14, <2>1
  <2> QED
    BY <1>14, <2>2
<1>19. pending' \in Seq(Events) /\ events' = longer
  BY <1>1, <1>2, <1>10, <1>13
<1> QED
  BY <1>1, <1>11, <1>12, <1>13, <1>14, <1>17, <1>18, <1>19

LEMMA TickLogs ==
  ASSUME LogInv, IInv', Advance, Tick \/ TickNotSaved
  PROVE  LogInv'
<1>1. /\ events' \in Seq(Stamped) /\ pending' \in Seq(Events)
      /\ \A i \in DOMAIN events' : events'[i].at <= seq'
      /\ AlarmsMatchLog'
  BY AdvanceLogs
<1>2. CASE TickNotSaved
  BY <1>1, <1>2 DEF LogInv, StoredMatchesLog, TickNotSaved
<1>3. CASE Tick
  <2>1. PICK more \in Seq(Stamped) :
          /\ events' = events \o more
          /\ {i \in DOMAIN events' : events'[i].at = seq'} = (Len(events) + 1)..Len(events \o more)
    BY AdvanceLogs
  <2>2. events \in Seq(Stamped) /\ (ticker => stored = events)
    BY DEF LogInv, StoredMatchesLog
  <2>3. Selected(events \o more, (Len(events) + 1)..Len(events \o more)) = more
    BY <2>2, SelectedAdded
  <2>4. stored' = stored \o more /\ ticker' = ticker
    BY <1>3, <2>1, <2>3 DEF Tick
  <2>5. StoredMatchesLog'
    BY <2>1, <2>2, <2>4 DEF StoredMatchesLog
  <2> QED
    BY <1>1, <2>5 DEF LogInv
<1> QED
  BY <1>2, <1>3

LEMMA InitLog == Init => LogInv
<1> SUFFICES ASSUME Init PROVE LogInv
  OBVIOUS
<1>1. /\ events = <<>> /\ pending = <<>> /\ stored = <<>> /\ alarm = NoAlarm
  BY DEF Init
<1>2. DOMAIN Log = {}
  BY <1>1 DEF Log
<1>3. \A e \in Equipment, c \in Codes : alarm # [eq |-> e, code |-> c]
  BY <1>1, LineAssumption DEF NoAlarm
<1>4. AlarmsMatchLog
  BY <1>2, <1>3 DEF AlarmsMatchLog
<1> QED
  BY <1>1, <1>4, InitInv DEF LogInv, StoredMatchesLog

LEMMA FreshLog ==
  ASSUME IInv', Fresh
  PROVE  LogInv'
<1>1. /\ events' = <<>> /\ pending' = <<>> /\ stored' = <<>> /\ alarm' = NoAlarm
  BY DEF Fresh
<1>2. DOMAIN Log' = {}
  BY <1>1 DEF Log
<1>3. \A e \in Equipment, c \in Codes : alarm' # [eq |-> e, code |-> c]
  BY <1>1, LineAssumption DEF NoAlarm
<1>4. AlarmsMatchLog'
  BY <1>2, <1>3 DEF AlarmsMatchLog
<1> QED
  BY <1>1, <1>4 DEF LogInv, StoredMatchesLog

LEMMA SameLog ==
  ASSUME LogInv, IInv', UNCHANGED <<events, pending, alarm, seq, stored, ticker>>
  PROVE  LogInv'
<1>1. Log' = Log
  BY DEF Log
<1> QED
  BY <1>1 DEF LogInv, AlarmsMatchLog, StoredMatchesLog

LEMMA NextLog == LogInv /\ [Next]_vars => LogInv'
<1> SUFFICES ASSUME LogInv, [Next]_vars PROVE LogInv'
  OBVIOUS
<1>1. IInv'
  BY NextInv DEF LogInv
<1>2. CASE Start \/ Pause \/ UNCHANGED vars
  <2>1. UNCHANGED <<events, pending, alarm, seq, stored, ticker>>
    BY <1>2 DEF Start, Pause, vars, runVars
  <2> QED
    BY <1>1, <2>1, SameLog
<1>3. CASE \E s \in Scenarios : SetScenario(s)
  <2>1. PICK s \in Scenarios : SetScenario(s)
    BY <1>3
  <2>2. Refresh(s, 0) /\ UNCHANGED <<seq, stored, ticker>>
    BY <2>1 DEF SetScenario, runVars
  <2> QED
    BY <1>1, <2>2, RefreshLogs
<1>4. CASE PerformAction
  <2>1. UNCHANGED <<seq, stored, ticker>>
    BY <1>4 DEF PerformAction, runVars
  <2>2. CASE done
    BY <1>1, <1>4, <2>1, <2>2, SameLog DEF PerformAction
  <2>3. CASE ~done
    <3>1. Refresh(scenario, 0)
      BY <1>4, <2>3 DEF PerformAction
    <3> QED
      BY <1>1, <2>1, <3>1, RefreshLogs
  <2> QED
    BY <2>2, <2>3
<1>5. CASE Recover
  <2>1. UNCHANGED <<seq, stored, ticker>>
    BY <1>5 DEF Recover, runVars
  <2>2. CASE ticks > 0
    BY <1>1, <1>5, <2>1, <2>2, SameLog DEF Recover
  <2>3. CASE ~(ticks > 0)
    <3>1. Refresh(scenario, RecoveryTicks)
      BY <1>5, <2>3 DEF Recover
    <3> QED
      BY <1>1, <2>1, <3>1, RefreshLogs
  <2> QED
    BY <2>2, <2>3
<1>6. CASE Tick \/ TickNotSaved
  <2>1. Advance
    BY <1>6 DEF Tick, TickNotSaved
  <2> QED
    BY <1>1, <1>6, <2>1, TickLogs
<1>7. CASE Reset \/ ApplyConfig \/ Restart
  BY <1>1, <1>7, FreshLog DEF Reset, ApplyConfig, Restart
<1> QED
  BY <1>2, <1>3, <1>4, <1>5, <1>6, <1>7 DEF Next, Commands

LEMMA LogInvariant == Spec => []LogInv
  BY InitLog, NextLog, PTL DEF Spec

\* Whoever replays a run's log finds the alarm that is active, at any moment and after any
\* commands, ticks, pauses and recoveries.
THEOREM AlarmsCorrect == Spec => []AlarmsMatchLog
<1>1. LogInv => AlarmsMatchLog
  BY DEF LogInv
<1> QED
  BY <1>1, LogInvariant, PTL

\* Filtering the log for the present tick's stamp stores each event once and in order, as
\* long as the ticker lives.
THEOREM StoredCorrect == Spec => []StoredMatchesLog
<1>1. LogInv => StoredMatchesLog
  BY DEF LogInv
<1> QED
  BY <1>1, LogInvariant, PTL

=============================================================================
