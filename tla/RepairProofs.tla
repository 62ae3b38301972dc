---------------------------- MODULE RepairProofs ----------------------------
(* Proofs about repair sessions, for every number of sessions, steps and   *)
(* queries, over every line MesLine can be.                                *)
EXTENDS RepairSession, MesLineProofs, SequenceTheorems

IsRow(x) ==
  x = [phase |-> x.phase, before |-> x.before, steps |-> x.steps, verdict |-> x.verdict,
       judged |-> x.judged]

\* A judgement covers the steps of a session, and a saved session has one.
Covered(x) ==
  /\ x.verdict # "none" => x.judged = x.steps
  /\ x.phase = "saved" => x.verdict # "none"

VerdictInv ==
  /\ session = [s \in Sessions |-> session[s]]
  /\ \A s \in Sessions : IsRow(session[s]) /\ Covered(session[s])

-----------------------------------------------------------------------------
(* What the handlers write into a session.                                 *)

LEMMA OpenedRow ==
  ASSUME NEW before
  PROVE  /\ IsRow(Opened(before)) /\ Covered(Opened(before))
         /\ Opened(before).verdict = "none" /\ Opened(before).before = before
         /\ Opened(before).steps = <<>>
<1>1. PICK x : x = Opened(before)
  OBVIOUS
<1>2. x = [NoSession EXCEPT !.phase = "open", !.before = before]
  BY <1>1 DEF Opened
<1>3. IsRow(x) /\ x.phase = "open" /\ x.verdict = "none" /\ x.before = before /\ x.steps = <<>>
  BY <1>2 DEF NoSession, IsRow
<1> QED
  BY <1>1, <1>3 DEF Covered

LEMMA WithStepsRow ==
  ASSUME NEW s, IsRow(session[s]), session[s].phase = "open", NEW steps
  PROVE  /\ IsRow(WithSteps(s, steps)) /\ Covered(WithSteps(s, steps))
         /\ WithSteps(s, steps).verdict = "none"
         /\ WithSteps(s, steps).phase = "open" /\ WithSteps(s, steps).steps = steps
<1>1. PICK x : x = WithSteps(s, steps)
  OBVIOUS
<1>2. x = [session[s] EXCEPT !.steps = steps, !.verdict = "none", !.judged = <<>>]
  BY <1>1 DEF WithSteps
<1>3. IsRow(x) /\ x.phase = "open" /\ x.verdict = "none" /\ x.steps = steps
  BY <1>2 DEF IsRow
<1> QED
  BY <1>1, <1>3 DEF Covered

LEMMA VerdictIsOne == ASSUME NEW before PROVE Verdict(before) # "none"
  BY DEF Verdict

LEMMA JudgedRow ==
  ASSUME NEW s, IsRow(session[s])
  PROVE  /\ IsRow(Judged(s)) /\ Judged(s).verdict # "none"
         /\ Judged(s).verdict = Verdict(session[s].before)
         /\ Judged(s).judged = Judged(s).steps
         /\ Judged(s).steps = session[s].steps /\ Judged(s).phase = session[s].phase
<1>1. PICK x : x = Judged(s)
  OBVIOUS
<1>2. PICK v : v = Verdict(session[s].before)
  OBVIOUS
<1>3. x = [session[s] EXCEPT !.verdict = v, !.judged = session[s].steps]
  BY <1>1, <1>2 DEF Judged
<1>4. /\ IsRow(x) /\ x.verdict = v /\ x.judged = session[s].steps /\ x.steps = session[s].steps
      /\ x.phase = session[s].phase
  BY <1>3 DEF IsRow
<1> QED
  BY <1>1, <1>2, <1>4, VerdictIsOne

\* The row a step writes: everything but a judgement leaves no verdict "recovered" behind.
Writes(s, x) == session' = [session EXCEPT ![s] = x]

LEMMA Written ==
  ASSUME VerdictInv, NEW s \in Sessions, NEW x, IsRow(x), Covered(x), Writes(s, x)
  PROVE  VerdictInv'
  BY DEF VerdictInv, Writes

\* Every handler of a session writes one of these rows.
LEMMA SessionStep ==
  ASSUME VerdictInv, [SessionNext]_allVars
  PROVE  \/ session' = session
         \/ \E s \in Sessions : \E x :
              /\ Writes(s, x) /\ IsRow(x) /\ Covered(x)
              /\ \/ x.verdict = "none"
                 \/ x.verdict = session[s].verdict
                 \/ x.verdict = Verdict(session[s].before)
<1> USE DEF VerdictInv
<1>1. CASE UNCHANGED allVars \/ LineStep \/ ServerRestart \/ Answer \/ Refuse
           \/ \E e \in Equipment : Ask(e)
  BY <1>1 DEF allVars, repairSessionVars, LineStep, ServerRestart, Answer, Refuse, Ask
<1>2. ASSUME NEW s \in Sessions, NEW e \in Equipment, OpenFromAnswer(s, e) \/ OpenNow(s, e)
      PROVE  \E x : Writes(s, x) /\ IsRow(x) /\ Covered(x) /\ x.verdict = "none"
  <2>1. PICK before : Writes(s, Opened(before))
    <3>1. CASE OpenNow(s, e)
      BY <3>1 DEF OpenNow, Writes
    <3>2. CASE OpenFromAnswer(s, e) /\ \E x \in evidence : SameKey(x, answer)
      BY <3>2 DEF OpenFromAnswer, Writes
    <3>3. CASE OpenFromAnswer(s, e) /\ ~\E x \in evidence : SameKey(x, answer)
      BY <3>3 DEF OpenFromAnswer, Writes
    <3> QED
      BY <1>2, <3>1, <3>2, <3>3
  <2> QED
    BY <2>1, OpenedRow
<1>3. ASSUME NEW s \in Sessions,
             \/ RecordAction(s) \/ RecordConfirmation(s) \/ RecordRestart(s) \/ RemoveAll(s)
             \/ \E n \in 1..MaxSteps : Remove(s, n)
      PROVE  \E x : Writes(s, x) /\ IsRow(x) /\ Covered(x) /\ x.verdict = "none"
  <2>1. PICK steps : Writes(s, WithSteps(s, steps)) /\ session[s].phase = "open"
    BY <1>3 DEF RecordAction, RecordConfirmation, RecordRestart, RemoveAll, Remove, Record, Writes
  <2> QED
    BY <2>1, WithStepsRow
<1>4. ASSUME NEW s \in Sessions, FinishSession(s)
      PROVE  \E x : Writes(s, x) /\ IsRow(x) /\ Covered(x) /\ x.verdict = Verdict(session[s].before)
  <2>1. Writes(s, Judged(s)) /\ IsRow(session[s])
    BY <1>4 DEF FinishSession, Writes
  <2> QED
    BY <2>1, JudgedRow DEF Covered
<1>5. ASSUME NEW s \in Sessions, SaveHandover(s)
      PROVE  \E x : /\ Writes(s, x) /\ IsRow(x) /\ Covered(x)
                    /\ x.verdict \in {session[s].verdict, Verdict(session[s].before)}
  <2>1. IsRow(session[s]) /\ Covered(session[s])
    OBVIOUS
  <2>2. PICK y : y = IF session[s].verdict = "none" THEN Judged(s) ELSE session[s]
    OBVIOUS
  <2>3. /\ IsRow(y) /\ y.verdict # "none" /\ y.judged = y.steps
        /\ y.verdict \in {session[s].verdict, Verdict(session[s].before)}
    BY <2>1, <2>2, JudgedRow DEF Covered
  <2>4. PICK x : x = [y EXCEPT !.phase = "saved"]
    OBVIOUS
  <2>5. IsRow(x) /\ x.verdict = y.verdict /\ x.judged = y.judged /\ x.steps = y.steps
    BY <2>3, <2>4 DEF IsRow
  <2>6. Writes(s, x)
    BY <1>5, <2>2, <2>4 DEF SaveHandover, Writes
  <2> QED
    BY <2>3, <2>5, <2>6 DEF Covered
<1> QED
  BY <1>1, <1>2, <1>3, <1>4, <1>5 DEF SessionNext

LEMMA VerdictNextInv == VerdictInv /\ [SessionNext]_allVars => VerdictInv'
<1> SUFFICES ASSUME VerdictInv, [SessionNext]_allVars PROVE VerdictInv'
  OBVIOUS
<1>1. CASE session' = session
  BY <1>1 DEF VerdictInv
<1> QED
  BY <1>1, SessionStep, Written

LEMMA VerdictInitInv == SessionInit => VerdictInv
<1>1. IsRow(NoSession) /\ Covered(NoSession)
  BY DEF NoSession, IsRow, Covered
<1> QED
  BY <1>1 DEF SessionInit, VerdictInv

\* A judgement, also the one filed with the handover, covers every step on record.
THEOREM VerdictCorrect == SessionSpec => []VerdictCoversSteps
<1>1. VerdictInv => VerdictCoversSteps
  BY DEF VerdictInv, Covered, VerdictCoversSteps
<1> QED
  BY <1>1, VerdictInitInv, VerdictNextInv, PTL DEF SessionSpec

-----------------------------------------------------------------------------
(* What "recovered" means, on a line that nobody pauses.                   *)

\* Until something is logged there is no alarm; from then on the alarm shown is that of
\* the scenario in force.
AlarmInForce ==
  \/ running = TRUE /\ alarm = AlarmNow(TRUE, scenario, ticks)
  \/ alarm = NoAlarm /\ events = <<>> /\ pending = <<>>

LEMMA FreshAlarm == Fresh => AlarmInForce'
  BY DEF Fresh, AlarmInForce

\* A command that looks at the equipment again.
LEMMA RefreshAlarm ==
  ASSUME AlarmInForce, NEW s, NEW left, Refresh(s, left), running \in BOOLEAN, running' = running,
         scenario' = s, ticks' = left
  PROVE  AlarmInForce'
<1>1. CASE running = TRUE
  BY <1>1 DEF Refresh, AlarmInForce
<1>2. CASE running = FALSE
  <2>1. alarm = NoAlarm /\ events = <<>> /\ pending = <<>>
    BY <1>2 DEF AlarmInForce
  <2>2. alarm' = NoAlarm
    BY <1>2 DEF Refresh, AlarmNow, LineMode
  <2>3. Changes(alarm, alarm') = <<>>
    BY <2>1, <2>2 DEF Changes
  <2>4. pending' = <<>> \o <<>> /\ events' = <<>>
    BY <2>1, <2>3 DEF Refresh
  <2>5. pending' = <<>>
    BY <2>4
  <2> QED
    BY <2>2, <2>4, <2>5 DEF AlarmInForce
<1> QED
  BY <1>1, <1>2

AlarmInv == AlarmInForce /\ running \in BOOLEAN

LEMMA AdvanceAlarm ==
  ASSUME Advance, running \in BOOLEAN
  PROVE  AlarmInv'
<1>1. running = TRUE /\ running' = running /\ alarm' = AlarmNow(TRUE, scenario', ticks')
  BY DEF Advance
<1> QED
  BY <1>1 DEF AlarmInv, AlarmInForce

LEMMA LineKeepsAlarm ==
  ASSUME Pausing = FALSE, AlarmInv, [Next]_vars
  PROVE  AlarmInv'
<1>0. running \in BOOLEAN /\ AlarmInForce
  BY DEF AlarmInv
<1>1. CASE Start
  <2>1. running = FALSE /\ running' = TRUE /\ UNCHANGED <<alarm, events, pending>>
    BY <1>0, <1>1 DEF Start
  <2> QED
    BY <1>0, <2>1 DEF AlarmInv, AlarmInForce
<1>2. CASE Pause
  BY <1>2 DEF Pause
<1>3. ASSUME NEW s \in Scenarios, SetScenario(s) PROVE AlarmInv'
  BY <1>0, <1>3, RefreshAlarm DEF SetScenario, AlarmInv
<1>4. CASE PerformAction
  <2>1. ticks = 0 /\ UNCHANGED <<running, scenario, ticks>>
    BY <1>4 DEF PerformAction
  <2>2. CASE UNCHANGED <<alarm, events, pending>>
    BY <1>0, <2>1, <2>2 DEF AlarmInv, AlarmInForce
  <2>3. CASE Refresh(scenario, 0)
    BY <1>0, <2>1, <2>3, RefreshAlarm DEF AlarmInv
  <2> QED
    BY <1>4, <2>2, <2>3 DEF PerformAction
<1>5. CASE Recover
  <2>1. UNCHANGED <<running, scenario>>
    BY <1>5 DEF Recover
  <2>2. CASE UNCHANGED <<ticks, alarm, events, pending>>
    BY <1>0, <2>1, <2>2 DEF AlarmInv, AlarmInForce
  <2>3. CASE ticks' = RecoveryTicks /\ Refresh(scenario, RecoveryTicks)
    BY <1>0, <2>1, <2>3, RefreshAlarm DEF AlarmInv
  <2> QED
    BY <1>5, <2>2, <2>3 DEF Recover
<1>6. CASE Tick \/ TickNotSaved
  BY <1>0, <1>6, AdvanceAlarm DEF Tick, TickNotSaved
<1>7. CASE Reset \/ ApplyConfig \/ Restart
  <2>1. Fresh
    BY <1>7 DEF Reset, ApplyConfig, Restart
  <2>2. running' = FALSE
    BY <2>1 DEF Fresh
  <2> QED
    BY <2>1, <2>2, FreshAlarm DEF AlarmInv
<1>8. CASE UNCHANGED vars
  BY <1>0, <1>8 DEF vars, AlarmInv, AlarmInForce
<1> QED
  BY <1>1, <1>2, <1>3, <1>4, <1>5, <1>6, <1>7, <1>8 DEF Next, Commands

\* A step of a session is one of the line's, or leaves it alone.
LEMMA LineOfSession == [SessionNext]_allVars => [Next]_vars
<1> SUFFICES ASSUME [SessionNext]_allVars PROVE [Next]_vars
  OBVIOUS
<1>1. CASE LineStep \/ ServerRestart
  BY <1>1 DEF LineStep, ServerRestart, Next
<1>2. ASSUME NEW s \in Sessions,
             \/ RecordAction(s) \/ RecordConfirmation(s) \/ RecordRestart(s)
      PROVE  [Next]_vars
  BY <1>2 DEF RecordAction, RecordConfirmation, RecordRestart, Next, Commands
<1>3. CASE UNCHANGED vars
  BY <1>3
<1> QED
  BY <1>1, <1>2, <1>3
  DEF SessionNext, allVars, Answer, Refuse, Ask, OpenFromAnswer, OpenNow, Remove, RemoveAll,
      FinishSession, SaveHandover

\* No alarming fault is in force where the line is judged recovered.
LEMMA RecoveredIsRecovered ==
  ASSUME AlarmInv, NEW before, Verdict(before) = "recovered"
  PROVE  ~FaultInForce(before.eq)
<1> SUFFICES ASSUME FaultInForce(before.eq) PROVE FALSE
  OBVIOUS
<1>1. /\ scenario \in Faults /\ Cause[scenario] = before.eq /\ Code[scenario] # NoCode
      /\ ticks = 0
  BY DEF FaultInForce
<1>2. RecoveryEvent(before) /\ alarm.eq # before.eq
  BY DEF Verdict
<1>3. CASE running = TRUE /\ alarm = AlarmNow(TRUE, scenario, ticks)
  <2>1. scenario \notin Holding
    BY <1>1, LineAssumption
  <2>2. LineMode(TRUE, scenario, ticks) = "fault"
    BY <1>1, <2>1 DEF LineMode
  <2>3. alarm = [eq |-> Cause[scenario], code |-> Code[scenario]]
    BY <1>3, <2>2 DEF AlarmNow
  <2> QED
    BY <1>1, <1>2, <2>3
<1>4. CASE alarm = NoAlarm /\ events = <<>> /\ pending = <<>>
  <2>1. DOMAIN events = {} /\ DOMAIN pending = {}
    BY <1>4
  <2> QED
    BY <1>2, <2>1 DEF RecoveryEvent
<1> QED
  BY <1>3, <1>4 DEF AlarmInv, AlarmInForce

\* On a line nobody pauses, "MES recovered" is not said while the fault is in force.
THEOREM RecoveredCorrect ==
  ASSUME Pausing = FALSE
  PROVE  SessionSpec => RecoveredMeansRecovered
<1>1. SessionInit => AlarmInv
  BY DEF SessionInit, Init, AlarmInv, AlarmInForce
<1>2. AlarmInv /\ [SessionNext]_allVars => AlarmInv'
  BY LineOfSession, LineKeepsAlarm
<1>3. ASSUME AlarmInv, VerdictInv, [SessionNext]_allVars, NEW s \in Sessions,
             session'[s].verdict = "recovered", session[s].verdict # "recovered"
      PROVE  ~FaultInForce(EquipmentOf(s))
  <2>0. PICK p \in Sessions : \E x :
          /\ Writes(p, x)
          /\ \/ x.verdict = "none"
             \/ x.verdict = session[p].verdict
             \/ x.verdict = Verdict(session[p].before)
    BY <1>3, SessionStep
  <2>1. PICK x :
          /\ Writes(p, x)
          /\ \/ x.verdict = "none"
             \/ x.verdict = session[p].verdict
             \/ x.verdict = Verdict(session[p].before)
    BY <2>0
  <2>2. p = s
    BY <1>3, <2>1 DEF VerdictInv, Writes
  <2>3. session'[s] = x
    BY <1>3, <2>1, <2>2 DEF VerdictInv, Writes
  <2>4. Verdict(session[s].before) = "recovered"
    BY <1>3, <2>1, <2>2, <2>3
  <2> QED
    BY <1>3, <2>4, RecoveredIsRecovered DEF EquipmentOf
<1>4. AlarmInv /\ VerdictInv /\ [SessionNext]_allVars =>
        [\A s \in Sessions :
           session'[s].verdict = "recovered" /\ session[s].verdict # "recovered" =>
             ~FaultInForce(EquipmentOf(s))]_allVars
  BY <1>3
<1> QED
  BY <1>1, <1>2, <1>4, VerdictInitInv, VerdictNextInv, PTL DEF SessionSpec, RecoveredMeansRecovered

-----------------------------------------------------------------------------
(* What a session keeps of what it has done to the line.                   *)

\* Steps that drove the line, of a session that has or has not changed it.
OnRecord(x, changed) ==
  /\ x.steps \in Seq(BOOLEAN) /\ changed \in BOOLEAN
  /\ changed => x.phase # "none" /\ \E n \in DOMAIN x.steps : x.steps[n]

RecordInv ==
  /\ VerdictInv
  /\ touched = [s \in Sessions |-> touched[s]]
  /\ \A s \in Sessions : OnRecord(session[s], touched[s])

LEMMA LinkedStays ==
  ASSUME NEW steps \in Seq(BOOLEAN), NEW linked \in BOOLEAN
  PROVE  /\ Append(steps, linked) \in Seq(BOOLEAN)
         /\ linked => \E n \in DOMAIN Append(steps, linked) : Append(steps, linked)[n]
         /\ (\E n \in DOMAIN steps : steps[n]) =>
              \E n \in DOMAIN Append(steps, linked) : Append(steps, linked)[n]
<1>1. PICK longer : longer = Append(steps, linked)
  OBVIOUS
<1>2. /\ longer \in Seq(BOOLEAN) /\ Len(longer) = Len(steps) + 1 /\ Len(steps) \in Nat
      /\ longer[Len(steps) + 1] = linked /\ DOMAIN longer = 1..(Len(steps) + 1)
      /\ \A n \in 1..Len(steps) : longer[n] = steps[n]
  BY <1>1
<1>3. Len(steps) + 1 \in DOMAIN longer /\ \A n \in DOMAIN steps : n \in DOMAIN longer /\ longer[n] = steps[n]
  BY <1>2
<1> QED
  BY <1>1, <1>2, <1>3

\* One step, and it drove nothing, is taken out.
LEMMA OtherStepsStay ==
  ASSUME NEW steps \in Seq(BOOLEAN), NEW m \in DOMAIN steps
  PROVE  LET rest == SubSeq(steps, 1, m - 1) \o SubSeq(steps, m + 1, Len(steps))
         IN  /\ rest \in Seq(BOOLEAN)
             /\ \A n \in DOMAIN steps \ {m} : \E k \in DOMAIN rest : rest[k] = steps[n]
<1>1. PICK before, after : before = SubSeq(steps, 1, m - 1) /\ after = SubSeq(steps, m + 1, Len(steps))
  OBVIOUS
<1>2. m \in 1..Len(steps) /\ Len(steps) \in Nat /\ \A n \in 1..Len(steps) : steps[n] \in BOOLEAN
  OBVIOUS
<1>3. /\ before \in Seq(BOOLEAN) /\ Len(before) = m - 1
      /\ \A n \in 1..(m - 1) : before[n] = steps[n]
  BY <1>1, <1>2
<1>4. /\ after \in Seq(BOOLEAN) /\ Len(after) = Len(steps) - m
      /\ \A n \in 1..(Len(steps) - m) : after[n] = steps[m + n]
  BY <1>1, <1>2
<1>5. PICK rest : rest = before \o after
  OBVIOUS
<1>6. /\ rest \in Seq(BOOLEAN) /\ Len(rest) = Len(steps) - 1
      /\ \A n \in 1..(Len(steps) - 1) : rest[n] = IF n <= m - 1 THEN before[n] ELSE after[n - (m - 1)]
  <2>1. /\ rest \in Seq(BOOLEAN) /\ Len(rest) = Len(before) + Len(after)
        /\ \A n \in 1..(Len(before) + Len(after)) :
             rest[n] = IF n <= Len(before) THEN before[n] ELSE after[n - Len(before)]
    BY <1>3, <1>4, <1>5, ConcatProperties
  <2>2. Len(before) + Len(after) = Len(steps) - 1
    BY <1>2, <1>3, <1>4
  <2> QED
    BY <1>3, <2>1, <2>2
<1>7. ASSUME NEW n \in DOMAIN steps \ {m} PROVE \E k \in DOMAIN rest : rest[k] = steps[n]
  <2>1. CASE n < m
    <3>1. n \in 1..(Len(steps) - 1) /\ n <= m - 1 /\ n \in 1..(m - 1)
      BY <1>2, <2>1
    <3>2. rest[n] = steps[n] /\ n \in DOMAIN rest
      BY <1>3, <1>6, <3>1
    <3> QED
      BY <3>2
  <2>2. CASE ~(n < m)
    <3>1. /\ n - 1 \in 1..(Len(steps) - 1) /\ ~(n - 1 <= m - 1) /\ n - m \in 1..(Len(steps) - m)
          /\ (n - 1) - (m - 1) = n - m /\ m + (n - m) = n
      BY <1>2, <2>2
    <3>2. rest[n - 1] = steps[n] /\ n - 1 \in DOMAIN rest
      BY <1>4, <1>6, <3>1
    <3> QED
      BY <3>2
  <2> QED
    BY <2>1, <2>2
<1> QED
  BY <1>1, <1>5, <1>6, <1>7

\* What is written into one session and, at most, into its history.
LEMMA RecordKept ==
  ASSUME RecordInv, VerdictInv', NEW s \in Sessions, NEW x, Writes(s, x),
         NEW changed, touched' = [touched EXCEPT ![s] = changed], OnRecord(x, changed)
  PROVE  RecordInv'
  BY DEF RecordInv, VerdictInv, Writes

LEMMA SameHistory ==
  ASSUME RecordInv, NEW s \in Sessions, touched' = touched
  PROVE  touched' = [touched EXCEPT ![s] = touched[s]]
  BY DEF RecordInv

LEMMA RecordNextInv == RecordInv /\ [SessionNext]_allVars => RecordInv'
<1> SUFFICES ASSUME RecordInv, [SessionNext]_allVars PROVE RecordInv'
  OBVIOUS
<1>0. /\ VerdictInv' /\ VerdictInv /\ touched = [s \in Sessions |-> touched[s]]
      /\ \A s \in Sessions : IsRow(session[s]) /\ OnRecord(session[s], touched[s])
  BY VerdictNextInv DEF RecordInv, VerdictInv
<1>1. CASE UNCHANGED allVars \/ LineStep \/ ServerRestart \/ Answer \/ Refuse
           \/ \E e \in Equipment : Ask(e)
  <2>1. session' = session /\ touched' = touched
    BY <1>1 DEF allVars, repairSessionVars, LineStep, ServerRestart, Answer, Refuse, Ask
  <2> QED
    BY <1>0, <2>1 DEF RecordInv
<1>2. ASSUME NEW s \in Sessions, NEW e \in Equipment, OpenFromAnswer(s, e) \/ OpenNow(s, e)
      PROVE  RecordInv'
  <2>1. PICK before : Writes(s, Opened(before))
    <3>1. CASE OpenNow(s, e)
      BY <3>1 DEF OpenNow, Writes
    <3>2. CASE OpenFromAnswer(s, e) /\ \E x \in evidence : SameKey(x, answer)
      BY <3>2 DEF OpenFromAnswer, Writes
    <3>3. CASE OpenFromAnswer(s, e) /\ ~\E x \in evidence : SameKey(x, answer)
      BY <3>3 DEF OpenFromAnswer, Writes
    <3> QED
      BY <1>2, <3>1, <3>2, <3>3
  <2>2. session[s].phase = "none" /\ touched' = touched
    BY <1>2 DEF OpenNow, OpenFromAnswer
  <2>3. touched[s] = FALSE
    BY <1>0, <2>2 DEF OnRecord
  <2>4. OnRecord(Opened(before), touched[s])
    <3>1. Opened(before).steps = <<>> /\ <<>> \in Seq(BOOLEAN)
      BY OpenedRow
    <3>2. Opened(before).steps \in Seq(BOOLEAN)
      BY <3>1
    <3> QED
      BY <2>3, <3>2 DEF OnRecord
  <2> QED
    BY <1>0, <2>1, <2>2, <2>4, SameHistory, RecordKept
<1>3. ASSUME NEW s \in Sessions, NEW linked \in BOOLEAN, Record(s, linked),
             NEW changed \in BOOLEAN, touched' = [touched EXCEPT ![s] = changed],
             changed => linked \/ touched[s]
      PROVE  RecordInv'
  <2>1. /\ session[s].phase = "open" /\ IsRow(session[s])
        /\ Writes(s, WithSteps(s, Append(session[s].steps, linked)))
    BY <1>0, <1>3 DEF Record, Writes
  <2>2. PICK steps : steps = Append(session[s].steps, linked)
    OBVIOUS
  <2>3. steps \in Seq(BOOLEAN) /\ (changed => \E n \in DOMAIN steps : steps[n])
    BY <1>0, <1>3, <2>2, LinkedStays DEF OnRecord
  <2>4. OnRecord(WithSteps(s, steps), changed)
    <3>1. WithSteps(s, steps).phase = "open" /\ WithSteps(s, steps).steps = steps
      BY <2>1, WithStepsRow
    <3> QED
      BY <1>3, <2>3, <3>1 DEF OnRecord
  <2> QED
    BY <1>0, <1>3, <2>1, <2>2, <2>4, RecordKept
<1>4. ASSUME NEW s \in Sessions, RecordAction(s) PROVE RecordInv'
  <2>1. Record(s, FALSE) /\ touched' = touched /\ touched[s] \in BOOLEAN
    BY <1>0, <1>4 DEF RecordAction, OnRecord
  <2> QED
    BY <1>3, <2>1, SameHistory
<1>5. ASSUME NEW s \in Sessions, RecordConfirmation(s) PROVE RecordInv'
  <2>1. Record(s, TRUE) /\ touched' = [touched EXCEPT ![s] = TRUE]
    BY <1>5 DEF RecordConfirmation
  <2> QED
    BY <1>3, <2>1
<1>6. ASSUME NEW s \in Sessions, RecordRestart(s) PROVE RecordInv'
  <2>1. Record(s, TRUE) /\ touched[s] \in BOOLEAN
    BY <1>0, <1>6 DEF RecordRestart, OnRecord
  <2>2. CASE touched' = [touched EXCEPT ![s] = @ \/ ticks = 0]
    <3>1. (touched[s] \/ ticks = 0) \in BOOLEAN
      OBVIOUS
    <3>2. PICK changed : changed = (touched[s] \/ ticks = 0)
      OBVIOUS
    <3>3. touched' = [touched EXCEPT ![s] = changed] /\ changed \in BOOLEAN
      BY <2>2, <3>1, <3>2
    <3> QED
      BY <1>3, <2>1, <3>3
  <2>3. CASE touched' = touched
    BY <1>3, <2>1, <2>3, SameHistory
  <2> QED
    BY <1>6, <2>2, <2>3 DEF RecordRestart
<1>7. ASSUME NEW s \in Sessions, NEW steps, session[s].phase = "open", touched' = touched,
             Writes(s, WithSteps(s, steps)), steps \in Seq(BOOLEAN),
             (\E n \in DOMAIN session[s].steps : session[s].steps[n]) => \E n \in DOMAIN steps : steps[n]
      PROVE  RecordInv'
  <2>1. WithSteps(s, steps).phase = "open" /\ WithSteps(s, steps).steps = steps
    BY <1>0, <1>7, WithStepsRow
  <2>2. OnRecord(WithSteps(s, steps), touched[s])
    BY <1>0, <1>7, <2>1 DEF OnRecord
  <2> QED
    BY <1>0, <1>7, <2>2, SameHistory, RecordKept
<1>8. ASSUME NEW s \in Sessions, NEW m \in 1..MaxSteps, Remove(s, m) PROVE RecordInv'
  <2> DEFINE old == session[s].steps
             rest == SubSeq(old, 1, m - 1) \o SubSeq(old, m + 1, Len(old))
  <2>1. /\ session[s].phase = "open" /\ touched' = touched /\ Writes(s, WithSteps(s, rest))
        /\ m \in DOMAIN old /\ ~old[m]
    BY <1>8 DEF Remove, Removable, Writes
  <2>2. old \in Seq(BOOLEAN)
    BY <1>0 DEF OnRecord
  <2>3. /\ rest \in Seq(BOOLEAN)
        /\ \A n \in DOMAIN old \ {m} : \E k \in DOMAIN rest : rest[k] = old[n]
    BY <2>1, <2>2, OtherStepsStay
  <2>4. (\E n \in DOMAIN old : old[n]) => \E k \in DOMAIN rest : rest[k]
    <3> HIDE DEF old, rest
    <3> QED
      BY <2>1, <2>3
  <2> QED
    BY <1>7, <2>1, <2>3, <2>4
<1>9. ASSUME NEW s \in Sessions, RemoveAll(s) PROVE RecordInv'
  <2> DEFINE old == session[s].steps
             linked == {n \in DOMAIN old : ~Removable(old[n])}
             rest == Selected(old, linked)
  <2>1. session[s].phase = "open" /\ touched' = touched /\ Writes(s, WithSteps(s, rest))
    BY <1>9 DEF RemoveAll, Writes
  <2>2. old \in Seq(BOOLEAN) /\ linked \in SUBSET DOMAIN old
    BY <1>0 DEF OnRecord
  <2>3. /\ rest \in Seq(BOOLEAN)
        /\ \A k \in DOMAIN rest : Nth(linked, k) \in linked /\ rest[k] = old[Nth(linked, k)]
        /\ \A n \in linked : \E k \in DOMAIN rest : Nth(linked, k) = n
    <3> HIDE DEF old, linked
    <3> QED
      BY <2>2, SelectedElements
  <2>4. \A n \in DOMAIN old : old[n] => n \in linked
    BY DEF Removable
  <2>5. (\E n \in DOMAIN old : old[n]) => \E k \in DOMAIN rest : rest[k]
    <3> HIDE DEF old, rest, linked
    <3> QED
      BY <2>3, <2>4
  <2> QED
    BY <1>7, <2>1, <2>3, <2>5
<1>10. ASSUME NEW s \in Sessions, FinishSession(s) \/ SaveHandover(s) PROVE RecordInv'
  <2>1. session[s].phase = "open" /\ touched' = touched /\ IsRow(session[s])
    BY <1>0, <1>10 DEF FinishSession, SaveHandover
  <2>2. PICK y : y = IF FinishSession(s) \/ session[s].verdict = "none" THEN Judged(s) ELSE session[s]
    OBVIOUS
  <2>3. IsRow(y) /\ y.steps = session[s].steps /\ y.phase = "open"
    BY <2>1, <2>2, JudgedRow
  <2>4. PICK x : x \in {y, [y EXCEPT !.phase = "saved"]} /\ Writes(s, x)
    BY <1>10, <2>2 DEF FinishSession, SaveHandover, Writes
  <2>5. x.steps = session[s].steps /\ x.phase # "none"
    BY <2>3, <2>4 DEF IsRow
  <2>6. OnRecord(x, touched[s])
    BY <1>0, <2>5 DEF OnRecord
  <2> QED
    BY <1>0, <2>1, <2>4, <2>6, SameHistory, RecordKept
<1> QED
  BY <1>1, <1>2, <1>4, <1>5, <1>6, <1>8, <1>9, <1>10 DEF SessionNext

\* Whatever is removed from a session, one at a time or all at once, a step that drove the
\* line is among those that stay.
THEOREM RecordCorrect == SessionSpec => []LineChangesStayOnRecord
<1>1. SessionInit => RecordInv
  <2> SUFFICES ASSUME SessionInit PROVE RecordInv
    OBVIOUS
  <2>1. \A s \in Sessions : session[s] = NoSession /\ touched[s] = FALSE
    BY DEF SessionInit
  <2>2. NoSession.steps \in Seq(BOOLEAN)
    BY DEF NoSession
  <2>3. \A s \in Sessions : OnRecord(session[s], touched[s])
    BY <2>1, <2>2 DEF OnRecord
  <2>4. touched = [s \in Sessions |-> touched[s]]
    BY DEF SessionInit
  <2> QED
    BY <2>3, <2>4, VerdictInitInv DEF RecordInv
<1>2. RecordInv => LineChangesStayOnRecord
  BY DEF RecordInv, OnRecord, LineChangesStayOnRecord
<1> QED
  BY <1>1, <1>2, RecordNextInv, PTL DEF SessionSpec

-----------------------------------------------------------------------------
(* Which reading a session starts from.                                    *)

\* A reading of the answer's moment is in the database as soon as the PDA has the answer.
AnswerInv ==
  /\ ask.eq # "none" \/ ask = NoReading
  /\ answer = NoReading \/ \E x \in evidence : SameKey(x, answer)
  /\ session = [s \in Sessions |-> session[s]]

LEMMA AnswerNextInv == AnswerInv /\ [SessionNext]_allVars => AnswerInv'
<1> SUFFICES ASSUME AnswerInv, [SessionNext]_allVars PROVE AnswerInv'
  OBVIOUS
<1>1. CASE Answer
  <2>1. /\ evidence' = (IF \E x \in evidence : SameKey(x, ask) THEN evidence ELSE evidence \cup {ask})
        /\ answer' = ask /\ ask' = NoReading /\ session' = session
    BY <1>1 DEF Answer
  <2>2. SameKey(ask, ask)
    BY DEF SameKey
  <2>3. \E x \in evidence' : SameKey(x, answer')
    BY <2>1, <2>2
  <2> QED
    BY <2>1, <2>3 DEF AnswerInv, SameKey
<1>2. ASSUME NEW e \in Equipment, Ask(e) PROVE AnswerInv'
  <2>1. ask' = Reading(e) /\ UNCHANGED <<evidence, answer, session>>
    BY <1>2 DEF Ask
  <2>2. Reading(e).eq = e
    BY DEF Reading
  <2> QED
    BY <2>1, <2>2, LineAssumption DEF AnswerInv, SameKey
<1>3. CASE /\ evidence' = evidence /\ answer' = answer /\ ask' \in {ask, NoReading}
           /\ session' = session \/ \E s \in Sessions : \E x : session' = [session EXCEPT ![s] = x]
  BY <1>3 DEF AnswerInv, SameKey
<1>4. CASE LineStep \/ ServerRestart \/ Refuse \/ UNCHANGED allVars
  BY <1>3, <1>4 DEF LineStep, ServerRestart, Refuse, allVars, repairSessionVars
<1>5. ASSUME NEW s \in Sessions, NEW e \in Equipment, OpenFromAnswer(s, e) \/ OpenNow(s, e)
      PROVE  AnswerInv'
  BY <1>3, <1>5 DEF OpenFromAnswer, OpenNow
<1>6. ASSUME NEW s \in Sessions,
             \/ RecordAction(s) \/ RecordConfirmation(s) \/ RecordRestart(s)
             \/ RemoveAll(s) \/ FinishSession(s) \/ SaveHandover(s)
             \/ \E n \in 1..MaxSteps : Remove(s, n)
      PROVE  AnswerInv'
  BY <1>3, <1>6 DEF RecordAction, RecordConfirmation, RecordRestart, Record, RemoveAll,
                    FinishSession, SaveHandover, Remove
<1> QED
  BY <1>1, <1>2, <1>4, <1>5, <1>6 DEF SessionNext

\* A session that starts from an answer is judged by a reading of that very machine in that very
\* second of that very run, however late it is opened: the first one stored, which is how far
\* finding 3 goes (server.py: resolution_start; query_evidence).
THEOREM JudgedAtItsMoment ==
  SessionSpec => [][\A s \in Sessions, e \in Equipment :
                      OpenFromAnswer(s, e) => /\ session'[s].before \in evidence
                                              /\ SameKey(session'[s].before, answer)]_allVars
<1>1. SessionInit => AnswerInv
  BY DEF SessionInit, AnswerInv
<1>2. ASSUME AnswerInv, NEW s \in Sessions, NEW e \in Equipment, OpenFromAnswer(s, e)
      PROVE  session'[s].before \in evidence /\ SameKey(session'[s].before, answer)
  <2>1. answer # NoReading
    BY <1>2, LineAssumption DEF OpenFromAnswer, NoReading
  <2>2. \E x \in evidence : SameKey(x, answer)
    BY <1>2, <2>1 DEF AnswerInv
  <2>3. PICK y : y = CHOOSE x \in evidence : SameKey(x, answer)
    OBVIOUS
  <2>4. y \in evidence /\ SameKey(y, answer)
    BY <2>2, <2>3
  <2>5. session'[s] = Opened(y)
    BY <1>2, <2>2, <2>3 DEF OpenFromAnswer, AnswerInv
  <2>6. Opened(y).before = y
    BY DEF Opened, NoSession
  <2> QED
    BY <2>4, <2>5, <2>6
<1>3. AnswerInv => [\A s \in Sessions, e \in Equipment :
                      OpenFromAnswer(s, e) => /\ session'[s].before \in evidence
                                              /\ SameKey(session'[s].before, answer)]_allVars
  BY <1>2
<1> QED
  BY <1>1, <1>3, AnswerNextInv, PTL DEF SessionSpec

-----------------------------------------------------------------------------
(* The line under the sessions.                                            *)

\* Whatever workers record, restart and take back, the line does nothing that operators could
\* not have it do: the sessions implement MesLine, and what holds of it holds under them.
THEOREM LineUnderSessions ==
  SessionSpec => /\ Spec
                 /\ [](AlarmsMatchLog /\ StoredMatchesLog /\ ShownStoppedMeansStopped)
                 /\ AuthoredFaultNeedsRepair /\ HoldsEndWithScenario
<1>1. SessionInit => Init
  BY DEF SessionInit
<1>2. SessionSpec => Spec
  BY <1>1, LineOfSession, PTL DEF SessionSpec, Spec
<1> QED
  BY <1>2, AlarmsCorrect, StoredCorrect, ShownModeCorrect, AuthoredRepair, HoldsCorrect, PTL

=============================================================================
