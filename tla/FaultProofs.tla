----------------------------- MODULE FaultProofs -----------------------------
(* Proofs about the line: the two fault generators and the coils, for      *)
(* every set of machines, every route, every timing and all bounds.        *)
EXTENDS ProgressiveFaults, RandomFaults, CoilFlow, SubsequenceFacts

-----------------------------------------------------------------------------
(* ProgressiveFaults.                                                      *)

ProgressiveTypeOK ==
  /\ working \in BOOLEAN /\ mode \in {"standard", "progressive"}
  /\ fault \in FaultRecords \cup {NoFault}
  /\ plan \in PlanRecords \cup {NoPlan}
  /\ made \in Nat /\ repaired \in Nat
  /\ watched \in 0 .. Confirmations

\* While a repair is being confirmed, what is left and what was healthy add up.
Confirming ==
  Open({"stabilizing"}) => plan.left > 0 /\ watched >= Confirmations - plan.left

ProgressiveInv ==
  ProgressiveTypeOK /\ ModeHidesNothing /\ FaultsEndByRepair /\ Confirming /\ CompletedWasCalm

LEMMA ProgressiveInitInv == ProgressiveInit => ProgressiveInv
<1> SUFFICES ASSUME ProgressiveInit PROVE ProgressiveInv
  OBVIOUS
<1> USE DEF ProgressiveInit
<1>1. Confirmations \in Nat
  BY ProgressiveAssumption
<1>2. watched \in 0 .. Confirmations
  BY <1>1
<1>3. ProgressiveTypeOK
  BY <1>2 DEF ProgressiveTypeOK
<1> QED
  BY <1>3 DEF ProgressiveInv, ModeHidesNothing, FaultsEndByRepair, Confirming, CompletedWasCalm,
              Unfinished, Open

LEMMA PlanFields ==
  ASSUME NEW e \in Machines, NEW s \in {"actions", "ready", "stabilizing", "completed"}, NEW n \in Nat
  PROVE  /\ Plan(e, s, n) \in PlanRecords /\ Plan(e, s, n) # NoPlan
         /\ Plan(e, s, n).machine = e /\ Plan(e, s, n).stage = s /\ Plan(e, s, n).left = n
  BY ProgressiveAssumption DEF Plan, PlanRecords

\* A set of machines that is not empty has a first one.
LEMMA FirstExists ==
  ASSUME NEW out \in SUBSET Machines, out # {}
  PROVE  First(out) \in out
<1>1. out \subseteq Nat
  BY ProgressiveAssumption
<1>2. PICK e \in out : \A d \in out : <<d, e>> \notin OpToRel(<, Nat)
  BY <1>1, WFMin, NatLessThanWellFounded
<1>3. ASSUME NEW d \in out PROVE e <= d
  <2>0. d \in Nat /\ e \in Nat
    BY <1>1
  <2>1. <<d, e>> \notin OpToRel(<, Nat)
    BY <1>2
  <2>2. d < e => <<d, e>> \in OpToRel(<, Nat)
    BY <2>0 DEF OpToRel
  <2>3. ~(d < e)
    BY <2>1, <2>2, Zenon
  <2> QED
    BY <2>0, <2>3
<1> QED
  BY <1>3 DEF First

\* One tick with the next fault f and the machines out of range: what becomes of the plan.
LEMMA ReadablePlan ==
  ASSUME ProgressiveTypeOK, NEW out \in SUBSET Machines, mode = "progressive"
  PROVE  /\ Readable(out) \in PlanRecords \cup {NoPlan}
         /\ Readable(out) # NoPlan /\ Readable(out).stage = "stabilizing" =>
              /\ plan # NoPlan /\ plan.stage = "stabilizing"
              /\ Readable(out).machine = plan.machine
              /\ \/ plan.machine \in out /\ Readable(out).left = Confirmations
                 \/ /\ plan.machine \notin out /\ plan.left > 1
                    /\ Readable(out).left = plan.left - 1
         /\ Readable(out) # NoPlan /\ Readable(out).stage = "completed" =>
              \/ Readable(out) = plan /\ plan # NoPlan /\ plan.stage = "completed"
              \/ /\ plan # NoPlan /\ plan.stage = "stabilizing"
                 /\ plan.machine \notin out /\ plan.left <= 1
<1>0. Confirmations \in Nat /\ Confirmations # 0
  BY ProgressiveAssumption
<1>1. CASE Open({"stabilizing"})
  <2>1. plan \in PlanRecords /\ plan.stage = "stabilizing" /\ plan # NoPlan
    BY <1>1 DEF Open, ProgressiveTypeOK
  <2>2. plan.machine \in Machines /\ plan.left \in Nat
    BY <2>1 DEF PlanRecords
  <2>3. CASE plan.machine \in out
    <3>1. Readable(out) = Plan(plan.machine, "stabilizing", Confirmations)
      BY <1>0, <1>1, <2>3 DEF Readable
    <3>2. /\ Readable(out) \in PlanRecords /\ Readable(out).stage = "stabilizing"
          /\ Readable(out).machine = plan.machine /\ Readable(out).left = Confirmations
      BY <1>0, <2>2, <3>1, PlanFields
    <3> QED
      BY <2>1, <2>3, <3>2
  <2>4. CASE plan.machine \notin out /\ plan.left > 1
    <3>1. Readable(out) = Plan(plan.machine, "stabilizing", plan.left - 1)
      BY <1>1, <2>2, <2>4 DEF Readable
    <3> QED
      BY <2>1, <2>2, <2>4, <3>1, PlanFields
  <2>5. CASE plan.machine \notin out /\ ~(plan.left > 1)
    <3>1. Readable(out) = Plan(plan.machine, "completed", 0)
      BY <1>1, <2>2, <2>5 DEF Readable
    <3> QED
      BY <2>1, <2>2, <2>5, <3>1, PlanFields
  <2> QED
    BY <2>3, <2>4, <2>5
<1>2. CASE ~Open({"stabilizing"}) /\ (Unfinished \/ out = {})
  <2>1. Readable(out) = plan
    BY <1>2 DEF Readable
  <2> QED
    BY <1>2, <2>1 DEF Open, ProgressiveTypeOK
<1>3. CASE ~Open({"stabilizing"}) /\ ~(Unfinished \/ out = {})
  <2>1. Readable(out) = Plan(First(out), "actions", 0)
    BY <1>3 DEF Readable
  <2>2. First(out) \in Machines
    BY <1>3, FirstExists DEF First
  <2> QED
    BY <2>1, <2>2, PlanFields
<1> QED
  BY <1>1, <1>2, <1>3

\* One tick of the progressive mode.
LEMMA TickKeeps ==
  ASSUME ProgressiveInv, TickProgressive
  PROVE  ProgressiveInv'
<1>0. Confirmations \in Nat /\ Confirmations # 0
  BY ProgressiveAssumption
<1>t. ProgressiveTypeOK /\ mode = "progressive" /\ mode' = mode /\ working' = working /\ repaired' = repaired
  BY DEF ProgressiveInv, TickProgressive
<1>1. PICK f \in {NoFault} \cup [machine : Breakable, age : 1..MaxFaultTicks] :
        /\ AdvanceTick(f) /\ fault' = f
        /\ made' = made + (IF fault = NoFault /\ f # NoFault THEN 1 ELSE 0)
        /\ \E out \in OutOfRange(f) :
             /\ plan' = Readable(out)
             /\ watched' = IF ~Open({"stabilizing"}) THEN watched
                           ELSE IF plan.machine \in out THEN 0
                           ELSE IF watched < Confirmations THEN watched + 1 ELSE watched
  BY DEF TickProgressive
<1>2. PICK out \in OutOfRange(f) :
        /\ plan' = Readable(out)
        /\ watched' = IF ~Open({"stabilizing"}) THEN watched
                      ELSE IF plan.machine \in out THEN 0
                      ELSE IF watched < Confirmations THEN watched + 1 ELSE watched
  BY <1>1
<1>3. out \in SUBSET Machines
  BY <1>2 DEF OutOfRange
<1>4. fault' \in FaultRecords \cup {NoFault}
  <2>1. Breakable \subseteq Machines /\ 1 .. MaxFaultTicks \subseteq Nat
    BY ProgressiveAssumption
  <2> QED
    BY <1>1, <2>1 DEF FaultRecords
<1>5. /\ plan' \in PlanRecords \cup {NoPlan}
      /\ plan' # NoPlan /\ plan'.stage = "stabilizing" =>
           /\ plan # NoPlan /\ plan.stage = "stabilizing"
           /\ plan'.machine = plan.machine
           /\ \/ plan.machine \in out /\ plan'.left = Confirmations
              \/ /\ plan.machine \notin out /\ plan.left > 1
                 /\ plan'.left = plan.left - 1
      /\ plan' # NoPlan /\ plan'.stage = "completed" =>
           \/ plan' = plan /\ plan # NoPlan /\ plan.stage = "completed"
           \/ /\ plan # NoPlan /\ plan.stage = "stabilizing"
              /\ plan.machine \notin out /\ plan.left <= 1
  BY <1>t, <1>2, <1>3, ReadablePlan
<1>6. watched \in 0 .. Confirmations /\ watched' \in 0 .. Confirmations
  <2>1. watched \in 0 .. Confirmations
    BY <1>t DEF ProgressiveTypeOK
  <2> QED
    BY <1>0, <1>2, <2>1
<1>7. made \in Nat /\ repaired \in Nat
  BY <1>t DEF ProgressiveTypeOK
<1>8. made' \in Nat
  BY <1>1, <1>7
<1>9. ProgressiveTypeOK'
  BY <1>t, <1>4, <1>5, <1>6, <1>8 DEF ProgressiveTypeOK
<1>10. FaultsEndByRepair'
  <2>1. CASE fault = NoFault
    <3>1. made = repaired
      BY <1>7, <2>1 DEF ProgressiveInv, FaultsEndByRepair
    <3> QED
      BY <1>t, <1>1, <1>7, <2>1, <3>1 DEF FaultsEndByRepair
  <2>2. CASE fault # NoFault
    <3>1. made = repaired + 1
      BY <1>7, <2>2 DEF ProgressiveInv, FaultsEndByRepair
    <3>2. f # NoFault
      <4>1. f = [fault EXCEPT !.age = @ + 1]
        BY <1>1, <2>2 DEF AdvanceTick
      <4>2. fault \in FaultRecords
        BY <1>t, <2>2 DEF ProgressiveTypeOK
      <4>3. f \in FaultRecords
        BY <4>1, <4>2 DEF FaultRecords
      <4> QED
        BY <4>3, ProgressiveAssumption
    <3> QED
      BY <1>t, <1>1, <1>7, <2>2, <3>1, <3>2 DEF FaultsEndByRepair
  <2> QED
    BY <2>1, <2>2
<1>11. ASSUME plan # NoPlan, plan.stage = "stabilizing"
       PROVE  /\ plan.left \in Nat /\ plan.left > 0 /\ watched >= Confirmations - plan.left
              /\ watched' = IF plan.machine \in out THEN 0
                            ELSE IF watched < Confirmations THEN watched + 1 ELSE watched
  <2>1. plan \in PlanRecords
    BY <1>t, <1>11 DEF ProgressiveTypeOK
  <2>2. plan.left \in Nat
    BY <2>1 DEF PlanRecords
  <2>3. Open({"stabilizing"})
    BY <1>11 DEF Open
  <2> QED
    BY <1>2, <2>2, <2>3 DEF ProgressiveInv, Confirming
<1>13. Confirming'
  <2> SUFFICES ASSUME plan' # NoPlan, plan'.stage = "stabilizing"
               PROVE  plan'.left > 0 /\ watched' >= Confirmations - plan'.left
    BY DEF Confirming, Open
  <2>1. PICK left, after : left = plan.left /\ after = plan'.left
    OBVIOUS
  <2> QED
    BY <1>0, <1>5, <1>6, <1>11, <2>1
<1>14. CompletedWasCalm'
  <2> SUFFICES ASSUME plan' # NoPlan, plan'.stage = "completed"
               PROVE  watched' >= Confirmations
    BY DEF CompletedWasCalm, Open
  <2>1. CASE plan' = plan /\ plan # NoPlan /\ plan.stage = "completed"
    <3>1. watched' = watched
      BY <1>2, <2>1 DEF Open
    <3>2. watched >= Confirmations
      BY <2>1 DEF ProgressiveInv, CompletedWasCalm, Open
    <3> QED
      BY <3>1, <3>2
  <2>2. CASE /\ plan # NoPlan /\ plan.stage = "stabilizing"
             /\ plan.machine \notin out /\ plan.left <= 1
    <3>1. PICK left : left = plan.left
      OBVIOUS
    <3> QED
      BY <1>0, <1>6, <1>11, <2>2, <3>1
  <2> QED
    BY <1>5, <2>1, <2>2
<1>12. ModeHidesNothing'
  BY <1>t DEF ModeHidesNothing
<1> QED
  BY <1>9, <1>10, <1>12, <1>13, <1>14 DEF ProgressiveInv

\* The repair of perform_action, for a plan whose machine has the fault, if there is one.
LEMMA VerifyKeeps ==
  ASSUME ProgressiveInv, mode = "progressive", NEW p \in PlanRecords, Verify(p)
  PROVE  ProgressiveInv'
<1>1. ProgressiveTypeOK
  BY DEF ProgressiveInv
<1>2. plan' = Plan(p.machine, "ready", 0) /\ p.machine \in Machines
  BY DEF Verify, PlanRecords
<1>3. plan' \in PlanRecords /\ plan'.stage = "ready"
  BY <1>2, PlanFields
<1>4. made' = made /\ mode' = mode /\ watched' = 0 /\ working' = FALSE /\ watched' \in 0 .. Confirmations
  BY ProgressiveAssumption DEF Verify
<1>5. CASE fault = NoFault
  <2>1. fault' = fault /\ repaired' = repaired
    BY <1>5 DEF Verify
  <2> QED
    BY <1>1, <1>3, <1>4, <2>1
    DEF ProgressiveInv, ProgressiveTypeOK, ModeHidesNothing, FaultsEndByRepair, Confirming, CompletedWasCalm, Open
<1>6. CASE fault # NoFault
  <2>1. fault' = NoFault /\ repaired' = repaired + 1
    BY <1>6 DEF Verify
  <2>2. made \in Nat /\ repaired \in Nat /\ made = repaired + 1
    BY <1>1, <1>6 DEF ProgressiveTypeOK, ProgressiveInv, FaultsEndByRepair
  <2>3. FaultsEndByRepair'
    BY <1>4, <2>1, <2>2 DEF FaultsEndByRepair
  <2>4. ProgressiveTypeOK'
    BY <1>1, <1>3, <1>4, <2>1, <2>2 DEF ProgressiveTypeOK
  <2> QED
    BY <1>3, <1>4, <2>3, <2>4 DEF ProgressiveInv, ModeHidesNothing, Confirming, CompletedWasCalm, Open
<1> QED
  BY <1>5, <1>6

\* What changes neither the fault and its counts, nor the plan, nor the readings, nor the mode.
LEMMA RestKeeps ==
  ASSUME ProgressiveInv, working' \in BOOLEAN,
         UNCHANGED <<mode, fault, made, repaired, plan, watched>>
  PROVE  ProgressiveInv'
  BY DEF ProgressiveInv, ProgressiveTypeOK, ModeHidesNothing, FaultsEndByRepair,
         Confirming, CompletedWasCalm, Unfinished, Open

LEMMA RestartKeeps ==
  ASSUME ProgressiveInv, mode = "progressive", Restarted,
         UNCHANGED <<mode, fault, made, repaired>>
  PROVE  ProgressiveInv'
<1>1. ProgressiveTypeOK
  BY DEF ProgressiveInv
<1>2. CASE Open({"ready"})
  <2>1. plan \in PlanRecords
    BY <1>1, <1>2 DEF ProgressiveTypeOK, Open
  <2>2. plan.machine \in Machines
    BY <2>1 DEF PlanRecords
  <2>3. Confirmations \in Nat /\ Confirmations > 0
    BY ProgressiveAssumption
  <2>4. plan' = Plan(plan.machine, "stabilizing", Confirmations) /\ working' = TRUE
    BY <1>2 DEF Restarted
  <2>5. plan' \in PlanRecords /\ plan'.machine = plan.machine /\ plan'.left = Confirmations
    BY <2>2, <2>3, <2>4, PlanFields
  <2>6. plan'.stage = "stabilizing" /\ watched' = 0
    BY <1>2, <2>2, <2>3, <2>4, PlanFields DEF Restarted
  <2>7. Confirming' /\ CompletedWasCalm'
    BY <2>3, <2>5, <2>6 DEF Confirming, CompletedWasCalm, Open
  <2>8. ProgressiveTypeOK'
    BY <1>1, <2>3, <2>4, <2>5, <2>6 DEF ProgressiveTypeOK
  <2> QED
    BY <2>7, <2>8 DEF ProgressiveInv, ModeHidesNothing, FaultsEndByRepair
<1>3. CASE ~Open({"ready"})
  BY <1>1, <1>3, RestKeeps DEF Restarted, ProgressiveTypeOK
<1> QED
  BY <1>2, <1>3

\* Going from no fault and no unfinished plan to another mode.
LEMMA ModeKeeps ==
  ASSUME ProgressiveInv, fault = NoFault, fault' = NoFault, plan' = NoPlan,
         mode' \in {"standard", "progressive"}, working' \in BOOLEAN,
         UNCHANGED <<made, repaired, watched>>
  PROVE  ProgressiveInv'
  BY DEF ProgressiveInv, ProgressiveTypeOK, ModeHidesNothing, FaultsEndByRepair,
         Confirming, CompletedWasCalm, Unfinished, Open

\* The repair of a fault from the console.
LEMMA RepairKeeps ==
  ASSUME ProgressiveInv, NEW e \in Machines, RepairFault(e)
  PROVE  ProgressiveInv'
<1>1. ProgressiveTypeOK
  BY DEF ProgressiveInv
<1>2. fault # NoFault /\ fault' = NoFault /\ repaired' = repaired + 1
      /\ UNCHANGED <<working, mode, made, plan, watched>>
  BY DEF RepairFault, Broken, progress
<1>3. made \in Nat /\ repaired \in Nat /\ made = repaired + 1
  BY <1>1, <1>2 DEF ProgressiveTypeOK, ProgressiveInv, FaultsEndByRepair
<1>4. FaultsEndByRepair'
  BY <1>2, <1>3 DEF FaultsEndByRepair
<1>5. ProgressiveTypeOK'
  BY <1>1, <1>2, <1>3 DEF ProgressiveTypeOK
<1> QED
  BY <1>2, <1>4, <1>5
  DEF ProgressiveInv, ModeHidesNothing, Confirming, CompletedWasCalm, Unfinished, Open

LEMMA ProgressiveNextInv == ProgressiveInv /\ [ProgressiveNext]_progressiveVars => ProgressiveInv'
<1> SUFFICES ASSUME ProgressiveInv, [ProgressiveNext]_progressiveVars PROVE ProgressiveInv'
  OBVIOUS
<1>t. ProgressiveTypeOK /\ working \in BOOLEAN
  BY DEF ProgressiveInv, ProgressiveTypeOK
<1>1. CASE TickProgressive
  BY <1>1, TickKeeps
<1>2. CASE TickStandard
  <2>1. UNCHANGED <<working, mode, fault, made, repaired, plan, watched>>
    BY <1>2 DEF TickStandard, schedule
  <2> QED
    BY <1>t, <2>1, RestKeeps
<1>3. CASE StartWork \/ PauseWork
  <2>1. working' \in BOOLEAN /\ UNCHANGED <<mode, fault, made, repaired, plan, watched>>
    BY <1>3 DEF StartWork, PauseWork, schedule, progress
  <2> QED
    BY <2>1, RestKeeps
<1>4. CASE ChooseScenario
  <2>1. /\ fault = NoFault /\ fault' = NoFault /\ plan' = NoPlan /\ mode' = "standard"
        /\ UNCHANGED <<working, made, repaired, watched>>
    BY <1>4 DEF ChooseScenario, schedule, progress
  <2> QED
    BY <1>t, <2>1, ModeKeeps
<1>5. CASE RecoverScenario
  <2>1. UNCHANGED <<working, mode, fault, made, repaired, plan, watched>>
    BY <1>5 DEF RecoverScenario, schedule, progress
  <2> QED
    BY <1>t, <2>1, RestKeeps
<1>6. ASSUME NEW enabled \in BOOLEAN, SetProgressive(enabled) PROVE ProgressiveInv'
  <2>1. /\ fault = NoFault /\ fault' = NoFault /\ plan' = NoPlan
        /\ mode' \in {"standard", "progressive"} /\ UNCHANGED <<made, repaired, watched>>
    BY <1>6 DEF SetProgressive, progress
  <2>2. working' \in BOOLEAN
    BY <1>t, <1>6 DEF SetProgressive
  <2> QED
    BY <2>1, <2>2, ModeKeeps
<1>7. CASE PerformVerify
  <2>1. plan \in PlanRecords /\ mode = "progressive" /\ Verify(plan)
    BY <1>t, <1>7 DEF PerformVerify, ProgressiveTypeOK
  <2> QED
    BY <2>1, VerifyKeeps
<1>8. CASE RecoverPlan
  BY <1>8, RestartKeeps DEF RecoverPlan, schedule
<1>9. CASE ResetProgressive
  <2>1. Confirmations \in Nat
    BY ProgressiveAssumption
  <2>2. watched' \in 0 .. Confirmations
    BY <1>9, <2>1 DEF ResetProgressive
  <2>3. ProgressiveTypeOK'
    BY <1>9, <2>2 DEF ResetProgressive, ProgressiveTypeOK
  <2> QED
    BY <1>9, <2>3 DEF ResetProgressive, ProgressiveInv, ModeHidesNothing, FaultsEndByRepair,
                      Confirming, CompletedWasCalm, Unfinished, Open
<1>10. ASSUME NEW e \in Machines, RepairFault(e) PROVE ProgressiveInv'
  BY <1>10, RepairKeeps
<1>11. ASSUME NEW e \in Machines, StepRepair(e) PROVE ProgressiveInv'
  <2>1. mode = "progressive"
    BY <1>11 DEF StepRepair, MayStep
  <2>2. CASE PlannedSteps(e) /\ RepairOpen /\ Verify(plan)
    <3>1. plan \in PlanRecords
      BY <1>t, <2>2 DEF RepairOpen, Open, ProgressiveTypeOK
    <3> QED
      BY <2>1, <2>2, <3>1, VerifyKeeps
  <2>3. CASE MayPrepare(e) /\ Verify(Plan(e, "actions", 0))
    <3>1. Plan(e, "actions", 0) \in PlanRecords
      BY PlanFields
    <3> QED
      BY <2>1, <2>3, <3>1, VerifyKeeps
  <2> QED
    BY <1>11, <2>2, <2>3 DEF StepRepair
<1>12. ASSUME NEW e \in Machines, StepNoted(e) PROVE ProgressiveInv'
  <2>1. UNCHANGED <<working, mode, fault, made, repaired, plan, watched>>
    BY <1>12 DEF StepNoted, schedule, progress
  <2> QED
    BY <1>t, <2>1, RestKeeps
<1>13. ASSUME NEW e \in Machines, StepRestart(e) PROVE ProgressiveInv'
  <2>1. mode = "progressive" /\ Restarted /\ UNCHANGED <<mode, fault, made, repaired>>
    BY <1>13 DEF StepRestart, MayStep, schedule, progress
  <2> QED
    BY <2>1, RestartKeeps
<1>14. ASSUME NEW e \in Machines, RefuseRestart(e) PROVE ProgressiveInv'
  <2>1. mode = "progressive" /\ plan' = Plan(e, "actions", 0)
        /\ UNCHANGED <<working, mode, fault, made, repaired, watched>>
    BY <1>14 DEF RefuseRestart, MayStep, schedule, progress
  <2>2. plan' \in PlanRecords /\ plan'.stage = "actions"
    BY <2>1, PlanFields
  <2> QED
    BY <1>t, <2>1, <2>2
    DEF ProgressiveInv, ProgressiveTypeOK, ModeHidesNothing, FaultsEndByRepair, Confirming, CompletedWasCalm, Open
<1>15. CASE UNCHANGED progressiveVars
  BY <1>t, <1>15, RestKeeps DEF progressiveVars
<1> QED
  BY <1>1, <1>2, <1>3, <1>4, <1>5, <1>6, <1>7, <1>8, <1>9, <1>10, <1>11, <1>12, <1>13, <1>14, <1>15
  DEF ProgressiveNext

LEMMA ProgressiveInvariant == ProgressiveSpec => []ProgressiveInv
  BY ProgressiveInitInv, ProgressiveNextInv, PTL DEF ProgressiveSpec

\* The progressive mode is never left, by whatever command, while a fault grows
\* or its plan is unfinished.
THEOREM ModeCorrect == ProgressiveSpec => []ModeHidesNothing
  BY ProgressiveInvariant, PTL DEF ProgressiveInv

\* A fault ends by a repair in the log and in no other way.
THEOREM RepairsCorrect == ProgressiveSpec => []FaultsEndByRepair
  BY ProgressiveInvariant, PTL DEF ProgressiveInv

\* A plan is completed only after as many healthy ticks of its machine in a row since the
\* restart as it asks for.
THEOREM ConfirmationCorrect == ProgressiveSpec => []CompletedWasCalm
  BY ProgressiveInvariant, PTL DEF ProgressiveInv

-----------------------------------------------------------------------------
(* RandomFaults.                                                           *)

FaultsInProgress == [machine : Options, start : Nat, end : Nat]

RandomTypeOK ==
  /\ lineSequence \in Nat /\ last_sequence \in Nat \cup {Never}
  /\ _manual_mode \in BOOLEAN
  /\ activeFaults \subseteq FaultsInProgress
  /\ cooldown \in [Options -> Nat]

\* Outside of the manual mode the scheduler has seen every tick, and what it remembers of the
\* last one are the faults in progress.
InStep ==
  ~_manual_mode => /\ last_sequence \in {lineSequence, Never}
                   /\ previous_faults = Names(activeFaults)

RandomInv == RandomTypeOK /\ InStep /\ WarningsFollowFaults

LEMMA RandomInitInv == RandomInit => RandomInv
<1> SUFFICES ASSUME RandomInit PROVE RandomInv
  OBVIOUS
<1>1. cooldown \in [Options -> Nat]
  BY DEF RandomInit
<1>2. Names(activeFaults) = {}
  BY DEF RandomInit, Names
<1> QED
  BY <1>1, <1>2 DEF RandomInit, RandomInv, RandomTypeOK, InStep, WarningsFollowFaults

\* The faults of a new tick are on machines of their own.
LEMMA BegunApart ==
  ASSUME RandomInv, ~_manual_mode, NEW sequence \in Nat,
         NEW going \in SUBSET activeFaults,
         NEW machines \in SUBSET (Options \ Occupied(going)),
         NEW lasting \in [machines -> Durations]
  PROVE  /\ going \cup Begun(sequence, lasting) \subseteq FaultsInProgress
         /\ \A f, g \in going \cup Begun(sequence, lasting) : f.machine = g.machine => f = g
<1>1. activeFaults \subseteq FaultsInProgress
  BY DEF RandomInv, RandomTypeOK
<1>2. ASSUME NEW f \in Begun(sequence, lasting)
      PROVE  /\ f \in FaultsInProgress /\ f.machine \in machines
             /\ f = [machine |-> f.machine, start |-> sequence, end |-> sequence + lasting[f.machine]]
  <2>1. PICK e \in machines : f = [machine |-> e, start |-> sequence, end |-> sequence + lasting[e]]
    BY DEF Begun
  <2>2. lasting[e] \in Nat
    BY RandomAssumption
  <2> QED
    BY <2>1, <2>2 DEF FaultsInProgress
<1>3. ASSUME NEW f \in going, NEW g \in Begun(sequence, lasting) PROVE f.machine # g.machine
  <2>1. f.machine \in Occupied(going)
    BY DEF Occupied
  <2> QED
    BY <1>2, <2>1
<1>4. \A f, g \in going : f.machine = g.machine => f = g
  BY DEF RandomInv, WarningsFollowFaults
<1>5. \A f, g \in Begun(sequence, lasting) : f.machine = g.machine => f = g
  BY <1>2
<1> QED
  BY <1>1, <1>2, <1>3, <1>4, <1>5

LEMMA RandomTickKeeps ==
  ASSUME RandomInv, TickRandom
  PROVE  RandomInv'
<1>1. /\ lineSequence \in Nat /\ lineSequence' = lineSequence + 1 /\ ~_manual_mode
      /\ _manual_mode' = _manual_mode /\ last_sequence' = lineSequence'
      /\ previous_faults' = Names(activeFaults')
  BY DEF RandomInv, RandomTypeOK, TickRandom
<1>2. unrestored' = (unrestored \cup (Names(activeFaults') \ previous_faults))
                       \ (previous_faults \ Names(activeFaults'))
  BY DEF TickRandom
<1>3. unrestored = previous_faults
  BY <1>1 DEF RandomInv, InStep, WarningsFollowFaults
<1>4. unrestored' = Names(activeFaults')
  BY <1>2, <1>3
<1> DEFINE over == {f \in activeFaults : lineSequence' >= f.end}
           going == activeFaults \ over
<1>5. PICK rest \in [Occupied(over) -> Rests] :
         cooldown' = [e \in Options |-> IF e \in DOMAIN rest THEN lineSequence' + rest[e]
                                        ELSE cooldown[e]]
  BY DEF TickRandom
<1>6. cooldown' \in [Options -> Nat]
  <2>1. ASSUME NEW e \in Options, e \in DOMAIN rest PROVE lineSequence' + rest[e] \in Nat
    <3>1. rest[e] \in Rests
      BY <1>5, <2>1
    <3>2. rest[e] \in Nat
      BY <3>1, RandomAssumption
    <3>3. lineSequence' \in Nat
      BY <1>1
    <3> QED
      BY <3>2, <3>3
  <2>2. cooldown \in [Options -> Nat]
    BY DEF RandomInv, RandomTypeOK
  <2> QED
    BY <1>5, <2>1, <2>2
<1>7. PICK machines \in SUBSET Fresh(lineSequence', going) :
         \E lasting \in [machines -> Durations] :
           activeFaults' = going \cup Begun(lineSequence', lasting)
  BY DEF TickRandom
<1>8. PICK lasting \in [machines -> Durations] :
         activeFaults' = going \cup Begun(lineSequence', lasting)
  BY <1>7
<1>9. machines \in SUBSET (Options \ Occupied(going))
  BY DEF Fresh
<1>10. going \in SUBSET activeFaults /\ lineSequence' \in Nat
  BY <1>1
<1> HIDE DEF over, going
<1>11. /\ activeFaults' \subseteq FaultsInProgress
       /\ \A f, g \in activeFaults' : f.machine = g.machine => f = g
  BY <1>1, <1>8, <1>9, <1>10, BegunApart
<1> QED
  BY <1>1, <1>4, <1>6, <1>11 DEF RandomInv, RandomTypeOK, InStep, WarningsFollowFaults

LEMMA RandomNextInv == RandomInv /\ [RandomNext]_randomVars => RandomInv'
<1> SUFFICES ASSUME RandomInv, [RandomNext]_randomVars PROVE RandomInv'
  OBVIOUS
<1>1. CASE TickRandom
  BY <1>1, RandomTickKeeps
<1>2. CASE TickManual
  BY <1>2 DEF TickManual, RandomInv, RandomTypeOK, InStep, WarningsFollowFaults
<1>3. CASE SwitchWork
  BY <1>3 DEF SwitchWork, RandomInv, RandomTypeOK, InStep, WarningsFollowFaults
<1>4. CASE SetScenarioManual
  BY <1>4 DEF SetScenarioManual, RandomInv, RandomTypeOK, InStep, WarningsFollowFaults
<1>5. CASE ResetRandom
  <2>1. cooldown' \in [Options -> Nat] /\ Names(activeFaults') = {} /\ activeFaults' = {}
    BY <1>5 DEF ResetRandom, Scheduler, Names
  <2> QED
    BY <1>5, <2>1 DEF ResetRandom, Scheduler, RandomInv, RandomTypeOK, InStep, WarningsFollowFaults
<1>6. CASE UNCHANGED randomVars
  BY <1>6 DEF randomVars, RandomInv, RandomTypeOK, InStep, WarningsFollowFaults
<1> QED
  BY <1>1, <1>2, <1>3, <1>4, <1>5, <1>6 DEF RandomNext

LEMMA RandomInvariant == RandomSpec => []RandomInv
  BY RandomInitInv, RandomNextInv, PTL DEF RandomSpec

\* No order of commands makes the scheduler refuse a tick.
THEOREM SchedulerCorrect == RandomSpec => []SchedulerKeepsUp
<1>1. RandomInv => SchedulerKeepsUp
  BY DEF RandomInv, InStep, SchedulerKeepsUp, Expected
<1> QED
  BY <1>1, RandomInvariant, PTL

\* The warnings the log leaves open are the faults in progress, one on a machine.
THEOREM WarningsCorrect == RandomSpec => []WarningsFollowFaults
  BY RandomInvariant, PTL DEF RandomInv

-----------------------------------------------------------------------------
(* CoilFlow: the order in which the coils move, and the loop over them.    *)

\* The place of a machine on the route.
LEMMA RankIs ==
  ASSUME NEW m
  PROVE  /\ Rank(m) \in Int
         /\ m \in Range(Route) => Rank(m) \in DOMAIN Route /\ Route[Rank(m)] = m
<1>1. CASE m \notin Range(Route)
  BY <1>1 DEF Rank
<1>2. CASE m \in Range(Route)
  <2> DEFINE I == {i \in 1..Len(Route) : Route[i] = m}
  <2>1. Rank(m) = IF I # {} THEN Min(I) ELSE 0
    BY <1>2 DEF Rank, SelectInSeq
  <2>2. Route \in Seq(Range(Route)) /\ DOMAIN Route = 1..Len(Route) /\ Len(Route) \in Nat
    BY CoilAssumption
  <2>3. I # {} /\ I \in SUBSET Nat
    BY <1>2, <2>2 DEF Range
  <2> HIDE DEF I
  <2>4. \E x \in I : \A y \in I : x <= y
    BY <2>3, LeastNumber
  <2>5. Min(I) \in I
    BY <2>4 DEF Min
  <2> QED
    BY <2>1, <2>2, <2>3, <2>5 DEF I
<1> QED
  BY <1>1, <1>2

\* The coils ahead of one are fewer than those ahead of any behind it.
LEMMA AheadGrows ==
  ASSUME NEW cs, IsFiniteSet(DOMAIN cs), DOMAIN cs \in SUBSET Nat,
         NEW c \in DOMAIN cs, NEW d \in DOMAIN cs, d \in Ahead(cs, c)
  PROVE  /\ Cardinality(Ahead(cs, c)) \in Nat /\ Cardinality(Ahead(cs, d)) \in Nat
         /\ Cardinality(Ahead(cs, d)) < Cardinality(Ahead(cs, c))
<1>1. \A e \in DOMAIN cs : Rank(cs[e].at) \in Int /\ e \in Int
  BY RankIs
<1>2. Ahead(cs, d) \subseteq Ahead(cs, c)
  BY <1>1 DEF Ahead
<1>3. d \notin Ahead(cs, d)
  BY <1>1 DEF Ahead
<1>4. IsFiniteSet(Ahead(cs, c)) /\ IsFiniteSet(Ahead(cs, d))
  <2>1. Ahead(cs, c) \in SUBSET DOMAIN cs /\ Ahead(cs, d) \in SUBSET DOMAIN cs
    BY DEF Ahead
  <2> QED
    BY <2>1, FS_Subset
<1>5. /\ Cardinality(Ahead(cs, d)) <= Cardinality(Ahead(cs, c))
      /\ Cardinality(Ahead(cs, d)) # Cardinality(Ahead(cs, c))
  BY <1>2, <1>3, <1>4, FS_Subset
<1> QED
  BY <1>4, <1>5, FS_CardinalityType

\* Every coil has its own place in the order.
LEMMA OrderOfCoils ==
  ASSUME NEW cs, IsFiniteSet(DOMAIN cs), DOMAIN cs \in SUBSET Nat,
         NEW n, n = Cardinality(DOMAIN cs)
  PROVE  /\ n \in Nat
         /\ \A k \in 1..n : MovingOrder(cs)[k] \in DOMAIN cs
         /\ \A k, l \in 1..n : MovingOrder(cs)[k] = MovingOrder(cs)[l] => k = l
<1> DEFINE I == DOMAIN cs
           place == [c \in I |-> Cardinality(Ahead(cs, c)) + 1]
           K == 1..n
<1>1. n \in Nat
  BY FS_CardinalityType
<1>2. ASSUME NEW c \in I PROVE place[c] \in K
  <2>1. c \notin Ahead(cs, c) /\ Ahead(cs, c) \in SUBSET I
    BY RankIs DEF Ahead
  <2>2. IsFiniteSet(Ahead(cs, c)) /\ Cardinality(Ahead(cs, c)) <= n
    BY <2>1, FS_Subset
  <2>3. Cardinality(Ahead(cs, c)) # n
    BY <2>1, FS_Subset
  <2>4. Cardinality(Ahead(cs, c)) \in Nat
    BY <2>2, FS_CardinalityType
  <2> QED
    BY <1>1, <2>2, <2>3, <2>4
<1>3. ASSUME NEW c \in I, NEW d \in I, c # d PROVE place[c] # place[d]
  <2>1. c \in Ahead(cs, d) \/ d \in Ahead(cs, c)
    <3>1. Rank(cs[c].at) \in Int /\ Rank(cs[d].at) \in Int /\ c \in Int /\ d \in Int
      BY RankIs
    <3> QED
      BY <1>3, <3>1 DEF Ahead
  <2>2. CASE c \in Ahead(cs, d)
    <3>1. /\ Cardinality(Ahead(cs, c)) \in Nat /\ Cardinality(Ahead(cs, d)) \in Nat
          /\ Cardinality(Ahead(cs, c)) < Cardinality(Ahead(cs, d))
      BY <2>2, AheadGrows
    <3> QED
      BY <3>1
  <2>3. CASE d \in Ahead(cs, c)
    <3>1. /\ Cardinality(Ahead(cs, c)) \in Nat /\ Cardinality(Ahead(cs, d)) \in Nat
          /\ Cardinality(Ahead(cs, d)) < Cardinality(Ahead(cs, c))
      BY <2>3, AheadGrows
    <3> QED
      BY <3>1
  <2> QED
    BY <2>1, <2>2, <2>3
<1>4. place \in Injection(I, K)
  BY <1>2, <1>3 DEF Injection, IsInjective
<1>5. IsFiniteSet(K) /\ Cardinality(K) = Cardinality(I)
  BY <1>1, FS_Interval
<1>6. place \in Surjection(I, K)
  <2> HIDE DEF place, K
  <2> QED
    BY <1>4, <1>5, FS_Injection
<1>7. ASSUME NEW k \in K
      PROVE  /\ MovingOrder(cs)[k] \in I
             /\ Cardinality(Ahead(cs, MovingOrder(cs)[k])) = k - 1
  <2>1. PICK c \in I : place[c] = k
    BY <1>6 DEF Surjection
  <2>2. Cardinality(Ahead(cs, c)) \in Nat
    <3>1. Ahead(cs, c) \in SUBSET I
      BY DEF Ahead
    <3> QED
      BY <3>1, FS_Subset, FS_CardinalityType
  <2>3. Cardinality(Ahead(cs, c)) = k - 1
    BY <2>1, <2>2
  <2>4. MovingOrder(cs)[k] = CHOOSE d \in I : Cardinality(Ahead(cs, d)) = k - 1
    BY DEF MovingOrder
  <2> QED
    BY <2>3, <2>4
<1>8. \A k, l \in K : MovingOrder(cs)[k] = MovingOrder(cs)[l] => k = l
  <2> TAKE k, l \in K
  <2> HAVE MovingOrder(cs)[k] = MovingOrder(cs)[l]
  <2>1. k - 1 = l - 1
    BY <1>7
  <2> QED
    BY <1>1, <2>1
<1> QED
  BY <1>1, <1>7, <1>8

\* The steps of the loop, one coil after another.
Steps(g, cs, s, arriving) ==
  g = [k \in 0..Cardinality(DOMAIN cs) |->
        IF k = 0 THEN Unmoved(cs) ELSE Move(g[k - 1], MovingOrder(cs)[k], s, cs, arriving)]

LEMMA MovedIs ==
  ASSUME NEW cs, Cardinality(DOMAIN cs) \in Nat, NEW s, NEW arriving
  PROVE  \E g : Steps(g, cs, s, arriving) /\ Moved(cs, s, arriving) = g[Cardinality(DOMAIN cs)]
<1> DEFINE n == Cardinality(DOMAIN cs)
           step(f, k) == Move(f, MovingOrder(cs)[k], s, cs, arriving)
           upto(g, l) == g = [k \in 0..l |-> IF k = 0 THEN Unmoved(cs) ELSE step(g[k - 1], k)]
           S == {l \in Nat : \E g : upto(g, l)}
<1> HIDE DEF step
<1>1. 0 \in S
  <2>1. [k \in 0..0 |-> Unmoved(cs)] = [k \in 0..0 |->
          IF k = 0 THEN Unmoved(cs) ELSE step([i \in 0..0 |-> Unmoved(cs)][k - 1], k)]
    OBVIOUS
  <2> QED
    BY <2>1
<1>2. ASSUME NEW l \in Nat, l \in S PROVE l + 1 \in S
  <2>1. PICK g : upto(g, l)
    BY <1>2
  <2> DEFINE h == [k \in 0..(l + 1) |-> IF k \in 0..l THEN g[k] ELSE step(g[l], l + 1)]
  <2>2. ASSUME NEW k \in 0..(l + 1)
        PROVE  h[k] = IF k = 0 THEN Unmoved(cs) ELSE step(h[k - 1], k)
    <3>1. CASE k = 0
      BY <2>1, <3>1
    <3>2. CASE k \in 1..l
      <4>1. k \in 0..l /\ k - 1 \in 0..l /\ k # 0 /\ k \in 0..(l + 1) /\ k - 1 \in 0..(l + 1)
        BY <3>2
      <4>2. h[k] = g[k] /\ h[k - 1] = g[k - 1]
        BY <4>1
      <4>3. g[k] = step(g[k - 1], k)
        BY <2>1, <4>1
      <4> QED
        BY <4>1, <4>2, <4>3
    <3>3. CASE k = l + 1
      <4>1. k \notin 0..l /\ l \in 0..l /\ k - 1 = l /\ k # 0 /\ l \in 0..(l + 1)
        BY <3>3
      <4>2. h[k] = step(g[l], l + 1) /\ h[l] = g[l]
        BY <3>3, <4>1
      <4> QED
        BY <3>3, <4>1, <4>2
    <3> QED
      BY <3>1, <3>2, <3>3
  <2>3. h = [k \in 0..(l + 1) |-> h[k]]
    OBVIOUS
  <2> HIDE DEF h
  <2>4. upto(h, l + 1)
    BY <2>2, <2>3
  <2> QED
    BY <2>4
<1>3. \E g : upto(g, n)
  <2> HIDE DEF S
  <2>1. Nat \subseteq S
    BY <1>1, <1>2, ByInduction
  <2> QED
    BY <2>1 DEF S
<1> DEFINE after == CHOOSE g : upto(g, n)
<1>4. upto(after, n)
  BY <1>3
<1>5. Moved(cs, s, arriving) = after[n]
  BY DEF Moved, step
<1>6. Steps(after, cs, s, arriving)
  BY <1>4 DEF Steps, step
<1> QED
  BY <1>5, <1>6

-----------------------------------------------------------------------------
(* What each coil's turn keeps.                                            *)

Coil == [at : Places, there : BOOLEAN, quality : {"none", "hold", "released", "rejected"}]
Numbers(next) == 1..(next - 1)
AreCoils(cs, next) == cs \in [DOMAIN cs -> Coil] /\ DOMAIN cs \in SUBSET Numbers(next)

\* No place is counted free that is not, and none is given beyond the last.
LoopInv(f) ==
  /\ f = [coils |-> f.coils, exited |-> f.exited, rejects |-> f.rejects, occupied |-> f.occupied]
  /\ AreCoils(f.coils, nextCoil)
  /\ f.occupied \in [Places -> Nat]
  /\ \A m \in Places : /\ Cardinality(OnLine(f.coils, m)) <= f.occupied[m]
                       /\ f.occupied[m] <= Capacity[m]
  /\ f.exited \subseteq [coil : Numbers(nextCoil), at : Places]
  /\ f.rejects \subseteq Numbers(nextCoil)

LEMMA PlacesOfConstants ==
  /\ Capacity \in [Places -> Nat \ {0}] /\ ScrapTo \in Places /\ ScrapFrom \in Places
  /\ \A k \in DOMAIN Route : Route[k] \in Places
  /\ DOMAIN Route = 1..Len(Route) /\ Len(Route) \in Nat /\ Len(Route) > 0
  BY CoilAssumption DEF Places, Range

LEMMA FiniteOnLine ==
  ASSUME nextCoil \in Nat, NEW cs, DOMAIN cs \in SUBSET Numbers(nextCoil)
  PROVE  /\ IsFiniteSet(DOMAIN cs) /\ Cardinality(DOMAIN cs) \in Nat
         /\ \A m : IsFiniteSet(OnLine(cs, m)) /\ Cardinality(OnLine(cs, m)) \in Nat
<1>1. IsFiniteSet(Numbers(nextCoil))
  <2>1. 1 \in Int /\ nextCoil - 1 \in Int
    OBVIOUS
  <2> QED
    BY <2>1, FS_Interval DEF Numbers
<1>2. IsFiniteSet(DOMAIN cs)
  BY <1>1, FS_Subset
<1>3. \A m : OnLine(cs, m) \in SUBSET DOMAIN cs
  BY DEF OnLine
<1>4. \A m : IsFiniteSet(OnLine(cs, m))
  BY <1>2, <1>3, FS_Subset
<1> QED
  BY <1>2, <1>4, FS_CardinalityType

\* A coil that changes without moving.
LEMMA MarkKeeps ==
  ASSUME nextCoil \in Nat, NEW f, LoopInv(f), NEW c \in DOMAIN f.coils, NEW x \in Coil,
         x.at = f.coils[c].at, NEW rj \in SUBSET Numbers(nextCoil)
  PROVE  LoopInv([coils |-> [f.coils EXCEPT ![c] = x], exited |-> f.exited,
                  rejects |-> rj, occupied |-> f.occupied])
<1> DEFINE cs == [f.coils EXCEPT ![c] = x]
           g == [coils |-> cs, exited |-> f.exited, rejects |-> rj, occupied |-> f.occupied]
<1>1. cs \in [DOMAIN f.coils -> Coil] /\ DOMAIN cs = DOMAIN f.coils
  BY DEF LoopInv, AreCoils
<1>2. \A m : OnLine(cs, m) = OnLine(f.coils, m)
  BY <1>1 DEF OnLine, LoopInv, AreCoils
<1>3. /\ g.coils = cs /\ g.exited = f.exited /\ g.rejects = rj /\ g.occupied = f.occupied
      /\ g = [coils |-> g.coils, exited |-> g.exited, rejects |-> g.rejects, occupied |-> g.occupied]
  OBVIOUS
<1> HIDE DEF cs, g
<1>4. AreCoils(g.coils, nextCoil)
  BY <1>1, <1>3 DEF LoopInv, AreCoils
<1>5. \A m : OnLine(g.coils, m) = OnLine(f.coils, m)
  BY <1>2, <1>3
<1>6. LoopInv(g)
  BY <1>3, <1>4, <1>5 DEF LoopInv
<1> QED
  BY <1>6 DEF g, cs

\* A coil that takes a free place.
LEMMA TransferKeeps ==
  ASSUME nextCoil \in Nat, NEW f, LoopInv(f), NEW c \in DOMAIN f.coils, NEW m \in Places,
         f.occupied[m] < Capacity[m]
  PROVE  /\ LoopInv(Transfer(f, c, m))
         /\ Transfer(f, c, m).coils =
              [f.coils EXCEPT ![c] = [at |-> m, there |-> FALSE, quality |-> f.coils[c].quality]]
         /\ Transfer(f, c, m).exited = f.exited /\ Transfer(f, c, m).rejects = f.rejects
<1> DEFINE x == [at |-> m, there |-> FALSE, quality |-> f.coils[c].quality]
           cs == [f.coils EXCEPT ![c] = x]
           from == f.coils[c].at
           left == [f.occupied EXCEPT ![from] = @ - 1]
           occ == [left EXCEPT ![m] = @ + 1]
           g == Transfer(f, c, m)
<1>1. f.coils[c] \in Coil /\ from \in Places /\ x \in Coil
  BY DEF LoopInv, AreCoils, Coil
<1>2. g = [coils |-> cs, exited |-> f.exited, rejects |-> f.rejects, occupied |-> occ]
  <2>4. g = [f EXCEPT !.coils = cs, !.occupied = occ]
    BY DEF Transfer, LoopInv
  <2> HIDE DEF cs, occ, from, g
  <2> QED
    BY <2>4 DEF LoopInv
<1>3. cs \in [DOMAIN f.coils -> Coil] /\ DOMAIN cs = DOMAIN f.coils /\ cs[c] = x
      /\ \A d \in DOMAIN f.coils : d # c => cs[d] = f.coils[d]
  BY <1>1 DEF LoopInv, AreCoils
<1>4. /\ OnLine(cs, m) = OnLine(f.coils, m) \cup {c}
      /\ from # m => OnLine(cs, from) = OnLine(f.coils, from) \ {c}
      /\ \A p : p # m /\ p # from => OnLine(cs, p) = OnLine(f.coils, p)
      /\ c \in OnLine(f.coils, from) /\ (from # m => c \notin OnLine(f.coils, m))
  BY <1>3 DEF OnLine
<1>5. \A p : IsFiniteSet(OnLine(f.coils, p)) /\ Cardinality(OnLine(f.coils, p)) \in Nat
  BY FiniteOnLine DEF LoopInv, AreCoils
<1>6. f.occupied \in [Places -> Nat] /\ f.occupied[from] \in Nat /\ f.occupied[m] \in Nat
      /\ Capacity[m] \in Nat
  BY <1>1, PlacesOfConstants DEF LoopInv
<1>7. Cardinality(OnLine(f.coils, from)) >= 1
  BY <1>4, <1>5, FS_EmptySet
<1>8. Cardinality(OnLine(f.coils, from)) <= f.occupied[from]
  BY <1>1 DEF LoopInv
<1>9. ASSUME NEW p \in Places
      PROVE  /\ occ[p] \in Nat /\ Cardinality(OnLine(cs, p)) <= occ[p] /\ occ[p] <= Capacity[p]
  <2>1. /\ f.occupied[p] \in Nat /\ Capacity[p] \in Nat
        /\ Cardinality(OnLine(f.coils, p)) <= f.occupied[p] /\ f.occupied[p] <= Capacity[p]
    BY <1>9, PlacesOfConstants DEF LoopInv
  <2>2. CASE from = m
    <3>1. OnLine(cs, p) = OnLine(f.coils, p)
      BY <1>4, <2>2
    <3>2. occ[p] = f.occupied[p]
      BY <1>6, <2>1, <2>2
    <3> QED
      BY <2>1, <3>1, <3>2
  <2>3. CASE from # m /\ p = m
    <3>1. Cardinality(OnLine(cs, p)) = Cardinality(OnLine(f.coils, p)) + 1
      BY <1>4, <1>5, <2>3, FS_AddElement
    <3>2. occ[p] = f.occupied[p] + 1
      BY <1>6, <2>3
    <3>3. Cardinality(OnLine(f.coils, p)) \in Nat
      BY <1>5
    <3> QED
      BY <2>1, <2>3, <3>1, <3>2, <3>3
  <2>4. CASE from # m /\ p = from
    <3>1. Cardinality(OnLine(cs, p)) = Cardinality(OnLine(f.coils, p)) - 1
      <4>1. OnLine(cs, p) = OnLine(f.coils, p) \ {c} /\ c \in OnLine(f.coils, p)
        BY <1>4, <2>4
      <4> QED
        BY <1>5, <4>1, FS_RemoveElement
    <3>2. occ[p] = f.occupied[p] - 1
      BY <1>1, <1>6, <2>4
    <3>3. Cardinality(OnLine(f.coils, p)) \in Nat /\ Cardinality(OnLine(f.coils, p)) >= 1
      BY <1>5, <1>7, <2>4
    <3>4. PICK a, b : a = Cardinality(OnLine(f.coils, p)) /\ b = f.occupied[p]
      OBVIOUS
    <3>5. a \in Nat /\ b \in Nat /\ a >= 1 /\ a <= b /\ b <= Capacity[p]
      BY <2>1, <3>3, <3>4
    <3>6. b - 1 \in Nat /\ a - 1 <= b - 1 /\ b - 1 <= Capacity[p]
      BY <2>1, <3>5
    <3> QED
      BY <3>1, <3>2, <3>4, <3>6
  <2>5. CASE p # m /\ p # from
    <3>1. OnLine(cs, p) = OnLine(f.coils, p)
      BY <1>4, <2>5
    <3>2. occ[p] = f.occupied[p]
      BY <1>6, <2>5
    <3> QED
      BY <2>1, <3>1, <3>2
  <2> QED
    BY <2>2, <2>3, <2>4, <2>5
<1>10. occ \in [Places -> Nat]
  <2>1. occ = [p \in Places |-> occ[p]]
    BY <1>6
  <2> QED
    BY <1>9, <2>1
<1> HIDE DEF cs, occ, g
<1>11. /\ g.coils = cs /\ g.exited = f.exited /\ g.rejects = f.rejects /\ g.occupied = occ
       /\ g = [coils |-> g.coils, exited |-> g.exited, rejects |-> g.rejects, occupied |-> g.occupied]
  BY <1>2
<1>12. AreCoils(g.coils, nextCoil)
  BY <1>3, <1>11 DEF LoopInv, AreCoils
<1>13. LoopInv(g)
  BY <1>9, <1>10, <1>11, <1>12 DEF LoopInv
<1> QED
  BY <1>11, <1>13 DEF g, cs

\* A coil that leaves the line; its place is free from the next tick on.
LEMMA DischargeKeeps ==
  ASSUME nextCoil \in Nat, NEW f, LoopInv(f), NEW c \in DOMAIN f.coils
  PROVE  /\ LoopInv(Discharge(f, c))
         /\ Discharge(f, c).coils = [d \in DOMAIN f.coils \ {c} |-> f.coils[d]]
         /\ Discharge(f, c).exited = f.exited \cup {[coil |-> c, at |-> f.coils[c].at]}
         /\ Discharge(f, c).rejects = f.rejects
<1> DEFINE cs == [d \in DOMAIN f.coils \ {c} |-> f.coils[d]]
           ex == f.exited \cup {[coil |-> c, at |-> f.coils[c].at]}
           g == Discharge(f, c)
<1>1. g = [coils |-> cs, exited |-> ex, rejects |-> f.rejects, occupied |-> f.occupied]
  <2>1. g = [f EXCEPT !.coils = cs, !.exited = ex]
    BY DEF Discharge, LoopInv
  <2> HIDE DEF g, cs, ex
  <2> QED
    BY <2>1 DEF LoopInv
<1>2. /\ g.coils = cs /\ g.exited = ex /\ g.rejects = f.rejects /\ g.occupied = f.occupied
      /\ g = [coils |-> g.coils, exited |-> g.exited, rejects |-> g.rejects, occupied |-> g.occupied]
  BY <1>1
<1>3. f.coils[c].at \in Places /\ c \in Numbers(nextCoil)
  BY DEF LoopInv, AreCoils, Coil
<1>4. AreCoils(cs, nextCoil)
  BY DEF LoopInv, AreCoils
<1>5. ex \subseteq [coil : Numbers(nextCoil), at : Places]
  BY <1>3 DEF LoopInv
<1>6. ASSUME NEW m \in Places
      PROVE  Cardinality(OnLine(cs, m)) <= f.occupied[m] /\ f.occupied[m] <= Capacity[m]
  <2>1. OnLine(cs, m) \in SUBSET OnLine(f.coils, m)
    BY DEF OnLine
  <2>2. IsFiniteSet(OnLine(f.coils, m))
    BY FiniteOnLine DEF LoopInv, AreCoils
  <2>3. /\ Cardinality(OnLine(cs, m)) \in Nat /\ Cardinality(OnLine(f.coils, m)) \in Nat
        /\ Cardinality(OnLine(cs, m)) <= Cardinality(OnLine(f.coils, m))
    BY <2>1, <2>2, FS_Subset, FS_CardinalityType
  <2>4. Cardinality(OnLine(f.coils, m)) <= f.occupied[m] /\ f.occupied[m] \in Nat
        /\ f.occupied[m] <= Capacity[m]
    BY DEF LoopInv
  <2> QED
    BY <2>3, <2>4
<1> HIDE DEF cs, ex, g
<1>7. LoopInv(g)
  BY <1>2, <1>4, <1>5, <1>6 DEF LoopInv
<1> QED
  BY <1>2, <1>7 DEF cs, ex, g

\* A rejected coil is at the branch or behind it, keeps its mark unless a hold
\* replaced it, and leaves the line at the end of the branch.
Scrapped(cs, ex, rj, ow) ==
  /\ \A c \in DOMAIN cs :
       /\ cs[c].quality = "rejected" => cs[c].at \in {ScrapFrom, ScrapTo}
       /\ c \in rj \ ow => cs[c].quality = "rejected"
  /\ \A e \in ex : e.coil \notin DOMAIN cs /\ (e.coil \in rj \ ow => e.at = ScrapTo)
ScrappedIn(f) == Scrapped(f.coils, f.exited, f.rejects, overwritten)

\* What the last machine of the branch takes goes no further.
ScrapLeaves == LeavesAt(ScrapTo)

\* A turn that keeps the line in order and loses at most its own coil.
Keeps(f, c, g) ==
  /\ LoopInv(g) /\ DOMAIN f.coils \ {c} \subseteq DOMAIN g.coils
  /\ ScrapLeaves /\ ScrappedIn(f) => ScrappedIn(g)

LEMMA RejectKeeps ==
  ASSUME nextCoil \in Nat, NEW f, LoopInv(f), NEW c \in DOMAIN f.coils, f.coils[c].at = ScrapFrom
  PROVE  /\ LoopInv(Reject(f, c)) /\ DOMAIN Reject(f, c).coils = DOMAIN f.coils
         /\ Reject(f, c).coils[c].at = ScrapFrom /\ Reject(f, c).coils[c].quality = "rejected"
         /\ Reject(f, c).occupied = f.occupied
         /\ ScrappedIn(f) => ScrappedIn(Reject(f, c))
<1> DEFINE x == [f.coils[c] EXCEPT !.quality = "rejected"]
           cs == [f.coils EXCEPT ![c] = x]
           rj == f.rejects \cup {c}
           g == Reject(f, c)
<1>1. x \in Coil /\ x.at = f.coils[c].at /\ x.quality = "rejected" /\ c \in Numbers(nextCoil)
  BY DEF LoopInv, AreCoils, Coil
<1>2. g = [coils |-> cs, exited |-> f.exited, rejects |-> rj, occupied |-> f.occupied]
  <2>1. g = [f EXCEPT !.coils = cs, !.rejects = rj]
    BY DEF Reject, LoopInv
  <2> HIDE DEF g, cs, rj
  <2> QED
    BY <2>1 DEF LoopInv
<1>3. rj \in SUBSET Numbers(nextCoil)
  BY <1>1 DEF LoopInv
<1> HIDE DEF x, g
<1>4. LoopInv(g)
  <2> HIDE DEF rj
  <2> QED
    BY <1>1, <1>2, <1>3, MarkKeeps
<1>5. /\ g.coils = cs /\ g.exited = f.exited /\ g.rejects = rj /\ g.occupied = f.occupied
  BY <1>2
<1>6. DOMAIN cs = DOMAIN f.coils /\ cs[c] = x /\ \A d \in DOMAIN f.coils : d # c => cs[d] = f.coils[d]
  BY DEF LoopInv, AreCoils
<1> HIDE DEF cs
<1>7. ScrappedIn(f) => ScrappedIn(g)
  BY <1>1, <1>5, <1>6 DEF ScrappedIn, Scrapped
<1> QED
  BY <1>1, <1>4, <1>5, <1>6, <1>7 DEF g

LEMMA LeaveKeeps ==
  ASSUME nextCoil \in Nat, NEW f, LoopInv(f), NEW c \in DOMAIN f.coils, NEW s, NEW cs
  PROVE  Keeps(f, c, Leave(f, c, s, cs))
<1> DEFINE m == f.coils[c].at
           r == Reject(f, c)
           next == Route[Rank(m) + 1]
           free(to) == Running(to, s, cs) /\ f.occupied[to] < Capacity[to]
           g == Leave(f, c, s, cs)
<1>0. m \in Places
  BY DEF LoopInv, AreCoils, Coil
<1>1. CASE TakesScrap(f, c, s)
  <2>1. /\ LoopInv(r) /\ DOMAIN r.coils = DOMAIN f.coils /\ r.coils[c].at = ScrapFrom
        /\ r.coils[c].quality = "rejected" /\ r.occupied = f.occupied
        /\ ScrappedIn(f) => ScrappedIn(r)
    BY <1>1, RejectKeeps DEF TakesScrap
  <2>2. CASE free(ScrapTo)
    <3> DEFINE t == Transfer(r, c, ScrapTo)
    <3>1. g = t
      BY <1>1, <2>2 DEF Leave
    <3> HIDE DEF r, g, t
    <3>2. c \in DOMAIN r.coils /\ r.occupied[ScrapTo] < Capacity[ScrapTo] /\ ScrapTo \in Places
      BY <2>1, <2>2, PlacesOfConstants
    <3>3. /\ LoopInv(t) /\ t.exited = r.exited /\ t.rejects = r.rejects
          /\ t.coils = [r.coils EXCEPT ![c] =
                          [at |-> ScrapTo, there |-> FALSE, quality |-> r.coils[c].quality]]
      BY <2>1, <3>2, TransferKeeps DEF t
    <3>4. /\ DOMAIN t.coils = DOMAIN f.coils
          /\ t.coils[c].at = ScrapTo /\ t.coils[c].quality = "rejected"
          /\ \A d \in DOMAIN f.coils : d # c => t.coils[d] = r.coils[d]
      BY <2>1, <3>2, <3>3
    <3>5. ScrappedIn(r) => ScrappedIn(t)
      BY <2>1, <3>3, <3>4 DEF ScrappedIn, Scrapped
    <3> QED
      BY <2>1, <3>1, <3>3, <3>4, <3>5 DEF Keeps, g
  <2>3. CASE ~free(ScrapTo)
    <3>1. g = r
      BY <1>1, <2>3 DEF Leave
    <3> HIDE DEF r, g
    <3> QED
      BY <2>1, <3>1 DEF Keeps, g
  <2> QED
    BY <2>2, <2>3
<1>2. CASE ~TakesScrap(f, c, s) /\ LeavesAt(m)
  <2> DEFINE d == Discharge(f, c)
  <2>1. g = d
    BY <1>2 DEF Leave
  <2> HIDE DEF g, d
  <2>2. /\ LoopInv(d) /\ d.coils = [e \in DOMAIN f.coils \ {c} |-> f.coils[e]]
        /\ d.exited = f.exited \cup {[coil |-> c, at |-> m]} /\ d.rejects = f.rejects
    BY DischargeKeeps DEF d
  <2>3. DOMAIN d.coils = DOMAIN f.coils \ {c} /\ \A e \in DOMAIN d.coils : d.coils[e] = f.coils[e]
    BY <2>2
  <2>4. ASSUME ScrappedIn(f) PROVE ScrappedIn(d)
    <3>1. f.coils[c].quality = "rejected" => m = ScrapTo
      BY <1>2, <2>4 DEF TakesScrap, ScrappedIn, Scrapped
    <3>2. \A e \in d.exited : e.coil \notin DOMAIN d.coils
                              /\ (e.coil \in d.rejects \ overwritten => e.at = ScrapTo)
      BY <2>2, <2>3, <2>4, <3>1 DEF ScrappedIn, Scrapped
    <3> QED
      BY <2>2, <2>3, <2>4, <3>2 DEF ScrappedIn, Scrapped
  <2> QED
    BY <2>1, <2>2, <2>3, <2>4 DEF Keeps, g
<1>3. CASE ~TakesScrap(f, c, s) /\ ~LeavesAt(m)
  <2>1. next \in Places
    <3>1. Rank(m) \in DOMAIN Route /\ Rank(m) # Len(Route)
      BY <1>3, RankIs DEF LeavesAt
    <3>2. Rank(m) + 1 \in DOMAIN Route
      BY <3>1, PlacesOfConstants
    <3> QED
      BY <3>2, PlacesOfConstants
  <2>2. CASE free(next)
    <3> DEFINE t == Transfer(f, c, next)
    <3>1. g = t
      BY <1>3, <2>2 DEF Leave
    <3> HIDE DEF g, t
    <3>2. f.occupied[next] < Capacity[next]
      BY <2>2
    <3> HIDE DEF next
    <3>3. /\ LoopInv(t) /\ t.exited = f.exited /\ t.rejects = f.rejects
          /\ t.coils = [f.coils EXCEPT ![c] =
                          [at |-> next, there |-> FALSE, quality |-> f.coils[c].quality]]
      BY <2>1, <3>2, TransferKeeps DEF t
    <3>4. /\ DOMAIN t.coils = DOMAIN f.coils /\ t.coils[c].quality = f.coils[c].quality
          /\ \A d \in DOMAIN f.coils : d # c => t.coils[d] = f.coils[d]
      BY <3>3 DEF LoopInv, AreCoils
    <3>5. ASSUME ScrapLeaves, ScrappedIn(f) PROVE ScrappedIn(t)
      <4>1. f.coils[c].quality # "rejected"
        BY <1>3, <3>5 DEF TakesScrap, ScrappedIn, Scrapped, ScrapLeaves
      <4> QED
        BY <3>3, <3>4, <3>5, <4>1 DEF ScrappedIn, Scrapped
    <3> QED
      BY <3>1, <3>3, <3>4, <3>5 DEF Keeps, g
  <2>3. CASE ~free(next)
    <3>1. g = f
      BY <1>3, <2>3 DEF Leave
    <3> QED
      BY <3>1 DEF Keeps
  <2> QED
    BY <2>2, <2>3
<1> QED
  BY <1>1, <1>2, <1>3

LEMMA MoveKeeps ==
  ASSUME nextCoil \in Nat, NEW f, LoopInv(f), NEW c \in DOMAIN f.coils, NEW s, NEW cs, NEW arriving
  PROVE  Keeps(f, c, Move(f, c, s, cs, arriving))
<1> DEFINE x == [f.coils[c] EXCEPT !.there = TRUE]
           h == [coils |-> [f.coils EXCEPT ![c] = x], exited |-> f.exited,
                 rejects |-> f.rejects, occupied |-> f.occupied]
<1>1. [f EXCEPT !.coils[c].there = TRUE] = h
  <2>1. [f EXCEPT !.coils[c].there = TRUE] = [f EXCEPT !.coils = [f.coils EXCEPT ![c] = x]]
    BY DEF LoopInv
  <2> HIDE DEF x
  <2> QED
    BY <2>1 DEF LoopInv
<1>2. x \in Coil /\ x.at = f.coils[c].at /\ x.quality = f.coils[c].quality
  BY DEF LoopInv, AreCoils, Coil
<1>3. f.rejects \in SUBSET Numbers(nextCoil)
  BY DEF LoopInv
<1> HIDE DEF x
<1>4. LoopInv(h)
  BY <1>2, <1>3, MarkKeeps
<1>5. /\ DOMAIN h.coils = DOMAIN f.coils /\ h.exited = f.exited /\ h.rejects = f.rejects
      /\ \A d \in DOMAIN f.coils :
           h.coils[d].at = f.coils[d].at /\ h.coils[d].quality = f.coils[d].quality
  BY <1>2 DEF LoopInv, AreCoils
<1> HIDE DEF h
<1>6. ScrappedIn(f) => ScrappedIn(h)
  BY <1>5 DEF ScrappedIn, Scrapped
<1>7. Keeps(h, c, Leave(h, c, s, cs))
  BY <1>4, <1>5, LeaveKeeps
<1>8. Keeps(f, c, Leave(h, c, s, cs))
  BY <1>5, <1>6, <1>7 DEF Keeps
<1>9. Keeps(f, c, f)
  BY DEF Keeps
<1> QED
  BY <1>1, <1>8, <1>9 DEF Move

\* The loop keeps the line in order from the first coil to the last.
LEMMA MovedKeeps ==
  ASSUME nextCoil \in Nat, NEW cs, NEW s, NEW arriving, LoopInv(Unmoved(cs))
  PROVE  /\ LoopInv(Moved(cs, s, arriving))
         /\ ScrapLeaves /\ ScrappedIn(Unmoved(cs)) => ScrappedIn(Moved(cs, s, arriving))
<1> DEFINE n == Cardinality(DOMAIN cs)
           order == MovingOrder(cs)
<1>1. Unmoved(cs).coils = cs
  BY DEF Unmoved
<1>2. DOMAIN cs \in SUBSET Numbers(nextCoil)
  BY <1>1 DEF LoopInv, AreCoils
<1>3. IsFiniteSet(DOMAIN cs) /\ n \in Nat /\ DOMAIN cs \in SUBSET Nat
  BY <1>2, FiniteOnLine DEF Numbers
<1>4. /\ \A k \in 1..n : order[k] \in DOMAIN cs
      /\ \A k, l \in 1..n : order[k] = order[l] => k = l
  BY <1>3, OrderOfCoils
<1>5. PICK g : Steps(g, cs, s, arriving) /\ Moved(cs, s, arriving) = g[n]
  BY <1>3, MovedIs
<1> HIDE DEF n, order
<1>6. g[0] = Unmoved(cs) /\ \A k \in 1..n : g[k] = Move(g[k - 1], order[k], s, cs, arriving)
  BY <1>3, <1>5 DEF Steps, n, order
<1> DEFINE P(k) == /\ LoopInv(g[k]) /\ (ScrapLeaves /\ ScrappedIn(Unmoved(cs)) => ScrappedIn(g[k]))
                   /\ \A l \in (k + 1)..n : order[l] \in DOMAIN g[k].coils
           S == {k \in Nat : k <= n => P(k)}
<1>7. 0 \in S
  BY <1>1, <1>4, <1>6
<1>8. ASSUME NEW k \in Nat, k \in S PROVE k + 1 \in S
  <2> SUFFICES ASSUME k + 1 <= n PROVE P(k + 1)
    OBVIOUS
  <2>1. P(k) /\ k + 1 \in 1..n /\ (k + 1) - 1 = k
    BY <1>3, <1>8
  <2> DEFINE c == order[k + 1]
  <2>2. c \in DOMAIN g[k].coils
    BY <1>3, <2>1
  <2>3. g[k + 1] = Move(g[k], c, s, cs, arriving)
    BY <1>6, <2>1
  <2>4. Keeps(g[k], c, g[k + 1])
    BY <2>1, <2>2, <2>3, MoveKeeps
  <2>5. \A l \in ((k + 1) + 1)..n : order[l] \in DOMAIN g[k].coils /\ order[l] # c
    <3> TAKE l \in ((k + 1) + 1)..n
    <3>1. l \in (k + 1)..n /\ l \in 1..n /\ l # k + 1
      BY <1>3
    <3> QED
      BY <1>4, <2>1, <3>1
  <2> QED
    BY <2>1, <2>4, <2>5 DEF Keeps
<1>9. n \in S
  <2> HIDE DEF S
  <2>1. Nat \subseteq S
    BY <1>7, <1>8, ByInduction
  <2> QED
    BY <1>3, <2>1 DEF n
<1> QED
  BY <1>3, <1>5, <1>9 DEF n

-----------------------------------------------------------------------------
(* The line's invariants.                                                  *)

\* The line visits a machine once, as a route derived from a catalog does.
RouteOnce == \A j, k \in DOMAIN Route : Route[j] = Route[k] => j = k

CoilInv ==
  /\ nextCoil \in Nat \ {0} /\ AreCoils(coils, nextCoil)
  /\ exited \subseteq [coil : Numbers(nextCoil), at : Places]
  /\ rejects \subseteq Numbers(nextCoil)
  /\ CapacityIsKept
ScrapInv == ScrapLeaves => Scrapped(coils, exited, rejects, overwritten)
LineInv == CoilInv /\ ScrapInv

LEMMA FreshLine ==
  ASSUME RouteOnce
  PROVE  /\ Cardinality(DOMAIN FirstCoils) + 1 \in Nat \ {0}
         /\ AreCoils(FirstCoils, Cardinality(DOMAIN FirstCoils) + 1)
         /\ \A m \in Places : Cardinality(OnLine(FirstCoils, m)) <= Capacity[m]
         /\ \A c \in DOMAIN FirstCoils : FirstCoils[c].quality = "none"
<1> DEFINE n == IF Len(Route) < 3 THEN Len(Route) ELSE 3
<1>1. n \in Nat /\ n <= Len(Route) /\ n \in Int /\ 1 \in Int
  BY PlacesOfConstants
<1>2. FirstCoils = [c \in 1..n |-> _new_coil(Route[c])]
  BY DEF FirstCoils
<1> HIDE DEF n
<1>3. \A c \in 1..n : c \in DOMAIN Route /\ Route[c] \in Places
  BY <1>1, PlacesOfConstants
<1>4. \A c \in 1..n : /\ FirstCoils[c] \in Coil /\ FirstCoils[c].at = Route[c]
                      /\ FirstCoils[c].quality = "none"
  BY <1>2, <1>3 DEF _new_coil, Coil
<1>5. DOMAIN FirstCoils = 1..n /\ Cardinality(1..n) = n
  BY <1>1, <1>2, FS_Interval
<1>6. AreCoils(FirstCoils, n + 1)
  <2>1. Numbers(n + 1) = 1..n
    BY <1>1 DEF Numbers
  <2> QED
    BY <1>2, <1>4, <1>5, <2>1 DEF AreCoils
<1>7. ASSUME NEW m \in Places PROVE Cardinality(OnLine(FirstCoils, m)) <= Capacity[m]
  <2>1. Capacity[m] \in Nat /\ Capacity[m] >= 1
    BY PlacesOfConstants
  <2>2. CASE OnLine(FirstCoils, m) = {}
    BY <2>1, <2>2, FS_EmptySet
  <2>3. CASE OnLine(FirstCoils, m) # {}
    <3>1. PICK c \in 1..n : FirstCoils[c].at = m
      BY <1>5, <2>3 DEF OnLine
    <3>2. \A d \in 1..n : FirstCoils[d].at = m => d = c
      BY <1>3, <1>4, <3>1 DEF RouteOnce
    <3>3. OnLine(FirstCoils, m) = {c}
      BY <1>5, <3>1, <3>2 DEF OnLine
    <3>4. Cardinality(OnLine(FirstCoils, m)) = 1
      BY <3>3, FS_Singleton
    <3> QED
      BY <2>1, <3>4
  <2> QED
    BY <2>2, <2>3
<1>8. n + 1 \in Nat \ {0}
  BY <1>1
<1> QED
  BY <1>4, <1>5, <1>6, <1>7, <1>8

LEMMA LineInitInv == ASSUME RouteOnce, CoilInit PROVE LineInv
<1>1. CoilInv
  BY FreshLine DEF CoilInit, CoilInv, CapacityIsKept
<1>2. \A c \in DOMAIN coils : coils[c].quality = "none"
  BY FreshLine DEF CoilInit
<1>3. ScrapInv
  BY <1>2 DEF CoilInit, ScrapInv, Scrapped
<1> QED
  BY <1>1, <1>3 DEF LineInv

\* What does not move or mark a coil.
LEMMA StillKeeps ==
  ASSUME LineInv, UNCHANGED <<coils, nextCoil, exited, rejects, overwritten>>
  PROVE  LineInv'
<1>1. CoilInv' /\ ScrapInv'
  BY DEF LineInv, CoilInv, CapacityIsKept, ScrapInv
<1> QED
  BY <1>1 DEF LineInv

\* A hold, or its release, moves no coil.
LEMMA SameMachines ==
  ASSUME LineInv, NEW cs, cs \in [DOMAIN coils -> Coil],
         \A c \in DOMAIN coils : cs[c].at = coils[c].at
  PROVE  /\ AreCoils(cs, nextCoil)
         /\ \A m : OnLine(cs, m) = OnLine(coils, m)
  BY DEF LineInv, CoilInv, AreCoils, OnLine

LEMMA HoldKeeps ==
  ASSUME LineInv, NEW s, SetScenario(s)
  PROVE  LineInv'
<1>1. UNCHANGED <<nextCoil, exited, rejects>>
  BY DEF SetScenario
<1>2. CASE s \notin HoldScenarios
  BY <1>1, <1>2, StillKeeps DEF SetScenario
<1>3. CASE s \in HoldScenarios
  <2>1. /\ coils' = [c \in DOMAIN coils |-> [coils[c] EXCEPT !.quality = "hold"]]
        /\ overwritten' = overwritten \cup {c \in DOMAIN coils : coils[c].quality = "rejected"}
    BY <1>3 DEF SetScenario
  <2>2. coils \in [DOMAIN coils -> Coil]
    BY DEF LineInv, CoilInv, AreCoils
  <2>3. ASSUME NEW c \in DOMAIN coils
        PROVE  coils'[c] \in Coil /\ coils'[c].at = coils[c].at /\ coils'[c].quality = "hold"
    BY <2>1, <2>2 DEF Coil
  <2>4. coils' \in [DOMAIN coils -> Coil] /\ DOMAIN coils' = DOMAIN coils
    BY <2>1, <2>3
  <2>5. AreCoils(coils', nextCoil) /\ \A m : OnLine(coils', m) = OnLine(coils, m)
    BY <2>3, <2>4, SameMachines
  <2>6. CoilInv'
    BY <1>1, <2>5 DEF LineInv, CoilInv, CapacityIsKept
  <2>7. ScrapInv'
    BY <1>1, <2>1, <2>3, <2>4 DEF LineInv, ScrapInv, Scrapped
  <2> QED
    BY <2>6, <2>7 DEF LineInv
<1> QED
  BY <1>2, <1>3

LEMMA ReleasedCoils ==
  ASSUME LineInv
  PROVE  /\ Released(coils) \in [DOMAIN coils -> Coil]
         /\ \A c \in DOMAIN coils :
              /\ Released(coils)[c].at = coils[c].at
              /\ Released(coils)[c].quality = "rejected" <=> coils[c].quality = "rejected"
<1>1. coils \in [DOMAIN coils -> Coil]
  BY DEF LineInv, CoilInv, AreCoils
<1>2. ASSUME NEW c \in DOMAIN coils
      PROVE  /\ Released(coils)[c] \in Coil /\ Released(coils)[c].at = coils[c].at
             /\ Released(coils)[c].quality = "rejected" <=> coils[c].quality = "rejected"
  BY <1>1 DEF Released, Coil
<1>3. Released(coils) = [c \in DOMAIN coils |-> Released(coils)[c]]
  BY DEF Released
<1> QED
  BY <1>2, <1>3

\* The moves of a tick, from the coils as they are or as they were released.
LEMMA TickMoves ==
  ASSUME LineInv, NEW cs, cs \in [DOMAIN coils -> Coil], NEW s, NEW arriving,
         \A c \in DOMAIN coils : /\ cs[c].at = coils[c].at
                                 /\ cs[c].quality = "rejected" <=> coils[c].quality = "rejected",
         _move_coils(cs, s, arriving)
  PROVE  LineInv'
<1> DEFINE entry == Route[1]
           after == Moved(cs, s, arriving)
           enters == OnLine(cs, entry) \cup OnLine(after.coils, entry) = {} /\ Running(entry, s, cs)
           u == Unmoved(cs)
<1>1. nextCoil \in Nat /\ nextCoil # 0
  BY DEF LineInv, CoilInv
<1>2. LoopInv(u)
  <2>1. /\ u = [coils |-> cs, exited |-> exited, rejects |-> rejects,
                occupied |-> [m \in Places |-> Cardinality(OnLine(cs, m))]]
    BY DEF Unmoved
  <2>2. /\ u.coils = cs /\ u.exited = exited /\ u.rejects = rejects
        /\ u.occupied = [m \in Places |-> Cardinality(OnLine(cs, m))]
        /\ u = [coils |-> u.coils, exited |-> u.exited, rejects |-> u.rejects,
                occupied |-> u.occupied]
    BY <2>1
  <2>3. AreCoils(cs, nextCoil) /\ \A m : OnLine(cs, m) = OnLine(coils, m)
    BY SameMachines
  <2>4. \A m \in Places : /\ Cardinality(OnLine(cs, m)) \in Nat
                          /\ Cardinality(OnLine(cs, m)) <= Capacity[m]
    <3>1. DOMAIN coils \in SUBSET Numbers(nextCoil)
      BY DEF LineInv, CoilInv, AreCoils
    <3>2. \A m \in Places : Cardinality(OnLine(coils, m)) \in Nat
      BY <1>1, <3>1, FiniteOnLine
    <3> QED
      BY <2>3, <3>2 DEF LineInv, CoilInv, CapacityIsKept
  <2>5. u.occupied \in [Places -> Nat]
    BY <2>2, <2>4
  <2>6. \A m \in Places : /\ Cardinality(OnLine(u.coils, m)) <= u.occupied[m]
                          /\ u.occupied[m] <= Capacity[m]
    BY <2>2, <2>4
  <2> HIDE DEF u
  <2> QED
    BY <2>2, <2>3, <2>5, <2>6 DEF LoopInv, LineInv, CoilInv
<1>3. ScrapLeaves => ScrappedIn(u)
  <2>1. u.coils = cs /\ u.exited = exited /\ u.rejects = rejects /\ DOMAIN cs = DOMAIN coils
    BY DEF Unmoved
  <2> HIDE DEF u
  <2> QED
    BY <2>1 DEF LineInv, ScrapInv, ScrappedIn, Scrapped
<1>4. LoopInv(after) /\ (ScrapLeaves => ScrappedIn(after))
  BY <1>1, <1>2, <1>3, MovedKeeps
<1>5. /\ coils' = IF enters
                  THEN [c \in DOMAIN after.coils \cup {nextCoil} |->
                         IF c = nextCoil THEN _new_coil(entry) ELSE after.coils[c]]
                  ELSE after.coils
      /\ nextCoil' = IF enters THEN nextCoil + 1 ELSE nextCoil
      /\ exited' = after.exited /\ rejects' = after.rejects
      /\ overwritten' = overwritten \ {c \in DOMAIN after.coils : after.coils[c].quality = "rejected"}
  BY DEF _move_coils
<1> HIDE DEF after, u
<1>6. nextCoil' \in Nat /\ nextCoil' # 0 /\ Numbers(nextCoil) \subseteq Numbers(nextCoil')
      /\ nextCoil \notin Numbers(nextCoil)
      /\ (nextCoil' = nextCoil + 1 => nextCoil \in Numbers(nextCoil'))
  <2>1. nextCoil' \in {nextCoil, nextCoil + 1}
    BY <1>5
  <2>2. PICK n, l : n = nextCoil /\ l = nextCoil'
    OBVIOUS
  <2>3. n \in Nat /\ n # 0 /\ l \in {n, n + 1}
    BY <1>1, <2>1, <2>2
  <2>4. l \in Nat /\ l # 0 /\ Numbers(n) \subseteq Numbers(l) /\ n \notin Numbers(n)
        /\ (l = n + 1 => n \in Numbers(l))
    BY <2>3 DEF Numbers
  <2> QED
    BY <2>2, <2>4
<1>7. /\ after.coils \in [DOMAIN after.coils -> Coil]
      /\ DOMAIN after.coils \in SUBSET Numbers(nextCoil)
      /\ after.exited \subseteq [coil : Numbers(nextCoil), at : Places]
      /\ after.rejects \subseteq Numbers(nextCoil)
  BY <1>4 DEF LoopInv, AreCoils
<1>8. \A m \in Places : Cardinality(OnLine(after.coils, m)) <= Capacity[m]
  <2> TAKE m \in Places
  <2>1. /\ Cardinality(OnLine(after.coils, m)) <= after.occupied[m]
        /\ after.occupied[m] <= Capacity[m] /\ after.occupied[m] \in Nat
    BY <1>4 DEF LoopInv
  <2>2. Cardinality(OnLine(after.coils, m)) \in Nat /\ Capacity[m] \in Nat
    BY <1>1, <1>7, FiniteOnLine, PlacesOfConstants
  <2> QED
    BY <2>1, <2>2
<1>9. ScrapLeaves => Scrapped(after.coils, after.exited, after.rejects, overwritten')
  BY <1>4, <1>5 DEF ScrappedIn, Scrapped
<1>10. exited' \subseteq [coil : Numbers(nextCoil'), at : Places] /\ rejects' \subseteq Numbers(nextCoil')
  <2>1. [coil : Numbers(nextCoil), at : Places] \subseteq [coil : Numbers(nextCoil'), at : Places]
    BY <1>6
  <2> QED
    BY <1>5, <1>6, <1>7, <2>1
<1>11. CASE ~enters
  <2>1. coils' = after.coils /\ nextCoil' = nextCoil
    BY <1>5, <1>11
  <2>2. AreCoils(coils', nextCoil')
    BY <1>7, <2>1 DEF AreCoils
  <2>3. CoilInv'
    BY <1>6, <1>8, <1>10, <2>1, <2>2 DEF CoilInv, CapacityIsKept
  <2>4. ScrapInv'
    BY <1>5, <1>9, <2>1 DEF ScrapInv, ScrapLeaves
  <2> QED
    BY <2>3, <2>4 DEF LineInv
<1>12. CASE enters
  <2>1. /\ coils' = [c \in DOMAIN after.coils \cup {nextCoil} |->
                      IF c = nextCoil THEN _new_coil(entry) ELSE after.coils[c]]
        /\ nextCoil' = nextCoil + 1
    BY <1>5, <1>12
  <2>2. OnLine(after.coils, entry) = {}
    BY <1>12
  <2> HIDE DEF enters
  <2>3. entry \in Places
    BY PlacesOfConstants
  <2> HIDE DEF entry
  <2>4. /\ _new_coil(entry) \in Coil /\ _new_coil(entry).at = entry
        /\ _new_coil(entry).quality = "none"
    BY <2>3 DEF _new_coil, Coil
  <2>5. nextCoil \notin DOMAIN after.coils
    BY <1>6, <1>7
  <2>6. /\ DOMAIN coils' = DOMAIN after.coils \cup {nextCoil}
        /\ coils'[nextCoil] = _new_coil(entry)
        /\ \A c \in DOMAIN after.coils : coils'[c] = after.coils[c]
    BY <2>1, <2>5
  <2>7. AreCoils(coils', nextCoil')
    <3>1. \A c \in DOMAIN coils' : coils'[c] \in Coil
      BY <1>7, <2>4, <2>6
    <3>2. coils' \in [DOMAIN coils' -> Coil]
      BY <2>1, <3>1
    <3>3. DOMAIN coils' \in SUBSET Numbers(nextCoil')
      BY <1>6, <1>7, <2>1, <2>6
    <3> QED
      BY <3>2, <3>3 DEF AreCoils
  <2>8. ASSUME NEW m \in Places PROVE Cardinality(OnLine(coils', m)) <= Capacity[m]
    <3>1. CASE m = entry
      <4>1. OnLine(coils', m) = {nextCoil}
        BY <2>2, <2>4, <2>6, <3>1 DEF OnLine
      <4>2. Cardinality(OnLine(coils', m)) = 1 /\ Capacity[m] \in Nat \ {0}
        BY <4>1, FS_Singleton, PlacesOfConstants
      <4> QED
        BY <4>2
    <3>2. CASE m # entry
      <4>1. OnLine(coils', m) = OnLine(after.coils, m)
        BY <2>4, <2>6, <3>2 DEF OnLine
      <4> QED
        BY <1>8, <4>1
    <3> QED
      BY <3>1, <3>2
  <2>9. CoilInv'
    BY <1>6, <1>10, <2>7, <2>8 DEF CoilInv, CapacityIsKept
  <2>10. nextCoil \notin rejects' /\ \A e \in exited' : e.coil # nextCoil
    BY <1>5, <1>6, <1>7
  <2>11. ScrapInv'
    <3> SUFFICES ASSUME ScrapLeaves PROVE Scrapped(coils', exited', rejects', overwritten')
      BY DEF ScrapInv, ScrapLeaves
    <3>1. Scrapped(after.coils, exited', rejects', overwritten')
      BY <1>5, <1>9
    <3> QED
      BY <2>4, <2>6, <2>10, <3>1 DEF Scrapped
  <2> QED
    BY <2>9, <2>11 DEF LineInv
<1> QED
  BY <1>11, <1>12

LEMMA LineNextInv == ASSUME RouteOnce, LineInv, [CoilNext]_coilVars PROVE LineInv'
<1>1. CASE StartLine \/ PauseLine \/ PerformAction \/ Recover
  BY <1>1, StillKeeps DEF StartLine, PauseLine, PerformAction, Recover, historyVars
<1>2. CASE ResetLine
  <2>1. /\ coils' = FirstCoils /\ nextCoil' = Cardinality(DOMAIN FirstCoils) + 1
        /\ exited' = {} /\ rejects' = {} /\ overwritten' = {}
    BY <1>2 DEF ResetLine
  <2>2. CoilInv'
    BY <2>1, FreshLine DEF CoilInv, CapacityIsKept
  <2>3. \A c \in DOMAIN coils' : coils'[c].quality = "none"
    BY <2>1, FreshLine
  <2>4. ScrapInv'
    BY <2>1, <2>3 DEF ScrapInv, Scrapped
  <2> QED
    BY <2>2, <2>4 DEF LineInv
<1>3. CASE TickCoils
  <2>1. CASE settling > 1 /\ UNCHANGED <<disturbance, coils, nextCoil, historyVars>>
    BY <2>1, StillKeeps DEF historyVars
  <2>2. CASE \E arriving \in SUBSET {c \in DOMAIN coils : ~coils[c].there} :
               _move_coils(IF settling = 1 THEN Released(coils) ELSE coils, disturbance', arriving)
    <3>1. PICK arriving :
            _move_coils(IF settling = 1 THEN Released(coils) ELSE coils, disturbance', arriving)
      BY <2>2
    <3>2. PICK s : s = disturbance'
      OBVIOUS
    <3>3. CASE settling = 1
      BY <3>1, <3>2, <3>3, ReleasedCoils, TickMoves
    <3>4. CASE settling # 1
      <4>1. coils \in [DOMAIN coils -> Coil]
        BY DEF LineInv, CoilInv, AreCoils
      <4> QED
        BY <3>1, <3>2, <3>4, <4>1, TickMoves
    <3> QED
      BY <3>3, <3>4
  <2> QED
    BY <1>3, <2>1, <2>2 DEF TickCoils
<1>4. ASSUME NEW s, SetScenario(s) PROVE LineInv'
  BY <1>4, HoldKeeps
<1>5. CASE UNCHANGED coilVars
  BY <1>5, StillKeeps DEF coilVars
<1> QED
  BY <1>1, <1>2, <1>3, <1>4, <1>5 DEF CoilNext

LEMMA LineInvariant == ASSUME RouteOnce PROVE CoilSpec => []LineInv
<1>1. CoilInit => LineInv
  BY LineInitInv
<1>2. LineInv /\ [CoilNext]_coilVars => LineInv'
  BY LineNextInv
<1> QED
  BY <1>1, <1>2, PTL DEF CoilSpec

\* On a line that visits a machine once, no machine is overfilled.
THEOREM CapacityCorrect == ASSUME RouteOnce PROVE CoilSpec => []CapacityIsKept
<1>1. LineInv => CapacityIsKept
  BY DEF LineInv, CoilInv
<1> QED
  BY <1>1, LineInvariant, PTL

\* If the branch ends at a machine that hands nothing on, what was rejected leaves there.
THEOREM RejectsCorrect ==
  ASSUME RouteOnce, ScrapLeaves
  PROVE  CoilSpec => []RejectsLeaveAsScrap
<1>1. LineInv => RejectsLeaveAsScrap
  BY DEF LineInv, ScrapInv, Scrapped, RejectsLeaveAsScrap
<1> QED
  BY <1>1, LineInvariant, PTL
=============================================================================
