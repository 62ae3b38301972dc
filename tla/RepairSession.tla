--------------------------- MODULE RepairSession ---------------------------
(***************************************************************************)
(* Repair sessions of the PDA (server.py, "resolution" handlers): a worker *)
(* asks about a deviation, opens a session, records actions - some drive   *)
(* the simulated line - and has the MES judge whether the line recovered.  *)
(* The line underneath is MesLine, with operators, ticks, resets and       *)
(* restarts going on as they please between any two of these requests.     *)
(***************************************************************************)
EXTENDS MesLine

CONSTANTS
  Sessions,
  MaxSteps,   \* a session holds up to 20 steps
  MaxQueries  \* bound: questions asked

VARIABLES
  evidence,  \* query_evidence: the first reading stored under each (run, simulated_at, equipment)
  asked,     \* questions asked so far
  ask,       \* the query whose answer is being generated outside the lock
  answer,    \* the last answer's evidence, as the PDA keeps it
  session,   \* resolution_sessions
  touched    \* history: the session has changed the line

repairSessionVars == <<evidence, asked, ask, answer, session, touched>>
allVars == <<vars, repairSessionVars>>

NoReading == [run |-> 0, at |-> 0, eq |-> "none", signal |-> NoSignal]
Reading(e) == [run |-> run, at |-> seq, eq |-> e, signal |-> Deviation(e)]
SameKey(x, y) == x.run = y.run /\ x.at = y.at /\ x.eq = y.eq

NoSession == [phase |-> "none", before |-> NoReading, steps |-> <<>>, verdict |-> "none",
              judged |-> <<>>]

SessionInit ==
  /\ Init
  /\ evidence = {} /\ asked = 0 /\ ask = NoReading /\ answer = NoReading
  /\ session = [s \in Sessions |-> NoSession]
  /\ touched = [s \in Sessions |-> FALSE]

-----------------------------------------------------------------------------
(* Queries: the reading is taken under the lock when the question arrives, *)
(* and stored when the answer is done.                                     *)

Ask(e) ==
  /\ ask = NoReading /\ asked < MaxQueries
  /\ asked' = asked + 1
  /\ ask' = Reading(e)
  /\ UNCHANGED <<vars, evidence, answer, session, touched>>

\* INSERT OR IGNORE: the first reading of a simulated time stays.
Answer ==
  /\ ask # NoReading
  /\ evidence' = IF \E x \in evidence : SameKey(x, ask) THEN evidence ELSE evidence \cup {ask}
  /\ answer' = ask
  /\ ask' = NoReading
  /\ UNCHANGED <<vars, asked, session, touched>>

\* The model fails or the review of a served card changed (503): nothing is stored.
Refuse ==
  /\ ask # NoReading
  /\ ask' = NoReading
  /\ UNCHANGED <<vars, evidence, asked, answer, session, touched>>

-----------------------------------------------------------------------------
(* The session.                                                            *)

Opened(before) == [NoSession EXCEPT !.phase = "open", !.before = before]

\* What the PDA sends is only the key; without a stored reading the line is read now.
OpenFromAnswer(s, e) ==
  /\ session[s].phase = "none"
  /\ answer.eq = e
  /\ session' = [session EXCEPT ![s] =
       IF \E x \in evidence : SameKey(x, answer)
       THEN Opened(CHOOSE x \in evidence : SameKey(x, answer)) ELSE Opened(Reading(e))]
  /\ UNCHANGED <<vars, evidence, asked, ask, answer, touched>>

OpenNow(s, e) ==
  /\ session[s].phase = "none"
  /\ session' = [session EXCEPT ![s] = Opened(Reading(e))]
  /\ UNCHANGED <<vars, evidence, asked, ask, answer, touched>>

EquipmentOf(s) == session[s].before.eq

\* Mutant: a judgement outlives the steps recorded after it.
WithStepsKeepingVerdict(s, steps) == [session[s] EXCEPT !.steps = steps]
WithSteps(s, steps) == [session[s] EXCEPT !.steps = steps, !.verdict = "none", !.judged = <<>>]

\* A step is TRUE when it was linked to the simulated line (mes_linked).
Record(s, linked) ==
  /\ session[s].phase = "open"
  /\ Len(session[s].steps) < MaxSteps
  /\ session' = [session EXCEPT ![s] = WithSteps(s, Append(session[s].steps, linked))]
  /\ UNCHANGED <<evidence, asked, ask, answer>>

\* An action in the worker's words, or a chip that is not this equipment's turn.
RecordAction(s) == Record(s, FALSE) /\ UNCHANGED <<vars, touched>>

\* _sim_link: the chip of the plan's action is performed on the line; if the line
\* refuses, the request fails and no step is left.
RecordConfirmation(s) ==
  /\ PlanEquipment = EquipmentOf(s) /\ ~done
  /\ PerformAction
  /\ Record(s, TRUE)
  /\ touched' = [touched EXCEPT ![s] = TRUE]

\* The restart chip; on a line that is back to normal it changes nothing and is linked all the same.
RecordRestart(s) ==
  /\ PlanEquipment = EquipmentOf(s)
  /\ \/ Recover /\ touched' = [touched EXCEPT ![s] = @ \/ ticks = 0]
     \/ scenario = "normal" /\ UNCHANGED <<vars, touched>>
  /\ Record(s, TRUE)

\* Mutant: a linked step can be removed like any other.
RemovableAlways(linked) == TRUE
\* What was done to the line cannot be taken back, so its record stays.
Removable(linked) == ~linked

Remove(s, n) ==
  /\ session[s].phase = "open"
  /\ n \in DOMAIN session[s].steps /\ Removable(session[s].steps[n])
  /\ LET steps == session[s].steps
     IN  session' = [session EXCEPT ![s] = WithSteps(s,
           SubSeq(steps, 1, n - 1) \o SubSeq(steps, n + 1, Len(steps)))]
  /\ UNCHANGED <<vars, evidence, asked, ask, answer, touched>>

RemoveAll(s) ==
  /\ session[s].phase = "open"
  /\ LET steps == session[s].steps
     IN  session' = [session EXCEPT ![s] = WithSteps(s,
           Selected(steps, {n \in DOMAIN steps : ~Removable(steps[n])}))]
  /\ UNCHANGED <<vars, evidence, asked, ask, answer, touched>>

-----------------------------------------------------------------------------
(* The judgement: check_with_mes, _recovery_event and verdict_of.          *)

IsRecovery(x, e) == x.type = "recovered" \/ (x.type = "alarm_cleared" /\ x.eq = e)

\* Events waiting for the next tick count as happening now, after any question.
RecoveryEvent(before) ==
  /\ before.run = run
  /\ \/ \E i \in DOMAIN events : events[i].at > before.at /\ IsRecovery(events[i].event, before.eq)
     \/ \E i \in DOMAIN pending : IsRecovery(pending[i], before.eq)

\* Mutant: an alarm still active at the equipment does not matter.
VerdictWithoutAlarms(before) ==
  IF before.signal = NoSignal THEN "unconfirmed"
  ELSE IF Deviation(before.eq) = before.signal THEN "not_yet"
  ELSE IF ~RecoveryEvent(before) THEN "unconfirmed"
  ELSE "recovered"

Verdict(before) ==
  IF before.signal = NoSignal THEN "unconfirmed"
  ELSE IF Deviation(before.eq) = before.signal \/ alarm.eq = before.eq THEN "not_yet"
  ELSE IF ~RecoveryEvent(before) THEN "unconfirmed"
  ELSE "recovered"

Judged(s) == [session[s] EXCEPT !.verdict = Verdict(session[s].before), !.judged = session[s].steps]

FinishSession(s) ==
  /\ session[s].phase = "open"
  /\ session' = [session EXCEPT ![s] = Judged(s)]
  /\ UNCHANGED <<vars, evidence, asked, ask, answer, touched>>

\* The handover that closes the session keeps the judgement it has, or gets one now.
SaveHandover(s) ==
  /\ session[s].phase = "open"
  /\ session' = [session EXCEPT ![s] =
       [(IF session[s].verdict = "none" THEN Judged(s) ELSE session[s]) EXCEPT !.phase = "saved"]]
  /\ UNCHANGED <<vars, evidence, asked, ask, answer, touched>>

-----------------------------------------------------------------------------
LineStep ==
  /\ Commands \/ Tick \/ TickNotSaved
  /\ UNCHANGED repairSessionVars

\* The answer being generated dies with the process; the database and the PDA keep the rest.
ServerRestart ==
  /\ Restart
  /\ ask' = NoReading
  /\ UNCHANGED <<evidence, asked, answer, session, touched>>

SessionNext ==
  \/ LineStep \/ ServerRestart \/ Answer \/ Refuse
  \/ \E e \in Equipment : Ask(e)
  \/ \E s \in Sessions, e \in Equipment : OpenFromAnswer(s, e) \/ OpenNow(s, e)
  \/ \E s \in Sessions :
       \/ RecordAction(s) \/ RecordConfirmation(s) \/ RecordRestart(s)
       \/ RemoveAll(s) \/ FinishSession(s) \/ SaveHandover(s)
       \/ \E n \in 1..MaxSteps : Remove(s, n)

SessionSpec == SessionInit /\ [][SessionNext]_allVars

-----------------------------------------------------------------------------
(* Properties.                                                             *)

FaultInForce(e) == scenario \in Faults /\ Cause[scenario] = e /\ Code[scenario] # NoCode /\ ticks = 0

\* "MES recovered" is said of an equipment only when no alarming fault is in force there,
\* or the line is already recovering from it - although past events count as recovery.
RecoveredMeansRecovered ==
  [][\A s \in Sessions :
       session'[s].verdict = "recovered" /\ session[s].verdict # "recovered" =>
         ~FaultInForce(EquipmentOf(s))]_allVars

\* A judgement, in particular the one filed with the handover, has looked at every step on record.
VerdictCoversSteps ==
  \A s \in Sessions :
    /\ session[s].verdict # "none" => session[s].judged = session[s].steps
    /\ session[s].phase = "saved" => session[s].verdict # "none"

\* A session that has changed the line keeps a step that says so, whatever is removed later.
LineChangesStayOnRecord ==
  \A s \in Sessions : touched[s] => \E n \in DOMAIN session[s].steps : session[s].steps[n]

\* The reading a session is judged by is the one the answer it starts from was given on.
SessionJudgesWhatAnswerShowed ==
  [][\A s \in Sessions, e \in Equipment :
       OpenFromAnswer(s, e) => session'[s].before.signal = answer.signal]_allVars

=============================================================================
