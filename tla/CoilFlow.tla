------------------------------ MODULE CoilFlow ------------------------------
(***************************************************************************)
(* The coils on the synthetic line (engine.py _move_coils): one tick moves *)
(* them from the end of the route to its start, a machine takes no more    *)
(* than its coil_capacity, rejected ones leave over the scrap branch from  *)
(* RT-03 to CV-02, and a quality hold keeps every coil where it is until   *)
(* the recovery ends.                                                      *)
(*                                                                         *)
(* Of a position only its end matters; when a coil gets there depends on   *)
(* the measured speed and is left open.  Alarms, components and measured   *)
(* values are MesLine's.                                                   *)
(***************************************************************************)
EXTENDS Integers, Sequences, FiniteSets, SequencesExt

CONSTANTS
  Route,        \* config.route
  ScrapFrom, ScrapTo,  \* the active material_flow branch between RT-03 and CV-02
  Capacity,     \* coil_capacity of each machine
  Disturbances, \* scenario ids but "normal" and "scrap_discharge"
  Prescribed,   \* those with recovery actions of their own
  HoldScenarios,  \* those with product_hold
  StopsAt,      \* the machines a scenario stops or makes wait
  Stabilizing,  \* recovery_ticks
  MaxCoils      \* bound: coils of a run

\* configuration.validate: capacities are positive and holds have release actions; _states
\* looks at nothing but the coils on hold while a hold is on.
ASSUME CoilAssumption ==
  /\ Route \in Seq(Range(Route)) /\ Len(Route) > 0 /\ ScrapFrom # ScrapTo
  /\ Capacity \in [Range(Route) \cup {ScrapFrom, ScrapTo} -> Nat \ {0}]
  /\ {"normal", "scrap_discharge"} \cap Disturbances = {}
  /\ HoldScenarios \subseteq Prescribed /\ Prescribed \subseteq Disturbances
  /\ StopsAt \in [Disturbances -> SUBSET DOMAIN Capacity]
  /\ \A s \in HoldScenarios : StopsAt[s] = {}
  /\ Stabilizing \in Nat \ {0} /\ MaxCoils \in Nat

VARIABLES
  lineOn,      \* _running
  disturbance, \* _scenario
  actionDone,   \* the plan's single action is among _completed_actions
  settling,    \* _recovery_ticks
  coils,       \* _coils: coil number -> where it is and its quality_status
  nextCoil,    \* _next_coil
  exited,      \* coil_exited events of the run
  rejects,     \* coils with a coil_rejected event
  overwritten  \* history: rejects whose quality_status a hold has replaced

coilVars == <<lineOn, disturbance, actionDone, settling, coils, nextCoil,
              exited, rejects, overwritten>>
historyVars == <<exited, rejects, overwritten>>

Places == DOMAIN Capacity
OnLine(cs, m) == {c \in DOMAIN cs : cs[c].at = m}

_new_coil(m) == [at |-> m, there |-> FALSE, quality |-> "none"]

\* zip(route, (0.2, 0.5, 0.8)): at most three coils to begin with.
FirstCoils == LET n == IF Len(Route) < 3 THEN Len(Route) ELSE 3
              IN [c \in 1..n |-> _new_coil(Route[c])]

CoilInit ==
  /\ lineOn = FALSE /\ disturbance = "normal" /\ actionDone = FALSE /\ settling = 0
  /\ coils = FirstCoils /\ nextCoil = Cardinality(DOMAIN FirstCoils) + 1
  /\ exited = {} /\ rejects = {} /\ overwritten = {}

-----------------------------------------------------------------------------
(* Commands.                                                               *)

StartLine ==
  /\ ~lineOn /\ lineOn' = TRUE
  /\ UNCHANGED <<disturbance, actionDone, settling, coils, nextCoil, historyVars>>

PauseLine ==
  /\ lineOn /\ lineOn' = FALSE
  /\ UNCHANGED <<disturbance, actionDone, settling, coils, nextCoil, historyVars>>

\* A hold replaces whatever quality_status a coil has.
SetScenario(s) ==
  /\ disturbance \notin Prescribed
  /\ disturbance' = s /\ actionDone' = FALSE /\ settling' = 0
  /\ IF s \in HoldScenarios
     THEN /\ coils' = [c \in DOMAIN coils |-> [coils[c] EXCEPT !.quality = "hold"]]
          /\ overwritten' = overwritten \cup
               {c \in DOMAIN coils : coils[c].quality = "rejected"}
     ELSE UNCHANGED <<coils, overwritten>>
  /\ UNCHANGED <<lineOn, nextCoil, exited, rejects>>

\* scrap_discharge has no plan, every other disturbance one of a single action.
PerformAction ==
  /\ disturbance \in Disturbances /\ settling = 0 /\ ~actionDone
  /\ actionDone' = TRUE
  /\ UNCHANGED <<lineOn, disturbance, settling, coils, nextCoil, historyVars>>

Recover ==
  /\ disturbance # "normal" /\ settling = 0
  /\ disturbance \in Prescribed => actionDone
  /\ settling' = Stabilizing
  /\ UNCHANGED <<lineOn, disturbance, actionDone, coils, nextCoil, historyVars>>

ResetLine ==
  /\ lineOn' = FALSE /\ disturbance' = "normal" /\ actionDone' = FALSE /\ settling' = 0
  /\ coils' = FirstCoils /\ nextCoil' = Cardinality(DOMAIN FirstCoils) + 1
  /\ exited' = {} /\ rejects' = {} /\ overwritten' = {}

-----------------------------------------------------------------------------
(* A tick.                                                                 *)

\* _states of a running line that is not recovering.
Running(m, s, cs) ==
  /\ s \in Disturbances => m \notin StopsAt[s]
  /\ s \in HoldScenarios => \A c \in OnLine(cs, m) : cs[c].quality # "hold"

Rank(m) == IF m \in Range(Route) THEN SelectInSeq(Route, LAMBDA r : r = m) ELSE 1000

\* Coils at the end of the route come first; machines off the route before them.
Ahead(cs, c) ==
  {d \in DOMAIN cs : \/ Rank(cs[d].at) > Rank(cs[c].at)
                     \/ Rank(cs[d].at) = Rank(cs[c].at) /\ d < c}
MovingOrder(cs) ==
  [k \in 1..Cardinality(DOMAIN cs) |->
    CHOOSE c \in DOMAIN cs : Cardinality(Ahead(cs, c)) = k - 1]

\* Mutant: the place a coil takes is not counted in its tick.
TransferUncounted(f, c, m) ==
  [f EXCEPT !.coils[c] = [at |-> m, there |-> FALSE, quality |-> @.quality],
            !.occupied = [f.occupied EXCEPT ![f.coils[c].at] = @ - 1]]

\* A coil goes on to m and takes its place from the count of this tick.
Transfer(f, c, m) ==
  LET left == [f.occupied EXCEPT ![f.coils[c].at] = @ - 1]
  IN [f EXCEPT !.coils[c] = [at |-> m, there |-> FALSE, quality |-> @.quality],
               !.occupied = [left EXCEPT ![m] = @ + 1]]

\* An exit does not free its place before the next tick.
Discharge(f, c) ==
  [f EXCEPT !.coils = [d \in DOMAIN f.coils \ {c} |-> f.coils[d]],
            !.exited = @ \cup {[coil |-> c, at |-> f.coils[c].at]}]

Reject(f, c) == [f EXCEPT !.coils[c].quality = "rejected", !.rejects = @ \cup {c}]

\* Mutant: a coil rejected earlier is sent over the branch only while the scenario is on.
TakesScrapInScenario(f, c, s) == f.coils[c].at = ScrapFrom /\ s = "scrap_discharge"

TakesScrap(f, c, s) ==
  /\ f.coils[c].at = ScrapFrom
  /\ s = "scrap_discharge" \/ f.coils[c].quality = "rejected"

\* Where a coil is discharged: at the end of the route, or off it.
LeavesAt(m) == m \notin Range(Route) \/ Rank(m) = Len(Route)

\* What _move_coils does with coil c at the end of its machine; before are the coils as the
\* tick found them.
Leave(f, c, s, before) ==
  LET m == f.coils[c].at
      rejected == Reject(f, c)
      next == Route[Rank(m) + 1]
      free(to) == Running(to, s, before) /\ f.occupied[to] < Capacity[to]
  IN CASE TakesScrap(f, c, s) ->
            IF free(ScrapTo) THEN Transfer(rejected, c, ScrapTo) ELSE rejected
       [] ~TakesScrap(f, c, s) /\ LeavesAt(m) -> Discharge(f, c)
       [] ~TakesScrap(f, c, s) /\ ~LeavesAt(m) ->
            IF free(next) THEN Transfer(f, c, next) ELSE f

\* The body of its loop: the machines' states are those before anything moved.
Move(f, c, s, before, arriving) ==
  IF \/ ~Running(f.coils[c].at, s, before) \/ f.coils[c].quality = "hold"
     \/ ~f.coils[c].there /\ c \notin arriving
  THEN f
  ELSE Leave([f EXCEPT !.coils[c].there = TRUE], c, s, before)

Unmoved(cs) == [coils |-> cs, exited |-> exited, rejects |-> rejects,
                occupied |-> [m \in Places |-> Cardinality(OnLine(cs, m))]]

\* The coils one after another.
Moved(cs, s, arriving) ==
  LET order == MovingOrder(cs)
      after[k \in 0..Cardinality(DOMAIN cs)] ==
        IF k = 0 THEN Unmoved(cs) ELSE Move(after[k - 1], order[k], s, cs, arriving)
  IN after[Cardinality(DOMAIN cs)]

_move_coils(cs, s, arriving) ==
  \E after \in {Moved(cs, s, arriving)} :
    LET entry == Route[1]
        enters == OnLine(cs, entry) \cup OnLine(after.coils, entry) = {} /\ Running(entry, s, cs)
    IN
    /\ coils' = IF enters
                THEN [c \in DOMAIN after.coils \cup {nextCoil} |->
                       IF c = nextCoil THEN _new_coil(entry) ELSE after.coils[c]]
                ELSE after.coils
    /\ nextCoil' = IF enters THEN nextCoil + 1 ELSE nextCoil
    /\ exited' = after.exited /\ rejects' = after.rejects
    /\ overwritten' = overwritten \ {c \in DOMAIN after.coils : after.coils[c].quality = "rejected"}

Released(cs) ==
  [c \in DOMAIN cs |-> IF cs[c].quality = "hold" THEN [cs[c] EXCEPT !.quality = "released"]
                       ELSE cs[c]]

\* tick: the last recovery tick releases what is on hold and moves the coils.
TickCoils ==
  /\ lineOn
  /\ UNCHANGED <<lineOn, actionDone>>
  /\ \/ /\ settling > 1 /\ settling' = settling - 1
        /\ UNCHANGED <<disturbance, coils, nextCoil, historyVars>>
     \/ /\ settling <= 1 /\ settling' = 0
        /\ disturbance' = IF settling = 1 THEN "normal" ELSE disturbance
        /\ \E arriving \in SUBSET {c \in DOMAIN coils : ~coils[c].there} :
             _move_coils(IF settling = 1 THEN Released(coils) ELSE coils, disturbance', arriving)
        /\ nextCoil' <= MaxCoils + 1

CoilNext ==
  \/ StartLine \/ PauseLine \/ PerformAction \/ Recover \/ ResetLine \/ TickCoils
  \/ \E s \in Disturbances \cup {"normal", "scrap_discharge"} : SetScenario(s)

CoilSpec == CoilInit /\ [][CoilNext]_coilVars

-----------------------------------------------------------------------------
\* However the moves of one tick follow one another - in, through, over the branch, after a
\* hold or a standstill - no machine holds more coils than its coil_capacity.
CapacityIsKept == \A m \in Places : Cardinality(OnLine(coils, m)) <= Capacity[m]

\* A coil that was rejected leaves the line over the scrap branch, whatever scenarios, stops
\* and full machines come between - unless a hold replaced its quality_status meanwhile.
RejectsLeaveAsScrap ==
  \A e \in exited : e.coil \in rejects \ overwritten => e.at = ScrapTo

=============================================================================
