---------------------------- MODULE RandomFaults ----------------------------
(***************************************************************************)
(* The random mode of the line (random_factory.py, fault_schedule.py):     *)
(* short faults that come and go on several machines, each announced by a  *)
(* warning and a restoration in the event log, until somebody chooses a    *)
(* scenario, which ends the mode until the next reset.  A fault's signals, *)
(* shape and random draws are left open; its machine and its end are kept. *)
(***************************************************************************)
EXTENDS Integers, FiniteSets

CONSTANTS
  Options,       \* machines that some pattern fits
  MaxActive,     \* faults at the same time (3)
  Durations,     \* ticks a fault lasts (10..30)
  Rests,         \* ticks its machine is spared afterwards (8..25)
  Never,
  MaxSequence    \* bound

ASSUME RandomAssumption ==
  /\ Durations \subseteq Nat \ {0} /\ Rests \subseteq Nat \ {0}
  /\ MaxActive \in Nat /\ MaxSequence \in Nat

VARIABLES
  lineWorks,      \* engine._running
  _manual_mode,
  lineSequence,   \* engine._sequence
  last_sequence,  \* of the scheduler
  activeFaults,   \* scheduler.active: machine, start, end
  cooldown,       \* machine -> tick until which it is spared
  previous_faults,\* the faults of the last tick
  unrestored      \* warnings in the log without a restoration

randomVars == <<lineWorks, _manual_mode, lineSequence, last_sequence,
                activeFaults, cooldown, previous_faults, unrestored>>

Names(faults_) == {<<f.machine, f.start>> : f \in faults_}   \* their numbers
Occupied(faults_) == {f.machine : f \in faults_}

Scheduler ==
  /\ last_sequence' = Never /\ activeFaults' = {}
  /\ cooldown' = [e \in Options |-> 0]
  /\ previous_faults' = {}

RandomInit ==
  /\ lineWorks = FALSE /\ _manual_mode = FALSE /\ lineSequence = 0
  /\ last_sequence = Never /\ activeFaults = {}
  /\ cooldown = [e \in Options |-> 0]
  /\ previous_faults = {} /\ unrestored = {}

\* A tick the scheduler accepts: the next one, or any first one.
Expected(sequence) == last_sequence # Never => sequence = last_sequence + 1

\* Mutant: the machines of the faults in progress are not left out.
FreshAnywhere(sequence, going) == {e \in Options : sequence >= cooldown'[e]}
\* Faults begin on machines that are neither occupied nor spared.
Fresh(sequence, going) ==
  {e \in Options \ Occupied(going) : sequence >= cooldown'[e]}

Begun(sequence, lasting) ==
  {[machine |-> e, start |-> sequence, end |-> sequence + lasting[e]] : e \in DOMAIN lasting}

TickRandom ==
  /\ lineWorks /\ ~_manual_mode /\ lineSequence < MaxSequence
  /\ lineSequence' = lineSequence + 1
  /\ Expected(lineSequence')
  /\ LET sequence == lineSequence'
         over == {f \in activeFaults : sequence >= f.end}
         going == activeFaults \ over
     IN /\ \E rest \in [Occupied(over) -> Rests] :
             cooldown' = [e \in Options |-> IF e \in DOMAIN rest THEN sequence + rest[e]
                                            ELSE cooldown[e]]
        /\ \E machines \in SUBSET Fresh(sequence, going) :
             /\ Cardinality(going) + Cardinality(machines) <= MaxActive
             /\ \E lasting \in [machines -> Durations] :
                  activeFaults' = going \cup Begun(sequence, lasting)
        /\ last_sequence' = sequence
  /\ previous_faults' = Names(activeFaults')
  /\ unrestored' = (unrestored \cup (Names(activeFaults') \ previous_faults))
                     \ (previous_faults \ Names(activeFaults'))
  /\ UNCHANGED <<lineWorks, _manual_mode>>

\* In the manual mode the line ticks and the scheduler does not.
TickManual ==
  /\ lineWorks /\ _manual_mode /\ lineSequence < MaxSequence
  /\ lineSequence' = lineSequence + 1
  /\ UNCHANGED <<lineWorks, _manual_mode, last_sequence, activeFaults,
                 cooldown, previous_faults, unrestored>>

SwitchWork ==
  /\ lineWorks' = ~lineWorks
  /\ UNCHANGED <<_manual_mode, lineSequence, last_sequence, activeFaults,
                 cooldown, previous_faults, unrestored>>

\* set_scenario forgets the faults without a word in the log.
SetScenarioManual ==
  /\ _manual_mode' = TRUE /\ activeFaults' = {} /\ previous_faults' = {}
  /\ UNCHANGED <<lineWorks, lineSequence, last_sequence, cooldown, unrestored>>

\* Mutant: the scheduler lives on.
ResetKeepsScheduler ==
  /\ lineSequence > 0
  /\ lineWorks' = FALSE /\ _manual_mode' = FALSE /\ lineSequence' = 0
  /\ unrestored' = {}
  /\ UNCHANGED <<last_sequence, activeFaults, cooldown, previous_faults>>
\* reset: a new run with an empty log and a new scheduler.
ResetRandom ==
  /\ lineSequence > 0
  /\ lineWorks' = FALSE /\ _manual_mode' = FALSE /\ lineSequence' = 0
  /\ Scheduler /\ unrestored' = {}

RandomNext ==
  \/ TickRandom \/ TickManual \/ SwitchWork \/ SetScenarioManual \/ ResetRandom

RandomSpec == RandomInit /\ [][RandomNext]_randomVars

-----------------------------------------------------------------------------
(* Properties.                                                             *)

\* The tick after any sequence of commands is one the scheduler accepts: it
\* never refuses a tick as skipped, which would end the ticker's thread.
SchedulerKeepsUp == ~_manual_mode => Expected(lineSequence + 1)

\* While the mode lasts, the warnings the log leaves open are the faults in
\* progress, and there is at most one on a machine.
WarningsFollowFaults ==
  ~_manual_mode =>
    /\ unrestored = Names(activeFaults)
    /\ \A f, g \in activeFaults : f.machine = g.machine => f = g
=============================================================================
