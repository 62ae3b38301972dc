----------------------------- MODULE PdaContext -----------------------------
(***************************************************************************)
(* The equipment a PDA is working on (pda.js): chosen by hand, by an alarm *)
(* or by a scan, and the questions asked about it.                         *)
(*                                                                         *)
(* The browser runs one thing at a time, but a function stops at each of   *)
(* its awaits and goes on when the answer comes: by then the worker may    *)
(* have left the screen or chosen another equipment.  A scan under way is  *)
(* a record that says at which await it stands and the token (S.scanRun)   *)
(* it was started under; a question under way is an element of `queries`.  *)
(* Scans are numbered in the order the Jetson received them.               *)
(***************************************************************************)
EXTENDS Integers, Sequences, FiniteSets

CONSTANTS
  Machinery,     \* equipment of the configuration the PDA has loaded
  Foreign,       \* a code the camera knows and the configuration does not
  MaxScanRuns, MaxUploads, MaxShots, MaxTurns   \* bounds

ASSUME ContextAssumption ==
  /\ Foreign \notin Machinery
  /\ {MaxScanRuns, MaxUploads, MaxShots, MaxTurns} \subseteq Nat

NoMachine == "no equipment"

VARIABLES
  screen,
  chosen,        \* S.eq
  origin,        \* S.scanId: the scan it was chosen by, 0 when chosen by hand
  chat,          \* S.chat: turns about the chosen equipment
  response,      \* S.queryResponse, S.ranked: the equipment the cards on screen are about
  scanRun,       \* S.scanRun
  scans,         \* at the Jetson: the equipment each uploaded scan stands for
  scanners,      \* startScan under way
  shots,         \* shootScan under way
  shotsTaken,
  turns,         \* S.chatSeq
  queries        \* /api/query requests whose answer has not been read

contextVars == <<screen, chosen, origin, chat, response, scanRun, scans, scanners,
                 shots, shotsTaken, turns, queries>>
scanning == <<scanners, shots, shotsTaken, scans>>
asking == <<turns, queries>>

LatestScanOf == Len(scans)

ContextInit ==
  /\ screen = "manual" /\ chosen = NoMachine /\ origin = 0 /\ chat = <<>>
  /\ response = NoMachine
  /\ scanRun = 0 /\ scans = <<>> /\ scanners = {} /\ shots = {} /\ shotsTaken = 0
  /\ turns = 0 /\ queries = {}

-----------------------------------------------------------------------------
(* Context and screens.                                                    *)

\* setContext: everything said about the equipment before is gone.
SetContext(e, n) ==
  /\ chosen' = e /\ origin' = n /\ chat' = <<>> /\ response' = NoMachine

releaseContext == SetContext(NoMachine, 0)

SameContext == UNCHANGED <<chosen, origin, chat, response>>

\* show(name): leaving the scan screen stops the scan that is under way.
Show(s) ==
  /\ screen' = s
  /\ scanRun' = IF screen = "scan" /\ s # "scan" THEN scanRun + 1 ELSE scanRun

\* "manual" stands for every screen that chooses or shows no equipment: home, the list.
GoTo(s) ==
  /\ screen # s
  /\ s = "manual" \/ (s = "ctx" /\ chosen # NoMachine)
  /\ Show(s)
  /\ SameContext /\ UNCHANGED <<scanning, asking>>

ChooseByHand(e) ==
  /\ screen = "manual"
  /\ SetContext(e, 0) /\ Show("ctx")
  /\ UNCHANGED <<scanning, asking>>

\* openAlertGo, from any screen: the equipment the warning named when it was tapped.
FollowAlert(e) ==
  /\ IF chosen = e THEN SameContext ELSE SetContext(e, 0)
  /\ Show("ctx")
  /\ UNCHANGED <<scanning, asking>>

-----------------------------------------------------------------------------
(* Scans.  The Jetson only ever tells its latest one.                      *)

\* The camera recognised something and uploaded it (POST /api/equipment/scan).
Upload(e) ==
  /\ Len(scans) < MaxUploads
  /\ scans' = Append(scans, e)
  /\ UNCHANGED <<screen, scanRun, scanners, shots, shotsTaken, asking>> /\ SameContext

startScan ==
  /\ scanRun < MaxScanRuns
  /\ scanRun' = scanRun + 1 /\ screen' = "scan"
  /\ scanners' = scanners \cup {[run |-> scanRun + 1, at |-> "config", base |-> 0]}
  /\ UNCHANGED <<scans, shots, shotsTaken, asking>> /\ SameContext

Ends(c) == scanners' = scanners \ {c}
GoesTo(c, at, base) ==
  scanners' = (scanners \ {c}) \cup {[c EXCEPT !.at = at, !.base = base]}
Stale(c) == c.run # scanRun

\* A code that is not in the configuration stands for no machine.
scanTarget(n) == IF scans[n] \in Machinery THEN scans[n] ELSE NoMachine

lockScan(n) == SetContext(scanTarget(n), n)

\* Whether Unity has a camera decides between the live picture and polling.
ConfigAnswered(c) ==
  /\ c.at = "config"
  /\ \/ Ends(c)
     \/ ~Stale(c) /\ GoesTo(c, "base", 0)
  /\ SameContext /\ UNCHANGED <<screen, scanRun, scans, shots, shotsTaken, asking>>

\* The scan that was there before does not count.
BaseAnswered(c) ==
  /\ c.at = "base"
  /\ IF Stale(c) THEN Ends(c) ELSE GoesTo(c, "poll", LatestScanOf)
  /\ SameContext /\ UNCHANGED <<screen, scanRun, scans, shots, shotsTaken, asking>>

\* failScan: the Jetson cannot be reached.  This await is the one whose failure
\* is acted upon without asking whether the scan is still wanted.
BaseFailed(c) ==
  /\ c.at = "base"
  /\ releaseContext
  /\ GoesTo(c, "failed", 0)
  /\ UNCHANGED <<screen, scanRun, scans, shots, shotsTaken, asking>>

StopsPolling(c) ==
  /\ c.at = "poll" /\ Stale(c)
  /\ Ends(c)
  /\ SameContext /\ UNCHANGED <<screen, scanRun, scans, shots, shotsTaken, asking>>

Recognised(c) ==
  /\ c.at = "poll" /\ ~Stale(c)
  /\ LatestScanOf # c.base
  /\ IF scanTarget(LatestScanOf) = NoMachine
     THEN releaseContext /\ GoesTo(c, "poll", LatestScanOf)
     ELSE lockScan(LatestScanOf) /\ GoesTo(c, "locked", LatestScanOf)
  /\ UNCHANGED <<screen, scanRun, scans, shots, shotsTaken, asking>>

\* 20 seconds without a machine.
PollingTimesOut(c) ==
  /\ c.at = "poll" /\ ~Stale(c)
  /\ releaseContext
  /\ GoesTo(c, "failed", 0)
  /\ UNCHANGED <<screen, scanRun, scans, shots, shotsTaken, asking>>

\* The timers: 420 ms after a machine was locked, 900 ms after a failure.
LockedScreen(c) ==
  /\ c.at = "locked"
  /\ IF screen = "scan" THEN Show("ctx") ELSE UNCHANGED <<screen, scanRun>>
  /\ Ends(c)
  /\ SameContext /\ UNCHANGED <<scans, shots, shotsTaken, asking>>

FailedScreen(c) ==
  /\ c.at = "failed"
  /\ IF screen = "scan" /\ ~Stale(c) THEN Show("manual") ELSE UNCHANGED <<screen, scanRun>>
  /\ Ends(c)
  /\ SameContext /\ UNCHANGED <<scans, shots, shotsTaken, asking>>

\* The button of Unity's camera (shootScan); it is enabled again by a new scan.
shootScan ==
  /\ screen = "scan" /\ shotsTaken < MaxShots
  /\ \A x \in shots : x.run # scanRun
  /\ shotsTaken' = shotsTaken + 1
  /\ shots' = shots \cup {[run |-> scanRun, at |-> "base", base |-> 0, n |-> shotsTaken + 1]}
  /\ UNCHANGED <<screen, scanRun, scans, scanners, asking>> /\ SameContext

ShotEnds(x) == shots' = shots \ {x}
ShotGoesTo(x, at, base) ==
  shots' = (shots \ {x}) \cup {[x EXCEPT !.at = at, !.base = base]}

ShotBase(x) ==
  /\ x.at = "base"
  /\ ShotGoesTo(x, "capture", LatestScanOf)
  /\ UNCHANGED <<screen, scanRun, scans, scanners, shotsTaken, asking>> /\ SameContext

\* Recognised well enough and sent: then the Jetson is asked, after a pause.
ShotCaptured(x) ==
  /\ x.at = "capture"
  /\ ~Stale(x)
  /\ ShotGoesTo(x, "read", x.base)
  /\ UNCHANGED <<screen, scanRun, scans, scanners, shotsTaken, asking>> /\ SameContext

\* Left, not recognised, not sent, not reachable, or asked ten times.
ShotGivesUp(x) ==
  /\ ShotEnds(x)
  /\ UNCHANGED <<screen, scanRun, scans, scanners, shotsTaken, asking>> /\ SameContext

\* The scan is locked as it is read: nothing asks again whether it is still wanted.
ShotRead(x) ==
  /\ x.at = "read"
  /\ LatestScanOf # x.base
  /\ IF scanTarget(LatestScanOf) = NoMachine
     THEN SameContext /\ ShotEnds(x) /\ UNCHANGED scanners
     ELSE /\ lockScan(LatestScanOf) /\ ShotEnds(x)
          /\ scanners' = scanners \cup {[run |-> x.run, at |-> "locked", base |-> LatestScanOf]}
  /\ UNCHANGED <<screen, scanRun, scans, shotsTaken, asking>>

-----------------------------------------------------------------------------
(* Questions.                                                              *)

Pending(t) == t.status = "pending"
chatPending == \E i \in DOMAIN chat : Pending(chat[i])

\* queryApiPayload: a scanned equipment goes by its scan, another by its id.
sendChat ==
  /\ screen = "ctx" /\ chosen # NoMachine /\ ~chatPending /\ turns < MaxTurns
  /\ turns' = turns + 1
  /\ chat' = Append(chat, [id |-> turns + 1, eq |-> chosen, status |-> "pending",
                           about |-> NoMachine])
  /\ queries' = queries \cup {[turn |-> turns + 1, eq |-> chosen, scan |-> origin,
                               about |-> NoMachine]}
  /\ UNCHANGED <<screen, chosen, origin, response, scanRun, scanning>>

\* query_service: only the latest scan still stands for an equipment.
Resolve(q) == IF q.scan = 0 THEN q.eq ELSE IF q.scan = LatestScanOf THEN scans[LatestScanOf] ELSE NoMachine

AnswerQuery(q) ==
  /\ q.about = NoMachine /\ Resolve(q) # NoMachine
  /\ queries' = (queries \ {q}) \cup {[q EXCEPT !.about = Resolve(q)]}
  /\ UNCHANGED <<screen, scanRun, scanning, turns>> /\ SameContext

\* Mutant: only the worker's own cancel is heeded.
TurnCancelled(q) == \E i \in DOMAIN chat : chat[i].id = q.turn /\ chat[i].status = "cancelled"
turnGone(q) ==
  \/ \A i \in DOMAIN chat : chat[i].id # q.turn
  \/ \E i \in DOMAIN chat : chat[i].id = q.turn /\ chat[i].status = "cancelled"
  \/ chosen # q.eq

WithTurn(q, status, about) ==
  [i \in DOMAIN chat |-> IF chat[i].id = q.turn
                         THEN [chat[i] EXCEPT !.status = status, !.about = about] ELSE chat[i]]

ReadAnswer(q) ==
  /\ q.about # NoMachine
  /\ queries' = queries \ {q}
  /\ IF turnGone(q) THEN UNCHANGED <<chat, response>>
     ELSE chat' = WithTurn(q, "done", q.about) /\ response' = q.about
  /\ UNCHANGED <<screen, chosen, origin, scanRun, scanning, turns>>

\* Refused, failed or timed out (125 s), whatever the server made of it.
QueryFails(q) ==
  /\ queries' = queries \ {q}
  /\ chat' = IF turnGone(q) THEN chat ELSE WithTurn(q, "error", NoMachine)
  /\ UNCHANGED <<screen, chosen, origin, response, scanRun, scanning, turns>>

\* The request itself is not called off.
cancelChat ==
  /\ screen = "ctx" /\ chatPending
  /\ chat' = [i \in DOMAIN chat |-> IF Pending(chat[i])
                                    THEN [chat[i] EXCEPT !.status = "cancelled"] ELSE chat[i]]
  /\ UNCHANGED <<screen, chosen, origin, response, scanRun, scanning, asking>>

-----------------------------------------------------------------------------
ContextNext ==
  \/ \E s \in {"manual", "ctx"} : GoTo(s)
  \/ \E e \in Machinery : ChooseByHand(e) \/ FollowAlert(e)
  \/ \E e \in Machinery \cup {Foreign} : Upload(e)
  \/ startScan \/ shootScan
  \/ \E c \in scanners : \/ ConfigAnswered(c) \/ BaseAnswered(c) \/ BaseFailed(c)
                         \/ StopsPolling(c) \/ Recognised(c) \/ PollingTimesOut(c)
                         \/ LockedScreen(c) \/ FailedScreen(c)
  \/ \E x \in shots : ShotBase(x) \/ ShotCaptured(x) \/ ShotGivesUp(x) \/ ShotRead(x)
  \/ sendChat \/ cancelChat
  \/ \E q \in queries : AnswerQuery(q) \/ ReadAnswer(q) \/ QueryFails(q)

ContextSpec == ContextInit /\ [][ContextNext]_contextVars

-----------------------------------------------------------------------------
\* However scans, alarms, cancelled questions and late answers interleave, what the
\* screen says about an equipment is about the one it shows: the answers, the cards
\* and their safety notices, and the machine the server was asked about.
AnswersFitTheScreen ==
  /\ response \in {NoMachine, chosen}
  /\ \A i \in DOMAIN chat : /\ chat[i].eq = chosen
                            /\ chat[i].status = "done" => chat[i].about = chosen
  /\ origin # 0 => scans[origin] = chosen

=============================================================================
