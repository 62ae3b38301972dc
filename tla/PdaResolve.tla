----------------------------- MODULE PdaResolve -----------------------------
(***************************************************************************)
(* The repair record of a PDA (pda.js): what the screen holds of a repair  *)
(* session (S.res), the requests it sends about it, and the sessions the   *)
(* server keeps (RepairSession models the server's side in full).          *)
(*                                                                         *)
(* A request is sent, handled by the server under its lock, and its answer *)
(* is read; the PDA gives up after 8 seconds, and what it sent may then    *)
(* have been handled, or be handled later.  S.res is an object: the code   *)
(* that awaits an answer holds on to the one it started with - except      *)
(* openResolve, which looks S.res up again.                                *)
(*                                                                         *)
(* Leaving the record for another screen puts it on the way back           *)
(* (navigationStack), and a scan that answers late changes the equipment   *)
(* under whatever screen is shown.  Going home empties the way back; the   *)
(* model leaves that out, since nobody has to go back.                     *)
(***************************************************************************)
EXTENDS Subsequences

CONSTANTS
  Stations,      \* equipment the worker turns to
  Chips,         \* actions offered as chips: card steps and the plan's actions
  Linked,        \* those among them that also drive the line
  Typed,         \* what a worker may type instead
  MaxOpened,   \* bound: repair records opened
  MaxLost,       \* bound: answers lost
  MaxDone,       \* bound: steps of a session (20)
  MaxSent,       \* bound: requests sent
  MaxBehind,     \* bound: records on the way back that the worker may return to
  MaxStrays      \* bound: changes of equipment under the screen

ASSUME ResolveAssumption ==
  /\ Linked \subseteq Chips /\ Chips \cap Typed = {}
  /\ {MaxOpened, MaxLost, MaxDone, MaxSent, MaxBehind, MaxStrays} \subseteq Nat

Unknown == "undefined"
NoAction == "none"
NoStation == "null"

VARIABLES
  station,    \* S.eq
  page,       \* the equipment whose answers the chat last drawn shows
  resolving,  \* the record is on screen, not the chat or the work report
  behind,     \* how often navigationStack holds the record's screen
  res,        \* S.res
  opened,     \* repair records opened so far
  requests,   \* sent and not yet read
  sent,       \* how many
  repairs,    \* the server's sessions
  handedOver,     \* the record last taken over into a work report
  strayed,    \* history: changes of equipment under the screen
  lost,       \* history: answers the PDA did not wait for
  crossed     \* history: the answer to another record's start came to the one on screen

place == <<station, page, resolving, behind, strayed>>
resolveVars == <<place, res, opened, requests, sent, repairs, handedOver, lost, crossed>>

NoRes == [id |-> 0, eq |-> Unknown, turn |-> Unknown, session |-> 0, steps |-> <<>>, live |-> NoAction,
          busy |-> FALSE, phase |-> "work"]
NoReport == [eq |-> Unknown, session |-> 0, from |-> Unknown]

ResolveInit ==
  /\ station \in Stations /\ page = station /\ resolving = FALSE /\ behind = 0 /\ strayed = 0
  /\ res = NoRes /\ opened = 0
  /\ requests = {} /\ sent = 0 /\ repairs = <<>> /\ handedOver = NoReport
  /\ lost = 0 /\ crossed = FALSE

-----------------------------------------------------------------------------
(* Requests.                                                               *)

Request(kind, arg) ==
  [kind |-> kind, by |-> res'.id, awaited |-> TRUE, session |-> res'.session, arg |-> arg,
   copy |-> sent', state |-> "sent", steps |-> <<>>]

Send(kind, arg) ==
  /\ sent < MaxSent /\ sent' = sent + 1
  /\ requests' = requests \cup {Request(kind, arg)}

\* What awaits a step of a record that is no longer on screen changes nothing any more.
Cares(q) == q.kind = "start"
Forsaken(q) == [q EXCEPT !.awaited = @ /\ Cares(q)]

Becomes(q, state, session, steps) ==
  requests' = IF q.awaited
              THEN (requests \ {q}) \cup {[q EXCEPT !.state = state, !.session = session, !.steps = steps]}
              ELSE requests \ {q}

ServeRequest(q, steps) ==
  /\ repairs' = [repairs EXCEPT ![q.session].steps = steps]
  /\ Becomes(q, "done", q.session, steps)
  /\ UNCHANGED <<place, res, opened, sent, handedOver, lost, crossed>>

ServeStart(q) ==
  /\ q.state = "sent" /\ q.kind = "start"
  /\ repairs' = Append(repairs, [eq |-> q.arg, steps |-> <<>>])
  /\ Becomes(q, "done", Len(repairs) + 1, <<>>)
  /\ UNCHANGED <<place, res, opened, sent, handedOver, lost, crossed>>

ServeStep(q) ==
  /\ q.state = "sent" /\ q.kind = "step"
  /\ Len(repairs[q.session].steps) < MaxDone
  /\ ServeRequest(q, Append(repairs[q.session].steps, q.arg))

Kept(steps, n) == Selected(steps, DOMAIN steps \ {n})
IsLinked(a) == a \in Linked

ServeRemove(q) ==
  /\ q.state = "sent" /\ q.kind = "remove"
  /\ q.arg \in DOMAIN repairs[q.session].steps
  /\ ~IsLinked(repairs[q.session].steps[q.arg])
  /\ ServeRequest(q, Kept(repairs[q.session].steps, q.arg))

ServeClear(q) ==
  /\ q.state = "sent" /\ q.kind = "clear"
  /\ LET steps == repairs[q.session].steps
     IN  ServeRequest(q, Selected(steps, {i \in DOMAIN steps : IsLinked(steps[i])}))

ServeFinish(q) ==
  /\ q.state = "sent" /\ q.kind = "finish"
  /\ Becomes(q, "done", q.session, <<>>)
  /\ UNCHANGED <<place, res, opened, sent, repairs, handedOver, lost, crossed>>

\* An order that does not exist, a linked step, a full session, a line that refuses, a fault.
ServeRefuse(q) ==
  /\ q.state = "sent"
  /\ Becomes(q, "refused", q.session, <<>>)
  /\ UNCHANGED <<place, res, opened, sent, repairs, handedOver, lost, crossed>>

-----------------------------------------------------------------------------
(* What the worker does.                                                   *)

\* show: a screen that is left other than by going back is on the way back.
LeaveForward ==
  /\ resolving' = FALSE
  /\ behind' = IF resolving /\ behind < MaxBehind THEN behind + 1 ELSE behind
\* Showing the chat draws it again, if equipment is set.
Drawn == IF station = NoStation THEN page ELSE station

\* setContext and the chat, by the manual list, a scan or an alarm; S.res stays.
TurnTo(e) ==
  /\ station' = e /\ page' = e /\ LeaveForward
  /\ UNCHANGED <<strayed, res, opened, requests, sent, repairs, handedOver, lost, crossed>>

\* A scan still awaited when its screen was left sets its equipment all the same
\* (shootScan), or none (failScan); what is on screen stays as it was drawn.
LateScan(e) ==
  /\ e # station /\ strayed < MaxStrays
  /\ station' = e /\ strayed' = strayed + 1
  /\ UNCHANGED <<page, resolving, behind, res, opened, requests, sent, repairs, handedOver, lost, crossed>>

\* goBack, from the record to the chat it was opened from,
BackToChat ==
  /\ resolving
  /\ resolving' = FALSE /\ page' = Drawn
  /\ UNCHANGED <<station, behind, strayed, res, opened, requests, sent, repairs, handedOver, lost, crossed>>

\* and from a screen it was left for to the record.
ReturnToRecord ==
  /\ ~resolving /\ behind > 0
  /\ resolving' = TRUE /\ behind' = behind - 1
  /\ UNCHANGED <<station, page, strayed, res, opened, requests, sent, repairs, handedOver, lost, crossed>>

\* The button under an answer in the chat opens a record about that answer,
RecordOpens(busy) ==
  /\ ~resolving /\ opened < MaxOpened
  /\ opened' = opened + 1 /\ resolving' = TRUE
  /\ res' = [NoRes EXCEPT !.id = opened + 1, !.eq = station, !.turn = page, !.busy = busy]
  /\ UNCHANGED <<station, page, behind, strayed, repairs, handedOver, lost, crossed>>
Forgotten == {Forsaken(q) : q \in {p \in requests : Cares(p) \/ p.state = "sent"}}

\* and asks for a session of the equipment set by now.
openResolve ==
  /\ station # NoStation /\ RecordOpens(TRUE)
  /\ sent < MaxSent /\ sent' = sent + 1
  /\ requests' = Forgotten \cup {Request("start", station)}

\* With none set that fails before anything is sent.
openResolveFails ==
  /\ station = NoStation /\ RecordOpens(FALSE)
  /\ requests' = Forgotten
  /\ UNCHANGED sent

Idle == resolving /\ ~res.busy /\ res.session # 0
Recording == Idle /\ res.phase = "work"
Shown == {res.steps[i].action : i \in DOMAIN res.steps}

\* A row that is not done; toggleAction also refuses while busy.  Mutant: it does not look.
MayTapAnyRow(a) == resolving /\ res.session # 0 /\ res.phase = "work" /\ a \in Chips
MayTap(a) == Recording /\ a \in Chips \ Shown

completeStep(a) ==
  /\ res' = [res EXCEPT !.live = a, !.busy = TRUE]
  /\ Send("step", a)
  /\ UNCHANGED <<place, opened, repairs, handedOver, lost, crossed>>

TapChip(a) == MayTap(a) /\ completeStep(a)
addCustomStep(a) == Recording /\ a \in Typed /\ completeStep(a)

\* Tapping a row that is done takes it back, unless it drove the line.
removeStep(i) ==
  /\ Recording
  /\ ~IsLinked(res.steps[i].action)
  /\ res' = [res EXCEPT !.busy = TRUE]
  /\ Send("remove", res.steps[i].order)
  /\ UNCHANGED <<place, opened, repairs, handedOver, lost, crossed>>

clearSteps ==
  /\ Recording
  /\ \E i \in DOMAIN res.steps : ~IsLinked(res.steps[i].action)
  /\ res' = [res EXCEPT !.busy = TRUE]
  /\ Send("clear", 0)
  /\ UNCHANGED <<place, opened, repairs, handedOver, lost, crossed>>

finishResolve ==
  /\ Recording /\ res.live = NoAction /\ res.steps # <<>>
  /\ res' = [res EXCEPT !.busy = TRUE]
  /\ Send("finish", 0)
  /\ UNCHANGED <<place, opened, repairs, handedOver, lost, crossed>>

MoreSteps ==
  /\ resolving /\ ~res.busy /\ res.phase = "wrap"
  /\ res' = [res EXCEPT !.phase = "work"]
  /\ UNCHANGED <<place, opened, requests, sent, repairs, handedOver, lost, crossed>>

\* reportWith does nothing while no equipment is set.
reportFromSession(from) ==
  /\ station # NoStation
  /\ handedOver' = [eq |-> station, session |-> res.session, from |-> from]
  /\ page' = station /\ LeaveForward
  /\ UNCHANGED <<station, strayed, res, opened, requests, sent, repairs, lost, crossed>>

\* From the result of the repair.
ReportResult ==
  /\ Idle /\ res.phase = "wrap" /\ res.live = NoAction
  /\ reportFromSession("record")

\* Mutant: the answer's equipment is not compared.
ReportAnySession ==
  /\ ~resolving
  /\ res.session # 0 /\ res.steps # <<>>
  /\ reportFromSession("chat")
\* From the chat, whatever stage the record is in (resumableSession).
ReportFromChat ==
  /\ ~resolving
  /\ res.session # 0 /\ res.steps # <<>> /\ res.turn = station
  /\ reportFromSession("chat")

-----------------------------------------------------------------------------
(* Answers.                                                                *)

Own(q) == q.by = res.id
AnswerOf(q, state) == q.awaited /\ q.state = state
Read(q) ==
  /\ requests' = requests \ {q}
  /\ UNCHANGED <<place, opened, sent, repairs, handedOver, lost>>
NoteCrossing(q) == crossed' = (crossed \/ (q.kind = "start" /\ ~Own(q)))

\* openResolve assigns the session to whatever record is open by then.
StartRead(q) ==
  /\ q.kind = "start" /\ AnswerOf(q, "done")
  /\ res' = [res EXCEPT !.session = q.session, !.busy = FALSE]
  /\ NoteCrossing(q)
  /\ Read(q)

StepRead(q) ==
  /\ q.kind = "step" /\ AnswerOf(q, "done")
  /\ res' = [res EXCEPT !.live = NoAction, !.busy = FALSE,
                  !.steps = Append(@, [order |-> Len(q.steps), action |-> q.arg])]
  /\ Read(q) /\ UNCHANGED crossed

\* The steps the server still has, in its order, with the words this screen kept.
RemoveRead(q) ==
  /\ q.kind \in {"remove", "clear"} /\ AnswerOf(q, "done")
  /\ LET Stays(s) == IF q.kind = "clear" THEN IsLinked(s.action) ELSE s.order # q.arg
         kept == Selected(res.steps, {i \in DOMAIN res.steps : Stays(res.steps[i])})
     IN  res' = [res EXCEPT !.busy = FALSE,
           !.steps = [i \in DOMAIN q.steps |->
              [order |-> i, action |-> IF i \in DOMAIN kept THEN kept[i].action ELSE Unknown]]]
  /\ Read(q) /\ UNCHANGED crossed

FinishRead(q) ==
  /\ q.kind = "finish" /\ AnswerOf(q, "done")
  /\ res' = [res EXCEPT !.phase = "wrap", !.busy = FALSE]
  /\ Read(q) /\ UNCHANGED crossed

\* Mutant: after a failure the screen stays busy.
FailedStaysBusy(q) == res
\* The finally of each of them; openResolve's is S.res's again.
Failed(q) == [res EXCEPT !.busy = FALSE]

RefusalRead(q) ==
  /\ AnswerOf(q, "refused")
  /\ res' = Failed(q)
  /\ NoteCrossing(q)
  /\ Read(q)

\* Timeout or a broken connection: nobody waits any more for what was sent.
GiveUp(q) ==
  /\ q.awaited /\ lost < MaxLost
  /\ lost' = lost + 1
  /\ res' = Failed(q)
  /\ NoteCrossing(q)
  /\ requests' = (requests \ {q}) \cup
                 (IF q.state = "sent" THEN {[q EXCEPT !.awaited = FALSE]} ELSE {})
  /\ UNCHANGED <<place, opened, sent, repairs, handedOver>>

-----------------------------------------------------------------------------
ResolveNext ==
  \/ \E e \in Stations : TurnTo(e)
  \/ \E e \in Stations \cup {NoStation} : LateScan(e)
  \/ BackToChat \/ ReturnToRecord \/ openResolve \/ openResolveFails \/ clearSteps \/ finishResolve \/ MoreSteps
  \/ \E a \in Chips \cup Typed : TapChip(a) \/ addCustomStep(a)
  \/ \E i \in DOMAIN res.steps : removeStep(i)
  \/ ReportResult \/ ReportFromChat
  \/ \E q \in requests :
       \/ ServeStart(q) \/ ServeStep(q) \/ ServeRemove(q) \/ ServeClear(q)
       \/ ServeFinish(q) \/ ServeRefuse(q)
       \/ StartRead(q) \/ StepRead(q) \/ RemoveRead(q) \/ FinishRead(q)
       \/ RefusalRead(q) \/ GiveUp(q)

ResolveSpec == ResolveInit /\ [][ResolveNext]_resolveVars

-----------------------------------------------------------------------------
\* The repair record never locks up: while it refuses taps there is an answer it is
\* still waiting for, whatever failed, timed out or was overtaken before.
BusyMeansWaiting ==
  res.busy => \E q \in requests : q.by = res.id /\ q.awaited

\* As long as every answer was heard and came to the record that asked, an idle screen
\* shows the steps of its session, in their order, whatever was taken back in between.
ScreenShowsTheSession ==
  lost = 0 /\ ~crossed /\ ~res.busy /\ res.session # 0 =>
    /\ repairs[res.session].eq = res.eq
    /\ res.steps = [i \in DOMAIN repairs[res.session].steps |->
                      [order |-> i, action |-> repairs[res.session].steps[i]]]

\* A work report begun from the chat names a repair session of its own equipment,
\* however often the worker turned elsewhere and went back in between, unless a late
\* scan or a crossed answer had already set the record against another machine.
ChatReportsNameTheirOwnSession ==
  handedOver.from = "chat" /\ strayed = 0 /\ ~crossed =>
    handedOver.session # 0 /\ repairs[handedOver.session].eq = handedOver.eq

\* A work report only takes over the repair session of the equipment it is about.
ReportsNameTheirOwnSession ==
  handedOver.session # 0 => repairs[handedOver.session].eq = handedOver.eq

=============================================================================
