------------------------------ MODULE PdaProofs ------------------------------
(* Proofs about the PDA, for every plant, every number of workers and all  *)
(* bounds: its repair record, what it saves, who is signed in, and the     *)
(* equipment its screen is about.                                          *)
EXTENDS PdaContext, PdaResolve, PdaReports, PdaLogin, SubsequenceFacts, TLAPS

-----------------------------------------------------------------------------
(* The repair record.                                                      *)

IsRes(r) ==
  r = [id |-> r.id, eq |-> r.eq, turn |-> r.turn, session |-> r.session, steps |-> r.steps, live |-> r.live,
       busy |-> r.busy, phase |-> r.phase]

IsRequest(q) ==
  q = [kind |-> q.kind, by |-> q.by, awaited |-> q.awaited, session |-> q.session,
       arg |-> q.arg, copy |-> q.copy, state |-> q.state, steps |-> q.steps]

BusyInv ==
  /\ IsRes(res)
  /\ \A q \in requests : IsRequest(q)
  /\ BusyMeansWaiting

\* The server's handling of a request keeps it if somebody waits for it.
LEMMA BecomesKeeps ==
  ASSUME BusyInv, NEW q \in requests, NEW state, NEW session, NEW steps,
         Becomes(q, state, session, steps), res' = res
  PROVE  BusyInv'
<1>1. IsRequest(q)
  BY DEF BusyInv
<1>2. PICK done : done = [q EXCEPT !.state = state, !.session = session, !.steps = steps]
  OBVIOUS
<1>3. IsRequest(done) /\ done.by = q.by /\ done.awaited = q.awaited
  BY <1>1, <1>2 DEF IsRequest
<1>4. requests' = IF q.awaited THEN (requests \ {q}) \cup {done} ELSE requests \ {q}
  BY <1>2 DEF Becomes
<1> QED
  BY <1>3, <1>4 DEF BusyInv, BusyMeansWaiting

\* A record that is idle is waiting for nothing.
LEMMA IdleKeeps ==
  ASSUME BusyInv, IsRes(res'), res'.busy = FALSE, \A q \in requests' : IsRequest(q)
  PROVE  BusyInv'
  BY DEF BusyInv, BusyMeansWaiting

\* What the record on screen sends it waits for.
LEMMA SendKeeps ==
  ASSUME BusyInv, NEW kind, NEW arg, Send(kind, arg), IsRes(res')
  PROVE  BusyInv'
<1>1. Request(kind, arg) \in requests'
  BY DEF Send
<1>2. Request(kind, arg).by = res'.id /\ Request(kind, arg).awaited
  BY DEF Request
<1>3. \A q \in requests' : IsRequest(q)
  BY DEF Send, Request, IsRequest, BusyInv
<1> QED
  BY <1>1, <1>2, <1>3 DEF BusyInv, BusyMeansWaiting

LEMMA BusyNextInv == BusyInv /\ [ResolveNext]_resolveVars => BusyInv'
<1> SUFFICES ASSUME BusyInv, [ResolveNext]_resolveVars PROVE BusyInv'
  OBVIOUS
<1>0. IsRes(res) /\ \A q \in requests : IsRequest(q)
  BY DEF BusyInv
<1>1. ASSUME NEW e \in Stations, TurnTo(e) PROVE BusyInv'
  BY <1>1 DEF TurnTo, BusyInv, BusyMeansWaiting
<1>2. CASE BackToChat \/ ReturnToRecord \/ ReportResult \/ ReportFromChat
           \/ \E e \in Stations \cup {NoStation} : LateScan(e)
  BY <1>2 DEF BackToChat, ReturnToRecord, LateScan, ReportResult, ReportFromChat, reportFromSession,
              BusyInv, BusyMeansWaiting
<1>3. CASE openResolve
  <2> DEFINE asked == Request("start", station)
  <2>1. /\ res' = [NoRes EXCEPT !.id = opened + 1, !.eq = station, !.turn = page, !.busy = TRUE]
        /\ asked \in requests'
        /\ \A q \in requests' : q = asked \/ \E p \in requests : q = Forsaken(p)
    BY <1>3 DEF openResolve, RecordOpens, Forgotten
  <2>2. IsRes(res')
    BY <2>1 DEF IsRes, NoRes
  <2>3. asked.by = res'.id /\ asked.awaited = TRUE /\ IsRequest(asked)
    BY DEF Request, IsRequest
  <2>4. ASSUME NEW p \in requests PROVE IsRequest(Forsaken(p))
    BY <1>0 DEF Forsaken, IsRequest
  <2> HIDE DEF asked
  <2> QED
    BY <2>1, <2>2, <2>3, <2>4 DEF BusyInv, BusyMeansWaiting
<1>3a. CASE openResolveFails
  <2>1. /\ res' = [NoRes EXCEPT !.id = opened + 1, !.eq = station, !.turn = page, !.busy = FALSE]
        /\ \A q \in requests' : \E p \in requests : q = Forsaken(p)
    BY <1>3a DEF openResolveFails, RecordOpens, Forgotten
  <2>2. IsRes(res') /\ res'.busy = FALSE
    BY <2>1 DEF IsRes, NoRes
  <2>3. ASSUME NEW p \in requests PROVE IsRequest(Forsaken(p))
    BY <1>0 DEF Forsaken, IsRequest
  <2> QED
    BY <2>1, <2>2, <2>3, IdleKeeps
<1>4. ASSUME NEW a \in Chips \cup Typed, TapChip(a) \/ addCustomStep(a) PROVE BusyInv'
  <2>1. Send("step", a) /\ res' = [res EXCEPT !.live = a, !.busy = TRUE]
    BY <1>4 DEF TapChip, addCustomStep, completeStep
  <2>2. IsRes(res')
    BY <1>0, <2>1 DEF IsRes
  <2> QED
    BY <2>1, <2>2, SendKeeps
<1>5. ASSUME NEW i \in DOMAIN res.steps, removeStep(i) PROVE BusyInv'
  <2>1. Send("remove", res.steps[i].order) /\ res' = [res EXCEPT !.busy = TRUE]
    BY <1>5 DEF removeStep
  <2>2. IsRes(res')
    BY <1>0, <2>1 DEF IsRes
  <2> QED
    BY <2>1, <2>2, SendKeeps
<1>6. CASE clearSteps
  <2>1. Send("clear", 0) /\ res' = [res EXCEPT !.busy = TRUE]
    BY <1>6 DEF clearSteps
  <2>2. IsRes(res')
    BY <1>0, <2>1 DEF IsRes
  <2> QED
    BY <2>1, <2>2, SendKeeps
<1>7. CASE finishResolve
  <2>1. Send("finish", 0) /\ res' = [res EXCEPT !.busy = TRUE]
    BY <1>7 DEF finishResolve
  <2>2. IsRes(res')
    BY <1>0, <2>1 DEF IsRes
  <2> QED
    BY <2>1, <2>2, SendKeeps
<1>8. CASE MoreSteps
  <2>1. res' = [res EXCEPT !.phase = "work"] /\ requests' = requests
    BY <1>8 DEF MoreSteps
  <2>2. IsRes(res') /\ res'.id = res.id /\ res'.busy = res.busy
    BY <1>0, <2>1 DEF IsRes
  <2> QED
    BY <2>1, <2>2 DEF BusyInv, BusyMeansWaiting
<1>9. ASSUME NEW q \in requests, ServeStart(q) PROVE BusyInv'
  BY <1>9, BecomesKeeps DEF ServeStart
<1>10. ASSUME NEW q \in requests, ServeStep(q) PROVE BusyInv'
  BY <1>10, BecomesKeeps DEF ServeStep, ServeRequest
<1>11. ASSUME NEW q \in requests, ServeRemove(q) PROVE BusyInv'
  BY <1>11, BecomesKeeps DEF ServeRemove, ServeRequest
<1>12. ASSUME NEW q \in requests, ServeClear(q) PROVE BusyInv'
  BY <1>12, BecomesKeeps DEF ServeClear, ServeRequest
<1>13. ASSUME NEW q \in requests, ServeFinish(q) \/ ServeRefuse(q) PROVE BusyInv'
  BY <1>13, BecomesKeeps DEF ServeFinish, ServeRefuse
<1>14. ASSUME NEW q \in requests, StartRead(q) PROVE BusyInv'
  <2>1. /\ res' = [res EXCEPT !.session = q.session, !.busy = FALSE]
        /\ requests' = requests \ {q}
    BY <1>14 DEF StartRead, Read
  <2>2. IsRes(res') /\ res'.busy = FALSE
    BY <1>0, <2>1 DEF IsRes
  <2> QED
    BY <1>0, <2>1, <2>2, IdleKeeps
<1>15. ASSUME NEW q \in requests, StepRead(q) PROVE BusyInv'
  <2>1. \E told : res' = [res EXCEPT !.live = NoAction, !.busy = FALSE, !.steps = told]
    <3>1. PICK told : told = Append(res.steps, [order |-> Len(q.steps), action |-> q.arg])
      OBVIOUS
    <3>2. res' = [res EXCEPT !.live = NoAction, !.busy = FALSE, !.steps = told]
      BY <1>15, <3>1, Zenon DEF StepRead
    <3> QED
      BY <3>2, Zenon
  <2>2. IsRes(res') /\ res'.busy = FALSE
    BY <1>0, <2>1 DEF IsRes
  <2>3. requests' = requests \ {q}
    BY <1>15 DEF StepRead, Read
  <2> QED
    BY <1>0, <2>2, <2>3, IdleKeeps
<1>16. ASSUME NEW q \in requests, RemoveRead(q) PROVE BusyInv'
  <2>1. \E told : res' = [res EXCEPT !.busy = FALSE, !.steps = told]
    BY <1>16 DEF RemoveRead
  <2>2. IsRes(res') /\ res'.busy = FALSE
    BY <1>0, <2>1 DEF IsRes
  <2>3. requests' = requests \ {q}
    BY <1>16 DEF RemoveRead, Read
  <2> QED
    BY <1>0, <2>2, <2>3, IdleKeeps
<1>17. ASSUME NEW q \in requests, FinishRead(q) PROVE BusyInv'
  <2>1. res' = [res EXCEPT !.phase = "wrap", !.busy = FALSE] /\ requests' = requests \ {q}
    BY <1>17 DEF FinishRead, Read
  <2>2. IsRes(res') /\ res'.busy = FALSE
    BY <1>0, <2>1 DEF IsRes
  <2> QED
    BY <1>0, <2>1, <2>2, IdleKeeps
<1>18. ASSUME NEW q \in requests, RefusalRead(q) PROVE BusyInv'
  <2>1. res' = [res EXCEPT !.busy = FALSE] /\ requests' = requests \ {q}
    BY <1>18 DEF RefusalRead, Failed, Read
  <2>2. IsRes(res') /\ res'.busy = FALSE
    BY <1>0, <2>1 DEF IsRes
  <2> QED
    BY <1>0, <2>1, <2>2, IdleKeeps
<1>19. ASSUME NEW q \in requests, GiveUp(q) PROVE BusyInv'
  <2>1. /\ res' = [res EXCEPT !.busy = FALSE]
        /\ requests' = (requests \ {q}) \cup
             (IF q.state = "sent" THEN {[q EXCEPT !.awaited = FALSE]} ELSE {})
    BY <1>19 DEF GiveUp, Failed
  <2>2. IsRes(res') /\ res'.busy = FALSE
    BY <1>0, <2>1 DEF IsRes
  <2>3. IsRequest([q EXCEPT !.awaited = FALSE])
    <3>1. PICK dropped : dropped = [q EXCEPT !.awaited = FALSE]
      OBVIOUS
    <3>2. IsRequest(dropped)
      BY <1>0, <3>1 DEF IsRequest
    <3> QED
      BY <3>1, <3>2
  <2> QED
    BY <1>0, <2>1, <2>2, <2>3, IdleKeeps
<1>20. CASE UNCHANGED resolveVars
  BY <1>20 DEF resolveVars, BusyInv, BusyMeansWaiting
<1> QED
  BY <1>1, <1>2, <1>3, <1>3a, <1>4, <1>5, <1>6, <1>7, <1>8, <1>9, <1>10, <1>11, <1>12, <1>13,
     <1>14, <1>15, <1>16, <1>17, <1>18, <1>19, <1>20 DEF ResolveNext

\* A repair record that refuses taps is waiting for an answer.
THEOREM BusyCorrect == ResolveSpec => []BusyMeansWaiting
<1>1. ResolveInit => BusyInv
  BY DEF ResolveInit, NoRes, BusyInv, BusyMeansWaiting, IsRes
<1>2. BusyInv => BusyMeansWaiting
  BY DEF BusyInv
<1> QED
  BY <1>1, <1>2, BusyNextInv, PTL DEF ResolveSpec

-----------------------------------------------------------------------------
(* What the repair record shows.                                           *)

\* The steps on screen are those of a session.
Matches(shown, steps) ==
  shown = [i \in DOMAIN steps |-> [order |-> i, action |-> steps[i]]]

\* What the server makes of a session's steps for a request.
Effect(q, steps) ==
  CASE q.kind = "step" -> Append(steps, q.arg)
    [] q.kind = "remove" -> Kept(steps, q.arg)
    [] q.kind = "clear" -> Selected(steps, {i \in DOMAIN steps : IsLinked(steps[i])})

Edits(q) == q.kind \in {"step", "remove", "clear"}
Actions == Chips \cup Typed
Mine(q) == q.by = res.id

ResolveTypes ==
  /\ lost \in Nat /\ opened \in Nat /\ res.id = opened
  /\ repairs \in Seq([eq : Stations, steps : Seq(Actions)])
  /\ res.session \in 0..Len(repairs) /\ station \in Stations \cup {NoStation}

RequestTypes(q) ==
  /\ q.by \in Nat /\ q.by <= opened
  /\ q.session \in 0..Len(repairs)
  /\ q.kind = "start" => q.arg \in Stations
  /\ q.kind # "start" => q.session # 0
  /\ q.kind = "step" => q.arg \in Actions

\* The start the screen waits for: its session is nobody else's.
StartAwaited(q) ==
  /\ res.session = 0 /\ res.steps = <<>> /\ q.arg = res.eq
  /\ q.state = "done" =>
       /\ q.session # 0 /\ repairs[q.session].eq = res.eq /\ repairs[q.session].steps = <<>>
       /\ \A p \in requests : p # q => p.session # q.session

Answered(q) == Edits(q) /\ q.state = "done"

\* An answer to an edit holds what the server has, made from what is on screen.
EditAwaited(q) ==
  /\ q.session = res.session /\ (Edits(q) \/ q.kind = "finish")
  /\ Answered(q) =>
       /\ q.steps = repairs[res.session].steps
       /\ \E old \in Seq(Actions) : Matches(res.steps, old) /\ q.steps = Effect(q, old)

\* What other records sent is about other sessions, and only a start is waited for.
OthersApart ==
  \A q \in requests : ~Mine(q) =>
    /\ q.awaited => q.kind = "start"
    /\ res.session # 0 => q.session # res.session

OneOfMine == \A p, q \in requests : Mine(p) /\ Mine(q) => p = q

MineAwaited ==
  \A q \in requests : Mine(q) =>
    /\ res.busy /\ q.awaited
    /\ q.kind = "start" => StartAwaited(q)
    /\ q.kind # "start" => EditAwaited(q)

ScreenMatches ==
  res.session # 0 =>
    /\ repairs[res.session].eq = res.eq
    /\ (\A q \in requests : Mine(q) => ~Answered(q)) =>
         Matches(res.steps, repairs[res.session].steps)

Heard == OthersApart /\ OneOfMine /\ MineAwaited /\ ScreenMatches

ScreenInv ==
  /\ ResolveTypes /\ \A q \in requests : RequestTypes(q)
  /\ lost = 0 /\ ~crossed => Heard

LEMMA ScreenInvImplies == ScreenInv => ScreenShowsTheSession
<1> SUFFICES ASSUME ScreenInv, lost = 0, ~crossed, ~res.busy, res.session # 0
             PROVE  /\ repairs[res.session].eq = res.eq
                    /\ Matches(res.steps, repairs[res.session].steps)
  BY DEF ScreenShowsTheSession, Matches
<1>1. Heard
  BY DEF ScreenInv
<1>2. \A q \in requests : ~Mine(q)
  BY <1>1 DEF Heard, MineAwaited
<1> QED
  BY <1>1, <1>2 DEF Heard, ScreenMatches

LEMMA EffectType ==
  ASSUME NEW q, Edits(q), q.kind = "step" => q.arg \in Actions, NEW steps \in Seq(Actions)
  PROVE  Effect(q, steps) \in Seq(Actions)
<1>1. CASE q.kind = "step"
  BY <1>1 DEF Effect
<1>2. CASE q.kind = "remove"
  <2>1. DOMAIN steps \ {q.arg} \in SUBSET DOMAIN steps
    OBVIOUS
  <2> QED
    BY <1>2, <2>1, SelectedElements DEF Effect, Kept
<1>3. CASE q.kind = "clear"
  <2> DEFINE I == {i \in DOMAIN steps : IsLinked(steps[i])}
  <2>1. I \in SUBSET DOMAIN steps
    OBVIOUS
  <2>2. Effect(q, steps) = Selected(steps, I)
    BY <1>3 DEF Effect
  <2> HIDE DEF I
  <2> QED
    BY <2>1, <2>2, SelectedElements
<1> QED
  BY <1>1, <1>2, <1>3 DEF Edits

\* The rows the screen keeps are the steps the server kept, under new numbers.
LEMMA RowsKept ==
  ASSUME NEW q, q.kind \in {"remove", "clear"}, NEW old \in Seq(Actions), NEW shown,
         Matches(shown, old),
         NEW I, I = {i \in DOMAIN shown : IF q.kind = "clear" THEN IsLinked(shown[i].action)
                                                              ELSE shown[i].order # q.arg}
  PROVE  /\ DOMAIN Selected(shown, I) = DOMAIN Effect(q, old)
         /\ \A k \in DOMAIN Effect(q, old) : Selected(shown, I)[k].action = Effect(q, old)[k]
<1>1. DOMAIN shown = DOMAIN old /\ \A i \in DOMAIN old : shown[i].order = i /\ shown[i].action = old[i]
  BY DEF Matches
<1>2. Effect(q, old) = Selected(old, I)
  <2>1. CASE q.kind = "clear"
    <3>1. I = {i \in DOMAIN old : IsLinked(old[i])}
      BY <1>1, <2>1
    <3> QED
      BY <2>1, <3>1 DEF Effect
  <2>2. CASE q.kind = "remove"
    <3>1. I = DOMAIN old \ {q.arg}
      BY <1>1, <2>2
    <3> QED
      BY <2>2, <3>1 DEF Effect, Kept
  <2> QED
    BY <2>1, <2>2
<1>3. I \in SUBSET (1..Len(old)) /\ Len(old) \in Nat /\ DOMAIN old = 1..Len(old)
  BY <1>1
<1>4. \A k \in 1..Cardinality(I) : Nth(I, k) \in I
  BY <1>3, NthNumbers
<1>5. Cardinality(I) \in Nat
  BY <1>3, FiniteNumbers
<1>6. PICK f, g : f = Selected(shown, I) /\ g = Selected(old, I)
  OBVIOUS
<1>7. /\ DOMAIN f = 1..Cardinality(I) /\ DOMAIN g = 1..Cardinality(I)
      /\ \A k \in 1..Cardinality(I) : f[k] = shown[Nth(I, k)] /\ g[k] = old[Nth(I, k)]
  BY <1>6 DEF Selected
<1>8. \A k \in 1..Cardinality(I) : f[k].action = g[k]
  <2> TAKE k \in 1..Cardinality(I)
  <2>1. PICK i \in DOMAIN old : i = Nth(I, k)
    BY <1>3, <1>4
  <2>2. f[k] = shown[i] /\ g[k] = old[i]
    BY <1>7, <2>1
  <2> QED
    BY <1>1, <2>2
<1> QED
  BY <1>2, <1>6, <1>7, <1>8

\* A step that changes nothing of this.
LEMMA QuietKeeps ==
  ASSUME ScreenInv, UNCHANGED <<requests, repairs, opened, lost, crossed>>,
         station' \in Stations \cup {NoStation},
         res'.id = res.id, res'.session = res.session, res'.eq = res.eq,
         res'.steps = res.steps, res'.busy = res.busy
  PROVE  ScreenInv'
<1>1. ResolveTypes' /\ (\A q \in requests : RequestTypes(q))'
  BY DEF ScreenInv, ResolveTypes, RequestTypes
<1>2. Heard => OthersApart' /\ OneOfMine'
  BY DEF Heard, OthersApart, OneOfMine, Mine
<1>3. Heard => MineAwaited'
  BY DEF Heard, MineAwaited, Mine, StartAwaited, EditAwaited, Answered, Edits
<1>4. Heard => ScreenMatches'
  BY DEF Heard, ScreenMatches, Mine, Answered, Edits
<1> QED
  BY <1>1, <1>2, <1>3, <1>4 DEF ScreenInv, Heard

\* An idle record sends one request.
LEMMA EditSent ==
  ASSUME ScreenInv, NEW kind \in {"step", "remove", "clear", "finish"}, NEW arg, Send(kind, arg),
         kind = "step" => arg \in Actions,
         ~res.busy, res.session # 0, res'.busy = TRUE,
         res'.id = res.id, res'.session = res.session, res'.eq = res.eq, res'.steps = res.steps,
         UNCHANGED <<repairs, opened, lost, crossed, station>>
  PROVE  ScreenInv'
<1>0. PICK n : n = Request(kind, arg)
  OBVIOUS
<1>1. /\ requests' = requests \cup {n} /\ n.by = res.id /\ n.session = res.session /\ n.awaited = TRUE
      /\ n.kind = kind /\ n.state = "sent" /\ n.arg = arg
  BY <1>0 DEF Send, Request
<1>2. ResolveTypes'
  BY DEF ScreenInv, ResolveTypes
<1>3. (\A q \in requests : RequestTypes(q))'
  <2>1. \A q \in requests : RequestTypes(q)'
    BY DEF ScreenInv, RequestTypes
  <2>2. RequestTypes(n)'
    BY <1>1 DEF ScreenInv, ResolveTypes, RequestTypes
  <2> QED
    BY <1>1, <2>1, <2>2
<1>4. ASSUME Heard PROVE Heard'
  <2>1. \A q \in requests : ~Mine(q)
    BY <1>4 DEF Heard, MineAwaited
  <2>2. OthersApart' /\ OneOfMine'
    BY <1>1, <1>4, <2>1 DEF Heard, OthersApart, OneOfMine, Mine
  <2>3. \A q \in requests' : Mine(q)' => q = n
    BY <1>1, <2>1 DEF Mine
  <2>4. ~Answered(n)
    BY <1>1 DEF Answered
  <2>5. EditAwaited(n)'
    BY <1>1, <2>4 DEF EditAwaited, Answered, Edits
  <2>6. MineAwaited'
    BY <1>1, <2>3, <2>5 DEF MineAwaited
  <2>7. ScreenMatches'
    BY <1>4, <2>1 DEF Heard, ScreenMatches
  <2> QED
    BY <2>2, <2>6, <2>7 DEF Heard
<1> QED
  BY <1>2, <1>3, <1>4 DEF ScreenInv

\* A new record: what the others wait for no longer matters, unless it is a start.
LEMMA ForgottenAre ==
  ASSUME BusyInv, ScreenInv, NEW q \in Forgotten, UNCHANGED repairs, opened' = opened + 1
  PROVE  RequestTypes(q)' /\ q.by # opened + 1 /\ (q.awaited => q.kind = "start")
<1>1. PICK p \in requests : q = Forsaken(p)
  BY DEF Forgotten
<1>2. IsRequest(p) /\ RequestTypes(p) /\ opened \in Nat
  BY DEF BusyInv, ScreenInv, ResolveTypes
<1>3. /\ q.by = p.by /\ q.session = p.session /\ q.kind = p.kind /\ q.arg = p.arg
      /\ q.awaited => p.kind = "start"
  BY <1>1, <1>2 DEF Forsaken, IsRequest, Cares
<1> QED
  BY <1>2, <1>3 DEF RequestTypes

\* A record that fails to open waits for nothing.
LEMMA OpenFailsKeeps ==
  ASSUME ScreenInv, BusyInv, openResolveFails
  PROVE  ScreenInv'
<1>1. /\ res' = [NoRes EXCEPT !.id = opened + 1, !.eq = station, !.turn = page, !.busy = FALSE]
      /\ opened' = opened + 1 /\ UNCHANGED <<station, repairs, lost, crossed>>
      /\ requests' = Forgotten
  BY DEF openResolveFails, RecordOpens
<1>2. res'.id = opened + 1 /\ res'.session = 0
  BY <1>1 DEF NoRes
<1>3. \A q \in requests' : RequestTypes(q)' /\ ~Mine(q)' /\ (q.awaited => q.kind = "start")
  BY <1>1, <1>2, ForgottenAre DEF Mine
<1>4. ResolveTypes'
  BY <1>1, <1>2 DEF ScreenInv, ResolveTypes
<1>5. OthersApart' /\ OneOfMine' /\ MineAwaited' /\ ScreenMatches'
  BY <1>2, <1>3 DEF OthersApart, OneOfMine, MineAwaited, ScreenMatches
<1> QED
  BY <1>3, <1>4, <1>5 DEF ScreenInv, Heard

LEMMA OpenKeeps ==
  ASSUME ScreenInv, BusyInv, openResolve
  PROVE  ScreenInv'
<1>0. PICK n : n = Request("start", station)
  OBVIOUS
<1>1. /\ res' = [NoRes EXCEPT !.id = opened + 1, !.eq = station, !.turn = page, !.busy = TRUE]
      /\ opened' = opened + 1 /\ UNCHANGED <<station, repairs, lost, crossed>>
      /\ requests' = Forgotten \cup {n} /\ station \in Stations
  BY <1>0 DEF openResolve, RecordOpens, ScreenInv, ResolveTypes
<1>2. /\ res'.id = opened + 1 /\ res'.eq = station /\ res'.busy = TRUE /\ res'.session = 0
      /\ res'.steps = <<>>
  BY <1>1 DEF NoRes
<1>3. /\ n.by = res'.id /\ n.session = 0 /\ n.awaited = TRUE /\ n.kind = "start"
      /\ n.state = "sent" /\ n.arg = station
  BY <1>0, <1>2 DEF Request
<1>6. ResolveTypes'
  BY <1>1, <1>2 DEF ScreenInv, ResolveTypes
<1>7. ASSUME NEW q \in requests', q # n
      PROVE  RequestTypes(q)' /\ ~Mine(q)' /\ (q.awaited => q.kind = "start")
  BY <1>1, <1>2, <1>7, ForgottenAre DEF Mine
<1>8. RequestTypes(n)'
  <2>1. opened \in Nat /\ Len(repairs) \in Nat /\ station \in Stations
    BY <1>1 DEF ScreenInv, ResolveTypes
  <2>2. n.by = opened + 1 /\ opened' = opened + 1 /\ repairs' = repairs
    BY <1>1, <1>2, <1>3
  <2> QED
    BY <1>3, <2>1, <2>2 DEF RequestTypes
<1>9. StartAwaited(n)'
  BY <1>2, <1>3 DEF StartAwaited
<1>10. OthersApart' /\ OneOfMine'
  <2>1. Mine(n)' /\ n.by = res'.id
    BY <1>3 DEF Mine
  <2>2. OthersApart'
    BY <1>2, <1>7, <2>1 DEF OthersApart, Mine
  <2>3. \A q \in requests' : Mine(q)' => q = n
    BY <1>7
  <2>4. OneOfMine'
    BY <2>3 DEF OneOfMine, Mine
  <2> QED
    BY <2>2, <2>4
<1>11. MineAwaited'
  BY <1>2, <1>3, <1>7, <1>9 DEF MineAwaited
<1>12. ScreenMatches'
  BY <1>2 DEF ScreenMatches
<1> QED
  BY <1>6, <1>7, <1>8, <1>10, <1>11, <1>12 DEF ScreenInv, Heard

\* What the server makes of the set of requests.
LEMMA BecomesIs ==
  ASSUME BusyInv, NEW q \in requests, NEW state, NEW session, NEW steps,
         Becomes(q, state, session, steps)
  PROVE  \E d : /\ requests' = IF q.awaited THEN (requests \ {q}) \cup {d} ELSE requests \ {q}
                /\ d.by = q.by /\ d.kind = q.kind /\ d.awaited = q.awaited /\ d.arg = q.arg
                /\ d.state = state /\ d.session = session /\ d.steps = steps
<1>1. IsRequest(q)
  BY DEF BusyInv
<1>2. PICK d : d = [q EXCEPT !.state = state, !.session = session, !.steps = steps]
  OBVIOUS
<1>3. /\ d.by = q.by /\ d.kind = q.kind /\ d.awaited = q.awaited /\ d.arg = q.arg
      /\ d.state = state /\ d.session = session /\ d.steps = steps
  BY <1>1, <1>2 DEF IsRequest
<1>4. requests' = IF q.awaited THEN (requests \ {q}) \cup {d} ELSE requests \ {q}
  BY <1>2 DEF Becomes
<1> QED
  BY <1>3, <1>4

LEMMA ServedTypes ==
  ASSUME ScreenInv, BusyInv, NEW q \in requests, NEW state, NEW session, NEW steps,
         Becomes(q, state, session, steps), opened' = opened,
         Len(repairs) \in Nat, Len(repairs') \in Nat, Len(repairs) <= Len(repairs'),
         session \in 0..Len(repairs'), q.kind # "start" => session # 0
  PROVE  (\A p \in requests : RequestTypes(p))'
<1>1. PICK d : /\ requests' = IF q.awaited THEN (requests \ {q}) \cup {d} ELSE requests \ {q}
               /\ d.by = q.by /\ d.kind = q.kind /\ d.awaited = q.awaited /\ d.arg = q.arg
               /\ d.state = state /\ d.session = session /\ d.steps = steps
  BY BecomesIs
<1>2. \A p \in requests : RequestTypes(p) /\ RequestTypes(p)'
  <2> TAKE p \in requests
  <2>1. RequestTypes(p)
    BY DEF ScreenInv
  <2>2. PICK l, m : l = Len(repairs) /\ m = Len(repairs')
    OBVIOUS
  <2>3. p.session \in 0..m
    BY <2>1, <2>2 DEF RequestTypes
  <2>4. RequestTypes(p)'
    BY <2>1, <2>2, <2>3 DEF RequestTypes
  <2> QED
    BY <2>1, <2>4
<1>3. RequestTypes(d)'
  BY <1>1, <1>2 DEF RequestTypes
<1>4. \A p \in requests' : p \in requests \/ p = d
  BY <1>1
<1> QED
  BY <1>2, <1>3, <1>4

\* What another record asked for is about another session.
LEMMA OtherServed ==
  ASSUME BusyInv, ScreenInv, Heard, NEW q \in requests, ~Mine(q),
         NEW state, NEW session, NEW steps, Becomes(q, state, session, steps),
         res' = res,
         res.session # 0 => session # res.session,
         \A p \in requests : Mine(p) /\ p.state = "done" => session # p.session,
         \A s \in 1..Len(repairs) : s # q.session => repairs'[s] = repairs[s]
  PROVE  Heard'
<1>1. PICK d : /\ requests' = IF q.awaited THEN (requests \ {q}) \cup {d} ELSE requests \ {q}
               /\ d.by = q.by /\ d.kind = q.kind /\ d.awaited = q.awaited /\ d.arg = q.arg
               /\ d.state = state /\ d.session = session /\ d.steps = steps
  BY BecomesIs
<1>2. /\ \A p \in requests' : p = d \/ (p \in requests /\ p # q)
      /\ \A p : Mine(p)' <=> Mine(p)
      /\ ~Mine(d)
  BY <1>1 DEF Mine
<1>3. \A p \in requests' : Mine(p) => p \in requests
  BY <1>2
<1> ResolveTypes /\ \A p \in requests : RequestTypes(p)
  BY DEF ScreenInv
<1>4. res.session # 0 => q.session # res.session /\ repairs'[res.session] = repairs[res.session]
  <2> HAVE res.session # 0
  <2>1. q.session # res.session
    BY DEF Heard, OthersApart
  <2>2. res.session \in 1..Len(repairs)
    BY DEF ResolveTypes
  <2> QED
    BY <2>1, <2>2
<1>5. OthersApart'
  <2> SUFFICES ASSUME NEW p \in requests', ~Mine(p)
               PROVE  (p.awaited => p.kind = "start") /\ (res.session # 0 => p.session # res.session)
    BY <1>2 DEF OthersApart
  <2>1. CASE p = d
    BY <1>1, <2>1 DEF Heard, OthersApart
  <2>2. CASE p \in requests
    BY <2>2 DEF Heard, OthersApart
  <2> QED
    BY <1>2, <2>1, <2>2
<1>6. OneOfMine'
  BY <1>2, <1>3 DEF Heard, OneOfMine
<1>7. ASSUME NEW p \in requests', Mine(p)
      PROVE  /\ res.busy /\ p.awaited
             /\ p.kind = "start" => StartAwaited(p)'
             /\ p.kind # "start" => EditAwaited(p)'
  <2>1. /\ p \in requests /\ res.busy /\ p.awaited
        /\ p.kind = "start" => StartAwaited(p)
        /\ p.kind # "start" => EditAwaited(p)
    BY <1>3, <1>7 DEF Heard, MineAwaited
  <2>2. ASSUME p.kind = "start" PROVE StartAwaited(p)'
    <3>1. StartAwaited(p)
      BY <2>1, <2>2
    <3>2. ASSUME p.state = "done"
          PROVE  /\ repairs'[p.session] = repairs[p.session]
                 /\ \A r \in requests' : r # p => r.session # p.session
      <4>1. p.session # 0 /\ \A r \in requests : r # p => r.session # p.session
        BY <3>1, <3>2 DEF StartAwaited
      <4>2. q.session # p.session /\ session # p.session
        BY <1>7, <2>1, <3>2, <4>1
      <4>3. p.session \in 1..Len(repairs)
        BY <2>1, <4>1 DEF RequestTypes, ResolveTypes
      <4> QED
        BY <1>1, <1>2, <4>1, <4>2, <4>3
    <3> QED
      BY <3>1, <3>2 DEF StartAwaited
  <2>3. ASSUME p.kind # "start" PROVE EditAwaited(p)'
    <3>1. EditAwaited(p)
      BY <2>1, <2>3
    <3>2. p.session # 0 /\ p.session = res.session
      BY <2>1, <2>3, <3>1 DEF EditAwaited, RequestTypes
    <3> QED
      BY <1>4, <3>1, <3>2 DEF EditAwaited, Answered
  <2> QED
    BY <2>1, <2>2, <2>3
<1>8. MineAwaited'
  BY <1>2, <1>7 DEF MineAwaited
<1>9. ScreenMatches'
  <2>1. \A p \in requests : Mine(p) => p \in requests'
    BY <1>1
  <2> QED
    BY <1>2, <1>4, <2>1 DEF Heard, ScreenMatches
<1> QED
  BY <1>5, <1>6, <1>8, <1>9 DEF Heard

\* The screen hears about what it asked for itself.
LEMMA OwnServed ==
  ASSUME BusyInv, Heard, NEW q \in requests, Mine(q), q.state = "sent",
         NEW state, NEW session, NEW steps, Becomes(q, state, session, steps),
         res' = res, res.session # 0 => repairs'[res.session].eq = repairs[res.session].eq,
         NEW d, d = [q EXCEPT !.state = state, !.session = session, !.steps = steps],
         q.kind = "start" => StartAwaited(d)',
         q.kind # "start" => EditAwaited(d)',
         Answered(d) \/ (res.session # 0 => repairs'[res.session] = repairs[res.session])
  PROVE  Heard'
<1>1. /\ d.by = q.by /\ d.kind = q.kind /\ d.awaited = q.awaited
      /\ d.state = state /\ d.session = session /\ d.steps = steps
  BY DEF BusyInv, IsRequest
<1>2. res.busy /\ q.awaited /\ \A p \in requests : Mine(p) => p = q
  BY DEF Heard, OneOfMine, MineAwaited
<1>3. requests' = (requests \ {q}) \cup {d}
  BY <1>2 DEF Becomes
<1>4. /\ \A p \in requests' : p = d \/ (p \in requests /\ ~Mine(p))
      /\ \A p : Mine(p)' <=> Mine(p)
      /\ Mine(d) /\ d \in requests'
  BY <1>1, <1>2, <1>3 DEF Mine
<1>5. OthersApart' /\ OneOfMine'
  BY <1>4 DEF Heard, OthersApart, OneOfMine
<1>6. MineAwaited'
  BY <1>1, <1>2, <1>4 DEF MineAwaited
<1>7. ScreenMatches'
  <2>1. ~Answered(q)
    BY DEF Answered
  <2>2. res.session # 0 => /\ repairs[res.session].eq = res.eq
                           /\ Matches(res.steps, repairs[res.session].steps)
    BY <1>2, <2>1 DEF Heard, ScreenMatches
  <2>3. \A p : Answered(p)' <=> Answered(p)
    BY DEF Answered, Edits
  <2> QED
    BY <1>4, <2>2, <2>3 DEF ScreenMatches
<1> QED
  BY <1>5, <1>6, <1>7 DEF Heard

\* The server answers without touching its sessions.
LEMMA AnswerKeeps ==
  ASSUME BusyInv, ScreenInv, NEW q \in requests, q.state = "sent", NEW state,
         state = "refused" \/ q.kind = "finish",
         Becomes(q, state, q.session, <<>>),
         UNCHANGED <<station, res, opened, repairs, lost, crossed>>
  PROVE  ScreenInv'
<1>1. ResolveTypes' /\ Len(repairs) \in Nat
  BY DEF ScreenInv, ResolveTypes
<1>2. RequestTypes(q)
  BY DEF ScreenInv
<1>3. (\A p \in requests : RequestTypes(p))'
  BY <1>1, <1>2, ServedTypes DEF RequestTypes
<1>4. ASSUME Heard PROVE Heard'
  <2>1. CASE Mine(q)
    <3>1. PICK d : d = [q EXCEPT !.state = state, !.session = q.session, !.steps = <<>>]
      OBVIOUS
    <3>2. /\ d.kind = q.kind /\ d.arg = q.arg /\ d.session = q.session /\ d.state = state
      BY <3>1 DEF BusyInv, IsRequest
    <3>3. q.kind = "start" => StartAwaited(q) /\ d.state # "done"
      BY <1>4, <2>1, <3>2 DEF Heard, MineAwaited
    <3>4. q.kind = "start" => StartAwaited(d)'
      BY <3>2, <3>3 DEF StartAwaited
    <3>5. q.kind # "start" => EditAwaited(q) /\ ~Answered(d)
      BY <1>4, <2>1, <3>2 DEF Heard, MineAwaited, Answered, Edits
    <3>6. q.kind # "start" => EditAwaited(d)'
      BY <3>2, <3>5 DEF EditAwaited, Answered, Edits
    <3> QED
      BY <1>4, <2>1, <3>1, <3>4, <3>6, OwnServed, Zenon
  <2>2. CASE ~Mine(q)
    <3>1. res.session # 0 => q.session # res.session
      BY <1>4, <2>2 DEF Heard, OthersApart
    <3>2. \A p \in requests : Mine(p) /\ p.state = "done" => q.session # p.session
      <4> SUFFICES ASSUME NEW p \in requests, Mine(p), p.state = "done" PROVE q.session # p.session
        OBVIOUS
      <4>1. CASE p.kind = "start"
        BY <1>4, <2>2, <4>1 DEF Heard, MineAwaited, StartAwaited
      <4>2. CASE p.kind # "start"
        BY <1>4, <3>1, <4>2 DEF Heard, MineAwaited, EditAwaited, ScreenInv, RequestTypes
      <4> QED
        BY <4>1, <4>2
    <3> QED
      BY <1>4, <2>2, <3>1, <3>2, OtherServed
  <2> QED
    BY <2>1, <2>2
<1> QED
  BY <1>1, <1>3, <1>4 DEF ScreenInv

\* The server changes the steps of a session.
LEMMA EditKeeps ==
  ASSUME BusyInv, ScreenInv, NEW q \in requests, q.state = "sent", Edits(q),
         NEW steps, steps = Effect(q, repairs[q.session].steps),
         ServeRequest(q, steps)
  PROVE  ScreenInv'
<1> ResolveTypes /\ RequestTypes(q)
  BY DEF ScreenInv
<1>1. /\ repairs' = [repairs EXCEPT ![q.session].steps = steps]
      /\ Becomes(q, "done", q.session, steps)
      /\ UNCHANGED <<station, res, opened, lost, crossed>>
  BY DEF ServeRequest, place
<1>2. q.kind # "start" /\ q.session \in 1..Len(repairs) /\ Len(repairs) \in Nat
  BY DEF RequestTypes, ResolveTypes, Edits
<1>3. PICK old : old = repairs[q.session].steps
  OBVIOUS
<1>4. repairs[q.session] \in [eq : Stations, steps : Seq(Actions)] /\ old \in Seq(Actions)
  <2> DEFINE Session == [eq : Stations, steps : Seq(Actions)]
  <2>1. repairs \in Seq(Session)
    BY DEF ResolveTypes
  <2> HIDE DEF Session
  <2>2. repairs[q.session] \in Session
    BY <1>2, <2>1
  <2> QED
    BY <1>3, <2>2 DEF Session
<1>5. steps \in Seq(Actions)
  BY <1>3, <1>4, EffectType DEF RequestTypes
<1>6. /\ Len(repairs') = Len(repairs)
      /\ repairs'[q.session].steps = steps /\ repairs'[q.session].eq = repairs[q.session].eq
      /\ \A s \in 1..Len(repairs) : s # q.session => repairs'[s] = repairs[s]
  BY <1>1, <1>2 DEF ResolveTypes
<1>7. repairs' \in Seq([eq : Stations, steps : Seq(Actions)])
  <2> DEFINE Session == [eq : Stations, steps : Seq(Actions)]
  <2>1. PICK s : s = [repairs[q.session] EXCEPT !.steps = steps]
    OBVIOUS
  <2>2. s \in Session
    BY <1>4, <1>5, <2>1
  <2>3. repairs \in Seq(Session) /\ repairs' = [repairs EXCEPT ![q.session] = s]
    BY <1>1, <2>1 DEF ResolveTypes
  <2> HIDE DEF Session
  <2>4. repairs' \in Seq(Session)
    BY <1>2, <2>2, <2>3
  <2> QED
    BY <2>4 DEF Session
<1>8. ResolveTypes'
  BY <1>1, <1>6, <1>7 DEF ResolveTypes
<1>9. (\A p \in requests : RequestTypes(p))'
  BY <1>1, <1>2, <1>6, ServedTypes
<1>10. ASSUME Heard PROVE Heard'
  <2>1. CASE Mine(q)
    <3>1. PICK d : d = [q EXCEPT !.state = "done", !.session = q.session, !.steps = steps]
      OBVIOUS
    <3>2. /\ d.kind = q.kind /\ d.arg = q.arg /\ d.session = q.session /\ d.state = "done"
          /\ d.steps = steps
      BY <3>1 DEF BusyInv, IsRequest
    <3>3. EditAwaited(q) /\ q.session = res.session /\ res.session # 0
      BY <1>2, <1>10, <2>1 DEF Heard, MineAwaited, EditAwaited
    <3>4. Matches(res.steps, old)
      <4>1. \A p \in requests : Mine(p) => p = q
        BY <1>10, <2>1 DEF Heard, OneOfMine
      <4>2. ~Answered(q)
        BY DEF Answered
      <4> QED
        BY <1>3, <1>10, <3>3, <4>1, <4>2 DEF Heard, ScreenMatches
    <3>5. steps = Effect(d, old)
      BY <1>3, <3>2 DEF Effect
    <3>6. Answered(d) /\ Edits(d)
      BY <3>2 DEF Answered, Edits
    <3>7. \E o \in Seq(Actions) : Matches(res.steps, o) /\ d.steps = Effect(d, o)
      BY <1>4, <3>2, <3>4, <3>5
    <3>8. EditAwaited(d)'
      BY <1>1, <1>6, <3>2, <3>3, <3>6, <3>7 DEF EditAwaited
    <3> QED
      BY <1>1, <1>2, <1>6, <1>10, <2>1, <3>1, <3>3, <3>6, <3>8, OwnServed, Zenon
  <2>2. CASE ~Mine(q)
    <3>1. res.session # 0 => q.session # res.session
      BY <1>10, <2>2 DEF Heard, OthersApart
    <3>2. \A p \in requests : Mine(p) /\ p.state = "done" => q.session # p.session
      <4> SUFFICES ASSUME NEW p \in requests, Mine(p), p.state = "done" PROVE q.session # p.session
        OBVIOUS
      <4>1. CASE p.kind = "start"
        BY <1>10, <2>2, <4>1 DEF Heard, MineAwaited, StartAwaited
      <4>2. CASE p.kind # "start"
        BY <1>10, <3>1, <4>2 DEF Heard, MineAwaited, EditAwaited, ScreenInv, RequestTypes
      <4> QED
        BY <4>1, <4>2
    <3> QED
      BY <1>1, <1>6, <1>10, <2>2, <3>1, <3>2, OtherServed
  <2> QED
    BY <2>1, <2>2
<1> QED
  BY <1>1, <1>8, <1>9, <1>10 DEF ScreenInv

\* The server starts a session: nobody else's, without steps.
LEMMA StartKeeps ==
  ASSUME BusyInv, ScreenInv, NEW q \in requests, ServeStart(q)
  PROVE  ScreenInv'
<1> ResolveTypes /\ \A p \in requests : RequestTypes(p)
  BY DEF ScreenInv
<1>1. /\ q.state = "sent" /\ q.kind = "start"
      /\ repairs' = Append(repairs, [eq |-> q.arg, steps |-> <<>>])
      /\ Becomes(q, "done", Len(repairs) + 1, <<>>)
      /\ UNCHANGED <<station, res, opened, lost, crossed>>
  BY DEF ServeStart, place
<1>2. PICK n : n = Len(repairs) + 1
  OBVIOUS
<1>3. n \in Nat /\ n # 0 /\ Len(repairs) \in Nat /\ Len(repairs) < n
  BY <1>2 DEF ResolveTypes
<1>4. q.arg \in Stations /\ <<>> \in Seq(Actions)
  BY <1>1 DEF RequestTypes
<1>5. [eq |-> q.arg, steps |-> <<>>] \in [eq : Stations, steps : Seq(Actions)]
  BY <1>4
<1>6. /\ repairs' \in Seq([eq : Stations, steps : Seq(Actions)])
      /\ Len(repairs') = n /\ repairs'[n] = [eq |-> q.arg, steps |-> <<>>]
      /\ \A s \in 1..Len(repairs) : repairs'[s] = repairs[s]
  BY <1>1, <1>2, <1>3, <1>5 DEF ResolveTypes
<1>7. ResolveTypes'
  BY <1>1, <1>3, <1>6 DEF ResolveTypes
<1>8. Becomes(q, "done", n, <<>>)
  BY <1>1, <1>2
<1>9. (\A p \in requests : RequestTypes(p))'
  BY <1>1, <1>3, <1>6, <1>8, ServedTypes
<1>10. \A p \in requests : p.session # n
  BY <1>3 DEF RequestTypes
<1>11. res.session # n /\ (res.session # 0 => repairs'[res.session] = repairs[res.session])
  BY <1>3, <1>6 DEF ResolveTypes
<1>12. ASSUME Heard PROVE Heard'
  <2>1. CASE Mine(q)
    <3>1. PICK d : d = [q EXCEPT !.state = "done", !.session = n, !.steps = <<>>]
      OBVIOUS
    <3>2. /\ d.kind = q.kind /\ d.arg = q.arg /\ d.session = n /\ d.state = "done"
      BY <3>1 DEF BusyInv, IsRequest
    <3>3. StartAwaited(q) /\ q.awaited
      BY <1>1, <1>12, <2>1 DEF Heard, MineAwaited
    <3>4. \A p \in requests' : p # d => p.session # d.session
      BY <1>8, <1>10, <3>1, <3>2, <3>3 DEF Becomes
    <3>5. StartAwaited(d)'
      BY <1>1, <1>3, <1>6, <3>2, <3>3, <3>4 DEF StartAwaited
    <3> QED
      BY <1>1, <1>8, <1>11, <1>12, <2>1, <3>1, <3>5, OwnServed, Zenon
  <2>2. CASE ~Mine(q)
    BY <1>1, <1>6, <1>8, <1>10, <1>11, <1>12, <2>2, OtherServed
  <2> QED
    BY <2>1, <2>2
<1> QED
  BY <1>1, <1>7, <1>9, <1>12 DEF ScreenInv

\* Once its answer is read, nothing the screen sent is under way.
LEMMA OwnRead ==
  ASSUME Heard, NEW q \in requests, Mine(q), requests' = requests \ {q},
         repairs' = repairs, res'.id = res.id, res'.eq = res.eq,
         res'.session # 0 =>
           /\ repairs[res'.session].eq = res.eq
           /\ Matches(res'.steps, repairs[res'.session].steps)
           /\ \A p \in requests : p # q => p.session # res'.session
  PROVE  Heard'
<1>1. \A p \in requests' : p \in requests /\ p # q /\ ~Mine(p) /\ ~Mine(p)'
  BY DEF Heard, OneOfMine, Mine
<1>2. OthersApart' /\ OneOfMine' /\ MineAwaited'
  BY <1>1 DEF Heard, OthersApart, OneOfMine, MineAwaited
<1>3. ScreenMatches'
  BY DEF ScreenMatches
<1> QED
  BY <1>2, <1>3 DEF Heard

\* A record keeps its session while it waits for anything but a start.
LEMMA EditRead ==
  ASSUME Heard, ScreenInv, NEW q \in requests, q.awaited, q.kind # "start"
  PROVE  /\ Mine(q) /\ EditAwaited(q) /\ res.session # 0
         /\ repairs[res.session].eq = res.eq
         /\ \A p \in requests : p # q => p.session # res.session
         /\ ~Answered(q) => Matches(res.steps, repairs[res.session].steps)
<1>1. Mine(q)
  BY DEF Heard, OthersApart
<1>2. EditAwaited(q)
  BY <1>1 DEF Heard, MineAwaited
<1>3. res.session # 0
  BY <1>2 DEF EditAwaited, ScreenInv, RequestTypes
<1>4. \A p \in requests : p # q => ~Mine(p)
  BY <1>1 DEF Heard, OneOfMine
<1>5. \A p \in requests : p # q => p.session # res.session
  BY <1>3, <1>4 DEF Heard, OthersApart
<1>6. /\ repairs[res.session].eq = res.eq
      /\ ~Answered(q) => Matches(res.steps, repairs[res.session].steps)
  BY <1>3, <1>4 DEF Heard, ScreenMatches
<1> QED
  BY <1>1, <1>2, <1>3, <1>5, <1>6

\* What reading an answer leaves of the types.
LEMMA ReadTypes ==
  ASSUME ScreenInv, NEW q \in requests, Read(q), res'.id = res.id,
         res'.session \in {res.session, q.session}
  PROVE  ResolveTypes' /\ (\A p \in requests : RequestTypes(p))'
<1>1. RequestTypes(q) /\ ResolveTypes
  BY DEF ScreenInv
<1>2. /\ requests' = requests \ {q}
      /\ UNCHANGED <<station, opened, repairs, lost>>
  BY DEF Read, place
<1>3. res'.session \in 0..Len(repairs)
  BY <1>1 DEF RequestTypes, ResolveTypes
<1>4. ResolveTypes'
  BY <1>1, <1>2, <1>3 DEF ResolveTypes
<1>5. (\A p \in requests : RequestTypes(p))'
  BY <1>2 DEF ScreenInv, RequestTypes
<1> QED
  BY <1>4, <1>5

LEMMA StartReadKeeps ==
  ASSUME BusyInv, ScreenInv, NEW q \in requests, StartRead(q)
  PROVE  ScreenInv'
<1>1. /\ q.kind = "start" /\ q.awaited /\ q.state = "done"
      /\ res' = [res EXCEPT !.session = q.session, !.busy = FALSE]
      /\ crossed' = (crossed \/ q.by # res.id)
      /\ Read(q)
  BY DEF StartRead, AnswerOf, NoteCrossing, Own
<1>2. res'.id = res.id /\ res'.eq = res.eq /\ res'.session = q.session /\ res'.steps = res.steps
  BY <1>1 DEF BusyInv, IsRes
<1>3. requests' = requests \ {q} /\ repairs' = repairs /\ lost' = lost
  BY <1>1 DEF Read
<1>4. ResolveTypes' /\ (\A p \in requests : RequestTypes(p))'
  BY <1>1, <1>2, ReadTypes
<1>5. ASSUME Heard, q.by = res.id PROVE Heard'
  <2>1. Mine(q) /\ StartAwaited(q)
    BY <1>1, <1>5 DEF Heard, MineAwaited, Mine
  <2>2. Matches(<<>>, <<>>)
    BY DEF Matches
  <2>3. /\ repairs[q.session].eq = res.eq /\ Matches(res'.steps, repairs[q.session].steps)
        /\ \A p \in requests : p # q => p.session # q.session
    BY <1>1, <1>2, <2>1, <2>2 DEF StartAwaited
  <2> QED
    BY <1>2, <1>3, <1>5, <2>1, <2>3, OwnRead
<1> QED
  BY <1>1, <1>3, <1>4, <1>5 DEF ScreenInv

LEMMA RefusalReadKeeps ==
  ASSUME BusyInv, ScreenInv, NEW q \in requests, RefusalRead(q)
  PROVE  ScreenInv'
<1>1. /\ q.awaited /\ q.state = "refused"
      /\ res' = [res EXCEPT !.busy = FALSE]
      /\ crossed' = (crossed \/ (q.kind = "start" /\ q.by # res.id))
      /\ Read(q)
  BY DEF RefusalRead, AnswerOf, NoteCrossing, Own, Failed
<1>2. res'.id = res.id /\ res'.eq = res.eq /\ res'.session = res.session /\ res'.steps = res.steps
  BY <1>1 DEF BusyInv, IsRes
<1>3. requests' = requests \ {q} /\ repairs' = repairs /\ lost' = lost
  BY <1>1 DEF Read
<1>4. ResolveTypes' /\ (\A p \in requests : RequestTypes(p))'
  BY <1>1, <1>2, ReadTypes
<1>5. ASSUME Heard, q.kind = "start" => q.by = res.id PROVE Heard'
  <2>1. CASE q.kind = "start"
    <3>1. Mine(q) /\ StartAwaited(q)
      BY <1>5, <2>1 DEF Heard, MineAwaited, Mine
    <3>2. res.session = 0
      BY <3>1 DEF StartAwaited
    <3> QED
      BY <1>2, <1>3, <1>5, <3>1, <3>2, OwnRead
  <2>2. CASE q.kind # "start"
    <3>1. ~Answered(q)
      BY <1>1 DEF Answered
    <3> QED
      BY <1>1, <1>2, <1>3, <1>5, <2>2, <3>1, EditRead, OwnRead
  <2> QED
    BY <2>1, <2>2
<1> QED
  BY <1>1, <1>3, <1>4, <1>5 DEF ScreenInv

LEMMA FinishReadKeeps ==
  ASSUME BusyInv, ScreenInv, NEW q \in requests, FinishRead(q)
  PROVE  ScreenInv'
<1>1. /\ q.awaited /\ q.kind = "finish"
      /\ res' = [res EXCEPT !.phase = "wrap", !.busy = FALSE]
      /\ crossed' = crossed /\ Read(q)
  BY DEF FinishRead, AnswerOf
<1>2. res'.id = res.id /\ res'.eq = res.eq /\ res'.session = res.session /\ res'.steps = res.steps
  BY <1>1 DEF BusyInv, IsRes
<1>3. requests' = requests \ {q} /\ repairs' = repairs /\ lost' = lost
  BY <1>1 DEF Read
<1>4. ResolveTypes' /\ (\A p \in requests : RequestTypes(p))'
  BY <1>1, <1>2, ReadTypes
<1>5. ASSUME Heard PROVE Heard'
  <2>1. ~Answered(q)
    BY <1>1 DEF Answered, Edits
  <2> QED
    BY <1>1, <1>2, <1>3, <1>5, <2>1, EditRead, OwnRead
<1> QED
  BY <1>1, <1>3, <1>4, <1>5 DEF ScreenInv

\* The row the screen adds is the step the server added.
LEMMA StepReadKeeps ==
  ASSUME BusyInv, ScreenInv, NEW q \in requests, StepRead(q)
  PROVE  ScreenInv'
<1>1. /\ q.awaited /\ q.kind = "step" /\ q.state = "done"
      /\ res' = [res EXCEPT !.live = NoAction, !.busy = FALSE,
                   !.steps = Append(@, [order |-> Len(q.steps), action |-> q.arg])]
      /\ crossed' = crossed /\ Read(q)
  BY DEF StepRead, AnswerOf
<1>2. /\ res'.id = res.id /\ res'.eq = res.eq /\ res'.session = res.session
      /\ res'.steps = Append(res.steps, [order |-> Len(q.steps), action |-> q.arg])
  BY <1>1 DEF BusyInv, IsRes
<1>3. requests' = requests \ {q} /\ repairs' = repairs /\ lost' = lost
  BY <1>1 DEF Read
<1>4. ResolveTypes' /\ (\A p \in requests : RequestTypes(p))'
  BY <1>1, <1>2, ReadTypes
<1>5. ASSUME Heard PROVE Heard'
  <2>1. Answered(q) /\ EditAwaited(q)
    BY <1>1, <1>5, EditRead DEF Answered, Edits
  <2>2. PICK old \in Seq(Actions) : Matches(res.steps, old) /\ q.steps = Effect(q, old)
    BY <2>1 DEF EditAwaited
  <2>3. q.steps = Append(old, q.arg) /\ q.arg \in Actions
    BY <1>1, <2>2 DEF Effect, ScreenInv, RequestTypes
  <2>4. PICK n \in Nat : n = Len(old)
    OBVIOUS
  <2>5. /\ q.steps \in Seq(Actions) /\ DOMAIN q.steps = 1..(n + 1) /\ Len(q.steps) = n + 1
        /\ q.steps[n + 1] = q.arg /\ \A i \in 1..n : q.steps[i] = old[i]
    BY <2>3, <2>4
  <2>6. res.steps = [i \in 1..n |-> [order |-> i, action |-> old[i]]]
    BY <2>2, <2>4 DEF Matches
  <2>7. PICK row : row = [order |-> n + 1, action |-> q.arg]
    OBVIOUS
  <2>8. res.steps \in Seq([order : Nat, action : Actions]) /\ Len(res.steps) = n
    BY <2>4, <2>6
  <2>9. row \in [order : Nat, action : Actions]
    BY <2>3, <2>7
  <2>10. res'.steps = Append(res.steps, row)
    BY <1>2, <2>5, <2>7
  <2>11. /\ DOMAIN res'.steps = 1..(n + 1) /\ res'.steps[n + 1] = row
         /\ \A i \in 1..n : res'.steps[i] = res.steps[i]
         /\ res'.steps \in Seq([order : Nat, action : Actions])
    BY <2>8, <2>9, <2>10
  <2>12. \A i \in 1..(n + 1) : res'.steps[i] = [order |-> i, action |-> q.steps[i]]
    <3> TAKE i \in 1..(n + 1)
    <3>1. CASE i = n + 1
      BY <2>5, <2>7, <2>11, <3>1
    <3>2. CASE i \in 1..n
      BY <2>5, <2>6, <2>11, <3>2
    <3> QED
      BY <3>1, <3>2
  <2>13. Matches(res'.steps, q.steps)
    <3>1. PICK rows : rows = res'.steps
      OBVIOUS
    <3>2. rows = [i \in DOMAIN rows |-> rows[i]] /\ DOMAIN rows = 1..(n + 1)
      BY <2>11, <3>1
    <3>3. rows = [i \in 1..(n + 1) |-> [order |-> i, action |-> q.steps[i]]]
      BY <2>12, <3>1, <3>2
    <3> QED
      BY <2>5, <3>1, <3>3 DEF Matches
  <2>14. Matches(res'.steps, repairs[res.session].steps)
    BY <2>1, <2>13 DEF EditAwaited
  <2> QED
    BY <1>1, <1>2, <1>3, <1>5, <2>14, EditRead, OwnRead
<1> QED
  BY <1>1, <1>3, <1>4, <1>5 DEF ScreenInv

\* The rows the screen keeps are the steps the server kept.
LEMMA RemoveReadKeeps ==
  ASSUME BusyInv, ScreenInv, NEW q \in requests, RemoveRead(q)
  PROVE  ScreenInv'
<1>1. PICK kept :
        /\ kept = Selected(res.steps, {i \in DOMAIN res.steps :
                    IF q.kind = "clear" THEN IsLinked(res.steps[i].action)
                                        ELSE res.steps[i].order # q.arg})
        /\ q.awaited /\ q.kind \in {"remove", "clear"} /\ q.state = "done"
        /\ res' = [res EXCEPT !.busy = FALSE, !.steps =
                     [i \in DOMAIN q.steps |->
                       [order |-> i, action |-> IF i \in DOMAIN kept THEN kept[i].action ELSE Unknown]]]
        /\ crossed' = crossed /\ Read(q)
  BY DEF RemoveRead, AnswerOf
<1>2. /\ res'.id = res.id /\ res'.eq = res.eq /\ res'.session = res.session
      /\ res'.steps = [i \in DOMAIN q.steps |->
                        [order |-> i, action |-> IF i \in DOMAIN kept THEN kept[i].action ELSE Unknown]]
  BY <1>1 DEF BusyInv, IsRes
<1>3. requests' = requests \ {q} /\ repairs' = repairs /\ lost' = lost
  BY <1>1 DEF Read
<1>4. ResolveTypes' /\ (\A p \in requests : RequestTypes(p))'
  BY <1>1, <1>2, ReadTypes
<1>5. ASSUME Heard PROVE Heard'
  <2>1. Answered(q) /\ EditAwaited(q)
    BY <1>1, <1>5, EditRead DEF Answered, Edits
  <2>2. PICK old \in Seq(Actions) : Matches(res.steps, old) /\ q.steps = Effect(q, old)
    BY <2>1 DEF EditAwaited
  <2>3. /\ DOMAIN kept = DOMAIN q.steps
        /\ \A k \in DOMAIN q.steps : kept[k].action = q.steps[k]
    BY <1>1, <2>2, RowsKept
  <2>4. Matches(res'.steps, q.steps)
    BY <1>2, <2>3 DEF Matches
  <2>5. Matches(res'.steps, repairs[res.session].steps)
    BY <2>1, <2>4 DEF EditAwaited
  <2> QED
    BY <1>1, <1>2, <1>3, <1>5, <2>5, EditRead, OwnRead
<1> QED
  BY <1>1, <1>3, <1>4, <1>5 DEF ScreenInv

\* Nothing is promised once an answer was not waited for.
LEMMA GiveUpKeeps ==
  ASSUME BusyInv, ScreenInv, NEW q \in requests, GiveUp(q)
  PROVE  ScreenInv'
<1>1. /\ lost' = lost + 1 /\ res' = [res EXCEPT !.busy = FALSE]
      /\ requests' = (requests \ {q}) \cup
                     (IF q.state = "sent" THEN {[q EXCEPT !.awaited = FALSE]} ELSE {})
      /\ UNCHANGED <<station, opened, repairs>>
  BY DEF GiveUp, Failed, place
<1>2. res'.id = res.id /\ res'.session = res.session
  BY <1>1 DEF BusyInv, IsRes
<1>3. ResolveTypes'
  BY <1>1, <1>2 DEF ScreenInv, ResolveTypes
<1>4. PICK d : d = [q EXCEPT !.awaited = FALSE]
  OBVIOUS
<1>5. d.by = q.by /\ d.kind = q.kind /\ d.session = q.session /\ d.arg = q.arg
  BY <1>4 DEF BusyInv, IsRequest
<1>6. RequestTypes(d) /\ \A p \in requests : RequestTypes(p)
  BY <1>5 DEF ScreenInv, RequestTypes
<1>7. \A p \in requests' : RequestTypes(p)
  BY <1>1, <1>4, <1>6
<1>8. (\A p \in requests : RequestTypes(p))'
  BY <1>1, <1>7 DEF RequestTypes
<1>9. lost' # 0
  BY <1>1 DEF ScreenInv, ResolveTypes
<1> QED
  BY <1>3, <1>8, <1>9 DEF ScreenInv

LEMMA ScreenInitInv == ResolveInit => ScreenInv
<1> SUFFICES ASSUME ResolveInit PROVE ScreenInv
  OBVIOUS
<1>1. /\ res.id = 0 /\ res.session = 0 /\ opened = 0 /\ lost = 0 /\ repairs = <<>>
      /\ requests = {} /\ station \in Stations
  BY DEF ResolveInit, NoRes
<1>2. ResolveTypes
  BY <1>1 DEF ResolveTypes
<1>3. Heard
  BY <1>1 DEF Heard, OthersApart, OneOfMine, MineAwaited, ScreenMatches
<1> QED
  BY <1>1, <1>2, <1>3 DEF ScreenInv

LEMMA ScreenNextInv == BusyInv /\ ScreenInv /\ [ResolveNext]_resolveVars => ScreenInv'
<1> SUFFICES ASSUME BusyInv, ScreenInv, [ResolveNext]_resolveVars PROVE ScreenInv'
  OBVIOUS
<1> station \in Stations \cup {NoStation}
  BY DEF ScreenInv, ResolveTypes
<1>0. CASE UNCHANGED resolveVars
  BY <1>0, QuietKeeps DEF resolveVars, place
<1>1. CASE (\E e \in Stations : TurnTo(e)) \/ \E e \in Stations \cup {NoStation} : LateScan(e)
  BY <1>1, QuietKeeps DEF TurnTo, LateScan
<1>2. CASE BackToChat \/ ReturnToRecord
  BY <1>2, QuietKeeps DEF BackToChat, ReturnToRecord
<1>3. CASE openResolve \/ openResolveFails
  BY <1>3, OpenKeeps, OpenFailsKeeps
<1>4. CASE clearSteps
  <2>1. res' = [res EXCEPT !.busy = TRUE]
    BY <1>4 DEF clearSteps
  <2>2. /\ res'.busy = TRUE /\ res'.id = res.id /\ res'.session = res.session
        /\ res'.eq = res.eq /\ res'.steps = res.steps
    BY <2>1 DEF BusyInv, IsRes
  <2> QED
    BY <1>4, <2>2, EditSent DEF place, clearSteps, Recording, Idle
<1>5. CASE finishResolve
  <2>1. res' = [res EXCEPT !.busy = TRUE]
    BY <1>5 DEF finishResolve
  <2>2. /\ res'.busy = TRUE /\ res'.id = res.id /\ res'.session = res.session
        /\ res'.eq = res.eq /\ res'.steps = res.steps
    BY <2>1 DEF BusyInv, IsRes
  <2> QED
    BY <1>5, <2>2, EditSent DEF place, finishResolve, Recording, Idle
<1>6. CASE MoreSteps
  <2>1. res' = [res EXCEPT !.phase = "work"]
    BY <1>6 DEF MoreSteps
  <2>2. /\ res'.busy = res.busy /\ res'.id = res.id /\ res'.session = res.session
        /\ res'.eq = res.eq /\ res'.steps = res.steps
    BY <2>1 DEF BusyInv, IsRes
  <2> QED
    BY <1>6, <2>2, QuietKeeps DEF place, MoreSteps
<1>7. CASE \E a \in Chips \cup Typed : TapChip(a) \/ addCustomStep(a)
  <2>1. PICK a \in Actions : completeStep(a) /\ Recording
    BY <1>7 DEF Actions, TapChip, MayTap, addCustomStep
  <2>2. res' = [res EXCEPT !.live = a, !.busy = TRUE]
    BY <2>1 DEF completeStep
  <2>3. /\ res'.busy = TRUE /\ res'.id = res.id /\ res'.session = res.session
        /\ res'.eq = res.eq /\ res'.steps = res.steps
    BY <2>2 DEF BusyInv, IsRes
  <2> QED
    BY <2>1, <2>3, EditSent DEF place, completeStep, Recording, Idle
<1>8. CASE \E i \in DOMAIN res.steps : removeStep(i)
  <2>1. PICK i \in DOMAIN res.steps : removeStep(i)
    BY <1>8
  <2>2. res' = [res EXCEPT !.busy = TRUE]
    BY <2>1 DEF removeStep
  <2>3. /\ res'.busy = TRUE /\ res'.id = res.id /\ res'.session = res.session
        /\ res'.eq = res.eq /\ res'.steps = res.steps
    BY <2>2 DEF BusyInv, IsRes
  <2> QED
    BY <2>1, <2>3, EditSent DEF place, removeStep, Recording, Idle
<1>9. CASE ReportResult \/ ReportFromChat
  BY <1>9, QuietKeeps DEF ReportResult, ReportFromChat, reportFromSession
<1>10. ASSUME NEW q \in requests, ServeStep(q) PROVE ScreenInv'
  <2>1. /\ q.state = "sent" /\ q.kind = "step"
        /\ ServeRequest(q, Append(repairs[q.session].steps, q.arg))
    BY <1>10 DEF ServeStep
  <2>2. Effect(q, repairs[q.session].steps) = Append(repairs[q.session].steps, q.arg) /\ Edits(q)
    BY <2>1 DEF Effect, Edits
  <2> QED
    BY <2>1, <2>2, EditKeeps
<1>11. ASSUME NEW q \in requests, ServeRemove(q) PROVE ScreenInv'
  <2>1. /\ q.state = "sent" /\ q.kind = "remove"
        /\ ServeRequest(q, Kept(repairs[q.session].steps, q.arg))
    BY <1>11 DEF ServeRemove
  <2>2. Effect(q, repairs[q.session].steps) = Kept(repairs[q.session].steps, q.arg) /\ Edits(q)
    BY <2>1 DEF Effect, Edits
  <2> QED
    BY <2>1, <2>2, EditKeeps
<1>12. ASSUME NEW q \in requests, ServeClear(q) PROVE ScreenInv'
  <2>1. PICK steps : steps = repairs[q.session].steps
    OBVIOUS
  <2>2. /\ q.state = "sent" /\ q.kind = "clear"
        /\ ServeRequest(q, Selected(steps, {i \in DOMAIN steps : IsLinked(steps[i])}))
    BY <1>12, <2>1 DEF ServeClear
  <2>3. Effect(q, steps) = Selected(steps, {i \in DOMAIN steps : IsLinked(steps[i])}) /\ Edits(q)
    BY <2>2 DEF Effect, Edits
  <2> QED
    BY <2>1, <2>2, <2>3, EditKeeps
<1>13. ASSUME NEW q \in requests, ServeFinish(q) \/ ServeRefuse(q) PROVE ScreenInv'
  <2>1. CASE ServeFinish(q)
    BY <2>1, AnswerKeeps DEF ServeFinish, place
  <2>2. CASE ServeRefuse(q)
    BY <2>2, AnswerKeeps DEF ServeRefuse, place
  <2> QED
    BY <1>13, <2>1, <2>2
<1> QED
  BY <1>0, <1>1, <1>2, <1>3, <1>4, <1>5, <1>6, <1>7, <1>8, <1>9, <1>10, <1>11, <1>12, <1>13,
     StartKeeps, StartReadKeeps, StepReadKeeps, RemoveReadKeeps, FinishReadKeeps,
     RefusalReadKeeps, GiveUpKeeps DEF ResolveNext

\* As long as every answer was heard and came to the record that asked, an idle repair
\* record shows the steps of its session (pda.js: openResolve, completeStep, removeStep,
\* clearSteps and what handles their answers).
THEOREM ScreenCorrect == ResolveSpec => []ScreenShowsTheSession
<1>1. ResolveInit => BusyInv /\ ScreenInv
  BY ScreenInitInv DEF ResolveInit, NoRes, BusyInv, BusyMeansWaiting, IsRes
<1>2. BusyInv /\ ScreenInv /\ [ResolveNext]_resolveVars => BusyInv' /\ ScreenInv'
  BY BusyNextInv, ScreenNextInv
<1>3. ScreenInv => ScreenShowsTheSession
  BY ScreenInvImplies
<1> QED
  BY <1>1, <1>2, <1>3, PTL DEF ResolveSpec

-----------------------------------------------------------------------------
(* Which session a work report names.                                      *)

\* A start is answered with a session of the machine it was sent for; without late scans the
\* chat is about the machine that is set, and a record is of the machine its answer is about.
NamedInv ==
  /\ strayed \in Nat
  /\ strayed = 0 => page = station /\ res.turn = res.eq
  /\ handedOver.session \in 0..Len(repairs)
  /\ \A q \in requests : q.kind = "start" =>
       /\ Mine(q) => q.arg = res.eq
       /\ q.state = "done" => q.session # 0 /\ repairs[q.session].eq = q.arg
  /\ ~crossed /\ res.session # 0 => repairs[res.session].eq = res.eq
  /\ ChatReportsNameTheirOwnSession

\* A step that keeps the machines of the sessions.
MachinesStay ==
  /\ Len(repairs) \in Nat /\ Len(repairs') \in Nat /\ Len(repairs) <= Len(repairs')
  /\ \A n \in 1..Len(repairs) : repairs'[n].eq = repairs[n].eq

\* Requests that are changed as far as it does not matter here.
Follows(p, q) ==
  /\ p.kind = q.kind /\ p.by = q.by /\ p.arg = q.arg
  /\ p.kind = "start" /\ p.state = "done" => q.state = "done" /\ p.session = q.session

LEMMA NamedKeeps ==
  ASSUME NamedInv, ScreenInv, MachinesStay, res'.id = res.id, res'.eq = res.eq,
         res'.session = res.session, res'.turn = res.turn, strayed' \in Nat,
         strayed' = 0 => strayed = 0 /\ page' = station',
         crossed => crossed', handedOver' = handedOver,
         \A p \in requests' : \E q \in requests : Follows(p, q)
  PROVE  NamedInv'
<1>1. /\ res.session \in 0..Len(repairs) /\ handedOver.session \in 0..Len(repairs)
      /\ \A q \in requests : q.session \in 0..Len(repairs)
  BY DEF ScreenInv, ResolveTypes, RequestTypes, NamedInv
<1>2. \A n \in 0..Len(repairs) : n # 0 => n \in 1..Len(repairs) /\ repairs'[n].eq = repairs[n].eq
  BY DEF MachinesStay
<1>3. strayed' = 0 => page' = station' /\ res'.turn = res'.eq
  BY DEF NamedInv
<1>4. handedOver'.session \in 0..Len(repairs')
  BY <1>1 DEF MachinesStay
<1>5. ASSUME NEW p \in requests', p.kind = "start"
      PROVE  /\ p.by = res'.id => p.arg = res'.eq
             /\ p.state = "done" => p.session # 0 /\ repairs'[p.session].eq = p.arg
  <2>1. PICK q \in requests : Follows(p, q)
    OBVIOUS
  <2> QED
    BY <1>1, <1>2, <1>5, <2>1 DEF Follows, NamedInv, Mine
<1>6. ~crossed' /\ res'.session # 0 => repairs'[res'.session].eq = res'.eq
  BY <1>1, <1>2 DEF NamedInv
<1>7. ChatReportsNameTheirOwnSession'
  BY <1>1, <1>2 DEF NamedInv, ChatReportsNameTheirOwnSession
<1> QED
  BY <1>3, <1>4, <1>5, <1>6, <1>7 DEF NamedInv, Mine

LEMMA NamedNextInv == BusyInv /\ ScreenInv /\ NamedInv /\ [ResolveNext]_resolveVars => NamedInv'
<1> SUFFICES ASSUME BusyInv, ScreenInv, NamedInv, [ResolveNext]_resolveVars PROVE NamedInv'
  OBVIOUS
<1>a. /\ IsRes(res) /\ \A q \in requests : IsRequest(q)
      /\ repairs \in Seq([eq : Stations, steps : Seq(Actions)]) /\ Len(repairs) \in Nat
      /\ res.session \in 0..Len(repairs) /\ res.id = opened /\ opened \in Nat
      /\ \A q \in requests : q.by \in Nat /\ q.by <= opened /\ q.session \in 0..Len(repairs)
  BY DEF BusyInv, ScreenInv, ResolveTypes, RequestTypes
<1>b. repairs' = repairs => MachinesStay
  BY <1>a DEF MachinesStay
<1>c. \A q : Follows(q, q)
  BY DEF Follows
<1>d. strayed \in Nat /\ (strayed = 0 => page = station)
  BY DEF NamedInv
<1>e. UNCHANGED place => strayed' \in Nat /\ (strayed' = 0 => strayed = 0 /\ page' = station')
  BY <1>d DEF place
<1>0. CASE UNCHANGED resolveVars
  BY <1>0, <1>b, <1>c, <1>d, NamedKeeps DEF resolveVars, place
<1>1. CASE (\E e \in Stations : TurnTo(e)) \/ BackToChat \/ ReturnToRecord
           \/ \E e \in Stations \cup {NoStation} : LateScan(e)
  <2>1. /\ UNCHANGED <<res, requests, repairs, handedOver, crossed>>
        /\ strayed' \in Nat /\ (strayed' = 0 => strayed = 0 /\ page' = station')
    BY <1>1, <1>d DEF TurnTo, BackToChat, Drawn, ReturnToRecord, LateScan
  <2> QED
    BY <1>b, <1>c, <2>1, NamedKeeps
<1>2. CASE openResolve \/ openResolveFails
  <2>0. PICK busy : RecordOpens(busy)
    BY <1>2 DEF openResolve, openResolveFails
  <2>1. /\ res' = [NoRes EXCEPT !.id = opened + 1, !.eq = station, !.turn = page, !.busy = busy]
        /\ requests' = Forgotten \/ requests' = Forgotten \cup {Request("start", station)}
        /\ UNCHANGED <<station, page, strayed, repairs, handedOver, crossed>>
    BY <1>2, <2>0 DEF openResolve, openResolveFails, RecordOpens
  <2>2. /\ res'.id = opened + 1 /\ res'.eq = station /\ res'.turn = page /\ res'.session = 0
    BY <2>1 DEF NoRes
  <2>3. ASSUME NEW p \in requests', p.kind = "start"
        PROVE  /\ p.by = res'.id => p.arg = res'.eq
               /\ p.state = "done" => p.session # 0 /\ repairs'[p.session].eq = p.arg
    <3>1. CASE p = Request("start", station)
      <4>1. p.arg = station /\ p.state = "sent"
        BY <3>1 DEF Request
      <4> QED
        BY <2>2, <4>1
    <3>2. CASE \E q \in requests : p = Forsaken(q)
      <4>1. PICK q \in requests : p = Forsaken(q)
        BY <3>2
      <4>2. /\ p.kind = q.kind /\ p.by = q.by /\ p.arg = q.arg /\ p.state = q.state
            /\ p.session = q.session
        BY <1>a, <4>1 DEF Forsaken, IsRequest
      <4>3. p.by # res'.id
        BY <1>a, <2>2, <4>2
      <4> QED
        BY <2>1, <2>3, <4>2, <4>3 DEF NamedInv
    <3> QED
      BY <2>1, <3>1, <3>2 DEF Forgotten
  <2>4. strayed' = 0 => page' = station' /\ res'.turn = res'.eq
    BY <1>d, <2>1, <2>2
  <2> QED
    BY <2>1, <2>2, <2>3, <2>4 DEF NamedInv, Mine, ChatReportsNameTheirOwnSession
<1>3. ASSUME NEW kind, NEW arg, kind # "start", Send(kind, arg), res'.id = res.id, res'.eq = res.eq,
             res'.session = res.session, res'.turn = res.turn,
             UNCHANGED <<place, repairs, handedOver, crossed>>
      PROVE  NamedInv'
  <2>1. \A p \in requests' : p \in requests \/ p.kind # "start"
    BY <1>3 DEF Send, Request
  <2> QED
    BY <1>3, <2>1 DEF NamedInv, place, Mine, ChatReportsNameTheirOwnSession
<1>4. CASE clearSteps \/ finishResolve \/ (\E i \in DOMAIN res.steps : removeStep(i))
  <2>1. /\ res' = [res EXCEPT !.busy = TRUE]
        /\ \E kind \in {"clear", "finish", "remove"} : \E arg : Send(kind, arg)
        /\ UNCHANGED <<place, repairs, handedOver, crossed>>
    BY <1>4 DEF clearSteps, finishResolve, removeStep
  <2>2. res'.id = res.id /\ res'.eq = res.eq /\ res'.turn = res.turn /\ res'.session = res.session
    BY <1>a, <2>1 DEF IsRes
  <2> QED
    BY <1>3, <2>1, <2>2
<1>5. CASE \E a \in Chips \cup Typed : TapChip(a) \/ addCustomStep(a)
  <2>1. PICK a : completeStep(a)
    BY <1>5 DEF TapChip, addCustomStep
  <2>2. /\ res' = [res EXCEPT !.live = a, !.busy = TRUE] /\ Send("step", a)
        /\ UNCHANGED <<place, repairs, handedOver, crossed>>
    BY <2>1 DEF completeStep
  <2>3. res'.id = res.id /\ res'.eq = res.eq /\ res'.turn = res.turn /\ res'.session = res.session
    BY <1>a, <2>2 DEF IsRes
  <2> QED
    BY <1>3, <2>2, <2>3
<1>6. CASE MoreSteps
  <2>1. res' = [res EXCEPT !.phase = "work"]
    BY <1>6 DEF MoreSteps
  <2>2. res'.id = res.id /\ res'.eq = res.eq /\ res'.turn = res.turn /\ res'.session = res.session
    BY <1>a, <2>1 DEF IsRes
  <2> QED
    BY <1>6, <1>b, <1>c, <2>2, <1>e, NamedKeeps DEF MoreSteps
<1>7. CASE ReportResult \/ ReportFromChat
  <2>1. /\ \E from : handedOver' = [eq |-> station, session |-> res.session, from |-> from]
        /\ page' = station /\ UNCHANGED <<station, strayed, res, requests, repairs, crossed>>
    BY <1>7 DEF ReportResult, ReportFromChat, reportFromSession
  <2>2. handedOver'.eq = station /\ handedOver'.session = res.session
    BY <2>1
  <2>3. handedOver'.from = "chat" => res.turn = station /\ res.session # 0
    BY <1>7 DEF ReportResult, ReportFromChat, reportFromSession
  <2>4. ChatReportsNameTheirOwnSession'
    BY <2>1, <2>2, <2>3 DEF NamedInv, ChatReportsNameTheirOwnSession
  <2>5. /\ strayed' \in Nat /\ (strayed' = 0 => page' = station' /\ res'.turn = res'.eq)
        /\ handedOver'.session \in 0..Len(repairs')
    BY <1>a, <2>1, <2>2 DEF NamedInv
  <2> QED
    BY <2>1, <2>4, <2>5 DEF NamedInv, Mine
<1>8. ASSUME NEW q \in requests, ServeStart(q) PROVE NamedInv'
  <2>1. /\ q.state = "sent" /\ q.kind = "start"
        /\ repairs' = Append(repairs, [eq |-> q.arg, steps |-> <<>>])
        /\ Becomes(q, "done", Len(repairs) + 1, <<>>)
        /\ UNCHANGED <<place, res, handedOver, crossed>>
    BY <1>8 DEF ServeStart
  <2>2. q.arg \in Stations
    BY <2>1 DEF ScreenInv, RequestTypes
  <2>3. PICK n \in Nat : n = Len(repairs)
    BY <1>a
  <2>4. /\ Len(repairs') = n + 1 /\ repairs'[n + 1].eq = q.arg
        /\ \A k \in 1..n : repairs'[k] = repairs[k]
    BY <1>a, <2>1, <2>2, <2>3
  <2>5. PICK answered : answered = [q EXCEPT !.state = "done", !.session = Len(repairs) + 1, !.steps = <<>>]
    OBVIOUS
  <2>6. /\ answered.kind = "start" /\ answered.by = q.by /\ answered.arg = q.arg
        /\ answered.session = n + 1
    BY <1>a, <2>1, <2>3, <2>5 DEF IsRequest
  <2>7. \A p \in requests' : p \in requests \/ p = answered
    BY <2>1, <2>5 DEF Becomes
  <2>8. \A k \in 0..n : k # 0 => repairs'[k].eq = repairs[k].eq
    BY <2>4
  <2>9. ASSUME NEW p \in requests', p.kind = "start"
        PROVE  /\ p.by = res.id => p.arg = res.eq
               /\ p.state = "done" => p.session # 0 /\ repairs'[p.session].eq = p.arg
    <3>1. CASE p = answered
      <4>1. n + 1 # 0
        OBVIOUS
      <4> QED
        BY <2>1, <2>4, <2>6, <3>1, <4>1 DEF NamedInv, Mine
    <3>2. CASE p \in requests
      BY <1>a, <2>3, <2>8, <2>9, <3>2 DEF NamedInv, Mine
    <3> QED
      BY <2>7, <3>1, <3>2
  <2>10. /\ handedOver.session \in 0..n /\ handedOver.session \in 0..(n + 1)
         /\ res.session \in 0..n
    BY <1>a, <2>3 DEF NamedInv
  <2> QED
    BY <2>1, <2>4, <2>8, <2>9, <2>10 DEF NamedInv, place, Mine, ChatReportsNameTheirOwnSession
<1>9. ASSUME NEW q \in requests, NEW state, NEW session, NEW steps,
             Becomes(q, state, session, steps), q.kind # "start" \/ state # "done",
             MachinesStay, UNCHANGED <<place, res, handedOver, crossed>>
      PROVE  NamedInv'
  <2>1. PICK answered : answered = [q EXCEPT !.state = state, !.session = session, !.steps = steps]
    OBVIOUS
  <2>2. answered.kind = q.kind /\ answered.by = q.by /\ answered.arg = q.arg /\ answered.state = state
    BY <1>a, <2>1 DEF IsRequest
  <2>3. Follows(answered, q)
    BY <1>9, <2>2 DEF Follows
  <2>4. \A p \in requests' : p \in requests \/ p = answered
    BY <1>9, <2>1 DEF Becomes
  <2>5. \A p \in requests' : \E r \in requests : Follows(p, r)
    BY <1>c, <2>3, <2>4
  <2> QED
    BY <1>9, <1>e, <2>5, NamedKeeps
<1>10. ASSUME NEW q \in requests, ServeFinish(q) \/ ServeRefuse(q) PROVE NamedInv'
  BY <1>9, <1>10, <1>b DEF ServeFinish, ServeRefuse
<1>11. ASSUME NEW q \in requests, ServeStep(q) \/ ServeRemove(q) \/ ServeClear(q) PROVE NamedInv'
  <2>1. q.kind # "start" /\ \E steps : ServeRequest(q, steps)
    BY <1>11 DEF ServeStep, ServeRemove, ServeClear
  <2>2. PICK steps : ServeRequest(q, steps)
    BY <2>1
  <2>3. /\ repairs' = [repairs EXCEPT ![q.session].steps = steps] /\ Becomes(q, "done", q.session, steps)
        /\ UNCHANGED <<place, res, handedOver, crossed>>
    BY <2>2 DEF ServeRequest
  <2> DEFINE Session == [eq : Stations, steps : Seq(Actions)]
  <2>4. repairs \in Seq(Session) /\ Len(repairs) \in Nat
    BY <1>a
  <2> HIDE DEF Session
  <2>5. \A n \in 1..Len(repairs) : repairs[n] \in Session
    BY <2>4
  <2>6. ASSUME NEW n \in 1..Len(repairs) PROVE repairs'[n].eq = repairs[n].eq
    <3>1. CASE n = q.session
      <4>1. repairs'[n] = [repairs[n] EXCEPT !.steps = steps]
        BY <2>3, <2>4, <3>1
      <4>2. repairs[n] \in Session
        BY <2>5
      <4> QED
        BY <4>1, <4>2 DEF Session
    <3>2. CASE n # q.session
      <4>1. repairs'[n] = repairs[n]
        BY <2>3, <2>4, <3>2
      <4> QED
        BY <4>1
    <3> QED
      BY <3>1, <3>2
  <2>7. Len(repairs') = Len(repairs)
    BY <2>3, <2>4
  <2>8. MachinesStay
    BY <2>4, <2>6, <2>7 DEF MachinesStay
  <2> QED
    BY <1>9, <2>1, <2>3, <2>8
<1>12. ASSUME NEW q \in requests, StartRead(q) PROVE NamedInv'
  <2>1. /\ q.kind = "start" /\ q.state = "done"
        /\ res' = [res EXCEPT !.session = q.session, !.busy = FALSE]
        /\ crossed' = (crossed \/ (q.kind = "start" /\ ~Own(q)))
        /\ requests' = requests \ {q} /\ UNCHANGED <<place, repairs, handedOver>>
    BY <1>12 DEF StartRead, AnswerOf, NoteCrossing, Read
  <2>2. res'.id = res.id /\ res'.eq = res.eq /\ res'.turn = res.turn /\ res'.session = q.session
    BY <1>a, <2>1 DEF IsRes
  <2>3. ~crossed' => ~crossed /\ Mine(q)
    BY <2>1 DEF Own, Mine
  <2>4. ~crossed' => repairs[q.session].eq = res.eq
    BY <2>1, <2>3 DEF NamedInv
  <2> QED
    BY <2>1, <2>2, <2>3, <2>4 DEF NamedInv, place, Mine, ChatReportsNameTheirOwnSession
<1>13. ASSUME NEW q \in requests,
              StepRead(q) \/ RemoveRead(q) \/ FinishRead(q) \/ RefusalRead(q) PROVE NamedInv'
  <2>1. Read(q) /\ (crossed => crossed')
    <3>1. CASE StepRead(q)
      BY <3>1 DEF StepRead
    <3>2. CASE RemoveRead(q)
      BY <3>2 DEF RemoveRead
    <3>3. CASE FinishRead(q)
      BY <3>3 DEF FinishRead
    <3>4. CASE RefusalRead(q)
      BY <3>4 DEF RefusalRead, NoteCrossing
    <3> QED
      BY <1>13, <3>1, <3>2, <3>3, <3>4
  <2>2. res'.id = res.id /\ res'.eq = res.eq /\ res'.turn = res.turn /\ res'.session = res.session
    <3>1. CASE StepRead(q)
      BY <1>a, <3>1 DEF StepRead, IsRes
    <3>2. CASE RemoveRead(q)
      <4>1. PICK steps : res' = [res EXCEPT !.busy = FALSE, !.steps = steps]
        BY <3>2 DEF RemoveRead
      <4> QED
        BY <1>a, <4>1 DEF IsRes
    <3>3. CASE FinishRead(q)
      BY <1>a, <3>3 DEF FinishRead, IsRes
    <3>4. CASE RefusalRead(q)
      BY <1>a, <3>4 DEF RefusalRead, Failed, IsRes
    <3> QED
      BY <1>13, <3>1, <3>2, <3>3, <3>4
  <2> QED
    BY <1>b, <1>c, <1>e, <2>1, <2>2, NamedKeeps DEF Read
<1>14. ASSUME NEW q \in requests, GiveUp(q) PROVE NamedInv'
  <2>1. /\ res' = [res EXCEPT !.busy = FALSE] /\ (crossed => crossed')
        /\ requests' = (requests \ {q}) \cup
             (IF q.state = "sent" THEN {[q EXCEPT !.awaited = FALSE]} ELSE {})
        /\ UNCHANGED <<place, repairs, handedOver>>
    BY <1>14 DEF GiveUp, Failed, NoteCrossing
  <2>2. res'.id = res.id /\ res'.eq = res.eq /\ res'.turn = res.turn /\ res'.session = res.session
    BY <1>a, <2>1 DEF IsRes
  <2>3. PICK dropped : dropped = [q EXCEPT !.awaited = FALSE]
    OBVIOUS
  <2>4. Follows(dropped, q)
    BY <1>a, <2>3 DEF Follows, IsRequest
  <2>5. \A p \in requests' : p \in requests \/ p = dropped
    BY <2>1, <2>3
  <2>6. \A p \in requests' : \E r \in requests : Follows(p, r)
    BY <1>c, <2>4, <2>5
  <2> QED
    BY <1>b, <1>e, <2>1, <2>2, <2>6, NamedKeeps
<1> QED
  BY <1>0, <1>1, <1>2, <1>4, <1>5, <1>6, <1>7, <1>8, <1>10, <1>11, <1>12, <1>13, <1>14 DEF ResolveNext

\* A work report begun from the chat names a session of its own machine, whatever the worker
\* turned to and went back to and whatever was lost or refused (pda.js: resumableSession): only
\* a late scan or the crossing of finding 4 can mislead it.
THEOREM ChatNamingCorrect == ResolveSpec => []ChatReportsNameTheirOwnSession
<1>1. ResolveInit => BusyInv /\ ScreenInv /\ NamedInv
  <2>1. ResolveInit => NamedInv
    BY DEF ResolveInit, NoRes, NoReport, Unknown, NamedInv, ChatReportsNameTheirOwnSession
  <2> QED
    BY <2>1, ScreenInitInv DEF ResolveInit, NoRes, BusyInv, BusyMeansWaiting, IsRes
<1>2. BusyInv /\ ScreenInv /\ NamedInv /\ [ResolveNext]_resolveVars => BusyInv' /\ ScreenInv' /\ NamedInv'
  BY BusyNextInv, ScreenNextInv, NamedNextInv
<1>3. NamedInv => ChatReportsNameTheirOwnSession
  BY DEF NamedInv
<1> QED
  BY <1>1, <1>2, <1>3, PTL DEF ResolveSpec

-----------------------------------------------------------------------------
(* What the PDA saves.                                                     *)

IsPost(q) ==
  /\ q = [what |-> q.what, awaited |-> q.awaited, state |-> q.state, n |-> q.n]
  /\ q.awaited \in BOOLEAN

DraftTypes ==
  /\ ids \in Nat /\ pending.id \in Nat
  /\ pending # Nothing => pending.id > 0
  /\ \A q \in posts : IsPost(q) /\ q.what.id \in Nat /\ q.what.id > 0
  /\ \A i \in DOMAIN saved : i \in Nat /\ i > 0
  /\ saving \in BOOLEAN /\ overlapped \in BOOLEAN

\* Whatever is on its way is confirmed or waiting, ...
SentIsPending == \A q \in posts : q.what.id \in confirmed \/ q.what.id = pending.id

\* ... what is awaited is what is waiting, a report disables its button, ...
AwaitedIsPending ==
  \A q \in posts : q.awaited =>
    q.what = pending /\ (q.what.kind = "work_log" => saving = TRUE)

\* ... and one request is awaited at a time.
OneAwaited == \A p, q \in posts : p.awaited /\ q.awaited => p = q

DraftInv ==
  /\ DraftTypes
  /\ ~overlapped => SentIsPending /\ AwaitedIsPending /\ OneAwaited
  /\ UnconfirmedIsPending

\* A new request, when none is awaited.
LEMMA SubmitKeeps ==
  ASSUME DraftInv, NEW kind, NEW content, submitHandover(kind, content),
         UNCHANGED <<saved, confirmed>>, saving' \in BOOLEAN, overlapped' \in BOOLEAN,
         ~overlapped' => ~overlapped,
         ~overlapped' => \A q \in posts : ~q.awaited,
         saving \in BOOLEAN /\ pending'.kind = kind,
         kind = "work_log" => saving' = TRUE
  PROVE  DraftInv'
<1>1. DraftTypes /\ ids \in Nat
  BY DEF DraftInv, DraftTypes
<1>6. PICK post, k :
        /\ posts' = posts \cup {post}
        /\ post = [what |-> pending', awaited |-> TRUE, state |-> "sent", n |-> k]
  <2>1. PICK k : k = CHOOSE m \in 1..MaxPosts : \A q \in Awaited : q.n # m
    OBVIOUS
  <2>2. posts' = posts \cup {[what |-> pending', awaited |-> TRUE, state |-> "sent", n |-> k]}
    BY <2>1 DEF submitHandover
  <2> QED
    BY <2>2
<1>2. /\ posts' = posts \cup {post} /\ post.what = pending'
      /\ IsPost(post) /\ post.awaited = TRUE
  BY <1>6 DEF IsPost
<1>3. pending' = Payload(kind, content) /\ ids' = IF pending'.id > ids THEN pending'.id ELSE ids
  BY DEF submitHandover
<1>4. CASE pending # Nothing
  <2>1. pending' = pending
    BY <1>3, <1>4 DEF Payload
  <2>2. pending'.id \in Nat /\ pending'.id > 0 /\ ids' \in Nat
    BY <1>1, <1>3, <1>4, <2>1 DEF DraftTypes
  <2>3. DraftTypes'
    BY <1>1, <1>2, <2>1, <2>2 DEF DraftTypes
  <2>4. ~overlapped' => SentIsPending' /\ AwaitedIsPending' /\ OneAwaited'
    BY <1>2, <2>1 DEF DraftInv, SentIsPending, AwaitedIsPending, OneAwaited
  <2> QED
    BY <2>1, <2>3, <2>4 DEF DraftInv, UnconfirmedIsPending
<1>5. CASE pending = Nothing
  <2>1. pending'.id = ids + 1
    BY <1>3, <1>5 DEF Payload
  <2>2. pending'.id \in Nat /\ pending'.id > 0 /\ ids' \in Nat
    BY <1>1, <1>3, <2>1
  <2>3. DraftTypes'
    BY <1>1, <1>2, <2>2 DEF DraftTypes
  <2>4. pending.id = 0
    BY <1>5 DEF Nothing
  <2>5. ~overlapped => \A q \in posts : q.what.id \in confirmed
    BY <1>1, <2>4 DEF DraftInv, DraftTypes, SentIsPending
  <2>6. ~overlapped => \A i \in DOMAIN saved : i \in confirmed
    BY <1>1, <2>4 DEF DraftInv, DraftTypes, UnconfirmedIsPending
  <2>7. ~overlapped' => SentIsPending' /\ AwaitedIsPending' /\ OneAwaited'
    BY <1>2, <2>5 DEF SentIsPending, AwaitedIsPending, OneAwaited
  <2> QED
    BY <2>3, <2>6, <2>7 DEF DraftInv, UnconfirmedIsPending
<1> QED
  BY <1>4, <1>5

\* Requests that are gone or given up, and a button that may be enabled again.
LEMMA DroppedKeeps ==
  ASSUME DraftInv, UNCHANGED <<pending, ids, saved, confirmed, overlapped>>, saving' \in BOOLEAN,
         \A p \in posts' : p \in posts \/ \E q \in posts : p = Abandoned(q),
         ~overlapped /\ saving' # saving => \A p \in posts' : ~p.awaited
  PROVE  DraftInv'
<1>1. DraftTypes
  BY DEF DraftInv
<1>2. ASSUME NEW q \in posts
      PROVE  /\ IsPost(Abandoned(q)) /\ Abandoned(q).what = q.what
             /\ Abandoned(q).awaited = FALSE
  <2>1. PICK a : a = Abandoned(q)
    OBVIOUS
  <2>2. IsPost(a) /\ a.what = q.what /\ a.awaited = FALSE
    <3>1. IsPost(q)
      BY <1>1 DEF DraftTypes
    <3>2. a = [q EXCEPT !.awaited = FALSE, !.n = 0]
      BY <2>1 DEF Abandoned
    <3> QED
      BY <3>1, <3>2 DEF IsPost
  <2> QED
    BY <2>1, <2>2
<1>3. \A p \in posts' : p \in posts \/ \E q \in posts : IsPost(p) /\ p.what = q.what /\ p.awaited = FALSE
  BY <1>2
<1>4. DraftTypes'
  BY <1>1, <1>3 DEF DraftTypes
<1>5. ~overlapped => SentIsPending' /\ AwaitedIsPending' /\ OneAwaited'
  BY <1>3 DEF DraftInv, SentIsPending, AwaitedIsPending, OneAwaited
<1> QED
  BY <1>4, <1>5 DEF DraftInv, UnconfirmedIsPending

\* What leaves the requests and the storage alone.
LEMMA WritingKeeps ==
  ASSUME DraftInv,
         UNCHANGED <<saving, pending, posts, ids, saved, confirmed, overlapped>>
  PROVE  DraftInv'
  BY DEF DraftInv, DraftTypes, SentIsPending, AwaitedIsPending, OneAwaited, UnconfirmedIsPending

\* A confirmed answer: nothing else was awaited.
LEMMA ConfirmKeeps ==
  ASSUME DraftInv, NEW q \in posts, q.awaited, Confirm(q), saving' \in BOOLEAN
  PROVE  DraftInv'
<1>1. /\ posts' = posts \ {q} /\ pending' = Nothing /\ confirmed' = confirmed \cup {q.what.id}
      /\ UNCHANGED <<ids, saved, overlapped>>
  BY DEF Confirm, PostAnswered
<1>2. DraftTypes'
  BY <1>1 DEF DraftInv, DraftTypes, Nothing
<1>3. ~overlapped => q.what = pending
  BY DEF DraftInv, AwaitedIsPending
<1>4. ~overlapped => SentIsPending'
  BY <1>1, <1>3 DEF DraftInv, SentIsPending
<1>5. ~overlapped => \A p \in posts' : ~p.awaited
  BY <1>1 DEF DraftInv, OneAwaited
<1>6. ~overlapped => AwaitedIsPending' /\ OneAwaited'
  BY <1>5 DEF AwaitedIsPending, OneAwaited
<1>7. UnconfirmedIsPending'
  BY <1>1, <1>3 DEF DraftInv, UnconfirmedIsPending
<1> QED
  BY <1>1, <1>2, <1>4, <1>6, <1>7 DEF DraftInv

LEMMA FailureKeeps ==
  ASSUME DraftInv, NEW q \in posts, q.awaited, AfterFailure(q),
         \A p \in posts' : p \in posts \ {q} \/ p = Abandoned(q)
  PROVE  DraftInv'
<1>1. UNCHANGED <<pending, ids, saved, confirmed, overlapped>> /\ saving' \in BOOLEAN
  BY DEF AfterFailure
<1>2. ASSUME ~overlapped, NEW p \in posts' PROVE ~p.awaited
  <2>1. CASE p \in posts \ {q}
    BY <1>2, <2>1 DEF DraftInv, OneAwaited
  <2>2. CASE p = Abandoned(q)
    <3>1. IsPost(q)
      BY DEF DraftInv, DraftTypes
    <3> QED
      BY <2>2, <3>1 DEF IsPost, Abandoned
  <2> QED
    BY <1>2, <2>1, <2>2
<1> QED
  BY <1>1, <1>2, DroppedKeeps

LEMMA ServeKeeps ==
  ASSUME DraftInv, NEW q \in posts, ServePost(q)
  PROVE  DraftInv'
<1>1. PICK done : done = [q EXCEPT !.state = "saved"]
  OBVIOUS
<1>2. DraftTypes /\ IsPost(q)
  BY DEF DraftInv, DraftTypes
<1>3. IsPost(done) /\ done.what = q.what /\ done.awaited = q.awaited
  BY <1>1, <1>2 DEF IsPost
<1>4. /\ posts' = IF q.awaited THEN (posts \ {q}) \cup {done} ELSE posts \ {q}
      /\ UNCHANGED <<saving, pending, ids, confirmed, overlapped>>
  BY <1>1 DEF ServePost, onScreen, history
<1>5. \A i \in DOMAIN saved' : i \in DOMAIN saved \/ i = q.what.id
  BY DEF ServePost, Accept
<1>6. DraftTypes'
  BY <1>2, <1>3, <1>4, <1>5 DEF DraftTypes
<1>7. ~overlapped => SentIsPending' /\ AwaitedIsPending' /\ OneAwaited'
  BY <1>3, <1>4 DEF DraftInv, SentIsPending, AwaitedIsPending, OneAwaited
<1>8. UnconfirmedIsPending'
  BY <1>4, <1>5 DEF DraftInv, UnconfirmedIsPending, SentIsPending
<1> QED
  BY <1>4, <1>6, <1>7, <1>8 DEF DraftInv

LEMMA DraftNextInv == DraftInv /\ [ReportsNext]_draftVars => DraftInv'
<1> SUFFICES ASSUME DraftInv, [ReportsNext]_draftVars PROVE DraftInv'
  OBVIOUS
<1>0. saving \in BOOLEAN /\ overlapped \in BOOLEAN
  BY DEF DraftInv, DraftTypes
<1>1. CASE openReport \/ openHandoverNew
  BY <1>1, WritingKeeps DEF openReport, openHandoverNew, history
<1>2. ASSUME NEW w \in Words, NEW r \in Rest, EditReport(w, r) PROVE DraftInv'
  BY <1>2, WritingKeeps DEF EditReport, history
<1>3. ASSUME NEW w \in Words, EditNote(w) PROVE DraftInv'
  BY <1>3, WritingKeeps DEF EditNote, history
<1>4. CASE saveReport
  <2>1. /\ saving = FALSE /\ submitHandover("work_log", form) /\ saving' = TRUE
        /\ UNCHANGED <<saved, confirmed, overlapped>>
    BY <1>0, <1>4 DEF saveReport, history
  <2>2. pending'.kind = "work_log" /\ (pending # Nothing => pending.kind = "work_log")
    BY <2>1 DEF submitHandover, Refused, Payload
  <2>3. ASSUME ~overlapped, NEW q \in posts, q.awaited PROVE FALSE
    <3>1. q.what = pending /\ (q.what.kind = "work_log" => saving = TRUE) /\ q.what.id > 0
      BY <2>3 DEF DraftInv, DraftTypes, AwaitedIsPending
    <3>2. pending # Nothing
      BY <3>1 DEF Nothing
    <3> QED
      BY <2>1, <2>2, <3>1, <3>2
  <2> QED
    BY <1>0, <2>1, <2>2, <2>3, SubmitKeeps
<1>5. CASE saveReportRefused
  BY <1>5, WritingKeeps DEF saveReportRefused, onScreen, history
<1>6. CASE saveNote
  <2>1. /\ submitHandover("handover", [words |-> memo, rest |-> Blank])
        /\ overlapped' = (overlapped \/ Awaited # {})
        /\ UNCHANGED <<saving, saved, confirmed>>
    BY <1>6 DEF saveNote
  <2>2. pending'.kind = "handover"
    BY <2>1 DEF submitHandover, Refused, Payload
  <2>3. ~overlapped' => ~overlapped /\ \A q \in posts : ~q.awaited
    BY <2>1 DEF Awaited
  <2> QED
    BY <1>0, <2>1, <2>2, <2>3, SubmitKeeps
<1>7. ASSUME NEW q \in posts, ServePost(q) PROVE DraftInv'
  BY <1>7, ServeKeeps
<1>8. ASSUME NEW q \in posts, ReportSaved(q) PROVE DraftInv'
  BY <1>8, ConfirmKeeps DEF ReportSaved
<1>9. ASSUME NEW q \in posts, NoteSaved(q) PROVE DraftInv'
  BY <1>0, <1>9, ConfirmKeeps DEF NoteSaved, onScreen
<1>10. ASSUME NEW q \in posts, Fails(q) PROVE DraftInv'
  BY <1>10, FailureKeeps DEF Fails, PostAnswered
<1>11. ASSUME NEW q \in posts, TimesOut(q) PROVE DraftInv'
  BY <1>11, FailureKeeps DEF TimesOut
<1>12. CASE Reload
  <2>1. /\ UNCHANGED <<pending, ids, saved, confirmed, overlapped>> /\ saving' = FALSE
        /\ \A p \in posts' : \E q \in posts : p = Abandoned(q)
    BY <1>12 DEF Reload
  <2>2. \A p \in posts' : ~p.awaited
    <3> SUFFICES ASSUME NEW q \in posts PROVE ~Abandoned(q).awaited
      BY <2>1
    <3>1. IsPost(q)
      BY DEF DraftInv, DraftTypes
    <3> QED
      BY <3>1 DEF IsPost, Abandoned
  <2> QED
    BY <2>1, <2>2, DroppedKeeps
<1>13. CASE UNCHANGED draftVars
  BY <1>13, WritingKeeps DEF draftVars
<1> QED
  BY <1>1, <1>2, <1>3, <1>4, <1>5, <1>6, <1>7, <1>8, <1>9, <1>10, <1>11, <1>12, <1>13
  DEF ReportsNext

\* What the server stored and the worker was not told of waits on the device.
THEOREM DraftsCorrect == ReportsSpec => []UnconfirmedIsPending
<1>1. ReportsInit => DraftInv
  <2> SUFFICES ASSUME ReportsInit PROVE DraftInv
    OBVIOUS
  <2>1. /\ ids = 0 /\ pending = Nothing /\ posts = {} /\ DOMAIN saved = {}
        /\ saving = FALSE /\ overlapped = FALSE
    BY DEF ReportsInit
  <2>2. pending.id = 0
    BY <2>1 DEF Nothing
  <2>3. ids \in Nat /\ pending.id \in Nat
    <3>1. ids = 0
      BY <2>1
    <3> QED
      BY <2>2, <3>1
  <2>5. saving \in BOOLEAN /\ overlapped \in BOOLEAN
    BY <2>1, Zenon
  <2>4. DraftTypes
    BY <2>1, <2>3, <2>5, Zenon DEF DraftTypes
  <2> QED
    BY <2>1, <2>4
    DEF DraftInv, SentIsPending, AwaitedIsPending, OneAwaited, UnconfirmedIsPending
<1>2. DraftInv => UnconfirmedIsPending
  BY DEF DraftInv
<1> QED
  BY <1>1, <1>2, DraftNextInv, PTL DEF ReportsSpec

-----------------------------------------------------------------------------
(* The equipment on screen.                                                *)

IsTurn(t) == t = [id |-> t.id, eq |-> t.eq, status |-> t.status, about |-> t.about]
IsQuery(q) == q = [turn |-> q.turn, eq |-> q.eq, scan |-> q.scan, about |-> q.about]

\* A scan that was used is one the Jetson received; they are never withdrawn.
ScanOf(n, e) == n = 0 \/ (n \in 1..Len(scans) /\ scans[n] = e)

ContextInv ==
  /\ scans \in Seq(Machinery \cup {Foreign})
  /\ chat = [i \in DOMAIN chat |-> chat[i]] /\ \E n \in Nat : DOMAIN chat = 1..n
  /\ \A i \in DOMAIN chat : /\ IsTurn(chat[i]) /\ chat[i].eq = chosen
                            /\ chat[i].status = "done" => chat[i].about = chosen
  /\ response \in {NoMachine, chosen}
  /\ ScanOf(origin, chosen)
  /\ \A q \in queries : /\ IsQuery(q) /\ ScanOf(q.scan, q.eq)
                         /\ q.about \in {NoMachine, q.eq}

\* The answers on screen are about the equipment it shows.
LEMMA ContextInvImplies == ContextInv => AnswersFitTheScreen
  BY DEF ContextInv, ScanOf, AnswersFitTheScreen

\* Another equipment, with nothing said about it yet.
LEMMA SetContextKeeps ==
  ASSUME ContextInv, NEW e, NEW n, SetContext(e, n), ScanOf(n, e),
         UNCHANGED <<scans, queries>>
  PROVE  ContextInv'
<1>1. DOMAIN chat' = 1..0 /\ chat' = [i \in DOMAIN chat' |-> chat'[i]]
  BY DEF SetContext
<1>2. \A i \in DOMAIN chat' : FALSE
  BY <1>1
<1> QED
  BY <1>1, <1>2 DEF SetContext, ContextInv, ScanOf

LEMMA SameContextKeeps ==
  ASSUME ContextInv, SameContext, UNCHANGED <<scans, queries>>
  PROVE  ContextInv'
  BY DEF SameContext, ContextInv, ScanOf

\* Turns that only change their status, and only to "done" with the equipment on screen.
LEMMA TurnsKeep ==
  ASSUME ContextInv, UNCHANGED <<chosen, origin, scans>>, queries' \subseteq queries,
         response' \in {response, chosen}, DOMAIN chat' = DOMAIN chat,
         chat' = [i \in DOMAIN chat' |-> chat'[i]],
         \A i \in DOMAIN chat : IsTurn(chat'[i]) /\ chat'[i].eq = chat[i].eq,
         \A i \in DOMAIN chat : \/ chat'[i] = chat[i] \/ chat'[i].about = chosen
                               \/ chat'[i].status # "done"
  PROVE  ContextInv'
<1>1. ScanOf(origin', chosen')
  BY DEF ContextInv
<1> QED
  BY <1>1 DEF ContextInv, ScanOf

LEMMA ContextNextInv == ContextInv /\ [ContextNext]_contextVars => ContextInv'
<1> SUFFICES ASSUME ContextInv, [ContextNext]_contextVars PROVE ContextInv'
  OBVIOUS
<1>1. ASSUME NEW s \in {"manual", "ctx"}, GoTo(s) PROVE ContextInv'
  BY <1>1, SameContextKeeps DEF GoTo, scanning, asking
<1>2. ASSUME NEW e \in Machinery, ChooseByHand(e) \/ FollowAlert(e) PROVE ContextInv'
  <2>1. ScanOf(0, e)
    BY DEF ScanOf
  <2> QED
    BY <1>2, <2>1, SameContextKeeps, SetContextKeeps DEF ChooseByHand, FollowAlert, scanning, asking
<1>3. ASSUME NEW e \in Machinery \cup {Foreign}, Upload(e) PROVE ContextInv'
  <2>1. scans' = Append(scans, e) /\ SameContext /\ queries' = queries
    BY <1>3 DEF Upload, asking
  <2>2. scans \in Seq(Machinery \cup {Foreign})
    BY DEF ContextInv
  <2>3. scans' \in Seq(Machinery \cup {Foreign}) /\ Len(scans') = Len(scans) + 1
        /\ \A n \in 1..Len(scans) : scans'[n] = scans[n]
    BY <2>1, <2>2
  <2>4. \A n, m : ScanOf(n, m) => ScanOf(n, m)'
    BY <2>2, <2>3 DEF ScanOf
  <2> QED
    BY <2>1, <2>3, <2>4 DEF SameContext, ContextInv
<1>4. CASE startScan
  BY <1>4, SameContextKeeps DEF startScan, asking
<1>5. ASSUME NEW c \in scanners,
             ConfigAnswered(c) \/ BaseAnswered(c) \/ StopsPolling(c) \/ LockedScreen(c) \/ FailedScreen(c)
      PROVE  ContextInv'
  BY <1>5, SameContextKeeps
  DEF ConfigAnswered, BaseAnswered, StopsPolling, LockedScreen, FailedScreen, asking
<1>6. ASSUME NEW c \in scanners, BaseFailed(c) \/ PollingTimesOut(c) PROVE ContextInv'
  <2>1. ScanOf(0, NoMachine)
    BY DEF ScanOf
  <2> QED
    BY <1>6, <2>1, SetContextKeeps DEF BaseFailed, PollingTimesOut, releaseContext, asking
<1>7. ASSUME Len(scans) # 0 PROVE scanTarget(Len(scans)) # NoMachine => ScanOf(Len(scans), scanTarget(Len(scans)))
  BY <1>7 DEF scanTarget, ScanOf, ContextInv
<1>8. ASSUME NEW c \in scanners, Recognised(c) PROVE ContextInv'
  <2>1. UNCHANGED <<scans, queries>>
    BY <1>8 DEF Recognised, asking
  <2>2. CASE scanTarget(LatestScanOf) = NoMachine
    <3>1. ScanOf(0, NoMachine)
      BY DEF ScanOf
    <3> QED
      BY <1>8, <2>1, <2>2, <3>1, SetContextKeeps DEF Recognised, releaseContext
  <2>3. CASE scanTarget(LatestScanOf) # NoMachine
    <3>1. ScanOf(LatestScanOf, scanTarget(LatestScanOf))
      BY <1>7, <2>3 DEF LatestScanOf, ScanOf
    <3> QED
      BY <1>8, <2>1, <2>3, <3>1, SetContextKeeps DEF Recognised, lockScan
  <2> QED
    BY <2>2, <2>3
<1>9. CASE shootScan
  BY <1>9, SameContextKeeps DEF shootScan, asking
<1>10. ASSUME NEW x \in shots, ShotBase(x) \/ ShotCaptured(x) \/ ShotGivesUp(x) PROVE ContextInv'
  BY <1>10, SameContextKeeps DEF ShotBase, ShotCaptured, ShotGivesUp, asking
<1>11. ASSUME NEW x \in shots, ShotRead(x) PROVE ContextInv'
  <2>1. UNCHANGED <<scans, queries>>
    BY <1>11 DEF ShotRead, asking
  <2>2. CASE scanTarget(LatestScanOf) = NoMachine
    BY <1>11, <2>1, <2>2, SameContextKeeps DEF ShotRead
  <2>3. CASE scanTarget(LatestScanOf) # NoMachine
    <3>1. ScanOf(LatestScanOf, scanTarget(LatestScanOf))
      BY <1>7, <2>3 DEF LatestScanOf, ScanOf
    <3> QED
      BY <1>11, <2>1, <2>3, <3>1, SetContextKeeps DEF ShotRead, lockScan
  <2> QED
    BY <2>2, <2>3
<1>12. CASE sendChat
  <2>1. PICK t : t = [id |-> turns + 1, eq |-> chosen, status |-> "pending", about |-> NoMachine]
    OBVIOUS
  <2>2. PICK q : q = [turn |-> turns + 1, eq |-> chosen, scan |-> origin, about |-> NoMachine]
    OBVIOUS
  <2>3. /\ chat' = Append(chat, t) /\ queries' = queries \cup {q}
        /\ UNCHANGED <<chosen, origin, response, scans>>
    BY <1>12, <2>1, <2>2 DEF sendChat, scanning
  <2>4. IsTurn(t) /\ t.eq = chosen /\ t.status # "done"
    BY <2>1 DEF IsTurn
  <2>5. IsQuery(q) /\ q.scan = origin /\ q.eq = chosen /\ q.about = NoMachine
    BY <2>2 DEF IsQuery
  <2>10. PICK n \in Nat : DOMAIN chat = 1..n
    BY DEF ContextInv
  <2>6. PICK S : S = {chat[i] : i \in DOMAIN chat} \cup {t}
    OBVIOUS
  <2>11. chat \in Seq(S)
    <3>1. chat = [i \in 1..n |-> chat[i]]
      BY <2>10 DEF ContextInv
    <3>2. \A i \in 1..n : chat[i] \in S
      BY <2>6, <2>10
    <3> QED
      BY <3>1, <3>2
  <2>12. Len(chat) = n /\ t \in S
    BY <2>6, <2>10, <2>11
  <2>13. /\ chat' \in Seq(S) /\ Len(chat') = Len(chat) + 1
         /\ \A i \in 1..Len(chat) : chat'[i] = chat[i]
         /\ chat'[Len(chat) + 1] = t
    BY <2>3, <2>11, <2>12
  <2>7. /\ DOMAIN chat' = 1..(Len(chat) + 1) /\ DOMAIN chat = 1..Len(chat) /\ Len(chat) \in Nat
        /\ chat' = [i \in DOMAIN chat' |-> chat'[i]]
        /\ \A i \in DOMAIN chat : chat'[i] = chat[i]
        /\ chat'[Len(chat) + 1] = t
    BY <2>10, <2>12, <2>13
  <2>8. \A i \in DOMAIN chat' : chat'[i] = t \/ (i \in DOMAIN chat /\ chat'[i] = chat[i])
    BY <2>7
  <2>9. Len(chat) + 1 \in Nat
    BY <2>7
  <2> QED
    BY <2>3, <2>4, <2>5, <2>7, <2>8, <2>9 DEF ContextInv, ScanOf
<1>13. CASE cancelChat
  <2>1. /\ UNCHANGED <<chosen, origin, response, scans, queries>>
        /\ chat' = [i \in DOMAIN chat |-> IF Pending(chat[i])
                        THEN [chat[i] EXCEPT !.status = "cancelled"] ELSE chat[i]]
    BY <1>13 DEF cancelChat, scanning, asking
  <2>2. ASSUME NEW i \in DOMAIN chat
        PROVE  /\ IsTurn(chat'[i]) /\ chat'[i].eq = chat[i].eq
               /\ chat'[i] = chat[i] \/ chat'[i].status # "done"
    <3>1. IsTurn(chat[i])
      BY DEF ContextInv
    <3>2. PICK t : t = [chat[i] EXCEPT !.status = "cancelled"]
      OBVIOUS
    <3>3. IsTurn(t) /\ t.eq = chat[i].eq /\ t.status = "cancelled"
      BY <3>1, <3>2 DEF IsTurn
    <3> QED
      BY <2>1, <3>1, <3>2, <3>3
  <2> QED
    BY <2>1, <2>2, TurnsKeep
<1>14. ASSUME NEW q \in queries, AnswerQuery(q) PROVE ContextInv'
  <2>1. PICK a : a = [q EXCEPT !.about = Resolve(q)]
    OBVIOUS
  <2>2. queries' = (queries \ {q}) \cup {a} /\ SameContext /\ UNCHANGED scans
    BY <1>14, <2>1 DEF AnswerQuery, scanning
  <2>3. IsQuery(q) /\ ScanOf(q.scan, q.eq)
    BY DEF ContextInv
  <2>4. IsQuery(a) /\ a.scan = q.scan /\ a.eq = q.eq /\ a.about = Resolve(q)
    BY <2>1, <2>3 DEF IsQuery
  <2>5. Resolve(q) \in {NoMachine, q.eq}
    BY <2>3 DEF Resolve, ScanOf, LatestScanOf
  <2> QED
    BY <2>2, <2>3, <2>4, <2>5 DEF ContextInv, SameContext, ScanOf
<1>15. ASSUME NEW q \in queries, NEW status, NEW about,
             chat' = WithTurn(q, status, about), status # "done" \/ about = chosen,
             UNCHANGED <<chosen, origin, scans>>, response' \in {response, chosen},
             queries' \subseteq queries
      PROVE  ContextInv'
  <2>1. chat' = [i \in DOMAIN chat |-> IF chat[i].id = q.turn
                   THEN [chat[i] EXCEPT !.status = status, !.about = about] ELSE chat[i]]
    BY <1>15 DEF WithTurn
  <2>2. ASSUME NEW i \in DOMAIN chat
        PROVE  /\ IsTurn(chat'[i]) /\ chat'[i].eq = chat[i].eq
               /\ chat'[i] = chat[i] \/ chat'[i].about = chosen \/ chat'[i].status # "done"
    <3>1. IsTurn(chat[i])
      BY DEF ContextInv
    <3>2. PICK t : t = [chat[i] EXCEPT !.status = status, !.about = about]
      OBVIOUS
    <3>3. IsTurn(t) /\ t.eq = chat[i].eq /\ t.status = status /\ t.about = about
      BY <3>1, <3>2 DEF IsTurn
    <3> QED
      BY <1>15, <2>1, <3>1, <3>2, <3>3
  <2> QED
    BY <1>15, <2>1, <2>2, TurnsKeep
<1>16. ASSUME NEW q \in queries, ReadAnswer(q) PROVE ContextInv'
  <2>1. /\ queries' = queries \ {q} /\ UNCHANGED <<chosen, origin, scans>>
        /\ IF turnGone(q) THEN UNCHANGED <<chat, response>>
           ELSE chat' = WithTurn(q, "done", q.about) /\ response' = q.about
        /\ q.about # NoMachine
    BY <1>16 DEF ReadAnswer, scanning
  <2>2. CASE turnGone(q)
    BY <2>1, <2>2 DEF ContextInv, ScanOf
  <2>3. CASE ~turnGone(q)
    <3>1. q.about = chosen
      BY <2>1, <2>3 DEF turnGone, ContextInv
    <3> QED
      BY <1>15, <2>1, <2>3, <3>1
  <2> QED
    BY <2>2, <2>3
<1>17. ASSUME NEW q \in queries, QueryFails(q) PROVE ContextInv'
  <2>1. /\ queries' = queries \ {q} /\ UNCHANGED <<chosen, origin, scans, response>>
        /\ chat' = chat \/ chat' = WithTurn(q, "error", NoMachine)
    BY <1>17 DEF QueryFails, scanning
  <2>2. CASE chat' = chat
    BY <2>1, <2>2 DEF ContextInv, ScanOf
  <2> QED
    BY <1>15, <2>1, <2>2
<1>18. CASE UNCHANGED contextVars
  BY <1>18, SameContextKeeps DEF contextVars, SameContext
<1> QED
  BY <1>1, <1>2, <1>3, <1>4, <1>5, <1>6, <1>8, <1>9, <1>10, <1>11, <1>12, <1>13, <1>14,
     <1>16, <1>17, <1>18 DEF ContextNext

\* What the screen says about an equipment is about the one it shows.
THEOREM ContextCorrect == ContextSpec => []AnswersFitTheScreen
<1>1. ContextInit => ContextInv
  <2> SUFFICES ASSUME ContextInit PROVE ContextInv
    OBVIOUS
  <2>1. DOMAIN chat = 1..0 /\ chat = [i \in DOMAIN chat |-> chat[i]] /\ scans \in Seq(Machinery \cup {Foreign})
    BY DEF ContextInit
  <2> QED
    BY <2>1 DEF ContextInit, ContextInv, ScanOf
<1> QED
  BY <1>1, ContextInvImplies, ContextNextInv, PTL DEF ContextSpec

-----------------------------------------------------------------------------
(* Who works at the PDA.                                                   *)

IsCamera(c) ==
  /\ c = [at |-> c.at, stale |-> c.stale, matched |-> c.matched, of |-> c.of]
  /\ c.stale \in BOOLEAN

\* The way back from a screen: no work screen lies behind a sign-in screen.
WayBack(name, way) ==
  \/ name \in {"account", "home"} /\ way = <<>>
  \/ name = "faceSetup" /\ way = <<"account">>
  \/ name = "face" /\ way = <<"account", "faceSetup">>
  \/ name = "ctx" /\ way \in {<<>>, <<"home">>, <<"account">>, <<"account", "faceSetup">>,
                              <<"account", "faceSetup", "face">>}

\* A camera that still counts has only looked at whoever typed the number last, ...
Sane(c) ==
  /\ IsCamera(c)
  /\ c.at = "off" => c = Off
  /\ c.at \in {"asked", "passed"} => c.of # {}

Watches(c, who) == ~c.stale => c.of \subseteq {who}
Stopped(c) == c.stale \/ c = Off

\* ... and only counts on its screen.
CamerasInv ==
  /\ cameras = [i \in CameraSlots |-> cameras[i]]
  /\ \A i \in CameraSlots :
       /\ Sane(cameras[i]) /\ Watches(cameras[i], operator)
       /\ view = "face" \/ Stopped(cameras[i])

LoginInv == CamerasInv /\ WayBack(view, stack) /\ WorkersWereChecked

LEMMA OffIsSane == Sane(Off) /\ Stopped(Off) /\ Off.of = {}
  BY DEF Off, Sane, Stopped, IsCamera

\* A stopped camera has looked at nobody who counts.
LEMMA StoppedWatches ==
  ASSUME NEW c, Sane(c), Stopped(c), NEW who
  PROVE  Watches(c, who)
  BY OffIsSane DEF Sane, Stopped, Watches

\* stopFaceCamera
LEMMA StopStops ==
  ASSUME NEW c, NEW i \in CameraSlots, Sane(c[i])
  PROVE  Sane(StopFace(c)[i]) /\ Stopped(StopFace(c)[i])
<1>1. PICK s : s = [c[i] EXCEPT !.stale = (c[i].at # "off")]
  OBVIOUS
<1>2. StopFace(c)[i] = s
  BY <1>1 DEF StopFace
<1>3. IsCamera(c[i])
  BY DEF Sane
<1>4. CASE c[i].at = "off"
  <2>1. c[i] = Off
    BY <1>4 DEF Sane
  <2>2. (c[i].at # "off") = FALSE
    BY <1>4
  <2>3. s = [c[i] EXCEPT !.stale = FALSE]
    BY <1>1, <2>2
  <2>4. /\ s = [at |-> s.at, stale |-> s.stale, matched |-> s.matched, of |-> s.of]
        /\ s.at = c[i].at /\ s.stale = FALSE /\ s.matched = c[i].matched /\ s.of = c[i].of
    BY <1>3, <2>3 DEF IsCamera
  <2>5. Off.at = "off" /\ Off.matched = 0 /\ Off.of = {}
    BY DEF Off
  <2>6. s = [at |-> "off", stale |-> FALSE, matched |-> 0, of |-> {}]
    BY <2>1, <2>4, <2>5
  <2> QED
    BY <1>2, <2>6, OffIsSane DEF Off
<1>5. CASE c[i].at # "off"
  <2>1. IsCamera(s) /\ s.stale = TRUE /\ s.at = c[i].at /\ s.of = c[i].of
    BY <1>1, <1>3, <1>5 DEF IsCamera
  <2> QED
    BY <1>2, <1>5, <2>1 DEF Sane, Stopped
<1> QED
  BY <1>4, <1>5

\* Whoever is looked at next, no camera counts that was stopped.
LEMMA AllStopped ==
  ASSUME NEW c, \A i \in CameraSlots : Sane(c[i]), cameras' = StopFace(c)
  PROVE  CamerasInv'
<1>1. cameras' = [i \in CameraSlots |-> cameras'[i]]
  BY DEF StopFace
<1>2. ASSUME NEW i \in CameraSlots
      PROVE  /\ Sane(cameras'[i]) /\ Stopped(cameras'[i])
             /\ Watches(cameras'[i], operator')
  BY StopStops, StoppedWatches
<1> QED
  BY <1>1, <1>2 DEF CamerasInv

\* Another screen is shown, and whoever works stays.
LEMMA ScreenKeeps ==
  ASSUME CamerasInv, NEW name, NEW c, ShowScreen(name, c), name # "face",
         c = [i \in CameraSlots |-> c[i]], \A i \in CameraSlots : Sane(c[i]),
         view # "face" => \A i \in CameraSlots : Stopped(c[i])
  PROVE  CamerasInv'
<1>1. CASE view = "face"
  BY <1>1, AllStopped DEF ShowScreen
<1>2. CASE view # "face"
  <2>1. cameras' = c
    BY <1>2 DEF ShowScreen
  <2> QED
    BY <1>2, <2>1, StoppedWatches DEF CamerasInv
<1> QED
  BY <1>1, <1>2

LEMMA CamerasFacts ==
  ASSUME CamerasInv
  PROVE  /\ cameras = [i \in CameraSlots |-> cameras[i]]
         /\ \A i \in CameraSlots : Sane(cameras[i])
         /\ view # "face" => \A i \in CameraSlots : Stopped(cameras[i])
  BY DEF CamerasInv

LEMMA AppendOne == ASSUME NEW a, NEW b PROVE Append(<<a>>, b) = <<a, b>>
<1>1. PICK S : S = {a, b}
  OBVIOUS
<1>2. PICK t : t = Append(<<a>>, b)
  OBVIOUS
<1>3. <<a>> \in Seq(S) /\ Len(<<a>>) = 1 /\ <<a>>[1] = a
  BY <1>1
<1>4. t \in Seq(S) /\ Len(t) = 2 /\ t[1] = a /\ t[2] = b
  BY <1>1, <1>2, <1>3
<1>5. t = [i \in 1..2 |-> t[i]]
  BY <1>4
<1>6. <<a, b>> \in Seq(S) /\ Len(<<a, b>>) = 2
  BY <1>1
<1>7. <<a, b>> = [i \in 1..2 |-> <<a, b>>[i]]
  BY <1>6
<1>8. t = <<a, b>>
  BY <1>4, <1>5, <1>7
<1> QED
  BY <1>2, <1>8

LEMMA AppendTwo == ASSUME NEW a, NEW b, NEW c PROVE Append(<<a, b>>, c) = <<a, b, c>>
<1>1. PICK S : S = {a, b, c}
  OBVIOUS
<1>2. PICK t : t = Append(<<a, b>>, c)
  OBVIOUS
<1>3. <<a, b>> \in Seq(S) /\ Len(<<a, b>>) = 2 /\ <<a, b>>[1] = a /\ <<a, b>>[2] = b
  BY <1>1
<1>4. t \in Seq(S) /\ Len(t) = 3 /\ t[1] = a /\ t[2] = b /\ t[3] = c
  BY <1>1, <1>2, <1>3
<1>5. t = [i \in 1..3 |-> t[i]]
  BY <1>4
<1>6. <<a, b, c>> \in Seq(S) /\ Len(<<a, b, c>>) = 3
  BY <1>1
<1>7. <<a, b, c>> = [i \in 1..3 |-> <<a, b, c>>[i]]
  BY <1>6
<1>8. t = <<a, b, c>>
  BY <1>4, <1>5, <1>7
<1> QED
  BY <1>2, <1>8

\* One screen back.
LEMMA BackTwo == ASSUME NEW a, NEW b PROVE SubSeq(<<a, b>>, 1, 1) = <<a>>
<1>1. PICK S : S = {a, b}
  OBVIOUS
<1>2. PICK t : t = SubSeq(<<a, b>>, 1, 1)
  OBVIOUS
<1>3. <<a, b>> \in Seq(S) /\ Len(<<a, b>>) = 2 /\ <<a, b>>[1] = a
  BY <1>1
<1>4. t \in Seq(S) /\ Len(t) = 1 /\ t[1] = a
  BY <1>1, <1>2, <1>3
<1>5. t = [i \in 1..1 |-> t[i]]
  BY <1>4
<1>6. <<a>> \in Seq(S) /\ Len(<<a>>) = 1 /\ <<a>>[1] = a
  BY <1>1
<1>7. <<a>> = [i \in 1..1 |-> <<a>>[i]]
  BY <1>6
<1>8. t = <<a>>
  BY <1>4, <1>5, <1>6, <1>7
<1> QED
  BY <1>2, <1>8

LEMMA BackThree == ASSUME NEW a, NEW b, NEW c PROVE SubSeq(<<a, b, c>>, 1, 2) = <<a, b>>
<1>1. PICK S : S = {a, b, c}
  OBVIOUS
<1>2. PICK t : t = SubSeq(<<a, b, c>>, 1, 2)
  OBVIOUS
<1>3. <<a, b, c>> \in Seq(S) /\ Len(<<a, b, c>>) = 3 /\ <<a, b, c>>[1] = a /\ <<a, b, c>>[2] = b
  BY <1>1
<1>4. t \in Seq(S) /\ Len(t) = 2 /\ t[1] = a /\ t[2] = b
  BY <1>1, <1>2, <1>3
<1>5. t = [i \in 1..2 |-> t[i]]
  BY <1>4
<1>6. <<a, b>> \in Seq(S) /\ Len(<<a, b>>) = 2
  BY <1>1
<1>7. <<a, b>> = [i \in 1..2 |-> <<a, b>>[i]]
  BY <1>6
<1>8. t = <<a, b>>
  BY <1>4, <1>5, <1>7
<1> QED
  BY <1>2, <1>8

\* The ways back a change of screen leads to.
LEMMA ScreenWay ==
  ASSUME WayBack(view, stack), NEW name \in {"home", "account", "ctx"}, NEW c, ShowScreen(name, c)
  PROVE  WayBack(view', stack')
<1>1. view' = name /\ stack' = IF name \in {"home", "account"} THEN <<>>
                              ELSE IF name = view THEN stack ELSE Append(stack, view)
  BY DEF ShowScreen
<1>2. CASE name \in {"home", "account"}
  BY <1>1, <1>2 DEF WayBack
<1>3. CASE name = "ctx" /\ view = "ctx"
  BY <1>1, <1>3 DEF WayBack
<1>4. CASE name = "ctx" /\ view # "ctx"
  <2>1. stack' = Append(stack, view)
    BY <1>1, <1>4
  <2>2. CASE stack = <<>> /\ view = "account"
    <3>1. stack' = <<"account">>
      BY <2>1, <2>2
    <3> QED
      BY <1>1, <1>4, <3>1 DEF WayBack
  <2>3. CASE stack = <<>> /\ view = "home"
    <3>1. stack' = <<"home">>
      BY <2>1, <2>3
    <3> QED
      BY <1>1, <1>4, <3>1 DEF WayBack
  <2>4. CASE stack = <<"account">> /\ view = "faceSetup"
    <3>1. stack' = <<"account", "faceSetup">>
      BY <2>1, <2>4, AppendOne
    <3> QED
      BY <1>1, <1>4, <3>1 DEF WayBack
  <2>5. CASE stack = <<"account", "faceSetup">> /\ view = "face"
    <3>1. stack' = <<"account", "faceSetup", "face">>
      BY <2>1, <2>5, AppendTwo
    <3> QED
      BY <1>1, <1>4, <3>1 DEF WayBack
  <2> QED
    BY <1>4, <2>2, <2>3, <2>4, <2>5 DEF WayBack
<1> QED
  BY <1>2, <1>3, <1>4

\* Whoever enters the work was checked.
LEMMA EnterKeeps ==
  ASSUME LoginInv, NEW who, NEW c, EnterWork(who, c), who \in checked', checked \subseteq checked',
         c = [i \in CameraSlots |-> c[i]], \A i \in CameraSlots : Sane(c[i]),
         view # "face" => \A i \in CameraSlots : Stopped(c[i])
  PROVE  LoginInv'
<1>1. PICK name \in {"ctx", "home"} : ShowScreen(name, c)
  BY DEF EnterWork
<1>2. CamerasInv'
  BY <1>1, ScreenKeeps DEF LoginInv
<1>3. WayBack(view', stack')
  BY <1>1, ScreenWay DEF LoginInv
<1>4. WorkersWereChecked'
  BY DEF EnterWork, WorkersWereChecked
<1> QED
  BY <1>2, <1>3, <1>4 DEF LoginInv, WayBack

\* One camera moves on.
LEMMA OneCamera ==
  ASSUME CamerasInv, NEW i \in CameraSlots, NEW c, Sane(c), Watches(c, operator),
         view = "face" \/ Stopped(c),
         cameras' = [cameras EXCEPT ![i] = c], UNCHANGED <<view, operator>>
  PROVE  CamerasInv'
  BY DEF CamerasInv

LEMMA OneCameraKeeps ==
  ASSUME LoginInv, NEW i \in CameraSlots, NEW c, Sane(c), Watches(c, operator),
         view = "face" \/ Stopped(c), CameraStep(i, [cameras EXCEPT ![i] = c])
  PROVE  LoginInv'
<1>1. CamerasInv'
  BY OneCamera DEF LoginInv, CameraStep
<1> QED
  BY <1>1 DEF LoginInv, CameraStep, WayBack, WorkersWereChecked

LEMMA BackKeeps == ASSUME LoginInv, GoBack PROVE LoginInv'
<1>0. /\ view \in {"faceSetup", "face", "ctx"} /\ WayBack(view, stack)
      /\ UNCHANGED <<operator, remembered, checked, late>>
  BY DEF LoginInv, WayBack, GoBack
<1>1. CASE stack = <<>>
  <2>1. view = "ctx"
    BY <1>0, <1>1 DEF WayBack
  <2>2. view' = (IF operator = Nobody THEN "account" ELSE "home") /\ stack' = <<>> /\ cameras' = cameras
    BY <1>1, <2>1 DEF GoBack
  <2>3. CamerasInv'
    BY <1>0, <2>1, <2>2 DEF LoginInv, CamerasInv
  <2> QED
    BY <1>0, <2>1, <2>2, <2>3 DEF LoginInv, WayBack, WorkersWereChecked, WorkScreens
<1>2. ASSUME NEW to, NEW rest, to # "face", to # "home",
             view' = to, stack' = (IF to = "account" THEN <<>> ELSE rest),
             to = "account" \/ (to = "faceSetup" /\ rest = <<"account">>),
             cameras' = IF view = "face" THEN StopFace(cameras) ELSE cameras
      PROVE  LoginInv'
  <2>1. CamerasInv'
    <3>1. CASE view = "face"
      BY <1>2, <3>1, CamerasFacts, AllStopped DEF LoginInv
    <3>2. CASE view # "face"
      BY <1>0, <1>2, <3>2 DEF LoginInv, CamerasInv
    <3> QED
      BY <3>1, <3>2
  <2>2. WayBack(view', stack')
    BY <1>2 DEF WayBack
  <2> QED
    BY <1>0, <1>2, <2>1, <2>2 DEF LoginInv, WayBack, WorkersWereChecked, WorkScreens
<1>3. CASE stack = <<"account">>
  <2>1. /\ view' = "account" /\ stack' = <<>>
        /\ cameras' = IF view = "face" THEN StopFace(cameras) ELSE cameras
    <3>1. stack # <<>> /\ Len(stack) = 1 /\ stack[Len(stack)] = "account"
      BY <1>3
    <3> QED
      BY <3>1 DEF GoBack
  <2> QED
    BY <1>2, <2>1
<1>4. CASE stack = <<"home">> /\ view = "ctx"
  <2>1. /\ view' = "home" /\ stack' = <<>> /\ cameras' = cameras
    <3>1. stack # <<>> /\ Len(stack) = 1 /\ stack[Len(stack)] = "home"
      BY <1>4
    <3> QED
      BY <1>4, <3>1 DEF GoBack
  <2>2. CamerasInv'
    BY <1>0, <1>4, <2>1 DEF LoginInv, CamerasInv
  <2> QED
    BY <1>0, <1>4, <2>1, <2>2 DEF LoginInv, WayBack, WorkersWereChecked, WorkScreens
<1>5. CASE stack = <<"account", "faceSetup">>
  <2>1. /\ view' = "faceSetup" /\ stack' = <<"account">>
        /\ cameras' = IF view = "face" THEN StopFace(cameras) ELSE cameras
    <3>1. stack # <<>> /\ Len(stack) = 2 /\ stack[Len(stack)] = "faceSetup"
      BY <1>5
    <3>2. SubSeq(stack, 1, Len(stack) - 1) = <<"account">>
      BY <1>5, <3>1, BackTwo
    <3> QED
      BY <3>1, <3>2 DEF GoBack
  <2> QED
    BY <1>2, <2>1
<1>6. CASE stack = <<"account", "faceSetup", "face">> /\ view = "ctx"
  <2>1. /\ view' = "face" /\ stack' = <<"account", "faceSetup">> /\ cameras' = cameras
    <3>1. stack # <<>> /\ Len(stack) = 3 /\ stack[Len(stack)] = "face"
      BY <1>6
    <3>2. SubSeq(stack, 1, Len(stack) - 1) = <<"account", "faceSetup">>
      BY <1>6, <3>1, BackThree
    <3> QED
      BY <1>6, <3>1, <3>2 DEF GoBack
  <2>2. CamerasInv'
    BY <1>0, <2>1 DEF LoginInv, CamerasInv
  <2> QED
    BY <1>0, <2>1, <2>2 DEF LoginInv, WayBack, WorkersWereChecked, WorkScreens
<1> QED
  BY <1>0, <1>1, <1>3, <1>4, <1>5, <1>6 DEF WayBack

\* A camera starts after the others were stopped.
LEMMA StartedCamera ==
  ASSUME CamerasInv, startFaceCamera(cameras), view' = "face"
  PROVE  CamerasInv'
<1>1. PICK fresh : fresh = [Off EXCEPT !.at = "opening"]
  OBVIOUS
<1>2. Sane(fresh) /\ fresh.of = {}
  BY <1>1 DEF Off, Sane, IsCamera
<1>3. PICK i \in CameraSlots : cameras' = [StopFace(cameras) EXCEPT ![i] = fresh]
  BY <1>1 DEF startFaceCamera
<1>4. cameras' = [j \in CameraSlots |-> IF j = i THEN fresh ELSE StopFace(cameras)[j]]
  BY <1>3 DEF StopFace
<1>5. ASSUME NEW j \in CameraSlots PROVE Sane(cameras'[j]) /\ Watches(cameras'[j], operator')
  <2>1. CASE j = i
    BY <1>2, <1>4, <2>1 DEF Watches
  <2>2. CASE j # i
    <3>1. cameras'[j] = StopFace(cameras)[j]
      BY <1>4, <2>2
    <3>2. Sane(StopFace(cameras)[j]) /\ Stopped(StopFace(cameras)[j])
      BY CamerasFacts, StopStops
    <3> QED
      BY <3>1, <3>2, StoppedWatches
  <2> QED
    BY <2>1, <2>2
<1> QED
  BY <1>4, <1>5 DEF CamerasInv

LEMMA LoginNextInv == LoginInv /\ [LoginNext]_loginVars => LoginInv'
<1> SUFFICES ASSUME LoginInv, [LoginNext]_loginVars PROVE LoginInv'
  OBVIOUS
<1>0. CamerasInv /\ WayBack(view, stack) /\ WorkersWereChecked
  BY DEF LoginInv
<1>1. CASE Reopen
  <2>1. /\ remembered' \in {remembered, Nobody} /\ operator' = remembered'
        /\ view' \in {"account", "ctx", "home"} /\ (operator' = Nobody => view' = "account")
        /\ stack' = <<>> /\ cameras' = [i \in CameraSlots |-> Off] /\ checked' = checked
    BY <1>1 DEF Reopen
  <2>2. CamerasInv'
    BY <2>1, OffIsSane, StoppedWatches DEF CamerasInv
  <2> QED
    BY <1>0, <2>1, <2>2 DEF LoginInv, WayBack, WorkersWereChecked, WorkScreens
<1>2. CASE openFaceSetup
  <2>1. /\ view = "account" /\ view' = "faceSetup" /\ stack' = Append(stack, "account")
        /\ cameras' = cameras /\ UNCHANGED <<operator, remembered, checked, late>>
    BY <1>2 DEF openFaceSetup, ShowScreen
  <2>2. stack = <<>>
    BY <1>0, <2>1 DEF WayBack
  <2>3. stack' = <<"account">>
    BY <2>1, <2>2
  <2>4. CamerasInv'
    BY <1>0, <2>1 DEF CamerasInv
  <2> QED
    BY <1>0, <2>1, <2>3, <2>4 DEF LoginInv, WayBack, WorkersWereChecked, WorkScreens
<1>3. CASE GoBack
  BY <1>3, BackKeeps
<1>4. CASE FaceRetry
  <2>1. /\ view = "face" /\ startFaceCamera(cameras)
        /\ UNCHANGED <<view, stack, operator, remembered, checked, late>>
    BY <1>4 DEF FaceRetry
  <2>2. CamerasInv'
    BY <1>0, <2>1, StartedCamera
  <2> QED
    BY <1>0, <2>1, <2>2 DEF LoginInv, WayBack, WorkersWereChecked
<1>5. CASE FaceBypass
  <2>1. EnterWork(operator, cameras) /\ operator \in checked' /\ checked \subseteq checked'
    BY <1>5 DEF FaceBypass
  <2> QED
    BY <1>0, <2>1, EnterKeeps, CamerasFacts
<1>6. ASSUME NEW who \in Workers, submitLogin(who) PROVE LoginInv'
  <2>1. /\ view = "faceSetup" /\ view' = "face" /\ stack' = Append(stack, "faceSetup")
        /\ startFaceCamera(cameras) /\ UNCHANGED <<remembered, checked, late>>
    BY <1>6 DEF submitLogin
  <2>2. stack = <<"account">>
    BY <1>0, <2>1 DEF WayBack
  <2>3. stack' = <<"account", "faceSetup">>
    BY <2>1, <2>2, AppendOne
  <2>4. CamerasInv'
    BY <1>0, <2>1, StartedCamera
  <2> QED
    BY <1>0, <2>1, <2>3, <2>4 DEF LoginInv, WayBack, WorkersWereChecked, WorkScreens
<1>7. ASSUME NEW who \in Workers, AskAccount(who) PROVE LoginInv'
  BY <1>7 DEF AskAccount, LoginInv, CamerasInv, WayBack, WorkersWereChecked
<1>8. ASSUME NEW i \in CameraSlots, CameraOpened(i) PROVE LoginInv'
  <2>1. Sane(cameras[i]) /\ Watches(cameras[i], operator)
    BY <1>0 DEF CamerasInv
  <2>2. CASE Followed(i)
    <3>1. PICK c : c = [cameras[i] EXCEPT !.at = "watching"]
      OBVIOUS
    <3>2. Sane(c) /\ c.stale = cameras[i].stale /\ c.of = cameras[i].of
      BY <2>1, <3>1 DEF Sane, IsCamera
    <3>3. CameraStep(i, [cameras EXCEPT ![i] = c]) /\ view = "face"
      BY <1>8, <2>2, <3>1 DEF CameraOpened, Followed
    <3> QED
      BY <2>1, <3>2, <3>3, OneCameraKeeps DEF Watches
  <2>3. CASE ~Followed(i)
    <3>1. CameraStep(i, [StopFace(cameras) EXCEPT ![i] = Off])
      BY <1>8, <2>3 DEF CameraOpened
    <3>2. cameras' = [j \in CameraSlots |-> IF j = i THEN Off ELSE StopFace(cameras)[j]]
      BY <3>1 DEF CameraStep, StopFace
    <3>3. ASSUME NEW j \in CameraSlots PROVE Sane(cameras'[j]) /\ Stopped(cameras'[j])
      BY <1>0, <3>2, CamerasFacts, StopStops, OffIsSane
    <3>4. CamerasInv'
      BY <3>2, <3>3, StoppedWatches DEF CamerasInv
    <3> QED
      BY <1>0, <3>1, <3>4 DEF CameraStep, LoginInv, WayBack, WorkersWereChecked
  <2> QED
    BY <2>2, <2>3
<1>9. ASSUME NEW i \in CameraSlots, CameraStep(i, [cameras EXCEPT ![i] = Off]) PROVE LoginInv'
  BY <1>9, OffIsSane, StoppedWatches, OneCameraKeeps
<1>10. ASSUME NEW i \in CameraSlots, FaceFails(i) PROVE LoginInv'
  BY <1>9, <1>10 DEF FaceFails
<1>11. ASSUME NEW i \in CameraSlots, SendFrame(i) PROVE LoginInv'
  <2>1. Sane(cameras[i]) /\ Watches(cameras[i], operator)
    BY <1>0 DEF CamerasInv
  <2>2. CASE Followed(i)
    <3>1. PICK c : c = [cameras[i] EXCEPT !.at = "asked", !.of = @ \cup {operator}]
      OBVIOUS
    <3>2. IsCamera(c) /\ c.at = "asked" /\ c.stale = cameras[i].stale
          /\ c.of = cameras[i].of \cup {operator}
      BY <2>1, <3>1 DEF Sane, IsCamera
    <3>3. CameraStep(i, [cameras EXCEPT ![i] = c]) /\ view = "face"
      <4>1. CameraStep(i, [cameras EXCEPT ![i].at = "asked", ![i].of = @ \cup {operator}])
        BY <1>11, <2>2 DEF SendFrame
      <4>2. i \in DOMAIN cameras
        BY <1>0 DEF CamerasInv
      <4>3. [cameras EXCEPT ![i].at = "asked", ![i].of = @ \cup {operator}] = [cameras EXCEPT ![i] = c]
        BY <3>1, <4>2
      <4> QED
        BY <2>2, <4>1, <4>3 DEF Followed
    <3>4. c.of # {}
      BY <3>2
    <3> QED
      BY <2>1, <3>2, <3>3, <3>4, OneCameraKeeps DEF Watches, Sane
  <2>3. CASE ~Followed(i)
    BY <1>9, <1>11, <2>3 DEF SendFrame
  <2> QED
    BY <2>2, <2>3
<1>12. ASSUME NEW i \in CameraSlots, FrameScored(i) PROVE LoginInv'
  <2>1. Sane(cameras[i]) /\ Watches(cameras[i], operator) /\ cameras[i].at = "asked"
        /\ (view = "face" \/ Stopped(cameras[i])) /\ cameras[i].of # {}
    BY <1>0, <1>12 DEF CamerasInv, FrameScored, Sane
  <2>0. i \in DOMAIN cameras
    BY <1>0 DEF CamerasInv
  <2>5. PICK watching : watching = [cameras[i] EXCEPT !.at = "watching"]
    OBVIOUS
  <2>6. PICK at : at = IF cameras[i].matched + 1 >= Need THEN "passed" ELSE "watching"
    OBVIOUS
  <2>7. PICK more : more = [cameras[i] EXCEPT !.matched = cameras[i].matched + 1, !.at = at]
    OBVIOUS
  <2>8. /\ IsCamera(watching) /\ watching.at # "off" /\ watching.of = cameras[i].of
        /\ watching.stale = cameras[i].stale
    BY <2>1, <2>5 DEF Sane, IsCamera
  <2>9. /\ IsCamera(more) /\ more.at # "off" /\ more.of = cameras[i].of
        /\ more.stale = cameras[i].stale
    BY <2>1, <2>6, <2>7 DEF Sane, IsCamera
  <2>2. PICK c \in {watching, more} : CameraStep(i, [cameras EXCEPT ![i] = c])
    <3>1. CASE CameraStep(i, [cameras EXCEPT ![i].at = "watching"])
      <4>1. [cameras EXCEPT ![i].at = "watching"] = [cameras EXCEPT ![i] = watching]
        BY <2>0, <2>5
      <4> QED
        BY <3>1, <4>1
    <3>2. CASE CameraStep(i, [cameras EXCEPT ![i].matched = @ + 1,
                                ![i].at = IF cameras[i].matched + 1 >= Need THEN "passed"
                                          ELSE "watching"])
      <4>1. [cameras EXCEPT ![i].matched = @ + 1,
                            ![i].at = IF cameras[i].matched + 1 >= Need THEN "passed"
                                      ELSE "watching"] = [cameras EXCEPT ![i] = more]
        BY <2>0, <2>6, <2>7
      <4> QED
        BY <3>2, <4>1
    <3> QED
      BY <1>12, <3>1, <3>2 DEF FrameScored
  <2>3. IsCamera(c) /\ c.at # "off" /\ c.of = cameras[i].of /\ c.stale = cameras[i].stale
    BY <2>2, <2>8, <2>9
  <2>4. Stopped(cameras[i]) => Stopped(c)
    <3>1. cameras[i] # Off
      BY <2>1 DEF Off
    <3> QED
      BY <2>3, <3>1 DEF Stopped
  <2> QED
    BY <2>1, <2>2, <2>3, <2>4, OneCameraKeeps DEF Sane, Watches
<1>13. ASSUME NEW i \in CameraSlots, FacePassed(i) PROVE LoginInv'
  <2>1. Sane(cameras[i]) /\ Watches(cameras[i], operator) /\ cameras[i].of # {}
    BY <1>0, <1>13 DEF CamerasInv, FacePassed, Sane
  <2>2. checked \subseteq checked' /\ UNCHANGED late
        /\ (cameras[i].of = {operator} => operator \in checked')
    BY <1>13 DEF FacePassed
  <2>3. PICK c : c = [cameras EXCEPT ![i] = Off]
    OBVIOUS
  <2>4. c = [j \in CameraSlots |-> IF j = i THEN Off ELSE cameras[j]]
    BY <1>0, <2>3 DEF CamerasInv
  <2>5. /\ c = [j \in CameraSlots |-> c[j]] /\ \A j \in CameraSlots : Sane(c[j])
        /\ view # "face" => \A j \in CameraSlots : Stopped(c[j])
    BY <1>0, <2>4, CamerasFacts, OffIsSane
  <2>6. CASE Followed(i)
    <3>1. cameras[i].of = {operator}
      BY <2>1, <2>6 DEF Followed, Watches
    <3>2. EnterWork(operator, c)
      BY <1>13, <2>3, <2>6 DEF FacePassed
    <3> QED
      BY <2>2, <2>5, <3>1, <3>2, EnterKeeps
  <2>7. CASE ~Followed(i)
    <3>1. cameras' = [cameras EXCEPT ![i] = Off] /\ UNCHANGED <<view, stack, operator, remembered>>
      BY <1>13, <2>7 DEF FacePassed
    <3>2. Watches(Off, operator)
      BY OffIsSane, StoppedWatches
    <3>3. CamerasInv'
      BY <1>0, <3>1, <3>2, OffIsSane, OneCamera
    <3> QED
      BY <1>0, <2>2, <3>1, <3>3 DEF LoginInv, WayBack, WorkersWereChecked
  <2> QED
    BY <2>6, <2>7
<1>14. CASE AccountAnswered
  <2>1. CASE EnterWork(loggingIn, cameras) /\ checked' = checked \cup {loggingIn}
    BY <1>0, <2>1, EnterKeeps, CamerasFacts
  <2>2. CASE UNCHANGED <<view, stack, operator, remembered, cameras, checked>>
    BY <1>0, <1>14, <2>2 DEF AccountAnswered, LoginInv, CamerasInv, WayBack, WorkersWereChecked
  <2> QED
    BY <1>14, <2>1, <2>2 DEF AccountAnswered
<1>15. CASE SendReport
  BY <1>0, <1>15 DEF SendReport, LoginInv, CamerasInv, WayBack, WorkersWereChecked
<1>16. CASE ReportSent
  <2>1. UNCHANGED <<operator, remembered, checked>>
    BY <1>16 DEF ReportSent
  <2>2. CASE ShowScreen("home", cameras) /\ late' = (late \/ view \notin WorkScreens)
    <3>1. CamerasInv'
      BY <1>0, <2>2, CamerasFacts, ScreenKeeps
    <3>2. WayBack(view', stack')
      BY <1>0, <2>2, ScreenWay
    <3> QED
      BY <1>0, <2>1, <2>2, <3>1, <3>2 DEF LoginInv, WayBack, WorkersWereChecked
  <2>3. CASE UNCHANGED <<view, stack, cameras, late>>
    BY <1>0, <2>1, <2>3 DEF LoginInv, CamerasInv, WayBack, WorkersWereChecked
  <2> QED
    BY <1>16, <2>2, <2>3 DEF ReportSent
<1>17. CASE GoHome
  <2>1. /\ view = "ctx" /\ ShowScreen("home", cameras) /\ UNCHANGED <<operator, remembered, checked, late>>
    BY <1>17 DEF GoHome
  <2>2. CamerasInv'
    BY <1>0, <2>1, CamerasFacts, ScreenKeeps
  <2>3. WayBack(view', stack')
    BY <1>0, <2>1, ScreenWay
  <2> QED
    BY <1>0, <2>1, <2>2, <2>3 DEF LoginInv, WayBack, WorkersWereChecked, WorkScreens
<1>18. CASE SignOut
  <2>1. /\ view \in WorkScreens /\ ShowScreen("account", StopFace(cameras))
        /\ operator' = Nobody /\ remembered' = Nobody
    BY <1>18 DEF SignOut
  <2>2. view # "face" /\ view' = "account" /\ cameras' = StopFace(cameras)
    BY <2>1 DEF ShowScreen, WorkScreens
  <2>3. CamerasInv'
    BY <1>0, <2>2, CamerasFacts, AllStopped
  <2>4. WayBack(view', stack')
    BY <1>0, <2>1, ScreenWay
  <2> QED
    BY <2>1, <2>2, <2>3, <2>4 DEF LoginInv, WayBack, WorkersWereChecked, WorkScreens
<1>19. CASE ExitRequested
  BY <1>0, <1>19 DEF ExitRequested, LoginInv, CamerasInv, WayBack, WorkersWereChecked
<1>20. CASE UNCHANGED loginVars
  BY <1>0, <1>20 DEF loginVars, LoginInv, CamerasInv, WayBack, WorkersWereChecked
<1> QED
  BY <1>1, <1>2, <1>3, <1>4, <1>5, <1>6, <1>7, <1>8, <1>10, <1>11, <1>12, <1>13, <1>14,
     <1>15, <1>16, <1>17, <1>18, <1>19, <1>20 DEF LoginNext

\* Whoever is at work, and whomever the tab remembers, was checked.
THEOREM LoginCorrect == LoginSpec => []WorkersWereChecked
<1>1. LoginInit => LoginInv
  <2> SUFFICES ASSUME LoginInit PROVE LoginInv
    OBVIOUS
  <2>1. CamerasInv
    BY OffIsSane, StoppedWatches DEF LoginInit, CamerasInv
  <2> QED
    BY <2>1 DEF LoginInit, LoginInv, WayBack, WorkersWereChecked, WorkScreens
<1>2. LoginInv => WorkersWereChecked
  BY DEF LoginInv
<1> QED
  BY <1>1, <1>2, LoginNextInv, PTL DEF LoginSpec
=============================================================================
