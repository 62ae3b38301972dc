# ShiftLink MES: specification, model checking and proofs

This directory holds the formal side of the ShiftLink MES server
(`shiftlink/mes`, Python): TLA+ modules that model its stateful parts, TLC
configurations that check them on small instances, and theorems checked by
TLAPS. `PROJECT.json` is the machine-readable index: components, runs, mutants,
the map from definitions to source lines, findings, hazards and theorems. Paths
below are relative to the repository root.

## 1. The system

ShiftLink connects a (synthetic) rolling line, the workers' PDA and a knowledge
base of "knowledge cards". One server process owns one SQLite database; a
separate uploader process copies rows to a cloud database.

```
 PDA page (pda.js) --HTTP--> server.py MesService --+-- engine.py       (line, ticker thread)
 admin page --------HTTP-->  (one RLock, one        +-- storage.py      (SQLite)
                              shared connection)    +-- publication.py  (embedding worker thread)
                                                    +-- query.py        (answers, outside the lock)
 uploader.py (own process) <-- the same SQLite file --> cloud tables (db/aiven_schema.sql)
```

Every HTTP handler that changes state, every tick and every locked part of the
publication worker runs under `MesService._lock`, and every write is one SQLite
transaction. So a handler is one atomic action - except where the code leaves
the lock on purpose: the embedding request of the worker, the answering model of
a query. The uploader is another process and shares only the database file.

| component | state | operations | what is hard | must hold |
|---|---|---|---|---|
| knowledge publication (`publication.py`, `candidate_review.py`) | candidate status, decisions, artifact flags, index rows | decide, pass, claim, publish, fail, snapshot, still_current | late results, leases, retries, crashes, answers computed outside the lock | index and answers follow the last decision; passed candidates get indexed |
| card drafts (`storage.py`, `field_draft.py`) | `card_drafts`, `card_draft_records`, `card_draft_reviews` | new draft, merge, decision | merge against a decision on screen | a decision sees the latest text |
| line simulator (`engine.py`) | run, tick, mode, scenario, plan, alarms, event log, queued events | start, pause, scenario, action, recover, tick with its coil moves, reset | commands between ticks, pauses, events queued for the next tick | log and alarms agree, nothing is lost, prescribed repairs are needed, no machine is overfilled, rejects leave as scrap |
| MES service (`server.py`) | engine, active configuration, saved ticks | control, tick, apply_config, queries, handovers | ticker thread against handlers, failure between memory and database | memory and database agree |
| repair sessions (`server.py`, `field_draft.py`) | `resolution_sessions`, `query_evidence` | start, step, remove, finish, save | line, run and questions change between requests | "recovered" is true, verdict covers the steps, line changes stay on record |
| handovers (`storage.py`) | `handover_outbox`, `query_log` | save note, work report, resolution | retries, other bodies under one id, two handovers per session | stored once, applied once, all or nothing |
| uploader (`uploader.py`) | status of outbox rows, cloud tables | one cycle | lost acknowledgement, two uploaders, outages | status tells the truth, nothing is overwritten, all is delivered |
| work reports (`work_reports.py`, `_plan_work_report`) | incidents and their records, queries counted to them, candidates | save report, query about an incident | two people continue one incident, assets replaced meanwhile | an incident is one chain, its handover candidate ends it |
| configuration (`configuration.py`, `scenarios/priority.py`, `apply_config`) | active configuration, configurations, runs, changes | derive, validate, compare, apply, restore | crash and failure between memory and database, restart order | the line runs a valid configuration, the applied changes form a chain |
| fault generators (`progressive_factory.py`, `random_factory.py`, `fault_schedule.py`) | faults in progress, recovery plan, scheduler | tick, mode, repair, recover, reset | commands between the ticks of a growing fault, a scheduler that counts ticks | a fault ends by a repair on record, the log's warnings are the faults |
| accounts (`accounts.py`) | account file, sessions, failures | login, logout, register | crash while the file is made, expiry, lock-out window | confirmed accounts stay, guesses are slow |
| PDA (`pda.js`) | machine on screen, scans, questions, repair record, drafts, what is being sent, who is at work | choose, scan, ask, record, save, sign in and out | each `await` is left with the screen of then and returned to with the screen of now; lost answers, reloads | what is shown, sent and signed is about the machine and the worker it names |
| Pi diagnosis, pipeline, retrieval, dashboards, edge, vision, Unity, scripts | none shared | inference, texts, views | - | - |

The hazards - what could go wrong here and is hard to test - are listed at their
lines in `PROJECT.json`, each with the properties that watch it or the reason
none does.

## 2. Modules

| module | models | extends |
|---|---|---|
| `Publication` | review, publication worker and queries | |
| `ReviewedIndex` | the promise to readers of the index (abstract) | |
| `PublicationProofs` | theorems about `Publication` | `Publication`, `TLAPS` |
| `MesLine` | engine, ticker, runs, stored events | |
| `RepairSession` | questions' evidence and repair sessions on top of the line | `MesLine` |
| `HandoverDelivery` | PDA, handover transactions, uploaders, cloud | |
| `NoteDelivery` | the promise about a note (abstract) | |
| `MesLineProofs` | theorems about `MesLine` | `MesLine`, `TLAPS` |
| `HandoverProofs` | theorems about `HandoverDelivery` | `HandoverDelivery`, `TLAPS` |
| `WorkReports` | reports, incidents, candidates and the queries they cite | |
| `PlantConfig` | deriving, validating, applying and restoring configurations | |
| `Accounts` | the account file, logins and sessions | |
| `ProgressiveFaults` | the engine with growing faults and recovery plans | |
| `RandomFaults` | the engine with random faults and their scheduler | |
| `CoilFlow` | coils on the line: capacities, holds, the scrap branch | |
| `PdaContext` | scans, the machine on screen and questions about it | |
| `PdaResolve` | the repair record of a PDA and its requests | |
| `PdaReports` | reports and notes being written and sent | |
| `PdaLogin` | sign-in by face, account or link, and sign-out | |
| `Subsequences` | part of a sequence by position, without recursion | |
| `SubsequenceFacts` | lemmas: least and greatest numbers, induction, `Subsequences` | `Subsequences`, `TLAPS` |
| `FaultProofs` | theorems about the two fault generators and the coils | `ProgressiveFaults`, `RandomFaults`, `CoilFlow`, `SubsequenceFacts` |
| `ServiceProofs` | theorems about accounts, configuration and reports | `Accounts`, `PlantConfig`, `WorkReports`, `SubsequenceFacts` |
| `RepairProofs` | theorems about `RepairSession` | `RepairSession`, `MesLineProofs` |
| `PdaProofs` | theorems about the four parts of the PDA | the four `Pda...`, `SubsequenceFacts` |
| `MC...` | instances for TLC; `MCComponents` has the ten from `WorkReports` to `PdaLogin`, which share no state | |

### Publication

A candidate is a row of `card_drafts`. `Load` is the detail page; `Decide` and
`QualityPass` are `review_card_draft` with its revision check (`MayDecide`);
`Merge` is the resolution handover that rewrites a waiting candidate.
`Claim`, `Publish` and `Fail` are the three locked parts of
`PublicationManager.process_one` - the embedding request lies between them, so
anything may happen there; `Current` is `_current`. `Snapshot` and `Finish` are
the two locked parts of a query, with `snapshot`'s self-repair (`Healed`) and
`still_current`. `Crash` loses jobs and queries but not the database, `LoseJob`
is the failing failure handler that `run` swallows, `EditCard` and `DamageRow`
are the changes from outside that the code checks for. Time is kept as remaining
waits: leases, delays and the age of the request tick together. Card text,
hashes, chunks and vectors are reduced to a content per card and to whether a
row still matches.

### MesLine

One action per command of `control`, `Tick` for `MesService.tick` with
`save_tick`, `TickNotSaved` for a database that refuses (the ticker thread ends,
as nothing catches the exception), `Reset`, `ApplyConfig` and `Restart` for the
three ways a new run begins. `Refresh` is `_refresh_snapshot`: what a command
changes in the alarms is queued for the next tick. `LineMode`, `AlarmNow` and
`Changes` are `_states` and `_update_alarms`. A recovery plan has a single
action (`_recovery_plan` keeps the last one), hence `done`. Coils appear as
"some coil is on hold"; wear and values do not appear.

### CoilFlow

`TickCoils` folds `_move_coils`'s loop over the coils in the code's order
(`MovingOrder`), with its count of places taken (`occupied`: a discharged coil
does not give its place back before the next tick) and the machines' states of
before the moves. `Running` is `_states`, `TakesScrap` and `Leave` the loop's
body. Of a position only "at the end" is kept and any tick may reach it: the speed
is a measured value. The commands are `MesLine`'s, reduced to what coils feel.

### RepairSession

`Ask` and `Answer` are the two ends of a question; the evidence is stored when
the answer is (`INSERT OR IGNORE`). `OpenFromAnswer` and `OpenNow` are
`resolution_start`, the `Record...` actions `resolution_step` with `_sim_link`,
then `Remove`, `RemoveAll`, `FinishSession` and `SaveHandover`. `Verdict` is
`check_with_mes` with `verdict_of`. Any line action may happen in between.

### HandoverDelivery

`Send`, `LoseRequest` and `Reply` are the network; `SaveNote`, `SaveDirect`,
`SaveInSession`, `RepeatInSession` and `Reject` are `record_handover` on its
different bodies, each with the transaction it commits; `SaveQuery` logs an
answer. `ReadBatch`, `InsertRow`, `CompareRow`, `MarkRow` are the statements of
`upload_pending`, `Abandon` its error paths and a killed process, at any point.
Whether a resolution becomes a draft, joins one or stays an attempt is a choice
(`Applies`): it depends on text only.

### WorkReports

`SaveReport` is `_plan_work_report` and `save_work_report` under one lock and in
one transaction: `Accepted` collects the reasons to refuse a report, `Decisions`
the kinds of candidate a record asks for, `home` the incident it opens or joins.
A record is the facts its rules look at - type, outcome, what its steps are (parts,
failed or working ones), cause, notes, evidence, minutes, whether work in hand is
said to go on, whom it continues and which query it cites. `AskQuery` and
`LogQuery` are the two ends of a query; `ReplaceAsset` and `EditConfig` are what
`apply_config` means here - another asset in a position, or another configuration
(`edition`) with the same ones, which a knowledge gap looks at too.
`DraftResolution` is the other user of card numbers.

### PlantConfig

The upper half is pure: `_compute_material_route`, `Branches`, `from_catalog`,
`expand` with the symptom scenarios, `Valid` and `diff` work on a configuration
reduced to ids, codes, capabilities, signals, relations and scenarios. What `validate`
asks of one entry alone and nothing else reads is one flag: a machine is `sound` (a
coil capacity, distinct signals with unit and semantics), so is a scenario (a boolean
stop, actions with titles and ids of their own). The signals measured as bool
(`Switches`) and whether an effect sets 0 or 1 are kept, because `expand` adds signals. The
lower half is the service: `Boot` and `BootRun` (two transactions, a crash may lie
between), `Apply`, `RefuseApply`, `ApplyFails`, `Reset`, `Tick` with the ticker's
death, and `Crash`. A configuration is its own id, as the code hashes its content.

### Accounts, ProgressiveFaults, RandomFaults

`Accounts` separates creating the account file from filling it, as `__init__` does.
`ProgressiveFaults` keeps one growing fault, the plan with its stage and count-down,
and the steps a repair session asks for (`StepRepair`, `StepNoted`, `StepRestart`,
`RefuseRestart`, as `_sim_link` does); whether readings are out of range is the only
value left. `basePlan` is the machine of the standard mode's last plan: the snapshot shows
that plan whenever there is no progressive one (`PlannedSteps`), also in the progressive mode.
`watched` counts, since the last restart, the healthy ticks in a row of the plan's machine;
it is a history apart from the count-down the code decides by. `RandomFaults`
keeps the scheduler's own tick counter apart from the engine's.

### The PDA

JavaScript runs one piece at a time; each `await` ends a piece. In `PdaContext` and
`PdaLogin` a coroutine is a record of the await it stands at and of the token it
compares afterwards (`S.scanRun`, `faceRun`). In `PdaResolve` and `PdaReports` a
request is sent, handled by the server and read, and the PDA may stop waiting after
8 s (`GiveUp`, `TimesOut`), after which the server may still handle it. `Reload`
keeps `localStorage` only. In `PdaResolve` a repair record can be left and come back to:
`TurnTo` and a work report put it on the way back (`behind`, the entries of
`navigationStack` that are records), `ReturnToRecord` goes back to it although another
machine may be set by now, and `LateScan` is a scan that answers after its screen was
left: it changes the machine, or leaves none, under what is shown. `page` is the machine
of the answers the chat last drawn shows, which a record opened from it keeps (`turn`).
History variables name what a property sets apart: `lost`, `crossed`, `strayed`,
`overlapped`, `late`.

## 3. Runs

All runs use small instances; each configuration file says which.

| run | shows | bounds and why they suffice |
|---|---|---|
| `publication` | the machinery implements `ReviewedIndex` | two candidates (one mergeable, one publishable), 3 decisions, 1 fault: approve, pass and withdraw with a job in flight; three attempt ids outnumber the two a candidate and a stale job can hold |
| `publication_review` | index and answers follow the last decision | one candidate, 5 decisions (pass, withdraw, approve, pass again), two administrators, one query, two assets, 2 faults |
| `publication_progress` | liveness through faults and starvation | 3 candidates, 2 of them never embeddable, 1 fault; units of 60 s: lease 180, time-out 120, delays growing to 300 (the first ones, 10 to 80 s, appear as 120 and 240 s: a longer wait for the fast one, and delays only grow until a new pass) |
| `publication_stale` | finding 1 | one candidate |
| `mes_line` | the line's five properties | five scenarios (prescribed, free, alarming, holding, planless) on two machines, 2 runs of 3 ticks, one queued event before a scenario is chosen, one failed write |
| `repair_session` | "recovered" is true, the record of a session | one session of two steps, one question, 2 machines, 2 runs of a tick: enough for a fault, its confirmation, restart and observed recovery, and for a session that outlives its run; 2 runs of 2 ticks (4.8 million states) and one run of 3 (4.3 million) with a single step gave the same result |
| `repair_paused` | finding 2 | one machine, with pauses |
| `repair_stale_reading` | finding 3 | two questions |
| `handover_delivery` | types, status, sessions and drafts, refinement | two handovers, each with two bodies and both able to close the one session, a query, two uploaders, 5 requests, 1 foreign row: a lost acknowledgement, a second uploader and a foreign row can meet in one row |
| `handover_upload` | liveness of delivery | one handover and one query, two uploaders, 1 foreign row |
| `components` | the 21 invariants of the ten components | 3 reports of up to two records over two assets and two configurations; 2 catalogs (a line with a scrap branch, and a circle of flows) and 4 uploads, two of which `validate` refuses; 3 runs, 2 changes, 2 storage errors; 4 attempts to log in with a lock-out after 2; two machines that break down in turn for 7 ticks; 3 machines with random faults for 6 ticks; 5 coils on three machines and a branch, one machine with room for two, a stop and a hold; 2 scans, a photo and a question; 2 repair records with 4 requests, one lost, one way back to a record and one late scan; 2 reports with 2 posts, a reload and a time-out; 2 workers, 2 cameras and a report being saved |
| `pda_crossed_session` | finding 4 | as in `components`, without late scans and ways back, so that the trace is the crossed answer |

In `components` a behaviour is one of one component and the others stand still
(`part`): the states add up instead of multiplying. `StraysEarly` bounds one of them further:
a scan strays under a repair record only while at most two requests are sent.

`CHECK_DEADLOCK FALSE` stands in the runs where bounds end the behaviour (the
last run has ended and no tick is left; all requests are sent and the rows are
settled); the program itself goes on.

Bounds: `MaxRevision`, `MaxFaults` (Publication); `MaxRun`, `MaxSeq`,
`MaxPending`, `MaxSaveFailures` (MesLine); `MaxQueries` (RepairSession;
`MaxSteps` is the code's own limit of 20); `MaxSends`, `MaxForeign`
(HandoverDelivery); in the ten components every constant whose name starts with
`Max` except `MaxRecords`, `MaxCards`, `MaxDone`, `MaxSteps`, `MaxActive` and `MaxFailures`, which are
limits of the code. Symmetry is used only in runs without liveness.

Each property has a mutant (PROJECT.json, the `Mutant:` operators beside the
definitions they replace): a plausible slip in the code that the property
catches.

### Properties

* `IndexMatchesReview`, `AnswersCiteCurrentReview`, `PassedTextWasSeen`,
  `KeepsPromise` (Publication): no late result, retry, crash or re-review leaves
  a withdrawn text searchable or cited.
* `PassedBecomesSearchable`: what stays passed and unedited is indexed again and again.
* `AlarmsMatchLog`, `StoredMatchesLog`: a run's log read from the start gives
  the active alarms, and the database has the log.
* `ShownStoppedMeansStopped`: the mode `apply_config` relies on is true.
* `AuthoredFaultNeedsRepair`, `HoldsEndWithScenario`: prescribed repairs cannot
  be bypassed; coils are held and released with their scenario.
* `CapacityIsKept`, `RejectsLeaveAsScrap` (CoilFlow): the moves of one tick do not
  overfill a machine; a rejected coil is never finished goods, unless a hold took
  the mark from it.
* `VerdictCoversSteps`, `LineChangesStayOnRecord`, `RecoveredMeansRecovered`:
  what is filed with a handover.
* `StatusTellsTheCloud`, `AppliedAtMostOnce`, `SessionClosedByItsHandover`,
  `PendingIsDelivered`, `KeepsPromise` (HandoverDelivery).
* `IncidentsAreChains`, `HandoverCandidateCloses`, `CitationsKeepTheAsset`
  (WorkReports): a fault's history is one chain that ends with its handover.
* `ActiveIsValid`, `AppliedChangesChain`, `TickerOutlivesCommands` (PlantConfig).
* `ConfirmedAccountsStay`, `GuessesAreSlow` (Accounts).
* `ModeHidesNothing`, `FaultsEndByRepair`, `CompletedWasCalm` (ProgressiveFaults);
  `SchedulerKeepsUp`, `WarningsFollowFaults` (RandomFaults).
* `AnswersFitTheScreen`, `BusyMeansWaiting`, `ScreenShowsTheSession`,
  `ChatReportsNameTheirOwnSession`, `UnconfirmedIsPending`, `WorkersWereChecked` (the
  PDA): no late answer, lost answer or reload makes the screen, the storage or the
  sign-in lie.

### Fairness

* Publication: the worker's loop never ends, so claiming and finishing a job are
  weakly fair; an embedding server that is asked for ever answers (strong
  fairness, not for `SlowDrafts`); it polls every 2 s, which is less than a unit
  of the model's clock, so no unit passes over a claimable candidate and an idle
  worker (`TimelyTick`). Nothing is assumed of administrators, queries or faults.
* HandoverDelivery: an uploader runs every 30 s (weak fairness of reading), and a
  statement that is tried for ever succeeds at last (strong fairness of insert,
  compare and mark). Requests, foreign rows and failures are not fair.

## 4. Findings

1. `publication_stale`: merging a resolution into a waiting candidate rewrites the
   text an administrator may have on screen without changing the revision that
   `review_card_draft` compares. The quality pass itself is safe
   (`PassedTextWasSeen`): it needs an earlier approval, which ends merging.
2. `repair_paused`: on a paused line `perform_action` refreshes the snapshot, every
   machine counts as stopped, the alarm is cleared and its event queued; the
   session is judged "recovered" although the fault is in force and nothing was
   restarted. On start the alarm is back with the next tick.
3. `repair_stale_reading`: `query_evidence` keeps the first reading of a simulated
   second; a command changes readings without advancing simulated time, so a
   session may be judged by another reading than the answer showed.
4. `pda_crossed_session`: `openResolve` assigns the late answer of its start to the
   repair record that is open by then. A worker who turns to another machine before
   the answer arrives records steps of the second machine in the first one's
   session, and the work report names that session. A report can also join one machine to
the session of another with nothing crossed, in two ways (each is a counterexample to
`ReportsNameTheirOwnSession` once `MaxBehind` or `MaxStrays` is 1): the worker
chooses another machine and goes back to the record's screen, whose report button compares
nothing (`pda.js:3962`), or a scan answers after its screen was left (`pda.js:459`) and
changes the machine under the record. From the chat, `resumableSession` compares the
machine of the answers with the present one, which is enough unless a late scan or a
crossed answer had set the record itself against another machine
(`ChatReportsNameTheirOwnSession`).

Observed, without a run of its own: three candidates that always time out starve
those behind them (delays count from the start of an attempt: 3 x 120 s > 300 s;
two are harmless, `publication_progress`). The ticker thread ends on the first
exception of `save_tick`, the publication thread survives its own. `_recovery_plan`'s
comment says a restart is possible only after the confirmation, `recover` requires
it for prescribed repairs only. An asset id may be used again for another machine:
`diff` compares with the active configuration only, and
`docs/design/mock-mes-modularization.md:17` says ids are never reused. A crash between
creating and writing the account file leaves a server that answers every request
with 400, and no repository text promises a way out. The uploader takes its rows in order and
ends a cycle at the first failure, so a row that always fails holds back those behind it.
A line change whose step cannot be stored is on the line but not on record.
`ProgressiveFactoryEngine.snapshot` shows the standard mode's plan while there is no
progressive one (`progressive_factory.py:84`), and that plan outlives its scenario and a
change of mode: if the same machine breaks down, a repair tapped in a repair session is
written down without being done, until its readings are out of range. A catalog
without material flows is given a fixed route of four machines (`configuration.py:195`)
that `validate` refuses for want of flows. A configuration that claims to be the
catalog's baseline is expanded at a restart and not validated again, so signals a new
release adds to a machine may come to contradict its scenarios. Field card ids end
at K-7999; each further resolution is refused, its note included. Read-only handlers
(`/api/outbox`) use the shared connection without the lock. A report the server refuses stays pending on the PDA and blocks the next
ones. A report whose saving ends after the worker signed out opens the home screen.
A quality hold replaces the mark of a coil that waits, rejected, for the full scrap branch
(`engine.py:98`); the coil is released to the finished route, where `engine.py:305` says "A
rejected load cannot fall through to the finished-product route" - so `RejectsLeaveAsScrap`
sets these coils apart (`overwritten`), and without that it fails in ten steps. The console's
`loadReplay` (`web/app.js`) compares nothing after it has fetched a run's configuration: a late
one is shown with another run's snapshots, which `docs/design/mock-mes-modularization.md:106`
forbids. The review page puts the reason typed for one candidate back into the form after a
conflict even if a list refresh has selected another one meanwhile.

## 5. Proofs

TLAPS checks every step of the proofs in the seven `...Proofs` modules and in
`SubsequenceFacts`, whose lemmas they share. They hold
for every value of the constants that satisfies the named assumption of the
component module (`ConstantsAssumption`, `LineAssumption`, `DeliveryAssumption`,
`ReportAssumption`, `ConfigAssumption`, `AccountAssumption`, `ProgressiveAssumption`,
`RandomAssumption`, `CoilAssumption`, `ContextAssumption`, `ResolveAssumption`, `DraftAssumption`,
`LoginAssumption`), which TLC evaluates on each instance. For each component one
inductive invariant (`...Inv`) is proved - it holds at first (`...InitInv`), every
step keeps it (`...NextInv`) - and the theorems are drawn from it.

| module | theorem | states |
|---|---|---|
| `PublicationProofs` | `TypeCorrect`, `IndexCorrect` | `[]TypeOK` (no run checks it), `[]IndexMatchesReview` |
| | `AnswersCorrect`, `TextSeenCorrect` | the action properties of answers and of quality passes |
| | `StaleOnlyAfterMerge` | a decision on an outdated text is on a candidate being merged into, or on an edited card |
| | `Implements` | `Publication` implements `ReviewedIndex` |
| `HandoverProofs` | `TypeCorrect`, `StatusCorrect`, `AppliedOnce`, `SessionCorrect` | the four invariants of `HandoverDelivery` |
| | `Implements` | `HandoverDelivery` implements `NoteDelivery` |
| `MesLineProofs` | `LineTypeCorrect`, `ShownModeCorrect` | `[]LineTypeOK`, `[]ShownStoppedMeansStopped` |
| | `AlarmsCorrect`, `StoredCorrect` | `[]AlarmsMatchLog`, `[]StoredMatchesLog` |
| | `AuthoredRepair`, `HoldsCorrect` | the two action properties of the line |
| `RepairProofs` | `VerdictCorrect`, `RecordCorrect` | `[]VerdictCoversSteps`, `[]LineChangesStayOnRecord` |
| | `RecoveredCorrect` | `RecoveredMeansRecovered`, if `Pausing = FALSE` |
| | `JudgedAtItsMoment` | a session starts from a stored reading of its answer's machine, run and second |
| | `LineUnderSessions` | `RepairSession` implements `MesLine`, whose five properties hold under it |
| `ServiceProofs` | `AccountsCorrect`, `GuessesCorrect` | `[]ConfirmedAccountsStay`, `[]GuessesAreSlow` |
| | `TickerCorrect`, `AppliedCorrect` | `[]TickerOutlivesCommands`, `[]AppliedChangesChain` |
| | `ConfigurationCorrect`, `BaselineCorrect` | `[]ActiveIsValid`; what is derived from a catalog is valid, its route takes a machine once |
| | `ChainsCorrect`, `HandoversCorrect`, `CitationsCorrect` | the three invariants of `WorkReports` |
| `FaultProofs` | `ModeCorrect`, `RepairsCorrect`, `ConfirmationCorrect` | the three invariants of `ProgressiveFaults` |
| | `SchedulerCorrect`, `WarningsCorrect` | the two invariants of `RandomFaults` |
| | `CapacityCorrect` | `[]CapacityIsKept`, if `RouteOnce` |
| | `RejectsCorrect` | `[]RejectsLeaveAsScrap`, if `RouteOnce` and `ScrapLeaves` |
| `PdaProofs` | `ContextCorrect`, `BusyCorrect` | `[]AnswersFitTheScreen`, `[]BusyMeansWaiting` |
| | `ScreenCorrect` | `[]ScreenShowsTheSession` |
| | `ChatNamingCorrect` | `[]ChatReportsNameTheirOwnSession` |
| | `DraftsCorrect`, `LoginCorrect` | `[]UnconfirmedIsPending`, `[]WorkersWereChecked` |

*Publication.* `IndexMatchesReview` alone does not survive a step: that a late
result is for the present pass follows only from what the pass, the artifact, the
job and the screens know of each other. `IInv` adds `PassesMatch` (a pass in force
is for the revision and text of its artifact), `AttemptsCounted` (a running
attempt has been counted, so its back-off is defined), `ViewsKeepUp` (a screen is
never ahead of the audit log, and an up-to-date screen of an approved candidate
shows the approved text - the fact that makes the quality pass safe where a plain
decision is not, finding 1) and `TicketsMatch` (what a running query was served is
the pass then in force). The refinement maps a candidate's verdict to its passed
text while the status is `quality_passed`, the index to the searchable rows;
decisions map to `Decide`, publishing to `Publish`, whatever can only take rows
out to `Withdraw`, everything else to a stutter.

*HandoverDelivery.* `StatusTellsTheCloud` is not inductive: an uploader writes a
status it settled on two statements earlier, while others work on the same rows.
`WorkersAreTruthful` says what an uploader knows between its statements: its rows
are stored and may leave the plant, at "compare" the cloud has the row, at "mark"
the status it is about to write is true. Two facts make that stable: a stored body
and a cloud row never change, and the order of the rows is strict, so a cycle is
at one row at a time (`OneRow`). `EffectsHaveNotes` (nothing is worked into a draft
without a stored note) makes `AppliedAtMostOnce` inductive. In the refinement only
a first save, an acknowledgement, an insert into a free cloud row and a foreign
row are visible.

*MesLine.* `HeldByScenario` and `RecoveryConfirmed` carry the action properties:
coils are on hold only under a holding scenario, which prescribes its repair and so
cannot be left by a command; a prescribed repair is confirmed before its countdown
starts. `ShownStoppedMeansStopped` needs the type of the mode kept for resuming
(never "paused" or "stopped"), which is why a second pause must not overwrite it.
For `AlarmsMatchLog` the proof reads a log from its end: the last event of a machine
is a raise for the active alarm and for no other (`Reads`), and appending the changes
a command or a tick queues keeps that, because a change of alarm queues the clearing
before the raise. `StoredMatchesLog` needs the sequence numbers: a tick stores the
events stamped since the last one, and no event carries a later stamp (`LogInv`), so
what is selected is exactly what was added.

*RepairSession.* Every handler writes one row, and the row it writes has no
judgement, the old one over the same steps, or a new one over its steps
(`SessionStep`); that gives `VerdictCorrect`. `RecoveredCorrect` is about the line:
without pauses either nothing has been logged and there is no alarm, or the line
runs and its alarm is that of the scenario in force (`AlarmInForce`), so the one way
to end an alarm - and to be judged recovered - is to end or recover from its
scenario. The assumption cannot be dropped: finding 2 is its counterexample.
`RecordCorrect` says of each session that a change of the line left a linked step
(`OnRecord`); taking back all steps that may be taken back selects the linked ones,
and a selection keeps every element at a selected position.

*WorkReports.* A record continues the newest one of its incident, but it is accepted
together with others of its report. `ChainInv` says that an incident's records are
stored positions and each continues the one before; the numbers of a report not yet
stored are unused; a report gives an incident one record (`OneHome`), so appending
what it tells cannot fork the chain. For citations, incidents keep their assets and
a logged query keeps the configuration it was asked in.

`HandoversCorrect` needs what the code's walk back through the sources finds:
`ChainIs` proves by induction that from the newest record of an incident the recursive
`handover_chain` returns the incident's records in order, as `ChainInv` has them chained.
So a drafted handover stands on the newest record of a history that began unresolved,
and no later record can continue a resolved one (`CloseInv`).

*Accounts.* `ConfirmedAccountsStay` is inductive as it stands. For `GuessesAreSlow`,
what the server remembers of failures is the end of the list of attempts, all wrong and
in order of time, and what it has forgotten of an unbroken row is a window old
(`Remembers`); a restart or a success ends the row.

*PlantConfig.* The
ticker dies when a tick it stores is there already or has no run. No stored tick
lies ahead of the run in force (`TicksBehind`), and until the first storage error
the run in force is in the database (`RunStored`): applying and resetting store the
run that the next tick belongs to, also when they are refused.
`AppliedInv`: the runs go forward in time, and the newest that can be resumed belong to
the last applied change, or to its expansion; expanding twice is expanding once
(`ExpandTwice`), so any number of restarts leaves the chain intact.
`ConfigurationCorrect` has the invariant that every configuration kept is valid
(`ValidInv`), and three lemmas about the pure half: the recursive main route runs
along flows between machines (`RouteIs`), so the baseline of every catalog is valid
(`BaselineIs`), and expanding keeps a configuration valid although it adds signals and
scenarios (`ExpandedIsValid`): ids of added scenarios are new, those bound to a machine
name an active one that can show them, the shipped ones name none, and the effects of
all of them on bool signals are 0 or 1 (`AllBoolean`), or lie where the machine has no
such signal (`InUnits`).

*CoilFlow.* One tick is a loop over the coils. `Moved` gives it as a recursive
function; the proof carries `LoopInv` through it by induction: the places counted as
taken are at least a machine's coils and at most its capacity, and the order of moving
has every coil once.
`RouteOnce` (the route takes a machine once) holds of every route derived from a
catalog (`BaselineCorrect`); `validate` does not ask for it, and without it the theorem would be false,
as a new run sets one coil on each of the first three stops. `ScrapLeaves` says
that the scrap machine is off the route or its end, as CV-02 is.

*The fault generators.* The three invariants of the progressive mode are kept
together: what has run off the confirmation's count-down since the restart was watched as
healthy ticks in a row (`watched >= Confirmations - plan.left`), so the tick that
completes a plan has seen them all; and a plan outlives its fault but not the other way round. A tick that finds several
machines out of range takes the first one, which exists because the machines are
ordered (well-founded induction, once, in `FirstExists`). The random scheduler stays
at the engine's tick because every command that moves one resets the other
(`InStep`).

*The PDA.* `BusyMeansWaiting` is inductive once each request names the record that
sent it. `ScreenShowsTheSession` follows from what is said of the requests under way
while none was lost or crossed (`Heard`): the record waits for at most one, an answered
edit carries what the server has and was made from what is on screen (`EditAwaited`),
and requests of closed records concern other sessions (`OthersApart`).
For `ChatReportsNameTheirOwnSession` the machine of a record, of its session and of the
answers it was opened from are one until a scan strays or an answer crosses (`NamedInv`),
whatever screens lie in between. For `UnconfirmedIsPending`, unless posts overlapped, whatever is sent is
confirmed or pending, what is awaited is pending, and one request is awaited at a
time. For `AnswersFitTheScreen`, a coroutine that passes its token check works for the
screen it began on, a query carries a scan the Jetson received, and scans are never
withdrawn. For `WorkersWereChecked`, the ways back (`WayBack`) hold no work screen
behind a sign-in screen, and off the face screen every camera is stopped or stale
(`CamerasInv`), so no late look counts for a number typed meanwhile.

*The findings.* Three of the four are delimited by a theorem. Finding 1:
`StaleOnlyAfterMerge` - apart from a card edited after its pass, a decision on an
outdated text is one on a candidate that resolutions are merged into, so a work
report's candidate is never decided on unseen. Finding 3: `JudgedAtItsMoment` - the
reading a session is judged by may be another one than the answer showed, but it is of
the answer's machine, run and second. Finding 4: `ChatNamingCorrect` - from the
chat, no order of turning to machines, going back, lost, refused and late answers misnames a
session, until a late scan or a start that ends when another record is open; the record's own
button has no such guarantee once the worker has gone back to it.
Finding 2 is the assumption of `RecoveredCorrect`.

Assumed beyond plain types: the finitely many ids of `HandoverDelivery` (places in
the order of rows are counted); that a holding scenario prescribes release actions
(which `configuration.validate` demands); that the values that stand for "nothing"
are none of the others; that what is submitted or reported has the fields that
`load_draft` and `work_reports.validate` read (`IsConfiguration`, `RecordFields`).
Of a catalog (`IsCatalog`) it is assumed that no id occurs twice, which `Catalog`
refuses, that capabilities are known ones, that it has material flows and that they run between its
machines, as those of the catalog in the repository do (the route the code falls back to
without flows is never valid, section 4). Of the scenarios in the release
(`AreUnbound`): their ids differ, they name no machine, they are `sound` and give bool
signals 0 or 1. Of an upload that is labelled as a catalog's baseline it is assumed that its
effects give bool signals 0 or 1 even on machines that lack the signal (section 4); of other
uploads nothing of the kind.

Induction over data is done with sets: `ByInduction` (a set of numbers that has 0 and
with every number the next has all) from `LeastNumber`, itself from the well-foundedness
of the naturals, and recursive functions are unfolded one argument at a time
(`RouteIs`, `ChainIs`, `MovedIs`). Where the code filters a list, the models select
positions (`Selected`), whose lemmas in `SubsequenceFacts` replace those the recursive
`SelectSeq` would need.

Left to TLC: the liveness properties `PassedBecomesSearchable` and `PendingIsDelivered`
(fairness and ENABLED are out of the prover's reach), and the four runs that expect a
violation. Every safety property and every refinement that a passing run checks is
stated by a theorem.

## 6. Not modelled, and the plan

Next, in this order:

1. The Pi diagnosis bridge and the safety alerts the PDA polls for.
2. The console's and the review page's screens (`app.js`, `candidate-review.js`).
3. The composition of `PdaReports` with `HandoverDelivery`: one report from the
   worker's fingers to the cloud.

Not to be modelled: the answering pipeline and retrieval (numbers and texts),
dashboards and handover board (read-only), vision, face and edge inference, the
Unity view, deployment, data and training scripts. `PROJECT.json` gives the
reason for each.
