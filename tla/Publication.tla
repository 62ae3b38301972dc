---------------------------- MODULE Publication ----------------------------
(***************************************************************************)
(* The life of a knowledge-card candidate inside the MES server: the       *)
(* administrators' decisions (candidate_review.py, storage.py), the        *)
(* background worker that embeds and indexes what passed the quality       *)
(* review (publication.py), and the queries that answer from the index     *)
(* while all of that goes on (query.py, server.py).                        *)
(*                                                                         *)
(* One MES process owns the database.  Every handler runs under            *)
(* MesService._lock, so a handler is one action; the embedding request     *)
(* and the answering model run outside the lock, so a job and a query are  *)
(* each two actions with anything in between.                              *)
(***************************************************************************)
EXTENDS Integers

CONSTANTS
  Drafts,            \* draft_id of the rows of card_drafts; the worker scans them in order
  WorkReportDrafts,  \* the candidates born from a work report: their sources name an incident
  SlowDrafts,        \* candidates whose embedding request never answers within the timeout
  Contents,          \* card contents that content_hash tells apart
  ValidContents,     \* contents quality_artifact accepts: the schema holds, no placeholder
  Assets,            \* assets that can be installed as the equipment asked about
  IncidentAsset,     \* the asset each work-report candidate's incident happened on
  Admins, Queries,
  AttemptIds,        \* values of uuid4().hex; only their equality matters
  NoAttempt,         \* no attempt_id: the artifact has not been claimed yet
  NoContent,
  LeaseTime, HealDelay, RetryStep, RetryCap, MaxExponent, EmbedTimeout,
  MaxRevision,       \* bound: decisions recorded per candidate
  MaxFaults          \* bound: crashes, lost jobs, outside edits and damaged index rows

\* What the code's constants have in common with every value used here.
ASSUME ConstantsAssumption ==
  /\ Drafts \subseteq Nat
  /\ WorkReportDrafts \subseteq Drafts /\ SlowDrafts \subseteq Drafts
  /\ ValidContents \subseteq Contents
  /\ NoContent \notin Contents /\ NoAttempt \notin AttemptIds
  /\ IncidentAsset \in [WorkReportDrafts -> Assets]
  /\ {LeaseTime, HealDelay, RetryStep, RetryCap, EmbedTimeout, MaxRevision, MaxFaults} \subseteq Nat
  /\ MaxExponent \in 1..6

VARIABLES
  status,    \* card_drafts.status
  revision,  \* number of rows of card_draft_reviews for the candidate
  content,   \* card_drafts.card
  pub,       \* card_drafts.review_flags.publication
  row,       \* the candidate's row of knowledge_publications
  job,       \* the job process_one is working on outside the lock
  installed, \* the asset active_config gives the equipment
  ask,       \* the queries in flight and their last answer
  seen,      \* what each administrator's screen shows
  passed,    \* history: revision and content the last quality pass was given for
  faults

vars == <<status, revision, content, pub, row, job, installed, ask, seen, passed, faults>>
draftVars == <<status, revision, content, pub>>

Statuses == {"pending_review", "invalid", "review_approved", "changes_requested",
             "rejected", "quality_passed"}
PubStates == {"none", "embedding_pending", "embedding_running", "embedding_failed",
              "published", "superseded"}

NoArtifact == [state |-> "none", searchable |-> FALSE, card |-> NoContent, rev |-> 0,
               attempts |-> 0, attempt |-> NoAttempt, wait |-> 0]
NoRow == [rev |-> 0, card |-> NoContent, intact |-> FALSE]
NoJob == [draft |-> -1]
NoView == [draft |-> -1]
NoPass == [rev |-> 0, card |-> NoContent]
Idle == [phase |-> "idle", asset |-> NoContent, ticket |-> {}, cited |-> {}]

Ticket == [draft : WorkReportDrafts, rev : Nat, card : Contents]

-----------------------------------------------------------------------------
(* A candidate as the capture code leaves it: not decided, no artifact.    *)

Init ==
  /\ status \in [Drafts -> {"pending_review", "invalid"}]
  /\ revision = [d \in Drafts |-> 0]
  /\ content \in [Drafts -> Contents]
  /\ pub = [d \in Drafts |-> NoArtifact]
  /\ row = [d \in Drafts |-> NoRow]
  /\ job = NoJob
  /\ installed \in Assets
  /\ ask = [q \in Queries |-> Idle]
  /\ seen = [a \in Admins |-> NoView]
  /\ passed = [d \in Drafts |-> NoPass]
  /\ faults = 0

-----------------------------------------------------------------------------
(* Administrators.  A decision carries the revision the screen was loaded  *)
(* with; the answer reloads the screen.                                    *)

View(d) == [draft |-> d, rev |-> revision[d], card |-> content[d]]

Load(a, d) ==
  /\ seen' = [seen EXCEPT ![a] = View(d)]
  /\ UNCHANGED <<draftVars, row, job, installed, ask, passed, faults>>

\* Mutant: the revision the screen was loaded with is not compared.
MayDecideUnchecked(a, d) == seen[a].draft = d /\ revision[d] < MaxRevision

\* The optimistic check of review_card_draft; a stale revision is a 409 and writes nothing.
MayDecide(a, d) ==
  /\ seen[a].draft = d
  /\ seen[a].rev = revision[d]
  /\ revision[d] < MaxRevision

\* Status, flags and audit row commit together; the new detail goes back to the screen.
Record(a, d, newStatus, artifact) ==
  /\ status' = [status EXCEPT ![d] = newStatus]
  /\ pub' = [pub EXCEPT ![d] = artifact]
  /\ revision' = [revision EXCEPT ![d] = @ + 1]
  /\ seen' = [seen EXCEPT ![a] = [View(d) EXCEPT !.rev = revision[d] + 1]]
  /\ UNCHANGED <<content, row, job, installed, ask, faults>>

\* Mutant: the old artifact keeps its flags when its candidate is decided again.
SupersededKeepsFlags(d) == pub[d]

Superseded(d) ==
  IF pub[d].state = "none" THEN NoArtifact
  ELSE [pub[d] EXCEPT !.state = "superseded", !.searchable = FALSE]

\* approve, request_changes and reject are accepted in every status.
Decide(a, d, newStatus) ==
  /\ newStatus \in {"review_approved", "changes_requested", "rejected"}
  /\ MayDecide(a, d)
  /\ Record(a, d, newStatus, Superseded(d))
  /\ UNCHANGED passed

QualityArtifact(d) ==
  [state |-> "embedding_pending", searchable |-> FALSE, card |-> content[d],
   rev |-> revision[d] + 1, attempts |-> 0, attempt |-> NoAttempt, wait |-> 0]

QualityPass(a, d) ==
  /\ MayDecide(a, d)
  /\ status[d] = "review_approved"
  /\ content[d] \in ValidContents
  /\ d \in WorkReportDrafts          \* otherwise no incident gives it an asset
  /\ Record(a, d, "quality_passed", QualityArtifact(d))
  /\ passed' = [passed EXCEPT ![d] = [rev |-> revision[d] + 1, card |-> seen[a].card]]

\* A resolution handover is merged into a candidate still waiting for its first
\* decision; the card is rewritten and validated again, the revision stays.
MergeTarget(d) == status[d] = "pending_review" /\ d \notin WorkReportDrafts

Merge(d, c, verdict) ==
  /\ MergeTarget(d)
  /\ verdict \in {"pending_review", "invalid"}
  /\ content' = [content EXCEPT ![d] = c]
  /\ status' = [status EXCEPT ![d] = verdict]
  /\ UNCHANGED <<revision, pub, row, job, installed, ask, seen, passed, faults>>

-----------------------------------------------------------------------------
(* The publication worker: claim under the lock, embed outside it, publish *)
(* or record the failure under it again.                                   *)

\* Mutant: a job that died while running is never picked up again.
ClaimableWithoutLease(d) ==
  /\ status[d] = "quality_passed"
  /\ pub[d].state \in {"embedding_pending", "embedding_failed"}
  /\ pub[d].wait = 0

Claimable(d) ==
  /\ status[d] = "quality_passed"
  /\ pub[d].state \in {"embedding_pending", "embedding_failed", "embedding_running"}
  /\ pub[d].wait = 0

Running(d, id) ==
  [pub[d] EXCEPT !.state = "embedding_running", !.searchable = FALSE, !.wait = LeaseTime,
                 !.attempts = IF pub[d].attempts < MaxExponent THEN pub[d].attempts + 1
                              ELSE MaxExponent,
                 !.attempt = id]

\* The first claimable candidate in draft_id order, whoever has waited longest.
Claim(d, id) ==
  /\ job = NoJob
  /\ Claimable(d)
  /\ \A e \in Drafts : e < d => ~Claimable(e)
  /\ id \in AttemptIds
  /\ \A e \in Drafts : pub[e].attempt # id
  /\ pub' = [pub EXCEPT ![d] = Running(d, id)]
  /\ job' = [draft |-> d, rev |-> revision[d], card |-> pub[d].card, attempt |-> id, age |-> 0,
             sound |-> content[d] = pub[d].card /\ pub[d].rev = revision[d]]
  /\ UNCHANGED <<status, revision, content, row, installed, ask, seen, passed, faults>>

\* Mutant: only the attempt is compared, not what the review did meanwhile.
CurrentByAttempt(j) == pub[j.draft].attempt = j.attempt

\* _current: is the claimed artifact still the one under review?
Current(j) ==
  /\ status[j.draft] = "quality_passed"
  /\ revision[j.draft] = j.rev
  /\ pub[j.draft].attempt = j.attempt
  /\ pub[j.draft].card = j.card
  /\ pub[j.draft].state = "embedding_running"

Publish ==
  /\ job # NoJob
  /\ job.sound /\ job.draft \notin SlowDrafts
  /\ IF Current(job)
     THEN /\ row' = [row EXCEPT ![job.draft] = [rev |-> job.rev, card |-> job.card, intact |-> TRUE]]
          /\ pub' = [pub EXCEPT ![job.draft] = [@ EXCEPT
                       !.state = "published", !.searchable = TRUE, !.wait = 0]]
     ELSE UNCHANGED <<row, pub>>
  /\ job' = NoJob
  /\ UNCHANGED <<status, revision, content, installed, ask, seen, passed, faults>>

\* 2**1 .. 2**6; attempts is at least 1 once a job runs.
Doubling == <<2, 4, 8, 16, 32, 64>>
\* Mutant: every retry waits the first delay.
BackoffFlat(attempts) == RetryStep * Doubling[1]
Backoff(attempts) ==
  LET delay == RetryStep * Doubling[attempts]
  IN  IF delay < RetryCap THEN delay ELSE RetryCap

\* The delay runs from the moment the attempt STARTED: a slow failure eats its own backoff.
RetryWait(attempts, age) ==
  IF age < Backoff(attempts) THEN Backoff(attempts) - age ELSE 0

Fail ==
  /\ job # NoJob
  /\ job.sound /\ job.draft \in SlowDrafts => job.age = EmbedTimeout
  /\ pub' = IF Current(job)
            THEN [pub EXCEPT ![job.draft] = [@ EXCEPT
                   !.state = "embedding_failed", !.searchable = FALSE,
                   !.wait = RetryWait(pub[job.draft].attempts, job.age)]]
            ELSE pub
  /\ job' = NoJob
  /\ UNCHANGED <<status, revision, content, row, installed, ask, seen, passed, faults>>

-----------------------------------------------------------------------------
(* Queries.                                                                *)

\* Rows the SELECT and the first test of snapshot let through.
Listed(d) ==
  /\ status[d] = "quality_passed" /\ pub[d].state = "published" /\ pub[d].searchable
  /\ row[d].rev = revision[d] /\ row[d].card = pub[d].card
  /\ d \in WorkReportDrafts /\ IncidentAsset[d] = installed

\* The content, chunk, vector and manifest checks on a listed row.
Verified(d) == row[d].intact /\ content[d] = row[d].card

\* A row that fails the check leaves the index and is queued for the worker.
Healed(d) ==
  IF Listed(d) /\ ~Verified(d)
  THEN [pub[d] EXCEPT !.state = "embedding_failed", !.searchable = FALSE, !.wait = HealDelay]
  ELSE pub[d]

\* Which of the verified cards apply is their conditions' business.
Snapshot(q) ==
  /\ ask[q].phase # "running"
  /\ pub' = [d \in Drafts |-> Healed(d)]
  /\ \E served \in SUBSET {d \in Drafts : Listed(d) /\ Verified(d)} :
       ask' = [ask EXCEPT ![q] =
                [phase |-> "running", asset |-> installed, cited |-> {},
                 ticket |-> {[draft |-> d, rev |-> row[d].rev, card |-> row[d].card] : d \in served}]]
  /\ UNCHANGED <<status, revision, content, row, job, installed, seen, passed, faults>>

\* Mutant: a card passed again meanwhile counts as the card that was served.
StillCurrentAnyRevision(q) ==
  \A t \in ask[q].ticket :
    /\ status[t.draft] = "quality_passed"
    /\ pub[t.draft].state = "published" /\ pub[t.draft].searchable

StillCurrent(q) ==
  /\ \A t \in ask[q].ticket :
       /\ status[t.draft] = "quality_passed"
       /\ revision[t.draft] = t.rev
       /\ pub[t.draft].state = "published" /\ pub[t.draft].searchable
       /\ pub[t.draft].card = t.card
  /\ ask[q].ticket # {} => ask[q].asset = installed

\* The answer cites some of the served cards and freezes their text; or it is
\* refused (503) when any served card's review or the asset has changed.
Finish(q) ==
  /\ ask[q].phase = "running"
  /\ IF StillCurrent(q)
     THEN \E cited \in SUBSET ask[q].ticket :
            ask' = [ask EXCEPT ![q] = [Idle EXCEPT !.phase = "answered", !.cited = cited]]
     ELSE ask' = [ask EXCEPT ![q] = [Idle EXCEPT !.phase = "refused"]]
  /\ UNCHANGED <<draftVars, row, job, installed, seen, passed, faults>>

-----------------------------------------------------------------------------
(* What happens around the server.                                         *)

\* A new configuration can replace the asset while a query or a job is in flight.
Install(asset) ==
  /\ installed' = asset
  /\ UNCHANGED <<draftVars, row, job, ask, seen, passed, faults>>

Fault == faults < MaxFaults /\ faults' = faults + 1

\* The process dies and restarts: the database survives, jobs and queries do not.
Crash ==
  /\ Fault
  /\ job' = NoJob
  /\ ask' = [q \in Queries |-> IF ask[q].phase = "running" THEN Idle ELSE ask[q]]
  /\ UNCHANGED <<draftVars, row, installed, seen, passed>>

\* The transaction that should record the failure fails itself; run() swallows it.
LoseJob ==
  /\ Fault
  /\ job # NoJob
  /\ job' = NoJob
  /\ UNCHANGED <<draftVars, row, installed, ask, seen, passed>>

\* The card column is rewritten outside the review after the quality pass.
EditCard(d, c) ==
  /\ Fault
  /\ status[d] = "quality_passed"
  /\ content' = [content EXCEPT ![d] = c]
  /\ UNCHANGED <<status, revision, pub, row, job, installed, ask, seen, passed>>

\* The payload of an index row (vectors, chunks or manifest) no longer matches its card.
DamageRow(d) ==
  /\ Fault
  /\ row[d] # NoRow
  /\ row' = [row EXCEPT ![d].intact = FALSE]
  /\ UNCHANGED <<draftVars, job, installed, ask, seen, passed>>

\* Time passes; the embedding request ends (urlopen's timeout) before EmbedTimeout is exceeded.
Tick ==
  /\ (\E d \in Drafts : pub[d].wait > 0) \/ job # NoJob
  /\ job # NoJob => job.age < EmbedTimeout
  /\ pub' = [d \in Drafts |-> IF pub[d].wait > 0 THEN [pub[d] EXCEPT !.wait = @ - 1] ELSE pub[d]]
  /\ job' = IF job = NoJob THEN NoJob ELSE [job EXCEPT !.age = @ + 1]
  /\ UNCHANGED <<status, revision, content, row, installed, ask, seen, passed, faults>>

-----------------------------------------------------------------------------
ClaimSome == \E d \in Drafts, id \in AttemptIds : Claim(d, id)

Next ==
  \/ \E a \in Admins, d \in Drafts :
       \/ Load(a, d)
       \/ \E s \in {"review_approved", "changes_requested", "rejected"} : Decide(a, d, s)
       \/ QualityPass(a, d)
  \/ \E d \in Drafts, c \in Contents :
       \/ \E verdict \in {"pending_review", "invalid"} : Merge(d, c, verdict)
       \/ EditCard(d, c)
  \/ ClaimSome \/ Publish \/ Fail
  \/ \E q \in Queries : Snapshot(q) \/ Finish(q)
  \/ \E asset \in Assets : Install(asset)
  \/ Crash \/ LoseJob \/ Tick
  \/ \E d \in Drafts : DamageRow(d)

Spec == Init /\ [][Next]_vars

\* run() polls at least every 2 s, less than the unit the timers are given in: while the
\* process lives, no time unit passes over a claimable candidate and an idle worker.
WorkerHasPolled == job = NoJob => \A d \in Drafts : ~Claimable(d)
TimelyTick == WorkerHasPolled /\ Tick
TimelyNext == Next /\ (Tick => WorkerHasPolled)

\* The worker thread loops for ever, a claimed job ends one way or the other,
\* clocks advance, and the embedding server answers if it is asked again and again.
Fairness ==
  /\ WF_vars(ClaimSome) /\ WF_vars(Publish \/ Fail) /\ WF_vars(TimelyTick)
  /\ \A d \in Drafts \ SlowDrafts : SF_vars(job # NoJob /\ job.draft = d /\ Current(job) /\ Publish)

FairSpec == Init /\ [][TimelyNext]_vars /\ Fairness

-----------------------------------------------------------------------------
(* Properties.                                                             *)

\* Every variable stays within its type (rows of card_drafts, card_draft_reviews
\* and knowledge_publications, the job and the queries in flight).
Artifact == [state : PubStates, searchable : BOOLEAN, card : Contents \cup {NoContent}, rev : Nat,
             attempts : 0..MaxExponent, attempt : AttemptIds \cup {NoAttempt}, wait : Nat]
TypeOK ==
  /\ status \in [Drafts -> Statuses]
  /\ revision \in [Drafts -> Nat]
  /\ content \in [Drafts -> Contents]
  /\ pub \in [Drafts -> Artifact]
  /\ row \in [Drafts -> [rev : Nat, card : Contents \cup {NoContent}, intact : BOOLEAN]]
  /\ job = NoJob \/ job \in [draft : Drafts, rev : Nat, card : Contents, attempt : AttemptIds,
                             age : Nat, sound : BOOLEAN]
  /\ installed \in Assets
  /\ ask \in [Queries -> [phase : {"idle", "running", "answered", "refused"},
                          asset : Assets \cup {NoContent},
                          ticket : SUBSET Ticket, cited : SUBSET Ticket]]
  /\ seen \in [Admins -> [draft : Drafts, rev : Nat, card : Contents] \cup {NoView}]
  /\ passed \in [Drafts -> [rev : Nat, card : Contents \cup {NoContent}]]
  /\ faults \in 0..MaxFaults

\* A candidate is searchable only while its LAST decision is a quality pass, and its
\* index row is the text and revision that pass was given for: no late embedding
\* result, retry, crash or re-review leaves a withdrawn or older card in the index.
IndexMatchesReview ==
  \A d \in Drafts : pub[d].searchable =>
    /\ status[d] = "quality_passed" /\ pub[d].state = "published"
    /\ passed[d].rev = revision[d]
    /\ row[d].rev = passed[d].rev /\ row[d].card = passed[d].card

\* When an answer is stored, every card it cites is still under the quality pass it was
\* served for, with the text the administrator passed, on the asset now installed -
\* although the model ran outside the lock (MesService.query's second locked part).
AnswersCiteCurrentReview ==
  [][\A q \in Queries : ask[q].phase = "running" /\ ask'[q].phase = "answered" =>
       \A t \in ask'[q].cited :
         /\ status[t.draft] = "quality_passed"
         /\ passed[t.draft] = [rev |-> t.rev, card |-> t.card] /\ t.rev = revision[t.draft]
         /\ IncidentAsset[t.draft] = installed]_vars

\* The text that gets indexed is the text the administrator had on screen when passing
\* it: what is on screen cannot be rewritten by a merge between load and decision.
PassedTextWasSeen ==
  [][\A d \in Drafts : passed'[d] # passed[d] => pub'[d].card = passed'[d].card]_vars

\* A candidate that stays passed and unedited gets into the index, whatever fails or
\* crashes, and however often slower candidates earlier in the scan time out.
PassedBecomesSearchable ==
  \A d \in Drafts \ SlowDrafts :
    []<>(pub[d].searchable \/ status[d] # "quality_passed" \/ content[d] # pub[d].card)

\* The promise to readers of the index (ReviewedIndex): the pass in force is the recorded
\* one while the status says so, and what queries find is the row of a searchable candidate.
Verdict == [d \in Drafts |-> IF status[d] = "quality_passed" THEN passed[d] ELSE NoPass]
Index == [d \in Drafts |-> IF pub[d].searchable THEN [rev |-> row[d].rev, card |-> row[d].card]
                           ELSE NoPass]
Promise == INSTANCE ReviewedIndex WITH verdict <- Verdict, index <- Index,
                                       Passes <- [rev : 1..MaxRevision, card : Contents]
\* No interleaving of decisions, jobs, crashes and queries shows an index reader more than that.
KeepsPromise == Promise!Spec

\* What the revision check is documented to give: a decision is taken on the latest text.
DecisionsSeeLatestText ==
  [][\A a \in Admins, d \in Drafts :
       revision'[d] # revision[d] /\ seen'[a] # seen[a] => seen[a].card = content[d]]_vars

=============================================================================
