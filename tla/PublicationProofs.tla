------------------------- MODULE PublicationProofs -------------------------
(* Proofs about Publication for every set of candidates, administrators,   *)
(* queries and assets and for every timing constant.                       *)
EXTENDS Publication, TLAPS

\* A pass in force is for the artifact, which is the text of that revision.
PassesMatch ==
  \A d \in Drafts : status[d] = "quality_passed" =>
    /\ d \in WorkReportDrafts
    /\ passed[d] = [rev |-> revision[d], card |-> pub[d].card]
    /\ pub[d].rev = revision[d]
    /\ pub[d].card \in Contents
    /\ revision[d] \in 1..MaxRevision

\* A job that may still publish has counted its attempt.
AttemptsCounted ==
  \A d \in Drafts : pub[d].state = "embedding_running" => pub[d].attempts \in 1..MaxExponent

\* A screen is never ahead of the audit log; once the candidate is approved, a screen
\* that is up to date shows the text that was approved.
ViewsKeepUp ==
  \A a \in Admins, d \in Drafts : seen[a].draft = d =>
    /\ seen[a].rev <= revision[d]
    /\ seen[a].rev = revision[d] /\ status[d] = "review_approved" => seen[a].card = content[d]

\* A ticket of a running query names the pass that was in force when it was served.
TicketsMatch ==
  \A q \in Queries : ask[q].phase = "running" =>
    \A t \in ask[q].ticket :
      /\ t.rev <= revision[t.draft]
      /\ IncidentAsset[t.draft] = ask[q].asset
      /\ t.rev = revision[t.draft] => passed[t.draft] = [rev |-> t.rev, card |-> t.card]

IInv == /\ TypeOK /\ PassesMatch /\ AttemptsCounted /\ ViewsKeepUp /\ TicketsMatch
        /\ IndexMatchesReview

-----------------------------------------------------------------------------
LEMMA InitInv == Init => IInv
<1> SUFFICES ASSUME Init PROVE IInv
  OBVIOUS
<1> USE ConstantsAssumption
<1>1. TypeOK
  BY DEF Init, TypeOK, Statuses, Artifact, PubStates, NoArtifact, NoRow, NoJob, NoView, NoPass, Idle, Ticket
<1>2. PassesMatch /\ AttemptsCounted /\ IndexMatchesReview
  BY DEF Init, PassesMatch, AttemptsCounted, IndexMatchesReview, NoArtifact
<1>3. ViewsKeepUp
  BY DEF Init, ViewsKeepUp, NoView
<1>4. TicketsMatch
  BY DEF Init, TicketsMatch, Idle
<1> QED
  BY <1>1, <1>2, <1>3, <1>4 DEF IInv

\* The delay a failure leaves is a natural number once the attempt has been counted.
LEMMA RetryWaitNat ==
  ASSUME NEW n \in 1..MaxExponent, NEW age \in Nat
  PROVE  RetryWait(n, age) \in Nat
<1>1. Doubling[n] \in Nat
  BY ConstantsAssumption DEF Doubling
<1>2. Backoff(n) \in Nat
  BY <1>1, ConstantsAssumption DEF Backoff
<1> QED
  BY <1>2 DEF RetryWait

-----------------------------------------------------------------------------
(* The types.                                                              *)

\* A claimed artifact has counted its attempt, is not searchable and keeps its text.
LEMMA RunningType ==
  ASSUME TypeOK, NEW d \in Drafts, NEW id \in AttemptIds
  PROVE  /\ Running(d, id) \in Artifact
         /\ Running(d, id).state = "embedding_running"
         /\ Running(d, id).searchable = FALSE
         /\ Running(d, id).attempts \in 1..MaxExponent
         /\ Running(d, id).card = pub[d].card /\ Running(d, id).rev = pub[d].rev
<1> DEFINE n == IF pub[d].attempts < MaxExponent THEN pub[d].attempts + 1 ELSE MaxExponent
<1>1. pub[d] \in Artifact /\ "embedding_running" \in PubStates /\ FALSE \in BOOLEAN
  BY DEF TypeOK, PubStates
<1>2. n \in 1..MaxExponent /\ n \in 0..MaxExponent /\ LeaseTime \in Nat
  BY <1>1, ConstantsAssumption DEF Artifact
<1>3. Running(d, id) = [pub[d] EXCEPT !.state = "embedding_running", !.searchable = FALSE,
                          !.wait = LeaseTime, !.attempts = n, !.attempt = id]
  BY DEF Running
<1> HIDE DEF n
<1> QED
  BY <1>1, <1>2, <1>3 DEF Artifact

\* A row found broken takes its artifact out of the index; the text under review stays.
LEMMA HealedType ==
  ASSUME TypeOK, NEW d \in Drafts
  PROVE  /\ Healed(d) \in Artifact
         /\ Healed(d).card = pub[d].card /\ Healed(d).rev = pub[d].rev
         /\ Healed(d).searchable => Healed(d) = pub[d]
         /\ Healed(d) = pub[d] \/ Healed(d).state = "embedding_failed"
<1>1. pub[d] \in Artifact /\ "embedding_failed" \in PubStates /\ HealDelay \in Nat
      /\ FALSE \in BOOLEAN
  BY ConstantsAssumption DEF TypeOK, PubStates
<1>2. CASE Listed(d) /\ ~Verified(d)
  <2>1. Healed(d) = [pub[d] EXCEPT !.state = "embedding_failed", !.searchable = FALSE,
                                   !.wait = HealDelay]
    BY <1>2 DEF Healed
  <2> QED
    BY <1>1, <2>1 DEF Artifact
<1>3. CASE ~(Listed(d) /\ ~Verified(d))
  BY <1>1, <1>3 DEF Healed
<1> QED
  BY <1>2, <1>3

\* A decision leaves no searchable and no running artifact behind.
LEMMA SupersededType ==
  ASSUME TypeOK, NEW d \in Drafts
  PROVE  /\ Superseded(d) \in Artifact
         /\ Superseded(d).searchable = FALSE
         /\ Superseded(d).state \in {"none", "superseded"}
<1>1. NoArtifact \in Artifact /\ NoArtifact.state = "none" /\ NoArtifact.searchable = FALSE
  BY ConstantsAssumption DEF NoArtifact, Artifact, PubStates
<1>2. pub[d] \in Artifact /\ "superseded" \in PubStates /\ FALSE \in BOOLEAN
  BY DEF TypeOK, PubStates
<1>3. CASE pub[d].state = "none"
  BY <1>1, <1>3 DEF Superseded
<1>4. CASE pub[d].state # "none"
  <2>1. Superseded(d) = [pub[d] EXCEPT !.state = "superseded", !.searchable = FALSE]
    BY <1>4 DEF Superseded
  <2> QED
    BY <1>2, <2>1 DEF Artifact
<1> QED
  BY <1>3, <1>4

\* The artifact a quality pass leaves: queued, not searchable, for the text of the next revision.
LEMMA QualityArtifactType ==
  ASSUME TypeOK, NEW d \in Drafts
  PROVE  /\ QualityArtifact(d) \in Artifact
         /\ QualityArtifact(d).state = "embedding_pending"
         /\ QualityArtifact(d).searchable = FALSE
         /\ QualityArtifact(d).card = content[d]
         /\ QualityArtifact(d).rev = revision[d] + 1
  BY ConstantsAssumption DEF QualityArtifact, TypeOK, Artifact, PubStates

LEMMA PubUpdate ==
  ASSUME TypeOK, NEW d \in Drafts, NEW p \in Artifact, pub' = [pub EXCEPT ![d] = p]
  PROVE  pub' \in [Drafts -> Artifact]
  BY DEF TypeOK

LEMMA TypeDecision ==
  ASSUME IInv, NEW a \in Admins, NEW d \in Drafts, MayDecide(a, d),
         NEW s \in Statuses, NEW p \in Artifact, Record(a, d, s, p)
  PROVE  /\ status' \in [Drafts -> Statuses] /\ revision' \in [Drafts -> Nat]
         /\ pub' \in [Drafts -> Artifact] /\ content' \in [Drafts -> Contents]
         /\ seen' \in [Admins -> [draft : Drafts, rev : Nat, card : Contents] \cup {NoView}]
<1>1. [View(d) EXCEPT !.rev = revision[d] + 1] \in [draft : Drafts, rev : Nat, card : Contents]
  BY DEF IInv, TypeOK, View
<1> QED
  BY <1>1 DEF IInv, TypeOK, Record

LEMMA TypeStep == IInv /\ [Next]_vars => TypeOK'
<1> SUFFICES ASSUME IInv, [Next]_vars PROVE TypeOK'
  OBVIOUS
<1> USE ConstantsAssumption
<1>1. ASSUME NEW a \in Admins, NEW d \in Drafts, Load(a, d) PROVE TypeOK'
  <2>1. View(d) \in [draft : Drafts, rev : Nat, card : Contents]
    BY DEF IInv, TypeOK, View
  <2> QED
    BY <1>1, <2>1 DEF IInv, TypeOK, Load, draftVars
<1>2. ASSUME NEW a \in Admins, NEW d \in Drafts,
             NEW s \in {"review_approved", "changes_requested", "rejected"}, Decide(a, d, s)
      PROVE TypeOK'
  <2>1. Superseded(d) \in Artifact
    BY SupersededType DEF IInv
  <2> QED
    BY <1>2, <2>1, TypeDecision DEF Decide, Record, IInv, TypeOK, Statuses
<1>3. ASSUME NEW a \in Admins, NEW d \in Drafts, QualityPass(a, d) PROVE TypeOK'
  <2>1. QualityArtifact(d) \in Artifact
    BY QualityArtifactType DEF IInv
  <2>2. seen[a].card \in Contents
    BY <1>3 DEF QualityPass, MayDecide, IInv, TypeOK, NoView
  <2> QED
    BY <1>3, <2>1, <2>2, TypeDecision DEF QualityPass, Record, IInv, TypeOK, Statuses
<1>4. ASSUME NEW d \in Drafts, NEW c \in Contents, NEW v \in {"pending_review", "invalid"},
             Merge(d, c, v)
      PROVE TypeOK'
  BY <1>4 DEF IInv, TypeOK, Merge, Statuses
<1>5. ASSUME NEW d \in Drafts, NEW c \in Contents, EditCard(d, c) PROVE TypeOK'
  BY <1>5 DEF IInv, TypeOK, EditCard, Fault
<1>6. ASSUME NEW d \in Drafts, NEW id \in AttemptIds, Claim(d, id) PROVE TypeOK'
  <2>1. pub' \in [Drafts -> Artifact]
    BY <1>6, RunningType, PubUpdate DEF IInv, Claim
  <2>2. job' \in [draft : Drafts, rev : Nat, card : Contents, attempt : AttemptIds,
                  age : Nat, sound : BOOLEAN]
    BY <1>6 DEF IInv, TypeOK, Claim, Claimable, PassesMatch
  <2> QED
    BY <1>6, <2>1, <2>2 DEF IInv, TypeOK, Claim
<1>7. CASE Publish
  <2>1. pub' \in [Drafts -> Artifact]
    <3> DEFINE p == [pub[job.draft] EXCEPT !.state = "published", !.searchable = TRUE, !.wait = 0]
    <3>1. job.draft \in Drafts /\ pub[job.draft] \in Artifact /\ "published" \in PubStates
      BY <1>7 DEF Publish, IInv, TypeOK, PubStates
    <3>2. p \in Artifact
      BY <3>1 DEF Artifact
    <3>3. pub' = pub \/ pub' = [pub EXCEPT ![job.draft] = p]
      BY <1>7 DEF Publish
    <3> QED
      BY <3>1, <3>2, <3>3, PubUpdate DEF IInv, TypeOK
  <2>2. row' \in [Drafts -> [rev : Nat, card : Contents \cup {NoContent}, intact : BOOLEAN]]
    <3> DEFINE r == [rev |-> job.rev, card |-> job.card, intact |-> TRUE]
    <3>1. r \in [rev : Nat, card : Contents \cup {NoContent}, intact : BOOLEAN]
      BY <1>7 DEF Publish, IInv, TypeOK
    <3>2. row' = row \/ row' = [row EXCEPT ![job.draft] = r]
      BY <1>7 DEF Publish
    <3> QED
      BY <3>1, <3>2 DEF IInv, TypeOK
  <2> QED
    BY <1>7, <2>1, <2>2 DEF IInv, TypeOK, Publish
<1>8. CASE Fail
  <2>1. pub' \in [Drafts -> Artifact]
    <3>1. CASE ~Current(job)
      BY <1>8, <3>1 DEF Fail, IInv, TypeOK
    <3>2. CASE Current(job)
      <4>1. job.draft \in Drafts /\ job.age \in Nat
        BY <1>8 DEF Fail, IInv, TypeOK
      <4>2. pub[job.draft].attempts \in 1..MaxExponent
        BY <3>2, <4>1 DEF Current, IInv, AttemptsCounted
      <4>3. RetryWait(pub[job.draft].attempts, job.age) \in Nat
        BY <4>1, <4>2, RetryWaitNat
      <4> DEFINE p == [pub[job.draft] EXCEPT !.state = "embedding_failed", !.searchable = FALSE,
                         !.wait = RetryWait(pub[job.draft].attempts, job.age)]
      <4>4. p \in Artifact
        <5>1. pub[job.draft] \in Artifact /\ "embedding_failed" \in PubStates
          BY <4>1 DEF IInv, TypeOK, PubStates
        <5> QED
          BY <5>1, <4>3 DEF Artifact
      <4>5. pub' = [pub EXCEPT ![job.draft] = p]
        BY <1>8, <3>2 DEF Fail
      <4> QED
        BY <4>1, <4>4, <4>5, PubUpdate DEF IInv
    <3> QED
      BY <3>1, <3>2
  <2> QED
    BY <1>8, <2>1 DEF IInv, TypeOK, Fail
<1>9. ASSUME NEW q \in Queries, Snapshot(q) PROVE TypeOK'
  <2>1. PICK served \in SUBSET {d \in Drafts : Listed(d) /\ Verified(d)} :
          ask' = [ask EXCEPT ![q] =
                   [phase |-> "running", asset |-> installed, cited |-> {},
                    ticket |-> {[draft |-> d, rev |-> row[d].rev, card |-> row[d].card] : d \in served}]]
    BY <1>9 DEF Snapshot
  <2>2. \A d \in served : /\ d \in WorkReportDrafts
                          /\ [draft |-> d, rev |-> row[d].rev, card |-> row[d].card] \in Ticket
    BY <2>1 DEF Listed, Verified, Ticket, IInv, TypeOK
  <2>3. ask' \in [Queries -> [phase : {"idle", "running", "answered", "refused"},
                              asset : Assets \cup {NoContent},
                              ticket : SUBSET Ticket, cited : SUBSET Ticket]]
    BY <2>1, <2>2 DEF IInv, TypeOK
  <2>4. pub' \in [Drafts -> Artifact]
    BY <1>9, HealedType DEF Snapshot, IInv
  <2> QED
    BY <1>9, <2>3, <2>4 DEF Snapshot, IInv, TypeOK
<1>10. ASSUME NEW q \in Queries, Finish(q) PROVE TypeOK'
  <2> DEFINE Asks == [phase : {"idle", "running", "answered", "refused"},
                      asset : Assets \cup {NoContent},
                      ticket : SUBSET Ticket, cited : SUBSET Ticket]
  <2>1. Idle \in Asks
    BY DEF Idle
  <2>2. ASSUME NEW r \in Asks, NEW c \in SUBSET Ticket
        PROVE  /\ [r EXCEPT !.phase = "refused"] \in Asks
               /\ [r EXCEPT !.phase = "answered", !.cited = c] \in Asks
    OBVIOUS
  <2>3. ask \in [Queries -> Asks]
    BY DEF IInv, TypeOK
  <2>4. \A cited \in SUBSET ask[q].ticket : cited \in SUBSET Ticket
    BY <2>3
  <2>5. ask' \in [Queries -> Asks]
    <3>1. CASE StillCurrent(q)
      <4>1. PICK cited \in SUBSET ask[q].ticket :
              ask' = [ask EXCEPT ![q] = [Idle EXCEPT !.phase = "answered", !.cited = cited]]
        BY <1>10, <3>1 DEF Finish
      <4> QED
        BY <2>1, <2>2, <2>3, <2>4, <4>1
    <3>2. CASE ~StillCurrent(q)
      <4>1. ask' = [ask EXCEPT ![q] = [Idle EXCEPT !.phase = "refused"]]
        BY <1>10, <3>2 DEF Finish
      <4>2. [Idle EXCEPT !.phase = "refused"] \in Asks
        BY <2>1, <2>2
      <4> QED
        BY <2>3, <4>1, <4>2
    <3> QED
      BY <3>1, <3>2
  <2> QED
    BY <1>10, <2>5 DEF Finish, IInv, TypeOK, draftVars
<1>11. CASE Crash
  BY <1>11 DEF Crash, Fault, Idle, IInv, TypeOK, draftVars
<1>12. CASE LoseJob
  BY <1>12 DEF LoseJob, Fault, IInv, TypeOK, draftVars
<1>13. ASSUME NEW d \in Drafts, DamageRow(d) PROVE TypeOK'
  <2>1. row' \in [Drafts -> [rev : Nat, card : Contents \cup {NoContent}, intact : BOOLEAN]]
    <3>1. ASSUME NEW r \in [rev : Nat, card : Contents \cup {NoContent}, intact : BOOLEAN]
          PROVE  [r EXCEPT !.intact = FALSE]
                   \in [rev : Nat, card : Contents \cup {NoContent}, intact : BOOLEAN]
      OBVIOUS
    <3> QED
      BY <1>13, <3>1 DEF DamageRow, IInv, TypeOK
  <2> QED
    BY <1>13, <2>1 DEF DamageRow, Fault, IInv, TypeOK, draftVars
<1>14. CASE Tick
  <2>1. pub' \in [Drafts -> Artifact]
    <3>1. \A d \in Drafts : pub[d].wait > 0 =>
                 [pub[d] EXCEPT !.wait = pub[d].wait - 1] \in Artifact
      <4> SUFFICES ASSUME NEW d \in Drafts, pub[d].wait > 0
                   PROVE  [pub[d] EXCEPT !.wait = pub[d].wait - 1] \in Artifact
        OBVIOUS
      <4>1. pub[d] \in Artifact /\ pub[d].wait - 1 \in Nat
        BY DEF IInv, TypeOK, Artifact
      <4> QED
        BY <4>1 DEF Artifact
    <3> QED
      BY <1>14, <3>1 DEF Tick, IInv, TypeOK
  <2>2. job' = NoJob \/ job' \in [draft : Drafts, rev : Nat, card : Contents,
                                  attempt : AttemptIds, age : Nat, sound : BOOLEAN]
    <3>1. CASE job = NoJob
      BY <1>14, <3>1 DEF Tick
    <3>2. CASE job # NoJob
      <4> DEFINE Jobs == [draft : Drafts, rev : Nat, card : Contents,
                          attempt : AttemptIds, age : Nat, sound : BOOLEAN]
      <4>2. job \in Jobs /\ job.age + 1 \in Nat
        BY <3>2 DEF IInv, TypeOK
      <4>3. ASSUME NEW j \in Jobs, NEW n \in Nat PROVE [j EXCEPT !.age = n] \in Jobs
        OBVIOUS
      <4>1. [job EXCEPT !.age = job.age + 1] \in Jobs
        BY <4>2, <4>3
      <4> QED
        BY <1>14, <3>2, <4>1 DEF Tick
    <3> QED
      BY <3>1, <3>2
  <2> QED
    BY <1>14, <2>1, <2>2 DEF Tick, IInv, TypeOK
<1>15. ASSUME NEW asset \in Assets, Install(asset) PROVE TypeOK'
  BY <1>15 DEF Install, IInv, TypeOK, draftVars
<1>16. CASE UNCHANGED vars
  BY <1>16 DEF vars, IInv, TypeOK
<1> QED
  BY <1>1, <1>2, <1>3, <1>4, <1>5, <1>6, <1>7, <1>8, <1>9, <1>10, <1>11, <1>12, <1>13, <1>14,
     <1>15, <1>16 DEF Next, ClaimSome

-----------------------------------------------------------------------------
(* The invariants.                                                         *)

\* The steps of the worker, of a query and of the clock that touch an artifact.
WorkerStep == ClaimSome \/ Publish \/ Fail \/ (\E q \in Queries : Snapshot(q)) \/ Tick

\* They change neither the text nor the revision under review, and none of them makes an
\* artifact searchable but Publish.
LEMMA WorkerKeepsText ==
  ASSUME IInv, WorkerStep, NEW d \in Drafts
  PROVE  /\ pub'[d].card = pub[d].card /\ pub'[d].rev = pub[d].rev
         /\ pub'[d].state = "embedding_running" => pub'[d].attempts \in 1..MaxExponent
         /\ pub'[d].searchable =>
              \/ pub[d].searchable /\ pub'[d].state = pub[d].state
              \/ Publish /\ Current(job) /\ d = job.draft /\ pub'[d].state = "published"
<1>1. TypeOK /\ pub[d] \in Artifact /\ pub \in [Drafts -> Artifact]
  BY DEF IInv, TypeOK
<1>2. pub[d].state = "embedding_running" => pub[d].attempts \in 1..MaxExponent
  BY DEF IInv, AttemptsCounted
<1>3. CASE ClaimSome
  <2>1. PICK e \in Drafts, id \in AttemptIds : Claim(e, id)
    BY <1>3 DEF ClaimSome
  <2>2. pub'[d] = IF d = e THEN Running(e, id) ELSE pub[d]
    BY <1>1, <2>1 DEF Claim
  <2> QED
    BY <1>1, <1>2, <2>2, RunningType
<1>4. CASE Publish
  <2>1. CASE Current(job) /\ d = job.draft
    <3>1. pub'[d] = [pub[d] EXCEPT !.state = "published", !.searchable = TRUE, !.wait = 0]
      BY <1>1, <1>4, <2>1 DEF Publish
    <3> QED
      BY <1>1, <1>4, <2>1, <3>1 DEF Artifact
  <2>2. CASE ~(Current(job) /\ d = job.draft)
    <3>1. pub'[d] = pub[d]
      BY <1>1, <1>4, <2>2 DEF Publish
    <3> QED
      BY <1>2, <3>1
  <2> QED
    BY <2>1, <2>2
<1>5. CASE Fail
  <2>1. CASE Current(job) /\ d = job.draft
    <3>1. pub'[d] = [pub[d] EXCEPT !.state = "embedding_failed", !.searchable = FALSE,
                       !.wait = RetryWait(pub[d].attempts, job.age)]
      BY <1>1, <1>5, <2>1 DEF Fail
    <3> QED
      BY <1>1, <3>1 DEF Artifact
  <2>2. CASE ~(Current(job) /\ d = job.draft)
    <3>1. pub'[d] = pub[d]
      BY <1>1, <1>5, <2>2 DEF Fail
    <3> QED
      BY <1>2, <3>1
  <2> QED
    BY <2>1, <2>2
<1>6. CASE \E q \in Queries : Snapshot(q)
  <2>1. pub'[d] = Healed(d)
    BY <1>6 DEF Snapshot
  <2> QED
    BY <1>1, <1>2, <2>1, HealedType
<1>7. CASE Tick
  <2>1. pub'[d] = pub[d] \/ pub'[d] = [pub[d] EXCEPT !.wait = pub[d].wait - 1]
    BY <1>7 DEF Tick
  <2> QED
    BY <1>1, <1>2, <2>1 DEF Artifact
<1> QED
  BY <1>3, <1>4, <1>5, <1>6, <1>7 DEF WorkerStep

\* Every step is a decision, a merge, a worker step or one that leaves reviews and artifacts alone.
Bystander ==
  \/ \E a \in Admins, d \in Drafts : Load(a, d)
  \/ \E d \in Drafts, c \in Contents : EditCard(d, c)
  \/ \E q \in Queries : Finish(q)
  \/ \E asset \in Assets : Install(asset)
  \/ Crash \/ LoseJob \/ (\E d \in Drafts : DamageRow(d)) \/ UNCHANGED vars

LEMMA BystanderFrame ==
  Bystander => UNCHANGED <<status, revision, pub, passed>>
  BY DEF Bystander, Load, EditCard, Finish, Install, Crash, LoseJob, DamageRow, draftVars, vars

LEMMA WorkerFrame ==
  WorkerStep => UNCHANGED <<status, revision, content, seen, passed, installed>>
  BY DEF WorkerStep, ClaimSome, Claim, Publish, Fail, Snapshot, Tick

SomeDecision == \E a \in Admins, d \in Drafts,
                   s \in {"review_approved", "changes_requested", "rejected"} : Decide(a, d, s)
SomePass == \E a \in Admins, d \in Drafts : QualityPass(a, d)
SomeMerge == \E d \in Drafts, c \in Contents, v \in {"pending_review", "invalid"} : Merge(d, c, v)

LEMMA StepKinds ==
  [Next]_vars => SomeDecision \/ SomePass \/ SomeMerge \/ WorkerStep \/ Bystander
  BY DEF Next, SomeDecision, SomePass, SomeMerge, WorkerStep, Bystander

\* A merge hits a candidate whose first decision is still to come.
LEMMA MergeFrame ==
  ASSUME IInv, SomeMerge
  PROVE  /\ UNCHANGED <<revision, pub, row, job, ask, seen, passed, installed>>
         /\ \A d \in Drafts :
              \/ status'[d] = status[d] /\ content'[d] = content[d]
              \/ status[d] = "pending_review" /\ status'[d] \in {"pending_review", "invalid"}
<1>1. status \in [Drafts -> Statuses] /\ content \in [Drafts -> Contents]
  BY DEF IInv, TypeOK
<1> QED
  BY <1>1 DEF SomeMerge, Merge, MergeTarget

LEMMA RowsKept ==
  ASSUME IInv, Bystander, NEW d \in Drafts
  PROVE  row'[d].rev = row[d].rev /\ row'[d].card = row[d].card
<1>1. row \in [Drafts -> [rev : Nat, card : Contents \cup {NoContent}, intact : BOOLEAN]]
  BY DEF IInv, TypeOK
<1>2. CASE row' = row
  BY <1>2
<1>3. ASSUME NEW e \in Drafts, DamageRow(e)
      PROVE  row'[d].rev = row[d].rev /\ row'[d].card = row[d].card
  <2>1. row'[d] = IF d = e THEN [row[d] EXCEPT !.intact = FALSE] ELSE row[d]
    BY <1>1, <1>3 DEF DamageRow
  <2> QED
    BY <1>1, <2>1
<1> QED
  BY <1>2, <1>3 DEF Bystander, Load, EditCard, Finish, Install, Crash, LoseJob, vars

LEMMA PassesStep == IInv /\ [Next]_vars => PassesMatch'
<1> SUFFICES ASSUME IInv, [Next]_vars PROVE PassesMatch'
  OBVIOUS
<1>1. PassesMatch /\ TypeOK
  BY DEF IInv
<1>2. CASE SomeDecision
  <2>1. PICK a \in Admins, e \in Drafts, s \in {"review_approved", "changes_requested", "rejected"} :
          Decide(a, e, s)
    BY <1>2 DEF SomeDecision
  <2>2. ASSUME NEW d \in Drafts, status'[d] = "quality_passed"
        PROVE  d # e /\ status[d] = "quality_passed" /\ revision'[d] = revision[d]
               /\ pub'[d] = pub[d] /\ passed'[d] = passed[d]
    BY <1>1, <2>1, <2>2 DEF Decide, Record, TypeOK
  <2> QED
    BY <1>1, <2>2 DEF PassesMatch
<1>3. CASE SomePass
  <2>1. PICK a \in Admins, e \in Drafts : QualityPass(a, e)
    BY <1>3 DEF SomePass
  <2>2. content[e] = seen[a].card /\ content[e] \in Contents
    BY <2>1 DEF QualityPass, MayDecide, IInv, ViewsKeepUp, TypeOK
  <2>3. /\ e \in WorkReportDrafts /\ revision'[e] = revision[e] + 1 /\ revision'[e] \in 1..MaxRevision
        /\ passed'[e] = [rev |-> revision[e] + 1, card |-> content[e]]
        /\ pub'[e] = QualityArtifact(e)
    BY <1>1, <2>1, <2>2, ConstantsAssumption DEF QualityPass, MayDecide, Record, TypeOK
  <2>4. ASSUME NEW d \in Drafts, d # e
        PROVE  status'[d] = status[d] /\ revision'[d] = revision[d]
               /\ pub'[d] = pub[d] /\ passed'[d] = passed[d]
    BY <1>1, <2>1, <2>4 DEF QualityPass, Record, TypeOK
  <2>5. QualityArtifact(e).card = content[e] /\ QualityArtifact(e).rev = revision[e] + 1
    BY <1>1, QualityArtifactType
  <2>6. ASSUME NEW d \in Drafts, status'[d] = "quality_passed"
        PROVE  /\ d \in WorkReportDrafts
               /\ passed'[d] = [rev |-> revision'[d], card |-> pub'[d].card]
               /\ pub'[d].rev = revision'[d]
               /\ pub'[d].card \in Contents
               /\ revision'[d] \in 1..MaxRevision
    <3>1. CASE d = e
      BY <2>2, <2>3, <2>5, <3>1
    <3>2. CASE d # e
      BY <1>1, <2>4, <2>6, <3>2 DEF PassesMatch
    <3> QED
      BY <3>1, <3>2
  <2> QED
    BY <2>6 DEF PassesMatch
<1>4. CASE SomeMerge
  BY <1>1, <1>4, MergeFrame DEF PassesMatch
<1>5. CASE WorkerStep
  BY <1>1, <1>5, WorkerFrame, WorkerKeepsText DEF PassesMatch
<1>6. CASE Bystander
  BY <1>1, <1>6, BystanderFrame DEF PassesMatch
<1> QED
  BY <1>2, <1>3, <1>4, <1>5, <1>6, StepKinds

LEMMA AttemptsStep == IInv /\ [Next]_vars => AttemptsCounted'
<1> SUFFICES ASSUME IInv, [Next]_vars PROVE AttemptsCounted'
  OBVIOUS
<1>1. AttemptsCounted /\ TypeOK
  BY DEF IInv
<1>2. CASE SomeDecision
  <2>1. PICK a \in Admins, e \in Drafts, s \in {"review_approved", "changes_requested", "rejected"} :
          Decide(a, e, s)
    BY <1>2 DEF SomeDecision
  <2>2. pub' = [pub EXCEPT ![e] = Superseded(e)] /\ pub \in [Drafts -> Artifact]
    BY <1>1, <2>1 DEF Decide, Record, TypeOK
  <2> QED
    BY <1>1, <2>2, SupersededType DEF AttemptsCounted
<1>3. CASE SomePass
  <2>1. PICK a \in Admins, e \in Drafts : QualityPass(a, e)
    BY <1>3 DEF SomePass
  <2>2. pub' = [pub EXCEPT ![e] = QualityArtifact(e)] /\ pub \in [Drafts -> Artifact]
    BY <1>1, <2>1 DEF QualityPass, Record, TypeOK
  <2> QED
    BY <1>1, <2>2, QualityArtifactType DEF AttemptsCounted
<1>4. CASE SomeMerge \/ Bystander
  BY <1>1, <1>4, MergeFrame, BystanderFrame DEF AttemptsCounted
<1>5. CASE WorkerStep
  BY <1>5, WorkerKeepsText DEF AttemptsCounted
<1> QED
  BY <1>2, <1>3, <1>4, <1>5, StepKinds

LEMMA IndexStep == IInv /\ [Next]_vars => IndexMatchesReview'
<1> SUFFICES ASSUME IInv, [Next]_vars PROVE IndexMatchesReview'
  OBVIOUS
<1>1. IndexMatchesReview /\ PassesMatch /\ TypeOK
  BY DEF IInv
<1>2. ASSUME NEW e \in Drafts, NEW p \in Artifact, p.searchable = FALSE,
             pub' = [pub EXCEPT ![e] = p], row' = row,
             \A d \in Drafts \ {e} : /\ status'[d] = status[d] /\ revision'[d] = revision[d]
                                     /\ passed'[d] = passed[d]
      PROVE  IndexMatchesReview'
  <2>1. pub \in [Drafts -> Artifact]
    BY <1>1 DEF TypeOK
  <2> QED
    BY <1>1, <1>2, <2>1 DEF IndexMatchesReview
<1>3. CASE SomeDecision
  <2>1. PICK a \in Admins, e \in Drafts, s \in {"review_approved", "changes_requested", "rejected"} :
          Decide(a, e, s)
    BY <1>3 DEF SomeDecision
  <2>2. /\ pub' = [pub EXCEPT ![e] = Superseded(e)] /\ row' = row /\ passed' = passed
        /\ \A d \in Drafts \ {e} : status'[d] = status[d] /\ revision'[d] = revision[d]
    BY <1>1, <2>1 DEF Decide, Record, TypeOK
  <2> QED
    BY <1>1, <1>2, <2>2, SupersededType
<1>4. CASE SomePass
  <2>1. PICK a \in Admins, e \in Drafts : QualityPass(a, e)
    BY <1>4 DEF SomePass
  <2>2. /\ pub' = [pub EXCEPT ![e] = QualityArtifact(e)] /\ row' = row
        /\ \A d \in Drafts \ {e} : /\ status'[d] = status[d] /\ revision'[d] = revision[d]
                                   /\ passed'[d] = passed[d]
    BY <1>1, <2>1 DEF QualityPass, Record, TypeOK
  <2> QED
    BY <1>1, <1>2, <2>2, QualityArtifactType
<1>5. CASE SomeMerge
  BY <1>1, <1>5, MergeFrame DEF IndexMatchesReview
<1>6. CASE WorkerStep /\ ~Publish
  <2>1. row' = row
    BY <1>6 DEF WorkerStep, ClaimSome, Claim, Fail, Snapshot, Tick
  <2> QED
    BY <1>1, <1>6, <2>1, WorkerFrame, WorkerKeepsText DEF IndexMatchesReview
<1>7. CASE Publish
  <2> SUFFICES ASSUME NEW d \in Drafts, pub'[d].searchable
               PROVE  /\ status'[d] = "quality_passed" /\ pub'[d].state = "published"
                      /\ passed'[d].rev = revision'[d]
                      /\ row'[d].rev = passed'[d].rev /\ row'[d].card = passed'[d].card
    BY DEF IndexMatchesReview
  <2>1. WorkerStep /\ UNCHANGED <<status, revision, passed>>
    BY <1>7 DEF WorkerStep, Publish
  <2>2. row \in [Drafts -> [rev : Nat, card : Contents \cup {NoContent}, intact : BOOLEAN]]
    BY <1>1 DEF TypeOK
  <2>3. CASE Current(job) /\ d = job.draft
    <3>1. row'[d].rev = job.rev /\ row'[d].card = job.card /\ pub'[d].state = "published"
      <4>1. row'[d] = [rev |-> job.rev, card |-> job.card, intact |-> TRUE]
        BY <1>7, <2>2, <2>3 DEF Publish
      <4>2. pub'[d] = [pub[d] EXCEPT !.state = "published", !.searchable = TRUE, !.wait = 0]
        BY <1>1, <1>7, <2>3 DEF Publish, TypeOK
      <4> QED
        BY <1>1, <4>1, <4>2 DEF TypeOK, Artifact
    <3>2. /\ status[d] = "quality_passed" /\ revision[d] = job.rev /\ pub[d].card = job.card
          /\ passed[d] = [rev |-> revision[d], card |-> pub[d].card]
      BY <1>1, <2>3 DEF Current, PassesMatch
    <3> QED
      BY <2>1, <3>1, <3>2
  <2>4. CASE ~(Current(job) /\ d = job.draft)
    <3>1. pub'[d] = pub[d] /\ row'[d] = row[d]
      BY <1>1, <1>7, <2>2, <2>4 DEF Publish, TypeOK
    <3> QED
      BY <1>1, <2>1, <3>1 DEF IndexMatchesReview
  <2> QED
    BY <2>3, <2>4
<1>8. CASE Bystander
  BY <1>1, <1>8, RowsKept, BystanderFrame DEF IndexMatchesReview
<1> QED
  BY <1>3, <1>4, <1>5, <1>6, <1>7, <1>8, StepKinds

LEMMA ViewsStep == IInv /\ [Next]_vars => ViewsKeepUp'
<1> SUFFICES ASSUME IInv, [Next]_vars PROVE ViewsKeepUp'
  OBVIOUS
<1>1. ViewsKeepUp /\ TypeOK /\ IndexMatchesReview
  BY DEF IInv
<1>2. ASSUME NEW a \in Admins, NEW e \in Drafts, NEW s, NEW p, MayDecide(a, e), Record(a, e, s, p)
      PROVE  ViewsKeepUp'
  <2> SUFFICES ASSUME NEW b \in Admins, NEW d \in Drafts, seen'[b].draft = d
               PROVE  /\ seen'[b].rev <= revision'[d]
                      /\ seen'[b].rev = revision'[d] /\ status'[d] = "review_approved"
                           => seen'[b].card = content'[d]
    BY DEF ViewsKeepUp
  <2>1. revision \in [Drafts -> Nat] /\ content' = content
        /\ revision' = [revision EXCEPT ![e] = @ + 1]
        /\ status' = [status EXCEPT ![e] = s] /\ status \in [Drafts -> Statuses]
    BY <1>1, <1>2 DEF Record, TypeOK
  <2>2. CASE b = a
    <3>1. seen'[b] = [draft |-> e, rev |-> revision[e] + 1, card |-> content[e]]
      BY <1>1, <1>2, <2>2 DEF Record, View, TypeOK
    <3> QED
      BY <2>1, <3>1
  <2>3. CASE b # a
    <3>1. seen'[b] = seen[b]
      BY <1>1, <1>2, <2>3 DEF Record, TypeOK
    <3>2. /\ seen[b].rev <= revision[d]
          /\ seen[b].rev = revision[d] /\ status[d] = "review_approved" => seen[b].card = content[d]
      BY <1>1, <3>1 DEF ViewsKeepUp
    <3>3. seen[b].rev \in Nat
      BY <1>1, <3>1, ConstantsAssumption DEF TypeOK, NoView
    <3> QED
      BY <2>1, <3>1, <3>2, <3>3
  <2> QED
    BY <2>2, <2>3
<1>3. CASE SomeDecision
  BY <1>2, <1>3 DEF SomeDecision, Decide
<1>4. CASE SomePass
  BY <1>2, <1>4 DEF SomePass, QualityPass
<1>5. CASE SomeMerge
  BY <1>1, <1>5, MergeFrame DEF ViewsKeepUp
<1>6. CASE WorkerStep
  BY <1>1, <1>6, WorkerFrame DEF ViewsKeepUp
<1>7. ASSUME NEW a \in Admins, NEW e \in Drafts, Load(a, e) PROVE ViewsKeepUp'
  <2>1. UNCHANGED <<status, revision, content>> /\ revision \in [Drafts -> Nat]
    BY <1>1, <1>7 DEF Load, draftVars, TypeOK
  <2>2. \A b \in Admins : seen'[b] = IF b = a THEN View(e) ELSE seen[b]
    BY <1>1, <1>7 DEF Load, TypeOK
  <2> QED
    BY <1>1, <2>1, <2>2 DEF ViewsKeepUp, View
<1>8. ASSUME NEW e \in Drafts, NEW c \in Contents, EditCard(e, c) PROVE ViewsKeepUp'
  <2>1. \A d \in Drafts : content'[d] = content[d] \/ status[d] = "quality_passed"
    BY <1>1, <1>8 DEF EditCard, TypeOK
  <2> QED
    BY <1>1, <1>8, <2>1 DEF ViewsKeepUp, EditCard
<1>9. CASE Bystander
  <2>1. CASE UNCHANGED <<status, revision, content, seen>>
    BY <1>1, <2>1 DEF ViewsKeepUp
  <2> QED
    BY <1>7, <1>8, <1>9, <2>1
       DEF Bystander, Finish, Install, Crash, LoseJob, DamageRow, draftVars, vars
<1> QED
  BY <1>3, <1>4, <1>5, <1>6, <1>9, StepKinds

LEMMA TicketsStep == IInv /\ [Next]_vars => TicketsMatch'
<1> SUFFICES ASSUME IInv, [Next]_vars PROVE TicketsMatch'
  OBVIOUS
<1>1. TicketsMatch /\ TypeOK /\ PassesMatch
  BY DEF IInv
<1>2. ASSUME NEW q \in Queries, ask[q].phase = "running", NEW t \in ask[q].ticket
      PROVE  t.draft \in Drafts /\ t.rev \in Nat
  <2>1. ask[q].ticket \in SUBSET Ticket
    BY <1>1 DEF TypeOK
  <2> QED
    BY <1>2, <2>1, ConstantsAssumption DEF Ticket
<1>3. ASSUME NEW e \in Drafts, revision' = [revision EXCEPT ![e] = @ + 1], ask' = ask,
             \A d \in Drafts \ {e} : passed'[d] = passed[d]
      PROVE  TicketsMatch'
  <2> SUFFICES ASSUME NEW q \in Queries, ask[q].phase = "running", NEW t \in ask[q].ticket
               PROVE  /\ t.rev <= revision'[t.draft]
                      /\ IncidentAsset[t.draft] = ask[q].asset
                      /\ t.rev = revision'[t.draft] => passed'[t.draft] = [rev |-> t.rev, card |-> t.card]
    BY <1>3 DEF TicketsMatch
  <2>1. t.draft \in Drafts /\ t.rev \in Nat /\ revision \in [Drafts -> Nat]
    BY <1>1, <1>2 DEF TypeOK
  <2>2. /\ t.rev <= revision[t.draft]
        /\ IncidentAsset[t.draft] = ask[q].asset
        /\ t.rev = revision[t.draft] => passed[t.draft] = [rev |-> t.rev, card |-> t.card]
    BY <1>1 DEF TicketsMatch
  <2> QED
    BY <1>3, <2>1, <2>2
<1>4. CASE SomeDecision
  BY <1>3, <1>4 DEF SomeDecision, Decide, Record
<1>5. CASE SomePass
  <2>1. PICK a \in Admins, e \in Drafts : QualityPass(a, e)
    BY <1>5 DEF SomePass
  <2>2. \A d \in Drafts \ {e} : passed'[d] = passed[d]
    BY <1>1, <2>1 DEF QualityPass, TypeOK
  <2> QED
    BY <1>3, <2>1, <2>2 DEF QualityPass, Record
<1>6. CASE UNCHANGED <<revision, passed, ask>>
  BY <1>1, <1>6 DEF TicketsMatch
<1>0. ASSUME NEW r \in Queries, NEW v, ask' = [ask EXCEPT ![r] = v]
      PROVE  ask'[r] = v /\ \A q \in Queries : q # r => ask'[q] = ask[q]
  <2>1. ask = [q \in Queries |-> ask[q]]
    BY <1>1 DEF TypeOK
  <2> QED
    BY <1>0, <2>1
<1>7. ASSUME NEW r \in Queries, Snapshot(r) PROVE TicketsMatch'
  <2>1. PICK served \in SUBSET {d \in Drafts : Listed(d) /\ Verified(d)} :
          ask' = [ask EXCEPT ![r] =
                   [phase |-> "running", asset |-> installed, cited |-> {},
                    ticket |-> {[draft |-> d, rev |-> row[d].rev, card |-> row[d].card] : d \in served}]]
    BY <1>7 DEF Snapshot
  <2>2. UNCHANGED <<revision, passed>>
    BY <1>7 DEF Snapshot
  <2>3. ASSUME NEW t \in ask'[r].ticket
        PROVE  /\ t.rev <= revision[t.draft]
               /\ IncidentAsset[t.draft] = ask'[r].asset
               /\ passed[t.draft] = [rev |-> t.rev, card |-> t.card]
    <3>1. /\ ask'[r].ticket = {[draft |-> d, rev |-> row[d].rev, card |-> row[d].card] : d \in served}
          /\ ask'[r].asset = installed
      BY <1>0, <2>1
    <3>2. PICK d \in served : t = [draft |-> d, rev |-> row[d].rev, card |-> row[d].card]
      BY <2>3, <3>1
    <3>3. d \in Drafts /\ Listed(d) /\ revision[d] \in Nat
      BY <1>1, <2>1, <3>2 DEF TypeOK
    <3> QED
      BY <1>1, <3>1, <3>2, <3>3 DEF Listed, PassesMatch
  <2>4. \A q \in Queries : q # r => ask'[q] = ask[q]
    BY <1>0, <2>1
  <2> SUFFICES ASSUME NEW q \in Queries, ask'[q].phase = "running", NEW t \in ask'[q].ticket
               PROVE  /\ t.rev <= revision'[t.draft]
                      /\ IncidentAsset[t.draft] = ask'[q].asset
                      /\ t.rev = revision'[t.draft] => passed'[t.draft] = [rev |-> t.rev, card |-> t.card]
    BY DEF TicketsMatch
  <2>5. CASE q = r
    BY <2>2, <2>3, <2>5
  <2>6. CASE q # r
    <3>1. ask'[q] = ask[q]
      BY <2>4, <2>6
    <3> QED
      BY <1>1, <2>2, <3>1 DEF TicketsMatch
  <2> QED
    BY <2>5, <2>6
<1>8. ASSUME NEW r \in Queries, Finish(r) PROVE TicketsMatch'
  <2>1. PICK c : \/ ask' = [ask EXCEPT ![r] = [Idle EXCEPT !.phase = "answered", !.cited = c]]
                 \/ ask' = [ask EXCEPT ![r] = [Idle EXCEPT !.phase = "refused"]]
    BY <1>8 DEF Finish
  <2>2. \A q \in Queries : q # r => ask'[q] = ask[q]
    BY <1>0, <2>1
  <2>3. ask'[r].phase # "running"
    <3>1. \/ ask'[r] = [Idle EXCEPT !.phase = "answered", !.cited = c]
          \/ ask'[r] = [Idle EXCEPT !.phase = "refused"]
      BY <1>0, <2>1
    <3> QED
      BY <3>1 DEF Idle
  <2>4. UNCHANGED <<revision, passed>>
    BY <1>8 DEF Finish, draftVars
  <2> SUFFICES ASSUME NEW q \in Queries, ask'[q].phase = "running", NEW t \in ask'[q].ticket
               PROVE  /\ t.rev <= revision'[t.draft]
                      /\ IncidentAsset[t.draft] = ask'[q].asset
                      /\ t.rev = revision'[t.draft] => passed'[t.draft] = [rev |-> t.rev, card |-> t.card]
    BY DEF TicketsMatch
  <2>5. ask'[q] = ask[q]
    BY <2>2, <2>3
  <2> QED
    BY <1>1, <2>4, <2>5 DEF TicketsMatch
<1>9. CASE Crash
  <2>1. \A q \in Queries : ask'[q].phase # "running"
    BY <1>9 DEF Crash, Idle
  <2> QED
    BY <2>1 DEF TicketsMatch
<1>10. CASE SomeMerge
  BY <1>6, <1>10, MergeFrame
<1>11. CASE WorkerStep
  <2>1. ask' = ask \/ \E r \in Queries : Snapshot(r)
    BY <1>11 DEF WorkerStep, ClaimSome, Claim, Publish, Fail, Tick
  <2> QED
    BY <1>6, <1>7, <1>11, <2>1, WorkerFrame
<1>12. CASE Bystander
  <2>1. ask' = ask \/ Crash \/ \E r \in Queries : Finish(r)
    BY <1>12 DEF Bystander, Load, EditCard, Install, LoseJob, DamageRow, vars
  <2> QED
    BY <1>6, <1>8, <1>9, <1>12, <2>1, BystanderFrame
<1> QED
  BY <1>4, <1>5, <1>10, <1>11, <1>12, StepKinds

LEMMA StepInv == IInv /\ [Next]_vars => IInv'
  BY TypeStep, PassesStep, AttemptsStep, ViewsStep, TicketsStep, IndexStep DEF IInv

LEMMA Invariant == Spec => []IInv
  BY InitInv, StepInv, PTL DEF Spec

-----------------------------------------------------------------------------
(* The theorems.                                                           *)

\* Every variable keeps its type in every reachable state.
THEOREM TypeCorrect == Spec => []TypeOK
<1>1. IInv => TypeOK
  BY DEF IInv
<1> QED
  BY <1>1, Invariant, PTL

\* The index holds exactly the text and revision of a quality pass in force.
THEOREM IndexCorrect == Spec => []IndexMatchesReview
<1>1. IInv => IndexMatchesReview
  BY DEF IInv
<1> QED
  BY <1>1, Invariant, PTL

\* An answer is stored only if everything it cites is still under the pass it was served for.
THEOREM AnswersCorrect == Spec => AnswersCiteCurrentReview
<1>1. ASSUME IInv, Next, NEW q \in Queries, ask[q].phase = "running", ask'[q].phase = "answered",
             NEW t \in ask'[q].cited
      PROVE  /\ status[t.draft] = "quality_passed"
             /\ passed[t.draft] = [rev |-> t.rev, card |-> t.card] /\ t.rev = revision[t.draft]
             /\ IncidentAsset[t.draft] = installed
  <2>1. ask \in [Queries -> [phase : {"idle", "running", "answered", "refused"},
                            asset : Assets \cup {NoContent},
                            ticket : SUBSET Ticket, cited : SUBSET Ticket]]
    BY <1>1 DEF IInv, TypeOK
  <2>2. ask' # ask
    BY <1>1
  <2>3. PICK r \in Queries : Snapshot(r) \/ Finish(r)
    <3>1. ~Crash
      BY <1>1 DEF Crash, Idle
    <3> QED
      BY <1>1, <2>2, <3>1
         DEF Next, Load, Decide, QualityPass, Record, Merge, EditCard, ClaimSome, Claim, Publish, Fail,
             Install, LoseJob, Tick, DamageRow
  <2>4. q = r
    BY <1>1, <2>1, <2>3 DEF Snapshot, Finish
  <2>5. Finish(q)
    BY <1>1, <2>1, <2>3, <2>4 DEF Snapshot
  <2>6. StillCurrent(q) /\ t \in ask[q].ticket
    <3>1. CASE StillCurrent(q)
      <4>1. PICK c \in SUBSET ask[q].ticket :
              ask' = [ask EXCEPT ![q] = [Idle EXCEPT !.phase = "answered", !.cited = c]]
        BY <2>5, <3>1 DEF Finish
      <4>2. ask'[q] = [Idle EXCEPT !.phase = "answered", !.cited = c]
        BY <2>1, <4>1
      <4> QED
        BY <1>1, <3>1, <4>1, <4>2 DEF Idle
    <3>2. CASE ~StillCurrent(q)
      <4>1. ask'[q] = [Idle EXCEPT !.phase = "refused"]
        BY <2>1, <2>5, <3>2 DEF Finish
      <4> QED
        BY <1>1, <4>1 DEF Idle
    <3> QED
      BY <3>1, <3>2
  <2> QED
    BY <1>1, <2>6 DEF IInv, TicketsMatch, StillCurrent
<1>2. IInv /\ [Next]_vars =>
        [\A q \in Queries : ask[q].phase = "running" /\ ask'[q].phase = "answered" =>
           \A t \in ask'[q].cited :
             /\ status[t.draft] = "quality_passed"
             /\ passed[t.draft] = [rev |-> t.rev, card |-> t.card] /\ t.rev = revision[t.draft]
             /\ IncidentAsset[t.draft] = installed]_vars
  BY <1>1
<1> QED
  BY <1>2, Invariant, PTL DEF Spec, AnswersCiteCurrentReview

\* What a quality pass records as passed is the text of the artifact it queues.
THEOREM TextSeenCorrect == Spec => PassedTextWasSeen
<1>1. ASSUME IInv, Next, NEW d \in Drafts, passed'[d] # passed[d]
      PROVE  pub'[d].card = passed'[d].card
  <2>1. PICK a \in Admins, e \in Drafts : QualityPass(a, e)
    BY <1>1 DEF Next, Load, Decide, Merge, EditCard, ClaimSome, Claim, Publish, Fail, Snapshot,
                Finish, Install, Crash, LoseJob, Tick, DamageRow
  <2>2. passed \in [Drafts -> [rev : Nat, card : Contents \cup {NoContent}]] /\ pub \in [Drafts -> Artifact]
    BY <1>1 DEF IInv, TypeOK
  <2>3. d = e
    BY <1>1, <2>1, <2>2 DEF QualityPass
  <2>4. passed'[d].card = seen[a].card /\ pub'[d] = QualityArtifact(d)
    BY <2>1, <2>2, <2>3 DEF QualityPass, Record
  <2>5. seen[a].card = content[d]
    BY <1>1, <2>1, <2>3 DEF QualityPass, MayDecide, IInv, ViewsKeepUp
  <2> QED
    BY <1>1, <2>4, <2>5, QualityArtifactType DEF IInv
<1>2. IInv /\ [Next]_vars =>
        [\A d \in Drafts : passed'[d] # passed[d] => pub'[d].card = passed'[d].card]_vars
  BY <1>1
<1> QED
  BY <1>2, Invariant, PTL DEF Spec, PassedTextWasSeen

-----------------------------------------------------------------------------
(* Where a decision can be taken on a text that is not the latest.         *)

\* The candidates whose text is replaced without a decision: those a resolution can be merged
\* into, or has been, and those passed, whose card may be edited from outside.
TextMayChange(d) ==
  \/ status[d] \in {"pending_review", "invalid"} /\ d \notin WorkReportDrafts
  \/ status[d] = "quality_passed"

\* Of the others, a screen that is up to date shows the latest text.
ViewsAreLatest ==
  \A a \in Admins, d \in Drafts :
    seen[a].draft = d /\ seen[a].rev = revision[d] /\ ~TextMayChange(d) => seen[a].card = content[d]

LEMMA LatestStep == IInv /\ ViewsAreLatest /\ [Next]_vars => ViewsAreLatest'
<1> SUFFICES ASSUME IInv, ViewsAreLatest, [Next]_vars PROVE ViewsAreLatest'
  OBVIOUS
<1>1. ViewsKeepUp /\ TypeOK /\ IndexMatchesReview
  BY DEF IInv
<1>2. ASSUME NEW a \in Admins, NEW e \in Drafts, NEW s, NEW p, MayDecide(a, e), Record(a, e, s, p)
      PROVE  ViewsAreLatest'
  <2> SUFFICES ASSUME NEW b \in Admins, NEW d \in Drafts, seen'[b].draft = d,
                      seen'[b].rev = revision'[d], ~TextMayChange(d)'
               PROVE  seen'[b].card = content'[d]
    BY DEF ViewsAreLatest
  <2>1. /\ revision \in [Drafts -> Nat] /\ content' = content
        /\ revision' = [revision EXCEPT ![e] = @ + 1]
        /\ status' = [status EXCEPT ![e] = s] /\ status \in [Drafts -> Statuses]
    BY <1>1, <1>2 DEF Record, TypeOK
  <2>2. CASE b = a
    <3>1. seen'[b] = [draft |-> e, rev |-> revision[e] + 1, card |-> content[e]]
      BY <1>1, <1>2, <2>2 DEF Record, View, TypeOK
    <3> QED
      BY <2>1, <3>1
  <2>3. CASE b # a
    <3>1. seen'[b] = seen[b]
      BY <1>1, <1>2, <2>3 DEF Record, TypeOK
    <3>2. seen[b].rev <= revision[d] /\ seen[b].rev \in Nat
      BY <1>1, <3>1, ConstantsAssumption DEF ViewsKeepUp, TypeOK, NoView
    <3>3. d # e
      BY <2>1, <3>1, <3>2
    <3>4. revision'[d] = revision[d] /\ status'[d] = status[d]
      BY <2>1, <3>3
    <3>5. ~TextMayChange(d)
      BY <3>4 DEF TextMayChange
    <3> QED
      BY <2>1, <3>1, <3>4, <3>5 DEF ViewsAreLatest
  <2> QED
    BY <2>2, <2>3
<1>3. CASE SomeDecision
  BY <1>2, <1>3 DEF SomeDecision, Decide
<1>4. CASE SomePass
  BY <1>2, <1>4 DEF SomePass, QualityPass
<1>5. ASSUME NEW e \in Drafts, NEW c \in Contents, NEW v, Merge(e, c, v) PROVE ViewsAreLatest'
  <2>1. /\ UNCHANGED <<revision, seen>>
        /\ \A d \in Drafts : content'[d] = (IF d = e THEN c ELSE content[d])
        /\ \A d \in Drafts : status'[d] = (IF d = e THEN v ELSE status[d])
    BY <1>1, <1>5 DEF Merge, TypeOK
  <2>2. TextMayChange(e)'
    BY <1>5, <2>1 DEF Merge, MergeTarget, TextMayChange
  <2> SUFFICES ASSUME NEW b \in Admins, NEW d \in Drafts, seen[b].draft = d,
                      seen[b].rev = revision[d], ~TextMayChange(d)'
               PROVE  seen[b].card = content'[d]
    BY <2>1 DEF ViewsAreLatest
  <2>3. d # e
    BY <2>2
  <2>4. content'[d] = content[d] /\ ~TextMayChange(d)
    BY <2>1, <2>3 DEF TextMayChange
  <2> QED
    BY <2>4 DEF ViewsAreLatest
<1>6. CASE UNCHANGED <<status, revision, content, seen>>
  BY <1>6 DEF ViewsAreLatest, TextMayChange
<1>7. CASE WorkerStep
  BY <1>6, <1>7, WorkerFrame
<1>8. ASSUME NEW a \in Admins, NEW e \in Drafts, Load(a, e) PROVE ViewsAreLatest'
  <2>1. UNCHANGED <<status, revision, content>>
    BY <1>8 DEF Load, draftVars
  <2>2. \A b \in Admins : seen'[b] = IF b = a THEN View(e) ELSE seen[b]
    BY <1>1, <1>8 DEF Load, TypeOK
  <2> QED
    BY <2>1, <2>2 DEF ViewsAreLatest, TextMayChange, View
<1>9. ASSUME NEW e \in Drafts, NEW c \in Contents, EditCard(e, c) PROVE ViewsAreLatest'
  <2>1. /\ UNCHANGED <<status, revision, seen>>
        /\ \A d \in Drafts : content'[d] = content[d] \/ status[d] = "quality_passed"
    BY <1>1, <1>9 DEF EditCard, TypeOK
  <2> QED
    BY <2>1 DEF ViewsAreLatest, TextMayChange
<1>10. CASE SomeMerge
  BY <1>5, <1>10 DEF SomeMerge
<1>11. CASE Bystander
  BY <1>6, <1>8, <1>9, <1>11
     DEF Bystander, Finish, Install, Crash, LoseJob, DamageRow, draftVars, vars
<1> QED
  BY <1>3, <1>4, <1>7, <1>10, <1>11, StepKinds

\* Finding 1 is the only one of its kind: apart from a card that was edited behind the review's
\* back, a decision on a text that is not the latest is the first one on a candidate that
\* resolutions are merged into, and never one on a work report's candidate.
THEOREM StaleOnlyAfterMerge ==
  Spec => [][\A a \in Admins, d \in Drafts :
               revision'[d] # revision[d] /\ seen'[a] # seen[a] /\ ~TextMayChange(d) =>
                 seen[a].card = content[d]]_vars
<1>1. Init => ViewsAreLatest
  BY ConstantsAssumption DEF Init, ViewsAreLatest, NoView
<1>2. ASSUME IInv, ViewsAreLatest, [Next]_vars, NEW a \in Admins, NEW d \in Drafts,
             revision'[d] # revision[d], seen'[a] # seen[a], ~TextMayChange(d)
      PROVE  seen[a].card = content[d]
  <2>1. PICK b \in Admins, e \in Drafts : MayDecide(b, e) /\ \E s, p : Record(b, e, s, p)
    BY <1>2, StepKinds, WorkerFrame, MergeFrame
       DEF SomeDecision, Decide, SomePass, QualityPass, Bystander, Load, EditCard, Finish, Install,
           Crash, LoseJob, DamageRow, draftVars, vars
  <2>2. seen' = [seen EXCEPT ![b] = [View(e) EXCEPT !.rev = revision[e] + 1]]
        /\ revision' = [revision EXCEPT ![e] = @ + 1]
    BY <2>1 DEF Record
  <2>3. a = b /\ d = e
    BY <1>2, <2>2 DEF IInv, TypeOK
  <2> QED
    BY <1>2, <2>1, <2>3 DEF ViewsAreLatest, MayDecide
<1>3. IInv /\ ViewsAreLatest /\ [Next]_vars =>
        [\A a \in Admins, d \in Drafts :
           revision'[d] # revision[d] /\ seen'[a] # seen[a] /\ ~TextMayChange(d) =>
             seen[a].card = content[d]]_vars
  BY <1>2
<1> QED
  BY <1>1, <1>3, LatestStep, Invariant, PTL DEF Spec

-----------------------------------------------------------------------------
(* Implementation of ReviewedIndex.                                        *)

\* A step that leaves verdicts alone and does not publish can only take rows out of the index.
LEMMA IndexShrinks ==
  ASSUME IInv, UNCHANGED <<status, passed>>,
         \A d \in Drafts : pub'[d].searchable =>
             pub[d].searchable /\ row'[d].rev = row[d].rev /\ row'[d].card = row[d].card
  PROVE  Verdict' = Verdict /\ Promise!Withdraw
<1>1. Verdict' = Verdict
  BY DEF Verdict
<1> DEFINE broken == {d \in Drafts : ~pub'[d].searchable}
<1>2. Index' = [d \in Drafts |-> IF d \in broken THEN NoPass ELSE Index[d]]
  BY DEF Index
<1>3. broken \in SUBSET Drafts
  OBVIOUS
<1> HIDE DEF broken
<1> QED
  BY <1>1, <1>2, <1>3 DEF Promise!Withdraw

\* A decision sets the verdict of its candidate and empties its place in the index.
LEMMA DecisionDecides ==
  ASSUME IInv, NEW e \in Drafts, NEW s, NEW p, p.searchable = FALSE,
         status' = [status EXCEPT ![e] = s], pub' = [pub EXCEPT ![e] = p], row' = row,
         \A d \in Drafts \ {e} : passed'[d] = passed[d],
         s = "quality_passed" => passed'[e] \in [rev : 1..MaxRevision, card : Contents]
  PROVE  Promise!Decide(e)
<1> DEFINE v == IF s = "quality_passed" THEN passed'[e] ELSE NoPass
<1>1. status \in [Drafts -> Statuses] /\ pub \in [Drafts -> Artifact]
  BY DEF IInv, TypeOK
<1>2. Verdict' = [Verdict EXCEPT ![e] = v]
  BY <1>1 DEF Verdict
<1>3. v \in [rev : 1..MaxRevision, card : Contents] \cup {NoPass}
  OBVIOUS
<1>4. Index' = [Index EXCEPT ![e] = NoPass]
  BY <1>1 DEF Index
<1> HIDE DEF v
<1> QED
  BY <1>2, <1>3, <1>4 DEF Promise!Decide

LEMMA PublishPublishes ==
  ASSUME IInv, Publish PROVE Verdict' = Verdict /\ (Index' = Index \/ Promise!Publish(job.draft))
<1>1. /\ pub \in [Drafts -> Artifact] /\ job.draft \in Drafts
      /\ row \in [Drafts -> [rev : Nat, card : Contents \cup {NoContent}, intact : BOOLEAN]]
  BY DEF IInv, TypeOK, Publish
<1>2. Verdict' = Verdict
  BY DEF Verdict, Publish
<1>3. CASE ~Current(job)
  BY <1>2, <1>3 DEF Publish, Index
<1>4. CASE Current(job)
  <2>1. /\ passed[job.draft] = [rev |-> job.rev, card |-> job.card]
        /\ status[job.draft] = "quality_passed"
    BY <1>1, <1>4 DEF Current, IInv, PassesMatch
  <2>2. Verdict[job.draft] = [rev |-> job.rev, card |-> job.card]
    BY <1>1, <2>1 DEF Verdict
  <2>3. [rev |-> job.rev, card |-> job.card] # NoPass
    <3>1. job.rev \in 1..MaxRevision
      BY <1>1, <1>4, <2>1 DEF Current, IInv, PassesMatch
    <3> QED
      BY <3>1, ConstantsAssumption DEF NoPass
  <2>4. ASSUME NEW d \in Drafts
        PROVE  (IF pub'[d].searchable THEN [rev |-> row'[d].rev, card |-> row'[d].card] ELSE NoPass)
                 = IF d = job.draft THEN [rev |-> job.rev, card |-> job.card] ELSE Index[d]
    <3>1. CASE d = job.draft
      <4>1. pub'[d] = [pub[d] EXCEPT !.state = "published", !.searchable = TRUE, !.wait = 0]
        BY <1>1, <1>4, <3>1 DEF Publish
      <4>2. pub'[d].searchable
        BY <1>1, <4>1 DEF Artifact
      <4>3. row'[d] = [rev |-> job.rev, card |-> job.card, intact |-> TRUE]
        BY <1>1, <1>4, <3>1 DEF Publish
      <4> QED
        BY <3>1, <4>2, <4>3
    <3>2. CASE d # job.draft
      <4>1. pub'[d] = pub[d] /\ row'[d] = row[d]
        BY <1>1, <1>4, <3>2 DEF Publish
      <4> QED
        BY <3>2, <4>1 DEF Index
    <3> QED
      BY <3>1, <3>2
  <2>5. Index' = [Index EXCEPT ![job.draft] = Verdict[job.draft]]
    BY <2>2, <2>4 DEF Index
  <2> QED
    BY <1>1, <1>2, <2>2, <2>3, <2>5 DEF Promise!Publish
<1> QED
  BY <1>3, <1>4

LEMMA StepImplements == IInv /\ [Next]_vars => [Promise!Next]_(Promise!vars)
<1> SUFFICES ASSUME IInv, [Next]_vars PROVE [Promise!Next]_(Promise!vars)
  OBVIOUS
<1>1. TypeOK /\ PassesMatch
  BY DEF IInv
<1>2. CASE SomeDecision
  <2>1. PICK a \in Admins, e \in Drafts, s \in {"review_approved", "changes_requested", "rejected"} :
          Decide(a, e, s)
    BY <1>2 DEF SomeDecision
  <2>2. Promise!Decide(e)
    BY <1>1, <2>1, SupersededType, DecisionDecides DEF Decide, Record
  <2> QED
    BY <2>2 DEF Promise!Next
<1>3. CASE SomePass
  <2>1. PICK a \in Admins, e \in Drafts : QualityPass(a, e)
    BY <1>3 DEF SomePass
  <2>2. passed'[e] \in [rev : 1..MaxRevision, card : Contents]
    <3>1. status'[e] = "quality_passed" /\ PassesMatch'
      BY <1>1, <2>1, PassesStep DEF QualityPass, Record, TypeOK
    <3>2. /\ passed'[e] = [rev |-> revision'[e], card |-> pub'[e].card]
          /\ revision'[e] \in 1..MaxRevision /\ pub'[e].card \in Contents
      BY <3>1 DEF PassesMatch
    <3> QED
      BY <3>2
  <2>3. Promise!Decide(e)
    <3>1. \A d \in Drafts \ {e} : passed'[d] = passed[d]
      BY <1>1, <2>1 DEF QualityPass, TypeOK
    <3> QED
      BY <1>1, <2>1, <2>2, <3>1, QualityArtifactType, DecisionDecides DEF QualityPass, Record
  <2> QED
    BY <2>3 DEF Promise!Next
<1>4. CASE SomeMerge
  <2>1. Verdict' = Verdict
    BY <1>4, MergeFrame DEF Verdict
  <2>2. Index' = Index
    BY <1>4, MergeFrame DEF Index
  <2> QED
    BY <2>1, <2>2 DEF Promise!vars
<1>5. CASE WorkerStep /\ ~Publish
  <2>1. row' = row
    BY <1>5 DEF WorkerStep, ClaimSome, Claim, Fail, Snapshot, Tick
  <2>2. Promise!Withdraw
    BY <1>5, <2>1, WorkerFrame, WorkerKeepsText, IndexShrinks
  <2> QED
    BY <2>2 DEF Promise!Next
<1>6. CASE Publish
  <2>1. job.draft \in Drafts
    BY <1>1, <1>6 DEF Publish, TypeOK
  <2> QED
    BY <1>6, <2>1, PublishPublishes DEF Promise!Next, Promise!vars
<1>7. CASE Bystander
  <2>1. Promise!Withdraw
    BY <1>7, RowsKept, BystanderFrame, IndexShrinks
  <2> QED
    BY <2>1 DEF Promise!Next
<1> QED
  BY <1>2, <1>3, <1>4, <1>5, <1>6, <1>7, StepKinds

\* The machinery shows index readers nothing the abstract reviewed index would not show.
THEOREM Implements == Spec => KeepsPromise
<1>1. Init => Promise!Init
  BY DEF Init, Promise!Init, Verdict, Index, NoArtifact
<1> QED
  BY <1>1, StepImplements, Invariant, PTL DEF Spec, KeepsPromise, Promise!Spec

=============================================================================
