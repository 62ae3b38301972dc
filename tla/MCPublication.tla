--------------------------- MODULE MCPublication ---------------------------
(* Small instances of Publication.  The safety runs start from undecided   *)
(* candidates; the liveness runs start where every candidate has just      *)
(* passed its quality review (two decisions) and waits for the worker.     *)
EXTENDS Publication, TLC

CONSTANTS a1, a2, q1, c1, c2, x, y, u1, u2, u3, u4

MCIncidentAsset == [d \in WorkReportDrafts |-> x]
AttemptSymmetry == Permutations(AttemptIds)

\* Reached from Init by approve and quality_pass on every candidate.
AllPassed ==
  /\ status = [d \in Drafts |-> "quality_passed"]
  /\ revision = [d \in Drafts |-> 2]
  /\ content \in [Drafts -> ValidContents]
  /\ pub = [d \in Drafts |-> [NoArtifact EXCEPT !.state = "embedding_pending",
                                               !.card = content[d], !.rev = 2]]
  /\ row = [d \in Drafts |-> NoRow]
  /\ job = NoJob
  /\ installed \in Assets
  /\ ask = [q \in Queries |-> Idle]
  /\ seen = [a \in Admins |-> NoView]
  /\ passed = [d \in Drafts |-> [rev |-> 2, card |-> content[d]]]
  /\ faults = 0

PassedSpec == AllPassed /\ [][TimelyNext]_vars /\ Fairness

=============================================================================
