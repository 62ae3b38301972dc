---------------------------- MODULE WorkReports ----------------------------
(***************************************************************************)
(* Work reports and the incidents they tell (work_reports.py,              *)
(* MesService._plan_work_report, MesStorage.save_work_report).             *)
(*                                                                         *)
(* A report is a list of records.  A record about a fault opens an         *)
(* incident or continues the newest record of one; its texts decide which  *)
(* card candidates it yields, and a finished handover candidate closes the *)
(* incident.  Queries are asked about an incident or cited by a record,    *)
(* and the configuration may put another asset in a position at any time.  *)
(* A report is planned and stored under the service lock in one            *)
(* transaction, so a refused one leaves nothing; texts are reduced to      *)
(* which of them are filled in.                                            *)
(***************************************************************************)
EXTENDS Integers, Sequences, FiniteSets, SequencesExt

CONSTANTS
  Reports,      \* report numbers in the order they are stored
  Queries,      \* query numbers
  Equipment, Assets,
  Editions,     \* contents a configuration may have besides its assets
  Drafts,       \* what reports say: sequences of records without their links
  MaxRecords,   \* bound: records in a report (the code allows 50)
  MaxCards,     \* field card numbers, K-7000 and on
  None

\* What validate makes sure that a record says.  Its steps are the kinds of
\* step among them: "part" leaves the action or its result blank, "failed" and
\* "worked" are written out; minutes is None or a number, evidence whether
\* there is any, and status whether the maintenance has one.
RecordFields ==
  {"type", "equipment", "capture", "restart", "requested", "auto", "outcome", "status",
   "normal", "minutes", "evidence", "steps", "cause", "notes", "query", "about", "source"}

ASSUME ReportAssumption ==
  /\ Reports \subseteq Nat /\ None \notin Nat \cup Assets \cup (Nat \X Nat)
  /\ MaxRecords \in Nat /\ MaxCards \in Nat
  /\ \A d \in Drafts :
       /\ DOMAIN d = 1..Len(d) /\ Len(d) \in 1..MaxRecords
       /\ \A k \in DOMAIN d : d[k] = [f \in RecordFields |-> d[k][f]]

VARIABLES
  installed,    \* the asset in each position of the active configuration
  edition,      \* what else it says: both make up its config_id
  report,       \* handover_outbox: the records of each stored report, none of the others
  incident,     \* incidents and incident_records, in the order of insertion
  query,        \* query_log, and the queries that are being answered
  citation,     \* incident_queries
  candidate,    \* work_report_candidates
  cards         \* drafts in card_drafts, numbered without gaps

reportVars == <<installed, edition, report, incident, query, citation, candidate, cards>>

Positions == Reports \X (1..MaxRecords)
Incidents == Positions     \* an incident is known by the record that opened it

NoIncident == [assets |-> None, records |-> <<>>]
NoQuery == [equipment |-> None, config |-> None, edition |-> None, about |-> None,
            gap |-> FALSE, logged |-> FALSE]
AssetOf(q) == query[q].config[query[q].equipment]

Stored == {h \in Reports : report[h] # <<>>}
Opened == {i \in Incidents : incident[i] # NoIncident}
RecordAt(p) == report[p[1]][p[2]]
Latest(i) == Last(incident[i].records)

-----------------------------------------------------------------------------
(* What a record says.                                                     *)

IsFault(r) == r.type = "fault"
Observed(r) == {kind \in {"T1", "T2", "T5"} : r.notes[kind] # "none"}

has_incident(r) ==
  \/ IsFault(r)
  \/ r.type = "maintenance" /\ r.capture /\ (r.restart \/ r.requested)
  \/ r.auto /\ (Observed(r) # {} \/ (r.capture /\ r.steps # {}))

\* Steps that are all written out, one of which did not fail.
StepsWorked(r) == "worked" \in r.steps /\ "part" \notin r.steps

\* A measured condition rests on its own method, or on those steps of the
\* record that worked, whatever the others lack.
condition_action_evidence(r) == r.notes["T2"] = "proven" \/ (r.capture /\ "worked" \in r.steps)

observation_missing(r, kind) ==
  \/ r.notes[kind] = "part"
  \/ kind = "T2" /\ ~condition_action_evidence(r)
  \/ Cardinality(r.equipment) # 1

handover_resolved(r) ==
  /\ r.outcome = "resolved" /\ r.normal = "no_recurrence"
  /\ r.minutes \notin {None, 0} /\ r.evidence

capture_missing(r) ==
  \/ ~StepsWorked(r)
  \/ ~r.cause
  \/ ~handover_resolved(r)
  \/ Cardinality(r.equipment) # 1

routine_maintenance(r) ==
  /\ r.type = "maintenance" /\ r.status /\ r.outcome = "open"
  /\ ~r.restart /\ ~r.requested
  /\ r.normal = "unconfirmed" /\ r.minutes = None /\ ~r.evidence

\* The records a follow-up leads back to, found link by link.
handover_chain(r) ==
  LET back[n \in 1..Len(incident[r.about].records)] ==
        IF n = 1 THEN <<r.source>>
        ELSE LET before == RecordAt(Head(back[n - 1])).source
             IN IF before = None THEN back[n - 1] ELSE <<before>> \o back[n - 1]
  IN back[Len(incident[r.about].records)]

Chain(r) ==
  LET positions == handover_chain(r)
  IN Append([k \in 1..Len(positions) |-> RecordAt(positions[k])], r)

\* The steps and causes of the whole chain with the outcome of its end.
handover_capture(chain) ==
  LET told == Range(chain)
  IN [Last(chain) EXCEPT !.cause = \E r \in told : r.cause,
                         !.steps = UNION {r.steps : r \in told}]

handover_missing(chain) ==
  \/ capture_missing(handover_capture(chain))
  \/ Len(chain) < 2
  \/ Head(chain).outcome = "resolved"

-----------------------------------------------------------------------------
(* Whether a report is accepted.                                           *)

\* A record continues an incident only from an earlier record of it.
ValidRecord(r) ==
  /\ r.about # None => IsFault(r)
  /\ (r.about = None) = (r.source = None)

Closed(p) == handover_resolved(RecordAt(p)) /\ \E c \in candidate : c.at = p /\ c.kind = "T4" /\ c.drafted

\* Mutants: any record of the incident may be continued; a closed one, too.
FollowsAny(r) ==
  r.source # None => /\ r.about \in Opened
                     /\ r.source \in Range(incident[r.about].records)
                     /\ ~Closed(r.source)
FollowsClosed(r) == r.source # None => r.about \in Opened /\ r.source = Latest(r.about)
FollowsLatest(r) ==
  r.source # None =>
    /\ r.about \in Opened
    /\ r.source = Latest(r.about)
    /\ ~Closed(r.source)

\* Mutant: the asset the query was asked about is not compared.
CitesAnyAsset(r) ==
  r.query # None =>
    /\ r.query \in Queries /\ query[r.query].logged
    /\ query[r.query].equipment \in r.equipment
    /\ query[r.query].about # None => query[r.query].about = r.about
CitesFittingQuery(r) ==
  r.query # None =>
    /\ r.query \in Queries /\ query[r.query].logged
    /\ query[r.query].equipment \in r.equipment
    /\ AssetOf(r.query) = installed[query[r.query].equipment]
    /\ query[r.query].about # None => query[r.query].about = r.about

AssetsOf(r) == [e \in r.equipment |-> installed[e]]

SameAssets(r) == r.about # None => incident[r.about].assets = AssetsOf(r)

OneRecordEach(body) ==
  \A j, k \in DOMAIN body :
    body[j].about # None /\ body[j].about = body[k].about => j = k

Accepted(body) ==
  /\ \A k \in DOMAIN body :
       /\ ValidRecord(body[k])
       /\ has_incident(body[k]) =>
            FollowsLatest(body[k]) /\ CitesFittingQuery(body[k]) /\ SameAssets(body[k])
  /\ OneRecordEach(body)

-----------------------------------------------------------------------------
(* The candidates of a record: the kinds it asks for, each with whether    *)
(* its draft can be written.                                               *)

Decision(kind, drafted) == [kind |-> kind, drafted |-> drafted]

ObservationDecisions(r) ==
  {Decision(kind, ~observation_missing(r, kind)) : kind \in Observed(r)}

\* No card applied to the query, and it was asked under the same config_id.
KnowledgeGap(r) ==
  /\ r.query # None /\ query[r.query].gap
  /\ query[r.query].config = installed /\ query[r.query].edition = edition

Decisions(r) ==
  IF ~(r.requested \/ r.auto) THEN {Decision("legacy", FALSE)}
  ELSE ObservationDecisions(r) \cup
    IF r.source # None THEN {Decision("T4", ~handover_missing(Chain(r)))}
    ELSE IF r.capture
      THEN IF routine_maintenance(r) THEN {}
           ELSE {Decision(IF r.restart THEN "T6" ELSE "T3", ~capture_missing(r))}
    ELSE IF r.query # None \/ Observed(r) = {} THEN {Decision("T3", KnowledgeGap(r))}
    ELSE {}

Planned(h, body) ==
  UNION {{[at |-> <<h, k>>, kind |-> d.kind, drafted |-> d.drafted, query |-> body[k].query] :
            d \in Decisions(body[k])} : k \in {k \in DOMAIN body : has_incident(body[k])}}

Drafted(rows) == {c \in rows : c.drafted}

-----------------------------------------------------------------------------
ReportInit ==
  /\ installed \in [Equipment -> Assets]
  /\ \A e, f \in Equipment : installed[e] = installed[f] => e = f
  /\ edition \in Editions
  /\ report = [h \in Reports |-> <<>>]
  /\ incident = [i \in Incidents |-> NoIncident]
  /\ query = [q \in Queries |-> NoQuery]
  /\ citation = {} /\ candidate = {} /\ cards = 0

\* apply_config replaces the asset of a position.
ReplaceAsset(e, a) ==
  /\ a \notin Range(installed)
  /\ installed' = [installed EXCEPT ![e] = a] /\ edition' \in Editions
  /\ UNCHANGED <<report, incident, query, citation, candidate, cards>>

\* apply_config changes something else, such as a name or a signal.
EditConfig ==
  /\ edition' \in Editions \ {edition}
  /\ UNCHANGED <<installed, report, incident, query, citation, candidate, cards>>

\* The locked first part of a query, perhaps asked about an incident.
AskQuery(q, e, i) ==
  /\ query[q] = NoQuery
  /\ i # None => /\ i \in Opened /\ e \in DOMAIN incident[i].assets
                 /\ incident[i].assets[e] = installed[e]
  /\ query' = [query EXCEPT ![q] =
       [equipment |-> e, config |-> installed, edition |-> edition, about |-> i,
        gap |-> FALSE, logged |-> FALSE]]
  /\ UNCHANGED <<installed, edition, report, incident, citation, candidate, cards>>

\* The answer is logged with its incident; gap says no card applied.
LogQuery(q, gap) ==
  /\ query[q] # NoQuery /\ ~query[q].logged
  /\ query' = [query EXCEPT ![q].logged = TRUE, ![q].gap = gap]
  /\ citation' = IF query[q].about = None THEN citation
                 ELSE citation \cup {<<query[q].about, q>>}
  /\ UNCHANGED <<installed, edition, report, incident, candidate, cards>>

\* A new report: incidents, citations, candidates and drafts in one step.
SaveReport(h, body) ==
  /\ report[h] = <<>>
  /\ Accepted(body)
  /\ LET rows == Planned(h, body)
         telling == {k \in DOMAIN body : has_incident(body[k])}
         home(k) == IF body[k].about = None THEN <<h, k>> ELSE body[k].about
     IN /\ cards + Cardinality(Drafted(rows)) <= MaxCards
        /\ report' = [report EXCEPT ![h] = body]
        /\ incident' = [i \in Incidents |->
             IF \E k \in telling : home(k) = i
             THEN LET k == CHOOSE k \in telling : home(k) = i
                  IN [assets |-> AssetsOf(body[k]),
                      records |-> Append(incident[i].records, <<h, k>>)]
             ELSE incident[i]]
        /\ citation' = citation \cup
             {<<home(k), body[k].query>> : k \in {k \in telling :
                body[k].query # None /\ Decisions(body[k]) # {}}}
        /\ candidate' = candidate \cup rows
        /\ cards' = cards + Cardinality(Drafted(rows))
  /\ UNCHANGED <<installed, edition, query>>

\* A resolution record of the PDA takes the next number as well.
DraftResolution ==
  /\ cards < MaxCards
  /\ cards' = cards + 1
  /\ UNCHANGED <<installed, edition, report, incident, query, citation, candidate>>

\* What the PDA may send: records that continue any record it was shown.
Links == {<<None, None>>} \cup
         UNION {{i} \X Range(incident[i].records) : i \in Opened}

Bodies ==
  UNION {{[k \in DOMAIN d |-> [d[k] EXCEPT !.about = l[k][1], !.source = l[k][2]]] :
            l \in [DOMAIN d -> Links]} : d \in Drafts}

ReportNext ==
  \/ \E e \in Equipment, a \in Assets : ReplaceAsset(e, a)
  \/ EditConfig
  \/ \E q \in Queries, e \in Equipment, i \in Opened \cup {None} : AskQuery(q, e, i)
  \/ \E q \in Queries, gap \in BOOLEAN : LogQuery(q, gap)
  \/ \E h \in Reports : h = Cardinality(Stored) + 1 /\ \E body \in Bodies : SaveReport(h, body)
  \/ DraftResolution

ReportSpec == ReportInit /\ [][ReportNext]_reportVars

-----------------------------------------------------------------------------
(* Properties.                                                             *)

\* Every record of an incident after its first continues the one before it:
\* the history never forks, whoever else reports meanwhile, and an incident
\* starts with the record that opened it.
IncidentsAreChains ==
  \A i \in Opened :
    LET told == incident[i].records
    IN /\ told[1] = i /\ RecordAt(i).source = None
       /\ \A k \in 2..Len(told) : RecordAt(told[k]).source = told[k - 1]

\* A handover candidate with a draft closes its incident: it belongs to the
\* newest record, which was confirmed resolved, of a history that began
\* unresolved, so no incident yields two of them.
HandoverCandidateCloses ==
  \A i \in Opened : \A c \in candidate :
    (c.kind = "T4" /\ c.drafted /\ c.at \in Range(incident[i].records)) =>
      /\ c.at = Latest(i)
      /\ handover_resolved(RecordAt(c.at))
      /\ RecordAt(i).outcome # "resolved"

\* A query counted to an incident was asked about the very asset that broke
\* down, and one asked about an incident is never counted to another.
CitationsKeepTheAsset ==
  \A ct \in citation :
    LET q == query[ct[2]]
    IN /\ ct[1] \in Opened /\ q.logged
       /\ q.equipment \in DOMAIN incident[ct[1]].assets
       /\ incident[ct[1]].assets[q.equipment] = AssetOf(ct[2])
       /\ q.about # None => q.about = ct[1]
=============================================================================
