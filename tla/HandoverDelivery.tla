-------------------------- MODULE HandoverDelivery --------------------------
(***************************************************************************)
(* A note's way from the PDA to the cloud: requests that are lost, delayed *)
(* or sent again (server.py record_handover), the transaction that stores  *)
(* the note with the session and the draft it belongs to (storage.py), and *)
(* uploader processes that copy what is pending to the cloud (uploader.py).*)
(*                                                                         *)
(* The server handles a request under its lock and commits before it       *)
(* replies; an uploader is another process, so each of its statements      *)
(* against the cloud and the local database is an action of its own.       *)
(***************************************************************************)
EXTENDS Integers, FiniteSets

CONSTANTS
  HandoverIds, QueryIds,     \* keys of handover_outbox and of query_log
  Plain,                     \* bodies of shift notes and work reports
  Direct,                    \* bodies with a resolution that names no session
  InSession,                 \* bodies with a resolution recorded in a session
  SessionOf,                 \* that session
  Held,                      \* bodies kept local until resolutions may be uploaded
  QueryLog,                  \* the record of an answered query
  Sessions, Uploaders,
  Requests,                  \* the (id, body) pairs somebody submits
  None, Foreign,             \* nothing; a cloud row another machine wrote
  MaxSends,                  \* bound: requests sent
  MaxForeign                 \* bound: cloud rows written by others

Ids == HandoverIds \cup QueryIds
Bodies == Plain \cup Direct \cup InSession \cup {QueryLog}

\* Bodies with a "resolution" are held whatever else they carry.
ASSUME DeliveryAssumption ==
  /\ HandoverIds \cap QueryIds = {} /\ IsFiniteSet(Ids)
  /\ Plain \cap (Direct \cup InSession) = {} /\ Direct \cap InSession = {}
  /\ QueryLog \notin Plain \cup Direct \cup InSession
  /\ Direct \cup InSession \subseteq Held /\ Held \subseteq Bodies \ {QueryLog}
  /\ SessionOf \in [InSession -> Sessions]
  /\ Requests \subseteq HandoverIds \X (Bodies \ {QueryLog})
  /\ None \notin Bodies \cup Ids \cup {Foreign} /\ Foreign \notin Bodies
  /\ MaxSends \in Nat /\ MaxForeign \in Nat

VARIABLES
  wire,      \* requests on their way to the server
  sent,      \* requests sent so far
  told,      \* submissions the PDA got "saved" for
  local,     \* rows of handover_outbox and query_log
  session,   \* the handover that closed each session, or None while it is open
  effects,   \* how often each handover was worked into a card draft
  worker,    \* the uploader processes
  cloud,     \* handover_upload and query_upload
  foreign

vars == <<wire, sent, told, local, session, effects, worker, cloud, foreign>>
pdaVars == <<wire, sent, told>>
serverVars == <<local, session, effects>>
cloudVars == <<cloud, foreign>>

NoRow == [body |-> None, status |-> "none", since |-> 0]
Idle == [phase |-> "idle", batch |-> {}, status |-> "none"]

Init ==
  /\ wire = {} /\ sent = 0 /\ told = {}
  /\ local = [i \in Ids |-> NoRow]
  /\ session = [s \in Sessions |-> None]
  /\ effects = [i \in HandoverIds |-> 0]
  /\ worker = [u \in Uploaders |-> Idle]
  /\ cloud = [i \in Ids |-> None] /\ foreign = 0

-----------------------------------------------------------------------------
(* The PDA keeps a submission and sends it again until it is told.         *)

Send(r) ==
  /\ sent < MaxSends
  /\ r \in Requests \ told
  /\ wire' = wire \cup {r} /\ sent' = sent + 1
  /\ UNCHANGED <<told, serverVars, worker, cloudVars>>

LoseRequest(r) ==
  /\ r \in wire
  /\ wire' = wire \ {r}
  /\ UNCHANGED <<sent, told, serverVars, worker, cloudVars>>

-----------------------------------------------------------------------------
(* The server.                                                             *)

\* created_at, as the order of the rows.
Now == Cardinality({i \in Ids : local[i] # NoRow})
Stored(b) == [body |-> b, status |-> "pending", since |-> Now + 1]

\* The PDA hears of it, or the reply is lost.
Reply(r) == wire' = wire \ {r} /\ told' \in {told, told \cup {r}} /\ UNCHANGED sent

\* Mutant: a resubmission replaces the row.
InsertOrReplace(i, b) == local' = [local EXCEPT ![i] = Stored(b)]
\* _insert_handover: the first body stored under an id stays.
Insert(i, b) == local' = IF local[i] = NoRow THEN [local EXCEPT ![i] = Stored(b)] ELSE local

\* Mutant: INSERT OR REPLACE.
AcceptsAnyBody(i, b) == TRUE
\* Another body under the same id is a conflict (409); nothing is written.
Accepts(i, b) == local[i] = NoRow \/ local[i].body = b

\* The resolution becomes a new draft, is merged into one, or is only a failed attempt.
Applies(i) == effects' \in {effects, [effects EXCEPT ![i] = @ + 1]}

SaveNote(i, b) ==
  /\ <<i, b>> \in wire /\ b \in Plain
  /\ Accepts(i, b)
  /\ Insert(i, b)
  /\ Reply(<<i, b>>)
  /\ UNCHANGED <<session, effects, worker, cloudVars>>

\* Mutant: a resubmitted resolution is worked into a draft again.
NotYetAppliedIgnored(i) == TRUE
\* has_draft_record
NotYetApplied(i) == effects[i] = 0

\* A retry of an attempt that left no draft record is planned again.
SaveDirect(i, b) ==
  /\ <<i, b>> \in wire /\ b \in Direct
  /\ Accepts(i, b)
  /\ Insert(i, b)
  /\ IF NotYetApplied(i) THEN Applies(i) ELSE effects' = effects
  /\ Reply(<<i, b>>)
  /\ UNCHANGED <<session, worker, cloudVars>>

\* Mutant: a session that another handover closed can be saved once more.
MayCloseAnySession(i, b) == TRUE
\* _open_session, checked again by the transaction's UPDATE ... AND status = 'open'.
MayClose(i, b) == session[SessionOf[b]] = None

\* Session, handover and draft are stored together, or not at all.
SaveInSession(i, b) ==
  /\ <<i, b>> \in wire /\ b \in InSession
  /\ local[i] = NoRow /\ MayClose(i, b)
  /\ Insert(i, b)
  /\ session' = [session EXCEPT ![SessionOf[b]] = i]
  /\ Applies(i)
  /\ Reply(<<i, b>>)
  /\ UNCHANGED <<worker, cloudVars>>

RepeatInSession(i, b) ==
  /\ <<i, b>> \in wire /\ b \in InSession
  /\ local[i].body = b
  /\ Reply(<<i, b>>)
  /\ UNCHANGED <<serverVars, worker, cloudVars>>

\* 409: other content under the id, or a session already saved.
Reject(i, b) ==
  /\ <<i, b>> \in wire
  /\ \/ ~Accepts(i, b)
     \/ b \in InSession /\ local[i] = NoRow /\ ~MayClose(i, b)
  /\ wire' = wire \ {<<i, b>>}
  /\ UNCHANGED <<sent, told, serverVars, worker, cloudVars>>

\* Every answered query is logged under a fresh id.
SaveQuery(q) ==
  /\ local[q] = NoRow
  /\ local' = [local EXCEPT ![q] = Stored(QueryLog)]
  /\ UNCHANGED <<pdaVars, session, effects, worker, cloudVars>>

-----------------------------------------------------------------------------
(* One cycle of an uploader: read what is pending, connect, then row by    *)
(* row insert, compare when the row is already there, and mark.            *)

Pending == {i \in Ids : local[i].status = "pending"}

\* HOLD_RESOLUTION_UPLOAD: resolutions, and reports made from a session, stay in the plant.
Uploadable == {i \in Pending : local[i].body \notin Held}

\* Handovers before queries, oldest first.
Before(i, j) ==
  \/ i \in HandoverIds /\ j \in QueryIds
  \/ (i \in HandoverIds <=> j \in HandoverIds) /\ local[i].since < local[j].since

ReadBatch(u) ==
  /\ worker[u] = Idle
  /\ Uploadable # {}
  /\ worker' = [worker EXCEPT ![u] = [phase |-> "insert", batch |-> Uploadable, status |-> "none"]]
  /\ UNCHANGED <<pdaVars, serverVars, cloudVars>>

AtRow(u, phase, i) ==
  /\ worker[u].phase = phase
  /\ i \in worker[u].batch /\ \A j \in worker[u].batch : j # i => Before(i, j)

MarkNext(u, status) == [worker EXCEPT ![u] = [@ EXCEPT !.phase = "mark", !.status = status]]

\* INSERT IGNORE
InsertRow(u, i) ==
  /\ AtRow(u, "insert", i)
  /\ IF cloud[i] = None
     THEN /\ cloud' = [cloud EXCEPT ![i] = local[i].body]
          /\ worker' = MarkNext(u, "uploaded")
     ELSE /\ worker' = [worker EXCEPT ![u].phase = "compare"]
          /\ UNCHANGED cloud
  /\ UNCHANGED <<pdaVars, serverVars, foreign>>

\* Mutant: a row that is already there is left for the next cycle.
AlreadyThereLeft(i) == "pending"
\* Mutant: a row that is already there is a conflict, whatever it holds.
AlreadyThereConflicts(i) == "conflict"
AlreadyThere(i) == IF cloud[i] = local[i].body THEN "uploaded" ELSE "conflict"

CompareRow(u, i) ==
  /\ AtRow(u, "compare", i)
  /\ worker' = MarkNext(u, AlreadyThere(i))
  /\ UNCHANGED <<pdaVars, serverVars, cloudVars>>

MarkRow(u, i) ==
  /\ AtRow(u, "mark", i)
  /\ local' = [local EXCEPT ![i].status = worker[u].status]
  /\ worker' = [worker EXCEPT ![u] =
       IF worker[u].batch = {i} THEN Idle
       ELSE [phase |-> "insert", batch |-> worker[u].batch \ {i}, status |-> "none"]]
  /\ UNCHANGED <<pdaVars, session, effects, cloudVars>>

\* No connection, a lost answer, a locked database or a dead process ends the cycle anywhere;
\* what the cloud has committed by then stays.
Abandon(u) ==
  /\ worker[u] # Idle
  /\ worker' = [worker EXCEPT ![u] = Idle]
  /\ UNCHANGED <<pdaVars, serverVars, cloudVars>>

\* Another installation writes the same id.
Intrude(i) ==
  /\ foreign < MaxForeign
  /\ cloud[i] = None
  /\ cloud' = [cloud EXCEPT ![i] = Foreign]
  /\ foreign' = foreign + 1
  /\ UNCHANGED <<pdaVars, serverVars, worker>>

-----------------------------------------------------------------------------
InsertSome(u) == \E i \in Ids : InsertRow(u, i)
CompareSome(u) == \E i \in Ids : CompareRow(u, i)
MarkSome(u) == \E i \in Ids : MarkRow(u, i)

Next ==
  \/ \E r \in Requests : Send(r) \/ LoseRequest(r)
  \/ \E i \in HandoverIds, b \in Bodies :
       \/ SaveNote(i, b) \/ SaveDirect(i, b) \/ SaveInSession(i, b)
       \/ RepeatInSession(i, b) \/ Reject(i, b)
  \/ \E q \in QueryIds : SaveQuery(q)
  \/ \E u \in Uploaders : ReadBatch(u) \/ InsertSome(u) \/ CompareSome(u) \/ MarkSome(u) \/ Abandon(u)
  \/ \E i \in Ids : Intrude(i)

Spec == Init /\ [][Next]_vars

\* The uploader runs every 30 s, and a connection that is tried again and again carries
\* each single statement through at last.
Fairness ==
  \A u \in Uploaders :
    /\ WF_vars(ReadBatch(u))
    /\ SF_vars(InsertSome(u)) /\ SF_vars(CompareSome(u)) /\ SF_vars(MarkSome(u))

FairSpec == Spec /\ Fairness

-----------------------------------------------------------------------------
(* Properties.                                                             *)

Rows == [body : Bodies, status : {"pending", "uploaded", "conflict"}, since : 1..Cardinality(Ids)]

\* Requests, rows, sessions, uploaders and the cloud stay within their types.
TypeOK ==
  /\ wire \subseteq Requests /\ told \subseteq Requests /\ sent \in 0..MaxSends
  /\ local \in [Ids -> Rows \cup {NoRow}]
  /\ session \in [Sessions -> HandoverIds \cup {None}]
  /\ effects \in [HandoverIds -> Nat]
  /\ worker \in [Uploaders -> [phase : {"idle", "insert", "compare", "mark"}, batch : SUBSET Ids,
                               status : {"none", "uploaded", "conflict"}]]
  /\ cloud \in [Ids -> Bodies \cup {None, Foreign}]
  /\ foreign \in 0..MaxForeign

\* A row is marked "uploaded" only while the cloud holds exactly its body, and "conflict" only
\* when the cloud holds something else: neither a lost acknowledgement nor a second uploader
\* working on the same batch makes the local status lie.
StatusTellsTheCloud ==
  \A i \in Ids :
    /\ local[i].status = "uploaded" => cloud[i] = local[i].body
    /\ local[i].status = "conflict" => cloud[i] \notin {None, local[i].body}

\* However often a resolution is submitted, it is worked into the card drafts at most once.
AppliedAtMostOnce == \A i \in HandoverIds : effects[i] <= 1

\* A session is closed by exactly the handover stored with it: of several handovers for one
\* session one wins, and a crash leaves neither a closed session without its note nor the reverse.
SessionClosedByItsHandover ==
  \A s \in Sessions, i \in HandoverIds :
    session[s] = i <=> local[i].body \in InSession /\ SessionOf[local[i].body] = s

\* Everything that may be uploaded is marked in the end, although any statement may fail any
\* number of times and another uploader may have done the work.
PendingIsDelivered ==
  \A i \in Ids : local[i].status = "pending" /\ local[i].body \notin Held ~> local[i].status # "pending"

\* The promise of NoteDelivery: first body stays, "saved" is true, the cloud gets that body only
\* if it may leave the plant, and no cloud row is ever overwritten.
Promise == INSTANCE NoteDelivery WITH
  note <- [i \in Ids |-> local[i].body], copy <- cloud, Private <- Held, Nothing <- None
\* The delivery implements it.
KeepsPromise == Promise!Spec

=============================================================================
