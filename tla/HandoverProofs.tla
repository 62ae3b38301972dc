--------------------------- MODULE HandoverProofs ---------------------------
(* Proofs about HandoverDelivery for every finite set of ids, every set of *)
(* bodies, sessions and uploaders, any number of requests and of rows that *)
(* other installations write.                                              *)
EXTENDS HandoverDelivery, FiniteSetTheorems, TLAPS

\* What an uploader holds are stored rows that may leave the plant; before it marks one, the
\* cloud has been written or looked at, and what it is about to write into status is true.
Truthful(u) ==
  /\ worker[u].phase = "mark" => worker[u].status \in {"uploaded", "conflict"}
  /\ \A i \in worker[u].batch : local[i].body \notin Held \cup {None}
  /\ \A i \in Ids :
       /\ AtRow(u, "compare", i) => cloud[i] # None
       /\ AtRow(u, "mark", i) =>
            /\ worker[u].status = "uploaded" => cloud[i] = local[i].body
            /\ worker[u].status = "conflict" => cloud[i] \notin {None, local[i].body}

WorkersAreTruthful == \A u \in Uploaders : Truthful(u)

\* Only a stored note has been worked into a draft.
EffectsHaveNotes == \A i \in HandoverIds : local[i] = NoRow => effects[i] = 0

IInv == /\ TypeOK /\ WorkersAreTruthful /\ EffectsHaveNotes
        /\ StatusTellsTheCloud /\ AppliedAtMostOnce /\ SessionClosedByItsHandover

Works == [phase : {"idle", "insert", "compare", "mark"}, batch : SUBSET Ids,
          status : {"none", "uploaded", "conflict"}]

-----------------------------------------------------------------------------
LEMMA InitInv == Init => IInv
<1> SUFFICES ASSUME Init PROVE IInv
  OBVIOUS
<1> USE DeliveryAssumption
<1>1. TypeOK
  BY DEF Init, TypeOK, Rows, NoRow, Idle
<1>2. WorkersAreTruthful
  BY DEF Init, WorkersAreTruthful, Truthful, AtRow, Idle
<1>3. EffectsHaveNotes /\ StatusTellsTheCloud /\ AppliedAtMostOnce
  BY DEF Init, EffectsHaveNotes, StatusTellsTheCloud, AppliedAtMostOnce, NoRow, Ids
<1>4. SessionClosedByItsHandover
  BY DEF Init, SessionClosedByItsHandover, NoRow, Ids, Bodies
<1> QED
  BY <1>1, <1>2, <1>3, <1>4 DEF IInv

-----------------------------------------------------------------------------
(* Rows.                                                                   *)

\* A row is either absent or complete.
LEMMA RowCases ==
  ASSUME TypeOK, NEW i \in Ids
  PROVE  /\ local[i] = NoRow \/ local[i] \in Rows
         /\ local[i] = NoRow <=> local[i].body = None
         /\ local[i].since \in Nat
<1>1. local[i] \in Rows \cup {NoRow}
  BY DEF TypeOK
<1>2. Cardinality(Ids) \in Nat
  BY DeliveryAssumption, FS_CardinalityType
<1> QED
  BY <1>1, <1>2, DeliveryAssumption DEF Rows, NoRow

\* While a row is missing there is room for the next place in the order.
LEMMA NowType ==
  ASSUME TypeOK, NEW i \in Ids, local[i] = NoRow
  PROVE  Now + 1 \in 1..Cardinality(Ids)
<1> DEFINE Taken == {j \in Ids : local[j] # NoRow}
<1>1. IsFiniteSet(Ids) /\ Taken \in SUBSET Ids /\ Taken # Ids
  BY DeliveryAssumption
<1>2. /\ IsFiniteSet(Taken) /\ Cardinality(Taken) <= Cardinality(Ids)
      /\ Cardinality(Ids) # Cardinality(Taken)
  BY <1>1, FS_Subset
<1>3. Cardinality(Ids) \in Nat /\ Cardinality(Taken) \in Nat
  BY <1>1, <1>2, FS_CardinalityType
<1>4. Now = Cardinality(Taken)
  BY DEF Now
<1> HIDE DEF Taken
<1> QED
  BY <1>2, <1>3, <1>4

LEMMA StoredType ==
  ASSUME TypeOK, NEW i \in Ids, NEW b \in Bodies, local[i] = NoRow
  PROVE  Stored(b) \in Rows /\ Stored(b).body = b /\ Stored(b).status = "pending"
  BY NowType DEF Stored, Rows

\* The order of the rows is strict.
LEMMA OneFirst ==
  ASSUME TypeOK, NEW i \in Ids, NEW j \in Ids
  PROVE  ~(Before(i, j) /\ Before(j, i))
<1>1. local[i].since \in Nat /\ local[j].since \in Nat
  BY RowCases
<1>2. HandoverIds \cap QueryIds = {}
  BY DeliveryAssumption
<1> QED
  BY <1>1, <1>2 DEF Before

\* So a cycle stands at one row at a time.
LEMMA OneRow ==
  ASSUME TypeOK, NEW u \in Uploaders, NEW i \in Ids, NEW j \in Ids,
         i \in worker[u].batch, j \in worker[u].batch,
         \A k \in worker[u].batch : k # i => Before(i, k),
         \A k \in worker[u].batch : k # j => Before(j, k)
  PROVE  i = j
  BY OneFirst

\* An uploader that does nothing stays truthful whatever the server and others do: the rows it
\* holds keep text and place, and the cloud keeps what it has.
LEMMA TruthfulKept ==
  ASSUME TypeOK, NEW u \in Uploaders, Truthful(u), worker'[u] = worker[u],
         \A j \in Ids : local[j].body # None =>
           local'[j].body = local[j].body /\ local'[j].since = local[j].since,
         \A k \in Ids : cloud[k] # None => cloud'[k] = cloud[k]
  PROVE  Truthful(u)'
<1>1. worker[u].batch \subseteq Ids
  BY DEF TypeOK
<1>2. \A j \in worker[u].batch : /\ local[j].body \notin Held \cup {None}
                                 /\ local'[j].body = local[j].body
                                 /\ local'[j].since = local[j].since
  BY <1>1 DEF Truthful
<1>3. ASSUME NEW k \in Ids, NEW ph, AtRow(u, ph, k)'
      PROVE  AtRow(u, ph, k)
  BY <1>1, <1>2, <1>3 DEF AtRow, Before
<1>4. worker[u].phase = "mark" => worker[u].status \in {"uploaded", "conflict"}
  BY DEF Truthful
<1>5. ASSUME NEW k \in Ids, AtRow(u, "compare", k)' PROVE cloud'[k] # None
  BY <1>3, <1>5 DEF Truthful
<1>6. ASSUME NEW k \in Ids, AtRow(u, "mark", k)'
      PROVE  /\ worker[u].status = "uploaded" => cloud'[k] = local'[k].body
             /\ worker[u].status = "conflict" => cloud'[k] \notin {None, local'[k].body}
  <2>1. AtRow(u, "mark", k)
    BY <1>3, <1>6
  <2>2. k \in worker[u].batch /\ worker[u].phase = "mark"
    BY <2>1 DEF AtRow
  <2>3. cloud[k] # None
    BY <1>2, <1>4, <2>1, <2>2 DEF Truthful
  <2> QED
    BY <1>2, <2>1, <2>2, <2>3 DEF Truthful
<1> QED
  BY <1>2, <1>4, <1>5, <1>6 DEF Truthful

-----------------------------------------------------------------------------
(* The server's transactions.                                              *)

\* A row stored under a free id leaves the others alone and tells no lie about the cloud.
LEMMA InsertKeeps ==
  ASSUME IInv, NEW i \in Ids, NEW b \in Bodies, local[i] = NoRow,
         local' = [local EXCEPT ![i] = Stored(b)], UNCHANGED <<worker, cloudVars>>
  PROVE  /\ local' \in [Ids -> Rows \cup {NoRow}]
         /\ local'[i].body = b /\ local'[i] # NoRow
         /\ \A j \in Ids : j # i => local'[j] = local[j]
         /\ WorkersAreTruthful' /\ StatusTellsTheCloud'
<1> USE DEF IInv
<1>1. Stored(b) \in Rows /\ Stored(b).body = b /\ Stored(b).status = "pending"
  BY StoredType
<1>2. local \in [Ids -> Rows \cup {NoRow}] /\ None \notin Bodies
  BY DeliveryAssumption DEF TypeOK
<1>3. /\ local' \in [Ids -> Rows \cup {NoRow}] /\ local'[i] = Stored(b)
      /\ \A j \in Ids : j # i => local'[j] = local[j]
  BY <1>1, <1>2
<1>4. local'[i] # NoRow
  BY <1>1, <1>2, <1>3 DEF NoRow
<1>5. local[i].body = None
  BY DEF NoRow
<1>6. WorkersAreTruthful'
  <2> SUFFICES ASSUME NEW u \in Uploaders PROVE Truthful(u)'
    BY DEF WorkersAreTruthful
  <2>1. /\ Truthful(u) /\ worker'[u] = worker[u]
        /\ \A k \in Ids : cloud[k] # None => cloud'[k] = cloud[k]
    BY DEF WorkersAreTruthful, cloudVars
  <2>2. \A j \in Ids : local[j].body # None =>
          local'[j].body = local[j].body /\ local'[j].since = local[j].since
    BY <1>3, <1>5
  <2> QED
    BY <2>1, <2>2, TruthfulKept
<1>7. StatusTellsTheCloud'
  BY <1>1, <1>3 DEF StatusTellsTheCloud, cloudVars
<1> QED
  BY <1>1, <1>3, <1>4, <1>6, <1>7

\* Requests are answered or lost; what the PDA is told stays among its requests.
LEMMA ReplyType ==
  ASSUME TypeOK, NEW r, r \in wire, Reply(r)
  PROVE  wire' \subseteq Requests /\ told' \subseteq Requests /\ sent' \in 0..MaxSends
  BY DEF TypeOK, Reply

LEMMA AppliesType ==
  ASSUME IInv, NEW i \in HandoverIds, effects[i] = 0, Applies(i)
  PROVE  /\ effects' \in [HandoverIds -> Nat] /\ AppliedAtMostOnce'
         /\ \A j \in HandoverIds : j # i => effects'[j] = effects[j]
  BY DEF IInv, TypeOK, Applies, AppliedAtMostOnce

\* Nothing in the server or in the cloud changes.
LEMMA PdaStep ==
  ASSUME IInv, UNCHANGED <<serverVars, worker, cloudVars>>,
         wire' \subseteq Requests, told' \subseteq Requests, sent' \in 0..MaxSends
  PROVE  IInv'
<1>1. TypeOK'
  BY DEF IInv, TypeOK, serverVars, cloudVars
<1>2. WorkersAreTruthful'
  BY DEF IInv, WorkersAreTruthful, Truthful, AtRow, Before, serverVars, cloudVars
<1>3. /\ EffectsHaveNotes' /\ StatusTellsTheCloud'
      /\ AppliedAtMostOnce' /\ SessionClosedByItsHandover'
  BY DEF IInv, EffectsHaveNotes, StatusTellsTheCloud, AppliedAtMostOnce,
         SessionClosedByItsHandover, serverVars, cloudVars
<1> QED
  BY <1>1, <1>2, <1>3 DEF IInv

LEMMA PdaKeeps ==
  ASSUME IInv, NEW r \in Requests, Send(r) \/ LoseRequest(r)
  PROVE  IInv'
<1>1. wire \subseteq Requests /\ told \subseteq Requests /\ sent \in 0..MaxSends /\ MaxSends \in Nat
  BY DeliveryAssumption DEF IInv, TypeOK
<1>2. /\ wire' \subseteq Requests /\ told' \subseteq Requests /\ sent' \in 0..MaxSends
      /\ UNCHANGED <<serverVars, worker, cloudVars>>
  BY <1>1 DEF Send, LoseRequest
<1> QED
  BY <1>2, PdaStep

LEMMA NothingStoredKeeps ==
  ASSUME IInv, NEW i \in HandoverIds, NEW b \in Bodies, RepeatInSession(i, b) \/ Reject(i, b)
  PROVE  IInv'
<1>1. wire \subseteq Requests /\ told \subseteq Requests /\ sent \in 0..MaxSends
  BY DEF IInv, TypeOK
<1>2. /\ wire' \subseteq Requests /\ told' \subseteq Requests /\ sent' \in 0..MaxSends
      /\ UNCHANGED <<serverVars, worker, cloudVars>>
  BY <1>1 DEF RepeatInSession, Reject, Reply
<1> QED
  BY <1>2, PdaStep

LEMMA SaveNoteKeeps ==
  ASSUME IInv, NEW i \in HandoverIds, NEW b \in Bodies, SaveNote(i, b)
  PROVE  IInv'
<1>1. TypeOK /\ i \in Ids /\ Reply(<<i, b>>) /\ <<i, b>> \in wire
      /\ UNCHANGED <<session, effects, worker, cloudVars>>
  BY DEF IInv, SaveNote, Ids
<1>2. wire' \subseteq Requests /\ told' \subseteq Requests /\ sent' \in 0..MaxSends
  BY <1>1, ReplyType
<1>3. CASE local[i] # NoRow
  <2>1. UNCHANGED <<serverVars, worker, cloudVars>>
    BY <1>1, <1>3 DEF SaveNote, Insert, serverVars
  <2> QED
    BY <1>2, <2>1, PdaStep
<1>4. CASE local[i] = NoRow
  <2>1. local' = [local EXCEPT ![i] = Stored(b)]
    BY <1>4 DEF SaveNote, Insert
  <2>2. /\ local' \in [Ids -> Rows \cup {NoRow}]
        /\ local'[i].body = b /\ local'[i] # NoRow
        /\ \A j \in Ids : j # i => local'[j] = local[j]
        /\ WorkersAreTruthful' /\ StatusTellsTheCloud'
    BY <1>1, <1>4, <2>1, InsertKeeps
  <2>3. TypeOK'
    BY <1>1, <1>2, <2>2 DEF TypeOK, cloudVars
  <2>4. EffectsHaveNotes' /\ AppliedAtMostOnce'
    BY <1>1, <2>2 DEF IInv, EffectsHaveNotes, AppliedAtMostOnce, Ids
  <2>5. b \notin InSession /\ None \notin InSession
    BY DeliveryAssumption DEF SaveNote, Bodies
  <2>6. SessionClosedByItsHandover'
    BY <1>1, <1>4, <2>2, <2>5 DEF IInv, SessionClosedByItsHandover, Ids, NoRow
  <2> QED
    BY <2>2, <2>3, <2>4, <2>6 DEF IInv
<1> QED
  BY <1>3, <1>4

LEMMA SaveDirectKeeps ==
  ASSUME IInv, NEW i \in HandoverIds, NEW b \in Bodies, SaveDirect(i, b)
  PROVE  IInv'
<1>1. TypeOK /\ i \in Ids /\ Reply(<<i, b>>) /\ <<i, b>> \in wire
      /\ UNCHANGED <<session, worker, cloudVars>>
  BY DEF IInv, SaveDirect, Ids
<1>2. wire' \subseteq Requests /\ told' \subseteq Requests /\ sent' \in 0..MaxSends
  BY <1>1, ReplyType
<1>3. /\ effects' \in [HandoverIds -> Nat] /\ AppliedAtMostOnce'
      /\ \A j \in HandoverIds : j # i => effects'[j] = effects[j]
  <2>1. CASE effects[i] = 0
    BY <2>1, AppliesType DEF SaveDirect, NotYetApplied
  <2>2. CASE effects[i] # 0
    BY <2>2 DEF SaveDirect, NotYetApplied, IInv, TypeOK, AppliedAtMostOnce
  <2> QED
    BY <2>1, <2>2
<1>4. /\ local' \in [Ids -> Rows \cup {NoRow}]
      /\ local'[i].body = b /\ local'[i] # NoRow
      /\ \A j \in Ids : j # i => local'[j] = local[j]
      /\ WorkersAreTruthful' /\ StatusTellsTheCloud'
  <2>1. CASE local[i] = NoRow
    <3>1. local' = [local EXCEPT ![i] = Stored(b)]
      BY <2>1 DEF SaveDirect, Insert
    <3> QED
      BY <1>1, <2>1, <3>1, InsertKeeps
  <2>2. CASE local[i] # NoRow
    <3>1. local' = local /\ local[i].body = b
      BY <2>2 DEF SaveDirect, Insert, Accepts
    <3>2. WorkersAreTruthful' /\ StatusTellsTheCloud'
      BY <1>1, <3>1 DEF IInv, WorkersAreTruthful, Truthful, AtRow, Before, StatusTellsTheCloud, cloudVars
    <3> QED
      BY <2>2, <3>1, <3>2, <1>1 DEF TypeOK
  <2> QED
    BY <2>1, <2>2
<1>5. TypeOK'
  BY <1>1, <1>2, <1>3, <1>4 DEF TypeOK, cloudVars
<1>6. EffectsHaveNotes'
  BY <1>3, <1>4 DEF IInv, EffectsHaveNotes, Ids
<1>7. b \notin InSession /\ None \notin InSession
  BY DeliveryAssumption DEF SaveDirect, Bodies
<1>8. local[i] = NoRow \/ local[i].body = b
  BY DEF SaveDirect, Accepts
<1>9. SessionClosedByItsHandover'
  BY <1>1, <1>4, <1>7, <1>8 DEF IInv, SessionClosedByItsHandover, Ids, NoRow
<1> QED
  BY <1>3, <1>4, <1>5, <1>6, <1>9 DEF IInv

LEMMA SaveInSessionKeeps ==
  ASSUME IInv, NEW i \in HandoverIds, NEW b \in Bodies, SaveInSession(i, b)
  PROVE  IInv'
<1> DEFINE s == SessionOf[b]
<1>1. /\ TypeOK /\ i \in Ids /\ Reply(<<i, b>>) /\ <<i, b>> \in wire /\ b \in InSession
      /\ local[i] = NoRow /\ session[s] = None /\ session' = [session EXCEPT ![s] = i]
      /\ Applies(i) /\ local' = [local EXCEPT ![i] = Stored(b)]
      /\ UNCHANGED <<worker, cloudVars>>
  BY DEF IInv, SaveInSession, Ids, MayClose, Insert
<1>2. wire' \subseteq Requests /\ told' \subseteq Requests /\ sent' \in 0..MaxSends
  BY <1>1, ReplyType
<1>3. effects[i] = 0
  BY <1>1 DEF IInv, EffectsHaveNotes
<1>4. /\ effects' \in [HandoverIds -> Nat] /\ AppliedAtMostOnce'
      /\ \A j \in HandoverIds : j # i => effects'[j] = effects[j]
  BY <1>1, <1>3, AppliesType
<1>5. /\ local' \in [Ids -> Rows \cup {NoRow}]
      /\ local'[i].body = b /\ local'[i] # NoRow
      /\ \A j \in Ids : j # i => local'[j] = local[j]
      /\ WorkersAreTruthful' /\ StatusTellsTheCloud'
  BY <1>1, InsertKeeps
<1>6. s \in Sessions /\ None \notin Ids /\ None \notin InSession
  BY <1>1, DeliveryAssumption DEF Bodies
<1>7. TypeOK'
  BY <1>1, <1>2, <1>4, <1>5, <1>6 DEF TypeOK, cloudVars
<1>8. EffectsHaveNotes'
  BY <1>4, <1>5 DEF IInv, EffectsHaveNotes, Ids
<1>9. SessionClosedByItsHandover'
  <2> SUFFICES ASSUME NEW t \in Sessions, NEW j \in HandoverIds
               PROVE  (session[t] = j <=> local[j].body \in InSession /\ SessionOf[local[j].body] = t)'
    BY DEF SessionClosedByItsHandover
  <2>1. session[t] = j <=> local[j].body \in InSession /\ SessionOf[local[j].body] = t
    BY DEF IInv, SessionClosedByItsHandover
  <2>2. session[s] = j <=> local[j].body \in InSession /\ SessionOf[local[j].body] = s
    BY <1>6 DEF IInv, SessionClosedByItsHandover
  <2>3. session[t] # i
    BY <1>1, <1>6 DEF IInv, SessionClosedByItsHandover, NoRow
  <2>4. j \in Ids /\ session \in [Sessions -> HandoverIds \cup {None}]
    BY <1>1 DEF Ids, TypeOK
  <2>5. session'[t] = IF t = s THEN i ELSE session[t]
    BY <1>1, <2>4
  <2>6. CASE j = i
    BY <1>1, <1>5, <2>3, <2>5, <2>6
  <2>7. CASE j # i
    <3>1. local'[j] = local[j] /\ session[s] # j
      BY <1>1, <1>5, <1>6, <2>4, <2>7
    <3> QED
      BY <2>1, <2>2, <2>5, <2>7, <3>1
  <2> QED
    BY <2>6, <2>7
<1> QED
  BY <1>4, <1>5, <1>7, <1>8, <1>9 DEF IInv

LEMMA SaveQueryKeeps ==
  ASSUME IInv, NEW q \in QueryIds, SaveQuery(q)
  PROVE  IInv'
<1>1. /\ q \in Ids /\ QueryLog \in Bodies /\ QueryLog \notin InSession /\ None \notin InSession
      /\ q \notin HandoverIds
  BY DeliveryAssumption DEF Ids, Bodies
<1>2. /\ local[q] = NoRow /\ local' = [local EXCEPT ![q] = Stored(QueryLog)]
      /\ UNCHANGED <<pdaVars, session, effects, worker, cloudVars>>
  BY DEF SaveQuery
<1>3. /\ local' \in [Ids -> Rows \cup {NoRow}]
      /\ \A j \in Ids : j # q => local'[j] = local[j]
      /\ WorkersAreTruthful' /\ StatusTellsTheCloud'
  BY <1>1, <1>2, InsertKeeps
<1>4. TypeOK'
  BY <1>2, <1>3 DEF IInv, TypeOK, pdaVars, cloudVars
<1>5. \A i \in HandoverIds : local'[i] = local[i]
  BY <1>1, <1>3 DEF Ids
<1>6. EffectsHaveNotes' /\ AppliedAtMostOnce' /\ SessionClosedByItsHandover'
  BY <1>2, <1>5 DEF IInv, EffectsHaveNotes, AppliedAtMostOnce, SessionClosedByItsHandover
<1> QED
  BY <1>3, <1>4, <1>6 DEF IInv

-----------------------------------------------------------------------------
(* The uploaders.                                                          *)

\* A step of one uploader that leaves text and place of every row alone and only adds to the
\* cloud keeps the others truthful; what is left to show concerns that uploader and the status.
LEMMA UploaderStep ==
  ASSUME IInv, NEW u \in Uploaders, NEW w \in Works,
         worker' = [worker EXCEPT ![u] = w],
         UNCHANGED <<pdaVars, session, effects>>,
         local' \in [Ids -> Rows \cup {NoRow}],
         \A j \in Ids : /\ local'[j].body = local[j].body
                        /\ local'[j].since = local[j].since
                        /\ local'[j] = NoRow <=> local[j] = NoRow,
         cloud' \in [Ids -> Bodies \cup {None, Foreign}],
         \A k \in Ids : cloud[k] # None => cloud'[k] = cloud[k],
         foreign' \in 0..MaxForeign,
         Truthful(u)', StatusTellsTheCloud'
  PROVE  IInv'
<1>1. TypeOK'
  BY DEF IInv, TypeOK, Works, pdaVars
<1>2. WorkersAreTruthful'
  <2> SUFFICES ASSUME NEW v \in Uploaders PROVE Truthful(v)'
    BY DEF WorkersAreTruthful
  <2>1. TypeOK /\ Truthful(v)
    BY DEF IInv, WorkersAreTruthful
  <2>2. CASE v # u
    <3>1. worker'[v] = worker[v]
      BY <2>1, <2>2 DEF TypeOK
    <3> QED
      BY <2>1, <3>1, TruthfulKept
  <2> QED
    BY <2>2
<1>3. EffectsHaveNotes' /\ AppliedAtMostOnce'
  BY DEF IInv, EffectsHaveNotes, AppliedAtMostOnce, Ids
<1>4. SessionClosedByItsHandover'
  BY DEF IInv, SessionClosedByItsHandover, Ids
<1> QED
  BY <1>1, <1>2, <1>3, <1>4 DEF IInv

\* An uploader that reads, and one that gives up.
LEMMA ReadOrAbandonKeeps ==
  ASSUME IInv, NEW u \in Uploaders, ReadBatch(u) \/ Abandon(u)
  PROVE  IInv'
<1>1. /\ UNCHANGED <<pdaVars, serverVars, cloudVars>>
      /\ TypeOK /\ StatusTellsTheCloud
  BY DEF ReadBatch, Abandon, IInv
<1>2. PICK w \in {Idle, [phase |-> "insert", batch |-> Uploadable, status |-> "none"]} :
        worker' = [worker EXCEPT ![u] = w]
  BY DEF ReadBatch, Abandon
<1>3. w \in Works /\ w.phase \notin {"compare", "mark"} /\ w.batch \subseteq Uploadable
  BY <1>2 DEF Works, Idle, Uploadable, Pending
<1>4. worker'[u] = w
  BY <1>1, <1>2 DEF TypeOK
<1>5. \A i \in Uploadable : local[i].body \notin Held \cup {None}
  <2> SUFFICES ASSUME NEW i \in Uploadable PROVE local[i].body # None
    BY DEF Uploadable
  <2>1. i \in Ids /\ local[i].status = "pending"
    BY DEF Uploadable, Pending
  <2>2. local[i] # NoRow
    BY <2>1 DEF NoRow
  <2> QED
    BY <1>1, <2>1, <2>2, RowCases
<1>6. Truthful(u)'
  BY <1>1, <1>3, <1>4, <1>5 DEF Truthful, AtRow, serverVars
<1>7. /\ local' \in [Ids -> Rows \cup {NoRow}] /\ local' = local
      /\ cloud' \in [Ids -> Bodies \cup {None, Foreign}] /\ cloud' = cloud
      /\ foreign' \in 0..MaxForeign /\ UNCHANGED <<pdaVars, session, effects>>
      /\ StatusTellsTheCloud'
  BY <1>1 DEF TypeOK, StatusTellsTheCloud, serverVars, cloudVars
<1> QED
  BY <1>2, <1>3, <1>6, <1>7, UploaderStep

\* The record a step to "mark" leaves.
LEMMA MarkNextType ==
  ASSUME TypeOK, NEW u \in Uploaders, NEW st \in {"uploaded", "conflict"},
         worker' = MarkNext(u, st)
  PROVE  \E w \in Works : /\ worker' = [worker EXCEPT ![u] = w]
                          /\ w.phase = "mark" /\ w.status = st /\ w.batch = worker[u].batch
<1> DEFINE w == [worker[u] EXCEPT !.phase = "mark", !.status = st]
<1>1. worker[u] \in Works /\ worker \in [Uploaders -> Works]
  BY DEF TypeOK, Works
<1>2. w \in Works /\ w.phase = "mark" /\ w.status = st /\ w.batch = worker[u].batch
  BY <1>1 DEF Works
<1>3. worker' = [worker EXCEPT ![u] = w]
  BY <1>1 DEF MarkNext
<1> QED
  BY <1>2, <1>3

\* After a step to "mark" at row i only i can be marked; if the status is true of it, all is well.
LEMMA MarkingStep ==
  ASSUME IInv, NEW u \in Uploaders, NEW i \in Ids, NEW st \in {"uploaded", "conflict"},
         \E ph : AtRow(u, ph, i), worker' = MarkNext(u, st),
         UNCHANGED <<pdaVars, serverVars, foreign>>,
         cloud' \in [Ids -> Bodies \cup {None, Foreign}],
         \A k \in Ids : cloud[k] # None => cloud'[k] = cloud[k],
         st = "uploaded" => cloud'[i] = local[i].body,
         st = "conflict" => cloud'[i] \notin {None, local[i].body}
  PROVE  IInv'
<1>1. TypeOK /\ Truthful(u) /\ StatusTellsTheCloud
  BY DEF IInv, WorkersAreTruthful
<1>2. PICK w \in Works : /\ worker' = [worker EXCEPT ![u] = w]
                         /\ w.phase = "mark" /\ w.status = st /\ w.batch = worker[u].batch
  BY <1>1, MarkNextType
<1>3. worker'[u] = w /\ local' = local
  BY <1>1, <1>2 DEF TypeOK, serverVars
<1>4. i \in worker[u].batch /\ \A j \in worker[u].batch : j # i => Before(i, j)
  BY DEF AtRow
<1>5. ASSUME NEW k \in Ids, NEW ph, AtRow(u, ph, k)' PROVE ph = "mark" /\ k = i
  <2>1. /\ ph = "mark" /\ k \in worker[u].batch
        /\ \A j \in worker[u].batch : j # k => Before(k, j)
    BY <1>2, <1>3, <1>5 DEF AtRow, Before
  <2> QED
    BY <1>1, <1>4, <2>1, OneRow
<1>6. \A k \in Ids : ~AtRow(u, "compare", k)'
  BY <1>5
<1>7. \A k \in Ids : AtRow(u, "mark", k)' => k = i
  BY <1>5
<1>8. Truthful(u)'
  BY <1>1, <1>2, <1>3, <1>6, <1>7 DEF Truthful
<1>9. StatusTellsTheCloud'
  <2> SUFFICES ASSUME NEW k \in Ids
               PROVE  /\ local[k].status = "uploaded" => cloud'[k] = local[k].body
                      /\ local[k].status = "conflict" => cloud'[k] \notin {None, local[k].body}
    BY <1>3 DEF StatusTellsTheCloud
  <2>1. local[k] = NoRow \/ local[k].body # None
    BY <1>1, RowCases
  <2> QED
    BY <1>1, <2>1 DEF StatusTellsTheCloud, NoRow
<1>10. /\ local' \in [Ids -> Rows \cup {NoRow}] /\ foreign' \in 0..MaxForeign
       /\ UNCHANGED <<pdaVars, session, effects>>
  BY <1>1, <1>3 DEF TypeOK, serverVars
<1> QED
  BY <1>2, <1>3, <1>8, <1>9, <1>10, UploaderStep

LEMMA InsertRowKeeps ==
  ASSUME IInv, NEW u \in Uploaders, NEW i \in Ids, InsertRow(u, i)
  PROVE  IInv'
<1>1. /\ TypeOK /\ Truthful(u) /\ StatusTellsTheCloud /\ AtRow(u, "insert", i)
      /\ UNCHANGED <<pdaVars, serverVars, foreign>>
  BY DEF IInv, WorkersAreTruthful, InsertRow
<1>2. cloud \in [Ids -> Bodies \cup {None, Foreign}] /\ worker \in [Uploaders -> Works]
  BY <1>1 DEF TypeOK, Works
<1>3. CASE cloud[i] = None
  <2>1. cloud' = [cloud EXCEPT ![i] = local[i].body] /\ worker' = MarkNext(u, "uploaded")
    BY <1>3 DEF InsertRow
  <2>2. local[i].body \in Bodies
    <3>1. i \in worker[u].batch
      BY <1>1 DEF AtRow
    <3>2. local[i].body # None
      BY <1>1, <3>1 DEF Truthful
    <3>3. local[i] \in Rows
      BY <1>1, <3>2, RowCases
    <3> QED
      BY <3>3 DEF Rows
  <2>3. /\ cloud' \in [Ids -> Bodies \cup {None, Foreign}] /\ cloud'[i] = local[i].body
        /\ \A k \in Ids : cloud[k] # None => cloud'[k] = cloud[k]
    BY <1>2, <1>3, <2>1, <2>2
  <2>4. \E ph : AtRow(u, ph, i)
    BY <1>1
  <2> HIDE DEF IInv
  <2> QED
    BY <1>1, <2>1, <2>3, <2>4, MarkingStep
<1>4. CASE cloud[i] # None
  <2> DEFINE w == [worker[u] EXCEPT !.phase = "compare"]
  <2>1. cloud' = cloud /\ worker' = [worker EXCEPT ![u].phase = "compare"]
    BY <1>4 DEF InsertRow
  <2>2. worker[u] \in Works
    BY <1>2
  <2>3. w \in Works /\ w.phase = "compare" /\ w.batch = worker[u].batch
    BY <2>2 DEF Works
  <2>4. worker' = [worker EXCEPT ![u] = w] /\ worker'[u] = w /\ local' = local
    BY <1>1, <1>2, <2>1 DEF serverVars
  <2> HIDE DEF w
  <2>5. i \in worker[u].batch /\ \A j \in worker[u].batch : j # i => Before(i, j)
    BY <1>1 DEF AtRow
  <2>6. ASSUME NEW k \in Ids, NEW ph, AtRow(u, ph, k)' PROVE ph = "compare" /\ k = i
    <3>1. /\ ph = "compare" /\ k \in worker[u].batch
          /\ \A j \in worker[u].batch : j # k => Before(k, j)
      BY <2>3, <2>4, <2>6 DEF AtRow, Before
    <3> QED
      BY <1>1, <2>5, <3>1, OneRow
  <2>7. \A k \in Ids : ~AtRow(u, "mark", k)'
    BY <2>6
  <2>8. \A k \in Ids : AtRow(u, "compare", k)' => k = i
    BY <2>6
  <2>9. Truthful(u)'
    BY <1>1, <1>4, <2>1, <2>3, <2>4, <2>7, <2>8 DEF Truthful
  <2>10. /\ local' \in [Ids -> Rows \cup {NoRow}] /\ foreign' \in 0..MaxForeign
         /\ cloud' \in [Ids -> Bodies \cup {None, Foreign}]
         /\ UNCHANGED <<pdaVars, session, effects>> /\ StatusTellsTheCloud'
    BY <1>1, <2>1, <2>4 DEF TypeOK, serverVars, StatusTellsTheCloud
  <2> QED
    BY <2>1, <2>3, <2>4, <2>9, <2>10, UploaderStep
<1> QED
  BY <1>3, <1>4

LEMMA CompareRowKeeps ==
  ASSUME IInv, NEW u \in Uploaders, NEW i \in Ids, CompareRow(u, i)
  PROVE  IInv'
<1>1. /\ TypeOK /\ Truthful(u) /\ AtRow(u, "compare", i)
      /\ worker' = MarkNext(u, AlreadyThere(i))
      /\ UNCHANGED <<pdaVars, serverVars, cloudVars>>
  BY DEF IInv, WorkersAreTruthful, CompareRow
<1>2. cloud[i] # None
  BY <1>1 DEF Truthful
<1>3. AlreadyThere(i) \in {"uploaded", "conflict"}
  BY DEF AlreadyThere
<1>4. /\ AlreadyThere(i) = "uploaded" => cloud[i] = local[i].body
      /\ AlreadyThere(i) = "conflict" => cloud[i] # local[i].body
  BY DEF AlreadyThere
<1>5. /\ cloud' = cloud /\ foreign' = foreign
      /\ cloud' \in [Ids -> Bodies \cup {None, Foreign}] /\ \E ph : AtRow(u, ph, i)
  BY <1>1 DEF cloudVars, TypeOK
<1> QED
  BY <1>1, <1>2, <1>3, <1>4, <1>5, MarkingStep

LEMMA MarkRowKeeps ==
  ASSUME IInv, NEW u \in Uploaders, NEW i \in Ids, MarkRow(u, i)
  PROVE  IInv'
<1> DEFINE w == IF worker[u].batch = {i} THEN Idle
                ELSE [phase |-> "insert", batch |-> worker[u].batch \ {i}, status |-> "none"]
<1>1. /\ TypeOK /\ Truthful(u) /\ StatusTellsTheCloud /\ AtRow(u, "mark", i)
      /\ local' = [local EXCEPT ![i].status = worker[u].status]
      /\ worker' = [worker EXCEPT ![u] = w]
      /\ UNCHANGED <<pdaVars, session, effects, cloudVars>>
  BY DEF IInv, WorkersAreTruthful, MarkRow
<1>2. /\ i \in worker[u].batch /\ worker[u].phase = "mark"
      /\ worker[u].status \in {"uploaded", "conflict"} /\ local[i].body # None
  BY <1>1 DEF AtRow, Truthful
<1>3. local[i] \in Rows
  BY <1>1, <1>2, RowCases
<1>4. worker[u].batch \subseteq Ids /\ worker \in [Uploaders -> Works]
  BY <1>1 DEF TypeOK, Works
<1>5. /\ w \in Works /\ w.phase \notin {"compare", "mark"} /\ w.batch \subseteq worker[u].batch
  BY <1>4 DEF Works, Idle
<1> HIDE DEF w
<1>6. worker'[u] = w
  BY <1>1, <1>4
<1> DEFINE row == [local[i] EXCEPT !.status = worker[u].status]
<1>7. /\ row \in Rows /\ row.body = local[i].body /\ row.since = local[i].since
      /\ row.status = worker[u].status
  BY <1>2, <1>3 DEF Rows
<1>8. /\ local \in [Ids -> Rows \cup {NoRow}] /\ local' = [local EXCEPT ![i] = row]
  BY <1>1 DEF TypeOK
<1> HIDE DEF row
<1>9. /\ local' \in [Ids -> Rows \cup {NoRow}] /\ local'[i] = row
      /\ \A j \in Ids : j # i => local'[j] = local[j]
  BY <1>7, <1>8
<1>10. row # NoRow /\ local[i] # NoRow
  BY <1>2, <1>7 DEF NoRow
<1>11. \A j \in Ids : /\ local'[j].body = local[j].body
                      /\ local'[j].since = local[j].since
                      /\ local'[j] = NoRow <=> local[j] = NoRow
  BY <1>7, <1>9, <1>10
<1>12. Truthful(u)'
  BY <1>1, <1>4, <1>5, <1>6, <1>11 DEF Truthful, AtRow
<1>13. /\ worker[u].status = "uploaded" => cloud[i] = local[i].body
       /\ worker[u].status = "conflict" => cloud[i] \notin {None, local[i].body}
  BY <1>1 DEF Truthful
<1>14. /\ cloud' = cloud /\ foreign' \in 0..MaxForeign
       /\ cloud' \in [Ids -> Bodies \cup {None, Foreign}]
  BY <1>1 DEF cloudVars, TypeOK
<1>15. StatusTellsTheCloud'
  BY <1>1, <1>7, <1>9, <1>13, <1>14 DEF StatusTellsTheCloud
<1> QED
  BY <1>1, <1>5, <1>9, <1>11, <1>12, <1>14, <1>15, UploaderStep

LEMMA IntrudeKeeps ==
  ASSUME IInv, NEW i \in Ids, Intrude(i)
  PROVE  IInv'
<1>1. /\ TypeOK /\ StatusTellsTheCloud /\ cloud[i] = None /\ foreign < MaxForeign
      /\ cloud' = [cloud EXCEPT ![i] = Foreign] /\ foreign' = foreign + 1
      /\ UNCHANGED <<pdaVars, serverVars, worker>>
  BY DEF IInv, Intrude
<1>2. /\ cloud' \in [Ids -> Bodies \cup {None, Foreign}] /\ foreign' \in 0..MaxForeign
      /\ \A k \in Ids : cloud[k] # None => cloud'[k] = cloud[k]
  BY <1>1, DeliveryAssumption DEF TypeOK
<1>3. TypeOK'
  BY <1>1, <1>2 DEF TypeOK, pdaVars, serverVars
<1>4. WorkersAreTruthful'
  <2> SUFFICES ASSUME NEW u \in Uploaders PROVE Truthful(u)'
    BY DEF WorkersAreTruthful
  <2>1. Truthful(u) /\ worker'[u] = worker[u] /\ local' = local
    BY <1>1 DEF IInv, WorkersAreTruthful, serverVars
  <2> QED
    BY <1>1, <1>2, <2>1, TruthfulKept
<1>5. StatusTellsTheCloud'
  <2> SUFFICES ASSUME NEW k \in Ids
               PROVE  /\ local[k].status = "uploaded" => cloud'[k] = local[k].body
                      /\ local[k].status = "conflict" => cloud'[k] \notin {None, local[k].body}
    BY <1>1 DEF StatusTellsTheCloud, serverVars
  <2>1. local[k] = NoRow \/ local[k].body # None
    BY <1>1, RowCases
  <2> QED
    BY <1>1, <1>2, <2>1 DEF StatusTellsTheCloud, NoRow
<1>6. EffectsHaveNotes' /\ AppliedAtMostOnce' /\ SessionClosedByItsHandover'
  BY <1>1 DEF IInv, EffectsHaveNotes, AppliedAtMostOnce, SessionClosedByItsHandover, serverVars
<1> QED
  BY <1>3, <1>4, <1>5, <1>6 DEF IInv

-----------------------------------------------------------------------------
LEMMA NextInv == IInv /\ [Next]_vars => IInv'
<1> SUFFICES ASSUME IInv, [Next]_vars PROVE IInv'
  OBVIOUS
<1>1. CASE \E r \in Requests : Send(r) \/ LoseRequest(r)
  BY <1>1, PdaKeeps
<1>2. CASE \E i \in HandoverIds, b \in Bodies : SaveNote(i, b)
  BY <1>2, SaveNoteKeeps
<1>3. CASE \E i \in HandoverIds, b \in Bodies : SaveDirect(i, b)
  BY <1>3, SaveDirectKeeps
<1>4. CASE \E i \in HandoverIds, b \in Bodies : SaveInSession(i, b)
  BY <1>4, SaveInSessionKeeps
<1>5. CASE \E i \in HandoverIds, b \in Bodies : RepeatInSession(i, b) \/ Reject(i, b)
  BY <1>5, NothingStoredKeeps
<1>6. CASE \E q \in QueryIds : SaveQuery(q)
  BY <1>6, SaveQueryKeeps
<1>7. CASE \E u \in Uploaders : ReadBatch(u) \/ Abandon(u)
  BY <1>7, ReadOrAbandonKeeps
<1>8. CASE \E u \in Uploaders : InsertSome(u)
  BY <1>8, InsertRowKeeps DEF InsertSome
<1>9. CASE \E u \in Uploaders : CompareSome(u)
  BY <1>9, CompareRowKeeps DEF CompareSome
<1>10. CASE \E u \in Uploaders : MarkSome(u)
  BY <1>10, MarkRowKeeps DEF MarkSome
<1>11. CASE \E i \in Ids : Intrude(i)
  BY <1>11, IntrudeKeeps
<1>12. CASE UNCHANGED vars
  <2>1. /\ UNCHANGED <<serverVars, worker, cloudVars>>
        /\ wire' \subseteq Requests /\ told' \subseteq Requests /\ sent' \in 0..MaxSends
    BY <1>12 DEF vars, serverVars, cloudVars, IInv, TypeOK
  <2> QED
    BY <2>1, PdaStep
<1> QED
  BY <1>1, <1>2, <1>3, <1>4, <1>5, <1>6, <1>7, <1>8, <1>9, <1>10, <1>11, <1>12 DEF Next

LEMMA Invariant == Spec => []IInv
  BY InitInv, NextInv, PTL DEF Spec

\* Requests, rows, sessions, uploaders and the cloud stay within their types.
THEOREM TypeCorrect == Spec => []TypeOK
<1>1. IInv => TypeOK
  BY DEF IInv
<1> QED
  BY <1>1, Invariant, PTL

\* What handover_outbox and query_log say of a row's upload is true of the cloud.
THEOREM StatusCorrect == Spec => []StatusTellsTheCloud
<1>1. IInv => StatusTellsTheCloud
  BY DEF IInv
<1> QED
  BY <1>1, Invariant, PTL

\* Retries of a handover never work its resolution into the drafts a second time.
THEOREM AppliedOnce == Spec => []AppliedAtMostOnce
<1>1. IInv => AppliedAtMostOnce
  BY DEF IInv
<1> QED
  BY <1>1, Invariant, PTL

\* A repair session is closed exactly by the handover that is stored for it.
THEOREM SessionCorrect == Spec => []SessionClosedByItsHandover
<1>1. IInv => SessionClosedByItsHandover
  BY DEF IInv
<1> QED
  BY <1>1, Invariant, PTL

-----------------------------------------------------------------------------
(* Implementation of NoteDelivery.                                         *)

Note == [i \in Ids |-> local[i].body]

\* A request that finds its body stored, or stores it, confirms or saves the note - or nobody
\* hears of it.
LEMMA StoredAnswer ==
  ASSUME IInv, NEW i \in HandoverIds, NEW b \in Bodies, Accepts(i, b), Insert(i, b),
         Reply(<<i, b>>), UNCHANGED cloudVars
  PROVE  [Promise!Next]_(Promise!vars)
<1>1. /\ TypeOK /\ i \in Ids /\ cloud' = cloud
      /\ told' \in {told, told \cup {<<i, b>>}}
  BY DEF IInv, Ids, Reply, cloudVars
<1>2. b # None
  BY DeliveryAssumption
<1>3. CASE local[i] = NoRow
  <2>1. local' = [local EXCEPT ![i] = Stored(b)] /\ local[i].body = None
    BY <1>3 DEF Insert, NoRow
  <2>2. \A j \in Ids : local'[j].body = IF j = i THEN b ELSE local[j].body
    BY <1>1, <2>1 DEF TypeOK, Stored
  <2>3. Note' = [Note EXCEPT ![i] = b]
    BY <1>1, <2>2 DEF Note
  <2>4. Promise!Save(i, b)
    BY <1>1, <2>1, <2>3 DEF Promise!Save, Note
  <2> QED
    BY <1>1, <2>4 DEF Promise!Next
<1>4. CASE local[i] # NoRow
  <2>1. local' = local /\ local[i].body = b
    BY <1>4 DEF Insert, Accepts
  <2>2. CASE told' = told
    BY <1>1, <2>1, <2>2 DEF Promise!vars
  <2>3. CASE told' = told \cup {<<i, b>>}
    <3>1. Promise!Confirm(i)
      BY <1>1, <1>2, <2>1, <2>3 DEF Promise!Confirm
    <3> QED
      BY <1>1, <3>1 DEF Promise!Next
  <2> QED
    BY <1>1, <2>2, <2>3
<1> QED
  BY <1>3, <1>4

LEMMA InsertRowImplements ==
  ASSUME IInv, NEW u \in Uploaders, NEW i \in Ids, InsertRow(u, i)
  PROVE  [Promise!Next]_(Promise!vars)
<1>1. /\ UNCHANGED <<pdaVars, serverVars>> /\ TypeOK /\ Truthful(u) /\ i \in worker[u].batch
  BY DEF InsertRow, IInv, WorkersAreTruthful, AtRow
<1>2. CASE cloud[i] = None
  <2>1. cloud' = [cloud EXCEPT ![i] = local[i].body] /\ local[i].body \notin Held \cup {None}
    BY <1>1, <1>2 DEF InsertRow, Truthful
  <2>2. Promise!Upload(i)
    BY <1>1, <1>2, <2>1 DEF Promise!Upload, pdaVars, serverVars
  <2> QED
    BY <2>2 DEF Promise!Next
<1>3. CASE cloud[i] # None
  BY <1>1, <1>3 DEF InsertRow, Promise!vars, pdaVars, serverVars
<1> QED
  BY <1>2, <1>3

\* Steps no reader of notes, acknowledgements and cloud rows can see.
LEMMA Unseen ==
  ASSUME told' = told, cloud' = cloud, \A j \in Ids : local'[j].body = local[j].body
  PROVE  [Promise!Next]_(Promise!vars)
  BY DEF Promise!vars

LEMMA StepImplements == IInv /\ [Next]_vars => [Promise!Next]_(Promise!vars)
<1> SUFFICES ASSUME IInv, [Next]_vars PROVE [Promise!Next]_(Promise!vars)
  OBVIOUS
<1>0. TypeOK /\ HandoverIds \subseteq Ids /\ QueryIds \subseteq Ids /\ QueryLog \in Bodies
  BY DEF IInv, Ids, Bodies
<1>1. CASE \E r \in Requests : Send(r) \/ LoseRequest(r)
  BY <1>1, Unseen DEF Send, LoseRequest, serverVars, cloudVars
<1>2. CASE \E i \in HandoverIds, b \in Bodies : SaveNote(i, b) \/ SaveDirect(i, b)
  BY <1>2, StoredAnswer DEF SaveNote, SaveDirect
<1>3. CASE \E i \in HandoverIds, b \in Bodies : SaveInSession(i, b)
  <2>1. PICK i \in HandoverIds, b \in Bodies : SaveInSession(i, b)
    BY <1>3
  <2>2. Accepts(i, b)
    BY <2>1 DEF SaveInSession, Accepts
  <2> QED
    BY <2>1, <2>2, StoredAnswer DEF SaveInSession
<1>4. CASE \E i \in HandoverIds, b \in Bodies : RepeatInSession(i, b)
  <2>1. PICK i \in HandoverIds, b \in Bodies : RepeatInSession(i, b)
    BY <1>4
  <2>2. local[i].body = b /\ Reply(<<i, b>>) /\ local' = local /\ UNCHANGED cloudVars
    BY <2>1 DEF RepeatInSession, serverVars
  <2>3. Accepts(i, b) /\ local[i] # NoRow
    BY <2>2, DeliveryAssumption DEF Accepts, NoRow
  <2>4. Insert(i, b)
    BY <2>2, <2>3 DEF Insert
  <2> QED
    BY <2>2, <2>3, <2>4, StoredAnswer
<1>5. CASE \E i \in HandoverIds, b \in Bodies : Reject(i, b)
  BY <1>5, Unseen DEF Reject, serverVars, cloudVars
<1>6. CASE \E q \in QueryIds : SaveQuery(q)
  <2>1. PICK q \in QueryIds : SaveQuery(q)
    BY <1>6
  <2>2. /\ local[q].body = None /\ local' = [local EXCEPT ![q] = Stored(QueryLog)]
        /\ told' = told /\ cloud' = cloud /\ q \in Ids
    BY <1>0, <2>1 DEF SaveQuery, NoRow, pdaVars, cloudVars
  <2>3. \A j \in Ids : local'[j].body = IF j = q THEN QueryLog ELSE local[j].body
    BY <1>0, <2>2 DEF TypeOK, Stored
  <2>4. Note' = [Note EXCEPT ![q] = QueryLog]
    BY <2>2, <2>3 DEF Note
  <2>5. Promise!Save(q, QueryLog)
    BY <2>2, <2>4 DEF Promise!Save, Note
  <2> QED
    BY <1>0, <2>2, <2>5 DEF Promise!Next
<1>7. CASE \E u \in Uploaders : ReadBatch(u) \/ Abandon(u)
  BY <1>7, Unseen DEF ReadBatch, Abandon, pdaVars, serverVars, cloudVars
<1>8. CASE \E u \in Uploaders : InsertSome(u)
  BY <1>8, InsertRowImplements DEF InsertSome
<1>9. CASE \E u \in Uploaders : CompareSome(u)
  BY <1>9, Unseen DEF CompareSome, CompareRow, pdaVars, serverVars, cloudVars
<1>10. CASE \E u \in Uploaders : MarkSome(u)
  <2>1. PICK u \in Uploaders, i \in Ids : MarkRow(u, i)
    BY <1>10 DEF MarkSome
  <2>2. /\ local' = [local EXCEPT ![i].status = worker[u].status]
        /\ told' = told /\ cloud' = cloud
        /\ Truthful(u) /\ i \in worker[u].batch
    BY <2>1 DEF MarkRow, pdaVars, cloudVars, AtRow, IInv, WorkersAreTruthful
  <2>3. local[i] \in Rows
    BY <1>0, <2>2, RowCases DEF Truthful
  <2>4. \A j \in Ids : local'[j].body = local[j].body
    BY <1>0, <2>2, <2>3 DEF TypeOK, Rows
  <2> QED
    BY <2>2, <2>4, Unseen
<1>11. CASE \E i \in Ids : Intrude(i)
  <2>1. PICK i \in Ids : Intrude(i)
    BY <1>11
  <2>2. Promise!Occupy(i)
    BY <2>1 DEF Intrude, Promise!Occupy, pdaVars, serverVars
  <2> QED
    BY <2>2 DEF Promise!Next
<1>12. CASE UNCHANGED vars
  BY <1>12, Unseen DEF vars
<1> QED
  BY <1>1, <1>2, <1>3, <1>4, <1>5, <1>6, <1>7, <1>8, <1>9, <1>10, <1>11, <1>12 DEF Next

\* Retries, lost replies, two uploaders and crashes add nothing to the promise about a note.
THEOREM Implements == Spec => KeepsPromise
<1>1. Init => Promise!Init
  BY DEF Init, Promise!Init, NoRow
<1> QED
  BY <1>1, StepImplements, Invariant, PTL DEF Spec, KeepsPromise, Promise!Spec

=============================================================================
