---------------------------- MODULE NoteDelivery ----------------------------
(* What the PDA, the MES server and the uploader together promise about a  *)
(* note: it is saved once, whoever was told so can rely on it, and the     *)
(* cloud gets that text - or already holds another, which stays.  Retries, *)
(* lost replies, concurrent uploaders and crashes are not visible here.    *)
CONSTANTS Ids, Bodies, Private, Nothing, Foreign

VARIABLES
  note,  \* the text saved under each id
  told,  \* the (id, text) pairs whose sender knows they are saved
  copy   \* what the cloud holds under each id

vars == <<note, told, copy>>

Init == note = [i \in Ids |-> Nothing] /\ told = {} /\ copy = [i \in Ids |-> Nothing]

Save(i, b) ==
  /\ note[i] = Nothing
  /\ note' = [note EXCEPT ![i] = b]
  /\ told' \in {told, told \cup {<<i, b>>}}
  /\ UNCHANGED copy

Confirm(i) ==
  /\ note[i] # Nothing
  /\ told' = told \cup {<<i, note[i]>>}
  /\ UNCHANGED <<note, copy>>

Upload(i) ==
  /\ note[i] \notin Private \cup {Nothing} /\ copy[i] = Nothing
  /\ copy' = [copy EXCEPT ![i] = note[i]]
  /\ UNCHANGED <<note, told>>

Occupy(i) ==
  /\ copy[i] = Nothing
  /\ copy' = [copy EXCEPT ![i] = Foreign]
  /\ UNCHANGED <<note, told>>

Next == \E i \in Ids : (\E b \in Bodies : Save(i, b)) \/ Confirm(i) \/ Upload(i) \/ Occupy(i)

Spec == Init /\ [][Next]_vars

=============================================================================
