--------------------------- MODULE ReviewedIndex ---------------------------
(* What the publication machinery promises to everyone who reads the       *)
(* index: a candidate's text is in it only under the quality pass it was   *)
(* given, and leaves it with that pass.  How and when the text gets there  *)
(* - attempts, leases, retries, crashes - is not visible here.             *)
CONSTANTS Drafts, Passes, NoPass

VARIABLES
  verdict,  \* the quality pass in force for each candidate, or NoPass
  index     \* the pass whose text queries find for each candidate, or NoPass

vars == <<verdict, index>>

Init ==
  /\ verdict = [d \in Drafts |-> NoPass]
  /\ index = [d \in Drafts |-> NoPass]

\* A decision replaces the pass (or takes it back); nothing of the old one stays searchable.
Decide(d) ==
  /\ \E p \in Passes \cup {NoPass} : verdict' = [verdict EXCEPT ![d] = p]
  /\ index' = [index EXCEPT ![d] = NoPass]

Publish(d) ==
  /\ verdict[d] # NoPass
  /\ index' = [index EXCEPT ![d] = verdict[d]]
  /\ UNCHANGED verdict

\* Texts found broken leave the index; the pass stays in force.
Withdraw ==
  /\ \E broken \in SUBSET Drafts :
       index' = [d \in Drafts |-> IF d \in broken THEN NoPass ELSE index[d]]
  /\ UNCHANGED verdict

Next == (\E d \in Drafts : Decide(d) \/ Publish(d)) \/ Withdraw

Spec == Init /\ [][Next]_vars

=============================================================================
