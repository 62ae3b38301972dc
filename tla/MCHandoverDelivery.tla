------------------------- MODULE MCHandoverDelivery -------------------------
(* A small instance of HandoverDelivery: two handovers, each submitted with *)
(* two bodies, both able to close the one session.                         *)
EXTENDS HandoverDelivery, TLC

CONSTANTS h1, h2, q1, memo, direct, repair, again, s1, u1, u2

MCSessionOf == [b \in InSession |-> s1]
MixedRequests == {<<h1, memo>>, <<h1, repair>>, <<h2, again>>, <<h2, direct>>}
NoteRequests == {<<h1, memo>>}
Symmetry == Permutations(Uploaders)

=============================================================================
