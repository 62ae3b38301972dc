---------------------------- MODULE Subsequences ----------------------------
(* Part of a sequence by position, for what the code filters with a list    *)
(* comprehension: defined without recursion, so that it can be proved about.*)
EXTENDS Integers, Sequences, FiniteSets

UpTo(I, i) == {j \in I : j <= i}

\* The k-th smallest position of I.
Nth(I, k) == CHOOSE i \in I : Cardinality(UpTo(I, i)) = k

\* The elements of s at the positions I, in their order.
Selected(s, I) == [k \in 1..Cardinality(I) |-> s[Nth(I, k)]]
=============================================================================
