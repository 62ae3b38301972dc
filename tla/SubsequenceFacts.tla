-------------------------- MODULE SubsequenceFacts --------------------------
EXTENDS Subsequences, FiniteSetTheorems, WellFoundedInduction, TLAPS

\* A set of numbers has a least one.
LEMMA LeastNumber ==
  ASSUME NEW T \in SUBSET Nat, T # {}
  PROVE  \E x \in T : \A y \in T : x <= y
<1> DEFINE R == OpToRel(<, Nat)
<1>1. IsWellFoundedOn(R, Nat)
  BY NatLessThanWellFounded
<1>2. \E x \in T : \A y \in T : ~(<<y, x>> \in R)
  <2> HIDE DEF R
  <2> QED
    BY <1>1, WFMin, Zenon
<1>3. PICK x \in T : \A y \in T : ~(<<y, x>> \in R)
  BY <1>2
<1>4. ASSUME NEW y \in T PROVE x <= y
  <2>1. ~(y < x)
    BY <1>3 DEF OpToRel
  <2> QED
    BY <2>1
<1> QED
  BY <1>3, <1>4

\* Induction, with the set of the numbers a statement holds of.
LEMMA ByInduction ==
  ASSUME NEW S, 0 \in S, \A n \in Nat : n \in S => n + 1 \in S
  PROVE  Nat \subseteq S
<1> SUFFICES ASSUME Nat \ S # {} PROVE FALSE
  OBVIOUS
<1>1. PICK x \in Nat \ S : \A y \in Nat \ S : x <= y
  BY LeastNumber
<1>2. x - 1 \in Nat /\ x = (x - 1) + 1
  BY <1>1
<1>3. x - 1 \in S
  BY <1>1, <1>2
<1> QED
  BY <1>1, <1>2, <1>3

\* Of some numbers one is the greatest.
LEMMA GreatestNumber ==
  ASSUME NEW n \in Nat, NEW I \in SUBSET (1..n), I # {}, NEW f, \A i \in I : f[i] \in Nat
  PROVE  \E k \in I : \A j \in I : f[j] <= f[k]
<1> DEFINE S == {m \in Nat : \A J \in SUBSET (1..m) : J \subseteq I /\ J # {} =>
                               \E k \in J : \A j \in J : f[j] <= f[k]}
<1>1. 0 \in S
  <2>1. \A J \in SUBSET (1..0) : J = {}
    OBVIOUS
  <2> QED
    BY <2>1
<1>2. ASSUME NEW m \in Nat, m \in S PROVE m + 1 \in S
  <2> SUFFICES ASSUME NEW J \in SUBSET (1..(m + 1)), J \subseteq I, J # {}
               PROVE  \E k \in J : \A j \in J : f[j] <= f[k]
    OBVIOUS
  <2>1. PICK K : K = J \ {m + 1}
    OBVIOUS
  <2>2. K \in SUBSET (1..m) /\ K \subseteq I
    BY <2>1
  <2>3. \A j \in J : j \in K \/ j = m + 1
    BY <2>1
  <2>4. CASE K = {}
    <3>1. m + 1 \in J /\ \A j \in J : j = m + 1
      BY <2>3, <2>4
    <3>2. f[m + 1] \in Nat
      BY <3>1
    <3> QED
      BY <3>1, <3>2
  <2>5. CASE K # {}
    <3>1. PICK k \in K : \A j \in K : f[j] <= f[k]
      BY <1>2, <2>2, <2>5
    <3>2. CASE m + 1 \notin J \/ f[m + 1] <= f[k]
      BY <2>1, <2>3, <3>1, <3>2
    <3>3. CASE m + 1 \in J /\ ~(f[m + 1] <= f[k])
      <4>1. f[k] \in Nat /\ f[m + 1] \in Nat /\ \A j \in K : f[j] \in Nat
        BY <2>2, <3>3
      <4>2. \A j \in J : f[j] <= f[m + 1]
        BY <2>3, <3>1, <3>3, <4>1
      <4> QED
        BY <3>3, <4>2
    <3> QED
      BY <3>2, <3>3
  <2> QED
    BY <2>4, <2>5
<1>3. n \in S
  <2> HIDE DEF S
  <2>1. Nat \subseteq S
    BY <1>1, <1>2, ByInduction
  <2> QED
    BY <2>1
<1> QED
  BY <1>3

LEMMA FiniteNumbers ==
  ASSUME NEW n \in Nat, NEW I \in SUBSET (1..n)
  PROVE  IsFiniteSet(I) /\ Cardinality(I) \in Nat
<1>1. 1 \in Int /\ n \in Int
  OBVIOUS
<1>2. IsFiniteSet(1..n)
  BY <1>1, FS_Interval
<1>3. IsFiniteSet(I)
  BY <1>2, FS_Subset
<1> QED
  BY <1>3, FS_CardinalityType

\* A later position counts more of the positions before it.
LEMMA CountGrows ==
  ASSUME NEW n \in Nat, NEW I \in SUBSET (1..n), NEW i \in I, NEW j \in I, i < j
  PROVE  /\ Cardinality(UpTo(I, i)) \in Nat /\ Cardinality(UpTo(I, j)) \in Nat
         /\ Cardinality(UpTo(I, i)) < Cardinality(UpTo(I, j))
<1>1. IsFiniteSet(I)
  BY FiniteNumbers
<1>2. IsFiniteSet(UpTo(I, i)) /\ IsFiniteSet(UpTo(I, j))
  <2>1. UpTo(I, i) \in SUBSET I /\ UpTo(I, j) \in SUBSET I
    BY DEF UpTo
  <2> QED
    BY <1>1, <2>1, FS_Subset
<1>3. Cardinality(UpTo(I, i)) \in Nat /\ Cardinality(UpTo(I, j)) \in Nat
  BY <1>2, FS_CardinalityType
<1>4. UpTo(I, i) \in SUBSET UpTo(I, j) /\ UpTo(I, i) # UpTo(I, j)
  <2>1. i \in 1..n /\ j \in 1..n
    OBVIOUS
  <2>2. ASSUME NEW x \in UpTo(I, i) PROVE x \in UpTo(I, j)
    <3>1. x \in I /\ x <= i /\ x \in 1..n
      BY DEF UpTo
    <3>2. x <= j
      BY <2>1, <3>1
    <3> QED
      BY <3>1, <3>2 DEF UpTo
  <2>3. j \in UpTo(I, j) /\ j \notin UpTo(I, i)
    BY <2>1 DEF UpTo
  <2> QED
    BY <2>2, <2>3
<1>5. Cardinality(UpTo(I, i)) <= Cardinality(UpTo(I, j))
  BY <1>2, <1>4, FS_Subset
<1>6. Cardinality(UpTo(I, i)) # Cardinality(UpTo(I, j))
  BY <1>2, <1>4, FS_Subset
<1> QED
  BY <1>3, <1>5, <1>6

\* Nth(I, _) numbers the positions of I from the first to the last.
LEMMA NthNumbers ==
  ASSUME NEW n \in Nat, NEW I \in SUBSET (1..n)
  PROVE  /\ IsFiniteSet(I) /\ Cardinality(I) \in Nat
         /\ \A k \in 1..Cardinality(I) : Nth(I, k) \in I /\ Cardinality(UpTo(I, Nth(I, k))) = k
         /\ \A i \in I : \E k \in 1..Cardinality(I) : Nth(I, k) = i
<1>1. IsFiniteSet(I) /\ Cardinality(I) \in Nat
  BY FiniteNumbers
<1> DEFINE c == [i \in I |-> Cardinality(UpTo(I, i))]
           K == 1..Cardinality(I)
<1>2. ASSUME NEW i \in I PROVE c[i] \in K
  <2>1. UpTo(I, i) \in SUBSET I /\ i \in UpTo(I, i)
    BY DEF UpTo
  <2>2. IsFiniteSet(UpTo(I, i)) /\ Cardinality(UpTo(I, i)) <= Cardinality(I)
    BY <1>1, <2>1, FS_Subset
  <2>3. Cardinality(UpTo(I, i)) \in Nat /\ Cardinality(UpTo(I, i)) # 0
    BY <2>1, <2>2, FS_CardinalityType, FS_EmptySet
  <2> QED
    BY <1>1, <2>2, <2>3
<1>3. ASSUME NEW i \in I, NEW j \in I, i # j PROVE c[i] # c[j]
  <2>1. i \in Int /\ j \in Int
    OBVIOUS
  <2>2. CASE i < j
    <3>1. /\ Cardinality(UpTo(I, i)) \in Nat /\ Cardinality(UpTo(I, j)) \in Nat
          /\ Cardinality(UpTo(I, i)) < Cardinality(UpTo(I, j))
      BY <2>2, CountGrows
    <3> QED
      BY <3>1
  <2>3. CASE j < i
    <3>1. /\ Cardinality(UpTo(I, i)) \in Nat /\ Cardinality(UpTo(I, j)) \in Nat
          /\ Cardinality(UpTo(I, j)) < Cardinality(UpTo(I, i))
      BY <2>3, CountGrows
    <3> QED
      BY <3>1
  <2> QED
    BY <1>3, <2>1, <2>2, <2>3
<1>4. c \in Injection(I, K)
  BY <1>2, <1>3 DEF Injection, IsInjective
<1>5. IsFiniteSet(K) /\ Cardinality(K) = Cardinality(I)
  BY <1>1, FS_Interval
<1>6. c \in Surjection(I, K)
  <2> HIDE DEF c, K
  <2> QED
    BY <1>4, <1>5, FS_Injection
<1>7. ASSUME NEW k \in K PROVE Nth(I, k) \in I /\ Cardinality(UpTo(I, Nth(I, k))) = k
  <2>1. \E i \in I : c[i] = k
    BY <1>6 DEF Surjection
  <2>2. \E i \in I : Cardinality(UpTo(I, i)) = k
    BY <2>1
  <2> QED
    BY <2>2 DEF Nth
<1>8. ASSUME NEW i \in I PROVE \E k \in K : Nth(I, k) = i
  <2>1. c[i] \in K
    BY <1>2
  <2>2. Nth(I, c[i]) \in I /\ c[Nth(I, c[i])] = c[i]
    BY <1>7, <2>1
  <2>3. Nth(I, c[i]) = i
    BY <2>2, <1>3
  <2> QED
    BY <2>1, <2>3
<1> QED
  BY <1>1, <1>7, <1>8

\* The position with k of them up to it is the k-th.
LEMMA NthIs ==
  ASSUME NEW n \in Nat, NEW I \in SUBSET (1..n), NEW i \in I, NEW k,
         Cardinality(UpTo(I, i)) = k
  PROVE  Nth(I, k) = i /\ k \in 1..Cardinality(I)
<1>1. PICK l \in 1..Cardinality(I) : Nth(I, l) = i
  BY NthNumbers
<1>2. Cardinality(UpTo(I, Nth(I, l))) = l
  BY NthNumbers
<1> QED
  BY <1>1, <1>2

\* A further position comes last.
LEMMA NthOfMore ==
  ASSUME NEW n \in Nat, NEW I \in SUBSET (1..n)
  PROVE  /\ Cardinality(I \cup {n + 1}) = Cardinality(I) + 1
         /\ \A k \in 1..Cardinality(I) : Nth(I \cup {n + 1}, k) = Nth(I, k)
         /\ Nth(I \cup {n + 1}, Cardinality(I) + 1) = n + 1
<1> DEFINE J == I \cup {n + 1}
<1>1. IsFiniteSet(I) /\ Cardinality(I) \in Nat /\ n + 1 \notin I
  BY FiniteNumbers
<1>2. IsFiniteSet(J) /\ Cardinality(J) = Cardinality(I) + 1
  BY <1>1, FS_AddElement
<1>3. J \in SUBSET (1..(n + 1)) /\ n + 1 \in Nat
  OBVIOUS
<1>4. ASSUME NEW k \in 1..Cardinality(I) PROVE Nth(J, k) = Nth(I, k)
  <2>1. Nth(I, k) \in I /\ Cardinality(UpTo(I, Nth(I, k))) = k
    BY NthNumbers
  <2>2. PICK i : i = Nth(I, k)
    OBVIOUS
  <2>3. i \in 1..n /\ i \in J
    BY <2>1, <2>2
  <2>4. ~(n + 1 <= i)
    BY <2>3
  <2>5. UpTo(J, i) = UpTo(I, i)
    BY <2>4 DEF UpTo
  <2>6. Cardinality(UpTo(J, i)) = k
    BY <2>1, <2>2, <2>5
  <2>7. Nth(J, k) = i
    <3> HIDE DEF J
    <3> QED
      BY <1>3, <2>3, <2>6, NthIs
  <2> QED
    BY <2>2, <2>7
<1>5. Nth(J, Cardinality(I) + 1) = n + 1
  <2>1. \A j \in J : j <= n + 1
    BY <1>3
  <2>2. UpTo(J, n + 1) = J
    BY <2>1 DEF UpTo
  <2>3. n + 1 \in J /\ Cardinality(UpTo(J, n + 1)) = Cardinality(I) + 1
    BY <1>2, <2>2
  <2> HIDE DEF J
  <2> QED
    BY <1>3, <2>3, NthIs
<1> QED
  BY <1>2, <1>4, <1>5

\* ... in ascending order.
LEMMA NthAscends ==
  ASSUME NEW n \in Nat, NEW I \in SUBSET (1..n),
         NEW k \in 1..Cardinality(I), NEW l \in 1..Cardinality(I), k < l
  PROVE  Nth(I, k) < Nth(I, l)
<1>1. /\ Nth(I, k) \in I /\ Cardinality(UpTo(I, Nth(I, k))) = k
      /\ Nth(I, l) \in I /\ Cardinality(UpTo(I, Nth(I, l))) = l
      /\ Cardinality(I) \in Nat
  BY NthNumbers
<1>2. Nth(I, k) \in Int /\ Nth(I, l) \in Int /\ Nth(I, k) # Nth(I, l)
  <2>1. Nth(I, k) \in 1..n /\ Nth(I, l) \in 1..n
    BY <1>1
  <2>2. k # l
    OBVIOUS
  <2> QED
    BY <1>1, <2>1, <2>2
<1>3. ~(Nth(I, l) < Nth(I, k))
  <2> SUFFICES ASSUME Nth(I, l) < Nth(I, k) PROVE FALSE
    OBVIOUS
  <2>1. Cardinality(UpTo(I, Nth(I, l))) < Cardinality(UpTo(I, Nth(I, k)))
    BY <1>1, CountGrows
  <2> QED
    BY <1>1, <2>1
<1> QED
  BY <1>2, <1>3

\* The last part of a sequence, selected as a whole.
LEMMA NthOfInterval ==
  ASSUME NEW a \in Nat, NEW b \in Nat, a <= b
  PROVE  /\ Cardinality((a + 1)..b) = b - a
         /\ \A k \in 1..(b - a) : Nth((a + 1)..b, k) = a + k
<1> DEFINE I == (a + 1)..b
<1>1. I \in SUBSET (1..b) /\ Cardinality(I) = b - a
  <2>1. I \in SUBSET (1..b)
    OBVIOUS
  <2>2. a + 1 \in Int /\ b \in Int
    OBVIOUS
  <2>3. Cardinality(I) = IF a + 1 > b THEN 0 ELSE b - (a + 1) + 1
    BY <2>2, FS_Interval
  <2> QED
    BY <2>1, <2>3
<1>2. ASSUME NEW k \in 1..(b - a) PROVE Nth(I, k) = a + k
  <2> DEFINE i == Nth(I, k)
  <2>1. i \in I /\ Cardinality(UpTo(I, i)) = k
    <3> HIDE DEF I
    <3> QED
      BY <1>1, NthNumbers
  <2>2. UpTo(I, i) = (a + 1)..i
    BY <2>1 DEF UpTo
  <2>3. Cardinality((a + 1)..i) = i - a
    <3> HIDE DEF i
    <3> QED
      BY <2>1, FS_Interval
  <2> QED
    BY <2>1, <2>2, <2>3
<1> QED
  BY <1>1, <1>2

\* A selection is a sequence of exactly the selected elements.
LEMMA SelectedElements ==
  ASSUME NEW S, NEW s \in Seq(S), NEW I \in SUBSET DOMAIN s
  PROVE  /\ Selected(s, I) \in Seq(S) /\ Len(Selected(s, I)) = Cardinality(I)
         /\ \A k \in DOMAIN Selected(s, I) : Nth(I, k) \in I /\ Selected(s, I)[k] = s[Nth(I, k)]
         /\ \A i \in I : \E k \in DOMAIN Selected(s, I) : Nth(I, k) = i
<1>1. I \in SUBSET (1..Len(s)) /\ Len(s) \in Nat
  OBVIOUS
<1>2. /\ Cardinality(I) \in Nat
      /\ \A k \in 1..Cardinality(I) : Nth(I, k) \in I
      /\ \A i \in I : \E k \in 1..Cardinality(I) : Nth(I, k) = i
  BY <1>1, NthNumbers
<1>3. \A k \in 1..Cardinality(I) : s[Nth(I, k)] \in S
  BY <1>1, <1>2
<1>4. Selected(s, I) \in Seq(S) /\ Len(Selected(s, I)) = Cardinality(I)
  BY <1>2, <1>3 DEF Selected
<1>5. DOMAIN Selected(s, I) = 1..Cardinality(I)
  BY DEF Selected
<1> QED
  BY <1>2, <1>4, <1>5 DEF Selected

\* A filter looks at one element after the other: what it makes of a longer sequence.
LEMMA SelectedAppend ==
  ASSUME NEW S, NEW s \in Seq(S), NEW e \in S, NEW I \in SUBSET DOMAIN s
  PROVE  /\ Selected(Append(s, e), I) = Selected(s, I)
         /\ Selected(Append(s, e), I \cup {Len(s) + 1}) = Append(Selected(s, I), e)
<1> DEFINE n == Len(s)
           m == Cardinality(I)
           J == I \cup {n + 1}
           t == Append(s, e)
<1>1. /\ n \in Nat /\ I \in SUBSET (1..n) /\ t \in Seq(S) /\ t[n + 1] = e
      /\ \A i \in 1..n : t[i] = s[i]
  OBVIOUS
<1>2. /\ m \in Nat /\ Cardinality(J) = m + 1 /\ Nth(J, m + 1) = n + 1
      /\ \A k \in 1..m : Nth(I, k) \in 1..n /\ Nth(J, k) = Nth(I, k)
  <2>1. /\ Cardinality(J) = m + 1 /\ Nth(J, m + 1) = n + 1
        /\ \A k \in 1..m : Nth(J, k) = Nth(I, k)
    BY <1>1, NthOfMore
  <2>2. m \in Nat /\ \A k \in 1..m : Nth(I, k) \in I
    BY <1>1, NthNumbers
  <2> QED
    BY <1>1, <2>1, <2>2
<1>3. Selected(t, I) = Selected(s, I)
  <2>1. \A k \in 1..m : t[Nth(I, k)] = s[Nth(I, k)]
    BY <1>1, <1>2
  <2> QED
    BY <2>1 DEF Selected
<1>4. Selected(t, J) = Append(Selected(s, I), e)
  <2> DEFINE u == Selected(s, I)
  <2>1. u \in Seq(S) /\ Len(u) = m
    BY SelectedElements
  <2>2. \A k \in 1..m : u[k] = s[Nth(I, k)]
    BY DEF Selected
  <2>3. Selected(t, J) = [k \in 1..(m + 1) |-> t[Nth(J, k)]]
    BY <1>2 DEF Selected
  <2>4. \A k \in 1..m : t[Nth(J, k)] = u[k]
    BY <1>1, <1>2, <2>2
  <2>5. t[Nth(J, m + 1)] = e
    BY <1>1, <1>2
  <2>6. Append(u, e) = [k \in 1..(m + 1) |-> IF k = m + 1 THEN e ELSE u[k]]
    <3> HIDE DEF u
    <3>1. Append(u, e) \in Seq(S) /\ Len(Append(u, e)) = m + 1 /\ Append(u, e)[m + 1] = e
      BY <2>1
    <3>2. \A k \in 1..m : Append(u, e)[k] = u[k]
      BY <2>1
    <3>3. m \in Nat
      BY <1>2
    <3>4. PICK v : v = Append(u, e)
      OBVIOUS
    <3> HIDE DEF m
    <3>5. v \in Seq(S) /\ Len(v) = m + 1 /\ v[m + 1] = e /\ \A k \in 1..m : v[k] = u[k]
      BY <3>1, <3>2, <3>4
    <3>6. v = [k \in 1..(m + 1) |-> v[k]]
      BY <3>5
    <3>7. \A k \in 1..(m + 1) : v[k] = IF k = m + 1 THEN e ELSE u[k]
      BY <3>3, <3>5
    <3> QED
      BY <3>4, <3>6, <3>7
  <2>7. \A k \in 1..(m + 1) : k = m + 1 \/ k \in 1..m
    BY <1>2
  <2> HIDE DEF u, t, J, m
  <2>8. \A k \in 1..(m + 1) : t[Nth(J, k)] = IF k = m + 1 THEN e ELSE u[k]
    BY <2>4, <2>5, <2>7
  <2> QED
    BY <2>3, <2>6, <2>8 DEF u
<1> QED
  BY <1>3, <1>4

\* Everything a longer sequence has added, selected from it.
LEMMA SelectedAdded ==
  ASSUME NEW S, NEW s \in Seq(S), NEW t \in Seq(S)
  PROVE  Selected(s \o t, (Len(s) + 1)..Len(s \o t)) = t
<1> DEFINE a == Len(s)
           b == Len(s \o t)
<1>1. /\ a \in Nat /\ b \in Nat /\ a <= b /\ b - a = Len(t)
      /\ \A k \in 1..Len(t) : (s \o t)[a + k] = t[k]
  OBVIOUS
<1> HIDE DEF a, b
<1>2. Cardinality((a + 1)..b) = b - a /\ \A k \in 1..(b - a) : Nth((a + 1)..b, k) = a + k
  BY <1>1, NthOfInterval
<1>3. Selected(s \o t, (a + 1)..b) = [k \in 1..Len(t) |-> t[k]]
  BY <1>1, <1>2 DEF Selected
<1> QED
  BY <1>3 DEF a, b

\* Positions that hold from one on are an interval at the end.
LEMMA LatePositions ==
  ASSUME NEW n \in Nat, NEW I \in SUBSET (1..n), \A i \in I : \A j \in 1..n : i < j => j \in I
  PROVE  \E a \in 0..n : I = (a + 1)..n
<1>1. Cardinality(I) \in Nat /\ IsFiniteSet(I)
  BY FiniteNumbers
<1>2. CASE I = {}
  <2>1. I = (n + 1)..n /\ n \in 0..n
    BY <1>2
  <2> QED
    BY <2>1
<1>3. CASE I # {}
  <2>1. Cardinality(I) # 0
    BY <1>1, <1>3, FS_EmptySet
  <2>2. 1 \in 1..Cardinality(I)
    BY <1>1, <2>1
  <2>3. PICK first : first = Nth(I, 1)
    OBVIOUS
  <2>4. first \in I /\ first \in 1..n
    BY <2>2, <2>3, NthNumbers
  <2>5. ASSUME NEW i \in I PROVE first <= i
    <3>1. PICK k \in 1..Cardinality(I) : Nth(I, k) = i
      BY NthNumbers
    <3>2. k = 1 \/ 1 < k
      BY <1>1
    <3>3. CASE k = 1
      BY <2>3, <2>4, <3>1, <3>3
    <3>4. CASE 1 < k
      <4>1. Nth(I, 1) < Nth(I, k)
        BY <2>2, <3>4, NthAscends
      <4>2. i \in 1..n
        OBVIOUS
      <4> QED
        BY <2>3, <2>4, <3>1, <4>1, <4>2
    <3> QED
      BY <3>2, <3>3, <3>4
  <2>6. \A j \in 1..n : first < j => j \in I
    BY <2>4
  <2>7. I = first..n
    <3>1. ASSUME NEW j \in I PROVE j \in first..n
      <4>1. j \in 1..n /\ first <= j
        BY <2>5, <3>1
      <4> QED
        BY <2>4, <4>1
    <3>2. ASSUME NEW j \in first..n PROVE j \in I
      <4>1. j = first \/ (j \in 1..n /\ first < j)
        BY <2>4
      <4> QED
        BY <2>4, <2>6, <4>1
    <3> QED
      BY <3>1, <3>2
  <2>8. first - 1 \in 0..n /\ (first - 1) + 1 = first
    BY <2>4
  <2>9. I = ((first - 1) + 1)..n
    BY <2>7, <2>8
  <2> QED
    BY <2>8, <2>9
<1> QED
  BY <1>2, <1>3
=============================================================================
