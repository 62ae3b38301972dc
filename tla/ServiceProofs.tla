---------------------------- MODULE ServiceProofs ----------------------------
(* Proofs about the accounts, the plant configuration and the work reports *)
(* of the service, for every plant, every set of uploads and employees,    *)
(* every number of reports, queries and positions, and all bounds.         *)
EXTENDS Accounts, PlantConfig, WorkReports, SubsequenceFacts, SequenceTheorems

-----------------------------------------------------------------------------
(* Accounts.                                                               *)

LEMMA AccountNextInv ==
  ConfirmedAccountsStay /\ [AccountNext]_accountVars => ConfirmedAccountsStay'
<1> SUFFICES ASSUME ConfirmedAccountsStay, [AccountNext]_accountVars
             PROVE  ConfirmedAccountsStay'
  OBVIOUS
<1> USE DEF ConfirmedAccountsStay
<1>1. CASE CreateFile
  BY <1>1 DEF CreateFile, ledger
<1>2. CASE FillFile
  BY <1>2 DEF FillFile, ledger
<1>3. CASE StartAccounts
  BY <1>3 DEF StartAccounts, ledger
<1>4. CASE CrashAccounts
  BY <1>4 DEF CrashAccounts
<1>5. CASE PassTime \/ Unreadable \/ RefuseLogin
  BY <1>5 DEF PassTime, Unreadable, RefuseLogin, ledger
<1>6. CASE FailLogin
  BY <1>6 DEF FailLogin
<1>7. ASSUME NEW i \in Employees, NEW role \in {"admin", "operator"}, Login(i, role)
      PROVE  ConfirmedAccountsStay'
  BY <1>7 DEF Login
<1>8. ASSUME NEW t \in 1..MaxTokens, Logout(t) \/ Administrator(t)
      PROVE  ConfirmedAccountsStay'
  BY <1>8 DEF Logout, Administrator, ledger
<1>9. ASSUME NEW t \in 1..MaxTokens, NEW i \in Employees, Register(i, t)
      PROVE  ConfirmedAccountsStay'
  <2>1. /\ file = "written" /\ file' = file /\ i \notin DOMAIN accounts
        /\ answered' \in {answered, answered \cup {i}}
        /\ accounts' = [j \in DOMAIN accounts \cup {i} |->
             IF j = i THEN "operator" ELSE accounts[j]]
    BY <1>9 DEF Register
  <2>2. i \in DOMAIN accounts' /\ accounts'[i] = "operator"
    BY <2>1
  <2>3. ASSUME NEW j \in answered
        PROVE  j \in DOMAIN accounts' /\ accounts'[j] = "operator"
    BY <2>1, <2>3
  <2> QED
    BY <2>1, <2>2, <2>3
<1>10. CASE UNCHANGED accountVars
  BY <1>10 DEF accountVars, ledger
<1> QED
  BY <1>1, <1>2, <1>3, <1>4, <1>5, <1>6, <1>7, <1>8, <1>9, <1>10 DEF AccountNext

\* A registration that was confirmed is never lost, whenever the server dies.
THEOREM AccountsCorrect == AccountSpec => []ConfirmedAccountsStay
<1>1. AccountInit => ConfirmedAccountsStay
  BY DEF AccountInit, ConfirmedAccountsStay
<1> QED
  BY <1>1, AccountNextInv, PTL DEF AccountSpec

-----------------------------------------------------------------------------
(* Guessing a password.                                                    *)

Attempts == [at : Nat, ok : BOOLEAN]
WrongFrom(i) == \A j \in i..Len(attempts) : ~attempts[j].ok

\* What is remembered are the last attempts looked at, all wrong and in the order of time; what
\* is forgotten of an unbroken row of wrong ones is a Window old.
Remembers(fs) ==
  /\ fs \in Seq(Nat) /\ Len(fs) <= Len(attempts)
  /\ \A k \in 1..Len(fs) :
       /\ fs[k] = attempts[Len(attempts) - Len(fs) + k].at
       /\ ~attempts[Len(attempts) - Len(fs) + k].ok
  /\ \A i \in 1..(Len(attempts) - Len(fs)) : WrongFrom(i) => clock - attempts[i].at >= Window

InOrder ==
  /\ clock \in Nat /\ attempts \in Seq(Attempts)
  /\ \A i \in 1..Len(attempts) :
       attempts[i].at <= clock /\ \A j \in i..Len(attempts) : attempts[i].at <= attempts[j].at

GuessInv == InOrder /\ Remembers(failures) /\ GuessesAreSlow

LEMMA Throttle == Window \in Nat /\ Window > 0 /\ MaxFailures \in Nat /\ MaxFailures > 0
  BY AccountAssumption

LEMMA AttemptTypes ==
  ASSUME InOrder
  PROVE  /\ Len(attempts) \in Nat /\ DOMAIN attempts = 1..Len(attempts)
         /\ \A i \in 1..Len(attempts) : attempts[i].at \in Nat /\ attempts[i].ok \in BOOLEAN
<1>1. \A i \in 1..Len(attempts) : attempts[i] \in Attempts
  BY DEF InOrder
<1> QED
  BY <1>1 DEF InOrder, Attempts

\* Dropping the failures that are a Window old leaves the last ones.
LEMMA RecentRemembers ==
  ASSUME GuessInv
  PROVE  Remembers(Recent)
<1> DEFINE n == Len(attempts)
           f == Len(failures)
           I == {k \in DOMAIN failures : clock - failures[k] < Window}
<1>1. /\ n \in Nat /\ f \in Nat /\ f <= n /\ DOMAIN failures = 1..f /\ failures \in Seq(Nat)
      /\ clock \in Nat /\ Window \in Nat
      /\ \A k \in 1..f : failures[k] \in Nat
      /\ \A i \in 1..n : attempts[i].at \in Nat
  BY AttemptTypes, Throttle DEF GuessInv, Remembers, InOrder
<1>2. \A k \in 1..f : failures[k] = attempts[n - f + k].at /\ ~attempts[n - f + k].ok
  BY DEF GuessInv, Remembers
<1>3. \A i \in 1..n : \A j \in i..n : attempts[i].at <= attempts[j].at
  BY DEF GuessInv, InOrder
<1>4. I \in SUBSET (1..f)
  BY <1>1
<1>5. ASSUME NEW k \in I, NEW l \in 1..f, k < l PROVE l \in I
  <2>1. k \in 1..f /\ clock - failures[k] < Window
    BY <1>4
  <2>2. n - f + k \in 1..n /\ n - f + l \in (n - f + k)..n
    BY <1>1, <1>5, <2>1
  <2>3. failures[k] <= failures[l]
    BY <1>2, <1>3, <2>1, <2>2
  <2>4. clock - failures[l] < Window
    BY <1>1, <2>1, <2>3
  <2> QED
    BY <1>1, <2>4
<1>6. PICK a \in 0..f : I = (a + 1)..f
  <2> HIDE DEF I
  <2> QED
    BY <1>1, <1>4, <1>5, LatePositions
<1>7. PICK fs : fs = Recent
  OBVIOUS
<1>8. Cardinality((a + 1)..f) = f - a /\ \A k \in 1..(f - a) : Nth((a + 1)..f, k) = a + k
  BY <1>1, NthOfInterval
<1>9. fs = [k \in 1..(f - a) |-> failures[a + k]]
  BY <1>6, <1>7, <1>8 DEF Recent, Selected
<1> HIDE DEF I, n, f
<1>10. /\ fs \in Seq(Nat) /\ Len(fs) = f - a
       /\ \A k \in 1..(f - a) : fs[k] = failures[a + k]
  <2>1. \A k \in 1..(f - a) : a + k \in 1..f
    BY <1>1
  <2>2. f - a \in Nat
    BY <1>1
  <2> QED
    BY <1>1, <1>9, <2>1, <2>2
<1>11. ASSUME NEW k \in 1..(f - a)
       PROVE  fs[k] = attempts[n - (f - a) + k].at /\ ~attempts[n - (f - a) + k].ok
  <2>1. a + k \in 1..f /\ n - f + (a + k) = n - (f - a) + k
    BY <1>1
  <2> QED
    BY <1>2, <1>10, <2>1
<1>12. ASSUME NEW i \in 1..(n - (f - a)), WrongFrom(i)
       PROVE  clock - attempts[i].at >= Window
  <2>1. CASE i <= n - f
    <3>1. i \in 1..(n - f)
      BY <1>1, <2>1
    <3> QED
      BY <1>12, <3>1 DEF GuessInv, Remembers, n, f
  <2>2. CASE ~(i <= n - f)
    <3>1. i - (n - f) \in 1..f /\ i - (n - f) \notin (a + 1)..f /\ n - f + (i - (n - f)) = i
      BY <1>1, <2>2
    <3>2. ~(clock - failures[i - (n - f)] < Window)
      BY <1>1, <1>6, <3>1 DEF I
    <3>3. failures[i - (n - f)] = attempts[i].at /\ attempts[i].at \in Nat
      BY <1>1, <1>2, <3>1
    <3> QED
      BY <1>1, <3>2, <3>3
  <2> QED
    BY <2>1, <2>2
<1>13. f - a <= n
  BY <1>1
<1> QED
  BY <1>7, <1>10, <1>11, <1>12, <1>13 DEF Remembers, n

\* An attempt that is looked at, right or wrong.
LEMMA AttemptKeeps ==
  ASSUME GuessInv, NEW ok \in BOOLEAN, Len(Recent) < MaxFailures,
         attempts' = Append(attempts, [at |-> clock, ok |-> ok]), clock' = clock,
         failures' = IF ok THEN <<>> ELSE Append(Recent, clock)
  PROVE  GuessInv'
<1> DEFINE n == Len(attempts)
<1>1. PICK fs : fs = Recent
  OBVIOUS
<1>2. Remembers(fs) /\ Len(fs) < MaxFailures
  BY <1>1, RecentRemembers
<1>3. /\ n \in Nat /\ attempts \in Seq(Attempts) /\ clock \in Nat /\ Window \in Nat
      /\ MaxFailures \in Nat /\ MaxFailures > 0
      /\ \A i \in 1..n : attempts[i].at \in Nat /\ attempts[i].ok \in BOOLEAN
  BY AttemptTypes, Throttle DEF GuessInv, InOrder
<1>4. PICK more : more = attempts'
  OBVIOUS
<1>5. /\ more \in Seq(Attempts) /\ Len(more) = n + 1
      /\ more[n + 1] = [at |-> clock, ok |-> ok]
      /\ \A i \in 1..n : more[i] = attempts[i]
  <2>1. [at |-> clock, ok |-> ok] \in Attempts
    BY <1>3 DEF Attempts
  <2> QED
    BY <1>3, <1>4, <2>1
<1>6. more[n + 1].at = clock /\ more[n + 1].ok = ok
  BY <1>5
<1> HIDE DEF n
<1>7. InOrder'
  <2>1. ASSUME NEW i \in 1..(n + 1)
        PROVE  more[i].at <= clock /\ \A j \in i..(n + 1) : more[i].at <= more[j].at
    <3>1. CASE i = n + 1
      <4>1. more[i].at <= clock
        BY <1>3, <1>6, <3>1
      <4>2. \A j \in i..(n + 1) : j = i
        BY <1>3, <3>1
      <4> QED
        BY <1>3, <1>6, <3>1, <4>1, <4>2
    <3>2. CASE i \in 1..n
      <4>1. /\ more[i] = attempts[i] /\ attempts[i].at <= clock
            /\ \A j \in i..n : attempts[i].at <= attempts[j].at
        BY <1>5, <3>2 DEF GuessInv, InOrder, n
      <4>2. ASSUME NEW j \in i..(n + 1) PROVE more[i].at <= more[j].at
        <5>1. j = n + 1 \/ (j \in i..n /\ j \in 1..n)
          BY <1>3, <3>2
        <5> QED
          BY <1>5, <1>6, <4>1, <5>1
      <4> QED
        BY <4>1, <4>2
    <3> QED
      BY <1>3, <3>1, <3>2
  <2> QED
    BY <1>3, <1>4, <1>5, <2>1 DEF InOrder
<1>8. ASSUME ~ok, NEW i \in 1..n, \A j \in i..(n + 1) : ~more[j].ok
      PROVE  WrongFrom(i)
  <2>1. \A j \in i..n : j \in i..(n + 1) /\ j \in 1..n
    BY <1>3
  <2> QED
    BY <1>5, <1>8, <2>1 DEF WrongFrom, n
<1>9. /\ fs \in Seq(Nat) /\ Len(fs) \in Nat /\ Len(fs) <= n
      /\ \A k \in 1..Len(fs) : fs[k] = attempts[n - Len(fs) + k].at /\ ~attempts[n - Len(fs) + k].ok
      /\ \A i \in 1..(n - Len(fs)) : WrongFrom(i) => clock - attempts[i].at >= Window
  BY <1>2 DEF Remembers, n
<1>10. Remembers(failures)'
  <2>1. CASE ok
    <3>1. failures' = <<>>
      BY <2>1
    <3>2. ASSUME NEW i \in 1..(n + 1), \A j \in i..(n + 1) : ~more[j].ok PROVE FALSE
      <4>1. n + 1 \in i..(n + 1)
        BY <1>3
      <4> QED
        BY <1>6, <2>1, <3>2, <4>1
    <3>3. /\ failures' \in Seq(Nat) /\ Len(failures') = 0
      BY <3>1
    <3>4. \A i \in 1..(Len(attempts') - Len(failures')) : ~WrongFrom(i)'
      BY <1>3, <1>4, <1>5, <3>2, <3>3 DEF WrongFrom
    <3>5. Len(failures') <= Len(attempts')
      BY <1>3, <1>4, <1>5, <3>3
    <3>6. 1..Len(failures') = {}
      BY <3>3
    <3> QED
      BY <3>3, <3>4, <3>5, <3>6 DEF Remembers
  <2>2. CASE ~ok
    <3>1. PICK gs : gs = failures'
      OBVIOUS
    <3>2. gs = Append(fs, clock)
      BY <1>1, <2>2, <3>1
    <3>3. /\ gs \in Seq(Nat) /\ Len(gs) = Len(fs) + 1 /\ gs[Len(fs) + 1] = clock
          /\ \A k \in 1..Len(fs) : gs[k] = fs[k]
      BY <1>3, <1>9, <3>2
    <3>4. ASSUME NEW k \in 1..Len(gs)
          PROVE  gs[k] = more[(n + 1) - Len(gs) + k].at /\ ~more[(n + 1) - Len(gs) + k].ok
      <4>1. CASE k = Len(fs) + 1
        <5>1. (n + 1) - Len(gs) + k = n + 1
          BY <1>3, <1>9, <3>3, <4>1
        <5> QED
          BY <1>6, <2>2, <3>3, <4>1, <5>1
      <4>2. CASE k \in 1..Len(fs)
        <5>1. (n + 1) - Len(gs) + k = n - Len(fs) + k /\ n - Len(fs) + k \in 1..n
          <6>1. /\ n \in Nat /\ Len(fs) \in Nat /\ Len(fs) <= n /\ Len(gs) = Len(fs) + 1
                /\ k \in 1..Len(fs)
            BY <1>3, <1>9, <3>3, <4>2
          <6> QED
            BY <6>1
        <5> QED
          BY <1>5, <1>9, <3>3, <4>2, <5>1
      <4> QED
        BY <1>9, <3>3, <4>1, <4>2
    <3>5. ASSUME NEW i \in 1..((n + 1) - Len(gs)), \A j \in i..(n + 1) : ~more[j].ok
          PROVE  clock - more[i].at >= Window
      <4>1. i \in 1..(n - Len(fs)) /\ i \in 1..n
        BY <1>3, <1>9, <3>3
      <4> QED
        BY <1>5, <1>8, <1>9, <2>2, <3>5, <4>1
    <3>6. Len(gs) <= n + 1
      BY <1>3, <1>9, <3>3
    <3>7. \A i \in 1..(Len(attempts') - Len(failures')) :
            WrongFrom(i)' => clock' - attempts'[i].at >= Window
      BY <1>4, <1>5, <3>1, <3>5 DEF WrongFrom
    <3>8. \A k \in 1..Len(failures') :
            /\ failures'[k] = attempts'[Len(attempts') - Len(failures') + k].at
            /\ ~attempts'[Len(attempts') - Len(failures') + k].ok
      <4>1. Len(attempts') = n + 1 /\ attempts' = more /\ failures' = gs
        BY <1>4, <1>5, <3>1
      <4>2. \A k \in 1..Len(gs) : /\ gs[k] = more[(n + 1) - Len(gs) + k].at
                                   /\ ~more[(n + 1) - Len(gs) + k].ok
        BY <3>4
      <4> QED
        BY <4>1, <4>2
    <3>9. failures' \in Seq(Nat) /\ Len(failures') <= Len(attempts')
      BY <1>4, <1>5, <3>1, <3>3, <3>6
    <3> QED
      BY <3>7, <3>8, <3>9 DEF Remembers
  <2> QED
    BY <2>1, <2>2
<1>11. GuessesAreSlow'
  <2>1. ASSUME NEW k \in 1..((n + 1) - MaxFailures),
               \A j \in k..(k + MaxFailures) : ~more[j].ok
        PROVE  more[k + MaxFailures].at - more[k].at >= Window
    <3>1. CASE k + MaxFailures = n + 1
      <4>1. k + MaxFailures \in k..(k + MaxFailures)
        BY <1>3
      <4>2. ~ok
        BY <1>6, <2>1, <3>1, <4>1
      <4>3. k \in 1..n /\ k \in 1..(n - Len(fs))
        BY <1>2, <1>3, <1>9, <3>1
      <4>4. WrongFrom(k)
        BY <1>8, <2>1, <3>1, <4>2, <4>3
      <4>5. clock - attempts[k].at >= Window
        BY <1>9, <4>3, <4>4
      <4> QED
        BY <1>5, <1>6, <3>1, <4>3, <4>5
    <3>2. CASE k + MaxFailures # n + 1
      <4>1. /\ k \in 1..(n - MaxFailures) /\ k \in 1..n /\ k + MaxFailures \in 1..n
            /\ \A j \in k..(k + MaxFailures) : j \in 1..n
        BY <1>3, <3>2
      <4>2. \A j \in k..(k + MaxFailures) : ~attempts[j].ok
        BY <1>5, <2>1, <4>1
      <4>3. attempts[k + MaxFailures].at - attempts[k].at >= Window
        BY <4>1, <4>2 DEF GuessInv, GuessesAreSlow, n
      <4> QED
        BY <1>5, <4>1, <4>3
    <3> QED
      BY <3>1, <3>2
  <2> QED
    BY <1>3, <1>4, <1>5, <2>1 DEF GuessesAreSlow
<1> QED
  BY <1>7, <1>10, <1>11 DEF GuessInv

LEMMA NoAttempts ==
  ASSUME clock' \in Nat, attempts' = <<>>, failures' = <<>>
  PROVE  GuessInv'
<1>1. attempts' \in Seq(Attempts) /\ Len(attempts') = 0 /\ failures' \in Seq(Nat) /\ Len(failures') = 0
  OBVIOUS
<1>2. \A m \in Nat : m > 0 => 1..(0 - m) = {}
  OBVIOUS
<1>3. GuessesAreSlow'
  BY <1>1, Throttle DEF GuessesAreSlow
<1> QED
  BY <1>1, <1>3 DEF GuessInv, InOrder, Remembers

LEMMA GuessNextInv == GuessInv /\ [AccountNext]_accountVars => GuessInv'
<1> SUFFICES ASSUME GuessInv, [AccountNext]_accountVars PROVE GuessInv'
  OBVIOUS
<1>0. clock \in Nat
  BY DEF GuessInv, InOrder
<1>1. ASSUME UNCHANGED <<attempts, failures, clock>> PROVE GuessInv'
  BY <1>1 DEF GuessInv, InOrder, Remembers, WrongFrom, GuessesAreSlow
<1>2. CASE CreateFile \/ FillFile \/ StartAccounts
  BY <1>1, <1>2 DEF CreateFile, FillFile, StartAccounts, memory, ledger
<1>3. CASE CrashAccounts
  BY <1>0, <1>3, NoAttempts DEF CrashAccounts
<1>4. CASE PassTime
  <2>1. clock' = clock + 1 /\ UNCHANGED <<attempts, failures>>
    BY <1>4 DEF PassTime, memory, ledger
  <2>2. /\ Window \in Nat /\ Len(attempts) \in Nat
        /\ \A i \in 1..Len(attempts) : attempts[i].at \in Nat
    BY AttemptTypes, Throttle DEF GuessInv
  <2>3. InOrder'
    BY <1>0, <2>1, <2>2 DEF GuessInv, InOrder
  <2>4. Remembers(failures)'
    <3>1. failures \in Seq(Nat) /\ Len(failures) \in Nat /\ Len(failures) <= Len(attempts)
      BY DEF GuessInv, Remembers
    <3>2. ASSUME NEW i \in 1..(Len(attempts) - Len(failures)), WrongFrom(i)
          PROVE  (clock + 1) - attempts[i].at >= Window
      <4>1. clock - attempts[i].at >= Window /\ i \in 1..Len(attempts)
        BY <2>2, <3>1, <3>2 DEF GuessInv, Remembers
      <4> QED
        BY <1>0, <2>2, <4>1
    <3> QED
      BY <2>1, <3>2 DEF GuessInv, Remembers, WrongFrom
  <2>5. GuessesAreSlow'
    BY <2>1 DEF GuessInv, GuessesAreSlow
  <2> QED
    BY <2>3, <2>4, <2>5 DEF GuessInv
<1>5. CASE Unreadable
  BY <1>1, <1>5 DEF Unreadable, ledger
<1>6. CASE RefuseLogin
  <2>1. failures' = Recent /\ UNCHANGED <<attempts, clock>>
    BY <1>6 DEF RefuseLogin, ledger
  <2>2. Remembers(Recent)
    BY RecentRemembers
  <2> QED
    BY <2>1, <2>2 DEF GuessInv, InOrder, Remembers, WrongFrom, GuessesAreSlow
<1>7. CASE FailLogin
  BY <1>7, AttemptKeeps DEF FailLogin, MayLogin
<1>8. ASSUME NEW i \in Employees, NEW role \in {"admin", "operator"}, Login(i, role)
      PROVE  GuessInv'
  BY <1>8, AttemptKeeps DEF Login, MayLogin
<1>9. ASSUME NEW t \in 1..MaxTokens, Logout(t) \/ Administrator(t)
      PROVE  GuessInv'
  BY <1>1, <1>9 DEF Logout, Administrator, ledger
<1>10. ASSUME NEW t \in 1..MaxTokens, NEW i \in Employees, Register(i, t)
       PROVE  GuessInv'
  <2>1. clock' = clock /\ (UNCHANGED <<failures, attempts>> \/ (failures' = <<>> /\ attempts' = <<>>))
    BY <1>10 DEF Register
  <2> QED
    BY <1>0, <1>1, <2>1, NoAttempts
<1>11. CASE UNCHANGED accountVars
  BY <1>1, <1>11 DEF accountVars, memory, ledger
<1> QED
  BY <1>2, <1>3, <1>4, <1>5, <1>6, <1>7, <1>8, <1>9, <1>10, <1>11 DEF AccountNext

\* However the clock, right passwords, refusals and other requests come between, one wrong
\* password too many is not looked at before a Window has passed since the first of them.
THEOREM GuessesCorrect == AccountSpec => []GuessesAreSlow
<1>1. AccountInit => GuessInv
  <2> SUFFICES ASSUME AccountInit PROVE GuessInv
    OBVIOUS
  <2>1. clock = 1 /\ attempts = <<>> /\ failures = <<>>
    BY DEF AccountInit
  <2>2. attempts \in Seq(Attempts) /\ Len(attempts) = 0 /\ failures \in Seq(Nat) /\ Len(failures) = 0
    BY <2>1
  <2>3. GuessesAreSlow
    BY <2>2, Throttle DEF GuessesAreSlow
  <2> QED
    BY <2>1, <2>2, <2>3 DEF GuessInv, InOrder, Remembers
<1>2. GuessInv => GuessesAreSlow
  BY DEF GuessInv
<1> QED
  BY <1>1, <1>2, GuessNextInv, PTL DEF AccountSpec

-----------------------------------------------------------------------------
\* A sequence, whatever it holds.
IsList(s) == \E n \in Nat : DOMAIN s = 1..n /\ s = [j \in 1..n |-> s[j]]

LEMMA AppendList ==
  ASSUME NEW s, IsList(s), NEW e
  PROVE  /\ IsList(Append(s, e)) /\ DOMAIN Append(s, e) = 1..(Len(s) + 1)
         /\ DOMAIN s = 1..Len(s) /\ Len(s) \in Nat
         /\ \A j \in DOMAIN s : Append(s, e)[j] = s[j]
         /\ Append(s, e)[Len(s) + 1] = e
<1>1. PICK n \in Nat : DOMAIN s = 1..n /\ s = [j \in 1..n |-> s[j]]
  BY DEF IsList
<1>2. PICK S : S = {s[j] : j \in 1..n} \cup {e}
  OBVIOUS
<1>3. s \in Seq(S) /\ e \in S
  BY <1>1, <1>2
<1>4. Len(s) = n
  BY <1>1, <1>3
<1>5. PICK t : t = Append(s, e)
  OBVIOUS
<1>6. /\ t \in Seq(S) /\ Len(t) = n + 1 /\ t[n + 1] = e
      /\ \A j \in 1..n : t[j] = s[j]
  BY <1>3, <1>4, <1>5
<1>7. n + 1 \in Nat /\ DOMAIN t = 1..(n + 1) /\ t = [j \in 1..(n + 1) |-> t[j]]
  BY <1>6
<1> QED
  BY <1>1, <1>4, <1>5, <1>6, <1>7 DEF IsList

-----------------------------------------------------------------------------
(* The runs of the line and its ticker.                                    *)

\* A run is a record of these four.
IsRun(r) ==
  /\ r = [id |-> r.id, started |-> r.started, config |-> r.config, sequence |-> r.sequence]
  /\ r.id \in Nat /\ r.sequence \in Nat

\* No tick is stored that the run in force, or one to come, has not reached.
TicksBehind ==
  \A key \in snapshots :
    /\ key[1] \in Nat /\ key[1] < now
    /\ service = "up" /\ key[1] = engineRun.id => key[2] <= engineRun.sequence

\* Before the first fault the line's run is in the database.
RunStored == faults = 0 /\ service = "up" => RunRow(engineRun) \in runs

TickerInv ==
  /\ now \in Nat \ {0} /\ faults \in Nat
  /\ IsRun(engineRun) /\ engineRun.id < now
  /\ \A key \in snapshots : key = <<key[1], key[2]>>
  /\ \A key \in snapshots : key[2] \in Nat
  /\ TicksBehind /\ RunStored /\ TickerOutlivesCommands

LEMMA TickerInitInv == ConfigInit => TickerInv
  BY DEF ConfigInit, TickerInv, IsRun, NoRun, TicksBehind, RunStored, TickerOutlivesCommands

LEMMA NewRunInv ==
  ASSUME TickerInv, NEW c
  PROVE  /\ IsRun(NewRun(c)) /\ NewRun(c).id = now /\ NewRun(c).sequence = 0
  BY DEF TickerInv, IsRun, NewRun

\* A new run has a number no stored tick belongs to.
LEMMA FreshRunKeeps ==
  ASSUME TickerInv, IsRun(engineRun'), engineRun'.id = now, now' = now + 1,
         faults' \in {faults, faults + 1}, snapshots' = snapshots,
         faults' = 0 /\ service' = "up" => RunRow(engineRun') \in runs',
         service' = "up" /\ ticker' = "dead" => faults' > 0
  PROVE  TickerInv'
<1>1. now \in Nat \ {0} /\ faults \in Nat
  BY DEF TickerInv
<1>2. TicksBehind'
  BY <1>1 DEF TickerInv, TicksBehind
<1> QED
  BY <1>1, <1>2 DEF TickerInv, RunStored, TickerOutlivesCommands

\* What changes neither the run nor the stored ticks.
LEMMA SameRunKeeps ==
  ASSUME TickerInv, UNCHANGED <<engineRun, runs, snapshots, now>>,
         faults' \in {faults, faults + 1}, service' = service, ticker' = ticker
  PROVE  TickerInv'
  BY DEF TickerInv, TicksBehind, RunStored, TickerOutlivesCommands

LEMMA TickerNextInv == TickerInv /\ [ConfigNext]_configVars => TickerInv'
<1> SUFFICES ASSUME TickerInv, [ConfigNext]_configVars PROVE TickerInv'
  OBVIOUS
<1>0. now \in Nat \ {0} /\ faults \in Nat /\ IsRun(engineRun) /\ engineRun.id < now
  BY DEF TickerInv
<1>1. CASE Boot
  BY <1>0, <1>1 DEF Boot, TickerInv, TicksBehind, RunStored, TickerOutlivesCommands
<1>2. CASE BootRun
  <2>1. /\ engineRun' = NewRun(active) /\ now' = now + 1 /\ RunRow(engineRun') \in runs'
        /\ ticker' = "alive" /\ snapshots' = snapshots /\ faults' = faults
    BY <1>2 DEF BootRun
  <2> QED
    BY <2>1, NewRunInv, FreshRunKeeps
<1>3. CASE Crash
  <2>1. /\ engineRun' = NoRun /\ now' = now /\ snapshots' = snapshots /\ service' = "down"
        /\ faults' = faults + 1
    BY <1>3 DEF Crash, configTables
  <2>2. IsRun(engineRun') /\ engineRun'.id = 0 /\ engineRun'.sequence = 0
    BY <2>1 DEF IsRun, NoRun
  <2> QED
    BY <1>0, <2>1, <2>2 DEF TickerInv, TicksBehind, RunStored, TickerOutlivesCommands
<1>4. ASSUME NEW c \in Uploads, Apply(c) PROVE TickerInv'
  <2>1. /\ engineRun' = NewRun(c) /\ now' = now + 1 /\ RunRow(engineRun') \in runs'
        /\ UNCHANGED <<service, ticker, snapshots, faults>>
    BY <1>4 DEF Apply
  <2>2. service = "up" /\ ticker = "dead" => faults > 0
    BY DEF TickerInv, TickerOutlivesCommands
  <2> QED
    BY <2>1, <2>2, NewRunInv, FreshRunKeeps
<1>5. ASSUME NEW c \in Uploads, RefuseApply(c) PROVE TickerInv'
  BY <1>5, SameRunKeeps DEF RefuseApply, configMemory
<1>6. ASSUME NEW c \in Uploads, ApplyFails(c) PROVE TickerInv'
  BY <1>6, SameRunKeeps DEF ApplyFails, StorageFails, configMemory
<1>7. CASE Start \/ Pause
  BY <1>7, SameRunKeeps DEF Start, Pause, configTables
<1>8. CASE Reset
  <2>1. /\ engineRun' = [engineRun EXCEPT !.id = now, !.sequence = 0] /\ now' = now + 1
        /\ UNCHANGED <<service, ticker, snapshots>>
        /\ \/ RunRow(engineRun') \in runs' /\ faults' = faults
           \/ faults' = faults + 1
    BY <1>8 DEF Reset, StorageFails
  <2>2. IsRun(engineRun') /\ engineRun'.id = now
    BY <1>0, <2>1 DEF IsRun
  <2>3. service = "up" /\ ticker = "dead" => faults > 0
    BY DEF TickerInv, TickerOutlivesCommands
  <2> QED
    BY <1>0, <2>1, <2>2, <2>3, FreshRunKeeps
<1>9. CASE Tick
  <2>1. /\ engineRun' = [engineRun EXCEPT !.sequence = @ + 1] /\ service = "up"
        /\ UNCHANGED <<service, runs, now>>
        /\ LET key == <<engineRun.id, engineRun.sequence + 1>>
           IN \/ /\ snapshots' = snapshots \cup {key} /\ UNCHANGED <<ticker, faults>>
              \/ /\ ~(RunRow(engineRun) \in runs /\ key \notin snapshots)
                 /\ ticker' = "dead" /\ UNCHANGED <<snapshots, faults>>
              \/ faults' = faults + 1 /\ UNCHANGED snapshots
    BY <1>9 DEF Tick, StorageFails
  <2>2. /\ IsRun(engineRun') /\ engineRun'.id = engineRun.id
        /\ engineRun'.sequence = engineRun.sequence + 1
    BY <1>0, <2>1 DEF IsRun
  <2>3. RunRow(engineRun') = RunRow(engineRun)
    BY <1>0, <2>1 DEF IsRun, RunRow
  <2>4. <<engineRun.id, engineRun.sequence + 1>> \notin snapshots
    <3>1. service = "up"
      BY <2>1
    <3>2. \A key \in snapshots : key[1] = engineRun.id => key[2] <= engineRun.sequence
      BY <3>1 DEF TickerInv, TicksBehind
    <3> QED
      BY <1>0, <3>2 DEF IsRun
  <2>5. faults = 0 => RunRow(engineRun) \in runs
    BY <2>1 DEF TickerInv, RunStored
  <2>6. service = "up" /\ ticker = "dead" => faults > 0
    BY DEF TickerInv, TickerOutlivesCommands
  <2>7. CASE snapshots' = snapshots /\ faults' = faults /\ ticker' = "dead" /\ RunRow(engineRun) \notin runs
    <3>1. faults > 0
      BY <1>0, <2>5, <2>7
    <3> QED
      BY <1>0, <2>1, <2>2, <2>3, <2>7, <3>1
      DEF TickerInv, TicksBehind, RunStored, TickerOutlivesCommands, IsRun
  <2>8. CASE snapshots' = snapshots /\ faults' = faults + 1
    BY <1>0, <2>1, <2>2, <2>3, <2>8
    DEF TickerInv, TicksBehind, RunStored, TickerOutlivesCommands, IsRun
  <2>9. CASE /\ snapshots' = snapshots \cup {<<engineRun.id, engineRun.sequence + 1>>}
             /\ UNCHANGED <<ticker, faults>>
    <3>1. TicksBehind'
      BY <1>0, <2>1, <2>2, <2>9 DEF TickerInv, TicksBehind, IsRun
    <3>2. \A key \in snapshots' : key = <<key[1], key[2]>> /\ key[2] \in Nat
      BY <1>0, <2>9 DEF TickerInv, IsRun
    <3>3. RunStored'
      BY <2>1, <2>3, <2>5, <2>9 DEF RunStored
    <3>4. TickerOutlivesCommands'
      BY <2>1, <2>6, <2>9 DEF TickerOutlivesCommands
    <3> QED
      BY <1>0, <2>1, <2>2, <2>9, <3>1, <3>2, <3>3, <3>4 DEF TickerInv
  <2> QED
    BY <2>1, <2>4, <2>7, <2>8, <2>9
<1>10. CASE UNCHANGED configVars
  BY <1>10, SameRunKeeps DEF configVars, configMemory, configTables
<1> QED
  BY <1>1, <1>2, <1>3, <1>4, <1>5, <1>6, <1>7, <1>8, <1>9, <1>10 DEF ConfigNext

LEMMA TickerInvariant == ConfigSpec => []TickerInv
  BY TickerInitInv, TickerNextInv, PTL DEF ConfigSpec

\* The ticker's thread dies of a failing database only, whatever is commanded.
THEOREM TickerCorrect == ConfigSpec => []TickerOutlivesCommands
  BY TickerInvariant, PTL DEF TickerInv

-----------------------------------------------------------------------------
(* The applied changes of the plant configuration.                         *)

\* What is not there yet is added once.
LEMMA AddingTwice ==
  ASSUME NEW found, NEW offered, NEW more, Adding(found, offered) \subseteq more
  PROVE  Adding(more, offered) = more
  BY DEF Adding

\* A configuration is expanded once: what expand adds is there the second time.
LEMMA ExpandTwice ==
  ASSUME NEW c, IsConfiguration(c)
  PROVE  /\ expand(expand(c)) = expand(c)
         /\ expand(c).source = c.source /\ expand(c).label = c.label
<1> DEFINE eqs(d) == [k \in DOMAIN d.equipment |->
                [d.equipment[k] EXCEPT !.signals = @ \cup Extra[Family(d.equipment[k])]]]
           staged(d) == {s \in Shipped :
             /\ \E e \in Working(eqs(d)) : s.cause \in Range(e.can)
             /\ s.id = <<"scrap_discharge">> => ScrapBranch(eqs(d), d.branches)}
           derived(d) == sensor_anomalies(eqs(d)) \cup symptom_scenarios(eqs(d))
           all(d) == Adding(Adding(d.scenarios, staged(d)), derived(d))
<1>1. \A d : expand(d) = [d EXCEPT !.equipment = eqs(d), !.scenarios = all(d)]
  BY DEF expand
<1> HIDE DEF staged, derived, all
<1>2. PICK q : q = expand(c)
  OBVIOUS
<1>3. q = [source |-> c.source, label |-> c.label, equipment |-> eqs(c), route |-> c.route,
           relations |-> c.relations, branches |-> c.branches, scenarios |-> all(c)]
  BY <1>1, <1>2 DEF IsConfiguration
<1>4. eqs(q) = eqs(c)
  <2>1. q.equipment = eqs(c) /\ DOMAIN q.equipment = DOMAIN c.equipment
    BY <1>3
  <2>2. ASSUME NEW k \in DOMAIN c.equipment PROVE eqs(q)[k] = eqs(c)[k]
    <3> DEFINE e == c.equipment[k]
               f == q.equipment[k]
               x == Extra[Family(e)]
    <3>1. e = [id |-> e.id, asset |-> e.asset, active |-> e.active, code |-> e.code,
               can |-> e.can, signals |-> e.signals, sound |-> e.sound]
      BY DEF IsConfiguration
    <3>2. f = [e EXCEPT !.signals = @ \cup x]
      BY <2>1
    <3>3. eqs(q)[k] = [f EXCEPT !.signals = @ \cup Extra[Family(f)]]
      BY <2>1
    <3> HIDE DEF e, f, x, eqs
    <3>4. f = [id |-> e.id, asset |-> e.asset, active |-> e.active, code |-> e.code,
               can |-> e.can, signals |-> e.signals \cup x, sound |-> e.sound]
      BY <3>1, <3>2
    <3>5. f.code = e.code /\ f.signals = e.signals \cup x
      BY <3>4
    <3>6. f.signals \cup Extra[Family(f)] = f.signals
      BY <3>5 DEF x, Family
    <3>7. [f EXCEPT !.signals = @ \cup Extra[Family(f)]] = f
      BY <3>4, <3>6
    <3>8. f = eqs(c)[k]
      BY <2>1 DEF f
    <3> QED
      BY <3>3, <3>7, <3>8
  <2>3. /\ eqs(q) = [k \in DOMAIN c.equipment |-> eqs(q)[k]]
        /\ eqs(c) = [k \in DOMAIN c.equipment |-> eqs(c)[k]]
    BY <2>1
  <2> QED
    BY <2>2, <2>3
<1>5. staged(q) = staged(c) /\ derived(q) = derived(c)
  <2>1. q.branches = c.branches
    BY <1>3
  <2> HIDE DEF eqs
  <2> QED
    BY <1>4, <2>1 DEF staged, derived
<1>6. q.scenarios = all(c)
  BY <1>3
<1>7. Adding(q.scenarios, staged(c)) = q.scenarios
  <2>1. Adding(c.scenarios, staged(c)) \subseteq q.scenarios
    BY <1>6 DEF all, Adding
  <2> QED
    BY <2>1, AddingTwice
<1>8. Adding(q.scenarios, derived(c)) = q.scenarios
  <2>1. Adding(Adding(c.scenarios, staged(c)), derived(c)) \subseteq q.scenarios
    BY <1>6 DEF all
  <2> QED
    BY <2>1, AddingTwice
<1>9. all(q) = q.scenarios
  BY <1>5, <1>7, <1>8 DEF all
<1>10. expand(q) = [q EXCEPT !.equipment = eqs(q), !.scenarios = all(q)]
  BY <1>1
<1>11. eqs(q) = q.equipment
  BY <1>3, <1>4
<1> HIDE DEF eqs
<1>12. expand(q) = q
  BY <1>3, <1>9, <1>10, <1>11
<1>13. q.source = c.source /\ q.label = c.label
  BY <1>3
<1> QED
  BY <1>2, <1>12, <1>13

\* A second restart resumes what the first did.
LEMMA ResumedTwice ==
  ASSUME NEW c \in Uploads
  PROVE  Resumed(Resumed(c)) = Resumed(c)
<1>1. IsConfiguration(c)
  BY ConfigAssumption
<1> QED
  BY <1>1, ExpandTwice DEF Resumed

\* What the last applied change left, as it stands or expanded since.
FromLast == {Last(Applied).new, Resumed(Last(Applied).new)}

\* The runs go forward in time, the line's configuration is a stored one, and
\* the newest runs that can be resumed belong to the last applied change.
AppliedInv ==
  /\ IsList(changes) /\ now \in Nat
  /\ \A r \in runs : r.started \in Nat /\ r.started < now
  /\ engineRun.started \in Nat /\ engineRun.started < now
  /\ service # "down" => active \in kept
  /\ service = "up" => engineRun.config = active
  /\ Applied # <<>> =>
       /\ Last(Applied).new \in Uploads
       /\ Resumable # {} /\ \A r \in Newest : r.config \in FromLast
  /\ AppliedChangesChain

\* A row changes the list of applied changes when it records one.
LEMMA AppliedGrows ==
  ASSUME IsList(changes), NEW row, changes' = Append(changes, row)
  PROVE  /\ IsList(changes') /\ IsList(Applied)
         /\ row.status = "applied" => Applied' = Append(Applied, row)
         /\ row.status # "applied" => Applied' = Applied
<1>1. PICK n \in Nat : DOMAIN changes = 1..n /\ changes = [j \in 1..n |-> changes[j]]
  BY DEF IsList
<1>2. PICK S : S = {changes[j] : j \in 1..n} \cup {row}
  OBVIOUS
<1>3. changes \in Seq(S) /\ row \in S /\ Len(changes) = n
  BY <1>1, <1>2
<1> DEFINE I == {k \in DOMAIN changes : changes[k].status = "applied"}
           J == {k \in DOMAIN changes' : changes'[k].status = "applied"}
<1>4. PICK t : t = Append(changes, row)
  OBVIOUS
<1>5. /\ DOMAIN t = 1..(n + 1) /\ t[n + 1] = row
      /\ \A k \in 1..n : t[k] = changes[k]
  BY <1>3, <1>4
<1>6. /\ row.status = "applied" => J = I \cup {n + 1}
      /\ row.status # "applied" => J = I
  BY <1>1, <1>4, <1>5
<1>7. I \in SUBSET DOMAIN changes
  OBVIOUS
<1>8. Applied = Selected(changes, I) /\ Applied' = Selected(t, J)
  BY <1>4 DEF Applied
<1> HIDE DEF I, J
<1>9. /\ Selected(t, I) = Selected(changes, I)
      /\ Selected(t, I \cup {n + 1}) = Append(Selected(changes, I), row)
  <2>1. /\ Selected(Append(changes, row), I) = Selected(changes, I)
        /\ Selected(Append(changes, row), I \cup {Len(changes) + 1})
             = Append(Selected(changes, I), row)
    BY <1>3, <1>7, SelectedAppend
  <2>2. n + 1 = Len(changes) + 1
    BY <1>3
  <2> QED
    BY <1>4, <2>1, <2>2, Zenon
<1>10. IsList(Applied)
  <2>1. Cardinality(I) \in Nat
    BY <1>1, <1>7, FiniteNumbers
  <2> QED
    BY <1>8, <2>1 DEF Selected, IsList
<1>11. IsList(changes')
  BY AppendList
<1> QED
  BY <1>6, <1>8, <1>9, <1>10, <1>11

\* The rows that do not record a change leave what is known of them.
LEMMA OtherRowKeeps ==
  ASSUME AppliedInv, NEW row, row.status # "applied", changes' = Append(changes, row),
         UNCHANGED <<service, active, engineRun, runs, kept, now>>
  PROVE  AppliedInv'
<1>1. IsList(changes') /\ Applied' = Applied
  BY AppliedGrows DEF AppliedInv
<1>2. Resumable' = Resumable /\ Newest' = Newest /\ FromLast' = FromLast
  BY <1>1 DEF Resumable, Newest, FromLast
<1>3. AppliedChangesChain'
  BY <1>1 DEF AppliedInv, AppliedChangesChain
<1> QED
  BY <1>1, <1>2, <1>3 DEF AppliedInv

\* A run under the active configuration is stored, or nothing is.
LEMMA ActiveRunKeeps ==
  ASSUME AppliedInv, service # "down", service' = "up", active' = active, kept' = kept,
         changes' = changes, now' = now + 1,
         engineRun'.config = active, engineRun'.started \in {engineRun.started, now},
         runs' \in {runs, runs \cup {RunRow(engineRun')}}
  PROVE  AppliedInv'
<1> DEFINE r == RunRow(engineRun')
<1>1. r.config = active /\ r.started = engineRun'.started
  BY DEF RunRow
<1>2. now \in Nat /\ engineRun.started \in Nat /\ engineRun.started < now /\ active \in kept
  BY DEF AppliedInv
<1>3. engineRun'.started \in Nat /\ engineRun'.started < now'
  BY <1>2
<1> HIDE DEF r
<1>4. \A s \in runs' : s.started \in Nat /\ s.started < now'
  <2> TAKE s \in runs'
  <2>1. CASE s \in runs
    <3>1. s.started \in Nat /\ s.started < now
      BY <2>1 DEF AppliedInv
    <3> QED
      BY <1>2, <3>1
  <2>2. CASE s = r
    BY <1>1, <1>3, <2>2
  <2> QED
    BY <2>1, <2>2 DEF r
<1>5. Applied' = Applied /\ FromLast' = FromLast
  BY DEF Applied, FromLast
<1>6. Resumable \subseteq Resumable' /\ Resumable' \subseteq Resumable \cup {r}
  BY DEF Resumable, r
<1>7. Applied # <<>> => active \in FromLast
  BY DEF AppliedInv, AppliedChangesChain, FromLast
<1>8. ASSUME Applied # <<>>, NEW s \in Newest' PROVE s.config \in FromLast
  <2>1. s \in Resumable' /\ \A q \in Resumable : q.started <= s.started
    BY <1>6 DEF Newest
  <2>2. CASE s = r
    BY <1>1, <1>7, <1>8, <2>2
  <2>3. CASE s \in Resumable
    BY <1>8, <2>1, <2>3 DEF Newest, AppliedInv
  <2> QED
    BY <1>6, <2>1, <2>2, <2>3
<1>9. Applied # <<>> => Resumable' # {} /\ Last(Applied).new \in Uploads
  BY <1>6 DEF AppliedInv
<1>10. AppliedChangesChain'
  BY <1>5, <1>7 DEF AppliedInv, AppliedChangesChain, FromLast
<1>11. (Applied # <<>> => /\ Last(Applied).new \in Uploads
                          /\ Resumable # {} /\ \A s \in Newest : s.config \in FromLast)'
  BY <1>5, <1>8, <1>9
<1>12. IsList(changes') /\ now' \in Nat
  BY <1>2 DEF AppliedInv
<1> QED
  BY <1>2, <1>3, <1>4, <1>10, <1>11, <1>12 DEF AppliedInv

\* What touches neither the configuration nor the runs.
LEMMA OtherStepKeeps ==
  ASSUME AppliedInv, UNCHANGED <<service, active, changes, runs, kept, now>>,
         engineRun'.config = engineRun.config, engineRun'.started = engineRun.started
  PROVE  AppliedInv'
<1>1. Resumable' = Resumable /\ Newest' = Newest /\ FromLast' = FromLast /\ Applied' = Applied
  BY DEF Resumable, Newest, FromLast, Applied
<1>2. AppliedChangesChain'
  BY <1>1 DEF AppliedInv, AppliedChangesChain
<1> QED
  BY <1>1, <1>2 DEF AppliedInv

\* After an applied change its run is the only newest one.
LEMMA ApplyKeeps ==
  ASSUME AppliedInv, NEW c \in Uploads, Apply(c)
  PROVE  AppliedInv'
<1> DEFINE row == Change(active, c, "applied")
           r == RunRow(engineRun')
<1>1. /\ service = "up" /\ service' = service /\ active' = c /\ now' = now + 1
      /\ kept' = kept \cup {c} /\ runs' = runs \cup {r} /\ changes' = Append(changes, row)
      /\ engineRun' = NewRun(c)
  BY DEF Apply, MayApply
<1>2. /\ engineRun'.config = c /\ engineRun'.started = now /\ r.config = c /\ r.started = now
      /\ row.status = "applied" /\ row.base = active /\ row.new = c
  BY <1>1 DEF NewRun, RunRow, Change
<1> HIDE DEF row, r
<1>3. now \in Nat /\ now' \in Nat /\ now < now'
  BY <1>1 DEF AppliedInv
<1>4. /\ IsList(changes') /\ IsList(Applied) /\ Applied' = Append(Applied, row)
  BY <1>1, <1>2, AppliedGrows DEF AppliedInv
<1>5. PICK old : old = Applied
  OBVIOUS
<1>6. PICK new : new = Append(old, row)
  OBVIOUS
<1>7. /\ DOMAIN old = 1..Len(old) /\ Len(old) \in Nat /\ DOMAIN new = 1..(Len(old) + 1)
      /\ \A j \in 1..Len(old) : new[j] = old[j]
      /\ new[Len(old) + 1] = row /\ IsList(new)
  BY <1>4, <1>5, <1>6, AppendList
<1>8. Len(new) = Len(old) + 1
  <2>1. PICK n \in Nat : DOMAIN new = 1..n /\ new = [j \in 1..n |-> new[j]]
    BY <1>7 DEF IsList
  <2>2. Len(new) = n
    BY <2>1
  <2>3. 1..n = 1..(Len(old) + 1)
    BY <1>7, <2>1
  <2> QED
    BY <1>7, <2>2, <2>3
<1>9. Last(new) = row /\ new # <<>>
  BY <1>7, <1>8 DEF Last
<1>10. \A s \in runs' : s.started \in Nat /\ s.started < now'
  <2> TAKE s \in runs'
  <2>1. CASE s \in runs
    <3>1. s.started \in Nat /\ s.started < now
      BY <2>1 DEF AppliedInv
    <3> QED
      BY <1>3, <3>1
  <2>2. CASE s = r
    BY <1>2, <1>3, <2>2
  <2> QED
    BY <1>1, <2>1, <2>2
<1>11. r \in Resumable'
  BY <1>1, <1>2 DEF Resumable
<1>12. \A s \in Newest' : s = r
  <2> TAKE s \in Newest'
  <2>1. s \in runs' /\ r.started <= s.started
    BY <1>11 DEF Newest, Resumable
  <2>2. CASE s \in runs
    <3>1. s.started \in Nat /\ s.started < now
      BY <2>2 DEF AppliedInv
    <3> QED
      BY <1>2, <1>3, <2>1, <3>1
  <2> QED
    BY <1>1, <2>1, <2>2
<1>13. FromLast' = {c, Resumed(c)}
  BY <1>2, <1>4, <1>5, <1>6, <1>9 DEF FromLast
<1>14. \A k \in 1..(Len(new) - 1) : new[k + 1].base \in {new[k].new, Resumed(new[k].new)}
  <2> TAKE k \in 1..(Len(new) - 1)
  <2>1. k \in 1..Len(old) /\ new[k] = old[k] /\ k + 1 \in 1..(Len(old) + 1)
    BY <1>7, <1>8
  <2>2. CASE k = Len(old)
    <3>1. Last(old) = old[k] /\ old # <<>>
      BY <1>7, <2>1, <2>2 DEF Last
    <3>2. active \in {old[k].new, Resumed(old[k].new)}
      BY <1>1, <1>5, <3>1 DEF AppliedInv, AppliedChangesChain
    <3>3. new[k + 1] = row
      BY <1>7, <2>2
    <3> QED
      BY <1>2, <2>1, <3>2, <3>3
  <2>3. CASE k # Len(old)
    <3>1. k \in 1..(Len(old) - 1) /\ k + 1 \in 1..Len(old)
      <4>1. Len(old) \in Nat /\ k \in 1..Len(old)
        BY <1>7, <2>1
      <4> QED
        BY <4>1, <2>3
    <3>2. new[k + 1] = old[k + 1]
      BY <1>7, <3>1
    <3>3. old[k + 1].base \in {old[k].new, Resumed(old[k].new)}
      BY <1>5, <3>1 DEF AppliedInv, AppliedChangesChain
    <3> QED
      BY <2>1, <3>2, <3>3
  <2> QED
    BY <2>2, <2>3
<1>15. Applied' = new
  BY <1>4, <1>5, <1>6
<1>16. AppliedChangesChain'
  BY <1>1, <1>2, <1>9, <1>14, <1>15 DEF AppliedChangesChain
<1>17. (Applied # <<>> => /\ Last(Applied).new \in Uploads
                          /\ Resumable # {} /\ \A s \in Newest : s.config \in FromLast)'
  BY <1>2, <1>9, <1>11, <1>12, <1>13, <1>15
<1>18. /\ engineRun'.started \in Nat /\ engineRun'.started < now'
       /\ service' # "down" => active' \in kept'
       /\ service' = "up" => engineRun'.config = active'
  BY <1>1, <1>2, <1>3
<1> QED
  BY <1>3, <1>4, <1>10, <1>16, <1>17, <1>18 DEF AppliedInv

\* A restart takes up a newest run, whose configuration is the last applied.
LEMMA BootKeeps ==
  ASSUME AppliedInv, Boot
  PROVE  AppliedInv'
<1>1. /\ service' = "booting" /\ kept' = kept \cup {active'}
      /\ UNCHANGED <<engineRun, runs, changes, now>>
  BY DEF Boot
<1>2. Applied' = Applied /\ FromLast' = FromLast
  BY <1>1 DEF Applied, FromLast
<1>3. Resumable \subseteq Resumable'
      /\ \A s \in Resumable' : s \in Resumable \/ s.config = active'
  BY <1>1 DEF Resumable
<1>4. Applied # <<>> => active' \in FromLast
  <2> SUFFICES ASSUME Applied # <<>> PROVE active' \in FromLast
    OBVIOUS
  <2>1. Last(Applied).new \in Uploads /\ Resumable # {} /\ \A s \in Newest : s.config \in FromLast
    BY DEF AppliedInv
  <2>2. PICK s \in Newest : active' = Resumed(s.config)
    BY <2>1 DEF Boot
  <2>3. Resumed(Resumed(Last(Applied).new)) = Resumed(Last(Applied).new)
    BY <2>1, ResumedTwice
  <2>4. s.config \in FromLast
    BY <2>1
  <2> QED
    BY <2>2, <2>3, <2>4 DEF FromLast
<1>5. ASSUME Applied # <<>>, NEW s \in Newest' PROVE s.config \in FromLast
  <2>1. s \in Resumable' /\ \A q \in Resumable : q.started <= s.started
    BY <1>3 DEF Newest
  <2>2. CASE s \in Resumable
    BY <1>5, <2>1, <2>2 DEF Newest, AppliedInv
  <2> QED
    BY <1>3, <1>4, <1>5, <2>1, <2>2
<1>6. (Applied # <<>> => /\ Last(Applied).new \in Uploads
                         /\ Resumable # {} /\ \A s \in Newest : s.config \in FromLast)'
  BY <1>2, <1>3, <1>5 DEF AppliedInv
<1>7. AppliedChangesChain'
  BY <1>2, <1>4 DEF AppliedInv, AppliedChangesChain, FromLast
<1>8. active' \in kept' /\ service' # "up"
  BY <1>1
<1> QED
  BY <1>1, <1>6, <1>7, <1>8 DEF AppliedInv

LEMMA AppliedNextInv ==
  AppliedInv /\ TickerInv /\ [ConfigNext]_configVars => AppliedInv'
<1> SUFFICES ASSUME AppliedInv, TickerInv, [ConfigNext]_configVars PROVE AppliedInv'
  OBVIOUS
<1>0. IsRun(engineRun) /\ now \in Nat
  BY DEF TickerInv
<1>1. CASE Boot
  BY <1>1, BootKeeps
<1>2. CASE BootRun
  <2>1. /\ service = "booting" /\ service' = "up" /\ now' = now + 1
        /\ engineRun' = NewRun(active) /\ runs' = runs \cup {RunRow(engineRun')}
        /\ UNCHANGED <<active, kept, changes>>
    BY <1>2 DEF BootRun
  <2>2. engineRun'.config = active /\ engineRun'.started = now
    BY <2>1 DEF NewRun
  <2> QED
    BY <2>1, <2>2, ActiveRunKeeps
<1>3. CASE Crash
  <2>1. /\ service' = "down" /\ engineRun' = NoRun /\ UNCHANGED <<runs, kept, changes, now>>
    BY <1>3 DEF Crash, configTables
  <2>2. Resumable' = Resumable /\ Newest' = Newest /\ FromLast' = FromLast /\ Applied' = Applied
    BY <2>1 DEF Resumable, Newest, FromLast, Applied
  <2>3. engineRun'.started = 0
    BY <2>1 DEF NoRun
  <2>4. now \in Nat /\ 0 < now
    BY DEF TickerInv
  <2>5. AppliedChangesChain'
    BY <2>1, <2>2 DEF AppliedInv, AppliedChangesChain
  <2> QED
    BY <2>1, <2>2, <2>3, <2>4, <2>5 DEF AppliedInv
<1>4. ASSUME NEW c \in Uploads, Apply(c) PROVE AppliedInv'
  BY <1>4, ApplyKeeps
<1>5. ASSUME NEW c \in Uploads, RefuseApply(c) PROVE AppliedInv'
  <2>1. \E row : row.status = "rejected" /\ changes' = Append(changes, row)
    <3>1. PICK row : /\ row = [base |-> active, new |-> c, status |-> "rejected",
                               diff |-> diff(active, active)]
                     /\ changes' = Append(changes, row)
      BY <1>5 DEF RefuseApply
    <3>2. row.status = "rejected"
      BY <3>1
    <3> QED
      BY <3>1, <3>2
  <2> QED
    BY <1>5, <2>1, OtherRowKeeps DEF RefuseApply, configMemory
<1>6. ASSUME NEW c \in Uploads, ApplyFails(c) PROVE AppliedInv'
  <2>1. UNCHANGED <<service, active, engineRun, runs, kept, now>>
    BY <1>6 DEF ApplyFails, configMemory
  <2>2. CASE changes' = changes
    BY <2>1, <2>2, OtherStepKeeps
  <2>3. CASE changes' = Append(changes, Change(active, c, "failed"))
    <3>1. Change(active, c, "failed").status = "failed"
      BY DEF Change
    <3> QED
      BY <2>1, <2>3, <3>1, OtherRowKeeps
  <2> QED
    BY <1>6, <2>2, <2>3 DEF ApplyFails
<1>7. CASE Start \/ Pause
  BY <1>7, OtherStepKeeps DEF Start, Pause, configTables
<1>8. CASE Reset
  <2>1. /\ service = "up" /\ service' = service /\ now' = now + 1
        /\ engineRun' = [engineRun EXCEPT !.id = now, !.sequence = 0]
        /\ runs' \in {runs, runs \cup {RunRow(engineRun')}}
        /\ UNCHANGED <<active, kept, changes>>
    BY <1>8 DEF Reset
  <2>2. engineRun'.config = active /\ engineRun'.started = engineRun.started
    BY <1>0, <2>1 DEF IsRun, AppliedInv
  <2> QED
    BY <2>1, <2>2, ActiveRunKeeps
<1>9. CASE Tick
  <2>1. /\ engineRun' = [engineRun EXCEPT !.sequence = @ + 1]
        /\ UNCHANGED <<service, active, changes, runs, kept, now>>
    BY <1>9 DEF Tick
  <2>2. engineRun'.config = engineRun.config /\ engineRun'.started = engineRun.started
    BY <1>0, <2>1 DEF IsRun
  <2> QED
    BY <2>1, <2>2, OtherStepKeeps
<1>10. CASE UNCHANGED configVars
  BY <1>10, OtherStepKeeps DEF configVars, configMemory, configTables
<1> QED
  BY <1>1, <1>2, <1>3, <1>4, <1>5, <1>6, <1>7, <1>8, <1>9, <1>10 DEF ConfigNext

LEMMA AppliedInitInv == ConfigInit => AppliedInv
<1> SUFFICES ASSUME ConfigInit PROVE AppliedInv
  OBVIOUS
<1>1. changes = <<>> /\ now = 1 /\ service = "down" /\ engineRun.started = 0
  BY DEF ConfigInit, NoRun
<1>2. \A r \in runs : r.started = 0
  <2>1. \A x : [RunRow(NoRun) EXCEPT !.config = x].started = 0
    BY DEF RunRow, NoRun
  <2>2. RunRow(NoRun).started = 0
    BY DEF RunRow, NoRun
  <2> QED
    BY <2>1, <2>2 DEF ConfigInit
<1>3. Applied = <<>> /\ IsList(changes)
  <2>1. DOMAIN changes = 1..0 /\ changes = [j \in 1..0 |-> changes[j]]
    BY <1>1
  <2>2. {k \in DOMAIN changes : changes[k].status = "applied"} = {}
    BY <1>1
  <2>3. Applied = [k \in 1..0 |-> changes[Nth({}, k)]]
    BY <2>2, FS_EmptySet DEF Applied, Selected
  <2>4. Applied = <<>>
    BY <2>3
  <2>5. 0 \in Nat
    OBVIOUS
  <2> QED
    BY <2>1, <2>4, <2>5 DEF IsList
<1>4. AppliedChangesChain
  BY <1>1, <1>3 DEF AppliedChangesChain
<1>5. now \in Nat /\ engineRun.started \in Nat /\ engineRun.started < now
  BY <1>1
<1> QED
  BY <1>1, <1>2, <1>3, <1>4, <1>5 DEF AppliedInv

\* Across restarts, crashes, resets and failed attempts the applied changes
\* lead from each configuration to the next, and to the active one.
THEOREM AppliedCorrect == ConfigSpec => []AppliedChangesChain
<1>1. AppliedInv => AppliedChangesChain
  BY DEF AppliedInv
<1> QED
  BY <1>1, AppliedInitInv, AppliedNextInv, TickerInvariant, PTL DEF ConfigSpec

-----------------------------------------------------------------------------
(* The active configuration is one that validate accepts.                  *)

LEMMA EarliestIs ==
  ASSUME NEW n \in Nat, NEW I \in SUBSET (1..n), I # {}
  PROVE  Earliest(I) \in I
<1>1. I \in SUBSET Nat
  OBVIOUS
<1>2. \E k \in I : \A j \in I : k <= j
  BY <1>1, LeastNumber
<1> QED
  BY <1>2 DEF Earliest

\* A route along the flows of a catalog that takes a machine once.
Runs(cat, route) ==
  /\ route \in Seq({e.id : e \in Range(cat.equipment)})
  /\ \A j, k \in DOMAIN route : route[j] = route[k] => j = k
  /\ \A k \in 1..(Len(route) - 1) :
       \E f \in Flows(cat) : f.machines /\ f.from = route[k] /\ f.to = route[k + 1]

LEMMA RouteIs ==
  ASSUME NEW cat, IsCatalog(cat)
  PROVE  Runs(cat, _compute_material_route(cat))
<1> DEFINE rels == cat.relations
           X == {e.id : e \in Range(cat.equipment)}
           flows == {k \in DOMAIN rels : rels[k].type = "material_flow"}
           sources == {k \in flows : \A j \in flows : rels[k].from # rels[j].to}
           first == Earliest(IF sources = {} THEN flows ELSE sources)
           onward(s) == {k \in flows : rels[k].from = Last(s) /\ rels[k].to \notin Range(s)}
           best(s) == {k \in onward(s) : \A j \in onward(s) : rels[j].capacity <= rels[k].capacity}
           step(s) == IF onward(s) = {} THEN s ELSE Append(s, rels[Earliest(best(s))].to)
           upto(g, l) == g = [n \in 0..l |-> IF n = 0 THEN <<rels[first].from>> ELSE step(g[n - 1])]
           N == Cardinality(flows)
<1>1. rels \in Seq(Range(rels)) /\ DOMAIN rels = 1..Len(rels) /\ Len(rels) \in Nat
  BY DEF IsCatalog
<1>2. flows \in SUBSET (1..Len(rels)) /\ N \in Nat
  <2>1. flows \in SUBSET (1..Len(rels))
    BY <1>1
  <2> HIDE DEF flows
  <2> QED
    BY <1>1, <2>1, FiniteNumbers
<1>3. ASSUME NEW k \in flows
      PROVE  /\ rels[k] \in Flows(cat) /\ rels[k].machines /\ rels[k].capacity \in Nat
             /\ rels[k].from \in X /\ rels[k].to \in X
  <2>1. rels[k] \in Range(rels) /\ rels[k].type = "material_flow"
    BY DEF Range
  <2> QED
    BY <2>1 DEF IsCatalog, Flows
<1>4. flows # {}
  <2>1. PICK f \in Range(rels) : f.type = "material_flow"
    BY DEF IsCatalog
  <2>2. PICK k \in DOMAIN rels : rels[k] = f
    BY DEF Range
  <2> QED
    BY <2>1, <2>2
<1>5. CASE flows # {}
  <2> HIDE DEF flows
  <2>1. first \in flows
    <3>1. PICK I : I = IF sources = {} THEN flows ELSE sources
      OBVIOUS
    <3>2. I \in SUBSET flows /\ I # {}
      BY <1>5, <3>1
    <3>3. I \in SUBSET (1..Len(rels))
      BY <1>2, <3>2
    <3> QED
      BY <1>1, <3>1, <3>2, <3>3, EarliestIs
  <2>2. ASSUME NEW s \in Seq(X), s # <<>>, Runs(cat, s)
        PROVE  step(s) \in Seq(X) /\ step(s) # <<>> /\ Runs(cat, step(s))
    <3>1. CASE onward(s) = {}
      BY <2>2, <3>1
    <3>2. CASE onward(s) # {}
      <4>1. onward(s) \in SUBSET flows /\ onward(s) \in SUBSET (1..Len(rels))
        BY <1>2
      <4>2. PICK I : I = onward(s)
        OBVIOUS
      <4>3. PICK cap : cap = [k \in I |-> rels[k].capacity]
        OBVIOUS
      <4>4. \A k \in I : cap[k] \in Nat /\ cap[k] = rels[k].capacity
        BY <1>3, <4>1, <4>2, <4>3
      <4>5. \E k \in I : \A j \in I : cap[j] <= cap[k]
        BY <1>1, <3>2, <4>1, <4>2, <4>4, GreatestNumber
      <4>6. best(s) # {} /\ best(s) \in SUBSET onward(s)
        BY <4>2, <4>4, <4>5
      <4>7. PICK b : b = Earliest(best(s))
        OBVIOUS
      <4>8. best(s) \in SUBSET (1..Len(rels))
        BY <4>1, <4>6
      <4>9. b \in onward(s)
        BY <1>1, <4>6, <4>7, <4>8, EarliestIs
      <4>10. b \in flows /\ rels[b].from = Last(s)
        BY <4>9
      <4>11. PICK t : t = Append(s, rels[b].to)
        OBVIOUS
      <4>12. step(s) = t
        BY <3>2, <4>7, <4>11
      <4>13. PICK n \in Nat : n = Len(s) /\ n # 0
        BY <2>2
      <4>14. /\ t \in Seq(X) /\ Len(t) = n + 1 /\ t[n + 1] = rels[b].to /\ t[n] = s[n]
             /\ \A k \in 1..n : t[k] = s[k]
        BY <1>3, <4>10, <4>11, <4>13
      <4>15. rels[b].from = t[n]
        BY <4>10, <4>13, <4>14 DEF Last
      <4>16. ASSUME NEW k \in 1..(Len(t) - 1)
             PROVE  \E f \in Flows(cat) : f.machines /\ f.from = t[k] /\ f.to = t[k + 1]
        <5>1. CASE k = n
          BY <1>3, <4>10, <4>14, <4>15, <5>1
        <5>2. CASE k \in 1..(n - 1)
          <6>1. t[k] = s[k] /\ t[k + 1] = s[k + 1]
            BY <4>14, <5>2
          <6> QED
            BY <2>2, <4>13, <5>2, <6>1 DEF Runs
        <5>3. k = n \/ k \in 1..(n - 1)
          BY <4>14
        <5> QED
          BY <5>1, <5>2, <5>3
      <4>17. t # <<>>
        BY <4>14
      <4>18. ASSUME NEW j \in DOMAIN t, NEW k \in DOMAIN t, t[j] = t[k] PROVE j = k
        <5>1. /\ DOMAIN t = 1..(n + 1) /\ DOMAIN s = 1..n
              /\ \A i \in 1..n : t[i] = s[i] /\ s[i] # rels[b].to
          <6>1. DOMAIN s = 1..n /\ DOMAIN t = 1..(n + 1)
            BY <4>13, <4>14
          <6>2. rels[b].to \notin Range(s)
            BY <4>9
          <6> QED
            BY <4>14, <6>1, <6>2 DEF Range
        <5>2. \A i, l \in 1..n : s[i] = s[l] => i = l
          BY <2>2, <5>1 DEF Runs
        <5> QED
          BY <4>14, <4>18, <5>1, <5>2
      <4> HIDE DEF X
      <4>19. Runs(cat, t)
        BY <4>14, <4>16, <4>18 DEF Runs, X
      <4> QED
        BY <4>12, <4>14, <4>17, <4>19
    <3> QED
      BY <3>1, <3>2
  <2> DEFINE good(s) == s \in Seq(X) /\ s # <<>> /\ Runs(cat, s)
  <2>3. good(<<rels[first].from>>)
    <3>1. PICK x \in X : x = rels[first].from
      BY <1>3, <2>1
    <3>2. <<x>> \in Seq(X) /\ <<x>> # <<>> /\ Len(<<x>>) = 1
      OBVIOUS
    <3>3. \A k \in 1..(Len(<<x>>) - 1) : FALSE
      BY <3>2
    <3>4. \A j, k \in DOMAIN <<x>> : j = k
      OBVIOUS
    <3> HIDE DEF X
    <3> QED
      BY <3>1, <3>2, <3>3, <3>4 DEF Runs, X
  <2>4. \A s : good(s) => good(step(s))
    BY <2>2
  <2> HIDE DEF step, good
  <2> DEFINE start == <<rels[first].from>>
  <2> HIDE DEF first
  <2> DEFINE S == {l \in Nat : \E g : upto(g, l) /\ \A n \in 0..l : good(g[n])}
  <2>5. 0 \in S
    <3>1. PICK g : g = [n \in 0..0 |-> start]
      OBVIOUS
    <3>2. \A n \in 0..0 : n = 0 /\ g[n] = start
      BY <3>1
    <3>3. upto(g, 0)
      BY <3>1
    <3> QED
      BY <2>3, <3>2, <3>3
  <2>6. ASSUME NEW l \in Nat, l \in S PROVE l + 1 \in S
    <3>1. PICK g : upto(g, l) /\ \A n \in 0..l : good(g[n])
      BY <2>6
    <3> DEFINE h == [n \in 0..(l + 1) |-> IF n \in 0..l THEN g[n] ELSE step(g[l])]
    <3>2. ASSUME NEW n \in 0..(l + 1)
          PROVE  h[n] = (IF n = 0 THEN start ELSE step(h[n - 1])) /\ good(h[n])
      <4>1. CASE n = 0
        BY <3>1, <4>1
      <4>2. CASE n \in 1..l
        <5>1. n \in 0..l /\ n - 1 \in 0..l /\ n # 0 /\ n - 1 \in 0..(l + 1)
          BY <4>2
        <5>2. h[n] = g[n] /\ h[n - 1] = g[n - 1]
          BY <5>1
        <5>3. g[n] = step(g[n - 1]) /\ good(g[n])
          BY <3>1, <5>1
        <5> QED
          BY <5>1, <5>2, <5>3
      <4>3. CASE n = l + 1
        <5>1. n \notin 0..l /\ l \in 0..l /\ n - 1 = l /\ n # 0 /\ l \in 0..(l + 1)
          BY <4>3
        <5>2. h[n] = step(g[l]) /\ h[l] = g[l]
          BY <4>3, <5>1
        <5>3. good(step(g[l]))
          BY <2>4, <3>1, <5>1
        <5> QED
          BY <4>3, <5>1, <5>2, <5>3
      <4> QED
        BY <4>1, <4>2, <4>3
    <3>3. h = [n \in 0..(l + 1) |-> h[n]]
      OBVIOUS
    <3> HIDE DEF h
    <3>4. upto(h, l + 1) /\ \A n \in 0..(l + 1) : good(h[n])
      BY <3>2, <3>3
    <3>5. l + 1 \in Nat
      OBVIOUS
    <3> HIDE DEF upto
    <3> QED
      BY <3>4, <3>5
  <2>7. PICK g : upto(g, N) /\ \A n \in 0..N : good(g[n])
    <3> HIDE DEF S
    <3>1. Nat \subseteq S
      BY <2>5, <2>6, ByInduction
    <3> QED
      BY <1>2, <3>1 DEF S
  <2> DEFINE route == CHOOSE f : upto(f, N)
  <2>8. upto(route, N)
    BY <2>7
  <2>9. _compute_material_route(cat) = route[N]
    BY <1>5 DEF _compute_material_route, flows, first, step
  <2> HIDE DEF route
  <2> DEFINE T == {n \in Nat : n <= N => good(route[n])}
  <2>10. 0 \in T
    <3>1. 0 \in 0..N
      BY <1>2
    <3>2. route[0] = start
      BY <2>8, <3>1
    <3> QED
      BY <2>3, <3>2
  <2>11. ASSUME NEW n \in Nat, n \in T PROVE n + 1 \in T
    <3> SUFFICES ASSUME n + 1 <= N PROVE good(route[n + 1])
      OBVIOUS
    <3>1. n + 1 \in 0..N /\ n + 1 # 0 /\ (n + 1) - 1 = n /\ n <= N
      BY <1>2
    <3>2. route[n + 1] = step(route[n])
      BY <2>8, <3>1
    <3> QED
      BY <2>4, <2>11, <3>1, <3>2
  <2>12. good(route[N])
    <3> HIDE DEF T
    <3>1. Nat \subseteq T
      BY <2>10, <2>11, ByInduction
    <3> QED
      BY <1>2, <3>1 DEF T
  <2> QED
    BY <2>9, <2>12 DEF good
<1> QED
  BY <1>4, <1>5

\* Effects in units of their own are in those of the machine they act on.
AllBoolean(c) == \A s \in c.scenarios : BooleanEffects(s)

LEMMA InUnits ==
  ASSUME NEW c, NEW s, BooleanEffects(s)
  PROVE  EffectsInUnits(c, s)
BY DEF BooleanEffects, EffectsInUnits

LEMMA BaselineIs ==
  ASSUME NEW cat \in Catalogs
  PROVE  IsConfiguration(Baseline(cat)) /\ Valid(Baseline(cat)) /\ AllBoolean(Baseline(cat))
<1> DEFINE X == {e.id : e \in Range(cat.equipment)}
           route == _compute_material_route(cat)
           between == {f \in Range(cat.relations) : f.machines}
           aside == Branches(cat, route)
           eqs == [k \in DOMAIN cat.equipment |->
             [id |-> cat.equipment[k].id, asset |-> <<cat.equipment[k].id, 1>>, active |-> TRUE,
              code |-> cat.equipment[k].code, can |-> cat.equipment[k].can,
              signals |-> cat.equipment[k].signals, sound |-> TRUE]]
<1>1. IsCatalog(cat) /\ AreUnbound(BuiltIn)
  BY ConfigAssumption
<1>2. PICK b : b = Baseline(cat)
  OBVIOUS
<1>3. b = [source |-> "catalog", label |-> "baseline", equipment |-> eqs, route |-> route,
           relations |-> between \ aside, branches |-> aside, scenarios |-> BuiltIn]
  BY <1>2 DEF Baseline
<1>4. /\ b.equipment = eqs /\ b.route = route /\ b.relations = between \ aside
      /\ b.branches = aside /\ b.scenarios = BuiltIn
  BY <1>3
<1>5. \A k \in DOMAIN cat.equipment : cat.equipment[k] \in Range(cat.equipment)
  BY DEF Range
<1>6. \A k \in DOMAIN cat.equipment : cat.equipment[k].can \in Seq(Capabilities)
  BY <1>1, <1>5 DEF IsCatalog
<1>7. IsConfiguration(b)
  <2>1. ASSUME NEW k \in DOMAIN eqs PROVE eqs[k].can \in Seq(Range(eqs[k].can))
    <3>1. PICK can \in Seq(Capabilities) : can = eqs[k].can
      BY <1>6
    <3>2. \A j \in 1..Len(can) : can[j] \in Range(can)
      BY DEF Range
    <3>3. can \in Seq(Range(can))
      BY <3>2
    <3> QED
      BY <3>1, <3>3
  <2>2. \A k \in DOMAIN eqs :
          LET e == eqs[k]
          IN /\ e = [id |-> e.id, asset |-> e.asset, active |-> e.active, code |-> e.code,
                     can |-> e.can, signals |-> e.signals, sound |-> e.sound]
             /\ e.can \in Seq(Range(e.can))
    BY <2>1
  <2>3. eqs = [k \in DOMAIN eqs |-> eqs[k]]
    OBVIOUS
  <2> HIDE DEF eqs, route, between, aside
  <2>4. b = [source |-> b.source, label |-> b.label, equipment |-> b.equipment, route |-> b.route,
             relations |-> b.relations, branches |-> b.branches, scenarios |-> b.scenarios]
    BY <1>3
  <2> QED
    BY <1>4, <2>2, <2>3, <2>4 DEF IsConfiguration
<1>8. Runs(cat, route)
  BY <1>1, RouteIs
<1>9. Ids(eqs) = X
  BY DEF Ids, Range
<1>10. UniqueMachines(b)
  BY <1>1, <1>4 DEF UniqueMachines, IsCatalog
<1>11. MachinesComplete(b)
  <2>1. ASSUME NEW e \in Range(eqs) PROVE Range(e.can) \subseteq Capabilities /\ e.sound
    <3>1. PICK k \in DOMAIN cat.equipment : e = eqs[k]
      BY DEF Range
    <3>2. PICK can \in Seq(Capabilities) : can = e.can
      BY <1>6, <3>1
    <3>3. Range(can) \subseteq Capabilities
      BY DEF Range
    <3> QED
      BY <3>1, <3>2, <3>3
  <2> QED
    BY <1>4, <2>1 DEF MachinesComplete
<1>12. aside \subseteq between /\ aside \subseteq Flows(cat)
  BY DEF Branches, Flows
<1>13. RouteRuns(b)
  <2>1. ASSUME NEW id \in Range(route) PROVE \E e \in Range(eqs) : e.id = id /\ e.active
    <3>1. id \in X
      BY <1>8 DEF Runs, Range
    <3>2. PICK k \in DOMAIN cat.equipment : cat.equipment[k].id = id
      BY <3>1 DEF Range
    <3>3. eqs[k] \in Range(eqs) /\ eqs[k].id = id /\ eqs[k].active
      BY <3>2 DEF Range
    <3> QED
      BY <3>3
  <2>2. ASSUME NEW p \in Adjacent(route) PROVE p \in Pairs(between \ aside) \cup Pairs(aside)
    <3>1. PICK k \in 1..(Len(route) - 1) : p = <<route[k], route[k + 1]>>
      BY DEF Adjacent
    <3>2. PICK f \in Flows(cat) : f.machines /\ f.from = route[k] /\ f.to = route[k + 1]
      BY <1>8 DEF Runs
    <3>3. f \in between /\ f.type = "material_flow" /\ p = <<f.from, f.to>>
      BY <3>1, <3>2 DEF Flows
    <3> HIDE DEF between, aside
    <3> QED
      BY <3>3 DEF Pairs
  <2> HIDE DEF eqs, between, aside, route
  <2> QED
    BY <1>4, <2>1, <2>2 DEF RouteRuns
<1>14. RelationsResolve(b)
  <2>1. \A f \in between : {f.from, f.to} \subseteq X
    BY <1>1 DEF IsCatalog
  <2> HIDE DEF eqs, between, aside, route, X
  <2> QED
    BY <1>4, <1>9, <1>12, <2>1 DEF RelationsResolve
<1>15. NoAmbiguousBranch(b)
  <2>1. ASSUME NEW f \in between \ aside, f.type = "material_flow"
        PROVE  <<f.from, f.to>> \in Adjacent(route)
    BY <2>1 DEF Branches, Flows
  <2> HIDE DEF eqs, between, aside, route
  <2> QED
    BY <1>4, <2>1 DEF NoAmbiguousBranch, Pairs
<1>16. AllBoolean(b)
  BY <1>1, <1>4 DEF AllBoolean, AreUnbound
<1>17. ScenariosFit(b)
  BY <1>1, <1>4, <1>16, InUnits DEF ScenariosFit, AreUnbound, AllBoolean
<1> QED
  BY <1>2, <1>7, <1>10, <1>11, <1>13, <1>14, <1>15, <1>16, <1>17 DEF Valid

\* What expand leaves of a configuration and what it adds.
LEMMA Expanded ==
  ASSUME NEW c, IsConfiguration(c), NEW q, q = expand(c)
  PROVE  /\ IsConfiguration(q)
         /\ q.route = c.route /\ q.relations = c.relations /\ q.branches = c.branches
         /\ DOMAIN q.equipment = DOMAIN c.equipment
         /\ \A k \in DOMAIN c.equipment :
              /\ q.equipment[k].id = c.equipment[k].id
              /\ q.equipment[k].asset = c.equipment[k].asset
              /\ q.equipment[k].active = c.equipment[k].active
              /\ q.equipment[k].can = c.equipment[k].can
              /\ q.equipment[k].sound = c.equipment[k].sound
              /\ c.equipment[k].signals \subseteq q.equipment[k].signals
         /\ \E staged \in SUBSET Shipped : q.scenarios = Adding(Adding(c.scenarios, staged),
                sensor_anomalies(q.equipment) \cup symptom_scenarios(q.equipment))
<1> DEFINE eqs == [k \in DOMAIN c.equipment |->
                [c.equipment[k] EXCEPT !.signals = @ \cup Extra[Family(c.equipment[k])]]]
           staged == {s \in Shipped :
             /\ \E e \in Working(eqs) : s.cause \in Range(e.can)
             /\ s.id = <<"scrap_discharge">> => ScrapBranch(eqs, c.branches)}
           all == Adding(Adding(c.scenarios, staged), sensor_anomalies(eqs) \cup symptom_scenarios(eqs))
<1>1. q = [c EXCEPT !.equipment = eqs, !.scenarios = all]
  BY DEF expand
<1>2. ASSUME NEW k \in DOMAIN c.equipment
      PROVE  /\ eqs[k] = [id |-> eqs[k].id, asset |-> eqs[k].asset, active |-> eqs[k].active,
                          code |-> eqs[k].code, can |-> eqs[k].can, signals |-> eqs[k].signals,
                          sound |-> eqs[k].sound]
             /\ eqs[k].id = c.equipment[k].id /\ eqs[k].asset = c.equipment[k].asset
             /\ eqs[k].active = c.equipment[k].active /\ eqs[k].can = c.equipment[k].can
             /\ eqs[k].sound = c.equipment[k].sound
             /\ c.equipment[k].signals \subseteq eqs[k].signals
             /\ eqs[k].can \in Seq(Range(eqs[k].can))
  <2>1. PICK e, x : e = c.equipment[k] /\ x = Extra[Family(e)]
    OBVIOUS
  <2>2. /\ e = [id |-> e.id, asset |-> e.asset, active |-> e.active, code |-> e.code,
                can |-> e.can, signals |-> e.signals, sound |-> e.sound]
        /\ e.can \in Seq(Range(e.can))
    BY <2>1 DEF IsConfiguration
  <2>3. PICK f : f = eqs[k]
    OBVIOUS
  <2>4. f = [e EXCEPT !.signals = @ \cup x]
    BY <2>1, <2>3
  <2>5. f = [id |-> e.id, asset |-> e.asset, active |-> e.active, code |-> e.code,
             can |-> e.can, signals |-> e.signals \cup x, sound |-> e.sound]
    BY <2>2, <2>4
  <2> HIDE DEF eqs
  <2> QED
    BY <2>1, <2>2, <2>3, <2>5
<1>3. eqs = [k \in DOMAIN eqs |-> eqs[k]] /\ DOMAIN eqs = DOMAIN c.equipment
  OBVIOUS
<1>4. staged \in SUBSET Shipped
  OBVIOUS
<1> HIDE DEF eqs, staged
<1>5. PICK scenarios : scenarios = all
  OBVIOUS
<1>6. q = [source |-> c.source, label |-> c.label, equipment |-> eqs, route |-> c.route,
           relations |-> c.relations, branches |-> c.branches, scenarios |-> scenarios]
  BY <1>1, <1>5 DEF IsConfiguration
<1>7. /\ q.equipment = eqs /\ q.scenarios = scenarios /\ q.route = c.route
      /\ q.relations = c.relations /\ q.branches = c.branches
      /\ q.source = c.source /\ q.label = c.label
  BY <1>6
<1>8. IsConfiguration(q)
  BY <1>2, <1>3, <1>6, <1>7 DEF IsConfiguration
<1> QED
  BY <1>2, <1>3, <1>4, <1>5, <1>7, <1>8

OneEach(scenarios) == \A s, t \in scenarios : s.id = t.id => s = t

LEMMA AddingOneEach ==
  ASSUME NEW found, NEW offered, OneEach(found), OneEach(offered)
  PROVE  OneEach(Adding(found, offered))
BY DEF OneEach, Adding

\* A scenario that the machines of eqs can show.
Fits(eqs, s) ==
  /\ s.at # "any" => \E e \in Range(eqs) :
       /\ e.id = s.at /\ e.active /\ s.cause \in Range(e.can)
       /\ \A x \in s.shows : x[1] \in Range(e.can) /\ x[2] \in e.signals
  /\ s.ticks >= 1
  /\ s.hold => s.actions # {}
  /\ s.sound

LEMMA FitsIs == \A c : ScenariosFit(c) <=>
                  /\ OneEach(c.scenarios)
                  /\ \A s \in c.scenarios : Fits(c.equipment, s) /\ EffectsInUnits(c, s)
BY DEF ScenariosFit, OneEach, Fits

LEMMA BoundFits ==
  ASSUME NEW eqs, NEW e \in Working(eqs), e.can \in Seq(Range(e.can)),
         NEW id, NEW signals, signals \subseteq e.signals
  PROVE  Fits(eqs, Bound(e, id, signals)) /\ BooleanEffects(Bound(e, id, signals))
<1>1. PICK can \in Seq(Range(e.can)) : can = e.can
  OBVIOUS
<1>2. can # <<>> /\ e \in Range(eqs) /\ e.active
  BY <1>1 DEF Working
<1>3. PICK first : first = can[1]
  OBVIOUS
<1>4. first \in Range(can)
  BY <1>2, <1>3 DEF Range
<1>5. PICK s : s = Bound(e, id, signals)
  OBVIOUS
<1>6. s = [id |-> id, cause |-> first, at |-> e.id,
           shows |-> {<<first, g, g \in Switches>> : g \in signals},
           ticks |-> 2, hold |-> FALSE, actions |-> {}, sound |-> TRUE]
  BY <1>1, <1>3, <1>5 DEF Bound
<1>7. /\ s.cause = first /\ s.at = e.id /\ s.sound
      /\ s.shows = {<<first, g, g \in Switches>> : g \in signals}
      /\ s.ticks = 2 /\ s.hold = FALSE
  BY <1>6
<1>8. \A x \in s.shows : x[1] \in Range(e.can) /\ x[2] \in e.signals
  BY <1>1, <1>4, <1>7
<1>9. s.ticks >= 1
  BY <1>7
<1>10. Fits(eqs, s)
  BY <1>1, <1>2, <1>4, <1>7, <1>8, <1>9 DEF Fits
<1>11. BooleanEffects(s)
  <2>1. ASSUME NEW x \in s.shows, x[2] \in Switches PROVE x[3]
    <3>1. PICK g \in signals : x = <<first, g, g \in Switches>>
      BY <1>7
    <3> QED
      BY <2>1, <3>1
  <2> QED
    BY <2>1 DEF BooleanEffects
<1> QED
  BY <1>5, <1>10, <1>11

\* The scenarios that follow from the machines.
LEMMA FromMachines ==
  ASSUME NEW eqs, \A e, f \in Range(eqs) : e.id = f.id => e = f,
         \A e \in Range(eqs) : e.can \in Seq(Range(e.can))
  PROVE  LET all == sensor_anomalies(eqs) \cup symptom_scenarios(eqs)
         IN OneEach(all) /\ \A s \in all : Fits(eqs, s) /\ BooleanEffects(s)
<1> DEFINE sensors == sensor_anomalies(eqs)
           symptoms == symptom_scenarios(eqs)
<1>1. ASSUME NEW s \in sensors
      PROVE  \E e \in Working(eqs) : \E g \in e.signals :
               s = Bound(e, <<"sensor_anomaly", e.id, g>>, {g})
  BY DEF sensor_anomalies
<1>2. ASSUME NEW s \in symptoms
      PROVE  \E e \in Working(eqs) : \E p \in Patterns : p.signals \subseteq e.signals /\
               s = Bound(e, <<"symptom", e.id, p.id>>, p.signals)
  BY DEF symptom_scenarios
<1>3. \A e \in Working(eqs) : e \in Range(eqs) /\ e.can \in Seq(Range(e.can))
  BY DEF Working
<1>4. \A e, id, signals : Bound(e, id, signals).id = id
  BY DEF Bound
<1> HIDE DEF sensors, symptoms
<1>5. ASSUME NEW s \in sensors PROVE Fits(eqs, s) /\ BooleanEffects(s)
  <2>1. PICK e \in Working(eqs) : \E g \in e.signals :
               s = Bound(e, <<"sensor_anomaly", e.id, g>>, {g})
    BY <1>1
  <2>2. PICK g \in e.signals : s = Bound(e, <<"sensor_anomaly", e.id, g>>, {g})
    BY <2>1
  <2>3. PICK id : id = <<"sensor_anomaly", e.id, g>>
    OBVIOUS
  <2>4. {g} \subseteq e.signals /\ e.can \in Seq(Range(e.can))
    BY <1>3
  <2>5. Fits(eqs, Bound(e, id, {g})) /\ BooleanEffects(Bound(e, id, {g}))
    BY <2>4, BoundFits
  <2> QED
    BY <2>2, <2>3, <2>5
<1>6. ASSUME NEW s \in symptoms PROVE Fits(eqs, s) /\ BooleanEffects(s)
  <2>1. PICK e \in Working(eqs) : \E p \in Patterns : p.signals \subseteq e.signals /\
               s = Bound(e, <<"symptom", e.id, p.id>>, p.signals)
    BY <1>2
  <2>2. PICK p \in Patterns : p.signals \subseteq e.signals /\
               s = Bound(e, <<"symptom", e.id, p.id>>, p.signals)
    BY <2>1
  <2>3. PICK id : id = <<"symptom", e.id, p.id>>
    OBVIOUS
  <2>4. PICK signals : signals = p.signals
    OBVIOUS
  <2>5. signals \subseteq e.signals /\ e.can \in Seq(Range(e.can))
    BY <1>3, <2>2, <2>4
  <2>6. Fits(eqs, Bound(e, id, signals)) /\ BooleanEffects(Bound(e, id, signals))
    BY <2>5, BoundFits
  <2> QED
    BY <2>2, <2>3, <2>4, <2>6
<1>7. ASSUME NEW s \in sensors, NEW t \in sensors, s.id = t.id PROVE s = t
  <2>1. PICK e \in Working(eqs) : \E g \in e.signals :
               s = Bound(e, <<"sensor_anomaly", e.id, g>>, {g})
    BY <1>1
  <2>2. PICK g \in e.signals : s = Bound(e, <<"sensor_anomaly", e.id, g>>, {g})
    BY <2>1
  <2>3. PICK f \in Working(eqs) : \E h \in f.signals :
               t = Bound(f, <<"sensor_anomaly", f.id, h>>, {h})
    BY <1>1
  <2>4. PICK h \in f.signals : t = Bound(f, <<"sensor_anomaly", f.id, h>>, {h})
    BY <2>3
  <2>5. <<"sensor_anomaly", e.id, g>> = <<"sensor_anomaly", f.id, h>>
    BY <1>4, <1>7, <2>2, <2>4
  <2>6. e.id = f.id /\ g = h
    BY <2>5
  <2>7. e = f
    BY <1>3, <2>6
  <2> QED
    BY <2>2, <2>4, <2>6, <2>7
<1>8. ASSUME NEW s \in symptoms, NEW t \in symptoms, s.id = t.id PROVE s = t
  <2>1. PICK e \in Working(eqs) : \E p \in Patterns :
               s = Bound(e, <<"symptom", e.id, p.id>>, p.signals)
    BY <1>2
  <2>2. PICK p \in Patterns : s = Bound(e, <<"symptom", e.id, p.id>>, p.signals)
    BY <2>1
  <2>3. PICK f \in Working(eqs) : \E r \in Patterns :
               t = Bound(f, <<"symptom", f.id, r.id>>, r.signals)
    BY <1>2
  <2>4. PICK r \in Patterns : t = Bound(f, <<"symptom", f.id, r.id>>, r.signals)
    BY <2>3
  <2>5. <<"symptom", e.id, p.id>> = <<"symptom", f.id, r.id>>
    BY <1>4, <1>8, <2>2, <2>4
  <2>6. e.id = f.id /\ p.id = r.id
    BY <2>5
  <2>7. e = f
    BY <1>3, <2>6
  <2>8. p = r
    BY <2>6, ConfigAssumption
  <2> QED
    BY <2>2, <2>4, <2>7, <2>8
<1>9. ASSUME NEW s \in sensors, NEW t \in symptoms PROVE s.id # t.id
  <2>1. PICK e : \E g : s = Bound(e, <<"sensor_anomaly", e.id, g>>, {g})
    BY <1>1
  <2>2. PICK g : s = Bound(e, <<"sensor_anomaly", e.id, g>>, {g})
    BY <2>1
  <2>3. PICK f : \E p : t = Bound(f, <<"symptom", f.id, p.id>>, p.signals)
    BY <1>2
  <2>4. PICK p : t = Bound(f, <<"symptom", f.id, p.id>>, p.signals)
    BY <2>3
  <2>5. <<"sensor_anomaly", e.id, g>> # <<"symptom", f.id, p.id>>
    <3>1. "sensor_anomaly" # "symptom"
      OBVIOUS
    <3> QED
      BY <3>1
  <2> QED
    BY <1>4, <2>2, <2>4, <2>5
<1>10. OneEach(sensors \cup symptoms)
  BY <1>7, <1>8, <1>9 DEF OneEach
<1> QED
  BY <1>5, <1>6, <1>10 DEF sensors, symptoms

\* A valid configuration is valid when it has been expanded.
LEMMA ExpandedIsValid ==
  ASSUME NEW c, IsConfiguration(c), Valid(c), AllBoolean(c)
  PROVE  IsConfiguration(expand(c)) /\ Valid(expand(c)) /\ AllBoolean(expand(c))
<1>1. PICK q : q = expand(c)
  OBVIOUS
<1>2. /\ IsConfiguration(q)
      /\ q.route = c.route /\ q.relations = c.relations /\ q.branches = c.branches
      /\ DOMAIN q.equipment = DOMAIN c.equipment
      /\ \A k \in DOMAIN c.equipment :
           /\ q.equipment[k].id = c.equipment[k].id
           /\ q.equipment[k].asset = c.equipment[k].asset
           /\ q.equipment[k].active = c.equipment[k].active
           /\ q.equipment[k].can = c.equipment[k].can
           /\ q.equipment[k].sound = c.equipment[k].sound
           /\ c.equipment[k].signals \subseteq q.equipment[k].signals
      /\ \E staged \in SUBSET Shipped : q.scenarios = Adding(Adding(c.scenarios, staged),
             sensor_anomalies(q.equipment) \cup symptom_scenarios(q.equipment))
  BY <1>1, Expanded
<1>3. PICK eqs : eqs = q.equipment
  OBVIOUS
<1>4. \A k \in DOMAIN c.equipment : eqs[k] \in Range(eqs) /\ c.equipment[k] \in Range(c.equipment)
  BY <1>2, <1>3 DEF Range
<1>5. UniqueMachines(q)
  BY <1>2 DEF Valid, UniqueMachines
<1>6. MachinesComplete(q)
  <2>1. ASSUME NEW e \in Range(eqs) PROVE Range(e.can) \subseteq Capabilities /\ e.sound
    <3>1. PICK k \in DOMAIN c.equipment : e = eqs[k]
      BY <1>2, <1>3 DEF Range
    <3> QED
      BY <1>2, <1>3, <1>4, <3>1 DEF Valid, MachinesComplete
  <2> QED
    BY <1>3, <2>1 DEF MachinesComplete
<1>7. Ids(q.equipment) = Ids(c.equipment)
  BY <1>2 DEF Ids
<1>8. RouteRuns(q)
  <2>1. ASSUME NEW id \in Range(q.route) PROVE \E e \in Range(eqs) : e.id = id /\ e.active
    <3>1. PICK d \in Range(c.equipment) : d.id = id /\ d.active
      BY <1>2 DEF Valid, RouteRuns
    <3>2. PICK k \in DOMAIN c.equipment : d = c.equipment[k]
      BY DEF Range
    <3> QED
      BY <1>2, <1>3, <1>4, <3>1, <3>2
  <2> QED
    BY <1>2, <1>3, <2>1 DEF Valid, RouteRuns
<1>9. RelationsResolve(q)
  BY <1>2, <1>7 DEF Valid, RelationsResolve
<1>10. NoAmbiguousBranch(q)
  BY <1>2 DEF Valid, NoAmbiguousBranch
<1>11. ScenariosFit(q) /\ AllBoolean(q)
  <2>1. PICK staged \in SUBSET Shipped : q.scenarios = Adding(Adding(c.scenarios, staged),
             sensor_anomalies(eqs) \cup symptom_scenarios(eqs))
    BY <1>2, <1>3
  <2>2. PICK own : own = sensor_anomalies(eqs) \cup symptom_scenarios(eqs)
    OBVIOUS
  <2>3. \A e, f \in Range(eqs) : e.id = f.id => e = f
    BY <1>3, <1>5 DEF UniqueMachines, Range
  <2>4. \A e \in Range(eqs) : e.can \in Seq(Range(e.can))
    BY <1>2, <1>3 DEF IsConfiguration, Range
  <2>5. OneEach(own) /\ \A s \in own : Fits(eqs, s) /\ BooleanEffects(s)
    BY <2>2, <2>3, <2>4, FromMachines
  <2>6. OneEach(c.scenarios) /\ \A s \in c.scenarios : Fits(c.equipment, s)
    BY FitsIs DEF Valid
  <2>7. \A s \in c.scenarios : Fits(eqs, s)
    <3> SUFFICES ASSUME NEW s \in c.scenarios, s.at # "any"
                 PROVE  \E e \in Range(eqs) :
                          /\ e.id = s.at /\ e.active /\ s.cause \in Range(e.can)
                          /\ \A x \in s.shows : x[1] \in Range(e.can) /\ x[2] \in e.signals
      BY <2>6 DEF Fits
    <3>1. PICK d \in Range(c.equipment) :
            /\ d.id = s.at /\ d.active /\ s.cause \in Range(d.can)
            /\ \A x \in s.shows : x[1] \in Range(d.can) /\ x[2] \in d.signals
      BY <2>6 DEF Fits
    <3>2. PICK k \in DOMAIN c.equipment : d = c.equipment[k]
      BY DEF Range
    <3>3. PICK e \in Range(eqs) : e = eqs[k]
      BY <1>4
    <3>4. /\ e.id = d.id /\ e.active = d.active /\ e.can = d.can
          /\ d.signals \subseteq e.signals
      BY <1>2, <1>3, <3>2, <3>3
    <3>5. \A x \in s.shows : x[1] \in Range(e.can) /\ x[2] \in e.signals
      BY <3>1, <3>4
    <3> QED
      BY <3>1, <3>4, <3>5
  <2>8. AreUnbound(Shipped)
    BY ConfigAssumption
  <2>9. OneEach(staged) /\ \A s \in staged : Fits(eqs, s) /\ BooleanEffects(s)
    BY <2>8 DEF AreUnbound, OneEach, Fits
  <2>10. OneEach(q.scenarios)
    BY <2>1, <2>2, <2>5, <2>6, <2>9, AddingOneEach
  <2>11. \A s \in q.scenarios : s \in c.scenarios \/ s \in staged \/ s \in own
    BY <2>1, <2>2 DEF Adding
  <2>12. \A s \in q.scenarios : Fits(eqs, s) /\ BooleanEffects(s)
    BY <2>5, <2>7, <2>9, <2>11 DEF AllBoolean
  <2>13. \A s \in q.scenarios : EffectsInUnits(q, s)
    BY <2>12, InUnits
  <2> QED
    BY <1>3, <2>10, <2>12, <2>13, FitsIs DEF AllBoolean
<1> QED
  BY <1>1, <1>2, <1>5, <1>6, <1>8, <1>9, <1>10, <1>11 DEF Valid

\* Whatever catalog the server is installed with, the configuration it derives from it is valid,
\* and its route runs along the flows and takes a machine once (configuration.py: from_catalog,
\* _compute_material_route). That is what the theorems about coils suppose of a route.
THEOREM BaselineCorrect ==
  \A cat \in Catalogs : /\ Runs(cat, _compute_material_route(cat))
                        /\ Valid(from_catalog(cat))
<1> SUFFICES ASSUME NEW cat \in Catalogs
             PROVE  Runs(cat, _compute_material_route(cat)) /\ Valid(from_catalog(cat))
  OBVIOUS
<1>1. Runs(cat, _compute_material_route(cat))
  BY RouteIs, ConfigAssumption
<1>2. Valid(from_catalog(cat))
  BY BaselineIs, ExpandedIsValid DEF from_catalog
<1> QED
  BY <1>1, <1>2

LEMMA ResumedIsValid ==
  ASSUME NEW c, IsConfiguration(c), Valid(c), IsBaseline(c) => AllBoolean(c)
  PROVE  /\ IsConfiguration(Resumed(c)) /\ Valid(Resumed(c))
         /\ IsBaseline(Resumed(c)) => AllBoolean(Resumed(c))
BY ExpandedIsValid DEF Resumed

\* Every configuration kept is valid, and the one a service runs is kept.
ValidInv ==
  /\ catalog \in Catalogs
  /\ \A c \in kept : IsConfiguration(c) /\ Valid(c) /\ (IsBaseline(c) => AllBoolean(c))
  /\ service # "down" => active \in kept

LEMMA ValidNextInv == ValidInv /\ [ConfigNext]_configVars => ValidInv'
<1> SUFFICES ASSUME ValidInv, [ConfigNext]_configVars PROVE ValidInv'
  OBVIOUS
<1>1. CASE Boot
  <2>1. /\ catalog' = catalog /\ kept' = kept \cup {active'}
        /\ \/ active' = from_catalog(catalog)
           \/ \E r \in Newest : active' = Resumed(r.config)
    BY <1>1 DEF Boot
  <2>2. IsConfiguration(active') /\ Valid(active') /\ (IsBaseline(active') => AllBoolean(active'))
    <3>1. CASE active' = from_catalog(catalog)
      BY <3>1, BaselineIs, ExpandedIsValid DEF from_catalog, ValidInv
    <3>2. CASE \E r \in Newest : active' = Resumed(r.config)
      <4>1. PICK r \in Newest : active' = Resumed(r.config)
        BY <3>2
      <4>2. r.config \in kept
        BY DEF Newest, Resumable
      <4> QED
        BY <4>1, <4>2, ResumedIsValid DEF ValidInv
    <3> QED
      BY <2>1, <3>1, <3>2
  <2> QED
    BY <2>1, <2>2 DEF ValidInv
<1>2. ASSUME NEW c \in Uploads, Apply(c) PROVE ValidInv'
  <2>1. IsConfiguration(c) /\ Valid(c) /\ (IsBaseline(c) => AllBoolean(c))
    BY <1>2, ConfigAssumption DEF Apply, AllBoolean
  <2>2. catalog' = catalog /\ active' = c /\ kept' = kept \cup {c}
    BY <1>2 DEF Apply
  <2> QED
    BY <2>1, <2>2 DEF ValidInv
<1>3. CASE UNCHANGED <<catalog, service, active, kept>>
  BY <1>3 DEF ValidInv
<1>4. CASE Crash
  BY <1>4 DEF Crash, ValidInv, configTables
<1>5. CASE BootRun
  BY <1>5 DEF BootRun, ValidInv
<1>6. CASE \E c \in Uploads : RefuseApply(c) \/ ApplyFails(c)
  BY <1>3, <1>6 DEF RefuseApply, ApplyFails, configMemory
<1>7. CASE Start \/ Pause \/ Reset \/ Tick
  BY <1>3, <1>7 DEF Start, Pause, Reset, Tick, configTables
<1>8. CASE UNCHANGED configVars
  BY <1>3, <1>8 DEF configVars, configMemory, configTables
<1> QED
  BY <1>1, <1>2, <1>4, <1>5, <1>6, <1>7, <1>8 DEF ConfigNext

LEMMA ValidInitInv == ConfigInit => ValidInv
BY BaselineIs DEF ConfigInit, ValidInv

\* The line never runs under a configuration that validate refuses: whatever
\* catalog the service is installed with, whatever is uploaded, and whatever
\* a restart restores and expands (from_catalog, expand, apply_config,
\* _restore_active_config).
THEOREM ConfigurationCorrect == ConfigSpec => []ActiveIsValid
<1>1. ValidInv => ActiveIsValid
  BY DEF ValidInv, ActiveIsValid
<1> QED
  BY <1>1, ValidInitInv, ValidNextInv, PTL DEF ConfigSpec

-----------------------------------------------------------------------------
(* Work reports: what is kept.                                             *)

IsIncident(x) == x = [assets |-> x.assets, records |-> x.records]

IsQueryRow(q) ==
  q = [equipment |-> q.equipment, config |-> q.config, edition |-> q.edition, about |-> q.about,
       gap |-> q.gap, logged |-> q.logged]

\* Records and their positions under the reports of a state.
StoredIn(rep, p) == p[1] \in Reports /\ p[2] \in DOMAIN rep[p[1]]
At(rep, p) == rep[p[1]][p[2]]

\* The records of an incident are stored, and each continues the one before it.
GoodIncident(rep, i, x) ==
  /\ IsIncident(x) /\ IsList(x.records)
  /\ \A j \in DOMAIN x.records : StoredIn(rep, x.records[j])
  /\ x # NoIncident =>
       /\ 1 \in DOMAIN x.records /\ x.records[1] = i /\ At(rep, i).source = None
       /\ \A k \in 2..Len(x.records) : At(rep, x.records[k]).source = x.records[k - 1]

ChainInv ==
  /\ report = [h \in Reports |-> report[h]]
  /\ incident = [i \in Incidents |-> incident[i]]
  /\ \A i \in Incidents : GoodIncident(report, i, incident[i])

LEMMA ChainInvImplies == ChainInv => IncidentsAreChains
  BY DEF ChainInv, GoodIncident, Opened, At, RecordAt, IncidentsAreChains

\* Where a record of a new report goes.
Telling(body) == {k \in DOMAIN body : has_incident(body[k])}
Home(h, body, k) == IF body[k].about = None THEN <<h, k>> ELSE body[k].about

\* The numbers of a report that is not stored are not used.
LEMMA FreshReport ==
  ASSUME ChainInv, NEW h \in Reports, report[h] = <<>>, NEW k
  PROVE  /\ <<h, k>> \notin Opened
         /\ \A i \in Incidents : \A j \in DOMAIN incident[i].records : incident[i].records[j][1] # h
<1>1. DOMAIN report[h] = {}
  OBVIOUS
<1>2. \A i \in Incidents : \A j \in DOMAIN incident[i].records : incident[i].records[j][1] # h
  <2> SUFFICES ASSUME NEW i \in Incidents, NEW j \in DOMAIN incident[i].records,
                      incident[i].records[j][1] = h
               PROVE  FALSE
    OBVIOUS
  <2>1. incident[i].records[j][2] \in DOMAIN report[incident[i].records[j][1]]
    BY DEF ChainInv, GoodIncident, StoredIn
  <2> QED
    BY <1>1, <2>1
<1>3. ASSUME <<h, k>> \in Opened PROVE FALSE
  <2>1. <<h, k>> \in Incidents
    BY <1>3 DEF Opened
  <2>2. 1 \in DOMAIN incident[<<h, k>>].records /\ incident[<<h, k>>].records[1] = <<h, k>>
    BY <1>3, <2>1 DEF Opened, ChainInv, GoodIncident
  <2> QED
    BY <1>2, <2>1, <2>2
<1> QED
  BY <1>2, <1>3

\* A record tells of an incident that is known or of one that it opens.
LEMMA FactsOfAccepted ==
  ASSUME NEW body, Accepted(body), NEW k \in Telling(body)
  PROVE  /\ k \in DOMAIN body
         /\ body[k].about = None => body[k].source = None
         /\ body[k].about # None => body[k].source # None
         /\ body[k].about # None => body[k].about \in Opened
         /\ body[k].about # None => body[k].source = Latest(body[k].about)
         /\ body[k].about # None => incident[body[k].about].assets = AssetsOf(body[k])
<1>1. k \in DOMAIN body /\ has_incident(body[k])
  BY DEF Telling
<1>2. ValidRecord(body[k]) /\ FollowsLatest(body[k]) /\ SameAssets(body[k])
  BY <1>1 DEF Accepted
<1>3. (body[k].about = None) = (body[k].source = None)
  BY <1>2 DEF ValidRecord
<1>4. body[k].source # None => body[k].about \in Opened /\ body[k].source = Latest(body[k].about)
  BY <1>2 DEF FollowsLatest
<1>5. body[k].about # None => incident[body[k].about].assets = AssetsOf(body[k])
  BY <1>2 DEF SameAssets
<1> QED
  BY <1>1, <1>3, <1>4, <1>5

\* A report has one record for an incident.
LEMMA OneHome ==
  ASSUME ChainInv, NEW h \in Reports, report[h] = <<>>, NEW body, Accepted(body),
         NEW j \in Telling(body), NEW k \in Telling(body), Home(h, body, j) = Home(h, body, k)
  PROVE  j = k
<1>1. j \in DOMAIN body /\ k \in DOMAIN body
  BY FactsOfAccepted
<1>2. CASE body[j].about # None /\ body[k].about # None
  <2>1. body[j].about = body[k].about
    BY <1>2 DEF Home
  <2>2. OneRecordEach(body)
    BY DEF Accepted
  <2> QED
    BY <1>1, <1>2, <2>1, <2>2 DEF OneRecordEach
<1>3. CASE body[j].about = None /\ body[k].about = None
  BY <1>3 DEF Home
<1>4. CASE body[j].about = None /\ body[k].about # None
  <2>1. <<h, j>> = body[k].about
    BY <1>4 DEF Home
  <2>2. body[k].about \in Opened
    BY <1>4, FactsOfAccepted
  <2> QED
    BY <2>1, <2>2, FreshReport
<1>5. CASE body[j].about # None /\ body[k].about = None
  <2>1. <<h, k>> = body[j].about
    BY <1>5 DEF Home
  <2>2. body[j].about \in Opened
    BY <1>5, FactsOfAccepted
  <2> QED
    BY <2>1, <2>2, FreshReport
<1> QED
  BY <1>2, <1>3, <1>4, <1>5

\* What a report does to the incidents.
Told(h, body, k) ==
  [assets |-> AssetsOf(body[k]), records |-> Append(incident[Home(h, body, k)].records, <<h, k>>)]

LEMMA SavedIncidents ==
  ASSUME ChainInv, NEW h \in Reports, NEW body, SaveReport(h, body)
  PROVE  /\ report[h] = <<>> /\ Accepted(body) /\ report' = [report EXCEPT ![h] = body]
         /\ incident' = [i \in Incidents |-> incident'[i]]
         /\ \A k \in Telling(body) :
              Home(h, body, k) \in Incidents => incident'[Home(h, body, k)] = Told(h, body, k)
         /\ \A i \in Incidents :
              \/ incident'[i] = incident[i]
              \/ \E k \in Telling(body) : i = Home(h, body, k)
<1>1. report[h] = <<>> /\ Accepted(body) /\ report' = [report EXCEPT ![h] = body]
  BY DEF SaveReport
<1>2. incident' = [i \in Incidents |->
        IF \E k \in Telling(body) : Home(h, body, k) = i
        THEN [assets |-> AssetsOf(body[CHOOSE k \in Telling(body) : Home(h, body, k) = i]),
              records |-> Append(incident[i].records,
                            <<h, CHOOSE k \in Telling(body) : Home(h, body, k) = i>>)]
        ELSE incident[i]]
  BY DEF SaveReport, Telling, Home
<1>3. ASSUME NEW k \in Telling(body), Home(h, body, k) \in Incidents
      PROVE  incident'[Home(h, body, k)] = Told(h, body, k)
  <2>1. PICK i : i = Home(h, body, k)
    OBVIOUS
  <2>2. PICK c : c = CHOOSE m \in Telling(body) : Home(h, body, m) = i
    OBVIOUS
  <2>3. c \in Telling(body) /\ Home(h, body, c) = i
    BY <2>1, <2>2
  <2>4. c = k
    BY <1>1, <2>1, <2>3, OneHome
  <2>5. incident'[i] = [assets |-> AssetsOf(body[c]), records |-> Append(incident[i].records, <<h, c>>)]
    BY <1>2, <1>3, <2>1, <2>2, <2>3
  <2> QED
    BY <2>1, <2>4, <2>5 DEF Told
<1>4. ASSUME NEW i \in Incidents, ~\E k \in Telling(body) : i = Home(h, body, k)
      PROVE  incident'[i] = incident[i]
  BY <1>2, <1>4
<1> QED
  BY <1>1, <1>2, <1>3, <1>4

\* Stored records stay where they are.
LEMMA StoredStays ==
  ASSUME ChainInv, NEW h \in Reports, report[h] = <<>>, NEW body,
         report' = [report EXCEPT ![h] = body],
         NEW i \in Incidents, NEW j \in DOMAIN incident[i].records, NEW p,
         p = incident[i].records[j]
  PROVE  StoredIn(report', p) /\ At(report', p) = At(report, p)
<1>1. p[1] \in Reports /\ p[2] \in DOMAIN report[p[1]]
  BY DEF ChainInv, GoodIncident, StoredIn
<1>2. p[1] # h
  BY FreshReport
<1>3. report = [g \in Reports |-> report[g]]
  BY DEF ChainInv
<1>4. report'[p[1]] = report[p[1]]
  BY <1>1, <1>2, <1>3
<1> QED
  BY <1>1, <1>4 DEF StoredIn, At

\* An incident a new report does not speak of.
LEMMA UntoldIncident ==
  ASSUME ChainInv, NEW h \in Reports, report[h] = <<>>, NEW body,
         report' = [report EXCEPT ![h] = body], NEW i \in Incidents
  PROVE  GoodIncident(report', i, incident[i])
<1>1. PICK x : x = incident[i]
  OBVIOUS
<1>2. GoodIncident(report, i, x)
  BY <1>1 DEF ChainInv
<1>3. IsIncident(x) /\ IsList(x.records)
  BY <1>2 DEF GoodIncident
<1>4. \A j \in DOMAIN x.records : /\ StoredIn(report', x.records[j])
                                 /\ At(report', x.records[j]) = At(report, x.records[j])
  BY <1>1, StoredStays
<1>5. ASSUME x # NoIncident
      PROVE  /\ 1 \in DOMAIN x.records /\ x.records[1] = i /\ At(report', i).source = None
             /\ \A k \in 2..Len(x.records) : At(report', x.records[k]).source = x.records[k - 1]
  <2>1. /\ 1 \in DOMAIN x.records /\ x.records[1] = i /\ At(report, i).source = None
        /\ \A k \in 2..Len(x.records) : At(report, x.records[k]).source = x.records[k - 1]
    BY <1>2, <1>5 DEF GoodIncident
  <2>2. At(report', i) = At(report, i)
    BY <1>4, <2>1
  <2>3. DOMAIN x.records = 1..Len(x.records) /\ Len(x.records) \in Nat
    BY <1>3, AppendList
  <2>4. \A k \in 2..Len(x.records) : k \in DOMAIN x.records
    BY <2>3
  <2> QED
    BY <1>4, <2>1, <2>2, <2>4
<1> QED
  BY <1>1, <1>3, <1>4, <1>5 DEF GoodIncident

\* A record that opens an incident, or continues its newest record.
LEMMA ToldIncident ==
  ASSUME ChainInv, NEW h \in Reports, report[h] = <<>>, NEW body, Accepted(body),
         report' = [report EXCEPT ![h] = body],
         NEW k \in Telling(body), Home(h, body, k) \in Incidents
  PROVE  GoodIncident(report', Home(h, body, k), Told(h, body, k))
<1>1. PICK i : i = Home(h, body, k)
  OBVIOUS
<1>2. PICK x : x = incident[i]
  OBVIOUS
<1>3. PICK s : s = x.records
  OBVIOUS
<1>4. PICK t : t = Append(s, <<h, k>>)
  OBVIOUS
<1>5. PICK told : told = Told(h, body, k)
  OBVIOUS
<1>6. told = [assets |-> AssetsOf(body[k]), records |-> t]
  BY <1>1, <1>2, <1>3, <1>4, <1>5 DEF Told
<1>7. told.records = t /\ IsIncident(told)
  BY <1>6 DEF IsIncident
<1>8. GoodIncident(report, i, x) /\ GoodIncident(report', i, x)
  BY <1>1, <1>2, UntoldIncident DEF ChainInv
<1>9. IsList(s)
  BY <1>3, <1>8 DEF GoodIncident
<1>10. /\ IsList(t) /\ DOMAIN t = 1..(Len(s) + 1) /\ DOMAIN s = 1..Len(s) /\ Len(s) \in Nat
       /\ \A j \in DOMAIN s : t[j] = s[j]
       /\ t[Len(s) + 1] = <<h, k>>
  BY <1>4, <1>9, AppendList
<1>11. Len(t) = Len(s) + 1
  BY <1>10, AppendList
<1>12. k \in DOMAIN body
  BY FactsOfAccepted
<1>13. report'[h] = body
  BY DEF ChainInv
<1>14. PICK here : here = <<h, k>>
  OBVIOUS
<1>15. StoredIn(report', here) /\ At(report', here) = body[k] /\ t[Len(s) + 1] = here
  BY <1>10, <1>12, <1>13, <1>14 DEF StoredIn, At
<1>16. ASSUME NEW j \in DOMAIN t PROVE StoredIn(report', t[j])
  <2>1. CASE j \in DOMAIN s
    BY <1>3, <1>8, <1>10, <2>1 DEF GoodIncident
  <2>2. CASE j = Len(s) + 1
    BY <1>15, <2>2
  <2> QED
    BY <1>10, <2>1, <2>2
<1>17. CASE body[k].about = None
  <2>1. i = here /\ body[k].source = None
    BY <1>1, <1>14, <1>17, FactsOfAccepted DEF Home
  <2>2. x = NoIncident
    BY <1>1, <1>2, <1>14, <2>1, FreshReport DEF Opened
  <2>3. s = <<>>
    BY <1>3, <2>2 DEF NoIncident
  <2>4. Len(s) = 0
    BY <2>3
  <2>5. DOMAIN t = 1..1 /\ t[1] = i /\ Len(t) = 1
    BY <1>10, <1>11, <1>15, <2>1, <2>4
  <2>6. At(report', i).source = None
    BY <1>15, <2>1
  <2>7. 1 \in DOMAIN t /\ \A n \in 2..Len(t) : FALSE
    BY <2>5
  <2> QED
    BY <1>1, <1>5, <1>7, <1>10, <1>16, <2>5, <2>6, <2>7 DEF GoodIncident
<1>18. CASE body[k].about # None
  <2>1. i = body[k].about /\ i \in Opened /\ body[k].source = Latest(i)
    BY <1>1, <1>18, FactsOfAccepted DEF Home
  <2>2. x # NoIncident
    BY <1>2, <2>1 DEF Opened
  <2>3. /\ 1 \in DOMAIN s /\ s[1] = i /\ At(report', i).source = None
        /\ \A n \in 2..Len(s) : At(report', s[n]).source = s[n - 1]
    BY <1>3, <1>8, <2>2 DEF GoodIncident
  <2>4. body[k].source = s[Len(s)]
    BY <1>2, <1>3, <2>1 DEF Latest, Last
  <2>5. 1 \in DOMAIN t /\ t[1] = i
    BY <1>10, <2>3
  <2>6. ASSUME NEW n \in 2..Len(t) PROVE At(report', t[n]).source = t[n - 1]
    <3>1. CASE n \in 2..Len(s)
      <4>1. t[n] = s[n] /\ t[n - 1] = s[n - 1]
        BY <1>10, <3>1
      <4> QED
        BY <2>3, <3>1, <4>1
    <3>2. CASE n = Len(s) + 1
      <4>1. t[n] = here /\ n - 1 = Len(s) /\ Len(s) \in DOMAIN s
        BY <1>10, <1>15, <2>3, <3>2
      <4>2. t[n - 1] = s[Len(s)]
        BY <1>10, <4>1
      <4> QED
        BY <1>15, <2>4, <4>1, <4>2
    <3> QED
      BY <1>10, <1>11, <3>1, <3>2
  <2> QED
    BY <1>1, <1>5, <1>7, <1>10, <1>16, <2>3, <2>5, <2>6 DEF GoodIncident
<1> QED
  BY <1>17, <1>18

LEMMA ChainNextInv == ChainInv /\ [ReportNext]_reportVars => ChainInv'
<1> SUFFICES ASSUME ChainInv, [ReportNext]_reportVars PROVE ChainInv'
  OBVIOUS
<1>1. CASE UNCHANGED <<report, incident>>
  BY <1>1 DEF ChainInv
<1>2. ASSUME NEW h \in Reports, NEW body, SaveReport(h, body) PROVE ChainInv'
  <2>1. /\ report[h] = <<>> /\ Accepted(body) /\ report' = [report EXCEPT ![h] = body]
        /\ incident' = [i \in Incidents |-> incident'[i]]
        /\ \A k \in Telling(body) :
             Home(h, body, k) \in Incidents => incident'[Home(h, body, k)] = Told(h, body, k)
        /\ \A i \in Incidents :
             \/ incident'[i] = incident[i]
             \/ \E k \in Telling(body) : i = Home(h, body, k)
    BY <1>2, SavedIncidents
  <2>2. report' = [g \in Reports |-> report'[g]]
    BY <2>1 DEF ChainInv
  <2>3. ASSUME NEW i \in Incidents PROVE GoodIncident(report', i, incident'[i])
    <3>1. CASE incident'[i] = incident[i]
      BY <2>1, <3>1, UntoldIncident
    <3>2. ASSUME NEW k \in Telling(body), i = Home(h, body, k)
          PROVE  GoodIncident(report', i, incident'[i])
      <4>1. Home(h, body, k) \in Incidents
        BY <3>2
      <4>2. incident'[Home(h, body, k)] = Told(h, body, k)
        BY <2>1, <4>1
      <4>3. GoodIncident(report', Home(h, body, k), Told(h, body, k))
        BY <2>1, <4>1, ToldIncident
      <4> QED
        BY <3>2, <4>2, <4>3
    <3> QED
      BY <2>1, <3>1, <3>2
  <2> QED
    BY <2>1, <2>2, <2>3 DEF ChainInv
<1> QED
  BY <1>1, <1>2 DEF ReportNext, reportVars, ReplaceAsset, EditConfig, AskQuery, LogQuery, DraftResolution

LEMMA ReportInitInv == ReportInit => ChainInv
<1> SUFFICES ASSUME ReportInit PROVE ChainInv
  OBVIOUS
<1>1. IsIncident(NoIncident) /\ NoIncident.records = <<>>
  BY DEF IsIncident, NoIncident
<1>2. IsList(<<>>) /\ DOMAIN <<>> = {}
  <2>1. 0 \in Nat /\ DOMAIN <<>> = 1..0 /\ <<>> = [j \in 1..0 |-> <<>>[j]]
    OBVIOUS
  <2> QED
    BY <2>1 DEF IsList
<1>3. \A i \in Incidents : GoodIncident(report, i, NoIncident)
  BY <1>1, <1>2 DEF GoodIncident
<1> QED
  BY <1>3 DEF ReportInit, ChainInv

\* The history of an incident never forks.
THEOREM ChainsCorrect == ReportSpec => []IncidentsAreChains
  BY ReportInitInv, ChainInvImplies, ChainNextInv, PTL DEF ReportSpec

-----------------------------------------------------------------------------
(* The handover candidates.                                                *)

\* The links of a follow-up lead back through the whole history of its incident.
LEMMA ChainIs ==
  ASSUME NEW n \in Nat \ {0}, NEW L \in Seq(Positions), Len(L) = n, None \notin Positions,
         \A k \in 2..n : RecordAt(L[k]).source = L[k - 1],
         NEW r, r.source = L[n], incident[r.about].records = L
  PROVE  handover_chain(r) = L
<1> DEFINE back(g, k) == LET before == RecordAt(Head(g)).source
                         IN IF before = None THEN g ELSE <<before>> \o g
           all(g) == g = [k \in 1..n |-> IF k = 1 THEN <<r.source>> ELSE back(g[k - 1], k)]
           tail == [k \in 1..n |-> [j \in 1..k |-> L[(n - k) + j]]]
<1>1. ASSUME NEW k \in 1..n
      PROVE  /\ tail[k] \in Seq(Positions) /\ Len(tail[k]) = k
             /\ Head(tail[k]) = L[(n - k) + 1]
  <2>1. PICK t : t = [j \in 1..k |-> L[(n - k) + j]]
    OBVIOUS
  <2>2. \A j \in 1..k : (n - k) + j \in 1..n /\ L[(n - k) + j] \in Positions
    OBVIOUS
  <2>3. t \in Seq(Positions) /\ Len(t) = k /\ k \in Nat /\ 1 \in 1..k
    BY <2>1, <2>2
  <2>4. t[1] = L[(n - k) + 1]
    BY <2>1, <2>3
  <2>5. Head(t) = t[1]
    BY <2>3
  <2> QED
    BY <2>1, <2>3, <2>4, <2>5
<1>2. tail[1] = <<r.source>>
  <2>1. tail[1] = [j \in 1..1 |-> L[(n - 1) + j]]
    OBVIOUS
  <2>2. \A j \in 1..1 : L[(n - 1) + j] = L[n]
    OBVIOUS
  <2>3. <<r.source>> = [j \in 1..1 |-> L[n]]
    OBVIOUS
  <2> HIDE DEF tail
  <2> QED
    BY <2>1, <2>2, <2>3
<1>3. ASSUME NEW k \in 2..n PROVE back(tail[k - 1], k) = tail[k]
  <2>0. k - 1 \in 1..n /\ (n - (k - 1)) + 1 = (n - k) + 2
    OBVIOUS
  <2> HIDE DEF tail
  <2>1. PICK t \in Seq(Positions) : /\ t = tail[k - 1] /\ Len(t) = k - 1
                                    /\ Head(t) = L[(n - k) + 2]
    BY <1>1, <2>0
  <2> USE DEF tail
  <2>2. PICK b : b = L[(n - k) + 1]
    OBVIOUS
  <2>3. (n - k) + 2 \in 2..n /\ ((n - k) + 2) - 1 = (n - k) + 1 /\ (n - k) + 1 \in 1..n
    OBVIOUS
  <2>4. RecordAt(Head(t)).source = b /\ b \in Positions /\ b # None
    BY <2>1, <2>2, <2>3
  <2>5. back(t, k) = <<b>> \o t
    BY <2>4
  <2>6. <<b>> \in Seq(Positions) /\ Len(<<b>>) = 1 /\ <<b>>[1] = b
    BY <2>4
  <2>7. PICK u : u = <<b>> \o t
    OBVIOUS
  <2>8. u \in Seq(Positions) /\ Len(u) = k
    BY <2>1, <2>6, <2>7, ConcatProperties
  <2>9. ASSUME NEW j \in 1..k PROVE u[j] = L[(n - k) + j]
    <3>1. CASE j = 1
      BY <2>2, <2>6, <2>7, <2>1, <3>1, ConcatProperties
    <3>2. CASE j \in 2..k
      <4>1. j - 1 \in 1..(k - 1) /\ (n - (k - 1)) + (j - 1) = (n - k) + j /\ k - 1 \in 1..n
        BY <3>2
      <4>2. u[j] = t[j - 1]
        BY <2>1, <2>6, <2>7, <3>2, ConcatProperties
      <4>3. t[j - 1] = L[(n - (k - 1)) + (j - 1)]
        BY <2>1, <4>1
      <4> QED
        BY <4>1, <4>2, <4>3
    <3> QED
      BY <3>1, <3>2
  <2>10. u = [j \in 1..k |-> u[j]]
    BY <2>8
  <2>11. u = [j \in 1..k |-> L[(n - k) + j]]
    BY <2>9, <2>10
  <2>12. tail[k] = [j \in 1..k |-> L[(n - k) + j]]
    OBVIOUS
  <2> HIDE DEF tail, back
  <2> QED
    BY <2>1, <2>5, <2>7, <2>11, <2>12
<1>4. tail[n] = L
  <2>1. tail[n] = [j \in 1..n |-> L[(n - n) + j]] /\ L = [j \in 1..n |-> L[j]]
    OBVIOUS
  <2>2. \A j \in 1..n : (n - n) + j = j
    OBVIOUS
  <2> HIDE DEF tail
  <2> QED
    BY <2>1, <2>2
<1>5. tail = [k \in 1..n |-> tail[k]]
  OBVIOUS
<1> HIDE DEF tail, back
<1>6. all(tail)
  <2>1. \A k \in 1..n : tail[k] = IF k = 1 THEN <<r.source>> ELSE back(tail[k - 1], k)
    BY <1>2, <1>3
  <2> QED
    BY <1>5, <2>1
<1> DEFINE f == CHOOSE g : all(g)
<1>7. all(f)
  BY <1>6
<1>8. handover_chain(r) = f[n]
  BY DEF handover_chain, back
<1>9. \A k \in 1..n : f[k] = IF k = 1 THEN <<r.source>> ELSE back(f[k - 1], k)
  BY <1>7
<1> HIDE DEF f
<1> DEFINE S == {k \in Nat : k + 1 \in 1..n => f[k + 1] = tail[k + 1]}
<1>10. 0 \in S
  BY <1>2, <1>9
<1>11. ASSUME NEW k \in Nat, k \in S PROVE k + 1 \in S
  <2> SUFFICES ASSUME k + 2 \in 1..n PROVE f[k + 2] = tail[k + 2]
    OBVIOUS
  <2>1. f[k + 1] = tail[k + 1]
    BY <1>11
  <2>2. k + 2 \in 2..n /\ (k + 2) - 1 = k + 1 /\ k + 2 # 1
    OBVIOUS
  <2>3. f[k + 2] = back(f[k + 1], k + 2) /\ tail[k + 2] = back(tail[k + 1], k + 2)
    BY <1>3, <1>9, <2>2
  <2> QED
    BY <2>1, <2>3
<1>12. n - 1 \in S
  <2> HIDE DEF S
  <2>1. Nat \subseteq S
    BY <1>10, <1>11, ByInduction
  <2> QED
    BY <2>1
<1>13. f[n] = tail[n]
  BY <1>12
<1> QED
  BY <1>4, <1>8, <1>13

\* A drafted handover candidate that belongs to an incident closes it.
Closes(rep, i, x, c) ==
  (c.kind = "T4" /\ c.drafted /\ c.at \in Range(x.records)) =>
    /\ c.at = Last(x.records)
    /\ handover_resolved(At(rep, c.at))
    /\ At(rep, i).outcome # "resolved"

CloseInv ==
  /\ \A i \in Incidents : \A j \in DOMAIN incident[i].records : incident[i].records[j] \in Positions
  /\ \A c \in candidate : StoredIn(report, c.at)
  /\ \A i \in Incidents : \A c \in candidate : Closes(report, i, incident[i], c)

LEMMA CloseInvImplies == CloseInv => HandoverCandidateCloses
  BY DEF CloseInv, Closes, HandoverCandidateCloses, Opened, RecordAt, At, Latest

LEMMA NoneIsNoPosition == None \notin Positions
<1>1. /\ Reports \subseteq Nat /\ None \notin Nat \X Nat
  BY ReportAssumption
<1>2. Positions \subseteq Nat \X Nat
  <2> SUFFICES ASSUME NEW h \in Reports, NEW k \in 1..MaxRecords PROVE <<h, k>> \in Nat \X Nat
    BY DEF Positions
  <2>1. h \in Nat /\ k \in Nat
    BY <1>1, ReportAssumption
  <2> QED
    BY <2>1
<1> QED
  BY <1>1, <1>2

\* The history that a follow-up of the newest record of an incident tells.
LEMMA ChainOfLatest ==
  ASSUME ChainInv, CloseInv, NEW r, r.about \in Opened, r.source = Latest(r.about)
  PROVE  Head(Chain(r)) = RecordAt(r.about) /\ Last(Chain(r)) = r
<1>1. PICK i \in Incidents : i = r.about /\ incident[i] # NoIncident
  BY DEF Opened
<1>2. PICK L : L = incident[i].records
  OBVIOUS
<1>3. /\ IsList(L) /\ 1 \in DOMAIN L /\ L[1] = i
      /\ \A k \in 2..Len(L) : RecordAt(L[k]).source = L[k - 1]
  BY <1>1, <1>2 DEF ChainInv, GoodIncident, At, RecordAt
<1>4. \A j \in DOMAIN L : L[j] \in Positions
  BY <1>1, <1>2 DEF CloseInv
<1>5. PICK n \in Nat : DOMAIN L = 1..n /\ L = [j \in 1..n |-> L[j]]
  BY <1>3 DEF IsList
<1>6. L \in Seq(Positions) /\ Len(L) = n /\ n # 0
  BY <1>3, <1>4, <1>5
<1>7. r.source = L[n]
  BY <1>1, <1>2, <1>6 DEF Latest, Last
<1>8. handover_chain(r) = L
  BY <1>1, <1>2, <1>3, <1>6, <1>7, NoneIsNoPosition, ChainIs
<1>9. PICK told, S : told = [k \in 1..Len(L) |-> RecordAt(L[k])] /\ S = {RecordAt(L[k]) : k \in 1..n} \cup {r}
  OBVIOUS
<1>10. told \in Seq(S) /\ Len(told) = n /\ r \in S /\ told[1] = RecordAt(i)
  BY <1>3, <1>5, <1>6, <1>9
<1>11. Chain(r) = Append(told, r)
  BY <1>8, <1>9 DEF Chain
<1>12. PICK c : c = Append(told, r)
  OBVIOUS
<1>13. c \in Seq(S) /\ Len(c) = n + 1 /\ c[n + 1] = r /\ c[1] = told[1]
  BY <1>6, <1>10, <1>12
<1>14. Head(c) = c[1] /\ Last(c) = c[n + 1]
  BY <1>13 DEF Last
<1> QED
  BY <1>1, <1>10, <1>11, <1>12, <1>13, <1>14

\* A drafted handover candidate is confirmed resolved, and its incident began unresolved.
LEMMA DraftedHandover ==
  ASSUME ChainInv, CloseInv, NEW body, Accepted(body), NEW k \in Telling(body),
         DOMAIN body[k] = RecordFields, NEW d \in Decisions(body[k]), d.kind = "T4", d.drafted
  PROVE  /\ body[k].about \in Opened /\ body[k].source = Latest(body[k].about)
         /\ body[k].about # None
         /\ handover_resolved(body[k])
         /\ RecordAt(body[k].about).outcome # "resolved"
<1>1. PICK r : r = body[k]
  OBVIOUS
<1>2. d \notin ObservationDecisions(r)
  BY DEF ObservationDecisions, Decision, Observed
<1>3. r.source # None /\ d = Decision("T4", ~handover_missing(Chain(r)))
  BY <1>1, <1>2 DEF Decisions, Decision
<1>4. ~handover_missing(Chain(r))
  BY <1>3 DEF Decision
<1>5. r.about # None /\ r.about \in Opened /\ r.source = Latest(r.about)
  BY <1>1, <1>3, FactsOfAccepted
<1>6. Head(Chain(r)) = RecordAt(r.about) /\ Last(Chain(r)) = r
  BY <1>5, ChainOfLatest
<1>7. RecordAt(r.about).outcome # "resolved"
  BY <1>4, <1>6 DEF handover_missing
<1>8. handover_resolved(handover_capture(Chain(r)))
  BY <1>4 DEF handover_missing, capture_missing
<1>9. PICK cause, steps : handover_capture(Chain(r)) = [r EXCEPT !.cause = cause, !.steps = steps]
  BY <1>6 DEF handover_capture
<1>10. handover_resolved(r)
  BY <1>1, <1>8, <1>9 DEF handover_resolved, RecordFields
<1> QED
  BY <1>1, <1>5, <1>7, <1>10

\* What a report leaves of the candidates.
LEMMA CloseSaves ==
  ASSUME ChainInv, CloseInv, NEW h \in Reports, NEW body \in Bodies, SaveReport(h, body)
  PROVE  CloseInv'
<1>1. /\ report[h] = <<>> /\ Accepted(body) /\ report' = [report EXCEPT ![h] = body]
      /\ incident' = [i \in Incidents |-> incident'[i]]
      /\ \A k \in Telling(body) :
           Home(h, body, k) \in Incidents => incident'[Home(h, body, k)] = Told(h, body, k)
      /\ \A i \in Incidents :
           \/ incident'[i] = incident[i]
           \/ \E k \in Telling(body) : i = Home(h, body, k)
  BY SavedIncidents
<1>2. report'[h] = body /\ \A g \in Reports : g # h => report'[g] = report[g]
  BY <1>1 DEF ChainInv
<1>3. /\ DOMAIN body \in SUBSET (1..MaxRecords)
      /\ \A k \in DOMAIN body : DOMAIN body[k] = RecordFields
  <2>0. PICK d \in Drafts :
           body \in {[k \in DOMAIN d |-> [d[k] EXCEPT !.about = l[k][1], !.source = l[k][2]]] :
                      l \in [DOMAIN d -> Links]}
    BY ZenonT(60) DEF Bodies
  <2>1. PICK l \in [DOMAIN d -> Links] :
           body = [k \in DOMAIN d |-> [d[k] EXCEPT !.about = l[k][1], !.source = l[k][2]]]
    BY <2>0
  <2>2. DOMAIN body = DOMAIN d /\ \A k \in DOMAIN d : DOMAIN body[k] = DOMAIN d[k]
    BY <2>1
  <2>3. /\ DOMAIN d = 1..Len(d) /\ Len(d) \in 1..MaxRecords /\ MaxRecords \in Nat
        /\ \A k \in DOMAIN d : d[k] = [f \in RecordFields |-> d[k][f]]
    BY ReportAssumption
  <2>4. \A k \in DOMAIN d : DOMAIN d[k] = RecordFields
    BY <2>3
  <2>5. 1..Len(d) \in SUBSET (1..MaxRecords)
    BY <2>3
  <2> QED
    BY <2>2, <2>3, <2>4, <2>5
<1>4. \A k \in Telling(body) : k \in DOMAIN body /\ <<h, k>> \in Positions
  BY <1>3 DEF Telling, Positions
<1>5. candidate' = candidate \cup Planned(h, body)
  BY DEF SaveReport
<1>6. ASSUME NEW c \in Planned(h, body)
      PROVE  \E k \in Telling(body) : \E d \in Decisions(body[k]) :
               c.at = <<h, k>> /\ c.kind = d.kind /\ c.drafted = d.drafted
  BY DEF Planned, Telling
<1>7. \A p : StoredIn(report, p) => p[1] # h
  BY <1>1 DEF StoredIn
<1>8. \A p : StoredIn(report, p) => StoredIn(report', p) /\ At(report', p) = At(report, p)
  BY <1>2, <1>7 DEF StoredIn, At
<1>9. ASSUME NEW k \in Telling(body), Home(h, body, k) \in Incidents
      PROVE  /\ incident'[Home(h, body, k)].records =
                  Append(incident[Home(h, body, k)].records, <<h, k>>)
             /\ IsList(incident[Home(h, body, k)].records)
  <2>1. PICK i \in Incidents : i = Home(h, body, k)
    BY <1>9
  <2>2. incident'[i] = Told(h, body, k)
    BY <1>1, <2>1
  <2>3. Told(h, body, k).records = Append(incident[i].records, <<h, k>>)
    BY <2>1 DEF Told
  <2>4. IsList(incident[i].records)
    BY DEF ChainInv, GoodIncident
  <2> QED
    BY <2>1, <2>2, <2>3, <2>4
<1>10. ASSUME NEW i \in Incidents, NEW j \in DOMAIN incident'[i].records
       PROVE  incident'[i].records[j] \in Positions
  <2>1. CASE incident'[i] = incident[i]
    BY <1>10, <2>1 DEF CloseInv
  <2>2. ASSUME NEW k \in Telling(body), i = Home(h, body, k)
        PROVE  incident'[i].records[j] \in Positions
    <3>1. PICK s, t : s = incident[i].records /\ t = incident'[i].records
      OBVIOUS
    <3>2. t = Append(s, <<h, k>>) /\ IsList(s)
      BY <1>9, <2>2, <3>1
    <3>3. PICK p : p = <<h, k>>
      OBVIOUS
    <3>4. /\ DOMAIN t = 1..(Len(s) + 1) /\ DOMAIN s = 1..Len(s) /\ Len(s) \in Nat
          /\ \A m \in DOMAIN s : t[m] = s[m]
          /\ t[Len(s) + 1] = p
      BY <3>2, <3>3, AppendList
    <3>5. \A m \in DOMAIN s : s[m] \in Positions
      BY <3>1 DEF CloseInv
    <3>6. p \in Positions /\ j \in DOMAIN t
      BY <1>4, <1>10, <3>1, <3>3
    <3> QED
      BY <3>1, <3>4, <3>5, <3>6
  <2> QED
    BY <1>1, <2>1, <2>2
<1>11. ASSUME NEW c \in candidate' PROVE StoredIn(report', c.at)
  <2>1. CASE c \in candidate
    BY <1>8, <2>1 DEF CloseInv
  <2>2. CASE c \in Planned(h, body)
    <3>1. PICK k \in Telling(body) : c.at = <<h, k>>
      BY <1>6, <2>2
    <3>2. k \in DOMAIN report'[h]
      BY <1>2, <1>4
    <3> QED
      BY <3>1, <3>2 DEF StoredIn
  <2> QED
    BY <1>5, <2>1, <2>2
<1>12. ASSUME NEW i \in Incidents, NEW c \in candidate'
       PROVE  Closes(report', i, incident'[i], c)
  <2> SUFFICES ASSUME c.kind = "T4", c.drafted, c.at \in Range(incident'[i].records)
               PROVE  /\ c.at = Last(incident'[i].records)
                      /\ handover_resolved(At(report', c.at))
                      /\ At(report', i).outcome # "resolved"
    BY DEF Closes
  <2>1. PICK s, t : s = incident[i].records /\ t = incident'[i].records
    OBVIOUS
  <2>2. \A j \in DOMAIN s : StoredIn(report, s[j]) /\ s[j][1] # h
    BY <1>7, <2>1 DEF ChainInv, GoodIncident
  <2>3. s # <<>> => i \in Opened
    BY <2>1 DEF Opened, NoIncident
  <2>4. i \in Opened => 1 \in DOMAIN s /\ s[1] = i
    BY <2>1 DEF Opened, ChainInv, GoodIncident
  <2>5. i \in Opened => At(report', i) = At(report, i)
    BY <1>8, <2>2, <2>4
  <2>6. ASSUME NEW k \in Telling(body), i = Home(h, body, k)
        PROVE  /\ DOMAIN t = 1..(Len(s) + 1) /\ DOMAIN s = 1..Len(s) /\ Len(s) \in Nat
               /\ \A m \in DOMAIN s : t[m] = s[m]
               /\ t[Len(s) + 1] = <<h, k>> /\ Last(t) = <<h, k>>
    <3>1. t = Append(s, <<h, k>>) /\ IsList(s)
      BY <1>9, <2>1, <2>6
    <3>2. PICK p : p = <<h, k>>
      OBVIOUS
    <3>3. /\ DOMAIN t = 1..(Len(s) + 1) /\ DOMAIN s = 1..Len(s) /\ Len(s) \in Nat
          /\ \A m \in DOMAIN s : t[m] = s[m]
          /\ t[Len(s) + 1] = p /\ IsList(t)
      BY <3>1, <3>2, AppendList
    <3>4. Len(t) = Len(s) + 1
      BY <3>3, AppendList
    <3>5. Last(t) = p
      BY <3>3, <3>4 DEF Last
    <3> QED
      BY <3>2, <3>3, <3>5
  <2>7. PICK m \in DOMAIN t : c.at = t[m]
    BY <2>1 DEF Range
  <2>8. CASE c \in candidate
    <3>1. StoredIn(report, c.at) /\ c.at[1] # h
      BY <1>7, <2>8 DEF CloseInv
    <3>2. At(report', c.at) = At(report, c.at)
      BY <1>8, <3>1
    <3>3. c.at \in Range(s) =>
            c.at = Last(s) /\ handover_resolved(At(report, c.at)) /\ At(report, i).outcome # "resolved"
      BY <2>1, <2>8 DEF CloseInv, Closes
    <3>4. CASE incident'[i] = incident[i]
      <4>1. c.at \in Range(s) /\ s # <<>> /\ t = s
        BY <2>1, <2>7, <3>4 DEF Range
      <4> QED
        BY <2>1, <2>3, <2>5, <3>2, <3>3, <4>1
    <3>5. ASSUME NEW k \in Telling(body), i = Home(h, body, k) PROVE FALSE
      <4>1. m \in DOMAIN s
        <5>1. t[Len(s) + 1][1] = h
          BY <2>6, <3>5
        <5> QED
          BY <2>6, <2>7, <3>1, <3>5, <5>1
      <4>2. c.at \in Range(s) /\ s # <<>>
        BY <2>6, <2>7, <3>5, <4>1 DEF Range
      <4>3. i \in Opened /\ c.at = Last(s) /\ handover_resolved(At(report, c.at))
        BY <2>3, <3>3, <4>2
      <4>4. body[k].about = i /\ body[k].about # None
        <5>1. body[k].about = None => i = <<h, k>>
          BY <3>5 DEF Home
        <5>2. i # <<h, k>>
          BY <1>1, <4>3, FreshReport
        <5> QED
          BY <3>5, <5>1, <5>2 DEF Home
      <4>5. body[k].source # None /\ body[k].source = Latest(i)
        BY <1>1, <4>4, FactsOfAccepted
      <4>6. ~Closed(body[k].source)
        BY <1>1, <4>5 DEF Telling, Accepted, FollowsLatest
      <4>7. body[k].source = c.at
        BY <2>1, <4>3, <4>5 DEF Latest
      <4> QED
        BY <2>8, <4>3, <4>6, <4>7 DEF Closed, RecordAt, At
    <3> QED
      BY <1>1, <3>4, <3>5
  <2>9. CASE c \in Planned(h, body)
    <3>0. PICK k \in Telling(body) : \E d \in Decisions(body[k]) :
             c.at = <<h, k>> /\ c.kind = d.kind /\ c.drafted = d.drafted
      BY <1>6, <2>9
    <3>1. PICK d \in Decisions(body[k]) :
             c.at = <<h, k>> /\ c.kind = d.kind /\ c.drafted = d.drafted
      BY <3>0
    <3>2. /\ body[k].about \in Opened /\ body[k].about # None
          /\ handover_resolved(body[k])
          /\ RecordAt(body[k].about).outcome # "resolved"
      BY <1>1, <1>3, <1>4, <3>1, DraftedHandover
    <3>3. m \notin DOMAIN s \/ t # s
      <4>1. t[m][1] = h
        BY <2>7, <3>1
      <4> QED
        BY <2>2, <4>1
    <3>4. PICK n \in Telling(body) : i = Home(h, body, n)
      BY <1>1, <2>1, <2>7, <3>3
    <3>5. m = Len(s) + 1
      <4>1. m \in DOMAIN s => t[m] = s[m] /\ s[m][1] # h
        BY <2>2, <2>6, <3>4
      <4>2. t[m][1] = h
        BY <2>7, <3>1
      <4>3. m \in 1..(Len(s) + 1) /\ DOMAIN s = 1..Len(s) /\ Len(s) \in Nat
        BY <2>6, <2>7, <3>4
      <4> QED
        BY <4>1, <4>2, <4>3
    <3>6. <<h, k>> = <<h, n>>
      BY <2>6, <2>7, <3>1, <3>4, <3>5
    <3>7. n = k
      BY <3>6
    <3>8. i = body[k].about /\ i \in Opened
      BY <3>2, <3>4, <3>7 DEF Home
    <3>9. c.at = Last(t)
      BY <2>6, <3>1, <3>4, <3>7
    <3>10. At(report', c.at) = body[k]
      BY <1>2, <3>1 DEF At
    <3>11. At(report', i).outcome # "resolved"
      BY <2>5, <3>2, <3>8 DEF RecordAt, At
    <3> QED
      BY <2>1, <3>2, <3>9, <3>10, <3>11
  <2> QED
    BY <1>5, <2>8, <2>9
<1> QED
  BY <1>10, <1>11, <1>12 DEF CloseInv

LEMMA CloseNextInv == ChainInv /\ CloseInv /\ [ReportNext]_reportVars => CloseInv'
<1> SUFFICES ASSUME ChainInv, CloseInv, [ReportNext]_reportVars PROVE CloseInv'
  OBVIOUS
<1>1. CASE UNCHANGED <<report, incident, candidate>>
  BY <1>1 DEF CloseInv
<1>2. ASSUME NEW h \in Reports, NEW body \in Bodies, SaveReport(h, body) PROVE CloseInv'
  BY <1>2, CloseSaves
<1> QED
  BY <1>1, <1>2 DEF ReportNext, reportVars, ReplaceAsset, EditConfig, AskQuery, LogQuery, DraftResolution

LEMMA CloseInitInv == ReportInit => CloseInv
<1> SUFFICES ASSUME ReportInit PROVE CloseInv
  OBVIOUS
<1>1. candidate = {} /\ \A i \in Incidents : incident[i].records = <<>>
  BY DEF ReportInit, NoIncident
<1> QED
  BY <1>1 DEF CloseInv

\* A drafted handover candidate closes its incident: it is of the newest record, confirmed
\* resolved, of a history that began unresolved (work_reports.py: handover_chain,
\* handover_missing; the check of closed incidents in MesService._plan_work_report).
THEOREM HandoversCorrect == ReportSpec => []HandoverCandidateCloses
<1>1. ReportInit => ChainInv /\ CloseInv
  BY ReportInitInv, CloseInitInv
<1>2. ChainInv /\ CloseInv /\ [ReportNext]_reportVars => ChainInv' /\ CloseInv'
  BY ChainNextInv, CloseNextInv
<1> QED
  BY <1>1, <1>2, CloseInvImplies, PTL DEF ReportSpec

-----------------------------------------------------------------------------
(* The queries an incident cites.                                          *)

QueriesFit ==
  /\ query = [q \in Queries |-> query[q]]
  /\ \A q \in Queries : IsQueryRow(query[q])
  /\ \A q \in Queries : query[q].about # None =>
       /\ query[q].about \in Opened
       /\ query[q].equipment \in DOMAIN incident[query[q].about].assets
       /\ incident[query[q].about].assets[query[q].equipment] = AssetOf(q)

CiteInv ==
  /\ ChainInv /\ QueriesFit /\ CitationsKeepTheAsset
  /\ \A ct \in citation : ct[2] \in Queries

\* An incident that is told of has a record.
LEMMA ToldSomething ==
  ASSUME ChainInv, NEW h, NEW body, NEW k, Home(h, body, k) \in Incidents
  PROVE  Told(h, body, k) # NoIncident
<1>1. PICK s : s = incident[Home(h, body, k)].records
  OBVIOUS
<1>2. IsList(s)
  BY <1>1 DEF ChainInv, GoodIncident
<1>3. DOMAIN Append(s, <<h, k>>) = 1..(Len(s) + 1) /\ Len(s) \in Nat
  BY <1>2, AppendList
<1>4. 1 \in DOMAIN Append(s, <<h, k>>)
  BY <1>3
<1>5. Told(h, body, k).records = Append(s, <<h, k>>)
  BY <1>1 DEF Told
<1>6. DOMAIN NoIncident.records = {}
  BY DEF NoIncident
<1> QED
  BY <1>4, <1>5, <1>6

\* An incident keeps the assets it was opened with.
LEMMA AssetsStay ==
  ASSUME ChainInv, NEW h \in Reports, NEW body, SaveReport(h, body), NEW i \in Opened
  PROVE  i \in Opened' /\ incident'[i].assets = incident[i].assets
<1>1. /\ report[h] = <<>> /\ Accepted(body)
      /\ \A k \in Telling(body) :
           Home(h, body, k) \in Incidents => incident'[Home(h, body, k)] = Told(h, body, k)
      /\ \A j \in Incidents :
           \/ incident'[j] = incident[j]
           \/ \E k \in Telling(body) : j = Home(h, body, k)
  BY SavedIncidents
<1>2. i \in Incidents /\ incident[i] # NoIncident
  BY DEF Opened
<1>3. CASE incident'[i] = incident[i]
  BY <1>2, <1>3 DEF Opened
<1>4. ASSUME NEW k \in Telling(body), i = Home(h, body, k)
      PROVE  i \in Opened' /\ incident'[i].assets = incident[i].assets
  <2>1. body[k].about # None
    <3>1. i # <<h, k>>
      BY <1>1, FreshReport
    <3> QED
      BY <1>4, <3>1 DEF Home
  <2>2. i = body[k].about
    BY <1>4, <2>1 DEF Home
  <2>3. incident[i].assets = AssetsOf(body[k])
    BY <1>1, <2>1, <2>2, FactsOfAccepted
  <2>4. incident'[i] = Told(h, body, k)
    BY <1>1, <1>2, <1>4
  <2>5. Told(h, body, k).assets = AssetsOf(body[k])
    BY DEF Told
  <2>6. Told(h, body, k) # NoIncident
    BY <1>1, <1>2, <1>4, ToldSomething
  <2> QED
    BY <1>2, <2>3, <2>4, <2>5, <2>6 DEF Opened
<1> QED
  BY <1>1, <1>2, <1>3, <1>4

\* What a new report cites.
LEMMA NewCitations ==
  ASSUME CiteInv, NEW h \in Reports, NEW body, SaveReport(h, body), DOMAIN body \subseteq 1..MaxRecords,
         NEW k \in Telling(body), body[k].query # None
  PROVE  /\ body[k].query \in Queries /\ query[body[k].query].logged
         /\ Home(h, body, k) \in Opened'
         /\ query[body[k].query].equipment \in DOMAIN incident'[Home(h, body, k)].assets
         /\ incident'[Home(h, body, k)].assets[query[body[k].query].equipment] = AssetOf(body[k].query)
         /\ query[body[k].query].about # None => query[body[k].query].about = Home(h, body, k)
<1>1. /\ report[h] = <<>> /\ Accepted(body)
      /\ \A j \in Telling(body) :
           Home(h, body, j) \in Incidents => incident'[Home(h, body, j)] = Told(h, body, j)
  BY SavedIncidents DEF CiteInv
<1>2. PICK q : q = body[k].query
  OBVIOUS
<1>3. k \in DOMAIN body /\ has_incident(body[k])
  BY DEF Telling
<1>4. CitesFittingQuery(body[k])
  BY <1>1, <1>3 DEF Accepted
<1>5. /\ q \in Queries /\ query[q].logged /\ query[q].equipment \in body[k].equipment
      /\ AssetOf(q) = installed[query[q].equipment]
      /\ query[q].about # None => query[q].about = body[k].about
  BY <1>2, <1>4 DEF CitesFittingQuery
<1>6. Home(h, body, k) \in Incidents
  <2>1. CASE body[k].about = None
    BY <1>3, <2>1 DEF Home, Incidents, Positions
  <2>2. CASE body[k].about # None
    BY <1>1, <2>2, FactsOfAccepted DEF Home, Opened
  <2> QED
    BY <2>1, <2>2
<1>7. incident'[Home(h, body, k)] = Told(h, body, k)
  BY <1>1, <1>6
<1>8. Told(h, body, k).assets = [e \in body[k].equipment |-> installed[e]]
  BY DEF Told, AssetsOf
<1>9. Told(h, body, k) # NoIncident
  BY <1>1, <1>6, ToldSomething DEF CiteInv
<1>10. query[q].about # None => query[q].about = Home(h, body, k)
  <2> SUFFICES ASSUME query[q].about # None PROVE query[q].about = Home(h, body, k)
    OBVIOUS
  <2>1. body[k].about = query[q].about
    BY <1>5
  <2> QED
    BY <2>1 DEF Home
<1>11. Home(h, body, k) \in Opened'
  BY <1>6, <1>7, <1>9 DEF Opened
<1> QED
  BY <1>2, <1>5, <1>7, <1>8, <1>10, <1>11

\* What the sentence about queries and their incidents needs from a step.
LEMMA QueriesKeep ==
  ASSUME CiteInv, UNCHANGED query,
         \A i \in Opened : i \in Opened' /\ incident'[i].assets = incident[i].assets
  PROVE  QueriesFit'
  BY DEF CiteInv, QueriesFit, AssetOf

LEMMA CiteNextInv == CiteInv /\ [ReportNext]_reportVars => CiteInv'
<1> SUFFICES ASSUME CiteInv, [ReportNext]_reportVars PROVE CiteInv'
  OBVIOUS
<1>0. ChainInv'
  BY ChainNextInv DEF CiteInv
<1>1. CASE UNCHANGED <<incident, query, citation>>
  BY <1>0, <1>1 DEF CiteInv, QueriesFit, AssetOf, Opened, CitationsKeepTheAsset
<1>2. ASSUME NEW q \in Queries, NEW e \in Equipment, NEW i \in Opened \cup {None}, AskQuery(q, e, i)
      PROVE  CiteInv'
  <2>1. PICK row : row = [equipment |-> e, config |-> installed, edition |-> edition, about |-> i,
                        gap |-> FALSE, logged |-> FALSE]
    OBVIOUS
  <2>2. /\ query[q] = NoQuery /\ query' = [query EXCEPT ![q] = row]
        /\ i # None => /\ i \in Opened /\ e \in DOMAIN incident[i].assets
                       /\ incident[i].assets[e] = installed[e]
        /\ UNCHANGED <<incident, citation>>
    BY <1>2, <2>1 DEF AskQuery
  <2>3. IsQueryRow(row) /\ row.equipment = e /\ row.config = installed /\ row.about = i
    BY <2>1 DEF IsQueryRow
  <2>4. query = [p \in Queries |-> query[p]]
    BY DEF CiteInv, QueriesFit
  <2>5. query'[q] = row /\ \A p \in Queries : p # q => query'[p] = query[p]
    BY <2>2, <2>4
  <2>6. query' = [p \in Queries |-> query'[p]]
    BY <2>2, <2>4
  <2>7. ASSUME NEW p \in Queries
        PROVE  /\ IsQueryRow(query'[p])
               /\ query'[p].about # None =>
                    /\ query'[p].about \in Opened
                    /\ query'[p].equipment \in DOMAIN incident[query'[p].about].assets
                    /\ incident[query'[p].about].assets[query'[p].equipment]
                         = query'[p].config[query'[p].equipment]
    <3>1. CASE p = q
      BY <2>2, <2>3, <2>5, <3>1
    <3>2. CASE p # q
      BY <2>5, <3>2 DEF CiteInv, QueriesFit, AssetOf
    <3> QED
      BY <3>1, <3>2
  <2>8. QueriesFit'
    BY <2>2, <2>6, <2>7 DEF QueriesFit, AssetOf, Opened
  <2>9. ASSUME NEW ct \in citation PROVE ct[2] \in Queries /\ query'[ct[2]] = query[ct[2]]
    <3>1. ct[2] \in Queries /\ query[ct[2]].logged
      BY DEF CiteInv, CitationsKeepTheAsset
    <3>2. ct[2] # q
      BY <2>2, <3>1 DEF NoQuery
    <3> QED
      BY <2>5, <3>1, <3>2
  <2> QED
    BY <1>0, <2>2, <2>8, <2>9 DEF CiteInv, CitationsKeepTheAsset, AssetOf, Opened
<1>3. ASSUME NEW q \in Queries, NEW gap \in BOOLEAN, LogQuery(q, gap) PROVE CiteInv'
  <2>1. PICK row : row = [query[q] EXCEPT !.logged = TRUE, !.gap = gap]
    OBVIOUS
  <2>2. query = [p \in Queries |-> query[p]] /\ IsQueryRow(query[q])
    BY DEF CiteInv, QueriesFit
  <2>3. query' = [query EXCEPT ![q].logged = TRUE, ![q].gap = gap] /\ UNCHANGED incident
        /\ citation' = IF query[q].about = None THEN citation
                       ELSE citation \cup {<<query[q].about, q>>}
    BY <1>3 DEF LogQuery
  <2>4. query' = [query EXCEPT ![q] = row]
    <3>1. q \in DOMAIN query
      BY <2>2
    <3> QED
      BY <2>1, <2>3, <3>1
  <2>5. /\ IsQueryRow(row) /\ row.equipment = query[q].equipment /\ row.config = query[q].config
        /\ row.about = query[q].about /\ row.logged = TRUE
    BY <2>1, <2>2 DEF IsQueryRow
  <2>6. query' = [p \in Queries |-> query'[p]]
        /\ query'[q] = row /\ \A p \in Queries : p # q => query'[p] = query[p]
    BY <2>2, <2>4
  <2>7. ASSUME NEW p \in Queries
        PROVE  /\ IsQueryRow(query'[p]) /\ query'[p].about = query[p].about
               /\ query'[p].equipment = query[p].equipment /\ query'[p].config = query[p].config
               /\ query[p].logged => query'[p].logged
    <3>1. CASE p = q
      BY <2>5, <2>6, <3>1
    <3>2. CASE p # q
      BY <2>6, <3>2 DEF CiteInv, QueriesFit
    <3> QED
      BY <3>1, <3>2
  <2>8. QueriesFit'
    BY <2>3, <2>6, <2>7 DEF CiteInv, QueriesFit, AssetOf, Opened
  <2>9. ASSUME NEW ct \in citation'
        PROVE  /\ ct[2] \in Queries /\ ct[1] \in Opened /\ query'[ct[2]].logged
               /\ query'[ct[2]].equipment \in DOMAIN incident[ct[1]].assets
               /\ incident[ct[1]].assets[query'[ct[2]].equipment]
                    = query'[ct[2]].config[query'[ct[2]].equipment]
               /\ query'[ct[2]].about # None => query'[ct[2]].about = ct[1]
    <3>1. CASE ct \in citation
      BY <2>7, <3>1 DEF CiteInv, CitationsKeepTheAsset, AssetOf
    <3>2. CASE ct \notin citation
      <4>1. query[q].about # None /\ ct = <<query[q].about, q>>
        BY <2>3, <3>2
      <4>2. ct[1] = query[q].about /\ ct[2] = q
        BY <4>1
      <4> QED
        BY <2>5, <2>6, <2>7, <4>1, <4>2 DEF CiteInv, QueriesFit, AssetOf
    <3> QED
      BY <3>1, <3>2
  <2> QED
    BY <1>0, <2>3, <2>8, <2>9 DEF CiteInv, CitationsKeepTheAsset, AssetOf, Opened
<1>4. ASSUME NEW h \in Reports, NEW body \in Bodies, SaveReport(h, body) PROVE CiteInv'
  <2>1. DOMAIN body \subseteq 1..MaxRecords
    <3>1. PICK d \in Drafts :
            body \in {[k \in DOMAIN d |-> [d[k] EXCEPT !.about = l[k][1], !.source = l[k][2]]] :
                        l \in [DOMAIN d -> Links]}
      BY Zenon DEF Bodies
    <3>2. PICK l \in [DOMAIN d -> Links] :
            body = [k \in DOMAIN d |-> [d[k] EXCEPT !.about = l[k][1], !.source = l[k][2]]]
      BY <3>1, Zenon
    <3>3. DOMAIN body = DOMAIN d
      BY <3>2, Zenon
    <3>4. DOMAIN d = 1..Len(d) /\ Len(d) \in 1..MaxRecords /\ MaxRecords \in Nat
      BY ReportAssumption
    <3> QED
      BY <3>3, <3>4
  <2>2. \A i \in Opened : i \in Opened' /\ incident'[i].assets = incident[i].assets
    BY <1>4, AssetsStay DEF CiteInv
  <2>3. UNCHANGED query
    BY <1>4 DEF SaveReport
  <2>4. QueriesFit'
    BY <2>2, <2>3, QueriesKeep
  <2>5. \A ct \in citation' : ct \in citation \/
          \E k \in Telling(body) : body[k].query # None /\ ct = <<Home(h, body, k), body[k].query>>
    BY <1>4 DEF SaveReport, Telling, Home
  <2>6. ASSUME NEW ct \in citation'
        PROVE  /\ ct[2] \in Queries /\ ct[1] \in Opened' /\ query[ct[2]].logged
               /\ query[ct[2]].equipment \in DOMAIN incident'[ct[1]].assets
               /\ incident'[ct[1]].assets[query[ct[2]].equipment] = AssetOf(ct[2])
               /\ query[ct[2]].about # None => query[ct[2]].about = ct[1]
    <3>1. CASE ct \in citation
      BY <2>2, <3>1 DEF CiteInv, CitationsKeepTheAsset
    <3>2. ASSUME NEW k \in Telling(body), body[k].query # None,
                 ct = <<Home(h, body, k), body[k].query>>
          PROVE  /\ ct[2] \in Queries /\ ct[1] \in Opened' /\ query[ct[2]].logged
                 /\ query[ct[2]].equipment \in DOMAIN incident'[ct[1]].assets
                 /\ incident'[ct[1]].assets[query[ct[2]].equipment] = AssetOf(ct[2])
                 /\ query[ct[2]].about # None => query[ct[2]].about = ct[1]
      <4>1. ct[1] = Home(h, body, k) /\ ct[2] = body[k].query
        BY <3>2
      <4> QED
        BY <1>4, <2>1, <3>2, <4>1, NewCitations
    <3> QED
      BY <2>5, <3>1, <3>2
  <2> QED
    BY <1>0, <2>3, <2>4, <2>6 DEF CiteInv, CitationsKeepTheAsset, AssetOf
<1> QED
  BY <1>1, <1>2, <1>3, <1>4 DEF ReportNext, reportVars, ReplaceAsset, EditConfig, DraftResolution

\* A query counted to an incident was asked about the asset that broke down.
THEOREM CitationsCorrect == ReportSpec => []CitationsKeepTheAsset
<1>1. ReportInit => CiteInv
  <2> SUFFICES ASSUME ReportInit PROVE CiteInv
    OBVIOUS
  <2>1. ChainInv
    BY ReportInitInv
  <2>2. query = [q \in Queries |-> NoQuery] /\ citation = {}
    BY DEF ReportInit
  <2>3. IsQueryRow(NoQuery) /\ NoQuery.about = None
    BY DEF NoQuery, IsQueryRow
  <2>4. QueriesFit
    BY <2>2, <2>3 DEF QueriesFit
  <2> QED
    BY <2>1, <2>2, <2>4 DEF CiteInv, CitationsKeepTheAsset
<1>2. CiteInv => CitationsKeepTheAsset
  BY DEF CiteInv
<1> QED
  BY <1>1, <1>2, CiteNextInv, PTL DEF ReportSpec

=============================================================================
