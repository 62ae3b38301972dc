------------------------------ MODULE Accounts ------------------------------
(***************************************************************************)
(* Accounts of the MES (accounts.py): administrators log in and register   *)
(* operators, operators log in at a PDA, and reviews ask who is behind a   *)
(* token (Accounts.administrator).                                         *)
(*                                                                         *)
(* Requests hold the lock of Accounts to their end.  The account file is   *)
(* replaced by a complete new one; sessions and failed attempts are kept   *)
(* in memory and are lost by a crash, which may strike between any two     *)
(* writes.  A password is right or wrong; tokens are numbered.             *)
(***************************************************************************)
EXTENDS Integers, Sequences, FiniteSets, Subsequences

CONSTANTS
  Employees,           \* employee numbers that are logged in or registered
  Admin,         \* the administrator of a fresh installation
  MaxFailures,   \* failed attempts that close the login (5)
  Window,        \* seconds they count for (60)
  Lifetime,      \* seconds a session lasts (3600)
  MaxClock, MaxTokens, MaxAttempts   \* bounds

ASSUME AccountAssumption ==
  /\ Admin \in Employees /\ MaxFailures \in Nat \ {0}
  /\ Window \in Nat \ {0} /\ Lifetime \in Nat \ {0}
  /\ {MaxClock, MaxTokens, MaxAttempts} \subseteq Nat

VARIABLES
  file,          \* accounts.json: "absent", "empty" (created, not written) or "written"
  accounts,      \* its rows: the role of each registered employee number
  running,       \* whether the server is up
  failures,      \* times of the failed attempts, as remembered
  sessions,      \* token -> time it expires
  session_actors,\* token -> employee number
  clock,         \* seconds of the monotonic clock
  tokens,        \* tokens handed out
  answered,      \* employee numbers whose registration was confirmed
  attempts       \* logins since the start whose password was looked at

accountVars == <<file, accounts, running, failures, sessions, session_actors,
                 clock, tokens, answered, attempts>>
memory == <<failures, sessions, session_actors>>
ledger == <<answered, attempts>>

NoAccounts == [i \in {} |-> ""]
Without(f, S) == [t \in DOMAIN f \ S |-> f[t]]

AccountInit ==
  /\ file = "absent" /\ accounts = NoAccounts /\ running = FALSE
  /\ failures = <<>> /\ sessions = NoAccounts /\ session_actors = NoAccounts
  /\ clock = 1 /\ tokens = 0
  /\ answered = {} /\ attempts = <<>>

\* __init__ on a fresh installation creates the file and then fills it.
CreateFile ==
  /\ ~running /\ file = "absent"
  /\ file' = "empty"
  /\ UNCHANGED <<accounts, running, memory, clock, tokens, ledger>>

FillFile ==
  /\ ~running /\ file = "empty"
  /\ file' = "written" /\ accounts' = [i \in {Admin} |-> "admin"] /\ running' = TRUE
  /\ UNCHANGED <<memory, clock, tokens, ledger>>

\* Mutant: every start writes the accounts of a fresh installation.
StartAfresh ==
  /\ ~running /\ file # "absent" /\ running' = TRUE
  /\ file' = "written" /\ accounts' = [i \in {Admin} |-> "admin"]
  /\ UNCHANGED <<memory, clock, tokens, ledger>>
\* A start that finds a file leaves it as it is, an empty one included.
StartAccounts ==
  /\ ~running /\ file # "absent" /\ running' = TRUE
  /\ UNCHANGED <<file, accounts, memory, clock, tokens, ledger>>

CrashAccounts ==
  /\ running /\ running' = FALSE
  /\ failures' = <<>> /\ sessions' = NoAccounts /\ session_actors' = NoAccounts
  /\ attempts' = <<>>
  /\ UNCHANGED <<file, accounts, clock, tokens, answered>>

PassTime ==
  /\ clock < MaxClock /\ clock' = clock + 1
  /\ UNCHANGED <<file, accounts, running, memory, tokens, ledger>>

\* Every request first drops the sessions that have expired, then reads the
\* file; one it cannot read answers 400.
Live == {t \in DOMAIN sessions : sessions[t] > clock}
DropExpired ==
  /\ sessions' = [t \in Live |-> sessions[t]]
  /\ session_actors' = [t \in Live |-> session_actors[t]]

Unreadable ==
  /\ running /\ file = "empty"
  /\ DropExpired
  /\ UNCHANGED <<file, accounts, running, failures, clock, tokens, ledger>>

Recent == Selected(failures, {k \in DOMAIN failures : clock - failures[k] < Window})

\* Five recent failures refuse the login before the password is looked at.
RefuseLogin ==
  /\ running /\ file = "written" /\ Len(Recent) >= MaxFailures
  /\ failures' = Recent /\ DropExpired
  /\ UNCHANGED <<file, accounts, running, clock, tokens, ledger>>

\* Mutant: one attempt more.
MayLoginOnceMore ==
  /\ running /\ file = "written" /\ Len(Recent) <= MaxFailures
  /\ Len(attempts) < MaxAttempts
MayLogin ==
  /\ running /\ file = "written" /\ Len(Recent) < MaxFailures
  /\ Len(attempts) < MaxAttempts

\* An unknown number, a wrong role or a wrong password.
FailLogin ==
  /\ MayLogin
  /\ failures' = Append(Recent, clock)
  /\ attempts' = Append(attempts, [at |-> clock, ok |-> FALSE])
  /\ DropExpired
  /\ UNCHANGED <<file, accounts, running, clock, tokens, answered>>

\* An administrator gets a session, an operator only the confirmation.
Login(i, role) ==
  /\ MayLogin /\ i \in DOMAIN accounts /\ accounts[i] = role
  /\ failures' = <<>>
  /\ attempts' = Append(attempts, [at |-> clock, ok |-> TRUE])
  /\ IF role = "admin"
     THEN /\ tokens < MaxTokens /\ tokens' = tokens + 1
          /\ sessions' = [t \in Live \cup {tokens'} |->
               IF t = tokens' THEN clock + Lifetime ELSE sessions[t]]
          /\ session_actors' = [t \in Live \cup {tokens'} |->
               IF t = tokens' THEN i ELSE session_actors[t]]
     ELSE DropExpired /\ UNCHANGED tokens
  /\ UNCHANGED <<file, accounts, running, clock, answered>>

Logout(t) ==
  /\ running /\ file = "written" /\ t \in Live
  /\ sessions' = [u \in Live \ {t} |-> sessions[u]]
  /\ session_actors' = [u \in Live \ {t} |-> session_actors[u]]
  /\ UNCHANGED <<file, accounts, running, failures, clock, tokens, ledger>>

\* administrator(), asked by a review, drops the session it finds expired.
Administrator(t) ==
  /\ running /\ t \in DOMAIN sessions /\ sessions[t] <= clock
  /\ sessions' = Without(sessions, {t})
  /\ session_actors' = Without(session_actors, {t})
  /\ UNCHANGED <<file, accounts, running, failures, clock, tokens, ledger>>

\* Registering an operator: a complete new file takes the place of the old one
\* in one step (nothing has happened if the server ends or the disk refuses
\* before), and the answer follows unless the server ends in between.
Register(i, t) ==
  /\ running /\ file = "written" /\ t \in Live /\ i \notin DOMAIN accounts
  /\ accounts' = [j \in DOMAIN accounts \cup {i} |->
       IF j = i THEN "operator" ELSE accounts[j]]
  /\ \/ answered' = answered \cup {i} /\ DropExpired
        /\ UNCHANGED <<running, failures, attempts>>
     \/ /\ running' = FALSE /\ failures' = <<>> /\ attempts' = <<>>
        /\ sessions' = NoAccounts /\ session_actors' = NoAccounts
        /\ UNCHANGED answered
  /\ UNCHANGED <<file, clock, tokens>>

AccountNext ==
  \/ CreateFile \/ FillFile \/ StartAccounts \/ CrashAccounts \/ PassTime
  \/ Unreadable \/ RefuseLogin \/ FailLogin
  \/ \E i \in Employees, role \in {"admin", "operator"} : Login(i, role)
  \/ \E t \in 1..MaxTokens : Logout(t) \/ Administrator(t) \/ \E i \in Employees : Register(i, t)

AccountSpec == AccountInit /\ [][AccountNext]_accountVars

-----------------------------------------------------------------------------
(* Properties.                                                             *)

\* A registration that was confirmed outlives crashes, the requests after it
\* and the end of its administrator's session, and never changes its role.
ConfirmedAccountsStay ==
  \A i \in answered : file = "written" /\ i \in DOMAIN accounts /\ accounts[i] = "operator"

\* While the server runs, six passwords in a row that are looked at and are
\* wrong span at least the minute for which failures count.
GuessesAreSlow ==
  \A k \in 1..(Len(attempts) - MaxFailures) :
    (\A n \in k..(k + MaxFailures) : ~attempts[n].ok) =>
      attempts[k + MaxFailures].at - attempts[k].at >= Window

=============================================================================
