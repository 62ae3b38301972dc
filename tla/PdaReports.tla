----------------------------- MODULE PdaReports -----------------------------
(***************************************************************************)
(* Work reports and handover notes as a PDA writes and sends them          *)
(* (pda.js: submitHandover, openReport, saveReport, openHandoverNew, the   *)
(* hoSave button).  What is being sent is kept in the browser's storage    *)
(* until the server has confirmed it, a report being written is kept there *)
(* as a draft, and the page may be reloaded at any moment.                 *)
(*                                                                         *)
(* A report is its words - what goes into memo_text and required_context,  *)
(* which are compared with what is waiting - and its rest: the steps,      *)
(* outcomes and candidates of its records.  A note is words only.          *)
(***************************************************************************)
EXTENDS Integers, FiniteSets

CONSTANTS
  Words, Rest,     \* what may be written
  Blank,            \* an empty field
  MaxIds, MaxPosts, MaxReloads, MaxOverdue   \* bounds

ASSUME DraftAssumption ==
  /\ Blank \in Words \cap Rest
  /\ {MaxIds, MaxPosts, MaxReloads, MaxOverdue} \subseteq Nat

VARIABLES
  sheet,        \* "home", "report" or "note"
  form,         \* the report on screen
  loaded,       \* S.reportDraftLoaded
  saving,       \* the report's save button is disabled
  memo,         \* the note on screen
  noting,       \* the note's save button is disabled
  draft,        \* localStorage: the report being written
  pending,      \* localStorage: what is being sent
  posts,        \* requests sent and not yet answered
  ids,          \* handover ids made up so far
  saved,        \* at the server: what each id stands for
  confirmed,    \* history: ids whose saving the worker was told of
  overlapped,   \* history: the note was sent again while it was still being sent
  reloads, overdue

draftVars == <<sheet, form, loaded, saving, memo, noting, draft, pending, posts, ids,
                saved, confirmed, overlapped, reloads, overdue>>
onScreen == <<sheet, form, loaded, saving, memo, noting>>
history == <<confirmed, overlapped, reloads, overdue>>

Empty == [words |-> Blank, rest |-> Blank]
Nothing == [id |-> 0, kind |-> "none", words |-> Blank, rest |-> Blank]
Content(p) == [words |-> p.words, rest |-> p.rest]

ReportsInit ==
  /\ sheet = "home" /\ form = Empty /\ loaded = FALSE /\ saving = FALSE
  /\ memo = Blank /\ noting = FALSE
  /\ draft = Empty /\ pending = Nothing
  /\ posts = {} /\ ids = 0 /\ saved = [i \in {} |-> Nothing]
  /\ confirmed = {} /\ overlapped = FALSE
  /\ reloads = 0 /\ overdue = 0

-----------------------------------------------------------------------------
(* Writing.                                                                *)

\* A report that is being sent comes before the draft.
openReport ==
  /\ sheet' = "report" /\ loaded' = TRUE
  /\ form' = IF pending.kind = "work_log" THEN Content(pending) ELSE draft
  /\ draft' = form'
  /\ UNCHANGED <<saving, memo, noting, pending, posts, ids, saved, history>>

openHandoverNew ==
  IF pending.kind = "work_log" THEN openReport
  ELSE /\ sheet' = "note"
       /\ memo' = IF pending.kind = "handover" THEN pending.words ELSE memo
       /\ noting' = (memo' = Blank)
       /\ UNCHANGED <<form, loaded, saving, draft, pending, posts, ids, saved, history>>

\* Every input of the report is stored as a draft, also while a save is under way.
EditReport(w, r) ==
  /\ sheet = "report" /\ form # [words |-> w, rest |-> r]
  /\ form' = [words |-> w, rest |-> r]
  /\ draft' = IF loaded THEN form' ELSE draft
  /\ UNCHANGED <<sheet, loaded, saving, memo, noting, pending, posts, ids, saved, history>>

\* validateHandover: an input enables the save button again.
EditNote(w) ==
  /\ sheet = "note" /\ memo # w
  /\ memo' = w /\ noting' = (w = Blank)
  /\ UNCHANGED <<sheet, form, loaded, saving, draft, pending, posts, ids, saved, history>>

-----------------------------------------------------------------------------
(* Sending.                                                                *)

\* Mutant: another id for every attempt.
PayloadAnew(kind, content) ==
  [id |-> ids + 1, kind |-> kind, words |-> content.words, rest |-> content.rest]
\* submitHandover: what is waiting goes out again as it was stored.
Payload(kind, content) ==
  IF pending # Nothing THEN pending
  ELSE [id |-> ids + 1, kind |-> kind, words |-> content.words, rest |-> content.rest]

Refused(kind, content) ==
  pending # Nothing /\ ~(pending.words = content.words /\ pending.kind = kind)

Awaited == {q \in posts : q.awaited}

submitHandover(kind, content) ==
  /\ ~Refused(kind, content)
  /\ Payload(kind, content).id <= MaxIds /\ Cardinality(Awaited) < MaxPosts
  /\ pending' = Payload(kind, content)
  /\ ids' = IF pending'.id > ids THEN pending'.id ELSE ids
  /\ posts' = posts \cup {[what |-> pending', awaited |-> TRUE,
                           state |-> "sent",
                           n |-> CHOOSE k \in 1..MaxPosts : \A q \in Awaited : q.n # k]}

saveReport ==
  /\ sheet = "report" /\ ~saving /\ form.words # Blank
  /\ submitHandover("work_log", form)
  /\ saving' = TRUE
  /\ UNCHANGED <<sheet, form, loaded, memo, noting, draft, saved, history>>

\* The worker is told that something else is waiting; the text stays as a draft.
saveReportRefused ==
  /\ sheet = "report" /\ ~saving /\ Refused("work_log", form)
  /\ draft' = IF loaded THEN form ELSE draft
  /\ UNCHANGED <<onScreen, pending, posts, ids, saved, history>>

saveNote ==
  /\ sheet = "note" /\ ~noting
  /\ submitHandover("handover", [words |-> memo, rest |-> Blank])
  /\ noting' = TRUE
  /\ overlapped' = (overlapped \/ Awaited # {})
  /\ UNCHANGED <<sheet, form, loaded, saving, memo, draft, saved, confirmed, reloads, overdue>>

-----------------------------------------------------------------------------
(* The server, and what comes back.                                        *)

Same(p, q) == Content(p) = Content(q) /\ p.kind = q.kind

\* save_handover: the same id again is answered as it was saved.
Accept(p) ==
  saved' = IF p.id \in DOMAIN saved THEN saved
           ELSE [i \in DOMAIN saved \cup {p.id} |-> IF i = p.id THEN p ELSE saved[i]]

ServePost(q) ==
  /\ q.state = "sent"
  /\ q.what.id \in DOMAIN saved => Same(saved[q.what.id], q.what)
  /\ Accept(q.what)
  /\ posts' = IF q.awaited THEN (posts \ {q}) \cup {[q EXCEPT !.state = "saved"]} ELSE posts \ {q}
  /\ UNCHANGED <<onScreen, draft, pending, ids, history>>

PostAnswered(q) == posts' = posts \ {q}
\* Nobody waits for its answer any more.
Abandoned(q) == [q EXCEPT !.awaited = FALSE, !.n = 0]

Confirm(q) ==
  /\ PostAnswered(q)
  /\ pending' = Nothing
  /\ confirmed' = confirmed \cup {q.what.id}
  /\ UNCHANGED <<ids, saved, overlapped, reloads, overdue>>

\* The whole form is cleared, whatever was written while the report was being saved.
ReportSaved(q) ==
  /\ q.awaited /\ q.state = "saved" /\ q.what.kind = "work_log"
  /\ Confirm(q)
  /\ draft' = Empty /\ form' = Empty /\ loaded' = FALSE
  /\ saving' = FALSE /\ sheet' = "home"
  /\ UNCHANGED <<memo, noting>>

NoteSaved(q) ==
  /\ q.awaited /\ q.state = "saved" /\ q.what.kind = "handover"
  /\ Confirm(q)
  /\ UNCHANGED <<onScreen, draft>>

\* saveReport's and hoSave's catch: what was sent stays pending.
AfterFailure(q) ==
  /\ draft' = IF q.what.kind = "work_log" /\ loaded THEN form ELSE draft
  /\ saving' = (saving /\ q.what.kind # "work_log")
  /\ noting' = (noting /\ q.what.kind # "handover")
  /\ UNCHANGED <<sheet, form, loaded, memo, pending, ids, saved, confirmed, overlapped>>

\* The server refuses (400, 503) or the connection breaks on the way there.
Fails(q) ==
  /\ q.awaited /\ q.state = "sent"
  /\ PostAnswered(q)
  /\ AfterFailure(q) /\ UNCHANGED <<reloads, overdue>>

\* 8 seconds are over: the answer is lost, or the server still has to get to it.
TimesOut(q) ==
  /\ q.awaited /\ overdue < MaxOverdue
  /\ overdue' = overdue + 1
  /\ posts' = (posts \ {q}) \cup
              (IF q.state = "sent" THEN {Abandoned(q)} ELSE {})
  /\ AfterFailure(q) /\ UNCHANGED reloads

\* The page is reloaded or the browser dies: only the browser's storage is left.
Reload ==
  /\ reloads < MaxReloads
  /\ reloads' = reloads + 1
  /\ sheet' = "home" /\ form' = Empty /\ loaded' = FALSE /\ saving' = FALSE
  /\ memo' = Blank /\ noting' = FALSE
  /\ posts' = {Abandoned(q) : q \in {p \in posts : p.state = "sent"}}
  /\ UNCHANGED <<draft, pending, ids, saved, confirmed, overlapped, overdue>>

-----------------------------------------------------------------------------
ReportsNext ==
  \/ openReport \/ openHandoverNew
  \/ \E w \in Words, r \in Rest : EditReport(w, r)
  \/ \E w \in Words : EditNote(w)
  \/ saveReport \/ saveReportRefused \/ saveNote
  \/ \E q \in posts : ServePost(q) \/ ReportSaved(q) \/ NoteSaved(q) \/ Fails(q) \/ TimesOut(q)
  \/ Reload

ReportsSpec == ReportsInit /\ [][ReportsNext]_draftVars

-----------------------------------------------------------------------------
\* What the server stored and the worker was not told of is still waiting on the device
\* under the same id, through lost answers and reloads, so that sending it again stores it
\* once - unless the note was sent again before its answer (an input enables its button).
UnconfirmedIsPending ==
  ~overlapped => \A i \in DOMAIN saved : i \in confirmed \/ pending.id = i
=============================================================================
