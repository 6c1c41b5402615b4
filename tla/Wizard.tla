------------------------------- MODULE Wizard -------------------------------
(***************************************************************************)
(* The submission wizard (components/submission/SubmissionWizard.tsx) over *)
(* the submission store and the document store: the pages that start or    *)
(* reopen a loan, the steps, the autosave timer, and the submission.       *)
(***************************************************************************)
EXTENDS Submission

CONSTANT Required

(* Every program has a checklist, and so has a draft without a program. *)
ASSUME WizardAssumption == Products \cup {NoProduct} \subseteq DOMAIN Required

VARIABLES
    docLoan, checklist, uploading, loading, held, archived, uploads, stray,
    step,    \* the step shown, "closed" when another page is
    route,   \* the loan in the address of the page
    timer,   \* the autosave timer runs
    busy,    \* isSubmitting
    notice,  \* what it tells of its submission: "none", "failed" or "done"
    submit,  \* runSubmit after its save: the stage and the loan sent
    next,    \* a router.push not yet followed: the step and the loan
    moves, clicks,  \* counts: pages and steps entered, buttons clicked
    gated    \* loans, with their program, sent past a checklist that was their own

D == INSTANCE Documents WITH DocLoans <- Loans, NoLoan <- Local, Unchosen <- NoProduct

docVars == <<docLoan, checklist, uploading, loading, held, archived, uploads, stray>>
pageVars == <<step, route, timer, busy, notice, submit, next, moves, clicks, gated>>
vars == <<subVars, docVars, pageVars>>

NotSending == [stage |-> "no", loan |-> Local]

WizardInit ==
    /\ SubInit /\ D!DocInit
    /\ step = "closed" /\ route = Local /\ timer = FALSE /\ busy = FALSE
    /\ notice = "none" /\ submit = NotSending /\ next = Stay /\ moves = 0 /\ clicks = 0 /\ gated = {}

Move == moves < limit.moves /\ moves' = moves + 1 /\ UNCHANGED clicks
Click == clicks < limit.clicks /\ clicks' = clicks + 1 /\ UNCHANGED moves

Open == step # "closed"

(* The documents step makes its checklist when it is entered and when the  *)
(* loan or the program of the draft changes under it; it asks for the      *)
(* documents when it is entered and when the loan changes.                 *)
ShowDocuments ==
    IF step' = "documents"
    THEN /\ D!GenerateChecklist(draft'.product, draft'.loan)
         /\ D!AskDocuments(IF step = "documents" /\ draft'.loan = draft.loan THEN {} ELSE {draft'.loan})
    ELSE UNCHANGED docVars

(* Each change of the draft under an open page starts the timer afresh. *)
RetimeNever == timer' = timer
Retime == timer' = (timer \/ (Open /\ draft' # draft))

---------------------------------------------------------------------------
(* A new loan, by hand or from a file: the page asks for a draft; the      *)
(* answer is applied wherever the user has gone meanwhile, and the page of *)
(* the loan follows, for an import once the import is saved.               *)
StartLoan ==
    /\ ~Open /\ Move
    /\ \/ AskDraft(0) /\ UNCHANGED edits
       \/ edits < limit.edits /\ edits' = edits + 1 /\ AskDraft(edits + 1)
    /\ UNCHANGED <<docVars, step, route, timer, busy, notice, submit, next, gated>>

(* Without a token the draft is of this browser, and there at once.        *)
StartLocal ==
    /\ ~Open /\ Move /\ ~signedIn /\ kept[Local] = NoDraft
    /\ StartManual(Local, Open)
    /\ next' = [go |-> "form", loan |-> Local]
    /\ UNCHANGED <<starting, server, edits, docVars, step, route, timer, busy, notice, submit, gated>>

StartAnswers ==
    /\ starting # NoStart /\ starting' = NoStart
    /\ \/ /\ starting.edit = 0 /\ StartManual(starting.loan, Open)
          /\ next' = [go |-> "form", loan |-> starting.loan]
       \/ /\ starting.edit > 0 /\ UNCHANGED next
          /\ \E s \in Savers : StartImport(starting.loan, starting.edit, s, Open)
    /\ Retime
    /\ UNCHANGED <<server, edits, step, route, busy, notice, submit, moves, clicks, gated>>
    /\ ShowDocuments

StartUnanswered ==
    /\ StartFails
    /\ UNCHANGED <<docVars, pageVars>>

(* Opening a loan's edit page mounts the wizard: the step on show sees the *)
(* draft of before, the store hydrates once, and the timer's first run is  *)
(* skipped, unless the draft or its step changes after it.                 *)
Mount(l, at) ==
    /\ HydrateFromApi(l)
    /\ step' = at /\ route' = l /\ busy' = FALSE /\ notice' = "none"
    /\ timer' \in {TRUE, draft' # draft}
    /\ IF at = "documents"
       THEN /\ D!GenerateTwice(draft.product, draft.loan, draft'.product, draft'.loan)
            /\ D!AskDocuments({draft.loan, draft'.loan})
       ELSE UNCHANGED docVars

OpenLoan(l) ==
    /\ ~Open /\ Move /\ signedIn
    /\ l \in Loans => server.status[l] # "none"
    /\ l = Local => kept[Local] # NoDraft
    /\ Mount(l, "form")
    /\ UNCHANGED <<submit, next, gated>>

(* The wizard unmounts: its timer goes, and the save it was to start. *)
Unmount ==
    /\ step' = "closed" /\ timer' = FALSE /\ busy' = FALSE /\ notice' = "none"
    /\ faults' = IF timer THEN Blame({draft.loan}, "left") ELSE faults

Leave ==
    /\ Open /\ Move /\ Unmount
    /\ UNCHANGED <<draft, saveStatus, ids, result, starting, kept, saves, server, signedIn, limit, edits,
                   fails, cos, docVars, route, submit, next, gated>>

TypeOnPage(ps) ==
    /\ Open /\ step = "form"
    /\ \E gone \in IF limit.clears THEN {{}, ps} ELSE {{}} : Type(ps, gone)
    /\ Retime
    /\ UNCHANGED <<docVars, step, route, busy, notice, submit, next, moves, clicks, gated>>

ChangeCoBorrower ==
    /\ Open /\ step = "form" /\ Click /\ (AddCoBorrower \/ RemoveBorrower) /\ Retime
    /\ UNCHANGED <<docVars, step, route, busy, notice, submit, next, gated>>

(* goToStep, from the step list or Back: the draft has the step in it, so  *)
(* the timer starts, unless the draft says that step already.              *)
GoToStep(at) ==
    /\ Open /\ ~busy /\ Move /\ at # step
    /\ step' = at /\ timer' \in {timer, TRUE}
    /\ UNCHANGED <<subVars, route, busy, notice, submit, next, gated>>
    /\ ShowDocuments

---------------------------------------------------------------------------
(* Saving: the timer, the Save button or leaving the SSN field, Continue.  *)

AutosaveForgets(s) ==
    /\ Open /\ timer /\ timer' = FALSE
    /\ UNCHANGED <<subVars, docVars, step, route, busy, notice, submit, next, moves, clicks, gated>>

Autosave(s) ==
    /\ Open /\ timer /\ timer' = FALSE
    /\ StartSave(s, Stay)
    /\ UNCHANGED <<docVars, step, route, busy, notice, submit, next, moves, clicks, gated>>

ClickSave(s) ==
    /\ Open /\ ~busy /\ Click
    /\ StartSave(s, Stay)
    /\ UNCHANGED <<docVars, step, route, timer, busy, notice, submit, next, gated>>

(* continueStep before review: blocked by the errors of the step, else the *)
(* save is awaited and the next step of this page is entered.              *)
NextSteps == IF step = "form" THEN {"form", "documents"} ELSE {"review"}

Continue(s) ==
    /\ Open /\ ~busy /\ Click /\ step # "review"
    /\ step = "documents" => D!MissingDocs = {}
    /\ \E at \in NextSteps : StartSave(s, [go |-> at, loan |-> route])
    /\ UNCHANGED <<docVars, step, route, timer, busy, notice, submit, next, gated>>

(* collectBlockingErrors on review: the errors as last shown, and the      *)
(* checklist as it stands.                                                 *)
ReviewErrors == draft.errors \cup D!MissingDocs

(* runSubmit saves first.  Bound: one submission at a time, of whichever   *)
(* wizard; the code keeps to it in each wizard.                            *)
RunSubmit(s) ==
    /\ submit = NotSending /\ UNCHANGED submit
    /\ \A t \in InFlight : saves[t].then.go # "submit"
    /\ busy' = TRUE /\ notice' = IF notice = "done" THEN "done" ELSE "none"
    /\ StartSave(s, [go |-> "submit", loan |-> route])

(* continueStep on review: the errors shown earlier and the checklist      *)
(* block it.                                                               *)
ClickSubmit(s) ==
    /\ Open /\ ~busy /\ step = "review"
    /\ ReviewErrors = {}
    /\ RunSubmit(s)
    /\ gated' = IF docLoan = draft.loan /\ DOMAIN checklist = Required[draft.product]
                THEN gated \cup {<<draft.loan, draft.product>>} ELSE gated
    /\ UNCHANGED <<docVars, step, route, timer, next, moves, clicks>>

(* retrySubmit, from the message that a submission failed: no error and no *)
(* missing document blocks it.                                             *)
RetrySubmit(s) ==
    /\ Open /\ notice = "failed"
    /\ RunSubmit(s)
    /\ UNCHANGED <<docVars, step, route, timer, next, moves, clicks, gated>>

(* A save that ends, saved or not, lets its caller go on.                  *)
Resume(then) ==
    /\ submit' = IF then.go = "submit" THEN [stage |-> "sending", loan |-> Local] ELSE submit
    /\ next' = IF then.go \in {"stay", "submit"} THEN next ELSE then

Saving(s) ==
    /\ SaveCall(s)
    /\ UNCHANGED <<docVars, pageVars>>

SaveEnds(s) ==
    /\ SaveDone(s) \/ SaveFails(s)
    /\ Resume(saves[s].then) /\ Retime
    /\ UNCHANGED <<docVars, step, route, busy, notice, moves, clicks, gated>>

(* The router follows a push. The wizard mounts when it was closed; when   *)
(* it is open on another loan the page's address changes under it, and the *)
(* store does not hydrate again.                                           *)
Navigate ==
    /\ next # Stay /\ next' = Stay
    /\ signedIn
    /\ IF Open
       THEN /\ step' = next.go /\ route' = next.loan /\ timer' \in {timer, TRUE}
            /\ faults' = IF next.loan \in {route, draft.loan} THEN faults
                         ELSE Blame({draft.loan}, "dragged")
            /\ UNCHANGED <<draft, saveStatus, ids, result, starting, kept, saves, server, signedIn, limit,
                           edits, fails, cos, busy, notice>>
            /\ ShowDocuments
       ELSE Mount(next.loan, next.go)
    /\ UNCHANGED <<submit, moves, clicks, gated>>

(* submitLoan after the save: refused by the errors of the draft as it is  *)
(* now, sent, or failing; the wizard that began it, if it is still there,  *)
(* tells how it ended, and keeps telling of a success.                     *)
EndSubmit(told) ==
    /\ submit' = NotSending /\ busy' = FALSE
    /\ notice' = IF busy /\ notice # "done" THEN told ELSE notice

SendSubmit ==
    /\ submit.stage = "sending"
    /\ \/ SubmitTaken /\ submit' = [stage |-> "sent", loan |-> draft.loan] /\ UNCHANGED <<busy, notice>>
       \/ (SubmitRefused \/ SubmitFails) /\ EndSubmit("failed")
    /\ Retime
    /\ UNCHANGED <<docVars, step, route, next, moves, clicks, gated>>

AnswerSubmit ==
    /\ submit.stage = "sent"
    /\ \/ SubmitAnswered(submit.loan) /\ EndSubmit("done")
       \/ submit.loan \in Loans /\ SubmitUnanswered /\ EndSubmit("failed")
    /\ Retime
    /\ UNCHANGED <<docVars, step, route, next, moves, clicks, gated>>

---------------------------------------------------------------------------
(* Documents on their step, and a reload of the tab.                       *)

Upload(t) ==
    /\ Open /\ step = "documents" /\ uploads < limit.uploads
    /\ D!StartUpload(t, draft.loan)
    /\ UNCHANGED <<subVars, pageVars>>

RemoveUpload(t) ==
    /\ Open /\ step = "documents" /\ Click
    /\ D!RemoveDocument(t)
    /\ UNCHANGED <<subVars, step, route, timer, busy, notice, submit, next, gated>>

DocumentAnswers ==
    /\ \/ \E t \in D!Types : D!Uploaded(t) \/ D!UploadFails(t)
       \/ \E l \in loading : D!DocumentsLoaded(l)
    /\ UNCHANGED <<subVars, pageVars>>

(* A document is archived elsewhere: on its own page, or by another user.  *)
ArchiveElsewhere ==
    /\ Cardinality(archived) < limit.archives
    /\ \E d \in held : D!ArchiveDocument(d[1], d[2])
    /\ UNCHANGED <<subVars, pageVars>>

ReloadTab ==
    /\ Reload /\ D!DocReload
    /\ step' = "closed" /\ timer' = FALSE /\ busy' = FALSE /\ notice' = "none"
    /\ faults' = Blame({saves[s].draft.loan : s \in InFlight} \cup {draft.loan}, "reload")
    /\ submit' = NotSending /\ next' = Stay
    /\ UNCHANGED <<route, moves, clicks, gated>>

(* Signing out, or a 401, sends the user to the sign-in page. *)
LoseToken ==
    /\ SignOut /\ Unmount
    /\ UNCHANGED <<docVars, route, submit, next, moves, clicks, gated>>

ReturnToken ==
    /\ SignIn
    /\ UNCHANGED <<docVars, pageVars>>

UserMove ==
    \/ StartLoan \/ StartLocal
    \/ \E l \in Ids : OpenLoan(l)
    \/ \E ps \in limit.typing : TypeOnPage(ps)
    \/ \E at \in {"form", "documents", "review"} : GoToStep(at)
    \/ \E s \in Savers : ClickSave(s) \/ Continue(s) \/ ClickSubmit(s) \/ RetrySubmit(s)
    \/ \E t \in DOMAIN checklist : Upload(t) \/ RemoveUpload(t)
    \/ ChangeCoBorrower \/ Leave \/ ReloadTab \/ LoseToken \/ ReturnToken

(* What the browser goes on with by itself. *)
Background(s) == Autosave(s) \/ Saving(s) \/ SaveEnds(s)

Next == UserMove \/ (\E s \in Savers : Background(s))
          \/ StartAnswers \/ StartUnanswered \/ Navigate \/ SendSubmit \/ AnswerSubmit
          \/ DocumentAnswers \/ ArchiveElsewhere

Fairness == \A s \in Savers : WF_vars(Background(s))

Spec == WizardInit /\ [][Next]_vars /\ Fairness

---------------------------------------------------------------------------
TypeOK ==
    /\ draft \in Draft /\ saveStatus \in {"idle", "saving", "saved", "error"}
    /\ result \in Ids /\ (\A l \in Ids : kept[l] \subseteq Draft)
    /\ starting.loan \in Ids /\ cos \in Borrower /\ notice \in {"none", "failed", "done"}
    /\ ids.place \in 0..Len(server.places)
    /\ \A c \in Client : ids.who[c] \in 0..Len(server.people)
    /\ step \in {"closed", "form", "documents", "review"} /\ route \in Ids
    /\ timer \in BOOLEAN /\ busy \in BOOLEAN
    /\ DOMAIN checklist \subseteq D!Types

RowsOf(l, c) == {n \in DOMAIN server.people : server.people[n].loan = l /\ server.people[n].who = c}

(* Borrowers are not entered twice: a save creates the row of a borrower   *)
(* only once, and later saves find it, unless the loan's saves overlapped, *)
(* one of them failed or was cut off, or the store went to another loan    *)
(* and back, whose start forgets the ids (submissionStore.ts 84-85, 203,   *)
(* 228).  A co-borrower who is removed and added again is another borrower *)
(* to the store (submissionConfig.ts 88), and the row of the first stays.  *)
OneRowPerBorrower ==
    \A l \in Loans, c \in Borrower :
        \/ Cardinality(RowsOf(l, c)) <= 1
        \/ faults[l] \cap {"overlap", "failed", "reload", "switched"} # {}

(* A property row holds what was typed for its own loan, unless the store  *)
(* took up a loan with the property id of another.                         *)
PropertyOfItsLoan ==
    \A n \in DOMAIN server.places :
        LET row == server.places[n]
        IN  row.by = row.loan \/ faults[row.by] \cap {"switched", "late"} # {}

(* "Saved" means sent and autosaved: with nothing in flight and no timer   *)
(* running, an open wizard that shows a save has all of the draft in the   *)
(* browser, and on the server all that a save sends of it: the figures     *)
(* unless every one is empty, each borrower, the property if it has an     *)
(* address.  The income and the assets are never sent, and an address or   *)
(* figures that were cleared stay on the server as they were               *)
(* (submissionStore.ts 214, submissionService.ts 201-204, 231).            *)
SavedIsStored ==
    Open /\ draft.text # Blank /\ saveStatus = "saved" /\ InFlight = {} /\ ~timer
        => \/ Stored(draft) \/ draft.loan = Local
           \/ faults[draft.loan] \cap {"overlap", "switched", "late", "left", "signed out"} # {}

(* The wizard edits the loan its address names, unless a push took an open *)
(* wizard to another loan, or a new loan's answer replaced the draft under *)
(* it (submissionStore.ts 75-76).                                          *)
EditsLoanShown ==
    Open => route = draft.loan \/ faults[draft.loan] \cap {"dragged", "replaced"} # {}

(* A loan that passed the check of its own checklist and was submitted has *)
(* had every document its program requires on the server, unless another's *)
(* marks were in the checklist.  It may have lost one since: the checklist *)
(* keeps the mark of an archived document (documentStore.ts 105-121).      *)
DocumentsBeforeSubmission ==
    \A g \in gated :
        g[1] \in Loans /\ server.status[g[1]] = "submitted" =>
            g[1] \in stray \/ \A t \in Required[g[2]] : <<g[1], t>> \in held \cup archived

(* Repeated saves PATCH: whatever happens, a borrower has one row.         *)
RepeatedSavesPatch ==
    \A l \in Loans, c \in Borrower : Cardinality(RowsOf(l, c)) <= 1

(* Typing is never reverted: while the store keeps to one loan, no save    *)
(* that ends and no page that mounts puts back an older text, or what was  *)
(* cleared (the comments at submissionStore.ts 167-171 and 270-272).  A    *)
(* new program empties the income, a co-borrower who is removed goes, and  *)
(* the answer that starts a loan empties the draft of a user who found the *)
(* loan and opened it before the answer came.                              *)
TypingKept ==
    [][draft'.loan = draft.loan =>
        \A p \in Parts :
            \/ draft'.text[p] > draft.text[p]
            \/ draft'.text[p] = draft.text[p] /\ (p \in draft'.empty <=> p \in draft.empty)
            \/ p = "income" /\ draft'.product # draft.product
            \/ p = "co" /\ draft'.co # draft.co
            \/ starting # NoStart /\ starting' = NoStart /\ draft.loan = starting.loan]_vars

(* What is typed is saved in the end, as far as a save takes it: the       *)
(* server and the browser have the draft as in SavedIsStored, or the save  *)
(* tells of its error, or the wizard is left, or something befell the loan *)
(* that a save does not survive: all that "faults" records.                *)
TypedIsSaved ==
    \A l \in Loans :
        Open /\ draft.loan = l /\ timer
            ~> Stored(draft) \/ saveStatus = "error" \/ ~Open \/ draft.loan # l \/ faults[l] # {}
===========================================================================
