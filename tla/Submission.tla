---------------------------- MODULE Submission ----------------------------
(***************************************************************************)
(* The loan submission store of the front end (state/submissionStore.ts)   *)
(* and the service it saves through (services/submissionService.ts): the   *)
(* draft being typed, the saves in flight, the ids the server gave to the  *)
(* borrowers and the property, the autosaves kept in the browser, and the  *)
(* rows of the server.                                                     *)
(*                                                                         *)
(* What a part of the form holds is abstracted to the number of the edit   *)
(* that wrote it (0: none has) and to whether that edit cleared it, so that*)
(* two saves can be told apart by what they carry.  The assets are part of *)
(* the income here.                                                        *)
(***************************************************************************)
EXTENDS Naturals, Sequences, FiniteSets

CONSTANTS
    MaxLoans,   \* bound: loans started on the server
    MaxCos,     \* bound: co-borrowers added
    Products,   \* loan programs; NoProduct until one is chosen
    NoProduct,
    Imported,   \* the program of an imported file
    Bursts,     \* the sets of parts typed between two saves
    Savers,     \* slots for saves in flight: numbers, the lowest free one is taken
    Limits      \* bounds of a behaviour: one record of them is chosen at the start

ASSUME SubmissionAssumption ==
    /\ MaxLoans \in Nat /\ MaxCos \in Nat /\ NoProduct \notin Products /\ Imported \in Products
    /\ Bursts \subseteq SUBSET {"setup", "property", "primary", "co", "income"}
    /\ Limits \subseteq [edits: Nat, fails: Nat, uploads: Nat, archives: Nat, moves: Nat, clicks: Nat,
                          savers: Nat, typing: SUBSET Bursts, programs: SUBSET Products,
                          clears: BOOLEAN, loans: 0..MaxLoans, cos: 0..MaxCos]

VARIABLES
    draft,      \* the draft of the store
    saveStatus, \* "idle", "saving", "saved" or "error"
    ids,        \* borrowerDbIds and propertyDbId: client id -> server row, 0 if none
    result,     \* submitResult: the loan it names, or Local for none
    starting,   \* the POST /loans/ in flight, for a loan by hand or from a file
    kept,       \* the autosaves in localStorage: one draft, or none, for each loan
    saves,      \* the saveDraft calls in flight
    server,     \* what the server holds
    signedIn,   \* a token is in localStorage
    limit,      \* bounds: edits, mishaps, uploads, clicks, and saves in flight
    edits, fails,
    cos,        \* co-borrowers added so far, in all drafts
    faults      \* for each loan, what happened to it that a save does not survive

store == <<draft, saveStatus, ids, result>>
subVars == <<draft, saveStatus, ids, result, starting, kept, saves, server, signedIn, limit, edits, fails, cos, faults>>

(* The server hands out ids 1, 2, ...; 0 stands for the "draft-..." id of  *)
(* a draft started without a token.                                        *)
Loans == 1..MaxLoans
Local == 0
Ids == Loans \cup {Local}
Parts == {"setup", "property", "primary", "co", "income"}
Causes == {"overlap", "failed", "switched", "replaced", "late", "left", "signed out", "reload", "dragged"}
Text == [Parts -> 0..limit.edits]
Blank == [p \in Parts |-> 0]

(* The UUID of a borrower: Primary for the one a draft begins with, a      *)
(* number of its own for each co-borrower that is added.                   *)
Primary == 0
Borrower == 0..MaxCos
Client == Ids \X Borrower
NoIds == [c \in Client |-> 0]

(* co is the co-borrower in the list, 0 if there is none.                  *)
Draft == [loan: Ids, text: Text, empty: SUBSET Parts, product: Products \cup {NoProduct},
          co: Borrower, ssn: BOOLEAN, errors: SUBSET (Parts \cup {"ssn"}), isDraft: BOOLEAN]

EmptyDraft(l) ==
    [loan |-> l, text |-> Blank, empty |-> {}, product |-> NoProduct, co |-> 0,
     ssn |-> FALSE, errors |-> {}, isDraft |-> TRUE]

Filled(d, p) == d.text[p] > 0 /\ p \notin d.empty

NoDraft == {}

(* Blocking errors: required fields, of which the SSN is never stored. *)
Blocking(d) ==
    {p \in Parts \ {"co"} : ~Filled(d, p)}
        \cup (IF d.ssn THEN {} ELSE {"ssn"})

(* refreshValidation: the errors shown are those of the draft just changed. *)
Validated(d) == [d EXCEPT !.errors = Blocking(d)]

StripSsn(d) == [d EXCEPT !.ssn = FALSE]
KeepLocally(d) == [kept EXCEPT ![d.loan] = {StripSsn(d)}]  \* saveLocally

EmptyServer ==
    [status |-> [l \in Loans |-> "none"], figures |-> [l \in Loans |-> Blank],
     people |-> <<>>, places |-> <<>>]

(* What the caller of a save does when it ends: nothing, a step, a submit. *)
Stay == [go |-> "stay", loan |-> Local]

Idle == [on |-> FALSE, draft |-> EmptyDraft(Local), ids |-> [who |-> NoIds, place |-> 0],
         todo |-> <<>>, then |-> Stay]

InFlight == {s \in Savers : saves[s].on}

NoStart == [loan |-> Local, edit |-> 0]

SubInit ==
    /\ draft = EmptyDraft(Local) /\ saveStatus = "idle" /\ result = Local
    /\ ids = [who |-> NoIds, place |-> 0]
    /\ starting = NoStart /\ cos = 0
    /\ kept = [l \in Ids |-> NoDraft]
    /\ saves = [s \in Savers |-> Idle]
    /\ server = EmptyServer
    /\ signedIn = TRUE
    /\ limit \in Limits /\ edits = 0 /\ fails = 0
    /\ faults = [l \in Ids |-> {}]

Blame(ls, cause) == [l \in Ids |-> faults[l] \cup IF l \in ls THEN {cause} ELSE {}]

---------------------------------------------------------------------------
(* Starting, typing and importing                                          *)

(* startNewDraft: POST /loans/ when signed in.  The server's next loan is  *)
(* there for all to see while its answer is on the way; a file is read     *)
(* before, and its text is the edit e.                                     *)
AskDraft(e) ==
    /\ signedIn /\ starting = NoStart
    /\ \E l \in 1..limit.loans :
         /\ server.status[l] = "none" /\ \A k \in 1..(l - 1) : server.status[k] # "none"
         /\ server' = [server EXCEPT !.status[l] = "new_draft"]
         /\ starting' = [loan |-> l, edit |-> e]
    /\ UNCHANGED <<draft, saveStatus, ids, result, kept, saves, signedIn, limit, fails, cos, faults>>

(* The answer is lost, or says that it failed.                             *)
StartFails ==
    /\ starting # NoStart /\ starting' = NoStart
    /\ fails < limit.fails /\ fails' = fails + 1
    /\ UNCHANGED <<draft, saveStatus, ids, result, kept, saves, server, signedIn, limit, edits, cos, faults>>

FreshIdsKept == ids

(* A new draft has no rows yet.                                            *)
FreshIds == [who |-> NoIds, place |-> 0]

(* The loans whose draft goes when loan l starts, and l if the wizard is   *)
(* open, on whatever page.                                                 *)
Replaced(l, open) ==
    [k \in Ids |-> faults[k] \cup (IF k = draft.loan THEN {"switched"} ELSE {})
                            \cup (IF k = l /\ open THEN {"replaced"} ELSE {})]

(* The answer, or no token and a local draft: whatever the store holds by  *)
(* now, an empty draft of loan l takes its place.                          *)
StartManual(l, open) ==
    /\ draft' = EmptyDraft(l)
    /\ saveStatus' = "saved" /\ result' = Local /\ ids' = FreshIds
    /\ kept' = KeepLocally(EmptyDraft(l))
    /\ faults' = Replaced(l, open)
    /\ UNCHANGED <<saves, signedIn, limit, fails, cos>>

(* hydrateFromMismo: the parts of a file, which leave a co-borrower out.   *)
HydrateFromMismo(l, e) ==
    Validated([EmptyDraft(l) EXCEPT !.text = [p \in Parts |-> IF p = "co" THEN 0 ELSE e],
                                    !.product = Imported, !.ssn = TRUE])

(* updateSetup: a change of program starts the income afresh. *)
Typed(ps, product) ==
    [p \in Parts |-> IF p \in ps THEN edits + 1
                     ELSE IF p = "income" /\ product # draft.product THEN 0
                     ELSE draft.text[p]]

(* updateSetup, updateProperty, upsertBorrower, updateIncome, updateAssets:*)
(* the parts ps are rewritten, those in gone cleared, the errors refreshed.*)
Type(ps, gone) ==
    /\ edits < limit.edits /\ edits' = edits + 1
    /\ "co" \in ps => draft.co > 0
    /\ \E product \in IF "setup" \in ps THEN limit.programs ELSE {draft.product} :
         draft' = Validated([draft EXCEPT
                    !.text = Typed(ps, product), !.product = product,
                    !.empty = gone \cup {p \in @ \ ps : Typed(ps, product)[p] > 0},
                    !.ssn = IF "primary" \in ps THEN "primary" \notin gone ELSE @])
    /\ UNCHANGED <<saveStatus, ids, result, starting, kept, saves, server, signedIn, fails, cos, faults, limit>>

(* addCoBorrower and removeBorrower leave the errors as they are. *)
AddCoBorrower ==
    /\ draft.co = 0 /\ cos < limit.cos /\ cos' = cos + 1
    /\ draft' = [draft EXCEPT !.co = cos + 1]
    /\ UNCHANGED <<saveStatus, ids, result, starting, kept, saves, server, signedIn, limit, edits, fails, faults>>

RemoveBorrower ==
    /\ draft.co > 0
    /\ draft' = [draft EXCEPT !.co = 0, !.text["co"] = 0, !.empty = @ \ {"co"}]
    /\ UNCHANGED <<saveStatus, ids, result, starting, kept, saves, server, signedIn, limit, edits, fails, cos, faults>>

HydratedNever(l) == draft

(* hydrateFromApi: a draft already in the store wins; otherwise the        *)
(* autosave, or an empty draft, replaces it. The ids are left alone.       *)
Hydrated(l) ==
    IF draft.loan = l THEN draft
    ELSE Validated(IF kept[l] = NoDraft THEN EmptyDraft(l) ELSE CHOOSE d \in kept[l] : TRUE)

HydrateFromApi(l) ==
    /\ draft' = Hydrated(l)
    /\ faults' = IF draft.loan = l THEN faults ELSE Blame({draft.loan, l}, "switched")
    /\ UNCHANGED <<saveStatus, ids, result, starting, kept, saves, server, signedIn, edits, fails, cos, limit>>

(* The tab is reloaded: the store comes back without the SSN and without   *)
(* what it had in flight.                                                  *)
Reload ==
    /\ draft' = StripSsn(draft) /\ saveStatus' = "idle" /\ result' = Local
    /\ saves' = [s \in Savers |-> Idle] /\ starting' = NoStart
    /\ fails < limit.fails /\ fails' = fails + 1
    /\ UNCHANGED <<ids, kept, server, signedIn, edits, cos, limit>>

---------------------------------------------------------------------------
(* Saving                                                                  *)

(* The requests of a save, in order; the header and the financials, which  *)
(* go one after the other to the loan itself, are one request here, each   *)
(* borrower is one, and a property without an address makes none. A local  *)
(* draft makes none at all.                                                *)
Calls(d) ==
    IF d.loan \notin Loans THEN <<>>
    ELSE <<"figures", "primary">>
           \o (IF d.co > 0 THEN <<"co">> ELSE <<>>)
           \o (IF Filled(d, "property") THEN <<"property">> ELSE <<>>)

(* saveDraft up to its first request, for the draft d and the ids i that   *)
(* the store holds then: it reads them once.                               *)
SaveBegins(s, d, i, then) ==
    /\ ~saves[s].on /\ (\A t \in Savers : ~saves[t].on => s <= t)
    /\ Cardinality(InFlight) < limit.savers
    /\ saves' = [saves EXCEPT ![s] = [on |-> TRUE, draft |-> d, ids |-> i, todo |-> Calls(d), then |-> then]]
    /\ saveStatus' = "saving"
    /\ kept' = KeepLocally([d EXCEPT !.isDraft = TRUE])
    /\ UNCHANGED <<signedIn, fails, cos, limit>>

(* The loans of the saves in flight, when another begins for loan l.       *)
Overlapping(l) == IF InFlight = {} THEN {} ELSE {saves[t].draft.loan : t \in InFlight} \cup {l}

StartSave(s, then) ==
    /\ SaveBegins(s, draft, ids, then)
    /\ faults' = Blame(Overlapping(draft.loan), "overlap")
    /\ UNCHANGED <<draft, ids, result, starting, server, edits>>

(* applyImport when its draft has started: the file's text and the save of *)
(* it follow before any other input.                                       *)
StartImport(l, e, s, open) ==
    LET d == HydrateFromMismo(l, e)
        overlapped == Overlapping(l)
    IN  /\ draft' = d /\ ids' = FreshIds /\ result' = Local
        /\ SaveBegins(s, d, FreshIds, [go |-> "form", loan |-> l])
        /\ faults' = [k \in Ids |-> Replaced(l, open)[k] \cup IF k \in overlapped THEN {"overlap"} ELSE {}]

(* The loan amount, the values and the score, from three parts of the form;*)
(* nothing is sent when all are empty, and a cleared one is sent as null.  *)
Figured == {"setup", "property", "primary"}
Figures(d) == [p \in Parts |-> IF p \in Figured THEN d.text[p] ELSE 0]
HasFigures(d) == \E p \in Figured : Filled(d, p)
PutFigures(v, d) == IF HasFigures(d) THEN [v EXCEPT !.figures[d.loan] = Figures(d)] ELSE v

PostBorrower(v, row) == [v EXCEPT !.people = Append(@, row)]
PatchBorrower(v, at, row) == [v EXCEPT !.people[at].text = row.text]

(* The borrower a request is about. *)
Who(d, call) == IF call = "co" THEN d.co ELSE Primary
PersonRow(d, call) == [loan |-> d.loan, who |-> Who(d, call), text |-> d.text[call]]

(* PATCH the borrower's row when its id is known, POST a new row otherwise. *)
SyncBorrower(v, d, i, call) ==
    LET row == PersonRow(d, call)
        at  == i.who[<<d.loan, Who(d, call)>>]
    IN  IF at = 0 THEN PostBorrower(v, row) ELSE PatchBorrower(v, at, row)

(* A property's row is of the loan it was posted for; "by" is the loan     *)
(* whose draft wrote it last.                                              *)
PostProperty(v, row) == [v EXCEPT !.places = Append(@, row)]
PatchProperty(v, at, row) == [v EXCEPT !.places[at].by = row.by, !.places[at].text = row.text]

PlaceRow(d) == [loan |-> d.loan, by |-> d.loan, text |-> d.text["property"]]

SyncProperty(v, d, i) ==
    LET row == PlaceRow(d)
    IN  IF i.place = 0 THEN PostProperty(v, row) ELSE PatchProperty(v, i.place, row)

(* What a request leaves on the server. *)
Served(call, d, i) ==
    CASE call = "figures"  -> PutFigures(server, d)
      [] call = "property" -> SyncProperty(server, d, i)
      [] OTHER             -> SyncBorrower(server, d, i, call)

LearnedOffByOne(call, d, i) ==
    IF call = "property" /\ i.place = 0 THEN [i EXCEPT !.place = Len(server.places) + 2] ELSE i

(* The ids a save knows after a request: those of the rows it created. *)
Learned(call, d, i) ==
    CASE call = "figures" -> i
      [] call = "property" -> IF i.place = 0 THEN [i EXCEPT !.place = Len(server.places) + 1] ELSE i
      [] OTHER -> IF i.who[<<d.loan, Who(d, call)>>] = 0
                  THEN [i EXCEPT !.who[<<d.loan, Who(d, call)>>] = Len(server.people) + 1] ELSE i

(* The next request of a save; without a token the service sends nothing. *)
SaveCall(s) ==
    LET v == saves[s]
        call == Head(v.todo)
    IN  /\ v.on /\ v.todo # <<>>
        /\ IF signedIn
           THEN /\ server' = Served(call, v.draft, v.ids)
                /\ saves' = [saves EXCEPT ![s].todo = Tail(@), ![s].ids = Learned(call, v.draft, v.ids)]
                /\ UNCHANGED faults
           ELSE /\ saves' = [saves EXCEPT ![s].todo = Tail(@)]
                /\ faults' = Blame({v.draft.loan}, "signed out")
                /\ UNCHANGED server
        /\ UNCHANGED <<draft, saveStatus, ids, result, starting, kept, signedIn, limit, edits, fails, cos>>

(* A request fails, or its answer is lost: what the save learned is lost.  *)
SaveFails(s) ==
    LET v == saves[s]
    IN  /\ v.on /\ v.todo # <<>> /\ signedIn
        /\ fails < limit.fails /\ fails' = fails + 1
        /\ server' \in {server, Served(Head(v.todo), v.draft, v.ids)}
        /\ saveStatus' = "error"
        /\ saves' = [saves EXCEPT ![s] = Idle]
        /\ faults' = Blame({v.draft.loan}, "failed")
        /\ UNCHANGED <<draft, ids, result, starting, kept, signedIn, limit, edits, cos>>

SaveDoneForgetsIds(s) ==
    /\ saves[s].on /\ saves[s].todo = <<>>
    /\ draft' = [draft EXCEPT !.isDraft = TRUE] /\ saveStatus' = "saved"
    /\ saves' = [saves EXCEPT ![s] = Idle]
    /\ UNCHANGED <<ids, result, starting, kept, server, signedIn, limit, edits, fails, cos, faults>>

SaveDoneReverts(s) ==
    /\ saves[s].on /\ saves[s].todo = <<>>
    /\ draft' = saves[s].draft /\ saveStatus' = "saved" /\ ids' = saves[s].ids
    /\ saves' = [saves EXCEPT ![s] = Idle]
    /\ UNCHANGED <<result, starting, kept, server, signedIn, limit, edits, fails, cos, faults>>

(* All answered: the ids replace those of the store, the draft is kept. *)
SaveDone(s) ==
    LET v == saves[s]
    IN  /\ v.on /\ v.todo = <<>>
        /\ draft' = [draft EXCEPT !.isDraft = TRUE]
        /\ saveStatus' = "saved"
        /\ ids' = IF v.draft.loan \in Loans THEN v.ids ELSE ids
        /\ saves' = [saves EXCEPT ![s] = Idle]
        /\ faults' = IF v.draft.loan = draft.loan THEN faults ELSE Blame({draft.loan}, "late")
        /\ UNCHANGED <<result, starting, kept, server, signedIn, limit, edits, fails, cos>>

---------------------------------------------------------------------------
(* Submitting                                                              *)

(* What a save of draft d sends: the figures if there are any, each        *)
(* borrower, and the property if it has an address.                        *)
Sent(d) ==
    /\ d.loan \in Loans
    /\ HasFigures(d) => server.figures[d.loan] = Figures(d)
    /\ \A call \in {"primary"} \cup (IF d.co > 0 THEN {"co"} ELSE {}) :
         \E n \in DOMAIN server.people : server.people[n] = PersonRow(d, call)
    /\ Filled(d, "property") => \E n \in DOMAIN server.places : server.places[n] = PlaceRow(d)

(* The autosave in the browser has all of the draft but the SSN.           *)
Autosaved(d) ==
    \E k \in kept[d.loan] :
        k.text = d.text /\ k.empty = d.empty /\ k.product = d.product /\ k.co = d.co

Stored(d) == Sent(d) /\ Autosaved(d)

(* submitLoan with errors: they are shown, and nothing is sent. *)
SubmitRefused ==
    /\ Blocking(draft) # {}
    /\ draft' = Validated(draft)
    /\ UNCHANGED <<saveStatus, ids, result, starting, kept, saves, server, signedIn, limit, edits, fails, cos, faults>>

(* POST /loans/{id}/submit; without a token, or a server loan, no request. *)
Sends == draft.loan \in Loans /\ signedIn

(* The server takes a new draft, and turns away any other loan. *)
SubmitTaken ==
    /\ Blocking(draft) = {}
    /\ IF Sends
       THEN /\ server.status[draft.loan] = "new_draft"
            /\ server' = [server EXCEPT !.status[draft.loan] = "submitted"]
       ELSE UNCHANGED server
    /\ UNCHANGED <<draft, saveStatus, ids, result, starting, kept, saves, signedIn, limit, edits, fails, cos, faults>>

(* The answer arrives, for the loan l that was sent. *)
SubmitAnswered(l) ==
    /\ result' = l
    /\ draft' = [draft EXCEPT !.isDraft = FALSE]
    /\ UNCHANGED <<saveStatus, ids, starting, kept, saves, server, signedIn, limit, edits, fails, cos, faults>>

(* The request does not arrive, or the server turns it away. *)
SubmitFails ==
    /\ Blocking(draft) = {} /\ Sends
    /\ IF server.status[draft.loan] = "new_draft"
       THEN fails < limit.fails /\ fails' = fails + 1
       ELSE UNCHANGED fails
    /\ UNCHANGED <<draft, saveStatus, ids, result, starting, kept, saves, server, signedIn, limit, edits, cos, faults>>

(* The answer is lost: the loan is submitted and the store does not know. *)
SubmitUnanswered ==
    /\ fails < limit.fails /\ fails' = fails + 1
    /\ UNCHANGED <<draft, saveStatus, ids, result, starting, kept, saves, server, signedIn, limit, edits, cos, faults>>

(* The token leaves the browser (a 401 or a sign-out) and comes back. *)
SignOut ==
    /\ signedIn /\ signedIn' = FALSE
    /\ fails < limit.fails /\ fails' = fails + 1
    /\ UNCHANGED <<draft, saveStatus, ids, result, starting, kept, saves, server, limit, edits, cos>>

SignIn ==
    /\ ~signedIn /\ signedIn' = TRUE
    /\ UNCHANGED <<draft, saveStatus, ids, result, starting, kept, saves, server, limit, edits, fails, cos, faults>>

===========================================================================
