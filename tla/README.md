# Origina in TLA+

Origina is a loan origination system: a FastAPI server over PostgreSQL, with a
React front end. Brokers and staff enter loan files, move them through a status
workflow, ask for exceptions to guidelines, lock prices with investors and get
e-mails about what happened. This directory holds TLA+ specifications of the
parts where concurrent requests, transactions, late answers, crashes and retries
decide whether the data stays right: on the server the handlers that share rows,
in the browser the submission wizard and the loan workspace, whose requests
overlap and outlive the page that sent them. With them are the TLC
configurations that check them, and proofs about every one of them.

Contents: [How the system runs](#how-the-system-runs),
[Components](#components), [Modules](#modules-and-the-code),
[Runs](#runs), [Fairness](#fairness), [Proofs](#proofs),
[Disagreements found](#disagreements-found),
[Not modelled](#what-is-not-modelled).

To run: `tlc -workers 2 -config CmLocks.cfg MCCmLocks.tla`, likewise for the
other configurations (table under Runs), and `tlapm CmLocksProofs.tla`, likewise
for the other proof modules.

## How the system runs

Everything that makes this code hard follows from a few facts.

- **One request, one transaction.** `core/db.py` gives each request a session of
  its own (`get_db`), `autocommit=False, autoflush=False`, in PostgreSQL's default
  READ COMMITTED. Requests run in threads; any number are open at once.
- **Nothing that is read is locked.** There is no `with_for_update` and there are
  no version columns. A handler loads a row, checks its status, perhaps reads
  other tables, sets attributes and commits. The status may have changed since.
- **The mapper writes what differs.** SQLAlchemy's UPDATE has the attributes that
  differ from the ones *loaded*, not from the ones in the table. A stale request
  overwrites a status it changes and leaves one alone that it does not change.
- **The database has the last word** on unique indexes and foreign keys. An
  IntegrityError at the flush or commit undoes the whole transaction.
- **A transaction's writes show at once**, at its commit. From its first write
  until then it holds the row's lock. So each handler is modelled in phases:
  `Begin...` loads and checks, `Read...` reads what the handler reads next,
  `Commit...` writes over whatever the row has become. A crash, a lost connection
  or a refusal ends it in `Rollback`, `Abandon` or `RollbackEvent`.
- **A stamp is not a commit.** `now()` in PostgreSQL is the start of the transaction,
  which is the query that looks up the user, before the handler loads anything; other stamps
  are taken in Python before the commit. Where transactions overlap, the order that
  `ORDER BY created_at`, `occurred_at` or `decided_at` gives is not the order of the commits. So the models
  claim an order only for the one history that is served as a sequence, and by its own stamps.
- **Events are rows.** Handlers insert `domain_events` in their transaction.
  Background tasks of the same process, which a crash forgets, dispatch them.
- **The browser remembers the past.** A page reads a value, awaits a request, and
  goes on with what it read. Pages of a loan are not keyed by the loan: when the
  address names another, the components stay mounted with the state they had, and
  the answers to the former loan's requests arrive where the new one is shown.
  Nothing disables a save by a timer while a save by a button is under way.

## Components

Paths are under `src/src/backend/app/` unless they start otherwise.

| Component | State | Operations | What makes it correct |
|---|---|---|---|
| **Capital Markets lock desk** (`services/cm/lock_repo.py`, `snapshot.py`, `material_change_repo.py`, `src/db/migrations/136_cm_locks.sql`) | `cm_locks`, `cm_lock_events`, `cm_alerts`, its domain events | request, confirm, expire, reprice (relock), the material-change watcher, flag | one active lock per loan; requester and approver differ; terms immutable; the entries of the log account for the row; a relock chains to its prior; every transition announced once |
| **Loan status workflow** (`api/v1/status.py`, `api/v1/loans.py`) | `loans.status`, `loans.loan_number`, `loan_status_events`, domain events | create, transition, submit, post a status event, patch, archive, delete | history connected as it is served; the outbox tells its moves; nothing is past funding that was not funded; drafts can be submitted |
| **Underwriting exceptions** (`services/exception_repo.py`, `api/v1/exceptions.py`) | `exceptions`, `exception_decisions`, their conditions, `exception_events` | create, submit, assign, decide, withdraw, satisfy, waive, link, delete | a decision stands; log and verdicts account for the row; no funding past pending required conditions |
| **Domain-event outbox** (`services/event_service.py`, `notification_consumer.py`, `notification_service.py`, `core/main.py`) | `domain_events`, background tasks, mail sent | emit, dispatch, startup dispatch | only committed changes are told; causes before effects; few duplicates; everything scheduled is processed |
| **Submission wizard** (`src/src/frontend/src/state/submissionStore.ts`, `documentStore.ts`, `services/submissionService.ts`, `components/submission/`) | the draft, its server ids, autosaves in the browser, the upload checklist; on the server borrowers, properties, documents | start, type, clear, autosave, save, continue, import, upload, archive, submit, retry, reload, sign out | one row per borrower; a row holds its own loan's data; "saved" means sent and autosaved; nothing typed is lost; documents before submission |
| **Loan workspace** (`src/src/frontend/src/pages/loans/[loanId].tsx`, `hooks/`, `components/loans/workspace/`) | the loan shown, one section's form or list, requests under way; on the server the records and items | navigate, load, type, save, create, add, remove, change an item, apply a template, move the status | records hold what was typed for them; lists show what the server has; everything comes to rest |
| Loan conditions (`services/condition_lifecycle.py`, `api/v1/conditions.py`) | `conditions` | create, submit, clear, waive, reject, delete | one resolution per condition; numbers differ |
| CM delivery: allocations, pools, alerts (`services/cm/allocation_repo.py`, `pool_repo.py`, `alert_repo.py`, `api/v1/cm.py`) | `cm_allocations`, `cm_pools`, `cm_pool_loans`, `cm_alerts` | allocate, create a pool, add a loan to one, acknowledge, resolve | one current allocation per loan; closed pools do not grow |
| CM rules: pricing, eligibility, best execution (`services/cm/pricing_repo.py`, `eligibility_repo.py`, `best_ex_repo.py`) | configuration rows | pure evaluation, one stored run | bands without gaps or overlaps; the chosen program is eligible |
| CM read models (`services/cm/pipeline_repo.py`, `audit_repo.py`) | none | queries | – |
| Documents and storage (`api/v1/documents.py`, `services/document_repo.py`, `storage_service.py`) | files, `documents` | upload, download, delete | a row has its file |
| Borrower intake (`api/v1/intake.py`, `services/intake_repo.py`) | sessions, `intake_answers` | open a session, answer, rank programs, hand off | one answer per question |
| Authentication, sessions, user settings (`api/v1/auth.py`, `users_me.py`, `security/`, `models/user_session.py`) | users, sessions, preferences | log in, refresh, merge preferences | – |
| Audit triggers (`src/db/functions/log_audit_event.sql`, `src/db/migrations/105_audit_triggers.sql`) | `audit_log` | insert on each write | atomic with the write |
| Tasks, notes, workflow records (`api/v1/workflow.py`) | rows | create, read, update, delete | – |
| Loan satellites: borrowers, properties, parties, credit, appraisal, title, escrow, decisioning | rows | create, read, update, delete | – |
| Tenants, users, roles, metadata, settings | rows | create, read, update, delete | – |
| Analytics | none | SQL aggregation | – |
| Other front-end stores and pages (pipeline views, analytics filters, Capital Markets pages, sign-in) | one browser's state | select, filter, display | the server checks again |
| Seed, migration, bootstrap scripts (`src/scripts`) | – | run once, by hand | – |

How they interact:

- The **funding gate** of the status workflow reads the conditions of the loan's
  exceptions (`status.py:119`); nothing keeps them still until the commit.
- **Deleting a loan** takes its history and its exceptions along, by foreign key,
  whatever requests are open on them.
- The **lock desk** prices from the loan's financials and terms, which the loan
  handlers change at any time; the watcher compares them with a lock's snapshot.
- The **wizard** creates, saves and submits a loan through the loan, borrower, property
  and document handlers; its submission ends in `submit_loan`.
- The **workspace** reads and writes what hangs on a loan. Its conditions section
  is modelled down to the server's check and commit; the status section down to
  the loan its transition is posted for.
- The server's handlers that change statuses **emit domain events**. Only `transition_status` schedules a
  dispatch run; submissions, lock and allocation events wait for somebody's next
  transition or for a restart.

`PROJECT.json` lists the hazards of each component at their lines, with the
properties that cover them or the reason that none does.

## Modules and the code

| Module | Models | Composes |
|---|---|---|
| `LoanSlot` | what the lock desk promises of a loan | |
| `CmLocks`, `MCCmLocks` | the lock desk | `Slot == INSTANCE LoanSlot WITH ...`, a refinement |
| `CmLocksProofs` | theorems about `CmLocks` | |
| `LoanStatus`, `MCLoanStatus`, `LoanStatusProofs` | the status workflow over an arbitrary environment `blocked` | |
| `Exceptions`, `MCExceptions`, `ExceptionsProofs` | exceptions over an environment `files` | |
| `Underwriting`, `MCUnderwriting`, `UnderwritingProofs` | both, joined by the gate and the cascade | `INSTANCE` of the two; refines `LoanStatus` |
| `Outbox`, `MCOutbox`, `OutboxProofs` | emission, dispatch, crash, restart | |
| `Submission` | the submission store, its service and the rows it writes | |
| `Documents` | the document store and the documents on the server | |
| `Wizard`, `MCWizard`, `WizardProofs` | the wizard's pages, timer and submission | extends `Submission`, `INSTANCE` of `Documents` |
| `LoanPage` | the page of a loan: address, loan shown, its request | |
| `Forms`, `Lists` | the workspace's sections, as profiles of two generic machines | extend `LoanPage` |
| `Workspace`, `MCWorkspace`, `WorkspaceProofs`, `WorkspaceLists` | the sections under a changing loan | extends `Forms` and `Lists` |

**CmLocks.** `locks`, `lockLog`, `outbox`, `alerts` are the tables, `txn` the open
transaction of each session, `loanData` what pricing reads of a loan. One value of
`LoanData` stands for the pricing inputs, the snapshot stored in a lock and its
SHA-256. `Priceable` are the inputs that `price_loan` does not refuse, `Material`
the changes for which a rule of severity *block* hits. The commit is refused by
`UniqueIndex`, the partial unique index. `RowFree` is the one place where a row
lock matters: `reprice_lock` flushes the expiry of the prior lock, then reads the
loan, then commits, and other writers of the prior row wait meanwhile. The schema
knows the statuses extended, cancelled and funded_delivered; no code path sets
them. `expire_lock` never looks at `expires_at`, so time does not appear. A log is how many
entries of each type it has: `cm_lock_events` is read by `created_at`, which is `now()`
(`audit_repo.py:43`), the same for the entries of one relock and out of order for transactions that
overlap. Migration 136 (lines 100-101) calls the log the source of truth for the order; no order
can be had from it, and none is claimed here. The loans stay while the desk works on them: their deletion
is not part of this module.

**LoanStatus.** `loans` has a loan's status and number, `req` the open requests. `Arrive` is the
start of a request's transaction, the query of `get_current_user` (`security.py:39-64`); it comes before the
`Begin` action that loads the loan. Starts on a loan are numbered (`at`), as `now()` orders them, and an entry of
`history` carries the start of its request, for the API serves the history by `occurred_at`. So a request that
started first and loaded last writes an entry that sorts before the one it follows; the ghost `late` marks it: the
request loaded the loan after one that started no earlier had committed. Domain events are a set: `at` names the request that
emitted one, and no order is claimed between them.
`transition_status` is `BeginTransition`, `ReadGate` when it funds, and
`CommitTransition`; `submit_loan` is `BeginSubmit`, `ReadCount`, `CommitSubmit`.
PATCH and POST status-events set any status a client likes: `Overrides` are those
that clients do set. Archive and PATCH write no history, and the model does not
make them. No commit succeeds on a loan that was deleted meanwhile: every handler
updates the row or inserts a row that references it. Number *n* is
`OR-(1000 + n)`; numbers that clients choose themselves are left out, and so is
the move of a loan to another tenant.

**Exceptions.** Decisions carry the condition they impose, if any. The log is how many events of each type it has, and
the number of a decision is only its name: `occurred_at` is stamped in `log_event` before the commit and `decided_at` is the
start of the transaction, so neither says which of two racing requests wrote the row last. `Written` is the
mapper's UPDATE: a second request for information loads the status it sets and
writes none. Requests without authority end without effect and are left out, as
are comments, documents and edits. No handler sets draft, under_review or closed,
nor expired for a condition.

**Underwriting.** The exceptions' loans are those `LoanStatus` has, and the loans
`LoanStatus` finds blocked are those that `Exceptions!Pending` names. The deletion
of a loan is one step of both. The ghost variable `since` holds, for each session that is ready to commit, the exceptions
on which a request committed since that could block a loan (`Blocking`): a conditional approval, a request
for information, a link.

**Outbox.** `occurred` is `occurred_at`, taken from a clock `now` when an event is emitted:
the order of emission and not of commits (`Before`). A run loads the oldest unprocessed
events (`First`, `Batch` of them),
handles them one by one and commits its marks only at its end: `autoflush=False`,
so nothing is flushed, or locked, before. A consumer that raises, or a mail that
cannot be sent, is marked like one that was. `on_startup` runs the dispatch before
the server serves. One server process is assumed, with as many threads as
`Dispatcher`. Who gets a mail is left out: `mailed` says whether any was sent.
`attempts`, `seen` and `limited` are ghosts, which no action's guard reads.

**Submission.** What a part of the form holds is the number of the edit that wrote it and whether that edit cleared it (`empty`), so that
two saves can be told apart by what they carry; the parts typed between two saves
are a *burst*. A save is a sequence of requests that copies the draft first and reads
the ids of its rows once (`saveDraft`). The header and the financials go first, one after the other and to
the loan itself; nothing separates them in effect, and they are one request here, "figures". Then come the borrower, the
co-borrower and the property. Income and assets are never sent (`submissionService.ts:201-204`). What was cleared is not always told either: a
property without an address is not sent (`submissionStore.ts:214`), and figures are not when all are empty
(`submissionService.ts:231`), so what the server had stays there under "saved". `Sent` is what a save does send, `Autosaved` what the browser
keeps, and `Stored` is both. A loan is started by a request of its own: `AskDraft`, then `StartAnswers` or `StartFails`; the
user may open any wizard in between, and the answer replaces the draft that the store holds by then ("replaced"). A co-borrower that is
added has a fresh id and so has the next one (`cos` counts them), so that the row of a removed one stays.
Autosaves are kept per loan in the browser, without the SSN. `faults` is a history variable:
what happened to each loan that may spoil its rows. It is what the properties'
exceptions are stated with: "overlap" (two saves of it ran at once), "failed",
"reload", "switched" (the store took up the loan with ids of another), "replaced", "late", "left", "signed out", "dragged".

**Documents.** Uploads and loads under way, the checklist and the loan it was made for.
The result of an upload marks the checklist that is there when it arrives, and so does a load, which only adds
marks and may carry what the loan no longer holds: a document that is archived, on its own page or by another user, keeps its mark
(`ArchiveDocument`). A step that mounts over the draft of another loan makes the list twice (`GenerateTwice`).
`stray` remembers loans whose checklist took another loan's mark.

**Wizard.** Pages are `step` and `route`. `router.push` is followed later (`next`), and
typing, the timer and other pages come in between. A step that mounts runs the effects of its children over the draft of before, and only
then does the store hydrate; whether that starts the timer is left open where the draft may not have changed. Each of the four causes of a
save is an action: the timer, the button (which stands for the blur of the SSN field too), Continue and a submission. A submission
begins on the review page, past the errors and the checklist (`ClickSubmit`), or from the message that one failed, past neither (`RetrySubmit`);
the ghost `gated` remembers the loans that went past a checklist of their own.
Validation enters as the fields a step blocks on; the LTV and DSCR rules are left out. One loan is being started at a time, one
submission runs at a time, there is one draft without a loan, an import waits for a free slot for its save, and the message of a failed
submission is not dismissed: these are bounds of the model.

**LoanPage.** `route` is the address, `shown` the loan of `useLoan`, which lags behind.
`causes` is a history variable like `faults`: "empty" (a form met a loan without a
record), "failed", "late" (an answer came after the loan had changed), "early" (an
edit before the loan's record was there), "left", "unanswered", "crossed", "unparsed"
(a 204 that `apiClient` tries to parse), "miscounted", "overlap", "raced", "shared" (another user created the record or added an item). A Limits record,
chosen in `Init`, says in which sections a behaviour plays and bounds its edits, items,
navigations and failures.

**Forms.** A section is a record that says where its data comes from (a list of the
loan's, the loan itself, `useLoanDetail`, nowhere), what a save addresses (a row id, the
loan, nothing), whether the page can create the record, and how its fields are stored. A
form is the set of edits in it: `typed[e]` says on which loan edit `e` was typed. Fields
differ by fate: stored as typed, ignored by the server's schema (`reviewed_by`), rounded (the rate),
of the co-borrower, of a borrower just added, or local, without an endpoint. What the server does with a
request (`Refused`, `Executed`, `Put`) is read from its handlers. `CreatedElsewhere` is another user who creates
an appraisal or title order: creating one looks for none.

**Lists.** Likewise a record: whether a load is cancelled when the loan changes, when items
are hidden, whether an answer patches the list or it is loaded again, whether a failed load
empties it, how templates are applied, whether removals can be parsed, and the steps of an
item's status that it offers. A request on an item is sent, checked by the server
(`ActChecked`), committed (`ActRuns`) and answered as separate steps, so that two of them
race as the handlers do. The list also keeps whose items it shows (`of`): the number of a new condition counts them, while a
former loan's are there still. `AddedElsewhere` is another user who adds a condition or a task, with any
number that a list loaded earlier can give. The server lists the first 100 conditions (`conditions.py:57`); loans here have fewer. Nothing else of other users
is modelled in the workspace: neither their saves, nor their steps of an item, nor their removals.

**Workspace.** `Turn` composes a step of the page with what it does to the section:
`Remount` and `Relist`. `Background` is all that the browser and the server do by
themselves, `User` all that the user does, `Others` what another user does, `Failure` a refused or lost request.

## Runs

| Run | Configuration | Bounds | Shows |
|---|---|---|---|
| `lock_desk` | `CmLocks.cfg` | 1 loan, 2 users, 2 sessions, 2 locks, logs of 5, 1 flag per lock, inputs priceable or not | types, log entries that account for the row, four eyes, chains, announcements, immutable terms, refinement of `LoanSlot` |
| `superseded_stays_final` | `CmLocksSuperseded.cfg` | 3 locks, logs of 6 | *violated* |
| `loan_status` | `LoanStatus.cfg` | 1 loan, 2 sessions, 5 starts, clients set cancelled | history connected as it is served, but for late requests; outbox and history tell the same moves; nothing past funding unfunded |
| `drafts_submittable` | `LoanNumbers.cfg` | 2 loans, 1 session, 4 starts | *violated* |
| `exceptions` | `Exceptions.cfg` | 1 exception, 2 loans, 2 reviewers, 4 events, 2 decisions, conditions required | log and verdicts account for the row; only a race undoes a decision |
| `underwriting` | `Underwriting.cfg` | 1 loan, 1 exception, 1 session on each, 4 starts, 3 events, 1 decision, conditions required or not | what gets past the gate was decided or linked after it was read; refinement of `LoanStatus` |
| `funded_past_gate` | `FundedPastGate.cfg` | as `underwriting` | *violated* |
| `outbox` | `Outbox.cfg` | 3 events, 2 of them scheduled, 2 threads, batch 2, 1 crash, 1 failed run | no phantoms, causal order, bounded duplicates, everything drains |
| `wizard` | `Wizard.cfg` | 2 loans, 2 programs, 2 saves at once, 2 co-borrowers; the nine records of `MCWizard` | one row per borrower, rows of their own loan, saved means sent and autosaved, documents before submission, typing kept and saved in the end |
| `repeated_saves_patch` | `RepeatedSaves.cfg` | the record `Races` | *violated* |
| `workspace` | `Workspace.cfg` | 2 loans, each section, in some another user, the records of `MCWorkspace` | records, lists, numbers and verdicts go wrong only in named ways; everything comes to rest |
| `moves_loan_seen` | `MovesLoanSeen.cfg` | the status section | *violated* |

*Why the bounds are enough.* A race of the server is between two transactions: one
that loads, and one that commits before it writes. Two sessions give every such
pair, and since a session is used again and again, every sequence of them.
A third session would matter only where two stale writes hit a row between a
read and a commit, which one session can do one after the other. One loan
suffices where nothing relates loans. Where something does (the link of an exception,
loan numbers, everything in the browser) there are two. A relock of a relock needs
three locks. `MaxLog`, `MaxStarts`, `MaxEvents`,
`MaxDecisions`, `MaxChanges`, `MaxLocks` bound what would grow for ever, in the
guards; five starts reach funding from a draft and go past it. A start that was rolled
back is used again. Three events and a batch of two reach the limit, and one
crash and one failed run the recoveries; `FewDuplicates` counts both.
For the lock desk, the workflow, the exceptions and the funding gate the theorems
below do away with the bounds; so relocks that cross loans, which `lock_desk` with its
one loan cannot show, are excluded by `SlotImplemented` and `RelockChainHolds`.

In the browser a race is between a request and what the user does meanwhile. What is
typed and for which loan matters, not how much: two edits tell a first save from a
later one. `MCWizard` has a record for each combination that its hazards
need: `Races` (two saves at once, with typing between them), `Crash` (a failure, a reload or a sign-out), `Clear` (an address
or all figures cleared), `Again` (a co-borrower removed and added again), `Loans2` and `Return` (two loans, one of which starts while the
other is open), `Marks` (their documents), `Retry` (a submission that fails and is tried again) and `Archive` (a document that is archived).
`MaxLoans` and `MaxCos` bound the ids; `edits`, `fails`, `uploads`, `archives`, `moves`, `clicks` and `savers` of a record the
steps; `typing`, `programs`, `clears`, `loans` and `cos` say which choices it has. In `MCWorkspace` each section
gets three navigations, enough to leave a loan, come to another and come back, in most sections one
failure, and two edits or one item per loan. Title and processing, from one to the other, and the creation of
conditions, on loans that start with none or one, have four navigations and no failure. The underwriting form has the profile of processing and is
not run apart. Sections whose lists both add and remove, and borrowers
just added, are checked without a failure; templates with three navigations and no failure, and with
two and one failure. Another user adds a record to appraisal, and items to conditions and tasks, without a failure; what
that user does counts as a navigation. With 1.3 million distinct states this is the largest run, of two to three minutes.

*Symmetry.* Sessions, users, loans, exceptions and priceable inputs are
interchangeable in the runs that use it; those check invariants, action
properties and the refinement of a specification without fairness. `outbox`, `wizard` and
`workspace` check liveness and use none.

*Deadlock* is checked except in `exceptions`, `underwriting`, `outbox`, `wizard`, `workspace` and the
violation runs over these modules: there all identifiers may be used up, all rows deleted
or all bounds spent, and the system rests.

*Exceptions in the properties.* Several properties of the wizard and the
workspace end in "or one of these causes happened to this loan". These are the ways the
code goes wrong, each needed: without it the property fails. That there are no others holds
for what is modelled. Saves, steps and removals by other users of the workspace are not.

## Fairness

None is assumed for the lock desk, the workflow and the exceptions: nobody has to
make a request, and no property says that something will happen. In `Outbox`,
each thread is weakly fair in starting a due run and in going on with it
(`Handle` or `EndRun`): the server's thread pool takes up tasks that are due, and a
run is a loop over the events it loaded. That sending a mail ends is an
assumption: the SMTP connection has no timeout (a listed hazard). Handlers,
crashes, failures and restarts are not fair. `Drained` therefore promises
nothing while the server is down, after a run has failed, or when a run
found more events than it loads; the events left over wait for the next
transition.

In `Wizard` each slot for a save is weakly fair in what the browser does by itself
(`Background(s)`): the timer fires, the save of an import starts, and a save under way goes on until it ends, for a
request is answered or fails. In `Workspace` the same is one `Background`, since one fair action at a time
suffices where every step of it consumes a request. The user is never fair: nobody has to
type, save or go anywhere. `TypedIsSaved` and `ComesToRest` rest on this alone. Failures are not
fair either, but they are answers too: a request that fails has ended.

## Proofs

All are for any sets of loans, users, sessions, exceptions, pricing inputs, events, threads,
programs and any values of the bounds. Each states a property that a run checks on a small
instance, or a refinement.

| Module | Theorem | States |
|---|---|---|
| `CmLocksProofs` | `TypeCorrect` | `Spec => []TypeOK` |
| | `LogCorrect` | `Spec => []LogAccounts` |
| | `FourEyesHolds` | `Spec => []FourEyes` |
| | `UnconfirmedHolds` | `Spec => []UnconfirmedLocks` |
| | `TermsStay` | `Spec => TermsImmutable` |
| | `SlotImplemented` | `Spec => ImplementsSlot`, the refinement of `LoanSlot` |
| | `RelockChainHolds` | `Spec => []RelockChain` |
| | `AnnouncedHolds` | `Spec => []Announced` |
| `LoanStatusProofs` | `TypeCorrect` | `Spec => []TypeOK` |
| | `HistoryStaysConnected` | `Spec => []HistoryConnected` |
| | `NothingPastFunding` | `Spec => []ThroughFunding` |
| | `OutboxInStep` | `Spec => []Announced` |
| `ExceptionsProofs` | `XTypeCorrect` | `XSpec => []XTypeOK` |
| | `LogTells` | `XSpec => []LogAccounts` |
| | `VerdictHolds` | `XSpec => []VerdictStands` |
| | `DecisionsStay` | `XSpec => DecidedStays` |
| `UnderwritingProofs` | `GateStands` | `USpec => []OnlyRacesPass` |
| | `StatusImplemented` | `USpec => ImplementsStatus`, the refinement of `LoanStatus` |
| `OutboxProofs` | `TypeCorrect` | `Spec => []TypeOK` |
| | `NothingUncommitted` | `Spec => []NoPhantoms` |
| | `CausesFirst` | `Spec => []CausalOrder` |
| | `DuplicatesBounded` | `Spec => []FewDuplicates` |
| `WizardProofs` | `TypeCorrect` | `Spec => []TypeOK` |
| | `EditsShown` | `Spec => []EditsLoanShown` |
| | `NothingReverted` | `Spec => TypingKept` |
| | `DocumentsFirst` | `Spec => []DocumentsBeforeSubmission` |
| | `PropertyKept` | `Spec => []PropertyOfItsLoan` |
| | `BorrowersOnce` | `Spec => []OneRowPerBorrower` |
| | `SavedIsTrue` | `Spec => []SavedIsStored` |
| `WorkspaceProofs` | `TypeCorrect` | `Spec => []TypeOK` |
| | `VerdictsKept` | `Spec => VerdictStays` |
| | `RowsOfTheirLoan` | `Spec => []RowOfItsLoan` |
| | `OneOfEach` | `Spec => []OneRecord` |
| | `ShownIsStored` | `Spec => []SavedIsStored` |
| `WorkspaceLists` | `NumbersApart` | `Spec => []NumbersDistinct` |
| | `ShownIsServer` | `Spec => []ListIsServer` |

Assumptions: in `CmLocks` `BoundAssumption` (the bounds are natural numbers),
`DataAssumption` (priceable inputs are inputs), `MaterialAssumption` (a field
that did not change hits no rule), `NullAssumption` (NULL is no loan, user or
input); in `LoanStatus` `LoanAssumption` (there are finitely many loans, so that they can be
counted), `StartsAssumption` (the bound is a number), `OverridesAssumption` (clients set statuses that exist) and `NullAssumption` (NULL
is no status); in `Underwriting` the same, where NULL is no loan. `Exceptions` has none. In `Outbox`
`OutboxAssumption` (finitely many threads, so that duplicates can be counted; the batch is a
number); in `Submission` and `Wizard` `SubmissionAssumption` (the bounds are numbers, the missing
program is none, a file has a program, bursts consist of parts of the draft) and `WizardAssumption` (each program, and
the missing one, has its required documents); in `LoanPage` and `Lists` `PageAssumption` (finitely many
loans, the missing one is none) and `ListsAssumption` (the bounds are numbers). TLC evaluates each in a
run over the module.

*The lock desk.* `FourEyes` is not inductive: a confirm checks the requester on the row
as loaded, and commits on the row as it is then. Nor is `UnconfirmedLocks`: an expiry
relies on a confirmation it saw earlier. What carries them is what stale
transactions may still rely on, `Bookkeeping`: the rows up to `nLocks` exist and
keep their loan and requester, and every open transaction (`InForce`) is about
such a row, whose requester is not its actor where it confirms or relocks, and
which was confirmed where it expires or flags it. No commit takes these facts
away, because no UPDATE touches the requester or the loan or clears a
confirmer. The inductive invariant is

    IInv == TypeOK /\ Bookkeeping /\ LogAccounts /\ FourEyes /\ UnconfirmedLocks

`InitInv` proves it initially and `NextInv` for each step. There the commits are
reduced to two lemmas, one for an UPDATE of one row (`UpdateInv`) and one for an
INSERT (`InsertInv`), which the six commits instantiate. For the refinement, a loan has one active lock, a lemma (`OneActiveLockHolds`) that follows from
the index: only commits write rows (`OnlyCommitsWrite`), and they are indexed
(`CommitsAreIndexed`). `HolderIs` says what the mapped slot is, an
UPDATE takes, keeps or releases a slot (`UpdateSlot`), and an INSERT takes it or
hands it over (`InsertSlot`).

*Its ledger.* `RelockChain` and `Announced` count log entries, relocks and events. With
`IInv`, their conjunction `Ledger` is inductive. Lemmas say what an entry
adds to a count (`LoggedIs`, `RelockLogIs`) and a new lock to a set of relocks; each
commit then is arithmetic.

*The workflow.* A stale request breaks the naive induction: the entry it writes
leaves the status it loaded, which the loan may have left, and sorts where its request started. The strengthening (`InForce`) is
that a request loaded a status which the loan *has had* (`Known`), and had by an entry that started before the request did (`Before`)
unless the request is late: what had committed when it loaded and is not of an earlier start makes it so. Histories only grow while their
loan exists, and a deleted loan is not created again. What is past funding
is `Known` only with an entry that says funded, so a stale closing cannot get there first. `Announced` is inductive beside it, as a
commit adds a move to history and outbox or to neither, once a loan that is not there has no events (`Silent`):

    IInv == TypeOK /\ InForce /\ StatusKnown /\ Silent /\ HistoryConnected /\ Announced

*The exceptions.* `InForce` says that the status a request loaded is one its handler accepts, and `RowsSound` that
an exception that is not there has no loan, no decisions and no events. Only a terminal decision writes the columns of a verdict, and whatever
overwrites the status afterwards sets one that is not decided, or decides again: no commit sets a decided
status without leaving a verdict that says so, and no decision is ever taken back. Settling a condition changes a decision in place,
and its type stays (`OfTypeSame`).

*The composition.* While a session is about to fund its loan, an exception comes to block the loan only by one of the commits that
`Blocking` names (`OnlyBlockers`): a settled condition is no longer pending (`SettleKeeps`), and an update that sets another status or leaves
it alone makes no exception conditionally approved (`HarmlessUpdate`). That includes a request for information with a condition, which leaves
the status of a racing approval alone where it loaded its own. So the proof goes through every handler of `Exceptions` with whatever its request had
loaded. For the refinement, steps on exceptions must be steps of the environment of
`LoanStatus`, which blocks only loans that exist. That is `Linked`, inductive because a link
is checked against the loans at its commit and a deleted loan takes its exceptions along.

*Dispatch.* `CausalOrder` needs what the runs hold: what a run still has to do includes, for each event, every
event its handler could have read of that nobody has handled yet (`Causes`). Taking the
oldest first keeps that, since what an event's handler saw is older (`SeenEarlier`), and clock
stamps tell events apart (`Stamped`). `FewDuplicates` counts; its strengthening `Attempted` subtracts, for an event
already marked, the threads that have yet to handle it:

    IInv == Types /\ Stamped /\ Idle /\ Held /\ SeenEarlier /\ NoPhantoms /\ Causes /\ CausalOrder /\ Attempted

*The wizard.* `TypeInv` has the types and that the store's ids, and those of each save, are of rows that exist, of their loan and
borrower (`Pointing`). `TypingKept` needs that drafts kept in the browser are dated by edits that were made (`Timely`), and that
the draft without a loan is on a page only if it is kept, and empty otherwise (`Led`, `Drafted`): a new local draft starts only where none is kept.
`DocumentsBeforeSubmission` rests on `Marks`, what the checklist says was on the server at some time or the loan is stray, and on `Passed`,
the same of the loans in `gated`. `PropertyOfItsLoan` needs that the property id of the store *and of each save in flight* is of a row
of its loan or the loan was blamed (`Placed`). `OneRowPerBorrower` rests on `Singles`: while no two saves
of a loan overlap, the ids of the store, or those of the save in flight, name every row of the loan. `SavedIsStored` is the deepest.
While a loan has nothing against it, only the draft is a save's of it; a save of the draft in flight is alone, carries the draft as it is or the timer
runs for what was typed since, and what it has not sent is what the server lacks (`Underway`, `Progress`); when it has ended with
"saved", the draft is stored or the timer runs (`SavedSo`). Beside them, a closed wizard has no timer (`NoTimer`).

*The workspace.* The properties allow for causes, so the invariants must say what a cause spoils. Two loans are *kin* if they
are one or both were got mixed up; `KinInv` says that records, requests under way and the form that is loaded hold edits of
kin only, which is inductive where "of the same loan" is not: a form that met a loan without a record keeps two loans' edits, and
both are blamed. `OneRecord` needs, of loans to which no cause happened, another user's creation among them, the creation under way: it is of the form mounted, which found no record (`Awaited`), and a form
without one has found none or has a creation under way (`NoneYet`). `SavedIsStored` adds what the saves under way stand for:

    SaveInv == StoredTaken /\ Saving /\ Standing /\ SavedShown

A mount has one save at most and waits for it (`Saving`); a request of a loan without a cause was sent by the form that is still
mounted, loaded, with the same record, and if it ran, what it sent is what is held (`Standing`); so the form's saved state is
what is held, unless a save that ran has yet to be answered (`SavedShown`). `VerdictStays` needs `VerdictInv`: a step that was
checked is allowed from the item's present status, or it was raced. Each step either touches no record of a loan without a cause
(`Elsewhere`, `SaveStays`), or is a write of the form mounted.

*The lists.* `NumbersDistinct` does not follow from the numbers being different: the next number must also be above them all.
Call a loan *muddled* once a cause of the property happened to it. `NumberInv` says that the conditions of a loan that is not have
different numbers of at most their count (`Numbered`); that a request that adds one is the only one, of the list mounted, and numbers what it adds by
the count plus one (`Follows`); and that, unless a condition was added whose answer is still to come, what is loaded and what is shown are
those the server has (`LoadsCount`, `SeenCounts`). The last holds for the loan whose items are shown, which the list keeps in `of`, as an
empty list of a former loan cannot be told from an empty one of this loan.

`ListIsServer` is about a list at rest, its invariant about one that is not. `CourseInv` says what can be under way for a loan that no
cause happened to: requests of the list that is mounted, for the loan it is on (`Attended`), and loads of that loan (`Asked`); what is
hidden is being loaded (`Waited`), and conditions are loaded once at a time (`Single`). Then the lists part ways. One that is loaded
again (`ReloadInv`) shows what the server has unless a request that ran is on its way back, and that request will have the list
loaded; a load may be out of date for the same reason only. One that is patched (`PatchInv`) differs from the server's items exactly
where a request made or changed one and is still to be answered, and the answer puts it right (`Matches`, `PutRight`): the item is as that request left it, since a task has one request
at a time and a title exception one step (`OneAtATime`); what it created is not shown yet and nobody else's; and while a load is under way nothing
runs, or they crossed (`PatchWaits`).

Two errors came to light in these proofs. The model took from the items shown whose they were, which an empty list of a former
loan does not tell; and `NumbersDistinct` compared a condition's number with those of other sections' items, which no run
had beside it. The prefix `UNION` in `LeftUnderWay` is in parentheses because TLC and TLAPS read it differently without.

*Model-checked only.* Every safety invariant and action property of the passing runs is the subject of a theorem above. Liveness
(`Drained`, `TypedIsSaved`, `ComesToRest`) stays with TLC: TLAPS has no rules for ENABLED here. No module declares a RECURSIVE
operator.

## Disagreements found

Five runs violate what a comment, the schema or the design says; `PROJECT.json` quotes the lines.

1. `SupersededStaysFinal`: a confirm that loaded a request before it was
   relocked can commit after the relock has expired, and the superseded lock is
   confirmed again.
2. `DraftsSubmittable`: loan numbers are computed from the number of loans, so two
   drafts that exist together get the same one and the second submission fails on
   the unique index, each time it is tried.
3. `FundedUnblocked`: a conditional approval or a link that commits between the
   funding gate's query and the funding's commit goes unseen.
4. `RepeatedSavesPatch`: two saves of the wizard that overlap both create the borrower,
   although the store keeps the server's ids so that repeated saves update.
5. `MovesLoanSeen`: while the status of the former loan is still shown, confirming its
   transition moves the loan in the address.

`OnlyRacesPass` and `DecidedStays` state what remains true beside 3: only what was decided
or linked after the gate was read gets past it, and only requests that loaded an
exception before its decision undo it.

Met while modelling, and part of the models but of no run of their own: `confirm_lock` refreshes the snapshot
of a lock and keeps the price of the old one; an event whose mail could not be sent is marked
processed and not tried again; a note rate is stored rounded to one decimal
(`WorkspaceLoanEstimate.tsx:258`); creating an escrow record always fails
validation, as its schema requires a `loan_id` that the page does not send; a condition that was
waived can be deleted; deletions answer 204, which the client cannot parse, so that a removed
item stays on screen; processing, underwriting and income have a save bar and no endpoint; the income and the assets typed in the
wizard are never sent, though its save is to "sync all form data to backend" (`submissionStore.ts:174`), and an address or figures
that are cleared stay on the server; the checklist keeps the mark of a document that was archived; trying a failed submission again
skips the checks of the review page; a co-borrower who is removed keeps the row. The log of locks has no order of its own (see `CmLocks`), and
a transition that started before another and loaded after it sorts before it in the history.

## What is not modelled

- Read-only parts (read models, analytics, audit queries): there is nothing to interleave.
- Rows with plain create, read, update and delete and no guards, on the server: satellites,
  tasks, notes, tenants, users, roles, metadata, settings. What the workspace does with
  them is in `Forms` and `Lists`.
- CM delivery (allocations, pools, alerts) and intake write one row each by one handler; their races
  are decided by unique indexes. They are listed as hazards without a property.
- CM rules are arithmetic over configuration rows; the lock desk takes their outcome as
  the sets `Priceable` and `Material`.
- Authentication is library calls and single-row writes; a token that comes and goes is part of `Wizard`.
  Tenancy is left out everywhere: queries are filtered by tenant, and a module is about one tenant.
- The audit triggers run inside the writing transaction; the database makes them atomic.
- Of the front end: layout, formatting, tables and charts; type declarations; mock
  and fixture data for dashboards; stores that only select and filter; the
  pages of Capital Markets, which load once and show. Most of its TypeScript is
  of this kind: markup has no states of its own, and a module of it would have
  nothing to say. So the modules map to about a tenth of its lines: those that hold state, guards and requests.
- Scripts run by hand before the server serves.
