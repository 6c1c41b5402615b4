------------------------------ MODULE CmLocks ------------------------------
(***************************************************************************)
(* The lock desk of the Capital Markets workspace: the rows of cm_locks,   *)
(* their append-only log cm_lock_events, the domain events and the alerts  *)
(* the handlers write with them, and the requests of concurrent users.     *)
(*                                                                         *)
(* Each HTTP request runs in a database transaction of its own, under READ *)
(* COMMITTED and without row locks on what it reads.  A handler loads a    *)
(* row, checks it, reads the loan, sets attributes of the row it loaded    *)
(* and commits; the object-relational mapper writes only the attributes    *)
(* whose value differs from the one it loaded.  Hence the three phases of  *)
(* a transaction here: Begin... loads and checks, ReadLoan or ReadLock     *)
(* reads what the handler reads next, Commit... writes over whatever the   *)
(* row has become meanwhile.  From its first write to its commit a         *)
(* transaction holds the row's lock and nobody sees what it wrote, so its  *)
(* writes are one step; only reprice_lock reads anything in that time, the *)
(* loan, and RowFree keeps the row from other writers until it commits.    *)
(*                                                                         *)
(* Log entries carry created_at, which is now(), the start of the          *)
(* transaction that wrote them: it orders neither the entries of one relock*)
(* nor those of transactions that overlap, so a log here is what it can be *)
(* trusted for, how many entries of each type it has.                      *)
(*                                                                         *)
(* What pricing reads of a loan is one value of LoanData, which is also    *)
(* the snapshot a lock stores and what its hash stands for (sorted JSON    *)
(* under SHA-256, injective for all purposes).  The lock period is left    *)
(* out: it is the same in both snapshots of a lock, and the watcher's      *)
(* period of zero only keeps its first hash comparison from ever matching, *)
(* where no rule could match either (MaterialAssumption).                  *)
(***************************************************************************)
EXTENDS Naturals, FiniteSets, Functions

CONSTANTS
  Loan,        \* loans
  User,        \* users with the Capital Markets role
  Worker,      \* database sessions that can be open at once
  LoanData,    \* what a loan's pricing inputs can be
  Priceable,   \* those with a FICO score, an LTV and a rate-sheet entry
  Material,    \* <<old, new>> such that some rule of severity block hits
  MaxLocks,    \* bound: rows of cm_locks
  MaxChanges,  \* bound: material changes of one lock that flag it, and
               \* those that find it flagged
  Shopped,     \* loans with a best-execution run that chose a program
  MaxLog,      \* bound: log entries of one lock
  Null         \* SQL NULL

ASSUME BoundAssumption == {MaxLocks, MaxChanges, MaxLog} \subseteq Nat
ASSUME DataAssumption == Priceable \subseteq LoanData
\* A field that is equal in both snapshots hits no rule.
ASSUME MaterialAssumption ==
  /\ Material \subseteq LoanData \X LoanData
  /\ \A d \in LoanData : <<d, d>> \notin Material
ASSUME NullAssumption == Null \notin Loan \cup User \cup LoanData

VARIABLES
  loanData,    \* loans, loan_financials and loan_terms, as pricing reads them
  locks,       \* cm_locks
  nLocks,      \* rows ever inserted into cm_locks
  lockLog,     \* cm_lock_events of each lock, by type
  outbox,      \* domain_events of each lock, by type
  alerts,      \* cm_alerts of type reprice_required raised for each lock
  txn          \* the open transaction of each session

tables == <<locks, nLocks, lockLog, outbox, alerts>>
vars == <<loanData, locks, nLocks, lockLog, outbox, alerts, txn>>

LockId == 1 .. MaxLocks

-----------------------------------------------------------------------------
(* Rows and transactions.                                                  *)

\* The statuses a code path sets.  The schema also knows extended, cancelled
\* and funded_delivered; nothing sets them.
Status == {"requested", "confirmed", "reprice_required", "expired"}

Active == {"requested", "confirmed", "reprice_required", "extended"}
\* Mutant: any active lock expires, a request too.
ExpirableActive == Active
Expirable == {"confirmed", "reprice_required", "extended"}
Flaggable == {"confirmed", "extended"}
Watched == {"confirmed", "extended", "reprice_required"}
Repriceable == {"reprice_required", "confirmed", "requested"}

Row ==
  [status: Status \cup {"none"}, loan: Loan \cup {Null},
   requestedBy: User \cup {Null}, confirmedBy: User \cup {Null},
   terms: LoanData \cup {Null}, snapshot: LoanData \cup {Null},
   flagged: BOOLEAN, prior: LockId \cup {0}]

NoRow ==
  [status |-> "none", loan |-> Null, requestedBy |-> Null,
   confirmedBy |-> Null, terms |-> Null, snapshot |-> Null,
   flagged |-> FALSE, prior |-> 0]

LogEvent == {"requested", "confirmed", "reprice_flagged", "repriced", "expired"}

NoEntries == [ev \in LogEvent |-> 0]

DomainEvent ==
  {"cm.lock.confirmed", "cm.lock.expired", "cm.lock.reprice_flagged",
   "cm.lock.repriced", "cm.material_change"}

Op == {"none", "request", "confirm", "expire", "reprice", "detect", "flag",
       "announce"}

Txn ==
  [pc: {"idle", "loaded", "ready"}, op: Op, actor: User \cup {Null},
   loan: Loan \cup {Null}, lock: LockId \cup {0},
   loaded: LoanData \cup {Null}, data: LoanData \cup {Null}]

NoTxn ==
  [pc |-> "idle", op |-> "none", actor |-> Null, loan |-> Null, lock |-> 0,
   loaded |-> Null, data |-> Null]

Init ==
  /\ loanData \in [Loan -> LoanData]
  /\ locks = [k \in LockId |-> NoRow]
  /\ nLocks = 0
  /\ lockLog = [k \in LockId |-> NoEntries]
  /\ outbox = [k \in LockId |-> [e \in DomainEvent |-> 0]]
  /\ alerts = [k \in LockId |-> 0]
  /\ txn = [w \in Worker |-> NoTxn]

OneActivePerLoan(rows) ==
  \A j, k \in LockId :
    /\ rows[j].status \in Active
    /\ rows[k].status \in Active
    /\ rows[j].loan = rows[k].loan
    => j = k

\* Mutant: the index leaves out requests.
UnrequestedIndex(rows) ==
  OneActivePerLoan([k \in LockId |->
    IF rows[k].status = "requested" THEN NoRow ELSE rows[k]])

\* uq_cm_locks_one_active_per_loan.
UniqueIndex(rows) == OneActivePerLoan(rows)

RequestedRow(l, u, d) ==
  [NoRow EXCEPT !.status = "requested", !.loan = l, !.requestedBy = u,
                !.terms = d, !.snapshot = d]

\* Mutant: the terms are priced again at confirmation.
ConfirmedRowRepriced(row, u, s, d) ==
  [row EXCEPT !.status = "confirmed", !.confirmedBy = u, !.snapshot = d,
              !.terms = d]

\* The UPDATE of a confirm that loaded snapshot s and took snapshot d.  Its
\* status and its confirmer differ from what it loaded; the snapshot is
\* written only if it does; reprice_required_at was NULL and is set to NULL.
ConfirmedRow(row, u, s, d) ==
  [row EXCEPT !.status = "confirmed", !.confirmedBy = u,
              !.snapshot = IF d = s THEN @ ELSE d]

\* Mutant: UPDATE ... WHERE status is still flaggable, the count unread.
FlaggedRowIfCurrent(row) ==
  IF row.status \in Flaggable
  THEN [row EXCEPT !.status = "reprice_required", !.flagged = TRUE]
  ELSE row

\* Mutant: the type of the event taken for the status.
FlaggedRowByEvent(row) ==
  [row EXCEPT !.status = "reprice_flagged", !.flagged = TRUE]

FlaggedRow(row) ==
  [row EXCEPT !.status = "reprice_required", !.flagged = TRUE]

ExpiredRow(row) == [row EXCEPT !.status = "expired"]

\* The confirmed row a relock of p inserts: request, then confirm, in one go.
RelockRow(l, u, d, p) ==
  [RequestedRow(l, u, d) EXCEPT !.status = "confirmed", !.confirmedBy = u,
                                !.prior = p]

-----------------------------------------------------------------------------
(* The users' and the other handlers' writes to the loan.                  *)

\* PUT /loans/{id}/financials, PATCH /loans/{id}.
EditLoan(l, d) ==
  /\ loanData' = [loanData EXCEPT ![l] = d]
  /\ UNCHANGED <<tables, txn>>

-----------------------------------------------------------------------------
(* Transactions.                                                           *)

Idle(w) == txn[w].pc = "idle"

Ready(w, op) == txn[w].pc = "ready" /\ txn[w].op = op

Start(w, t) ==
  /\ txn' = [txn EXCEPT ![w] = t]
  /\ UNCHANGED <<loanData, tables>>

\* No other session has written row k and not committed.
RowFree(w, k) ==
  \A v \in Worker \ {w} : Ready(v, "reprice") => txn[v].lock # k

\* The entries of a log.
Entries(log) == FoldFunction(LAMBDA n, m : n + m, 0, log)

\* log_event: the log with one more entry for lock k.
Logged(k, ev) == [lockLog EXCEPT ![k][ev] = @ + 1]

\* The commit of session w: the new rows must satisfy the unique index.
Commit(w, rows, log) ==
  /\ UniqueIndex(rows)
  /\ \A k \in LockId : Entries(log[k]) <= MaxLog
  /\ locks' = rows
  /\ lockLog' = log
  /\ txn' = [txn EXCEPT ![w] = NoTxn]
  /\ UNCHANGED loanData

\* A session ends without commit: an IntegrityError at the flush, a
\* ValueError, a lost connection, a crash of the server.
Rollback(w) ==
  /\ ~ Idle(w)
  /\ txn' = [txn EXCEPT ![w] = NoTxn]
  /\ UNCHANGED <<loanData, tables>>

-----------------------------------------------------------------------------
(* POST /cm/locks: request_lock.                                           *)

BeginRequest(w, u, l) ==
  /\ Idle(w)
  /\ loanData[l] \in Priceable
  /\ Start(w, [NoTxn EXCEPT !.pc = "ready", !.op = "request", !.actor = u,
                            !.loan = l, !.data = loanData[l]])

CommitRequest(w) ==
  LET t == txn[w]
      k == nLocks + 1
  IN  /\ Ready(w, "request")
      /\ k \in LockId
      /\ Commit(w,
                [locks EXCEPT ![k] = RequestedRow(t.loan, t.actor, t.data)],
                Logged(k, "requested"))
      /\ nLocks' = k
      /\ UNCHANGED <<outbox, alerts>>

-----------------------------------------------------------------------------
(* POST /cm/locks/{id}/confirm: confirm_lock.                              *)

\* Mutant: no check that approver and requester differ.
MayConfirmAnyone(u, row) == row.status = "requested"

MayConfirm(u, row) == row.status = "requested" /\ row.requestedBy # u

BeginConfirm(w, u, k) ==
  /\ Idle(w)
  /\ MayConfirm(u, locks[k])
  /\ Start(w, [NoTxn EXCEPT !.pc = "loaded", !.op = "confirm", !.actor = u,
                            !.lock = k, !.loan = locks[k].loan,
                            !.loaded = locks[k].snapshot])

CommitConfirm(w) ==
  LET t == txn[w]
      k == t.lock
  IN  /\ Ready(w, "confirm")
      /\ RowFree(w, k)
      /\ Commit(w,
                [locks EXCEPT
                   ![k] = ConfirmedRow(@, t.actor, t.loaded, t.data)],
                Logged(k, "confirmed"))
      /\ outbox' = [outbox EXCEPT ![k]["cm.lock.confirmed"] = @ + 1]
      /\ UNCHANGED <<nLocks, alerts>>

-----------------------------------------------------------------------------
(* POST /cm/locks/{id}/expire: expire_lock.  It never looks at expires_at. *)

BeginExpire(w, k) ==
  /\ Idle(w)
  /\ locks[k].status \in Expirable
  /\ Start(w, [NoTxn EXCEPT !.pc = "ready", !.op = "expire", !.lock = k,
                            !.loan = locks[k].loan])

CommitExpire(w) ==
  LET t == txn[w]
      k == t.lock
  IN  /\ Ready(w, "expire")
      /\ RowFree(w, k)
      /\ Commit(w, [locks EXCEPT ![k] = ExpiredRow(@)],
                   Logged(k, "expired"))
      /\ outbox' = [outbox EXCEPT ![k]["cm.lock.expired"] = @ + 1]
      /\ UNCHANGED <<nLocks, alerts>>

-----------------------------------------------------------------------------
(* POST /cm/loans/{id}/reprice: reprice_lock.                              *)

\* The lock to reprice is the newest of the loan's in a repriceable status;
\* the unique index leaves one at most.
PriorOf(l, row) == row.loan = l /\ row.status \in Repriceable

BeginReprice(w, u, l, k) ==
  /\ Idle(w)
  /\ PriorOf(l, locks[k])
  /\ locks[k].requestedBy # u
  /\ l \in Shopped
  /\ Start(w, [NoTxn EXCEPT !.pc = "loaded", !.op = "reprice", !.actor = u,
                            !.lock = k, !.loan = l])

\* Mutant: the superseded lock is logged as repriced only if still active.
RelockLogIfActive(p, k) ==
  [lockLog EXCEPT ![p]["expired"] = @ + 1,
                  ![p]["repriced"] = IF locks[p].status \in Active
                                     THEN @ + 1 ELSE @,
                  ![k]["requested"] = @ + 1, ![k]["confirmed"] = @ + 1]

RelockLog(p, k) ==
  [lockLog EXCEPT ![p]["expired"] = @ + 1, ![p]["repriced"] = @ + 1,
                  ![k]["requested"] = @ + 1, ![k]["confirmed"] = @ + 1]

\* Mutant: the superseded lock is announced as expired, too.
RelockOutboxExpiring(p, k) ==
  [outbox EXCEPT ![p]["cm.lock.expired"] = @ + 1,
                 ![k]["cm.lock.repriced"] = @ + 1]

RelockOutbox(p, k) == [outbox EXCEPT ![k]["cm.lock.repriced"] = @ + 1]

CommitReprice(w) ==
  LET t == txn[w]
      p == t.lock
      k == nLocks + 1
  IN  /\ Ready(w, "reprice")
      /\ k \in LockId
      /\ Commit(w,
                [locks EXCEPT
                   ![p] = ExpiredRow(@),
                   ![k] = RelockRow(t.loan, t.actor, t.data, p)],
                RelockLog(p, k))
      /\ nLocks' = k
      /\ outbox' = RelockOutbox(p, k)
      /\ UNCHANGED alerts

\* Confirm snapshots the loan after it loaded the lock; reprice prices the
\* loan after it has expired the prior lock (RowFree), and fails on one it
\* can't price.
ReadLoan(w) ==
  LET t == txn[w]
      d == loanData[t.loan]
  IN  /\ t.pc = "loaded"
      /\ t.op \in {"confirm", "reprice"}
      /\ t.op = "reprice" => d \in Priceable /\ RowFree(w, t.lock)
      /\ Start(w, [t EXCEPT !.pc = "ready", !.data = d])

-----------------------------------------------------------------------------
(* POST /cm/_internal/detect-material-change/{loan}: the watcher.          *)

BeginDetect(w, l) ==
  /\ Idle(w)
  /\ Start(w, [NoTxn EXCEPT !.pc = "loaded", !.op = "detect", !.loan = l,
                            !.data = loanData[l]])

\* The loan's watched lock, of which the unique index leaves one at most.
\* Without one, or without a hit of severity block, the watcher writes nothing.
\* flag_for_reprice refuses a lock that is flagged already; the change is
\* announced all the same.
ReadLock(w, k) ==
  LET t == txn[w]
  IN  /\ t.pc = "loaded"
      /\ t.op = "detect"
      /\ locks[k].loan = t.loan
      /\ locks[k].status \in Watched
      /\ <<locks[k].snapshot, t.data>> \in Material
      /\ Start(w, [t EXCEPT !.pc = "ready", !.lock = k, !.data = Null,
                            !.op = IF locks[k].status \in Flaggable
                                   THEN "flag" ELSE "announce"])

\* flag_for_reprice, raise_alert and the announcement.
CommitFlag(w) ==
  LET k == txn[w].lock
  IN  /\ Ready(w, "flag")
      /\ RowFree(w, k)
      /\ outbox[k]["cm.lock.reprice_flagged"] < MaxChanges
      /\ Commit(w, [locks EXCEPT ![k] = FlaggedRow(@)],
                   Logged(k, "reprice_flagged"))
      /\ outbox' = [outbox EXCEPT ![k]["cm.lock.reprice_flagged"] = @ + 1,
                                  ![k]["cm.material_change"] = @ + 1]
      /\ alerts' = [alerts EXCEPT ![k] = @ + 1]
      /\ UNCHANGED nLocks

CommitAnnounce(w) ==
  LET k == txn[w].lock
  IN  /\ Ready(w, "announce")
      /\ outbox[k]["cm.material_change"]
           < outbox[k]["cm.lock.reprice_flagged"] + MaxChanges
      /\ Commit(w, locks, lockLog)
      /\ outbox' = [outbox EXCEPT ![k]["cm.material_change"] = @ + 1]
      /\ UNCHANGED <<nLocks, alerts>>

-----------------------------------------------------------------------------
Next ==
  \/ \E l \in Loan, d \in LoanData : EditLoan(l, d)
  \/ \E w \in Worker, u \in User, l \in Loan : BeginRequest(w, u, l)
  \/ \E w \in Worker, u \in User, k \in LockId : BeginConfirm(w, u, k)
  \/ \E w \in Worker, u \in User, l \in Loan, k \in LockId :
       BeginReprice(w, u, l, k)
  \/ \E w \in Worker, l \in Loan : BeginDetect(w, l)
  \/ \E w \in Worker, k \in LockId : BeginExpire(w, k) \/ ReadLock(w, k)
  \/ \E w \in Worker :
       \/ ReadLoan(w)
       \/ CommitRequest(w) \/ CommitConfirm(w) \/ CommitExpire(w)
       \/ CommitReprice(w) \/ CommitFlag(w) \/ CommitAnnounce(w)
       \/ Rollback(w)

Spec == Init /\ [][Next]_vars

-----------------------------------------------------------------------------
(* Properties.                                                             *)

\* The rows, logs and transactions have the shapes the schema and the
\* handlers give them, and no status beyond the four that are ever set.
TypeOK ==
  /\ loanData \in [Loan -> LoanData]
  /\ locks \in [LockId -> Row]
  /\ nLocks \in 0 .. MaxLocks
  /\ lockLog \in [LockId -> [LogEvent -> Nat]]
  /\ outbox \in [LockId -> [DomainEvent -> Nat]]
  /\ alerts \in [LockId -> Nat]
  /\ txn \in [Worker -> Txn]

\* The status that an entry of the log stands for.
StatusAfter ==
  [requested |-> "requested", confirmed |-> "confirmed",
   reprice_flagged |-> "reprice_required", expired |-> "expired",
   repriced |-> "expired"]

Accounts(log, row) ==
  /\ log["requested"] = IF row.status = "none" THEN 0 ELSE 1
  /\ row.status \in {"none", "requested"} =>
       \A ev \in LogEvent \ {"requested"} : log[ev] = 0
  /\ row.confirmedBy # Null <=> log["confirmed"] > 0
  /\ row.flagged <=> log["reprice_flagged"] > 0
  /\ row.status # "none" =>
       \E ev \in LogEvent : log[ev] > 0 /\ StatusAfter[ev] = row.status

\* The log accounts for the row, also when requests overwrite each other: a
\* row has one entry for its request, and no other while it is a request; it
\* has a confirmer or the time of a flag exactly if the log has such an
\* entry; and its status is one that some entry stands for.
LogAccounts == \A k \in LockId : Accounts(lockLog[k], locks[k])

\* Approver and requester differ (PIN 2): whoever confirmed a lock is not the
\* requester of the lock, or, for a relock, not the requester of the lock it
\* supersedes.
FourEyes ==
  \A k \in LockId :
    LET row == locks[k]
    IN  row.confirmedBy # Null =>
          \/ row.confirmedBy # row.requestedBy
          \/ row.prior # 0 /\ row.confirmedBy # locks[row.prior].requestedBy

\* Relocks chain to an older lock of the same loan, and a lock's log records
\* as many relocks of it as there are locks chained to it.
RelockChain ==
  \A p \in LockId :
    LET relocks == {k \in LockId : locks[k].prior = p}
    IN  /\ \A k \in relocks : p < k /\ locks[k].loan = locks[p].loan
        /\ lockLog[p]["repriced"] = Cardinality(relocks)

\* A lock that nobody has confirmed is a request still, or was superseded by
\* a relock: it is never flagged, and never expires by itself.
UnconfirmedLocks ==
  \A k \in LockId :
    locks[k].confirmedBy = Null /\ locks[k].status \notin {"none", "requested"}
    => \E r \in LockId : locks[r].prior = k

\* Consumers of the outbox hear of every transition in the log once: a
\* confirmation or a relock for each confirmed entry, an expiry for each
\* expired entry that is not part of a relock, a flag and an alert for each
\* reprice_flagged entry.
Announced ==
  \A k \in LockId :
    /\ lockLog[k]["confirmed"] =
         outbox[k]["cm.lock.confirmed"]
           + outbox[k]["cm.lock.repriced"]
    /\ lockLog[k]["expired"] =
         outbox[k]["cm.lock.expired"] + lockLog[k]["repriced"]
    /\ lockLog[k]["reprice_flagged"] =
         outbox[k]["cm.lock.reprice_flagged"]
    /\ alerts[k] = lockLog[k]["reprice_flagged"]

\* Row k has been inserted for a loan by a user, and relocks an older row.
Inserted(k) ==
  /\ locks[k].status \in Status
  /\ locks[k].loan \in Loan
  /\ locks[k].requestedBy \in User
  /\ locks[k].prior \in 0 .. k - 1
  /\ locks[k].confirmedBy = Null => locks[k].status \in {"requested", "expired"}

\* What transaction t goes by is about a row that exists and, for all that
\* the other sessions have committed since, has not changed its requester or
\* lost its confirmation.
InForce(t) ==
  /\ t.pc # "idle" => t.loan \in Loan
  /\ t.op \in {"request", "confirm", "reprice"} =>
       /\ t.actor \in User
       /\ t.pc = "ready" => t.data \in LoanData
  /\ t.op \in {"confirm", "reprice", "expire", "flag", "announce"} =>
       t.lock \in 1 .. nLocks
  /\ t.op \in {"confirm", "reprice"} =>
       /\ locks[t.lock].requestedBy # t.actor
       /\ locks[t.lock].loan = t.loan
  /\ t.op \in {"expire", "flag"} => locks[t.lock].confirmedBy # Null

\* What stale transactions rely on, the part of the inductive invariant that
\* FourEyes and UnconfirmedLocks rest on.
Bookkeeping ==
  /\ \A k \in LockId :
       IF k <= nLocks THEN Inserted(k) ELSE locks[k] = NoRow
  /\ \A w \in Worker : InForce(txn[w])

Kept(k) ==
  /\ locks'[k].status # "none"
  /\ \A f \in {"terms", "loan", "requestedBy", "prior"} :
       locks'[k][f] = locks[k][f]
  /\ \A ev \in LogEvent : lockLog[k][ev] <= lockLog'[k][ev]

\* The priced terms of a lock, whose it is and what it supersedes never
\* change once the row exists, no row disappears, and the log only grows.
TermsImmutable ==
  [][\A k \in LockId : locks[k].status # "none" => Kept(k)]_vars

\* The loan's slot: its active lock.
Holder ==
  [l \in Loan |->
     IF \E k \in LockId : locks[k].loan = l /\ locks[k].status \in Active
     THEN CHOOSE k \in LockId : locks[k].loan = l /\ locks[k].status \in Active
     ELSE 0]

Slot == INSTANCE LoanSlot WITH holder <- Holder, seen <- 1 .. nLocks

\* Whatever the requests do to each other, a lock gets the loan's slot only
\* when it is free, or by a relock into a fresh row.
ImplementsSlot == Slot!Spec

\* What the decision record says of a relock: the superseded row stays in its
\* final state.
SupersededStaysFinal ==
  [][\A k, r \in LockId :
       locks[r].prior = k /\ locks[k].status = "expired"
       => locks'[k].status = "expired"]_vars

=============================================================================
