--------------------------- MODULE CmLocksProofs ---------------------------
(***************************************************************************)
(* Theorems about CmLocks, for all loans, users and pricing inputs, any    *)
(* number of sessions and any bounds: of each lock and its loan first,     *)
(* then of what the desk counts, the relocks of a lock, the transitions in *)
(* its log and the domain events and alerts that tell of them.             *)
(***************************************************************************)
EXTENDS CmLocks, FiniteSetTheorems, TLAPS

-----------------------------------------------------------------------------
(* The schema and the types.                                               *)

\* The rows that requests, confirmations, flags, expiries and relocks write are
\* rows of the schema.
LEMMA RowTypes ==
  /\ NoRow \in Row
  /\ \A row \in Row : ExpiredRow(row) \in Row /\ FlaggedRow(row) \in Row
  /\ \A row \in Row, u \in User \cup {Null}, s, d \in LoanData \cup {Null} :
       ConfirmedRow(row, u, s, d) \in Row
  /\ \A l \in Loan \cup {Null}, u \in User \cup {Null},
        d \in LoanData \cup {Null}, p \in LockId \cup {0} :
       RequestedRow(l, u, d) \in Row /\ RelockRow(l, u, d, p) \in Row
<1>1. NoRow \in Row
  BY DEF NoRow, Row
<1>2. \A row \in Row : ExpiredRow(row) \in Row
  BY DEF Row, Status, ExpiredRow
<1>3. \A row \in Row : FlaggedRow(row) \in Row
  BY DEF Row, Status, FlaggedRow
<1>4. ASSUME NEW row \in Row, NEW u \in User \cup {Null},
             NEW s, NEW d \in LoanData \cup {Null}
      PROVE  ConfirmedRow(row, u, s, d) \in Row
  <2> DEFINE e == IF d = s THEN row.snapshot ELSE d
  <2>1. e \in LoanData \cup {Null}
    BY DEF Row
  <2>2. ConfirmedRow(row, u, s, d) =
          [row EXCEPT !.status = "confirmed", !.confirmedBy = u,
                      !.snapshot = e]
    BY DEF ConfirmedRow
  <2> QED
    BY <2>1, <2>2 DEF Row, Status
<1>5. ASSUME NEW l \in Loan \cup {Null}, NEW u \in User \cup {Null},
             NEW d \in LoanData \cup {Null}, NEW p \in LockId \cup {0}
      PROVE  RequestedRow(l, u, d) \in Row /\ RelockRow(l, u, d, p) \in Row
  <2>1. RequestedRow(l, u, d) \in Row
    BY <1>1 DEF RequestedRow, Row, Status
  <2>2. [RequestedRow(l, u, d) EXCEPT !.status = "confirmed",
           !.confirmedBy = u, !.prior = p] \in Row
    BY <2>1 DEF Row, Status
  <2> QED
    BY <2>1, <2>2 DEF RelockRow
<1> QED
  BY <1>1, <1>2, <1>3, <1>4, <1>5

\* Logs stay logs, with one more entry where there is one.
LEMMA LoggedIs ==
  ASSUME lockLog \in [LockId -> [LogEvent -> Nat]],
         NEW k \in LockId, NEW e \in LogEvent
  PROVE  /\ Logged(k, e) \in [LockId -> [LogEvent -> Nat]]
         /\ \A j \in LockId \ {k} : Logged(k, e)[j] = lockLog[j]
         /\ \A x \in LogEvent :
              Logged(k, e)[k][x] = lockLog[k][x] + IF x = e THEN 1 ELSE 0
<1>1. PICK c \in [LogEvent -> Nat] : c = lockLog[k]
  OBVIOUS
<1>2. PICK n \in Nat : n = c[e]
  OBVIOUS
<1>3. [c EXCEPT ![e] = n + 1] \in [LogEvent -> Nat]
  OBVIOUS
<1>4. Logged(k, e) = [lockLog EXCEPT ![k] = [c EXCEPT ![e] = n + 1]]
  BY <1>1, <1>2 DEF Logged
<1>5. /\ Logged(k, e) \in [LockId -> [LogEvent -> Nat]]
      /\ \A j \in LockId \ {k} : Logged(k, e)[j] = lockLog[j]
      /\ Logged(k, e)[k] = [c EXCEPT ![e] = n + 1]
  BY <1>3, <1>4
<1>6. \A x \in LogEvent :
        [c EXCEPT ![e] = n + 1][x] = c[x] + IF x = e THEN 1 ELSE 0
  BY <1>2
<1> QED
  BY <1>1, <1>5, <1>6

\* A relock's four entries.
LEMMA RelockLogIs ==
  ASSUME lockLog \in [LockId -> [LogEvent -> Nat]],
         NEW p \in LockId, NEW k \in LockId, p # k
  PROVE  /\ RelockLog(p, k) \in [LockId -> [LogEvent -> Nat]]
         /\ \A j \in LockId \ {p, k} : RelockLog(p, k)[j] = lockLog[j]
         /\ \A x \in LogEvent :
              RelockLog(p, k)[p][x] =
                lockLog[p][x] + IF x \in {"expired", "repriced"} THEN 1 ELSE 0
         /\ \A x \in LogEvent :
              RelockLog(p, k)[k][x] =
                lockLog[k][x] + IF x \in {"requested", "confirmed"} THEN 1 ELSE 0
<1>1. PICK c \in [LogEvent -> Nat], d \in [LogEvent -> Nat] :
        c = lockLog[p] /\ d = lockLog[k]
  OBVIOUS
<1>2. {"expired", "repriced", "requested", "confirmed"} \subseteq LogEvent
  BY DEF LogEvent
<1> DEFINE C == [c EXCEPT !["expired"] = @ + 1, !["repriced"] = @ + 1]
           D == [d EXCEPT !["requested"] = @ + 1, !["confirmed"] = @ + 1]
<1>3. /\ C \in [LogEvent -> Nat]
      /\ \A x \in LogEvent :
           C[x] = c[x] + IF x \in {"expired", "repriced"} THEN 1 ELSE 0
  BY <1>2
<1>4. /\ D \in [LogEvent -> Nat]
      /\ \A x \in LogEvent :
           D[x] = d[x] + IF x \in {"requested", "confirmed"} THEN 1 ELSE 0
  BY <1>2
<1>5. RelockLog(p, k) = [lockLog EXCEPT ![p] = C, ![k] = D]
  BY <1>1 DEF RelockLog
<1> HIDE DEF C, D
<1>6. /\ RelockLog(p, k) \in [LockId -> [LogEvent -> Nat]]
      /\ \A j \in LockId \ {p, k} : RelockLog(p, k)[j] = lockLog[j]
      /\ RelockLog(p, k)[p] = C /\ RelockLog(p, k)[k] = D
  BY <1>3, <1>4, <1>5
<1> QED
  BY <1>1, <1>3, <1>4, <1>6

\* A domain event that is added to the outbox leaves it an outbox.
LEMMA CountTypes ==
  ASSUME NEW box \in [LockId -> [DomainEvent -> Nat]], NEW k,
         NEW e \in DomainEvent
  PROVE  [box EXCEPT ![k][e] = @ + 1] \in [LockId -> [DomainEvent -> Nat]]
<1>1. CASE k \in LockId
  <2>1. [box[k] EXCEPT ![e] = @ + 1] \in [DomainEvent -> Nat]
    BY <1>1
  <2> QED
    BY <1>1, <2>1
<1>2. CASE k \notin LockId
  BY <1>2
<1> QED
  BY <1>1, <1>2

\* A commit of rows and logs of the right type keeps TypeOK.
LEMMA CommitType ==
  ASSUME TypeOK, NEW w \in Worker,
         NEW rows \in [LockId -> Row], NEW log \in [LockId -> [LogEvent -> Nat]],
         Commit(w, rows, log),
         nLocks' \in 0 .. MaxLocks,
         outbox' \in [LockId -> [DomainEvent -> Nat]],
         alerts' \in [LockId -> Nat]
  PROVE  TypeOK'
<1>1. NoTxn \in Txn
  BY DEF NoTxn, Txn, Op
<1>2. txn' \in [Worker -> Txn]
  BY <1>1 DEF TypeOK, Commit
<1> QED
  BY <1>2 DEF TypeOK, Commit

\* The empty desk has the right types.
THEOREM InitType == Init => TypeOK
<1> SUFFICES ASSUME Init PROVE TypeOK
  OBVIOUS
<1>1. locks \in [LockId -> Row]
  BY RowTypes DEF Init
<1>2. nLocks \in 0 .. MaxLocks
  BY BoundAssumption DEF Init
<1>3. NoTxn \in Txn
  BY DEF NoTxn, Txn, Op
<1>4. txn \in [Worker -> Txn]
  BY <1>3 DEF Init
<1>5. lockLog \in [LockId -> [LogEvent -> Nat]]
  BY DEF Init, NoEntries
<1>6. outbox \in [LockId -> [DomainEvent -> Nat]] /\ alerts \in [LockId -> Nat]
  BY DEF Init
<1> QED
  BY <1>1, <1>2, <1>4, <1>5, <1>6 DEF Init, TypeOK

-----------------------------------------------------------------------------
(* The inductive invariant.  FourEyes and UnconfirmedLocks say what is true *)
(* of the rows; a stale transaction keeps them true only because of what    *)
(* Bookkeeping says of the transactions.                                    *)

IInv ==
  /\ TypeOK
  /\ Bookkeeping
  /\ LogAccounts
  /\ FourEyes
  /\ UnconfirmedLocks

\* A transaction that is idle asks for nothing.
LEMMA IdleInForce == NoTxn \in Txn /\ InForce(NoTxn)
BY DEF NoTxn, InForce, Txn, Op

\* The empty desk satisfies the inductive invariant.
THEOREM InitInv == Init => IInv
<1> SUFFICES ASSUME Init PROVE IInv
  OBVIOUS
<1>1. Bookkeeping
  BY IdleInForce DEF Bookkeeping, Init, LockId
<1>2. LogAccounts
  BY DEF LogAccounts, Accounts, Init, NoRow, NoEntries, LogEvent
<1>3. FourEyes
  BY DEF FourEyes, Init, NoRow
<1>4. UnconfirmedLocks
  BY DEF UnconfirmedLocks, Init, NoRow
<1> QED
  BY <1>1, <1>2, <1>3, <1>4, InitType DEF IInv

\* Steps that leave the tables alone.
LEMMA SameTables ==
  ASSUME IInv, UNCHANGED tables, loanData' \in [Loan -> LoanData],
         txn' \in [Worker -> Txn], \A w \in Worker : InForce(txn'[w])
  PROVE  IInv'
<1>1. TypeOK'
  BY DEF IInv, TypeOK, tables
<1>2. \A w \in Worker : InForce(txn[w])'
  BY DEF InForce, tables
<1>3. Bookkeeping'
  BY <1>2 DEF IInv, Bookkeeping, Inserted, tables
<1>4. LogAccounts' /\ FourEyes' /\ UnconfirmedLocks'
  BY DEF IInv, LogAccounts, FourEyes, UnconfirmedLocks, tables
<1> QED
  BY <1>1, <1>3, <1>4 DEF IInv

\* A session that opens a transaction or reads more in it keeps the invariant,
\* if what it goes by is in force.
LEMMA StartInv ==
  ASSUME IInv, NEW w \in Worker, NEW t \in Txn, InForce(t), Start(w, t)
  PROVE  IInv'
<1>1. txn' \in [Worker -> Txn]
  BY DEF IInv, TypeOK, Start
<1>2. \A v \in Worker : InForce(txn'[v])
  BY DEF IInv, TypeOK, Bookkeeping, Start
<1>3. loanData' \in [Loan -> LoanData]
  BY DEF IInv, TypeOK, Start
<1> QED
  BY <1>1, <1>2, <1>3, SameTables DEF Start

\* Nothing the invariant says depends on what a loan looks like now.
LEMMA EditInv ==
  ASSUME IInv, NEW l \in Loan, NEW d \in LoanData, EditLoan(l, d)
  PROVE  IInv'
<1>1. loanData' \in [Loan -> LoanData]
  BY DEF IInv, TypeOK, EditLoan
<1>2. txn' \in [Worker -> Txn] /\ \A w \in Worker : InForce(txn'[w])
  BY DEF IInv, TypeOK, Bookkeeping, EditLoan
<1> QED
  BY <1>1, <1>2, SameTables DEF EditLoan

-----------------------------------------------------------------------------
(* The steps of a transaction up to its commit.                            *)

\* A handler that loads a row with a status has loaded one that exists.
LEMMA LoadedRow ==
  ASSUME IInv, NEW k \in LockId, locks[k].status \in Status
  PROVE  k \in 1 .. nLocks /\ Inserted(k)
<1>1. nLocks \in Nat /\ k \in Nat /\ k >= 1
  BY BoundAssumption DEF IInv, TypeOK, LockId
<1>2. locks[k] # NoRow
  BY DEF NoRow, Status
<1> QED
  BY <1>1, <1>2 DEF IInv, Bookkeeping

\* Loading a row, a lock or a loan, and giving up, keep the invariant.
LEMMA BeginInv ==
  ASSUME IInv, NEW w \in Worker,
         \/ \E u \in User, l \in Loan : BeginRequest(w, u, l)
         \/ \E u \in User, k \in LockId : BeginConfirm(w, u, k)
         \/ \E u \in User, l \in Loan, k \in LockId : BeginReprice(w, u, l, k)
         \/ \E l \in Loan : BeginDetect(w, l)
         \/ \E k \in LockId : BeginExpire(w, k) \/ ReadLock(w, k)
         \/ ReadLoan(w)
         \/ Rollback(w)
  PROVE  IInv'
<1>0. /\ NoTxn \in Txn
      /\ txn[w] \in Txn
      /\ InForce(txn[w])
      /\ loanData \in [Loan -> LoanData]
      /\ locks \in [LockId -> Row]
  BY IdleInForce DEF IInv, TypeOK, Bookkeeping
<1>1. ASSUME NEW u \in User, NEW l \in Loan, BeginRequest(w, u, l)
      PROVE  IInv'
  <2> DEFINE t == [NoTxn EXCEPT !.pc = "ready", !.op = "request", !.actor = u,
                                !.loan = l, !.data = loanData[l]]
  <2>1. t \in Txn /\ InForce(t)
    BY <1>0 DEF NoTxn, Txn, Op, InForce
  <2>2. Start(w, t)
    BY <1>1 DEF BeginRequest
  <2> QED
    BY <2>1, <2>2, StartInv
<1>2. ASSUME NEW u \in User, NEW k \in LockId, BeginConfirm(w, u, k)
      PROVE  IInv'
  <2> DEFINE t == [NoTxn EXCEPT !.pc = "loaded", !.op = "confirm",
                                !.actor = u, !.lock = k,
                                !.loan = locks[k].loan,
                                !.loaded = locks[k].snapshot]
  <2>1. locks[k].status \in Status /\ locks[k].requestedBy # u
    BY <1>2 DEF BeginConfirm, MayConfirm, Status
  <2>2. t \in Txn /\ InForce(t)
    BY <1>0, <2>1, LoadedRow, ZenonT(40)
       DEF NoTxn, Txn, Op, InForce, Row, Inserted
  <2>3. Start(w, t)
    BY <1>2 DEF BeginConfirm
  <2> QED
    BY <2>2, <2>3, StartInv
<1>3. ASSUME NEW u \in User, NEW l \in Loan, NEW k \in LockId,
             BeginReprice(w, u, l, k)
      PROVE  IInv'
  <2> DEFINE t == [NoTxn EXCEPT !.pc = "loaded", !.op = "reprice",
                                !.actor = u, !.lock = k, !.loan = l]
  <2>1. /\ locks[k].status \in Status
        /\ locks[k].requestedBy # u
        /\ locks[k].loan = l
    BY <1>3 DEF BeginReprice, PriorOf, Repriceable, Status
  <2>2. t \in Txn /\ InForce(t)
    BY <1>0, <2>1, LoadedRow, ZenonT(40) DEF NoTxn, Txn, Op, InForce
  <2>3. Start(w, t)
    BY <1>3 DEF BeginReprice
  <2> QED
    BY <2>2, <2>3, StartInv
<1>4. ASSUME NEW l \in Loan, BeginDetect(w, l)
      PROVE  IInv'
  <2> DEFINE t == [NoTxn EXCEPT !.pc = "loaded", !.op = "detect",
                                !.loan = l, !.data = loanData[l]]
  <2>1. t \in Txn /\ InForce(t)
    BY <1>0 DEF NoTxn, Txn, Op, InForce
  <2>2. Start(w, t)
    BY <1>4 DEF BeginDetect
  <2> QED
    BY <2>1, <2>2, StartInv
<1>5. ASSUME NEW k \in LockId, BeginExpire(w, k)
      PROVE  IInv'
  <2> DEFINE t == [NoTxn EXCEPT !.pc = "ready", !.op = "expire", !.lock = k,
                                !.loan = locks[k].loan]
  <2>1. locks[k].status \in Expirable
    BY <1>5 DEF BeginExpire
  <2>2. locks[k].status \in Status
    BY <1>0, <2>1 DEF Expirable, Status, Row
  <2>3. Inserted(k) /\ k \in 1 .. nLocks
    BY <2>2, LoadedRow
  <2>4. locks[k].confirmedBy # Null
    BY <2>1, <2>3 DEF Inserted, Expirable
  <2>5. t \in Txn /\ InForce(t)
    BY <1>0, <2>3, <2>4 DEF NoTxn, Txn, Op, InForce, Inserted
  <2>6. Start(w, t)
    BY <1>5 DEF BeginExpire
  <2> QED
    BY <2>5, <2>6, StartInv
<1>6. ASSUME NEW k \in LockId, ReadLock(w, k)
      PROVE  IInv'
  <2> DEFINE o == IF locks[k].status \in Flaggable THEN "flag" ELSE "announce"
             t == [txn[w] EXCEPT !.pc = "ready", !.lock = k, !.data = Null,
                                 !.op = o]
  <2>1. /\ locks[k].status \in Watched
        /\ txn[w].pc = "loaded"
    BY <1>6 DEF ReadLock
  <2>2. locks[k].status \in Status
    BY <1>0, <2>1 DEF Watched, Status, Row
  <2>3. Inserted(k) /\ k \in 1 .. nLocks
    BY <2>2, LoadedRow
  <2>4. o \in {"flag", "announce"}
    OBVIOUS
  <2>5. o = "flag" => locks[k].confirmedBy # Null
    BY <2>3 DEF Inserted, Flaggable
  <2>6. Start(w, t)
    BY <1>6 DEF ReadLock
  <2> HIDE DEF o
  <2>7. t \in Txn
    BY <1>0, <2>4 DEF Txn, Op
  <2>8. InForce(t)
    BY <1>0, <2>1, <2>3, <2>4, <2>5 DEF InForce, Txn
  <2> QED
    BY <2>6, <2>7, <2>8, StartInv
<1>7. CASE ReadLoan(w)
  <2> DEFINE d == loanData[txn[w].loan]
             t == [txn[w] EXCEPT !.pc = "ready", !.data = d]
  <2>1. txn[w].pc = "loaded" /\ txn[w].op \in {"confirm", "reprice"}
    BY <1>7 DEF ReadLoan
  <2>2. txn[w].loan \in Loan
    BY <1>0, <2>1 DEF InForce
  <2>3. d \in LoanData
    BY <1>0, <2>2
  <2>4. Start(w, t)
    BY <1>7 DEF ReadLoan
  <2> HIDE DEF d
  <2>5. t \in Txn
    BY <1>0, <2>3 DEF Txn
  <2>6. InForce(t)
    BY <1>0, <2>1, <2>3 DEF InForce, Txn
  <2> QED
    BY <2>4, <2>5, <2>6, StartInv
<1>8. CASE Rollback(w)
  BY <1>0, <1>8, IdleInForce, StartInv DEF Rollback, Start
<1> QED
  BY <1>1, <1>2, <1>3, <1>4, <1>5, <1>6, <1>7, <1>8

-----------------------------------------------------------------------------
(* Commits.                                                                *)

\* Locks are numbered by naturals.
LEMMA Bounds ==
  ASSUME IInv
  PROVE  /\ nLocks \in Nat /\ MaxLocks \in Nat /\ nLocks <= MaxLocks
         /\ LockId = 1 .. MaxLocks
         /\ 1 .. nLocks \subseteq LockId
BY BoundAssumption DEF IInv, TypeOK, LockId

\* No commit of another session takes from a transaction what it relies on.
LEMMA StillInForce ==
  ASSUME NEW w \in Worker, NEW v \in Worker, IInv,
         txn' = [txn EXCEPT ![w] = NoTxn],
         nLocks' \in Nat, nLocks' >= nLocks,
         \A j \in 1 .. nLocks :
           /\ locks'[j].requestedBy = locks[j].requestedBy
           /\ locks'[j].loan = locks[j].loan
           /\ locks[j].confirmedBy # Null => locks'[j].confirmedBy # Null
  PROVE  InForce(txn[v])'
<1>1. CASE v = w
  <2>1. txn'[v] = NoTxn
    BY <1>1 DEF IInv, TypeOK
  <2> QED
    BY <2>1 DEF InForce, NoTxn
<1>2. CASE v # w
  <2>1. txn'[v] = txn[v] /\ InForce(txn[v]) /\ nLocks \in Nat
    BY <1>2, Bounds DEF IInv, TypeOK, Bookkeeping
  <2> QED
    BY <2>1 DEF InForce
<1> QED
  BY <1>1, <1>2

\* A commit that updates row k as its new log entry e tells, and that leaves
\* it confirmed by who has, or by someone who may.
LEMMA UpdateInv ==
  ASSUME IInv, NEW w \in Worker, NEW k \in 1 .. nLocks, NEW r \in Row,
         NEW e \in LogEvent \ {"requested"},
         Commit(w, [locks EXCEPT ![k] = r], Logged(k, e)),
         r.status = StatusAfter[e],
         r.flagged = (locks[k].flagged \/ e = "reprice_flagged"),
         locks[k].confirmedBy # Null \/ e = "confirmed",
         r.loan = locks[k].loan,
         r.requestedBy = locks[k].requestedBy,
         r.prior = locks[k].prior,
         r.confirmedBy # Null,
         r.confirmedBy = locks[k].confirmedBy \/ r.confirmedBy # r.requestedBy,
         nLocks' = nLocks,
         outbox' \in [LockId -> [DomainEvent -> Nat]],
         alerts' \in [LockId -> Nat]
  PROVE  IInv'
<1>0. /\ k \in LockId
      /\ locks \in [LockId -> Row]
      /\ lockLog \in [LockId -> [LogEvent -> Nat]]
      /\ nLocks \in 0 .. MaxLocks
      /\ Inserted(k)
  BY Bounds DEF IInv, TypeOK, Bookkeeping
<1>1. /\ locks' = [locks EXCEPT ![k] = r]
      /\ lockLog' = Logged(k, e)
      /\ txn' = [txn EXCEPT ![w] = NoTxn]
  BY DEF Commit
<1>2. r.status \in Status
  BY DEF StatusAfter, LogEvent, Status
<1>3. \A j \in LockId :
        /\ locks'[j].requestedBy = locks[j].requestedBy
        /\ locks'[j].loan = locks[j].loan
        /\ locks'[j].prior = locks[j].prior
        /\ locks[j].confirmedBy # Null => locks'[j].confirmedBy # Null
        /\ j # k => locks'[j] = locks[j] /\ lockLog'[j] = lockLog[j]
  BY <1>0, <1>1, LoggedIs
<1>4. /\ locks'[k] = r
      /\ \A x \in LogEvent :
           lockLog'[k][x] = lockLog[k][x] + IF x = e THEN 1 ELSE 0
  BY <1>0, <1>1, LoggedIs
<1>5. TypeOK'
  <2>1. [locks EXCEPT ![k] = r] \in [LockId -> Row]
    BY <1>0
  <2>2. Logged(k, e) \in [LockId -> [LogEvent -> Nat]]
    BY <1>0, LoggedIs
  <2> QED
    BY <1>0, <2>1, <2>2, CommitType DEF IInv
<1>6. Bookkeeping'
  <2>1. \A j \in LockId :
          IF j <= nLocks THEN Inserted(j)' ELSE (locks[j] = NoRow)'
    <3> SUFFICES ASSUME NEW j \in LockId
                 PROVE  IF j <= nLocks THEN Inserted(j)'
                                       ELSE (locks[j] = NoRow)'
      OBVIOUS
    <3>1. CASE j = k
      <4>1. Inserted(k)'
        BY <1>0, <1>2, <1>4 DEF Inserted
      <4> QED
        BY <3>1, <4>1
    <3>2. CASE j # k
      BY <1>3, <3>2 DEF IInv, Bookkeeping, Inserted
    <3> QED
      BY <3>1, <3>2
  <2>2. nLocks \in Nat /\ nLocks' >= nLocks
    BY Bounds
  <2>3. \A j \in 1 .. nLocks :
          /\ locks'[j].requestedBy = locks[j].requestedBy
          /\ locks'[j].loan = locks[j].loan
          /\ locks[j].confirmedBy # Null => locks'[j].confirmedBy # Null
    BY <1>3, Bounds
  <2>4. \A v \in Worker : InForce(txn[v])'
    BY <1>1, <2>2, <2>3, StillInForce
  <2> QED
    BY <2>1, <2>4 DEF Bookkeeping
<1>7. LogAccounts'
  <2>1. Accounts(lockLog[k], locks[k]) /\ locks[k].status # "none"
    BY <1>0 DEF IInv, LogAccounts, Inserted, Status
  <2>2. r.status \notin {"none", "requested"}
    BY DEF StatusAfter, LogEvent
  <2>3. \A x \in LogEvent : lockLog[k][x] \in Nat
    BY <1>0
  <2>4. Accounts(lockLog'[k], r)
    <3>1. {"requested", "confirmed", "reprice_flagged"} \subseteq LogEvent
      BY DEF LogEvent
    <3>2. lockLog'[k]["requested"] = 1
      BY <1>4, <2>1, <3>1 DEF Accounts
    <3>3. r.confirmedBy # Null <=> lockLog'[k]["confirmed"] > 0
      BY <1>4, <2>1, <2>3, <3>1 DEF Accounts
    <3>4. r.flagged <=> lockLog'[k]["reprice_flagged"] > 0
      <4>1. locks[k].flagged <=> lockLog[k]["reprice_flagged"] > 0
        BY <2>1, Zenon DEF Accounts
      <4>2. r.flagged <=> locks[k].flagged \/ e = "reprice_flagged"
        OBVIOUS
      <4> QED
        BY <1>4, <2>3, <3>1, <4>1, <4>2
    <3>5. lockLog'[k][e] > 0
      BY <1>4, <2>3
    <3> QED
      BY <2>2, <3>2, <3>3, <3>4, <3>5 DEF Accounts
  <2>5. \A j \in LockId \ {k} : Accounts(lockLog'[j], locks'[j])
    BY <1>3 DEF IInv, LogAccounts
  <2> QED
    BY <1>4, <2>4, <2>5 DEF LogAccounts
<1>8. FourEyes'
  <2>1. \A j \in LockId : locks[j].prior # 0 => locks[j].prior \in LockId
    BY <1>0 DEF Row
  <2> SUFFICES ASSUME NEW j \in LockId, locks'[j].confirmedBy # Null
               PROVE  \/ locks'[j].confirmedBy # locks'[j].requestedBy
                      \/ /\ locks'[j].prior # 0
                         /\ locks'[j].confirmedBy
                              # locks'[locks'[j].prior].requestedBy
    BY DEF FourEyes
  <2>2. CASE locks'[j].confirmedBy = locks[j].confirmedBy
    BY <1>3, <2>1, <2>2 DEF IInv, FourEyes
  <2>3. CASE locks'[j].confirmedBy # locks[j].confirmedBy
    BY <1>3, <1>4, <2>3
  <2> QED
    BY <2>2, <2>3
<1>9. UnconfirmedLocks'
  <2> SUFFICES ASSUME NEW j \in LockId, locks'[j].confirmedBy = Null,
                      locks'[j].status \notin {"none", "requested"}
               PROVE  \E i \in LockId : locks'[i].prior = j
    BY DEF UnconfirmedLocks
  <2>1. j # k
    BY <1>4
  <2>2. locks'[j] = locks[j]
    BY <1>3, <2>1
  <2>3. PICK i \in LockId : locks[i].prior = j
    BY <2>2 DEF IInv, UnconfirmedLocks
  <2> QED
    BY <1>3, <2>3
<1> QED
  BY <1>5, <1>6, <1>7, <1>8, <1>9 DEF IInv

\* A prior of the next lock is an older lock, or none.
LEMMA OlderId ==
  ASSUME nLocks \in Nat, NEW k \in LockId, k = nLocks + 1, NEW p \in 0 .. nLocks
  PROVE  p \in LockId \ {k} \/ p = 0
BY BoundAssumption DEF LockId

\* A commit that inserts row k, a request or a relock.  Of the rows before it
\* at most the one it supersedes changes, and only its status does.
LEMMA InsertInv ==
  ASSUME IInv, NEW w \in Worker, NEW k \in LockId, k = nLocks + 1,
         NEW rows \in [LockId -> Row], NEW log \in [LockId -> [LogEvent -> Nat]],
         Commit(w, rows, log),
         nLocks' = k,
         outbox' \in [LockId -> [DomainEvent -> Nat]],
         alerts' \in [LockId -> Nat],
         \A j \in LockId \ {k} :
           \/ rows[j] = locks[j] /\ log[j] = lockLog[j]
           \/ /\ rows[j] = ExpiredRow(locks[j])
              /\ Accounts(log[j], rows[j])
              /\ j <= nLocks
              /\ rows[k].prior = j,
         rows[k].status \in Status,
         rows[k].loan \in Loan,
         rows[k].requestedBy \in User,
         rows[k].prior \in 0 .. nLocks,
         Accounts(log[k], rows[k]),
         IF rows[k].confirmedBy = Null
         THEN rows[k].status = "requested"
         ELSE /\ rows[k].prior # 0
              /\ rows[k].confirmedBy # locks[rows[k].prior].requestedBy
  PROVE  IInv'
<1>a. locks \in [LockId -> Row]
  BY DEF IInv, TypeOK
<1>b. /\ nLocks \in Nat /\ MaxLocks \in Nat
      /\ LockId = 1 .. MaxLocks
      /\ 1 .. nLocks \subseteq LockId
  BY Bounds
<1>c. k \in Nat /\ nLocks' \in 0 .. MaxLocks
  BY <1>b
<1>0. /\ locks \in [LockId -> Row]
      /\ nLocks \in Nat /\ k \in Nat
      /\ LockId = 1 .. MaxLocks /\ MaxLocks \in Nat
      /\ 1 .. nLocks \subseteq LockId
  BY <1>a, <1>b, <1>c
<1>1. /\ locks' = rows
      /\ lockLog' = log
      /\ txn' = [txn EXCEPT ![w] = NoTxn]
  BY DEF Commit
<1>2. \A j \in LockId \ {k} :
        /\ rows[j].requestedBy = locks[j].requestedBy
        /\ rows[j].confirmedBy = locks[j].confirmedBy
        /\ rows[j].loan = locks[j].loan
        /\ rows[j].prior = locks[j].prior
        /\ rows[j].status \in {locks[j].status, "expired"}
  BY <1>0 DEF ExpiredRow, Row
<1>3. TypeOK'
  BY <1>c, CommitType DEF IInv
<1>4. Bookkeeping'
  <2>1. ASSUME NEW j \in LockId
        PROVE  IF j <= nLocks' THEN Inserted(j)' ELSE (locks[j] = NoRow)'
    <3>1. CASE j = k
      BY <1>0, <1>1, <3>1 DEF Inserted
    <3>2. CASE j # k /\ j <= nLocks
      <4>1. Inserted(j)
        BY <3>2 DEF IInv, Bookkeeping
      <4>2. Inserted(j)'
        BY <1>1, <1>2, <3>2, <4>1 DEF Inserted, Status
      <4> QED
        BY <1>0, <3>2, <4>2
    <3>3. CASE j # k /\ ~ (j <= nLocks)
      BY <1>0, <1>1, <3>3 DEF IInv, Bookkeeping
    <3> QED
      BY <3>1, <3>2, <3>3
  <2>2. \A v \in Worker : InForce(txn[v])'
    <3>1. nLocks' \in Nat /\ nLocks' >= nLocks
      BY <1>0
    <3>2. \A j \in 1 .. nLocks :
            /\ locks'[j].requestedBy = locks[j].requestedBy
            /\ locks'[j].loan = locks[j].loan
            /\ locks[j].confirmedBy # Null => locks'[j].confirmedBy # Null
      <4>1. 1 .. nLocks \subseteq LockId \ {k}
        BY <1>0
      <4> QED
        BY <1>1, <1>2, <4>1
    <3> QED
      BY <1>1, <3>1, <3>2, StillInForce
  <2> QED
    BY <2>1, <2>2 DEF Bookkeeping
<1>5. LogAccounts'
  <2> SUFFICES ASSUME NEW j \in LockId
               PROVE  Accounts(log[j], rows[j])
    BY <1>1 DEF LogAccounts
  <2>1. CASE j # k /\ rows[j] = locks[j] /\ log[j] = lockLog[j]
    BY <2>1 DEF IInv, LogAccounts
  <2> QED
    BY <2>1
<1>6. FourEyes'
  <2> SUFFICES ASSUME NEW j \in LockId, rows[j].confirmedBy # Null
               PROVE  \/ rows[j].confirmedBy # rows[j].requestedBy
                      \/ /\ rows[j].prior # 0
                         /\ rows[j].confirmedBy # rows[rows[j].prior].requestedBy
    BY <1>1 DEF FourEyes
  <2>1. CASE j = k
    <3>1. rows[k].prior \in LockId \ {k} \/ rows[k].prior = 0
      BY <1>0, OlderId, Zenon
    <3>2. rows[k].prior # 0 =>
            rows[rows[k].prior].requestedBy = locks[rows[k].prior].requestedBy
      BY <1>2, <3>1
    <3>3. \/ rows[k].confirmedBy # rows[k].requestedBy
          \/ /\ rows[k].prior # 0
             /\ rows[k].confirmedBy # rows[rows[k].prior].requestedBy
      BY <2>1, <3>2, Zenon
    <3> QED
      BY <2>1, <3>3
  <2>2. CASE j # k
    <3>1. locks[j] # NoRow
      BY <1>2, <2>2 DEF NoRow
    <3>2. j <= nLocks /\ locks[j].prior \in 0 .. j - 1
      BY <3>1 DEF IInv, Bookkeeping, Inserted
    <3> DEFINE p == locks[j].prior
    <3>3. p = 0 \/ (p \in LockId /\ p # k)
      <4>1. j \in Nat /\ p \in 0 .. j - 1
        BY <1>0, <3>2
      <4> HIDE DEF p
      <4>2. p \in Nat /\ p < k /\ p < j
        BY <1>0, <3>2, <4>1
      <4>3. p # 0 => p \in 1 .. nLocks
        BY <1>0, <3>2, <4>1, <4>2
      <4>4. p \in 1 .. nLocks => p \in LockId
        BY <1>0
      <4> QED
        BY <1>0, <4>2, <4>3, <4>4
    <3>4. locks[j].confirmedBy # Null
      BY <1>2, <2>2
    <3>5. \/ locks[j].confirmedBy # locks[j].requestedBy
          \/ p # 0 /\ locks[j].confirmedBy # locks[p].requestedBy
      BY <3>4 DEF IInv, FourEyes
    <3> QED
      BY <1>2, <2>2, <3>3, <3>5, ZenonT(40)
  <2> QED
    BY <2>1, <2>2
<1>7. UnconfirmedLocks'
  <2> SUFFICES ASSUME NEW j \in LockId, rows[j].confirmedBy = Null,
                      rows[j].status \notin {"none", "requested"}
               PROVE  \E i \in LockId : rows[i].prior = j
    BY <1>1 DEF UnconfirmedLocks
  <2>1. j # k
    OBVIOUS
  <2>2. CASE rows[j] = locks[j]
    <3>1. PICK i \in LockId : locks[i].prior = j
      BY <2>2 DEF IInv, UnconfirmedLocks
    <3>2. i # k
      BY <1>0, <3>1 DEF IInv, Bookkeeping, NoRow
    <3> QED
      BY <1>2, <3>1, <3>2
  <2>3. CASE rows[k].prior = j
    BY <2>3
  <2> QED
    BY <2>1, <2>2, <2>3
<1> QED
  BY <1>3, <1>4, <1>5, <1>6, <1>7 DEF IInv

\* A lock id that is not in use has no entries.
LEMMA FreshLog ==
  ASSUME IInv, NEW k \in LockId, k = nLocks + 1
  PROVE  /\ locks[k] = NoRow
         /\ \A x \in LogEvent : lockLog[k][x] = 0
<1>1. locks[k] = NoRow
  BY Bounds DEF IInv, Bookkeeping
<1>2. Accounts(lockLog[k], NoRow)
  BY <1>1 DEF IInv, LogAccounts
<1> QED
  BY <1>1, <1>2 DEF Accounts, NoRow

\* request_lock's commit keeps the invariant.
LEMMA RequestInv ==
  ASSUME IInv, NEW w \in Worker, CommitRequest(w)
  PROVE  IInv'
<1> DEFINE t == txn[w]
           k == nLocks + 1
           rows == [locks EXCEPT ![k] = RequestedRow(t.loan, t.actor, t.data)]
           log == Logged(k, "requested")
<1>1. /\ t.pc = "ready" /\ t.op = "request"
      /\ k \in LockId
      /\ Commit(w, rows, log)
      /\ nLocks' = k
      /\ UNCHANGED <<outbox, alerts>>
  BY DEF CommitRequest, Ready
<1>2. t.loan \in Loan /\ t.actor \in User /\ t.data \in LoanData
  BY <1>1 DEF IInv, Bookkeeping, InForce
<1>3. /\ locks \in [LockId -> Row]
      /\ lockLog \in [LockId -> [LogEvent -> Nat]]
      /\ outbox \in [LockId -> [DomainEvent -> Nat]]
      /\ alerts \in [LockId -> Nat]
      /\ nLocks \in Nat
  BY Bounds DEF IInv, TypeOK
<1> DEFINE r == RequestedRow(t.loan, t.actor, t.data)
<1>4. /\ r \in Row
      /\ r.status = "requested" /\ r.loan = t.loan
      /\ r.requestedBy = t.actor /\ r.confirmedBy = Null /\ r.prior = 0
      /\ ~ r.flagged
  <2>1. r \in Row
    BY <1>2, RowTypes
  <2> QED
    BY <2>1 DEF RequestedRow, NoRow
<1> HIDE DEF r
<1>5. rows = [locks EXCEPT ![k] = r]
  BY DEF r
<1>6. rows \in [LockId -> Row] /\ log \in [LockId -> [LogEvent -> Nat]]
  <2>1. rows \in [LockId -> Row]
    BY <1>3, <1>4, <1>5
  <2>2. log \in [LockId -> [LogEvent -> Nat]]
    BY <1>1, <1>3, LoggedIs DEF LogEvent
  <2> QED
    BY <2>1, <2>2
<1>7. /\ rows[k] = r
      /\ \A x \in LogEvent : log[k][x] = IF x = "requested" THEN 1 ELSE 0
  <2>1. rows[k] = r
    BY <1>1, <1>3, <1>5
  <2>2. \A x \in LogEvent : lockLog[k][x] = 0
    BY <1>1, <1>3, FreshLog
  <2>3. \A x \in LogEvent :
          log[k][x] = lockLog[k][x] + IF x = "requested" THEN 1 ELSE 0
    BY <1>1, <1>3, LoggedIs DEF LogEvent
  <2> QED
    BY <2>1, <2>2, <2>3
<1>8. \A j \in LockId \ {k} : rows[j] = locks[j] /\ log[j] = lockLog[j]
  <2>1. \A j \in LockId \ {k} : log[j] = lockLog[j]
    BY <1>1, <1>3, LoggedIs DEF LogEvent
  <2> QED
    BY <1>3, <1>5, <2>1
<1>9. Accounts(log[k], rows[k])
  BY <1>4, <1>7 DEF Accounts, StatusAfter, LogEvent
<1> HIDE DEF rows, log, t, k
<1>10. k = nLocks + 1 /\ 0 \in 0 .. nLocks
  BY <1>3 DEF k
<1> QED
  BY <1>1, <1>2, <1>3, <1>4, <1>6, <1>7, <1>8, <1>9, <1>10, InsertInv
     DEF Status

\* reprice_lock's commit keeps the invariant.
LEMMA RepriceInv ==
  ASSUME IInv, NEW w \in Worker, CommitReprice(w)
  PROVE  IInv'
<1> DEFINE t == txn[w]
           p == t.lock
           k == nLocks + 1
           r == RelockRow(t.loan, t.actor, t.data, p)
           rows == [locks EXCEPT ![p] = ExpiredRow(@), ![k] = r]
           log == RelockLog(p, k)
<1>1. /\ t.pc = "ready" /\ t.op = "reprice"
      /\ k \in LockId
      /\ Commit(w, rows, log)
      /\ nLocks' = k
      /\ outbox' = RelockOutbox(p, k)
      /\ UNCHANGED alerts
  BY DEF CommitReprice, Ready
<1>2. /\ t.loan \in Loan /\ t.actor \in User /\ t.data \in LoanData
      /\ p \in 1 .. nLocks
      /\ locks[p].requestedBy # t.actor
  BY <1>1 DEF IInv, Bookkeeping, InForce
<1>3. /\ locks \in [LockId -> Row]
      /\ lockLog \in [LockId -> [LogEvent -> Nat]]
      /\ outbox \in [LockId -> [DomainEvent -> Nat]]
      /\ alerts \in [LockId -> Nat]
      /\ nLocks \in Nat
  BY Bounds DEF IInv, TypeOK
<1>4. p \in LockId /\ p # k /\ p # 0 /\ p \in 0 .. nLocks /\ p <= nLocks
  BY <1>2, <1>3, Bounds
<1>5. /\ r \in Row
      /\ r.status = "confirmed" /\ r.loan = t.loan
      /\ r.requestedBy = t.actor /\ r.confirmedBy = t.actor /\ r.prior = p
      /\ ~ r.flagged
  <2>1. RequestedRow(t.loan, t.actor, t.data) \in Row /\ r \in Row
    BY <1>2, <1>4, RowTypes
  <2>2. RequestedRow(t.loan, t.actor, t.data).loan = t.loan
    BY DEF RequestedRow, NoRow
  <2>3. /\ RequestedRow(t.loan, t.actor, t.data).requestedBy = t.actor
        /\ ~ RequestedRow(t.loan, t.actor, t.data).flagged
    BY DEF RequestedRow, NoRow
  <2> QED
    BY <2>1, <2>2, <2>3 DEF RelockRow, Row
<1>6. Accounts(lockLog[p], locks[p]) /\ locks[p].status # "none"
  BY <1>2, <1>3, <1>4 DEF IInv, LogAccounts, Bookkeeping, Inserted, Status
<1>19. \A x \in LogEvent : lockLog[k][x] = 0 /\ lockLog[p][x] \in Nat
  BY <1>1, <1>3, <1>4, FreshLog
<1> HIDE DEF r, p, t, k
<1>7. /\ rows[k] = r
      /\ rows[p] = ExpiredRow(locks[p])
      /\ \A j \in LockId \ {k, p} : rows[j] = locks[j]
  BY <1>1, <1>3, <1>4
<1>8. rows \in [LockId -> Row]
  <2>1. ExpiredRow(locks[p]) \in Row
    BY <1>3, <1>4, RowTypes
  <2> QED
    BY <1>3, <1>5, <2>1
<1>9. /\ log \in [LockId -> [LogEvent -> Nat]]
      /\ \A j \in LockId \ {k, p} : log[j] = lockLog[j]
      /\ \A x \in LogEvent :
           log[p][x] =
             lockLog[p][x] + IF x \in {"expired", "repriced"} THEN 1 ELSE 0
      /\ \A x \in LogEvent :
           log[k][x] = IF x \in {"requested", "confirmed"} THEN 1 ELSE 0
  <2>1. \A x \in LogEvent :
          log[k][x] =
            lockLog[k][x] + IF x \in {"requested", "confirmed"} THEN 1 ELSE 0
    BY <1>1, <1>3, <1>4, RelockLogIs
  <2> QED
    BY <1>1, <1>3, <1>4, <1>19, <2>1, RelockLogIs
<1> HIDE DEF log
<1>11. Accounts(log[k], r)
  <2>1. r.confirmedBy # Null
    BY <1>2, <1>5, NullAssumption
  <2> QED
    BY <1>5, <1>9, <2>1 DEF Accounts, StatusAfter, LogEvent
<1>12. Accounts(log[p], rows[p])
  <2>1. /\ rows[p].status = "expired"
        /\ rows[p].confirmedBy = locks[p].confirmedBy
        /\ rows[p].flagged = locks[p].flagged
    BY <1>3, <1>4, <1>7 DEF ExpiredRow, Row
  <2>2. {"requested", "confirmed", "reprice_flagged", "expired"} \subseteq LogEvent
    BY DEF LogEvent
  <2>3. /\ log[p]["requested"] = lockLog[p]["requested"]
        /\ log[p]["confirmed"] = lockLog[p]["confirmed"]
        /\ log[p]["reprice_flagged"] = lockLog[p]["reprice_flagged"]
        /\ log[p]["expired"] > 0
    BY <1>9, <1>19, <2>2
  <2>4. StatusAfter["expired"] = "expired"
    BY DEF StatusAfter
  <2> QED
    BY <1>6, <2>1, <2>2, <2>3, <2>4 DEF Accounts
<1>13. outbox' \in [LockId -> [DomainEvent -> Nat]]
  BY <1>1, <1>3, CountTypes DEF RelockOutbox, DomainEvent
<1>14. \A j \in LockId \ {k} :
         \/ rows[j] = locks[j] /\ log[j] = lockLog[j]
         \/ /\ rows[j] = ExpiredRow(locks[j])
            /\ Accounts(log[j], rows[j])
            /\ j <= nLocks
            /\ rows[k].prior = j
  BY <1>4, <1>5, <1>7, <1>9, <1>12
<1>15. k = nLocks + 1
  BY DEF k
<1>16. alerts' \in [LockId -> Nat]
  BY <1>1, <1>3
<1> HIDE DEF rows, log
<1>17. /\ rows[k].status \in Status /\ rows[k].loan \in Loan
       /\ rows[k].requestedBy \in User /\ rows[k].prior \in 0 .. nLocks
       /\ Accounts(log[k], rows[k])
       /\ rows[k].prior # 0
       /\ rows[k].confirmedBy # locks[rows[k].prior].requestedBy
  BY <1>2, <1>4, <1>5, <1>7, <1>11 DEF Status
<1>18. rows[k].confirmedBy # Null
  BY <1>2, <1>5, <1>7, NullAssumption
<1> QED
  BY <1>1, <1>8, <1>9, <1>13, <1>14, <1>15, <1>16, <1>17, <1>18, InsertInv

\* confirm_lock's commit keeps the invariant, over whatever the row has become.
LEMMA ConfirmInv ==
  ASSUME IInv, NEW w \in Worker, CommitConfirm(w)
  PROVE  IInv'
<1> DEFINE t == txn[w]
           k == t.lock
           r == ConfirmedRow(locks[k], t.actor, t.loaded, t.data)
<1>1. /\ t.pc = "ready" /\ t.op = "confirm"
      /\ Commit(w, [locks EXCEPT ![k] = r], Logged(k, "confirmed"))
      /\ outbox' = [outbox EXCEPT ![k]["cm.lock.confirmed"] = @ + 1]
      /\ UNCHANGED <<nLocks, alerts>>
  BY DEF CommitConfirm, Ready
<1>2. /\ t.actor \in User /\ t.data \in LoanData
      /\ k \in 1 .. nLocks
      /\ locks[k].requestedBy # t.actor
  BY <1>1 DEF IInv, Bookkeeping, InForce
<1>3. /\ locks \in [LockId -> Row] /\ k \in LockId
      /\ outbox \in [LockId -> [DomainEvent -> Nat]]
      /\ alerts \in [LockId -> Nat]
      /\ t \in Txn
  BY <1>2, Bounds DEF IInv, TypeOK
<1>4. r \in Row
  BY <1>2, <1>3, RowTypes DEF Txn
<1>5. /\ r.status = "confirmed" /\ r.loan = locks[k].loan
      /\ r.requestedBy = locks[k].requestedBy /\ r.prior = locks[k].prior
      /\ r.confirmedBy = t.actor /\ r.flagged = locks[k].flagged
  BY <1>3 DEF ConfirmedRow, Row
<1>6. r.confirmedBy # Null /\ r.confirmedBy # r.requestedBy
  BY <1>2, <1>5, NullAssumption
<1>7. outbox' \in [LockId -> [DomainEvent -> Nat]]
  BY <1>1, <1>3, CountTypes DEF DomainEvent
<1>8. /\ "confirmed" \in LogEvent \ {"requested"}
      /\ StatusAfter["confirmed"] = "confirmed"
  BY DEF LogEvent, StatusAfter
<1>9. nLocks' = nLocks /\ alerts' \in [LockId -> Nat]
  BY <1>1, <1>3
<1>10. /\ Commit(w, [locks EXCEPT ![k] = r], Logged(k, "confirmed"))
       /\ r.status = StatusAfter["confirmed"]
  BY <1>1, <1>5, <1>8
<1>11. r.flagged = (locks[k].flagged \/ "confirmed" = "reprice_flagged")
  <2>1. locks[k].flagged \in BOOLEAN
    BY <1>3 DEF Row
  <2> QED
    BY <1>5, <2>1
<1> HIDE DEF r, k, t
<1> QED
  BY <1>2, <1>4, <1>5, <1>6, <1>7, <1>8, <1>9, <1>10, <1>11, UpdateInv

\* expire_lock's commit keeps the invariant.
LEMMA ExpireInv ==
  ASSUME IInv, NEW w \in Worker, CommitExpire(w)
  PROVE  IInv'
<1> DEFINE k == txn[w].lock
           r == ExpiredRow(locks[k])
<1>1. /\ txn[w].op = "expire"
      /\ Commit(w, [locks EXCEPT ![k] = r], Logged(k, "expired"))
      /\ outbox' = [outbox EXCEPT ![k]["cm.lock.expired"] = @ + 1]
      /\ UNCHANGED <<nLocks, alerts>>
  BY DEF CommitExpire, Ready
<1>2. k \in 1 .. nLocks /\ locks[k].confirmedBy # Null
  BY <1>1 DEF IInv, Bookkeeping, InForce
<1>3. /\ locks \in [LockId -> Row] /\ k \in LockId
      /\ outbox \in [LockId -> [DomainEvent -> Nat]]
      /\ alerts \in [LockId -> Nat]
  BY <1>2, Bounds DEF IInv, TypeOK
<1>4. r \in Row
  BY <1>3, RowTypes
<1>5. /\ r.status = "expired" /\ r.loan = locks[k].loan
      /\ r.requestedBy = locks[k].requestedBy /\ r.prior = locks[k].prior
      /\ r.confirmedBy = locks[k].confirmedBy /\ r.flagged = locks[k].flagged
  BY <1>3 DEF ExpiredRow, Row
<1>6. outbox' \in [LockId -> [DomainEvent -> Nat]]
  BY <1>1, <1>3, CountTypes DEF DomainEvent
<1>7. /\ "expired" \in LogEvent \ {"requested"}
      /\ StatusAfter["expired"] = "expired"
  BY DEF LogEvent, StatusAfter
<1>8. nLocks' = nLocks /\ alerts' \in [LockId -> Nat]
  BY <1>1, <1>3
<1>9. /\ Commit(w, [locks EXCEPT ![k] = r], Logged(k, "expired"))
      /\ r.status = StatusAfter["expired"]
  BY <1>1, <1>5, <1>7
<1>10. r.flagged = (locks[k].flagged \/ "expired" = "reprice_flagged")
  <2>1. locks[k].flagged \in BOOLEAN
    BY <1>3 DEF Row
  <2> QED
    BY <1>5, <2>1
<1> HIDE DEF r, k
<1> QED
  BY <1>2, <1>4, <1>5, <1>6, <1>7, <1>8, <1>9, <1>10, UpdateInv

\* flag_for_reprice's commit, with its alert, keeps the invariant.
LEMMA FlagInv ==
  ASSUME IInv, NEW w \in Worker, CommitFlag(w)
  PROVE  IInv'
<1> DEFINE k == txn[w].lock
           r == FlaggedRow(locks[k])
<1>1. /\ txn[w].op = "flag"
      /\ Commit(w, [locks EXCEPT ![k] = r], Logged(k, "reprice_flagged"))
      /\ outbox' = [outbox EXCEPT ![k]["cm.lock.reprice_flagged"] = @ + 1,
                                  ![k]["cm.material_change"] = @ + 1]
      /\ alerts' = [alerts EXCEPT ![k] = @ + 1]
      /\ UNCHANGED nLocks
  BY DEF CommitFlag, Ready
<1>2. k \in 1 .. nLocks /\ locks[k].confirmedBy # Null
  BY <1>1 DEF IInv, Bookkeeping, InForce
<1>3. /\ locks \in [LockId -> Row] /\ k \in LockId
      /\ outbox \in [LockId -> [DomainEvent -> Nat]]
      /\ alerts \in [LockId -> Nat]
  BY <1>2, Bounds DEF IInv, TypeOK
<1>4. r \in Row
  BY <1>3, RowTypes
<1>5. /\ r.status = "reprice_required" /\ r.loan = locks[k].loan
      /\ r.requestedBy = locks[k].requestedBy /\ r.prior = locks[k].prior
      /\ r.confirmedBy = locks[k].confirmedBy /\ r.flagged
  BY <1>3 DEF FlaggedRow, Row
<1>6. outbox' \in [LockId -> [DomainEvent -> Nat]]
  <2> DEFINE box == [outbox EXCEPT ![k]["cm.lock.reprice_flagged"] = @ + 1]
  <2>1. box \in [LockId -> [DomainEvent -> Nat]]
    BY <1>3, CountTypes DEF DomainEvent
  <2>2. outbox' = [box EXCEPT ![k]["cm.material_change"] = @ + 1]
    BY <1>1
  <2> HIDE DEF box
  <2> QED
    BY <2>1, <2>2, CountTypes DEF DomainEvent
<1>7. alerts' \in [LockId -> Nat]
  BY <1>1, <1>3
<1>8. /\ "reprice_flagged" \in LogEvent \ {"requested"}
      /\ StatusAfter["reprice_flagged"] = "reprice_required"
  BY DEF LogEvent, StatusAfter
<1> HIDE DEF r, k
<1> QED
  BY <1>1, <1>2, <1>3, <1>4, <1>5, <1>6, <1>7, <1>8, UpdateInv

\* The watcher's commit without a flag keeps the invariant.
LEMMA AnnounceInv ==
  ASSUME IInv, NEW w \in Worker, CommitAnnounce(w)
  PROVE  IInv'
<1>1. /\ Commit(w, locks, lockLog)
      /\ outbox' = [outbox EXCEPT ![txn[w].lock]["cm.material_change"] = @ + 1]
      /\ UNCHANGED <<nLocks, alerts>>
  BY DEF CommitAnnounce
<1>2. /\ locks' = locks /\ lockLog' = lockLog /\ nLocks' = nLocks
      /\ txn' = [txn EXCEPT ![w] = NoTxn]
  BY <1>1 DEF Commit
<1>3. TypeOK'
  <2>1. outbox' \in [LockId -> [DomainEvent -> Nat]]
    BY <1>1, CountTypes DEF IInv, TypeOK, DomainEvent
  <2>2. /\ locks \in [LockId -> Row] /\ lockLog \in [LockId -> [LogEvent -> Nat]]
        /\ nLocks' \in 0 .. MaxLocks /\ alerts' \in [LockId -> Nat]
    BY <1>1 DEF IInv, TypeOK
  <2> QED
    BY <1>1, <2>1, <2>2, CommitType DEF IInv
<1>4. Bookkeeping'
  <2>1. nLocks' \in Nat /\ nLocks' >= nLocks
    BY <1>2, Bounds
  <2>2. \A v \in Worker : InForce(txn[v])'
    BY <1>2, <2>1, StillInForce
  <2> QED
    BY <1>2, <2>2 DEF IInv, Bookkeeping, Inserted
<1>5. LogAccounts' /\ FourEyes' /\ UnconfirmedLocks'
  BY <1>2 DEF IInv, LogAccounts, FourEyes, UnconfirmedLocks
<1> QED
  BY <1>3, <1>4, <1>5 DEF IInv

-----------------------------------------------------------------------------
(* The invariants.                                                         *)

\* Every step of every handler, at whatever point of the others, keeps the
\* inductive invariant.
THEOREM NextInv == IInv /\ [Next]_vars => IInv'
<1> SUFFICES ASSUME IInv, [Next]_vars PROVE IInv'
  OBVIOUS
<1>1. CASE \E l \in Loan, d \in LoanData : EditLoan(l, d)
  BY <1>1, EditInv
<1>2. ASSUME NEW w \in Worker, CommitRequest(w) PROVE IInv'
  BY <1>2, RequestInv
<1>3. ASSUME NEW w \in Worker, CommitConfirm(w) PROVE IInv'
  BY <1>3, ConfirmInv
<1>4. ASSUME NEW w \in Worker, CommitExpire(w) PROVE IInv'
  BY <1>4, ExpireInv
<1>5. ASSUME NEW w \in Worker, CommitReprice(w) PROVE IInv'
  BY <1>5, RepriceInv
<1>6. ASSUME NEW w \in Worker, CommitFlag(w) PROVE IInv'
  BY <1>6, FlagInv
<1>7. ASSUME NEW w \in Worker, CommitAnnounce(w) PROVE IInv'
  BY <1>7, AnnounceInv
<1>8. ASSUME NEW w \in Worker,
             \/ \E u \in User, l \in Loan : BeginRequest(w, u, l)
             \/ \E u \in User, k \in LockId : BeginConfirm(w, u, k)
             \/ \E u \in User, l \in Loan, k \in LockId :
                  BeginReprice(w, u, l, k)
             \/ \E l \in Loan : BeginDetect(w, l)
             \/ \E k \in LockId : BeginExpire(w, k) \/ ReadLock(w, k)
             \/ ReadLoan(w)
             \/ Rollback(w)
      PROVE  IInv'
  BY <1>8, BeginInv
<1>9. CASE UNCHANGED vars
  BY <1>9, SameTables DEF vars, IInv, TypeOK, Bookkeeping, tables
<1> QED
  BY <1>1, <1>2, <1>3, <1>4, <1>5, <1>6, <1>7, <1>8, <1>9 DEF Next

\* The inductive invariant holds in every reachable state.
THEOREM SpecInv == Spec => []IInv
BY InitInv, NextInv, PTL DEF Spec

\* Rows, logs, outbox and transactions keep their shapes, and no status but
\* the four the handlers set is ever stored.
THEOREM TypeCorrect == Spec => []TypeOK
<1>1. IInv => TypeOK
  BY DEF IInv
<1> QED
  BY <1>1, SpecInv, PTL

\* The append-only log accounts for the row, whatever stale transactions write.
THEOREM LogCorrect == Spec => []LogAccounts
<1>1. IInv => LogAccounts
  BY DEF IInv
<1> QED
  BY <1>1, SpecInv, PTL

\* Nobody confirms a lock of their own, nor by a relock the one it supersedes.
THEOREM FourEyesHolds == Spec => []FourEyes
<1>1. IInv => FourEyes
  BY DEF IInv
<1> QED
  BY <1>1, SpecInv, PTL

\* A lock that nobody confirmed ends only by being superseded.
THEOREM UnconfirmedHolds == Spec => []UnconfirmedLocks
<1>1. IInv => UnconfirmedLocks
  BY DEF IInv
<1> QED
  BY <1>1, SpecInv, PTL

-----------------------------------------------------------------------------
(* The unique index, and the slot it gives each loan.                      *)

\* Every step that writes a row is the commit of a transaction.
LEMMA OnlyCommitsWrite ==
  ASSUME [Next]_vars
  PROVE  \/ UNCHANGED <<locks, nLocks, lockLog>>
         \/ \E w \in Worker :
              \/ CommitRequest(w) \/ CommitConfirm(w) \/ CommitExpire(w)
              \/ CommitReprice(w) \/ CommitFlag(w)
BY DEF Next, vars, tables, EditLoan, BeginRequest, BeginConfirm, BeginReprice,
       BeginDetect, BeginExpire, ReadLock, ReadLoan, Rollback, Start,
       CommitAnnounce, Commit

\* The rows as they are have one active lock per loan.
OneActiveLock == OneActivePerLoan(locks)

\* Every commit that writes rows leaves no loan with two active locks.
LEMMA CommitsAreIndexed ==
  ASSUME NEW w \in Worker,
         \/ CommitRequest(w) \/ CommitConfirm(w) \/ CommitExpire(w)
         \/ CommitReprice(w) \/ CommitFlag(w)
  PROVE  OneActiveLock'
<1> USE DEF Commit, UniqueIndex, OneActiveLock, OneActivePerLoan
<1>1. CASE CommitRequest(w)
  BY <1>1 DEF CommitRequest
<1>2. CASE CommitConfirm(w)
  BY <1>2 DEF CommitConfirm
<1>3. CASE CommitExpire(w)
  BY <1>3 DEF CommitExpire
<1>4. CASE CommitReprice(w)
  BY <1>4 DEF CommitReprice
<1>5. CASE CommitFlag(w)
  BY <1>5 DEF CommitFlag
<1> QED
  BY <1>1, <1>2, <1>3, <1>4, <1>5

\* No loan ever has two active locks.
LEMMA OneActiveLockHolds == Spec => []OneActiveLock
<1>1. Init => OneActiveLock
  BY DEF Init, OneActiveLock, OneActivePerLoan, NoRow, Active
<1>2. OneActiveLock /\ [Next]_vars => OneActiveLock'
  BY OnlyCommitsWrite, CommitsAreIndexed DEF OneActiveLock, OneActivePerLoan
<1> QED
  BY <1>1, <1>2, PTL DEF Spec

\* k holds the slot of loan l.
Holds(k, l) == k \in LockId /\ locks[k].loan = l /\ locks[k].status \in Active

\* The slot's holder, without the choice.
LEMMA HolderIs ==
  ASSUME OneActiveLock, NEW l \in Loan
  PROVE  /\ \A k \in LockId : Holds(k, l) => Holder[l] = k
         /\ (\A k \in LockId : ~ Holds(k, l)) => Holder[l] = 0
         /\ Holder[l] # 0 => \E k \in LockId : Holds(k, l) /\ Holder[l] = k
<1>1. CASE \E k \in LockId : Holds(k, l)
  <2>1. PICK k \in LockId : Holds(k, l)
    BY <1>1
  <2>2. \A j \in LockId : Holds(j, l) => j = k
    BY <2>1 DEF OneActiveLock, OneActivePerLoan, Holds
  <2>3. Holder[l] = CHOOSE j \in LockId :
                      locks[j].loan = l /\ locks[j].status \in Active
    BY <2>1 DEF Holder, Holds
  <2>4. Holder[l] = k
    BY <2>1, <2>2, <2>3 DEF Holds
  <2> QED
    BY <2>1, <2>2, <2>4
<1>2. CASE \A k \in LockId : ~ Holds(k, l)
  BY <1>2 DEF Holder, Holds
<1> QED
  BY <1>1, <1>2

\* The slot's holder after a step, without the choice.
LEMMA HolderIsNext ==
  ASSUME OneActiveLock', NEW l \in Loan
  PROVE  /\ \A k \in LockId : Holds(k, l)' => Holder'[l] = k
         /\ (\A k \in LockId : ~ Holds(k, l)') => Holder'[l] = 0
         /\ Holder'[l] # 0 =>
              \E k \in LockId : Holds(k, l)' /\ Holder'[l] = k
<1>1. CASE \E k \in LockId : Holds(k, l)'
  <2>1. PICK k \in LockId : Holds(k, l)'
    BY <1>1
  <2>2. \A j \in LockId : Holds(j, l)' => j = k
    BY <2>1 DEF OneActiveLock, OneActivePerLoan, Holds
  <2>3. Holder'[l] = CHOOSE j \in LockId :
                      locks'[j].loan = l /\ locks'[j].status \in Active
    BY <2>1 DEF Holder, Holds
  <2>4. Holder'[l] = k
    BY <2>1, <2>2, <2>3 DEF Holds
  <2> QED
    BY <2>1, <2>2, <2>4
<1>2. CASE \A k \in LockId : ~ Holds(k, l)'
  BY <1>2 DEF Holder, Holds
<1> QED
  BY <1>1, <1>2

\* The refinement's step, for the commit of an update.
LEMMA UpdateSlot ==
  ASSUME IInv, OneActiveLock, OneActiveLock', NEW k \in 1 .. nLocks,
         NEW r \in Row, locks' = [locks EXCEPT ![k] = r],
         r.loan = locks[k].loan, nLocks' = nLocks
  PROVE  [Slot!Next]_Slot!vars
<1>0. k \in LockId /\ locks \in [LockId -> Row] /\ locks[k].loan \in Loan
  BY Bounds DEF IInv, TypeOK, Bookkeeping, Inserted
<1> PICK l \in Loan : l = locks[k].loan
  BY <1>0
<1>1. k \in LockId /\ locks \in [LockId -> Row]
  BY <1>0
<1>2. \A i \in Loan \ {l} : Holder'[i] = Holder[i]
  <2> SUFFICES ASSUME NEW i \in Loan \ {l} PROVE Holder'[i] = Holder[i]
    OBVIOUS
  <2>1. \A j \in LockId : Holds(j, i)' <=> Holds(j, i)
    BY <1>1 DEF Holds
  <2> QED
    BY <2>1, HolderIs, HolderIsNext
<1>3. /\ Holder = [i \in Loan |-> Holder[i]]
      /\ Holder' = [i \in Loan |-> Holder'[i]]
  BY DEF Holder
<1>4. \A j \in LockId \ {k} : Holds(j, l)' <=> Holds(j, l)
  BY <1>1 DEF Holds
<1>5. CASE Holder'[l] = Holder[l]
  <2>1. Holder' = Holder
    BY <1>2, <1>3, <1>5
  <2> QED
    BY <2>1 DEF Slot!vars
<1>6. CASE Holder[l] = 0 /\ Holder'[l] # 0
  <2>1. Holder'[l] = k
    <3>1. PICK j \in LockId : Holds(j, l)' /\ Holder'[l] = j
      BY <1>1, <1>6, HolderIsNext
    <3>2. j # 0
      BY <1>6, <3>1
    <3>3. CASE j # k
      BY <1>1, <1>4, <1>6, <3>1, <3>2, <3>3, HolderIs
    <3> QED
      BY <3>1, <3>3
  <2>2. Holder' = [Holder EXCEPT ![l] = k]
    BY <1>1, <1>2, <1>3, <2>1
  <2>3. Slot!Take(l, k)
    BY <1>6, <2>2 DEF Slot!Take
  <2> QED
    BY <1>1, <2>3 DEF Slot!Next
<1>7. CASE Holder[l] # 0 /\ Holder'[l] = 0
  <2>1. Holder' = [Holder EXCEPT ![l] = 0]
    BY <1>1, <1>2, <1>3, <1>7
  <2>2. Slot!Release(l)
    BY <1>7, <2>1 DEF Slot!Release
  <2> QED
    BY <1>1, <2>2 DEF Slot!Next
<1>8. CASE Holder[l] # 0 /\ Holder'[l] # 0 /\ Holder'[l] # Holder[l]
  <2>1. PICK i \in LockId : Holds(i, l) /\ Holder[l] = i
    BY <1>1, <1>8, HolderIs
  <2>2. PICK j \in LockId : Holds(j, l)' /\ Holder'[l] = j
    BY <1>1, <1>8, HolderIsNext
  <2>3. CASE i # k
    BY <1>1, <1>4, <1>8, <2>1, <2>3, HolderIsNext
  <2>4. CASE j # k
    BY <1>1, <1>4, <1>8, <2>2, <2>4, HolderIs
  <2> QED
    BY <1>8, <2>1, <2>2, <2>3, <2>4
<1> QED
  BY <1>5, <1>6, <1>7, <1>8

\* The refinement's step, for the commit of an insertion.
LEMMA InsertSlot ==
  ASSUME IInv, OneActiveLock, OneActiveLock',
         NEW k \in LockId, k = nLocks + 1, nLocks' = k,
         NEW l \in Loan, Holds(k, l)',
         \A j \in LockId \ {k} :
           /\ locks'[j].loan = locks[j].loan
           /\ \/ locks'[j].status = locks[j].status
              \/ locks[j].loan = l
  PROVE  [Slot!Next]_Slot!vars
<1>1. nLocks \in Nat /\ locks[k] = NoRow
  BY Bounds DEF IInv, Bookkeeping
<1>2. \A i \in Loan : ~ Holds(k, i)
  BY <1>1 DEF Holds, NoRow, Active
<1>3. \A i \in Loan \ {l} : Holder'[i] = Holder[i]
  <2> SUFFICES ASSUME NEW i \in Loan \ {l} PROVE Holder'[i] = Holder[i]
    OBVIOUS
  <2>1. \A j \in LockId : Holds(j, i)' <=> Holds(j, i)
    BY <1>2 DEF Holds
  <2> QED
    BY <2>1, HolderIs, HolderIsNext
<1>4. Holder'[l] = k
  BY HolderIsNext
<1>5. /\ Holder = [i \in Loan |-> Holder[i]]
      /\ Holder' = [i \in Loan |-> Holder'[i]]
  BY DEF Holder
<1>6. Holder' = [Holder EXCEPT ![l] = k]
  BY <1>3, <1>4, <1>5
<1>7. k \notin 1 .. nLocks /\ 1 .. nLocks' = (1 .. nLocks) \cup {k}
  BY <1>1
<1>8. CASE Holder[l] = 0
  BY <1>6, <1>7, <1>8 DEF Slot!Next, Slot!Take
<1>9. CASE Holder[l] # 0
  BY <1>6, <1>7, <1>9 DEF Slot!Next, Slot!HandOver
<1> QED
  BY <1>8, <1>9

\* The lock desk implements the slot: whatever transactions overlap, a lock
\* gets the loan's slot when it is free, or by a relock into a fresh row.
THEOREM SlotImplemented == Spec => ImplementsSlot
<1>1. Init => Slot!Init
  <2> SUFFICES ASSUME Init PROVE Slot!Init
    OBVIOUS
  <2>1. Holder = [l \in Loan |-> 0]
    BY DEF Init, Holder, NoRow, Active
  <2>2. 1 .. nLocks = {}
    BY DEF Init
  <2> QED
    BY <2>1, <2>2 DEF Slot!Init
<1>2. IInv /\ OneActiveLock /\ OneActiveLock' /\ [Next]_vars
        => [Slot!Next]_Slot!vars
  <2> SUFFICES ASSUME IInv, OneActiveLock, OneActiveLock', [Next]_vars
               PROVE  [Slot!Next]_Slot!vars
    OBVIOUS
  <2>1. /\ locks \in [LockId -> Row]
        /\ \A w \in Worker : txn[w] \in Txn /\ InForce(txn[w])
    BY DEF IInv, TypeOK, Bookkeeping
  <2>2. CASE UNCHANGED <<locks, nLocks, lockLog>>
    BY <2>2 DEF Holder, Slot!vars
  <2>3. ASSUME NEW w \in Worker, CommitConfirm(w)
        PROVE  [Slot!Next]_Slot!vars
    <3> DEFINE t == txn[w]
               k == t.lock
               r == ConfirmedRow(locks[k], t.actor, t.loaded, t.data)
    <3>1. /\ locks' = [locks EXCEPT ![k] = r]
          /\ nLocks' = nLocks
          /\ k \in 1 .. nLocks
      BY <2>1, <2>3 DEF CommitConfirm, Commit, Ready, InForce
    <3>2. locks[k] \in Row
      BY <2>1, <3>1, Bounds
    <3>3. r \in Row
      BY <2>1, <3>2, RowTypes DEF Txn
    <3>4. r.loan = locks[k].loan
      BY <3>2 DEF ConfirmedRow, Row
    <3> QED
      BY <3>1, <3>3, <3>4, UpdateSlot
  <2>4. ASSUME NEW w \in Worker, CommitExpire(w)
        PROVE  [Slot!Next]_Slot!vars
    <3> DEFINE k == txn[w].lock
               r == ExpiredRow(locks[k])
    <3>1. /\ locks' = [locks EXCEPT ![k] = r]
          /\ nLocks' = nLocks
          /\ k \in 1 .. nLocks
      BY <2>1, <2>4 DEF CommitExpire, Commit, Ready, InForce
    <3>2. locks[k] \in Row
      BY <2>1, <3>1, Bounds
    <3>3. r \in Row /\ r.loan = locks[k].loan
      BY <3>2, RowTypes DEF ExpiredRow, Row
    <3> QED
      BY <3>1, <3>3, UpdateSlot
  <2>5. ASSUME NEW w \in Worker, CommitFlag(w)
        PROVE  [Slot!Next]_Slot!vars
    <3> DEFINE k == txn[w].lock
               r == FlaggedRow(locks[k])
    <3>1. /\ locks' = [locks EXCEPT ![k] = r]
          /\ nLocks' = nLocks
          /\ k \in 1 .. nLocks
      BY <2>1, <2>5 DEF CommitFlag, Commit, Ready, InForce
    <3>2. locks[k] \in Row
      BY <2>1, <3>1, Bounds
    <3>3. r \in Row /\ r.loan = locks[k].loan
      BY <3>2, RowTypes DEF FlaggedRow, Row
    <3> QED
      BY <3>1, <3>3, UpdateSlot
  <2>6. ASSUME NEW w \in Worker, CommitRequest(w)
        PROVE  [Slot!Next]_Slot!vars
    <3> DEFINE t == txn[w]
               r == RequestedRow(t.loan, t.actor, t.data)
    <3>1. /\ locks' = [locks EXCEPT ![nLocks + 1] = r]
          /\ nLocks' = nLocks + 1
          /\ nLocks + 1 \in LockId
          /\ t.loan \in Loan
      BY <2>1, <2>6 DEF CommitRequest, Commit, Ready, InForce
    <3>2. PICK l \in Loan, k \in LockId : l = t.loan /\ k = nLocks + 1
      BY <3>1
    <3>3. r.loan = l /\ r.status \in Active
      BY <3>2 DEF RequestedRow, NoRow, Active
    <3>4. locks'[k] = r /\ \A j \in LockId \ {k} : locks'[j] = locks[j]
      BY <2>1, <3>1, <3>2
    <3>5. Holds(k, l)'
      BY <3>3, <3>4 DEF Holds
    <3> QED
      BY <3>1, <3>2, <3>4, <3>5, InsertSlot
  <2>7. ASSUME NEW w \in Worker, CommitReprice(w)
        PROVE  [Slot!Next]_Slot!vars
    <3> DEFINE t == txn[w]
               r == RelockRow(t.loan, t.actor, t.data, t.lock)
    <3>1. /\ locks' = [locks EXCEPT ![t.lock] = ExpiredRow(@),
                                    ![nLocks + 1] = r]
          /\ nLocks' = nLocks + 1
          /\ nLocks + 1 \in LockId
          /\ t.loan \in Loan
          /\ t.lock \in 1 .. nLocks
          /\ locks[t.lock].loan = t.loan
      BY <2>1, <2>7 DEF CommitReprice, Commit, Ready, InForce
    <3>2. PICK l \in Loan, k \in LockId, p \in LockId :
            l = t.loan /\ k = nLocks + 1 /\ p = t.lock
      BY <3>1, Bounds
    <3>3. p # k
      BY <3>1, <3>2, Bounds
    <3>4. r.loan = l /\ r.status \in Active
      <4>1. RequestedRow(t.loan, t.actor, t.data).loan = l
        BY <3>2 DEF RequestedRow, NoRow
      <4>2. r.loan = RequestedRow(t.loan, t.actor, t.data).loan
        BY DEF RelockRow
      <4>3. r.status = "confirmed"
        BY DEF RelockRow, RequestedRow, NoRow
      <4> QED
        BY <4>1, <4>2, <4>3 DEF Active
    <3>5. /\ locks'[k] = r
          /\ locks'[p] = ExpiredRow(locks[p])
          /\ \A j \in LockId \ {k, p} : locks'[j] = locks[j]
      BY <2>1, <3>1, <3>2, <3>3
    <3>6. locks'[p].loan = locks[p].loan
      BY <2>1, <3>5 DEF ExpiredRow, Row
    <3>7. Holds(k, l)'
      BY <3>4, <3>5 DEF Holds
    <3> QED
      BY <3>1, <3>2, <3>5, <3>6, <3>7, InsertSlot
  <2> QED
    BY <2>2, <2>3, <2>4, <2>5, <2>6, <2>7, OnlyCommitsWrite
<1> QED
  BY <1>1, <1>2, SpecInv, OneActiveLockHolds, PTL DEF Spec, ImplementsSlot, Slot!Spec

-----------------------------------------------------------------------------
(* What no step changes.                                                   *)

\* An update that leaves terms, loan, requester and chain alone keeps the row.
LEMMA UpdateKeeps ==
  ASSUME IInv, NEW k \in LockId, NEW r \in Row, NEW e \in LogEvent,
         r.status \in Status,
         r.terms = locks[k].terms,
         r.loan = locks[k].loan,
         r.requestedBy = locks[k].requestedBy,
         r.prior = locks[k].prior,
         locks' = [locks EXCEPT ![k] = r],
         lockLog' = Logged(k, e),
         NEW j \in LockId, locks[j].status # "none"
  PROVE  Kept(j)
<1>1. locks \in [LockId -> Row] /\ lockLog \in [LockId -> [LogEvent -> Nat]]
  BY DEF IInv, TypeOK
<1>2. \A ev \in LogEvent :
        lockLog[j][ev] \in Nat /\ lockLog[j][ev] <= lockLog'[j][ev]
  <2>1. CASE j = k
    <3>1. \A ev \in LogEvent :
            lockLog'[j][ev] = lockLog[j][ev] + IF ev = e THEN 1 ELSE 0
      BY <1>1, <2>1, LoggedIs
    <3> QED
      BY <1>1, <3>1
  <2>2. CASE j # k
    BY <1>1, <2>2, LoggedIs
  <2> QED
    BY <2>1, <2>2
<1>3. /\ locks'[j].terms = locks[j].terms
      /\ locks'[j].loan = locks[j].loan
      /\ locks'[j].requestedBy = locks[j].requestedBy
      /\ locks'[j].prior = locks[j].prior
      /\ locks'[j].status # "none"
  BY <1>1 DEF Status
<1> QED
  BY <1>2, <1>3 DEF Kept

\* Confirmations, expiries, flags and relocks leave the priced terms, the
\* loan, the requester and the chain of every row alone, and no log entry is
\* taken back.
THEOREM TermsStay == Spec => TermsImmutable
<1> DEFINE A == \A k \in LockId : locks[k].status # "none" => Kept(k)
<1>1. IInv /\ [Next]_vars => [A]_vars
  <2> SUFFICES ASSUME IInv, [Next]_vars, NEW j \in LockId,
                      locks[j].status # "none"
               PROVE  Kept(j)
    OBVIOUS
  <2>1. /\ locks \in [LockId -> Row]
        /\ lockLog \in [LockId -> [LogEvent -> Nat]]
        /\ \A w \in Worker : txn[w] \in Txn /\ InForce(txn[w])
        /\ j # nLocks + 1
    <3>1. j # nLocks + 1
      <4>1. nLocks \in Nat /\ locks[j] # NoRow
        BY Bounds DEF NoRow
      <4>2. j <= nLocks
        BY <4>1 DEF IInv, Bookkeeping
      <4> QED
        BY <4>1, <4>2
    <3> QED
      BY <3>1 DEF IInv, TypeOK, Bookkeeping
  <2>8. \A ev \in LogEvent : lockLog[j][ev] \in Nat
    BY <2>1
  <2>2. CASE UNCHANGED <<locks, nLocks, lockLog>>
    BY <2>2, <2>8 DEF Kept
  <2>3. ASSUME NEW w \in Worker, CommitRequest(w)
        PROVE  Kept(j)
    <3>1. locks'[j] = locks[j] /\ lockLog'[j] = lockLog[j]
      BY <2>1, <2>3, LoggedIs DEF CommitRequest, Commit, LogEvent
    <3> QED
      BY <2>8, <3>1 DEF Kept
  <2>4. ASSUME NEW w \in Worker, CommitConfirm(w)
        PROVE  Kept(j)
    <3> DEFINE t == txn[w]
               k == t.lock
               r == ConfirmedRow(locks[k], t.actor, t.loaded, t.data)
    <3>1. /\ locks' = [locks EXCEPT ![k] = r]
          /\ lockLog' = Logged(k, "confirmed")
          /\ k \in 1 .. nLocks
      BY <2>1, <2>4 DEF CommitConfirm, Commit, Ready, InForce
    <3>2. k \in LockId /\ locks[k] \in Row
      BY <2>1, <3>1, Bounds
    <3>3. r \in Row
      BY <2>1, <3>2, RowTypes DEF Txn
    <3>4. /\ r.terms = locks[k].terms /\ r.loan = locks[k].loan
          /\ r.requestedBy = locks[k].requestedBy
          /\ r.prior = locks[k].prior
          /\ r.status = "confirmed"
      BY <3>2 DEF ConfirmedRow, Row
    <3> QED
      BY <3>1, <3>2, <3>3, <3>4, UpdateKeeps DEF LogEvent, Status
  <2>5. ASSUME NEW w \in Worker, CommitExpire(w)
        PROVE  Kept(j)
    <3> DEFINE k == txn[w].lock
               r == ExpiredRow(locks[k])
    <3>1. /\ locks' = [locks EXCEPT ![k] = r]
          /\ lockLog' = Logged(k, "expired")
          /\ k \in 1 .. nLocks
      BY <2>1, <2>5 DEF CommitExpire, Commit, Ready, InForce
    <3>2. k \in LockId /\ locks[k] \in Row
      BY <2>1, <3>1, Bounds
    <3>3. /\ r \in Row
          /\ r.terms = locks[k].terms /\ r.loan = locks[k].loan
          /\ r.requestedBy = locks[k].requestedBy
          /\ r.prior = locks[k].prior
          /\ r.status = "expired"
      BY <3>2, RowTypes DEF ExpiredRow, Row
    <3> QED
      BY <3>1, <3>2, <3>3, UpdateKeeps DEF LogEvent, Status
  <2>6. ASSUME NEW w \in Worker, CommitFlag(w)
        PROVE  Kept(j)
    <3> DEFINE k == txn[w].lock
               r == FlaggedRow(locks[k])
    <3>1. /\ locks' = [locks EXCEPT ![k] = r]
          /\ lockLog' = Logged(k, "reprice_flagged")
          /\ k \in 1 .. nLocks
      BY <2>1, <2>6 DEF CommitFlag, Commit, Ready, InForce
    <3>2. k \in LockId /\ locks[k] \in Row
      BY <2>1, <3>1, Bounds
    <3>3. /\ r \in Row
          /\ r.terms = locks[k].terms /\ r.loan = locks[k].loan
          /\ r.requestedBy = locks[k].requestedBy
          /\ r.prior = locks[k].prior
          /\ r.status = "reprice_required"
      BY <3>2, RowTypes DEF FlaggedRow, Row
    <3> QED
      BY <3>1, <3>2, <3>3, UpdateKeeps DEF LogEvent, Status
  <2>7. ASSUME NEW w \in Worker, CommitReprice(w)
        PROVE  Kept(j)
    <3> DEFINE p == txn[w].lock
    <3>1. /\ j = p => locks'[j] = ExpiredRow(locks[j])
          /\ j # p => locks'[j] = locks[j]
      BY <2>1, <2>7 DEF CommitReprice, Commit
    <3>2. p \in LockId /\ nLocks + 1 \in LockId /\ p # nLocks + 1
      BY <2>1, <2>7, Bounds DEF CommitReprice, Ready, InForce
    <3>5. lockLog' = RelockLog(p, nLocks + 1)
      BY <2>7 DEF CommitReprice, Commit
    <3>3. \A ev \in LogEvent : lockLog[j][ev] <= lockLog'[j][ev]
      <4>1. /\ j # p => lockLog'[j] = lockLog[j]
            /\ j = p => \A x \in LogEvent :
                 lockLog'[j][x] =
                   lockLog[j][x] + IF x \in {"expired", "repriced"} THEN 1 ELSE 0
        BY <2>1, <3>2, <3>5, RelockLogIs
      <4> QED
        BY <2>8, <4>1
    <3>4. /\ locks'[j].terms = locks[j].terms
          /\ locks'[j].loan = locks[j].loan
          /\ locks'[j].requestedBy = locks[j].requestedBy
          /\ locks'[j].prior = locks[j].prior
          /\ locks'[j].status # "none"
      BY <2>1, <3>1 DEF ExpiredRow, Row
    <3> QED
      BY <3>3, <3>4 DEF Kept
  <2> QED
    BY <2>2, <2>3, <2>4, <2>5, <2>6, <2>7, OnlyCommitsWrite
<1> QED
  BY <1>1, SpecInv, PTL DEF Spec, TermsImmutable

-----------------------------------------------------------------------------
(* The ledger is kept by each commit.                                      *)

Ledger == RelockChain /\ Announced

\* The locks that supersede lock p.
Relocks(p) == {k \in LockId : locks[k].prior = p}

\* There are finitely many relocks of a lock.
LEMMA RelocksFinite ==
  ASSUME NEW p
  PROVE  IsFiniteSet(Relocks(p)) /\ Cardinality(Relocks(p)) \in Nat
<1>1. IsFiniteSet(LockId)
  BY BoundAssumption, FS_Interval DEF LockId
<1>2. Relocks(p) \in SUBSET LockId
  BY DEF Relocks
<1> QED
  BY <1>1, <1>2, FS_Subset, FS_CardinalityType

\* An update of one row that is no relock.
LEMMA UpdateChain ==
  ASSUME IInv, RelockChain, NEW k \in LockId, NEW r \in Row,
         NEW e \in LogEvent \ {"repriced"},
         locks' = [locks EXCEPT ![k] = r],
         lockLog' = Logged(k, e),
         r.prior = locks[k].prior, r.loan = locks[k].loan
  PROVE  RelockChain'
<1>1. /\ locks \in [LockId -> Row] /\ lockLog \in [LockId -> [LogEvent -> Nat]]
  BY DEF IInv, TypeOK
<1>2. \A j \in LockId :
        locks'[j].prior = locks[j].prior /\ locks'[j].loan = locks[j].loan
  BY <1>1
<1> SUFFICES ASSUME NEW p \in LockId
             PROVE  /\ \A j \in Relocks(p)' : p < j /\ locks'[j].loan = locks'[p].loan
                    /\ lockLog'[p]["repriced"] = Cardinality(Relocks(p)')
  BY DEF RelockChain, Relocks
<1>3. Relocks(p)' = Relocks(p)
  BY <1>2 DEF Relocks
<1>4. \A j \in Relocks(p) : j \in LockId /\ p < j /\ locks[j].loan = locks[p].loan
  BY DEF RelockChain, Relocks
<1>5. lockLog[p]["repriced"] = Cardinality(Relocks(p))
  BY DEF RelockChain, Relocks
<1>6. lockLog'[p]["repriced"] = lockLog[p]["repriced"]
  <2>1. "repriced" \in LogEvent /\ lockLog[p]["repriced"] \in Nat
    BY <1>1 DEF LogEvent
  <2>2. CASE p = k
    <3>1. lockLog'[p]["repriced"] =
            lockLog[p]["repriced"] + IF "repriced" = e THEN 1 ELSE 0
      BY <1>1, <2>1, <2>2, LoggedIs
    <3> QED
      BY <2>1, <3>1
  <2>3. CASE p # k
    BY <1>1, <2>3, LoggedIs
  <2> QED
    BY <2>2, <2>3
<1> QED
  BY <1>2, <1>3, <1>4, <1>5, <1>6

\* Its events, of which there is one for its entry.
LEMMA UpdateAnnounced ==
  ASSUME IInv, Announced, NEW k \in LockId, NEW e \in LogEvent \ {"repriced"},
         lockLog' = Logged(k, e),
         \A j \in LockId \ {k} : outbox'[j] = outbox[j] /\ alerts'[j] = alerts[j],
         outbox'[k]["cm.lock.confirmed"] =
           outbox[k]["cm.lock.confirmed"] + IF e = "confirmed" THEN 1 ELSE 0,
         outbox'[k]["cm.lock.repriced"] = outbox[k]["cm.lock.repriced"],
         outbox'[k]["cm.lock.expired"] =
           outbox[k]["cm.lock.expired"] + IF e = "expired" THEN 1 ELSE 0,
         outbox'[k]["cm.lock.reprice_flagged"] =
           outbox[k]["cm.lock.reprice_flagged"]
             + IF e = "reprice_flagged" THEN 1 ELSE 0,
         alerts'[k] = alerts[k] + IF e = "reprice_flagged" THEN 1 ELSE 0
  PROVE  Announced'
<1>1. /\ lockLog \in [LockId -> [LogEvent -> Nat]]
      /\ outbox \in [LockId -> [DomainEvent -> Nat]] /\ alerts \in [LockId -> Nat]
  BY DEF IInv, TypeOK
<1>2. /\ \A j \in LockId \ {k} : lockLog'[j] = lockLog[j]
      /\ \A x \in LogEvent :
           lockLog'[k][x] = lockLog[k][x] + IF x = e THEN 1 ELSE 0
  BY <1>1, LoggedIs
<1>3. \A x \in DomainEvent : outbox[k][x] \in Nat
  BY <1>1
<1>4. ASSUME NEW x \in LogEvent
      PROVE  /\ lockLog'[k][x] = lockLog[k][x] + IF e = x THEN 1 ELSE 0
             /\ lockLog[k][x] \in Nat
  BY <1>1, <1>2
<1>5. ASSUME NEW j \in LockId
      PROVE  /\ lockLog[j]["confirmed"] =
                  outbox[j]["cm.lock.confirmed"] + outbox[j]["cm.lock.repriced"]
             /\ lockLog[j]["expired"] =
                  outbox[j]["cm.lock.expired"] + lockLog[j]["repriced"]
             /\ lockLog[j]["reprice_flagged"] =
                  outbox[j]["cm.lock.reprice_flagged"]
             /\ alerts[j] = lockLog[j]["reprice_flagged"]
  BY DEF Announced
<1>6. {"confirmed", "expired", "repriced", "reprice_flagged"} \subseteq LogEvent
  BY DEF LogEvent
<1>7. {"cm.lock.confirmed", "cm.lock.repriced", "cm.lock.expired",
       "cm.lock.reprice_flagged"} \subseteq DomainEvent
  BY DEF DomainEvent
<1> SUFFICES ASSUME NEW j \in LockId
             PROVE  /\ lockLog'[j]["confirmed"] =
                         outbox'[j]["cm.lock.confirmed"]
                           + outbox'[j]["cm.lock.repriced"]
                    /\ lockLog'[j]["expired"] =
                         outbox'[j]["cm.lock.expired"]
                           + lockLog'[j]["repriced"]
                    /\ lockLog'[j]["reprice_flagged"] =
                         outbox'[j]["cm.lock.reprice_flagged"]
                    /\ alerts'[j] = lockLog'[j]["reprice_flagged"]
  BY DEF Announced
<1>8. CASE j = k
  <2>1. /\ lockLog'[k]["confirmed"] =
             lockLog[k]["confirmed"] + IF e = "confirmed" THEN 1 ELSE 0
        /\ lockLog'[k]["expired"] =
             lockLog[k]["expired"] + IF e = "expired" THEN 1 ELSE 0
        /\ lockLog'[k]["repriced"] = lockLog[k]["repriced"]
        /\ lockLog'[k]["reprice_flagged"] =
             lockLog[k]["reprice_flagged"]
               + IF e = "reprice_flagged" THEN 1 ELSE 0
    BY <1>4, <1>6
  <2>2. lockLog[k]["repriced"] \in Nat
    BY <1>4, <1>6
  <2>3. /\ outbox[k]["cm.lock.confirmed"] \in Nat
        /\ outbox[k]["cm.lock.repriced"] \in Nat
        /\ outbox[k]["cm.lock.expired"] \in Nat
        /\ outbox[k]["cm.lock.reprice_flagged"] \in Nat
    BY <1>3, <1>7
  <2>4. /\ lockLog[k]["confirmed"] =
             outbox[k]["cm.lock.confirmed"] + outbox[k]["cm.lock.repriced"]
        /\ lockLog[k]["expired"] =
             outbox[k]["cm.lock.expired"] + lockLog[k]["repriced"]
        /\ lockLog[k]["reprice_flagged"] =
             outbox[k]["cm.lock.reprice_flagged"]
        /\ alerts[k] = lockLog[k]["reprice_flagged"]
    BY <1>5
  <2>5. lockLog'[k]["confirmed"] =
          outbox'[k]["cm.lock.confirmed"] + outbox'[k]["cm.lock.repriced"]
    BY <2>1, <2>3, <2>4
  <2>6. lockLog'[k]["expired"] =
          outbox'[k]["cm.lock.expired"] + lockLog'[k]["repriced"]
    BY <2>1, <2>2, <2>3, <2>4
  <2>7. /\ lockLog'[k]["reprice_flagged"] =
             outbox'[k]["cm.lock.reprice_flagged"]
        /\ alerts'[k] = lockLog'[k]["reprice_flagged"]
    BY <2>1, <2>3, <2>4
  <2> QED
    BY <1>8, <2>5, <2>6, <2>7
<1>9. CASE j # k
  BY <1>2, <1>5, <1>9
<1> QED
  BY <1>8, <1>9

-----------------------------------------------------------------------------
(* The handlers.                                                           *)

\* A lock id that is not in use has no row, no log and no relocks.
LEMMA UnusedId ==
  ASSUME IInv, Ledger, NEW k \in LockId, k = nLocks + 1
  PROVE  /\ locks[k] = NoRow /\ Relocks(k) = {}
         /\ \A x \in LogEvent : lockLog[k][x] = 0
         /\ outbox[k]["cm.lock.confirmed"] = 0
         /\ outbox[k]["cm.lock.repriced"] = 0
         /\ outbox[k]["cm.lock.expired"] = 0
         /\ outbox[k]["cm.lock.reprice_flagged"] = 0
         /\ alerts[k] = 0
<1>1. nLocks \in Nat
  BY Bounds
<1>2. locks[k] = NoRow
  BY FreshLog
<1>3. \A x \in LogEvent : lockLog[k][x] = 0
  BY FreshLog
<1>4. /\ lockLog[k]["confirmed"] = 0
      /\ lockLog[k]["expired"] = 0
      /\ lockLog[k]["repriced"] = 0
      /\ lockLog[k]["reprice_flagged"] = 0
  BY <1>3 DEF LogEvent
<1>5. Relocks(k) = {}
  <2>1. IsFiniteSet(Relocks(k)) /\ Cardinality(Relocks(k)) = 0
    BY <1>4, RelocksFinite DEF Ledger, RelockChain, Relocks
  <2> QED
    BY <2>1, FS_EmptySet
<1>6. /\ outbox[k]["cm.lock.confirmed"] \in Nat
      /\ outbox[k]["cm.lock.repriced"] \in Nat
      /\ outbox[k]["cm.lock.expired"] \in Nat
      /\ outbox[k]["cm.lock.reprice_flagged"] \in Nat
  BY DEF IInv, TypeOK, DomainEvent
<1>7. /\ lockLog[k]["confirmed"] =
           outbox[k]["cm.lock.confirmed"] + outbox[k]["cm.lock.repriced"]
      /\ lockLog[k]["expired"] =
           outbox[k]["cm.lock.expired"] + lockLog[k]["repriced"]
      /\ lockLog[k]["reprice_flagged"] =
           outbox[k]["cm.lock.reprice_flagged"]
      /\ alerts[k] = lockLog[k]["reprice_flagged"]
  BY DEF Ledger, Announced
<1>8. /\ outbox[k]["cm.lock.confirmed"] = 0
      /\ outbox[k]["cm.lock.repriced"] = 0
  BY <1>4, <1>6, <1>7
<1>9. /\ outbox[k]["cm.lock.expired"] = 0
      /\ outbox[k]["cm.lock.reprice_flagged"] = 0
      /\ alerts[k] = 0
  BY <1>4, <1>6, <1>7
<1> QED
  BY <1>2, <1>3, <1>5, <1>8, <1>9

\* The commit of confirm_lock.
LEMMA ConfirmLedger ==
  ASSUME IInv, Ledger, NEW w \in Worker, CommitConfirm(w)
  PROVE  Ledger'
<1> DEFINE t == txn[w]
           k == t.lock
           r == ConfirmedRow(locks[k], t.actor, t.loaded, t.data)
<1>1. /\ t.pc = "ready" /\ t.op = "confirm"
      /\ locks' = [locks EXCEPT ![k] = r]
      /\ lockLog' = Logged(k, "confirmed")
      /\ outbox' = [outbox EXCEPT ![k]["cm.lock.confirmed"] = @ + 1]
      /\ alerts' = alerts
  BY DEF CommitConfirm, Ready, Commit
<1>2. t.actor \in User /\ t.data \in LoanData /\ k \in 1 .. nLocks
  BY <1>1 DEF IInv, Bookkeeping, InForce
<1>3. /\ locks \in [LockId -> Row] /\ k \in LockId /\ t \in Txn
      /\ outbox \in [LockId -> [DomainEvent -> Nat]]
      /\ alerts \in [LockId -> Nat]
  BY <1>2, Bounds DEF IInv, TypeOK
<1>4. r \in Row
  BY <1>2, <1>3, RowTypes DEF Txn
<1>10. r.prior = locks[k].prior /\ r.loan = locks[k].loan
  BY <1>3 DEF ConfirmedRow, Row
<1>5. PICK e \in LogEvent \ {"repriced"} : e = "confirmed"
  BY DEF LogEvent
<1> HIDE DEF r, k, t
<1>6. RelockChain'
  BY <1>1, <1>3, <1>4, <1>5, <1>10, UpdateChain DEF Ledger
<1>7. /\ \A j \in LockId \ {k} : outbox'[j] = outbox[j] /\ alerts'[j] = alerts[j]
      /\ outbox'[k]["cm.lock.confirmed"] = outbox[k]["cm.lock.confirmed"] + 1
      /\ outbox'[k]["cm.lock.repriced"] = outbox[k]["cm.lock.repriced"]
      /\ outbox'[k]["cm.lock.expired"] = outbox[k]["cm.lock.expired"]
      /\ outbox'[k]["cm.lock.reprice_flagged"] = outbox[k]["cm.lock.reprice_flagged"]
      /\ alerts'[k] = alerts[k]
  BY <1>1, <1>3 DEF DomainEvent
<1>8. /\ \A x \in DomainEvent : outbox[k][x] \in Nat
      /\ alerts[k] \in Nat
  BY <1>3
<1>9. /\ outbox'[k]["cm.lock.confirmed"] =
           outbox[k]["cm.lock.confirmed"] + IF e = "confirmed" THEN 1 ELSE 0
      /\ outbox'[k]["cm.lock.expired"] =
           outbox[k]["cm.lock.expired"] + IF e = "expired" THEN 1 ELSE 0
      /\ outbox'[k]["cm.lock.reprice_flagged"] =
           outbox[k]["cm.lock.reprice_flagged"]
             + IF e = "reprice_flagged" THEN 1 ELSE 0
      /\ alerts'[k] = alerts[k] + IF e = "reprice_flagged" THEN 1 ELSE 0
  BY <1>5, <1>7, <1>8 DEF DomainEvent
<1>11. lockLog' = Logged(k, e)
  BY <1>1, <1>5
<1>12. Announced'
  BY <1>3, <1>7, <1>9, <1>11, UpdateAnnounced DEF Ledger
<1> QED
  BY <1>6, <1>12 DEF Ledger

\* The commit of expire_lock.
LEMMA ExpireLedger ==
  ASSUME IInv, Ledger, NEW w \in Worker, CommitExpire(w)
  PROVE  Ledger'
<1> DEFINE k == txn[w].lock
           r == ExpiredRow(locks[k])
<1>1. /\ txn[w].op = "expire"
      /\ locks' = [locks EXCEPT ![k] = r]
      /\ lockLog' = Logged(k, "expired")
      /\ outbox' = [outbox EXCEPT ![k]["cm.lock.expired"] = @ + 1]
      /\ alerts' = alerts
  BY DEF CommitExpire, Ready, Commit
<1>2. k \in 1 .. nLocks
  BY <1>1 DEF IInv, Bookkeeping, InForce
<1>3. /\ locks \in [LockId -> Row] /\ k \in LockId
      /\ outbox \in [LockId -> [DomainEvent -> Nat]]
      /\ alerts \in [LockId -> Nat]
  BY <1>2, Bounds DEF IInv, TypeOK
<1>4. r \in Row
  BY <1>3, RowTypes
<1>10. r.prior = locks[k].prior /\ r.loan = locks[k].loan
  BY <1>3 DEF ExpiredRow, Row
<1>5. PICK e \in LogEvent \ {"repriced"} : e = "expired"
  BY DEF LogEvent
<1> HIDE DEF r, k
<1>6. RelockChain'
  BY <1>1, <1>3, <1>4, <1>5, <1>10, UpdateChain DEF Ledger
<1>7. /\ \A j \in LockId \ {k} : outbox'[j] = outbox[j] /\ alerts'[j] = alerts[j]
      /\ outbox'[k]["cm.lock.confirmed"] = outbox[k]["cm.lock.confirmed"]
      /\ outbox'[k]["cm.lock.repriced"] = outbox[k]["cm.lock.repriced"]
      /\ outbox'[k]["cm.lock.expired"] = outbox[k]["cm.lock.expired"] + 1
      /\ outbox'[k]["cm.lock.reprice_flagged"] = outbox[k]["cm.lock.reprice_flagged"]
      /\ alerts'[k] = alerts[k]
  BY <1>1, <1>3 DEF DomainEvent
<1>8. /\ \A x \in DomainEvent : outbox[k][x] \in Nat
      /\ alerts[k] \in Nat
  BY <1>3
<1>9. /\ outbox'[k]["cm.lock.confirmed"] =
           outbox[k]["cm.lock.confirmed"] + IF e = "confirmed" THEN 1 ELSE 0
      /\ outbox'[k]["cm.lock.expired"] =
           outbox[k]["cm.lock.expired"] + IF e = "expired" THEN 1 ELSE 0
      /\ outbox'[k]["cm.lock.reprice_flagged"] =
           outbox[k]["cm.lock.reprice_flagged"]
             + IF e = "reprice_flagged" THEN 1 ELSE 0
      /\ alerts'[k] = alerts[k] + IF e = "reprice_flagged" THEN 1 ELSE 0
  BY <1>5, <1>7, <1>8 DEF DomainEvent
<1>11. lockLog' = Logged(k, e)
  BY <1>1, <1>5
<1>12. Announced'
  BY <1>3, <1>7, <1>9, <1>11, UpdateAnnounced DEF Ledger
<1> QED
  BY <1>6, <1>12 DEF Ledger

\* The commit of flag_lock.
LEMMA FlagLedger ==
  ASSUME IInv, Ledger, NEW w \in Worker, CommitFlag(w)
  PROVE  Ledger'
<1> DEFINE k == txn[w].lock
           r == FlaggedRow(locks[k])
<1>1. /\ txn[w].op = "flag"
      /\ locks' = [locks EXCEPT ![k] = r]
      /\ lockLog' = Logged(k, "reprice_flagged")
      /\ outbox' = [outbox EXCEPT ![k]["cm.lock.reprice_flagged"] = @ + 1,
                                  ![k]["cm.material_change"] = @ + 1]
      /\ alerts' = [alerts EXCEPT ![k] = @ + 1]
  BY DEF CommitFlag, Ready, Commit
<1>2. k \in 1 .. nLocks
  BY <1>1 DEF IInv, Bookkeeping, InForce
<1>3. /\ locks \in [LockId -> Row] /\ k \in LockId
      /\ outbox \in [LockId -> [DomainEvent -> Nat]]
      /\ alerts \in [LockId -> Nat]
  BY <1>2, Bounds DEF IInv, TypeOK
<1>4. r \in Row
  BY <1>3, RowTypes
<1>10. r.prior = locks[k].prior /\ r.loan = locks[k].loan
  BY <1>3 DEF FlaggedRow, Row
<1>5. PICK e \in LogEvent \ {"repriced"} : e = "reprice_flagged"
  BY DEF LogEvent
<1> HIDE DEF r, k
<1>6. RelockChain'
  BY <1>1, <1>3, <1>4, <1>5, <1>10, UpdateChain DEF Ledger
<1>7. /\ \A j \in LockId \ {k} : outbox'[j] = outbox[j] /\ alerts'[j] = alerts[j]
      /\ outbox'[k]["cm.lock.confirmed"] = outbox[k]["cm.lock.confirmed"]
      /\ outbox'[k]["cm.lock.repriced"] = outbox[k]["cm.lock.repriced"]
      /\ outbox'[k]["cm.lock.expired"] = outbox[k]["cm.lock.expired"]
      /\ outbox'[k]["cm.lock.reprice_flagged"] =
           outbox[k]["cm.lock.reprice_flagged"] + 1
      /\ alerts'[k] = alerts[k] + 1
  BY <1>1, <1>3 DEF DomainEvent
<1>8. /\ \A x \in DomainEvent : outbox[k][x] \in Nat
      /\ alerts[k] \in Nat
  BY <1>3
<1>9. /\ outbox'[k]["cm.lock.confirmed"] =
           outbox[k]["cm.lock.confirmed"] + IF e = "confirmed" THEN 1 ELSE 0
      /\ outbox'[k]["cm.lock.expired"] =
           outbox[k]["cm.lock.expired"] + IF e = "expired" THEN 1 ELSE 0
      /\ outbox'[k]["cm.lock.reprice_flagged"] =
           outbox[k]["cm.lock.reprice_flagged"]
             + IF e = "reprice_flagged" THEN 1 ELSE 0
      /\ alerts'[k] = alerts[k] + IF e = "reprice_flagged" THEN 1 ELSE 0
  BY <1>5, <1>7, <1>8 DEF DomainEvent
<1>11. lockLog' = Logged(k, e)
  BY <1>1, <1>5
<1>12. Announced'
  BY <1>3, <1>7, <1>9, <1>11, UpdateAnnounced DEF Ledger
<1> QED
  BY <1>6, <1>12 DEF Ledger

\* A request inserts a row that supersedes none and tells no consumer.
LEMMA RequestLedger ==
  ASSUME IInv, Ledger, NEW w \in Worker, CommitRequest(w)
  PROVE  Ledger'
<1> DEFINE t == txn[w]
           r == RequestedRow(t.loan, t.actor, t.data)
<1>1. /\ nLocks + 1 \in LockId
      /\ locks' = [locks EXCEPT ![nLocks + 1] = r]
      /\ lockLog' = Logged(nLocks + 1, "requested")
      /\ outbox' = outbox /\ alerts' = alerts
  BY DEF CommitRequest, Commit
<1>2. PICK k \in LockId : k = nLocks + 1
  BY <1>1
<1>3. /\ locks \in [LockId -> Row] /\ lockLog \in [LockId -> [LogEvent -> Nat]]
      /\ 0 \notin LockId
  BY DEF IInv, TypeOK, LockId
<1>4. r.prior = 0
  BY DEF RequestedRow, NoRow
<1> HIDE DEF r
<1>5. /\ locks'[k].prior = 0
      /\ \A j \in LockId \ {k} : locks'[j] = locks[j] /\ lockLog'[j] = lockLog[j]
      /\ \A x \in LogEvent :
           lockLog'[k][x] = lockLog[k][x] + IF x = "requested" THEN 1 ELSE 0
  <2>1. lockLog' = Logged(k, "requested") /\ "requested" \in LogEvent
    BY <1>1, <1>2 DEF LogEvent
  <2> QED
    BY <1>1, <1>2, <1>3, <1>4, <2>1, LoggedIs
<1>6. /\ locks[k] = NoRow /\ Relocks(k) = {}
      /\ \A x \in LogEvent : lockLog[k][x] = 0
  BY <1>2, UnusedId
<1>7. \A j \in LockId : Relocks(j)' = Relocks(j)
  <2>1. \A i \in LockId : locks'[i].prior = locks[i].prior
    BY <1>5, <1>6 DEF NoRow
  <2> QED
    BY <2>1 DEF Relocks
<1>8. ASSUME NEW j \in LockId, NEW x \in LogEvent \ {"requested"}
      PROVE  lockLog'[j][x] = lockLog[j][x]
  BY <1>5, <1>6
<1>9. {"confirmed", "expired", "repriced", "reprice_flagged"}
        \subseteq LogEvent \ {"requested"}
  BY DEF LogEvent
<1>10. RelockChain'
  <2> SUFFICES ASSUME NEW p \in LockId
               PROVE  /\ \A j \in Relocks(p)' :
                           p < j /\ locks'[j].loan = locks'[p].loan
                      /\ lockLog'[p]["repriced"] = Cardinality(Relocks(p)')
    BY DEF RelockChain, Relocks
  <2>1. /\ \A j \in Relocks(p) : p < j /\ locks[j].loan = locks[p].loan
        /\ lockLog[p]["repriced"] = Cardinality(Relocks(p))
    BY DEF Ledger, RelockChain, Relocks
  <2>2. \A j \in Relocks(p) : j \in LockId \ {k} /\ p # k
    BY <1>3, <1>6 DEF Relocks, NoRow
  <2> QED
    BY <1>5, <1>7, <1>8, <1>9, <2>1, <2>2
<1>11. Announced'
  BY <1>1, <1>8, <1>9 DEF Ledger, Announced
<1> QED
  BY <1>10, <1>11 DEF Ledger

\* A relock chains its row to the lock it supersedes, whose log tells so, and
\* is announced for the new row.
LEMMA RepriceLedger ==
  ASSUME IInv, Ledger, NEW w \in Worker, CommitReprice(w)
  PROVE  Ledger'
<1> DEFINE t == txn[w]
           r == RelockRow(t.loan, t.actor, t.data, t.lock)
<1>1. /\ t.op = "reprice"
      /\ nLocks + 1 \in LockId
      /\ locks' = [locks EXCEPT ![t.lock] = ExpiredRow(@), ![nLocks + 1] = r]
      /\ lockLog' = RelockLog(t.lock, nLocks + 1)
      /\ outbox' = [outbox EXCEPT ![nLocks + 1]["cm.lock.repriced"] = @ + 1]
      /\ alerts' = alerts
  BY DEF CommitReprice, Ready, Commit, RelockOutbox
<1>2. t.lock \in 1 .. nLocks /\ locks[t.lock].loan = t.loan
  BY <1>1 DEF IInv, Bookkeeping, InForce
<1>3. PICK k \in LockId, p \in LockId : k = nLocks + 1 /\ p = t.lock
  BY <1>1, <1>2, Bounds
<1>4. /\ locks \in [LockId -> Row] /\ lockLog \in [LockId -> [LogEvent -> Nat]]
      /\ outbox \in [LockId -> [DomainEvent -> Nat]]
      /\ 0 \notin LockId
  BY DEF IInv, TypeOK, LockId
<1>5. p < k /\ p # k
  BY <1>2, <1>3, Bounds
<1>6. r.prior = p /\ r.loan = locks[p].loan
  <2>1. r.prior = t.lock
    BY DEF RelockRow, RequestedRow, NoRow
  <2>2. RequestedRow(t.loan, t.actor, t.data).loan = t.loan
    BY DEF RequestedRow, NoRow
  <2>3. r.loan = RequestedRow(t.loan, t.actor, t.data).loan
    BY DEF RelockRow
  <2> QED
    BY <1>2, <1>3, <2>1, <2>2, <2>3
<1> HIDE DEF r, t
<1>7. locks' = [locks EXCEPT ![p] = ExpiredRow(@), ![k] = r]
  BY <1>1, <1>3
<1>8. /\ locks'[k] = r /\ locks'[p] = ExpiredRow(locks[p])
      /\ \A j \in LockId \ {k, p} : locks'[j] = locks[j]
  BY <1>4, <1>5, <1>7
<1>9. /\ ExpiredRow(locks[p]).prior = locks[p].prior
      /\ ExpiredRow(locks[p]).loan = locks[p].loan
  BY <1>4 DEF ExpiredRow, Row
<1>10. \A j \in LockId \ {k} :
         locks'[j].prior = locks[j].prior /\ locks'[j].loan = locks[j].loan
  BY <1>8, <1>9
<1>11. locks'[k].prior = p /\ locks'[k].loan = locks'[p].loan
  BY <1>5, <1>6, <1>8, <1>9
<1>12. /\ locks[k] = NoRow /\ Relocks(k) = {}
       /\ \A x \in LogEvent : lockLog[k][x] = 0
       /\ outbox[k]["cm.lock.confirmed"] = 0
       /\ outbox[k]["cm.lock.repriced"] = 0
       /\ outbox[k]["cm.lock.expired"] = 0
       /\ outbox[k]["cm.lock.reprice_flagged"] = 0
       /\ alerts[k] = 0
  BY <1>3, UnusedId
<1>13. locks[k].prior = 0
  BY <1>12 DEF NoRow
<1>14. /\ \A x \in LogEvent :
            lockLog'[k][x] =
              lockLog[k][x] + IF x \in {"requested", "confirmed"} THEN 1 ELSE 0
       /\ \A x \in LogEvent :
            lockLog'[p][x] =
              lockLog[p][x] + IF x \in {"expired", "repriced"} THEN 1 ELSE 0
       /\ \A j \in LockId \ {k, p} : lockLog'[j] = lockLog[j]
  <2>1. lockLog' = RelockLog(p, k)
    BY <1>1, <1>3
  <2> QED
    BY <1>4, <1>5, <2>1, RelockLogIs
<1>15. {"requested", "confirmed", "expired", "repriced", "reprice_flagged"}
         \subseteq LogEvent
  BY DEF LogEvent
<1>16. ASSUME NEW x \in LogEvent
       PROVE  /\ lockLog'[k][x] =
                   IF x \in {"requested", "confirmed"} THEN 1 ELSE 0
              /\ lockLog'[p][x] =
                   lockLog[p][x] + IF x \in {"expired", "repriced"} THEN 1 ELSE 0
              /\ lockLog[p][x] \in Nat
  BY <1>4, <1>12, <1>14
<1>17. RelockChain'
  <2> SUFFICES ASSUME NEW q \in LockId
               PROVE  /\ \A j \in Relocks(q)' :
                           q < j /\ locks'[j].loan = locks'[q].loan
                      /\ lockLog'[q]["repriced"] = Cardinality(Relocks(q)')
    BY DEF RelockChain, Relocks
  <2>1. /\ \A j \in Relocks(q) : q < j /\ locks[j].loan = locks[q].loan
        /\ lockLog[q]["repriced"] = Cardinality(Relocks(q))
    BY DEF Ledger, RelockChain, Relocks
  <2>2. \A j \in Relocks(q) : j \in LockId \ {k} /\ q # k
    BY <1>4, <1>12, <1>13 DEF Relocks
  <2>3. \A j \in LockId : j \in Relocks(q)' <=> (j \in Relocks(q) \/ (j = k /\ q = p))
    BY <1>4, <1>10, <1>11, <1>13 DEF Relocks
  <2>4. Relocks(q)' \subseteq LockId /\ Relocks(q) \subseteq LockId
    BY DEF Relocks
  <2>5. \A j \in Relocks(q)' : q < j /\ locks'[j].loan = locks'[q].loan
    <3> SUFFICES ASSUME NEW j \in Relocks(q)'
                 PROVE  q < j /\ locks'[j].loan = locks'[q].loan
      OBVIOUS
    <3>1. CASE j \in Relocks(q)
      BY <1>10, <2>1, <2>2, <3>1
    <3>2. CASE j = k /\ q = p
      BY <1>5, <1>11, <3>2
    <3> QED
      BY <2>3, <2>4, <3>1, <3>2
  <2>6. CASE q = p
    <3>1. Relocks(q)' = Relocks(q) \cup {k} /\ k \notin Relocks(q)
      BY <1>4, <1>13, <2>3, <2>4, <2>6 DEF Relocks
    <3>2. Cardinality(Relocks(q) \cup {k}) = Cardinality(Relocks(q)) + 1
      BY <3>1, RelocksFinite, FS_AddElement
    <3>3. lockLog'[q]["repriced"] = lockLog[q]["repriced"] + 1
      BY <1>15, <1>16, <2>6
    <3> QED
      BY <2>1, <2>5, <3>1, <3>2, <3>3
  <2>7. CASE q # p
    <3>1. Relocks(q)' = Relocks(q)
      BY <2>3, <2>4, <2>7
    <3>2. lockLog'[q]["repriced"] = lockLog[q]["repriced"]
      <4>1. CASE q = k
        <5>1. lockLog[q]["repriced"] = 0
          BY <1>12, <1>15, <4>1
        <5>2. lockLog'[k]["repriced"] = 0
          BY <1>15, <1>16
        <5> QED
          BY <4>1, <5>1, <5>2
      <4>2. CASE q # k
        BY <1>14, <2>7, <4>2
      <4> QED
        BY <4>1, <4>2
    <3> QED
      BY <2>1, <2>5, <3>1, <3>2
  <2> QED
    BY <2>6, <2>7
<1>18. outbox'[k]["cm.lock.repriced"] = outbox[k]["cm.lock.repriced"] + 1
  BY <1>1, <1>3, <1>4 DEF DomainEvent
<1>19. /\ \A x \in DomainEvent \ {"cm.lock.repriced"} : outbox'[k][x] = outbox[k][x]
       /\ \A j \in LockId \ {k} : outbox'[j] = outbox[j]
  BY <1>1, <1>3, <1>4
<1>20. {"cm.lock.confirmed", "cm.lock.expired", "cm.lock.reprice_flagged"}
         \subseteq DomainEvent \ {"cm.lock.repriced"}
  BY DEF DomainEvent
<1>21. \A x \in DomainEvent : outbox[p][x] \in Nat
  BY <1>4
<1>22. Announced'
  <2> SUFFICES ASSUME NEW j \in LockId
               PROVE  /\ lockLog'[j]["confirmed"] =
                           outbox'[j]["cm.lock.confirmed"]
                             + outbox'[j]["cm.lock.repriced"]
                      /\ lockLog'[j]["expired"] =
                           outbox'[j]["cm.lock.expired"]
                             + lockLog'[j]["repriced"]
                      /\ lockLog'[j]["reprice_flagged"] =
                           outbox'[j]["cm.lock.reprice_flagged"]
                      /\ alerts'[j] = lockLog'[j]["reprice_flagged"]
    BY DEF Announced
  <2>1. /\ lockLog[j]["confirmed"] =
             outbox[j]["cm.lock.confirmed"] + outbox[j]["cm.lock.repriced"]
        /\ lockLog[j]["expired"] =
             outbox[j]["cm.lock.expired"] + lockLog[j]["repriced"]
        /\ lockLog[j]["reprice_flagged"] =
             outbox[j]["cm.lock.reprice_flagged"]
        /\ alerts[j] = lockLog[j]["reprice_flagged"]
    BY DEF Ledger, Announced
  <2>2. CASE j = k
    <3>1. /\ lockLog'[k]["confirmed"] = 1
          /\ lockLog'[k]["expired"] = 0
          /\ lockLog'[k]["repriced"] = 0
          /\ lockLog'[k]["reprice_flagged"] = 0
      BY <1>15, <1>16
    <3>2. /\ outbox'[k]["cm.lock.confirmed"] = 0
          /\ outbox'[k]["cm.lock.repriced"] = 1
          /\ outbox'[k]["cm.lock.expired"] = 0
          /\ outbox'[k]["cm.lock.reprice_flagged"] = 0
          /\ alerts'[k] = 0
      BY <1>1, <1>12, <1>18, <1>19, <1>20
    <3> QED
      BY <2>2, <3>1, <3>2
  <2>3. CASE j = p
    <3>1. /\ lockLog'[p]["confirmed"] = lockLog[p]["confirmed"]
          /\ lockLog'[p]["expired"] = lockLog[p]["expired"] + 1
          /\ lockLog'[p]["repriced"] = lockLog[p]["repriced"] + 1
          /\ lockLog'[p]["reprice_flagged"] =
               lockLog[p]["reprice_flagged"]
          /\ lockLog[p]["repriced"] \in Nat
      BY <1>15, <1>16
    <3>2. outbox'[p] = outbox[p] /\ alerts'[p] = alerts[p]
      BY <1>1, <1>5, <1>19
    <3>3. outbox[p]["cm.lock.expired"] \in Nat
      BY <1>20, <1>21
    <3> QED
      BY <2>1, <2>3, <3>1, <3>2, <3>3
  <2>4. CASE j \notin {k, p}
    BY <1>1, <1>14, <1>19, <2>1, <2>4
  <2> QED
    BY <2>2, <2>3, <2>4
<1> QED
  BY <1>17, <1>22 DEF Ledger

\* What is announced again is a change of the loan, which no lock's log tells.
LEMMA AnnounceLedger ==
  ASSUME IInv, Ledger, NEW w \in Worker, CommitAnnounce(w)
  PROVE  Ledger'
<1>1. /\ locks' = locks /\ lockLog' = lockLog /\ alerts' = alerts
      /\ outbox' = [outbox EXCEPT ![txn[w].lock]["cm.material_change"] = @ + 1]
  BY DEF CommitAnnounce, Commit
<1>2. outbox \in [LockId -> [DomainEvent -> Nat]]
  BY DEF IInv, TypeOK
<1>3. \A j \in LockId : \A x \in DomainEvent \ {"cm.material_change"} :
        outbox'[j][x] = outbox[j][x]
  BY <1>1, <1>2
<1>4. {"cm.lock.confirmed", "cm.lock.repriced", "cm.lock.expired",
       "cm.lock.reprice_flagged"} \subseteq DomainEvent \ {"cm.material_change"}
  BY DEF DomainEvent
<1>5. RelockChain'
  BY <1>1 DEF Ledger, RelockChain
<1>6. Announced'
  BY <1>1, <1>3, <1>4 DEF Ledger, Announced
<1> QED
  BY <1>5, <1>6 DEF Ledger

-----------------------------------------------------------------------------
(* The ledger is kept.                                                     *)

\* No locks, no events.
LEMMA InitLedger == Init => Ledger
<1> SUFFICES ASSUME Init PROVE Ledger
  OBVIOUS
<1>1. IInv
  BY InitInv
<1>2. ASSUME NEW p \in LockId, NEW x \in LogEvent
      PROVE  lockLog[p][x] = 0
  BY DEF Init, NoEntries
<1>3. \A p \in LockId : Relocks(p) = {}
  BY DEF Init, Relocks, NoRow, LockId
<1>4. RelockChain
  BY <1>2, <1>3, FS_EmptySet DEF RelockChain, Relocks, LogEvent
<1>5. Announced
  BY <1>2 DEF Init, Announced, DomainEvent, LogEvent
<1> QED
  BY <1>4, <1>5 DEF Ledger

\* Every step keeps the ledger in order.
LEMMA NextLedger == IInv /\ Ledger /\ [Next]_vars => Ledger'
<1> SUFFICES ASSUME IInv, Ledger, [Next]_vars PROVE Ledger'
  OBVIOUS
<1>1. CASE UNCHANGED tables
  BY <1>1 DEF tables, Ledger, RelockChain, Announced
<1>2. ASSUME NEW w \in Worker,
             \/ CommitRequest(w) \/ CommitConfirm(w) \/ CommitExpire(w)
             \/ CommitReprice(w) \/ CommitFlag(w) \/ CommitAnnounce(w)
      PROVE  Ledger'
  BY <1>2, RequestLedger, ConfirmLedger, ExpireLedger, RepriceLedger,
     FlagLedger, AnnounceLedger
<1>3. \/ UNCHANGED tables
      \/ \E w \in Worker :
           \/ CommitRequest(w) \/ CommitConfirm(w) \/ CommitExpire(w)
           \/ CommitReprice(w) \/ CommitFlag(w) \/ CommitAnnounce(w)
  BY DEF Next, vars, tables, EditLoan, BeginRequest, BeginConfirm,
         BeginReprice, BeginDetect, BeginExpire, ReadLock, ReadLoan,
         Rollback, Start
<1> QED
  BY <1>1, <1>2, <1>3

\* In every state the relocks of a lock are those its log tells of, and the
\* domain events are those of the logs, whatever transactions overlap.
THEOREM SpecLedger == Spec => []Ledger
<1> QED
  BY InitLedger, NextLedger, SpecInv, PTL DEF Spec

\* For any number of loans, users, sessions and locks, a relock chains to an
\* older lock of its loan, and every lock's log records the relocks of it.
THEOREM RelockChainHolds == Spec => []RelockChain
<1>1. Ledger => RelockChain
  BY DEF Ledger
<1> QED
  BY <1>1, SpecLedger, PTL

\* And every transition in a lock's log was announced once, whatever requests
\* have overtaken each other.
THEOREM AnnouncedHolds == Spec => []Announced
<1>1. Ledger => Announced
  BY DEF Ledger
<1> QED
  BY <1>1, SpecLedger, PTL

=============================================================================
