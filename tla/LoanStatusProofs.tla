-------------------------- MODULE LoanStatusProofs --------------------------
(***************************************************************************)
(* Theorems about LoanStatus, for all loans, any number of sessions, any   *)
(* statuses that clients set and histories of any length.                  *)
(*                                                                         *)
(* What carries them is what a stale request may still rely on: InForce.   *)
(* It is about a loan that was created, and the status it loaded is one    *)
(* that the loan has had, for a history only grows while its loan exists,  *)
(* and a loan that was deleted is never created again.  The entry of that  *)
(* status was there when the request loaded the loan; so it started before *)
(* the request, unless the request was late.                               *)
(***************************************************************************)
EXTENDS LoanStatus, FiniteSetTheorems, TLAPS

-----------------------------------------------------------------------------
(* The inductive invariant.                                                *)

\* The statuses that a loan can have without an entry that enters them.
Unlogged == {"archived"} \cup Overrides

\* The statuses that a loan can have had.
Had(l) == Unlogged \cup {s \in Status : \E e \in history[l] : e.to = s}

\* A loan past funding was funded.
Funded(l) ==
  \/ Overrides \cap Unarchivable # {}
  \/ \E e \in history[l] : e.to = "funded"

\* A loan, and a request that loaded it, knows statuses that it has had.
Known(l, s) == s \in Had(l) /\ (s \in Unarchivable => Funded(l))

\* An entry that started before n enters s, or s needs none.
Before(l, s, n) == s \in Unlogged \/ \E f \in history[l] : f.at < n /\ f.to = s

\* What a handler may set, given the status it loaded.
Allowed(r) ==
  /\ r.op \in {"transition", "submit", "post", "patch", "archive", "delete"}
  /\ r.op = "transition" => r.to \in Workflow[r.from]
  /\ r.op = "submit" => r.to = "submitted"
  /\ r.op \in {"post", "patch"} => r.to \in Overrides
  /\ r.op = "archive" => r.to = "archived"

\* A request that loaded its loan does what its handler may and, while the
\* loan exists, loaded a status that the loan has had, and had before the
\* request started unless it was late.
Loaded(r) ==
  /\ r.from \in Status
  /\ Allowed(r)
  /\ Exists(r.loan) =>
       Known(r.loan, r.from) /\ (r.late \/ Before(r.loan, r.from, r.at))

\* A request is about a loan that was created.
Valid(r) ==
  /\ r.loan \in Loan
  /\ loans[r.loan].status # "none"
  /\ r.pc # "open" => Loaded(r)

\* So is each open request.
InForce == \A w \in Session : ~ Idle(w) => Valid(req[w])

\* The status of a loan is one that it has had.
StatusKnown == \A l \in Loan : Exists(l) => Known(l, loans[l].status)

\* A loan that is not created yet has no events.
Silent == \A l \in Loan : loans[l].status = "none" => outbox[l] = {}

IInv ==
  TypeOK /\ InForce /\ StatusKnown /\ Silent /\ HistoryConnected /\ Announced

-----------------------------------------------------------------------------
(* Types.                                                                  *)

\* Loans are numbered by how many there are.
LEMMA CountType == LoanCount \in 0 .. Cardinality(Loan)
<1>1. {l \in Loan : Exists(l)} \subseteq Loan
  OBVIOUS
<1>2. /\ Cardinality({l \in Loan : Exists(l)}) \in Nat
      /\ Cardinality(Loan) \in Nat
      /\ Cardinality({l \in Loan : Exists(l)}) <= Cardinality(Loan)
  BY <1>1, LoanAssumption, FS_Subset, FS_CardinalityType
<1> QED
  BY <1>2 DEF LoanCount

\* A request that loaded its loan has the shape of its operation, and sets a status unless
\* it deletes.
LEMMA AllowedStatus ==
  ASSUME TypeOK, InForce, NEW w \in Session, ~ Idle(w), req[w].pc # "open"
  PROVE  /\ req[w].loan \in Loan /\ req[w].from \in Status
         /\ req[w].op # "delete" => req[w].to \in Status
<1>1. req[w] \in Request
  BY DEF TypeOK
<1>2. Allowed(req[w]) /\ req[w].loan \in Loan /\ req[w].from \in Status
  BY DEF InForce, Valid, Loaded
<1>3. req[w].to \in Status \cup {Null}
  BY <1>1 DEF Request
<1>4. ASSUME req[w].op = "transition" PROVE req[w].to \in Status
  <2>1. req[w].to \in Workflow[req[w].from]
    BY <1>2, <1>4 DEF Allowed
  <2> QED
    BY <1>2, <2>1 DEF Workflow, Status
<1>5. ASSUME req[w].op # "transition", req[w].op # "delete"
      PROVE  req[w].to \in Status
  BY <1>2, <1>5, OverridesAssumption DEF Allowed, Status
<1> QED
  BY <1>2, <1>4, <1>5

-----------------------------------------------------------------------------
(* A history only grows.                                                   *)

\* What was known of a loan stays known when its history grows.
LEMMA KnownStays ==
  ASSUME NEW l \in Loan, history[l] \subseteq history'[l], NEW s, NEW n
  PROVE  /\ Known(l, s) => Known(l, s)'
         /\ Before(l, s, n) => \/ s \in Unlogged
                              \/ \E f \in history'[l] : f.at < n /\ f.to = s
<1>1. s \in Had(l) => s \in Had(l)'
  BY DEF Had, Unlogged
<1>2. Funded(l) => Funded(l)'
  BY DEF Funded
<1> QED
  BY <1>1, <1>2 DEF Known, Before

-----------------------------------------------------------------------------
(* Requests that arrive, start or go on.                                   *)

\* The invariant does not mind a step that leaves the tables alone, if each
\* request it leaves open is in force.
LEMMA RequestInv ==
  ASSUME IInv, UNCHANGED tables, blocked' \subseteq Loan,
         NEW w \in Session, NEW r \in Request, req' = [req EXCEPT ![w] = r],
         r.pc # "idle" => Valid(r)
  PROVE  IInv'
<1>1. loans' = loans /\ history' = history /\ outbox' = outbox
  BY DEF tables
<1>2. req' \in [Session -> Request]
  BY DEF IInv, TypeOK
<1>3. TypeOK'
  BY <1>1, <1>2 DEF IInv, TypeOK
<1>4. StatusKnown'
  BY <1>1 DEF IInv, StatusKnown, Exists, Known, Had, Unlogged, Funded
<1>5. HistoryConnected' /\ Silent' /\ Announced'
  BY <1>1 DEF IInv, HistoryConnected, Silent, Announced, Moves, Exists
<1>6. ASSUME NEW v \in Session, ~ Idle(v)'
      PROVE  Valid(req[v])'
  <2>1. \A x : Valid(x) = Valid(x)'
    BY <1>1 DEF Valid, Loaded, Allowed, Exists, Known, Had, Unlogged, Funded, Before
  <2>2. CASE v = w
    <3>1. req'[v] = r
      BY <2>2 DEF IInv, TypeOK
    <3> QED
      BY <1>6, <2>1, <3>1 DEF Idle
  <2>3. CASE v # w
    <3>1. req'[v] = req[v]
      BY <2>3 DEF IInv, TypeOK
    <3>2. ~ Idle(v)
      BY <1>6, <3>1 DEF Idle
    <3>3. Valid(req[v])
      BY <3>2 DEF IInv, InForce
    <3> QED
      BY <2>1, <3>1, <3>3
  <2> QED
    BY <2>2, <2>3
<1>7. InForce'
  BY <1>6 DEF InForce
<1> QED
  BY <1>3, <1>4, <1>5, <1>7 DEF IInv

\* A request that arrives is about a loan that exists.
LEMMA ArriveInv ==
  ASSUME IInv, blocked' \subseteq Loan, NEW w \in Session, NEW l \in Loan,
         NEW n \in 1 .. MaxStarts, Arrive(w, l, n)
  PROVE  IInv'
<1> PICK r : r = [req[w] EXCEPT !.pc = "open", !.loan = l, !.at = n]
  OBVIOUS
<1>1. /\ req[w] \in Request /\ req \in [Session -> Request]
      /\ loans[l].status \in Status
  BY DEF IInv, TypeOK, Arrive, Exists
<1>a. n \in 0 .. MaxStarts
  BY StartsAssumption
<1>b. r.pc = "open" /\ r.loan = l
  BY <1>1 DEF Request
<1>2. r \in Request
  BY <1>1, <1>a DEF Request
<1>3. req' = [req EXCEPT ![w] = r] /\ UNCHANGED tables
  BY <1>1 DEF Arrive
<1>4. Valid(r)
  BY <1>1, <1>b DEF Valid, Status
<1> QED
  BY <1>2, <1>3, <1>4, RequestInv

\* A handler that begins knows the status that it loaded, and where it stands
\* in the history.
LEMMA BeginInv ==
  ASSUME IInv, blocked' \subseteq Loan, NEW w \in Session, NEW l \in Loan,
         NEW op \in Op, NEW t \in Status \cup {Null}, NEW pc \in {"loaded", "ready"},
         Begin(w, l, op, t, pc),
         \A r : /\ r.op = op /\ r.to = t /\ r.from = loans[l].status
               => Allowed(r)
  PROVE  IInv'
<1> PICK n : n = req[w].at
  OBVIOUS
<1> PICK late : late = \E e \in history[l] : e.at >= n
  OBVIOUS
<1> PICK r : r = [pc |-> pc, op |-> op, loan |-> l, from |-> loans[l].status,
                  to |-> t, number |-> loans[l].number, at |-> n, late |-> late]
  OBVIOUS
<1>1. /\ loans[l] \in Row /\ loans[l].status \in Status
      /\ req[w] \in Request /\ n \in Nat /\ n \in 0 .. MaxStarts
  BY StartsAssumption DEF Begin, Exists, IInv, TypeOK, Request
<1>2. late \in BOOLEAN
  OBVIOUS
<1>3. r \in Request
  BY <1>1, <1>2 DEF Row, Request
<1>4. Known(l, loans[l].status)
  BY <1>1 DEF IInv, StatusKnown, Exists
<1>5. loans[l].status # "none"
  BY <1>1 DEF Status
<1>6. UNCHANGED tables /\ req' = [req EXCEPT ![w] = r]
  BY DEF Begin
<1>7. late \/ Before(l, loans[l].status, n)
  <2> SUFFICES ASSUME ~ late, loans[l].status \notin Unlogged
               PROVE  \E f \in history[l] : f.at < n /\ f.to = loans[l].status
    BY DEF Before
  <2>1. PICK f \in history[l] : f.to = loans[l].status
    BY <1>4 DEF Known, Had
  <2>2. f.at \in Nat /\ ~ (f.at >= n)
    BY StartsAssumption DEF IInv, TypeOK, Entry
  <2> QED
    BY <1>1, <2>1, <2>2
<1>8. Allowed(r)
  OBVIOUS
<1>9. Loaded(r) /\ r.loan = l
  BY <1>1, <1>4, <1>7, <1>8 DEF Loaded
<1>10. Valid(r)
  BY <1>5, <1>9 DEF Valid
<1> QED
  BY <1>3, <1>6, <1>10, RequestInv

-----------------------------------------------------------------------------
(* Commits.                                                                *)

\* Whoever else has a request on a loan still knows its status from a
\* history that grows, or the loan is gone.
LEMMA StepInv ==
  ASSUME IInv, blocked' \subseteq Loan, NEW l \in Loan, NEW row \in Row,
         loans' = [loans EXCEPT ![l] = row], row.status # "none",
         history' \in [Loan -> SUBSET Entry],
         outbox' \in [Loan -> SUBSET Event], req' \in [Session -> Request],
         \A k \in Loan \ {l} : history'[k] = history[k] /\ outbox'[k] = outbox[k],
         \A e \in history'[l] :
           \/ e.from \in {Null} \cup Unlogged \/ e.late
           \/ \E f \in history'[l] : f.at < e.at /\ f.to = e.from,
         row.status \in Status =>
           /\ Known(l, row.status)'
           /\ Moves(outbox'[l]) = Moves({e \in history'[l] : e.from # Null}),
         Exists(l) /\ row.status \in Status => history[l] \subseteq history'[l],
         ~ Exists(l) => \A v \in Session : ~ Idle(v) => req[v].loan # l,
         \A v \in Session : ~ Idle(v)' => ~ Idle(v) /\ req'[v] = req[v]
  PROVE  IInv'
<1>1. /\ loans'[l] = row
      /\ \A k \in Loan \ {l} : loans'[k] = loans[k]
      /\ loans' \in [Loan -> Row]
  BY DEF IInv, TypeOK
<1>2. TypeOK'
  BY <1>1 DEF IInv, TypeOK
<1>3. StatusKnown'
  <2> SUFFICES ASSUME NEW k \in Loan, Exists(k)'
               PROVE  Known(k, loans[k].status)'
    BY DEF StatusKnown
  <2>1. CASE k = l
    BY <1>1, <2>1 DEF Exists
  <2>2. CASE k # l
    <3>1. Known(k, loans[k].status)
      BY <1>1, <2>2 DEF IInv, StatusKnown, Exists
    <3>2. Known(k, loans[k].status) = Known(k, loans[k].status)'
      BY <1>1, <2>2 DEF Known, Had, Unlogged, Funded
    <3> QED
      BY <3>1, <3>2
  <2> QED
    BY <2>1, <2>2
<1>4. Silent'
  BY <1>1 DEF IInv, Silent
<1>5. HistoryConnected'
  BY DEF IInv, HistoryConnected, Unlogged
<1>6. Announced'
  <2> SUFFICES ASSUME NEW k \in Loan, Exists(k)'
               PROVE  Moves(outbox'[k]) = Moves({e \in history'[k] : e.from # Null})
    BY DEF Announced, Moves
  <2>1. CASE k = l
    BY <1>1, <2>1 DEF Exists
  <2>2. CASE k # l
    BY <1>1, <2>2 DEF IInv, Announced, Exists
  <2> QED
    BY <2>1, <2>2
<1>7. ASSUME NEW v \in Session, ~ Idle(v)'
      PROVE  Valid(req[v])'
  <2> PICK r : r = req[v]
    OBVIOUS
  <2>1. req'[v] = r /\ ~ Idle(v) /\ Valid(r)
    BY <1>7 DEF IInv, InForce
  <2>2. ASSUME r.pc # "open", Exists(r.loan)'
        PROVE  Known(r.loan, r.from)' /\ (r.late \/ Before(r.loan, r.from, r.at))'
    <3>1. r.loan \in Loan
      BY <2>1 DEF Valid
    <3>2. Exists(r.loan) /\ history[r.loan] \subseteq history'[r.loan]
      <4>1. CASE r.loan = l
        BY <1>1, <2>1, <2>2, <4>1 DEF Exists
      <4>2. CASE r.loan # l
        BY <1>1, <2>2, <3>1, <4>2 DEF Exists
      <4> QED
        BY <4>1, <4>2
    <3>3. Known(r.loan, r.from) /\ (r.late \/ Before(r.loan, r.from, r.at))
      BY <2>1, <2>2, <3>2 DEF Valid, Loaded
    <3> QED
      BY <3>1, <3>2, <3>3, KnownStays DEF Before, Unlogged
  <2>3. loans'[r.loan].status # "none"
    BY <1>1, <2>1 DEF Valid
  <2> QED
    BY <2>1, <2>2, <2>3 DEF Valid, Loaded, Allowed
<1>8. InForce'
  BY <1>7 DEF InForce
<1> QED
  BY <1>2, <1>3, <1>4, <1>5, <1>6, <1>8 DEF IInv

\* A commit ends its request and leaves the others alone.
LEMMA Ended ==
  ASSUME IInv, NEW w \in Session, req' = [req EXCEPT ![w] = NoRequest]
  PROVE  /\ req' \in [Session -> Request]
         /\ \A v \in Session : ~ Idle(v)' => ~ Idle(v) /\ req'[v] = req[v]
<1>1. NoRequest \in Request
  BY LoanAssumption, FS_CardinalityType, StartsAssumption DEF NoRequest, Request, Op
<1>2. req \in [Session -> Request]
  BY DEF IInv, TypeOK
<1>3. req' \in [Session -> Request]
  BY <1>1, <1>2
<1>4. \A v \in Session : ~ Idle(v)' => ~ Idle(v) /\ req'[v] = req[v]
  BY <1>2 DEF Idle, NoRequest
<1> QED
  BY <1>3, <1>4

\* The moves of a record that gets an item.
LEMMA MovesWith ==
  ASSUME NEW S, NEW e
  PROVE  /\ e.to \in Overrides => Moves(S \cup {e}) = Moves(S)
         /\ e.to \notin Overrides =>
              Moves(S \cup {e}) = Moves(S) \cup {[to |-> e.to, at |-> e.at]}
BY DEF Moves

\* A commit with an entry in the history: the request's own, of a status that
\* the loan may have next, with an event of it unless clients post it.
LEMMA LoggedCommit ==
  ASSUME IInv, blocked' \subseteq Loan, NEW w \in Session, NEW op \in Op,
         Ready(w, op), op # "delete",
         NEW row \in Row, row.status \in {loans[req[w].loan].status, req[w].to},
         NEW events, Commit(w, req[w].loan, row, Logged(w), events),
         \/ events = Emitted(w)
         \/ events = outbox /\ req[w].to \in Overrides,
         req[w].to \in Unarchivable => req[w].to = "funded" \/ Funded(req[w].loan)
  PROVE  IInv'
<1> PICK r : r = req[w]
  OBVIOUS
<1> PICK l : l = r.loan
  OBVIOUS
<1> PICK e : e = EntryOf(r)
  OBVIOUS
<1> PICK ev : ev = [to |-> r.to, at |-> r.at]
  OBVIOUS
<1>1. ~ Idle(w) /\ r \in Request /\ Valid(r) /\ r.op = op /\ r.pc = "ready"
  BY DEF Ready, Idle, IInv, InForce, TypeOK
<1>2. l \in Loan /\ r.from \in Status /\ r.to \in Status
  BY <1>1, AllowedStatus DEF IInv
<1>3. e \in Entry /\ e.from = r.from /\ e.to = r.to /\ e.at = r.at /\ e.late = r.late
  BY <1>1, <1>2 DEF EntryOf, Entry, Request
<1>4. /\ Exists(l)
      /\ loans' = [loans EXCEPT ![l] = row]
      /\ history' = Logged(w) /\ outbox' = events
      /\ req' \in [Session -> Request]
      /\ \A v \in Session : ~ Idle(v)' => ~ Idle(v) /\ req'[v] = req[v]
  BY <1>1, Ended DEF Commit
<1>5. /\ history' \in [Loan -> SUBSET Entry]
      /\ history'[l] = history[l] \cup {e}
      /\ \A k \in Loan \ {l} : history'[k] = history[k]
  BY <1>2, <1>3, <1>4 DEF Logged, IInv, TypeOK
<1>6. ev \in Event /\ ev.to = r.to /\ ev.at = r.at
  BY <1>1, <1>2 DEF Event, Request
<1>7. /\ outbox' \in [Loan -> SUBSET Event]
      /\ \A k \in Loan \ {l} : outbox'[k] = outbox[k]
      /\ \/ outbox'[l] = outbox[l] \cup {ev}
         \/ outbox'[l] = outbox[l] /\ r.to \in Overrides
  BY <1>2, <1>4, <1>6 DEF Emitted, IInv, TypeOK
<1>8. Loaded(r)
  BY <1>1 DEF Valid
<1>9. Known(l, loans[l].status) /\ (r.late \/ Before(l, r.from, r.at))
  BY <1>2, <1>4, <1>8 DEF Loaded, IInv, StatusKnown
<1>10. Known(l, loans[l].status)'  \/ row.status = r.to
  <2> PICK s : s = loans[l].status
    OBVIOUS
  <2>1. Known(l, s)'
    BY <1>2, <1>5, <1>9, KnownStays
  <2>2. row.status = s => loans'[l].status = s
    BY <1>2, <1>4 DEF IInv, TypeOK
  <2> QED
    BY <2>1, <2>2
<1>11. Known(l, r.to)'
  <2>1. r.to \in Had(l)'
    BY <1>2, <1>3, <1>5 DEF Had
  <2>2. r.to \in Unarchivable => Funded(l)'
    <3>1. Funded(l) => Funded(l)'
      BY <1>5 DEF Funded
    <3>2. r.to = "funded" => Funded(l)'
      BY <1>3, <1>5 DEF Funded
    <3> QED
      BY <3>1, <3>2
  <2> QED
    BY <2>1, <2>2 DEF Known
<1>12. Known(l, row.status)'
  BY <1>2, <1>4, <1>10, <1>11 DEF IInv, TypeOK
<1>13. row.status \in Status /\ row.status # "none"
  BY <1>2, <1>4 DEF Exists, Status
<1>14. ASSUME NEW f \in history'[l]
       PROVE  \/ f.from \in {Null} \cup Unlogged \/ f.late
              \/ \E g \in history'[l] : g.at < f.at /\ g.to = f.from
  <2>1. CASE f = e
    BY <1>3, <1>5, <1>9, <2>1 DEF Before
  <2>2. CASE f \in history[l]
    BY <1>2, <1>5, <2>2 DEF IInv, HistoryConnected, Unlogged
  <2> QED
    BY <1>5, <2>1, <2>2
<1>15. Moves(outbox'[l]) = Moves({f \in history'[l] : f.from # Null})
  <2> PICK S : S = {f \in history[l] : f.from # Null}
    OBVIOUS
  <2>1. {f \in history'[l] : f.from # Null} = S \cup {e}
    BY <1>2, <1>3, <1>5, NullAssumption
  <2>2. Moves(outbox[l]) = Moves(S)
    BY <1>2, <1>4 DEF IInv, Announced
  <2> PICK T : T = outbox[l]
    OBVIOUS
  <2>3. CASE r.to \in Overrides
    <3>1. Moves(T \cup {ev}) = Moves(T) /\ Moves(S \cup {e}) = Moves(S)
      BY <1>3, <1>6, <2>3, MovesWith
    <3> QED
      BY <1>7, <2>1, <2>2, <3>1
  <2>4. CASE r.to \notin Overrides
    <3>1. /\ Moves(T \cup {ev}) = Moves(T) \cup {ev}
          /\ Moves(S \cup {e}) = Moves(S) \cup {ev}
      BY <1>3, <1>6, <2>4, MovesWith
    <3> QED
      BY <1>7, <2>1, <2>2, <2>4, <3>1
  <2> QED
    BY <2>3, <2>4
<1>16. \A k \in Loan \ {l} : history'[k] = history[k] /\ outbox'[k] = outbox[k]
  BY <1>5, <1>7
<1>17. history[l] \subseteq history'[l]
  BY <1>5
<1> QED
  BY <1>2, <1>4, <1>5, <1>7, <1>12, <1>13, <1>14, <1>15, <1>16, <1>17, StepInv

\* The row that a move writes is a row, with the status it had or the new one.
LEMMA MovedRow ==
  ASSUME NEW row \in Row, NEW s, NEW t \in Status
  PROVE  /\ Moved(row, s, t) \in Row
         /\ Moved(row, s, t).status \in {row.status, t}
         /\ \A n \in 0 .. Cardinality(Loan) :
              /\ [Moved(row, s, t) EXCEPT !.number = n] \in Row
              /\ [Moved(row, s, t) EXCEPT !.number = n].status \in {row.status, t}
<1> DEFINE m == IF s = t THEN row.status ELSE t
<1>1. m \in Status \cup {"none", "deleted"} /\ m \in {row.status, t}
  BY DEF Row
<1>2. Moved(row, s, t) = [row EXCEPT !.status = m]
  BY DEF Moved
<1> HIDE DEF m
<1> QED
  BY <1>1, <1>2 DEF Row

-----------------------------------------------------------------------------
(* Every step keeps the invariant.                                         *)

\* A request that commits has the shape of its operation.
LEMMA ReadyRequest ==
  ASSUME IInv, NEW w \in Session, NEW op \in Op, Ready(w, op)
  PROVE  /\ ~ Idle(w) /\ Loaded(req[w]) /\ TypeOK
         /\ req[w].loan \in Loan
         /\ loans[req[w].loan] \in Row
         /\ req[w].from \in Status
         /\ op # "delete" => req[w].to \in Status
         /\ req[w].number \in 0 .. Cardinality(Loan)
<1>1. ~ Idle(w) /\ req[w].op = op /\ req[w].pc # "open"
  BY DEF Ready, Idle
<1>2. TypeOK /\ InForce
  BY DEF IInv
<1>3. Loaded(req[w])
  BY <1>1, <1>2 DEF InForce, Valid
<1>4. /\ req[w].loan \in Loan /\ req[w].from \in Status
      /\ req[w].op # "delete" => req[w].to \in Status
  BY <1>1, <1>2, AllowedStatus
<1>5. loans[req[w].loan] \in Row /\ req[w] \in Request
  BY <1>2, <1>4 DEF TypeOK
<1> QED
  BY <1>1, <1>2, <1>3, <1>4, <1>5 DEF Request

\* The workflow enters the statuses past funding from one of them, or funds.
LEMMA WorkflowFunds ==
  ASSUME NEW s \in Status, NEW t \in AllowedFrom(s), t \in Unarchivable
  PROVE  t = "funded" \/ s \in Unarchivable
BY DEF Status, AllowedFrom, Workflow, Unarchivable

\* The commit of transition_status.
LEMMA TransitionInv ==
  ASSUME IInv, blocked' \subseteq Loan, NEW w \in Session, CommitTransition(w)
  PROVE  IInv'
<1> PICK r : r = req[w]
  OBVIOUS
<1> PICK l : l = r.loan
  OBVIOUS
<1>1. "transition" \in Op /\ Ready(w, "transition")
  BY DEF Op, CommitTransition
<1>2. /\ ~ Idle(w) /\ Loaded(r) /\ TypeOK /\ l \in Loan /\ loans[l] \in Row
      /\ r.from \in Status /\ r.to \in Status
  BY <1>1, ReadyRequest
<1>3. Commit(w, l, Moved(loans[l], r.from, r.to), Logged(w), Emitted(w))
  BY DEF CommitTransition
<1>4. r.to \in AllowedFrom(r.from)
  BY <1>1, <1>2 DEF Loaded, Allowed, AllowedFrom, Ready
<1>5. Exists(l)
  BY <1>3 DEF Commit
<1>6. r.to \in Unarchivable => r.to = "funded" \/ Funded(l)
  BY <1>2, <1>4, <1>5, WorkflowFunds DEF Loaded, Known
<1>7. /\ Moved(loans[l], r.from, r.to) \in Row
      /\ Moved(loans[l], r.from, r.to).status \in {loans[l].status, r.to}
  BY <1>2, MovedRow
<1> QED
  BY <1>1, <1>3, <1>6, <1>7, LoggedCommit

\* The commit of submit_loan.
LEMMA SubmitInv ==
  ASSUME IInv, blocked' \subseteq Loan, NEW w \in Session, CommitSubmit(w)
  PROVE  IInv'
<1> PICK r : r = req[w]
  OBVIOUS
<1> PICK l : l = r.loan
  OBVIOUS
<1>1. "submit" \in Op /\ Ready(w, "submit") /\ "submitted" \in Status
  BY DEF Op, Status, CommitSubmit
<1>2. /\ ~ Idle(w) /\ Loaded(r) /\ TypeOK /\ l \in Loan /\ loans[l] \in Row
      /\ r.from \in Status /\ r.number \in 0 .. Cardinality(Loan)
  BY <1>1, ReadyRequest
<1> DEFINE moved == Moved(loans[l], r.from, "submitted")
           n == IF r.number = 0 THEN moved.number ELSE r.number
           row == [moved EXCEPT !.number = n]
<1>3. Commit(w, l, row, Logged(w), Emitted(w))
  BY DEF CommitSubmit, SubmissionEvents
<1>4. moved \in Row
  BY <1>1, <1>2, MovedRow
<1>5. n \in 0 .. Cardinality(Loan)
  BY <1>2, <1>4 DEF Row
<1>6. row \in Row /\ row.status \in {loans[l].status, "submitted"}
  BY <1>1, <1>2, <1>5, MovedRow
<1>7. r.to = "submitted"
  BY <1>1, <1>2 DEF Loaded, Allowed, Ready
<1>8. "submitted" \notin Unarchivable
  BY DEF Unarchivable
<1> HIDE DEF row
<1> QED
  BY <1>1, <1>3, <1>6, <1>7, <1>8, LoggedCommit

\* The commit of create_status_event.
LEMMA PostInv ==
  ASSUME IInv, blocked' \subseteq Loan, NEW w \in Session, CommitPost(w)
  PROVE  IInv'
<1> PICK r : r = req[w]
  OBVIOUS
<1> PICK l : l = r.loan
  OBVIOUS
<1>1. "post" \in Op /\ Ready(w, "post")
  BY DEF Op, CommitPost
<1>2. /\ ~ Idle(w) /\ Loaded(r) /\ TypeOK /\ l \in Loan /\ loans[l] \in Row
      /\ r.from \in Status /\ r.to \in Status
  BY <1>1, ReadyRequest
<1>3. Commit(w, l, Moved(loans[l], r.from, r.to), Logged(w), outbox)
  BY DEF CommitPost
<1>4. r.to \in Overrides
  BY <1>1, <1>2 DEF Loaded, Allowed, Ready
<1>5. r.to \in Unarchivable => Funded(l)
  BY <1>4 DEF Funded
<1>6. /\ Moved(loans[l], r.from, r.to) \in Row
      /\ Moved(loans[l], r.from, r.to).status \in {loans[l].status, r.to}
  BY <1>2, MovedRow
<1> QED
  BY <1>1, <1>3, <1>4, <1>5, <1>6, LoggedCommit

\* The commits of update_loan and archive_loan, which write no history.
LEMMA UnloggedInv ==
  ASSUME IInv, blocked' \subseteq Loan, NEW w \in Session, CommitUnlogged(w)
  PROVE  IInv'
<1> PICK r : r = req[w]
  OBVIOUS
<1> PICK l : l = r.loan
  OBVIOUS
<1> PICK row : row = Moved(loans[l], r.from, r.to)
  OBVIOUS
<1>1. PICK op \in {"patch", "archive"} : Ready(w, op)
  BY DEF CommitUnlogged
<1>2. op \in Op /\ op # "delete"
  BY DEF Op
<1>3. /\ ~ Idle(w) /\ Loaded(r) /\ TypeOK /\ l \in Loan /\ loans[l] \in Row
      /\ r.from \in Status /\ r.to \in Status
  BY <1>1, <1>2, ReadyRequest
<1>4. Commit(w, l, row, history, outbox)
  BY DEF CommitUnlogged
<1>5. /\ Exists(l) /\ loans' = [loans EXCEPT ![l] = row]
      /\ history' = history /\ outbox' = outbox
      /\ req' \in [Session -> Request]
      /\ \A v \in Session : ~ Idle(v)' => ~ Idle(v) /\ req'[v] = req[v]
  BY <1>4, Ended DEF Commit
<1>6. r.to \in Unlogged
  BY <1>1, <1>3 DEF Loaded, Allowed, Ready, Unlogged
<1>7. row \in Row /\ row.status \in {loans[l].status, r.to}
  BY <1>3, MovedRow
<1>8. row.status \in Status /\ row.status # "none"
  BY <1>3, <1>5, <1>7 DEF Exists, Status
<1>9. Known(l, r.to) /\ Known(l, loans[l].status)
  BY <1>3, <1>5, <1>6 DEF Known, Had, Unlogged, Funded, Unarchivable, IInv, StatusKnown
<1> PICK s : s = row.status
  OBVIOUS
<1>10. Known(l, s)'
  BY <1>5, <1>7, <1>9 DEF Known, Had, Funded
<1>11. loans'[l].status = s
  BY <1>3, <1>5 DEF TypeOK
<1>12. \A e \in history'[l] :
         \/ e.from \in {Null} \cup Unlogged \/ e.late
         \/ \E f \in history'[l] : f.at < e.at /\ f.to = e.from
  BY <1>3, <1>5 DEF IInv, HistoryConnected, Unlogged
<1>13. Moves(outbox'[l]) = Moves({e \in history'[l] : e.from # Null})
  BY <1>3, <1>5 DEF IInv, Announced
<1>14. history' \in [Loan -> SUBSET Entry] /\ outbox' \in [Loan -> SUBSET Event]
  BY <1>3, <1>5 DEF TypeOK
<1> QED
  BY <1>3, <1>5, <1>7, <1>8, <1>10, <1>11, <1>12, <1>13, <1>14, StepInv

\* A deletion takes the history along: nothing is to be known of the loan.
LEMMA DeleteInv ==
  ASSUME IInv, blocked' \subseteq Loan, NEW w \in Session, CommitDelete(w)
  PROVE  IInv'
<1> PICK l : l = req[w].loan
  OBVIOUS
<1> PICK row : row = [status |-> "deleted", number |-> 0]
  OBVIOUS
<1>1. "delete" \in Op /\ Ready(w, "delete")
  BY DEF Op, CommitDelete
<1>2. ~ Idle(w) /\ TypeOK /\ l \in Loan
  BY <1>1, ReadyRequest
<1>3. row \in Row /\ row.status = "deleted"
  BY LoanAssumption, FS_CardinalityType DEF Row
<1>4. Commit(w, l, row, [history EXCEPT ![l] = {}], outbox)
  BY DEF CommitDelete
<1>5. /\ Exists(l) /\ loans' = [loans EXCEPT ![l] = row]
      /\ history' = [history EXCEPT ![l] = {}] /\ outbox' = outbox
      /\ req' \in [Session -> Request]
      /\ \A v \in Session : ~ Idle(v)' => ~ Idle(v) /\ req'[v] = req[v]
  BY <1>4, Ended DEF Commit
<1>6. /\ history' \in [Loan -> SUBSET Entry] /\ history'[l] = {}
      /\ \A k \in Loan \ {l} : history'[k] = history[k]
      /\ outbox' \in [Loan -> SUBSET Event]
  BY <1>2, <1>5 DEF TypeOK
<1>7. row.status \notin Status /\ row.status # "none"
  BY <1>3 DEF Status
<1> QED
  BY <1>2, <1>3, <1>5, <1>6, <1>7, StepInv

\* A loan that is created has had the status that its client chose.
LEMMA CreateInv ==
  ASSUME IInv, blocked' \subseteq Loan, NEW l \in Loan, NEW s \in Status,
         CreateLoan(l, s)
  PROVE  IInv'
<1> PICK first : first = EntryOf([from |-> Null, to |-> "new_draft", at |-> 0,
                                  late |-> FALSE])
  OBVIOUS
<1> PICK row : row = [loans[l] EXCEPT !.status = s]
  OBVIOUS
<1>1. TypeOK /\ InForce /\ HistoryConnected /\ Silent
  BY DEF IInv
<1>2. row \in Row /\ row.status = s
  BY <1>1 DEF TypeOK, Row
<1>3. loans' = [loans EXCEPT ![l] = row]
  BY <1>1 DEF CreateLoan, TypeOK
<1>4. first \in Entry /\ first.from = Null /\ first.to = "new_draft"
  BY StartsAssumption DEF EntryOf, Entry, Status
<1>5. history' = [history EXCEPT ![l] = {first}]
  BY DEF CreateLoan
<1>6. /\ history' \in [Loan -> SUBSET Entry]
      /\ history'[l] = {first}
      /\ \A k \in Loan \ {l} : history'[k] = history[k]
  BY <1>1, <1>4, <1>5 DEF TypeOK
<1>7. outbox' = outbox /\ req' = req /\ outbox'[l] = {}
  BY <1>1 DEF CreateLoan, Silent
<1>8. s \in {"new_draft"} \cup Overrides
  BY DEF CreateLoan
<1>9. "new_draft" \in Had(l)'
  BY <1>4, <1>6 DEF Had, Status
<1>10. Known(l, s)'
  BY <1>8, <1>9 DEF Known, Had, Unlogged, Funded, Unarchivable
<1>11. loans'[l].status = s
  BY <1>1, <1>2, <1>3 DEF TypeOK
<1>12. ~ Exists(l)
  BY DEF CreateLoan, Exists, Status
<1>13. \A v \in Session : ~ Idle(v) => req[v].loan # l
  BY <1>1 DEF InForce, Valid, CreateLoan
<1>14. row.status # "none"
  BY <1>2 DEF Status
<1>15. outbox' \in [Loan -> SUBSET Event] /\ req' \in [Session -> Request]
  BY <1>1, <1>7 DEF TypeOK
<1>16. \A v \in Session : ~ Idle(v)' => ~ Idle(v) /\ req'[v] = req[v]
  BY <1>7 DEF Idle
<1>17. Moves(outbox'[l]) = Moves({e \in history'[l] : e.from # Null})
  <2>1. {e \in history'[l] : e.from # Null} = {}
    BY <1>4, <1>6
  <2> QED
    BY <1>7, <2>1
<1> QED
  BY <1>2, <1>3, <1>4, <1>6, <1>7, <1>10, <1>11, <1>12, <1>13, <1>14, <1>15,
     <1>16, <1>17, StepInv

\* A handler that begins.
LEMMA HandlerInv ==
  ASSUME IInv, blocked' \subseteq Loan, NEW w \in Session, NEW l \in Loan,
         Handler(w, l)
  PROVE  IInv'
<1> USE BeginInv
<1>1. ASSUME NEW t \in Status, BeginTransition(w, l, t)
      PROVE  IInv'
  <2> PICK pc \in {"loaded", "ready"} : Begin(w, l, "transition", t, pc)
    BY <1>1 DEF BeginTransition
  <2>1. t \in Workflow[loans[l].status]
    BY <1>1 DEF BeginTransition, AllowedFrom
  <2> QED
    BY <2>1 DEF Allowed, Op
<1>2. CASE BeginSubmit(w, l)
  <2>1. Begin(w, l, "submit", "submitted", "loaded")
    BY <1>2 DEF BeginSubmit
  <2> QED
    BY <2>1 DEF Allowed, Op, Status
<1>3. ASSUME NEW t \in Overrides, BeginPost(w, l, t) \/ BeginPatch(w, l, t)
      PROVE  IInv'
  <2>1. PICK op \in {"post", "patch"} : Begin(w, l, op, t, "ready")
    BY <1>3 DEF BeginPost, BeginPatch
  <2> QED
    BY <2>1, OverridesAssumption DEF Allowed, Op
<1>4. CASE BeginArchive(w, l)
  <2>1. Begin(w, l, "archive", "archived", "ready")
    BY <1>4 DEF BeginArchive
  <2> QED
    BY <2>1 DEF Allowed, Op, Status
<1>5. CASE BeginDelete(w, l)
  <2>1. Begin(w, l, "delete", Null, "ready")
    BY <1>5 DEF BeginDelete
  <2> QED
    BY <2>1 DEF Allowed, Op
<1> QED
  BY <1>1, <1>2, <1>3, <1>4, <1>5, ArriveInv DEF Handler

\* A request that reads on, or ends without commit.
LEMMA ReadInv ==
  ASSUME IInv, blocked' \subseteq Loan, NEW w \in Session,
         ReadGate(w) \/ ReadCount(w) \/ Rollback(w)
  PROVE  IInv'
<1>1. UNCHANGED tables /\ req[w] \in Request /\ LoanCount \in 0 .. Cardinality(Loan)
  BY CountType DEF ReadGate, ReadCount, Rollback, IInv, TypeOK
<1>2. CASE Rollback(w)
  <2>1. NoRequest \in Request /\ NoRequest.pc = "idle"
    BY LoanAssumption, FS_CardinalityType, StartsAssumption
    DEF NoRequest, Request, Op
  <2> QED
    BY <1>1, <1>2, <2>1, RequestInv DEF Rollback
<1>3. CASE ReadGate(w) \/ ReadCount(w)
  <2>1. Valid(req[w])
    BY <1>3 DEF IInv, InForce, Idle, ReadGate, ReadCount
  <2>2. PICK n \in 0 .. Cardinality(Loan) :
          req' = [req EXCEPT ![w] = [req[w] EXCEPT !.pc = "ready", !.number = n]]
    <3>1. CASE ReadGate(w)
      <4>1. req[w].number \in 0 .. Cardinality(Loan)
        BY <1>1 DEF Request
      <4>2. [req[w] EXCEPT !.pc = "ready"] =
              [req[w] EXCEPT !.pc = "ready", !.number = req[w].number]
        BY <1>1 DEF Request
      <4> QED
        BY <3>1, <4>1, <4>2 DEF ReadGate
    <3>2. CASE ReadCount(w)
      <4> DEFINE n == IF req[w].number = 0 THEN LoanCount ELSE 0
      <4>1. n \in 0 .. Cardinality(Loan)
        BY <1>1, LoanAssumption, FS_CardinalityType
      <4>2. req' = [req EXCEPT ![w] = [req[w] EXCEPT !.pc = "ready", !.number = n]]
        BY <1>1, <3>2 DEF ReadCount, IInv, TypeOK, Request
      <4> QED
        BY <4>1, <4>2
    <3> QED
      BY <1>3, <3>1, <3>2
  <2> PICK r : r = [req[w] EXCEPT !.pc = "ready", !.number = n]
    OBVIOUS
  <2>3. r \in Request
    BY <1>1 DEF Request
  <2>4. /\ r.op = req[w].op /\ r.loan = req[w].loan /\ r.from = req[w].from
        /\ r.to = req[w].to /\ r.at = req[w].at /\ r.late = req[w].late
    BY <1>1 DEF Request
  <2>5. Valid(r)
    BY <1>3, <2>1, <2>4 DEF Valid, Loaded, Allowed, ReadGate, ReadCount
  <2> QED
    BY <1>1, <2>2, <2>3, <2>5, RequestInv
<1> QED
  BY <1>2, <1>3

\* Nothing exists at first.
LEMMA InitInv == Init => IInv
<1> SUFFICES ASSUME Init PROVE IInv
  OBVIOUS
<1> USE LoanAssumption, StartsAssumption, FS_CardinalityType DEF Init, TablesInit
<1>1. NoRow \in Row /\ NoRequest \in Request
  BY DEF NoRow, Row, NoRequest, Request, Op
<1>2. TypeOK
  BY <1>1 DEF TypeOK
<1>3. InForce
  BY DEF InForce, Idle, NoRequest
<1>4. StatusKnown /\ Announced
  BY DEF StatusKnown, Announced, Exists, NoRow, Status
<1>5. HistoryConnected /\ Silent
  BY DEF HistoryConnected, Silent
<1> QED
  BY <1>2, <1>3, <1>4, <1>5 DEF IInv

\* Every step keeps the invariant.
LEMMA NextInv == IInv /\ [Next]_vars => IInv'
<1> SUFFICES ASSUME IInv, [Next]_vars PROVE IInv'
  OBVIOUS
<1>0. blocked \subseteq Loan
  BY DEF IInv, TypeOK
<1>1. ASSUME NEW l \in Loan, NEW s \in Status, CreateLoan(l, s), UNCHANGED blocked
      PROVE  IInv'
  BY <1>0, <1>1, CreateInv
<1>2. ASSUME NEW w \in Session, NEW l \in Loan, Handler(w, l), UNCHANGED blocked
      PROVE  IInv'
  BY <1>0, <1>2, HandlerInv
<1>3. ASSUME NEW w \in Session, Step(w), UNCHANGED blocked
      PROVE  IInv'
  BY <1>0, <1>3, ReadInv, TransitionInv, SubmitInv, PostInv, UnloggedInv DEF Step
<1>4. ASSUME NEW w \in Session, CommitDelete(w),
             blocked' = blocked \ {req[w].loan}
      PROVE  IInv'
  BY <1>0, <1>4, DeleteInv
<1>5. ASSUME UNCHANGED <<tables, req>>, blocked' \subseteq Loan
      PROVE  IInv'
  <2>1. /\ loans' = loans /\ history' = history /\ outbox' = outbox
        /\ req' = req
    BY <1>5 DEF tables
  <2>2. TypeOK'
    BY <1>5, <2>1 DEF IInv, TypeOK
  <2>3. InForce' /\ StatusKnown'
    BY <2>1 DEF IInv, InForce, StatusKnown, Idle, Valid, Loaded, Allowed, Exists,
                Known, Had, Unlogged, Funded, Before
  <2>4. HistoryConnected' /\ Silent' /\ Announced'
    BY <2>1 DEF IInv, HistoryConnected, Silent, Announced, Moves, Exists
  <2> QED
    BY <2>2, <2>3, <2>4 DEF IInv
<1>6. ASSUME NEW B \in SUBSET Loan, Environment(B)
      PROVE  IInv'
  BY <1>5, <1>6 DEF Environment
<1>7. CASE UNCHANGED vars
  BY <1>0, <1>5, <1>7 DEF vars, tables
<1> QED
  BY <1>1, <1>2, <1>3, <1>4, <1>6, <1>7 DEF Next

-----------------------------------------------------------------------------
(* The theorems.                                                           *)

\* The invariant holds for ever.
LEMMA InvHolds == Spec => []IInv
BY InitInv, NextInv, PTL DEF Spec

\* The rows, the history, the outbox and the requests have their types, loan
\* numbers are never above the number of loans, and no request sets a status
\* that is none.
THEOREM TypeCorrect == Spec => []TypeOK
<1>1. IInv => TypeOK
  BY DEF IInv
<1> QED
  BY <1>1, InvHolds, PTL

\* However many sessions work on a loan, the history that the API serves, by
\* the start of the transactions, can be followed from the draft on: an entry
\* of loan_status_events leaves a status that an entry before it entered,
\* unless its request loaded the loan after a later one had committed.
THEOREM HistoryStaysConnected == Spec => []HistoryConnected
<1>1. IInv => HistoryConnected
  BY DEF IInv
<1> QED
  BY <1>1, InvHolds, PTL

\* No interleaving of transitions, submissions, patches and archivals gets a
\* loan past funding without the entry of its funding, unless clients set such
\* statuses directly.
THEOREM NothingPastFunding == Spec => []ThroughFunding
<1>1. IInv => ThroughFunding
  BY DEF IInv, StatusKnown, ThroughFunding, Known, Funded, Exists, Status,
         Unarchivable
<1> QED
  BY <1>1, InvHolds, PTL

\* The events that a loan's consumers hear are those of the moves in its
\* history, each written by the transaction that wrote the entry, whatever
\* requests overlap and whatever else clients set.
THEOREM OutboxInStep == Spec => []Announced
<1>1. IInv => Announced
  BY DEF IInv
<1> QED
  BY <1>1, InvHolds, PTL

=============================================================================
