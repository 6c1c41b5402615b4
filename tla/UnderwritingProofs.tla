------------------------- MODULE UnderwritingProofs -------------------------
(***************************************************************************)
(* Theorems about Underwriting, for all loans and exceptions, any number   *)
(* of sessions and logs of any length.                                     *)
(*                                                                         *)
(* Only races pass the gate because an open funding still sees what it     *)
(* saw, but for the exceptions in since: for that a stale request may set  *)
(* no status but the one of its own decision, and settle but not reopen a  *)
(* condition.  The composition implements LoanStatus because exceptions    *)
(* only ever name loans that exist: Linked, which holds because a link is  *)
(* checked at its commit and a deleted loan takes its exceptions           *)
(* along.                                                                  *)
(***************************************************************************)
EXTENDS Underwriting, FiniteSetTheorems, TLAPS

-----------------------------------------------------------------------------
(* The inductive invariant.                                                *)

LoanRow == [status: LS!Status \cup {"none", "deleted"}, number: Nat]

Req ==
  [pc: {"idle", "open", "loaded", "ready"}, op: LS!Op, loan: Loan \cup {Null},
   from: LS!Status \cup {Null}, to: LS!Status \cup {Null}, number: Nat,
   at: Nat, late: BOOLEAN]

UTypeOK ==
  /\ loans \in [Loan -> LoanRow]
  /\ req \in [Session -> Req]
  /\ exceptions \in [Exc -> EX!ExcRow]
  /\ decisions \in [Exc -> Seq(EX!Decision)]
  /\ work = [u \in Reviewer |-> work[u]]
  /\ since = [w \in Session |-> since[w]]

\* An open request is about a loan, and one that changes the status of the
\* loan sets one of the workflow.
Aims(r) ==
  /\ r.pc = "idle" => r.op = "none"
  /\ r.op # "none" => r.loan \in Loan
  /\ r.op \in {"transition", "post", "patch", "archive"} => r.to \in LS!Status

\* A decision is about an exception that was undecided when it was loaded, and
\* a settled condition is no longer pending.
Able(r) ==
  /\ r.op \in DOMAIN EX!DecisionStatus =>
       r.arg \in EX!Decision /\ r.seen.status \in EX!Decidable
  /\ r.op = "settle" => r.arg.to \in {"satisfied", "waived"}

\* An exception that is linked to a loan is linked to one that exists.
Linked ==
  \A e \in Exc :
    exceptions[e].loan # Null => LS!Exists(exceptions[e].loan)

UInv ==
  /\ UTypeOK
  /\ \A w \in Session : Aims(req[w])
  /\ \A u \in Reviewer : Able(work[u])
  /\ Linked
  /\ OnlyRacesPass

-----------------------------------------------------------------------------
(* What the steps are made of.                                             *)

\* The UPDATE of an exception keeps its loan.
LEMMA WrittenRow ==
  ASSUME NEW r \in EX!ExcRow, NEW seen, NEW s \in EX!Status, NEW b \in BOOLEAN
  PROVE  /\ EX!Written(r, seen, s, b) \in EX!ExcRow
         /\ EX!Written(r, seen, s, b).loan = r.loan
<1>1. PICK t, d : /\ t = IF s = seen.status THEN r.status ELSE s
                  /\ d = (r.decided \/ b)
  OBVIOUS
<1>2. EX!Written(r, seen, s, b) = [r EXCEPT !.status = t, !.decided = d]
  BY <1>1, Zenon DEF EX!Written
<1>3. t \in EX!Status \cup {"none", "deleted"} /\ d \in BOOLEAN
  BY <1>1 DEF EX!ExcRow
<1> QED
  BY <1>2, <1>3 DEF EX!ExcRow

\* The blocked loans depend on the exceptions and their decisions alone.
LEMMA BlockedStays == UNCHANGED <<exceptions, decisions>> => Blocked' = Blocked
BY DEF Blocked, EX!Pending, EX!Holds

\* The shapes of an idle session.
LEMMA Types ==
  /\ LS!NoRequest \in Req /\ Aims(LS!NoRequest)
  /\ LS!NoRequest.pc = "idle"
  /\ LS!LoanCount \in Nat
  /\ [status |-> "deleted", number |-> 0] \in LoanRow
<1>1. {l \in Loan : LS!Exists(l)} \subseteq Loan
  OBVIOUS
<1>0. Cardinality({l \in Loan : LS!Exists(l)}) \in Nat
  BY <1>1, LoanAssumption, FS_Subset, FS_CardinalityType
<1>2. LS!LoanCount \in Nat
  BY <1>0 DEF LS!LoanCount, LS!Cardinality, Cardinality
<1>3. LS!NoRequest \in Req /\ LS!NoRequest.pc = "idle"
  BY DEF LS!NoRequest, Req, LS!Op
<1>4. Aims(LS!NoRequest)
  BY DEF LS!NoRequest, Aims
<1>5. [status |-> "deleted", number |-> 0] \in LoanRow
  BY DEF LoanRow
<1> QED
  BY <1>2, <1>3, <1>4, <1>5

\* A row whose status is changed, perhaps.
LEMMA MovedRow ==
  ASSUME NEW r \in LoanRow, NEW s, NEW t \in LS!Status,
         r.status \in LS!Status
  PROVE  /\ LS!Moved(r, s, t) \in LoanRow
         /\ LS!Moved(r, s, t).status \in LS!Status
BY DEF LS!Moved, LoanRow

-----------------------------------------------------------------------------
(* Steps on the loans.                                                     *)

\* A new request.
LEMMA HandlerStep ==
  ASSUME UInv, NEW w \in Session, NEW l \in Loan, LS!Handler(w, l)
  PROVE  /\ UNCHANGED loans
         /\ \E r \in Req :
              /\ req' = [req EXCEPT ![w] = r]
              /\ Aims(r)
              /\ r.op = "transition" /\ r.to = "funded" => r.pc = "loaded"
<1> DEFINE Good ==
             /\ UNCHANGED loans
             /\ \E r \in Req :
                  /\ req' = [req EXCEPT ![w] = r]
                  /\ Aims(r)
                  /\ r.op = "transition" /\ r.to = "funded" => r.pc = "loaded"
<1>0. loans[l] \in LoanRow
  BY DEF UInv, UTypeOK
<1>1. ASSUME NEW op \in LS!Op, NEW to \in LS!Status \cup {Null},
             NEW pc \in {"loaded", "ready"}, LS!Begin(w, l, op, to, pc),
             op \in {"transition", "post", "patch", "archive"} => to \in LS!Status,
             op = "transition" /\ to = "funded" => pc = "loaded"
      PROVE  Good
  <2>0. PICK b \in BOOLEAN : b = \E h \in history[l] : h.at >= req[w].at
    OBVIOUS
  <2>1. PICK r : r = [pc |-> pc, op |-> op, loan |-> l, from |-> loans[l].status,
                      to |-> to, number |-> loans[l].number, at |-> req[w].at,
                      late |-> b]
    OBVIOUS
  <2>2. /\ req' = [req EXCEPT ![w] = r] /\ UNCHANGED loans
        /\ loans[l].status \in LS!Status
    BY <1>1, <2>0, <2>1 DEF LS!Begin, LS!tables, LS!Exists
  <2>3. r \in Req
    <3>1. req[w] \in Req
      BY DEF UInv, UTypeOK
    <3>2. req[w].at \in Nat
      BY <3>1 DEF Req
    <3>3. /\ loans[l].status \in LS!Status \cup {Null} /\ loans[l].number \in Nat
          /\ pc \in {"idle", "open", "loaded", "ready"} /\ l \in Loan \cup {Null}
      BY <1>0, <2>2 DEF LoanRow
    <3> QED
      BY <2>1, <3>2, <3>3 DEF Req
  <2>4. Aims(r) /\ (r.op = "transition" /\ r.to = "funded" => r.pc = "loaded")
    BY <1>1, <2>1 DEF Aims
  <2> QED
    BY <2>2, <2>3, <2>4
<1>2. {"transition", "submit", "post", "patch", "archive", "delete"} \subseteq LS!Op
  BY DEF LS!Op
<1>3. "archived" \in LS!Status /\ "submitted" \in LS!Status
  BY DEF LS!Status
<1>4. ASSUME NEW t \in LS!Status, LS!BeginTransition(w, l, t) PROVE Good
  <2>1. LS!Begin(w, l, "transition", t, IF t = "funded" THEN "loaded" ELSE "ready")
    BY <1>4 DEF LS!BeginTransition
  <2> QED
    BY <1>1, <1>2, <2>1
<1>5. CASE LS!BeginSubmit(w, l)
  BY <1>1, <1>2, <1>3, <1>5 DEF LS!BeginSubmit
<1>6. ASSUME NEW t \in Overrides, LS!BeginPost(w, l, t) \/ LS!BeginPatch(w, l, t)
      PROVE  Good
  <2>1. t \in LS!Status
    BY OverridesAssumption
  <2>2. \/ LS!Begin(w, l, "post", t, "ready")
        \/ LS!Begin(w, l, "patch", t, "ready")
    BY <1>6 DEF LS!BeginPost, LS!BeginPatch
  <2> QED
    BY <1>1, <1>2, <2>1, <2>2
<1>7. CASE LS!BeginArchive(w, l)
  BY <1>1, <1>2, <1>3, <1>7 DEF LS!BeginArchive
<1>8. CASE LS!BeginDelete(w, l)
  BY <1>1, <1>2, <1>8 DEF LS!BeginDelete
<1>9. ASSUME NEW n \in 1 .. MaxStarts, LS!Arrive(w, l, n) PROVE Good
  <2>1. PICK r : r = [req[w] EXCEPT !.pc = "open", !.loan = l, !.at = n]
    OBVIOUS
  <2>2. /\ req \in [Session -> Req] /\ req[w] \in Req /\ Aims(req[w])
        /\ n \in Nat
    BY StartsAssumption DEF UInv, UTypeOK
  <2>3. req' = [req EXCEPT ![w] = r] /\ UNCHANGED loans /\ req[w].pc = "idle"
    BY <1>9, <2>1, <2>2 DEF LS!Arrive, LS!Idle, LS!tables
  <2>4. /\ r \in Req /\ r.op = req[w].op /\ r.to = req[w].to
        /\ r.loan = l /\ r.pc = "open"
    BY <2>1, <2>2 DEF Req
  <2>5. Aims(r)
    BY <2>2, <2>4 DEF Aims
  <2>6. r.op # "transition"
    BY <2>2, <2>3, <2>4 DEF Aims
  <2> QED
    BY <2>3, <2>4, <2>5, <2>6
<1> QED
  BY <1>4, <1>5, <1>6, <1>7, <1>8, <1>9 DEF LS!Handler

\* A step of a request: existing loans stay, and a funding that gets ready is
\* not blocked.
LEMMA StepStep ==
  ASSUME UInv, NEW w \in Session, LS!Step(w)
  PROVE  /\ loans' \in [Loan -> LoanRow]
         /\ \A l \in Loan : LS!Exists(l) => LS!Exists(l)'
         /\ \E r \in Req :
              /\ req' = [req EXCEPT ![w] = r]
              /\ Aims(r)
              /\ r.pc = "ready" /\ r.op = "transition" => r.loan \notin Blocked
<1> DEFINE Good ==
             /\ loans' \in [Loan -> LoanRow]
             /\ \A l \in Loan : LS!Exists(l) => LS!Exists(l)'
             /\ \E r \in Req :
                  /\ req' = [req EXCEPT ![w] = r]
                  /\ Aims(r)
                  /\ r.pc = "ready" /\ r.op = "transition" => r.loan \notin Blocked
<1>1. /\ loans \in [Loan -> LoanRow] /\ req \in [Session -> Req]
      /\ req[w] \in Req /\ Aims(req[w])
  BY DEF UInv, UTypeOK
<1>2. ASSUME UNCHANGED loans, NEW r \in Req, req' = [req EXCEPT ![w] = r], Aims(r),
             r.pc = "ready" /\ r.op = "transition" => r.loan \notin Blocked
      PROVE  Good
  BY <1>1, <1>2 DEF LS!Exists
<1>3. ASSUME NEW row \in LoanRow, NEW log, NEW evs, row.status \in LS!Status,
             LS!Commit(w, req[w].loan, row, log, evs)
      PROVE  Good
  <2>1. /\ loans' = [loans EXCEPT ![req[w].loan] = row]
        /\ req' = [req EXCEPT ![w] = LS!NoRequest]
    BY <1>3 DEF LS!Commit
  <2>2. loans' \in [Loan -> LoanRow] /\ \A l \in Loan : LS!Exists(l) => LS!Exists(l)'
    BY <1>1, <1>3, <2>1 DEF LS!Exists
  <2> QED
    BY <2>1, <2>2, Types
<1>4. CASE LS!ReadGate(w)
  <2>1. PICK r : r = [req[w] EXCEPT !.pc = "ready"]
    OBVIOUS
  <2>2. req' = [req EXCEPT ![w] = r] /\ UNCHANGED loans
    BY <1>4, <2>1 DEF LS!ReadGate, LS!tables
  <2>3. /\ r \in Req /\ r.op = req[w].op /\ r.loan = req[w].loan
        /\ r.to = req[w].to /\ r.pc = "ready"
    BY <1>1, <2>1 DEF Req
  <2>4. Aims(r) /\ r.loan \notin Blocked
    BY <1>1, <1>4, <2>3 DEF LS!ReadGate, Aims
  <2> QED
    BY <1>2, <2>2, <2>3, <2>4
<1>5. CASE LS!ReadCount(w)
  <2>1. PICK n : n = IF req[w].number = 0 THEN LS!LoanCount ELSE 0
    OBVIOUS
  <2>2. n \in Nat
    BY <2>1, Types
  <2>3. PICK r : r = [req[w] EXCEPT !.pc = "ready", !.number = n]
    OBVIOUS
  <2>4. req' = [req EXCEPT ![w] = r] /\ UNCHANGED loans /\ req[w].op = "submit"
    BY <1>1, <1>5, <2>1, <2>3 DEF LS!ReadCount, LS!tables, Req
  <2>5. /\ r \in Req /\ r.op = req[w].op /\ r.loan = req[w].loan
        /\ r.to = req[w].to /\ r.pc = "ready"
    BY <1>1, <2>2, <2>3 DEF Req
  <2>6. Aims(r) /\ r.op # "transition"
    BY <1>1, <2>4, <2>5 DEF Aims
  <2> QED
    BY <1>2, <2>4, <2>5, <2>6
<1>6. CASE LS!Rollback(w)
  BY <1>2, <1>6, Types DEF LS!Rollback, LS!tables
<1>7. CASE LS!CommitTransition(w) \/ LS!CommitPost(w) \/ LS!CommitUnlogged(w)
  <2>1. PICK log, evs :
          LS!Commit(w, req[w].loan,
                    LS!Moved(loans[req[w].loan], req[w].from, req[w].to), log, evs)
    BY <1>7 DEF LS!CommitTransition, LS!CommitPost, LS!CommitUnlogged
  <2>2. req[w].to \in LS!Status /\ req[w].loan \in Loan
    BY <1>1, <1>7
       DEF Aims, LS!CommitTransition, LS!CommitPost, LS!CommitUnlogged, LS!Ready
  <2>3. loans[req[w].loan] \in LoanRow /\ loans[req[w].loan].status \in LS!Status
    BY <1>1, <2>1, <2>2 DEF LS!Commit, LS!Exists
  <2> QED
    BY <1>3, <2>1, <2>2, <2>3, MovedRow
<1>8. CASE LS!CommitSubmit(w)
  <2>1. PICK moved : moved = LS!Moved(loans[req[w].loan], req[w].from, "submitted")
    OBVIOUS
  <2>2. PICK n : n = IF req[w].number = 0 THEN moved.number ELSE req[w].number
    OBVIOUS
  <2>3. PICK log, evs :
          LS!Commit(w, req[w].loan, [moved EXCEPT !.number = n], log, evs)
    BY <1>8, <2>1, <2>2 DEF LS!CommitSubmit
  <2>4. req[w].loan \in Loan /\ "submitted" \in LS!Status /\ req[w].number \in Nat
    BY <1>1, <1>8 DEF Aims, LS!CommitSubmit, LS!Ready, LS!Status, Req
  <2>5. loans[req[w].loan] \in LoanRow /\ loans[req[w].loan].status \in LS!Status
    BY <1>1, <2>3, <2>4 DEF LS!Commit, LS!Exists
  <2>6. moved \in LoanRow /\ moved.status \in LS!Status
    BY <2>1, <2>4, <2>5, MovedRow
  <2>7. n \in Nat
    BY <2>2, <2>4, <2>6 DEF LoanRow
  <2>8. /\ [moved EXCEPT !.number = n] \in LoanRow
        /\ [moved EXCEPT !.number = n].status \in LS!Status
    BY <2>6, <2>7 DEF LoanRow
  <2> QED
    BY <1>3, <2>3, <2>8
<1> QED
  BY <1>4, <1>5, <1>6, <1>7, <1>8 DEF LS!Step

-----------------------------------------------------------------------------
(* Steps on the exceptions.                                                *)

\* What a removal leaves has the same shape.
LEMMA RemoveTypes ==
  ASSUME exceptions \in [Exc -> EX!ExcRow], NEW gone, EX!Remove(gone)
  PROVE  exceptions' \in [Exc -> EX!ExcRow]
<1>1. EX!NoExc("deleted") \in EX!ExcRow
  BY DEF EX!NoExc, EX!ExcRow
<1> QED
  BY <1>1 DEF EX!Remove

\* And is linked as before.
LEMMA RemoveKeeps ==
  ASSUME UInv, NEW gone, EX!Remove(gone),
         \A l \in Loan : LS!Exists(l) => LS!Exists(l)'
  PROVE  exceptions' \in [Exc -> EX!ExcRow] /\ Linked'
<1>1. exceptions \in [Exc -> EX!ExcRow]
  BY DEF UInv, UTypeOK
<1>2. ASSUME NEW e \in Exc, NEW k, k = exceptions'[e].loan, k # Null
      PROVE  LS!Exists(k)'
  <2>1. EX!NoExc("deleted").loan = Null
    BY DEF EX!NoExc
  <2>2. k = exceptions[e].loan
    BY <1>2, <2>1 DEF EX!Remove
  <2>3. LS!Exists(k) /\ k \in Loan
    BY <1>1, <1>2, <2>2 DEF UInv, Linked, EX!ExcRow
  <2> QED
    BY <2>3
<1> QED
  BY <1>1, <1>2, RemoveTypes DEF Linked

\* Its decisions keep their shapes, and it makes no exception block a loan.
LEMMA RemoveLeaves ==
  ASSUME UInv, NEW gone, EX!Remove(gone)
  PROVE  /\ decisions' \in [Exc -> Seq(EX!Decision)]
         /\ \A e \in Exc, l \in Loan : EX!Holds(e, l)' => EX!Holds(e, l)
<1>1. decisions \in [Exc -> Seq(EX!Decision)] /\ <<>> \in Seq(EX!Decision)
  BY DEF UInv, UTypeOK
<1>2. decisions' \in [Exc -> Seq(EX!Decision)]
  BY <1>1 DEF EX!Remove
<1>3. ASSUME NEW e \in Exc, NEW l \in Loan, EX!Holds(e, l)' PROVE EX!Holds(e, l)
  <2>1. CASE e \in gone
    <3>1. exceptions'[e].loan = Null
      BY <2>1 DEF EX!Remove, EX!NoExc
    <3> QED
      BY <1>3, <3>1, NullAssumption DEF EX!Holds
  <2>2. CASE e \notin gone
    <3>1. exceptions'[e] = exceptions[e] /\ decisions'[e] = decisions[e]
      BY <2>2 DEF EX!Remove
    <3> QED
      BY <1>3, <3>1 DEF EX!Holds
  <2> QED
    BY <2>1, <2>2
<1> QED
  BY <1>2, <1>3

\* A step on the exceptions keeps their shapes and links only loans that exist.
LEMMA ExceptionKeeps ==
  ASSUME UInv, EX!XStep, UNCHANGED loans
  PROVE  exceptions' \in [Exc -> EX!ExcRow] /\ Linked'
<1>1. exceptions \in [Exc -> EX!ExcRow]
  BY DEF UInv, UTypeOK
<1>2. ASSUME UNCHANGED exceptions PROVE exceptions' \in [Exc -> EX!ExcRow] /\ Linked'
  BY <1>1, <1>2 DEF UInv, Linked, LS!Exists
<1>3. ASSUME NEW x \in Exc, NEW row \in EX!ExcRow,
             exceptions' = [exceptions EXCEPT ![x] = row],
             row.loan # Null =>
               row.loan = exceptions[x].loan \/ LS!Exists(row.loan)
      PROVE  exceptions' \in [Exc -> EX!ExcRow] /\ Linked'
  <2>1. exceptions' \in [Exc -> EX!ExcRow]
    BY <1>1, <1>3
  <2>2. ASSUME NEW e \in Exc, NEW k, k = exceptions'[e].loan, k # Null
        PROVE  LS!Exists(k)'
    <3>1. exceptions'[e] = IF e = x THEN row ELSE exceptions[e]
      BY <1>1, <1>3
    <3>2. LS!Exists(k)
      BY <1>3, <2>2, <3>1 DEF UInv, Linked
    <3> QED
      BY <3>2 DEF LS!Exists
  <2> QED
    BY <2>1, <2>2 DEF Linked
<1>4. ASSUME NEW e \in Exc, NEW l, EX!CreateException(e, l), l \in Loan \cup {Null}
      PROVE  exceptions' \in [Exc -> EX!ExcRow] /\ Linked'
  <2>1. PICK row : row = [exceptions[e] EXCEPT !.status = "open", !.loan = l]
    OBVIOUS
  <2>2. exceptions' = [exceptions EXCEPT ![e] = row]
    BY <1>4, <2>1 DEF EX!CreateException
  <2>3. "open" \in EX!Status
    BY DEF EX!Status
  <2>4. row \in EX!ExcRow /\ row.loan = l
    BY <1>1, <1>4, <2>1, <2>3 DEF EX!ExcRow
  <2>5. row.loan # Null => LS!Exists(row.loan)
    <3>1. l # Null => loans[l].status \notin {"none", "deleted"} /\ l \in Loan
      BY <1>4 DEF EX!CreateException
    <3>2. l # Null => loans[l] \in LoanRow
      BY <3>1 DEF UInv, UTypeOK
    <3> QED
      BY <2>4, <3>1, <3>2 DEF LS!Exists, LoanRow
  <2> QED
    BY <1>3, <2>2, <2>4, <2>5
<1>5. ASSUME NEW u \in Reviewer, EX!CommitMove(u)
      PROVE  exceptions' \in [Exc -> EX!ExcRow] /\ Linked'
  <2>1. PICK x, seen, s :
          /\ exceptions' = [exceptions EXCEPT
                              ![x] = EX!Written(exceptions[x], seen, s, FALSE)]
          /\ s \in EX!Status
    <3>1. \A ev \in DOMAIN EX!Moves : EX!Moves[ev].to \in EX!Status
      BY DEF EX!Moves, EX!Status
    <3> QED
      BY <1>5, <3>1 DEF EX!CommitMove
  <2>2. CASE x \in Exc
    BY <1>1, <1>3, <2>1, <2>2, WrittenRow
  <2>3. CASE x \notin Exc
    <3>1. UNCHANGED exceptions
      BY <1>1, <2>1, <2>3
    <3> QED
      BY <1>2, <3>1
  <2> QED
    BY <2>2, <2>3
<1>6. ASSUME NEW u \in Reviewer, EX!CommitDecide(u)
      PROVE  exceptions' \in [Exc -> EX!ExcRow] /\ Linked'
  <2>1. PICK x, seen, s, b :
          /\ exceptions' = [exceptions EXCEPT
                              ![x] = EX!Written(exceptions[x], seen, s, b)]
          /\ s \in EX!Status
          /\ b \in BOOLEAN
    <3>1. \A d \in DOMAIN EX!DecisionStatus : EX!DecisionStatus[d] \in EX!Status
      BY DEF EX!Status
    <3>2. PICK b : b = (work[u].op \in EX!Terminal)
      OBVIOUS
    <3>3. exceptions' = [exceptions EXCEPT ![work[u].exc] =
                           EX!Written(exceptions[work[u].exc], work[u].seen,
                                      EX!DecisionStatus[work[u].op], b)]
      BY <1>6, <3>2 DEF EX!CommitDecide
    <3>4. EX!DecisionStatus[work[u].op] \in EX!Status
      BY <1>6, <3>1 DEF EX!CommitDecide
    <3>5. b \in BOOLEAN
      BY <3>2
    <3> QED
      BY <3>3, <3>4, <3>5, Zenon
  <2>2. CASE x \in Exc
    BY <1>1, <1>3, <2>1, <2>2, WrittenRow
  <2>3. CASE x \notin Exc
    <3>1. UNCHANGED exceptions
      BY <1>1, <2>1, <2>3
    <3> QED
      BY <1>2, <3>1
  <2> QED
    BY <2>2, <2>3
<1>7. ASSUME NEW u \in Reviewer, EX!CommitLink(u)
      PROVE  exceptions' \in [Exc -> EX!ExcRow] /\ Linked'
  <2>1. PICK x, l : /\ exceptions' = [exceptions EXCEPT ![x].loan = l]
                    /\ l \in Loan /\ loans[l].status \notin {"none", "deleted"}
    BY <1>7 DEF EX!CommitLink
  <2>2. LS!Exists(l)
    BY <2>1 DEF UInv, UTypeOK, LoanRow, LS!Exists
  <2>3. CASE x \in Exc
    <3>1. PICK row : row = [exceptions[x] EXCEPT !.loan = l]
      OBVIOUS
    <3>2. row \in EX!ExcRow /\ row.loan = l
      BY <1>1, <2>1, <2>3, <3>1 DEF EX!ExcRow
    <3>3. exceptions' = [exceptions EXCEPT ![x] = row]
      BY <2>1, <3>1
    <3> QED
      BY <1>3, <2>2, <2>3, <3>2, <3>3
  <2>4. CASE x \notin Exc
    <3>1. UNCHANGED exceptions
      BY <1>1, <2>1, <2>4
    <3> QED
      BY <1>2, <3>1
  <2> QED
    BY <2>3, <2>4
<1>8. ASSUME NEW u \in Reviewer, EX!CommitDeleteException(u)
      PROVE  exceptions' \in [Exc -> EX!ExcRow] /\ Linked'
  <2>1. \A l \in Loan : LS!Exists(l) => LS!Exists(l)'
    BY DEF LS!Exists
  <2> QED
    BY <1>8, <2>1, RemoveKeeps DEF EX!CommitDeleteException
<1>9. \/ UNCHANGED exceptions
      \/ \E e \in Exc, l \in Loan \cup {Null} : EX!CreateException(e, l)
      \/ \E u \in Reviewer :
           \/ EX!CommitMove(u) \/ EX!CommitDecide(u) \/ EX!CommitLink(u)
           \/ EX!CommitDeleteException(u)
  <2>1. ASSUME NEW u \in Reviewer, NEW e \in Exc, EX!Review(u, e)
        PROVE  UNCHANGED exceptions
    BY <2>1 DEF EX!Review, EX!BeginMove, EX!BeginDecide, EX!BeginSettle,
                EX!BeginLink, EX!BeginDeleteException, EX!Begin, EX!xtables
  <2>2. ASSUME NEW u \in Reviewer, EX!CommitSettle(u) \/ EX!Abandon(u)
        PROVE  UNCHANGED exceptions
    BY <2>2 DEF EX!CommitSettle, EX!Abandon, EX!xtables
  <2> QED
    BY <2>1, <2>2 DEF EX!XStep, EX!ReviewCommit
<1> QED
  BY <1>2, <1>4, <1>5, <1>6, <1>7, <1>8, <1>9

\* The requests keep to what they were allowed to do.
LEMMA WorkKeeps ==
  ASSUME UInv, EX!XStep
  PROVE  /\ work' = [u \in Reviewer |-> work'[u]]
         /\ \A u \in Reviewer : Able(work'[u])
<1>1. work = [u \in Reviewer |-> work[u]] /\ \A u \in Reviewer : Able(work[u])
  BY DEF UInv, UTypeOK
<1> DEFINE Good == /\ work' = [u \in Reviewer |-> work'[u]]
                   /\ \A u \in Reviewer : Able(work'[u])
<1>2. ASSUME NEW u, NEW r, work' = [work EXCEPT ![u] = r], Able(r) PROVE Good
  <2>1. work' = [v \in Reviewer |-> IF v = u THEN r ELSE work[v]]
    BY <1>1, <1>2
  <2> QED
    BY <1>1, <1>2, <2>1
<1>3. ASSUME work' = work PROVE Good
  BY <1>1, <1>3
<1>4. ASSUME NEW u \in Reviewer, EX!Done(u) PROVE Good
  <2>1. Able(EX!NoWork)
    BY DEF Able, EX!NoWork, EX!DecisionStatus
  <2> QED
    BY <1>2, <1>4, <2>1 DEF EX!Done
<1>5. ASSUME NEW u \in Reviewer, NEW e \in Exc, EX!Review(u, e) PROVE Good
  <2>1. ASSUME NEW op, NEW arg, EX!Begin(u, e, op, arg),
               op \in DOMAIN EX!DecisionStatus =>
                 arg \in EX!Decision /\ exceptions[e].status \in EX!Decidable,
               op = "settle" => arg.to \in {"satisfied", "waived"}
        PROVE  Good
    <3>1. PICK r : r = [op |-> op, exc |-> e, seen |-> exceptions[e], arg |-> arg]
      OBVIOUS
    <3>2. Able(r)
      BY <2>1, <3>1 DEF Able
    <3> QED
      BY <1>2, <2>1, <3>1, <3>2 DEF EX!Begin
  <2>2. ASSUME NEW ev \in DOMAIN EX!Moves, EX!BeginMove(u, e, ev) PROVE Good
    <3>1. ev \notin DOMAIN EX!DecisionStatus /\ ev # "settle"
      BY DEF EX!Moves, EX!DecisionStatus
    <3> QED
      BY <2>1, <2>2, <3>1 DEF EX!BeginMove
  <2>3. ASSUME NEW d \in EX!Decision, EX!BeginDecide(u, e, d) PROVE Good
    <3>1. d.type \in DOMAIN EX!DecisionStatus
      BY DEF EX!Decision
    <3>2. d.type # "settle"
      BY <3>1 DEF EX!DecisionStatus
    <3> QED
      BY <2>1, <2>3, <3>2 DEF EX!BeginDecide
  <2>4. ASSUME NEW i, NEW to, EX!BeginSettle(u, e, i, to) PROVE Good
    <3>1. PICK a : a = [nr |-> i, to |-> to]
      OBVIOUS
    <3>2. a.to \in {"satisfied", "waived"} /\ EX!Begin(u, e, "settle", a)
      BY <2>4, <3>1 DEF EX!BeginSettle
    <3>3. "settle" \notin DOMAIN EX!DecisionStatus
      BY DEF EX!DecisionStatus
    <3> QED
      BY <2>1, <3>2, <3>3
  <2>5. {"link", "delete"} \cap DOMAIN EX!DecisionStatus = {}
    BY DEF EX!DecisionStatus
  <2>6. ASSUME NEW l, EX!BeginLink(u, e, l) PROVE Good
    BY <2>1, <2>5, <2>6 DEF EX!BeginLink
  <2>7. CASE EX!BeginDeleteException(u, e)
    BY <2>1, <2>5, <2>7 DEF EX!BeginDeleteException
  <2> QED
    BY <1>5, <2>2, <2>3, <2>4, <2>6, <2>7 DEF EX!Review
<1>6. ASSUME NEW u \in Reviewer, EX!ReviewCommit(u) \/ EX!Abandon(u) PROVE Good
  BY <1>4, <1>6 DEF EX!ReviewCommit, EX!Abandon, EX!CommitMove, EX!CommitDecide,
                    EX!CommitSettle, EX!CommitLink, EX!CommitDeleteException
<1>7. ASSUME NEW e \in Exc, NEW l, EX!CreateException(e, l) PROVE Good
  BY <1>3, <1>7 DEF EX!CreateException
<1> QED
  BY <1>5, <1>6, <1>7 DEF EX!XStep

\* A settled condition: the decisions keep their shapes, and what is required
\* and pending was so.
LEMMA SettleKeeps ==
  ASSUME UInv, NEW u \in Reviewer, EX!CommitSettle(u)
  PROVE  /\ decisions' \in [Exc -> Seq(EX!Decision)]
         /\ \A e \in Exc, l \in Loan : EX!Holds(e, l)' => EX!Holds(e, l)
<1>1. /\ work[u].arg.to \in {"satisfied", "waived"}
      /\ decisions' = [decisions EXCEPT ![work[u].exc][work[u].arg.nr].condition =
                                        work[u].arg.to]
      /\ exceptions' = exceptions
  BY DEF EX!CommitSettle, UInv, Able
<1> DEFINE to == work[u].arg.to
           x == work[u].exc
           n == work[u].arg.nr
<1>2. /\ to \in {"satisfied", "waived"}
      /\ decisions' = [decisions EXCEPT ![x][n].condition = to]
      /\ exceptions' = exceptions
  BY <1>1
<1> HIDE DEF to, x, n
<1>3. decisions \in [Exc -> Seq(EX!Decision)]
  BY DEF UInv, UTypeOK
<1>4. ASSUME NEW d \in EX!Decision
      PROVE  /\ [d EXCEPT !.condition = to] \in EX!Decision
             /\ [d EXCEPT !.condition = to].condition # "pending"
  BY <1>2 DEF EX!Decision, EX!ConditionStatus
<1>5. CASE x \in Exc
  <2>1. PICK s \in Seq(EX!Decision) : s = decisions[x]
    BY <1>3, <1>5
  <2>2. Len(s) \in Nat /\ DOMAIN s = 1 .. Len(s) /\ s \in [1 .. Len(s) -> EX!Decision]
    OBVIOUS
  <2>3. PICK t : t = [s EXCEPT ![n].condition = to]
    OBVIOUS
  <2>4. decisions' = [decisions EXCEPT ![x] = t]
    BY <1>2, <1>3, <1>5, <2>1, <2>3
  <2>5. CASE n \in DOMAIN s
    <3>1. PICK d \in EX!Decision : d = s[n]
      BY <2>2, <2>5
    <3>2. PICK c \in EX!Decision : /\ c = [d EXCEPT !.condition = to]
                                   /\ c.condition # "pending"
      BY <1>4
    <3>3. t = [s EXCEPT ![n] = c]
      BY <2>3, <3>1, <3>2
    <3>4. /\ t \in [1 .. Len(s) -> EX!Decision] /\ DOMAIN t = DOMAIN s
          /\ \A i \in DOMAIN s : t[i] = s[i] \/ t[i].condition # "pending"
      BY <2>2, <3>2, <3>3
    <3>5. t \in Seq(EX!Decision)
      BY <2>2, <3>4
    <3>6. decisions' \in [Exc -> Seq(EX!Decision)]
      BY <1>3, <2>4, <3>5
    <3>7. ASSUME NEW e \in Exc, NEW l \in Loan, EX!Holds(e, l)'
          PROVE  EX!Holds(e, l)
      <4>1. PICK i \in DOMAIN decisions'[e] :
              /\ exceptions[e].loan = l
              /\ exceptions[e].status = "approved_with_conditions"
              /\ decisions'[e][i].required /\ decisions'[e][i].condition = "pending"
        BY <1>2, <3>7 DEF EX!Holds
      <4>2. CASE e = x
        <5>1. decisions'[e] = t
          BY <1>3, <2>4, <4>2
        <5>2. i \in DOMAIN s /\ t[i] = s[i]
          BY <3>4, <4>1, <5>1
        <5> QED
          BY <2>1, <4>1, <4>2, <5>1, <5>2 DEF EX!Holds
      <4>3. CASE e # x
        <5>1. decisions'[e] = decisions[e]
          BY <1>3, <2>4, <4>3
        <5> QED
          BY <4>1, <5>1 DEF EX!Holds
      <4> QED
        BY <4>2, <4>3
    <3> QED
      BY <3>6, <3>7
  <2>6. CASE n \notin DOMAIN s
    <3>1. t = s
      BY <2>2, <2>3, <2>6
    <3>2. decisions' = decisions
      BY <1>3, <2>1, <2>4, <3>1
    <3> QED
      BY <1>2, <1>3, <3>2 DEF EX!Holds
  <2> QED
    BY <2>5, <2>6
<1>6. CASE x \notin Exc
  <2>1. decisions' = decisions
    BY <1>2, <1>3, <1>6
  <2> QED
    BY <1>2, <1>3, <2>1 DEF EX!Holds
<1> QED
  BY <1>5, <1>6

\* An UPDATE that sets a status which does not block a loan, or leaves it alone.
LEMMA HarmlessUpdate ==
  ASSUME UInv, NEW x, NEW seen, NEW s, NEW b,
         exceptions' = [exceptions EXCEPT ![x] = EX!Written(@, seen, s, b)],
         s # "approved_with_conditions",
         NEW e \in Exc, NEW l \in Loan, EX!Holds(e, l)'
  PROVE  /\ exceptions[e].loan = l
         /\ exceptions[e].status = "approved_with_conditions"
<1>1. exceptions \in [Exc -> EX!ExcRow] /\ exceptions[e] \in EX!ExcRow
  BY DEF UInv, UTypeOK
<1>2. /\ exceptions'[e].loan = l
      /\ exceptions'[e].status = "approved_with_conditions"
  BY DEF EX!Holds
<1>3. CASE e = x
  <2>1. exceptions'[e] = EX!Written(exceptions[e], seen, s, b)
    BY <1>1, <1>3
  <2>2. PICK q, g : /\ q = IF s = seen.status THEN exceptions[e].status ELSE s
                    /\ g = (exceptions[e].decided \/ b)
    OBVIOUS
  <2>3. exceptions'[e] = [exceptions[e] EXCEPT !.status = q, !.decided = g]
    BY <2>1, <2>2, Zenon DEF EX!Written
  <2>4. exceptions'[e].status = q /\ exceptions'[e].loan = exceptions[e].loan
    BY <1>1, <2>3 DEF EX!ExcRow
  <2> QED
    BY <1>2, <2>2, <2>4
<1>4. CASE e # x
  <2>1. exceptions'[e] = exceptions[e]
    BY <1>1, <1>4
  <2> QED
    BY <1>2, <1>4, <2>1
<1> QED
  BY <1>3, <1>4

\* A decision is appended to those of its exception.
LEMMA DecideKeeps ==
  ASSUME UInv, NEW u \in Reviewer, EX!CommitDecide(u)
  PROVE  /\ decisions' \in [Exc -> Seq(EX!Decision)]
         /\ \A e \in Exc : e # work[u].exc => decisions'[e] = decisions[e]
<1>1. PICK d, x :
        /\ d \in EX!Decision
        /\ decisions' = [decisions EXCEPT ![x] = Append(@, d)] /\ x = work[u].exc
  BY DEF EX!CommitDecide, UInv, Able
<1>2. decisions \in [Exc -> Seq(EX!Decision)]
  BY DEF UInv, UTypeOK
<1>3. CASE x \in Exc
  <2>1. PICK t \in Seq(EX!Decision) : t = decisions[x]
    BY <1>2, <1>3
  <2>2. Append(t, d) \in Seq(EX!Decision)
    BY <1>1
  <2>3. decisions' = [decisions EXCEPT ![x] = Append(t, d)]
    BY <1>1, <2>1
  <2> QED
    BY <1>1, <1>2, <2>2, <2>3
<1>4. CASE x \notin Exc
  BY <1>1, <1>2, <1>4
<1> QED
  BY <1>3, <1>4

\* Only a conditional approval, a request for information or a link makes an
\* exception block a loan.
LEMMA OnlyBlockers ==
  ASSUME UInv, EX!XStep
  PROVE  /\ decisions' \in [Exc -> Seq(EX!Decision)]
         /\ \A e \in Exc, l \in Loan :
              EX!Holds(e, l)' => EX!Holds(e, l) \/ e \in Blocking
<1> DEFINE Good == /\ decisions' \in [Exc -> Seq(EX!Decision)]
                   /\ \A e \in Exc, l \in Loan :
                        EX!Holds(e, l)' => EX!Holds(e, l) \/ e \in Blocking
<1>1. /\ decisions \in [Exc -> Seq(EX!Decision)]
      /\ exceptions \in [Exc -> EX!ExcRow]
      /\ work = [u \in Reviewer |-> work[u]]
  BY DEF UInv, UTypeOK
<1>2. ASSUME UNCHANGED EX!xtables PROVE Good
  BY <1>1, <1>2 DEF EX!xtables, EX!Holds
<1>3. ASSUME NEW e \in Exc, NEW l \in Loan \cup {Null}, EX!CreateException(e, l)
      PROVE  Good
  <2>1. decisions' = decisions
    BY <1>3 DEF EX!CreateException
  <2>2. ASSUME NEW f \in Exc, NEW k \in Loan, EX!Holds(f, k)' PROVE EX!Holds(f, k)
    <3>1. CASE f = e
      <4>1. exceptions'[f] = [exceptions[f] EXCEPT !.status = "open", !.loan = l]
        BY <1>1, <1>3, <3>1 DEF EX!CreateException
      <4>2. exceptions'[f].status = "open"
        BY <1>1, <4>1 DEF EX!ExcRow
      <4> QED
        BY <2>2, <4>2 DEF EX!Holds
    <3>2. CASE f # e
      <4>1. exceptions'[f] = exceptions[f]
        BY <1>1, <1>3, <3>2 DEF EX!CreateException
      <4> QED
        BY <2>1, <2>2, <4>1 DEF EX!Holds
    <3> QED
      BY <3>1, <3>2
  <2> QED
    BY <1>1, <2>1, <2>2
<1>4. ASSUME NEW u \in Reviewer, EX!CommitMove(u) PROVE Good
  <2>0. PICK x, seen, s, b : /\ x = work[u].exc /\ seen = work[u].seen
                             /\ s = EX!Moves[work[u].op].to /\ b = FALSE
    OBVIOUS
  <2>1. /\ exceptions' = [exceptions EXCEPT ![x] = EX!Written(@, seen, s, b)]
        /\ s # "approved_with_conditions"
    <3>1. \A ev \in DOMAIN EX!Moves : EX!Moves[ev].to # "approved_with_conditions"
      BY DEF EX!Moves
    <3>2. work[u].op \in DOMAIN EX!Moves
      BY <1>4 DEF EX!CommitMove
    <3>3. s # "approved_with_conditions"
      BY <2>0, <3>1, <3>2
    <3>4. exceptions' = [exceptions EXCEPT ![x] = EX!Written(@, seen, s, b)]
      BY <1>4, <2>0 DEF EX!CommitMove
    <3> QED
      BY <3>3, <3>4
  <2>2. decisions' = decisions
    BY <1>4 DEF EX!CommitMove
  <2>3. ASSUME NEW f \in Exc, NEW k \in Loan, EX!Holds(f, k)' PROVE EX!Holds(f, k)
    <3>1. /\ exceptions[f].loan = k
          /\ exceptions[f].status = "approved_with_conditions"
      BY <2>1, <2>3, HarmlessUpdate
    <3> QED
      BY <2>2, <2>3, <3>1 DEF EX!Holds
  <2> QED
    BY <1>1, <2>2, <2>3
<1>5. ASSUME NEW u \in Reviewer, NEW e,
             e = work[u].exc,
             work[u].op \in {"with_conditions", "information_requested", "link"},
             EX!Done(u), ~ UNCHANGED EX!xtables
      PROVE  e \in Blocking
  <2>1. work'[u] = EX!NoWork
    BY <1>1, <1>5 DEF EX!Done
  <2>2. EX!NoWork.op = "idle"
    BY DEF EX!NoWork
  <2>3. work'[u] # work[u]
    BY <1>5, <2>1, <2>2
  <2> QED
    BY <1>5, <2>3 DEF Blocking
<1>6. ASSUME NEW u \in Reviewer, EX!CommitDecide(u), ~ UNCHANGED EX!xtables
      PROVE  Good
  <2>1. /\ decisions' \in [Exc -> Seq(EX!Decision)]
        /\ \A e \in Exc : e # work[u].exc => decisions'[e] = decisions[e]
    BY <1>6, DecideKeeps
  <2>2. \A e \in Exc : e # work[u].exc => exceptions'[e] = exceptions[e]
    BY <1>1, <1>6 DEF EX!CommitDecide
  <2>3. ASSUME NEW f \in Exc, NEW k \in Loan, EX!Holds(f, k)'
        PROVE  EX!Holds(f, k) \/ f \in Blocking
    <3>1. CASE f # work[u].exc
      <4>1. exceptions'[f] = exceptions[f] /\ decisions'[f] = decisions[f]
        BY <2>1, <2>2, <3>1
      <4> QED
        BY <2>3, <4>1 DEF EX!Holds
    <3>2. CASE /\ f = work[u].exc
               /\ work[u].op \in {"with_conditions", "information_requested"}
      BY <1>5, <1>6, <3>2 DEF EX!CommitDecide
    <3>3. CASE /\ f = work[u].exc
               /\ work[u].op \notin {"with_conditions", "information_requested"}
      <4>1. PICK s, b, seen :
              /\ s = EX!DecisionStatus[work[u].op] /\ b = (work[u].op \in EX!Terminal)
              /\ seen = work[u].seen
        OBVIOUS
      <4>2. exceptions' = [exceptions EXCEPT ![f] = EX!Written(@, seen, s, b)]
        BY <1>6, <3>3, <4>1 DEF EX!CommitDecide
      <4>3. s \in {"approved", "denied"} /\ s # seen.status
        <5>1. work[u].op \in {"as_requested", "denied"}
          BY <1>6, <3>3 DEF EX!CommitDecide, EX!DecisionStatus
        <5>2. s \in {"approved", "denied"}
          BY <4>1, <5>1 DEF EX!DecisionStatus
        <5>3. work[u].seen.status \in EX!Decidable
          BY <1>6 DEF UInv, Able, EX!CommitDecide
        <5> QED
          BY <4>1, <5>2, <5>3 DEF EX!Decidable
      <4>4. exceptions'[f] = EX!Written(exceptions[f], seen, s, b)
        BY <1>1, <4>2
      <4>5. PICK g : g = (exceptions[f].decided \/ b)
        OBVIOUS
      <4>6. exceptions'[f] = [exceptions[f] EXCEPT !.status = s, !.decided = g]
        BY <4>3, <4>4, <4>5, Zenon DEF EX!Written
      <4>7. exceptions'[f].status = s
        BY <1>1, <4>6 DEF EX!ExcRow
      <4> QED
        BY <2>3, <4>3, <4>7 DEF EX!Holds
    <3> QED
      BY <3>1, <3>2, <3>3
  <2> QED
    BY <2>1, <2>3
<1>7. ASSUME NEW u \in Reviewer, EX!CommitLink(u), ~ UNCHANGED EX!xtables
      PROVE  Good
  <2>1. decisions' = decisions
    BY <1>7 DEF EX!CommitLink
  <2>2. ASSUME NEW f \in Exc, NEW k \in Loan, EX!Holds(f, k)'
        PROVE  EX!Holds(f, k) \/ f \in Blocking
    <3>1. CASE f = work[u].exc
      BY <1>5, <1>7, <3>1 DEF EX!CommitLink
    <3>2. CASE f # work[u].exc
      <4>1. exceptions'[f] = exceptions[f]
        BY <1>1, <1>7, <3>2 DEF EX!CommitLink
      <4> QED
        BY <2>1, <2>2, <4>1 DEF EX!Holds
    <3> QED
      BY <3>1, <3>2
  <2> QED
    BY <1>1, <2>1, <2>2
<1>8. ASSUME NEW u \in Reviewer, EX!CommitDeleteException(u) PROVE Good
  <2>1. EX!Remove({work[u].exc})
    BY <1>8 DEF EX!CommitDeleteException
  <2> QED
    BY <2>1, RemoveLeaves
<1>9. ASSUME NEW u \in Reviewer, EX!CommitSettle(u) PROVE Good
  BY <1>9, SettleKeeps
<1>10. \/ UNCHANGED EX!xtables
       \/ \E e \in Exc, l \in Loan \cup {Null} : EX!CreateException(e, l)
       \/ \E u \in Reviewer : EX!ReviewCommit(u)
  <2>1. ASSUME NEW u \in Reviewer, NEW e \in Exc, EX!Review(u, e)
        PROVE  UNCHANGED EX!xtables
    BY <2>1 DEF EX!Review, EX!BeginMove, EX!BeginDecide, EX!BeginSettle,
                EX!BeginLink, EX!BeginDeleteException, EX!Begin
  <2> QED
    BY <2>1 DEF EX!XStep, EX!Abandon
<1> QED
  BY <1>2, <1>3, <1>4, <1>6, <1>7, <1>8, <1>9, <1>10 DEF EX!ReviewCommit

-----------------------------------------------------------------------------
(* The composition.                                                        *)

\* At first there is nothing.
LEMMA InitUInv == UInit => UInv /\ Blocked = {}
<1> SUFFICES ASSUME UInit PROVE UInv /\ Blocked = {}
  OBVIOUS
<1>1. /\ loans = [l \in Loan |-> [status |-> "none", number |-> 0]]
      /\ req = [w \in Session |-> LS!NoRequest]
      /\ exceptions = [e \in Exc |-> EX!NoExc("none")]
      /\ decisions = [e \in Exc |-> <<>>]
      /\ work = [u \in Reviewer |-> EX!NoWork]
      /\ since = [w \in Session |-> {}]
  BY DEF UInit, LS!TablesInit, LS!NoRow, EX!XTablesInit
<1>2. /\ EX!NoExc("none") \in EX!ExcRow
      /\ EX!NoExc("none").loan = Null /\ EX!NoExc("none").status = "none"
  BY DEF EX!NoExc, EX!ExcRow
<1>3. UTypeOK
  <2>1. <<>> \in Seq(EX!Decision)
    OBVIOUS
  <2> QED
    BY <1>1, <1>2, <2>1, Types DEF UTypeOK, LoanRow
<1>4. \A w \in Session : Aims(req[w]) /\ req[w].pc = "idle"
  BY <1>1, Types
<1>5. Linked
  BY <1>1, <1>2 DEF Linked
<1>6. OnlyRacesPass
  BY <1>4 DEF OnlyRacesPass, LS!Ready
<1>7. Blocked = {}
  BY <1>1, <1>2 DEF Blocked, EX!Pending, EX!Holds
<1>8. \A u \in Reviewer : Able(work[u])
  BY <1>1 DEF Able, EX!NoWork, EX!DecisionStatus
<1> QED
  BY <1>3, <1>4, <1>5, <1>6, <1>7, <1>8 DEF UInv

\* A request that a step replaces, while loans that exist stay and the
\* exceptions are left alone.
LEMMA ReplaceInv ==
  ASSUME UInv, NEW w \in Session, NEW r \in Req, Aims(r),
         req' = [req EXCEPT ![w] = r],
         r.pc = "ready" /\ r.op = "transition" /\ r.to = "funded" =>
           r.loan \notin Blocked,
         loans' \in [Loan -> LoanRow],
         \A l \in Loan : LS!Exists(l) => LS!Exists(l)',
         UNCHANGED excVars,
         since' = [v \in Session |-> IF req'[v].pc = "ready" THEN since[v] ELSE {}]
  PROVE  UInv' /\ Blocked' = Blocked
<1>1. /\ Blocked' = Blocked
      /\ UNCHANGED <<exceptions, decisions, work>>
      /\ \A e \in Exc, l \in Loan : EX!Holds(e, l)' <=> EX!Holds(e, l)
  BY BlockedStays DEF excVars, EX!Holds
<1>2. /\ req \in [Session -> Req] /\ exceptions \in [Exc -> EX!ExcRow]
      /\ \A v \in Session : req'[v] = IF v = w THEN r ELSE req[v]
  BY DEF UInv, UTypeOK
<1>3. UTypeOK'
  <2>1. since' = [v \in Session |-> since'[v]]
    OBVIOUS
  <2> QED
    BY <1>1, <1>2, <2>1 DEF UInv, UTypeOK
<1>4. \A v \in Session : Aims(req[v])'
  BY <1>2 DEF UInv, Aims
<1>5. Linked'
  <2>1. ASSUME NEW e \in Exc, NEW k, k = exceptions'[e].loan, k # Null
        PROVE  LS!Exists(k)'
    <3>1. LS!Exists(k) /\ k \in Loan
      BY <1>1, <1>2, <2>1 DEF UInv, Linked, EX!ExcRow
    <3> QED
      BY <3>1
  <2> QED
    BY <2>1 DEF Linked
<1>6. OnlyRacesPass'
  <2> SUFFICES ASSUME NEW v \in Session,
                      req'[v].pc = "ready", req'[v].op = "transition",
                      req'[v].to = "funded",
                      NEW e \in Exc, EX!Holds(e, req[v].loan)'
               PROVE  e \in since'[v]
    BY DEF OnlyRacesPass, LS!Ready
  <2>1. since'[v] = since[v]
    OBVIOUS
  <2>2. PICK l \in Loan : l = req'[v].loan
    BY <1>2 DEF UInv, Aims
  <2>3. EX!Holds(e, l)
    BY <1>1, <2>2
  <2>4. CASE v = w
    <3>1. l \in Blocked
      BY <2>3 DEF Blocked, EX!Pending
    <3> QED
      BY <1>2, <2>2, <2>4, <3>1
  <2>5. CASE v # w
    BY <1>2, <2>1, <2>2, <2>3, <2>5 DEF UInv, OnlyRacesPass, LS!Ready
  <2> QED
    BY <2>4, <2>5
<1>7. \A u \in Reviewer : Able(work[u])'
  BY <1>1 DEF UInv, Able
<1> QED
  BY <1>1, <1>3, <1>4, <1>5, <1>6, <1>7 DEF UInv

\* A step on the loans keeps the invariant and is one of LoanStatus.
LEMMA LoanStepInv ==
  ASSUME UInv, LoanStep
  PROVE  UInv' /\ LS!Next
<1>1. ASSUME NEW l \in Loan, NEW s \in LS!Status, LS!CreateLoan(l, s)
      PROVE  UInv' /\ LS!Next
  <2>1. /\ Blocked' = Blocked
        /\ UNCHANGED <<exceptions, decisions, work, req>>
        /\ since' = [v \in Session |->
             IF req'[v].pc = "ready" THEN since[v] ELSE {}]
    BY <1>1, BlockedStays DEF LoanStep, excVars, LS!CreateLoan
  <2>2. PICK row : row = [loans[l] EXCEPT !.status = s]
    OBVIOUS
  <2>3. loans' = [loans EXCEPT ![l] = row] /\ row.status = s /\ row \in LoanRow
    BY <1>1, <2>2 DEF LS!CreateLoan, UInv, UTypeOK, LoanRow
  <2>4. UTypeOK'
    BY <2>1, <2>3 DEF UInv, UTypeOK
  <2>5. \A k \in Loan : LS!Exists(k) => LS!Exists(k)'
    BY <2>3 DEF UInv, UTypeOK, LS!Exists
  <2>6. Linked'
    <3>1. ASSUME NEW e \in Exc, NEW k, k = exceptions'[e].loan, k # Null
          PROVE  LS!Exists(k)'
      <4>1. LS!Exists(k) /\ k \in Loan
        BY <2>1, <3>1 DEF UInv, UTypeOK, Linked, EX!ExcRow
      <4> QED
        BY <2>5, <4>1
    <3> QED
      BY <3>1 DEF Linked
  <2>7. \A v \in Session : Aims(req[v])'
    BY <2>1 DEF UInv, Aims
  <2>8. \A u \in Reviewer : Able(work[u])'
    BY <2>1 DEF UInv, Able
  <2>9. OnlyRacesPass'
    <3>1. \A e \in Exc, w \in Session :
            EX!Holds(e, req[w].loan)' <=> EX!Holds(e, req[w].loan)
      BY <2>1 DEF EX!Holds
    <3> QED
      BY <2>1, <3>1 DEF UInv, OnlyRacesPass, LS!Ready
  <2>a. LS!Next
    BY <1>1, <2>1 DEF LS!Next
  <2> QED
    BY <2>4, <2>6, <2>7, <2>8, <2>9, <2>a DEF UInv
<1>2. ASSUME NEW w \in Session, NEW l \in Loan, LS!Handler(w, l)
      PROVE  UInv' /\ LS!Next
  <2>1. PICK r \in Req :
          /\ UNCHANGED loans
          /\ req' = [req EXCEPT ![w] = r]
          /\ Aims(r)
          /\ r.op = "transition" /\ r.to = "funded" => r.pc = "loaded"
    BY <1>2, HandlerStep
  <2>2. loans' \in [Loan -> LoanRow] /\ \A k \in Loan : LS!Exists(k) => LS!Exists(k)'
    BY <2>1 DEF UInv, UTypeOK, LS!Exists
  <2>3. UInv' /\ Blocked' = Blocked
    BY <2>1, <2>2, ReplaceInv DEF LoanStep
  <2> QED
    BY <1>2, <2>3 DEF LS!Next
<1>3. ASSUME NEW w \in Session, LS!Step(w) PROVE UInv' /\ LS!Next
  <2>1. /\ loans' \in [Loan -> LoanRow]
        /\ \A l \in Loan : LS!Exists(l) => LS!Exists(l)'
    BY <1>3, StepStep
  <2>2. PICK r \in Req :
          /\ req' = [req EXCEPT ![w] = r]
          /\ Aims(r)
          /\ r.pc = "ready" /\ r.op = "transition" => r.loan \notin Blocked
    BY <1>3, StepStep
  <2>3. UInv' /\ Blocked' = Blocked
    BY <2>1, <2>2, ReplaceInv DEF LoanStep
  <2> QED
    BY <1>3, <2>3 DEF LS!Next
<1> QED
  BY <1>1, <1>2, <1>3 DEF LoanStep

\* The deletion of a loan takes along all it is blocked by, and nothing else.
LEMMA DeleteInv ==
  ASSUME UInv, DeleteLoan
  PROVE  UInv' /\ LS!Next
<1>1. PICK w \in Session :
        /\ LS!CommitDelete(w) /\ EX!LoanGone(req[w].loan)
        /\ UNCHANGED <<work, since>>
  BY DEF DeleteLoan
<1>2. PICK l : l = req[w].loan
  OBVIOUS
<1>3. l \in Loan
  BY <1>1, <1>2 DEF UInv, Aims, LS!CommitDelete, LS!Ready
<1>4. /\ loans' = [loans EXCEPT ![l] = [status |-> "deleted", number |-> 0]]
      /\ req' = [req EXCEPT ![w] = LS!NoRequest]
  BY <1>1, <1>2 DEF LS!CommitDelete, LS!Commit
<1>5. \A e \in Exc :
        /\ exceptions'[e] = IF exceptions[e].loan = l THEN EX!NoExc("deleted")
                            ELSE exceptions[e]
        /\ decisions'[e] = IF exceptions[e].loan = l THEN <<>> ELSE decisions[e]
  BY <1>1, <1>2 DEF EX!LoanGone, EX!Remove
<1>6. EX!NoExc("deleted").status = "deleted" /\ EX!NoExc("deleted").loan = Null
  BY DEF EX!NoExc
<1>7. Blocked' = Blocked \ {l}
  BY <1>3, <1>5, <1>6, NullAssumption DEF Blocked, EX!Pending, EX!Holds
<1>8. exceptions' \in [Exc -> EX!ExcRow]
  BY <1>1, RemoveTypes DEF UInv, UTypeOK, EX!LoanGone
<1>f. /\ decisions' \in [Exc -> Seq(EX!Decision)]
      /\ \A e \in Exc, k \in Loan : EX!Holds(e, k)' => EX!Holds(e, k)
  BY <1>1, RemoveLeaves DEF EX!LoanGone
<1>9. UTypeOK'
  BY <1>1, <1>3, <1>4, <1>8, <1>f, Types DEF UInv, UTypeOK
<1>a. \A v \in Session : req'[v] = IF v = w THEN LS!NoRequest ELSE req[v]
  BY <1>4 DEF UInv, UTypeOK
<1>b. \A v \in Session : Aims(req[v])'
  BY <1>a, Types DEF UInv, Aims
<1>c. Linked'
  <2>1. ASSUME NEW e \in Exc, NEW k, k = exceptions'[e].loan, k # Null
        PROVE  LS!Exists(k)'
    <3>1. k = exceptions[e].loan /\ k # l
      BY <1>5, <1>6, <2>1, NullAssumption
    <3>2. LS!Exists(k) /\ k \in Loan
      BY <2>1, <3>1 DEF UInv, UTypeOK, Linked, EX!ExcRow
    <3> QED
      BY <1>4, <3>1, <3>2 DEF UInv, UTypeOK, LS!Exists
  <2> QED
    BY <2>1 DEF Linked
<1>d. OnlyRacesPass'
  <2> SUFFICES ASSUME NEW v \in Session,
                      req'[v].pc = "ready", req'[v].op = "transition",
                      req'[v].to = "funded",
                      NEW e \in Exc, EX!Holds(e, req[v].loan)'
               PROVE  e \in since[v]
    BY <1>1 DEF OnlyRacesPass, LS!Ready
  <2>1. req'[v] = req[v]
    BY <1>a, Types
  <2>2. PICK k \in Loan : k = req[v].loan
    BY <2>1 DEF UInv, Aims
  <2>3. EX!Holds(e, k)
    BY <1>f, <2>1, <2>2
  <2> QED
    BY <2>1, <2>2, <2>3 DEF UInv, OnlyRacesPass, LS!Ready
<1>g. \A u \in Reviewer : Able(work[u])'
  BY <1>1 DEF UInv, Able
<1>e. LS!Next
  BY <1>1, <1>2, <1>7 DEF LS!Next
<1> QED
  BY <1>9, <1>b, <1>c, <1>d, <1>e, <1>g DEF UInv

\* A step on the exceptions: what it makes block a loan is in since.
LEMMA ExceptionStepInv ==
  ASSUME UInv, ExceptionStep
  PROVE  UInv' /\ LS!Next
<1>1. EX!XStep /\ UNCHANGED <<loans, history, outbox, req>>
  BY DEF ExceptionStep, loanVars
<1>2. exceptions' \in [Exc -> EX!ExcRow] /\ Linked'
  BY <1>1, ExceptionKeeps
<1>9. /\ decisions' \in [Exc -> Seq(EX!Decision)]
      /\ \A e \in Exc, l \in Loan :
           EX!Holds(e, l)' => EX!Holds(e, l) \/ e \in Blocking
  BY <1>1, OnlyBlockers
<1>a. /\ work' = [u \in Reviewer |-> work'[u]]
      /\ \A u \in Reviewer : Able(work[u])'
  BY <1>1, WorkKeeps
<1>b. since' = [w \in Session |->
        IF req[w].pc = "ready" THEN since[w] \cup Blocking ELSE since[w]]
  BY DEF ExceptionStep
<1>3. UTypeOK' /\ \A v \in Session : Aims(req[v])'
  <2>1. since' = [w \in Session |-> since'[w]]
    BY <1>b
  <2> QED
    BY <1>1, <1>2, <1>9, <1>a, <2>1 DEF UInv, UTypeOK, Aims
<1>4. OnlyRacesPass'
  <2> SUFFICES ASSUME NEW v \in Session,
                      req[v].pc = "ready", req[v].op = "transition",
                      req[v].to = "funded",
                      NEW e \in Exc, EX!Holds(e, req[v].loan)'
               PROVE  e \in since'[v]
    BY <1>1 DEF OnlyRacesPass, LS!Ready
  <2>1. PICK l \in Loan : l = req[v].loan
    BY DEF UInv, Aims
  <2>2. CASE EX!Holds(e, l)
    <3>1. e \in since[v]
      BY <2>1, <2>2 DEF UInv, OnlyRacesPass, LS!Ready
    <3> QED
      BY <1>b, <3>1
  <2>3. CASE e \in Blocking
    BY <1>b, <2>3
  <2>4. EX!Holds(e, l)'
    BY <1>1, <2>1
  <2> QED
    BY <1>9, <2>2, <2>3, <2>4
<1>5. Blocked' \in SUBSET Loan
  BY DEF Blocked
<1>6. ASSUME NEW l \in Blocked' PROVE LS!Exists(l)
  <2>1. PICK e \in Exc : exceptions'[e].loan = l /\ l \in Loan
    BY <1>6 DEF Blocked, EX!Pending, EX!Holds
  <2>2. LS!Exists(l)'
    BY <1>2, <2>1, NullAssumption DEF Linked
  <2> QED
    BY <1>1, <2>2 DEF LS!Exists
<1>7. LS!Environment(Blocked')
  BY <1>1, <1>6 DEF LS!Environment, LS!tables
<1>8. LS!Next
  BY <1>5, <1>7 DEF LS!Next
<1> QED
  BY <1>2, <1>3, <1>4, <1>8, <1>a DEF UInv

\* Every step keeps the invariant, and is one of LoanStatus or a stutter.
LEMMA NextUInv == UInv /\ [UNext]_uvars => UInv' /\ [LS!Next]_(LS!vars)
<1> SUFFICES ASSUME UInv, [UNext]_uvars PROVE UInv' /\ [LS!Next]_(LS!vars)
  OBVIOUS
<1>1. CASE UNCHANGED uvars
  <2>1. UNCHANGED <<loans, history, outbox, req, exceptions, decisions, work, since>>
    BY <1>1 DEF uvars, loanVars, excVars
  <2>2. Blocked' = Blocked
    BY <2>1, BlockedStays
  <2>3. UTypeOK' /\ (\A v \in Session : Aims(req[v])') /\ OnlyRacesPass'
    BY <2>1, <2>2 DEF UInv, UTypeOK, Aims, OnlyRacesPass, LS!Ready, EX!Holds
  <2>6. \A u \in Reviewer : Able(work[u])'
    BY <2>1 DEF UInv, Able
  <2>4. Linked'
    BY <2>1 DEF UInv, Linked, LS!Exists
  <2>5. UNCHANGED LS!vars
    BY <2>1, <2>2 DEF LS!vars
  <2> QED
    BY <2>3, <2>4, <2>5, <2>6 DEF UInv
<1> QED
  BY <1>1, LoanStepInv, DeleteInv, ExceptionStepInv DEF UNext

\* Only races pass the gate, for any number of sessions: the exceptions that
\* block a loan about to be funded were decided or linked after the gate was
\* read.
THEOREM GateStands == USpec => []OnlyRacesPass
<1>1. UInv => OnlyRacesPass
  BY DEF UInv
<1> QED
  BY <1>1, InitUInv, NextUInv, PTL DEF USpec

\* The handlers of loans and exceptions together do to the loans what the
\* status workflow says with an arbitrary environment that blocks loans.
THEOREM StatusImplemented == USpec => ImplementsStatus
<1>1. UInit => LS!Init
  BY InitUInv DEF UInit, LS!Init
<1> QED
  BY <1>1, InitUInv, NextUInv, PTL DEF USpec, ImplementsStatus, LS!Spec

=============================================================================
