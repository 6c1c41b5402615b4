-------------------------- MODULE ExceptionsProofs --------------------------
(***************************************************************************)
(* Theorems about Exceptions, for all loans and exceptions, any number of  *)
(* sessions and logs of any length.                                        *)
(*                                                                         *)
(* What carries them is what a stale request still relies on: the status   *)
(* that it loaded is one its handler accepts, the decision it is about to  *)
(* write has the type of its event, and an exception that no longer exists *)
(* has left neither decisions nor events behind.                           *)
(***************************************************************************)
EXTENDS Exceptions, FiniteSetTheorems, SequenceTheorems, TLAPS

-----------------------------------------------------------------------------
(* The inductive invariant.                                                *)

\* What an open request relies on.
InForce(r) ==
  /\ r.op # "idle" => r.exc \in Exc /\ exceptions[r.exc].status # "none"
  /\ r.op \in DOMAIN Moves => r.seen.status \in Moves[r.op].from
  /\ r.op \in DOMAIN DecisionStatus =>
       /\ r.seen.status \in Decidable
       /\ r.arg \in Decision
       /\ r.arg.type = r.op
  /\ r.op = "settle" => r.arg \in [nr: Nat, to: ConditionStatus]
  /\ r.op = "link" => r.seen.loan = Null

\* An exception that does not exist yet has no loan, and one that does not exist
\* has no decisions and no events.
RowsSound ==
  \A e \in Exc :
    /\ exceptions[e].status = "none" => exceptions[e].loan = Null
    /\ ~ Alive(e) => decisions[e] = <<>> /\ events[e] = NoEvents

XInv ==
  /\ XTypeOK
  /\ RowsSound
  /\ \A u \in Reviewer : InForce(work[u])
  /\ LogAccounts
  /\ VerdictStands

-----------------------------------------------------------------------------
(* The tables of statuses.                                                 *)

\* The handlers other than decide set a status that is not decided and not one
\* they start from.
LEMMA MoveTable ==
  /\ DOMAIN Moves = {"exception_submitted", "exception_assigned", "withdrawn"}
  /\ \A ev \in DOMAIN Moves :
       /\ ev \in Event
       /\ Announces(ev) = Moves[ev].to
       /\ Moves[ev].to \in Status \ Decided
       /\ Moves[ev].to \notin Moves[ev].from
       /\ Moves[ev].from \cap Decided = {}
<1>1. DOMAIN Moves = {"exception_submitted", "exception_assigned", "withdrawn"}
  BY DEF Moves
<1>2. Decided = {"approved", "approved_with_conditions", "denied"}
  BY DEF Decided, Terminal, DecisionStatus
<1>3. ASSUME NEW ev \in DOMAIN Moves
      PROVE  /\ ev \in Event
             /\ Announces(ev) = Moves[ev].to
             /\ Moves[ev].to \in Status
  BY <1>1 DEF Event, Announces, Moves, Status
<1>4. ASSUME NEW ev \in DOMAIN Moves
      PROVE  /\ Moves[ev].to \notin Decided
             /\ Moves[ev].to \notin Moves[ev].from
             /\ Moves[ev].from \cap Decided = {}
  BY <1>1, <1>2 DEF Moves, Decidable
<1> QED
  BY <1>1, <1>3, <1>4

\* Decisions announce the status they set, and the terminal ones decide.
LEMMA DecisionTable ==
  /\ DOMAIN DecisionStatus =
       {"as_requested", "with_conditions", "denied", "information_requested"}
  /\ Decidable \cap Decided = {}
  /\ Terminal \subseteq DOMAIN DecisionStatus
  /\ \A d \in DOMAIN DecisionStatus :
       /\ d \in Event
       /\ Announces(d) = DecisionStatus[d]
       /\ DecisionStatus[d] \in Status
       /\ d \in Terminal <=> DecisionStatus[d] \in Decided
       /\ d \notin Terminal => /\ d = "information_requested"
                               /\ DecisionStatus[d] = "additional_info_requested"
<1>1. DOMAIN DecisionStatus =
        {"as_requested", "with_conditions", "denied", "information_requested"}
  BY DEF DecisionStatus
<1>2. Decided = {"approved", "approved_with_conditions", "denied"}
  BY DEF Decided, Terminal, DecisionStatus
<1>3. Decidable \cap Decided = {} /\ Terminal \subseteq DOMAIN DecisionStatus
  BY <1>1, <1>2 DEF Decidable, Terminal
<1>4. ASSUME NEW d \in DOMAIN DecisionStatus
      PROVE  /\ d \in Event
             /\ Announces(d) = DecisionStatus[d]
             /\ DecisionStatus[d] \in Status
  BY <1>1, MoveTable DEF Event, Announces, DecisionStatus, Status
<1>5. ASSUME NEW d \in DOMAIN DecisionStatus
      PROVE  /\ d \in Terminal <=> DecisionStatus[d] \in Decided
             /\ d \notin Terminal =>
                  /\ d = "information_requested"
                  /\ DecisionStatus[d] = "additional_info_requested"
  BY <1>1, <1>2 DEF Terminal, DecisionStatus
<1> QED
  BY <1>1, <1>3, <1>4, <1>5

\* What the log and the record say of an exception without decisions.
LEMMA NoRecord ==
  /\ NoEvents \in [Event -> Nat]
  /\ \A ev \in Event : NoEvents[ev] = 0
  /\ Cardinality({}) = 0
  /\ "created" \in Event /\ "created" \notin DOMAIN DecisionStatus
BY FS_EmptySet, DecisionTable DEF NoEvents, Event

\* The shapes of rows and of idle sessions.
LEMMA RowTypes ==
  /\ NoExc("none") \in ExcRow /\ NoExc("deleted") \in ExcRow
  /\ NoWork \in Work /\ InForce(NoWork)
<1>1. NoExc("none") \in ExcRow /\ NoExc("deleted") \in ExcRow
  BY DEF NoExc, ExcRow
<1>2. NoWork \in Work
  BY <1>1 DEF NoWork, Work
<1>3. InForce(NoWork)
  BY MoveTable, DecisionTable DEF NoWork, InForce
<1> QED
  BY <1>1, <1>2, <1>3

\* What the mapper's UPDATE does to a row.
LEMMA WrittenRow ==
  ASSUME NEW row \in ExcRow, NEW seen \in ExcRow, NEW s \in Status,
         NEW b \in BOOLEAN
  PROVE  /\ Written(row, seen, s, b) \in ExcRow
         /\ Written(row, seen, s, b).status =
              IF s = seen.status THEN row.status ELSE s
         /\ Written(row, seen, s, b).loan = row.loan
         /\ Written(row, seen, s, b).decided = (row.decided \/ b)
BY DEF Written, ExcRow

-----------------------------------------------------------------------------
(* What a step leaves of the requests.                                     *)

\* An exception that was created never becomes one that was not.
Lasts ==
  \A e \in Exc : exceptions[e].status # "none" => exceptions'[e].status # "none"

\* What a request relies on survives.
LEMMA StillInForce ==
  ASSUME Lasts, NEW r, InForce(r)
  PROVE  /\ r.op # "idle" => r.exc \in Exc /\ exceptions'[r.exc].status # "none"
         /\ r.op \in DOMAIN Moves => r.seen.status \in Moves[r.op].from
         /\ r.op \in DOMAIN DecisionStatus =>
              /\ r.seen.status \in Decidable
              /\ r.arg \in Decision
              /\ r.arg.type = r.op
         /\ r.op = "settle" => r.arg \in [nr: Nat, to: ConditionStatus]
         /\ r.op = "link" => r.seen.loan = Null
BY DEF InForce, Lasts

\* The requests of a step in which session u is done and the others go on.
LEMMA DoneWork ==
  ASSUME XInv, Lasts, NEW u \in Reviewer, Done(u)
  PROVE  /\ work' \in [Reviewer -> Work]
         /\ \A v \in Reviewer : InForce(work[v])'
<1>1. work \in [Reviewer -> Work] /\ \A v \in Reviewer : InForce(work[v])
  BY DEF XInv, XTypeOK
<1>2. work' \in [Reviewer -> Work]
  BY <1>1, RowTypes DEF Done
<1> SUFFICES ASSUME NEW v \in Reviewer PROVE InForce(work[v])'
  BY <1>2
<1>3. CASE v = u
  <2>1. work'[v] = NoWork
    BY <1>1, <1>3 DEF Done
  <2>2. work'[v].op = "idle"
    BY <2>1 DEF NoWork
  <2> QED
    BY <2>2, MoveTable, DecisionTable DEF InForce
<1>4. CASE v # u
  <2>1. work'[v] = work[v]
    BY <1>1, <1>4 DEF Done
  <2>2. PICK r : r = work[v]
    OBVIOUS
  <2>3. InForce(r)
    BY <1>1, <2>2
  <2> QED
    BY <2>1, <2>2, <2>3, StillInForce DEF InForce
<1> QED
  BY <1>3, <1>4

\* And of a step of no session.
LEMMA SameWork ==
  ASSUME XInv, Lasts, work' = work
  PROVE  /\ work' \in [Reviewer -> Work]
         /\ \A v \in Reviewer : InForce(work[v])'
<1>1. work \in [Reviewer -> Work] /\ \A v \in Reviewer : InForce(work[v])
  BY DEF XInv, XTypeOK
<1> SUFFICES ASSUME NEW v \in Reviewer PROVE InForce(work[v])'
  BY <1>1
<1>2. PICK r : r = work[v]
  OBVIOUS
<1>3. InForce(r)
  BY <1>1, <1>2
<1> QED
  BY <1>2, <1>3, StillInForce DEF InForce

\* Steps that leave the tables alone.
LEMMA SameTables ==
  ASSUME XInv, UNCHANGED xtables
  PROVE  /\ Lasts
         /\ RowsSound' /\ LogAccounts' /\ VerdictStands'
         /\ exceptions' \in [Exc -> ExcRow] /\ decisions' \in [Exc -> Seq(Decision)]
         /\ events' \in [Exc -> [Event -> Nat]]
<1>1. Lasts
  BY DEF xtables, Lasts, Alive
<1>2. RowsSound' /\ LogAccounts' /\ VerdictStands'
  BY DEF XInv, xtables, RowsSound, LogAccounts, VerdictStands, OfType, Alive
<1> QED
  BY <1>1, <1>2 DEF XInv, XTypeOK, xtables

-----------------------------------------------------------------------------
(* The handlers up to their commits.                                       *)

\* A request that begins, with what its handler has checked.
LEMMA BeginInv ==
  ASSUME XInv, files' \subseteq Loan,
         NEW u \in Reviewer, NEW e \in Exc, NEW op, NEW arg,
         Begin(u, e, op, arg),
         [op |-> op, exc |-> e, seen |-> exceptions[e], arg |-> arg] \in Work,
         InForce([op |-> op, exc |-> e, seen |-> exceptions[e], arg |-> arg])
  PROVE  XInv'
<1>0. PICK r : r = [op |-> op, exc |-> e, seen |-> exceptions[e], arg |-> arg]
  OBVIOUS
<1>1. /\ work' = [work EXCEPT ![u] = r] /\ UNCHANGED xtables
      /\ work \in [Reviewer -> Work] /\ r \in Work /\ InForce(r)
  BY <1>0 DEF Begin, XInv, XTypeOK
<1>2. work' \in [Reviewer -> Work]
  BY <1>1
<1>3. ASSUME NEW v \in Reviewer PROVE InForce(work'[v])
  BY <1>1 DEF XInv
<1>4. \A v \in Reviewer : InForce(work[v])'
  BY <1>1, <1>3 DEF InForce, xtables, Alive
<1> QED
  BY <1>1, <1>2, <1>4, SameTables DEF XInv, XTypeOK

\* The first steps of all handlers.
LEMMA ReviewInv ==
  ASSUME XInv, files' \subseteq Loan, files \subseteq Loan,
         NEW u \in Reviewer, NEW e \in Exc, Review(u, e)
  PROVE  XInv'
<1>0. /\ exceptions[e] \in ExcRow
      /\ decisions[e] \in Seq(Decision)
      /\ events[e] \in [Event -> Nat]
  BY DEF XInv, XTypeOK
<1>a. Alive(e) => exceptions[e].status # "none"
  BY DEF Alive, Status, DecisionStatus
<1>b. Null \in Decision \cup Loan \cup [nr: Nat, to: ConditionStatus] \cup {Null}
  OBVIOUS
<1>1. ASSUME NEW ev \in DOMAIN Moves, BeginMove(u, e, ev) PROVE XInv'
  <2> DEFINE r == [op |-> ev, exc |-> e, seen |-> exceptions[e], arg |-> Null]
  <2>1. exceptions[e].status \in Moves[ev].from /\ Begin(u, e, ev, Null) /\ Alive(e)
    BY <1>1 DEF BeginMove, Begin
  <2>2. r \in Work
    BY <1>0, MoveTable DEF Work
  <2>3. ev \notin DOMAIN DecisionStatus /\ ev \notin {"settle", "link"}
    BY MoveTable, DecisionTable
  <2>4. InForce(r)
    BY <1>a, <2>1, <2>3 DEF InForce
  <2> QED
    BY <2>1, <2>2, <2>4, BeginInv
<1>2. ASSUME NEW d \in Decision, BeginDecide(u, e, d) PROVE XInv'
  <2> DEFINE r == [op |-> d.type, exc |-> e, seen |-> exceptions[e], arg |-> d]
  <2>1. exceptions[e].status \in Decidable /\ Begin(u, e, d.type, d) /\ Alive(e)
    BY <1>2 DEF BeginDecide, Begin
  <2>2. d.type \in DOMAIN DecisionStatus
    BY DEF Decision
  <2>3. r \in Work
    BY <1>0, <2>2, DecisionTable DEF Work
  <2>4. d.type \notin DOMAIN Moves /\ d.type \notin {"settle", "link"}
    BY <2>2, MoveTable, DecisionTable
  <2>6. InForce(r)
    BY <1>a, <2>1, <2>4 DEF InForce
  <2> QED
    BY <2>1, <2>3, <2>6, BeginInv
<1>3. ASSUME NEW i \in DOMAIN decisions[e], NEW to \in ConditionStatus,
             BeginSettle(u, e, i, to)
      PROVE  XInv'
  <2>0. PICK a : a = [nr |-> i, to |-> to]
    OBVIOUS
  <2> DEFINE r == [op |-> "settle", exc |-> e, seen |-> exceptions[e], arg |-> a]
  <2>1. Begin(u, e, "settle", a) /\ Alive(e)
    BY <1>3, <2>0 DEF BeginSettle, Begin
  <2>2. a \in [nr: Nat, to: ConditionStatus]
    BY <1>0, <2>0
  <2>3. r \in Work
    BY <1>0, <2>2 DEF Work
  <2>4. InForce(r)
    BY <1>a, <2>1, <2>2, MoveTable, DecisionTable DEF InForce
  <2> QED
    BY <2>1, <2>3, <2>4, BeginInv
<1>4. ASSUME NEW l \in Loan, BeginLink(u, e, l) PROVE XInv'
  <2> DEFINE r == [op |-> "link", exc |-> e, seen |-> exceptions[e], arg |-> l]
  <2>1. Begin(u, e, "link", l) /\ Alive(e) /\ exceptions[e].loan = Null
    BY <1>4 DEF BeginLink, Begin
  <2>2. r \in Work
    BY <1>0 DEF Work
  <2>3. InForce(r)
    BY <1>a, <2>1, MoveTable, DecisionTable DEF InForce
  <2> QED
    BY <2>1, <2>2, <2>3, BeginInv
<1>5. CASE BeginDeleteException(u, e)
  <2> DEFINE r == [op |-> "delete", exc |-> e, seen |-> exceptions[e], arg |-> Null]
  <2>1. Begin(u, e, "delete", Null) /\ Alive(e)
    BY <1>5 DEF BeginDeleteException, Begin
  <2>2. r \in Work
    BY <1>0 DEF Work
  <2>3. InForce(r)
    BY <1>a, <2>1, MoveTable, DecisionTable DEF InForce
  <2> QED
    BY <2>1, <2>2, <2>3, BeginInv
<1> QED
  BY <1>1, <1>2, <1>3, <1>4, <1>5 DEF Review

\* A request that ends without commit.
LEMMA AbandonInv ==
  ASSUME XInv, files' \subseteq Loan, NEW u \in Reviewer, Abandon(u)
  PROVE  XInv'
<1>1. Done(u) /\ UNCHANGED xtables
  BY DEF Abandon
<1> QED
  BY <1>1, SameTables, DoneWork DEF XInv, XTypeOK

-----------------------------------------------------------------------------
(* Commits.                                                                *)

\* The decisions of a type, whose number is finite.
LEMMA OfTypeFinite ==
  ASSUME XInv, NEW e \in Exc, NEW d
  PROVE  /\ OfType(e, d) \subseteq 1 .. Len(decisions[e])
         /\ IsFiniteSet(OfType(e, d)) /\ Cardinality(OfType(e, d)) \in Nat
<1>1. PICK t \in Seq(Decision) : t = decisions[e]
  BY DEF XInv, XTypeOK
<1>2. OfType(e, d) \subseteq 1 .. Len(t) /\ Len(t) \in Nat
  BY <1>1 DEF OfType
<1>3. IsFiniteSet(1 .. Len(t))
  BY <1>2, FS_Interval
<1> QED
  BY <1>1, <1>2, <1>3, FS_Subset, FS_CardinalityType

\* It is the same when the decisions keep their types.
LEMMA OfTypeSame ==
  ASSUME NEW e \in Exc, DOMAIN decisions'[e] = DOMAIN decisions[e],
         \A i \in DOMAIN decisions[e] :
           decisions'[e][i].type = decisions[e][i].type
  PROVE  \A d : OfType(e, d)' = OfType(e, d)
BY DEF OfType

\* A commit that logs an event of e, which announces its new status, unless the
\* status was left alone.
LEMMA LoggedCommit ==
  ASSUME XInv, NEW e \in Exc, Alive(e), NEW ev \in Event,
         exceptions' \in [Exc -> ExcRow],
         events' = [events EXCEPT ![e][ev] = @ + 1],
         \A f \in Exc \ {e} : /\ exceptions'[f] = exceptions[f]
                              /\ decisions'[f] = decisions[f],
         \/ exceptions'[e].status = exceptions[e].status
         \/ exceptions'[e].status \in Status /\ exceptions'[e].status = Announces(ev),
         \A d \in DOMAIN DecisionStatus :
           Cardinality(OfType(e, d)') =
             Cardinality(OfType(e, d)) + IF ev = d THEN 1 ELSE 0
  PROVE  /\ Lasts /\ RowsSound' /\ LogAccounts'
         /\ events' \in [Exc -> [Event -> Nat]]
<1>1. events \in [Exc -> [Event -> Nat]]
  BY DEF XInv, XTypeOK
<1>2. PICK c \in [Event -> Nat] : c = events[e]
  BY <1>1
<1>3. PICK n \in [Event -> Nat] : n = [c EXCEPT ![ev] = @ + 1]
  <2>1. PICK m \in Nat : m = c[ev] + 1
    BY <1>2
  <2>2. [c EXCEPT ![ev] = m] \in [Event -> Nat]
    OBVIOUS
  <2> QED
    BY <2>1, <2>2
<1>4. /\ n[ev] = c[ev] + 1 /\ n[ev] > 0
      /\ \A k \in Event \ {ev} : n[k] = c[k]
      /\ \A k \in Event : c[k] > 0 => n[k] > 0
  <2>1. n[ev] = c[ev] + 1 /\ \A k \in Event \ {ev} : n[k] = c[k]
    BY <1>2, <1>3
  <2>2. c[ev] \in Nat
    BY <1>2
  <2> QED
    BY <2>1, <2>2
<1>5. /\ events' \in [Exc -> [Event -> Nat]] /\ events'[e] = n
      /\ \A f \in Exc \ {e} : events'[f] = events[f]
  <2>1. events' = [events EXCEPT ![e] = n]
    BY <1>1, <1>2, <1>3
  <2> QED
    BY <1>1, <2>1
<1>6. "none" \notin Status
  BY DEF Status, DecisionStatus
<1>7. exceptions[e].status \in Status /\ exceptions'[e].status \in Status
  BY DEF Alive
<1>8. Lasts
  BY <1>6, <1>7 DEF Lasts
<1>9. RowsSound'
  <2> SUFFICES ASSUME NEW f \in Exc
               PROVE  /\ exceptions'[f].status = "none" => exceptions'[f].loan = Null
                      /\ exceptions'[f].status \notin Status =>
                           decisions'[f] = <<>> /\ events'[f] = NoEvents
    BY DEF RowsSound, Alive
  <2>1. CASE f = e
    BY <1>6, <1>7, <2>1
  <2>2. CASE f # e
    BY <1>5, <2>2 DEF XInv, RowsSound, Alive
  <2> QED
    BY <2>1, <2>2
<1>10. LogAccounts'
  <2> SUFFICES ASSUME NEW f \in Exc, exceptions'[f].status \in Status
               PROVE  /\ \E k \in Event : /\ events'[f][k] > 0
                                          /\ Announces(k) = exceptions'[f].status
                      /\ \A d \in DOMAIN DecisionStatus :
                           events'[f][d] = Cardinality(OfType(f, d)')
    BY DEF LogAccounts, Alive
  <2>1. CASE f = e
    <3>1. \E k \in Event : n[k] > 0 /\ Announces(k) = exceptions'[e].status
      <4>1. CASE exceptions'[e].status = exceptions[e].status
        BY <1>2, <1>4, <4>1 DEF XInv, LogAccounts
      <4>2. CASE exceptions'[e].status = Announces(ev)
        BY <1>4, <4>2
      <4> QED
        BY <4>1, <4>2
    <3>2. ASSUME NEW d \in DOMAIN DecisionStatus
          PROVE  n[d] = Cardinality(OfType(e, d)')
      <4>1. c[d] = Cardinality(OfType(e, d)) /\ d \in Event /\ c[d] \in Nat
        BY <1>2, DecisionTable DEF XInv, LogAccounts
      <4>2. PICK k : k = Cardinality(OfType(e, d)')
        OBVIOUS
      <4>3. k = c[d] + IF ev = d THEN 1 ELSE 0
        BY <4>1, <4>2
      <4> QED
        BY <1>4, <4>1, <4>2, <4>3
    <3> QED
      BY <1>5, <2>1, <3>1, <3>2
  <2>2. CASE f # e
    <3>1. events'[f] = events[f] /\ exceptions'[f] = exceptions[f] /\ Alive(f)
      BY <1>5, <2>2 DEF Alive
    <3>2. \A d : OfType(f, d)' = OfType(f, d)
      BY <2>2 DEF OfType
    <3> QED
      BY <3>1, <3>2 DEF XInv, LogAccounts
  <2> QED
    BY <2>1, <2>2
<1> QED
  BY <1>5, <1>8, <1>9, <1>10

\* A commit that leaves the log alone, the statuses and the types of decisions,
\* and no loan out.
LEMMA UnloggedCommit ==
  ASSUME XInv, events' = events,
         \A e \in Exc : exceptions'[e].status = exceptions[e].status,
         \A e \in Exc : exceptions[e].status = "none" =>
           exceptions'[e].loan = exceptions[e].loan,
         \A e \in Exc : decisions[e] = <<>> => decisions'[e] = <<>>,
         \A e \in Exc, d \in DOMAIN DecisionStatus : OfType(e, d)' = OfType(e, d)
  PROVE  Lasts /\ RowsSound' /\ LogAccounts'
<1>1. \A e \in Exc : Alive(e)' <=> Alive(e)
  BY DEF Alive
<1>2. Lasts
  BY DEF Lasts
<1>3. RowsSound'
  BY <1>1 DEF XInv, RowsSound
<1>4. LogAccounts'
  BY <1>1 DEF XInv, LogAccounts
<1> QED
  BY <1>2, <1>3, <1>4

\* What VerdictStands says of e.
VerdictOf(e) ==
  /\ exceptions[e].decided <=> \E d \in Terminal : OfType(e, d) # {}
  /\ exceptions[e].status \in Decided =>
       \E d \in Terminal :
         OfType(e, d) # {} /\ exceptions[e].status = DecisionStatus[d]

\* It goes on while the record has the same decisions and the exception gets no
\* other verdict.
LEMMA VerdictKept ==
  ASSUME XInv, NEW e \in Exc,
         exceptions'[e].decided <=> exceptions[e].decided,
         exceptions'[e].status \in Decided =>
           exceptions'[e].status = exceptions[e].status,
         \A d \in Terminal : OfType(e, d)' = OfType(e, d)
  PROVE  VerdictOf(e)'
<1>1. VerdictOf(e)
  BY DEF XInv, VerdictStands, VerdictOf
<1> QED
  BY <1>1 DEF VerdictOf

\* submit_exception, assign_exception and withdraw_exception.
LEMMA MoveInv ==
  ASSUME XInv, files' \subseteq Loan, NEW u \in Reviewer, CommitMove(u)
  PROVE  XInv'
<1>0. PICK r : r = work[u]
  OBVIOUS
<1>1. /\ r.op \in DOMAIN Moves
      /\ Alive(r.exc)
      /\ exceptions' = [exceptions EXCEPT
                          ![r.exc] = Written(@, r.seen, Moves[r.op].to, FALSE)]
      /\ events' = [events EXCEPT ![r.exc][r.op] = @ + 1]
      /\ Done(u)
      /\ decisions' = decisions
  BY <1>0 DEF CommitMove, LogEvent
<1>2. InForce(r) /\ r.op # "idle" /\ r \in Work
  BY <1>0, <1>1, MoveTable DEF XInv, XTypeOK
<1>3. PICK e \in Exc : e = r.exc
  BY <1>2 DEF InForce
<1>4. PICK s \in Status \ Decided : s = Moves[r.op].to
  BY <1>1, MoveTable
<1>5. s # r.seen.status /\ r.seen \in ExcRow
  BY <1>1, <1>2, <1>4, MoveTable DEF InForce, Work
<1>6. PICK b \in BOOLEAN : b = FALSE
  OBVIOUS
<1>7. exceptions' = [exceptions EXCEPT ![e] = Written(@, r.seen, s, b)]
  BY <1>1, <1>3, <1>4, <1>6
<1>8. PICK seen \in ExcRow : seen = r.seen
  BY <1>5
<1>9. /\ exceptions' \in [Exc -> ExcRow]
      /\ \A f \in Exc \ {e} : exceptions'[f] = exceptions[f]
      /\ exceptions'[e].status = s
      /\ exceptions'[e].decided <=> exceptions[e].decided
  <2>1. exceptions \in [Exc -> ExcRow]
    BY DEF XInv, XTypeOK
  <2>2. PICK old \in ExcRow : old = exceptions[e]
    BY <2>1
  <2>3. PICK row : row = Written(old, seen, s, b)
    OBVIOUS
  <2>4. /\ row \in ExcRow
        /\ row.status = IF s = seen.status THEN old.status ELSE s
        /\ row.decided = (old.decided \/ b)
    BY <2>3, WrittenRow, SMTT(30)
  <2>5. exceptions' = [exceptions EXCEPT ![e] = row]
    BY <1>7, <1>8, <2>2, <2>3
  <2>6. exceptions' \in [Exc -> ExcRow] /\ exceptions'[e] = row
    BY <2>1, <2>4, <2>5
  <2>7. \A f \in Exc \ {e} : exceptions'[f] = exceptions[f]
    BY <2>1, <2>5
  <2> QED
    BY <1>5, <1>6, <1>8, <2>2, <2>4, <2>6, <2>7
<1>10. /\ r.op \in Event /\ s = Announces(r.op)
       /\ events' = [events EXCEPT ![e][r.op] = @ + 1] /\ Alive(e)
       /\ r.op \notin DOMAIN DecisionStatus
  BY <1>1, <1>3, <1>4, MoveTable, DecisionTable
<1>11. /\ Lasts /\ RowsSound' /\ LogAccounts'
       /\ events' \in [Exc -> [Event -> Nat]]
  <2>1. \A d \in DOMAIN DecisionStatus : OfType(e, d)' = OfType(e, d)
    BY <1>1 DEF OfType
  <2>2. \A d \in DOMAIN DecisionStatus :
          Cardinality(OfType(e, d)') =
            Cardinality(OfType(e, d)) + IF r.op = d THEN 1 ELSE 0
    BY <1>10, <2>1, OfTypeFinite
  <2>3. \A f \in Exc \ {e} : /\ exceptions'[f] = exceptions[f]
                             /\ decisions'[f] = decisions[f]
    BY <1>1, <1>9
  <2>4. exceptions'[e].status \in Status /\ exceptions'[e].status = Announces(r.op)
    BY <1>4, <1>9, <1>10
  <2>5. PICK ev \in Event : ev = r.op
    BY <1>10
  <2> QED
    BY <1>9, <1>10, <2>2, <2>3, <2>4, <2>5, LoggedCommit
<1>12. VerdictStands'
  <2>1. \A f \in Exc : \A d : OfType(f, d)' = OfType(f, d)
    BY <1>1 DEF OfType
  <2>2. ASSUME NEW f \in Exc PROVE VerdictOf(f)'
    BY <1>9, <2>1, VerdictKept
  <2> QED
    BY <2>2 DEF VerdictStands, VerdictOf
<1>13. decisions' \in [Exc -> Seq(Decision)]
  BY <1>1 DEF XInv, XTypeOK
<1> QED
  BY <1>1, <1>9, <1>11, <1>12, <1>13, DoneWork DEF XInv, XTypeOK

\* decide_exception.
LEMMA DecideInv ==
  ASSUME XInv, files' \subseteq Loan, NEW u \in Reviewer, CommitDecide(u)
  PROVE  XInv'
<1>0. PICK r : r = work[u]
  OBVIOUS
<1>1. /\ r.op \in DOMAIN DecisionStatus
      /\ Alive(r.exc)
      /\ exceptions' = [exceptions EXCEPT
                          ![r.exc] = Written(@, r.seen, DecisionStatus[r.op],
                                             r.op \in Terminal)]
      /\ decisions' = [decisions EXCEPT ![r.exc] = Append(@, r.arg)]
      /\ events' = [events EXCEPT ![r.exc][r.op] = @ + 1]
      /\ Done(u)
  BY <1>0 DEF CommitDecide, LogEvent
<1>2. InForce(r) /\ r.op # "idle" /\ r \in Work
  BY <1>0, <1>1, DecisionTable DEF XInv, XTypeOK
<1>3. PICK e \in Exc : e = r.exc
  BY <1>2 DEF InForce
<1>4. PICK s \in Status : s = DecisionStatus[r.op]
  BY <1>1, DecisionTable
<1>5. PICK seen \in ExcRow : seen = r.seen
  BY <1>2 DEF Work
<1>6. PICK b \in BOOLEAN : b <=> r.op \in Terminal
  OBVIOUS
<1>7. exceptions' = [exceptions EXCEPT ![e] = Written(@, seen, s, b)]
  BY <1>1, <1>3, <1>4, <1>5, <1>6
<1>8. PICK d \in Decision : d = r.arg /\ d.type = r.op
  BY <1>1, <1>2 DEF InForce
<1>9. /\ exceptions' \in [Exc -> ExcRow]
      /\ \A f \in Exc \ {e} : exceptions'[f] = exceptions[f]
      /\ s # seen.status => exceptions'[e].status = s
      /\ s = seen.status => exceptions'[e].status = exceptions[e].status
      /\ exceptions'[e].decided = (exceptions[e].decided \/ b)
  <2>1. exceptions \in [Exc -> ExcRow]
    BY DEF XInv, XTypeOK
  <2>2. PICK old \in ExcRow : old = exceptions[e]
    BY <2>1
  <2>3. PICK row : row = Written(old, seen, s, b)
    OBVIOUS
  <2>4. /\ row \in ExcRow
        /\ row.status = IF s = seen.status THEN old.status ELSE s
        /\ row.decided = (old.decided \/ b)
    BY <2>3, WrittenRow, SMTT(30)
  <2>5. exceptions' = [exceptions EXCEPT ![e] = row]
    BY <1>7, <2>2, <2>3
  <2>6. exceptions' \in [Exc -> ExcRow] /\ exceptions'[e] = row
    BY <2>1, <2>4, <2>5
  <2>7. \A f \in Exc \ {e} : exceptions'[f] = exceptions[f]
    BY <2>1, <2>5
  <2> QED
    BY <2>2, <2>4, <2>6, <2>7
<1>10. /\ r.op \in Event /\ s = Announces(r.op)
       /\ events' = [events EXCEPT ![e][r.op] = @ + 1] /\ Alive(e)
       /\ exceptions[e].status \in Status
  BY <1>1, <1>3, <1>4, DecisionTable DEF Alive
<1>11. s = seen.status => r.op \notin Terminal
  BY <1>1, <1>2, <1>3, <1>4, <1>5, DecisionTable DEF InForce
<1>13. decisions \in [Exc -> Seq(Decision)]
  BY DEF XInv, XTypeOK
<1>14. PICK t \in Seq(Decision) : t = decisions[e]
  BY <1>13
<1>15. /\ decisions'[e] = Append(t, d)
       /\ \A f \in Exc \ {e} : decisions'[f] = decisions[f]
  BY <1>1, <1>3, <1>8, <1>13, <1>14
<1>16. /\ decisions'[e] \in Seq(Decision)
       /\ DOMAIN t = 1 .. Len(t) /\ Len(t) \in Nat
       /\ DOMAIN decisions'[e] = 1 .. Len(t) + 1
       /\ decisions'[e][Len(t) + 1] = d
       /\ \A i \in 1 .. Len(t) : decisions'[e][i] = t[i]
  BY <1>15
<1>17. decisions' \in [Exc -> Seq(Decision)]
  BY <1>1, <1>3, <1>8, <1>13, <1>14, <1>15, <1>16
<1>18. /\ OfType(e, r.op)' = OfType(e, r.op) \cup {Len(t) + 1}
       /\ Len(t) + 1 \notin OfType(e, r.op)
       /\ \A k : k # r.op => OfType(e, k)' = OfType(e, k)
  BY <1>8, <1>14, <1>16 DEF OfType
<1>12. /\ Lasts /\ RowsSound' /\ LogAccounts'
       /\ events' \in [Exc -> [Event -> Nat]]
  <2>1. ASSUME NEW k \in DOMAIN DecisionStatus
        PROVE  Cardinality(OfType(e, k)') =
                 Cardinality(OfType(e, k)) + IF r.op = k THEN 1 ELSE 0
    <3>1. PICK S : S = OfType(e, k)
      OBVIOUS
    <3>2. PICK T : T = OfType(e, k)'
      OBVIOUS
    <3>3. IsFiniteSet(S) /\ Cardinality(S) \in Nat
      BY <3>1, OfTypeFinite
    <3>4. CASE r.op = k
      <4>1. T = S \cup {Len(t) + 1} /\ Len(t) + 1 \notin S
        BY <1>18, <3>1, <3>2, <3>4
      <4>2. Cardinality(T) = Cardinality(S) + 1
        BY <3>3, <4>1, FS_AddElement
      <4> QED
        BY <3>1, <3>2, <3>4, <4>2
    <3>5. CASE r.op # k
      <4>1. T = S
        BY <1>18, <3>1, <3>2, <3>5
      <4> QED
        BY <3>1, <3>2, <3>3, <3>5, <4>1
    <3> QED
      BY <3>4, <3>5
  <2>2. \A f \in Exc \ {e} : /\ exceptions'[f] = exceptions[f]
                             /\ decisions'[f] = decisions[f]
    BY <1>9, <1>15
  <2>3. \/ exceptions'[e].status = exceptions[e].status
        \/ exceptions'[e].status \in Status /\ exceptions'[e].status = Announces(r.op)
    BY <1>4, <1>9, <1>10
  <2>4. PICK ev \in Event : ev = r.op
    BY <1>10
  <2> QED
    BY <1>9, <1>10, <2>1, <2>2, <2>3, <2>4, LoggedCommit
<1>19. VerdictStands'
  <2> SUFFICES ASSUME NEW f \in Exc PROVE VerdictOf(f)'
    BY DEF VerdictStands, VerdictOf
  <2>1. CASE f = e /\ r.op \in Terminal
    <3>1. OfType(e, r.op)' # {}
      BY <1>18
    <3>2. exceptions'[e].status = DecisionStatus[r.op]
      BY <1>4, <1>9, <1>11, <2>1
    <3>3. exceptions'[e].decided
      BY <1>6, <1>9, <2>1
    <3> QED
      BY <2>1, <3>1, <3>2, <3>3 DEF VerdictOf
  <2>2. CASE f = e /\ r.op \notin Terminal
    <3>1. \A k \in Terminal : OfType(e, k)' = OfType(e, k)
      BY <1>18, <2>2
    <3>2. exceptions'[e].decided <=> exceptions[e].decided
      BY <1>6, <1>9, <2>2
    <3>3. exceptions'[e].status \in Decided =>
            exceptions'[e].status = exceptions[e].status
      BY <1>1, <1>4, <1>9, <2>2, DecisionTable
    <3> QED
      BY <2>2, <3>1, <3>2, <3>3, VerdictKept
  <2>3. CASE f # e
    <3>1. /\ exceptions'[f] = exceptions[f]
          /\ \A k : OfType(f, k)' = OfType(f, k)
      BY <1>9, <1>15, <2>3 DEF OfType
    <3> QED
      BY <3>1, VerdictKept
  <2> QED
    BY <2>1, <2>2, <2>3
<1> QED
  BY <1>1, <1>9, <1>12, <1>17, <1>19, DoneWork DEF XInv, XTypeOK

\* satisfy_condition and waive_condition.
LEMMA SettleInv ==
  ASSUME XInv, files' \subseteq Loan, NEW u \in Reviewer, CommitSettle(u)
  PROVE  XInv'
<1>0. PICK r : r = work[u]
  OBVIOUS
<1>1. /\ r.op = "settle"
      /\ decisions' = [decisions EXCEPT ![r.exc][r.arg.nr].condition = r.arg.to]
      /\ Done(u)
      /\ exceptions' = exceptions /\ events' = events
  BY <1>0 DEF CommitSettle
<1>2. InForce(r)
  BY <1>0 DEF XInv
<1>3. /\ r.exc \in Exc
      /\ r.arg \in [nr: Nat, to: ConditionStatus]
  BY <1>1, <1>2 DEF InForce
<1>4. PICK e \in Exc, n \in Nat, to \in ConditionStatus :
        e = r.exc /\ n = r.arg.nr /\ to = r.arg.to
  BY <1>3
<1>5. decisions \in [Exc -> Seq(Decision)]
  BY DEF XInv, XTypeOK
<1>6. PICK s \in Seq(Decision) : s = decisions[e]
  BY <1>5
<1>7. PICK t : t = [s EXCEPT ![n].condition = to]
  OBVIOUS
<1>8. decisions' = [decisions EXCEPT ![e] = t]
  BY <1>1, <1>4, <1>5, <1>6, <1>7
<1>9. ASSUME NEW d \in Decision
      PROVE  /\ [d EXCEPT !.condition = to] \in Decision
             /\ [d EXCEPT !.condition = to].type = d.type
  BY DEF Decision
<1>10. /\ t \in Seq(Decision) /\ DOMAIN t = DOMAIN s
       /\ \A i \in DOMAIN s : t[i].type = s[i].type
  <2>1. Len(s) \in Nat /\ DOMAIN s = 1 .. Len(s) /\ s \in [1 .. Len(s) -> Decision]
    OBVIOUS
  <2>2. ASSUME n \in DOMAIN s
        PROVE  /\ t \in [1 .. Len(s) -> Decision]
               /\ \A i \in DOMAIN s : t[i].type = s[i].type
    <3>1. PICK d \in Decision : d = s[n]
      BY <2>1, <2>2
    <3>2. PICK c \in Decision : c = [d EXCEPT !.condition = to] /\ c.type = d.type
      BY <1>9
    <3>3. t = [s EXCEPT ![n] = c]
      BY <1>7, <3>1, <3>2
    <3> QED
      BY <2>1, <3>1, <3>2, <3>3
  <2>3. ASSUME n \notin DOMAIN s
        PROVE  t = s
    BY <1>7, <2>1, <2>3
  <2>4. t \in [1 .. Len(s) -> Decision]
    BY <2>1, <2>2, <2>3
  <2>5. t \in Seq(Decision)
    BY <2>1, <2>4
  <2> QED
    BY <2>1, <2>2, <2>3, <2>4, <2>5
<1>11. /\ decisions' \in [Exc -> Seq(Decision)]
       /\ \A f \in Exc :
            /\ DOMAIN decisions'[f] = DOMAIN decisions[f]
            /\ \A i \in DOMAIN decisions[f] :
                 decisions'[f][i].type = decisions[f][i].type
  BY <1>5, <1>6, <1>8, <1>10
<1>12. \A f \in Exc : \A d : OfType(f, d)' = OfType(f, d)
  BY <1>11, OfTypeSame
<1>13. VerdictStands'
  <2>1. ASSUME NEW f \in Exc PROVE VerdictOf(f)'
    BY <1>1, <1>12, VerdictKept
  <2> QED
    BY <2>1 DEF VerdictStands, VerdictOf
<1>14. \A f \in Exc : decisions[f] = <<>> => decisions'[f] = <<>>
  <2>1. ASSUME NEW f \in Exc, decisions[f] = <<>> PROVE decisions'[f] = <<>>
    <3>1. PICK q \in Seq(Decision) : q = decisions'[f] /\ DOMAIN q = {}
      BY <1>11, <2>1
    <3>2. DOMAIN q = 1 .. Len(q) /\ Len(q) \in Nat
      BY <3>1, LenProperties
    <3>3. Len(q) = 0
      <4>1. PICK k \in Nat : k = Len(q) /\ 1 .. k = {}
        BY <3>1, <3>2
      <4>2. 1 \notin 1 .. k
        BY <4>1
      <4> QED
        BY <4>1, <4>2
    <3> QED
      BY <3>1, <3>3, EmptySeq
  <2> QED
    BY <2>1
<1>15. Lasts /\ RowsSound' /\ LogAccounts'
  BY <1>1, <1>12, <1>14, UnloggedCommit
<1> QED
  BY <1>1, <1>11, <1>13, <1>15, DoneWork DEF XInv, XTypeOK

\* link_exception_to_loan.
LEMMA LinkInv ==
  ASSUME XInv, files \subseteq Loan, files' \subseteq Loan,
         NEW u \in Reviewer, CommitLink(u)
  PROVE  XInv'
<1>0. PICK r : r = work[u]
  OBVIOUS
<1>1. /\ r.op = "link" /\ Alive(r.exc) /\ r.arg \in Loan
      /\ exceptions' = [exceptions EXCEPT ![r.exc].loan = r.arg]
      /\ Done(u)
      /\ decisions' = decisions /\ events' = events
  BY <1>0 DEF CommitLink
<1>2. InForce(r) /\ exceptions \in [Exc -> ExcRow]
  BY <1>0 DEF XInv, XTypeOK
<1>3. PICK e \in Exc : e = r.exc
  BY <1>1, <1>2 DEF InForce
<1>4. PICK row : row = [exceptions[e] EXCEPT !.loan = r.arg]
  OBVIOUS
<1>5. exceptions' = [exceptions EXCEPT ![e] = row]
  BY <1>1, <1>2, <1>3, <1>4
<1>6. exceptions[e] \in ExcRow
  BY <1>2
<1>7. /\ row \in ExcRow /\ row.status = exceptions[e].status
      /\ row.decided = exceptions[e].decided
  BY <1>1, <1>4, <1>6 DEF ExcRow
<1>8. /\ exceptions' \in [Exc -> ExcRow] /\ exceptions'[e] = row
      /\ \A f \in Exc \ {e} : exceptions'[f] = exceptions[f]
  BY <1>2, <1>5, <1>7
<1>9. \A f \in Exc : /\ exceptions'[f].status = exceptions[f].status
                     /\ exceptions'[f].decided = exceptions[f].decided
  BY <1>7, <1>8
<1>10. exceptions[e].status # "none"
  BY <1>1, <1>3 DEF Alive, Status, DecisionStatus
<1>11. \A f \in Exc : \A d : OfType(f, d)' = OfType(f, d)
  BY <1>1 DEF OfType
<1>12. Lasts /\ RowsSound' /\ LogAccounts'
  BY <1>1, <1>8, <1>9, <1>10, <1>11, UnloggedCommit
<1>13. VerdictStands'
  <2>1. ASSUME NEW f \in Exc PROVE VerdictOf(f)'
    BY <1>9, <1>11, VerdictKept
  <2> QED
    BY <2>1 DEF VerdictStands, VerdictOf
<1> QED
  BY <1>1, <1>8, <1>12, <1>13, DoneWork DEF XInv, XTypeOK

\* delete_exception, and the deletion of a loan.
LEMMA RemoveTables ==
  ASSUME XInv, NEW gone, Remove(gone)
  PROVE  /\ Lasts
         /\ RowsSound' /\ LogAccounts' /\ VerdictStands'
         /\ exceptions' \in [Exc -> ExcRow] /\ decisions' \in [Exc -> Seq(Decision)]
         /\ events' \in [Exc -> [Event -> Nat]]
<1>1. /\ NoExc("deleted").status = "deleted" /\ ~ NoExc("deleted").decided
      /\ "deleted" \notin Status /\ "deleted" \notin Decided
  BY DEF NoExc, Status, Decided, DecisionStatus, Terminal
<1>2. /\ exceptions \in [Exc -> ExcRow] /\ decisions \in [Exc -> Seq(Decision)]
      /\ events \in [Exc -> [Event -> Nat]]
  BY DEF XInv, XTypeOK
<1>3. \A e \in Exc :
        /\ e \in gone => /\ exceptions'[e] = NoExc("deleted")
                         /\ decisions'[e] = <<>> /\ events'[e] = NoEvents
        /\ e \notin gone => /\ exceptions'[e] = exceptions[e]
                            /\ decisions'[e] = decisions[e]
                            /\ events'[e] = events[e]
  BY DEF Remove
<1>4. /\ exceptions' \in [Exc -> ExcRow] /\ decisions' \in [Exc -> Seq(Decision)]
      /\ events' \in [Exc -> [Event -> Nat]]
  <2>1. exceptions' \in [Exc -> ExcRow]
    BY <1>2, RowTypes DEF Remove
  <2>2. <<>> \in Seq(Decision) /\ NoEvents \in [Event -> Nat]
    BY NoRecord
  <2>3. decisions' \in [Exc -> Seq(Decision)]
    BY <1>2, <2>2 DEF Remove
  <2>4. events' \in [Exc -> [Event -> Nat]]
    BY <1>2, <2>2 DEF Remove
  <2> QED
    BY <2>1, <2>3, <2>4
<1>5. \A e \in Exc : Alive(e)' => e \notin gone /\ Alive(e)
  BY <1>1, <1>3 DEF Alive
<1>6. Lasts
  BY <1>1, <1>3 DEF Lasts
<1>7. RowsSound'
  BY <1>1, <1>3 DEF XInv, RowsSound, Alive
<1>10. \A e \in Exc \ gone : \A d : OfType(e, d)' = OfType(e, d)
  BY <1>3 DEF OfType
<1>8. LogAccounts'
  BY <1>3, <1>5, <1>10 DEF XInv, LogAccounts
<1>9. VerdictStands'
  <2> SUFFICES ASSUME NEW e \in Exc PROVE VerdictOf(e)'
    BY DEF VerdictStands, VerdictOf
  <2>1. CASE e \in gone
    <3>1. \A d : OfType(e, d)' = {}
      BY <1>3, <2>1 DEF OfType
    <3> QED
      BY <1>1, <1>3, <2>1, <3>1 DEF VerdictOf
  <2>2. CASE e \notin gone
    BY <1>3, <1>10, <2>2, VerdictKept
  <2> QED
    BY <2>1, <2>2
<1> QED
  BY <1>4, <1>6, <1>7, <1>8, <1>9

\* The commit of delete_exception.
LEMMA DeleteInv ==
  ASSUME XInv, files' \subseteq Loan, NEW u \in Reviewer,
         CommitDeleteException(u)
  PROVE  XInv'
<1>1. Remove({work[u].exc}) /\ Done(u)
  BY DEF CommitDeleteException
<1> QED
  BY <1>1, RemoveTables, DoneWork DEF XInv, XTypeOK

\* The deletion of a loan and its exceptions.
LEMMA LoanGoneInv ==
  ASSUME XInv, files' \subseteq Loan, NEW l, LoanGone(l), work' = work
  PROVE  XInv'
<1>1. Remove({e \in Exc : exceptions[e].loan = l})
  BY DEF LoanGone
<1> QED
  BY <1>1, RemoveTables, SameWork DEF XInv, XTypeOK

\* create_exception.
LEMMA CreateInv ==
  ASSUME XInv, files \subseteq Loan, files' \subseteq Loan,
         NEW e \in Exc, NEW l, CreateException(e, l)
  PROVE  XInv'
<1>1. /\ exceptions[e].status = "none" /\ l \in Loan \cup {Null}
      /\ exceptions' = [exceptions EXCEPT ![e] = [@ EXCEPT !.status = "open",
                                                           !.loan = l]]
      /\ events' = [events EXCEPT ![e]["created"] = 1]
      /\ decisions' = decisions /\ work' = work
  BY DEF CreateException
<1>2. exceptions \in [Exc -> ExcRow] /\ events \in [Exc -> [Event -> Nat]]
  BY DEF XInv, XTypeOK
<1>3. PICK row : row = [exceptions[e] EXCEPT !.status = "open", !.loan = l]
  OBVIOUS
<1>4. "open" \in Status /\ "open" \notin Decided /\ "open" # "none"
  BY DEF Status, Decided, DecisionStatus, Terminal
<1>5. exceptions[e] \in ExcRow
  BY <1>2
<1>6. /\ row \in ExcRow /\ row.status = "open"
      /\ row.decided = exceptions[e].decided
  BY <1>1, <1>3, <1>4, <1>5 DEF ExcRow
<1>7. /\ exceptions' \in [Exc -> ExcRow] /\ exceptions'[e] = row
      /\ \A f \in Exc \ {e} : exceptions'[f] = exceptions[f]
  <2>1. exceptions' = [exceptions EXCEPT ![e] = row]
    BY <1>1, <1>3
  <2> QED
    BY <1>2, <1>6, <2>1
<1>8. /\ events[e] = NoEvents /\ decisions[e] = <<>>
      /\ exceptions[e].loan = Null /\ ~ Alive(e)
  BY <1>1 DEF XInv, RowsSound, Alive, Status, DecisionStatus
<1>9. PICK n \in [Event -> Nat] : n = [NoEvents EXCEPT !["created"] = 1]
  BY NoRecord
<1>10. /\ events' \in [Exc -> [Event -> Nat]] /\ events'[e] = n
       /\ \A f \in Exc \ {e} : events'[f] = events[f]
       /\ n["created"] = 1 /\ \A d \in DOMAIN DecisionStatus : n[d] = 0
  <2>1. events' = [events EXCEPT ![e] = n]
    BY <1>1, <1>2, <1>8, <1>9
  <2>2. n["created"] = 1 /\ \A d \in DOMAIN DecisionStatus : n[d] = 0
    BY <1>9, NoRecord, DecisionTable
  <2> QED
    BY <1>2, <2>1, <2>2
<1>11. Lasts
  BY <1>4, <1>6, <1>7 DEF Lasts
<1>12. RowsSound'
  <2> SUFFICES ASSUME NEW f \in Exc
               PROVE  /\ exceptions'[f].status = "none" => exceptions'[f].loan = Null
                      /\ exceptions'[f].status \notin Status =>
                           decisions[f] = <<>> /\ events'[f] = NoEvents
    BY <1>1 DEF RowsSound, Alive
  <2>1. CASE f = e
    BY <1>4, <1>6, <1>7, <2>1
  <2>2. CASE f # e
    BY <1>7, <1>10, <2>2 DEF XInv, RowsSound, Alive
  <2> QED
    BY <2>1, <2>2
<1>13. \A f \in Exc : \A d : OfType(f, d)' = OfType(f, d)
  BY <1>1 DEF OfType
<1>14. LogAccounts'
  <2> SUFFICES ASSUME NEW f \in Exc, exceptions'[f].status \in Status
               PROVE  /\ \E k \in Event : /\ events'[f][k] > 0
                                          /\ Announces(k) = exceptions'[f].status
                      /\ \A d \in DOMAIN DecisionStatus :
                           events'[f][d] = Cardinality(OfType(f, d))
    BY <1>13 DEF LogAccounts, Alive
  <2>1. CASE f = e
    <3>1. Announces("created") = "open" /\ 1 > 0
      BY DEF Announces
    <3>2. \A d : OfType(e, d) = {}
      BY <1>8 DEF OfType
    <3> QED
      BY <1>6, <1>7, <1>10, <2>1, <3>1, <3>2, NoRecord
  <2>2. CASE f # e
    <3>1. events'[f] = events[f] /\ exceptions'[f] = exceptions[f] /\ Alive(f)
      BY <1>7, <1>10, <2>2 DEF Alive
    <3> QED
      BY <3>1 DEF XInv, LogAccounts
  <2> QED
    BY <2>1, <2>2
<1>15. VerdictStands'
  <2> SUFFICES ASSUME NEW f \in Exc PROVE VerdictOf(f)'
    BY DEF VerdictStands, VerdictOf
  <2>1. CASE f = e
    BY <1>4, <1>6, <1>7, <1>13, <2>1, VerdictKept
  <2>2. CASE f # e
    BY <1>7, <1>13, <2>2, VerdictKept
  <2> QED
    BY <2>1, <2>2
<1> QED
  BY <1>1, <1>7, <1>10, <1>11, <1>12, <1>14, <1>15, SameWork DEF XInv, XTypeOK

-----------------------------------------------------------------------------
(* The theorems.                                                           *)

\* Nothing exists at first.
LEMMA InitInv == XInit => XInv
<1> SUFFICES ASSUME XInit PROVE XInv
  OBVIOUS
<1>1. /\ exceptions = [e \in Exc |-> NoExc("none")]
      /\ decisions = [e \in Exc |-> <<>>]
      /\ events = [e \in Exc |-> NoEvents]
      /\ work = [u \in Reviewer |-> NoWork] /\ files = Loan
  BY DEF XInit, XTablesInit
<1>2. /\ NoExc("none").status = "none" /\ ~ NoExc("none").decided
      /\ NoExc("none").loan = Null
      /\ "none" \notin Status /\ "none" \notin Decided
  BY DEF NoExc, Status, Decided, DecisionStatus, Terminal
<1>3. XTypeOK
  BY <1>1, RowTypes, NoRecord DEF XTypeOK
<1>4. \A e \in Exc : ~ Alive(e)
  BY <1>1, <1>2 DEF Alive
<1>5. RowsSound /\ LogAccounts
  BY <1>1, <1>2, <1>4 DEF RowsSound, LogAccounts
<1>6. \A u \in Reviewer : InForce(work[u])
  BY <1>1, RowTypes
<1>7. VerdictStands
  <2>1. \A e \in Exc : \A d : OfType(e, d) = {}
    BY <1>1 DEF OfType
  <2> QED
    BY <1>1, <1>2, <2>1 DEF VerdictStands
<1> QED
  BY <1>3, <1>5, <1>6, <1>7 DEF XInv

\* Each step on the exceptions, whatever loans exist.
LEMMA StepInv ==
  ASSUME XInv, files \subseteq Loan, files' \subseteq Loan, XStep
  PROVE  XInv'
<1>1. CASE \E e \in Exc, l \in Loan \cup {Null} : CreateException(e, l)
  BY <1>1, CreateInv
<1>2. ASSUME NEW u \in Reviewer, NEW e \in Exc, Review(u, e) PROVE XInv'
  BY <1>2, ReviewInv
<1>3. ASSUME NEW u \in Reviewer, ReviewCommit(u) PROVE XInv'
  BY <1>3, MoveInv, DecideInv, SettleInv, LinkInv, DeleteInv DEF ReviewCommit
<1>4. ASSUME NEW u \in Reviewer, Abandon(u) PROVE XInv'
  BY <1>4, AbandonInv
<1> QED
  BY <1>1, <1>2, <1>3, <1>4 DEF XStep

\* Every step keeps the invariant.
LEMMA NextInv == XInv /\ [XNext]_xvars => XInv'
<1> SUFFICES ASSUME XInv, [XNext]_xvars PROVE XInv'
  OBVIOUS
<1>0. files \subseteq Loan
  BY DEF XInv, XTypeOK
<1>1. CASE XStep /\ UNCHANGED files
  BY <1>0, <1>1, StepInv
<1>2. ASSUME NEW l \in files, LoanGone(l), files' = files \ {l}, UNCHANGED work
      PROVE  XInv'
  BY <1>0, <1>2, LoanGoneInv
<1>3. CASE UNCHANGED xvars
  <2>1. UNCHANGED xtables /\ work' = work /\ files' = files
    BY <1>3 DEF xvars, xtables
  <2> QED
    BY <2>1, SameTables, SameWork DEF XInv, XTypeOK
<1> QED
  BY <1>1, <1>2, <1>3 DEF XNext

\* The invariant holds for ever.
LEMMA InvHolds == XSpec => []XInv
<1> QED
  BY InitInv, NextInv, PTL DEF XSpec

\* Rows, decisions, logs and requests keep their shapes, whatever exceptions
\* and loans come and go under the requests.
THEOREM XTypeCorrect == XSpec => []XTypeOK
<1>1. XInv => XTypeOK
  BY DEF XInv
<1> QED
  BY <1>1, InvHolds, PTL

\* The log of an exception accounts for its status and its decisions, however
\* many sessions overlap and however long it gets.
THEOREM LogTells == XSpec => []LogAccounts
<1>1. XInv => LogAccounts
  BY DEF XInv
<1> QED
  BY <1>1, InvHolds, PTL

\* An approved or denied exception has a verdict in its record that says so, and
\* an exception with a verdict is marked as decided, whatever raced with it.
THEOREM VerdictHolds == XSpec => []VerdictStands
<1>1. XInv => VerdictStands
  BY DEF XInv
<1> QED
  BY <1>1, InvHolds, PTL

-----------------------------------------------------------------------------
(* What no step changes.                                                   *)

\* A step keeps e's status and loan, but for what a stale request may do.
Stays(e) ==
  exceptions'[e].status \in Status =>
    /\ exceptions[e].status \in Decided =>
         \/ exceptions'[e].status = exceptions[e].status
         \/ \E u \in Reviewer : /\ work[u].exc = e
                                /\ work[u].seen.status \notin Decided
    /\ exceptions[e].loan # Null =>
         \/ exceptions'[e].loan = exceptions[e].loan
         \/ \E u \in Reviewer : /\ work[u].exc = e
                                /\ work[u].seen.loan = Null

\* An UPDATE by a session that loaded the row before it was decided.
LEMMA UpdateStays ==
  ASSUME XInv, NEW u \in Reviewer, NEW s, NEW b,
         exceptions' = [exceptions EXCEPT
                          ![work[u].exc] = Written(@, work[u].seen, s, b)],
         work[u].seen.status \notin Decided,
         NEW e \in Exc
  PROVE  Stays(e)
<1>1. exceptions \in [Exc -> ExcRow]
  BY DEF XInv, XTypeOK
<1>2. CASE e = work[u].exc
  <2>1. exceptions'[e] = Written(exceptions[e], work[u].seen, s, b)
    BY <1>1, <1>2
  <2>2. exceptions[e] \in ExcRow
    BY <1>1
  <2>3. exceptions'[e].loan = exceptions[e].loan
    BY <2>1, <2>2 DEF Written, ExcRow
  <2> QED
    BY <1>2, <2>3 DEF Stays
<1>3. CASE e # work[u].exc
  <2>1. exceptions'[e] = exceptions[e]
    BY <1>1, <1>3
  <2> QED
    BY <2>1 DEF Stays
<1> QED
  BY <1>2, <1>3

\* A step that removes exceptions keeps the others.
LEMMA RemoveStays ==
  ASSUME NEW gone, Remove(gone), NEW e \in Exc
  PROVE  Stays(e)
<1>1. NoExc("deleted").status \notin Status
  BY DEF NoExc, Status, DecisionStatus
<1>2. exceptions'[e] = IF e \in gone THEN NoExc("deleted") ELSE exceptions[e]
  BY DEF Remove
<1> QED
  BY <1>1, <1>2 DEF Stays

\* No step on the exceptions undoes what is decided but a stale request's.
LEMMA StepStays ==
  ASSUME XInv, XStep, NEW e \in Exc
  PROVE  Stays(e)
<1>1. CASE UNCHANGED exceptions
  BY <1>1 DEF Stays
<1>2. ASSUME NEW f \in Exc, NEW l, CreateException(f, l) PROVE Stays(e)
  <2>1. exceptions \in [Exc -> ExcRow] /\ exceptions[f].status = "none"
    BY <1>2 DEF XInv, XTypeOK, CreateException
  <2>2. CASE e = f
    <3>1. "none" \notin Decided
      BY DEF Decided, Terminal, DecisionStatus
    <3>2. exceptions[e].loan = Null
      BY <2>1, <2>2 DEF XInv, RowsSound
    <3> QED
      BY <2>1, <2>2, <3>1, <3>2 DEF Stays
  <2>3. CASE e # f
    <3>1. exceptions'[e] = exceptions[e]
      BY <1>2, <2>1, <2>3 DEF CreateException
    <3> QED
      BY <3>1 DEF Stays
  <2> QED
    BY <2>2, <2>3
<1>3. ASSUME NEW u \in Reviewer, CommitMove(u) PROVE Stays(e)
  <2>1. work[u].seen.status \in Moves[work[u].op].from /\ work[u].op \in DOMAIN Moves
    BY <1>3 DEF CommitMove, XInv, InForce
  <2>2. work[u].seen.status \notin Decided
    BY <2>1, MoveTable
  <2> QED
    BY <1>3, <2>2, UpdateStays DEF CommitMove
<1>4. ASSUME NEW u \in Reviewer, CommitDecide(u) PROVE Stays(e)
  <2>1. work[u].seen.status \in Decidable
    BY <1>4 DEF CommitDecide, XInv, InForce
  <2>2. work[u].seen.status \notin Decided
    BY <2>1, DecisionTable
  <2>3. PICK s, b : s = DecisionStatus[work[u].op] /\ b = (work[u].op \in Terminal)
    OBVIOUS
  <2>4. exceptions' = [exceptions EXCEPT
                         ![work[u].exc] = Written(@, work[u].seen, s, b)]
    BY <1>4, <2>3 DEF CommitDecide
  <2> QED
    BY <2>2, <2>4, UpdateStays
<1>5. ASSUME NEW u \in Reviewer, CommitLink(u) PROVE Stays(e)
  <2>1. /\ exceptions \in [Exc -> ExcRow] /\ work[u].seen.loan = Null
        /\ exceptions' = [exceptions EXCEPT ![work[u].exc].loan = work[u].arg]
    BY <1>5 DEF CommitLink, XInv, XTypeOK, InForce
  <2>2. exceptions[e] \in ExcRow
    BY <2>1
  <2>3. exceptions'[e].status = exceptions[e].status
    BY <2>1, <2>2 DEF ExcRow
  <2>4. CASE e = work[u].exc
    BY <2>1, <2>3, <2>4 DEF Stays
  <2>5. CASE e # work[u].exc
    <3>1. exceptions'[e] = exceptions[e]
      BY <2>1, <2>5
    <3> QED
      BY <3>1 DEF Stays
  <2> QED
    BY <2>4, <2>5
<1>6. ASSUME NEW u \in Reviewer, CommitDeleteException(u) PROVE Stays(e)
  BY <1>6, RemoveStays DEF CommitDeleteException
<1>7. \/ UNCHANGED exceptions
      \/ \E f \in Exc, l \in Loan \cup {Null} : CreateException(f, l)
      \/ \E u \in Reviewer :
           \/ CommitMove(u) \/ CommitDecide(u) \/ CommitLink(u)
           \/ CommitDeleteException(u)
  <2>1. ASSUME NEW u \in Reviewer, NEW f \in Exc, Review(u, f)
        PROVE  UNCHANGED exceptions
    BY <2>1 DEF Review, BeginMove, BeginDecide, BeginSettle, BeginLink,
                BeginDeleteException, Begin, xtables
  <2>2. ASSUME NEW u \in Reviewer, CommitSettle(u) \/ Abandon(u)
        PROVE  UNCHANGED exceptions
    BY <2>2 DEF CommitSettle, Abandon, xtables
  <2> QED
    BY <2>1, <2>2 DEF XStep, ReviewCommit
<1> QED
  BY <1>1, <1>2, <1>3, <1>4, <1>5, <1>6, <1>7

\* A decision, and the loan an exception is linked to, are undone only by a
\* request that loaded the exception before.
THEOREM DecisionsStay == XSpec => DecidedStays
<1>1. XInv /\ [XNext]_xvars => [\A e \in Exc : Stays(e)]_xvars
  <2> SUFFICES ASSUME XInv, [XNext]_xvars, NEW e \in Exc PROVE Stays(e)
    OBVIOUS
  <2>1. CASE XStep
    BY <2>1, StepStays
  <2>2. ASSUME NEW l \in files, LoanGone(l) PROVE Stays(e)
    BY <2>2, RemoveStays DEF LoanGone
  <2>3. CASE UNCHANGED xvars
    BY <2>3 DEF xvars, Stays
  <2> QED
    BY <2>1, <2>2, <2>3 DEF XNext
<1> QED
  BY <1>1, InvHolds, PTL DEF XSpec, DecidedStays, Stays

=============================================================================
