------------------------------ MODULE LoanSlot ------------------------------
(***************************************************************************)
(* What the lock desk promises about a loan, whatever the requests do and  *)
(* however they overlap: each loan has one slot, the slot holds at most    *)
(* one lock, and a lock never takes the slot from another one except as    *)
(* its relock, a lock that has never been in any slot before.              *)
(*                                                                         *)
(* CmLocks implements this with a partial unique index over cm_locks and   *)
(* one database transaction per request.                                   *)
(***************************************************************************)
CONSTANTS
  Loan,      \* loans
  LockId     \* identifiers of locks, 0 not among them

VARIABLES
  holder,    \* the lock in the slot of each loan, 0 when the slot is free
  seen       \* the locks that have been in a slot

vars == <<holder, seen>>

Init ==
  /\ holder = [l \in Loan |-> 0]
  /\ seen = {}

\* A free slot is taken, by a fresh lock or by one that held it before.
Take(l, k) ==
  /\ holder[l] = 0
  /\ holder' = [holder EXCEPT ![l] = k]
  /\ seen' = seen \cup {k}

\* The lock in the slot expires.
Release(l) ==
  /\ holder[l] # 0
  /\ holder' = [holder EXCEPT ![l] = 0]
  /\ UNCHANGED seen

\* A relock: the slot goes to a lock that has never held one.
HandOver(l, k) ==
  /\ holder[l] # 0
  /\ k \notin seen
  /\ holder' = [holder EXCEPT ![l] = k]
  /\ seen' = seen \cup {k}

Next ==
  \E l \in Loan :
    \/ \E k \in LockId : Take(l, k) \/ HandOver(l, k)
    \/ Release(l)

Spec == Init /\ [][Next]_vars

=============================================================================
