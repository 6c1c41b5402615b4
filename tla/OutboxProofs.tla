---------------------------- MODULE OutboxProofs ----------------------------
(***************************************************************************)
(* Proofs about Outbox: its types, that nothing is told or stamped that    *)
(* was not committed, the order in which events are handled, and how often *)
(* one event can be handled.                                               *)
(***************************************************************************)
EXTENDS Outbox, FiniteSetTheorems, TLAPS

\* Weak types: what each action needs of the values it reads.
Types ==
  /\ server \in {"down", "starting", "serving"}
  /\ state \in [Event -> {"new", "staged", "committed", "lost"}]
  /\ now \in Nat
  /\ occurred \in [Event -> Nat]
  /\ processed \subseteq Event
  /\ mailed \subseteq Event
  /\ tasks \in Nat
  /\ run \in [Dispatcher -> [busy : BOOLEAN, todo : SUBSET Event,
                            done : SUBSET Event]]
  /\ attempts \in [Event -> Nat]
  /\ seen \in [Event -> SUBSET Event]
  /\ crashes \in Nat
  /\ failures \in Nat

\* The stamps of the clock tell events apart, and a new event has none.
Stamped ==
  /\ \A e \in Event : occurred[e] <= now
  /\ \A e \in Event : occurred[e] = 0 <=> state[e] = "new"
  /\ \A e, f \in Event : occurred[e] = occurred[f] /\ occurred[e] > 0 => e = f

\* A thread holds events only while it runs, each either to do or done.
Idle ==
  \A d \in Dispatcher :
    /\ ~ run[d].busy => run[d] = NoRun
    /\ run[d].todo \cap run[d].done = {}

\* What runs hold or have handled is committed, and what they have done was
\* handled.
Held ==
  /\ \A d \in Dispatcher :
       /\ run[d].todo \cup run[d].done \subseteq Committed
       /\ \A e \in run[d].done : attempts[e] > 0
  /\ \A e \in Event : attempts[e] > 0 => e \in Committed

\* An event sees committed events of earlier times only.
SeenEarlier ==
  /\ IsFiniteSet(Committed)
  /\ \A e \in Event : \A c \in seen[e] : c \in Committed /\ Before(c, e)

\* A run that is to handle an event handles before it what the event's handler
\* could have read of, unless that was handled already.
Causes ==
  \A d \in Dispatcher : \A e \in run[d].todo : \A c \in seen[e] :
    c \in run[d].todo \/ attempts[c] > 0

\* The threads that have event e to do, and those that have it done.
ToDo(e) == {d \in Dispatcher : e \in run[d].todo}
Done(e) == {d \in Dispatcher : e \in run[d].done}

\* How often an event can have been handled, less the times to come for the
\* threads that still have it to do.
Attempted ==
  \A e \in Event :
    attempts[e] <=
      failures + crashes * Cardinality(Dispatcher) +
      IF e \in processed
      THEN Cardinality(Dispatcher) - Cardinality(ToDo(e))
      ELSE Cardinality(Done(e))

\* The inductive invariant.
IInv ==
  Types /\ Stamped /\ Idle /\ Held /\ SeenEarlier /\ NoPhantoms /\ Causes
  /\ CausalOrder /\ Attempted


-----------------------------------------------------------------------------
(* Each part of the invariant, by the actions that disturb it.             *)

\* The record of a run that handles an event.
LEMMA EndsTyped ==
  ASSUME NEW f \in [Dispatcher -> [busy : BOOLEAN, todo : SUBSET Event,
                                  done : SUBSET Event]],
         NEW d \in Dispatcher, NEW e \in Event
  PROVE  [f EXCEPT ![d].todo = @ \ {e}, ![d].done = @ \cup {e}]
           \in [Dispatcher -> [busy : BOOLEAN, todo : SUBSET Event,
                              done : SUBSET Event]]
  OBVIOUS

\* Every action keeps the types.
LEMMA TypesStep == ASSUME Types, [Next]_vars PROVE Types'
<1>1. ASSUME NEW e \in Event, Emit(e) PROVE Types'
  BY <1>1 DEF Types, Emit, Tick, Committed
<1>2. ASSUME NEW e \in Event, CommitEvent(e) PROVE Types'
  BY <1>2 DEF Types, CommitEvent, TasksAfter, ghosts
<1>3. ASSUME NEW e \in Event, RollbackEvent(e) PROVE Types'
  BY <1>3 DEF Types, RollbackEvent, ghosts
<1>4. ASSUME NEW d \in Dispatcher, BeginRun(d) PROVE Types'
  BY <1>4 DEF Types, BeginRun, First, Unprocessed, Committed, outboxVars
<1>5. ASSUME NEW d \in Dispatcher, Handle(d) PROVE Types'
  <2>1. PICK e \in First(1, run[d].todo) :
          /\ run' = [run EXCEPT ![d].todo = @ \ {e}, ![d].done = @ \cup {e}]
          /\ mailed' \in {mailed, mailed \cup {e}}
          /\ attempts' = [attempts EXCEPT ![e] = @ + 1]
    BY <1>5 DEF Handle
  <2>2. e \in Event
    BY <2>1 DEF First, Types
  <2>3. run' \in [Dispatcher -> [busy : BOOLEAN, todo : SUBSET Event,
                                done : SUBSET Event]]
    BY <2>1, <2>2, EndsTyped DEF Types
  <2>4. mailed' \subseteq Event /\ attempts' \in [Event -> Nat]
    BY <2>1, <2>2 DEF Types
  <2> QED BY <1>5, <2>3, <2>4 DEF Types, Handle, outboxVars
<1>6. ASSUME NEW d \in Dispatcher, EndRun(d) PROVE Types'
  BY <1>6 DEF Types, EndRun, Stamps, Serving, NoRun, ghosts
<1>7. ASSUME NEW d \in Dispatcher, FailRun(d) PROVE Types'
  BY <1>7 DEF Types, FailRun, Serving, NoRun, ghosts, outboxVars
<1>8. ASSUME Crash PROVE Types'
  BY <1>8 DEF Types, Crash, NoRun, ghosts
<1>9. ASSUME Restart PROVE Types'
  BY <1>9 DEF Types, Restart, StartupTasks, ghosts, outboxVars
<1>10. ASSUME UNCHANGED vars PROVE Types'
  BY <1>10 DEF Types, vars, ghosts, outboxVars
<1> QED
  BY <1>1, <1>2, <1>3, <1>4, <1>5, <1>6, <1>7, <1>8, <1>9, <1>10 DEF Next

\* Only an emission stamps an event, with a time of its own.
LEMMA StampedStep == ASSUME Types, Stamped, [Next]_vars PROVE Stamped'
<1>1. ASSUME NEW e \in Event, Emit(e) PROVE Stamped'
  BY <1>1 DEF Types, Stamped, Emit, Tick
<1>2. ASSUME NEW e \in Event, CommitEvent(e) \/ RollbackEvent(e) PROVE Stamped'
  BY <1>2 DEF Types, Stamped, CommitEvent, RollbackEvent
<1>3. ASSUME NEW d \in Dispatcher,
             BeginRun(d) \/ Handle(d) \/ EndRun(d) \/ FailRun(d)
      PROVE  Stamped'
  BY <1>3 DEF Stamped, BeginRun, Handle, EndRun, FailRun, outboxVars
<1>4. ASSUME Crash PROVE Stamped'
  BY <1>4 DEF Types, Stamped, Crash
<1>5. ASSUME Restart \/ UNCHANGED vars PROVE Stamped'
  BY <1>5 DEF Stamped, Restart, vars, outboxVars
<1> QED
  BY <1>1, <1>2, <1>3, <1>4, <1>5 DEF Next

\* What Handle handles is the earliest of what the run has to do.
LEMMA HandleFacts ==
  ASSUME Types, SeenEarlier, Held, NEW d \in Dispatcher, Handle(d)
  PROVE  \E e \in run[d].todo :
           /\ e \in Event
           /\ \A c \in run[d].todo : ~ Before(c, e)
           /\ run' = [run EXCEPT ![d].todo = @ \ {e}, ![d].done = @ \cup {e}]
           /\ mailed' \in {mailed, mailed \cup {e}}
           /\ attempts' = [attempts EXCEPT ![e] = @ + 1]
<1>1. PICK e \in First(1, run[d].todo) :
          /\ run' = [run EXCEPT ![d].todo = @ \ {e}, ![d].done = @ \cup {e}]
          /\ mailed' \in {mailed, mailed \cup {e}}
          /\ attempts' = [attempts EXCEPT ![e] = @ + 1]
  BY DEF Handle
<1>2. e \in run[d].todo /\ e \in Event
  BY <1>1 DEF First, Types
<1> DEFINE S == {c \in run[d].todo : Before(c, e)}
<1>3. IsFiniteSet(S)
  <2>1. S \subseteq Committed
    BY DEF Held
  <2> QED BY <2>1, FS_Subset DEF SeenEarlier
<1>4. Cardinality(S) < 1 /\ Cardinality(S) \in Nat
  BY <1>1, <1>3, FS_CardinalityType DEF First
<1>5. S = {}
  BY <1>3, <1>4, FS_EmptySet
<1> QED BY <1>1, <1>2, <1>5

\* A run's marks go when it ends, and what it takes is still to do.
LEMMA IdleStep ==
  ASSUME Types, Idle, Held, SeenEarlier, [Next]_vars PROVE Idle'
<1>1. ASSUME NEW d \in Dispatcher, BeginRun(d) PROVE Idle'
  BY <1>1 DEF Types, Idle, BeginRun
<1>2. ASSUME NEW d \in Dispatcher, Handle(d) PROVE Idle'
  <2>1. PICK e \in run[d].todo :
           /\ e \in Event
           /\ run' = [run EXCEPT ![d].todo = @ \ {e}, ![d].done = @ \cup {e}]
    BY <1>2, HandleFacts
  <2>2. /\ run'[d].todo = run[d].todo \ {e}
        /\ run'[d].done = run[d].done \cup {e}
        /\ run'[d].busy = run[d].busy
        /\ \A c \in Dispatcher \ {d} : run'[c] = run[c]
    BY <2>1 DEF Types
  <2>3. run'[d].busy
    BY <1>2, <2>2 DEF Handle
  <2> QED BY <2>2, <2>3 DEF Idle
<1>3. ASSUME NEW d \in Dispatcher, EndRun(d) \/ FailRun(d) PROVE Idle'
  <2>1. run'[d] = NoRun /\ \A c \in Dispatcher \ {d} : run'[c] = run[c]
    BY <1>3 DEF Types, EndRun, FailRun
  <2> QED BY <2>1 DEF Idle, NoRun
<1>4. ASSUME Crash PROVE Idle'
  BY <1>4 DEF Types, Idle, Crash, NoRun
<1>5. ASSUME UNCHANGED run PROVE Idle'
  BY <1>5 DEF Idle
<1> QED
  BY <1>1, <1>2, <1>3, <1>4, <1>5
  DEF Next, Emit, CommitEvent, RollbackEvent, Restart, vars

\* A committed event stays committed.
LEMMA CommittedStays ==
  ASSUME Types, [Next]_vars PROVE Committed \subseteq Committed'
<1>1. ASSUME NEW e \in Event, Emit(e) \/ CommitEvent(e) \/ RollbackEvent(e)
      PROVE  Committed \subseteq Committed'
  BY <1>1 DEF Types, Committed, Emit, CommitEvent, RollbackEvent
<1>2. ASSUME Crash PROVE Committed \subseteq Committed'
  BY <1>2 DEF Types, Committed, Crash
<1>3. ASSUME UNCHANGED state PROVE Committed \subseteq Committed'
  BY <1>3 DEF Committed
<1> QED
  BY <1>1, <1>2, <1>3
  DEF Next, BeginRun, Handle, EndRun, FailRun, Restart, vars, outboxVars

\* What was handled stays handled.
LEMMA AttemptsGrow ==
  ASSUME Types, Held, SeenEarlier, [Next]_vars
  PROVE  \A e \in Event : attempts[e] > 0 => attempts'[e] > 0
<1>1. ASSUME NEW d \in Dispatcher, Handle(d)
      PROVE  \A e \in Event : attempts[e] > 0 => attempts'[e] > 0
  <2>1. PICK e \in Event : attempts' = [attempts EXCEPT ![e] = @ + 1]
    BY <1>1, HandleFacts
  <2> QED BY <2>1 DEF Types
<1>2. ASSUME UNCHANGED attempts
      PROVE  \A e \in Event : attempts[e] > 0 => attempts'[e] > 0
  BY <1>2
<1> QED
  BY <1>1, <1>2
  DEF Next, Emit, CommitEvent, RollbackEvent, BeginRun, EndRun, FailRun, Crash,
      Restart, vars, ghosts

\* Runs load what is committed.
LEMMA HeldStep ==
  ASSUME Types, Idle, Held, SeenEarlier, [Next]_vars PROVE Held'
<1>0. /\ Committed \subseteq Committed'
      /\ \A e \in Event : attempts[e] > 0 => attempts'[e] > 0
  BY CommittedStays, AttemptsGrow
<1>1. ASSUME NEW d \in Dispatcher, BeginRun(d) PROVE Held'
  <2>1. run'[d].todo \subseteq Committed /\ run'[d].done = {}
    BY <1>1 DEF Types, BeginRun, First, Unprocessed
  <2>2. \A c \in Dispatcher \ {d} : run'[c] = run[c]
    BY <1>1 DEF Types, BeginRun
  <2>3. attempts' = attempts
    BY <1>1 DEF BeginRun
  <2> QED BY <1>0, <2>1, <2>2, <2>3 DEF Held, Types
<1>2. ASSUME NEW d \in Dispatcher, Handle(d) PROVE Held'
  <2>1. PICK e \in run[d].todo :
           /\ e \in Event
           /\ run' = [run EXCEPT ![d].todo = @ \ {e}, ![d].done = @ \cup {e}]
           /\ attempts' = [attempts EXCEPT ![e] = @ + 1]
    BY <1>2, HandleFacts
  <2>2. attempts'[e] > 0
    BY <2>1 DEF Types
  <2> QED BY <1>0, <2>1, <2>2 DEF Held, Types
<1>3. ASSUME NEW d \in Dispatcher, run' = [run EXCEPT ![d] = NoRun],
             UNCHANGED attempts
      PROVE  Held'
  BY <1>0, <1>3 DEF Held, Types, NoRun
<1>4. ASSUME Crash PROVE Held'
  BY <1>0, <1>4 DEF Held, Types, Crash, NoRun, ghosts
<1>5. ASSUME UNCHANGED <<run, attempts>> PROVE Held'
  BY <1>0, <1>5 DEF Held, Types
<1> QED
  BY <1>1, <1>2, <1>3, <1>4, <1>5
  DEF Next, Emit, CommitEvent, RollbackEvent, EndRun, FailRun, Restart, vars,
      ghosts

\* An emission comes after all that is committed by then.
LEMMA SeenEarlierStep ==
  ASSUME Types, Stamped, SeenEarlier, [Next]_vars PROVE SeenEarlier'
<1>0. Committed \subseteq Committed'
  BY CommittedStays
<1>1. ASSUME NEW e \in Event, Emit(e) PROVE SeenEarlier'
  <2>1. Committed' = Committed
    BY <1>1 DEF Types, Committed, Emit
  <2>2. ASSUME NEW f \in Event, NEW c \in seen'[f]
        PROVE  c \in Committed' /\ Before(c, f)'
    <3>1. CASE f = e
      BY <1>1, <2>1, <3>1 DEF Types, Emit, Tick, Stamped, Before, Committed
    <3>2. CASE f # e
      <4>1. c \in Committed /\ Before(c, f)
        BY <1>1, <3>2 DEF Types, Emit, SeenEarlier
      <4> QED BY <1>1, <2>1, <3>2, <4>1 DEF Types, Emit, Before, Committed
    <3> QED BY <3>1, <3>2
  <2> QED BY <2>1, <2>2 DEF SeenEarlier
<1>2. ASSUME NEW e \in Event, CommitEvent(e) PROVE SeenEarlier'
  <2>1. Committed' \subseteq Committed \cup {e}
    BY <1>2 DEF Types, Committed, CommitEvent
  <2>2. IsFiniteSet(Committed')
    BY <2>1, FS_AddElement, FS_Subset DEF SeenEarlier
  <2> QED BY <1>0, <1>2, <2>2 DEF SeenEarlier, CommitEvent, Before, ghosts
<1>3. ASSUME Committed' = Committed, UNCHANGED <<occurred, seen>>
      PROVE  SeenEarlier'
  BY <1>3 DEF SeenEarlier, Before
<1>4. ASSUME NEW e \in Event, RollbackEvent(e) PROVE Committed' = Committed
  BY <1>4 DEF Types, Committed, RollbackEvent
<1>5. ASSUME Crash PROVE Committed' = Committed
  BY <1>5 DEF Types, Committed, Crash
<1>6. ASSUME UNCHANGED state PROVE Committed' = Committed
  BY <1>6 DEF Committed
<1> QED
  BY <1>1, <1>2, <1>3, <1>4, <1>5, <1>6
  DEF Next, RollbackEvent, BeginRun, Handle, EndRun, FailRun, Crash, Restart,
      vars, outboxVars, ghosts

\* Mail is sent for, and marks are set on, what a run holds.
LEMMA NoPhantomsStep ==
  ASSUME Types, Held, SeenEarlier, NoPhantoms, [Next]_vars PROVE NoPhantoms'
<1>0. /\ Committed \subseteq Committed'
      /\ \A e \in Event : attempts[e] > 0 => attempts'[e] > 0
  BY CommittedStays, AttemptsGrow
<1>1. ASSUME NEW d \in Dispatcher, Handle(d) PROVE NoPhantoms'
  <2>1. mailed' \subseteq mailed \cup run[d].todo
    <3>1. PICK e \in run[d].todo : mailed' \in {mailed, mailed \cup {e}}
      BY <1>1, HandleFacts
    <3> QED BY <3>1
  <2> QED BY <1>0, <1>1, <2>1 DEF NoPhantoms, Held, Handle, outboxVars, Types
<1>2. ASSUME NEW d \in Dispatcher, EndRun(d) PROVE NoPhantoms'
  BY <1>0, <1>2 DEF NoPhantoms, Held, EndRun, Stamps, Types
<1>3. ASSUME UNCHANGED <<mailed, processed>> PROVE NoPhantoms'
  BY <1>0, <1>3 DEF NoPhantoms, Types
<1> QED
  BY <1>1, <1>2, <1>3
  DEF Next, Emit, CommitEvent, RollbackEvent, BeginRun, FailRun, Crash,
      Restart, vars, outboxVars

\* The events that a load finds before one that it takes, it takes.
LEMMA FirstIsPrefix ==
  ASSUME Types, NEW S \in SUBSET Event, IsFiniteSet(S),
         NEW n \in Nat, NEW e \in First(n, S), NEW c \in S, Before(c, e)
  PROVE  c \in First(n, S)
<1> DEFINE B(x) == {y \in S : Before(y, x)}
<1>1. IsFiniteSet(B(e)) /\ IsFiniteSet(B(c))
  <2>1. B(e) \subseteq S /\ B(c) \subseteq S
    OBVIOUS
  <2> QED BY <2>1, FS_Subset
<1>2. B(c) \subseteq B(e)
  BY DEF Before, Types, First
<1>3. Cardinality(B(c)) <= Cardinality(B(e))
  BY <1>1, <1>2, FS_Subset
<1>4. Cardinality(B(e)) < n
  BY DEF First
<1>5. Cardinality(B(c)) \in Nat /\ Cardinality(B(e)) \in Nat
  BY <1>1, FS_CardinalityType
<1>6. Cardinality(B(c)) < n
  BY <1>3, <1>4, <1>5
<1> QED BY <1>6 DEF First

\* A load takes the causes of an event with it, or they are processed.
LEMMA LoadedWithCauses ==
  ASSUME Types, SeenEarlier, NoPhantoms,
         NEW e \in First(Batch, Unprocessed), NEW c \in seen[e]
  PROVE  c \in First(Batch, Unprocessed) \/ attempts[c] > 0
<1>1. e \in Event /\ c \in Committed /\ Before(c, e)
  BY DEF First, Unprocessed, Committed, SeenEarlier
<1>2. CASE c \in processed
  BY <1>2 DEF NoPhantoms
<1>3. CASE c \notin processed
  <2>1. c \in Unprocessed /\ Unprocessed \in SUBSET Event
    BY <1>1, <1>3 DEF Unprocessed, Committed
  <2>2. IsFiniteSet(Unprocessed)
    BY FS_Subset DEF Unprocessed, SeenEarlier
  <2> QED BY <1>1, <2>1, <2>2, FirstIsPrefix, OutboxAssumption
<1> QED BY <1>2, <1>3

\* Runs keep the causes of what they have to do.
LEMMA CausesStep ==
  ASSUME Types, Stamped, Idle, Held, SeenEarlier, NoPhantoms, Causes,
         [Next]_vars
  PROVE  Causes'
<1>0. \A e \in Event : attempts[e] > 0 => attempts'[e] > 0
  BY AttemptsGrow
<1>1. ASSUME NEW e \in Event, Emit(e) PROVE Causes'
  <2>1. \A d \in Dispatcher : e \notin run[d].todo
    BY <1>1 DEF Emit, Held, Committed
  <2> QED BY <1>1, <2>1 DEF Emit, Causes, Types
<1>2. ASSUME NEW d \in Dispatcher, BeginRun(d) PROVE Causes'
  <2>1. run'[d].todo = First(Batch, Unprocessed)
    BY <1>2 DEF BeginRun, Types
  <2>2. \A b \in Dispatcher \ {d} : run'[b] = run[b]
    BY <1>2 DEF BeginRun, Types
  <2>3. \A x \in First(Batch, Unprocessed) : \A c \in seen[x] :
          c \in First(Batch, Unprocessed) \/ attempts[c] > 0
    BY LoadedWithCauses
  <2>4. UNCHANGED <<attempts, seen>>
    BY <1>2 DEF BeginRun
  <2> QED BY <2>1, <2>2, <2>3, <2>4 DEF Causes
<1>3. ASSUME NEW d \in Dispatcher, Handle(d) PROVE Causes'
  <2>1. PICK e \in run[d].todo :
           /\ e \in Event
           /\ run' = [run EXCEPT ![d].todo = @ \ {e}, ![d].done = @ \cup {e}]
           /\ attempts' = [attempts EXCEPT ![e] = @ + 1]
    BY <1>3, HandleFacts
  <2>2. attempts'[e] > 0
    BY <2>1 DEF Types
  <2>3. run'[d].todo = run[d].todo \ {e}
    BY <2>1 DEF Types
  <2>4. \A b \in Dispatcher \ {d} : run'[b] = run[b]
    BY <2>1 DEF Types
  <2>5. seen' = seen /\ \A x \in Event : seen[x] \subseteq Event
    BY <1>3 DEF Handle, Types
  <2>6. \A b \in Dispatcher : run[b].todo \subseteq Event
    BY DEF Types
  <2>7. ASSUME NEW b \in Dispatcher, NEW x \in run'[b].todo, NEW c \in seen'[x]
        PROVE  c \in run'[b].todo \/ attempts'[c] > 0
    <3>1. x \in run[b].todo /\ x \in Event /\ c \in seen[x] /\ c \in Event
      BY <2>3, <2>4, <2>5, <2>6, <2>7
    <3>2. c \in run[b].todo \/ attempts[c] > 0
      BY <3>1 DEF Causes
    <3> QED BY <1>0, <2>2, <2>3, <2>4, <3>1, <3>2
  <2> QED BY <2>7 DEF Causes
<1>4. ASSUME NEW d \in Dispatcher, EndRun(d) \/ FailRun(d) PROVE Causes'
  <2>1. run'[d] = NoRun /\ \A c \in Dispatcher \ {d} : run'[c] = run[c]
    BY <1>4 DEF Types, EndRun, FailRun
  <2>2. UNCHANGED <<attempts, seen>>
    BY <1>4 DEF EndRun, FailRun, ghosts
  <2> QED BY <2>1, <2>2 DEF Causes, NoRun
<1>5. ASSUME Crash PROVE Causes'
  BY <1>5 DEF Crash, NoRun, Causes, ghosts
<1>6. ASSUME UNCHANGED <<run, attempts, seen>> PROVE Causes'
  BY <1>6 DEF Causes
<1> QED
  BY <1>1, <1>2, <1>3, <1>4, <1>5, <1>6
  DEF Next, CommitEvent, RollbackEvent, Restart, vars, ghosts

\* The earliest event of a run has no cause left in the run.
LEMMA CausalOrderStep ==
  ASSUME Types, Stamped, Idle, Held, SeenEarlier, Causes, CausalOrder,
         [Next]_vars
  PROVE  CausalOrder'
<1>0. \A e \in Event : attempts[e] > 0 => attempts'[e] > 0
  BY AttemptsGrow
<1>1. ASSUME NEW e \in Event, Emit(e) PROVE CausalOrder'
  <2>1. \A x \in Event : x # e => seen'[x] = seen[x]
    BY <1>1 DEF Emit, Types
  <2>2. attempts[e] = 0
    BY <1>1 DEF Emit, Held, Committed, Types
  <2> QED BY <1>1, <2>1, <2>2 DEF Emit, CausalOrder
<1>2. ASSUME NEW d \in Dispatcher, Handle(d) PROVE CausalOrder'
  <2>1. PICK e \in run[d].todo :
           /\ e \in Event
           /\ \A c \in run[d].todo : ~ Before(c, e)
           /\ attempts' = [attempts EXCEPT ![e] = @ + 1]
    BY <1>2, HandleFacts
  <2>2. \A c \in seen[e] : attempts[c] > 0
    BY <2>1 DEF Causes, SeenEarlier
  <2>3. seen' = seen /\ \A x \in Event : seen[x] \subseteq Event
    BY <1>2 DEF Handle, Types
  <2>4. \A x \in Event : x # e => attempts'[x] = attempts[x]
    BY <2>1 DEF Types
  <2> QED BY <1>0, <2>1, <2>2, <2>3, <2>4 DEF CausalOrder
<1>3. ASSUME UNCHANGED <<attempts, seen>> PROVE CausalOrder'
  BY <1>3 DEF CausalOrder
<1> QED
  BY <1>1, <1>2, <1>3
  DEF Next, CommitEvent, RollbackEvent, BeginRun, EndRun, FailRun, Crash,
      Restart, vars, ghosts

\* The times an event may have been handled in runs that did not end.
Losses == failures + crashes * Cardinality(Dispatcher)

\* Two disjoint sets of threads together have no more members than all.
LEMMA ThreadSets ==
  ASSUME NEW S \in SUBSET Dispatcher, NEW T \in SUBSET Dispatcher, S \cap T = {}
  PROVE  /\ IsFiniteSet(S) /\ IsFiniteSet(T)
         /\ Cardinality(Dispatcher) \in Nat
         /\ Cardinality(S) \in Nat /\ Cardinality(T) \in Nat
         /\ Cardinality(S) + Cardinality(T) <= Cardinality(Dispatcher)
<1>1. IsFiniteSet(S) /\ IsFiniteSet(T)
  BY FS_Subset, OutboxAssumption
<1>2. /\ Cardinality(Dispatcher) \in Nat
      /\ Cardinality(S) \in Nat /\ Cardinality(T) \in Nat
  BY <1>1, FS_CardinalityType, OutboxAssumption
<1>3. Cardinality(S \cup T) = Cardinality(S) + Cardinality(T)
  <2>1. Cardinality(S \cup T)
          = Cardinality(S) + Cardinality(T) - Cardinality(S \cap T)
    BY <1>1, FS_Union
  <2>2. Cardinality(S \cap T) = 0
    BY FS_EmptySet
  <2> QED BY <1>2, <2>1, <2>2
<1>4. Cardinality(S \cup T) <= Cardinality(Dispatcher)
  BY FS_Subset, OutboxAssumption
<1> QED BY <1>1, <1>2, <1>3, <1>4

\* No thread has an event both to do and done.
LEMMA Threads ==
  ASSUME Types, Idle, NEW e \in Event
  PROVE  /\ IsFiniteSet(ToDo(e)) /\ IsFiniteSet(Done(e))
         /\ Cardinality(Dispatcher) \in Nat
         /\ Cardinality(ToDo(e)) \in Nat
         /\ Cardinality(Done(e)) \in Nat
         /\ Cardinality(Done(e)) + Cardinality(ToDo(e))
              <= Cardinality(Dispatcher)
         /\ Losses \in Nat
<1>1. /\ ToDo(e) \in SUBSET Dispatcher /\ Done(e) \in SUBSET Dispatcher
      /\ Done(e) \cap ToDo(e) = {}
  BY DEF ToDo, Done, Idle
<1>2. Losses \in Nat
  <2>1. crashes \in Nat /\ failures \in Nat /\ Cardinality(Dispatcher) \in Nat
    BY FS_CardinalityType, OutboxAssumption DEF Types
  <2>2. crashes * Cardinality(Dispatcher) \in Nat
    BY <2>1
  <2> QED BY <2>1, <2>2 DEF Losses
<1> QED BY <1>1, <1>2, ThreadSets

\* The same one step later.
LEMMA ThreadsNext ==
  ASSUME Types', Idle', NEW e \in Event
  PROVE  /\ Cardinality(ToDo(e)') \in Nat
         /\ Cardinality(Done(e)') \in Nat
         /\ Cardinality(Done(e)') + Cardinality(ToDo(e)')
              <= Cardinality(Dispatcher)
         /\ Losses' \in Nat
<1>1. /\ ToDo(e)' \in SUBSET Dispatcher /\ Done(e)' \in SUBSET Dispatcher
      /\ Done(e)' \cap ToDo(e)' = {}
  BY DEF ToDo, Done, Idle
<1>2. Losses' \in Nat
  <2>1. crashes' \in Nat /\ failures' \in Nat /\ Cardinality(Dispatcher) \in Nat
    BY FS_CardinalityType, OutboxAssumption DEF Types
  <2>2. crashes' * Cardinality(Dispatcher) \in Nat
    BY <2>1
  <2> QED BY <2>1, <2>2 DEF Losses
<1> QED BY <1>1, <1>2, ThreadSets

\* Taking one thread out of a set of threads, or putting one in.
LEMMA OneThread ==
  ASSUME NEW S \in SUBSET Dispatcher, NEW d \in Dispatcher
  PROVE  /\ d \in S => Cardinality(S \ {d}) = Cardinality(S) - 1
         /\ d \notin S => Cardinality(S \cup {d}) = Cardinality(S) + 1
<1>1. IsFiniteSet(S)
  BY FS_Subset, OutboxAssumption
<1> QED BY <1>1, FS_AddElement, FS_RemoveElement

\* The bound for one event.
Bound(e) ==
  attempts[e] <=
    Losses + IF e \in processed
             THEN Cardinality(Dispatcher) - Cardinality(ToDo(e))
             ELSE Cardinality(Done(e))

\* Each time an event is handled is paid for by a thread that had it to do.
LEMMA AttemptedStep ==
  ASSUME Types, Types', Idle, Idle', Held, SeenEarlier, Attempted, [Next]_vars,
         NEW x \in Event
  PROVE  Bound(x)'
<1> DEFINE N == Cardinality(Dispatcher)
<1>0. /\ Bound(x) /\ attempts[x] \in Nat
      /\ Losses \in Nat /\ N \in Nat
      /\ Cardinality(ToDo(x)) \in Nat /\ Cardinality(Done(x)) \in Nat
      /\ Cardinality(Done(x)) + Cardinality(ToDo(x)) <= N
      /\ Losses' \in Nat
      /\ Cardinality(ToDo(x)') \in Nat /\ Cardinality(Done(x)') \in Nat
      /\ Cardinality(Done(x)') + Cardinality(ToDo(x)') <= N
  <2>1. Bound(x) /\ attempts[x] \in Nat
    BY DEF Attempted, Bound, Losses, Types
  <2>2. /\ Losses \in Nat /\ N \in Nat
        /\ Cardinality(ToDo(x)) \in Nat /\ Cardinality(Done(x)) \in Nat
        /\ Cardinality(Done(x)) + Cardinality(ToDo(x)) <= N
    BY Threads
  <2>3. /\ Losses' \in Nat
        /\ Cardinality(ToDo(x)') \in Nat /\ Cardinality(Done(x)') \in Nat
        /\ Cardinality(Done(x)') + Cardinality(ToDo(x)') <= N
    BY ThreadsNext
  <2> QED BY <2>1, <2>2, <2>3
<1>1. ASSUME NEW d \in Dispatcher, BeginRun(d) PROVE Bound(x)'
  <2>1. Losses' = Losses /\ processed' = processed /\ attempts' = attempts
    BY <1>1 DEF BeginRun, Losses, outboxVars
  <2>2. Done(x)' = Done(x)
    <3>1. run[d].done = {} /\ run'[d].done = {}
      BY <1>1 DEF BeginRun, Idle, NoRun, Types
    <3>2. \A c \in Dispatcher \ {d} : run'[c] = run[c]
      BY <1>1 DEF BeginRun, Types
    <3> QED BY <3>1, <3>2 DEF Done
  <2>3. CASE x \in processed
    <3>1. x \notin run'[d].todo /\ x \notin run[d].todo
      BY <1>1, <2>3
      DEF BeginRun, Types, First, Unprocessed, Idle, NoRun
    <3>2. \A c \in Dispatcher \ {d} : run'[c] = run[c]
      BY <1>1 DEF BeginRun, Types
    <3>3. ToDo(x)' = ToDo(x)
      BY <3>1, <3>2 DEF ToDo
    <3> QED BY <1>0, <2>1, <2>3, <3>3 DEF Bound
  <2>4. CASE x \notin processed
    BY <1>0, <2>1, <2>2, <2>4 DEF Bound
  <2> QED BY <2>3, <2>4
<1>2. ASSUME NEW d \in Dispatcher, Handle(d) PROVE Bound(x)'
  <2>0. Losses' = Losses /\ processed' = processed
    BY <1>2 DEF Handle, Losses, outboxVars
  <2>1. PICK e \in run[d].todo :
           /\ e \in Event
           /\ run' = [run EXCEPT ![d].todo = @ \ {e}, ![d].done = @ \cup {e}]
           /\ attempts' = [attempts EXCEPT ![e] = @ + 1]
    BY <1>2, HandleFacts
  <2>2. /\ run'[d].todo = run[d].todo \ {e}
        /\ run'[d].done = run[d].done \cup {e}
        /\ \A c \in Dispatcher \ {d} : run'[c] = run[c]
    BY <2>1 DEF Types
  <2>3. CASE x = e
    <3>1. ToDo(x)' = ToDo(x) \ {d} /\ d \in ToDo(x)
      BY <2>1, <2>2, <2>3 DEF ToDo
    <3>2. Done(x)' = Done(x) \cup {d}
      BY <2>2, <2>3 DEF Done
    <3>3. d \notin Done(x)
      BY <2>1, <2>3 DEF Done, Idle
    <3>4. ToDo(x) \in SUBSET Dispatcher /\ Done(x) \in SUBSET Dispatcher
      BY DEF ToDo, Done
    <3>5. /\ Cardinality(ToDo(x)') = Cardinality(ToDo(x)) - 1
          /\ Cardinality(Done(x)') = Cardinality(Done(x)) + 1
      BY <3>1, <3>2, <3>3, <3>4, OneThread
    <3>6. attempts'[x] = attempts[x] + 1
      BY <2>1, <2>3 DEF Types
    <3> HIDE DEF N
    <3>7. attempts[x] <= Losses + IF x \in processed
                                  THEN N - Cardinality(ToDo(x))
                                  ELSE Cardinality(Done(x))
      BY <1>0 DEF Bound, N
    <3>8. attempts'[x] <= Losses' + IF x \in processed'
                                  THEN N - Cardinality(ToDo(x)')
                                  ELSE Cardinality(Done(x)')
      BY <1>0, <2>0, <3>5, <3>6, <3>7
    <3> QED BY <3>8 DEF Bound, N
  <2>4. CASE x # e
    <3>1. ToDo(x)' = ToDo(x) /\ Done(x)' = Done(x)
      BY <2>1, <2>2, <2>4 DEF ToDo, Done
    <3>2. attempts'[x] = attempts[x]
      BY <2>1, <2>4 DEF Types
    <3> QED BY <1>0, <2>0, <3>1, <3>2 DEF Bound
  <2> QED BY <2>3, <2>4
<1>3. ASSUME NEW d \in Dispatcher, EndRun(d) PROVE Bound(x)'
  <2>1. Losses' = Losses /\ attempts' = attempts
    BY <1>3 DEF EndRun, Losses, ghosts
  <2>2. ToDo(x)' = ToDo(x)
    BY <1>3 DEF EndRun, ToDo, NoRun, Types
  <2>3. CASE x \in processed
    <3>1. x \in processed'
      BY <1>3, <2>3 DEF EndRun, Stamps
    <3> QED BY <1>0, <2>1, <2>2, <2>3, <3>1 DEF Bound
  <2>4. CASE x \notin processed /\ x \in processed'
    <3>1. attempts[x] <= Losses + Cardinality(Done(x))
      BY <1>0, <2>4 DEF Bound
    <3>2. attempts[x] <= Losses + (N - Cardinality(ToDo(x)))
      <4> HIDE DEF N
      <4> QED BY <1>0, <3>1
    <3> QED BY <2>1, <2>2, <2>4, <3>2 DEF Bound
  <2>5. CASE x \notin processed'
    <3>1. x \notin processed /\ x \notin run[d].done
      BY <1>3, <2>5 DEF EndRun, Stamps
    <3>2. Done(x)' = Done(x)
      BY <1>3, <3>1 DEF EndRun, Done, NoRun, Types
    <3> QED BY <1>0, <2>1, <2>5, <3>1, <3>2 DEF Bound
  <2> QED BY <2>3, <2>4, <2>5
<1>4. ASSUME NEW d \in Dispatcher, FailRun(d) PROVE Bound(x)'
  <2>1. Losses' = Losses + 1 /\ attempts' = attempts /\ processed' = processed
    <3>1. crashes' = crashes /\ failures' = failures + 1 /\ attempts' = attempts
          /\ processed' = processed
      BY <1>4 DEF FailRun, ghosts, outboxVars
    <3>2. crashes * N \in Nat /\ failures \in Nat
      BY <1>0 DEF Types
    <3> HIDE DEF N
    <3>3. failures + 1 + crashes * N = (failures + crashes * N) + 1
      BY <3>2
    <3> QED BY <3>1, <3>3 DEF Losses, N
  <2>2. Done(x)' = Done(x) \ {d} /\ ToDo(x)' = ToDo(x) \ {d}
    BY <1>4 DEF FailRun, Done, ToDo, NoRun, Types
  <2>3. Cardinality(Done(x)') >= Cardinality(Done(x)) - 1
    <3>1. Done(x) \in SUBSET Dispatcher
      BY DEF Done
    <3>2. CASE d \in Done(x)
      <4>1. Cardinality(Done(x)') = Cardinality(Done(x)) - 1
        BY <2>2, <3>1, <3>2, OneThread
      <4> QED BY <1>0, <4>1
    <3>3. CASE d \notin Done(x)
      <4>1. Done(x)' = Done(x)
        BY <2>2, <3>3
      <4> QED BY <1>0, <4>1
    <3> QED BY <3>2, <3>3
  <2>4. Cardinality(ToDo(x)') <= Cardinality(ToDo(x))
    <3>1. ToDo(x)' \subseteq ToDo(x) /\ IsFiniteSet(ToDo(x))
      BY <2>2, Threads
    <3> QED BY <3>1, FS_Subset
  <2> HIDE DEF N
  <2>5. attempts[x] <= Losses + IF x \in processed
                                THEN N - Cardinality(ToDo(x))
                                ELSE Cardinality(Done(x))
    BY <1>0 DEF Bound, N
  <2>6. attempts'[x] <= Losses' + IF x \in processed'
                                  THEN N - Cardinality(ToDo(x)')
                                  ELSE Cardinality(Done(x)')
    BY <1>0, <2>1, <2>3, <2>4, <2>5
  <2> QED BY <2>6 DEF Bound, N
<1>5. ASSUME Crash PROVE Bound(x)'
  <2>1. Losses' = Losses + N /\ attempts' = attempts /\ processed' = processed
    <3>1. crashes' = crashes + 1 /\ failures' = failures /\ attempts' = attempts
          /\ processed' = processed
      BY <1>5 DEF Crash, ghosts
    <3>2. crashes \in Nat /\ failures \in Nat /\ N \in Nat
      BY <1>0 DEF Types
    <3> HIDE DEF N
    <3>3. (crashes + 1) * N = crashes * N + N /\ crashes * N \in Nat
      BY <3>2
    <3>4. failures + (crashes + 1) * N = (failures + crashes * N) + N
      BY <3>2, <3>3
    <3> QED BY <3>1, <3>4 DEF Losses, N
  <2>2. Done(x)' = {} /\ ToDo(x)' = {}
    BY <1>5 DEF Crash, Done, ToDo, NoRun
  <2>3. Cardinality(Done(x)') = 0 /\ Cardinality(ToDo(x)') = 0
    BY <2>2, FS_EmptySet
  <2> HIDE DEF N
  <2>4. attempts[x] <= Losses + IF x \in processed
                                THEN N - Cardinality(ToDo(x))
                                ELSE Cardinality(Done(x))
    BY <1>0 DEF Bound, N
  <2>5. attempts'[x] <= Losses' + IF x \in processed'
                                  THEN N - Cardinality(ToDo(x)')
                                  ELSE Cardinality(Done(x)')
    BY <1>0, <2>1, <2>3, <2>4
  <2> QED BY <2>5 DEF Bound, N
<1>6. ASSUME UNCHANGED <<run, attempts, processed, crashes, failures>>
      PROVE  Bound(x)'
  BY <1>0, <1>6 DEF Bound, Losses, ToDo, Done
<1> QED
  BY <1>1, <1>2, <1>3, <1>4, <1>5, <1>6
  DEF Next, Emit, CommitEvent, RollbackEvent, Restart, vars, ghosts, outboxVars

-----------------------------------------------------------------------------
(* The theorems.                                                           *)

\* Every step keeps the inductive invariant.
LEMMA InvariantStep == ASSUME IInv, [Next]_vars PROVE IInv'
<1>1. Types' /\ Stamped' /\ Idle' /\ Held' /\ SeenEarlier'
  BY TypesStep, StampedStep, IdleStep, HeldStep, SeenEarlierStep DEF IInv
<1>2. NoPhantoms' /\ Causes' /\ CausalOrder'
  BY NoPhantomsStep, CausesStep, CausalOrderStep DEF IInv
<1>3. \A x \in Event : Bound(x)'
  BY <1>1, AttemptedStep DEF IInv
<1>4. Attempted'
  BY <1>3 DEF Attempted, Bound, Losses
<1> QED BY <1>1, <1>2, <1>4 DEF IInv

\* The initial state has no events, no runs and no mail.
LEMMA InvariantInit == Init => IInv
<1> SUFFICES ASSUME Init PROVE IInv
  OBVIOUS
<1>1. Types
  BY DEF Init, Types, NoRun
<1>2. Stamped /\ Idle
  BY DEF Init, Stamped, Idle, NoRun
<1>3. Committed = {}
  BY DEF Init, Committed
<1>4. Held /\ SeenEarlier /\ NoPhantoms
  BY <1>3, FS_EmptySet DEF Init, Held, SeenEarlier, NoPhantoms, NoRun
<1>5. Causes /\ CausalOrder
  BY DEF Init, Causes, CausalOrder, NoRun
<1>6. Attempted
  <2> SUFFICES ASSUME NEW e \in Event PROVE Bound(e)
    BY DEF Attempted, Bound, Losses
  <2>1. attempts[e] = 0 /\ e \notin processed
    BY DEF Init
  <2>2. Losses \in Nat /\ Cardinality(Done(e)) \in Nat
    BY <1>1, <1>2, Threads
  <2> QED BY <2>1, <2>2 DEF Bound
<1> QED BY <1>1, <1>2, <1>4, <1>5, <1>6 DEF IInv

\* The inductive invariant holds of every behaviour.
LEMMA Invariance == Spec => []IInv
<1>1. IInv /\ [Next]_vars => IInv'
  BY InvariantStep
<1> QED BY <1>1, InvariantInit, PTL DEF Spec

\* The variables keep their types, whatever the handlers, the runs and the
\* crashes of the server do; the stamps of two events always differ.
THEOREM TypeCorrect == Spec => []TypeOK
<1>1. IInv => TypeOK
  <2> SUFFICES ASSUME IInv PROVE TypeOK
    OBVIOUS
  <2>1. occurred \in [Event -> 0 .. now]
    BY DEF IInv, Types, Stamped
  <2> QED BY <2>1 DEF IInv, Types, Stamped, Idle, TypeOK
<1> QED BY <1>1, Invariance, PTL

\* Mail goes out, and events are stamped processed, for committed changes
\* only: for any number of events, threads, crashes and failures.
THEOREM NothingUncommitted == Spec => []NoPhantoms
<1>1. IInv => NoPhantoms
  BY DEF IInv
<1> QED BY <1>1, Invariance, PTL

\* A consumer hears of an event after all that the event's handler could have
\* read of, whatever the limit of a run and however runs overlap.
THEOREM CausesFirst == Spec => []CausalOrder
<1>1. IInv => CausalOrder
  BY DEF IInv
<1> QED BY <1>1, Invariance, PTL

\* How often an event is handled is bounded by the failures, the crashes and
\* the number of threads.
THEOREM DuplicatesBounded == Spec => []FewDuplicates
<1>1. IInv => FewDuplicates
  <2> SUFFICES ASSUME IInv, NEW e \in Event
               PROVE  attempts[e] <=
                        failures + crashes * Cardinality(Dispatcher) +
                        IF e \in processed
                        THEN Cardinality(Dispatcher)
                        ELSE Cardinality({d \in Dispatcher : e \in run[d].done})
    BY DEF FewDuplicates
  <2> DEFINE N == Cardinality(Dispatcher)
  <2>1. Bound(e) /\ attempts[e] \in Nat
    BY DEF IInv, Attempted, Bound, Losses, Types
  <2>2. /\ N \in Nat /\ Losses \in Nat
        /\ Cardinality(ToDo(e)) \in Nat /\ Cardinality(Done(e)) \in Nat
    BY Threads DEF IInv
  <2>3. CASE e \in processed
    <3>1. attempts[e] <= Losses + (N - Cardinality(ToDo(e)))
      BY <2>1, <2>3 DEF Bound
    <3> HIDE DEF N
    <3>2. attempts[e] <= Losses + N
      BY <2>1, <2>2, <3>1
    <3> QED BY <2>3, <3>2 DEF Losses, N
  <2>4. CASE e \notin processed
    BY <2>1, <2>4 DEF Bound, Losses, Done
  <2> QED BY <2>3, <2>4
<1> QED BY <1>1, Invariance, PTL

=============================================================================
