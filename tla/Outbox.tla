------------------------------- MODULE Outbox -------------------------------
(***************************************************************************)
(* The transactional outbox: domain events that handlers write in the      *)
(* transaction of the change they describe, and the dispatch runs that     *)
(* hand them to the e-mail consumer and stamp them processed.              *)
(*                                                                         *)
(* An event is stamped with its time when it is emitted and can be read    *)
(* when its transaction has committed.  A run loads the oldest events that *)
(* are not processed, handles one after the other and commits all their    *)
(* processed marks at its end.  Runs are background tasks in the threads   *)
(* of the server, so they can overlap.  The row locks that they take when  *)
(* they commit only delay them.                                            *)
(***************************************************************************)
EXTENDS Naturals, FiniteSets

CONSTANTS
  Event,         \* events that someone is to be told of by e-mail
  Scheduled,     \* those whose handler schedules a run: transition_status does
  Dispatcher,    \* threads
  Batch,         \* the limit of dispatch_pending_events
  MaxCrashes,    \* bound: crashes of the server
  MaxFailures    \* bound: runs that fail

\* The server has a fixed number of threads.
ASSUME OutboxAssumption == IsFiniteSet(Dispatcher) /\ Batch \in Nat

VARIABLES
  server,        \* "down", "starting" or "serving"
  state,         \* of each event: "new", "staged", "committed" or "lost"
  occurred,      \* the events' occurred_at, 0 before they are emitted
  now,           \* the clock: the latest occurred_at
  processed,     \* the events with a processed_at
  tasks,         \* background runs that are due
  run,           \* the events each thread has loaded and what it has handled
  mailed,        \* the events that mail was sent for
  attempts,      \* ghost: how often each event was handled
  seen,          \* ghost: the events committed when each event was emitted
  crashes, failures,
  limited        \* ghost: a run has found more events than it loads

outboxVars == <<state, occurred, now, processed>>
ghosts == <<attempts, seen, limited>>
vars == <<server, outboxVars, tasks, run, mailed, ghosts, crashes, failures>>

-----------------------------------------------------------------------------
NoRun == [busy |-> FALSE, todo |-> {}, done |-> {}]

Committed == {e \in Event : state[e] = "committed"}

\* Mutant: events that are not committed yet can be loaded.
UnprocessedDirty ==
  {e \in Event : state[e] \in {"staged", "committed"}} \ processed

\* The rows that the query of a run finds.
Unprocessed == Committed \ processed

Init ==
  /\ server = "starting"
  /\ state = [e \in Event |-> "new"]
  /\ occurred = [e \in Event |-> 0]
  /\ now = 0
  /\ processed = {}
  /\ tasks = 1
  /\ run = [d \in Dispatcher |-> NoRun]
  /\ mailed = {}
  /\ attempts = [e \in Event |-> 0]
  /\ seen = [e \in Event |-> {}]
  /\ crashes = 0
  /\ failures = 0
  /\ limited = FALSE

-----------------------------------------------------------------------------
\* Mutant: a clock too coarse to tell two events apart.
TickCoarse == IF now = 0 THEN 1 ELSE now

\* The clock at the next emission.
Tick == now + 1

\* emit_event, in the transaction of a handler.
Emit(e) ==
  /\ server = "serving"
  /\ state[e] = "new"
  /\ state' = [state EXCEPT ![e] = "staged"]
  /\ now' = Tick
  /\ occurred' = [occurred EXCEPT ![e] = now']
  /\ seen' = [seen EXCEPT ![e] = Committed]
  /\ UNCHANGED <<server, processed, tasks, run, mailed, attempts, limited,
                 crashes, failures>>

\* Mutant: the handler schedules no run.
TasksAfterNone(e) == tasks

\* The runs that are due once e is committed.
TasksAfter(e) == tasks + IF e \in Scheduled THEN 1 ELSE 0

\* The handler commits, answers, and its background task is due.
CommitEvent(e) ==
  /\ state[e] = "staged"
  /\ state' = [state EXCEPT ![e] = "committed"]
  /\ tasks' = TasksAfter(e)
  /\ UNCHANGED <<server, occurred, now, processed, run, mailed, ghosts, crashes,
                 failures>>

RollbackEvent(e) ==
  /\ state[e] = "staged"
  /\ state' = [state EXCEPT ![e] = "lost"]
  /\ UNCHANGED <<server, occurred, now, processed, tasks, run, mailed, ghosts,
                 crashes, failures>>

-----------------------------------------------------------------------------
(* dispatch_pending_events.                                                *)

\* Mutant: the newest events first.
BeforeReversed(c, e) == occurred[c] > occurred[e]

\* The query's order, in which a run also handles what it loaded.
Before(c, e) == occurred[c] < occurred[e]

\* The first n events of S.
First(n, S) == {e \in S : Cardinality({c \in S : Before(c, e)}) < n}

BeginRun(d) ==
  /\ server # "down"
  /\ tasks > 0
  /\ ~ run[d].busy
  /\ tasks' = tasks - 1
  /\ run' = [run EXCEPT ![d] = [busy |-> TRUE,
                                todo |-> First(Batch, Unprocessed),
                                done |-> {}]]
  /\ limited' = (limited \/ Cardinality(Unprocessed) > Batch)
  /\ UNCHANGED <<server, outboxVars, mailed, attempts, seen, crashes, failures>>

\* The consumer sends the mail, or fails to; either way the event is done.
Handle(d) ==
  /\ run[d].busy
  /\ \E e \in First(1, run[d].todo) :
       /\ run' = [run EXCEPT ![d].todo = @ \ {e}, ![d].done = @ \cup {e}]
       /\ mailed' \in {mailed, mailed \cup {e}}
       /\ attempts' = [attempts EXCEPT ![e] = @ + 1]
  /\ UNCHANGED <<server, outboxVars, tasks, seen, limited, crashes, failures>>

\* The startup hook runs before the server serves.
Serving == IF server = "starting" THEN "serving" ELSE server

\* Mutant: the processed marks are not committed.
StampsNone(d) == processed

\* The processed marks of the run.
Stamps(d) == processed \cup run[d].done

EndRun(d) ==
  /\ run[d].busy
  /\ run[d].todo = {}
  /\ processed' = Stamps(d)
  /\ run' = [run EXCEPT ![d] = NoRun]
  /\ server' = Serving
  /\ UNCHANGED <<state, occurred, now, tasks, mailed, ghosts, crashes,
                 failures>>

\* A run whose session broke: nothing it stamped is committed.
FailRun(d) ==
  /\ run[d].busy
  /\ failures < MaxFailures
  /\ failures' = failures + 1
  /\ run' = [run EXCEPT ![d] = NoRun]
  /\ server' = Serving
  /\ UNCHANGED <<outboxVars, tasks, mailed, ghosts, crashes>>

-----------------------------------------------------------------------------
\* Open transactions, runs and due tasks are gone.
Crash ==
  /\ server # "down"
  /\ crashes < MaxCrashes
  /\ crashes' = crashes + 1
  /\ server' = "down"
  /\ state' = [e \in Event |-> IF state[e] = "staged" THEN "lost" ELSE state[e]]
  /\ run' = [d \in Dispatcher |-> NoRun]
  /\ tasks' = 0
  /\ UNCHANGED <<occurred, now, processed, mailed, ghosts, failures>>

\* Mutant: no dispatch at startup.
StartupTasksNone == 0

\* on_startup runs the dispatch once.
StartupTasks == 1

Restart ==
  /\ server = "down"
  /\ server' = "starting"
  /\ tasks' = StartupTasks
  /\ UNCHANGED <<outboxVars, run, mailed, ghosts, crashes, failures>>

-----------------------------------------------------------------------------
Next ==
  \/ \E e \in Event : Emit(e) \/ CommitEvent(e) \/ RollbackEvent(e)
  \/ \E d \in Dispatcher :
       BeginRun(d) \/ Handle(d) \/ EndRun(d) \/ FailRun(d)
  \/ Crash
  \/ Restart

\* Threads run what is due, and consumers return.  Nothing makes handlers
\* start or end, or the server crash or start again.
Fairness ==
  \A d \in Dispatcher : WF_vars(BeginRun(d)) /\ WF_vars(Handle(d) \/ EndRun(d))

Spec == Init /\ [][Next]_vars /\ Fairness

-----------------------------------------------------------------------------
(* Properties.                                                             *)

\* The variables have the values the schema and the server allow.
TypeOK ==
  /\ server \in {"down", "starting", "serving"}
  /\ state \in [Event -> {"new", "staged", "committed", "lost"}]
  /\ now \in Nat
  /\ occurred \in [Event -> 0 .. now]
  /\ \A e \in Event : occurred[e] = 0 <=> state[e] = "new"
  /\ \A e, f \in Event : occurred[e] = occurred[f] /\ occurred[e] > 0 => e = f
  /\ processed \subseteq Event
  /\ mailed \subseteq Event
  /\ tasks \in Nat
  /\ run \in [Dispatcher -> [busy : BOOLEAN, todo : SUBSET Event,
                            done : SUBSET Event]]
  /\ \A d \in Dispatcher : ~ run[d].busy => run[d] = NoRun

\* No phantoms: mail goes out and events are stamped processed only for
\* changes that were committed, and only what was handled is stamped.
NoPhantoms ==
  /\ mailed \cup processed \subseteq Committed
  /\ \A e \in processed : attempts[e] > 0

\* Consumers hear of an event after all events that its handler could have
\* read of, whatever runs overlap, fail or hit the limit.
CausalOrder ==
  \A e \in Event : attempts[e] > 0 => \A c \in seen[e] : attempts[c] > 0

\* An event is handled again only if runs overlap or do not end: until it is
\* processed, each time but those in runs that crashed or failed is in a run
\* that is still going on, and afterwards each thread has handled it once more
\* at most.
FewDuplicates ==
  \A e \in Event :
    attempts[e] <=
      failures + crashes * Cardinality(Dispatcher) +
      IF e \in processed
      THEN Cardinality(Dispatcher)
      ELSE Cardinality({d \in Dispatcher : e \in run[d].done})

\* Whoever schedules a run is heard, and a start hears everybody: a scheduled
\* event, and any event that is there when the server starts, gets processed,
\* unless a run fails, the server goes down, or more events wait than one run
\* loads.
Drained ==
  \A e \in Event :
    (e \in Committed /\ (e \in Scheduled \/ server = "starting"))
      ~> (\/ e \in processed
          \/ failures > 0
          \/ server = "down"
          \/ limited)

=============================================================================
