---------------------------- MODULE H2WorkerPool ----------------------------
(***************************************************************************)
(* h2WorkerPool of internal/protocol/h2/stream/processor.go: the process's *)
(* goroutine pool for stream handlers.  A handler may never return, so a   *)
(* task may be queued only against a worker that is parked for it; every   *)
(* other task gets a goroutine of its own.  The rule is kept by a credit   *)
(* counter that workers raise before they park and Submit lowers by        *)
(* compare-and-swap before it queues.                                      *)
(***************************************************************************)
EXTENDS Integers, FiniteSets

CONSTANTS
  Workers,
  Tasks,      \* the streams submitted, each by the loop of its connection
  QueueCap    \* capacity of the channel

ASSUME PoolAssumption ==
  /\ IsFiniteSet(Workers) /\ IsFiniteSet(Tasks)
  /\ QueueCap \in Nat /\ Cardinality(Workers) <= QueueCap

VARIABLES
  idle,       \* the credit counter
  worker,     \* "starting" | "parked" | "running"
  task,       \* where each task is
  seen        \* the counter value a Submit has loaded

vars == <<idle, worker, task, seen>>

Queued  == {t \in Tasks : task[t] = "queued"}
Claimed == {t \in Tasks : task[t] = "claimed"}
Parked  == {w \in Workers : worker[w] = "parked"}

Init ==
  /\ idle = 0
  /\ worker = [w \in Workers |-> "starting"]
  /\ task = [t \in Tasks |-> "new"]
  /\ seen = [t \in Tasks |-> 0]

-----------------------------------------------------------------------------
\* run credits the pool before it blocks on the channel.
Park(w) ==
  /\ worker[w] = "starting"
  /\ idle' = idle + 1
  /\ worker' = [worker EXCEPT ![w] = "parked"]
  /\ UNCHANGED <<task, seen>>

\* A parked worker receives a task; Submit has paid for it.
Receive(w, t) ==
  /\ worker[w] = "parked" /\ task[t] = "queued"
  /\ worker' = [worker EXCEPT ![w] = "running"]
  /\ task' = [task EXCEPT ![t] = "running"]
  /\ UNCHANGED <<idle, seen>>

\* A worker whose handler returned takes the next task; one whose handler
\* ended the goroutine with Goexit is replaced by a new worker.
AfterHandler == "starting"

\* The handler returns or ends its goroutine, if it ever does.
HandlerEnds(w) ==
  /\ worker[w] = "running"
  /\ worker' = [worker EXCEPT ![w] = AfterHandler]
  /\ UNCHANGED <<idle, task, seen>>

-----------------------------------------------------------------------------
\* Mutant: a worker is taken to be parked when none is.
NobodyParkedBelow(n) == n < 0

\* Submit: no credit, no queueing.
NobodyParked(n) == n <= 0

\* Mutant: a task without a credit waits for one.
WaitForCredit == "new"

\* A task without a credit runs in a goroutine of its own.
WithoutCredit == "running"

\* Submit loads the counter, and spawns a goroutine when it is not positive.
SubmitLoad(t) ==
  /\ task[t] = "new"
  /\ IF NobodyParked(idle)
     THEN task' = [task EXCEPT ![t] = WithoutCredit] /\ UNCHANGED seen
     ELSE task' = [task EXCEPT ![t] = "loaded"] /\ seen' = [seen EXCEPT ![t] = idle]
  /\ UNCHANGED <<idle, worker>>

\* The compare of the compare-and-swap.
SameCredit(t) == idle = seen[t]

\* The claim, or another round when the counter has moved.
SubmitClaim(t) ==
  /\ task[t] = "loaded"
  /\ IF SameCredit(t)
     THEN idle' = seen[t] - 1 /\ task' = [task EXCEPT ![t] = "claimed"]
     ELSE task' = [task EXCEPT ![t] = "new"] /\ UNCHANGED idle
  /\ seen' = [seen EXCEPT ![t] = 0]
  /\ UNCHANGED worker

\* The send into the channel; on a full one the credit goes back and the task
\* gets its own goroutine.
SubmitSend(t) ==
  /\ task[t] = "claimed"
  /\ IF Cardinality(Queued) < QueueCap
     THEN task' = [task EXCEPT ![t] = "queued"] /\ UNCHANGED idle
     ELSE task' = [task EXCEPT ![t] = WithoutCredit] /\ idle' = idle + 1
  /\ UNCHANGED <<worker, seen>>

Submit(t) == SubmitLoad(t) \/ SubmitClaim(t) \/ SubmitSend(t)
Take(w) == Park(w) \/ \E t \in Tasks : Receive(w, t)

Next ==
  \/ \E w \in Workers : Take(w) \/ HandlerEnds(w)
  \/ \E t \in Tasks : Submit(t)

Spec == Init /\ [][Next]_vars

\* Goroutines that can run do.  No handler has to return.
FairSpec == Spec /\ (\A w \in Workers : WF_vars(Take(w))) /\ (\A t \in Tasks : WF_vars(Submit(t)))

-----------------------------------------------------------------------------
(* Properties. *)

\* Every variable has its type.
TypeOK ==
  /\ idle \in Int
  /\ worker \in [Workers -> {"starting", "parked", "running"}]
  /\ task \in [Tasks -> {"new", "loaded", "claimed", "queued", "running"}]
  /\ seen \in [Tasks -> Int]

\* The counter is the parked workers less the tasks queued or about to be.
CreditExact ==
  idle = Cardinality(Parked) - Cardinality(Queued) - Cardinality(Claimed)

\* A credit is spent only while there is one, so a queued task has a parked
\* worker to itself: no task waits behind a handler that may never return.
WorkerForEach == Cardinality(Queued) + Cardinality(Claimed) <= Cardinality(Parked)

\* The branch the code calls unreachable is: a claimed task finds room.
NeverFull == \A t \in Tasks : task[t] = "claimed" => Cardinality(Queued) < QueueCap

\* Every submitted stream's handler starts, though no handler ever returns.
AllStarted == \A t \in Tasks : <>(task[t] = "running")
=============================================================================
