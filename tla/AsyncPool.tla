------------------------------ MODULE AsyncPool ------------------------------
(***************************************************************************)
(* The worker-affinity connection pool shared by the postgres, redis and   *)
(* memcached drivers: driver/internal/async/pool.go and health.go.         *)
(*                                                                         *)
(* Goroutines: the clients, each of which acquires one connection, uses it *)
(* and gives it back; the health checker; and the one that closes the      *)
(* pool.  A section under slot.mu is one step; what the code does between  *)
(* two such sections is a separate step, so that everything the locks do   *)
(* not exclude can happen in between.  Closing a connection and taking it  *)
(* off openCount are one step (only Stats could see them apart).           *)
(*                                                                         *)
(* Time is abstract: whether IsExpired, IsIdleTooLong or a failed Ping     *)
(* condemns a connection is a free choice wherever the code asks.          *)
(* MaxOpen = 0 is the unlimited pool (nil sem); MaxIdlePerWorker = 0 means *)
(* no idle cap.  A connection identity is reused after it has been closed. *)
(***************************************************************************)
EXTENDS Integers, Sequences, FiniteSets

CONSTANTS
  Clients,           \* goroutines that call Acquire, Release and Discard
  Conns,             \* identities for dialled connections
  NumWorkers,        \* PoolConfig.NumWorkers
  MaxOpen,           \* PoolConfig.MaxOpen
  MaxIdlePerWorker,  \* PoolConfig.MaxIdlePerWorker
  HealthCheck,       \* whether PoolConfig.HealthCheck > 0
  NoConn             \* the zero value of the connection type

ASSUME PoolAssumption ==
  /\ NumWorkers \in Nat \ {0}
  /\ MaxOpen \in Nat
  /\ MaxIdlePerWorker \in Nat
  /\ HealthCheck \in BOOLEAN
  /\ NoConn \notin Conns
  /\ IsFiniteSet(Clients)
  /\ IsFiniteSet(Conns)

VARIABLES
  closed,     \* p.closed
  sem,        \* tokens in p.sem
  openCount,  \* p.openCount
  idle,       \* perWorker[w].idle, most recently released last
  open,       \* connections dialled and not yet closed (the sockets)
  home,       \* c.Worker() of each connection
  pc,         \* where each client is
  conn,       \* the connection each client has in hand
  hint,       \* workerHint, once acquireInner has resolved it
  probe,      \* i: how many idle lists acquireInner has found empty
  hcPc,       \* where the health checker is
  hcSlot,     \* the slot it is sweeping
  snapshot,   \* connections taken out for inspection
  survivors,  \* connections that passed it
  closerPc,   \* where Close is
  closerSlot  \* the slot Close is draining

poolVars   == <<closed, sem, openCount, idle, open, home>>
clientVars == <<pc, conn, hint, probe>>
healthVars == <<hcPc, hcSlot, snapshot, survivors>>
closerVars == <<closerPc, closerSlot>>
vars       == <<poolVars, clientVars, healthVars, closerVars>>

Workers == 0 .. NumWorkers - 1

Init ==
  /\ closed = FALSE
  /\ sem = 0
  /\ openCount = 0
  /\ idle = [w \in Workers |-> <<>>]
  /\ open = {}
  /\ home = [k \in Conns |-> 0]
  /\ pc = [c \in Clients |-> "out"]
  /\ conn = [c \in Clients |-> NoConn]
  /\ hint = [c \in Clients |-> 0]
  /\ probe = [c \in Clients |-> 0]
  /\ hcPc = IF HealthCheck THEN "wait" ELSE "stopped"
  /\ hcSlot = 0
  /\ snapshot = <<>>
  /\ survivors = <<>>
  /\ closerPc = "out"
  /\ closerSlot = 0

Goto(c, l) == pc' = [pc EXCEPT ![c] = l]

\* acquireInner returns: its locals are gone.
ForgetScan(c) ==
  /\ hint' = [hint EXCEPT ![c] = 0]
  /\ probe' = [probe EXCEPT ![c] = 0]

IdleFull(w) == MaxIdlePerWorker > 0 /\ Len(idle[w]) >= MaxIdlePerWorker

\* c.Close() and the decrement that always follows it.
CloseConn(k) ==
  /\ open' = open \ {k}
  /\ openCount' = openCount - 1

-----------------------------------------------------------------------------
(* Acquire. *)

\* The first check; a closed pool is an early return.
AcquireEnter(c) ==
  /\ pc[c] = "out"
  /\ ~closed
  /\ Goto(c, "reserve")
  /\ UNCHANGED <<poolVars, conn, hint, probe, healthVars, closerVars>>

\* A slot is free: take it, and settle the worker to start from (the caller's
\* hint, or the round-robin cursor's, which may be any worker).
AcquireReserve(c, w) ==
  /\ pc[c] = "reserve"
  /\ \/ MaxOpen = 0 /\ UNCHANGED sem
     \/ MaxOpen > 0 /\ sem < MaxOpen /\ sem' = sem + 1
  /\ hint' = [hint EXCEPT ![c] = w]
  /\ probe' = [probe EXCEPT ![c] = 0]
  /\ Goto(c, "scan")
  /\ UNCHANGED <<closed, openCount, idle, open, home, conn, healthVars, closerVars>>

\* Mutant: the timed-out Acquire returns a slot it never took.
AcquireTimeoutGivesBack(c) ==
  /\ pc[c] = "reserve"
  /\ MaxOpen > 0
  /\ Goto(c, "giveback")
  /\ UNCHANGED <<poolVars, conn, hint, probe, healthVars, closerVars>>

\* ctx ends while every slot is taken, or ties with a free one in the select.
AcquireTimeout(c) ==
  /\ pc[c] = "reserve"
  /\ MaxOpen > 0
  /\ Goto(c, "out")
  /\ UNCHANGED <<poolVars, conn, hint, probe, healthVars, closerVars>>

ScanWorker(c) == (hint[c] + probe[c]) % NumWorkers

\* popIdle takes the most recently released connection; if it is past its
\* lifetime or idle time it is closed after the lock is dropped.
PopIdle(c) ==
  LET w == ScanWorker(c) IN
  /\ pc[c] = "scan"
  /\ idle[w] # <<>>
  /\ conn' = [conn EXCEPT ![c] = idle[w][Len(idle[w])]]
  /\ idle' = [idle EXCEPT ![w] = SubSeq(@, 1, Len(@) - 1)]
  /\ \/ Goto(c, "held") /\ ForgetScan(c)
     \/ Goto(c, "evict") /\ UNCHANGED <<hint, probe>>
  /\ UNCHANGED <<closed, sem, openCount, open, home, healthVars, closerVars>>

\* The expired connection is closed and the same list is tried again.
Evict(c) ==
  /\ pc[c] = "evict"
  /\ CloseConn(conn[c])
  /\ conn' = [conn EXCEPT ![c] = NoConn]
  /\ Goto(c, "scan")
  /\ UNCHANGED <<closed, sem, idle, home, hint, probe, healthVars, closerVars>>

\* The list is empty: on to the next worker's, or to a dial after the last.
PopIdleMiss(c) ==
  /\ pc[c] = "scan"
  /\ idle[ScanWorker(c)] = <<>>
  /\ \/ /\ probe[c] + 1 < NumWorkers
        /\ probe' = [probe EXCEPT ![c] = @ + 1]
        /\ UNCHANGED <<pc, openCount>>
     \/ /\ probe[c] + 1 = NumWorkers
        /\ openCount' = openCount + 1
        /\ Goto(c, "dial")
        /\ UNCHANGED probe
  /\ UNCHANGED <<closed, sem, idle, open, home, conn, hint, healthVars, closerVars>>

\* The driver's dial succeeds: a new connection pinned to the hinted worker.
DialOK(c, k) ==
  /\ pc[c] = "dial"
  /\ k \in Conns \ open
  /\ open' = open \cup {k}
  /\ home' = [home EXCEPT ![k] = hint[c]]
  /\ conn' = [conn EXCEPT ![c] = k]
  /\ Goto(c, "held")
  /\ ForgetScan(c)
  /\ UNCHANGED <<closed, sem, openCount, idle, healthVars, closerVars>>

\* Mutants: the error path forgets the slot; it forgets the count.
DialFailKeepsSlot(c) ==
  /\ pc[c] = "dial"
  /\ openCount' = openCount - 1
  /\ Goto(c, "out")
  /\ ForgetScan(c)
  /\ UNCHANGED <<closed, sem, idle, open, home, conn, healthVars, closerVars>>

DialFail(c) ==
  /\ pc[c] = "dial"
  /\ openCount' = openCount - 1
  /\ Goto(c, "giveback")
  /\ ForgetScan(c)
  /\ UNCHANGED <<closed, sem, idle, open, home, conn, healthVars, closerVars>>

\* <-p.sem: the failed Acquire, Release and Discard all end with it.
ReleaseSem(c) ==
  /\ pc[c] = "giveback"
  /\ sem' = IF MaxOpen = 0 THEN sem ELSE sem - 1
  /\ Goto(c, "out")
  /\ UNCHANGED <<closed, openCount, idle, open, home, conn, hint, probe, healthVars, closerVars>>

-----------------------------------------------------------------------------
(* Release and Discard. *)

\* Release reads p.closed, then the expiry.  A closed pool or an expired
\* connection goes to the close path; otherwise slot.mu is still to be taken.
ReleaseEnter(c) ==
  /\ pc[c] = "held"
  /\ \/ Goto(c, "drop")
     \/ ~closed /\ Goto(c, "park")
  /\ UNCHANGED <<poolVars, conn, hint, probe, healthVars, closerVars>>

\* Under slot.mu: append to the home worker's list unless it is full.
Park(c) ==
  LET k == conn[c]
      w == home[k] IN
  /\ pc[c] = "park"
  /\ \/ /\ IdleFull(w)
        /\ Goto(c, "drop")
        /\ UNCHANGED <<idle, conn>>
     \/ /\ ~IdleFull(w)
        /\ idle' = [idle EXCEPT ![w] = Append(@, k)]
        /\ conn' = [conn EXCEPT ![c] = NoConn]
        /\ Goto(c, "giveback")
  /\ UNCHANGED <<closed, sem, openCount, open, home, hint, probe, healthVars, closerVars>>

\* The close path of Release, and all of Discard but its releaseSem.
Drop(c) ==
  /\ pc[c] = "drop"
  /\ CloseConn(conn[c])
  /\ conn' = [conn EXCEPT ![c] = NoConn]
  /\ Goto(c, "giveback")
  /\ UNCHANGED <<closed, sem, idle, home, hint, probe, healthVars, closerVars>>

Discard(c) ==
  /\ pc[c] = "held"
  /\ Goto(c, "drop")
  /\ UNCHANGED <<poolVars, conn, hint, probe, healthVars, closerVars>>

-----------------------------------------------------------------------------
(* healthLoop and healthSweep. *)

\* A tick starts a sweep; when hcStop is closed too the select may still
\* choose the tick.
SweepStart ==
  /\ hcPc = "wait"
  /\ hcPc' = "take"
  /\ hcSlot' = 0
  /\ UNCHANGED <<poolVars, clientVars, snapshot, survivors, closerVars>>

HealthStop ==
  /\ hcPc = "wait"
  /\ closerPc = "stopping"
  /\ hcPc' = "stopped"
  /\ UNCHANGED <<poolVars, clientVars, hcSlot, snapshot, survivors, closerVars>>

SweepNextSlot ==
  \/ hcSlot + 1 < NumWorkers /\ hcSlot' = hcSlot + 1 /\ hcPc' = "take"
  \/ hcSlot + 1 = NumWorkers /\ hcPc' = "wait" /\ UNCHANGED hcSlot

\* Mutant: the slot is copied but not cleared.
SweepTakeNoClear ==
  /\ hcPc = "take"
  /\ \/ /\ idle[hcSlot] = <<>>
        /\ SweepNextSlot
        /\ UNCHANGED snapshot
     \/ /\ idle[hcSlot] # <<>>
        /\ snapshot' = idle[hcSlot]
        /\ hcPc' = "inspect"
        /\ UNCHANGED hcSlot
  /\ UNCHANGED <<poolVars, clientVars, survivors, closerVars>>

\* Snapshot and clear the slot's idle list under its lock.
SweepTake ==
  /\ hcPc = "take"
  /\ \/ /\ idle[hcSlot] = <<>>
        /\ SweepNextSlot
        /\ UNCHANGED <<idle, snapshot>>
     \/ /\ idle[hcSlot] # <<>>
        /\ snapshot' = idle[hcSlot]
        /\ idle' = [idle EXCEPT ![hcSlot] = <<>>]
        /\ hcPc' = "inspect"
        /\ UNCHANGED hcSlot
  /\ UNCHANGED <<closed, sem, openCount, open, home, clientVars, survivors, closerVars>>

\* One connection: expired or unpingable ones are closed, the others survive.
SweepInspect ==
  /\ hcPc = "inspect"
  /\ snapshot # <<>>
  /\ snapshot' = Tail(snapshot)
  /\ hcPc' = IF Len(snapshot) = 1 THEN "reinsert" ELSE "inspect"
  /\ \/ /\ CloseConn(Head(snapshot))
        /\ UNCHANGED survivors
     \/ /\ survivors' = Append(survivors, Head(snapshot))
        /\ UNCHANGED <<open, openCount>>
  /\ UNCHANGED <<closed, sem, idle, home, clientVars, hcSlot, closerVars>>

\* Under the lock: put back as many as the idle cap admits.
SweepReinsert ==
  LET have == Len(idle[hcSlot])
      room == IF MaxIdlePerWorker = 0 \/ Len(survivors) <= MaxIdlePerWorker - have
              THEN Len(survivors)
              ELSE IF have < MaxIdlePerWorker THEN MaxIdlePerWorker - have ELSE 0 IN
  /\ hcPc = "reinsert"
  /\ idle' = [idle EXCEPT ![hcSlot] = @ \o SubSeq(survivors, 1, room)]
  /\ survivors' = SubSeq(survivors, room + 1, Len(survivors))
  /\ \/ room = Len(survivors) /\ SweepNextSlot
     \/ room < Len(survivors) /\ hcPc' = "excess" /\ UNCHANGED hcSlot
  /\ UNCHANGED <<closed, sem, openCount, open, home, clientVars, snapshot, closerVars>>

\* The lock is dropped to close a survivor that found no room, then retaken.
SweepExcess ==
  /\ hcPc = "excess"
  /\ CloseConn(Head(survivors))
  /\ survivors' = Tail(survivors)
  /\ hcPc' = "reinsert"
  /\ UNCHANGED <<closed, sem, idle, home, clientVars, hcSlot, snapshot, closerVars>>

-----------------------------------------------------------------------------
(* Close. *)

\* The compare-and-swap, and close(hcStop) which nothing can separate from it
\* in a way another goroutine sees.  A second Close returns at once.
CloseCall ==
  /\ ~closed
  /\ closed' = TRUE
  /\ closerPc' = "stopping"
  /\ UNCHANGED <<sem, openCount, idle, open, home, clientVars, healthVars, closerSlot>>

\* <-p.hcDone, when there is a health checker.
CloseWaitHealth ==
  /\ closerPc = "stopping"
  /\ hcPc = "stopped"
  /\ closerPc' = "drain"
  /\ UNCHANGED <<poolVars, clientVars, healthVars, closerSlot>>

\* One slot, under its lock: close every idle connection.
CloseDrainSlot ==
  LET doomed == {idle[closerSlot][i] : i \in DOMAIN idle[closerSlot]} IN
  /\ closerPc = "drain"
  /\ open' = open \ doomed
  /\ openCount' = openCount - Len(idle[closerSlot])
  /\ idle' = [idle EXCEPT ![closerSlot] = <<>>]
  /\ \/ closerSlot + 1 < NumWorkers /\ closerSlot' = closerSlot + 1 /\ UNCHANGED closerPc
     \/ closerSlot + 1 = NumWorkers /\ closerPc' = "done" /\ UNCHANGED closerSlot
  /\ UNCHANGED <<closed, sem, home, clientVars, healthVars>>

-----------------------------------------------------------------------------
AcquireStep(c) ==
  \/ \E w \in Workers : AcquireReserve(c, w)
  \/ PopIdle(c) \/ Evict(c) \/ PopIdleMiss(c)
  \/ \E k \in Conns : DialOK(c, k)
  \/ DialFail(c) \/ ReleaseSem(c)

ReturnStep(c) == ReleaseEnter(c) \/ Park(c) \/ Drop(c) \/ Discard(c)

Client(c) == AcquireEnter(c) \/ AcquireTimeout(c) \/ AcquireStep(c) \/ ReturnStep(c)

Health == SweepStart \/ HealthStop \/ SweepTake \/ SweepInspect \/ SweepReinsert \/ SweepExcess

Closer == CloseCall \/ CloseWaitHealth \/ CloseDrainSlot

Next == (\E c \in Clients : Client(c)) \/ Health \/ Closer

Spec == Init /\ [][Next]_vars

\* Callers give back what they acquire, a goroutine that can run does run, a
\* sender blocked on p.sem is served in arrival order (so it gets a slot if
\* slots keep becoming free), and select does not ignore a closed hcStop for
\* ever in favour of the ticker.
Fairness ==
  /\ \A c \in Clients :
       /\ WF_vars(AcquireStep(c))
       /\ SF_vars(\E w \in Workers : AcquireReserve(c, w))
       /\ WF_vars(ReturnStep(c))
  /\ WF_vars(SweepTake \/ SweepInspect \/ SweepReinsert \/ SweepExcess)
  /\ SF_vars(HealthStop)
  /\ WF_vars(CloseWaitHealth \/ CloseDrainSlot)

FairSpec == Spec /\ Fairness

-----------------------------------------------------------------------------
(* Properties. *)

ClientPcs == {"out", "reserve", "scan", "evict", "dial", "held", "park", "drop", "giveback"}

PoolTypeOK ==
  /\ sem \in Nat
  /\ openCount \in Int
  /\ idle \in [Workers -> Seq(Conns)]
  /\ open \in SUBSET Conns
  /\ home \in [Conns -> Workers]

ClientTypeOK ==
  /\ pc \in [Clients -> ClientPcs]
  /\ conn \in [Clients -> Conns \cup {NoConn}]
  /\ hint \in [Clients -> Workers]
  /\ probe \in [Clients -> Workers]

HealthTypeOK ==
  /\ hcPc \in {"wait", "take", "inspect", "reinsert", "excess", "stopped"}
  /\ hcSlot \in Workers
  /\ snapshot \in Seq(Conns)
  /\ survivors \in Seq(Conns)

CloserTypeOK ==
  /\ closed \in BOOLEAN
  /\ closerPc \in {"out", "stopping", "drain", "done"}
  /\ closerSlot \in Workers

\* The types of the variables: in particular no receive on an empty p.sem
\* ever happens (sem stays a natural number).
TypeOK == PoolTypeOK /\ ClientTypeOK /\ HealthTypeOK /\ CloserTypeOK

\* The clients that own a slot: "from here on we own a sem slot - every error
\* path must release it" (Acquire), until Release, Discard or the failed
\* Acquire has received from p.sem.
SlotOwners == {c \in Clients : pc[c] \notin {"out", "reserve"}}

\* Every token in p.sem belongs to exactly one client that will take it out
\* again: no path leaks a slot (the pool would shrink for good) and none
\* returns one twice (a receive on an empty p.sem blocks its caller forever).
SemAccounting == MaxOpen > 0 => sem = Cardinality(SlotOwners) /\ sem <= MaxOpen

\* At most MaxOpen connections are in callers' hands at once.
InUseBound == MaxOpen > 0 => Cardinality({c \in Clients : conn[c] # NoConn}) <= MaxOpen

\* Every place that refers to connection k.
Locations(k) ==
  {<<"client", c>> : c \in {c \in Clients : conn[c] = k}}
    \cup {<<"idle", x[1], x[2]>> : x \in
           UNION {{<<w, i>> : i \in {i \in DOMAIN idle[w] : idle[w][i] = k}} : w \in Workers}}
    \cup {<<"snapshot", i>> : i \in {i \in DOMAIN snapshot : snapshot[i] = k}}
    \cup {<<"survivors", i>> : i \in {i \in DOMAIN survivors : survivors[i] = k}}

\* A live connection is in exactly one place - a caller's hands, one idle
\* list, the sweep - and a closed one is in none.  So no two callers ever
\* share a connection, none is closed twice (Conn.Close is "called at most
\* once per connection"), none is used after its close, and none is lost
\* with its socket open, whatever the clients, the sweep and Close interleave.
Custody == \A k \in Conns : Cardinality(Locations(k)) = IF k \in open THEN 1 ELSE 0

\* A caller parked in Acquire's select gets a slot or gives up.
AcquireReturns == \A c \in Clients : pc[c] = "reserve" ~> pc[c] # "reserve"

\* What the comments promise and the code does not keep.  Close: an in-flight
\* connection is closed when it is Release'd back, because "the pool will see
\* its closed state".
ClosedPoolIsEmpty ==
  closerPc = "done" /\ (\A c \in Clients : pc[c] = "out") => open = {}

=============================================================================
