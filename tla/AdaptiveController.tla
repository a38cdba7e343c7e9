-------------------------- MODULE AdaptiveController --------------------------
(***************************************************************************)
(* The decision to switch engines (internal/adaptive/controller.go): one   *)
(* evaluation per tick of the clock, gated by the freeze, the oscillation  *)
(* lock, the cooldown and the backoff after failed standby builds.         *)
(*                                                                         *)
(* Points in time are kept as distances from now, cut off where they make  *)
(* no difference any more.  A sample is a load and whether the fault rate  *)
(* is above errorRevertRate; a large payload counts as the hysteresis band *)
(* in which neither direction is recommended.                              *)
(***************************************************************************)
EXTENDS Integers, Sequences

CONSTANTS
    Cooldown,           \* in ticks
    LockTime,           \* the window of the oscillation lock, and its length
    BackoffBase, BackoffMax, ShiftCap,
    SustainTicks,
    RingSize,           \* len(switchTimes)
    BuildTime,          \* bound: ticks a standby build takes
    connSwitchEnabled, loadDownRevert,
    StartEngines        \* engines the start profile may pick

ASSUME TimesAssumption ==
    /\ Cooldown \in Nat /\ LockTime \in Nat \ {0} /\ RingSize \in Nat /\ RingSize >= 3
    /\ BackoffBase \in Nat /\ BackoffMax \in Nat /\ ShiftCap \in Nat
    /\ SustainTicks \in Nat \ {0} /\ BuildTime \in Nat

Loads == {"low", "band", "up", "high"}
Never == LockTime + BuildTime + 1     \* longer ago than anything asks for
Aged(age) == IF age > Never THEN Never ELSE age
Ticks(n) == IF n > SustainTicks THEN SustainTicks ELSE n   \* more make no difference

VARIABLES
    active, bothBuilt,
    switchAge,      \* ring slot -> how long ago
    switchIdx, switchCount,
    locked, lockLeft, retryLeft, buildFailures,
    upTicks, downTicks,
    decided,        \* performSwitch is about to be called
    history         \* ages of the last four switches, newest first

vars == <<active, bothBuilt, switchAge, switchIdx, switchCount, locked, lockLeft,
          retryLeft, buildFailures, upTicks, downTicks, decided, history>>
ring == <<switchAge, switchIdx, switchCount>>

Init ==
    /\ active \in StartEngines /\ bothBuilt = FALSE
    /\ switchAge = [k \in 0..RingSize-1 |-> Never] /\ switchIdx = 0 /\ switchCount = 0
    /\ locked = FALSE /\ lockLeft = 0 /\ retryLeft = 0 /\ buildFailures = 0
    /\ upTicks = 0 /\ downTicks = 0 /\ decided = FALSE
    /\ history = <<>>

-----------------------------------------------------------------------------
(* evaluate *)

Newest == switchAge[(switchIdx + RingSize - 1) % RingSize]

\* The oscillation lock, then the cooldown since lastSwitch.
Held ==
    \/ locked /\ lockLeft > 0
    \/ switchCount > 0 /\ Newest < Cooldown

evaluateUp(l) ==
    LET ticks == IF l \in {"up", "high"} THEN Ticks(upTicks + 1) ELSE 0 IN
    /\ decided' = (l = "high" \/ (l = "up" /\ ticks >= SustainTicks))
    /\ upTicks' = ticks
    /\ downTicks' = 0

evaluateDown(l) ==
    LET ticks == IF l = "low" THEN Ticks(downTicks + 1) ELSE 0 IN
    /\ decided' = (ticks >= SustainTicks)
    /\ downTicks' = ticks
    /\ upTicks' = 0

\* The safety revert is decided above the backoff.
MustRevert(error) == active = "iouring" /\ error

evaluate(l, error, frozen) ==
    IF frozen \/ Held
    THEN UNCHANGED <<decided, upTicks, downTicks>>
    ELSE IF MustRevert(error)
    THEN decided' = TRUE /\ upTicks' = 0 /\ downTicks' = 0
    ELSE IF retryLeft > 0 \/ ~connSwitchEnabled \/ (active = "iouring" /\ ~loadDownRevert)
    THEN UNCHANGED <<decided, upTicks, downTicks>>
    ELSE IF active = "iouring" THEN evaluateDown(l) ELSE evaluateUp(l)

\* What is left of a delay n ticks later.
Left(delay, n) == IF delay > n THEN delay - n ELSE 0

Age(n) == switchAge' = [k \in DOMAIN switchAge |-> Aged(switchAge[k] + n)]

\* One tick: an evaluation, and if it recommends nothing the next tick comes.
Tick ==
    /\ ~decided
    /\ \E l \in Loads, error, frozen \in BOOLEAN :
         /\ evaluate(l, error, frozen)
         /\ locked' = (locked /\ (frozen \/ lockLeft > 0))
    /\ LET n == IF decided' THEN 0 ELSE 1 IN
         /\ Age(n)
         /\ lockLeft' = Left(lockLeft, n)
         /\ retryLeft' = Left(retryLeft, n)
         /\ history' = [k \in DOMAIN history |-> Aged(history[k] + n)]
    /\ UNCHANGED <<active, bothBuilt, switchIdx, switchCount, buildFailures>>

-----------------------------------------------------------------------------
(* performSwitch, as far as the controller sees it. *)

\* Mutant: the lock looks one switch too far back.
FourthNewest(ages, idx) == ages[(idx + RingSize - 4) % RingSize]

\* The third newest entry of switchTimes.
Oldest(ages, idx) == ages[(idx + RingSize - 3) % RingSize]

Count == IF switchCount < RingSize THEN switchCount + 1 ELSE RingSize

\* The switch is stamped when it begins; a build may take ticks before the
\* stamp is recorded.
recordSwitch(n) ==
    LET stamped == [switchAge EXCEPT ![switchIdx] = 0]
        idx == (switchIdx + 1) % RingSize
        lock == Count >= 3 /\ Oldest(stamped, idx) < LockTime
    IN /\ active' = IF active = "epoll" THEN "iouring" ELSE "epoll"
       /\ bothBuilt' = TRUE
       /\ switchAge' = [k \in DOMAIN stamped |-> Aged(stamped[k] + n)]
       /\ switchIdx' = idx /\ switchCount' = Count
       /\ locked' = (lock \/ locked)
       /\ lockLeft' = IF lock THEN Left(LockTime, n) ELSE Left(lockLeft, n)
       /\ upTicks' = 0 /\ downTicks' = 0
       /\ history' = LET all == <<n>> \o [k \in DOMAIN history |-> Aged(history[k] + n)]
                     IN SubSeq(all, 1, IF Len(all) < 4 THEN Len(all) ELSE 4)

Switch ==
    /\ decided
    /\ \E n \in 1 .. (IF bothBuilt THEN 1 ELSE BuildTime + 1) :
         /\ recordSwitch(n)
         /\ IF bothBuilt
            THEN retryLeft' = Left(retryLeft, n) /\ UNCHANGED buildFailures
            ELSE retryLeft' = 0 /\ buildFailures' = 0
    /\ decided' = FALSE

\* recordStandbyBuildFailure
Backoff(failures) ==
    IF failures - 1 < ShiftCap /\ BackoffBase * 2^(failures - 1) < BackoffMax
    THEN BackoffBase * 2^(failures - 1) ELSE BackoffMax

BuildFails ==
    /\ decided /\ ~bothBuilt
    /\ buildFailures' = IF buildFailures > ShiftCap THEN buildFailures ELSE buildFailures + 1
    /\ retryLeft' = Left(Backoff(buildFailures'), 1)
    /\ upTicks' = 0 /\ downTicks' = 0 /\ decided' = FALSE
    /\ Age(1) /\ lockLeft' = Left(lockLeft, 1)
    /\ history' = [k \in DOMAIN history |-> Aged(history[k] + 1)]
    /\ UNCHANGED <<active, bothBuilt, switchIdx, switchCount, locked>>

\* A driver's file descriptor, or a shutdown, refuses the switch.
Refused ==
    /\ decided
    /\ decided' = FALSE
    /\ Age(1) /\ lockLeft' = Left(lockLeft, 1) /\ retryLeft' = Left(retryLeft, 1)
    /\ history' = [k \in DOMAIN history |-> Aged(history[k] + 1)]
    /\ UNCHANGED <<active, bothBuilt, switchIdx, switchCount, locked, buildFailures,
                   upTicks, downTicks>>

Next == Tick \/ Switch \/ BuildFails \/ Refused

Spec == Init /\ [][Next]_vars

-----------------------------------------------------------------------------
TypeOK ==
    /\ active \in {"epoll", "iouring"} /\ bothBuilt \in BOOLEAN
    /\ switchAge \in [0..RingSize-1 -> 0..Never]
    /\ switchIdx \in 0..RingSize-1 /\ switchCount \in 0..RingSize
    /\ locked \in BOOLEAN /\ lockLeft \in 0..LockTime
    /\ retryLeft \in 0..BackoffMax /\ buildFailures \in 0..ShiftCap+1
    /\ upTicks \in 0..SustainTicks /\ downTicks \in 0..SustainTicks
    /\ decided \in BOOLEAN

\* No four switches fall into one window of the oscillation lock, whatever the
\* load does, and two are never closer than the cooldown (recordSwitch's ring
\* of times against evaluate's gates).
NoThrash ==
    /\ Len(history) = 4 => history[4] - history[1] >= LockTime \/ history[4] = Never
    /\ Len(history) >= 2 => history[2] - history[1] >= Cooldown \/ history[2] = Never
=============================================================================
