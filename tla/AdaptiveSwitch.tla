---------------------------- MODULE AdaptiveSwitch ----------------------------
(***************************************************************************)
(* The adaptive engine's switch between its epoll and io_uring sub-engines *)
(* (internal/adaptive): performSwitch with its lazy standby build, the     *)
(* three reasons that freeze switching, driver file descriptors that pin   *)
(* the engine they were registered on, and the listening sockets that the  *)
(* sub-engines' loops open and close after they are told to.               *)
(*                                                                         *)
(* Two locks order the steps.  mu is held by one switch from its first     *)
(* line to its last.  freezeState is held for one step by everybody else   *)
(* and for two by a switch that commits; fs names that holder.             *)
(*                                                                         *)
(* The outgoing engine is the one that closes its listeners as soon as its *)
(* loops see the pause (DisableDeferAccept): the configuration in which    *)
(* the port can be left without a listener.                                *)
(***************************************************************************)
EXTENDS Integers, FiniteSets

CONSTANTS
    EvalLoop,      \* the goroutine of runEvalLoop
    ForceCallers,  \* goroutines that call ForceSwitch
    Drivers,       \* file descriptors drivers register through the provider
    Loops,         \* event loops of each sub-engine
    None,
    MaxFreezes,    \* bound: FreezeSwitching calls outstanding
    MaxCooldowns   \* bound: cooldown timers running; 0: freezeCooldown is 0

Switchers == {EvalLoop} \cup ForceCallers
Engines == {"epoll", "iouring"}
Other(e) == IF e = "epoll" THEN "iouring" ELSE "epoll"

ASSUME SwitchersAssumption == None \notin Switchers
ASSUME DriversAssumption == IsFiniteSet(Drivers)
ASSUME BoundsAssumption == MaxFreezes \in Nat /\ MaxCooldowns \in Nat

VARIABLES
    pc,              \* where each switcher is in performSwitch
    mu, fs,          \* holders of mu and, across steps, of freezeState
    built,           \* sub-engines in the slots
    fresh,           \* freshlyBuilt of the switch that holds mu
    active,
    accept,          \* sub-engine -> told to accept (ResumeAccept / BeginPauseAccept)
    drain,           \* sub-engine -> transplanting its connections to the other
    listening,       \* <<sub-engine, loop>> with an open listening socket
    gone,            \* <<sub-engine, loop>> that could not open its socket again and ended
    watch,           \* sockets in the kernel's list before the resume, or None
    unseen,          \* a switch went on without having seen the incoming listener
    forced,          \* ForceSwitch has been called
    userFreezes, driverFDs, cooldownFreezes, frozen,
    dpc, at          \* where each driver FD is, and the engine it is on

vars == <<pc, mu, fs, built, fresh, active, accept, drain, listening, gone,
          watch, unseen, forced, userFreezes, driverFDs, cooldownFreezes, frozen, dpc, at>>

freezeVars == <<userFreezes, driverFDs, cooldownFreezes, frozen>>
driverVars == <<dpc, at>>
engineVars == <<built, accept, drain, listening, gone, watch, unseen, forced>>
switchVars == <<pc, mu, fs, fresh, active>>

Init ==
    /\ pc = [s \in Switchers |-> "idle"]
    /\ mu = None /\ fs = None
    /\ active \in Engines
    /\ built = {active} /\ fresh = FALSE
    /\ accept = [e \in Engines |-> e = active]
    /\ drain = [e \in Engines |-> FALSE]
    /\ listening = {active} \X Loops /\ gone = {}
    /\ watch = None /\ unseen = FALSE /\ forced = FALSE
    /\ userFreezes = 0 /\ driverFDs = 0 /\ cooldownFreezes = 0 /\ frozen = FALSE
    /\ dpc = [d \in Drivers |-> "out"]
    /\ at = [d \in Drivers |-> None]

-----------------------------------------------------------------------------
(* Freezing. *)

\* Mutant: a thaw that looks at the users' freezes and the cooldowns alone.
ThawIgnoringDrivers(users, fds, cools) == users > 0 \/ cools > 0

\* maybeThawLocked: what stays frozen when a reason goes away.
StaysFrozen(users, fds, cools) == users > 0 \/ fds > 0 \/ cools > 0

FreezeSwitching ==
    /\ fs = None /\ userFreezes < MaxFreezes
    /\ userFreezes' = userFreezes + 1
    /\ frozen' = TRUE
    /\ UNCHANGED <<driverFDs, cooldownFreezes, driverVars, engineVars, switchVars>>

\* A call more than FreezeSwitching's calls changes nothing.
UnfreezeSwitching ==
    /\ fs = None /\ userFreezes > 0
    /\ userFreezes' = userFreezes - 1
    /\ frozen' = (frozen /\ StaysFrozen(userFreezes', driverFDs, cooldownFreezes))
    /\ UNCHANGED <<driverFDs, cooldownFreezes, driverVars, engineVars, switchVars>>

CooldownEnds ==
    /\ fs = None /\ cooldownFreezes > 0
    /\ cooldownFreezes' = cooldownFreezes - 1
    /\ frozen' = (frozen /\ StaysFrozen(userFreezes, driverFDs, cooldownFreezes'))
    /\ UNCHANGED <<userFreezes, driverFDs, driverVars, engineVars, switchVars>>

-----------------------------------------------------------------------------
(* A driver's file descriptor: RegisterConn counts it, loads the active    *)
(* engine and registers on that engine; UnregisterConn takes it off its    *)
(* engine before it gives the count back.                                  *)

acquireDriverFD ==
    /\ fs = None
    /\ driverFDs' = driverFDs + 1
    /\ frozen' = TRUE
    /\ UNCHANGED <<userFreezes, cooldownFreezes>>

releaseDriverFD ==
    /\ fs = None
    /\ driverFDs' = driverFDs - 1
    /\ frozen' = (frozen /\ StaysFrozen(userFreezes, driverFDs', cooldownFreezes))
    /\ UNCHANGED <<userFreezes, cooldownFreezes>>

RegisterConn(d) ==
    /\ dpc[d] = "out"
    /\ acquireDriverFD
    /\ dpc' = [dpc EXCEPT ![d] = "counted"]
    /\ UNCHANGED <<at, engineVars, switchVars>>

LoadActive(d) ==
    /\ dpc[d] = "counted"
    /\ dpc' = [dpc EXCEPT ![d] = "loaded"]
    /\ at' = [at EXCEPT ![d] = active]
    /\ UNCHANGED <<freezeVars, engineVars, switchVars>>

InnerRegister(d) ==
    /\ dpc[d] = "loaded"
    /\ \E ok \in BOOLEAN :
         /\ dpc' = [dpc EXCEPT ![d] = IF ok THEN "pinned" ELSE "leaving"]
         /\ at' = IF ok THEN at ELSE [at EXCEPT ![d] = None]
    /\ UNCHANGED <<freezeVars, engineVars, switchVars>>

UnregisterConn(d) ==
    /\ dpc[d] = "pinned"
    /\ dpc' = [dpc EXCEPT ![d] = "leaving"]
    /\ at' = [at EXCEPT ![d] = None]
    /\ UNCHANGED <<freezeVars, engineVars, switchVars>>

Release(d) ==
    /\ dpc[d] = "leaving"
    /\ releaseDriverFD
    /\ dpc' = [dpc EXCEPT ![d] = "out"]
    /\ UNCHANGED <<at, engineVars, switchVars>>

-----------------------------------------------------------------------------
(* Deciding on a switch. *)

\* The active engine's loops have followed its resume.  The controller's 30 s
\* cooldown after a switch gives them that time; ForceSwitch does not wait for
\* it.
Settled == ({active} \X Loops) \ gone \subseteq listening

\* One tick: evaluate reads frozen, recommends the switch, and lets go of
\* switchMu before performSwitch is called.
Evaluate ==
    /\ pc[EvalLoop] = "idle" /\ ~frozen /\ Settled
    /\ pc' = [pc EXCEPT ![EvalLoop] = "decided"]
    /\ UNCHANGED <<mu, fs, fresh, active, freezeVars, driverVars, engineVars>>

ForceSwitch(s) ==
    /\ pc[s] = "idle"
    /\ pc' = [pc EXCEPT ![s] = "decided"]
    /\ forced' = TRUE
    /\ UNCHANGED <<mu, fs, fresh, active, freezeVars, driverVars,
                   built, accept, drain, listening, gone, watch, unseen>>

-----------------------------------------------------------------------------
(* performSwitch. *)

Goto(s, label) == pc' = [pc EXCEPT ![s] = label]

Return(s) == Goto(s, "idle") /\ mu' = None

\* The engine the switch goes to: the other slot's.
Incoming == Other(active)

\* The first look at the driver FDs, under freezeState.
Enter(s) ==
    /\ pc[s] = "decided" /\ mu = None /\ fs = None
    /\ IF driverFDs > 0
       THEN Return(s)
       ELSE Goto(s, "resolve") /\ mu' = s
    /\ UNCHANGED <<fs, fresh, active, freezeVars, driverVars, engineVars>>

SlotFilled(s) ==
    /\ pc[s] = "resolve" /\ Incoming \in built
    /\ Goto(s, "recheck")
    /\ fresh' = FALSE
    /\ UNCHANGED <<mu, fs, active, freezeVars, driverVars, engineVars>>

\* buildAndStartStandby succeeds: the standby has bound, and accepts.
Build(s) ==
    /\ pc[s] = "resolve" /\ Incoming \notin built
    /\ Goto(s, "recheck")
    /\ fresh' = TRUE
    /\ built' = built \cup {Incoming}
    /\ accept' = [accept EXCEPT ![Incoming] = TRUE]
    /\ listening' = listening \cup ({Incoming} \X Loops)
    /\ UNCHANGED <<mu, fs, active, drain, gone, watch, unseen, forced, freezeVars,
                   driverVars>>

\* It fails: the standby is stopped and nothing is stored.
BuildFails(s) ==
    /\ pc[s] = "resolve" /\ Incoming \notin built
    /\ Return(s)
    /\ UNCHANGED <<fs, fresh, active, freezeVars, driverVars, engineVars>>

\* Mutant: the count is not looked at again after the build.
NoRecheck == FALSE

\* The second look, after the build.
DriversArrived == driverFDs > 0

\* Refused: a freshly built standby leaves the port again.
Refuse(s) ==
    /\ pc[s] = "recheck" /\ fs = None /\ DriversArrived
    /\ IF fresh THEN Goto(s, "unfresh") /\ UNCHANGED mu ELSE Return(s)
    /\ UNCHANGED <<fs, fresh, active, freezeVars, driverVars, engineVars>>

\* Mutant: the refused standby is left accepting beside the active engine.
LeaveAccepting == accept

\* beginPause(newActive) of a refused switch.
PausedFresh == [accept EXCEPT ![Incoming] = FALSE]

PauseFresh(s) ==
    /\ pc[s] = "unfresh"
    /\ Goto(s, "drainfresh")
    /\ accept' = PausedFresh
    /\ UNCHANGED <<mu, fs, fresh, active, built, drain, listening, gone, watch,
                   unseen, forced, freezeVars, driverVars>>

\* applyTransplant: the engine that serves stops draining, the other starts.
applyTransplant(serving) == [e \in Engines |-> e # serving]

DrainFresh(s) ==
    /\ pc[s] = "drainfresh"
    /\ Return(s)
    /\ drain' = applyTransplant(active)
    /\ UNCHANGED <<fs, fresh, active, built, accept, listening, gone, watch, unseen, forced,
                   freezeVars, driverVars>>

\* Mutant: the incoming engine keeps the drain of the previous switch.
KeepDrain == drain

\* StopTransplant on the incoming engine, before it accepts again.
StoppedDrain == [drain EXCEPT ![Incoming] = FALSE]

\* watchIncomingListener: a standby built just now has its listeners already.
Watched == IF fresh THEN None ELSE listening

\* freezeState is taken and kept until the commit.  When the kernel's list of
\* listening sockets cannot be taken, the switch goes on without a watch.
StartCommit(s) ==
    /\ pc[s] = "recheck" /\ fs = None /\ ~DriversArrived
    /\ MaxCooldowns > 0 => cooldownFreezes < MaxCooldowns
    /\ Goto(s, "commit")
    /\ fs' = s
    /\ drain' = StoppedDrain
    /\ \/ watch' = Watched /\ UNCHANGED unseen
       \/ ~fresh /\ watch' = None /\ unseen' = TRUE
    /\ UNCHANGED <<mu, fresh, active, built, accept, listening, gone, forced,
                   freezeVars, driverVars>>

\* ResumeAccept, active.Store and recordSwitch; freezeState is let go.
Commit(s) ==
    /\ pc[s] = "commit"
    /\ Goto(s, "await")
    /\ fs' = None
    /\ accept' = [accept EXCEPT ![Incoming] = TRUE]
    /\ active' = Incoming
    /\ UNCHANGED <<mu, fresh, built, drain, listening, gone, watch, unseen, forced,
                   freezeVars, driverVars>>

\* Mutant: any listening socket will do, the outgoing engine's too.
SeenAny == watch # None => listening # {}

\* A socket that was not in the list.
Seen == watch # None => \E l \in listening : l \notin watch

\* awaitIncomingListener sees the incoming engine listen, or has no watch.
SawListener(s) ==
    /\ pc[s] = "await" /\ Seen
    /\ Goto(s, "pause")
    /\ watch' = None
    /\ UNCHANGED <<mu, fs, fresh, active, built, accept, drain, listening, gone,
                   unseen, forced, freezeVars, driverVars>>

\* It gives up at listenWaitBound, or when it loses the kernel's list.
WaitExpires(s) ==
    /\ pc[s] = "await" /\ watch # None
    /\ Goto(s, "pause")
    /\ watch' = None
    /\ unseen' = TRUE
    /\ UNCHANGED <<mu, fs, fresh, active, built, accept, drain, listening, gone,
                   forced, freezeVars, driverVars>>

\* beginPause(newStandby)
PauseOld(s) ==
    /\ pc[s] = "pause"
    /\ Goto(s, "transplant")
    /\ accept' = [accept EXCEPT ![Incoming] = FALSE]
    /\ UNCHANGED <<mu, fs, fresh, active, built, drain, listening, gone, watch,
                   unseen, forced, freezeVars, driverVars>>

Transplant(s) ==
    /\ pc[s] = "transplant"
    /\ drain' = applyTransplant(active)
    /\ IF MaxCooldowns > 0 THEN Goto(s, "cooldown") /\ UNCHANGED mu ELSE Return(s)
    /\ UNCHANGED <<fs, fresh, active, built, accept, listening, gone, watch, unseen, forced,
                   freezeVars, driverVars>>

StartCooldown(s) ==
    /\ pc[s] = "cooldown" /\ fs = None
    /\ Return(s)
    /\ cooldownFreezes' = cooldownFreezes + 1
    /\ frozen' = TRUE
    /\ UNCHANGED <<fs, fresh, active, userFreezes, driverFDs, driverVars, engineVars>>

-----------------------------------------------------------------------------
(* A sub-engine's loops follow the flag in their own time.                  *)

\* The loop finds itself without a socket while it should accept.
Relistens(e, l) == e \in built /\ accept[e] /\ <<e, l>> \notin listening \cup gone

Listens(e, l) ==
    /\ Relistens(e, l)
    /\ listening' = listening \cup {<<e, l>>}
    /\ UNCHANGED <<built, accept, drain, gone, watch, unseen, forced, freezeVars,
                   driverVars, switchVars>>

\* It cannot open one, and ends.
ListenFails(e, l) ==
    /\ Relistens(e, l)
    /\ gone' = gone \cup {<<e, l>>}
    /\ UNCHANGED <<built, accept, drain, listening, watch, unseen, forced, freezeVars,
                   driverVars, switchVars>>

\* A socket opened later is another one, in the list of no earlier watch.
Closes(e, l) ==
    /\ ~accept[e] /\ <<e, l>> \in listening
    /\ listening' = listening \ {<<e, l>>}
    /\ watch' = IF watch = None THEN None ELSE watch \ {<<e, l>>}
    /\ UNCHANGED <<built, accept, drain, gone, unseen, forced, freezeVars, driverVars,
                   switchVars>>

SwitchStep(s) ==
    \/ Enter(s) \/ SlotFilled(s) \/ Build(s) \/ BuildFails(s)
    \/ Refuse(s) \/ PauseFresh(s) \/ DrainFresh(s)
    \/ StartCommit(s) \/ Commit(s) \/ SawListener(s) \/ WaitExpires(s)
    \/ PauseOld(s) \/ Transplant(s) \/ StartCooldown(s)

DriverStep(d) ==
    \/ RegisterConn(d) \/ LoadActive(d) \/ InnerRegister(d)
    \/ UnregisterConn(d) \/ Release(d)

Next ==
    \/ Evaluate
    \/ \E s \in ForceCallers : ForceSwitch(s)
    \/ \E s \in Switchers : SwitchStep(s)
    \/ \E d \in Drivers : DriverStep(d)
    \/ FreezeSwitching \/ UnfreezeSwitching \/ CooldownEnds
    \/ \E e \in Engines, l \in Loops : Listens(e, l) \/ ListenFails(e, l) \/ Closes(e, l)

Spec == Init /\ [][Next]_vars

-----------------------------------------------------------------------------
Labels == {"idle", "decided", "resolve", "recheck", "unfresh", "drainfresh",
           "commit", "await", "pause", "transplant", "cooldown"}

TypeOK ==
    /\ pc \in [Switchers -> Labels]
    /\ mu \in Switchers \cup {None} /\ fs \in Switchers \cup {None}
    /\ built \subseteq Engines /\ active \in built
    /\ fresh \in BOOLEAN /\ unseen \in BOOLEAN /\ forced \in BOOLEAN /\ frozen \in BOOLEAN
    /\ accept \in [Engines -> BOOLEAN] /\ drain \in [Engines -> BOOLEAN]
    /\ listening \subseteq Engines \X Loops
    /\ watch = None \/ watch \subseteq Engines \X Loops
    /\ userFreezes \in Nat /\ driverFDs \in Nat /\ cooldownFreezes \in Nat
    /\ dpc \in [Drivers -> {"out", "counted", "loaded", "pinned", "leaving"}]
    /\ at \in [Drivers -> Engines \cup {None}]

\* A driver's file descriptor is on the active engine from the moment its
\* registration has picked an engine until it has been taken off: a switch
\* never leaves one behind on the engine it pauses (performSwitch's two looks
\* at driverFDs; RegisterConn counting before it loads active).
DriverOnActive ==
    \A d \in Drivers : dpc[d] \in {"loaded", "pinned"} => at[d] = active

\* Switching is frozen exactly while somebody holds a reason: a user, a driver
\* or a cooldown timer.  No reason's end thaws what another still holds, and
\* the last one's end always thaws (maybeThawLocked).
FrozenExact ==
    frozen <=> userFreezes + driverFDs + cooldownFreezes > 0

\* Between switches the active engine alone is told to accept, and a standby
\* is handing its connections over to it, also after a switch that was refused
\* once its standby had been built (performSwitch's last lines on every path).
AtRest ==
    mu = None => \A e \in built : (accept[e] <=> e = active) /\ (drain[e] <=> e # active)

\* No engine that is told to accept hands its connections away, and the two
\* never hand over to each other: what one gives the other does not come back
\* (StopTransplant before ResumeAccept, beginPause before applyTransplant).
NoPingPong ==
    /\ \A e \in Engines : ~(accept[e] /\ drain[e])
    /\ ~(drain["epoll"] /\ drain["iouring"])

\* While the controller alone decides, and unless a switch had to go on without
\* having seen the incoming listener (no list of the kernel's, or the wait's
\* bound), the port always has a listening socket (awaitIncomingListener
\* before beginPause).
PortServed == forced \/ unseen \/ listening # {}

\* FreezeSwitching "prevents the controller from switching engines": none is
\* committed while a user's freeze is outstanding.
FreezeHolds == [][userFreezes > 0 => active' = active]_vars
=============================================================================
