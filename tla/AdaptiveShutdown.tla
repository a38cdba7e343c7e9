--------------------------- MODULE AdaptiveShutdown ---------------------------
(***************************************************************************)
(* The life of the adaptive engine (internal/adaptive/engine.go): Listen,  *)
(* the evaluation loop that may be building a standby under mu, and the    *)
(* Shutdown calls that need mu too and may run out of time behind it, in   *)
(* which case a goroutine left in the queue for mu finishes for them.      *)
(*                                                                         *)
(* Sub-engines are instances: 0 is the start engine, the others the        *)
(* standbys that were built.  Which one is active does not matter here.    *)
(***************************************************************************)
EXTENDS Naturals, FiniteSets

CONSTANTS
    Callers,      \* calls of Shutdown
    MaxBuilds,    \* bound: standbys built
    None

Instances == 0..MaxBuilds

VARIABLES
    lpc,          \* Listen: new, registered, binding, serving, unwinding, returned
    lctx,         \* who cancelled the Listen context, or None
    epc,          \* the evaluation loop: off, idle, build, bind, hold, ended
    run,          \* instance -> its Listen goroutine: none, up, down
    bound,        \* instance -> it has published its address
    stopped,      \* instances whose own context is cancelled
    slots,        \* instances in primary and secondary
    cancels,      \* standbyCancels
    budget,       \* instance -> the call whose ctx it was last handed
    mu, shuttingDown,
    late,         \* lateShutdowns
    cpc,          \* where each Shutdown call is
    done,         \* calls that saw listenCancel and listenDone set
    ctxDone,      \* calls whose ctx has ended
    cut,          \* calls that ran out of time waiting for Listen
    overlapped,   \* a call was made while another was under way
    snap,         \* the sub-engines a call, or its goroutine, has read
    gpc           \* the goroutine a call queued for mu

vars == <<lpc, lctx, epc, run, bound, stopped, slots, cancels, budget, mu,
          shuttingDown, late, cpc, done, ctxDone, cut, overlapped, snap, gpc>>
listenVars == <<lpc, epc>>
engineVars == <<run, bound, stopped>>
slotVars == <<slots, cancels>>
callVars == <<late, cpc, done, ctxDone, cut, overlapped, snap, gpc>>

Init ==
    /\ lpc = "new" /\ lctx = None /\ epc = "off"
    /\ run = [i \in Instances |-> "none"] /\ bound = [i \in Instances |-> FALSE]
    /\ stopped = {} /\ slots = {0} /\ cancels = {}
    /\ budget = [i \in Instances |-> None]
    /\ mu = None /\ shuttingDown = FALSE /\ late = 0
    /\ cpc = [c \in Callers |-> "out"] /\ done = {} /\ ctxDone = {}
    /\ cut = {} /\ overlapped = FALSE
    /\ snap = [c \in Callers |-> {}]
    /\ gpc = [c \in Callers |-> "none"]

-----------------------------------------------------------------------------
(* Listen. *)

\* listenCancel and listenDone are published first.
ListenRegister ==
    /\ lpc = "new"
    /\ lpc' = "registered"
    /\ UNCHANGED <<lctx, epc, engineVars, slotVars, budget, mu, shuttingDown, callVars>>

\* listenCtx is set under mu, and the start engine's Listen is started.
ListenStart ==
    /\ lpc = "registered" /\ mu = None
    /\ lpc' = "binding"
    /\ run' = [run EXCEPT ![0] = "up"]
    /\ UNCHANGED <<lctx, epc, bound, stopped, slotVars, budget, mu, shuttingDown, callVars>>

\* The start engine has bound: the evaluation loop starts.
ListenBound ==
    /\ lpc = "binding" /\ bound[0]
    /\ lpc' = "serving" /\ epc' = "idle"
    /\ UNCHANGED <<lctx, engineVars, slotVars, budget, mu, shuttingDown, callVars>>

\* The context ends, the start engine's Listen fails, or the bind deadline
\* passes: Listen cancels its context and waits for everything it started.
ListenUnwind ==
    /\ \/ lpc \in {"binding", "serving"} /\ (lctx # None \/ run[0] = "down")
       \/ lpc = "binding" /\ ~bound[0]
    /\ lpc' = "unwinding"
    /\ lctx' = IF lctx = None THEN "listen" ELSE lctx
    /\ UNCHANGED <<epc, engineVars, slotVars, budget, mu, shuttingDown, callVars>>

\* Mutant: Listen waits for the sub-engines, not for the evaluation loop.
EnginesEnded == \A i \in Instances : run[i] # "up"

\* wg.Wait
AllEnded == epc \in {"off", "ended"} /\ \A i \in Instances : run[i] # "up"

ListenReturn ==
    /\ lpc = "unwinding" /\ AllEnded
    /\ lpc' = "returned"
    /\ UNCHANGED <<lctx, epc, engineVars, slotVars, budget, mu, shuttingDown, callVars>>

-----------------------------------------------------------------------------
(* A sub-engine's own Listen. *)

Cancelled(i) == lctx # None \/ i \in stopped

EngineBinds(i) ==
    /\ run[i] = "up" /\ ~bound[i] /\ ~Cancelled(i)
    /\ bound' = [bound EXCEPT ![i] = TRUE]
    /\ UNCHANGED <<lctx, listenVars, run, stopped, slotVars, budget, mu, shuttingDown, callVars>>

\* It returns once its context is cancelled, or fails before it has bound: once
\* the address is published, both engines wait for their context and nothing
\* else.
EngineReturns(i) ==
    /\ run[i] = "up" /\ (Cancelled(i) \/ ~bound[i])
    /\ run' = [run EXCEPT ![i] = "down"]
    /\ UNCHANGED <<lctx, listenVars, bound, stopped, slotVars, budget, mu, shuttingDown, callVars>>

-----------------------------------------------------------------------------
(* The evaluation loop. *)

EvalEnds ==
    /\ epc = "idle" /\ lctx # None
    /\ epc' = "ended"
    /\ UNCHANGED <<lpc, lctx, engineVars, slotVars, budget, mu, shuttingDown, callVars>>

Unbuilt == {i \in Instances : run[i] = "none"}

\* Mutant: the switch looks at the Listen context and not at shuttingDown.
ContextOnly == lctx = None

\* performSwitch does nothing once the engine is shutting down.
MaySwitch == ~shuttingDown /\ lctx = None

\* The slot of the engine to switch to is nil.
SlotEmpty == Cardinality(slots) < 2

\* performSwitch takes mu: it builds the standby, or finds it in its slot.
\* The tick may have been drawn before the context ended.
SwitchEnter ==
    /\ epc = "idle" /\ mu = None /\ MaySwitch
    /\ epc' = IF SlotEmpty THEN "build" ELSE "hold"
    /\ epc' = "build" => Unbuilt # {}
    /\ mu' = "switch"
    /\ UNCHANGED <<lpc, lctx, engineVars, slotVars, budget, shuttingDown, callVars>>

\* buildStandby returned: the standby's Listen is started under a child of the
\* Listen context, and joins the same wait group.
StandbyStart ==
    /\ epc = "build"
    /\ epc' = "bind"
    /\ LET i == CHOOSE i \in Unbuilt : \A j \in Unbuilt : i <= j IN
         run' = [run EXCEPT ![i] = "up"]
    /\ UNCHANGED <<lpc, lctx, bound, stopped, slotVars, budget, mu, shuttingDown, callVars>>

Standby == CHOOSE i \in Instances : i # 0 /\ run[i] # "none" /\ i \notin slots \cup stopped

StandbyBound ==
    /\ epc = "bind" /\ bound[Standby]
    /\ epc' = "hold"
    /\ slots' = slots \cup {Standby}
    /\ cancels' = cancels \cup {Standby}
    /\ UNCHANGED <<lpc, lctx, engineVars, budget, mu, shuttingDown, callVars>>

\* The builder fails, or the standby has not bound when its Listen returns, its
\* context ends or 5 s pass: its own context is cancelled.
StandbyFails ==
    /\ \/ epc = "build" /\ UNCHANGED stopped
       \/ epc = "bind" /\ ~bound[Standby] /\ stopped' = stopped \cup {Standby}
    /\ epc' = "idle" /\ mu' = None
    /\ UNCHANGED <<lpc, lctx, run, bound, slotVars, budget, shuttingDown, callVars>>

SwitchDone ==
    /\ epc = "hold"
    /\ epc' = "idle" /\ mu' = None
    /\ UNCHANGED <<lpc, lctx, engineVars, slotVars, budget, shuttingDown, callVars>>

-----------------------------------------------------------------------------
(* Shutdown. *)

At(c, label) == cpc[c] = label
To(c, label) == cpc' = [cpc EXCEPT ![c] = label]
Returned(c) == cpc[c] \in {"ok", "err"}

\* listenCancel and listenDone are read.
Call(c) ==
    /\ At(c, "out")
    /\ To(c, "lock")
    /\ done' = IF lpc = "new" THEN done ELSE done \cup {c}
    /\ overlapped' = (overlapped \/ \E d \in Callers : ~At(d, "out") /\ ~Returned(d))
    /\ UNCHANGED <<lctx, listenVars, engineVars, slotVars, budget, mu, shuttingDown,
                   late, ctxDone, cut, snap, gpc>>

\* The ctx the caller gave ends.
Expire(c) ==
    /\ cpc[c] \notin {"out", "ok", "err"} /\ c \notin ctxDone
    /\ ctxDone' = ctxDone \cup {c}
    /\ UNCHANGED <<lctx, listenVars, engineVars, slotVars, budget, mu, shuttingDown,
                   late, cpc, done, cut, overlapped, snap, gpc>>

\* lateIdle is nil.
NoneLate == late = 0

LookForLate(c) ==
    /\ At(c, "lock")
    /\ \/ NoneLate /\ To(c, "try")
       \/ late > 0 /\ c \in ctxDone /\ To(c, "giveup")
    /\ UNCHANGED <<lctx, listenVars, engineVars, slotVars, budget, mu, shuttingDown,
                   late, done, ctxDone, cut, overlapped, snap, gpc>>

\* TryLock, or a goroutine queued for mu.
TryLock(c) ==
    /\ At(c, "try")
    /\ IF mu = None
       THEN To(c, "snap") /\ mu' = c /\ UNCHANGED gpc
       ELSE To(c, "select") /\ gpc' = [gpc EXCEPT ![c] = "queued"] /\ UNCHANGED mu
    /\ UNCHANGED <<lctx, listenVars, engineVars, slotVars, budget, shuttingDown,
                   late, done, ctxDone, cut, overlapped, snap>>

QueueLocks(c) ==
    /\ gpc[c] = "queued" /\ mu = None
    /\ gpc' = [gpc EXCEPT ![c] = "locked"]
    /\ mu' = c
    /\ UNCHANGED <<lctx, listenVars, engineVars, slotVars, budget, shuttingDown,
                   late, cpc, done, ctxDone, cut, overlapped, snap>>

\* The goroutine hands mu to the call.
HandOver(c) ==
    /\ gpc[c] = "locked" /\ At(c, "select")
    /\ gpc' = [gpc EXCEPT ![c] = "none"]
    /\ To(c, "snap")
    /\ UNCHANGED <<lctx, listenVars, engineVars, slotVars, budget, mu, shuttingDown,
                   late, done, ctxDone, cut, overlapped, snap>>

\* The call gives up first: the goroutine is counted, then told.
Abandon(c) ==
    /\ At(c, "select") /\ c \in ctxDone
    /\ late' = late + 1
    /\ To(c, "giveup")
    /\ UNCHANGED <<lctx, listenVars, engineVars, slotVars, budget, mu, shuttingDown,
                   done, ctxDone, cut, overlapped, snap, gpc>>

\* Mutant: giving up cancels nothing.
CancelNothing(c) == UNCHANGED lctx

\* cancelListen, when Listen had been called.
CancelListen(c) ==
    lctx' = IF lctx = None /\ c \in done THEN c ELSE lctx

GiveUp(c) ==
    /\ At(c, "giveup")
    /\ CancelListen(c)
    /\ To(c, "err")
    /\ UNCHANGED <<listenVars, engineVars, slotVars, budget, mu, shuttingDown,
                   late, done, ctxDone, cut, overlapped, snap, gpc>>

\* Mutant: lateIdle is closed before the sub-engines have been stopped.
IdleEarly == late - 1

\* The goroutine counts as long as it has sub-engines to stop.
LateAfterUnlock == late

\* finishShutdownLate: the goroutine got mu after the call had given up.
LateFlag(c) ==
    /\ gpc[c] = "locked" /\ cpc[c] \in {"giveup", "err"}
    /\ gpc' = [gpc EXCEPT ![c] = "late"]
    /\ shuttingDown' = TRUE
    /\ snap' = [snap EXCEPT ![c] = slots]
    /\ stopped' = stopped \cup cancels
    /\ cancels' = {}
    /\ late' = LateAfterUnlock
    /\ mu' = None
    /\ UNCHANGED <<lctx, listenVars, run, bound, slots, budget, cpc, done, ctxDone, cut, overlapped>>

\* Each sub-engine read is handed the call's ctx.
Handed(c) == [i \in Instances |-> IF i \in snap[c] THEN c ELSE budget[i]]

LateStop(c) ==
    /\ gpc[c] = "late"
    /\ gpc' = [gpc EXCEPT ![c] = "none"]
    /\ budget' = Handed(c)
    /\ snap' = [snap EXCEPT ![c] = {}]
    /\ late' = LateAfterUnlock - 1
    /\ UNCHANGED <<lctx, listenVars, engineVars, slotVars, mu, shuttingDown, cpc, done, ctxDone, cut, overlapped>>

\* With mu: the flag is set and the sub-engines are read in one go.
Snapshot(c) ==
    /\ At(c, "snap")
    /\ To(c, "begin")
    /\ shuttingDown' = TRUE
    /\ snap' = [snap EXCEPT ![c] = slots]
    /\ mu' = None
    /\ UNCHANGED <<lctx, listenVars, engineVars, slotVars, budget, late, done, ctxDone, cut, overlapped, gpc>>

BeginShutdown(c) ==
    /\ At(c, "begin")
    /\ To(c, "cancel")
    /\ budget' = Handed(c)
    /\ snap' = [snap EXCEPT ![c] = {}]
    /\ UNCHANGED <<lctx, listenVars, engineVars, slotVars, mu, shuttingDown, late, done, ctxDone, cut, overlapped, gpc>>

Cancel(c) ==
    /\ At(c, "cancel")
    /\ CancelListen(c)
    /\ To(c, "join")
    /\ UNCHANGED <<listenVars, engineVars, slotVars, budget, mu, shuttingDown,
                   late, done, ctxDone, cut, overlapped, snap, gpc>>

\* Listen has returned, was never called, or the ctx ends first.
Join(c) ==
    /\ At(c, "join")
    /\ \/ (c \in done => lpc = "returned") /\ UNCHANGED cut
       \/ c \in done /\ lpc # "returned" /\ c \in ctxDone /\ cut' = cut \cup {c}
    /\ To(c, "stop")
    /\ UNCHANGED <<lctx, listenVars, engineVars, slotVars, budget, mu, shuttingDown,
                   late, done, ctxDone, overlapped, snap, gpc>>

\* The slots are read again under mu.
Reread(c) ==
    /\ At(c, "stop") /\ mu = None
    /\ To(c, "stopSubs")
    /\ snap' = [snap EXCEPT ![c] = slots]
    /\ stopped' = stopped \cup cancels
    /\ cancels' = {}
    /\ UNCHANGED <<lctx, listenVars, run, bound, slots, budget, mu, shuttingDown,
                   late, done, ctxDone, cut, overlapped, gpc>>

stopSubEngines(c) ==
    /\ At(c, "stopSubs")
    /\ To(c, IF c \in cut THEN "err" ELSE "ok")
    /\ budget' = Handed(c)
    /\ snap' = [snap EXCEPT ![c] = {}]
    /\ UNCHANGED <<lctx, listenVars, engineVars, slotVars, mu, shuttingDown,
                   late, done, ctxDone, cut, overlapped, gpc>>

\* Server.Shutdown cancels the context it gave Listen after the engine's
\* Shutdown has returned.
ServerCancels ==
    /\ lctx = None /\ \E c \in Callers : Returned(c)
    /\ lctx' = "server"
    /\ UNCHANGED <<listenVars, engineVars, slotVars, budget, mu, shuttingDown, callVars>>

ListenStep == ListenRegister \/ ListenStart \/ ListenBound \/ ListenUnwind \/ ListenReturn
EvalStep == EvalEnds \/ SwitchEnter \/ StandbyStart \/ StandbyBound \/ StandbyFails \/ SwitchDone
CallStep(c) ==
    \/ LookForLate(c) \/ TryLock(c) \/ HandOver(c) \/ Abandon(c) \/ GiveUp(c)
    \/ Snapshot(c) \/ BeginShutdown(c) \/ Cancel(c) \/ Join(c) \/ Reread(c) \/ stopSubEngines(c)
QueueStep(c) == QueueLocks(c) \/ LateFlag(c) \/ LateStop(c)

Next ==
    \/ ListenStep \/ EvalStep \/ ServerCancels
    \/ \E i \in Instances : EngineBinds(i) \/ EngineReturns(i)
    \/ \E c \in Callers : Call(c) \/ Expire(c) \/ CallStep(c) \/ QueueStep(c)

Spec == Init /\ [][Next]_vars

\* Every goroutine runs; mu is a Go mutex, which a waiter gets in the end; the
\* wait for a bind has a deadline; the server cancels its context.
FairSpec ==
    /\ Spec
    /\ WF_vars(ListenBound \/ ListenUnwind \/ ListenReturn) /\ SF_vars(ListenStart)
    /\ WF_vars(EvalEnds) /\ WF_vars(StandbyStart \/ StandbyBound \/ StandbyFails \/ SwitchDone)
    /\ \A i \in Instances : WF_vars(EngineReturns(i) /\ Cancelled(i))
    /\ WF_vars(ServerCancels)
    /\ \A c \in Callers : SF_vars(CallStep(c)) /\ SF_vars(QueueStep(c))

-----------------------------------------------------------------------------
TypeOK ==
    /\ lpc \in {"new", "registered", "binding", "serving", "unwinding", "returned"}
    /\ lctx \in Callers \cup {None, "listen", "server"}
    /\ epc \in {"off", "idle", "build", "bind", "hold", "ended"}
    /\ run \in [Instances -> {"none", "up", "down"}]
    /\ bound \in [Instances -> BOOLEAN]
    /\ stopped \subseteq Instances /\ slots \subseteq Instances /\ cancels \subseteq slots
    /\ Cardinality(slots) <= 2
    /\ budget \in [Instances -> Callers \cup {None}]
    /\ mu \in Callers \cup {None, "switch"} /\ shuttingDown \in BOOLEAN
    /\ late \in 0..Cardinality(Callers)
    /\ cpc \in [Callers -> {"out", "lock", "try", "select", "giveup", "snap", "begin",
                            "cancel", "join", "stop", "stopSubs", "ok", "err"}]
    /\ done \subseteq Callers /\ ctxDone \subseteq Callers /\ cut \subseteq Callers
    /\ overlapped \in BOOLEAN
    /\ snap \in [Callers -> SUBSET Instances]
    /\ gpc \in [Callers -> {"none", "queued", "locked", "late"}]

\* A Shutdown that returns nil after Listen had been called leaves nothing
\* running: no sub-engine, in a slot or given up on, and no evaluation loop
\* that could still sample the CPU monitor the server closes next (Shutdown
\* joins Listen, which joins everything in its wait group).
JoinedAll ==
    \A c \in done : cpc[c] = "ok" =>
        epc \in {"off", "ended"} /\ \A i \in Instances : run[i] # "up"

\* When a Shutdown that has had mu cancels the Listen context, every sub-engine
\* has been handed a drain budget first, a standby built a moment before
\* included (shuttingDown set with the snapshot, and checked by performSwitch).
BudgetFirst ==
    \A c \in Callers :
        At(c, "join") => \A i \in slots : budget[i] # None

\* Of calls that follow one another, the last one let in has the last word: the
\* budget it handed the sub-engines is never replaced by that of a goroutine an
\* earlier call left behind (lockForShutdown waits for lateIdle).
LatestBudget ==
    [][\A c, d \in Callers :
         (~overlapped /\ cpc[d] \in {"cancel", "join", "stop", "stopSubs", "ok"} /\ c # d /\ Returned(c))
             => \A i \in Instances : budget[i] = d => budget'[i] # c]_vars

\* After a Shutdown call, everything comes to rest: Listen returns, every
\* sub-engine ends, mu is free and no goroutine waits for it, also when every
\* call gave up behind a switch.
ComesToRest ==
    (\E c \in Callers : At(c, "lock") /\ c \in done) ~>
        /\ lpc = "returned" /\ mu = None /\ shuttingDown
        /\ \A i \in Instances : run[i] # "up"
        /\ \A d \in Callers : gpc[d] = "none"
=============================================================================
