----------------------------- MODULE StreamCtx -----------------------------
(***************************************************************************)
(* The context of one use of a stream (streamCtx, useCtx, CancelFirst and  *)
(* endCtx of internal/protocol/h2/stream/stream.go).  The context and its  *)
(* Done channel are both made on demand, lock-free, while the stream may   *)
(* be cancelled, its use ended and the parent context ended by others.     *)
(***************************************************************************)
EXTENDS Naturals, TLC

CONSTANTS
  Users,      \* goroutines that ask for the context and its Done channel;
              \* each names the context and the channel it may make
  None, Shared  \* no context or channel; closedChan

\* The other goroutines: the one that cancels the stream, the one that ends its
\* use, and what AfterFunc runs for each context when the parent ends.
Procs == (Users \X {"user", "after"}) \cup {<<"cancel", "">>, <<"end", "">>}
User(u) == <<u, "user">>
After(u) == <<u, "after">>
Canceller == <<"cancel", "">>
Ender == <<"end", "">>

VARIABLES
  flag,       \* flagCancelled of the stream
  parent,     \* the parent context has ended
  ctx,        \* Stream.ctx
  ended,      \* the use is over
  cancelled, doneClosed,  \* streamCtx.state, per context
  done,       \* streamCtx.done
  registered, \* the contexts that AfterFunc holds for the parent
  closes,     \* how often each channel was closed
  pc, c, d, ret  \* per goroutine: where, with which context and channel, and
              \* where cancel or closeDone returns to

state == <<flag, parent, ctx, ended, cancelled, doneClosed, done, registered, closes>>
vars == <<state, pc, c, d, ret>>

Init ==
  /\ flag = FALSE /\ parent = FALSE /\ ctx = None /\ ended = FALSE
  /\ cancelled = [u \in Users |-> FALSE] /\ doneClosed = [u \in Users |-> FALSE]
  /\ done = [u \in Users |-> None]
  /\ registered = {} /\ closes = [u \in Users |-> 0]
  /\ pc = [p \in Procs |-> "start"]
  /\ c = [p \in Procs |-> None] /\ d = [p \in Procs |-> None] /\ ret = [p \in Procs |-> "end"]

Goes(p, from, to) == pc[p] = from /\ pc' = [pc EXCEPT ![p] = to]
Calls(p, from, op, to) == Goes(p, from, op) /\ ret' = [ret EXCEPT ![p] = to]

-----------------------------------------------------------------------------
(* cancel and closeDone, on any goroutine. *)

\* state.Or(ctxCancelled): only the first goes on.
CancelOr(p) ==
  /\ Goes(p, "cancel", IF cancelled[c[p]] THEN ret[p] ELSE "loadDone")
  /\ cancelled' = [cancelled EXCEPT ![c[p]] = TRUE]
  /\ UNCHANGED <<flag, parent, ctx, ended, doneClosed, done, registered, closes, c, d, ret>>

CancelLoadDone(p) ==
  /\ pc[p] = "loadDone"
  /\ pc' = [pc EXCEPT ![p] = IF done[c[p]] \in {None, Shared} THEN ret[p] ELSE "closeDone"]
  /\ d' = [d EXCEPT ![p] = done[c[p]]]
  /\ UNCHANGED <<state, c, ret>>

\* state.Or(ctxDoneClosed) as it was before.
AlreadyClosed(x) == doneClosed[x]

CloseOr(p) ==
  /\ Goes(p, "closeDone", IF AlreadyClosed(c[p]) THEN ret[p] ELSE "close")
  /\ doneClosed' = [doneClosed EXCEPT ![c[p]] = TRUE]
  /\ UNCHANGED <<flag, parent, ctx, ended, cancelled, done, registered, closes, c, d, ret>>

Close(p) ==
  /\ Goes(p, "close", ret[p])
  /\ closes' = [closes EXCEPT ![d[p]] = @ + 1]
  /\ UNCHANGED <<flag, parent, ctx, ended, cancelled, doneClosed, done, registered, c, d, ret>>

-----------------------------------------------------------------------------
(* useCtx. *)

UseLoad(u) == LET p == User(u) IN
  /\ ~ended
  /\ Goes(p, "start", IF ctx = None THEN "bind" ELSE "done")
  /\ c' = [c EXCEPT ![p] = IF ctx = None THEN u ELSE ctx]
  /\ UNCHANGED <<state, d, ret>>

\* bindTo: a parent that has ended cancels the context, any other is watched.
Bind(u) == LET p == User(u) IN
  /\ IF parent THEN Calls(p, "bind", "cancel", "publish") /\ UNCHANGED registered
     ELSE Goes(p, "bind", "publish") /\ registered' = registered \cup {u} /\ UNCHANGED ret
  /\ UNCHANGED <<flag, parent, ctx, ended, cancelled, doneClosed, done, closes, c, d>>

\* Mutant: a cancelled stream is not looked at once the context is there.
NoFlagCheck == "done"

\* The context is visible before the flag is read.
AfterPublish == "flag"

\* The compare-and-swap; the loser drops its registration and looks again.
Publish(u) == LET p == User(u) IN
  /\ Goes(p, "publish", IF ctx = None THEN AfterPublish ELSE "start")
  /\ ctx' = IF ctx = None THEN u ELSE ctx
  /\ registered' = IF ctx = None THEN registered ELSE registered \ {u}
  /\ UNCHANGED <<flag, parent, ended, cancelled, doneClosed, done, closes, c, d, ret>>

CheckFlag(u) ==
  /\ IF flag THEN Calls(User(u), "flag", "cancel", "done")
     ELSE Goes(User(u), "flag", "done") /\ UNCHANGED ret
  /\ UNCHANGED <<state, c, d>>

-----------------------------------------------------------------------------
(* Done. *)

DoneLoad(u) == LET p == User(u) IN
  /\ Goes(p, "done", IF done[c[p]] = None THEN "isCancelled" ELSE "end")
  /\ d' = [d EXCEPT ![p] = done[c[p]]]
  /\ ret' = [ret EXCEPT ![p] = "end"]
  /\ UNCHANGED <<state, c>>

\* Mutant: closedChan is handed out without being stored.
ReturnShared(x) == Shared

\* The channel Done returns is the one stored, whoever stored it.
Stored(x) == done'[x]

\* done.CompareAndSwap(nil, ch).
Store(x, ch) == done' = [done EXCEPT ![x] = IF @ = None THEN ch ELSE @]

\* state.Load()&ctxCancelled.
SeesCancelled(x) == cancelled[x]

DoneCancelled(u) == LET p == User(u) IN
  /\ Goes(p, "isCancelled", IF SeesCancelled(c[p]) THEN "shared" ELSE "own")
  /\ UNCHANGED <<state, c, d, ret>>

DoneShared(u) == LET p == User(u) IN
  /\ Goes(p, "shared", "end")
  /\ Store(c[p], Shared)
  /\ d' = [d EXCEPT ![p] = Stored(c[p])]
  /\ UNCHANGED <<flag, parent, ctx, ended, cancelled, doneClosed, registered, closes, c, ret>>

\* Mutant: a stored channel is not checked against a cancel that just passed.
NoRecheck == "end"

AfterStore == "recheck"

DoneOwn(u) == LET p == User(u) IN
  /\ Goes(p, "own", IF done[c[p]] = None THEN AfterStore ELSE "end")
  /\ Store(c[p], u)
  /\ d' = [d EXCEPT ![p] = done'[c[p]]]
  /\ UNCHANGED <<flag, parent, ctx, ended, cancelled, doneClosed, registered, closes, c, ret>>

DoneRecheck(u) == LET p == User(u) IN
  /\ Goes(p, "recheck", IF cancelled[c[p]] THEN "closeDone" ELSE "end")
  /\ UNCHANGED <<state, c, d, ret>>

-----------------------------------------------------------------------------
(* CancelFirst, endCtx and the parent. *)

CancelFirst ==
  /\ Goes(Canceller, "start", IF flag THEN "end" ELSE "loadCtx")
  /\ flag' = TRUE
  /\ UNCHANGED <<parent, ctx, ended, cancelled, doneClosed, done, registered, closes, c, d, ret>>

CancelLoadCtx ==
  /\ Goes(Canceller, "loadCtx", IF ctx = None THEN "end" ELSE "cancel")
  /\ c' = [c EXCEPT ![Canceller] = ctx]
  /\ UNCHANGED <<state, d, ret>>

\* No goroutine of the use is inside useCtx when the use ends, and the stream
\* is not being cancelled by name.
UseQuiet ==
  /\ \A u \in Users : /\ pc[User(u)] \notin {"bind", "publish", "flag"}
                      /\ ret[User(u)] = "end" \/ pc[User(u)] = "done"
  /\ pc[Canceller] # "loadCtx"

EndCtx ==
  /\ UseQuiet
  /\ IF ctx = None THEN Goes(Ender, "start", "end") /\ UNCHANGED ret
     ELSE Calls(Ender, "start", "cancel", "stop")
  /\ ctx' = None /\ ended' = TRUE
  /\ c' = [c EXCEPT ![Ender] = ctx]
  /\ UNCHANGED <<flag, parent, cancelled, doneClosed, done, registered, closes, d>>

\* c.stop().
StopAfter ==
  /\ Goes(Ender, "stop", "end")
  /\ registered' = registered \ {c[Ender]}
  /\ UNCHANGED <<flag, parent, ctx, ended, cancelled, doneClosed, done, closes, c, d, ret>>

ParentEnds ==
  /\ ~parent /\ parent' = TRUE
  /\ UNCHANGED <<flag, ctx, ended, cancelled, doneClosed, done, registered, closes, pc, c, d, ret>>

\* AfterFunc runs cancel on a goroutine of its own.
AfterFunc(u) ==
  /\ parent /\ u \in registered
  /\ Goes(After(u), "start", "cancel")
  /\ c' = [c EXCEPT ![After(u)] = u]
  /\ UNCHANGED <<state, d, ret>>

-----------------------------------------------------------------------------
Cancel(p) == CancelOr(p) \/ CancelLoadDone(p) \/ CloseOr(p) \/ Close(p)
UseCtx(u) == UseLoad(u) \/ Bind(u) \/ Publish(u) \/ CheckFlag(u)
Done(u) == DoneLoad(u) \/ DoneCancelled(u) \/ DoneShared(u) \/ DoneOwn(u) \/ DoneRecheck(u)

Next ==
  \/ \E p \in Procs : Cancel(p)
  \/ \E u \in Users : UseCtx(u) \/ Done(u) \/ AfterFunc(u)
  \/ CancelFirst \/ CancelLoadCtx \/ EndCtx \/ StopAfter \/ ParentEnds

Spec == Init /\ [][Next]_vars

-----------------------------------------------------------------------------
(* Properties. *)

Returned(u) == pc[User(u)] = "end"
IsClosed(ch) == ch = Shared \/ (ch \in Users /\ closes[ch] > 0)

\* All callers of Done on a context hold the one channel it will close; it is
\* closed once, and never before Err is set, so whoever sees it closed reads a
\* non-nil Err.
DoneAgrees ==
  \A u \in Users :
    /\ Returned(u) => d[User(u)] = done[c[User(u)]]
    /\ closes[u] <= 1
    /\ IsClosed(done[u]) => cancelled[u]

\* No goroutine is between two steps, and the parent's AfterFunc has run.
AtRest ==
  /\ \A p \in Procs : pc[p] \in {"start", "end"}
  /\ parent => \A u \in registered : pc[After(u)] = "end"

\* A cancelled stream, an ended use and an ended parent each close the channel
\* that any caller got before, meanwhile or after: once the goroutines under
\* way have finished, no caller holds a channel that stays open.
CancelReaches ==
  AtRest /\ (flag \/ ended \/ parent) => \A u \in Users : Returned(u) => IsClosed(d[User(u)])
=============================================================================
