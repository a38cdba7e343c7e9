---------------------------- MODULE H2SendWindow ----------------------------
(***************************************************************************)
(* HTTP/2 send-side flow control: flowcontrol.go and outbound.go of        *)
(* internal/protocol/h2/stream, and the senders in internal/conn/response. *)
(*                                                                         *)
(* Pool handlers ("writers") send response bodies; the loop applies the    *)
(* peer's WINDOW_UPDATE and SETTINGS frames and flushes what handlers have *)
(* left buffered.  All of them debit the same two windows with separate    *)
(* compare-and-swap loops, one step each here.  A writer that may not      *)
(* buffer waits; the wait has no lock, only a counter, a registration, a   *)
(* re-check and a one-token channel.  Timeouts and cancellation, which end *)
(* a wait early, are left out: nothing here may depend on them.            *)
(***************************************************************************)
EXTENDS Integers, FiniteSets, FiniteSetsExt

CONSTANTS
  Writers,      \* pool goroutines that send
  Loop,         \* the connection's event loop
  Streams, NoStream,
  StreamOf,     \* the stream a writer sends on
  Responders,   \* writers of a whole response, which may buffer its rest
  Body,         \* units a writer has to send
  InitWin, InitConn,
  ConnCredit,   \* bound: connection credit the peer grants in the end
  StreamCredit, \* bound: the same for each stream
  Deltas        \* bound: the SETTINGS_INITIAL_WINDOW_SIZE changes it may make

ASSUME WindowAssumption ==
  /\ Loop \notin Writers /\ NoStream \notin Streams /\ Responders \subseteq Writers
  /\ StreamOf \in [Writers -> Streams]
  /\ Body \in [Writers -> Nat] /\ {InitWin, InitConn, ConnCredit, StreamCredit} \subseteq Nat
  /\ Deltas \subseteq Int

VARIABLES
  win, connWin,       \* Stream.windowSize, Manager.connectionWindow
  buf,                \* OutboundBuffer of each stream
  mu,                 \* who holds Stream.mu
  nwaiters,           \* sendWindowWaiters
  registered,         \* sendWaiters
  ch,                 \* tokens in the waiters' channels
  pc, left, mode,     \* writers: where, units left, "first" | "rest" | "flush"
  sg, cg,             \* what ReserveSendWindow has of each window
  wake,               \* waiters a notifier has collected
  lop, lcur, todo,    \* the loop's frame, the stream it flushes, streams to do
  delta,              \* the SETTINGS change it applies
  deltas,             \* changes not made yet
  sent,               \* units sent on each stream
  credit, connCredit  \* credit granted so far

windowVars == <<win, connWin>>
waitVars   == <<nwaiters, registered, ch>>
loopVars   == <<lop, lcur, todo, delta, deltas>>
ghostVars  == <<sent, credit, connCredit>>
vars == <<windowVars, buf, mu, waitVars, pc, left, mode, sg, cg, wake, loopVars, ghostVars>>

Procs == Writers \cup {Loop}
NoOne == "none"
Cur(p) == IF p = Loop THEN lcur ELSE StreamOf[p]
Flushing(p) == p = Loop \/ mode[p] = "flush"
Goes(p, from, to) == pc[p] = from /\ pc' = [pc EXCEPT ![p] = to]
Least(a, b) == IF a < b THEN a ELSE b

Init ==
  /\ win = [s \in Streams |-> InitWin] /\ connWin = InitConn
  /\ buf = [s \in Streams |-> 0] /\ mu = [s \in Streams |-> NoOne]
  /\ nwaiters = 0 /\ registered = {} /\ ch = [w \in Writers |-> 0]
  /\ pc = [p \in Procs |-> IF p = Loop THEN "ready" ELSE "start"]
  /\ left = Body
  /\ mode = [w \in Writers |-> IF w \in Responders THEN "first" ELSE "rest"]
  /\ sg = [p \in Procs |-> 0] /\ cg = [p \in Procs |-> 0]
  /\ wake = [p \in Procs |-> {}]
  /\ lop = "none" /\ lcur = NoStream /\ todo = {} /\ delta = 0
  /\ deltas = Deltas
  /\ sent = [s \in Streams |-> 0]
  /\ credit = [s \in Streams |-> InitWin] /\ connCredit = InitConn

\* The loop forgets a frame it is done with.
Rests(ready) ==
  IF ready THEN lop' = "none" /\ lcur' = NoStream ELSE UNCHANGED <<lop, lcur>>

-----------------------------------------------------------------------------
(* ReserveSendWindow, for a writer's own bytes or for a flush. *)

\* How much there is to send.
Want(p) == IF Flushing(p) THEN buf[Cur(p)] ELSE left[p]

\* What the stream's window grants.
StreamGrant(p) == Least(Want(p), win[Cur(p)])

\* The stream's window first.
ReserveStream(p) ==
  LET s == Cur(p) IN
  /\ \/ Goes(p, "reserve", "send") /\ win[s] <= 0 /\ UNCHANGED <<win, sg>>
     \/ /\ Goes(p, "reserve", "conn") /\ win[s] > 0
        /\ win' = [win EXCEPT ![s] = @ - StreamGrant(p)]
        /\ sg' = [sg EXCEPT ![p] = StreamGrant(p)]
  /\ UNCHANGED <<connWin, buf, mu, waitVars, left, mode, cg, wake, loopVars, ghostVars>>

\* What the connection's window grants of it.
ConnGrant(p) == IF connWin <= 0 THEN 0 ELSE Least(sg[p], connWin)

ReserveConn(p) ==
  /\ cg' = [cg EXCEPT ![p] = ConnGrant(p)]
  /\ connWin' = connWin - ConnGrant(p)
  /\ Goes(p, "conn", IF ConnGrant(p) < sg[p] THEN "refund" ELSE "send")
  /\ UNCHANGED <<win, buf, mu, waitVars, left, mode, sg, wake, loopVars, ghostVars>>

\* Whether the refund reopens a window that read as closed.
RefundReopens(p) == win[Cur(p)] <= 0

\* The overage goes back; waiters of the stream are told if that reopened it.
Refund(p) ==
  /\ pc[p] = "refund"
  /\ win' = [win EXCEPT ![Cur(p)] = @ + (sg[p] - cg[p])]
  /\ Goes(p, "refund", IF RefundReopens(p) THEN "notify" ELSE "send")
  /\ UNCHANGED <<connWin, buf, mu, waitVars, left, mode, sg, cg, wake, loopVars, ghostVars>>

-----------------------------------------------------------------------------
(* notifyStreamWindow and notifyOpenStreamWindows. *)

\* The scan, skipped when nobody is counted.
Scan(p, chosen) ==
  wake' = [wake EXCEPT ![p] = IF nwaiters = 0 THEN {} ELSE {w \in registered : chosen[w]}]

\* The writers waiting for the stream of p.
NotifyStream(p) ==
  /\ Goes(p, "notify", "wake")
  /\ Scan(p, [w \in Writers |-> StreamOf[w] = Cur(p)])
  /\ UNCHANGED <<windowVars, buf, mu, waitVars, left, mode, sg, cg, loopVars, ghostVars>>

\* sendWaiter.wake: the channel holds one token.
Woken(w) == 1

\* The tokens, after the lock is released.
Wake(p) ==
  /\ pc[p] = "wake"
  /\ ch' = [w \in Writers |-> IF w \in wake[p] THEN Woken(w) ELSE ch[w]]
  /\ wake' = [wake EXCEPT ![p] = {}]
  /\ pc' = [pc EXCEPT ![p] = IF p # Loop \/ sg[p] > 0 THEN "send"
                             ELSE IF lop = "stream" THEN "flush" ELSE "ready"]
  /\ Rests(p = Loop /\ pc'[p] = "ready")
  /\ UNCHANGED <<windowVars, buf, mu, nwaiters, registered, left, mode, sg, cg, todo, delta, deltas, ghostVars>>

-----------------------------------------------------------------------------
(* Writers. *)

\* StreamWrite holds the stream's lock from the reservation to the send;
\* WriteResponse and sendRest reserve without it.
Begin(w) ==
  /\ Goes(w, "start", "reserve")
  /\ IF w \in Responders THEN UNCHANGED mu
     ELSE mu[StreamOf[w]] = NoOne /\ mu' = [mu EXCEPT ![StreamOf[w]] = w]
  /\ UNCHANGED <<windowVars, buf, waitVars, left, mode, sg, cg, wake, loopVars, ghostVars>>

Unlocked(p) == [s \in Streams |-> IF mu[s] = p THEN NoOne ELSE mu[s]]

\* Mutant: the whole stream grant is sent, whatever the connection granted.
GrantedByStream(p) == sg[p]

\* What was reserved is what is sent.
Granted(p) == cg[p]

\* The reserved units are sent, from the buffer in a flush.
Send(w) ==
  LET s == StreamOf[w]
      n == Granted(w) IN
  /\ pc[w] = "send"
  /\ sent' = [sent EXCEPT ![s] = @ + n]
  /\ mu' = Unlocked(w)
  /\ sg' = [sg EXCEPT ![w] = 0] /\ cg' = [cg EXCEPT ![w] = 0]
  /\ IF Flushing(w)
     THEN /\ buf' = [buf EXCEPT ![s] = @ - n]
          /\ pc' = [pc EXCEPT ![w] = "end"]
          /\ UNCHANGED left
     ELSE /\ left' = [left EXCEPT ![w] = @ - n]
          /\ pc' = [pc EXCEPT ![w] = IF left[w] = n THEN "end"
                                     ELSE IF mode[w] = "first" THEN "finish" ELSE "await"]
          /\ UNCHANGED buf
  /\ UNCHANGED <<windowVars, waitVars, mode, wake, loopVars, credit, connCredit>>

\* finishBody: the rest is buffered, or over the budget sent by waiting.
FinishBody(w) ==
  /\ \/ /\ Goes(w, "finish", "check")
        /\ buf' = [buf EXCEPT ![StreamOf[w]] = @ + left[w]]
        /\ left' = [left EXCEPT ![w] = 0]
        /\ mode' = [mode EXCEPT ![w] = "flush"]
     \/ /\ Goes(w, "finish", "await")
        /\ mode' = [mode EXCEPT ![w] = "rest"]
        /\ UNCHANGED <<buf, left>>
  /\ UNCHANGED <<windowVars, mu, waitVars, sg, cg, wake, loopVars, ghostVars>>

\* WindowsOpen reads the stream's window, then the connection's.
ReadsOpen(w, at, mid, yes, no) ==
  \/ Goes(w, at, IF win[StreamOf[w]] > 0 THEN mid ELSE no)
  \/ Goes(w, mid, IF connWin > 0 THEN yes ELSE no)

\* Mutant: a buffered rest is left to the loop without looking again.
NoRecheck(w) == Goes(w, "check", "end")

\* finishBody looks again once the rest is buffered.
RecheckOpen(w) == ReadsOpen(w, "check", "checkConn", "lock", "end")

Recheck(w) ==
  /\ RecheckOpen(w)
  /\ UNCHANGED <<windowVars, buf, mu, waitVars, left, mode, sg, cg, wake, loopVars, ghostVars>>

\* FlushOutbound by the handler.
HandlerFlush(w) ==
  /\ mu[StreamOf[w]] = NoOne
  /\ IF buf[StreamOf[w]] = 0 THEN Goes(w, "lock", "end") /\ UNCHANGED mu
     ELSE Goes(w, "lock", "reserve") /\ mu' = [mu EXCEPT ![StreamOf[w]] = w]
  /\ UNCHANGED <<windowVars, buf, waitVars, left, mode, sg, cg, wake, loopVars, ghostVars>>

-----------------------------------------------------------------------------
(* awaitSendWindow. *)

Open(s) == win[s] > 0 /\ connWin > 0

\* The check before the wait is counted: open windows need none.
AwaitFast(w) ==
  /\ Goes(w, "await", IF Open(StreamOf[w]) THEN "start" ELSE "count")
  /\ UNCHANGED <<windowVars, buf, mu, waitVars, left, mode, sg, cg, wake, loopVars, ghostVars>>

Count(w) ==
  /\ Goes(w, "count", "register")
  /\ nwaiters' = nwaiters + 1
  /\ UNCHANGED <<windowVars, buf, mu, registered, ch, left, mode, sg, cg, wake, loopVars, ghostVars>>

\* Mutant: a registered waiter sleeps without checking the windows.
RegisteredSleeps == "sleep"

\* registerSendWaiter comes before the check the wait rests on.
AfterRegister == "look"

Register(w) ==
  /\ Goes(w, "register", AfterRegister)
  /\ registered' = registered \cup {w}
  /\ UNCHANGED <<windowVars, buf, mu, nwaiters, ch, left, mode, sg, cg, wake, loopVars, ghostVars>>

Look(w) ==
  /\ ReadsOpen(w, "look", "lookConn", "leave", "sleep")
  /\ UNCHANGED <<windowVars, buf, mu, waitVars, left, mode, sg, cg, wake, loopVars, ghostVars>>

\* The select: a token, which may be stale, and the windows are checked again.
Awake(w) ==
  /\ ch[w] = 1 /\ ch' = [ch EXCEPT ![w] = 0]
  /\ Goes(w, "sleep", "look")
  /\ UNCHANGED <<windowVars, buf, mu, nwaiters, registered, left, mode, sg, cg, wake, loopVars, ghostVars>>

\* unregisterSendWaiter drops a token nobody took; the count goes down after.
Leave(w) ==
  /\ Goes(w, "leave", "start")
  /\ registered' = registered \ {w}
  /\ ch' = [ch EXCEPT ![w] = 0]
  /\ nwaiters' = nwaiters - 1
  /\ UNCHANGED <<windowVars, buf, mu, left, mode, sg, cg, wake, loopVars, ghostVars>>
-----------------------------------------------------------------------------
(* The loop: handleWindowUpdate and handleSettings. *)

\* A stream's WINDOW_UPDATE: raise, notify, flush.
StreamUpdate(s) ==
  /\ Goes(Loop, "ready", "notify")
  /\ \E n \in 1..StreamCredit :
       /\ credit[s] + n <= StreamCredit
       /\ win' = [win EXCEPT ![s] = @ + n]
       /\ credit' = [credit EXCEPT ![s] = @ + n]
  /\ lop' = "stream" /\ lcur' = s /\ todo' = {s}
  /\ UNCHANGED <<connWin, buf, mu, waitVars, left, mode, sg, cg, wake, delta, deltas, sent, connCredit>>

\* The connection's WINDOW_UPDATE: raise, flush every stream, notify.
ConnUpdate ==
  /\ Goes(Loop, "ready", "flush")
  /\ \E n \in 1..ConnCredit :
       /\ connCredit + n <= ConnCredit
       /\ connWin' = connWin + n
       /\ connCredit' = connCredit + n
  /\ lop' = "conn" /\ todo' = Streams
  /\ UNCHANGED <<win, buf, mu, waitVars, left, mode, sg, cg, wake, lcur, delta, deltas, sent, credit>>

\* SETTINGS_INITIAL_WINDOW_SIZE: every stream's window changes by the same
\* amount, possibly below zero, and is flushed if that left it open.
Settings ==
  /\ Goes(Loop, "ready", "set")
  /\ \E d \in deltas : delta' = d /\ deltas' = deltas \ {d}
  /\ lop' = "settings" /\ todo' = Streams
  /\ UNCHANGED <<windowVars, buf, mu, waitVars, left, mode, sg, cg, wake, lcur, ghostVars>>

SettingsAdd ==
  \/ /\ todo # {}
     /\ \E s \in todo :
          /\ win' = [win EXCEPT ![s] = @ + delta]
          /\ credit' = [credit EXCEPT ![s] = @ + delta]
          /\ lcur' = s /\ todo' = todo \ {s}
          /\ Goes(Loop, "set", IF win[s] + delta > 0 THEN "lock" ELSE "set")
     /\ UNCHANGED <<connWin, buf, mu, waitVars, left, mode, sg, cg, wake, lop, delta, deltas, sent, connCredit>>
  \/ /\ todo = {} /\ Goes(Loop, "set", "scan")
     /\ delta' = 0
     /\ UNCHANGED <<windowVars, buf, mu, waitVars, left, mode, sg, cg, wake, lop, lcur, todo, deltas, ghostVars>>

\* Mutant: a connection frame is over once its flushes are.
FlushedReady == "ready"

\* Where the loop goes once every stream is flushed: the waiters come last.
Flushed == IF lop = "stream" THEN "ready" ELSE "scan"

\* The next stream to flush; a connection frame stops when its credit is gone.
FlushNext ==
  \/ /\ todo = {} \/ (lop = "conn" /\ connWin <= 0)
     /\ Goes(Loop, "flush", Flushed)
     /\ Rests(Flushed = "ready")
     /\ todo' = {}
     /\ UNCHANGED <<windowVars, buf, mu, waitVars, left, mode, sg, cg, wake, delta, deltas, ghostVars>>
  \/ /\ lop = "conn" => connWin > 0
     /\ \E s \in todo : lcur' = s /\ todo' = todo \ {s}
     /\ Goes(Loop, "flush", "lock")
     /\ UNCHANGED <<windowVars, buf, mu, waitVars, left, mode, sg, cg, wake, lop, delta, deltas, ghostVars>>

LoopResume == IF lop = "settings" THEN "set" ELSE "flush"

\* FlushOutbound on the loop.
LoopFlush ==
  /\ pc[Loop] = "lock" /\ mu[lcur] = NoOne
  /\ IF buf[lcur] = 0 THEN Goes(Loop, "lock", LoopResume) /\ UNCHANGED mu
     ELSE Goes(Loop, "lock", "reserve") /\ mu' = [mu EXCEPT ![lcur] = Loop]
  /\ UNCHANGED <<windowVars, buf, waitVars, left, mode, sg, cg, wake, loopVars, ghostVars>>

LoopSend ==
  /\ Goes(Loop, "send", LoopResume)
  /\ sent' = [sent EXCEPT ![lcur] = @ + Granted(Loop)]
  /\ buf' = [buf EXCEPT ![lcur] = @ - Granted(Loop)]
  /\ mu' = Unlocked(Loop)
  /\ sg' = [sg EXCEPT ![Loop] = 0] /\ cg' = [cg EXCEPT ![Loop] = 0]
  /\ UNCHANGED <<windowVars, waitVars, left, mode, wake, loopVars, credit, connCredit>>

\* notifyOpenStreamWindows wakes the waiters whose own stream is open.
NotifyOpen ==
  /\ Goes(Loop, "scan", "wake")
  /\ Scan(Loop, [w \in Writers |-> win[StreamOf[w]] > 0])
  /\ UNCHANGED <<windowVars, buf, mu, waitVars, left, mode, sg, cg, loopVars, ghostVars>>

-----------------------------------------------------------------------------
Reserve(p) == ReserveStream(p) \/ ReserveConn(p) \/ Refund(p) \/ NotifyStream(p) \/ Wake(p)

Writer(w) ==
  \/ Reserve(w) \/ Begin(w) \/ Send(w) \/ FinishBody(w) \/ Recheck(w) \/ HandlerFlush(w)
  \/ AwaitFast(w) \/ Count(w) \/ Register(w) \/ Look(w) \/ Awake(w) \/ Leave(w)

\* What the loop does once a frame has arrived.
LoopStep ==
  Reserve(Loop) \/ SettingsAdd \/ FlushNext \/ LoopFlush \/ LoopSend \/ NotifyOpen

Frame == ConnUpdate \/ Settings \/ \E s \in Streams : StreamUpdate(s)

Next == LoopStep \/ Frame \/ \E w \in Writers : Writer(w)

Spec == Init /\ [][Next]_vars

\* Goroutines that can run do; the loop ends the frame it handles.
FairSpec == Spec /\ WF_vars(LoopStep) /\ \A w \in Writers : WF_vars(Writer(w))

\* The peer in the end grants all the credit of the bounds.
PeerFairSpec == FairSpec /\ WF_vars(ConnUpdate) /\ \A s \in Streams : WF_vars(StreamUpdate(s))

-----------------------------------------------------------------------------
(* Properties. *)

\* Every variable has its type.
TypeOK ==
  /\ win \in [Streams -> Int] /\ connWin \in Int
  /\ buf \in [Streams -> Nat] /\ mu \in [Streams -> Procs \cup {NoOne}]
  /\ nwaiters \in Nat /\ registered \in SUBSET Writers /\ ch \in [Writers -> {0, 1}]
  /\ left \in [Writers -> Nat]
  /\ sg \in [Procs -> Nat] /\ cg \in [Procs -> Nat]
  /\ wake \in [Procs -> SUBSET Writers]
  /\ todo \in SUBSET Streams /\ lcur \in Streams \cup {NoStream}
  /\ sent \in [Streams -> Nat] /\ credit \in [Streams -> Int] /\ connCredit \in Nat

\* No credit is lost, made up or spent twice: what is not in a window is sent or
\* in the hands of a reservation that will send it or give it back, and the
\* connection's window never goes below zero, so all senders together never
\* exceed what the peer has granted (ReserveSendWindow).
CreditConserved ==
  /\ connWin >= 0
  /\ connWin + MapThenSumSet(LAMBDA s : sent[s], Streams)
       + MapThenSumSet(LAMBDA p : cg[p], Procs) = connCredit
  /\ \A s \in Streams :
       win[s] + sent[s]
         + MapThenSumSet(LAMBDA p : IF pc[p] \in {"notify", "wake", "send"} THEN cg[p] ELSE sg[p],
                         {p \in Procs : Cur(p) = s}) = credit[s]

\* The loop's frame has its scan of the waiters still to come.
ScanToCome == lop \in {"conn", "settings"} /\ ~(pc[Loop] = "wake" /\ sg[Loop] = 0)

\* No lost wakeup: a writer asleep while both its windows are open has a token,
\* or somebody on the way to give it one (the argument at awaitSendWindow).
NoLostWakeup ==
  \A w \in Writers :
    pc[w] = "sleep" /\ Open(StreamOf[w]) =>
      \/ ch[w] = 1
      \/ \E p \in Procs : w \in wake[p] \/ (pc[p] = "notify" /\ Cur(p) = StreamOf[w])
      \/ ScanToCome

\* No stranded response: while both windows are open, bytes a handler has left
\* buffered have a flush ahead of them, that of the frame the loop is handling
\* or the one the handler's second look leads to.
NoStrandedBuffer ==
  \A s \in Streams :
    buf[s] > 0 /\ Open(s) =>
      \/ pc[Loop] # "ready" /\ (s \in todo \/ lcur = s)
      \/ \E w \in Writers : StreamOf[w] = s /\ pc[w] \notin {"sleep", "end"}

\* With enough credit every response is sent in full.
AllDelivered == <>[](\A w \in Writers : left[w] = 0 /\ buf[StreamOf[w]] = 0)
=============================================================================
