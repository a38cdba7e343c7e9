------------------------------ MODULE DriverLoop ------------------------------
(***************************************************************************)
(* One worker of the event loop the database drivers share on Linux        *)
(* (driver/internal/eventloop/loop_linux.go).  A descriptor number is      *)
(* registered, torn down, closed by its owner, and given by the kernel to  *)
(* the next connection, which registers it again.  The worker reads on     *)
(* edge-triggered epoll events, at most readBudget reads a turn; a         *)
(* WriteAndPoll call reads on its caller's goroutine, with recvMu held and *)
(* EPOLLIN masked.  Writes are flushed by the writer, and by the worker    *)
(* once the socket was full.  A step is a critical section; a system call  *)
(* made under a lock after a check is a step apart from the check.         *)
(***************************************************************************)
EXTENDS Naturals, Sequences, SequencesExt

CONSTANTS
  Regs,        \* registrations 1 .. Regs of the one descriptor number
  readBudget,  \* reads of one turn of the worker
  MaxBytes,    \* bound: [reg -> chunks the peer sends on it]
  MaxCalls     \* bound: [reg -> Write and WriteAndPoll calls on it]

VARIABLES
  file,    \* the registration whose socket the number names, 0 for none
  conn,    \* worker.conns[fd], 0 for none
  dialed,  \* registrations made
  closed,  \* [reg -> driverConn.closed]
  fires,   \* [reg -> times onClose was called]
  closing, \* [reg -> the teardowns between markClosed and their end]
  down,    \* worker.closed
  inq,     \* [reg -> chunks in the socket's receive queue]
  came,    \* [reg -> chunks the peer has sent]
  hup,     \* [reg -> the peer has closed]
  inSet,   \* [reg -> in the epoll set]
  maskIn,  \* [reg -> EPOLLIN is masked]
  outOn,   \* [reg -> driverConn.epollOut]
  ready,   \* [reg -> on the kernel's ready list]
  wbuf,    \* [reg -> bytes wait in writeBuf]
  space,   \* [reg -> the socket takes bytes]
  pending, \* worker.pending
  plist,   \* the list drainPending took
  recvMu, mu, rmu,  \* [reg -> who holds the lock]
  wpc,     \* where the worker is
  ev,      \* the event it dispatches
  readQ,   \* worker.readQ
  owed,    \* how many of readQ are from earlier rounds
  fresh,   \* [reg -> readFresh]
  qhup,    \* [reg -> readEvents has a hang-up]
  turn,    \* the read turn being served
  cpc,     \* [reg -> where the caller that uses it is]
  calls    \* [reg -> calls made]

kernelVars == <<inq, came, hup, inSet, maskIn, outOn, ready>>
writeVars  == <<wbuf, space, pending, plist>>
closeVars  == <<file, conn, dialed, closed, fires, closing, down>>
lockVars   == <<recvMu, mu, rmu>>
queueVars  == <<readQ, owed, fresh, qhup>>
workVars   == <<wpc, ev, queueVars, turn>>
callVars   == <<cpc, calls>>
vars == <<kernelVars, writeVars, closeVars, lockVars, workVars, callVars>>

R == 1 .. Regs
NoEvent == [k |-> 0, read |-> FALSE, hup |-> FALSE, out |-> FALSE]
NoTurn == [k |-> 0, reads |-> 0, hup |-> FALSE, then |-> "wait"]

Init ==
  /\ file = 0 /\ conn = 0 /\ dialed = 0 /\ down = FALSE
  /\ closed = [k \in R |-> FALSE] /\ fires = [k \in R |-> 0] /\ closing = [k \in R |-> {}]
  /\ inq = [k \in R |-> 0] /\ came = [k \in R |-> 0] /\ hup = [k \in R |-> FALSE]
  /\ inSet = [k \in R |-> FALSE] /\ maskIn = [k \in R |-> FALSE]
  /\ outOn = [k \in R |-> FALSE] /\ ready = [k \in R |-> FALSE]
  /\ wbuf = [k \in R |-> FALSE] /\ space = [k \in R |-> TRUE] /\ pending = {} /\ plist = {}
  /\ recvMu = [k \in R |-> "free"] /\ mu = [k \in R |-> "free"] /\ rmu = [k \in R |-> "free"]
  /\ wpc = "wait" /\ ev = NoEvent /\ readQ = <<>> /\ owed = 0 /\ turn = NoTurn
  /\ fresh = [k \in R |-> FALSE] /\ qhup = [k \in R |-> FALSE]
  /\ cpc = [k \in R |-> "idle"] /\ calls = [k \in R |-> 0]

-----------------------------------------------------------------------------
(* The kernel and the peer.                                                *)

Arrives(k) ==
  /\ file = k /\ ~hup[k] /\ came[k] < MaxBytes[k]
  /\ inq' = [inq EXCEPT ![k] = @ + 1] /\ came' = [came EXCEPT ![k] = @ + 1]
  /\ ready' = [ready EXCEPT ![k] = @ \/ (inSet[k] /\ ~maskIn[k])]
  /\ UNCHANGED <<hup, inSet, maskIn, outOn, writeVars, closeVars, lockVars, workVars, callVars>>

PeerCloses(k) ==
  /\ file = k /\ ~hup[k]
  /\ hup' = [hup EXCEPT ![k] = TRUE]
  /\ ready' = [ready EXCEPT ![k] = @ \/ inSet[k]]
  /\ UNCHANGED <<inq, came, inSet, maskIn, outOn, writeVars, closeVars, lockVars, workVars, callVars>>

SocketDrains(k) ==
  /\ file = k /\ ~space[k]
  /\ space' = [space EXCEPT ![k] = TRUE]
  /\ ready' = [ready EXCEPT ![k] = @ \/ (inSet[k] /\ outOn[k])]
  /\ UNCHANGED <<inq, came, hup, inSet, maskIn, outOn, wbuf, pending, plist,
                 closeVars, lockVars, workVars, callVars>>

\* EPOLL_CTL_MOD: what is ready under the new events is reported again.  room
\* says that the socket takes bytes.
Mod(k, mask, out, room) ==
  /\ maskIn' = [maskIn EXCEPT ![k] = mask]
  /\ outOn' = [outOn EXCEPT ![k] = out]
  /\ ready' = [ready EXCEPT ![k] = @ \/ (inSet[k] /\ ((~mask /\ inq[k] > 0) \/ hup[k] \/ (out /\ room)))]

-----------------------------------------------------------------------------
(* Registration and teardown.                                              *)

\* RegisterConn up to w.mu.Unlock: the number's slot is free and the loop open.
RegisterConn(k) ==
  /\ k = dialed + 1 /\ file = 0 /\ conn = 0 /\ ~down
  /\ dialed' = k /\ file' = k /\ conn' = k
  /\ cpc' = [cpc EXCEPT ![k] = "register"]
  /\ UNCHANGED <<kernelVars, writeVars, closed, fires, closing, down, lockVars, workVars, calls>>

\* The rest of it: closed is checked under mu, and the ADD made with mu held.
AddCheck(k) ==
  /\ cpc[k] = "register" /\ mu[k] = "free"
  /\ mu' = [mu EXCEPT ![k] = IF closed[k] THEN @ ELSE "add"]
  /\ cpc' = [cpc EXCEPT ![k] = IF closed[k] THEN "idle" ELSE "add"]
  /\ UNCHANGED <<kernelVars, writeVars, closeVars, recvMu, rmu, workVars, calls>>

Add(k) ==
  /\ cpc[k] = "add"
  /\ inSet' = [inSet EXCEPT ![k] = TRUE]
  /\ ready' = [ready EXCEPT ![k] = inq[k] > 0 \/ hup[k]]
  /\ mu' = [mu EXCEPT ![k] = "free"]
  /\ cpc' = [cpc EXCEPT ![k] = "idle"]
  /\ UNCHANGED <<inq, came, hup, maskIn, outOn, writeVars, closeVars, recvMu, rmu, workVars, calls>>

\* The ADD fails: closed is set inline, so that no teardown calls onClose, and
\* then the slot is emptied if it is still the conn's.
AddFails(k) ==
  /\ cpc[k] = "add" /\ rmu[k] = "free"
  /\ closed' = [closed EXCEPT ![k] = TRUE]
  /\ mu' = [mu EXCEPT ![k] = "free"]
  /\ cpc' = [cpc EXCEPT ![k] = "refuse"]
  /\ UNCHANGED <<kernelVars, writeVars, file, conn, dialed, fires, closing, down, recvMu, rmu, workVars, calls>>

Refused(k) ==
  /\ cpc[k] = "refuse" /\ cpc' = [cpc EXCEPT ![k] = "refused"]
  /\ conn' = IF conn = k THEN 0 ELSE conn
  /\ UNCHANGED <<kernelVars, writeVars, file, dialed, closed, fires, closing, down, lockVars, workVars, calls>>

\* Mutant: markClosed does not wait for a read in flight.
WithoutRmu(k) == mu[k] = "free"

\* markClosed holds both locks, so it waits for a system call in flight.
Quiet(k) == mu[k] = "free" /\ rmu[k] = "free"

\* Mutant: every teardown calls onClose.
AlwaysFires(k) == TRUE

\* Only the teardown that sets closed calls onClose.
Fires(k) == ~closed[k]

markClosed(k, who, gone) ==
  /\ Quiet(k) /\ \A e \in closing[k] : e.who # who
  /\ closing' = [closing EXCEPT ![k] = @ \cup {[who |-> who, fires |-> Fires(k), gone |-> gone]}]
  /\ closed' = [closed EXCEPT ![k] = TRUE]

\* UnregisterConn finds the conn, or returns with nothing to do: see CloseFD.
UnregisterConn(k) ==
  /\ file = k /\ conn = k /\ markClosed(k, "owner", FALSE)
  /\ UNCHANGED <<kernelVars, writeVars, file, conn, dialed, fires, down, lockVars, workVars, callVars>>

\* Mutant: forget empties the slot whoever holds it.
Whoever(k) == TRUE

\* forget acts only on a slot that still holds the conn.
Holds(k) == conn = k

\* The DEL names the number: it takes whatever socket the number names now
\* out of the set.
forget(k, e) ==
  /\ e \in closing[k] /\ ~e.gone
  /\ closing' = [closing EXCEPT ![k] = (@ \ {e}) \cup {[e EXCEPT !.gone = TRUE]}]
  /\ conn' = IF Holds(k) THEN 0 ELSE conn
  /\ inSet' = [j \in R |-> inSet[j] /\ ~(Holds(k) /\ j = file)]
  /\ ready' = [j \in R |-> ready[j] /\ ~(Holds(k) /\ j = file)]
  /\ UNCHANGED <<inq, came, hup, maskIn, outOn, writeVars, file, dialed, closed, fires, down,
                 lockVars, workVars, callVars>>

onClose(k, e) ==
  /\ e \in closing[k] /\ e.gone
  /\ closing' = [closing EXCEPT ![k] = @ \ {e}]
  /\ fires' = [fires EXCEPT ![k] = @ + IF e.fires THEN 1 ELSE 0]
  /\ UNCHANGED <<kernelVars, writeVars, file, conn, dialed, closed, down, lockVars, workVars, callVars>>

\* The owner closes the descriptor when its UnregisterConn has returned, which
\* is at once when the slot is empty.  The socket is gone, and nothing reads
\* the write state of a closed conn again.
CloseFD(k) ==
  /\ file = k /\ conn # k /\ \A e \in closing[k] : e.who # "owner"
  /\ file' = 0
  /\ inSet' = [inSet EXCEPT ![k] = FALSE] /\ ready' = [ready EXCEPT ![k] = FALSE]
  /\ inq' = [inq EXCEPT ![k] = 0] /\ came' = [came EXCEPT ![k] = 0]
  /\ maskIn' = [maskIn EXCEPT ![k] = FALSE] /\ outOn' = [outOn EXCEPT ![k] = FALSE]
  /\ wbuf' = [wbuf EXCEPT ![k] = FALSE] /\ space' = [space EXCEPT ![k] = TRUE]
  /\ calls' = [calls EXCEPT ![k] = 0]
  /\ UNCHANGED <<hup, pending, plist, conn, dialed, closed, fires, closing, down, lockVars, workVars, cpc>>

\* shutdown, once the worker has left its loop.  The epoll set is closed.
shutdown ==
  /\ wpc = "exit" /\ ~down
  /\ down' = TRUE
  /\ IF conn = 0 THEN UNCHANGED <<closing, closed>> ELSE markClosed(conn, "loop", TRUE)
  /\ conn' = 0
  /\ inSet' = [k \in R |-> FALSE] /\ ready' = [k \in R |-> FALSE]
  /\ UNCHANGED <<inq, came, hup, maskIn, outOn, writeVars, file, dialed, fires, lockVars, workVars, callVars>>

-----------------------------------------------------------------------------
(* Writing.  mu is held and closed was checked.                            *)

\* Mutant: EPOLLOUT is not armed when the socket fills.
FlushUnarmed(k) ==
  /\ \/ (space[k] \/ ~wbuf[k]) /\ wbuf' = [wbuf EXCEPT ![k] = FALSE] /\ UNCHANGED space
     \/ wbuf[k] /\ space' = [space EXCEPT ![k] = FALSE] /\ UNCHANGED wbuf
  /\ UNCHANGED <<maskIn, outOn, ready>>

\* Everything goes out, and EPOLLOUT is disarmed; or the socket fills, and it
\* is armed.  Both re-arm EPOLLIN, masked or not.
flushLocked(k) ==
  \/ /\ space[k] \/ ~wbuf[k]
     /\ wbuf' = [wbuf EXCEPT ![k] = FALSE] /\ UNCHANGED space
     /\ IF outOn[k] THEN Mod(k, FALSE, FALSE, TRUE) ELSE UNCHANGED <<maskIn, outOn, ready>>
  \/ /\ wbuf[k]
     /\ space' = [space EXCEPT ![k] = FALSE] /\ UNCHANGED wbuf
     /\ IF outOn[k] THEN UNCHANGED <<maskIn, outOn, ready>> ELSE Mod(k, FALSE, TRUE, FALSE)

\* The write fails: the buffer is dropped and the caller closes the conn.
flushFails(k) ==
  /\ hup[k] /\ wbuf[k]
  /\ wbuf' = [wbuf EXCEPT ![k] = FALSE] /\ UNCHANGED <<space, maskIn, outOn, ready>>

-----------------------------------------------------------------------------
(* The worker: run.                                                        *)

RunEnds ==
  /\ wpc = "wait" /\ wpc' = "exit"
  /\ UNCHANGED <<kernelVars, writeVars, closeVars, lockVars, ev, queueVars, turn, callVars>>

\* EpollWait takes a ready descriptor off the list; it reports it only if it
\* is ready under the events it has now.
EpollWait ==
  /\ wpc = "wait"
  /\ \/ \E k \in R :
          /\ ready[k]
          /\ ready' = [ready EXCEPT ![k] = FALSE]
          /\ ev' = [k |-> k, read |-> (~maskIn[k] /\ inq[k] > 0) \/ hup[k], hup |-> hup[k],
                    out |-> outOn[k] /\ space[k]]
     \/ /\ readQ # <<>> \/ pending # {}
        /\ \A k \in R : ~ready[k]
        /\ ev' = NoEvent /\ UNCHANGED ready
  /\ owed' = Len(readQ)
  /\ wpc' = "event"
  /\ UNCHANGED <<inq, came, hup, inSet, maskIn, outOn, writeVars, closeVars, lockVars,
                 readQ, fresh, qhup, turn, callVars>>

\* Mutant: the generation of an event is not looked at.
AnyGeneration(k) == IF k = 0 THEN 0 ELSE conn

\* The conn an event is for: its generation must be the one registered.
connFor(k) == IF conn = k THEN k ELSE 0

\* A turn on k: with recvMu if it is free, else the turn is queued again as a
\* busy one when requeue says so.  q is readQ without k's entry.
TakeTurn(k, h, requeue, q, then) ==
  LET locked == recvMu[k] = "free" IN
  /\ recvMu' = [recvMu EXCEPT ![k] = IF locked THEN "worker" ELSE @]
  /\ turn' = IF locked THEN [k |-> k, reads |-> 0, hup |-> h, then |-> then] ELSE turn
  /\ wpc' = IF locked THEN "turn" ELSE then
  /\ readQ' = IF ~locked /\ requeue THEN Append(q, k) ELSE q
  /\ fresh' = [fresh EXCEPT ![k] = ~locked /\ requeue]
  /\ qhup' = [qhup EXCEPT ![k] = ~locked /\ requeue /\ h]

\* dispatch and handleReadable: a conn that is owed a turn takes the event's
\* with it.
dispatch ==
  LET c == connFor(ev.k) IN
  /\ wpc = "event"
  /\ ev' = IF c = 0 THEN NoEvent ELSE [ev EXCEPT !.k = c]
  /\ \/ /\ c = 0 \/ ~ev.read
        /\ wpc' = "out" /\ UNCHANGED <<readQ, fresh, qhup, recvMu, turn>>
     \/ /\ c # 0 /\ ev.read /\ Contains(readQ, c)
        /\ fresh' = [fresh EXCEPT ![c] = TRUE] /\ qhup' = [qhup EXCEPT ![c] = @ \/ ev.hup]
        /\ wpc' = "out" /\ UNCHANGED <<readQ, recvMu, turn>>
     \/ /\ c # 0 /\ ev.read /\ ~Contains(readQ, c)
        /\ TakeTurn(c, ev.hup, TRUE, readQ, "out")
  /\ UNCHANGED <<kernelVars, writeVars, closeVars, mu, rmu, owed, callVars>>

\* drainOne on k; a failed write leads to errorClose.
drainOne(k, then) ==
  /\ mu[k] = "free"
  /\ \/ closed[k] /\ UNCHANGED <<wbuf, space, maskIn, outOn, ready, turn>> /\ wpc' = then
     \/ ~closed[k] /\ flushLocked(k) /\ UNCHANGED turn /\ wpc' = then
     \/ ~closed[k] /\ flushFails(k) /\ turn' = [NoTurn EXCEPT !.k = k, !.then = then] /\ wpc' = "mark"

DrainEvent ==
  /\ wpc = "out" /\ ev' = NoEvent
  /\ IF ev.out THEN drainOne(ev.k, "pend")
     ELSE wpc' = "pend" /\ UNCHANGED <<wbuf, space, maskIn, outOn, ready, turn>>
  /\ UNCHANGED <<inq, came, hup, inSet, pending, plist, closeVars, lockVars, queueVars, callVars>>

drainPending ==
  /\ wpc = "pend" /\ wpc' = "drain"
  /\ plist' = pending /\ pending' = {}
  /\ UNCHANGED <<kernelVars, wbuf, space, closeVars, lockVars, ev, queueVars, turn, callVars>>

DrainNext ==
  /\ wpc = "drain"
  /\ \/ \E k \in plist : plist' = plist \ {k} /\ drainOne(k, "drain")
     \/ plist = {} /\ wpc' = "serve" /\ UNCHANGED <<plist, wbuf, space, maskIn, outOn, ready, turn>>
  /\ UNCHANGED <<inq, came, hup, inSet, pending, closeVars, lockVars, ev, queueVars, callVars>>

\* Mutant: a queued turn that finds recvMu held is always dropped.
NeverAgain(k) == FALSE

\* A turn left over from the budget is dropped when a caller holds recvMu (it
\* reads, and re-arms); one an event was folded into is not.
TurnOwed(k) == fresh[k]

serveReadQ ==
  /\ wpc = "serve"
  /\ IF owed = 0
     THEN wpc' = "wait" /\ UNCHANGED <<queueVars, recvMu, turn>>
     ELSE LET k == Head(readQ) IN
          TakeTurn(k, qhup[k], TurnOwed(k), Tail(readQ), "serve") /\ owed' = owed - 1
  /\ UNCHANGED <<kernelVars, writeVars, closeVars, mu, rmu, ev, callVars>>

-----------------------------------------------------------------------------
(* readTurnLocked, and the worker's errorClose.                            *)

TurnEnds ==
  /\ recvMu' = [recvMu EXCEPT ![turn.k] = IF @ = "worker" THEN "free" ELSE @]
  /\ wpc' = turn.then /\ turn' = NoTurn

\* The budget is spent and the rest queued, or readOpen finds closed, or a
\* read starts.
readTurnLocked ==
  LET k == turn.k IN
  /\ wpc = "turn"
  /\ \/ /\ turn.reads = readBudget
        /\ readQ' = Append(readQ, k)
        /\ fresh' = [fresh EXCEPT ![k] = FALSE] /\ qhup' = [qhup EXCEPT ![k] = turn.hup]
        /\ TurnEnds /\ UNCHANGED rmu
     \/ /\ turn.reads < readBudget /\ rmu[k] = "free" /\ closed[k]
        /\ TurnEnds /\ UNCHANGED <<rmu, readQ, fresh, qhup>>
     \/ /\ turn.reads < readBudget /\ rmu[k] = "free" /\ ~closed[k]
        /\ rmu' = [rmu EXCEPT ![k] = "worker"] /\ wpc' = "read"
        /\ UNCHANGED <<recvMu, turn, readQ, fresh, qhup>>
  /\ UNCHANGED <<kernelVars, writeVars, closeVars, mu, ev, owed, callVars>>

\* The read returns a chunk, the end of the stream, or EAGAIN; the last two
\* end the turn, in a teardown for the end or when the event was a hang-up.
TurnReads ==
  LET k == turn.k IN
  /\ wpc = "read"
  /\ rmu' = [rmu EXCEPT ![k] = "free"]
  /\ \/ /\ inq[k] > 0
        /\ inq' = [inq EXCEPT ![k] = @ - 1] /\ turn' = [turn EXCEPT !.reads = @ + 1]
        /\ wpc' = "turn" /\ UNCHANGED recvMu
     \/ /\ inq[k] = 0 /\ (hup[k] \/ turn.hup)
        /\ wpc' = "mark" /\ UNCHANGED <<inq, turn, recvMu>>
     \/ /\ inq[k] = 0 /\ ~hup[k] /\ ~turn.hup
        /\ TurnEnds /\ UNCHANGED inq
  /\ UNCHANGED <<came, hup, inSet, maskIn, outOn, ready, writeVars, closeVars, mu, ev, queueVars, callVars>>

errorClose ==
  /\ wpc = "mark" /\ wpc' = "closing" /\ markClosed(turn.k, "worker", FALSE)
  /\ UNCHANGED <<kernelVars, writeVars, file, conn, dialed, fires, down, lockVars, ev, queueVars, turn, callVars>>

ErrorClosed ==
  /\ wpc = "closing" /\ \A e \in closing[turn.k] : e.who # "worker"
  /\ TurnEnds
  /\ UNCHANGED <<kernelVars, writeVars, closeVars, mu, rmu, ev, queueVars, callVars>>

-----------------------------------------------------------------------------
(* The caller: Write, WriteAndPoll, WriteAndPollBusy, WriteAndPollMulti.   *)

\* The conn is found and open: the data joins writeBuf, under mu.
Call(k) ==
  /\ cpc[k] = "idle" /\ calls[k] < MaxCalls[k]
  /\ conn = k /\ ~down /\ mu[k] = "free" /\ ~closed[k]
  /\ calls' = [calls EXCEPT ![k] = @ + 1]
  /\ mu' = [mu EXCEPT ![k] = "caller"] /\ wbuf' = [wbuf EXCEPT ![k] = TRUE]
  /\ cpc' = [cpc EXCEPT ![k] = "write"]
  /\ UNCHANGED <<kernelVars, space, pending, plist, closeVars, recvMu, rmu, workVars>>

Flush(k) ==
  /\ cpc[k] = "write"
  /\ mu' = [mu EXCEPT ![k] = "free"]
  /\ \/ flushLocked(k) /\ cpc' = [cpc EXCEPT ![k] = IF wbuf'[k] THEN "enqueue" ELSE "written"]
     \/ flushFails(k) /\ cpc' = [cpc EXCEPT ![k] = "fail"]
  /\ UNCHANGED <<inq, came, hup, inSet, pending, plist, closeVars, recvMu, rmu, workVars, calls>>

enqueueFlush(k) ==
  /\ cpc[k] = "enqueue" /\ cpc' = [cpc EXCEPT ![k] = "written"]
  /\ pending' = pending \cup {k}
  /\ UNCHANGED <<kernelVars, wbuf, space, plist, closeVars, lockVars, workVars, calls>>

\* Write returns; the polling calls go on.
Written(k) ==
  /\ cpc[k] = "written"
  /\ \/ cpc' = [cpc EXCEPT ![k] = "idle"] /\ UNCHANGED recvMu
     \/ /\ recvMu[k] = "free"
        /\ recvMu' = [recvMu EXCEPT ![k] = "caller"] /\ cpc' = [cpc EXCEPT ![k] = "mask"]
  /\ UNCHANGED <<kernelVars, writeVars, closeVars, mu, rmu, workVars, calls>>

setEvents(k, in) ==
  /\ mu[k] = "free"
  /\ IF closed[k] THEN UNCHANGED <<maskIn, outOn, ready>> ELSE Mod(k, ~in, outOn[k], space[k])
  /\ UNCHANGED <<inq, came, hup, inSet, writeVars, closeVars, lockVars, workVars, calls>>

Mask(k) == cpc[k] = "mask" /\ cpc' = [cpc EXCEPT ![k] = "poll"] /\ setEvents(k, FALSE)

\* The caller reads again, or stops polling (done, out of patience, or
\* unwinding from a panic in onRecv); readOpen may find the conn closed.
Poll(k) ==
  /\ cpc[k] = "poll"
  /\ \/ cpc' = [cpc EXCEPT ![k] = "rearm"] /\ UNCHANGED rmu
     \/ rmu[k] = "free" /\ closed[k] /\ cpc' = [cpc EXCEPT ![k] = "rearmErr"] /\ UNCHANGED rmu
     \/ /\ rmu[k] = "free" /\ ~closed[k]
        /\ rmu' = [rmu EXCEPT ![k] = "caller"] /\ cpc' = [cpc EXCEPT ![k] = "read"]
  /\ UNCHANGED <<kernelVars, writeVars, closeVars, recvMu, mu, workVars, calls>>

\* A chunk, EAGAIN, the end of the stream (left to the worker), or an error.
PollReads(k) ==
  /\ cpc[k] = "read"
  /\ rmu' = [rmu EXCEPT ![k] = "free"]
  /\ inq' = [inq EXCEPT ![k] = IF @ > 0 THEN @ - 1 ELSE @]
  /\ \E to \in IF inq[k] > 0 THEN {"poll"} ELSE IF hup[k] THEN {"rearm", "rearmErr"} ELSE {"poll"} :
       cpc' = [cpc EXCEPT ![k] = to]
  /\ UNCHANGED <<came, hup, inSet, maskIn, outOn, ready, writeVars, closeVars, recvMu, mu, workVars, calls>>

Rearm(k) ==
  /\ \/ cpc[k] = "rearm" /\ cpc' = [cpc EXCEPT ![k] = "unlock"]
     \/ cpc[k] = "rearmErr" /\ cpc' = [cpc EXCEPT ![k] = "unlockErr"]
  /\ setEvents(k, TRUE)

Unlock(k) ==
  /\ \/ cpc[k] = "unlock" /\ cpc' = [cpc EXCEPT ![k] = "idle"]
     \/ cpc[k] = "unlockErr" /\ cpc' = [cpc EXCEPT ![k] = "fail"]
  /\ recvMu' = [recvMu EXCEPT ![k] = "free"]
  /\ UNCHANGED <<kernelVars, writeVars, closeVars, mu, rmu, workVars, calls>>

\* The caller's errorClose.
Fail(k) ==
  /\ \/ /\ cpc[k] = "fail" /\ cpc' = [cpc EXCEPT ![k] = "failing"]
        /\ markClosed(k, "caller", FALSE)
     \/ /\ cpc[k] = "failing" /\ \A e \in closing[k] : e.who # "caller"
        /\ cpc' = [cpc EXCEPT ![k] = "idle"] /\ UNCHANGED <<closing, closed>>
  /\ UNCHANGED <<kernelVars, writeVars, file, conn, dialed, fires, down, lockVars, workVars, calls>>

-----------------------------------------------------------------------------
Peer == \E k \in R : Arrives(k) \/ PeerCloses(k) \/ SocketDrains(k)
Owner == \E k \in R : RegisterConn(k) \/ AddCheck(k) \/ Add(k) \/ AddFails(k) \/ Refused(k)
                    \/ UnregisterConn(k) \/ CloseFD(k)
Teardown == \E k \in R : \E e \in closing[k] : forget(k, e) \/ onClose(k, e)
Run ==
  \/ RunEnds \/ EpollWait \/ dispatch \/ DrainEvent \/ drainPending \/ DrainNext \/ serveReadQ
  \/ readTurnLocked \/ TurnReads \/ errorClose \/ ErrorClosed
Caller ==
  \E k \in R : \/ Call(k) \/ Flush(k) \/ enqueueFlush(k) \/ Written(k) \/ Mask(k) \/ Poll(k)
               \/ PollReads(k) \/ Rearm(k) \/ Unlock(k) \/ Fail(k)

Next == Peer \/ Owner \/ Teardown \/ Run \/ Caller \/ shutdown

Spec == Init /\ [][Next]_vars

-----------------------------------------------------------------------------
(* Properties.                                                             *)

Open(k) == conn = k /\ ~closed[k] /\ inSet[k] /\ wpc # "exit"

\* Bytes, or the end of the stream, that wait in the socket of an open
\* connection have somebody on the way to them: an event the kernel will
\* report, one collected and not dispatched, a queued or a running turn, or a
\* caller that has yet to re-arm.  Events are edge-triggered: what none of
\* these covers is never read (celeris#881, celeris#931).
NoStrandedBytes ==
  \A k \in R : Open(k) /\ (inq[k] > 0 \/ hup[k]) =>
    \/ ready[k] /\ (~maskIn[k] \/ hup[k])
    \/ wpc = "event" /\ ev.k = k /\ ev.read
    \/ Contains(readQ, k) \/ turn.k = k
    \/ cpc[k] \in {"mask", "poll", "read", "rearm", "rearmErr"}

\* Bytes left in writeBuf of an open connection have EPOLLOUT armed with its
\* event pending once the socket has room, or a drain on the way.
NoStrandedWrite ==
  \A k \in R : Open(k) /\ wbuf[k] /\ mu[k] = "free" =>
    \/ outOn[k] /\ (~space[k] \/ ready[k])
    \/ wpc \in {"event", "turn", "read", "mark", "closing", "out"} /\ ev.k = k /\ ev.out
    \/ k \in pending \cup plist \/ cpc[k] = "enqueue"

\* A system call is made on the number only while the number still names the
\* connection's own socket: a teardown waits for a read, a write or an ADD in
\* flight, and the owner closes the descriptor after the teardown
\* (celeris#784).
OwnSocketOnly == \A k \in R : mu[k] # "free" \/ rmu[k] # "free" => file = k

\* The worker and the callers tear a connection down only when its own peer
\* has closed: an event of the number's last owner never closes its next
\* (celeris#842).
NoSpuriousClose ==
  \A k \in R : \A e \in closing[k] : e.who \in {"worker", "caller"} /\ e.fires => hup[k]

\* A registered connection that is not closed keeps its slot and its place in
\* the epoll set, whatever teardown of the number's last owner is still
\* running.
KeepsItsSlot ==
  \A k \in R : k <= dialed /\ ~closed[k] =>
    conn = k /\ (inSet[k] \/ cpc[k] \in {"register", "add"})

\* onClose is called once for each connection, whoever tears it down: once all
\* teardowns are over, exactly once, never before closed is set, and not at all
\* when RegisterConn has failed.
ClosedOnce ==
  \A k \in R : fires[k] + (IF \E e \in closing[k] : e.fires THEN 1 ELSE 0)
                 = IF closed[k] /\ cpc[k] \notin {"refuse", "refused"} THEN 1 ELSE 0

\* Nothing that waits to be read or written is left to wait for ever.
NothingStranded == NoStrandedBytes /\ NoStrandedWrite

\* The number's next owner is untouched by what is left of its last one: a
\* stale event, or a teardown that is still running.
NextOwnerKept == NoSpuriousClose /\ KeepsItsSlot
=============================================================================
