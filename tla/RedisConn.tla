------------------------------ MODULE RedisConn ------------------------------
(***************************************************************************)
(* One caller of the redis client and the connections it uses, one at a    *)
(* time (driver/redis: conn.go, state.go, pipeline.go, tx.go, pool.go,     *)
(* commands.go; driver/internal/async/bridge.go).  The caller runs single  *)
(* commands (do), pipelines and transactions.  Requests wait in the        *)
(* connection's bridge, a FIFO; replies carry no identifier, so the n-th   *)
(* reply belongs to the n-th request.  A connection is driven by the       *)
(* caller itself ("direct"), by the caller and then by the event loop      *)
(* ("sync"), or by the event loop alone ("async").  Request objects are    *)
(* recycled: single ones through reqPool, a pipeline's in its own slab.    *)
(***************************************************************************)
EXTENDS Naturals, Sequences, FiniteSets, SequencesExt

CONSTANTS
  N,            \* commands of a pipeline or transaction
  Pooled,       \* request objects of reqPool
  MaxOps        \* bound: operations of the caller

VARIABLES
  pc,       \* where the caller is
  op,       \* number of the caller's operation
  kind,     \* "do", "pipe" or "tx"
  mine,     \* the request objects of the operation
  outcome,  \* what the operation will return: "ok", "err" or "ctx"
  cur,      \* the connection in use, 0 when the next one is to be dialled
  free,     \* request objects in reqPool
  req,      \* [object -> request]
  mode,     \* [conn -> how it is driven]
  closed,   \* redisConn.closed
  torn,     \* driverConn.closed: the loop uses the descriptor no more
  bridge,   \* [conn -> requests in the order of their commands]
  pipe,     \* syncPipeReqs, <<>> for nil
  idx,      \* syncPipeIdx
  wbuf,     \* driverConn.writeBuf: commands not handed to the kernel yet
  sent,     \* commands the server has not answered
  inbox,    \* replies not read yet
  eof,      \* the server has closed its side
  recvMu,   \* who holds driverConn.recvMu
  drainMu,  \* who holds Bridge.drainMu
  hand,     \* [conn -> the reply being dispatched]
  lpc,      \* [conn -> where the loop is]
  drainList,\* [conn -> requests the loop's drain has taken]
  missed,   \* history: onRecv or onClose drained the conn while a pipeline's
            \* requests were in syncPipeReqs and not in the bridge
  late      \* history: requests that were filled by a reply to an operation
            \* that had returned

callerVars == <<pc, op, kind, mine, outcome, cur, free>>
stateVars  == <<bridge, pipe, idx>>
serverVars == <<wbuf, sent, inbox, eof>>
loopVars   == <<recvMu, drainMu, hand, lpc, drainList>>
history    == <<missed, late>>
vars == <<callerVars, req, mode, closed, torn, stateVars, serverVars, loopVars, history>>

Conns == 1 .. MaxOps
Slab  == {<<"slab", i>> : i \in 1 .. N}
Reqs  == Pooled \cup Slab
Modes == {"direct", "sync", "async"}
NoHand == [st |-> "none"]

\* A reply is named by its command, <<operation, index>>; what is not a reply:
Junk    == <<0, 0>>
Failure == <<0, 1>>
NoReply == <<0, 2>>

Fresh(o, i) == [op |-> o, cmd |-> i, res |-> NoReply, finished |-> FALSE, token |-> FALSE]

\* finish: the first call sets finished and leaves a token in doneCh.
finish(r) == IF r.finished THEN r ELSE [r EXCEPT !.finished = TRUE, !.token = TRUE]

\* drainWithError's callback: the request fails and its caller is woken.
Failed(r) == finish([r EXCEPT !.res = Failure])

Init ==
  /\ pc = "idle" /\ op = 0 /\ kind = "do" /\ mine = <<>> /\ outcome = "ok"
  /\ cur = 0 /\ free = {}
  /\ req = [r \in Reqs |-> Fresh(0, 0)]
  /\ mode \in [Conns -> Modes] /\ \A c \in Conns : mode[c] = mode[1]
  /\ closed = [c \in Conns |-> FALSE] /\ torn = [c \in Conns |-> FALSE]
  /\ bridge = [c \in Conns |-> <<>>] /\ pipe = [c \in Conns |-> <<>>]
  /\ idx = [c \in Conns |-> 0]
  /\ wbuf = [c \in Conns |-> <<>>] /\ sent = [c \in Conns |-> <<>>]
  /\ inbox = [c \in Conns |-> <<>>] /\ eof = [c \in Conns |-> FALSE]
  /\ recvMu = [c \in Conns |-> "free"] /\ drainMu = [c \in Conns |-> "free"]
  /\ hand = [c \in Conns |-> NoHand] /\ lpc = [c \in Conns |-> "run"]
  /\ drainList = [c \in Conns |-> <<>>]
  /\ missed = [c \in Conns |-> FALSE] /\ late = {}

Awaited == mine[Len(mine)]
Size(k) == IF k = "do" THEN 1 ELSE N

-----------------------------------------------------------------------------
(* The server answers in order, may send what cannot be parsed, and may    *)
(* close.  What it sends to a conn that was torn down is never read.       *)

Replies(c) ==
  /\ sent[c] # <<>> /\ ~eof[c] /\ ~torn[c]
  /\ \E v \in {Head(sent[c]), Junk} : inbox' = [inbox EXCEPT ![c] = Append(@, v)]
  /\ sent' = [sent EXCEPT ![c] = Tail(@)]
  /\ UNCHANGED <<callerVars, req, mode, closed, torn, stateVars, wbuf, eof, loopVars, history>>

Hangs(c) ==
  /\ c = cur /\ ~eof[c]
  /\ eof' = [eof EXCEPT ![c] = TRUE]
  /\ UNCHANGED <<callerVars, req, mode, closed, torn, stateVars, wbuf, sent, inbox, loopVars, history>>

-----------------------------------------------------------------------------
(* onRecv, on the loop's goroutine or the caller's: whoever holds recvMu.  *)

\* A read of the socket: a conn that has been torn down is not read.
Read(c, who) ==
  /\ inbox[c] # <<>> /\ ~torn[c] /\ hand[c] = NoHand
  /\ hand' = [hand EXCEPT ![c] = [st |-> "read", reply |-> Head(inbox[c]), who |-> who]]
  /\ inbox' = [inbox EXCEPT ![c] = Tail(@)]

LoopReads(c) ==
  /\ mode[c] # "direct" /\ lpc[c] = "run" /\ recvMu[c] = "free"
  /\ Read(c, "loop")
  /\ recvMu' = [recvMu EXCEPT ![c] = "loop"]
  /\ UNCHANGED <<callerVars, req, mode, closed, torn, stateVars, wbuf, sent, eof, drainMu, lpc, drainList, history>>

PollReads ==
  /\ pc = "poll" /\ recvMu[cur] = "caller"
  /\ Read(cur, "caller")
  /\ UNCHANGED <<callerVars, req, mode, closed, torn, stateVars, wbuf, sent, eof, recvMu, drainMu, lpc, drainList, history>>

\* The requests of a sync pipeline are in syncPipeReqs: a drain now misses them.
Misses(c) == [missed EXCEPT ![c] = @ \/ pipe[c] # <<>>]

\* The reader cannot parse a reply, which it leaves behind (Next rewinds for
\* an incomplete one only), or dispatch finds no request for it: onRecv marks
\* the connection closed and drains its bridge, leaves it registered, and
\* parses on when more is read.
Unmatched(c) ==
  /\ hand[c].st = "read"
  /\ hand[c].reply = Junk
       \/ IF pipe[c] # <<>> THEN idx[c] >= Len(pipe[c]) ELSE bridge[c] = <<>>
  /\ closed' = [closed EXCEPT ![c] = TRUE]
  /\ IF hand[c].who = "loop"
     THEN /\ lpc' = [lpc EXCEPT ![c] = "drain"]
          /\ UNCHANGED <<req, bridge, missed>>
     ELSE /\ drainMu[c] = "free"
          /\ req' = [r \in Reqs |-> IF Contains(bridge[c], r) THEN Failed(req[r]) ELSE req[r]]
          /\ bridge' = [bridge EXCEPT ![c] = <<>>]
          /\ missed' = Misses(c)
          /\ UNCHANGED lpc
  /\ hand' = [hand EXCEPT ![c] = NoHand]
  /\ UNCHANGED <<callerVars, mode, torn, pipe, idx, serverVars, recvMu, drainMu, drainList, late>>

\* dispatch takes the request the reply belongs to: by index while a sync
\* pipeline is being read, else the head of the bridge.
Takes(c) ==
  /\ hand[c].st = "read" /\ hand[c].reply # Junk
  /\ \/ /\ pipe[c] # <<>> /\ idx[c] < Len(pipe[c])
        /\ hand' = [hand EXCEPT ![c] = [st |-> "got", reply |-> @.reply, who |-> @.who, r |-> pipe[c][idx[c] + 1],
                                         op |-> req[pipe[c][idx[c] + 1]].op, wakes |-> idx[c] + 1 = Len(pipe[c])]]
        /\ idx' = [idx EXCEPT ![c] = @ + 1]
        /\ UNCHANGED bridge
     \/ /\ pipe[c] = <<>> /\ bridge[c] # <<>>
        /\ hand' = [hand EXCEPT ![c] = [st |-> "got", reply |-> @.reply, who |-> @.who, r |-> Head(bridge[c]),
                                         op |-> req[Head(bridge[c])].op, wakes |-> TRUE]]
        /\ bridge' = [bridge EXCEPT ![c] = Tail(@)]
        /\ UNCHANGED idx
  /\ UNCHANGED <<callerVars, req, mode, closed, torn, pipe, serverVars, recvMu, drainMu, lpc, drainList, history>>

\* The rest of dispatch: the reply is copied into the request, which is
\* finished unless it is an intermediate one of a sync pipeline.
Delivers(c) ==
  /\ hand[c].st = "got"
  /\ LET filled == [req[hand[c].r] EXCEPT !.res = hand[c].reply]
     IN  req' = [req EXCEPT ![hand[c].r] = IF hand[c].wakes THEN finish(filled) ELSE filled]
  /\ recvMu' = [recvMu EXCEPT ![c] = IF hand[c].who = "loop" THEN "free" ELSE @]
  /\ late' = IF c = cur /\ hand[c].op = op THEN late ELSE late \cup {hand[c].r}
  /\ hand' = [hand EXCEPT ![c] = NoHand]
  /\ UNCHANGED <<callerVars, mode, closed, torn, stateVars, serverVars, drainMu, lpc, drainList, missed>>

-----------------------------------------------------------------------------
(* The loop's side of a close.                                             *)

\* The loop reads the end of the stream and tears the connection down.
LoopEof(c) ==
  /\ mode[c] # "direct" /\ lpc[c] = "run" /\ recvMu[c] = "free"
  /\ eof[c] /\ inbox[c] = <<>> /\ ~torn[c] /\ cur >= c
  /\ torn' = [torn EXCEPT ![c] = TRUE]
  /\ lpc' = [lpc EXCEPT ![c] = "onClose"]
  /\ recvMu' = [recvMu EXCEPT ![c] = "loop"]
  /\ UNCHANGED <<callerVars, req, mode, closed, stateVars, serverVars, drainMu, hand, drainList, history>>

\* drainOne: the worker, when it is not reading the connection, writes what
\* the caller's flush has left ...
LoopFlushes(c) ==
  /\ wbuf[c] # <<>> /\ ~torn[c] /\ recvMu[c] # "loop" /\ (c = cur => pc # "flush")
  /\ wbuf' = [wbuf EXCEPT ![c] = Tail(@)] /\ sent' = [sent EXCEPT ![c] = Append(@, Head(wbuf[c]))]
  /\ UNCHANGED <<callerVars, req, mode, closed, torn, stateVars, inbox, eof, loopVars, history>>

\* ... and tears the connection down when it cannot, without recvMu: the
\* caller's poll may be under way.
LoopFlushFails(c) ==
  /\ wbuf[c] # <<>> /\ ~torn[c] /\ recvMu[c] # "loop" /\ (c = cur => pc # "flush") /\ eof[c]
  /\ torn' = [torn EXCEPT ![c] = TRUE] /\ wbuf' = [wbuf EXCEPT ![c] = <<>>]
  /\ lpc' = [lpc EXCEPT ![c] = "onClose"]
  /\ UNCHANGED <<callerVars, req, mode, closed, stateVars, sent, inbox, eof, recvMu, drainMu, hand, drainList, history>>

onClose(c) ==
  /\ lpc[c] = "onClose"
  /\ closed' = [closed EXCEPT ![c] = TRUE]
  /\ lpc' = [lpc EXCEPT ![c] = "drain"]
  /\ UNCHANGED <<callerVars, req, mode, torn, stateVars, serverVars, recvMu, drainMu, hand, drainList, history>>

\* DrainWithError takes every request under the bridge's lock ...
takeAll(c) ==
  /\ lpc[c] = "drain" /\ drainMu[c] = "free"
  /\ drainMu' = [drainMu EXCEPT ![c] = "loop"]
  /\ drainList' = [drainList EXCEPT ![c] = bridge[c]]
  /\ bridge' = [bridge EXCEPT ![c] = <<>>]
  /\ lpc' = [lpc EXCEPT ![c] = "notify"]
  /\ missed' = Misses(c)
  /\ UNCHANGED <<callerVars, req, mode, closed, torn, pipe, idx, serverVars, recvMu, hand, late>>

\* ... and notifies them one by one, holding drainMu only.
Notify(c) ==
  /\ lpc[c] = "notify"
  /\ IF drainList[c] # <<>>
     THEN /\ req' = [req EXCEPT ![Head(drainList[c])] = Failed(@)]
          /\ drainList' = [drainList EXCEPT ![c] = Tail(@)]
          /\ UNCHANGED <<drainMu, lpc, recvMu>>
     ELSE /\ drainMu' = [drainMu EXCEPT ![c] = "free"]
          /\ lpc' = [lpc EXCEPT ![c] = IF torn[c] THEN "end" ELSE "run"]
          /\ recvMu' = [recvMu EXCEPT ![c] = IF @ = "loop" THEN "free" ELSE @]
          /\ UNCHANGED <<req, drainList>>
  /\ UNCHANGED <<callerVars, mode, closed, torn, stateVars, serverVars, hand, history>>

-----------------------------------------------------------------------------
(* The caller.                                                             *)

connUnch == <<mode, loopVars, history>>

\* Nobody but a holder of the object itself can reach r.
Unreferenced(r) ==
  \A c \in Conns : ~Contains(bridge[c] \o drainList[c] \o pipe[c], r)
                 /\ (hand[c].st = "got" => hand[c].r # r)

\* acquireCmd: an idle connection found closed is discarded and the next one
\* is dialled.
acquireCmd(k) ==
  /\ pc = "idle" /\ op < MaxOps
  /\ op' = op + 1 /\ kind' = k /\ outcome' = "ok" /\ mine' = <<>>
  /\ cur' = IF cur = 0 \/ closed[cur] THEN op + 1 ELSE cur
  /\ torn' = [c \in Conns |-> torn[c] \/ (c = cur /\ closed[c])]
  /\ pc' = "check"
  /\ UNCHANGED <<free, req, closed, stateVars, serverVars, connUnch>>

\* exec and execManyInto look at closed, and only then take their requests:
\* a pipeline from its slab, the others from reqPool.
getRequests ==
  /\ pc = "check"
  /\ IF closed[cur]
     THEN pc' = "return" /\ outcome' = "err" /\ UNCHANGED <<mine, free, req>>
     ELSE /\ IF kind = "pipe"
             THEN mine' = [i \in 1 .. N |-> <<"slab", i>>]
             ELSE mine' \in {s \in [1 .. Size(kind) -> Pooled] :
                              IsInjective(s) /\ \A i \in DOMAIN s : s[i] \in free \/ Unreferenced(s[i])}
          /\ free' = free \ Range(mine')
          /\ req' = [r \in Reqs |-> IF r \in Range(mine')
                                   THEN Fresh(op, CHOOSE i \in DOMAIN mine' : mine'[i] = r) ELSE req[r]]
          /\ pc' = "enqueue"
          /\ UNCHANGED outcome
  /\ late' = late \ Range(mine')
  /\ UNCHANGED <<op, kind, cur, closed, torn, stateVars, serverVars, mode, loopVars, missed>>

\* The requests enter the bridge before their commands are written; those of
\* a sync pipeline stay in a slice that dispatch indexes.
Enqueue ==
  /\ pc = "enqueue" /\ pc' = "write"
  /\ IF kind # "do" /\ mode[cur] = "sync"
     THEN pipe' = [pipe EXCEPT ![cur] = mine] /\ idx' = [idx EXCEPT ![cur] = 0] /\ UNCHANGED bridge
     ELSE bridge' = [bridge EXCEPT ![cur] = @ \o mine] /\ UNCHANGED <<pipe, idx>>
  /\ UNCHANGED <<op, kind, mine, outcome, cur, free, req, closed, torn, serverVars, connUnch>>

\* Mutant: a write to a connection that was torn down is accepted.
AlwaysWrite == TRUE

CanWrite == ~torn[cur]

\* exec looks at closed again under writerMu (exec2 and exec3 do not); the
\* loop refuses a descriptor that was torn down.
WriteRefused ==
  /\ pc = "write"
  /\ ~CanWrite \/ (closed[cur] /\ kind = "do" /\ mode[cur] = "async")
  /\ pc' = "close" /\ outcome' = "err"
  /\ UNCHANGED <<op, kind, mine, cur, free, req, closed, torn, stateVars, serverVars, connUnch>>

Write ==
  /\ pc = "write" /\ CanWrite
  /\ wbuf' = [wbuf EXCEPT ![cur] = @ \o [i \in DOMAIN mine |-> <<op, i>>]]
  /\ pc' = "flush"
  /\ UNCHANGED <<op, kind, mine, outcome, cur, free, req, closed, torn, stateVars, sent, inbox, eof, connUnch>>

\* flushLocked: the commands go to the kernel one after the other ...
Flush ==
  /\ pc = "flush" /\ wbuf[cur] # <<>> /\ ~torn[cur]
  /\ wbuf' = [wbuf EXCEPT ![cur] = Tail(@)] /\ sent' = [sent EXCEPT ![cur] = Append(@, Head(wbuf[cur]))]
  /\ UNCHANGED <<callerVars, req, closed, torn, stateVars, inbox, eof, connUnch>>

\* ... until all are gone or, on a conn of the loop's, the socket is full: the
\* worker writes the rest ...
FlushEnds ==
  /\ pc = "flush" /\ (wbuf[cur] = <<>> \/ mode[cur] # "direct")
  /\ pc' = IF mode[cur] = "async" THEN "wait" ELSE "lock"
  /\ UNCHANGED <<op, kind, mine, outcome, cur, free, req, closed, torn, stateVars, serverVars, connUnch>>

\* ... or the peer is gone, perhaps after a part was sent (and answered).
FlushFails ==
  /\ pc = "flush" /\ wbuf[cur] # <<>> /\ eof[cur]
  /\ wbuf' = [wbuf EXCEPT ![cur] = <<>>]
  /\ torn' = [torn EXCEPT ![cur] = @ \/ mode[cur] # "direct"]
  /\ pc' = "close" /\ outcome' = "err"
  /\ UNCHANGED <<op, kind, mine, cur, free, req, closed, stateVars, sent, inbox, eof, connUnch>>

\* WriteAndPoll takes recvMu, so that the loop does not read meanwhile.  Its
\* first read fails when the conn has been torn down by then.
PollLocks ==
  /\ pc = "lock" /\ recvMu[cur] = "free"
  /\ recvMu' = [recvMu EXCEPT ![cur] = "caller"]
  /\ pc' = IF torn[cur] THEN "unknownFD" ELSE "poll"
  /\ UNCHANGED <<op, kind, mine, outcome, cur, free, req, mode, closed, torn, stateVars, serverVars, drainMu, hand, lpc, drainList, history>>

\* Mutant: the requests are handed over in the opposite order.
Backwards(c) == Reverse(SubSeq(pipe[c], idx[c] + 1, Len(pipe[c])))

\* pollBeforeRearm: the requests not answered yet move to the bridge.
Undispatched(c) == SubSeq(pipe[c], idx[c] + 1, Len(pipe[c]))

\* The poll of a sync connection ends with an error when a read fails (the
\* peer has reset it, or it was torn down) and else when the last reply was
\* read, or nothing has come for a while, or without having looked since the
\* conn was torn down: in each of these cases the caller goes on to wait.  A
\* direct connection has no loop: its caller reads until the reply, or an
\* error: the end of the stream, or the context's deadline on the socket.
PollFails ==
  IF mode[cur] = "direct"
  THEN ~req[Awaited].finished
  ELSE pc = "unknownFD" \/ torn[cur] \/ eof[cur]

PollSucceeds ==
  IF mode[cur] = "direct" THEN req[Awaited].finished ELSE pc = "poll"

ResultOf(r) == IF kind = "do" /\ req[r].res = Failure THEN "err" ELSE "ok"

PollEnds ==
  /\ pc \in {"poll", "unknownFD"} /\ hand[cur] = NoHand
  /\ bridge' = [bridge EXCEPT ![cur] = @ \o Undispatched(cur)]
  /\ pipe' = [pipe EXCEPT ![cur] = <<>>] /\ idx' = [idx EXCEPT ![cur] = 0]
  /\ recvMu' = [recvMu EXCEPT ![cur] = "free"]
  /\ \/ /\ PollFails /\ pc' = "close" /\ outcome' = "err"
        /\ torn' = [torn EXCEPT ![cur] = @ \/ mode[cur] # "direct"]
     \/ /\ PollSucceeds /\ UNCHANGED torn
        /\ IF mode[cur] = "direct"
           THEN pc' = "return" /\ outcome' = ResultOf(Awaited)
           ELSE pc' = "wait" /\ UNCHANGED outcome
  /\ UNCHANGED <<op, kind, mine, cur, free, req, mode, closed, serverVars, drainMu, hand, lpc, drainList, history>>

\* wait: doneCh fires.
WaitDone ==
  /\ pc = "wait" /\ req[Awaited].token
  /\ req' = [req EXCEPT ![Awaited].token = FALSE]
  /\ pc' = "return"
  /\ outcome' = ResultOf(Awaited)
  /\ UNCHANGED <<op, kind, mine, cur, free, closed, torn, stateVars, serverVars, connUnch>>

\* The context ends first: execManyCore fails the requests that are not
\* finished, and both give the connection up.
WaitCtx ==
  /\ pc = "wait"
  /\ req' = [r \in Reqs |-> IF kind # "do" /\ r \in Range(mine) /\ ~req[r].finished THEN Failed(req[r]) ELSE req[r]]
  /\ pc' = "close" /\ outcome' = "ctx"
  /\ UNCHANGED <<op, kind, mine, cur, free, closed, torn, stateVars, serverVars, connUnch>>

\* closeWithErr, Close: closed is set and the descriptor unregistered, which
\* does not wait for a callback in progress; the socket's data is gone ...
Close ==
  /\ pc = "close" /\ pc' = "drain"
  /\ closed' = [closed EXCEPT ![cur] = TRUE] /\ torn' = [torn EXCEPT ![cur] = TRUE]
  /\ wbuf' = [wbuf EXCEPT ![cur] = <<>>]
  /\ sent' = [sent EXCEPT ![cur] = <<>>] /\ inbox' = [inbox EXCEPT ![cur] = <<>>]
  /\ UNCHANGED <<op, kind, mine, outcome, cur, free, req, stateVars, eof, connUnch>>

\* Mutant: the bridge has no drainMu.
NoDrainMu(c) == TRUE

DrainsOver(c) == drainMu[c] = "free"

\* ... the bridge is drained, after any drain in progress ...
DrainWithError ==
  /\ pc = "drain" /\ pc' = "waitDrained" /\ DrainsOver(cur)
  /\ req' = [r \in Reqs |-> IF Contains(bridge[cur], r) THEN Failed(req[r]) ELSE req[r]]
  /\ bridge' = [bridge EXCEPT ![cur] = <<>>]
  /\ UNCHANGED <<op, kind, mine, outcome, cur, free, closed, torn, pipe, idx, serverVars, connUnch>>

\* ... and a drain of the loop's that began since is waited for.
WaitDrained ==
  /\ pc = "waitDrained" /\ pc' = "return" /\ DrainsOver(cur)
  /\ UNCHANGED <<op, kind, mine, outcome, cur, free, req, closed, torn, stateVars, serverVars, connUnch>>

\* A pipeline gives the connection back only when it succeeds; do and Tx.Exec
\* release or discard it on every path.
GivesBack == kind # "pipe" \/ outcome = "ok"

\* do and Tx.Exec put their requests back when they succeed (a server error
\* in a reply is a failure too) and otherwise drop them.  What a request holds
\* is dead once its operation has returned.
Return ==
  /\ pc = "return" /\ pc' = "idle"
  /\ cur' = IF closed[cur] \/ ~GivesBack THEN 0 ELSE cur
  /\ torn' = [torn EXCEPT ![cur] = @ \/ (closed[cur] /\ GivesBack)]
  /\ \/ outcome = "ok" /\ kind # "pipe" /\ free' = free \cup Range(mine)
     \/ free' = free
  /\ req' = [r \in Reqs |-> IF r \in Range(mine) THEN Fresh(0, 0) ELSE req[r]]
  /\ UNCHANGED <<op, kind, mine, outcome, closed, stateVars, serverVars, connUnch>>

Caller ==
  \/ \E k \in {"do", "pipe", "tx"} : acquireCmd(k)
  \/ getRequests \/ Enqueue \/ WriteRefused \/ Write \/ Flush \/ FlushEnds \/ FlushFails
  \/ PollLocks \/ PollReads \/ PollEnds
  \/ WaitDone \/ WaitCtx \/ Close \/ DrainWithError \/ WaitDrained \/ Return

Recv(c) == LoopReads(c) \/ Unmatched(c) \/ Takes(c) \/ Delivers(c)
LoopCloses(c) == LoopFlushes(c) \/ LoopFlushFails(c) \/ LoopEof(c) \/ onClose(c) \/ takeAll(c) \/ Notify(c)
Server(c) == Replies(c) \/ Hangs(c)

Next == Caller \/ \E c \in Conns : Recv(c) \/ LoopCloses(c) \/ Server(c)

Spec == Init /\ [][Next]_vars

-----------------------------------------------------------------------------
(* Properties.                                                             *)

\* An operation that succeeds has, for each of its commands, the server's
\* reply to that very command or an error: no reply is taken for another's,
\* across the hand-over from the caller's poll to the loop, a request that
\* was given up, and the recycling of request objects (conn.go, the comment
\* in wait: "silently returning wrong data").  Two things break it, and are
\* left to NoLateWrite and NeverStranded: a slab request written late, and a
\* reply of a sync pipeline that cannot be parsed, which does not advance
\* syncPipeIdx.
ReplyMatches ==
  pc = "return" /\ outcome = "ok" /\ ~missed[cur] /\ Range(mine) \cap Slab \cap late = {} =>
    \A i \in DOMAIN mine : req[mine[i]].res \in {<<op, i>>, Failure}

\* Replies the server, the socket or the reader still holds for the conn.
Outstanding(c) == Len(wbuf[c] \o sent[c] \o inbox[c]) + (IF hand[c].st = "read" THEN 1 ELSE 0)

\* Somebody will still wake the caller: its last request is in the hands of a
\* dispatch or a drain, or is in the bridge and every request of the bridge
\* has a reply to come, or the conn will be seen to end, or its drain has
\* begun.
Wakes ==
  \/ \E c \in Conns : hand[c].st = "got" /\ hand[c].r = Awaited /\ hand[c].wakes
  \/ Contains(drainList[cur], Awaited)
  \/ /\ Contains(bridge[cur], Awaited)
     /\ \/ lpc[cur] \in {"onClose", "drain"}
        \/ ~torn[cur] /\ (eof[cur] \/ Outstanding(cur) >= Len(bridge[cur]))

\* A caller waiting on doneCh is never forgotten (exec's race with onClose,
\* the hand-over of a pipeline from the poll to the loop, the drains of a
\* conn that fails), but for a sync pipeline that a drain has missed.
NoStranded == pc = "wait" /\ ~req[Awaited].token /\ ~missed[cur] => Wakes

\* The same without the exception: "drainWithError fails every pending request
\* with err." (state.go).  The requests of a sync pipeline are pending while
\* they are in syncPipeReqs, where the drain does not look, and pollBeforeRearm
\* puts them into the bridge after it.
NeverStranded == pc = "wait" /\ ~req[Awaited].token => Wakes

\* A request object a loop has taken for an operation, to fill it or to fail
\* it, is not in reqPool, nor (Slab) in a pipeline whose Exec has returned.
Written(objects) ==
  \A c \in Conns :
    /\ hand[c].st = "got" /\ hand[c].r \in objects => c = cur /\ hand[c].op = op /\ pc # "idle"
    /\ \A r \in Range(drainList[c]) : r \in objects => c = cur /\ req[r].op = op /\ pc # "idle"

\* A request that went back to reqPool is not written for its old operation,
\* whichever of reply, deadline, hang-up and failed write came first, and no
\* drain outlives the operation whose requests it fails, a pipeline's slab
\* included unless a late reply ended it (bridge.go: "waiting for that drain
\* keeps its callbacks from writing to the request after the caller has
\* released it for reuse").
PoolKept ==
  /\ Written(free)
  /\ \A c \in Conns : \A r \in Range(drainList[c]) \cap Slab :
       late \cap Slab # {} \/ (c = cur /\ req[r].op = op /\ pc # "idle")

\* A request object that may be used again, in reqPool or in the slab of a
\* pipeline whose Exec has returned, is not about to be written by a loop
\* that took it for an earlier operation (conn.go, closeWithErr: "a caller
\* that releases its request when this returns is not written to
\* afterwards").
NoLateWrite == Written(Slab \cup free)

=============================================================================
