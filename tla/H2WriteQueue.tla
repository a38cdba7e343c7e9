---------------------------- MODULE H2WriteQueue ----------------------------
(***************************************************************************)
(* From a pool handler to the socket: the sharded write queue of           *)
(* internal/conn/h2.go, the eventfd handle of internal/wakefd, and the     *)
(* part of an engine's loop (internal/engine/epoll/loop.go) that waits on  *)
(* the eventfd and drains the queue.                                       *)
(*                                                                         *)
(* Handlers enqueue frames without the loop's lock and signal it only when *)
(* nobody has since its last drain.  The loop's wait here has no timeout:  *)
(* a frame that waited for one would be late by the sweep interval.        *)
(***************************************************************************)
EXTENDS Naturals, Sequences, SequencesExt

CONSTANTS
  Streams,    \* streams with a pool handler
  NShards,    \* h2QueueShards
  ShardOf,    \* the shard of each stream
  NFrames,    \* bound: frames each handler enqueues
  NReads      \* bound: socket events, each with one frame flushed by the loop

VARIABLES
  shard,      \* the frames of each shard
  pending,
  efd,        \* the eventfd's counter is above zero
  closed,     \* WakeFD.closed
  hpc, made,  \* each handler: where it is, frames made for its stream
  lpc, idx,   \* the loop: where it is, the shard it drains
  reads,      \* socket events so far
  out         \* frames written to the connection

vars == <<shard, pending, efd, closed, hpc, made, lpc, idx, reads, out>>

Init ==
  /\ shard = [k \in 1..NShards |-> <<>>]
  /\ pending = FALSE /\ efd = FALSE /\ closed = FALSE
  /\ hpc = [s \in Streams |-> "idle"] /\ made = [s \in Streams |-> 0]
  /\ lpc = "wait" /\ idx = 1 /\ reads = 0
  /\ out = <<>>

HandlerGoes(s, from, to) == hpc[s] = from /\ hpc' = [hpc EXCEPT ![s] = to]
LoopGoes(from, to) == lpc = from /\ lpc' = to

\* The next frame of a stream, at the end of its shard.
Append1(s) ==
  /\ made' = [made EXCEPT ![s] = @ + 1]
  /\ shard' = [shard EXCEPT ![ShardOf[s]] = Append(@, <<s, made[s] + 1>>)]

-----------------------------------------------------------------------------
(* Enqueue and WakeFD.Signal, on a handler's goroutine. *)

Enqueue(s) ==
  /\ HandlerGoes(s, "idle", "cas")
  /\ made[s] < NFrames /\ Append1(s)
  /\ UNCHANGED <<pending, efd, closed, lpc, idx, reads, out>>

\* CompareAndSwap(false, true): a failed one leaves the signal to another.
SetPending(s) ==
  /\ HandlerGoes(s, "cas", IF pending THEN "idle" ELSE "signal")
  /\ pending' = TRUE
  /\ UNCHANGED <<shard, efd, closed, made, lpc, idx, reads, out>>

\* Signal takes the read lock and looks at closed ...
SignalEnter(s) ==
  /\ HandlerGoes(s, "signal", IF closed THEN "idle" ELSE "write")
  /\ UNCHANGED <<shard, pending, efd, closed, made, lpc, idx, reads, out>>

\* ... and writes before it lets go of it.
SignalWrite(s) ==
  /\ HandlerGoes(s, "write", "idle")
  /\ efd' = TRUE
  /\ UNCHANGED <<shard, pending, closed, made, lpc, idx, reads, out>>

-----------------------------------------------------------------------------
(* The loop. *)

\* EpollWait returns for the eventfd or for a readable socket.
LoopWait ==
  \/ /\ efd /\ LoopGoes("wait", "read")
     /\ UNCHANGED <<shard, pending, efd, closed, hpc, made, idx, reads, out>>
  \/ /\ reads < NReads /\ LoopGoes("wait", "process")
     /\ reads' = reads + 1
     /\ UNCHANGED <<shard, pending, efd, closed, hpc, made, idx, out>>

\* The counter is read before anything is drained.
ReadEventfd ==
  /\ LoopGoes("read", "drain")
  /\ efd' = FALSE
  /\ UNCHANGED <<shard, pending, closed, hpc, made, idx, reads, out>>

\* ProcessH2 flushes a stream's buffered bytes: enqueueFromLoop sets pending
\* and signals nobody.  The stream's handler is done with it by then.
EnqueueFromLoop ==
  /\ LoopGoes("process", "drain")
  /\ \E s \in Streams : hpc[s] = "idle" /\ Append1(s)
  /\ pending' = TRUE
  /\ UNCHANGED <<efd, closed, hpc, idx, reads, out>>

\* Mutant: pending is cleared once the shards are empty.
ClearsLast(first) == ~first

\* DrainTo clears pending before it takes any shard.
Clears(first) == first

\* DrainWriteQueue, gated on pending.
DrainStart ==
  /\ LoopGoes("drain", IF pending THEN "swap" ELSE "wait")
  /\ pending' = (pending /\ ~Clears(TRUE))
  /\ UNCHANGED <<shard, efd, closed, hpc, made, idx, reads, out>>

\* Mutant: the newest frame of a shard is written first.
TakenReversed(q) == Reverse(q)

\* What a drain writes of a shard's frames.
Taken(q) == q

\* for i := range q.shards.
MoreShards == idx < NShards

\* DrainTo swaps one shard's list out and writes it.
DrainShard ==
  /\ lpc = "swap"
  /\ out' = out \o Taken(shard[idx])
  /\ shard' = [shard EXCEPT ![idx] = <<>>]
  /\ IF MoreShards THEN idx' = idx + 1 /\ UNCHANGED <<lpc, pending>>
     ELSE idx' = 1 /\ lpc' = "wait" /\ pending' = (pending /\ ~Clears(FALSE))
  /\ UNCHANGED <<efd, closed, hpc, made, reads>>

\* Mutant: Close does not wait for the signals in flight.
CloseAtOnce == TRUE

\* The write lock: no Signal is between its check and its write.
NoSignalInFlight == \A s \in Streams : hpc[s] # "write"

\* The loop shuts down: WakeFD.Close.
Close ==
  /\ NoSignalInFlight
  /\ LoopGoes("wait", "stopped")
  /\ closed' = TRUE
  /\ UNCHANGED <<shard, pending, efd, hpc, made, idx, reads, out>>

Handler(s) == Enqueue(s) \/ SetPending(s) \/ SignalEnter(s) \/ SignalWrite(s)
LoopStep == LoopWait \/ ReadEventfd \/ EnqueueFromLoop \/ DrainStart \/ DrainShard

Next == LoopStep \/ Close \/ \E s \in Streams : Handler(s)

Spec == Init /\ [][Next]_vars

\* A handler inside Enqueue finishes it; the loop runs whenever it can.
Finish(s) == SetPending(s) \/ SignalEnter(s) \/ SignalWrite(s)
FairSpec == Spec /\ WF_vars(LoopStep) /\ \A s \in Streams : WF_vars(Finish(s))

-----------------------------------------------------------------------------
(* Properties. *)

\* The frames of a stream reach the connection in the order they were made,
\* none twice and none left out (HEADERS before DATA, whoever enqueued them).
StreamOrder ==
  \A s \in Streams :
    LET mine == SelectSeq(out, LAMBDA f : f[1] = s) IN
    \A i \in 1..Len(mine) : mine[i] = <<s, i>>

\* WakeFD: no write(2) on a descriptor that is closed and may be recycled.
NoWriteAfterClose == closed => \A s \in Streams : hpc[s] # "write"

\* A frame in the queue is drained without the help of a timeout, whenever in
\* the drain it was enqueued, unless the loop stops.
NoStrandedFrame ==
  \A k \in 1..NShards : (shard[k] # <<>>) ~> (shard[k] = <<>> \/ closed)
=============================================================================
