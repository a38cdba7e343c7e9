------------------------------ MODULE MCH2Parts ------------------------------
(***************************************************************************)
(* Three parts of the HTTP/2 server that share no state, checked side by   *)
(* side: the pool of handler goroutines, the write queue of a connection   *)
(* and the admission of streams.  A behaviour is one of one part; the      *)
(* others stay in their initial states.                                    *)
(***************************************************************************)
EXTENDS H2WorkerPool, TLC

CONSTANTS
  sa, sb, NShards, NFrames, NReads,                     \* the write queue
  NIds, MaxWire, MaxStreams, MaxTombstones, ResetWindow \* admission

VARIABLES
  part,
  shard, pending, efd, closed, hpc, made, lpc, idx, reads, out,
  client, cblock, sawGoAway, wire, rsts, streams, lastClient, maxOpened, block, resetIDs,
  resetOpen, expiredReq, goAway, served, down

Streams == {sa, sb}
ShardOf == (sa :> 1) @@ (sb :> 2)
queueVars == <<shard, pending, efd, closed, hpc, made, lpc, idx, reads, out>>
admitVars == <<client, cblock, sawGoAway, wire, rsts, streams, lastClient, maxOpened, block, resetIDs,
               resetOpen, expiredReq, goAway, served, down>>
Queue == INSTANCE H2WriteQueue
Admission == INSTANCE H2Admission

mcVars == <<part, vars, queueVars, admitVars>>

MCInit ==
  /\ part \in {"pool", "queue", "admission"}
  /\ Init /\ Queue!Init /\ Admission!Init

PoolNext == part = "pool" /\ Next /\ UNCHANGED <<part, queueVars, admitVars>>
QueueNext == part = "queue" /\ Queue!Next /\ UNCHANGED <<part, vars, admitVars>>
AdmissionNext == part = "admission" /\ Admission!Next /\ UNCHANGED <<part, vars, queueVars>>

MCNext == PoolNext \/ QueueNext \/ AdmissionNext

\* The fairness of each part, for the behaviours that are its own.
MCSpec ==
  /\ MCInit /\ [][MCNext]_mcVars
  /\ \A w \in Workers : WF_vars(part = "pool" /\ Take(w))
  /\ \A t \in Tasks : WF_vars(part = "pool" /\ Submit(t))
  /\ WF_queueVars(part = "queue" /\ Queue!LoopStep)
  /\ \A s \in Streams : WF_queueVars(part = "queue" /\ Queue!Finish(s))
  /\ WF_admitVars(part = "admission" /\ Admission!ProcessFrame)
  /\ WF_admitVars(part = "admission" /\ Admission!ExpireHeaderBlock)
  /\ \A i \in Admission!Ids : WF_admitVars(part = "admission" /\ Admission!ExpireRequest(i))

\* The frames of a stream reach the connection in order (h2WriteQueue).
StreamOrder == Queue!StreamOrder

\* No write(2) on a closed eventfd (WakeFD).
NoWriteAfterClose == Queue!NoWriteAfterClose

\* A queued frame is drained without the help of a timeout (h2WriteQueue).
NoStrandedFrame == part = "queue" => Queue!NoStrandedFrame

\* A client that keeps the rules keeps its connection (Processor).
GoodClientKept == Admission!GoodClientKept

\* No request above the last stream of a GOAWAY is served, and the last stream
\* named never goes up (Processor.GoAwayErr, runHandler).
GoAwayKept == [][Admission!GoAwayStep]_admitVars

\* Every request is served, reset, or ended with its connection (Processor).
Answered == part = "admission" => Admission!Answered

\* Every submitted handler starts (h2WorkerPool).
Started == part = "pool" => AllStarted
=============================================================================
