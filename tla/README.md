# Verification of celeris

TLA+ specifications of goceleris/celeris: an HTTP engine for Go with io_uring,
epoll and net/http backends and an adaptive engine that switches between them,
an HTTP/2 stack, middleware, and database drivers that run on event loops.
TLC checks the modules on small instances; TLAPS proves part of what they say
for all values of the constants. `PROJECT.json` maps every definition to the
lines it models and lists the hazards, by line, that the properties are about.

What is here covers the concurrent core of five subsystems. It is a small part
of the code, about one line in twenty: most of the repository (engines, HTTP/1, middleware, two of the
three drivers) is in the plan at the end and not modelled yet.

## The system

| Part | State | Operations | What makes it hard |
|---|---|---|---|
| Driver pool (`driver/internal/async`) | closed flag, semaphore, idle list per worker, open count | Acquire, Release, Discard, Close, health sweep | idle lists are locked one by one, the flag and semaphore by none of these locks |
| Driver event loop (`driver/internal/eventloop`) | conns by number, epoll set, read queue, pending writes | RegisterConn, UnregisterConn, Write, WriteAndPoll*, run, shutdown | edge-triggered events, two readers, descriptor numbers that are reused |
| Redis connection (`driver/redis`) | bridge of requests, sync pipeline slice, closed, recycled requests | exec, pipelines, transactions, onRecv, onClose, Close | replies are matched by position while caller and loop take turns at reading |
| Postgres, memcached, redis cluster/sentinel/pub-sub | request queues, topology | queries, cancel, failover | not modelled |
| HTTP/2 streams (`internal/protocol/h2/stream`) | stream table, recycled objects, counters, buffers | open, handle, flush, reset, expire, Close | a pool handler, the loop and a deadline all end a stream |
| HTTP/2 flow control | send windows, waiters, buffered bodies | reserve, refund, WINDOW_UPDATE, SETTINGS | wakeups and refunds cross reservations in progress |
| HTTP/2 admission | header block, reset memory, GOAWAY | HEADERS, CONTINUATION, DATA, RST_STREAM, expiry | frames in flight cross resets and GOAWAY |
| HTTP/2 write queue, worker pool, stream context | shards and a wake descriptor; credits; an atomic state word | Enqueue/DrainTo; Submit/run; Done/cancel | one atomic operation per step |
| Adaptive engine (`internal/adaptive`) | active engine, freezes, switch ring, sub-engines | evaluate, performSwitch, FreezeSwitching, driver registration, Listen, Shutdown | decisions under one lock, carried out under another; overlapping shutdowns |
| epoll, io_uring, net/http engines | connections, rings, buffers | accept, read, write, detach, transplant | not modelled |
| HTTP/1, router, context, server, middleware | | | not modelled |

The server hands a listener to an engine; the adaptive engine owns two and moves
the port and, through the driver pool's registrations, driver descriptors
between them. An engine's loop feeds bytes to `internal/conn`, which runs the
HTTP/2 processor; its handlers run on the worker pool and write through the
write queue back to the loop. Drivers take a connection from the pool, enqueue
requests in the bridge, and are called back by the engine's or their own loop.

## Modules

| Module | Models | A step is |
|---|---|---|
| `AsyncPool` | `pool.go`, `health.go` | a lock section or channel operation |
| `DriverLoop` | the Linux worker, `loop_linux.go` | a critical section; a system call made under a lock is apart from the check before it |
| `RedisConn` | `conn.go`, `state.go`, `pipeline.go`, `tx.go`, `pool.go`, `bridge.go` | a critical section, or one reply's match or delivery |
| `H2Streams` | stream table and object lifetime | a lock section of manager, processor, handler |
| `H2SendWindow` | send windows and waiters | a lock section or channel operation |
| `H2Admission`, `ResetSet` | frame handlers against a client that keeps the rules | one frame, one deadline |
| `ServerResets` | the bit ring behind `ResetSet` | one mark or clear |
| `H2WriteQueue`, `H2WorkerPool`, `StreamCtx` | the three lock-free helpers | one atomic operation |
| `AdaptiveSwitch` | switching, freezes, driver registration | a lock section |
| `AdaptiveShutdown` | Listen, standby builds, Shutdown | a lock section or channel operation |
| `AdaptiveController` | evaluate and recordSwitch | one tick |

`MC*` modules instantiate these. `MCH2Parts` and `MCUnits` check several
components that share no state side by side: the initial state picks one, the
others stay as they are. A behaviour is therefore one of one component, and the
result is the same as of separate runs; nothing is composed there.

External parts, modelled from how the code uses them: epoll and sockets in
`DriverLoop`, the redis server, the HTTP/2 client. The
epoll model is edge-triggered, re-reports on `EPOLL_CTL_MOD`, and drops a ready
entry that no longer matches its mask.

## Runs

| Run | Instance | Shows |
|---|---|---|
| `async_pool` | 3 clients, 2 connections, 2 workers, MaxOpen 1 | types; slots and owners correspond; every connection has one holder; an Acquire that waits returns |
| `h2_streams` | 3 requests, 2 objects, a limit of 1, room for 1 placeholder | no object used after release or lost; counters exact; handlers give all back after Close |
| `h2_window` | 2 writers, windows 1 and 2, a SETTINGS change below zero | credit conserved; no lost wakeup; nothing stays buffered with windows open; all delivered |
| `h2_parts` | pool: 4 tasks, 2 workers; queue: 2 streams, 2 shards, 2 frames; admission: 2 requests, window 1 | `WorkerForEach`, `Started`; `StreamOrder`, `NoWriteAfterClose`, `NoStrandedFrame`; `GoodClientKept`, `GoAwayKept`, `Answered` |
| `adaptive_switch` | 1 eval loop, 1 force caller, 2 drivers, 2 loops | no driver stranded; freeze exact; rest states; no ping-pong; port served |
| `adaptive_shutdown` | 2 callers, 1 build | nil means all joined; budget before stop; a retry keeps its budget; comes to rest |
| `units` | controller; ring of 4 bits, ids to 22; context with 2 users; loop with 2 registrations of a number, budget 1 | `NoThrash`; `RingIsSet`; `DoneAgrees`, `CancelReaches`; `NothingStranded`, `OwnSocketOnly`, `NextOwnerKept`, `ClosedOnce` |
| `redis_conn` | 2 operations, 2 commands each, 3 pooled requests | `ReplyMatches`, `NoStranded`, `PoolKept` |
| four violation runs | | see Findings |

Bounds. Two of each actor is what the races need: one that holds or has read
something, one that changes it. The pool has one slot and a third client so
that two wait while the holder fails or returns. The loop has two registrations because the hazard
is the number's next owner, two chunks with a budget of one so that a turn is
left over, and one call, on the first registration only. Before the failing
EPOLL_CTL_ADD was modelled, two calls on the first were checked to the end as
well; one call on each was not: TLC was stopped after ten minutes and 15 million
states, with no violation among them. Calls on the number's second owner are
therefore not covered. The ring sees eleven odd identifiers with a window of
four, so that every word is used more than twice.

`h2_streams` has three identifiers and a limit of one so that a request is
refused at the limit, with and without a placeholder of its own, and a full list
of placeholders holds one that a later request has passed.

`redis_conn` has one caller; the objects of the request pool are symmetric. Its
commands reach the socket one by one, so that a write can end, fail or be left
to the worker after any of them. Two known faults are kept out of its
properties, each by a history variable, and each is a finding of its own:
`missed` (a drain ran while a pipeline was in syncPipeReqs) excuses a caller that
waits for ever and the replies of that pipeline, which are counted one off once
the reader has dropped a malformed one; `late` (a slab request was filled for an
operation that had returned) excuses the replies of the pipeline it belongs to
now.

`PortServed` is excused once `ForceSwitch` was called, which does not wait for
the previous switch to settle, and once a switch went on without having seen the
incoming listener: the kernel's list could not be had, or the wait ran into its
bound. A loop that cannot open its socket again ends.

Deadlock is not checked where behaviours end at a bound or at a Close.

Fairness. Weak fairness on each goroutine's steps once it has begun (the Go
scheduler runs what is runnable); strong fairness where it waits for a mutex or
channel that others keep taking (`sync.Mutex` hands over to a starved waiter,
channels are FIFO). `h2_window` also assumes a peer that keeps sending its
WINDOW_UPDATEs, without which no response need finish; `async_pool` that callers
give back what they acquired; `adaptive_shutdown` that the server in the end
cancels the context it gave Listen, and that a cancelled sub-engine's Listen
returns. Nobody is assumed to start a call or a close. `CancelReaches`, `NothingStranded`, `NoLostWakeup`,
`NoStrandedBuffer` and `NoStranded` are wakeup properties stated as invariants:
whoever waits has somebody on the way. They need no fairness, and do not by
themselves say that the one on the way arrives.

## Proofs

All hold for every value of the constants that meets the named assumptions of
the module: for `AsyncPool` and `AdaptiveSwitch` those only give the constants
their types (and finite sets of drivers), for `H2WorkerPool` also
`Cardinality(Workers) <= QueueCap`, which is how the code sizes its queue.

- `AsyncPoolProofs`: `TypeCorrect`, `SemAccountingHolds`, `InUseBoundHolds`,
  from `IInv`: types, a client past the dial has a connection, the sweep has
  work while it inspects, and the semaphore holds exactly one token per client
  that owes one. `SemAccounting` alone is not inductive: a step's effect on the
  set of owners depends on where the client is.
- `H2WorkerPoolProofs`: `CreditHolds`, `WorkerForEachHolds`, `NeverFullHolds`.
  The counter equals parked workers less tasks queued or claimed; with
  `|Workers| <= QueueCap` a claimed task finds room, so the branch of Submit the
  code calls unreachable is.
- `AdaptiveSwitchProofs`: `DriverOnActiveHolds`, `FrozenExactHolds`,
  `NoPingPongHolds`, from an invariant in five groups: locks, counts, pins,
  freezes, drains. The counts are needed because the switch reads `driverFDs`,
  not the set of drivers it stands for.

Only model-checked: everything else. Liveness and ENABLED are outside TLAPS;
what recursive definitions compute needs induction with an operator parameter,
which the installed provers cannot instantiate.

## Findings

1. `pool_closed_leak` (bug): a Release that read closed = false before Close
   parks its connection after Close has drained the lists.
2. `adaptive_freeze` (doc): a switch decided before FreezeSwitching returns is
   committed after it.
3. `redis_pipeline_drain` (bug): a drain of a polled connection, after a reply
   that cannot be parsed or a failed write of the worker's, does not see a
   pipeline's requests in syncPipeReqs; they enter the bridge after it and their
   caller waits until its context ends.
4. `redis_pipeline_reuse` (doc): closeWithErr promises that a request released
   after it is not written to. It waits for drains, the case its comment names,
   and not for a dispatch that already holds a slab request: that one can be
   written after Exec returned.

Seen while reading, not checked: Pipeline.Exec that fails gives neither its
connection nor its pool slot back, and truncates the commands, so that handles report ErrClosed although Exec's comment promises
per-command errors; Tx.Discard's comment says DISCARD is sent and nothing is,
and WATCH state stays on the pooled connection; exec2 and exec3 write without
the second look at closed that exec takes; MaxOpen bounds connections in use,
not open ones.

## Not modelled

`PROJECT.json` lists every part with its reason. Within modelled parts: redis
handshake, WATCH, push messages and a poll that panics; HTTP/2 flood counters, size limits and
HPACK; a SETTINGS frame that is refused after part of its flush, and a reset whose
own frame cannot be written (the connection ends after both, and Close collects
the streams); the dropping of frames queued behind a refused write; the controller's sampling arithmetic. Type invariants of modules other
than `AsyncPool` are in no run; that of `H2WorkerPool` is part of its proof.

## Plan

1. Engines: io_uring descriptor lifetime and zero-copy pins; the epoll loop's
   detach, close and transplant.
2. Drivers: postgres requests and cancel, memcached, redis pub/sub, cluster and
   sentinel; `DriverLoop` composed with `RedisConn` in place of the loop that
   `RedisConn` abstracts, and shown to implement it.
3. HTTP/1: pipelined requests, body backlog, upgrade.
4. Server start and shutdown over `AdaptiveShutdown`; router against a
   reference matcher.
5. Middleware: websocket hub, SSE broker, session, rate limit, cache,
   single-flight, idempotency, circuit breaker, timeout.
6. An abstract pool and an abstract request/reply channel, with `AsyncPool` and
   `RedisConn` as refinements; `ServerResets` as a refinement of `ResetSet`.
7. Theorems next: `NoUseAfterRelease` and `NoLostObject` of `H2Streams`,
   `CreditConserved` and `NoLostWakeup` of `H2SendWindow`, `OwnSocketOnly` and
   `ClosedOnce` of `DriverLoop`, `ReplyMatches` of `RedisConn`, `JoinedAll` of
   `AdaptiveShutdown`.
