------------------------------ MODULE H2Streams ------------------------------
(***************************************************************************)
(* Ownership of the stream objects of one HTTP/2 connection:               *)
(* internal/protocol/h2/stream (manager.go, processor.go, stream.go,       *)
(* outbound.go, write_deadline.go).                                        *)
(*                                                                         *)
(* Two kinds of goroutines share the objects.  The connection's loop reads *)
(* frames and sweeps deadlines; nothing else runs on it meanwhile.  Each   *)
(* request whose handler does not run inline has a worker-pool goroutine.  *)
(* Objects come from and go back to a sync.Pool, so one that is released   *)
(* while its handler still runs, or twice, ends up serving two requests.   *)
(*                                                                         *)
(* A section under Manager.mu or Stream.mu is one step, and a pool handler *)
(* gives up control between two of them.  Bytes are counted in units; how  *)
(* much a flush may send is a free choice (H2SendWindow has the windows).  *)
(* What a handler computes is a free choice among the ways it can end.     *)
(***************************************************************************)
EXTENDS Integers, FiniteSets, FiniteSetsExt

CONSTANTS
  Ids,              \* client stream ids, odd
  Objs,             \* stream objects
  None,             \* nil
  MaxStreams,       \* Manager.maxStreams
  MaxPlaceholders,  \* maxPriorityPlaceholders
  MaxBody,          \* bound: units a handler leaves to the flow-control buffer
  OutboundBudget    \* OutboundBudget, in the same units

ASSUME StreamsAssumption ==
  /\ Ids \subseteq Nat \ {0}
  /\ None \notin Objs
  /\ MaxStreams \in Nat /\ MaxPlaceholders \in Nat /\ MaxBody \in Nat
  /\ OutboundBudget \in Nat

VARIABLES
  obj,            \* the fields of each object
  pooled,         \* how often each object is in streamPool
  streams,        \* Manager.streams
  lastClient,     \* lastClientStream
  activeStreams,
  requestOpen,
  placeholderIDs,
  outboundHeld,
  retired,
  closed,
  cleanup,        \* Processor.pendingInlineCleanup
  lpc, lobj, lid, \* the loop: where it is, the stream and id it is finishing
  todo,           \* streams it is still to flush
  ended,          \* ids whose last buffered byte a SETTINGS flush sent
  hpc,            \* where the pool handler of each object is
  hrest           \* the units it is about to buffer

managerVars == <<streams, lastClient, activeStreams, requestOpen, placeholderIDs, retired, closed>>
loopVars    == <<lpc, lobj, lid, todo, ended>>
handlerVars == <<hpc, hrest>>
vars        == <<obj, pooled, managerVars, outboundHeld, cleanup, loopVars, handlerVars>>

Active   == {"Open", "HalfClosedLocal", "HalfClosedRemote"}
Requests == {"Open", "HalfClosedLocal"}
States   == Active \cup {"Idle", "Closed"}

\* resetLocked.
Blank == [id |-> 0, state |-> "Idle", async |-> FALSE, budgetPool |-> FALSE,
          placeholder |-> FALSE, cancelled |-> FALSE, buf |-> 0, end |-> FALSE,
          abandoned |-> FALSE]

Init ==
  /\ obj = [o \in Objs |-> Blank]
  /\ pooled = [o \in Objs |-> 1]
  /\ streams = [i \in Ids |-> None]
  /\ lastClient = 0
  /\ activeStreams = 0
  /\ requestOpen = 0
  /\ placeholderIDs = {}
  /\ outboundHeld = 0
  /\ retired = {}
  /\ closed = FALSE
  /\ cleanup = {}
  /\ lpc = "ready" /\ lobj = None /\ lid = 0
  /\ todo = {}
  /\ ended = {}
  /\ hpc = [o \in Objs |-> "none"]
  /\ hrest = [o \in Objs |-> 0]

-----------------------------------------------------------------------------
(* Counters. *)

\* lowerCount: a counter is never taken below zero.
Lowered(c, n) == IF c < n THEN 0 ELSE c - n

Recount(c, S, prev, next) ==
  IF (prev \in S) = (next \in S) THEN c
  ELSE IF next \in S THEN c + 1 ELSE Lowered(c, 1)

\* Mutant: only activeStreams follows the state.
UpdateActiveCountOnly(prev, next) ==
  /\ activeStreams' = Recount(activeStreams, Active, prev, next)
  /\ UNCHANGED requestOpen

\* updateActiveCount, called with the state that a swap found.
UpdateActiveCount(prev, next) ==
  /\ activeStreams' = Recount(activeStreams, Active, prev, next)
  /\ requestOpen' = Recount(requestOpen, Requests, prev, next)

-----------------------------------------------------------------------------
(* Objects leaving the manager. *)

\* What a stream has buffered, over a set of objects.
Held(S) == MapThenSumSet(LAMBDA o : obj[o].buf, S)

\* Mutants: the handler's claim is not looked at; a stream with bytes pending is
\* not released.
ReleasedAlways(S) == S
ReleasedIfSent(S) == {o \in S : ~obj[o].async /\ obj[o].buf = 0}

\* The taker releases a stream's object unless a pool handler owns it.
Released(S) == {o \in S : ~obj[o].async}

\* Stream.Release: reset, what it has buffered refunded, back to the pool.
Release(S) ==
  /\ pooled' = [o \in Objs |-> IF o \in S THEN pooled[o] + 1 ELSE pooled[o]]
  /\ outboundHeld' = outboundHeld - Held(S)

\* dropPlaceholderLocked, over the ids taken.
DropPlaceholders(I) ==
  placeholderIDs \ {i \in I : streams[i] # None /\ obj[streams[i]].placeholder}

\* Cancel, takeLocked and afterTake for the streams with ids in I.
TakeStreams(I, cancel) ==
  LET S == {streams[i] : i \in I} \ {None} IN
  /\ streams' = [i \in Ids |-> IF i \in I THEN None ELSE streams[i]]
  /\ activeStreams' = Lowered(activeStreams, Cardinality({o \in S : obj[o].state \in Active}))
  /\ requestOpen' = Lowered(requestOpen, Cardinality({o \in S : obj[o].state \in Requests}))
  /\ placeholderIDs' = DropPlaceholders(I)
  /\ obj' = [o \in Objs |->
               IF o \in Released(S) THEN Blank
               ELSE IF o \in S THEN [obj[o] EXCEPT !.state = "Closed", !.cancelled = @ \/ cancel]
               ELSE obj[o]]
  /\ Release(Released(S))
  /\ UNCHANGED <<lastClient, retired, closed>>

-----------------------------------------------------------------------------
(* The loop: streams opened by HEADERS and PRIORITY. *)

LoopReady == lpc = "ready"

\* NewStream, then the fields its caller sets.
NewStream(id, state, placeholder) ==
  [Blank EXCEPT !.id = id, !.state = state, !.placeholder = placeholder]

\* admitHeaders for an id above every one seen.  At the limit refuseStream
\* resets it, a placeholder of that id included; otherwise TryOpenStream has a
\* fresh object take the placeholder's place.  (A refusal that fails is a
\* connection error, which Close follows.)
TryOpenStream(id) ==
  LET replaced == {streams[id]} \ {None} IN
  /\ LoopReady /\ id > lastClient
  /\ lastClient' = id
  /\ placeholderIDs' = DropPlaceholders({id})
  /\ \/ /\ activeStreams >= MaxStreams
        /\ obj' = [x \in Objs |-> IF x \in replaced THEN Blank ELSE obj[x]]
        /\ pooled' = [x \in Objs |-> IF x \in replaced THEN pooled[x] + 1 ELSE pooled[x]]
        /\ streams' = [streams EXCEPT ![id] = None]
        /\ UNCHANGED <<activeStreams, requestOpen>>
     \/ \E o \in Objs :
          /\ activeStreams < MaxStreams /\ pooled[o] > 0
          /\ obj' = [x \in Objs |-> IF x = o THEN NewStream(id, "Open", FALSE)
                                    ELSE IF x \in replaced THEN Blank ELSE obj[x]]
          /\ pooled' = [x \in Objs |-> IF x = o THEN pooled[x] - 1
                                       ELSE IF x \in replaced THEN pooled[x] + 1 ELSE pooled[x]]
          /\ streams' = [streams EXCEPT ![id] = o]
          /\ activeStreams' = activeStreams + 1
          /\ requestOpen' = requestOpen + 1
  /\ UNCHANGED <<outboundHeld, retired, closed, cleanup, loopVars, handlerVars>>

\* reapPassedPlaceholdersLocked: the ones a later HEADERS has gone past.
Passed == {i \in placeholderIDs : i <= lastClient}
Reaped == IF Cardinality(placeholderIDs) < MaxPlaceholders THEN {} ELSE Passed

\* handlePriority and CreatePlaceholder for an idle stream.
CreatePlaceholder(id) ==
  LET kept == placeholderIDs \ Reaped
      dropped == {streams[i] : i \in Reaped} \ {None} IN
  /\ LoopReady /\ id > lastClient /\ streams[id] = None
  /\ Cardinality(kept) < MaxPlaceholders
  /\ \E o \in Objs :
       /\ pooled[o] > 0
       /\ obj' = [x \in Objs |-> IF x = o THEN NewStream(id, "Idle", TRUE)
                                 ELSE IF x \in dropped THEN Blank ELSE obj[x]]
       /\ pooled' = [x \in Objs |-> IF x = o THEN pooled[x] - 1
                                    ELSE IF x \in dropped THEN pooled[x] + 1 ELSE pooled[x]]
       /\ streams' = [i \in Ids |-> IF i = id THEN o ELSE IF i \in Reaped THEN None ELSE streams[i]]
  /\ placeholderIDs' = kept \cup {id}
  /\ UNCHANGED <<lastClient, activeStreams, requestOpen, retired, closed,
                 outboundHeld, cleanup, loopVars, handlerVars>>

-----------------------------------------------------------------------------
(* The loop: the end of a request runs its handler. *)

\* The state a response's last byte leaves a stream in.
AfterResponse(state) ==
  CASE state = "HalfClosedRemote" -> "Closed"
    [] state = "Open" -> "HalfClosedLocal"
    [] OTHER -> state

\* Stream.SetState.
SetState(o, state) ==
  /\ obj' = [obj EXCEPT ![o].state = state]
  /\ UpdateActiveCount(obj[o].state, state)

\* RemoveStreamFromMap and Release by the loop's own handler run.
DropInline(id, o, state) ==
  /\ UpdateActiveCount(state, "Closed")
  /\ obj' = [obj EXCEPT ![o] = Blank]
  /\ streams' = [streams EXCEPT ![id] = None]
  /\ Release({o})

OverOutboundBudget == outboundHeld >= OutboundBudget

\* executeHandlerInline, run to its end on the loop: the response is out and
\* the stream is released now (also after a reset or a failure), or with the
\* batch when more frames are waiting, or what the windows refused is
\* buffered and the stream stays for the flushes to finish.
RunInline(id) ==
  LET o == streams[id] IN
  /\ LoopReady /\ o # None /\ obj[o].state = "Open" /\ ~OverOutboundBudget
  /\ \/ /\ DropInline(id, o, "Open")
        /\ UNCHANGED cleanup
     \/ /\ SetState(o, AfterResponse("HalfClosedRemote"))
        /\ cleanup' = cleanup \cup {<<o, id>>}
        /\ UNCHANGED <<pooled, outboundHeld, streams>>
     \/ \E n \in 1..MaxBody, end \in BOOLEAN :
          /\ obj' = [obj EXCEPT ![o].state = "HalfClosedRemote", ![o].buf = n,
                                ![o].end = end, ![o].abandoned = ~end]
          /\ UpdateActiveCount("Open", "HalfClosedRemote")
          /\ outboundHeld' = outboundHeld + n
          /\ UNCHANGED <<pooled, streams, cleanup>>
  /\ UNCHANGED <<lastClient, placeholderIDs, retired, closed, loopVars, handlerVars>>

\* runHandler's other branch: an asynchronous route, or one that could have
\* run inline were the connection not over its buffering budget.
SubmitHandler(id) ==
  LET o == streams[id] IN
  /\ LoopReady /\ o # None /\ obj[o].state = "Open"
  /\ \E budget \in BOOLEAN :
       /\ budget => OverOutboundBudget
       /\ obj' = [obj EXCEPT ![o].state = "HalfClosedRemote", ![o].async = TRUE,
                             ![o].budgetPool = budget]
  /\ UpdateActiveCount("Open", "HalfClosedRemote")
  /\ hpc' = [hpc EXCEPT ![o] = "run"]
  /\ UNCHANGED <<pooled, streams, lastClient, placeholderIDs, retired, closed, outboundHeld,
                 cleanup, loopVars, hrest>>

-----------------------------------------------------------------------------
(* The loop: streams ended by frames, deadlines and the end of a batch. *)

\* handleRSTStream (resetStream), or the server's own reset of a stream
\* (sendRSTStreamAndMarkClosed, ExpireRequest).
ResetStream(id) ==
  /\ LoopReady /\ streams[id] # None
  /\ TakeStreams({id}, TRUE)
  /\ UNCHANGED <<cleanup, loopVars, handlerVars>>

\* handleGoAway: the peer will not look at the streams above last.
GoAway(last) ==
  LET I == {i \in Ids : i > last /\ streams[i] # None} IN
  /\ LoopReady /\ I # {}
  /\ TakeStreams(I, TRUE)
  /\ UNCHANGED <<cleanup, loopVars, handlerVars>>

\* expireWrite: the buffered response made no progress.  A taken stream that
\* a handler still owns has lost its buffer already.
ExpireWrite(id) ==
  LET o == streams[id] IN
  /\ LoopReady /\ o # None /\ obj[o].buf > 0
  /\ streams' = [streams EXCEPT ![id] = None]
  /\ placeholderIDs' = DropPlaceholders({id})
  /\ UpdateActiveCount(obj[o].state, "Closed")
  /\ outboundHeld' = outboundHeld - obj[o].buf
  /\ IF obj[o].async
     THEN /\ obj' = [obj EXCEPT ![o].state = "Closed", ![o].cancelled = TRUE, ![o].buf = 0,
                                ![o].end = FALSE, ![o].abandoned = FALSE]
          /\ UNCHANGED pooled
     ELSE /\ obj' = [obj EXCEPT ![o] = Blank]
          /\ pooled' = [pooled EXCEPT ![o] = @ + 1]
  /\ UNCHANGED <<lastClient, retired, closed, cleanup, loopVars, handlerVars>>

\* FlushInlineCleanup skips a stream that another path has taken since.
Unclaimed(e) == streams[e[2]] = e[1]

\* FlushInlineCleanup with drainRetired, at the end of a batch.
FlushInlineCleanup ==
  LET mine == {e \in cleanup : Unclaimed(e)}
      gone == {e[1] : e \in mine} \cup retired IN
  /\ LoopReady /\ cleanup \cup retired # {}
  /\ streams' = [i \in Ids |-> IF \E e \in mine : e[2] = i THEN None ELSE streams[i]]
  /\ obj' = [o \in Objs |-> IF o \in gone THEN Blank ELSE obj[o]]
  /\ Release(gone)
  /\ activeStreams' = Lowered(activeStreams,
                              Cardinality({e \in mine : obj[e[1]].state = "HalfClosedRemote"}))
  /\ cleanup' = {}
  /\ retired' = {}
  /\ UNCHANGED <<lastClient, requestOpen, placeholderIDs, closed, loopVars, handlerVars>>

-----------------------------------------------------------------------------
(* The loop: flushing what the peer's window had held back. *)

\* FlushOutbound sends n units under the stream's lock.
Sent(o, n) == [obj[o] EXCEPT !.buf = @ - n]
Finishes(o, n) == n > 0 /\ n = obj[o].buf /\ (obj[o].end \/ obj[o].abandoned)

\* handleWindowUpdate for one stream, or for the connection, whose
\* candidates are the open streams at that moment.
WindowUpdate ==
  /\ LoopReady
  /\ LET open == {streams[i] : i \in Ids} \ {None} IN
     \E S \in {{o} : o \in open} \cup {open} :
       todo' = {o \in S : obj[o].state # "Closed"}
  /\ todo' # {}
  /\ lpc' = "flush"
  /\ UNCHANGED <<obj, pooled, managerVars, outboundHeld, cleanup, lobj, lid, ended, handlerVars>>

\* Where the loop goes when it is done with one stream.
LoopNext(streamsLeft, idsLeft) ==
  IF streamsLeft # {} THEN "flush" ELSE IF idsLeft # {} THEN "settle" ELSE "ready"

\* One candidate: skipped if closed since; otherwise flushed, and finished in
\* two more steps when its last byte went out.
FlushNext ==
  /\ lpc = "flush"
  /\ \E o \in todo :
       /\ todo' = todo \ {o}
       /\ \/ /\ obj[o].state = "Closed"
             /\ lpc' = LoopNext(todo', {})
             /\ UNCHANGED <<obj, outboundHeld, lobj, lid>>
          \/ /\ obj[o].state # "Closed"
             /\ \E n \in 0..obj[o].buf :
                  /\ obj' = [obj EXCEPT ![o] = Sent(o, n)]
                  /\ outboundHeld' = outboundHeld - n
                  /\ IF Finishes(o, n)
                     THEN lpc' = "close" /\ lobj' = o /\ lid' = obj[o].id
                     ELSE lpc' = LoopNext(todo', {}) /\ UNCHANGED <<lobj, lid>>
  /\ UNCHANGED <<pooled, managerVars, cleanup, ended, handlerVars>>

\* handleSettings: a larger initial window flushes every stream under
\* Manager.mu; the streams are finished by id once the ACK is out.
SettingsFlush ==
  LET S == {streams[i] : i \in Ids} \ {None} IN
  /\ LoopReady
  /\ \E n \in [S -> 0..MaxBody] :
       /\ \A o \in S : n[o] <= obj[o].buf
       /\ \E o \in S : n[o] > 0
       /\ obj' = [o \in Objs |-> IF o \in S THEN Sent(o, n[o]) ELSE obj[o]]
       /\ outboundHeld' = outboundHeld - MapThenSumSet(LAMBDA o : n[o], S)
       /\ ended' = {obj[o].id : o \in {x \in S : Finishes(x, n[x])}}
  /\ lpc' = LoopNext({}, ended')
  /\ UNCHANGED <<pooled, managerVars, cleanup, lobj, lid, todo, handlerVars>>

\* The streams a SETTINGS flush finished, one at a time.
SettleNext ==
  /\ lpc = "settle"
  /\ \E i \in ended :
       /\ ended' = ended \ {i}
       /\ IF streams[i] = None
          THEN lpc' = LoopNext({}, ended') /\ UNCHANGED <<lobj, lid>>
          ELSE lpc' = "close" /\ lobj' = streams[i] /\ lid' = i
  /\ UNCHANGED <<obj, pooled, managerVars, outboundHeld, cleanup, todo, handlerVars>>

\* SetState on the finished stream.  (The code may use the state it read
\* before the flush: the same one, or the handler has closed it since.)
FinishClose ==
  /\ lpc = "close"
  /\ SetState(lobj, AfterResponse(obj[lobj].state))
  /\ lpc' = "delete"
  /\ UNCHANGED <<pooled, streams, lastClient, placeholderIDs, retired, closed, outboundHeld, cleanup,
                 lobj, lid, todo, ended, handlerVars>>

\* DeleteStream of its id, which the handler may have removed meanwhile.
FinishDelete ==
  /\ lpc = "delete"
  /\ TakeStreams({lid}, FALSE)
  /\ lpc' = LoopNext(todo, ended)
  /\ lobj' = None /\ lid' = 0
  /\ UNCHANGED <<cleanup, todo, ended, handlerVars>>

-----------------------------------------------------------------------------
(* A pool handler: executeHandler, from the outside of HandleStream inwards. *)

HandlerGoes(o, from, to) == hpc[o] = from /\ hpc' = [hpc EXCEPT ![o] = to]

\* HandleStream ends with the whole response sent (and then returns, or
\* fails), or with an error, a panic or a Goexit before it; resetStreamOnce
\* has cancelled the stream if the handler reset it itself.
HandlerResponds(o) ==
  /\ \/ /\ HandlerGoes(o, "run", "returned") \/ HandlerGoes(o, "run", "leaving")
        /\ UNCHANGED obj
     \/ /\ HandlerGoes(o, "run", "failed")
        /\ \E reset \in BOOLEAN : obj' = [obj EXCEPT ![o].cancelled = @ \/ reset]
  /\ UNCHANGED <<pooled, managerVars, outboundHeld, cleanup, loopVars, hrest>>

\* TryBufferOutbound, first half: the rest of the response is charged to the
\* connection, unless that would take it past the budget.
HandlerCharges(o) ==
  /\ HandlerGoes(o, "run", "charged")
  /\ ~obj[o].budgetPool
  /\ \E n \in 1..MaxBody :
       /\ outboundHeld = 0 \/ outboundHeld + n <= OutboundBudget
       /\ outboundHeld' = outboundHeld + n
       /\ hrest' = [hrest EXCEPT ![o] = n]
  /\ UNCHANGED <<obj, pooled, managerVars, cleanup, loopVars>>

\* Second half: bufferOutbound, with the END_STREAM it is to carry.
HandlerBuffers(o) ==
  /\ HandlerGoes(o, "charged", "buffered")
  /\ obj' = [obj EXCEPT ![o].buf = @ + hrest[o], ![o].end = TRUE]
  /\ hrest' = [hrest EXCEPT ![o] = 0]
  /\ UNCHANGED <<pooled, managerVars, outboundHeld, cleanup, loopVars>>

\* finishBody flushes what the windows have room for by now.  The handler may
\* still fail after this; its response stands (outcomeSettled).
HandlerFlushes(o) ==
  /\ \/ HandlerGoes(o, "buffered", "returned")
     \/ HandlerGoes(o, "buffered", "leaving")
  /\ \E n \in 0..obj[o].buf :
       /\ obj' = [obj EXCEPT ![o] = Sent(o, n)]
       /\ outboundHeld' = outboundHeld - n
  /\ UNCHANGED <<pooled, managerVars, cleanup, loopVars, hrest>>

\* settleFailed: DiscardOutbound and a reset, unless the stream is cancelled.
SettleFailed(o) ==
  /\ HandlerGoes(o, "failed", "leaving")
  /\ IF obj[o].cancelled THEN UNCHANGED <<obj, outboundHeld>>
     ELSE /\ outboundHeld' = outboundHeld - obj[o].buf
          /\ obj' = [obj EXCEPT ![o].buf = 0, ![o].end = FALSE, ![o].abandoned = FALSE,
                                ![o].cancelled = TRUE]
  /\ UNCHANGED <<pooled, managerVars, cleanup, loopVars, hrest>>

\* After a normal return the stream's state moves on unless bytes are pending.
HandlerReturned(o) ==
  /\ HandlerGoes(o, "returned", "leaving")
  /\ IF obj[o].state \in {"Open", "HalfClosedRemote"} /\ obj[o].buf = 0
     THEN SetState(o, AfterResponse(obj[o].state))
     ELSE UNCHANGED <<obj, activeStreams, requestOpen>>
  /\ UNCHANGED <<pooled, streams, lastClient, placeholderIDs, retired, closed, outboundHeld, cleanup,
                 loopVars, hrest>>

\* The deferred function reads, under the stream's lock, whether bytes are
\* pending ...
HandlerLeaves(o) ==
  /\ \/ HandlerGoes(o, "leaving", "handoff") /\ obj[o].buf > 0
     \/ HandlerGoes(o, "leaving", "closing") /\ obj[o].buf = 0
  /\ UNCHANGED <<obj, pooled, managerVars, outboundHeld, cleanup, loopVars, hrest>>

\* ... handOffBuffered leaves them to the loop if the map still has the
\* stream.  From here the loop alone may release it.
HandOffBuffered(o) ==
  /\ \/ /\ HandlerGoes(o, "handoff", "none")
        /\ obj[o].id \in Ids /\ streams[obj[o].id] = o
        /\ obj' = [obj EXCEPT ![o].async = FALSE]
     \/ /\ HandlerGoes(o, "handoff", "closing")
        /\ ~(obj[o].id \in Ids /\ streams[obj[o].id] = o)
        /\ UNCHANGED obj
  /\ UNCHANGED <<pooled, managerVars, outboundHeld, cleanup, loopVars, hrest>>

\* The deferred SetState(StateClosed).
HandlerCloses(o) ==
  /\ HandlerGoes(o, "closing", "retire")
  /\ SetState(o, "Closed")
  /\ UNCHANGED <<pooled, streams, lastClient, placeholderIDs, retired, closed, outboundHeld, cleanup,
                 loopVars, hrest>>

\* retire, under the stream's lock: the buffer is refunded and dropped.
RetireBuffer(o) ==
  /\ HandlerGoes(o, "retire", "retiring")
  /\ outboundHeld' = outboundHeld - obj[o].buf
  /\ obj' = [obj EXCEPT ![o].buf = 0, ![o].cancelled = TRUE]
  /\ UNCHANGED <<pooled, managerVars, cleanup, loopVars, hrest>>

\* Mutant: a closed manager's retired list still gets the stream.
NeverLeftToHandler == FALSE

\* The loop of a closed manager drains no list.
LeftToHandler == closed

\* retire, under Manager.mu: out of the map if still there, and left to the
\* loop's drain, or to this handler when the manager is closed.
Retire(o) ==
  /\ HandlerGoes(o, "retiring", IF LeftToHandler THEN "release" ELSE "none")
  /\ streams' = [i \in Ids |-> IF streams[i] = o THEN None ELSE streams[i]]
  /\ retired' = IF LeftToHandler THEN retired ELSE retired \cup {o}
  /\ UNCHANGED <<obj, pooled, lastClient, activeStreams, requestOpen, placeholderIDs, closed,
                 outboundHeld, cleanup, loopVars, hrest>>

\* retire after the manager closed: the last reference is this handler's.
HandlerReleases(o) ==
  /\ HandlerGoes(o, "release", "none")
  /\ obj' = [obj EXCEPT ![o] = Blank]
  /\ Release({o})
  /\ UNCHANGED <<managerVars, cleanup, loopVars, hrest>>

-----------------------------------------------------------------------------
\* Manager.Close, when the connection goes: the loop's last step.
Close ==
  LET S == {streams[i] : i \in Ids} \ {None}
      gone == Released(S) \cup retired IN
  /\ LoopReady
  /\ closed' = TRUE /\ lpc' = "closed"
  /\ streams' = [i \in Ids |-> None]
  /\ retired' = {} /\ placeholderIDs' = {} /\ cleanup' = {}
  /\ obj' = [o \in Objs |-> IF o \in gone THEN Blank
                            ELSE IF o \in S THEN [obj[o] EXCEPT !.cancelled = TRUE] ELSE obj[o]]
  /\ Release(gone)
  /\ UNCHANGED <<lastClient, activeStreams, requestOpen, lobj, lid, todo, ended, handlerVars>>

Handler(o) ==
  \/ HandlerResponds(o) \/ HandlerCharges(o) \/ HandlerBuffers(o) \/ HandlerFlushes(o)
  \/ SettleFailed(o) \/ HandlerReturned(o) \/ HandlerLeaves(o) \/ HandOffBuffered(o)
  \/ HandlerCloses(o) \/ RetireBuffer(o) \/ Retire(o) \/ HandlerReleases(o)

Loop ==
  \/ \E id \in Ids : \/ TryOpenStream(id) \/ CreatePlaceholder(id)
                      \/ RunInline(id) \/ SubmitHandler(id)
                      \/ ResetStream(id) \/ ExpireWrite(id)
  \/ \E last \in Ids \cup {0} : GoAway(last)
  \/ FlushInlineCleanup \/ WindowUpdate \/ FlushNext \/ SettingsFlush \/ SettleNext
  \/ FinishClose \/ FinishDelete \/ Close

Next == Loop \/ \E o \in Objs : Handler(o)

Spec == Init /\ [][Next]_vars

\* A pool handler that runs ends: HandleStream returns, and nothing after it
\* waits for anyone.
FairSpec == Spec /\ \A o \in Objs : WF_vars(Handler(o))

-----------------------------------------------------------------------------
(* Properties. *)

HandlerStates == {"none", "run", "charged", "buffered", "failed", "returned", "leaving", "handoff",
                  "closing", "retire", "retiring", "release"}
LoopStates == {"ready", "flush", "settle", "close", "delete", "closed"}

ObjType == [id : Ids \cup {0}, state : States, async : BOOLEAN, budgetPool : BOOLEAN,
            placeholder : BOOLEAN, cancelled : BOOLEAN, buf : Nat, end : BOOLEAN, abandoned : BOOLEAN]

\* Every variable has its type.
TypeOK ==
  /\ obj \in [Objs -> ObjType]
  /\ pooled \in [Objs -> Nat]
  /\ streams \in [Ids -> Objs \cup {None}]
  /\ lastClient \in Ids \cup {0}
  /\ activeStreams \in Nat /\ requestOpen \in Nat
  /\ placeholderIDs \in SUBSET Ids
  /\ outboundHeld \in Int
  /\ retired \in SUBSET Objs
  /\ closed \in BOOLEAN
  /\ cleanup \in SUBSET (Objs \X Ids)
  /\ lpc \in LoopStates
  /\ lobj \in Objs \cup {None} /\ lid \in Ids \cup {0}
  /\ todo \in SUBSET Objs /\ ended \in SUBSET Ids
  /\ hpc \in [Objs -> HandlerStates]
  /\ hrest \in [Objs -> Nat]

InMap(o) == \E i \in Ids : streams[i] = o

\* An object in the pool is in it once, and nobody holds it: no map entry,
\* handler, retired list or loop step.  (The rule of takeLocked, retire and
\* handOffBuffered about who calls Release, with a handler, a peer reset, a
\* flush and a deadline ending the same stream at the same time.)
NoUseAfterRelease ==
  \A o \in Objs : pooled[o] > 0 =>
    /\ pooled[o] = 1
    /\ hpc[o] = "none"
    /\ ~InMap(o)
    /\ o \notin retired
    /\ o # lobj /\ o \notin todo

\* No object and no stream is lost: an object that is not in the pool is in the
\* map, with a handler, or on the retired list, so some later step releases it;
\* and a stream whose request is complete is in the map only while a handler
\* runs, bytes are buffered, or the loop is about to remove it (hand-off of a
\* response that a flush finishes at that moment).
NoLostObject ==
  /\ \A o \in Objs : pooled[o] = 0 => InMap(o) \/ hpc[o] # "none" \/ o \in retired
  /\ \A i \in Ids : LET o == streams[i] IN
       o # None /\ obj[o].state \notin {"Idle", "Open"} =>
         hpc[o] # "none" \/ obj[o].buf > 0 \/ lobj = o \/ i \in ended \/ <<o, i>> \in cleanup

\* The counters are exact: activeStreams and requestOpen are the open streams,
\* so the limit MaxStreams advertises is neither exceeded nor eroded by streams
\* that ended; outboundHeld is what the streams have buffered plus what a
\* handler has charged and not buffered yet; placeholderIDs lists exactly the
\* placeholders in the map.
CountsExact ==
  /\ ~closed => /\ activeStreams = Cardinality({o \in Objs : obj[o].state \in Active})
                /\ requestOpen = Cardinality({o \in Objs : obj[o].state \in Requests})
                /\ activeStreams <= MaxStreams
  /\ outboundHeld = Held(Objs) + MapThenSumSet(LAMBDA o : hrest[o], Objs)
  /\ placeholderIDs = {i \in Ids : streams[i] # None /\ obj[streams[i]].placeholder}
  /\ Cardinality(placeholderIDs) <= MaxPlaceholders

\* A closed connection gives every object back and owes no buffered bytes.
AllReleased == closed ~> (outboundHeld = 0 /\ \A o \in Objs : pooled[o] = 1)
=============================================================================
