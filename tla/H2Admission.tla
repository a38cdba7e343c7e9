---------------------------- MODULE H2Admission ----------------------------
(***************************************************************************)
(* What one HTTP/2 connection does with the frames of its requests         *)
(* (internal/protocol/h2/stream/processor.go and deadline.go): header      *)
(* blocks in one or several frames, admission and refusal, bodies and      *)
(* trailers, resets, expired requests and GOAWAY.                          *)
(*                                                                         *)
(* The client keeps the rules of RFC 9113 and knows of a reset or a GOAWAY *)
(* only when it has read it, so its frames cross the server's.  Whether a  *)
(* header list or a body is refused is a free choice.  Stream identifiers  *)
(* are numbered by rank (1, 2, 3 for 1, 3, 5), a frame of any type is      *)
(* processed in one step (H2State.mu).                                     *)
(***************************************************************************)
EXTENDS ResetSet, Sequences, FiniteSets, SequencesExt

CONSTANTS
  NIds,           \* bound: requests the client makes
  MaxWire,        \* bound: frames on their way
  MaxStreams,     \* SETTINGS_MAX_CONCURRENT_STREAMS
  MaxTombstones   \* maxRequestTombstones

Ids == 1..NIds
NoBlock == [id |-> 0, end |-> FALSE]

VARIABLES
  client,         \* per request: "idle" | "open" | "ended" | "reset" | "told"
  cblock,         \* the header block the client is in the middle of
  sawGoAway,
  wire,           \* frames to the server
  rsts,           \* RST_STREAM frames to the client
  streams,        \* Manager.streams: "none" | "Open" | "HalfClosedRemote"
  lastClient,     \* lastClientStream
  maxOpened,      \* maxStreamID
  block,          \* continuationState
  resetIDs,       \* serverResets: the streams this server reset
  resetOpen,      \* serverResets: those whose client side may still be open
  expiredReq,     \* the expired requests remembered, oldest first
  goAway,         \* goAwaySent, goAwayLastID
  served,         \* how often each request's handler was started
  down            \* why the connection ended, and the stream it ended for

clientVars == <<client, cblock, sawGoAway>>
memory     == <<resetIDs, resetOpen, expiredReq>>
admitted   == <<lastClient, maxOpened>>
vars == <<clientVars, wire, rsts, streams, admitted, block, memory, goAway, served, down>>

Up == [why |-> "up", id |-> 0]

Init ==
  /\ client = [i \in Ids |-> "idle"] /\ cblock = 0 /\ sawGoAway = FALSE
  /\ wire = <<>> /\ rsts = {}
  /\ streams = [i \in Ids |-> "none"] /\ lastClient = 0 /\ maxOpened = 0
  /\ block = NoBlock
  /\ resetIDs = NoResets /\ resetOpen = NoResets /\ expiredReq = <<>>
  /\ goAway = [sent |-> FALSE, last |-> 0]
  /\ served = [i \in Ids |-> 0]
  /\ down = Up

-----------------------------------------------------------------------------
(* The client. *)

Sends(t, id, end, more) ==
  /\ Len(wire) < MaxWire
  /\ wire' = Append(wire, [t |-> t, id |-> id, end |-> end, more |-> more])

ClientSends(id, to, inBlock) ==
  /\ cblock = 0 /\ client[id] # "told"
  /\ client' = [client EXCEPT ![id] = to]
  /\ cblock' = IF inBlock THEN id ELSE 0
  /\ UNCHANGED <<sawGoAway, rsts, streams, admitted, block, memory, goAway, served, down>>

\* Identifiers go up, and no request is made once the GOAWAY was read.
ClientOpens(id, end, more) ==
  /\ ~sawGoAway /\ \A j \in Ids : (client[j] = "idle") <=> (j >= id)
  /\ Sends("HEADERS", id, end, more)
  /\ ClientSends(id, IF end THEN "ended" ELSE "open", more)

ClientBody(id, end) ==
  /\ client[id] = "open"
  /\ Sends("DATA", id, end, FALSE)
  /\ ClientSends(id, IF end THEN "ended" ELSE "open", FALSE)

ClientTrailers(id, more) ==
  /\ client[id] = "open"
  /\ Sends("HEADERS", id, TRUE, more)
  /\ ClientSends(id, "ended", more)

ClientResets(id) ==
  /\ client[id] \in {"open", "ended"}
  /\ Sends("RST_STREAM", id, FALSE, FALSE)
  /\ ClientSends(id, "reset", FALSE)

\* The rest of a header block follows it, whatever the client has read.
ClientContinues(more) ==
  /\ cblock # 0
  /\ Sends("CONTINUATION", cblock, FALSE, more)
  /\ cblock' = IF more THEN cblock ELSE 0
  /\ UNCHANGED <<client, sawGoAway, rsts, streams, admitted, block, memory, goAway, served, down>>

ClientReadsReset(id) ==
  /\ id \in rsts /\ rsts' = rsts \ {id}
  /\ client' = [client EXCEPT ![id] = "told"]
  /\ UNCHANGED <<cblock, sawGoAway, wire, streams, admitted, block, memory, goAway, served, down>>

ClientReadsGoAway ==
  /\ goAway.sent /\ ~sawGoAway /\ sawGoAway' = TRUE
  /\ UNCHANGED <<client, cblock, wire, rsts, streams, admitted, block, memory, goAway, served, down>>

-----------------------------------------------------------------------------
(* Ways to end a stream or the connection. *)

Expired(id) == \E k \in DOMAIN expiredReq : expiredReq[k] = id
Forget(id) == Remove(expiredReq, id)

\* Mutant: a GOAWAY names what its caller says.
NamedAsGiven(last) == last

\* SendGoAway: the last stream named never goes up.
Named(last) == IF goAway.sent /\ last > goAway.last THEN goAway.last ELSE last

\* GoAwayErr: the frame's error ends the connection.
ConnError(id) ==
  /\ goAway' = [sent |-> TRUE, last |-> Named(maxOpened)]
  /\ down' = [why |-> "error", id |-> id]
  /\ UNCHANGED <<streams, admitted, memory, rsts, served>>

\* markResetOpen.
MarkedOpen(id, clientDone) == IF clientDone THEN resetOpen ELSE Mark(resetOpen, id)

\* Mutant: the reset of a stream is not remembered.
ForgetsReset(id) == resetIDs

\* sendRSTStreamAndMarkClosed: the mark, ...
MarkedReset(id) == Mark(resetIDs, id)

\* ... the frame, and the stream deleted.
ResetStream(id, clientDone) ==
  /\ resetIDs' = MarkedReset(id)
  /\ resetOpen' = MarkedOpen(id, clientDone)
  /\ rsts' = rsts \cup {id}
  /\ streams' = [streams EXCEPT ![id] = "none"]
  /\ UNCHANGED <<expiredReq, goAway, down>>

\* A frame that the stream's state does not allow: the stream is reset, and the
\* error ends the connection without a GOAWAY.
StateError(id) ==
  /\ resetIDs' = MarkedReset(id)
  /\ rsts' = rsts \cup {id}
  /\ streams' = [streams EXCEPT ![id] = "none"]
  /\ down' = [why |-> "error", id |-> id]
  /\ UNCHANGED <<admitted, resetOpen, expiredReq, goAway, served>>

-----------------------------------------------------------------------------
(* Header blocks. *)

\* Mutant: a GOAWAY is no reason to refuse a stream.
ServesAny(id) == TRUE

\* runHandler: a stream above the last one a GOAWAY named is not served.
MayServe(id) == ~goAway.sent \/ id <= goAway.last

RunHandler(id) ==
  IF MayServe(id)
  THEN /\ served' = [served EXCEPT ![id] = @ + 1]
       /\ streams' = [streams EXCEPT ![id] = "HalfClosedRemote"]
       /\ UNCHANGED <<memory, rsts, goAway, down>>
  ELSE ResetStream(id, TRUE) /\ UNCHANGED served

\* refuseMalformed and refuseHeaderList: decoded, reset, the connection kept.
RefuseRequest(id, end) == ResetStream(id, end) /\ UNCHANGED served

\* TryOpenStream: the highest stream opened.
HighestOpened(id) == IF id > maxOpened THEN id ELSE maxOpened

\* admitHeaders and completeHeaderBlock for a stream that is new.
Admit(id, end) ==
  /\ lastClient' = id
  /\ IF Cardinality({i \in Ids : streams[i] # "none"}) >= MaxStreams
     THEN RefuseRequest(id, end) /\ UNCHANGED maxOpened       \* refuseStream
     ELSE /\ maxOpened' = HighestOpened(id)
          /\ \/ RefuseRequest(id, end)
             \/ end /\ RunHandler(id)
             \/ /\ ~end /\ streams' = [streams EXCEPT ![id] = "Open"]
                /\ UNCHANGED <<served, memory, rsts, goAway, down>>

Trailers(id) ==
  /\ RefuseRequest(id, TRUE) \/ RunHandler(id)
  /\ UNCHANGED admitted

\* The trailers of a stream the server reset: decoded, once, and dropped.
DropTrailers(id) ==
  /\ resetOpen' = Clear(resetOpen, id) /\ expiredReq' = Forget(id)
  /\ UNCHANGED <<streams, admitted, resetIDs, rsts, served, goAway, down>>

\* serveHeaderBlock for a complete block.
ServeBlock(id, end) ==
  \/ /\ streams[id] = "none" /\ id > lastClient
     /\ Admit(id, end)
  \/ /\ streams[id] = "none" /\ id <= lastClient
     /\ IF (Has(resetOpen, id) \/ Expired(id)) /\ end
        THEN DropTrailers(id)
        ELSE ConnError(id)
  \/ /\ streams[id] # "none"
     /\ IF streams[id] = "Open" /\ end THEN Trailers(id) ELSE ConnError(id)

\* handleHeaders without END_HEADERS keeps the block open.
HeadersFrame(f) ==
  /\ f.t = "HEADERS" /\ block = NoBlock
  /\ IF f.more
     THEN /\ block' = [id |-> f.id, end |-> f.end]
          /\ UNCHANGED <<streams, admitted, memory, rsts, goAway, served, down>>
     ELSE ServeBlock(f.id, f.end) /\ UNCHANGED block

\* handleContinuation and appendContinuation: the END_STREAM of a block is its
\* HEADERS frame's.
ContinuationFrame(f) ==
  /\ f.t = "CONTINUATION"
  /\ IF block = NoBlock \/ block.id # f.id THEN ConnError(f.id) /\ UNCHANGED block
     ELSE IF f.more THEN UNCHANGED <<streams, admitted, memory, rsts, goAway, served, down, block>>
     ELSE ServeBlock(f.id, block.end) /\ block' = NoBlock

-----------------------------------------------------------------------------
(* DATA, RST_STREAM and the sweep. *)

\* handleData.
DataFrame(f) ==
  /\ f.t = "DATA" /\ block = NoBlock
  /\ IF streams[f.id] = "none"
     THEN IF f.id <= lastClient /\ (Has(resetIDs, f.id) \/ Expired(f.id))
          THEN /\ resetOpen' = IF f.end THEN Clear(resetOpen, f.id) ELSE resetOpen
               /\ expiredReq' = IF f.end THEN Forget(f.id) ELSE expiredReq
               /\ UNCHANGED <<streams, admitted, resetIDs, rsts, served, goAway, down>>
          ELSE ConnError(f.id)
     ELSE IF streams[f.id] # "Open" THEN StateError(f.id)
     ELSE /\ \/ RefuseRequest(f.id, f.end)       \* body limit, content-length
             \/ f.end /\ RunHandler(f.id)
             \/ ~f.end /\ UNCHANGED <<streams, memory, rsts, served, goAway, down>>
          /\ UNCHANGED admitted
  /\ UNCHANGED block

\* handleRSTStream.
ResetFrame(f) ==
  /\ f.t = "RST_STREAM" /\ block = NoBlock
  /\ IF streams[f.id] # "none"
     THEN streams' = [streams EXCEPT ![f.id] = "none"] /\ UNCHANGED <<memory, goAway, down>>
     ELSE IF f.id <= lastClient
     THEN /\ expiredReq' = Forget(f.id) /\ resetOpen' = Clear(resetOpen, f.id)
          /\ UNCHANGED <<streams, resetIDs, goAway, down>>
     ELSE ConnError(f.id)
  /\ UNCHANGED <<admitted, rsts, served, block>>

\* ProcessFrame: inside a header block only its CONTINUATION may come.
ProcessFrame ==
  /\ down = Up /\ wire # <<>>
  /\ wire' = Tail(wire)
  /\ LET f == Head(wire) IN
     IF block # NoBlock /\ f.t # "CONTINUATION" THEN ConnError(f.id) /\ UNCHANGED block
     ELSE HeadersFrame(f) \/ ContinuationFrame(f) \/ DataFrame(f) \/ ResetFrame(f)
  /\ UNCHANGED clientVars

\* The handler is done and its stream deleted.
HandlerDone(id) ==
  /\ streams[id] = "HalfClosedRemote"
  /\ streams' = [streams EXCEPT ![id] = "none"]
  /\ UNCHANGED <<clientVars, wire, rsts, admitted, block, memory, goAway, served, down>>

\* dropOldestTombstone.
RoomForTombstone == IF Len(expiredReq) >= MaxTombstones THEN Tail(expiredReq) ELSE expiredReq

\* Mutant: the sweep is over with the GOAWAY.
ArmedUntilGoAway(id) == streams[id] = "Open" /\ ~goAway.sent

\* ArmRequest and DisarmRequest: the deadline of a request that is not whole.
Armed(id) == streams[id] = "Open"

\* ExpireRequest: 408, remembered both ways, and reset.
ExpireRequest(id) ==
  /\ down = Up /\ Armed(id)
  /\ expiredReq' = Append(RoomForTombstone, id)
  /\ resetIDs' = MarkedReset(id) /\ resetOpen' = MarkedOpen(id, FALSE)
  /\ rsts' = rsts \cup {id}
  /\ streams' = [streams EXCEPT ![id] = "none"]
  /\ UNCHANGED <<clientVars, wire, admitted, block, goAway, served, down>>

\* DropTombstones: the oldest has been remembered long enough.
DropTombstone ==
  /\ down = Up /\ expiredReq # <<>>
  /\ expiredReq' = Tail(expiredReq)
  /\ UNCHANGED <<clientVars, wire, rsts, streams, admitted, block, resetIDs, resetOpen, goAway, served, down>>

\* ExpireHeaderBlock: the rest of the block did not come in time.
ExpireHeaderBlock ==
  /\ down = Up /\ block # NoBlock
  /\ goAway' = [sent |-> TRUE, last |-> Named(maxOpened)]
  /\ down' = [why |-> "timeout", id |-> block.id]
  /\ UNCHANGED <<clientVars, wire, rsts, streams, admitted, block, memory, served>>

\* H2State.GoAway: the graceful close names the last stream the client opened.
GracefulGoAway ==
  /\ down = Up /\ ~goAway.sent
  /\ goAway' = [sent |-> TRUE, last |-> Named(lastClient)]
  /\ UNCHANGED <<clientVars, wire, rsts, streams, admitted, block, memory, served, down>>

Client ==
  \/ \E id \in Ids, a, b \in BOOLEAN : ClientOpens(id, a, b)
  \/ \E id \in Ids, a \in BOOLEAN : ClientBody(id, a) \/ ClientTrailers(id, a)
  \/ \E id \in Ids : ClientResets(id) \/ ClientReadsReset(id)
  \/ \E a \in BOOLEAN : ClientContinues(a)
  \/ ClientReadsGoAway

Next ==
  \/ down = Up /\ Client
  \/ ProcessFrame
  \/ \E id \in Ids : HandlerDone(id) \/ ExpireRequest(id)
  \/ DropTombstone \/ ExpireHeaderBlock \/ GracefulGoAway

Spec == Init /\ [][Next]_vars

\* The loop processes what arrives and sweeps its deadlines.
FairSpec ==
  /\ Spec /\ WF_vars(ProcessFrame) /\ WF_vars(ExpireHeaderBlock)
  /\ \A id \in Ids : WF_vars(ExpireRequest(id))

-----------------------------------------------------------------------------
(* Properties. *)

\* Every variable has its type; no handler is started twice for a request.
TypeOK ==
  /\ client \in [Ids -> {"idle", "open", "ended", "reset", "told"}]
  /\ streams \in [Ids -> {"none", "Open", "HalfClosedRemote"}]
  /\ rsts \subseteq Ids /\ {lastClient, maxOpened} \subseteq 0..NIds
  /\ resetIDs.ids \subseteq Ids /\ resetOpen.ids \subseteq Ids
  /\ Len(expiredReq) <= MaxTombstones /\ ToSet(expiredReq) \subseteq Ids
  /\ served \in [Ids -> 0..1]

\* A client that keeps the rules loses its connection to no error, however its
\* frames cross the server's resets, unless the stream is older than the reset
\* window (serverResets: "An identifier older than the window is forgotten").
GoodClientKept ==
  down.why = "error" => \/ down.id + ResetWindow <= resetIDs.top
                        \/ down.id + ResetWindow <= resetOpen.top

\* A request the client counts as not processed was not and will not be: none
\* above the last stream of a GOAWAY is served, before it or after, and the
\* last stream named never goes up (SendGoAway, runHandler; RFC 9113 section
\* 6.8).
GoAwayStep ==
  /\ goAway.sent => goAway'.sent /\ goAway'.last <= goAway.last
  /\ goAway'.sent => \A id \in Ids : served'[id] > 0 => id <= goAway'.last

\* Every request is served, reset by one of the sides, or ended with the
\* connection.
Answered ==
  \A id \in Ids : (client[id] # "idle") ~>
    (served[id] > 0 \/ id \in rsts \/ client[id] \in {"told", "reset"} \/ down # Up)
=============================================================================
