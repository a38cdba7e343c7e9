------------------------------- MODULE MCUnits -------------------------------
(***************************************************************************)
(* Four components that share no state, checked side by side: the decision *)
(* of the adaptive engine, the ring of stream resets, the context of a     *)
(* stream, and a worker of the drivers' event loop.  A behaviour is one of *)
(* one component; the others stay in their initial states.                 *)
(***************************************************************************)
EXTENDS AdaptiveController

CONSTANTS
  ResetWindow, WordBits, MaxId,     \* the ring
  Users, None, Shared,              \* the context
  Regs, readBudget                  \* the event loop

VARIABLES
  component,
  top, bits, set,
  flag, parent, ctx, ended, cancelled, doneClosed, done, registered, closes, pc, c, d, ret,
  file, conn, dialed, closed, fires, closing, down, inq, came, hup, inSet, maskIn, outOn, ready,
  wbuf, space, pending, plist, recvMu, mu, rmu, wpc, ev, readQ, owed, fresh, qhup, turn, cpc, calls

\* Two chunks on the first registration, one on the second; one call on the
\* first.
MaxBytes == <<2, 1>>
MaxCalls == <<1, 0>>

Ring == INSTANCE ServerResets
Context == INSTANCE StreamCtx
Loop == INSTANCE DriverLoop

ringVars == <<top, bits, set>>
ctxVars == <<flag, parent, ctx, ended, cancelled, doneClosed, done, registered, closes, pc, c, d, ret>>
loopVars == <<file, conn, dialed, closed, fires, closing, down, inq, came, hup, inSet, maskIn, outOn,
              ready, wbuf, space, pending, plist, recvMu, mu, rmu, wpc, ev, readQ, owed, fresh, qhup,
              turn, cpc, calls>>

MCInit ==
  /\ component \in {"controller", "ring", "context", "loop"}
  /\ Init /\ Ring!Init /\ Context!Init /\ Loop!Init
  /\ component # "controller" => active = "epoll"

ControllerNext == component = "controller" /\ Next /\ UNCHANGED <<component, ringVars, ctxVars, loopVars>>
RingNext == component = "ring" /\ Ring!Next /\ UNCHANGED <<component, vars, ctxVars, loopVars>>
ContextNext == component = "context" /\ Context!Next /\ UNCHANGED <<component, vars, ringVars, loopVars>>
LoopNext == component = "loop" /\ Loop!Next /\ UNCHANGED <<component, vars, ringVars, ctxVars>>

MCNext == ControllerNext \/ RingNext \/ ContextNext \/ LoopNext

MCSpec == MCInit /\ [][MCNext]_<<component, vars, ringVars, ctxVars, loopVars>>

\* The ring of bits answers as the set it stands for (serverResets.has).
RingIsSet == Ring!RingIsSet

\* All callers of Done hold the one channel, closed once, after Err is set
\* (streamCtx.Done).
DoneAgrees == Context!DoneAgrees

\* Cancellation reaches every caller of Done (streamCtx.cancel).
CancelReaches == Context!CancelReaches

\* Bytes to read or to write on an open connection have somebody on the way
\* to them (worker.readTurn, serveReadQ, WriteAndPoll, flushLocked).
NothingStranded == Loop!NothingStranded

\* No system call on a number that names another's socket (readOpen,
\* markClosed).
OwnSocketOnly == Loop!OwnSocketOnly

\* A stale event or a late teardown leaves the number's next owner alone
\* (worker.connFor, worker.forget).
NextOwnerKept == Loop!NextOwnerKept

\* onClose is called exactly once (worker.errorClose, UnregisterConn).
ClosedOnce == Loop!ClosedOnce
=============================================================================
