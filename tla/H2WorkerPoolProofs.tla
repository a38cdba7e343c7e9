------------------------- MODULE H2WorkerPoolProofs -------------------------
(***************************************************************************)
(* Proofs about H2WorkerPool, for any number of workers and tasks.         *)
(***************************************************************************)
EXTENDS H2WorkerPool, FiniteSetTheorems, TLAPS

\* A Submit that goes on to claim has loaded a positive counter.
SeenPositive == \A t \in Tasks : task[t] = "loaded" => seen[t] > 0

IInv == TypeOK /\ SeenPositive /\ CreditExact /\ WorkerForEach

-----------------------------------------------------------------------------
\* The sets the counter is made of are finite, and so have a size.
LEMMA Sizes ==
  /\ IsFiniteSet(Parked) /\ Cardinality(Parked) \in Nat
  /\ IsFiniteSet(Queued) /\ Cardinality(Queued) \in Nat
  /\ IsFiniteSet(Claimed) /\ Cardinality(Claimed) \in Nat
BY PoolAssumption, FS_Subset, FS_CardinalityType DEF Parked, Queued, Claimed

\* A finite set that gains or loses an element changes its size by one.
LEMMA SizeGrows ==
  ASSUME NEW S, IsFiniteSet(S), NEW x, x \notin S
  PROVE  Cardinality(S \cup {x}) = Cardinality(S) + 1
BY FS_AddElement

LEMMA SizeShrinks ==
  ASSUME NEW S, IsFiniteSet(S), NEW x, x \in S
  PROVE  Cardinality(S \ {x}) = Cardinality(S) - 1
BY FS_RemoveElement

LEMMA InitInv == Init => IInv
<1> SUFFICES ASSUME Init PROVE IInv
  OBVIOUS
<1>1. TypeOK /\ SeenPositive
  BY DEF Init, TypeOK, SeenPositive
<1>2. Parked = {} /\ Queued = {} /\ Claimed = {}
  BY DEF Init, Parked, Queued, Claimed
<1>3. CreditExact /\ WorkerForEach
  BY <1>2, FS_EmptySet DEF Init, CreditExact, WorkerForEach
<1>4. QED
  BY <1>1, <1>3 DEF IInv

\* A step that leaves the counter and the three sets alone keeps the credit.
LEMMA CreditSame ==
  ASSUME IInv, idle' = idle, Parked' = Parked, Queued' = Queued, Claimed' = Claimed
  PROVE  CreditExact' /\ WorkerForEach'
BY DEF IInv, CreditExact, WorkerForEach

LEMMA ParkInv ==
  ASSUME IInv, NEW w \in Workers, Park(w)
  PROVE  IInv'
<1>1. TypeOK' /\ SeenPositive'
  BY DEF IInv, TypeOK, SeenPositive, Park
<1>2. w \notin Parked /\ Parked' = Parked \cup {w} /\ Queued' = Queued /\ Claimed' = Claimed
  BY DEF IInv, TypeOK, Park, Parked, Queued, Claimed
<1>3. Cardinality(Parked') = Cardinality(Parked) + 1
  BY <1>2, Sizes, SizeGrows
<1>4. CreditExact' /\ WorkerForEach'
  BY <1>2, <1>3, Sizes DEF IInv, CreditExact, WorkerForEach, Park
<1>5. QED
  BY <1>1, <1>4 DEF IInv

LEMMA ReceiveInv ==
  ASSUME IInv, NEW w \in Workers, NEW t \in Tasks, Receive(w, t)
  PROVE  IInv'
<1>1. TypeOK' /\ SeenPositive'
  BY DEF IInv, TypeOK, SeenPositive, Receive
<1>2. /\ w \in Parked /\ Parked' = Parked \ {w}
      /\ t \in Queued /\ Queued' = Queued \ {t}
      /\ Claimed' = Claimed
  BY DEF IInv, TypeOK, Receive, Parked, Queued, Claimed
<1>3. /\ Cardinality(Parked') = Cardinality(Parked) - 1
      /\ Cardinality(Queued') = Cardinality(Queued) - 1
  BY <1>2, Sizes, SizeShrinks
<1>4. CreditExact' /\ WorkerForEach'
  BY <1>2, <1>3, Sizes DEF IInv, CreditExact, WorkerForEach, Receive
<1>5. QED
  BY <1>1, <1>4 DEF IInv

LEMMA HandlerEndsInv ==
  ASSUME IInv, NEW w \in Workers, HandlerEnds(w)
  PROVE  IInv'
<1>1. TypeOK' /\ SeenPositive'
  BY DEF IInv, TypeOK, SeenPositive, HandlerEnds, AfterHandler
<1>2. idle' = idle /\ Parked' = Parked /\ Queued' = Queued /\ Claimed' = Claimed
  BY DEF IInv, TypeOK, HandlerEnds, AfterHandler, Parked, Queued, Claimed
<1>3. QED
  BY <1>1, <1>2, CreditSame DEF IInv

LEMMA SubmitLoadInv ==
  ASSUME IInv, NEW t \in Tasks, SubmitLoad(t)
  PROVE  IInv'
<1>1. TypeOK' /\ SeenPositive'
  BY DEF IInv, TypeOK, SeenPositive, SubmitLoad, NobodyParked, WithoutCredit
<1>2. idle' = idle /\ Parked' = Parked /\ Queued' = Queued /\ Claimed' = Claimed
  BY DEF IInv, TypeOK, SubmitLoad, WithoutCredit, Parked, Queued, Claimed
<1>3. QED
  BY <1>1, <1>2, CreditSame DEF IInv

\* The claim spends a credit that is there: the value compared is positive.
LEMMA SubmitClaimInv ==
  ASSUME IInv, NEW t \in Tasks, SubmitClaim(t)
  PROVE  IInv'
<1>1. TypeOK' /\ SeenPositive'
  BY DEF IInv, TypeOK, SeenPositive, SubmitClaim
<1>2. CASE SameCredit(t)
  <2>1. /\ t \notin Claimed /\ Claimed' = Claimed \cup {t}
        /\ Parked' = Parked /\ Queued' = Queued
    BY <1>2 DEF IInv, TypeOK, SubmitClaim, Parked, Queued, Claimed
  <2>2. Cardinality(Claimed') = Cardinality(Claimed) + 1
    BY <2>1, Sizes, SizeGrows
  <2>3. idle > 0 /\ idle' = idle - 1
    BY <1>2 DEF IInv, TypeOK, SeenPositive, SubmitClaim, SameCredit
  <2>4. CreditExact' /\ WorkerForEach'
    BY <2>1, <2>2, <2>3, Sizes DEF IInv, TypeOK, CreditExact, WorkerForEach
  <2>5. QED
    BY <1>1, <2>4 DEF IInv
<1>3. CASE ~SameCredit(t)
  <2>1. idle' = idle /\ Parked' = Parked /\ Queued' = Queued /\ Claimed' = Claimed
    BY <1>3 DEF IInv, TypeOK, SubmitClaim, Parked, Queued, Claimed
  <2>2. QED
    BY <1>1, <2>1, CreditSame DEF IInv
<1>4. QED
  BY <1>2, <1>3

\* A claimed task always finds room: the tasks queued and claimed are no more
\* than the parked workers, and those no more than the channel holds.
LEMMA RoomForClaimed ==
  ASSUME IInv, NEW t \in Tasks, task[t] = "claimed"
  PROVE  Cardinality(Queued) < QueueCap
<1>1. t \in Claimed
  BY DEF Claimed
<1>2. Cardinality(Claimed) >= 1
  BY <1>1, Sizes, FS_EmptySet
<1>3. Cardinality(Parked) <= Cardinality(Workers) /\ Cardinality(Workers) \in Nat
  BY PoolAssumption, FS_Subset, FS_CardinalityType DEF Parked
<1>4. QED
  BY <1>2, <1>3, Sizes, PoolAssumption DEF IInv, WorkerForEach

LEMMA SubmitSendInv ==
  ASSUME IInv, NEW t \in Tasks, SubmitSend(t)
  PROVE  IInv'
<1>1. Cardinality(Queued) < QueueCap
  BY RoomForClaimed DEF SubmitSend
<1>2. /\ task[t] = "claimed" /\ task' = [task EXCEPT ![t] = "queued"]
      /\ idle' = idle /\ worker' = worker /\ seen' = seen
  BY <1>1 DEF SubmitSend
<1>3. TypeOK' /\ SeenPositive'
  BY <1>2 DEF IInv, TypeOK, SeenPositive
<1>4. /\ t \in Claimed /\ Claimed' = Claimed \ {t}
      /\ t \notin Queued /\ Queued' = Queued \cup {t}
      /\ Parked' = Parked
  BY <1>2 DEF IInv, TypeOK, Parked, Queued, Claimed
<1>5. /\ Cardinality(Claimed') = Cardinality(Claimed) - 1
      /\ Cardinality(Queued') = Cardinality(Queued) + 1
  BY <1>4, Sizes, SizeGrows, SizeShrinks
<1>6. CreditExact' /\ WorkerForEach'
  BY <1>2, <1>4, <1>5, Sizes DEF IInv, CreditExact, WorkerForEach
<1>7. QED
  BY <1>3, <1>6 DEF IInv

LEMMA NextInv == IInv /\ [Next]_vars => IInv'
<1> SUFFICES ASSUME IInv, [Next]_vars PROVE IInv'
  OBVIOUS
<1>1. ASSUME NEW w \in Workers, Take(w) \/ HandlerEnds(w) PROVE IInv'
  BY <1>1, ParkInv, ReceiveInv, HandlerEndsInv DEF Take
<1>2. ASSUME NEW t \in Tasks, Submit(t) PROVE IInv'
  BY <1>2, SubmitLoadInv, SubmitClaimInv, SubmitSendInv DEF Submit
<1>3. CASE UNCHANGED vars
  BY <1>3 DEF vars, IInv, TypeOK, SeenPositive, CreditExact, WorkerForEach, Parked, Queued, Claimed
<1>4. QED
  BY <1>1, <1>2, <1>3 DEF Next

THEOREM InvHolds == Spec => []IInv
BY InitInv, NextInv, PTL DEF Spec

\* However Submits and workers interleave, the counter is the number of parked
\* workers less the tasks queued or claimed.
THEOREM CreditHolds == Spec => []CreditExact
<1>1. IInv => CreditExact
  BY DEF IInv
<1>2. QED
  BY <1>1, InvHolds, PTL

\* Every queued task has a parked worker to itself, whatever the handlers that
\* are running do.
THEOREM WorkerForEachHolds == Spec => []WorkerForEach
<1>1. IInv => WorkerForEach
  BY DEF IInv
<1>2. QED
  BY <1>1, InvHolds, PTL

\* The default branch of Submit's send, which the code calls unreachable, is.
THEOREM NeverFullHolds == Spec => []NeverFull
<1>1. IInv => NeverFull
  BY RoomForClaimed DEF NeverFull
<1>2. QED
  BY <1>1, InvHolds, PTL
=============================================================================
