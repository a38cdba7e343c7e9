--------------------------- MODULE AsyncPoolProofs ---------------------------
(***************************************************************************)
(* Proofs about AsyncPool, for any number of clients, connections and      *)
(* workers and any MaxOpen and MaxIdlePerWorker.                           *)
(***************************************************************************)
EXTENDS AsyncPool, FiniteSetTheorems, TLAPS

\* A client has a connection in hand exactly between the pop or dial that
\* produced it and the park or close that disposes of it.
ConnInHand ==
  \A c \in Clients : conn[c] # NoConn <=> pc[c] \in {"evict", "held", "park", "drop"}

\* The sweep looks at the head of a list only when there is one.
SweepHasWork == hcPc = "excess" => survivors # <<>>

\* The semaphore counts its owners; an unlimited pool has no semaphore.
SemCounts == sem = IF MaxOpen = 0 THEN 0 ELSE Cardinality(SlotOwners)

SemBounded == MaxOpen > 0 => sem <= MaxOpen

IInv == TypeOK /\ ConnInHand /\ SweepHasWork /\ SemCounts /\ SemBounded

-----------------------------------------------------------------------------
\* A client that takes a slot makes the owners one more; one that gives its
\* slot back makes them one fewer.
LEMMA OwnersGrow ==
  ASSUME NEW c \in Clients, c \notin SlotOwners, SlotOwners' = SlotOwners \cup {c}
  PROVE  Cardinality(SlotOwners') = Cardinality(SlotOwners) + 1
<1>1. IsFiniteSet(SlotOwners)
  BY PoolAssumption, FS_Subset DEF SlotOwners
<1>2. QED
  BY <1>1, FS_AddElement

LEMMA OwnersShrink ==
  ASSUME NEW c \in Clients, c \in SlotOwners, SlotOwners' = SlotOwners \ {c}
  PROVE  /\ Cardinality(SlotOwners) \in Nat \ {0}
         /\ Cardinality(SlotOwners') = Cardinality(SlotOwners) - 1
<1>1. IsFiniteSet(SlotOwners)
  BY PoolAssumption, FS_Subset DEF SlotOwners
<1>2. Cardinality(SlotOwners') = Cardinality(SlotOwners) - 1
  BY <1>1, FS_RemoveElement
<1>3. Cardinality(SlotOwners) # 0
  BY <1>1, FS_EmptySet
<1>4. QED
  BY <1>1, <1>2, <1>3, FS_CardinalityType

\* The semaphore part of the invariant survives a step that moves one client
\* between two places that agree on owning a slot, and leaves sem alone.
LEMMA OwnersSame ==
  ASSUME IInv, SlotOwners' = SlotOwners, sem' = sem
  PROVE  SemCounts' /\ SemBounded'
BY DEF IInv, SemCounts, SemBounded

LEMMA InitInv == Init => IInv
<1> SUFFICES ASSUME Init PROVE IInv
  OBVIOUS
<1> USE PoolAssumption DEF Init
<1>1. 0 \in Workers
  BY DEF Workers
<1>2. TypeOK
  <2>1. PoolTypeOK
    BY <1>1 DEF PoolTypeOK
  <2>2. ClientTypeOK
    BY <1>1 DEF ClientTypeOK, ClientPcs
  <2>3. hcPc \in {"wait", "stopped"}
    BY Zenon
  <2>4. HealthTypeOK
    BY <1>1, <2>3 DEF HealthTypeOK
  <2>5. CloserTypeOK
    BY <1>1, Zenon DEF CloserTypeOK
  <2>6. QED
    BY <2>1, <2>2, <2>4, <2>5 DEF TypeOK
<1>3. ConnInHand /\ SweepHasWork
  BY DEF ConnInHand, SweepHasWork
<1>4. SlotOwners = {}
  BY DEF SlotOwners
<1>5. SemCounts /\ SemBounded
  BY <1>4, FS_EmptySet DEF SemCounts, SemBounded
<1>6. QED
  BY <1>2, <1>3, <1>5 DEF IInv

\* The list a scan looks at belongs to a worker of the pool.
LEMMA ScanWorkerType ==
  ASSUME ClientTypeOK, NEW c \in Clients
  PROVE  ScanWorker(c) \in Workers
<1>1. hint[c] + probe[c] \in Nat
  BY DEF ClientTypeOK, Workers
<1>2. QED
  BY <1>1, PoolAssumption DEF ScanWorker, Workers

\* Taking the last element of a list yields an element and a shorter list.
LEMMA PopLast ==
  ASSUME NEW S, NEW s \in Seq(S), s # <<>>
  PROVE  s[Len(s)] \in S /\ SubSeq(s, 1, Len(s) - 1) \in Seq(S)
OBVIOUS

LEMMA SubSeqType ==
  ASSUME NEW S, NEW s \in Seq(S), NEW m \in Nat, NEW n \in Nat, m >= 1, n <= Len(s)
  PROVE  SubSeq(s, m, n) \in Seq(S)
OBVIOUS

LEMMA AppendType ==
  ASSUME NEW S, NEW s \in Seq(S), NEW e \in S
  PROVE  Append(s, e) \in Seq(S)
OBVIOUS

LEMMA ConcatType ==
  ASSUME NEW S, NEW s \in Seq(S), NEW u \in Seq(S)
  PROVE  s \o u \in Seq(S)
OBVIOUS

LEMMA HeadTailType ==
  ASSUME NEW S, NEW s \in Seq(S), s # <<>>
  PROVE  Head(s) \in S /\ Tail(s) \in Seq(S)
OBVIOUS

LEMMA SubSeqNonEmpty ==
  ASSUME NEW S, NEW s \in Seq(S), NEW m \in Nat, m < Len(s)
  PROVE  SubSeq(s, m + 1, Len(s)) # <<>>
<1>1. m + 1 \in 1 .. Len(s)
  OBVIOUS
<1>2. SubSeq(s, m + 1, Len(s))[1] = s[m + 1] /\ Len(SubSeq(s, m + 1, Len(s))) = Len(s) - m
  BY <1>1
<1>3. Len(SubSeq(s, m + 1, Len(s))) # 0
  BY <1>2
<1>4. QED
  BY <1>3, Len(<<>>) = 0

LEMMA StepInv == IInv /\ [Next]_vars => IInv'
<1> SUFFICES ASSUME IInv, [Next]_vars PROVE IInv'
  OBVIOUS
<1> USE PoolAssumption DEF IInv, TypeOK
<1>1. ASSUME NEW c \in Clients, AcquireEnter(c) PROVE IInv'
  <2>1. PoolTypeOK'
    BY <1>1 DEF PoolTypeOK, ClientTypeOK, ConnInHand, AcquireEnter, Goto, poolVars
  <2>2. ClientTypeOK'
    BY <1>1 DEF PoolTypeOK, ClientTypeOK, AcquireEnter, Goto, ClientPcs, Workers
  <2>3. HealthTypeOK' /\ SweepHasWork'
    BY <1>1 DEF HealthTypeOK, SweepHasWork, AcquireEnter, healthVars
  <2>4. CloserTypeOK'
    BY <1>1, Zenon DEF CloserTypeOK, AcquireEnter, closerVars, poolVars
  <2>5. ConnInHand'
    BY <1>1 DEF PoolTypeOK, ClientTypeOK, ConnInHand, AcquireEnter, Goto
  <2>6. SlotOwners' = SlotOwners /\ sem' = sem
    BY <1>1 DEF ClientTypeOK, AcquireEnter, Goto, SlotOwners, poolVars
  <2>7. QED
    BY <2>1, <2>2, <2>3, <2>4, <2>5, <2>6, OwnersSame
<1>2. ASSUME NEW c \in Clients, AcquireTimeout(c) PROVE IInv'
  <2>1. PoolTypeOK'
    BY <1>2 DEF PoolTypeOK, ClientTypeOK, ConnInHand, AcquireTimeout, Goto, poolVars
  <2>2. ClientTypeOK'
    BY <1>2 DEF PoolTypeOK, ClientTypeOK, AcquireTimeout, Goto, ClientPcs, Workers
  <2>3. HealthTypeOK' /\ SweepHasWork'
    BY <1>2 DEF HealthTypeOK, SweepHasWork, AcquireTimeout, healthVars
  <2>4. CloserTypeOK'
    BY <1>2, Zenon DEF CloserTypeOK, AcquireTimeout, closerVars, poolVars
  <2>5. ConnInHand'
    BY <1>2 DEF PoolTypeOK, ClientTypeOK, ConnInHand, AcquireTimeout, Goto
  <2>6. SlotOwners' = SlotOwners /\ sem' = sem
    BY <1>2 DEF ClientTypeOK, AcquireTimeout, Goto, SlotOwners, poolVars
  <2>7. QED
    BY <2>1, <2>2, <2>3, <2>4, <2>5, <2>6, OwnersSame
<1>3. ASSUME NEW c \in Clients, PopIdle(c) PROVE IInv'
  <2> DEFINE w == ScanWorker(c)
  <2>a. w \in Workers
    BY ScanWorkerType
  <2>b. idle[w] \in Seq(Conns) /\ idle[w] # <<>>
    BY <1>3, <2>a DEF PoolTypeOK, PopIdle
  <2>c. idle[w][Len(idle[w])] \in Conns /\ SubSeq(idle[w], 1, Len(idle[w]) - 1) \in Seq(Conns)
    BY <2>b, PopLast
  <2> HIDE DEF w
  <2>d. /\ conn' = [conn EXCEPT ![c] = idle[w][Len(idle[w])]]
        /\ idle' = [idle EXCEPT ![w] = SubSeq(idle[w], 1, Len(idle[w]) - 1)]
    BY <1>3 DEF PopIdle, w
  <2>e. idle' \in [Workers -> Seq(Conns)]
    BY <2>a, <2>c, <2>d DEF PoolTypeOK
  <2>f. conn' \in [Clients -> Conns \cup {NoConn}] /\ conn'[c] \in Conns
    BY <2>c, <2>d DEF ClientTypeOK
  <2>g. /\ pc' = [pc EXCEPT ![c] = "held"] \/ pc' = [pc EXCEPT ![c] = "evict"]
        /\ hint' = [hint EXCEPT ![c] = 0] \/ hint' = hint
        /\ probe' = [probe EXCEPT ![c] = 0] \/ probe' = probe
        /\ UNCHANGED <<sem, openCount, open, home>>
    BY <1>3 DEF PopIdle, Goto, ForgetScan
  <2>1. PoolTypeOK'
    BY <2>e, <2>g DEF PoolTypeOK
  <2>2. ClientTypeOK'
    BY <2>f, <2>g DEF ClientTypeOK, ClientPcs, Workers
  <2>3. HealthTypeOK' /\ SweepHasWork'
    BY <1>3 DEF HealthTypeOK, SweepHasWork, PopIdle, healthVars
  <2>4. CloserTypeOK'
    BY <1>3, Zenon DEF CloserTypeOK, PopIdle, closerVars, poolVars
  <2>5. ConnInHand'
    BY <2>d, <2>f, <2>g DEF ClientTypeOK, ConnInHand
  <2>6. SlotOwners' = SlotOwners /\ sem' = sem
    BY <1>3 DEF ClientTypeOK, PopIdle, Goto, SlotOwners, poolVars
  <2>7. QED
    BY <2>1, <2>2, <2>3, <2>4, <2>5, <2>6, OwnersSame
<1>4. ASSUME NEW c \in Clients, Evict(c) PROVE IInv'
  <2>1. PoolTypeOK'
    BY <1>4 DEF PoolTypeOK, ClientTypeOK, ConnInHand, Evict, Goto, CloseConn, poolVars
  <2>2. ClientTypeOK'
    BY <1>4 DEF PoolTypeOK, ClientTypeOK, Evict, Goto, CloseConn, ClientPcs, Workers
  <2>3. HealthTypeOK' /\ SweepHasWork'
    BY <1>4 DEF HealthTypeOK, SweepHasWork, Evict, healthVars
  <2>4. CloserTypeOK'
    BY <1>4, Zenon DEF CloserTypeOK, Evict, closerVars, poolVars
  <2>5. ConnInHand'
    BY <1>4 DEF PoolTypeOK, ClientTypeOK, ConnInHand, Evict, Goto, CloseConn
  <2>6. SlotOwners' = SlotOwners /\ sem' = sem
    BY <1>4 DEF ClientTypeOK, Evict, Goto, SlotOwners, poolVars
  <2>7. QED
    BY <2>1, <2>2, <2>3, <2>4, <2>5, <2>6, OwnersSame
<1>5. ASSUME NEW c \in Clients, PopIdleMiss(c) PROVE IInv'
  <2>a. probe' = probe \/ (probe[c] + 1 < NumWorkers /\ probe' = [probe EXCEPT ![c] = probe[c] + 1])
    BY <1>5 DEF PopIdleMiss
  <2>b. probe[c] + 1 < NumWorkers => probe[c] + 1 \in Workers
    BY DEF ClientTypeOK, Workers
  <2>c. probe' \in [Clients -> Workers]
    BY <2>a, <2>b DEF ClientTypeOK
  <2>d. /\ pc' = pc \/ pc' = [pc EXCEPT ![c] = "dial"]
        /\ UNCHANGED <<conn, hint>>
    BY <1>5 DEF PopIdleMiss, Goto
  <2>1. PoolTypeOK'
    BY <1>5 DEF PoolTypeOK, ClientTypeOK, ConnInHand, PopIdleMiss, Goto, poolVars
  <2>2. ClientTypeOK'
    BY <2>c, <2>d DEF ClientTypeOK, ClientPcs
  <2>3. HealthTypeOK' /\ SweepHasWork'
    BY <1>5 DEF HealthTypeOK, SweepHasWork, PopIdleMiss, healthVars
  <2>4. CloserTypeOK'
    BY <1>5, Zenon DEF CloserTypeOK, PopIdleMiss, closerVars, poolVars
  <2>5. ConnInHand'
    BY <1>5 DEF PoolTypeOK, ClientTypeOK, ConnInHand, PopIdleMiss, Goto
  <2>6. SlotOwners' = SlotOwners /\ sem' = sem
    BY <1>5 DEF ClientTypeOK, PopIdleMiss, Goto, SlotOwners, poolVars
  <2>7. QED
    BY <2>1, <2>2, <2>3, <2>4, <2>5, <2>6, OwnersSame
<1>6. ASSUME NEW c \in Clients, NEW k \in Conns, DialOK(c, k) PROVE IInv'
  <2>1. PoolTypeOK'
    BY <1>6 DEF PoolTypeOK, ClientTypeOK, ConnInHand, DialOK, Goto, ForgetScan, poolVars
  <2>2. ClientTypeOK'
    BY <1>6 DEF PoolTypeOK, ClientTypeOK, DialOK, Goto, ForgetScan, ClientPcs, Workers
  <2>3. HealthTypeOK' /\ SweepHasWork'
    BY <1>6 DEF HealthTypeOK, SweepHasWork, DialOK, healthVars
  <2>4. CloserTypeOK'
    BY <1>6, Zenon DEF CloserTypeOK, DialOK, closerVars, poolVars
  <2>5. ConnInHand'
    BY <1>6 DEF PoolTypeOK, ClientTypeOK, ConnInHand, DialOK, Goto, ForgetScan
  <2>6. SlotOwners' = SlotOwners /\ sem' = sem
    BY <1>6 DEF ClientTypeOK, DialOK, Goto, SlotOwners, poolVars
  <2>7. QED
    BY <2>1, <2>2, <2>3, <2>4, <2>5, <2>6, OwnersSame
<1>7. ASSUME NEW c \in Clients, DialFail(c) PROVE IInv'
  <2>1. PoolTypeOK'
    BY <1>7 DEF PoolTypeOK, ClientTypeOK, ConnInHand, DialFail, Goto, ForgetScan, poolVars
  <2>2. ClientTypeOK'
    BY <1>7 DEF PoolTypeOK, ClientTypeOK, DialFail, Goto, ForgetScan, ClientPcs, Workers
  <2>3. HealthTypeOK' /\ SweepHasWork'
    BY <1>7 DEF HealthTypeOK, SweepHasWork, DialFail, healthVars
  <2>4. CloserTypeOK'
    BY <1>7, Zenon DEF CloserTypeOK, DialFail, closerVars, poolVars
  <2>5. ConnInHand'
    BY <1>7 DEF PoolTypeOK, ClientTypeOK, ConnInHand, DialFail, Goto, ForgetScan
  <2>6. SlotOwners' = SlotOwners /\ sem' = sem
    BY <1>7 DEF ClientTypeOK, DialFail, Goto, SlotOwners, poolVars
  <2>7. QED
    BY <2>1, <2>2, <2>3, <2>4, <2>5, <2>6, OwnersSame
<1>8. ASSUME NEW c \in Clients, ReleaseEnter(c) PROVE IInv'
  <2>1. PoolTypeOK'
    BY <1>8 DEF PoolTypeOK, ClientTypeOK, ConnInHand, ReleaseEnter, Goto, poolVars
  <2>2. ClientTypeOK'
    BY <1>8 DEF PoolTypeOK, ClientTypeOK, ReleaseEnter, Goto, ClientPcs, Workers
  <2>3. HealthTypeOK' /\ SweepHasWork'
    BY <1>8 DEF HealthTypeOK, SweepHasWork, ReleaseEnter, healthVars
  <2>4. CloserTypeOK'
    BY <1>8, Zenon DEF CloserTypeOK, ReleaseEnter, closerVars, poolVars
  <2>5. ConnInHand'
    BY <1>8 DEF PoolTypeOK, ClientTypeOK, ConnInHand, ReleaseEnter, Goto
  <2>6. SlotOwners' = SlotOwners /\ sem' = sem
    BY <1>8 DEF ClientTypeOK, ReleaseEnter, Goto, SlotOwners, poolVars
  <2>7. QED
    BY <2>1, <2>2, <2>3, <2>4, <2>5, <2>6, OwnersSame
<1>9. ASSUME NEW c \in Clients, Park(c) PROVE IInv'
  <2>a. conn[c] \in Conns /\ home[conn[c]] \in Workers
    BY <1>9 DEF PoolTypeOK, ClientTypeOK, ConnInHand, Park
  <2>b. Append(idle[home[conn[c]]], conn[c]) \in Seq(Conns)
    BY <2>a, AppendType DEF PoolTypeOK
  <2>c. \/ idle' = idle
        \/ idle' = [idle EXCEPT ![home[conn[c]]] = Append(idle[home[conn[c]]], conn[c])]
    BY <1>9 DEF Park
  <2>d. idle' \in [Workers -> Seq(Conns)]
    BY <2>a, <2>b, <2>c DEF PoolTypeOK
  <2>e. UNCHANGED <<sem, openCount, open, home>>
    BY <1>9 DEF Park
  <2>1. PoolTypeOK'
    BY <2>d, <2>e DEF PoolTypeOK
  <2>2. ClientTypeOK'
    BY <1>9 DEF PoolTypeOK, ClientTypeOK, Park, Goto, ClientPcs, Workers
  <2>3. HealthTypeOK' /\ SweepHasWork'
    BY <1>9 DEF HealthTypeOK, SweepHasWork, Park, healthVars
  <2>4. CloserTypeOK'
    BY <1>9, Zenon DEF CloserTypeOK, Park, closerVars, poolVars
  <2>5. ConnInHand'
    BY <1>9 DEF PoolTypeOK, ClientTypeOK, ConnInHand, Park, Goto
  <2>6. SlotOwners' = SlotOwners /\ sem' = sem
    BY <1>9 DEF ClientTypeOK, Park, Goto, SlotOwners, poolVars
  <2>7. QED
    BY <2>1, <2>2, <2>3, <2>4, <2>5, <2>6, OwnersSame
<1>10. ASSUME NEW c \in Clients, Drop(c) PROVE IInv'
  <2>1. PoolTypeOK'
    BY <1>10 DEF PoolTypeOK, ClientTypeOK, ConnInHand, Drop, Goto, CloseConn, poolVars
  <2>2. ClientTypeOK'
    BY <1>10 DEF PoolTypeOK, ClientTypeOK, Drop, Goto, CloseConn, ClientPcs, Workers
  <2>3. HealthTypeOK' /\ SweepHasWork'
    BY <1>10 DEF HealthTypeOK, SweepHasWork, Drop, healthVars
  <2>4. CloserTypeOK'
    BY <1>10, Zenon DEF CloserTypeOK, Drop, closerVars, poolVars
  <2>5. ConnInHand'
    BY <1>10 DEF PoolTypeOK, ClientTypeOK, ConnInHand, Drop, Goto, CloseConn
  <2>6. SlotOwners' = SlotOwners /\ sem' = sem
    BY <1>10 DEF ClientTypeOK, Drop, Goto, SlotOwners, poolVars
  <2>7. QED
    BY <2>1, <2>2, <2>3, <2>4, <2>5, <2>6, OwnersSame
<1>11. ASSUME NEW c \in Clients, Discard(c) PROVE IInv'
  <2>1. PoolTypeOK'
    BY <1>11 DEF PoolTypeOK, ClientTypeOK, ConnInHand, Discard, Goto, poolVars
  <2>2. ClientTypeOK'
    BY <1>11 DEF PoolTypeOK, ClientTypeOK, Discard, Goto, ClientPcs, Workers
  <2>3. HealthTypeOK' /\ SweepHasWork'
    BY <1>11 DEF HealthTypeOK, SweepHasWork, Discard, healthVars
  <2>4. CloserTypeOK'
    BY <1>11, Zenon DEF CloserTypeOK, Discard, closerVars, poolVars
  <2>5. ConnInHand'
    BY <1>11 DEF PoolTypeOK, ClientTypeOK, ConnInHand, Discard, Goto
  <2>6. SlotOwners' = SlotOwners /\ sem' = sem
    BY <1>11 DEF ClientTypeOK, Discard, Goto, SlotOwners, poolVars
  <2>7. QED
    BY <2>1, <2>2, <2>3, <2>4, <2>5, <2>6, OwnersSame
<1>12. ASSUME NEW c \in Clients, NEW w \in Workers, AcquireReserve(c, w) PROVE IInv'
  <2>1. PoolTypeOK'
    BY <1>12 DEF PoolTypeOK, AcquireReserve
  <2>2. ClientTypeOK'
    BY <1>12 DEF ClientTypeOK, AcquireReserve, Goto, ClientPcs, Workers
  <2>3. HealthTypeOK' /\ SweepHasWork'
    BY <1>12 DEF HealthTypeOK, SweepHasWork, AcquireReserve, healthVars
  <2>4. CloserTypeOK'
    BY <1>12, Zenon DEF CloserTypeOK, AcquireReserve, closerVars
  <2>5. ConnInHand'
    BY <1>12 DEF ClientTypeOK, ConnInHand, AcquireReserve, Goto
  <2>6. c \notin SlotOwners /\ SlotOwners' = SlotOwners \cup {c}
    BY <1>12 DEF ClientTypeOK, AcquireReserve, Goto, SlotOwners
  <2>7. Cardinality(SlotOwners') = Cardinality(SlotOwners) + 1
    BY <2>6, OwnersGrow
  <2>a. (MaxOpen = 0 /\ sem' = sem) \/ (MaxOpen > 0 /\ sem < MaxOpen /\ sem' = sem + 1)
    BY <1>12 DEF AcquireReserve
  <2>b. SemCounts'
    <3>1. CASE MaxOpen = 0
      BY <3>1, <2>a DEF SemCounts
    <3>2. CASE MaxOpen > 0
      BY <3>2, <2>a, <2>7 DEF SemCounts
    <3>3. QED
      BY <3>1, <3>2
  <2>c. SemBounded'
    BY <2>a DEF SemBounded, PoolTypeOK
  <2>8. QED
    BY <2>1, <2>2, <2>3, <2>4, <2>5, <2>b, <2>c
<1>13. ASSUME NEW c \in Clients, ReleaseSem(c) PROVE IInv'
  <2>1. c \in SlotOwners /\ SlotOwners' = SlotOwners \ {c}
    BY <1>13 DEF ClientTypeOK, ReleaseSem, Goto, SlotOwners
  <2>2. SemCounts' /\ SemBounded' /\ sem' \in Nat
    <3>1. /\ Cardinality(SlotOwners) \in Nat \ {0}
          /\ Cardinality(SlotOwners') = Cardinality(SlotOwners) - 1
      BY <2>1, OwnersShrink
    <3>2. sem' = IF MaxOpen = 0 THEN sem ELSE sem - 1
      BY <1>13 DEF ReleaseSem
    <3>3. CASE MaxOpen = 0
      BY <3>2, <3>3 DEF SemCounts, SemBounded
    <3>4. CASE MaxOpen > 0
      BY <3>1, <3>2, <3>4 DEF SemCounts, SemBounded
    <3>5. QED
      BY <3>3, <3>4
  <2>3. PoolTypeOK'
    BY <1>13, <2>2 DEF PoolTypeOK, ReleaseSem
  <2>4. ClientTypeOK'
    BY <1>13 DEF ClientTypeOK, ReleaseSem, Goto, ClientPcs
  <2>5. HealthTypeOK' /\ SweepHasWork'
    BY <1>13 DEF HealthTypeOK, SweepHasWork, ReleaseSem, healthVars
  <2>6. CloserTypeOK'
    BY <1>13, Zenon DEF CloserTypeOK, ReleaseSem, closerVars
  <2>7. ConnInHand'
    BY <1>13 DEF ClientTypeOK, ConnInHand, ReleaseSem, Goto
  <2>8. QED
    BY <2>2, <2>3, <2>4, <2>5, <2>6, <2>7
<1>14. ASSUME SweepStart PROVE IInv'
  <2>1. PoolTypeOK'
    BY <1>14 DEF PoolTypeOK, HealthTypeOK, CloserTypeOK, SweepStart, poolVars
  <2>2. ClientTypeOK' /\ ConnInHand'
    BY <1>14 DEF ClientTypeOK, ConnInHand, SweepStart, clientVars
  <2>3. HealthTypeOK' /\ SweepHasWork'
    BY <1>14 DEF PoolTypeOK, HealthTypeOK, SweepHasWork, SweepStart, healthVars, Workers
  <2>4. CloserTypeOK'
    BY <1>14, Zenon DEF CloserTypeOK, SweepStart, closerVars, poolVars
  <2>5. SlotOwners' = SlotOwners /\ sem' = sem
    BY <1>14 DEF SweepStart, SlotOwners, clientVars, poolVars
  <2>6. QED
    BY <2>1, <2>2, <2>3, <2>4, <2>5, OwnersSame
<1>15. ASSUME HealthStop PROVE IInv'
  <2>1. PoolTypeOK'
    BY <1>15 DEF PoolTypeOK, HealthTypeOK, CloserTypeOK, HealthStop, poolVars
  <2>2. ClientTypeOK' /\ ConnInHand'
    BY <1>15 DEF ClientTypeOK, ConnInHand, HealthStop, clientVars
  <2>3. HealthTypeOK' /\ SweepHasWork'
    BY <1>15 DEF PoolTypeOK, HealthTypeOK, SweepHasWork, HealthStop, healthVars, Workers
  <2>4. CloserTypeOK'
    BY <1>15, Zenon DEF CloserTypeOK, HealthStop, closerVars, poolVars
  <2>5. SlotOwners' = SlotOwners /\ sem' = sem
    BY <1>15 DEF HealthStop, SlotOwners, clientVars, poolVars
  <2>6. QED
    BY <2>1, <2>2, <2>3, <2>4, <2>5, OwnersSame
<1>16. ASSUME SweepTake PROVE IInv'
  <2>a. /\ idle' = idle \/ idle' = [idle EXCEPT ![hcSlot] = <<>>]
        /\ snapshot' = snapshot \/ snapshot' = idle[hcSlot]
        /\ \/ hcPc' \in {"inspect", "wait"} /\ hcSlot' = hcSlot
           \/ hcPc' = "take" /\ hcSlot + 1 < NumWorkers /\ hcSlot' = hcSlot + 1
        /\ UNCHANGED <<sem, openCount, open, home, survivors>>
    BY <1>16 DEF SweepTake, SweepNextSlot
  <2>b. hcSlot + 1 < NumWorkers => hcSlot + 1 \in Workers
    BY DEF HealthTypeOK, Workers
  <2>c. <<>> \in Seq(Conns)
    OBVIOUS
  <2>d. idle' \in [Workers -> Seq(Conns)]
    BY <2>a, <2>c DEF PoolTypeOK, HealthTypeOK
  <2>1. PoolTypeOK'
    BY <2>a, <2>d DEF PoolTypeOK
  <2>2. ClientTypeOK' /\ ConnInHand'
    BY <1>16 DEF ClientTypeOK, ConnInHand, SweepTake, clientVars
  <2>3. HealthTypeOK' /\ SweepHasWork'
    BY <2>a, <2>b DEF PoolTypeOK, HealthTypeOK, SweepHasWork
  <2>4. CloserTypeOK'
    BY <1>16, Zenon DEF CloserTypeOK, SweepTake, closerVars, poolVars
  <2>5. SlotOwners' = SlotOwners /\ sem' = sem
    BY <1>16 DEF SweepTake, SlotOwners, clientVars, poolVars
  <2>6. QED
    BY <2>1, <2>2, <2>3, <2>4, <2>5, OwnersSame
<1>17. ASSUME SweepInspect PROVE IInv'
  <2>a. Head(snapshot) \in Conns /\ Tail(snapshot) \in Seq(Conns)
    BY <1>17, HeadTailType DEF SweepInspect, HealthTypeOK
  <2>b. Append(survivors, Head(snapshot)) \in Seq(Conns)
    BY <2>a, AppendType DEF HealthTypeOK
  <2>c. /\ snapshot' = Tail(snapshot)
        /\ hcPc' \in {"reinsert", "inspect"}
        /\ survivors' = survivors \/ survivors' = Append(survivors, Head(snapshot))
        /\ UNCHANGED hcSlot
    BY <1>17 DEF SweepInspect
  <2>1. PoolTypeOK'
    BY <1>17 DEF PoolTypeOK, HealthTypeOK, CloserTypeOK, SweepInspect, CloseConn, poolVars
  <2>2. ClientTypeOK' /\ ConnInHand'
    BY <1>17 DEF ClientTypeOK, ConnInHand, SweepInspect, clientVars
  <2>3. HealthTypeOK' /\ SweepHasWork'
    BY <2>a, <2>b, <2>c DEF HealthTypeOK, SweepHasWork
  <2>4. CloserTypeOK'
    BY <1>17, Zenon DEF CloserTypeOK, SweepInspect, closerVars, poolVars
  <2>5. SlotOwners' = SlotOwners /\ sem' = sem
    BY <1>17 DEF SweepInspect, SlotOwners, clientVars, poolVars
  <2>6. QED
    BY <2>1, <2>2, <2>3, <2>4, <2>5, OwnersSame
<1>18. ASSUME SweepReinsert PROVE IInv'
  <2> DEFINE have == Len(idle[hcSlot])
             room == IF MaxIdlePerWorker = 0 \/ Len(survivors) <= MaxIdlePerWorker - have
                     THEN Len(survivors)
                     ELSE IF have < MaxIdlePerWorker THEN MaxIdlePerWorker - have ELSE 0
  <2>a. have \in Nat /\ Len(survivors) \in Nat
    BY DEF PoolTypeOK, HealthTypeOK
  <2>b. room \in Nat /\ room <= Len(survivors)
    BY <2>a
  <2>c. /\ idle' = [idle EXCEPT ![hcSlot] = @ \o SubSeq(survivors, 1, room)]
        /\ survivors' = SubSeq(survivors, room + 1, Len(survivors))
        /\ \/ room = Len(survivors) /\ SweepNextSlot
           \/ room < Len(survivors) /\ hcPc' = "excess" /\ UNCHANGED hcSlot
    BY <1>18 DEF SweepReinsert
  <2> HIDE DEF have, room
  <2>d. /\ SubSeq(survivors, 1, room) \in Seq(Conns)
        /\ SubSeq(survivors, room + 1, Len(survivors)) \in Seq(Conns)
    BY <2>a, <2>b, SubSeqType DEF HealthTypeOK
  <2>e. room < Len(survivors) => survivors' # <<>>
    BY <2>b, <2>c, SubSeqNonEmpty DEF HealthTypeOK
  <2>f. idle[hcSlot] \o SubSeq(survivors, 1, room) \in Seq(Conns)
    BY <2>d, ConcatType DEF PoolTypeOK, HealthTypeOK
  <2>g. idle' = [idle EXCEPT ![hcSlot] = idle[hcSlot] \o SubSeq(survivors, 1, room)]
    BY <2>c
  <2>h. UNCHANGED <<sem, openCount, open, home, snapshot>>
    BY <1>18 DEF SweepReinsert
  <2>i. \/ hcPc' = "wait" /\ hcSlot' = hcSlot
        \/ hcPc' = "take" /\ hcSlot' \in Workers
        \/ hcPc' = "excess" /\ hcSlot' = hcSlot /\ survivors' # <<>>
    BY <2>c, <2>e DEF SweepNextSlot, HealthTypeOK, Workers
  <2>1. PoolTypeOK'
    BY <2>f, <2>g, <2>h DEF PoolTypeOK, HealthTypeOK
  <2>2. ClientTypeOK' /\ ConnInHand'
    BY <1>18 DEF ClientTypeOK, ConnInHand, SweepReinsert, clientVars
  <2>3. HealthTypeOK' /\ SweepHasWork'
    BY <2>c, <2>d, <2>h, <2>i DEF HealthTypeOK, SweepHasWork
  <2>4. CloserTypeOK'
    BY <1>18, Zenon DEF CloserTypeOK, SweepReinsert, closerVars, poolVars
  <2>5. SlotOwners' = SlotOwners /\ sem' = sem
    BY <1>18 DEF SweepReinsert, SlotOwners, clientVars, poolVars
  <2>6. QED
    BY <2>1, <2>2, <2>3, <2>4, <2>5, OwnersSame
<1>19. ASSUME SweepExcess PROVE IInv'
  <2>1. PoolTypeOK'
    BY <1>19 DEF PoolTypeOK, HealthTypeOK, CloserTypeOK, SweepExcess, CloseConn, poolVars
  <2>2. ClientTypeOK' /\ ConnInHand'
    BY <1>19 DEF ClientTypeOK, ConnInHand, SweepExcess, clientVars
  <2>3. HealthTypeOK' /\ SweepHasWork'
    BY <1>19 DEF PoolTypeOK, HealthTypeOK, SweepHasWork, SweepExcess, CloseConn, healthVars, Workers
  <2>4. CloserTypeOK'
    BY <1>19, Zenon DEF CloserTypeOK, SweepExcess, closerVars, poolVars
  <2>5. SlotOwners' = SlotOwners /\ sem' = sem
    BY <1>19 DEF SweepExcess, SlotOwners, clientVars, poolVars
  <2>6. QED
    BY <2>1, <2>2, <2>3, <2>4, <2>5, OwnersSame
<1>20. ASSUME CloseCall PROVE IInv'
  <2>1. PoolTypeOK'
    BY <1>20 DEF PoolTypeOK, HealthTypeOK, CloserTypeOK, CloseCall, poolVars
  <2>2. ClientTypeOK' /\ ConnInHand'
    BY <1>20 DEF ClientTypeOK, ConnInHand, CloseCall, clientVars
  <2>3. HealthTypeOK' /\ SweepHasWork'
    BY <1>20 DEF PoolTypeOK, HealthTypeOK, SweepHasWork, CloseCall, healthVars, Workers
  <2>4. CloserTypeOK'
    BY <1>20, Zenon DEF CloserTypeOK, CloseCall, closerVars, poolVars
  <2>5. SlotOwners' = SlotOwners /\ sem' = sem
    BY <1>20 DEF CloseCall, SlotOwners, clientVars, poolVars
  <2>6. QED
    BY <2>1, <2>2, <2>3, <2>4, <2>5, OwnersSame
<1>21. ASSUME CloseWaitHealth PROVE IInv'
  <2>1. PoolTypeOK'
    BY <1>21 DEF PoolTypeOK, HealthTypeOK, CloserTypeOK, CloseWaitHealth, poolVars
  <2>2. ClientTypeOK' /\ ConnInHand'
    BY <1>21 DEF ClientTypeOK, ConnInHand, CloseWaitHealth, clientVars
  <2>3. HealthTypeOK' /\ SweepHasWork'
    BY <1>21 DEF PoolTypeOK, HealthTypeOK, SweepHasWork, CloseWaitHealth, healthVars, Workers
  <2>4. CloserTypeOK'
    BY <1>21, Zenon DEF CloserTypeOK, CloseWaitHealth, closerVars, poolVars
  <2>5. SlotOwners' = SlotOwners /\ sem' = sem
    BY <1>21 DEF CloseWaitHealth, SlotOwners, clientVars, poolVars
  <2>6. QED
    BY <2>1, <2>2, <2>3, <2>4, <2>5, OwnersSame
<1>22. ASSUME CloseDrainSlot PROVE IInv'
  <2>1. PoolTypeOK'
    BY <1>22 DEF PoolTypeOK, HealthTypeOK, CloserTypeOK, CloseDrainSlot, poolVars
  <2>2. ClientTypeOK' /\ ConnInHand'
    BY <1>22 DEF ClientTypeOK, ConnInHand, CloseDrainSlot, clientVars
  <2>3. HealthTypeOK' /\ SweepHasWork'
    BY <1>22 DEF PoolTypeOK, HealthTypeOK, SweepHasWork, CloseDrainSlot, healthVars, Workers
  <2>4. CloserTypeOK'
    BY <1>22 DEF CloserTypeOK, CloseDrainSlot, closerVars, poolVars, Workers
  <2>5. SlotOwners' = SlotOwners /\ sem' = sem
    BY <1>22 DEF CloseDrainSlot, SlotOwners, clientVars, poolVars
  <2>6. QED
    BY <2>1, <2>2, <2>3, <2>4, <2>5, OwnersSame
<1>23. CASE UNCHANGED vars
  <2>1. PoolTypeOK' /\ ClientTypeOK' /\ HealthTypeOK'
    BY <1>23 DEF PoolTypeOK, ClientTypeOK, HealthTypeOK, vars, poolVars, clientVars, healthVars
  <2>2. CloserTypeOK'
    BY <1>23, Zenon DEF CloserTypeOK, vars, poolVars, closerVars
  <2>3. ConnInHand' /\ SweepHasWork' /\ SlotOwners' = SlotOwners /\ sem' = sem
    BY <1>23 DEF ConnInHand, SweepHasWork, SlotOwners, vars, poolVars, clientVars, healthVars
  <2>4. QED
    BY <2>1, <2>2, <2>3, OwnersSame
<1>24. QED
  BY <1>1, <1>2, <1>3, <1>4, <1>5, <1>6, <1>7, <1>8, <1>9, <1>10, <1>11, <1>12, <1>13, <1>14, <1>15, <1>16, <1>17, <1>18, <1>19, <1>20, <1>21, <1>22, <1>23
  DEF Next, Client, AcquireStep, ReturnStep, Health, Closer

-----------------------------------------------------------------------------
\* Types, for every pool: in particular a receive on p.sem always finds a token.
THEOREM TypeCorrect == Spec => []TypeOK
<1>1. IInv => TypeOK
  BY DEF IInv
<1>2. QED
  BY <1>1, InitInv, StepInv, PTL DEF Spec

\* The semaphore never leaks or duplicates a slot (Acquire: "every error path
\* must release it").
THEOREM SemAccountingHolds == Spec => []SemAccounting
<1>1. IInv => SemAccounting
  BY DEF IInv, SemAccounting, SemCounts, SemBounded
<1>2. QED
  BY <1>1, InitInv, StepInv, PTL DEF Spec

\* At most MaxOpen connections are in use.
THEOREM InUseBoundHolds == Spec => []InUseBound
<1>1. IInv => InUseBound
  <2> SUFFICES ASSUME IInv, MaxOpen > 0
               PROVE  Cardinality({c \in Clients : conn[c] # NoConn}) <= MaxOpen
    BY DEF InUseBound
  <2> DEFINE inUse == {c \in Clients : conn[c] # NoConn}
  <2>1. inUse \subseteq SlotOwners
    BY DEF IInv, ConnInHand, SlotOwners
  <2>2. IsFiniteSet(SlotOwners)
    BY PoolAssumption, FS_Subset DEF SlotOwners
  <2>3. /\ Cardinality(inUse) <= Cardinality(SlotOwners)
        /\ Cardinality(inUse) \in Nat /\ Cardinality(SlotOwners) \in Nat
    BY <2>1, <2>2, FS_Subset, FS_CardinalityType
  <2>4. Cardinality(SlotOwners) <= MaxOpen
    BY PoolAssumption DEF IInv, SemCounts, SemBounded
  <2>5. QED
    BY <2>3, <2>4, PoolAssumption
<1>2. QED
  BY <1>1, InitInv, StepInv, PTL DEF Spec

=============================================================================
