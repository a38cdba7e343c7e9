------------------------ MODULE AdaptiveSwitchProofs ------------------------
(***************************************************************************)
(* Proofs about AdaptiveSwitch, for any number of driver file descriptors, *)
(* callers of ForceSwitch, loops and freezes.                              *)
(***************************************************************************)
EXTENDS AdaptiveSwitch, FiniteSetTheorems, TLAPS

\* A switcher inside performSwitch holds mu, and one that is committing holds
\* freezeState; nobody else holds either across steps.
LockInv ==
    /\ pc \in [Switchers -> Labels]
    /\ mu \in Switchers \cup {None} /\ fs \in Switchers \cup {None}
    /\ \A s \in Switchers : mu = s <=> pc[s] \notin {"idle", "decided"}
    /\ \A s \in Switchers : fs = s <=> pc[s] = "commit"

\* The driver FDs that are counted.
Counted == {d \in Drivers : dpc[d] # "out"}

CountInv ==
    /\ driverFDs \in Nat /\ driverFDs = Cardinality(Counted)
    /\ dpc \in [Drivers -> {"out", "counted", "loaded", "pinned", "leaving"}]
    /\ fs # None => driverFDs = 0

PinInv == active \in Engines /\ at \in [Drivers -> Engines \cup {None}] /\ DriverOnActive

FreezeInv ==
    /\ userFreezes \in Nat /\ cooldownFreezes \in Nat /\ frozen \in BOOLEAN
    /\ FrozenExact

\* What a switch has already stopped at each of its lines.
DrainInv ==
    /\ active \in built /\ built \subseteq Engines
    /\ accept \in [Engines -> BOOLEAN] /\ drain \in [Engines -> BOOLEAN]
    /\ \A e \in Engines : accept[e] => ~drain[e]
    /\ \A e \in Engines \ built : ~drain[e]
    /\ ~drain[active]
    /\ fs # None => ~drain[Other(active)]
    /\ \A s \in Switchers : pc[s] \in {"drainfresh", "transplant"} => ~accept[Other(active)]
    /\ \A s \in Switchers : pc[s] \notin {"idle", "decided", "resolve"} => built = Engines

IInv == LockInv /\ CountInv /\ PinInv /\ FreezeInv /\ DrainInv

-----------------------------------------------------------------------------
\* A finite set that gains or loses an element changes its size by one.
LEMMA SizeGrows ==
  ASSUME NEW S, IsFiniteSet(S), NEW x, x \notin S
  PROVE  Cardinality(S \cup {x}) = Cardinality(S) + 1
BY FS_AddElement

LEMMA SizeShrinks ==
  ASSUME NEW S, IsFiniteSet(S), NEW x, x \in S
  PROVE  Cardinality(S \ {x}) = Cardinality(S) - 1
BY FS_RemoveElement

LEMMA CountedFinite == IsFiniteSet(Counted) /\ Cardinality(Counted) \in Nat
BY DriversAssumption, FS_Subset, FS_CardinalityType DEF Counted

LEMMA OtherType == \A e \in Engines : Other(e) \in Engines /\ Other(e) # e /\ Other(Other(e)) = e
BY DEF Engines, Other

LEMMA InitInv == Init => IInv
<1> SUFFICES ASSUME Init PROVE IInv
  OBVIOUS
<1>1. LockInv
  BY SwitchersAssumption DEF Init, LockInv, Labels
<1>2. Counted = {}
  BY DEF Init, Counted
<1>3. CountInv
  BY <1>2, FS_EmptySet DEF Init, CountInv
<1>4. PinInv
  BY DEF Init, PinInv, DriverOnActive
<1>5. FreezeInv
  <2>1. frozen = FALSE /\ userFreezes = 0 /\ driverFDs = 0 /\ cooldownFreezes = 0
    BY Zenon DEF Init
  <2>2. ~(userFreezes + driverFDs + cooldownFreezes > 0)
    BY <2>1, SMT
  <2>3. userFreezes \in Nat /\ cooldownFreezes \in Nat
    BY <2>1, SMT
  <2>4. QED
    BY <2>1, <2>2, <2>3, Zenon DEF FreezeInv, FrozenExact
<1>6. DrainInv
  BY <1>1 DEF Init, DrainInv
<1>7. QED
  BY <1>1, <1>3, <1>4, <1>5, <1>6 DEF IInv

-----------------------------------------------------------------------------
(* The locks. *)

LEMMA LockStep == LockInv /\ [Next]_vars => LockInv'
<1> SUFFICES ASSUME LockInv, [Next]_vars PROVE LockInv'
  OBVIOUS
<1> USE SwitchersAssumption DEF LockInv, Labels, Goto
<1>1. CASE UNCHANGED <<pc, mu, fs>>
  BY <1>1
<1>2. CASE Evaluate
  BY <1>2 DEF Evaluate, Switchers
<1>3. ASSUME NEW s \in ForceCallers, ForceSwitch(s) PROVE LockInv'
  BY <1>3 DEF ForceSwitch, Switchers
<1>4. ASSUME NEW s \in Switchers, SwitchStep(s) PROVE LockInv'
  <2>1. CASE Enter(s)
    <3>1. CASE driverFDs > 0
      BY <2>1, <3>1 DEF Enter, Return
    <3>2. CASE ~(driverFDs > 0)
      BY <2>1, <3>2 DEF Enter
    <3>3. QED
      BY <3>1, <3>2
  <2>2. CASE SlotFilled(s)
    BY <2>2 DEF SlotFilled
  <2>3. CASE Build(s)
    BY <2>3 DEF Build
  <2>4. CASE BuildFails(s)
    BY <2>4 DEF BuildFails, Return
  <2>5. CASE Refuse(s)
    <3>1. CASE fresh
      BY <2>5, <3>1 DEF Refuse
    <3>2. CASE ~fresh
      BY <2>5, <3>2 DEF Refuse, Return
    <3>3. QED
      BY <3>1, <3>2
  <2>6. CASE PauseFresh(s)
    BY <2>6 DEF PauseFresh
  <2>7. CASE DrainFresh(s)
    BY <2>7 DEF DrainFresh, Return
  <2>8. CASE StartCommit(s)
    BY <2>8 DEF StartCommit
  <2>9. CASE Commit(s)
    BY <2>9 DEF Commit
  <2>10. CASE SawListener(s)
    BY <2>10 DEF SawListener
  <2>11. CASE WaitExpires(s)
    BY <2>11 DEF WaitExpires
  <2>12. CASE PauseOld(s)
    BY <2>12 DEF PauseOld
  <2>13. CASE Transplant(s)
    <3>1. CASE MaxCooldowns > 0
      BY <2>13, <3>1 DEF Transplant
    <3>2. CASE ~(MaxCooldowns > 0)
      BY <2>13, <3>2 DEF Transplant, Return
    <3>3. QED
      BY <3>1, <3>2
  <2>14. CASE StartCooldown(s)
    BY <2>14 DEF StartCooldown, Return
  <2>15. QED
    BY <1>4, <2>1, <2>2, <2>3, <2>4, <2>5, <2>6, <2>7, <2>8, <2>9, <2>10,
       <2>11, <2>12, <2>13, <2>14 DEF SwitchStep
<1>5. ASSUME NEW d \in Drivers, DriverStep(d) PROVE UNCHANGED <<pc, mu, fs>>
  BY <1>5 DEF DriverStep, RegisterConn, LoadActive, InnerRegister,
     UnregisterConn, Release, switchVars
<1>6. ASSUME FreezeSwitching \/ UnfreezeSwitching \/ CooldownEnds PROVE UNCHANGED <<pc, mu, fs>>
  BY <1>6 DEF FreezeSwitching, UnfreezeSwitching, CooldownEnds, switchVars
<1>7. ASSUME NEW e \in Engines, NEW l \in Loops, Listens(e, l) \/ ListenFails(e, l) \/ Closes(e, l)
      PROVE  UNCHANGED <<pc, mu, fs>>
  BY <1>7 DEF Listens, ListenFails, Closes, switchVars
<1>8. CASE UNCHANGED vars
  BY <1>8 DEF vars
<1>9. QED
  BY <1>1, <1>2, <1>3, <1>4, <1>5, <1>6, <1>7, <1>8 DEF Next

-----------------------------------------------------------------------------
(* The driver FDs that are counted, and the engine they are on. *)

\* Only the drivers' own steps change what is counted.
LEMMA SwitchKeepsCount ==
  ASSUME LockInv, CountInv, UNCHANGED <<driverFDs, dpc>>,
         fs' # None => fs # None \/ driverFDs = 0
  PROVE  CountInv'
BY DEF CountInv, Counted

LEMMA CountStep == IInv /\ [Next]_vars => CountInv'
<1> SUFFICES ASSUME LockInv, CountInv, [Next]_vars PROVE CountInv'
  BY DEF IInv
<1>1. ASSUME NEW s \in Switchers, SwitchStep(s) PROVE CountInv'
  <2>1. UNCHANGED <<driverFDs, dpc>>
    BY <1>1 DEF SwitchStep, Enter, SlotFilled, Build, BuildFails, Refuse,
       PauseFresh, DrainFresh, StartCommit, Commit, SawListener, WaitExpires,
       PauseOld, Transplant, StartCooldown, freezeVars, driverVars
  <2>2. StartCommit(s) => driverFDs = 0
    BY DEF StartCommit, DriversArrived, CountInv
  <2>3. ~StartCommit(s) => (fs' # None => fs # None)
    BY <1>1 DEF SwitchStep, Enter, SlotFilled, Build, BuildFails, Refuse,
       PauseFresh, DrainFresh, Commit, SawListener, WaitExpires,
       PauseOld, Transplant, StartCooldown
  <2>4. QED
    BY <2>1, <2>2, <2>3, SwitchKeepsCount
<1>2. ASSUME NEW d \in Drivers, DriverStep(d) PROVE CountInv'
  <2>1. CASE RegisterConn(d)
    <3>1. d \notin Counted /\ Counted' = Counted \cup {d}
      BY <2>1 DEF RegisterConn, Counted, CountInv
    <3>2. Cardinality(Counted') = Cardinality(Counted) + 1
      BY <3>1, CountedFinite, SizeGrows
    <3>3. driverFDs' = driverFDs + 1 /\ fs' = None
      BY <2>1 DEF RegisterConn, acquireDriverFD, switchVars
    <3>4. dpc' \in [Drivers -> {"out", "counted", "loaded", "pinned", "leaving"}]
      BY <2>1 DEF RegisterConn, CountInv
    <3>5. QED
      BY <3>2, <3>3, <3>4 DEF CountInv
  <2>2. CASE Release(d)
    <3>1. d \in Counted /\ Counted' = Counted \ {d}
      BY <2>2 DEF Release, Counted, CountInv
    <3>2. Cardinality(Counted') = Cardinality(Counted) - 1 /\ Cardinality(Counted') \in Nat
      BY <3>1, CountedFinite, SizeShrinks, FS_RemoveElement, FS_CardinalityType
    <3>3. driverFDs' = driverFDs - 1 /\ fs' = None
      BY <2>2 DEF Release, releaseDriverFD, switchVars
    <3>4. dpc' \in [Drivers -> {"out", "counted", "loaded", "pinned", "leaving"}]
      BY <2>2 DEF Release, CountInv
    <3>5. QED
      BY <3>2, <3>3, <3>4 DEF CountInv
  <2>3. CASE LoadActive(d) \/ InnerRegister(d) \/ UnregisterConn(d)
    <3>1. UNCHANGED <<driverFDs, fs>>
      BY <2>3 DEF LoadActive, InnerRegister, UnregisterConn, freezeVars, switchVars
    <3>2. PICK where \in {"loaded", "pinned", "leaving"} :
             dpc[d] # "out" /\ dpc' = [dpc EXCEPT ![d] = where]
      BY <2>3 DEF LoadActive, InnerRegister, UnregisterConn
    <3>3. Counted' = Counted
      BY <3>2 DEF Counted, CountInv
    <3>4. QED
      BY <3>1, <3>2, <3>3 DEF CountInv
  <2>4. QED
    BY <1>2, <2>1, <2>2, <2>3 DEF DriverStep
<1>3. ASSUME UNCHANGED <<driverFDs, dpc, fs>> PROVE CountInv'
  BY <1>3, SwitchKeepsCount
<1>4. CASE Evaluate \/ (\E s \in ForceCallers : ForceSwitch(s))
  BY <1>3, <1>4 DEF Evaluate, ForceSwitch, freezeVars, driverVars
<1>5. CASE FreezeSwitching \/ UnfreezeSwitching \/ CooldownEnds
  BY <1>3, <1>5 DEF FreezeSwitching, UnfreezeSwitching, CooldownEnds, driverVars, switchVars
<1>6. CASE \E e \in Engines, l \in Loops : Listens(e, l) \/ ListenFails(e, l) \/ Closes(e, l)
  BY <1>3, <1>6 DEF Listens, ListenFails, Closes, freezeVars, driverVars, switchVars
<1>7. CASE UNCHANGED vars
  BY <1>3, <1>7 DEF vars
<1>8. QED
  BY <1>1, <1>2, <1>4, <1>5, <1>6, <1>7 DEF Next

\* The one step that changes active is taken with no driver FD counted.
LEMMA PinStep == IInv /\ [Next]_vars => PinInv'
<1> SUFFICES ASSUME LockInv, CountInv, PinInv, [Next]_vars PROVE PinInv'
  BY DEF IInv
<1>1. ASSUME UNCHANGED <<active, dpc, at>> PROVE PinInv'
  BY <1>1 DEF PinInv, DriverOnActive
<1>2. ASSUME NEW s \in Switchers, Commit(s) PROVE PinInv'
  <2>1. driverFDs = 0
    BY <1>2, SwitchersAssumption DEF Commit, LockInv, CountInv
  <2>2. Counted = {}
    BY <2>1, CountedFinite, FS_EmptySet DEF CountInv
  <2>3. \A d \in Drivers : dpc'[d] = "out"
    BY <1>2, <2>2 DEF Counted, Commit, driverVars
  <2>4. active' \in Engines /\ at' = at
    BY <1>2, OtherType DEF Commit, Incoming, PinInv, driverVars
  <2>5. QED
    BY <2>3, <2>4 DEF PinInv, DriverOnActive
<1>3. ASSUME NEW s \in Switchers, SwitchStep(s), ~Commit(s) PROVE UNCHANGED <<active, dpc, at>>
  BY <1>3 DEF SwitchStep, Enter, SlotFilled, Build, BuildFails, Refuse,
     PauseFresh, DrainFresh, StartCommit, SawListener, WaitExpires,
     PauseOld, Transplant, StartCooldown, freezeVars, driverVars
<1>4. ASSUME NEW d \in Drivers, DriverStep(d) PROVE PinInv'
  <2> active' = active
    BY <1>4 DEF DriverStep, RegisterConn, LoadActive, InnerRegister,
       UnregisterConn, Release, switchVars
  <2>1. CASE LoadActive(d)
    BY <2>1 DEF LoadActive, PinInv, DriverOnActive, CountInv
  <2>2. CASE InnerRegister(d)
    BY <2>2 DEF InnerRegister, PinInv, DriverOnActive, CountInv
  <2>3. CASE RegisterConn(d) \/ UnregisterConn(d) \/ Release(d)
    BY <2>3 DEF RegisterConn, UnregisterConn, Release, PinInv, DriverOnActive, CountInv
  <2>4. QED
    BY <1>4, <2>1, <2>2, <2>3 DEF DriverStep
<1>5. CASE Evaluate \/ (\E s \in ForceCallers : ForceSwitch(s))
  BY <1>1, <1>5 DEF Evaluate, ForceSwitch, driverVars
<1>6. CASE FreezeSwitching \/ UnfreezeSwitching \/ CooldownEnds
  BY <1>1, <1>6 DEF FreezeSwitching, UnfreezeSwitching, CooldownEnds, driverVars, switchVars
<1>7. CASE \E e \in Engines, l \in Loops : Listens(e, l) \/ ListenFails(e, l) \/ Closes(e, l)
  BY <1>1, <1>7 DEF Listens, ListenFails, Closes, driverVars, switchVars
<1>8. CASE UNCHANGED vars
  BY <1>1, <1>8 DEF vars
<1>9. QED
  BY <1>1, <1>2, <1>3, <1>4, <1>5, <1>6, <1>7, <1>8 DEF Next

-----------------------------------------------------------------------------
(* The reasons that freeze switching. *)

LEMMA FrozenNow ==
  ASSUME FreezeInv, frozen' = TRUE,
         userFreezes' \in Nat, driverFDs' \in Nat, cooldownFreezes' \in Nat,
         userFreezes' + driverFDs' + cooldownFreezes' > 0
  PROVE  FreezeInv'
BY Zenon DEF FreezeInv, FrozenExact

LEMMA StaysWhile ==
  ASSUME NEW users \in Nat, NEW fds \in Nat, NEW cools \in Nat
  PROVE  StaysFrozen(users, fds, cools) <=> users + fds + cools > 0
BY SMT DEF StaysFrozen

\* A reason goes away, and maybeThawLocked looks at what is left.
LEMMA ThawExact ==
  ASSUME FreezeInv, frozen = TRUE,
         userFreezes' \in Nat, driverFDs' \in Nat, cooldownFreezes' \in Nat,
         frozen' = (frozen /\ StaysFrozen(userFreezes', driverFDs', cooldownFreezes'))
  PROVE  FreezeInv'
<1>1. CASE userFreezes' + driverFDs' + cooldownFreezes' > 0
  <2>1. StaysFrozen(userFreezes', driverFDs', cooldownFreezes')
    BY <1>1, StaysWhile
  <2>2. frozen' = TRUE
    BY <2>1, Zenon
  <2>3. QED
    BY <1>1, <2>2, Zenon DEF FreezeInv, FrozenExact
<1>2. CASE ~(userFreezes' + driverFDs' + cooldownFreezes' > 0)
  <2>1. ~StaysFrozen(userFreezes', driverFDs', cooldownFreezes')
    BY <1>2, StaysWhile
  <2>2. frozen' = FALSE
    BY <2>1, Zenon
  <2>3. QED
    BY <1>2, <2>2, Zenon DEF FreezeInv, FrozenExact
<1>3. QED
  BY <1>1, <1>2

\* Somebody's reason is counted, so switching is frozen.
LEMMA HeldFrozen ==
  ASSUME FreezeInv, driverFDs \in Nat, userFreezes > 0 \/ driverFDs > 0 \/ cooldownFreezes > 0
  PROVE  frozen = TRUE
<1>1. userFreezes + driverFDs + cooldownFreezes > 0
  BY SMT DEF FreezeInv
<1>2. QED
  BY <1>1, Zenon DEF FreezeInv, FrozenExact

LEMMA FreezeStep == IInv /\ [Next]_vars => FreezeInv'
<1> SUFFICES ASSUME CountInv, CountInv', FreezeInv, [Next]_vars PROVE FreezeInv'
  BY CountStep DEF IInv
<1>0. userFreezes \in Nat /\ cooldownFreezes \in Nat /\ driverFDs \in Nat /\ driverFDs' \in Nat
  BY Zenon DEF CountInv, FreezeInv
<1>1. ASSUME UNCHANGED freezeVars PROVE FreezeInv'
  BY <1>1, Zenon DEF FreezeInv, FrozenExact, freezeVars
<1>2. CASE FreezeSwitching
  <2>1. frozen' = TRUE /\ userFreezes' = userFreezes + 1 /\ UNCHANGED <<driverFDs, cooldownFreezes>>
    BY <1>2, Zenon DEF FreezeSwitching
  <2>2. userFreezes' \in Nat /\ cooldownFreezes' \in Nat /\ userFreezes' + driverFDs' + cooldownFreezes' > 0
    BY <1>0, <2>1, SMT
  <2>3. QED
    BY <1>0, <2>1, <2>2, FrozenNow
<1>3. CASE UnfreezeSwitching
  <2>1. /\ userFreezes > 0 /\ userFreezes' = userFreezes - 1
        /\ UNCHANGED <<driverFDs, cooldownFreezes>>
        /\ frozen' = (frozen /\ StaysFrozen(userFreezes', driverFDs', cooldownFreezes'))
    BY <1>3, Zenon DEF UnfreezeSwitching
  <2>2. userFreezes' \in Nat /\ cooldownFreezes' \in Nat
    BY <1>0, <2>1, SMT
  <2>3. frozen = TRUE
    BY <1>0, <2>1, HeldFrozen
  <2>4. QED
    BY <1>0, <2>1, <2>2, <2>3, ThawExact
<1>4. CASE CooldownEnds
  <2>1. /\ cooldownFreezes > 0 /\ cooldownFreezes' = cooldownFreezes - 1
        /\ UNCHANGED <<driverFDs, userFreezes>>
        /\ frozen' = (frozen /\ StaysFrozen(userFreezes', driverFDs', cooldownFreezes'))
    BY <1>4, Zenon DEF CooldownEnds
  <2>2. userFreezes' \in Nat /\ cooldownFreezes' \in Nat
    BY <1>0, <2>1, SMT
  <2>3. frozen = TRUE
    BY <1>0, <2>1, HeldFrozen
  <2>4. QED
    BY <1>0, <2>1, <2>2, <2>3, ThawExact
<1>5. ASSUME NEW d \in Drivers, RegisterConn(d) PROVE FreezeInv'
  <2>1. frozen' = TRUE /\ driverFDs' = driverFDs + 1 /\ UNCHANGED <<userFreezes, cooldownFreezes>>
    BY <1>5, Zenon DEF RegisterConn, acquireDriverFD
  <2>2. userFreezes' \in Nat /\ cooldownFreezes' \in Nat /\ userFreezes' + driverFDs' + cooldownFreezes' > 0
    BY <1>0, <2>1, SMT
  <2>3. QED
    BY <1>0, <2>1, <2>2, FrozenNow
<1>6. ASSUME NEW d \in Drivers, Release(d) PROVE FreezeInv'
  <2>1. /\ driverFDs' = driverFDs - 1 /\ UNCHANGED <<userFreezes, cooldownFreezes>>
        /\ frozen' = (frozen /\ StaysFrozen(userFreezes', driverFDs', cooldownFreezes'))
    BY <1>6, Zenon DEF Release, releaseDriverFD
  <2>2. driverFDs > 0 /\ userFreezes' \in Nat /\ cooldownFreezes' \in Nat
    BY <1>0, <2>1, SMT
  <2>3. frozen = TRUE
    BY <1>0, <2>2, HeldFrozen
  <2>4. QED
    BY <1>0, <2>1, <2>2, <2>3, ThawExact
<1>7. ASSUME NEW s \in Switchers, StartCooldown(s) PROVE FreezeInv'
  <2>1. frozen' = TRUE /\ cooldownFreezes' = cooldownFreezes + 1 /\ UNCHANGED <<userFreezes, driverFDs>>
    BY <1>7, Zenon DEF StartCooldown
  <2>2. userFreezes' \in Nat /\ cooldownFreezes' \in Nat /\ userFreezes' + driverFDs' + cooldownFreezes' > 0
    BY <1>0, <2>1, SMT
  <2>3. QED
    BY <1>0, <2>1, <2>2, FrozenNow
<1>8. ASSUME NEW s \in Switchers, SwitchStep(s), ~StartCooldown(s) PROVE UNCHANGED freezeVars
  BY <1>8, Zenon DEF SwitchStep, Enter, SlotFilled, Build, BuildFails, Refuse,
     PauseFresh, DrainFresh, StartCommit, Commit, SawListener, WaitExpires,
     PauseOld, Transplant
<1>9. ASSUME NEW d \in Drivers, DriverStep(d), ~RegisterConn(d), ~Release(d) PROVE UNCHANGED freezeVars
  BY <1>9, Zenon DEF DriverStep, LoadActive, InnerRegister, UnregisterConn
<1>10. CASE Evaluate \/ (\E s \in ForceCallers : ForceSwitch(s))
  BY <1>1, <1>10, Zenon DEF Evaluate, ForceSwitch
<1>11. CASE \E e \in Engines, l \in Loops : Listens(e, l) \/ ListenFails(e, l) \/ Closes(e, l)
  BY <1>1, <1>11, Zenon DEF Listens, ListenFails, Closes
<1>12. CASE UNCHANGED vars
  BY <1>1, <1>12 DEF vars, freezeVars
<1>13. QED
  BY <1>1, <1>2, <1>3, <1>4, <1>5, <1>6, <1>7, <1>8, <1>9, <1>10, <1>11, <1>12 DEF Next

-----------------------------------------------------------------------------
(* Accepting and handing over. *)

LEMMA DrainSame ==
  ASSUME DrainInv, UNCHANGED <<active, built, accept, drain>>,
         fs' # None => fs # None,
         \A s \in Switchers : pc'[s] \in {"drainfresh", "transplant"}
                                 => pc[s] \in {"drainfresh", "transplant"},
         \A s \in Switchers : pc'[s] \notin {"idle", "decided", "resolve"}
                                 => built = Engines
  PROVE  DrainInv'
BY DEF DrainInv

\* While one switcher is inside performSwitch, no other is.
LEMMA Alone ==
  ASSUME LockInv, NEW s \in Switchers, pc[s] \notin {"idle", "decided"}
  PROVE  \A t \in Switchers \ {s} : pc[t] \in {"idle", "decided"}
BY DEF LockInv

LEMMA DrainStep == IInv /\ [Next]_vars => DrainInv'
<1> SUFFICES ASSUME LockInv, DrainInv, [Next]_vars PROVE DrainInv'
  BY DEF IInv
<1>0. active \in Engines /\ Incoming \in Engines /\ Incoming # active /\ Other(Incoming) = active
  BY OtherType DEF DrainInv, Incoming
<1>1. ASSUME NEW s \in Switchers, SwitchStep(s) PROVE DrainInv'
  <2>1. CASE Enter(s) \/ SlotFilled(s) \/ BuildFails(s) \/ Refuse(s) \/ SawListener(s)
             \/ WaitExpires(s) \/ StartCooldown(s)
    <3>1. UNCHANGED <<active, built, accept, drain, fs>>
      BY <2>1 DEF Enter, SlotFilled, BuildFails, Refuse, SawListener, WaitExpires,
         StartCooldown, engineVars
    <3>2. PICK label \in Labels \ {"drainfresh", "transplant"} : pc' = [pc EXCEPT ![s] = label]
      BY <2>1 DEF Enter, SlotFilled, BuildFails, Refuse, SawListener, WaitExpires,
         StartCooldown, Return, Goto, Labels
    <3>3. pc'[s] \notin {"idle", "decided", "resolve"} => built = Engines
      <4>1. CASE Enter(s) \/ BuildFails(s)
        BY <4>1 DEF Enter, BuildFails, Return, Goto, LockInv
      <4>2. CASE SlotFilled(s)
        <5>1. active \in built /\ Incoming \in built /\ built \subseteq Engines
          BY <4>2 DEF SlotFilled, DrainInv
        <5>2. \A e \in Engines : e = active \/ e = Incoming
          BY <1>0 DEF Engines
        <5>3. QED
          BY <5>1, <5>2
      <4>3. CASE Refuse(s) \/ SawListener(s) \/ WaitExpires(s) \/ StartCooldown(s)
        BY <4>3 DEF Refuse, SawListener, WaitExpires, StartCooldown, DrainInv
      <4>4. QED
        BY <2>1, <4>1, <4>2, <4>3
    <3>4. QED
      BY <3>1, <3>2, <3>3, DrainSame DEF LockInv, DrainInv
  <2>2. CASE Build(s)
    <3>1. \A t \in Switchers : pc'[t] \notin {"drainfresh", "transplant"}
      BY <2>2, Alone DEF Build, Goto, LockInv
    <3>2. built' = Engines
      BY <1>0, <2>2 DEF Build, DrainInv, Engines
    <3>3. QED
      BY <1>0, <2>2, <3>1, <3>2 DEF Build, DrainInv
  <2>3. CASE PauseFresh(s)
    BY <1>0, <2>3 DEF PauseFresh, PausedFresh, Goto, DrainInv, Incoming
  <2>4. CASE DrainFresh(s) \/ Transplant(s)
    <3>1. ~accept[Incoming] /\ built = Engines
      BY <2>4 DEF DrainFresh, Transplant, DrainInv, Incoming
    <3>2. \A t \in Switchers : pc'[t] \notin {"drainfresh", "transplant"}
      BY <2>4, Alone DEF DrainFresh, Transplant, Return, Goto, LockInv
    <3>3. \A e \in Engines : e = active \/ e = Incoming
      BY <1>0 DEF Engines
    <3>4. fs' = None
      BY <2>4, Alone, SwitchersAssumption DEF DrainFresh, Transplant, LockInv
    <3>5. drain' = [e \in Engines |-> e # active] /\ UNCHANGED <<active, built, accept>>
      BY <2>4 DEF DrainFresh, Transplant, applyTransplant
    <3>6. QED
      BY <1>0, <3>1, <3>2, <3>3, <3>4, <3>5 DEF DrainInv
  <2>5. CASE StartCommit(s)
    BY <1>0, <2>5 DEF StartCommit, StoppedDrain, Goto, LockInv, DrainInv, Incoming
  <2>6. CASE Commit(s)
    <3>1. ~drain[Incoming] /\ built = Engines
      BY <2>6, SwitchersAssumption DEF Commit, LockInv, DrainInv, Incoming
    <3>2. \A t \in Switchers : pc'[t] \notin {"drainfresh", "transplant"}
      BY <2>6, Alone DEF Commit, Goto, LockInv
    <3>3. QED
      BY <1>0, <2>6, <3>1, <3>2 DEF Commit, DrainInv
  <2>7. CASE PauseOld(s)
    BY <1>0, <2>7 DEF PauseOld, Goto, LockInv, DrainInv, Incoming
  <2>8. QED
    BY <1>1, <2>1, <2>2, <2>3, <2>4, <2>5, <2>6, <2>7 DEF SwitchStep
<1>2. CASE Evaluate
  BY <1>2 DEF Evaluate, LockInv, DrainInv, Switchers, engineVars
<1>3. ASSUME NEW s \in ForceCallers, ForceSwitch(s) PROVE DrainInv'
  BY <1>3 DEF ForceSwitch, LockInv, DrainInv, Switchers, engineVars
<1>4. ASSUME UNCHANGED <<active, built, accept, drain, fs, pc>> PROVE DrainInv'
  BY <1>4 DEF DrainInv
<1>5. ASSUME NEW d \in Drivers, DriverStep(d) PROVE UNCHANGED <<active, built, accept, drain, fs, pc>>
  BY <1>5 DEF DriverStep, RegisterConn, LoadActive, InnerRegister,
     UnregisterConn, Release, switchVars, engineVars
<1>6. ASSUME FreezeSwitching \/ UnfreezeSwitching \/ CooldownEnds
      PROVE  UNCHANGED <<active, built, accept, drain, fs, pc>>
  BY <1>6 DEF FreezeSwitching, UnfreezeSwitching, CooldownEnds, switchVars, engineVars
<1>7. ASSUME NEW e \in Engines, NEW l \in Loops, Listens(e, l) \/ ListenFails(e, l) \/ Closes(e, l)
      PROVE  UNCHANGED <<active, built, accept, drain, fs, pc>>
  BY <1>7 DEF Listens, ListenFails, Closes, switchVars
<1>8. CASE UNCHANGED vars
  BY <1>4, <1>8 DEF vars
<1>9. QED
  BY <1>1, <1>2, <1>3, <1>4, <1>5, <1>6, <1>7, <1>8 DEF Next

-----------------------------------------------------------------------------
\* The inductive invariant of performSwitch and the freezes around it.
THEOREM InvHolds == Spec => []IInv
<1>1. IInv /\ [Next]_vars => IInv'
  BY LockStep, CountStep, PinStep, FreezeStep, DrainStep DEF IInv
<1>2. QED
  BY InitInv, <1>1, PTL DEF Spec

\* A switch never leaves a driver's file descriptor on the engine it pauses,
\* however many drivers register and unregister around it (performSwitch,
\* RegisterConn, UnregisterConn).
THEOREM DriverOnActiveHolds == Spec => []DriverOnActive
<1>1. IInv => DriverOnActive
  BY DEF IInv, PinInv
<1>2. QED
  BY InvHolds, <1>1, PTL

\* Switching is frozen exactly while a user, a driver or a cooldown timer
\* holds a reason, for any number of each (maybeThawLocked).
THEOREM FrozenExactHolds == Spec => []FrozenExact
<1>1. IInv => FrozenExact
  BY DEF IInv, FreezeInv
<1>2. QED
  BY InvHolds, <1>1, PTL

\* An engine that is told to accept is not handing its connections away, and
\* the two engines never hand over to each other (performSwitch's order of
\* StopTransplant, ResumeAccept, beginPause and applyTransplant).
THEOREM NoPingPongHolds == Spec => []NoPingPong
<1>1. IInv => NoPingPong
  BY DEF IInv, DrainInv, NoPingPong, Engines
<1>2. QED
  BY InvHolds, <1>1, PTL
=============================================================================
