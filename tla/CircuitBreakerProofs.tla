------------------------ MODULE CircuitBreakerProofs ------------------------
(* Safety of the circuit breaker, for any number of threads and any          *)
(* threshold.  The three invariants are inductive together: a half-open      *)
(* step keeps OpenHasTripInstant because the breaker it finds Open has it,   *)
(* and the slot is owned because only its owner's own store ends ownership.  *)
EXTENDS CircuitBreaker, TLAPS

IInv == TypeOK /\ ProbeSlotOwned /\ OpenHasTripInstant

\* Each move to the control point that follows keeps the control points typed.
LEMMA GotoTyped ==
    ASSUME TypeOK, NEW t \in Threads, NEW from, NEW to \in Location,
           Goto(t, from, to)
    PROVE  pc' \in [Threads -> Location]
BY DEF TypeOK, Goto

LEMMA AnswerTyped ==
    ASSUME TypeOK, NEW t \in Threads, NEW from, NEW p \in Permission,
           Answer(t, from, p)
    PROVE  /\ pc' \in [Threads -> Location]
           /\ permission' \in [Threads -> Permission]
<1>1. permission' \in [Threads -> Permission]
  BY DEF TypeOK, Answer
<1>2. (IF p = "Denied" THEN "idle" ELSE "running") \in Location
  BY DEF Location
<1>3. QED
  BY <1>1, <1>2, GotoTyped DEF Answer

LEMMA FinishTyped ==
    ASSUME TypeOK, NEW t \in Threads, NEW from, Finish(t, from)
    PROVE  /\ pc' \in [Threads -> Location]
           /\ permission' \in [Threads -> Permission]
           /\ count' \in [Threads -> 0..Threshold]
<1>1. "idle" \in Location /\ "Denied" \in Permission /\ 0 \in 0..Threshold
  BY ThresholdAssumption DEF Location, Permission
<1>2. pc' \in [Threads -> Location]
  BY <1>1, GotoTyped DEF Finish
<1>3. QED
  BY <1>1, <1>2 DEF TypeOK, Finish

LEMMA TypeOKStep == TypeOK /\ [Next]_vars => TypeOK'
<1> SUFFICES ASSUME TypeOK, [Next]_vars PROVE TypeOK'
  OBVIOUS
<1>1. ASSUME NEW t \in Threads, ReadState(t) PROVE TypeOK'
  <2>1. "Allow" \in Permission /\ {"readTripped", "compareExchange"} \subseteq Location
    BY DEF Permission, Location
  <2>2. pc' \in [Threads -> Location] /\ permission' \in [Threads -> Permission]
    BY <1>1, <2>1, GotoTyped, AnswerTyped DEF ReadState, TypeOK
  <2>3. QED
    BY <1>1, <2>2 DEF ReadState, TypeOK, breaker
<1>2. ASSUME NEW t \in Threads, ReadTripped(t) PROVE TypeOK'
  <2>1. "Denied" \in Permission /\ "upgrade" \in Location
    BY DEF Permission, Location
  <2>2. pc' \in [Threads -> Location] /\ permission' \in [Threads -> Permission]
    BY <1>2, <2>1, GotoTyped, AnswerTyped DEF ReadTripped, TypeOK
  <2>3. QED
    BY <1>2, <2>2 DEF ReadTripped, TypeOK, breaker
<1>3. ASSUME NEW t \in Threads, Upgrade(t) PROVE TypeOK'
  <2>1. "Probe" \in Permission /\ "Denied" \in Permission
    BY DEF Permission
  <2>2. pc' \in [Threads -> Location] /\ permission' \in [Threads -> Permission]
    BY <1>3, <2>1, AnswerTyped DEF Upgrade
  <2>3. QED
    BY <1>3, <2>2 DEF Upgrade, TypeOK, CircuitState
<1>4. ASSUME NEW t \in Threads, CompareExchange(t) PROVE TypeOK'
  <2>1. (IF probing THEN "Denied" ELSE "Probe") \in Permission
    BY DEF Permission
  <2>2. pc' \in [Threads -> Location] /\ permission' \in [Threads -> Permission]
    BY <1>4, <2>1, AnswerTyped DEF CompareExchange
  <2>3. QED
    BY <1>4, <2>2 DEF CompareExchange, TypeOK
<1>5. ASSUME NEW t \in Threads, GuestReturns(t) PROVE TypeOK'
  <2>1. {"okFailures", "errProbing"} \subseteq Location
    BY DEF Location
  <2>2. pc' \in [Threads -> Location]
    BY <1>5, <2>1, GotoTyped DEF GuestReturns
  <2>3. QED
    BY <1>5, <2>2 DEF GuestReturns, TypeOK, breaker
<1>6. ASSUME NEW t \in Threads, ResetFailures(t) PROVE TypeOK'
  <2>1. "okProbing" \in Location /\ 0 \in 0..Threshold
    BY ThresholdAssumption DEF Location
  <2>2. pc' \in [Threads -> Location]
    BY <1>6, <2>1, GotoTyped DEF ResetFailures
  <2>3. QED
    BY <1>6, <2>1, <2>2 DEF ResetFailures, TypeOK
<1>7. ASSUME NEW t \in Threads, FreeSlotOnSuccess(t) \/ FreeSlotOnFailure(t)
      PROVE TypeOK'
  <2>1. {"okState", "errFailures"} \subseteq Location
    BY DEF Location
  <2>2. pc' \in [Threads -> Location]
    BY <1>7, <2>1, GotoTyped DEF FreeSlotOnSuccess, FreeSlotOnFailure
  <2>3. QED
    BY <1>7, <2>2 DEF FreeSlotOnSuccess, FreeSlotOnFailure, TypeOK
<1>8. ASSUME NEW t \in Threads, CountFailure(t) PROVE TypeOK'
  <2> DEFINE n == IF failures < Threshold THEN failures + 1 ELSE Threshold
  <2>1. "errState" \in Location /\ n \in 0..Threshold
    BY ThresholdAssumption DEF Location, TypeOK
  <2>2. pc' \in [Threads -> Location]
    BY <1>8, <2>1, GotoTyped DEF CountFailure
  <2>3. QED
    BY <1>8, <2>1, <2>2 DEF CountFailure, TypeOK
<1>9. ASSUME NEW t \in Threads, Close(t) \/ Trip(t) PROVE TypeOK'
  <2>1. /\ pc' \in [Threads -> Location]
        /\ permission' \in [Threads -> Permission]
        /\ count' \in [Threads -> 0..Threshold]
    BY <1>9, FinishTyped DEF Close, Trip
  <2>2. QED
    BY <1>9, <2>1 DEF Close, Trip, TypeOK, CircuitState
<1>10. CASE CooloffElapses
  BY <1>10 DEF CooloffElapses, TypeOK
<1>11. CASE Heal
  BY <1>11 DEF Heal, TypeOK, breaker
<1>12. CASE UNCHANGED vars
  BY <1>12 DEF vars, TypeOK
<1>13. QED
  BY <1>1, <1>2, <1>3, <1>4, <1>5, <1>6, <1>7, <1>8, <1>9, <1>10, <1>11, <1>12
  DEF Next, ThreadStep

\* A step that frees the slot, or leaves both the slot and its owner alone, or
\* takes it, keeps the slot owned.
LEMMA SlotStep == TypeOK /\ ProbeSlotOwned /\ [Next]_vars => ProbeSlotOwned'
<1> SUFFICES ASSUME TypeOK, ProbeSlotOwned, [Next]_vars, probing'
             PROVE  \E t \in Threads : HoldsSlot(t)'
  BY DEF ProbeSlotOwned
<1>1. ASSUME NEW t \in Threads, NEW o \in Threads, o # t, HoldsSlot(o),
             ThreadStep(t)
      PROVE  HoldsSlot(o)'
  <2>1. pc'[o] = pc[o] /\ permission'[o] = permission[o]
    BY <1>1 DEF ThreadStep, ReadState, ReadTripped, Upgrade, CompareExchange,
         GuestReturns, ResetFailures, FreeSlotOnSuccess, Close,
         FreeSlotOnFailure, CountFailure, Trip, Goto, Answer, Finish, TypeOK
  <2>2. QED
    BY <1>1, <2>1 DEF HoldsSlot
<1>2. ASSUME NEW t \in Threads, HoldsSlot(t), ThreadStep(t)
      PROVE  HoldsSlot(t)'
  <2>1. CASE GuestReturns(t)
    BY <2>1, <1>2 DEF GuestReturns, Goto, HoldsSlot, TypeOK
  <2>2. CASE ResetFailures(t)
    BY <2>2, <1>2 DEF ResetFailures, Goto, HoldsSlot, TypeOK
  <2>3. CASE FreeSlotOnSuccess(t) \/ FreeSlotOnFailure(t)
    BY <2>3 DEF FreeSlotOnSuccess, FreeSlotOnFailure
  <2>4. QED
    BY <1>2, <2>1, <2>2, <2>3 DEF HoldsSlot, ThreadStep, ReadState,
       ReadTripped, Upgrade, CompareExchange, Close, CountFailure, Trip,
       Goto, Answer, Finish
<1>3. CASE probing /\ \E t \in Threads : ThreadStep(t)
  <2>1. PICK t \in Threads : ThreadStep(t)
    BY <1>3
  <2>2. PICK o \in Threads : HoldsSlot(o)
    BY <1>3 DEF ProbeSlotOwned
  <2>3. HoldsSlot(o)'
    BY <1>1, <1>2, <2>1, <2>2
  <2>4. QED
    BY <2>3
<1>4. CASE ~probing /\ \E t \in Threads : ThreadStep(t)
  <2>1. PICK t \in Threads : ThreadStep(t)
    BY <1>4
  <2>2. CASE Upgrade(t)
    BY <1>4, <2>2 DEF Upgrade, Answer, Goto, HoldsSlot, TypeOK
  <2>3. CASE CompareExchange(t)
    BY <1>4, <2>3 DEF CompareExchange, Answer, Goto, HoldsSlot, TypeOK
  <2>4. QED
    BY <1>4, <2>1, <2>2, <2>3 DEF ThreadStep, ReadState, ReadTripped,
       GuestReturns, ResetFailures, FreeSlotOnSuccess, Close,
       FreeSlotOnFailure, CountFailure, Trip, breaker
<1>5. CASE CooloffElapses \/ Heal \/ UNCHANGED vars
  BY <1>5 DEF CooloffElapses, Heal, vars, breaker, ProbeSlotOwned, HoldsSlot
<1>6. QED
  BY <1>3, <1>4, <1>5 DEF Next

LEMMA TripInstantStep ==
    OpenHasTripInstant /\ [Next]_vars => OpenHasTripInstant'
BY DEF OpenHasTripInstant, Next, ThreadStep, ReadState, ReadTripped, Upgrade,
       CompareExchange, GuestReturns, ResetFailures, FreeSlotOnSuccess, Close,
       FreeSlotOnFailure, CountFailure, Trip, CooloffElapses, Heal, vars,
       breaker

LEMMA InitIInv == Init => IInv
<1> SUFFICES ASSUME Init PROVE IInv
  OBVIOUS
<1>1. TypeOK
  <2>1. 0 \in 0..Threshold
    BY ThresholdAssumption
  <2>2. "idle" \in Location /\ "Denied" \in Permission /\ "Closed" \in CircuitState
    BY DEF Location, Permission, CircuitState
  <2>3. probing \in BOOLEAN
    BY DEF Init
  <2>4. QED
    BY <2>1, <2>2, <2>3 DEF Init, TypeOK
<1>2. ProbeSlotOwned /\ OpenHasTripInstant
  BY DEF Init, ProbeSlotOwned, OpenHasTripInstant
<1>3. QED
  BY <1>1, <1>2 DEF IInv

\* The inductive invariant holds throughout.
THEOREM Invariance == Spec => []IInv
<1>1. IInv /\ [Next]_vars => IInv'
  BY TypeOKStep, SlotStep, TripInstantStep DEF IInv
<1>2. QED
  BY InitIInv, <1>1, PTL DEF Spec

\* Every variable of the breaker and of its threads keeps its type.
THEOREM TypeCorrect == Spec => []TypeOK
BY Invariance, PTL DEF IInv

\* Whatever the interleaving, a taken probe slot has an owner that will free
\* it: the half-open breaker of wasm/mod.rs cannot wedge.
THEOREM SlotAlwaysOwned == Spec => []ProbeSlotOwned
BY Invariance, PTL DEF IInv

\* An Open or HalfOpen breaker always has a trip instant to cool off from.
THEOREM TripInstantKnown == Spec => []OpenHasTripInstant
BY Invariance, PTL DEF IInv

\* The re-check under the write lock keeps a closed breaker from being
\* half-opened by a thread with a stale copy.
THEOREM NoHalfOpenFromClosed == Spec => ClosedStaysOutOfHalfOpen
<1>1. [Next]_vars => [state = "Closed" => state' # "HalfOpen"]_vars
  BY DEF Next, ThreadStep, ReadState, ReadTripped, Upgrade, CompareExchange,
       GuestReturns, ResetFailures, FreeSlotOnSuccess, Close,
       FreeSlotOnFailure, CountFailure, Trip, CooloffElapses, Heal, vars,
       breaker
<1>2. QED
  BY <1>1, PTL DEF Spec, ClosedStaysOutOfHalfOpen
=============================================================================
