-------------------------- MODULE GpuSubmitGateProofs --------------------------
(***************************************************************************)
(* Proofs about GpuSubmitGate, for any finite number of regions and        *)
(* frontends: the packed word counts the admitted regions exactly, nothing *)
(* is admitted after shutdown, a drain that returned true on the closed    *)
(* gate stays right, no wake-up is lost, and the gate implements the       *)
(* contract of module SubmitGate.                                          *)
(***************************************************************************)
EXTENDS GpuSubmitGate, FiniteSetTheorems, TLAPS

LEMMA SetsFinite ==
    /\ IsFiniteSet(Inside) /\ Cardinality(Inside) \in Nat
    /\ Cardinality(Inside) = 0 <=> Inside = {}
    /\ IsFiniteSet(Waiting) /\ Cardinality(Waiting) \in Nat
    /\ Cardinality(Waiting) = 0 <=> Waiting = {}
<1>1. Inside \in SUBSET Regions /\ Waiting \in SUBSET Frontends
  BY DEF Inside, Waiting
<1>2. IsFiniteSet(Inside) /\ IsFiniteSet(Waiting)
  BY <1>1, FS_Subset, GateAssumption
<1>3. QED
  BY <1>2, FS_CardinalityType, FS_EmptySet

LEMMA InitIInv == Init => IInv
<1> SUFFICES ASSUME Init PROVE IInv
  OBVIOUS
<1>1. Inside = {} /\ Waiting = {}
  BY GateAssumption
  DEF Init, Inside, Waiting, InsidePcs, WaitingPcs, TimedPcs
<1>2. TypeOK
  BY GateAssumption
  DEF Init, TypeOK, Word, Timeouts, RegionPcs, InsidePcs, NotifyPcs, FrontPcs,
      DrainPcs, WaitingPcs, TimedPcs
<1>3. CountExact /\ WaitersExact
  BY <1>1, FS_EmptySet DEF Init, CountExact, WaitersExact
<1>4. \A d \in Frontends : pc[d] = "idle"
  BY GateAssumption DEF Init
<1>5. MutexExact /\ SealInv /\ NoLostWakeup /\ AboutToSleepInv
  BY <1>4, GateAssumption
  DEF Init, MutexExact, LockPcs, SealInv, NoLostWakeup, AboutToSleepInv,
      DrainPcs, WaitingPcs, TimedPcs
<1>7. LeaveIsPaired
  BY GateAssumption DEF Init, LeaveIsPaired
<1>6. QED
  BY <1>2, <1>3, <1>5, <1>7 DEF IInv

\* Type correctness is inductive only with the exactness of the two counters,
\* which keeps the subtractions of LeaveCas and DrainRetire in Nat.
LEMMA TypeStep == IInv /\ [Next]_vars => TypeOK'
<1> SUFFICES ASSUME IInv, [Next]_vars PROVE TypeOK'
  OBVIOUS
<1> USE GateAssumption DEF TypeOK, Word, Timeouts, Goto, Admitted, NotifyTest, DrainCalled,
        DrainChecked, TimedOut, regionVars, drainVars,
        RegionPcs, InsidePcs, NotifyPcs, FrontPcs, DrainPcs, WaitingPcs, TimedPcs
<1>0. TypeOK
  BY DEF IInv
<1>1. ASSUME NEW r \in Regions, RegionStep(r) PROVE TypeOK'
  <2>1. CASE EnterLoad(r) \/ EnterRefuse(r) \/ EnterCas(r)
    BY <1>0, <2>1, SMTT(30) DEF EnterLoad, EnterRefuse, EnterCas
  <2>2. CASE LeaveLoad(r)
    BY <1>0, <2>2 DEF LeaveLoad
  <2>3. CASE LeaveCas(r)
    BY <1>0, <2>3, SMTT(30) DEF LeaveCas
  <2>4. CASE NotifyReadWaiters(r) \/ NotifyReadCount(r) \/ NotifyLock(r)
    BY <1>0, <2>4, SMTT(30) DEF NotifyReadWaiters, NotifyReadCount, NotifyLock
  <2>5. CASE NotifyAll(r)
    BY <1>0, <2>5 DEF NotifyAll, Woken
  <2>6. QED
    BY <1>1, <2>1, <2>2, <2>3, <2>4, <2>5 DEF RegionStep
<1>2. ASSUME NEW d \in Frontends, FrontendStep(d) PROVE TypeOK'
  <2>1. CASE BeginShutdown(d)
    BY <1>0, <2>1 DEF BeginShutdown
  <2>9. CASE Reset(d)
    BY <1>0, <2>9 DEF Reset
  <2>2. CASE FrontendNotify(d)
    BY <1>0, <2>2 DEF FrontendNotify, Woken
  <2>3. ASSUME NEW t \in Timeouts, DrainCall(d, t) PROVE TypeOK'
    BY <1>0, <2>3 DEF DrainCall
  <2>4. CASE DrainAnnounce(d) \/ DrainLock(d) \/ DrainSleep(d)
    BY <1>0, <2>4, SMTT(30) DEF DrainAnnounce, DrainLock, DrainSleep
  <2>10. CASE DrainCheck(d)
    BY <1>0, <2>10 DEF DrainCheck
  <2>5. CASE DrainSpuriousWake(d) \/ DrainTimeout(d)
    BY <1>0, <2>5, SMTT(30) DEF DrainSpuriousWake, DrainTimeout
  <2>11. CASE DeadlinePasses(d)
    BY <1>0, <2>11 DEF DeadlinePasses
  <2>6. CASE DrainUnlock(d)
    BY <1>0, <2>6 DEF DrainUnlock
  <2>7. CASE DrainRetire(d)
    <3>1. d \in Waiting /\ g_waiters = Cardinality(Waiting)
      BY <2>7 DEF DrainRetire, Waiting, IInv, WaitersExact
    <3>2. g_waiters - 1 \in Nat
      BY <3>1, SetsFinite
    <3>3. QED
      BY <1>0, <2>7, <3>2 DEF DrainRetire
  <2>8. QED
    BY <1>2, <2>1, <2>2, <2>3, <2>4, <2>5, <2>6, <2>7, <2>9, <2>10, <2>11
    DEF FrontendStep
<1>3. CASE UNCHANGED vars
  BY <1>0, <1>3 DEF vars
<1>4. QED
  BY <1>1, <1>2, <1>3 DEF Next

\* The packed count follows the set of admitted regions through every step.
LEMMA CountStep == IInv /\ [Next]_vars => CountExact'
<1> SUFFICES ASSUME IInv, [Next]_vars PROVE CountExact'
  OBVIOUS
<1> USE GateAssumption DEF TypeOK, CountExact, Inside, Word, Goto, Admitted, NotifyTest, DrainCalled,
        DrainChecked, TimedOut, regionVars,
        drainVars, RegionPcs, InsidePcs, NotifyPcs
<1>0. TypeOK /\ CountExact /\ LeaveIsPaired
  BY DEF IInv
<1>1. ASSUME Inside' = Inside, g_state'.count = g_state.count PROVE CountExact'
  BY <1>0, <1>1
<1>2. ASSUME NEW r \in Regions, RegionStep(r) PROVE CountExact'
  <2>1. CASE EnterLoad(r) \/ EnterRefuse(r)
    BY <1>0, <1>1, <2>1 DEF EnterLoad, EnterRefuse
  <2>2. CASE EnterCas(r) /\ g_state = seen[r]
    <3>1. r \notin Inside /\ Inside' = Inside \union {r}
      BY <1>0, <2>2 DEF EnterCas
    <3>2. Cardinality(Inside') = Cardinality(Inside) + 1
      BY <3>1, SetsFinite, FS_AddElement
    <3>3. QED
      BY <1>0, <2>2, <3>2 DEF EnterCas
  <2>3. CASE EnterCas(r) /\ g_state # seen[r]
    BY <1>0, <1>1, <2>3 DEF EnterCas
  <2>4. CASE LeaveLoad(r)
    BY <1>0, <1>1, <2>4 DEF LeaveLoad
  <2>5. CASE LeaveCas(r) /\ g_state = seen[r]
    <3>1. r \in Inside /\ g_state.count # 0
      BY <1>0, <2>5, SetsFinite DEF LeaveCas
    <3>2. Inside' = Inside \ {r}
      BY <1>0, <2>5, <3>1 DEF LeaveCas
    <3>3. Cardinality(Inside') = Cardinality(Inside) - 1
      BY <3>1, <3>2, SetsFinite, FS_RemoveElement
    <3>4. QED
      BY <1>0, <2>5, <3>1, <3>3 DEF LeaveCas
  <2>7. CASE LeaveCas(r) /\ g_state # seen[r]
    BY <1>0, <1>1, <2>7 DEF LeaveCas, LeaveIsPaired
  <2>8. CASE NotifyReadWaiters(r) \/ NotifyReadCount(r) \/ NotifyLock(r)
    BY <1>0, <1>1, <2>8 DEF NotifyReadWaiters, NotifyReadCount, NotifyLock
  <2>9. CASE NotifyAll(r)
    BY <1>0, <1>1, <2>9 DEF NotifyAll, Woken
  <2>10. QED
    BY <1>2, <2>1, <2>2, <2>3, <2>4, <2>5, <2>7, <2>8, <2>9 DEF RegionStep
<1>3. ASSUME NEW d \in Frontends, FrontendStep(d) PROVE CountExact'
  <2>1. CASE Reset(d)
    <3>1. Inside' = {}
      BY <1>0, <2>1 DEF Reset
    <3>2. QED
      BY <2>1, <3>1, FS_EmptySet DEF Reset
  <2>2. CASE BeginShutdown(d)
    BY <1>0, <1>1, <2>2 DEF BeginShutdown
  <2>3. CASE FrontendNotify(d)
    BY <1>0, <1>1, <2>3 DEF FrontendNotify, Woken
  <2>4. ASSUME NEW t \in Timeouts, DrainCall(d, t) PROVE CountExact'
    BY <1>0, <1>1, <2>4 DEF DrainCall
  <2>5. CASE DrainAnnounce(d) \/ DrainLock(d) \/ DrainCheck(d) \/ DrainSleep(d)
    BY <1>0, <1>1, <2>5 DEF DrainAnnounce, DrainLock, DrainCheck, DrainSleep
  <2>6. CASE DrainSpuriousWake(d) \/ DeadlinePasses(d) \/ DrainTimeout(d)
    BY <1>0, <1>1, <2>6 DEF DrainSpuriousWake, DeadlinePasses, DrainTimeout
  <2>7. CASE DrainUnlock(d) \/ DrainRetire(d)
    BY <1>0, <1>1, <2>7 DEF DrainUnlock, DrainRetire
  <2>8. QED
    BY <1>3, <2>1, <2>2, <2>3, <2>4, <2>5, <2>6, <2>7 DEF FrontendStep
<1>4. CASE UNCHANGED vars
  BY <1>0, <1>1, <1>4 DEF vars
<1>5. QED
  BY <1>2, <1>3, <1>4 DEF Next

\* g_waiters follows the set of announced drains.
LEMMA WaitersStep == IInv /\ [Next]_vars => WaitersExact'
<1> SUFFICES ASSUME IInv, [Next]_vars PROVE WaitersExact'
  OBVIOUS
<1> USE GateAssumption DEF TypeOK, WaitersExact, Waiting, Goto, Admitted, NotifyTest, DrainCalled,
        DrainChecked, TimedOut, regionVars,
        drainVars, RegionPcs, InsidePcs, NotifyPcs, WaitingPcs, TimedPcs
<1>0. TypeOK /\ WaitersExact
  BY DEF IInv
<1>1. ASSUME Waiting' = Waiting, g_waiters' = g_waiters PROVE WaitersExact'
  BY <1>0, <1>1
<1>2. ASSUME NEW r \in Regions, RegionStep(r) PROVE WaitersExact'
  <2>1. CASE EnterLoad(r) \/ EnterRefuse(r) \/ EnterCas(r)
    BY <1>0, <1>1, <2>1 DEF EnterLoad, EnterRefuse, EnterCas
  <2>2. CASE LeaveLoad(r) \/ LeaveCas(r)
    BY <1>0, <1>1, <2>2 DEF LeaveLoad, LeaveCas
  <2>3. CASE NotifyReadWaiters(r) \/ NotifyReadCount(r) \/ NotifyLock(r)
    BY <1>0, <1>1, <2>3 DEF NotifyReadWaiters, NotifyReadCount, NotifyLock
  <2>4. CASE NotifyAll(r)
    BY <1>0, <1>1, <2>4 DEF NotifyAll, Woken
  <2>5. QED
    BY <1>2, <2>1, <2>2, <2>3, <2>4 DEF RegionStep
<1>3. ASSUME NEW d \in Frontends, FrontendStep(d) PROVE WaitersExact'
  <2>1. CASE DrainAnnounce(d)
    <3>1. d \notin Waiting /\ Waiting' = Waiting \union {d}
      BY <1>0, <2>1 DEF DrainAnnounce
    <3>2. Cardinality(Waiting') = Cardinality(Waiting) + 1
      BY <3>1, SetsFinite, FS_AddElement
    <3>3. QED
      BY <1>0, <2>1, <3>2 DEF DrainAnnounce
  <2>2. CASE DrainRetire(d)
    <3>1. d \in Waiting /\ Waiting' = Waiting \ {d}
      BY <1>0, <2>2 DEF DrainRetire
    <3>2. Cardinality(Waiting') = Cardinality(Waiting) - 1
      BY <3>1, SetsFinite, FS_RemoveElement, ZenonT(30)
    <3>3. QED
      BY <1>0, <2>2, <3>2 DEF DrainRetire
  <2>3. CASE BeginShutdown(d) \/ Reset(d)
    BY <1>0, <1>1, <2>3 DEF BeginShutdown, Reset
  <2>4. CASE FrontendNotify(d)
    BY <1>0, <1>1, <2>4 DEF FrontendNotify, Woken
  <2>5. ASSUME NEW t \in Timeouts, DrainCall(d, t) PROVE WaitersExact'
    BY <1>0, <1>1, <2>5 DEF DrainCall
  <2>6. CASE DrainLock(d) \/ DrainCheck(d) \/ DrainSleep(d)
    BY <1>0, <1>1, <2>6 DEF DrainLock, DrainCheck, DrainSleep
  <2>7. CASE DrainSpuriousWake(d) \/ DeadlinePasses(d) \/ DrainTimeout(d)
    BY <1>0, <1>1, <2>7 DEF DrainSpuriousWake, DeadlinePasses, DrainTimeout
  <2>8. CASE DrainUnlock(d)
    BY <1>0, <1>1, <2>8 DEF DrainUnlock
  <2>9. QED
    BY <1>3, <2>1, <2>2, <2>3, <2>4, <2>5, <2>6, <2>7, <2>8 DEF FrontendStep
<1>4. CASE UNCHANGED vars
  BY <1>0, <1>1, <1>4 DEF vars
<1>5. QED
  BY <1>2, <1>3, <1>4 DEF Next

\* A region about to leave has read a word in which it is itself counted.
LEMMA PairedStep == IInv /\ [Next]_vars => LeaveIsPaired'
<1> SUFFICES ASSUME IInv, [Next]_vars PROVE LeaveIsPaired'
  OBVIOUS
<1> USE GateAssumption DEF TypeOK, LeaveIsPaired, Word, Goto, Admitted, NotifyTest, DrainCalled,
        DrainChecked, TimedOut, regionVars,
        RegionPcs, InsidePcs, NotifyPcs, drainVars
<1>0. TypeOK /\ LeaveIsPaired /\ CountExact
  BY DEF IInv
<1>6. \A r \in Inside : g_state.count > 0
  BY <1>0, SetsFinite DEF CountExact
<1>1. ASSUME NEW r \in Regions, RegionStep(r) PROVE LeaveIsPaired'
  <2>1. CASE EnterLoad(r) \/ EnterRefuse(r)
    BY <1>0, <2>1 DEF EnterLoad, EnterRefuse
  <2>2. CASE EnterCas(r)
    BY <1>0, <2>2 DEF EnterCas
  <2>3. CASE LeaveLoad(r)
    BY <1>0, <1>6, <2>3 DEF LeaveLoad, Inside
  <2>4. CASE LeaveCas(r)
    BY <1>0, <1>6, <2>4 DEF LeaveCas, Inside
  <2>5. CASE NotifyReadWaiters(r) \/ NotifyReadCount(r) \/ NotifyLock(r)
    BY <1>0, <2>5 DEF NotifyReadWaiters, NotifyReadCount, NotifyLock
  <2>6. CASE NotifyAll(r)
    BY <1>0, <2>6 DEF NotifyAll, Woken
  <2>7. QED
    BY <1>1, <2>1, <2>2, <2>3, <2>4, <2>5, <2>6 DEF RegionStep
<1>2. ASSUME NEW d \in Frontends, FrontendStep(d) PROVE LeaveIsPaired'
  <2>1. seen' = seen
    BY <1>2
    DEF FrontendStep, BeginShutdown, Reset, FrontendNotify, DrainCall, DrainAnnounce,
        DrainLock, DrainCheck, DrainSleep, DrainSpuriousWake, DeadlinePasses,
        DrainTimeout, DrainUnlock, DrainRetire
  <2>2. \A r \in Regions : pc'[r] = pc[r]
    BY <1>0, <1>2
    DEF FrontendStep, BeginShutdown, Reset, FrontendNotify, Woken, DrainCall,
        DrainAnnounce, DrainLock, DrainCheck, DrainSleep, DrainSpuriousWake,
        DeadlinePasses, DrainTimeout, DrainUnlock, DrainRetire
  <2>3. QED
    BY <1>0, <2>1, <2>2
<1>3. CASE UNCHANGED vars
  BY <1>0, <1>3 DEF vars
<1>4. QED
  BY <1>1, <1>2, <1>3 DEF Next

\* Only a drain holds g_mx across steps, from its lock to its sleep or unlock.
LEMMA MutexStep == IInv /\ [Next]_vars => MutexExact'
<1> SUFFICES ASSUME IInv, [Next]_vars PROVE MutexExact'
  OBVIOUS
<1> USE GateAssumption DEF TypeOK, MutexExact, LockPcs, Goto, Admitted, NotifyTest, DrainCalled,
        DrainChecked, TimedOut, regionVars,
        drainVars, RegionPcs, InsidePcs, NotifyPcs
<1>0. TypeOK /\ MutexExact
  BY DEF IInv
<1>1. ASSUME NEW r \in Regions, RegionStep(r) PROVE MutexExact'
  <2>1. CASE EnterLoad(r) \/ EnterRefuse(r) \/ EnterCas(r)
    BY <1>0, <2>1 DEF EnterLoad, EnterRefuse, EnterCas
  <2>2. CASE LeaveLoad(r) \/ LeaveCas(r)
    BY <1>0, <2>2 DEF LeaveLoad, LeaveCas
  <2>3. CASE NotifyReadWaiters(r) \/ NotifyReadCount(r) \/ NotifyLock(r)
    BY <1>0, <2>3 DEF NotifyReadWaiters, NotifyReadCount, NotifyLock
  <2>4. CASE NotifyAll(r)
    BY <1>0, <2>4 DEF NotifyAll, Woken
  <2>5. QED
    BY <1>1, <2>1, <2>2, <2>3, <2>4 DEF RegionStep
<1>2. ASSUME NEW d \in Frontends, FrontendStep(d) PROVE MutexExact'
  <2>1. CASE BeginShutdown(d) \/ Reset(d)
    BY <1>0, <2>1 DEF BeginShutdown, Reset
  <2>2. CASE FrontendNotify(d)
    BY <1>0, <2>2 DEF FrontendNotify, Woken
  <2>3. ASSUME NEW t \in Timeouts, DrainCall(d, t) PROVE MutexExact'
    BY <1>0, <2>3 DEF DrainCall
  <2>4. CASE DrainAnnounce(d)
    BY <1>0, <2>4 DEF DrainAnnounce
  <2>5. CASE DrainLock(d)
    BY <1>0, <2>5 DEF DrainLock
  <2>6. CASE DrainCheck(d)
    BY <1>0, <2>6 DEF DrainCheck
  <2>7. CASE DrainSleep(d)
    BY <1>0, <2>7 DEF DrainSleep
  <2>8. CASE DrainSpuriousWake(d) \/ DeadlinePasses(d) \/ DrainTimeout(d)
    BY <1>0, <2>8 DEF DrainSpuriousWake, DeadlinePasses, DrainTimeout
  <2>9. CASE DrainUnlock(d)
    BY <1>0, <2>9 DEF DrainUnlock
  <2>10. CASE DrainRetire(d)
    BY <1>0, <2>10 DEF DrainRetire
  <2>11. QED
    BY <1>2, <2>1, <2>2, <2>3, <2>4, <2>5, <2>6, <2>7, <2>8, <2>9, <2>10
    DEF FrontendStep
<1>3. CASE UNCHANGED vars
  BY <1>0, <1>3 DEF vars
<1>4. QED
  BY <1>1, <1>2, <1>3 DEF Next

\* What a drain of the closed gate concluded stays true: the word can only be
\* counted up through a compare-exchange that saw the shutdown bit clear.
LEMMA SealStep == IInv /\ [Next]_vars => SealInv'
<1> SUFFICES ASSUME IInv, [Next]_vars PROVE SealInv'
  OBVIOUS
<1> USE GateAssumption DEF TypeOK, SealInv, Word, Goto, Admitted, NotifyTest, DrainCalled,
        DrainChecked, TimedOut, regionVars, drainVars,
        RegionPcs, InsidePcs, NotifyPcs,
        DrainPcs, WaitingPcs, TimedPcs
<1>0. TypeOK /\ SealInv /\ LeaveIsPaired
  BY DEF IInv
<1>1. ASSUME NEW r \in Regions, RegionStep(r) PROVE SealInv'
  <2>1. CASE EnterLoad(r) \/ EnterRefuse(r)
    BY <1>0, <2>1 DEF EnterLoad, EnterRefuse
  <2>2. CASE EnterCas(r)
    BY <1>0, <2>2 DEF EnterCas
  <2>3. CASE LeaveLoad(r)
    BY <1>0, <2>3 DEF LeaveLoad
  <2>4. CASE LeaveCas(r)
    BY <1>0, <2>4 DEF LeaveCas, LeaveIsPaired
  <2>5. CASE NotifyReadWaiters(r) \/ NotifyReadCount(r) \/ NotifyLock(r)
    BY <1>0, <2>5 DEF NotifyReadWaiters, NotifyReadCount, NotifyLock
  <2>6. CASE NotifyAll(r)
    BY <1>0, <2>6 DEF NotifyAll, Woken
  <2>7. QED
    BY <1>1, <2>1, <2>2, <2>3, <2>4, <2>5, <2>6 DEF RegionStep
<1>2. ASSUME NEW d \in Frontends, FrontendStep(d) PROVE SealInv'
  <2>1. CASE BeginShutdown(d)
    BY <1>0, <2>1 DEF BeginShutdown
  <2>2. CASE Reset(d)
    BY <1>0, <2>2 DEF Reset
  <2>3. CASE FrontendNotify(d)
    BY <1>0, <2>3 DEF FrontendNotify, Woken
  <2>4. ASSUME NEW t \in Timeouts, DrainCall(d, t) PROVE SealInv'
    BY <1>0, <2>4 DEF DrainCall
  <2>5. CASE DrainAnnounce(d) \/ DrainLock(d)
    BY <1>0, <2>5 DEF DrainAnnounce, DrainLock
  <2>6. CASE DrainCheck(d)
    BY <1>0, <2>6 DEF DrainCheck
  <2>7. CASE DrainSleep(d) \/ DrainSpuriousWake(d) \/ DrainTimeout(d)
    BY <1>0, <2>7 DEF DrainSleep, DrainSpuriousWake, DrainTimeout
  <2>8. CASE DeadlinePasses(d)
    BY <1>0, <2>8 DEF DeadlinePasses
  <2>9. CASE DrainUnlock(d)
    BY <1>0, <2>9 DEF DrainUnlock
  <2>10. CASE DrainRetire(d)
    BY <1>0, <2>10 DEF DrainRetire
  <2>11. QED
    BY <1>2, <2>1, <2>2, <2>3, <2>4, <2>5, <2>6, <2>7, <2>8, <2>9, <2>10
    DEF FrontendStep
<1>3. CASE UNCHANGED vars
  BY <1>0, <1>3 DEF vars
<1>4. QED
  BY <1>1, <1>2, <1>3 DEF Next

\* The wake-up argument.  The step that empties the gate leaves its region on
\* the notify path; that region leaves the path only by notifying everybody, by
\* reading g_waiters = 0 (then nobody sleeps) or by reading a busy gate.
LEMMA WakeStep == IInv /\ [Next]_vars => NoLostWakeup' /\ AboutToSleepInv'
<1> SUFFICES ASSUME IInv, [Next]_vars PROVE NoLostWakeup' /\ AboutToSleepInv'
  OBVIOUS
<1> USE GateAssumption DEF TypeOK, NoLostWakeup, AboutToSleepInv, Word, Goto, Admitted, NotifyTest, DrainCalled,
        DrainChecked, TimedOut,
        regionVars, drainVars, RegionPcs, InsidePcs, NotifyPcs
<1>0. TypeOK /\ NoLostWakeup /\ AboutToSleepInv /\ CountExact
  BY DEF IInv
<1>6. MutexExact
  BY DEF IInv
<1>5. ASSUME g_waiters = 0, NEW d \in Frontends
      PROVE pc[d] \notin {"asleep", "drain_sleep"}
  BY <1>5, SetsFinite DEF IInv, WaitersExact, Waiting, WaitingPcs, TimedPcs
<1>1. ASSUME NEW r \in Regions, RegionStep(r)
      PROVE NoLostWakeup' /\ AboutToSleepInv'
  <2>1. CASE EnterLoad(r) \/ EnterRefuse(r)
    BY <1>0, <2>1 DEF EnterLoad, EnterRefuse
  <2>2. CASE EnterCas(r)
    BY <1>0, <2>2 DEF EnterCas
  <2>3. CASE LeaveLoad(r)
    BY <1>0, <2>3 DEF LeaveLoad
  <2>4. CASE LeaveCas(r)
    BY <1>0, <2>4 DEF LeaveCas
  <2>5. CASE NotifyReadWaiters(r)
    BY <1>0, <1>5, <2>5 DEF NotifyReadWaiters
  <2>6. CASE NotifyReadCount(r)
    BY <1>0, <2>6 DEF NotifyReadCount
  <2>7. CASE NotifyLock(r)
    BY <1>0, <1>6, <2>7 DEF NotifyLock, MutexExact, LockPcs
  <2>8. CASE NotifyAll(r)
    BY <1>0, <2>8 DEF NotifyAll, Woken
  <2>9. QED
    BY <1>1, <2>1, <2>2, <2>3, <2>4, <2>5, <2>6, <2>7, <2>8 DEF RegionStep
<1>2. ASSUME NEW d \in Frontends, FrontendStep(d)
      PROVE NoLostWakeup' /\ AboutToSleepInv'
  <2>1. CASE BeginShutdown(d)
    BY <1>0, <2>1 DEF BeginShutdown
  <2>2. CASE Reset(d)
    <3>1. Inside = {}
      BY <2>2 DEF Reset, Inside
    <3>2. g_state.count = 0
      BY <1>0, <3>1, SetsFinite DEF CountExact
    <3>3. QED
      BY <1>0, <3>2, <2>2 DEF Reset
  <2>3. CASE FrontendNotify(d)
    BY <1>0, <2>3 DEF FrontendNotify, Woken
  <2>4. ASSUME NEW t \in Timeouts, DrainCall(d, t)
        PROVE NoLostWakeup' /\ AboutToSleepInv'
    BY <1>0, <2>4 DEF DrainCall
  <2>5. CASE DrainAnnounce(d) \/ DrainLock(d)
    BY <1>0, <2>5 DEF DrainAnnounce, DrainLock
  <2>6. CASE DrainCheck(d)
    BY <1>0, <2>6 DEF DrainCheck
  <2>7. CASE DrainSleep(d)
    BY <1>0, <2>7 DEF DrainSleep
  <2>8. CASE DrainSpuriousWake(d) \/ DeadlinePasses(d) \/ DrainTimeout(d)
    BY <1>0, <2>8 DEF DrainSpuriousWake, DeadlinePasses, DrainTimeout
  <2>9. CASE DrainUnlock(d) \/ DrainRetire(d)
    BY <1>0, <2>9 DEF DrainUnlock, DrainRetire
  <2>10. QED
    BY <1>2, <2>1, <2>2, <2>3, <2>4, <2>5, <2>6, <2>7, <2>8, <2>9
    DEF FrontendStep
<1>3. CASE UNCHANGED vars
  BY <1>0, <1>3 DEF vars
<1>4. QED
  BY <1>1, <1>2, <1>3 DEF Next

\* IInv is an inductive invariant of the gate.
THEOREM Inductive == Spec => []IInv
<1>1. IInv /\ [Next]_vars => IInv'
  BY TypeStep, CountStep, WaitersStep, PairedStep, MutexStep, SealStep, WakeStep
  DEF IInv
<1>2. QED
  BY InitIInv, <1>1, PTL DEF Spec

\* The variables of the gate keep their types.
THEOREM TypeCorrect == Spec => []TypeOK
<1>1. IInv => TypeOK
  BY DEF IInv
<1>2. QED
  BY Inductive, <1>1, PTL

\* The packed count is at all times the number of admitted regions.
THEOREM CountIsExact == Spec => []CountExact
<1>1. IInv => CountExact
  BY DEF IInv
<1>2. QED
  BY Inductive, <1>1, PTL

\* A drain of the closed gate that returned true is never proved wrong.
THEOREM SealedStaysQuiet == Spec => []SealedIsQuiet
<1>1. IInv => SealedIsQuiet
  BY SetsFinite DEF IInv, SealInv, SealedIsQuiet, CountExact
<1>2. QED
  BY Inductive, <1>1, PTL

\* A drain sleeps over an empty gate only while its wake-up is on the way.
THEOREM WakeupNeverLost == Spec => []NoLostWakeup
<1>1. IInv => NoLostWakeup
  BY DEF IInv
<1>2. QED
  BY Inductive, <1>1, PTL

\* After begin_shutdown no step admits a region or raises the count.
THEOREM ClosedGateAdmitsNothing == Spec => NoAdmissionAfterShutdown
<1> DEFINE A == g_state.shutdown /\ g_state'.shutdown
                   => g_state'.count <= g_state.count /\ Inside' \subseteq Inside
<1>1. ASSUME IInv, [Next]_vars PROVE [A]_vars
  <2> SUFFICES ASSUME Next, g_state.shutdown, g_state'.shutdown
               PROVE g_state'.count <= g_state.count /\ Inside' \subseteq Inside
    BY <1>1
  <2> USE GateAssumption
      DEF TypeOK, Inside, InsidePcs, RegionPcs, NotifyPcs, Word, Goto, Admitted, NotifyTest, DrainCalled,
        DrainChecked, TimedOut, regionVars,
          drainVars
  <2>0. TypeOK
    BY <1>1 DEF IInv
  <2>1. ASSUME NEW r \in Regions, RegionStep(r)
        PROVE g_state'.count <= g_state.count /\ Inside' \subseteq Inside
    <3>1. CASE EnterLoad(r) \/ EnterRefuse(r)
      BY <2>0, <3>1 DEF EnterLoad, EnterRefuse
    <3>2. CASE EnterCas(r)
      BY <2>0, <3>2 DEF EnterCas
    <3>3. CASE LeaveLoad(r) \/ LeaveCas(r)
      BY <2>0, <3>3 DEF LeaveLoad, LeaveCas
    <3>4. CASE NotifyReadWaiters(r) \/ NotifyReadCount(r) \/ NotifyLock(r)
      BY <2>0, <3>4 DEF NotifyReadWaiters, NotifyReadCount, NotifyLock
    <3>5. CASE NotifyAll(r)
      BY <2>0, <3>5 DEF NotifyAll, Woken
    <3>6. QED
      BY <2>1, <3>1, <3>2, <3>3, <3>4, <3>5 DEF RegionStep
  <2>2. ASSUME NEW d \in Frontends, FrontendStep(d)
        PROVE g_state'.count <= g_state.count /\ Inside' \subseteq Inside
    <3>1. g_state'.count <= g_state.count
      BY <2>0, <2>2
      DEF FrontendStep, BeginShutdown, Reset, FrontendNotify, DrainCall,
          DrainAnnounce, DrainLock, DrainCheck, DrainSleep, DrainSpuriousWake,
          DeadlinePasses, DrainTimeout, DrainUnlock, DrainRetire
    <3>2. \A r \in Regions : pc'[r] = pc[r]
      BY <2>0, <2>2
      DEF FrontendStep, BeginShutdown, Reset, FrontendNotify, Woken, DrainCall,
          DrainAnnounce, DrainLock, DrainCheck, DrainSleep, DrainSpuriousWake,
          DeadlinePasses, DrainTimeout, DrainUnlock, DrainRetire
    <3>3. QED
      BY <3>1, <3>2
  <2>3. QED
    BY <2>1, <2>2 DEF Next
<1>2. QED
  BY Inductive, <1>1, PTL DEF Spec, NoAdmissionAfterShutdown

-------------------------------------------------------------------------------
(* Refinement: the atomic steps of the code map to the steps of the        *)
(* contract, or to none.                                                   *)

LEMMA GateInit == Init => Gate!Init
BY GateAssumption DEF Init, Gate!Init, Inside, InsidePcs

LEMMA GateStep == IInv /\ [Next]_vars => [Gate!Next]_Gate!vars
<1> SUFFICES ASSUME IInv, [Next]_vars PROVE [Gate!Next]_Gate!vars
  OBVIOUS
<1> USE GateAssumption
    DEF TypeOK, Inside, InsidePcs, RegionPcs, NotifyPcs, Word, Goto, Admitted, NotifyTest, DrainCalled,
        DrainChecked, TimedOut, regionVars,
        drainVars
<1>0. TypeOK /\ SealInv /\ CountExact
  BY DEF IInv
<1>6. g_state.count = 0 => Inside = {}
  BY <1>0, SetsFinite DEF CountExact
<1>1. ASSUME g_state'.shutdown = g_state.shutdown, Inside' = Inside,
             (\E d \in Frontends : sealed'[d]) <=> (\E d \in Frontends : sealed[d])
      PROVE [Gate!Next]_Gate!vars
  BY <1>0, <1>1 DEF Gate!vars
<1>2. ASSUME NEW r \in Regions, RegionStep(r) PROVE [Gate!Next]_Gate!vars
  <2>1. CASE EnterLoad(r) \/ EnterRefuse(r)
    BY <1>0, <1>1, <2>1 DEF EnterLoad, EnterRefuse
  <2>2. CASE EnterCas(r) /\ g_state = seen[r]
    <3>1. Gate!Admit(r)
      BY <1>0, <2>2 DEF EnterCas, Gate!Admit
    <3>2. QED
      BY <3>1 DEF Gate!Next
  <2>3. CASE EnterCas(r) /\ g_state # seen[r]
    BY <1>0, <1>1, <2>3 DEF EnterCas
  <2>4. CASE LeaveLoad(r)
    BY <1>0, <1>1, <2>4 DEF LeaveLoad
  <2>5. CASE LeaveCas(r) /\ g_state = seen[r]
    <3>1. Gate!Leave(r)
      BY <1>0, <2>5 DEF LeaveCas, Gate!Leave, IInv, LeaveIsPaired
    <3>2. QED
      BY <3>1 DEF Gate!Next
  <2>6. CASE LeaveCas(r) /\ g_state # seen[r]
    BY <1>0, <1>1, <2>6 DEF LeaveCas, IInv, LeaveIsPaired
  <2>7. CASE NotifyReadWaiters(r) \/ NotifyReadCount(r) \/ NotifyLock(r)
    BY <1>0, <1>1, <2>7 DEF NotifyReadWaiters, NotifyReadCount, NotifyLock
  <2>8. CASE NotifyAll(r)
    BY <1>0, <1>1, <2>8 DEF NotifyAll, Woken
  <2>9. QED
    BY <1>2, <2>1, <2>2, <2>3, <2>4, <2>5, <2>6, <2>7, <2>8 DEF RegionStep
<1>3. ASSUME NEW d \in Frontends, FrontendStep(d) PROVE [Gate!Next]_Gate!vars
  <2>0. \A r \in Regions : pc'[r] = pc[r]
    BY <1>0, <1>3
    DEF FrontendStep, BeginShutdown, Reset, FrontendNotify, Woken, DrainCall,
        DrainAnnounce, DrainLock, DrainCheck, DrainSleep, DrainSpuriousWake,
        DeadlinePasses, DrainTimeout, DrainUnlock, DrainRetire
  <2>1. CASE BeginShutdown(d)
    <3>1. Gate!Close
      BY <2>0, <2>1 DEF BeginShutdown, Gate!Close
    <3>2. QED
      BY <3>1 DEF Gate!Next
  <2>2. CASE Reset(d)
    <3>1. Gate!Reopen
      BY <2>0, <2>2 DEF Reset, Gate!Reopen
    <3>2. QED
      BY <3>1 DEF Gate!Next
  <2>3. ASSUME NEW t \in Timeouts, DrainCall(d, t) PROVE [Gate!Next]_Gate!vars
    <3>1. CASE g_state.shutdown /\ g_state.count = 0
      <4>1. Gate!Seal
        BY <1>0, <1>6, <2>0, <2>3, <3>1 DEF DrainCall, Gate!Seal
      <4>2. QED
        BY <4>1 DEF Gate!Next
    <3>2. CASE ~(g_state.shutdown /\ g_state.count = 0)
      <4>1. \A e \in Frontends : ~sealed[e]
        BY <1>0, <3>2 DEF SealInv
      <4>2. QED
        BY <1>0, <1>1, <2>0, <2>3, <3>2, <4>1 DEF DrainCall
    <3>3. QED
      BY <3>1, <3>2
  <2>4. CASE DrainRetire(d)
    <3>1. CASE closed[d] /\ drained[d]
      <4>1. Gate!Seal
        BY <1>0, <1>6, <2>0, <2>4, <3>1 DEF DrainRetire, SealInv, Gate!Seal
      <4>2. QED
        BY <4>1 DEF Gate!Next
    <3>2. CASE ~(closed[d] /\ drained[d])
      <4>1. ~sealed[d]
        BY <1>0, <2>4 DEF DrainRetire, SealInv, DrainPcs, WaitingPcs
      <4>2. QED
        BY <1>0, <1>1, <2>0, <2>4, <3>2, <4>1 DEF DrainRetire
    <3>3. QED
      BY <3>1, <3>2
  <2>5. CASE FrontendNotify(d) \/ DrainAnnounce(d) \/ DrainLock(d) \/ DrainCheck(d)
    BY <1>0, <1>1, <2>0, <2>5
    DEF FrontendNotify, DrainAnnounce, DrainLock, DrainCheck
  <2>6. CASE DrainSleep(d) \/ DrainSpuriousWake(d) \/ DeadlinePasses(d)
               \/ DrainTimeout(d) \/ DrainUnlock(d)
    BY <1>0, <1>1, <2>0, <2>6
    DEF DrainSleep, DrainSpuriousWake, DeadlinePasses, DrainTimeout, DrainUnlock
  <2>7. QED
    BY <1>3, <2>1, <2>2, <2>3, <2>4, <2>5, <2>6 DEF FrontendStep
<1>4. CASE UNCHANGED vars
  BY <1>0, <1>1, <1>4 DEF vars
<1>5. QED
  BY <1>2, <1>3, <1>4 DEF Next

\* The gate implements the contract its header states.
THEOREM Refinement == Spec => ImplementsSubmitGate
BY Inductive, GateInit, GateStep, PTL DEF Spec, Gate!Spec, ImplementsSubmitGate

\* What a frontend relies on holds in every state, for any numbers of submitting
\* regions and frontends.
THEOREM Safety == Spec => []Safe
<1>1. IInv => Safe
  BY SetsFinite DEF IInv, SealInv, Safe, SealedIsQuiet, CountExact
<1>2. QED
  BY Inductive, <1>1, PTL
===============================================================================
