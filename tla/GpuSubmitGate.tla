----------------------------- MODULE GpuSubmitGate -----------------------------
(***************************************************************************)
(* The GPU submission gate of src/host/platform/gpu_submit_gate.cpp at the *)
(* granularity of its atomic operations: every load, compare-exchange,     *)
(* lock, sleep and wake-up is a step of its own.  All the accesses the     *)
(* argument of the code rests on are seq_cst, so memory is sequentially    *)
(* consistent here.                                                        *)
(*                                                                         *)
(* A submitter is identified with its GpuSubmitRegion object (its          *)
(* constructor enters, its destructor leaves); nested regions of one guest *)
(* thread are two elements of Regions.  A frontend is a thread that closes *)
(* the gate, drains it and reopens it (prosper-app/main.cpp:3206,          *)
(* tools/screenshot/screenshot.cpp:993).                                   *)
(***************************************************************************)
EXTENDS Integers, FiniteSets

CONSTANTS Regions,     \* the GpuSubmitRegion objects guest threads construct
          Hung,        \* those whose vkQueueSubmit may never return
          Frontends,   \* the threads that close and reopen the gate
          Drainers,    \* those that also drain it: one per program (main)
          NoOne        \* g_mx is unlocked

ASSUME GateAssumption ==
    /\ IsFiniteSet(Regions)
    /\ IsFiniteSet(Frontends)
    /\ Regions \intersect Frontends = {}
    /\ Hung \subseteq Regions
    /\ Drainers \subseteq Frontends
    /\ NoOne \notin Frontends

VARIABLES
    g_state,     \* the packed word: bit 0 is .shutdown, bits 1..63 are .count
    g_waiters,   \* drains that have announced themselves
    g_mx,        \* the frontend holding the mutex inside a drain, or NoOne
    pc,          \* where each region and each frontend is
    seen,        \* per region: the word its compare-exchange expects
    timeout,     \* per frontend: the timeout class of its drain
    expired,     \* per frontend: the deadline of its wait_for is past
    drained,     \* per frontend: the local `drained` of its drain
    closed,      \* history: the gate was closed when the drain was called
    sealed       \* history: a drain called on the closed gate returned true

vars == <<g_state, g_waiters, g_mx, pc, seen, timeout, expired, drained,
          closed, sealed>>

drainVars  == <<timeout, expired, drained, closed, sealed>>
regionVars == <<g_waiters, g_mx, timeout, expired, drained, closed, sealed>>

Word == [shutdown : BOOLEAN, count : Nat]

\* timeout_ms = 0, > 0 and < 0.
Timeouts == {"poll", "bounded", "forever"}

NotifyPcs  == {"ni_waiters", "ni_count", "ni_lock", "ni_notify"}
InsidePcs  == {"in", "leave_cas"}
RegionPcs  == {"out", "enter_cas"} \union InsidePcs \union NotifyPcs
TimedPcs   == {"drain_check", "drain_sleep", "asleep", "drain_relock",
               "drain_recheck"}                   \* inside wait / wait_for
WaitingPcs == {"drain_lock", "drain_unlock", "drain_retire"} \union TimedPcs
DrainPcs   == WaitingPcs \union {"drain_announce"}
FrontPcs   == {"idle", "fe_notify"} \union DrainPcs

\* Regions the word must account for: admitted and not yet taken out again.
Inside == {r \in Regions : pc[r] \in InsidePcs}

\* Drains that g_waiters must account for.
Waiting == {d \in Frontends : pc[d] \in WaitingPcs}

TypeOK ==
    /\ g_state \in Word
    /\ g_waiters \in Nat
    /\ g_mx \in Frontends \union {NoOne}
    /\ pc \in [Regions \union Frontends -> RegionPcs \union FrontPcs]
    /\ \A r \in Regions : pc[r] \in RegionPcs
    /\ \A d \in Frontends : pc[d] \in FrontPcs
    /\ seen \in [Regions -> Word]
    /\ timeout \in [Frontends -> Timeouts]
    /\ expired \in [Frontends -> BOOLEAN]
    /\ drained \in [Frontends -> BOOLEAN]
    /\ closed \in [Frontends -> BOOLEAN]
    /\ sealed \in [Frontends -> BOOLEAN]

Init ==
    /\ g_state = [shutdown |-> FALSE, count |-> 0]
    /\ g_waiters = 0
    /\ g_mx = NoOne
    /\ pc = [p \in Regions \union Frontends |->
                IF p \in Regions THEN "out" ELSE "idle"]
    /\ seen = [r \in Regions |-> [shutdown |-> FALSE, count |-> 0]]
    /\ timeout = [d \in Frontends |-> "poll"]
    /\ expired = [d \in Frontends |-> FALSE]
    /\ drained = [d \in Frontends |-> FALSE]
    /\ closed = [d \in Frontends |-> FALSE]
    /\ sealed = [d \in Frontends |-> FALSE]

Goto(p, label) == pc' = [pc EXCEPT ![p] = label]

-------------------------------------------------------------------------------
(* gpu_submit_gate_try_enter                                               *)

EnterLoad(r) ==
    /\ pc[r] = "out"
    /\ seen' = [seen EXCEPT ![r] = g_state]
    /\ Goto(r, "enter_cas")
    /\ UNCHANGED <<g_state, regionVars>>

\* One turn of the loop: refuse on the shutdown bit, else the compare-exchange,
\* which on failure reloads the expected word.  A spurious failure of the weak
\* form reloads the word it already had: a stuttering step.
EnterRefuse(r) ==
    /\ pc[r] = "enter_cas"
    /\ seen[r].shutdown
    /\ Goto(r, "out")
    /\ UNCHANGED <<g_state, seen, regionVars>>

\* The word is replaced and the region admitted.
Admitted(r, count) ==
    /\ pc[r] = "enter_cas"
    /\ ~seen[r].shutdown
    /\ g_state' = [shutdown |-> g_state.shutdown, count |-> count]
    /\ Goto(r, "in")
    /\ UNCHANGED <<seen, regionVars>>

\* Faulty: flag and count in two atomics, the flag checked before the count.
EnterCasTwoWords(r) == Admitted(r, g_state.count + 1)

EnterCas(r) ==
    \/ /\ g_state = seen[r]
       /\ Admitted(r, g_state.count + 1)
    \/ /\ pc[r] = "enter_cas"
       /\ ~seen[r].shutdown
       /\ g_state # seen[r]
       /\ seen' = [seen EXCEPT ![r] = g_state]
       /\ UNCHANGED <<g_state, pc, regionVars>>

-------------------------------------------------------------------------------
(* gpu_submit_gate_leave and notify_if_idle                                *)

LeaveLoad(r) ==
    /\ pc[r] = "in"
    /\ seen' = [seen EXCEPT ![r] = g_state]
    /\ Goto(r, "leave_cas")
    /\ UNCHANGED <<g_state, regionVars>>

\* A count of zero is the mispaired leave the code refuses to underflow on.
LeaveCas(r) ==
    /\ pc[r] = "leave_cas"
    /\ IF seen[r].count = 0
       THEN /\ Goto(r, "out")
            /\ UNCHANGED <<g_state, seen>>
       ELSE IF g_state = seen[r]
       THEN /\ g_state' = [shutdown |-> g_state.shutdown, count |-> g_state.count - 1]
            /\ Goto(r, "ni_waiters")
            /\ UNCHANGED seen
       ELSE /\ seen' = [seen EXCEPT ![r] = g_state]
            /\ UNCHANGED <<g_state, pc>>
    /\ UNCHANGED regionVars

\* One early return of notify_if_idle.
NotifyTest(r, at, stop, next) ==
    /\ pc[r] = at
    /\ Goto(r, IF stop THEN "out" ELSE next)
    /\ UNCHANGED <<g_state, seen, regionVars>>

\* Faulty: off by one, a single drain is taken for none.
NotifyReadWaitersOffByOne(r) ==
    NotifyTest(r, "ni_waiters", g_waiters <= 1, "ni_count")

NotifyReadWaiters(r) == NotifyTest(r, "ni_waiters", g_waiters = 0, "ni_count")

NotifyReadCount(r) == NotifyTest(r, "ni_count", g_state.count # 0, "ni_lock")

\* The empty critical section: nobody is between its look and its sleep.
NotifyLock(r) ==
    /\ g_mx = NoOne
    /\ NotifyTest(r, "ni_lock", FALSE, "ni_notify")

\* notify_all(): every sleeper is woken and has to take the mutex again.
Woken(p, label) ==
    pc' = [q \in DOMAIN pc |->
              IF q = p THEN label
              ELSE IF pc[q] = "asleep" THEN "drain_relock" ELSE pc[q]]

NotifyAll(r) ==
    /\ pc[r] = "ni_notify"
    /\ Woken(r, "out")
    /\ UNCHANGED <<g_state, seen, regionVars>>

-------------------------------------------------------------------------------
(* gpu_submit_gate_begin_shutdown and gpu_submit_gate_reset: the word is   *)
(* written in a critical section of one instruction, then notify_all.      *)

BeginShutdown(d) ==
    /\ pc[d] = "idle"
    /\ g_mx = NoOne
    /\ g_state' = [shutdown |-> TRUE, count |-> g_state.count]
    /\ Goto(d, "fe_notify")
    /\ UNCHANGED <<g_waiters, g_mx, seen, drainVars>>

\* "Not for use while regions are live" (gpu_submit_gate.hpp:96): the caller
\* has no region inside or on its way in or out.  Reopening ends what the
\* earlier drains promised.
Reset(d) ==
    /\ pc[d] = "idle"
    /\ g_mx = NoOne
    /\ \A r \in Regions : pc[r] = "out"
    /\ g_state' = [shutdown |-> FALSE, count |-> 0]
    /\ closed' = [e \in Frontends |-> FALSE]
    /\ sealed' = [e \in Frontends |-> FALSE]
    /\ Goto(d, "fe_notify")
    /\ UNCHANGED <<g_waiters, g_mx, seen, timeout, expired, drained>>

FrontendNotify(d) ==
    /\ pc[d] = "fe_notify"
    /\ Woken(d, "idle")
    /\ UNCHANGED <<g_state, g_waiters, g_mx, seen, drainVars>>

-------------------------------------------------------------------------------
(* gpu_submit_gate_drain                                                   *)

DrainCalled(d, t, idle, next) ==
    /\ d \in Drainers
    /\ pc[d] = "idle"
    /\ timeout' = [timeout EXCEPT ![d] = t]
    /\ expired' = [expired EXCEPT ![d] = FALSE]
    /\ drained' = [drained EXCEPT ![d] = idle]
    /\ closed' = [closed EXCEPT ![d] = g_state.shutdown]
    /\ sealed' = [sealed EXCEPT ![d] = g_state.shutdown /\ idle]
    /\ Goto(d, next)
    /\ UNCHANGED <<g_state, g_waiters, g_mx, seen>>

\* The unlocked idle check: true returns at once, and so does a poll.
DrainCall(d, t) ==
    DrainCalled(d, t, g_state.count = 0,
                IF g_state.count = 0 \/ t = "poll" THEN "idle" ELSE "drain_announce")

\* A leaver that runs from here on takes the notify path.
DrainAnnounce(d) ==
    /\ pc[d] = "drain_announce"
    /\ g_waiters' = g_waiters + 1
    /\ Goto(d, "drain_lock")
    /\ UNCHANGED <<g_state, g_mx, seen, drainVars>>

\* unique_lock, and the re-acquisition by which every sleep ends.
DrainLock(d) ==
    /\ pc[d] \in {"drain_lock", "drain_relock"}
    /\ g_mx = NoOne
    /\ g_mx' = d
    /\ Goto(d, IF pc[d] = "drain_lock" THEN "drain_check" ELSE "drain_recheck")
    /\ UNCHANGED <<g_state, g_waiters, seen, drainVars>>

DrainChecked(d, verdict, done) ==
    /\ pc[d] \in {"drain_check", "drain_recheck"}
    /\ drained' = [drained EXCEPT ![d] = verdict]
    /\ Goto(d, IF done THEN "drain_unlock" ELSE "drain_sleep")
    /\ UNCHANGED <<g_state, g_waiters, g_mx, seen, timeout, expired, closed,
                   sealed>>

\* A sleep that ended after the deadline is the last one.
TimedOut(d) == pc[d] = "drain_recheck" /\ expired[d]

\* Faulty: the drain reports success whichever way its wait ended.
DrainCheckAlwaysDrained(d) == DrainChecked(d, TRUE, g_state.count = 0 \/ TimedOut(d))

\* The predicate, under the mutex: what it says last is what drain returns.
DrainCheck(d) ==
    DrainChecked(d, g_state.count = 0, g_state.count = 0 \/ TimedOut(d))

\* wait releases the mutex and sleeps in one step.
DrainSleep(d) ==
    /\ pc[d] = "drain_sleep"
    /\ g_mx' = NoOne
    /\ Goto(d, "asleep")
    /\ UNCHANGED <<g_state, g_waiters, seen, drainVars>>

DrainSpuriousWake(d) ==
    /\ pc[d] = "asleep"
    /\ Goto(d, "drain_relock")
    /\ UNCHANGED <<g_state, g_waiters, g_mx, seen, drainVars>>

\* The clock: the deadline of a wait_for passes.
DeadlinePasses(d) ==
    /\ pc[d] \in TimedPcs
    /\ timeout[d] = "bounded"
    /\ ~expired[d]
    /\ expired' = [expired EXCEPT ![d] = TRUE]
    /\ UNCHANGED <<g_state, g_waiters, g_mx, pc, seen, timeout, drained, closed,
                   sealed>>

DrainTimeout(d) ==
    /\ pc[d] = "asleep"
    /\ expired[d]
    /\ Goto(d, "drain_relock")
    /\ UNCHANGED <<g_state, g_waiters, g_mx, seen, drainVars>>

DrainUnlock(d) ==
    /\ pc[d] = "drain_unlock"
    /\ g_mx' = NoOne
    /\ Goto(d, "drain_retire")
    /\ UNCHANGED <<g_state, g_waiters, seen, drainVars>>

DrainRetire(d) ==
    /\ pc[d] = "drain_retire"
    /\ g_waiters' = g_waiters - 1
    /\ sealed' = [sealed EXCEPT ![d] = closed[d] /\ drained[d]]
    /\ Goto(d, "idle")
    /\ UNCHANGED <<g_state, g_mx, seen, timeout, expired, drained, closed>>

-------------------------------------------------------------------------------
RegionStep(r) ==
    \/ EnterLoad(r) \/ EnterRefuse(r) \/ EnterCas(r)
    \/ LeaveLoad(r) \/ LeaveCas(r)
    \/ NotifyReadWaiters(r) \/ NotifyReadCount(r)
    \/ NotifyLock(r) \/ NotifyAll(r)

FrontendStep(d) ==
    \/ BeginShutdown(d) \/ Reset(d) \/ FrontendNotify(d)
    \/ \E t \in Timeouts : DrainCall(d, t)
    \/ DrainAnnounce(d) \/ DrainLock(d) \/ DrainCheck(d) \/ DrainSleep(d)
    \/ DrainSpuriousWake(d) \/ DeadlinePasses(d) \/ DrainTimeout(d)
    \/ DrainUnlock(d) \/ DrainRetire(d)

Next == \/ \E r \in Regions : RegionStep(r)
        \/ \E d \in Frontends : FrontendStep(d)

Spec == Init /\ [][Next]_vars

\* A thread inside the gate's own code keeps running; a driver call returns
\* unless it is hung; wait_for's deadline is reached.  Nobody is obliged to
\* call anything, and no wake-up is assumed but those the code sends.
Fairness ==
    /\ \A r \in Regions :
          /\ WF_vars(EnterRefuse(r) \/ EnterCas(r))
          /\ WF_vars(LeaveCas(r))
          /\ WF_vars(NotifyReadWaiters(r) \/ NotifyReadCount(r))
          /\ WF_vars(NotifyLock(r))
          /\ WF_vars(NotifyAll(r))
    /\ \A r \in Regions \ Hung : WF_vars(LeaveLoad(r))
    /\ \A d \in Frontends :
          /\ WF_vars(FrontendNotify(d))
          /\ WF_vars(DrainAnnounce(d))
          /\ WF_vars(DrainLock(d))
          /\ WF_vars(DrainCheck(d) \/ DrainSleep(d))
          /\ WF_vars(DrainUnlock(d) \/ DrainRetire(d))
          /\ WF_vars(DeadlinePasses(d))
          /\ WF_vars(DrainTimeout(d))

FairSpec == Spec /\ Fairness

-------------------------------------------------------------------------------
(* Safety                                                                  *)

\* gpu_submit_gate_in_flight is "exact": the packed count is the number of
\* admitted regions, whatever the interleaving of compare-exchanges, and a
\* refused enter never appears in it.
CountExact == g_state.count = Cardinality(Inside)

\* Once the shutdown bit is set no step raises the count, so the word that
\* carries both halves really makes admission one atomic decision.
NoAdmissionAfterShutdown ==
    [][g_state.shutdown /\ g_state'.shutdown
          => g_state'.count <= g_state.count /\ Inside' \subseteq Inside]_vars

\* What main.cpp:3208 relies on before vkDeviceWaitIdle: after a drain that was
\* called on the closed gate returned true, no region is inside and none will
\* be until the gate is reopened.
SealedIsQuiet ==
    \A d \in Frontends : sealed[d] => g_state.shutdown /\ Inside = {}

\* The argument of notify_if_idle's comment: a drain never sleeps over an empty
\* gate unless a leaver that is going to call notify_all is on its way.
NoLostWakeup ==
    (g_state.count = 0 /\ \E d \in Frontends : pc[d] = "asleep")
        => \E r \in Regions : pc[r] \in NotifyPcs

\* What a frontend may rely on in every state: the count is exact, a sealed gate
\* is quiet, and no drain sleeps through the wake-up it needs.
Safe == TypeOK /\ CountExact /\ SealedIsQuiet /\ NoLostWakeup

(* The inductive invariant behind the properties above.                    *)

LockPcs == {"drain_check", "drain_recheck", "drain_sleep", "drain_unlock"}

\* A leaver sees every drain that may sleep.
WaitersExact == g_waiters = Cardinality(Waiting)

\* The mutex is held exactly by the drain inside its critical section.
MutexExact == \A d \in Frontends : pc[d] \in LockPcs <=> g_mx = d

\* What a drain has concluded, and may still be about to return.
SealInv ==
    \A d \in Frontends :
        /\ closed[d] => g_state.shutdown
        /\ sealed[d] => g_state.shutdown /\ g_state.count = 0
        /\ (pc[d] \in {"drain_unlock", "drain_retire"} /\ closed[d] /\ drained[d])
              => g_state.count = 0
        /\ pc[d] \in DrainPcs => ~sealed[d]

\* A drain that found the gate busy and is about to sleep keeps the mutex, so a
\* leaver that emptied the gate since has yet to pass the mutex.
AboutToSleepInv ==
    (g_state.count = 0 /\ \E d \in Frontends : pc[d] = "drain_sleep")
        => \E r \in Regions : pc[r] \in NotifyPcs \ {"ni_notify"}

\* "Unreachable today": a leave is never mispaired, so it never refuses.
LeaveIsPaired == \A r \in Regions : pc[r] = "leave_cas" => seen[r].count > 0

IInv == /\ TypeOK
        /\ CountExact
        /\ LeaveIsPaired
        /\ WaitersExact
        /\ MutexExact
        /\ SealInv
        /\ NoLostWakeup
        /\ AboutToSleepInv

(* Liveness                                                                *)

\* "A negative timeout waits indefinitely" but no longer than the submissions:
\* a drain of the closed gate returns unless a hung driver call keeps a region
\* inside or somebody reopens the gate.
DrainReturns ==
    \A d \in Frontends :
        (pc[d] \in DrainPcs /\ g_state.shutdown)
            ~> \/ pc[d] = "idle"
               \/ ~g_state.shutdown
               \/ \E r \in Hung : pc[r] = "in"

\* wait_for's deadline: a bounded drain returns even if a submission never does.
BoundedDrainReturns ==
    \A d \in Frontends :
        (pc[d] \in DrainPcs /\ timeout[d] = "bounded") ~> pc[d] = "idle"

\* Whoever closes the gate to tear the device down is not kept waiting for ever.
EveryDrainReturns == DrainReturns /\ BoundedDrainReturns

(* Refinement                                                              *)

Gate == INSTANCE SubmitGate WITH
            open   <- ~g_state.shutdown,
            live   <- Inside,
            sealed <- \E d \in Frontends : sealed[d]

\* Every step of the gate is a step of the contract or leaves it unchanged.
ImplementsSubmitGate == Gate!Spec
===============================================================================
