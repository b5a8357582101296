----------------------------- MODULE KernelObjects -----------------------------
(***************************************************************************)
(* SceKernelEventFlag and SceKernelSema of src/hle/kernel/hle_kernel.cpp:  *)
(* a pattern of bits, or a count, under a mutex and a condition variable,  *)
(* and the protocol by which a delete leaves the freeing of the object to  *)
(* the last waiter out.  The handlers of the two are the same but for what *)
(* a wait needs and takes.                                                 *)
(*                                                                         *)
(* The guest calls nothing on one once it has called delete on it, and     *)
(* no call is then waiting for the mutex for the first time; with          *)
(* RacyDelete a wait may be.  A condition wait gives the mutex up and      *)
(* sleeps in one step (the slot's sequence is read under the mutex), and   *)
(* an interrupt may end it at any time.                                    *)
(***************************************************************************)
EXTENDS Integers, FiniteSets, Functions

CONSTANTS Threads, Bits, NoOne,
          Uses,          \* what the guest uses: an object, threads, bits, modes
          MaxCount,      \* bound: a semaphore's count
          RacyDelete

AllModes == [all : BOOLEAN, clear : {"none", "all", "pat"}]

ASSUME ObjectAssumption ==
    /\ IsFiniteSet(Threads) /\ NoOne \notin Threads
    /\ Uses \subseteq [kind : {"flag", "sema"}, threads : SUBSET Threads,
                       bits : SUBSET Bits, modes : SUBSET AllModes \ {{}}]
    /\ MaxCount \in Nat
    /\ RacyDelete \in BOOLEAN

VARIABLES
    use,       \* how the guest uses it
    m, bits, count, deleted, waiters,   \* the object
    freed,     \* times its memory was freed
    gone,      \* the guest has called delete
    pc,        \* where each thread is
    arg,       \* per thread: the pattern of its call on a flag
    need,      \* per thread: the number of its call on a semaphore
    mode,      \* per thread: how it waits for its pattern
    timed,     \* per thread: its wait has a deadline
    rc         \* per thread: the deadline passed

value  == <<bits, count>>
object == <<m, value, deleted, waiters>>
call   == <<arg, need, mode, timed>>
vars   == <<use, object, freed, gone, pc, call, rc>>

Flag == use.kind = "flag"
Patterns == SUBSET use.bits \ {{}}
AMode == [all |-> FALSE, clear |-> "none"]

Pcs == {"idle", "wait", "check", "asleep", "relock", "leave", "set", "wake",
        "clear", "poll", "delete", "dwake", "dunlock", "destroy"}

\* About to take the mutex for the first time in its call.
Arriving == {"wait", "set", "clear", "poll", "delete"}

TypeOK ==
    /\ use \in Uses
    /\ m \in Threads \union {NoOne}
    /\ bits \subseteq use.bits
    /\ count \in Nat
    /\ deleted \in BOOLEAN
    /\ waiters \in 0 .. Cardinality(Threads)
    /\ freed \in {0, 1}
    /\ gone \in BOOLEAN
    /\ pc \in [Threads -> Pcs]
    /\ arg \in [Threads -> SUBSET use.bits]
    /\ need \in [Threads -> 0 .. MaxCount]
    /\ mode \in [Threads -> AllModes]
    /\ timed \in [Threads -> BOOLEAN]
    /\ rc \in [Threads -> BOOLEAN]

Init ==
    /\ use \in Uses
    /\ m = NoOne /\ bits = {} /\ count = 0 /\ deleted = FALSE /\ waiters = 0
    /\ freed = 0 /\ gone = FALSE
    /\ pc = [t \in Threads |-> "idle"]
    /\ arg = [t \in Threads |-> {}]
    /\ need = [t \in Threads |-> 0]
    /\ mode = [t \in Threads |-> AMode]
    /\ timed = [t \in Threads |-> FALSE]
    /\ rc = [t \in Threads |-> FALSE]

Goto(t, label) == pc' = [pc EXCEPT ![t] = label]

\* The call returns; its locals die.
Return(t, label) ==
    /\ Goto(t, label)
    /\ arg' = [arg EXCEPT ![t] = {}]
    /\ need' = [need EXCEPT ![t] = 0]
    /\ mode' = [mode EXCEPT ![t] = AMode]
    /\ timed' = [timed EXCEPT ![t] = FALSE]
    /\ rc' = [rc EXCEPT ![t] = FALSE]

\* interruptible_mutex_lock
Take(t) == m = NoOne /\ m' = t

\* evf_match; a semaphore's count
Satisfied(t) ==
    IF ~Flag THEN count >= need[t]
    ELSE IF mode[t].all THEN arg[t] \subseteq bits ELSE arg[t] \cap bits # {}

Cleared(p, how) == CASE how = "all" -> {} [] how = "pat" -> bits \ p [] OTHER -> bits

\* What a call that succeeds takes.
Consume(t) ==
    /\ bits' = IF Flag THEN Cleared(arg[t], mode[t].clear) ELSE bits
    /\ count' = IF Flag THEN count ELSE count - need[t]

\* Faulty: one sleeper is woken.
BroadcastOne(t, label) ==
    \E u \in Threads :
        /\ pc[u] = "asleep" \/ \A v \in Threads : pc[v] # "asleep"
        /\ pc' = [pc EXCEPT ![u] = IF @ = "asleep" THEN "relock" ELSE @, ![t] = label]

\* Every sleeper is made to contend for the mutex (the caller holds it).
Broadcast(t, label) ==
    pc' = [u \in Threads |-> IF pc[u] = "asleep" THEN "relock"
                             ELSE IF u = t THEN label ELSE pc[u]]

-------------------------------------------------------------------------------
(* The guest's calls.                                                      *)

Call(t, label, p, n) ==
    /\ pc[t] = "idle" /\ ~gone /\ freed = 0
    /\ t \in use.threads
    /\ IF Flag THEN p \subseteq use.bits /\ n = 0 ELSE p = {}
    /\ Goto(t, label)
    /\ arg' = [arg EXCEPT ![t] = p]
    /\ need' = [need EXCEPT ![t] = n]
    /\ UNCHANGED <<use, object, freed, rc>>

Asks(t, label, p, n, md) ==
    /\ IF Flag THEN p # {} /\ md \in use.modes ELSE n > 0 /\ md = AMode
    /\ Call(t, label, p, n)
    /\ mode' = [mode EXCEPT ![t] = md]
    /\ UNCHANGED gone

Wait(t, p, n, md, bounded) ==
    /\ Asks(t, "wait", p, n, md)
    /\ timed' = [timed EXCEPT ![t] = bounded]

Poll(t, p, n, md) == Asks(t, "poll", p, n, md) /\ UNCHANGED timed

\* What the signals that have been called will add.
Coming == FoldFunctionOnSet(+, 0, need, {t \in Threads : pc[t] = "set"})

\* k_ef_set, k_sema_signal
Set(t, p, n) ==
    /\ IF Flag THEN p # {} ELSE n > 0
    /\ count + n + Coming <= MaxCount
    /\ Call(t, "set", p, n)
    /\ UNCHANGED <<gone, mode, timed>>

Clear(t, p) == Flag /\ Call(t, "clear", p, 0) /\ UNCHANGED <<gone, mode, timed>>

Delete(t) ==
    /\ \A u \in Threads : pc[u] \in Arriving => RacyDelete /\ pc[u] = "wait"
    /\ Call(t, "delete", {}, 0)
    /\ gone' = TRUE
    /\ UNCHANGED <<mode, timed>>

\* k_ef_create, k_sema_create, once the guest is done with the last object.
Create(p, n) ==
    /\ IF Flag THEN p \subseteq use.bits /\ n = 0 ELSE p = {}
    /\ freed > 0 /\ \A t \in Threads : pc[t] = "idle"
    /\ m' = NoOne /\ bits' = p /\ count' = n /\ deleted' = FALSE /\ waiters' = 0
    /\ freed' = 0 /\ gone' = FALSE
    /\ UNCHANGED <<use, pc, call, rc>>

-------------------------------------------------------------------------------
(* k_ef_wait, k_sema_wait                                                  *)

WaitLock(t) ==
    /\ pc[t] = "wait"
    /\ Take(t)
    /\ waiters' = waiters + 1
    /\ Goto(t, "check")
    /\ UNCHANGED <<use, value, deleted, freed, gone, call, rc>>

\* Faulty: the loop forgets that the deadline passed.
WaitCheckNoDeadline(t) ==
    /\ pc[t] = "check"
    /\ IF Satisfied(t) \/ deleted
       THEN Goto(t, "leave") /\ UNCHANGED m
       ELSE Goto(t, "asleep") /\ m' = NoOne
    /\ UNCHANGED <<use, value, deleted, waiters, freed, gone, call, rc>>

\* Faulty: the loop does not look at deleted.
WaitCheckNoDeleted(t) ==
    /\ pc[t] = "check"
    /\ IF Satisfied(t) \/ rc[t]
       THEN Goto(t, "leave") /\ UNCHANGED m
       ELSE Goto(t, "asleep") /\ m' = NoOne
    /\ UNCHANGED <<use, value, deleted, waiters, freed, gone, call, rc>>

\* The loop's condition, and the condition wait's unlock and sleep.
WaitCheck(t) ==
    /\ pc[t] = "check"
    /\ IF Satisfied(t) \/ rc[t] \/ deleted
       THEN Goto(t, "leave") /\ UNCHANGED m
       ELSE Goto(t, "asleep") /\ m' = NoOne
    /\ UNCHANGED <<use, value, deleted, waiters, freed, gone, call, rc>>

Deadline(t) ==
    /\ pc[t] = "asleep" /\ timed[t]
    /\ rc' = [rc EXCEPT ![t] = TRUE]
    /\ Goto(t, "relock")
    /\ UNCHANGED <<use, object, freed, gone, call>>

Interrupt(t) ==
    /\ pc[t] = "asleep"
    /\ Goto(t, "relock")
    /\ UNCHANGED <<use, object, freed, gone, call, rc>>

Relock(t) ==
    /\ pc[t] = "relock"
    /\ Take(t)
    /\ Goto(t, "check")
    /\ UNCHANGED <<use, value, deleted, waiters, freed, gone, call, rc>>

\* A deleted flag first; a pattern that came with the deadline still counts.
LeaveCode(t) == IF deleted THEN "EACCES"
                ELSE IF Satisfied(t) THEN "OK" ELSE "ETIMEDOUT"

\* Faulty: the pattern is cleared whatever the wait returns.
WaitLeaveClears(t) ==
    /\ pc[t] = "leave"
    /\ IF Satisfied(t) \/ Flag THEN Consume(t) ELSE UNCHANGED value
    /\ waiters' = waiters - 1 /\ m' = NoOne
    /\ Return(t, IF waiters = 1 /\ deleted THEN "destroy" ELSE "idle")
    /\ UNCHANGED <<use, deleted, freed, gone>>

\* The result, the clearing, the last waiter's duty; then the unlock.
WaitLeave(t) ==
    /\ pc[t] = "leave"
    /\ IF LeaveCode(t) = "OK" THEN Consume(t) ELSE UNCHANGED value
    /\ waiters' = waiters - 1
    /\ m' = NoOne
    /\ Return(t, IF waiters = 1 /\ deleted THEN "destroy" ELSE "idle")
    /\ UNCHANGED <<use, deleted, freed, gone>>

\* ef_destroy, sema_destroy
Destroy(t) ==
    /\ pc[t] = "destroy"
    /\ freed' = freed + 1
    /\ Goto(t, "idle")
    /\ UNCHANGED <<use, object, gone, call, rc>>

-------------------------------------------------------------------------------
(* The other handlers; clear is a flag's only.                             *)

Raise(t) ==
    /\ pc[t] = "set"
    /\ Take(t)
    /\ bits' = bits \union arg[t]
    /\ count' = count + need[t]
    /\ Goto(t, "wake")
    /\ UNCHANGED <<use, deleted, waiters, freed, gone, call, rc>>

RaiseWake(t) ==
    /\ pc[t] = "wake"
    /\ Broadcast(t, "idle")
    /\ m' = NoOne
    /\ arg' = [arg EXCEPT ![t] = {}]
    /\ need' = [need EXCEPT ![t] = 0]
    /\ UNCHANGED <<use, value, deleted, waiters, freed, gone, mode, timed, rc>>

\* The argument is the mask of bits to keep.
ClearBits(t) ==
    /\ pc[t] = "clear"
    /\ m = NoOne
    /\ bits' = bits \cap arg[t]
    /\ Return(t, "idle")
    /\ UNCHANGED <<use, m, count, deleted, waiters, freed, gone>>

PollNow(t) ==
    /\ pc[t] = "poll"
    /\ m = NoOne
    /\ \/ /\ Satisfied(t)
          /\ Consume(t)
          /\ Return(t, "idle")
       \/ /\ ~Satisfied(t)
          /\ Return(t, "idle")
          /\ UNCHANGED value
    /\ UNCHANGED <<use, m, deleted, waiters, freed, gone>>

DeleteMark(t) ==
    /\ pc[t] = "delete"
    /\ Take(t)
    /\ deleted' = TRUE
    /\ Goto(t, "dwake")
    /\ UNCHANGED <<use, value, waiters, freed, gone, call, rc>>

DeleteWake(t) ==
    /\ pc[t] = "dwake"
    /\ Broadcast(t, "dunlock")
    /\ UNCHANGED <<use, object, freed, gone, call, rc>>

\* Faulty: the deleter frees the flag itself.
DeleteFrees(t) ==
    /\ pc[t] = "dunlock"
    /\ m' = NoOne /\ Return(t, "destroy")
    /\ UNCHANGED <<use, value, deleted, waiters, freed, gone>>

\* Nobody waits: free now.  Otherwise the last waiter will.
DeleteUnlock(t) ==
    /\ pc[t] = "dunlock"
    /\ m' = NoOne
    /\ Return(t, IF waiters > 0 THEN "idle" ELSE "destroy")
    /\ UNCHANGED <<use, value, deleted, waiters, freed, gone>>

-------------------------------------------------------------------------------
Lock(t) == WaitLock(t) \/ Relock(t) \/ Raise(t) \/ ClearBits(t) \/ PollNow(t)
           \/ DeleteMark(t)

Run(t) == WaitCheck(t) \/ WaitLeave(t) \/ Destroy(t) \/ RaiseWake(t) \/ DeleteWake(t)
          \/ DeleteUnlock(t)

Guest(t) ==
    \/ \E p \in SUBSET use.bits, n \in 0 .. MaxCount :
         \/ Set(t, p, n)
         \/ \E md \in use.modes :
              Poll(t, p, n, md) \/ \E b \in BOOLEAN : Wait(t, p, n, md, b)
    \/ \E p \in SUBSET use.bits : Clear(t, p)
    \/ Delete(t)

Next == \/ \E t \in Threads : Lock(t) \/ Run(t) \/ Deadline(t) \/ Interrupt(t) \/ Guest(t)
        \/ \E p \in SUBSET use.bits, n \in 0 .. MaxCount : Create(p, n)

Spec == Init /\ [][Next]_vars

\* A thread that holds the mutex runs, and who keeps trying the mutex gets it: it is
\* held for a few instructions and tried every 0.5 to 2 ms.  Once its deadline is past,
\* every further sleep of a wait times out at once, and cannot be cut short for ever.
Fairness == \A t \in Threads :
    SF_vars(Lock(t)) /\ WF_vars(Run(t)) /\ SF_vars(Deadline(t))

FairSpec == Spec /\ Fairness

-------------------------------------------------------------------------------
Waiting == {t \in Threads : pc[t] \in {"check", "asleep", "relock", "leave"}}

(* The count the deleter decides by is the number of threads that wait.    *)
WaitersExact == freed = 0 => waiters = Cardinality(Waiting)

(* "Delete ... defers destroy+free to the last waiter leaving (or frees    *)
(* now if none are parked)": the object is freed once, when no call is     *)
(* left inside it, and the count the deleter decided by was right.         *)
FreedOnceUnused ==
    /\ TypeOK
    /\ WaitersExact
    /\ freed = 1 => \A t \in Threads : pc[t] = "idle"
    /\ Cardinality({t \in Threads : pc[t] = "destroy"}) + freed <= 1

(* A thread sleeps only while it must: as soon as its pattern is set, the  *)
(* count suffices or the object is deleted, somebody holding the mutex is  *)
(* about to wake it.                                                       *)
NoLostWakeup ==
    \A t \in Threads : pc[t] = "asleep" /\ (deleted \/ Satisfied(t))
        => \E u \in Threads : m = u /\ pc[u] \in {"wake", "dwake"}

(* Bits and counts disappear only into a call that reports having had      *)
(* them (a count: as many as it asked for), or a clear.                    *)
Reported ==
    (bits \ bits' # {} \/ count' < count) /\ freed' = freed =>
        \E t \in Threads :
            /\ pc'[t] # pc[t] /\ count' = count - need[t]
            /\ \/ pc[t] = "leave" /\ LeaveCode(t) = "OK"
               \/ pc[t] = "poll" /\ Satisfied(t)
               \/ pc[t] = "clear"
TakenAsReported == [][Reported]_vars

(* A deleted object is freed whatever its waiters wait for.                *)
DeletedIsFreed == gone ~> freed > 0

(* A bounded wait returns.                                                 *)
BoundedWaitReturns ==
    \A t \in Threads : (pc[t] = "asleep" /\ timed[t]) ~> pc[t] = "idle"

-------------------------------------------------------------------------------
(* The inductive invariant, for a guest that deletes no object another of  *)
(* its threads is about to use.                                            *)

Holding == {"check", "leave", "wake", "dwake", "dunlock"}

MutexExact == \A t \in Threads : m = t <=> pc[t] \in Holding

\* A flag's calls count nothing, a semaphore's have no pattern and are no clear.
KindExact ==
    \A t \in Threads : IF Flag THEN need[t] = 0 ELSE arg[t] = {} /\ pc[t] # "clear"

\* One thread deletes, when no call is on its way in; the rest only leaves.
Deleters == {t \in Threads : pc[t] \in {"delete", "dwake", "dunlock"}}
DeleteExact ==
    /\ gone => \A t \in Threads : pc[t] \notin Arriving \ {"delete"}
    /\ deleted \/ freed = 1 => gone
    /\ \A t \in Deleters : gone /\ (deleted <=> pc[t] # "delete") /\ Deleters = {t}

\* Who destroys the object is the last one at it.
LastDestroys ==
    /\ \A t \in Threads : pc[t] = "destroy" =>
         deleted /\ waiters = 0 /\ freed = 0 /\ \A u \in Threads \ {t} : pc[u] = "idle"
    /\ freed = 1 => \A t \in Threads : pc[t] = "idle"

IInv == /\ TypeOK /\ WaitersExact /\ MutexExact /\ KindExact /\ DeleteExact
        /\ LastDestroys /\ NoLostWakeup

===============================================================================
