--------------------------- MODULE KernelObjectsProofs ---------------------------
(***************************************************************************)
(* Proofs about KernelObjects, for any number of threads, bits, modes and  *)
(* counts: while the guest deletes no object another of its threads is     *)
(* about to use (~RacyDelete), an object is freed once and by the last one *)
(* at it, no wake-up is lost, and nothing is taken that is not reported.   *)
(***************************************************************************)
EXTENDS KernelObjects, FiniteSetTheorems, TLAPS

\* The threads that wait are finitely many.
LEMMA WaitingIsFinite ==
  /\ IsFiniteSet(Waiting) /\ Cardinality(Waiting) \in Nat
  /\ Cardinality(Waiting) <= Cardinality(Threads)
  /\ Cardinality(Threads) \in Nat
<1>1. Waiting \in SUBSET Threads
  BY DEF Waiting
<1>2. QED
  BY <1>1, ObjectAssumption, FS_Subset, FS_CardinalityType

\* A use fixes the kind of the object, its bits and the modes its waits have.
LEMMA UseTypes ==
  ASSUME use \in Uses
  PROVE  /\ use.kind \in {"flag", "sema"}
         /\ use.threads \subseteq Threads
         /\ use.modes \subseteq AllModes
BY ObjectAssumption

\* The number of waiters stays what it is counted as: across a step that
\* leaves the same threads waiting,
LEMMA SameWaiters ==
  ASSUME WaitersExact, waiters' = waiters, freed' = 0 => freed = 0, Waiting' = Waiting
  PROVE  WaitersExact'
BY DEF WaitersExact

\* across one that counts in a thread that begins to wait,
LEMMA OneMoreWaiter ==
  ASSUME WaitersExact, freed = 0, NEW t \in Threads, t \notin Waiting,
         waiters' = waiters + 1, Waiting' = Waiting \union {t}
  PROVE  WaitersExact'
<1>1. Cardinality(Waiting') = Cardinality(Waiting) + 1
  BY WaitingIsFinite, FS_AddElement
<1>2. QED
  BY <1>1 DEF WaitersExact

\* and across one that counts out a thread that has waited.
LEMMA OneWaiterLess ==
  ASSUME WaitersExact, freed = 0, NEW t \in Threads, t \in Waiting,
         waiters' = waiters - 1, Waiting' = Waiting \ {t}
  PROVE  WaitersExact'
<1>1. Cardinality(Waiting') = Cardinality(Waiting) - 1
  BY WaitingIsFinite, FS_RemoveElement
<1>2. QED
  BY <1>1 DEF WaitersExact

\* Taking bits or counts away satisfies no wait.
LEMMA LessSatisfiesLess ==
  ASSUME TypeOK, NEW u \in Threads, use' = use,
         bits' \subseteq bits, count' \in Nat, count' <= count,
         arg'[u] = arg[u], need'[u] = need[u], mode'[u] = mode[u],
         Satisfied(u)'
  PROVE  Satisfied(u)
<1>1. need[u] \in Nat
  BY ObjectAssumption DEF TypeOK
<1>2. QED
  BY <1>1 DEF TypeOK, Satisfied, Flag

\* A step that gives nothing, sends nobody to sleep and leaves the thread that is
\* about to wake the sleepers where it is loses no wake-up.
LEMMA SleepersStay ==
  ASSUME TypeOK, NoLostWakeup, use' = use, deleted' = deleted,
         bits' \subseteq bits, count' \in Nat, count' <= count,
         \A u \in Threads : pc'[u] = "asleep" =>
            /\ pc[u] = "asleep"
            /\ arg'[u] = arg[u] /\ need'[u] = need[u] /\ mode'[u] = mode[u],
         \A u \in Threads : m = u /\ pc[u] \in {"wake", "dwake"} =>
            m' = u /\ pc'[u] = pc[u]
  PROVE  NoLostWakeup'
<1> SUFFICES ASSUME NEW u \in Threads, pc'[u] = "asleep", deleted' \/ Satisfied(u)'
             PROVE  \E v \in Threads : m' = v /\ pc'[v] \in {"wake", "dwake"}
  BY DEF NoLostWakeup
<1>1. deleted \/ Satisfied(u)
  BY LessSatisfiesLess
<1>2. QED
  BY <1>1 DEF NoLostWakeup

\* A call that returns leaves its locals empty.
LEMMA ReturnTypes ==
  ASSUME TypeOK, NEW t \in Threads, NEW label \in Pcs, Return(t, label)
  PROVE  /\ pc' \in [Threads -> Pcs]
         /\ arg' \in [Threads -> SUBSET use.bits]
         /\ need' \in [Threads -> 0 .. MaxCount]
         /\ mode' \in [Threads -> AllModes]
         /\ timed' \in [Threads -> BOOLEAN]
         /\ rc' \in [Threads -> BOOLEAN]
<1>1. AMode \in AllModes
  BY DEF AMode, AllModes
<1>2. 0 \in 0 .. MaxCount
  BY ObjectAssumption
<1>3. pc' \in [Threads -> Pcs] /\ arg' \in [Threads -> SUBSET use.bits]
  BY DEF TypeOK, Return, Goto
<1>4. need' \in [Threads -> 0 .. MaxCount] /\ mode' \in [Threads -> AllModes]
  BY <1>1, <1>2 DEF TypeOK, Return
<1>5. timed' \in [Threads -> BOOLEAN] /\ rc' \in [Threads -> BOOLEAN]
  BY DEF TypeOK, Return
<1>6. QED
  BY <1>3, <1>4, <1>5

\* What a call that succeeds takes is there.
LEMMA ConsumeTakes ==
  ASSUME TypeOK, NEW t \in Threads, Satisfied(t), Consume(t)
  PROVE  bits' \subseteq bits /\ count' \in Nat /\ count' <= count
<1>1. need[t] \in Nat
  BY ObjectAssumption DEF TypeOK
<1>2. QED
  BY <1>1 DEF TypeOK, Satisfied, Consume, Cleared, Flag
-------------------------------------------------------------------------------
\* Initially nobody is in a call.
LEMMA InitIInv == Init => IInv
<1> SUFFICES ASSUME Init PROVE IInv
  OBVIOUS
<1>1. TypeOK
  <2>1. 0 \in 0 .. MaxCount /\ 0 \in 0 .. Cardinality(Threads)
    BY ObjectAssumption, WaitingIsFinite
  <2>2. AMode \in AllModes
    BY DEF AMode, AllModes
  <2>3. QED
    BY <2>1, <2>2 DEF Init, TypeOK, Pcs
<1>2. WaitersExact
  <2>1. Waiting = {}
    BY DEF Init, Waiting
  <2>2. QED
    BY <2>1, FS_EmptySet DEF Init, WaitersExact
<1>3. MutexExact /\ KindExact
  BY ObjectAssumption DEF Init, MutexExact, Holding, KindExact
<1>4. DeleteExact /\ LastDestroys
  BY DEF Init, DeleteExact, Deleters, Arriving, LastDestroys
<1>5. NoLostWakeup
  BY DEF Init, NoLostWakeup
<1>6. QED
  BY <1>1, <1>2, <1>3, <1>4, <1>5 DEF IInv

\* Wherever the guest enters a call, the object is there and is not deleted, and
\* the thread was nowhere: nothing but its own arguments changes.
LEMMA CallStep ==
  ASSUME IInv, NEW t \in Threads, NEW label \in Arriving, NEW p \in SUBSET use.bits,
         NEW n \in 0 .. MaxCount, Call(t, label, p, n), mode' \in [Threads -> AllModes],
         \A u \in Threads \ {t} : mode'[u] = mode[u],
         timed' \in [Threads -> BOOLEAN],
         gone' = (label = "delete"), label = "clear" => Flag,
         gone' => \A u \in Threads : pc[u] \notin Arriving
  PROVE  IInv'
<1>0. pc[t] = "idle" /\ ~gone /\ freed = 0 /\ ~deleted
  BY DEF IInv, DeleteExact, Call
<1>1. TypeOK'
  BY DEF IInv, TypeOK, Call, Goto, object, value, Arriving, Pcs
<1>2. WaitersExact'
  <2>1. Waiting' = Waiting
    BY <1>0 DEF IInv, TypeOK, Waiting, Call, Goto, Arriving
  <2>2. QED
    BY <2>1, SameWaiters DEF IInv, Call, object
<1>3. MutexExact'
  BY <1>0 DEF IInv, TypeOK, MutexExact, Holding, Call, Goto, object, Arriving
<1>4. KindExact'
  BY <1>0 DEF IInv, TypeOK, KindExact, Flag, Call, Goto
<1>5. DeleteExact'
  <2>1. \A u \in Threads : pc[u] \notin {"delete", "dwake", "dunlock"}
    BY <1>0 DEF IInv, DeleteExact, Deleters
  <2>2. Deleters' = IF label = "delete" THEN {t} ELSE {}
    BY <2>1 DEF IInv, TypeOK, Deleters, Call, Goto, Arriving
  <2>3. QED
    BY <1>0, <2>2 DEF IInv, TypeOK, DeleteExact, Deleters, Call, Goto, object, Arriving
<1>6. LastDestroys'
  BY <1>0 DEF IInv, TypeOK, LastDestroys, Call, Goto, object, Arriving
<1>7. NoLostWakeup'
  BY <1>0, SleepersStay
     DEF IInv, TypeOK, Call, Goto, object, value, Arriving
<1>8. QED
  BY <1>1, <1>2, <1>3, <1>4, <1>5, <1>6, <1>7 DEF IInv

\* Whatever the guest calls, it calls on an object nobody has deleted.
LEMMA GuestStep ==
  ASSUME ~RacyDelete, IInv, NEW t \in Threads, Guest(t)
  PROVE  IInv'
<1>0. 0 \in 0 .. MaxCount
  BY ObjectAssumption
<1>1. ASSUME NEW p \in SUBSET use.bits, NEW n \in 0 .. MaxCount, Set(t, p, n)
      PROVE  IInv'
  BY <1>1, CallStep DEF IInv, TypeOK, Set, Call, Arriving
<1>2. ASSUME NEW p \in SUBSET use.bits, NEW n \in 0 .. MaxCount, NEW md \in use.modes,
             Poll(t, p, n, md)
      PROVE  IInv'
  <2>1. md \in AllModes
    BY UseTypes DEF IInv, TypeOK
  <2>2. QED
    BY <1>2, <2>1, CallStep DEF IInv, TypeOK, Poll, Asks, Call, Arriving
<1>3. ASSUME NEW p \in SUBSET use.bits, NEW n \in 0 .. MaxCount, NEW md \in use.modes,
             NEW b \in BOOLEAN, Wait(t, p, n, md, b)
      PROVE  IInv'
  <2>1. md \in AllModes
    BY UseTypes DEF IInv, TypeOK
  <2>2. QED
    BY <1>3, <2>1, CallStep DEF IInv, TypeOK, Wait, Asks, Call, Arriving
<1>4. ASSUME NEW p \in SUBSET use.bits, Clear(t, p)
      PROVE  IInv'
  BY <1>0, <1>4, CallStep DEF IInv, TypeOK, Clear, Call, Arriving
<1>5. CASE Delete(t)
  <2>1. \A u \in Threads : pc[u] \notin Arriving
    BY <1>5 DEF Delete
  <2>2. {} \in SUBSET use.bits
    OBVIOUS
  <2>3. QED
    BY <1>0, <1>5, <2>1, <2>2, CallStep DEF IInv, TypeOK, Delete, Call, Arriving
<1>6. QED
  BY <1>1, <1>2, <1>3, <1>4, <1>5 DEF Guest

\* The guest makes a new object when nobody is at the last one any more.
LEMMA CreateStep ==
  ASSUME IInv, NEW p \in SUBSET use.bits, NEW n \in 0 .. MaxCount, Create(p, n)
  PROVE  IInv'
<1>1. TypeOK'
  <2>1. 0 \in 0 .. Cardinality(Threads) /\ n \in Nat
    BY WaitingIsFinite, ObjectAssumption
  <2>2. QED
    BY <2>1 DEF IInv, TypeOK, Create, call
<1>2. WaitersExact'
  <2>1. Waiting' = {}
    BY DEF Create, Waiting
  <2>2. QED
    BY <2>1, FS_EmptySet DEF Create, WaitersExact
<1>3. MutexExact' /\ KindExact'
  BY ObjectAssumption DEF IInv, Create, call, MutexExact, Holding, KindExact, Flag
<1>4. DeleteExact' /\ LastDestroys'
  BY DEF Create, DeleteExact, Deleters, Arriving, LastDestroys
<1>5. NoLostWakeup'
  BY DEF Create, NoLostWakeup
<1>6. QED
  BY <1>1, <1>2, <1>3, <1>4, <1>5 DEF IInv
-------------------------------------------------------------------------------
\* A wait takes the mutex and counts itself in.
LEMMA WaitLockStep ==
  ASSUME IInv, NEW t \in Threads, WaitLock(t)
  PROVE  IInv'
<1>0. pc[t] = "wait" /\ m = NoOne /\ m' = t /\ ~gone /\ ~deleted /\ freed = 0
  BY DEF IInv, TypeOK, DeleteExact, WaitLock, Take, Arriving
<1>1. WaitersExact' /\ waiters' \in 0 .. Cardinality(Threads)
  <2>1. t \notin Waiting /\ Waiting' = Waiting \union {t}
    BY <1>0 DEF IInv, TypeOK, Waiting, WaitLock, Goto
  <2>2. WaitersExact'
    BY <1>0, <2>1, OneMoreWaiter DEF IInv, WaitLock
  <2>3. Cardinality(Waiting') = waiters'
    BY <1>0, <2>2 DEF WaitersExact, WaitLock
  <2>4. Waiting' \in SUBSET Threads
    BY <2>1 DEF Waiting
  <2>5. QED
    BY <2>2, <2>3, <2>4, ObjectAssumption, FS_Subset, FS_CardinalityType
<1>2. TypeOK'
  BY <1>0, <1>1 DEF IInv, TypeOK, WaitLock, Goto, value, call, Pcs
<1>3. MutexExact'
  BY <1>0, ObjectAssumption DEF IInv, TypeOK, MutexExact, Holding, WaitLock, Goto
<1>4. KindExact'
  BY DEF IInv, TypeOK, KindExact, Flag, WaitLock, Goto, call
<1>5. DeleteExact'
  BY <1>0 DEF IInv, TypeOK, DeleteExact, Deleters, Arriving, WaitLock, Goto
<1>6. LastDestroys'
  BY <1>0 DEF IInv, TypeOK, LastDestroys, WaitLock, Goto
<1>7. NoLostWakeup'
  BY <1>0, ObjectAssumption, SleepersStay
     DEF IInv, TypeOK, WaitLock, Goto, value, call
<1>8. QED
  BY <1>1, <1>2, <1>3, <1>4, <1>5, <1>6, <1>7 DEF IInv

\* Who goes to sleep has seen, under the mutex, that it must.
LEMMA WaitCheckStep ==
  ASSUME IInv, NEW t \in Threads, WaitCheck(t)
  PROVE  IInv'
<1>0. pc[t] = "check" /\ m = t
  BY DEF IInv, MutexExact, Holding, WaitCheck
<1>1. pc' = [pc EXCEPT ![t] = IF Satisfied(t) \/ rc[t] \/ deleted THEN "leave" ELSE "asleep"]
  BY DEF WaitCheck, Goto
<1>2. TypeOK'
  BY <1>1 DEF IInv, TypeOK, WaitCheck, value, call, Pcs
<1>3. WaitersExact'
  <2>1. Waiting' = Waiting
    BY <1>0, <1>1 DEF IInv, TypeOK, Waiting
  <2>2. QED
    BY <2>1, SameWaiters DEF IInv, WaitCheck
<1>4. MutexExact'
  BY <1>0, <1>1, ObjectAssumption DEF IInv, TypeOK, MutexExact, Holding, WaitCheck, Goto
<1>5. KindExact'
  BY <1>1 DEF IInv, TypeOK, KindExact, Flag, WaitCheck, call
<1>6. DeleteExact'
  <2>1. Deleters' = Deleters
    BY <1>0, <1>1 DEF IInv, TypeOK, Deleters
  <2>2. QED
    BY <1>0, <1>1, <2>1 DEF IInv, TypeOK, DeleteExact, Deleters, Arriving, WaitCheck
<1>7. LastDestroys'
  BY <1>0, <1>1 DEF IInv, TypeOK, LastDestroys, WaitCheck
<1>8. NoLostWakeup'
  <2>0. use' = use /\ bits' = bits /\ count' = count /\ deleted' = deleted
        /\ arg' = arg /\ need' = need /\ mode' = mode
    BY DEF WaitCheck, value, call
  <2>1. \A u \in Threads : Satisfied(u)' => Satisfied(u)
    BY <2>0, LessSatisfiesLess DEF IInv, TypeOK
  <2>2. \A u \in Threads : pc'[u] = "asleep" => ~deleted /\ ~Satisfied(u)
    <3>1. \A u \in Threads \ {t} : pc[u] = "asleep" => ~deleted /\ ~Satisfied(u)
      BY <1>0 DEF IInv, NoLostWakeup
    <3>2. QED
      BY <1>0, <1>1, <3>1 DEF IInv, TypeOK
  <2>3. QED
    BY <2>0, <2>1, <2>2 DEF NoLostWakeup
<1>9. QED
  BY <1>2, <1>3, <1>4, <1>5, <1>6, <1>7, <1>8 DEF IInv

\* A sleep that ends, for the deadline or an interrupt, changes nothing for others.
LEMMA AwakeStep ==
  ASSUME IInv, NEW t \in Threads, Deadline(t) \/ Interrupt(t)
  PROVE  IInv'
<1>0. /\ pc[t] = "asleep" /\ pc' = [pc EXCEPT ![t] = "relock"]
      /\ rc' \in [Threads -> BOOLEAN]
      /\ UNCHANGED <<use, m, bits, count, deleted, waiters, freed, gone, call>>
  BY DEF IInv, TypeOK, Deadline, Interrupt, Goto, object, value
<1>1. TypeOK'
  BY <1>0 DEF IInv, TypeOK, call, Pcs
<1>2. WaitersExact'
  <2>1. Waiting' = Waiting
    BY <1>0 DEF IInv, TypeOK, Waiting
  <2>2. QED
    BY <1>0, <2>1, SameWaiters DEF IInv
<1>3. MutexExact'
  BY <1>0 DEF IInv, TypeOK, MutexExact, Holding
<1>4. KindExact'
  BY <1>0 DEF IInv, TypeOK, KindExact, Flag, call
<1>5. DeleteExact'
  <2>1. Deleters' = Deleters
    BY <1>0 DEF IInv, TypeOK, Deleters
  <2>2. QED
    BY <1>0, <2>1 DEF IInv, TypeOK, DeleteExact, Deleters, Arriving
<1>6. LastDestroys'
  BY <1>0 DEF IInv, TypeOK, LastDestroys
<1>7. NoLostWakeup'
  BY <1>0, SleepersStay DEF IInv, TypeOK, call
<1>8. QED
  BY <1>1, <1>2, <1>3, <1>4, <1>5, <1>6, <1>7 DEF IInv

\* A thread that has slept takes the mutex back.
LEMMA RelockStep ==
  ASSUME IInv, NEW t \in Threads, Relock(t)
  PROVE  IInv'
<1>0. pc[t] = "relock" /\ m = NoOne /\ m' = t /\ pc' = [pc EXCEPT ![t] = "check"]
  BY DEF Relock, Take, Goto
<1>1. TypeOK'
  BY <1>0 DEF IInv, TypeOK, Relock, value, call, Pcs
<1>2. WaitersExact'
  <2>1. Waiting' = Waiting
    BY <1>0 DEF IInv, TypeOK, Waiting
  <2>2. QED
    BY <2>1, SameWaiters DEF IInv, Relock
<1>3. MutexExact'
  BY <1>0, ObjectAssumption DEF IInv, TypeOK, MutexExact, Holding
<1>4. KindExact'
  BY <1>0 DEF IInv, TypeOK, KindExact, Flag, Relock, call
<1>5. DeleteExact'
  <2>1. Deleters' = Deleters
    BY <1>0 DEF IInv, TypeOK, Deleters
  <2>2. QED
    BY <1>0, <2>1 DEF IInv, TypeOK, DeleteExact, Deleters, Arriving, Relock
<1>6. LastDestroys'
  BY <1>0 DEF IInv, TypeOK, LastDestroys, Relock
<1>7. NoLostWakeup'
  BY <1>0, ObjectAssumption, SleepersStay DEF IInv, TypeOK, Relock, value, call
<1>8. QED
  BY <1>1, <1>2, <1>3, <1>4, <1>5, <1>6, <1>7 DEF IInv

\* A wait takes its pattern or count and counts itself out; when it is the last one
\* at a deleted object it goes on to destroy it.
LEMMA WaitLeaveStep ==
  ASSUME IInv, NEW t \in Threads, WaitLeave(t)
  PROVE  IInv'
<1> DEFINE label == IF waiters = 1 /\ deleted THEN "destroy" ELSE "idle"
<1>0. /\ pc[t] = "leave" /\ m = t /\ m' = NoOne /\ freed = 0
      /\ pc' = [pc EXCEPT ![t] = label]
      /\ UNCHANGED <<use, deleted, freed, gone>>
  BY DEF IInv, TypeOK, MutexExact, Holding, LastDestroys, WaitLeave, Return, Goto
<1>1. bits' \subseteq bits /\ count' \in Nat /\ count' <= count
  BY ConsumeTakes DEF IInv, TypeOK, WaitLeave, LeaveCode, value
<1>2. /\ Waiting' = Waiting \ {t} /\ t \in Waiting
      /\ waiters = Cardinality(Waiting)
  BY <1>0 DEF IInv, TypeOK, WaitersExact, Waiting
<1>3. WaitersExact'
  BY <1>0, <1>2, OneWaiterLess DEF IInv, WaitLeave
<1>4. waiters' \in 0 .. Cardinality(Threads)
  <2>1. Waiting' \in SUBSET Threads
    BY <1>2 DEF Waiting
  <2>2. waiters' = Cardinality(Waiting')
    BY <1>0, <1>3 DEF WaitersExact
  <2>3. QED
    BY <2>1, <2>2, ObjectAssumption, FS_Subset, FS_CardinalityType
<1>5. TypeOK'
  <2>1. label \in Pcs
    BY DEF Pcs
  <2>2. Return(t, label)
    BY DEF WaitLeave
  <2>3. QED
    BY <1>0, <1>1, <1>4, <2>1, <2>2, ReturnTypes DEF IInv, TypeOK
<1>6. MutexExact'
  BY <1>0, ObjectAssumption DEF IInv, TypeOK, MutexExact, Holding
<1>7. KindExact'
  BY <1>0 DEF IInv, TypeOK, KindExact, Flag, WaitLeave, Return
<1>8. DeleteExact'
  <2>1. Deleters' = Deleters
    BY <1>0 DEF IInv, TypeOK, Deleters
  <2>2. QED
    BY <1>0, <2>1 DEF IInv, TypeOK, DeleteExact, Deleters, Arriving
<1>9. LastDestroys'
  <2>1. CASE label = "destroy"
    <3>1. Waiting = {t} /\ waiters' = 0 /\ deleted /\ gone
      <4>1. Cardinality(Waiting) = 1
        BY <1>2, <2>1
      <4>2. Waiting = {t}
        BY <1>2, <4>1, WaitingIsFinite, FS_Singleton
      <4>3. QED
        BY <2>1, <4>2 DEF IInv, DeleteExact, WaitLeave
    <3>2. \A u \in Threads \ {t} : pc[u] \notin Holding \union Arriving
      BY <1>0, <3>1 DEF IInv, MutexExact, DeleteExact, Deleters, Holding, Arriving
    <3>3. \A u \in Threads \ {t} : pc[u] = "idle"
      BY <1>0, <3>1, <3>2
         DEF IInv, TypeOK, Pcs, LastDestroys, Waiting, Holding, Arriving
    <3>4. QED
      BY <1>0, <3>1, <3>3 DEF IInv, TypeOK, LastDestroys
  <2>2. CASE label = "idle"
    BY <1>0, <2>2 DEF IInv, TypeOK, LastDestroys
  <2>3. QED
    BY <2>1, <2>2
<1>10. NoLostWakeup'
  <2>1. \A u \in Threads : pc'[u] = "asleep" =>
           /\ pc[u] = "asleep"
           /\ arg'[u] = arg[u] /\ need'[u] = need[u] /\ mode'[u] = mode[u]
    BY <1>0 DEF IInv, TypeOK, WaitLeave, Return
  <2>2. QED
    BY <1>0, <1>1, <2>1, SleepersStay DEF IInv
<1>11. QED
  BY <1>3, <1>5, <1>6, <1>7, <1>8, <1>9, <1>10 DEF IInv

\* The object is freed when every other thread has left it.
LEMMA DestroyStep ==
  ASSUME IInv, NEW t \in Threads, Destroy(t)
  PROVE  IInv'
<1>0. /\ pc[t] = "destroy" /\ freed = 0 /\ freed' = 1 /\ deleted
      /\ \A u \in Threads \ {t} : pc[u] = "idle"
      /\ pc' = [pc EXCEPT ![t] = "idle"]
      /\ UNCHANGED <<use, m, bits, count, deleted, waiters, gone, arg, need, mode, timed, rc>>
  BY DEF IInv, LastDestroys, Destroy, Goto, object, value, call
<1>1. \A u \in Threads : pc'[u] = "idle"
  BY <1>0 DEF IInv, TypeOK
<1>2. TypeOK'
  BY <1>0 DEF IInv, TypeOK, Pcs
<1>3. WaitersExact'
  BY <1>0 DEF WaitersExact
<1>4. MutexExact'
  BY <1>0, <1>1 DEF IInv, MutexExact, Holding
<1>5. KindExact'
  BY <1>0 DEF IInv, TypeOK, KindExact, Flag
<1>6. DeleteExact' /\ LastDestroys' /\ NoLostWakeup'
  BY <1>0, <1>1 DEF IInv, DeleteExact, Deleters, Arriving, LastDestroys, NoLostWakeup
<1>7. QED
  BY <1>2, <1>3, <1>4, <1>5, <1>6 DEF IInv

\* Who gives holds the mutex, and is about to wake the sleepers.
LEMMA RaiseStep ==
  ASSUME IInv, NEW t \in Threads, Raise(t)
  PROVE  IInv'
<1>0. /\ pc[t] = "set" /\ m = NoOne /\ m' = t /\ pc' = [pc EXCEPT ![t] = "wake"]
      /\ ~gone /\ need[t] \in Nat
      /\ UNCHANGED <<use, deleted, waiters, freed, gone, arg, need, mode, timed, rc>>
  BY ObjectAssumption
     DEF IInv, TypeOK, DeleteExact, Arriving, Raise, Take, Goto, call
<1>1. TypeOK'
  BY <1>0 DEF IInv, TypeOK, Raise, Pcs
<1>2. WaitersExact'
  <2>1. Waiting' = Waiting
    BY <1>0 DEF IInv, TypeOK, Waiting
  <2>2. QED
    BY <1>0, <2>1, SameWaiters DEF IInv
<1>3. MutexExact'
  BY <1>0, ObjectAssumption DEF IInv, TypeOK, MutexExact, Holding
<1>4. KindExact'
  BY <1>0 DEF IInv, TypeOK, KindExact, Flag
<1>5. DeleteExact'
  <2>1. Deleters' = Deleters
    BY <1>0 DEF IInv, TypeOK, Deleters
  <2>2. QED
    BY <1>0, <2>1 DEF IInv, TypeOK, DeleteExact, Deleters, Arriving
<1>6. LastDestroys'
  BY <1>0 DEF IInv, TypeOK, LastDestroys
<1>7. NoLostWakeup'
  BY <1>0 DEF IInv, TypeOK, NoLostWakeup
<1>8. QED
  BY <1>1, <1>2, <1>3, <1>4, <1>5, <1>6, <1>7 DEF IInv

\* After a broadcast nobody sleeps.
LEMMA BroadcastWakesAll ==
  ASSUME TypeOK, NEW t \in Threads, NEW label \in Pcs \ {"asleep"}, Broadcast(t, label),
         pc[t] # "asleep"
  PROVE  /\ pc' \in [Threads -> Pcs]
         /\ pc'[t] = label
         /\ \A u \in Threads \ {t} :
              pc'[u] = IF pc[u] = "asleep" THEN "relock" ELSE pc[u]
         /\ NoLostWakeup'
BY DEF TypeOK, Broadcast, Pcs, NoLostWakeup

\* The giver wakes them all and lets go.
LEMMA RaiseWakeStep ==
  ASSUME IInv, NEW t \in Threads, RaiseWake(t)
  PROVE  IInv'
<1>0. /\ pc[t] = "wake" /\ m = t /\ m' = NoOne
      /\ UNCHANGED <<use, bits, count, deleted, waiters, freed, gone, mode, timed, rc>>
  BY DEF IInv, MutexExact, Holding, RaiseWake, value
<1>1. /\ pc' \in [Threads -> Pcs]
      /\ pc'[t] = "idle"
      /\ \A u \in Threads \ {t} :
           pc'[u] = IF pc[u] = "asleep" THEN "relock" ELSE pc[u]
      /\ NoLostWakeup'
  BY <1>0, BroadcastWakesAll DEF IInv, RaiseWake, Pcs
<1>2. TypeOK'
  <2>1. 0 \in 0 .. MaxCount
    BY ObjectAssumption
  <2>2. QED
    BY <1>0, <1>1, <2>1 DEF IInv, TypeOK, RaiseWake
<1>3. WaitersExact'
  <2>1. Waiting' = Waiting
    BY <1>0, <1>1 DEF Waiting
  <2>2. QED
    BY <1>0, <2>1, SameWaiters DEF IInv
<1>4. MutexExact'
  BY <1>0, <1>1, ObjectAssumption DEF IInv, MutexExact, Holding
<1>5. KindExact'
  BY <1>0, <1>1 DEF IInv, TypeOK, KindExact, Flag, RaiseWake
<1>6. DeleteExact'
  <2>1. Deleters' = Deleters
    BY <1>0, <1>1 DEF Deleters
  <2>2. QED
    BY <1>0, <1>1, <2>1 DEF IInv, DeleteExact, Deleters, Arriving
<1>7. LastDestroys'
  BY <1>0, <1>1 DEF IInv, LastDestroys
<1>8. QED
  BY <1>1, <1>2, <1>3, <1>4, <1>5, <1>6, <1>7 DEF IInv

\* A step that takes bits or counts under the mutex, and returns.
LEMMA TakeAndReturnStep ==
  ASSUME IInv, NEW t \in Threads, pc[t] \in {"clear", "poll"}, Return(t, "idle"),
         bits' \subseteq bits, count' \in Nat, count' <= count,
         UNCHANGED <<use, m, deleted, waiters, freed, gone>>
  PROVE  IInv'
<1>0. pc' = [pc EXCEPT ![t] = "idle"]
  BY DEF Return, Goto
<1>1. TypeOK'
  BY ReturnTypes DEF IInv, TypeOK, Pcs
<1>2. WaitersExact'
  <2>1. Waiting' = Waiting
    BY <1>0 DEF IInv, TypeOK, Waiting
  <2>2. QED
    BY <2>1, SameWaiters DEF IInv
<1>3. MutexExact'
  BY <1>0 DEF IInv, TypeOK, MutexExact, Holding
<1>4. KindExact'
  BY <1>0 DEF IInv, TypeOK, KindExact, Flag, Return
<1>5. DeleteExact'
  <2>1. Deleters' = Deleters
    BY <1>0 DEF IInv, TypeOK, Deleters
  <2>2. QED
    BY <1>0, <2>1 DEF IInv, TypeOK, DeleteExact, Deleters, Arriving
<1>6. LastDestroys'
  BY <1>0 DEF IInv, TypeOK, LastDestroys
<1>7. NoLostWakeup'
  <2>1. \A u \in Threads : pc'[u] = "asleep" =>
           /\ pc[u] = "asleep"
           /\ arg'[u] = arg[u] /\ need'[u] = need[u] /\ mode'[u] = mode[u]
    BY <1>0 DEF IInv, TypeOK, Return
  <2>2. \A u \in Threads : pc[u] \in {"wake", "dwake"} => pc'[u] = pc[u]
    BY <1>0 DEF IInv, TypeOK
  <2>3. QED
    BY <2>1, <2>2, SleepersStay DEF IInv
<1>8. QED
  BY <1>1, <1>2, <1>3, <1>4, <1>5, <1>6, <1>7 DEF IInv

\* A clear and a poll take, and give nothing.
LEMMA ClearOrPollStep ==
  ASSUME IInv, NEW t \in Threads, ClearBits(t) \/ PollNow(t)
  PROVE  IInv'
<1>1. CASE ClearBits(t)
  BY <1>1, TakeAndReturnStep DEF IInv, TypeOK, ClearBits
<1>2. CASE PollNow(t)
  <2>1. bits' \subseteq bits /\ count' \in Nat /\ count' <= count
    BY <1>2, ConsumeTakes DEF IInv, TypeOK, PollNow, value
  <2>2. QED
    BY <1>2, <2>1, TakeAndReturnStep DEF PollNow
<1>3. QED
  BY <1>1, <1>2

\* The deleter marks the object under the mutex; everybody else only leaves.
LEMMA DeleteMarkStep ==
  ASSUME IInv, NEW t \in Threads, DeleteMark(t)
  PROVE  IInv'
<1>0. /\ pc[t] = "delete" /\ m = NoOne /\ m' = t /\ pc' = [pc EXCEPT ![t] = "dwake"]
      /\ gone /\ Deleters = {t} /\ deleted' = TRUE
      /\ UNCHANGED <<use, bits, count, waiters, freed, gone, arg, need, mode, timed, rc>>
  BY DEF IInv, DeleteExact, Deleters, DeleteMark, Take, Goto, value, call
<1>1. TypeOK'
  BY <1>0 DEF IInv, TypeOK, Pcs
<1>2. WaitersExact'
  <2>1. Waiting' = Waiting
    BY <1>0 DEF IInv, TypeOK, Waiting
  <2>2. QED
    BY <1>0, <2>1, SameWaiters DEF IInv
<1>3. MutexExact'
  BY <1>0, ObjectAssumption DEF IInv, TypeOK, MutexExact, Holding
<1>4. KindExact'
  BY <1>0 DEF IInv, TypeOK, KindExact, Flag
<1>5. DeleteExact'
  <2>1. Deleters' = {t}
    BY <1>0 DEF IInv, TypeOK, Deleters
  <2>2. QED
    BY <1>0, <2>1 DEF IInv, TypeOK, DeleteExact, Arriving
<1>6. LastDestroys'
  BY <1>0 DEF IInv, TypeOK, LastDestroys
<1>7. NoLostWakeup'
  BY <1>0 DEF IInv, TypeOK, NoLostWakeup
<1>8. QED
  BY <1>1, <1>2, <1>3, <1>4, <1>5, <1>6, <1>7 DEF IInv

\* The deleter wakes them all and keeps the mutex.
LEMMA DeleteWakeStep ==
  ASSUME IInv, NEW t \in Threads, DeleteWake(t)
  PROVE  IInv'
<1>0. /\ pc[t] = "dwake" /\ m = t
      /\ UNCHANGED <<use, m, bits, count, deleted, waiters, freed, gone, arg, need, mode,
                     timed, rc>>
  BY DEF IInv, MutexExact, Holding, DeleteWake, object, value, call
<1>1. /\ pc' \in [Threads -> Pcs]
      /\ pc'[t] = "dunlock"
      /\ \A u \in Threads \ {t} :
           pc'[u] = IF pc[u] = "asleep" THEN "relock" ELSE pc[u]
      /\ NoLostWakeup'
  BY <1>0, BroadcastWakesAll DEF IInv, DeleteWake, Pcs
<1>2. TypeOK'
  BY <1>0, <1>1 DEF IInv, TypeOK
<1>3. WaitersExact'
  <2>1. Waiting' = Waiting
    BY <1>0, <1>1 DEF Waiting
  <2>2. QED
    BY <1>0, <2>1, SameWaiters DEF IInv
<1>4. MutexExact'
  BY <1>0, <1>1 DEF IInv, MutexExact, Holding
<1>5. KindExact'
  BY <1>0, <1>1 DEF IInv, TypeOK, KindExact, Flag
<1>6. DeleteExact'
  <2>1. Deleters' = Deleters
    BY <1>0, <1>1 DEF Deleters
  <2>2. QED
    BY <1>0, <1>1, <2>1 DEF IInv, DeleteExact, Deleters, Arriving
<1>7. LastDestroys'
  BY <1>0, <1>1 DEF IInv, LastDestroys
<1>8. QED
  BY <1>1, <1>2, <1>3, <1>4, <1>5, <1>6, <1>7 DEF IInv

\* The deleter lets go; with nobody waiting nobody is left but the deleter.
LEMMA DeleteUnlockStep ==
  ASSUME IInv, NEW t \in Threads, DeleteUnlock(t)
  PROVE  IInv'
<1> DEFINE label == IF waiters > 0 THEN "idle" ELSE "destroy"
<1>0. /\ pc[t] = "dunlock" /\ m = t /\ m' = NoOne /\ pc' = [pc EXCEPT ![t] = label]
      /\ gone /\ deleted /\ Deleters = {t} /\ freed = 0
      /\ UNCHANGED <<use, bits, count, deleted, waiters, freed, gone>>
  BY DEF IInv, TypeOK, MutexExact, Holding, LastDestroys, DeleteExact, Deleters,
         DeleteUnlock, Return, Goto, value
<1>1. TypeOK'
  <2>1. label \in Pcs
    BY DEF Pcs
  <2>2. Return(t, label)
    BY DEF DeleteUnlock
  <2>3. QED
    BY <1>0, <2>1, <2>2, ReturnTypes DEF IInv, TypeOK
<1>2. WaitersExact'
  <2>1. Waiting' = Waiting
    BY <1>0 DEF IInv, TypeOK, Waiting
  <2>2. QED
    BY <1>0, <2>1, SameWaiters DEF IInv
<1>3. MutexExact'
  BY <1>0, ObjectAssumption DEF IInv, TypeOK, MutexExact, Holding
<1>4. KindExact'
  BY <1>0 DEF IInv, TypeOK, KindExact, Flag, DeleteUnlock, Return
<1>5. DeleteExact'
  <2>1. Deleters' = {}
    BY <1>0 DEF IInv, TypeOK, Deleters
  <2>2. QED
    BY <1>0, <2>1 DEF IInv, TypeOK, DeleteExact, Arriving
<1>6. LastDestroys'
  <2>1. CASE label = "destroy"
    <3>1. Waiting = {} /\ waiters = 0
      BY <1>0, <2>1, WaitingIsFinite, FS_EmptySet DEF IInv, TypeOK, WaitersExact
    <3>2. \A u \in Threads \ {t} : pc[u] \notin Holding \union Arriving
      BY <1>0 DEF IInv, MutexExact, DeleteExact, Deleters, Holding, Arriving
    <3>3. \A u \in Threads \ {t} : pc[u] = "idle"
      BY <1>0, <3>1, <3>2
         DEF IInv, TypeOK, Pcs, LastDestroys, Waiting, Holding, Arriving
    <3>4. QED
      BY <1>0, <3>1, <3>3 DEF IInv, TypeOK, LastDestroys
  <2>2. CASE label = "idle"
    BY <1>0, <2>2 DEF IInv, TypeOK, LastDestroys
  <2>3. QED
    BY <2>1, <2>2
<1>7. NoLostWakeup'
  <2>1. \A u \in Threads : pc'[u] = "asleep" =>
           /\ pc[u] = "asleep"
           /\ arg'[u] = arg[u] /\ need'[u] = need[u] /\ mode'[u] = mode[u]
    BY <1>0 DEF IInv, TypeOK, DeleteUnlock, Return
  <2>2. QED
    BY <1>0, <2>1, SleepersStay DEF IInv, TypeOK
<1>8. QED
  BY <1>1, <1>2, <1>3, <1>4, <1>5, <1>6, <1>7 DEF IInv
-------------------------------------------------------------------------------
\* Every step keeps the inductive invariant.
LEMMA NextIInv == ASSUME ~RacyDelete, IInv, [Next]_vars PROVE IInv'
<1>1. ASSUME NEW t \in Threads, Lock(t) PROVE IInv'
  BY <1>1, WaitLockStep, RelockStep, RaiseStep, ClearOrPollStep, DeleteMarkStep DEF Lock
<1>2. ASSUME NEW t \in Threads, Run(t) PROVE IInv'
  BY <1>2, WaitCheckStep, WaitLeaveStep, DestroyStep, RaiseWakeStep, DeleteWakeStep,
     DeleteUnlockStep DEF Run
<1>3. ASSUME NEW t \in Threads, Deadline(t) \/ Interrupt(t) PROVE IInv'
  BY <1>3, AwakeStep
<1>4. ASSUME NEW t \in Threads, Guest(t) PROVE IInv'
  BY <1>4, GuestStep
<1>5. ASSUME NEW p \in SUBSET use.bits, NEW n \in 0 .. MaxCount, Create(p, n) PROVE IInv'
  BY <1>5, CreateStep
<1>6. CASE UNCHANGED vars
  BY <1>6 DEF vars, object, value, call, IInv, TypeOK, WaitersExact, Waiting, MutexExact,
              KindExact, Flag, DeleteExact, Deleters, LastDestroys, NoLostWakeup,
              Satisfied
<1>7. QED
  BY <1>1, <1>2, <1>3, <1>4, <1>5, <1>6 DEF Next

\* The object is counted, marked and locked as the handlers of event flags and
\* semaphores assume: the inductive invariant.
THEOREM Inductive == ASSUME ~RacyDelete PROVE Spec => []IInv
<1>1. Init => IInv
  BY InitIInv
<1>2. IInv /\ [Next]_vars => IInv'
  BY NextIInv
<1>3. QED
  BY <1>1, <1>2, PTL DEF Spec

\* "Delete ... defers destroy+free to the last waiter leaving (or frees now if none
\* are parked)" (k_ef_delete, k_sema_delete): the memory is freed once, when no call
\* is inside the object, and the count the deleter decides by is right.
THEOREM FreedByTheLast == ASSUME ~RacyDelete PROVE Spec => []FreedOnceUnused
<1>1. IInv => FreedOnceUnused
  <2> SUFFICES ASSUME IInv PROVE FreedOnceUnused
    OBVIOUS
  <2> DEFINE Destroying == {t \in Threads : pc[t] = "destroy"}
  <2>1. CASE Destroying = {}
    <3>1. Cardinality(Destroying) = 0
      BY <2>1, FS_EmptySet
    <3>2. QED
      BY <3>1 DEF IInv, TypeOK, FreedOnceUnused, LastDestroys
  <2>2. ASSUME NEW t \in Destroying PROVE FreedOnceUnused
    <3>1. Destroying = {t} /\ freed = 0
      BY <2>2 DEF IInv, LastDestroys
    <3>2. Cardinality(Destroying) = 1
      BY <3>1, FS_Singleton
    <3>3. QED
      BY <3>1, <3>2 DEF IInv, FreedOnceUnused, LastDestroys
  <2>3. QED
    BY <2>1, <2>2
<1>2. QED
  BY <1>1, Inductive, PTL

\* A thread sleeps in k_ef_wait or k_sema_wait only while it must: the set, signal or
\* delete that ends its wait is still holding the mutex and about to wake it.
THEOREM WakeupsReach == ASSUME ~RacyDelete PROVE Spec => []NoLostWakeup
<1>1. IInv => NoLostWakeup
  BY DEF IInv
<1>2. QED
  BY <1>1, Inductive, PTL

\* A step that gives or leaves everything as it is takes nothing.
LEMMA NothingTaken ==
  ASSUME TypeOK, bits \subseteq bits', count' \in Nat, count <= count'
  PROVE  Reported
BY DEF TypeOK, Reported

\* Bits and counts disappear only into a wait or a poll that reports having had them,
\* or a clear: a wait that returns EACCES or ETIMEDOUT takes nothing.
THEOREM NothingTakenUnreported == ASSUME ~RacyDelete PROVE Spec => TakenAsReported
<1>1. ASSUME IInv, [Next]_vars PROVE Reported
  <2>0. CASE UNCHANGED <<bits, count>>
    BY <2>0, <1>1, NothingTaken DEF IInv, TypeOK
  <2>1. ASSUME NEW t \in Threads, Raise(t) PROVE Reported
    <3>1. need[t] \in Nat
      BY <1>1, ObjectAssumption DEF IInv, TypeOK
    <3>2. QED
      BY <1>1, <2>1, <3>1, NothingTaken DEF IInv, TypeOK, Raise
  <2>2. ASSUME NEW t \in Threads, WaitLeave(t) PROVE Reported
    <3>1. pc'[t] # pc[t]
      BY <1>1, <2>2 DEF IInv, TypeOK, WaitLeave, Return, Goto
    <3>2. CASE LeaveCode(t) = "OK"
      <4>1. count' = count - need[t]
        BY <1>1, <2>2, <3>2 DEF IInv, TypeOK, KindExact, WaitLeave, Consume
      <4>2. QED
        BY <2>2, <3>1, <3>2, <4>1 DEF WaitLeave, Reported
    <3>3. CASE LeaveCode(t) # "OK"
      BY <2>0, <2>2, <3>3 DEF WaitLeave, value
    <3>4. QED
      BY <3>2, <3>3
  <2>3. ASSUME NEW t \in Threads, PollNow(t) PROVE Reported
    <3>1. pc'[t] # pc[t]
      BY <1>1, <2>3 DEF IInv, TypeOK, PollNow, Return, Goto
    <3>2. CASE Satisfied(t) /\ Consume(t)
      <4>1. count' = count - need[t]
        BY <1>1, <3>2 DEF IInv, TypeOK, KindExact, Consume
      <4>2. QED
        BY <2>3, <3>1, <3>2, <4>1 DEF PollNow, Reported
    <3>3. CASE UNCHANGED value
      BY <2>0, <3>3 DEF value
    <3>4. QED
      BY <2>3, <3>2, <3>3 DEF PollNow
  <2>4. ASSUME NEW t \in Threads, ClearBits(t) PROVE Reported
    <3>1. pc'[t] # pc[t] /\ count' = count
      BY <1>1, <2>4 DEF IInv, TypeOK, ClearBits, Return, Goto
    <3>2. need[t] = 0 /\ pc[t] = "clear"
      BY <1>1, <2>4 DEF IInv, KindExact, ClearBits
    <3>3. QED
      BY <1>1, <3>1, <3>2 DEF IInv, TypeOK, Reported
  <2>5. ASSUME NEW p \in SUBSET use.bits, NEW n \in 0 .. MaxCount, Create(p, n)
        PROVE  Reported
    BY <1>1, <2>5 DEF IInv, TypeOK, Create, Reported
  <2>6. ASSUME NEW t \in Threads, Guest(t) PROVE UNCHANGED <<bits, count>>
    BY <2>6 DEF Guest, Set, Poll, Wait, Asks, Clear, Delete, Call, object, value
  <2>7. ASSUME NEW t \in Threads,
               \/ WaitLock(t) \/ Relock(t) \/ DeleteMark(t) \/ WaitCheck(t) \/ Destroy(t)
               \/ RaiseWake(t) \/ DeleteWake(t) \/ DeleteUnlock(t)
               \/ Deadline(t) \/ Interrupt(t)
        PROVE  UNCHANGED <<bits, count>>
    BY <2>7 DEF WaitLock, Relock, DeleteMark, WaitCheck, Destroy, RaiseWake, DeleteWake,
                DeleteUnlock, Deadline, Interrupt, object, value
  <2>8. UNCHANGED vars => UNCHANGED <<bits, count>>
    BY DEF vars, object, value
  <2>9. QED
    BY <1>1, <2>0, <2>1, <2>2, <2>3, <2>4, <2>5, <2>6, <2>7, <2>8 DEF Next, Lock, Run
<1>2. QED
  BY <1>1, Inductive, PTL DEF TakenAsReported, Spec, Reported
===============================================================================
