------------------------------ MODULE GuestRwlock ------------------------------
(***************************************************************************)
(* The guest read/write lock of src/hle/kernel/hle_kernel.cpp: the host    *)
(* pthread_rwlock plus the word in which prosper counts the outstanding    *)
(* holds, so that an UNMATCHED unlock never reaches the host lock, where   *)
(* it would drive glibc's reader count negative for ever (#2012).          *)
(*                                                                         *)
(* The host lock and the word are taken and released in separate steps;    *)
(* the guest may unlock a lock it does not hold at any moment.  The escape *)
(* hatch PROSPER_RWLOCK_UNSAFE_UNLOCK is off.                              *)
(***************************************************************************)
EXTENDS Integers, FiniteSets

CONSTANTS Threads,      \* the guest's host threads
          NoThread,     \* owner = 0
          MaxHolds,     \* bound: holds a thread locks at a time
          MaxStray      \* bound: unlock calls without a hold of the caller

ASSUME RwAssumption ==
    /\ IsFiniteSet(Threads)
    /\ NoThread \notin Threads
    /\ MaxHolds \in Nat
    /\ MaxStray \in Nat

VARIABLES
    rw,        \* the host lock (external): .readers, .writer
    state,     \* the word: .write is bit 63, .count is bits 0..31
    owner,     \* the tid stored while .write is set
    pc,        \* where each thread is in its call
    s,         \* per thread: the word its compare-exchange expects
    rc,        \* per thread: what its last call returned
    holds,     \* ghost: the holds each thread was told it has
    granted,   \* ghost: successful locks less successful unlocks
    stray      \* ghost: unlock calls made without one

vars == <<rw, state, owner, pc, s, rc, holds, granted, stray>>

guest == <<rc, holds, granted>>        \* what the guest has been told

Word == [write : BOOLEAN, count : Nat]
NoWord == [write |-> FALSE, count |-> 0]
Pcs  == {"idle", "rd_count", "wr_owner", "wr_load", "wr_cas",
         "un_owner", "un_cas", "un_clear", "un_host"}
Rcs  == {"OK", "EPERM", "refused"}

TypeOK ==
    /\ rw \in [readers : Int, writer : Threads \union {NoThread}]
    /\ state \in Word
    /\ owner \in Threads \union {NoThread}
    /\ pc \in [Threads -> Pcs]
    /\ s \in [Threads -> Word]
    /\ rc \in [Threads -> Rcs]
    /\ holds \in [Threads -> Int]
    /\ granted \in Int
    /\ stray \in Nat

Init ==
    /\ rw = [readers |-> 0, writer |-> NoThread]
    /\ state = NoWord
    /\ owner = NoThread
    /\ pc = [t \in Threads |-> "idle"]
    /\ s = [t \in Threads |-> NoWord]
    /\ rc = [t \in Threads |-> "OK"]
    /\ holds = [t \in Threads |-> 0]
    /\ granted = 0
    /\ stray = 0

Goto(t, label) == pc' = [pc EXCEPT ![t] = label]

\* The handler returns code and its local word dies; delta is what a caller that
\* is told 0 believes.
Return(t, code, delta) ==
    /\ Goto(t, "idle")
    /\ rc' = [rc EXCEPT ![t] = code]
    /\ holds' = [holds EXCEPT ![t] = @ + delta]
    /\ granted' = granted + delta
    /\ s' = [s EXCEPT ![t] = NoWord]

-------------------------------------------------------------------------------
(* k_rwlock_{rd,wr,tryrd,trywr,timedrd,timedwr}lock and their POSIX forms. *)

\* glibc grants a read hold while no writer has the lock; a blocked caller
\* simply waits for this step.
HostRdlock(t) ==
    /\ pc[t] = "idle"
    /\ holds[t] < MaxHolds
    /\ rw.writer = NoThread
    /\ rw' = [readers |-> rw.readers + 1, writer |-> NoThread]
    /\ Goto(t, "rd_count")
    /\ UNCHANGED <<state, owner, s, guest, stray>>

HostWrlock(t) ==
    /\ pc[t] = "idle"
    /\ holds[t] < MaxHolds
    /\ rw.writer = NoThread /\ rw.readers = 0
    /\ rw' = [readers |-> 0, writer |-> t]
    /\ Goto(t, "wr_owner")
    /\ UNCHANGED <<state, owner, s, guest, stray>>

\* EBUSY of a try, ETIMEDOUT of a timed form, EDEADLK against oneself: no hold
\* is recorded and the guest is told so (#2024).
LockRefused(t) ==
    /\ pc[t] = "idle"
    /\ rw.writer # NoThread \/ rw.readers # 0
    /\ Return(t, "refused", 0)
    /\ UNCHANGED <<rw, state, owner, stray>>

\* rw_acquired(g, false)
CountReader(t) ==
    /\ pc[t] = "rd_count"
    /\ state' = [write |-> state.write, count |-> state.count + 1]
    /\ Return(t, "OK", 1)
    /\ UNCHANGED <<rw, owner, stray>>

\* rw_acquired(g, true): owner first, then the word.
StoreOwner(t) ==
    /\ pc[t] = "wr_owner"
    /\ owner' = t
    /\ Goto(t, "wr_load")
    /\ UNCHANGED <<rw, state, s, guest, stray>>

LoadForWrite(t) ==
    /\ pc[t] = "wr_load"
    /\ s' = [s EXCEPT ![t] = state]
    /\ Goto(t, "wr_cas")
    /\ UNCHANGED <<rw, state, owner, guest, stray>>

PublishWrite(t) ==
    /\ pc[t] = "wr_cas"
    /\ state = s[t]
    /\ state' = [write |-> TRUE, count |-> s[t].count + 1]
    /\ Return(t, "OK", 1)
    /\ UNCHANGED <<rw, owner, stray>>

-------------------------------------------------------------------------------
(* k_rwlock_unlock                                                         *)

\* What an unlock decides of the word it has read: a free lock is refused, a write
\* hold has its owner looked at first.
Decide(t) ==
    IF ~state.write /\ state.count = 0
    THEN Return(t, "EPERM", 0)
    ELSE /\ s' = [s EXCEPT ![t] = state]
         /\ Goto(t, IF state.write THEN "un_owner" ELSE "un_cas")
         /\ UNCHANGED guest

Unlock(t) ==
    /\ pc[t] = "idle"
    /\ \/ holds[t] > 0 /\ UNCHANGED stray
       \/ holds[t] <= 0 /\ stray < MaxStray /\ stray' = stray + 1
    /\ Decide(t)
    /\ UNCHANGED <<rw, state, owner>>

\* Faulty: any thread may release a write hold.
CheckNoOwner(t) ==
    pc[t] = "un_owner" /\ Goto(t, "un_cas")
                       /\ UNCHANGED <<rw, state, owner, s, guest, stray>>

CheckOwner(t) ==
    /\ pc[t] = "un_owner"
    /\ IF owner # t
       THEN Return(t, "EPERM", 0)
       ELSE Goto(t, "un_cas") /\ UNCHANGED <<s, guest>>
    /\ UNCHANGED <<rw, state, owner, stray>>

\* Faulty: the write flag is not part of the word the exchange compares, so an
\* owner that came and went between the two loads goes unnoticed (the trace of
\* hle_kernel.cpp:1437-1449).
ReleaseCasTwoAtomics(t) ==
    /\ pc[t] = "un_cas"
    /\ state.count = s[t].count
    /\ state' = [write |-> state.write /\ ~s[t].write, count |-> s[t].count - 1]
    /\ Goto(t, IF s[t].write THEN "un_clear" ELSE "un_host")
    /\ UNCHANGED <<rw, owner, s, guest, stray>>

\* Faulty: a subtraction in place of the exchange.
ReleaseFetchSub(t) ==
    /\ pc[t] = "un_cas"
    /\ state' = [write |-> FALSE, count |-> state.count - 1]
    /\ Goto(t, IF s[t].write THEN "un_clear" ELSE "un_host")
    /\ UNCHANGED <<rw, owner, s, guest, stray>>

\* One exchange clears the flag and drops the count.
ReleaseCas(t) ==
    /\ pc[t] = "un_cas"
    /\ state = s[t]
    /\ state' = [write |-> FALSE,
                 count |-> IF s[t].count > 0 THEN s[t].count - 1 ELSE 0]
    /\ Goto(t, IF s[t].write THEN "un_clear" ELSE "un_host")
    /\ UNCHANGED <<rw, owner, s, guest, stray>>

\* Faulty: a failed exchange is taken for a lock that is not held.
ReleaseGivesUp(t) ==
    /\ pc[t] = "un_cas" /\ state # s[t]
    /\ Return(t, "EPERM", 0) /\ UNCHANGED <<rw, state, owner, stray>>

\* A failed exchange has reloaded the word and decides again.
ReleaseRetry(t) ==
    /\ pc[t] = "un_cas"
    /\ state # s[t]
    /\ Decide(t)
    /\ UNCHANGED <<rw, state, owner, stray>>

ClearOwner(t) ==
    /\ pc[t] = "un_clear"
    /\ owner' = NoThread
    /\ Goto(t, "un_host")
    /\ UNCHANGED <<rw, state, s, guest, stray>>

\* glibc's unlock takes the writer path exactly when the caller is the writer it
\* recorded, and otherwise subtracts a reader, held or not.
HostUnlock(t) ==
    /\ pc[t] = "un_host"
    /\ rw' = IF rw.writer = t
             THEN [readers |-> rw.readers, writer |-> NoThread]
             ELSE [readers |-> rw.readers - 1, writer |-> rw.writer]
    /\ Return(t, "OK", -1)
    /\ UNCHANGED <<state, owner, stray>>

-------------------------------------------------------------------------------
(* A fiber that read-locked and yielded is resumed by another host thread, *)
(* which will release the hold: legal, so the guest stays balanced.        *)
Migrate(t, u) ==
    /\ pc[t] = "idle" /\ pc[u] = "idle" /\ t # u
    /\ holds[t] > 0
    /\ holds[u] < MaxHolds
    /\ rw.writer # t
    /\ holds' = [holds EXCEPT ![t] = @ - 1, ![u] = @ + 1]
    /\ UNCHANGED <<rw, state, owner, pc, s, rc, granted, stray>>

-------------------------------------------------------------------------------
Step(t) == \/ HostRdlock(t) \/ HostWrlock(t) \/ LockRefused(t)
           \/ CountReader(t) \/ StoreOwner(t) \/ LoadForWrite(t) \/ PublishWrite(t)
           \/ Unlock(t) \/ CheckOwner(t) \/ ReleaseCas(t) \/ ReleaseRetry(t)
           \/ ClearOwner(t) \/ HostUnlock(t)

Next == \E t \in Threads : Step(t) \/ \E u \in Threads : Migrate(t, u)

Spec == Init /\ [][Next]_vars

-------------------------------------------------------------------------------
At(labels) == {t \in Threads : pc[t] \in labels}

\* Threads between the host lock's grant and the word's, and between the word's
\* release and the host lock's.
ReadArriving  == At({"rd_count"})
WriteArriving == At({"wr_owner", "wr_load", "wr_cas"})
Leaving       == At({"un_clear", "un_host"})
ReadLeaving   == {t \in Leaving : rw.writer # t}

\* "COUNT == outstanding host holds": the word never counts a hold the host lock
\* does not have, so a stray unlock that commits takes one hold off each.
HoldsAccounted ==
    /\ rw.readers = (IF state.write THEN 0 ELSE state.count)
                      + Cardinality(ReadArriving) + Cardinality(ReadLeaving)
    /\ state.write => state.count = 1
    /\ rw.writer # NoThread => rw.readers = 0

\* glibc's reader count never goes negative, which is what bricked the lock.
HostNeverUnderflows == rw.readers >= 0

\* "A write hold cannot be stolen by anything": the flag falls in no step but one
\* of the thread that has the host lock exclusively, and that thread's alone is
\* the owner others read.
WriteHoldNotStolen ==
    [][state.write /\ ~state'.write
          => /\ owner = rw.writer
             /\ pc[rw.writer] = "un_cas" /\ pc'[rw.writer] = "un_clear"]_vars

\* An unlock by a thread that holds is refused only after some unlock by one that
\* did not: the accounting itself never manufactures an EPERM.
BalancedNeverRefused == (\E t \in Threads : rc[t] = "EPERM") => stray > 0

\* The guest's view and the host lock agree whenever no call is in progress: as
\* many holds as the successful locks less the successful unlocks, so a lock
\* everybody released is free for the next writer.
AtRestAgree ==
    (\A t \in Threads : pc[t] = "idle")
        => rw.readers + (IF rw.writer = NoThread THEN 0 ELSE 1)
             = granted

\* What every state owes the guest: the word and the host lock account for the
\* same holds, neither below zero, and a lock everybody released is free.
Safe == TypeOK /\ HoldsAccounted /\ HostNeverUnderflows /\ AtRestAgree

(* The inductive invariant.                                                *)

\* Who has the host lock exclusively, and how far it has published that.
WriterExact ==
    \A t \in Threads :
        /\ pc[t] \in {"wr_owner", "wr_load", "wr_cas"}
              => rw.writer = t /\ ~state.write /\ state.count = 0
        /\ pc[t] = "un_clear" => rw.writer = t /\ ~state.write
        /\ rw.writer = t /\ pc[t] \notin {"wr_owner", "wr_load", "wr_cas",
                                          "un_clear", "un_host"}
              => state.write /\ owner = t
        /\ rw.writer = t /\ pc[t] = "un_host" => ~state.write /\ owner = NoThread

\* The owner is cleared before and stored after the host lock is, so it can only
\* name the thread that has the host lock.
OwnerExact ==
    /\ owner # NoThread => owner = rw.writer
    /\ state.write => owner # NoThread
    /\ \A t \in Threads : pc[t] \in {"wr_load", "wr_cas"} => owner = t

\* What an expected word means to the thread that is about to exchange it.
ExpectedExact ==
    \A t \in Threads :
        /\ pc[t] = "wr_cas" => s[t] = state
        /\ pc[t] = "un_owner" => s[t].write
        /\ pc[t] \in {"un_owner", "un_cas"} /\ s[t].write => s[t].count = 1
        /\ pc[t] = "un_cas" /\ s[t].write => rw.writer = t /\ state.write
        /\ pc[t] = "un_cas" => s[t].count > 0

\* The guest has been told of the host lock's holds, but for those arriving.
GuestExact ==
    rw.readers + (IF rw.writer = NoThread THEN 0 ELSE 1)
        = granted + Cardinality(ReadArriving)
                  + (IF WriteArriving = {} THEN 0 ELSE 1)

\* The holds h gives the threads, one by one: their number is the sum of h.
Tokens(h) == UNION {{t} \X (1 .. h[t]) : t \in Threads}

TokensExact == /\ IsFiniteSet(Tokens(holds))
               /\ Cardinality(Tokens(holds)) = granted

\* An unlock under way has a hold behind it, and the published writer has his.
Backed(t) ==
    /\ holds[t] >= 0
    /\ pc[t] \in {"un_owner", "un_cas", "un_clear", "un_host"} => holds[t] > 0
    /\ rw.writer = t /\ pc[t] \notin {"wr_owner", "wr_load", "wr_cas"}
          => holds[t] > 0
    /\ pc[t] = "un_owner" => rw.writer = t
    /\ rc[t] # "EPERM"

\* A guest that has made no stray unlock: its threads' holds add up to what it was
\* granted, so a thread that holds never sees a word that says otherwise.
Balanced == stray = 0 => TokensExact /\ \A t \in Threads : Backed(t)

IInv == /\ TypeOK
        /\ HoldsAccounted
        /\ WriterExact
        /\ OwnerExact
        /\ ExpectedExact
        /\ GuestExact

IInvBalanced == IInv /\ Balanced

\* The word alone, read as a lock, obeys the platform's rule.
Umtx == INSTANCE UmtxRwlock WITH
            writer  <- IF state.write THEN owner ELSE NoThread,
            readers <- IF state.write THEN 0 ELSE state.count

ImplementsUmtx == Umtx!Spec
===============================================================================
