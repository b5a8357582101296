--------------------------- MODULE GuestRwlockProofs ---------------------------
(***************************************************************************)
(* Proofs about GuestRwlock, for any finite set of threads: the word       *)
(* accounts for the host lock's holds, so whatever the guest unlocks the   *)
(* host lock never goes negative; a write hold is never stolen; the word   *)
(* obeys the platform's rule.                                              *)
(***************************************************************************)
EXTENDS GuestRwlock, FiniteSetTheorems, TLAPS

LEMMA CrowdsFinite ==
    /\ IsFiniteSet(ReadArriving) /\ Cardinality(ReadArriving) \in Nat
    /\ Cardinality(ReadArriving) = 0 <=> ReadArriving = {}
    /\ IsFiniteSet(ReadLeaving) /\ Cardinality(ReadLeaving) \in Nat
    /\ Cardinality(ReadLeaving) = 0 <=> ReadLeaving = {}
<1>1. ReadArriving \in SUBSET Threads /\ ReadLeaving \in SUBSET Threads
  BY DEF ReadArriving, ReadLeaving, Leaving, At
<1>2. IsFiniteSet(ReadArriving) /\ IsFiniteSet(ReadLeaving)
  BY <1>1, FS_Subset, RwAssumption
<1>3. QED
  BY <1>2, FS_CardinalityType, FS_EmptySet

LEMMA InitIInv == Init => IInv
<1> SUFFICES ASSUME Init PROVE IInv
  OBVIOUS
<1>1. TypeOK
  BY RwAssumption DEF Init, TypeOK, Word, NoWord, Pcs, Rcs
<1>2. ReadArriving = {} /\ ReadLeaving = {} /\ WriteArriving = {}
  BY DEF Init, ReadArriving, ReadLeaving, WriteArriving, Leaving, At
<1>3. HoldsAccounted /\ GuestExact
  BY <1>2, FS_EmptySet DEF Init, NoWord, HoldsAccounted, GuestExact
<1>4. WriterExact /\ OwnerExact /\ ExpectedExact
  BY RwAssumption DEF Init, NoWord, WriterExact, OwnerExact, ExpectedExact
<1>5. QED
  BY <1>1, <1>3, <1>4 DEF IInv

LEMMA ReturnType ==
    ASSUME TypeOK, NEW t \in Threads, NEW c \in Rcs, NEW n \in Int, Return(t, c, n)
    PROVE /\ pc' \in [Threads -> Pcs] /\ s' \in [Threads -> Word]
          /\ rc' \in [Threads -> Rcs] /\ holds' \in [Threads -> Int]
          /\ granted' \in Int
BY DEF TypeOK, Return, Goto, Word, NoWord, Pcs

LEMMA DecideType ==
    ASSUME TypeOK, NEW t \in Threads, Decide(t)
    PROVE /\ pc' \in [Threads -> Pcs] /\ s' \in [Threads -> Word]
          /\ rc' \in [Threads -> Rcs] /\ holds' \in [Threads -> Int]
          /\ granted' \in Int
<1>1. CASE ~state.write /\ state.count = 0
  BY <1>1, ReturnType DEF Decide, Rcs
<1>2. CASE ~(~state.write /\ state.count = 0)
  BY <1>2 DEF Decide, TypeOK, Goto, guest, Pcs
<1>3. QED
  BY <1>1, <1>2

LEMMA TypeStep == TypeOK /\ [Next]_vars => TypeOK'
<1> SUFFICES ASSUME TypeOK, [Next]_vars PROVE TypeOK'
  OBVIOUS
<1> USE RwAssumption DEF TypeOK, Word, NoWord, Pcs, Rcs, Goto, Return, guest
<1>1. ASSUME NEW t \in Threads, Step(t) PROVE TypeOK'
  <2>1. CASE HostRdlock(t)
    BY <2>1 DEF HostRdlock
  <2>2. CASE HostWrlock(t)
    BY <2>2 DEF HostWrlock
  <2>3. CASE LockRefused(t)
    BY <2>3 DEF LockRefused
  <2>4. CASE CountReader(t)
    BY <2>4 DEF CountReader
  <2>5. CASE StoreOwner(t)
    BY <2>5 DEF StoreOwner
  <2>6. CASE LoadForWrite(t)
    BY <2>6 DEF LoadForWrite
  <2>7. CASE PublishWrite(t)
    BY <2>7 DEF PublishWrite
  <2>8. CASE Unlock(t)
    <3>1. stray' \in Nat
      BY <2>8 DEF Unlock
    <3>2. QED
      BY <2>8, <3>1, DecideType DEF Unlock
  <2>9. CASE CheckOwner(t)
    <3>1. CASE owner # t
      BY <2>9, <3>1, ReturnType DEF CheckOwner
    <3>2. CASE owner = t
      BY <2>9, <3>2 DEF CheckOwner
    <3>3. QED
      BY <3>1, <3>2
  <2>10. CASE ReleaseCas(t)
    BY <2>10 DEF ReleaseCas
  <2>11. CASE ReleaseRetry(t)
    BY <2>11, DecideType DEF ReleaseRetry
  <2>12. CASE ClearOwner(t)
    BY <2>12 DEF ClearOwner
  <2>13. CASE HostUnlock(t)
    BY <2>13 DEF HostUnlock
  <2>14. QED
    BY <1>1, <2>1, <2>2, <2>3, <2>4, <2>5, <2>6, <2>7, <2>8, <2>9, <2>10, <2>11,
       <2>12, <2>13 DEF Step
<1>2. ASSUME NEW t \in Threads, NEW u \in Threads, Migrate(t, u) PROVE TypeOK'
  BY <1>2 DEF Migrate
<1>3. CASE UNCHANGED vars
  BY <1>3 DEF vars
<1>4. QED
  BY <1>1, <1>2, <1>3 DEF Next

\* While a thread has the host lock exclusively, no reader is arriving, leaving
\* or (but for the published write itself) counted.
LEMMA ExclusiveMeansAlone ==
    ASSUME IInv, rw.writer # NoThread
    PROVE /\ ReadArriving = {} /\ ReadLeaving = {}
          /\ ~state.write => state.count = 0
<1> USE DEF IInv, TypeOK, Word
<1>1. rw.readers = 0
  BY DEF HoldsAccounted
<1>2. /\ (IF state.write THEN 0 ELSE state.count) = 0
      /\ Cardinality(ReadArriving) = 0 /\ Cardinality(ReadLeaving) = 0
  BY <1>1, CrowdsFinite DEF HoldsAccounted
<1>3. QED
  BY <1>2, CrowdsFinite

LEMMA FreeMeansUnwritten ==
    ASSUME IInv, rw.writer = NoThread
    PROVE ~state.write /\ owner = NoThread /\ WriteArriving = {}
          /\ \A t \in Threads : pc[t] # "un_clear"
BY RwAssumption DEF IInv, TypeOK, OwnerExact, WriterExact, WriteArriving, At

LEMMA ExpectedIsState ==
    ASSUME IInv, NEW t \in Threads, pc[t] = "un_cas", s[t].write
    PROVE s[t] = state /\ rw.writer = t /\ owner = t /\ state.count = 1
<1>1. /\ s[t] \in Word /\ state \in Word
      /\ s[t].write = state.write /\ s[t].count = state.count
      /\ rw.writer = t /\ state.count = 1
  BY DEF IInv, TypeOK, ExpectedExact, HoldsAccounted, Word
<1>2. owner = t
  BY <1>1, RwAssumption DEF IInv, ExpectedExact, OwnerExact
<1>3. s[t] = state
  BY <1>1 DEF Word
<1>4. QED
  BY <1>1, <1>2, <1>3

\* The host lock's holds stay accounted for, by the word and by the guest.
LEMMA HoldsStep == IInv /\ [Next]_vars => HoldsAccounted' /\ GuestExact'
<1> SUFFICES ASSUME IInv, [Next]_vars PROVE HoldsAccounted' /\ GuestExact'
  OBVIOUS
<1> USE RwAssumption
    DEF TypeOK, Word, NoWord, Pcs, Goto, Return, guest, HoldsAccounted, GuestExact
<1>0. TypeOK /\ HoldsAccounted /\ GuestExact /\ WriterExact
  BY DEF IInv
<1>1. ASSUME ReadArriving' = ReadArriving, ReadLeaving' = ReadLeaving,
             WriteArriving' = WriteArriving, rw' = rw, state' = state,
             granted' = granted
      PROVE HoldsAccounted' /\ GuestExact'
  BY <1>0, <1>1
<1>2. ASSUME NEW t \in Threads, Step(t) PROVE HoldsAccounted' /\ GuestExact'
  <2>1. CASE HostRdlock(t)
    <3>1. /\ t \notin ReadArriving /\ ReadArriving' = ReadArriving \union {t}
          /\ ReadLeaving' = ReadLeaving /\ WriteArriving' = WriteArriving
      BY <1>0, <2>1 DEF HostRdlock,
          ReadArriving, WriteArriving, ReadLeaving, Leaving, At
    <3>2. Cardinality(ReadArriving') = Cardinality(ReadArriving) + 1
      BY <3>1, CrowdsFinite, FS_AddElement
    <3>3. ~state.write
      BY <2>1, FreeMeansUnwritten DEF HostRdlock
    <3>4. rw'.readers = rw.readers + 1 /\ rw'.writer = NoThread /\ rw.writer = NoThread
          /\ state' = state /\ granted' = granted
      BY <1>0, <2>1 DEF HostRdlock
    <3>5. QED
      BY <1>0, <3>1, <3>2, <3>3, <3>4, CrowdsFinite
  <2>2. CASE HostWrlock(t)
    <3>1. /\ ReadArriving' = ReadArriving /\ ReadLeaving' = ReadLeaving
          /\ WriteArriving' = WriteArriving \union {t} /\ WriteArriving = {}
      BY <1>0, <2>2, FreeMeansUnwritten DEF HostWrlock,
          ReadArriving, WriteArriving, ReadLeaving, Leaving, At
    <3>2. QED
      <4>1. /\ rw.readers = 0 /\ rw.writer = NoThread /\ rw'.readers = 0
            /\ rw'.writer # NoThread /\ state' = state /\ granted' = granted
        BY <1>0, <2>2 DEF HostWrlock
      <4>2. ~state.write /\ WriteArriving' # {}
        BY <3>1, <4>1, FreeMeansUnwritten
      <4>3. QED
        BY <1>0, <3>1, <4>1, <4>2, CrowdsFinite
  <2>3. CASE LockRefused(t)
    BY <1>0, <1>1, <2>3 DEF LockRefused,
          ReadArriving, WriteArriving, ReadLeaving, Leaving, At
  <2>4. CASE CountReader(t)
    <3>1. /\ t \in ReadArriving /\ ReadArriving' = ReadArriving \ {t}
          /\ ReadLeaving' = ReadLeaving /\ WriteArriving' = WriteArriving
      BY <1>0, <2>4 DEF CountReader,
          ReadArriving, WriteArriving, ReadLeaving, Leaving, At
    <3>2. Cardinality(ReadArriving') = Cardinality(ReadArriving) - 1
      BY <3>1, CrowdsFinite, FS_RemoveElement
    <3>3. rw.writer = NoThread
      BY <3>1, ExclusiveMeansAlone
    <3>4. ~state.write
      BY <3>3, FreeMeansUnwritten
    <3>5. state'.count = state.count + 1 /\ ~state'.write /\ rw' = rw
          /\ granted' = granted + 1
      BY <1>0, <2>4, <3>4 DEF CountReader
    <3>6. QED
      BY <1>0, <3>1, <3>2, <3>3, <3>4, <3>5, CrowdsFinite
  <2>5. CASE StoreOwner(t)
    BY <1>0, <1>1, <2>5 DEF StoreOwner,
          ReadArriving, WriteArriving, ReadLeaving, Leaving, At
  <2>6. CASE LoadForWrite(t)
    BY <1>0, <1>1, <2>6 DEF LoadForWrite,
          ReadArriving, WriteArriving, ReadLeaving, Leaving, At
  <2>7. CASE PublishWrite(t)
    <3>1. rw.writer = t /\ ~state.write /\ state.count = 0
      BY <1>0, <2>7 DEF PublishWrite, WriterExact
    <3>2. /\ ReadArriving' = ReadArriving /\ ReadLeaving' = ReadLeaving
          /\ WriteArriving' = {} /\ WriteArriving # {}
      BY <1>0, <2>7, <3>1 DEF PublishWrite, WriterExact,
          ReadArriving, WriteArriving, ReadLeaving, Leaving, At
    <3>3. QED
      <4>1. /\ rw' = rw /\ state'.write /\ state'.count = 1
            /\ granted' = granted + 1
        BY <1>0, <2>7, <3>1 DEF PublishWrite
      <4>2. rw.writer # NoThread
        BY <3>1
      <4>3. ReadArriving = {} /\ ReadLeaving = {}
        BY <4>2, ExclusiveMeansAlone
      <4>4. rw.readers = 0 /\ Cardinality(ReadArriving) = 0
                           /\ Cardinality(ReadLeaving) = 0
        BY <1>0, <4>2, <4>3, CrowdsFinite
      <4>5. QED
        BY <1>0, <3>2, <4>1, <4>2, <4>4
  <2>8. CASE Unlock(t)
    BY <1>0, <1>1, <2>8 DEF Unlock, Decide,
          ReadArriving, WriteArriving, ReadLeaving, Leaving, At
  <2>9. CASE CheckOwner(t)
    BY <1>0, <1>1, <2>9 DEF CheckOwner,
          ReadArriving, WriteArriving, ReadLeaving, Leaving, At
  <2>10. CASE ReleaseCas(t)
    <3>1. ReadArriving' = ReadArriving /\ WriteArriving' = WriteArriving
      BY <1>0, <2>10 DEF ReleaseCas,
          ReadArriving, WriteArriving, ReadLeaving, Leaving, At
    <3>2. rw' = rw /\ granted' = granted
      BY <2>10 DEF ReleaseCas
    <3>3. CASE s[t].write
      <4>1. rw.writer = t /\ state.write /\ state.count = 1
        BY <2>10, <3>3, ExpectedIsState DEF ReleaseCas
      <4>2. ReadLeaving' = ReadLeaving
        BY <1>0, <2>10, <3>3, <4>1 DEF ReleaseCas,
          ReadArriving, WriteArriving, ReadLeaving, Leaving, At
      <4>3. state'.count = 0 /\ ~state'.write
        BY <1>0, <2>10, <4>1 DEF ReleaseCas
      <4>4. QED
        BY <1>0, <3>1, <3>2, <4>1, <4>2, <4>3
    <3>4. CASE ~s[t].write
      <4>1. ~state.write /\ state.count > 0
        BY <2>10, <3>4 DEF ReleaseCas, IInv, ExpectedExact
      <4>2. rw.writer = NoThread
        BY <1>0, <4>1, ExclusiveMeansAlone
      <4>3. t \notin ReadLeaving /\ ReadLeaving' = ReadLeaving \union {t}
        BY <1>0, <2>10, <3>4, <4>2 DEF ReleaseCas,
          ReadArriving, WriteArriving, ReadLeaving, Leaving, At
      <4>4. Cardinality(ReadLeaving') = Cardinality(ReadLeaving) + 1
        BY <4>3, CrowdsFinite, FS_AddElement
      <4>5. state'.count = state.count - 1 /\ ~state'.write
        BY <1>0, <2>10, <4>1 DEF ReleaseCas
      <4>6. QED
        <5>1. HoldsAccounted'
          BY <1>0, <3>1, <3>2, <4>1, <4>2, <4>4, <4>5, CrowdsFinite
        <5>2. GuestExact'
          BY <1>0, <3>1, <3>2
        <5>3. QED
          BY <5>1, <5>2
    <3>5. QED
      BY <3>3, <3>4
  <2>11. CASE ReleaseRetry(t)
    BY <1>0, <1>1, <2>11 DEF ReleaseRetry, Decide,
          ReadArriving, WriteArriving, ReadLeaving, Leaving, At
  <2>12. CASE ClearOwner(t)
    BY <1>0, <1>1, <2>12 DEF ClearOwner,
          ReadArriving, WriteArriving, ReadLeaving, Leaving, At
  <2>13. CASE HostUnlock(t)
    <3>1. ReadArriving' = ReadArriving /\ WriteArriving' = WriteArriving
          /\ state' = state /\ granted' = granted - 1
      BY <1>0, <2>13 DEF HostUnlock,
          ReadArriving, WriteArriving, ReadLeaving, Leaving, At
    <3>2. CASE rw.writer = t
      <4>1. ReadLeaving' = ReadLeaving
        <5>1. ReadLeaving = {}
          BY <1>0, <3>2, ExclusiveMeansAlone
        <5>2. \A u \in Threads : u # t => u \notin Leaving
          BY <1>0, <3>2, <5>1
       DEF ReadArriving, WriteArriving, ReadLeaving, Leaving, At
        <5>3. QED
          BY <1>0, <2>13, <3>2, <5>1, <5>2 DEF HostUnlock,
          ReadArriving, WriteArriving, ReadLeaving, Leaving, At
      <4>2. ~state.write /\ WriteArriving = {}
        <5>1. pc[t] = "un_host" /\ ~state.write
          BY <1>0, <2>13, <3>2 DEF HostUnlock, WriterExact
        <5>2. WriteArriving = {}
          BY <1>0, <3>2, <5>1 DEF WriterExact, WriteArriving, At
        <5>3. QED
          BY <5>1, <5>2
      <4>3. rw'.readers = rw.readers /\ rw'.writer = NoThread
        BY <2>13, <3>2 DEF HostUnlock
      <4>4. QED
        BY <1>0, <3>1, <3>2, <4>1, <4>2, <4>3, CrowdsFinite
    <3>3. CASE rw.writer # t
      <4>1. t \in ReadLeaving /\ ReadLeaving' = ReadLeaving \ {t}
        BY <1>0, <2>13, <3>3 DEF HostUnlock,
          ReadArriving, WriteArriving, ReadLeaving, Leaving, At
      <4>2. Cardinality(ReadLeaving') = Cardinality(ReadLeaving) - 1
        BY <4>1, CrowdsFinite, FS_RemoveElement
      <4>3. rw.writer = NoThread
        BY <4>1, ExclusiveMeansAlone
      <4>4. rw'.readers = rw.readers - 1 /\ rw'.writer = rw.writer
        BY <2>13, <3>3 DEF HostUnlock
      <4>5. QED
        <5>1. HoldsAccounted'
          BY <1>0, <3>1, <4>2, <4>3, <4>4, FreeMeansUnwritten, CrowdsFinite
        <5>2. GuestExact'
          <6>1. rw.readers = granted + Cardinality(ReadArriving)
            BY <1>0, <4>3, FreeMeansUnwritten, CrowdsFinite
          <6>2. WriteArriving' = {} /\ rw'.writer = NoThread
            BY <3>1, <4>3, <4>4, FreeMeansUnwritten
          <6>3. rw.readers \in Int /\ granted \in Int /\ Cardinality(ReadArriving) \in Int
            BY <1>0, CrowdsFinite
          <6>4. QED
            BY <3>1, <4>4, <6>1, <6>2, <6>3
        <5>3. QED
          BY <5>1, <5>2
    <3>4. QED
      BY <3>2, <3>3
  <2>14. QED
    BY <1>2, <2>1, <2>2, <2>3, <2>4, <2>5, <2>6, <2>7, <2>8, <2>9, <2>10, <2>11,
       <2>12, <2>13 DEF Step
<1>3. ASSUME NEW t \in Threads, NEW u \in Threads, Migrate(t, u)
      PROVE HoldsAccounted' /\ GuestExact'
  BY <1>0, <1>1, <1>3 DEF Migrate,
          ReadArriving, WriteArriving, ReadLeaving, Leaving, At
<1>4. CASE UNCHANGED vars
  BY <1>0, <1>1, <1>4 DEF vars,
          ReadArriving, WriteArriving, ReadLeaving, Leaving, At
<1>5. QED
  BY <1>2, <1>3, <1>4 DEF Next
\* The exclusive holder's progress, the owner word and the words the exchanges
\* expect keep their meaning.
LEMMA ControlStep ==
    IInv /\ [Next]_vars => WriterExact' /\ OwnerExact' /\ ExpectedExact'
<1> SUFFICES ASSUME IInv, [Next]_vars
    PROVE WriterExact' /\ OwnerExact' /\ ExpectedExact'
  OBVIOUS
<1> USE RwAssumption
    DEF TypeOK, Word, NoWord, Pcs, Goto, Return, guest,
        WriterExact, OwnerExact, ExpectedExact
<1>0. TypeOK /\ WriterExact /\ OwnerExact /\ ExpectedExact
  BY DEF IInv
<1>1. state.write => state.count = 1
  BY DEF IInv, HoldsAccounted
<1>2. ASSUME NEW t \in Threads, Step(t)
      PROVE WriterExact' /\ OwnerExact' /\ ExpectedExact'
  <2>1. CASE HostRdlock(t)
    <3>1. WriterExact'
      BY <1>0, <1>1, <2>1 DEF HostRdlock
    <3>2. OwnerExact'
      BY <1>0, <1>1, <2>1 DEF HostRdlock
    <3>3. ExpectedExact'
      BY <1>0, <1>1, <2>1 DEF HostRdlock
    <3>4. QED
      BY <3>1, <3>2, <3>3
  <2>2. CASE HostWrlock(t)
    <3>0. rw.writer = NoThread /\ ~state.write /\ state.count = 0
      BY <1>0, <2>2, FreeMeansUnwritten, CrowdsFinite
         DEF HostWrlock, IInv, HoldsAccounted
    <3>1. WriterExact'
      BY <1>0, <2>2, <3>0 DEF HostWrlock
    <3>2. OwnerExact'
      BY <1>0, <1>1, <2>2 DEF HostWrlock
    <3>3. ExpectedExact'
      BY <1>0, <1>1, <2>2 DEF HostWrlock
    <3>4. QED
      BY <3>1, <3>2, <3>3
  <2>3. CASE LockRefused(t)
    <3>1. WriterExact'
      BY <1>0, <1>1, <2>3 DEF LockRefused
    <3>2. OwnerExact'
      BY <1>0, <1>1, <2>3 DEF LockRefused
    <3>3. ExpectedExact'
      BY <1>0, <1>1, <2>3 DEF LockRefused
    <3>4. QED
      BY <3>1, <3>2, <3>3
  <2>4. CASE CountReader(t)
    <3>0. rw.writer = NoThread /\ ~state.write
      <4>1. t \in ReadArriving
        BY <2>4 DEF CountReader, ReadArriving, At
      <4>2. QED
        BY <4>1, ExclusiveMeansAlone, FreeMeansUnwritten
    <3>1. WriterExact'
      BY <1>0, <2>4, <3>0 DEF CountReader
    <3>2. OwnerExact'
      BY <1>0, <1>1, <2>4 DEF CountReader
    <3>3. ExpectedExact'
      BY <1>0, <2>4, <3>0 DEF CountReader
    <3>4. QED
      BY <3>1, <3>2, <3>3
  <2>5. CASE StoreOwner(t)
    <3>1. WriterExact'
      BY <1>0, <1>1, <2>5 DEF StoreOwner
    <3>2. OwnerExact'
      BY <1>0, <1>1, <2>5 DEF StoreOwner
    <3>3. ExpectedExact'
      BY <1>0, <1>1, <2>5 DEF StoreOwner
    <3>4. QED
      BY <3>1, <3>2, <3>3
  <2>6. CASE LoadForWrite(t)
    <3>1. WriterExact'
      BY <1>0, <1>1, <2>6 DEF LoadForWrite
    <3>2. OwnerExact'
      BY <1>0, <1>1, <2>6 DEF LoadForWrite
    <3>3. ExpectedExact'
      BY <1>0, <1>1, <2>6 DEF LoadForWrite
    <3>4. QED
      BY <3>1, <3>2, <3>3
  <2>7. CASE PublishWrite(t)
    <3>1. WriterExact'
      BY <1>0, <1>1, <2>7 DEF PublishWrite
    <3>2. OwnerExact'
      BY <1>0, <1>1, <2>7 DEF PublishWrite
    <3>3. ExpectedExact'
      BY <1>0, <1>1, <2>7 DEF PublishWrite
    <3>4. QED
      BY <3>1, <3>2, <3>3
  <2>8. CASE Unlock(t)
    <3>1. WriterExact'
      BY <1>0, <1>1, <2>8 DEF Unlock, Decide
    <3>2. OwnerExact'
      BY <1>0, <1>1, <2>8 DEF Unlock, Decide
    <3>3. ExpectedExact'
      BY <1>0, <1>1, <2>8 DEF Unlock, Decide
    <3>4. QED
      BY <3>1, <3>2, <3>3
  <2>9. CASE CheckOwner(t)
    <3>1. WriterExact'
      BY <1>0, <1>1, <2>9 DEF CheckOwner
    <3>2. OwnerExact'
      BY <1>0, <1>1, <2>9 DEF CheckOwner
    <3>3. ExpectedExact'
      BY <1>0, <1>1, <2>9 DEF CheckOwner
    <3>4. QED
      BY <3>1, <3>2, <3>3
  <2>10. CASE ReleaseCas(t)
    <3>1. WriterExact'
      BY <1>0, <1>1, <2>10 DEF ReleaseCas
    <3>2. OwnerExact'
      BY <1>0, <1>1, <2>10 DEF ReleaseCas
    <3>3. ExpectedExact'
      BY <1>0, <1>1, <2>10 DEF ReleaseCas
    <3>4. QED
      BY <3>1, <3>2, <3>3
  <2>11. CASE ReleaseRetry(t)
    <3>1. WriterExact'
      BY <1>0, <1>1, <2>11 DEF ReleaseRetry, Decide
    <3>2. OwnerExact'
      BY <1>0, <1>1, <2>11 DEF ReleaseRetry, Decide
    <3>3. ExpectedExact'
      BY <1>0, <1>1, <2>11 DEF ReleaseRetry, Decide
    <3>4. QED
      BY <3>1, <3>2, <3>3
  <2>12. CASE ClearOwner(t)
    <3>1. WriterExact'
      BY <1>0, <1>1, <2>12 DEF ClearOwner
    <3>2. OwnerExact'
      BY <1>0, <1>1, <2>12 DEF ClearOwner
    <3>3. ExpectedExact'
      BY <1>0, <1>1, <2>12 DEF ClearOwner
    <3>4. QED
      BY <3>1, <3>2, <3>3
  <2>13. CASE HostUnlock(t)
    <3>1. WriterExact'
      BY <1>0, <1>1, <2>13 DEF HostUnlock
    <3>2. OwnerExact'
      BY <1>0, <1>1, <2>13 DEF HostUnlock
    <3>3. ExpectedExact'
      BY <1>0, <1>1, <2>13 DEF HostUnlock
    <3>4. QED
      BY <3>1, <3>2, <3>3
  <2>14. QED
    BY <1>2, <2>1, <2>2, <2>3, <2>4, <2>5, <2>6, <2>7, <2>8, <2>9, <2>10, <2>11,
       <2>12, <2>13 DEF Step
<1>3. ASSUME NEW t \in Threads, NEW u \in Threads, Migrate(t, u)
      PROVE WriterExact' /\ OwnerExact' /\ ExpectedExact'
  BY <1>0, <1>3 DEF Migrate
<1>4. CASE UNCHANGED vars
  BY <1>0, <1>4 DEF vars
<1>5. QED
  BY <1>2, <1>3, <1>4 DEF Next
-------------------------------------------------------------------------------
\* The strengthening is an invariant.
THEOREM Inductive == Spec => []IInv
<1>1. IInv /\ [Next]_vars => IInv'
  BY TypeStep, HoldsStep, ControlStep DEF IInv
<1>2. QED
  BY InitIInv, <1>1, PTL DEF Spec

\* Every variable of the lock keeps its type, the word's count included: it never
\* wraps below zero (the release path's floor is never needed).
THEOREM TypeCorrect == Spec => []TypeOK
<1>1. IInv => TypeOK
  BY DEF IInv
<1>2. QED
  BY <1>1, Inductive, PTL

\* The word never counts a hold the host lock does not have (the comment at
\* hle_kernel.cpp:1413, "COUNT == outstanding host holds").
THEOREM HoldsAreAccounted == Spec => []HoldsAccounted
<1>1. IInv => HoldsAccounted
  BY DEF IInv
<1>2. QED
  BY <1>1, Inductive, PTL

\* Whatever the guest unlocks, glibc's reader count stays non-negative: the
\* defect behind #2012 cannot recur, for any number of threads and strays.
THEOREM NeverUnderflows == Spec => []HostNeverUnderflows
<1>1. IInv => HostNeverUnderflows
  <2> SUFFICES ASSUME IInv PROVE HostNeverUnderflows
    OBVIOUS
  <2>1. (IF state.write THEN 0 ELSE state.count) \in Nat
    BY DEF IInv, TypeOK, Word
  <2>2. QED
    BY <2>1, CrowdsFinite DEF IInv, HoldsAccounted, HostNeverUnderflows
<1>2. QED
  BY <1>1, Inductive, PTL

\* When no call is in progress the host lock holds exactly what the guest was
\* granted: a refused lock recorded nothing and a refused unlock freed nothing.
THEOREM RestAgrees == Spec => []AtRestAgree
<1>1. IInv => AtRestAgree
  <2> SUFFICES ASSUME IInv, \A t \in Threads : pc[t] = "idle"
      PROVE rw.readers + (IF rw.writer = NoThread THEN 0 ELSE 1) = granted
    BY DEF AtRestAgree
  <2>1. ReadArriving = {} /\ WriteArriving = {}
    BY DEF ReadArriving, WriteArriving, At
  <2>2. QED
    BY <2>1, FS_EmptySet DEF IInv, TypeOK, GuestExact
<1>2. QED
  BY <1>1, Inductive, PTL

\* What each step does to the word: nothing, or one of four exchanges.
LEMMA WordSteps ==
    ASSUME IInv, Next, state' # state
    PROVE \E t \in Threads : CountReader(t) \/ PublishWrite(t) \/ ReleaseCas(t)
<1>1. ASSUME NEW t \in Threads, NEW u \in Threads, Migrate(t, u) PROVE FALSE
  BY <1>1 DEF Migrate
<1>2. PICK t \in Threads : Step(t)
  BY <1>1 DEF Next
<1>3. CountReader(t) \/ PublishWrite(t) \/ ReleaseCas(t)
  BY <1>2 DEF Step, HostRdlock, HostWrlock, LockRefused, StoreOwner, LoadForWrite,
     Unlock, CheckOwner, ReleaseRetry, ClearOwner, HostUnlock
<1>4. QED
  BY <1>3

\* A write hold is released by its owner alone (hle_kernel.cpp:1437-1449): the flag
\* falls only in the exchange of the thread that has the host lock exclusively.
THEOREM WriteHoldIsOwned == Spec => WriteHoldNotStolen
<1> DEFINE Owned == state.write /\ ~state'.write
                      => /\ owner = rw.writer
                         /\ pc[rw.writer] = "un_cas" /\ pc'[rw.writer] = "un_clear"
<1>1. IInv /\ [Next]_vars => [Owned]_vars
  <2> SUFFICES ASSUME IInv, Next, state.write, ~state'.write
      PROVE Owned
    BY DEF vars
  <2>1. PICK t \in Threads : CountReader(t) \/ PublishWrite(t) \/ ReleaseCas(t)
    BY WordSteps
  <2>2. ReleaseCas(t)
    BY <2>1 DEF CountReader, PublishWrite
  <2>3. pc[t] = "un_cas" /\ s[t].write /\ pc'[t] = "un_clear"
    BY <2>2 DEF ReleaseCas, Goto, IInv, TypeOK
  <2>4. QED
    BY <2>3, ExpectedIsState
<1>2. QED
  BY <1>1, Inductive, PTL DEF Spec, WriteHoldNotStolen

\* The word, read as a lock, obeys the platform's rule for read and write holds.
THEOREM Refinement == Spec => ImplementsUmtx
<1>1. Init => Umtx!Init
  BY DEF Init, NoWord, Umtx!Init
<1>2. IInv /\ [Next]_vars => [Umtx!Next]_Umtx!vars
  <2> SUFFICES ASSUME IInv, Next
      PROVE Umtx!Next \/ UNCHANGED Umtx!vars
    BY DEF vars, Umtx!vars
  <2> USE DEF IInv, TypeOK, Word
  <2>1. CASE state' = state
    <3>1. CASE owner' = owner
      BY <2>1, <3>1 DEF Umtx!vars
    <3>2. CASE owner' # owner
      <4>1. PICK t \in Threads : StoreOwner(t) \/ ClearOwner(t)
        BY <3>2 DEF Next, Step, HostRdlock, HostWrlock, LockRefused, CountReader,
           LoadForWrite, PublishWrite, Unlock, CheckOwner, ReleaseCas, ReleaseRetry,
           HostUnlock, Migrate
      <4>2. ~state.write
        BY <4>1 DEF StoreOwner, ClearOwner, WriterExact
      <4>3. QED
        BY <2>1, <4>2 DEF Umtx!vars
    <3>3. QED
      BY <3>1, <3>2
  <2>2. CASE state' # state
    <3>1. PICK t \in Threads : CountReader(t) \/ PublishWrite(t) \/ ReleaseCas(t)
      BY <2>2, WordSteps
    <3>2. CASE CountReader(t)
      <4>1. t \in ReadArriving
        BY <3>2 DEF CountReader, ReadArriving, At
      <4>2. ~state.write
        BY <4>1, ExclusiveMeansAlone, FreeMeansUnwritten
      <4>3. Umtx!Rdlock
        BY <3>2, <4>2 DEF CountReader, Umtx!Rdlock
      <4>4. QED
        BY <4>3 DEF Umtx!Next
    <3>3. CASE PublishWrite(t)
      <4>1. ~state.write /\ state.count = 0 /\ owner = t
        BY <3>3 DEF PublishWrite, WriterExact, OwnerExact
      <4>2. Umtx!Wrlock(t)
        BY <3>3, <4>1 DEF PublishWrite, Umtx!Wrlock
      <4>3. QED
        BY <4>2 DEF Umtx!Next
    <3>4. CASE ReleaseCas(t) /\ s[t].write
      <4>1. state.write /\ owner = t /\ state.count = 1
        BY <3>4, ExpectedIsState DEF ReleaseCas
      <4>2. ~state'.write /\ state'.count = 0
        BY <3>4, <4>1 DEF ReleaseCas
      <4>3. Umtx!UnlockWrite(t)
        BY <4>1, <4>2 DEF Umtx!UnlockWrite
      <4>4. QED
        BY <4>3 DEF Umtx!Next
    <3>5. CASE ReleaseCas(t) /\ ~s[t].write
      <4>1. ~state.write /\ state.count > 0
        BY <3>5 DEF ReleaseCas, ExpectedExact
      <4>2. ~state'.write /\ state'.count = state.count - 1
        BY <3>5, <4>1 DEF ReleaseCas
      <4>3. Umtx!UnlockRead
        BY <4>1, <4>2 DEF Umtx!UnlockRead
      <4>4. QED
        BY <4>3 DEF Umtx!Next
    <3>6. QED
      BY <3>1, <3>2, <3>3, <3>4, <3>5
  <2>3. QED
    BY <2>1, <2>2
<1>3. QED
  BY <1>1, <1>2, Inductive, PTL DEF Spec, ImplementsUmtx, Umtx!Spec

\* What every state owes the guest, for any number of threads and of strays.
THEOREM Safety == Spec => []Safe
<1>1. TypeOK /\ HoldsAccounted /\ HostNeverUnderflows /\ AtRestAgree => Safe
  BY DEF Safe
<1>2. QED
  BY <1>1, TypeCorrect, HoldsAreAccounted, NeverUnderflows, RestAgrees, PTL
-------------------------------------------------------------------------------
(* The guest's own accounting, while it makes no stray unlock.             *)

LEMMA TokensMember ==
    ASSUME NEW h \in [Threads -> Int], NEW x
    PROVE x \in Tokens(h) <=> \E u \in Threads, i \in Int : i \in 1 .. h[u] /\ x = <<u, i>>
BY DEF Tokens

\* One more hold of a thread is one more token, and one less is one less.
LEMMA TokenUp ==
    ASSUME NEW h \in [Threads -> Int], NEW t \in Threads, h[t] >= 0,
           IsFiniteSet(Tokens(h)),
           NEW g \in [Threads -> Int], g[t] = h[t] + 1,
           \A u \in Threads : u # t => g[u] = h[u]
    PROVE /\ IsFiniteSet(Tokens(g))
          /\ Cardinality(Tokens(g)) = Cardinality(Tokens(h)) + 1
<1> DEFINE x == <<t, h[t] + 1>>
<1>1. x \notin Tokens(h)
  BY TokensMember
<1>2. ASSUME NEW y PROVE y \in Tokens(g) <=> y \in Tokens(h) \union {x}
  <2>1. ASSUME y \in Tokens(g) PROVE y \in Tokens(h) \union {x}
    <3>1. PICK u \in Threads, i \in Int : i \in 1 .. g[u] /\ y = <<u, i>>
      BY <2>1, TokensMember
    <3>2. CASE u = t /\ i = h[t] + 1
      BY <3>1, <3>2
    <3>3. CASE ~(u = t /\ i = h[t] + 1)
      <4>1. i \in 1 .. h[u]
        BY <3>1, <3>3
      <4>2. QED
        BY <3>1, <4>1, TokensMember
    <3>4. QED
      BY <3>2, <3>3
  <2>2. ASSUME y \in Tokens(h) PROVE y \in Tokens(g)
    <3>1. PICK u \in Threads, i \in Int : i \in 1 .. h[u] /\ y = <<u, i>>
      BY <2>2, TokensMember
    <3>2. i \in 1 .. g[u]
      BY <3>1
    <3>3. QED
      BY <3>1, <3>2, TokensMember
  <2>3. x \in Tokens(g)
    <3>1. h[t] + 1 \in 1 .. g[t]
      OBVIOUS
    <3>2. QED
      BY <3>1, TokensMember
  <2>4. QED
    BY <2>1, <2>2, <2>3
<1>3. Tokens(g) = Tokens(h) \union {x}
  BY <1>2
<1>4. /\ IsFiniteSet(Tokens(h) \union {x})
      /\ Cardinality(Tokens(h) \union {x}) = Cardinality(Tokens(h)) + 1
  <2> HIDE DEF x
  <2>1. QED
    BY <1>1, FS_AddElement
<1>5. QED
  BY <1>3, <1>4

LEMMA TokenDown ==
    ASSUME NEW h \in [Threads -> Int], NEW t \in Threads, h[t] > 0,
           IsFiniteSet(Tokens(h)),
           NEW g \in [Threads -> Int], g[t] = h[t] - 1,
           \A u \in Threads : u # t => g[u] = h[u]
    PROVE /\ IsFiniteSet(Tokens(g))
          /\ Cardinality(Tokens(g)) = Cardinality(Tokens(h)) - 1
<1>1. g[t] >= 0 /\ h[t] = g[t] + 1
  OBVIOUS
<1>2. Tokens(g) \in SUBSET Tokens(h)
  <2> SUFFICES ASSUME NEW y \in Tokens(g) PROVE y \in Tokens(h)
    OBVIOUS
  <2>1. PICK u \in Threads, i \in Int : i \in 1 .. g[u] /\ y = <<u, i>>
    BY <1>1, TokensMember
  <2>2. i \in 1 .. h[u]
    BY <2>1
  <2>3. QED
    BY <2>1, <2>2, TokensMember
<1>3. IsFiniteSet(Tokens(g))
  BY <1>2, FS_Subset
<1>4. Cardinality(Tokens(h)) = Cardinality(Tokens(g)) + 1
  BY <1>1, <1>3, TokenUp
<1>5. QED
  BY <1>3, <1>4, FS_CardinalityType

\* Threads that hold something are no more than the holds.
LEMMA HoldersAtMost ==
    ASSUME NEW h \in [Threads -> Int], IsFiniteSet(Tokens(h)),
           NEW S \in SUBSET Threads, \A u \in S : h[u] > 0
    PROVE Cardinality(S) <= Cardinality(Tokens(h))
<1> DEFINE f == [u \in S |-> <<u, 1>>]
<1>1. \A u \in S : f[u] \in Tokens(h)
  BY TokensMember
<1>2. \A u, v \in S : f[u] = f[v] => u = v
  OBVIOUS
<1>3. f \in Injection(S, Tokens(h))
  BY <1>1, <1>2 DEF Injection, IsInjective
<1>4. QED
  BY <1>3, FS_Injection

LEMMA InitBalanced == Init => Balanced
<1> SUFFICES ASSUME Init PROVE Balanced
  OBVIOUS
<1>1. holds \in [Threads -> Int] /\ \A t \in Threads : holds[t] = 0
  BY DEF Init
<1>2. Tokens(holds) = {}
  BY <1>1 DEF Tokens
<1>3. \A t \in Threads : rw.writer # t /\ pc[t] = "idle" /\ rc[t] = "OK"
  BY RwAssumption DEF Init
<1>4. QED
  BY <1>1, <1>2, <1>3, FS_EmptySet DEF Init, Balanced, TokensExact, Backed

\* A guest that holds finds a free word never, and a write hold only if it is its own.
LEMMA HolderSeesHold ==
    ASSUME IInv, Balanced, stray = 0, NEW t \in Threads, holds[t] > 0,
           pc[t] \notin {"un_clear", "un_host"}
    PROVE /\ state.write \/ state.count # 0
          /\ state.write => rw.writer = t
<1> USE DEF IInv, TypeOK
<1>1. /\ holds \in [Threads -> Int] /\ granted \in Int /\ rw.readers \in Int
      /\ IsFiniteSet(Tokens(holds)) /\ Cardinality(Tokens(holds)) = granted
  BY DEF Balanced, TokensExact
<1>2. Leaving \in SUBSET Threads /\ IsFiniteSet(Leaving) /\ t \notin Leaving
      /\ \A u \in Leaving : holds[u] > 0
  <2>1. Leaving \in SUBSET Threads /\ t \notin Leaving
        /\ \A u \in Leaving : holds[u] > 0
    BY DEF Leaving, At, Balanced, Backed
  <2>2. QED
    BY <2>1, FS_Subset, RwAssumption
<1>3. Cardinality(Leaving) \in Nat
  BY <1>2, FS_CardinalityType
<1>4. Cardinality(Leaving) + 1 <= granted
  <2>1. Cardinality(Leaving \union {t}) = Cardinality(Leaving) + 1
    BY <1>2, FS_AddElement
  <2>2. Cardinality(Leaving \union {t}) <= Cardinality(Tokens(holds))
    BY <1>1, <1>2, HoldersAtMost
  <2>3. QED
    BY <1>1, <2>1, <2>2
<1>5. ASSUME ~state.write /\ state.count = 0 PROVE FALSE
  <2>1. rw.readers = Cardinality(ReadArriving) + Cardinality(ReadLeaving)
    BY <1>5, CrowdsFinite DEF HoldsAccounted
  <2>2. ReadLeaving \in SUBSET Leaving
    BY DEF ReadLeaving
  <2>3. Cardinality(ReadLeaving) <= Cardinality(Leaving)
    BY <1>2, <2>2, FS_Subset
  <2>4. CASE rw.writer = NoThread
    <3>1. WriteArriving = {}
      BY <2>4, FreeMeansUnwritten
    <3>2. QED
      BY <1>1, <1>3, <1>4, <2>1, <2>3, <2>4, <3>1, CrowdsFinite DEF GuestExact
  <2>5. CASE rw.writer # NoThread /\ WriteArriving # {}
    BY <1>1, <1>3, <1>4, <2>1, <2>3, <2>5, CrowdsFinite, SMTT(30) DEF GuestExact
  <2>6. CASE rw.writer # NoThread /\ WriteArriving = {}
    <3>1. rw.writer \in Leaving
      BY <1>5, <2>6 DEF WriterExact, WriteArriving, Leaving, At
    <3>2. ReadLeaving \in SUBSET (Leaving \ {rw.writer})
      BY DEF ReadLeaving
    <3>3. /\ IsFiniteSet(Leaving \ {rw.writer})
          /\ Cardinality(Leaving \ {rw.writer}) = Cardinality(Leaving) - 1
      BY <1>2, <3>1, FS_RemoveElement
    <3>4. Cardinality(ReadLeaving) <= Cardinality(Leaving) - 1
      BY <3>2, <3>3, FS_Subset
    <3>5. QED
      BY <1>1, <1>3, <1>4, <2>1, <2>6, <3>4, CrowdsFinite DEF GuestExact
  <2>7. QED
    BY <2>4, <2>5, <2>6
<1>6. ASSUME state.write, rw.writer # t PROVE FALSE
  <2>1. rw.writer \in Threads /\ rw.writer # NoThread
    BY <1>6 DEF OwnerExact
  <2>2. holds[rw.writer] > 0
    BY <1>6, <2>1 DEF WriterExact, Balanced, Backed
  <2>3. rw.readers = 0 /\ Cardinality(ReadArriving) = 0
    BY <1>6, <2>1, ExclusiveMeansAlone, FS_EmptySet DEF HoldsAccounted
  <2>4. granted <= 1
    BY <1>1, <2>1, <2>3 DEF GuestExact
  <2>5. Cardinality({t, rw.writer}) <= Cardinality(Tokens(holds))
    BY <1>1, <2>1, <2>2, HoldersAtMost
  <2>6. Cardinality({t, rw.writer}) = 2
    <3>1. Cardinality({t}) = 1 /\ IsFiniteSet({t})
      BY FS_Singleton
    <3>2. rw.writer \notin {t} /\ {t, rw.writer} = {t} \union {rw.writer}
      BY <1>6
    <3>3. Cardinality({t} \union {rw.writer}) = Cardinality({t}) + 1
      BY <3>1, <3>2, FS_AddElement
    <3>4. Cardinality({t} \union {rw.writer}) = 2
      BY <3>1, <3>3
    <3>5. QED
      BY <3>2, <3>4
  <2>7. QED
    BY <1>1, <2>4, <2>5, <2>6
<1>7. QED
  BY <1>5, <1>6
\* A call that returns, with the hold it hands over or takes.
LEMMA ReturnTokens ==
    ASSUME TypeOK, TokensExact, NEW t \in Threads, NEW c \in Rcs,
           NEW n \in {-1, 0, 1}, Return(t, c, n),
           holds[t] >= 0, n = -1 => holds[t] > 0
    PROVE TokensExact'
<1>1. /\ holds \in [Threads -> Int] /\ granted \in Int
      /\ holds' \in [Threads -> Int] /\ holds'[t] = holds[t] + n
      /\ \A u \in Threads : u # t => holds'[u] = holds[u]
      /\ granted' = granted + n
  BY DEF TypeOK, Return
<1>2. CASE n = 0
  <2>1. holds' = holds /\ granted' = granted
    BY <1>1, <1>2 DEF Return, TypeOK
  <2>2. QED
    BY <2>1 DEF TokensExact, Tokens
<1>3. CASE n = 1
  <2>1. /\ IsFiniteSet(Tokens(holds'))
        /\ Cardinality(Tokens(holds')) = Cardinality(Tokens(holds)) + 1
    BY <1>1, <1>3, TokenUp DEF TokensExact
  <2>2. QED
    BY <1>1, <1>3, <2>1 DEF TokensExact
<1>4. CASE n = -1
  <2>1. holds[t] > 0 /\ holds'[t] = holds[t] - 1
    BY <1>1, <1>4
  <2>2. /\ IsFiniteSet(Tokens(holds'))
        /\ Cardinality(Tokens(holds')) = Cardinality(Tokens(holds)) - 1
    BY <1>1, <2>1, TokenDown DEF TokensExact
  <2>3. QED
    BY <1>1, <1>4, <2>2 DEF TokensExact
<1>5. QED
  BY <1>2, <1>3, <1>4

\* A hold that moves with its fiber stays one hold.
LEMMA MigrateTokens ==
    ASSUME TypeOK, TokensExact, \A v \in Threads : holds[v] >= 0,
           NEW t \in Threads, NEW u \in Threads, Migrate(t, u)
    PROVE TokensExact'
<1> DEFINE mid == [holds EXCEPT ![t] = @ - 1]
<1>1. /\ holds \in [Threads -> Int] /\ granted' = granted /\ granted \in Int
      /\ t # u /\ holds[t] > 0 /\ holds[u] >= 0
  BY DEF TypeOK, Migrate
<1>2. /\ mid \in [Threads -> Int] /\ mid[t] = holds[t] - 1
      /\ \A v \in Threads : v # t => mid[v] = holds[v]
  BY <1>1
<1>3. /\ holds' \in [Threads -> Int] /\ holds'[u] = mid[u] + 1
      /\ \A v \in Threads : v # u => holds'[v] = mid[v]
  BY <1>1, <1>2 DEF Migrate
<1> HIDE DEF mid
<1>4. /\ IsFiniteSet(Tokens(mid))
      /\ Cardinality(Tokens(mid)) = Cardinality(Tokens(holds)) - 1
  BY <1>1, <1>2, TokenDown DEF TokensExact
<1>5. mid[u] >= 0
  BY <1>1, <1>2
<1>6. /\ IsFiniteSet(Tokens(holds'))
      /\ Cardinality(Tokens(holds')) = Cardinality(Tokens(mid)) + 1
  BY <1>2, <1>3, <1>4, <1>5, TokenUp
<1>7. QED
  BY <1>1, <1>4, <1>6 DEF TokensExact

\* What a holder's unlock decides: it goes on, and looks at the owner of none but
\* its own write hold.
LEMMA DecideHolder ==
    ASSUME IInv, Balanced, stray = 0, NEW t \in Threads, holds[t] > 0,
           pc[t] \in {"idle", "un_cas"}, Decide(t)
    PROVE /\ Goto(t, IF state.write THEN "un_owner" ELSE "un_cas")
          /\ UNCHANGED guest
          /\ state.write => rw.writer = t
BY HolderSeesHold DEF Decide

LEMMA StrayStep ==
    ASSUME TypeOK, Next, stray' = 0
    PROVE /\ stray = 0
          /\ \A t \in Threads : Unlock(t) => holds[t] > 0
BY DEF TypeOK, Next, Step, HostRdlock, HostWrlock, LockRefused, CountReader, StoreOwner,
       LoadForWrite, PublishWrite, Unlock, CheckOwner, ReleaseCas, ReleaseRetry,
       ClearOwner, HostUnlock, Migrate
LEMMA BalancedStep == IInv /\ Balanced /\ [Next]_vars => Balanced'
<1> SUFFICES ASSUME IInv, Balanced, Next, stray' = 0
    PROVE TokensExact' /\ \A v \in Threads : Backed(v)'
  <2>1. ASSUME Balanced, UNCHANGED vars PROVE Balanced'
    BY <2>1 DEF vars, Balanced, TokensExact, Tokens, Backed
  <2>2. QED
    BY <2>1 DEF Balanced
<1>0. /\ TypeOK /\ stray = 0 /\ TokensExact
      /\ \A v \in Threads : Backed(v)
      /\ \A v \in Threads : Unlock(v) => holds[v] > 0
  BY StrayStep DEF IInv, Balanced
<1>1. \A v \in Threads : holds[v] >= 0
  BY <1>0 DEF Backed
<1> USE RwAssumption DEF TypeOK, Pcs, Rcs, Goto, Backed
<1>2. ASSUME NEW t \in Threads, Step(t)
      PROVE TokensExact' /\ \A v \in Threads : Backed(v)'
  <2>0. holds' = holds /\ granted' = granted => TokensExact'
    BY <1>0 DEF TokensExact, Tokens
  <2>1. CASE HostRdlock(t)
    BY <1>0, <2>0, <2>1 DEF HostRdlock, guest
  <2>2. CASE HostWrlock(t)
    BY <1>0, <2>0, <2>2 DEF HostWrlock, guest
  <2>3. CASE LockRefused(t)
    <3>1. TokensExact'
      BY <1>0, <1>1, <2>3, ReturnTokens DEF LockRefused
    <3>2. \A v \in Threads : Backed(v)'
      BY <1>0, <2>3 DEF LockRefused, Return
    <3>3. QED
      BY <3>1, <3>2
  <2>4. CASE CountReader(t)
    <3>1. TokensExact'
      BY <1>0, <1>1, <2>4, ReturnTokens DEF CountReader
    <3>2. \A v \in Threads : Backed(v)'
      BY <1>0, <2>4 DEF CountReader, Return
    <3>3. QED
      BY <3>1, <3>2
  <2>5. CASE StoreOwner(t)
    BY <1>0, <2>0, <2>5 DEF StoreOwner, guest
  <2>6. CASE LoadForWrite(t)
    BY <1>0, <2>0, <2>6 DEF LoadForWrite, guest
  <2>7. CASE PublishWrite(t)
    <3>1. TokensExact'
      BY <1>0, <1>1, <2>7, ReturnTokens DEF PublishWrite
    <3>2. \A v \in Threads : Backed(v)'
      BY <1>0, <2>7 DEF PublishWrite, Return
    <3>3. QED
      BY <3>1, <3>2
  <2>8. CASE Unlock(t)
    <3>1. /\ Goto(t, IF state.write THEN "un_owner" ELSE "un_cas")
          /\ UNCHANGED guest /\ (state.write => rw.writer = t) /\ holds[t] > 0
      BY <1>0, <2>8, DecideHolder DEF Unlock
    <3>2. QED
      BY <1>0, <2>0, <2>8, <3>1 DEF Unlock, guest
  <2>9. CASE CheckOwner(t)
    <3>1. owner = t
      BY <1>0, <2>9 DEF CheckOwner, IInv, WriterExact
    <3>2. QED
      BY <1>0, <2>0, <2>9, <3>1 DEF CheckOwner, guest
  <2>10. CASE ReleaseCas(t)
    BY <1>0, <2>0, <2>10 DEF ReleaseCas, guest
  <2>11. CASE ReleaseRetry(t)
    <3>1. /\ Goto(t, IF state.write THEN "un_owner" ELSE "un_cas")
          /\ UNCHANGED guest /\ (state.write => rw.writer = t) /\ holds[t] > 0
      BY <1>0, <2>11, DecideHolder DEF ReleaseRetry
    <3>2. QED
      BY <1>0, <2>0, <2>11, <3>1 DEF ReleaseRetry, guest
  <2>12. CASE ClearOwner(t)
    BY <1>0, <2>0, <2>12 DEF ClearOwner, guest
  <2>13. CASE HostUnlock(t)
    <3>1. holds[t] > 0
      BY <1>0, <2>13 DEF HostUnlock
    <3>2. TokensExact'
      BY <1>0, <1>1, <2>13, <3>1, ReturnTokens DEF HostUnlock
    <3>3. /\ \A v \in Threads : rw'.writer = v => rw.writer = v /\ v # t
          /\ \A v \in Threads : rw.writer = v /\ v # t => rw'.writer = v
      BY <2>13 DEF HostUnlock
    <3>4. \A v \in Threads : Backed(v)'
      BY <1>0, <2>13, <3>1, <3>3 DEF HostUnlock, Return
    <3>5. QED
      BY <3>2, <3>4
  <2>14. QED
    BY <1>2, <2>1, <2>2, <2>3, <2>4, <2>5, <2>6, <2>7, <2>8, <2>9, <2>10, <2>11,
       <2>12, <2>13 DEF Step
<1>3. ASSUME NEW t \in Threads, NEW u \in Threads, Migrate(t, u)
      PROVE TokensExact' /\ \A v \in Threads : Backed(v)'
  <2>1. TokensExact'
    BY <1>0, <1>1, <1>3, MigrateTokens
  <2>2. \A v \in Threads : Backed(v)'
    BY <1>0, <1>3 DEF Migrate
  <2>3. QED
    BY <2>1, <2>2
<1>4. QED
  BY <1>2, <1>3 DEF Next

\* With the guest's own books in it, the strengthening is an invariant too.
THEOREM InductiveBalanced == Spec => []IInvBalanced
<1>1. Init => IInvBalanced
  BY InitIInv, InitBalanced DEF IInvBalanced
<1>2. IInvBalanced /\ [Next]_vars => IInvBalanced'
  BY TypeStep, HoldsStep, ControlStep, BalancedStep DEF IInvBalanced, IInv
<1>3. QED
  BY <1>1, <1>2, PTL DEF Spec

\* As long as the guest unlocks only what it holds, on whichever thread the hold has
\* moved to, no unlock of it is ever refused: the guard against strays
\* (hle_kernel.cpp:1478-1511) costs a correct program nothing.
THEOREM BalancedIsServed == Spec => []BalancedNeverRefused
<1>1. IInvBalanced => BalancedNeverRefused
  <2> SUFFICES ASSUME IInvBalanced, NEW t \in Threads, rc[t] = "EPERM"
      PROVE stray > 0
    BY DEF BalancedNeverRefused
  <2>1. stray # 0
    BY DEF IInvBalanced, Balanced, Backed
  <2>2. QED
    BY <2>1 DEF IInvBalanced, IInv, TypeOK
<1>2. QED
  BY <1>1, InductiveBalanced, PTL
===============================================================================
