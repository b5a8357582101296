---------------------------- MODULE PthreadCondProofs ---------------------------
(***************************************************************************)
(* Proofs about PthreadCond, for any numbers of threads and objects: the   *)
(* count a destroy decides by is right, objects are retired once, a        *)
(* destroy takes no object from those who wait in it, and no broadcast is  *)
(* lost between two slices of a timed wait, but on the realtime clock.     *)
(*                                                                         *)
(* And about CondSlots, the table in which those condvars have the word    *)
(* their Windows waiters sleep on, for any numbers of threads, condvars    *)
(* and slots: no slot is taken from those who use it, a condvar alone on   *)
(* the table has one slot and leaves none, and only a full table fails.    *)
(***************************************************************************)
EXTENDS PthreadCond, CondSlots, FiniteSetTheorems, TLAPS

\* The threads inside the waits of one object are finitely many.
LEMMA InsideIsFinite ==
  ASSUME NEW o
  PROVE  /\ IsFiniteSet(Inside(o))
         /\ Cardinality(Inside(o)) \in 0 .. Cardinality(Threads)
<1>1. Inside(o) \subseteq Threads
  BY DEF Inside
<1>2. QED
  BY <1>1, CondAssumption, FS_Subset, FS_CardinalityType

\* An entry just made, and one that is unknown, are entries.
LEMMA NewEntries ==
  /\ Cardinality(Threads) \in Nat
  /\ Unknown \in Entries /\ \A c \in Clocks : Fresh(c) \in Entries
<1>1. Cardinality(Threads) \in Nat
  BY CondAssumption, FS_CardinalityType
<1>2. QED
  BY <1>1, CondAssumption DEF Entries, Unknown, Fresh, Clocks

\* A call that returns leaves its locals empty.
LEMMA ReturnTypes ==
  ASSUME TypeOK, NEW t \in Threads, Return(t)
  PROVE  /\ pc' \in [Threads -> Pcs] /\ op' \in [Threads -> Ops]
         /\ obj' \in [Threads -> Objs \union {"none", "dead"}]
         /\ gen0' \in [Threads -> 0 .. MaxGen]
         /\ late' \in [Threads -> BOOLEAN]
         /\ through' \in [Threads -> SUBSET Threads]
         /\ owed' \subseteq Threads
<1>1. pc' \in [Threads -> Pcs] /\ op' \in [Threads -> Ops]
  BY DEF TypeOK, Return, Goto, Pcs, Ops, Calls
<1>2. obj' \in [Threads -> Objs \union {"none", "dead"}] /\ late' \in [Threads -> BOOLEAN]
  BY DEF TypeOK, Return
<1>3. gen0' \in [Threads -> 0 .. MaxGen]
  BY CondAssumption DEF TypeOK, Return
<1>4. through' \in [Threads -> SUBSET Threads] /\ owed' \subseteq Threads
  BY DEF TypeOK, Return
<1>5. QED
  BY <1>1, <1>2, <1>3, <1>4
-------------------------------------------------------------------------------
\* The guest's mutex is nothing to the object.
LEMMA LockStep ==
  ASSUME IInv, NEW t \in Threads, Lock(t)
  PROVE  IInv'
<1>i. \A p \in Objs : Inside(p)' = Inside(p)
  BY DEF IInv, CountExact, TypeOK, Inside, Lock, memory, locals, ghosts
<1>1. TypeOK'
  BY DEF IInv, CountExact, TypeOK, Lock, memory, locals, ghosts
<1>2. CountExact'
  BY <1>1, <1>i DEF IInv, CountExact, TypeOK, Lock, memory, locals, ghosts
<1>3. RetiredOnce'
  BY DEF IInv, CountExact, TypeOK, RetiredOnce, Retiring, Lock, memory, locals, ghosts
<1>4. CallShape'
  BY DEF IInv, CountExact, TypeOK, CallShape, Lock, memory, locals, ghosts
<1>5. InitAlone'
  BY DEF IInv, CountExact, TypeOK, InitAlone, Lock, memory, locals, ghosts
<1>6. MadeIsPrivate'
  BY DEF IInv, CountExact, TypeOK, MadeIsPrivate, Users, Lock, memory, locals, ghosts
<1>7. FreeIsUnused'
  BY DEF IInv, CountExact, TypeOK, FreeIsUnused, Users, Lock, memory, locals, ghosts
<1>8. CountBounded'
  BY <1>i DEF IInv, CountExact, TypeOK, CountBounded, Lock, memory, locals, ghosts
<1>9. ThroughExact'
  BY DEF IInv, CountExact, TypeOK, ThroughExact, Lock, memory, locals, ghosts
<1>10. GenerationExact'
  BY DEF IInv, CountExact, TypeOK, GenerationExact, Lock, memory, locals, ghosts
<1>11. QED
  BY <1>1, <1>2, <1>3, <1>4, <1>5, <1>6, <1>7, <1>8, <1>9, <1>10 DEF IInv

\* The guest's mutex is nothing to the object.
LEMMA UnlockStep ==
  ASSUME IInv, NEW t \in Threads, Unlock(t)
  PROVE  IInv'
<1>i. \A p \in Objs : Inside(p)' = Inside(p)
  BY DEF IInv, CountExact, TypeOK, Inside, Unlock, memory, locals, ghosts
<1>1. TypeOK'
  BY DEF IInv, CountExact, TypeOK, Unlock, memory, locals, ghosts
<1>2. CountExact'
  BY <1>1, <1>i DEF IInv, CountExact, TypeOK, Unlock, memory, locals, ghosts
<1>3. RetiredOnce'
  BY DEF IInv, CountExact, TypeOK, RetiredOnce, Retiring, Unlock, memory, locals, ghosts
<1>4. CallShape'
  BY DEF IInv, CountExact, TypeOK, CallShape, Unlock, memory, locals, ghosts
<1>5. InitAlone'
  BY DEF IInv, CountExact, TypeOK, InitAlone, Unlock, memory, locals, ghosts
<1>6. MadeIsPrivate'
  BY DEF IInv, CountExact, TypeOK, MadeIsPrivate, Users, Unlock, memory, locals, ghosts
<1>7. FreeIsUnused'
  BY DEF IInv, CountExact, TypeOK, FreeIsUnused, Users, Unlock, memory, locals, ghosts
<1>8. CountBounded'
  BY <1>i DEF IInv, CountExact, TypeOK, CountBounded, Unlock, memory, locals, ghosts
<1>9. ThroughExact'
  BY DEF IInv, CountExact, TypeOK, ThroughExact, Unlock, memory, locals, ghosts
<1>10. GenerationExact'
  BY DEF IInv, CountExact, TypeOK, GenerationExact, Unlock, memory, locals, ghosts
<1>11. QED
  BY <1>1, <1>2, <1>3, <1>4, <1>5, <1>6, <1>7, <1>8, <1>9, <1>10 DEF IInv

\* A call has no pointer yet; a destroy that begins sees who is parked.
LEMMA CallStep ==
  ASSUME IInv, NEW t \in Threads, NEW o \in Calls, Call(t, o)
  PROVE  IInv'
<1>i. \A p \in Objs : Inside(p)' = Inside(p)
  BY DEF IInv, CountExact, TypeOK, Inside, Call, Goto, memory
<1>1. TypeOK'
  BY DEF IInv, CountExact, TypeOK, Pcs, Ops, Calls, Call, Goto, memory
<1>2. CountExact'
  BY <1>1, <1>i DEF IInv, CountExact, TypeOK, Call, Goto, memory
<1>3. RetiredOnce'
  BY DEF IInv, CountExact, TypeOK, RetiredOnce, Retiring, Call, Goto, memory
<1>4. CallShape'
  BY DEF IInv, CountExact, TypeOK, CallShape, Waiting, Calls, Call, Goto, memory
<1>5. InitAlone'
  BY DEF IInv, CountExact, TypeOK, InitAlone, Call, Goto, memory
<1>6. MadeIsPrivate'
  BY DEF IInv, CountExact, TypeOK, MadeIsPrivate, Users, Call, Goto, memory
<1>7. FreeIsUnused'
  BY DEF IInv, CountExact, TypeOK, FreeIsUnused, Users, Call, Goto, memory
<1>8. CountBounded'
  BY <1>i DEF IInv, CountExact, TypeOK, CountBounded, Call, Goto, memory
<1>9. ThroughExact'
  BY DEF IInv, CountExact, TypeOK, ThroughExact, Waiting, Call, Goto, memory
<1>10. GenerationExact'
  BY DEF IInv, CountExact, TypeOK, GenerationExact, Waiting, Call, Goto, memory
<1>11. QED
  BY <1>1, <1>2, <1>3, <1>4, <1>5, <1>6, <1>7, <1>8, <1>9, <1>10 DEF IInv

\* ensure_cond takes the object of the slot, or finds it dead, or makes one.
LEMMA LoadStep ==
  ASSUME IInv, NEW t \in Threads, Load(t)
  PROVE  IInv'
<1>i. \A p \in Objs : Inside(p)' = Inside(p)
  BY DEF IInv, CountExact, TypeOK, Inside, Load, Return, Goto, memory, locals, ghosts
<1>1. TypeOK'
  <2>1. CASE Return(t)
    BY <2>1, ReturnTypes DEF IInv, CountExact, TypeOK, Load, memory, locals, ghosts
  <2>2. CASE ~Return(t)
    BY <2>2 DEF IInv, CountExact, TypeOK, Pcs, Load, Goto, memory, locals, ghosts
  <2>3. QED
    BY <2>1, <2>2
<1>2. CountExact'
  BY <1>1, <1>i DEF IInv, CountExact, TypeOK, Load, Return, Goto, memory, locals, ghosts
<1>3. RetiredOnce'
  BY DEF IInv, CountExact, TypeOK, RetiredOnce, Retiring, Load, Return, Goto, memory,
     locals, ghosts
<1>4. CallShape'
  BY CondAssumption DEF IInv, CountExact, TypeOK, CallShape, Waiting, InitAlone, Load,
     Return, Goto, memory, locals, ghosts
<1>5. InitAlone'
  BY DEF IInv, CountExact, TypeOK, InitAlone, Load, Return, Goto, memory, locals, ghosts
<1>6. MadeIsPrivate'
  BY DEF IInv, CountExact, TypeOK, CallShape, MadeIsPrivate, Users, Load, Return, Goto,
     memory, locals, ghosts
<1>7. FreeIsUnused'
  BY CondAssumption DEF IInv, CountExact, TypeOK, RetiredOnce, FreeIsUnused, Users,
     Load, Return, Goto, memory, locals, ghosts
<1>8. CountBounded'
  BY <1>i DEF IInv, CountExact, TypeOK, CountBounded, Load, Return, Goto, memory,
     locals, ghosts
<1>9. ThroughExact'
  BY DEF IInv, CountExact, TypeOK, ThroughExact, Waiting, Load, Return, Goto, memory,
     locals, ghosts
<1>10. GenerationExact'
  <2> SUFFICES ASSUME NEW u \in Threads, op'[u] = "timed", obj'[u] = slot'
               PROVE  /\ pc'[u] \in {"slice", "parked", "relock", "check"}
                            => gen0'[u] <= entry'[slot'].generation
                      /\ u \in owed' =>
                            /\ pc'[u] \in {"parked", "relock", "check", "leave"}
                            /\ pc'[u] # "leave" => gen0'[u] < entry'[slot'].generation
    <3>1. \A v \in owed' : pc'[v] \in Waiting
      BY DEF IInv, CountExact, TypeOK, GenerationExact, Waiting, Load, Return, Goto,
         memory, locals, ghosts
    <3>2. QED
      BY <3>1 DEF GenerationExact
  <2>1. CASE u = t
    BY <2>1 DEF IInv, CountExact, TypeOK, GenerationExact, Waiting, Load, Return, Goto,
       memory, locals, ghosts
  <2>2. CASE u # t
    <3>1. pc'[u] = pc[u] /\ op'[u] = op[u] /\ obj'[u] = obj[u] /\ gen0'[u] = gen0[u]
      BY <2>2 DEF IInv, CountExact, TypeOK, Load, Return, Goto, memory, locals, ghosts
    <3>2. u \in owed' => u \in owed
      BY <2>2 DEF Load, Return, Goto, memory, locals, ghosts
    <3>3. obj[u] = slot' /\ pc[u] \in Waiting => slot = slot' /\ entry'[slot'] = entry[slot]
      BY <2>2 DEF IInv, CountExact, TypeOK, Load, Return, Goto, memory, locals, ghosts
    <3>4. QED
      BY <3>1, <3>2, <3>3 DEF IInv, CountExact, TypeOK, GenerationExact, Waiting
  <2>3. QED
    BY <2>1, <2>2
<1>11. QED
  BY <1>1, <1>2, <1>3, <1>4, <1>5, <1>6, <1>7, <1>8, <1>9, <1>10 DEF IInv

\* ensure_cond and k_cond_init make an object and its entry anew: nobody else has
\* either, and whoever used that memory before has gone.
LEMMA MakeStep ==
  ASSUME IInv, NEW t \in Threads, Make(t)
  PROVE  IInv'
<1>i. \A p \in Objs : Inside(p)' = Inside(p)
  BY DEF IInv, CountExact, TypeOK, Inside, Make, Goto, ghosts
<1>1. TypeOK'
  <2>1. PICK o \in Objs, c \in Clocks :
          /\ life' = [life EXCEPT ![o] = "live"]
          /\ entry' = [entry EXCEPT ![o] = Fresh(c)]
          /\ obj' = [obj EXCEPT ![t] = o]
    BY DEF Make, Clocks
  <2>2. entry' \in [Objs -> Entries]
    BY <2>1, NewEntries DEF IInv, CountExact, TypeOK
  <2>3. QED
    BY <2>1, <2>2 DEF IInv, CountExact, TypeOK, Pcs, Make, Goto, ghosts
<1>2. CountExact'
  BY <1>1, <1>i DEF IInv, CountExact, TypeOK, RetiredOnce, Make, Goto, ghosts
<1>3. RetiredOnce'
  BY DEF IInv, CountExact, TypeOK, RetiredOnce, Retiring, Make, Goto, ghosts
<1>4. CallShape'
  BY DEF IInv, CountExact, TypeOK, CallShape, Waiting, Make, Goto, ghosts
<1>5. InitAlone'
  BY DEF IInv, CountExact, TypeOK, InitAlone, Make, Goto, ghosts
<1>6. MadeIsPrivate'
  <2>1. PICK o \in Objs, c \in Clocks :
          /\ life[o] = "free"
          /\ life' = [life EXCEPT ![o] = "live"]
          /\ entry' = [entry EXCEPT ![o] = Fresh(c)]
          /\ obj' = [obj EXCEPT ![t] = o]
    BY DEF Make, Clocks
  <2>2. entry'[o] \in {Fresh(d) : d \in Clocks} /\ life'[o] = "live" /\ Users(o) = {}
    BY <2>1 DEF IInv, CountExact, TypeOK, FreeIsUnused
  <2>3. slot' = slot /\ slot # o
    BY <2>1 DEF IInv, RetiredOnce, Make
  <2>4. ASSUME NEW u \in Threads, pc'[u] \in {"cas", "store"}
        PROVE  /\ slot' # obj'[u] /\ life'[obj'[u]] = "live"
               /\ entry'[obj'[u]] \in {Fresh(d) : d \in Clocks}
               /\ {v \in Threads : obj'[v] = obj'[u]} = {u}
    <3>1. CASE u = t
      <4>1. obj'[u] = o
        BY <2>1, <3>1 DEF IInv, CountExact, TypeOK
      <4>2. {v \in Threads : obj'[v] = o} = {t}
        BY <2>1, <2>2 DEF IInv, CountExact, TypeOK, Users
      <4>3. QED
        BY <2>2, <2>3, <3>1, <4>1, <4>2
    <3>2. CASE u # t
      <4>1. pc[u] \in {"cas", "store"} /\ obj'[u] = obj[u] /\ obj[u] # o /\ obj[u] \in Objs
        BY <2>1, <2>2, <2>4, <3>2 DEF IInv, CountExact, TypeOK, CallShape, Users, Make, Goto
      <4>2. Users(obj[u]) = {u} /\ slot # obj[u] /\ life[obj[u]] = "live"
            /\ entry[obj[u]] \in {Fresh(d) : d \in Clocks}
        BY <4>1 DEF IInv, MadeIsPrivate
      <4>3. life'[obj[u]] = life[obj[u]] /\ entry'[obj[u]] = entry[obj[u]]
        BY <2>1, <4>1 DEF IInv, CountExact, TypeOK
      <4>4. {v \in Threads : obj'[v] = obj[u]} = {u}
        BY <2>1, <4>1, <4>2, <3>2 DEF IInv, CountExact, TypeOK, Users
      <4>5. QED
        BY <2>3, <4>1, <4>2, <4>3, <4>4
    <3>3. QED
      BY <3>1, <3>2
  <2>5. QED
    BY <2>4 DEF MadeIsPrivate, Users
<1>7. FreeIsUnused'
  BY DEF IInv, CountExact, TypeOK, FreeIsUnused, Users, Make, Goto, ghosts
<1>8. CountBounded'
  BY <1>i, InsideIsFinite DEF IInv, CountExact, TypeOK, CountBounded, Fresh, Make, Goto,
     ghosts
<1>9. ThroughExact'
  BY DEF IInv, CountExact, TypeOK, ThroughExact, Waiting, Make, Goto, ghosts
<1>10. GenerationExact'
  <2> SUFFICES ASSUME NEW u \in Threads, op'[u] = "timed", obj'[u] = slot'
               PROVE  /\ pc'[u] \in {"slice", "parked", "relock", "check"}
                            => gen0'[u] <= entry'[slot'].generation
                      /\ u \in owed' =>
                            /\ pc'[u] \in {"parked", "relock", "check", "leave"}
                            /\ pc'[u] # "leave" => gen0'[u] < entry'[slot'].generation
    <3>1. \A v \in owed' : pc'[v] \in Waiting
      BY DEF IInv, CountExact, TypeOK, GenerationExact, Waiting, Make, Goto, ghosts
    <3>2. QED
      BY <3>1 DEF GenerationExact
  <2>1. CASE u = t
    BY <2>1 DEF IInv, CountExact, TypeOK, GenerationExact, Waiting, Make, Goto, ghosts
  <2>2. CASE u # t
    <3>1. pc'[u] = pc[u] /\ op'[u] = op[u] /\ obj'[u] = obj[u] /\ gen0'[u] = gen0[u]
      BY <2>2 DEF IInv, CountExact, TypeOK, Make, Goto, ghosts
    <3>2. u \in owed' => u \in owed
      BY <2>2 DEF Make, Goto, ghosts
    <3>3. obj[u] = slot' /\ pc[u] \in Waiting => slot = slot' /\ entry'[slot'] = entry[slot]
      BY <2>2 DEF IInv, CountExact, TypeOK, RetiredOnce, Make, Goto, ghosts
    <3>4. QED
      BY <3>1, <3>2, <3>3 DEF IInv, CountExact, TypeOK, GenerationExact, Waiting
  <2>3. QED
    BY <2>1, <2>2
<1>11. QED
  BY <1>1, <1>2, <1>3, <1>4, <1>5, <1>6, <1>7, <1>8, <1>9, <1>10 DEF IInv

\* The winner's object is the slot's; the loser frees its own, which nobody has.
LEMMA CasStep ==
  ASSUME IInv, NEW t \in Threads, Cas(t)
  PROVE  IInv'
<1>i. \A p \in Objs : Inside(p)' = Inside(p)
  BY DEF IInv, CountExact, TypeOK, Inside, Cas, Goto, ghosts
<1>1. TypeOK'
  <2>1. CASE slot = "static"
    BY <2>1 DEF IInv, CountExact, TypeOK, CallShape, Pcs, Cas, Goto, ghosts
  <2>2. CASE slot # "static"
    <3>1. entry' = [entry EXCEPT ![obj[t]] = Unknown] /\ obj[t] \in Objs
      BY <2>2 DEF IInv, CallShape, Cas
    <3>2. slot \in Objs \union {"dead"}
      BY <2>2 DEF IInv, CountExact, TypeOK
    <3>3. QED
      BY <2>2, <3>1, <3>2, NewEntries, SMTT(30) DEF IInv, CountExact, TypeOK, Pcs, Ops, Calls, Cas,
         Goto, ghosts
  <2>3. QED
    BY <2>1, <2>2
<1>2. CountExact'
  <2> SUFFICES ASSUME slot' \in Objs
               PROVE  /\ entry'[slot'].known
                      /\ entry'[slot'].waiters = Cardinality(Inside(slot'))
    BY <1>1, <1>i DEF CountExact
  <2>1. CASE slot' = slot /\ entry'[slot] = entry[slot]
    BY <2>1 DEF IInv, CountExact
  <2>2. CASE slot' = obj[t] /\ entry' = entry
    <3>1. Users(obj[t]) = {t} /\ entry[obj[t]] \in {Fresh(c) : c \in Clocks}
      BY DEF IInv, MadeIsPrivate, Cas
    <3>2. Inside(obj[t]) = {}
      BY <3>1 DEF Inside, Users, Cas
    <3>3. entry[obj[t]].known /\ entry[obj[t]].waiters = 0
      <4>1. PICK c \in Clocks : entry[obj[t]] = Fresh(c)
        BY <3>1
      <4>2. QED
        BY <4>1 DEF Fresh
    <3>4. QED
      BY <2>2, <3>2, <3>3, FS_EmptySet
  <2>3. QED
    BY <2>1, <2>2 DEF IInv, CountExact, TypeOK, MadeIsPrivate, Cas, Goto, ghosts
<1>3. RetiredOnce'
  BY DEF IInv, CountExact, TypeOK, RetiredOnce, Retiring, MadeIsPrivate, Users,
     CallShape, Cas, Goto, ghosts
<1>4. CallShape'
  BY CondAssumption DEF IInv, CountExact, TypeOK, CallShape, Waiting, Cas, Goto, ghosts
<1>5. InitAlone'
  BY DEF IInv, CountExact, TypeOK, InitAlone, Cas, Goto, ghosts
<1>6. MadeIsPrivate'
  BY DEF IInv, CountExact, TypeOK, CallShape, MadeIsPrivate, Users, Cas, Goto, ghosts
<1>7. FreeIsUnused'
  BY DEF IInv, CountExact, TypeOK, RetiredOnce, MadeIsPrivate, FreeIsUnused, Users, Cas,
     Goto, ghosts
<1>8. CountBounded'
  BY <1>i, InsideIsFinite DEF IInv, CountExact, TypeOK, CountBounded, Unknown, Cas,
     Goto, ghosts
<1>9. ThroughExact'
  BY DEF IInv, CountExact, TypeOK, MadeIsPrivate, Users, ThroughExact, Waiting, Cas,
     Goto, ghosts
<1>10. GenerationExact'
  <2> SUFFICES ASSUME NEW u \in Threads, op'[u] = "timed", obj'[u] = slot'
               PROVE  /\ pc'[u] \in {"slice", "parked", "relock", "check"}
                            => gen0'[u] <= entry'[slot'].generation
                      /\ u \in owed' =>
                            /\ pc'[u] \in {"parked", "relock", "check", "leave"}
                            /\ pc'[u] # "leave" => gen0'[u] < entry'[slot'].generation
    <3>1. \A v \in owed' : pc'[v] \in Waiting
      BY DEF IInv, CountExact, TypeOK, GenerationExact, Waiting, Cas, Goto, ghosts
    <3>2. QED
      BY <3>1 DEF GenerationExact
  <2>1. CASE u = t
    BY <2>1 DEF IInv, CountExact, TypeOK, GenerationExact, Waiting, Cas, Goto, ghosts
  <2>2. CASE u # t
    <3>1. pc'[u] = pc[u] /\ op'[u] = op[u] /\ obj'[u] = obj[u] /\ gen0'[u] = gen0[u]
      BY <2>2 DEF IInv, CountExact, TypeOK, Cas, Goto, ghosts
    <3>2. u \in owed' => u \in owed
      BY <2>2 DEF Cas, Goto, ghosts
    <3>3. obj[u] = slot' /\ pc[u] \in Waiting => slot = slot' /\ entry'[slot'] = entry[slot]
      BY <2>2 DEF IInv, CountExact, TypeOK, CallShape, MadeIsPrivate, Users, Cas, Goto,
         ghosts
    <3>4. QED
      BY <3>1, <3>2, <3>3 DEF IInv, CountExact, TypeOK, GenerationExact, Waiting
  <2>3. QED
    BY <2>1, <2>2
<1>11. QED
  BY <1>1, <1>2, <1>3, <1>4, <1>5, <1>6, <1>7, <1>8, <1>9, <1>10 DEF IInv

\* k_cond_init publishes its object in a slot that is dead meanwhile.
LEMMA StoreStep ==
  ASSUME IInv, NEW t \in Threads, Store(t)
  PROVE  IInv'
<1>i. \A p \in Objs : Inside(p)' = Inside(p)
  BY DEF IInv, CountExact, TypeOK, Inside, Store, Return, Goto
<1>1. TypeOK'
  BY CondAssumption DEF IInv, CountExact, TypeOK, CallShape, Pcs, Ops, Calls, Store, Return,
     Goto
<1>2. CountExact'
  <2> SUFFICES ASSUME slot' \in Objs
               PROVE  /\ entry'[slot'].known
                      /\ entry'[slot'].waiters = Cardinality(Inside(slot'))
    BY <1>1, <1>i DEF CountExact
  <2>1. CASE slot' = slot /\ entry'[slot] = entry[slot]
    BY <2>1 DEF IInv, CountExact
  <2>2. CASE slot' = obj[t] /\ entry' = entry
    <3>1. Users(obj[t]) = {t} /\ entry[obj[t]] \in {Fresh(c) : c \in Clocks}
      BY DEF IInv, MadeIsPrivate, Store
    <3>2. Inside(obj[t]) = {}
      BY <3>1 DEF Inside, Users, Store
    <3>3. entry[obj[t]].known /\ entry[obj[t]].waiters = 0
      <4>1. PICK c \in Clocks : entry[obj[t]] = Fresh(c)
        BY <3>1
      <4>2. QED
        BY <4>1 DEF Fresh
    <3>4. QED
      BY <2>2, <3>2, <3>3, FS_EmptySet
  <2>3. QED
    BY <2>1, <2>2 DEF IInv, CountExact, TypeOK, Store, Return, Goto
<1>3. RetiredOnce'
  BY DEF IInv, CountExact, TypeOK, RetiredOnce, Retiring, MadeIsPrivate, Users, Store,
     Return, Goto
<1>4. CallShape'
  BY DEF IInv, CountExact, TypeOK, CallShape, Waiting, Store, Return, Goto
<1>5. InitAlone'
  BY DEF IInv, CountExact, TypeOK, CallShape, InitAlone, Store, Return, Goto
<1>6. MadeIsPrivate'
  BY CondAssumption DEF IInv, CountExact, TypeOK, CallShape, MadeIsPrivate, Users,
     Store, Return, Goto
<1>7. FreeIsUnused'
  BY CondAssumption DEF IInv, CountExact, TypeOK, FreeIsUnused, Users, Store, Return,
     Goto
<1>8. CountBounded'
  BY <1>i DEF IInv, CountExact, TypeOK, CountBounded, Store, Return, Goto
<1>9. ThroughExact'
  BY DEF IInv, CountExact, TypeOK, MadeIsPrivate, Users, ThroughExact, Store, Return,
     Goto
<1>10. GenerationExact'
  BY DEF IInv, CountExact, TypeOK, MadeIsPrivate, Users, GenerationExact, Store, Return,
     Goto
<1>11. QED
  BY <1>1, <1>2, <1>3, <1>4, <1>5, <1>6, <1>7, <1>8, <1>9, <1>10 DEF IInv

\* guest_cond_waiter_enter counts the thread where it becomes one inside.
LEMMA EnterStep ==
  ASSUME IInv, NEW t \in Threads, Enter(t)
  PROVE  IInv'
<1>o. obj[t] \in Objs /\ t \notin Inside(obj[t])
  BY DEF IInv, Inside, Enter
<1>i. \A p \in Objs : Inside(p)' = IF p = obj[t] THEN Inside(p) \union {t} ELSE Inside(p)
  BY <1>o DEF IInv, CountExact, TypeOK, Inside, Enter, Goto, locals, ghosts
<1>c. \A p \in Objs : Cardinality(Inside(p)')
                       = Cardinality(Inside(p)) + (IF p = obj[t] THEN 1 ELSE 0)
  BY <1>o, <1>i, InsideIsFinite, FS_AddElement
<1>n. /\ entry[obj[t]] \in Entries
      /\ entry' = [entry EXCEPT ![obj[t]] =
                    [known |-> TRUE, clock |-> entry[obj[t]].clock,
                     waiters |-> entry[obj[t]].waiters + 1,
                     generation |-> entry[obj[t]].generation]]
  BY <1>o DEF IInv, CountExact, TypeOK, Enter
<1>e. /\ \A p \in Objs : entry'[p].waiters
                       = entry[p].waiters + (IF p = obj[t] THEN 1 ELSE 0)
      /\ \A p \in Objs : entry'[p].generation = entry[p].generation
      /\ \A p \in Objs : entry[p].known => entry'[p].known
  BY <1>o, <1>n DEF IInv, CountExact, TypeOK, Entries
<1>1. TypeOK'
  <2>1. Cardinality(Inside(obj[t]) \union {t}) <= Cardinality(Threads)
    BY CondAssumption, FS_Subset DEF Inside
  <2>2. entry[obj[t]].waiters + 1 \in 0 .. Cardinality(Threads)
    <3>1. Cardinality(Inside(obj[t]) \union {t}) = Cardinality(Inside(obj[t])) + 1
      BY <1>o, InsideIsFinite, FS_AddElement
    <3>2. entry[obj[t]].waiters \in Nat /\ entry[obj[t]].waiters <= Cardinality(Inside(obj[t]))
      BY <1>o DEF IInv, CountExact, TypeOK, Entries, CountBounded
    <3>3. Cardinality(Inside(obj[t])) \in Nat
      BY InsideIsFinite
    <3>4. QED
      BY <2>1, <3>1, <3>2, <3>3, NewEntries
  <2>3. entry' \in [Objs -> Entries]
    BY <1>o, <1>n, <2>2 DEF IInv, CountExact, TypeOK, Entries
  <2>4. QED
    BY <2>3 DEF IInv, CountExact, TypeOK, Enter, Goto, Pcs, locals, ghosts
<1>2. CountExact'
  BY <1>1, <1>c, <1>e DEF IInv, CountExact, Enter
<1>3. RetiredOnce'
  BY DEF IInv, CountExact, TypeOK, RetiredOnce, Retiring, Enter, Goto, locals, ghosts
<1>4. CallShape'
  BY DEF IInv, CountExact, TypeOK, CallShape, Enter, Goto, locals, ghosts
<1>5. InitAlone'
  BY DEF IInv, CountExact, TypeOK, InitAlone, Enter, Goto, locals, ghosts
<1>6. MadeIsPrivate'
  BY DEF IInv, CountExact, TypeOK, MadeIsPrivate, Users, Enter, Goto, locals, ghosts
<1>7. FreeIsUnused'
  BY DEF IInv, CountExact, TypeOK, FreeIsUnused, Users, Enter, Goto, locals, ghosts
<1>8. CountBounded'
  BY <1>c, <1>e, InsideIsFinite DEF IInv, CountExact, TypeOK, Entries, CountBounded
<1>9. ThroughExact'
  BY DEF IInv, CountExact, TypeOK, ThroughExact, Waiting, Enter, Goto, locals, ghosts
<1>10. GenerationExact'
  BY DEF IInv, CountExact, TypeOK, GenerationExact, Waiting, Enter, Goto, locals, ghosts
<1>11. QED
  BY <1>1, <1>2, <1>3, <1>4, <1>5, <1>6, <1>7, <1>8, <1>9, <1>10 DEF IInv

\* A timed wait on the realtime clock goes to the host's wait, any other takes a snapshot.
LEMMA ReadClockStep ==
  ASSUME IInv, NEW t \in Threads, ReadClock(t)
  PROVE  IInv'
<1>i. \A p \in Objs : Inside(p)' = Inside(p)
  BY DEF IInv, CountExact, TypeOK, CallShape, Inside, ReadClock, Goto, memory, locals, ghosts
<1>1. TypeOK'
  BY DEF IInv, CountExact, TypeOK, CallShape, Waiting, Pcs, Ops, ReadClock, Goto, memory, locals,
     ghosts
<1>2. CountExact'
  BY <1>1, <1>i DEF IInv, CountExact, TypeOK, ReadClock, Goto, memory, locals, ghosts
<1>3. RetiredOnce'
  BY DEF IInv, CountExact, TypeOK, RetiredOnce, Retiring, ReadClock, Goto, memory, locals, ghosts
<1>4. CallShape'
  BY DEF IInv, CountExact, TypeOK, CallShape, Waiting, ReadClock, Goto, memory, locals, ghosts
<1>5. InitAlone'
  BY DEF IInv, CountExact, TypeOK, InitAlone, ReadClock, Goto, memory, locals, ghosts
<1>6. MadeIsPrivate'
  BY DEF IInv, CountExact, TypeOK, MadeIsPrivate, Users, ReadClock, Goto, memory, locals, ghosts
<1>7. FreeIsUnused'
  BY DEF IInv, CountExact, TypeOK, FreeIsUnused, Users, ReadClock, Goto, memory, locals, ghosts
<1>8. CountBounded'
  BY <1>i DEF IInv, CountExact, TypeOK, CountBounded, ReadClock, Goto, memory, locals, ghosts
<1>9. ThroughExact'
  BY DEF IInv, CountExact, TypeOK, ThroughExact, Waiting, ReadClock, Goto, memory, locals, ghosts
<1>10. GenerationExact'
  BY DEF IInv, CountExact, TypeOK, CallShape, GenerationExact, Waiting, ReadClock, Goto,
     memory, locals, ghosts
<1>11. QED
  BY <1>1, <1>2, <1>3, <1>4, <1>5, <1>6, <1>7, <1>8, <1>9, <1>10 DEF IInv

\* A timed wait notes the generation its object has now.
LEMMA SnapshotStep ==
  ASSUME IInv, NEW t \in Threads, Snapshot(t)
  PROVE  IInv'
<1>i. \A p \in Objs : Inside(p)' = Inside(p)
  BY DEF IInv, CountExact, TypeOK, Inside, Snapshot, Goto, memory, ghosts
<1>1. TypeOK'
  BY DEF IInv, CountExact, TypeOK, CallShape, Waiting, Pcs, Entries, Snapshot, Goto, memory,
     ghosts
<1>2. CountExact'
  BY <1>1, <1>i DEF IInv, CountExact, TypeOK, Snapshot, Goto, memory, ghosts
<1>3. RetiredOnce'
  BY DEF IInv, CountExact, TypeOK, RetiredOnce, Retiring, Snapshot, Goto, memory, ghosts
<1>4. CallShape'
  BY DEF IInv, CountExact, TypeOK, CallShape, Waiting, Snapshot, Goto, memory, ghosts
<1>5. InitAlone'
  BY DEF IInv, CountExact, TypeOK, InitAlone, Snapshot, Goto, memory, ghosts
<1>6. MadeIsPrivate'
  BY DEF IInv, CountExact, TypeOK, MadeIsPrivate, Users, Snapshot, Goto, memory, ghosts
<1>7. FreeIsUnused'
  BY DEF IInv, CountExact, TypeOK, FreeIsUnused, Users, Snapshot, Goto, memory, ghosts
<1>8. CountBounded'
  BY <1>i DEF IInv, CountExact, TypeOK, CountBounded, Snapshot, Goto, memory, ghosts
<1>9. ThroughExact'
  BY DEF IInv, CountExact, TypeOK, ThroughExact, Waiting, Snapshot, Goto, memory, ghosts
<1>10. GenerationExact'
  BY DEF IInv, CountExact, TypeOK, CallShape, Entries, GenerationExact, Waiting, Snapshot, Goto,
     memory, ghosts
<1>11. QED
  BY <1>1, <1>2, <1>3, <1>4, <1>5, <1>6, <1>7, <1>8, <1>9, <1>10 DEF IInv

\* The wait sleeps and gives the mutex up.
LEMMA ParkStep ==
  ASSUME IInv, NEW t \in Threads, Park(t)
  PROVE  IInv'
<1>i. \A p \in Objs : Inside(p)' = Inside(p)
  BY DEF IInv, CountExact, TypeOK, Inside, Park, Goto, memory, locals, ghosts
<1>1. TypeOK'
  BY DEF IInv, CountExact, TypeOK, Pcs, Park, Goto, memory, locals, ghosts
<1>2. CountExact'
  BY <1>1, <1>i DEF IInv, CountExact, TypeOK, Park, Goto, memory, locals, ghosts
<1>3. RetiredOnce'
  BY DEF IInv, CountExact, TypeOK, RetiredOnce, Retiring, Park, Goto, memory, locals,
     ghosts
<1>4. CallShape'
  BY DEF IInv, CountExact, TypeOK, CallShape, Waiting, Park, Goto, memory, locals,
     ghosts
<1>5. InitAlone'
  BY DEF IInv, CountExact, TypeOK, InitAlone, Park, Goto, memory, locals, ghosts
<1>6. MadeIsPrivate'
  BY DEF IInv, CountExact, TypeOK, MadeIsPrivate, Users, Park, Goto, memory, locals,
     ghosts
<1>7. FreeIsUnused'
  BY DEF IInv, CountExact, TypeOK, FreeIsUnused, Users, Park, Goto, memory, locals,
     ghosts
<1>8. CountBounded'
  BY <1>i DEF IInv, CountExact, TypeOK, CountBounded, Park, Goto, memory, locals, ghosts
<1>9. ThroughExact'
  BY DEF IInv, CountExact, TypeOK, ThroughExact, Waiting, Park, Goto, memory, locals,
     ghosts
<1>10. GenerationExact'
  BY DEF IInv, CountExact, TypeOK, GenerationExact, Waiting, Park, Goto, memory, locals,
     ghosts
<1>11. QED
  BY <1>1, <1>2, <1>3, <1>4, <1>5, <1>6, <1>7, <1>8, <1>9, <1>10 DEF IInv

\* The host's wait ends with no signal.
LEMMA WaitEndsStep ==
  ASSUME IInv, NEW t \in Threads, WaitEnds(t)
  PROVE  IInv'
<1>i. \A p \in Objs : Inside(p)' = Inside(p)
  BY DEF IInv, CountExact, TypeOK, Inside, WaitEnds, Goto, memory, ghosts
<1>1. TypeOK'
  BY DEF IInv, CountExact, TypeOK, Pcs, WaitEnds, Goto, memory, ghosts
<1>2. CountExact'
  BY <1>1, <1>i DEF IInv, CountExact, TypeOK, WaitEnds, Goto, memory, ghosts
<1>3. RetiredOnce'
  BY DEF IInv, CountExact, TypeOK, RetiredOnce, Retiring, WaitEnds, Goto, memory,
     ghosts
<1>4. CallShape'
  BY DEF IInv, CountExact, TypeOK, CallShape, Waiting, WaitEnds, Goto, memory, ghosts
<1>5. InitAlone'
  BY DEF IInv, CountExact, TypeOK, InitAlone, WaitEnds, Goto, memory, ghosts
<1>6. MadeIsPrivate'
  BY DEF IInv, CountExact, TypeOK, MadeIsPrivate, Users, WaitEnds, Goto, memory, ghosts
<1>7. FreeIsUnused'
  BY DEF IInv, CountExact, TypeOK, FreeIsUnused, Users, WaitEnds, Goto, memory, ghosts
<1>8. CountBounded'
  BY <1>i DEF IInv, CountExact, TypeOK, CountBounded, WaitEnds, Goto, memory, ghosts
<1>9. ThroughExact'
  BY DEF IInv, CountExact, TypeOK, ThroughExact, Waiting, WaitEnds, Goto, memory,
     ghosts
<1>10. GenerationExact'
  BY DEF IInv, CountExact, TypeOK, GenerationExact, Waiting, WaitEnds, Goto, memory,
     ghosts
<1>11. QED
  BY <1>1, <1>2, <1>3, <1>4, <1>5, <1>6, <1>7, <1>8, <1>9, <1>10 DEF IInv

\* The host's wait takes the mutex back.
LEMMA RelockStep ==
  ASSUME IInv, NEW t \in Threads, Relock(t)
  PROVE  IInv'
<1>i. \A p \in Objs : Inside(p)' = Inside(p)
  BY DEF IInv, CountExact, TypeOK, Inside, Relock, Goto, memory, locals, ghosts
<1>1. TypeOK'
  BY DEF IInv, CountExact, TypeOK, Pcs, Relock, Goto, memory, locals, ghosts
<1>2. CountExact'
  BY <1>1, <1>i DEF IInv, CountExact, TypeOK, Relock, Goto, memory, locals, ghosts
<1>3. RetiredOnce'
  BY DEF IInv, CountExact, TypeOK, RetiredOnce, Retiring, Relock, Goto, memory, locals,
     ghosts
<1>4. CallShape'
  BY DEF IInv, CountExact, TypeOK, CallShape, Waiting, Relock, Goto, memory, locals,
     ghosts
<1>5. InitAlone'
  BY DEF IInv, CountExact, TypeOK, InitAlone, Relock, Goto, memory, locals, ghosts
<1>6. MadeIsPrivate'
  BY DEF IInv, CountExact, TypeOK, MadeIsPrivate, Users, Relock, Goto, memory, locals,
     ghosts
<1>7. FreeIsUnused'
  BY DEF IInv, CountExact, TypeOK, FreeIsUnused, Users, Relock, Goto, memory, locals,
     ghosts
<1>8. CountBounded'
  BY <1>i DEF IInv, CountExact, TypeOK, CountBounded, Relock, Goto, memory, locals,
     ghosts
<1>9. ThroughExact'
  BY DEF IInv, CountExact, TypeOK, ThroughExact, Waiting, Relock, Goto, memory, locals,
     ghosts
<1>10. GenerationExact'
  BY DEF IInv, CountExact, TypeOK, GenerationExact, Waiting, Relock, Goto, memory,
     locals, ghosts
<1>11. QED
  BY <1>1, <1>2, <1>3, <1>4, <1>5, <1>6, <1>7, <1>8, <1>9, <1>10 DEF IInv

\* A wait whose generation has passed leaves; none that a broadcast owes stays.
LEMMA CheckStep ==
  ASSUME IInv, NEW t \in Threads, Check(t)
  PROVE  IInv'
<1>i. \A p \in Objs : Inside(p)' = Inside(p)
  BY DEF IInv, CountExact, TypeOK, Inside, Check, Goto, memory, ghosts
<1>1. TypeOK'
  BY DEF IInv, CountExact, TypeOK, Pcs, Check, Goto, memory, ghosts
<1>2. CountExact'
  BY <1>1, <1>i DEF IInv, CountExact, TypeOK, Check, Goto, memory, ghosts
<1>3. RetiredOnce'
  BY DEF IInv, CountExact, TypeOK, RetiredOnce, Retiring, Check, Goto, memory, ghosts
<1>4. CallShape'
  BY DEF IInv, CountExact, TypeOK, CallShape, Waiting, Check, Goto, memory, ghosts
<1>5. InitAlone'
  BY DEF IInv, CountExact, TypeOK, InitAlone, Check, Goto, memory, ghosts
<1>6. MadeIsPrivate'
  BY DEF IInv, CountExact, TypeOK, MadeIsPrivate, Users, Check, Goto, memory, ghosts
<1>7. FreeIsUnused'
  BY DEF IInv, CountExact, TypeOK, FreeIsUnused, Users, Check, Goto, memory, ghosts
<1>8. CountBounded'
  BY <1>i DEF IInv, CountExact, TypeOK, CountBounded, Check, Goto, memory, ghosts
<1>9. ThroughExact'
  BY DEF IInv, CountExact, TypeOK, ThroughExact, Waiting, Check, Goto, memory, ghosts
<1>10. GenerationExact'
  BY DEF IInv, CountExact, TypeOK, GenerationExact, Waiting, Check, Goto, memory, ghosts
<1>11. QED
  BY <1>1, <1>2, <1>3, <1>4, <1>5, <1>6, <1>7, <1>8, <1>9, <1>10 DEF IInv

\* A wait that reports ETIMEDOUT owes nothing to a broadcast.
LEMMA ExpireStep ==
  ASSUME IInv, NEW t \in Threads, Expire(t)
  PROVE  IInv'
<1>i. \A p \in Objs : Inside(p)' = Inside(p)
  BY DEF IInv, CountExact, TypeOK, Inside, Expire, Goto, memory, ghosts
<1>1. TypeOK'
  BY DEF IInv, CountExact, TypeOK, Pcs, Expire, Goto, memory, ghosts
<1>2. CountExact'
  BY <1>1, <1>i DEF IInv, CountExact, TypeOK, Expire, Goto, memory, ghosts
<1>3. RetiredOnce'
  BY DEF IInv, CountExact, TypeOK, RetiredOnce, Retiring, Expire, Goto, memory, ghosts
<1>4. CallShape'
  BY DEF IInv, CountExact, TypeOK, CallShape, Waiting, Expire, Goto, memory, ghosts
<1>5. InitAlone'
  BY DEF IInv, CountExact, TypeOK, InitAlone, Expire, Goto, memory, ghosts
<1>6. MadeIsPrivate'
  BY DEF IInv, CountExact, TypeOK, MadeIsPrivate, Users, Expire, Goto, memory, ghosts
<1>7. FreeIsUnused'
  BY DEF IInv, CountExact, TypeOK, FreeIsUnused, Users, Expire, Goto, memory, ghosts
<1>8. CountBounded'
  BY <1>i DEF IInv, CountExact, TypeOK, CountBounded, Expire, Goto, memory, ghosts
<1>9. ThroughExact'
  BY DEF IInv, CountExact, TypeOK, ThroughExact, Waiting, Expire, Goto, memory, ghosts
<1>10. GenerationExact'
  BY DEF IInv, CountExact, TypeOK, GenerationExact, Waiting, Expire, Goto, memory,
     ghosts
<1>11. QED
  BY <1>1, <1>2, <1>3, <1>4, <1>5, <1>6, <1>7, <1>8, <1>9, <1>10 DEF IInv

\* guest_cond_waiter_leave counts out a thread it has counted in.
LEMMA LeaveStep ==
  ASSUME IInv, NEW t \in Threads, Leave(t)
  PROVE  IInv'
<1>o. obj[t] \in Objs /\ t \in Inside(obj[t])
  BY DEF IInv, CallShape, Inside, Waiting, Leave
<1>i. \A p \in Objs : Inside(p)' = IF p = obj[t] THEN Inside(p) \ {t} ELSE Inside(p)
  BY <1>o DEF IInv, CountExact, TypeOK, Inside, Leave, Return, Goto
<1>c. \A p \in Objs : Cardinality(Inside(p)')
                       = Cardinality(Inside(p)) - (IF p = obj[t] THEN 1 ELSE 0)
  BY <1>o, <1>i, InsideIsFinite, FS_RemoveElement
<1>p. Cardinality(Inside(obj[t])) > 0
  BY <1>o, InsideIsFinite, FS_EmptySet
<1>e. \A p \in Objs :
        /\ entry'[p].waiters = IF p = obj[t] /\ entry[p].waiters > 0
                                THEN entry[p].waiters - 1 ELSE entry[p].waiters
        /\ entry'[p].known = entry[p].known
        /\ entry'[p].generation = entry[p].generation
  BY <1>o DEF IInv, CountExact, TypeOK, Entries, Leave
<1>1. TypeOK'
  <2>1. entry' \in [Objs -> Entries]
    BY <1>o, NewEntries DEF IInv, CountExact, TypeOK, Entries, Leave
  <2>2. QED
    BY <2>1, ReturnTypes DEF IInv, CountExact, TypeOK, Leave
<1>2. CountExact'
  BY <1>1, <1>c, <1>e, <1>p DEF IInv, CountExact, TypeOK, Entries, Leave
<1>3. RetiredOnce'
  BY DEF IInv, CountExact, TypeOK, RetiredOnce, Retiring, Leave, Return, Goto
<1>4. CallShape'
  BY DEF IInv, CountExact, TypeOK, CallShape, Waiting, Leave, Return, Goto
<1>5. InitAlone'
  BY DEF IInv, CountExact, TypeOK, InitAlone, Leave, Return, Goto
<1>6. MadeIsPrivate'
  BY CondAssumption DEF IInv, CountExact, TypeOK, CallShape, MadeIsPrivate, Users,
     Leave, Return, Goto
<1>7. FreeIsUnused'
  BY CondAssumption DEF IInv, CountExact, TypeOK, FreeIsUnused, Users, Leave, Return,
     Goto
<1>8. CountBounded'
  BY <1>c, <1>e, <1>p, InsideIsFinite DEF IInv, CountExact, TypeOK, Entries, CountBounded
<1>9. ThroughExact'
  BY DEF IInv, CountExact, TypeOK, ThroughExact, Leave, Return, Goto
<1>10. GenerationExact'
  BY DEF IInv, CountExact, TypeOK, GenerationExact, Leave, Return, Goto
<1>11. QED
  BY <1>1, <1>2, <1>3, <1>4, <1>5, <1>6, <1>7, <1>8, <1>9, <1>10 DEF IInv

\* A broadcast makes the generation of every wait inside an old one.
LEMMA AdvanceStep ==
  ASSUME IInv, NEW t \in Threads, Advance(t)
  PROVE  IInv'
<1>i. \A p \in Objs : Inside(p)' = Inside(p)
  BY DEF IInv, CountExact, TypeOK, Inside, Advance, Goto, Owe, locals
<1>1. TypeOK'
  <2>1. owed' \subseteq Threads
    BY DEF IInv, CountExact, TypeOK, Advance, Owe, Inside
  <2>2. entry' \in [Objs -> Entries]
    BY CondAssumption DEF IInv, CountExact, TypeOK, Entries, Advance
  <2>3. QED
    BY <2>1, <2>2 DEF IInv, CountExact, TypeOK, Pcs, Advance, Goto, locals
<1>2. CountExact'
  BY <1>1, <1>i DEF IInv, CountExact, TypeOK, Advance, Goto, Owe, locals
<1>3. RetiredOnce'
  BY DEF IInv, CountExact, TypeOK, RetiredOnce, Retiring, Advance, Goto, Owe, locals
<1>4. CallShape'
  BY DEF IInv, CountExact, TypeOK, CallShape, Waiting, Advance, Goto, Owe, locals
<1>5. InitAlone'
  BY DEF IInv, CountExact, TypeOK, InitAlone, Advance, Goto, Owe, locals
<1>6. MadeIsPrivate'
  BY DEF IInv, CountExact, TypeOK, MadeIsPrivate, Users, Advance, Goto, Owe, locals
<1>7. FreeIsUnused'
  BY DEF IInv, CountExact, TypeOK, FreeIsUnused, Users, Advance, Goto, Owe, locals
<1>8. CountBounded'
  BY <1>i DEF IInv, CountExact, TypeOK, CountBounded, Advance, Goto, Owe, locals
<1>9. ThroughExact'
  BY DEF IInv, CountExact, TypeOK, ThroughExact, Waiting, Advance, Goto, Owe, locals
<1>10. GenerationExact'
  <2>1. \A v \in owed' : pc'[v] \in Waiting
    BY DEF IInv, CountExact, TypeOK, GenerationExact, Waiting, Advance, Owe, Goto
  <2> SUFFICES ASSUME NEW u \in Threads, op[u] = "timed", obj[u] = slot
               PROVE  /\ pc'[u] \in {"slice", "parked", "relock", "check"}
                            => gen0[u] <= entry'[slot].generation
                      /\ u \in owed' =>
                            /\ pc'[u] \in {"parked", "relock", "check", "leave"}
                            /\ pc'[u] # "leave" => gen0[u] < entry'[slot].generation
    BY <2>1 DEF GenerationExact, Advance, locals
  <2>2. u # t /\ pc'[u] = pc[u]
    BY DEF IInv, CountExact, TypeOK, Advance, Goto
  <2>3. CASE slot \in Objs /\ obj[t] = slot
    <3>1. entry'[slot].generation = entry[slot].generation + 1
      BY <2>3 DEF IInv, CountExact, TypeOK, Advance
    <3>2. gen0[u] \in Nat /\ entry[slot].generation \in Nat
      BY <2>3 DEF IInv, CountExact, TypeOK, Entries
    <3>3. u \in owed' => u \in owed \/ pc[u] \in {"parked", "relock"}
      BY DEF Advance, Owe
    <3>4. QED
      BY <2>2, <3>1, <3>2, <3>3 DEF IInv, GenerationExact
  <2>4. CASE ~(slot \in Objs /\ obj[t] = slot)
    <3>1. entry'[slot].generation = entry[slot].generation \/ slot \notin Objs
      BY <2>4 DEF IInv, CountExact, TypeOK, Advance
    <3>2. u \in owed' => u \in owed
      BY <2>4 DEF Advance, Owe, Inside
    <3>3. slot \notin Objs => pc[u] \notin Waiting
      BY DEF IInv, CallShape
    <3>4. QED
      BY <2>2, <3>1, <3>2, <3>3, <2>1 DEF IInv, GenerationExact, Waiting
  <2>5. QED
    BY <2>3, <2>4
<1>11. QED
  BY <1>1, <1>2, <1>3, <1>4, <1>5, <1>6, <1>7, <1>8, <1>9, <1>10 DEF IInv

\* The host's wake-up moves parked threads, inside the same wait.
LEMMA HostWakeStep ==
  ASSUME IInv, NEW t \in Threads, HostWake(t)
  PROVE  IInv'
<1>i. \A p \in Objs : Inside(p)' = Inside(p)
  BY DEF IInv, CountExact, TypeOK, Inside, HostWake, Woken, Parked, memory, ghosts
<1>1. TypeOK'
  BY DEF IInv, CountExact, TypeOK, Pcs, Ops, Calls, HostWake, memory, ghosts
<1>2. CountExact'
  BY <1>1, <1>i DEF IInv, CountExact, TypeOK, HostWake, memory, ghosts
<1>3. RetiredOnce'
  BY DEF IInv, CountExact, TypeOK, RetiredOnce, Retiring, HostWake, memory, ghosts
<1>4. CallShape'
  BY DEF IInv, CountExact, TypeOK, CallShape, Waiting, HostWake, Woken, Parked, memory,
     ghosts
<1>5. InitAlone'
  BY DEF IInv, CountExact, TypeOK, InitAlone, HostWake, memory, ghosts
<1>6. MadeIsPrivate'
  BY CondAssumption DEF IInv, CountExact, TypeOK, CallShape, MadeIsPrivate, Users,
     HostWake, memory, ghosts
<1>7. FreeIsUnused'
  BY CondAssumption DEF IInv, CountExact, TypeOK, FreeIsUnused, Users, HostWake, memory,
     ghosts
<1>8. CountBounded'
  BY <1>i DEF IInv, CountExact, TypeOK, CountBounded, HostWake, memory, ghosts
<1>9. ThroughExact'
  BY DEF IInv, CountExact, TypeOK, ThroughExact, Waiting, HostWake, memory, ghosts
<1>10. GenerationExact'
  BY DEF IInv, CountExact, TypeOK, GenerationExact, Waiting, HostWake, Woken, Parked,
     memory, ghosts
<1>11. QED
  BY <1>1, <1>2, <1>3, <1>4, <1>5, <1>6, <1>7, <1>8, <1>9, <1>10 DEF IInv

\* pt_peek_slot: the destroy looks at the object the slot holds now.
LEMMA PeekStep ==
  ASSUME IInv, NEW t \in Threads, Peek(t)
  PROVE  IInv'
<1>i. \A p \in Objs : Inside(p)' = Inside(p)
  BY DEF IInv, CountExact, TypeOK, Inside, Peek, Goto, memory, ghosts
<1>1. TypeOK'
  BY CondAssumption DEF IInv, CountExact, TypeOK, CallShape, Waiting, Pcs, Ops, Calls, Peek,
     Goto, memory, ghosts
<1>2. CountExact'
  BY <1>1, <1>i DEF IInv, CountExact, TypeOK, Peek, Goto, memory, ghosts
<1>3. RetiredOnce'
  BY CondAssumption DEF IInv, CountExact, TypeOK, RetiredOnce, Retiring, Peek, Goto,
     memory, ghosts
<1>4. CallShape'
  BY DEF IInv, CountExact, TypeOK, CallShape, Waiting, Peek, Goto, memory, ghosts
<1>5. InitAlone'
  BY DEF IInv, CountExact, TypeOK, InitAlone, Peek, Goto, memory, ghosts
<1>6. MadeIsPrivate'
  BY DEF IInv, CountExact, TypeOK, MadeIsPrivate, Users, Peek, Goto, memory, ghosts
<1>7. FreeIsUnused'
  BY DEF IInv, CountExact, TypeOK, RetiredOnce, FreeIsUnused, Users, Peek, Goto, memory,
     ghosts
<1>8. CountBounded'
  BY <1>i DEF IInv, CountExact, TypeOK, CountBounded, Peek, Goto, memory, ghosts
<1>9. ThroughExact'
  BY DEF IInv, CountExact, TypeOK, CallShape, ThroughExact, Waiting, Peek, Goto, memory,
     ghosts
<1>10. GenerationExact'
  BY CondAssumption DEF IInv, CountExact, TypeOK, CallShape, GenerationExact, Waiting,
     Peek, Goto, memory, ghosts
<1>11. QED
  BY <1>1, <1>2, <1>3, <1>4, <1>5, <1>6, <1>7, <1>8, <1>9, <1>10 DEF IInv

\* The busy check of guest_cond_destroy_slot: with a count of zero nobody who waited
\* when the destroy was called is inside the slot's object.
LEMMA LookStep ==
  ASSUME IInv, NEW t \in Threads, Look(t)
  PROVE  IInv'
<1>i. \A p \in Objs : Inside(p)' = Inside(p)
  BY DEF IInv, CountExact, TypeOK, Inside, Look, Return, Goto, memory, locals, ghosts
<1>1. TypeOK'
  <2>1. CASE Return(t)
    BY <2>1, ReturnTypes DEF IInv, CountExact, TypeOK, Look, memory, locals, ghosts
  <2>2. CASE ~Return(t)
    BY <2>2 DEF IInv, CountExact, TypeOK, Pcs, Look, Goto, memory, locals, ghosts
  <2>3. QED
    BY <2>1, <2>2
<1>2. CountExact'
  BY <1>1, <1>i DEF IInv, CountExact, TypeOK, Look, Return, Goto, memory, locals, ghosts
<1>3. RetiredOnce'
  BY DEF IInv, CountExact, TypeOK, RetiredOnce, Retiring, Look, Return, Goto, memory,
     locals, ghosts
<1>4. CallShape'
  BY CondAssumption DEF IInv, CountExact, TypeOK, CallShape, Waiting, Look, Return,
     Goto, memory, locals, ghosts
<1>5. InitAlone'
  BY DEF IInv, CountExact, TypeOK, InitAlone, Look, Return, Goto, memory, locals, ghosts
<1>6. MadeIsPrivate'
  BY CondAssumption DEF IInv, CountExact, TypeOK, CallShape, MadeIsPrivate, Users, Look,
     Return, Goto, memory, locals, ghosts
<1>7. FreeIsUnused'
  BY CondAssumption DEF IInv, CountExact, TypeOK, FreeIsUnused, Users, Look, Return,
     Goto, memory, locals, ghosts
<1>8. CountBounded'
  BY <1>i DEF IInv, CountExact, TypeOK, CountBounded, Look, Return, Goto, memory,
     locals, ghosts
<1>9. ThroughExact'
  <2>1. CASE Return(t)
    BY <2>1 DEF IInv, CountExact, TypeOK, ThroughExact, Look, Return, Goto, memory,
       locals, ghosts
  <2>2. CASE ~Return(t)
    <3>1. obj[t] \in Objs /\ ~(entry[obj[t]].waiters > 0)
      BY <2>2 DEF IInv, CallShape, Look
    <3>2. slot = obj[t] => Inside(slot) = {}
      <4> HAVE slot = obj[t]
      <4>1. Cardinality(Inside(slot)) \in Nat /\ ~(Cardinality(Inside(slot)) > 0)
        BY <3>1, InsideIsFinite DEF IInv, CountExact
      <4>2. QED
        BY <4>1, InsideIsFinite, FS_EmptySet
    <3>3. \A u \in through[t] : obj[u] # slot
      BY <3>1, <3>2 DEF IInv, CountExact, TypeOK, CallShape, ThroughExact, Inside,
         Waiting, Look
    <3>4. QED
      BY <2>2, <3>3 DEF IInv, CountExact, TypeOK, ThroughExact, Waiting, Look, Goto,
         memory, locals, ghosts
  <2>3. QED
    BY <2>1, <2>2
<1>10. GenerationExact'
  BY DEF IInv, CountExact, TypeOK, GenerationExact, Waiting, Look, Return, Goto, memory,
     locals, ghosts
<1>11. QED
  BY <1>1, <1>2, <1>3, <1>4, <1>5, <1>6, <1>7, <1>8, <1>9, <1>10 DEF IInv

\* pt_claim_slot: the object leaves the slot with whoever claims it.
LEMMA ClaimStep ==
  ASSUME IInv, NEW t \in Threads, Claim(t)
  PROVE  IInv'
<1>i. \A p \in Objs : Inside(p)' = Inside(p)
  BY DEF IInv, CountExact, TypeOK, Inside, Claim, Return, Goto, ghosts
<1>1. TypeOK'
  <2>1. CASE Return(t)
    BY <2>1, ReturnTypes DEF IInv, CountExact, TypeOK, Claim, ghosts
  <2>2. CASE ~Return(t)
    BY <2>2, CondAssumption, SMTT(30) DEF IInv, CountExact, TypeOK, CallShape, Pcs, Ops, Calls, Claim,
       Goto, ghosts
  <2>3. QED
    BY <2>1, <2>2
<1>2. CountExact'
  BY <1>1, <1>i, CondAssumption DEF IInv, CountExact, TypeOK, Claim, Return, Goto,
     ghosts
<1>3. RetiredOnce'
  BY CondAssumption DEF IInv, CountExact, TypeOK, RetiredOnce, Retiring, CallShape,
     Claim, Return, Goto, ghosts
<1>4. CallShape'
  BY DEF IInv, CountExact, TypeOK, CallShape, Waiting, Claim, Return, Goto, ghosts
<1>5. InitAlone'
  BY DEF IInv, CountExact, TypeOK, InitAlone, Claim, Return, Goto, ghosts
<1>6. MadeIsPrivate'
  BY CondAssumption DEF IInv, CountExact, TypeOK, CallShape, MadeIsPrivate, Users,
     Claim, Return, Goto, ghosts
<1>7. FreeIsUnused'
  BY CondAssumption DEF IInv, CountExact, TypeOK, RetiredOnce, FreeIsUnused, Users,
     Claim, Return, Goto, ghosts
<1>8. CountBounded'
  BY <1>i DEF IInv, CountExact, TypeOK, CountBounded, Claim, Return, Goto, ghosts
<1>9. ThroughExact'
  <2> SUFFICES ASSUME NEW d \in Threads, NEW u \in through'[d]
               PROVE  /\ pc'[u] \in Waiting
                      /\ pc'[d] = "look" /\ obj'[u] = slot' => obj'[d] = slot'
                      /\ pc'[d] = "claim" => obj'[u] # slot'
    BY DEF ThroughExact
  <2>1. u \in Threads /\ u \in through[d]
    BY <1>1 DEF IInv, CountExact, TypeOK, Claim, Return, ghosts
  <2>2. pc[u] \in Waiting /\ obj[u] \in Objs
    BY <2>1 DEF IInv, ThroughExact, CallShape
  <2>3. u # t /\ pc'[u] = pc[u] /\ obj'[u] = obj[u]
    BY <2>1, <2>2 DEF IInv, CountExact, TypeOK, Waiting, Claim, Return, Goto
  <2>4. slot' # obj[u]
    BY <2>2, CondAssumption DEF Claim
  <2>5. QED
    BY <2>2, <2>3, <2>4
<1>10. GenerationExact'
  <2> SUFFICES ASSUME NEW u \in Threads, op'[u] = "timed", obj'[u] = slot'
               PROVE  /\ pc'[u] \in {"slice", "parked", "relock", "check"}
                            => gen0'[u] <= entry'[slot'].generation
                      /\ u \in owed' =>
                            /\ pc'[u] \in {"parked", "relock", "check", "leave"}
                            /\ pc'[u] # "leave" => gen0'[u] < entry'[slot'].generation
    <3>1. \A v \in owed' : pc'[v] \in Waiting
      BY DEF IInv, CountExact, TypeOK, GenerationExact, Waiting, Claim, Return, Goto,
         ghosts
    <3>2. QED
      BY <3>1 DEF GenerationExact
  <2>1. CASE u = t
    BY <2>1, CondAssumption DEF IInv, CountExact, TypeOK, Claim, Return, Goto, ghosts
  <2>2. CASE u # t
    <3>1. pc'[u] = pc[u] /\ op'[u] = op[u] /\ obj'[u] = obj[u] /\ gen0'[u] = gen0[u]
      BY <2>2 DEF IInv, CountExact, TypeOK, Claim, Return, Goto, ghosts
    <3>2. u \in owed' => u \in owed
      BY <2>2 DEF Claim, Return, Goto, ghosts
    <3>3. obj[u] = slot' /\ pc[u] \in Waiting => slot = slot' /\ entry'[slot'] = entry[slot]
      BY <2>2, CondAssumption DEF IInv, CountExact, TypeOK, CallShape, Claim, Return,
         Goto, ghosts
    <3>4. QED
      BY <3>1, <3>2, <3>3 DEF IInv, CountExact, TypeOK, GenerationExact, Waiting
  <2>3. QED
    BY <2>1, <2>2
<1>11. QED
  BY <1>1, <1>2, <1>3, <1>4, <1>5, <1>6, <1>7, <1>8, <1>9, <1>10 DEF IInv

\* guest_cond_unregister: the entry goes, of an object that has left the slot.
LEMMA ForgetStep ==
  ASSUME IInv, NEW t \in Threads, Forget(t)
  PROVE  IInv'
<1>i. \A p \in Objs : Inside(p)' = Inside(p)
  BY DEF IInv, CountExact, TypeOK, Inside, Forget, Goto, locals, ghosts
<1>1. TypeOK'
  BY NewEntries DEF IInv, CountExact, TypeOK, Pcs, Forget, Goto, locals, ghosts
<1>2. CountExact'
  BY <1>1, <1>i DEF IInv, CountExact, TypeOK, RetiredOnce, Retiring, Forget, Goto,
     locals, ghosts
<1>3. RetiredOnce'
  BY DEF IInv, CountExact, TypeOK, RetiredOnce, Retiring, Forget, Goto, locals, ghosts
<1>4. CallShape'
  BY DEF IInv, CountExact, TypeOK, CallShape, Waiting, Forget, Goto, locals, ghosts
<1>5. InitAlone'
  BY DEF IInv, CountExact, TypeOK, InitAlone, Forget, Goto, locals, ghosts
<1>6. MadeIsPrivate'
  BY DEF IInv, CountExact, TypeOK, MadeIsPrivate, Users, Forget, Goto, locals, ghosts
<1>7. FreeIsUnused'
  BY DEF IInv, CountExact, TypeOK, FreeIsUnused, Users, Forget, Goto, locals, ghosts
<1>8. CountBounded'
  BY <1>i, InsideIsFinite DEF IInv, CountExact, TypeOK, CountBounded, Unknown, Forget,
     Goto, locals, ghosts
<1>9. ThroughExact'
  BY DEF IInv, CountExact, TypeOK, ThroughExact, Waiting, Forget, Goto, locals, ghosts
<1>10. GenerationExact'
  <2> SUFFICES ASSUME NEW u \in Threads, op'[u] = "timed", obj'[u] = slot'
               PROVE  /\ pc'[u] \in {"slice", "parked", "relock", "check"}
                            => gen0'[u] <= entry'[slot'].generation
                      /\ u \in owed' =>
                            /\ pc'[u] \in {"parked", "relock", "check", "leave"}
                            /\ pc'[u] # "leave" => gen0'[u] < entry'[slot'].generation
    <3>1. \A v \in owed' : pc'[v] \in Waiting
      BY DEF IInv, CountExact, TypeOK, GenerationExact, Waiting, Forget, Goto, locals,
         ghosts
    <3>2. QED
      BY <3>1 DEF GenerationExact
  <2>1. CASE u = t
    BY <2>1 DEF IInv, CountExact, TypeOK, GenerationExact, Forget, Goto, locals, ghosts
  <2>2. CASE u # t
    <3>1. pc'[u] = pc[u] /\ op'[u] = op[u] /\ obj'[u] = obj[u] /\ gen0'[u] = gen0[u]
      BY <2>2 DEF IInv, CountExact, TypeOK, Forget, Goto, locals, ghosts
    <3>2. u \in owed' => u \in owed
      BY <2>2 DEF Forget, Goto, locals, ghosts
    <3>3. obj[u] = slot' /\ pc[u] \in Waiting => slot = slot' /\ entry'[slot'] = entry[slot]
      BY <2>2 DEF IInv, CountExact, TypeOK, RetiredOnce, Retiring, Forget, Goto, locals,
         ghosts
    <3>4. QED
      BY <3>1, <3>2, <3>3 DEF IInv, CountExact, TypeOK, GenerationExact, Waiting
  <2>3. QED
    BY <2>1, <2>2
<1>11. QED
  BY <1>1, <1>2, <1>3, <1>4, <1>5, <1>6, <1>7, <1>8, <1>9, <1>10 DEF IInv

\* retire_sync_object: the claimed object goes into the quarantine, and what nobody has a
\* pointer to is freed.
LEMMA RetireStep ==
  ASSUME IInv, NEW t \in Threads, Retire(t)
  PROVE  IInv'
<1>i. \A p \in Objs : Inside(p)' = Inside(p)
  BY DEF IInv, CountExact, TypeOK, Inside, Retire, Return, Goto
<1>1. TypeOK'
  BY CondAssumption DEF IInv, CountExact, TypeOK, Pcs, Ops, Calls, Retire, Return, Goto
<1>2. CountExact'
  BY <1>1, <1>i DEF IInv, CountExact, TypeOK, Retire, Return, Goto
<1>3. RetiredOnce'
  BY DEF IInv, CountExact, TypeOK, RetiredOnce, Retiring, CallShape, Retire, Return,
     Goto
<1>4. CallShape'
  BY DEF IInv, CountExact, TypeOK, CallShape, Waiting, Retire, Return, Goto
<1>5. InitAlone'
  BY DEF IInv, CountExact, TypeOK, InitAlone, Retire, Return, Goto
<1>6. MadeIsPrivate'
  BY CondAssumption DEF IInv, CountExact, TypeOK, CallShape, MadeIsPrivate, Users,
     Retire, Return, Goto
<1>7. FreeIsUnused'
  BY CondAssumption DEF IInv, CountExact, TypeOK, FreeIsUnused, Users, Retire, Return,
     Goto
<1>8. CountBounded'
  BY <1>i DEF IInv, CountExact, TypeOK, CountBounded, Retire, Return, Goto
<1>9. ThroughExact'
  BY DEF IInv, CountExact, TypeOK, ThroughExact, Retire, Return, Goto
<1>10. GenerationExact'
  BY DEF IInv, CountExact, TypeOK, GenerationExact, Retire, Return, Goto
<1>11. QED
  BY <1>1, <1>2, <1>3, <1>4, <1>5, <1>6, <1>7, <1>8, <1>9, <1>10 DEF IInv
-------------------------------------------------------------------------------
\* At first there is no object and no call.
LEMMA InitIInv == Init => IInv
<1> SUFFICES ASSUME Init PROVE IInv
  OBVIOUS
<1>1. TypeOK
  BY NewEntries, CondAssumption DEF Init, TypeOK, Pcs, Ops, Calls
<1>2. CountExact /\ RetiredOnce
  BY <1>1, CondAssumption DEF Init, CountExact, RetiredOnce, Retiring
<1>3. CallShape /\ InitAlone /\ MadeIsPrivate
  BY DEF Init, CallShape, InitAlone, MadeIsPrivate, Waiting
<1>4. FreeIsUnused
  BY CondAssumption DEF Init, FreeIsUnused, Users
<1>5. CountBounded
  BY InsideIsFinite DEF Init, CountBounded, Unknown
<1>6. ThroughExact /\ GenerationExact
  BY DEF Init, ThroughExact, GenerationExact
<1>7. QED
  BY <1>2, <1>3, <1>4, <1>5, <1>6 DEF IInv

\* Every step keeps the invariant.
LEMMA NextIInv == IInv /\ [Next]_vars => IInv'
<1> SUFFICES ASSUME IInv, [Next]_vars PROVE IInv'
  OBVIOUS
<1>1. CASE UNCHANGED vars
  BY <1>1 DEF vars, memory, locals, ghosts, IInv, CountExact, TypeOK, RetiredOnce,
     Retiring,
      CallShape, InitAlone, MadeIsPrivate, FreeIsUnused, CountBounded, ThroughExact,
      GenerationExact, Inside, Users
<1>2. CASE Next
  BY <1>2, LockStep, UnlockStep, CallStep, LoadStep, MakeStep, CasStep, StoreStep,
     EnterStep, ReadClockStep,
     SnapshotStep, ParkStep, WaitEndsStep, RelockStep, CheckStep, ExpireStep, LeaveStep,
     AdvanceStep, HostWakeStep, PeekStep, LookStep, ClaimStep, ForgetStep, RetireStep
     DEF Next
<1>3. QED
  BY <1>1, <1>2
-------------------------------------------------------------------------------
\* Objects, entries and calls stay as guest_cond_destroy_slot assumes them: the inductive
\* invariant.
THEOREM Inductive == Spec => []IInv
BY InitIInv, NextIInv, PTL DEF Spec

\* guest_cond_has_waiters answers EBUSY exactly while some thread is inside a wait on the
\* object in the slot: its entry counts those threads.
THEOREM BusyCountIsExact == Spec => []CountExact
<1>1. IInv => CountExact
  BY DEF IInv
<1>2. QED
  BY <1>1, Inductive, PTL

\* Destroys that race retire no object twice, and none the slot still holds.
THEOREM ObjectsRetireOnce == Spec => []RetiredOnce
<1>1. IInv => RetiredOnce
  BY DEF IInv
<1>2. QED
  BY <1>1, Inductive, PTL

\* guest_cond_destroy_slot never claims the object of a thread that has waited in it since
\* before the destroy was called.
THEOREM WaitersKeepIt == Spec => WaitersKeepTheirObject
<1>1. IInv => \A d \in Threads :
                 pc[d] = "claim" /\ pc'[d] = "forget" => through[d] \cap Inside(slot) = {}
  BY DEF IInv, ThroughExact, Inside
<1>2. QED
  BY <1>1, Inductive, PTL DEF WaitersKeepTheirObject

\* A wait that a broadcast owes its end times out only if it is a realtime one.
LEMMA TimeoutOfOwed ==
  ASSUME IInv, [Next]_vars, NEW t \in Threads, TimesOut(t)
  PROVE  op[t] = "realtime"
<1>1. t \in owed /\ slot = obj[t] /\ pc[t] # "leave" /\ pc'[t] = "leave" /\ late'[t]
  BY DEF TimesOut
<1>2. pc[t] \in Waiting /\ op[t] \in {"wait", "timed", "realtime"}
  BY <1>1 DEF IInv, GenerationExact, CallShape
<1>3. CASE UNCHANGED vars
  BY <1>1, <1>3 DEF vars
<1>4. ASSUME NEW u \in Threads, u # t,
             \/ Lock(u) \/ Unlock(u) \/ \E o \in Calls : Call(u, o)
             \/ Load(u) \/ Make(u) \/ Cas(u) \/ Store(u) \/ Enter(u) \/ ReadClock(u)
             \/ Snapshot(u) \/ Park(u) \/ WaitEnds(u) \/ Relock(u) \/ Check(u)
             \/ Expire(u) \/ Leave(u)
      PROVE  pc'[t] = pc[t]
  BY <1>4 DEF IInv, CountExact, TypeOK, Lock, Unlock, Call, Load, Make, Cas, Store, Enter,
     ReadClock, Snapshot, Park, WaitEnds, Relock, Check, Expire, Leave, Return, Goto
<1>5. ASSUME NEW u \in Threads, u # t,
             \/ Advance(u) \/ Peek(u) \/ Look(u) \/ Claim(u) \/ Forget(u) \/ Retire(u)
      PROVE  pc'[t] = pc[t]
  BY <1>5 DEF IInv, CountExact, TypeOK, Advance, Peek, Look, Claim, Forget, Retire,
     Return, Goto
<1>6. ASSUME NEW u \in Threads, HostWake(u)
      PROVE  pc'[t] # "leave"
  BY <1>1, <1>6 DEF HostWake
<1>7. CASE \/ Enter(t) \/ ReadClock(t) \/ Snapshot(t) \/ Park(t) \/ WaitEnds(t)
           \/ Lock(t) \/ Unlock(t)
  BY <1>1, <1>7 DEF IInv, CountExact, TypeOK, Enter, ReadClock, Snapshot, Park, WaitEnds,
     Lock, Unlock, Goto
<1>8. CASE Relock(t)
  <2>1. late[t] /\ ~(late[t] /\ op[t] = "timed")
    BY <1>1, <1>8 DEF IInv, CountExact, TypeOK, Relock, Goto, locals
  <2>2. op[t] # "wait"
    BY <2>1 DEF IInv, CallShape
  <2>3. QED
    BY <1>2, <2>1, <2>2
<1>9. CASE Check(t)
  BY <1>1, <1>9 DEF IInv, CountExact, TypeOK, Check
<1>10. CASE Expire(t)
  BY <1>1, <1>10 DEF IInv, GenerationExact, Expire
<1>11. CASE Next
  <2>1. PICK u \in Threads :
          \/ Lock(u) \/ Unlock(u) \/ \E o \in Calls : Call(u, o)
          \/ Load(u) \/ Make(u) \/ Cas(u) \/ Store(u) \/ Enter(u) \/ ReadClock(u)
          \/ Snapshot(u) \/ Park(u) \/ WaitEnds(u) \/ Relock(u) \/ Check(u)
          \/ Expire(u) \/ Leave(u)
          \/ Advance(u) \/ HostWake(u)
          \/ Peek(u) \/ Look(u) \/ Claim(u) \/ Forget(u) \/ Retire(u)
    BY <1>11 DEF Next
  <2>2. CASE u # t
    BY <1>1, <1>4, <1>5, <1>6, <2>1, <2>2
  <2>3. CASE u = t
    BY <1>1, <1>2, <1>6, <1>7, <1>8, <1>9, <1>10, <2>1, <2>3 DEF Waiting, Call, Load, Make,
       Cas, Store, Leave, Advance, Peek, Look, Claim, Forget, Retire
  <2>4. QED
    BY <2>2, <2>3
<1>12. QED
  BY <1>3, <1>11

\* A broadcast made under the mutex ends every wait begun before it with success, one on a
\* clock other than realtime that is between two slices included (the generation check of
\* the slices): none but a wait on the realtime clock reports ETIMEDOUT after it.
THEOREM BroadcastReaches == Spec => BroadcastNotLost
<1>1. IInv /\ [Next]_vars => \A t \in Threads : TimesOut(t) => op[t] = "realtime"
  BY TimeoutOfOwed
<1>2. QED
  BY <1>1, Inductive, PTL DEF BroadcastNotLost, Spec

-------------------------------------------------------------------------------
(* The slot table, CondSlots.                                              *)

\* The condvars of a program are none of the two marks.
LEMMA CondsAreMarked ==
  ASSUME TableTypeOK
  PROVE  /\ live \subseteq program /\ program \subseteq Conds
         /\ Free \notin Conds /\ SlotRetiring \notin Conds /\ Free # SlotRetiring
         /\ NoCond \notin Conds /\ NSlots \in Nat /\ NSlots > 0
         /\ MaxAttempts \in Nat /\ MaxAttempts > 0
         /\ Slots \subseteq Nat /\ 1 \in Slots /\ NSlots \in Slots
BY SlotsAssumption DEF TableTypeOK, Slots

\* A slot's word after a wake-up, a raise and a reset.
LEMMA WordIs ==
  ASSUME TableTypeOK
  PROVE  /\ \A s \in Slots : Bump(s) => sequence' \in [Slots -> 0 .. Generations - 1]
         /\ \A s : [sequence EXCEPT ![s] = 0] \in [Slots -> 0 .. Generations - 1]
<1>1. \A s \in Slots : (sequence[s] + 1) % Generations \in 0 .. Generations - 1
  BY SlotsAssumption DEF TableTypeOK
<1>2. ASSUME NEW s \in Slots, Bump(s) PROVE sequence' \in [Slots -> 0 .. Generations - 1]
  <2> DEFINE n == (sequence[s] + 1) % Generations
  <2>1. n \in 0 .. Generations - 1
    BY <1>1
  <2>2. sequence' = [sequence EXCEPT ![s] = n]
    BY <1>2 DEF Bump
  <2>3. QED
    BY <2>1, <2>2, Zenon DEF TableTypeOK
<1>3. ASSUME NEW s PROVE [sequence EXCEPT ![s] = 0] \in [Slots -> 0 .. Generations - 1]
  <2>1. 0 \in 0 .. Generations - 1
    BY SlotsAssumption
  <2>2. QED
    BY <2>1 DEF TableTypeOK
<1>4. QED
  BY <1>2, <1>3

\* A step of one thread's call: what it leaves alone, and what it may do to its own.
Placed == /\ where' \in [Callers -> Places] /\ i' \in [Callers -> Slots]
          /\ at' \in [Callers -> 0 .. NSlots]
OnlyMoves(t) ==
    /\ Placed
    /\ \A u \in Callers \ {t} : where'[u] = where[u] /\ i'[u] = i[u] /\ at'[u] = at[u]

LEMMA ResolvedIs ==
  ASSUME TableTypeOK, NEW t \in Callers, NEW s \in 0 .. NSlots, Resolved(t, s)
  PROVE  OnlyMoves(t) /\ where'[t] = "using" /\ i'[t] = 1 /\ at'[t] = s
BY CondsAreMarked DEF TableTypeOK, Resolved, StartAt, OnlyMoves, Placed, Places

LEMMA NextSlotIs ==
  ASSUME TableTypeOK, NEW t \in Callers, NextSlot(t)
  PROVE  /\ OnlyMoves(t) /\ where'[t] = where[t] /\ at'[t] = at[t]
         /\ i[t] < NSlots /\ i'[t] = i[t] + 1
<1>1. i[t] \in Nat /\ i[t] >= 1 /\ i[t] + 1 \in Slots
  BY CondsAreMarked DEF TableTypeOK, Slots, NextSlot
<1>2. QED
  BY <1>1 DEF TableTypeOK, NextSlot, OnlyMoves, Placed

LEMMA StartIs ==
  ASSUME TableTypeOK, NEW t \in Callers, NEW lbl \in Places, StartAt(t, lbl)
  PROVE  /\ where' \in [Callers -> Places] /\ i' \in [Callers -> Slots]
         /\ where'[t] = lbl /\ i'[t] = 1
         /\ \A u \in Callers \ {t} : where'[u] = where[u] /\ i'[u] = i[u]
BY CondsAreMarked DEF TableTypeOK, StartAt

LEMMA FinishIs ==
  ASSUME TableTypeOK, NEW t \in Callers, Finish(t)
  PROVE  /\ OnlyMoves(t) /\ where'[t] = "idle" /\ i'[t] = 1 /\ at'[t] = 0
         /\ key' = [key EXCEPT ![t] = NoCond] /\ attempt' = [attempt EXCEPT ![t] = 0]
BY StartIs, CondsAreMarked DEF TableTypeOK, Finish, OnlyMoves, Placed, Places

-------------------------------------------------------------------------------
\* What each step of a lookup does.
LEMMA FindIs ==
  ASSUME TableTypeOK, NEW t \in Callers, Find(t)
  PROVE  /\ where[t] \in {"find", "last"} /\ OnlyMoves(t)
         /\ UNCHANGED <<cond, sequence, live, key, attempt>>
         /\ \/ cond[i[t]] = key[t] /\ where'[t] = "using" /\ i'[t] = 1 /\ at'[t] = i[t]
            \/ /\ cond[i[t]] # key[t] /\ i[t] < NSlots /\ i'[t] = i[t] + 1
               /\ where'[t] = where[t] /\ at'[t] = at[t]
            \/ /\ cond[i[t]] # key[t] /\ i[t] = NSlots /\ i'[t] = 1
               /\ where[t] = "find" /\ where'[t] = "claim" /\ at'[t] = at[t]
            \/ /\ cond[i[t]] # key[t] /\ i[t] = NSlots /\ i'[t] = 1
               /\ where[t] = "last" /\ where'[t] = "using" /\ at'[t] = 0
<1>0. /\ where[t] \in {"find", "last"} /\ UNCHANGED <<cond, sequence, live, key, attempt>>
      /\ i[t] \in 0 .. NSlots /\ 0 \in 0 .. NSlots
  BY CondsAreMarked DEF TableTypeOK, Find, Slots
<1>1. CASE cond[i[t]] = key[t] /\ Resolved(t, i[t])
  BY <1>0, <1>1, ResolvedIs
<1>2. CASE cond[i[t]] # key[t] /\ NextSlot(t)
  BY <1>0, <1>2, NextSlotIs
<1>3. CASE cond[i[t]] # key[t] /\ i[t] = NSlots /\ where[t] = "last" /\ Resolved(t, 0)
  BY <1>0, <1>3, ResolvedIs
<1>4. CASE /\ cond[i[t]] # key[t] /\ i[t] = NSlots /\ where[t] = "find"
           /\ StartAt(t, "claim") /\ UNCHANGED at
  <2>1. "claim" \in Places
    BY DEF Places, Lookup
  <2>2. QED
    BY <1>0, <1>4, <2>1, StartIs DEF OnlyMoves, Placed, TableTypeOK
<1>5. QED
  BY <1>1, <1>2, <1>3, <1>4 DEF Find

LEMMA ClaimIs ==
  ASSUME TableTypeOK, NEW t \in Callers, ClaimSlot(t)
  PROVE  /\ where[t] = "claim" /\ OnlyMoves(t)
         /\ UNCHANGED <<sequence, live, key, attempt>>
         /\ \/ /\ cond[i[t]] = Free /\ cond' = [cond EXCEPT ![i[t]] = key[t]]
               /\ where'[t] = "winner" /\ i'[t] = 1 /\ at'[t] = i[t]
            \/ /\ cond[i[t]] # Free /\ cond' = cond /\ i[t] < NSlots /\ i'[t] = i[t] + 1
               /\ where'[t] = "claim" /\ at'[t] = at[t]
            \/ /\ cond[i[t]] # Free /\ cond' = cond /\ i[t] = NSlots /\ i'[t] = 1
               /\ where'[t] = "using" /\ at'[t] = 0
<1>0. /\ where[t] = "claim" /\ UNCHANGED <<sequence, live, key, attempt>>
      /\ i[t] \in 0 .. NSlots /\ 0 \in 0 .. NSlots
  BY CondsAreMarked DEF TableTypeOK, ClaimSlot, Slots
<1>1. CASE /\ cond[i[t]] = Free /\ cond' = [cond EXCEPT ![i[t]] = key[t]]
           /\ at' = [at EXCEPT ![t] = i[t]] /\ StartAt(t, "winner")
  <2>1. "winner" \in Places
    BY DEF Places, Lookup
  <2>2. QED
    BY <1>0, <1>1, <2>1, StartIs DEF OnlyMoves, Placed, TableTypeOK
<1>2. CASE cond[i[t]] # Free /\ NextSlot(t) /\ UNCHANGED cond
  BY <1>0, <1>2, NextSlotIs
<1>3. CASE cond[i[t]] # Free /\ i[t] = NSlots /\ Resolved(t, 0) /\ UNCHANGED cond
  BY <1>0, <1>3, ResolvedIs
<1>4. QED
  BY <1>1, <1>2, <1>3 DEF ClaimSlot

LEMMA WinnerIs ==
  ASSUME TableTypeOK, NEW t \in Callers, Winner(t)
  PROVE  /\ where[t] = "winner" /\ OnlyMoves(t) /\ at'[t] = at[t]
         /\ UNCHANGED <<cond, sequence, live, key, attempt>>
         /\ \/ /\ cond[i[t]] # key[t] /\ i[t] < NSlots /\ i'[t] = i[t] + 1
               /\ where'[t] = "winner"
            \/ cond[i[t]] = key[t] /\ i[t] = at[t] /\ where'[t] = "using" /\ i'[t] = 1
            \/ /\ \/ cond[i[t]] = key[t] /\ i[t] # at[t]
                  \/ cond[i[t]] # key[t] /\ i[t] = NSlots
               /\ where'[t] = "release" /\ i'[t] = 1
<1>0. /\ where[t] = "winner" /\ UNCHANGED <<cond, sequence, live, key, attempt>>
      /\ at[t] \in 0 .. NSlots
  BY DEF TableTypeOK, Winner
<1>1. CASE cond[i[t]] # key[t] /\ NextSlot(t)
  BY <1>0, <1>1, NextSlotIs
<1>2. CASE cond[i[t]] = key[t] /\ i[t] = at[t] /\ Resolved(t, at[t])
  BY <1>0, <1>2, ResolvedIs
<1>3. CASE /\ \/ cond[i[t]] = key[t] /\ i[t] # at[t]
              \/ cond[i[t]] # key[t] /\ i[t] = NSlots
           /\ StartAt(t, "release") /\ UNCHANGED at
  <2>1. "release" \in Places
    BY DEF Places, Lookup
  <2>2. QED
    BY <1>0, <1>3, <2>1, StartIs DEF OnlyMoves, Placed, TableTypeOK
<1>4. \/ cond[i[t]] # key[t] /\ NextSlot(t)
      \/ cond[i[t]] = key[t] /\ i[t] = at[t] /\ Resolved(t, at[t])
      \/ /\ \/ cond[i[t]] = key[t] /\ i[t] # at[t]
            \/ cond[i[t]] # key[t] /\ i[t] = NSlots
         /\ StartAt(t, "release") /\ UNCHANGED at
  BY DEF Winner
<1>5. QED
  BY <1>1, <1>2, <1>3, <1>4

LEMMA ReleaseIs ==
  ASSUME TableTypeOK, AttemptLeft, NEW t \in Callers, Release(t)
  PROVE  /\ where[t] = "release" /\ OnlyMoves(t) /\ at'[t] = 0 /\ i'[t] = 1
         /\ cond' = [cond EXCEPT ![at[t]] = Free]
         /\ UNCHANGED <<sequence, live, key>>
         /\ attempt' \in [Callers -> 0 .. MaxAttempts]
         /\ \A u \in Callers \ {t} : attempt'[u] = attempt[u]
         /\ \/ where'[t] = "find" /\ attempt'[t] < MaxAttempts
            \/ where'[t] = "last"
<1>0. /\ where[t] = "release" /\ UNCHANGED <<sequence, live, key>>
      /\ cond' = [cond EXCEPT ![at[t]] = Free] /\ at' = [at EXCEPT ![t] = 0]
      /\ attempt' = [attempt EXCEPT ![t] = attempt[t] + 1]
  BY DEF Release
<1>1. attempt[t] \in Nat /\ attempt[t] < MaxAttempts /\ MaxAttempts \in Nat /\ 0 \in 0 .. NSlots
  BY <1>0, CondsAreMarked DEF TableTypeOK, AttemptLeft
<1>2. "find" \in Places /\ "last" \in Places
  BY DEF Places, Lookup
<1>3. attempt' \in [Callers -> 0 .. MaxAttempts] /\ attempt'[t] = attempt[t] + 1
  BY <1>0, <1>1 DEF TableTypeOK
<1>4. CASE attempt[t] + 1 < MaxAttempts
  BY <1>0, <1>1, <1>2, <1>3, <1>4, StartIs DEF Release, OnlyMoves, Placed, TableTypeOK
<1>5. CASE ~(attempt[t] + 1 < MaxAttempts)
  BY <1>0, <1>1, <1>2, <1>3, <1>5, StartIs DEF Release, OnlyMoves, Placed, TableTypeOK
<1>6. QED
  BY <1>4, <1>5

LEMMA ForgetIs ==
  ASSUME TableTypeOK, NEW t \in Callers, ForgetSlot(t)
  PROVE  /\ where[t] = "forget" /\ OnlyMoves(t)
         /\ UNCHANGED <<sequence, live>>
         /\ \/ /\ cond[i[t]] = key[t] /\ cond' = [cond EXCEPT ![i[t]] = SlotRetiring]
               /\ where'[t] = "reset" /\ i'[t] = 1 /\ at'[t] = i[t]
               /\ key' = key /\ attempt' = attempt
            \/ /\ cond[i[t]] # key[t] /\ cond' = cond /\ i[t] < NSlots /\ i'[t] = i[t] + 1
               /\ where'[t] = "forget" /\ at'[t] = at[t]
               /\ key' = key /\ attempt' = attempt
            \/ /\ cond[i[t]] # key[t] /\ cond' = cond /\ i[t] = NSlots /\ i'[t] = 1
               /\ where'[t] = "idle" /\ at'[t] = 0
               /\ key' = [key EXCEPT ![t] = NoCond]
               /\ attempt' = [attempt EXCEPT ![t] = 0]
<1>0. /\ where[t] = "forget" /\ UNCHANGED <<sequence, live>> /\ i[t] \in 0 .. NSlots
  BY CondsAreMarked DEF TableTypeOK, ForgetSlot, Slots
<1>1. CASE /\ cond[i[t]] = key[t] /\ cond' = [cond EXCEPT ![i[t]] = SlotRetiring]
           /\ at' = [at EXCEPT ![t] = i[t]] /\ StartAt(t, "reset") /\ UNCHANGED <<key, attempt>>
  <2>1. "reset" \in Places
    BY DEF Places
  <2>2. QED
    BY <1>0, <1>1, <2>1, StartIs DEF OnlyMoves, Placed, TableTypeOK
<1>2. CASE cond[i[t]] # key[t] /\ NextSlot(t) /\ UNCHANGED <<cond, key, attempt>>
  BY <1>0, <1>2, NextSlotIs
<1>3. CASE cond[i[t]] # key[t] /\ i[t] = NSlots /\ Finish(t) /\ UNCHANGED cond
  BY <1>0, <1>3, FinishIs
<1>4. QED
  BY <1>1, <1>2, <1>3 DEF ForgetSlot

\* The other steps of a call, each with its thread's label before and after.
LEMMA CallIs ==
  ASSUME TableTypeOK, NEW t \in Callers
  PROVE  /\ \A c \in Conds : Resolve(t, c) =>
              /\ OnlyMoves(t) /\ where'[t] = "find" /\ i'[t] = 1 /\ at'[t] = at[t]
              /\ where[t] = "idle" /\ c \in live /\ key' = [key EXCEPT ![t] = c]
              /\ UNCHANGED <<cond, sequence, live, attempt>>
         /\ \A c \in Conds : Destroy(t, c) =>
              /\ OnlyMoves(t) /\ where'[t] = "forget" /\ i'[t] = 1 /\ at'[t] = at[t]
              /\ where[t] = "idle" /\ c \in live /\ key' = [key EXCEPT ![t] = c]
              /\ \A u \in Callers : key[u] # c
              /\ live' = live \ {c} /\ UNCHANGED <<cond, sequence, attempt>>
         /\ LeaveWait(t) \/ Signal(t) =>
              /\ OnlyMoves(t) /\ where'[t] = "idle" /\ i'[t] = 1 /\ at'[t] = 0
              /\ where[t] = "using" /\ UNCHANGED <<cond, live>>
              /\ key' = [key EXCEPT ![t] = NoCond] /\ attempt' = [attempt EXCEPT ![t] = 0]
              /\ \/ sequence' = sequence
                 \/ at[t] # 0 /\ Bump(at[t])
         /\ ResetSequence(t) =>
              /\ OnlyMoves(t) /\ where'[t] = "free" /\ i'[t] = 1 /\ at'[t] = at[t]
              /\ where[t] = "reset" /\ sequence' = [sequence EXCEPT ![at[t]] = 0]
              /\ UNCHANGED <<cond, live, key, attempt>>
         /\ FreeSlot(t) =>
              /\ OnlyMoves(t) /\ where'[t] = "idle" /\ i'[t] = 1 /\ at'[t] = 0
              /\ where[t] = "free" /\ cond' = [cond EXCEPT ![at[t]] = Free]
              /\ key' = [key EXCEPT ![t] = NoCond] /\ attempt' = [attempt EXCEPT ![t] = 0]
              /\ UNCHANGED <<sequence, live>>
<1>1. {"find", "forget", "free"} \subseteq Places
  BY DEF Places, Lookup
<1>2. ASSUME NEW c \in Conds, Resolve(t, c)
      PROVE  /\ OnlyMoves(t) /\ where'[t] = "find" /\ i'[t] = 1 /\ at'[t] = at[t]
             /\ where[t] = "idle" /\ c \in live /\ key' = [key EXCEPT ![t] = c]
             /\ UNCHANGED <<cond, sequence, live, attempt>>
  BY <1>1, <1>2, StartIs DEF Resolve, OnlyMoves, Placed, TableTypeOK
<1>3. ASSUME NEW c \in Conds, Destroy(t, c)
      PROVE  /\ OnlyMoves(t) /\ where'[t] = "forget" /\ i'[t] = 1 /\ at'[t] = at[t]
             /\ where[t] = "idle" /\ c \in live /\ key' = [key EXCEPT ![t] = c]
             /\ \A u \in Callers : key[u] # c
             /\ live' = live \ {c} /\ UNCHANGED <<cond, sequence, attempt>>
  BY <1>1, <1>3, StartIs DEF Destroy, OnlyMoves, Placed, TableTypeOK
<1>4. ASSUME LeaveWait(t) \/ Signal(t)
      PROVE  /\ where[t] = "using" /\ UNCHANGED <<cond, live>> /\ Finish(t)
             /\ \/ sequence' = sequence
                \/ at[t] # 0 /\ Bump(at[t])
  BY <1>4 DEF LeaveWait, Signal
<1>5. ASSUME ResetSequence(t)
      PROVE  /\ OnlyMoves(t) /\ where'[t] = "free" /\ i'[t] = 1 /\ at'[t] = at[t]
             /\ where[t] = "reset" /\ sequence' = [sequence EXCEPT ![at[t]] = 0]
             /\ UNCHANGED <<cond, live, key, attempt>>
  BY <1>1, <1>5, StartIs DEF ResetSequence, OnlyMoves, Placed, TableTypeOK
<1>6. ASSUME FreeSlot(t)
      PROVE  /\ where[t] = "free" /\ cond' = [cond EXCEPT ![at[t]] = Free] /\ Finish(t)
             /\ UNCHANGED <<sequence, live>>
  BY <1>6 DEF FreeSlot
<1>7. QED
  BY <1>2, <1>3, <1>4, <1>5, <1>6, FinishIs
-------------------------------------------------------------------------------
(* The invariant for any number of lookups at once.                        *)

\* A step of t disturbs no other's claim.
LEMMA ClaimsKept ==
  ASSUME TableTypeOK, ClaimHeld, NEW t \in Callers, OnlyMoves(t),
         \A u \in Claimants \ {t} : cond'[at[u]] = cond[at[u]] /\ key'[u] = key[u],
         where'[t] \in {"winner", "release"} =>
            /\ at'[t] # 0 /\ cond'[at'[t]] = key'[t]
            /\ where'[t] = "winner" => i'[t] <= at'[t]
            /\ \A u \in Claimants \ {t} : at[u] # at'[t]
  PROVE  ClaimHeld'
<1> SUFFICES ASSUME NEW u \in Callers, where'[u] \in {"winner", "release"}
             PROVE  /\ at'[u] # 0 /\ cond'[at'[u]] = key'[u]
                    /\ where'[u] = "winner" => i'[u] <= at'[u]
                    /\ \A v \in Callers \ {u} :
                          where'[v] \in {"winner", "release"} => at'[v] # at'[u]
  BY DEF ClaimHeld, Claimants
<1>1. \A v \in Callers \ {t} : where'[v] \in {"winner", "release"} => v \in Claimants
  BY DEF OnlyMoves, Claimants
<1>2. CASE u = t
  BY <1>1, <1>2 DEF OnlyMoves
<1>3. CASE u # t
  <2>1. u \in Claimants /\ where'[u] = where[u] /\ at'[u] = at[u] /\ i'[u] = i[u]
    BY <1>1, <1>3 DEF OnlyMoves
  <2>2. ASSUME NEW v \in Callers \ {u}, where'[v] \in {"winner", "release"}
        PROVE  at'[v] # at'[u]
    <3>1. CASE v = t
      BY <1>3, <2>1, <2>2, <3>1
    <3>2. CASE v # t
      BY <1>1, <2>1, <2>2, <3>2 DEF OnlyMoves, ClaimHeld
    <3>3. QED
      BY <3>1, <3>2
  <2>3. QED
    BY <1>3, <2>1, <2>2 DEF ClaimHeld
<1>4. QED
  BY <1>2, <1>3

\* Nor any other's retirement.
LEMMA RetirementsKept ==
  ASSUME TableTypeOK, RetiringHeld, NEW t \in Callers, OnlyMoves(t),
         \A u \in Callers \ {t} :
            where[u] \in {"reset", "free"} => cond'[at[u]] = cond[at[u]],
         where'[t] \in {"reset", "free"} =>
            /\ at'[t] # 0 /\ cond'[at'[t]] = SlotRetiring
            /\ \A u \in Callers \ {t} : where[u] \in {"reset", "free"} => at[u] # at'[t]
  PROVE  RetiringHeld'
<1> SUFFICES ASSUME NEW u \in Callers, where'[u] \in {"reset", "free"}
             PROVE  /\ at'[u] # 0 /\ cond'[at'[u]] = SlotRetiring
                    /\ \A v \in Callers \ {u} :
                          where'[v] \in {"reset", "free"} => at'[v] # at'[u]
  BY DEF RetiringHeld
<1>1. CASE u = t
  BY <1>1 DEF OnlyMoves
<1>2. CASE u # t
  BY <1>2 DEF OnlyMoves, RetiringHeld
<1>3. QED
  BY <1>1, <1>2

\* Nor leaves a loser without a lower slot.
LEMMA LosersKept ==
  ASSUME TableTypeOK, LoserHasWinner, NEW t \in Callers, OnlyMoves(t),
         \A u \in Callers \ {t} : where[u] = "release" =>
            key'[u] = key[u] /\ \E s \in Slots : cond'[s] = key[u] /\ s < at[u],
         where'[t] = "release" => \E s \in Slots : cond'[s] = key'[t] /\ s < at'[t]
  PROVE  LoserHasWinner'
<1> SUFFICES ASSUME NEW u \in Callers, where'[u] = "release"
             PROVE  \E s \in Slots : cond'[s] = key'[u] /\ s < at'[u]
  BY DEF LoserHasWinner, Owned
<1>1. CASE u = t
  BY <1>1
<1>2. CASE u # t
  BY <1>2 DEF OnlyMoves
<1>3. QED
  BY <1>1, <1>2

\* What calls hold is neither free nor another kind of holder's.
LEMMA HeldSlots ==
  ASSUME TableIInv
  PROVE  /\ \A u \in Callers : where[u] # "idle" => key[u] \in Conds
         /\ \A u \in Claimants : at[u] \in Slots /\ cond[at[u]] = key[u] /\ key[u] \in Conds
         /\ \A u \in Callers : where[u] \in {"reset", "free"} =>
               at[u] \in Slots /\ cond[at[u]] = SlotRetiring
<1>0. TableTypeOK
  BY DEF TableIInv
<1>1. \A u \in Callers : where[u] # "idle" => key[u] \in Conds
  BY <1>0, CondsAreMarked DEF TableIInv, KeyExact, TableTypeOK, Places, Lookup, Retirers
<1>2. \A u \in Callers : at[u] # 0 => at[u] \in Slots
  BY <1>0 DEF TableTypeOK, Slots
<1>3. QED
  BY <1>1, <1>2 DEF TableIInv, ClaimHeld, RetiringHeld, Claimants

LEMMA ResolveStep ==
  ASSUME TableIInv, UNCHANGED <<program, noted>>, NEW t \in Callers, NEW c \in Conds, Resolve(t, c)
  PROVE  TableIInv'
<1>0. TableTypeOK /\ AttemptLeft /\ ClaimHeld /\ RetiringHeld /\ LoserHasWinner
  BY DEF TableIInv
<1>1. TableTypeOK'
  BY <1>0, CallIs, CondsAreMarked DEF TableIInv, TableTypeOK, OnlyMoves, Placed
<1>2. AttemptLeft'
  BY <1>0, CallIs, CondsAreMarked DEF TableIInv, TableTypeOK, AttemptLeft, OnlyMoves
<1>3. KeyExact'
  BY <1>0, CallIs, CondsAreMarked DEF TableIInv, TableTypeOK, KeyExact, Lookup, Retirers,
     OnlyMoves
<1>4. ClaimHeld'
  BY <1>0, ClaimsKept, CallIs, CondsAreMarked DEF TableIInv, Claimants, TableTypeOK, OnlyMoves
<1>5. RetiringHeld'
  BY <1>0, RetirementsKept, CallIs, CondsAreMarked DEF TableIInv, TableTypeOK, OnlyMoves
<1>6. LoserHasWinner'
  BY <1>0, LosersKept, CallIs, CondsAreMarked DEF TableIInv, LoserHasWinner, Owned,
     TableTypeOK, OnlyMoves
<1>7. QED
  BY <1>1, <1>2, <1>3, <1>4, <1>5, <1>6 DEF TableIInv

LEMMA DestroyStep ==
  ASSUME TableIInv, UNCHANGED <<program, noted>>, NEW t \in Callers, NEW c \in Conds, Destroy(t, c)
  PROVE  TableIInv'
<1>0. TableTypeOK /\ AttemptLeft /\ ClaimHeld /\ RetiringHeld /\ LoserHasWinner
  BY DEF TableIInv
<1>1. TableTypeOK'
  BY <1>0, CallIs, CondsAreMarked DEF TableIInv, TableTypeOK, OnlyMoves, Placed
<1>2. AttemptLeft'
  BY <1>0, CallIs, CondsAreMarked DEF TableIInv, TableTypeOK, AttemptLeft, OnlyMoves
<1>3. KeyExact'
  BY <1>0, CallIs, CondsAreMarked DEF TableIInv, TableTypeOK, KeyExact, Lookup, Retirers,
     OnlyMoves
<1>4. ClaimHeld'
  BY <1>0, ClaimsKept, CallIs, CondsAreMarked DEF TableIInv, Claimants, TableTypeOK, OnlyMoves
<1>5. RetiringHeld'
  BY <1>0, RetirementsKept, CallIs, CondsAreMarked DEF TableIInv, TableTypeOK, OnlyMoves
<1>6. LoserHasWinner'
  BY <1>0, LosersKept, CallIs, CondsAreMarked DEF TableIInv, LoserHasWinner, Owned,
     TableTypeOK, OnlyMoves
<1>7. QED
  BY <1>1, <1>2, <1>3, <1>4, <1>5, <1>6 DEF TableIInv

LEMMA FindStep ==
  ASSUME TableIInv, UNCHANGED <<program, noted>>, NEW t \in Callers, Find(t)
  PROVE  TableIInv'
<1>0. TableTypeOK /\ AttemptLeft /\ ClaimHeld /\ RetiringHeld /\ LoserHasWinner
  BY DEF TableIInv
<1>1. TableTypeOK'
  BY <1>0, FindIs, CondsAreMarked DEF TableIInv, TableTypeOK, OnlyMoves, Placed
<1>2. AttemptLeft'
  BY <1>0, FindIs, CondsAreMarked DEF TableIInv, TableTypeOK, AttemptLeft, OnlyMoves
<1>3. KeyExact'
  BY <1>0, FindIs, CondsAreMarked DEF TableIInv, TableTypeOK, KeyExact, Lookup, Retirers,
     OnlyMoves
<1>4. ClaimHeld'
  BY <1>0, ClaimsKept, FindIs, CondsAreMarked DEF TableIInv, Claimants, TableTypeOK, OnlyMoves
<1>5. RetiringHeld'
  BY <1>0, RetirementsKept, FindIs, CondsAreMarked DEF TableIInv, TableTypeOK, OnlyMoves
<1>6. LoserHasWinner'
  BY <1>0, LosersKept, FindIs, CondsAreMarked DEF TableIInv, LoserHasWinner, Owned,
     TableTypeOK, OnlyMoves
<1>7. QED
  BY <1>1, <1>2, <1>3, <1>4, <1>5, <1>6 DEF TableIInv

LEMMA ClaimSlotStep ==
  ASSUME TableIInv, UNCHANGED <<program, noted>>, NEW t \in Callers, ClaimSlot(t)
  PROVE  TableIInv'
<1>0. TableTypeOK /\ AttemptLeft /\ ClaimHeld /\ RetiringHeld /\ LoserHasWinner
  BY DEF TableIInv
<1>a. i[t] \in Slots /\ key[t] \in Conds /\ i[t] >= 1 /\ i[t] \in Nat
  BY <1>0, HeldSlots, ClaimIs DEF TableTypeOK, Slots
<1>b. \A s \in Slots : cond[s] # Free => cond'[s] = cond[s]
  BY <1>0, ClaimIs DEF TableTypeOK
<1>1. TableTypeOK'
  BY <1>0, <1>a, ClaimIs DEF TableTypeOK, OnlyMoves, Placed
<1>2. AttemptLeft'
  BY <1>0, ClaimIs, CondsAreMarked DEF TableIInv, TableTypeOK, AttemptLeft, OnlyMoves
<1>3. KeyExact'
  BY <1>0, ClaimIs, CondsAreMarked DEF TableIInv, TableTypeOK, KeyExact, Lookup, Retirers,
     OnlyMoves
<1>4. ClaimHeld'
  <2>1. \A u \in Claimants \ {t} : cond'[at[u]] = cond[at[u]] /\ key'[u] = key[u]
    BY <1>0, <1>b, HeldSlots, ClaimIs, CondsAreMarked
  <2>2. ASSUME where'[t] \in {"winner", "release"}
        PROVE  /\ where'[t] = "winner" /\ at'[t] = i[t] /\ i'[t] = 1 /\ key'[t] = key[t]
               /\ cond[i[t]] = Free /\ cond'[i[t]] = key[t]
    BY <1>0, <1>a, <2>2, ClaimIs DEF TableTypeOK
  <2>3. ASSUME where'[t] \in {"winner", "release"}
        PROVE  \A u \in Claimants \ {t} : at[u] # at'[t]
    BY <1>0, <2>2, <2>3, HeldSlots, CondsAreMarked
  <2>4. ASSUME where'[t] \in {"winner", "release"} PROVE at'[t] # 0
    BY <1>a, <2>2, <2>4
  <2>5. QED
    BY <1>0, <1>a, <2>1, <2>2, <2>3, <2>4, ClaimsKept, ClaimIs
<1>5. RetiringHeld'
  <2>1. \A u \in Callers : where[u] \in {"reset", "free"} => cond'[at[u]] = cond[at[u]]
    BY <1>0, <1>b, HeldSlots, CondsAreMarked
  <2>2. QED
    BY <1>0, <2>1, RetirementsKept, ClaimIs
<1>6. LoserHasWinner'
  <2>1. ASSUME NEW u \in Callers \ {t}, where[u] = "release"
        PROVE  key'[u] = key[u] /\ \E s \in Slots : cond'[s] = key[u] /\ s < at[u]
    <3>1. PICK s \in Slots : cond[s] = key[u] /\ s < at[u]
      BY <2>1 DEF TableIInv, LoserHasWinner, Owned
    <3>2. cond'[s] = cond[s] /\ key'[u] = key[u]
      BY <1>0, <1>b, <2>1, <3>1, HeldSlots, ClaimIs, CondsAreMarked
    <3>3. QED
      BY <3>1, <3>2
  <2>2. QED
    BY <1>0, <2>1, LosersKept, ClaimIs
<1>7. QED
  BY <1>1, <1>2, <1>3, <1>4, <1>5, <1>6 DEF TableIInv

LEMMA WinnerStep ==
  ASSUME TableIInv, UNCHANGED <<program, noted>>, NEW t \in Callers, Winner(t)
  PROVE  TableIInv'
<1>0. TableTypeOK /\ AttemptLeft /\ ClaimHeld /\ RetiringHeld /\ LoserHasWinner
  BY DEF TableIInv
<1>1. TableTypeOK'
  BY <1>0, WinnerIs, CondsAreMarked DEF TableIInv, TableTypeOK, OnlyMoves, Placed
<1>2. AttemptLeft'
  BY <1>0, WinnerIs, CondsAreMarked DEF TableIInv, TableTypeOK, AttemptLeft, OnlyMoves
<1>3. KeyExact'
  BY <1>0, WinnerIs, CondsAreMarked DEF TableIInv, TableTypeOK, KeyExact, Lookup, Retirers,
     OnlyMoves
<1>4. ClaimHeld'
  <2>1. t \in Claimants /\ at[t] \in Slots /\ cond[at[t]] = key[t] /\ i[t] <= at[t]
    BY <1>0, HeldSlots, WinnerIs DEF Claimants, ClaimHeld
  <2>2. where'[t] = "winner" => i'[t] <= at[t]
    <3>1. i[t] \in Nat /\ at[t] \in Nat
      BY <1>0, <2>1, CondsAreMarked DEF TableTypeOK
    <3>2. where'[t] = "winner" => i'[t] = i[t] + 1 /\ i[t] # at[t]
      BY <1>0, <2>1, WinnerIs
    <3>3. QED
      BY <2>1, <3>1, <3>2
  <2>3. \A u \in Claimants \ {t} : at[u] # at[t]
    BY <1>0, <2>1 DEF ClaimHeld
  <2>4. QED
    BY <1>0, <2>1, <2>2, <2>3, ClaimsKept, WinnerIs, CondsAreMarked DEF Slots
<1>5. RetiringHeld'
  BY <1>0, RetirementsKept, WinnerIs, CondsAreMarked DEF TableIInv, TableTypeOK, OnlyMoves
<1>6. LoserHasWinner'
  <2>1. /\ t \in Claimants /\ at[t] \in Slots /\ cond[at[t]] = key[t] /\ i[t] <= at[t]
        /\ i[t] \in Slots
    BY <1>0, HeldSlots, WinnerIs DEF Claimants, ClaimHeld, TableTypeOK
  <2>2. where'[t] = "release" => cond'[i[t]] = key'[t] /\ i[t] < at'[t]
    <3>1. i[t] = NSlots => at[t] = i[t]
      BY <2>1, CondsAreMarked DEF Slots
    <3>2. i[t] # at[t] => i[t] < at[t]
      BY <2>1 DEF Slots
    <3>3. QED
      BY <1>0, <2>1, <3>1, <3>2, WinnerIs
  <2>3. QED
    BY <1>0, <2>1, <2>2, LosersKept, WinnerIs DEF LoserHasWinner, Owned
<1>7. QED
  BY <1>1, <1>2, <1>3, <1>4, <1>5, <1>6 DEF TableIInv

LEMMA ReleaseStep ==
  ASSUME TableIInv, UNCHANGED <<program, noted>>, NEW t \in Callers, Release(t)
  PROVE  TableIInv'
<1>0. TableTypeOK /\ AttemptLeft /\ ClaimHeld /\ RetiringHeld /\ LoserHasWinner
  BY DEF TableIInv
<1>a. t \in Claimants /\ at[t] \in Slots /\ cond[at[t]] = key[t] /\ key[t] \in Conds
  BY <1>0, HeldSlots, ReleaseIs DEF Claimants
<1>b. \A s \in Slots : s # at[t] => cond'[s] = cond[s]
  BY <1>0, <1>a, ReleaseIs DEF TableTypeOK
<1>1. TableTypeOK'
  BY <1>0, ReleaseIs, CondsAreMarked DEF TableIInv, TableTypeOK, OnlyMoves, Placed
<1>2. AttemptLeft'
  BY <1>0, ReleaseIs, CondsAreMarked DEF TableIInv, TableTypeOK, AttemptLeft, OnlyMoves
<1>3. KeyExact'
  BY <1>0, ReleaseIs, CondsAreMarked DEF TableIInv, TableTypeOK, KeyExact, Lookup, Retirers,
     OnlyMoves
<1>4. ClaimHeld'
  <2>1. \A u \in Claimants \ {t} : cond'[at[u]] = cond[at[u]] /\ key'[u] = key[u]
    BY <1>0, <1>a, <1>b, HeldSlots, ReleaseIs DEF ClaimHeld
  <2>2. QED
    BY <1>0, <2>1, ClaimsKept, ReleaseIs
<1>5. RetiringHeld'
  <2>1. \A u \in Callers : where[u] \in {"reset", "free"} => cond'[at[u]] = cond[at[u]]
    BY <1>0, <1>a, <1>b, HeldSlots, CondsAreMarked
  <2>2. QED
    BY <1>0, <2>1, RetirementsKept, ReleaseIs
<1>6. LoserHasWinner'
  <2>1. ASSUME NEW u \in Callers \ {t}, where[u] = "release"
        PROVE  key'[u] = key[u] /\ \E s \in Slots : cond'[s] = key[u] /\ s < at[u]
    <3>1. PICK s \in Slots : cond[s] = key[u] /\ s < at[u]
      BY <2>1 DEF TableIInv, LoserHasWinner, Owned
    <3>2. key'[u] = key[u] /\ at[u] \in Slots
      BY <1>0, <2>1, HeldSlots, ReleaseIs DEF Claimants
    <3>3. CASE s # at[t]
      BY <1>b, <3>1, <3>2, <3>3
    <3>4. CASE s = at[t]
      <4>1. PICK r \in Slots : cond[r] = key[t] /\ r < at[t]
        BY <1>0, ReleaseIs DEF LoserHasWinner, Owned
      <4>2. r < at[u] /\ r # at[t] /\ key[u] = key[t]
        BY <1>a, <3>1, <3>2, <3>4, <4>1 DEF Slots
      <4>3. QED
        BY <1>b, <3>2, <4>1, <4>2
    <3>5. QED
      BY <3>3, <3>4
  <2>2. QED
    BY <1>0, <2>1, LosersKept, ReleaseIs
<1>7. QED
  BY <1>1, <1>2, <1>3, <1>4, <1>5, <1>6 DEF TableIInv

LEMMA ReturnStep ==
  ASSUME TableIInv, UNCHANGED <<program, noted>>, NEW t \in Callers, LeaveWait(t) \/ Signal(t)
  PROVE  TableIInv'
<1>0. TableTypeOK /\ AttemptLeft /\ ClaimHeld /\ RetiringHeld /\ LoserHasWinner
  BY DEF TableIInv
<1>1. TableTypeOK'
  <2>1. at[t] # 0 => at[t] \in Slots
    BY <1>0 DEF TableTypeOK, Slots
  <2>2. sequence' \in [Slots -> 0 .. Generations - 1]
    BY <1>0, <2>1, WordIs, CallIs DEF TableTypeOK
  <2>3. QED
    BY <1>0, <2>2, CallIs, CondsAreMarked DEF TableTypeOK, OnlyMoves, Placed
<1>2. AttemptLeft'
  BY <1>0, CallIs, CondsAreMarked DEF TableIInv, TableTypeOK, AttemptLeft, OnlyMoves
<1>3. KeyExact'
  BY <1>0, CallIs, CondsAreMarked DEF TableIInv, TableTypeOK, KeyExact, Lookup, Retirers,
     OnlyMoves
<1>4. ClaimHeld'
  BY <1>0, ClaimsKept, CallIs, CondsAreMarked DEF TableIInv, Claimants, TableTypeOK, OnlyMoves
<1>5. RetiringHeld'
  BY <1>0, RetirementsKept, CallIs, CondsAreMarked DEF TableIInv, TableTypeOK, OnlyMoves
<1>6. LoserHasWinner'
  BY <1>0, LosersKept, CallIs, CondsAreMarked DEF TableIInv, LoserHasWinner, Owned,
     TableTypeOK, OnlyMoves
<1>7. QED
  BY <1>1, <1>2, <1>3, <1>4, <1>5, <1>6 DEF TableIInv

LEMMA ForgetSlotStep ==
  ASSUME TableIInv, UNCHANGED <<program, noted>>, NEW t \in Callers, ForgetSlot(t)
  PROVE  TableIInv'
<1>0. TableTypeOK /\ AttemptLeft /\ ClaimHeld /\ RetiringHeld /\ LoserHasWinner
  BY DEF TableIInv
<1>a. /\ key[t] \in Conds /\ i[t] \in Slots
      /\ \A u \in Callers \ {t} : key[u] # key[t]
  BY <1>0, HeldSlots, ForgetIs DEF TableIInv, KeyExact, Retirers, TableTypeOK
<1>b. \A s \in Slots : cond[s] # key[t] => cond'[s] = cond[s]
  BY <1>0, <1>a, ForgetIs DEF TableTypeOK
<1>c. \A u \in Callers \ {t} : \A s \in Slots : cond[s] = key[u] => cond'[s] = cond[s]
  BY <1>a, <1>b
<1>1. TableTypeOK'
  BY <1>0, ForgetIs, CondsAreMarked DEF TableIInv, TableTypeOK, OnlyMoves, Placed
<1>2. AttemptLeft'
  BY <1>0, ForgetIs, CondsAreMarked DEF TableIInv, TableTypeOK, AttemptLeft, OnlyMoves
<1>3. KeyExact'
  BY <1>0, ForgetIs, CondsAreMarked DEF TableIInv, TableTypeOK, KeyExact, Lookup, Retirers,
     OnlyMoves
<1>4. ClaimHeld'
  <2>1. \A u \in Claimants \ {t} : cond'[at[u]] = cond[at[u]] /\ key'[u] = key[u]
    BY <1>0, <1>c, HeldSlots, ForgetIs DEF Claimants, TableTypeOK
  <2>2. QED
    BY <1>0, <2>1, ClaimsKept, ForgetIs
<1>5. RetiringHeld'
  <2>1. \A u \in Callers \ {t} : where[u] \in {"reset", "free"} => cond'[at[u]] = cond[at[u]]
    BY <1>0, <1>a, <1>b, HeldSlots, CondsAreMarked
  <2>2. ASSUME where'[t] \in {"reset", "free"}
        PROVE  /\ at'[t] = i[t] /\ cond[i[t]] = key[t] /\ cond'[i[t]] = SlotRetiring
    BY <1>0, <1>a, <2>2, ForgetIs DEF TableTypeOK
  <2>3. ASSUME where'[t] \in {"reset", "free"}
        PROVE  /\ at'[t] # 0
               /\ \A u \in Callers \ {t} : where[u] \in {"reset", "free"} => at[u] # at'[t]
    BY <1>0, <1>a, <2>2, <2>3, HeldSlots, CondsAreMarked DEF Slots
  <2>4. QED
    BY <1>0, <2>1, <2>2, <2>3, RetirementsKept, ForgetIs
<1>6. LoserHasWinner'
  <2>1. ASSUME NEW u \in Callers \ {t}, where[u] = "release"
        PROVE  key'[u] = key[u] /\ \E s \in Slots : cond'[s] = key[u] /\ s < at[u]
    <3>1. PICK s \in Slots : cond[s] = key[u] /\ s < at[u]
      BY <2>1 DEF TableIInv, LoserHasWinner, Owned
    <3>2. cond'[s] = cond[s] /\ key'[u] = key[u]
      BY <1>0, <1>c, <2>1, <3>1, ForgetIs DEF TableTypeOK
    <3>3. QED
      BY <3>1, <3>2
  <2>2. QED
    BY <1>0, <2>1, LosersKept, ForgetIs
<1>7. QED
  BY <1>1, <1>2, <1>3, <1>4, <1>5, <1>6 DEF TableIInv

LEMMA ResetStep ==
  ASSUME TableIInv, UNCHANGED <<program, noted>>, NEW t \in Callers, ResetSequence(t)
  PROVE  TableIInv'
<1>0. TableTypeOK /\ AttemptLeft /\ ClaimHeld /\ RetiringHeld /\ LoserHasWinner
  BY DEF TableIInv
<1>1. TableTypeOK'
  BY <1>0, WordIs, CallIs, CondsAreMarked DEF TableIInv, TableTypeOK, OnlyMoves, Placed
<1>2. AttemptLeft'
  BY <1>0, CallIs, CondsAreMarked DEF TableIInv, TableTypeOK, AttemptLeft, OnlyMoves
<1>3. KeyExact'
  BY <1>0, CallIs, CondsAreMarked DEF TableIInv, TableTypeOK, KeyExact, Lookup, Retirers,
     OnlyMoves
<1>4. ClaimHeld'
  BY <1>0, ClaimsKept, CallIs, CondsAreMarked DEF TableIInv, Claimants, TableTypeOK, OnlyMoves
<1>5. RetiringHeld'
  <2>1. where[t] = "reset" /\ OnlyMoves(t) /\ at'[t] = at[t] /\ cond' = cond
    BY <1>0, CallIs
  <2>2. QED
    BY <1>0, <2>1, RetirementsKept DEF RetiringHeld
<1>6. LoserHasWinner'
  BY <1>0, LosersKept, CallIs, CondsAreMarked DEF TableIInv, LoserHasWinner, Owned,
     TableTypeOK, OnlyMoves
<1>7. QED
  BY <1>1, <1>2, <1>3, <1>4, <1>5, <1>6 DEF TableIInv

LEMMA FreeStep ==
  ASSUME TableIInv, UNCHANGED <<program, noted>>, NEW t \in Callers, FreeSlot(t)
  PROVE  TableIInv'
<1>0. TableTypeOK /\ AttemptLeft /\ ClaimHeld /\ RetiringHeld /\ LoserHasWinner
  BY DEF TableIInv
<1>a. /\ where[t] = "free" /\ at[t] \in Slots /\ cond[at[t]] = SlotRetiring
      /\ cond' = [cond EXCEPT ![at[t]] = Free]
  BY <1>0, HeldSlots, CallIs
<1>b. \A s \in Slots : s # at[t] => cond'[s] = cond[s]
  BY <1>0, <1>a DEF TableTypeOK
<1>c. \A u \in Callers \ {t} : \A s \in Slots :
         cond[s] = key[u] /\ where[u] # "idle" => cond'[s] = cond[s]
  BY <1>0, <1>a, <1>b, HeldSlots, CondsAreMarked
<1>1. TableTypeOK'
  BY <1>0, CallIs, CondsAreMarked DEF TableIInv, TableTypeOK, OnlyMoves, Placed
<1>2. AttemptLeft'
  BY <1>0, CallIs, CondsAreMarked DEF TableIInv, TableTypeOK, AttemptLeft, OnlyMoves
<1>3. KeyExact'
  BY <1>0, CallIs, CondsAreMarked DEF TableIInv, TableTypeOK, KeyExact, Lookup, Retirers,
     OnlyMoves
<1>4. ClaimHeld'
  <2>1. \A u \in Claimants \ {t} : cond'[at[u]] = cond[at[u]] /\ key'[u] = key[u]
    BY <1>0, <1>c, HeldSlots, CallIs DEF Claimants, TableTypeOK
  <2>2. QED
    BY <1>0, <2>1, ClaimsKept, CallIs
<1>5. RetiringHeld'
  <2>1. \A u \in Callers \ {t} : where[u] \in {"reset", "free"} => cond'[at[u]] = cond[at[u]]
    BY <1>0, <1>a, <1>b, HeldSlots DEF RetiringHeld
  <2>2. QED
    BY <1>0, <2>1, RetirementsKept, CallIs
<1>6. LoserHasWinner'
  <2>1. ASSUME NEW u \in Callers \ {t}, where[u] = "release"
        PROVE  key'[u] = key[u] /\ \E s \in Slots : cond'[s] = key[u] /\ s < at[u]
    <3>1. PICK s \in Slots : cond[s] = key[u] /\ s < at[u]
      BY <2>1 DEF TableIInv, LoserHasWinner, Owned
    <3>2. cond'[s] = cond[s] /\ key'[u] = key[u]
      BY <1>0, <1>c, <2>1, <3>1, CallIs DEF TableTypeOK
    <3>3. QED
      BY <3>1, <3>2
  <2>2. QED
    BY <1>0, <2>1, LosersKept, CallIs
<1>7. QED
  BY <1>1, <1>2, <1>3, <1>4, <1>5, <1>6 DEF TableIInv

LEMMA CreateStep ==
  ASSUME TableIInv, UNCHANGED <<program, noted>>, NEW c \in Conds, Create(c)
  PROVE  TableIInv'
<1>1. /\ UNCHANGED <<cond, sequence, where, key, i, at, attempt>> /\ live' = live \union {c}
      /\ c \in program /\ \A t \in Callers : key[t] # c
  BY DEF Create
<1>2. TableTypeOK' /\ AttemptLeft'
  BY <1>1 DEF TableIInv, TableTypeOK, AttemptLeft
<1>3. KeyExact'
  BY <1>1 DEF TableIInv, KeyExact, Retirers
<1>4. ClaimHeld' /\ RetiringHeld' /\ LoserHasWinner'
  BY <1>1 DEF TableIInv, ClaimHeld, Claimants, RetiringHeld, LoserHasWinner, Owned
<1>5. QED
  BY <1>2, <1>3, <1>4 DEF TableIInv

\* A raise only moves words.
LEMMA RaiseIs ==
  ASSUME TableTypeOK, NEW s \in Slots, NoteWait(s) \/ InterruptWait(s)
  PROVE  /\ UNCHANGED <<cond, live, where, key, i, at, attempt>>
         /\ sequence' \in [Slots -> 0 .. Generations - 1] /\ noted' \subseteq Slots
BY WordIs DEF NoteWait, InterruptWait, TableTypeOK

LEMMA RaiseStep ==
  ASSUME TableIInv, UNCHANGED program, NEW s \in Slots, NoteWait(s) \/ InterruptWait(s)
  PROVE  TableIInv'
<1>0. TableTypeOK
  BY DEF TableIInv
<1>1. TableTypeOK' /\ AttemptLeft'
  BY <1>0, RaiseIs DEF TableIInv, TableTypeOK, AttemptLeft
<1>2. KeyExact'
  BY <1>0, RaiseIs DEF TableIInv, KeyExact, Retirers
<1>3. ClaimHeld' /\ RetiringHeld' /\ LoserHasWinner'
  BY <1>0, RaiseIs DEF TableIInv, ClaimHeld, Claimants, RetiringHeld, LoserHasWinner, Owned
<1>4. QED
  BY <1>1, <1>2, <1>3 DEF TableIInv

LEMMA InitIsSafe == ASSUME TableInit PROVE TableIInv
<1>1. TableTypeOK
  BY SlotsAssumption DEF TableInit, TableTypeOK, Places, Slots
<1>2. AttemptLeft /\ KeyExact /\ ClaimHeld /\ RetiringHeld /\ LoserHasWinner
  BY SlotsAssumption DEF TableInit, AttemptLeft, KeyExact, ClaimHeld, Claimants, RetiringHeld,
     LoserHasWinner, Lookup, Retirers
<1>3. QED
  BY <1>1, <1>2 DEF TableIInv

LEMMA NextIsSafe == ASSUME TableIInv, [TableNext]_tableVars PROVE TableIInv'
<1>1. ASSUME NEW t \in Callers, Step(t), UNCHANGED <<program, noted>> PROVE TableIInv'
  <2>1. ASSUME NEW c \in Conds, Resolve(t, c) \/ Destroy(t, c) PROVE TableIInv'
    BY <1>1, <2>1, ResolveStep, DestroyStep
  <2>2. CASE Find(t) \/ ClaimSlot(t) \/ Winner(t) \/ Release(t)
    BY <1>1, <2>2, FindStep, ClaimSlotStep, WinnerStep, ReleaseStep
  <2>3. CASE LeaveWait(t) \/ Signal(t)
    BY <1>1, <2>3, ReturnStep
  <2>4. CASE ForgetSlot(t) \/ ResetSequence(t) \/ FreeSlot(t)
    BY <1>1, <2>4, ForgetSlotStep, ResetStep, FreeStep
  <2>5. QED
    BY <1>1, <2>1, <2>2, <2>3, <2>4 DEF Step
<1>2. ASSUME NEW c \in Conds, Create(c), UNCHANGED <<program, noted>> PROVE TableIInv'
  BY <1>2, CreateStep
<1>3. ASSUME NEW s \in Slots, NoteWait(s) \/ InterruptWait(s), UNCHANGED program PROVE TableIInv'
  BY <1>3, RaiseStep
<1>4. CASE UNCHANGED tableVars
  BY <1>4 DEF tableVars, TableIInv, TableTypeOK, AttemptLeft, KeyExact, ClaimHeld, Claimants,
     RetiringHeld, LoserHasWinner, Owned, Retirers
<1>5. QED
  BY <1>1, <1>2, <1>3, <1>4 DEF TableNext

\* Whatever the number of lookups at once: a slot claimed in cond_slot_for is its claimer's
\* alone until the claimer gives it up, who gives one up leaves the condvar a lower one, a
\* slot in retirement is its destroyer's alone, and the bounded retry keeps its count.
THEOREM TableInductive == TableSpec => []TableIInv
<1>1. TableInit => TableIInv
  BY InitIsSafe
<1>2. TableIInv /\ [TableNext]_tableVars => TableIInv'
  BY NextIsSafe
<1>3. QED
  BY <1>1, <1>2, PTL DEF TableSpec

-------------------------------------------------------------------------------
(* The rest of the invariant, for two at once in the lookup of a condvar.  *)

\* The parts in the form the steps use them.
LEMMA TwoIs ==
  ASSUME TableIInvTwo
  PROVE  /\ TableIInv /\ TableTypeOK /\ MarkedIsRetired
         /\ \A u \in Callers : where[u] = "using" /\ at[u] # 0 => cond[at[u]] = key[u]
         /\ NoThird /\ PassedByOther /\ ReliedIsWon /\ LastFinds
BY DEF TableIInvTwo, TableIInv, UsersKeepSlot

\* Two of the threads inside a lookup of one condvar are the same.
LEMMA NotThree ==
  ASSUME NoThird, NEW t \in Callers, NEW u \in Callers, NEW v \in Callers,
         where[t] \in Lookup, where[u] \in Lookup, where[v] \in Lookup,
         key[u] = key[t], key[v] = key[t]
  PROVE  t = u \/ t = v \/ u = v
BY DEF NoThird, Looking

\* What a search has passed by.
LEMMA PassedIs ==
  ASSUME PassedByOther, NEW t \in Callers, NEW u \in Callers, NEW s \in Slots,
         where[t] \in {"find", "last"}, u # t, where[u] \in Lookup, key[u] = key[t],
         cond[s] = key[t], s < i[t]
  PROVE  \/ where[u] \in {"winner", "release"} /\ at[u] = s
         \/ where[u] \in {"find", "last"} /\ i[u] <= s
BY DEF PassedByOther, Looking, Owned, Claimants

\* A claimer whose slot is relied on.
LEMMA ReliedOnIs ==
  ASSUME ReliedIsWon, NEW t \in Callers, where[t] \in {"winner", "release"}, Relied(at[t])
  PROVE  /\ where[t] = "winner"
         /\ \A s \in Slots : cond[s] = key[t] /\ i[t] <= s => at[t] <= s
         /\ \A u \in Callers :
               u # t /\ key[u] = key[t] /\ where[u] \in Lookup => where[u] = "find" /\ i[u] <= at[t]
BY DEF ReliedIsWon, Claimants, Looking, Owned

\* A thread that is in no lookup after its step, or was already in this one.
LEMMA NoThirdKept ==
  ASSUME NoThird, NEW x \in Callers, OnlyMoves(x),
         \A u \in Callers \ {x} : key'[u] = key[u],
         where'[x] \in Lookup => where[x] \in Lookup /\ key'[x] = key[x]
  PROVE  NoThird'
<1>1. \A u \in Callers : where'[u] \in Lookup => where[u] \in Lookup /\ key'[u] = key[u]
  BY DEF OnlyMoves
<1> SUFFICES ASSUME NEW t \in Callers, NEW u \in Callers, NEW v \in Callers,
                    where'[t] \in Lookup, where'[u] \in Lookup, where'[v] \in Lookup,
                    key'[u] = key'[t], key'[v] = key'[t]
             PROVE  t = u \/ t = v \/ u = v
  BY DEF NoThird, Looking
<1>2. QED
  BY <1>1, NotThree

\* A step outside the lookup that leaves the slots of those inside alone.
LEMMA QuietKept ==
  ASSUME TableTypeOK, NoThird, PassedByOther, ReliedIsWon, LastFinds,
         NEW x \in Callers, OnlyMoves(x),
         where[x] \notin Lookup, where'[x] \notin Lookup \union {"using"},
         \A u \in Callers \ {x} : key'[u] = key[u],
         \A u \in Callers : where[u] \in Lookup =>
            \A s \in Slots : cond'[s] = key[u] <=> cond[s] = key[u],
         \A u \in Claimants : at[u] \in Slots
  PROVE  NoThird' /\ PassedByOther' /\ ReliedIsWon' /\ LastFinds'
<1>1. \A u \in Callers : where'[u] \in Lookup =>
         /\ u # x /\ where[u] \in Lookup /\ where'[u] = where[u] /\ key'[u] = key[u]
         /\ i'[u] = i[u] /\ at'[u] = at[u]
         /\ \A s \in Slots : cond'[s] = key[u] <=> cond[s] = key[u]
  BY DEF OnlyMoves
<1>2. NoThird'
  BY NoThirdKept
<1>3. PassedByOther'
  <2> SUFFICES ASSUME NEW t \in Callers, NEW u \in Callers, NEW s \in Slots,
                      where'[t] \in {"find", "last"}, u # t, where'[u] \in Lookup,
                      key'[u] = key'[t], cond'[s] = key'[t], s < i'[t]
               PROVE  \/ where'[u] \in {"winner", "release"} /\ at'[u] = s
                      \/ where'[u] \in {"find", "last"} /\ i'[u] <= s
    BY DEF PassedByOther, Looking, Owned, Claimants
  <2>1. where'[t] \in Lookup
    BY DEF Lookup
  <2>2. QED
    BY <1>1, <2>1, PassedIs
<1>4. ReliedIsWon'
  <2> SUFFICES ASSUME NEW t \in Callers, where'[t] \in {"winner", "release"}, Relied(at[t])'
               PROVE  /\ where'[t] = "winner"
                      /\ \A s \in Slots : cond'[s] = key'[t] /\ i'[t] <= s => at'[t] <= s
                      /\ \A u \in Callers : u # t /\ key'[u] = key'[t] /\ where'[u] \in Lookup
                            => where'[u] = "find" /\ i'[u] <= at'[t]
    BY DEF ReliedIsWon, Claimants, Looking, Owned
  <2>1. where'[t] \in Lookup
    BY DEF Lookup
  <2>2. t \in Claimants /\ at[t] \in Slots /\ at'[t] = at[t]
    BY <1>1, <2>1 DEF Claimants
  <2>3. Relied(at[t])
    BY <2>2 DEF Relied, OnlyMoves
  <2>4. QED
    BY <1>1, <2>1, <2>2, <2>3, ReliedOnIs DEF Claimants
<1>5. LastFinds'
  <2> SUFFICES ASSUME NEW t \in Callers, where'[t] = "last"
               PROVE  \E s \in Slots : cond'[s] = key'[t] /\ i'[t] <= s
    BY DEF LastFinds, Owned
  <2>1. where'[t] \in Lookup
    BY DEF Lookup
  <2>2. QED
    BY <1>1, <2>1 DEF LastFinds, Owned
<1>6. QED
  BY <1>2, <1>3, <1>4, <1>5

\* A step that neither starts nor ends a retirement.
LEMMA MarksKept ==
  ASSUME MarkedIsRetired, UNCHANGED <<program, noted>>, NEW x \in Callers, OnlyMoves(x),
         where[x] \notin {"reset", "free"},
         \A s \in Slots : cond'[s] = cond[s] \/ cond'[s] \in program \union {Free}
  PROVE  MarkedIsRetired'
<1> SUFFICES ASSUME NEW s \in Slots, cond'[s] \notin program \union {Free}
             PROVE  /\ cond'[s] = SlotRetiring
                    /\ \E t \in Callers : where'[t] \in {"reset", "free"} /\ at'[t] = s
  BY DEF MarkedIsRetired
<1>1. cond'[s] = cond[s]
  OBVIOUS
<1>2. PICK t \in Callers : where[t] \in {"reset", "free"} /\ at[t] = s
  BY <1>1 DEF MarkedIsRetired
<1>3. where'[t] \in {"reset", "free"} /\ at'[t] = s
  BY <1>2 DEF OnlyMoves
<1>4. QED
  BY <1>1, <1>3 DEF MarkedIsRetired

\* A step that leaves the slots in use alone.
LEMMA UsesKept ==
  ASSUME UsersKeepSlot, NEW x \in Callers, OnlyMoves(x),
         \A u \in Callers \ {x} : where[u] = "using" /\ at[u] # 0 =>
            cond'[at[u]] = cond[at[u]] /\ key'[u] = key[u],
         where'[x] = "using" /\ at'[x] # 0 => cond'[at'[x]] = key'[x]
  PROVE  UsersKeepSlot'
<1>1. \A u \in Callers : where'[u] = "using" /\ at'[u] # 0 => cond'[at'[u]] = key'[u]
  <2>1. ASSUME NEW u \in Callers \ {x}, where'[u] = "using", at'[u] # 0
        PROVE  cond'[at'[u]] = key'[u]
    <3>1. where[u] = "using" /\ at[u] # 0 /\ at'[u] = at[u]
      BY <2>1 DEF OnlyMoves
    <3>2. cond[at[u]] = key[u]
      BY <3>1 DEF UsersKeepSlot
    <3>3. QED
      BY <3>1, <3>2
  <2>2. QED
    BY <2>1
<1>2. QED
  BY <1>1 DEF UsersKeepSlot

\* A program with one condvar; a call is about that one.
LEMMA AloneIs ==
  ASSUME TableIInv, Cardinality(program) = 1
  PROVE  \E c \in Conds : /\ program = {c}
                          /\ \A t \in Callers : where[t] # "idle" => key[t] = c
<1>1. IsFiniteSet(program) /\ program \subseteq Conds
  BY SlotsAssumption, FS_Subset, CondsAreMarked DEF TableIInv
<1>2. PICK c : program = {c}
  BY <1>1, FS_Singleton
<1>3. \A t \in Callers : where[t] # "idle" => key[t] \in program
  BY DEF TableIInv, KeyExact, TableTypeOK, Places, Lookup, Retirers
<1>4. QED
  BY <1>1, <1>2, <1>3

\* While the one condvar lives, no slot is left behind.
LEMMA NoLeakWhenLive ==
  ASSUME MarkedIsRetired', NEW c, program' = {c}, c \in live'
  PROVE  NoSlotLeak'
BY SlotsAssumption DEF NoSlotLeak, MarkedIsRetired

-------------------------------------------------------------------------------
\* At most one thread is inside a lookup of c when another starts one.
LEMMA StartsSecond ==
  ASSUME MaxLookups <= 2, NEW c \in Conds, NEW u \in Callers, NEW v \in Callers,
         Cardinality({w \in Callers : key[w] = c /\ where[w] \in Lookup}) < MaxLookups,
         key[u] = c, where[u] \in Lookup, key[v] = c, where[v] \in Lookup
  PROVE  u = v
<1> DEFINE In == {w \in Callers : key[w] = c /\ where[w] \in Lookup}
<1>1. IsFiniteSet(In)
  BY SlotsAssumption, FS_Subset
<1>2. SUFFICES ASSUME u # v PROVE FALSE
  OBVIOUS
<1>3. {u, v} \subseteq In
  OBVIOUS
<1>4. IsFiniteSet({u, v}) /\ Cardinality({u, v}) = 2
  <2>1. IsFiniteSet({u}) /\ Cardinality({u}) = 1
    BY FS_Singleton
  <2>2. {u, v} = {u} \union {v} /\ v \notin {u}
    BY <1>2
  <2>3. Cardinality({u} \union {v}) = Cardinality({u}) + 1
    BY <2>1, <2>2, FS_AddElement
  <2>4. IsFiniteSet({u, v})
    BY <2>1, <2>2, FS_AddElement
  <2>5. QED
    BY <2>1, <2>2, <2>3, <2>4
<1>5. Cardinality({u, v}) <= Cardinality(In) /\ Cardinality(In) \in Nat
  BY <1>1, <1>3, FS_Subset, FS_CardinalityType
<1>6. Cardinality(In) < MaxLookups
  OBVIOUS
<1>7. QED
  BY SlotsAssumption, <1>4, <1>5, <1>6

LEMMA ResolveTwo ==
  ASSUME MaxLookups <= 2, TableIInvTwo, UNCHANGED <<program, noted>>, NEW x \in Callers,
         NEW c \in Conds, Resolve(x, c)
  PROVE  TableIInvTwo'
<1>0. /\ OnlyMoves(x) /\ where[x] = "idle" /\ where'[x] = "find" /\ i'[x] = 1 /\ at'[x] = at[x]
      /\ key' \in [Callers -> Conds \union {NoCond}] /\ key'[x] = c
      /\ \A u \in Callers \ {x} : key'[u] = key[u]
      /\ UNCHANGED <<cond, sequence, live, attempt>>
  BY TwoIs, CallIs DEF TableTypeOK
<1>1. TableIInv'
  BY TwoIs, ResolveStep
<1>2. UsersKeepSlot'
  BY <1>0, UsesKept DEF TableIInvTwo
<1>3. MarkedIsRetired'
  BY <1>0, TwoIs, MarksKept
<1>4. \A u, v \in Callers \ {x} :
         where[u] \in Lookup /\ where[v] \in Lookup /\ key[u] = c /\ key[v] = c => u = v
  BY StartsSecond DEF Resolve
<1>5. \A u \in Callers \ {x} : /\ where'[u] = where[u] /\ i'[u] = i[u] /\ at'[u] = at[u]
  BY <1>0 DEF OnlyMoves
<1>6. NoThird'
  <2> SUFFICES ASSUME NEW t \in Callers, NEW u \in Callers, NEW v \in Callers,
                      where'[t] \in Lookup, where'[u] \in Lookup, where'[v] \in Lookup,
                      key'[u] = key'[t], key'[v] = key'[t]
               PROVE  t = u \/ t = v \/ u = v
    BY DEF NoThird, Looking
  <2>1. CASE x \notin {t, u, v}
    BY <1>0, <1>5, <2>1, TwoIs, NotThree
  <2>2. CASE x \in {t, u, v}
    BY <1>0, <1>4, <1>5, <2>2
  <2>3. QED
    BY <2>1, <2>2
<1>7. PassedByOther'
  <2> SUFFICES ASSUME NEW t \in Callers, NEW u \in Callers, NEW s \in Slots,
                      where'[t] \in {"find", "last"}, u # t, where'[u] \in Lookup,
                      key'[u] = key'[t], cond'[s] = key'[t], s < i'[t]
               PROVE  \/ where'[u] \in {"winner", "release"} /\ at'[u] = s
                      \/ where'[u] \in {"find", "last"} /\ i'[u] <= s
    BY DEF PassedByOther, Looking, Owned, Claimants
  <2>0. s \in Nat /\ s >= 1
    BY DEF Slots
  <2>1. CASE t = x
    BY <1>0, <2>0, <2>1
  <2>2. CASE u = x
    BY <1>0, <2>0, <2>2
  <2>3. CASE t # x /\ u # x
    BY <1>0, <1>5, <2>3, TwoIs, PassedIs
  <2>4. QED
    BY <2>1, <2>2, <2>3
<1>8. ReliedIsWon'
  <2> SUFFICES ASSUME NEW t \in Callers, where'[t] \in {"winner", "release"}, Relied(at[t])'
               PROVE  /\ where'[t] = "winner"
                      /\ \A s \in Slots : cond'[s] = key'[t] /\ i'[t] <= s => at'[t] <= s
                      /\ \A u \in Callers : u # t /\ key'[u] = key'[t] /\ where'[u] \in Lookup
                            => where'[u] = "find" /\ i'[u] <= at'[t]
    BY DEF ReliedIsWon, Claimants, Looking, Owned
  <2>1. t # x /\ where[t] \in {"winner", "release"} /\ at'[t] = at[t] /\ key'[t] = key[t]
    BY <1>0, <1>5
  <2>2. Relied(at[t])
    BY <1>0, <1>5, <2>1 DEF Relied
  <2>3. at[t] \in Nat /\ at[t] >= 1
    BY <2>1, TwoIs, HeldSlots DEF Claimants, Slots
  <2>4. QED
    BY <1>0, <1>5, <2>1, <2>2, <2>3, TwoIs, ReliedOnIs
<1>9. LastFinds'
  BY <1>0, <1>5, TwoIs DEF LastFinds, Owned
<1>10. QED
  BY <1>1, <1>2, <1>3, <1>6, <1>7, <1>8, <1>9 DEF TableIInvTwo

LEMMA FindTwo ==
  ASSUME TableIInvTwo, UNCHANGED <<program, noted>>, NEW x \in Callers, Find(x)
  PROVE  TableIInvTwo'
<1>0. /\ TableTypeOK /\ where[x] \in {"find", "last"} /\ OnlyMoves(x)
      /\ UNCHANGED <<cond, sequence, live, key, attempt>>
  BY TwoIs, FindIs
<1>a. i[x] \in Slots /\ i[x] \in Nat /\ NSlots \in Nat
  BY <1>0, CondsAreMarked DEF TableTypeOK
<1>b. \A u \in Callers \ {x} : /\ where'[u] = where[u] /\ i'[u] = i[u] /\ at'[u] = at[u]
  BY <1>0 DEF OnlyMoves
<1>c. \/ cond[i[x]] = key[x] /\ where'[x] = "using" /\ i'[x] = 1 /\ at'[x] = i[x]
      \/ /\ cond[i[x]] # key[x] /\ i[x] < NSlots /\ i'[x] = i[x] + 1
         /\ where'[x] = where[x] /\ at'[x] = at[x]
      \/ /\ cond[i[x]] # key[x] /\ i[x] = NSlots /\ i'[x] = 1
         /\ where[x] = "find" /\ where'[x] = "claim" /\ at'[x] = at[x]
  <2>1. CASE cond[i[x]] # key[x] /\ i[x] = NSlots /\ where[x] = "last"
    <3>1. PICK s \in Slots : cond[s] = key[x] /\ i[x] <= s
      BY <2>1, TwoIs DEF LastFinds, Owned
    <3>2. s = NSlots
      BY <1>a, <2>1, <3>1 DEF Slots
    <3>3. QED
      BY <2>1, <3>1, <3>2
  <2>2. QED
    BY <1>0, <2>1, FindIs
<1>1. TableIInv'
  BY TwoIs, FindStep
<1>2. UsersKeepSlot'
  <2>1. where'[x] = "using" /\ at'[x] # 0 => cond'[at'[x]] = key'[x]
    BY <1>0, <1>c
  <2>2. QED
    BY <1>0, <2>1, UsesKept DEF TableIInvTwo
<1>3. MarkedIsRetired'
  BY <1>0, TwoIs, MarksKept
<1>4. NoThird'
  BY <1>0, TwoIs, NoThirdKept DEF Lookup
<1>5. PassedByOther'
  <2> SUFFICES ASSUME NEW t \in Callers, NEW u \in Callers, NEW s \in Slots,
                      where'[t] \in {"find", "last"}, u # t, where'[u] \in Lookup,
                      key'[u] = key'[t], cond'[s] = key'[t], s < i'[t]
               PROVE  \/ where'[u] \in {"winner", "release"} /\ at'[u] = s
                      \/ where'[u] \in {"find", "last"} /\ i'[u] <= s
    BY DEF PassedByOther, Looking, Owned, Claimants
  <2>1. CASE t = x
    <3>1. where'[x] = where[x] /\ i'[x] = i[x] + 1 /\ cond[i[x]] # key[x]
      BY <1>0, <1>c, <2>1
    <3>2. s < i[x] /\ where[u] \in Lookup /\ key[u] = key[x] /\ cond[s] = key[x]
      BY <1>0, <1>a, <1>b, <2>1, <3>1 DEF Slots
    <3>3. QED
      BY <1>0, <1>b, <2>1, <3>2, TwoIs, PassedIs
  <2>2. CASE u = x
    <3>1. where[t] \in {"find", "last"} /\ s < i[t] /\ key[x] = key[t] /\ cond[s] = key[t]
      BY <1>0, <1>b, <2>2
    <3>2. i[x] <= s
      BY <1>0, <2>2, <3>1, TwoIs, PassedIs DEF Lookup
    <3>3. cond[i[x]] # key[x] => i[x] + 1 <= s /\ i[x] < NSlots
      BY <1>a, <3>1, <3>2 DEF Slots
    <3>4. where'[x] \in Lookup => cond[i[x]] # key[x]
      BY <1>c DEF Lookup
    <3>5. QED
      BY <1>0, <1>a, <1>c, <2>2, <3>3, <3>4
  <2>3. CASE t # x /\ u # x
    BY <1>0, <1>b, <2>3, TwoIs, PassedIs
  <2>4. QED
    BY <2>1, <2>2, <2>3
<1>6. ReliedIsWon'
  <2> SUFFICES ASSUME NEW t \in Callers, where'[t] \in {"winner", "release"}, Relied(at[t])'
               PROVE  /\ where'[t] = "winner"
                      /\ \A s \in Slots : cond'[s] = key'[t] /\ i'[t] <= s => at'[t] <= s
                      /\ \A u \in Callers : u # t /\ key'[u] = key'[t] /\ where'[u] \in Lookup
                            => where'[u] = "find" /\ i'[u] <= at'[t]
    BY DEF ReliedIsWon, Claimants, Looking, Owned
  <2>1. /\ t # x /\ where[t] \in {"winner", "release"} /\ where'[t] = where[t]
        /\ i'[t] = i[t] /\ at'[t] = at[t]
    BY <1>0, <1>b, <1>c
  <2>2. at[t] \in Slots /\ at[t] \in Nat /\ cond[at[t]] = key[t] /\ i[t] \in Nat
    BY <2>1, TwoIs, HeldSlots DEF Claimants, Slots, TableTypeOK
  <2>a. \A u \in Callers : u # t /\ u # x /\ where[u] \in Lookup /\ key[u] = key[t]
                              /\ key[x] = key[t] => FALSE
    BY <1>0, <2>1, TwoIs, NotThree DEF Lookup
  <2>3. CASE Relied(at[t])
    <3>1. /\ where[t] = "winner" /\ \A s \in Slots : cond[s] = key[t] /\ i[t] <= s => at[t] <= s
          /\ \A u \in Callers :
               u # t /\ key[u] = key[t] /\ where[u] \in Lookup => where[u] = "find" /\ i[u] <= at[t]
      BY <2>1, <2>3, TwoIs, ReliedOnIs
    <3>2. ASSUME key[x] = key[t], where'[x] \in Lookup PROVE where'[x] = "find" /\ i'[x] <= at[t]
      <4>1. where[x] = "find" /\ i[x] <= at[t] /\ cond[i[x]] # key[x]
        BY <1>0, <1>c, <2>1, <3>1, <3>2 DEF Lookup
      <4>2. i[x] + 1 <= at[t] /\ i[x] < NSlots
        BY <1>a, <2>2, <3>2, <4>1 DEF Slots
      <4>3. QED
        BY <1>a, <1>c, <4>1, <4>2
    <3>3. QED
      BY <1>0, <1>b, <2>1, <3>1, <3>2
  <2>4. CASE ~Relied(at[t])
    <3>1. where'[x] = "using" /\ at'[x] = at[t]
      BY <1>0, <1>b, <2>1, <2>4 DEF Relied
    <3>2. i[x] = at[t] /\ cond[i[x]] = key[x] /\ key[x] = key[t]
      BY <1>0, <1>c, <2>2, <3>1
    <3>3. ASSUME NEW s \in Slots, cond[s] = key[t], s < at[t] PROVE FALSE
      <4>1. where[t] \in Lookup /\ key[t] = key[x] /\ cond[s] = key[x] /\ s < i[x] /\ t # x
        BY <2>1, <3>2, <3>3 DEF Lookup
      <4>2. at[t] = s
        BY <1>0, <2>1, <4>1, TwoIs, PassedIs
      <4>3. QED
        BY <2>2, <3>3, <4>2
    <3>4. where[t] = "winner"
      BY <2>1, <3>3, TwoIs DEF TableIInv, LoserHasWinner, Owned
    <3>5. \A s \in Slots : cond[s] = key[t] /\ i[t] <= s => at[t] <= s
      BY <2>2, <3>3 DEF Slots
    <3>6. where'[x] \notin Lookup
      BY <3>1 DEF Lookup
    <3>7. QED
      BY <1>0, <1>b, <2>1, <2>a, <3>2, <3>4, <3>5, <3>6
  <2>5. QED
    BY <2>3, <2>4
<1>7. LastFinds'
  <2> SUFFICES ASSUME NEW t \in Callers, where'[t] = "last"
               PROVE  \E s \in Slots : cond'[s] = key'[t] /\ i'[t] <= s
    BY DEF LastFinds, Owned
  <2>1. CASE t # x
    BY <1>0, <1>b, <2>1, TwoIs DEF LastFinds, Owned
  <2>2. CASE t = x
    <3>1. where[x] = "last" /\ i'[x] = i[x] + 1 /\ cond[i[x]] # key[x]
      BY <1>0, <1>c, <2>2
    <3>2. PICK s \in Slots : cond[s] = key[x] /\ i[x] <= s
      BY <3>1, TwoIs DEF LastFinds, Owned
    <3>3. i[x] + 1 <= s
      BY <1>a, <3>1, <3>2 DEF Slots
    <3>4. QED
      BY <1>0, <2>2, <3>1, <3>2, <3>3
  <2>3. QED
    BY <2>1, <2>2
<1>8. QED
  BY <1>1, <1>2, <1>3, <1>4, <1>5, <1>6, <1>7 DEF TableIInvTwo

\* A claimed slot was nobody's: its generation is reset and nobody sleeps on it.
LEMMA FreeSlotIsUnused ==
  ASSUME TableIInvTwo, NEW s \in Slots, cond[s] = Free
  PROVE  ~Relied(s)
<1>1. ASSUME NEW u \in Callers, where[u] = "using", at[u] = s PROVE FALSE
  <2>1. at[u] # 0 /\ key[u] \in Conds
    BY <1>1, TwoIs, HeldSlots DEF Slots
  <2>2. QED
    BY <1>1, <2>1, TwoIs, CondsAreMarked
<1>2. QED
  BY <1>1 DEF Relied

LEMMA ClaimTwo ==
  ASSUME TableIInvTwo, UNCHANGED <<program, noted>>, NEW x \in Callers, ClaimSlot(x)
  PROVE  TableIInvTwo'
<1>0. /\ TableTypeOK /\ where[x] = "claim" /\ OnlyMoves(x)
      /\ UNCHANGED <<sequence, live, key, attempt>>
  BY TwoIs, ClaimIs
<1>a. i[x] \in Slots /\ i[x] # 0 /\ key[x] \in program
  BY <1>0, TwoIs, CondsAreMarked DEF TableTypeOK, Slots, TableIInv, KeyExact, Lookup
<1>b. \A u \in Callers \ {x} : /\ where'[u] = where[u] /\ i'[u] = i[u] /\ at'[u] = at[u]
  BY <1>0 DEF OnlyMoves
<1>c. \/ /\ cond[i[x]] = Free /\ cond' = [cond EXCEPT ![i[x]] = key[x]]
         /\ where'[x] = "winner" /\ at'[x] = i[x]
      \/ cond' = cond /\ where'[x] = "claim" /\ at'[x] = at[x]
      \/ cond' = cond /\ where'[x] = "using" /\ at'[x] = 0
  BY <1>0, ClaimIs
<1>d. \A s \in Slots : \/ cond'[s] = cond[s]
                       \/ /\ s = i[x] /\ cond[s] = Free /\ cond'[s] = key[x]
                          /\ where'[x] = "winner" /\ at'[x] = s
  BY <1>0, <1>c DEF TableTypeOK
<1>e. \A s \in Slots : Relied(s)' => Relied(s) /\ cond'[s] = cond[s]
  <2>1. \A s \in Slots : Relied(s)' => Relied(s)
    BY <1>0, <1>b, <1>c DEF Relied, Slots
  <2>2. QED
    BY <1>d, <2>1, FreeSlotIsUnused
<1>1. TableIInv'
  BY TwoIs, ClaimSlotStep
<1>2. UsersKeepSlot'
  <2>1. where'[x] = "using" => at'[x] = 0
    BY <1>c
  <2>2. \A u \in Callers \ {x} : where[u] = "using" /\ at[u] # 0 => cond'[at[u]] = cond[at[u]]
    <3>1. \A u \in Callers : where[u] = "using" /\ at[u] # 0 => Relied(at[u]) /\ at[u] \in Slots
      BY <1>0 DEF Relied, TableTypeOK, Slots
    <3>2. QED
      BY <1>d, <3>1, FreeSlotIsUnused
  <2>3. QED
    BY <1>0, <2>1, <2>2, UsesKept DEF TableIInvTwo
<1>3. MarkedIsRetired'
  BY <1>0, <1>a, <1>d, TwoIs, MarksKept
<1>4. NoThird'
  BY <1>0, TwoIs, NoThirdKept DEF Lookup
<1>5. PassedByOther'
  <2> SUFFICES ASSUME NEW t \in Callers, NEW u \in Callers, NEW s \in Slots,
                      where'[t] \in {"find", "last"}, u # t, where'[u] \in Lookup,
                      key'[u] = key'[t], cond'[s] = key'[t], s < i'[t]
               PROVE  \/ where'[u] \in {"winner", "release"} /\ at'[u] = s
                      \/ where'[u] \in {"find", "last"} /\ i'[u] <= s
    BY DEF PassedByOther, Looking, Owned, Claimants
  <2>0. /\ t # x /\ where[t] \in {"find", "last"} /\ i'[t] = i[t]
        /\ where[t] \in Lookup /\ where[x] \in Lookup
    BY <1>0, <1>b, <1>c DEF Lookup
  <2>1. CASE u # x
    <3>1. where[u] \in Lookup /\ key[u] = key[t]
      BY <1>0, <1>b, <2>1
    <3>2. key[x] # key[t]
      BY <2>0, <2>1, <3>1, TwoIs, NotThree
    <3>3. cond[s] = key[t]
      BY <1>0, <1>d, <3>2
    <3>4. QED
      BY <1>0, <1>b, <2>0, <2>1, <3>1, <3>3, TwoIs, PassedIs
  <2>2. CASE u = x
    <3>1. key[x] = key[t] /\ cond'[s] = key[t] /\ s < i[t]
      BY <1>0, <2>0, <2>2
    <3>2. CASE cond[s] = key[t]
      BY <1>0, <2>0, <2>2, <3>1, <3>2, TwoIs, PassedIs
    <3>3. CASE cond[s] # key[t]
      BY <1>d, <2>2, <3>1, <3>3
    <3>4. QED
      BY <3>2, <3>3
  <2>3. QED
    BY <2>1, <2>2
<1>6. ReliedIsWon'
  <2> SUFFICES ASSUME NEW t \in Callers, where'[t] \in {"winner", "release"}, Relied(at[t])'
               PROVE  /\ where'[t] = "winner"
                      /\ \A s \in Slots : cond'[s] = key'[t] /\ i'[t] <= s => at'[t] <= s
                      /\ \A u \in Callers : u # t /\ key'[u] = key'[t] /\ where'[u] \in Lookup
                            => where'[u] = "find" /\ i'[u] <= at'[t]
    BY DEF ReliedIsWon, Claimants, Looking, Owned
  <2>0. at'[t] \in Slots
    BY <1>1, HeldSlots DEF TableIInv, ClaimHeld, Claimants, TableTypeOK, Slots
  <2>1. CASE t = x
    <3>1. at'[x] = i[x] /\ cond[i[x]] = Free
      BY <1>0, <1>c, <2>1
    <3>2. QED
      BY <1>a, <1>e, <2>1, <3>1, FreeSlotIsUnused
  <2>2. CASE t # x
    <3>1. /\ where[t] \in {"winner", "release"} /\ where'[t] = where[t]
          /\ i'[t] = i[t] /\ at'[t] = at[t] /\ Relied(at[t])
      BY <1>b, <1>e, <2>0, <2>2
    <3>2. key[x] # key[t]
      BY <1>0, <2>2, <3>1, TwoIs, ReliedOnIs DEF Lookup
    <3>3. QED
      BY <1>0, <1>b, <1>d, <2>2, <3>1, <3>2, TwoIs, ReliedOnIs
  <2>3. QED
    BY <2>1, <2>2
<1>7. LastFinds'
  <2> SUFFICES ASSUME NEW t \in Callers, where'[t] = "last"
               PROVE  \E s \in Slots : cond'[s] = key'[t] /\ i'[t] <= s
    BY DEF LastFinds, Owned
  <2>1. t # x /\ where[t] = "last" /\ i'[t] = i[t] /\ key[t] \in Conds
    BY <1>b, <1>c, TwoIs, HeldSlots
  <2>2. PICK s \in Slots : cond[s] = key[t] /\ i[t] <= s
    BY <2>1, TwoIs DEF LastFinds, Owned
  <2>3. cond'[s] = cond[s]
    BY <1>d, <2>1, <2>2, <1>0, CondsAreMarked
  <2>4. QED
    BY <1>0, <2>1, <2>2, <2>3
<1>8. QED
  BY <1>1, <1>2, <1>3, <1>4, <1>5, <1>6, <1>7 DEF TableIInvTwo

LEMMA WinnerTwo ==
  ASSUME TableIInvTwo, UNCHANGED <<program, noted>>, NEW x \in Callers, Winner(x)
  PROVE  TableIInvTwo'
<1>0. /\ TableTypeOK /\ where[x] = "winner" /\ OnlyMoves(x) /\ at'[x] = at[x]
      /\ UNCHANGED <<cond, sequence, live, key, attempt>>
  BY TwoIs, WinnerIs
<1>a. /\ i[x] \in Slots /\ i[x] \in Nat /\ NSlots \in Nat
      /\ at[x] \in Slots /\ at[x] \in Nat /\ at[x] # 0 /\ cond[at[x]] = key[x] /\ i[x] <= at[x]
  BY <1>0, TwoIs, HeldSlots, CondsAreMarked DEF TableTypeOK, TableIInv, ClaimHeld, Claimants,
     Slots
<1>b. \A u \in Callers \ {x} : /\ where'[u] = where[u] /\ i'[u] = i[u] /\ at'[u] = at[u]
  BY <1>0 DEF OnlyMoves
<1>c. \/ cond[i[x]] # key[x] /\ i'[x] = i[x] + 1 /\ where'[x] = "winner"
      \/ i[x] = at[x] /\ where'[x] = "using"
      \/ cond[i[x]] = key[x] /\ i[x] # at[x] /\ where'[x] = "release"
  <2>1. CASE cond[i[x]] # key[x] /\ i[x] = NSlots
    BY <1>a, <2>1 DEF Slots
  <2>2. QED
    BY <1>0, <2>1, WinnerIs
<1>1. TableIInv'
  BY TwoIs, WinnerStep
<1>2. UsersKeepSlot'
  <2>1. cond'[at'[x]] = key'[x]
    BY <1>0, <1>a
  <2>2. QED
    BY <1>0, <2>1, UsesKept DEF TableIInvTwo
<1>3. MarkedIsRetired'
  BY <1>0, TwoIs, MarksKept
<1>4. NoThird'
  BY <1>0, TwoIs, NoThirdKept DEF Lookup
<1>5. PassedByOther'
  <2> SUFFICES ASSUME NEW t \in Callers, NEW u \in Callers, NEW s \in Slots,
                      where'[t] \in {"find", "last"}, u # t, where'[u] \in Lookup,
                      key'[u] = key'[t], cond'[s] = key'[t], s < i'[t]
               PROVE  \/ where'[u] \in {"winner", "release"} /\ at'[u] = s
                      \/ where'[u] \in {"find", "last"} /\ i'[u] <= s
    BY DEF PassedByOther, Looking, Owned, Claimants
  <2>0. t # x /\ where[t] \in {"find", "last"} /\ i'[t] = i[t]
    BY <1>b, <1>c
  <2>1. CASE u # x
    BY <1>0, <1>b, <2>0, <2>1, TwoIs, PassedIs
  <2>2. CASE u = x
    <3>1. at[x] = s
      BY <1>0, <2>0, <2>2, TwoIs, PassedIs DEF Lookup
    <3>2. where'[x] \in {"winner", "release"}
      BY <1>c, <2>2 DEF Lookup
    <3>3. QED
      BY <1>0, <2>2, <3>1, <3>2
  <2>3. QED
    BY <2>1, <2>2
<1>6. ReliedIsWon'
  <2> SUFFICES ASSUME NEW t \in Callers, where'[t] \in {"winner", "release"}, Relied(at[t])'
               PROVE  /\ where'[t] = "winner"
                      /\ \A s \in Slots : cond'[s] = key'[t] /\ i'[t] <= s => at'[t] <= s
                      /\ \A u \in Callers : u # t /\ key'[u] = key'[t] /\ where'[u] \in Lookup
                            => where'[u] = "find" /\ i'[u] <= at'[t]
    BY DEF ReliedIsWon, Claimants, Looking, Owned
  <2>1. CASE t = x
    <3>1. Relied(at[x])
      BY <1>0, <1>b, <1>c, <2>1 DEF Relied
    <3>2. /\ \A s \in Slots : cond[s] = key[x] /\ i[x] <= s => at[x] <= s
          /\ \A u \in Callers :
               u # x /\ key[u] = key[x] /\ where[u] \in Lookup => where[u] = "find" /\ i[u] <= at[x]
      BY <1>0, <3>1, TwoIs, ReliedOnIs
    <3>3. cond[i[x]] # key[x] /\ i'[x] = i[x] + 1 /\ where'[x] = "winner"
      BY <1>a, <1>c, <2>1, <3>2
    <3>4. \A s \in Slots : i[x] + 1 <= s => i[x] <= s
      BY <1>a DEF Slots
    <3>5. QED
      BY <1>0, <1>b, <2>1, <3>2, <3>3, <3>4
  <2>2. CASE t # x
    <3>1. /\ where[t] \in {"winner", "release"} /\ where'[t] = where[t]
          /\ i'[t] = i[t] /\ at'[t] = at[t]
      BY <1>b, <2>2
    <3>2. at[t] # at[x]
      BY <1>0, <2>2, <3>1, TwoIs DEF TableIInv, ClaimHeld, Claimants
    <3>3. Relied(at[t])
      BY <1>0, <1>b, <3>1, <3>2 DEF Relied
    <3>4. key[x] # key[t]
      BY <1>0, <2>2, <3>1, <3>3, TwoIs, ReliedOnIs DEF Lookup
    <3>5. QED
      BY <1>0, <1>b, <2>2, <3>1, <3>3, <3>4, TwoIs, ReliedOnIs
  <2>3. QED
    BY <2>1, <2>2
<1>7. LastFinds'
  BY <1>0, <1>b, <1>c, TwoIs DEF LastFinds, Owned
<1>8. QED
  BY <1>1, <1>2, <1>3, <1>4, <1>5, <1>6, <1>7 DEF TableIInvTwo

LEMMA ReleaseTwo ==
  ASSUME TableIInvTwo, UNCHANGED <<program, noted>>, NEW x \in Callers, Release(x)
  PROVE  TableIInvTwo'
<1>0. /\ TableTypeOK /\ where[x] = "release" /\ OnlyMoves(x) /\ at'[x] = 0 /\ i'[x] = 1
      /\ cond' = [cond EXCEPT ![at[x]] = Free]
      /\ UNCHANGED <<sequence, live, key>> /\ where'[x] \in {"find", "last"}
  BY TwoIs, ReleaseIs DEF TableIInv
<1>a. at[x] \in Slots /\ cond[at[x]] = key[x] /\ key[x] \in Conds
  BY <1>0, TwoIs, HeldSlots DEF Claimants
<1>b. \A u \in Callers \ {x} : /\ where'[u] = where[u] /\ i'[u] = i[u] /\ at'[u] = at[u]
  BY <1>0 DEF OnlyMoves
<1>c. cond'[at[x]] = Free /\ \A s \in Slots : s # at[x] => cond'[s] = cond[s]
  BY <1>0, <1>a DEF TableTypeOK
<1>d. ~Relied(at[x])
  BY <1>0, TwoIs, ReliedOnIs
<1>e. \A u \in Callers : where[u] # "idle" => \A s \in Slots : cond'[s] = key[u] => cond[s] = key[u]
  BY <1>c, TwoIs, HeldSlots, CondsAreMarked
<1>1. TableIInv'
  BY TwoIs, ReleaseStep
<1>2. UsersKeepSlot'
  <2>1. \A u \in Callers \ {x} : where[u] = "using" /\ at[u] # 0 => cond'[at[u]] = cond[at[u]]
    <3>1. \A u \in Callers : where[u] = "using" /\ at[u] # 0 => at[u] # at[x] /\ at[u] \in Slots
      BY <1>0, <1>d DEF Relied, TableTypeOK, Slots
    <3>2. QED
      BY <1>c, <3>1
  <2>2. QED
    BY <1>0, <2>1, UsesKept DEF TableIInvTwo
<1>3. MarkedIsRetired'
  BY <1>0, <1>c, TwoIs, MarksKept
<1>4. NoThird'
  BY <1>0, TwoIs, NoThirdKept DEF Lookup
<1>5. PassedByOther'
  <2> SUFFICES ASSUME NEW t \in Callers, NEW u \in Callers, NEW s \in Slots,
                      where'[t] \in {"find", "last"}, u # t, where'[u] \in Lookup,
                      key'[u] = key'[t], cond'[s] = key'[t], s < i'[t]
               PROVE  \/ where'[u] \in {"winner", "release"} /\ at'[u] = s
                      \/ where'[u] \in {"find", "last"} /\ i'[u] <= s
    BY DEF PassedByOther, Looking, Owned, Claimants
  <2>0. s \in Nat /\ s >= 1
    BY DEF Slots
  <2>1. CASE t = x
    BY <1>0, <2>0, <2>1
  <2>2. CASE u = x
    BY <1>0, <2>0, <2>2
  <2>3. CASE t # x /\ u # x
    BY <1>0, <1>b, <1>e, <2>3, TwoIs, PassedIs
  <2>4. QED
    BY <2>1, <2>2, <2>3
<1>6. ReliedIsWon'
  <2> SUFFICES ASSUME NEW t \in Callers, where'[t] \in {"winner", "release"}, Relied(at[t])'
               PROVE  /\ where'[t] = "winner"
                      /\ \A s \in Slots : cond'[s] = key'[t] /\ i'[t] <= s => at'[t] <= s
                      /\ \A u \in Callers : u # t /\ key'[u] = key'[t] /\ where'[u] \in Lookup
                            => where'[u] = "find" /\ i'[u] <= at'[t]
    BY DEF ReliedIsWon, Claimants, Looking, Owned
  <2>1. /\ t # x /\ where[t] \in {"winner", "release"} /\ where'[t] = where[t]
        /\ i'[t] = i[t] /\ at'[t] = at[t]
    BY <1>0, <1>b
  <2>2. Relied(at[t])
    BY <1>0, <1>b, <2>1 DEF Relied
  <2>3. key[x] # key[t]
    BY <1>0, <2>1, <2>2, TwoIs, ReliedOnIs DEF Lookup
  <2>4. QED
    BY <1>0, <1>b, <1>e, <2>1, <2>2, <2>3, TwoIs, ReliedOnIs
<1>7. LastFinds'
  <2> SUFFICES ASSUME NEW t \in Callers, where'[t] = "last"
               PROVE  \E s \in Slots : cond'[s] = key'[t] /\ i'[t] <= s
    BY DEF LastFinds, Owned
  <2>0. PICK r \in Slots : cond[r] = key[x] /\ r < at[x]
    BY <1>0, TwoIs DEF TableIInv, LoserHasWinner, Owned
  <2>a. r \in Nat /\ r >= 1 /\ r # at[x] /\ cond'[r] = key[x]
    BY <1>a, <1>c, <2>0 DEF Slots
  <2>1. CASE t = x
    BY <1>0, <2>0, <2>a, <2>1
  <2>2. CASE t # x
    <3>1. where[t] = "last" /\ i'[t] = i[t] /\ i[t] \in Nat
      BY <1>0, <1>b, <2>2 DEF TableTypeOK, Slots
    <3>2. PICK s \in Slots : cond[s] = key[t] /\ i[t] <= s
      BY <3>1, TwoIs DEF LastFinds, Owned
    <3>3. CASE s # at[x]
      BY <1>0, <1>c, <3>1, <3>2, <3>3
    <3>4. CASE s = at[x]
      <4>1. key[x] = key[t] /\ cond[r] = key[t]
        BY <1>a, <2>0, <3>2, <3>4
      <4>2. ~(r < i[t])
        BY <1>0, <2>2, <2>a, <3>1, <4>1, TwoIs, PassedIs DEF Lookup
      <4>3. QED
        BY <1>0, <2>a, <3>1, <4>1, <4>2
    <3>5. QED
      BY <3>3, <3>4
  <2>3. QED
    BY <2>1, <2>2
<1>8. QED
  BY <1>1, <1>2, <1>3, <1>4, <1>5, <1>6, <1>7 DEF TableIInvTwo

LEMMA DestroyTwo ==
  ASSUME TableIInvTwo, UNCHANGED <<program, noted>>, NEW x \in Callers,
         NEW c \in Conds, Destroy(x, c)
  PROVE  TableIInvTwo'
<1>0. /\ TableTypeOK /\ OnlyMoves(x) /\ where[x] = "idle" /\ where'[x] = "forget"
      /\ \A u \in Callers \ {x} : key'[u] = key[u]
      /\ UNCHANGED <<cond, sequence, attempt>>
  BY TwoIs, CallIs DEF TableTypeOK
<1>1. TableIInv'
  BY TwoIs, DestroyStep
<1>2. UsersKeepSlot'
  BY <1>0, UsesKept DEF TableIInvTwo
<1>3. MarkedIsRetired'
  BY <1>0, TwoIs, MarksKept
<1>4. NoThird' /\ PassedByOther' /\ ReliedIsWon' /\ LastFinds'
  BY <1>0, TwoIs, HeldSlots, QuietKept DEF Lookup, Relied
<1>5. QED
  BY <1>1, <1>2, <1>3, <1>4 DEF TableIInvTwo

\* A waiter leaves, or a signaller.
LEMMA ReturnTwo ==
  ASSUME TableIInvTwo, UNCHANGED <<program, noted>>, NEW x \in Callers,
         LeaveWait(x) \/ Signal(x)
  PROVE  TableIInvTwo'
<1>0. /\ TableTypeOK /\ OnlyMoves(x) /\ where[x] = "using" /\ where'[x] = "idle"
      /\ UNCHANGED <<cond, live>>
      /\ \A u \in Callers \ {x} : key'[u] = key[u]
  BY TwoIs, CallIs DEF TableTypeOK
<1>1. TableIInv'
  BY TwoIs, ReturnStep
<1>2. UsersKeepSlot'
  BY <1>0, UsesKept DEF TableIInvTwo
<1>3. MarkedIsRetired'
  BY <1>0, TwoIs, MarksKept
<1>4. NoThird' /\ PassedByOther' /\ ReliedIsWon' /\ LastFinds'
  BY <1>0, TwoIs, HeldSlots, QuietKept DEF Lookup
<1>5. QED
  BY <1>1, <1>2, <1>3, <1>4 DEF TableIInvTwo

LEMMA ForgetTwo ==
  ASSUME TableIInvTwo, UNCHANGED <<program, noted>>, NEW x \in Callers, ForgetSlot(x)
  PROVE  TableIInvTwo'
<1>0. /\ TableTypeOK /\ OnlyMoves(x)
      /\ where[x] = "forget" /\ where'[x] \in {"forget", "reset", "idle"}
      /\ UNCHANGED <<sequence, live>>
      /\ \A u \in Callers \ {x} : key'[u] = key[u]
  BY TwoIs, ForgetIs DEF TableTypeOK
<1>a. i[x] \in Slots /\ key[x] \in Conds /\ \A u \in Callers \ {x} : key[u] # key[x]
  BY <1>0, TwoIs, HeldSlots DEF TableTypeOK, TableIInv, KeyExact, Retirers
<1>b. \A s \in Slots : \/ cond'[s] = cond[s]
                       \/ /\ cond[s] = key[x] /\ cond'[s] = SlotRetiring
                          /\ where'[x] = "reset" /\ at'[x] = s
  BY <1>0, ForgetIs DEF TableTypeOK
<1>1. TableIInv'
  BY TwoIs, ForgetSlotStep
<1>2. UsersKeepSlot'
  <2>1. \A u \in Callers \ {x} : where[u] = "using" /\ at[u] # 0 => cond'[at[u]] = cond[at[u]]
    <3>1. \A u \in Callers :
             where[u] = "using" /\ at[u] # 0 => at[u] \in Slots /\ cond[at[u]] = key[u]
      BY <1>0, TwoIs DEF TableTypeOK, Slots
    <3>2. QED
      BY <1>a, <1>b, <3>1
  <2>2. QED
    BY <1>0, <2>1, UsesKept DEF TableIInvTwo
<1>3. MarkedIsRetired'
  <2> SUFFICES ASSUME NEW s \in Slots, cond'[s] \notin program \union {Free}
               PROVE  /\ cond'[s] = SlotRetiring
                      /\ \E t \in Callers : where'[t] \in {"reset", "free"} /\ at'[t] = s
    BY DEF MarkedIsRetired
  <2>1. CASE cond'[s] = cond[s]
    <3>1. PICK t \in Callers : where[t] \in {"reset", "free"} /\ at[t] = s
      BY <2>1, TwoIs DEF MarkedIsRetired
    <3>2. t # x
      BY <1>0, <3>1
    <3>3. where'[t] \in {"reset", "free"} /\ at'[t] = s
      BY <1>0, <3>1, <3>2 DEF OnlyMoves
    <3>4. QED
      BY <2>1, <3>3, TwoIs DEF MarkedIsRetired
  <2>2. CASE cond'[s] # cond[s]
    BY <1>b, <2>2
  <2>3. QED
    BY <2>1, <2>2
<1>4. NoThird' /\ PassedByOther' /\ ReliedIsWon' /\ LastFinds'
  <2>1. \A u \in Callers : where[u] \in Lookup =>
           \A s \in Slots : cond'[s] = key[u] <=> cond[s] = key[u]
    <3>1. \A u \in Callers : where[u] \in Lookup => u # x /\ key[u] \in Conds
      BY <1>0, TwoIs, HeldSlots DEF Lookup
    <3>2. QED
      BY <1>a, <1>b, <3>1, <1>0, CondsAreMarked
  <2>2. QED
    BY <1>0, <2>1, TwoIs, HeldSlots, QuietKept DEF Lookup
<1>5. QED
  BY <1>1, <1>2, <1>3, <1>4 DEF TableIInvTwo

LEMMA ResetTwo ==
  ASSUME TableIInvTwo, UNCHANGED <<program, noted>>, NEW x \in Callers, ResetSequence(x)
  PROVE  TableIInvTwo'
<1>0. /\ TableTypeOK /\ OnlyMoves(x) /\ where[x] = "reset" /\ where'[x] = "free" /\ at'[x] = at[x]
      /\ UNCHANGED <<cond, live, key, attempt>>
  BY TwoIs, CallIs
<1>1. TableIInv'
  BY TwoIs, ResetStep
<1>2. UsersKeepSlot'
  BY <1>0, UsesKept DEF TableIInvTwo
<1>3. MarkedIsRetired'
  <2> SUFFICES ASSUME NEW s \in Slots, cond'[s] \notin program \union {Free}
               PROVE  /\ cond'[s] = SlotRetiring
                      /\ \E t \in Callers : where'[t] \in {"reset", "free"} /\ at'[t] = s
    BY DEF MarkedIsRetired
  <2>1. PICK t \in Callers : where[t] \in {"reset", "free"} /\ at[t] = s
    BY <1>0, TwoIs DEF MarkedIsRetired
  <2>2. where'[t] \in {"reset", "free"} /\ at'[t] = s
    BY <1>0, <2>1 DEF OnlyMoves
  <2>3. QED
    BY <1>0, <2>2, TwoIs DEF MarkedIsRetired
<1>4. NoThird' /\ PassedByOther' /\ ReliedIsWon' /\ LastFinds'
  BY <1>0, TwoIs, HeldSlots, QuietKept DEF Lookup
<1>5. QED
  BY <1>1, <1>2, <1>3, <1>4 DEF TableIInvTwo

LEMMA FreeTwo ==
  ASSUME TableIInvTwo, UNCHANGED <<program, noted>>, NEW x \in Callers, FreeSlot(x)
  PROVE  TableIInvTwo'
<1>0. /\ TableTypeOK /\ OnlyMoves(x) /\ where[x] = "free" /\ where'[x] = "idle"
      /\ cond' = [cond EXCEPT ![at[x]] = Free] /\ UNCHANGED <<sequence, live>>
      /\ \A u \in Callers \ {x} : key'[u] = key[u]
  BY TwoIs, CallIs DEF TableTypeOK
<1>a. at[x] \in Slots /\ cond[at[x]] = SlotRetiring
  BY <1>0, TwoIs, HeldSlots
<1>b. cond'[at[x]] = Free /\ \A s \in Slots : s # at[x] => cond'[s] = cond[s]
  BY <1>0, <1>a DEF TableTypeOK
<1>c. \A u \in Callers : where[u] # "idle" =>
         \A s \in Slots : cond'[s] = key[u] <=> cond[s] = key[u]
  BY <1>a, <1>b, <1>0, TwoIs, HeldSlots, CondsAreMarked
<1>1. TableIInv'
  BY TwoIs, FreeStep
<1>2. UsersKeepSlot'
  <2>1. \A u \in Callers \ {x} : where[u] = "using" /\ at[u] # 0 => cond'[at[u]] = cond[at[u]]
    <3>1. \A u \in Callers :
             where[u] = "using" /\ at[u] # 0 => at[u] \in Slots /\ cond[at[u]] = key[u]
      BY <1>0, TwoIs DEF TableTypeOK, Slots
    <3>2. QED
      BY <1>c, <3>1
  <2>2. QED
    BY <1>0, <2>1, UsesKept DEF TableIInvTwo
<1>3. MarkedIsRetired'
  <2> SUFFICES ASSUME NEW s \in Slots, cond'[s] \notin program \union {Free}
               PROVE  /\ cond'[s] = SlotRetiring
                      /\ \E t \in Callers : where'[t] \in {"reset", "free"} /\ at'[t] = s
    BY DEF MarkedIsRetired
  <2>1. s # at[x] /\ cond'[s] = cond[s]
    BY <1>b
  <2>2. PICK t \in Callers : where[t] \in {"reset", "free"} /\ at[t] = s
    BY <2>1, TwoIs DEF MarkedIsRetired
  <2>3. where'[t] \in {"reset", "free"} /\ at'[t] = s
    BY <1>0, <2>1, <2>2 DEF OnlyMoves
  <2>4. QED
    BY <2>1, <2>3, TwoIs DEF MarkedIsRetired
<1>4. NoThird' /\ PassedByOther' /\ ReliedIsWon' /\ LastFinds'
  <2>1. \A u \in Callers : where[u] \in Lookup =>
           \A s \in Slots : cond'[s] = key[u] <=> cond[s] = key[u]
    BY <1>c DEF Lookup
  <2>2. QED
    BY <1>0, <2>1, TwoIs, HeldSlots, QuietKept DEF Lookup
<1>5. QED
  BY <1>1, <1>2, <1>3, <1>4 DEF TableIInvTwo

LEMMA CreateTwo ==
  ASSUME TableIInvTwo, UNCHANGED <<program, noted>>, NEW c \in Conds, Create(c)
  PROVE  TableIInvTwo'
<1>1. UNCHANGED <<cond, sequence, where, key, i, at, attempt>>
  BY DEF Create
<1>2. TableIInv'
  BY TwoIs, CreateStep
<1>3. UsersKeepSlot'
  BY <1>1, <1>2 DEF TableIInv, TableIInvTwo, UsersKeepSlot
<1>4. MarkedIsRetired' /\ NoThird' /\ LastFinds'
  BY <1>1 DEF TableIInvTwo, MarkedIsRetired, NoThird, Looking, LastFinds, Owned
<1>5. PassedByOther' /\ ReliedIsWon'
  BY <1>1 DEF TableIInvTwo, PassedByOther, ReliedIsWon, Relied, Looking, Claimants, Owned
<1>6. QED
  BY <1>2, <1>3, <1>4, <1>5 DEF TableIInvTwo

LEMMA RaiseTwo ==
  ASSUME TableIInvTwo, UNCHANGED program, NEW s \in Slots, NoteWait(s) \/ InterruptWait(s)
  PROVE  TableIInvTwo'
<1>1. UNCHANGED <<cond, live, where, key, i, at, attempt>>
  BY TwoIs, RaiseIs
<1>2. TableIInv'
  BY TwoIs, RaiseStep
<1>3. UsersKeepSlot'
  BY <1>1, <1>2 DEF TableIInv, TableIInvTwo, UsersKeepSlot
<1>4. MarkedIsRetired' /\ NoThird' /\ LastFinds'
  BY <1>1 DEF TableIInvTwo, MarkedIsRetired, NoThird, Looking, LastFinds, Owned
<1>5. PassedByOther' /\ ReliedIsWon'
  BY <1>1 DEF TableIInvTwo, PassedByOther, ReliedIsWon, Relied, Looking, Claimants, Owned
<1>6. QED
  BY <1>2, <1>3, <1>4, <1>5 DEF TableIInvTwo

LEMMA InitIsSafeTwo == ASSUME TableInit PROVE TableIInvTwo
<1>1. TableIInv
  BY InitIsSafe
<1>2. UsersKeepSlot /\ MarkedIsRetired
  BY <1>1 DEF TableInit, TableIInv, UsersKeepSlot,
     MarkedIsRetired
<1>3. NoThird /\ PassedByOther /\ ReliedIsWon /\ LastFinds
  BY DEF TableInit, NoThird, PassedByOther, ReliedIsWon, LastFinds, Looking, Lookup, Claimants
<1>4. QED
  BY <1>1, <1>2, <1>3 DEF TableIInvTwo

LEMMA NextIsSafeTwo ==
  ASSUME MaxLookups <= 2, TableIInvTwo, [TableNext]_tableVars
  PROVE  TableIInvTwo'
<1>1. ASSUME NEW t \in Callers, Step(t), UNCHANGED <<program, noted>> PROVE TableIInvTwo'
  <2>1. ASSUME NEW c \in Conds, Resolve(t, c) \/ Destroy(t, c) PROVE TableIInvTwo'
    BY <1>1, <2>1, ResolveTwo, DestroyTwo
  <2>2. CASE Find(t) \/ ClaimSlot(t) \/ Winner(t) \/ Release(t)
    BY <1>1, <2>2, FindTwo, ClaimTwo, WinnerTwo, ReleaseTwo
  <2>3. CASE LeaveWait(t) \/ Signal(t)
    BY <1>1, <2>3, ReturnTwo
  <2>4. CASE ForgetSlot(t) \/ ResetSequence(t) \/ FreeSlot(t)
    BY <1>1, <2>4, ForgetTwo, ResetTwo, FreeTwo
  <2>5. QED
    BY <1>1, <2>1, <2>2, <2>3, <2>4 DEF Step
<1>2. ASSUME NEW c \in Conds, Create(c), UNCHANGED <<program, noted>> PROVE TableIInvTwo'
  BY <1>2, CreateTwo
<1>3. ASSUME NEW s \in Slots, NoteWait(s) \/ InterruptWait(s), UNCHANGED program PROVE TableIInvTwo'
  BY <1>3, RaiseTwo
<1>4. CASE UNCHANGED tableVars
  <2>1. TableIInv'
    BY <1>4, NextIsSafe, TwoIs
  <2>2. UsersKeepSlot'
    BY <1>4 DEF tableVars, TableIInvTwo, UsersKeepSlot, TableTypeOK
  <2>3. MarkedIsRetired' /\ NoThird' /\ LastFinds'
    BY <1>4 DEF tableVars, TableIInvTwo, MarkedIsRetired, NoThird, Looking,
       LastFinds, Owned
  <2>4. PassedByOther' /\ ReliedIsWon'
    BY <1>4 DEF tableVars, TableIInvTwo, PassedByOther, ReliedIsWon, Relied, Looking,
       Claimants, Owned
  <2>5. QED
    BY <2>1, <2>2, <2>3, <2>4 DEF TableIInvTwo
<1>5. QED
  BY <1>1, <1>2, <1>3, <1>4 DEF TableNext

-------------------------------------------------------------------------------
(* The condvar that has the table to itself.                               *)

\* AloneInFirst, of the one condvar c.
InFirst(c) ==
    /\ \A s \in Slots : s # 1 /\ cond[s] = c =>
          /\ cond[1] = c
          /\ \E u \in Callers : where[u] \in {"winner", "release"} /\ at[u] = s
    /\ \A u \in Callers :
         /\ where[u] = "using" => at[u] \in {0, 1}
         /\ where[u] = "claim" /\ i[u] > 1 => cond[1] = key[u]
         /\ where[u] = "winner" /\ at[u] # 1 => i[u] = 1

LEMMA InFirstIs ==
  ASSUME NEW c, program = {c}, Cardinality(program) = 1
  PROVE  AloneInFirst <=> InFirst(c) /\ NoSlotLeak
<1>1. 1 \in Slots
  BY SlotsAssumption DEF Slots
<1>2. QED
  BY <1>1 DEF AloneInFirst, InFirst, Owned, Claimants

\* A step that takes no slot from c and puts its thread in no place InFirst is about.
LEMMA InFirstKept ==
  ASSUME NEW c, InFirst(c), NEW x \in Callers, OnlyMoves(x), 1 \in Slots,
         \A u \in Callers \ {x} : key'[u] = key[u],
         \A s \in Slots : cond'[s] = c => cond[s] = c,
         cond[1] = c => cond'[1] = c,
         \A u \in Callers \ {x} : where[u] = "claim" => key[u] = c,
         where'[x] \notin {"using", "claim", "winner"},
         where[x] \in {"winner", "release"} => at[x] = 1 \/ cond'[at[x]] # c
  PROVE  InFirst(c)'
<1>1. ASSUME NEW s \in Slots, s # 1, cond'[s] = c
      PROVE  /\ cond'[1] = c
             /\ \E u \in Callers : where'[u] \in {"winner", "release"} /\ at'[u] = s
  <2>1. PICK u \in Callers : where[u] \in {"winner", "release"} /\ at[u] = s
    BY <1>1 DEF InFirst
  <2>2. u # x
    BY <1>1, <2>1
  <2>3. where'[u] = where[u] /\ at'[u] = at[u]
    BY <2>2 DEF OnlyMoves
  <2>4. QED
    BY <1>1, <2>1, <2>3 DEF InFirst
<1>2. ASSUME NEW u \in Callers
      PROVE  /\ where'[u] = "using" => at'[u] \in {0, 1}
             /\ where'[u] = "claim" /\ i'[u] > 1 => cond'[1] = key'[u]
             /\ where'[u] = "winner" /\ at'[u] # 1 => i'[u] = 1
  BY <1>2 DEF InFirst, OnlyMoves
<1>3. QED
  BY <1>1, <1>2 DEF InFirst

LEMMA AloneStep ==
  ASSUME TableIInvTwo, TableIInvTwo', UNCHANGED program,
         NEW c \in Conds, program = {c}, Cardinality(program) = 1,
         \A u \in Callers : where[u] # "idle" => key[u] = c,
         InFirst(c), NoSlotLeak, NEW x \in Callers, Step(x)
  PROVE  InFirst(c)' /\ NoSlotLeak'
<1>0. /\ TableTypeOK /\ MarkedIsRetired /\ MarkedIsRetired' /\ 1 \in Slots
      /\ SlotRetiring # c /\ Free # c /\ NSlots \in Nat /\ Slots \subseteq Nat
      /\ live \subseteq {c}
  BY TwoIs, CondsAreMarked DEF TableIInvTwo
\* In a lookup or a use the condvar lives, and no retirement is on.
<1>a. \A u \in Callers : where[u] \in Lookup \union {"using"} =>
         c \in live /\ \A s \in Slots : cond[s] \in {c, Free}
  <2>1. ASSUME NEW u \in Callers, where[u] \in Lookup \union {"using"}
        PROVE  c \in live /\ \A s \in Slots : cond[s] \in {c, Free}
    <3>1. key[u] = c /\ c \in live
      BY <2>1, TwoIs DEF TableIInv, KeyExact, Lookup
    <3>2. \A v \in Callers : where[v] \notin {"forget", "reset", "free"}
      BY <3>1, TwoIs DEF TableIInv, KeyExact, Retirers
    <3>3. QED
      BY <1>0, <3>1, <3>2 DEF MarkedIsRetired
  <2>2. QED
    BY <2>1
\* In a retirement every other thread is idle.
<1>b. \A u \in Callers : where[u] \in {"forget", "reset", "free"} =>
         /\ c \notin live /\ \A v \in Callers \ {u} : where[v] = "idle"
  BY TwoIs DEF TableIInv, KeyExact, Retirers
\* No other condvar has a slot.
<1>c. \A s \in Slots : cond[s] \in Conds => cond[s] = c
  <2>1. Free \notin Conds /\ SlotRetiring \notin Conds /\ program = {c} /\ MarkedIsRetired
    BY <1>0, CondsAreMarked
  <2>2. QED
    BY <2>1, Zenon DEF MarkedIsRetired
<1>1. ASSUME NEW d \in Conds, Resolve(x, d) PROVE InFirst(c)' /\ NoSlotLeak'
  <2>1. /\ OnlyMoves(x) /\ where[x] = "idle" /\ where'[x] = "find" /\ d \in live
        /\ UNCHANGED <<cond, live>> /\ \A u \in Callers \ {x} : key'[u] = key[u]
    BY <1>0, <1>1, CallIs DEF TableTypeOK
  <2>2. NoSlotLeak'
    BY <1>0, <2>1, NoLeakWhenLive
  <2>3. QED
    BY <1>0, <2>1, <2>2, InFirstKept
<1>2. ASSUME NEW d \in Conds, Destroy(x, d) PROVE InFirst(c)' /\ NoSlotLeak'
  <2>1. /\ OnlyMoves(x) /\ where[x] = "idle" /\ where'[x] = "forget" /\ i'[x] = 1
        /\ d \in live /\ key'[x] = d /\ UNCHANGED cond
        /\ \A u \in Callers \ {x} : key'[u] = key[u]
    BY <1>0, <1>2, CallIs DEF TableTypeOK
  <2>2. NoSlotLeak'
    <3>1. d = c /\ \A s \in Slots : cond'[s] \in Conds => cond'[s] = c
      BY <1>0, <1>c, <2>1
    <3>2. \A s \in Slots : i'[x] <= s
      BY <2>1 DEF Slots
    <3>3. QED
      BY <2>1, <3>1, <3>2 DEF NoSlotLeak
  <2>3. QED
    BY <1>0, <2>1, <2>2, InFirstKept
<1>3. CASE Find(x)
  <2>1. /\ OnlyMoves(x) /\ where[x] \in {"find", "last"} /\ UNCHANGED <<cond, live, key>>
        /\ i[x] \in Slots
    BY <1>0, <1>3, FindIs DEF TableTypeOK
  <2>2. NoSlotLeak'
    BY <1>0, <1>a, <2>1, NoLeakWhenLive DEF Lookup
  <2>3. where'[x] \in {"find", "last"} \/ (where'[x] = "claim" /\ i'[x] = 1)
           \/ (where'[x] = "using" /\ at'[x] = 0)
           \/ (where'[x] = "using" /\ at'[x] = i[x] /\ cond[i[x]] = c)
    BY <1>0, <1>3, <2>1, FindIs
  <2>4. cond[i[x]] = c => i[x] = 1
    <3>1. ASSUME cond[i[x]] = c, i[x] # 1 PROVE FALSE
      <4>1. PICK u \in Callers : where[u] \in {"winner", "release"} /\ at[u] = i[x]
        BY <2>1, <3>1 DEF InFirst
      <4>2. cond[1] = key[x] /\ key[u] = key[x] /\ 1 < i[x] /\ u # x
        BY <2>1, <3>1, <4>1 DEF InFirst, Slots
      <4>3. at[u] = 1
        BY <1>0, <2>1, <4>1, <4>2, TwoIs, PassedIs DEF Lookup
      <4>4. QED
        BY <3>1, <4>1, <4>3
    <3>2. QED
      BY <3>1
  <2>5. InFirst(c)'
    <3>1. ASSUME NEW s \in Slots, s # 1, cond'[s] = c
          PROVE  /\ cond'[1] = c
                 /\ \E u \in Callers : where'[u] \in {"winner", "release"} /\ at'[u] = s
      <4>1. PICK u \in Callers : where[u] \in {"winner", "release"} /\ at[u] = s
        BY <2>1, <3>1 DEF InFirst
      <4>2. where'[u] = where[u] /\ at'[u] = at[u]
        BY <2>1, <4>1 DEF OnlyMoves
      <4>3. QED
        BY <2>1, <3>1, <4>1, <4>2 DEF InFirst
    <3>2. ASSUME NEW u \in Callers
          PROVE  /\ where'[u] = "using" => at'[u] \in {0, 1}
                 /\ where'[u] = "claim" /\ i'[u] > 1 => cond'[1] = key'[u]
                 /\ where'[u] = "winner" /\ at'[u] # 1 => i'[u] = 1
      <4>1. CASE u = x
        BY <2>3, <2>4, <4>1
      <4>2. CASE u # x
        BY <2>1, <4>2 DEF InFirst, OnlyMoves
      <4>3. QED
        BY <4>1, <4>2
    <3>3. QED
      BY <3>1, <3>2 DEF InFirst
  <2>6. QED
    BY <2>2, <2>5
<1>4. CASE ClaimSlot(x)
  <2>1. /\ OnlyMoves(x) /\ where[x] = "claim" /\ UNCHANGED <<live, key>> /\ i[x] \in Slots
        /\ key[x] = c
    BY <1>0, <1>4, ClaimIs DEF TableTypeOK
  <2>2. NoSlotLeak'
    BY <1>0, <1>a, <2>1, NoLeakWhenLive DEF Lookup
  <2>3. \/ /\ cond' = [cond EXCEPT ![i[x]] = c] /\ cond[i[x]] = Free
           /\ where'[x] = "winner" /\ at'[x] = i[x] /\ i'[x] = 1
        \/ cond' = cond /\ where'[x] = "claim" /\ cond[i[x]] # Free
        \/ cond' = cond /\ where'[x] = "using" /\ at'[x] = 0
    BY <1>0, <1>4, <2>1, ClaimIs
  <2>4. \A s \in Slots : \/ cond'[s] = cond[s]
                         \/ s = i[x] /\ cond'[s] = c /\ where'[x] = "winner" /\ at'[x] = s
    BY <1>0, <2>3 DEF TableTypeOK
  <2>5. i[x] > 1 => cond[1] = c
    BY <2>1 DEF InFirst
  <2>6. cond[1] = c => cond'[1] = c
    BY <1>0, <2>4
  <2>7. cond[i[x]] # Free => cond[1] = c
    <3>1. CASE i[x] = 1
      BY <1>0, <1>a, <2>1, <3>1 DEF Lookup
    <3>2. CASE i[x] # 1
      BY <2>1, <2>5, <3>2 DEF Slots
    <3>3. QED
      BY <3>1, <3>2
  <2>8. ASSUME NEW s \in Slots, s # 1, cond'[s] = c
        PROVE  /\ cond'[1] = c
               /\ \E u \in Callers : where'[u] \in {"winner", "release"} /\ at'[u] = s
    <3>1. CASE cond[s] = c
      <4>1. PICK u \in Callers : where[u] \in {"winner", "release"} /\ at[u] = s
        BY <2>8, <3>1 DEF InFirst
      <4>2. where'[u] = where[u] /\ at'[u] = at[u]
        BY <2>1, <4>1 DEF OnlyMoves
      <4>3. QED
        BY <2>6, <2>8, <3>1, <4>1, <4>2 DEF InFirst
    <3>2. CASE cond[s] # c
      <4>1. s = i[x] /\ where'[x] = "winner" /\ at'[x] = s
        BY <2>4, <2>8, <3>2
      <4>2. cond[1] = c
        BY <2>1, <2>5, <2>8, <4>1 DEF Slots
      <4>3. QED
        BY <2>6, <4>1, <4>2
    <3>3. QED
      BY <3>1, <3>2
  <2>9. ASSUME NEW u \in Callers
        PROVE  /\ where'[u] = "using" => at'[u] \in {0, 1}
               /\ where'[u] = "claim" /\ i'[u] > 1 => cond'[1] = key'[u]
               /\ where'[u] = "winner" /\ at'[u] # 1 => i'[u] = 1
    <3>1. CASE u = x
      BY <2>1, <2>3, <2>6, <2>7, <3>1
    <3>2. CASE u # x
      <4>1. where'[u] = where[u] /\ i'[u] = i[u] /\ at'[u] = at[u] /\ key'[u] = key[u]
        BY <2>1, <3>2 DEF OnlyMoves
      <4>2. where[u] = "claim" => key[u] = c
        OBVIOUS
      <4>3. QED
        BY <2>6, <4>1, <4>2 DEF InFirst
    <3>3. QED
      BY <3>1, <3>2
  <2>10. InFirst(c)'
    BY <2>8, <2>9 DEF InFirst
  <2>11. QED
    BY <2>2, <2>10
<1>5. CASE Winner(x)
  <2>1. /\ OnlyMoves(x) /\ where[x] = "winner" /\ UNCHANGED <<cond, live, key>>
        /\ at'[x] = at[x] /\ key[x] = c /\ at[x] \in Slots /\ cond[at[x]] = c
    BY <1>0, <1>5, WinnerIs, TwoIs, HeldSlots DEF Claimants
  <2>2. NoSlotLeak'
    BY <1>0, <1>a, <2>1, NoLeakWhenLive DEF Lookup
  <2>3. \/ cond[i[x]] # c /\ where'[x] = "winner"
        \/ i[x] = at[x] /\ where'[x] = "using"
        \/ where'[x] = "release"
    BY <1>0, <1>5, <2>1, WinnerIs
  <2>4. at[x] # 1 => cond[1] = c /\ i[x] = 1
    BY <2>1 DEF InFirst
  <2>5. ASSUME NEW s \in Slots, s # 1, cond'[s] = c
        PROVE  /\ cond'[1] = c
               /\ \E u \in Callers : where'[u] \in {"winner", "release"} /\ at'[u] = s
    <3>1. PICK u \in Callers : where[u] \in {"winner", "release"} /\ at[u] = s
      BY <2>1, <2>5 DEF InFirst
    <3>2. at'[u] = s /\ where'[u] \in {"winner", "release"}
      <4>1. CASE u = x
        BY <2>1, <2>3, <2>4, <2>5, <3>1, <4>1
      <4>2. CASE u # x
        BY <2>1, <3>1, <4>2 DEF OnlyMoves
      <4>3. QED
        BY <4>1, <4>2
    <3>3. QED
      BY <2>1, <2>5, <3>2 DEF InFirst
  <2>6. ASSUME NEW u \in Callers
        PROVE  /\ where'[u] = "using" => at'[u] \in {0, 1}
               /\ where'[u] = "claim" /\ i'[u] > 1 => cond'[1] = key'[u]
               /\ where'[u] = "winner" /\ at'[u] # 1 => i'[u] = 1
    <3>1. CASE u = x
      BY <2>1, <2>3, <2>4, <3>1
    <3>2. CASE u # x
      BY <2>1, <3>2 DEF OnlyMoves, InFirst
    <3>3. QED
      BY <3>1, <3>2
  <2>7. InFirst(c)'
    BY <2>5, <2>6 DEF InFirst
  <2>8. QED
    BY <2>2, <2>7
<1>6. CASE Release(x)
  <2>1. /\ OnlyMoves(x) /\ where[x] = "release" /\ UNCHANGED <<live, key>>
        /\ where'[x] \in {"find", "last"} /\ cond' = [cond EXCEPT ![at[x]] = Free]
        /\ at[x] \in Slots
    BY <1>0, <1>6, ReleaseIs, TwoIs, HeldSlots DEF TableIInv, Claimants
  <2>2. NoSlotLeak'
    BY <1>0, <1>a, <2>1, NoLeakWhenLive DEF Lookup
  <2>3. at[x] # 1
    BY <2>1, TwoIs DEF TableIInv, LoserHasWinner, Owned, Slots
  <2>4. cond'[at[x]] = Free /\ \A s \in Slots : s # at[x] => cond'[s] = cond[s]
    BY <1>0, <2>1 DEF TableTypeOK
  <2>5. /\ \A s \in Slots : cond'[s] = c => cond[s] = c
        /\ cond'[1] = cond[1] /\ cond'[at[x]] # c
    BY <1>0, <2>3, <2>4
  <2>6. InFirst(c)'
    BY <1>0, <2>1, <2>5, InFirstKept
  <2>7. QED
    BY <2>2, <2>6
<1>7. CASE LeaveWait(x) \/ Signal(x)
  <2>1. /\ OnlyMoves(x) /\ where[x] = "using" /\ where'[x] = "idle" /\ UNCHANGED <<cond, live>>
        /\ \A u \in Callers \ {x} : key'[u] = key[u]
    BY <1>0, <1>7, CallIs DEF TableTypeOK
  <2>2. NoSlotLeak'
    BY <1>0, <1>a, <2>1, NoLeakWhenLive
  <2>3. QED
    BY <1>0, <2>1, <2>2, InFirstKept
<1>8. CASE ForgetSlot(x)
  <2>1. /\ OnlyMoves(x) /\ where[x] = "forget" /\ where'[x] \in {"forget", "reset", "idle"}
        /\ UNCHANGED live /\ \A u \in Callers \ {x} : key'[u] = key[u]
        /\ key[x] = c /\ i[x] \in Slots
    BY <1>0, <1>8, ForgetIs DEF TableTypeOK
  <2>a. \/ /\ cond[i[x]] = c /\ cond' = [cond EXCEPT ![i[x]] = SlotRetiring]
        \/ /\ cond[i[x]] # c /\ cond' = cond /\ i'[x] = i[x] + 1 /\ key' = key
           /\ where'[x] = "forget"
        \/ /\ cond[i[x]] # c /\ cond' = cond /\ i[x] = NSlots
    BY <1>0, <1>8, <2>1, ForgetIs
  <2>2. \A s \in Slots : cond[s] = c => s = 1 /\ i[x] <= s
    <3>1. ASSUME NEW s \in Slots, cond[s] = c, s # 1 PROVE FALSE
      <4>1. PICK u \in Callers : where[u] \in {"winner", "release"}
        BY <3>1 DEF InFirst
      <4>2. QED
        BY <1>b, <2>1, <4>1
    <3>2. ASSUME NEW s \in Slots, cond[s] = c PROVE i[x] <= s
      <4>1. PICK u \in Callers : where[u] = "forget" /\ i[u] <= s
        BY <1>b, <2>1, <3>2 DEF NoSlotLeak
      <4>2. QED
        BY <1>b, <2>1, <4>1
    <3>3. QED
      BY <3>1, <3>2
  <2>3. \A s \in Slots : /\ cond'[s] = c => cond[s] = c
                         /\ cond'[s] \in Conds => cond[s] = c /\ cond'[s] = c
    <3>2. \A s \in Slots : cond'[s] = cond[s] \/ cond'[s] = SlotRetiring
      BY <1>0, <2>a DEF TableTypeOK
    <3>3. SlotRetiring \notin Conds
      BY <1>0, CondsAreMarked
    <3>4. QED
      BY <1>c, <3>2, <3>3
  <2>4. InFirst(c)'
    <3>1. \A s \in Slots : cond'[s] = c => s = 1
      BY <2>2, <2>3
    <3>2. \A u \in Callers : where'[u] \notin {"using", "claim", "winner"}
      BY <1>b, <2>1 DEF OnlyMoves
    <3>3. QED
      BY <3>1, <3>2 DEF InFirst
  <2>5. NoSlotLeak'
    <3> SUFFICES ASSUME NEW s \in Slots, cond'[s] \in Conds \ live'
                 PROVE  \E u \in Callers : where'[u] = "forget" /\ key'[u] = cond'[s] /\ i'[u] <= s
      BY DEF NoSlotLeak
    <3>1. cond[s] = c /\ cond'[s] = c /\ i[x] <= s /\ s \in Nat /\ i[x] \in Nat /\ s <= NSlots
      BY <1>0, <2>1, <2>2, <2>3 DEF Slots
    <3>2. ASSUME cond[i[x]] = c PROVE FALSE
      <4>1. i[x] = s
        BY <2>1, <2>2, <3>1, <3>2
      <4>2. cond'[s] = SlotRetiring
        BY <1>0, <2>a, <3>2, <4>1 DEF TableTypeOK
      <4>3. QED
        BY <1>0, <3>1, <4>2
    <3>3. i[x] # s /\ i[x] + 1 <= s
      BY <1>0, <3>1, <3>2
    <3>4. i'[x] = i[x] + 1 /\ key' = key /\ where'[x] = "forget"
      BY <1>0, <2>a, <3>1, <3>2, <3>3
    <3>5. QED
      BY <2>1, <3>1, <3>3, <3>4
  <2>6. QED
    BY <2>4, <2>5
<1>9. CASE ResetSequence(x)
  <2>1. /\ OnlyMoves(x) /\ where[x] = "reset" /\ where'[x] = "free" /\ UNCHANGED <<cond, live, key>>
    BY <1>0, <1>9, CallIs
  <2>2. InFirst(c)'
    BY <1>0, <2>1, InFirstKept
  <2>3. NoSlotLeak'
    BY <1>0, <1>b, <2>1 DEF NoSlotLeak
  <2>4. QED
    BY <2>2, <2>3
<1>10. CASE FreeSlot(x)
  <2>1. /\ OnlyMoves(x) /\ where[x] = "free" /\ where'[x] = "idle" /\ UNCHANGED live
        /\ cond' = [cond EXCEPT ![at[x]] = Free]
        /\ \A u \in Callers \ {x} : key'[u] = key[u]
        /\ at[x] \in Slots /\ cond[at[x]] = SlotRetiring
    BY <1>0, <1>10, CallIs, TwoIs, HeldSlots DEF TableTypeOK
  <2>2. cond'[at[x]] = Free /\ \A s \in Slots : s # at[x] => cond'[s] = cond[s]
    BY <1>0, <2>1 DEF TableTypeOK
  <2>3. \A s \in Slots : (cond'[s] = c => cond[s] = c) /\ (cond[s] = c => cond'[s] = c)
    BY <1>0, <2>1, <2>2
  <2>4. InFirst(c)'
    BY <1>0, <2>1, <2>3, InFirstKept
  <2>5. NoSlotLeak'
    <3> SUFFICES ASSUME NEW s \in Slots, cond'[s] \in Conds \ live' PROVE FALSE
      BY DEF NoSlotLeak
    <3>1. cond[s] = cond'[s] /\ cond[s] \in Conds \ live
      BY <1>0, <2>1, <2>2, CondsAreMarked
    <3>2. PICK u \in Callers : where[u] = "forget"
      BY <3>1 DEF NoSlotLeak
    <3>3. QED
      BY <1>b, <2>1, <3>2
  <2>6. QED
    BY <2>4, <2>5
<1>11. QED
  BY <1>1, <1>2, <1>3, <1>4, <1>5, <1>6, <1>7, <1>8, <1>9, <1>10 DEF Step

LEMMA NextIsSafeAlone ==
  ASSUME MaxLookups <= 2, TableIInvAlone, [TableNext]_tableVars
  PROVE  TableIInvAlone'
<1>1. TableIInvTwo /\ AloneInFirst /\ TableIInvTwo' /\ program' = program
  BY NextIsSafeTwo DEF TableIInvAlone, TableNext, tableVars
<1>2. SUFFICES ASSUME Cardinality(program) = 1 PROVE AloneInFirst'
  BY <1>1 DEF TableIInvAlone, AloneInFirst
<1>3. PICK c \in Conds : program = {c} /\ \A t \in Callers : where[t] # "idle" => key[t] = c
  BY <1>1, <1>2, AloneIs, TwoIs
<1>4. InFirst(c) /\ NoSlotLeak /\ 1 \in Slots
  BY SlotsAssumption, <1>1, <1>2, <1>3, InFirstIs DEF Slots
<1>5. SUFFICES InFirst(c)' /\ NoSlotLeak'
  BY <1>1, <1>3, <1>4 DEF AloneInFirst, InFirst, Owned, Claimants
<1>6. ASSUME NEW t \in Callers, Step(t) PROVE InFirst(c)' /\ NoSlotLeak'
  BY <1>1, <1>2, <1>3, <1>4, <1>6, AloneStep
<1>7. ASSUME NEW d \in Conds, Create(d) PROVE InFirst(c)' /\ NoSlotLeak'
  <2>1. UNCHANGED <<cond, where, key, i, at>> /\ live' = live \union {d}
    BY <1>7 DEF Create
  <2>2. QED
    BY <1>4, <2>1 DEF InFirst, NoSlotLeak
<1>8. ASSUME NEW s \in Slots, NoteWait(s) \/ InterruptWait(s) PROVE InFirst(c)' /\ NoSlotLeak'
  <2>1. UNCHANGED <<cond, where, key, i, at, live>>
    BY <1>1, <1>8, TwoIs, RaiseIs
  <2>2. QED
    BY <1>4, <2>1 DEF InFirst, NoSlotLeak
<1>9. CASE UNCHANGED tableVars
  BY <1>4, <1>9 DEF tableVars, InFirst, NoSlotLeak
<1>10. QED
  BY <1>6, <1>7, <1>8, <1>9 DEF TableNext

\* The alone condvar in the first slot is in one slot.
LEMMA FirstIsOne == TableIInvAlone => AloneOneSlot
<1> SUFFICES ASSUME TableIInvAlone, Cardinality(program) = 1 PROVE OneSlotPerCond /\ NoSlotLeak
  BY DEF AloneOneSlot
<1>1. AloneInFirst /\ NoSlotLeak
  BY DEF TableIInvAlone, AloneInFirst
<1>2. \A t \in Callers : where[t] = "using" => at[t] \in {0, 1}
  BY <1>1 DEF AloneInFirst
<1>3. QED
  BY <1>1, <1>2 DEF OneSlotPerCond

\* The only step into a use with nullptr is the end of the claim scan.
LEMMA NullStep ==
  ASSUME TableIInvTwo, [TableNext]_tableVars, NEW t \in Callers,
         where[t] \notin {"idle", "using"}, where'[t] = "using", at'[t] = 0
  PROVE  where[t] = "claim"
<1>0. TableTypeOK /\ AttemptLeft
  BY TwoIs DEF TableIInv
<1>1. CASE UNCHANGED tableVars
  BY <1>1 DEF tableVars
<1>2. ASSUME NEW c \in Conds, Create(c) PROVE FALSE
  BY <1>2 DEF Create
<1>3. ASSUME NEW x \in Callers, Step(x) PROVE where[t] = "claim"
  <2>1. CASE Find(x)
    <3>1. x = t
      BY <1>0, <2>1, FindIs DEF OnlyMoves
    <3>2. i[t] \in Slots /\ i[t] # 0 /\ NSlots \in Nat
      BY <1>0, CondsAreMarked DEF TableTypeOK, Slots
    <3>3. where[t] = "last" /\ cond[i[t]] # key[t] /\ i[t] = NSlots
      BY <1>0, <2>1, <3>1, <3>2, FindIs
    <3>4. PICK s \in Slots : cond[s] = key[t] /\ i[t] <= s
      BY <3>3, TwoIs DEF LastFinds, Owned
    <3>5. s = NSlots
      BY <3>2, <3>3, <3>4 DEF Slots
    <3>6. QED
      BY <3>3, <3>4, <3>5
  <2>2. CASE ClaimSlot(x)
    BY <1>0, <2>2, ClaimIs DEF OnlyMoves
  <2>3. CASE Winner(x)
    <3>1. x = t /\ where[t] = "winner" /\ at'[t] = at[t]
      BY <1>0, <2>3, WinnerIs DEF OnlyMoves
    <3>2. QED
      BY <3>1, TwoIs, HeldSlots DEF Claimants, Slots
  <2>4. CASE Release(x)
    BY <1>0, <2>4, ReleaseIs DEF OnlyMoves
  <2>5. CASE ForgetSlot(x)
    BY <1>0, <2>5, ForgetIs DEF OnlyMoves
  <2>6. CASE \E c \in Conds : Resolve(x, c) \/ Destroy(x, c)
    BY <1>0, <2>6, CallIs DEF OnlyMoves
  <2>7. CASE LeaveWait(x) \/ Signal(x) \/ ResetSequence(x) \/ FreeSlot(x)
    BY <1>0, <2>7, CallIs DEF OnlyMoves
  <2>8. QED
    BY <1>3, <2>1, <2>2, <2>3, <2>4, <2>5, <2>6, <2>7 DEF Step
<1>4. ASSUME NEW s \in Slots, NoteWait(s) \/ InterruptWait(s) PROVE FALSE
  BY <1>0, <1>4, RaiseIs
<1>5. QED
  BY <1>1, <1>2, <1>3, <1>4 DEF TableNext

\* While at most two threads at once are inside the lookup of a condvar (a third can put
\* a waiter to sleep on a slot the arbitration then takes from it), the steps of
\* cond_slot_for and of interruptible_cond_forget preserve that a slot somebody
\* uses stays its claimer's, whoever looks it up meanwhile.
THEOREM TableInductiveTwo ==
  ASSUME MaxLookups <= 2 PROVE TableSpec => []TableIInvTwo
<1>1. TableInit => TableIInvTwo
  BY InitIsSafeTwo
<1>2. TableIInvTwo /\ [TableNext]_tableVars => TableIInvTwo'
  BY NextIsSafeTwo
<1>3. QED
  BY <1>1, <1>2, PTL DEF TableSpec

\* While at most two threads at once are inside the lookup of a condvar, the slot a waiter
\* sleeps on or a signaller wakes belongs to their condvar to the end of the call
\* (interruptible_cond_forget and a losing claimer of cond_slot_for take slots out of use
\* beside it).
THEOREM SlotsOutliveUses ==
  ASSUME MaxLookups <= 2 PROVE TableSpec => []SlotOutlivesUse
<1>1. ASSUME TableIInvTwo PROVE SlotOutlivesUse
  <2>1. TableTypeOK /\ UsersKeepSlot /\ SlotRetiring \notin Conds
    BY <1>1, TwoIs, CondsAreMarked DEF TableIInvTwo
  <2>2. ASSUME NEW t \in Callers, NEW u \in Callers, where[t] = "using", where[u] = "reset"
        PROVE  at[t] # at[u]
    <3>1. TableIInv /\ 0 \notin Slots
      BY <1>1 DEF TableIInvTwo, Slots
    <3>2. key[t] \in Conds /\ at[u] # 0 /\ cond[at[u]] = SlotRetiring
      BY <2>2, <3>1, HeldSlots
    <3>3. QED
      BY <2>1, <2>2, <3>2 DEF UsersKeepSlot
  <2>3. QED
    BY <2>1, <2>2 DEF SlotOutlivesUse
<1>2. QED
  BY <1>1, TableInductiveTwo, PTL

\* While at most two threads at once are inside the lookup of a condvar, one that has the
\* table to itself resolves to one slot for every caller of cond_slot_for, and
\* interruptible_cond_forget leaves it none.
THEOREM AloneHasOneSlot ==
  ASSUME MaxLookups <= 2 PROVE TableSpec => []AloneOneSlot
<1>1. TableInit => TableIInvAlone
  <2>1. ASSUME TableInit PROVE AloneInFirst
    <3>1. \A s \in Slots : cond[s] = Free /\ Free \notin Conds /\ Free \notin program
      BY SlotsAssumption, <2>1 DEF TableInit
    <3>2. QED
      BY <2>1, <3>1 DEF TableInit, AloneInFirst, Owned, Claimants, NoSlotLeak
  <2>2. QED
    BY <2>1, InitIsSafeTwo DEF TableIInvAlone
<1>2. TableIInvAlone /\ [TableNext]_tableVars => TableIInvAlone'
  BY NextIsSafeAlone
<1>3. QED
  BY <1>1, <1>2, FirstIsOne, PTL DEF TableSpec

\* While at most two threads at once are inside the lookup of a condvar, cond_slot_for
\* returns nullptr from the claim scan of a full table only: the last look after the
\* bounded retry finds a slot.
THEOREM OnlyFullTableFails ==
  ASSUME MaxLookups <= 2 PROVE TableSpec => NullMeansFull
<1>1. TableIInvTwo /\ [TableNext]_tableVars =>
        [\A t \in Callers :
           where[t] \notin {"idle", "using"} /\ where'[t] = "using" /\ at'[t] = 0
             => where[t] = "claim"]_tableVars
  BY NullStep
<1>2. QED
  BY <1>1, TableInductiveTwo, PTL DEF TableSpec, NullMeansFull
===============================================================================
