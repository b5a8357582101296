------------------------------ MODULE FibersProofs ------------------------------
(***************************************************************************)
(* Proofs about Fibers, for any numbers of host threads and fibers: while  *)
(* the guest's calls on one fiber do not overlap (Serial) and it moves a   *)
(* suspended fiber only as a handover (Handover), the fiber calls keep     *)
(* every stack to one thread and every thread's record true.               *)
(***************************************************************************)
EXTENDS Fibers, TLAPS

\* Initially no fiber exists and every thread is on its own stack.
LEMMA InitIInv == Init => IInv
<1> SUFFICES ASSUME Init PROVE IInv
  OBVIOUS
<1>1. TypeOK
  BY FibersAssumption DEF Init, TypeOK, Looked
<1>2. ContextIsOwn /\ ThreadShape /\ NoSharing /\ NoneStuckInRun
  BY DEF Init, ContextIsOwn, ThreadShape, NoSharing, NoneStuckInRun
<1>3. LookedIsFree /\ LeftIsQuiet /\ BelowIsLeft
  BY DEF Init, LookedIsFree, LeftIsQuiet, BelowIsLeft, Looked, Taking
<1>4. QED
  BY <1>1, <1>2, <1>3 DEF IInv

\* A fiber that does not run and that nobody is leaving is nobody's: no thread
\* in sceFiberRun takes it for its current one, and none is on its stack.
LEMMA IdleIsNobodys ==
  ASSUME IInv, NEW f \in FiberIds, state[f] # "run", ~Leaving(f), NEW u \in Threads
  PROVE  /\ active[u] => current[u] # f
         /\ on[u] # f
<1>1. f # Nobody
  BY FibersAssumption
<1>2. active[u] => current[u] # f
  <2> SUFFICES ASSUME active[u], current[u] = f PROVE FALSE
    OBVIOUS
  <2>1. pc[u] \in {"leave", "epilogue"}
    BY DEF IInv, TypeOK, ThreadShape, InGuest
  <2>2. CASE pc[u] = "leave"
    BY <2>2 DEF IInv, ThreadShape, Leaving
  <2>3. CASE pc[u] = "epilogue"
    BY <2>3 DEF Leaving
  <2>4. QED
    BY <2>1, <2>2, <2>3
<1>3. on[u] # f
  <2> SUFFICES ASSUME on[u] = f PROVE FALSE
    OBVIOUS
  <2>1. active[u] /\ pc[u] # "epilogue"
    BY <1>1 DEF IInv, ThreadShape
  <2>2. pc[u] \notin {"enter", "leave"}
    BY DEF Leaving
  <2>3. InGuest(u)
    BY <2>1, <2>2 DEF IInv, TypeOK, InGuest
  <2>4. QED
    BY <1>2, <2>1, <2>3 DEF IInv, ThreadShape
<1>4. QED
  BY <1>2, <1>3

\* A thread of the guest that is in sceFiberRun is on its current fiber's stack.
LEMMA OnCurrent ==
  ASSUME IInv, NEW t \in Threads, InGuest(t), active[t]
  PROVE  /\ current[t] \in FiberIds /\ current[t] \in live /\ current[t] # Nobody
         /\ on[t] = current[t]
         /\ state[current[t]] = "run"
BY FibersAssumption DEF IInv, TypeOK, ThreadShape

\* The fiber a call is about.
LEMMA GoalIs ==
  ASSUME IInv, NEW t \in Threads, pc[t] \in Looked \union {"enter"}
  PROVE  goal[t] \in FiberIds /\ goal[t] # Nobody /\ (pc[t] # "init" => goal[t] \in live)
BY FibersAssumption DEF IInv, TypeOK, ThreadShape, Looked

-------------------------------------------------------------------------------
(* A look changes nothing but the caller's place.                          *)

\* What a call finds out before it begins, and what it then knows.
LEMMA LookStep ==
  ASSUME IInv, NEW t \in Threads, NEW f \in FiberIds, NEW label \in Looked,
         pc[t] = "guest", Call(t, label, f),
         ~Leaving(f), \A u \in Threads : goal[u] # f, state[f] # "run",
         label # "init" => f \in live,
         label = "run" => ~active[t],
         label = "switch" => active[t] /\ self' = [self EXCEPT ![t] = current[t]],
         label # "switch" => self' = self,
         label \in Taking /\ suspended[f] =>
            LET b == resume[f].by IN b = t \/ (~active[b] /\ pc[b] # "run"),
         label = "run" => \A u \in Threads \ {t} :
            pc[u] \in Taking /\ suspended[goal[u]] => resume[goal[u]].by # t,
         label \in Taking => \A u \in Threads \ {t} :
            active[u] => ~(suspended[f] /\ resume[f].by = u),
         UNCHANGED <<live, suspended, resume, below, active, current, on>>,
         \/ state' = state
         \/ state' = [state EXCEPT ![f] = "idle"]
  PROVE  IInv'
<1>0. /\ f # Nobody /\ goal[t] = Nobody
      /\ \A u \in Threads : (active[u] => current[u] # f) /\ on[u] # f
  BY FibersAssumption, IdleIsNobodys DEF IInv, ThreadShape
<1>1. TypeOK'
  BY DEF IInv, TypeOK, Call
<1>2. ContextIsOwn'
  BY DEF IInv, ContextIsOwn
<1>3. /\ \A u \in Threads \ {t} : pc'[u] = pc[u] /\ goal'[u] = goal[u] /\ self'[u] = self[u]
      /\ pc'[t] = label /\ goal'[t] = f
  BY DEF IInv, TypeOK, Call
<1>4. \A u \in Threads : active[u] => state'[current[u]] = state[current[u]]
  BY <1>0 DEF IInv, TypeOK, ThreadShape
<1>5. ThreadShape'
  <2> SUFFICES ASSUME NEW u \in Threads PROVE ThreadShape!(u)'
    BY DEF ThreadShape
  <2>1. CASE u = t
    BY <1>3, <1>4, <2>1 DEF IInv, TypeOK, ThreadShape, InGuest, Looked
  <2>2. CASE u # t
    <3>1. active[u] => state'[current[u]] = state[current[u]]
      BY <1>4
    <3>2. pc'[u] = pc[u] /\ goal'[u] = goal[u] /\ self'[u] = self[u]
      BY <1>3, <2>2
    <3>3. ThreadShape!(u) /\ (pc[u] = "enter" => active[u])
      BY DEF IInv, ThreadShape
    <3>4. pc[u] = "leave" => active[u]
      BY <3>3
    <3>5. QED
      BY <3>1, <3>2, <3>3, <3>4 DEF ThreadShape, InGuest
  <2>3. QED
    BY <2>1, <2>2
<1>6. NoSharing'
  BY DEF IInv, NoSharing
<1>7. LookedIsFree'
  BY <1>0, <1>3 DEF IInv, LookedIsFree
<1>8. LeftIsQuiet'
  <2> SUFFICES ASSUME NEW u \in Threads, pc'[u] \in Taking, suspended[goal'[u]]
               PROVE  LET b == resume[goal'[u]].by IN b = u \/ (~active[b] /\ pc'[b] # "run")
    BY DEF LeftIsQuiet
  <2>1. CASE u = t
    BY <1>3, <2>1 DEF IInv, ContextIsOwn, Taking
  <2>2. CASE u # t
    <3>1. pc[u] \in Taking /\ goal'[u] = goal[u]
      BY <1>3, <2>2
    <3>2. goal[u] \in FiberIds
      BY <3>1, GoalIs DEF Looked, Taking
    <3>3. resume[goal[u]].by \in Threads
      BY <3>1, <3>2 DEF IInv, ContextIsOwn
    <3>4. resume[goal[u]].by = t => label # "run"
      BY <2>2, <3>1
    <3>5. QED
      BY <1>3, <3>1, <3>3, <3>4 DEF IInv, LeftIsQuiet
  <2>3. QED
    BY <2>1, <2>2
<1>9. BelowIsLeft'
  <2> SUFFICES ASSUME NEW u \in Threads, active[u], InGuest(u)',
                      below[current[u]] # Nobody, suspended[below[current[u]]],
                      resume[below[current[u]]].by = u
               PROVE  /\ below[current[u]] \in live
                      /\ \A v \in Threads \ {u} :
                           /\ on[v] # below[current[u]]
                           /\ active[v] => current[v] # below[current[u]]
                           /\ pc'[v] \in Taking => goal'[v] # below[current[u]]
    BY DEF BelowIsLeft, InGuest
  <2>1. InGuest(u)
    BY <1>3 DEF InGuest
  <2>2. QED
    BY <1>3, <2>1 DEF IInv, BelowIsLeft
<1>10. NoneStuckInRun'
  BY DEF IInv, TypeOK, NoneStuckInRun
<1>11. QED
  BY <1>1, <1>2, <1>5, <1>6, <1>7, <1>8, <1>9, <1>10 DEF IInv

\* The looks of the four calls.
LEMMA InitializeStep ==
  ASSUME Serial, IInv, NEW t \in Threads, NEW f \in FiberIds, Initialize(t, f)
  PROVE  IInv'
BY LookStep DEF Initialize, Untouched, Looked, Taking, threads

LEMMA FinalizeStep ==
  ASSUME Serial, IInv, NEW t \in Threads, NEW f \in FiberIds, Finalize(t, f)
  PROVE  IInv'
BY LookStep DEF Finalize, Untouched, Looked, Taking, records, threads

\* What the handover says of the thread a fiber left.
LEMMA LeftIsOut ==
  ASSUME Serial, Handover, IInv, NEW t \in Threads, NEW f \in FiberIds, MayResume(t, f)
  PROVE  /\ ~Leaving(f) /\ \A u \in Threads : goal[u] # f
         /\ suspended[f] =>
              LET b == resume[f].by IN b = t \/ (~active[b] /\ pc[b] # "run")
         /\ \A u \in Threads \ {t} : active[u] => ~(suspended[f] /\ resume[f].by = u)
BY DEF MayResume, Untouched, Left, IInv, ContextIsOwn

LEMMA RunStep ==
  ASSUME Serial, Handover, IInv, NEW t \in Threads, NEW f \in FiberIds, Run(t, f)
  PROVE  IInv'
<1>1. MayResume(t, f) /\ state[f] # "run"
  BY DEF Run, MayRun
<1>2. \A u \in Threads \ {t} :
         pc[u] \in Taking /\ suspended[goal[u]] => resume[goal[u]].by # t
  BY DEF Run, MayRun, Left
<1>3. QED
  BY <1>1, <1>2, LeftIsOut, LookStep DEF Run, Looked, records, threads

LEMMA SwitchStep ==
  ASSUME Serial, Handover, IInv, NEW t \in Threads, NEW f \in FiberIds, Switch(t, f)
  PROVE  IInv'
<1>1. MayResume(t, f) /\ state[f] # "run"
  BY DEF Switch
<1>2. QED
  BY <1>1, LeftIsOut, LookStep DEF Switch, Looked, records, threads

-------------------------------------------------------------------------------
(* The marks, which rest on what the looks found still being so.           *)

\* A fiber that some thread is about to take is not what another is on or runs.
LEMMA TakenIsElsewhere ==
  ASSUME IInv, NEW t \in Threads, NEW u \in Threads \ {t}, pc[u] \in Taking
  PROVE  /\ goal[u] \in FiberIds
         /\ active[t] => goal[u] # current[t]
         /\ goal[u] # on[t]
<1>1. goal[u] \in FiberIds /\ goal[u] # Nobody
  BY GoalIs DEF Looked, Taking
<1>2. CASE pc[u] \in Looked
  BY <1>1, <1>2 DEF IInv, LookedIsFree
<1>3. CASE pc[u] = "enter"
  <2>1. active[u] /\ goal[u] = current[u]
    BY <1>3 DEF IInv, ThreadShape
  <2>2. QED
    BY <1>1, <2>1 DEF IInv, NoSharing
<1>4. QED
  BY <1>1, <1>2, <1>3 DEF Looked, Taking

\* A fiber's record is replaced, or erased, while it is nobody's.
LEMMA RecordStep ==
  ASSUME IInv, NEW t \in Threads, pc[t] \in {"init", "finalize"}, NewRecord(t),
         live' \in {live \union {goal[t]}, live \ {goal[t]}},
         \/ state' = state
         \/ state' = [state EXCEPT ![goal[t]] = "terminated"]
  PROVE  IInv'
<1> DEFINE g == goal[t]
<1>0. /\ g \in FiberIds /\ g # Nobody
      /\ \A u \in Threads : (active[u] => current[u] # g) /\ on[u] # g
      /\ \A u \in Threads \ {t} : goal[u] # g
  BY GoalIs DEF IInv, LookedIsFree, Looked
<1>1. TypeOK'
  BY <1>0 DEF IInv, TypeOK, NewRecord, NoContext, Call, threads
<1>2. ContextIsOwn'
  BY <1>0 DEF IInv, TypeOK, ContextIsOwn, NewRecord
<1>3. /\ \A u \in Threads \ {t} : pc'[u] = pc[u] /\ goal'[u] = goal[u]
      /\ pc'[t] = "guest" /\ goal'[t] = Nobody
      /\ UNCHANGED <<active, current, on, self>>
      /\ \A f \in FiberIds \ {g} : /\ suspended'[f] = suspended[f]
                                   /\ resume'[f] = resume[f]
                                   /\ below'[f] = below[f]
                                   /\ state'[f] = state[f]
                                   /\ f \in live' <=> f \in live
      /\ ~suspended'[g] /\ Nobody \notin live
  BY <1>0, FibersAssumption DEF IInv, TypeOK, NewRecord, Call, threads
<1>4. \A u \in Threads : active[u] => current[u] \in FiberIds \ {g}
  BY <1>0, FibersAssumption DEF IInv, TypeOK, ThreadShape
<1>5. ThreadShape'
  <2> SUFFICES ASSUME NEW u \in Threads PROVE ThreadShape!(u)'
    BY DEF ThreadShape
  <2>0. live \subseteq FiberIds
    BY DEF IInv, TypeOK
  <2>1. CASE u = t
    BY <1>3, <1>4, <2>0, <2>1 DEF IInv, ThreadShape, InGuest, Looked
  <2>2. CASE u # t
    <3>1. active[u] => state'[current[u]] = state[current[u]] /\ current[u] \in live'
      BY <1>3, <1>4 DEF IInv, ThreadShape
    <3>2. /\ on[u] \in live => on[u] \in live'
          /\ goal[u] \in live => goal[u] \in live'
      BY <1>0, <1>3, <2>0, <2>2
    <3>3. pc'[u] = pc[u] /\ goal'[u] = goal[u] /\ self'[u] = self[u]
      BY <1>3, <2>2
    <3>4. ThreadShape!(u) /\ (pc[u] \in {"enter", "leave"} => active[u])
      BY DEF IInv, ThreadShape
    <3>5. QED
      BY <1>3, <3>1, <3>2, <3>3, <3>4 DEF ThreadShape, InGuest
  <2>3. QED
    BY <2>1, <2>2
<1>6. NoSharing'
  BY <1>3 DEF IInv, NoSharing
<1>7. LookedIsFree'
  <2> SUFFICES ASSUME NEW u \in Threads, pc'[u] \in Looked, NEW v \in Threads
               PROVE  /\ active[v] => current[v] # goal'[u]
                      /\ on[v] # goal'[u]
                      /\ v # u => goal'[v] # goal'[u]
    BY <1>3 DEF LookedIsFree
  <2>1. u # t /\ pc[u] \in Looked /\ goal'[u] = goal[u] /\ goal[u] # Nobody
    BY <1>3, GoalIs DEF Looked
  <2>2. QED
    BY <1>3, <2>1 DEF IInv, LookedIsFree
<1>8. LeftIsQuiet'
  <2> SUFFICES ASSUME NEW u \in Threads, pc'[u] \in Taking, suspended'[goal'[u]]
               PROVE  LET b == resume'[goal'[u]].by IN b = u \/ (~active[b] /\ pc'[b] # "run")
    BY <1>3 DEF LeftIsQuiet
  <2>1. u # t /\ pc[u] \in Taking /\ goal'[u] = goal[u]
    BY <1>3 DEF Taking
  <2>2. goal[u] \in FiberIds \ {g}
    BY <1>0, <2>1, TakenIsElsewhere
  <2>3. suspended[goal[u]] /\ resume'[goal[u]] = resume[goal[u]]
    BY <1>3, <2>1, <2>2
  <2>4. resume[goal[u]].by \in Threads
    BY <2>2, <2>3 DEF IInv, ContextIsOwn
  <2>5. QED
    BY <1>3, <2>1, <2>3, <2>4 DEF IInv, LeftIsQuiet
<1>9. BelowIsLeft'
  <2> SUFFICES ASSUME NEW u \in Threads, active[u], InGuest(u)',
                      NEW h \in FiberIds, h = below'[current[u]], suspended'[h], resume'[h].by = u
               PROVE  /\ h \in live'
                      /\ \A v \in Threads \ {u} :
                           /\ on[v] # h
                           /\ active[v] => current[v] # h
                           /\ pc'[v] \in Taking => goal'[v] # h
    BY <1>1, <1>3, <1>4 DEF TypeOK, BelowIsLeft, InGuest
  <2>1. InGuest(u)
    BY <1>3 DEF InGuest, Looked
  <2>2. h = below[current[u]] /\ h # g /\ h # Nobody
    BY <1>3, <1>4, FibersAssumption
  <2>3. suspended[h] /\ resume[h].by = u
    BY <1>3, <2>2
  <2>4. h \in live /\ \A v \in Threads \ {u} : /\ on[v] # h
                                               /\ active[v] => current[v] # h
                                               /\ pc[v] \in Taking => goal[v] # h
    BY <2>1, <2>2, <2>3 DEF IInv, BelowIsLeft
  <2>5. QED
    BY <1>3, <2>2, <2>4 DEF Taking
<1>10. NoneStuckInRun'
  BY <1>0, <1>3 DEF IInv, TypeOK, NoneStuckInRun
<1>11. QED
  BY <1>1, <1>2, <1>5, <1>6, <1>7, <1>8, <1>9, <1>10 DEF IInv

LEMMA InitializeEndStep ==
  ASSUME IInv, NEW t \in Threads, InitializeEnd(t)
  PROVE  IInv'
BY RecordStep DEF InitializeEnd

LEMMA FinalizeEndStep ==
  ASSUME IInv, NEW t \in Threads, FinalizeEnd(t)
  PROVE  IInv'
BY RecordStep DEF FinalizeEnd

\* Run takes the fiber for the thread's own.
LEMMA RunTakesStep ==
  ASSUME IInv, NEW t \in Threads, RunTakes(t)
  PROVE  IInv'
<1> DEFINE g == goal[t]
<1>0. /\ pc[t] = "run" /\ ~active[t] /\ on[t] = Nobody /\ g \in live /\ g \in FiberIds /\ g # Nobody
      /\ \A u \in Threads : (active[u] => current[u] # g) /\ on[u] # g
      /\ \A u \in Threads \ {t} : goal[u] # g
  BY GoalIs DEF RunTakes, IInv, ThreadShape, LookedIsFree, Looked
<1>1. TypeOK'
  BY <1>0 DEF IInv, TypeOK, RunTakes, Call, Looked
<1>2. ContextIsOwn'
  BY DEF IInv, ContextIsOwn, RunTakes
<1>3. /\ \A u \in Threads \ {t} : /\ pc'[u] = pc[u] /\ goal'[u] = goal[u]
                                  /\ active'[u] = active[u] /\ current'[u] = current[u]
      /\ pc'[t] = "enter" /\ goal'[t] = g /\ active'[t] /\ current'[t] = g
      /\ UNCHANGED <<live, suspended, resume, below, on, self>>
      /\ state'[g] = "run" /\ \A f \in FiberIds \ {g} : state'[f] = state[f]
  BY <1>0 DEF IInv, TypeOK, RunTakes, Call
<1>4. ThreadShape'
  <2> SUFFICES ASSUME NEW u \in Threads PROVE ThreadShape!(u)'
    BY DEF ThreadShape
  <2>1. CASE u = t
    BY <1>0, <1>3, <2>1 DEF IInv, ThreadShape, InGuest, Looked
  <2>2. CASE u # t
    <3>1. active[u] => state'[current[u]] = state[current[u]]
      BY <1>0, <1>3, <2>2 DEF IInv, TypeOK, ThreadShape
    <3>2. ThreadShape!(u) /\ (pc[u] \in {"enter", "leave"} => active[u])
      BY DEF IInv, ThreadShape
    <3>3. QED
      BY <1>3, <2>2, <3>1, <3>2 DEF ThreadShape, InGuest
  <2>3. QED
    BY <2>1, <2>2
<1>5. NoSharing'
  BY <1>0, <1>3 DEF IInv, NoSharing
<1>6. LookedIsFree'
  <2> SUFFICES ASSUME NEW u \in Threads, pc'[u] \in Looked, NEW v \in Threads
               PROVE  /\ active'[v] => current'[v] # goal'[u]
                      /\ on[v] # goal'[u]
                      /\ v # u => goal'[v] # goal'[u]
    BY <1>3 DEF LookedIsFree
  <2>1. u # t /\ pc[u] \in Looked /\ goal'[u] = goal[u]
    BY <1>3 DEF Looked
  <2>2. QED
    BY <1>0, <1>3, <2>1 DEF IInv, LookedIsFree
<1>7. LeftIsQuiet'
  <2> SUFFICES ASSUME NEW u \in Threads, pc'[u] \in Taking, suspended[goal'[u]]
               PROVE  LET b == resume[goal'[u]].by IN b = u \/ (~active'[b] /\ pc'[b] # "run")
    BY <1>3 DEF LeftIsQuiet
  <2>1. pc[u] \in Taking /\ goal'[u] = goal[u]
    BY <1>0, <1>3 DEF Taking
  <2>2. goal[u] \in FiberIds
    BY <2>1, GoalIs DEF Looked, Taking
  <2>3. resume[goal[u]].by \in Threads
    BY <2>1, <2>2 DEF IInv, ContextIsOwn
  <2>4. LET b == resume[goal[u]].by IN b = u \/ (~active[b] /\ pc[b] # "run")
    BY <2>1 DEF IInv, LeftIsQuiet
  <2>5. QED
    BY <1>0, <1>3, <2>1, <2>3, <2>4
<1>8. BelowIsLeft'
  <2> SUFFICES ASSUME NEW u \in Threads, active'[u], InGuest(u)',
                      NEW h, h = below[current'[u]], h # Nobody, suspended[h], resume[h].by = u
               PROVE  /\ h \in live
                      /\ \A v \in Threads \ {u} :
                           /\ on[v] # h
                           /\ active'[v] => current'[v] # h
                           /\ pc'[v] \in Taking => goal'[v] # h
    BY <1>3 DEF BelowIsLeft, InGuest
  <2>1. u # t /\ active[u] /\ InGuest(u) /\ current'[u] = current[u]
    BY <1>3 DEF InGuest, Looked
  <2>2. h \in live /\ \A v \in Threads \ {u} : /\ on[v] # h
                                               /\ active[v] => current[v] # h
                                               /\ pc[v] \in Taking => goal[v] # h
    BY <2>1 DEF IInv, BelowIsLeft
  <2>3. QED
    BY <1>0, <1>3, <2>1, <2>2 DEF Taking
<1>9. NoneStuckInRun'
  BY <1>0, <1>3 DEF IInv, NoneStuckInRun
<1>10. QED
  BY <1>1, <1>2, <1>4, <1>5, <1>6, <1>7, <1>8, <1>9 DEF IInv

\* What a thread that saves its context leaves behind.
LEMMA SaveIsOwn ==
  ASSUME IInv, NEW t \in Threads, InGuest(t), active[t], Save(t, current[t])
  PROVE  /\ resume' \in [FiberIds -> [on : FiberIds, cur : FiberIds, by : Threads]
                                       \union {NoContext}]
         /\ suspended' \in [FiberIds -> BOOLEAN]
         /\ below' \in [FiberIds -> FiberIds \union {Nobody}]
         /\ ContextIsOwn'
         /\ suspended'[current[t]] /\ resume'[current[t]].by = t
         /\ \A f \in FiberIds \ {current[t]} : /\ resume'[f] = resume[f]
                                               /\ suspended'[f] = suspended[f]
                                               /\ below'[f] = below[f]
<1>1. current[t] \in FiberIds /\ on[t] = current[t]
  BY OnCurrent
<1>2. QED
  BY <1>1 DEF IInv, TypeOK, ContextIsOwn, Save

\* A save changes nothing for who is about to take a fiber.
LEMMA SaveKeepsLeft ==
  ASSUME IInv, NEW t \in Threads, InGuest(t), active[t], Save(t, current[t]),
         NEW u \in Threads \ {t}, pc[u] \in Taking, suspended'[goal[u]]
  PROVE  /\ resume'[goal[u]] = resume[goal[u]] /\ resume[goal[u]].by \in Threads
         /\ LET b == resume[goal[u]].by IN b = u \/ (~active[b] /\ pc[b] # "run")
<1>1. goal[u] \in FiberIds \ {current[t]}
  BY TakenIsElsewhere
<1>2. resume'[goal[u]] = resume[goal[u]] /\ suspended[goal[u]]
  BY <1>1, SaveIsOwn
<1>3. QED
  BY <1>1, <1>2 DEF IInv, ContextIsOwn, LeftIsQuiet

\* Nor for an entry another thread runs, and for the stack it may return to.
LEMMA SaveKeepsBelow ==
  ASSUME IInv, NEW t \in Threads, InGuest(t), active[t], Save(t, current[t]),
         NEW u \in Threads \ {t}, active[u], InGuest(u),
         NEW h, h = below'[current[u]], h # Nobody, suspended'[h], resume'[h].by = u
  PROVE  /\ h \in live
         /\ \A v \in Threads \ {u} : /\ on[v] # h
                                     /\ active[v] => current[v] # h
                                     /\ pc[v] \in Taking => goal[v] # h
<1>1. current[u] \in FiberIds /\ current[u] # current[t]
  BY OnCurrent DEF IInv, NoSharing
<1>2. h = below[current[u]] /\ h \in FiberIds
  BY <1>1, SaveIsOwn DEF IInv, TypeOK
<1>3. h # current[t]
  BY SaveIsOwn
<1>4. suspended[h] /\ resume[h].by = u
  BY <1>2, <1>3, SaveIsOwn
<1>5. QED
  BY <1>2, <1>4 DEF IInv, BelowIsLeft

\* Switch saves the running fiber, and takes one that is nobody's.
LEMMA SwitchTakesStep ==
  ASSUME IInv, NEW t \in Threads, SwitchTakes(t)
  PROVE  IInv'
<1> DEFINE c == current[t]
           g == goal[t]
<1>0. /\ pc[t] = "switch" /\ InGuest(t) /\ active[t] /\ self[t] = c
      /\ c \in FiberIds /\ c \in live /\ c # Nobody /\ on[t] = c
      /\ g \in live /\ g \in FiberIds /\ g # Nobody
      /\ Save(t, c)
      /\ \A u \in Threads : (active[u] => current[u] # g) /\ on[u] # g
      /\ \A u \in Threads \ {t} : goal[u] # g
  <2>1. pc[t] = "switch" /\ active[t] /\ self[t] = c /\ InGuest(t)
    BY DEF SwitchTakes, IInv, ThreadShape, InGuest, Looked
  <2>2. g \in live /\ g \in FiberIds /\ g # Nobody
    BY <2>1, GoalIs DEF Looked
  <2>3. /\ \A u \in Threads : (active[u] => current[u] # g) /\ on[u] # g
        /\ \A u \in Threads \ {t} : goal[u] # g
    BY <2>1 DEF IInv, LookedIsFree, Looked
  <2>4. QED
    BY <2>1, <2>2, <2>3, OnCurrent DEF SwitchTakes
<1>s. /\ g # c
      /\ suspended'[c] /\ resume'[c].by = t
      /\ \A f \in FiberIds \ {c} : /\ resume'[f] = resume[f]
                                   /\ suspended'[f] = suspended[f]
                                   /\ below'[f] = below[f]
  BY <1>0, SaveIsOwn
<1>1. TypeOK'
  BY <1>0, SaveIsOwn DEF IInv, TypeOK, SwitchTakes, Call
<1>2. ContextIsOwn'
  BY <1>0, SaveIsOwn
<1>3. /\ \A u \in Threads \ {t} : /\ pc'[u] = pc[u] /\ goal'[u] = goal[u]
                                  /\ self'[u] = self[u] /\ current'[u] = current[u]
      /\ pc'[t] = "enter" /\ goal'[t] = g /\ current'[t] = g
      /\ UNCHANGED <<live, active, on>>
      /\ state'[g] = "run"
      /\ \A f \in FiberIds \ {c, g} : state'[f] = state[f]
      /\ state'[c] = "idle"
  BY <1>0, <1>s DEF IInv, TypeOK, SwitchTakes, Call
<1>4. ThreadShape'
  <2> SUFFICES ASSUME NEW u \in Threads PROVE ThreadShape!(u)'
    BY DEF ThreadShape
  <2>1. CASE u = t
    BY <1>0, <1>s, <1>3, <2>1 DEF InGuest, Looked
  <2>2. CASE u # t
    <3>1. active[u] => current[u] \in FiberIds \ {c, g}
      BY <1>0, <2>2, FibersAssumption DEF IInv, TypeOK, ThreadShape, NoSharing
    <3>2. active[u] => state'[current[u]] = state[current[u]]
      BY <1>3, <3>1
    <3>3. ThreadShape!(u) /\ (pc[u] \in {"enter", "leave"} => active[u])
      BY DEF IInv, ThreadShape
    <3>4. QED
      BY <1>3, <2>2, <3>2, <3>3 DEF ThreadShape, InGuest
  <2>3. QED
    BY <2>1, <2>2
<1>5. NoSharing'
  BY <1>0, <1>3 DEF IInv, NoSharing
<1>6. LookedIsFree'
  <2> SUFFICES ASSUME NEW u \in Threads, pc'[u] \in Looked, NEW v \in Threads
               PROVE  /\ active[v] => current'[v] # goal'[u]
                      /\ on[v] # goal'[u]
                      /\ v # u => goal'[v] # goal'[u]
    BY <1>3 DEF LookedIsFree
  <2>1. u # t /\ pc[u] \in Looked /\ goal'[u] = goal[u]
    BY <1>3 DEF Looked
  <2>2. QED
    BY <1>0, <1>3, <2>1 DEF IInv, LookedIsFree
<1>7. LeftIsQuiet'
  <2> SUFFICES ASSUME NEW u \in Threads, pc'[u] \in Taking, suspended'[goal'[u]]
               PROVE  LET b == resume'[goal'[u]].by IN b = u \/ (~active[b] /\ pc'[b] # "run")
    BY <1>3 DEF LeftIsQuiet
  <2>1. CASE u = t
    <3>1. suspended[g] /\ resume'[g] = resume[g] /\ pc[t] \in Taking
      BY <1>0, <1>s, <1>3, <2>1 DEF Taking
    <3>2. resume[g].by \in Threads
      BY <1>0, <3>1 DEF IInv, ContextIsOwn
    <3>3. QED
      BY <1>3, <2>1, <3>1, <3>2 DEF IInv, LeftIsQuiet
  <2>2. CASE u # t
    <3>1. pc[u] \in Taking /\ goal'[u] = goal[u]
      BY <1>3, <2>2
    <3>2. QED
      BY <1>0, <1>3, <2>2, <3>1, SaveKeepsLeft
  <2>3. QED
    BY <2>1, <2>2
<1>8. BelowIsLeft'
  <2> SUFFICES ASSUME NEW u \in Threads, active[u], InGuest(u)',
                      NEW h, h = below'[current'[u]], h # Nobody, suspended'[h], resume'[h].by = u
               PROVE  /\ h \in live
                      /\ \A v \in Threads \ {u} :
                           /\ on[v] # h
                           /\ active[v] => current'[v] # h
                           /\ pc'[v] \in Taking => goal'[v] # h
    BY <1>3 DEF BelowIsLeft, InGuest
  <2>1. u # t /\ InGuest(u) /\ current'[u] = current[u]
    BY <1>3 DEF InGuest, Looked
  <2>2. h \in live /\ \A v \in Threads \ {u} : /\ on[v] # h
                                               /\ active[v] => current[v] # h
                                               /\ pc[v] \in Taking => goal[v] # h
    BY <1>0, <2>1, SaveKeepsBelow
  <2>3. QED
    BY <1>0, <1>3, <2>1, <2>2 DEF Taking
<1>9. NoneStuckInRun'
  <2> SUFFICES ASSUME NEW h \in FiberIds, state'[h] = "run"
               PROVE  \E u \in Threads : active[u] /\ current'[u] = h
    BY <1>3 DEF NoneStuckInRun
  <2>1. CASE h = g
    BY <1>0, <1>3, <2>1
  <2>2. CASE h # g
    <3>1. h # c /\ state[h] = "run"
      BY <1>3, <2>2
    <3>2. PICK u \in Threads : active[u] /\ current[u] = h
      BY <3>1 DEF IInv, NoneStuckInRun
    <3>3. QED
      BY <1>3, <3>1, <3>2
  <2>3. QED
    BY <2>1, <2>2
<1>10. QED
  BY <1>1, <1>2, <1>4, <1>5, <1>6, <1>7, <1>8, <1>9 DEF IInv

\* ReturnToThread saves the running fiber.
LEMMA ReturnStep ==
  ASSUME IInv, NEW t \in Threads, ReturnToThread(t)
  PROVE  IInv'
<1> DEFINE c == current[t]
<1>0. /\ pc[t] = "guest" /\ InGuest(t) /\ active[t] /\ Save(t, c)
      /\ c \in FiberIds /\ c \in live /\ on[t] = c
  BY OnCurrent DEF ReturnToThread, InGuest
<1>1. TypeOK'
  BY <1>0, SaveIsOwn DEF IInv, TypeOK, ReturnToThread, threads
<1>2. ContextIsOwn'
  BY <1>0, SaveIsOwn
<1>3. /\ \A u \in Threads \ {t} : pc'[u] = pc[u]
      /\ pc'[t] = "leave"
      /\ UNCHANGED <<live, active, current, on, goal, self>>
      /\ state'[c] = "idle" /\ \A f \in FiberIds \ {c} : state'[f] = state[f]
  BY <1>0 DEF IInv, TypeOK, ReturnToThread, threads
<1>4. ThreadShape'
  <2> SUFFICES ASSUME NEW u \in Threads PROVE ThreadShape!(u)'
    BY DEF ThreadShape
  <2>1. ThreadShape!(u) /\ (pc[u] \in {"enter", "leave"} => active[u])
    BY DEF IInv, ThreadShape
  <2>2. CASE u = t
    BY <1>0, <1>3, <2>1, <2>2 DEF ThreadShape, InGuest, Looked
  <2>3. CASE u # t
    <3>1. active[u] => current[u] \in FiberIds \ {c}
      BY <1>0, <2>3, FibersAssumption DEF IInv, TypeOK, ThreadShape, NoSharing
    <3>2. active[u] => state'[current[u]] = state[current[u]]
      BY <1>3, <3>1
    <3>3. QED
      BY <1>3, <2>1, <2>3, <3>2 DEF ThreadShape, InGuest
  <2>4. QED
    BY <2>2, <2>3
<1>5. NoSharing'
  BY <1>3 DEF IInv, NoSharing
<1>6. LookedIsFree'
  BY <1>3 DEF IInv, LookedIsFree, Looked
<1>7. LeftIsQuiet'
  <2> SUFFICES ASSUME NEW u \in Threads, pc'[u] \in Taking, suspended'[goal[u]]
               PROVE  LET b == resume'[goal[u]].by IN b = u \/ (~active[b] /\ pc'[b] # "run")
    BY <1>3 DEF LeftIsQuiet
  <2>1. u # t /\ pc[u] \in Taking
    BY <1>3 DEF Taking
  <2>2. QED
    BY <1>0, <1>3, <2>1, SaveKeepsLeft
<1>8. BelowIsLeft'
  <2> SUFFICES ASSUME NEW u \in Threads, active[u], InGuest(u)',
                      NEW h, h = below'[current[u]], h # Nobody, suspended'[h], resume'[h].by = u
               PROVE  /\ h \in live
                      /\ \A v \in Threads \ {u} :
                           /\ on[v] # h
                           /\ active[v] => current[v] # h
                           /\ pc'[v] \in Taking => goal[v] # h
    BY <1>3 DEF BelowIsLeft, InGuest
  <2>1. u # t /\ InGuest(u)
    BY <1>3 DEF InGuest, Looked
  <2>2. h \in live /\ \A v \in Threads \ {u} : /\ on[v] # h
                                               /\ active[v] => current[v] # h
                                               /\ pc[v] \in Taking => goal[v] # h
    BY <1>0, <2>1, SaveKeepsBelow
  <2>3. QED
    BY <1>3, <2>2 DEF Taking
<1>9. NoneStuckInRun'
  BY <1>0, <1>3 DEF IInv, NoneStuckInRun
<1>10. QED
  BY <1>1, <1>2, <1>4, <1>5, <1>6, <1>7, <1>8, <1>9 DEF IInv

-------------------------------------------------------------------------------
(* The jumps.                                                              *)

\* Into a fiber.  What a resumed frame writes through its locals is true of this
\* thread, and falls on a thread that is in no fiber when it is another's.
LEMMA EnterStep ==
  ASSUME IInv, NEW t \in Threads, Enter(t)
  PROVE  IInv'
<1> DEFINE f == goal[t]
           b == resume[f].by
<1>0. /\ pc[t] = "enter" /\ active[t] /\ f = current[t] /\ f \in FiberIds
      /\ f \in live /\ f # Nobody /\ state[f] = "run" /\ on[t] # f
      /\ on[t] \in live \union {Nobody}
  BY FibersAssumption DEF Enter, IInv, TypeOK, ThreadShape
<1>1. /\ on' = [on EXCEPT ![t] = f]
      /\ state' = state
      /\ \/ suspended[f] /\ below' = below /\ below[f] = Nobody
         \/ ~suspended[f] /\ below' = [below EXCEPT ![f] = on[t]]
      /\ \/ current' = current
         \/ b \in Threads \ {t} /\ ~active[b] /\ current' = [current EXCEPT ![b] = f]
  <2>1. CASE suspended[f]
    <3>1. resume[f].on = f /\ resume[f].cur = f /\ b \in Threads /\ below[f] = Nobody
      BY <1>0, <2>1 DEF IInv, ContextIsOwn
    <3>2. /\ on' = [on EXCEPT ![t] = f]
          /\ state' = [state EXCEPT ![f] = "run"]
          /\ current' = [current EXCEPT ![b] = f]
          /\ below' = below
      BY <2>1, <3>1 DEF Enter
    <3>3. state' = state
      BY <1>0, <3>2 DEF IInv, TypeOK
    <3>4. CASE b = t
      <4>1. current' = current
        BY <1>0, <3>2, <3>4 DEF IInv, TypeOK
      <4>2. QED
        BY <2>1, <3>1, <3>2, <3>3, <4>1
    <3>5. CASE b # t
      <4>1. ~active[b]
        BY <1>0, <2>1, <3>5 DEF IInv, LeftIsQuiet, Taking
      <4>2. QED
        BY <2>1, <3>1, <3>2, <3>3, <3>5, <4>1
    <3>6. QED
      BY <3>4, <3>5
  <2>2. CASE ~suspended[f]
    BY <2>2 DEF Enter
  <2>3. QED
    BY <2>1, <2>2
<1>2. /\ \A u \in Threads : active[u] => current'[u] = current[u]
      /\ \A u \in Threads \ {t} : /\ pc'[u] = pc[u] /\ goal'[u] = goal[u] /\ on'[u] = on[u]
      /\ pc'[t] = "guest" /\ goal'[t] = Nobody /\ on'[t] = f
      /\ UNCHANGED <<live, suspended, resume, active, self>>
      /\ \A h \in FiberIds \ {f} : below'[h] = below[h]
  BY <1>0, <1>1 DEF IInv, TypeOK, Enter, Call
<1>3. TypeOK'
  BY <1>0, <1>1 DEF IInv, TypeOK, Enter, Call
<1>4. ContextIsOwn'
  BY <1>0, <1>1, <1>2 DEF IInv, ContextIsOwn, TypeOK
<1>5. ThreadShape'
  <2> SUFFICES ASSUME NEW u \in Threads PROVE ThreadShape!(u)'
    BY DEF ThreadShape
  <2>1. CASE u = t
    BY <1>0, <1>1, <1>2, <2>1 DEF InGuest, Looked
  <2>2. CASE u # t
    <3>1. ThreadShape!(u) /\ (pc[u] \in {"enter", "leave", "switch"} => active[u])
      BY DEF IInv, ThreadShape
    <3>2. QED
      BY <1>1, <1>2, <2>2, <3>1 DEF ThreadShape, InGuest
  <2>3. QED
    BY <2>1, <2>2
<1>6. NoSharing'
  <2>1. \A u \in Threads \ {t} : on[u] # f /\ (active[u] => current[u] # f)
    BY <1>0 DEF IInv, NoSharing
  <2>2. QED
    BY <1>0, <1>2, <2>1 DEF IInv, NoSharing
<1>7. LookedIsFree'
  <2> SUFFICES ASSUME NEW u \in Threads, pc'[u] \in Looked, NEW v \in Threads
               PROVE  /\ active[v] => current'[v] # goal'[u]
                      /\ on'[v] # goal'[u]
                      /\ v # u => goal'[v] # goal'[u]
    BY <1>2 DEF LookedIsFree
  <2>1. u # t /\ pc[u] \in Looked /\ goal'[u] = goal[u] /\ goal[u] # Nobody
    BY <1>2, GoalIs DEF Looked
  <2>2. QED
    BY <1>0, <1>2, <2>1 DEF IInv, LookedIsFree
<1>8. LeftIsQuiet'
  <2> SUFFICES ASSUME NEW u \in Threads, pc'[u] \in Taking, suspended[goal'[u]]
               PROVE  LET d == resume[goal'[u]].by IN d = u \/ (~active[d] /\ pc'[d] # "run")
    BY <1>2 DEF LeftIsQuiet
  <2>1. u # t /\ pc[u] \in Taking /\ goal'[u] = goal[u]
    BY <1>2 DEF Taking
  <2>2. goal[u] \in FiberIds
    BY <2>1, GoalIs DEF Looked, Taking
  <2>3. resume[goal[u]].by \in Threads
    BY <2>1, <2>2 DEF IInv, ContextIsOwn
  <2>4. QED
    BY <1>2, <2>1, <2>3 DEF IInv, LeftIsQuiet
<1>9. BelowIsLeft'
  <2> SUFFICES ASSUME NEW u \in Threads, active[u], InGuest(u)',
                      NEW h, h = below'[current[u]], h # Nobody, suspended[h], resume[h].by = u
               PROVE  /\ h \in live
                      /\ \A v \in Threads \ {u} :
                           /\ on'[v] # h
                           /\ active[v] => current[v] # h
                           /\ pc'[v] \in Taking => goal'[v] # h
    BY <1>2 DEF BelowIsLeft, InGuest
  <2>1. CASE u = t
    <3>1. h = on[t] /\ h \in live
      BY <1>0, <1>1, <2>1 DEF IInv, TypeOK
    <3>2. \A v \in Threads \ {t} : on[v] # h /\ (active[v] => current[v] # h)
      BY <3>1 DEF IInv, NoSharing
    <3>3. \A v \in Threads \ {t} : pc[v] \in Taking => goal[v] # h
      BY <3>1, TakenIsElsewhere
    <3>4. QED
      BY <1>2, <2>1, <3>1, <3>2, <3>3
  <2>2. CASE u # t
    <3>1. InGuest(u)
      BY <1>2, <2>2 DEF InGuest
    <3>2. current[u] \in FiberIds \ {f}
      BY <1>0, <2>2, <3>1, OnCurrent DEF IInv, NoSharing
    <3>3. h = below[current[u]]
      BY <1>2, <3>2
    <3>4. h \in live /\ \A v \in Threads \ {u} : /\ on[v] # h
                                                 /\ active[v] => current[v] # h
                                                 /\ pc[v] \in Taking => goal[v] # h
      BY <3>1, <3>3 DEF IInv, BelowIsLeft
    <3>5. QED
      BY <1>0, <1>2, <2>2, <3>4 DEF Taking
  <2>3. QED
    BY <2>1, <2>2
<1>10. NoneStuckInRun'
  BY <1>1, <1>2 DEF IInv, NoneStuckInRun
<1>11. QED
  BY <1>3, <1>4, <1>5, <1>6, <1>7, <1>8, <1>9, <1>10 DEF IInv

\* Out of an entry, to the stack it was called on.
LEMMA EntryReturnsStep ==
  ASSUME Serial, IInv, NEW t \in Threads, EntryReturns(t)
  PROVE  IInv'
<1> DEFINE c == current[t]
           g == below[c]
<1>0. /\ pc[t] = "guest" /\ InGuest(t) /\ active[t] /\ on[t] = c /\ c \in FiberIds
      /\ state[c] = "run" /\ ~suspended[c]
      /\ goal[t] = Nobody
  <2>1. pc[t] = "guest" /\ InGuest(t) /\ active[t] /\ goal[t] = Nobody
    BY DEF EntryReturns, InGuest, IInv, ThreadShape
  <2>2. QED
    BY <2>1, OnCurrent DEF EntryReturns
<1>1. /\ on' = [on EXCEPT ![t] = g]
      /\ pc' = [pc EXCEPT ![t] = IF g = Nobody THEN "epilogue" ELSE "leave"]
      /\ below' = [below EXCEPT ![c] = Nobody]
      /\ UNCHANGED <<live, state, suspended, resume, active, current, goal, self>>
      /\ g # Nobody => suspended[g] /\ resume[g].by = t /\ \A u \in Threads : goal[u] # g
  BY <1>0 DEF EntryReturns, threads
<1>2. g # Nobody => /\ g \in live
                    /\ \A v \in Threads \ {t} : /\ on[v] # g
                                                /\ active[v] => current[v] # g
  BY <1>0, <1>1 DEF IInv, BelowIsLeft
<1>3. /\ \A u \in Threads \ {t} : pc'[u] = pc[u] /\ on'[u] = on[u]
      /\ pc'[t] \in {"epilogue", "leave"} /\ on'[t] = g
      /\ pc'[t] = IF g = Nobody THEN "epilogue" ELSE "leave"
      /\ below'[c] = Nobody /\ \A h \in FiberIds \ {c} : below'[h] = below[h]
  BY <1>0, <1>1 DEF IInv, TypeOK
<1>4. TypeOK'
  BY <1>0, <1>1, <1>3 DEF IInv, TypeOK
<1>5. ContextIsOwn'
  BY <1>0, <1>1 DEF IInv, ContextIsOwn, TypeOK
<1>6. ThreadShape'
  <2> SUFFICES ASSUME NEW u \in Threads PROVE ThreadShape!(u)'
    BY DEF ThreadShape
  <2>1. ThreadShape!(u)
    BY DEF IInv, ThreadShape
  <2>2. CASE u = t
    BY <1>0, <1>1, <1>2, <1>3, <2>1, <2>2 DEF ThreadShape, InGuest, Looked
  <2>3. CASE u # t
    BY <1>1, <1>3, <2>1, <2>3 DEF ThreadShape, InGuest
  <2>4. QED
    BY <2>2, <2>3
<1>7. NoSharing'
  BY <1>1, <1>2, <1>3 DEF IInv, NoSharing
<1>8. LookedIsFree'
  <2> SUFFICES ASSUME NEW u \in Threads, pc'[u] \in Looked
               PROVE  \A v \in Threads : /\ active[v] => current[v] # goal[u]
                                         /\ on'[v] # goal[u]
                                         /\ v # u => goal[v] # goal[u]
    BY <1>1 DEF LookedIsFree
  <2>1. u # t /\ pc[u] \in Looked /\ goal[u] # Nobody
    BY <1>3, GoalIs DEF Looked
  <2>2. g # goal[u]
    BY <1>1, <2>1
  <2>3. QED
    BY <1>3, <2>1, <2>2 DEF IInv, LookedIsFree
<1>9. LeftIsQuiet'
  <2> SUFFICES ASSUME NEW u \in Threads, pc'[u] \in Taking, suspended[goal[u]]
               PROVE  LET d == resume[goal[u]].by IN d = u \/ (~active[d] /\ pc'[d] # "run")
    BY <1>1 DEF LeftIsQuiet
  <2>1. u # t /\ pc[u] \in Taking
    BY <1>3 DEF Taking
  <2>2. goal[u] \in FiberIds
    BY <2>1, GoalIs DEF Looked, Taking
  <2>3. resume[goal[u]].by \in Threads
    BY <2>1, <2>2 DEF IInv, ContextIsOwn
  <2>4. QED
    BY <1>3, <2>1, <2>3 DEF IInv, LeftIsQuiet
<1>10. BelowIsLeft'
  <2> SUFFICES ASSUME NEW u \in Threads, active[u], InGuest(u)',
                      NEW h, h = below'[current[u]], h # Nobody, suspended[h], resume[h].by = u
               PROVE  /\ h \in live
                      /\ \A v \in Threads \ {u} :
                           /\ on'[v] # h
                           /\ active[v] => current[v] # h
                           /\ pc'[v] \in Taking => goal[v] # h
    BY <1>1 DEF BelowIsLeft, InGuest
  <2>1. u # t /\ InGuest(u)
    BY <1>3 DEF InGuest, Looked
  <2>2. current[u] \in FiberIds \ {c}
    BY <1>0, <2>1, OnCurrent DEF IInv, NoSharing
  <2>3. h = below[current[u]] /\ g # h
    BY <1>1, <1>3, <2>1, <2>2
  <2>4. h \in live /\ \A v \in Threads \ {u} : /\ on[v] # h
                                               /\ active[v] => current[v] # h
                                               /\ pc[v] \in Taking => goal[v] # h
    BY <2>1, <2>3 DEF IInv, BelowIsLeft
  <2>5. QED
    BY <1>3, <2>3, <2>4 DEF Taking
<1>11. NoneStuckInRun'
  BY <1>1 DEF IInv, NoneStuckInRun
<1>12. QED
  BY <1>4, <1>5, <1>6, <1>7, <1>8, <1>9, <1>10, <1>11 DEF IInv

\* The way back to the thread's own stack.
LEMMA LeaveStep ==
  ASSUME IInv, NEW t \in Threads, Leave(t)
  PROVE  IInv'
<1>0. /\ pc[t] = "leave" /\ active[t]
      /\ \A u \in Threads \ {t} : pc'[u] = pc[u] /\ on'[u] = on[u]
      /\ pc'[t] = "epilogue" /\ on'[t] = Nobody
      /\ UNCHANGED <<live, state, suspended, resume, below, active, current, goal, self>>
  BY DEF Leave, IInv, TypeOK, ThreadShape, records, threads
<1>1. TypeOK'
  BY DEF IInv, TypeOK, Leave, records, threads
<1>2. ContextIsOwn' /\ NoneStuckInRun'
  BY <1>0 DEF IInv, ContextIsOwn, NoneStuckInRun
<1>3. ThreadShape'
  <2> SUFFICES ASSUME NEW u \in Threads PROVE ThreadShape!(u)'
    BY DEF ThreadShape
  <2>1. ThreadShape!(u)
    BY DEF IInv, ThreadShape
  <2>2. QED
    BY <1>0, <2>1 DEF ThreadShape, InGuest, Looked
<1>4. NoSharing'
  BY <1>0 DEF IInv, NoSharing
<1>5. LookedIsFree'
  <2> SUFFICES ASSUME NEW u \in Threads, pc'[u] \in Looked
               PROVE  \A v \in Threads : /\ active[v] => current[v] # goal[u]
                                         /\ on'[v] # goal[u]
                                         /\ v # u => goal[v] # goal[u]
    BY <1>0 DEF LookedIsFree
  <2>1. u # t /\ pc[u] \in Looked /\ goal[u] # Nobody
    BY <1>0, GoalIs DEF Looked
  <2>2. QED
    BY <1>0, <2>1 DEF IInv, LookedIsFree
<1>6. LeftIsQuiet'
  <2> SUFFICES ASSUME NEW u \in Threads, pc'[u] \in Taking, suspended[goal[u]]
               PROVE  LET d == resume[goal[u]].by IN d = u \/ (~active[d] /\ pc'[d] # "run")
    BY <1>0 DEF LeftIsQuiet
  <2>1. u # t /\ pc[u] \in Taking
    BY <1>0 DEF Taking
  <2>2. goal[u] \in FiberIds
    BY <2>1, GoalIs DEF Looked, Taking
  <2>3. resume[goal[u]].by \in Threads
    BY <2>1, <2>2 DEF IInv, ContextIsOwn
  <2>4. QED
    BY <1>0, <2>1, <2>3 DEF IInv, LeftIsQuiet
<1>7. BelowIsLeft'
  <2> SUFFICES ASSUME NEW u \in Threads, active[u], InGuest(u)',
                      NEW h, h = below[current[u]], h # Nobody, suspended[h], resume[h].by = u
               PROVE  /\ h \in live
                      /\ \A v \in Threads \ {u} :
                           /\ on'[v] # h
                           /\ active[v] => current[v] # h
                           /\ pc'[v] \in Taking => goal[v] # h
    BY <1>0 DEF BelowIsLeft, InGuest
  <2>1. InGuest(u)
    BY <1>0 DEF InGuest, Looked
  <2>2. QED
    BY <1>0, <2>1 DEF IInv, BelowIsLeft, Taking
<1>8. QED
  BY <1>1, <1>2, <1>3, <1>4, <1>5, <1>6, <1>7 DEF IInv

\* The end of sceFiberRun.
LEMMA EpilogueStep ==
  ASSUME IInv, NEW t \in Threads, Epilogue(t)
  PROVE  IInv'
<1> DEFINE c == current[t]
<1>0. active[t] /\ pc[t] = "epilogue" /\ on[t] = Nobody /\ c \in FiberIds
  BY DEF Epilogue, IInv, TypeOK, ThreadShape
<1>1. /\ \A u \in Threads \ {t} : /\ pc'[u] = pc[u] /\ active'[u] = active[u]
                                  /\ current'[u] = current[u]
      /\ pc'[t] = "guest" /\ ~active'[t]
      /\ UNCHANGED <<live, suspended, resume, below, on, goal, self>>
      /\ \A h \in FiberIds \ {c} : state'[h] = state[h]
      /\ state'[c] # "run"
  BY <1>0 DEF Epilogue, IInv, TypeOK
<1>2. TypeOK'
  BY DEF IInv, TypeOK, Epilogue
<1>3. ContextIsOwn'
  BY DEF IInv, ContextIsOwn, Epilogue
<1>4. ThreadShape'
  <2> SUFFICES ASSUME NEW u \in Threads PROVE ThreadShape!(u)'
    BY DEF ThreadShape
  <2>1. ThreadShape!(u) /\ (pc[u] \in {"enter", "leave"} => active[u])
    BY DEF IInv, ThreadShape
  <2>2. CASE u = t
    BY <1>0, <1>1, <2>1, <2>2 DEF ThreadShape, InGuest, Looked
  <2>3. CASE u # t
    <3>1. active[u] => current[u] \in FiberIds \ {c}
      BY <1>0, <2>3, FibersAssumption DEF IInv, TypeOK, NoSharing, ThreadShape
    <3>2. active[u] => state'[current[u]] = state[current[u]]
      BY <1>1, <3>1
    <3>3. QED
      BY <1>1, <2>1, <2>3, <3>2 DEF ThreadShape, InGuest
  <2>4. QED
    BY <2>2, <2>3
<1>5. NoSharing'
  BY <1>0, <1>1 DEF IInv, NoSharing
<1>6. LookedIsFree'
  BY <1>0, <1>1 DEF IInv, LookedIsFree, Looked
<1>7. LeftIsQuiet'
  <2> SUFFICES ASSUME NEW u \in Threads, pc'[u] \in Taking, suspended[goal[u]]
               PROVE  LET d == resume[goal[u]].by IN d = u \/ (~active'[d] /\ pc'[d] # "run")
    BY <1>1 DEF LeftIsQuiet
  <2>1. u # t /\ pc[u] \in Taking
    BY <1>1 DEF Taking
  <2>2. goal[u] \in FiberIds
    BY <2>1, GoalIs DEF Looked, Taking
  <2>3. resume[goal[u]].by \in Threads
    BY <2>1, <2>2 DEF IInv, ContextIsOwn
  <2>4. QED
    BY <1>1, <2>1, <2>3 DEF IInv, LeftIsQuiet
<1>8. BelowIsLeft'
  <2> SUFFICES ASSUME NEW u \in Threads, active'[u], InGuest(u)',
                      NEW h, h = below[current'[u]], h # Nobody, suspended[h], resume[h].by = u
               PROVE  /\ h \in live
                      /\ \A v \in Threads \ {u} :
                           /\ on[v] # h
                           /\ active'[v] => current'[v] # h
                           /\ pc'[v] \in Taking => goal[v] # h
    BY <1>1 DEF BelowIsLeft, InGuest
  <2>1. u # t /\ active[u] /\ InGuest(u) /\ current'[u] = current[u]
    BY <1>1 DEF InGuest, Looked
  <2>2. QED
    BY <1>0, <1>1, <2>1 DEF IInv, BelowIsLeft, Taking
<1>9. NoneStuckInRun'
  BY <1>0, <1>1 DEF IInv, NoneStuckInRun
<1>10. QED
  BY <1>2, <1>3, <1>4, <1>5, <1>6, <1>7, <1>8, <1>9 DEF IInv
-------------------------------------------------------------------------------
\* IInv is an inductive invariant while the guest's calls on one fiber do not overlap
\* (Serial) and every move of a fiber is a handover (Handover).
THEOREM Inductive == ASSUME Serial, Handover PROVE Spec => []IInv
<1>1. ASSUME IInv, [Next]_vars PROVE IInv'
  <2>1. CASE UNCHANGED vars
    BY <1>1, <2>1 DEF vars, records, threads, IInv, TypeOK, ContextIsOwn, ThreadShape,
                      NoSharing, LookedIsFree, LeftIsQuiet, BelowIsLeft, NoneStuckInRun,
                      InGuest
  <2>2. CASE Next
    BY <1>1, <2>2, InitializeStep, InitializeEndStep, FinalizeStep, FinalizeEndStep,
       RunStep, RunTakesStep, SwitchStep, SwitchTakesStep, EnterStep, ReturnStep,
       EntryReturnsStep, LeaveStep, EpilogueStep DEF Next
  <2>3. QED
    BY <1>1, <2>1, <2>2
<1>2. QED
  BY InitIInv, <1>1, PTL DEF Spec

\* Under Serial and Handover, sceFiberGetSelf answers the fiber that runs, and the
\* next yield saves into its record, through any sequence of runs, switches, yields,
\* returns of entries and handovers.
THEOREM SelfIsTrue == ASSUME Serial, Handover PROVE Spec => []SelfIsRunning
<1>1. IInv => SelfIsRunning
  BY DEF IInv, ThreadShape, SelfIsRunning
<1>2. QED
  BY <1>1, Inductive, PTL

\* Under Serial and Handover, no two host threads are on one fiber's stack.
THEOREM StacksAreExclusive == ASSUME Serial, Handover PROVE Spec => []StackExclusive
<1>1. IInv => StackExclusive
  BY DEF IInv, NoSharing, StackExclusive
<1>2. QED
  BY <1>1, Inductive, PTL

\* Under Serial and Handover, a fiber in state Run is some thread's current fiber, so
\* it is not refused for ever by sceFiberSwitch and sceFiberFinalize.
THEOREM RunHasAThread == ASSUME Serial, Handover PROVE Spec => []NoneStuckInRun
<1>1. IInv => NoneStuckInRun
  BY DEF IInv
<1>2. QED
  BY <1>1, Inductive, PTL

\* What a thread uses is there.
LEMMA UsesAreLive ==
  ASSUME IInv, NEW t \in Threads
  PROVE  Uses(t) \subseteq live \union {Nobody}
<1>1. active[t] => current[t] \in live
  BY DEF IInv, ThreadShape
<1>2. pc[t] \in Taking => goal[t] \in live
  BY GoalIs DEF Looked, Taking
<1>3. on[t] \in live \union {Nobody}
  BY <1>1 DEF IInv, TypeOK, ThreadShape, InGuest
<1>4. QED
  BY <1>1, <1>2, <1>3 DEF Uses

\* What dies is used by nobody.
LEMMA TheDyingAreUnused ==
  ASSUME IInv, NEW f, Dies(f), NEW u \in Threads, f # Nobody
  PROVE  f \notin Uses(u)
<1>1. PICK t \in Threads : pc[t] \in {"init", "finalize"} /\ goal[t] = f
  BY DEF Dies
<1>2. (active[u] => current[u] # f) /\ on[u] # f /\ (u # t => goal[u] # f)
  BY <1>1 DEF IInv, LookedIsFree, Looked
<1>3. pc[u] \in Taking => u # t
  BY <1>1 DEF Taking
<1>4. QED
  BY <1>2, <1>3 DEF Uses

\* Under Serial and Handover, the pointers the fiber calls keep to a record, across
\* the guest's code and between their own look and mark, never dangle: no record is
\* erased by sceFiberFinalize, or replaced by sceFiberInitialize, under its user.
THEOREM RecordsOutliveUses == ASSUME Serial, Handover PROVE Spec => RecordOutlivesUse
<1>1. IInv => \A t \in Threads : Uses(t) \subseteq live \union {Nobody}
  BY UsesAreLive
<1>2. ASSUME IInv, NEW f \in live, Dies(f), NEW t \in Threads PROVE f \notin Uses(t)
  BY <1>2, TheDyingAreUnused, FibersAssumption DEF IInv, TypeOK
<1>3. IInv => [\A f \in live : Dies(f) => \A t \in Threads : f \notin Uses(t)]_vars
  BY <1>2
<1>4. QED
  BY <1>1, <1>3, Inductive, PTL DEF RecordOutlivesUse
===============================================================================
