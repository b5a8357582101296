--------------------------------- MODULE Fibers ---------------------------------
(***************************************************************************)
(* sceFiber (src/hle/sync/hle_fiber.cpp): the records of the fibers, the   *)
(* record of each host thread, and the contexts that are saved on one and  *)
(* restored on another stack.                                              *)
(*                                                                         *)
(* Only g_fibers and g_threads are under a mutex.  A call looks at a fiber *)
(* in one step, marks it in the next, and jumps to the other stack in a    *)
(* third.  A saved context is the frame that saved it, with its locals:    *)
(* the fiber it took for itself, and the thread it was running on.         *)
(*                                                                         *)
(* What the guest keeps to and the code does not check:                    *)
(*   - an entry returns only if its fiber never yielded, and if the fiber  *)
(*     that switched to it is still suspended there;                       *)
(*   - Serial: while one call is about to take, start afresh or finalize a *)
(*     fiber, or has just left its stack, no other does; none runs or      *)
(*     initializes a running fiber;                                        *)
(*   - Handover: a suspended fiber is resumed on another thread only when  *)
(*     the thread it left is back from sceFiberRun, and that thread runs   *)
(*     nothing until the fiber has resumed.                                *)
(***************************************************************************)
EXTENDS FiniteSets

CONSTANTS Threads, FiberIds, Nobody, Serial, Handover

ASSUME FibersAssumption ==
    /\ IsFiniteSet(Threads) /\ IsFiniteSet(FiberIds)
    /\ Nobody \notin Threads \union FiberIds
    /\ Threads \cap FiberIds = {}
    /\ Serial \in BOOLEAN /\ Handover \in BOOLEAN

VARIABLES
    live,       \* fibers with a record in g_fibers
    state,      \* GuestFiber.state
    suspended,  \* FiberRecord.suspended: it has a context to resume
    resume,     \* FiberRecord.resume: [on, cur, by]
    below,      \* the fiber on whose stack its entry was called, until it yields
    active, current,   \* ThreadFibers
    on,         \* per thread: the fiber whose stack it is on, or Nobody
    goal,       \* per thread: the fiber its call is about
    self,       \* per thread: the fiber a switch takes itself for
    pc

records == <<live, state, suspended, resume, below>>
threads == <<active, current>>
vars    == <<records, threads, on, goal, self, pc>>

NoContext == [on |-> Nobody, cur |-> Nobody, by |-> Nobody]

Init ==
    /\ live = {}
    /\ state = [f \in FiberIds |-> "none"]
    /\ suspended = [f \in FiberIds |-> FALSE]
    /\ resume = [f \in FiberIds |-> NoContext]
    /\ below = [f \in FiberIds |-> Nobody]
    /\ active = [t \in Threads |-> FALSE]
    /\ current = [t \in Threads |-> Nobody]
    /\ on = [t \in Threads |-> Nobody]
    /\ goal = [t \in Threads |-> Nobody]
    /\ self = [t \in Threads |-> Nobody]
    /\ pc = [t \in Threads |-> "guest"]

\* In a call that has not yet marked its fiber, or not yet jumped to it.
Looked == {"init", "finalize", "run", "switch"}
Taking == {"run", "switch", "enter"}

-------------------------------------------------------------------------------
(* What the guest asks for.                                                *)

\* Still on its way from the fiber's stack, or looking at its record.
Leaving(f) ==
    \E u \in Threads : \/ on[u] = f /\ pc[u] \in {"leave", "enter"}
                       \/ current[u] = f /\ pc[u] = "epilogue"

Untouched(f) == Serial => ~Leaving(f) /\ \A u \in Threads : goal[u] # f

\* The thread a suspended fiber left.
Left(f) == IF suspended[f] THEN resume[f].by ELSE Nobody

MayResume(t, f) ==
    /\ Untouched(f)
    /\ Handover /\ Left(f) \in Threads \ {t} =>
           ~active[Left(f)] /\ pc[Left(f)] = "guest"

MayRun(t, f) ==
    /\ MayResume(t, f)
    /\ Serial => state[f] # "run"
    /\ Handover => \A u \in Threads \ {t} : pc[u] \in Taking => Left(goal[u]) # t

\* t's call comes to a label, about fiber f.
Call(t, label, f) == /\ pc' = [pc EXCEPT ![t] = label]
                     /\ goal' = [goal EXCEPT ![t] = f]

-------------------------------------------------------------------------------
\* _sceFiberInitializeImpl writes the guest's fiber, then its record.
Initialize(t, f) ==
    /\ pc[t] = "guest"
    /\ Untouched(f) /\ (Serial => state[f] # "run")
    /\ state' = [state EXCEPT ![f] = "idle"]
    /\ Call(t, "init", f)
    /\ UNCHANGED <<live, suspended, resume, below, threads, on, self>>

\* The old context, if any, is gone.
NewRecord(t) ==
    /\ suspended' = [suspended EXCEPT ![goal[t]] = FALSE]
    /\ resume' = [resume EXCEPT ![goal[t]] = NoContext]
    /\ below' = [below EXCEPT ![goal[t]] = Nobody]
    /\ Call(t, "guest", Nobody)
    /\ UNCHANGED <<threads, on, self>>

\* The record replaces the fiber's last one, which dies.
InitializeEnd(t) ==
    /\ pc[t] = "init"
    /\ live' = live \union {goal[t]}
    /\ NewRecord(t)
    /\ UNCHANGED state

\* Faulty: a running fiber is finalized.
FinalizeRunning(t, f) ==
    /\ pc[t] = "guest" /\ f \in live /\ Untouched(f)
    /\ Call(t, "finalize", f)
    /\ UNCHANGED <<records, threads, on, self>>

\* sceFiberFinalize
Finalize(t, f) ==
    /\ pc[t] = "guest" /\ f \in live /\ Untouched(f)
    /\ state[f] # "run"
    /\ Call(t, "finalize", f)
    /\ UNCHANGED <<records, threads, on, self>>

FinalizeEnd(t) ==
    /\ pc[t] = "finalize"
    /\ state' = [state EXCEPT ![goal[t]] = "terminated"]
    /\ live' = live \ {goal[t]}
    /\ NewRecord(t)

\* sceFiberRun looks at the fiber, and takes it.
Run(t, f) ==
    /\ pc[t] = "guest" /\ ~active[t] /\ f \in live /\ MayRun(t, f)
    /\ state[f] # "terminated"
    /\ Call(t, "run", f)
    /\ UNCHANGED <<records, threads, on, self>>

RunTakes(t) ==
    /\ pc[t] = "run"
    /\ active' = [active EXCEPT ![t] = TRUE]
    /\ current' = [current EXCEPT ![t] = goal[t]]
    /\ state' = [state EXCEPT ![goal[t]] = "run"]
    /\ Call(t, "enter", goal[t])
    /\ UNCHANGED <<live, suspended, resume, below, on, self>>

\* Faulty: a target that runs is not refused.
SwitchUnchecked(t, f) ==
    /\ pc[t] = "guest" /\ active[t] /\ f \in live \ {current[t]} /\ MayResume(t, f)
    /\ self' = [self EXCEPT ![t] = current[t]]
    /\ Call(t, "switch", f)
    /\ UNCHANGED <<records, threads, on>>

\* sceFiberSwitch looks at the target.
Switch(t, f) ==
    /\ pc[t] = "guest" /\ active[t] /\ f \in live \ {current[t]} /\ MayResume(t, f)
    /\ state[f] \notin {"run", "terminated"}
    /\ self' = [self EXCEPT ![t] = current[t]]
    /\ Call(t, "switch", f)
    /\ UNCHANGED <<records, threads, on>>

\* A context saved by thread t, which takes itself for fiber c.
Save(t, c) ==
    /\ resume' = [resume EXCEPT ![c] = [on |-> on[t], cur |-> c, by |-> t]]
    /\ suspended' = [suspended EXCEPT ![c] = TRUE]
    /\ below' = [below EXCEPT ![c] = Nobody]

\* Faulty: the thread's current fiber is left to the target to set.
SwitchKeepsCurrent(t) ==
    /\ pc[t] = "switch"
    /\ Save(t, self[t])
    /\ state' = [state EXCEPT ![self[t]] = "idle", ![goal[t]] = "run"]
    /\ self' = [self EXCEPT ![t] = Nobody]
    /\ Call(t, "enter", goal[t])
    /\ UNCHANGED <<live, threads, on>>

\* Faulty: the fiber that is left stays Run.
SwitchStaysRun(t) ==
    /\ pc[t] = "switch"
    /\ Save(t, self[t])
    /\ state' = [state EXCEPT ![goal[t]] = "run"]
    /\ current' = [current EXCEPT ![t] = goal[t]]
    /\ self' = [self EXCEPT ![t] = Nobody]
    /\ Call(t, "enter", goal[t])
    /\ UNCHANGED <<live, active, on>>

\* It leaves the one fiber and takes the other.
SwitchTakes(t) ==
    /\ pc[t] = "switch"
    /\ Save(t, self[t])
    /\ state' = [state EXCEPT ![self[t]] = "idle", ![goal[t]] = "run"]
    /\ current' = [current EXCEPT ![t] = goal[t]]
    /\ self' = [self EXCEPT ![t] = Nobody]
    /\ Call(t, "enter", goal[t])
    /\ UNCHANGED <<live, active, on>>

\* The jump: into the entry of a fiber that never yielded, called on this stack, or
\* back into the call that saved the context, which writes through its own locals.
Enter(t) ==
    /\ pc[t] = "enter"
    /\ Call(t, "guest", Nobody)
    /\ LET f == goal[t]
           c == resume[f]
       IN IF suspended[f]
          THEN /\ on' = [on EXCEPT ![t] = c.on]
               /\ current' = [current EXCEPT ![c.by] = c.cur]
               /\ state' = [state EXCEPT ![c.cur] = "run"]
               /\ UNCHANGED below
          ELSE /\ on' = [on EXCEPT ![t] = f]
               /\ below' = [below EXCEPT ![f] = on[t]]
               /\ UNCHANGED <<current, state>>
    /\ UNCHANGED <<live, suspended, resume, active, self>>

\* sceFiberReturnToThread, up to the jump.
ReturnToThread(t) ==
    /\ pc[t] = "guest" /\ active[t]
    /\ Save(t, current[t])
    /\ state' = [state EXCEPT ![current[t]] = "idle"]
    /\ pc' = [pc EXCEPT ![t] = "leave"]
    /\ UNCHANGED <<live, threads, on, goal, self>>

\* The entry's plain return goes to the stack it was called on: the thread's own, in
\* sceFiberRun, or that of the fiber which switched, where sceFiberSwitch goes on.
EntryReturns(t) ==
    /\ pc[t] = "guest" /\ on[t] # Nobody /\ ~suspended[on[t]]
    /\ LET g == below[on[t]]
       IN /\ g # Nobody => /\ suspended[g] /\ resume[g].by = t
                           /\ Serial => \A u \in Threads : goal[u] # g
          /\ on' = [on EXCEPT ![t] = g]
          /\ pc' = [pc EXCEPT ![t] = IF g = Nobody THEN "epilogue" ELSE "leave"]
    /\ below' = [below EXCEPT ![on[t]] = Nobody]
    /\ UNCHANGED <<live, state, suspended, resume, threads, goal, self>>

\* The jump to the thread's own stack.
Leave(t) ==
    /\ pc[t] = "leave"
    /\ on' = [on EXCEPT ![t] = Nobody]
    /\ pc' = [pc EXCEPT ![t] = "epilogue"]
    /\ UNCHANGED <<records, threads, goal, self>>

\* The end of sceFiberRun.
Epilogue(t) ==
    /\ pc[t] = "epilogue"
    /\ LET c == current[t]
       IN state' = [f \in FiberIds |->
            IF f = c /\ state[f] # "terminated" THEN "idle" ELSE state[f]]
    /\ current' = [current EXCEPT ![t] = Nobody]
    /\ active' = [active EXCEPT ![t] = FALSE]
    /\ pc' = [pc EXCEPT ![t] = "guest"]
    /\ UNCHANGED <<live, suspended, resume, below, on, goal, self>>

Next ==
    \E t \in Threads :
       \/ InitializeEnd(t) \/ FinalizeEnd(t) \/ RunTakes(t) \/ SwitchTakes(t)
       \/ Enter(t) \/ ReturnToThread(t) \/ EntryReturns(t) \/ Leave(t) \/ Epilogue(t)
       \/ \E f \in FiberIds :
            Initialize(t, f) \/ Finalize(t, f) \/ Run(t, f) \/ Switch(t, f)

Spec == Init /\ [][Next]_vars

-------------------------------------------------------------------------------
(* Properties.                                                             *)

TypeOK ==
    /\ live \subseteq FiberIds
    /\ state \in [FiberIds -> {"none", "idle", "run", "terminated"}]
    /\ suspended \in [FiberIds -> BOOLEAN]
    /\ resume \in [FiberIds -> [on : FiberIds, cur : FiberIds, by : Threads]
                               \union {NoContext}]
    /\ below \in [FiberIds -> FiberIds \union {Nobody}]
    /\ active \in [Threads -> BOOLEAN]
    /\ {current, on, goal, self} \subseteq [Threads -> FiberIds \union {Nobody}]
    /\ pc \in [Threads -> Looked \union {"guest", "enter", "leave", "epilogue"}]

\* On guest code's side of a jump: nothing of the thread's fiber is in flux.
InGuest(t) == pc[t] \in Looked \union {"guest"}

(* A fiber that runs on a thread is that thread's current fiber: it is     *)
(* what sceFiberGetSelf answers, and where its next context is saved.  A   *)
(* fiber resumes on whichever thread calls sceFiberRun.                    *)
SelfIsRunning ==
    \A t \in Threads :
        InGuest(t) /\ on[t] # Nobody => active[t] /\ current[t] = on[t]

(* No two threads are ever on one fiber's stack, through any sequence of   *)
(* runs, yields, switches, returns of entries and moves between threads.   *)
StackExclusive ==
    /\ TypeOK
    /\ \A t, u \in Threads : on[t] = on[u] /\ on[t] # Nobody => t = u

(* No fiber is left in state Run, which every later switch to it refuses,  *)
(* unless a thread is running it or about to.                              *)
NoneStuckInRun ==
    \A f \in FiberIds : state[f] = "run" =>
        \E t \in Threads : active[t] /\ current[t] = f

(* The record of a fiber, and the stack it may own, outlive every use: no  *)
(* record is erased or replaced while a thread is on its stack, has it for *)
(* its current fiber or is about to take it, and none is used afterwards.  *)
Uses(t) == {on[t]} \union (IF active[t] THEN {current[t]} ELSE {})
                   \union (IF pc[t] \in Taking THEN {goal[t]} ELSE {})
Dies(f) == \E t \in Threads :
    pc[t] \in {"init", "finalize"} /\ goal[t] = f /\ goal'[t] # f
RecordOutlivesUse ==
    /\ [](\A t \in Threads : Uses(t) \subseteq live \union {Nobody})
    /\ [][\A f \in live : Dies(f) => \A t \in Threads : f \notin Uses(t)]_vars

(* The inductive invariant behind the four, under Serial and Handover.     *)

\* A fiber's saved context is a frame of its own stack, and its entry is not to return.
ContextIsOwn ==
    \A f \in FiberIds : suspended[f] =>
        /\ resume[f].on = f /\ resume[f].cur = f /\ resume[f].by \in Threads
        /\ below[f] = Nobody

\* Where a thread is decides what it has in its record and its fiber's.
ThreadShape ==
    \A t \in Threads :
        /\ ~active[t] => pc[t] \in {"guest", "init", "finalize", "run"} /\ on[t] = Nobody
        /\ active[t] => pc[t] # "run" /\ current[t] \in live
        /\ active[t] /\ InGuest(t) => on[t] = current[t]
        /\ active[t] /\ (InGuest(t) \/ pc[t] = "enter") => state[current[t]] = "run"
        /\ pc[t] = "enter" => /\ on[t] # current[t] /\ goal[t] = current[t]
                              /\ on[t] \in live \union {Nobody}
        /\ pc[t] = "leave" => on[t] \in live /\ (on[t] = current[t] \/ state[current[t]] = "run")
        /\ pc[t] = "epilogue" => on[t] = Nobody
        /\ pc[t] \in {"guest", "leave", "epilogue"} => goal[t] = Nobody
        /\ pc[t] = "init" => goal[t] \in FiberIds
        /\ pc[t] \in {"finalize", "run", "switch"} => goal[t] \in live
        /\ pc[t] = "switch" => self[t] = current[t] /\ active[t]

\* What a thread is on, or takes for its current fiber, is no other thread's.
NoSharing ==
    \A t, u \in Threads : t # u =>
        /\ active[t] /\ active[u] => current[t] # current[u]
        /\ on[t] # Nobody => on[t] # on[u]
        /\ on[t] # Nobody /\ active[u] => on[t] # current[u]

\* What a call has looked at stays as it was seen, and is nobody's.
LookedIsFree ==
    \A t \in Threads : pc[t] \in Looked =>
        \A u \in Threads : /\ active[u] => current[u] # goal[t]
                           /\ on[u] # goal[t]
                           /\ u # t => goal[u] # goal[t]

\* The thread that a fiber about to resume elsewhere had left runs nothing.
LeftIsQuiet ==
    \A t \in Threads : pc[t] \in Taking /\ suspended[goal[t]] =>
        LET b == resume[goal[t]].by IN b = t \/ (~active[b] /\ pc[b] # "run")

\* The stack that a running entry may return to is nobody's, while it is there.
BelowIsLeft ==
    \A t \in Threads : active[t] /\ InGuest(t) =>
        LET g == below[current[t]]
        IN g # Nobody /\ suspended[g] /\ resume[g].by = t =>
             /\ g \in live
             /\ \A u \in Threads \ {t} : /\ on[u] # g
                                         /\ active[u] => current[u] # g
                                         /\ pc[u] \in Taking => goal[u] # g

IInv == /\ TypeOK /\ ContextIsOwn /\ ThreadShape /\ NoSharing /\ LookedIsFree
        /\ LeftIsQuiet /\ BelowIsLeft /\ NoneStuckInRun

===============================================================================
