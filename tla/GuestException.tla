---------------------------- MODULE GuestException ----------------------------
(***************************************************************************)
(* sceKernelRaiseException on Windows hosts (src/hle/kernel/               *)
(* hle_kernel.cpp): a raise is first queued for the target to accept at a  *)
(* checkpoint of its wait wrappers, then withdrawn and forced by           *)
(* redirecting the suspended target.  The target waits in the wrappers of  *)
(* src/hle/sync/sync_futex.cpp, whose words the raiser moves or wakes.     *)
(*                                                                         *)
(* A target is a stack of frames: its guest code, and above it the         *)
(* handlers it is in, each on the stack it runs on.  Handlers wait too.    *)
(* Every raise has a number.  External: SuspendThread, SetThreadContext,   *)
(* WaitOnAddress.                                                          *)
(***************************************************************************)
EXTENDS Integers, Sequences, FiniteSets

CONSTANTS Raisers, Targets,
          MaxRaises,     \* bound: raises in a behaviour
          MaxSpins,      \* 20 in the code
          Modulus,       \* 2^32: the count wraps
          NoOne

ASSUME ExceptionAssumption ==
    /\ IsFiniteSet(Raisers) /\ IsFiniteSet(Targets)
    /\ NoOne \notin Raisers \union Targets
    /\ MaxRaises \in Nat
    /\ MaxSpins \in Nat
    /\ Modulus \in Nat \ (0 .. Cardinality(Targets))

VARIABLES
    state,      \* per target: its WinCoopSlot's state
    type,       \* per target: the raise its WinCoopSlot holds, 0 for none
    queued,     \* g_win_coop_queued; a claim may overtake the add, so it can wrap
    active,     \* per target: its exception stack is marked in use
    mutex,      \* per target: raise_mutex of its exception stack
    suspended,  \* per target
    exited,     \* per target
    frames,     \* per target: the stack of frames
    rpc,        \* where each raiser is in its call
    target, raise, spin,
    raised,     \* raises so far
    told,       \* ghost, per raise: what its caller was told
    ran         \* ghost, per raise: times its handler was entered

coop   == <<state, type, queued>>
forced == <<active, mutex, suspended>>
ghosts == <<told, ran>>
rvars  == <<rpc, target, raise, spin, raised>>
vars   == <<coop, forced, exited, frames, rvars, ghosts>>

Raises == 1 .. MaxRaises

\* at: running; before the wait's checkpoint; about to sleep; asleep; after the
\* wait's checkpoint; redirected but not yet there.  step: the checkpoint's own.
Frames == [on    : {"guest", "coop", "exc"},
           raise : 0 .. MaxRaises,
           at    : {"run", "pre", "park", "parked", "post", "enter"},
           step  : {"load", "claim", "sub"},
           wait  : {"cond", "addr"},
           moved : BOOLEAN]

Frame(on, n, at) == [on |-> on, raise |-> n, at |-> at, step |-> "load",
                     wait |-> "cond", moved |-> FALSE]

Rpcs == {"idle", "publish", "queue", "add", "interrupt", "poll", "withdraw", "sub",
         "lock", "probe", "suspend", "redirect", "wake", "resume", "refuse"}

TypeOK ==
    /\ state \in [Targets -> {"Idle", "Publishing", "Queued", "Running"}]
    /\ type \in [Targets -> 0 .. MaxRaises]
    /\ queued \in 0 .. Modulus - 1
    /\ active \in [Targets -> BOOLEAN]
    /\ mutex \in [Targets -> Raisers \union {NoOne}]
    /\ suspended \in [Targets -> BOOLEAN]
    /\ exited \in [Targets -> BOOLEAN]
    /\ frames \in [Targets -> Seq(Frames)]
    /\ rpc \in [Raisers -> Rpcs]
    /\ target \in [Raisers -> Targets \union {NoOne}]
    /\ raise \in [Raisers -> 0 .. MaxRaises]
    /\ spin \in [Raisers -> 0 .. MaxSpins]
    /\ raised \in 0 .. MaxRaises
    /\ told \in [Raises -> {"none", "ok", "refused"}]
    /\ ran \in [Raises -> Nat]

Init ==
    /\ state = [t \in Targets |-> "Idle"]
    /\ type = [t \in Targets |-> 0]
    /\ queued = 0
    /\ active = [t \in Targets |-> FALSE]
    /\ mutex = [t \in Targets |-> NoOne]
    /\ suspended = [t \in Targets |-> FALSE]
    /\ exited = [t \in Targets |-> FALSE]
    /\ frames = [t \in Targets |-> <<Frame("guest", 0, "run")>>]
    /\ rpc = [r \in Raisers |-> "idle"]
    /\ target = [r \in Raisers |-> NoOne]
    /\ raise = [r \in Raisers |-> 0]
    /\ spin = [r \in Raisers |-> 0]
    /\ raised = 0
    /\ told = [n \in Raises |-> "none"]
    /\ ran = [n \in Raises |-> 0]

Goto(r, label) == /\ rpc' = [rpc EXCEPT ![r] = label]
                  /\ UNCHANGED <<target, raise, spin, raised>>

\* win_raise_exception returns.
Tell(r, answer) ==
    /\ told' = [told EXCEPT ![raise[r]] = answer]
    /\ rpc' = [rpc EXCEPT ![r] = "idle"]
    /\ target' = [target EXCEPT ![r] = NoOne]
    /\ raise' = [raise EXCEPT ![r] = 0]
    /\ spin' = [spin EXCEPT ![r] = 0]
    /\ UNCHANGED <<raised, ran>>

-------------------------------------------------------------------------------
(* win_raise_exception, try_queue_wait_exception                           *)

\* A target that has exited is refused (ESRCH) before anything is published.
Raise(r, t) ==
    /\ rpc[r] = "idle"
    /\ raised < MaxRaises
    /\ ~exited[t]
    /\ raised' = raised + 1
    /\ raise' = [raise EXCEPT ![r] = raised + 1]
    /\ target' = [target EXCEPT ![r] = t]
    /\ rpc' = [rpc EXCEPT ![r] = "publish"]
    /\ UNCHANGED <<coop, forced, exited, frames, spin, ghosts>>

\* One request at a time: EBUSY.
Publish(r) == LET t == target[r] IN
    /\ rpc[r] = "publish"
    /\ \/ /\ state[t] = "Idle"
          /\ state' = [state EXCEPT ![t] = "Publishing"]
          /\ Goto(r, "queue")
          /\ UNCHANGED ghosts
       \/ /\ state[t] # "Idle"
          /\ Tell(r, "refused")
          /\ UNCHANGED state
    /\ UNCHANGED <<type, queued, forced, exited, frames>>

\* The type is stored while Publishing keeps everybody away, then released.
Queue(r) == LET t == target[r] IN
    /\ rpc[r] = "queue"
    /\ type' = [type EXCEPT ![t] = raise[r]]
    /\ state' = [state EXCEPT ![t] = "Queued"]
    /\ Goto(r, "add")
    /\ UNCHANGED <<queued, forced, exited, frames, ghosts>>

Add(r) ==
    /\ rpc[r] = "add"
    /\ queued' = (queued + 1) % Modulus
    /\ Goto(r, "interrupt")
    /\ UNCHANGED <<state, type, forced, exited, frames, ghosts>>

\* interrupt_guest_wait: every wait the thread has registered is woken; a
\* condition's word is moved too, so that a wait about to sleep does not.
Interrupted(t) ==
    [k \in DOMAIN frames[t] |->
        LET f == frames[t][k] IN
        IF f.at \in {"pre", "park", "parked", "post"}
        THEN [f EXCEPT !.moved = f.wait = "cond" /\ f.at \in {"pre", "park"},
                       !.at = IF @ = "parked" THEN "post" ELSE @]
        ELSE f]

Interrupt(r) ==
    /\ rpc[r] = "interrupt"
    /\ frames' = [frames EXCEPT ![target[r]] = Interrupted(target[r])]
    /\ Goto(r, "poll")
    /\ UNCHANGED <<coop, forced, exited, ghosts>>

\* Faulty: the handoff is not bounded.
PollForever(r) ==
    /\ rpc[r] = "poll" /\ state[target[r]] # "Queued" /\ Tell(r, "ok")
    /\ UNCHANGED <<coop, forced, exited, frames>>

Poll(r) ==
    /\ rpc[r] = "poll"
    /\ \/ state[target[r]] # "Queued" /\ Tell(r, "ok")
       \/ /\ state[target[r]] = "Queued" /\ spin[r] < MaxSpins
          /\ spin' = [spin EXCEPT ![r] = @ + 1]
          /\ UNCHANGED <<rpc, target, raise, raised, ghosts>>
       \/ /\ state[target[r]] = "Queued" /\ spin[r] = MaxSpins
          /\ Goto(r, "withdraw") /\ UNCHANGED ghosts
    /\ UNCHANGED <<coop, forced, exited, frames>>

\* Faulty: the request is withdrawn with a store.
WithdrawStore(r) ==
    /\ rpc[r] = "withdraw"
    /\ state' = [state EXCEPT ![target[r]] = "Idle"] /\ Goto(r, "sub")
    /\ UNCHANGED <<type, queued, forced, exited, frames, ghosts>>

\* Faulty: a request nobody claimed is reported as delivered.
WithdrawNever(r) ==
    /\ rpc[r] = "withdraw" /\ Tell(r, "ok")
    /\ UNCHANGED <<coop, forced, exited, frames>>

\* Queued -> Idle races the target's Queued -> Running.
Withdraw(r) == LET t == target[r] IN
    /\ rpc[r] = "withdraw"
    /\ \/ /\ state[t] = "Queued"
          /\ state' = [state EXCEPT ![t] = "Idle"]
          /\ Goto(r, "sub")
          /\ UNCHANGED ghosts
       \/ /\ state[t] # "Queued"
          /\ Tell(r, "ok")
          /\ UNCHANGED state
    /\ UNCHANGED <<type, queued, forced, exited, frames>>

\* The withdrawer takes its request off the count; an exited target is refused.
Subtract(r) ==
    /\ rpc[r] = "sub"
    /\ queued' = (queued - 1) % Modulus
    /\ IF exited[target[r]] THEN Tell(r, "refused")
                            ELSE Goto(r, "lock") /\ UNCHANGED ghosts
    /\ UNCHANGED <<state, type, forced, exited, frames>>

-------------------------------------------------------------------------------
(* win_raise_exception, the forced delivery                                *)

Lock(r) == LET t == target[r] IN
    /\ rpc[r] = "lock"
    /\ mutex[t] = NoOne
    /\ mutex' = [mutex EXCEPT ![t] = r]
    /\ active' = [active EXCEPT ![t] = TRUE]
    /\ Goto(r, IF active[t] THEN "probe" ELSE "suspend")
    /\ UNCHANGED <<coop, suspended, exited, frames, ghosts>>

Top(t) == frames[t][Len(frames[t])]

\* Faulty: the exception stack is reused without looking where the target is.
ProbeNot(r) == LET t == target[r] IN
    /\ rpc[r] = "probe" /\ ~exited[t]
    /\ suspended' = [suspended EXCEPT ![t] = TRUE] /\ Goto(r, "redirect")
    /\ UNCHANGED <<coop, active, mutex, exited, frames, ghosts>>

\* The stack was used before: the suspended target must have left it.
Probe(r) == LET t == target[r] IN
    /\ rpc[r] = "probe"
    /\ ~exited[t]
    /\ suspended' = [suspended EXCEPT ![t] = TRUE]
    /\ Goto(r, IF Top(t).on = "exc" THEN "refuse" ELSE "redirect")
    /\ UNCHANGED <<coop, active, mutex, exited, frames, ghosts>>

Suspend(r) == LET t == target[r] IN
    /\ rpc[r] = "suspend"
    /\ ~exited[t]
    /\ suspended' = [suspended EXCEPT ![t] = TRUE]
    /\ Goto(r, "redirect")
    /\ UNCHANGED <<coop, active, mutex, exited, frames, ghosts>>

\* SuspendThread fails on a thread that has exited; only the first use of the
\* stack takes its mark back.
SuspendFails(r) == LET t == target[r] IN
    /\ rpc[r] \in {"probe", "suspend"}
    /\ exited[t]
    /\ active' = [active EXCEPT ![t] = rpc[r] = "probe"]
    /\ mutex' = [mutex EXCEPT ![t] = NoOne]
    /\ Tell(r, "refused")
    /\ UNCHANGED <<coop, suspended, exited, frames>>

Redirect(r) == LET t == target[r] IN
    /\ rpc[r] = "redirect"
    /\ frames' = [frames EXCEPT ![t] = Append(@, Frame("exc", raise[r], "enter"))]
    /\ Goto(r, "wake")
    /\ UNCHANGED <<coop, forced, exited, ghosts>>

\* Faulty: the redirected target is left asleep.
WakeNot(r) ==
    /\ rpc[r] = "wake" /\ Goto(r, "resume")
    /\ UNCHANGED <<coop, forced, exited, frames, ghosts>>

\* The wait is interrupted while the target is still suspended.
Wake(r) ==
    /\ rpc[r] = "wake"
    /\ frames' = [frames EXCEPT ![target[r]] = Interrupted(target[r])]
    /\ Goto(r, "resume")
    /\ UNCHANGED <<coop, forced, exited, ghosts>>

\* ResumeThread, and the answer; a busy stack is refused (EBUSY).
Resume(r) == LET t == target[r] IN
    /\ rpc[r] \in {"resume", "refuse"}
    /\ suspended' = [suspended EXCEPT ![t] = FALSE]
    /\ mutex' = [mutex EXCEPT ![t] = NoOne]
    /\ Tell(r, IF rpc[r] = "resume" THEN "ok" ELSE "refused")
    /\ UNCHANGED <<coop, active, exited, frames>>

-------------------------------------------------------------------------------
(* The target: the wait wrappers and dispatch_pending_guest_exception.     *)

Runs(t) == ~suspended[t] /\ ~exited[t]

SetTop(t, f) == [frames EXCEPT ![t] = [@ EXCEPT ![Len(@)] = f]]

\* The word is read and the wait registered: a condition or an address wait.
Arm(t, kind) ==
    /\ Runs(t) /\ Top(t).at = "run"
    /\ frames' = SetTop(t, [Top(t) EXCEPT !.at = "pre", !.wait = kind])
    /\ UNCHANGED <<coop, forced, exited, rvars, ghosts>>

\* Where a frame goes on after its checkpoint: to sleep; or out of the wait, or,
\* for an address whose word is unchanged, back to sleep.
After(f) == IF f.at = "pre" THEN {"park"}
            ELSE {"run"} \union IF f.wait = "addr" THEN {"park"} ELSE {}

Past(f, at) == IF at = "run" THEN Frame(f.on, f.raise, "run")
                             ELSE [f EXCEPT !.at = at, !.step = "load"]

CheckCount(t) == LET f == Top(t) IN
    /\ Runs(t) /\ f.at \in {"pre", "post"} /\ f.step = "load"
    /\ \/ queued # 0 /\ frames' = SetTop(t, [f EXCEPT !.step = "claim"])
       \/ /\ queued = 0
          /\ \E at \in After(f) : frames' = SetTop(t, Past(f, at))
    /\ UNCHANGED <<coop, forced, exited, rvars, ghosts>>

ClaimRequest(t) == LET f == Top(t) IN
    /\ Runs(t) /\ f.step = "claim"
    /\ \/ /\ state[t] = "Queued"
          /\ state' = [state EXCEPT ![t] = "Running"]
          /\ frames' = SetTop(t, [f EXCEPT !.step = "sub"])
       \/ /\ state[t] # "Queued"
          /\ \E at \in After(f) : frames' = SetTop(t, Past(f, at))
          /\ UNCHANGED state
    /\ UNCHANGED <<type, queued, forced, exited, rvars, ghosts>>

\* Off the count and into the handler, on the cooperative stack.
EnterHandler(t) == LET f == Top(t) IN
    /\ Runs(t) /\ f.step = "sub"
    /\ queued' = (queued - 1) % Modulus
    /\ \E at \in After(f) :
          frames' = [frames EXCEPT ![t] =
                        Append(SetTop(t, Past(f, at))[t],
                               Frame("coop", type[t], "run"))]
    /\ ran' = [ran EXCEPT ![type[t]] = @ + 1]
    /\ UNCHANGED <<state, type, forced, exited, rvars, told>>

\* WaitOnAddress compares the word once more; the guest may wake it at any time.
Park(t) == LET f == Top(t) IN
    /\ Runs(t) /\ f.at = "park"
    /\ frames' = SetTop(t, [f EXCEPT !.at = IF f.moved THEN "post" ELSE "parked",
                                 !.moved = FALSE])
    /\ UNCHANGED <<coop, forced, exited, rvars, ghosts>>

GuestWakes(t) ==
    /\ Runs(t) /\ Top(t).at = "parked"
    /\ frames' = SetTop(t, [Top(t) EXCEPT !.at = "post"])
    /\ UNCHANGED <<coop, forced, exited, rvars, ghosts>>

\* prosper_win_exc_delivery: a redirected thread gets there when the system call
\* it was in has returned.
EnterForced(t) == LET n == Len(frames[t]) IN
    /\ Runs(t) /\ Top(t).at = "enter"
    /\ frames[t][n - 1].at # "parked"
    /\ frames' = SetTop(t, [Top(t) EXCEPT !.at = "run"])
    /\ ran' = [ran EXCEPT ![Top(t).raise] = @ + 1]
    /\ UNCHANGED <<coop, forced, exited, rvars, told>>

\* The cooperative slot is Idle again; a forced handler restores the context and
\* leaves its stack marked in use.
HandlerReturns(t) == LET n == Len(frames[t]) IN
    /\ Runs(t) /\ n > 1 /\ Top(t).at = "run"
    /\ frames' = [frames EXCEPT ![t] = SubSeq(@, 1, n - 1)]
    /\ state' = IF Top(t).on = "coop" THEN [state EXCEPT ![t] = "Idle"] ELSE state
    /\ UNCHANGED <<type, queued, forced, exited, rvars, ghosts>>

Exit(t) ==
    /\ Runs(t) /\ Len(frames[t]) = 1 /\ Top(t).at = "run"
    /\ exited' = [exited EXCEPT ![t] = TRUE]
    /\ UNCHANGED <<coop, forced, frames, rvars, ghosts>>

-------------------------------------------------------------------------------
RaiserStep(r) ==
    \/ Publish(r) \/ Queue(r) \/ Add(r) \/ Interrupt(r) \/ Poll(r)
    \/ Withdraw(r) \/ Subtract(r) \/ Lock(r) \/ Probe(r) \/ Suspend(r)
    \/ SuspendFails(r) \/ Redirect(r) \/ Wake(r) \/ Resume(r)

\* What a target does by itself, without the guest's help.
Checkpoint(t) ==
    CheckCount(t) \/ ClaimRequest(t) \/ EnterHandler(t) \/ Park(t) \/ EnterForced(t)

Next ==
    \/ \E r \in Raisers : RaiserStep(r) \/ \E t \in Targets : Raise(r, t)
    \/ \E t \in Targets :
          \/ Checkpoint(t)
          \/ \E kind \in {"cond", "addr"} : Arm(t, kind)
          \/ GuestWakes(t) \/ HandlerReturns(t) \/ Exit(t)

Spec == Init /\ [][Next]_vars

\* A thread that can run does; the guest's own code promises nothing.
Fairness == /\ \A r \in Raisers : WF_vars(RaiserStep(r))
            /\ \A t \in Targets : WF_vars(Checkpoint(t))

FairSpec == Spec /\ Fairness

-------------------------------------------------------------------------------
\* The raise n is on its way to its handler: claimed, or the target redirected.
OnItsWay(n) ==
    \E t \in Targets : \E k \in DOMAIN frames[t] : LET f == frames[t][k] IN
        \/ f.step = "sub" /\ type[t] = n
        \/ f.at = "enter" /\ f.raise = n

\* "A request that remains unclaimed cannot be reported as delivered": who is told
\* 0 has its handler run, who is told an error does not, and never twice.
ReportIsTrue ==
    TypeOK /\ \A n \in Raises :
        /\ ran[n] <= 1
        /\ told[n] = "ok" => ran[n] = 1 \/ OnItsWay(n)
        /\ told[n] = "refused" => ran[n] = 0 /\ ~OnItsWay(n)

\* A delivery is never put on an exception stack its target still has frames on.
ExcStackExclusive ==
    \A t \in Targets :
        Cardinality({k \in DOMAIN frames[t] : frames[t][k].on = "exc"}) <= 1

\* "exactly one side decrements the global queued count": when nobody is between
\* a change of state and its count, the count is the requests that are queued.
CountMatches ==
    /\ \A r \in Raisers : rpc[r] \notin {"add", "sub"}
    /\ \A t \in Targets : \A k \in DOMAIN frames[t] : frames[t][k].step # "sub"
    => queued = Cardinality({t \in Targets : state[t] = "Queued"})

\* No target stays suspended after the raise that suspended it.
SuspendedByItsRaiser ==
    \A t \in Targets : suspended[t] =>
        \E r \in Raisers : mutex[t] = r /\ target[r] = t /\ rpc[r] # "idle"

\* A forced delivery has its target to itself: the stack it writes on, and the
\* suspension it must end.
ForcedIsExclusive == ExcStackExclusive /\ SuspendedByItsRaiser

\* A raise returns whatever its target does, and an accepted one is handled even
\* if the target was going to sleep as it was made.
RaiseReturns == \A r \in Raisers : rpc[r] # "idle" ~> rpc[r] = "idle"

AcceptedIsHandled == \A n \in Raises : told[n] = "ok" ~> ran[n] = 1

-------------------------------------------------------------------------------
(* The inductive invariant, for any number of raisers.                     *)

\* A frame that a claimed request keeps the cooperative slot for.
Busy(f) == f.on = "coop" \/ f.step = "sub"

\* The guest's code is below, a redirected frame is on top, and only a frame at a
\* checkpoint is in one.
FrameShape ==
    \A t \in Targets :
        /\ Len(frames[t]) > 0
        /\ \A k \in DOMAIN frames[t] : LET f == frames[t][k] IN
             /\ f.on = "guest" <=> k = 1
             /\ f.step # "load" => f.at \in {"pre", "post"}
             /\ f.at = "enter" => f.on = "exc" /\ k = Len(frames[t])

\* The slot runs exactly while one frame has its request.
SlotExact ==
    \A t \in Targets :
        /\ state[t] = "Running" <=> \E k \in DOMAIN frames[t] : Busy(frames[t][k])
        /\ \A k \in DOMAIN frames[t] : Busy(frames[t][k]) =>
             /\ ~(frames[t][k].on = "coop" /\ frames[t][k].step = "sub")
             /\ \A j \in DOMAIN frames[t] : Busy(frames[t][j]) => j = k

\* A call has its target and its number, and a slot it publishes to itself.
CallShape ==
    \A r \in Raisers :
        /\ rpc[r] # "idle" => target[r] \in Targets /\ raise[r] \in 1 .. raised
        /\ rpc[r] = "queue" =>
             /\ state[target[r]] = "Publishing"
             /\ \A s \in Raisers : rpc[s] = "queue" /\ target[s] = target[r] => s = r

\* The exception stack's mutex is held from its probe to the end of the call; the
\* target is suspended only under it, and its stack is then in use.
Suspending == {"redirect", "wake", "resume", "refuse"}
Delivering == {"probe", "suspend"} \union Suspending
StackLocked ==
    \A t \in Targets :
        /\ \A r \in Raisers : mutex[t] = r <=> target[r] = t /\ rpc[r] \in Delivering
        /\ suspended[t] => \E r \in Raisers : mutex[t] = r /\ rpc[r] \in Suspending
        /\ mutex[t] # NoOne => active[t]

\* A frame is put only on a stack without one on top, at first on an unused one.
NoExc(t) == \A k \in DOMAIN frames[t] : frames[t][k].on # "exc"
TopClear ==
    /\ \A t \in Targets : ~active[t] => NoExc(t)
    /\ \A r \in Raisers :
         /\ rpc[r] = "suspend" => NoExc(target[r])
         /\ rpc[r] = "redirect" => suspended[target[r]] /\ Top(target[r]).on # "exc"

\* The count is what is queued or claimed, but for those on the way to it.
Congruent(a, b) == \E z \in Int : a = b + z * Modulus
Counted == {t \in Targets : state[t] = "Queued"
                            \/ \E k \in DOMAIN frames[t] : frames[t][k].step = "sub"}
At(label) == {r \in Raisers : rpc[r] = label}
Due == Cardinality(Counted) + Cardinality(At("sub")) - Cardinality(At("add"))
CountExact == Congruent(queued, Due)

IInv == TypeOK /\ FrameShape /\ SlotExact /\ CallShape /\ StackLocked /\ TopClear
        /\ CountExact

(* For one raiser at a time.                                               *)

OneRaiser == \A r, s \in Raisers : r = s

\* A slot is taken for as long as the raiser has not withdrawn, and then Idle.
SlotsOwner ==
    /\ \A t \in Targets :
         /\ state[t] = "Publishing" => \E r \in Raisers : rpc[r] = "queue" /\ target[r] = t
         /\ state[t] = "Queued" => \E r \in Raisers :
              rpc[r] \in {"add", "interrupt", "poll", "withdraw"} /\ target[r] = t
    /\ \A r \in Raisers :
         rpc[r] \in {"sub", "lock"} \union Delivering => state[target[r]] = "Idle"

\* One frame is on an exception stack, and none when another is put there.
OneExc ==
    /\ \A t \in Targets : \A j, k \in DOMAIN frames[t] :
         frames[t][j].on = "exc" /\ frames[t][k].on = "exc" => j = k
    /\ \A r \in Raisers : rpc[r] = "redirect" => NoExc(target[r])

\* The numbers of the raises a target has traces of: no two targets share one.
Traces(t) == ({type[t]} \union {frames[t][k].raise : k \in DOMAIN frames[t]}) \ {0}
TracesApart ==
    /\ \A t \in Targets : Traces(t) \subseteq 1 .. raised
    /\ \A t, u \in Targets : t # u => Traces(t) \cap Traces(u) = {}
    /\ \A r \in Raisers :
         /\ rpc[r] \in {"publish", "queue"} => \A t \in Targets : raise[r] \notin Traces(t)
         /\ rpc[r] \notin {"idle", "publish", "queue"} => type[target[r]] = raise[r]
    /\ \A t \in Targets : state[t] \in {"Queued", "Running"} =>
         /\ type[t] # 0
         /\ \A k \in DOMAIN frames[t] :
              frames[t][k].on = "exc" => frames[t][k].raise # type[t]

\* A raise is waiting for its handler, or told and handled, once.
Pending(r) == \/ rpc[r] \in {"publish", "queue", "sub", "lock", "probe", "suspend",
                             "redirect", "refuse"}
              \/ rpc[r] # "idle" /\ state[target[r]] = "Queued"
HandledOnce ==
    /\ \A n \in Raises :
         /\ ran[n] <= 1
         /\ OnItsWay(n) => ran[n] = 0
         /\ told[n] = "ok" => ran[n] = 1 \/ OnItsWay(n)
         /\ told[n] = "refused" => ran[n] = 0 /\ ~OnItsWay(n)
         /\ n > raised => told[n] = "none" /\ ran[n] = 0
    /\ \A r \in Raisers : rpc[r] # "idle" =>
         /\ told[raise[r]] = "none"
         /\ IF Pending(r) THEN ran[raise[r]] = 0 /\ ~OnItsWay(raise[r])
                          ELSE ran[raise[r]] = 1 \/ OnItsWay(raise[r])

IInvOne == IInv /\ SlotsOwner /\ OneExc /\ TracesApart /\ HandledOnce

===============================================================================
