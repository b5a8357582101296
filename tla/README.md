# Specifications of prosper

prosper runs PS5 programs on a PC: it loads their modules, answers their system
calls and libraries in a high-level emulation (HLE), and executes their GPU
command streams on Vulkan. Guest threads are host threads; guest mutexes, locks,
event flags and exceptions are built from host primitives and hand-made atomic
protocols. This directory models nine of those protocols in TLA+, checks them with
TLC and proves the safety of each with TLAPS.

Paths below are relative to `src/prosper/src`. `hle/kernel/hle_kernel.cpp` is
abbreviated *K*, `hle/sync/sync_futex.cpp` *F*,
`host/platform/gpu_submit_gate.cpp` *G*, `hle/kernel/hle_kernel_time.cpp` *T*,
`gpu/pm4/command_processor.cpp` *CP*, `hle/sync/hle_fiber.cpp` *FIB*.

## The system

| part | state | operations | hard behaviour | what makes it correct |
|---|---|---|---|---|
| **GPU submission gate** (G) | one word (shutdown bit, count), waiter count, mutex, condvar | enter, leave, begin_shutdown, drain, reset | submitters race the closing and the drain; hung driver calls | nothing admitted after closing; exact count; no lost wake-up; a bounded drain returns |
| **guest rwlock** (K 630-660, 1400-1612, 3029-3116) | host rwlock, word (write bit, count), owner | rd/wr/try/timed lock, unlock | unlocks of a lock not held, holds that move between threads | the host count never underflows; no write hold is stolen |
| **condvar slot table** (F 139-201, 551-596, Windows) | 4096 slots (owner, sequence) | lookup-or-claim, signal, forget | lock-free first use racing first use and destruction | one slot per condvar, for its life |
| **guest exceptions** (K 3842-4401, 4735-4776, Windows) | slot per target, queued count, exception stacks | raise, queue, withdraw, claim, redirect, resume | raiser races target and other raisers; suspension; nested handlers; waits about to sleep | what the caller is told is true; stacks are not overwritten; an accepted raise is handled |
| **event flags** (K 2851-2920, 3409-3462) and **semaphores** (K 3464-3595) | bits or count, deleted, waiters, mutex, condvar | create, delete, set or signal, clear, wait, poll | delete against waiters; timeouts; interrupts | freed once, unused; what is taken is reported; no waiter sleeps on |
| **pthread condvars** (K 397-477, 610-626, 1085-1343, `sync/sync_retire.cpp`) | slot per guest condvar, entry per host object (waiters, generation), quarantine | manufacture, init, wait, signal, broadcast, destroy | first use racing first use; destroy racing wait; waits cut into slices | exact busy count; an object retired once and never under its waiters |
| **fibers** (FIB) | record and saved context per fiber, record per thread | initialize, run, switch, return, finalize | a fiber resumed on another thread | one thread per stack; no erased record in use |
| **event queues** (T 1061-1958) | handle table, queue of events, registrations, timers | create, add, post, wait, delete | posts racing delete and address reuse; overflow | no counted event lost; the right queue |
| **GPU completion writes** (CP 2965-3341, T 1369-1494) | queue of writes, submits in progress, pending events | submit, enqueue, drain, post | four drainers and a fold at once | writes in order, private until return, before their event |
| wait registry and futex (F) | 1024 seqlock slots, g_waiters | register, unregister, snapshot, wake | snapshot of a slot being republished; store/load reordering | no torn snapshot; no skipped wake |
| mutexes, barriers, once, threads (K, `sync/pthread_slot.hpp`) | slot per guest object, registries | manufacture, destroy, run once | first use racing first use | no use of reclaimed storage |
| ULT (`sync/hle_ult.cpp`) | runtimes, workers, queues | create, run, wait | a scheduler on host threads | - |
| memory (`memory/hle_kernel_mem.cpp`), write watch (`host/memory`) | mappings; protection bits | map, unmap, protect; arm, fault, disarm | fault racing arm | no lost write |
| loader, host image, file system, graphics HLE, audio, input, network, GPU decode/execute/recompile | - | - | formats, I/O and machine state rather than protocols | - |
| frontends, tools | - | shutdown and capture sequences | callers of the gate | - |

How they interact: every guest wait goes through F (`interruptible_cond_wait`,
`interruptible_mutex_lock`, `futex_wait_enter`), which on Windows finds the condvar's
word in the slot table, registers the wait so that a raise can interrupt it, and calls
`dispatch_pending_guest_exception` before and after it sleeps. Event flags, semaphores
and condvars are all callers of those wrappers; the exception protocol depends on each of
them coming to its checkpoints. A GPU submit folds its packets, queues its label writes,
and asks the EOP worker for an event; that worker drains the writes and posts to the
event queues registered for it, so `CompletionWrites` ends where `EventQueue`'s
end-of-pipe source begins. Fibers move guest code between host threads under all of
these, which is why the rwlock lets a hold be released by another thread than took it.
The gate is independent: every `vkQueueSubmit` a guest thread causes is bracketed by a
`GpuSubmitRegion`, and the frontend's shutdown (`frontends/prosper-app/main.cpp:3206`)
closes and drains it before it destroys the device.

`PROJECT.json` lists every part (`components`) and every hazard with the line
where it bites and the properties about it (`hazards`).

## Modules

| module | models | notes |
|---|---|---|
| `SubmitGate` | what the gate promises (header of `gpu_submit_gate.hpp`) | abstract: open, live, sealed |
| `GpuSubmitGate` | G, one step per atomic access, lock, sleep and wake | refines `SubmitGate` |
| `GpuSubmitGateProofs` | theorems of the gate | |
| `UmtxRwlock` | what the platform's rwlock promises its callers | abstract: writer, readers |
| `GuestRwlock` | the rwlock handlers of K, one step per atomic access | refines `UmtxRwlock` |
| `GuestRwlockProofs` | theorems of the rwlock | |
| `CondSlots` | `cond_slot_for`, `interruptible_cond_forget`, the use of a slot, `interrupt_guest_wait` on it | its theorems are in `PthreadCondProofs` |
| `GuestException` | `win_raise_exception` and everything it calls, the target's checkpoints | |
| `GuestExceptionProofs` | theorems of the exceptions | for any number of raisers, and for one |
| `KernelObjects` | `k_ef_*`, `k_sema_*` and the waits under them | one object, of either kind |
| `KernelObjectsProofs` | theorems of the flags and semaphores | |
| `PthreadCond` | the condvar's slot, entry and calls of K, the quarantine | |
| `PthreadCondProofs` | theorems of the condvars, and of the slot table | extends both, so no name of `CondSlots` is one of `PthreadCond` |
| `Fibers` | FIB | |
| `FibersProofs` | theorems of the fibers | |
| `CompletionWrites` | the pending writes of CP, the submit scope, the EOP worker of T | |
| `CompletionWritesProofs` | theorems of the completion writes | |
| `EventQueue` | the event queues of T and who posts to them | |
| `EventQueueProofs` | theorems of the event queues | |
| `MC...` | instances for TLC | a `.cfg` per run |

### GpuSubmitGate

A *region* is a `GpuSubmitRegion` object, a *frontend* a thread that closes the
gate; `pc` is where each is in its call. `g_state` is a record of the two halves
of the word, read and exchanged as one. `seen[r]` is the expected word of a
compare-exchange; a failure reloads it. A drain announces itself, locks, tests
(`DrainCheck`), sleeps (`DrainSleep` gives up the mutex and sleeps in one step,
which is what a condition variable guarantees), and may be woken by a
notification, spuriously, or by its deadline. `closed` and `sealed` are history
variables: "the gate was closed when this drain was called" and "such a drain
returned true". The code's accesses that matter are `seq_cst`, so an
interleaving semantics is faithful. The count is a natural number: 2^63 regions
cannot exist.

`Reset` has the precondition of its header ("Not for use while regions are
live"). Without it a live region would leave a count of zero, which `LeaveCas`
refuses to underflow, as the code does.

### GuestRwlock

`rw` stands for glibc's rwlock (external): granted while it is free, and on
unlock a reader is subtracted *whether or not there is one*, unless the caller is
the recorded writer. That is the behaviour the code defends against, and why
`rw.readers` is an integer. `state` and `owner` are prosper's word. Every lock
entry point is `HostRdlock` or `HostWrlock` followed by `rw_acquired`; the try
and timed forms may instead fail (`LockRefused`). `rw_release` decides on the
word it loaded (`Decide`) and commits with one exchange; a failed exchange
decides again. `holds`, `granted` and `stray` are ghosts: what the guest was told.
`Migrate` moves a read hold to the thread that resumes the guest's fiber. `Tokens` gives
each thread one token per hold, so that `granted` is the number of tokens.
`PublishWrite` has no failing exchange: `ExpectedExact` shows the word cannot
change between its load and its exchange.

### CondSlots

A scan reads or exchanges one slot per step. `Free` is 0, `SlotRetiring` the
`UINTPTR_MAX` sentinel. A thread `using` a slot is asleep on it or about to move it. The
guest destroys a condvar only when no call is using it. `interrupt_guest_wait` (called at
K 4026, with the target running) reads in the target's wait registration which word it
sleeps on (`NoteWait`) and moves that word later (`InterruptWait`), whoever has the slot
by then: so a free slot's generation need not be zero, although a retirement resets it
first (F 589-590). `noted` holds what such raises may still move. `program` is the set of
condvars the run uses, chosen once. `MaxLookups` limits how many threads are at once
inside a lookup of the same condvar: with two the run's properties hold, with three some
do not (see below).

### GuestException

A target is a stack of frames: guest code and above it the handlers it is in,
each with the stack it runs on and where it is in a wait. A condition wait sleeps
on a word that a raise moves; an address wait on one that a raise only wakes,
and may go back to sleep. `CheckCount`, `ClaimRequest`, `EnterHandler` are the
steps of `dispatch_pending_guest_exception`. A raiser goes through
`try_queue_wait_exception` (`Publish` ... `Withdraw`) and, withdrawn, through the
forced delivery (`Lock` ... `Resume`). Raises are numbered; `told` and `ran` are
ghosts per raise. A thread that exits makes `SuspendThread` fail. The poll loop's
milliseconds are counted, not timed.

`interrupt_guest_wait` moves the word of a condition wait (`fetch_add`, F 653-658),
which the comment at F 421-422 ("wakes this address without changing its value")
denies; the model follows the code.

### KernelObjects

One flag or semaphore, created again after each deletion; `use` says which, chosen
once. The two have the same handlers but for `Satisfied` (bits, or `count >= need`)
and `Consume` (a flag's clear mode, or `count -= need`); the code spells them out
twice (K 3409-3462, 3498-3531). A condition wait tests, gives up the mutex and sleeps
in one step, as the slot's sequence is read under the mutex; a deadline or an
interrupt may end it. `waiters` is counted under the mutex at both ends. The guest
calls nothing on an object after its delete. `TakenAsReported` says that bits and counts
disappear only into a call that reports them. With `RacyDelete` a wait called before
may still be trying for the mutex.

### PthreadCond

`slot` is the guest's word: the static initialiser, a host object, or the destroyed
sentinel. `entry` is `g_guest_cond_states`, one critical section per step. A wait is
`Load` (`Make`, `Cas`) `Enter` `Park` `Relock` `Leave`. A timed wait reads its condvar's
clock (`ReadClock`): on realtime, the default, it is one wait of the host's; on another
it is cut into slices (`WaitEnds`, `Check`), with the generation read at its start
(`Snapshot`). `WaitEnds` is also a wake-up by nobody's signal, such as a raise's. Destroy
is `Peek` `Look` `Claim` `Forget` `Retire`. A freed loser's address may be allocated
again; a retired object's is not, as no call is assumed to outlast the 30 s quarantine.
Initialising again is what the guest does after its destroy, by one thread at a time.
`through` and `owed` are history.

### Fibers

Only the map of the records has a mutex. A call looks at a fiber's state in one step
(`Initialize`, `Finalize`, `Run`, `Switch`), marks it, or replaces or erases its record,
in the next (`InitializeEnd`, `FinalizeEnd`, `RunTakes`, `SwitchTakes`), and jumps in a
third (`Enter`, `Leave`); anything may come between. `goal` is the fiber a call is about.
A saved context is three things: whose stack it is on,
and the two locals of the call that saved it, the fiber and the *thread record*, which
the code goes on using after the jump (FIB 411-412, 445). `on` is the stack a thread
really is on. `below` is the stack an entry was called on: its plain return goes there
(FIB 437-443), and from there to the thread's own.

The guest's part of the contract, of which the code checks nothing:

- `Serial`: while one call is between its look at a fiber and its mark or jump, or has
  just left the fiber's stack, no other call is about that fiber; nobody runs or initializes a
  running fiber. Without it two threads take one idle fiber (`MCFibersRace.cfg`).
- `Handover`: a yielded fiber moves only when the thread it left is out of its run, and
  that thread runs nothing until the fiber has resumed. Without it `fiber_migration`.
- An entry returns only if its fiber never yielded, and, when a switch called it, only
  while the fiber that switched is still suspended in that call (FIB 382-383 has the
  return as a malformed title's).

With the first two the properties still say something of the code: they depend on its
marks, on the refusals of FIB 343 and 424, and on what the resumed calls write, as the
mutants show; `Serial` keeps calls from overlapping, and not one from being wrong.

### CompletionWrites

A submit is `Begin` (the scope), `Lock` (`g_agc_state_mu`), any number of packets, the end
of its fold, `Pulse` and `Return`. `Packet` is a label (RELEASE_MEM, EVENT_WRITE) or a
resource (WRITE_DATA, an immediate DMA): it is queued. After the submit's first copy from
an address (`Copy`, which drains for the renderer first) it is retained instead (CP
4672-4693, 4752-4755), until a packet that reads what a copy writes has the copies applied
at once (`DropCopies`, CP 4160-4182). `Execute` and `LandRetained` are the execution of
the submit, in stream order and within the call (CP 3662-3664); `Decline` is a submit
that a dependency has rejected. Everything between two releases of the queue's mutex is
one step, since each condition waited for is notified under it. `Continue` is the body of
`pend_drain_locked` between two releases: it looks at `inflight` again, at
`active_submits` never. `latent` says that `release_after` is not reached. A write is
an interval of words, the submit it is of, and its number in the order the fold met it:
the queue, a batch taken from it, and what is retained, are sets of writes, and `Front` is
the one with the lowest number. `Overlay` is what a wait reads of the queue: the writes
that begin where its label does, a word at a time, and of those only the kinds and values
CP 3313-3337 knows (`plain`). `crossed` is a history: the addresses for which one write
was queued while another was retained. `visible` chooses the mode (SDK 13 and later, or
the older), fixed for a run. `LabelsApart` is a guest contract: a resource that covers a
label's word covers no other.

### EventQueue

The life of one address: queue after queue may be created there (`ident`). A post
finds the queue (`Find`, under `g_eq_mx`) and appends under the queue's mutex
(`Post`), so a delete may come between. Flip, vblank (whose coalescing it shares) and
EOP posts work from a copy of the registrations and carry no identity; APR posts
carry one. The calls that add a flip or EOP source, arm a timer or trigger a user event
do not look their handle up (T 1318-1351, 1920-1928), so it may be that of a queue
already deleted: `Register`, `Arm` and `Trigger` need only that the address once had a
queue. `meant` and `late` are ghosts: which queue an event was for, and whether that was
deleted before its source was added or with its post under way. `kept` counts what was
queued, and among the timers' expirations those that went with an event an overflow shed
(T 1145-1151). `Cap` is 64 in the code. `mix` is the sources a
run has, to bound their product. `Level` and `Of` are the places in the queue of its
coalescible events and of one source's, `Expired` the timer expirations it carries. The
threads that post are distinct (`QueueAssumption`): each source has one thread, so posts
of one source are made one after the other, except for counters and timers, of which
there may be several.

## Runs

| run | instance | shows |
|---|---|---|
| `gate` | 2 regions (1 hung), 2 frontends, 1 drainer | all properties of the gate, safety and liveness, and that it implements `SubmitGate` |
| `rwlock` | 3 threads, 2 holds each, 2 stray unlocks, symmetry | all of the rwlock's properties, and that it implements `UmtxRwlock` |
| `cond_slots` | 3 threads, 2 condvars created and destroyed, 3 slots; a program with 1 or 2 condvars; 2 at once in a lookup of one; words of 2 values; symmetry | slots outlive their use, whatever late raises move, a condvar alone has one slot and leaks none, a lookup fails only on a full table |
| `cond_slots_first_use` | the same, 3 at once, nothing destroyed | **violated**: two users of a condvar on two slots |
| `exception` | 1 raiser, 2 targets, 2 raises | reports are true, stacks exclusive, counts match, raises return and are handled |
| `exception_two_raisers` | 2 raisers, 1 target, 3 raises | **violated**: one raiser withdraws the other's request |
| `kernel_objects` | a flag of 1 bit and a semaphore of count 2 with 3 threads, a flag of 2 bits and 3 modes with 2 | deletion, wake-ups, timeouts, what is taken, with liveness |
| `completion` | 2 submitters (the first submit is taken to be `s1`'s, the two being interchangeable: `MCFirstIsS1`), 2 submits, 2 writes of 1 or 2 words over 3, 1 copy, `LabelsApart`, both modes | order, privacy, events after writes, everything delivered |
| `equeue` | 2 lifetimes, 2 waiters, 4 mixes of sources, 3 posts, room for 1 coalescible event | counted events and tags, the right queue, cancelled timers, deletes release waiters |
| `pthread_cond` | 3 threads, 2 objects, 2 generations, symmetry | busy count, single retirement, waiters keep their object, broadcasts between slices, both kinds of clock |
| `fibers` | 3 threads, 3 fibers, `Serial` and `Handover`, symmetry | one thread per stack, right self, no fiber stuck in Run, no record in use erased or replaced |
| `fiber_migration` | the same with `Serial` alone | **violated**: a thread takes itself for a fiber it does not run |

Bounds. `gate` has none on behaviours: its state space is finite (88,908 states). The
invariants are conjunctions checked as one (`Safe`). Two regions make a lost race and a
last leaver; two frontends make a gate reopened under a sleeping drain. `MaxHolds`,
`MaxStray`: the interleaving K describes at 1437-1449 needs two balanced writers and one
stray unlock; two strays also meet each other. `NSlots`, `MaxAttempts`, `Generations`: a
condvar needs a higher and a lower slot and another condvar's between them, a loser one
retry, a sequence (2^32 values in the code, which wrap) one value besides zero.
`MaxRaises`: two raises meet at one target (EBUSY, a used exception stack), three make
the two violations. `MaxSpins = 1` is the loop with and without another look. `Modulus`
need only exceed the number of targets for a wrapped count to be told from a real one.
`MaxCount = 2` lets a semaphore serve one need of two or two of one. Two submits, two
writes and a copy give a label and a resource, or two resources one of which is wide, in
either order, of the same submit or not, each queued or retained, with a rejected call
and a second submit during every drain. `Cap = 1` is the full queue; two lifetimes are
the reuse of an address; three posts (an arming counts as one) fill, merge and shed, and
a timer meets another coalescible source. `MaxGen = 2` is a signal in each of two slices.
Three fibers on three threads: one that moved, the one it left, and a bystander. Symmetry
is used in runs without liveness properties only. `CHECK_DEADLOCK FALSE` where the system
may stop for good within a bound: every target has exited or sleeps, the submits, posts
or objects are used up and the guest's waiters sleep; the other runs check deadlock.

Each property is shown to depend on the code by a mutant: a faulty variant of one
action (marked `Faulty:` in the modules) that breaks it.

### Fairness

Weak fairness of the steps a running thread takes by itself; none of the guest's
or the frontend's calls. In `GpuSubmitGate` a region leaves unless it is in
`Hung` (a `vkQueueSubmit` that never returns), a `wait_for` reaches its deadline,
and no wake-up is assumed but those sent; a drain is not owed the mutex ahead of
others, which are all short. In `GuestException` the target's own checkpoint steps
and the raiser's are fair, the guest's wake-ups and the handlers' ends are not. In
`CompletionWrites` a submit in progress comes to its return and the modelled latency
elapses; no submit need ever be made, and the two workers are fair each as a thread. In
`EventQueue` the posting threads, the waiters that have something to return for and a
delete under way are fair; triggers, timers and deadlines are not. In
`KernelObjects` the mutex is strongly fair (each caller tries again every 0.5-2 ms, F
627-635, and holders keep it for a few instructions) and so is a passed deadline
(each further sleep of that wait returns at once).

## What the violated runs say

1. `cond_slots_first_use` (F 181). Searching and claiming are two scans, and what the
   first scan finds is not compared with lower slots. Threads 1 and 2 both found nothing;
   2 has claimed slot 2, 1 claims slot 1; thread 3, whose scan had passed slot 1, takes
   slot 2. Thread 1 keeps slot 1, and thread 2, the loser, frees slot 2 under thread 3.
   Thread 3 is then not reached by thread 1's signals, and the slot may go to another
   condvar.
2. `exception_two_raisers` (K 4042). The withdrawal's exchange expects `Queued`, but
   cannot tell whose. It needs the target to accept and finish one raise and a
   second raiser to queue another between two looks of the first, 1 ms apart.
3. `fiber_migration` (FIB 445). `fiber_switch_impl` and `fiber_return_to_thread` keep
   the thread's record in a local across the jump. Fiber 1 switches to fiber 2 on
   thread 1; thread 2 runs fiber 1, which returns into the call it yielded in and sets
   *thread 1's* current fiber to fiber 1, while thread 1 runs fiber 2. The next yield of
   fiber 2 saves its context in fiber 1's record. Nothing goes wrong when the thread that
   was left is idle, as after a plain return to thread: hence `Handover`.

The first two concern Windows builds.

### Further counterexamples

Configurations beside the runs' own, each for one property that fails. They mark where
a passing run's assumption is needed.

| configuration | property | what happens |
|---|---|---|
| `MCCondSlotsChurn.cfg` | `OneSlotPerCond` | two threads suffice if *another* condvar's destruction frees a lower slot between one's scan and its claim |
| `MCCondSlotsInterrupt.cfg` | `FreeSlotsAreReset` | a raise moves the word of a slot that its target has left and a retirement has reset (F 653-658): the slot is free with a generation other than zero |
| `MCGuestExceptionNested.cfg` | `ExcStackExclusive` | K 4324 asks whether RSP is on the exception stack now; a cooperative handler on top of a forced one is elsewhere, and the next forced delivery starts on live frames (contrast K 4330-4332) |
| `MCKernelObjectsRacy.cfg` | `FreedOnceUnused` | K 2914 counts only waits that have had the mutex; one still trying for it goes on with a freed object (contrast K 2853-2856) |
| `MCFibersRace.cfg` | `StackExclusive` | FIB 352-356 looks and 368 marks with no lock between, and a running fiber is not refused: two runs of one fiber, and both threads are on its stack |
| `MCPthreadCondSentinel.cfg` | `NoSentinelUsed` | the loser of `ensure_cond`'s exchange returns what the slot holds (K 625), which may by then be the destroyed sentinel, unchecked |
| `MCPthreadCondRealtime.cfg` | `NoBroadcastLost` | a wait on the realtime clock (K 1094-1097) times out, a broadcast is made under the mutex, and the wait takes the mutex back and reports ETIMEDOUT (F 437-464); POSIX allows it |
| `MCEventQueueApr.cfg` | `KnoteNeverRegresses` | T 1836-1841 reads the high-water mark and posts in two steps; of two threads the one with the older value may post last (contrast T 1719-1722) |
| `MCCompletionWritesPrivate.cfg` | `QueuePrivate` | a drain that waited for another's write does not look at `active_submits` again (CP 3036-3042); a submit that began meanwhile (CP 3118-3126) has its fence published before it returns (contrast CP 3009) |
| `MCCompletionWritesOrdered.cfg` | `PrivateUntilReturn` | a label behind a copy is retained (CP 4672-4674) and published by the execution of its submit (CP 3663), in the call |
| `MCCompletionWritesOrder.cfg` | `AlwaysInOrder` | the renderer's drain at a copy leaves labels queued, and what is retained after it lands before them (CP 4744-4746 says that the prefix is landed); so does what is queued after copies applied early, before what they had retained |
| `MCCompletionWritesWide.cfg` | `LandInOrder` | without `LabelsApart`: a narrow resource passes an older, wide one that a queued label blocks (CP 3264), although CP 3019 says "writes land STRICTLY IN QUEUE ORDER" |
| `MCCompletionWritesOverlay.cfg` | `FoldSeesAll` | a wait passes over a queued EVENT_WRITE (CP 3313-3337) |
| `MCCompletionWritesDropped.cfg` | `NothingDropped` | a submit whose copies were applied early and that has no other work is not executed (`hle_agc.cpp:1971`); what it had retained is lost, and its event is posted |

`PrivateUnlessRaced` and `FoldSeesNewest` are therefore stated for behaviours in which no
drain has found another's write in flight (`raced`), the first of the labels in the
queue, the second of the writes the overlay knows; `LandInOrder` leaves out the addresses
crossed and has `LabelsApart`. Two smaller remarks: `RightQueue` allows the one post
under way at a delete, and all posts of a source added, armed or triggered by a dead
queue's handle, to reach the next queue at the same address, and `CancelledFiresOnce` the
one a timer thread had decided on, although T 1518-1520 and 1090-1093 read as if neither
could be; a wait that comes to the condvar after a broadcast has advanced the generation
but not yet woken is released by it or not, which POSIX leaves open.

## Theorems

Every development has one shape: an inductive invariant `IInv`, stated in the
component's module and first checked by TLC on the run's instance; lemmas that each
part of it is preserved, with a case per action; the properties (and, for the gate and
the rwlock, the refinement) as consequences. The theorems hold for every finite set of
threads and every bound. Beyond the named assumptions of the modules (`GateAssumption`
and the like: sets finite and disjoint, bounds natural numbers) five developments have
a hypothesis, each named below with the run or configuration that shows the need for it.
`Safety`, for the gate and the rwlock, is the conjunction the run checks.

*GpuSubmitGateProofs*, under `GateAssumption` (finite, disjoint sets). `IInv` adds
to the type: `CountExact` (the count is the cardinality of the regions inside),
`WaitersExact` (`g_waiters` is the drains that announced themselves), `MutexExact`
(who holds the mutex is where the program says), `LeaveIsPaired`, `SealInv` (what a
drain that found the gate empty knows until it returns) and `AboutToSleepInv` (if a
drain has tested and not yet slept, whoever emptied the gate is still before the
mutex), which is what makes the empty critical section of `notify_if_idle`
necessary. Proved: `TypeCorrect`, `CountIsExact`, `SealedStaysQuiet`,
`WakeupNeverLost`, `ClosedGateAdmitsNothing`, and `Refinement`: every step is a step
of `SubmitGate` or leaves it unchanged.

*GuestRwlockProofs*, under `RwAssumption`. `IInv` adds `HoldsAccounted` (the host
lock's readers are those counted, those arriving and those leaving), `WriterExact`
and `OwnerExact` (who has the host lock exclusively, and what it has published),
`ExpectedExact` (what an expected word implies about the current one) and
`GuestExact`. Proved: `TypeCorrect`, `HoldsAreAccounted`, `NeverUnderflows`,
`RestAgrees`, `WriteHoldIsOwned` and `Refinement`.
`BalancedIsServed` (no unlock by a thread that holds is refused before some unlock by
one that does not) needs more, `IInvBalanced`: while no stray unlock was made
(`stray = 0`), the holds of all threads add up to `granted` (`TokensExact`), and each
unlock under way, and the published writer, has a hold behind it (`Backed`). The sum over
the threads is the cardinality of a set with a token per hold; `TokenUp` and `TokenDown`
say that it moves by one with one thread's holds, which takes no induction.

*FibersProofs*, under `FibersAssumption`, `Serial` and `Handover`. `IInv` adds to the type:
`ContextIsOwn` (a saved context is a frame of the fiber it is filed under),
`ThreadShape` (where a thread is decides what its record and its fiber's state say),
`NoSharing` (what a thread is on, or takes for its fiber, is no other thread's),
`LookedIsFree` (what a call has looked at is still nobody's when it marks it),
`LeftIsQuiet` (the thread left by a fiber that is about to resume elsewhere runs
nothing, so the write through its record does no harm), `BelowIsLeft` (the stack that an
entry may return to is nobody's) and `NoneStuckInRun`. `Serial` is the guard of the looks;
that the marks find things as the looks did is proved (`LookStep`, `RecordStep`,
`RunTakesStep`, `SwitchTakesStep`). Without `LeftIsQuiet` the step `Enter` breaks
`ThreadShape`: it is the counterexample of `fiber_migration`. Proved: `SelfIsTrue`,
`StacksAreExclusive`, `RunHasAThread` and `RecordsOutliveUses`.

*PthreadCondProofs*. `IInv` is `CountExact` and `RetiredOnce` themselves with what makes
them inductive: `CallShape` (which calls come to which label, with what pointer),
`InitAlone` and `MadeIsPrivate` (an object not yet in the slot has its maker as only user,
and a fresh entry), `FreeIsUnused`, `CountBounded` (no entry counts a thread twice, also
after the slot has moved on), `ThroughExact` (who has waited since a destroy was called is
still in its wait, on an object that destroy looks at or cannot claim) and
`GenerationExact` (a timed wait's generation is never ahead of its object's, and behind it
if a broadcast has to end it). Proved, with no hypothesis: `BusyCountIsExact`,
`ObjectsRetireOnce`, `WaitersKeepIt` and `BroadcastReaches`, the last two as action
properties; `BroadcastReaches` excepts waits on the realtime clock, as its property does.

The slot table's theorems are in the second half of *PthreadCondProofs*, under
`SlotsAssumption` (finitely many threads and condvars, any number of slots and of
attempts, and of values of a word). `TableIInv` holds for any number of lookups at once
(`TableInductive`): `KeyExact` (a call is about a live condvar, a retirement about a
destroyed one that no other call is about), `ClaimHeld` (a claimed slot is its claimer's
alone, whose scan does not pass it), `RetiringHeld`, `LoserHasWinner` (who gives a slot
up leaves a lower one) and `AttemptLeft` (the retry counts right). The properties need at
most two threads at once in the lookup of one condvar (`MaxLookups <= 2`;
`cond_slots_first_use` shows what the third does). `TableIInvTwo` then adds:
`PassedByOther` (a slot of the condvar that a search has passed by is one the other
thread has just claimed, or is still to come to), `ReliedIsWon` (a claimer whose slot has
users has won: no lower slot lies ahead of its scan, and no other thread will claim one),
`LastFinds` (the last look has a slot ahead of it), `MarkedIsRetired` and `UsersKeepSlot`
itself. A third lookup breaks `PassedByOther`, and with it `ReliedIsWon` and
`SlotOutlivesUse`: it uses a slot whose claimer then loses. Proved: `SlotsOutliveUses`
and `OnlyFullTableFails` (no lookup fails after its last look, however the attempts
ended). `TableIInvAlone` adds `AloneInFirst`: a condvar that has the table to itself is
in slot 1, any other slot it has is a claim that is about to be given up; hence
`AloneHasOneSlot`.

*KernelObjectsProofs*, for `~RacyDelete`; `MCKernelObjectsRacy.cfg` shows that a wait
still trying for the mutex at the delete breaks it. `IInv` adds to the type:
`WaitersExact` (the count is the threads between their first and last step under the
mutex), `MutexExact`, `KindExact` (a flag's calls count nothing, a semaphore's have no
pattern), `DeleteExact` (one thread deletes, with no call on its way in), `LastDestroys`
(who destroys finds everyone else gone) and `NoLostWakeup`, which is inductive beside them.
Proved: `FreedByTheLast`, `WakeupsReach` and `NothingTakenUnreported`.

*GuestExceptionProofs*. `IInv`, for any number of raisers at a time, adds to the type:
`FrameShape`, `SlotExact` (a slot is Running exactly while one frame has its request),
`CallShape`, `StackLocked` (a target is suspended only under its exception-stack mutex),
`TopClear` and `CountExact` (the count is the requests queued or claimed, less those not
yet added and with those not yet subtracted, modulo its wrap). Proved from it:
`CountIsWhatIsQueued` and `SuspendedIsResumed`. The other two properties do not hold with
two raisers, as `exception_two_raisers` shows, and are proved under `OneRaiser` from
`IInvOne`: `SlotsOwner` (a slot not Idle is the raiser's until it has withdrawn), `OneExc`
(one frame on an exception stack), `TracesApart` (no raise has traces at two targets) and
`HandledOnce` (each raise is waiting, or told and handled, once). Proved:
`RaisesAreReported` and `ForcedHasItsTarget`.

*CompletionWritesProofs*, in both visibility modes. `IInv` adds to the type: `Places`
(where each actor may be in which mode), `OneInFlight` (one actor at a time has taken
writes, and `inflight` says so), `ScopeExact`, `Numbered` (submits and writes are told
apart, who has pulsed queues no more), `EventsExact` (no event is lost between pulse and
post, and the worker's place says what it knows of the next event's submit) and
`TakenOutside` (a worker took a write only with no submit in progress, unless it had to
wait for another drain). Proved: `CountsAreExact`, `EventComesAfter` and
`FencesArePrivate`. `RetainedIsMine` (what is retained is of the submit that holds the
mutex) is why an event that is posted meanwhile is not its. `FoldReadsNewest` needs no
more, for any width. With `LabelsApart` (see above) `IInvApart` adds `InOrder`: what is
in flight comes before what is queued for the same address; and but for the addresses
crossed, what is to land for an address is all queued or all retained, and comes after
what has landed there. Proved from it: `WritesLandInOrder`. That a finite non-empty set
of writes has a first one is derived from the well-foundedness of the numbers
(`WellFoundedInduction`).

*EventQueueProofs*, with no hypothesis. `IInv` is `NothingCountedIsLost`, `TagsInOrder`
and `RegistrationsDieWithQueue` (but for what was added by a dead queue's handle) with:
`LifeExact`, `PcsExact`, `PostsExact` (what each thread carries and for which queue: that
of now, or one its identity or the delete it ran into gives away), `QueueExact` (the same
of the pending events), `TimersExact` (who has lost the token knows, and has at most the
post it had begun) and `TagsInLine` (the tags delivered, pending, in the worker's hand
and behind it stand in one line without gaps). Lemmas `OnAppend`, `OnReplace`, `OnDrop`
and `OnCut` say what a post, a merge, a shed event and a delivery do to the queue.
Proved: `CountedIsKept`, `TagsComeInOrder`, `OnlyItsOwn` and `NoSecondFiring`.

TLC's counts for the invariants before their proofs (distinct states, no violation):
`KernelObjects` 96,208; `GuestException` 539,884 with one raiser (`IInvOne`) and
1,398,689 with two (`IInv`); `PthreadCond` 1,461,208; `CompletionWrites` 916,475 and,
without `InOrder` and `LabelsApart`, 1,795,871; `GuestRwlock` 219,559; `EventQueue`
354,664; `CondSlots` 1,259,022 (`TableIInvAlone`), and 8,197 with three lookups at once
of one condvar (`TableIInv`).

Only model-checked: all liveness (it and ENABLED are beyond the prover). Every safety
property of a passing run is proved.
`KnoteNeverRegresses`, `PrivateUntilReturn` and the other properties of "What the violated
runs say" are false of the code. No module declares a RECURSIVE operator, so each can be
proved about.

## Not modelled

- POSIX delivery of guest exceptions (a signal), and POSIX condvars (the host's).
- `already-suspended` targets, host calls failing on a live target, exhausted
  1024-entry tables, uninstalled handlers.
- The manufacture and destruction of rwlocks and mutexes; barriers, once, threads.
- Reclamation from the quarantine (a call is assumed to take less than 30 s).
- Streams deferred behind WAIT_REG_MEM, with the pulses they owe and their watchdog
  (CP 3343-), the overlay of retained effects that a wait behind a copy reads (CP
  4786-4815), what a copy itself stores, and the renderer's unbatched drain. A queued
  write to an unmapped address is skipped (CP 3650-3657): every address is mapped.
- Deregistration of user events, and APR tags with a zero counter.
- PM4 decoding, shader translation, Vulkan recording and the frontends: most of the
  lines, and sequential data transformation on formats, with no protocol a model
  checker could explore and no short statement of what they should yield.
- `PROSPER_RWLOCK_UNSAFE_UNLOCK`, `PROSPER_WIN_LEGACY_EXC` and the fault injection
  hooks of the tests.
- A wait that finds the slot table full (ENOMEM): its caller's loop then runs with
  the mutex held.
- Weak memory. The gate and the rwlock are argued in the code from `seq_cst` and
  acquire/release pairs on single words; `wake_label_waiters`' fence will need store
  buffers.

## Plan

1. `WaitRegistry`: the seqlock, as the abstract set of waits that `GuestException`
   assumes, with a store buffer per thread for `wake_label_waiters`' fence.
2. Deferred streams: per-queue order and owed pulses, composed with `CompletionWrites`.
3. Mutex slots, once and barriers; then ULT on top of fibers.
4. The write watch and AIO.
