------------------------------- MODULE PthreadCond -------------------------------
(***************************************************************************)
(* A guest condition variable (src/hle/kernel/hle_kernel.cpp): the guest's *)
(* slot, which holds a static initialiser, a pointer to a host object or   *)
(* the destroyed sentinel; the objects' entries in g_guest_cond_states;    *)
(* and the calls that race on them.  One mutex goes with the condition     *)
(* variable.                                                               *)
(*                                                                         *)
(* Every atomic access of the slot and every critical section of the table *)
(* is a step.  The host's wait gives the mutex up and parks in one step.   *)
(* No thread stays in a destroyed object for as long as the quarantine     *)
(* (30 s by default): sync_retire.cpp reclaims by age alone.               *)
(***************************************************************************)
EXTENDS Integers, FiniteSets

CONSTANTS Threads, NoOne,
          Objs,     \* addresses that calloc hands out
          MaxGen    \* bound: signals and broadcasts to one object

ASSUME CondAssumption ==
    /\ IsFiniteSet(Threads) /\ NoOne \notin Threads
    /\ IsFiniteSet(Objs) /\ {"static", "dead", "none"} \cap Objs = {}
    /\ MaxGen \in Nat

VARIABLES
    slot,    \* the guest's word
    life,    \* per object: free, live, or retired into the quarantine
    entry,   \* g_guest_cond_states: [known, clock, waiters, generation]
    m,       \* the owner of the guest's mutex
    pc,
    op,      \* per thread: its call
    obj,     \* per thread: the pointer it works on
    gen0,    \* per thread: initial_generation of its timed wait
    late,    \* per thread: its last slice ended by the clock
    through, \* history, per destroyer: who has waited since its call began
    owed     \* history: threads a broadcast under the mutex must release

memory == <<slot, life, entry>>
locals == <<op, obj, gen0, late>>
ghosts == <<through, owed>>
vars   == <<memory, m, pc, locals, ghosts>>

Calls == {"wait", "timed", "signal", "broadcast", "destroy", "init"}
Ops == Calls \union {"realtime"}   \* a timed wait that has found the clock to be this one
Pcs == {"idle", "load", "make", "cas", "use", "clock", "snap", "slice", "parked", "relock",
        "check", "leave", "host", "look", "claim", "forget", "retire", "store"}

Clocks == {"realtime", "other"}

Entries == [known : BOOLEAN, clock : Clocks, waiters : 0 .. Cardinality(Threads),
            generation : 0 .. MaxGen]
Unknown == [known |-> FALSE, clock |-> "realtime", waiters |-> 0, generation |-> 0]
Fresh(c) == [known |-> TRUE, clock |-> c, waiters |-> 0, generation |-> 0]

\* Threads inside a GuestCondWaiterScope for o.
Inside(o) ==
    {t \in Threads : obj[t] = o /\ op[t] \in {"wait", "timed", "realtime"} /\
        pc[t] \in {"clock", "snap", "slice", "parked", "relock", "check", "leave"}}
Parked(o) == {t \in Threads : obj[t] = o /\ pc[t] = "parked"}
\* Threads whose pointer is o.
Users(o)  == {t \in Threads : obj[t] = o}

Init ==
    /\ slot = "static"
    /\ life = [o \in Objs |-> "free"]
    /\ entry = [o \in Objs |-> Unknown]
    /\ m = NoOne
    /\ pc = [t \in Threads |-> "idle"]
    /\ op = [t \in Threads |-> "wait"]
    /\ obj = [t \in Threads |-> "none"]
    /\ gen0 = [t \in Threads |-> 0]
    /\ late = [t \in Threads |-> FALSE]
    /\ through = [t \in Threads |-> {}]
    /\ owed = {}

Goto(t, label) == pc' = [pc EXCEPT ![t] = label]

Return(t) ==
    /\ Goto(t, "idle")
    /\ op' = [op EXCEPT ![t] = "wait"]
    /\ obj' = [obj EXCEPT ![t] = "none"]
    /\ gen0' = [gen0 EXCEPT ![t] = 0]
    /\ late' = [late EXCEPT ![t] = FALSE]
    /\ owed' = owed \ {t}
    /\ through' = [d \in Threads |-> IF d = t THEN {} ELSE through[d] \ {t}]

-------------------------------------------------------------------------------
(* The guest.                                                              *)

Lock(t) ==
    /\ pc[t] = "idle" /\ m = NoOne
    /\ m' = t
    /\ UNCHANGED <<memory, pc, locals, ghosts>>

Unlock(t) ==
    /\ pc[t] = "idle" /\ m = t
    /\ m' = NoOne
    /\ UNCHANGED <<memory, pc, locals, ghosts>>

\* It waits with the mutex held, and initialises again only what it destroyed.
Call(t, o) ==
    /\ pc[t] = "idle"
    /\ o \in {"wait", "timed"} => m = t
    /\ o = "init" => slot = "dead" /\ \A u \in Threads : op[u] # "init"
    /\ op' = [op EXCEPT ![t] = o]
    /\ Goto(t, IF o = "init" THEN "make" ELSE "load")
    /\ through' = [through EXCEPT ![t] =
                     IF o = "destroy" THEN {u \in Threads : pc[u] = "parked"} ELSE {}]
    /\ UNCHANGED <<memory, m, obj, gen0, late, owed>>

-------------------------------------------------------------------------------
(* ensure_cond, and k_cond_init, which shares its allocation.              *)

Load(t) ==
    /\ pc[t] = "load" /\ op[t] # "destroy"
    /\ \/ /\ slot \in Objs
          /\ obj' = [obj EXCEPT ![t] = slot]
          /\ Goto(t, "use")
          /\ UNCHANGED <<op, gen0, late, ghosts>>
       \/ slot = "dead" /\ Return(t)
       \/ /\ slot = "static"
          /\ Goto(t, "make")
          /\ UNCHANGED <<locals, ghosts>>
    /\ UNCHANGED <<memory, m>>

Make(t) ==
    /\ pc[t] = "make"
    /\ \E o \in Objs, c \in IF op[t] = "init" THEN Clocks ELSE {"realtime"} :
         /\ life[o] = "free"
         /\ life' = [life EXCEPT ![o] = "live"]
         /\ entry' = [entry EXCEPT ![o] = Fresh(c)]
         /\ obj' = [obj EXCEPT ![t] = o]
    /\ Goto(t, IF op[t] = "init" THEN "store" ELSE "cas")
    /\ UNCHANGED <<slot, m, op, gen0, late, ghosts>>

\* The loser takes what the slot holds now.
Cas(t) ==
    /\ pc[t] = "cas"
    /\ IF slot = "static"
       THEN slot' = obj[t] /\ UNCHANGED <<life, entry, obj>>
       ELSE /\ entry' = [entry EXCEPT ![obj[t]] = Unknown]
            /\ life' = [life EXCEPT ![obj[t]] = "free"]
            /\ obj' = [obj EXCEPT ![t] = slot]
            /\ UNCHANGED slot
    /\ Goto(t, "use")
    /\ UNCHANGED <<m, op, gen0, late, ghosts>>

Store(t) ==
    /\ pc[t] = "store"
    /\ slot' = obj[t]
    /\ Return(t)
    /\ UNCHANGED <<life, entry, m>>

-------------------------------------------------------------------------------
(* guest_cond_wait_slot and k_cond_timedwait                               *)

\* Faulty: a timed wait is not counted.
EnterUncounted(t) ==
    /\ pc[t] = "use" /\ op[t] \in {"wait", "timed"} /\ obj[t] \in Objs
    /\ entry' = [entry EXCEPT ![obj[t]].waiters = @ + (IF op[t] = "timed" THEN 0 ELSE 1)]
    /\ Goto(t, IF op[t] = "timed" THEN "clock" ELSE "slice")
    /\ UNCHANGED <<slot, life, m, locals, ghosts>>

\* guest_cond_waiter_enter
Enter(t) ==
    /\ pc[t] = "use" /\ op[t] \in {"wait", "timed"} /\ obj[t] \in Objs
    /\ entry' = [entry EXCEPT ![obj[t]] = [known |-> TRUE, clock |-> @.clock,
                   waiters |-> @.waiters + 1, generation |-> @.generation]]
    /\ Goto(t, IF op[t] = "timed" THEN "clock" ELSE "slice")
    /\ UNCHANGED <<slot, life, m, locals, ghosts>>

\* On the realtime clock, the default, a timed wait is one wait of the host's.
ReadClock(t) ==
    /\ pc[t] = "clock"
    /\ IF entry[obj[t]].clock = "realtime"
       THEN op' = [op EXCEPT ![t] = "realtime"] /\ Goto(t, "slice")
       ELSE UNCHANGED op /\ Goto(t, "snap")
    /\ UNCHANGED <<memory, m, obj, gen0, late, ghosts>>

\* On any other it is cut into slices, by interruptible_cond_clock_timedwait.
Snapshot(t) ==
    /\ pc[t] = "snap"
    /\ gen0' = [gen0 EXCEPT ![t] = entry[obj[t]].generation]
    /\ Goto(t, "slice")
    /\ UNCHANGED <<memory, m, op, obj, late, ghosts>>

Park(t) ==
    /\ pc[t] = "slice" /\ m = t
    /\ m' = NoOne
    /\ Goto(t, "parked")
    /\ UNCHANGED <<memory, locals, ghosts>>

\* The host's wait may end of itself (a raise does that), a timed one by the clock.
WaitEnds(t) ==
    /\ pc[t] = "parked"
    /\ \E byClock \in {FALSE, op[t] # "wait"} : late' = [late EXCEPT ![t] = byClock]
    /\ Goto(t, "relock")
    /\ UNCHANGED <<memory, m, op, obj, gen0, ghosts>>

Relock(t) ==
    /\ pc[t] = "relock" /\ m = NoOne
    /\ m' = t
    /\ Goto(t, IF late[t] /\ op[t] = "timed" THEN "check" ELSE "leave")
    /\ UNCHANGED <<memory, locals, ghosts>>

\* A signal between two slices ends the wait as if it had been woken.
Check(t) ==
    /\ pc[t] = "check"
    /\ late' = [late EXCEPT ![t] = FALSE]
    /\ Goto(t, IF entry[obj[t]].generation # gen0[t] THEN "leave" ELSE "slice")
    /\ UNCHANGED <<memory, m, op, obj, gen0, ghosts>>

\* The deadline has passed: ETIMEDOUT.
Expire(t) ==
    /\ pc[t] = "slice" /\ op[t] = "timed"
    /\ late' = [late EXCEPT ![t] = TRUE]
    /\ Goto(t, "leave")
    /\ UNCHANGED <<memory, m, op, obj, gen0, ghosts>>

\* guest_cond_waiter_leave
Leave(t) ==
    /\ pc[t] = "leave"
    /\ entry' = [entry EXCEPT ![obj[t]].waiters = IF @ > 0 THEN @ - 1 ELSE 0]
    /\ Return(t)
    /\ UNCHANGED <<slot, life, m>>

-------------------------------------------------------------------------------
(* guest_cond_signal_slot, guest_cond_broadcast_slot                       *)

Owe(t) == IF op[t] = "broadcast" /\ m = t
          THEN owed \union {u \in Inside(obj[t]) : pc[u] \in {"parked", "relock"}}
          ELSE owed

\* Faulty: only the Sony spelling counts.
AdvanceNot(t) ==
    /\ pc[t] = "use" /\ op[t] \in {"signal", "broadcast"} /\ obj[t] \in Objs
    /\ Goto(t, "host")
    /\ owed' = Owe(t)
    /\ UNCHANGED <<memory, m, locals, through>>

\* guest_cond_advance
Advance(t) ==
    /\ pc[t] = "use" /\ op[t] \in {"signal", "broadcast"} /\ obj[t] \in Objs
    /\ entry[obj[t]].generation < MaxGen
    /\ entry' = [entry EXCEPT ![obj[t]].generation =
                   IF entry[obj[t]].known THEN @ + 1 ELSE @]
    /\ Goto(t, "host")
    /\ owed' = Owe(t)
    /\ UNCHANGED <<slot, life, m, locals, through>>

\* Who wakes: some parked thread, or all of them.
Woken(t) ==
    LET P == Parked(obj[t])
    IN IF P = {} THEN {{}}
       ELSE IF op[t] = "signal" THEN {{u} : u \in P} ELSE {P}

HostWake(t) ==
    /\ pc[t] = "host"
    /\ \E W \in Woken(t) :
         pc' = [u \in Threads |-> IF u \in W THEN "relock"
                                  ELSE IF u = t THEN "idle" ELSE pc[u]]
    /\ obj' = [obj EXCEPT ![t] = "none"]
    /\ op' = [op EXCEPT ![t] = "wait"]
    /\ UNCHANGED <<memory, m, gen0, late, ghosts>>

-------------------------------------------------------------------------------
(* guest_cond_destroy_slot                                                 *)

\* pt_peek_slot
Peek(t) ==
    /\ pc[t] = "load" /\ op[t] = "destroy"
    /\ IF slot \in Objs THEN obj' = [obj EXCEPT ![t] = slot] /\ Goto(t, "look")
                        ELSE obj' = obj /\ Goto(t, "claim")
    /\ UNCHANGED <<memory, m, op, gen0, late, ghosts>>

\* guest_cond_has_waiters: EBUSY
Look(t) ==
    /\ pc[t] = "look"
    /\ IF entry[obj[t]].waiters > 0
       THEN Return(t)
       ELSE Goto(t, "claim") /\ UNCHANGED <<locals, ghosts>>
    /\ UNCHANGED <<memory, m>>

\* Faulty: the object that was looked at is retired, whoever has claimed it.
ClaimLooked(t) ==
    /\ pc[t] = "claim"
    /\ slot' = "dead"
    /\ IF obj[t] \in Objs
       THEN Goto(t, "forget") /\ UNCHANGED <<locals, ghosts>>
       ELSE Return(t)
    /\ UNCHANGED <<life, entry, m>>

\* pt_claim_slot
Claim(t) ==
    /\ pc[t] = "claim"
    /\ slot' = "dead"
    /\ IF slot \in Objs
       THEN obj' = [obj EXCEPT ![t] = slot] /\ Goto(t, "forget") /\ UNCHANGED <<op, gen0, late, ghosts>>
       ELSE Return(t)
    /\ UNCHANGED <<life, entry, m>>

\* guest_cond_unregister
Forget(t) ==
    /\ pc[t] = "forget"
    /\ entry' = [entry EXCEPT ![obj[t]] = Unknown]
    /\ Goto(t, "retire")
    /\ UNCHANGED <<slot, life, m, locals, ghosts>>

\* retire_sync_object: this one goes in, those old enough are freed.
Retire(t) ==
    /\ pc[t] = "retire"
    /\ \E old \in SUBSET {o \in Objs : life[o] = "retired" /\ Users(o) = {}} :
         life' = [o \in Objs |-> IF o = obj[t] THEN "retired"
                                 ELSE IF o \in old THEN "free" ELSE life[o]]
    /\ Return(t)
    /\ UNCHANGED <<slot, entry, m>>

-------------------------------------------------------------------------------
Next ==
    \E t \in Threads :
       \/ Lock(t) \/ Unlock(t) \/ \E o \in Calls : Call(t, o)
       \/ Load(t) \/ Make(t) \/ Cas(t) \/ Store(t)
       \/ Enter(t) \/ ReadClock(t) \/ Snapshot(t) \/ Park(t) \/ WaitEnds(t) \/ Relock(t)
       \/ Check(t) \/ Expire(t) \/ Leave(t)
       \/ Advance(t) \/ HostWake(t)
       \/ Peek(t) \/ Look(t) \/ Claim(t) \/ Forget(t) \/ Retire(t)

Spec == Init /\ [][Next]_vars

-------------------------------------------------------------------------------
(* Properties.                                                             *)

TypeOK ==
    /\ slot \in Objs \union {"static", "dead"}
    /\ life \in [Objs -> {"free", "live", "retired"}]
    /\ entry \in [Objs -> Entries]
    /\ m \in Threads \union {NoOne}
    /\ pc \in [Threads -> Pcs] /\ op \in [Threads -> Ops]
    /\ obj \in [Threads -> Objs \union {"none", "dead"}]
    /\ gen0 \in [Threads -> 0 .. MaxGen]
    /\ late \in [Threads -> BOOLEAN]
    /\ through \in [Threads -> SUBSET Threads]
    /\ owed \subseteq Threads

(* What the busy check of destroy reads is right for every object that can *)
(* still be reached: its entry counts the threads inside its waits.  A     *)
(* late wait on a destroyed object makes the entry anew (and leaves it     *)
(* behind); the object that gets the address next must not inherit it.     *)
CountExact ==
    /\ TypeOK
    /\ slot \in Objs =>
         entry[slot].known /\ entry[slot].waiters = Cardinality(Inside(slot))

(* Destroys race for the slot: an object that a thread retires has left    *)
(* the slot, no other thread retires it too, and it was not retired        *)
(* before; what the slot holds was never retired.                          *)
Retiring(t) == pc[t] \in {"forget", "retire"}
RetiredOnce ==
    /\ slot \in Objs => life[slot] = "live"
    /\ \A t \in Threads : Retiring(t) =>
         /\ slot # obj[t] /\ life[obj[t]] = "live"
         /\ \A u \in Threads : Retiring(u) /\ obj[u] = obj[t] => u = t

(* A destroy is refused under a parked thread: it never takes the object   *)
(* from a thread that has been waiting in it since the destroy was called. *)
WaitersKeepTheirObject ==
    [][\A d \in Threads :
         pc[d] = "claim" /\ pc'[d] = "forget" => through[d] \cap Inside(slot) = {}]_vars

(* A broadcast under the mutex reaches every thread that gave it up to     *)
(* wait, unless the condition variable is destroyed meanwhile: none        *)
(* reports ETIMEDOUT after it.  A timed wait on another clock than         *)
(* realtime keeps that between two slices; a realtime one that times out   *)
(* before the broadcast and takes the mutex after it does not.             *)
TimesOut(t) == t \in owed /\ slot = obj[t] /\ pc[t] # "leave" /\ pc'[t] = "leave" /\ late'[t]
BroadcastNotLost ==
    [][\A t \in Threads : TimesOut(t) => op[t] = "realtime"]_vars
NoBroadcastLost == [][\A t \in Threads : ~TimesOut(t)]_vars

(* "A destroyed slot is refused": no call works on the sentinel.           *)
NoSentinelUsed == \A t \in Threads : pc[t] = "use" => obj[t] \in Objs

-------------------------------------------------------------------------------
(* The inductive invariant.                                                *)

Waiting == {"clock", "snap", "slice", "parked", "relock", "check", "leave"}

\* Which calls come to which label, and with what pointer.
CallShape ==
    \A t \in Threads :
        /\ pc[t] = "idle" => op[t] = "wait"
        /\ pc[t] \in {"idle", "load", "make"} => obj[t] = "none"
        /\ pc[t] \in Waiting => op[t] \in {"wait", "timed", "realtime"}
        /\ pc[t] \in {"clock", "snap", "check"} => op[t] = "timed"
        /\ op[t] = "realtime" => pc[t] \in Waiting
        /\ late[t] => op[t] # "wait" /\ pc[t] \in {"relock", "check", "leave"}
        /\ pc[t] \in Waiting \union {"cas", "store", "host", "look", "forget", "retire"}
              => obj[t] \in Objs
        /\ pc[t] = "make" => op[t] # "destroy"
        /\ pc[t] = "store" => op[t] = "init"
        /\ pc[t] \in {"cas", "use"} => op[t] \notin {"init", "destroy"}
        /\ pc[t] = "use" => obj[t] # "none"
        /\ pc[t] = "claim" => obj[t] # "dead"
        /\ pc[t] \in {"look", "claim", "forget", "retire"} => op[t] = "destroy"

\* Only one call initialises, and the slot is dead until it is done.
InitAlone ==
    \A t \in Threads : op[t] = "init" =>
        slot = "dead" /\ \A u \in Threads : op[u] = "init" => u = t

\* An object that has not reached the slot is its maker's.
MadeIsPrivate ==
    \A t \in Threads : pc[t] \in {"cas", "store"} =>
        /\ slot # obj[t] /\ life[obj[t]] = "live"
        /\ entry[obj[t]] \in {Fresh(c) : c \in Clocks}
        /\ Users(obj[t]) = {t}

\* Free memory has no user, and an entry never counts a thread twice.
FreeIsUnused == \A o \in Objs : life[o] = "free" => Users(o) = {}
CountBounded == \A o \in Objs : entry[o].waiters <= Cardinality(Inside(o))

\* Whoever has waited since a destroy was called is still inside its wait; the
\* destroyer looks at the same object, or will not find it in the slot.
ThroughExact ==
    \A d \in Threads : \A u \in through[d] :
        /\ pc[u] \in Waiting
        /\ pc[d] = "look" /\ obj[u] = slot => obj[d] = slot
        /\ pc[d] = "claim" => obj[u] # slot

\* A timed wait's generation is one its object has had, and an older one than
\* the object's if a broadcast has to end it.
GenerationExact ==
    /\ \A t \in owed : pc[t] \in Waiting
    /\ \A t \in Threads : op[t] = "timed" /\ obj[t] = slot =>
         /\ pc[t] \in {"slice", "parked", "relock", "check"}
               => gen0[t] <= entry[slot].generation
         /\ t \in owed => /\ pc[t] \in {"parked", "relock", "check", "leave"}
                          /\ pc[t] # "leave" => gen0[t] < entry[slot].generation

IInv ==
    /\ CountExact /\ RetiredOnce
    /\ CallShape /\ InitAlone /\ MadeIsPrivate /\ FreeIsUnused /\ CountBounded
    /\ ThroughExact /\ GenerationExact

===============================================================================
