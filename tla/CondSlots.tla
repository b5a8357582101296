------------------------------- MODULE CondSlots -------------------------------
(***************************************************************************)
(* The table that gives each guest condition variable the 32-bit word its  *)
(* Windows waiters sleep on: cond_slot_for, its callers' use of the slot,  *)
(* interruptible_cond_forget, and interrupt_guest_wait, which reaches the  *)
(* slot past the table; of src/hle/sync/sync_futex.cpp.                    *)
(*                                                                         *)
(* The table is lock-free: every slot is read or exchanged in a step of    *)
(* its own.  The guest never destroys a condvar somebody is using.         *)
(***************************************************************************)
EXTENDS Naturals, FiniteSets

CONSTANTS Callers,
          Conds,         \* condvar addresses
          Destroyable,   \* those the guest also destroys
          Programs,      \* the sets of condvars a program may have
          NSlots,        \* g_cond_slots.size()
          MaxAttempts,   \* 64 in the code
          MaxLookups,    \* program: threads at once inside a lookup of one condvar
          Generations,   \* 2^32: the values of a slot's word
          Free, SlotRetiring, NoCond

ASSUME SlotsAssumption ==
    /\ IsFiniteSet(Callers) /\ IsFiniteSet(Conds)
    /\ Destroyable \subseteq Conds
    /\ Programs \subseteq SUBSET Conds
    /\ NSlots \in Nat \ {0}
    /\ MaxLookups \in Nat \ {0}
    /\ MaxAttempts \in Nat \ {0} /\ Generations \in Nat \ {0}
    /\ {Free, SlotRetiring} \cap Conds = {} /\ Free # SlotRetiring /\ NoCond \notin Conds

VARIABLES
    cond,      \* per slot: its owner, Free (0) or SlotRetiring (UINTPTR_MAX)
    sequence,  \* per slot: the word waiters sleep on
    program,   \* the condvars the program uses, chosen once
    live,      \* the condvars that exist for the guest
    where,     \* where each thread is
    key,       \* per thread: the condvar of its call
    i,         \* per thread: the slot its scan looks at next
    at,        \* per thread: the slot it claimed or was given, 0 for nullptr
    attempt,   \* per thread
    noted      \* slots that raises found their target asleep on, and may move yet

tableVars == <<cond, sequence, program, live, where, key, i, at, attempt, noted>>

Slots == 1 .. NSlots

Lookup == {"find", "claim", "winner", "release", "last"}  \* cond_slot_for
Places == Lookup \union {"idle", "using", "forget", "reset", "free"}

TableTypeOK ==
    /\ cond \in [Slots -> Conds \union {Free, SlotRetiring}]
    /\ sequence \in [Slots -> 0 .. Generations - 1]
    /\ program \in Programs
    /\ live \subseteq program
    /\ where \in [Callers -> Places]
    /\ key \in [Callers -> Conds \union {NoCond}]
    /\ i \in [Callers -> Slots]
    /\ at \in [Callers -> 0 .. NSlots]
    /\ attempt \in [Callers -> 0 .. MaxAttempts]
    /\ noted \subseteq Slots

TableInit ==
    /\ cond = [s \in Slots |-> Free]
    /\ sequence = [s \in Slots |-> 0]
    /\ program \in Programs
    /\ live = program
    /\ where = [t \in Callers |-> "idle"]
    /\ key = [t \in Callers |-> NoCond]
    /\ i = [t \in Callers |-> 1]
    /\ at = [t \in Callers |-> 0]
    /\ attempt = [t \in Callers |-> 0]
    /\ noted = {}

\* t goes to a label that starts a scan, if it is one.
StartAt(t, label) ==
    /\ where' = [where EXCEPT ![t] = label]
    /\ i' = [i EXCEPT ![t] = 1]

NextSlot(t) ==
    /\ i[t] < NSlots
    /\ i' = [i EXCEPT ![t] = @ + 1]
    /\ UNCHANGED <<where, at>>

\* cond_slot_for returns slot (0: nullptr).
Resolved(t, slot) == StartAt(t, "using") /\ at' = [at EXCEPT ![t] = slot]

Finish(t) ==
    /\ StartAt(t, "idle")
    /\ key' = [key EXCEPT ![t] = NoCond]
    /\ at' = [at EXCEPT ![t] = 0]
    /\ attempt' = [attempt EXCEPT ![t] = 0]

-------------------------------------------------------------------------------
(* cond_slot_for                                                           *)

Resolve(t, c) ==
    /\ where[t] = "idle"
    /\ c \in live
    /\ Cardinality({u \in Callers : key[u] = c /\ where[u] \in Lookup}) < MaxLookups
    /\ StartAt(t, "find")
    /\ key' = [key EXCEPT ![t] = c]
    /\ UNCHANGED <<cond, sequence, live, at, attempt>>

\* The first look for an owner, and the last one when the attempts are spent.
Find(t) ==
    /\ where[t] \in {"find", "last"}
    /\ \/ cond[i[t]] = key[t] /\ Resolved(t, i[t])
       \/ cond[i[t]] # key[t] /\ NextSlot(t)
       \/ /\ cond[i[t]] # key[t] /\ i[t] = NSlots
          /\ IF where[t] = "find" THEN StartAt(t, "claim") /\ UNCHANGED at
                                  ELSE Resolved(t, 0)
    /\ UNCHANGED <<cond, sequence, live, key, attempt>>

\* A compare-exchange per slot; the table may be full.
ClaimSlot(t) ==
    /\ where[t] = "claim"
    /\ \/ /\ cond[i[t]] = Free
          /\ cond' = [cond EXCEPT ![i[t]] = key[t]]
          /\ at' = [at EXCEPT ![t] = i[t]]
          /\ StartAt(t, "winner")
       \/ cond[i[t]] # Free /\ NextSlot(t) /\ UNCHANGED cond
       \/ cond[i[t]] # Free /\ i[t] = NSlots /\ Resolved(t, 0) /\ UNCHANGED cond
    /\ UNCHANGED <<sequence, live, key, attempt>>

\* Faulty: the claimer keeps what it claimed without looking for a lower claim.
KeepClaim(t) == /\ where[t] = "winner"
                /\ Resolved(t, at[t])
                /\ UNCHANGED <<cond, sequence, live, key, attempt>>

\* Faulty: a claimer gives its slot up even when it won.
WinnerYields(t) == /\ where[t] = "winner"
                   /\ StartAt(t, "release")
                   /\ UNCHANGED <<cond, sequence, live, key, at, attempt>>

\* The lowest slot with this key wins.
Winner(t) ==
    /\ where[t] = "winner"
    /\ \/ cond[i[t]] # key[t] /\ NextSlot(t)
       \/ /\ cond[i[t]] = key[t] \/ i[t] = NSlots
          /\ IF cond[i[t]] = key[t] /\ i[t] = at[t]
             THEN Resolved(t, at[t])
             ELSE StartAt(t, "release") /\ UNCHANGED at
    /\ UNCHANGED <<cond, sequence, live, key, attempt>>

\* Faulty: the loser frees the winner's slot too.
ReleaseAll(t) ==
    /\ where[t] = "release"
    /\ cond' = [s \in Slots |-> IF cond[s] = key[t] THEN Free ELSE cond[s]]
    /\ at' = [at EXCEPT ![t] = 0]
    /\ attempt' = [attempt EXCEPT ![t] = @ + 1]
    /\ StartAt(t, IF attempt[t] + 1 < MaxAttempts THEN "find" ELSE "last")
    /\ UNCHANGED <<sequence, live, key>>

Release(t) ==
    /\ where[t] = "release"
    /\ cond' = [cond EXCEPT ![at[t]] = Free]
    /\ at' = [at EXCEPT ![t] = 0]
    /\ attempt' = [attempt EXCEPT ![t] = @ + 1]
    /\ StartAt(t, IF attempt[t] + 1 < MaxAttempts THEN "find" ELSE "last")
    /\ UNCHANGED <<sequence, live, key>>

-------------------------------------------------------------------------------
(* The callers.  A waiter uses its slot until it leaves; a signaller bumps *)
(* the word and leaves.  nullptr is reported as ENOMEM.                    *)

Bump(slot) == sequence' = [sequence EXCEPT ![slot] = (@ + 1) % Generations]

LeaveWait(t) ==
    /\ where[t] = "using"
    /\ Finish(t)
    /\ UNCHANGED <<cond, sequence, live>>

Signal(t) ==
    /\ where[t] = "using" /\ at[t] # 0
    /\ Bump(at[t])
    /\ Finish(t)
    /\ UNCHANGED <<cond, live>>

\* A raise, in a thread of its own, reads in the target's wait registration which word
\* it sleeps on ...
NoteWait(slot) ==
    /\ \E t \in Callers : where[t] = "using" /\ at[t] = slot
    /\ noted' = noted \union {slot}
    /\ UNCHANGED <<cond, sequence, live, where, key, i, at, attempt>>

\* ... and moves it, whoever has the slot by then: the target was not stopped.  Any
\* number of raises may have read the same registration.
InterruptWait(slot) ==
    /\ slot \in noted
    /\ Bump(slot)
    /\ UNCHANGED <<cond, live, where, key, i, at, attempt, noted>>

-------------------------------------------------------------------------------
(* The guest creates and destroys condvars; forget runs in the destroyer.  *)

Create(c) ==
    /\ c \in program \ live
    /\ \A t \in Callers : key[t] # c
    /\ live' = live \union {c}
    /\ UNCHANGED <<cond, sequence, where, key, i, at, attempt>>

Destroy(t, c) ==
    /\ where[t] = "idle"
    /\ c \in Destroyable \cap live
    /\ \A u \in Callers : key[u] # c
    /\ live' = live \ {c}
    /\ key' = [key EXCEPT ![t] = c]
    /\ StartAt(t, "forget")
    /\ UNCHANGED <<cond, sequence, at, attempt>>

\* interruptible_cond_forget looks for the slot and takes it out of circulation.
ForgetSlot(t) ==
    /\ where[t] = "forget"
    /\ \/ /\ cond[i[t]] = key[t]
          /\ cond' = [cond EXCEPT ![i[t]] = SlotRetiring]
          /\ at' = [at EXCEPT ![t] = i[t]]
          /\ StartAt(t, "reset")
          /\ UNCHANGED <<key, attempt>>
       \/ cond[i[t]] # key[t] /\ NextSlot(t) /\ UNCHANGED <<cond, key, attempt>>
       \/ cond[i[t]] # key[t] /\ i[t] = NSlots /\ Finish(t) /\ UNCHANGED cond
    /\ UNCHANGED <<sequence, live>>

ResetSequence(t) ==
    /\ where[t] = "reset"
    /\ sequence' = [sequence EXCEPT ![at[t]] = 0]
    /\ StartAt(t, "free")
    /\ UNCHANGED <<cond, live, key, at, attempt>>

FreeSlot(t) ==
    /\ where[t] = "free"
    /\ cond' = [cond EXCEPT ![at[t]] = Free]
    /\ Finish(t)
    /\ UNCHANGED <<sequence, live>>

-------------------------------------------------------------------------------
Step(t) ==
    \/ \E c \in Conds : Resolve(t, c) \/ Destroy(t, c)
    \/ Find(t) \/ ClaimSlot(t) \/ Winner(t) \/ Release(t)
    \/ LeaveWait(t) \/ Signal(t)
    \/ ForgetSlot(t) \/ ResetSequence(t) \/ FreeSlot(t)

TableNext ==
    /\ UNCHANGED program
    /\ \/ (\/ \E t \in Callers : Step(t)
           \/ \E c \in Conds : Create(c)) /\ UNCHANGED noted
       \/ \E slot \in Slots : NoteWait(slot) \/ InterruptWait(slot)

TableSpec == TableInit /\ [][TableNext]_tableVars

-------------------------------------------------------------------------------
\* "One condvar must resolve to ONE slot, for the life of that condvar": whoever
\* is between a lookup and the end of its wait or signal uses the same slot.
\* Holds for a condvar that has the table to itself: another condvar's retirement
\* frees a slot between a claimer's scan and its compare-exchange.
OneSlotPerCond ==
    \A t, u \in Callers :
        /\ where[t] = "using" /\ at[t] # 0
        /\ where[u] = "using" /\ at[u] # 0
        /\ key[t] = key[u]
        => at[t] = at[u]

\* A destroyed condvar keeps no slot, so churn cannot fill the table.
NoSlotLeak ==
    \A s \in Slots : cond[s] \in Conds \ live
        => \E t \in Callers : where[t] = "forget" /\ key[t] = cond[s] /\ i[t] <= s

\* cond_slot_for's arbitration ("the lowest slot with this key wins"), on a table
\* no other condvar leaves slots in: one slot per condvar, and none left behind.
AloneOneSlot == Cardinality(program) = 1 => OneSlotPerCond /\ NoSlotLeak

\* The slot a thread sleeps on or signals still belongs to its condvar, so no other
\* condvar can be given the word it sleeps on, and no reset sets that word back
\* (interruptible_cond_forget and a losing claimer free slots beside it).
UsersKeepSlot ==
    \A t \in Callers : where[t] = "using" /\ at[t] # 0 => cond[at[t]] = key[t]
SlotOutlivesUse ==
    /\ TableTypeOK
    /\ UsersKeepSlot
    /\ \A t, u \in Callers : where[t] = "using" /\ where[u] = "reset" => at[t] # at[u]

\* interruptible_cond_forget resets the generation before it frees the slot.  A free
\* slot's is zero all the same only if no raise is late: InterruptWait moves it.
FreeSlotsAreReset == \A s \in Slots : cond[s] = Free => sequence[s] = 0

\* A lookup fails only when the table has no room: never from the bounded retry.
NullMeansFull ==
    [][\A t \in Callers :
          where[t] \notin {"idle", "using"} /\ where'[t] = "using" /\ at'[t] = 0
              => where[t] = "claim"]_tableVars
-------------------------------------------------------------------------------
(* The inductive invariant, for any number of lookups at once.             *)

Claimants == {t \in Callers : where[t] \in {"winner", "release"}}
Retirers  == {t \in Callers : where[t] \in {"forget", "reset", "free"}}

\* Which condvar a call is about; a destroyer has it to itself.
KeyExact ==
    \A t \in Callers :
        /\ where[t] = "idle" => key[t] = NoCond
        /\ where[t] \in Lookup \union {"using"} => key[t] \in live
        /\ t \in Retirers => /\ key[t] \in program \ live
                             /\ \A u \in Callers \ {t} : key[u] # key[t]

\* A slot claimed is the claimer's alone to give up; its scan stops there at the latest.
ClaimHeld ==
    \A t \in Claimants :
        /\ at[t] # 0 /\ cond[at[t]] = key[t]
        /\ where[t] = "winner" => i[t] <= at[t]
        /\ \A u \in Claimants \ {t} : at[u] # at[t]

\* A slot in retirement is the retirer's alone.
RetiringHeld ==
    \A t \in Callers : where[t] \in {"reset", "free"} =>
        /\ at[t] # 0 /\ cond[at[t]] = SlotRetiring
        /\ \A u \in Callers \ {t} : where[u] \in {"reset", "free"} => at[u] # at[t]

\* Who has lost gives its slot up to a lower one.
Owned(c) == {s \in Slots : cond[s] = c}
LoserHasWinner ==
    \A t \in Callers : where[t] = "release" => \E s \in Owned(key[t]) : s < at[t]

\* Only the last search has no attempt left.
AttemptLeft == \A t \in Callers : where[t] \notin {"last", "using"} => attempt[t] < MaxAttempts

TableIInv == /\ TableTypeOK /\ AttemptLeft /\ KeyExact
             /\ ClaimHeld /\ RetiringHeld /\ LoserHasWinner

(* For two at once in the lookup of a condvar.                             *)

Looking(c) == {t \in Callers : key[t] = c /\ where[t] \in Lookup}
NoThird == \A t, u, v \in Callers :
    {t, u, v} \subseteq Looking(key[t]) => t = u \/ t = v \/ u = v

\* A marked slot has somebody who is retiring it, any other is free or the program's.
MarkedIsRetired ==
    \A s \in Slots :
        \/ cond[s] \in program \union {Free}
        \/ /\ cond[s] = SlotRetiring
           /\ \E t \in Callers : where[t] \in {"reset", "free"} /\ at[t] = s

\* What a search has passed by and is the condvar's now, the other lookup has just
\* claimed, or is about to find.
PassedByOther ==
    \A t \in Callers : where[t] \in {"find", "last"} =>
        \A u \in Looking(key[t]) \ {t} : \A s \in Owned(key[t]) :
            s < i[t] => \/ u \in Claimants /\ at[u] = s
                        \/ where[u] \in {"find", "last"} /\ i[u] <= s

\* A slot in use stays its claimer's: there is no lower one that its scan can still come
\* to, nor any other lookup that may claim one.
Relied(s) == \E t \in Callers : where[t] = "using" /\ at[t] = s
ReliedIsWon ==
    \A t \in Claimants : Relied(at[t]) =>
        /\ where[t] = "winner"
        /\ \A s \in Owned(key[t]) : i[t] <= s => at[t] <= s
        /\ \A u \in Looking(key[t]) \ {t} : where[u] = "find" /\ i[u] <= at[t]

\* The last search has a slot to find.
LastFinds == \A t \in Callers : where[t] = "last" => \E s \in Owned(key[t]) : i[t] <= s

TableIInvTwo == /\ TableIInv /\ UsersKeepSlot /\ MarkedIsRetired
                /\ NoThird /\ PassedByOther /\ ReliedIsWon /\ LastFinds

\* A condvar that has the table to itself is in the first slot, but for claims about to
\* be given up.
AloneInFirst ==
    Cardinality(program) = 1 =>
        /\ \A c \in program : \A s \in Owned(c) \ {1} :
               1 \in Owned(c) /\ \E t \in Claimants : at[t] = s
        /\ \A t \in Callers :
             /\ where[t] = "using" => at[t] \in {0, 1}
             /\ where[t] = "claim" /\ i[t] > 1 => 1 \in Owned(key[t])
             /\ where[t] = "winner" /\ at[t] # 1 => i[t] = 1
        /\ NoSlotLeak

TableIInvAlone == TableIInvTwo /\ AloneInFirst
===============================================================================
