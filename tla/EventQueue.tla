------------------------------- MODULE EventQueue -------------------------------
(***************************************************************************)
(* Kernel event queues (src/hle/kernel/hle_kernel_time.cpp): the handle    *)
(* table, the queue of pending events with its coalescing and overflow     *)
(* rules, the waits, and the threads that post: flip and vblank, GPU end   *)
(* of pipe, user events, timers, and the two dialects of APR completions.  *)
(*                                                                         *)
(* A handle is the address of the queue's state, which a new queue may get *)
(* once the old one's last reference is gone; this is the life of one      *)
(* address.  Every step is one critical section of g_eq_mx or of the       *)
(* queue's own mutex.  Both mutexes' condition changes notify all waiters. *)
(***************************************************************************)
EXTENDS Integers, Sequences, FiniteSets

CONSTANTS Waiters,      \* guest threads that wait
          Counters,     \* detached APR counter threads
          Timers,       \* detached timer threads
          Video, Eop, User, Ptr,   \* the other posting threads
          NoOne,
          Mixes,        \* sets of sources, one of which is in use
          Cap,          \* coalescible events a queue holds
          MaxIdent,     \* bound: queues created at the address
          MaxPosts      \* bound: completions, triggers, timers armed, expirations

Sources == {"flip", "eop", "user", "ptr", "cnt", "timer"}
Posters == Counters \union Timers \union {Video, Eop, User, Ptr}
Actors  == Posters \union Waiters

ASSUME QueueAssumption ==
    /\ IsFiniteSet(Actors) /\ NoOne \notin Actors
    /\ Waiters \cap Posters = {} /\ Counters \cap Timers = {}
    /\ {Video, Eop, User, Ptr} \cap (Counters \union Timers) = {}
    /\ Cardinality({Video, Eop, User, Ptr}) = 4
    /\ Mixes \subseteq SUBSET Sources
    /\ Cap \in Nat \ {0} /\ MaxIdent \in Nat /\ MaxPosts \in Nat

VARIABLES
    mix,         \* the sources in use
    ident,       \* the identity of the state at the address, 0 for none yet
    mapped,      \* g_eqs has it
    deleted, ready, coal,    \* EqState; coal is coalescible_ready
    dying,       \* a delete has left g_eq_mx and not yet marked the state
    regs,        \* g_flip_regs, g_vblank_regs, g_eop_regs: [source, for, stale]
    armed,       \* g_timers: the thread holding the current token, or NoOne
    cancelled,   \* per timer thread: its token
    periodic,    \* per timer thread: it repeats
    hwm,         \* tag_hwm of the queue's ring
    ptrq,        \* PtrQueue and the batch its worker has swapped out
    pc,
    ev,          \* per poster: the event it is about to post
    exp,         \* per poster: the identity it expects, 0 for any
    nposts,
    ptrSent, ptrGot, ptrLast,   \* history: pointer tags bound, delivered, last
    kept,        \* history: end-of-pipe events and expirations queued, and
                 \*   expirations shed
    taken,       \* history: the first two delivered
    shown,       \* history: the counter posted last
    extra        \* history: per timer thread: posts since its token was taken away

object  == <<ident, mapped, deleted, dying>>
pending == <<ready, coal>>
sources == <<regs, armed, cancelled, periodic, hwm, ptrq>>
posting == <<ev, exp>>
history == <<ptrSent, ptrGot, ptrLast, kept, taken, shown, extra>>
vars == <<mix, object, pending, sources, pc, posting, nposts, history>>

Events ==
    [source : Sources, data : Nat, coal : BOOLEAN,
     meant : 0 .. MaxIdent,   \* ghost: the queue its source was registered on
     late : BOOLEAN]          \* ghost: that queue was deleted before the event was
                              \*   registered, armed or triggered, or with its post
                              \*   under way
NoEvent == [source |-> "user", data |-> 0, coal |-> TRUE, meant |-> 0, late |-> FALSE]

Event(source, data, coalesce, for, dead) ==
    [source |-> source, data |-> data, coal |-> coalesce, meant |-> for,
     late |-> dead]

Pcs == {"idle", "sleep", "find", "post", "forget", "wait"}

Init ==
    /\ mix \in Mixes
    /\ ident = 0 /\ mapped = FALSE /\ deleted = FALSE /\ dying = FALSE
    /\ ready = <<>> /\ coal = 0
    /\ regs = {} /\ armed = NoOne
    /\ cancelled = [t \in Timers |-> FALSE]
    /\ periodic = [t \in Timers |-> FALSE]
    /\ hwm = 0 /\ ptrq = <<>>
    /\ pc = [a \in Actors |-> "idle"]
    /\ ev = [p \in Posters |-> NoEvent]
    /\ exp = [p \in Posters |-> 0]
    /\ nposts = 0
    /\ ptrSent = 0 /\ ptrGot = 0 /\ ptrLast = 0 /\ shown = 0
    /\ kept = [s \in {"eop", "timer", "shed"} |-> 0]
    /\ taken = [s \in {"eop", "timer"} |-> 0]
    /\ extra = [t \in Timers |-> 0]

Goto(a, label) == pc' = [pc EXCEPT ![a] = label]

\* Actors that hold a shared_ptr to the state.
Holders == {a \in Actors : pc[a] \in {"post", "wait"}}

-------------------------------------------------------------------------------
(* The guest's life-cycle calls.                                           *)

\* k_eq_create, at the address of the queue that died.
Create ==
    /\ ident < MaxIdent /\ ~mapped /\ ~dying /\ Holders = {}
    /\ ident' = ident + 1
    /\ mapped' = TRUE /\ deleted' = FALSE
    /\ ready' = <<>> /\ coal' = 0
    /\ hwm' = 0
    /\ ptrSent' = 0 /\ ptrGot' = 0 /\ ptrLast' = 0 /\ shown' = 0
    /\ kept' = [s \in DOMAIN kept |-> 0]
    /\ taken' = [s \in DOMAIN taken |-> 0]
    /\ UNCHANGED <<mix, dying, periodic, regs, armed, cancelled, ptrq, pc,
                   posting, nposts, extra>>

\* prosper_eq_add_flip, add_vblank, add_eop.  The handle is not looked up: it may be
\* that of a queue already deleted.
Register(source) ==
    /\ ident > 0
    /\ regs' = regs \union {[source |-> source, for |-> ident, stale |-> ~mapped]}
    /\ UNCHANGED <<mix, object, pending, armed, periodic, cancelled, hwm, ptrq,
                   pc, posting, nposts, history>>

\* k_eq_delete under g_eq_mx: the entry, the registrations, the timers.
Delete ==
    /\ mapped
    /\ mapped' = FALSE /\ dying' = TRUE
    /\ regs' = {}
    /\ cancelled' = [t \in Timers |-> cancelled[t] \/ armed = t]
    /\ armed' = NoOne
    /\ ev' = [p \in Posters |->
                IF pc[p] \in {"find", "post"} THEN [ev[p] EXCEPT !.late = TRUE] ELSE ev[p]]
    /\ UNCHANGED <<mix, ident, deleted, pending, periodic, hwm, ptrq, pc, exp, nposts,
                   history>>

\* k_eq_delete under the queue's mutex.
Mark ==
    /\ dying
    /\ dying' = FALSE /\ deleted' = TRUE
    /\ UNCHANGED <<mix, ident, mapped, pending, sources, pc, posting, nposts,
                   history>>

-------------------------------------------------------------------------------
(* eq_post                                                                 *)

\* The post is over; a timer thread looks whether it has another to make.
Finish(p) ==
    IF p \in Timers
    THEN /\ Goto(p, IF periodic[p] /\ ~cancelled[p] THEN "sleep" ELSE "forget")
         /\ UNCHANGED posting
    ELSE /\ Goto(p, "idle")
         /\ ev' = [ev EXCEPT ![p] = NoEvent]
         /\ exp' = [exp EXCEPT ![p] = 0]

\* Faulty: the identity is not compared.
FoundByHandle(p) == mapped

\* eq_find
Found(p) == mapped /\ exp[p] \in {0, ident}

Find(p) ==
    /\ pc[p] = "find"
    /\ IF Found(p) THEN Goto(p, "post") /\ UNCHANGED posting ELSE Finish(p)
    /\ UNCHANGED <<mix, object, pending, sources, nposts, history>>

Matches(i, e) == ready[i].coal /\ ready[i].source = e.source

\* Where the coalescible events of a queue are, and those of a source.
Level(s) == {i \in DOMAIN s : s[i].coal}
Of(s, source) == {i \in DOMAIN s : s[i].source = source}

First(S) == CHOOSE i \in S : \A j \in S : i <= j
Final(S) == CHOOSE i \in S : \A j \in S : j <= i

Drop(s, i) == SubSeq(s, 1, i - 1) \o SubSeq(s, i + 1, Len(s))

\* Faulty: the oldest event of any kind is shed.
QueueShedOldest(e) ==
    LET same == {i \in DOMAIN ready : e.coal /\ Matches(i, e)}
        full == e.coal /\ coal >= Cap
    IN IF same # {}
       THEN /\ coal' = coal
            /\ LET i == CHOOSE j \in same : TRUE
               IN ready' = [ready EXCEPT ![i] =
                     IF e.source = "timer" THEN [e EXCEPT !.data = @ + ready[i].data]
                                           ELSE e]
       ELSE IF full
       THEN ready' = Append(Tail(ready), e) /\ coal' = coal
       ELSE ready' = Append(ready, e) /\ coal' = coal + (IF e.coal THEN 1 ELSE 0)

\* A coalescible event takes the place of the pending one of its source, a
\* timer's with the expirations of both; when there are too many coalescible
\* events the oldest of them goes; all others are queued.
Queue(e) ==
    LET same == {i \in DOMAIN ready : e.coal /\ Matches(i, e)}
        full == e.coal /\ coal >= Cap
    IN IF same # {}
       THEN /\ coal' = coal
            /\ LET i == CHOOSE j \in same : TRUE
               IN ready' = [ready EXCEPT ![i] =
                     IF e.source = "timer" THEN [e EXCEPT !.data = @ + ready[i].data]
                                           ELSE e]
       ELSE IF full
       THEN /\ ready' = Append(Drop(ready, First(Level(ready))), e)
            /\ coal' = coal
       ELSE ready' = Append(ready, e) /\ coal' = coal + (IF e.coal THEN 1 ELSE 0)

\* The expirations that make room are lost with the event that carried them.
Shed(e) ==
    IF e.coal /\ coal >= Cap /\ \A i \in DOMAIN ready : ~Matches(i, e)
    THEN LET o == ready[First(Level(ready))]
         IN IF o.source = "timer" THEN o.data ELSE 0
    ELSE 0

Post(p) ==
    /\ pc[p] = "post"
    /\ Finish(p)
    /\ IF deleted
       THEN UNCHANGED <<pending, history>>
       ELSE LET e == ev[p] IN
            /\ Queue(e)
            /\ kept' = [kept EXCEPT !["eop"] = @ + (IF e.source = "eop" THEN 1 ELSE 0),
                                    !["timer"] = @ + (IF e.source = "timer" THEN e.data ELSE 0),
                                    !["shed"] = @ + Shed(e)]
            /\ shown' = IF e.source = "cnt" THEN e.data ELSE shown
            /\ extra' = [t \in Timers |->
                            IF t = p /\ armed # t THEN extra[t] + 1 ELSE extra[t]]
            /\ UNCHANGED <<ptrSent, ptrGot, ptrLast, taken>>
    /\ UNCHANGED <<mix, object, sources, nposts>>

-------------------------------------------------------------------------------
(* The sources.                                                            *)

Prepare(p, e, who) ==
    /\ ev' = [ev EXCEPT ![p] = e]
    /\ exp' = [exp EXCEPT ![p] = who]
    /\ Goto(p, "find")

Budget == nposts < MaxPosts /\ nposts' = nposts + 1

\* prosper_eq_trigger_flip, vblank_pump, eop_post_now: the registrations are
\* copied under g_eq_mx and posted to after it.
Snapshot(p, source) ==
    /\ pc[p] = "idle" /\ Budget
    /\ \E r \in regs :
         /\ r.source = source
         /\ Prepare(p, Event(source, 0, source = "flip", r.for, r.stale), 0)
    /\ UNCHANGED <<mix, object, pending, sources, history>>

\* k_trigger_user_event, by handle alone
Trigger ==
    /\ pc[User] = "idle" /\ ident > 0 /\ Budget
    /\ Prepare(User, Event("user", 0, TRUE, ident, ~mapped), 0)
    /\ UNCHANGED <<mix, object, pending, sources, history>>

\* prosper_eq_post_apr_token of the pointer dialect; a binding to an earlier
\* queue is refused here.
SubmitPtr ==
    /\ mapped /\ Budget
    /\ ptrq' = Append(ptrq, [data |-> ptrSent + 1, for |-> ident])
    /\ ptrSent' = ptrSent + 1
    /\ UNCHANGED <<mix, object, pending, periodic, regs, armed, cancelled, hwm,
                   pc, posting, ptrGot, ptrLast, kept, taken, shown, extra>>

\* Faulty: the newest of the batch goes first.
PtrNextLast ==
    /\ pc[Ptr] = "idle" /\ ptrq # <<>>
    /\ LET last == ptrq[Len(ptrq)]
       IN Prepare(Ptr, Event("ptr", last.data, FALSE, last.for, FALSE), last.for)
    /\ ptrq' = SubSeq(ptrq, 1, Len(ptrq) - 1)
    /\ UNCHANGED <<mix, object, pending, periodic, regs, armed, cancelled, hwm,
                   nposts, history>>

\* Faulty: of a batch only the first is posted.
PtrNextOnly ==
    /\ pc[Ptr] = "idle" /\ ptrq # <<>>
    /\ Prepare(Ptr, Event("ptr", Head(ptrq).data, FALSE, Head(ptrq).for, FALSE), Head(ptrq).for)
    /\ ptrq' = <<>>
    /\ UNCHANGED <<mix, object, pending, regs, armed, cancelled, periodic, hwm,
                   nposts, history>>

\* The worker, with the batch it swapped out ahead of what came after.
PtrNext ==
    /\ pc[Ptr] = "idle" /\ ptrq # <<>>
    /\ Prepare(Ptr, Event("ptr", Head(ptrq).data, FALSE, Head(ptrq).for, FALSE), Head(ptrq).for)
    /\ ptrq' = Tail(ptrq)
    /\ UNCHANGED <<mix, object, pending, periodic, regs, armed, cancelled, hwm,
                   nposts, history>>

RaiseHwm(n) == hwm' = IF n > hwm THEN n ELSE hwm

\* The counter dialect: raise the high-water mark and start a thread; its
\* event's data holds the counter it was started for until it reads the mark.
SubmitCounter(c, n) ==
    /\ pc[c] = "idle" /\ mapped /\ Budget
    /\ RaiseHwm(n)
    /\ ev' = [ev EXCEPT ![c] = Event("cnt", n, TRUE, ident, FALSE)]
    /\ exp' = [exp EXCEPT ![c] = ident]
    /\ Goto(c, "sleep")
    /\ UNCHANGED <<mix, object, pending, periodic, regs, armed, cancelled,
                   ptrq, history>>

\* The mark as it stands when the thread has slept, under its own mutex.
ReadHwm(c) ==
    /\ pc[c] = "sleep"
    /\ ev' = [ev EXCEPT ![c].data = IF exp[c] = ident THEN hwm ELSE @]
    /\ Goto(c, "find")
    /\ UNCHANGED <<mix, object, pending, sources, exp, nposts, history>>

\* post_after: a timer armed again takes the token from the last thread.  Nor is the
\* handle looked up here.
Arm(t, repeats) ==
    /\ pc[t] = "idle" /\ ident > 0 /\ Budget
    /\ cancelled' = [u \in Timers |-> cancelled[u] \/ armed = u]
    /\ armed' = t
    /\ periodic' = [periodic EXCEPT ![t] = repeats]
    /\ ev' = [ev EXCEPT ![t] = Event("timer", 1, TRUE, ident, ~mapped)]
    /\ Goto(t, "sleep")
    /\ UNCHANGED <<mix, object, pending, regs, hwm, ptrq, exp, history>>

\* Faulty: the token is forgotten, its thread is not told.
DelTimerQuietly ==
    /\ armed # NoOne
    /\ armed' = NoOne
    /\ UNCHANGED <<mix, object, pending, regs, cancelled, periodic, hwm, ptrq, pc,
                   posting, nposts, history>>

\* k_del_timer_event
DelTimer ==
    /\ armed # NoOne
    /\ cancelled' = [cancelled EXCEPT ![armed] = TRUE]
    /\ armed' = NoOne
    /\ UNCHANGED <<mix, object, pending, periodic, regs, hwm, ptrq, pc,
                   posting, nposts, history>>

\* The thread wakes and looks at its token; it posts after that.
Fire(t) ==
    /\ pc[t] = "sleep" /\ ~cancelled[t] /\ Budget
    /\ Goto(t, "find")
    /\ UNCHANGED <<mix, object, pending, sources, posting, history>>

\* A cancelled thread, or one whose single shot is over, forgets its token.
Forget(t) ==
    /\ pc[t] = "forget" \/ (pc[t] = "sleep" /\ cancelled[t])
    /\ Goto(t, "idle")
    /\ armed' = IF armed = t THEN NoOne ELSE armed
    /\ cancelled' = [cancelled EXCEPT ![t] = FALSE]
    /\ periodic' = [periodic EXCEPT ![t] = FALSE]
    /\ ev' = [ev EXCEPT ![t] = NoEvent]
    /\ extra' = [extra EXCEPT ![t] = 0]
    /\ UNCHANGED <<mix, object, pending, regs, hwm, ptrq, exp, nposts, ptrSent,
                   ptrGot, ptrLast, kept, taken, shown>>

-------------------------------------------------------------------------------
(* k_eq_wait                                                               *)

\* A handle that is not found is refused, and nothing changes.
Wait(w) ==
    /\ pc[w] = "idle" /\ mapped
    /\ Goto(w, "wait")
    /\ UNCHANGED <<mix, object, pending, sources, posting, nposts, history>>

CountOf(s, source) == Cardinality(Of(s, source))

\* A timer event carries as many expirations as its data says.
Expired(s) ==
    Cardinality(UNION {{i} \X (1 .. s[i].data) : i \in Of(s, "timer")})

CoalAfter(out) == coal - Cardinality(Level(out))

\* Up to num events are delivered.
Deliver(w, num) ==
    /\ pc[w] = "wait" /\ ready # <<>>
    /\ LET n == IF Len(ready) < num THEN Len(ready) ELSE num
           out == SubSeq(ready, 1, n)
           tags == Of(out, "ptr")
       IN /\ ready' = SubSeq(ready, n + 1, Len(ready))
          /\ coal' = CoalAfter(out)
          /\ taken' = [eop |-> taken["eop"] + CountOf(out, "eop"),
                       timer |-> taken["timer"] + Expired(out)]
          /\ ptrGot' = ptrGot + Cardinality(tags)
          /\ ptrLast' = IF tags = {} THEN ptrLast ELSE out[Final(tags)].data
    /\ Goto(w, "idle")
    /\ UNCHANGED <<mix, object, sources, posting, nposts, ptrSent, kept, shown,
                   extra>>

\* Faulty: a delete is not noticed until an event comes.
GiveUpOnTimeout(w, timed) ==
    /\ pc[w] = "wait" /\ ready = <<>>
    /\ timed
    /\ Goto(w, "idle")
    /\ UNCHANGED <<mix, object, pending, sources, posting, nposts, history>>

\* The queue was deleted (EBADF), or the time is up (ETIMEDOUT).
GiveUp(w, timed) ==
    /\ pc[w] = "wait" /\ ready = <<>>
    /\ deleted \/ timed
    /\ Goto(w, "idle")
    /\ UNCHANGED <<mix, object, pending, sources, posting, nposts, history>>

-------------------------------------------------------------------------------
Lifecycle == Create \/ Delete \/ Mark

Videos == "flip" \in mix /\ (Register("flip") \/ Snapshot(Video, "flip"))
Eops   == "eop" \in mix /\ (Register("eop") \/ Snapshot(Eop, "eop"))
Users  == "user" \in mix /\ Trigger
Ptrs   == "ptr" \in mix /\ (SubmitPtr \/ PtrNext)
Cnts   == "cnt" \in mix /\ \E c \in Counters :
            ReadHwm(c) \/ \E n \in 1 .. Cardinality(Counters) : SubmitCounter(c, n)
Times  == "timer" \in mix /\ (DelTimer \/ \E t \in Timers :
            Fire(t) \/ Forget(t) \/ \E repeats \in BOOLEAN : Arm(t, repeats))

Next ==
    \/ Lifecycle \/ Videos \/ Eops \/ Users \/ Ptrs \/ Cnts \/ Times
    \/ \E p \in Posters : Find(p) \/ Post(p)
    \/ \E w \in Waiters :
         \/ Wait(w)
         \/ \E num \in 1 .. 2 : Deliver(w, num)
         \/ \E timed \in BOOLEAN : GiveUp(w, timed)

Spec == Init /\ [][Next]_vars

\* The workers run; a delete begun is finished; a wait that can end without
\* its deadline ends.
Fairness ==
    /\ WF_vars(Mark)
    /\ WF_vars("ptr" \in mix /\ PtrNext)
    /\ \A p \in Posters : WF_vars(Find(p) \/ Post(p))
    /\ \A w \in Waiters : WF_vars(GiveUp(w, FALSE) \/ Deliver(w, 1))

FairSpec == Spec /\ Fairness

-------------------------------------------------------------------------------
(* Properties.                                                             *)

TypeOK ==
    /\ mix \in Mixes
    /\ ident \in 0 .. MaxIdent
    /\ {mapped, deleted, dying} \subseteq BOOLEAN
    /\ ready \in Seq(Events) /\ coal \in 0 .. Cap
    /\ regs \subseteq [source : {"flip", "eop"}, for : 1 .. MaxIdent, stale : BOOLEAN]
    /\ armed \in Timers \union {NoOne}
    /\ cancelled \in [Timers -> BOOLEAN] /\ periodic \in [Timers -> BOOLEAN]
    /\ hwm \in Nat
    /\ ptrq \in Seq([data : Nat, for : 1 .. MaxIdent])
    /\ pc \in [Actors -> Pcs]
    /\ ev \in [Posters -> Events] /\ exp \in [Posters -> 0 .. MaxIdent]
    /\ nposts \in 0 .. MaxPosts
    /\ ptrSent \in Nat /\ ptrGot \in Nat /\ ptrLast \in Nat
    /\ kept \in [{"eop", "timer", "shed"} -> Nat] /\ taken \in [{"eop", "timer"} -> Nat]
    /\ shown \in Nat
    /\ extra \in [Timers -> Nat]

(* The overflow rule counts what it sheds: coalescible_ready is the number *)
(* of coalescible events, at most one for each source and at most the cap. *)
CoalescibleExact ==
    /\ TypeOK
    /\ coal = Cardinality(Level(ready))
    /\ \A i, j \in Level(ready) : ready[i].source = ready[j].source => i = j

(* Completions are counts: no end-of-pipe event queued is ever merged or   *)
(* shed.  A timer's expirations are never merged away, whatever coalescible *)
(* events come between: each one queued is delivered, waits, or has gone   *)
(* with a timer event that an overflow shed, the one way to lose it.       *)
NothingCountedIsLost ==
    /\ CoalescibleExact
    /\ kept["eop"] = taken["eop"] + CountOf(ready, "eop")
    /\ kept["timer"] = taken["timer"] + Expired(ready) + kept["shed"]

(* Pointer tags are delivered once each, in the order they were bound.     *)
TagsInOrder ==
    /\ ptrLast = ptrGot
    /\ LET tags == Of(ready, "ptr")
       IN \A i \in tags : ready[i].data = ptrGot + Cardinality({j \in tags : j <= i})

(* What was registered or armed on a live queue belongs to the queue that  *)
(* lives at the address: delete purges it all.                             *)
RegistrationsDieWithQueue ==
    /\ \A r \in regs : r.stale \/ (mapped /\ r.for = ident)
    /\ armed # NoOne => /\ ev[armed].late \/ (mapped /\ ev[armed].meant = ident)
                        /\ ~cancelled[armed]

(* A queue that reuses a dead one's address gets none of its APR           *)
(* completions, and of its other events only those whose post was already  *)
(* under way at the delete and those of sources that the guest added,      *)
(* armed or triggered by the handle of the dead queue.                     *)
RightQueue ==
    /\ RegistrationsDieWithQueue
    /\ \A i \in DOMAIN ready :
        ready[i].meant # ident => ready[i].late /\ ready[i].source \notin {"ptr", "cnt"}

(* A timer that is deleted, armed again or whose queue is deleted fires at *)
(* most once more, whether it repeats or not.                              *)
CancelledFiresOnce == \A t \in Timers : extra[t] <= 1

(* "The coalesced knote must never regress the completed-up-to counter":   *)
(* a counter posted to a queue is never lower than the one before it.      *)
KnoteNeverRegresses == [][ident' = ident => shown' >= shown]_vars

(* Threads waiting on a queue that is deleted return.                      *)
Stranded == ~mapped /\ \E w \in Waiters : pc[w] = "wait"
DeleteReleasesWaiters == Stranded ~> ~Stranded

(* Every pointer tag bound to a queue is posted to it, unless the queue is *)
(* deleted first.                                                          *)
TagOwed == mapped /\ ptrGot + CountOf(ready, "ptr") < ptrSent
EveryTagIsPosted == TagOwed ~> ~TagOwed

(* The inductive invariant.                                                *)

\* What a thread posts.
Kind(p) == CASE p \in Counters -> "cnt"
             [] p \in Timers   -> "timer"
             [] p = Ptr        -> "ptr"
             [] p = Eop        -> "eop"
             [] p = User       -> "user"
             [] OTHER          -> "flip"

Counted == {"eop", "ptr"}             \* posted one by one, never coalesced
ByIdentity == Counters \union {Ptr}   \* post with the identity they were bound to

LifeExact == mapped => ident > 0 /\ ~deleted /\ ~dying

PcsExact ==
    \A p \in Posters :
        /\ pc[p] # "wait"
        /\ pc[p] = "sleep" => p \in Counters \union Timers
        /\ pc[p] = "forget" => p \in Timers

\* A thread on its way to the queue carries an event of its kind, for the queue that
\* is there, or else either the identity or the delete gives it away.
PostsExact ==
    \A p \in Posters : pc[p] # "idle" =>
        /\ ev[p].source = Kind(p)
        /\ ev[p].coal <=> Kind(p) \notin Counted
        /\ p \in ByIdentity => /\ exp[p] = ev[p].meant /\ exp[p] \in 1 .. ident
                               /\ pc[p] = "post" => exp[p] = ident
        /\ p \notin ByIdentity /\ pc[p] \in {"find", "post"}
              => ev[p].late \/ (mapped /\ ev[p].meant = ident)

QueueExact ==
    \A i \in DOMAIN ready :
        /\ ready[i].coal <=> ready[i].source \notin Counted
        /\ ready[i].meant # ident
              => ready[i].late /\ ready[i].source \notin {"ptr", "cnt"}

\* A thread that has lost its token knows, and has at most the post it had begun.
TimersExact ==
    \A t \in Timers :
        /\ pc[t] = "idle" => armed # t /\ ~cancelled[t]
        /\ pc[t] # "idle" /\ ~cancelled[t] => armed = t
        /\ pc[t] # "forget" => extra[t] = 0
        /\ extra[t] <= 1

\* The tags of the queue in one line: delivered, pending, in the worker's hand and
\* behind it in its batch.
Hand == IF pc[Ptr] \in {"find", "post"} /\ exp[Ptr] = ident THEN 1 ELSE 0
Arrived == ptrGot + CountOf(ready, "ptr")
Owed == ptrSent - Arrived - Hand

TagsInLine ==
    /\ Hand = 1 /\ (mapped \/ pc[Ptr] = "post") => ev[Ptr].data = Arrived + 1
    /\ \A i \in DOMAIN ptrq : ptrq[i].for <= ident
    /\ mapped =>
          /\ Owed \in 0 .. Len(ptrq)
          /\ \A i \in DOMAIN ptrq :
                /\ ptrq[i].for = ident <=> i > Len(ptrq) - Owed
                /\ ptrq[i].for = ident => ptrq[i].data = ptrSent - Len(ptrq) + i

IInv ==
    /\ NothingCountedIsLost /\ TagsInOrder /\ RegistrationsDieWithQueue
    /\ LifeExact /\ PcsExact /\ PostsExact /\ QueueExact
    /\ TimersExact /\ TagsInLine
===============================================================================
