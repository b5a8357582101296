---------------------------- MODULE CompletionWrites ----------------------------
(***************************************************************************)
(* The GPU's completion writes (src/gpu/pm4/command_processor.cpp): the    *)
(* fences, timestamps and resource updates of a submit are queued by the   *)
(* fold and land later, in order; the end-of-pipe event of the submit is   *)
(* posted after them (src/hle/kernel/hle_kernel_time.cpp).                 *)
(*                                                                         *)
(* visible: post-submit visibility is on (SDK 13 and later); fixed before  *)
(* the guest submits.  One action is what a thread does between two        *)
(* releases of the queue's mutex; every change of a waited-for condition   *)
(* is notified to all under that mutex, so a condition wait is a guard.    *)
(* Time is a choice: latent says that release_after is still to come.      *)
(* Writes are numbered as the fold meets them, and nothing is ever put     *)
(* back: the queue, a batch taken off it, and what a submit has retained,  *)
(* is the set of its writes, in the order of their numbers.                *)
(*                                                                         *)
(* From a submit's first copy from an address on, its writes are retained  *)
(* instead, and land in stream order while its work is executed, within    *)
(* the call (src/gpu/execute/gpu_executor.cpp).                            *)
(***************************************************************************)
EXTENDS Integers, Sequences, FiniteSets

CONSTANTS Submitters,   \* guest threads that submit
          Pend, Eop,    \* the two workers
          NoOne,
          Addrs,        \* addresses written, numbers, a word of 4 bytes each
          Labels,       \* those a label is written to
          Width,        \* words a write covers at most
          LabelsApart,  \* guest contract: what is written to a label's word is
                        \*   written to it alone
          MaxSubmits,   \* bound: submits
          MaxWrites,    \* bound: writes
          MaxCopies     \* bound: copies from an address, each the first of its submit
                        \*   or since the last were applied

Workers == {Pend, Eop}
Actors  == Submitters \union Workers

ASSUME CompletionAssumption ==
    /\ IsFiniteSet(Submitters) /\ Pend # Eop /\ Workers \cap Submitters = {}
    /\ NoOne \notin Actors
    /\ IsFiniteSet(Addrs) /\ Addrs \subseteq Nat /\ Labels \subseteq Addrs
    /\ Width \in Nat \ {0} /\ LabelsApart \in BOOLEAN
    /\ MaxSubmits \in Nat /\ MaxWrites \in Nat /\ MaxCopies \in Nat

VARIABLES
    visible,
    q, inflight, active, latent,   \* PendQueue
    depth,      \* per submitter: t_submit_scope_depth
    owner,      \* g_agc_state_mu
    copies,     \* the submit's dma_copies are not empty
    retained,   \* its ordered_memory_effects that have not landed
    pending,    \* EopQueue: completions not yet taken by the worker
    left,       \* completions the worker has taken and not yet posted
    pc,
    hand,       \* per actor: the writes taken off the queue that have not landed
    sub,        \* per submitter: the submit it is in, 0 for none
    mem,        \* per address: the write that landed last, 0 for none
    pulses,     \* history: the submits that asked for their event, in order
    posted,     \* history: events posted
    nsub, nwrite, ncopy, \* history: submits begun, writes and copies met
    raced,      \* history: a drain has found another's write in flight
    crossed     \* history: the addresses for which one write was queued and one
                \*   retained at the same time

queue == <<q, inflight, active, latent>>
eop   == <<pending, left, pulses, posted>>
order == <<copies, retained, crossed, ncopy>>
vars  == <<visible, queue, depth, owner, eop, pc, hand, sub, mem,
           nsub, nwrite, raced, order>>

\* plain: the overlay can tell its value.  Resources are; a RELEASE_MEM of a constant
\* is, one of a counter and an EVENT_WRITE are not.
Writes ==
    [lo : Addrs, hi : Addrs, label : BOOLEAN, plain : BOOLEAN,
     by : 1 .. MaxSubmits, n : 1 .. MaxWrites]

Pcs == {"idle", "lock", "fold", "render", "batch", "execute", "return", "gate",
        "drain", "apply", "post"}

Init ==
    /\ visible \in BOOLEAN
    /\ q = {} /\ inflight = 0 /\ active = 0 /\ latent = FALSE
    /\ depth = [t \in Submitters |-> 0]
    /\ owner = NoOne
    /\ pending = 0 /\ left = 0 /\ pulses = <<>> /\ posted = 0
    /\ pc = [a \in Actors |-> "idle"]
    /\ hand = [a \in Actors |-> {}]
    /\ sub = [t \in Submitters |-> 0]
    /\ mem = [x \in Addrs |-> 0]
    /\ nsub = 0 /\ nwrite = 0
    /\ raced = FALSE
    /\ copies = FALSE /\ retained = {} /\ crossed = {} /\ ncopy = 0

Goto(a, label) == pc' = [pc EXCEPT ![a] = label]

Covers(w, x) == w.lo <= x /\ x <= w.hi
Overlap(v, w) == v.lo <= w.hi /\ w.lo <= v.hi

\* The front of the queue or of a batch.
Front(S) == CHOOSE w \in S : \A v \in S : w.n <= v.n

\* apply_deferred_effect
Land(w) == mem' = [x \in Addrs |-> IF Covers(w, x) THEN w.n ELSE mem[x]]

-------------------------------------------------------------------------------
(* Draining the queue in order: pend_drain_locked.                         *)

\* Where an actor goes when its drain returns.
After(d) == CASE d = Pend -> "idle" [] d = Eop -> "post" [] OTHER -> "fold"

\* Faulty: a drain does not wait for the write another has in flight.
ContinueOvertaking(d, flying) ==
    IF q = {}
    THEN /\ Goto(d, After(d)) /\ inflight' = flying
         /\ hand' = [hand EXCEPT ![d] = {}]
         /\ UNCHANGED <<q, raced>>
    ELSE /\ hand' = [hand EXCEPT ![d] = {Front(q)}]
         /\ q' = q \ {Front(q)}
         /\ inflight' = flying + 1
         /\ Goto(d, "apply")
         /\ UNCHANGED raced

\* From the top of the loop to the next release of the mutex, with `flying`
\* writes in flight: wait for them, or return, or take the next write.
Continue(d, flying) ==
    \/ /\ flying > 0
       /\ Goto(d, "drain")
       /\ inflight' = flying
       /\ hand' = [hand EXCEPT ![d] = {}]
       /\ raced' = TRUE
       /\ UNCHANGED q
    \/ /\ flying = 0 /\ q = {}
       /\ Goto(d, After(d))
       /\ inflight' = 0
       /\ hand' = [hand EXCEPT ![d] = {}]
       /\ UNCHANGED <<q, raced>>
    \/ /\ flying = 0 /\ q # {}
       /\ hand' = [hand EXCEPT ![d] = {Front(q)}]
       /\ q' = q \ {Front(q)}
       /\ inflight' = 1
       /\ Goto(d, "apply")
       /\ UNCHANGED raced

\* Faulty: only the time is waited for.
MayDrainOnTime == ~latent

\* pend_wait_post_submit
MayDrain == active = 0 /\ ~latent

\* prosper_gpu_drain_completion_writes; a submit calls it in the older mode,
\* for a wait of the fold and for the renderer.
Gate(d) ==
    /\ \/ pc[d] = "gate"
       \/ pc[d] = "fold" /\ ~visible
    /\ MayDrain
    /\ Continue(d, inflight)
    /\ UNCHANGED <<visible, active, latent, depth, owner, eop, sub, mem,
                   nsub, nwrite, order>>

\* The wait for inflight = 0 is over; active_submits is not looked at again.
Resume(d) ==
    /\ pc[d] = "drain" /\ inflight = 0
    /\ Continue(d, 0)
    /\ UNCHANGED <<visible, active, latent, depth, owner, eop, sub, mem,
                   nsub, nwrite, order>>

\* Outside the mutex; then the mutex is taken and the loop goes on.
Apply(d) ==
    /\ pc[d] = "apply"
    /\ Land(Front(hand[d]))
    /\ Continue(d, inflight - 1)
    /\ UNCHANGED <<visible, active, latent, depth, owner, eop, sub, nsub, nwrite,
                   order>>

Elapse ==
    /\ latent /\ latent' = FALSE
    /\ UNCHANGED <<visible, q, inflight, active, depth, owner, eop, pc, hand,
                   sub, mem, nsub, nwrite, raced, order>>

-------------------------------------------------------------------------------
(* The scope of a submit call, and the call.                               *)

\* prosper_gpu_submit_scope_begin; then the handler asks for the mutex.
Begin(t) ==
    /\ pc[t] = "idle" /\ nsub < MaxSubmits
    /\ visible => inflight = 0
    /\ IF visible
       THEN depth' = [depth EXCEPT ![t] = @ + 1] /\ active' = active + 1
       ELSE UNCHANGED <<depth, active>>
    /\ nsub' = nsub + 1
    /\ sub' = [sub EXCEPT ![t] = nsub + 1]
    /\ Goto(t, "lock")
    /\ UNCHANGED <<visible, q, inflight, latent, owner, eop, hand, mem,
                   nwrite, raced, order>>

\* prosper_gpu_submit_scope_end, the return hook of every submit import.
EndScope(t) ==
    IF ~visible \/ depth[t] = 0 \/ active = 0
    THEN UNCHANGED <<depth, active, latent>>
    ELSE /\ depth' = [depth EXCEPT ![t] = @ - 1]
         /\ active' = active - 1
         /\ latent' = (latent \/ active = 1)

\* A submit import that rejects its arguments before it opens a scope.
Reject(t) ==
    /\ pc[t] = "idle"
    /\ EndScope(t)
    /\ UNCHANGED <<visible, q, inflight, owner, eop, pc, hand, sub, mem,
                   nsub, nwrite, raced, order>>

Lock(t) ==
    /\ pc[t] = "lock" /\ owner = NoOne
    /\ owner' = t
    /\ Goto(t, "fold")
    /\ UNCHANGED <<visible, queue, depth, eop, hand, sub, mem, nsub, nwrite, raced,
                   order>>

\* What has been taken off the queue and has not landed is still to come, too.
Queued == q \union UNION {hand[a] : a \in Actors}

\* The addresses of w for which others are to land on the other way.
Meets(w, others) == {x \in Addrs : Covers(w, x) /\ \E v \in others : Covers(v, x)}

\* A label (RELEASE_MEM, EVENT_WRITE) or a resource (WRITE_DATA, an immediate DMA): to
\* the queue with pend_enqueue or, behind a copy, to the submit's own effects.
Packet(t, w) ==
    /\ pc[t] = "fold" /\ nwrite < MaxWrites
    /\ nwrite' = nwrite + 1
    /\ IF copies
       THEN /\ retained' = retained \union {w}
            /\ crossed' = crossed \union Meets(w, Queued)
            /\ UNCHANGED q
       ELSE /\ q' = q \union {w}
            /\ crossed' = crossed \union Meets(w, retained)
            /\ UNCHANGED retained
    /\ UNCHANGED <<visible, inflight, active, latent, depth, owner, eop, pc,
                   hand, sub, mem, nsub, raced, copies, ncopy>>

\* DMA_DATA from an address.  The first of a submit asks for a renderer's drain, in
\* the older mode for a full one.
Copy(t) ==
    /\ pc[t] = "fold" /\ ~copies /\ ncopy < MaxCopies
    /\ copies' = TRUE
    /\ ncopy' = ncopy + 1
    /\ Goto(t, IF visible THEN "render" ELSE "gate")
    /\ UNCHANGED <<visible, queue, depth, owner, eop, hand, sub, mem, nsub, nwrite,
                   raced, retained, crossed>>

\* apply_retained_dma_copies, for a packet that reads what a copy writes.  What the
\* submit has retained stays so, what follows is queued again.
DropCopies(t) ==
    /\ pc[t] = "fold" /\ copies
    /\ copies' = FALSE
    /\ UNCHANGED <<visible, queue, depth, owner, eop, pc, hand, sub, mem, nsub,
                   nwrite, raced, retained, crossed, ncopy>>

\* Faulty: a resource may pass the label it clears.
PassesAny(w) == ~w.label

\* A resource that no queued label overlaps.
RendererWrite(w) ==
    ~w.label /\ \A v \in q : v.label => ~Overlap(v, w)

\* prosper_gpu_drain_renderer_writes with post-submit visibility: take all
\* that are ready in one batch, and look again after it.
Extract(t) ==
    /\ pc[t] \in {"fold", "render"} /\ visible /\ inflight = 0
    /\ LET ready == {w \in q : RendererWrite(w)}
       IN IF ready = {}
          THEN Goto(t, "fold") /\ UNCHANGED <<q, inflight, hand>>
          ELSE /\ q' = q \ ready
               /\ inflight' = inflight + 1
               /\ hand' = [hand EXCEPT ![t] = ready]
               /\ Goto(t, "batch")
    /\ UNCHANGED <<visible, active, latent, depth, owner, eop, sub, mem,
                   nsub, nwrite, raced, order>>

\* One write of the batch; after the last the queue is looked at again.
ApplyBatch(t) ==
    /\ pc[t] = "batch"
    /\ Land(Front(hand[t]))
    /\ hand' = [hand EXCEPT ![t] = @ \ {Front(@)}]
    /\ IF hand[t] = {Front(hand[t])}
       THEN inflight' = inflight - 1 /\ Goto(t, "render")
       ELSE UNCHANGED <<inflight, pc>>
    /\ UNCHANGED <<visible, q, active, latent, depth, owner, eop, sub, nsub, nwrite, raced,
                   order>>

\* Faulty: the first match ends the search.
OverlayFirst(x, y) ==
    LET at == {w \in q : w.plain /\ w.lo = x /\ Covers(w, y)}
    IN IF at = {} THEN mem[y] ELSE CHOOSE n \in {w.n : w \in at} : \A w \in at : n <= w.n

\* pend_overlay_qword: what a wait for the label at x reads in its word y, by the
\* number of the write.  Only a write that begins at x counts, and only for the words
\* that it covers.
Overlay(x, y) ==
    LET at == {w \in q : w.plain /\ w.lo = x /\ Covers(w, y)}
    IN IF at = {} THEN mem[y] ELSE CHOOSE n \in {w.n : w \in at} : \A w \in at : w.n <= n

\* A submit that a dependency makes dma_execution_rejected: nothing of it is executed,
\* and there is no pulse.  Then the mutex is released.
Decline(t) ==
    /\ pc[t] = "fold"
    /\ copies' = FALSE /\ retained' = {}
    /\ owner' = NoOne
    /\ Goto(t, "return")
    /\ UNCHANGED <<visible, queue, depth, eop, hand, sub, mem, nsub, nwrite, raced,
                   crossed, ncopy>>

\* execute_submit_work.  Without a draw, a dispatch (work) or a copy there is nothing
\* to execute: what may have been retained never lands.
Execute(t, work) ==
    /\ pc[t] = "fold"
    /\ retained' = IF work \/ copies THEN retained ELSE {}
    /\ copies' = FALSE
    /\ Goto(t, "execute")
    /\ UNCHANGED <<visible, queue, depth, owner, eop, hand, sub, mem, nsub, nwrite,
                   raced, crossed, ncopy>>

\* execute_ordered_memory_effect, in stream order
LandRetained(t) ==
    /\ pc[t] = "execute" /\ retained # {}
    /\ Land(Front(retained))
    /\ retained' = retained \ {Front(retained)}
    /\ UNCHANGED <<visible, queue, depth, owner, eop, pc, hand, sub, nsub, nwrite,
                   raced, copies, crossed, ncopy>>

\* submit_completion_pulse -> prosper_eq_trigger_eop; then the mutex is released.
Pulse(t) ==
    /\ pc[t] = "execute" /\ retained = {}
    /\ pending' = pending + 1 /\ pulses' = Append(pulses, sub[t])
    /\ owner' = NoOne
    /\ Goto(t, "return")
    /\ UNCHANGED <<visible, queue, depth, left, posted, hand, sub, mem, nsub,
                   nwrite, raced, order>>

Return(t) ==
    /\ pc[t] = "return"
    /\ EndScope(t)
    /\ sub' = [sub EXCEPT ![t] = 0]
    /\ Goto(t, "idle")
    /\ UNCHANGED <<visible, q, inflight, owner, eop, hand, mem, nsub,
                   nwrite, raced, order>>

-------------------------------------------------------------------------------
(* The workers.                                                            *)

\* Faulty: writes are left for the event worker once it has drained.
PendWakeFirst ==
    /\ pc[Pend] = "idle" /\ q # {} /\ posted = 0
    /\ Goto(Pend, IF visible THEN "gate" ELSE "drain")
    /\ UNCHANGED <<visible, queue, depth, owner, eop, hand, sub, mem, nsub,
                   nwrite, raced, order>>

\* pend_worker; in the older mode it naps and does not look at the gate.
PendWake ==
    /\ pc[Pend] = "idle" /\ q # {}
    /\ Goto(Pend, IF visible THEN "gate" ELSE "drain")
    /\ UNCHANGED <<visible, queue, depth, owner, eop, hand, sub, mem,
                   nsub, nwrite, raced, order>>

\* Faulty: the first event of a burst is posted without a drain.
EopTakeNoDrain ==
    /\ pc[Eop] = "idle" /\ pending > 0
    /\ left' = pending /\ pending' = 0
    /\ Goto(Eop, "post")
    /\ UNCHANGED <<visible, queue, depth, owner, pulses, posted, hand, sub, mem,
                   nsub, nwrite, raced, order>>

\* eop_worker takes all that is pending, then naps.
EopTake ==
    /\ pc[Eop] = "idle" /\ pending > 0
    /\ left' = pending /\ pending' = 0
    /\ Goto(Eop, "gate")
    /\ UNCHANGED <<visible, queue, depth, owner, pulses, posted, hand, sub, mem, nsub,
                   nwrite, raced, order>>

\* eop_post_now, its drain done.
EopPost ==
    /\ pc[Eop] = "post"
    /\ posted' = posted + 1
    /\ left' = left - 1
    /\ Goto(Eop, IF left = 1 THEN "idle" ELSE "gate")
    /\ UNCHANGED <<visible, queue, depth, owner, pending, pulses, hand, sub, mem, nsub,
                   nwrite, raced, order>>

\* No more than the one word, where that is a label's.
Apart(w) == \A x \in Labels : Covers(w, x) => w.lo = w.hi

EndFold(t) == Decline(t) \/ \E work \in BOOLEAN : Execute(t, work)

Submit(t) ==
    \/ Begin(t) \/ Reject(t) \/ Lock(t) \/ Extract(t) \/ ApplyBatch(t)
    \/ Copy(t) \/ DropCopies(t)
    \/ EndFold(t) \/ LandRetained(t) \/ Pulse(t) \/ Return(t)
    \/ \E lo, hi \in Addrs, label, plain \in BOOLEAN :
         LET w == [lo |-> lo, hi |-> hi, label |-> label, plain |-> plain,
                   by |-> sub[t], n |-> nwrite + 1]
         IN /\ lo <= hi /\ hi < lo + Width
            /\ IF label THEN lo \in Labels ELSE plain
            /\ LabelsApart => Apart(w)
            /\ Packet(t, w)

Drain(d) == Gate(d) \/ Resume(d) \/ Apply(d)

Next ==
    \/ \E t \in Submitters : Submit(t)
    \/ \E d \in Actors : Drain(d)
    \/ PendWake \/ EopTake \/ EopPost \/ Elapse

Spec == Init /\ [][Next]_vars

Proceed(t) ==
    \/ Lock(t) \/ Extract(t) \/ ApplyBatch(t)
    \/ EndFold(t) \/ LandRetained(t) \/ Pulse(t) \/ Return(t) \/ Drain(t)

\* A submit's packets come to an end and its call returns; the workers and
\* the clock run.
Fairness ==
    /\ \A t \in Submitters : WF_vars(Proceed(t))
    /\ WF_vars(PendWake \/ Drain(Pend))
    /\ WF_vars(EopTake \/ EopPost \/ Drain(Eop))
    /\ WF_vars(Elapse)

FairSpec == Spec /\ Fairness

-------------------------------------------------------------------------------
(* Properties.                                                             *)

InScope(s) == \E t \in Submitters : sub[t] = s /\ depth[t] > 0
Outstanding == Queued \union retained

TypeOK ==
    /\ visible \in BOOLEAN
    /\ q \subseteq Writes
    /\ inflight \in Nat /\ active \in Nat
    /\ latent \in BOOLEAN
    /\ depth \in [Submitters -> {0, 1}]
    /\ owner \in Submitters \union {NoOne}
    /\ pending \in Nat /\ left \in Nat /\ posted \in Nat
    /\ pulses \in Seq(1 .. MaxSubmits)
    /\ pc \in [Actors -> Pcs]
    /\ hand \in [Actors -> SUBSET Writes]
    /\ sub \in [Submitters -> 0 .. MaxSubmits]
    /\ mem \in [Addrs -> 0 .. MaxWrites]
    /\ nsub \in 0 .. MaxSubmits /\ nwrite \in 0 .. MaxWrites
    /\ raced \in BOOLEAN
    /\ copies \in BOOLEAN /\ retained \subseteq Writes /\ crossed \subseteq Addrs
    /\ ncopy \in 0 .. MaxCopies

(* At most one actor holds writes that have not landed, inflight says so,  *)
(* and active_submits counts the calls inside their scope: a rejected call *)
(* or a drain on another thread moves neither.                             *)
CountsAgree ==
    /\ TypeOK
    /\ inflight = Cardinality({a \in Actors : hand[a] # {}})
    /\ inflight <= 1
    /\ active = Cardinality({t \in Submitters : depth[t] > 0})
    /\ pending + left + posted = Len(pulses)

(* The end-of-pipe event never overtakes the writes of its submit: when    *)
(* the k-th event is posted, no write of the k-th submit to pulse is still *)
(* to land, and with post-submit visibility its call has returned.         *)
EventAfterWrites ==
    \A k \in 1 .. posted :
        /\ \A w \in Outstanding : w.by # pulses[k]
        /\ visible => ~InScope(pulses[k])

(* Where labels are apart, writes to one address land in the order the fold *)
(* met them, whoever drains them ("writes land STRICTLY IN QUEUE ORDER"),  *)
(* however the renderer's batches pass labels, unless one of them was      *)
(* retained behind a copy while another was queued for the address.        *)
LandInOrder == [][\A x \in Addrs \ crossed : mem'[x] >= mem[x]]_vars

(* The same without exception.  It fails: a label queued before a copy is  *)
(* left in the queue at the copy and passed by what is retained after it,  *)
(* although "everything queued before the first general copy is its        *)
(* ordered prefix. Land that prefix now"; and what is queued after a copy  *)
(* was applied early may land before what that copy had retained.          *)
AlwaysInOrder == [][\A x \in Addrs : mem'[x] >= mem[x]]_vars

(* "Fence writes stay private until the import return checkpoint": no      *)
(* drain takes up a label whose submit call has not returned.              *)
QueuePrivate ==
    visible => \A a \in Actors : \A w \in hand[a] : w.label => ~InScope(w.by)

(* The same of every label.  It fails: those retained behind a copy land   *)
(* in the call.                                                            *)
PrivateUntilReturn ==
    /\ QueuePrivate
    /\ visible => \A t \in Submitters : pc[t] = "execute" => \A w \in retained : ~w.label

(* As long as no drain has ever found another's write in flight, the labels *)
(* of the queue are private until the return, and no worker lands anything *)
(* at all of a submit inside its call.  Labels retained behind a copy are  *)
(* not in the queue, and land in the call.                                 *)
PrivateUnlessRaced ==
    visible /\ ~raced =>
        /\ QueuePrivate
        /\ \A d \in Workers : \A w \in hand[d] : ~InScope(w.by)

(* A wait of the fold for the label at x reads, without publishing it, the *)
(* newest write queued for its word y, none being lost between the queue   *)
(* and memory, if the overlay knows those writes: they begin at x and are  *)
(* plain.                                                                  *)
FoldSeesNewest ==
    visible /\ ~raced =>
        \A t \in Submitters : pc[t] = "fold" /\ depth[t] > 0 =>
            \A x, y \in Addrs :
                LET at == {w \in Queued : Covers(w, y)}
                IN (\A w \in at : w.plain /\ w.lo = x)
                      => \A w \in at : w.n <= Overlay(x, y)

(* The same of all writes.  It fails: an EVENT_WRITE is passed over.       *)
FoldSeesAll ==
    visible /\ ~raced =>
        \A t \in Submitters : pc[t] = "fold" /\ depth[t] > 0 =>
            \A x \in Addrs : \A w \in Queued : Covers(w, x) => w.n <= Overlay(x, x)

(* What a submit wrote lands, unless the submit is declined.  It fails for *)
(* what was retained behind a copy that a later packet had applied at once, *)
(* when nothing is left to execute.                                        *)
NothingDropped ==
    [][\A w \in Outstanding \ Outstanding' :
          \/ mem'[w.lo] = w.n
          \/ \E t \in Submitters :
                sub[t] = w.by /\ pc[t] = "fold" /\ pc'[t] = "return"]_vars

(* Once submits stop arriving every write queued lands, what is retained   *)
(* lands or is dropped, and every pulse becomes an event, whether or not   *)
(* the submit that queued the write pulsed: no drain waits for ever for    *)
(* another, nor for the gate.                                              *)
Owed == Outstanding # {} \/ posted < Len(pulses)
AllIsDelivered == Owed ~> ~Owed

-------------------------------------------------------------------------------
(* The inductive invariant.                                                *)

\* Where a submitter holds g_agc_state_mu.
Folding == {"fold", "render", "batch", "execute", "gate", "drain", "apply"}

\* Where each actor may be: the renderer's batches are of the newer mode, a
\* submit's own drains of the older.
Places ==
    /\ pc[Pend] \in {"idle", "gate", "drain", "apply"}
    /\ pc[Eop] \in {"idle", "gate", "drain", "apply", "post"}
    /\ \A t \in Submitters :
         /\ pc[t] \in {"idle", "lock", "return"} \union Folding
         /\ visible => pc[t] \notin {"gate", "drain", "apply"}
         /\ ~visible => pc[t] \notin {"render", "batch"}
         /\ owner = t <=> pc[t] \in Folding

\* What an actor has taken it has not landed, and one at a time has taken anything.
OneInFlight ==
    /\ \A a \in Actors : hand[a] # {} <=> pc[a] \in {"apply", "batch"}
    /\ \A a, b \in Actors : hand[a] # {} /\ hand[b] # {} => a = b
    /\ inflight = IF \E a \in Actors : hand[a] # {} THEN 1 ELSE 0

ScopeExact ==
    /\ \A t \in Submitters : depth[t] = IF visible /\ pc[t] # "idle" THEN 1 ELSE 0
    /\ active = Cardinality({t \in Submitters : depth[t] > 0})

\* Submits and writes are numbered apart; who has pulsed queues no more.
Numbered ==
    /\ \A t \in Submitters : sub[t] <= nsub /\ (sub[t] # 0 <=> pc[t] # "idle")
    /\ \A t, u \in Submitters : sub[t] = sub[u] /\ sub[t] # 0 => t = u
    /\ \A k \in DOMAIN pulses :
         pulses[k] <= nsub /\ \A t \in Submitters : sub[t] = pulses[k] => pc[t] = "return"
    /\ \A w \in Outstanding : w.n <= nwrite
    /\ \A v, w \in Outstanding : v.n = w.n => v = w

\* What is retained is of the submit that holds the mutex.
RetainedIsMine ==
    \A w \in retained : \E t \in Submitters : owner = t /\ w.by = sub[t]

\* The events posted, and the next one if the worker has come to one of the labels.
Through(labels) == posted + (IF pc[Eop] \in labels THEN 1 ELSE 0)

\* Past the gate the next event's submit is known to have returned, past the drain
\* its writes are known to have landed.
EventsExact ==
    /\ pending + left + posted = Len(pulses)
    /\ left > 0 <=> pc[Eop] # "idle"
    /\ \A k \in 1 .. Through({"post"}) : \A w \in Outstanding : w.by # pulses[k]
    /\ visible => \A k \in 1 .. Through({"drain", "apply", "post"}) : ~InScope(pulses[k])

\* A worker has taken a write only when no submit was in progress, unless it had
\* to wait for another's; the renderer's batches hold no labels.
TakenOutside ==
    visible =>
        /\ \A t \in Submitters : \A w \in hand[t] : ~w.label
        /\ \A d \in Workers :
             /\ pc[d] = "drain" => raced
             /\ pc[d] = "apply" /\ ~raced => active = 0

IInv ==
    /\ TypeOK
    /\ Places
    /\ OneInFlight
    /\ ScopeExact
    /\ Numbered
    /\ EventsExact
    /\ TakenOutside
    /\ RetainedIsMine

\* With labels apart: what an actor has taken comes before what is still queued for the
\* same address; and but for the addresses crossed, what is still to land for an address is
\* all queued or all retained, and comes after what has landed.
InOrder ==
    /\ \A x \in Addrs : mem[x] <= nwrite
    /\ \A w \in Outstanding : w.lo <= w.hi /\ Apart(w) /\ (w.label => w.lo \in Labels)
    /\ \A a \in Actors : \A w \in hand[a] : \A v \in q : \A x \in Addrs :
         Covers(w, x) /\ Covers(v, x) => w.n < v.n
    /\ \A w \in Outstanding : \A x \in Addrs \ crossed : Covers(w, x) => mem[x] <= w.n
    /\ \A v \in retained : \A w \in Queued : \A x \in Addrs :
         Covers(v, x) /\ Covers(w, x) => x \in crossed

IInvApart == IInv /\ InOrder

===============================================================================
