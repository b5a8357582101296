------------------------- MODULE CompletionWritesProofs -------------------------
(***************************************************************************)
(* Theorems about the completion writes: the counts agree with what they   *)
(* count, an end-of-pipe event comes after the writes of its submit, queued *)
(* labels stay private while no drain has met another, a wait of the fold  *)
(* sees the newest write that it can, and, with labels apart, writes land  *)
(* in order unless one was retained behind a copy.                         *)
(***************************************************************************)
EXTENDS CompletionWrites, FiniteSetTheorems, SequenceTheorems,
        WellFoundedInduction, TLAPS

-------------------------------------------------------------------------------
(* Sets of numbers, of writes, and of threads.                             *)

\* A set of natural numbers has a least one.
LEMMA Least ==
  ASSUME NEW S, S \subseteq Nat, S # {}
  PROVE  \E m \in S : \A k \in S : m <= k
<1>1. PICK x \in S : \A y \in S : <<y, x>> \notin OpToRel(<, Nat)
  BY NatLessThanWellFounded, WFMin
<1>2. \A y \in S : <<y, x>> \in Nat \X Nat
  OBVIOUS
<1>3. \A y \in S : ~ (y < x)
  BY <1>1, <1>2 DEF OpToRel
<1>4. QED
  BY <1>3

\* A bounded one has a greatest.
LEMMA Greatest ==
  ASSUME NEW S, NEW b \in Nat, S \subseteq 0 .. b, S # {}
  PROVE  \E m \in S : \A k \in S : k <= m
<1> DEFINE R == {b - k : k \in S}
<1>1. \A k \in S : k \in Nat /\ b - k \in Nat
  BY SMT
<1>2. R \subseteq Nat /\ R # {}
  BY <1>1
<1>3. PICK r \in R : \A k \in R : r <= k
  <2> HIDE DEF R
  <2> QED
    BY <1>2, Least
<1>4. PICK m \in S : r = b - m
  OBVIOUS
<1>5. \A k \in S : b - k >= b - m
  BY <1>3, <1>4
<1>6. QED
  BY <1>1, <1>4, <1>5

\* The front of a queue or a batch is in it, and nothing in it is older.
LEMMA FrontIsFirst ==
  ASSUME NEW S, S \subseteq Writes, S # {}
  PROVE  Front(S) \in S /\ \A v \in S : Front(S).n <= v.n
<1> DEFINE Ns == {w.n : w \in S}
<1>1. Ns \subseteq Nat /\ Ns # {}
  BY DEF Writes
<1>2. PICK m \in Ns : \A k \in Ns : m <= k
  <2> HIDE DEF Ns
  <2> QED
    BY <1>1, Least
<1>3. PICK w \in S : w.n = m
  OBVIOUS
<1>4. \A v \in S : w.n <= v.n
  BY <1>2, <1>3
<1>5. QED
  BY <1>3, <1>4 DEF Front

\* What is queued is in the queue or in somebody's hand, what is outstanding is queued
\* or retained.
LEMMA OutstandingIs ==
  \A w : /\ w \in Queued <=> w \in q \/ \E a \in Actors : w \in hand[a]
         /\ w \in Outstanding <=> w \in Queued \/ w \in retained
BY DEF Outstanding, Queued

\* The submitters and the workers are different threads.
LEMMA ActorsApart ==
  /\ Pend # Eop /\ Pend \in Actors /\ Eop \in Actors /\ Workers = {Pend, Eop}
  /\ \A t \in Submitters : t \in Actors /\ t # Pend /\ t # Eop /\ t # NoOne
  /\ \A a \in Actors : a \in Submitters \/ a = Pend \/ a = Eop
BY CompletionAssumption DEF Actors, Workers

\* Where a drain ends.
LEMMA AfterIs ==
  /\ After(Pend) = "idle" /\ After(Eop) = "post"
  /\ \A t \in Submitters : After(t) = "fold"
BY ActorsApart DEF After

\* A call more or less in its scope changes their number by one.
LEMMA CountScopes ==
  ASSUME NEW t \in Submitters, NEW S, NEW T, S \subseteq Submitters, T \subseteq Submitters
  PROVE  /\ Cardinality(S) \in Nat
         /\ t \notin S /\ T = S \union {t} => Cardinality(T) = Cardinality(S) + 1
         /\ t \in S /\ T = S \ {t} => Cardinality(T) = Cardinality(S) - 1
         /\ t \in S => Cardinality(S) > 0
<1>1. IsFiniteSet(S) /\ IsFiniteSet(T)
  BY FS_Subset, CompletionAssumption
<1>2. Cardinality(S) \in Nat
  BY <1>1, FS_CardinalityType
<1>3. t \in S => Cardinality(S) > 0
  BY <1>1, <1>2, FS_EmptySet
<1>4. QED
  BY <1>1, <1>2, <1>3, FS_AddElement, FS_RemoveElement

-------------------------------------------------------------------------------
(* Every step keeps the invariant.                                         *)

\* Init establishes it.
LEMMA InitIInv == Init => IInv
<1> SUFFICES ASSUME Init PROVE IInv
  OBVIOUS
<1> USE CompletionAssumption DEF Init
<1>1. TypeOK
  <2>1. visible \in BOOLEAN /\ latent \in BOOLEAN /\ raced \in BOOLEAN /\ copies \in BOOLEAN
    OBVIOUS
  <2>2. pulses \in Seq(1 .. MaxSubmits)
    OBVIOUS
  <2>3. q \subseteq Writes /\ hand \in [Actors -> SUBSET Writes]
    OBVIOUS
  <2>4. pc \in [Actors -> Pcs] /\ owner \in Submitters \union {NoOne}
    BY DEF Pcs
  <2>5. /\ depth \in [Submitters -> {0, 1}]
        /\ sub \in [Submitters -> 0 .. MaxSubmits] /\ mem \in [Addrs -> 0 .. MaxWrites]
        /\ nsub \in 0 .. MaxSubmits /\ nwrite \in 0 .. MaxWrites
    OBVIOUS
  <2>6. {inflight, active, pending, left, posted} \subseteq Nat
    OBVIOUS
  <2>7. retained \subseteq Writes /\ crossed \subseteq Addrs /\ ncopy \in 0 .. MaxCopies
    OBVIOUS
  <2>8. QED
    BY <2>1, <2>2, <2>3, <2>4, <2>5, <2>6, <2>7 DEF TypeOK
<1>2. Outstanding = {}
  BY DEF Outstanding, Queued
<1>3. {t \in Submitters : depth[t] > 0} = {}
  OBVIOUS
<1>4. ScopeExact
  BY <1>3, ActorsApart, FS_EmptySet DEF ScopeExact
<1>5. Places /\ OneInFlight /\ TakenOutside
  BY ActorsApart DEF Places, OneInFlight, TakenOutside, Folding
<1>6. Numbered
  BY <1>2, ActorsApart DEF Numbered
<1>7. EventsExact /\ RetainedIsMine
  BY ActorsApart DEF EventsExact, Through, RetainedIsMine
<1>8. QED
  BY <1>1, <1>4, <1>5, <1>6, <1>7 DEF IInv

\* A submit opens its scope when nothing is in flight.
LEMMA BeginStep == ASSUME IInv, NEW t \in Submitters, Begin(t) PROVE IInv'
<1> USE CompletionAssumption, ActorsApart DEF IInv
<1>1. /\ pc[t] = "idle" /\ nsub < MaxSubmits /\ nsub' = nsub + 1
      /\ sub' = [sub EXCEPT ![t] = nsub + 1] /\ pc' = [pc EXCEPT ![t] = "lock"]
      /\ UNCHANGED <<visible, q, inflight, latent, owner, pending, left, pulses, posted,
                     hand, mem, nwrite, raced,
                     copies, retained, crossed, ncopy>>
  BY DEF Begin, Goto, eop, order
<1>2. pc \in [Actors -> Pcs] /\ sub \in [Submitters -> 0 .. MaxSubmits] /\ nsub \in Nat
  BY DEF TypeOK
<1>3. /\ sub'[t] = nsub + 1 /\ pc'[t] = "lock"
      /\ \A u \in Submitters : u # t => sub'[u] = sub[u]
      /\ \A a \in Actors : a # t => pc'[a] = pc[a]
  BY <1>1, <1>2
<1>4. Outstanding' = Outstanding
  BY <1>1 DEF Outstanding, Queued
<1>5. ScopeExact'
  <2> DEFINE S == {u \in Submitters : depth[u] > 0}
  <2>1. depth \in [Submitters -> {0, 1}] /\ active = Cardinality(S) /\ t \notin S
    BY <1>1 DEF TypeOK, ScopeExact
  <2>2. CASE visible
    <3>1. depth' = [depth EXCEPT ![t] = @ + 1] /\ active' = active + 1
      BY <2>2 DEF Begin
    <3>2. depth[t] = 0 /\ depth'[t] = 1 /\ \A u \in Submitters : u # t => depth'[u] = depth[u]
      BY <3>1, <2>1, <1>1 DEF ScopeExact
    <3>3. S' = S \union {t}
      BY <3>2, <2>1
    <3>4. active' = Cardinality(S')
      <4> HIDE DEF S
      <4>1. S \subseteq Submitters /\ S' \subseteq Submitters
        BY DEF S
      <4> QED
        BY <4>1, <3>1, <3>3, <2>1, CountScopes
    <3>5. QED
      BY <3>2, <3>4, <1>1, <1>3, <2>2 DEF ScopeExact
  <2>3. CASE ~visible
    <3>1. depth' = depth /\ active' = active
      BY <2>3 DEF Begin
    <3>2. QED
      BY <3>1, <1>1, <1>3, <2>3 DEF ScopeExact
  <2>4. QED
    BY <2>2, <2>3
<1>6. TypeOK'
  <2>1. depth' \in [Submitters -> {0, 1}] /\ active' \in Nat
    <3>1. depth[t] = 0 /\ depth \in [Submitters -> {0, 1}] /\ active \in Nat
      BY <1>1 DEF ScopeExact, TypeOK
    <3>2. QED
      BY <3>1 DEF Begin
  <2>2. sub' \in [Submitters -> 0 .. MaxSubmits] /\ nsub' \in 0 .. MaxSubmits
    BY <1>1 DEF TypeOK
  <2>3. pc' \in [Actors -> Pcs]
    BY <1>1 DEF TypeOK, Pcs
  <2>4. QED
    BY <1>1, <2>1, <2>2, <2>3 DEF TypeOK
<1>7. Places'
  BY <1>1, <1>3 DEF Places, Folding
<1>8. OneInFlight'
  BY <1>1, <1>3 DEF OneInFlight
<1>9. Numbered'
  <2>1. \A u \in Submitters : sub'[u] <= nsub' /\ (sub'[u] # 0 <=> pc'[u] # "idle")
    BY <1>1, <1>2, <1>3 DEF Numbered
  <2>2. \A u, v \in Submitters : sub'[u] = sub'[v] /\ sub'[u] # 0 => u = v
    BY <1>1, <1>2, <1>3 DEF Numbered
  <2>3. \A k \in DOMAIN pulses :
          pulses[k] <= nsub' /\ \A u \in Submitters : sub'[u] = pulses[k] => pc'[u] = "return"
    <3>1. \A k \in DOMAIN pulses : pulses[k] \in Nat
      BY ElementOfSeq DEF TypeOK
    <3>2. QED
      BY <3>1, <1>1, <1>2, <1>3 DEF Numbered
  <2>4. QED
    BY <2>1, <2>2, <2>3, <1>1, <1>4 DEF Numbered
<1>10. EventsExact'
  <2>1. \A labels : Through(labels)' = Through(labels)
    BY <1>1, <1>3 DEF Through
  <2>2. visible => \A k \in 1 .. Through({"drain", "apply", "post"}) : ~InScope(pulses[k])'
    <3> SUFFICES ASSUME visible, NEW k \in 1 .. Through({"drain", "apply", "post"})
                 PROVE  ~InScope(pulses[k])'
      OBVIOUS
    <3>1. k \in DOMAIN pulses
      BY DEF EventsExact, Through, TypeOK
    <3>2. pulses[k] # nsub + 1
      BY <3>1, <1>2, ElementOfSeq DEF Numbered, TypeOK
    <3>3. \A u \in Submitters : u # t => depth'[u] = depth[u]
      BY DEF Begin, TypeOK
    <3>4. QED
      BY <3>2, <3>3, <1>1, <1>3 DEF EventsExact, InScope
  <2>3. QED
    BY <2>1, <2>2, <1>1, <1>3, <1>4 DEF EventsExact
<1>11. TakenOutside'
  <2>1. visible => \A a \in Actors : hand[a] = {}
    BY DEF Begin, OneInFlight
  <2>2. QED
    BY <2>1, <1>1, <1>3 DEF TakenOutside, OneInFlight
<1>12. RetainedIsMine'
  <2>1. owner # t
    BY <1>1 DEF Places, Folding
  <2>2. QED
    BY <2>1, <1>1, <1>3 DEF RetainedIsMine
<1>13. QED
  BY <1>5, <1>6, <1>7, <1>8, <1>9, <1>10, <1>11, <1>12

\* A rejected call leaves everything as it is.
LEMMA RejectStep == ASSUME IInv, NEW t \in Submitters, Reject(t) PROVE UNCHANGED vars
<1>1. depth[t] = 0
  BY DEF IInv, Reject, ScopeExact
<1>2. QED
  BY <1>1 DEF Reject, EndScope, vars, queue, eop, order

\* The mutex is free, so nobody folds.
LEMMA LockStep == ASSUME IInv, NEW t \in Submitters, Lock(t) PROVE IInv'
<1> USE CompletionAssumption, ActorsApart DEF IInv
<1>1. /\ pc[t] = "lock" /\ owner = NoOne /\ owner' = t /\ pc' = [pc EXCEPT ![t] = "fold"]
      /\ UNCHANGED <<visible, q, inflight, active, latent, depth, pending, left, pulses,
                     posted, hand, sub, mem, nsub, nwrite, raced,
                     copies, retained, crossed, ncopy>>
  BY DEF Lock, Goto, eop, queue, order
<1>2. pc \in [Actors -> Pcs]
  BY DEF TypeOK
<1>3. pc'[t] = "fold" /\ \A a \in Actors : a # t => pc'[a] = pc[a]
  BY <1>1, <1>2
<1>4. Outstanding' = Outstanding
  BY <1>1 DEF Outstanding, Queued
<1>5. TypeOK'
  BY <1>1 DEF TypeOK, Pcs
<1>6. Places'
  BY <1>1, <1>3 DEF Places, Folding
<1>7. OneInFlight' /\ ScopeExact' /\ TakenOutside'
  BY <1>1, <1>3 DEF OneInFlight, ScopeExact, TakenOutside
<1>8. Numbered'
  BY <1>1, <1>3, <1>4 DEF Numbered
<1>9. EventsExact'
  BY <1>1, <1>3, <1>4 DEF EventsExact, Through, InScope
<1>10. RetainedIsMine'
  BY <1>1 DEF RetainedIsMine
<1>11. QED
  BY <1>5, <1>6, <1>7, <1>8, <1>9, <1>10

\* A write joins the queue, or what is retained, under a number of its own, for a submit
\* that has not pulsed.
LEMMA PacketStep ==
  ASSUME IInv, NEW t \in Submitters, NEW w \in [lo : Addrs, hi : Addrs, label : BOOLEAN,
                                                plain : BOOLEAN, by : {sub[t]},
                                                n : {nwrite + 1}],
         Packet(t, w)
  PROVE  IInv'
<1> USE CompletionAssumption, ActorsApart DEF IInv
<1>1. /\ pc[t] = "fold" /\ nwrite < MaxWrites /\ nwrite' = nwrite + 1
      /\ UNCHANGED <<visible, inflight, active, latent, depth, owner, pending, left, pulses,
                     posted, pc, hand, sub, mem, nsub, raced, copies, ncopy>>
  BY DEF Packet, eop
<1>2. sub[t] \in 1 .. MaxSubmits /\ nwrite \in Nat /\ owner = t
  BY <1>1 DEF TypeOK, Numbered, Places, Folding
<1>3. w \in Writes /\ w.n = nwrite + 1 /\ w.by = sub[t]
  BY <1>1, <1>2 DEF Writes
<1>4. /\ q' \subseteq q \union {w} /\ retained' \subseteq retained \union {w}
      /\ Outstanding' = Outstanding \union {w}
      /\ crossed' \subseteq Addrs
  BY <1>1 DEF Packet, Outstanding, Queued, TypeOK, Meets
<1>5. TypeOK'
  <2>1. q' \subseteq Writes /\ retained' \subseteq Writes /\ nwrite' \in 0 .. MaxWrites
    BY <1>1, <1>2, <1>3, <1>4 DEF TypeOK
  <2>2. QED
    BY <1>1, <1>4, <2>1 DEF TypeOK
<1>6. Places' /\ OneInFlight' /\ ScopeExact' /\ TakenOutside' /\ RetainedIsMine'
  BY <1>1, <1>2, <1>3, <1>4
     DEF Places, OneInFlight, ScopeExact, TakenOutside, RetainedIsMine
<1>7. \A v \in Outstanding : v.n <= nwrite /\ v.n \in Nat
  BY DEF Numbered, Outstanding, Queued, TypeOK, Writes
<1>8. Numbered'
  BY <1>1, <1>2, <1>3, <1>4, <1>7 DEF Numbered
<1>9. EventsExact'
  <2>1. \A k \in 1 .. Through({"post"}) : w.by # pulses[k]
    <3> SUFFICES ASSUME NEW k \in 1 .. Through({"post"}) PROVE sub[t] # pulses[k]
      BY <1>3
    <3>1. k \in DOMAIN pulses
      BY DEF EventsExact, Through, TypeOK
    <3>2. QED
      BY <3>1, <1>1 DEF Numbered
  <2>2. Through({"post"})' = Through({"post"})
        /\ Through({"drain", "apply", "post"})' = Through({"drain", "apply", "post"})
    BY <1>1 DEF Through
  <2>3. QED
    BY <2>1, <2>2, <1>1, <1>4 DEF EventsExact, InScope
<1>10. QED
  BY <1>5, <1>6, <1>8, <1>9

\* A submit that holds the mutex goes on, with no more retained than it had: a copy from
\* an address, the end of the fold, a retained write that lands.
LEMMA FoldingStep ==
  ASSUME IInv, NEW t \in Submitters,
         Copy(t) \/ DropCopies(t) \/ (\E work \in BOOLEAN : Execute(t, work)) \/ LandRetained(t)
  PROVE  IInv'
<1> USE CompletionAssumption, ActorsApart DEF IInv
<1>1. /\ pc[t] \in {"fold", "execute"}
      /\ \/ pc' = pc
         \/ \E l \in {"gate", "render", "execute"} :
               /\ pc' = [pc EXCEPT ![t] = l]
               /\ (l = "gate" => ~visible) /\ (l = "render" => visible)
      /\ retained' \subseteq retained
      /\ UNCHANGED <<visible, q, inflight, active, latent, depth, owner, pending, left,
                     pulses, posted, hand, sub, nsub, nwrite, raced, crossed>>
  BY DEF Copy, DropCopies, Execute, LandRetained, Goto, eop, queue
<1>2. pc \in [Actors -> Pcs] /\ retained \subseteq Writes
  BY DEF TypeOK
<1>3. /\ pc'[t] \in {"fold", "gate", "render", "execute"}
      /\ pc'[t] = "gate" => ~visible
      /\ pc'[t] = "render" => visible
      /\ \A a \in Actors : a # t => pc'[a] = pc[a]
  BY <1>1, <1>2
<1>4. Outstanding' \subseteq Outstanding
  BY <1>1 DEF Outstanding, Queued
<1>5. mem' \in [Addrs -> 0 .. MaxWrites] /\ copies' \in BOOLEAN /\ ncopy' \in 0 .. MaxCopies
  <2>1. CASE LandRetained(t)
    <3> DEFINE w == Front(retained)
    <3>1. w \in Writes /\ mem' = [x \in Addrs |-> IF Covers(w, x) THEN w.n ELSE mem[x]]
      BY <1>2, <2>1, FrontIsFirst DEF LandRetained, Land
    <3> HIDE DEF w
    <3>2. w.n \in 0 .. MaxWrites
      BY <3>1 DEF Writes
    <3>3. QED
      BY <3>1, <3>2, <2>1 DEF TypeOK, LandRetained
  <2>2. CASE Copy(t)
    BY <2>2 DEF Copy, TypeOK
  <2>3. CASE DropCopies(t)
    BY <2>3 DEF DropCopies, TypeOK
  <2>4. ASSUME NEW work \in BOOLEAN, Execute(t, work)
        PROVE  mem' = mem /\ copies' = FALSE /\ ncopy' = ncopy
    BY <2>4 DEF Execute
  <2>5. QED
    BY <2>1, <2>2, <2>3, <2>4 DEF TypeOK
<1>6. TypeOK'
  <2>1. pc' \in [Actors -> Pcs]
    BY <1>1, <1>2 DEF Pcs
  <2>2. QED
    BY <2>1, <1>1, <1>2, <1>5 DEF TypeOK
<1>7. Places'
  BY <1>1, <1>3 DEF Places, Folding
<1>8. OneInFlight' /\ ScopeExact' /\ TakenOutside' /\ RetainedIsMine'
  BY <1>1, <1>3 DEF OneInFlight, ScopeExact, TakenOutside, RetainedIsMine
<1>9. Numbered'
  BY <1>1, <1>3, <1>4 DEF Numbered
<1>10. EventsExact'
  BY <1>1, <1>3, <1>4 DEF EventsExact, Through, InScope
<1>11. QED
  BY <1>6, <1>7, <1>8, <1>9, <1>10

\* The renderer takes resources, when nothing is in flight.
LEMMA ExtractStep == ASSUME IInv, NEW t \in Submitters, Extract(t) PROVE IInv'
<1> USE CompletionAssumption, ActorsApart DEF IInv
<1> DEFINE ready == {w \in q : RendererWrite(w)}
<1>1. /\ pc[t] \in {"fold", "render"} /\ visible /\ inflight = 0
      /\ UNCHANGED <<visible, active, latent, depth, owner, pending, left, pulses, posted,
                     sub, mem, nsub, nwrite, raced,
                     copies, retained, crossed, ncopy>>
  BY DEF Extract, eop, order
<1>2. pc \in [Actors -> Pcs] /\ hand \in [Actors -> SUBSET Writes] /\ q \subseteq Writes
  BY DEF TypeOK
<1>3. \A a \in Actors : hand[a] = {}
  BY <1>1 DEF OneInFlight
<1>4. CASE ready = {}
  <2>1. pc' = [pc EXCEPT ![t] = "fold"] /\ UNCHANGED <<q, inflight, hand>>
    BY <1>4 DEF Extract, Goto
  <2>2. pc'[t] = "fold" /\ \A a \in Actors : a # t => pc'[a] = pc[a]
    BY <2>1, <1>2
  <2>3. Outstanding' = Outstanding
    BY <1>1, <2>1 DEF Outstanding, Queued
  <2>4. TypeOK'
    BY <1>1, <2>1 DEF TypeOK, Pcs
  <2>5. Places' /\ OneInFlight' /\ ScopeExact' /\ TakenOutside'
    BY <1>1, <1>3, <2>1, <2>2 DEF Places, OneInFlight, ScopeExact, TakenOutside, Folding
  <2>6. Numbered' /\ EventsExact' /\ RetainedIsMine'
    BY <1>1, <2>1, <2>2, <2>3 DEF Numbered, EventsExact, Through, InScope, RetainedIsMine
  <2>7. QED
    BY <2>4, <2>5, <2>6
<1>5. CASE ready # {}
  <2>1. /\ q' = q \ ready /\ inflight' = 1 /\ hand' = [hand EXCEPT ![t] = ready]
        /\ pc' = [pc EXCEPT ![t] = "batch"]
    BY <1>1, <1>5 DEF Extract, Goto
  <2>2. pc'[t] = "batch" /\ \A a \in Actors : a # t => pc'[a] = pc[a]
    BY <2>1, <1>2
  <2>3. hand'[t] = ready /\ \A a \in Actors : a # t => hand'[a] = {}
    BY <2>1, <1>2, <1>3
  <2>4. ready \subseteq q /\ \A w \in ready : ~w.label
    BY DEF RendererWrite
  <2> HIDE DEF ready
  <2>5. Outstanding' = Outstanding
    BY <1>1, <2>1, <2>3, <2>4, <1>3 DEF Outstanding, Queued
  <2>6. TypeOK'
    <3>1. hand' \in [Actors -> SUBSET Writes] /\ q' \subseteq Writes
      BY <2>1, <2>4, <1>2
    <3>2. pc' \in [Actors -> Pcs]
      BY <2>1, <1>2 DEF Pcs
    <3>3. QED
      BY <3>1, <3>2, <2>1, <1>1 DEF TypeOK
  <2>7. Places' /\ ScopeExact'
    BY <1>1, <2>2 DEF Places, ScopeExact, Folding
  <2>8. OneInFlight'
    BY <1>1, <1>3, <1>5, <2>1, <2>2, <2>3 DEF OneInFlight
  <2>9. TakenOutside'
    BY <1>1, <2>2, <2>3, <2>4 DEF TakenOutside
  <2>10. Numbered' /\ EventsExact' /\ RetainedIsMine'
    BY <1>1, <2>2, <2>5 DEF Numbered, EventsExact, Through, InScope, RetainedIsMine
  <2>11. QED
    BY <2>6, <2>7, <2>8, <2>9, <2>10
<1>6. QED
  BY <1>4, <1>5

\* A write of the batch lands; with the last the batch is over.
LEMMA ApplyBatchStep == ASSUME IInv, NEW t \in Submitters, ApplyBatch(t) PROVE IInv'
<1> USE CompletionAssumption, ActorsApart DEF IInv
<1> DEFINE w == Front(hand[t])
<1>1. /\ pc[t] = "batch" /\ hand' = [hand EXCEPT ![t] = @ \ {w}]
      /\ UNCHANGED <<visible, q, active, latent, depth, owner, pending, left, pulses, posted,
                     sub, nsub, nwrite, raced,
                     copies, retained, crossed, ncopy>>
  BY DEF ApplyBatch, eop, order
<1>2. pc \in [Actors -> Pcs] /\ hand \in [Actors -> SUBSET Writes] /\ q \subseteq Writes
  BY DEF TypeOK
<1>3. hand[t] # {} /\ inflight = 1 /\ \A a \in Actors : a # t => hand[a] = {}
  BY <1>1 DEF OneInFlight
<1>4. w \in hand[t] /\ w \in Writes
  BY <1>2, <1>3, FrontIsFirst
<1>5. mem' \in [Addrs -> 0 .. MaxWrites]
  <2>1. mem' = [x \in Addrs |-> IF Covers(w, x) THEN w.n ELSE mem[x]]
    BY DEF ApplyBatch, Land
  <2>2. w.n \in 0 .. MaxWrites
    BY <1>4 DEF Writes
  <2>3. QED
    BY <2>1, <2>2 DEF TypeOK
<1>6. \/ hand[t] = {w} /\ inflight' = 0 /\ pc' = [pc EXCEPT ![t] = "render"]
      \/ hand[t] # {w} /\ inflight' = 1 /\ pc' = pc
  BY <1>3 DEF ApplyBatch, Goto
<1> HIDE DEF w
<1>7. /\ hand'[t] = hand[t] \ {w} /\ \A a \in Actors : a # t => hand'[a] = {}
      /\ hand' \in [Actors -> SUBSET Writes]
  BY <1>1, <1>2, <1>3
<1>8. /\ \A a \in Actors : a # t => pc'[a] = pc[a]
      /\ pc'[t] = (IF hand'[t] = {} THEN "render" ELSE "batch")
      /\ inflight' = (IF hand'[t] = {} THEN 0 ELSE 1)
  BY <1>1, <1>2, <1>4, <1>6, <1>7
<1>9. Outstanding' \subseteq Outstanding
  BY <1>1, <1>7 DEF Outstanding, Queued
<1>10. TypeOK'
  <2>1. pc' \in [Actors -> Pcs]
    BY <1>2, <1>6 DEF Pcs
  <2>2. QED
    BY <1>1, <1>5, <1>7, <1>8, <2>1 DEF TypeOK
<1>11. Places' /\ ScopeExact'
  BY <1>1, <1>8 DEF Places, ScopeExact, Folding
<1>12. OneInFlight'
  BY <1>1, <1>3, <1>7, <1>8 DEF OneInFlight
<1>13. TakenOutside'
  BY <1>1, <1>7, <1>8 DEF TakenOutside
<1>14. Numbered'
  BY <1>1, <1>8, <1>9 DEF Numbered
<1>15. EventsExact'
  BY <1>1, <1>8, <1>9 DEF EventsExact, Through, InScope
<1>16. RetainedIsMine'
  BY <1>1 DEF RetainedIsMine
<1>17. QED
  BY <1>10, <1>11, <1>12, <1>13, <1>14, <1>15, <1>16

\* The submit pulses, or is declined, and gives the mutex back.
LEMMA ReleaseStep ==
  ASSUME IInv, NEW t \in Submitters, Decline(t) \/ Pulse(t)
  PROVE  IInv'
<1> USE CompletionAssumption, ActorsApart DEF IInv
<1>1. /\ pc[t] \in {"fold", "execute"} /\ owner' = NoOne /\ retained' = {}
      /\ pc' = [pc EXCEPT ![t] = "return"] /\ copies' \in BOOLEAN
      /\ UNCHANGED <<visible, q, inflight, active, latent, depth, left, posted, hand, sub,
                     mem, nsub, nwrite, raced, crossed, ncopy>>
  BY DEF Decline, Pulse, Goto, queue, eop, order, TypeOK
<1>2. pc \in [Actors -> Pcs] /\ pulses \in Seq(1 .. MaxSubmits) /\ sub[t] \in 1 .. MaxSubmits
  BY <1>1 DEF TypeOK, Numbered
<1>3. pc'[t] = "return" /\ \A a \in Actors : a # t => pc'[a] = pc[a]
  BY <1>1, <1>2
<1>4. \/ pending' = pending /\ pulses' = pulses
      \/ pending' = pending + 1 /\ pulses' = Append(pulses, sub[t])
  BY DEF Decline, Pulse, eop
<1>5. /\ pulses' \in Seq(1 .. MaxSubmits) /\ pending' \in Nat
      /\ Len(pulses') = Len(pulses) + (pending' - pending)
      /\ \A k \in 1 .. Len(pulses) : pulses'[k] = pulses[k]
      /\ \A k \in 1 .. Len(pulses') : k \in 1 .. Len(pulses) \/ pulses'[k] = sub[t]
  <2>1. pending \in Nat /\ Len(pulses) \in Nat
    BY <1>2 DEF TypeOK
  <2>2. CASE pending' = pending /\ pulses' = pulses
    BY <2>1, <2>2, <1>2
  <2>3. CASE pending' = pending + 1 /\ pulses' = Append(pulses, sub[t])
    <3>1. /\ pulses' \in Seq(1 .. MaxSubmits) /\ Len(pulses') = Len(pulses) + 1
          /\ \A k \in 1 .. Len(pulses) : pulses'[k] = pulses[k]
          /\ pulses'[Len(pulses) + 1] = sub[t]
      BY <2>3, <1>2, AppendProperties
    <3>2. QED
      BY <3>1, <2>1, <2>3
  <2>4. QED
    BY <2>2, <2>3, <1>4
<1>6. Outstanding' \subseteq Outstanding
  BY <1>1 DEF Outstanding, Queued
<1>7. TypeOK'
  BY <1>1, <1>5 DEF TypeOK, Pcs
<1>8. Places'
  <2>1. \A u \in Submitters : u # t => pc[u] \notin Folding
    BY <1>1 DEF Places, Folding
  <2>2. QED
    BY <2>1, <1>1, <1>3 DEF Places, Folding
<1>9. OneInFlight' /\ ScopeExact' /\ TakenOutside' /\ RetainedIsMine'
  BY <1>1, <1>3 DEF OneInFlight, ScopeExact, TakenOutside, RetainedIsMine
<1>10. Numbered'
  <2>0. DOMAIN pulses' = 1 .. Len(pulses') /\ DOMAIN pulses = 1 .. Len(pulses)
    BY <1>2, <1>5
  <2>1. \A k \in DOMAIN pulses' :
          pulses'[k] <= nsub /\ \A u \in Submitters : sub[u] = pulses'[k] => pc'[u] = "return"
    <3> SUFFICES ASSUME NEW k \in DOMAIN pulses'
                 PROVE  /\ pulses'[k] <= nsub
                        /\ \A u \in Submitters : sub[u] = pulses'[k] => pc'[u] = "return"
      OBVIOUS
    <3>1. CASE k \in DOMAIN pulses
      <4>1. pulses'[k] = pulses[k]
        BY <3>1, <2>0, <1>5
      <4>2. QED
        BY <3>1, <4>1, <1>3 DEF Numbered
    <3>2. CASE pulses'[k] = sub[t]
      BY <3>2, <1>2, <1>3 DEF Numbered
    <3>3. QED
      BY <3>1, <3>2, <2>0, <1>5
  <2>2. QED
    BY <2>1, <1>1, <1>3, <1>6 DEF Numbered
<1>11. EventsExact'
  <2>1. \A labels : Through(labels)' = Through(labels)
    BY <1>1, <1>3 DEF Through
  <2>2. \A k \in 1 .. Through({"drain", "apply", "post"}) : pulses'[k] = pulses[k]
    <3>1. Through({"drain", "apply", "post"}) \in Nat
      BY DEF Through, TypeOK
    <3>2. Through({"drain", "apply", "post"}) <= Len(pulses)
      BY DEF EventsExact, Through, TypeOK
    <3>3. Len(pulses) \in Nat
      BY <1>2
    <3>4. QED
      BY <3>1, <3>2, <3>3, <1>5
  <2>3. Through({"post"}) <= Through({"drain", "apply", "post"})
    BY DEF Through, TypeOK
  <2>4. \A k \in 1 .. Through({"post"}) : pulses'[k] = pulses[k]
    BY <2>2, <2>3 DEF Through, TypeOK
  <2>5. pending' + left' + posted' = Len(pulses')
    <3>1. pending \in Nat /\ left \in Nat /\ posted \in Nat /\ Len(pulses) \in Nat
      BY <1>2 DEF TypeOK
    <3>2. pending + left + posted = Len(pulses) /\ left' = left /\ posted' = posted
      BY <1>1 DEF EventsExact
    <3>3. Len(pulses') = Len(pulses) + (pending' - pending) /\ pending' \in Nat
      BY <1>5
    <3>4. pending' + left + posted = (pending + left + posted) + (pending' - pending)
      BY <3>1, <3>3
    <3>5. QED
      BY <3>2, <3>3, <3>4
  <2>6. left' > 0 <=> pc'[Eop] # "idle"
    BY <1>1, <1>3 DEF EventsExact
  <2>7. QED
    BY <2>1, <2>2, <2>4, <2>5, <2>6, <1>1, <1>6 DEF EventsExact, InScope
<1>12. QED
  BY <1>7, <1>8, <1>9, <1>10, <1>11

\* The call returns, and with it its scope ends.
LEMMA ReturnStep == ASSUME IInv, NEW t \in Submitters, Return(t) PROVE IInv'
<1> USE CompletionAssumption, ActorsApart DEF IInv
<1>1. /\ pc[t] = "return" /\ pc' = [pc EXCEPT ![t] = "idle"] /\ sub' = [sub EXCEPT ![t] = 0]
      /\ UNCHANGED <<visible, q, inflight, owner, pending, left, pulses, posted, hand, mem,
                     nsub, nwrite, raced,
                     copies, retained, crossed, ncopy>>
  BY DEF Return, Goto, eop, order
<1>2. pc \in [Actors -> Pcs] /\ sub \in [Submitters -> 0 .. MaxSubmits] /\ latent \in BOOLEAN
  BY DEF TypeOK
<1>3. /\ pc'[t] = "idle" /\ \A a \in Actors : a # t => pc'[a] = pc[a]
      /\ sub'[t] = 0 /\ \A u \in Submitters : u # t => sub'[u] = sub[u]
  BY <1>1, <1>2
<1>4. Outstanding' = Outstanding
  BY <1>1 DEF Outstanding, Queued
<1>5. /\ ScopeExact' /\ active' \in Nat /\ latent' \in BOOLEAN /\ active' <= active
      /\ depth' \in [Submitters -> {0, 1}] /\ \A u \in Submitters : depth'[u] <= depth[u]
  <2> DEFINE S == {u \in Submitters : depth[u] > 0}
  <2>1. depth \in [Submitters -> {0, 1}] /\ active = Cardinality(S) /\ active \in Nat
    BY DEF TypeOK, ScopeExact
  <2>2. CASE visible
    <3>1. depth[t] = 1 /\ t \in S
      BY <2>2, <1>1 DEF ScopeExact
    <3>2. active > 0
      <4> HIDE DEF S
      <4>1. S \subseteq Submitters
        BY DEF S
      <4> QED
        BY <4>1, <2>1, <3>1, CountScopes
    <3>3. /\ depth' = [depth EXCEPT ![t] = @ - 1] /\ active' = active - 1
          /\ latent' = (latent \/ active = 1)
      BY <2>1, <2>2, <3>1, <3>2 DEF Return, EndScope
    <3>4. depth'[t] = 0 /\ \A u \in Submitters : u # t => depth'[u] = depth[u]
      BY <3>1, <3>3, <2>1
    <3>5. S' = S \ {t}
      BY <3>4, <2>1
    <3>6. active' = Cardinality(S')
      <4> HIDE DEF S
      <4>1. S \subseteq Submitters /\ S' \subseteq Submitters
        BY DEF S
      <4> QED
        BY <4>1, <3>1, <3>3, <3>5, <2>1, CountScopes
    <3>7. QED
      <4>1. ScopeExact'
        BY <3>4, <3>6, <1>1, <1>3, <2>2 DEF ScopeExact
      <4>2. active' \in Nat /\ active' <= active
        BY <3>2, <3>3, <2>1
      <4>3. latent' \in BOOLEAN
        BY <3>3, <1>2
      <4>4. depth' \in [Submitters -> {0, 1}] /\ \A u \in Submitters : depth'[u] <= depth[u]
        BY <3>1, <3>3, <3>4, <2>1
      <4>5. QED
        BY <4>1, <4>2, <4>3, <4>4
  <2>3. CASE ~visible
    <3>1. UNCHANGED <<depth, active, latent>>
      BY <2>3 DEF Return, EndScope
    <3>2. QED
      BY <3>1, <1>1, <1>2, <1>3, <2>1, <2>3 DEF ScopeExact
  <2>4. QED
    BY <2>2, <2>3
<1>6. TypeOK'
  <2>1. sub' \in [Submitters -> 0 .. MaxSubmits] /\ pc' \in [Actors -> Pcs]
    BY <1>1, <1>2 DEF Pcs
  <2>2. QED
    BY <2>1, <1>1, <1>5 DEF TypeOK
<1>7. Places'
  BY <1>1, <1>3 DEF Places, Folding
<1>8. OneInFlight'
  BY <1>1, <1>3 DEF OneInFlight
<1>9. TakenOutside'
  <2>1. active = 0 => active' = 0
    BY <1>5 DEF TypeOK
  <2>2. QED
    BY <2>1, <1>1, <1>3 DEF TakenOutside
<1>10. Numbered'
  <2>1. \A k \in DOMAIN pulses : pulses[k] # 0
    BY ElementOfSeq DEF TypeOK
  <2>2. /\ \A u \in Submitters : sub'[u] <= nsub /\ (sub'[u] # 0 <=> pc'[u] # "idle")
        /\ \A u, v \in Submitters : sub'[u] = sub'[v] /\ sub'[u] # 0 => u = v
    <3>1. nsub \in Nat
      BY DEF TypeOK
    <3>2. QED
      BY <3>1, <1>3 DEF Numbered
  <2>3. \A k \in DOMAIN pulses :
          pulses[k] <= nsub /\ \A u \in Submitters : sub'[u] = pulses[k] => pc'[u] = "return"
    BY <2>1, <1>3 DEF Numbered
  <2>4. QED
    BY <2>2, <2>3, <1>1, <1>4 DEF Numbered
<1>11. EventsExact'
  <2>1. \A labels : Through(labels)' = Through(labels)
    BY <1>1, <1>3 DEF Through
  <2>2. \A k \in 1 .. Through({"drain", "apply", "post"}) : InScope(pulses[k])' => InScope(pulses[k])
    <3> SUFFICES ASSUME NEW k \in 1 .. Through({"drain", "apply", "post"}), InScope(pulses[k])'
                 PROVE  InScope(pulses[k])
      OBVIOUS
    <3>1. pulses[k] # 0
      <4>1. k \in DOMAIN pulses
        BY DEF EventsExact, Through, TypeOK
      <4>2. QED
        BY <4>1, ElementOfSeq DEF TypeOK
    <3>2. PICK u \in Submitters : sub'[u] = pulses[k] /\ depth'[u] > 0
      BY <1>1 DEF InScope
    <3>3. u # t /\ sub[u] = pulses[k] /\ depth[u] > 0
      <4>1. depth[u] \in Nat /\ depth'[u] \in Nat /\ depth'[u] <= depth[u]
        BY <1>5, SMTT(30) DEF TypeOK
      <4>2. QED
        BY <4>1, <3>1, <3>2, <1>3
    <3>4. QED
      BY <3>3 DEF InScope
  <2>3. QED
    BY <2>1, <2>2, <1>1, <1>3, <1>4 DEF EventsExact
<1>12. RetainedIsMine'
  <2>1. owner # t
    BY <1>1 DEF Places, Folding
  <2>2. QED
    BY <2>1, <1>1, <1>3 DEF RetainedIsMine
<1>13. QED
  BY <1>5, <1>6, <1>7, <1>8, <1>9, <1>10, <1>11, <1>12

\* The worker of the queue wakes: to the gate, or past it in the older mode.
LEMMA PendWakeStep == ASSUME IInv, PendWake PROVE IInv'
<1> USE CompletionAssumption, ActorsApart DEF IInv
<1>1. /\ pc[Pend] = "idle" /\ pc' = [pc EXCEPT ![Pend] = IF visible THEN "gate" ELSE "drain"]
      /\ UNCHANGED <<visible, q, inflight, active, latent, depth, owner, pending, left,
                     pulses, posted, hand, sub, mem, nsub, nwrite, raced,
                     copies, retained, crossed, ncopy>>
  BY DEF PendWake, Goto, eop, queue, order
<1>2. pc \in [Actors -> Pcs]
  BY DEF TypeOK
<1>3. /\ pc'[Pend] = (IF visible THEN "gate" ELSE "drain")
      /\ \A a \in Actors : a # Pend => pc'[a] = pc[a]
  BY <1>1, <1>2
<1>4. Outstanding' = Outstanding
  BY <1>1 DEF Outstanding, Queued
<1>5. TypeOK'
  BY <1>1 DEF TypeOK, Pcs
<1>6. Places' /\ OneInFlight' /\ ScopeExact' /\ TakenOutside'
  BY <1>1, <1>3 DEF Places, OneInFlight, ScopeExact, TakenOutside, Folding
<1>7. Numbered' /\ EventsExact'
  BY <1>1, <1>3, <1>4 DEF Numbered, EventsExact, Through, InScope
<1>8. RetainedIsMine'
  BY <1>1 DEF RetainedIsMine
<1>9. QED
  BY <1>5, <1>6, <1>7, <1>8

\* The event worker takes what is pending.
LEMMA EopTakeStep == ASSUME IInv, EopTake PROVE IInv'
<1> USE CompletionAssumption, ActorsApart DEF IInv
<1>1. /\ pc[Eop] = "idle" /\ pending > 0 /\ left' = pending /\ pending' = 0
      /\ pc' = [pc EXCEPT ![Eop] = "gate"]
      /\ UNCHANGED <<visible, q, inflight, active, latent, depth, owner, pulses, posted,
                     hand, sub, mem, nsub, nwrite, raced,
                     copies, retained, crossed, ncopy>>
  BY DEF EopTake, Goto, queue, order
<1>2. pc \in [Actors -> Pcs]
  BY DEF TypeOK
<1>3. pc'[Eop] = "gate" /\ \A a \in Actors : a # Eop => pc'[a] = pc[a]
  BY <1>1, <1>2
<1>4. Outstanding' = Outstanding
  BY <1>1 DEF Outstanding, Queued
<1>5. TypeOK'
  BY <1>1 DEF TypeOK, Pcs
<1>6. Places' /\ OneInFlight' /\ ScopeExact' /\ TakenOutside'
  BY <1>1, <1>3 DEF Places, OneInFlight, ScopeExact, TakenOutside, Folding
<1>7. Numbered'
  BY <1>1, <1>3, <1>4 DEF Numbered
<1>8. EventsExact'
  <2>1. left = 0
    BY <1>1 DEF EventsExact, TypeOK
  <2>2. pending' + left' + posted' = Len(pulses')
    BY <2>1, <1>1 DEF EventsExact, TypeOK
  <2>3. QED
    BY <2>2, <1>1, <1>3, <1>4 DEF EventsExact, Through, InScope
<1>9. RetainedIsMine'
  BY <1>1 DEF RetainedIsMine
<1>10. QED
  BY <1>5, <1>6, <1>7, <1>8, <1>9

\* An event is posted, its submit's writes landed and its call returned.
LEMMA EopPostStep == ASSUME IInv, EopPost PROVE IInv'
<1> USE CompletionAssumption, ActorsApart DEF IInv
<1>1. /\ pc[Eop] = "post" /\ posted' = posted + 1 /\ left' = left - 1
      /\ pc' = [pc EXCEPT ![Eop] = IF left = 1 THEN "idle" ELSE "gate"]
      /\ UNCHANGED <<visible, q, inflight, active, latent, depth, owner, pending, pulses,
                     hand, sub, mem, nsub, nwrite, raced,
                     copies, retained, crossed, ncopy>>
  BY DEF EopPost, Goto, queue, order
<1>2. pc \in [Actors -> Pcs] /\ left \in Nat /\ left > 0
  BY <1>1 DEF TypeOK, EventsExact
<1>3. /\ pc'[Eop] = (IF left = 1 THEN "idle" ELSE "gate")
      /\ \A a \in Actors : a # Eop => pc'[a] = pc[a]
  BY <1>1, <1>2
<1>4. Outstanding' = Outstanding
  BY <1>1 DEF Outstanding, Queued
<1>5. TypeOK'
  BY <1>1, <1>2 DEF TypeOK, Pcs
<1>6. Places' /\ OneInFlight' /\ ScopeExact' /\ TakenOutside'
  BY <1>1, <1>3 DEF Places, OneInFlight, ScopeExact, TakenOutside, Folding
<1>7. Numbered'
  BY <1>1, <1>3, <1>4 DEF Numbered
<1>8. EventsExact'
  <2>1. pending' + left' + posted' = Len(pulses')
    <3>1. pending \in Nat /\ left \in Nat /\ posted \in Nat
      BY DEF TypeOK
    <3>2. pending + left + posted = Len(pulses) /\ pending' = pending /\ pulses' = pulses
      BY <1>1 DEF EventsExact
    <3>3. pending + (left - 1) + (posted + 1) = pending + left + posted
      BY <3>1
    <3>4. QED
      BY <3>2, <3>3, <1>1
  <2>4. left' > 0 <=> pc'[Eop] # "idle"
    BY <1>1, <1>2, <1>3
  <2>2. /\ Through({"post"})' = Through({"post"})
        /\ Through({"drain", "apply", "post"})' = Through({"drain", "apply", "post"})
    BY <1>1, <1>3 DEF Through, TypeOK
  <2>3. QED
    BY <2>1, <2>2, <2>4, <1>1, <1>4 DEF EventsExact, InScope
<1>9. RetainedIsMine'
  BY <1>1 DEF RetainedIsMine
<1>10. QED
  BY <1>5, <1>6, <1>7, <1>8, <1>9

\* The modelled latency is over.
LEMMA ElapseStep == ASSUME IInv, Elapse PROVE IInv'
<1>1. /\ latent' = FALSE
      /\ UNCHANGED <<visible, q, inflight, active, depth, owner, pending, left, pulses,
                     posted, pc, hand, sub, mem, nsub, nwrite, raced,
                     copies, retained, crossed, ncopy>>
  BY DEF Elapse, eop, order
<1>2. Outstanding' = Outstanding
  BY <1>1 DEF Outstanding, Queued
<1>3. TypeOK'
  BY <1>1 DEF IInv, TypeOK
<1>4. Places' /\ OneInFlight' /\ ScopeExact' /\ TakenOutside'
  BY <1>1 DEF IInv, Places, OneInFlight, ScopeExact, TakenOutside
<1>5. Numbered' /\ EventsExact' /\ RetainedIsMine'
  BY <1>1, <1>2 DEF IInv, Numbered, EventsExact, Through, InScope, RetainedIsMine
<1>6. QED
  BY <1>3, <1>4, <1>5 DEF IInv

\* What a drain does between two releases of the queue's mutex: it waits for another's
\* write, or it is over, or it has taken the front of the queue.
LEMMA DrainCases ==
  ASSUME IInv, NEW d \in Actors, Drain(d)
  PROVE  /\ UNCHANGED <<visible, active, latent, depth, owner, pending, left, pulses, posted,
                        sub, nsub, nwrite, copies, retained, crossed, ncopy>>
         /\ pc[d] \in {"gate", "fold", "drain", "apply"} /\ (pc[d] = "fold" => ~visible)
         /\ pc[d] \in {"gate", "fold"} => active = 0
         /\ mem' = mem \/ (pc[d] = "apply" /\ Land(Front(hand[d])))
         /\ \/ /\ pc[d] \in {"gate", "fold"} /\ inflight = 1 /\ raced' = TRUE
               /\ pc' = [pc EXCEPT ![d] = "drain"] /\ UNCHANGED <<q, hand, inflight>>
            \/ /\ \A a \in Actors : a # d => hand[a] = {}
               /\ hand' = [hand EXCEPT ![d] = {}] /\ raced' = raced
               /\ q = {} /\ q' = {} /\ inflight' = 0
               /\ pc' = [pc EXCEPT ![d] = After(d)]
            \/ /\ \A a \in Actors : a # d => hand[a] = {}
               /\ hand' = [hand EXCEPT ![d] = {Front(q)}] /\ raced' = raced
               /\ q # {} /\ q' = q \ {Front(q)} /\ inflight' = 1
               /\ pc' = [pc EXCEPT ![d] = "apply"]
<1> USE ActorsApart DEF IInv
<1>1. hand \in [Actors -> SUBSET Writes] /\ inflight \in {0, 1}
  BY DEF TypeOK, OneInFlight
<1>2. inflight = 0 => \A a \in Actors : hand[a] = {}
  BY DEF OneInFlight
<1> DEFINE Taken ==
      \/ /\ \A a \in Actors : a # d => hand[a] = {}
         /\ hand' = [hand EXCEPT ![d] = {}] /\ raced' = raced
         /\ q = {} /\ q' = {} /\ inflight' = 0
         /\ pc' = [pc EXCEPT ![d] = After(d)]
      \/ /\ \A a \in Actors : a # d => hand[a] = {}
         /\ hand' = [hand EXCEPT ![d] = {Front(q)}] /\ raced' = raced
         /\ q # {} /\ q' = q \ {Front(q)} /\ inflight' = 1
         /\ pc' = [pc EXCEPT ![d] = "apply"]
<1>3. ASSUME Continue(d, 0), \A a \in Actors : a # d => hand[a] = {} PROVE Taken
  BY <1>3 DEF Continue, Goto
<1>4. CASE Gate(d)
  <2>1. pc[d] \in {"gate", "fold"} /\ (pc[d] = "fold" => ~visible)
    BY <1>4 DEF Gate
  <2>2. hand[d] = {} /\ hand = [hand EXCEPT ![d] = {}]
    BY <2>1, <1>1 DEF OneInFlight
  <2>3. Continue(d, inflight) /\ active = 0 /\ mem' = mem
        /\ UNCHANGED <<visible, active, latent, depth, owner, pending, left, pulses, posted,
                       sub, nsub, nwrite, copies, retained, crossed, ncopy>>
    BY <1>4 DEF Gate, MayDrain, eop, order
  <2>4. CASE inflight = 1
    <3>1. /\ pc' = [pc EXCEPT ![d] = "drain"] /\ inflight' = inflight /\ raced' = TRUE
          /\ hand' = [hand EXCEPT ![d] = {}] /\ q' = q
      BY <2>3, <2>4 DEF Continue, Goto
    <3>2. hand' = hand
      BY <3>1, <2>2
    <3>3. QED
      BY <3>1, <3>2, <2>1, <2>3, <2>4 DEF Land
  <2>5. CASE inflight = 0
    <3>1. Taken
      BY <2>3, <2>5, <1>2, <1>3
    <3>2. QED
      BY <3>1, <2>1, <2>3 DEF Land
  <2>6. QED
    BY <2>4, <2>5, <1>1
<1>5. CASE Resume(d)
  <2>1. /\ pc[d] = "drain" /\ inflight = 0 /\ Continue(d, 0) /\ mem' = mem
        /\ UNCHANGED <<visible, active, latent, depth, owner, pending, left, pulses, posted,
                       sub, nsub, nwrite, copies, retained, crossed, ncopy>>
    BY <1>5 DEF Resume, eop, order
  <2>2. Taken
    BY <2>1, <1>2, <1>3
  <2>3. QED
    BY <2>1, <2>2 DEF Land
<1>6. CASE Apply(d)
  <2>1. pc[d] = "apply" /\ Land(Front(hand[d])) /\ Continue(d, inflight - 1)
        /\ UNCHANGED <<visible, active, latent, depth, owner, pending, left, pulses, posted,
                       sub, nsub, nwrite, copies, retained, crossed, ncopy>>
    BY <1>6 DEF Apply, eop, order
  <2>2. inflight - 1 = 0 /\ \A a \in Actors : a # d => hand[a] = {}
    BY <2>1 DEF OneInFlight
  <2>3. Continue(d, 0)
    BY <2>1, <2>2
  <2>4. Taken
    BY <2>2, <2>3, <1>3
  <2>5. QED
    BY <2>1, <2>4
<1>7. QED
  BY <1>4, <1>5, <1>6 DEF Drain

\* A drain keeps the invariant, whoever drains.
LEMMA DrainStep == ASSUME IInv, NEW d \in Actors, Drain(d) PROVE IInv'
<1> USE CompletionAssumption, ActorsApart DEF IInv
<1>1. /\ UNCHANGED <<visible, active, latent, depth, owner, pending, left, pulses, posted,
                     sub, nsub, nwrite, copies, retained, crossed, ncopy>>
      /\ pc[d] \in {"gate", "fold", "drain", "apply"} /\ (pc[d] = "fold" => ~visible)
      /\ pc[d] \in {"gate", "fold"} => active = 0
      /\ mem' = mem \/ (pc[d] = "apply" /\ Land(Front(hand[d])))
  BY DrainCases
<1>2. /\ pc \in [Actors -> Pcs] /\ hand \in [Actors -> SUBSET Writes] /\ q \subseteq Writes
      /\ left \in Nat /\ posted \in Nat
  BY DEF TypeOK
<1>3. \/ /\ pc[d] \in {"gate", "fold"} /\ inflight = 1 /\ raced' = TRUE
         /\ pc' = [pc EXCEPT ![d] = "drain"] /\ UNCHANGED <<q, hand, inflight>>
      \/ /\ \A a \in Actors : a # d => hand[a] = {}
         /\ hand' = [hand EXCEPT ![d] = {}] /\ raced' = raced
         /\ q = {} /\ q' = {} /\ inflight' = 0
         /\ pc' = [pc EXCEPT ![d] = After(d)]
      \/ /\ \A a \in Actors : a # d => hand[a] = {}
         /\ hand' = [hand EXCEPT ![d] = {Front(q)}] /\ raced' = raced
         /\ q # {} /\ q' = q \ {Front(q)} /\ inflight' = 1
         /\ pc' = [pc EXCEPT ![d] = "apply"]
  BY DrainCases
<1>4. mem' \in [Addrs -> 0 .. MaxWrites]
  <2>1. CASE mem' = mem
    BY <2>1 DEF TypeOK
  <2>2. CASE pc[d] = "apply" /\ Land(Front(hand[d]))
    <3>1. hand[d] # {} /\ hand[d] \subseteq Writes
      BY <2>2, <1>2 DEF OneInFlight
    <3> DEFINE w == Front(hand[d])
    <3>2. w \in Writes /\ mem' = [x \in Addrs |-> IF Covers(w, x) THEN w.n ELSE mem[x]]
      BY <3>1, <2>2, FrontIsFirst DEF Land
    <3> HIDE DEF w
    <3>3. w.n \in 0 .. MaxWrites
      BY <3>2 DEF Writes
    <3>4. QED
      BY <3>2, <3>3 DEF TypeOK
  <2>3. QED
    BY <2>1, <2>2, <1>1
<1>5. visible => d \notin Submitters
  BY <1>1 DEF Places, Folding
<1>6. Outstanding' \subseteq Outstanding
  <2>1. q # {} => Front(q) \in q
    BY <1>2, FrontIsFirst
  <2>2. \A a \in Actors : hand'[a] \subseteq Outstanding
    BY <2>1, <1>2, <1>3 DEF Outstanding, Queued
  <2>3. q' \subseteq q /\ retained' = retained
    BY <1>1, <1>3
  <2>4. QED
    BY <2>2, <2>3 DEF Outstanding, Queued
<1>7. \A a \in Actors : a # d => pc'[a] = pc[a]
  BY <1>2, <1>3
<1>8. pc'[d] \in {"drain", "apply", After(d)}
  BY <1>2, <1>3
<1>9. TypeOK'
  <2>1. q # {} => Front(q) \in Writes
    BY <1>2, FrontIsFirst
  <2>2. hand' \in [Actors -> SUBSET Writes] /\ q' \subseteq Writes
    BY <2>1, <1>2, <1>3
  <2>3. pc' \in [Actors -> Pcs] /\ inflight' \in Nat
    <3>1. After(d) \in Pcs /\ "drain" \in Pcs /\ "apply" \in Pcs
      BY AfterIs DEF Pcs
    <3>2. pc' = [pc EXCEPT ![d] = pc'[d]] /\ inflight' \in {inflight, 0, 1} /\ inflight \in Nat
      BY <1>2, <1>3 DEF TypeOK
    <3>3. QED
      BY <3>1, <3>2, <1>2, <1>8
  <2>4. raced' \in BOOLEAN
    BY <1>3 DEF TypeOK
  <2>5. QED
    BY <2>2, <2>3, <2>4, <1>1, <1>4 DEF TypeOK
<1>10. Places'
  <2>1. d = Pend => pc'[d] \in {"drain", "apply", "idle"}
    BY <1>8, AfterIs
  <2>2. d = Eop => pc'[d] \in {"drain", "apply", "post"}
    BY <1>8, AfterIs
  <2>3. d \in Submitters => pc'[d] \in {"drain", "apply", "fold"} /\ pc[d] \in Folding
    BY <1>1, <1>8, AfterIs DEF Folding, Places
  <2>4. \A t \in Submitters :
          /\ pc'[t] \in {"idle", "lock", "return"} \union Folding
          /\ visible => pc'[t] \notin {"gate", "drain", "apply"}
          /\ ~visible => pc'[t] \notin {"render", "batch"}
          /\ owner = t <=> pc'[t] \in Folding
    BY <2>3, <1>5, <1>7 DEF Places, Folding
  <2>5. pc'[Pend] \in {"idle", "gate", "drain", "apply"}
        /\ pc'[Eop] \in {"idle", "gate", "drain", "apply", "post"}
    BY <2>1, <2>2, <1>7 DEF Places
  <2>6. QED
    BY <2>4, <2>5, <1>1 DEF Places
<1>11. OneInFlight'
  <2>1. CASE pc[d] \in {"gate", "fold"} /\ inflight = 1 /\ raced' = TRUE
             /\ pc' = [pc EXCEPT ![d] = "drain"] /\ UNCHANGED <<q, hand, inflight>>
    BY <2>1, <1>2 DEF OneInFlight
  <2>2. CASE /\ \A a \in Actors : a # d => hand[a] = {}
             /\ hand' = [hand EXCEPT ![d] = {}] /\ raced' = raced
             /\ q = {} /\ q' = {} /\ inflight' = 0
             /\ pc' = [pc EXCEPT ![d] = After(d)]
    <3>1. \A a \in Actors : hand'[a] = {}
      BY <2>2, <1>2
    <3>2. pc'[d] \notin {"apply", "batch"}
      BY <2>2, <1>2, AfterIs
    <3>3. \A a \in Actors : pc'[a] \notin {"apply", "batch"}
      BY <2>2, <3>2, <1>7 DEF OneInFlight
    <3>4. QED
      BY <3>1, <3>3, <2>2 DEF OneInFlight
  <2>3. CASE /\ \A a \in Actors : a # d => hand[a] = {}
             /\ hand' = [hand EXCEPT ![d] = {Front(q)}] /\ raced' = raced
             /\ q # {} /\ q' = q \ {Front(q)} /\ inflight' = 1
             /\ pc' = [pc EXCEPT ![d] = "apply"]
    <3>1. hand'[d] # {} /\ pc'[d] = "apply" /\ \A a \in Actors : a # d => hand'[a] = {}
      BY <2>3, <1>2
    <3>2. \A a \in Actors : a # d => pc'[a] \notin {"apply", "batch"}
      BY <2>3, <1>7 DEF OneInFlight
    <3>3. QED
      BY <3>1, <3>2, <2>3 DEF OneInFlight
  <2>4. QED
    BY <2>1, <2>2, <2>3, <1>3
<1>12. ScopeExact'
  <2>1. \A t \in Submitters : pc'[t] = "idle" <=> pc[t] = "idle"
    BY <1>1, <1>7, <1>8, AfterIs
  <2>2. QED
    BY <2>1, <1>1 DEF ScopeExact
<1>13. Numbered'
  <2>1. \A t \in Submitters : pc'[t] = "idle" <=> pc[t] = "idle"
    BY <1>1, <1>7, <1>8, AfterIs
  <2>2. \A t \in Submitters : pc[t] = "return" => pc'[t] = "return"
    BY <1>1, <1>7
  <2>3. QED
    BY <2>1, <2>2, <1>1, <1>6 DEF Numbered
<1>14. \A a \in Actors : active = 0 => \A s : ~InScope(s)
  <2> SUFFICES ASSUME active = 0, NEW t \in Submitters, depth[t] > 0 PROVE FALSE
    BY DEF InScope
  <2> DEFINE S == {u \in Submitters : depth[u] > 0}
  <2>1. S \subseteq Submitters /\ t \in S /\ Cardinality(S) = 0
    BY DEF ScopeExact
  <2> HIDE DEF S
  <2>2. QED
    BY <2>1, CountScopes
<1>15. EventsExact'
  <2>1. left' > 0 <=> pc'[Eop] # "idle"
    <3>1. pc'[Eop] = "idle" <=> pc[Eop] = "idle"
      BY <1>1, <1>7, <1>8, AfterIs
    <3>2. QED
      BY <3>1, <1>1 DEF EventsExact
  <2>2. \A k \in 1 .. Through({"post"})' : \A w \in Outstanding' : w.by # pulses[k]
    <3>1. CASE Through({"post"})' = Through({"post"})
      BY <3>1, <1>6 DEF EventsExact
    <3>2. CASE d = Eop /\ pc'[Eop] = "post"
      <4>1. q' = {} /\ \A a \in Actors : hand'[a] = {}
        BY <3>2, <1>2, <1>3
      <4>2. Outstanding' = retained
        BY <4>1, <1>1 DEF Outstanding, Queued
      <4>3. SUFFICES ASSUME NEW k \in 1 .. Through({"post"})', NEW w \in retained,
                            w.by = pulses[k]
                     PROVE  FALSE
        BY <4>2
      <4>4. PICK t \in Submitters : owner = t /\ w.by = sub[t]
        BY DEF RetainedIsMine
      <4>5. pc[t] \in Folding
        BY <4>4 DEF Places
      <4>6. k \in DOMAIN pulses
        BY <3>2, <1>1, <1>2 DEF EventsExact, Through, TypeOK
      <4>7. QED
        BY <4>3, <4>4, <4>5, <4>6 DEF Numbered, Folding
    <3>3. CASE d = Eop /\ pc'[Eop] # "post"
      <4>1. Through({"post"})' = posted /\ Through({"post"}) = posted
        BY <3>3, <1>1, <1>2 DEF Through
      <4>2. QED
        BY <4>1, <3>1
    <3>4. CASE d # Eop
      BY <3>1, <3>4, <1>1, <1>7 DEF Through
    <3>5. QED
      BY <3>2, <3>3, <3>4
  <2>3. visible => \A k \in 1 .. Through({"drain", "apply", "post"})' : ~InScope(pulses[k])'
    <3>1. \A s : InScope(s)' <=> InScope(s)
      BY <1>1 DEF InScope
    <3>2. CASE Through({"drain", "apply", "post"})' = Through({"drain", "apply", "post"})
      BY <3>1, <3>2, <1>1 DEF EventsExact
    <3>3. CASE active = 0
      BY <3>1, <3>3, <1>1, <1>14, ActorsApart
    <3>4. CASE d = Eop /\ active # 0
      <4>1. pc[Eop] \in {"drain", "apply"} /\ pc'[Eop] \in {"drain", "apply", "post"}
        BY <3>4, <1>1, <1>8, AfterIs
      <4>2. QED
        BY <4>1, <3>2, <1>1 DEF Through
    <3>5. CASE d # Eop
      BY <3>2, <3>5, <1>1, <1>7 DEF Through
    <3>6. QED
      BY <3>3, <3>4, <3>5
  <2>4. QED
    BY <2>1, <2>2, <2>3, <1>1 DEF EventsExact
<1>16. TakenOutside'
  <2> SUFFICES ASSUME visible PROVE TakenOutside'
    BY <1>1 DEF TakenOutside
  <2>1. \A t \in Submitters : hand'[t] \subseteq hand[t]
    BY <1>2, <1>3, <1>5
  <2>2. d \in Workers => (pc'[d] = "drain" => raced') /\ (pc'[d] = "apply" /\ ~raced' => active = 0)
    <3>1. pc'[d] = "drain" => raced'
      BY <1>2, <1>3, AfterIs, <1>5 DEF TypeOK
    <3>2. pc'[d] = "apply" /\ ~raced' => ~raced
      BY <1>2, <1>3
    <3>3. pc[d] \in {"drain", "apply"} /\ ~raced /\ d \in Workers => active = 0
      BY DEF TakenOutside
    <3>4. QED
      BY <3>1, <3>2, <3>3, <1>1
  <2>3. \A a \in Workers : a # d => (raced => raced') /\ pc'[a] = pc[a]
    BY <1>3, <1>7
  <2>4. QED
    BY <2>1, <2>2, <2>3, <1>1 DEF TakenOutside
<1>17. RetainedIsMine'
  BY <1>1 DEF RetainedIsMine
<1>18. QED
  BY <1>9, <1>10, <1>11, <1>12, <1>13, <1>15, <1>16, <1>17

\* Every step does.
LEMMA NextIInv == ASSUME IInv, [Next]_vars PROVE IInv'
<1>1. CASE UNCHANGED vars
  <2>1. Outstanding' = Outstanding
    BY <1>1 DEF Outstanding, Queued, vars, queue, order
  <2>2. TypeOK' /\ Places' /\ OneInFlight' /\ ScopeExact' /\ TakenOutside'
    BY <1>1 DEF vars, queue, eop, order, IInv, TypeOK, Places, OneInFlight, ScopeExact, TakenOutside
  <2>3. Numbered' /\ EventsExact'
    BY <1>1, <2>1 DEF vars, queue, eop, IInv, Numbered, EventsExact, Through, InScope
  <2>4. RetainedIsMine'
    BY <1>1 DEF vars, order, IInv, RetainedIsMine
  <2>5. QED
    BY <2>2, <2>3, <2>4 DEF IInv
<1>2. ASSUME NEW t \in Submitters, Submit(t) PROVE IInv'
  <2>1. CASE Reject(t)
    BY <2>1, RejectStep, <1>1
  <2>2. CASE EndFold(t) \/ Copy(t) \/ DropCopies(t) \/ LandRetained(t) \/ Pulse(t)
    BY <2>2, FoldingStep, ReleaseStep DEF EndFold
  <2>3. CASE \E lo, hi \in Addrs, label, plain \in BOOLEAN :
               Packet(t, [lo |-> lo, hi |-> hi, label |-> label, plain |-> plain,
                          by |-> sub[t], n |-> nwrite + 1])
    BY <2>3, PacketStep
  <2>4. CASE Begin(t) \/ Lock(t) \/ Extract(t) \/ ApplyBatch(t) \/ Return(t)
    BY <2>4, BeginStep, LockStep, ExtractStep, ApplyBatchStep, ReturnStep
  <2>5. QED
    BY <1>2, <2>1, <2>2, <2>3, <2>4 DEF Submit
<1>3. ASSUME NEW d \in Actors, Drain(d) PROVE IInv'
  BY <1>3, DrainStep
<1>4. CASE PendWake \/ EopTake \/ EopPost \/ Elapse
  BY <1>4, PendWakeStep, EopTakeStep, EopPostStep, ElapseStep
<1>5. QED
  BY <1>1, <1>2, <1>3, <1>4 DEF Next

\* The inductive invariant holds, for any submitters, addresses, widths and bounds.
THEOREM Inductive == Spec => []IInv
BY InitIInv, NextIInv, PTL DEF Spec

-------------------------------------------------------------------------------
(* What follows for any width.                                             *)

\* One actor at a time holds writes that have not landed, inflight says so, and
\* active_submits counts the calls in their scope: no rejected call and no drain on
\* another thread moves either.
THEOREM CountsAreExact == Spec => []CountsAgree
<1>1. IInv => CountsAgree
  <2> SUFFICES ASSUME IInv PROVE CountsAgree
    OBVIOUS
  <2> DEFINE H == {a \in Actors : hand[a] # {}}
  <2>1. inflight = Cardinality(H)
    <3>1. CASE \E a \in Actors : hand[a] # {}
      <4>1. PICK a \in Actors : hand[a] # {}
        BY <3>1
      <4>2. H = {a} /\ inflight = 1
        BY <4>1 DEF IInv, OneInFlight
      <4>3. QED
        BY <4>2, FS_Singleton
    <3>2. CASE ~ \E a \in Actors : hand[a] # {}
      BY <3>2, FS_EmptySet DEF IInv, OneInFlight
    <3>3. QED
      BY <3>1, <3>2
  <2>2. inflight <= 1
    BY DEF IInv, OneInFlight
  <2>3. QED
    BY <2>1, <2>2 DEF CountsAgree, IInv, ScopeExact, EventsExact
<1>2. QED
  BY <1>1, Inductive, PTL

\* eop_post_now posts the event of a submit after its writes have landed and, with
\* post-submit visibility, after its call has returned.
THEOREM EventComesAfter == Spec => []EventAfterWrites
<1>1. IInv => EventAfterWrites
  <2> SUFFICES ASSUME IInv, NEW k \in 1 .. posted
               PROVE  /\ \A w \in Outstanding : w.by # pulses[k]
                      /\ visible => ~InScope(pulses[k])
    BY DEF EventAfterWrites
  <2>1. k \in 1 .. Through({"post"}) /\ k \in 1 .. Through({"drain", "apply", "post"})
    BY DEF IInv, TypeOK, Through
  <2>2. QED
    BY <2>1 DEF IInv, EventsExact
<1>2. QED
  BY <1>1, Inductive, PTL

\* While no drain has met another's write, no actor takes up a label whose submit call
\* has not returned, and the workers nothing at all of a call in progress.
THEOREM FencesArePrivate == Spec => []PrivateUnlessRaced
<1>1. IInv => PrivateUnlessRaced
  <2> SUFFICES ASSUME IInv, visible, ~raced
               PROVE  /\ QueuePrivate
                      /\ \A d \in Workers : \A w \in hand[d] : ~InScope(w.by)
    BY DEF PrivateUnlessRaced
  <2>1. ASSUME NEW d \in Workers, hand[d] # {} PROVE \A s : ~InScope(s)
    <3>1. active = 0
      BY <2>1, ActorsApart DEF IInv, OneInFlight, Places, TakenOutside
    <3> SUFFICES ASSUME NEW t \in Submitters, depth[t] > 0 PROVE FALSE
      BY DEF InScope
    <3> DEFINE S == {u \in Submitters : depth[u] > 0}
    <3>2. S \subseteq Submitters /\ t \in S /\ Cardinality(S) = 0
      BY <3>1 DEF IInv, ScopeExact
    <3> HIDE DEF S
    <3>3. QED
      BY <3>2, CountScopes
  <2>2. \A d \in Workers : \A w \in hand[d] : ~InScope(w.by)
    BY <2>1
  <2>3. \A t \in Submitters : \A w \in hand[t] : ~w.label
    BY DEF IInv, TakenOutside
  <2>4. QueuePrivate
    BY <2>2, <2>3, ActorsApart DEF QueuePrivate
  <2>5. QED
    BY <2>2, <2>4
<1>2. QED
  BY <1>1, Inductive, PTL

\* pend_overlay_qword gives a wait of the fold the last write queued for the word it reads,
\* when all that are queued for the word begin at the label and are plain, while no drain
\* has met another's write.
THEOREM FoldReadsNewest == Spec => []FoldSeesNewest
<1>1. IInv => FoldSeesNewest
  <2> SUFFICES ASSUME IInv, visible, ~raced,
                      NEW t \in Submitters, pc[t] = "fold", depth[t] > 0,
                      NEW x \in Addrs, NEW y \in Addrs,
                      \A w \in Queued : Covers(w, y) => w.plain /\ w.lo = x,
                      NEW w \in Queued, Covers(w, y)
               PROVE  w.n <= Overlay(x, y)
    BY DEF FoldSeesNewest
  <2> USE CompletionAssumption, ActorsApart DEF IInv
  <2>1. \A a \in Actors : hand[a] = {}
    <3>1. active # 0
      <4> DEFINE S == {u \in Submitters : depth[u] > 0}
      <4>1. S \subseteq Submitters /\ t \in S /\ active = Cardinality(S)
        BY DEF ScopeExact
      <4> HIDE DEF S
      <4>2. QED
        BY <4>1, CountScopes
    <3>2. \A d \in Workers : pc[d] \notin {"apply", "batch"}
      BY <3>1 DEF TakenOutside, Places
    <3>3. \A u \in Submitters : pc[u] \notin {"apply", "batch"}
      BY DEF Places, Folding
    <3>4. QED
      BY <3>2, <3>3 DEF OneInFlight
  <2>2. w \in q /\ q \subseteq Writes /\ w.plain /\ w.lo = x
    BY <2>1, OutstandingIs DEF TypeOK
  <2> DEFINE at == {v \in q : v.plain /\ v.lo = x /\ Covers(v, y)}
             Ns == {v.n : v \in at}
  <2>3. w \in at
    BY <2>2
  <2>4. w.n \in Ns /\ Ns \subseteq 0 .. MaxWrites
    BY <2>2, <2>3 DEF Writes
  <2>5. PICK m \in Ns : \A k \in Ns : k <= m
    <3> HIDE DEF Ns
    <3>1. QED
      BY <2>4, Greatest
  <2>6. Overlay(x, y) = CHOOSE n \in Ns : \A v \in at : v.n <= n
    BY <2>3 DEF Overlay
  <2>7. \A v \in at : v.n <= m
    BY <2>5
  <2>8. \A v \in at : v.n <= Overlay(x, y)
    <3> HIDE DEF at
    <3>1. QED
      BY <2>5, <2>6, <2>7
  <2>9. QED
    BY <2>3, <2>8
<1>2. QED
  BY <1>1, Inductive, PTL

-------------------------------------------------------------------------------
(* Where what is written to a label's word is written to it alone.         *)

\* The addresses for which the order is kept.
Kept == Addrs \ crossed

\* A write that lands ahead of all that is still outstanding for its addresses keeps what
\* has landed behind what has not.
LEMMA LandKeepsOrder ==
  ASSUME IInvApart, NEW f \in Outstanding, Land(f), NEW Left, Left \subseteq Outstanding,
         \A w \in Left : \A x \in Kept : Covers(f, x) /\ Covers(w, x) => f.n < w.n
  PROVE  /\ \A x \in Addrs : mem'[x] <= nwrite
         /\ \A x \in Kept : mem[x] <= mem'[x]
         /\ \A w \in Left : \A x \in Kept : Covers(w, x) => mem'[x] <= w.n
<1> USE DEF IInvApart, IInv, InOrder
<1>1. Outstanding \subseteq Writes
  BY DEF Outstanding, Queued, TypeOK
<1>2. /\ f.n \in Nat /\ f.n <= nwrite
      /\ \A x \in Kept : Covers(f, x) => mem[x] <= f.n
  BY <1>1 DEF Writes, Numbered, Kept
<1>3. \A x \in Addrs : mem'[x] = IF Covers(f, x) THEN f.n ELSE mem[x]
  BY DEF Land
<1>4. nwrite \in Nat /\ \A x \in Addrs : mem[x] \in Nat /\ mem[x] <= nwrite
  BY DEF TypeOK
<1>5. \A x \in Addrs : mem'[x] <= nwrite
  BY <1>2, <1>3, <1>4
<1>6. \A x \in Kept : mem[x] <= mem'[x]
  BY <1>2, <1>3, <1>4 DEF Kept
<1>7. ASSUME NEW w \in Left, NEW x \in Kept, Covers(w, x) PROVE mem'[x] <= w.n
  <2>1. w.n \in Nat /\ mem[x] <= w.n /\ (Covers(f, x) => f.n < w.n)
    BY <1>1, <1>7 DEF Writes, Kept
  <2>2. mem'[x] = IF Covers(f, x) THEN f.n ELSE mem[x]
    BY <1>3 DEF Kept
  <2>3. QED
    BY <2>1, <2>2, <1>2
<1>8. QED
  BY <1>5, <1>6, <1>7

\* What nothing is done to keeps its order, though something retained be dropped.
LEMMA StillInOrder ==
  ASSUME IInvApart, UNCHANGED <<q, hand, mem, nwrite, crossed>>, retained' \subseteq retained
  PROVE  InOrder' /\ \A x \in Kept : mem[x] <= mem'[x]
<1>1. Queued' = Queued /\ Outstanding' \subseteq Outstanding
  BY DEF Outstanding, Queued
<1>2. \A x \in Addrs : mem[x] \in Nat
  BY DEF IInvApart, IInv, TypeOK
<1>3. \A x \in Kept : mem[x] <= mem'[x]
  BY <1>2 DEF Kept
<1>4. QED
  BY <1>1, <1>3 DEF IInvApart, InOrder

\* A write joins the end of the queue, or of what is retained; the addresses for which
\* the other has one are remembered.
LEMMA PacketInOrder ==
  ASSUME IInvApart, NEW t \in Submitters, NEW w, Packet(t, w),
         w.n = nwrite + 1, w.lo <= w.hi, Apart(w), w.label => w.lo \in Labels
  PROVE  InOrder' /\ mem' = mem
<1> USE ActorsApart DEF IInvApart, IInv
<1>1. /\ nwrite' = nwrite + 1 /\ UNCHANGED <<hand, mem>>
      /\ \/ /\ q' = q /\ retained' = retained \union {w}
            /\ crossed' = crossed \union Meets(w, Queued)
         \/ /\ q' = q \union {w} /\ retained' = retained
            /\ crossed' = crossed \union Meets(w, retained)
  BY DEF Packet
<1>2. /\ nwrite \in Nat /\ Outstanding \subseteq Writes /\ Queued \subseteq Outstanding
      /\ \A y \in Addrs : mem[y] \in Nat
  BY DEF TypeOK, Outstanding, Queued
<1>3. \A y \in Addrs : mem[y] <= nwrite + 1
  BY <1>2 DEF InOrder
<1>4. \A v \in Outstanding : v.n < nwrite + 1
  BY <1>2 DEF Numbered, Writes
<1>5. Outstanding' = Outstanding \union {w}
  BY <1>1 DEF Outstanding, Queued
<1>6. /\ \A v \in Outstanding' : v.lo <= v.hi /\ Apart(v) /\ (v.label => v.lo \in Labels)
      /\ \A v \in Outstanding' : \A x \in Addrs \ crossed' : Covers(v, x) => mem[x] <= v.n
  BY <1>1, <1>3, <1>5 DEF InOrder
<1>7. \A a \in Actors : \A u \in hand[a] : \A v \in q' : \A x \in Addrs :
        Covers(u, x) /\ Covers(v, x) => u.n < v.n
  BY <1>1, <1>2, <1>4, OutstandingIs DEF InOrder
<1>8. \A v \in retained' : \A u \in Queued' : \A x \in Addrs :
        Covers(v, x) /\ Covers(u, x) => x \in crossed'
  <2>1. CASE q' = q /\ retained' = retained \union {w}
             /\ crossed' = crossed \union Meets(w, Queued)
    <3>1. Queued' = Queued
      BY <2>1, <1>1 DEF Queued
    <3>2. QED
      BY <3>1, <2>1 DEF InOrder, Meets
  <2>2. CASE q' = q \union {w} /\ retained' = retained
             /\ crossed' = crossed \union Meets(w, retained)
    <3>1. Queued' = Queued \union {w}
      BY <2>2, <1>1 DEF Queued
    <3>2. QED
      BY <3>1, <2>2 DEF InOrder, Meets
  <2>3. QED
    BY <1>1, <2>1, <2>2
<1>9. QED
  BY <1>1, <1>3, <1>6, <1>7, <1>8 DEF InOrder

\* What is retained lands from its front: nothing is queued for the address, but where
\* the addresses were crossed.
LEMMA LandRetainedInOrder ==
  ASSUME IInvApart, NEW t \in Submitters, LandRetained(t)
  PROVE  InOrder' /\ \A x \in Kept : mem[x] <= mem'[x]
<1> USE CompletionAssumption, ActorsApart DEF IInvApart, IInv
<1> DEFINE f == Front(retained)
<1>1. /\ retained # {} /\ Land(f) /\ retained' = retained \ {f}
      /\ UNCHANGED <<q, hand, nwrite, crossed>>
  BY DEF LandRetained, queue
<1>2. retained \subseteq Outstanding /\ Outstanding \subseteq Writes
  BY DEF Outstanding, Queued, TypeOK
<1>3. f \in retained /\ \A v \in retained : f.n <= v.n
  BY <1>1, <1>2, FrontIsFirst
<1> HIDE DEF f
<1>4. Queued' = Queued /\ Outstanding' = Queued \union (retained \ {f})
      /\ Outstanding' \subseteq Outstanding
  BY <1>1 DEF Outstanding, Queued
<1>5. \A w \in retained \ {f} : f.n < w.n
  <2>1. \A w \in retained \ {f} : w.n # f.n /\ w.n \in Nat /\ f.n \in Nat
    BY <1>2, <1>3 DEF Numbered, Writes
  <2>2. QED
    BY <2>1, <1>3
<1>6. \A w \in Queued : \A x \in Addrs : Covers(f, x) /\ Covers(w, x) => x \in crossed
  BY <1>3 DEF InOrder
<1>7. /\ \A x \in Addrs : mem'[x] <= nwrite
      /\ \A x \in Kept : mem[x] <= mem'[x]
      /\ \A w \in Outstanding' : \A x \in Kept : Covers(w, x) => mem'[x] <= w.n
  <2>1. \A w \in Outstanding' : \A x \in Kept : Covers(f, x) /\ Covers(w, x) => f.n < w.n
    BY <1>4, <1>5, <1>6 DEF Kept
  <2>2. QED
    BY <2>1, <1>1, <1>2, <1>3, <1>4, LandKeepsOrder
<1>8. QED
  BY <1>1, <1>4, <1>7 DEF InOrder, Kept

\* The renderer's batch passes no write of the same address.
LEMMA ExtractInOrder ==
  ASSUME IInvApart, NEW t \in Submitters, Extract(t)
  PROVE  InOrder' /\ mem' = mem
<1> USE CompletionAssumption, ActorsApart DEF IInvApart, IInv
<1> DEFINE ready == {w \in q : RendererWrite(w)}
<1>1. inflight = 0 /\ UNCHANGED <<mem, nwrite, retained, crossed>>
  BY DEF Extract, order
<1>2. hand \in [Actors -> SUBSET Writes] /\ q \subseteq Writes
  BY DEF TypeOK
<1>3. \A a \in Actors : hand[a] = {}
  BY <1>1 DEF OneInFlight
<1>4. CASE ready = {}
  <2>1. UNCHANGED <<q, hand>>
    BY <1>4 DEF Extract
  <2>2. QED
    BY <1>1, <2>1, StillInOrder
<1>5. CASE ready # {}
  <2>1. q' = q \ ready /\ hand' = [hand EXCEPT ![t] = ready]
    BY <1>5 DEF Extract
  <2>2. hand'[t] = ready /\ \A a \in Actors : a # t => hand'[a] = {}
    BY <2>1, <1>2, <1>3
  <2>3. Queued' \subseteq Queued /\ Outstanding' \subseteq Outstanding
    BY <1>1, <2>1, <2>2 DEF Outstanding, Queued
  <2>4. \A w \in ready : \A v \in q \ ready : \A x \in Addrs : ~(Covers(w, x) /\ Covers(v, x))
    <3> SUFFICES ASSUME NEW w \in ready, NEW v \in q \ ready, NEW x \in Addrs,
                        Covers(w, x), Covers(v, x)
                 PROVE  FALSE
      OBVIOUS
    <3>1. /\ \A u \in q : /\ u.lo \in Nat /\ u.hi \in Nat /\ u.lo <= u.hi /\ Apart(u)
                          /\ u.label => u.lo \in Labels
          /\ x \in Nat
      BY <1>2 DEF InOrder, Outstanding, Queued, Writes
    <3>2. PICK u \in q : u.label /\ Overlap(u, v)
      <4>1. CASE v.label
        BY <4>1, <3>1 DEF Overlap
      <4>2. CASE ~v.label
        BY <4>2 DEF RendererWrite
      <4>3. QED
        BY <4>1, <4>2
    <3>3. u.lo = u.hi
      <4>1. u.lo \in Labels /\ Covers(u, u.lo)
        BY <3>1, <3>2 DEF Covers
      <4>2. QED
        BY <4>1, <3>1 DEF Apart
    <3>4. v.lo = u.lo /\ v.hi = u.lo
      <4>1. u.lo \in Labels /\ Covers(v, u.lo)
        BY <3>1, <3>2, <3>3 DEF Covers, Overlap
      <4>2. v.lo = v.hi
        BY <4>1, <3>1 DEF Apart
      <4>3. QED
        BY <4>1, <4>2, <3>1 DEF Covers
    <3>5. x = u.lo
      BY <3>4, <3>1 DEF Covers
    <3>6. Overlap(u, w)
      BY <3>1, <3>3, <3>5 DEF Overlap, Covers
    <3>7. QED
      BY <3>2, <3>6 DEF RendererWrite
  <2> HIDE DEF ready
  <2>5. QED
    BY <1>1, <2>1, <2>2, <2>3, <2>4 DEF InOrder
<1>6. QED
  BY <1>4, <1>5

\* The batch lands from its front.
LEMMA ApplyBatchInOrder ==
  ASSUME IInvApart, NEW t \in Submitters, ApplyBatch(t)
  PROVE  InOrder' /\ \A x \in Kept : mem[x] <= mem'[x]
<1> USE CompletionAssumption, ActorsApart DEF IInvApart, IInv
<1> DEFINE f == Front(hand[t])
<1>1. /\ pc[t] = "batch" /\ Land(f) /\ hand' = [hand EXCEPT ![t] = @ \ {f}]
      /\ UNCHANGED <<q, nwrite, retained, crossed>>
  BY DEF ApplyBatch, order
<1>2. hand \in [Actors -> SUBSET Writes] /\ q \subseteq Writes
  BY DEF TypeOK
<1>3. hand[t] # {} /\ \A a \in Actors : a # t => hand[a] = {}
  BY <1>1 DEF OneInFlight
<1>4. f \in hand[t] /\ \A v \in hand[t] : f.n <= v.n
  BY <1>2, <1>3, FrontIsFirst
<1> HIDE DEF f
<1>5. hand'[t] = hand[t] \ {f} /\ \A a \in Actors : a # t => hand'[a] = {}
  BY <1>1, <1>2, <1>3
<1>6. /\ Queued' \subseteq Queued /\ Outstanding' \subseteq Outstanding
      /\ Outstanding' = q \union (hand[t] \ {f}) \union retained
  BY <1>1, <1>5 DEF Outstanding, Queued
<1>7. \A w \in Outstanding' : \A x \in Kept : Covers(f, x) /\ Covers(w, x) => f.n < w.n
  <2>1. f \in Outstanding /\ f \in Writes /\ Outstanding \subseteq Writes
    BY <1>2, <1>4, OutstandingIs DEF TypeOK, Outstanding, Queued
  <2>2. \A w \in q : \A x \in Kept : Covers(f, x) /\ Covers(w, x) => f.n < w.n
    BY <1>4 DEF InOrder, Kept
  <2>3. \A w \in hand[t] \ {f} : f.n < w.n
    <3>1. \A w \in hand[t] \ {f} : w.n # f.n /\ w.n \in Nat
      BY <2>1, <1>2, OutstandingIs DEF Numbered, Writes
    <3>2. f.n \in Nat
      BY <2>1 DEF Writes
    <3>3. QED
      BY <3>1, <3>2, <1>4
  <2>4. \A w \in retained : \A x \in Kept : ~(Covers(f, x) /\ Covers(w, x))
    BY <1>4, OutstandingIs DEF InOrder, Kept
  <2>5. QED
    BY <2>2, <2>3, <2>4, <1>6
<1>8. f \in Outstanding
  BY <1>4, OutstandingIs
<1>9. /\ \A x \in Addrs : mem'[x] <= nwrite
      /\ \A x \in Kept : mem[x] <= mem'[x]
      /\ \A w \in Outstanding' : \A x \in Kept : Covers(w, x) => mem'[x] <= w.n
  BY <1>1, <1>6, <1>7, <1>8, LandKeepsOrder
<1>10. \A a \in Actors : \A w \in hand'[a] : \A v \in q : \A x \in Addrs :
         Covers(w, x) /\ Covers(v, x) => w.n < v.n
  BY <1>5 DEF InOrder
<1>11. QED
  BY <1>1, <1>6, <1>9, <1>10 DEF InOrder, Kept

\* A drain lands what it holds and takes the front of the queue.
LEMMA DrainInOrder ==
  ASSUME IInvApart, NEW d \in Actors, Drain(d)
  PROVE  InOrder' /\ \A x \in Kept : mem[x] <= mem'[x]
<1> USE CompletionAssumption, ActorsApart DEF IInvApart, IInv
<1>1. /\ UNCHANGED <<nwrite, retained, crossed>>
      /\ mem' = mem \/ (pc[d] = "apply" /\ Land(Front(hand[d])))
      /\ \/ pc[d] # "apply" /\ UNCHANGED <<q, hand>>
         \/ /\ \A a \in Actors : a # d => hand[a] = {}
            /\ \/ hand' = [hand EXCEPT ![d] = {}] /\ q' = q
               \/ q # {} /\ hand' = [hand EXCEPT ![d] = {Front(q)}] /\ q' = q \ {Front(q)}
  BY DrainCases
<1>2. /\ hand \in [Actors -> SUBSET Writes] /\ q \subseteq Writes /\ Outstanding \subseteq Writes
      /\ \A x \in Addrs : mem[x] \in Nat
  BY DEF TypeOK, Outstanding, Queued
<1>3. q # {} => /\ Front(q) \in q
                /\ \A v \in q : v # Front(q) => Front(q).n < v.n
  <2> SUFFICES ASSUME q # {}, NEW v \in q, v # Front(q)
               PROVE  Front(q) \in q /\ Front(q).n < v.n
    BY <1>2, FrontIsFirst
  <2>1. Front(q) \in q /\ Front(q).n <= v.n
    BY <1>2, FrontIsFirst
  <2>2. Front(q).n # v.n
    BY <2>1, OutstandingIs DEF Numbered
  <2>3. Front(q).n \in Nat /\ v.n \in Nat
    BY <2>1, <1>2 DEF Writes
  <2>4. QED
    BY <2>1, <2>2, <2>3
<1>4. Queued' \subseteq Queued /\ Outstanding' \subseteq Outstanding
  BY <1>1, <1>2, <1>3, OutstandingIs DEF Outstanding, Queued
<1>5. \A a \in Actors : \A w \in hand'[a] : \A v \in q' : \A x \in Addrs :
        Covers(w, x) /\ Covers(v, x) => w.n < v.n
  <2>1. CASE UNCHANGED <<q, hand>>
    BY <2>1 DEF InOrder
  <2>2. CASE /\ \A a \in Actors : a # d => hand[a] = {}
             /\ hand' = [hand EXCEPT ![d] = {}] /\ q' = q
    BY <2>2, <1>2
  <2>3. CASE /\ \A a \in Actors : a # d => hand[a] = {}
             /\ q # {} /\ hand' = [hand EXCEPT ![d] = {Front(q)}] /\ q' = q \ {Front(q)}
    BY <2>3, <1>2, <1>3
  <2>4. QED
    BY <2>1, <2>2, <2>3, <1>1
<1>6. /\ \A x \in Addrs : mem'[x] <= nwrite
      /\ \A x \in Kept : mem[x] <= mem'[x]
      /\ \A w \in Outstanding' : \A x \in Kept : Covers(w, x) => mem'[x] <= w.n
  <2>1. CASE mem' = mem
    BY <2>1, <1>2, <1>4 DEF InOrder, Kept
  <2>2. CASE pc[d] = "apply" /\ Land(Front(hand[d]))
    <3> DEFINE f == Front(hand[d])
    <3>1. hand[d] # {} /\ f \in hand[d]
      BY <2>2, <1>2, FrontIsFirst DEF OneInFlight
    <3> HIDE DEF f
    <3>2. /\ q' \subseteq q
          /\ \A a \in Actors : hand'[a] \subseteq q
      BY <2>2, <1>1, <1>2, <1>3
    <3>3. Outstanding' \subseteq q \union retained
      BY <1>1, <3>2 DEF Outstanding, Queued
    <3>4. \A w \in Outstanding' : \A x \in Kept : Covers(f, x) /\ Covers(w, x) => f.n < w.n
      BY <3>1, <3>3, OutstandingIs DEF InOrder, Kept
    <3>5. f \in Outstanding /\ Land(f)
      BY <3>1, <2>2, OutstandingIs DEF f
    <3>6. QED
      BY <3>4, <3>5, <1>4, LandKeepsOrder
  <2>3. QED
    BY <2>1, <2>2, <1>1
<1>7. QED
  BY <1>1, <1>4, <1>5, <1>6 DEF InOrder, Kept

\* Init has it, every step keeps it, and no step takes an address back.
LEMMA ApartSteps ==
  ASSUME LabelsApart
  PROVE  /\ Init => IInvApart
         /\ IInvApart /\ [Next]_vars =>
              IInvApart' /\ [\A x \in Addrs \ crossed : mem'[x] >= mem[x]]_vars
<1> USE CompletionAssumption, ActorsApart
<1>1. Init => IInvApart
  <2> SUFFICES ASSUME Init PROVE InOrder
    BY InitIInv DEF IInvApart
  <2>1. Outstanding = {} /\ retained = {} /\ \A a \in Actors : hand[a] = {}
    BY DEF Init, Outstanding, Queued
  <2>2. QED
    BY <2>1 DEF InOrder, Init
<1>2. ASSUME IInvApart, [Next]_vars
      PROVE  InOrder' /\ \A x \in Kept : mem[x] <= mem'[x]
  <2>1. \A x \in Kept : mem[x] \in Nat
    BY <1>2 DEF IInvApart, IInv, TypeOK, Kept
  <2>2. ASSUME NEW t \in Submitters, Submit(t)
        PROVE  InOrder' /\ \A x \in Kept : mem[x] <= mem'[x]
    <3>1. CASE \/ Begin(t) \/ Reject(t) \/ Lock(t) \/ Return(t)
               \/ Copy(t) \/ DropCopies(t) \/ EndFold(t) \/ Pulse(t)
      <4>1. UNCHANGED <<q, hand, mem, nwrite, crossed>> /\ retained' \subseteq retained
        BY <3>1 DEF Begin, Reject, Lock, Return, Copy, DropCopies, EndFold, Decline, Execute,
                    Pulse, queue, order
      <4>2. QED
        BY <4>1, <1>2, StillInOrder
    <3>2. ASSUME NEW lo \in Addrs, NEW hi \in Addrs, NEW label \in BOOLEAN,
                 NEW plain \in BOOLEAN, NEW w,
                 w = [lo |-> lo, hi |-> hi, label |-> label, plain |-> plain,
                      by |-> sub[t], n |-> nwrite + 1],
                 lo <= hi, IF label THEN lo \in Labels ELSE plain, Apart(w), Packet(t, w)
          PROVE  InOrder' /\ \A x \in Kept : mem[x] <= mem'[x]
      <4>1. w.n = nwrite + 1 /\ w.lo <= w.hi /\ w.lo = lo /\ w.label = label
        BY <3>2
      <4>2. InOrder' /\ mem' = mem
        BY <4>1, <3>2, <1>2, PacketInOrder
      <4>3. QED
        BY <4>2, <2>1
    <3>3. CASE Extract(t)
      BY <3>3, <1>2, <2>1, ExtractInOrder
    <3>4. CASE ApplyBatch(t) \/ LandRetained(t)
      BY <3>4, <1>2, ApplyBatchInOrder, LandRetainedInOrder
    <3>5. QED
      BY <2>2, <3>1, <3>2, <3>3, <3>4 DEF Submit
  <2>3. ASSUME NEW d \in Actors, Drain(d)
        PROVE  InOrder' /\ \A x \in Kept : mem[x] <= mem'[x]
    BY <2>3, <1>2, DrainInOrder
  <2>4. CASE PendWake \/ EopTake \/ EopPost \/ Elapse \/ UNCHANGED vars
    <3>1. UNCHANGED <<q, hand, mem, nwrite, crossed>> /\ retained' \subseteq retained
      BY <2>4 DEF PendWake, EopTake, EopPost, Elapse, queue, order, vars
    <3>2. QED
      BY <3>1, <1>2, StillInOrder
  <2>5. QED
    BY <1>2, <2>2, <2>3, <2>4 DEF Next
<1>3. ASSUME IInvApart, [Next]_vars
      PROVE  IInvApart' /\ [\A x \in Addrs \ crossed : mem'[x] >= mem[x]]_vars
  <2>1. IInv'
    BY <1>3, NextIInv DEF IInvApart
  <2>2. \A x \in Addrs : mem[x] \in Nat /\ mem'[x] \in Nat
    BY <1>3, <2>1 DEF IInvApart, IInv, TypeOK
  <2>3. QED
    BY <1>2, <1>3, <2>1, <2>2 DEF IInvApart, Kept
<1>4. QED
  BY <1>1, <1>3

\* With labels apart, the queue, what is in flight and what is retained keep the order, but
\* for the addresses for which one write was queued and one retained.
THEOREM InductiveApart == ASSUME LabelsApart PROVE Spec => []IInvApart
BY ApartSteps, PTL DEF Spec

\* Writes to one address land in the order the fold met them, whoever lands them
\* (pend_drain_locked, the renderer's batch, execute_ordered_memory_effect), unless one
\* was retained behind a copy while another was queued for the address, or a wide one
\* covers a label's word and more.
THEOREM WritesLandInOrder == ASSUME LabelsApart PROVE Spec => LandInOrder
<1>1. IInvApart /\ [Next]_vars => [\A x \in Addrs \ crossed : mem'[x] >= mem[x]]_vars
  BY ApartSteps
<1>2. QED
  BY <1>1, InductiveApart, PTL DEF Spec, LandInOrder

===============================================================================
