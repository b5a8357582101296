---------------------------- MODULE EventQueueProofs ----------------------------
(***************************************************************************)
(* Theorems about the event queues, for any threads, any capacity and any  *)
(* number of posts and of queues at the address: counted events are not    *)
(* lost, pointer tags come in order, what is queued was meant for this     *)
(* queue, and a cancelled timer fires at most once more.                   *)
(***************************************************************************)
EXTENDS EventQueue, FiniteSetTheorems, SequenceTheorems, WellFoundedInduction, TLAPS

-------------------------------------------------------------------------------
(* Sets of numbers.                                                        *)

\* A set of natural numbers has a least one, and First picks it.
LEMMA FirstOf ==
  ASSUME NEW S, S \subseteq Nat, S # {}
  PROVE  First(S) \in S /\ \A j \in S : First(S) <= j
<1>1. PICK x \in S : \A y \in S : <<y, x>> \notin OpToRel(<, Nat)
  BY NatLessThanWellFounded, WFMin
<1>2. \A y \in S : <<y, x>> \in Nat \X Nat
  OBVIOUS
<1>3. \A y \in S : ~ (y < x)
  BY <1>1, <1>2 DEF OpToRel
<1>4. \E i \in S : \A j \in S : i <= j
  BY <1>3
<1>5. QED
  BY <1>4 DEF First

\* A bounded set has a greatest one, which Final picks.
LEMMA FinalOf ==
  ASSUME NEW S, NEW b \in Nat, S \subseteq 0 .. b, S # {}
  PROVE  Final(S) \in S /\ \A j \in S : j <= Final(S)
<1> DEFINE R == {b - k : k \in S}
<1>1. \A k \in S : k \in Nat /\ b - k \in Nat
  BY SMT
<1>2. R \subseteq Nat /\ R # {}
  BY <1>1
<1>3. First(R) \in R /\ \A k \in R : First(R) <= k
  <2> HIDE DEF R
  <2> QED
    BY <1>2, FirstOf
<1>4. PICK m \in S : First(R) = b - m
  BY <1>3
<1>5. \A k \in S : b - k >= b - m
  BY <1>3, <1>4
<1>6. \A k \in S : k <= m
  BY <1>1, <1>5
<1>7. QED
  BY <1>6 DEF Final

\* Sets that correspond one to one are of one size.
LEMMA SameSize ==
  ASSUME NEW S, NEW T, IsFiniteSet(S), NEW f \in [S -> T],
         \A x, y \in S : f[x] = f[y] => x = y,
         \A z \in T : \E x \in S : f[x] = z
  PROVE  IsFiniteSet(T) /\ Cardinality(T) = Cardinality(S)
<1>1. f \in Bijection(S, T)
  BY DEF Bijection, Injection, Surjection, IsInjective
<1>2. ExistsBijection(S, T)
  BY <1>1 DEF ExistsBijection
<1>3. QED
  BY <1>2, FS_Bijection

LEMMA IndicesFinite ==
  ASSUME NEW n \in Nat, NEW S, S \subseteq 1 .. n
  PROVE  IsFiniteSet(S) /\ Cardinality(S) \in Nat /\ (Cardinality(S) = 0 <=> S = {})
<1>1. IsFiniteSet(1 .. n)
  BY FS_Interval
<1>2. IsFiniteSet(S)
  BY <1>1, FS_Subset
<1>3. QED
  BY <1>2, FS_CardinalityType, FS_EmptySet

\* Taking place k out of a sequence moves the places behind it forward by one.
LEMMA DropCount ==
  ASSUME NEW n \in Nat, NEW k \in 1 .. n, NEW S, S \subseteq 1 .. n, k \notin S,
         NEW T, T \subseteq 1 .. n - 1,
         \A i \in 1 .. n - 1 : i \in T <=> (IF i < k THEN i ELSE i + 1) \in S
  PROVE  Cardinality(T) = Cardinality(S)
<1> DEFINE f == [i \in S |-> IF i < k THEN i ELSE i - 1]
<1>1. ASSUME NEW i \in S
      PROVE f[i] \in 1 .. n - 1 /\ (IF f[i] < k THEN f[i] ELSE f[i] + 1) = i
  BY SMT
<1>2. f \in [S -> T]
  <2>1. \A i \in S : f[i] \in T
    <3> SUFFICES ASSUME NEW i \in S PROVE f[i] \in T
      OBVIOUS
    <3> HIDE DEF f
    <3>1. QED
      BY <1>1
  <2>2. QED
    BY <2>1
<1>3. \A x, y \in S : f[x] = f[y] => x = y
  <2> HIDE DEF f
  <2>1. QED
    BY <1>1
<1>4. \A z \in T : \E x \in S : f[x] = z
  <2> SUFFICES ASSUME NEW z \in T PROVE \E x \in S : f[x] = z
    OBVIOUS
  <2>1. (IF z < k THEN z ELSE z + 1) \in S
    OBVIOUS
  <2>2. f[IF z < k THEN z ELSE z + 1] = z
    BY <2>1, SMT
  <2>3. QED
    BY <2>1, <2>2
<1>5. IsFiniteSet(S)
  BY IndicesFinite
<1> HIDE DEF f
<1>6. QED
  BY <1>2, <1>3, <1>4, <1>5, SameSize

\* Cutting a sequence after place c divides what is counted of it.
LEMMA RestCount ==
  ASSUME NEW n \in Nat, NEW c \in 0 .. n, NEW S, S \subseteq 1 .. n
  PROVE  Cardinality(S) = Cardinality(S \cap 1 .. c)
                            + Cardinality({i \in 1 .. n - c : i + c \in S})
<1> DEFINE F == S \cap 1 .. c
           T == {i \in 1 .. n - c : i + c \in S}
           R == {i \in S : i > c}
           f == [i \in R |-> i - c]
<1>0. \A i \in S : i \in Int /\ i >= 1 /\ i <= n
  OBVIOUS
<1>1. f \in [R -> T]
  <2>1. ASSUME NEW i \in R PROVE i - c \in T
    <3>1. i - c \in 1 .. n - c /\ (i - c) + c = i
      BY <1>0
    <3>2. QED
      BY <3>1
  <2>2. QED
    BY <2>1
<1>2. \A x, y \in R : f[x] = f[y] => x = y
  BY SMT
<1>3. \A z \in T : \E x \in R : f[x] = z
  <2> SUFFICES ASSUME NEW z \in T PROVE \E x \in R : f[x] = z
    OBVIOUS
  <2>1. z + c \in R /\ f[z + c] = z
    BY SMT
  <2>2. QED
    BY <2>1
<1>4. /\ IsFiniteSet(R) /\ IsFiniteSet(F) /\ F \subseteq 1 .. n
      /\ S = F \union R /\ F \cap R = {}
  <2>1. R \subseteq 1 .. n /\ F \subseteq 1 .. n
    OBVIOUS
  <2>2. S = F \union R /\ F \cap R = {}
    <3>1. ASSUME NEW i \in S PROVE i \in F <=> ~(i > c)
      <4>1. i \in 1 .. c <=> ~(i > c)
        BY <1>0
      <4>2. QED
        BY <4>1
    <3>2. \A i \in F : i \in S
      OBVIOUS
    <3>3. QED
      BY <3>1, <3>2
  <2>3. QED
    BY <2>1, <2>2, IndicesFinite
<1>5. Cardinality(T) = Cardinality(R)
  <2> HIDE DEF R, f
  <2>1. QED
    BY <1>1, <1>2, <1>3, <1>4, SameSize, SMTT(30)
<1>6. Cardinality(S) = Cardinality(F) + Cardinality(R) - 0
  <2> HIDE DEF R
  <2>1. QED
    BY <1>4, FS_Union, FS_EmptySet
<1>7. Cardinality(F) \in Nat /\ Cardinality(R) \in Nat
  BY <1>4, FS_CardinalityType
<1>8. QED
  BY <1>5, <1>6, <1>7

-------------------------------------------------------------------------------
(* The queue of events as a sequence.                                      *)

\* Counted events are not coalescible and all others are, one for each source.
Orderly(s) ==
  /\ s \in Seq(Events)
  /\ \A i \in 1 .. Len(s) : s[i].coal <=> s[i].source \notin Counted
  /\ \A i, j \in Level(s) : s[i].source = s[j].source => i = j

\* Its tags are those after g, in order.
Ranked(s, g) ==
  \A i \in Of(s, "ptr") : s[i].data = g + Cardinality({j \in Of(s, "ptr") : j <= i})

LEMMA Indices ==
  ASSUME NEW s \in Seq(Events)
  PROVE  /\ Len(s) \in Nat /\ DOMAIN s = 1 .. Len(s)
         /\ \A i \in 1 .. Len(s) : s[i] \in Events
         /\ Level(s) \subseteq 1 .. Len(s)
         /\ IsFiniteSet(Level(s)) /\ Cardinality(Level(s)) \in Nat
         /\ \A x : /\ Of(s, x) \subseteq 1 .. Len(s)
                   /\ IsFiniteSet(Of(s, x)) /\ CountOf(s, x) \in Nat
<1>1. Len(s) \in Nat /\ DOMAIN s = 1 .. Len(s) /\ \A i \in 1 .. Len(s) : s[i] \in Events
  OBVIOUS
<1>2. Level(s) \subseteq 1 .. Len(s) /\ \A x : Of(s, x) \subseteq 1 .. Len(s)
  BY <1>1 DEF Level, Of
<1>3. IsFiniteSet(Level(s)) /\ Cardinality(Level(s)) \in Nat
  BY <1>1, <1>2, IndicesFinite
<1>4. \A x : IsFiniteSet(Of(s, x)) /\ CountOf(s, x) \in Nat
  <2> SUFFICES ASSUME NEW x PROVE IsFiniteSet(Of(s, x)) /\ CountOf(s, x) \in Nat
    OBVIOUS
  <2>1. Of(s, x) \subseteq 1 .. Len(s)
    BY <1>2
  <2>2. QED
    BY <1>1, <2>1, IndicesFinite DEF CountOf
<1>5. QED
  BY <1>1, <1>2, <1>3, <1>4

\* An orderly queue has at most one timer event: its data are all it expires.
LEMMA ExpiredIs ==
  ASSUME NEW s \in Seq(Events)
  PROVE  /\ Of(s, "timer") = {} => Expired(s) = 0
         /\ \A i : Of(s, "timer") = {i} => Expired(s) = s[i].data
<1>1. ASSUME Of(s, "timer") = {} PROVE Expired(s) = 0
  BY <1>1, FS_EmptySet DEF Expired
<1>2. ASSUME NEW i, Of(s, "timer") = {i} PROVE Expired(s) = s[i].data
  <2> DEFINE d == s[i].data
  <2>1. i \in 1 .. Len(s)
    BY <1>2, Indices
  <2>2. d \in Nat
    BY <2>1, Indices DEF Events
  <2>3. UNION {{j} \X (1 .. s[j].data) : j \in Of(s, "timer")} = {i} \X (1 .. d)
    BY <1>2
  <2> HIDE DEF d
  <2>4. IsFiniteSet({i}) /\ Cardinality({i}) = 1
    BY FS_Singleton
  <2>5. IsFiniteSet(1 .. d) /\ Cardinality(1 .. d) = d
    BY <2>2, FS_Interval
  <2>6. Cardinality({i} \X (1 .. d)) = 1 * d
    BY <2>4, <2>5, FS_Product, ZenonT(30)
  <2>7. Expired(s) = d
    <3>1. Expired(s) = Cardinality({i} \X (1 .. d))
      BY <2>3, Zenon DEF Expired
    <3>2. QED
      BY <2>2, <2>6, <3>1
  <2>8. QED
    BY <2>7 DEF d
<1>3. QED
  BY <1>1, <1>2

LEMMA OneTimer ==
  ASSUME NEW s, Orderly(s)
  PROVE  \A i \in Of(s, "timer") : Of(s, "timer") = {i}
<1>1. Of(s, "timer") \subseteq Level(s)
  BY Indices DEF Orderly, Of, Level, Counted
<1>2. QED
  BY <1>1 DEF Orderly, Of

LEMMA ExpiredNat ==
  ASSUME NEW s, Orderly(s)
  PROVE  Expired(s) \in Nat
<1>1. CASE Of(s, "timer") = {}
  BY <1>1, ExpiredIs DEF Orderly
<1>2. ASSUME NEW i \in Of(s, "timer") PROVE Expired(s) \in Nat
  <2>1. Expired(s) = s[i].data /\ i \in 1 .. Len(s)
    BY <1>2, OneTimer, ExpiredIs, Indices DEF Orderly
  <2>2. s[i] \in Events
    BY <2>1, Indices DEF Orderly
  <2>3. s[i].data \in Nat
    BY <2>2 DEF Events
  <2>4. QED
    BY <2>1, <2>3
<1>3. QED
  BY <1>1, <1>2

LEMMA DropIs ==
  ASSUME NEW s \in Seq(Events), NEW k \in 1 .. Len(s)
  PROVE  /\ Drop(s, k) \in Seq(Events) /\ Len(Drop(s, k)) = Len(s) - 1
         /\ \A i \in 1 .. Len(s) - 1 : Drop(s, k)[i] = IF i < k THEN s[i] ELSE s[i + 1]
<1> DEFINE a == SubSeq(s, 1, k - 1)
           b == SubSeq(s, k + 1, Len(s))
<1>1. Len(s) \in Nat /\ k \in Nat /\ \A i \in 1 .. Len(s) : s[i] \in Events
  BY Indices
<1>2. /\ a \in Seq(Events) /\ Len(a) = k - 1
      /\ \A i \in 1 .. k - 1 : a[i] = s[i]
  <2>1. \A i \in 1 .. k - 1 : s[i] \in Events
    BY <1>1
  <2>2. /\ a \in Seq(Events) /\ Len(a) = IF 1 <= k - 1 THEN (k - 1) - 1 + 1 ELSE 0
        /\ \A i \in 1 .. (k - 1) - 1 + 1 : a[i] = s[1 + i - 1]
    <3>1. 1 \in Int /\ k - 1 \in Int
      BY <1>1
    <3>2. QED
      BY <2>1, <3>1, SubSeqProperties
  <2> HIDE DEF a
  <2>3. QED
    BY <1>1, <2>2
<1>3. /\ b \in Seq(Events) /\ Len(b) = Len(s) - k
      /\ \A i \in 1 .. Len(s) - k : b[i] = s[k + i]
  <2>1. \A i \in k + 1 .. Len(s) : s[i] \in Events
    BY <1>1
  <2>2. /\ b \in Seq(Events) /\ Len(b) = IF k + 1 <= Len(s) THEN Len(s) - (k + 1) + 1 ELSE 0
        /\ \A i \in 1 .. Len(s) - (k + 1) + 1 : b[i] = s[k + 1 + i - 1]
    <3>1. k + 1 \in Int /\ Len(s) \in Int
      BY <1>1
    <3>2. QED
      BY <2>1, <3>1, SubSeqProperties
  <2> HIDE DEF b
  <2>3. QED
    BY <1>1, <2>2
<1>4. Drop(s, k) = a \o b
  BY DEF Drop
<1> HIDE DEF a, b
<1>5. /\ a \o b \in Seq(Events) /\ Len(a \o b) = Len(a) + Len(b)
      /\ \A i \in 1 .. Len(a) + Len(b) :
            (a \o b)[i] = IF i <= Len(a) THEN a[i] ELSE b[i - Len(a)]
  BY <1>2, <1>3, ConcatProperties
<1>6. ASSUME NEW i \in 1 .. Len(s) - 1
      PROVE (a \o b)[i] = IF i < k THEN s[i] ELSE s[i + 1]
  <2>1. CASE i < k
    BY <1>1, <1>2, <1>3, <1>5, <2>1
  <2>2. CASE ~(i < k)
    <3>1. i - (k - 1) \in 1 .. Len(s) - k /\ k + (i - (k - 1)) = i + 1
      BY <1>1, <2>2
    <3>2. (a \o b)[i] = b[i - (k - 1)]
      BY <1>1, <1>2, <1>3, <1>5, <2>2
    <3>3. QED
      BY <1>3, <2>2, <3>1, <3>2
  <2>3. QED
    BY <2>1, <2>2
<1>7. Len(a \o b) = Len(s) - 1
  BY <1>1, <1>2, <1>3, <1>5
<1>8. QED
  BY <1>4, <1>5, <1>6, <1>7

LEMMA CutIs ==
  ASSUME NEW s \in Seq(Events), NEW c \in 0 .. Len(s)
  PROVE  /\ SubSeq(s, 1, c) \in Seq(Events) /\ Len(SubSeq(s, 1, c)) = c
         /\ \A i \in 1 .. c : SubSeq(s, 1, c)[i] = s[i]
         /\ SubSeq(s, c + 1, Len(s)) \in Seq(Events)
         /\ Len(SubSeq(s, c + 1, Len(s))) = Len(s) - c
         /\ \A i \in 1 .. Len(s) - c : SubSeq(s, c + 1, Len(s))[i] = s[i + c]
<1> DEFINE a == SubSeq(s, 1, c)
           b == SubSeq(s, c + 1, Len(s))
<1>1. /\ Len(s) \in Nat /\ c \in Nat /\ \A i \in 1 .. Len(s) : s[i] \in Events
      /\ 1 \in Int /\ c \in Int /\ c + 1 \in Int /\ Len(s) \in Int
  BY Indices
<1>2. (\A i \in 1 .. c : s[i] \in Events) /\ \A i \in c + 1 .. Len(s) : s[i] \in Events
  BY <1>1
<1>3. /\ a \in Seq(Events) /\ Len(a) = IF 1 <= c THEN c - 1 + 1 ELSE 0
      /\ \A i \in 1 .. c - 1 + 1 : a[i] = s[1 + i - 1]
  BY <1>1, <1>2, SubSeqProperties
<1>4. /\ b \in Seq(Events) /\ Len(b) = IF c + 1 <= Len(s) THEN Len(s) - (c + 1) + 1 ELSE 0
      /\ \A i \in 1 .. Len(s) - (c + 1) + 1 : b[i] = s[c + 1 + i - 1]
  BY <1>1, <1>2, SubSeqProperties
<1> HIDE DEF a, b
<1>5. Len(a) = c /\ \A i \in 1 .. c : a[i] = s[i]
  BY <1>1, <1>3
<1>6. Len(b) = Len(s) - c /\ \A i \in 1 .. Len(s) - c : b[i] = s[i + c]
  <2>1. \A i \in Int : c + 1 + i - 1 = i + c
    BY <1>1
  <2>2. QED
    BY <1>1, <1>4, <2>1
<1>7. QED
  BY <1>3, <1>4, <1>5, <1>6 DEF a, b

-------------------------------------------------------------------------------
(* What the queue's operations do to what is counted of it.                *)

\* A new event goes behind the others.
LEMMA OnAppend ==
  ASSUME NEW s, Orderly(s), NEW e \in Events, e.coal <=> e.source \notin Counted,
         \A i \in 1 .. Len(s) : ~(e.coal /\ s[i].coal /\ s[i].source = e.source)
  PROVE  LET r == Append(s, e) IN
         /\ Orderly(r)
         /\ Len(r) = Len(s) + 1 /\ r[Len(s) + 1] = e
         /\ \A i \in 1 .. Len(s) : r[i] = s[i]
         /\ Cardinality(Level(r)) = Cardinality(Level(s)) + (IF e.coal THEN 1 ELSE 0)
         /\ \A x : CountOf(r, x) = CountOf(s, x) + (IF e.source = x THEN 1 ELSE 0)
         /\ Expired(r) = Expired(s) + (IF e.source = "timer" THEN e.data ELSE 0)
<1> DEFINE n == Len(s) + 1
           r == Append(s, e)
<1>1. s \in Seq(Events) /\ Len(s) \in Nat
  BY Indices DEF Orderly
<1>2. /\ r \in Seq(Events) /\ Len(r) = n /\ r[n] = e
      /\ \A i \in 1 .. Len(s) : r[i] = s[i]
  BY <1>1, AppendProperties
<1> HIDE DEF r
<1>3. Level(r) = Level(s) \union (IF e.coal THEN {n} ELSE {}) /\ n \notin Level(s)
  BY <1>1, <1>2, Indices DEF Level
<1>4. \A x : /\ Of(r, x) = Of(s, x) \union (IF e.source = x THEN {n} ELSE {})
             /\ n \notin Of(s, x)
  BY <1>1, <1>2, Indices DEF Of
<1>5. Cardinality(Level(r)) = Cardinality(Level(s)) + (IF e.coal THEN 1 ELSE 0)
  <2>1. IsFiniteSet(Level(s)) /\ Cardinality(Level(s)) \in Nat
    BY <1>1, Indices
  <2>2. Cardinality(Level(s) \union {n}) = Cardinality(Level(s)) + 1
    BY <1>3, <2>1, FS_AddElement
  <2>3. CASE e.coal
    BY <1>3, <2>2, <2>3
  <2>4. CASE ~e.coal
    BY <1>3, <2>1, <2>4
  <2>5. QED
    BY <2>3, <2>4
<1>6. \A x : CountOf(r, x) = CountOf(s, x) + (IF e.source = x THEN 1 ELSE 0)
  <2> SUFFICES ASSUME NEW x
      PROVE CountOf(r, x) = CountOf(s, x) + (IF e.source = x THEN 1 ELSE 0)
    OBVIOUS
  <2>1. IsFiniteSet(Of(s, x)) /\ Cardinality(Of(s, x)) \in Nat
    BY <1>1, Indices DEF CountOf
  <2>2. n \notin Of(s, x)
    BY <1>4
  <2>3. Cardinality(Of(s, x) \union {n}) = Cardinality(Of(s, x)) + 1
    BY <2>1, <2>2, FS_AddElement
  <2>4. CASE e.source = x
    <3>1. Of(r, x) = Of(s, x) \union {n}
      BY <1>4, <2>4
    <3>2. QED
      BY <2>3, <2>4, <3>1 DEF CountOf
  <2>5. CASE e.source # x
    <3>1. Of(r, x) = Of(s, x)
      BY <1>4, <2>5
    <3>2. QED
      BY <2>1, <2>5, <3>1 DEF CountOf
  <2>6. QED
    BY <2>4, <2>5
<1>7. \A i \in 1 .. n : r[i].coal <=> r[i].source \notin Counted
  BY <1>1, <1>2 DEF Orderly
<1>8. \A i, j \in Level(r) : r[i].source = r[j].source => i = j
  <2> SUFFICES ASSUME NEW i \in Level(r), NEW j \in Level(r), r[i].source = r[j].source
      PROVE i = j
    OBVIOUS
  <2>1. Level(s) \subseteq 1 .. Len(s) /\ \A k \in Level(s) : s[k].coal
    BY <1>1, Indices DEF Level
  <2>2. CASE i \in Level(s) /\ j \in Level(s)
    BY <1>2, <2>1, <2>2 DEF Orderly
  <2>3. CASE i \in Level(s) /\ j = n
    BY <1>2, <1>3, <2>1, <2>3
  <2>4. CASE i = n /\ j \in Level(s)
    BY <1>2, <1>3, <2>1, <2>4
  <2>5. QED
    BY <1>3, <2>2, <2>3, <2>4
<1>9. Orderly(r)
  BY <1>2, <1>7, <1>8 DEF Orderly
<1>10. Expired(r) = Expired(s) + (IF e.source = "timer" THEN e.data ELSE 0)
  <2>0. Expired(s) \in Nat /\ e.data \in Nat
    BY ExpiredNat DEF Events
  <2>1. CASE e.source = "timer"
    <3>1. e.coal
      BY <2>1 DEF Counted
    <3>2. Of(s, "timer") = {}
      BY <1>1, <2>1, <3>1, Indices DEF Of, Orderly, Counted
    <3>3. Of(r, "timer") = {n}
      BY <1>4, <2>1, <3>2
    <3>4. Expired(s) = 0
      BY <1>1, <3>2, ExpiredIs
    <3>5. Expired(r) = r[n].data
      BY <1>2, <3>3, ExpiredIs, Zenon
    <3>6. QED
      BY <1>2, <2>0, <2>1, <3>4, <3>5
  <2>2. CASE e.source # "timer" /\ Of(s, "timer") = {}
    <3>1. Of(r, "timer") = {}
      BY <1>4, <2>2
    <3>2. Expired(s) = 0 /\ Expired(r) = 0
      BY <1>1, <1>2, <2>2, <3>1, ExpiredIs
    <3>3. QED
      BY <2>2, <3>2
  <2>3. ASSUME e.source # "timer", NEW i \in Of(s, "timer")
        PROVE Expired(r) = Expired(s) + (IF e.source = "timer" THEN e.data ELSE 0)
    <3>1. Of(s, "timer") = {i} /\ i \in 1 .. Len(s)
      BY <1>1, <2>3, OneTimer, Indices
    <3>2. Of(r, "timer") = {i}
      BY <1>4, <2>3, <3>1
    <3>3. Expired(s) = s[i].data /\ Expired(r) = r[i].data
      BY <1>1, <1>2, <3>1, <3>2, ExpiredIs
    <3>4. r[i] = s[i]
      BY <1>2, <3>1
    <3>5. QED
      BY <2>0, <2>3, <3>3, <3>4
  <2>4. QED
    BY <2>1, <2>2, <2>3
<1>11. QED
  BY <1>2, <1>5, <1>6, <1>9, <1>10 DEF r

\* A tag goes behind the other tags, if it is the next.
LEMMA RankedAppend ==
  ASSUME NEW s \in Seq(Events), NEW g \in Nat, Ranked(s, g), NEW e \in Events,
         e.source = "ptr" => e.data = g + CountOf(s, "ptr") + 1,
         NEW r, r = Append(s, e)
  PROVE  Ranked(r, g)
<1> DEFINE n == Len(s) + 1
<1>1. Len(s) \in Nat /\ Of(s, "ptr") \subseteq 1 .. Len(s)
  BY Indices
<1>2. /\ r \in Seq(Events) /\ Len(r) = n /\ r[n] = e
      /\ \A i \in 1 .. Len(s) : r[i] = s[i]
  BY AppendProperties
<1>3. Of(r, "ptr") = Of(s, "ptr") \union (IF e.source = "ptr" THEN {n} ELSE {})
  BY <1>1, <1>2, Indices DEF Of
<1> SUFFICES ASSUME NEW i \in Of(r, "ptr")
    PROVE r[i].data = g + Cardinality({j \in Of(r, "ptr") : j <= i})
  BY DEF Ranked
<1>4. CASE i \in Of(s, "ptr")
  <2>1. {j \in Of(r, "ptr") : j <= i} = {j \in Of(s, "ptr") : j <= i}
    BY <1>1, <1>3, <1>4
  <2>2. r[i] = s[i]
    BY <1>1, <1>2, <1>4
  <2>3. QED
    BY <1>4, <2>1, <2>2 DEF Ranked
<1>5. CASE i \notin Of(s, "ptr")
  <2>1. i = n /\ e.source = "ptr"
    BY <1>3, <1>5
  <2>2. {j \in Of(r, "ptr") : j <= i} = Of(s, "ptr") \union {n}
    BY <1>1, <1>3, <2>1
  <2>3. n \notin Of(s, "ptr") /\ IsFiniteSet(Of(s, "ptr"))
    BY <1>1, Indices
  <2>4. Cardinality(Of(s, "ptr") \union {n}) = Cardinality(Of(s, "ptr")) + 1
    BY <2>3, FS_AddElement
  <2>5. Cardinality(Of(s, "ptr")) \in Nat
    BY Indices DEF CountOf
  <2>6. r[i].data = g + CountOf(s, "ptr") + 1
    BY <1>2, <2>1
  <2>7. Cardinality({j \in Of(r, "ptr") : j <= i}) = CountOf(s, "ptr") + 1
    BY <2>2, <2>4, Zenon DEF CountOf
  <2>8. QED
    BY <2>5, <2>6, <2>7 DEF CountOf
<1>6. QED
  BY <1>4, <1>5

\* A coalescible event takes the place of the pending one of its source.
LEMMA OnReplace ==
  ASSUME NEW s, Orderly(s), NEW k \in Level(s), NEW e \in Events, e.coal,
         e.source = s[k].source
  PROVE  LET r == [s EXCEPT ![k] = e] IN
         /\ Orderly(r) /\ Len(r) = Len(s) /\ r[k] = e
         /\ \A i \in 1 .. Len(s) : i # k => r[i] = s[i]
         /\ Level(r) = Level(s) /\ \A x : Of(r, x) = Of(s, x)
         /\ Expired(r) = IF e.source = "timer" THEN e.data ELSE Expired(s)
         /\ e.source = "timer" => Expired(s) = s[k].data
         /\ \A g : Ranked(s, g) => Ranked(r, g)
<1> DEFINE r == [s EXCEPT ![k] = e]
<1>1. /\ s \in Seq(Events) /\ Len(s) \in Nat /\ k \in 1 .. Len(s) /\ DOMAIN s = 1 .. Len(s)
      /\ s[k].coal
  BY Indices DEF Orderly, Level
<1>2. /\ r \in Seq(Events) /\ Len(r) = Len(s) /\ r[k] = e
      /\ \A i \in 1 .. Len(s) : i # k => r[i] = s[i]
      /\ DOMAIN r = 1 .. Len(s)
  BY <1>1, ExceptSeq
<1> HIDE DEF r
<1>3. \A i \in 1 .. Len(s) : r[i].source = s[i].source /\ (r[i].coal <=> s[i].coal)
  BY <1>1, <1>2
<1>4. Level(r) = Level(s)
  BY <1>1, <1>2, <1>3 DEF Level
<1>5. \A x : Of(r, x) = Of(s, x)
  BY <1>1, <1>2, <1>3 DEF Of
<1>6. Orderly(r)
  <2>1. \A i \in 1 .. Len(r) : r[i].coal <=> r[i].source \notin Counted
    BY <1>2, <1>3 DEF Orderly
  <2>2. \A i, j \in Level(r) : r[i].source = r[j].source => i = j
    BY <1>1, <1>3, <1>4, Indices DEF Orderly
  <2>3. QED
    BY <1>2, <2>1, <2>2 DEF Orderly
<1>7. ASSUME e.source = "timer" PROVE Expired(r) = e.data /\ Expired(s) = s[k].data
  <2>1. k \in Of(s, "timer")
    BY <1>1, <1>7 DEF Of
  <2>2. Of(s, "timer") = {k}
    BY <2>1, OneTimer
  <2>3. Of(r, "timer") = {k}
    BY <1>5, <2>2
  <2>4. Expired(r) = r[k].data
    BY <1>2, <2>3, ExpiredIs, Zenon
  <2>5. Expired(s) = s[k].data
    BY <1>1, <2>2, ExpiredIs, Zenon
  <2>6. QED
    BY <1>2, <2>4, <2>5
<1>8. ASSUME e.source # "timer" PROVE Expired(r) = Expired(s)
  <2>1. CASE Of(s, "timer") = {}
    <3>1. Of(r, "timer") = {}
      BY <1>5, <2>1
    <3>2. QED
      BY <1>1, <1>2, <2>1, <3>1, ExpiredIs
  <2>2. ASSUME NEW i \in Of(s, "timer") PROVE Expired(r) = Expired(s)
    <3>1. Of(s, "timer") = {i} /\ i \in 1 .. Len(s) /\ s[i].source = "timer"
      BY <1>1, <2>2, OneTimer DEF Of
    <3>2. Of(r, "timer") = {i}
      BY <1>5, <3>1
    <3>3. Expired(r) = r[i].data
      BY <1>2, <3>2, ExpiredIs, Zenon
    <3>4. Expired(s) = s[i].data
      BY <1>1, <3>1, ExpiredIs, Zenon
    <3>5. i # k
      BY <1>8, <3>1
    <3>6. QED
      BY <1>2, <3>1, <3>3, <3>4, <3>5
  <2>3. QED
    BY <2>1, <2>2
<1>9. ASSUME NEW g, Ranked(s, g) PROVE Ranked(r, g)
  <2>1. \A i \in Of(s, "ptr") : r[i] = s[i]
    <3>1. k \notin Of(s, "ptr")
      BY <1>1 DEF Of, Orderly, Counted
    <3>2. Of(s, "ptr") \subseteq 1 .. Len(s)
      BY <1>1, Indices
    <3>3. QED
      BY <1>2, <3>1, <3>2
  <2>2. QED
    BY <1>5, <1>9, <2>1 DEF Ranked
<1>10. QED
  BY <1>2, <1>4, <1>5, <1>6, <1>7, <1>8, <1>9 DEF r

\* Shedding a coalescible event touches no counted one.
LEMMA OnDrop ==
  ASSUME NEW s, Orderly(s), NEW k \in Level(s), NEW r, r = Drop(s, k)
  PROVE  /\ Orderly(r) /\ Len(r) = Len(s) - 1
         /\ \A i \in 1 .. Len(r) : \E j \in 1 .. Len(s) : r[i] = s[j]
         /\ Cardinality(Level(r)) = Cardinality(Level(s)) - 1
         /\ \A x \in Counted : CountOf(r, x) = CountOf(s, x)
         /\ Expired(r) = Expired(s) - (IF s[k].source = "timer" THEN s[k].data ELSE 0)
         /\ \A g : Ranked(s, g) => Ranked(r, g)
<1> DEFINE n == Len(s)
           Back(i) == IF i < k THEN i ELSE i + 1
<1>1. /\ s \in Seq(Events) /\ n \in Nat /\ k \in 1 .. n /\ DOMAIN s = 1 .. n
      /\ s[k].coal
  BY Indices DEF Orderly, Level
<1>2. /\ r \in Seq(Events) /\ Len(r) = n - 1 /\ DOMAIN r = 1 .. n - 1
      /\ \A i \in 1 .. n - 1 : r[i] = s[Back(i)]
  <2>1. /\ r \in Seq(Events) /\ Len(r) = n - 1
        /\ \A i \in 1 .. n - 1 : r[i] = IF i < k THEN s[i] ELSE s[i + 1]
    BY <1>1, DropIs
  <2>2. QED
    BY <1>1, <2>1
<1>3. \A i \in 1 .. n - 1 : Back(i) \in 1 .. n /\ Back(i) # k
  BY <1>1
<1>4. \A i, j \in 1 .. n - 1 : /\ i <= j <=> Back(i) <= Back(j)
                               /\ i = j <=> Back(i) = Back(j)
  BY <1>1
<1>5. \A i \in 1 .. n - 1 : i \in Level(r) <=> Back(i) \in Level(s)
  BY <1>1, <1>2, <1>3 DEF Level
<1>6. \A x : \A i \in 1 .. n - 1 : i \in Of(r, x) <=> Back(i) \in Of(s, x)
  BY <1>1, <1>2, <1>3 DEF Of
<1>7. \A i \in 1 .. n : i # k => \E j \in 1 .. n - 1 : Back(j) = i
  <2> SUFFICES ASSUME NEW i \in 1 .. n, i # k PROVE \E j \in 1 .. n - 1 : Back(j) = i
    OBVIOUS
  <2>1. CASE i < k
    <3>1. i \in 1 .. n - 1 /\ Back(i) = i
      BY <1>1, <2>1
    <3>2. QED
      BY <3>1
  <2>2. CASE i > k
    <3>1. i - 1 \in 1 .. n - 1 /\ Back(i - 1) = i
      BY <1>1, <2>2
    <3>2. QED
      BY <3>1
  <2>3. QED
    BY <1>1, <2>1, <2>2
<1>8. Cardinality(Level(r)) = Cardinality(Level(s)) - 1
  <2>1. Level(s) \ {k} \subseteq 1 .. n /\ k \notin Level(s) \ {k} /\ Level(r) \subseteq 1 .. n - 1
    BY <1>1, <1>2, Indices
  <2>2. \A i \in 1 .. n - 1 : i \in Level(r) <=> (IF i < k THEN i ELSE i + 1) \in Level(s) \ {k}
    BY <1>3, <1>5
  <2>3. Cardinality(Level(r)) = Cardinality(Level(s) \ {k})
    <3> HIDE DEF n
    <3>1. QED
      BY <1>1, <2>1, <2>2, DropCount
  <2>4. IsFiniteSet(Level(s))
    BY <1>1, Indices
  <2>5. QED
    BY <2>3, <2>4, FS_RemoveElement
<1>9. ASSUME NEW x \in Counted PROVE CountOf(r, x) = CountOf(s, x)
  <2>1. Of(s, x) \subseteq 1 .. n /\ k \notin Of(s, x) /\ Of(r, x) \subseteq 1 .. n - 1
    <3>1. k \notin Of(s, x)
      BY <1>1, <1>9 DEF Of, Orderly
    <3>2. QED
      BY <1>1, <1>2, <3>1, Indices
  <2>2. \A i \in 1 .. n - 1 : i \in Of(r, x) <=> (IF i < k THEN i ELSE i + 1) \in Of(s, x)
    BY <1>6
  <2> HIDE DEF n
  <2>3. Cardinality(Of(r, x)) = Cardinality(Of(s, x))
    BY <1>1, <2>1, <2>2, DropCount, SMTT(30)
  <2>4. QED
    BY <2>3 DEF CountOf
<1>10. Orderly(r)
  <2>1. \A i \in 1 .. Len(r) : r[i].coal <=> r[i].source \notin Counted
    BY <1>2, <1>3 DEF Orderly
  <2>2. \A i, j \in Level(r) : r[i].source = r[j].source => i = j
    <3> SUFFICES ASSUME NEW i \in Level(r), NEW j \in Level(r), r[i].source = r[j].source
        PROVE i = j
      OBVIOUS
    <3>1. i \in 1 .. n - 1 /\ j \in 1 .. n - 1
      BY <1>2, Indices
    <3>2. Back(i) \in Level(s) /\ Back(j) \in Level(s)
      BY <1>5, <3>1
    <3>3. r[i] = s[Back(i)] /\ r[j] = s[Back(j)]
      BY <1>2, <3>1
    <3> HIDE DEF Back
    <3>4. Back(i) = Back(j)
      BY <3>2, <3>3 DEF Orderly
    <3>5. QED
      BY <1>4, <3>1, <3>4
  <2>3. QED
    BY <1>2, <2>1, <2>2 DEF Orderly
<1>11. Expired(r) = Expired(s) - (IF s[k].source = "timer" THEN s[k].data ELSE 0)
  <2> HIDE DEF Back
  <2>0. Expired(s) \in Nat /\ s[k] \in Events
    BY <1>1, ExpiredNat, Indices
  <2>1. CASE s[k].source = "timer"
    <3>1. k \in Of(s, "timer")
      BY <1>1, <2>1 DEF Of
    <3>2. Of(s, "timer") = {k}
      BY <3>1, OneTimer
    <3>3. Of(r, "timer") = {}
      <4>1. Of(r, "timer") \subseteq 1 .. n - 1
        BY <1>2, Indices
      <4>2. QED
        BY <1>3, <1>6, <3>2, <4>1
    <3>4. Expired(s) = s[k].data
      BY <1>1, <3>2, ExpiredIs, Zenon
    <3>5. Expired(r) = 0
      BY <1>2, <3>3, ExpiredIs
    <3>6. s[k].data \in Nat
      BY <2>0 DEF Events
    <3>7. QED
      BY <2>1, <3>4, <3>5, <3>6
  <2>2. CASE s[k].source # "timer" /\ Of(s, "timer") = {}
    <3>1. Of(r, "timer") \subseteq 1 .. n - 1
      BY <1>2, Indices
    <3>2. Of(r, "timer") = {}
      BY <1>6, <2>2, <3>1
    <3>3. QED
      BY <1>1, <1>2, <2>2, <3>2, ExpiredIs
  <2>3. ASSUME s[k].source # "timer", NEW i \in Of(s, "timer")
        PROVE Expired(r) = Expired(s)
    <3>1. Of(s, "timer") = {i} /\ i \in 1 .. n /\ s[i].source = "timer"
      BY <1>1, <2>3, OneTimer DEF Of
    <3>2. i # k
      BY <2>3, <3>1
    <3>3. PICK j \in 1 .. n - 1 : Back(j) = i
      BY <1>7, <3>1, <3>2
    <3>4. Of(r, "timer") \subseteq 1 .. n - 1
      BY <1>2, Indices
    <3>5. Of(r, "timer") = {j}
      BY <1>4, <1>6, <3>1, <3>3, <3>4
    <3>6. Expired(r) = r[j].data
      BY <1>2, <3>5, ExpiredIs, Zenon
    <3>7. Expired(s) = s[i].data
      BY <1>1, <3>1, ExpiredIs, Zenon
    <3>8. QED
      BY <1>2, <3>3, <3>6, <3>7
  <2>4. QED
    BY <2>0, <2>1, <2>2, <2>3
<1>12. ASSUME NEW g, Ranked(s, g), NEW m \in Of(r, "ptr")
       PROVE r[m].data = g + Cardinality({j \in Of(r, "ptr") : j <= m})
  <2>1. m \in 1 .. n - 1
    BY <1>2, Indices
  <2>2. Of(s, "ptr") \subseteq 1 .. n /\ Of(r, "ptr") \subseteq 1 .. n - 1
        /\ k \notin Of(s, "ptr")
    <3>1. k \notin Of(s, "ptr")
      BY <1>1 DEF Of, Orderly, Counted
    <3>2. QED
      BY <1>1, <1>2, <3>1, Indices
  <2> DEFINE A(h) == {j \in Of(s, "ptr") : j <= Back(h)}
             B(h) == {j \in Of(r, "ptr") : j <= h}
  <2>3. Cardinality(B(m)) = Cardinality(A(m))
    <3>1. \A j \in 1 .. n - 1 : j \in B(m) <=> Back(j) \in A(m)
      <4> HIDE DEF Back
      <4>1. QED
        BY <1>4, <1>6, <2>1
    <3>2. A(m) \subseteq 1 .. n /\ k \notin A(m) /\ B(m) \subseteq 1 .. n - 1
      BY <2>2
    <3>3. \A j \in 1 .. n - 1 : j \in B(m) <=> (IF j < k THEN j ELSE j + 1) \in A(m)
      BY <3>1
    <3> HIDE DEF n, A, B
    <3>4. QED
      BY <1>1, <3>2, <3>3, DropCount
  <2> HIDE DEF Back
  <2>4. r[m] = s[Back(m)] /\ Back(m) \in Of(s, "ptr")
    BY <1>2, <1>6, <2>1
  <2>5. s[Back(m)].data = g + Cardinality({j \in Of(s, "ptr") : j <= Back(m)})
    BY <1>12, <2>4 DEF Ranked
  <2>6. QED
    BY <2>3, <2>4, <2>5
<1>13. \A i \in 1 .. Len(r) : \E j \in 1 .. Len(s) : r[i] = s[j]
  <2> HIDE DEF Back
  <2>1. QED
    BY <1>2, <1>3
<1>14. \A g : Ranked(s, g) => Ranked(r, g)
  BY <1>12 DEF Ranked
<1>15. QED
  BY <1>2, <1>8, <1>9, <1>10, <1>11, <1>13, <1>14

\* A delivery takes the front; what it counts and what stays are all there was, and
\* the tags go on from where it stopped.
LEMMA OnCut ==
  ASSUME NEW s, Orderly(s), NEW c \in 0 .. Len(s)
  PROVE  LET out == SubSeq(s, 1, c)
             r   == SubSeq(s, c + 1, Len(s)) IN
         /\ Orderly(out) /\ Orderly(r) /\ Len(out) = c /\ Len(r) = Len(s) - c
         /\ \A i \in 1 .. Len(r) : \E j \in 1 .. Len(s) : r[i] = s[j]
         /\ Cardinality(Level(s)) = Cardinality(Level(out)) + Cardinality(Level(r))
         /\ \A x : CountOf(s, x) = CountOf(out, x) + CountOf(r, x)
         /\ Expired(s) = Expired(out) + Expired(r)
         /\ \A g \in Nat : Ranked(s, g) =>
               /\ Ranked(r, g + CountOf(out, "ptr"))
               /\ Of(out, "ptr") # {}
                     => out[Final(Of(out, "ptr"))].data = g + CountOf(out, "ptr")
<1> DEFINE n   == Len(s)
           out == SubSeq(s, 1, c)
           r   == SubSeq(s, c + 1, Len(s))
<1>1. /\ s \in Seq(Events) /\ n \in Nat /\ c \in 0 .. n /\ DOMAIN s = 1 .. n
      /\ Level(s) \subseteq 1 .. n /\ \A x : Of(s, x) \subseteq 1 .. n
  BY Indices DEF Orderly
<1>2. /\ out \in Seq(Events) /\ Len(out) = c /\ DOMAIN out = 1 .. c
      /\ \A i \in 1 .. c : out[i] = s[i]
      /\ r \in Seq(Events) /\ Len(r) = n - c /\ DOMAIN r = 1 .. n - c
      /\ \A i \in 1 .. n - c : r[i] = s[i + c]
  <2>1. /\ out \in Seq(Events) /\ Len(out) = c
        /\ \A i \in 1 .. c : out[i] = s[i]
        /\ r \in Seq(Events) /\ Len(r) = n - c
        /\ \A i \in 1 .. n - c : r[i] = s[i + c]
    BY <1>1, CutIs
  <2>2. QED
    BY <2>1, Indices
<1> HIDE DEF out, r
<1>3. /\ \A i \in 1 .. c : i \in 1 .. n
      /\ \A i \in 1 .. n - c : i + c \in 1 .. n
      /\ \A i \in 1 .. n : i <= c <=> i \in 1 .. c
      /\ \A i \in 1 .. n : i > c => i - c \in 1 .. n - c /\ (i - c) + c = i
  BY <1>1
<1>4. /\ Level(out) = Level(s) \cap 1 .. c
      /\ Level(r) = {i \in 1 .. n - c : i + c \in Level(s)}
  <2>1. \A i : i \in Level(out) <=> i \in Level(s) /\ i \in 1 .. c
    BY <1>1, <1>2, <1>3 DEF Level
  <2>2. \A i : i \in Level(r) <=> i \in 1 .. n - c /\ i + c \in Level(s)
    BY <1>1, <1>2, <1>3 DEF Level
  <2>3. QED
    BY <2>1, <2>2
<1>5. \A x : /\ Of(out, x) = Of(s, x) \cap 1 .. c
             /\ Of(r, x) = {i \in 1 .. n - c : i + c \in Of(s, x)}
  <2> SUFFICES ASSUME NEW x
      PROVE /\ Of(out, x) = Of(s, x) \cap 1 .. c
            /\ Of(r, x) = {i \in 1 .. n - c : i + c \in Of(s, x)}
    OBVIOUS
  <2>1. \A i : i \in Of(out, x) <=> i \in Of(s, x) /\ i \in 1 .. c
    BY <1>1, <1>2, <1>3 DEF Of
  <2>2. \A i : i \in Of(r, x) <=> i \in 1 .. n - c /\ i + c \in Of(s, x)
    BY <1>1, <1>2, <1>3 DEF Of
  <2>3. QED
    BY <2>1, <2>2
<1>6. Cardinality(Level(s)) = Cardinality(Level(out)) + Cardinality(Level(r))
  <2>1. n \in Nat /\ c \in 0 .. n /\ Level(s) \subseteq 1 .. n
    BY <1>1
  <2> HIDE DEF n
  <2>2. Cardinality(Level(s)) = Cardinality(Level(s) \cap 1 .. c)
                                 + Cardinality({i \in 1 .. n - c : i + c \in Level(s)})
    BY <2>1, RestCount, ZenonT(30)
  <2>3. QED
    BY <1>4, <2>2
<1>7. \A x : CountOf(s, x) = CountOf(out, x) + CountOf(r, x)
  <2> SUFFICES ASSUME NEW x
      PROVE CountOf(s, x) = CountOf(out, x) + CountOf(r, x)
    OBVIOUS
  <2>1. n \in Nat /\ c \in 0 .. n /\ Of(s, x) \subseteq 1 .. n
    BY <1>1
  <2> HIDE DEF n
  <2>2. Cardinality(Of(s, x)) = Cardinality(Of(s, x) \cap 1 .. c)
                                 + Cardinality({i \in 1 .. n - c : i + c \in Of(s, x)})
    BY <2>1, RestCount, ZenonT(30)
  <2>3. QED
    BY <1>5, <2>2 DEF CountOf
<1>8. Orderly(out)
  <2>1. \A i \in 1 .. Len(out) : out[i].coal <=> out[i].source \notin Counted
    BY <1>2, <1>3 DEF Orderly
  <2>2. \A i, j \in Level(out) : out[i].source = out[j].source => i = j
    BY <1>1, <1>2, <1>3, <1>4 DEF Orderly
  <2>3. QED
    BY <1>2, <2>1, <2>2 DEF Orderly
<1>9. Orderly(r)
  <2>1. \A i \in 1 .. Len(r) : r[i].coal <=> r[i].source \notin Counted
    BY <1>2, <1>3 DEF Orderly
  <2>2. ASSUME NEW i \in Level(r), NEW j \in Level(r), r[i].source = r[j].source
        PROVE i = j
    <3>1. i \in 1 .. n - c /\ j \in 1 .. n - c
      BY <1>4
    <3>2. i + c \in Level(s) /\ j + c \in Level(s) /\ r[i] = s[i + c] /\ r[j] = s[j + c]
      BY <1>2, <1>4, <3>1
    <3>3. i + c = j + c
      BY <2>2, <3>2 DEF Orderly
    <3>4. QED
      BY <1>1, <3>1, <3>3
  <2>3. QED
    BY <1>2, <2>1, <2>2 DEF Orderly
<1>10. Expired(s) = Expired(out) + Expired(r)
  <2>0. Expired(s) \in Nat /\ Expired(out) \in Nat /\ Expired(r) \in Nat
    BY <1>8, <1>9, ExpiredNat
  <2>1. CASE Of(s, "timer") = {}
    <3>1. Of(out, "timer") = {} /\ Of(r, "timer") = {}
      BY <1>5, <2>1
    <3>2. Expired(s) = 0 /\ Expired(out) = 0 /\ Expired(r) = 0
      BY <1>1, <1>2, <2>1, <3>1, ExpiredIs
    <3>3. QED
      BY <3>2
  <2>2. ASSUME NEW i \in Of(s, "timer") PROVE Expired(s) = Expired(out) + Expired(r)
    <3>1. Of(s, "timer") = {i} /\ i \in 1 .. n
      BY <1>1, <2>2, OneTimer
    <3>2. Expired(s) = s[i].data
      BY <1>1, <3>1, ExpiredIs, Zenon
    <3>3. CASE i <= c
      <4>1. Of(out, "timer") = {i}
        BY <1>5, <3>1, <3>3
      <4>2. Of(r, "timer") = {}
        <5>1. \A j \in 1 .. n - c : j + c # i
          BY <1>1, <3>1, <3>3
        <5>2. QED
          BY <1>5, <3>1, <5>1
      <4>3. Expired(out) = out[i].data
        BY <1>2, <4>1, ExpiredIs, Zenon
      <4>4. Expired(r) = 0
        BY <1>2, <4>2, ExpiredIs
      <4>5. out[i] = s[i]
        BY <1>2, <1>3, <3>1, <3>3
      <4>6. Expired(out) = Expired(s)
        BY <3>2, <4>3, <4>5
      <4>7. QED
        BY <2>0, <4>4, <4>6
    <3>4. CASE i > c
      <4>1. Of(out, "timer") = {}
        BY <1>1, <1>5, <3>1, <3>4
      <4>2. Of(r, "timer") = {i - c}
        <5>1. \A j \in 1 .. n - c : j + c = i <=> j = i - c
          BY <1>1, <3>1, <3>4
        <5>2. i - c \in 1 .. n - c /\ i - c \in Of(r, "timer")
          BY <1>3, <1>5, <3>1, <3>4
        <5>3. QED
          BY <1>5, <3>1, <5>1, <5>2
      <4>3. Expired(r) = r[i - c].data
        BY <1>2, <4>2, ExpiredIs, Zenon
      <4>4. Expired(out) = 0
        BY <1>2, <4>1, ExpiredIs
      <4>5. r[i - c] = s[i]
        BY <1>2, <1>3, <3>1, <3>4
      <4>6. Expired(r) = Expired(s)
        BY <3>2, <4>3, <4>5
      <4>7. QED
        BY <2>0, <4>4, <4>6
    <3>5. QED
      BY <1>1, <3>1, <3>3, <3>4
  <2>3. QED
    BY <2>1, <2>2
<1>11. \A i \in 1 .. Len(r) : \E j \in 1 .. Len(s) : r[i] = s[j]
  BY <1>2, <1>3
<1>12. ASSUME NEW g \in Nat, Ranked(s, g), NEW m \in Of(r, "ptr")
       PROVE r[m].data
               = g + CountOf(out, "ptr") + Cardinality({j \in Of(r, "ptr") : j <= m})
  <2> DEFINE A(h) == {j \in Of(s, "ptr") : j <= h + c}
             B(h) == {j \in Of(r, "ptr") : j <= h}
             F(h) == A(h) \cap 1 .. c
  <2>1. m \in 1 .. n - c /\ m + c \in Of(s, "ptr") /\ r[m] = s[m + c]
    BY <1>2, <1>5
  <2>2. F(m) = Of(out, "ptr")
    <3>1. \A j \in 1 .. c : j <= m + c
      BY <1>1, <2>1
    <3>2. QED
      BY <1>1, <1>5, <3>1
  <2>3. A(m) \subseteq 1 .. n
    BY <1>1, <1>5
  <2>4. B(m) = {j \in 1 .. n - c : j + c \in A(m)}
    <3>1. \A j \in 1 .. n - c : j <= m <=> j + c <= m + c
      BY <1>1, <2>1
    <3>2. QED
      BY <1>1, <1>5, <2>1, <3>1
  <2>5. n \in Nat /\ c \in 0 .. n
    BY <1>1
  <2>6. Cardinality(A(m)) = Cardinality(F(m)) + Cardinality(B(m))
    <3> HIDE DEF n, A, B
    <3>1. Cardinality(A(m)) = Cardinality(A(m) \cap 1 .. c)
                               + Cardinality({j \in 1 .. n - c : j + c \in A(m)})
      BY <2>3, <2>5, RestCount, SMTT(30)
    <3>2. QED
      BY <2>4, <3>1
  <2>7. s[m + c].data = g + Cardinality(A(m))
    BY <1>12, <2>1 DEF Ranked
  <2>8. Cardinality(F(m)) = CountOf(out, "ptr") /\ CountOf(out, "ptr") \in Nat
    BY <1>2, <2>2, Indices DEF CountOf
  <2>9. Cardinality(B(m)) \in Nat
    <3> HIDE DEF n, B
    <3>1. n - c \in Nat
      BY <1>1
    <3>2. B(m) \subseteq 1 .. n - c
      BY <2>4
    <3>3. QED
      BY <3>1, <3>2, IndicesFinite
  <2> HIDE DEF A, B, F
  <2>10. r[m].data = g + CountOf(out, "ptr") + Cardinality(B(m))
    BY <2>1, <2>6, <2>7, <2>8, <2>9
  <2>11. QED
    BY <2>10 DEF B
<1>13. ASSUME NEW g \in Nat, Ranked(s, g), Of(out, "ptr") # {}
       PROVE out[Final(Of(out, "ptr"))].data = g + CountOf(out, "ptr")
  <2> DEFINE m == Final(Of(out, "ptr"))
  <2>1. m \in Of(out, "ptr") /\ \A j \in Of(out, "ptr") : j <= m
    <3>1. Of(out, "ptr") \subseteq 0 .. c /\ c \in Nat
      <4>1. Of(out, "ptr") \subseteq 1 .. c
        BY <1>2 DEF Of
      <4>2. QED
        BY <1>1, <4>1
    <3>2. QED
      BY <1>13, <3>1, FinalOf
  <2> HIDE DEF m
  <2>2. m \in Of(s, "ptr") /\ m <= c /\ out[m] = s[m]
    BY <1>1, <1>2, <1>3, <1>5, <2>1
  <2>3. {j \in Of(s, "ptr") : j <= m} = Of(out, "ptr")
    <3>1. \A j \in 1 .. n : j <= m => j <= c
      BY <1>1, <2>2
    <3>2. QED
      BY <1>1, <1>5, <2>1, <3>1
  <2>4. s[m].data = g + CountOf(out, "ptr")
    BY <1>13, <2>2, <2>3 DEF Ranked, CountOf
  <2>5. QED
    BY <2>2, <2>4 DEF m
<1>14. \A g \in Nat : Ranked(s, g) =>
         /\ Ranked(r, g + CountOf(out, "ptr"))
         /\ Of(out, "ptr") # {} => out[Final(Of(out, "ptr"))].data = g + CountOf(out, "ptr")
  BY <1>12, <1>13 DEF Ranked
<1>15. QED
  BY <1>2, <1>6, <1>7, <1>8, <1>9, <1>10, <1>11, <1>14 DEF out, r

\* What a post makes of the queue: it stays orderly and within its capacity, the
\* counted events are those there were and the new one, and no expiration is lost but
\* those of an event shed to make room.
LEMMA QueueStep ==
  ASSUME Orderly(ready), coal = Cardinality(Level(ready)), coal \in 0 .. Cap,
         NEW e \in Events, e.coal <=> e.source \notin Counted, Queue(e)
  PROVE  /\ Orderly(ready') /\ coal' \in 0 .. Cap /\ coal' = Cardinality(Level(ready'))
         /\ \A x \in Counted :
               CountOf(ready', x) = CountOf(ready, x) + (IF e.source = x THEN 1 ELSE 0)
         /\ Expired(ready') = Expired(ready) - Shed(e)
                                + (IF e.source = "timer" THEN e.data ELSE 0)
         /\ \A i \in 1 .. Len(ready') :
               \/ \E j \in 1 .. Len(ready) : ready'[i] = ready[j]
               \/ /\ ready'[i].source = e.source /\ ready'[i].meant = e.meant
                  /\ ready'[i].late = e.late
         /\ \A g \in Nat :
               Ranked(ready, g) /\ (e.source = "ptr" => e.data = g + CountOf(ready, "ptr") + 1)
                  => Ranked(ready', g)
<1> DEFINE same == {i \in DOMAIN ready : e.coal /\ Matches(i, e)}
           full == e.coal /\ coal >= Cap
<1>1. /\ ready \in Seq(Events) /\ Len(ready) \in Nat /\ DOMAIN ready = 1 .. Len(ready)
      /\ \A i \in 1 .. Len(ready) : ready[i] \in Events
      /\ Level(ready) \subseteq 1 .. Len(ready) /\ Cap \in Nat /\ Cap >= 1 /\ coal \in Nat
      /\ Expired(ready) \in Nat
  BY Indices, ExpiredNat, QueueAssumption DEF Orderly
<1>2. CASE same # {}
  <2> DEFINE k == CHOOSE j \in same : TRUE
             f == IF e.source = "timer" THEN [e EXCEPT !.data = @ + ready[k].data] ELSE e
  <2>1. k \in same /\ coal' = coal /\ ready' = [ready EXCEPT ![k] = f]
    BY <1>2 DEF Queue
  <2>2. /\ e.coal /\ k \in 1 .. Len(ready) /\ k \in Level(ready) /\ Matches(k, e)
        /\ ready[k].source = e.source /\ ready[k].data \in Nat
    BY <1>1, <2>1 DEF Matches, Level, Events
  <2>3. /\ f \in Events /\ f.coal /\ f.source = e.source /\ f.meant = e.meant
        /\ f.late = e.late
        /\ e.source = "timer" => f.data = e.data + ready[k].data
    BY <2>2 DEF Events
  <2> HIDE DEF k, f, same
  <2>4. /\ Orderly(ready') /\ Len(ready') = Len(ready) /\ ready'[k] = f
        /\ \A i \in 1 .. Len(ready) : i # k => ready'[i] = ready[i]
        /\ Level(ready') = Level(ready) /\ \A x : Of(ready', x) = Of(ready, x)
        /\ Expired(ready') = IF f.source = "timer" THEN f.data ELSE Expired(ready)
        /\ f.source = "timer" => Expired(ready) = ready[k].data
        /\ \A g : Ranked(ready, g) => Ranked(ready', g)
    <3> DEFINE r == [ready EXCEPT ![k] = f]
    <3>1. /\ Orderly(r) /\ Len(r) = Len(ready) /\ r[k] = f
          /\ \A i \in 1 .. Len(ready) : i # k => r[i] = ready[i]
          /\ Level(r) = Level(ready) /\ \A x : Of(r, x) = Of(ready, x)
          /\ Expired(r) = IF f.source = "timer" THEN f.data ELSE Expired(ready)
          /\ f.source = "timer" => Expired(ready) = ready[k].data
          /\ \A g : Ranked(ready, g) => Ranked(r, g)
      BY <2>2, <2>3, OnReplace
    <3>2. ready' = r
      BY <2>1
    <3> HIDE DEF r
    <3>3. QED
      BY <3>1, <3>2
  <2>5. Shed(e) = 0
    BY <1>1, <2>2 DEF Shed
  <2>6. \A x \in Counted :
           CountOf(ready', x) = CountOf(ready, x) + (IF e.source = x THEN 1 ELSE 0)
    <3> SUFFICES ASSUME NEW x \in Counted
        PROVE CountOf(ready', x) = CountOf(ready, x) + (IF e.source = x THEN 1 ELSE 0)
      OBVIOUS
    <3>1. e.source # x /\ CountOf(ready', x) = CountOf(ready, x)
      BY <2>2, <2>4 DEF CountOf
    <3>2. CountOf(ready, x) \in Nat
      BY <1>1, Indices
    <3>3. QED
      BY <3>1, <3>2
  <2>7. Expired(ready') = Expired(ready) - Shed(e)
                            + (IF e.source = "timer" THEN e.data ELSE 0)
    <3>1. e.data \in Nat
      BY DEF Events
    <3>2. CASE e.source = "timer"
      <4>1. Expired(ready') = e.data + ready[k].data /\ Expired(ready) = ready[k].data
        BY <2>3, <2>4, <3>2
      <4>2. QED
        BY <2>2, <2>5, <3>1, <3>2, <4>1
    <3>3. CASE e.source # "timer"
      <4>1. Expired(ready') = Expired(ready)
        BY <2>3, <2>4, <3>3
      <4>2. QED
        BY <1>1, <2>5, <3>3, <4>1
    <3>4. QED
      BY <3>2, <3>3
  <2>8. \A i \in 1 .. Len(ready') :
           \/ \E j \in 1 .. Len(ready) : ready'[i] = ready[j]
           \/ /\ ready'[i].source = e.source /\ ready'[i].meant = e.meant
              /\ ready'[i].late = e.late
    BY <2>3, <2>4
  <2>9. QED
    BY <2>1, <2>4, <2>6, <2>7, <2>8
<1>3. ASSUME same = {}, NEW s, Orderly(s), ready' = Append(s, e),
             Len(s) <= Len(ready),
             \A i \in 1 .. Len(s) : \E j \in 1 .. Len(ready) : s[i] = ready[j],
             \A x \in Counted : CountOf(s, x) = CountOf(ready, x),
             Expired(s) = Expired(ready) - Shed(e),
             \A g : Ranked(ready, g) => Ranked(s, g)
      PROVE  /\ Orderly(ready')
             /\ Cardinality(Level(ready')) = Cardinality(Level(s)) + (IF e.coal THEN 1 ELSE 0)
             /\ \A x \in Counted :
                   CountOf(ready', x) = CountOf(ready, x) + (IF e.source = x THEN 1 ELSE 0)
             /\ Expired(ready') = Expired(ready) - Shed(e)
                                    + (IF e.source = "timer" THEN e.data ELSE 0)
             /\ \A i \in 1 .. Len(ready') :
                   \/ \E j \in 1 .. Len(ready) : ready'[i] = ready[j]
                   \/ /\ ready'[i].source = e.source /\ ready'[i].meant = e.meant
                      /\ ready'[i].late = e.late
             /\ \A g \in Nat :
                   Ranked(ready, g)
                   /\ (e.source = "ptr" => e.data = g + CountOf(ready, "ptr") + 1)
                      => Ranked(ready', g)
  <2>1. \A i \in 1 .. Len(s) : ~(e.coal /\ s[i].coal /\ s[i].source = e.source)
    BY <1>1, <1>3 DEF Matches
  <2>2. /\ Orderly(ready')
        /\ Len(ready') = Len(s) + 1 /\ ready'[Len(s) + 1] = e
        /\ \A i \in 1 .. Len(s) : ready'[i] = s[i]
        /\ Cardinality(Level(ready')) = Cardinality(Level(s)) + (IF e.coal THEN 1 ELSE 0)
        /\ \A x : CountOf(ready', x) = CountOf(s, x) + (IF e.source = x THEN 1 ELSE 0)
        /\ Expired(ready') = Expired(s) + (IF e.source = "timer" THEN e.data ELSE 0)
    <3> DEFINE r == Append(s, e)
    <3>1. /\ Orderly(r)
          /\ Len(r) = Len(s) + 1 /\ r[Len(s) + 1] = e
          /\ \A i \in 1 .. Len(s) : r[i] = s[i]
          /\ Cardinality(Level(r)) = Cardinality(Level(s)) + (IF e.coal THEN 1 ELSE 0)
          /\ \A x : CountOf(r, x) = CountOf(s, x) + (IF e.source = x THEN 1 ELSE 0)
          /\ Expired(r) = Expired(s) + (IF e.source = "timer" THEN e.data ELSE 0)
      BY <1>3, <2>1, OnAppend
    <3>2. ready' = r
      BY <1>3
    <3> HIDE DEF r
    <3>3. QED
      BY <3>1, <3>2
  <2>3. s \in Seq(Events) /\ Len(s) \in Nat
    BY <1>3, Indices DEF Orderly
  <2>4. \A i \in 1 .. Len(ready') : i \in 1 .. Len(s) \/ i = Len(s) + 1
    BY <2>2, <2>3
  <2>5. \A i \in 1 .. Len(ready') :
           \/ \E j \in 1 .. Len(ready) : ready'[i] = ready[j]
           \/ /\ ready'[i].source = e.source /\ ready'[i].meant = e.meant
              /\ ready'[i].late = e.late
    BY <1>3, <2>2, <2>4
  <2>6. ASSUME NEW g \in Nat, Ranked(ready, g),
               e.source = "ptr" => e.data = g + CountOf(ready, "ptr") + 1
        PROVE Ranked(ready', g)
    <3>1. Ranked(s, g) /\ CountOf(s, "ptr") = CountOf(ready, "ptr")
      BY <1>3, <2>6 DEF Counted
    <3>2. QED
      BY <1>3, <2>3, <2>6, <3>1, RankedAppend
  <2>7. QED
    BY <1>3, <2>2, <2>5, <2>6
<1>4. CASE same = {} /\ full
  <2> DEFINE k == First(Level(ready))
             s == Drop(ready, k)
  <2>1. ready' = Append(s, e) /\ coal' = coal /\ e.coal /\ coal = Cap
    BY <1>1, <1>4 DEF Queue
  <2>2. k \in Level(ready)
    <3>1. Level(ready) # {}
      <4>1. Cardinality(Level(ready)) # 0
        BY <1>1, <2>1
      <4>2. QED
        BY <4>1, FS_EmptySet
    <3>2. Level(ready) \subseteq Nat
      BY <1>1
    <3>3. QED
      BY <3>1, <3>2, FirstOf
  <2>3. Shed(e) = IF ready[k].source = "timer" THEN ready[k].data ELSE 0
    BY <1>1, <1>4, <2>1 DEF Shed
  <2> HIDE DEF k, same, full
  <2>4. /\ Orderly(s) /\ Len(s) = Len(ready) - 1
        /\ \A i \in 1 .. Len(s) : \E j \in 1 .. Len(ready) : s[i] = ready[j]
        /\ Cardinality(Level(s)) = Cardinality(Level(ready)) - 1
        /\ \A x \in Counted : CountOf(s, x) = CountOf(ready, x)
        /\ Expired(s) = Expired(ready)
                          - (IF ready[k].source = "timer" THEN ready[k].data ELSE 0)
        /\ \A g : Ranked(ready, g) => Ranked(s, g)
    BY <2>2, OnDrop
  <2> HIDE DEF s
  <2>5. Len(s) <= Len(ready) /\ Expired(s) = Expired(ready) - Shed(e)
    BY <1>1, <2>3, <2>4
  <2>6. /\ Orderly(ready')
        /\ Cardinality(Level(ready')) = Cardinality(Level(s)) + (IF e.coal THEN 1 ELSE 0)
        /\ \A x \in Counted :
              CountOf(ready', x) = CountOf(ready, x) + (IF e.source = x THEN 1 ELSE 0)
        /\ Expired(ready') = Expired(ready) - Shed(e)
                               + (IF e.source = "timer" THEN e.data ELSE 0)
        /\ \A i \in 1 .. Len(ready') :
              \/ \E j \in 1 .. Len(ready) : ready'[i] = ready[j]
              \/ /\ ready'[i].source = e.source /\ ready'[i].meant = e.meant
                 /\ ready'[i].late = e.late
        /\ \A g \in Nat :
              Ranked(ready, g)
              /\ (e.source = "ptr" => e.data = g + CountOf(ready, "ptr") + 1)
                 => Ranked(ready', g)
    BY <1>3, <1>4, <2>1, <2>4, <2>5
  <2>7. coal' = Cardinality(Level(ready'))
    <3>1. Cardinality(Level(ready')) = (coal - 1) + 1
      BY <2>1, <2>4, <2>6
    <3>2. QED
      BY <1>1, <2>1, <3>1
  <2>8. QED
    BY <2>1, <2>6, <2>7
<1>5. CASE same = {} /\ ~full
  <2>1. ready' = Append(ready, e) /\ coal' = coal + (IF e.coal THEN 1 ELSE 0)
    BY <1>5 DEF Queue
  <2>2. Shed(e) = 0
    BY <1>5 DEF Shed
  <2>3. coal' \in 0 .. Cap
    BY <1>1, <1>5, <2>1
  <2>4. /\ Len(ready) <= Len(ready) /\ Expired(ready) = Expired(ready) - Shed(e)
        /\ \A i \in 1 .. Len(ready) : \E j \in 1 .. Len(ready) : ready[i] = ready[j]
        /\ \A x \in Counted : CountOf(ready, x) = CountOf(ready, x)
        /\ \A g : Ranked(ready, g) => Ranked(ready, g)
    BY <1>1, <2>2
  <2> HIDE DEF same, full
  <2>5. /\ Orderly(ready')
        /\ Cardinality(Level(ready')) = Cardinality(Level(ready)) + (IF e.coal THEN 1 ELSE 0)
        /\ \A x \in Counted :
              CountOf(ready', x) = CountOf(ready, x) + (IF e.source = x THEN 1 ELSE 0)
        /\ Expired(ready') = Expired(ready) - Shed(e)
                               + (IF e.source = "timer" THEN e.data ELSE 0)
        /\ \A i \in 1 .. Len(ready') :
              \/ \E j \in 1 .. Len(ready) : ready'[i] = ready[j]
              \/ /\ ready'[i].source = e.source /\ ready'[i].meant = e.meant
                 /\ ready'[i].late = e.late
        /\ \A g \in Nat :
              Ranked(ready, g)
              /\ (e.source = "ptr" => e.data = g + CountOf(ready, "ptr") + 1)
                 => Ranked(ready', g)
    BY <1>3, <1>5, <2>1, <2>4
  <2>6. QED
    BY <2>1, <2>3, <2>5
<1>6. QED
  BY <1>2, <1>4, <1>5

-------------------------------------------------------------------------------
(* The threads.                                                            *)

\* No thread has two parts, and each part has events of one source.
LEMMA KindIs ==
  /\ \A p \in Counters : p \in Posters /\ Kind(p) = "cnt"
  /\ \A p \in Timers : p \in Posters /\ Kind(p) = "timer"
  /\ Ptr \in Posters /\ Kind(Ptr) = "ptr" /\ Eop \in Posters /\ Kind(Eop) = "eop"
  /\ User \in Posters /\ Kind(User) = "user" /\ Video \in Posters /\ Kind(Video) = "flip"
  /\ \A p \in Posters : /\ p \in ByIdentity <=> Kind(p) \in {"cnt", "ptr"}
                        /\ p \in Timers <=> Kind(p) = "timer"
                        /\ p \in Counters <=> Kind(p) = "cnt"
                        /\ p = Ptr <=> Kind(p) = "ptr"
                        /\ p \in Actors /\ p \notin Waiters
                        /\ Kind(p) \in Sources
<1>1. ASSUME NEW a, NEW b, NEW c PROVE Cardinality({a, b, c}) <= 3
  <2>1. IsFiniteSet({}) /\ Cardinality({}) = 0
    BY FS_EmptySet
  <2>2. IsFiniteSet({a}) /\ Cardinality({a}) = 1
    BY FS_Singleton
  <2>3. {a, b} = {a} \union {b} /\ {a, b, c} = {a, b} \union {c}
    OBVIOUS
  <2>4. IsFiniteSet({a, b}) /\ Cardinality({a, b}) \in {1, 2}
    BY <2>2, <2>3, FS_AddElement
  <2>5. Cardinality({a, b, c}) \in {1, 2, 3}
    BY <2>3, <2>4, FS_AddElement
  <2>6. QED
    BY <2>5
<1>2. \A a, b, c : Cardinality({a, b, c}) # 4
  <2> SUFFICES ASSUME NEW a, NEW b, NEW c PROVE Cardinality({a, b, c}) # 4
    OBVIOUS
  <2>1. Cardinality({a, b, c}) <= 3
    BY <1>1
  <2>2. QED
    BY <2>1
<1>3. /\ Video # Eop /\ Video # User /\ Video # Ptr
      /\ Eop # User /\ Eop # Ptr /\ User # Ptr
  <2>1. Cardinality({Video, Eop, User, Ptr}) = 4
    BY QueueAssumption
  <2>2. /\ Video = Eop => {Video, Eop, User, Ptr} = {Eop, User, Ptr}
        /\ Video = User => {Video, Eop, User, Ptr} = {Eop, User, Ptr}
        /\ Video = Ptr => {Video, Eop, User, Ptr} = {Eop, User, Ptr}
        /\ Eop = User => {Video, Eop, User, Ptr} = {Video, User, Ptr}
        /\ Eop = Ptr => {Video, Eop, User, Ptr} = {Video, User, Ptr}
        /\ User = Ptr => {Video, Eop, User, Ptr} = {Video, Eop, Ptr}
    OBVIOUS
  <2>3. QED
    BY <1>2, <2>1, <2>2
<1>4. /\ Ptr \notin Counters \union Timers /\ Eop \notin Counters \union Timers
      /\ User \notin Counters \union Timers /\ Video \notin Counters \union Timers
      /\ Counters \cap Timers = {}
  BY QueueAssumption
<1>5. \A p : /\ p \in Counters => Kind(p) = "cnt"
             /\ p \in Timers => Kind(p) = "timer"
  BY <1>4 DEF Kind
<1>6. Kind(Ptr) = "ptr" /\ Kind(Eop) = "eop" /\ Kind(User) = "user" /\ Kind(Video) = "flip"
  BY <1>3, <1>4 DEF Kind
<1>7. /\ Counters \subseteq Posters /\ Timers \subseteq Posters
      /\ {Video, Eop, User, Ptr} \subseteq Posters
      /\ \A p \in Posters : p \in Counters \/ p \in Timers \/ p \in {Video, Eop, User, Ptr}
  BY DEF Posters
<1>8. \A p \in Posters : p \in Actors /\ p \notin Waiters
  BY QueueAssumption DEF Actors
<1>9. QED
  BY <1>4, <1>5, <1>6, <1>7, <1>8 DEF ByIdentity, Sources

LEMMA InitIInv == Init => IInv
<1> SUFFICES ASSUME Init PROVE IInv
  OBVIOUS
<1> USE QueueAssumption
<1>1. /\ ready = <<>> /\ ready \in Seq(Events) /\ DOMAIN ready = {} /\ Len(ready) = 0
      /\ ptrq = <<>> /\ DOMAIN ptrq = {} /\ Len(ptrq) = 0
      /\ ptrq \in Seq([data : Nat, for : 1 .. MaxIdent])
  BY DEF Init
<1>2. Level(ready) = {} /\ \A x : Of(ready, x) = {}
  BY <1>1 DEF Level, Of
<1>3. Cardinality(Level(ready)) = 0 /\ (\A x : CountOf(ready, x) = 0) /\ Expired(ready) = 0
  BY <1>1, <1>2, FS_EmptySet, ExpiredIs DEF CountOf
<1>4. TypeOK
  <2>1. NoEvent \in Events
    BY DEF NoEvent, Events, Sources
  <2>2. /\ mix \in Mixes /\ ident \in 0 .. MaxIdent
        /\ {mapped, deleted, dying} \subseteq BOOLEAN
        /\ ready \in Seq(Events) /\ coal \in 0 .. Cap
        /\ regs \subseteq [source : {"flip", "eop"}, for : 1 .. MaxIdent, stale : BOOLEAN]
        /\ armed \in Timers \union {NoOne}
        /\ hwm \in Nat /\ ptrq \in Seq([data : Nat, for : 1 .. MaxIdent])
        /\ nposts \in 0 .. MaxPosts
        /\ ptrSent \in Nat /\ ptrGot \in Nat /\ ptrLast \in Nat /\ shown \in Nat
    <3>1. Cap \in Nat /\ MaxIdent \in Nat /\ MaxPosts \in Nat
      BY QueueAssumption
    <3>2. ident \in 0 .. MaxIdent /\ coal \in 0 .. Cap /\ nposts \in 0 .. MaxPosts
      BY <3>1 DEF Init
    <3>3. /\ mix \in Mixes /\ {mapped, deleted, dying} \subseteq BOOLEAN
          /\ regs = {} /\ armed \in Timers \union {NoOne}
      BY DEF Init
    <3>4. /\ hwm \in Nat /\ ptrSent \in Nat /\ ptrGot \in Nat /\ ptrLast \in Nat
          /\ shown \in Nat
      BY DEF Init
    <3>5. QED
      BY <1>1, <3>2, <3>3, <3>4
  <2>3. /\ cancelled \in [Timers -> BOOLEAN] /\ periodic \in [Timers -> BOOLEAN]
        /\ pc \in [Actors -> Pcs]
        /\ ev \in [Posters -> Events] /\ exp \in [Posters -> 0 .. MaxIdent]
        /\ kept \in [{"eop", "timer", "shed"} -> Nat] /\ taken \in [{"eop", "timer"} -> Nat]
        /\ extra \in [Timers -> Nat]
    BY <2>1 DEF Init, Pcs
  <2>4. QED
    BY <2>2, <2>3 DEF TypeOK
<1>5. NothingCountedIsLost
  BY <1>2, <1>3, <1>4 DEF Init, NothingCountedIsLost, CoalescibleExact
<1>6. TagsInOrder
  BY <1>2 DEF Init, TagsInOrder
<1>7. RegistrationsDieWithQueue /\ LifeExact
  BY DEF Init, RegistrationsDieWithQueue, LifeExact
<1>8. PcsExact /\ PostsExact /\ QueueExact /\ TimersExact
  BY <1>1, KindIs DEF Init, PcsExact, PostsExact, QueueExact, TimersExact
<1>9. TagsInLine
  <2>1. Hand = 0 /\ ~mapped
    BY KindIs DEF Init, Hand
  <2>2. QED
    BY <1>1, <2>1 DEF TagsInLine
<1>10. QED
  BY <1>5, <1>6, <1>7, <1>8, <1>9 DEF IInv

LEMMA EventIs ==
  /\ NoEvent \in Events
  /\ \A source \in Sources, data \in Nat, coalesce \in BOOLEAN, for \in 0 .. MaxIdent :
        \A dead \in BOOLEAN : Event(source, data, coalesce, for, dead) \in Events
BY QueueAssumption DEF NoEvent, Event, Events, Sources

-------------------------------------------------------------------------------
(* The steps that leave the pending events alone.                          *)

\* What is counted and the order of the tags depend on the pending events and on what
\* was posted and delivered.
LEMMA Untouched ==
  ASSUME IInv, TypeOK', UNCHANGED <<ident, ready, coal, ptrGot, ptrLast, kept, taken>>
  PROVE  NothingCountedIsLost' /\ TagsInOrder' /\ QueueExact'
<1>1. CoalescibleExact'
  BY DEF IInv, NothingCountedIsLost, CoalescibleExact
<1>2. QED
  BY <1>1 DEF IInv, NothingCountedIsLost, TagsInOrder, QueueExact, CountOf

\* The posts of the threads, when the queue is the one it was.
LEMMA PostsKept ==
  ASSUME IInv, UNCHANGED <<ident, mapped, pc, ev, exp>>
  PROVE  PcsExact' /\ PostsExact'
BY DEF IInv, PcsExact, PostsExact

LEMMA LineKept ==
  ASSUME IInv, UNCHANGED <<ident, mapped, ready, ptrq, ptrSent, ptrGot>>,
         pc'[Ptr] = pc[Ptr], ev'[Ptr] = ev[Ptr], exp'[Ptr] = exp[Ptr]
  PROVE  TagsInLine'
<1>1. Hand' = Hand /\ Arrived' = Arrived
  BY DEF Hand, Arrived, CountOf
<1>2. Owed' = Owed
  BY <1>1 DEF Owed
<1>3. QED
  BY <1>1, <1>2 DEF IInv, TagsInLine

LEMMA RegisterStep ==
  ASSUME IInv, NEW source \in {"flip", "eop"}, Register(source)
  PROVE  IInv'
<1> USE DEF Register, object, pending, posting, history
<1>0. TypeOK
  BY DEF IInv, NothingCountedIsLost, CoalescibleExact
<1>1. TypeOK'
  <2>1. ident \in 1 .. MaxIdent /\ (~mapped) \in BOOLEAN
    BY <1>0, QueueAssumption DEF TypeOK
  <2>2. [source |-> source, for |-> ident, stale |-> ~mapped]
           \in [source : {"flip", "eop"}, for : 1 .. MaxIdent, stale : BOOLEAN]
    BY <2>1
  <2>3. regs \subseteq [source : {"flip", "eop"}, for : 1 .. MaxIdent, stale : BOOLEAN]
    BY <1>0 DEF TypeOK
  <2>4. regs' \subseteq [source : {"flip", "eop"}, for : 1 .. MaxIdent, stale : BOOLEAN]
    BY <2>2, <2>3
  <2>5. QED
    BY <1>0, <2>4 DEF TypeOK
<1>2. NothingCountedIsLost' /\ TagsInOrder' /\ QueueExact'
  BY <1>1, Untouched
<1>3. PcsExact' /\ PostsExact' /\ TagsInLine'
  BY PostsKept, LineKept
<1>4. RegistrationsDieWithQueue'
  <2>1. \A r \in regs' : r.stale \/ (mapped /\ r.for = ident)
    <3> SUFFICES ASSUME NEW r \in regs' PROVE r.stale \/ (mapped /\ r.for = ident)
      OBVIOUS
    <3>1. CASE r \in regs
      BY <3>1 DEF IInv, RegistrationsDieWithQueue
    <3>2. CASE r = [source |-> source, for |-> ident, stale |-> ~mapped]
      BY <3>2
    <3>3. QED
      BY <3>1, <3>2
  <2>2. QED
    BY <2>1 DEF IInv, RegistrationsDieWithQueue
<1>5. LifeExact' /\ TimersExact'
  BY DEF IInv, LifeExact, TimersExact
<1>6. QED
  BY <1>2, <1>3, <1>4, <1>5 DEF IInv

LEMMA DeleteStep ==
  ASSUME IInv, Delete
  PROVE  IInv'
<1> USE DEF Delete, pending, history
<1>0. TypeOK
  BY DEF IInv, NothingCountedIsLost, CoalescibleExact
<1>1. /\ \A p \in Posters : /\ ev'[p].source = ev[p].source /\ ev'[p].data = ev[p].data
                            /\ ev'[p].coal = ev[p].coal /\ ev'[p].meant = ev[p].meant
                            /\ pc[p] \in {"find", "post"} => ev'[p].late
      /\ ev' \in [Posters -> Events]
  BY <1>0, ZenonT(30) DEF TypeOK, Events
<1>2. TypeOK'
  BY <1>0, <1>1 DEF TypeOK
<1>3. NothingCountedIsLost' /\ TagsInOrder' /\ QueueExact'
  BY <1>2, Untouched
<1>4. PcsExact' /\ PostsExact'
  BY <1>1 DEF IInv, PcsExact, PostsExact
<1>5. RegistrationsDieWithQueue' /\ LifeExact'
  BY DEF IInv, RegistrationsDieWithQueue, LifeExact
<1>6. TimersExact'
  <2>1. \A t \in Timers : cancelled'[t] = (cancelled[t] \/ armed = t)
    OBVIOUS
  <2>2. NoOne \notin Timers
    BY QueueAssumption DEF Actors, Posters
  <2>3. QED
    BY <2>1, <2>2 DEF IInv, TimersExact
<1>7. TagsInLine'
  BY <1>1, KindIs DEF IInv, TagsInLine, Hand, Arrived, CountOf
<1>8. QED
  BY <1>3, <1>4, <1>5, <1>6, <1>7 DEF IInv

LEMMA MarkStep ==
  ASSUME IInv, Mark
  PROVE  IInv'
<1> USE DEF Mark, pending, sources, posting, history
<1>1. TypeOK'
  BY DEF IInv, NothingCountedIsLost, CoalescibleExact, TypeOK
<1>2. NothingCountedIsLost' /\ TagsInOrder' /\ QueueExact'
  BY <1>1, Untouched
<1>3. PcsExact' /\ PostsExact' /\ TagsInLine'
  BY PostsKept, LineKept
<1>4. RegistrationsDieWithQueue' /\ LifeExact' /\ TimersExact'
  BY DEF IInv, RegistrationsDieWithQueue, LifeExact, TimersExact
<1>5. QED
  BY <1>2, <1>3, <1>4 DEF IInv

LEMMA WaiterStep ==
  ASSUME IInv, NEW w \in Waiters, NEW timed \in BOOLEAN, Wait(w) \/ GiveUp(w, timed)
  PROVE  IInv'
<1> USE DEF Wait, GiveUp, Goto, object, pending, sources, posting, history
<1>0. TypeOK /\ \A p \in Posters : p # w
  BY KindIs DEF IInv, NothingCountedIsLost, CoalescibleExact
<1>1. \A p \in Posters : pc'[p] = pc[p]
  BY <1>0, KindIs DEF TypeOK
<1>2. TypeOK'
  <2>1. w \in Actors
    BY DEF Actors
  <2>2. pc' \in [Actors -> Pcs]
    BY <1>0, <2>1 DEF TypeOK, Pcs
  <2>3. QED
    BY <1>0, <2>2 DEF TypeOK
<1>3. NothingCountedIsLost' /\ TagsInOrder' /\ QueueExact'
  BY <1>2, Untouched
<1>4. PcsExact' /\ PostsExact'
  BY <1>1 DEF IInv, PcsExact, PostsExact
<1>5. TagsInLine'
  BY <1>1, LineKept, KindIs
<1>6. TimersExact'
  BY <1>1, KindIs DEF IInv, TimersExact
<1>7. RegistrationsDieWithQueue' /\ LifeExact'
  BY DEF IInv, RegistrationsDieWithQueue, LifeExact
<1>8. QED
  BY <1>3, <1>4, <1>5, <1>6, <1>7 DEF IInv

\* A thread prepares an event for a queue that is there.
LEMMA PrepareStep ==
  ASSUME IInv, NEW p \in Posters \ Timers, NEW e \in Events, NEW who \in 0 .. MaxIdent,
         pc[p] = "idle", Prepare(p, e, who), e.source = Kind(p),
         e.coal <=> Kind(p) \notin Counted,
         p \in ByIdentity => who = e.meant /\ who \in 1 .. ident,
         p \notin ByIdentity => e.late \/ (mapped /\ e.meant = ident),
         UNCHANGED <<ident, mapped, regs, armed, cancelled, extra, deleted, dying>>
  PROVE  /\ PcsExact' /\ PostsExact' /\ TimersExact'
         /\ RegistrationsDieWithQueue' /\ LifeExact'
         /\ pc' \in [Actors -> Pcs] /\ ev' \in [Posters -> Events]
         /\ exp' \in [Posters -> 0 .. MaxIdent]
         /\ pc'[p] = "find" /\ ev'[p] = e /\ exp'[p] = who
         /\ \A q \in Posters : q # p => pc'[q] = pc[q] /\ ev'[q] = ev[q] /\ exp'[q] = exp[q]
<1> USE DEF Prepare, Goto
<1>0. TypeOK /\ p \in Actors
  BY KindIs DEF IInv, NothingCountedIsLost, CoalescibleExact
<1>1. /\ pc' \in [Actors -> Pcs] /\ ev' \in [Posters -> Events]
      /\ exp' \in [Posters -> 0 .. MaxIdent]
  BY <1>0 DEF TypeOK, Pcs
<1>2. /\ pc'[p] = "find" /\ ev'[p] = e /\ exp'[p] = who
      /\ \A q \in Posters : q # p => pc'[q] = pc[q] /\ ev'[q] = ev[q] /\ exp'[q] = exp[q]
  BY <1>0, KindIs DEF TypeOK
<1> HIDE DEF Prepare
<1>3. PcsExact'
  BY <1>2 DEF IInv, PcsExact
<1>4. PostsExact'
  <2> SUFFICES ASSUME NEW q \in Posters, pc'[q] # "idle"
      PROVE /\ ev'[q].source = Kind(q)
            /\ ev'[q].coal <=> Kind(q) \notin Counted
            /\ q \in ByIdentity => /\ exp'[q] = ev'[q].meant /\ exp'[q] \in 1 .. ident'
                                   /\ pc'[q] = "post" => exp'[q] = ident'
            /\ q \notin ByIdentity /\ pc'[q] \in {"find", "post"}
                  => ev'[q].late \/ (mapped' /\ ev'[q].meant = ident')
    BY DEF PostsExact
  <2>1. CASE q = p
    BY <1>2, <2>1
  <2>2. CASE q # p
    BY <1>2, <2>2 DEF IInv, PostsExact
  <2>3. QED
    BY <2>1, <2>2
<1>5. TimersExact'
  BY <1>2, KindIs DEF IInv, TimersExact
<1>6. RegistrationsDieWithQueue' /\ LifeExact'
  <2>1. armed # NoOne => armed \in Timers /\ armed \in Posters /\ armed # p
    BY <1>0, KindIs DEF TypeOK
  <2>2. QED
    BY <1>2, <2>1 DEF IInv, RegistrationsDieWithQueue, LifeExact
<1>7. QED
  BY <1>1, <1>2, <1>3, <1>4, <1>5, <1>6

\* Posts of flips, vblanks, end-of-pipe and user events.
LEMMA SourceStep ==
  ASSUME IInv,
         \/ Snapshot(Video, "flip") \/ Snapshot(Eop, "eop") \/ Trigger
  PROVE  IInv'
<1> USE DEF object, pending, sources, history
<1>0. TypeOK
  BY DEF IInv, NothingCountedIsLost, CoalescibleExact
<1>1. PICK p \in {Video, Eop, User}, e \in Events :
         /\ Prepare(p, e, 0) /\ pc[p] = "idle" /\ Budget
         /\ e.source = Kind(p) /\ (e.coal <=> Kind(p) \notin Counted)
         /\ e.late \/ (mapped /\ e.meant = ident)
         /\ UNCHANGED <<mix, object, pending, sources, history>>
  <2>1. ASSUME NEW p \in {Video, Eop}, NEW source \in {"flip", "eop"}, Kind(p) = source,
               Snapshot(p, source)
        PROVE \E e \in Events :
                 /\ Prepare(p, e, 0) /\ pc[p] = "idle" /\ Budget
                 /\ e.source = Kind(p) /\ (e.coal <=> Kind(p) \notin Counted)
                 /\ e.late \/ (mapped /\ e.meant = ident)
                 /\ UNCHANGED <<mix, object, pending, sources, history>>
    <3>1. PICK r \in regs :
             r.source = source /\ Prepare(p, Event(source, 0, source = "flip", r.for, r.stale), 0)
      BY <2>1 DEF Snapshot
    <3>2. /\ r.stale \/ (mapped /\ r.for = ident)
          /\ r.for \in 0 .. MaxIdent /\ r.stale \in BOOLEAN
      BY <1>0, QueueAssumption DEF IInv, RegistrationsDieWithQueue, TypeOK
    <3> DEFINE e == Event(source, 0, source = "flip", r.for, r.stale)
    <3>3. e \in Events
      <4>1. source \in Sources
        BY DEF Sources
      <4>2. QED
        BY <3>2, <4>1, EventIs
    <3>4. /\ e.source = source /\ (e.coal <=> source \notin Counted)
          /\ e.late \/ (mapped /\ e.meant = ident)
      BY <3>2 DEF Event, Counted
    <3> HIDE DEF e
    <3>5. Prepare(p, e, 0) /\ pc[p] = "idle" /\ Budget
          /\ UNCHANGED <<mix, object, pending, sources, history>>
      BY <2>1, <3>1 DEF Snapshot, e
    <3>6. QED
      BY <2>1, <3>2, <3>3, <3>4, <3>5
  <2>2. ASSUME Trigger
        PROVE \E e \in Events :
                 /\ Prepare(User, e, 0) /\ pc[User] = "idle" /\ Budget
                 /\ e.source = Kind(User) /\ (e.coal <=> Kind(User) \notin Counted)
                 /\ e.late \/ (mapped /\ e.meant = ident)
                 /\ UNCHANGED <<mix, object, pending, sources, history>>
    <3> DEFINE e == Event("user", 0, TRUE, ident, ~mapped)
    <3>1. e \in Events
      <4>1. "user" \in Sources /\ ident \in 0 .. MaxIdent
        BY <1>0 DEF Sources, TypeOK
      <4>2. QED
        BY <4>1, EventIs
    <3>2. e.source = "user" /\ e.meant = ident /\ e.coal /\ (e.late \/ mapped)
      BY DEF Event
    <3> HIDE DEF e
    <3>3. Prepare(User, e, 0) /\ pc[User] = "idle" /\ Budget
          /\ UNCHANGED <<mix, object, pending, sources, history>>
      BY <2>2 DEF Trigger, e
    <3>4. QED
      BY <3>1, <3>2, <3>3, KindIs DEF Counted
  <2>3. QED
    BY <2>1, <2>2, KindIs
<1>2. /\ p \in Posters \ Timers /\ p \notin ByIdentity /\ p # Ptr
      /\ 0 \in 0 .. MaxIdent
  BY KindIs, QueueAssumption
<1>3. /\ PcsExact' /\ PostsExact' /\ TimersExact'
      /\ RegistrationsDieWithQueue' /\ LifeExact'
      /\ pc' \in [Actors -> Pcs] /\ ev' \in [Posters -> Events]
      /\ exp' \in [Posters -> 0 .. MaxIdent]
      /\ \A q \in Posters : q # p => pc'[q] = pc[q] /\ ev'[q] = ev[q] /\ exp'[q] = exp[q]
  BY <1>1, <1>2, PrepareStep
<1>4. TypeOK'
  <2>1. nposts' \in 0 .. MaxPosts
    BY <1>0, <1>1, QueueAssumption DEF TypeOK, Budget
  <2>2. QED
    BY <1>0, <1>1, <1>3, <2>1 DEF TypeOK
<1>5. NothingCountedIsLost' /\ TagsInOrder' /\ QueueExact'
  BY <1>1, <1>4, Untouched
<1>6. TagsInLine'
  BY <1>1, <1>2, <1>3, LineKept, KindIs
<1>7. QED
  BY <1>3, <1>5, <1>6 DEF IInv

\* A bound tag joins the end of the line.
LEMMA SubmitPtrStep ==
  ASSUME IInv, SubmitPtr
  PROVE  IInv'
<1> USE DEF SubmitPtr, object, pending, posting
<1> DEFINE x == [data |-> ptrSent + 1, for |-> ident]
           n == Len(ptrq)
<1>0. TypeOK
  BY DEF IInv, NothingCountedIsLost, CoalescibleExact
<1>1. ident \in 1 .. MaxIdent /\ x \in [data : Nat, for : 1 .. MaxIdent]
  BY <1>0 DEF IInv, LifeExact, TypeOK
<1>2. /\ ptrq' \in Seq([data : Nat, for : 1 .. MaxIdent]) /\ n \in Nat /\ Len(ptrq') = n + 1
      /\ DOMAIN ptrq = 1 .. n /\ DOMAIN ptrq' = 1 .. n + 1
      /\ ptrq'[n + 1] = x /\ \A i \in 1 .. n : ptrq'[i] = ptrq[i]
  BY <1>0, <1>1, AppendProperties DEF TypeOK
<1>3. TypeOK'
  <2>1. nposts' \in 0 .. MaxPosts
    BY <1>0, QueueAssumption DEF TypeOK, Budget
  <2>2. ptrSent' \in Nat
    BY <1>0 DEF TypeOK
  <2>3. QED
    BY <1>0, <1>2, <2>1, <2>2 DEF TypeOK
<1>4. NothingCountedIsLost' /\ TagsInOrder' /\ QueueExact'
  BY <1>3, Untouched
<1>5. PcsExact' /\ PostsExact'
  BY PostsKept
<1>6. RegistrationsDieWithQueue' /\ LifeExact' /\ TimersExact'
  BY DEF IInv, RegistrationsDieWithQueue, LifeExact, TimersExact
<1>7. TagsInLine'
  <2>1. /\ Hand' = Hand /\ Arrived' = Arrived /\ Hand \in 0 .. 1 /\ Arrived \in Int
        /\ ptrSent \in Int
    <3>1. CountOf(ready, "ptr") \in Nat
      BY <1>0, Indices DEF TypeOK
    <3>2. QED
      BY <1>0, <3>1 DEF Hand, Arrived, CountOf, TypeOK
  <2>2. Owed' = Owed + 1 /\ Owed \in 0 .. n
    <3>1. mapped /\ Owed \in 0 .. n
      BY DEF IInv, TagsInLine
    <3>2. ptrSent' = ptrSent + 1
      OBVIOUS
    <3>3. QED
      BY <2>1, <3>1, <3>2 DEF Owed
  <2>3. Hand' = 1 /\ (mapped' \/ pc'[Ptr] = "post") => ev'[Ptr].data = Arrived' + 1
    BY <2>1 DEF IInv, TagsInLine
  <2>4. \A i \in 1 .. n + 1 : i \in 1 .. n \/ i = n + 1
    BY <1>2
  <2>5. \A i \in DOMAIN ptrq' : ptrq'[i].for <= ident'
    <3>1. \A i \in 1 .. n : ptrq[i].for <= ident
      BY <1>2 DEF IInv, TagsInLine
    <3>2. ident <= ident
      BY <1>1
    <3>3. QED
      BY <1>2, <2>4, <3>1, <3>2
  <2>6. Owed' \in 0 .. Len(ptrq')
    BY <1>2, <2>2
  <2>7. ASSUME NEW i \in DOMAIN ptrq'
        PROVE /\ ptrq'[i].for = ident' <=> i > Len(ptrq') - Owed'
              /\ ptrq'[i].for = ident' => ptrq'[i].data = ptrSent' - Len(ptrq') + i
    <3>1. Len(ptrq') - Owed' = n - Owed /\ ptrSent' - Len(ptrq') + i = ptrSent - n + i
      BY <1>2, <2>1, <2>2
    <3>2. CASE i \in 1 .. n
      <4>1. /\ ptrq[i].for = ident <=> i > n - Owed
            /\ ptrq[i].for = ident => ptrq[i].data = ptrSent - n + i
        BY <1>2, <3>2 DEF IInv, TagsInLine
      <4>2. QED
        BY <1>2, <3>1, <3>2, <4>1
    <3>3. CASE i = n + 1
      <4>1. i > n - Owed /\ ptrSent - n + i = ptrSent + 1
        BY <1>2, <2>1, <2>2, <3>3
      <4>2. QED
        BY <1>2, <3>1, <3>3, <4>1
    <3>4. QED
      BY <1>2, <2>4, <3>2, <3>3
  <2>8. QED
    BY <2>3, <2>5, <2>6, <2>7 DEF TagsInLine
<1>8. QED
  BY <1>4, <1>5, <1>6, <1>7 DEF IInv

\* The worker takes the first of its batch in hand: if it is for the queue that is
\* there, then all behind it are, and its tag is the next.
LEMMA PtrNextStep ==
  ASSUME IInv, PtrNext
  PROVE  IInv'
<1> USE DEF object, pending, history
<1> DEFINE x == Head(ptrq)
           n == Len(ptrq)
           e == Event("ptr", x.data, FALSE, x.for, FALSE)
<1>0. TypeOK
  BY DEF IInv, NothingCountedIsLost, CoalescibleExact
<1>1. /\ n \in Nat /\ n >= 1 /\ DOMAIN ptrq = 1 .. n /\ x = ptrq[1]
      /\ x \in [data : Nat, for : 1 .. MaxIdent]
      /\ ptrq' \in Seq([data : Nat, for : 1 .. MaxIdent]) /\ Len(ptrq') = n - 1
      /\ DOMAIN ptrq' = 1 .. n - 1
      /\ \A i \in 1 .. n - 1 : ptrq'[i] = ptrq[i + 1]
  <2>1. ptrq \in Seq([data : Nat, for : 1 .. MaxIdent]) /\ ptrq # <<>> /\ ptrq' = Tail(ptrq)
    BY <1>0 DEF TypeOK, PtrNext
  <2>2. n \in Nat /\ n >= 1 /\ DOMAIN ptrq = 1 .. n /\ x = ptrq[1]
    BY <2>1, EmptySeq
  <2>3. x \in [data : Nat, for : 1 .. MaxIdent]
    BY <2>1, HeadTailProperties
  <2>4. /\ ptrq' \in Seq([data : Nat, for : 1 .. MaxIdent]) /\ Len(ptrq') = n - 1
        /\ \A i \in 1 .. n - 1 : ptrq'[i] = ptrq[i + 1]
    <3> HIDE DEF x
    <3>1. QED
      BY <2>1, HeadTailProperties
  <2>5. DOMAIN ptrq' = 1 .. n - 1
    BY <2>4
  <2>6. QED
    BY <2>2, <2>3, <2>4, <2>5
<1>2. x.for \in 1 .. ident /\ x.for \in 0 .. MaxIdent
  <2>1. x.for <= ident
    BY <1>1, SMTT(30) DEF IInv, TagsInLine
  <2>2. QED
    BY <1>0, <1>1, <2>1 DEF TypeOK
<1>3. /\ e \in Events /\ e.source = "ptr" /\ e.coal = FALSE /\ e.meant = x.for
      /\ e.data = x.data
  <2>1. "ptr" \in Sources /\ x.data \in Nat /\ FALSE \in BOOLEAN
    BY <1>1 DEF Sources
  <2>2. e \in Events
    BY <1>2, <2>1, EventIs
  <2>3. QED
    BY <2>2 DEF Event
<1>4. pc[Ptr] = "idle" /\ Prepare(Ptr, e, x.for)
      /\ UNCHANGED <<mix, object, pending, periodic, regs, armed, cancelled, hwm,
                     nposts, history>>
  BY DEF PtrNext
<1> HIDE DEF x, e, n
<1>5. /\ PcsExact' /\ PostsExact' /\ TimersExact'
      /\ RegistrationsDieWithQueue' /\ LifeExact'
      /\ pc' \in [Actors -> Pcs] /\ ev' \in [Posters -> Events]
      /\ exp' \in [Posters -> 0 .. MaxIdent]
      /\ pc'[Ptr] = "find" /\ ev'[Ptr] = e /\ exp'[Ptr] = x.for
  <2>1. /\ Ptr \in Posters \ Timers /\ Kind(Ptr) = "ptr" /\ Ptr \in ByIdentity
        /\ Kind(Ptr) \in Counted
    BY KindIs DEF Counted
  <2>2. QED
    BY <1>2, <1>3, <1>4, <2>1, PrepareStep
<1>6. TypeOK'
  BY <1>0, <1>1, <1>4, <1>5 DEF TypeOK
<1>7. NothingCountedIsLost' /\ TagsInOrder' /\ QueueExact'
  BY <1>4, <1>6, Untouched
<1>8. TagsInLine'
  <2>1. /\ Hand = 0 /\ Hand' = (IF x.for = ident THEN 1 ELSE 0)
        /\ Arrived' = Arrived /\ Arrived \in Int /\ ptrSent \in Int /\ ptrSent' = ptrSent
        /\ ident' = ident /\ mapped' = mapped
    <3>1. CountOf(ready, "ptr") \in Nat
      BY <1>0, Indices DEF TypeOK
    <3>2. QED
      BY <1>0, <1>4, <1>5, <3>1 DEF Hand, Arrived, CountOf, TypeOK
  <2>2. \A i \in DOMAIN ptrq' : ptrq'[i].for <= ident'
    <3>1. \A i \in 1 .. n : ptrq[i].for <= ident
      BY <1>1 DEF IInv, TagsInLine
    <3>2. \A i \in 1 .. n - 1 : i + 1 \in 1 .. n
      BY <1>1
    <3>3. QED
      BY <1>1, <2>1, <3>1, <3>2
  <2>3. ASSUME mapped
        PROVE /\ Hand' = 1 => x.data = Arrived + 1
              /\ Owed' \in 0 .. n - 1
              /\ \A i \in 1 .. n - 1 :
                    /\ ptrq'[i].for = ident <=> i > n - 1 - Owed'
                    /\ ptrq'[i].for = ident => ptrq'[i].data = ptrSent - (n - 1) + i
    <3>1. /\ Owed \in 0 .. n /\ Owed = ptrSent - Arrived
          /\ Owed' = ptrSent - Arrived - Hand'
      BY <2>1, <2>3 DEF IInv, TagsInLine, Owed, n
    <3>2. \A i \in 1 .. n :
             /\ ptrq[i].for = ident <=> i > n - Owed
             /\ ptrq[i].for = ident => ptrq[i].data = ptrSent - n + i
      BY <1>1, <2>3 DEF IInv, TagsInLine, n
    <3>3. 1 \in 1 .. n /\ (x.for = ident <=> 1 > n - Owed)
          /\ (x.for = ident => x.data = ptrSent - n + 1)
      BY <1>1, <3>2
    <3>4. x.for = ident => Owed = n /\ Owed' = n - 1 /\ x.data = Arrived + 1
      BY <1>1, <2>1, <3>1, <3>3
    <3>5. x.for # ident => Owed' = Owed /\ Owed \in 0 .. n - 1
      BY <1>1, <2>1, <3>1, <3>3
    <3>6. ASSUME NEW i \in 1 .. n - 1
          PROVE /\ ptrq'[i].for = ident <=> i > n - 1 - Owed'
                /\ ptrq'[i].for = ident => ptrq'[i].data = ptrSent - (n - 1) + i
      <4>1. i + 1 \in 1 .. n /\ ptrq'[i] = ptrq[i + 1]
        BY <1>1
      <4>2. /\ ptrq[i + 1].for = ident <=> i + 1 > n - Owed
            /\ ptrq[i + 1].for = ident => ptrq[i + 1].data = ptrSent - n + (i + 1)
        BY <3>2, <4>1
      <4>3. ptrSent - n + (i + 1) = ptrSent - (n - 1) + i
        BY <1>1, <2>1
      <4>4. i + 1 > n - Owed <=> i > n - 1 - Owed'
        <5>1. \A w \in Int : i + 1 > n - w <=> i > n - 1 - w
          BY <1>1
        <5>2. Owed \in Int /\ (x.for = ident => i + 1 > n - n /\ i > n - 1 - (n - 1))
          BY <1>1, <3>1
        <5>3. QED
          BY <3>4, <3>5, <5>1, <5>2
      <4>5. QED
        BY <4>1, <4>2, <4>3, <4>4
    <3>7. QED
      BY <1>1, <2>1, <3>4, <3>5, <3>6
  <2>4. Hand' = 1 /\ (mapped' \/ pc'[Ptr] = "post") => ev'[Ptr].data = Arrived' + 1
    BY <1>3, <1>5, <2>1, <2>3
  <2>5. QED
    BY <1>1, <2>1, <2>2, <2>3, <2>4 DEF TagsInLine
<1>9. QED
  BY <1>5, <1>7, <1>8 DEF IInv

\* A post is over, or has found no queue.
LEMMA FinishStep ==
  ASSUME IInv, NEW p \in Posters, pc[p] \in {"find", "post"}, Finish(p),
         UNCHANGED <<ident, mapped, deleted, dying, regs, armed, cancelled, periodic>>
  PROVE  /\ PcsExact' /\ PostsExact' /\ RegistrationsDieWithQueue' /\ LifeExact'
         /\ pc' \in [Actors -> Pcs] /\ ev' \in [Posters -> Events]
         /\ exp' \in [Posters -> 0 .. MaxIdent]
         /\ p \notin Timers => pc'[p] = "idle"
         /\ p \in Timers => pc'[p] = "forget" \/ (pc'[p] = "sleep" /\ armed = p)
         /\ \A q \in Posters : q # p => pc'[q] = pc[q] /\ ev'[q] = ev[q] /\ exp'[q] = exp[q]
<1>0. TypeOK /\ p \in Actors /\ p \notin Waiters
  BY KindIs DEF IInv, NothingCountedIsLost, CoalescibleExact
<1>1. /\ pc' \in [Actors -> Pcs] /\ ev' \in [Posters -> Events]
      /\ exp' \in [Posters -> 0 .. MaxIdent]
  <2>1. {"sleep", "forget", "idle"} \subseteq Pcs /\ NoEvent \in Events /\ 0 \in 0 .. MaxIdent
    BY EventIs, QueueAssumption DEF Pcs
  <2>2. /\ pc \in [Actors -> Pcs] /\ ev \in [Posters -> Events]
        /\ exp \in [Posters -> 0 .. MaxIdent]
    BY <1>0 DEF TypeOK
  <2>3. CASE p \in Timers
    BY <1>0, <2>1, <2>2, <2>3 DEF Finish, Goto, posting
  <2>4. CASE p \notin Timers
    BY <1>0, <2>1, <2>2, <2>4 DEF Finish, Goto, posting
  <2>5. QED
    BY <2>3, <2>4
<1>2. /\ p \notin Timers => pc'[p] = "idle"
      /\ p \in Timers => /\ pc'[p] = (IF periodic[p] /\ ~cancelled[p] THEN "sleep" ELSE "forget")
                         /\ ev'[p] = ev[p] /\ exp'[p] = exp[p]
  BY <1>0 DEF TypeOK, Finish, Goto, posting
<1>3. \A q \in Posters : q # p => pc'[q] = pc[q] /\ ev'[q] = ev[q] /\ exp'[q] = exp[q]
  BY <1>0, KindIs DEF TypeOK, Finish, Goto, posting
<1>4. p \in Timers => pc'[p] = "forget" \/ (pc'[p] = "sleep" /\ armed = p)
  BY <1>2 DEF IInv, TimersExact
<1>5. PcsExact'
  BY <1>2, <1>3 DEF IInv, PcsExact
<1>6. PostsExact'
  <2> SUFFICES ASSUME NEW q \in Posters, pc'[q] # "idle"
      PROVE /\ ev'[q].source = Kind(q)
            /\ ev'[q].coal <=> Kind(q) \notin Counted
            /\ q \in ByIdentity => /\ exp'[q] = ev'[q].meant /\ exp'[q] \in 1 .. ident'
                                   /\ pc'[q] = "post" => exp'[q] = ident'
            /\ q \notin ByIdentity /\ pc'[q] \in {"find", "post"}
                  => ev'[q].late \/ (mapped' /\ ev'[q].meant = ident')
    BY DEF PostsExact
  <2>1. CASE q = p
    <3>1. p \in Timers /\ p \notin ByIdentity /\ pc'[p] \notin {"find", "post"}
          /\ ev'[p] = ev[p]
      BY <1>2, <2>1, KindIs
    <3>2. QED
      BY <2>1, <3>1 DEF IInv, PostsExact
  <2>2. CASE q # p
    BY <1>3, <2>2 DEF IInv, PostsExact
  <2>3. QED
    BY <2>1, <2>2
<1>7. RegistrationsDieWithQueue' /\ LifeExact'
  <2>1. armed # NoOne => armed \in Timers /\ armed \in Posters
    BY <1>0, KindIs DEF TypeOK
  <2>2. \A t \in Timers : ev'[t] = ev[t]
    BY <1>2, <1>3, KindIs
  <2>3. QED
    BY <2>1, <2>2 DEF IInv, RegistrationsDieWithQueue, LifeExact
<1>8. QED
  BY <1>1, <1>2, <1>3, <1>4, <1>5, <1>6, <1>7

LEMMA FindStep ==
  ASSUME IInv, NEW p \in Posters, Find(p)
  PROVE  IInv'
<1> USE DEF object, pending, sources, history
<1>0. /\ TypeOK /\ p \in Actors /\ pc[p] = "find"
      /\ UNCHANGED <<mix, object, pending, sources, nposts, history>>
  BY KindIs DEF IInv, NothingCountedIsLost, CoalescibleExact, Find
<1>1. CASE Found(p)
  <2>1. Goto(p, "post") /\ UNCHANGED posting
    BY <1>1 DEF Find
  <2>2. /\ pc' \in [Actors -> Pcs] /\ pc'[p] = "post" /\ \A q \in Posters : q # p => pc'[q] = pc[q]
        /\ ev' = ev /\ exp' = exp
    BY <1>0, <2>1, KindIs DEF TypeOK, Pcs, Goto, posting
  <2>3. TypeOK'
    BY <1>0, <2>2 DEF TypeOK
  <2>4. NothingCountedIsLost' /\ TagsInOrder' /\ QueueExact'
    BY <1>0, <2>3, Untouched
  <2>5. PcsExact'
    BY <2>2 DEF IInv, PcsExact
  <2>6. mapped /\ (p \in ByIdentity => exp[p] = ident)
    BY <1>0, <1>1 DEF Found, IInv, PostsExact
  <2>7. PostsExact'
    <3> SUFFICES ASSUME NEW q \in Posters, pc'[q] # "idle"
        PROVE /\ ev'[q].source = Kind(q)
              /\ ev'[q].coal <=> Kind(q) \notin Counted
              /\ q \in ByIdentity => /\ exp'[q] = ev'[q].meant /\ exp'[q] \in 1 .. ident'
                                     /\ pc'[q] = "post" => exp'[q] = ident'
              /\ q \notin ByIdentity /\ pc'[q] \in {"find", "post"}
                    => ev'[q].late \/ (mapped' /\ ev'[q].meant = ident')
      BY DEF PostsExact
    <3>1. CASE q = p
      BY <1>0, <2>2, <2>6, <3>1 DEF IInv, PostsExact
    <3>2. CASE q # p
      BY <1>0, <2>2, <3>2 DEF IInv, PostsExact
    <3>3. QED
      BY <3>1, <3>2
  <2>8. RegistrationsDieWithQueue' /\ LifeExact'
    BY <1>0, <2>2 DEF IInv, RegistrationsDieWithQueue, LifeExact
  <2>9. TimersExact'
    BY <1>0, <2>2, KindIs DEF IInv, TimersExact
  <2>10. TagsInLine'
    <3>1. Hand' = Hand /\ Arrived' = Arrived
      BY <1>0, <2>2, KindIs DEF Hand, Arrived, CountOf
    <3>2. Owed' = Owed
      BY <1>0, <3>1 DEF Owed
    <3>3. QED
      BY <1>0, <2>2, <2>6, <3>1, <3>2 DEF IInv, TagsInLine
  <2>11. QED
    BY <2>4, <2>5, <2>7, <2>8, <2>9, <2>10 DEF IInv
<1>2. CASE ~Found(p)
  <2>1. Finish(p)
    BY <1>2 DEF Find
  <2>2. /\ PcsExact' /\ PostsExact' /\ RegistrationsDieWithQueue' /\ LifeExact'
        /\ pc' \in [Actors -> Pcs] /\ ev' \in [Posters -> Events]
        /\ exp' \in [Posters -> 0 .. MaxIdent]
        /\ p \notin Timers => pc'[p] = "idle"
        /\ p \in Timers => pc'[p] = "forget" \/ (pc'[p] = "sleep" /\ armed = p)
        /\ \A q \in Posters : q # p => pc'[q] = pc[q] /\ ev'[q] = ev[q] /\ exp'[q] = exp[q]
    BY <1>0, <2>1, FinishStep
  <2>3. TypeOK'
    BY <1>0, <2>2 DEF TypeOK
  <2>4. NothingCountedIsLost' /\ TagsInOrder' /\ QueueExact'
    BY <1>0, <2>3, Untouched
  <2>5. TimersExact'
    BY <1>0, <2>2, KindIs DEF IInv, TimersExact
  <2>6. CASE p = Ptr
    <3>1. pc'[Ptr] = "idle"
      BY <2>2, <2>6, KindIs
    <3>2. mapped => exp[Ptr] # ident
      BY <1>2, <2>6 DEF Found
    <3>3. Hand' = 0 /\ Arrived' = Arrived /\ (mapped => Hand = 0)
      BY <1>0, <2>6, <3>1, <3>2 DEF Hand, Arrived, CountOf
    <3>4. mapped => Owed' = Owed
      BY <1>0, <3>3 DEF Owed
    <3>5. TagsInLine'
      BY <1>0, <3>3, <3>4 DEF IInv, TagsInLine
    <3>6. QED
      BY <2>2, <2>4, <2>5, <3>5 DEF IInv
  <2>7. CASE p # Ptr
    <3>1. TagsInLine'
      BY <1>0, <2>2, <2>7, LineKept, KindIs
    <3>2. QED
      BY <2>2, <2>4, <2>5, <3>1 DEF IInv
  <2>8. QED
    BY <2>6, <2>7
<1>3. QED
  BY <1>1, <1>2

-------------------------------------------------------------------------------
(* Counters and timers.                                                    *)

LEMMA SubmitCounterStep ==
  ASSUME IInv, NEW c \in Counters, NEW n \in Nat, SubmitCounter(c, n)
  PROVE  IInv'
<1> USE DEF object, pending, history
<1> DEFINE e == Event("cnt", n, TRUE, ident, FALSE)
<1>0. /\ TypeOK /\ c \in Actors /\ c \in Posters /\ c \in ByIdentity /\ Kind(c) = "cnt"
      /\ c \notin Timers /\ c # Ptr
  BY KindIs DEF IInv, NothingCountedIsLost, CoalescibleExact
<1>1. mapped /\ ident \in 1 .. MaxIdent /\ ident \in 0 .. MaxIdent /\ ident \in 1 .. ident
  BY <1>0 DEF SubmitCounter, IInv, LifeExact, TypeOK
<1>2. e \in Events /\ e.source = "cnt" /\ e.coal /\ e.meant = ident
  <2>1. "cnt" \in Sources /\ TRUE \in BOOLEAN
    BY DEF Sources
  <2>2. e \in Events
    BY <1>1, <2>1, EventIs
  <2>3. QED
    BY <2>2 DEF Event
<1>3. /\ pc' = [pc EXCEPT ![c] = "sleep"] /\ ev' = [ev EXCEPT ![c] = e]
      /\ exp' = [exp EXCEPT ![c] = ident]
      /\ hwm' \in {n, hwm} /\ nposts < MaxPosts /\ nposts' = nposts + 1
      /\ UNCHANGED <<mix, object, pending, periodic, regs, armed, cancelled, ptrq, history>>
  BY DEF SubmitCounter, Goto, RaiseHwm, Budget
<1> HIDE DEF e
<1>4. /\ pc' \in [Actors -> Pcs] /\ ev' \in [Posters -> Events]
      /\ exp' \in [Posters -> 0 .. MaxIdent]
      /\ pc'[c] = "sleep" /\ ev'[c] = e /\ exp'[c] = ident
      /\ \A q \in Posters : q # c => pc'[q] = pc[q] /\ ev'[q] = ev[q] /\ exp'[q] = exp[q]
  BY <1>0, <1>1, <1>2, <1>3, KindIs DEF TypeOK, Pcs
<1>5. TypeOK'
  <2>1. nposts' \in 0 .. MaxPosts /\ hwm' \in Nat
    BY <1>0, <1>3, QueueAssumption DEF TypeOK
  <2>2. QED
    BY <1>0, <1>3, <1>4, <2>1 DEF TypeOK
<1>6. NothingCountedIsLost' /\ TagsInOrder' /\ QueueExact'
  BY <1>3, <1>5, Untouched
<1>7. PcsExact'
  BY <1>4 DEF IInv, PcsExact
<1>8. PostsExact'
  <2> SUFFICES ASSUME NEW q \in Posters, pc'[q] # "idle"
      PROVE /\ ev'[q].source = Kind(q)
            /\ ev'[q].coal <=> Kind(q) \notin Counted
            /\ q \in ByIdentity => /\ exp'[q] = ev'[q].meant /\ exp'[q] \in 1 .. ident'
                                   /\ pc'[q] = "post" => exp'[q] = ident'
            /\ q \notin ByIdentity /\ pc'[q] \in {"find", "post"}
                  => ev'[q].late \/ (mapped' /\ ev'[q].meant = ident')
    BY DEF PostsExact
  <2>1. CASE q = c
    BY <1>0, <1>1, <1>2, <1>3, <1>4, <2>1 DEF Counted
  <2>2. CASE q # c
    BY <1>3, <1>4, <2>2 DEF IInv, PostsExact
  <2>3. QED
    BY <2>1, <2>2
<1>9. TimersExact'
  BY <1>0, <1>3, <1>4, KindIs DEF IInv, TimersExact
<1>10. RegistrationsDieWithQueue' /\ LifeExact'
  <2>1. armed # NoOne => armed \in Posters /\ armed # c
    BY <1>0, KindIs DEF TypeOK
  <2>2. QED
    BY <1>3, <1>4, <2>1 DEF IInv, RegistrationsDieWithQueue, LifeExact
<1>11. TagsInLine'
  BY <1>0, <1>3, <1>4, LineKept, KindIs
<1>12. QED
  BY <1>6, <1>7, <1>8, <1>9, <1>10, <1>11 DEF IInv

LEMMA ReadHwmStep ==
  ASSUME IInv, NEW c \in Counters, ReadHwm(c)
  PROVE  IInv'
<1> USE DEF object, pending, sources, history
<1>0. /\ TypeOK /\ c \in Actors /\ c \in Posters /\ c \in ByIdentity /\ Kind(c) = "cnt"
      /\ c \notin Timers /\ c # Ptr /\ pc[c] = "sleep"
      /\ UNCHANGED <<mix, object, pending, sources, exp, nposts, history>>
  BY KindIs DEF IInv, NothingCountedIsLost, CoalescibleExact, ReadHwm
<1>1. /\ pc' \in [Actors -> Pcs] /\ ev' \in [Posters -> Events]
      /\ pc'[c] = "find" /\ ev'[c].source = ev[c].source /\ ev'[c].coal = ev[c].coal
      /\ ev'[c].meant = ev[c].meant /\ exp' = exp
      /\ \A q \in Posters : q # c => pc'[q] = pc[q] /\ ev'[q] = ev[q]
  <2> DEFINE f == [ev[c] EXCEPT !.data = IF exp[c] = ident THEN hwm ELSE @]
  <2>1. ev' = [ev EXCEPT ![c] = f] /\ pc' = [pc EXCEPT ![c] = "find"] /\ exp' = exp
    BY <1>0 DEF ReadHwm, Goto
  <2>2. ev[c] \in Events /\ hwm \in Nat
    BY <1>0 DEF TypeOK
  <2>3. /\ f \in Events /\ f.source = ev[c].source /\ f.coal = ev[c].coal
        /\ f.meant = ev[c].meant
    BY <2>2 DEF Events
  <2> HIDE DEF f
  <2>4. ev' \in [Posters -> Events] /\ ev'[c] = f /\ \A q \in Posters : q # c => ev'[q] = ev[q]
    BY <1>0, <2>1, <2>3 DEF TypeOK
  <2>5. /\ pc' \in [Actors -> Pcs] /\ pc'[c] = "find"
        /\ \A q \in Posters : q # c => pc'[q] = pc[q]
    BY <1>0, <2>1, KindIs DEF TypeOK, Pcs
  <2>6. QED
    BY <2>1, <2>3, <2>4, <2>5
<1>2. TypeOK'
  BY <1>0, <1>1 DEF TypeOK
<1>3. NothingCountedIsLost' /\ TagsInOrder' /\ QueueExact'
  BY <1>0, <1>2, Untouched
<1>4. PcsExact'
  BY <1>1 DEF IInv, PcsExact
<1>5. PostsExact'
  <2> SUFFICES ASSUME NEW q \in Posters, pc'[q] # "idle"
      PROVE /\ ev'[q].source = Kind(q)
            /\ ev'[q].coal <=> Kind(q) \notin Counted
            /\ q \in ByIdentity => /\ exp'[q] = ev'[q].meant /\ exp'[q] \in 1 .. ident'
                                   /\ pc'[q] = "post" => exp'[q] = ident'
            /\ q \notin ByIdentity /\ pc'[q] \in {"find", "post"}
                  => ev'[q].late \/ (mapped' /\ ev'[q].meant = ident')
    BY DEF PostsExact
  <2>1. CASE q = c
    BY <1>0, <1>1, <2>1 DEF IInv, PostsExact
  <2>2. CASE q # c
    BY <1>0, <1>1, <2>2 DEF IInv, PostsExact
  <2>3. QED
    BY <2>1, <2>2
<1>6. TimersExact'
  BY <1>0, <1>1, KindIs DEF IInv, TimersExact
<1>7. RegistrationsDieWithQueue' /\ LifeExact'
  <2>1. armed # NoOne => armed \in Posters /\ armed # c
    BY <1>0, KindIs DEF TypeOK
  <2>2. QED
    BY <1>0, <1>1, <2>1 DEF IInv, RegistrationsDieWithQueue, LifeExact
<1>8. TagsInLine'
  BY <1>0, <1>1, LineKept, KindIs
<1>9. QED
  BY <1>3, <1>4, <1>5, <1>6, <1>7, <1>8 DEF IInv

\* The guest's timer calls, and what a timer thread does but post.
LEMMA TimerStep ==
  ASSUME IInv,
         \/ DelTimer
         \/ \E t \in Timers : Fire(t) \/ Forget(t) \/ \E repeats \in BOOLEAN : Arm(t, repeats)
  PROVE  IInv'
<1>0. TypeOK
  BY DEF IInv, NothingCountedIsLost, CoalescibleExact
<1>1. NoOne \notin Timers /\ \A t \in Timers : /\ t \in Posters /\ t \in Actors /\ t # Ptr
                                               /\ t \notin ByIdentity /\ Kind(t) = "timer"
  BY KindIs, QueueAssumption
<1>2. CASE DelTimer
  <2> USE DEF DelTimer, object, pending, posting, history
  <2>1. armed \in Timers
    BY <1>0, <1>2 DEF TypeOK
  <2>2. /\ cancelled' \in [Timers -> BOOLEAN]
        /\ \A t \in Timers : cancelled'[t] = (cancelled[t] \/ t = armed)
    BY <1>0, <1>2, <2>1 DEF TypeOK
  <2>3. TypeOK'
    BY <1>0, <1>2, <2>2 DEF TypeOK
  <2>4. NothingCountedIsLost' /\ TagsInOrder' /\ QueueExact'
    BY <1>2, <2>3, Untouched
  <2>5. PcsExact' /\ PostsExact' /\ TagsInLine'
    BY <1>2, PostsKept, LineKept
  <2>6. TimersExact'
    BY <1>1, <1>2, <2>1, <2>2 DEF IInv, TimersExact
  <2>7. RegistrationsDieWithQueue' /\ LifeExact'
    BY <1>2 DEF IInv, RegistrationsDieWithQueue, LifeExact
  <2>8. QED
    BY <2>4, <2>5, <2>6, <2>7 DEF IInv
<1>3. ASSUME NEW t \in Timers, Fire(t) PROVE IInv'
  <2> USE DEF object, pending, sources, posting, history
  <2>1. /\ pc[t] = "sleep" /\ ~cancelled[t]
        /\ UNCHANGED <<mix, object, pending, sources, posting, history>>
    BY <1>3 DEF Fire
  <2>2. /\ pc' \in [Actors -> Pcs] /\ pc'[t] = "find" /\ nposts' \in 0 .. MaxPosts
        /\ \A q \in Posters : q # t => pc'[q] = pc[q]
    BY <1>0, <1>1, <1>3, KindIs, QueueAssumption DEF Fire, Goto, TypeOK, Pcs, Budget
  <2>3. TypeOK'
    BY <1>0, <2>1, <2>2 DEF TypeOK
  <2>4. NothingCountedIsLost' /\ TagsInOrder' /\ QueueExact'
    BY <2>1, <2>3, Untouched
  <2>5. PcsExact'
    BY <2>2 DEF IInv, PcsExact
  <2>6. armed = t /\ (ev[t].late \/ (mapped /\ ev[t].meant = ident))
    BY <1>1, <2>1 DEF IInv, TimersExact, RegistrationsDieWithQueue
  <2>7. PostsExact'
    BY <1>1, <2>1, <2>2, <2>6 DEF IInv, PostsExact
  <2>8. TimersExact'
    BY <1>1, <2>1, <2>2 DEF IInv, TimersExact
  <2>9. RegistrationsDieWithQueue' /\ LifeExact'
    BY <2>1 DEF IInv, RegistrationsDieWithQueue, LifeExact
  <2>10. TagsInLine'
    BY <1>1, <2>1, <2>2, LineKept, KindIs
  <2>11. QED
    BY <2>4, <2>5, <2>7, <2>8, <2>9, <2>10 DEF IInv
<1>4. ASSUME NEW t \in Timers, Forget(t) PROVE IInv'
  <2> USE DEF object, pending
  <2>1. UNCHANGED <<mix, object, pending, regs, hwm, ptrq, exp, nposts, ptrSent, ptrGot,
                    ptrLast, kept, taken, shown>>
    BY <1>4 DEF Forget
  <2>2. /\ pc' \in [Actors -> Pcs] /\ pc'[t] = "idle"
        /\ \A q \in Posters : q # t => pc'[q] = pc[q]
    BY <1>0, <1>1, <1>4, KindIs DEF Forget, Goto, TypeOK, Pcs
  <2>3. /\ ev' \in [Posters -> Events] /\ \A q \in Posters : q # t => ev'[q] = ev[q]
        /\ cancelled' \in [Timers -> BOOLEAN] /\ ~cancelled'[t]
        /\ \A u \in Timers : u # t => cancelled'[u] = cancelled[u]
        /\ periodic' \in [Timers -> BOOLEAN]
        /\ extra' \in [Timers -> Nat] /\ extra'[t] = 0
        /\ \A u \in Timers : u # t => extra'[u] = extra[u]
        /\ armed' \in Timers \union {NoOne} /\ armed' = IF armed = t THEN NoOne ELSE armed
    BY <1>0, <1>1, <1>4, EventIs DEF Forget, TypeOK
  <2>4. TypeOK'
    BY <1>0, <2>1, <2>2, <2>3 DEF TypeOK
  <2>5. NothingCountedIsLost' /\ TagsInOrder' /\ QueueExact'
    BY <2>1, <2>4, Untouched
  <2>6. PcsExact'
    BY <2>2 DEF IInv, PcsExact
  <2>7. PostsExact'
    BY <2>1, <2>2, <2>3 DEF IInv, PostsExact
  <2>8. TimersExact'
    BY <1>1, <2>2, <2>3 DEF IInv, TimersExact
  <2>9. RegistrationsDieWithQueue' /\ LifeExact'
    BY <1>0, <1>1, <2>1, <2>3 DEF IInv, RegistrationsDieWithQueue, LifeExact, TypeOK
  <2>10. TagsInLine'
    BY <1>1, <2>1, <2>2, <2>3, LineKept, KindIs
  <2>11. QED
    BY <2>5, <2>6, <2>7, <2>8, <2>9, <2>10 DEF IInv
<1>5. ASSUME NEW t \in Timers, NEW repeats \in BOOLEAN, Arm(t, repeats) PROVE IInv'
  <2> USE DEF object, pending, history
  <2> DEFINE e == Event("timer", 1, TRUE, ident, ~mapped)
  <2>1. /\ UNCHANGED <<mix, object, pending, regs, hwm, ptrq, exp, history>>
        /\ pc[t] = "idle" /\ armed' = t /\ nposts' \in 0 .. MaxPosts
    BY <1>0, <1>5, QueueAssumption DEF Arm, Budget, TypeOK
  <2>2. /\ e \in Events /\ e.source = "timer" /\ e.coal /\ e.meant = ident
        /\ e.late <=> ~mapped
    <3>1. "timer" \in Sources /\ TRUE \in BOOLEAN /\ ident \in 0 .. MaxIdent /\ 1 \in Nat
          /\ (~mapped) \in BOOLEAN
      BY <1>0 DEF Sources, TypeOK
    <3>2. e \in Events
      BY <3>1, EventIs
    <3>3. QED
      BY <3>2 DEF Event
  <2>3. ev' = [ev EXCEPT ![t] = e]
    BY <1>5 DEF Arm
  <2> HIDE DEF e
  <2>4. /\ pc' \in [Actors -> Pcs] /\ pc'[t] = "sleep"
        /\ \A q \in Posters : q # t => pc'[q] = pc[q]
    BY <1>0, <1>1, <1>5, KindIs DEF Arm, Goto, TypeOK, Pcs
  <2>5. /\ ev' \in [Posters -> Events] /\ ev'[t] = e
        /\ \A q \in Posters : q # t => ev'[q] = ev[q]
        /\ cancelled' \in [Timers -> BOOLEAN]
        /\ \A u \in Timers : cancelled'[u] = (cancelled[u] \/ armed = u)
        /\ periodic' \in [Timers -> BOOLEAN]
    <3>1. /\ ev' \in [Posters -> Events] /\ ev'[t] = e
          /\ \A q \in Posters : q # t => ev'[q] = ev[q]
      BY <1>0, <1>1, <2>2, <2>3 DEF TypeOK
    <3>2. /\ cancelled' = [u \in Timers |-> cancelled[u] \/ armed = u]
          /\ periodic' = [periodic EXCEPT ![t] = repeats]
      BY <1>5 DEF Arm
    <3>3. periodic' \in [Timers -> BOOLEAN]
      BY <1>0, <1>5, <3>2 DEF TypeOK
    <3>4. cancelled' \in [Timers -> BOOLEAN] /\ \A u \in Timers : cancelled'[u] = (cancelled[u] \/ armed = u)
      BY <1>0, <3>2 DEF TypeOK
    <3>5. QED
      BY <3>1, <3>3, <3>4
  <2>6. TypeOK'
    BY <1>0, <2>1, <2>4, <2>5 DEF TypeOK
  <2>7. NothingCountedIsLost' /\ TagsInOrder' /\ QueueExact'
    BY <2>1, <2>6, Untouched
  <2>8. PcsExact'
    BY <2>4 DEF IInv, PcsExact
  <2>9. PostsExact'
    BY <1>1, <2>1, <2>2, <2>4, <2>5 DEF IInv, PostsExact, Counted
  <2>10. TimersExact'
    <3>1. armed # t /\ ~cancelled[t]
      BY <2>1 DEF IInv, TimersExact
    <3>2. QED
      BY <1>1, <2>1, <2>4, <2>5, <3>1 DEF IInv, TimersExact
  <2>11. RegistrationsDieWithQueue' /\ LifeExact'
    <3>1. armed # t /\ ~cancelled[t]
      BY <2>1 DEF IInv, TimersExact
    <3>2. QED
      BY <2>1, <2>2, <2>5, <3>1 DEF IInv, RegistrationsDieWithQueue, LifeExact
  <2>12. TagsInLine'
    BY <1>1, <2>1, <2>4, <2>5, LineKept, KindIs
  <2>13. QED
    BY <2>7, <2>8, <2>9, <2>10, <2>11, <2>12 DEF IInv
<1>6. QED
  BY <1>2, <1>3, <1>4, <1>5

-------------------------------------------------------------------------------
(* The steps that change the pending events.                               *)

\* A queue at the address of a dead one begins with nothing pending, and none of the
\* tags on their way are for it.
LEMMA CreateStep ==
  ASSUME IInv, Create
  PROVE  IInv'
<1> USE DEF posting
<1>0. TypeOK
  BY DEF IInv, NothingCountedIsLost, CoalescibleExact
<1>1. /\ ident < MaxIdent /\ ident' = ident + 1 /\ ~mapped /\ mapped' /\ ~dying /\ dying' = dying
      /\ deleted' = FALSE /\ mapped' = TRUE /\ ready' = <<>> /\ coal' = 0 /\ hwm' = 0
      /\ ptrSent' = 0 /\ ptrGot' = 0 /\ ptrLast' = 0 /\ shown' = 0
      /\ kept' = [s \in DOMAIN kept |-> 0] /\ taken' = [s \in DOMAIN taken |-> 0]
      /\ UNCHANGED <<mix, periodic, regs, armed, cancelled, ptrq, pc, ev, exp, nposts, extra>>
      /\ \A a \in Actors : pc[a] \notin {"post", "wait"}
  BY DEF Create, Holders
<1>2. /\ ready' \in Seq(Events) /\ DOMAIN ready' = {} /\ Level(ready') = {}
      /\ \A x : Of(ready', x) = {}
  BY <1>1 DEF Level, Of
<1>3. /\ Cardinality(Level(ready')) = 0 /\ \A x : CountOf(ready', x) = 0
      /\ Expired(ready') = 0
  BY <1>2, FS_EmptySet, ExpiredIs DEF CountOf
<1>4. ident' \in 1 .. MaxIdent /\ ident \in Nat
  BY <1>0, <1>1, QueueAssumption DEF TypeOK
<1>5. TypeOK'
  <2>1. /\ kept' \in [{"eop", "timer", "shed"} -> Nat] /\ taken' \in [{"eop", "timer"} -> Nat]
        /\ coal' \in 0 .. Cap /\ ident' \in 0 .. MaxIdent
    BY <1>0, <1>1, <1>4, QueueAssumption DEF TypeOK
  <2>2. QED
    BY <1>0, <1>1, <1>2, <2>1 DEF TypeOK
<1>6. NothingCountedIsLost'
  <2>1. /\ kept'["eop"] = 0 /\ kept'["timer"] = 0 /\ kept'["shed"] = 0
        /\ taken'["eop"] = 0 /\ taken'["timer"] = 0
    BY <1>0, <1>1 DEF TypeOK
  <2>2. QED
    BY <1>1, <1>2, <1>3, <1>5, <2>1 DEF NothingCountedIsLost, CoalescibleExact
<1>7. TagsInOrder' /\ QueueExact'
  BY <1>1, <1>2 DEF TagsInOrder, QueueExact
<1>8. RegistrationsDieWithQueue' /\ LifeExact'
  BY <1>1, <1>4 DEF IInv, RegistrationsDieWithQueue, LifeExact
<1>9. PcsExact' /\ TimersExact'
  BY <1>1 DEF IInv, PcsExact, TimersExact
<1>10. PostsExact'
  <2> SUFFICES ASSUME NEW p \in Posters, pc[p] # "idle"
      PROVE /\ ev[p].source = Kind(p)
            /\ ev[p].coal <=> Kind(p) \notin Counted
            /\ p \in ByIdentity => /\ exp[p] = ev[p].meant /\ exp[p] \in 1 .. ident'
                                   /\ pc[p] = "post" => exp[p] = ident'
            /\ p \notin ByIdentity /\ pc[p] \in {"find", "post"}
                  => ev[p].late \/ (mapped' /\ ev[p].meant = ident')
    BY <1>1 DEF PostsExact
  <2>1. /\ ev[p].source = Kind(p)
        /\ ev[p].coal <=> Kind(p) \notin Counted
        /\ p \in ByIdentity => exp[p] = ev[p].meant /\ exp[p] \in 1 .. ident
        /\ p \notin ByIdentity /\ pc[p] \in {"find", "post"} => ev[p].late
    BY <1>1 DEF IInv, PostsExact
  <2>2. exp[p] \in 1 .. ident => exp[p] \in 1 .. ident'
    BY <1>1, <1>4
  <2>3. pc[p] # "post"
    BY <1>1, KindIs
  <2>4. QED
    BY <2>1, <2>2, <2>3
<1>11. TagsInLine'
  <2>1. Ptr \in Posters /\ Ptr \in ByIdentity /\ Ptr \in Actors
    BY KindIs
  <2>2. Hand' = 0
    <3>1. pc[Ptr] # "idle" => exp[Ptr] \in 1 .. ident
      BY <2>1 DEF IInv, PostsExact
    <3>2. pc[Ptr] # "idle" => exp[Ptr] # ident'
      BY <1>1, <1>4, <3>1
    <3>3. QED
      BY <1>1, <3>2 DEF Hand
  <2>3. Owed' = 0
    BY <1>1, <1>3, <2>2 DEF Owed, Arrived, CountOf
  <2>4. /\ Len(ptrq') \in Nat /\ DOMAIN ptrq' = 1 .. Len(ptrq')
        /\ \A i \in DOMAIN ptrq' : ptrq'[i].for \in Nat
    <3>1. ptrq' \in Seq([data : Nat, for : 1 .. MaxIdent])
      BY <1>0, <1>1 DEF TypeOK
    <3>2. Len(ptrq') \in Nat /\ DOMAIN ptrq' = 1 .. Len(ptrq')
      BY <3>1
    <3>3. \A i \in 1 .. Len(ptrq') : ptrq'[i] \in [data : Nat, for : 1 .. MaxIdent]
      BY <3>1, ElementOfSeq
    <3>4. \A i \in 1 .. MaxIdent : i \in Nat
      BY QueueAssumption
    <3>5. QED
      BY <3>2, <3>3, <3>4
  <2>5. \A i \in DOMAIN ptrq' : ptrq'[i].for <= ident
    BY <1>1 DEF IInv, TagsInLine
  <2>6. ASSUME NEW i \in DOMAIN ptrq'
        PROVE ptrq'[i].for <= ident' /\ ptrq'[i].for # ident' /\ ~(i > Len(ptrq') - Owed')
    BY <1>1, <1>4, <2>3, <2>4, <2>5
  <2>7. QED
    BY <2>2, <2>3, <2>4, <2>6 DEF TagsInLine
<1>12. QED
  BY <1>6, <1>7, <1>8, <1>9, <1>10, <1>11 DEF IInv

\* A post either finds the queue deleted or puts its event there.
LEMMA PostStep ==
  ASSUME IInv, NEW p \in Posters, Post(p)
  PROVE  IInv'
<1> USE DEF object, sources
<1> DEFINE e == ev[p]
<1>0. /\ TypeOK /\ CoalescibleExact /\ p \in Actors /\ pc[p] = "post" /\ Finish(p)
      /\ UNCHANGED <<mix, object, sources, nposts>>
  BY KindIs DEF IInv, NothingCountedIsLost, CoalescibleExact, Post
<1>1. /\ PcsExact' /\ PostsExact' /\ RegistrationsDieWithQueue' /\ LifeExact'
      /\ pc' \in [Actors -> Pcs] /\ ev' \in [Posters -> Events]
      /\ exp' \in [Posters -> 0 .. MaxIdent]
      /\ p \notin Timers => pc'[p] = "idle"
      /\ p \in Timers => pc'[p] = "forget" \/ (pc'[p] = "sleep" /\ armed = p)
      /\ \A q \in Posters : q # p => pc'[q] = pc[q] /\ ev'[q] = ev[q] /\ exp'[q] = exp[q]
  BY <1>0, FinishStep
<1>2. /\ e \in Events /\ e.source = Kind(p) /\ (e.coal <=> e.source \notin Counted)
      /\ p \in ByIdentity => exp[p] = e.meant /\ exp[p] = ident
      /\ p \notin ByIdentity => e.late \/ (mapped /\ e.meant = ident)
  BY <1>0 DEF TypeOK, IInv, PostsExact
<1> HIDE DEF e
<1>3. CASE deleted
  <2>1. UNCHANGED <<pending, history>>
    BY <1>3 DEF Post
  <2> USE DEF pending, history
  <2>2. TypeOK'
    BY <1>0, <1>1, <2>1 DEF TypeOK
  <2>3. NothingCountedIsLost' /\ TagsInOrder' /\ QueueExact'
    BY <1>0, <2>1, <2>2, Untouched
  <2>4. TimersExact'
    BY <1>0, <1>1, <2>1, KindIs DEF IInv, TimersExact
  <2>5. ~mapped /\ ~mapped'
    BY <1>0, <1>3 DEF IInv, LifeExact
  <2>6. TagsInLine'
    <3>1. CASE p = Ptr
      <4>1. Hand' = 0
        BY <1>1, <3>1, KindIs DEF Hand
      <4>2. QED
        BY <1>0, <2>5, <4>1 DEF IInv, TagsInLine
    <3>2. CASE p # Ptr
      BY <1>0, <1>1, <2>1, <3>2, LineKept, KindIs
    <3>3. QED
      BY <3>1, <3>2
  <2>7. QED
    BY <1>1, <2>3, <2>4, <2>6 DEF IInv
<1>4. CASE ~deleted
  <2>1. /\ Queue(e)
        /\ kept' = [kept EXCEPT !["eop"] = @ + (IF e.source = "eop" THEN 1 ELSE 0),
                                !["timer"] = @ + (IF e.source = "timer" THEN e.data ELSE 0),
                                !["shed"] = @ + Shed(e)]
        /\ shown' = (IF e.source = "cnt" THEN e.data ELSE shown)
        /\ extra' = [t \in Timers |->
                        IF t = p /\ armed # t THEN extra[t] + 1 ELSE extra[t]]
        /\ UNCHANGED <<ptrSent, ptrGot, ptrLast, taken>>
    BY <1>4 DEF Post, e
  <2>2. Orderly(ready) /\ coal = Cardinality(Level(ready)) /\ coal \in 0 .. Cap
        /\ ready \in Seq(Events)
    <3>1. ready \in Seq(Events)
      BY <1>0 DEF TypeOK
    <3>2. DOMAIN ready = 1 .. Len(ready)
      BY <3>1
    <3>3. QED
      BY <1>0, <3>1, <3>2 DEF Orderly, CoalescibleExact, TypeOK, IInv, QueueExact
  <2>3. /\ Orderly(ready') /\ coal' \in 0 .. Cap /\ coal' = Cardinality(Level(ready'))
        /\ \A x \in Counted :
              CountOf(ready', x) = CountOf(ready, x) + (IF e.source = x THEN 1 ELSE 0)
        /\ Expired(ready') = Expired(ready) - Shed(e)
                               + (IF e.source = "timer" THEN e.data ELSE 0)
        /\ \A i \in 1 .. Len(ready') :
              \/ \E j \in 1 .. Len(ready) : ready'[i] = ready[j]
              \/ /\ ready'[i].source = e.source /\ ready'[i].meant = e.meant
                 /\ ready'[i].late = e.late
        /\ \A g \in Nat :
              Ranked(ready, g) /\ (e.source = "ptr" => e.data = g + CountOf(ready, "ptr") + 1)
                 => Ranked(ready', g)
    BY <1>2, <2>1, <2>2, QueueStep
  <2>4. /\ kept["eop"] = taken["eop"] + CountOf(ready, "eop")
        /\ kept["timer"] = taken["timer"] + Expired(ready) + kept["shed"]
        /\ taken["eop"] \in Nat /\ taken["timer"] \in Nat
        /\ kept["eop"] \in Nat /\ kept["timer"] \in Nat /\ kept["shed"] \in Nat
        /\ CountOf(ready, "eop") \in Nat /\ CountOf(ready, "ptr") \in Nat
        /\ Expired(ready) \in Nat /\ Shed(e) \in Nat /\ e.data \in Nat
    <3>1. Shed(e) \in Nat
      <4>1. CASE e.coal /\ coal >= Cap
        <5>1. Cardinality(Level(ready)) # 0
          BY <2>2, <4>1, QueueAssumption
        <5>2. Level(ready) # {} /\ Level(ready) \subseteq 1 .. Len(ready)
          BY <2>2, <5>1, FS_EmptySet, Indices
        <5>3. First(Level(ready)) \in Level(ready)
          <6>1. Level(ready) \subseteq Nat
            BY <2>2, <5>2
          <6>2. QED
            BY <5>2, <6>1, FirstOf
        <5>4. ready[First(Level(ready))] \in Events
          BY <2>2, <5>2, <5>3, Indices
        <5>5. ready[First(Level(ready))].data \in Nat
          BY <5>4 DEF Events
        <5>6. QED
          BY <5>5 DEF Shed
      <4>2. CASE ~(e.coal /\ coal >= Cap)
        BY <4>2 DEF Shed
      <4>3. QED
        BY <4>1, <4>2
    <3>2. QED
      BY <1>0, <1>2, <2>2, <3>1, ExpiredNat, Indices
         DEF IInv, NothingCountedIsLost, TypeOK, Events
  <2>5. TypeOK'
    <3>1. kept' \in [{"eop", "timer", "shed"} -> Nat]
      <4> DEFINE x == kept["eop"] + (IF e.source = "eop" THEN 1 ELSE 0)
                 y == kept["timer"] + (IF e.source = "timer" THEN e.data ELSE 0)
                 z == kept["shed"] + Shed(e)
      <4>1. kept \in [{"eop", "timer", "shed"} -> Nat]
        BY <1>0 DEF TypeOK
      <4>2. x \in Nat /\ y \in Nat /\ z \in Nat
        BY <2>4
      <4>3. kept' = [kept EXCEPT !["eop"] = x, !["timer"] = y, !["shed"] = z]
        BY <2>1, <4>1
      <4> HIDE DEF x, y, z
      <4>4. QED
        BY <4>1, <4>2, <4>3
    <3>2. extra' \in [Timers -> Nat] /\ shown' \in Nat
      <4>1. extra \in [Timers -> Nat] /\ shown \in Nat
        BY <1>0 DEF TypeOK
      <4>2. \A t \in Timers : (IF t = p /\ armed # t THEN extra[t] + 1 ELSE extra[t]) \in Nat
        BY <4>1
      <4>3. extra' \in [Timers -> Nat]
        BY <2>1, <4>2
      <4>4. shown' \in Nat
        BY <2>1, <2>4, <4>1
      <4>5. QED
        BY <4>3, <4>4
    <3>3. ready' \in Seq(Events)
      BY <2>3 DEF Orderly
    <3>4. QED
      BY <1>0, <1>1, <2>1, <2>3, <3>1, <3>2, <3>3 DEF TypeOK
  <2>6. NothingCountedIsLost'
    <3>1. CoalescibleExact'
      BY <2>3, <2>5 DEF CoalescibleExact, Orderly
    <3>2. kept'["eop"] = taken'["eop"] + CountOf(ready', "eop")
      <4>1. kept'["eop"] = kept["eop"] + (IF e.source = "eop" THEN 1 ELSE 0)
        BY <1>0, <2>1 DEF TypeOK
      <4>2. CountOf(ready', "eop") = CountOf(ready, "eop") + (IF e.source = "eop" THEN 1 ELSE 0)
        BY <2>3 DEF Counted
      <4>3. QED
        BY <2>1, <2>4, <4>1, <4>2
    <3>3. kept'["timer"] = taken'["timer"] + Expired(ready') + kept'["shed"]
      <4>1. /\ kept'["timer"] = kept["timer"] + (IF e.source = "timer" THEN e.data ELSE 0)
            /\ kept'["shed"] = kept["shed"] + Shed(e)
        BY <1>0, <2>1 DEF TypeOK
      <4> DEFINE m == IF e.source = "timer" THEN e.data ELSE 0
      <4>2. m \in Nat /\ taken' = taken /\ Expired(ready') = Expired(ready) - Shed(e) + m
        BY <2>1, <2>3, <2>4
      <4>3. kept'["timer"] = kept["timer"] + m
        BY <4>1
      <4> HIDE DEF m
      <4>4. QED
        BY <2>4, <4>1, <4>2, <4>3
    <3>4. QED
      BY <3>1, <3>2, <3>3 DEF NothingCountedIsLost, CountOf
  <2>7. e.source = "ptr" => p = Ptr /\ Hand = 1 /\ e.data = ptrGot + CountOf(ready, "ptr") + 1
    <3>1. e.source = "ptr" => p = Ptr /\ Hand = 1
      BY <1>0, <1>2, KindIs DEF Hand
    <3>2. QED
      BY <1>0, <3>1 DEF IInv, TagsInLine, Arrived, e
  <2>8. TagsInOrder'
    <3>1. Ranked(ready, ptrGot) /\ ptrGot \in Nat /\ ptrLast = ptrGot
      BY <1>0 DEF IInv, TagsInOrder, Ranked, TypeOK
    <3>2. Ranked(ready', ptrGot)
      BY <2>3, <2>7, <3>1
    <3>3. QED
      BY <2>1, <3>1, <3>2 DEF TagsInOrder, Ranked
  <2>9. QueueExact'
    <3>1. DOMAIN ready' = 1 .. Len(ready') /\ DOMAIN ready = 1 .. Len(ready)
      BY <2>2, <2>3, Indices DEF Orderly
    <3>2. \A i \in 1 .. Len(ready') : ready'[i].coal <=> ready'[i].source \notin Counted
      BY <2>3 DEF Orderly
    <3>3. ASSUME NEW i \in 1 .. Len(ready'), ready'[i].meant # ident
          PROVE ready'[i].late /\ ready'[i].source \notin {"ptr", "cnt"}
      <4>1. ASSUME NEW j \in 1 .. Len(ready), ready'[i] = ready[j]
            PROVE ready'[i].late /\ ready'[i].source \notin {"ptr", "cnt"}
        BY <3>1, <3>3, <4>1 DEF IInv, QueueExact
      <4>2. CASE /\ ready'[i].source = e.source /\ ready'[i].meant = e.meant
                 /\ ready'[i].late = e.late
        BY <1>2, <3>3, <4>2, KindIs
      <4>3. QED
        BY <2>3, <4>1, <4>2
    <3>4. QED
      BY <1>0, <3>1, <3>2, <3>3 DEF QueueExact
  <2>10. TimersExact'
    <3> SUFFICES ASSUME NEW t \in Timers
        PROVE /\ pc'[t] = "idle" => armed # t /\ ~cancelled[t]
              /\ pc'[t] # "idle" /\ ~cancelled[t] => armed = t
              /\ pc'[t] # "forget" => extra'[t] = 0
              /\ extra'[t] <= 1
      BY <1>0 DEF TimersExact
    <3>1. t \in Posters
      BY KindIs
    <3>2. CASE t # p
      BY <1>1, <2>1, <3>1, <3>2 DEF IInv, TimersExact
    <3>3. CASE t = p
      <4>1. extra[t] = 0 /\ (~cancelled[t] => armed = t)
        BY <1>0, <3>3 DEF IInv, TimersExact
      <4>2. extra'[t] = IF armed # t THEN 1 ELSE 0
        BY <2>1, <3>3, <4>1
      <4>3. QED
        BY <1>1, <3>3, <4>1, <4>2
    <3>4. QED
      BY <3>2, <3>3
  <2>11. TagsInLine'
    <3>1. ptrSent' = ptrSent /\ ptrGot' = ptrGot /\ ptrq' = ptrq /\ mapped' = mapped
          /\ ident' = ident /\ ptrGot \in Nat /\ ptrSent \in Nat
      BY <1>0, <2>1 DEF TypeOK
    <3>2. CASE p = Ptr
      <4>1. e.source = "ptr" /\ Hand = 1
        BY <1>2, <2>7, <3>2, KindIs
      <4>2. Hand' = 0
        BY <1>1, <3>2, KindIs DEF Hand
      <4>3. CountOf(ready', "ptr") = CountOf(ready, "ptr") + 1
        BY <2>3, <4>1 DEF Counted
      <4>4. Owed' = Owed
        BY <2>4, <3>1, <4>1, <4>2, <4>3 DEF Owed, Arrived, CountOf
      <4>5. QED
        BY <3>1, <4>2, <4>4 DEF IInv, TagsInLine
    <3>3. CASE p # Ptr
      <4>1. e.source # "ptr" /\ Ptr \in Posters
        BY <2>7, <3>3, KindIs
      <4>2. /\ Hand' = Hand /\ pc'[Ptr] = pc[Ptr] /\ ev'[Ptr] = ev[Ptr]
        BY <1>1, <3>1, <3>3, <4>1 DEF Hand
      <4>3. CountOf(ready', "ptr") = CountOf(ready, "ptr")
        BY <2>3, <2>4, <4>1 DEF Counted
      <4>4. Arrived' = Arrived /\ Owed' = Owed
        BY <3>1, <4>2, <4>3 DEF Owed, Arrived, CountOf
      <4>5. QED
        BY <3>1, <4>2, <4>4 DEF IInv, TagsInLine
    <3>4. QED
      BY <3>2, <3>3
  <2>12. QED
    BY <1>1, <2>6, <2>8, <2>9, <2>10, <2>11 DEF IInv
<1>5. QED
  BY <1>3, <1>4

\* A delivery takes the front of what is pending.
LEMMA DeliverStep ==
  ASSUME IInv, NEW w \in Waiters, NEW num \in 1 .. 2, Deliver(w, num)
  PROVE  IInv'
<1> USE DEF object, sources, posting
<1> DEFINE c   == IF Len(ready) < num THEN Len(ready) ELSE num
           out == SubSeq(ready, 1, c)
           r   == SubSeq(ready, c + 1, Len(ready))
           tags == Of(out, "ptr")
<1>0. TypeOK /\ CoalescibleExact /\ w \in Actors /\ \A p \in Posters : p # w
  BY KindIs DEF IInv, NothingCountedIsLost, CoalescibleExact, Actors
<1>1. /\ ready' = r /\ coal' = coal - Cardinality(Level(out))
      /\ taken' = [eop |-> taken["eop"] + CountOf(out, "eop"),
                   timer |-> taken["timer"] + Expired(out)]
      /\ ptrGot' = ptrGot + Cardinality(tags)
      /\ ptrLast' = (IF tags = {} THEN ptrLast ELSE out[Final(tags)].data)
      /\ pc' = [pc EXCEPT ![w] = "idle"]
      /\ UNCHANGED <<mix, object, sources, posting, nposts, ptrSent, kept, shown, extra>>
  BY DEF Deliver, Goto, CoalAfter
<1>2. Orderly(ready) /\ ready \in Seq(Events) /\ DOMAIN ready = 1 .. Len(ready)
      /\ Len(ready) \in Nat
  <2>1. ready \in Seq(Events)
    BY <1>0 DEF TypeOK
  <2>2. DOMAIN ready = 1 .. Len(ready) /\ Len(ready) \in Nat
    BY <2>1
  <2>3. QED
    BY <1>0, <2>1, <2>2 DEF Orderly, CoalescibleExact, IInv, QueueExact
<1>3. c \in 0 .. Len(ready)
  BY <1>2
<1> HIDE DEF c
<1>4. /\ Orderly(out) /\ Orderly(r) /\ Len(out) = c /\ Len(r) = Len(ready) - c
      /\ \A i \in 1 .. Len(r) : \E j \in 1 .. Len(ready) : r[i] = ready[j]
      /\ Cardinality(Level(ready)) = Cardinality(Level(out)) + Cardinality(Level(r))
      /\ \A x : CountOf(ready, x) = CountOf(out, x) + CountOf(r, x)
      /\ Expired(ready) = Expired(out) + Expired(r)
      /\ \A g \in Nat : Ranked(ready, g) =>
            /\ Ranked(r, g + CountOf(out, "ptr"))
            /\ Of(out, "ptr") # {}
                  => out[Final(Of(out, "ptr"))].data = g + CountOf(out, "ptr")
  BY <1>2, <1>3, OnCut
<1> HIDE DEF out, r
<1>5. /\ out \in Seq(Events) /\ r \in Seq(Events) /\ DOMAIN r = 1 .. Len(r)
      /\ Cardinality(Level(out)) \in Nat /\ Cardinality(Level(r)) \in Nat
      /\ Expired(out) \in Nat /\ Expired(r) \in Nat
      /\ \A x : CountOf(out, x) \in Nat /\ CountOf(r, x) \in Nat
  <2>1. out \in Seq(Events) /\ r \in Seq(Events)
    BY <1>4 DEF Orderly
  <2>2. QED
    BY <1>4, <2>1, Indices, ExpiredNat
<1>6. /\ ptrGot' = ptrGot + CountOf(out, "ptr") /\ ptrGot \in Nat /\ ptrLast = ptrGot
      /\ Ranked(ready, ptrGot)
  BY <1>0, <1>1 DEF CountOf, TypeOK, IInv, TagsInOrder, Ranked
<1>7. TagsInOrder' /\ ptrLast' = ptrGot'
  <2>1. Ranked(r, ptrGot') /\ (tags # {} => out[Final(tags)].data = ptrGot')
    BY <1>4, <1>6
  <2>2. tags = {} => ptrGot' = ptrGot
    <3>1. tags = {} => CountOf(out, "ptr") = 0
      BY FS_EmptySet DEF CountOf
    <3>2. QED
      BY <1>6, <3>1
  <2>3. ptrLast' = ptrGot'
    BY <1>1, <1>6, <2>1, <2>2
  <2>4. QED
    BY <1>1, <2>1, <2>3 DEF TagsInOrder, Ranked
<1>8. coal' \in 0 .. Cap /\ coal' = Cardinality(Level(r))
  <2>1. coal = Cardinality(Level(ready)) /\ coal \in 0 .. Cap
    BY <1>0 DEF CoalescibleExact, TypeOK
  <2>2. QED
    BY <1>1, <1>4, <1>5, <2>1, QueueAssumption, SMTT(30)
<1>9. /\ taken' \in [{"eop", "timer"} -> Nat]
      /\ taken'["eop"] = taken["eop"] + CountOf(out, "eop")
      /\ taken'["timer"] = taken["timer"] + Expired(out)
      /\ taken["eop"] \in Nat /\ taken["timer"] \in Nat
  <2>1. taken["eop"] \in Nat /\ taken["timer"] \in Nat
    BY <1>0 DEF TypeOK
  <2>2. /\ taken["eop"] + CountOf(out, "eop") \in Nat
        /\ taken["timer"] + Expired(out) \in Nat
    BY <1>5, <2>1, SMTT(30)
  <2>3. QED
    BY <1>1, <2>1, <2>2
<1>10. \A p \in Posters : pc'[p] = pc[p]
  BY <1>0, <1>1, KindIs DEF TypeOK
<1>11. TypeOK'
  <2>1. ptrGot' \in Nat /\ ptrLast' \in Nat
    BY <1>5, <1>6, <1>7
  <2>2. pc' \in [Actors -> Pcs]
    BY <1>0, <1>1 DEF TypeOK, Pcs
  <2>3. QED
    BY <1>0, <1>1, <1>5, <1>8, <1>9, <2>1, <2>2 DEF TypeOK
<1>12. NothingCountedIsLost'
  <2>1. CoalescibleExact'
    BY <1>1, <1>4, <1>8, <1>11 DEF CoalescibleExact, Orderly
  <2>2. /\ kept["eop"] = taken["eop"] + CountOf(ready, "eop")
        /\ kept["timer"] = taken["timer"] + Expired(ready) + kept["shed"]
        /\ kept["shed"] \in Nat
    BY <1>0 DEF IInv, NothingCountedIsLost, TypeOK
  <2>3. /\ kept'["eop"] = taken'["eop"] + CountOf(r, "eop")
        /\ kept'["timer"] = taken'["timer"] + Expired(r) + kept["shed"]
    <3>1. CountOf(ready, "eop") = CountOf(out, "eop") + CountOf(r, "eop")
      BY <1>4
    <3>2. kept["eop"] = taken'["eop"] + CountOf(r, "eop")
      BY <1>5, <1>9, <2>2, <3>1, SMTT(30)
    <3>3. kept["timer"] = taken'["timer"] + Expired(r) + kept["shed"]
      BY <1>4, <1>5, <1>9, <2>2, SMTT(30)
    <3>4. QED
      BY <1>1, <3>2, <3>3
  <2>4. kept' = kept
    BY <1>1
  <2>5. QED
    BY <1>1, <2>1, <2>3, <2>4 DEF NothingCountedIsLost, CountOf
<1>13. QueueExact'
  <2> SUFFICES ASSUME NEW i \in 1 .. Len(r)
      PROVE /\ r[i].coal <=> r[i].source \notin Counted
            /\ r[i].meant # ident => r[i].late /\ r[i].source \notin {"ptr", "cnt"}
    BY <1>1, <1>5 DEF QueueExact
  <2>1. PICK j \in 1 .. Len(ready) : r[i] = ready[j]
    BY <1>4
  <2>2. QED
    BY <1>2, <2>1 DEF IInv, QueueExact
<1>14. PcsExact' /\ PostsExact' /\ TimersExact'
  BY <1>1, <1>10, KindIs DEF IInv, PcsExact, PostsExact, TimersExact
<1>15. RegistrationsDieWithQueue' /\ LifeExact'
  BY <1>1 DEF IInv, RegistrationsDieWithQueue, LifeExact
<1>16. TagsInLine'
  <2>1. Hand' = Hand
    BY <1>1, <1>10, KindIs DEF Hand
  <2>2. Arrived' = Arrived
    <3>1. CountOf(ready, "ptr") = CountOf(out, "ptr") + CountOf(r, "ptr")
      BY <1>4
    <3>2. ptrGot' + CountOf(r, "ptr") = ptrGot + CountOf(ready, "ptr")
      BY <1>5, <1>6, <3>1
    <3>3. Arrived' = ptrGot' + CountOf(r, "ptr")
      BY <1>1 DEF Arrived, CountOf
    <3>4. QED
      BY <3>2, <3>3 DEF Arrived
  <2>3. Owed' = Owed
    BY <1>1, <2>1, <2>2 DEF Owed
  <2>4. pc'[Ptr] = pc[Ptr]
    BY <1>10, KindIs
  <2>5. QED
    BY <1>1, <2>1, <2>2, <2>3, <2>4 DEF IInv, TagsInLine
<1>17. QED
  BY <1>7, <1>12, <1>13, <1>14, <1>15, <1>16 DEF IInv

-------------------------------------------------------------------------------
(* The theorems.                                                           *)

LEMMA NextStep == IInv /\ [Next]_vars => IInv'
<1> SUFFICES ASSUME IInv, [Next]_vars PROVE IInv'
  OBVIOUS
<1>1. CASE Lifecycle
  BY <1>1, CreateStep, DeleteStep, MarkStep DEF Lifecycle
<1>2. CASE Videos \/ Eops \/ Users
  BY <1>2, RegisterStep, SourceStep DEF Videos, Eops, Users
<1>3. CASE Ptrs
  BY <1>3, SubmitPtrStep, PtrNextStep DEF Ptrs
<1>4. CASE Cnts
  <2>1. PICK c \in Counters :
           ReadHwm(c) \/ \E n \in 1 .. Cardinality(Counters) : SubmitCounter(c, n)
    BY <1>4 DEF Cnts
  <2>2. 1 .. Cardinality(Counters) \subseteq Nat
    <3>1. IsFiniteSet(Counters)
      <4>1. Counters \subseteq Actors
        BY DEF Actors, Posters
      <4>2. QED
        BY <4>1, QueueAssumption, FS_Subset
    <3>2. Cardinality(Counters) \in Nat
      BY <3>1, FS_CardinalityType
    <3>3. QED
      BY <3>2
  <2>3. QED
    BY <2>1, <2>2, ReadHwmStep, SubmitCounterStep
<1>5. CASE Times
  BY <1>5, TimerStep DEF Times
<1>6. ASSUME NEW p \in Posters, Find(p) \/ Post(p) PROVE IInv'
  BY <1>6, FindStep, PostStep
<1>7. ASSUME NEW w \in Waiters,
             \/ Wait(w)
             \/ \E num \in 1 .. 2 : Deliver(w, num)
             \/ \E timed \in BOOLEAN : GiveUp(w, timed)
      PROVE IInv'
  BY <1>7, WaiterStep, DeliverStep
<1>8. CASE UNCHANGED vars
  <2> USE <1>8 DEF vars, object, pending, sources, posting, history
  <2>1. TypeOK'
    BY DEF IInv, NothingCountedIsLost, CoalescibleExact, TypeOK
  <2>2. NothingCountedIsLost' /\ TagsInOrder' /\ QueueExact'
    BY <2>1, Untouched
  <2>3. PcsExact' /\ PostsExact' /\ TagsInLine'
    BY PostsKept, LineKept
  <2>4. RegistrationsDieWithQueue' /\ LifeExact' /\ TimersExact'
    BY DEF IInv, RegistrationsDieWithQueue, LifeExact, TimersExact
  <2>5. QED
    BY <2>2, <2>3, <2>4 DEF IInv
<1>9. QED
  BY <1>1, <1>2, <1>3, <1>4, <1>5, <1>6, <1>7, <1>8 DEF Next

(* The inductive invariant: what is counted of the pending events, what    *)
(* each thread carries and for which queue, who holds a timer's token, and *)
(* the line the pointer tags stand in.                                     *)
THEOREM Inductive == Spec => []IInv
<1>1. QED
  BY InitIInv, NextStep, PTL DEF Spec

(* eq_post sheds and merges only coalescible events: whatever comes        *)
(* between, every end-of-pipe event queued is delivered or pending, and so *)
(* is every expiration of a timer that was not shed with its event.        *)
THEOREM CountedIsKept == Spec => []NothingCountedIsLost
<1>1. IInv => NothingCountedIsLost
  BY DEF IInv
<1>2. QED
  BY <1>1, Inductive, PTL

(* prosper_eq_post_apr_token and its worker, eq_post and k_eq_wait: each   *)
(* tag bound to a queue is delivered to it once, after those bound before. *)
THEOREM TagsComeInOrder == Spec => []TagsInOrder
<1>1. IInv => TagsInOrder
  BY DEF IInv
<1>2. QED
  BY <1>1, Inductive, PTL

(* k_eq_delete and the identities of eq_find: an event that waits in a     *)
(* queue was meant for it, or its post was under way when the queue it was *)
(* meant for was deleted and its source carries no identity.               *)
THEOREM OnlyItsOwn == Spec => []RightQueue
<1>1. IInv => RightQueue
  BY DEF IInv, RightQueue, QueueExact
<1>2. QED
  BY <1>1, Inductive, PTL

(* post_after, k_del_timer_event and k_eq_delete: a timer thread that has  *)
(* lost its token makes at most the post it had begun.                     *)
THEOREM NoSecondFiring == Spec => []CancelledFiresOnce
<1>1. IInv => CancelledFiresOnce
  BY DEF IInv, TimersExact, CancelledFiresOnce
<1>2. QED
  BY <1>1, Inductive, PTL
===============================================================================
