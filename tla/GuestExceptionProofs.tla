-------------------------- MODULE GuestExceptionProofs --------------------------
(***************************************************************************)
(* Proofs about GuestException, for any numbers of raisers, targets,       *)
(* raises and spins.  For any number of raisers at a time, the count is    *)
(* what is queued and a suspended target has a raiser that will resume it. *)
(* For one raiser at a time (OneRaiser), a raise is reported as it went,   *)
(* and no delivery is put on an exception stack in use.                    *)
(***************************************************************************)
EXTENDS GuestException, FiniteSetTheorems, SequenceTheorems, TLAPS

-------------------------------------------------------------------------------
(* Frames.                                                                 *)

\* A target's stack of frames is a sequence of frames.
LEMMA FramesType ==
  ASSUME TypeOK, NEW t \in Targets
  PROVE  /\ frames[t] \in Seq(Frames)
         /\ Len(frames[t]) \in Nat
         /\ DOMAIN frames[t] = 1 .. Len(frames[t])
         /\ \A k \in DOMAIN frames[t] : frames[t][k] \in Frames
<1>1. frames[t] \in Seq(Frames)
  BY DEF TypeOK
<1>2. QED
  BY <1>1, LenProperties, ElementOfSeq

\* The frame a target runs.
LEMMA TopIsAFrame ==
  ASSUME TypeOK, FrameShape, NEW t \in Targets
  PROVE  /\ Len(frames[t]) \in DOMAIN frames[t]
         /\ Top(t) = frames[t][Len(frames[t])]
         /\ Top(t) \in Frames
BY FramesType DEF FrameShape, Top

\* Only the frame below is the guest's.
LEMMA TopOfGuest ==
  ASSUME TypeOK, FrameShape, NEW t \in Targets
  PROVE  Top(t).on = "guest" <=> Len(frames[t]) = 1
<1>1. Len(frames[t]) \in DOMAIN frames[t] /\ Top(t) = frames[t][Len(frames[t])]
  BY TopIsAFrame
<1>2. \A k \in DOMAIN frames[t] : frames[t][k].on = "guest" <=> k = 1
  BY DEF FrameShape
<1>3. QED
  BY <1>1, <1>2

\* A change of the frame on top leaves the others.
LEMMA TopChanges ==
  ASSUME TypeOK, FrameShape, NEW t \in Targets, NEW f \in Frames, frames' = SetTop(t, f)
  PROVE  /\ frames' \in [Targets -> Seq(Frames)]
         /\ Len(frames'[t]) = Len(frames[t])
         /\ DOMAIN frames'[t] = DOMAIN frames[t]
         /\ \A k \in DOMAIN frames[t] :
              frames'[t][k] = IF k = Len(frames[t]) THEN f ELSE frames[t][k]
         /\ \A u \in Targets \ {t} : frames'[u] = frames[u]
<1>1. /\ frames[t] \in Seq(Frames) /\ DOMAIN frames[t] = 1 .. Len(frames[t])
      /\ Len(frames[t]) \in 1 .. Len(frames[t])
  BY FramesType DEF FrameShape
<1>2. frames'[t] = [frames[t] EXCEPT ![Len(frames[t])] = f]
  BY DEF TypeOK, SetTop
<1>3. /\ frames'[t] \in Seq(Frames) /\ Len(frames'[t]) = Len(frames[t])
      /\ \A k \in 1 .. Len(frames[t]) :
           frames'[t][k] = IF k = Len(frames[t]) THEN f ELSE frames[t][k]
  BY <1>1, <1>2, ExceptSeq
<1>4. \A u \in Targets \ {t} : frames'[u] = frames[u]
  BY DEF TypeOK, SetTop
<1>5. frames' \in [Targets -> Seq(Frames)]
  BY <1>3, <1>4 DEF TypeOK, SetTop
<1>6. DOMAIN frames'[t] = DOMAIN frames[t]
  BY <1>1, <1>3, LenProperties
<1>7. QED
  BY <1>1, <1>3, <1>4, <1>5, <1>6

\* A frame that is put on top leaves the others.
LEMMA FrameIsPushed ==
  ASSUME TypeOK, NEW t \in Targets, NEW f \in Frames,
         frames' = [frames EXCEPT ![t] = Append(@, f)]
  PROVE  /\ frames' \in [Targets -> Seq(Frames)]
         /\ Len(frames'[t]) = Len(frames[t]) + 1
         /\ DOMAIN frames'[t] = 1 .. Len(frames[t]) + 1
         /\ \A k \in DOMAIN frames'[t] :
              frames'[t][k] = IF k = Len(frames[t]) + 1 THEN f ELSE frames[t][k]
         /\ \A u \in Targets \ {t} : frames'[u] = frames[u]
<1>1. frames[t] \in Seq(Frames) /\ Len(frames[t]) \in Nat
  BY FramesType
<1>2. frames'[t] = Append(frames[t], f)
  BY DEF TypeOK
<1>3. /\ frames'[t] \in Seq(Frames) /\ Len(frames'[t]) = Len(frames[t]) + 1
      /\ \A k \in 1 .. Len(frames[t]) : frames'[t][k] = frames[t][k]
      /\ frames'[t][Len(frames[t]) + 1] = f
  BY <1>1, <1>2, AppendProperties
<1>4. \A u \in Targets \ {t} : frames'[u] = frames[u]
  BY DEF TypeOK
<1>5. frames' \in [Targets -> Seq(Frames)]
  BY <1>3, <1>4 DEF TypeOK
<1>6. DOMAIN frames'[t] = 1 .. Len(frames[t]) + 1
  BY <1>3, LenProperties
<1>7. QED
  BY <1>1, <1>3, <1>4, <1>5, <1>6

\* A frame that is taken off leaves the others.
LEMMA FrameIsPopped ==
  ASSUME TypeOK, NEW t \in Targets, Len(frames[t]) > 1,
         frames' = [frames EXCEPT ![t] = SubSeq(@, 1, Len(frames[t]) - 1)]
  PROVE  /\ frames' \in [Targets -> Seq(Frames)]
         /\ Len(frames'[t]) = Len(frames[t]) - 1
         /\ DOMAIN frames'[t] = 1 .. Len(frames[t]) - 1
         /\ \A k \in DOMAIN frames'[t] : frames'[t][k] = frames[t][k]
         /\ \A u \in Targets \ {t} : frames'[u] = frames[u]
<1> DEFINE n == Len(frames[t]) - 1
<1>1. n \in Nat /\ n >= 1 /\ \A i \in 1 .. n : frames[t][i] \in Frames
  BY FramesType
<1>2. frames'[t] = SubSeq(frames[t], 1, n)
  BY DEF TypeOK
<1>3. /\ frames'[t] \in Seq(Frames) /\ Len(frames'[t]) = n
      /\ \A i \in 1 .. n : frames'[t][i] = frames[t][i]
  <2>1. /\ SubSeq(frames[t], 1, n) \in Seq(Frames)
        /\ Len(SubSeq(frames[t], 1, n)) = IF 1 <= n THEN n - 1 + 1 ELSE 0
        /\ \A i \in 1 .. n - 1 + 1 : SubSeq(frames[t], 1, n)[i] = frames[t][1 + i - 1]
    BY <1>1, SubSeqProperties
  <2>2. \A i \in 1 .. n : i \in 1 .. n - 1 + 1 /\ 1 + i - 1 = i
    BY <1>1
  <2>3. QED
    BY <1>1, <1>2, <2>1, <2>2
<1>4. \A u \in Targets \ {t} : frames'[u] = frames[u]
  BY DEF TypeOK
<1>5. frames' \in [Targets -> Seq(Frames)]
  BY <1>3, <1>4 DEF TypeOK
<1>6. DOMAIN frames'[t] = 1 .. n
  BY <1>3, LenProperties
<1>7. QED
  BY <1>3, <1>4, <1>5, <1>6

\* interrupt_guest_wait moves frames on in their waits, and nothing else.
LEMMA FramesAreInterrupted ==
  ASSUME TypeOK, NEW t \in Targets, frames' = [frames EXCEPT ![t] = Interrupted(t)]
  PROVE  /\ frames' \in [Targets -> Seq(Frames)]
         /\ Len(frames'[t]) = Len(frames[t])
         /\ DOMAIN frames'[t] = DOMAIN frames[t]
         /\ \A k \in DOMAIN frames[t] :
              /\ frames'[t][k].on = frames[t][k].on
              /\ frames'[t][k].raise = frames[t][k].raise
              /\ frames'[t][k].step = frames[t][k].step
              /\ \/ frames'[t][k].at = frames[t][k].at
                 \/ frames[t][k].at = "parked" /\ frames'[t][k].at = "post"
         /\ \A u \in Targets \ {t} : frames'[u] = frames[u]
<1>1. /\ Len(frames[t]) \in Nat /\ DOMAIN frames[t] = 1 .. Len(frames[t])
      /\ \A k \in DOMAIN frames[t] : frames[t][k] \in Frames
  BY FramesType
<1>2. frames'[t] = Interrupted(t)
  BY DEF TypeOK
<1>3. ASSUME NEW k \in DOMAIN frames[t]
      PROVE  /\ frames'[t][k] \in Frames
             /\ frames'[t][k].on = frames[t][k].on
             /\ frames'[t][k].raise = frames[t][k].raise
             /\ frames'[t][k].step = frames[t][k].step
             /\ \/ frames'[t][k].at = frames[t][k].at
                \/ frames[t][k].at = "parked" /\ frames'[t][k].at = "post"
  <2> DEFINE f == frames[t][k]
             g == [f EXCEPT !.moved = f.wait = "cond" /\ f.at \in {"pre", "park"},
                            !.at = IF @ = "parked" THEN "post" ELSE @]
  <2>1. f \in Frames
    BY <1>1
  <2>2. frames'[t][k] = IF f.at \in {"pre", "park", "parked", "post"} THEN g ELSE f
    BY <1>1, <1>2 DEF Interrupted
  <2>3. /\ g \in Frames /\ g.on = f.on /\ g.raise = f.raise /\ g.step = f.step
        /\ g.at = IF f.at = "parked" THEN "post" ELSE f.at
    BY <2>1 DEF Frames
  <2>4. QED
    BY <2>1, <2>2, <2>3
<1>4. frames'[t] \in [1 .. Len(frames[t]) -> Frames]
  BY <1>1, <1>2, <1>3 DEF Interrupted
<1>5. frames'[t] \in Seq(Frames)
  BY <1>1, <1>4, SeqDef
<1>6. Len(frames'[t]) = Len(frames[t]) /\ DOMAIN frames'[t] = 1 .. Len(frames[t])
  BY <1>1, <1>4, <1>5, LenProperties
<1>7. \A u \in Targets \ {t} : frames'[u] = frames[u]
  BY DEF TypeOK
<1>8. frames' \in [Targets -> Seq(Frames)]
  BY <1>5, <1>7 DEF TypeOK
<1>9. QED
  BY <1>1, <1>3, <1>6, <1>7, <1>8

\* Most steps leave what lies on the stacks: no frame comes, goes, claims a request or
\* takes it off the count.
Alike ==
  \A t \in Targets :
     /\ Len(frames'[t]) = Len(frames[t]) /\ DOMAIN frames'[t] = DOMAIN frames[t]
     /\ \A k \in DOMAIN frames[t] :
          /\ frames'[t][k].on = frames[t][k].on
          /\ frames'[t][k].raise = frames[t][k].raise
          /\ frames'[t][k].step = "sub" <=> frames[t][k].step = "sub"

\* Then the frames say the same of the target.
LEMMA AlikeSaysTheSame ==
  ASSUME TypeOK, FrameShape, Alike, NEW t \in Targets
  PROVE  /\ NoExc(t)' <=> NoExc(t)
         /\ Top(t)'.on = Top(t).on
         /\ \A k \in DOMAIN frames[t] : Busy(frames[t][k])' <=> Busy(frames[t][k])
<1>1. \A k \in DOMAIN frames[t] : Busy(frames[t][k])' <=> Busy(frames[t][k])
  BY DEF Alike, Busy
<1>2. NoExc(t)' <=> NoExc(t)
  BY DEF Alike, NoExc
<1>3. Top(t)'.on = Top(t).on
  BY TopIsAFrame DEF Alike, Top
<1>4. QED
  BY <1>1, <1>2, <1>3

\* ... and of the raises, if no frame enters its handler.
LEMMA AlikeRaises ==
  ASSUME Alike, type' = type,
         \A t \in Targets : \A k \in DOMAIN frames[t] :
            frames'[t][k].at = "enter" <=> frames[t][k].at = "enter"
  PROVE  /\ \A t \in Targets : Traces(t)' = Traces(t)
         /\ \A n : OnItsWay(n)' <=> OnItsWay(n)
<1>1. ASSUME NEW t \in Targets PROVE Traces(t)' = Traces(t)
  BY DEF Alike, Traces
<1>2. ASSUME NEW n PROVE OnItsWay(n)' <=> OnItsWay(n)
  BY DEF Alike, OnItsWay
<1>3. QED
  BY <1>1, <1>2
-------------------------------------------------------------------------------
(* The count.                                                              *)

\* One up and one down, the wrap of the 32-bit count included.
LEMMA CountUp ==
  ASSUME queued \in 0 .. Modulus - 1, NEW d \in Int, Congruent(queued, d)
  PROVE  /\ (queued + 1) % Modulus \in 0 .. Modulus - 1
         /\ Congruent((queued + 1) % Modulus, d + 1)
<1>0. Modulus \in Nat /\ Modulus > 0
  BY ExceptionAssumption, FS_CardinalityType
<1>1. PICK z \in Int : queued = d + z * Modulus
  BY DEF Congruent
<1>2. PICK q \in 0 .. Modulus - 1 : /\ q = (queued + 1) % Modulus
                                    /\ q = IF queued = Modulus - 1 THEN 0 ELSE queued + 1
  BY <1>0
<1>3. \E w \in Int : q = d + 1 + w * Modulus
  <2>1. (z - 1) * Modulus = z * Modulus - Modulus
    BY <1>0
  <2>2. q = d + 1 + z * Modulus \/ q = d + 1 + (z - 1) * Modulus
    BY <1>0, <1>1, <1>2, <2>1
  <2>3. QED
    BY <2>2
<1>4. QED
  BY <1>2, <1>3 DEF Congruent

\* ... and down.
LEMMA CountDown ==
  ASSUME queued \in 0 .. Modulus - 1, NEW d \in Int, Congruent(queued, d)
  PROVE  /\ (queued - 1) % Modulus \in 0 .. Modulus - 1
         /\ Congruent((queued - 1) % Modulus, d - 1)
<1>0. Modulus \in Nat /\ Modulus > 0
  BY ExceptionAssumption, FS_CardinalityType
<1>1. PICK z \in Int : queued = d + z * Modulus
  BY DEF Congruent
<1>2. PICK q \in 0 .. Modulus - 1 : /\ q = (queued - 1) % Modulus
                                    /\ q = IF queued = 0 THEN Modulus - 1 ELSE queued - 1
  BY <1>0
<1>3. \E w \in Int : q = d - 1 + w * Modulus
  <2>1. (z + 1) * Modulus = z * Modulus + Modulus
    BY <1>0
  <2>2. q = d - 1 + z * Modulus \/ q = d - 1 + (z + 1) * Modulus
    BY <1>0, <1>1, <1>2, <2>1
  <2>3. QED
    BY <2>2
<1>4. QED
  BY <1>2, <1>3 DEF Congruent

\* A count below the modulus is what it is congruent to.
LEMMA CountIsExact ==
  ASSUME queued \in 0 .. Modulus - 1, NEW d \in 0 .. Modulus - 1, Congruent(queued, d)
  PROVE  queued = d
<1>0. Modulus \in Nat /\ Modulus > 0
  BY ExceptionAssumption, FS_CardinalityType
<1>1. PICK z \in Int : queued = d + z * Modulus
  BY DEF Congruent
<1>2. CASE z = 0
  BY <1>0, <1>1, <1>2
<1>3. CASE z >= 1
  <2>1. z * Modulus >= Modulus
    BY <1>0, <1>3
  <2>2. QED
    BY <1>0, <1>1, <2>1
<1>4. CASE z <= -1
  <2>1. z * Modulus <= -Modulus
    BY <1>0, <1>4
  <2>2. QED
    BY <1>0, <1>1, <2>1
<1>5. QED
  BY <1>2, <1>3, <1>4
-------------------------------------------------------------------------------
(* The steps of raisers, for any number of them.                           *)

\* A raiser's step takes it to a label; a call that returns has no target any more.
Moves(r, label) ==
  /\ rpc' = [rpc EXCEPT ![r] = label]
  /\ \A s \in Raisers \ {r} : target'[s] = target[s] /\ raise'[s] = raise[s]
  /\ IF label = "idle" THEN target'[r] = NoOne /\ raise'[r] = 0
                       ELSE target'[r] = target[r] /\ raise'[r] = raise[r]
  /\ raised' = raised
  /\ rpc' \in [Raisers -> Rpcs] /\ target' \in [Raisers -> Targets \union {NoOne}]
  /\ raise' \in [Raisers -> 0 .. MaxRaises] /\ spin' \in [Raisers -> 0 .. MaxSpins]
  /\ raised' \in 0 .. MaxRaises

\* A step inside a call moves its raiser.
LEMMA GotoMoves ==
  ASSUME TypeOK, NEW r \in Raisers, NEW label \in Rpcs \ {"idle"}, Goto(r, label)
  PROVE  Moves(r, label)
BY DEF TypeOK, Goto, Moves

\* ... and so does the end of the call, which also answers it.
LEMMA TellMoves ==
  ASSUME TypeOK, NEW r \in Raisers, NEW answer \in {"ok", "refused"}, Tell(r, answer)
  PROVE  /\ Moves(r, "idle")
         /\ told' \in [Raises -> {"none", "ok", "refused"}] /\ ran' = ran
<1>1. 0 \in 0 .. MaxRaises /\ 0 \in 0 .. MaxSpins /\ "idle" \in Rpcs
  BY ExceptionAssumption DEF Rpcs
<1>2. Moves(r, "idle")
  BY <1>1 DEF TypeOK, Tell, Moves
<1>3. QED
  BY <1>2 DEF TypeOK, Tell

\* What the conjuncts need of a raiser's step: that it publishes nothing,
LEMMA CallsKept ==
  ASSUME TypeOK, CallShape, NEW r \in Raisers, NEW label \in Rpcs \ {"queue"},
         Moves(r, label), rpc[r] # "idle",
         \A s \in Raisers \ {r} : rpc[s] = "queue" => state'[target[s]] = "Publishing"
  PROVE  CallShape'
BY DEF TypeOK, CallShape, Moves

\* ... that it neither takes nor gives up an exception stack,
LEMMA LocksKept ==
  ASSUME TypeOK, StackLocked, NEW r \in Raisers, NEW label \in Rpcs \ {"probe", "suspend"},
         Moves(r, label), UNCHANGED forced,
         rpc[r] \in Delivering <=> label \in Delivering
  PROVE  StackLocked'
BY ExceptionAssumption DEF TypeOK, StackLocked, Moves, Delivering, Suspending, forced

\* ... that it is not about to put a frame on one,
LEMMA TopsKept ==
  ASSUME TypeOK, FrameShape, CallShape, TopClear, NEW r \in Raisers,
         NEW label \in Rpcs \ {"suspend", "redirect"}, Moves(r, label), Alike,
         active' = active, suspended' = suspended
  PROVE  TopClear'
<1>1. \A t \in Targets : ~active'[t] => NoExc(t)'
  BY AlikeSaysTheSame DEF TopClear
<1>2. ASSUME NEW s \in Raisers, rpc'[s] \in {"suspend", "redirect"}
      PROVE  /\ rpc[s] = rpc'[s] /\ target'[s] = target[s] /\ target[s] \in Targets
             /\ NoExc(target[s])' <=> NoExc(target[s])
             /\ Top(target[s])'.on = Top(target[s]).on
  <2>1. rpc[s] = rpc'[s] /\ target'[s] = target[s]
    BY <1>2 DEF TypeOK, Moves
  <2>2. target[s] \in Targets
    BY <1>2, <2>1 DEF CallShape
  <2>3. QED
    BY <2>1, <2>2, AlikeSaysTheSame
<1>3. ASSUME NEW s \in Raisers
      PROVE  /\ rpc'[s] = "suspend" => NoExc(target[s])' /\ target'[s] = target[s]
             /\ rpc'[s] = "redirect" =>
                   /\ suspended'[target'[s]] /\ target'[s] = target[s]
                   /\ Top(target[s])'.on # "exc"
  BY <1>2 DEF TopClear
<1>4. \A s \in Raisers :
         /\ rpc'[s] = "suspend" => NoExc(target[s])'
         /\ rpc'[s] = "redirect" => suspended'[target'[s]] /\ Top(target[s])'.on # "exc"
  BY <1>3
<1>5. QED
  BY <1>1, <1>3 DEF TopClear, NoExc, Top

\* ... and that it leaves what is counted.
LEMMA CountKept ==
  ASSUME CountExact, queued' = queued, Counted' = Counted,
         At("sub")' = At("sub"), At("add")' = At("add")
  PROVE  CountExact'
BY DEF CountExact, Congruent, Due

\* A raiser that is on no way to the count leaves those that are.
LEMMA AtKept ==
  ASSUME TypeOK, NEW r \in Raisers, NEW label, Moves(r, label),
         rpc[r] \notin {"add", "sub"}, label \notin {"add", "sub"}
  PROVE  At("sub")' = At("sub") /\ At("add")' = At("add")
BY DEF TypeOK, At, Moves

\* The raisers at a label are finitely many.
LEMMA AtIsFinite ==
  ASSUME NEW label
  PROVE  IsFiniteSet(At(label)) /\ Cardinality(At(label)) \in Nat
<1>1. At(label) \in SUBSET Raisers
  BY DEF At
<1>2. QED
  BY <1>1, ExceptionAssumption, FS_Subset, FS_CardinalityType

\* The targets that are counted are fewer than the count can wrap at.
LEMMA CountedIsFinite ==
  IsFiniteSet(Counted) /\ Cardinality(Counted) \in 0 .. Modulus - 1
<1>1. Counted \in SUBSET Targets
  BY DEF Counted
<1>2. /\ IsFiniteSet(Counted) /\ Cardinality(Counted) \in Nat
      /\ Cardinality(Counted) <= Cardinality(Targets) /\ Cardinality(Targets) \in Nat
  BY <1>1, ExceptionAssumption, FS_Subset, FS_CardinalityType
<1>3. QED
  BY <1>2, ExceptionAssumption

\* What the count should be is a number.
LEMMA DueIsInt == Due \in Int
BY CountedIsFinite, AtIsFinite DEF Due

\* A step that leaves the slots that run and what lies on the stacks leaves SlotExact.
LEMMA SlotsKept ==
  ASSUME SlotExact, Alike,
         \A t \in Targets : state'[t] = "Running" <=> state[t] = "Running"
  PROVE  SlotExact'
BY DEF SlotExact, Alike, Busy

\* ... and one that leaves the slots that are queued leaves what is counted.
LEMMA CountedKept ==
  ASSUME Alike, \A t \in Targets : state'[t] = "Queued" <=> state[t] = "Queued"
  PROVE  Counted' = Counted
BY DEF Counted, Alike

\* A step that leaves the frames leaves what they say.
LEMMA FramesKept ==
  ASSUME FrameShape, frames' = frames
  PROVE  Alike /\ FrameShape'
BY DEF Alike, FrameShape

\* A call begins; it has its target and the next number.
LEMMA RaiseStep ==
  ASSUME IInv, NEW r \in Raisers, NEW t \in Targets, Raise(r, t)
  PROVE  IInv'
<1>0. Alike /\ FrameShape' /\ rpc' = [rpc EXCEPT ![r] = "publish"] /\ rpc[r] = "idle"
  BY FramesKept DEF IInv, Raise
<1>1. TypeOK'
  BY ExceptionAssumption DEF IInv, TypeOK, Raise, coop, forced, ghosts, Rpcs
<1>2. SlotExact'
  BY <1>0, SlotsKept DEF IInv, Raise, coop
<1>3. CallShape'
  BY ExceptionAssumption DEF IInv, TypeOK, CallShape, Raise, coop
<1>4. StackLocked'
  BY ExceptionAssumption DEF IInv, TypeOK, StackLocked, Delivering, Suspending, Raise, forced
<1>5. TopClear'
  <2>1. \A s \in Raisers : rpc'[s] \in {"suspend", "redirect"} =>
           rpc'[s] = rpc[s] /\ target'[s] = target[s]
    BY DEF IInv, TypeOK, Raise
  <2>2. QED
    BY <2>1 DEF IInv, TopClear, NoExc, Top, Raise, forced
<1>6. CountExact'
  <2>1. At("sub")' = At("sub") /\ At("add")' = At("add")
    BY <1>0 DEF IInv, TypeOK, At
  <2>2. QED
    BY <1>0, <2>1, CountedKept, CountKept DEF IInv, Raise, coop
<1>7. QED
  BY <1>0, <1>1, <1>2, <1>3, <1>4, <1>5, <1>6 DEF IInv

\* A raiser that moves on without touching slots, count or stack mutexes.
LEMMA MovesOn ==
  ASSUME IInv, NEW r \in Raisers, NEW label \in Rpcs \ {"queue", "add", "sub", "probe",
                                                        "suspend", "redirect"},
         Moves(r, label), rpc[r] \notin {"idle", "add", "sub"},
         rpc[r] \in Delivering <=> label \in Delivering,
         Alike, FrameShape', frames' \in [Targets -> Seq(Frames)],
         told' \in [Raises -> {"none", "ok", "refused"}], ran' = ran,
         UNCHANGED <<coop, forced, exited>>
  PROVE  IInv'
<1>1. TypeOK'
  BY DEF IInv, TypeOK, Moves, coop, forced
<1>2. SlotExact'
  BY SlotsKept DEF IInv, coop
<1>3. CallShape'
  BY CallsKept DEF IInv, CallShape, coop
<1>4. StackLocked'
  BY LocksKept DEF IInv, forced
<1>5. TopClear'
  BY TopsKept DEF IInv, forced
<1>6. CountExact'
  BY AtKept, CountedKept, CountKept DEF IInv, coop
<1>7. QED
  BY <1>1, <1>2, <1>3, <1>4, <1>5, <1>6 DEF IInv

\* try_queue_wait_exception takes an Idle slot, or the raise is refused.
LEMMA PublishStep ==
  ASSUME IInv, NEW r \in Raisers, Publish(r)
  PROVE  IInv'
<1>0. /\ Alike /\ FrameShape' /\ frames' \in [Targets -> Seq(Frames)]
      /\ rpc[r] = "publish" /\ target[r] \in Targets
  BY FramesKept DEF IInv, TypeOK, CallShape, Publish
<1>1. CASE Tell(r, "refused") /\ UNCHANGED state
  <2>1. Moves(r, "idle") /\ told' \in [Raises -> {"none", "ok", "refused"}] /\ ran' = ran
    BY <1>1, TellMoves DEF IInv
  <2>2. QED
    BY <1>0, <1>1, <2>1, MovesOn DEF Publish, coop, Rpcs, Delivering, Suspending
<1>2. CASE /\ state[target[r]] = "Idle"
           /\ state' = [state EXCEPT ![target[r]] = "Publishing"]
           /\ Goto(r, "queue") /\ UNCHANGED ghosts
  <2>0. Moves(r, "queue")
    BY <1>2, GotoMoves DEF IInv, Rpcs
  <2>1. TypeOK'
    BY <1>0, <1>2, <2>0 DEF IInv, TypeOK, Moves, Publish, forced, ghosts
  <2>2. SlotExact'
    BY <1>0, <1>2, SlotsKept DEF IInv, TypeOK
  <2>3. CallShape'
    BY <1>0, <1>2 DEF IInv, TypeOK, CallShape, Goto
  <2>4. StackLocked'
    BY <1>0, <2>0, LocksKept DEF IInv, Publish, forced, Delivering, Suspending, Rpcs
  <2>5. TopClear'
    BY <1>0, <2>0, TopsKept DEF IInv, Publish, forced, Rpcs
  <2>6. CountExact'
    <3>1. Counted' = Counted
      BY <1>0, <1>2, CountedKept DEF IInv, TypeOK
    <3>2. QED
      BY <1>0, <2>0, <3>1, AtKept, CountKept DEF IInv, Publish
  <2>7. QED
    BY <1>0, <2>1, <2>2, <2>3, <2>4, <2>5, <2>6 DEF IInv
<1>3. QED
  BY <1>1, <1>2 DEF Publish

\* The request is queued, and its raiser on the way to count it.
LEMMA QueueStep ==
  ASSUME IInv, NEW r \in Raisers, Queue(r)
  PROVE  IInv'
<1> DEFINE t == target[r]
<1>0. /\ Alike /\ FrameShape' /\ frames' = frames
      /\ rpc[r] = "queue" /\ t \in Targets /\ state[t] = "Publishing"
      /\ \A s \in Raisers \ {r} : rpc[s] = "queue" => target[s] # t
      /\ state' = [state EXCEPT ![t] = "Queued"] /\ queued' = queued
      /\ UNCHANGED <<forced, exited, ghosts>>
  BY FramesKept DEF IInv, TypeOK, CallShape, Queue
<1>1. Moves(r, "add")
  BY GotoMoves DEF IInv, Queue, Rpcs
<1>2. TypeOK'
  BY <1>0, <1>1 DEF IInv, TypeOK, Moves, Queue, forced, ghosts
<1>3. SlotExact'
  BY <1>0, SlotsKept DEF IInv, TypeOK
<1>4. CallShape'
  BY <1>0, <1>1, CallsKept DEF IInv, TypeOK, CallShape, Rpcs
<1>5. StackLocked'
  BY <1>0, <1>1, LocksKept DEF IInv, forced, Delivering, Suspending, Rpcs
<1>6. TopClear'
  BY <1>0, <1>1, TopsKept DEF IInv, forced, Rpcs
<1>7. CountExact'
  <2>0. \A k \in DOMAIN frames[t] : frames[t][k].step # "sub"
    BY <1>0 DEF IInv, SlotExact, Busy
  <2>1. t \notin Counted /\ Counted' = Counted \union {t}
    BY <1>0, <2>0 DEF IInv, TypeOK, Counted
  <2>2. r \notin At("add") /\ At("add")' = At("add") \union {r} /\ At("sub")' = At("sub")
    BY <1>0, <1>1 DEF IInv, TypeOK, At, Moves
  <2>3. /\ Cardinality(Counted)' = Cardinality(Counted) + 1
        /\ Cardinality(At("add"))' = Cardinality(At("add")) + 1
    BY <2>1, <2>2, CountedIsFinite, AtIsFinite, FS_AddElement
  <2>4. Due' = Due
    BY <2>2, <2>3, CountedIsFinite, AtIsFinite DEF Due
  <2>5. QED
    BY <1>0, <2>4 DEF IInv, CountExact, Congruent
<1>8. QED
  BY <1>0, <1>2, <1>3, <1>4, <1>5, <1>6, <1>7 DEF IInv

\* ... and is counted, perhaps after it was claimed.
LEMMA AddStep ==
  ASSUME IInv, NEW r \in Raisers, Add(r)
  PROVE  IInv'
<1>0. /\ Alike /\ FrameShape' /\ frames' = frames /\ state' = state
      /\ rpc[r] = "add" /\ queued' = (queued + 1) % Modulus
      /\ UNCHANGED <<type, forced, exited, ghosts>>
  BY FramesKept DEF IInv, Add
<1>1. Moves(r, "interrupt")
  BY GotoMoves DEF IInv, Add, Rpcs
<1>2. CountExact' /\ queued' \in 0 .. Modulus - 1
  <2>1. r \in At("add") /\ At("add")' = At("add") \ {r} /\ At("sub")' = At("sub")
    BY <1>0, <1>1 DEF IInv, TypeOK, At, Moves
  <2>2. Cardinality(At("add"))' = Cardinality(At("add")) - 1
    BY <2>1, AtIsFinite, FS_RemoveElement
  <2>3. Counted' = Counted
    BY <1>0, CountedKept
  <2>4. Due' = Due + 1
    BY <2>1, <2>2, <2>3, CountedIsFinite, AtIsFinite DEF Due
  <2>5. Congruent((queued + 1) % Modulus, Due + 1) /\ queued' \in 0 .. Modulus - 1
    BY <1>0, DueIsInt, CountUp DEF IInv, TypeOK, CountExact
  <2>6. QED
    BY <1>0, <2>4, <2>5 DEF CountExact, Congruent
<1>3. TypeOK'
  BY <1>0, <1>1, <1>2 DEF IInv, TypeOK, Moves, forced, ghosts
<1>4. SlotExact'
  BY <1>0, SlotsKept DEF IInv
<1>5. CallShape'
  BY <1>0, <1>1, CallsKept DEF IInv, CallShape, Rpcs
<1>6. StackLocked'
  BY <1>0, <1>1, LocksKept DEF IInv, forced, Delivering, Suspending, Rpcs
<1>7. TopClear'
  BY <1>0, <1>1, TopsKept DEF IInv, forced, Rpcs
<1>8. QED
  BY <1>0, <1>2, <1>3, <1>4, <1>5, <1>6, <1>7 DEF IInv

\* interrupt_guest_wait, by the queue and by the forced delivery.
LEMMA InterruptStep ==
  ASSUME IInv, NEW r \in Raisers, Interrupt(r) \/ Wake(r)
  PROVE  IInv'
<1> DEFINE t == target[r]
           label == IF rpc[r] = "interrupt" THEN "poll" ELSE "resume"
<1>0. /\ rpc[r] \in {"interrupt", "wake"} /\ t \in Targets
      /\ frames' = [frames EXCEPT ![t] = Interrupted(t)]
      /\ UNCHANGED <<coop, forced, exited, ghosts>>
  BY DEF IInv, CallShape, Interrupt, Wake
<1>1. Moves(r, label)
  BY GotoMoves DEF IInv, Interrupt, Wake, Rpcs
<1>2. /\ frames' \in [Targets -> Seq(Frames)]
      /\ Len(frames'[t]) = Len(frames[t])
      /\ DOMAIN frames'[t] = DOMAIN frames[t]
      /\ \A k \in DOMAIN frames[t] :
           /\ frames'[t][k].on = frames[t][k].on
           /\ frames'[t][k].raise = frames[t][k].raise
           /\ frames'[t][k].step = frames[t][k].step
           /\ \/ frames'[t][k].at = frames[t][k].at
              \/ frames[t][k].at = "parked" /\ frames'[t][k].at = "post"
      /\ \A u \in Targets \ {t} : frames'[u] = frames[u]
  BY <1>0, FramesAreInterrupted DEF IInv
<1>3. Alike
  BY <1>2 DEF Alike
<1>4. FrameShape'
  BY <1>2, SMTT(30) DEF IInv, FrameShape
<1>5. QED
  BY <1>0, <1>1, <1>2, <1>3, <1>4, MovesOn DEF IInv, TypeOK, Rpcs, Delivering, Suspending, ghosts

\* The raiser looks whether its request was claimed, and gives up after a while.
LEMMA PollStep ==
  ASSUME IInv, NEW r \in Raisers, Poll(r)
  PROVE  IInv'
<1>0. /\ Alike /\ FrameShape' /\ frames' \in [Targets -> Seq(Frames)]
      /\ rpc[r] = "poll" /\ UNCHANGED <<coop, forced, exited>>
  BY FramesKept DEF IInv, TypeOK, Poll
<1>1. CASE Tell(r, "ok")
  <2>1. Moves(r, "idle") /\ told' \in [Raises -> {"none", "ok", "refused"}] /\ ran' = ran
    BY <1>1, TellMoves DEF IInv
  <2>2. QED
    BY <1>0, <2>1, MovesOn DEF Rpcs, Delivering, Suspending
<1>2. CASE /\ spin[r] < MaxSpins /\ spin' = [spin EXCEPT ![r] = @ + 1]
           /\ UNCHANGED <<rpc, target, raise, raised, ghosts>>
  <2>1. Moves(r, "poll")
    BY <1>0, <1>2, ExceptionAssumption DEF IInv, TypeOK, Moves
  <2>2. QED
    BY <1>0, <1>2, <2>1, MovesOn DEF IInv, TypeOK, Rpcs, Delivering, Suspending, ghosts
<1>3. CASE Goto(r, "withdraw") /\ UNCHANGED ghosts
  <2>1. Moves(r, "withdraw")
    BY <1>3, GotoMoves DEF IInv, Rpcs
  <2>2. QED
    BY <1>0, <1>3, <2>1, MovesOn DEF IInv, TypeOK, Rpcs, Delivering, Suspending, ghosts
<1>4. QED
  BY <1>1, <1>2, <1>3 DEF Poll

\* A request that was withdrawn is the raiser's to take off the count.
LEMMA WithdrawStep ==
  ASSUME IInv, NEW r \in Raisers, Withdraw(r)
  PROVE  IInv'
<1> DEFINE t == target[r]
<1>0. /\ Alike /\ FrameShape' /\ frames' = frames /\ frames' \in [Targets -> Seq(Frames)]
      /\ rpc[r] = "withdraw" /\ t \in Targets
      /\ UNCHANGED <<type, queued, forced, exited>>
  BY FramesKept DEF IInv, TypeOK, CallShape, Withdraw
<1>1. CASE Tell(r, "ok") /\ UNCHANGED state
  <2>1. Moves(r, "idle") /\ told' \in [Raises -> {"none", "ok", "refused"}] /\ ran' = ran
    BY <1>1, TellMoves DEF IInv
  <2>2. QED
    BY <1>0, <1>1, <2>1, MovesOn DEF coop, Rpcs, Delivering, Suspending
<1>2. CASE /\ state[t] = "Queued" /\ state' = [state EXCEPT ![t] = "Idle"]
           /\ Goto(r, "sub") /\ UNCHANGED ghosts
  <2>0. Moves(r, "sub")
    BY <1>2, GotoMoves DEF IInv, Rpcs
  <2>1. TypeOK'
    BY <1>0, <1>2, <2>0 DEF IInv, TypeOK, Moves, forced, ghosts
  <2>2. SlotExact'
    BY <1>0, <1>2, SlotsKept DEF IInv, TypeOK
  <2>3. CallShape'
    BY <1>0, <1>2, <2>0, CallsKept DEF IInv, TypeOK, CallShape, Rpcs
  <2>4. StackLocked'
    BY <1>0, <2>0, LocksKept DEF IInv, forced, Delivering, Suspending, Rpcs
  <2>5. TopClear'
    BY <1>0, <2>0, TopsKept DEF IInv, forced, Rpcs
  <2>6. CountExact'
    <3>0. \A k \in DOMAIN frames[t] : frames[t][k].step # "sub"
      BY <1>0, <1>2 DEF IInv, SlotExact, Busy
    <3>1. t \in Counted /\ Counted' = Counted \ {t}
      BY <1>0, <1>2, <3>0 DEF IInv, TypeOK, Counted
    <3>2. /\ r \notin At("sub") /\ At("sub")' = At("sub") \union {r}
          /\ At("add")' = At("add")
      BY <1>0, <2>0 DEF IInv, TypeOK, At, Moves
    <3>3. /\ Cardinality(Counted)' = Cardinality(Counted) - 1
          /\ Cardinality(At("sub"))' = Cardinality(At("sub")) + 1
      BY <3>1, <3>2, CountedIsFinite, AtIsFinite, FS_AddElement, FS_RemoveElement, ZenonT(30)
    <3>4. Due' = Due
      BY <3>2, <3>3, CountedIsFinite, AtIsFinite DEF Due
    <3>5. QED
      BY <1>0, <3>4 DEF IInv, CountExact, Congruent
  <2>7. QED
    BY <1>0, <2>1, <2>2, <2>3, <2>4, <2>5, <2>6 DEF IInv
<1>3. QED
  BY <1>1, <1>2 DEF Withdraw

\* ... and it does.
LEMMA SubtractStep ==
  ASSUME IInv, NEW r \in Raisers, Subtract(r)
  PROVE  IInv'
<1>0. /\ Alike /\ FrameShape' /\ frames' = frames /\ state' = state
      /\ rpc[r] = "sub" /\ queued' = (queued - 1) % Modulus
      /\ UNCHANGED <<type, forced, exited>>
  BY FramesKept DEF IInv, Subtract
<1>1. PICK label \in {"idle", "lock"} : Moves(r, label)
  BY GotoMoves, TellMoves DEF IInv, Subtract, Rpcs
<1>2. told' \in [Raises -> {"none", "ok", "refused"}] /\ ran' \in [Raises -> Nat]
  BY TellMoves DEF IInv, TypeOK, Subtract, ghosts
<1>3. CountExact' /\ queued' \in 0 .. Modulus - 1
  <2>1. r \in At("sub") /\ At("sub")' = At("sub") \ {r} /\ At("add")' = At("add")
    BY <1>0, <1>1 DEF IInv, TypeOK, At, Moves
  <2>2. Cardinality(At("sub"))' = Cardinality(At("sub")) - 1
    BY <2>1, AtIsFinite, FS_RemoveElement
  <2>3. Counted' = Counted
    BY <1>0, CountedKept
  <2>4. Due' = Due - 1
    BY <2>1, <2>2, <2>3, CountedIsFinite, AtIsFinite DEF Due
  <2>5. Congruent((queued - 1) % Modulus, Due - 1) /\ queued' \in 0 .. Modulus - 1
    BY <1>0, DueIsInt, CountDown DEF IInv, TypeOK, CountExact
  <2>6. QED
    BY <1>0, <2>4, <2>5 DEF CountExact, Congruent
<1>4. TypeOK'
  BY <1>0, <1>1, <1>2, <1>3 DEF IInv, TypeOK, Moves, forced
<1>5. SlotExact'
  BY <1>0, SlotsKept DEF IInv
<1>6. CallShape'
  BY <1>0, <1>1, CallsKept DEF IInv, CallShape, Rpcs
<1>7. StackLocked'
  BY <1>0, <1>1, LocksKept DEF IInv, forced, Delivering, Suspending, Rpcs
<1>8. TopClear'
  BY <1>0, <1>1, TopsKept DEF IInv, forced, Rpcs
<1>9. QED
  BY <1>0, <1>3, <1>4, <1>5, <1>6, <1>7, <1>8 DEF IInv

\* One raiser at a time has a target's exception stack.
LEMMA StackIsOnes ==
  ASSUME TypeOK, StackLocked, NEW r \in Raisers, NEW s \in Raisers,
         rpc[r] \in Delivering, rpc[s] \in Delivering, target[r] = target[s],
         target[r] \in Targets
  PROVE  r = s
BY DEF StackLocked

\* A call that ends gives its target's stack up, and the target runs again.
LEMMA LockGivenUp ==
  ASSUME TypeOK, StackLocked, NEW r \in Raisers, Moves(r, "idle"),
         rpc[r] \in Delivering, target[r] \in Targets,
         mutex'[target[r]] = NoOne, ~suspended'[target[r]],
         \A u \in Targets \ {target[r]} : /\ mutex'[u] = mutex[u]
                                          /\ suspended'[u] = suspended[u]
                                          /\ active'[u] = active[u]
  PROVE  StackLocked'
<1> DEFINE t == target[r]
<1>0. \A s \in Raisers \ {r} : rpc[s] \in Delivering => target[s] # t
  BY StackIsOnes
<1>1. \A s \in Raisers \ {r} : rpc'[s] = rpc[s] /\ target'[s] = target[s]
  BY DEF TypeOK, Moves
<1>2. rpc'[r] = "idle" /\ target'[r] = NoOne /\ "idle" \notin Delivering
  BY DEF TypeOK, Moves, Delivering, Suspending
<1>3. ASSUME NEW u \in Targets \ {t}
      PROVE  /\ \A s \in Raisers : mutex'[u] = s <=> target'[s] = u /\ rpc'[s] \in Delivering
             /\ suspended'[u] => \E s \in Raisers : mutex'[u] = s /\ rpc'[s] \in Suspending
             /\ mutex'[u] # NoOne => active'[u]
  <2>1. target[r] # u /\ target'[r] # u
    BY <1>2, ExceptionAssumption
  <2>2. QED
    BY <1>1, <1>2, <2>1 DEF StackLocked
<1>4. \A s \in Raisers : mutex'[t] = s <=> target'[s] = t /\ rpc'[s] \in Delivering
  <2>1. target'[r] # t /\ \A s \in Raisers : s # NoOne
    BY <1>2, ExceptionAssumption
  <2>2. QED
    BY <1>0, <1>1, <2>1
<1>5. QED
  BY <1>3, <1>4 DEF StackLocked

\* The forced delivery takes the stack's mutex and marks the stack.
LEMMA LockStep ==
  ASSUME IInv, NEW r \in Raisers, Lock(r)
  PROVE  IInv'
<1> DEFINE t == target[r]
           label == IF active[t] THEN "probe" ELSE "suspend"
<1>0. /\ Alike /\ FrameShape' /\ frames' = frames
      /\ rpc[r] = "lock" /\ t \in Targets
      /\ mutex[t] = NoOne /\ mutex' = [mutex EXCEPT ![t] = r]
      /\ active' = [active EXCEPT ![t] = TRUE]
      /\ UNCHANGED <<coop, suspended, exited, ghosts>>
  BY FramesKept DEF IInv, CallShape, Lock
<1>1. Moves(r, label)
  BY GotoMoves DEF IInv, Lock, Rpcs
<1>2. TypeOK'
  BY <1>0, <1>1 DEF IInv, TypeOK, Moves, coop, ghosts
<1>3. SlotExact'
  BY <1>0, SlotsKept DEF IInv, coop
<1>4. CallShape'
  BY <1>0, <1>1, CallsKept DEF IInv, CallShape, Rpcs, coop
<1>5. StackLocked'
  BY <1>0, <1>1, ExceptionAssumption, SMTT(30)
     DEF IInv, TypeOK, StackLocked, Moves, Delivering, Suspending
<1>6. TopClear'
  <2>1. \A u \in Targets : ~active'[u] => ~active[u]
    BY <1>0 DEF IInv, TypeOK
  <2>2. \A s \in Raisers \ {r} : rpc'[s] = rpc[s] /\ target'[s] = target[s]
    BY <1>1 DEF IInv, TypeOK, Moves
  <2>3. rpc'[r] = label /\ target'[r] = t
    BY <1>1 DEF IInv, TypeOK, Moves
  <2>4. ~active[t] => NoExc(t)
    BY <1>0 DEF IInv, TopClear
  <2>5. QED
    BY <1>0, <2>1, <2>2, <2>3, <2>4 DEF IInv, TopClear, NoExc, Top
<1>7. CountExact'
  BY <1>0, <1>1, AtKept, CountedKept, CountKept DEF IInv, coop
<1>8. QED
  BY <1>0, <1>2, <1>3, <1>4, <1>5, <1>6, <1>7 DEF IInv

\* The target is suspended under the mutex; when its stack was used before, it is
\* looked at.
LEMMA SuspendStep ==
  ASSUME IInv, NEW r \in Raisers, Probe(r) \/ Suspend(r)
  PROVE  IInv'
<1> DEFINE t == target[r]
           label == IF rpc[r] = "probe" /\ Top(t).on = "exc" THEN "refuse" ELSE "redirect"
<1>0. /\ Alike /\ FrameShape' /\ frames' = frames
      /\ rpc[r] \in {"probe", "suspend"} /\ t \in Targets
      /\ suspended' = [suspended EXCEPT ![t] = TRUE]
      /\ UNCHANGED <<coop, active, mutex, exited, ghosts>>
  BY FramesKept DEF IInv, CallShape, Probe, Suspend
<1>1. Moves(r, label)
  BY GotoMoves DEF IInv, Probe, Suspend, Rpcs
<1>2. TypeOK'
  BY <1>0, <1>1 DEF IInv, TypeOK, Moves, coop, ghosts
<1>3. SlotExact'
  BY <1>0, SlotsKept DEF IInv, coop
<1>4. CallShape'
  BY <1>0, <1>1, CallsKept DEF IInv, CallShape, Rpcs, coop
<1>5. StackLocked'
  <2>1. mutex[t] = r
    BY <1>0 DEF IInv, StackLocked, Delivering, Suspending
  <2>2. QED
    BY <1>0, <1>1, <2>1, ExceptionAssumption
       DEF IInv, TypeOK, StackLocked, Moves, Delivering, Suspending
<1>6. TopClear'
  <2>1. \A u \in Targets : suspended[u] => suspended'[u]
    BY <1>0 DEF IInv, TypeOK
  <2>2. \A s \in Raisers \ {r} : rpc'[s] = rpc[s] /\ target'[s] = target[s]
    BY <1>1 DEF IInv, TypeOK, Moves
  <2>3. rpc'[r] = label /\ target'[r] = t /\ suspended'[t]
    BY <1>0, <1>1 DEF IInv, TypeOK, Moves
  <2>4. label = "redirect" => Top(t).on # "exc"
    BY <1>0, TopIsAFrame DEF IInv, TopClear, NoExc
  <2>5. \A s \in Raisers : rpc[s] = "redirect" => target[s] \in Targets
    BY DEF IInv, CallShape
  <2>6. QED
    BY <1>0, <2>1, <2>2, <2>3, <2>4, <2>5 DEF IInv, TopClear, NoExc, Top
<1>7. CountExact'
  BY <1>0, <1>1, AtKept, CountedKept, CountKept DEF IInv, coop
<1>8. QED
  BY <1>0, <1>2, <1>3, <1>4, <1>5, <1>6, <1>7 DEF IInv

\* A target that has exited is not suspended; a stack's first user takes its mark back.
LEMMA SuspendFailsStep ==
  ASSUME IInv, NEW r \in Raisers, SuspendFails(r)
  PROVE  IInv'
<1> DEFINE t == target[r]
<1>0. /\ Alike /\ FrameShape' /\ frames' = frames
      /\ rpc[r] \in {"probe", "suspend"} /\ t \in Targets
      /\ active' = [active EXCEPT ![t] = rpc[r] = "probe"]
      /\ mutex' = [mutex EXCEPT ![t] = NoOne]
      /\ UNCHANGED <<coop, suspended, exited>>
  BY FramesKept DEF IInv, CallShape, SuspendFails
<1>1. Moves(r, "idle") /\ told' \in [Raises -> {"none", "ok", "refused"}] /\ ran' = ran
  BY TellMoves DEF IInv, SuspendFails
<1>2. TypeOK'
  BY <1>0, <1>1 DEF IInv, TypeOK, Moves, coop
<1>3. SlotExact'
  BY <1>0, SlotsKept DEF IInv, coop
<1>4. CallShape'
  BY <1>0, <1>1, CallsKept DEF IInv, CallShape, Rpcs, coop
<1>a. \A s \in Raisers \ {r} : rpc[s] \in Delivering => target[s] # t
  BY <1>0, StackIsOnes DEF IInv, Delivering, Suspending
<1>b. \A s \in Raisers \ {r} : rpc'[s] = rpc[s] /\ target'[s] = target[s]
  BY <1>1 DEF IInv, TypeOK, Moves
<1>c. rpc'[r] = "idle" /\ target'[r] = NoOne
  BY <1>1 DEF IInv, TypeOK, Moves
<1>5. StackLocked'
  <2>1. ~suspended[t]
    BY <1>0 DEF IInv, StackLocked, Delivering, Suspending
  <2>2. mutex'[t] = NoOne /\ ~suspended'[t]
    BY <1>0, <2>1 DEF IInv, TypeOK
  <2>3. \A u \in Targets \ {t} : /\ mutex'[u] = mutex[u] /\ suspended'[u] = suspended[u]
                                 /\ active'[u] = active[u]
    BY <1>0 DEF IInv, TypeOK
  <2>4. QED
    BY <1>0, <1>1, <2>2, <2>3, LockGivenUp DEF IInv, Delivering
<1>6. TopClear'
  <2>1. ASSUME NEW u \in Targets, ~active'[u] PROVE NoExc(u)
    <3>1. u = t => rpc[r] = "suspend"
      BY <1>0, <2>1 DEF IInv, TypeOK
    <3>2. u # t => ~active[u]
      BY <1>0, <2>1 DEF IInv, TypeOK
    <3>3. QED
      BY <1>0, <3>1, <3>2 DEF IInv, TopClear, NoExc
  <2>2. ASSUME NEW s \in Raisers
        PROVE  /\ rpc'[s] = "suspend" => NoExc(target'[s])
               /\ rpc'[s] = "redirect" => suspended[target'[s]] /\ Top(target'[s]).on # "exc"
    <3>1. rpc'[s] \in {"suspend", "redirect"} => rpc'[s] = rpc[s] /\ target'[s] = target[s]
      BY <1>b, <1>c
    <3>2. QED
      BY <3>1 DEF IInv, TopClear
  <2>3. QED
    BY <1>0, <2>1, <2>2 DEF TopClear, NoExc, Top
<1>7. CountExact'
  BY <1>0, <1>1, AtKept, CountedKept, CountKept DEF IInv, coop
<1>8. QED
  BY <1>0, <1>2, <1>3, <1>4, <1>5, <1>6, <1>7 DEF IInv

\* The suspended target is redirected: a frame on its exception stack.
LEMMA RedirectStep ==
  ASSUME IInv, NEW r \in Raisers, Redirect(r)
  PROVE  IInv'
<1> DEFINE t == target[r]
           f == Frame("exc", raise[r], "enter")
<1>0. /\ rpc[r] = "redirect" /\ t \in Targets
      /\ frames' = [frames EXCEPT ![t] = Append(@, f)]
      /\ UNCHANGED <<coop, forced, exited, ghosts>>
  BY DEF IInv, CallShape, Redirect
<1>1. Moves(r, "wake")
  BY GotoMoves DEF IInv, Redirect, Rpcs
<1>2. f \in Frames /\ f.on = "exc" /\ f.at = "enter" /\ f.step = "load"
  BY DEF IInv, TypeOK, Frame, Frames
<1>3. /\ frames' \in [Targets -> Seq(Frames)]
      /\ Len(frames'[t]) = Len(frames[t]) + 1
      /\ DOMAIN frames'[t] = 1 .. Len(frames[t]) + 1
      /\ \A k \in DOMAIN frames'[t] :
           frames'[t][k] = IF k = Len(frames[t]) + 1 THEN f ELSE frames[t][k]
      /\ \A u \in Targets \ {t} : frames'[u] = frames[u]
  BY <1>0, <1>2, FrameIsPushed DEF IInv
<1>4. Len(frames[t]) \in Nat \ {0} /\ DOMAIN frames[t] = 1 .. Len(frames[t])
  BY <1>0, FramesType DEF IInv, FrameShape
<1>5. TypeOK'
  BY <1>0, <1>1, <1>3 DEF IInv, TypeOK, Moves, coop, forced, ghosts
<1>6. FrameShape'
  <2>1. \A k \in DOMAIN frames[t] : frames[t][k].at # "enter"
    BY <1>0, TopIsAFrame DEF IInv, FrameShape, TopClear
  <2>2. ASSUME NEW u \in Targets, u # t
        PROVE  frames'[u] = frames[u]
    BY <1>3, <2>2
  <2>3. ASSUME NEW k \in DOMAIN frames'[t]
        PROVE  /\ frames'[t][k].on = "guest" <=> k = 1
               /\ frames'[t][k].step # "load" => frames'[t][k].at \in {"pre", "post"}
               /\ frames'[t][k].at = "enter" => /\ frames'[t][k].on = "exc"
                                                /\ k = Len(frames'[t])
    <3>1. CASE k = Len(frames[t]) + 1
      BY <1>2, <1>3, <1>4, <3>1
    <3>2. CASE k \in DOMAIN frames[t] /\ k # Len(frames[t]) + 1
      BY <1>0, <1>3, <2>1, <3>2 DEF IInv, FrameShape
    <3>3. QED
      BY <1>3, <1>4, <3>1, <3>2
  <2>4. Len(frames'[t]) > 0
    BY <1>3, <1>4
  <2>5. QED
    BY <2>2, <2>3, <2>4 DEF IInv, FrameShape
<1>7. ASSUME NEW u \in Targets, NEW k \in DOMAIN frames[u]
      PROVE  k \in DOMAIN frames'[u] /\ frames'[u][k] = frames[u][k]
  BY <1>3, <1>4, SMTT(30)
<1>8. ASSUME NEW u \in Targets, NEW k \in DOMAIN frames'[u], frames'[u][k] # f
      PROVE  k \in DOMAIN frames[u] /\ frames'[u][k] = frames[u][k]
  <2>1. CASE u = t
    BY <1>3, <1>4, <1>8, <2>1, SMTT(30)
  <2>2. CASE u # t
    BY <1>3, <2>2
  <2>3. QED
    BY <2>1, <2>2
<1>9. ~Busy(f)
  BY <1>2 DEF Busy
<1>10. SlotExact'
  <2>1. \A u \in Targets : \A k \in DOMAIN frames'[u] : Busy(frames'[u][k]) =>
           k \in DOMAIN frames[u] /\ frames'[u][k] = frames[u][k]
    BY <1>8, <1>9
  <2>2. state' = state
    BY <1>0 DEF coop
  <2>3. \A u \in Targets : (state'[u] = "Running" <=>
                               \E k \in DOMAIN frames'[u] : Busy(frames'[u][k]))
    BY <1>7, <2>1, <2>2 DEF IInv, SlotExact
  <2>4. ASSUME NEW u \in Targets, NEW k \in DOMAIN frames'[u], Busy(frames'[u][k])
        PROVE  /\ ~(frames'[u][k].on = "coop" /\ frames'[u][k].step = "sub")
               /\ \A j \in DOMAIN frames'[u] : Busy(frames'[u][j]) => j = k
    BY <2>1, <2>4 DEF IInv, SlotExact
  <2>5. QED
    BY <2>3, <2>4 DEF SlotExact, Busy
<1>11. CallShape'
  BY <1>0, <1>1, CallsKept DEF IInv, CallShape, Rpcs, coop
<1>12. StackLocked'
  BY <1>0, <1>1, LocksKept DEF IInv, forced, Delivering, Suspending, Rpcs
<1>13. TopClear'
  <2>1. \A s \in Raisers \ {r} : rpc'[s] = rpc[s] /\ target'[s] = target[s]
    BY <1>1 DEF IInv, TypeOK, Moves
  <2>2. \A s \in Raisers \ {r} : rpc[s] \in Delivering =>
           target[s] \in Targets \ {t}
    BY <1>0, StackIsOnes DEF IInv, CallShape, Delivering, Suspending
  <2>3. \A s \in Raisers : rpc'[s] \in {"suspend", "redirect"} =>
           s # r /\ target'[s] = target[s] /\ target[s] \in Targets \ {t} /\ rpc[s] = rpc'[s]
    BY <1>1, <2>1, <2>2 DEF IInv, TypeOK, Moves, Delivering, Suspending
  <2>4. active[t]
    BY <1>0, ExceptionAssumption DEF IInv, StackLocked, Delivering, Suspending
  <2>5. QED
    BY <1>0, <1>3, <2>3, <2>4 DEF IInv, TopClear, NoExc, Top, forced
<1>14. CountExact'
  <2>1. Counted' = Counted
    BY <1>0, <1>2, <1>7, <1>8 DEF Counted, coop
  <2>2. QED
    BY <1>0, <1>1, <2>1, AtKept, CountKept DEF IInv, coop
<1>15. QED
  BY <1>5, <1>6, <1>10, <1>11, <1>12, <1>13, <1>14 DEF IInv

\* The target is resumed, and its stack's mutex released.
LEMMA ResumeStep ==
  ASSUME IInv, NEW r \in Raisers, Resume(r)
  PROVE  IInv'
<1> DEFINE t == target[r]
<1>0. /\ Alike /\ FrameShape' /\ frames' = frames
      /\ rpc[r] \in {"resume", "refuse"} /\ t \in Targets
      /\ suspended' = [suspended EXCEPT ![t] = FALSE]
      /\ mutex' = [mutex EXCEPT ![t] = NoOne]
      /\ UNCHANGED <<coop, active, exited>>
  BY FramesKept DEF IInv, CallShape, Resume
<1>1. Moves(r, "idle") /\ told' \in [Raises -> {"none", "ok", "refused"}] /\ ran' = ran
  BY TellMoves DEF IInv, Resume
<1>2. TypeOK'
  BY <1>0, <1>1 DEF IInv, TypeOK, Moves, coop
<1>3. SlotExact'
  BY <1>0, SlotsKept DEF IInv, coop
<1>4. CallShape'
  BY <1>0, <1>1, CallsKept DEF IInv, CallShape, Rpcs, coop
<1>5. StackLocked'
  <2>1. /\ mutex'[t] = NoOne /\ ~suspended'[t]
        /\ \A u \in Targets \ {t} : /\ mutex'[u] = mutex[u] /\ suspended'[u] = suspended[u]
                                    /\ active'[u] = active[u]
    BY <1>0 DEF IInv, TypeOK
  <2>2. QED
    BY <1>0, <1>1, <2>1, LockGivenUp DEF IInv, Delivering, Suspending
<1>6. TopClear'
  <2>1. \A s \in Raisers \ {r} : rpc[s] \in Delivering => target[s] # t
    BY <1>0, StackIsOnes DEF IInv, Delivering, Suspending
  <2>2. ASSUME NEW s \in Raisers, rpc'[s] \in {"suspend", "redirect"}
        PROVE  /\ rpc'[s] = rpc[s] /\ target'[s] = target[s]
               /\ target[s] \in Targets \ {t} /\ suspended'[target[s]] = suspended[target[s]]
    <3>1. s # r /\ rpc'[s] = rpc[s] /\ target'[s] = target[s]
      BY <1>1, <2>2 DEF IInv, TypeOK, Moves
    <3>2. target[s] \in Targets \ {t}
      BY <2>1, <2>2, <3>1 DEF IInv, CallShape, Delivering, Suspending
    <3>3. QED
      BY <1>0, <3>1, <3>2 DEF IInv, TypeOK
  <2>3. ASSUME NEW s \in Raisers
        PROVE  /\ rpc'[s] = "suspend" => NoExc(target'[s])
               /\ rpc'[s] = "redirect" => suspended'[target'[s]] /\ Top(target'[s]).on # "exc"
    BY <2>2 DEF IInv, TopClear
  <2>4. QED
    BY <1>0, <2>3 DEF IInv, TopClear, NoExc, Top
<1>7. CountExact'
  BY <1>0, <1>1, AtKept, CountedKept, CountKept DEF IInv, coop
<1>8. QED
  BY <1>0, <1>2, <1>3, <1>4, <1>5, <1>6, <1>7 DEF IInv
-------------------------------------------------------------------------------
(* The steps of targets, for any number of raisers.                        *)

\* A frame leaves its checkpoint for its sleep or its code.
LEMMA FrameGoesOn ==
  ASSUME NEW f \in Frames, NEW at \in After(f)
  PROVE  /\ Past(f, at) \in Frames /\ Past(f, at).on = f.on /\ Past(f, at).raise = f.raise
         /\ Past(f, at).step = "load" /\ Past(f, at).at \in {"run", "park"}
<1>1. at \in {"run", "park"}
  BY DEF After
<1>2. QED
  BY <1>1 DEF Past, Frame, Frames

\* A target that runs is nobody's to redirect.
LEMMA NobodyRedirects ==
  ASSUME TypeOK, CallShape, TopClear, NEW t \in Targets, Runs(t),
         NEW s \in Raisers, rpc[s] = "redirect"
  PROVE  target[s] \in Targets \ {t}
BY DEF CallShape, TopClear, Runs

\* A step of a target that leaves slots and count, and what lies on the stacks.
LEMMA QuietStep ==
  ASSUME IInv, Alike, FrameShape', frames' \in [Targets -> Seq(Frames)],
         exited' \in [Targets -> BOOLEAN], ran' \in [Raises -> Nat],
         UNCHANGED <<coop, forced, rvars, told>>
  PROVE  IInv'
<1>1. TypeOK'
  BY DEF IInv, TypeOK, coop, forced, rvars
<1>2. SlotExact'
  BY SlotsKept DEF IInv, coop
<1>3. CallShape'
  BY DEF IInv, CallShape, coop, rvars
<1>4. StackLocked'
  BY DEF IInv, StackLocked, forced, rvars
<1>5. TopClear'
  <2>0. /\ rpc' = rpc /\ target' = target /\ active' = active /\ suspended' = suspended
    BY DEF rvars, forced
  <2>1. \A t \in Targets : NoExc(t)' <=> NoExc(t)
    BY AlikeSaysTheSame DEF IInv
  <2>2. ASSUME NEW t \in Targets PROVE Top(t)'.on = Top(t).on
    BY AlikeSaysTheSame DEF IInv
  <2>3. \A s \in Raisers : rpc[s] \in {"suspend", "redirect"} => target[s] \in Targets
    BY DEF IInv, CallShape
  <2>4. \A t \in Targets : ~active[t] => NoExc(t)'
    BY <2>1 DEF IInv, TopClear
  <2>5. ASSUME NEW s \in Raisers
        PROVE  /\ rpc[s] = "suspend" => NoExc(target[s])'
               /\ rpc[s] = "redirect" => suspended[target[s]] /\ Top(target[s])'.on # "exc"
    BY <2>0, <2>1, <2>2, <2>3 DEF IInv, TopClear
  <2>6. QED
    BY <2>0, <2>4, <2>5 DEF TopClear, NoExc, Top
<1>6. CountExact'
  BY CountedKept, CountKept DEF IInv, coop, rvars, At
<1>7. QED
  BY <1>1, <1>2, <1>3, <1>4, <1>5, <1>6 DEF IInv

\* The frame on top goes on, in its wait or out of it.
LEMMA TopGoesOn ==
  ASSUME TypeOK, FrameShape, NEW t \in Targets, NEW f \in Frames, frames' = SetTop(t, f),
         f.on = Top(t).on, f.raise = Top(t).raise, f.at # "enter",
         f.step = "sub" <=> Top(t).step = "sub", f.step # "load" => f.at \in {"pre", "post"}
  PROVE  Alike /\ FrameShape' /\ frames' \in [Targets -> Seq(Frames)]
<1>1. /\ frames' \in [Targets -> Seq(Frames)]
      /\ Len(frames'[t]) = Len(frames[t])
      /\ DOMAIN frames'[t] = DOMAIN frames[t]
      /\ \A k \in DOMAIN frames[t] :
           frames'[t][k] = IF k = Len(frames[t]) THEN f ELSE frames[t][k]
      /\ \A u \in Targets \ {t} : frames'[u] = frames[u]
  BY TopChanges
<1>2. Top(t) = frames[t][Len(frames[t])]
  BY DEF Top
<1>3. Alike
  BY <1>1, <1>2 DEF Alike
<1>4. FrameShape'
  BY <1>1, <1>2 DEF FrameShape
<1>5. QED
  BY <1>1, <1>3, <1>4

\* A wait begins; its checkpoint reads the count, or claims in vain; it sleeps or wakes:
\* the frame goes on, and no handler is entered.
LEMMA WaitGoesOn ==
  ASSUME TypeOK, FrameShape, NEW t \in Targets,
         \/ \E kind \in {"cond", "addr"} : Arm(t, kind)
         \/ CheckCount(t) \/ Park(t) \/ GuestWakes(t)
         \/ ClaimRequest(t) /\ state' = state
  PROVE  /\ Alike /\ FrameShape' /\ frames' \in [Targets -> Seq(Frames)]
         /\ \A u \in Targets : \A k \in DOMAIN frames[u] :
               frames'[u][k].at = "enter" <=> frames[u][k].at = "enter"
<1>1. Top(t) \in Frames /\ (Top(t).step # "load" => Top(t).at \in {"pre", "post"})
  BY TopIsAFrame DEF FrameShape
<1>2. PICK f \in Frames :
         /\ frames' = SetTop(t, f)
         /\ f.on = Top(t).on /\ f.raise = Top(t).raise /\ f.at # "enter"
         /\ f.step = "sub" <=> Top(t).step = "sub"
         /\ f.step # "load" => f.at \in {"pre", "post"}
  <2>1. CASE \E kind \in {"cond", "addr"} : Arm(t, kind)
    <3>1. PICK kind \in {"cond", "addr"} : Arm(t, kind)
      BY <2>1
    <3> DEFINE f == [Top(t) EXCEPT !.at = "pre", !.wait = kind]
    <3>2. f \in Frames /\ f.on = Top(t).on /\ f.raise = Top(t).raise
          /\ f.at = "pre" /\ f.step = Top(t).step
      BY <1>1 DEF Frames
    <3>3. frames' = SetTop(t, f)
      BY <3>1 DEF Arm
    <3>4. QED
      BY <3>2, <3>3
  <2>2. CASE CheckCount(t) /\ queued # 0
    <3> DEFINE f == [Top(t) EXCEPT !.step = "claim"]
    <3>1. Top(t).at \in {"pre", "post"} /\ Top(t).step = "load" /\ frames' = SetTop(t, f)
      BY <2>2 DEF CheckCount
    <3>2. f \in Frames /\ f.on = Top(t).on /\ f.raise = Top(t).raise
          /\ f.at = Top(t).at /\ f.step = "claim"
      BY <1>1 DEF Frames
    <3>3. QED
      BY <3>1, <3>2
  <2>3. CASE (CheckCount(t) /\ queued = 0) \/ (ClaimRequest(t) /\ state' = state)
    <3>1. PICK at \in After(Top(t)) : frames' = SetTop(t, Past(Top(t), at))
      <4>1. CASE CheckCount(t) /\ queued = 0
        BY <4>1 DEF CheckCount
      <4>2. CASE ClaimRequest(t) /\ state' = state
        <5>1. CASE state' = [state EXCEPT ![t] = "Running"] /\ state[t] = "Queued"
          BY <4>2, <5>1 DEF TypeOK
        <5>2. QED
          BY <4>2, <5>1 DEF ClaimRequest
      <4>3. QED
        BY <2>3, <4>1, <4>2
    <3>2. Top(t).step # "sub"
      BY <2>3 DEF CheckCount, ClaimRequest
    <3>3. QED
      BY <1>1, <3>1, <3>2, FrameGoesOn
  <2>4. CASE Park(t)
    <3> DEFINE f == [Top(t) EXCEPT !.at = IF Top(t).moved THEN "post" ELSE "parked",
                                   !.moved = FALSE]
    <3>1. Top(t).at = "park" /\ frames' = SetTop(t, f)
      BY <2>4 DEF Park
    <3>2. f \in Frames /\ f.on = Top(t).on /\ f.raise = Top(t).raise
          /\ f.at \in {"post", "parked"} /\ f.step = Top(t).step
      BY <1>1 DEF Frames
    <3>3. QED
      BY <1>1, <3>1, <3>2
  <2>5. CASE GuestWakes(t)
    <3> DEFINE f == [Top(t) EXCEPT !.at = "post"]
    <3>1. frames' = SetTop(t, f)
      BY <2>5 DEF GuestWakes
    <3>2. f \in Frames /\ f.on = Top(t).on /\ f.raise = Top(t).raise
          /\ f.at = "post" /\ f.step = Top(t).step
      BY <1>1 DEF Frames
    <3>3. QED
      BY <1>1, <3>1, <3>2
  <2>6. \/ \E kind \in {"cond", "addr"} : Arm(t, kind)
        \/ CheckCount(t) /\ queued # 0
        \/ (CheckCount(t) /\ queued = 0) \/ (ClaimRequest(t) /\ state' = state)
        \/ Park(t) \/ GuestWakes(t)
    OBVIOUS
  <2>7. QED
    BY <2>1, <2>2, <2>3, <2>4, <2>5, <2>6
<1>3. Alike /\ FrameShape' /\ frames' \in [Targets -> Seq(Frames)]
  BY <1>2, TopGoesOn
<1>4. Top(t).at # "enter"
  BY <1>1 DEF Arm, CheckCount, Park, GuestWakes, ClaimRequest
<1>5. \A u \in Targets : \A k \in DOMAIN frames[u] :
         frames'[u][k].at = "enter" <=> frames[u][k].at = "enter"
  <2>1. /\ \A k \in DOMAIN frames[t] :
             frames'[t][k] = IF k = Len(frames[t]) THEN f ELSE frames[t][k]
        /\ \A u \in Targets \ {t} : frames'[u] = frames[u]
    BY <1>2, TopChanges
  <2>2. f.at # "enter" /\ frames[t][Len(frames[t])].at # "enter"
    BY <1>2, <1>4 DEF Top
  <2>3. QED
    BY <2>1, <2>2
<1>6. QED
  BY <1>3, <1>5

\* ... which leaves the invariant.
LEMMA WaitStep ==
  ASSUME IInv, NEW t \in Targets,
         \/ \E kind \in {"cond", "addr"} : Arm(t, kind)
         \/ CheckCount(t) \/ Park(t) \/ GuestWakes(t)
         \/ ClaimRequest(t) /\ state' = state
  PROVE  IInv'
<1>1. /\ exited' \in [Targets -> BOOLEAN] /\ ran' \in [Raises -> Nat]
      /\ UNCHANGED <<coop, forced, rvars, told>>
  BY DEF IInv, TypeOK, Arm, CheckCount, Park, GuestWakes, ClaimRequest, ghosts, coop
<1>2. Alike /\ FrameShape' /\ frames' \in [Targets -> Seq(Frames)]
  BY WaitGoesOn DEF IInv
<1>3. QED
  BY <1>1, <1>2, QuietStep

\* A target exits in its guest code.
LEMMA ExitStep ==
  ASSUME IInv, NEW t \in Targets, Exit(t)
  PROVE  IInv'
<1>1. Alike /\ FrameShape' /\ frames' \in [Targets -> Seq(Frames)]
  BY FramesKept DEF IInv, TypeOK, Exit
<1>2. /\ exited' \in [Targets -> BOOLEAN] /\ ran' \in [Raises -> Nat]
      /\ UNCHANGED <<coop, forced, rvars, told>>
  BY DEF IInv, TypeOK, Exit, ghosts
<1>3. QED
  BY <1>1, <1>2, QuietStep

\* What the raisers' conjuncts need of a target's step: that the target runs, and puts
\* nothing on its exception stack.
LEMMA RaisersKept ==
  ASSUME IInv, NEW t \in Targets, Runs(t), UNCHANGED <<forced, rvars>>,
         \A u \in Targets : state[u] = "Publishing" => state'[u] = "Publishing",
         \A u \in Targets \ {t} : frames'[u] = frames[u],
         NoExc(t) => NoExc(t)'
  PROVE  CallShape' /\ StackLocked' /\ TopClear'
<1>0. /\ rpc' = rpc /\ target' = target /\ raise' = raise /\ raised' = raised
      /\ active' = active /\ mutex' = mutex /\ suspended' = suspended
  BY DEF rvars, forced
<1>1. CallShape'
  BY <1>0 DEF IInv, CallShape
<1>2. StackLocked'
  BY <1>0 DEF IInv, StackLocked
<1>3. \A u \in Targets : NoExc(u) => NoExc(u)'
  BY DEF NoExc
<1>4. \A u \in Targets : ~active[u] => NoExc(u)'
  BY <1>3 DEF IInv, TopClear
<1>5. ASSUME NEW s \in Raisers
      PROVE  /\ rpc[s] = "suspend" => NoExc(target[s])'
             /\ rpc[s] = "redirect" =>
                   /\ suspended[target[s]] /\ target[s] \in Targets \ {t}
                   /\ Top(target[s]).on # "exc"
  <2>1. rpc[s] = "suspend" => target[s] \in Targets
    BY DEF IInv, CallShape
  <2>2. rpc[s] = "redirect" => target[s] \in Targets \ {t}
    BY NobodyRedirects DEF IInv
  <2>3. QED
    BY <1>0, <1>3, <2>1, <2>2 DEF IInv, TopClear
<1>6. QED
  BY <1>0, <1>1, <1>2, <1>4, <1>5 DEF TopClear, NoExc, Top

\* The target claims the request that is queued.
LEMMA ClaimStep ==
  ASSUME IInv, NEW t \in Targets, ClaimRequest(t), state[t] = "Queued"
  PROVE  IInv'
<1> DEFINE f == [Top(t) EXCEPT !.step = "sub"]
<1>0. /\ Runs(t) /\ Top(t).step = "claim"
      /\ state' = [state EXCEPT ![t] = "Running"] /\ frames' = SetTop(t, f)
      /\ UNCHANGED <<type, queued, forced, exited, rvars, ghosts>>
  BY DEF ClaimRequest
<1>1. /\ Len(frames[t]) \in DOMAIN frames[t] /\ Top(t) = frames[t][Len(frames[t])]
      /\ Top(t) \in Frames /\ Top(t).at \in {"pre", "post"}
  BY <1>0, TopIsAFrame DEF IInv, FrameShape
<1>2. /\ f \in Frames /\ f.on = Top(t).on /\ f.raise = Top(t).raise
      /\ f.at = Top(t).at /\ f.step = "sub"
  BY <1>1 DEF Frames
<1>3. /\ frames' \in [Targets -> Seq(Frames)]
      /\ Len(frames'[t]) = Len(frames[t])
      /\ DOMAIN frames'[t] = DOMAIN frames[t]
      /\ \A k \in DOMAIN frames[t] :
           frames'[t][k] = IF k = Len(frames[t]) THEN f ELSE frames[t][k]
      /\ \A u \in Targets \ {t} : frames'[u] = frames[u]
  BY <1>0, <1>2, TopChanges DEF IInv
<1>4. TypeOK'
  BY <1>0, <1>3 DEF IInv, TypeOK, forced, rvars, ghosts
<1>5. FrameShape'
  <2>1. ASSUME NEW k \in DOMAIN frames'[t]
        PROVE  /\ frames'[t][k].on = "guest" <=> k = 1
               /\ frames'[t][k].step # "load" => frames'[t][k].at \in {"pre", "post"}
               /\ frames'[t][k].at = "enter" => /\ frames'[t][k].on = "exc"
                                                /\ k = Len(frames'[t])
    <3>0. Top(t).on = "guest" <=> Len(frames[t]) = 1
      BY TopOfGuest DEF IInv
    <3>1. CASE k = Len(frames[t])
      <4>1. frames'[t][k] = f
        BY <1>3, <3>1
      <4>2. QED
        BY <1>1, <1>2, <3>0, <3>1, <4>1
    <3>2. CASE k # Len(frames[t])
      BY <1>3, <3>2 DEF IInv, FrameShape
    <3>3. QED
      BY <3>1, <3>2
  <2>2. Len(frames'[t]) > 0
    BY <1>3 DEF IInv, FrameShape
  <2>3. ASSUME NEW u \in Targets, u # t PROVE frames'[u] = frames[u]
    BY <1>3, <2>3
  <2>4. QED
    BY <2>1, <2>2, <2>3 DEF IInv, FrameShape
<1>6. \A k \in DOMAIN frames[t] : ~Busy(frames[t][k])
  BY DEF IInv, SlotExact
<1>7. \A u \in Targets : state'[u] = IF u = t THEN "Running" ELSE state[u]
  BY <1>0 DEF IInv, TypeOK
<1>8. SlotExact'
  <2>1. /\ state'[t] = "Running" /\ Len(frames[t]) \in DOMAIN frames'[t]
        /\ \A k \in DOMAIN frames'[t] : Busy(frames'[t][k]) <=> k = Len(frames[t])
        /\ f.on # "coop"
    BY <1>1, <1>2, <1>3, <1>6, <1>7 DEF Busy
  <2>2. \A k \in DOMAIN frames'[t] : Busy(frames'[t][k]) =>
           ~(frames'[t][k].on = "coop" /\ frames'[t][k].step = "sub")
    BY <1>3, <2>1
  <2>3. ASSUME NEW u \in Targets \ {t}
        PROVE  frames'[u] = frames[u] /\ state'[u] = state[u]
    BY <1>3, <1>7
  <2>4. QED
    BY <2>1, <2>2, <2>3 DEF IInv, SlotExact, Busy
<1>9. CallShape' /\ StackLocked' /\ TopClear'
  <2>1. NoExc(t) => NoExc(t)'
    BY <1>1, <1>2, <1>3 DEF NoExc
  <2>2. QED
    BY <1>0, <1>3, <1>7, <2>1, RaisersKept
<1>10. CountExact'
  <2>1. \E k \in DOMAIN frames'[t] : frames'[t][k].step = "sub"
    BY <1>1, <1>2, <1>3
  <2>2. \A u \in Targets : u \in Counted' <=> u \in Counted
    BY <1>3, <1>7, <2>1 DEF Counted
  <2>3. Counted' = Counted
    BY <2>2 DEF Counted
  <2>4. QED
    BY <1>0, <2>3, CountKept DEF IInv, At, rvars
<1>11. QED
  BY <1>4, <1>5, <1>8, <1>9, <1>10 DEF IInv

\* A handler that is entered is counted.
LEMMA RunsCounted ==
  ASSUME TypeOK, NEW n
  PROVE  [ran EXCEPT ![n] = @ + 1] \in [Raises -> Nat]
<1>1. CASE n \in Raises
  BY <1>1 DEF TypeOK
<1>2. CASE n \notin Raises
  BY <1>2 DEF TypeOK
<1>3. QED
  BY <1>1, <1>2

\* The frame that claimed goes on, and above it there is the handler's.
LEMMA HandlerIsPushed ==
  ASSUME TypeOK, FrameShape, NEW t \in Targets, EnterHandler(t)
  PROVE  LET n == Len(frames[t])
             h == Frame("coop", type[t], "run")
         IN \E f \in Frames :
              /\ f.on = Top(t).on /\ f.raise = Top(t).raise
              /\ f.step = "load" /\ f.at # "enter"
              /\ frames' \in [Targets -> Seq(Frames)]
              /\ Len(frames'[t]) = n + 1 /\ DOMAIN frames'[t] = 1 .. n + 1
              /\ \A k \in DOMAIN frames'[t] :
                   frames'[t][k] = IF k = n + 1 THEN h ELSE IF k = n THEN f ELSE frames[t][k]
              /\ \A u \in Targets \ {t} : frames'[u] = frames[u]
<1> DEFINE n == Len(frames[t])
           h == Frame("coop", type[t], "run")
<1>1. /\ n \in DOMAIN frames[t] /\ Top(t) = frames[t][n] /\ Top(t) \in Frames
      /\ n \in Nat /\ DOMAIN frames[t] = 1 .. n
  BY TopIsAFrame, FramesType
<1>2. PICK f \in Frames :
         /\ frames' = [frames EXCEPT ![t] = Append(SetTop(t, f)[t], h)]
         /\ f.on = Top(t).on /\ f.raise = Top(t).raise
         /\ f.step = "load" /\ f.at # "enter"
  <2>1. PICK at \in After(Top(t)) :
           frames' = [frames EXCEPT ![t] = Append(SetTop(t, Past(Top(t), at))[t], h)]
    BY DEF EnterHandler
  <2>2. QED
    BY <1>1, <2>1, FrameGoesOn
<1>3. h \in Frames /\ h.on = "coop" /\ h.at = "run" /\ h.step = "load"
  BY DEF TypeOK, Frame, Frames
<1>4. /\ frames' \in [Targets -> Seq(Frames)]
      /\ Len(frames'[t]) = n + 1 /\ DOMAIN frames'[t] = 1 .. n + 1
      /\ \A k \in DOMAIN frames'[t] :
           frames'[t][k] = IF k = n + 1 THEN h ELSE IF k = n THEN f ELSE frames[t][k]
      /\ \A u \in Targets \ {t} : frames'[u] = frames[u]
  <2> DEFINE g == [frames[t] EXCEPT ![n] = f]
  <2>1. SetTop(t, f)[t] = g
    BY DEF TypeOK, SetTop
  <2>2. /\ g \in Seq(Frames) /\ Len(g) = n
        /\ \A k \in 1 .. n : g[k] = IF k = n THEN f ELSE frames[t][k]
    BY <1>1, FramesType, ExceptSeq
  <2>3. /\ Append(g, h) \in Seq(Frames) /\ Len(Append(g, h)) = n + 1
        /\ \A k \in 1 .. n : Append(g, h)[k] = g[k]
        /\ Append(g, h)[n + 1] = h
    BY <1>3, <2>2, AppendProperties
  <2>4. frames'[t] = Append(g, h) /\ \A u \in Targets \ {t} : frames'[u] = frames[u]
    BY <1>2, <2>1 DEF TypeOK
  <2>5. frames' \in [Targets -> Seq(Frames)]
    BY <1>2, <2>1, <2>3, <2>4 DEF TypeOK
  <2>6. DOMAIN frames'[t] = 1 .. n + 1
    BY <2>3, <2>4, LenProperties
  <2>7. \A k \in 1 .. n + 1 : k = n + 1 \/ k \in 1 .. n
    BY <1>1
  <2>8. QED
    BY <1>1, <2>2, <2>3, <2>4, <2>5, <2>6, <2>7
<1>5. QED
  BY <1>2, <1>4

\* A claimed request is taken off the count, and its handler entered.
LEMMA EnterHandlerStep ==
  ASSUME IInv, NEW t \in Targets, EnterHandler(t)
  PROVE  IInv'
<1> DEFINE n == Len(frames[t])
           h == Frame("coop", type[t], "run")
<1>0. /\ Runs(t) /\ Top(t).step = "sub" /\ queued' = (queued - 1) % Modulus
      /\ UNCHANGED <<state, type, forced, exited, rvars, told>>
      /\ ran' = [ran EXCEPT ![type[t]] = @ + 1]
  BY DEF EnterHandler
<1>1. /\ n \in DOMAIN frames[t] /\ Top(t) = frames[t][n] /\ Top(t) \in Frames
      /\ n \in Nat /\ DOMAIN frames[t] = 1 .. n
  BY TopIsAFrame, FramesType DEF IInv
<1>2. PICK f \in Frames :
         /\ f.on = Top(t).on /\ f.raise = Top(t).raise /\ f.step = "load" /\ f.at # "enter"
         /\ frames' \in [Targets -> Seq(Frames)]
         /\ Len(frames'[t]) = n + 1 /\ DOMAIN frames'[t] = 1 .. n + 1
         /\ \A k \in DOMAIN frames'[t] :
              frames'[t][k] = IF k = n + 1 THEN h ELSE IF k = n THEN f ELSE frames[t][k]
         /\ \A u \in Targets \ {t} : frames'[u] = frames[u]
  BY HandlerIsPushed DEF IInv
<1>3. h \in Frames /\ h.on = "coop" /\ h.at = "run" /\ h.step = "load"
  BY DEF IInv, TypeOK, Frame, Frames
<1>4. /\ frames' \in [Targets -> Seq(Frames)]
      /\ Len(frames'[t]) = n + 1 /\ DOMAIN frames'[t] = 1 .. n + 1
      /\ \A k \in DOMAIN frames'[t] :
           frames'[t][k] = IF k = n + 1 THEN h ELSE IF k = n THEN f ELSE frames[t][k]
      /\ \A u \in Targets \ {t} : frames'[u] = frames[u]
  BY <1>2
<1>5. \A k \in DOMAIN frames'[t] : k = n + 1 \/ k = n \/ (k \in DOMAIN frames[t] /\ k < n)
  BY <1>1, <1>4
<1>6. FrameShape'
  <2>1. ASSUME NEW k \in DOMAIN frames'[t]
        PROVE  /\ frames'[t][k].on = "guest" <=> k = 1
               /\ frames'[t][k].step # "load" => frames'[t][k].at \in {"pre", "post"}
               /\ frames'[t][k].at # "enter"
    <3>0. Top(t).on = "guest" <=> n = 1
      BY TopOfGuest DEF IInv
    <3>1. CASE k = n + 1
      BY <1>1, <1>3, <1>4, <3>1
    <3>2. CASE k = n
      <4>1. frames'[t][k] = f
        BY <1>1, <1>4, <3>2
      <4>2. QED
        BY <1>2, <3>0, <3>2, <4>1
    <3>3. CASE k \in DOMAIN frames[t] /\ k < n
      BY <1>1, <1>4, <3>3 DEF IInv, FrameShape
    <3>4. QED
      BY <1>5, <3>1, <3>2, <3>3
  <2>2. Len(frames'[t]) > 0
    BY <1>1, <1>4
  <2>3. ASSUME NEW u \in Targets, u # t PROVE frames'[u] = frames[u]
    BY <1>4, <2>3
  <2>4. QED
    BY <2>1, <2>2, <2>3 DEF IInv, FrameShape
<1>7. /\ state[t] = "Running" /\ Top(t).on # "coop"
      /\ \A k \in DOMAIN frames[t] : Busy(frames[t][k]) => k = n
  BY <1>0, <1>1 DEF IInv, SlotExact, Busy
<1>8. \A k \in DOMAIN frames'[t] : Busy(frames'[t][k]) <=> k = n + 1
  <2>1. Busy(h) /\ ~Busy(f)
    BY <1>2, <1>3, <1>7 DEF Busy
  <2>2. QED
    BY <1>1, <1>4, <1>5, <1>7, <2>1
<1>9. SlotExact'
  <2>1. n + 1 \in DOMAIN frames'[t] /\ frames'[t][n + 1] = h
    BY <1>1, <1>4
  <2>2. /\ state'[t] = "Running" /\ \E k \in DOMAIN frames'[t] : Busy(frames'[t][k])
        /\ \A k \in DOMAIN frames'[t] : Busy(frames'[t][k]) =>
             /\ ~(frames'[t][k].on = "coop" /\ frames'[t][k].step = "sub")
             /\ \A j \in DOMAIN frames'[t] : Busy(frames'[t][j]) => j = k
    BY <1>0, <1>3, <1>7, <1>8, <2>1
  <2>3. ASSUME NEW u \in Targets, u # t
        PROVE  frames'[u] = frames[u] /\ state'[u] = state[u]
    BY <1>0, <1>4, <2>3
  <2>4. QED
    BY <2>2, <2>3 DEF IInv, SlotExact, Busy
<1>10. CallShape' /\ StackLocked' /\ TopClear'
  <2>1. NoExc(t) => NoExc(t)'
    BY <1>1, <1>2, <1>3, <1>4, <1>5 DEF NoExc
  <2>2. QED
    BY <1>0, <1>4, <2>1, RaisersKept
<1>11. CountExact' /\ queued' \in 0 .. Modulus - 1
  <2>1. t \in Counted
    BY <1>0, <1>1 DEF Counted
  <2>2. \A k \in DOMAIN frames'[t] : frames'[t][k].step # "sub"
    BY <1>3, <1>4, <1>8 DEF Busy
  <2>3. \A u \in Targets : u \in Counted' <=> u \in Counted /\ u # t
    BY <1>0, <1>4, <1>7, <2>2 DEF Counted
  <2>4. Counted' = Counted \ {t}
    BY <2>3 DEF Counted
  <2>5. Cardinality(Counted)' = Cardinality(Counted) - 1
    BY <2>1, <2>4, CountedIsFinite, FS_RemoveElement
  <2>6. At("sub")' = At("sub") /\ At("add")' = At("add")
    BY <1>0 DEF At, rvars
  <2>7. Due' = Due - 1
    BY <2>5, <2>6, CountedIsFinite, AtIsFinite DEF Due
  <2>8. Congruent((queued - 1) % Modulus, Due - 1) /\ queued' \in 0 .. Modulus - 1
    BY <1>0, DueIsInt, CountDown DEF IInv, TypeOK, CountExact
  <2>9. QED
    BY <1>0, <2>7, <2>8 DEF CountExact, Congruent
<1>12. TypeOK'
  <2>1. ran' \in [Raises -> Nat]
    BY <1>0, RunsCounted DEF IInv
  <2>2. QED
    BY <1>0, <1>4, <1>11, <2>1 DEF IInv, TypeOK, forced, rvars
<1>13. QED
  BY <1>6, <1>9, <1>10, <1>11, <1>12 DEF IInv

\* A redirected target enters its handler.
LEMMA EnterForcedStep ==
  ASSUME IInv, NEW t \in Targets, EnterForced(t)
  PROVE  IInv'
<1> DEFINE f == [Top(t) EXCEPT !.at = "run"]
<1>0. /\ Top(t).at = "enter" /\ frames' = SetTop(t, f)
      /\ ran' = [ran EXCEPT ![Top(t).raise] = @ + 1]
      /\ UNCHANGED <<coop, forced, exited, rvars, told>>
  BY DEF EnterForced
<1>1. Top(t) \in Frames /\ (Top(t).step # "load" => Top(t).at \in {"pre", "post"})
  BY TopIsAFrame DEF IInv, FrameShape
<1>2. f \in Frames /\ f.on = Top(t).on /\ f.raise = Top(t).raise
      /\ f.at = "run" /\ f.step = Top(t).step
  BY <1>1 DEF Frames
<1>3. Alike /\ FrameShape' /\ frames' \in [Targets -> Seq(Frames)]
  BY <1>0, <1>1, <1>2, TopGoesOn DEF IInv
<1>4. exited' \in [Targets -> BOOLEAN] /\ ran' \in [Raises -> Nat]
  BY <1>0, RunsCounted DEF IInv, TypeOK
<1>5. QED
  BY <1>0, <1>3, <1>4, QuietStep

\* A handler returns; a cooperative one frees the slot.
LEMMA HandlerReturnsStep ==
  ASSUME IInv, NEW t \in Targets, HandlerReturns(t)
  PROVE  IInv'
<1> DEFINE n == Len(frames[t])
<1>0. /\ Runs(t) /\ n > 1 /\ Top(t).at = "run"
      /\ frames' = [frames EXCEPT ![t] = SubSeq(@, 1, n - 1)]
      /\ UNCHANGED <<type, queued, forced, exited, rvars, ghosts>>
  BY DEF HandlerReturns
<1>1. /\ n \in DOMAIN frames[t] /\ Top(t) = frames[t][n] /\ Top(t) \in Frames
      /\ n \in Nat /\ DOMAIN frames[t] = 1 .. n
  BY TopIsAFrame, FramesType DEF IInv
<1>2. Top(t).step = "load"
  BY <1>0, <1>1 DEF IInv, FrameShape
<1>3. /\ frames' \in [Targets -> Seq(Frames)]
      /\ Len(frames'[t]) = n - 1 /\ DOMAIN frames'[t] = 1 .. n - 1
      /\ \A k \in DOMAIN frames'[t] :
           k \in DOMAIN frames[t] /\ k # n /\ frames'[t][k] = frames[t][k]
      /\ \A k \in DOMAIN frames[t] \ {n} : k \in DOMAIN frames'[t]
      /\ \A u \in Targets \ {t} : frames'[u] = frames[u]
  <2>1. /\ frames' \in [Targets -> Seq(Frames)]
        /\ Len(frames'[t]) = n - 1 /\ DOMAIN frames'[t] = 1 .. n - 1
        /\ \A k \in DOMAIN frames'[t] : frames'[t][k] = frames[t][k]
        /\ \A u \in Targets \ {t} : frames'[u] = frames[u]
    BY <1>0, FrameIsPopped DEF IInv
  <2>2. /\ \A k \in 1 .. n - 1 : k \in 1 .. n /\ k # n
        /\ \A k \in 1 .. n : k # n => k \in 1 .. n - 1
    BY <1>1
  <2>3. QED
    BY <1>1, <2>1, <2>2
<1>4. /\ \A u \in Targets \ {t} : state'[u] = state[u]
      /\ state'[t] = IF Top(t).on = "coop" THEN "Idle" ELSE state[t]
      /\ state' \in [Targets -> {"Idle", "Publishing", "Queued", "Running"}]
  BY DEF IInv, TypeOK, HandlerReturns
<1>5. TypeOK'
  BY <1>0, <1>3, <1>4 DEF IInv, TypeOK, forced, rvars, ghosts
<1>6. FrameShape'
  <2>1. ASSUME NEW k \in DOMAIN frames'[t]
        PROVE  /\ frames'[t][k].on = "guest" <=> k = 1
               /\ frames'[t][k].step # "load" => frames'[t][k].at \in {"pre", "post"}
               /\ frames'[t][k].at # "enter"
    BY <1>3 DEF IInv, FrameShape
  <2>2. Len(frames'[t]) > 0
    BY <1>0, <1>1, <1>3
  <2>3. ASSUME NEW u \in Targets, u # t PROVE frames'[u] = frames[u]
    BY <1>3, <2>3
  <2>4. QED
    BY <2>1, <2>2, <2>3 DEF IInv, FrameShape
<1>7. Top(t).on = "coop" =>
        state[t] = "Running" /\ \A k \in DOMAIN frames'[t] : ~Busy(frames'[t][k])
  <2>1. Top(t).on = "coop" => Busy(frames[t][n])
    BY <1>1 DEF Busy
  <2>2. QED
    BY <1>1, <1>3, <2>1 DEF IInv, SlotExact
<1>8. Top(t).on # "coop" => ~Busy(frames[t][n])
  BY <1>1, <1>2 DEF Busy
<1>9. SlotExact'
  <2>1. state'[t] = "Running" <=> \E k \in DOMAIN frames'[t] : Busy(frames'[t][k])
    <3>1. CASE Top(t).on = "coop"
      BY <1>4, <1>7, <3>1
    <3>2. CASE Top(t).on # "coop"
      <4>1. \A k \in DOMAIN frames[t] :
               Busy(frames[t][k]) => k \in DOMAIN frames'[t] /\ frames'[t][k] = frames[t][k]
        BY <1>3, <1>8, <3>2
      <4>2. QED
        BY <1>3, <1>4, <3>2, <4>1 DEF IInv, SlotExact
    <3>3. QED
      BY <3>1, <3>2
  <2>2. ASSUME NEW k \in DOMAIN frames'[t], Busy(frames'[t][k])
        PROVE  /\ ~(frames'[t][k].on = "coop" /\ frames'[t][k].step = "sub")
               /\ \A j \in DOMAIN frames'[t] : Busy(frames'[t][j]) => j = k
    BY <1>3, <2>2 DEF IInv, SlotExact
  <2>3. ASSUME NEW u \in Targets, u # t
        PROVE  frames'[u] = frames[u] /\ state'[u] = state[u]
    BY <1>3, <1>4, <2>3
  <2>4. QED
    BY <2>1, <2>2, <2>3 DEF IInv, SlotExact, Busy
<1>10. CallShape' /\ StackLocked' /\ TopClear'
  <2>1. NoExc(t) => NoExc(t)'
    BY <1>3 DEF NoExc
  <2>2. \A u \in Targets : state[u] = "Publishing" => state'[u] = "Publishing"
    BY <1>4, <1>7
  <2>3. QED
    BY <1>0, <1>3, <2>1, <2>2, RaisersKept
<1>11. CountExact'
  <2>1. (\E k \in DOMAIN frames'[t] : frames'[t][k].step = "sub")
          <=> \E k \in DOMAIN frames[t] : frames[t][k].step = "sub"
    BY <1>1, <1>2, <1>3
  <2>2. state'[t] = "Queued" <=> state[t] = "Queued"
    BY <1>4, <1>7
  <2>3. \A u \in Targets : u \in Counted' <=> u \in Counted
    BY <1>3, <1>4, <2>1, <2>2 DEF Counted
  <2>4. Counted' = Counted
    BY <2>3 DEF Counted
  <2>5. QED
    BY <1>0, <2>4, CountKept DEF IInv, At, rvars
<1>12. QED
  BY <1>5, <1>6, <1>9, <1>10, <1>11 DEF IInv
-------------------------------------------------------------------------------
(* The theorems, for any number of raisers.                                *)

\* The invariant holds in the initial state.
LEMMA InitIInv == Init => IInv
<1> SUFFICES ASSUME Init PROVE IInv
  OBVIOUS
<1> DEFINE g == Frame("guest", 0, "run")
<1>1. /\ g \in Frames /\ g.on = "guest" /\ g.at = "run" /\ g.step = "load"
  BY ExceptionAssumption DEF Frame, Frames
<1>2. \A t \in Targets : /\ frames[t] = <<g>> /\ frames[t] \in Seq(Frames)
                         /\ Len(frames[t]) = 1 /\ DOMAIN frames[t] = {1} /\ frames[t][1] = g
  BY <1>1 DEF Init
<1>3. Modulus \in Nat /\ Modulus > 0
  BY ExceptionAssumption, FS_CardinalityType
<1>4. TypeOK
  BY <1>2, <1>3, ExceptionAssumption DEF Init, TypeOK, Rpcs
<1>5. FrameShape
  BY <1>1, <1>2 DEF FrameShape
<1>6. SlotExact
  BY <1>1, <1>2 DEF Init, SlotExact, Busy
<1>7. CallShape
  BY DEF Init, CallShape
<1>8. StackLocked
  BY ExceptionAssumption DEF Init, StackLocked, Delivering, Suspending
<1>9. TopClear
  BY <1>1, <1>2 DEF Init, TopClear, NoExc
<1>10. CountExact
  <2>1. Counted = {}
    BY <1>1, <1>2 DEF Init, Counted
  <2>2. At("sub") = {} /\ At("add") = {}
    BY DEF Init, At
  <2>3. Due = 0
    BY <2>1, <2>2, FS_EmptySet DEF Due
  <2>4. 0 = 0 + 0 * Modulus /\ 0 \in Int
    BY <1>3
  <2>5. QED
    BY <2>3, <2>4 DEF Init, CountExact, Congruent
<1>11. QED
  BY <1>4, <1>5, <1>6, <1>7, <1>8, <1>9, <1>10 DEF IInv

\* ... and every step preserves it.
LEMMA NextIInv == IInv /\ [Next]_vars => IInv'
<1> SUFFICES ASSUME IInv, [Next]_vars PROVE IInv'
  OBVIOUS
<1>1. CASE \E r \in Raisers : RaiserStep(r)
  BY <1>1, PublishStep, QueueStep, AddStep, InterruptStep, PollStep, WithdrawStep,
     SubtractStep, LockStep, SuspendStep, SuspendFailsStep, RedirectStep, ResumeStep
     DEF RaiserStep
<1>2. CASE \E r \in Raisers : \E t \in Targets : Raise(r, t)
  BY <1>2, RaiseStep
<1>3. ASSUME NEW t \in Targets,
             \/ Checkpoint(t)
             \/ \E kind \in {"cond", "addr"} : Arm(t, kind)
             \/ GuestWakes(t) \/ HandlerReturns(t) \/ Exit(t)
      PROVE  IInv'
  <2>1. ClaimRequest(t) => state[t] = "Queued" \/ state' = state
    BY DEF ClaimRequest
  <2>2. QED
    BY <1>3, <2>1, WaitStep, ClaimStep, EnterHandlerStep, EnterForcedStep,
       HandlerReturnsStep, ExitStep DEF Checkpoint
<1>4. CASE UNCHANGED vars
  <2>1. Alike /\ FrameShape' /\ frames' \in [Targets -> Seq(Frames)]
    BY <1>4, FramesKept DEF IInv, TypeOK, vars
  <2>2. QED
    BY <1>4, <2>1, QuietStep DEF IInv, TypeOK, vars, ghosts
<1>5. QED
  BY <1>1, <1>2, <1>3, <1>4 DEF Next

\* The inductive invariant holds, for any number of raisers at a time.
THEOREM Inductive == Spec => []IInv
<1>1. QED
  BY InitIInv, NextIInv, PTL DEF Spec

\* The count is what is queued, when nobody is on the way to it, however often it
\* wrapped: the raiser that withdraws and the target that claims each take it down once.
THEOREM CountIsWhatIsQueued == Spec => []CountMatches
<1>1. IInv => CountMatches
  <2>1. SUFFICES ASSUME IInv, \A r \in Raisers : rpc[r] \notin {"add", "sub"},
                        \A t \in Targets : \A k \in DOMAIN frames[t] :
                           frames[t][k].step # "sub"
                 PROVE  queued = Cardinality({t \in Targets : state[t] = "Queued"})
    BY DEF CountMatches
  <2>2. Counted = {t \in Targets : state[t] = "Queued"}
    BY <2>1 DEF Counted
  <2>3. At("add") = {} /\ At("sub") = {}
    BY <2>1 DEF At
  <2>4. Due = Cardinality(Counted)
    BY <2>3, CountedIsFinite, FS_EmptySet DEF Due
  <2>5. queued = Due
    BY <2>1, <2>4, CountedIsFinite, CountIsExact DEF IInv, TypeOK, CountExact
  <2>6. QED
    BY <2>2, <2>4, <2>5
<1>2. QED
  BY <1>1, Inductive, PTL

\* A target is suspended only while the raise that will resume it is under way.
THEOREM SuspendedIsResumed == Spec => []SuspendedByItsRaiser
<1>1. IInv => SuspendedByItsRaiser
  BY DEF IInv, StackLocked, SuspendedByItsRaiser, Suspending, Delivering
<1>2. QED
  BY <1>1, Inductive, PTL
-------------------------------------------------------------------------------
(* One raiser at a time: what the conjuncts need of a step.                *)

Early == {"add", "interrupt", "poll", "withdraw"}
Late  == {"sub", "lock"} \union Delivering

\* A raise waits for its handler in one target.
Waits(t, n) == \E k \in DOMAIN frames[t] : \/ frames[t][k].step = "sub" /\ type[t] = n
                                           \/ frames[t][k].at = "enter" /\ frames[t][k].raise = n

\* OnItsWay is to wait in some target.
LEMMA WaitsSomewhere == \A n : OnItsWay(n) <=> \E t \in Targets : Waits(t, n)
BY DEF OnItsWay, Waits

\* ... and in no two of them, since no two have traces of the same raise.
LEMMA WaitsInOne ==
  ASSUME TracesApart, NEW n \in Raises, NEW t \in Targets, NEW u \in Targets,
         Waits(t, n), Waits(u, n)
  PROVE  t = u /\ n \in Traces(t)
<1>1. n # 0
  BY ExceptionAssumption DEF Raises
<1>2. n \in Traces(t) /\ n \in Traces(u)
  BY <1>1 DEF Waits, Traces
<1>3. QED
  BY <1>2 DEF TracesApart

\* The raise of a call is one that was made.
LEMMA CallsRaise ==
  ASSUME TypeOK, CallShape, NEW r \in Raisers, rpc[r] # "idle"
  PROVE  target[r] \in Targets /\ raise[r] \in Raises /\ raise[r] # 0 /\ raise[r] \in 1 .. raised
<1>1. target[r] \in Targets /\ raise[r] \in 1 .. raised /\ raised \in 0 .. MaxRaises
  BY DEF TypeOK, CallShape
<1>2. QED
  BY <1>1, ExceptionAssumption DEF Raises

\* No target gets another's traces if none is added,
LEMMA TracesKept ==
  ASSUME TracesApart, type' = type, raised' = raised,
         \A t \in Targets : Traces(t)' \subseteq Traces(t),
         \A r \in Raisers : rpc'[r] # "idle" =>
            /\ raise'[r] = raise[r] /\ target'[r] = target[r] /\ rpc[r] # "idle"
            /\ rpc'[r] \in {"publish", "queue"} <=> rpc[r] \in {"publish", "queue"},
         \A t \in Targets : state'[t] \in {"Queued", "Running"} =>
            /\ state[t] \in {"Queued", "Running"}
            /\ \A k \in DOMAIN frames'[t] : frames'[t][k].on = "exc" =>
                 \E j \in DOMAIN frames[t] : /\ frames[t][j].on = "exc"
                                             /\ frames[t][j].raise = frames'[t][k].raise
  PROVE  TracesApart'
<1>1. \A t \in Targets : Traces(t)' \subseteq 1 .. raised'
  BY DEF TracesApart
<1>2. \A t, u \in Targets : t # u => Traces(t)' \cap Traces(u)' = {}
  BY DEF TracesApart
<1>3. ASSUME NEW r \in Raisers
      PROVE  /\ rpc'[r] \in {"publish", "queue"} =>
                   \A t \in Targets : raise'[r] \notin Traces(t)'
             /\ rpc'[r] \notin {"idle", "publish", "queue"} => type'[target'[r]] = raise'[r]
  BY DEF TracesApart
<1>4. ASSUME NEW t \in Targets, state'[t] \in {"Queued", "Running"}
      PROVE  /\ type'[t] # 0
             /\ \A k \in DOMAIN frames'[t] :
                  frames'[t][k].on = "exc" => frames'[t][k].raise # type'[t]
  BY <1>4 DEF TracesApart
<1>5. QED
  BY <1>1, <1>2, <1>3, <1>4 DEF TracesApart

\* ... and none is, by a step that leaves what lies on the stacks.
LEMMA AlikeTraces ==
  ASSUME TracesApart, Alike, type' = type, raised' = raised,
         \A r \in Raisers : rpc'[r] # "idle" =>
            /\ raise'[r] = raise[r] /\ target'[r] = target[r] /\ rpc[r] # "idle"
            /\ rpc'[r] \in {"publish", "queue"} <=> rpc[r] \in {"publish", "queue"},
         \A t \in Targets : state'[t] \in {"Queued", "Running"} =>
                               state[t] \in {"Queued", "Running"}
  PROVE  TracesApart'
<1>1. \A t \in Targets : Traces(t)' \subseteq Traces(t)
  BY DEF Alike, Traces
<1>2. \A t \in Targets : \A k \in DOMAIN frames'[t] : frames'[t][k].on = "exc" =>
         \E j \in DOMAIN frames[t] : /\ frames[t][j].on = "exc"
                                     /\ frames[t][j].raise = frames'[t][k].raise
  BY DEF Alike
<1>3. QED
  BY <1>1, <1>2, TracesKept

\* A step that leaves what lies on the stacks leaves one frame on each exception stack.
LEMMA AlikeOneExc ==
  ASSUME TypeOK, CallShape, OneExc, Alike,
         \A r \in Raisers : rpc'[r] = "redirect" =>
            target'[r] \in Targets /\ NoExc(target'[r])
  PROVE  OneExc'
<1>1. \A t \in Targets : NoExc(t) => NoExc(t)'
  BY DEF Alike, NoExc
<1>2. \A t \in Targets : \A j, k \in DOMAIN frames'[t] :
         frames'[t][j].on = "exc" /\ frames'[t][k].on = "exc" => j = k
  BY DEF Alike, OneExc
<1>3. \A r \in Raisers : rpc'[r] = "redirect" => NoExc(target[r])'
  BY <1>1 DEF NoExc
<1>4. QED
  BY <1>2, <1>3 DEF OneExc, NoExc

\* A call that goes on tells nobody anything, and its raise waits as it did.
LEMMA HandledKept ==
  ASSUME OneRaiser, HandledOnce, NEW r \in Raisers, NEW label \in Rpcs \ {"idle"},
         TypeOK, Moves(r, label), rpc[r] # "idle", UNCHANGED ghosts,
         \A n : OnItsWay(n)' <=> OnItsWay(n),
         Pending(r)' <=> Pending(r)
  PROVE  HandledOnce'
<1>1. rpc'[r] = label /\ target'[r] = target[r] /\ raise'[r] = raise[r] /\ raised' = raised
  BY DEF TypeOK, Moves
<1>2. told' = told /\ ran' = ran
  BY DEF ghosts
<1>3. \A s \in Raisers : s = r
  BY DEF OneRaiser
<1>4. /\ told[raise[r]] = "none"
      /\ IF Pending(r) THEN ran[raise[r]] = 0 /\ ~OnItsWay(raise[r])
                       ELSE ran[raise[r]] = 1 \/ OnItsWay(raise[r])
  BY DEF HandledOnce
<1>5. ASSUME NEW s \in Raisers
      PROVE  /\ told'[raise'[s]] = "none"
             /\ IF Pending(s)' THEN ran'[raise'[s]] = 0 /\ ~OnItsWay(raise[s])'
                               ELSE ran'[raise'[s]] = 1 \/ OnItsWay(raise[s])'
  <2>1. s = r
    BY <1>3
  <2>2. OnItsWay(raise[r])' <=> OnItsWay(raise[r])
    BY <1>1 DEF OnItsWay
  <2>3. QED
    BY <1>1, <1>2, <1>4, <2>1, <2>2
<1>6. ASSUME NEW n \in Raises
      PROVE  /\ ran'[n] <= 1
             /\ OnItsWay(n)' => ran'[n] = 0
             /\ told'[n] = "ok" => ran'[n] = 1 \/ OnItsWay(n)'
             /\ told'[n] = "refused" => ran'[n] = 0 /\ ~OnItsWay(n)'
             /\ n > raised' => told'[n] = "none" /\ ran'[n] = 0
  BY <1>1, <1>2 DEF HandledOnce
<1>7. QED
  BY <1>5, <1>6 DEF HandledOnce

\* A call that ends answers for its raise: refused if it still waits, and then it never
\* runs; accepted if it does not.
LEMMA HandledTold ==
  ASSUME OneRaiser, TypeOK, CallShape, HandledOnce, NEW r \in Raisers, Moves(r, "idle"),
         rpc[r] # "idle", ran' = ran, \A n : OnItsWay(n)' <=> OnItsWay(n),
         told' = [told EXCEPT ![raise[r]] = IF Pending(r) THEN "refused" ELSE "ok"]
  PROVE  HandledOnce'
<1>1. \A s \in Raisers : rpc'[s] = "idle"
  BY DEF TypeOK, Moves, OneRaiser
<1>2. raised' = raised /\ raise[r] \in Raises /\ raise[r] \in 1 .. raised
  BY CallsRaise DEF Moves
<1>3. IF Pending(r) THEN ran[raise[r]] = 0 /\ ~OnItsWay(raise[r])
                    ELSE ran[raise[r]] = 1 \/ OnItsWay(raise[r])
  BY DEF HandledOnce
<1>4. ASSUME NEW n \in Raises
      PROVE  /\ ran'[n] <= 1
             /\ OnItsWay(n)' => ran'[n] = 0
             /\ told'[n] = "ok" => ran'[n] = 1 \/ OnItsWay(n)'
             /\ told'[n] = "refused" => ran'[n] = 0 /\ ~OnItsWay(n)'
             /\ n > raised' => told'[n] = "none" /\ ran'[n] = 0
  <2>1. CASE n # raise[r]
    <3>1. told'[n] = told[n]
      BY <1>2, <2>1 DEF TypeOK
    <3>2. QED
      BY <1>2, <3>1 DEF HandledOnce
  <2>2. CASE n = raise[r]
    <3>1. told'[n] = IF Pending(r) THEN "refused" ELSE "ok"
      BY <1>2, <2>2 DEF TypeOK
    <3>2. ~(n > raised)
      BY <1>2, <2>2 DEF TypeOK
    <3>3. OnItsWay(n)' <=> OnItsWay(n)
      OBVIOUS
    <3>4. ran'[n] <= 1 /\ (OnItsWay(n)' => ran'[n] = 0)
      BY <3>3 DEF HandledOnce
    <3>5. OnItsWay(n) <=> OnItsWay(raise[r])
      BY <2>2
    <3>6. QED
      BY <1>2, <1>3, <2>2, <3>1, <3>2, <3>3, <3>4, <3>5
  <2>3. QED
    BY <2>1, <2>2
<1>5. QED
  BY <1>1, <1>4 DEF HandledOnce
-------------------------------------------------------------------------------
(* The steps of the raiser, when there is one.                             *)

\* It moves on before it withdrew its request, or after.
LEMMA MovesOnOne ==
  ASSUME OneRaiser, IInvOne, NEW r \in Raisers, NEW label \in Early \union Late,
         Moves(r, label), rpc[r] \in Early \union Late,
         rpc[r] \in Early <=> label \in Early,
         rpc[r] \in {"wake", "resume"} <=> label \in {"wake", "resume"},
         label = "redirect" => NoExc(target[r]),
         Alike, UNCHANGED <<state, type, ghosts>>,
         \A t \in Targets : \A k \in DOMAIN frames[t] :
            frames'[t][k].at = "enter" <=> frames[t][k].at = "enter"
  PROVE  SlotsOwner' /\ OneExc' /\ TracesApart' /\ HandledOnce'
<1>0. /\ rpc'[r] = label /\ target'[r] = target[r] /\ raise'[r] = raise[r]
      /\ raised' = raised /\ \A s \in Raisers : s = r
      /\ target[r] \in Targets /\ label \in Rpcs \ {"idle", "publish", "queue"}
      /\ rpc[r] \notin {"idle", "publish", "queue"}
  BY DEF IInvOne, IInv, TypeOK, CallShape, Moves, OneRaiser, Early, Late, Delivering,
         Suspending, Rpcs
<1>1. SlotsOwner'
  <2>1. \A t \in Targets :
           /\ state[t] # "Publishing"
           /\ state[t] = "Queued" => rpc[r] \in Early /\ target[r] = t
    BY <1>0 DEF IInvOne, SlotsOwner, Early
  <2>2. rpc[r] \in Late => state[target[r]] = "Idle"
    BY DEF IInvOne, SlotsOwner, Late
  <2>3. label \in Late => rpc[r] \in Late
    BY DEF Early, Late, Delivering, Suspending
  <2>4. QED
    BY <1>0, <2>1, <2>2, <2>3 DEF SlotsOwner, Early, Late, Delivering
<1>2. OneExc'
  BY <1>0, AlikeOneExc DEF IInvOne, IInv
<1>3. TracesApart'
  BY <1>0, AlikeTraces DEF IInvOne
<1>4. HandledOnce'
  <2>1. \A n : OnItsWay(n)' <=> OnItsWay(n)
    BY AlikeRaises
  <2>2. Pending(r)' <=> Pending(r)
    <3>1. CASE label \in Early
      BY <1>0, <3>1 DEF Pending, Early
    <3>2. CASE label \notin Early
      <4>1. rpc[r] \in Late
        BY <3>2
      <4>2. label \in Late
        BY <3>2
      <4>3. state[target[r]] = "Idle" /\ state'[target'[r]] = "Idle"
        BY <1>0, <4>1 DEF IInvOne, SlotsOwner, Late
      <4>4. QED
        BY <1>0, <4>1, <4>2, <4>3 DEF Pending, Late, Delivering, Suspending
    <3>3. QED
      BY <3>1, <3>2
  <2>3. QED
    BY <1>0, <2>1, <2>2, HandledKept DEF IInvOne, IInv
<1>5. QED
  BY <1>1, <1>2, <1>3, <1>4

\* It returns, once its request is neither queued nor being published.
LEMMA ReturnsOne ==
  ASSUME OneRaiser, IInvOne, NEW r \in Raisers, Moves(r, "idle"), rpc[r] # "idle",
         state[target[r]] \notin {"Publishing", "Queued"},
         UNCHANGED <<state, type, frames, ran>>,
         told' = [told EXCEPT ![raise[r]] = IF Pending(r) THEN "refused" ELSE "ok"]
  PROVE  SlotsOwner' /\ OneExc' /\ TracesApart' /\ HandledOnce'
<1>0. /\ rpc'[r] = "idle" /\ raised' = raised /\ \A s \in Raisers : s = r
      /\ target[r] \in Targets
  BY DEF IInvOne, IInv, TypeOK, CallShape, Moves, OneRaiser
<1>1. Alike
  BY DEF Alike
<1>2. SlotsOwner'
  <2>1. \A t \in Targets : state[t] \notin {"Publishing", "Queued"}
    BY <1>0 DEF IInvOne, SlotsOwner
  <2>2. QED
    BY <1>0, <2>1 DEF SlotsOwner, Delivering, Suspending
<1>3. OneExc'
  BY <1>0, <1>1, AlikeOneExc DEF IInvOne, IInv
<1>4. TracesApart'
  BY <1>0, <1>1, AlikeTraces DEF IInvOne
<1>5. HandledOnce'
  <2>1. \A n : OnItsWay(n)' <=> OnItsWay(n)
    BY <1>1, AlikeRaises
  <2>2. QED
    BY <2>1, HandledTold DEF IInvOne, IInv
<1>6. QED
  BY <1>2, <1>3, <1>4, <1>5

\* The steps that move on.
LEMMA MovingStepOne ==
  ASSUME OneRaiser, IInvOne, NEW r \in Raisers,
         \/ Add(r) \/ Interrupt(r) \/ Wake(r) \/ Lock(r) \/ Probe(r) \/ Suspend(r)
         \/ Poll(r) /\ told' = told
         \/ Subtract(r) /\ told' = told
  PROVE  SlotsOwner' /\ OneExc' /\ TracesApart' /\ HandledOnce'
<1> DEFINE t == target[r]
<1>1. rpc[r] \in Early \union Late /\ rpc[r] # "idle" /\ t \in Targets
  BY DEF Add, Interrupt, Wake, Lock, Probe, Suspend, Poll, Subtract, Early, Late, Delivering,
         Suspending, IInvOne, IInv, CallShape
<1>2. UNCHANGED <<state, type, ghosts>>
  BY DEF Add, Interrupt, Wake, Lock, Probe, Suspend, Poll, Subtract, Tell, coop, ghosts
<1>3. /\ Alike
      /\ \A u \in Targets : \A k \in DOMAIN frames[u] :
            frames'[u][k].at = "enter" <=> frames[u][k].at = "enter"
  <2>1. CASE frames' = frames
    BY <2>1, FramesKept DEF IInvOne, IInv
  <2>2. CASE frames' = [frames EXCEPT ![t] = Interrupted(t)]
    <3>1. /\ Len(frames'[t]) = Len(frames[t])
          /\ DOMAIN frames'[t] = DOMAIN frames[t]
          /\ \A k \in DOMAIN frames[t] :
               /\ frames'[t][k].on = frames[t][k].on
               /\ frames'[t][k].raise = frames[t][k].raise
               /\ frames'[t][k].step = frames[t][k].step
               /\ \/ frames'[t][k].at = frames[t][k].at
                  \/ frames[t][k].at = "parked" /\ frames'[t][k].at = "post"
          /\ \A u \in Targets \ {t} : frames'[u] = frames[u]
      BY <1>1, <2>2, FramesAreInterrupted DEF IInvOne, IInv
    <3>2. QED
      BY <3>1 DEF Alike
  <2>3. QED
    BY <2>1, <2>2 DEF Add, Interrupt, Wake, Lock, Probe, Suspend, Poll, Subtract
<1>4. PICK label \in Early \union Late :
         /\ Moves(r, label)
         /\ rpc[r] \in Early <=> label \in Early
         /\ rpc[r] \in {"wake", "resume"} <=> label \in {"wake", "resume"}
         /\ label = "redirect" =>
              rpc[r] = "suspend" \/ (rpc[r] = "probe" /\ Top(t).on # "exc")
  <2>1. PICK label \in Early \union Late :
           /\ Goto(r, label) \/ (rpc[r] = "poll" /\ label = "poll" /\ Moves(r, label))
           /\ rpc[r] \in Early <=> label \in Early
           /\ rpc[r] \in {"wake", "resume"} <=> label \in {"wake", "resume"}
           /\ label = "redirect" =>
                rpc[r] = "suspend" \/ (rpc[r] = "probe" /\ Top(t).on # "exc")
    <3>0. /\ Early = {"add", "interrupt", "poll", "withdraw"}
          /\ Late = {"sub", "lock", "probe", "suspend", "redirect", "wake", "resume", "refuse"}
      BY DEF Early, Late, Delivering, Suspending
    <3>1. CASE Add(r)
      BY <3>0, <3>1 DEF Add
    <3>2. CASE Interrupt(r)
      BY <3>0, <3>2 DEF Interrupt
    <3>3. CASE Wake(r)
      BY <3>0, <3>3 DEF Wake
    <3>4. CASE Lock(r)
      BY <3>0, <3>4 DEF Lock
    <3>5. CASE Probe(r)
      BY <3>0, <3>5 DEF Probe
    <3>6. CASE Suspend(r)
      BY <3>0, <3>6 DEF Suspend
    <3>7. CASE Subtract(r) /\ told' = told
      <4>1. CASE Goto(r, "lock")
        BY <3>0, <3>7, <4>1 DEF Subtract
      <4>2. CASE Tell(r, "refused")
        <5>1. told[raise[r]] = "none"
          BY <1>1 DEF IInvOne, HandledOnce
        <5>2. told'[raise[r]] = "refused"
          BY <1>1, <4>2, CallsRaise DEF Tell, IInvOne, IInv, TypeOK
        <5>3. QED
          BY <3>7, <5>1, <5>2
      <4>3. QED
        BY <3>7, <4>1, <4>2 DEF Subtract
    <3>8. CASE Poll(r) /\ told' = told
      <4>1. CASE Goto(r, "withdraw")
        BY <3>0, <3>8, <4>1 DEF Poll
      <4>2. CASE spin[r] < MaxSpins /\ spin' = [spin EXCEPT ![r] = @ + 1]
                 /\ UNCHANGED <<rpc, target, raise, raised, ghosts>>
        <5>1. Moves(r, "poll")
          BY <3>8, <4>2, ExceptionAssumption DEF Poll, IInvOne, IInv, TypeOK, Moves
        <5>2. QED
          BY <3>0, <3>8, <5>1 DEF Poll
      <4>3. CASE Tell(r, "ok")
        <5>1. told[raise[r]] = "none"
          BY <1>1 DEF IInvOne, HandledOnce
        <5>2. told'[raise[r]] = "ok"
          BY <1>1, <4>3, CallsRaise DEF Tell, IInvOne, IInv, TypeOK
        <5>3. QED
          BY <3>8, <5>1, <5>2
      <4>4. QED
        BY <3>8, <4>1, <4>2, <4>3 DEF Poll
    <3>9. QED
      BY <3>1, <3>2, <3>3, <3>4, <3>5, <3>6, <3>7, <3>8
  <2>2. label \in Rpcs \ {"idle"}
    BY DEF Early, Late, Delivering, Suspending, Rpcs
  <2>3. QED
    BY <2>1, <2>2, GotoMoves DEF IInvOne, IInv
<1>5. label = "redirect" => NoExc(t)
  <2>1. rpc[r] = "suspend" => NoExc(t)
    BY DEF IInvOne, IInv, TopClear
  <2>2. rpc[r] = "probe" /\ Top(t).on # "exc" => NoExc(t)
    <3>1. SUFFICES ASSUME rpc[r] = "probe", Top(t).on # "exc" PROVE NoExc(t)
      OBVIOUS
    <3>2. state[t] = "Idle"
      BY <3>1 DEF IInvOne, SlotsOwner, Delivering
    <3>3. \A k \in DOMAIN frames[t] : frames[t][k].on # "coop"
      BY <1>1, <3>2 DEF IInvOne, IInv, SlotExact, Busy
    <3>4. Top(t).on \in {"guest", "coop", "exc"} /\ Len(frames[t]) \in DOMAIN frames[t]
          /\ Top(t) = frames[t][Len(frames[t])]
      BY <1>1, TopIsAFrame DEF IInvOne, IInv, Frames
    <3>5. Len(frames[t]) = 1
      BY <1>1, <3>1, <3>3, <3>4, TopOfGuest DEF IInvOne, IInv
    <3>6. DOMAIN frames[t] = 1 .. 1
      BY <1>1, <3>5, FramesType DEF IInvOne, IInv
    <3>7. QED
      BY <3>1, <3>4, <3>5, <3>6 DEF NoExc
  <2>3. QED
    BY <1>4, <2>1, <2>2
<1>6. QED
  BY <1>1, <1>2, <1>3, <1>4, <1>5, MovesOnOne

\* The steps that return.
LEMMA ReturningStepOne ==
  ASSUME OneRaiser, IInvOne, NEW r \in Raisers,
         \/ Publish(r) /\ state' = state /\ Tell(r, "refused")
         \/ Poll(r) /\ Tell(r, "ok")
         \/ Withdraw(r) /\ state' = state /\ Tell(r, "ok")
         \/ Subtract(r) /\ Tell(r, "refused")
         \/ SuspendFails(r) \/ Resume(r)
  PROVE  SlotsOwner' /\ OneExc' /\ TracesApart' /\ HandledOnce'
<1> DEFINE t == target[r]
<1>0. Late = {"sub", "lock", "probe", "suspend", "redirect", "wake", "resume", "refuse"}
  BY DEF Late, Delivering, Suspending
<1>1. PICK answer \in {"ok", "refused"} :
         Tell(r, answer) /\ (answer = IF Pending(r) THEN "refused" ELSE "ok")
         /\ rpc[r] # "idle" /\ state[t] \notin {"Publishing", "Queued"}
         /\ UNCHANGED <<state, type, frames>>
  <2>0. /\ rpc[r] \in Late => state[t] = "Idle"
        /\ state[t] = "Publishing" => rpc[r] = "queue"
        /\ state[t] = "Queued" => rpc[r] \in Early
    <3>1. t \in Targets
      BY DEF IInvOne, IInv, CallShape, Publish, Poll, Withdraw, Subtract, SuspendFails, Resume
    <3>2. \A s \in Raisers : s = r
      BY DEF OneRaiser
    <3>3. QED
      BY <3>1, <3>2 DEF IInvOne, SlotsOwner, Late, Early
  <2>1. CASE Publish(r) /\ state' = state /\ Tell(r, "refused")
    <3>1. (rpc[r] = "publish" /\ state[t] # "Idle") \/ rpc'[r] = "queue"
      BY <2>1 DEF Publish, Goto, IInvOne, IInv, TypeOK
    <3>2. rpc'[r] = "idle"
      BY <2>1 DEF Tell, IInvOne, IInv, TypeOK
    <3>3. QED
      BY <2>0, <2>1, <3>1, <3>2 DEF Publish, Pending, Early
  <2>2. CASE Poll(r) /\ Tell(r, "ok")
    <3>1. rpc'[r] = "idle" /\ told'[raise[r]] = "ok" /\ told[raise[r]] = "none"
      BY <2>2, CallsRaise DEF Tell, Poll, IInvOne, IInv, TypeOK, HandledOnce
    <3>2. rpc[r] = "poll" /\ state[t] # "Queued"
      BY <2>2, <3>1 DEF Poll, Goto, ghosts
    <3>3. QED
      BY <2>0, <2>2, <3>2 DEF Poll, Pending, coop
  <2>3. CASE Withdraw(r) /\ state' = state /\ Tell(r, "ok")
    <3>1. rpc'[r] = "idle"
      BY <2>3 DEF Tell, IInvOne, IInv, TypeOK
    <3>2. rpc[r] = "withdraw" /\ (state[t] # "Queued" \/ rpc'[r] = "sub")
      BY <2>3 DEF Withdraw, Goto, IInvOne, IInv, TypeOK
    <3>3. QED
      BY <2>0, <2>3, <3>1, <3>2 DEF Withdraw, Pending
  <2>4. CASE Subtract(r) /\ Tell(r, "refused")
    BY <1>0, <2>0, <2>4 DEF Subtract, Pending
  <2>5. CASE SuspendFails(r)
    BY <1>0, <2>0, <2>5 DEF SuspendFails, Pending, coop
  <2>6. CASE Resume(r)
    BY <1>0, <2>0, <2>6 DEF Resume, Pending, coop
  <2>7. QED
    BY <2>1, <2>2, <2>3, <2>4, <2>5, <2>6
<1>2. Moves(r, "idle") /\ ran' = ran /\ told' = [told EXCEPT ![raise[r]] = answer]
  BY <1>1, TellMoves DEF Tell, IInvOne, IInv
<1>3. QED
  BY <1>1, <1>2, ReturnsOne

\* A call begins with a number nobody has.
LEMMA RaiseOne ==
  ASSUME OneRaiser, IInvOne, NEW r \in Raisers, NEW t \in Targets, Raise(r, t)
  PROVE  SlotsOwner' /\ OneExc' /\ TracesApart' /\ HandledOnce'
<1>n. PICK n \in Int : n = raised + 1
  BY DEF IInvOne, IInv, TypeOK
<1>0. /\ rpc[r] = "idle" /\ rpc'[r] = "publish" /\ target'[r] = t /\ raise'[r] = n
      /\ raised' = n /\ raised < MaxRaises /\ raised \in Nat /\ n \in Raises
      /\ \A s \in Raisers : s = r
      /\ UNCHANGED <<coop, frames, ghosts>>
  BY <1>n, ExceptionAssumption DEF IInvOne, IInv, TypeOK, Raise, OneRaiser, Raises
<1>1. Alike /\ \A u \in Targets : Traces(u)' = Traces(u)
  BY <1>0 DEF Alike, Traces, coop
<1>2. SlotsOwner'
  <2>1. \A u \in Targets : state[u] \notin {"Publishing", "Queued"}
    BY <1>0 DEF IInvOne, SlotsOwner
  <2>2. QED
    BY <1>0, <2>1 DEF SlotsOwner, coop, Delivering, Suspending
<1>3. OneExc'
  BY <1>0, <1>1, AlikeOneExc DEF IInvOne, IInv
<1>4. TracesApart'
  <2>1. \A u \in Targets : Traces(u) \subseteq 1 .. raised
    BY DEF IInvOne, TracesApart
  <2>2. \A u \in Targets : Traces(u)' \subseteq 1 .. raised' /\ n \notin Traces(u)'
    BY <1>n, <1>0, <1>1, <2>1
  <2>3. \A s \in Raisers : rpc'[s] = "publish" /\ raise'[s] = n
    BY <1>0
  <2>4. \A u, v \in Targets : u # v => Traces(u)' \cap Traces(v)' = {}
    BY <1>1 DEF IInvOne, TracesApart
  <2>5. \A u \in Targets : state'[u] \in {"Queued", "Running"} =>
           /\ type'[u] # 0
           /\ \A k \in DOMAIN frames'[u] :
                frames'[u][k].on = "exc" => frames'[u][k].raise # type'[u]
    BY <1>0 DEF IInvOne, TracesApart, coop
  <2>6. QED
    BY <2>2, <2>3, <2>4, <2>5 DEF TracesApart
<1>5. HandledOnce'
  <2>1. \A m : OnItsWay(m)' <=> OnItsWay(m)
    BY <1>0, <1>1, AlikeRaises DEF coop
  <2>2. told[n] = "none" /\ ran[n] = 0
    BY <1>n, <1>0 DEF IInvOne, HandledOnce
  <2>3. ~OnItsWay(n)
    <3>1. n # 0 /\ \A u \in Targets : n \notin Traces(u)
      BY <1>n, <1>0 DEF IInvOne, TracesApart
    <3>2. QED
      BY <3>1 DEF OnItsWay, Traces
  <2>4. ASSUME NEW s \in Raisers
        PROVE  /\ Pending(s)' /\ told'[raise'[s]] = "none" /\ ran'[raise'[s]] = 0
               /\ ~OnItsWay(raise[s])'
    <3>1. OnItsWay(n)' <=> OnItsWay(n)
      BY <2>1
    <3>2. s = r /\ raise'[s] = n
      BY <1>0
    <3>3. ~OnItsWay(raise[s])'
      BY <2>3, <1>0, <3>1, <3>2 DEF OnItsWay
    <3>4. QED
      BY <1>0, <2>2, <3>2, <3>3 DEF Pending, ghosts
  <2>5. ASSUME NEW m \in Raises
        PROVE  /\ ran'[m] <= 1
               /\ OnItsWay(m)' => ran'[m] = 0
               /\ told'[m] = "ok" => ran'[m] = 1 \/ OnItsWay(m)'
               /\ told'[m] = "refused" => ran'[m] = 0 /\ ~OnItsWay(m)'
               /\ m > raised' => told'[m] = "none" /\ ran'[m] = 0
    <3>1. m > n => m > raised
      BY <1>n, <1>0 DEF Raises
    <3>2. OnItsWay(m)' <=> OnItsWay(m)
      BY <2>1
    <3>3. QED
      BY <1>0, <3>1, <3>2 DEF IInvOne, HandledOnce, ghosts
  <2>6. QED
    BY <2>4, <2>5 DEF HandledOnce
<1>6. QED
  BY <1>2, <1>3, <1>4, <1>5

\* The slot is taken, filled and, if nobody claimed the request, given back.
LEMMA PublishOne ==
  ASSUME OneRaiser, IInvOne, NEW r \in Raisers, Publish(r), rpc'[r] = "queue"
  PROVE  SlotsOwner' /\ OneExc' /\ TracesApart' /\ HandledOnce'
<1> DEFINE t == target[r]
<1>0. /\ rpc[r] = "publish" /\ t \in Targets /\ Goto(r, "queue") /\ UNCHANGED ghosts
      /\ state' = [state EXCEPT ![t] = "Publishing"] /\ state[t] = "Idle"
      /\ UNCHANGED <<type, frames>> /\ \A s \in Raisers : s = r
  BY DEF IInvOne, IInv, TypeOK, CallShape, Publish, Tell, OneRaiser
<1>1. Moves(r, "queue")
  BY <1>0, GotoMoves DEF IInvOne, IInv, Rpcs
<1>2. rpc'[r] = "queue" /\ target'[r] = t /\ raise'[r] = raise[r] /\ raised' = raised
  BY <1>1 DEF IInvOne, IInv, TypeOK, Moves
<1>3. \A u \in Targets : state'[u] = IF u = t THEN "Publishing" ELSE state[u]
  BY <1>0 DEF IInvOne, IInv, TypeOK
<1>4. Alike
  BY <1>0 DEF Alike
<1>5. SlotsOwner'
  <2>1. \A u \in Targets : state[u] \notin {"Publishing", "Queued"}
    BY <1>0 DEF IInvOne, SlotsOwner
  <2>2. QED
    BY <1>0, <1>2, <1>3, <2>1 DEF SlotsOwner, Delivering, Suspending
<1>6. OneExc'
  BY <1>0, <1>2, <1>4, AlikeOneExc DEF IInvOne, IInv
<1>7. TracesApart'
  BY <1>0, <1>2, <1>3, <1>4, AlikeTraces DEF IInvOne
<1>8. HandledOnce'
  <2>1. \A n : OnItsWay(n)' <=> OnItsWay(n)
    BY <1>0, <1>4, AlikeRaises
  <2>2. Pending(r)' <=> Pending(r)
    BY <1>0, <1>2 DEF Pending
  <2>3. QED
    BY <1>0, <1>1, <2>1, <2>2, HandledKept DEF IInvOne, IInv, Rpcs
<1>9. QED
  BY <1>5, <1>6, <1>7, <1>8

\* The slot gets the number of the raise, which nobody else has.
LEMMA QueueOne ==
  ASSUME OneRaiser, IInvOne, NEW r \in Raisers, Queue(r)
  PROVE  SlotsOwner' /\ OneExc' /\ TracesApart' /\ HandledOnce'
<1>t. PICK t \in Targets : t = target[r]
  BY DEF IInvOne, IInv, CallShape, Queue
<1>0. /\ rpc[r] = "queue" /\ t \in Targets /\ UNCHANGED ghosts
      /\ state[t] = "Publishing" /\ frames' = frames
      /\ state' = [state EXCEPT ![t] = "Queued"] /\ type' = [type EXCEPT ![t] = raise[r]]
      /\ \A s \in Raisers : s = r
      /\ raise[r] \in 1 .. raised /\ raise[r] \in Raises /\ raise[r] # 0
  BY <1>t, CallsRaise DEF IInvOne, IInv, TypeOK, CallShape, Queue, OneRaiser
<1>1. Moves(r, "add")
  BY GotoMoves DEF IInvOne, IInv, Rpcs, Queue
<1>2. rpc'[r] = "add" /\ target'[r] = t /\ raise'[r] = raise[r] /\ raised' = raised
  BY <1>t, <1>1 DEF IInvOne, IInv, TypeOK, Moves
<1>3. \A u \in Targets : /\ state'[u] = IF u = t THEN "Queued" ELSE state[u]
                         /\ type'[u] = IF u = t THEN raise[r] ELSE type[u]
  BY <1>0 DEF IInvOne, IInv, TypeOK
<1>4. Alike
  BY <1>0 DEF Alike
<1>5. SlotsOwner'
  <2>1. \A u \in Targets \ {t} : state[u] \notin {"Publishing", "Queued"}
    BY <1>0 DEF IInvOne, SlotsOwner
  <2>2. QED
    BY <1>0, <1>2, <1>3, <2>1 DEF SlotsOwner, Delivering, Suspending
<1>6. OneExc'
  BY <1>0, <1>2, <1>4, AlikeOneExc DEF IInvOne, IInv
<1>7. TracesApart'
  <2>1. \A u \in Targets : raise[r] \notin Traces(u)
    BY <1>0 DEF IInvOne, TracesApart
  <2>2. Traces(t)' \subseteq Traces(t) \union {raise[r]}
    BY <1>0, <1>3 DEF Traces
  <2>3. \A u \in Targets \ {t} : Traces(u)' = Traces(u)
    BY <1>0, <1>3 DEF Traces
  <2>4. \A u \in Targets : Traces(u)' \subseteq 1 .. raised'
    BY <1>0, <1>2, <2>2, <2>3 DEF IInvOne, TracesApart
  <2>5. \A u, v \in Targets : u # v => Traces(u)' \cap Traces(v)' = {}
    BY <2>1, <2>2, <2>3 DEF IInvOne, TracesApart
  <2>6. \A k \in DOMAIN frames[t] : frames[t][k].raise # raise[r]
    BY <1>0, <2>1 DEF Traces
  <2>7. \A u \in Targets : state'[u] \in {"Queued", "Running"} =>
           /\ type'[u] # 0
           /\ \A k \in DOMAIN frames'[u] :
                frames'[u][k].on = "exc" => frames'[u][k].raise # type'[u]
    BY <1>0, <1>3, <2>6 DEF IInvOne, TracesApart
  <2>8. \A s \in Raisers : rpc'[s] = "add" /\ type'[target'[s]] = raise'[s]
    BY <1>0, <1>2, <1>3
  <2>9. QED
    BY <2>4, <2>5, <2>7, <2>8 DEF TracesApart
<1>8. HandledOnce'
  <2>1. \A k \in DOMAIN frames[t] : frames[t][k].step # "sub"
    BY <1>0 DEF IInvOne, IInv, SlotExact, Busy
  <2>2. ASSUME NEW n PROVE OnItsWay(n)' <=> OnItsWay(n)
    <3>1. ASSUME NEW u \in Targets PROVE Waits(u, n)' <=> Waits(u, n)
      <4>1. CASE u = t
        BY <1>0, <2>1, <4>1 DEF Waits
      <4>2. CASE u # t
        BY <1>0, <1>3, <4>2 DEF Waits
      <4>3. QED
        BY <4>1, <4>2
    <3>2. OnItsWay(n) <=> \E u \in Targets : Waits(u, n)
      BY WaitsSomewhere
    <3>3. OnItsWay(n)' <=> \E u \in Targets : Waits(u, n)'
      BY DEF OnItsWay, Waits
    <3>4. QED
      BY <3>1, <3>2, <3>3
  <2>3. Pending(r)' <=> Pending(r)
    BY <1>0, <1>2, <1>3 DEF Pending
  <2>4. QED
    BY <1>0, <1>1, <2>2, <2>3, HandledKept DEF IInvOne, IInv, Rpcs
<1>9. QED
  BY <1>5, <1>6, <1>7, <1>8

\* The slot is Idle again, and the raise still waits for its handler.
LEMMA WithdrawOne ==
  ASSUME OneRaiser, IInvOne, NEW r \in Raisers, Withdraw(r), rpc'[r] = "sub"
  PROVE  SlotsOwner' /\ OneExc' /\ TracesApart' /\ HandledOnce'
<1> DEFINE t == target[r]
<1>0. /\ rpc[r] = "withdraw" /\ t \in Targets /\ Goto(r, "sub") /\ UNCHANGED ghosts
      /\ state' = [state EXCEPT ![t] = "Idle"] /\ state[t] = "Queued"
      /\ UNCHANGED <<type, frames>> /\ \A s \in Raisers : s = r
  BY DEF IInvOne, IInv, TypeOK, CallShape, Withdraw, Tell, OneRaiser
<1>1. Moves(r, "sub")
  BY <1>0, GotoMoves DEF IInvOne, IInv, Rpcs
<1>2. rpc'[r] = "sub" /\ target'[r] = t /\ raise'[r] = raise[r] /\ raised' = raised
  BY <1>1 DEF IInvOne, IInv, TypeOK, Moves
<1>3. \A u \in Targets : state'[u] = IF u = t THEN "Idle" ELSE state[u]
  BY <1>0 DEF IInvOne, IInv, TypeOK
<1>4. Alike
  BY <1>0 DEF Alike
<1>5. SlotsOwner'
  <2>1. \A u \in Targets \ {t} : state[u] \notin {"Publishing", "Queued"}
    BY <1>0 DEF IInvOne, SlotsOwner
  <2>2. QED
    BY <1>0, <1>2, <1>3, <2>1 DEF SlotsOwner
<1>6. OneExc'
  BY <1>0, <1>2, <1>4, AlikeOneExc DEF IInvOne, IInv
<1>7. TracesApart'
  BY <1>0, <1>2, <1>3, <1>4, AlikeTraces DEF IInvOne
<1>8. HandledOnce'
  <2>1. \A n : OnItsWay(n)' <=> OnItsWay(n)
    BY <1>0, <1>4, AlikeRaises
  <2>2. Pending(r)' <=> Pending(r)
    BY <1>0, <1>2 DEF Pending
  <2>3. QED
    BY <1>0, <1>1, <2>1, <2>2, HandledKept DEF IInvOne, IInv, Rpcs
<1>9. QED
  BY <1>5, <1>6, <1>7, <1>8

\* The redirected target is on its way to the handler that was still to run.
LEMMA RedirectOne ==
  ASSUME OneRaiser, IInvOne, NEW r \in Raisers, Redirect(r)
  PROVE  SlotsOwner' /\ OneExc' /\ TracesApart' /\ HandledOnce'
<1>t. PICK t \in Targets : t = target[r]
  BY DEF IInvOne, IInv, CallShape, Redirect
<1> DEFINE f == Frame("exc", raise[r], "enter")
           n == Len(frames[t])
<1>0. /\ rpc[r] = "redirect" /\ t \in Targets /\ state[t] = "Idle" /\ NoExc(t)
      /\ type[t] = raise[r] /\ raise[r] \in Raises /\ raise[r] # 0
      /\ frames' = [frames EXCEPT ![t] = Append(@, f)]
      /\ UNCHANGED <<state, type, ghosts>> /\ \A s \in Raisers : s = r
  BY <1>t, CallsRaise DEF IInvOne, IInv, SlotsOwner, OneExc, TracesApart, Delivering, Suspending,
     OneRaiser, Redirect, coop
<1>1. Moves(r, "wake")
  BY GotoMoves DEF IInvOne, IInv, Redirect, Rpcs
<1>2. rpc'[r] = "wake" /\ target'[r] = t /\ raise'[r] = raise[r] /\ raised' = raised
  BY <1>t, <1>1 DEF IInvOne, IInv, TypeOK, Moves
<1>3. /\ f \in Frames /\ f.on = "exc" /\ f.at = "enter" /\ f.step = "load"
      /\ f.raise = raise[r]
  BY DEF IInvOne, IInv, TypeOK, Frame, Frames
<1>4. /\ DOMAIN frames'[t] = 1 .. n + 1
      /\ \A k \in DOMAIN frames'[t] :
           frames'[t][k] = IF k = n + 1 THEN f ELSE frames[t][k]
      /\ \A u \in Targets \ {t} : frames'[u] = frames[u]
  BY <1>0, <1>3, FrameIsPushed DEF IInvOne, IInv
<1>5. n \in Nat /\ DOMAIN frames[t] = 1 .. n
  BY <1>0, FramesType DEF IInvOne, IInv
<1>6. /\ \A k \in DOMAIN frames'[t] : k = n + 1 \/ k \in DOMAIN frames[t]
      /\ n + 1 \in DOMAIN frames'[t] /\ frames'[t][n + 1] = f
      /\ \A k \in DOMAIN frames[t] : k \in DOMAIN frames'[t] /\ frames'[t][k] = frames[t][k]
  BY <1>4, <1>5
<1>7. SlotsOwner'
  BY <1>0, <1>2 DEF IInvOne, SlotsOwner, Delivering, Suspending
<1>8. OneExc'
  <2>1. \A j, k \in DOMAIN frames'[t] :
           frames'[t][j].on = "exc" /\ frames'[t][k].on = "exc" => j = k
    BY <1>0, <1>6 DEF NoExc
  <2>2. \A u \in Targets \ {t} : \A j, k \in DOMAIN frames'[u] :
           frames'[u][j].on = "exc" /\ frames'[u][k].on = "exc" => j = k
    BY <1>4 DEF IInvOne, OneExc
  <2>3. \A s \in Raisers : rpc'[s] # "redirect"
    BY <1>0, <1>2
  <2>4. QED
    BY <2>1, <2>2, <2>3 DEF OneExc
<1>9. TracesApart'
  <2>1. Traces(t)' \subseteq Traces(t)
    BY <1>0, <1>3, <1>6 DEF Traces
  <2>2. \A u \in Targets \ {t} : Traces(u)' = Traces(u)
    BY <1>0, <1>4 DEF Traces
  <2>3. \A u \in Targets : Traces(u)' \subseteq Traces(u)
    BY <2>1, <2>2
  <2>4. ASSUME NEW u \in Targets, state'[u] \in {"Queued", "Running"}
        PROVE  /\ state[u] \in {"Queued", "Running"}
               /\ \A k \in DOMAIN frames'[u] : frames'[u][k].on = "exc" =>
                    \E j \in DOMAIN frames[u] : /\ frames[u][j].on = "exc"
                                                /\ frames[u][j].raise = frames'[u][k].raise
    BY <1>0, <1>4, <2>4
  <2>5. \A s \in Raisers : rpc'[s] # "idle" =>
           /\ raise'[s] = raise[s] /\ target'[s] = target[s] /\ rpc[s] # "idle"
           /\ rpc'[s] \in {"publish", "queue"} <=> rpc[s] \in {"publish", "queue"}
    BY <1>t, <1>0, <1>2
  <2>6. QED
    BY <1>0, <1>2, <2>3, <2>4, <2>5, TracesKept DEF IInvOne
<1>10. HandledOnce'
  <2>1. ASSUME NEW m
        PROVE  OnItsWay(m)' <=> OnItsWay(m) \/ m = raise[r]
    <3>1. Waits(t, m)' <=> Waits(t, m) \/ m = raise[r]
      BY <1>0, <1>2, <1>3, <1>6 DEF Waits
    <3>2. ASSUME NEW u \in Targets \ {t} PROVE Waits(u, m)' <=> Waits(u, m)
      BY <1>0, <1>4 DEF Waits
    <3>3. OnItsWay(m) <=> \E u \in Targets : Waits(u, m)
      BY WaitsSomewhere
    <3>4. OnItsWay(m)' <=> \E u \in Targets : Waits(u, m)'
      BY DEF OnItsWay, Waits
    <3>5. QED
      BY <1>0, <3>1, <3>2, <3>3, <3>4
  <2>2. /\ told[raise[r]] = "none" /\ ran[raise[r]] = 0
        /\ raise[r] \in 1 .. raised
    BY <1>0, CallsRaise DEF IInvOne, IInv, HandledOnce, Pending
  <2>3. ASSUME NEW s \in Raisers
        PROVE  /\ told'[raise'[s]] = "none" /\ ~Pending(s)' /\ OnItsWay(raise[s])'
    <3>1. s = r /\ raise'[s] = raise[r]
      BY <1>0, <1>2
    <3>2. OnItsWay(raise[s])'
      <4>1. frames'[t][n + 1].at = "enter" /\ frames'[t][n + 1].raise = raise'[s]
        BY <1>3, <1>6, <3>1
      <4>2. QED
        BY <1>0, <1>6, <4>1 DEF OnItsWay
    <3>3. ~Pending(s)'
      BY <1>0, <1>2, <3>1 DEF Pending
    <3>4. QED
      BY <1>0, <2>2, <3>1, <3>2, <3>3 DEF ghosts
  <2>4. ASSUME NEW m \in Raises
        PROVE  /\ ran'[m] <= 1
               /\ OnItsWay(m)' => ran'[m] = 0
               /\ told'[m] = "ok" => ran'[m] = 1 \/ OnItsWay(m)'
               /\ told'[m] = "refused" => ran'[m] = 0 /\ ~OnItsWay(m)'
               /\ m > raised' => told'[m] = "none" /\ ran'[m] = 0
    <3>1. told' = told /\ ran' = ran
      BY <1>0 DEF ghosts
    <3>2. OnItsWay(m)' <=> OnItsWay(m) \/ m = raise[r]
      BY <2>1
    <3>3. QED
      BY <1>2, <2>2, <3>1, <3>2 DEF IInvOne, HandledOnce
  <2>5. QED
    BY <2>3, <2>4 DEF HandledOnce
<1>11. QED
  BY <1>7, <1>8, <1>9, <1>10
-------------------------------------------------------------------------------
(* The steps of targets, when there is one raiser.                         *)

\* They wait, sleep and wake, or exit.
LEMMA QuietOne ==
  ASSUME IInvOne, Alike, UNCHANGED <<state, type, rvars, ghosts>>,
         \A t \in Targets : \A k \in DOMAIN frames[t] :
            frames'[t][k].at = "enter" <=> frames[t][k].at = "enter"
  PROVE  SlotsOwner' /\ OneExc' /\ TracesApart' /\ HandledOnce'
<1>0. /\ rpc' = rpc /\ target' = target /\ raise' = raise /\ raised' = raised
      /\ told' = told /\ ran' = ran /\ state' = state
  BY DEF rvars, ghosts
<1>1. SlotsOwner'
  BY <1>0 DEF IInvOne, SlotsOwner
<1>2. OneExc'
  BY <1>0, AlikeOneExc DEF IInvOne, IInv, CallShape, OneExc
<1>3. TracesApart'
  BY <1>0, AlikeTraces DEF IInvOne
<1>4. HandledOnce'
  <2>1. \A n : OnItsWay(n)' <=> OnItsWay(n)
    BY AlikeRaises
  <2>2. ASSUME NEW r \in Raisers PROVE OnItsWay(raise[r])' <=> OnItsWay(raise[r])
    BY <1>0, <2>1 DEF OnItsWay
  <2>3. QED
    BY <1>0, <2>1, <2>2 DEF IInvOne, HandledOnce, Pending
<1>5. QED
  BY <1>1, <1>2, <1>3, <1>4

\* The steps of a target that enter no handler and leave none.
LEMMA QuietStepsOne ==
  ASSUME IInvOne, NEW t \in Targets,
         \/ \E kind \in {"cond", "addr"} : Arm(t, kind)
         \/ CheckCount(t) \/ Park(t) \/ GuestWakes(t) \/ Exit(t)
         \/ ClaimRequest(t) /\ state' = state
  PROVE  SlotsOwner' /\ OneExc' /\ TracesApart' /\ HandledOnce'
<1>1. UNCHANGED <<state, type, rvars, ghosts>>
  BY DEF Arm, CheckCount, Park, GuestWakes, ClaimRequest, Exit, coop
<1>2. CASE Exit(t)
  <2>1. frames' = frames
    BY <1>2 DEF Exit
  <2>2. QED
    BY <1>1, <2>1, FramesKept, QuietOne DEF IInvOne, IInv
<1>3. CASE ~Exit(t)
  <2>1. /\ Alike
        /\ \A u \in Targets : \A k \in DOMAIN frames[u] :
              frames'[u][k].at = "enter" <=> frames[u][k].at = "enter"
    BY <1>3, WaitGoesOn DEF IInvOne, IInv
  <2>2. QED
    BY <1>1, <2>1, QuietOne
<1>4. QED
  BY <1>2, <1>3

\* A request that is claimed is on its way to its handler, and its raiser's to report.
LEMMA ClaimOne ==
  ASSUME OneRaiser, IInvOne, NEW t \in Targets, ClaimRequest(t), state[t] = "Queued"
  PROVE  SlotsOwner' /\ OneExc' /\ TracesApart' /\ HandledOnce'
<1> DEFINE f == [Top(t) EXCEPT !.step = "sub"]
           n == Len(frames[t])
<1>0. /\ Top(t).step = "claim" /\ frames' = SetTop(t, f)
      /\ UNCHANGED <<type, rvars, ghosts>>
      /\ \A u \in Targets : state'[u] = IF u = t THEN "Running" ELSE state[u]
  BY DEF ClaimRequest, IInvOne, IInv, TypeOK
<1>1. /\ n \in DOMAIN frames[t] /\ Top(t) = frames[t][n]
      /\ Top(t) \in Frames /\ Top(t).at \in {"pre", "post"}
  BY <1>0, TopIsAFrame DEF IInvOne, IInv, FrameShape
<1>2. /\ f \in Frames /\ f.on = Top(t).on /\ f.raise = Top(t).raise
      /\ f.at = Top(t).at /\ f.step = "sub"
  BY <1>1 DEF Frames
<1>3. /\ DOMAIN frames'[t] = DOMAIN frames[t]
      /\ \A k \in DOMAIN frames[t] : frames'[t][k] = IF k = n THEN f ELSE frames[t][k]
      /\ \A u \in Targets \ {t} : frames'[u] = frames[u]
  BY <1>0, <1>2, TopChanges DEF IInvOne, IInv
<1>4. \A k \in DOMAIN frames[t] : frames'[t][k].on = frames[t][k].on
                                  /\ frames'[t][k].raise = frames[t][k].raise
  BY <1>1, <1>2, <1>3
<1>5. /\ rpc' = rpc /\ target' = target /\ raise' = raise /\ raised' = raised
      /\ told' = told /\ ran' = ran
  BY <1>0 DEF rvars, ghosts
<1>6. PICK r \in Raisers : /\ rpc[r] \in Early /\ target[r] = t
                           /\ \A s \in Raisers : s = r
  BY DEF IInvOne, SlotsOwner, Early, OneRaiser
<1>7. type[t] = raise[r] /\ raise[r] \in Raises /\ raise[r] # 0
  BY <1>6, CallsRaise DEF IInvOne, IInv, TracesApart, Early
<1>8. SlotsOwner'
  BY <1>0, <1>5, <1>6 DEF IInvOne, SlotsOwner, Early, Delivering, Suspending
<1>9. OneExc'
  <2>1. \A s \in Raisers : rpc'[s] # "redirect"
    BY <1>5, <1>6 DEF Early
  <2>2. \A u \in Targets : \A j, k \in DOMAIN frames'[u] :
           frames'[u][j].on = "exc" /\ frames'[u][k].on = "exc" => j = k
    BY <1>3, <1>4 DEF IInvOne, OneExc
  <2>3. QED
    BY <2>1, <2>2 DEF OneExc
<1>10. TracesApart'
  <2>1. \A u \in Targets : Traces(u)' \subseteq Traces(u)
    <3>1. Traces(t)' = Traces(t)
      BY <1>0, <1>3, <1>4 DEF Traces
    <3>2. ASSUME NEW u \in Targets \ {t} PROVE Traces(u)' = Traces(u)
      BY <1>0, <1>3 DEF Traces
    <3>3. QED
      BY <3>1, <3>2
  <2>2. ASSUME NEW u \in Targets, state'[u] \in {"Queued", "Running"}
        PROVE  /\ state[u] \in {"Queued", "Running"}
               /\ \A k \in DOMAIN frames'[u] : frames'[u][k].on = "exc" =>
                    \E j \in DOMAIN frames[u] : /\ frames[u][j].on = "exc"
                                                /\ frames[u][j].raise = frames'[u][k].raise
    BY <1>0, <1>3, <1>4, <2>2
  <2>3. QED
    BY <1>0, <1>5, <2>1, <2>2, TracesKept DEF IInvOne
<1>11. HandledOnce'
  <2>1. ASSUME NEW m
        PROVE  OnItsWay(m)' <=> OnItsWay(m) \/ m = raise[r]
    <3>0. frames[t][n].step # "sub" /\ frames[t][n].at # "enter"
      BY <1>0, <1>1
    <3>1. Waits(t, m)' <=> Waits(t, m) \/ m = raise[r]
      <4>1. \A k \in DOMAIN frames[t] : frames[t][k].step # "sub" /\ frames[t][k].at # "enter"
        BY <1>0, <1>1, <3>0 DEF IInvOne, IInv, FrameShape, SlotExact, Busy
      <4>2. \A k \in DOMAIN frames'[t] : /\ frames'[t][k].step = "sub" <=> k = n
                                         /\ frames'[t][k].at # "enter"
        BY <1>1, <1>2, <1>3, <4>1
      <4>3. ~Waits(t, m)
        BY <4>1 DEF Waits
      <4>4. n \in DOMAIN frames'[t] /\ type'[t] = raise[r]
        BY <1>0, <1>1, <1>3, <1>7
      <4>5. Waits(t, m)' <=> m = raise[r]
        BY <4>2, <4>4 DEF Waits
      <4>6. QED
        BY <4>3, <4>5
    <3>2. ASSUME NEW u \in Targets \ {t} PROVE Waits(u, m)' <=> Waits(u, m)
      BY <1>0, <1>3 DEF Waits
    <3>3. OnItsWay(m) <=> \E u \in Targets : Waits(u, m)
      BY WaitsSomewhere
    <3>4. OnItsWay(m)' <=> \E u \in Targets : Waits(u, m)'
      BY DEF OnItsWay, Waits
    <3>5. QED
      BY <3>1, <3>2, <3>3, <3>4
  <2>2. /\ told[raise[r]] = "none" /\ ran[raise[r]] = 0 /\ raise[r] \in 1 .. raised
    BY <1>6, CallsRaise DEF IInvOne, IInv, HandledOnce, Pending, Early
  <2>3. ASSUME NEW s \in Raisers
        PROVE  /\ told'[raise'[s]] = "none" /\ ~Pending(s)' /\ OnItsWay(raise[s])'
    <3>1. s = r /\ raise'[s] = raise[r]
      BY <1>5, <1>6
    <3>2. OnItsWay(raise[s])'
      <4>1. /\ n \in DOMAIN frames'[t] /\ frames'[t][n].step = "sub"
            /\ type'[t] = raise'[s]
        BY <1>0, <1>1, <1>2, <1>3, <1>7, <3>1
      <4>2. QED
        BY <4>1 DEF OnItsWay
    <3>3. ~Pending(s)'
      BY <1>0, <1>5, <1>6, <3>1 DEF Pending, Early
    <3>4. QED
      BY <1>5, <2>2, <3>1, <3>2, <3>3
  <2>4. ASSUME NEW m \in Raises
        PROVE  /\ ran'[m] <= 1
               /\ OnItsWay(m)' => ran'[m] = 0
               /\ told'[m] = "ok" => ran'[m] = 1 \/ OnItsWay(m)'
               /\ told'[m] = "refused" => ran'[m] = 0 /\ ~OnItsWay(m)'
               /\ m > raised' => told'[m] = "none" /\ ran'[m] = 0
    <3>1. OnItsWay(m)' <=> OnItsWay(m) \/ m = raise[r]
      BY <2>1
    <3>2. QED
      BY <1>5, <2>2, <3>1 DEF IInvOne, HandledOnce
  <2>5. QED
    BY <2>3, <2>4 DEF HandledOnce
<1>12. QED
  BY <1>8, <1>9, <1>10, <1>11

\* A handler that was waited for is entered: its raise is handled, once.
LEMMA HandledEntered ==
  ASSUME TypeOK, CallShape, HandledOnce, UNCHANGED <<rvars, told>>, NEW n \in 0 .. raised,
         ran' = [ran EXCEPT ![n] = @ + 1], OnItsWay(n),
         \A m \in Raises : OnItsWay(m)' <=> OnItsWay(m) /\ m # n,
         \A r \in Raisers : Pending(r)' <=> Pending(r)
  PROVE  HandledOnce'
<1>0. /\ rpc' = rpc /\ target' = target /\ raise' = raise /\ raised' = raised /\ told' = told
  BY DEF rvars
<1>1. \A m \in Raises : ran'[m] = IF m = n THEN 1 ELSE ran[m]
  <2>1. ASSUME NEW m \in Raises, m = n PROVE ran'[m] = ran[m] + 1 /\ ran[m] = 0
    BY <2>1 DEF TypeOK, HandledOnce
  <2>2. ASSUME NEW m \in Raises, m # n PROVE ran'[m] = ran[m]
    BY <2>2 DEF TypeOK
  <2>3. QED
    BY <2>1, <2>2
<1>2. ASSUME NEW m \in Raises
      PROVE  /\ ran'[m] <= 1
             /\ OnItsWay(m)' => ran'[m] = 0
             /\ told'[m] = "ok" => ran'[m] = 1 \/ OnItsWay(m)'
             /\ told'[m] = "refused" => ran'[m] = 0 /\ ~OnItsWay(m)'
             /\ m > raised' => told'[m] = "none" /\ ran'[m] = 0
  <2>1. CASE m = n
    <3>1. ran'[m] = 1 /\ ~OnItsWay(m)'
      BY <1>1, <2>1
    <3>2. told[m] # "refused"
      BY <2>1 DEF HandledOnce
    <3>3. ~(m > raised)
      BY <2>1 DEF TypeOK
    <3>4. QED
      BY <1>0, <3>1, <3>2, <3>3
  <2>2. CASE m # n
    BY <1>0, <1>1, <2>2 DEF HandledOnce
  <2>3. QED
    BY <2>1, <2>2
<1>3. ASSUME NEW r \in Raisers, rpc'[r] # "idle"
      PROVE  /\ told'[raise'[r]] = "none"
             /\ IF Pending(r)' THEN ran'[raise'[r]] = 0 /\ ~OnItsWay(raise[r])'
                               ELSE ran'[raise'[r]] = 1 \/ OnItsWay(raise[r])'
  <2>1. PICK m \in Raises : m = raise[r]
    BY <1>0, <1>3, CallsRaise
  <2>2. /\ told[m] = "none"
        /\ IF Pending(r) THEN ran[m] = 0 /\ ~OnItsWay(m) ELSE ran[m] = 1 \/ OnItsWay(m)
    BY <1>0, <1>3, <2>1 DEF HandledOnce
  <2>3. IF Pending(r) THEN ran'[m] = 0 /\ ~OnItsWay(m)' ELSE ran'[m] = 1 \/ OnItsWay(m)'
    BY <1>1, <2>2
  <2>4. OnItsWay(raise[r])' <=> OnItsWay(m)'
    BY <1>0, <2>1 DEF OnItsWay
  <2>5. QED
    BY <1>0, <2>1, <2>2, <2>3, <2>4
<1>4. QED
  BY <1>2, <1>3 DEF HandledOnce

\* A target that has a claimed request enters its handler on the cooperative stack.
LEMMA EnterHandlerOne ==
  ASSUME OneRaiser, IInvOne, NEW t \in Targets, EnterHandler(t)
  PROVE  SlotsOwner' /\ OneExc' /\ TracesApart' /\ HandledOnce'
<1>n. PICK n \in Nat : n = Len(frames[t])
  BY FramesType DEF IInvOne, IInv
<1>m. PICK m \in 0 .. MaxRaises : m = type[t]
  BY DEF IInvOne, IInv, TypeOK
<1>h. PICK h \in Frames : /\ h = Frame("coop", type[t], "run") /\ h.on = "coop"
                          /\ h.at = "run" /\ h.step = "load" /\ h.raise = m
  <2> DEFINE g == Frame("coop", type[t], "run")
  <2>1. /\ g \in Frames /\ g.on = "coop" /\ g.at = "run" /\ g.step = "load" /\ g.raise = m
    BY <1>m DEF Frame, Frames
  <2>2. QED
    BY <2>1
<1>0. /\ Top(t).step = "sub" /\ UNCHANGED <<state, type, rvars, told>>
      /\ ran' = [ran EXCEPT ![m] = @ + 1]
  BY <1>m DEF EnterHandler
<1>1. /\ n \in DOMAIN frames[t] /\ Top(t) = frames[t][n] /\ DOMAIN frames[t] = 1 .. n
  BY <1>n, TopIsAFrame, FramesType DEF IInvOne, IInv
<1>2. PICK f \in Frames :
         /\ f.on = Top(t).on /\ f.raise = Top(t).raise /\ f.step = "load" /\ f.at # "enter"
         /\ DOMAIN frames'[t] = 1 .. n + 1
         /\ \A k \in DOMAIN frames'[t] :
              frames'[t][k] = IF k = n + 1 THEN h ELSE IF k = n THEN f ELSE frames[t][k]
         /\ \A u \in Targets \ {t} : frames'[u] = frames[u]
  BY <1>n, <1>h, HandlerIsPushed DEF IInvOne, IInv
<1>3. /\ \A k \in DOMAIN frames'[t] :
           \/ k = n + 1 /\ frames'[t][k] = h
           \/ k = n /\ frames'[t][k] = f
           \/ k \in DOMAIN frames[t] /\ k # n /\ frames'[t][k] = frames[t][k]
      /\ \A k \in DOMAIN frames[t] \ {n} : k \in DOMAIN frames'[t]
                                           /\ frames'[t][k] = frames[t][k]
  BY <1>1, <1>2
<1>4. /\ rpc' = rpc /\ target' = target /\ raise' = raise /\ raised' = raised
      /\ state' = state /\ type' = type
  BY <1>0 DEF rvars
<1>5. /\ state[t] = "Running" /\ m # 0
      /\ \A k \in DOMAIN frames[t] : frames[t][k].on = "exc" => frames[t][k].raise # m
      /\ \A k \in DOMAIN frames[t] \ {n} : frames[t][k].step # "sub"
  BY <1>m, <1>0, <1>1 DEF IInvOne, IInv, SlotExact, Busy, TracesApart
<1>6. SlotsOwner'
  BY <1>4 DEF IInvOne, SlotsOwner
<1>7. OneExc'
  <2>1. \A j, k \in DOMAIN frames'[t] :
           frames'[t][j].on = "exc" /\ frames'[t][k].on = "exc" => j = k
    <3>1. ASSUME NEW k \in DOMAIN frames'[t], frames'[t][k].on = "exc"
          PROVE  k \in DOMAIN frames[t] /\ frames[t][k].on = "exc"
      BY <1>h, <1>1, <1>2, <1>3, <3>1
    <3>2. QED
      BY <3>1 DEF IInvOne, OneExc
  <2>2. \A u \in Targets \ {t} : \A j, k \in DOMAIN frames'[u] :
           frames'[u][j].on = "exc" /\ frames'[u][k].on = "exc" => j = k
    BY <1>2 DEF IInvOne, OneExc
  <2>3. ASSUME NEW r \in Raisers, rpc'[r] = "redirect"
        PROVE  NoExc(target[r])'
    <3>1. target[r] \in Targets /\ state[target[r]] = "Idle" /\ NoExc(target[r])
      BY <1>4, <2>3 DEF IInvOne, IInv, CallShape, SlotsOwner, OneExc, Delivering, Suspending
    <3>2. frames'[target'[r]] = frames[target[r]]
      BY <1>2, <1>4, <1>5, <3>1
    <3>3. QED
      BY <1>4, <3>1, <3>2 DEF NoExc
  <2>4. QED
    BY <1>4, <2>1, <2>2, <2>3 DEF OneExc, NoExc
<1>8. TracesApart'
  <2>1. ASSUME NEW k \in DOMAIN frames'[t], frames'[t][k].raise # 0
        PROVE  frames'[t][k].raise \in Traces(t)
    BY <1>m, <1>h, <1>1, <1>2, <1>3, <2>1 DEF Traces
  <2>2. Traces(t)' \subseteq Traces(t)
    BY <1>4, <2>1 DEF Traces
  <2>3. ASSUME NEW u \in Targets \ {t} PROVE Traces(u)' = Traces(u)
    BY <1>2, <1>4 DEF Traces
  <2>4. \A u \in Targets : Traces(u)' \subseteq Traces(u)
    BY <2>2, <2>3
  <2>5. ASSUME NEW u \in Targets, NEW k \in DOMAIN frames'[u], frames'[u][k].on = "exc"
        PROVE  \E j \in DOMAIN frames[u] : /\ frames[u][j].on = "exc"
                                           /\ frames[u][j].raise = frames'[u][k].raise
    <3>1. CASE u = t
      <4>1. k \in DOMAIN frames'[t] /\ frames'[t][k].on = "exc"
        BY <2>5, <3>1
      <4>2. /\ k \in DOMAIN frames[t] /\ frames[t][k].on = "exc"
            /\ frames[t][k].raise = frames'[t][k].raise
        BY <1>h, <1>1, <1>2, <1>3, <4>1, SMTT(30)
      <4>3. QED
        BY <3>1, <4>2
    <3>2. CASE u # t
      BY <1>2, <2>5, <3>2
    <3>3. QED
      BY <3>1, <3>2
  <2>6. QED
    BY <1>4, <2>4, <2>5, TracesKept DEF IInvOne
<1>9. HandledOnce'
  <2>1. Waits(t, m)
    BY <1>m, <1>0, <1>1 DEF Waits
  <2>2. OnItsWay(m)
    BY <2>1, WaitsSomewhere
  <2>3. m \in Raises /\ m \in 0 .. raised
    <3>1. m \in Traces(t)
      BY <1>m, <1>5 DEF Traces
    <3>2. QED
      BY <1>5, <3>1 DEF IInvOne, TracesApart, Raises
  <2>4. \A u \in Targets \ {t} : ~Waits(u, m)
    BY <2>1, <2>3, WaitsInOne DEF IInvOne
  <2>5. \A k \in DOMAIN frames[t] : frames[t][k].at = "enter" => frames[t][k].raise # m
    BY <1>5 DEF IInvOne, IInv, FrameShape
  <2>6. ~Waits(t, m)'
    BY <1>h, <1>2, <1>3, <1>5, <2>5 DEF Waits
  <2>7. ASSUME NEW i, i # m PROVE Waits(t, i)' <=> Waits(t, i)
    <3>1. frames[t][n].at # "enter"
      BY <1>0, <1>1 DEF IInvOne, IInv, FrameShape
    <3>2. \A k \in DOMAIN frames[t] :
             /\ frames[t][k].step = "sub" => type[t] # i
             /\ frames[t][k].at = "enter" => k \in DOMAIN frames'[t]
                                             /\ frames'[t][k] = frames[t][k]
      BY <1>m, <1>3, <2>7, <3>1
    <3>3. \A k \in DOMAIN frames'[t] :
             /\ frames'[t][k].step = "sub" => type'[t] # i
             /\ frames'[t][k].at = "enter" => k \in DOMAIN frames[t]
                                              /\ frames'[t][k] = frames[t][k]
      BY <1>m, <1>h, <1>2, <1>3, <1>4, <2>7
    <3>4. QED
      BY <3>2, <3>3 DEF Waits
  <2>8. ASSUME NEW i, NEW u \in Targets \ {t} PROVE Waits(u, i)' <=> Waits(u, i)
    BY <1>2, <1>4 DEF Waits
  <2>9. ASSUME NEW i \in Raises PROVE OnItsWay(i)' <=> OnItsWay(i) /\ i # m
    <3>1. OnItsWay(i) <=> \E u \in Targets : Waits(u, i)
      BY WaitsSomewhere
    <3>2. OnItsWay(i)' <=> \E u \in Targets : Waits(u, i)'
      BY DEF OnItsWay, Waits
    <3>3. CASE i = m
      BY <2>4, <2>6, <2>8, <3>2, <3>3
    <3>4. CASE i # m
      BY <2>7, <2>8, <3>1, <3>2, <3>4
    <3>5. QED
      BY <3>3, <3>4
  <2>10. \A r \in Raisers : Pending(r)' <=> Pending(r)
    BY <1>4 DEF Pending
  <2>11. QED
    BY <1>0, <2>2, <2>3, <2>9, <2>10, HandledEntered DEF IInvOne, IInv
<1>10. QED
  BY <1>6, <1>7, <1>8, <1>9

\* A redirected target enters its handler on its exception stack.
LEMMA EnterForcedOne ==
  ASSUME OneRaiser, IInvOne, NEW t \in Targets, EnterForced(t)
  PROVE  SlotsOwner' /\ OneExc' /\ TracesApart' /\ HandledOnce'
<1>n. PICK n \in Nat : n = Len(frames[t])
  BY FramesType DEF IInvOne, IInv
<1> DEFINE f == [Top(t) EXCEPT !.at = "run"]
<1>0. /\ Top(t).at = "enter" /\ frames' = SetTop(t, f)
      /\ ran' = [ran EXCEPT ![Top(t).raise] = @ + 1]
      /\ UNCHANGED <<state, type, rvars, told>>
  BY DEF EnterForced, coop
<1>1. /\ n \in DOMAIN frames[t] /\ Top(t) = frames[t][n] /\ Top(t) \in Frames
      /\ Top(t).on = "exc" /\ Top(t).step = "load"
  BY <1>n, <1>0, TopIsAFrame DEF IInvOne, IInv, FrameShape
<1>m. PICK m \in 0 .. MaxRaises : m = Top(t).raise
  BY <1>1 DEF Frames
<1>2. /\ f \in Frames /\ f.on = Top(t).on /\ f.raise = Top(t).raise
      /\ f.at = "run" /\ f.step = Top(t).step
  BY <1>1 DEF Frames
<1>3. /\ Alike /\ DOMAIN frames'[t] = DOMAIN frames[t]
      /\ \A k \in DOMAIN frames[t] : frames'[t][k] = IF k = n THEN f ELSE frames[t][k]
      /\ \A u \in Targets \ {t} : frames'[u] = frames[u]
  <2>1. Alike
    BY <1>0, <1>1, <1>2, TopGoesOn DEF IInvOne, IInv
  <2>2. QED
    BY <1>n, <1>0, <1>2, <2>1, TopChanges DEF IInvOne, IInv
<1>4. /\ rpc' = rpc /\ target' = target /\ raise' = raise /\ raised' = raised
      /\ state' = state /\ type' = type
  BY <1>0 DEF rvars
<1>5. SlotsOwner'
  BY <1>4 DEF IInvOne, SlotsOwner
<1>6. OneExc'
  BY <1>3, <1>4, AlikeOneExc DEF IInvOne, IInv, CallShape, OneExc
<1>7. TracesApart'
  BY <1>3, <1>4, AlikeTraces DEF IInvOne
<1>8. HandledOnce'
  <2>1. Waits(t, m)
    BY <1>m, <1>0, <1>1 DEF Waits
  <2>2. OnItsWay(m)
    BY <2>1, WaitsSomewhere
  <2>3. m \in 0 .. raised
    <3>1. m = 0 \/ m \in Traces(t)
      BY <1>m, <1>1 DEF Traces
    <3>2. QED
      BY <3>1 DEF IInvOne, IInv, TypeOK, TracesApart
  <2>4. \A k \in DOMAIN frames[t] \ {n} : frames[t][k].at # "enter"
    BY <1>n DEF IInvOne, IInv, FrameShape
  <2>5. ASSUME NEW i \in Raises, i # m PROVE Waits(t, i)' <=> Waits(t, i)
    <3>1. \A k \in DOMAIN frames[t] :
             /\ frames'[t][k].step = "sub" <=> frames[t][k].step = "sub"
             /\ frames[t][k].at = "enter" => k = n
             /\ frames'[t][k].at = "enter" => FALSE
      BY <1>1, <1>2, <1>3, <2>4
    <3>2. frames[t][n].raise # i
      BY <1>m, <1>1, <2>5
    <3>3. \A k \in DOMAIN frames[t] :
             \/ frames'[t][k].step = "sub" /\ type'[t] = i
             \/ frames'[t][k].at = "enter" /\ frames'[t][k].raise = i
             <=> \/ frames[t][k].step = "sub" /\ type[t] = i
                 \/ frames[t][k].at = "enter" /\ frames[t][k].raise = i
      BY <1>4, <3>1, <3>2
    <3>4. QED
      BY <1>3, <3>3 DEF Waits
  <2>6. m \in Raises => ~Waits(t, m)' /\ \A u \in Targets \ {t} : ~Waits(u, m)
    <3>1. SUFFICES ASSUME m \in Raises
                   PROVE  ~Waits(t, m)' /\ \A u \in Targets \ {t} : ~Waits(u, m)
      OBVIOUS
    <3>2. \A u \in Targets \ {t} : ~Waits(u, m)
      BY <2>1, <3>1, WaitsInOne DEF IInvOne
    <3>3. \A k \in DOMAIN frames[t] : frames[t][k].step = "sub" => type[t] # m
      <4>1. ASSUME NEW k \in DOMAIN frames[t], frames[t][k].step = "sub"
            PROVE  state[t] = "Running"
        BY <4>1 DEF IInvOne, IInv, SlotExact, Busy
      <4>2. state[t] = "Running" => type[t] # m
        BY <1>m, <1>1 DEF IInvOne, TracesApart
      <4>3. QED
        BY <4>1, <4>2
    <3>4. \A k \in DOMAIN frames'[t] : /\ frames'[t][k].at # "enter"
                                       /\ frames'[t][k].step = "sub" => type'[t] # m
      BY <1>1, <1>2, <1>3, <1>4, <2>4, <3>3
    <3>5. QED
      BY <3>2, <3>4 DEF Waits
  <2>7. ASSUME NEW i, NEW u \in Targets \ {t} PROVE Waits(u, i)' <=> Waits(u, i)
    BY <1>3, <1>4 DEF Waits
  <2>8. ASSUME NEW i \in Raises PROVE OnItsWay(i)' <=> OnItsWay(i) /\ i # m
    <3>1. OnItsWay(i) <=> \E u \in Targets : Waits(u, i)
      BY WaitsSomewhere
    <3>2. OnItsWay(i)' <=> \E u \in Targets : Waits(u, i)'
      BY DEF OnItsWay, Waits
    <3>3. CASE i = m
      BY <2>6, <2>7, <3>2, <3>3
    <3>4. CASE i # m
      BY <2>5, <2>7, <3>1, <3>2, <3>4
    <3>5. QED
      BY <3>3, <3>4
  <2>9. \A r \in Raisers : Pending(r)' <=> Pending(r)
    BY <1>4 DEF Pending
  <2>10. QED
    BY <1>m, <1>0, <2>2, <2>3, <2>8, <2>9, HandledEntered DEF IInvOne, IInv
<1>9. QED
  BY <1>5, <1>6, <1>7, <1>8

\* A handler returns: its raise was handled, and no other waits for that frame.
LEMMA HandlerReturnsOne ==
  ASSUME OneRaiser, IInvOne, NEW t \in Targets, HandlerReturns(t)
  PROVE  SlotsOwner' /\ OneExc' /\ TracesApart' /\ HandledOnce'
<1>n. PICK n \in Nat : n = Len(frames[t])
  BY FramesType DEF IInvOne, IInv
<1>0. /\ n > 1 /\ Top(t).at = "run"
      /\ frames' = [frames EXCEPT ![t] = SubSeq(@, 1, n - 1)]
      /\ UNCHANGED <<type, rvars, ghosts>>
  BY <1>n DEF HandlerReturns
<1>1. /\ n \in DOMAIN frames[t] /\ Top(t) = frames[t][n] /\ DOMAIN frames[t] = 1 .. n
      /\ Top(t).step = "load"
  BY <1>n, <1>0, TopIsAFrame, FramesType DEF IInvOne, IInv, FrameShape
<1>2. /\ \A k \in DOMAIN frames'[t] :
           k \in DOMAIN frames[t] /\ k # n /\ frames'[t][k] = frames[t][k]
      /\ \A k \in DOMAIN frames[t] \ {n} : k \in DOMAIN frames'[t]
      /\ \A u \in Targets \ {t} : frames'[u] = frames[u]
  <2>1. /\ DOMAIN frames'[t] = 1 .. n - 1
        /\ \A k \in DOMAIN frames'[t] : frames'[t][k] = frames[t][k]
        /\ \A u \in Targets \ {t} : frames'[u] = frames[u]
    BY <1>n, <1>0, FrameIsPopped DEF IInvOne, IInv
  <2>2. /\ \A k \in 1 .. n - 1 : k \in 1 .. n /\ k # n
        /\ \A k \in 1 .. n : k # n => k \in 1 .. n - 1
    OBVIOUS
  <2>3. QED
    BY <1>1, <2>1, <2>2
<1>3. /\ \A u \in Targets \ {t} : state'[u] = state[u]
      /\ state'[t] = state[t] \/ (state[t] = "Running" /\ state'[t] = "Idle")
  <2>1. Top(t).on = "coop" => state[t] = "Running"
    BY <1>1 DEF IInvOne, IInv, SlotExact, Busy
  <2>2. QED
    BY <2>1 DEF HandlerReturns, IInvOne, IInv, TypeOK
<1>4. /\ rpc' = rpc /\ target' = target /\ raise' = raise /\ raised' = raised
      /\ type' = type /\ told' = told /\ ran' = ran
  BY <1>0 DEF rvars, ghosts
<1>5. SlotsOwner'
  <2>1. \A r \in Raisers : rpc[r] \in {"sub", "lock"} \union Delivering => target[r] \in Targets
    BY DEF IInvOne, IInv, CallShape, Delivering, Suspending
  <2>2. QED
    BY <1>3, <1>4, <2>1 DEF IInvOne, SlotsOwner
<1>6. OneExc'
  <2>1. \A u \in Targets : \A j, k \in DOMAIN frames'[u] :
           frames'[u][j].on = "exc" /\ frames'[u][k].on = "exc" => j = k
    BY <1>2 DEF IInvOne, OneExc
  <2>2. ASSUME NEW r \in Raisers, rpc'[r] = "redirect"
        PROVE  NoExc(target[r])'
    <3>1. target[r] \in Targets /\ NoExc(target[r])
      BY <1>4, <2>2 DEF IInvOne, IInv, CallShape, OneExc
    <3>2. QED
      BY <1>2, <1>4, <3>1 DEF NoExc
  <2>3. QED
    BY <1>4, <2>1, <2>2 DEF OneExc, NoExc
<1>7. TracesApart'
  <2>1. \A u \in Targets : Traces(u)' \subseteq Traces(u)
    <3>1. Traces(t)' \subseteq Traces(t)
      BY <1>2, <1>4 DEF Traces
    <3>2. ASSUME NEW u \in Targets \ {t} PROVE Traces(u)' = Traces(u)
      BY <1>2, <1>4 DEF Traces
    <3>3. QED
      BY <3>1, <3>2
  <2>2. ASSUME NEW u \in Targets, state'[u] \in {"Queued", "Running"}
        PROVE  /\ state[u] \in {"Queued", "Running"}
               /\ \A k \in DOMAIN frames'[u] : frames'[u][k].on = "exc" =>
                    \E j \in DOMAIN frames[u] : /\ frames[u][j].on = "exc"
                                                /\ frames[u][j].raise = frames'[u][k].raise
    BY <1>2, <1>3, <2>2
  <2>3. QED
    BY <1>4, <2>1, <2>2, TracesKept DEF IInvOne
<1>8. HandledOnce'
  <2>1. ASSUME NEW m PROVE OnItsWay(m)' <=> OnItsWay(m)
    <3>1. Waits(t, m)' <=> Waits(t, m)
      BY <1>0, <1>1, <1>2, <1>4 DEF Waits
    <3>2. ASSUME NEW u \in Targets \ {t} PROVE Waits(u, m)' <=> Waits(u, m)
      BY <1>2, <1>4 DEF Waits
    <3>3. OnItsWay(m) <=> \E u \in Targets : Waits(u, m)
      BY WaitsSomewhere
    <3>4. OnItsWay(m)' <=> \E u \in Targets : Waits(u, m)'
      BY DEF OnItsWay, Waits
    <3>5. QED
      BY <3>1, <3>2, <3>3, <3>4
  <2>2. ASSUME NEW r \in Raisers PROVE OnItsWay(raise[r])' <=> OnItsWay(raise[r])
    BY <1>4, <2>1 DEF OnItsWay
  <2>3. ASSUME NEW r \in Raisers, rpc[r] # "idle" PROVE Pending(r)' <=> Pending(r)
    <3>1. target[r] \in Targets
      BY <2>3 DEF IInvOne, IInv, CallShape
    <3>2. QED
      BY <1>3, <1>4, <3>1 DEF Pending
  <2>4. ASSUME NEW r \in Raisers, rpc'[r] # "idle"
        PROVE  /\ told'[raise'[r]] = "none"
               /\ IF Pending(r)' THEN ran'[raise'[r]] = 0 /\ ~OnItsWay(raise[r])'
                                 ELSE ran'[raise'[r]] = 1 \/ OnItsWay(raise[r])'
    BY <1>4, <2>2, <2>3, <2>4 DEF IInvOne, HandledOnce
  <2>5. ASSUME NEW m \in Raises
        PROVE  /\ ran'[m] <= 1
               /\ OnItsWay(m)' => ran'[m] = 0
               /\ told'[m] = "ok" => ran'[m] = 1 \/ OnItsWay(m)'
               /\ told'[m] = "refused" => ran'[m] = 0 /\ ~OnItsWay(m)'
               /\ m > raised' => told'[m] = "none" /\ ran'[m] = 0
    BY <1>4, <2>1 DEF IInvOne, HandledOnce
  <2>6. QED
    BY <2>4, <2>5 DEF HandledOnce
<1>9. QED
  BY <1>5, <1>6, <1>7, <1>8
-------------------------------------------------------------------------------
(* The theorems, for one raiser at a time.                                 *)

\* The stronger invariant holds in the initial state.
LEMMA InitIInvOne == Init => IInvOne
<1> SUFFICES ASSUME Init PROVE IInvOne
  OBVIOUS
<1> DEFINE g == Frame("guest", 0, "run")
<1>1. g.on = "guest" /\ g.at = "run" /\ g.step = "load" /\ g.raise = 0
  BY DEF Frame
<1>2. \A t \in Targets : frames[t] = <<g>> /\ DOMAIN frames[t] = {1} /\ frames[t][1] = g
  BY DEF Init
<1>3. IInv
  BY InitIInv
<1>4. SlotsOwner
  BY DEF Init, SlotsOwner, Delivering, Suspending
<1>5. OneExc
  BY <1>1, <1>2 DEF Init, OneExc
<1>6. \A t \in Targets : Traces(t) = {}
  BY <1>1, <1>2 DEF Init, Traces
<1>7. TracesApart
  BY <1>6 DEF Init, TracesApart
<1>8. HandledOnce
  <2>1. \A n : ~OnItsWay(n)
    BY <1>1, <1>2 DEF OnItsWay
  <2>2. QED
    BY <2>1 DEF Init, HandledOnce
<1>9. QED
  BY <1>3, <1>4, <1>5, <1>7, <1>8 DEF IInvOne

\* ... and every step preserves it, with one raiser.
LEMMA NextIInvOne ==
  ASSUME OneRaiser
  PROVE  IInvOne /\ [Next]_vars => IInvOne'
<1> SUFFICES ASSUME IInvOne, [Next]_vars PROVE IInvOne'
  OBVIOUS
<1>1. IInv'
  BY NextIInv DEF IInvOne
<1>2. ASSUME NEW r \in Raisers, RaiserStep(r)
      PROVE  SlotsOwner' /\ OneExc' /\ TracesApart' /\ HandledOnce'
  <2>1. CASE Publish(r)
    <3>1. CASE Tell(r, "refused") /\ UNCHANGED state
      BY <2>1, <3>1, ReturningStepOne
    <3>2. CASE Goto(r, "queue")
      <4>1. rpc'[r] = "queue"
        BY <3>2 DEF Goto, IInvOne, IInv, TypeOK
      <4>2. QED
        BY <2>1, <4>1, PublishOne
    <3>3. QED
      BY <2>1, <3>1, <3>2 DEF Publish
  <2>2. CASE Withdraw(r)
    <3>1. CASE Tell(r, "ok") /\ UNCHANGED state
      BY <2>2, <3>1, ReturningStepOne
    <3>2. CASE Goto(r, "sub")
      <4>1. rpc'[r] = "sub"
        BY <3>2 DEF Goto, IInvOne, IInv, TypeOK
      <4>2. QED
        BY <2>2, <4>1, WithdrawOne
    <3>3. QED
      BY <2>2, <3>1, <3>2 DEF Withdraw
  <2>3. CASE Poll(r)
    <3>1. Tell(r, "ok") \/ told' = told
      BY <2>3 DEF Poll, ghosts
    <3>2. QED
      BY <2>3, <3>1, ReturningStepOne, MovingStepOne
  <2>4. CASE Subtract(r)
    <3>1. Tell(r, "refused") \/ told' = told
      BY <2>4 DEF Subtract, ghosts
    <3>2. QED
      BY <2>4, <3>1, ReturningStepOne, MovingStepOne
  <2>5. QED
    BY <1>2, <2>1, <2>2, <2>3, <2>4, QueueOne, RedirectOne, ReturningStepOne, MovingStepOne
       DEF RaiserStep
<1>3. ASSUME NEW t \in Targets,
             \/ Checkpoint(t)
             \/ \E kind \in {"cond", "addr"} : Arm(t, kind)
             \/ GuestWakes(t) \/ HandlerReturns(t) \/ Exit(t)
      PROVE  SlotsOwner' /\ OneExc' /\ TracesApart' /\ HandledOnce'
  <2>1. ClaimRequest(t) => state[t] = "Queued" \/ state' = state
    BY DEF ClaimRequest
  <2>2. QED
    BY <1>3, <2>1, QuietStepsOne, ClaimOne, EnterHandlerOne, EnterForcedOne,
       HandlerReturnsOne DEF Checkpoint
<1>4. CASE UNCHANGED vars
  <2>1. frames' = frames /\ UNCHANGED <<state, type, rvars, ghosts>>
    BY <1>4 DEF vars, coop
  <2>2. QED
    BY <1>1, <2>1, FramesKept, QuietOne DEF IInvOne, IInv
<1>5. SlotsOwner' /\ OneExc' /\ TracesApart' /\ HandledOnce'
  BY <1>2, <1>3, <1>4, RaiseOne DEF Next, IInvOne
<1>6. QED
  BY <1>1, <1>5 DEF IInvOne

\* The stronger invariant, for one raiser at a time.
THEOREM InductiveOne == ASSUME OneRaiser PROVE Spec => []IInvOne
<1>1. QED
  BY InitIInvOne, NextIInvOne, PTL DEF Spec

\* Who is told 0 has its handler run, or its target on the way there; who is told an
\* error does not; and no raise is handled twice.
THEOREM RaisesAreReported == ASSUME OneRaiser PROVE Spec => []ReportIsTrue
<1>1. IInvOne => ReportIsTrue
  BY DEF IInvOne, IInv, HandledOnce, ReportIsTrue
<1>2. QED
  BY <1>1, InductiveOne, PTL

\* A forced delivery has its target's exception stack and its suspension to itself.
THEOREM ForcedHasItsTarget == ASSUME OneRaiser PROVE Spec => []ForcedIsExclusive
<1>1. IInvOne => ExcStackExclusive
  <2>1. SUFFICES ASSUME IInvOne, NEW t \in Targets
                 PROVE  Cardinality({k \in DOMAIN frames[t] : frames[t][k].on = "exc"}) <= 1
    BY DEF ExcStackExclusive
  <2> DEFINE S == {k \in DOMAIN frames[t] : frames[t][k].on = "exc"}
  <2>2. CASE S = {}
    BY <2>2, FS_EmptySet
  <2>3. CASE S # {}
    <3>1. PICK k \in S : TRUE
      BY <2>3
    <3>2. S = {k}
      <4>0. \A i, j \in DOMAIN frames[t] :
               frames[t][i].on = "exc" /\ frames[t][j].on = "exc" => i = j
        BY <2>1 DEF IInvOne, OneExc
      <4>1. \A j \in S : j = k
        BY <3>1, <4>0
      <4>2. QED
        BY <3>1, <4>1
    <3>3. Cardinality({k}) = 1
      BY FS_Singleton
    <3>4. QED
      BY <3>2, <3>3
  <2>4. QED
    BY <2>2, <2>3
<1>2. QED
  BY <1>1, InductiveOne, SuspendedIsResumed, PTL DEF ForcedIsExclusive
===============================================================================
