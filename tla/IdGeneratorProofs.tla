------------------------- MODULE IdGeneratorProofs -------------------------
(***************************************************************************)
(* What IdGenerator.tla claims, proved for any number of nodes and threads *)
(* and any width of the fields of an id.                                   *)
(***************************************************************************)
EXTENDS IdGenerator, TLAPS

\* Two numbers written in base k with a digit each compare like their
\* prefixes: a higher time beats every worker and sequence.
LEMMA PrefixDecides ==
    ASSUME NEW k \in Nat \ {0}, NEW a \in Int, NEW b \in Int,
           NEW r \in 0 .. k - 1, NEW q \in 0 .. k - 1,
           a < b
    PROVE  a * k + r < b * k + q
<1>1. b - a >= 1
  OBVIOUS
<1>2. (b - a) * k >= k
  BY <1>1
<1>3. b * k = a * k + (b - a) * k
  OBVIOUS
<1>4. a * k \in Int /\ b * k \in Int /\ (b - a) * k \in Int
  OBVIOUS
<1> QED
  BY <1>2, <1>3, <1>4

\* A number has one prefix and one digit in base k.
LEMMA DigitsUnique ==
    ASSUME NEW k \in Nat \ {0}, NEW a \in Int, NEW b \in Int,
           NEW r \in 0 .. k - 1, NEW q \in 0 .. k - 1,
           a * k + r = b * k + q
    PROVE  a = b /\ r = q
<1>1. a * k + r \in Int /\ b * k + q \in Int
  OBVIOUS
<1>2. ~(a < b)
  BY <1>1, PrefixDecides
<1>3. ~(b < a)
  BY <1>1, PrefixDecides
<1>4. a = b
  BY <1>2, <1>3
<1> QED
  BY <1>4

\* The worker and the sequence fill the bits below the time.
LEMMA LowBits ==
    ASSUME NEW w \in 0 .. WorkerSpan - 1, NEW s \in 0 .. SequenceSpan - 1
    PROVE  w * SequenceSpan + s \in 0 .. Slot - 1
<1>1. w * SequenceSpan + s \in Nat
  BY SpanAssumption
<1>2. w * SequenceSpan + s < WorkerSpan * SequenceSpan + 0
  BY SpanAssumption, PrefixDecides
<1> QED
  BY <1>1, <1>2, SpanAssumption DEF Slot

LEMMA SlotType == Slot \in Nat \ {0}
  BY SpanAssumption DEF Slot

\* Until the time field overflows the shift leaves a time as it is.
LEMMA ShiftedSmall ==
    ASSUME NEW t \in Nat, t < TimeSpan
    PROVE  ShiftedTime(t) = t
<1>1. t % (2 * TimeSpan) = t
  BY SpanAssumption
<1> QED
  BY <1>1 DEF ShiftedTime

LEMMA ShiftedType ==
    ASSUME NEW t \in Int
    PROVE  ShiftedTime(t) \in Int
<1>1. t % (2 * TimeSpan) \in Int
  BY SpanAssumption
<1> QED
  BY <1>1, SpanAssumption DEF ShiftedTime

LEMMA PackType ==
    ASSUME NEW g \in Generator, NEW t \in Int, NEW s \in 0 .. SequenceSpan - 1
    PROVE  Pack(g, t, s) \in Int
<1>1. Worker[g] * SequenceSpan + s \in Int
  BY SpanAssumption, WorkerAssumption
<1>2. ShiftedTime(t) * Slot \in Int
  BY ShiftedType, SlotType
<1> QED
  BY <1>1, <1>2 DEF Pack

-----------------------------------------------------------------------------

USE DEF genVars

LEMMA InitType == Init => TypeOK
  BY SpanAssumption, BoundAssumption DEF Init, TypeOK

\* The part of a step that returns an id.
LEMMA ReturnType ==
    ASSUME TypeOK, NEW t \in Thread, NEW s \in 0 .. SequenceSpan - 1,
           Return(t, clock[GenOf[t]], s)
    PROVE  /\ lastTimestamp' \in [Generator -> -1 .. MaxTime]
           /\ sequence' \in [Generator -> 0 .. SequenceSpan - 1]
           /\ pc' \in [Thread -> {"idle", "entering", "spinning"}]
           /\ issued' \in [Generator -> Seq(Int)]
<1>1. GenOf[t] \in Generator /\ clock[GenOf[t]] \in 0 .. MaxTime
  BY WorkerAssumption DEF TypeOK
<1>2. Pack(GenOf[t], clock[GenOf[t]], s) \in Int
  BY <1>1, PackType, BoundAssumption
<1>3. Append(issued[GenOf[t]], Pack(GenOf[t], clock[GenOf[t]], s)) \in Seq(Int)
  BY <1>1, <1>2 DEF TypeOK
<1> QED
  BY <1>1, <1>3, BoundAssumption DEF Return, TypeOK

LEMMA SequenceRange ==
    ASSUME NEW s \in 0 .. SequenceSpan - 1
    PROVE  NextSequence(s) \in 0 .. SequenceSpan - 1
  BY SpanAssumption DEF NextSequence

\* The sequence wraps only after its last number.
LEMMA WrapsAtLast ==
    ASSUME NEW s \in 0 .. SequenceSpan - 1, NextSequence(s) = 0
    PROVE  s = SequenceSpan - 1
<1>1. s + 1 < SequenceSpan => (s + 1) % SequenceSpan = s + 1
  BY SpanAssumption
<1> QED
  BY <1>1, SpanAssumption DEF NextSequence

LEMMA StepType == TypeOK /\ [Next]_vars => TypeOK'
<1> SUFFICES ASSUME TypeOK, [Next]_vars
             PROVE  TypeOK'
  OBVIOUS
<1> USE SpanAssumption, WorkerAssumption, BoundAssumption
<1>1. ASSUME NEW t \in Thread, Call(t)
      PROVE  TypeOK'
  BY <1>1 DEF Call, TypeOK
<1>2. ASSUME NEW t \in Thread, Refuse(t)
      PROVE  TypeOK'
  BY <1>2 DEF Refuse, TypeOK
<1>3. ASSUME NEW t \in Thread, NextIdFresh(t)
      PROVE  TypeOK'
  <2>1. Return(t, clock[GenOf[t]], 0) /\ UNCHANGED <<clock, stepBacks, calls>>
    BY <1>3 DEF NextIdFresh
  <2> QED
    BY <2>1, ReturnType DEF TypeOK
<1>4. ASSUME NEW t \in Thread, NextIdSame(t)
      PROVE  TypeOK'
  <2>1. /\ Return(t, clock[GenOf[t]], NextSequence(sequence[GenOf[t]]))
        /\ UNCHANGED <<clock, stepBacks, calls>>
    BY <1>4 DEF NextIdSame
  <2>2. NextSequence(sequence[GenOf[t]]) \in 0 .. SequenceSpan - 1
    BY SequenceRange DEF TypeOK
  <2> QED
    BY <2>1, <2>2, ReturnType DEF TypeOK
<1>5. ASSUME NEW t \in Thread, Overflow(t)
      PROVE  TypeOK'
  BY <1>5 DEF Overflow, TypeOK
<1>6. ASSUME NEW t \in Thread, SpinEnds(t)
      PROVE  TypeOK'
  <2>1. /\ Return(t, clock[GenOf[t]], sequence[GenOf[t]])
        /\ UNCHANGED <<clock, stepBacks, calls>>
    BY <1>6 DEF SpinEnds
  <2> QED
    BY <2>1, ReturnType DEF TypeOK
<1>7. ASSUME NEW g \in Generator, Tick(g)
      PROVE  TypeOK'
  BY <1>7 DEF Tick, TypeOK
<1>8. ASSUME NEW g \in Generator, StepBack(g)
      PROVE  TypeOK'
  <2>1. PICK time \in 0 .. clock[g] - 1 : clock' = [clock EXCEPT ![g] = time]
    BY <1>8 DEF StepBack
  <2>2. time \in 0 .. MaxTime
    BY DEF TypeOK
  <2> QED
    BY <1>8, <2>1, <2>2 DEF StepBack, TypeOK
<1>9. CASE UNCHANGED vars
  BY <1>9 DEF vars, TypeOK
<1> QED
  BY <1>1, <1>2, <1>3, <1>4, <1>5, <1>6, <1>7, <1>8, <1>9 DEF Next, NextId

\* TypeOK, for every instance.
THEOREM TypeCorrect == Spec => []TypeOK
<1> QED
  BY InitType, StepType, PTL DEF Spec

-----------------------------------------------------------------------------
(* The safety invariants.  Increasing is not inductive: an id is compared   *)
(* with the fields the generator kept, not with the ids it returned.        *)

\* The last sequence number given out in the millisecond lastTimestamp[g]:
\* while a thread spins the field has already been reset.
LastSequence(g) == IF MonitorFree(g) THEN sequence[g] ELSE SequenceSpan - 1

\* lastTimestamp and the sequence bound every id returned so far.
FieldsBoundIds ==
    \A g \in Generator :
        /\ lastTimestamp[g] = -1 => issued[g] = <<>>
        /\ lastTimestamp[g] < TimeSpan =>
              \A i \in 1 .. Len(issued[g]) :
                  issued[g][i] <= Pack(g, lastTimestamp[g], LastSequence(g))

\* Every id carries the worker of the generator that returned it.
IdsCarryWorker ==
    \A g \in Generator : \A i \in 1 .. Len(issued[g]) :
        \E time \in Int, s \in 0 .. SequenceSpan - 1 :
            issued[g][i] = time * Slot + (Worker[g] * SequenceSpan + s)

IInv ==
    /\ TypeOK
    /\ SpinnerHoldsGenerator
    /\ FieldsBoundIds
    /\ Increasing
    /\ IdsCarryWorker

\* A later time gives a greater id whatever the sequence numbers.
LEMMA LaterTimeGreater ==
    ASSUME NEW g \in Generator, NEW t \in Nat, NEW u \in Nat,
           t < u, u < TimeSpan,
           NEW r \in 0 .. SequenceSpan - 1, NEW s \in 0 .. SequenceSpan - 1
    PROVE  Pack(g, t, r) < Pack(g, u, s)
<1>1. /\ Worker[g] * SequenceSpan + r \in 0 .. Slot - 1
      /\ Worker[g] * SequenceSpan + s \in 0 .. Slot - 1
  BY LowBits, WorkerAssumption
<1>2. t * Slot + (Worker[g] * SequenceSpan + r)
        < u * Slot + (Worker[g] * SequenceSpan + s)
  BY <1>1, PrefixDecides, SlotType
<1>3. ShiftedTime(t) = t /\ ShiftedTime(u) = u
  BY ShiftedSmall, SpanAssumption
<1> QED
  BY <1>2, <1>3 DEF Pack

\* Within a millisecond the sequence decides.
LEMMA LaterSequenceGreater ==
    ASSUME NEW g \in Generator, NEW t \in Int,
           NEW r \in 0 .. SequenceSpan - 1, NEW s \in 0 .. SequenceSpan - 1,
           r < s
    PROVE  Pack(g, t, r) < Pack(g, t, s)
<1>1. ShiftedTime(t) * Slot \in Int
  BY ShiftedType, SlotType
<1>2. Worker[g] * SequenceSpan \in Int
  BY WorkerAssumption, SpanAssumption
<1> QED
  BY <1>1, <1>2 DEF Pack

\* Appending an id above the bound of the earlier ones keeps the order.
LEMMA AppendKeepsOrder ==
    ASSUME NEW q \in Seq(Int), NEW b \in Int, NEW x \in Int, b < x,
           \A i \in 1 .. Len(q) : q[i] <= b,
           \A i, j \in 1 .. Len(q) : i < j => q[i] < q[j]
    PROVE  /\ \A i \in 1 .. Len(Append(q, x)) : Append(q, x)[i] <= x
           /\ \A i, j \in 1 .. Len(Append(q, x)) :
                 i < j => Append(q, x)[i] < Append(q, x)[j]
<1>1. /\ Len(Append(q, x)) = Len(q) + 1
      /\ Append(q, x)[Len(q) + 1] = x
      /\ \A i \in 1 .. Len(q) : Append(q, x)[i] = q[i] /\ q[i] \in Int
  OBVIOUS
<1> QED
  BY <1>1

\* A step that returns an id keeps the invariant if the id lies above the bound
\* of the earlier ones and no other thread of the generator holds the monitor.
LEMMA ReturnKeeps ==
    ASSUME IInv, TypeOK',
           NEW t \in Thread, NEW time \in Nat, NEW s \in 0 .. SequenceSpan - 1,
           Return(t, time, s),
           lastTimestamp[GenOf[t]] <= time,
           \A u \in Thread : GenOf[u] = GenOf[t] /\ pc[u] = "spinning" => u = t,
           lastTimestamp[GenOf[t]] # -1 /\ time < TimeSpan =>
              Pack(GenOf[t], lastTimestamp[GenOf[t]], LastSequence(GenOf[t]))
                 < Pack(GenOf[t], time, s)
    PROVE  SpinnerHoldsGenerator' /\ FieldsBoundIds' /\ Increasing' /\ IdsCarryWorker'
<1> DEFINE g == GenOf[t]
           id == Pack(g, time, s)
<1>1. g \in Generator /\ id \in Int /\ issued[g] \in Seq(Int)
  BY PackType, WorkerAssumption DEF IInv, TypeOK
<1>2. /\ lastTimestamp' = [lastTimestamp EXCEPT ![g] = time]
      /\ sequence' = [sequence EXCEPT ![g] = s]
      /\ issued' = [issued EXCEPT ![g] = Append(issued[g], id)]
      /\ pc' = [pc EXCEPT ![t] = "idle"]
  BY DEF Return
<1>3. /\ lastTimestamp'[g] = time
      /\ sequence'[g] = s
      /\ issued'[g] = Append(issued[g], id)
      /\ \A h \in Generator \ {g} :
            /\ lastTimestamp'[h] = lastTimestamp[h]
            /\ sequence'[h] = sequence[h]
            /\ issued'[h] = issued[h]
  BY <1>1, <1>2 DEF IInv, TypeOK
<1>4. /\ MonitorFree(g)'
      /\ \A h \in Generator \ {g} : MonitorFree(h)' <=> MonitorFree(h)
  BY <1>2, WorkerAssumption DEF MonitorFree, IInv, TypeOK
<1>5. /\ LastSequence(g)' = s
      /\ \A h \in Generator \ {g} : LastSequence(h)' = LastSequence(h)
  BY <1>3, <1>4 DEF LastSequence
<1>6. SpinnerHoldsGenerator'
  BY <1>2, <1>3, WorkerAssumption DEF SpinnerHoldsGenerator, IInv, TypeOK
<1>7. time < TimeSpan =>
        /\ \A i \in 1 .. Len(issued'[g]) : issued'[g][i] <= id
        /\ \A i, j \in 1 .. Len(issued'[g]) : i < j => issued'[g][i] < issued'[g][j]
  <2> SUFFICES ASSUME time < TimeSpan
               PROVE  /\ \A i \in 1 .. Len(issued'[g]) : issued'[g][i] <= id
                      /\ \A i, j \in 1 .. Len(issued'[g]) :
                            i < j => issued'[g][i] < issued'[g][j]
    OBVIOUS
  <2>1. lastTimestamp[g] < TimeSpan
    BY <1>1, SpanAssumption, BoundAssumption DEF IInv, TypeOK
  <2>2. CASE lastTimestamp[g] = -1
    <3>1. issued[g] = <<>>
      BY <1>1, <2>2 DEF IInv, FieldsBoundIds
    <3>2. Len(issued'[g]) = 1 /\ issued'[g][1] = id
      BY <1>1, <1>3, <3>1
    <3> QED
      BY <1>1, <3>2
  <2>3. CASE lastTimestamp[g] # -1
    <3> DEFINE bound == Pack(g, lastTimestamp[g], LastSequence(g))
    <3>1. bound \in Int
      <4>1. LastSequence(g) \in 0 .. SequenceSpan - 1
        BY <1>1, SpanAssumption DEF LastSequence, IInv, TypeOK
      <4> QED
        BY <1>1, <4>1, PackType, BoundAssumption DEF IInv, TypeOK
    <3>2. bound < id
      BY <2>3
    <3>3. /\ \A i \in 1 .. Len(issued[g]) : issued[g][i] <= bound
          /\ \A i, j \in 1 .. Len(issued[g]) : i < j => issued[g][i] < issued[g][j]
      BY <1>1, <2>1 DEF IInv, FieldsBoundIds, Increasing
    <3> HIDE DEF bound, id
    <3> QED
      BY <1>1, <1>3, <3>1, <3>2, <3>3, AppendKeepsOrder
  <2> QED
    BY <2>2, <2>3
<1>8. FieldsBoundIds'
  <2> DEFINE Bounded(h) ==
                /\ lastTimestamp[h] = -1 => issued[h] = <<>>
                /\ lastTimestamp[h] < TimeSpan =>
                      \A i \in 1 .. Len(issued[h]) :
                          issued[h][i] <= Pack(h, lastTimestamp[h], LastSequence(h))
  <2>1. ASSUME NEW h \in Generator \ {g}
        PROVE  Bounded(h)'
    <3>1. Bounded(h)
      BY DEF FieldsBoundIds, IInv
    <3> QED
      BY <1>3, <1>5, <3>1
  <2>2. Bounded(g)'
    <3>1. lastTimestamp'[g] # -1
      BY <1>3
    <3> QED
      BY <1>3, <1>5, <1>7, <3>1
  <2> QED
    BY <2>1, <2>2 DEF FieldsBoundIds
<1>9. Increasing'
  BY <1>1, <1>3, <1>7 DEF Increasing, IInv
<1>10. IdsCarryWorker'
  <2>1. ShiftedTime(time) \in Int /\ id = ShiftedTime(time) * Slot + (Worker[g] * SequenceSpan + s)
    BY ShiftedType DEF Pack
  <2>2. \A i \in 1 .. Len(issued'[g]) :
            issued'[g][i] = id \/ (i \in 1 .. Len(issued[g]) /\ issued'[g][i] = issued[g][i])
    BY <1>1, <1>3
  <2> DEFINE Carries(h, x) ==
                \E u \in Int, r \in 0 .. SequenceSpan - 1 :
                    x = u * Slot + (Worker[h] * SequenceSpan + r)
  <2>3. Carries(g, id)
    BY <2>1
  <2>4. \A h \in Generator : \A i \in 1 .. Len(issued[h]) : Carries(h, issued[h][i])
    BY DEF IdsCarryWorker, IInv
  <2> HIDE DEF id, Carries
  <2>5. \A h \in Generator : \A i \in 1 .. Len(issued'[h]) : Carries(h, issued'[h][i])
    BY <1>1, <1>3, <2>2, <2>3, <2>4
  <2> QED
    BY <2>5 DEF IdsCarryWorker, Carries
<1> QED
  BY <1>6, <1>8, <1>9, <1>10

\* A step that returns no id keeps the invariant if it keeps the last sequence
\* number and the times.
LEMMA OtherKeeps ==
    ASSUME IInv, UNCHANGED <<lastTimestamp, issued>>,
           \A g \in Generator : LastSequence(g)' = LastSequence(g)
    PROVE  FieldsBoundIds' /\ Increasing' /\ IdsCarryWorker'
  BY DEF IInv, FieldsBoundIds, Increasing, IdsCarryWorker

LEMMA InitInv == Init => IInv
<1> SUFFICES ASSUME Init PROVE IInv
  OBVIOUS
<1>1. TypeOK
  BY InitType
<1>2. \A g \in Generator : issued[g] = <<>>
  BY DEF Init
<1>3. SpinnerHoldsGenerator
  BY DEF Init, SpinnerHoldsGenerator
<1> QED
  BY <1>1, <1>2, <1>3 DEF IInv, FieldsBoundIds, Increasing, IdsCarryWorker

LEMMA StepInv == IInv /\ [Next]_vars => IInv'
<1> SUFFICES ASSUME IInv, [Next]_vars
             PROVE  IInv'
  OBVIOUS
<1> USE SpanAssumption, WorkerAssumption, BoundAssumption
<1>0. TypeOK /\ TypeOK'
  BY StepType DEF IInv
<1>1. ASSUME NEW t \in Thread, Call(t) \/ Refuse(t)
      PROVE  IInv'
  <2>1. /\ UNCHANGED <<lastTimestamp, issued, sequence>>
        /\ \A u \in Thread : pc'[u] = "spinning" <=> pc[u] = "spinning"
    BY <1>0, <1>1 DEF Call, Refuse, TypeOK
  <2>2. \A g \in Generator : LastSequence(g)' = LastSequence(g)
    BY <2>1 DEF LastSequence, MonitorFree
  <2>3. SpinnerHoldsGenerator'
    BY <2>1 DEF SpinnerHoldsGenerator, IInv
  <2> QED
    BY <1>0, <2>1, <2>2, <2>3, OtherKeeps DEF IInv
<1>2. ASSUME NEW t \in Thread, NextIdFresh(t)
      PROVE  IInv'
  <2>1. /\ Return(t, clock[GenOf[t]], 0)
        /\ lastTimestamp[GenOf[t]] < clock[GenOf[t]]
        /\ clock[GenOf[t]] \in Nat /\ lastTimestamp[GenOf[t]] \in -1 .. MaxTime
        /\ GenOf[t] \in Generator
    BY <1>0, <1>2 DEF NextIdFresh, TypeOK
  <2>2. \A u \in Thread : ~(GenOf[u] = GenOf[t] /\ pc[u] = "spinning")
    BY <1>2 DEF NextIdFresh, MonitorFree
  <2>3. LastSequence(GenOf[t]) \in 0 .. SequenceSpan - 1
    BY <1>0, <2>1 DEF LastSequence, TypeOK
  <2>4. lastTimestamp[GenOf[t]] # -1 /\ clock[GenOf[t]] < TimeSpan =>
           Pack(GenOf[t], lastTimestamp[GenOf[t]], LastSequence(GenOf[t]))
              < Pack(GenOf[t], clock[GenOf[t]], 0)
    BY <2>1, <2>3, LaterTimeGreater
  <2> QED
    BY <1>0, <2>1, <2>2, <2>4, ReturnKeeps DEF IInv
<1>3. ASSUME NEW t \in Thread, NextIdSame(t)
      PROVE  IInv'
  <2> DEFINE g == GenOf[t]
             s == NextSequence(sequence[g])
  <2>1. /\ Return(t, clock[g], s)
        /\ lastTimestamp[g] = clock[g]
        /\ clock[g] \in Nat
        /\ g \in Generator
        /\ sequence[g] \in 0 .. SequenceSpan - 1
    BY <1>0, <1>3 DEF NextIdSame, TypeOK
  <2>2. \A u \in Thread : ~(GenOf[u] = g /\ pc[u] = "spinning")
    BY <1>3 DEF NextIdSame, MonitorFree
  <2>3. LastSequence(g) = sequence[g]
    BY <2>2 DEF LastSequence, MonitorFree
  <2>4. s \in 0 .. SequenceSpan - 1 /\ sequence[g] < s
    BY <1>3, <2>1 DEF NextIdSame, NextSequence
  <2>5. Pack(g, clock[g], sequence[g]) < Pack(g, clock[g], s)
    BY <2>1, <2>4, LaterSequenceGreater
  <2> HIDE DEF s
  <2> QED
    BY <1>0, <2>1, <2>2, <2>3, <2>4, <2>5, ReturnKeeps DEF IInv
<1>4. ASSUME NEW t \in Thread, Overflow(t)
      PROVE  IInv'
  <2> DEFINE g == GenOf[t]
  <2>1. /\ g \in Generator
        /\ sequence[g] = SequenceSpan - 1
    BY <1>0, <1>4, WrapsAtLast DEF Overflow, TypeOK
  <2>2. /\ UNCHANGED <<lastTimestamp, issued>>
        /\ sequence' = [sequence EXCEPT ![g] = 0]
        /\ pc' = [pc EXCEPT ![t] = "spinning"]
        /\ MonitorFree(g)
    BY <1>4 DEF Overflow
  <2>3. /\ ~MonitorFree(g)'
        /\ \A h \in Generator \ {g} : MonitorFree(h)' <=> MonitorFree(h)
    BY <1>0, <2>2 DEF MonitorFree, TypeOK
  <2>4. \A h \in Generator : LastSequence(h)' = LastSequence(h)
    BY <1>0, <2>1, <2>2, <2>3 DEF LastSequence, TypeOK
  <2>5. SpinnerHoldsGenerator'
    <3>1. lastTimestamp[g] >= 0
      BY <1>0, <1>4 DEF Overflow, TypeOK
    <3> QED
      BY <1>0, <2>1, <2>2, <3>1 DEF SpinnerHoldsGenerator, IInv, TypeOK, MonitorFree
  <2> QED
    BY <1>0, <2>2, <2>4, <2>5, OtherKeeps DEF IInv
<1>5. ASSUME NEW t \in Thread, SpinEnds(t)
      PROVE  IInv'
  <2> DEFINE g == GenOf[t]
  <2>1. /\ Return(t, clock[g], sequence[g])
        /\ sequence[g] = 0
        /\ lastTimestamp[g] < clock[g]
        /\ clock[g] \in Nat /\ lastTimestamp[g] \in -1 .. MaxTime
        /\ g \in Generator
        /\ \A u \in Thread : GenOf[u] = g /\ pc[u] = "spinning" => u = t
    BY <1>0, <1>5 DEF SpinEnds, SpinOver, SpinnerHoldsGenerator, IInv, TypeOK
  <2>2. LastSequence(g) \in 0 .. SequenceSpan - 1
    BY <1>0, <2>1 DEF LastSequence, TypeOK
  <2>3. lastTimestamp[g] # -1 /\ clock[g] < TimeSpan =>
           Pack(g, lastTimestamp[g], LastSequence(g)) < Pack(g, clock[g], 0)
    BY <2>1, <2>2, LaterTimeGreater
  <2> QED
    BY <1>0, <2>1, <2>3, ReturnKeeps DEF IInv
<1>6. CASE \/ \E g \in Generator : Tick(g) \/ StepBack(g)
           \/ UNCHANGED vars
  <2>1. UNCHANGED <<lastTimestamp, issued, sequence, pc>>
    BY <1>6 DEF Tick, StepBack, vars
  <2>2. \A g \in Generator : LastSequence(g)' = LastSequence(g)
    BY <2>1 DEF LastSequence, MonitorFree
  <2>3. SpinnerHoldsGenerator'
    BY <2>1 DEF SpinnerHoldsGenerator, IInv
  <2> QED
    BY <1>0, <2>1, <2>2, <2>3, OtherKeeps DEF IInv
<1> QED
  BY <1>1, <1>2, <1>3, <1>4, <1>5, <1>6 DEF Next, NextId

\* Increasing, for every instance: the ids of a node rise strictly until the
\* time field overflows, whatever its clock does.
THEOREM IdsIncrease == Spec => []Increasing
<1>1. IInv => Increasing
  BY DEF IInv
<1> QED
  BY <1>1, InitInv, StepInv, PTL DEF Spec

\* SpinnerHoldsGenerator, for every instance.
THEOREM SpinKeepsMonitor == Spec => []SpinnerHoldsGenerator
<1>1. IInv => SpinnerHoldsGenerator
  BY DEF IInv
<1> QED
  BY <1>1, InitInv, StepInv, PTL DEF Spec

\* ClusterUnique, for every instance in which the nodes have distinct workers:
\* the worker's digits of two equal ids would be equal.
THEOREM DistinctWorkersUnique ==
    ASSUME \A g, h \in Generator : g # h => Worker[g] # Worker[h]
    PROVE  Spec => []ClusterUnique
<1>1. IInv => ClusterUnique
  <2> SUFFICES ASSUME IInv,
                      NEW g \in Generator, NEW h \in Generator, g # h,
                      NEW i \in 1 .. Len(issued[g]), NEW j \in 1 .. Len(issued[h]),
                      issued[g][i] = issued[h][j]
               PROVE  FALSE
    BY DEF ClusterUnique
  <2>1. PICK a \in Int, r \in 0 .. SequenceSpan - 1 :
            issued[g][i] = a * Slot + (Worker[g] * SequenceSpan + r)
    BY DEF IInv, IdsCarryWorker
  <2>2. PICK b \in Int, s \in 0 .. SequenceSpan - 1 :
            issued[h][j] = b * Slot + (Worker[h] * SequenceSpan + s)
    BY DEF IInv, IdsCarryWorker
  <2>3. /\ Worker[g] * SequenceSpan + r \in 0 .. Slot - 1
        /\ Worker[h] * SequenceSpan + s \in 0 .. Slot - 1
    BY LowBits, WorkerAssumption
  <2>4. Worker[g] * SequenceSpan + r = Worker[h] * SequenceSpan + s
    <3> DEFINE x == Worker[g] * SequenceSpan + r
               y == Worker[h] * SequenceSpan + s
    <3>1. /\ x \in 0 .. Slot - 1 /\ y \in 0 .. Slot - 1
          /\ a * Slot + x = b * Slot + y
      BY <2>1, <2>2, <2>3
    <3> HIDE DEF x, y
    <3>2. x = y
      BY <3>1, SlotType, DigitsUnique
    <3> QED
      BY <3>2 DEF x, y
  <2>5. Worker[g] \in Int /\ Worker[h] \in Int
    BY WorkerAssumption
  <2>6. Worker[g] = Worker[h]
    <3> DEFINE v == Worker[g]
               w == Worker[h]
    <3>1. v \in Int /\ w \in Int /\ v * SequenceSpan + r = w * SequenceSpan + s
      BY <2>4, <2>5
    <3> HIDE DEF v, w
    <3>2. v = w
      BY <3>1, SpanAssumption, DigitsUnique
    <3> QED
      BY <3>2 DEF v, w
  <2> QED
    BY <2>6
<1> QED
  BY <1>1, InitInv, StepInv, PTL DEF Spec

=============================================================================
