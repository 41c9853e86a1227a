---------------------------- MODULE IdGenerator ----------------------------
(***************************************************************************)
(* util/IdGenerator: the snowflake generator that numbers chat messages.   *)
(*                                                                         *)
(* Every node of the cluster builds one generator (WebsocketConfig) and    *)
(* its event loops call nextId(), a synchronized method.  A caller that    *)
(* finds the sequence of the current millisecond used up spins in          *)
(* tilNextMillis WITHOUT giving up the monitor.  The clock of a node is    *)
(* System.currentTimeMillis(): it advances, and the operating system may   *)
(* set it back.  Times are counted from twepoch, so the initial            *)
(* lastTimestamp (-1) lies before every reading of the clock.              *)
(***************************************************************************)
EXTENDS Integers, Sequences

CONSTANTS
    Generator,        \* the generators, one per node
    Thread,           \* the event loop threads that ask for ids
    GenOf,            \* [Thread -> Generator]
    Worker,           \* [Generator -> 0 .. WorkerSpan - 1]: datacenterId and workerId, packed
    WorkerSpan,       \* 2^(workerIdBits + datacenterIdBits)
    SequenceSpan,     \* 2^sequenceBits, that is sequenceMask + 1
    TimeSpan,         \* 2^41: the milliseconds a positive id can express
    MaxTime,          \* bound: the clocks stop here
    MaxStepBacks,     \* bound: how often a clock is set back
    MaxCalls          \* bound: how many calls are made

ASSUME SpanAssumption ==
    /\ WorkerSpan \in Nat \ {0}
    /\ SequenceSpan \in Nat \ {0}
    /\ TimeSpan \in Nat \ {0}

ASSUME WorkerAssumption ==
    /\ GenOf \in [Thread -> Generator]
    /\ Worker \in [Generator -> 0 .. WorkerSpan - 1]

ASSUME BoundAssumption ==
    /\ MaxTime \in Nat
    /\ MaxStepBacks \in Nat
    /\ MaxCalls \in Nat

VARIABLES
    clock,            \* clock[g]: what timeGen() reads on the node of g
    lastTimestamp,    \* lastTimestamp[g]: the time of the last id
    sequence,         \* sequence[g]: the counter within the millisecond
    pc,               \* pc[t]: "idle", "entering" nextId, or "spinning" in tilNextMillis
    issued,           \* history: issued[g], the ids g has returned, in order
    stepBacks,        \* how often a clock was set back so far
    calls             \* how many calls were made so far

genVars == <<lastTimestamp, sequence, issued>>
vars == <<clock, lastTimestamp, sequence, pc, issued, stepBacks, calls>>

-----------------------------------------------------------------------------
(* The layout of an id. *)

\* The bits of an id below the time.
Slot == WorkerSpan * SequenceSpan

\* (timestamp - twepoch) << timestampLeftShift is a 64-bit shift: 42 bits of
\* the time survive it, and the topmost of them is the sign of the id.
ShiftedTime(t) ==
    LET low == t % (2 * TimeSpan)
    IN  IF low < TimeSpan THEN low ELSE low - 2 * TimeSpan

\* Faulty: the machine is not part of the id.
PackWithoutWorker(g, t, s) == ShiftedTime(t) * Slot + s

\* The three fields do not overlap, so | is +.
Pack(g, t, s) == ShiftedTime(t) * Slot + (Worker[g] * SequenceSpan + s)

-----------------------------------------------------------------------------

Init ==
    /\ clock = [g \in Generator |-> 0]
    /\ lastTimestamp = [g \in Generator |-> -1]
    /\ sequence = [g \in Generator |-> 0]
    /\ pc = [t \in Thread |-> "idle"]
    /\ issued = [g \in Generator |-> <<>>]
    /\ stepBacks = 0
    /\ calls = 0

\* Faulty: nextId is not synchronized.
NoMonitor(g) == TRUE

\* The monitor of g is held across steps only by a thread that spins.
MonitorFree(g) == \A t \in Thread : GenOf[t] = g => pc[t] # "spinning"

\* lines 146-152: remember the time and return the id.
Return(t, time, seq) ==
    LET g == GenOf[t]
    IN  /\ lastTimestamp' = [lastTimestamp EXCEPT ![g] = time]
        /\ sequence' = [sequence EXCEPT ![g] = seq]
        /\ issued' = [issued EXCEPT ![g] = Append(@, Pack(g, time, seq))]
        /\ pc' = [pc EXCEPT ![t] = "idle"]

\* A thread calls nextId and queues for the monitor.
Call(t) ==
    /\ pc[t] = "idle"
    /\ calls < MaxCalls
    /\ calls' = calls + 1
    /\ pc' = [pc EXCEPT ![t] = "entering"]
    /\ UNCHANGED <<clock, genVars, stepBacks>>

\* nextId throws: the clock lies before the last id.
Refuse(t) ==
    /\ pc[t] = "entering"
    /\ MonitorFree(GenOf[t])
    /\ clock[GenOf[t]] < lastTimestamp[GenOf[t]]
    /\ pc' = [pc EXCEPT ![t] = "idle"]
    /\ UNCHANGED <<clock, genVars, stepBacks, calls>>

\* nextId in a millisecond that has no id yet.
NextIdFresh(t) ==
    /\ pc[t] = "entering"
    /\ MonitorFree(GenOf[t])
    /\ clock[GenOf[t]] > lastTimestamp[GenOf[t]]
    /\ Return(t, clock[GenOf[t]], 0)
    /\ UNCHANGED <<clock, stepBacks, calls>>

\* Faulty: the mask is missing.
UnmaskedSequence(s) == s + 1

\* (sequence + 1) & sequenceMask
NextSequence(s) == (s + 1) % SequenceSpan

\* nextId in the millisecond of the last id, with room in the sequence.
NextIdSame(t) ==
    /\ pc[t] = "entering"
    /\ MonitorFree(GenOf[t])
    /\ clock[GenOf[t]] = lastTimestamp[GenOf[t]]
    /\ NextSequence(sequence[GenOf[t]]) # 0
    /\ Return(t, clock[GenOf[t]], NextSequence(sequence[GenOf[t]]))
    /\ UNCHANGED <<clock, stepBacks, calls>>

\* The sequence wrapped: the caller keeps the monitor and spins.  The field is
\* already 0, and lastTimestamp is written only after the spin.
Overflow(t) ==
    /\ pc[t] = "entering"
    /\ MonitorFree(GenOf[t])
    /\ clock[GenOf[t]] = lastTimestamp[GenOf[t]]
    /\ NextSequence(sequence[GenOf[t]]) = 0
    /\ sequence' = [sequence EXCEPT ![GenOf[t]] = 0]
    /\ pc' = [pc EXCEPT ![t] = "spinning"]
    /\ UNCHANGED <<clock, lastTimestamp, issued, stepBacks, calls>>

\* Faulty: leaves the loop in the millisecond that is used up, or only in the
\* very next one.
SpinOverAtOnce(time, last) == time >= last
SpinOverInNext(time, last) == time = last + 1

\* Whether a reading of the clock ends the loop of tilNextMillis.
SpinOver(time, last) == time > last

\* tilNextMillis reads a later time: nextId returns with sequence 0.
SpinEnds(t) ==
    /\ pc[t] = "spinning"
    /\ SpinOver(clock[GenOf[t]], lastTimestamp[GenOf[t]])
    /\ Return(t, clock[GenOf[t]], sequence[GenOf[t]])
    /\ UNCHANGED <<clock, stepBacks, calls>>

\* The clock of a node advances by a millisecond.
Tick(g) ==
    /\ clock[g] < MaxTime
    /\ clock' = [clock EXCEPT ![g] = @ + 1]
    /\ UNCHANGED <<genVars, pc, stepBacks, calls>>

\* The clock of a node is set back to any earlier time.
StepBack(g) ==
    /\ stepBacks < MaxStepBacks
    /\ stepBacks' = stepBacks + 1
    /\ \E time \in 0 .. clock[g] - 1 : clock' = [clock EXCEPT ![g] = time]
    /\ UNCHANGED <<genVars, pc, calls>>

NextId(t) ==
    Refuse(t) \/ NextIdFresh(t) \/ NextIdSame(t) \/ Overflow(t) \/ SpinEnds(t)

Next ==
    \/ \E t \in Thread : Call(t) \/ NextId(t)
    \/ \E g \in Generator : Tick(g) \/ StepBack(g)

Spec == Init /\ [][Next]_vars

\* A monitor is not fair among its waiters, so only this much is promised: a
\* generator some thread can serve serves some thread, and clocks advance.
Fairness ==
    /\ \A g \in Generator : WF_vars(Tick(g))
    /\ \A g \in Generator :
          WF_vars(\E t \in Thread : GenOf[t] = g /\ NextId(t))

FairSpec == Spec /\ Fairness

-----------------------------------------------------------------------------

\* Types of the variables: the sequence keeps to its bits and the times to the
\* readings of the clock.
TypeOK ==
    /\ clock \in [Generator -> 0 .. MaxTime]
    /\ lastTimestamp \in [Generator -> -1 .. MaxTime]
    /\ sequence \in [Generator -> 0 .. SequenceSpan - 1]
    /\ pc \in [Thread -> {"idle", "entering", "spinning"}]
    /\ issued \in [Generator -> Seq(Int)]
    /\ stepBacks \in 0 .. MaxStepBacks
    /\ calls \in 0 .. MaxCalls

\* Mutual exclusion through the spin: whatever other threads and the clock do,
\* one thread at most is inside nextId of a generator, and the field it left
\* behind at the overflow (sequence = 0, line 133) is still there when it
\* returns.
SpinnerHoldsGenerator ==
    \A t \in Thread : pc[t] = "spinning" =>
        /\ sequence[GenOf[t]] = 0
        /\ lastTimestamp[GenOf[t]] >= 0
        /\ \A u \in Thread : GenOf[u] = GenOf[t] /\ pc[u] = "spinning" => u = t

\* The ids of one node rise strictly, so they are distinct and ordered like
\* the calls, however the clock is set back and however often the sequence
\* overflows, until the 41 bits of the time are used up (nextId, lines 122-153).
Increasing ==
    \A g \in Generator :
        lastTimestamp[g] < TimeSpan =>
            \A i, j \in 1 .. Len(issued[g]) :
                i < j => issued[g][i] < issued[g][j]

\* No two nodes of the cluster ever return the same id (class comment, line 13:
\* the datacenter id and the machine id keep the nodes apart).
ClusterUnique ==
    \A g, h \in Generator :
        g # h => \A i \in 1 .. Len(issued[g]), j \in 1 .. Len(issued[h]) :
                     issued[g][i] # issued[h][j]

\* A thread that spins with the monitor in hand, and blocks every other sender
\* of the node meanwhile, gets out once the clock moves on (lines 161-167).  At
\* the bound MaxTime the clock stands still, and the real one does not.
SpinTerminates ==
    \A t \in Thread :
        pc[t] = "spinning" ~> (pc[t] = "idle" \/ lastTimestamp[GenOf[t]] = MaxTime)

=============================================================================
