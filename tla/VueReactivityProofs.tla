------------------------- MODULE VueReactivityProofs -------------------------
(***************************************************************************)
(* Proofs about VueReactivity, for any properties, objects and watchers,      *)
(* whatever getters read and callbacks, hooks and tasks write: the queue      *)
(* (QueueTellsTruth), the lists of subscribers (SubscribedToWhatItRead) and    *)
(* that nothing is stale (NothingStale).                                     *)
(***************************************************************************)
EXTENDS VueReactivity, FiniteSetTheorems, TLAPS

\* The calls, the innermost first.  A watcher is evaluated when it was created, by
\* the flush, or, a computed property, by the evaluation of its reader; callbacks and
\* hooks write below a flush or after it; a flush waits for nothing else.
FrameFits(st, i) ==
    LET f == st[i]
        n == Len(st)
    IN  /\ f.at \in {"get", "writes", "flush", "updated"}
        /\ f.at = "get" =>
               /\ {"at", "w", "seen", "new", "then", "thrown"} \subseteq DOMAIN f
               /\ f.w \in Watcher /\ f.then \in {"create", "run", "evaluate"}
               /\ f.then = "evaluate" <=> ~IsQueued(f.w)
               /\ f.then = "evaluate" => i < n /\ st[i + 1].at = "get"
               /\ f.then = "create" => i = n
               /\ f.then = "run" => i + 1 = n /\ st[n].at = "flush" /\ st[n].phase = "after"
        /\ f.at = "writes" =>
               /\ {"at", "list"} \subseteq DOMAIN f
               /\ i = 1 /\ n = 2 /\ st[2].at \in {"flush", "updated"}
        /\ f.at \in {"flush", "updated"} => i = n
        /\ f.at = "updated" => {"at", "ws"} \subseteq DOMAIN f
        /\ f.at = "flush" =>
               /\ {"at", "phase"} \subseteq DOMAIN f
               /\ f.phase \in {"before", "run", "after"}
               /\ f.phase = "before" => n = 1

Stacked(st) == st \in Seq(Range(st)) /\ \A i \in DOMAIN st : FrameFits(st, i)

\* How far the flush is, by the outermost call.
PhaseOf(st) == IF st # <<>> /\ st[Len(st)].at = "flush" THEN st[Len(st)].phase ELSE "none"

\* The watchers from the position from on are to run, each once; behind the one that
\* runs they are in order.
Awaits(q, h, from, at) ==
    /\ q \in Seq(Watcher) /\ h \subseteq Watcher
    /\ \A i \in DOMAIN q : IsQueued(q[i])
    /\ \A i, j \in DOMAIN q : from <= i /\ from <= j /\ q[i] = q[j] => i = j
    /\ \A i \in DOMAIN q : from <= i => q[i] \in h
    /\ \A w \in h : \E i \in DOMAIN q : from <= i /\ q[i] = w
    /\ at # 0 => \A i, j \in DOMAIN q : at < i /\ i < j => q[i] <= q[j]

From(phase) == IF phase = "none" THEN 1 ELSE IF phase = "after" THEN index + 1 ELSE index

\* A flush that was broken off stays behind the watcher that ran.
Position == IF flushing /\ PhaseOf(stack) = "none" THEN "after" ELSE PhaseOf(stack)

\* The step breaks no flush off, and one that was broken off before stays as it is.
BreaksNothing ==
    flushing' /\ PhaseOf(stack') = "none" => PhaseOf(stack) = "none" /\ UNCHANGED <<flushing, Running>>

Scheduled ==
    LET phase == Position
    IN  /\ Awaits(queue, has, From(phase), index)
        /\ flushing = (phase # "none")
        /\ waiting = (flushing \/ pending) /\ ~(flushing /\ pending)
        /\ pending \in BOOLEAN
        /\ ~waiting => queue = <<>>
        /\ IF flushing THEN index \in 1 .. Len(queue) + 1 ELSE index = 0
        /\ phase \in {"run", "after"} => index <= Len(queue)

SchedulerInv ==
    /\ Stacked(stack)
    /\ Scheduled
    /\ subs \in [Dep -> Seq(Watcher)]

-----------------------------------------------------------------------------

\* No computed property reads itself, not even through others: such a one would
\* overflow the stack.
RanksReaders(rank) ==
    /\ rank \in [Watcher -> Nat]
    /\ \A w \in Watcher : \A seen :
           LET do == Read(w, seen) IN do.op = "computed" /\ do.id \in Watcher => rank[do.id] < rank[w]

Acyclic == \E rank : RanksReaders(rank)

\* The evaluations under way: of watchers that were created, none of them twice.
Evaluates(rank, st) ==
    /\ \A i \in DOMAIN st : st[i].at = "get" =>
           /\ st[i].w <= born /\ st[i].new \subseteq Dep
           /\ IsQueued(st[i].w) => st[i].w \in active
    /\ \A i, j \in DOMAIN st : i < j /\ st[i].at = "get" /\ st[j].at = "get" =>
           rank[st[i].w] < rank[st[j].w]

\* A watcher that was not created has done nothing.
Born ==
    /\ born \in 0 .. LastWatcher
    /\ active \subseteq 1 .. born /\ dirty \subseteq 1 .. born
    /\ deps \in [Watcher -> SUBSET Dep]
    /\ \A w \in Watcher : w > born => deps[w] = {}

SubscriptionInv(rank) ==
    /\ SchedulerInv /\ Born /\ Evaluates(rank, stack)
    /\ SubscribedToWhatItRead

-----------------------------------------------------------------------------
(* The stack of calls. *)

LEMMA IsSequence ==
    ASSUME NEW S, NEW s \in Seq(S)
    PROVE  /\ s \in Seq(Range(s)) /\ Len(s) \in Nat /\ DOMAIN s = 1 .. Len(s)
           /\ Range(s) \subseteq S
<1>1. Len(s) \in Nat /\ DOMAIN s = 1 .. Len(s) /\ s = [i \in 1 .. Len(s) |-> s[i]]
    OBVIOUS
<1>2. \A i \in 1 .. Len(s) : s[i] \in Range(s)
    BY <1>1 DEF Range
<1>3. s \in [1 .. Len(s) -> Range(s)]
    BY <1>1, <1>2
<1>4. Range(s) \subseteq S
    BY <1>1 DEF Range
<1> QED  BY <1>1, <1>3, <1>4

\* t is st with f in front, without its first element, or with f in its place.
Pushed(st, f, t) ==
    /\ t \in Seq(Range(t)) /\ Len(t) = Len(st) + 1 /\ t # <<>>
    /\ t[1] = f /\ \A i \in 1 .. Len(st) : t[i + 1] = st[i]

Popped(st, t) ==
    /\ t \in Seq(Range(t)) /\ Len(t) = Len(st) - 1
    /\ \A i \in 1 .. Len(t) : t[i] = st[i + 1]

Replaced(st, f, t) ==
    /\ t \in Seq(Range(t)) /\ Len(t) = Len(st) /\ t # <<>>
    /\ t[1] = f /\ \A i \in 2 .. Len(st) : t[i] = st[i]

LEMMA PushIs ==
    ASSUME NEW st, st \in Seq(Range(st)), NEW f
    PROVE  Pushed(st, f, <<f>> \o st)
<1> DEFINE S == Range(st) \union {f}
           t == <<f>> \o st
<1>1. st \in Seq(S) /\ <<f>> \in Seq(S)
    <2>1. st \in [1 .. Len(st) -> Range(st)] /\ Len(st) \in Nat
        OBVIOUS
    <2>2. st \in [1 .. Len(st) -> S]
        BY <2>1
    <2> QED  BY <2>1, <2>2
<1> HIDE DEF S
<1>2. t \in Seq(S) /\ Len(t) = Len(st) + 1 /\ t[1] = f
    BY <1>1
<1>3. \A i \in 1 .. Len(st) : t[i + 1] = st[i]
    BY <1>1
<1>4. t # <<>>
    BY <1>2
<1> HIDE DEF t
<1>5. t \in Seq(Range(t))
    BY <1>2, IsSequence
<1> QED  BY <1>2, <1>3, <1>4, <1>5 DEF Pushed, t

LEMMA PopIs ==
    ASSUME NEW st, st \in Seq(Range(st)), st # <<>>
    PROVE  Popped(st, Tail(st)) /\ Len(st) \in Nat \ {0} /\ Head(st) = st[1]
<1> DEFINE S == Range(st)
           t == Tail(st)
<1> HIDE DEF S
<1>1. st \in Seq(S)
    BY DEF S
<1>2. Len(st) \in Nat \ {0} /\ Head(st) = st[1]
    BY <1>1
<1>3. t \in Seq(S) /\ Len(t) = Len(st) - 1 /\ \A i \in 1 .. Len(t) : t[i] = st[i + 1]
    BY <1>1, <1>2
<1> HIDE DEF t
<1>4. t \in Seq(Range(t))
    BY <1>3, IsSequence
<1> QED  BY <1>2, <1>3, <1>4 DEF Popped, t

LEMMA ReplaceIs ==
    ASSUME NEW st, st \in Seq(Range(st)), st # <<>>, NEW f
    PROVE  Replaced(st, f, <<f>> \o Tail(st))
<1>1. Popped(st, Tail(st)) /\ Len(st) \in Nat \ {0}
    BY PopIs
<1> DEFINE r == Tail(st)
           t == <<f>> \o r
<1>2. r \in Seq(Range(r)) /\ Len(r) = Len(st) - 1 /\ \A i \in 1 .. Len(r) : r[i] = st[i + 1]
    BY <1>1 DEF Popped
<1> HIDE DEF r
<1>3. Pushed(r, f, t)
    BY <1>2, PushIs
<1> HIDE DEF t
<1>4. \A i \in 2 .. Len(st) : t[i] = st[i]
    <2> TAKE i \in 2 .. Len(st)
    <2>1. i - 1 \in 1 .. Len(r) /\ (i - 1) + 1 = i
        BY <1>1, <1>2
    <2>2. t[(i - 1) + 1] = r[i - 1] /\ r[i - 1] = st[(i - 1) + 1]
        BY <1>2, <1>3, <2>1 DEF Pushed
    <2> QED  BY <2>1, <2>2
<1> QED  BY <1>1, <1>2, <1>3, <1>4 DEF Pushed, Replaced, t, r

-----------------------------------------------------------------------------
(* The shape of the stack after each kind of step. *)

GetsSame(f, g) ==
    /\ g.at = "get" /\ g.w = f.w /\ g.then = f.then
    /\ {"at", "w", "seen", "new", "then", "thrown"} \subseteq DOMAIN g

LEMMA EvaluationGoesOn ==
    ASSUME NEW st, Stacked(st), st # <<>>, st[1].at = "get", NEW g, GetsSame(st[1], g),
           NEW t, Replaced(st, g, t)
    PROVE  Stacked(t) /\ PhaseOf(t) = PhaseOf(st)
<1>1. /\ DOMAIN st = 1 .. Len(st) /\ DOMAIN t = 1 .. Len(t) /\ Len(t) = Len(st) /\ Len(st) \in Nat
      /\ t \in Seq(Range(t)) /\ t # <<>> /\ Len(st) # 0
    BY DEF Stacked, Replaced
<1>2. t[1] = g /\ \A i \in 2 .. Len(st) : t[i] = st[i]
    BY DEF Replaced
<1>3. \A i \in 1 .. Len(st) : t[i].at = st[i].at
    BY <1>1, <1>2 DEF GetsSame
<1>4. ASSUME NEW i \in 1 .. Len(st)
      PROVE  FrameFits(t, i)
    <2>1. FrameFits(st, i)
        BY <1>1 DEF Stacked
    <2>2. i < Len(st) => i + 1 \in 1 .. Len(st)
        BY <1>1
    <2>3. CASE i = 1
        <3>1. CASE st[i].then = "run"
            BY <1>1, <1>2, <1>3, <2>1, <2>2, <2>3, <3>1 DEF FrameFits, GetsSame
        <3>2. CASE st[i].then = "create"
            BY <1>1, <1>2, <1>3, <2>1, <2>2, <2>3, <3>2 DEF FrameFits, GetsSame
        <3>3. CASE st[i].then = "evaluate"
            BY <1>1, <1>2, <1>3, <2>1, <2>2, <2>3, <3>3 DEF FrameFits, GetsSame
        <3> QED  BY <2>1, <2>3, <3>1, <3>2, <3>3 DEF FrameFits
    <2>4. CASE i \in 2 .. Len(st)
        <3>1. t[i] = st[i] /\ (i < Len(st) => t[i + 1] = st[i + 1]) /\ t[Len(st)] = st[Len(st)]
            BY <1>1, <1>2, <2>4
        <3>2. st[i].at # "writes"
            BY <2>1, <2>4 DEF FrameFits
        <3> QED  BY <1>1, <2>1, <3>1, <3>2 DEF FrameFits
    <2> QED  BY <2>3, <2>4
<1>5. PhaseOf(t) = PhaseOf(st)
    <2>1. t[Len(st)] = st[Len(st)] \/ (Len(st) = 1 /\ t[Len(st)].at = "get")
        BY <1>1, <1>2 DEF GetsSame
    <2> QED  BY <1>1, <2>1 DEF PhaseOf
<1> QED  BY <1>1, <1>4, <1>5 DEF Stacked

LEMMA ComputedIsEvaluated ==
    ASSUME NEW st, Stacked(st), st # <<>>, st[1].at = "get", NEW g,
           g.at = "get", g.w \in Computed, g.then = "evaluate",
           {"at", "w", "seen", "new", "then", "thrown"} \subseteq DOMAIN g,
           NEW t, Pushed(st, g, t)
    PROVE  Stacked(t) /\ PhaseOf(t) = PhaseOf(st)
<1>1. /\ DOMAIN st = 1 .. Len(st) /\ DOMAIN t = 1 .. Len(t) /\ Len(t) = Len(st) + 1 /\ Len(st) \in Nat
      /\ t \in Seq(Range(t)) /\ t # <<>> /\ Len(st) # 0
    BY DEF Stacked, Pushed
<1>2. t[1] = g /\ \A i \in 1 .. Len(st) : t[i + 1] = st[i]
    BY DEF Pushed
<1>3. ASSUME NEW i \in 1 .. Len(t)
      PROVE  FrameFits(t, i)
    <2>1. CASE i = 1
        <3>1. t[i + 1] = st[1]
            BY <1>1, <1>2, <2>1
        <3> QED  BY <1>1, <1>2, <2>1, <3>1 DEF FrameFits, Computed, IsQueued
    <2>2. CASE i # 1
        <3> DEFINE j == i - 1
        <3>1. j \in 1 .. Len(st) /\ i = j + 1 /\ t[i] = st[j]
            BY <1>1, <1>2, <2>2
        <3>2. t[Len(t)] = st[Len(st)] /\ (j < Len(st) => t[i + 1] = st[j + 1])
            BY <1>1, <1>2, <3>1
        <3> HIDE DEF j
        <3>3. FrameFits(st, j)
            BY <1>1, <3>1 DEF Stacked
        <3>4. st[j].at # "writes"
            BY <3>1, <3>3 DEF FrameFits
        <3>5. Len(st) = 1 => j = 1
            BY <1>1, <3>1
        <3>6. /\ j < Len(st) <=> i < Len(t)
              /\ j = Len(st) <=> i = Len(t)
              /\ j + 1 = Len(st) <=> i + 1 = Len(t)
            <4> DEFINE n == Len(st)
            <4>1. j \in Nat /\ i = j + 1 /\ n \in Nat /\ Len(t) = n + 1
                BY <1>1, <3>1
            <4> HIDE DEF n
            <4>2. (j < n <=> j + 1 < n + 1) /\ (j = n <=> j + 1 = n + 1) /\ (j + 1 = n <=> (j + 1) + 1 = n + 1)
                BY <4>1
            <4> QED  BY <4>1, <4>2 DEF n
        <3>9. st[j].at = "flush" => st[j].phase # "before"
            <4>1. SUFFICES ASSUME st[j].at = "flush", st[j].phase = "before" PROVE FALSE
                OBVIOUS
            <4> QED  BY <3>3, <3>5, <4>1 DEF FrameFits
        <3> QED  BY <3>1, <3>2, <3>3, <3>4, <3>6, <3>9 DEF FrameFits
    <2> QED  BY <2>1, <2>2
<1>4. t[Len(t)] = st[Len(st)]
    BY <1>1, <1>2
<1>5. PhaseOf(t) = PhaseOf(st)
    BY <1>1, <1>4 DEF PhaseOf
<1> QED  BY <1>1, <1>3, <1>5 DEF Stacked

\* A getter is done: then there is nothing, or its reader or the flush goes on.
LEMMA EvaluationEnds ==
    ASSUME NEW st, Stacked(st), st # <<>>, st[1].at = "get", NEW t, Popped(st, t)
    PROVE  Stacked(t) /\ PhaseOf(t) = PhaseOf(st)
<1>1. /\ DOMAIN st = 1 .. Len(st) /\ DOMAIN t = 1 .. Len(t) /\ Len(t) = Len(st) - 1 /\ Len(st) \in Nat
      /\ t \in Seq(Range(t)) /\ Len(st) # 0 /\ (t = <<>> <=> Len(t) = 0)
    BY DEF Stacked, Popped
<1>2. \A i \in 1 .. Len(t) : t[i] = st[i + 1]
    BY DEF Popped
<1>3. ASSUME NEW i \in 1 .. Len(t)
      PROVE  FrameFits(t, i)
    <2> DEFINE j == i + 1
    <2>1. j \in 2 .. Len(st) /\ t[i] = st[j] /\ t[Len(t)] = st[Len(st)]
        BY <1>1, <1>2
    <2>2. j < Len(st) => t[i + 1] = st[j + 1]
        BY <1>1, <1>2
    <2>3. (j < Len(st) <=> i < Len(t)) /\ (j = Len(st) <=> i = Len(t)) /\ (j + 1 = Len(st) <=> i + 1 = Len(t))
        BY <1>1
    <2> HIDE DEF j
    <2>4. FrameFits(st, j)
        BY <1>1, <2>1 DEF Stacked
    <2>5. st[j].at # "writes" /\ (st[j].at = "flush" => st[j].phase # "before")
        BY <1>1, <2>1, <2>4 DEF FrameFits
    <2> QED  BY <2>1, <2>2, <2>3, <2>4, <2>5 DEF FrameFits
<1>4. PhaseOf(t) = PhaseOf(st)
    <2>1. CASE Len(st) = 1
        BY <1>1, <2>1 DEF PhaseOf
    <2>2. CASE Len(st) # 1
        <3>1. t[Len(t)] = st[Len(st)] /\ t # <<>>
            BY <1>1, <1>2, <2>2
        <3> QED  BY <1>1, <3>1 DEF PhaseOf
    <2> QED  BY <2>1, <2>2
<1> QED  BY <1>1, <1>3, <1>4 DEF Stacked

-----------------------------------------------------------------------------
(* The queue of the scheduler. *)

\* A set of numbers that is not empty has a smallest one.
LEMMA HasLeast ==
    ASSUME NEW S, S \subseteq Nat, S # {}
    PROVE  \E x \in S : \A y \in S : x =< y
<1> DEFINE R == OpToRel(<, Nat)
<1>1. IsWellFoundedOn(R, Nat)
    BY NatLessThanWellFounded
<1>2. \A x, y \in Nat : x < y => <<x, y>> \in R
    BY DEF OpToRel
<1> HIDE DEF R
<1>3. PICK x \in S : \A y \in S : ~ (<<y, x>> \in R)
    BY <1>1, WFMin
<1>4. \A y \in S : x =< y
    <2> TAKE y \in S
    <2>1. x \in Nat /\ y \in Nat /\ ~ (y < x)
        BY <1>2, <1>3
    <2> QED  BY <2>1
<1> QED  BY <1>3, <1>4

\* One that has an upper bound has a largest one, and a smallest one.
LEMMA MaxIs ==
    ASSUME NEW n \in Nat, NEW S \in SUBSET (0 .. n), S # {}
    PROVE  Max(S) \in S /\ \A y \in S : y <= Max(S)
<1> DEFINE T == {k \in Nat : \A y \in S : y <= k}
<1>1. n \in T
    OBVIOUS
<1>2. T \subseteq Nat
    OBVIOUS
<1>3. PICK k \in T : \A l \in T : k <= l
    <2> HIDE DEF T
    <2> QED  BY <1>1, <1>2, HasLeast
<1>4. k \in S
    <2>1. SUFFICES ASSUME k \notin S PROVE FALSE
        OBVIOUS
    <2>2. \A y \in S : y <= k - 1
        BY <1>3, <2>1
    <2>3. k - 1 \in Nat
        <3>1. PICK y \in S : y <= k - 1
            BY <2>2
        <3>2. y \in Nat /\ k \in Nat
            BY <1>3
        <3> QED  BY <3>1, <3>2
    <2>4. k - 1 \in T
        BY <2>2, <2>3
    <2> QED  BY <1>3, <2>4
<1>5. \E x \in S : \A y \in S : x >= y
    BY <1>3, <1>4
<1> QED  BY <1>5 DEF Max

LEMMA MinIs ==
    ASSUME NEW S, S \subseteq Nat, S # {}
    PROVE  Min(S) \in S /\ \A y \in S : Min(S) <= y
BY HasLeast DEF Min

\* r is q with w inserted behind position p.
Inserted(q, p, w, r) ==
    /\ r \in Seq(Watcher) /\ Len(r) = Len(q) + 1
    /\ r[p + 1] = w
    /\ \A i \in 1 .. p : r[i] = q[i]
    /\ \A i \in p + 1 .. Len(q) : r[i + 1] = q[i]

LEMMA InsertAtIs ==
    ASSUME NEW q \in Seq(Watcher), NEW w \in Watcher, NEW p \in 0 .. Len(q)
    PROVE  Inserted(q, p, w, InsertAt(q, 1 + p, w))
<1> DEFINE a == SubSeq(q, 1, p)
           b == SubSeq(q, p + 1, Len(q))
           r == (a \o <<w>>) \o b
<1>1. Len(q) \in Nat /\ p \in Nat
    OBVIOUS
<1>2. a \in Seq(Watcher) /\ Len(a) = p /\ \A i \in 1 .. p : a[i] = q[i]
    BY <1>1
<1>3. b \in Seq(Watcher) /\ Len(b) = Len(q) - p /\ \A i \in 1 .. Len(q) - p : b[i] = q[p + i]
    BY <1>1
<1>4. InsertAt(q, 1 + p, w) = r
    <2>1. (1 + p) - 1 = p /\ 1 + p = p + 1
        BY <1>1
    <2> QED  BY <2>1 DEF InsertAt
<1> HIDE DEF a, b
<1> DEFINE c == a \o <<w>>
<1>5. c \in Seq(Watcher) /\ Len(c) = p + 1 /\ c[p + 1] = w /\ \A i \in 1 .. p : c[i] = q[i]
    BY <1>1, <1>2
<1> HIDE DEF c
<1>6. (c \o b) \in Seq(Watcher) /\ Len(c \o b) = Len(q) + 1
    <2>1. (c \o b) \in Seq(Watcher) /\ Len(c \o b) = Len(c) + Len(b)
        <3>1. c \in Seq(Watcher)
            BY <1>5
        <3>2. b \in Seq(Watcher)
            BY <1>3
        <3> QED  BY <3>1, <3>2
    <2>2. Len(c) + Len(b) = Len(q) + 1
        BY <1>1, <1>3, <1>5
    <2> QED  BY <2>1, <2>2
<1>7. \A i \in 1 .. p + 1 : (c \o b)[i] = c[i]
    BY <1>1, <1>3, <1>5
<1>8. \A i \in p + 1 .. Len(q) : (c \o b)[i + 1] = q[i]
    <2> TAKE i \in p + 1 .. Len(q)
    <2>1. i - p \in 1 .. Len(q) - p /\ p + (i - p) = i /\ (i + 1) - (p + 1) = i - p
        BY <1>1
    <2>2. (c \o b)[i + 1] = b[(i + 1) - (p + 1)]
        BY <1>1, <1>3, <1>5
    <2> QED  BY <1>3, <2>1, <2>2
<1>9. r = c \o b
    BY DEF c
<1> HIDE DEF r
<1>10. \A i \in 1 .. p : i \in 1 .. p + 1
    BY <1>1
<1>11. p + 1 \in 1 .. p + 1
    BY <1>1
<1> QED  BY <1>4, <1>5, <1>6, <1>7, <1>8, <1>9, <1>10, <1>11 DEF Inserted

LEMMA AppendInserts ==
    ASSUME NEW q \in Seq(Watcher), NEW w \in Watcher
    PROVE  Inserted(q, Len(q), w, Append(q, w))
BY DEF Inserted

\* Inserted where it belongs, a watcher waits with the others.
LEMMA InsertedAwaits ==
    ASSUME NEW q, NEW h, NEW from \in Nat, NEW at \in Nat, Awaits(q, h, from, at),
           NEW w \in Watcher, IsQueued(w), w \notin h,
           NEW p \in 0 .. Len(q), from <= p + 1,
           at # 0 => /\ at <= p
                     /\ \A i \in at + 1 .. p : q[i] <= w
                     /\ \A i \in p + 1 .. Len(q) : w <= q[i],
           NEW r, Inserted(q, p, w, r)
    PROVE  Awaits(r, h \union {w}, from, at)
<1> DEFINE old(i) == IF i <= p THEN i ELSE i - 1
<1>1. /\ q \in Seq(Watcher) /\ Len(q) \in Nat /\ DOMAIN q = 1 .. Len(q)
      /\ r \in Seq(Watcher) /\ DOMAIN r = 1 .. Len(q) + 1 /\ r[p + 1] = w
    BY DEF Awaits, Inserted
<1>2. ASSUME NEW i \in DOMAIN r, i # p + 1
      PROVE  /\ old(i) \in DOMAIN q /\ r[i] = q[old(i)] /\ (from <= i => from <= old(i))
             /\ (i <= p => old(i) = i) /\ (i > p + 1 => old(i) = i - 1)
    <2>1. CASE i <= p
        BY <1>1, <2>1 DEF Inserted
    <2>2. CASE i > p + 1
        <3>1. i - 1 \in p + 1 .. Len(q) /\ (i - 1) + 1 = i /\ ~(i <= p)
            BY <1>1, <2>2
        <3>2. r[(i - 1) + 1] = q[i - 1]
            BY <3>1 DEF Inserted
        <3>3. old(i) = i - 1 /\ from <= i - 1
            BY <1>1, <2>2, <3>1
        <3> QED  BY <1>1, <2>2, <3>1, <3>2, <3>3
    <2> QED  BY <1>1, <1>2, <2>1, <2>2
<1>3. \A i \in DOMAIN q : q[i] \in Watcher
    BY <1>1
<1>4. \A i \in DOMAIN r : IsQueued(r[i])
    BY <1>1, <1>2 DEF Awaits
<1>5. \A i \in DOMAIN r : from <= i => r[i] \in h \union {w}
    BY <1>1, <1>2 DEF Awaits
<1>6. ASSUME NEW i \in DOMAIN r, NEW j \in DOMAIN r, from <= i, from <= j, r[i] = r[j]
      PROVE  i = j
    <2>1. CASE i = p + 1 /\ j # p + 1
        BY <1>1, <1>2, <1>6, <2>1 DEF Awaits
    <2>2. CASE i # p + 1 /\ j = p + 1
        BY <1>1, <1>2, <1>6, <2>2 DEF Awaits
    <2>3. CASE i # p + 1 /\ j # p + 1
        <3>1. old(i) = old(j)
            BY <1>2, <1>6, <2>3 DEF Awaits
        <3> QED  BY <1>1, <2>3, <3>1
    <2> QED  BY <2>1, <2>2, <2>3
<1>7. ASSUME NEW v \in h \union {w}
      PROVE  \E i \in DOMAIN r : from <= i /\ r[i] = v
    <2>1. CASE v = w
        <3>1. p + 1 \in DOMAIN r
            BY <1>1
        <3> QED  BY <1>1, <2>1, <3>1
    <2>2. CASE v # w
        <3>1. PICK i \in DOMAIN q : from <= i /\ q[i] = v
            BY <2>2, <1>7 DEF Awaits
        <3>2. CASE i <= p
            <4>1. i \in 1 .. p /\ i \in DOMAIN r
                BY <1>1, <3>2
            <4>2. r[i] = q[i]
                BY <4>1 DEF Inserted
            <4> QED  BY <3>1, <4>1, <4>2
        <3>3. CASE ~(i <= p)
            <4>1. i \in p + 1 .. Len(q) /\ i + 1 \in DOMAIN r /\ from <= i + 1
                BY <1>1, <3>1, <3>3
            <4>2. r[i + 1] = q[i]
                BY <4>1 DEF Inserted
            <4> QED  BY <3>1, <4>1, <4>2
        <3> QED  BY <3>2, <3>3
    <2> QED  BY <2>1, <2>2
<1>8. ASSUME at # 0, NEW i \in DOMAIN r, NEW j \in DOMAIN r, at < i, i < j
      PROVE  r[i] <= r[j]
    <2>1. CASE i = p + 1
        <3>1. j > p + 1 /\ old(j) = j - 1 /\ r[j] = q[j - 1] /\ j - 1 \in p + 1 .. Len(q)
            BY <1>1, <1>2, <1>8, <2>1
        <3> QED  BY <1>1, <1>8, <2>1, <3>1
    <2>2. CASE j = p + 1
        <3>1. i <= p /\ r[i] = q[i] /\ i \in at + 1 .. p
            BY <1>1, <1>2, <1>8, <2>2
        <3> QED  BY <1>1, <1>8, <2>2, <3>1
    <2>3. CASE i # p + 1 /\ j # p + 1
        <3>1. at < old(i) /\ old(i) < old(j)
            BY <1>1, <1>8, <2>3
        <3>2. old(i) \in DOMAIN q /\ old(j) \in DOMAIN q /\ r[i] = q[old(i)] /\ r[j] = q[old(j)]
            BY <1>2, <2>3
        <3> HIDE DEF old
        <3> QED  BY <1>8, <3>1, <3>2 DEF Awaits
    <2> QED  BY <2>1, <2>2, <2>3
<1>9. h \union {w} \subseteq Watcher
    BY DEF Awaits
<1> QED  BY <1>1, <1>4, <1>5, <1>6, <1>7, <1>8, <1>9 DEF Awaits

\* Where the queue stands.
Stands(q, from) ==
    /\ flushing \in BOOLEAN
    /\ flushing => index \in 1 .. Len(q) /\ from \in {index, index + 1}
    /\ ~flushing => index = 0 /\ from = 1

LEMMA PlaceAwaits ==
    ASSUME NEW q, NEW h, NEW from, Awaits(q, h, from, index), Stands(q, from),
           NEW w \in Watcher, IsQueued(w), w \notin h
    PROVE  /\ Awaits(Place(q, w), h \union {w}, from, index)
           /\ Stands(Place(q, w), from) /\ Len(Place(q, w)) = Len(q) + 1
           /\ flushing => Place(q, w)[index] = q[index]
<1>1. q \in Seq(Watcher) /\ Len(q) \in Nat /\ DOMAIN q = 1 .. Len(q) /\ index \in Nat /\ from \in Nat
    BY DEF Awaits, Stands
<1>2. CASE ~flushing
    <2>1. Place(q, w) = Append(q, w) /\ index = 0 /\ from = 1
        BY <1>2 DEF Place, Stands
    <2>2. Inserted(q, Len(q), w, Place(q, w))
        BY <1>1, <2>1, AppendInserts
    <2>3. Len(q) \in 0 .. Len(q) /\ from <= Len(q) + 1
        BY <1>1, <2>1
    <2>4. Awaits(Place(q, w), h \union {w}, from, index)
        BY <1>1, <2>1, <2>2, <2>3, InsertedAwaits
    <2> QED  BY <1>2, <2>1, <2>2, <2>4 DEF Stands, Inserted
<1>3. CASE flushing
    <2> DEFINE S == {index} \union {j \in index + 1 .. Len(q) : q[j] <= w}
               p == Max(S)
    <2>1. S \in SUBSET (0 .. Len(q)) /\ S # {} /\ index \in 1 .. Len(q)
        BY <1>1, <1>3 DEF Stands
    <2>2. p \in S /\ \A j \in S : j <= p
        <3> HIDE DEF S
        <3> QED  BY <1>1, <2>1, MaxIs
    <2>3. Place(q, w) = InsertAt(q, 1 + p, w)
        BY <1>3 DEF Place
    <2> HIDE DEF p
    <2>4. p \in 0 .. Len(q) /\ index <= p /\ p \in Nat
        BY <1>1, <2>1, <2>2
    <2>5. ASSUME NEW i \in index + 1 .. p
          PROVE  q[i] <= w
        <3>1. p \in index + 1 .. Len(q) /\ q[p] <= w /\ p \in DOMAIN q /\ i \in DOMAIN q /\ index # 0
            BY <1>1, <2>1, <2>2, <2>4
        <3>2. q[i] \in Int /\ q[p] \in Int /\ w \in Int
            <4>1. q[i] \in Watcher /\ q[p] \in Watcher
                BY <1>1, <3>1
            <4> QED  BY <4>1, LastWatcherAssumption DEF Watcher
        <3>3. i = p \/ q[i] <= q[p]
            BY <1>1, <2>4, <3>1 DEF Awaits
        <3> QED  BY <3>1, <3>2, <3>3
    <2>6. ASSUME NEW i \in p + 1 .. Len(q)
          PROVE  w <= q[i]
        <3>1. i \in index + 1 .. Len(q) /\ i \in DOMAIN q /\ ~(i <= p)
            BY <1>1, <2>1, <2>4
        <3>2. ~(q[i] <= w)
            BY <2>2, <3>1
        <3>3. q[i] \in Int /\ w \in Int
            <4>1. q[i] \in Watcher
                BY <1>1, <3>1
            <4> QED  BY <4>1, LastWatcherAssumption DEF Watcher
        <3> QED  BY <3>2, <3>3
    <2>7. Inserted(q, p, w, Place(q, w))
        BY <1>1, <2>3, <2>4, InsertAtIs
    <2>8. from <= p + 1
        BY <1>1, <1>3, <2>4 DEF Stands
    <2>9. Awaits(Place(q, w), h \union {w}, from, index)
        BY <1>1, <2>4, <2>5, <2>6, <2>7, <2>8, InsertedAwaits
    <2>10. Len(Place(q, w)) = Len(q) + 1
        BY <2>7 DEF Inserted
    <2>11. Place(q, w)[index] = q[index]
        <3>1. index \in 1 .. p
            BY <1>1, <2>1, <2>4
        <3> QED  BY <2>7, <3>1 DEF Inserted
    <2> QED  BY <1>1, <1>3, <2>9, <2>10, <2>11 DEF Stands
<1> QED  BY <1>2, <1>3 DEF Stands

\* The loop over the subscribers, as a function of how many were told.
TurnsOf(f, s, ws, m) == f = [i \in 0 .. m |-> IF i = 0 THEN s ELSE Queued(f[i - 1], ws[i])]

LEMMA TurnsExist ==
    ASSUME NEW s, NEW ws, NEW m \in Nat
    PROVE  \E f : TurnsOf(f, s, ws, m)
<1> DEFINE S == {k \in Nat : ~ \E f : TurnsOf(f, s, ws, k)}
<1> SUFFICES ASSUME S # {}
             PROVE  FALSE
    OBVIOUS
<1>1. PICK k \in S : \A j \in S : k =< j
    <2>1. S \subseteq Nat
        OBVIOUS
    <2> HIDE DEF S
    <2> QED  BY <2>1, HasLeast
<1>2. k # 0
    <2>1. TurnsOf([i \in 0 .. 0 |-> s], s, ws, 0)
        BY DEF TurnsOf
    <2> QED  BY <1>1, <2>1
<1>3. k \in Nat /\ k - 1 \in Nat
    BY <1>1, <1>2
<1>4. PICK g : TurnsOf(g, s, ws, k - 1)
    BY <1>1, <1>3
<1> DEFINE f == [i \in 0 .. k |-> IF i = k THEN Queued(g[k - 1], ws[k]) ELSE g[i]]
<1>5. \A i \in 0 .. k : f[i] = IF i = 0 THEN s ELSE Queued(f[i - 1], ws[i])
    <2> TAKE i \in 0 .. k
    <2>1. CASE i = 0
        <3>1. f[i] = g[0] /\ 0 \in 0 .. k - 1
            BY <1>2, <1>3, <2>1
        <3> QED  BY <1>4, <2>1, <3>1 DEF TurnsOf
    <2>2. CASE i = k
        <3>1. f[i] = Queued(g[k - 1], ws[k]) /\ f[i - 1] = g[k - 1]
            BY <1>2, <1>3, <2>2
        <3> QED  BY <1>2, <2>2, <3>1
    <2>3. CASE i # 0 /\ i # k
        <3>1. f[i] = g[i] /\ f[i - 1] = g[i - 1] /\ i \in 0 .. k - 1
            BY <1>3, <2>3
        <3>2. g[i] = Queued(g[i - 1], ws[i])
            BY <1>4, <2>3, <3>1 DEF TurnsOf
        <3> QED  BY <2>3, <3>1, <3>2
    <2> QED  BY <2>1, <2>2, <2>3
<1>6. f = [i \in 0 .. k |-> f[i]]
    OBVIOUS
<1> HIDE DEF f
<1>7. TurnsOf(f, s, ws, k)
    BY <1>5, <1>6 DEF TurnsOf
<1> QED  BY <1>1, <1>7

\* However many were told, those that wait do so as they should, the queue grew
\* if anything was added to has, and the one that runs stays in its place.
QueuedFrom(s, t, from) ==
    /\ Awaits(t.queue, t.has, from, index) /\ Stands(t.queue, from)
    /\ s.has \subseteq t.has /\ (t.has = s.has => t.queue = s.queue)
    /\ flushing => t.queue[index] = s.queue[index]

LEMMA QueuedKeeps ==
    ASSUME NEW s, NEW t, NEW from, QueuedFrom(s, t, from), NEW w \in Watcher
    PROVE  QueuedFrom(s, Queued(t, w), from)
<1>1. CASE IsQueued(w) /\ w \notin t.has
    <2> DEFINE u == Queued(t, w)
    <2>1. u.queue = Place(t.queue, w) /\ u.has = t.has \union {w}
        BY <1>1 DEF Queued
    <2>2. /\ Awaits(u.queue, u.has, from, index) /\ Stands(u.queue, from)
          /\ flushing => u.queue[index] = t.queue[index]
        <3>1. Awaits(t.queue, t.has, from, index) /\ Stands(t.queue, from)
            BY DEF QueuedFrom
        <3> DEFINE q == t.queue
                   h == t.has
        <3>2. Awaits(q, h, from, index) /\ Stands(q, from) /\ w \notin h /\ IsQueued(w)
            BY <1>1, <3>1
        <3> HIDE DEF q, h
        <3>3. /\ Awaits(Place(q, w), h \union {w}, from, index) /\ Stands(Place(q, w), from)
              /\ flushing => Place(q, w)[index] = q[index]
            BY <3>2, PlaceAwaits
        <3> QED  BY <2>1, <3>3 DEF q, h
    <2> HIDE DEF u
    <2>3. s.has \subseteq u.has /\ u.has # s.has
        BY <1>1, <2>1 DEF QueuedFrom
    <2> QED  BY <2>2, <2>3 DEF QueuedFrom, u
<1>2. CASE ~(IsQueued(w) /\ w \notin t.has)
    BY <1>2 DEF Queued
<1> QED  BY <1>1, <1>2

LEMMA TurnsKeep ==
    ASSUME NEW s, NEW from, QueuedFrom(s, s, from), NEW ws \in Seq(Watcher),
           NEW f, TurnsOf(f, s, ws, Len(ws))
    PROVE  QueuedFrom(s, f[Len(ws)], from)
<1> DEFINE m == Len(ws)
           S == {k \in 0 .. m : ~QueuedFrom(s, f[k], from)}
<1>1. m \in Nat /\ \A i \in 1 .. m : ws[i] \in Watcher
    OBVIOUS
<1>2. f[0] = s /\ \A k \in 1 .. m : f[k] = Queued(f[k - 1], ws[k])
    BY <1>1 DEF TurnsOf
<1> HIDE DEF m
<1>3. S = {}
    <2> SUFFICES ASSUME S # {} PROVE FALSE
        OBVIOUS
    <2>1. PICK k \in S : \A j \in S : k =< j
        <3>1. S \subseteq Nat
            OBVIOUS
        <3> HIDE DEF S
        <3> QED  BY <3>1, HasLeast
    <2>2. k \in 0 .. m /\ ~QueuedFrom(s, f[k], from)
        BY <2>1
    <2>3. k # 0
        BY <1>2, <2>2
    <2>4. k \in 1 .. m /\ k - 1 \in 0 .. m /\ k - 1 < k
        BY <1>1, <2>2, <2>3
    <2>5. QueuedFrom(s, f[k - 1], from)
        <3>1. k - 1 \notin S
            BY <1>1, <2>1, <2>4
        <3> QED  BY <2>4, <3>1
    <2>6. QueuedFrom(s, Queued(f[k - 1], ws[k]), from)
        BY <1>1, <2>4, <2>5, QueuedKeeps
    <2> QED  BY <1>2, <2>2, <2>4, <2>6
<1>4. m \in 0 .. m
    BY <1>1
<1>5. QueuedFrom(s, f[m], from)
    BY <1>3, <1>4
<1> QED  BY <1>5 DEF m

\* The subscribers of a dep are told, while a callback or a hook runs or a task.
LEMMA NotifyFits ==
    ASSUME Scheduled, PhaseOf(stack) \in {"none", "run", "after"},
           NEW ws \in Seq(Watcher), QueueWatchers(ws),
           UNCHANGED <<index, flushing>>, PhaseOf(stack') = PhaseOf(stack)
    PROVE  Scheduled' /\ (flushing => UNCHANGED Running)
<1> DEFINE phase == Position
           from == From(phase)
           s == [queue |-> queue, has |-> has]
<1>1. /\ Awaits(queue, has, from, index)
      /\ flushing = (phase # "none")
      /\ waiting = (flushing \/ pending) /\ ~(flushing /\ pending)
      /\ pending \in BOOLEAN
      /\ ~waiting => queue = <<>>
      /\ IF flushing THEN index \in 1 .. Len(queue) + 1 ELSE index = 0
      /\ phase \in {"run", "after"} => index <= Len(queue)
    BY DEF Scheduled
<1>2. PICK end : /\ QueuedFrom(s, s, from) => QueuedFrom(s, end, from)
                 /\ queue' = end.queue /\ has' = end.has
                 /\ waiting' = (waiting \/ end.has # has)
                 /\ pending' = (pending \/ (end.has # has /\ ~waiting))
    <2> DEFINE f == CHOOSE g : TurnsOf(g, s, ws, Len(ws))
    <2>1. TurnsOf(f, s, ws, Len(ws))
        <3>1. Len(ws) \in Nat
            OBVIOUS
        <3>2. \E g : TurnsOf(g, s, ws, Len(ws))
            BY <3>1, TurnsExist
        <3> QED  BY <3>2
    <2>2. LET end == f[Len(ws)]
          IN  /\ queue' = end.queue /\ has' = end.has
              /\ waiting' = (waiting \/ end.has # has)
              /\ pending' = (pending \/ (end.has # has /\ ~waiting))
        BY DEF QueueWatchers, TurnsOf
    <2>3. QueuedFrom(s, s, from) => QueuedFrom(s, f[Len(ws)], from)
        <3> HIDE DEF f, s, from
        <3> QED  BY <2>1, TurnsKeep
    <2> HIDE DEF f
    <2> QED  BY <2>2, <2>3
<1>3. phase \in {"none", "run", "after"}
    BY DEF Position
<1>4. queue \in Seq(Watcher) /\ Len(queue) \in Nat
    BY <1>1 DEF Awaits
<1>5. Stands(queue, from)
    <2>1. flushing \in BOOLEAN
        BY <1>1
    <2>2. CASE phase = "none"
        BY <1>1, <2>1, <2>2 DEF Stands, From
    <2>3. CASE phase \in {"run", "after"}
        <3>1. flushing /\ index \in 1 .. Len(queue) + 1 /\ index <= Len(queue)
            BY <1>1, <2>3
        <3>2. index \in 1 .. Len(queue)
            BY <1>4, <3>1
        <3>3. from \in {index, index + 1}
            BY <2>3 DEF From
        <3> QED  BY <2>1, <3>1, <3>2, <3>3 DEF Stands
    <2> QED  BY <1>3, <2>2, <2>3
<1>6. s.queue = queue /\ s.has = has
    OBVIOUS
<1>7. QueuedFrom(s, s, from)
    BY <1>1, <1>5, <1>6 DEF QueuedFrom
<1>8. QueuedFrom(s, end, from)
    BY <1>2, <1>7
<1>9. /\ Awaits(queue', has', from, index) /\ Stands(queue', from)
      /\ has' = has => queue' = queue
      /\ flushing => UNCHANGED Running
    BY <1>2, <1>6, <1>8 DEF QueuedFrom, Running
<1>10. /\ Position' = phase /\ index' = index /\ flushing' = flushing /\ From(phase)' = from
    BY DEF From, Position
<1>11. IF flushing THEN index \in 1 .. Len(queue') + 1 /\ index <= Len(queue') ELSE index = 0
    <2>1. Len(queue') \in Nat
        BY <1>9 DEF Awaits
    <2> QED  BY <1>9, <2>1 DEF Stands
<1>12. /\ waiting' = (flushing' \/ pending') /\ ~(flushing' /\ pending')
       /\ pending' \in BOOLEAN
       /\ ~waiting' => queue' = <<>>
    BY <1>1, <1>2, <1>9, <1>10
<1> HIDE DEF phase, from, s
<1>13. Awaits(queue', has', From(phase'), index') /\ flushing' = (phase' # "none")
    <2>1. From(phase') = from
        BY <1>10 DEF phase, from, From
    <2> QED  BY <1>1, <1>9, <1>10, <2>1 DEF phase
<1> QED  BY <1>1, <1>9, <1>10, <1>11, <1>12 DEF Scheduled, phase, from

-----------------------------------------------------------------------------
(* The lists of subscribers. *)

LEMMA RemoveSubIs ==
    ASSUME NEW s \in Seq(Watcher), NEW w
    PROVE  /\ RemoveSub(s, w) \in Seq(Watcher)
           /\ IsInjective(s) => /\ IsInjective(RemoveSub(s, w))
                                /\ Range(RemoveSub(s, w)) = Range(s) \ {w}
<1>1. Len(s) \in Nat /\ DOMAIN s = 1 .. Len(s)
    OBVIOUS
<1>2. CASE w \notin Range(s)
    BY <1>2 DEF RemoveSub
<1>3. CASE w \in Range(s)
    <2> DEFINE m == Min({i \in DOMAIN s : s[i] = w})
               p == SubSeq(s, 1, m - 1)
               q == SubSeq(s, m + 1, Len(s))
               r == p \o q
               old(i) == IF i < m THEN i ELSE i + 1
    <2>1. m \in 1 .. Len(s) /\ s[m] = w
        <3> DEFINE S == {i \in DOMAIN s : s[i] = w}
        <3>1. S \subseteq Nat /\ S # {}
            BY <1>1, <1>3 DEF Range
        <3> HIDE DEF S
        <3>2. Min(S) \in S
            BY <3>1, MinIs
        <3> QED  BY <1>1, <3>2 DEF S
    <2>2. RemoveSub(s, w) = r
        BY <1>3 DEF RemoveSub, RemoveAt
    <2> HIDE DEF m
    <2>3. p \in Seq(Watcher) /\ Len(p) = m - 1 /\ \A i \in 1 .. m - 1 : p[i] = s[i]
        BY <1>1, <2>1
    <2>4. q \in Seq(Watcher) /\ Len(q) = Len(s) - m /\ \A i \in 1 .. Len(s) - m : q[i] = s[m + i]
        <3>1. m \in Nat /\ m <= Len(s)
            BY <1>1, <2>1
        <3>2. q \in Seq(Watcher) /\ Len(q) = Len(s) - m
            <4> DEFINE n == Len(s)
            <4>1. n \in Nat /\ m \in Nat /\ m <= n /\ \A i \in 1 .. n : s[i] \in Watcher
                BY <1>1, <3>1
            <4>2. SubSeq(s, m + 1, n) \in Seq(Watcher)
                BY <4>1
            <4>3. Len(SubSeq(s, m + 1, n)) = n - m
                BY <4>1
            <4> QED  BY <4>2, <4>3
        <3>3. \A i \in 1 .. Len(s) - m : q[i] = s[i + m] /\ i + m = m + i
            BY <1>1, <3>1
        <3> QED  BY <3>2, <3>3
    <2> HIDE DEF p, q
    <2>5. r \in Seq(Watcher) /\ Len(r) = Len(p) + Len(q)
        <3>1. p \in Seq(Watcher)
            BY <2>3
        <3>2. q \in Seq(Watcher)
            BY <2>4
        <3> QED  BY <3>1, <3>2
    <2>6. Len(r) = Len(s) - 1 /\ DOMAIN r = 1 .. Len(s) - 1
        <3>1. Len(p) + Len(q) = Len(s) - 1
            BY <1>1, <2>1, <2>3, <2>4
        <3>2. DOMAIN r = 1 .. Len(r)
            BY <2>5
        <3> QED  BY <2>5, <3>1, <3>2
    <2>7. ASSUME NEW i \in 1 .. Len(s) - 1
          PROVE  r[i] = s[old(i)] /\ old(i) \in 1 .. Len(s) /\ old(i) # m
        <3>1. CASE i < m
            BY <1>1, <2>1, <2>3, <2>4, <3>1
        <3>2. CASE ~(i < m)
            <4>1. i - (m - 1) \in 1 .. Len(s) - m /\ m + (i - (m - 1)) = i + 1 /\ ~(i <= m - 1)
                BY <1>1, <2>1, <3>2
            <4>2. r[i] = q[i - (m - 1)]
                BY <1>1, <2>1, <2>3, <2>4, <4>1
            <4> QED  BY <1>1, <2>1, <2>4, <3>2, <4>1, <4>2
        <3> QED  BY <3>1, <3>2
    <2> HIDE DEF r
    <2>8. ASSUME IsInjective(s)
          PROVE  IsInjective(r) /\ Range(r) = Range(s) \ {w}
        <3>1. ASSUME NEW i \in DOMAIN r, NEW j \in DOMAIN r, r[i] = r[j]
              PROVE  i = j
            <4>1. old(i) = old(j)
                BY <1>1, <2>6, <2>7, <2>8, <3>1 DEF IsInjective
            <4> QED  BY <1>1, <2>1, <2>6, <4>1
        <3>2. ASSUME NEW i \in DOMAIN r
              PROVE  r[i] \in Range(s) \ {w}
            BY <1>1, <2>1, <2>6, <2>7, <2>8 DEF IsInjective, Range
        <3>3. ASSUME NEW j \in DOMAIN s, s[j] # w
              PROVE  s[j] \in Range(r)
            <4> DEFINE i == IF j < m THEN j ELSE j - 1
            <4>1. i \in 1 .. Len(s) - 1 /\ old(i) = j
                BY <1>1, <2>1, <3>3
            <4>2. r[i] = s[j] /\ i \in DOMAIN r
                BY <2>6, <2>7, <4>1
            <4> QED  BY <4>2 DEF Range
        <3> QED  BY <3>1, <3>2, <3>3 DEF IsInjective, Range
    <2> QED  BY <2>2, <2>5, <2>8
<1> QED  BY <1>2, <1>3

-----------------------------------------------------------------------------
(* Every step keeps the calls and the queue in order. *)

LEMMA ScheduledStays ==
    ASSUME Scheduled, UNCHANGED <<queueVars, index, flushing>>, PhaseOf(stack') = PhaseOf(stack)
    PROVE  Scheduled' /\ BreaksNothing
<1>1. \A phase : From(phase)' = From(phase)
    BY DEF From
<1>2. Position' = Position
    BY DEF Position
<1>3. Scheduled'
    BY <1>1, <1>2 DEF Scheduled, queueVars, From
<1>4. BreaksNothing
    BY DEF BreaksNothing, Running, queueVars
<1> QED  BY <1>3, <1>4

LEMMA SchedulerStart == ReactInit => SchedulerInv
<1> SUFFICES ASSUME ReactInit PROVE SchedulerInv
    OBVIOUS
<1> DEFINE none == <<>>
<1>1. none \in Seq(Range(none)) /\ none \in Seq(Watcher) /\ DOMAIN none = {}
    OBVIOUS
<1>2. Stacked(none) /\ PhaseOf(none) = "none"
    BY <1>1 DEF Stacked, PhaseOf
<1>3. stack = none /\ queue = none /\ has = {} /\ subs = [d \in Dep |-> none]
    BY DEF ReactInit
<1> HIDE DEF none
<1>4. Awaits(none, {}, 1, 0)
    BY <1>1 DEF Awaits
<1>5. Scheduled
    BY <1>2, <1>3, <1>4 DEF Scheduled, From, Position, ReactInit, none
<1> QED  BY <1>1, <1>2, <1>3, <1>5 DEF SchedulerInv

LEMMA TopIs ==
    ASSUME Stacked(stack), stack # <<>>
    PROVE  /\ Top = stack[1] /\ FrameFits(stack, 1) /\ 1 \in DOMAIN stack
           /\ stack \in Seq(Range(stack)) /\ Len(stack) \in Nat \ {0} /\ DOMAIN stack = 1 .. Len(stack)
<1>1. stack \in Seq(Range(stack))
    BY DEF Stacked
<1>2. Top = stack[1] /\ Len(stack) \in Nat \ {0} /\ DOMAIN stack = 1 .. Len(stack)
    BY <1>1 DEF Top
<1> QED  BY <1>1, <1>2 DEF Stacked

\* A read: the getter goes on, perhaps after that of a computed property.
LEMMA SeeIs ==
    ASSUME Stacked(stack), stack # <<>>, Top.at = "get", NEW v, NEW ds, See(v, ds)
    PROVE  /\ GetsSame(Top, [Top EXCEPT !.seen = Append(@, v), !.new = @ \union ds])
           /\ [Top EXCEPT !.seen = Append(@, v), !.new = @ \union ds].new = Top.new \union ds
           /\ Replaced(stack, [Top EXCEPT !.seen = Append(@, v), !.new = @ \union ds], stack')
           /\ Stacked(stack') /\ PhaseOf(stack') = PhaseOf(stack)
<1>1. FrameFits(stack, 1) /\ Top = stack[1] /\ stack \in Seq(Range(stack))
    BY TopIs
<1> DEFINE g == [Top EXCEPT !.seen = Append(@, v), !.new = @ \union ds]
<1>2. GetsSame(Top, g) /\ g.new = Top.new \union ds
    BY <1>1 DEF FrameFits, GetsSame
<1>3. stack' = <<g>> \o Tail(stack)
    BY DEF See, Replace
<1> HIDE DEF g
<1>4. Replaced(stack, g, stack')
    BY <1>1, <1>3, ReplaceIs
<1>5. Stacked(stack') /\ PhaseOf(stack') = PhaseOf(stack)
    <2>1. \A t : t = stack' => Stacked(t) /\ PhaseOf(t) = PhaseOf(stack)
        BY <1>1, <1>2, <1>4, EvaluationGoesOn
    <2> QED  BY <2>1
<1> QED  BY <1>2, <1>4, <1>5 DEF g

\* Subscribing and unsubscribing leave lists of watchers.
LEMMA SubscribeTypes ==
    ASSUME subs \in [Dep -> Seq(Watcher)], Top.w \in Watcher, NEW ds, Subscribe(ds)
    PROVE  subs' \in [Dep -> Seq(Watcher)]
<1>1. \A d \in Dep : subs[d] \in Seq(Watcher) /\ Append(subs[d], Top.w) \in Seq(Watcher)
    OBVIOUS
<1> QED  BY <1>1 DEF Subscribe

LEMMA RemovalTypes ==
    ASSUME subs \in [Dep -> Seq(Watcher)], NEW w, NEW ds,
           subs' = [d \in Dep |-> IF d \in ds THEN RemoveSub(subs[d], w) ELSE subs[d]]
    PROVE  subs' \in [Dep -> Seq(Watcher)]
<1>1. \A d \in Dep : subs[d] \in Seq(Watcher) /\ RemoveSub(subs[d], w) \in Seq(Watcher)
    BY RemoveSubIs
<1> QED  BY <1>1

\* A computed property that is dirty is evaluated before its reader goes on.
EvaluatesFirst(do) ==
    /\ do = Read(Top.w, Top.seen) /\ do.op = "computed" /\ do.id \in Computed /\ do.id \in dirty
    /\ Pushed(stack, GetFrame(do.id, "evaluate"), stack') /\ UNCHANGED subs

LEMMA ReadIs ==
    ASSUME stack \in Seq(Range(stack)), ReadCell \/ ReadComputed
    PROVE  /\ UNCHANGED <<queueVars, index, flushing, dirty, watcherVars>>
           /\ \/ \E v, ds : See(v, ds) /\ (deps \in [Watcher -> SUBSET Dep] => ds \subseteq Dep)
              \/ \E do : EvaluatesFirst(do)
<1>1. CASE ReadCell
    <2> DEFINE do == Read(Top.w, Top.seen)
    <2>1. do.id \in Cell /\ See(CellValue(do.id), CellDeps(do.id))
        BY <1>1 DEF ReadCell
    <2>2. CellDeps(do.id) \subseteq Dep
        BY <2>1 DEF CellDeps, Dep
    <2> QED  BY <1>1, <2>1, <2>2 DEF ReadCell, flushVars
<1>2. CASE ReadComputed
    <2> DEFINE do == Read(Top.w, Top.seen)
    <2>1. UNCHANGED <<queueVars, index, flushing, dirty, watcherVars>>
        BY <1>2 DEF ReadComputed, flushVars
    <2>2. do.op = "computed" /\ do.id \in Computed
        BY <1>2 DEF ReadComputed
    <2>3. CASE do.id \in dirty
        <3> DEFINE f == GetFrame(do.id, "evaluate")
        <3>1. stack' = <<f>> \o stack /\ UNCHANGED subs
            BY <1>2, <2>3 DEF ReadComputed, Push
        <3> HIDE DEF f
        <3>2. Pushed(stack, f, stack')
            BY <3>1, PushIs
        <3>3. EvaluatesFirst(do)
            BY <2>2, <2>3, <3>1, <3>2 DEF EvaluatesFirst, f
        <3> QED  BY <2>1, <3>3
    <2>4. CASE do.id \notin dirty
        <3>1. See(value[do.id], deps[do.id])
            BY <1>2, <2>4 DEF ReadComputed
        <3>2. deps \in [Watcher -> SUBSET Dep] => deps[do.id] \subseteq Dep
            BY <2>2 DEF Computed
        <3> QED  BY <2>1, <3>1, <3>2
    <2> QED  BY <2>3, <2>4
<1> QED  BY <1>1, <1>2

LEMMA ReadFits ==
    ASSUME SchedulerInv, stack # <<>>, Top.at = "get", ReadCell \/ ReadComputed
    PROVE  SchedulerInv' /\ BreaksNothing
<1>1. /\ Stacked(stack) /\ FrameFits(stack, 1) /\ Top = stack[1] /\ stack \in Seq(Range(stack))
      /\ Scheduled /\ subs \in [Dep -> Seq(Watcher)]
    BY TopIs DEF SchedulerInv
<1>2. Top.w \in Watcher
    BY <1>1 DEF FrameFits
<1>3. UNCHANGED <<queueVars, index, flushing>>
    BY <1>1, ReadIs
<1>4. CASE \E v, ds : See(v, ds)
    <2>1. PICK v, ds : See(v, ds)
        BY <1>4
    <2>2. Stacked(stack') /\ PhaseOf(stack') = PhaseOf(stack)
        BY <1>1, <2>1, SeeIs
    <2>3. subs' \in [Dep -> Seq(Watcher)]
        BY <1>1, <1>2, <2>1, SubscribeTypes DEF See
    <2>4. Scheduled' /\ BreaksNothing
        BY <1>1, <1>3, <2>2, ScheduledStays
    <2> QED  BY <2>2, <2>3, <2>4 DEF SchedulerInv
<1>5. CASE \E do : EvaluatesFirst(do)
    <2>1. PICK do : EvaluatesFirst(do)
        BY <1>5
    <2> DEFINE f == GetFrame(do.id, "evaluate")
    <2>2. f.at = "get" /\ f.w \in Computed /\ f.then = "evaluate"
          /\ {"at", "w", "seen", "new", "then", "thrown"} \subseteq DOMAIN f
        BY <2>1 DEF GetFrame, EvaluatesFirst
    <2>3. Pushed(stack, f, stack') /\ UNCHANGED subs
        BY <2>1 DEF EvaluatesFirst
    <2> HIDE DEF f
    <2>4. \A t : t = stack' => Stacked(t) /\ PhaseOf(t) = PhaseOf(stack)
        BY <1>1, <2>2, <2>3, ComputedIsEvaluated
    <2>5. Stacked(stack') /\ PhaseOf(stack') = PhaseOf(stack)
        BY <2>4
    <2>6. Scheduled' /\ BreaksNothing
        BY <1>1, <1>3, <2>5, ScheduledStays
    <2> QED  BY <1>1, <2>3, <2>5, <2>6 DEF SchedulerInv
<1> QED  BY <1>1, <1>4, <1>5, ReadIs

\* A callback takes the place of its watcher's getter.
LEMMA CallbackRuns ==
    ASSUME NEW st, Stacked(st), st # <<>>, st[1].at = "get", st[1].then = "run", NEW list,
           NEW t, Replaced(st, [at |-> "writes", list |-> list], t)
    PROVE  Stacked(t) /\ PhaseOf(t) = PhaseOf(st)
<1>1. /\ DOMAIN st = 1 .. Len(st) /\ DOMAIN t = 1 .. Len(t) /\ Len(t) = Len(st) /\ Len(st) \in Nat
      /\ t \in Seq(Range(t)) /\ t # <<>> /\ Len(st) # 0
    BY DEF Stacked, Replaced
<1>2. FrameFits(st, 1)
    BY <1>1 DEF Stacked
<1>3. Len(st) = 2 /\ st[2].at = "flush"
    <2>1. 1 + 1 = Len(st) /\ st[Len(st)].at = "flush"
        BY <1>2 DEF FrameFits
    <2>2. Len(st) = 2
        BY <2>1
    <2> QED  BY <2>1, <2>2
<1>4. t[1] = [at |-> "writes", list |-> list] /\ t[2] = st[2]
    BY <1>1, <1>3 DEF Replaced
<1>5. FrameFits(st, 2)
    BY <1>1, <1>3 DEF Stacked
<1>6. FrameFits(t, 2)
    BY <1>1, <1>3, <1>4, <1>5 DEF FrameFits
<1>7. FrameFits(t, 1)
    <2>1. {"at", "list"} \subseteq DOMAIN t[1] /\ t[1].at = "writes"
        BY <1>4
    <2> QED  BY <1>1, <1>3, <1>4, <2>1 DEF FrameFits
<1>8. \A i \in DOMAIN t : i = 1 \/ i = 2
    BY <1>1, <1>3
<1> QED  BY <1>1, <1>3, <1>4, <1>6, <1>7, <1>8 DEF Stacked, PhaseOf

\* How the stack goes on after a getter: the callback, the caller, or the caller,
\* to which a computed property throws.
Leaves(st, t) ==
    \/ st[1].then = "run" /\ \E list : Replaced(st, [at |-> "writes", list |-> list], t)
    \/ Popped(st, t)
    \/ \E u : /\ ~IsQueued(st[1].w) /\ Popped(st, u) /\ u # <<>> /\ u[1].at = "get"
              /\ Replaced(u, [u[1] EXCEPT !.thrown = TRUE], t)

LEMMA GetterLeaves ==
    ASSUME Stacked(stack), stack # <<>>, Top.at = "get", GetDone \/ GetThrows
    PROVE  Leaves(stack, stack') /\ CleanupDeps /\ UNCHANGED <<queueVars, index, flushing, active, born>>
           /\ dirty' \subseteq dirty
<1>1. /\ Stacked(stack) /\ FrameFits(stack, 1) /\ Top = stack[1] /\ stack \in Seq(Range(stack))
      /\ Len(stack) \in Nat \ {0}
    BY TopIs
<1>2. CleanupDeps /\ UNCHANGED <<queueVars, index, flushing, active, born>> /\ dirty' \subseteq dirty
    BY DEF GetDone, GetThrows, flushVars
<1> DEFINE Writing(l) == [at |-> "writes", list |-> l]
           Leaving == \/ stack' = Tail(stack)
                      \/ Top.then = "run" /\ \E l : stack' = <<Writing(l)>> \o Tail(stack)
<1>3. ASSUME Leaving PROVE Leaves(stack, stack')
    <2>1. CASE stack' = Tail(stack)
        BY <1>1, <2>1, PopIs DEF Leaves
    <2>2. ASSUME NEW l, Top.then = "run", stack' = <<Writing(l)>> \o Tail(stack)
          PROVE  Leaves(stack, stack')
        <3>1. Replaced(stack, Writing(l), stack')
            <4> HIDE DEF Writing
            <4> QED  BY <1>1, <2>2, ReplaceIs
        <3> QED  BY <1>1, <2>2, <3>1 DEF Leaves
    <2> QED  BY <1>3, <2>1, <2>2
<1>4. CASE GetDone
    <2>1. Leaving
        <3> DEFINE l == CallbackDoes(Top.w, Top.seen)
        <3>1. stack' = Tail(stack) \/ (Top.then = "run" /\ stack' = <<Writing(l)>> \o Tail(stack))
            BY <1>4 DEF GetDone, Returns, Pop, Replace
        <3> HIDE DEF l
        <3> QED  BY <3>1
    <2> QED  BY <1>2, <1>3, <2>1
<1>5. CASE GetThrows /\ Kind[Top.w] # "lazy"
    <2>1. Leaving
        <3> DEFINE l == CallbackDoes(Top.w, Undefined)
        <3>1. stack' = Tail(stack) \/ (Top.then = "run" /\ stack' = <<Writing(l)>> \o Tail(stack))
            BY <1>5 DEF GetThrows, Returns, Pop, Replace
        <3> HIDE DEF l
        <3> QED  BY <3>1
    <2> QED  BY <1>2, <1>3, <2>1
<1>6. CASE GetThrows /\ Kind[Top.w] = "lazy"
    <2> DEFINE u == Tail(stack)
               g == [u[1] EXCEPT !.thrown = TRUE]
    <2>1. ~IsQueued(stack[1].w) /\ 1 < Len(stack) /\ stack[2].at = "get"
        BY <1>1, <1>6 DEF FrameFits, IsQueued
    <2>2. Popped(stack, u)
        BY <1>1, PopIs
    <2>3. stack' = [u EXCEPT ![1].thrown = TRUE]
        BY <1>6 DEF GetThrows
    <2> HIDE DEF u
    <2>4. /\ u \in Seq(Range(u)) /\ Len(u) = Len(stack) - 1 /\ u[1] = stack[2]
          /\ DOMAIN u = 1 .. Len(u) /\ u # <<>> /\ Len(u) \in Nat \ {0}
        <3>1. Len(u) = Len(stack) - 1 /\ u \in Seq(Range(u)) /\ 1 \in 1 .. Len(u)
            BY <1>1, <2>1, <2>2 DEF Popped
        <3>2. u[1] = stack[1 + 1]
            BY <2>2, <3>1 DEF Popped
        <3> QED  BY <1>1, <3>1, <3>2
    <2>5. stack' = [u EXCEPT ![1] = g]
        BY <2>3
    <2> HIDE DEF g
    <2>6. Replaced(u, g, stack')
        <3> DEFINE S == Range(u) \union {g}
        <3>1. u \in [1 .. Len(u) -> S]
            BY <2>4 DEF Range
        <3>2. stack' \in [1 .. Len(u) -> S] /\ stack'[1] = g /\ \A i \in 2 .. Len(u) : stack'[i] = u[i]
            BY <2>4, <2>5, <3>1
        <3>3. stack' \in Seq(S) /\ Len(stack') = Len(u)
            BY <2>4, <3>2
        <3> HIDE DEF S
        <3>4. stack' \in Seq(Range(stack'))
            BY <3>3, IsSequence
        <3>5. stack' # <<>>
            BY <2>4, <3>3
        <3> QED  BY <3>2, <3>3, <3>4, <3>5 DEF Replaced
    <2>7. u[1].at = "get"
        BY <2>1, <2>4
    <2>8. \E x : /\ ~IsQueued(stack[1].w) /\ Popped(stack, x) /\ x # <<>> /\ x[1].at = "get"
                  /\ Replaced(x, [x[1] EXCEPT !.thrown = TRUE], stack')
        <3>1. Replaced(u, [u[1] EXCEPT !.thrown = TRUE], stack')
            BY <2>6 DEF g
        <3>2. u # <<>>
            BY <2>4
        <3> WITNESS u
        <3> QED  BY <2>1, <2>2, <2>7, <3>1, <3>2
    <2> QED  BY <1>2, <2>8 DEF Leaves
<1> QED  BY <1>2, <1>4, <1>5, <1>6

LEMMA LeavesFits ==
    ASSUME NEW st, Stacked(st), st # <<>>, st[1].at = "get", NEW t, Leaves(st, t)
    PROVE  Stacked(t) /\ PhaseOf(t) = PhaseOf(st)
<1>1. CASE st[1].then = "run" /\ \E list : Replaced(st, [at |-> "writes", list |-> list], t)
    BY <1>1, CallbackRuns
<1>2. CASE Popped(st, t)
    BY <1>2, EvaluationEnds
<1>3. ASSUME NEW u, ~IsQueued(st[1].w), Popped(st, u), u # <<>>, u[1].at = "get",
             Replaced(u, [u[1] EXCEPT !.thrown = TRUE], t)
      PROVE  Stacked(t) /\ PhaseOf(t) = PhaseOf(st)
    <2>1. Stacked(u) /\ PhaseOf(u) = PhaseOf(st)
        BY <1>3, EvaluationEnds
    <2> DEFINE g == [u[1] EXCEPT !.thrown = TRUE]
    <2>2. FrameFits(u, 1)
        <3>1. u \in Seq(Range(u))
            BY <2>1 DEF Stacked
        <3>2. 1 \in DOMAIN u
            BY <1>3, <3>1
        <3> QED  BY <2>1, <3>2 DEF Stacked
    <2>3. GetsSame(u[1], g)
        BY <1>3, <2>2 DEF GetsSame, FrameFits
    <2> HIDE DEF g
    <2>4. Replaced(u, g, t)
        BY <1>3 DEF g
    <2>5. Stacked(t) /\ PhaseOf(t) = PhaseOf(u)
        BY <1>3, <2>1, <2>3, <2>4, EvaluationGoesOn
    <2> QED  BY <2>1, <2>5
<1> QED  BY <1>1, <1>2, <1>3 DEF Leaves

LEMMA GetEndsFits ==
    ASSUME SchedulerInv, stack # <<>>, Top.at = "get", GetDone \/ GetThrows
    PROVE  SchedulerInv' /\ BreaksNothing
<1>1. Stacked(stack) /\ Scheduled /\ subs \in [Dep -> Seq(Watcher)] /\ Top = stack[1]
    BY TopIs DEF SchedulerInv
<1>2. Leaves(stack, stack') /\ CleanupDeps /\ UNCHANGED <<queueVars, index, flushing>>
    BY <1>1, GetterLeaves
<1>3. \A t : t = stack' => Stacked(t) /\ PhaseOf(t) = PhaseOf(stack)
    BY <1>1, <1>2, LeavesFits
<1>4. Stacked(stack') /\ PhaseOf(stack') = PhaseOf(stack)
    BY <1>3
<1>5. Scheduled' /\ BreaksNothing
    BY <1>1, <1>2, <1>4, ScheduledStays
<1>6. subs' \in [Dep -> Seq(Watcher)]
    <2> DEFINE w == Top.w
               ds == deps[Top.w] \ Top.new
    <2>1. subs' = [d \in Dep |-> IF d \in ds THEN RemoveSub(subs[d], w) ELSE subs[d]]
        BY <1>2 DEF CleanupDeps
    <2> HIDE DEF w, ds
    <2> QED  BY <1>1, <2>1, RemovalTypes
<1> QED  BY <1>4, <1>5, <1>6 DEF SchedulerInv

-----------------------------------------------------------------------------
(* The scheduler: one call, or a getter or a list of writes below it. *)

IsOuter(f) ==
    /\ f.at \in {"flush", "updated"}
    /\ f.at = "updated" => {"at", "ws"} \subseteq DOMAIN f
    /\ f.at = "flush" => {"at", "phase"} \subseteq DOMAIN f /\ f.phase \in {"before", "run", "after"}

PhaseIn(f) == IF f.at = "flush" THEN f.phase ELSE "none"

IsGetter(f, then) ==
    /\ f.at = "get" /\ f.w \in Watcher /\ IsQueued(f.w) /\ f.then = then
    /\ {"at", "w", "seen", "new", "then", "thrown"} \subseteq DOMAIN f

IsWriter(f) == f.at = "writes" /\ {"at", "list"} \subseteq DOMAIN f

LEMMA Idle == Stacked(<<>>) /\ PhaseOf(<<>>) = "none"
<1> DEFINE none == <<>>
<1>1. none \in Seq(Range(none)) /\ DOMAIN none = {}
    OBVIOUS
<1>2. PhaseOf(none) = "none"
    BY DEF PhaseOf
<1> HIDE DEF none
<1>3. Stacked(none)
    BY <1>1 DEF Stacked
<1> QED  BY <1>2, <1>3 DEF none

LEMMA OneCall ==
    ASSUME NEW f, IsOuter(f) \/ IsGetter(f, "create")
    PROVE  Stacked(<<f>>) /\ PhaseOf(<<f>>) = PhaseIn(f) /\ <<>> \o <<f>> = <<f>>
<1> DEFINE st == <<f>>
<1>1. st \in Seq({f}) /\ Len(st) = 1 /\ st[1] = f /\ st # <<>> /\ <<>> \o st = st
    OBVIOUS
<1> HIDE DEF st
<1>2. st \in Seq(Range(st)) /\ DOMAIN st = 1 .. 1
    BY <1>1, IsSequence
<1>3. FrameFits(st, 1)
    BY <1>1 DEF FrameFits, IsOuter, IsGetter
<1>4. \A i \in 1 .. 1 : i = 1
    OBVIOUS
<1>5. Stacked(st)
    BY <1>2, <1>3, <1>4 DEF Stacked
<1>6. PhaseOf(st) = PhaseIn(f)
    BY <1>1 DEF PhaseOf, PhaseIn
<1> QED  BY <1>1, <1>5, <1>6 DEF st

LEMMA TwoCalls ==
    ASSUME NEW f, IsOuter(f), f.at = "flush" => f.phase # "before",
           NEW g, IsWriter(g) \/ (IsGetter(g, "run") /\ f.at = "flush" /\ f.phase = "after")
    PROVE  Stacked(<<g>> \o <<f>>) /\ PhaseOf(<<g>> \o <<f>>) = PhaseIn(f)
<1> DEFINE st == <<g>> \o <<f>>
<1>1. st \in Seq({f, g}) /\ Len(st) = 2 /\ st[1] = g /\ st[2] = f /\ st # <<>>
    OBVIOUS
<1> HIDE DEF st
<1>2. st \in Seq(Range(st)) /\ DOMAIN st = 1 .. 2
    BY <1>1, IsSequence
<1>3. FrameFits(st, 1)
    <2>1. CASE IsWriter(g)
        BY <1>1, <2>1 DEF FrameFits, IsOuter, IsWriter
    <2>2. CASE IsGetter(g, "run") /\ f.at = "flush" /\ f.phase = "after"
        <3>1. 1 + 1 = Len(st) /\ st[Len(st)].at = "flush" /\ st[Len(st)].phase = "after"
            BY <1>1, <2>2
        <3> QED  BY <1>1, <2>2, <3>1 DEF FrameFits, IsOuter, IsGetter
    <2> QED  BY <2>1, <2>2
<1>4. FrameFits(st, 2)
    BY <1>1 DEF FrameFits, IsOuter
<1>5. \A i \in 1 .. 2 : i = 1 \/ i = 2
    OBVIOUS
<1>6. Stacked(st)
    BY <1>2, <1>3, <1>4, <1>5 DEF Stacked
<1>7. PhaseOf(st) = PhaseIn(f)
    BY <1>1 DEF PhaseOf, PhaseIn
<1> QED  BY <1>6, <1>7 DEF st

\* What the outermost call is when it is the only one.
LEMMA OuterIs ==
    ASSUME Stacked(stack), stack # <<>>, Top.at \in {"flush", "updated"}
    PROVE  IsOuter(Top) /\ PhaseOf(stack) = PhaseIn(Top) /\ Len(stack) = 1 /\ Tail(stack) = <<>>
<1>1. /\ Top = stack[1] /\ FrameFits(stack, 1) /\ stack \in Seq(Range(stack))
      /\ Len(stack) \in Nat \ {0}
    BY TopIs
<1>2. 1 = Len(stack)
    BY <1>1 DEF FrameFits
<1>3. IsOuter(Top)
    BY <1>1 DEF FrameFits, IsOuter
<1>4. PhaseOf(stack) = PhaseIn(Top)
    BY <1>1, <1>2 DEF PhaseOf, PhaseIn
<1>5. Tail(stack) = <<>>
    <2>1. Popped(stack, Tail(stack))
        BY <1>1, PopIs
    <2> DEFINE t == Tail(stack)
    <2> HIDE DEF t
    <2>2. t \in Seq(Range(t)) /\ Len(t) = 0
        BY <1>2, <2>1 DEF Popped, t
    <2>3. t = <<>>
        BY <2>2
    <2> QED  BY <2>3 DEF t
<1> QED  BY <1>2, <1>3, <1>4, <1>5

\* Writes goes on, or is done.
LEMMA WriterIs ==
    ASSUME Stacked(stack), stack # <<>>, Top.at = "writes"
    PROVE  /\ IsWriter(Top) /\ Len(stack) = 2 /\ IsOuter(stack[2]) /\ PhaseOf(stack) = PhaseIn(stack[2])
           /\ stack[2].at = "flush" => stack[2].phase # "before"
           /\ Tail(stack) = <<stack[2]>>
<1>1. /\ Top = stack[1] /\ FrameFits(stack, 1) /\ stack \in Seq(Range(stack))
      /\ DOMAIN stack = 1 .. Len(stack) /\ Len(stack) \in Nat \ {0}
    BY TopIs
<1>2. Len(stack) = 2 /\ stack[2].at \in {"flush", "updated"} /\ IsWriter(Top)
    BY <1>1 DEF FrameFits, IsWriter
<1>3. FrameFits(stack, 2)
    BY <1>1, <1>2 DEF Stacked
<1>4. IsOuter(stack[2]) /\ (stack[2].at = "flush" => stack[2].phase # "before")
    BY <1>2, <1>3 DEF FrameFits, IsOuter
<1>5. PhaseOf(stack) = PhaseIn(stack[2])
    BY <1>1, <1>2 DEF PhaseOf, PhaseIn
<1>6. Tail(stack) = <<stack[2]>>
    <2> DEFINE t == Tail(stack)
    <2>1. Popped(stack, t)
        BY <1>1, PopIs
    <2> HIDE DEF t
    <2>2. t \in Seq(Range(t)) /\ Len(t) = 1
        BY <1>2, <2>1 DEF Popped
    <2>3. t[1] = stack[2]
        <3>1. \A i \in 1 .. 1 : t[i] = stack[i + 1]
            BY <2>1, <2>2 DEF Popped
        <3> QED  BY <3>1
    <2>4. t = <<stack[2]>>
        BY <2>2, <2>3
    <2> QED  BY <2>4 DEF t
<1> QED  BY <1>2, <1>4, <1>5, <1>6

LEMMA WriteIs ==
    ASSUME NEW x, Write(x)
    PROVE  \/ UNCHANGED <<queueVars, dirty>>
           \/ \E d \in Dep : QueueWatchers(subs[d]) /\ dirty' = dirty \union {w \in Range(subs[d]) : ~IsQueued(w)}
<1>1. CASE SetCell(x)
    BY <1>1 DEF SetCell, Notify, Dep
<1>2. CASE ChangeObject(x)
    BY <1>2 DEF ChangeObject, Notify, Dep
<1> QED  BY <1>1, <1>2 DEF Write

LEMMA WriteFits ==
    ASSUME Scheduled, subs \in [Dep -> Seq(Watcher)], PhaseOf(stack) \in {"none", "run", "after"},
           NEW x, Write(x), UNCHANGED <<index, flushing>>, PhaseOf(stack') = PhaseOf(stack)
    PROVE  Scheduled' /\ BreaksNothing
<1>1. CASE UNCHANGED <<queueVars, dirty>>
    BY <1>1, ScheduledStays
<1>2. ASSUME NEW d \in Dep, QueueWatchers(subs[d])
      PROVE  Scheduled' /\ BreaksNothing
    <2>1. subs[d] \in Seq(Watcher)
        OBVIOUS
    <2> DEFINE ws == subs[d]
    <2>2. ws \in Seq(Watcher) /\ QueueWatchers(ws)
        BY <1>2, <2>1
    <2> HIDE DEF ws
    <2>3. Scheduled' /\ (flushing => UNCHANGED Running)
        BY <2>2, NotifyFits
    <2> QED  BY <2>3 DEF BreaksNothing
<1> QED  BY <1>1, <1>2, WriteIs

LEMMA WritesFits ==
    ASSUME SchedulerInv, Writes
    PROVE  SchedulerInv' /\ BreaksNothing
<1>1. /\ Stacked(stack) /\ Scheduled /\ subs \in [Dep -> Seq(Watcher)]
      /\ stack # <<>> /\ Top.at = "writes" /\ UNCHANGED <<subs, index, flushing>>
    BY DEF SchedulerInv, Writes, flushVars
<1> DEFINE f == stack[2]
<1>2. /\ IsWriter(Top) /\ IsOuter(f) /\ PhaseOf(stack) = PhaseIn(f)
      /\ f.at = "flush" => f.phase # "before"
      /\ Tail(stack) = <<f>>
    BY <1>1, WriterIs
<1> HIDE DEF f
<1>3. PhaseOf(stack) \in {"none", "run", "after"}
    BY <1>2 DEF PhaseIn, IsOuter
<1>4. CASE Top.list = <<>>
    <2>1. stack' = <<f>> /\ UNCHANGED queueVars
        BY <1>1, <1>2, <1>4 DEF Writes, Pop
    <2>2. Stacked(stack') /\ PhaseOf(stack') = PhaseOf(stack)
        BY <1>2, <2>1, OneCall
    <2>3. Scheduled' /\ BreaksNothing
        BY <1>1, <2>1, <2>2, ScheduledStays
    <2> QED  BY <1>1, <2>2, <2>3 DEF SchedulerInv
<1>5. CASE Top.list # <<>>
    <2> DEFINE g == [Top EXCEPT !.list = Tail(@)]
    <2>1. stack' = <<g>> \o <<f>> /\ Write(Head(Top.list))
        BY <1>2, <1>5 DEF Writes, Replace
    <2>2. IsWriter(g)
        BY <1>2 DEF IsWriter
    <2> HIDE DEF g
    <2>3. Stacked(stack') /\ PhaseOf(stack') = PhaseOf(stack)
        BY <1>2, <2>1, <2>2, TwoCalls
    <2>4. Scheduled' /\ BreaksNothing
        BY <1>1, <1>3, <2>1, <2>3, WriteFits
    <2> QED  BY <1>1, <2>3, <2>4 DEF SchedulerInv
<1> QED  BY <1>4, <1>5

\* What the schedule is while a flush is between two of its steps.
LEMMA FlushIs ==
    ASSUME SchedulerInv, NEW phase, Flushes(phase)
    PROVE  /\ Stacked(stack) /\ IsOuter(Top) /\ Top.at = "flush" /\ Top.phase = phase /\ stack # <<>>
           /\ Tail(stack) = <<>> /\ phase \in {"before", "run", "after"} /\ PhaseOf(stack) = phase
           /\ Awaits(queue, has, From(phase), index)
           /\ flushing = TRUE /\ waiting = TRUE /\ pending = FALSE
           /\ index \in 1 .. Len(queue) + 1 /\ index \in Nat /\ Len(queue) \in Nat
           /\ phase # "before" => index \in DOMAIN queue
           /\ queue \in Seq(Watcher) /\ DOMAIN queue = 1 .. Len(queue)
           /\ subs \in [Dep -> Seq(Watcher)]
<1>1. Stacked(stack) /\ Scheduled /\ stack # <<>> /\ Top.at = "flush" /\ Top.phase = phase
      /\ subs \in [Dep -> Seq(Watcher)]
    BY DEF SchedulerInv, Flushes
<1>2. IsOuter(Top) /\ Tail(stack) = <<>> /\ PhaseOf(stack) = phase
    BY <1>1, OuterIs DEF PhaseIn
<1>3. phase \in {"before", "run", "after"}
    BY <1>1, <1>2 DEF IsOuter
<1>4. Awaits(queue, has, From(phase), index) /\ flushing = TRUE /\ waiting = TRUE /\ pending = FALSE
      /\ index \in 1 .. Len(queue) + 1 /\ (phase # "before" => index <= Len(queue))
    BY <1>1, <1>2, <1>3 DEF Scheduled, Position
<1>5. queue \in Seq(Watcher) /\ Len(queue) \in Nat /\ DOMAIN queue = 1 .. Len(queue)
    BY <1>4 DEF Awaits
<1>6. index \in Nat /\ (phase # "before" => index \in DOMAIN queue)
    BY <1>4, <1>5
<1> QED  BY <1>1, <1>2, <1>3, <1>4, <1>5, <1>6

LEMMA FlushStartsFits ==
    ASSUME SchedulerInv, FlushStarts
    PROVE  SchedulerInv' /\ BreaksNothing
<1>1. /\ stack = <<>> /\ pending /\ Scheduled /\ subs \in [Dep -> Seq(Watcher)] /\ UNCHANGED <<subs, has, waiting>>
      /\ pending' = FALSE /\ flushing' = TRUE /\ index' = 1
    BY DEF SchedulerInv, FlushStarts
<1>2. PhaseOf(stack) = "none"
    BY <1>1, Idle
<1>3. Awaits(queue, has, 1, index) /\ waiting = TRUE
    BY <1>1, <1>2 DEF Scheduled, From, Position
<1> DEFINE f == [at |-> "flush", phase |-> "before"]
<1>4. stack' = <<f>>
    <2>1. <<f>> \o <<>> = <<f>>
        OBVIOUS
    <2> QED  BY <1>1, <2>1 DEF FlushStarts, Push
<1>5. IsOuter(f) /\ PhaseIn(f) = "before"
    BY DEF IsOuter, PhaseIn
<1> HIDE DEF f
<1>6. Stacked(stack') /\ PhaseOf(stack') = "before"
    BY <1>4, <1>5, OneCall
<1>7. Awaits(queue', has, 1, 1)
    <2>1. PICK p \in Bijection(DOMAIN queue, DOMAIN queue) : queue' = [i \in DOMAIN queue |-> queue[p[i]]]
        BY DEF FlushStarts
    <2>2. /\ p \in [DOMAIN queue -> DOMAIN queue]
          /\ \A i, j \in DOMAIN queue : p[i] = p[j] => i = j
          /\ \A k \in DOMAIN queue : \E i \in DOMAIN queue : p[i] = k
        BY <2>1 DEF Bijection, Injection, Surjection, IsInjective
    <2>3. queue \in Seq(Watcher) /\ Len(queue) \in Nat /\ DOMAIN queue = 1 .. Len(queue)
        BY <1>3 DEF Awaits
    <2> DEFINE q == [i \in DOMAIN queue |-> queue[p[i]]]
    <2>4. q \in Seq(Watcher) /\ DOMAIN q = DOMAIN queue /\ \A i \in DOMAIN queue : q[i] = queue[p[i]]
        <3>1. \A i \in DOMAIN queue : p[i] \in DOMAIN queue /\ queue[p[i]] \in Watcher
            BY <2>2, <2>3
        <3>2. q \in [1 .. Len(queue) -> Watcher]
            BY <2>3, <3>1
        <3> QED  BY <2>3, <3>2
    <2> HIDE DEF q
    <2>5. q = queue'
        BY <2>1 DEF q
    <2>6. \A i, j \in DOMAIN q : i < j => q[i] <= q[j]
        BY <2>5 DEF FlushStarts
    <2>7. \A i \in DOMAIN q : 1 <= i /\ IsQueued(q[i]) /\ q[i] \in has
        <3> TAKE i \in DOMAIN q
        <3>1. p[i] \in DOMAIN queue /\ q[i] = queue[p[i]] /\ 1 <= p[i] /\ 1 <= i
            BY <2>2, <2>3, <2>4
        <3> QED  BY <1>3, <3>1 DEF Awaits
    <2>8. ASSUME NEW i \in DOMAIN q, NEW j \in DOMAIN q, q[i] = q[j]
          PROVE  i = j
        <3>1. /\ p[i] \in DOMAIN queue /\ p[j] \in DOMAIN queue /\ queue[p[i]] = queue[p[j]]
              /\ 1 <= p[i] /\ 1 <= p[j]
            BY <2>2, <2>3, <2>4, <2>8
        <3>2. p[i] = p[j]
            BY <1>3, <3>1 DEF Awaits
        <3> QED  BY <2>2, <2>4, <3>2
    <2>9. ASSUME NEW w \in has
          PROVE  \E i \in DOMAIN q : 1 <= i /\ q[i] = w
        <3>1. PICK k \in DOMAIN queue : queue[k] = w
            BY <1>3 DEF Awaits
        <3>2. PICK i \in DOMAIN queue : p[i] = k
            BY <2>2
        <3> QED  BY <2>4, <2>7, <3>1, <3>2
    <2>10. has \subseteq Watcher
        BY <1>3 DEF Awaits
    <2>11. Awaits(q, has, 1, 1)
        BY <2>4, <2>6, <2>7, <2>8, <2>9, <2>10 DEF Awaits
    <2> QED  BY <2>5, <2>11
<1>8. 1 \in 1 .. Len(queue') + 1
    <2>1. Len(queue') \in Nat
        BY <1>7 DEF Awaits
    <2> QED  BY <2>1
<1>9. From("before")' = 1
    BY <1>1 DEF From
<1>10. Scheduled'
    BY <1>1, <1>3, <1>6, <1>7, <1>8, <1>9 DEF Scheduled, Position
<1>11. BreaksNothing
    BY <1>6 DEF BreaksNothing
<1> QED  BY <1>1, <1>6, <1>10, <1>11 DEF SchedulerInv

LEMMA FlushBeforeFits ==
    ASSUME SchedulerInv, FlushBefore
    PROVE  SchedulerInv' /\ BreaksNothing
<1>1. Flushes("before") /\ index <= Len(queue) /\ UNCHANGED <<subs, queueVars, index, flushing>>
    BY DEF FlushBefore, flushVars
<1>2. /\ Stacked(stack) /\ IsOuter(Top) /\ Top.at = "flush"
      /\ Awaits(queue, has, From("before"), index)
      /\ flushing = TRUE /\ waiting = TRUE /\ pending = FALSE /\ index \in 1 .. Len(queue) + 1
      /\ subs \in [Dep -> Seq(Watcher)]
    BY <1>1, FlushIs
<1> DEFINE f == [Top EXCEPT !.phase = "run"]
           g == [at |-> "writes", list |-> BeforeUpdate(Running)]
<1>3. IsOuter(f) /\ f.at = "flush" /\ f.phase = "run" /\ IsWriter(g) /\ PhaseIn(f) = "run"
    BY <1>2 DEF IsOuter, IsWriter, PhaseIn
<1>4. stack' = <<g>> \o <<f>> \/ stack' = <<>> \o <<f>>
    BY DEF FlushBefore
<1> HIDE DEF f, g
<1>5. Stacked(stack') /\ PhaseOf(stack') = "run"
    <2>1. Stacked(<<g>> \o <<f>>) /\ PhaseOf(<<g>> \o <<f>>) = "run"
        BY <1>3, TwoCalls
    <2>2. Stacked(<<>> \o <<f>>) /\ PhaseOf(<<>> \o <<f>>) = "run"
        BY <1>3, OneCall
    <2> QED  BY <1>4, <2>1, <2>2
<1>6. From("run")' = From("before")
    BY <1>1 DEF From
<1>7. Scheduled'
    BY <1>1, <1>2, <1>5, <1>6 DEF Scheduled, Position, queueVars
<1>8. BreaksNothing
    BY <1>5 DEF BreaksNothing
<1> QED  BY <1>1, <1>2, <1>5, <1>7, <1>8 DEF SchedulerInv

LEMMA FlushRunFits ==
    ASSUME SchedulerInv, FlushRun
    PROVE  SchedulerInv' /\ BreaksNothing
<1>1. Flushes("run") /\ UNCHANGED <<subs, queue, waiting, pending, index, flushing>> /\ has' = has \ {Running}
    BY DEF FlushRun
<1>2. /\ Stacked(stack) /\ IsOuter(Top) /\ Top.at = "flush"
      /\ Awaits(queue, has, From("run"), index)
      /\ flushing = TRUE /\ waiting = TRUE /\ pending = FALSE
      /\ index \in 1 .. Len(queue) + 1 /\ index \in Nat /\ index \in DOMAIN queue
      /\ queue \in Seq(Watcher) /\ DOMAIN queue = 1 .. Len(queue) /\ Len(queue) \in Nat
      /\ subs \in [Dep -> Seq(Watcher)]
    <2>1. "run" # "before"
        OBVIOUS
    <2> QED  BY <1>1, <2>1, FlushIs
<1>20. From("run") = index
    BY DEF From
<1>3. Running = queue[index] /\ Running \in Watcher /\ IsQueued(Running) /\ index <= Len(queue)
    BY <1>2 DEF Running, Awaits
<1> DEFINE f == [Top EXCEPT !.phase = "after"]
           g == GetFrame(Running, "run")
<1>4. IsOuter(f) /\ f.at = "flush" /\ f.phase = "after" /\ PhaseIn(f) = "after"
    BY <1>2 DEF IsOuter, PhaseIn
<1>5. IsGetter(g, "run")
    BY <1>3 DEF IsGetter, GetFrame
<1>6. stack' = <<g>> \o <<f>> \/ stack' = <<>> \o <<f>>
    BY DEF FlushRun
<1> HIDE DEF f, g
<1>7. Stacked(stack') /\ PhaseOf(stack') = "after"
    <2>1. Stacked(<<g>> \o <<f>>) /\ PhaseOf(<<g>> \o <<f>>) = "after"
        BY <1>4, <1>5, TwoCalls
    <2>2. Stacked(<<>> \o <<f>>) /\ PhaseOf(<<>> \o <<f>>) = "after"
        BY <1>4, OneCall
    <2> QED  BY <1>6, <2>1, <2>2
<1>8. Awaits(queue, has \ {Running}, index + 1, index)
    <2>1. ASSUME NEW i \in DOMAIN queue, index + 1 <= i
          PROVE  queue[i] \in has \ {Running}
        <3>1. index <= i /\ i # index
            BY <1>2, <2>1
        <3> QED  BY <1>2, <1>20, <1>3, <3>1 DEF Awaits
    <2>2. ASSUME NEW w \in has \ {Running}
          PROVE  \E i \in DOMAIN queue : index + 1 <= i /\ queue[i] = w
        <3>1. PICK i \in DOMAIN queue : index <= i /\ queue[i] = w
            BY <1>2, <1>20 DEF Awaits
        <3>2. i # index
            BY <1>3, <3>1
        <3>3. index + 1 <= i
            BY <1>2, <3>1, <3>2
        <3> QED  BY <3>1, <3>3
    <2>3. ASSUME NEW i \in DOMAIN queue, NEW j \in DOMAIN queue,
                 index + 1 <= i, index + 1 <= j, queue[i] = queue[j]
          PROVE  i = j
        <3>1. index <= i /\ index <= j
            BY <1>2, <2>3
        <3> QED  BY <1>2, <1>20, <2>3, <3>1 DEF Awaits
    <2> QED  BY <1>2, <1>20, <2>1, <2>2, <2>3 DEF Awaits
<1>9. From("after")' = index + 1
    BY <1>1 DEF From
<1>10. Scheduled'
    BY <1>1, <1>2, <1>3, <1>7, <1>8, <1>9 DEF Scheduled, Position
<1>11. BreaksNothing
    BY <1>7 DEF BreaksNothing
<1> QED  BY <1>1, <1>2, <1>7, <1>10, <1>11 DEF SchedulerInv

\* The queue is given up or done with; the hooks come.
LEMMA ResetFits ==
    ASSUME SchedulerInv, NEW phase, Flushes(phase), ResetScheduler
    PROVE  SchedulerInv' /\ BreaksNothing
<1>1. /\ Stacked(stack) /\ Tail(stack) = <<>> /\ pending = FALSE /\ subs \in [Dep -> Seq(Watcher)]
    BY FlushIs
<1>2. /\ index' = 0 /\ queue' = <<>> /\ has' = {} /\ waiting' = FALSE /\ flushing' = FALSE
      /\ UNCHANGED <<subs, pending>>
    BY DEF ResetScheduler
<1> DEFINE f == [at |-> "updated", ws |-> queue]
<1>3. stack' = <<f>>
    <2>1. <<f>> \o <<>> = <<f>>
        OBVIOUS
    <2> QED  BY <1>1, <2>1 DEF ResetScheduler, Replace
<1>4. IsOuter(f) /\ PhaseIn(f) = "none"
    BY DEF IsOuter, PhaseIn
<1> HIDE DEF f
<1>5. Stacked(stack') /\ PhaseOf(stack') = "none"
    BY <1>3, <1>4, OneCall
<1> DEFINE none == <<>>
<1>6. Awaits(none, {}, 1, 0)
    <2>1. none \in Seq(Watcher) /\ DOMAIN none = {}
        OBVIOUS
    <2> HIDE DEF none
    <2> QED  BY <2>1 DEF Awaits
<1>7. From("none")' = 1
    BY DEF From
<1>8. Scheduled'
    BY <1>1, <1>2, <1>5, <1>6, <1>7 DEF Scheduled, Position
<1>9. BreaksNothing
    BY <1>2 DEF BreaksNothing
<1> QED  BY <1>1, <1>2, <1>5, <1>8, <1>9 DEF SchedulerInv

LEMMA FlushAfterFits ==
    ASSUME SchedulerInv, FlushAfter
    PROVE  SchedulerInv' /\ BreaksNothing
<1>1. CASE TooOften
    BY <1>1, ResetFits DEF FlushAfter
<1>2. CASE ~TooOften
    <2>1. Flushes("after") /\ UNCHANGED <<subs, queueVars, flushing>> /\ index' = index + 1
          /\ Replace([Top EXCEPT !.phase = "before"])
        BY <1>2 DEF FlushAfter
    <2>2. /\ Stacked(stack) /\ IsOuter(Top) /\ Top.at = "flush" /\ Tail(stack) = <<>>
          /\ Awaits(queue, has, From("after"), index) /\ From("after") = index + 1
          /\ flushing = TRUE /\ waiting = TRUE /\ pending = FALSE
          /\ index \in Nat /\ index \in DOMAIN queue
          /\ DOMAIN queue = 1 .. Len(queue) /\ Len(queue) \in Nat
          /\ subs \in [Dep -> Seq(Watcher)]
        BY <2>1, FlushIs DEF From
    <2> DEFINE f == [Top EXCEPT !.phase = "before"]
    <2>3. stack' = <<f>>
        <3>1. <<f>> \o <<>> = <<f>>
            OBVIOUS
        <3> QED  BY <2>1, <2>2, <3>1 DEF Replace
    <2>4. IsOuter(f) /\ PhaseIn(f) = "before"
        BY <2>2 DEF IsOuter, PhaseIn
    <2> HIDE DEF f
    <2>5. Stacked(stack') /\ PhaseOf(stack') = "before"
        BY <2>3, <2>4, OneCall
    <2>6. Awaits(queue, has, index + 1, index + 1) /\ index + 1 \in 1 .. Len(queue) + 1
        <3>1. index # 0 /\ index + 1 \in 1 .. Len(queue) + 1
            BY <2>2
        <3>2. \A i, j \in DOMAIN queue : index + 1 < i /\ i < j => index < i
            BY <2>2
        <3> QED  BY <2>2, <3>1, <3>2 DEF Awaits
    <2>7. From("before")' = index + 1
        BY <2>1 DEF From
    <2>8. Scheduled'
        BY <2>1, <2>2, <2>5, <2>6, <2>7 DEF Scheduled, Position, queueVars
    <2>9. BreaksNothing
        BY <2>5 DEF BreaksNothing
    <2> QED  BY <2>1, <2>2, <2>5, <2>8, <2>9 DEF SchedulerInv
<1> QED  BY <1>1, <1>2

LEMMA UpdatedHooksFits ==
    ASSUME SchedulerInv, UpdatedHooks
    PROVE  SchedulerInv' /\ BreaksNothing
<1>1. /\ Stacked(stack) /\ Scheduled /\ subs \in [Dep -> Seq(Watcher)] /\ stack # <<>> /\ Top.at = "updated"
      /\ UNCHANGED <<subs, queueVars, index, flushing>>
    BY DEF SchedulerInv, UpdatedHooks, flushVars
<1>2. IsOuter(Top) /\ PhaseOf(stack) = "none"
    BY <1>1, OuterIs DEF PhaseIn
<1> DEFINE f == [Top EXCEPT !.ws = Front(@)]
           g == [at |-> "writes", list |-> Updated(Last(Top.ws))]
<1>3. IsOuter(f) /\ f.at = "updated" /\ PhaseIn(f) = "none" /\ IsWriter(g)
    BY <1>1, <1>2 DEF IsOuter, PhaseIn, IsWriter
<1>4. stack' = <<>> \/ stack' = <<g>> \o <<f>> \/ stack' = <<>> \o <<f>>
    BY DEF UpdatedHooks
<1> HIDE DEF f, g
<1>5. Stacked(stack') /\ PhaseOf(stack') = "none"
    <2>1. Stacked(<<g>> \o <<f>>) /\ PhaseOf(<<g>> \o <<f>>) = "none"
        BY <1>3, TwoCalls
    <2>2. Stacked(<<>> \o <<f>>) /\ PhaseOf(<<>> \o <<f>>) = "none"
        BY <1>3, OneCall
    <2> QED  BY <1>4, <2>1, <2>2, Idle
<1>6. Scheduled' /\ BreaksNothing
    BY <1>1, <1>2, <1>5, ScheduledStays
<1> QED  BY <1>1, <1>5, <1>6 DEF SchedulerInv

\* The getter of a component's watcher is alone, or runs below the flush.
LEMMA RenderIs ==
    ASSUME Stacked(stack), stack # <<>>, Top.at = "get", Kind[Top.w] = "render"
    PROVE  \/ Top.then = "create" /\ PhaseOf(stack) = "none"
           \/ Top.then = "run" /\ PhaseOf(stack) = "after"
<1>1. /\ Top = stack[1] /\ FrameFits(stack, 1) /\ Len(stack) \in Nat \ {0}
    BY TopIs
<1>2. Top.then \in {"create", "run"}
    BY <1>1 DEF FrameFits, IsQueued
<1>3. CASE Top.then = "create"
    <2>1. Len(stack) = 1
        BY <1>1, <1>3 DEF FrameFits
    <2> QED  BY <1>1, <1>3, <2>1 DEF PhaseOf
<1>4. CASE Top.then = "run"
    <2>1. stack[Len(stack)].at = "flush" /\ stack[Len(stack)].phase = "after"
        BY <1>1, <1>4 DEF FrameFits
    <2> QED  BY <1>4, <2>1 DEF PhaseOf
<1> QED  BY <1>2, <1>3, <1>4

\* An error in a patch breaks a flush off; the rest of the queue waits in place.
LEMMA PatchThrowsFits ==
    ASSUME SchedulerInv, stack # <<>>, Top.at = "get", PatchThrows
    PROVE  SchedulerInv'
<1>1. Stacked(stack) /\ Scheduled /\ subs \in [Dep -> Seq(Watcher)]
    BY DEF SchedulerInv
<1>2. /\ Kind[Top.w] = "render" /\ CleanupDeps /\ stack' = <<>> /\ UNCHANGED <<queueVars, index, flushing>>
    BY DEF PatchThrows, flushVars
<1>3. Stacked(stack') /\ PhaseOf(stack') = "none"
    BY <1>2, Idle
<1>4. Position' = Position
    <2>1. CASE PhaseOf(stack) = "none"
        BY <1>2, <1>3, <2>1 DEF Position
    <2>2. CASE PhaseOf(stack) = "after"
        <3>1. Position = "after" /\ flushing
            BY <1>1, <2>2 DEF Scheduled, Position
        <3> QED  BY <1>2, <1>3, <3>1 DEF Position
    <2> QED  BY <1>1, <1>2, <2>1, <2>2, RenderIs
<1>5. Scheduled'
    <2>1. \A phase : From(phase)' = From(phase)
        BY <1>2 DEF From
    <2> QED  BY <1>1, <1>2, <1>4, <2>1 DEF Scheduled, queueVars, From
<1>6. subs' \in [Dep -> Seq(Watcher)]
    <2> DEFINE w == Top.w
               ds == deps[Top.w] \ Top.new
    <2>1. subs' = [d \in Dep |-> IF d \in ds THEN RemoveSub(subs[d], w) ELSE subs[d]]
        BY <1>2 DEF CleanupDeps
    <2> HIDE DEF w, ds
    <2> QED  BY <1>1, <2>1, RemovalTypes
<1> QED  BY <1>3, <1>5, <1>6 DEF SchedulerInv

\* A new watcher is evaluated; a lazy one waits for its first reader.
LEMMA CreateFits ==
    ASSUME SchedulerInv, born \in 0 .. LastWatcher, Create
    PROVE  SchedulerInv' /\ BreaksNothing /\ born' \in 0 .. LastWatcher
<1>1. /\ Scheduled /\ subs \in [Dep -> Seq(Watcher)] /\ stack = <<>>
      /\ born < LastWatcher /\ born' = born + 1 /\ UNCHANGED <<subs, queueVars, index, flushing>>
    BY DEF SchedulerInv, Create, flushVars
<1>2. PhaseOf(stack) = "none"
    BY <1>1, Idle
<1>3. born + 1 \in Watcher /\ born' \in 0 .. LastWatcher
    BY <1>1, LastWatcherAssumption DEF Watcher
<1>4. Stacked(stack') /\ PhaseOf(stack') = "none"
    <2>1. CASE Kind[born + 1] = "lazy"
        BY <1>1, <2>1, Idle DEF Create
    <2>2. CASE Kind[born + 1] # "lazy"
        <3> DEFINE f == GetFrame(born + 1, "create")
        <3>1. stack' = <<f>>
            <4>1. <<f>> \o <<>> = <<f>>
                OBVIOUS
            <4> QED  BY <1>1, <2>2, <4>1 DEF Create, Push
        <3>2. IsGetter(f, "create") /\ PhaseIn(f) = "none"
            BY <1>3, <2>2 DEF IsGetter, GetFrame, PhaseIn, IsQueued
        <3> HIDE DEF f
        <3> QED  BY <3>1, <3>2, OneCall
    <2> QED  BY <2>1, <2>2
<1>5. Scheduled' /\ BreaksNothing
    BY <1>1, <1>2, <1>4, ScheduledStays
<1> QED  BY <1>1, <1>3, <1>4, <1>5 DEF SchedulerInv

LEMMA TaskFits ==
    ASSUME SchedulerInv, TaskDoes
    PROVE  SchedulerInv' /\ BreaksNothing
<1>1. /\ Stacked(stack) /\ Scheduled /\ subs \in [Dep -> Seq(Watcher)] /\ stack = <<>>
      /\ UNCHANGED <<stack, index, flushing>>
    BY DEF SchedulerInv, TaskDoes, flushVars
<1>2. PhaseOf(stack) = "none" /\ PhaseOf(stack') = PhaseOf(stack) /\ Stacked(stack')
    BY <1>1, Idle
<1>3. PICK x : (Write(x) /\ UNCHANGED subs) \/ Teardown(x.id)
    BY DEF TaskDoes
<1>4. CASE Write(x) /\ UNCHANGED subs
    <2>1. Scheduled' /\ BreaksNothing
        BY <1>1, <1>2, <1>4, WriteFits
    <2> QED  BY <1>1, <1>2, <1>4, <2>1 DEF SchedulerInv
<1>5. CASE Teardown(x.id)
    <2>1. UNCHANGED queueVars
        BY <1>5 DEF Teardown
    <2>2. subs' \in [Dep -> Seq(Watcher)]
        <3> DEFINE w == x.id
                   ds == deps[x.id]
        <3>1. subs' = [d \in Dep |-> IF d \in ds THEN RemoveSub(subs[d], w) ELSE subs[d]]
            BY <1>5 DEF Teardown
        <3> HIDE DEF w, ds
        <3> QED  BY <1>1, <3>1, RemovalTypes
    <2>3. Scheduled' /\ BreaksNothing
        BY <1>1, <1>2, <2>1, ScheduledStays
    <2> QED  BY <1>2, <2>2, <2>3 DEF SchedulerInv
<1> QED  BY <1>3, <1>4, <1>5

LEMMA SchedulerStutters ==
    ASSUME SchedulerInv, UNCHANGED reactVars
    PROVE  SchedulerInv' /\ BreaksNothing
<1>1. Scheduled' /\ BreaksNothing
    BY ScheduledStays DEF SchedulerInv, reactVars, flushVars
<1> QED  BY <1>1 DEF SchedulerInv, reactVars

LEMMA SchedulerStep ==
    SchedulerInv /\ born \in 0 .. LastWatcher /\ [ReactNext]_reactVars =>
        SchedulerInv' /\ born' \in 0 .. LastWatcher
<1> SUFFICES ASSUME SchedulerInv, born \in 0 .. LastWatcher, [ReactNext]_reactVars
             PROVE  SchedulerInv' /\ born' \in 0 .. LastWatcher
    OBVIOUS
<1>1. CASE Create
    BY <1>1, CreateFits
<1>2. CASE Get
    <2>1. stack # <<>> /\ Top.at = "get" /\ (GetThrows \/ GetDone \/ ReadCell \/ ReadComputed \/ PatchThrows)
        BY <1>2 DEF Get
    <2>2. UNCHANGED born
        BY <1>2 DEF Get, GetThrows, GetDone, ReadCell, ReadComputed, PatchThrows, watcherVars
    <2> QED  BY <2>1, <2>2, ReadFits, GetEndsFits, PatchThrowsFits
<1>3. CASE Writes
    BY <1>3, WritesFits DEF Writes, watcherVars
<1>4. CASE FlushStarts
    BY <1>4, FlushStartsFits DEF FlushStarts, watcherVars
<1>5. CASE FlushBefore
    BY <1>5, FlushBeforeFits DEF FlushBefore, watcherVars
<1>6. CASE FlushRun
    BY <1>6, FlushRunFits DEF FlushRun, watcherVars
<1>7. CASE FlushAfter
    BY <1>7, FlushAfterFits DEF FlushAfter, ResetScheduler, watcherVars
<1>8. CASE FlushEnds
    BY <1>8, ResetFits DEF FlushEnds, ResetScheduler, watcherVars
<1>9. CASE UpdatedHooks
    BY <1>9, UpdatedHooksFits DEF UpdatedHooks, watcherVars
<1>10. CASE TaskDoes
    BY <1>10, TaskFits DEF TaskDoes, Teardown, watcherVars
<1>11. CASE UNCHANGED reactVars
    BY <1>11, SchedulerStutters DEF reactVars, watcherVars
<1> QED  BY <1>1, <1>2, <1>3, <1>4, <1>5, <1>6, <1>7, <1>8, <1>9, <1>10, <1>11 DEF ReactNext, Goes

LEMMA SchedulerTells == SchedulerInv => QueueTellsTruth
<1> SUFFICES ASSUME SchedulerInv PROVE QueueTellsTruth
    OBVIOUS
<1> DEFINE phase == Position
<1>1. /\ Awaits(queue, has, From(phase), index)
      /\ flushing = (phase # "none")
      /\ waiting = (flushing \/ pending)
      /\ ~waiting => queue = <<>>
      /\ IF flushing THEN index \in 1 .. Len(queue) + 1 ELSE index = 0
    BY DEF SchedulerInv, Scheduled
<1>2. queue \in Seq(Watcher) /\ Len(queue) \in Nat /\ DOMAIN queue = 1 .. Len(queue)
    BY <1>1 DEF Awaits
<1>3. CASE ~flushing
    <2>1. phase = "none" /\ From(phase) = 1
        BY <1>1, <1>3 DEF From
    <2>2. /\ \A i, j \in DOMAIN queue : queue[i] = queue[j] => i = j
          /\ has = Range(queue)
        BY <1>1, <1>2, <2>1 DEF Awaits, Range
    <2> QED  BY <1>1, <1>3, <2>2 DEF QueueTellsTruth, IsInjective
<1>4. CASE flushing
    <2> DEFINE rest == SubSeq(queue, index + 1, Len(queue))
               now == IF index <= Len(queue) THEN {Running} ELSE {}
               from == From(phase)
    <2>1. index \in 1 .. Len(queue) + 1 /\ index \in Nat /\ from \in {index, index + 1}
        <3>1. index \in 1 .. Len(queue) + 1 /\ index \in Nat
            BY <1>1, <1>2, <1>4
        <3>2. phase # "none"
            BY <1>1, <1>4
        <3> HIDE DEF phase
        <3>3. from \in {index, index + 1}
            BY <3>2 DEF From
        <3> QED  BY <3>1, <3>3
    <2>2. /\ DOMAIN rest = 1 .. Len(queue) - index
          /\ \A i \in DOMAIN rest : rest[i] = queue[index + i] /\ index + i \in DOMAIN queue
        <3> DEFINE n == Len(queue)
        <3>1. n \in Nat /\ index \in Nat /\ index <= n + 1 /\ 1 <= index
            BY <1>2, <2>1
        <3>2. DOMAIN rest = 1 .. n - index
            <4>1. rest = [i \in 1 .. n - index |-> queue[index + i]]
                BY <1>2, <3>1
            <4> QED  BY <4>1
        <3>3. \A i \in 1 .. n - index : rest[i] = queue[index + i] /\ index + i \in 1 .. n
            BY <1>2, <3>1
        <3> QED  BY <1>2, <3>2, <3>3
    <2> HIDE DEF rest, from, phase
    <2>3. \A i, j \in DOMAIN rest : i \in Nat /\ j \in Nat /\ (rest[i] = rest[j] => i = j)
        <3> TAKE i, j \in DOMAIN rest
        <3>1. i \in Nat /\ j \in Nat /\ index + i \in DOMAIN queue /\ index + j \in DOMAIN queue
              /\ from <= index + i /\ from <= index + j /\ rest[i] = queue[index + i] /\ rest[j] = queue[index + j]
            BY <1>2, <2>1, <2>2
        <3>2. rest[i] = rest[j] => index + i = index + j
            BY <1>1, <3>1 DEF Awaits, from
        <3> QED  BY <2>1, <3>1, <3>2
    <2>4. ASSUME NEW i \in DOMAIN rest, NEW j \in DOMAIN rest, i < j
          PROVE  rest[i] <= rest[j]
        <3>1. i \in Nat /\ j \in Nat
            BY <2>3
        <3>2. index < index + i /\ index + i < index + j /\ index # 0
            BY <1>2, <2>1, <2>2, <2>4, <3>1
        <3> QED  BY <1>1, <2>2, <3>2 DEF Awaits
    <2>5. ASSUME NEW w, w \notin now, w \in has
          PROVE  w \in Range(rest)
        <3>1. PICK i \in DOMAIN queue : from <= i /\ queue[i] = w
            BY <1>1, <2>5 DEF Awaits, from
        <3>2. i # index
            BY <1>2, <2>5, <3>1 DEF Running
        <3>3. i - index \in DOMAIN rest /\ index + (i - index) = i
            BY <1>2, <2>1, <2>2, <3>1, <3>2
        <3>4. rest[i - index] = w
            BY <2>2, <3>1, <3>3
        <3> QED  BY <3>3, <3>4 DEF Range
    <2>6. ASSUME NEW w \in Range(rest)
          PROVE  w \in has
        <3>1. PICK i \in DOMAIN rest : rest[i] = w
            BY DEF Range
        <3>2. index + i \in DOMAIN queue /\ from <= index + i /\ queue[index + i] = w
            BY <2>1, <2>2, <2>3, <3>1
        <3> QED  BY <1>1, <3>2 DEF Awaits, from
    <2>7. has \ now = Range(rest) \ now
        BY <2>5, <2>6
    <2> QED  BY <1>1, <1>4, <2>3, <2>4, <2>7 DEF QueueTellsTruth, IsInjective, rest
<1> QED  BY <1>3, <1>4

\* The queue and its flags agree in every state: whatever getters read and callbacks and
\* hooks write, a watcher waits once, in its place, and a flush is under way or to come as
\* long as one waits (queueWatcher, flushSchedulerQueue, resetSchedulerState).
THEOREM QueueIsTold == ReactSpec => []QueueTellsTruth
<1> DEFINE Inv == SchedulerInv /\ born \in 0 .. LastWatcher
<1>1. ReactInit => Inv
    BY SchedulerStart, LastWatcherAssumption DEF ReactInit
<1>2. Inv /\ [ReactNext]_reactVars => Inv'
    BY SchedulerStep
<1>3. Inv => QueueTellsTruth
    BY SchedulerTells
<1> HIDE DEF Inv
<1> QED  BY <1>1, <1>2, <1>3, PTL DEF ReactSpec

-----------------------------------------------------------------------------
(* Who is subscribed. *)

\* d is among what the frames of st that evaluate w have read.
Collects(st, w, d) == \E i \in DOMAIN st : st[i].at = "get" /\ st[i].w = w /\ d \in st[i].new

LEMMA CollectingIs ==
    ASSUME NEW w, NEW d
    PROVE  d \in Collecting(w) <=> Collects(stack, w, d)
BY DEF Collecting, Collects

\* No getter runs.
NoGetter(st) == \A i \in DOMAIN st : st[i].at # "get"

LEMMA NothingCollected ==
    ASSUME NEW st, NoGetter(st), NEW rank
    PROVE  Evaluates(rank, st) /\ \A w, d : ~Collects(st, w, d)
BY DEF NoGetter, Evaluates, Collects

LEMMA OuterRunsNone ==
    ASSUME NEW f, IsOuter(f)
    PROVE  NoGetter(<<f>>) /\ NoGetter(<<>>) /\ \A g : IsWriter(g) => NoGetter(<<g>> \o <<f>>)
<1>1. DOMAIN <<f>> = 1 .. 1 /\ <<f>>[1] = f /\ DOMAIN <<>> = {}
    OBVIOUS
<1>2. NoGetter(<<f>>) /\ NoGetter(<<>>)
    <2>1. \A i \in 1 .. 1 : i = 1
        OBVIOUS
    <2> QED  BY <1>1, <2>1 DEF NoGetter, IsOuter
<1>3. ASSUME NEW g, IsWriter(g)
      PROVE  NoGetter(<<g>> \o <<f>>)
    <2> DEFINE st == <<g>> \o <<f>>
    <2>1. DOMAIN st = 1 .. 2 /\ st[1] = g /\ st[2] = f
        OBVIOUS
    <2>2. \A i \in 1 .. 2 : i = 1 \/ i = 2
        OBVIOUS
    <2> HIDE DEF st
    <2>3. NoGetter(st)
        BY <1>3, <2>1, <2>2 DEF NoGetter, IsOuter, IsWriter
    <2> QED  BY <2>3 DEF st
<1> QED  BY <1>2, <1>3

\* A getter starts, having read nothing yet.
LEMMA GetterStarts ==
    ASSUME NEW rank, NEW g, g.at = "get", g.w <= born, g.new = {}, IsQueued(g.w) => g.w \in active,
           NEW st, Evaluates(rank, st), st \in Seq(Range(st)),
           \A i \in DOMAIN st : st[i].at = "get" => rank[g.w] < rank[st[i].w],
           NEW t, Pushed(st, g, t)
    PROVE  Evaluates(rank, t) /\ \A w, d : Collects(t, w, d) <=> Collects(st, w, d)
<1>1. /\ Len(st) \in Nat /\ DOMAIN st = 1 .. Len(st) /\ DOMAIN t = 1 .. Len(st) + 1
      /\ t[1] = g /\ \A i \in 1 .. Len(st) : t[i + 1] = st[i]
    BY DEF Pushed
<1>2. \A i \in DOMAIN t : i = 1 \/ (i - 1 \in DOMAIN st /\ t[i] = st[i - 1])
    <2> TAKE i \in DOMAIN t
    <2>1. i = 1 \/ (i - 1 \in DOMAIN st /\ (i - 1) + 1 = i)
        BY <1>1
    <2> QED  BY <1>1, <2>1
<1>3. \A i \in DOMAIN st : i + 1 \in DOMAIN t /\ t[i + 1] = st[i]
    BY <1>1
<1>4. \A w, d : Collects(t, w, d) <=> Collects(st, w, d)
    BY <1>1, <1>2, <1>3 DEF Collects
<1>5. ASSUME NEW i \in DOMAIN t, NEW j \in DOMAIN t, i < j, t[i].at = "get", t[j].at = "get"
      PROVE  rank[t[i].w] < rank[t[j].w]
    <2>1. j # 1 /\ (i # 1 => i - 1 < j - 1)
        BY <1>1, <1>5
    <2> QED  BY <1>1, <1>2, <1>5, <2>1 DEF Evaluates
<1>6. ASSUME NEW i \in DOMAIN t, t[i].at = "get"
      PROVE  t[i].w <= born /\ t[i].new \subseteq Dep /\ (IsQueued(t[i].w) => t[i].w \in active)
    BY <1>1, <1>2, <1>6 DEF Evaluates
<1> QED  BY <1>4, <1>5, <1>6 DEF Evaluates

\* The innermost getter reads ds.
LEMMA GetterReads ==
    ASSUME NEW rank, NEW st, Evaluates(rank, st), st \in Seq(Range(st)), st # <<>>, st[1].at = "get",
           NEW ds, ds \subseteq Dep, NEW g, GetsSame(st[1], g), g.new = st[1].new \union ds,
           NEW t, Replaced(st, g, t)
    PROVE  /\ Evaluates(rank, t)
           /\ \A w, d : Collects(t, w, d) <=> Collects(st, w, d) \/ (w = st[1].w /\ d \in ds)
<1>1. /\ Len(st) \in Nat /\ Len(st) # 0 /\ DOMAIN st = 1 .. Len(st) /\ DOMAIN t = DOMAIN st
      /\ t[1] = g /\ 1 \in DOMAIN st
    BY DEF Replaced
<1>2. \A i \in DOMAIN st : i = 1 \/ t[i] = st[i]
    BY <1>1 DEF Replaced
<1>3. \A i \in DOMAIN st : t[i].at = st[i].at /\ (st[i].at = "get" => t[i].w = st[i].w)
    BY <1>1, <1>2 DEF GetsSame
<1>4. \A w, d : Collects(t, w, d) <=> Collects(st, w, d) \/ (w = st[1].w /\ d \in ds)
    BY <1>1, <1>2, <1>3 DEF Collects
<1>5. \A i \in DOMAIN st : st[i].at = "get" => t[i].new \subseteq Dep
    BY <1>1, <1>2 DEF Evaluates
<1> QED  BY <1>1, <1>3, <1>4, <1>5 DEF Evaluates

\* Nothing evaluates the watcher of the innermost getter any more.
Ends(rank, st, t) ==
    /\ Evaluates(rank, t)
    /\ \A w, d : Collects(t, w, d) <=> Collects(st, w, d) /\ w # st[1].w
    /\ \A d : Collects(st, st[1].w, d) <=> d \in st[1].new

LEMMA GetterIsDone ==
    ASSUME NEW rank, rank \in [Watcher -> Nat], NEW st, Stacked(st), Evaluates(rank, st), st # <<>>,
           st[1].at = "get", NEW t, Leaves(st, t)
    PROVE  Ends(rank, st, t)
<1>1. /\ st \in Seq(Range(st)) /\ Len(st) \in Nat /\ Len(st) # 0 /\ DOMAIN st = 1 .. Len(st)
      /\ 1 \in DOMAIN st /\ FrameFits(st, 1)
    BY DEF Stacked
<1>2. \A i \in DOMAIN st : i # 1 /\ st[i].at = "get" => st[i].w # st[1].w
    <2> SUFFICES ASSUME NEW i \in DOMAIN st, i # 1, st[i].at = "get", st[i].w = st[1].w
                 PROVE  FALSE
        OBVIOUS
    <2>1. 1 < i /\ rank[st[1].w] < rank[st[i].w]
        BY <1>1 DEF Evaluates
    <2>2. st[1].w \in Watcher /\ rank[st[1].w] \in Nat
        BY <1>1 DEF FrameFits
    <2> QED  BY <2>1, <2>2
<1>3. \A d : Collects(st, st[1].w, d) <=> d \in st[1].new
    BY <1>1, <1>2 DEF Collects
<1>4. ASSUME DOMAIN t = 1 .. Len(st) - 1,
             \A i \in DOMAIN t : /\ t[i].at = st[i + 1].at
                                 /\ t[i].at = "get" => t[i].w = st[i + 1].w /\ t[i].new = st[i + 1].new
      PROVE  Evaluates(rank, t) /\ \A w, d : Collects(t, w, d) <=> Collects(st, w, d) /\ w # st[1].w
    <2>1. \A i \in DOMAIN t : i + 1 \in DOMAIN st /\ i + 1 # 1
        BY <1>1, <1>4
    <2>2. \A i \in DOMAIN st : i # 1 => i - 1 \in DOMAIN t /\ (i - 1) + 1 = i
        BY <1>1, <1>4
    <2>3. ASSUME NEW w, NEW d
          PROVE  Collects(t, w, d) <=> Collects(st, w, d) /\ w # st[1].w
        <3>1. ASSUME Collects(t, w, d) PROVE Collects(st, w, d) /\ w # st[1].w
            <4>1. PICK i \in DOMAIN t : t[i].at = "get" /\ t[i].w = w /\ d \in t[i].new
                BY <3>1 DEF Collects
            <4> QED  BY <1>2, <1>4, <2>1, <4>1 DEF Collects
        <3>2. ASSUME Collects(st, w, d), w # st[1].w PROVE Collects(t, w, d)
            <4>1. PICK i \in DOMAIN st : st[i].at = "get" /\ st[i].w = w /\ d \in st[i].new
                BY <3>2 DEF Collects
            <4>2. i - 1 \in DOMAIN t /\ (i - 1) + 1 = i
                BY <2>2, <3>2, <4>1
            <4>3. t[i - 1].at = "get" /\ t[i - 1].w = w /\ t[i - 1].new = st[i].new
                BY <1>4, <4>1, <4>2
            <4> QED  BY <4>1, <4>2, <4>3 DEF Collects
        <3> QED  BY <3>1, <3>2
    <2>4. ASSUME NEW i \in DOMAIN t, NEW j \in DOMAIN t, i < j, t[i].at = "get", t[j].at = "get"
          PROVE  rank[t[i].w] < rank[t[j].w]
        <3>1. i + 1 < j + 1
            BY <1>1, <1>4, <2>4
        <3> QED  BY <1>4, <2>1, <2>4, <3>1 DEF Evaluates
    <2>5. ASSUME NEW i \in DOMAIN t, t[i].at = "get"
          PROVE  t[i].w <= born /\ t[i].new \subseteq Dep /\ (IsQueued(t[i].w) => t[i].w \in active)
        BY <1>4, <2>1, <2>5 DEF Evaluates
    <2> QED  BY <2>3, <2>4, <2>5 DEF Evaluates
<1>5. CASE Popped(st, t)
    <2>1. DOMAIN t = 1 .. Len(st) - 1 /\ \A i \in DOMAIN t : t[i] = st[i + 1]
        BY <1>1, <1>5 DEF Popped
    <2> QED  BY <1>3, <1>4, <2>1 DEF Ends
<1>6. ASSUME NEW u, Popped(st, u), u # <<>>, u[1].at = "get", Replaced(u, [u[1] EXCEPT !.thrown = TRUE], t)
      PROVE  Evaluates(rank, t) /\ \A w, d : Collects(t, w, d) <=> Collects(st, w, d) /\ w # st[1].w
    <2> DEFINE g == [u[1] EXCEPT !.thrown = TRUE]
    <2>1. /\ Len(u) \in Nat /\ DOMAIN u = 1 .. Len(u) /\ Len(u) = Len(st) - 1
          /\ \A i \in DOMAIN u : u[i] = st[i + 1] /\ i + 1 \in DOMAIN st
        BY <1>1, <1>6 DEF Popped
    <2>2. 1 \in DOMAIN u
        BY <1>6, <2>1
    <2>3. u[1] = st[1 + 1] /\ 1 + 1 \in DOMAIN st
        BY <2>1, <2>2
    <2>4. FrameFits(st, 1 + 1)
        BY <2>3 DEF Stacked
    <2>5. g.at = u[1].at /\ g.w = u[1].w /\ g.new = u[1].new
        BY <1>6, <2>3, <2>4 DEF FrameFits
    <2> HIDE DEF g
    <2>6. DOMAIN t = DOMAIN u /\ t[1] = g /\ \A i \in DOMAIN u : i = 1 \/ t[i] = u[i]
        <3>1. Replaced(u, g, t)
            BY <1>6 DEF g
        <3> QED  BY <2>1, <3>1 DEF Replaced
    <2>7. \A i \in DOMAIN t : t[i].at = u[i].at /\ t[i].w = u[i].w /\ t[i].new = u[i].new
        BY <2>5, <2>6
    <2> QED  BY <1>4, <2>1, <2>6, <2>7
<1>7. ASSUME NEW list, st[1].then = "run", Replaced(st, [at |-> "writes", list |-> list], t)
      PROVE  Evaluates(rank, t) /\ \A w, d : Collects(t, w, d) <=> Collects(st, w, d) /\ w # st[1].w
    <2>1. Len(st) = 2 /\ st[2].at = "flush"
        <3>1. 1 + 1 = Len(st) /\ st[Len(st)].at = "flush"
            BY <1>1, <1>7 DEF FrameFits
        <3>2. Len(st) = 2
            BY <3>1
        <3> QED  BY <3>1, <3>2
    <2>2. t[1].at = "writes" /\ t[2] = st[2] /\ DOMAIN t = 1 .. 2
        BY <1>1, <1>7, <2>1 DEF Replaced
    <2>3. \A i \in 1 .. 2 : i = 1 \/ i = 2
        OBVIOUS
    <2>4. NoGetter(t)
        BY <2>1, <2>2, <2>3 DEF NoGetter
    <2>5. \A w, d : Collects(st, w, d) => w = st[1].w
        BY <1>1, <2>1, <2>3 DEF Collects
    <2> QED  BY <2>4, <2>5, NothingCollected
<1> QED  BY <1>3, <1>5, <1>6, <1>7 DEF Leaves, Ends

\* Below the getter of a component no other runs.
LEMMA RenderAlone ==
    ASSUME Stacked(stack), stack # <<>>, Top.at = "get", Kind[Top.w] = "render"
    PROVE  \A i \in DOMAIN stack : i # 1 => stack[i].at # "get"
<1>1. /\ Top = stack[1] /\ FrameFits(stack, 1) /\ Len(stack) \in Nat \ {0}
      /\ 1 \in DOMAIN stack /\ DOMAIN stack = 1 .. Len(stack)
    BY TopIs
<1>2. Top.then \in {"create", "run"}
    BY RenderIs
<1>3. CASE Top.then = "create"
    <2>1. Len(stack) = 1
        BY <1>1, <1>3 DEF FrameFits
    <2> QED  BY <1>1, <2>1
<1>4. CASE Top.then = "run"
    <2>1. 1 + 1 = Len(stack) /\ stack[Len(stack)].at = "flush"
        BY <1>1, <1>4 DEF FrameFits
    <2>2. Len(stack) = 2
        BY <2>1
    <2>3. \A i \in 1 .. 2 : i = 1 \/ i = 2
        OBVIOUS
    <2> QED  BY <1>1, <2>1, <2>2, <2>3
<1> QED  BY <1>2, <1>3, <1>4

\* An error in a patch ends all calls: of the getters only that of the component ran.
LEMMA PatchIsDone ==
    ASSUME NEW rank, Stacked(stack), stack # <<>>, Top.at = "get", Kind[Top.w] = "render"
    PROVE  Ends(rank, stack, <<>>)
<1>1. /\ Top = stack[1] /\ 1 \in DOMAIN stack
    BY TopIs
<1>2. \A i \in DOMAIN stack : i # 1 => stack[i].at # "get"
    BY RenderAlone
<1>3. \A w, d : Collects(stack, w, d) <=> w = stack[1].w /\ d \in stack[1].new
    BY <1>1, <1>2 DEF Collects
<1> DEFINE none == <<>>
<1>4. NoGetter(none)
    BY DEF NoGetter
<1> HIDE DEF none
<1>5. Evaluates(rank, none) /\ \A w, d : ~Collects(none, w, d)
    BY <1>4, NothingCollected
<1>6. Ends(rank, stack, none)
    BY <1>3, <1>5 DEF Ends
<1> QED  BY <1>6 DEF none

\* SubscribedToWhatItRead, by who collects what.
SubscribedBy(sub, dep, act, st) ==
    \A d \in Dep :
        /\ IsInjective(sub[d])
        /\ \A w \in Range(sub[d]) : (d \in dep[w] \/ Collects(st, w, d)) /\ (IsQueued(w) => w \in act)
        /\ \A w \in act : d \in dep[w] \/ Collects(st, w, d) => w \in Range(sub[d])

LEMMA SubscribedIs == SubscribedToWhatItRead <=> SubscribedBy(subs, deps, active, stack)
BY CollectingIs DEF SubscribedToWhatItRead, SubscribedBy

\* No list changes, and a new watcher is on none.
LEMMA SubscribedStays ==
    ASSUME SubscribedBy(subs, deps, active, stack), UNCHANGED <<subs, deps>>,
           \A w, d : Collects(stack', w, d) <=> Collects(stack, w, d),
           active \subseteq active',
           \A w \in active' \ active : deps[w] = {} /\ \A d : ~Collects(stack, w, d)
    PROVE  SubscribedBy(subs', deps', active', stack')
BY DEF SubscribedBy

LEMMA SubscribedPrime ==
    SubscribedBy(subs', deps', active', stack') => SubscribedToWhatItRead'
<1>1. (SubscribedToWhatItRead <=> SubscribedBy(subs, deps, active, stack))'
    BY SubscribedIs, PTL
<1> QED  BY <1>1 DEF SubscribedBy, Collects

LEMMA AppendIs ==
    ASSUME NEW s \in Seq(Watcher), NEW w
    PROVE  /\ Range(Append(s, w)) = Range(s) \union {w}
           /\ IsInjective(s) /\ w \notin Range(s) => IsInjective(Append(s, w))
<1> DEFINE r == Append(s, w)
<1>1. /\ Len(s) \in Nat /\ DOMAIN s = 1 .. Len(s) /\ DOMAIN r = 1 .. Len(s) + 1
      /\ r[Len(s) + 1] = w /\ \A i \in 1 .. Len(s) : r[i] = s[i]
    OBVIOUS
<1> HIDE DEF r
<1>2. \A i \in DOMAIN r : i = Len(s) + 1 \/ i \in DOMAIN s
    BY <1>1
<1>3. Len(s) + 1 \in DOMAIN r /\ \A i \in DOMAIN s : i \in DOMAIN r
    BY <1>1
<1>4. Range(r) = Range(s) \union {w}
    BY <1>1, <1>2, <1>3 DEF Range
<1>5. IsInjective(s) /\ w \notin Range(s) => IsInjective(r)
    BY <1>1, <1>2 DEF Range, IsInjective
<1> QED  BY <1>4, <1>5 DEF r

LEMMA ReadSubscribes ==
    ASSUME NEW rank, RanksReaders(rank), SubscriptionInv(rank), stack # <<>>, Top.at = "get",
           NEW v, NEW ds, ds \subseteq Dep, See(v, ds), UNCHANGED <<deps, active, born>>
    PROVE  Evaluates(rank, stack') /\ SubscribedBy(subs', deps', active', stack')
<1>1. /\ Stacked(stack) /\ FrameFits(stack, 1) /\ Top = stack[1] /\ stack \in Seq(Range(stack))
      /\ 1 \in DOMAIN stack /\ DOMAIN stack = 1 .. Len(stack)
      /\ subs \in [Dep -> Seq(Watcher)]
      /\ Evaluates(rank, stack) /\ SubscribedBy(subs, deps, active, stack)
    BY TopIs, SubscribedIs DEF SubscriptionInv, SchedulerInv
<1> DEFINE w == Top.w
           g == [Top EXCEPT !.seen = Append(@, v), !.new = @ \union ds]
<1>2. w \in Watcher
    BY <1>1 DEF FrameFits
<1>3. GetsSame(stack[1], g) /\ g.new = stack[1].new \union ds /\ Replaced(stack, g, stack')
    BY <1>1, SeeIs
<1> HIDE DEF g
<1>4. \A t : t = stack' => /\ Evaluates(rank, t)
                           /\ \A u, d : Collects(t, u, d) <=> Collects(stack, u, d) \/ (u = w /\ d \in ds)
    <2> TAKE t
    <2> HAVE t = stack'
    <2>1. stack[1].at = "get" /\ Replaced(stack, g, t) /\ w = stack[1].w
        BY <1>1, <1>3
    <2> HIDE DEF w
    <2> QED  BY <1>1, <1>3, <2>1, GetterReads
<1>5. \A u, d : Collects(stack', u, d) <=> Collects(stack, u, d) \/ (u = w /\ d \in ds)
    BY <1>4
<1>6. \A d : Collects(stack, w, d) <=> d \in Top.new
    <2>1. \A i \in DOMAIN stack : i # 1 /\ stack[i].at = "get" => stack[i].w # w
        <3> SUFFICES ASSUME NEW i \in DOMAIN stack, i # 1, stack[i].at = "get", stack[i].w = w
                     PROVE  FALSE
            OBVIOUS
        <3>1. 1 < i
            BY <1>1
        <3>2. rank[stack[1].w] < rank[stack[i].w]
            BY <1>1, <3>1 DEF Evaluates
        <3>3. rank[w] \in Nat
            BY <1>2 DEF RanksReaders
        <3> QED  BY <1>1, <3>2, <3>3
    <2> QED  BY <1>1, <2>1 DEF Collects
<1>7. IsQueued(w) => w \in active
    BY <1>1 DEF Evaluates
<1>8. ASSUME NEW d \in Dep
      PROVE  /\ IsInjective(subs'[d])
             /\ Range(subs'[d]) = Range(subs[d]) \union (IF d \in ds \ (Top.new \union deps[w]) THEN {w} ELSE {})
    <2>1. subs'[d] = IF d \in ds \ (Top.new \union deps[w]) THEN Append(subs[d], w) ELSE subs[d]
        BY DEF See, Subscribe
    <2>2. IsInjective(subs[d]) /\ subs[d] \in Seq(Watcher)
        BY <1>1 DEF SubscribedBy
    <2>3. CASE d \in ds \ (Top.new \union deps[w])
        <3>1. w \notin Range(subs[d])
            BY <1>1, <1>6, <2>3 DEF SubscribedBy
        <3> HIDE DEF w
        <3> QED  BY <2>1, <2>2, <2>3, <3>1, AppendIs
    <2>4. CASE d \notin ds \ (Top.new \union deps[w])
        BY <2>1, <2>2, <2>4
    <2> QED  BY <2>3, <2>4
<1> HIDE DEF w
<1>9. ASSUME NEW d \in Dep, NEW u \in Range(subs'[d])
      PROVE  (d \in deps[u] \/ Collects(stack', u, d)) /\ (IsQueued(u) => u \in active)
    BY <1>1, <1>5, <1>7, <1>8, <1>9 DEF SubscribedBy
<1>10. ASSUME NEW d \in Dep, NEW u \in active, d \in deps[u] \/ Collects(stack', u, d)
       PROVE  u \in Range(subs'[d])
    <2>1. CASE d \in deps[u] \/ Collects(stack, u, d)
        BY <1>1, <1>8, <2>1 DEF SubscribedBy
    <2>2. CASE u = w /\ d \in ds /\ ~(d \in deps[u] \/ Collects(stack, u, d))
        BY <1>6, <1>8, <2>2
    <2> QED  BY <1>5, <1>10, <2>1, <2>2
<1>11. SubscribedBy(subs', deps', active', stack')
    BY <1>8, <1>9, <1>10 DEF SubscribedBy
<1> QED  BY <1>4, <1>11

\* After cleanupDeps a watcher is subscribed to what it read this time.
LEMMA GetterUnsubscribes ==
    ASSUME NEW rank, RanksReaders(rank), SubscriptionInv(rank), stack # <<>>, Top.at = "get",
           Ends(rank, stack, stack'), CleanupDeps, UNCHANGED <<active, born>>
    PROVE  /\ Evaluates(rank, stack') /\ SubscribedBy(subs', deps', active', stack')
           /\ deps' \in [Watcher -> SUBSET Dep] /\ \A w \in Watcher : w > born => deps'[w] = {}
<1>1. /\ Stacked(stack) /\ FrameFits(stack, 1) /\ Top = stack[1] /\ 1 \in DOMAIN stack
      /\ subs \in [Dep -> Seq(Watcher)] /\ Born
      /\ Evaluates(rank, stack) /\ SubscribedBy(subs, deps, active, stack)
    BY TopIs, SubscribedIs DEF SubscriptionInv, SchedulerInv
<1> DEFINE w == Top.w
<1>2. w \in Watcher /\ w <= born /\ Top.new \subseteq Dep
    BY <1>1 DEF FrameFits, Evaluates
<1>3. deps' = [deps EXCEPT ![w] = Top.new] /\ deps \in [Watcher -> SUBSET Dep]
    BY <1>1 DEF CleanupDeps, Born
<1>4. /\ deps' \in [Watcher -> SUBSET Dep] /\ deps'[w] = Top.new
      /\ \A u : u # w => deps'[u] = deps[u]
    BY <1>2, <1>3
<1>5. \A u \in Watcher : u > born => deps'[u] = {}
    <2> TAKE u \in Watcher
    <2>1. u > born => u # w
        BY <1>1, <1>2, LastWatcherAssumption DEF Born, Watcher
    <2> QED  BY <1>1, <1>4, <2>1 DEF Born
<1>6. Evaluates(rank, stack')
    BY DEF Ends
<1>7. /\ \A u, d : Collects(stack', u, d) <=> Collects(stack, u, d) /\ u # w
      /\ \A d : Collects(stack, w, d) <=> d \in Top.new
    BY <1>1 DEF Ends
<1>8. ASSUME NEW d \in Dep
      PROVE  /\ IsInjective(subs'[d])
             /\ Range(subs'[d]) = IF d \in deps[w] \ Top.new THEN Range(subs[d]) \ {w} ELSE Range(subs[d])
    <2>1. subs'[d] = IF d \in deps[w] \ Top.new THEN RemoveSub(subs[d], w) ELSE subs[d]
        BY DEF CleanupDeps
    <2>2. IsInjective(subs[d]) /\ subs[d] \in Seq(Watcher)
        BY <1>1 DEF SubscribedBy
    <2> HIDE DEF w
    <2> QED  BY <2>1, <2>2, RemoveSubIs
<1> HIDE DEF w
<1>9. ASSUME NEW d \in Dep, NEW u \in Range(subs'[d])
      PROVE  (d \in deps'[u] \/ Collects(stack', u, d)) /\ (IsQueued(u) => u \in active)
    <2>1. u \in Range(subs[d])
        BY <1>8, <1>9
    <2>2. (d \in deps[u] \/ Collects(stack, u, d)) /\ (IsQueued(u) => u \in active)
        BY <1>1, <2>1 DEF SubscribedBy
    <2>3. CASE u # w
        BY <1>4, <1>7, <2>2, <2>3
    <2>4. CASE u = w
        BY <1>4, <1>7, <1>8, <1>9, <2>2, <2>4
    <2> QED  BY <2>3, <2>4
<1>10. ASSUME NEW d \in Dep, NEW u \in active, d \in deps'[u] \/ Collects(stack', u, d)
       PROVE  u \in Range(subs'[d])
    <2>1. CASE u # w
        BY <1>1, <1>4, <1>7, <1>8, <1>10, <2>1 DEF SubscribedBy
    <2>2. CASE u = w
        BY <1>1, <1>4, <1>7, <1>8, <1>10, <2>2 DEF SubscribedBy
    <2> QED  BY <2>1, <2>2
<1>11. SubscribedBy(subs', deps', active', stack')
    BY <1>8, <1>9, <1>10 DEF SubscribedBy
<1> QED  BY <1>4, <1>5, <1>6, <1>11

Keeps(rank) ==
    /\ Born' /\ Evaluates(rank, stack)'
    /\ SubscribedBy(subs', deps', active', stack')

LEMMA EvaluatesPrime ==
    ASSUME NEW rank, Evaluates(rank, stack'), UNCHANGED <<active, born>>
    PROVE  Evaluates(rank, stack)'
BY DEF Evaluates

\* A step that no getter takes part in.
LEMMA QuietStep ==
    ASSUME NEW rank, SubscriptionInv(rank), NoGetter(stack), NoGetter(stack'),
           UNCHANGED <<subs, deps, active, born>>, dirty' \subseteq 1 .. born
    PROVE  Keeps(rank)
<1>1. Evaluates(rank, stack') /\ \A w, d : ~Collects(stack', w, d)
    <2>1. \A t : t = stack' => Evaluates(rank, t) /\ \A w, d : ~Collects(t, w, d)
        BY NothingCollected
    <2> QED  BY <2>1
<1>2. \A w, d : ~Collects(stack, w, d)
    BY NothingCollected
<1>3. SubscribedBy(subs, deps, active, stack) /\ Born
    BY SubscribedIs DEF SubscriptionInv
<1>4. SubscribedBy(subs', deps', active', stack')
    BY <1>1, <1>2, <1>3, SubscribedStays
<1>5. Evaluates(rank, stack)'
    BY <1>1, EvaluatesPrime
<1> QED  BY <1>3, <1>4, <1>5 DEF Keeps, Born

\* Who is told of a write was created.
LEMMA WriteReachesBorn ==
    ASSUME NEW rank, SubscriptionInv(rank), NoGetter(stack), NEW x, Write(x)
    PROVE  dirty' \subseteq 1 .. born
<1>1. /\ SubscribedBy(subs, deps, active, stack) /\ Born /\ subs \in [Dep -> Seq(Watcher)]
    BY SubscribedIs DEF SubscriptionInv, SchedulerInv
<1>2. \A w, d : ~Collects(stack, w, d)
    BY NothingCollected
<1>3. ASSUME NEW d \in Dep, NEW w \in Range(subs[d])
      PROVE  w \in 1 .. born
    <2>1. subs[d] \in Seq(Watcher)
        BY <1>1
    <2>2. w \in Watcher
        BY <2>1, IsSequence
    <2>3. d \in deps[w]
        BY <1>1, <1>2, <1>3 DEF SubscribedBy
    <2>4. ~(w > born)
        BY <1>1, <2>2, <2>3 DEF Born
    <2> QED  BY <1>1, <2>2, <2>4, LastWatcherAssumption DEF Born, Watcher
<1> QED  BY <1>1, <1>3, WriteIs DEF Born

LEMMA OuterAlone ==
    ASSUME Stacked(stack), stack # <<>>, Top.at \in {"flush", "updated"}
    PROVE  NoGetter(stack) /\ IsOuter(Top) /\ Tail(stack) = <<>>
<1>1. IsOuter(Top) /\ Len(stack) = 1 /\ Tail(stack) = <<>>
    BY OuterIs
<1>2. Top = stack[1] /\ DOMAIN stack = 1 .. 1
    BY <1>1, TopIs
<1>3. \A i \in 1 .. 1 : i = 1
    OBVIOUS
<1>4. NoGetter(stack)
    BY <1>2, <1>3 DEF NoGetter
<1> QED  BY <1>1, <1>4

LEMMA CreateKeeps ==
    ASSUME NEW rank, SubscriptionInv(rank), Create
    PROVE  Keeps(rank)
<1>1. /\ SubscribedBy(subs, deps, active, stack) /\ Born /\ stack = <<>>
      /\ born < LastWatcher /\ born' = born + 1 /\ active' = active \union {born + 1}
      /\ dirty' \subseteq dirty \union {born + 1} /\ UNCHANGED <<subs, deps>>
    BY SubscribedIs DEF SubscriptionInv, Create
<1> DEFINE n == born + 1
<1>2. n \in Watcher /\ n > born /\ born \in Nat /\ n \in Nat
    BY <1>1, LastWatcherAssumption DEF Born, Watcher
<1>3. deps[n] = {}
    BY <1>1, <1>2 DEF Born
<1>4. \A w, d : ~Collects(stack, w, d)
    BY <1>1 DEF Collects
<1>5. stack' = <<>> \/ (Kind[n] # "lazy" /\ stack' = <<GetFrame(n, "create")>>)
    <2>1. CASE Kind[n] = "lazy"
        BY <1>1, <2>1 DEF Create
    <2>2. CASE Kind[n] # "lazy"
        <3> DEFINE f == GetFrame(n, "create")
        <3>1. <<f>> \o <<>> = <<f>>
            OBVIOUS
        <3>2. stack' = <<f>> \o <<>>
            BY <1>1, <2>2 DEF Create, Push
        <3> QED  BY <2>2, <3>1, <3>2
    <2> QED  BY <2>1, <2>2
<1>6. Evaluates(rank, stack)' /\ \A w, d : ~Collects(stack', w, d)
    <2>1. CASE stack' = <<>>
        BY <2>1 DEF Evaluates, Collects
    <2>2. CASE stack' = <<GetFrame(n, "create")>>
        <3> DEFINE f == GetFrame(n, "create")
        <3>1. f.at = "get" /\ f.w = n /\ f.new = {}
            BY DEF GetFrame
        <3> HIDE DEF f
        <3>2. DOMAIN stack' = 1 .. 1 /\ stack'[1] = f
            BY <2>2 DEF f
        <3>3. \A i \in DOMAIN stack' : i = 1
            BY <3>2
        <3>4. \A w, d : ~Collects(stack', w, d)
            BY <3>1, <3>2, <3>3 DEF Collects
        <3>5. n <= born' /\ n \in active'
            BY <1>1, <1>2
        <3>6. \A i, j \in DOMAIN stack' : ~(i < j)
            BY <3>3
        <3> HIDE DEF n
        <3>7. Evaluates(rank, stack)'
            BY <3>1, <3>2, <3>3, <3>5, <3>6 DEF Evaluates
        <3> QED  BY <3>4, <3>7
    <2> QED  BY <1>5, <2>1, <2>2
<1>7. SubscribedBy(subs', deps', active', stack')
    <2>1. \A w \in active' \ active : deps[w] = {} /\ \A d : ~Collects(stack, w, d)
        BY <1>1, <1>3, <1>4
    <2>2. \A w, d : Collects(stack', w, d) <=> Collects(stack, w, d)
        BY <1>4, <1>6
    <2> QED  BY <1>1, <2>1, <2>2, SubscribedStays
<1>8. Born'
    <2>1. born' \in 0 .. LastWatcher
        BY <1>1, <1>2, LastWatcherAssumption
    <2>2. \A w \in 1 .. born : w \in 1 .. born'
        BY <1>1, <1>2
    <2>3. n \in 1 .. born'
        BY <1>1, <1>2
    <2>4. \A w \in Watcher : w > born' => w > born
        BY <1>1, <1>2, LastWatcherAssumption DEF Watcher
    <2> QED  BY <1>1, <2>1, <2>2, <2>3, <2>4 DEF Born
<1> QED  BY <1>6, <1>7, <1>8 DEF Keeps

LEMMA GetKeeps ==
    ASSUME NEW rank, RanksReaders(rank), SubscriptionInv(rank), Get
    PROVE  Keeps(rank)
<1>1. /\ SubscribedBy(subs, deps, active, stack) /\ Born /\ Evaluates(rank, stack)
      /\ Stacked(stack) /\ stack # <<>> /\ Top.at = "get"
    BY SubscribedIs DEF SubscriptionInv, SchedulerInv, Get
<1>2. /\ Top = stack[1] /\ FrameFits(stack, 1) /\ 1 \in DOMAIN stack
      /\ stack \in Seq(Range(stack)) /\ DOMAIN stack = 1 .. Len(stack) /\ Len(stack) \in Nat
    BY <1>1, TopIs
<1>3. CASE GetDone \/ GetThrows \/ PatchThrows
    <2>1. CleanupDeps /\ UNCHANGED <<active, born>> /\ dirty' \subseteq dirty
        BY <1>1, <1>3, GetterLeaves DEF PatchThrows
    <2>ends. Ends(rank, stack, stack')
        <3>1. CASE GetDone \/ GetThrows
            <4>1. Leaves(stack, stack')
                BY <1>1, <3>1, GetterLeaves
            <4>2. \A t : t = stack' => Ends(rank, stack, t)
                BY <1>1, <1>2, <4>1, GetterIsDone DEF RanksReaders
            <4> QED  BY <4>2
        <3>2. CASE PatchThrows
            <4>1. stack' = <<>> /\ Kind[Top.w] = "render"
                BY <3>2 DEF PatchThrows
            <4> QED  BY <1>1, <4>1, PatchIsDone
        <3> QED  BY <1>3, <3>1, <3>2
    <2>2. /\ Evaluates(rank, stack') /\ SubscribedBy(subs', deps', active', stack')
          /\ deps' \in [Watcher -> SUBSET Dep] /\ \A w \in Watcher : w > born => deps'[w] = {}
        BY <1>1, <2>1, <2>ends, GetterUnsubscribes
    <2>3. Evaluates(rank, stack)'
        BY <2>1, <2>2, EvaluatesPrime
    <2>4. Born'
        BY <1>1, <2>1, <2>2 DEF Born
    <2> QED  BY <2>2, <2>3, <2>4 DEF Keeps
<1>4. CASE ReadCell \/ ReadComputed
    <2>1. UNCHANGED <<dirty, deps, active, born>>
        BY <1>2, <1>4, ReadIs DEF watcherVars
    <2>2. Born'
        BY <1>1, <2>1 DEF Born
    <2>3. ASSUME NEW v, NEW ds, See(v, ds), ds \subseteq Dep
          PROVE  Keeps(rank)
        <3>1. Evaluates(rank, stack') /\ SubscribedBy(subs', deps', active', stack')
            BY <1>1, <2>1, <2>3, ReadSubscribes
        <3>2. Evaluates(rank, stack)'
            BY <2>1, <3>1, EvaluatesPrime
        <3> QED  BY <2>2, <3>1, <3>2 DEF Keeps
    <2>4. ASSUME NEW do, EvaluatesFirst(do)
          PROVE  Keeps(rank)
        <3> DEFINE f == GetFrame(do.id, "evaluate")
                   c == do.id
        <3>1. f.at = "get" /\ f.w = c /\ f.new = {}
            BY DEF GetFrame
        <3>2. c \in Watcher /\ ~IsQueued(c) /\ c \in dirty /\ Pushed(stack, f, stack') /\ UNCHANGED subs
            BY <2>4 DEF EvaluatesFirst, Computed, IsQueued
        <3>3. c <= born
            BY <1>1, <3>2 DEF Born
        <3>4. rank[c] < rank[Top.w]
            <4>1. do = Read(Top.w, Top.seen) /\ do.op = "computed"
                BY <2>4 DEF EvaluatesFirst
            <4>2. Top.w \in Watcher
                BY <1>1, <1>2 DEF FrameFits
            <4> QED  BY <3>2, <4>1, <4>2 DEF RanksReaders
        <3> HIDE DEF f, c
        <3>5. ASSUME NEW i \in DOMAIN stack, stack[i].at = "get"
              PROVE  rank[c] < rank[stack[i].w]
            <4>1. CASE i = 1
                BY <1>2, <3>4, <4>1
            <4>2. CASE i # 1
                <5>1. 1 < i
                    BY <1>2, <4>2
                <5>2. rank[stack[1].w] < rank[stack[i].w]
                    BY <1>1, <1>2, <3>5, <5>1 DEF Evaluates
                <5>3. rank[c] \in Nat /\ rank[stack[1].w] \in Nat /\ rank[stack[i].w] \in Nat
                    <6>1. FrameFits(stack, i)
                        BY <1>1 DEF Stacked
                    <6>2. stack[1].w \in Watcher /\ stack[i].w \in Watcher
                        BY <1>1, <1>2, <3>5, <6>1 DEF FrameFits
                    <6> QED  BY <3>2, <6>2 DEF RanksReaders
                <5> QED  BY <1>2, <3>4, <5>2, <5>3
            <4> QED  BY <4>1, <4>2
        <3>6. \A t : t = stack' =>
                  Evaluates(rank, t) /\ \A w, d : Collects(t, w, d) <=> Collects(stack, w, d)
            <4> TAKE t
            <4> HAVE t = stack'
            <4>1. Pushed(stack, f, t) /\ rank[f.w] = rank[c]
                BY <3>1, <3>2
            <4> QED  BY <1>1, <1>2, <3>1, <3>2, <3>3, <3>5, <4>1, GetterStarts
        <3>7. SubscribedBy(subs', deps', active', stack')
            BY <1>1, <2>1, <3>2, <3>6, SubscribedStays
        <3>8. Evaluates(rank, stack)'
            BY <2>1, <3>6, EvaluatesPrime
        <3> QED  BY <2>2, <3>7, <3>8 DEF Keeps
    <2> QED  BY <1>1, <1>2, <1>4, <2>3, <2>4, ReadIs DEF Born
<1> QED  BY <1>3, <1>4 DEF Get

\* Nor does a callback or a hook.
LEMMA WritesRunNone ==
    ASSUME Stacked(stack), Writes
    PROVE  NoGetter(stack) /\ NoGetter(stack')
<1>1. stack # <<>> /\ Top.at = "writes"
    BY DEF Writes
<1> DEFINE f == stack[2]
<1>2. IsWriter(Top) /\ Len(stack) = 2 /\ IsOuter(f) /\ Tail(stack) = <<f>>
    BY <1>1, WriterIs
<1>3. NoGetter(stack)
    <2>1. Top = stack[1] /\ DOMAIN stack = 1 .. 2
        BY <1>1, <1>2, TopIs
    <2>2. \A i \in 1 .. 2 : i = 1 \/ i = 2
        OBVIOUS
    <2> QED  BY <1>2, <2>1, <2>2 DEF NoGetter, IsWriter, IsOuter
<1> HIDE DEF f
<1>4. CASE Top.list = <<>>
    <2>1. stack' = <<f>>
        BY <1>2, <1>4 DEF Writes, Pop
    <2> QED  BY <1>2, <1>3, <2>1, OuterRunsNone
<1>5. CASE Top.list # <<>>
    <2> DEFINE g == [Top EXCEPT !.list = Tail(@)]
    <2>1. stack' = <<g>> \o <<f>>
        BY <1>2, <1>5 DEF Writes, Replace
    <2>2. IsWriter(g)
        BY <1>2 DEF IsWriter
    <2> HIDE DEF g
    <2> QED  BY <1>2, <1>3, <2>1, <2>2, OuterRunsNone
<1> QED  BY <1>4, <1>5

LEMMA WritesKeep ==
    ASSUME NEW rank, SubscriptionInv(rank), Writes
    PROVE  Keeps(rank)
<1>1. /\ Stacked(stack) /\ UNCHANGED <<subs, deps, active, born>> /\ Born
    BY DEF SubscriptionInv, SchedulerInv, Writes, watcherVars
<1>2. NoGetter(stack) /\ NoGetter(stack')
    BY <1>1, WritesRunNone
<1>3. dirty' \subseteq 1 .. born
    <2>1. CASE UNCHANGED dirty
        BY <1>1, <2>1 DEF Born
    <2>2. CASE Write(Head(Top.list))
        BY <1>2, <2>2, WriteReachesBorn
    <2> QED  BY <2>1, <2>2 DEF Writes
<1> QED  BY <1>1, <1>2, <1>3, QuietStep

\* The flush, its hooks and the updated hooks run no getter.
LEMMA FlushRunsNone ==
    ASSUME Stacked(stack), FlushStarts \/ FlushBefore \/ FlushAfter \/ FlushEnds \/ UpdatedHooks
    PROVE  NoGetter(stack) /\ NoGetter(stack')
<1>idle. NoGetter(<<>>)
    BY DEF NoGetter
<1>1. CASE FlushStarts
    <2> DEFINE f == [at |-> "flush", phase |-> "before"]
    <2>1. IsOuter(f)
        BY DEF IsOuter
    <2>2. stack = <<>> /\ stack' = <<f>> \o <<>> /\ <<f>> \o <<>> = <<f>>
        BY <1>1 DEF FlushStarts, Push
    <2> HIDE DEF f
    <2> QED  BY <1>idle, <2>1, <2>2, OuterRunsNone
<1>2. ASSUME stack # <<>>, Top.at \in {"flush", "updated"}, NEW f, IsOuter(f), stack' = <<f>> \o Tail(stack)
      PROVE  NoGetter(stack) /\ NoGetter(stack')
    <2>1. Tail(stack) = <<>> /\ NoGetter(stack)
        BY <1>2, OuterAlone
    <2>2. stack' = <<f>>
        <3>1. <<f>> \o <<>> = <<f>>
            OBVIOUS
        <3> QED  BY <1>2, <2>1, <3>1
    <2> QED  BY <1>2, <2>1, <2>2, OuterRunsNone
<1>3. CASE FlushAfter \/ FlushEnds
    <2>1. stack # <<>> /\ Top.at = "flush"
        BY <1>3 DEF FlushAfter, FlushEnds, Flushes
    <2>2. IsOuter(Top)
        BY <2>1, OuterAlone
    <2> DEFINE f == [Top EXCEPT !.phase = "before"]
               h == [at |-> "updated", ws |-> queue]
    <2>3. IsOuter(f) /\ IsOuter(h)
        BY <2>1, <2>2 DEF IsOuter
    <2>4. stack' = <<f>> \o Tail(stack) \/ stack' = <<h>> \o Tail(stack)
        BY <1>3 DEF FlushAfter, FlushEnds, ResetScheduler, Replace
    <2> HIDE DEF f, h
    <2> QED  BY <1>2, <2>1, <2>3, <2>4
<1>4. CASE FlushBefore \/ UpdatedHooks
    <2>1. stack # <<>> /\ Top.at \in {"flush", "updated"}
        BY <1>4 DEF FlushBefore, UpdatedHooks, Flushes
    <2>2. IsOuter(Top) /\ NoGetter(stack)
        BY <2>1, OuterAlone
    <2> DEFINE Rest(f, list) == \/ stack' = <<>> \/ stack' = <<>> \o <<f>>
                                \/ stack' = <<[at |-> "writes", list |-> list]>> \o <<f>>
    <2>3. ASSUME NEW f, NEW list, IsOuter(f), Rest(f, list)
          PROVE  NoGetter(stack')
        <3> DEFINE g == [at |-> "writes", list |-> list]
        <3>1. IsWriter(g)
            BY DEF IsWriter
        <3>2. stack' = <<>> \/ stack' = <<>> \o <<f>> \/ stack' = <<g>> \o <<f>>
            BY <2>3
        <3>3. <<>> \o <<f>> = <<f>>
            OBVIOUS
        <3> HIDE DEF g
        <3> QED  BY <1>idle, <2>3, <3>1, <3>2, <3>3, OuterRunsNone
    <2>4. CASE FlushBefore
        <3> DEFINE f == [Top EXCEPT !.phase = "run"]
        <3>1. IsOuter(f)
            BY <2>2, <2>4 DEF IsOuter, FlushBefore, Flushes
        <3>2. Rest(f, BeforeUpdate(Running))
            BY <2>4 DEF FlushBefore
        <3> HIDE DEF f, Rest
        <3> QED  BY <2>2, <2>3, <3>1, <3>2
    <2>5. CASE UpdatedHooks
        <3> DEFINE f == [Top EXCEPT !.ws = Front(@)]
        <3>1. IsOuter(f)
            BY <2>2, <2>5 DEF IsOuter, UpdatedHooks
        <3>2. Rest(f, Updated(Last(Top.ws)))
            BY <2>5 DEF UpdatedHooks
        <3> HIDE DEF f, Rest
        <3> QED  BY <2>2, <2>3, <3>1, <3>2
    <2> QED  BY <1>4, <2>4, <2>5
<1> QED  BY <1>1, <1>3, <1>4

LEMMA FlushKeeps ==
    ASSUME NEW rank, SubscriptionInv(rank),
           FlushStarts \/ FlushBefore \/ FlushAfter \/ FlushEnds \/ UpdatedHooks
    PROVE  Keeps(rank)
<1>1. Stacked(stack) /\ Born
    BY DEF SubscriptionInv, SchedulerInv
<1>2. UNCHANGED <<subs, deps, active, born, dirty>>
    BY DEF FlushStarts, FlushBefore, FlushAfter, FlushEnds, UpdatedHooks, ResetScheduler, watcherVars
<1>3. NoGetter(stack) /\ NoGetter(stack')
    BY <1>1, FlushRunsNone
<1> QED  BY <1>1, <1>2, <1>3, QuietStep DEF Born

LEMMA FlushRunKeeps ==
    ASSUME NEW rank, SubscriptionInv(rank), FlushRun
    PROVE  Keeps(rank)
<1>1. /\ SubscribedBy(subs, deps, active, stack) /\ Stacked(stack) /\ Born /\ stack # <<>> /\ Top.at = "flush"
      /\ UNCHANGED <<subs, deps, active, born, dirty>>
    BY SubscribedIs DEF SubscriptionInv, SchedulerInv, FlushRun, Flushes, watcherVars
<1>2. IsOuter(Top) /\ NoGetter(stack)
    BY <1>1, OuterAlone
<1> DEFINE f == [Top EXCEPT !.phase = "after"]
           g == GetFrame(Running, "run")
<1>3. IsOuter(f)
    BY <1>1, <1>2 DEF IsOuter
<1>4. stack' = <<>> \o <<f>> \/ (Running \in active /\ stack' = <<g>> \o <<f>>)
    BY DEF FlushRun
<1>5. g.at = "get" /\ g.w = Running /\ g.new = {}
    BY DEF GetFrame
<1> DEFINE st == <<f>>
<1>6. st \in Seq(Range(st)) /\ <<>> \o <<f>> = <<f>>
    <2>1. st \in Seq({f})
        OBVIOUS
    <2> HIDE DEF f, st
    <2>2. st \in Seq(Range(st))
        BY <2>1, IsSequence
    <2> QED  BY <2>2 DEF st
<1> HIDE DEF f, g
<1>7. NoGetter(st)
    BY <1>3, OuterRunsNone
<1> HIDE DEF st
<1>8. CASE stack' = <<>> \o <<f>>
    <2>1. NoGetter(stack')
        BY <1>6, <1>7, <1>8 DEF st
    <2> QED  BY <1>1, <1>2, <2>1, QuietStep DEF Born
<1>9. CASE Running \in active /\ stack' = <<g>> \o <<f>>
    <2>1. Pushed(st, g, stack')
        BY <1>6, <1>9, PushIs DEF st
    <2>2. /\ Evaluates(rank, st) /\ (\A w, d : ~Collects(st, w, d))
          /\ \A w, d : ~Collects(stack, w, d)
        BY <1>2, <1>7, NothingCollected
    <2>3. g.w <= born /\ (IsQueued(g.w) => g.w \in active)
        <3>1. active \subseteq 1 .. born
            BY <1>1 DEF Born
        <3>2. Running \in active /\ g.w = Running
            BY <1>5, <1>9
        <3>3. Running \in 1 .. born
            BY <3>1, <3>2
        <3>4. Running <= born
            BY <3>3
        <3> QED  BY <3>2, <3>4
    <2>4. \A i \in DOMAIN st : st[i].at = "get" => rank[g.w] < rank[st[i].w]
        BY <1>7 DEF NoGetter
    <2>5. \A t : t = stack' => Evaluates(rank, t) /\ \A w, d : Collects(t, w, d) <=> Collects(st, w, d)
        <3> TAKE t
        <3> HAVE t = stack'
        <3>1. Pushed(st, g, t)
            BY <2>1
        <3> QED  BY <1>5, <1>6, <2>2, <2>3, <2>4, <3>1, GetterStarts
    <2>6. Evaluates(rank, stack') /\ \A w, d : Collects(stack', w, d) <=> Collects(stack, w, d)
        BY <2>2, <2>5
    <2>7. SubscribedBy(subs', deps', active', stack')
        BY <1>1, <2>6, SubscribedStays
    <2>8. Evaluates(rank, stack)'
        BY <1>1, <2>6, EvaluatesPrime
    <2> QED  BY <1>1, <2>7, <2>8 DEF Keeps, Born
<1> QED  BY <1>4, <1>8, <1>9

LEMMA TaskKeeps ==
    ASSUME NEW rank, SubscriptionInv(rank), TaskDoes
    PROVE  Keeps(rank)
<1>1. /\ SubscribedBy(subs, deps, active, stack) /\ Born /\ stack = <<>> /\ UNCHANGED stack
      /\ subs \in [Dep -> Seq(Watcher)]
    BY SubscribedIs DEF SubscriptionInv, SchedulerInv, TaskDoes
<1>2. NoGetter(stack) /\ NoGetter(stack') /\ \A w, d : ~Collects(stack, w, d)
    BY <1>1 DEF NoGetter, Collects
<1>3. PICK x : \/ Write(x) /\ UNCHANGED <<subs, watcherVars>>
               \/ Teardown(x.id)
    BY DEF TaskDoes
<1>4. CASE Write(x) /\ UNCHANGED <<subs, watcherVars>>
    BY <1>2, <1>4, WriteReachesBorn, QuietStep DEF watcherVars
<1>5. CASE Teardown(x.id)
    <2> DEFINE w == x.id
    <2>1. /\ active' = active \ {w} /\ UNCHANGED <<deps, born, dirty>>
          /\ subs' = [d \in Dep |-> IF d \in deps[w] THEN RemoveSub(subs[d], w) ELSE subs[d]]
        BY <1>5 DEF Teardown
    <2> HIDE DEF w
    <2>2. ASSUME NEW d \in Dep
          PROVE  /\ IsInjective(subs'[d])
                 /\ Range(subs'[d]) = IF d \in deps[w] THEN Range(subs[d]) \ {w} ELSE Range(subs[d])
        <3>1. IsInjective(subs[d]) /\ subs[d] \in Seq(Watcher)
            BY <1>1 DEF SubscribedBy
        <3> QED  BY <2>1, <3>1, RemoveSubIs
    <2>3. ASSUME NEW d \in Dep, NEW u \in Range(subs'[d])
          PROVE  d \in deps[u] /\ (IsQueued(u) => u \in active')
        <3>1. u \in Range(subs[d])
            BY <2>2, <2>3
        <3>2. d \in deps[u] /\ (IsQueued(u) => u \in active)
            BY <1>1, <1>2, <3>1 DEF SubscribedBy
        <3>3. u # w
            BY <2>2, <2>3, <3>2
        <3> QED  BY <2>1, <3>2, <3>3
    <2>4. ASSUME NEW d \in Dep, NEW u \in active', d \in deps[u]
          PROVE  u \in Range(subs'[d])
        BY <1>1, <2>1, <2>2, <2>4 DEF SubscribedBy
    <2>5. SubscribedBy(subs', deps', active', stack')
        BY <1>1, <1>2, <2>1, <2>2, <2>3, <2>4 DEF SubscribedBy
    <2>6. Born'
        BY <1>1, <2>1 DEF Born
    <2>7. Evaluates(rank, stack)'
        BY <1>1 DEF Evaluates
    <2> QED  BY <2>5, <2>6, <2>7 DEF Keeps
<1> QED  BY <1>3, <1>4, <1>5

LEMMA SubscriptionStep ==
    ASSUME NEW rank, RanksReaders(rank)
    PROVE  SubscriptionInv(rank) /\ [ReactNext]_reactVars => SubscriptionInv(rank)'
<1> SUFFICES ASSUME SubscriptionInv(rank), [ReactNext]_reactVars
             PROVE  SubscriptionInv(rank)'
    OBVIOUS
<1>1. SchedulerInv'
    BY SchedulerStep DEF SubscriptionInv, Born
<1>2. ASSUME Keeps(rank) PROVE SubscriptionInv(rank)'
    BY <1>1, <1>2, SubscribedPrime DEF Keeps, SubscriptionInv
<1>3. CASE ReactNext
    BY <1>2, <1>3, CreateKeeps, GetKeeps, WritesKeep, FlushKeeps, FlushRunKeeps, TaskKeeps DEF ReactNext, Goes
<1>4. CASE UNCHANGED reactVars
    <2>1. SubscribedToWhatItRead'
        BY <1>4 DEF SubscriptionInv, SubscribedToWhatItRead, Collecting, reactVars, watcherVars
    <2>2. Born' /\ Evaluates(rank, stack)'
        BY <1>4 DEF SubscriptionInv, Born, Evaluates, reactVars, watcherVars
    <2> QED  BY <1>1, <2>1, <2>2 DEF SubscriptionInv
<1> QED  BY <1>3, <1>4

LEMMA SubscriptionStart ==
    ASSUME NEW rank
    PROVE  ReactInit => SubscriptionInv(rank)
<1> SUFFICES ASSUME ReactInit PROVE SubscriptionInv(rank)
    OBVIOUS
<1>1. SchedulerInv
    BY SchedulerStart
<1>2. Born
    BY LastWatcherAssumption DEF ReactInit, Born
<1> DEFINE none == <<>>
<1>3. DOMAIN none = {} /\ stack = none /\ subs = [d \in Dep |-> none] /\ active = {}
    BY DEF ReactInit
<1> HIDE DEF none
<1>4. Evaluates(rank, stack)
    BY <1>3 DEF Evaluates
<1>5. SubscribedToWhatItRead
    BY <1>3 DEF SubscribedToWhatItRead, IsInjective, Range
<1> QED  BY <1>1, <1>2, <1>4, <1>5 DEF SubscriptionInv

\* When no computed property reads itself, a watcher is subscribed, once, to all that it
\* read last or is reading and to nothing else; one that was torn down to nothing,
\* unless it is a computed property that is still read (addDep, cleanupDeps, teardown).
THEOREM SubscribedOnce ==
    ASSUME Acyclic
    PROVE  ReactSpec => []SubscribedToWhatItRead
<1>1. PICK rank : RanksReaders(rank)
    BY DEF Acyclic
<1>2. ReactInit => SubscriptionInv(rank)
    BY SubscriptionStart
<1>3. SubscriptionInv(rank) /\ [ReactNext]_reactVars => SubscriptionInv(rank)'
    BY <1>1, SubscriptionStep
<1>4. SubscriptionInv(rank) => SubscribedToWhatItRead
    BY DEF SubscriptionInv
<1> QED  BY <1>2, <1>3, <1>4, PTL DEF ReactSpec

-----------------------------------------------------------------------------
(* What getters read. *)

\* The watchers that frames of st evaluate.
Evaluating(st) == {st[i].w : i \in {j \in DOMAIN st : st[j].at = "get"}}

\* The watchers that read last what they would read now.
Clean == active \ (didThrow \union dropped \union dirty \union has \union Evaluating(stack))

\* What getters read.
Memory == [cells |-> [c \in Cell |-> CellValue(c)], cellDeps |-> [c \in Cell |-> CellDeps(c)],
           clean |-> Clean, value |-> value, deps |-> deps]

\* With m as the memory, the getter of w reads seen and collects ds; the computed
\* properties among that are clean.
Sees(m, w, seen, ds) ==
    LET do(i) == Read(w, SubSeq(seen, 1, i - 1))
        of(i) == IF do(i).op = "cell" THEN m.cellDeps[do(i).id] ELSE m.deps[do(i).id]
    IN  /\ \A i \in DOMAIN seen :
               \/ do(i).op = "cell" /\ do(i).id \in Cell /\ seen[i] = m.cells[do(i).id]
               \/ /\ do(i).op = "computed" /\ do(i).id \in m.clean \intersect Computed
                  /\ seen[i] = m.value[do(i).id]
        /\ ds = UNION {of(i) : i \in DOMAIN seen}

FreshIn(m, st) ==
    /\ \A w \in m.clean : Sees(m, w, m.value[w], m.deps[w]) /\ Read(w, m.value[w]).op = "done"
    /\ \A i \in DOMAIN st : st[i].at = "get" =>
           st[i].seen \in Seq(Range(st[i].seen)) /\ Sees(m, st[i].w, st[i].seen, st[i].new)

\* What changes nothing of ds changes nothing of what the getter sees.
LEMMA SeesStays ==
    ASSUME NEW m, NEW n, NEW w, NEW seen, NEW ds, Sees(m, w, seen, ds),
           \A c \in Cell : m.cellDeps[c] \subseteq ds =>
               n.cells[c] = m.cells[c] /\ n.cellDeps[c] = m.cellDeps[c],
           \A c \in m.clean \intersect Computed : m.deps[c] \subseteq ds =>
               c \in n.clean /\ n.value[c] = m.value[c] /\ n.deps[c] = m.deps[c]
    PROVE  Sees(n, w, seen, ds)
<1> DEFINE do(i) == Read(w, SubSeq(seen, 1, i - 1))
           of(i) == IF do(i).op = "cell" THEN m.cellDeps[do(i).id] ELSE m.deps[do(i).id]
           in(i) == IF do(i).op = "cell" THEN n.cellDeps[do(i).id] ELSE n.deps[do(i).id]
<1>1. /\ \A i \in DOMAIN seen :
             \/ do(i).op = "cell" /\ do(i).id \in Cell /\ seen[i] = m.cells[do(i).id]
             \/ /\ do(i).op = "computed" /\ do(i).id \in m.clean \intersect Computed
                /\ seen[i] = m.value[do(i).id]
      /\ ds = UNION {of(i) : i \in DOMAIN seen}
    BY DEF Sees
<1> HIDE DEF do
<1>2. ASSUME NEW i \in DOMAIN seen
      PROVE  /\ \/ do(i).op = "cell" /\ do(i).id \in Cell /\ seen[i] = n.cells[do(i).id]
                \/ /\ do(i).op = "computed" /\ do(i).id \in n.clean \intersect Computed
                   /\ seen[i] = n.value[do(i).id]
             /\ in(i) = of(i)
    <2>1. of(i) \subseteq ds
        BY <1>1
    <2>2. CASE do(i).op = "cell"
        BY <1>1, <2>1, <2>2
    <2>3. CASE do(i).op = "computed"
        BY <1>1, <2>1, <2>3
    <2> QED  BY <1>1, <2>2, <2>3
<1>3. {of(i) : i \in DOMAIN seen} = {in(i) : i \in DOMAIN seen}
    BY <1>2
<1>4. ds = UNION {in(i) : i \in DOMAIN seen}
    BY <1>1, <1>3
<1> QED  BY <1>2, <1>4 DEF Sees, do

\* One read more.
LEMMA SeesMore ==
    ASSUME NEW m, NEW w, NEW S, NEW seen \in Seq(S), NEW ds, Sees(m, w, seen, ds),
           NEW do, do = Read(w, seen), NEW v, NEW es,
           \/ do.op = "cell" /\ do.id \in Cell /\ v = m.cells[do.id] /\ es = m.cellDeps[do.id]
           \/ /\ do.op = "computed" /\ do.id \in m.clean \intersect Computed
              /\ v = m.value[do.id] /\ es = m.deps[do.id]
    PROVE  Sees(m, w, Append(seen, v), ds \union es)
<1> DEFINE next == Append(seen, v)
           T == S \union {v}
           k == Len(seen)
           did(i) == Read(w, SubSeq(seen, 1, i - 1))
           does(i) == Read(w, SubSeq(next, 1, i - 1))
           of(x) == IF x.op = "cell" THEN m.cellDeps[x.id] ELSE m.deps[x.id]
           Seen(x, u) == \/ x.op = "cell" /\ x.id \in Cell /\ u = m.cells[x.id]
                         \/ /\ x.op = "computed" /\ x.id \in m.clean \intersect Computed
                            /\ u = m.value[x.id]
<1>1. /\ k \in Nat /\ DOMAIN seen = 1 .. k /\ DOMAIN next = 1 .. k + 1
      /\ next[k + 1] = v /\ \A i \in 1 .. k : next[i] = seen[i]
    OBVIOUS
<1>2. seen \in Seq(T) /\ next \in Seq(T) /\ Len(next) = k + 1
    <2>1. seen \in [1 .. k -> S] /\ k \in Nat
        OBVIOUS
    <2>2. seen \in [1 .. k -> T]
        BY <2>1
    <2>3. seen \in Seq(T)
        BY <2>1, <2>2
    <2>4. v \in T
        OBVIOUS
    <2> HIDE DEF T
    <2> QED  BY <2>3, <2>4
<1>3. ASSUME NEW i \in 1 .. k + 1
      PROVE  SubSeq(next, 1, i - 1) = SubSeq(seen, 1, i - 1)
    <2> HIDE DEF next, T
    <2>1. i - 1 \in Nat /\ i - 1 <= k /\ i - 1 <= k + 1
        BY <1>1
    <2>2. /\ Len(SubSeq(next, 1, i - 1)) = i - 1 /\ Len(SubSeq(seen, 1, i - 1)) = i - 1
          /\ SubSeq(next, 1, i - 1) \in Seq(T) /\ SubSeq(seen, 1, i - 1) \in Seq(T)
        BY <1>1, <1>2, <2>1
    <2>3. ASSUME NEW j \in 1 .. i - 1
          PROVE  SubSeq(next, 1, i - 1)[j] = SubSeq(seen, 1, i - 1)[j]
        <3>1. j \in 1 .. k
            BY <1>1, <2>1
        <3>2. SubSeq(next, 1, i - 1)[j] = next[j]
            BY <1>1, <1>2, <2>1
        <3>3. SubSeq(seen, 1, i - 1)[j] = seen[j]
            BY <1>1, <1>2, <2>1
        <3> QED  BY <1>1, <3>1, <3>2, <3>3
    <2> QED  BY <2>1, <2>2, <2>3
<1>4. SubSeq(seen, 1, k) = seen
    <2>1. /\ Len(SubSeq(seen, 1, k)) = k /\ SubSeq(seen, 1, k) \in Seq(S)
          /\ \A j \in 1 .. k : SubSeq(seen, 1, k)[j] = seen[j]
        BY <1>1
    <2> QED  BY <1>1, <2>1
<1>5. ASSUME NEW i \in 1 .. k PROVE does(i) = did(i)
    <2>1. i \in 1 .. k + 1
        BY <1>1
    <2>2. SubSeq(next, 1, i - 1) = SubSeq(seen, 1, i - 1)
        BY <1>3, <2>1
    <2> HIDE DEF next, k
    <2> QED  BY <2>2
<1>6. does(k + 1) = do
    <2>1. k + 1 \in 1 .. k + 1 /\ (k + 1) - 1 = k
        BY <1>1
    <2> QED  BY <1>3, <1>4, <2>1
<1>7. (\A i \in DOMAIN seen : Seen(did(i), seen[i])) /\ ds = UNION {of(did(i)) : i \in DOMAIN seen}
    BY DEF Sees
<1>8. Seen(do, v) /\ of(do) = es
    OBVIOUS
<1> HIDE DEF does, did, of, Seen, next, k
<1>9. ASSUME NEW i \in DOMAIN next
      PROVE  i = k + 1 \/ i \in 1 .. k
    BY <1>1
<1>10. \A i \in DOMAIN next : Seen(does(i), next[i])
    BY <1>1, <1>5, <1>6, <1>7, <1>8, <1>9
<1>11. ds \union es = UNION {of(does(i)) : i \in DOMAIN next}
    <2>1. k + 1 \in DOMAIN next /\ \A i \in 1 .. k : i \in DOMAIN next
        BY <1>1
    <2> QED  BY <1>1, <1>5, <1>6, <1>7, <1>8, <1>9, <2>1
<1> QED  BY <1>10, <1>11 DEF Sees, does, of, Seen, next

\* No getter goes on, none is done: some start, some are given up.
LEMMA FreshStays ==
    ASSUME NEW m, NEW n, NEW st, NEW t, FreshIn(m, st),
           n.cells = m.cells, n.cellDeps = m.cellDeps, n.value = m.value, n.deps = m.deps,
           n.clean \subseteq m.clean, m.clean \intersect Computed \subseteq n.clean,
           \A i \in DOMAIN t : t[i].at = "get" =>
               (t[i].seen = <<>> /\ t[i].new = {}) \/ \E j \in DOMAIN st : st[j] = t[i]
    PROVE  FreshIn(n, t)
<1>1. ASSUME NEW w, NEW seen, NEW ds, Sees(m, w, seen, ds)
      PROVE  Sees(n, w, seen, ds)
    BY <1>1, SeesStays
<1>2. ASSUME NEW i \in DOMAIN t, t[i].at = "get"
      PROVE  t[i].seen \in Seq(Range(t[i].seen)) /\ Sees(n, t[i].w, t[i].seen, t[i].new)
    <2>1. ASSUME NEW j \in DOMAIN st, st[j] = t[i]
          PROVE  t[i].seen \in Seq(Range(t[i].seen)) /\ Sees(n, t[i].w, t[i].seen, t[i].new)
        BY <1>1, <1>2, <2>1 DEF FreshIn
    <2>2. CASE t[i].seen = <<>> /\ t[i].new = {}
        <3> DEFINE none == <<>>
        <3>1. none \in Seq(Range(none)) /\ DOMAIN none = {}
            OBVIOUS
        <3> HIDE DEF none
        <3>2. Sees(n, t[i].w, none, {})
            BY <3>1 DEF Sees
        <3> QED  BY <2>2, <3>1, <3>2 DEF none
    <2> QED  BY <1>2, <2>1, <2>2
<1>3. ASSUME NEW w \in n.clean
      PROVE  Sees(n, w, n.value[w], n.deps[w]) /\ Read(w, n.value[w]).op = "done"
    BY <1>1 DEF FreshIn
<1> QED  BY <1>2, <1>3 DEF FreshIn

\* A write that changes d reaches all that read d.
LEMMA FreshAfterWrite ==
    ASSUME NEW m, NEW n, NEW st, NEW t, FreshIn(m, st), NoGetter(t), NEW d,
           n.value = m.value, n.deps = m.deps, n.clean \subseteq m.clean,
           \A w \in n.clean : d \notin m.deps[w],
           \A c \in Cell : d \notin m.cellDeps[c] =>
               n.cells[c] = m.cells[c] /\ n.cellDeps[c] = m.cellDeps[c],
           \A c \in m.clean \intersect Computed : d \notin m.deps[c] => c \in n.clean
    PROVE  FreshIn(n, t)
<1>1. ASSUME NEW w \in n.clean
      PROVE  Sees(n, w, n.value[w], n.deps[w]) /\ Read(w, n.value[w]).op = "done"
    <2> DEFINE seen == m.value[w]
               ds == m.deps[w]
    <2>1. Sees(m, w, seen, ds) /\ Read(w, seen).op = "done" /\ d \notin ds
        BY DEF FreshIn
    <2> HIDE DEF seen, ds
    <2>2. Sees(n, w, seen, ds)
        BY <2>1, SeesStays
    <2> QED  BY <2>1, <2>2 DEF seen, ds
<1> QED  BY <1>1 DEF FreshIn, NoGetter

\* The innermost getter reads what the memory holds.
LEMMA FreshAfterRead ==
    ASSUME NEW m, NEW st, FreshIn(m, st), st \in Seq(Range(st)), st # <<>>, st[1].at = "get",
           NEW do, do = Read(st[1].w, st[1].seen), NEW v, NEW es,
           \/ do.op = "cell" /\ do.id \in Cell /\ v = m.cells[do.id] /\ es = m.cellDeps[do.id]
           \/ /\ do.op = "computed" /\ do.id \in m.clean \intersect Computed
              /\ v = m.value[do.id] /\ es = m.deps[do.id],
           NEW g, GetsSame(st[1], g), g.seen = Append(st[1].seen, v), g.new = st[1].new \union es,
           NEW t, Replaced(st, g, t)
    PROVE  FreshIn(m, t)
<1>1. /\ Len(st) \in Nat /\ Len(st) # 0 /\ DOMAIN st = 1 .. Len(st) /\ DOMAIN t = DOMAIN st
      /\ t[1] = g /\ 1 \in DOMAIN st /\ g.w = st[1].w
    BY DEF Replaced, GetsSame
<1>2. \A i \in DOMAIN st : i = 1 \/ t[i] = st[i]
    BY <1>1 DEF Replaced
<1> DEFINE seen == st[1].seen
           ds == st[1].new
           w == st[1].w
<1>3. seen \in Seq(Range(seen)) /\ Sees(m, w, seen, ds)
    BY <1>1 DEF FreshIn
<1> HIDE DEF seen, ds, w
<1>4. Sees(m, w, Append(seen, v), ds \union es)
    BY <1>3, SeesMore DEF seen, w
<1>5. Append(seen, v) \in Seq(Range(Append(seen, v)))
    <2> DEFINE T == Range(seen) \union {v}
               r == Append(seen, v)
    <2>1. seen \in [1 .. Len(seen) -> Range(seen)] /\ Len(seen) \in Nat
        BY <1>3
    <2>2. seen \in Seq(T) /\ v \in T
        BY <2>1
    <2> HIDE DEF T
    <2>3. r \in Seq(T)
        BY <2>2
    <2> HIDE DEF r
    <2> QED  BY <2>3, IsSequence DEF r
<1>6. ASSUME NEW i \in DOMAIN t, t[i].at = "get"
      PROVE  t[i].seen \in Seq(Range(t[i].seen)) /\ Sees(m, t[i].w, t[i].seen, t[i].new)
    <2>1. CASE i = 1
        BY <1>1, <1>4, <1>5, <2>1 DEF seen, ds, w
    <2>2. CASE i # 1
        BY <1>1, <1>2, <1>6, <2>2 DEF FreshIn
    <2> QED  BY <2>1, <2>2
<1> QED  BY <1>6 DEF FreshIn

\* The getter that was innermost is done, or threw: then its watcher is not clean.
LEMMA FreshAfterGet ==
    ASSUME NEW m, NEW n, NEW st, NEW t, FreshIn(m, st), 1 \in DOMAIN st, st[1].at = "get",
           NEW w, w = st[1].w, w \notin m.clean,
           m.clean \subseteq n.clean, n.clean \subseteq m.clean \union {w},
           n.cells = m.cells, n.cellDeps = m.cellDeps,
           \A u \in m.clean : n.value[u] = m.value[u] /\ n.deps[u] = m.deps[u],
           w \in n.clean =>
               n.value[w] = st[1].seen /\ n.deps[w] = st[1].new /\ Read(w, st[1].seen).op = "done",
           \A i \in DOMAIN t : t[i].at = "get" =>
               \E j \in DOMAIN st : /\ st[j].at = "get" /\ t[i].w = st[j].w
                                    /\ t[i].seen = st[j].seen /\ t[i].new = st[j].new
    PROVE  FreshIn(n, t)
<1>1. ASSUME NEW u, NEW seen, NEW ds, Sees(m, u, seen, ds)
      PROVE  Sees(n, u, seen, ds)
    BY <1>1, SeesStays
<1>2. ASSUME NEW i \in DOMAIN t, t[i].at = "get"
      PROVE  t[i].seen \in Seq(Range(t[i].seen)) /\ Sees(n, t[i].w, t[i].seen, t[i].new)
    <2>1. PICK j \in DOMAIN st : /\ st[j].at = "get" /\ t[i].w = st[j].w
                                 /\ t[i].seen = st[j].seen /\ t[i].new = st[j].new
        BY <1>2
    <2>2. st[j].seen \in Seq(Range(st[j].seen)) /\ Sees(m, st[j].w, st[j].seen, st[j].new)
        BY <2>1 DEF FreshIn
    <2> QED  BY <1>1, <2>1, <2>2
<1>3. ASSUME NEW u \in n.clean
      PROVE  Sees(n, u, n.value[u], n.deps[u]) /\ Read(u, n.value[u]).op = "done"
    <2>1. CASE u \in m.clean
        BY <1>1, <2>1 DEF FreshIn
    <2>2. CASE u = w
        <3>1. Sees(m, w, st[1].seen, st[1].new)
            BY DEF FreshIn
        <3> QED  BY <1>1, <1>3, <2>2, <3>1
    <2> QED  BY <2>1, <2>2
<1> QED  BY <1>2, <1>3 DEF FreshIn

\* What is left of the calls is as it was.
LEMMA LeavesRest ==
    ASSUME NEW st, Stacked(st), st # <<>>, st[1].at = "get", NEW t, Leaves(st, t)
    PROVE  /\ \A i \in DOMAIN t : t[i].at = "get" =>
                  /\ i + 1 \in DOMAIN st /\ st[i + 1].at = "get" /\ t[i].w = st[i + 1].w
                  /\ t[i].seen = st[i + 1].seen /\ t[i].new = st[i + 1].new
                  /\ t[i].then = st[i + 1].then
           /\ \A i \in DOMAIN st : i # 1 /\ st[i].at = "get" =>
                  \E j \in DOMAIN t : t[j].at = "get" /\ t[j].w = st[i].w
<1>1. /\ st \in Seq(Range(st)) /\ Len(st) \in Nat /\ Len(st) # 0 /\ DOMAIN st = 1 .. Len(st)
      /\ 1 \in DOMAIN st /\ FrameFits(st, 1)
    BY DEF Stacked
<1>2. \A i \in DOMAIN st : i # 1 => i - 1 \in 1 .. Len(st) - 1 /\ (i - 1) + 1 = i
    BY <1>1
<1>3. \A i \in 1 .. Len(st) - 1 : i + 1 \in DOMAIN st
    BY <1>1
<1>4. CASE Popped(st, t)
    <2>1. DOMAIN t = 1 .. Len(st) - 1 /\ \A i \in DOMAIN t : t[i] = st[i + 1]
        BY <1>1, <1>4 DEF Popped
    <2> QED  BY <1>2, <1>3, <2>1
<1>5. ASSUME NEW u, Popped(st, u), u # <<>>, u[1].at = "get", Replaced(u, [u[1] EXCEPT !.thrown = TRUE], t)
      PROVE  /\ DOMAIN t = 1 .. Len(st) - 1
             /\ \A i \in DOMAIN t : /\ t[i].at = st[i + 1].at /\ t[i].w = st[i + 1].w
                                    /\ t[i].seen = st[i + 1].seen /\ t[i].new = st[i + 1].new
                                    /\ t[i].then = st[i + 1].then
    <2> DEFINE g == [u[1] EXCEPT !.thrown = TRUE]
    <2>1. /\ Len(u) \in Nat /\ DOMAIN u = 1 .. Len(u) /\ Len(u) = Len(st) - 1
          /\ \A i \in DOMAIN u : u[i] = st[i + 1]
        BY <1>1, <1>5 DEF Popped
    <2>2. 1 \in DOMAIN u
        BY <1>5, <2>1
    <2>3. u[1] = st[1 + 1] /\ 1 + 1 \in DOMAIN st
        BY <1>3, <2>1, <2>2
    <2>4. FrameFits(st, 1 + 1)
        BY <2>3 DEF Stacked
    <2>5. g.at = u[1].at /\ g.w = u[1].w /\ g.new = u[1].new /\ g.seen = u[1].seen /\ g.then = u[1].then
        BY <1>5, <2>3, <2>4 DEF FrameFits
    <2> HIDE DEF g
    <2>6. DOMAIN t = DOMAIN u /\ t[1] = g /\ \A i \in DOMAIN u : i = 1 \/ t[i] = u[i]
        <3>1. Replaced(u, g, t)
            BY <1>5 DEF g
        <3> QED  BY <2>1, <3>1 DEF Replaced
    <2> QED  BY <2>1, <2>5, <2>6
<1>6. ASSUME NEW list, st[1].then = "run", Replaced(st, [at |-> "writes", list |-> list], t)
      PROVE  NoGetter(t) /\ \A i \in DOMAIN st : i # 1 => st[i].at # "get"
    <2>1. Len(st) = 2 /\ st[2].at = "flush"
        <3>1. 1 + 1 = Len(st) /\ st[Len(st)].at = "flush"
            BY <1>1, <1>6 DEF FrameFits
        <3>2. Len(st) = 2
            BY <3>1
        <3> QED  BY <3>1, <3>2
    <2>2. t[1].at = "writes" /\ t[2] = st[2] /\ DOMAIN t = 1 .. 2
        BY <1>1, <1>6, <2>1 DEF Replaced
    <2>3. \A i \in 1 .. 2 : i = 1 \/ i = 2
        OBVIOUS
    <2> QED  BY <1>1, <2>1, <2>2, <2>3 DEF NoGetter
<1>7. ASSUME NEW u, Popped(st, u), u # <<>>, u[1].at = "get", Replaced(u, [u[1] EXCEPT !.thrown = TRUE], t)
      PROVE  /\ \A i \in DOMAIN t : t[i].at = "get" =>
                    /\ i + 1 \in DOMAIN st /\ st[i + 1].at = "get" /\ t[i].w = st[i + 1].w
                    /\ t[i].seen = st[i + 1].seen /\ t[i].new = st[i + 1].new
                    /\ t[i].then = st[i + 1].then
             /\ \A i \in DOMAIN st : i # 1 /\ st[i].at = "get" =>
                    \E j \in DOMAIN t : t[j].at = "get" /\ t[j].w = st[i].w
    <2>1. /\ DOMAIN t = 1 .. Len(st) - 1
          /\ \A i \in DOMAIN t : /\ t[i].at = st[i + 1].at /\ t[i].w = st[i + 1].w
                                 /\ t[i].seen = st[i + 1].seen /\ t[i].new = st[i + 1].new
                                 /\ t[i].then = st[i + 1].then
        BY <1>5, <1>7
    <2> QED  BY <1>2, <1>3, <2>1
<1>8. CASE st[1].then = "run" /\ \E list : Replaced(st, [at |-> "writes", list |-> list], t)
    BY <1>6, <1>8 DEF NoGetter
<1> QED  BY <1>4, <1>7, <1>8 DEF Leaves

\* All that are told and queued are in has afterwards.
LEMMA ToldAreQueued ==
    ASSUME NEW ws \in Seq(Watcher), QueueWatchers(ws)
    PROVE  has \subseteq has' /\ \A w \in Range(ws) : IsQueued(w) => w \in has'
<1> DEFINE s == [queue |-> queue, has |-> has]
           m == Len(ws)
           f == CHOOSE g : TurnsOf(g, s, ws, m)
           Told(k) == has \subseteq f[k].has /\ \A i \in 1 .. k : IsQueued(ws[i]) => ws[i] \in f[k].has
           S == {k \in 0 .. m : ~Told(k)}
<1>1. m \in Nat /\ DOMAIN ws = 1 .. m
    OBVIOUS
<1>2. TurnsOf(f, s, ws, m)
    <2>1. \E g : TurnsOf(g, s, ws, m)
        BY <1>1, TurnsExist
    <2> QED  BY <2>1
<1>3. has' = f[m].has
    BY DEF QueueWatchers, TurnsOf
<1> HIDE DEF f
<1>4. f[0].has = has /\ \A k \in 1 .. m : f[k] = Queued(f[k - 1], ws[k])
    <2>1. 0 \in 0 .. m /\ \A k \in 1 .. m : k \in 0 .. m /\ k # 0
        BY <1>1
    <2>2. f[0] = s /\ \A k \in 1 .. m : f[k] = Queued(f[k - 1], ws[k])
        BY <1>2, <2>1 DEF TurnsOf
    <2> QED  BY <2>2
<1> HIDE DEF m
<1>5. S = {}
    <2> SUFFICES ASSUME S # {} PROVE FALSE
        OBVIOUS
    <2>1. PICK k \in S : \A j \in S : k =< j
        <3>1. S \subseteq Nat
            BY <1>1
        <3> HIDE DEF S
        <3> QED  BY <3>1, HasLeast
    <2>2. k \in 0 .. m /\ ~Told(k)
        BY <2>1
    <2>3. k # 0
        <3>1. \A i : i \notin 1 .. 0
            OBVIOUS
        <3> QED  BY <1>4, <2>2, <3>1
    <2>4. k \in 1 .. m /\ k - 1 \in 0 .. m /\ k - 1 < k
        BY <1>1, <2>2, <2>3
    <2>5. Told(k - 1)
        <3>1. k - 1 \notin S
            BY <1>1, <2>1, <2>4
        <3> QED  BY <2>4, <3>1
    <2>6. \A i \in 1 .. k : i = k \/ i \in 1 .. k - 1
        BY <1>1, <2>4
    <2>7. f[k - 1].has \subseteq f[k].has /\ (IsQueued(ws[k]) => ws[k] \in f[k].has)
        <3>1. ASSUME NEW before, NEW w
              PROVE  /\ before.has \subseteq Queued(before, w).has
                     /\ IsQueued(w) => w \in Queued(before, w).has
            BY DEF Queued
        <3>2. f[k] = Queued(f[k - 1], ws[k])
            BY <1>4, <2>4
        <3> QED  BY <3>1, <3>2
    <2> QED  BY <2>2, <2>5, <2>6, <2>7
<1>6. Told(m)
    BY <1>1, <1>5
<1> QED  BY <1>1, <1>3, <1>6 DEF Range

-----------------------------------------------------------------------------

\* What a computed property reads is created before any watcher that is evaluated at
\* once: initComputed comes before initWatch and the first render.
CreatedInTime ==
    \A w, v \in Watcher : \A seen :
        LET do == Read(w, seen)
        IN  do.op = "computed" /\ do.id \in Watcher /\ IsQueued(v) /\ w <= v => do.id < v

\* No task tears down a computed property: it goes with its component, whose watchers
\* are all that read it.
KeepsComputed == \A d : \A x \in Change(d) : x.op = "teardown" => IsQueued(x.id)

\* A getter runs for a watcher that is evaluated at once.
RunsInTime(st) == \A w \in Evaluating(st) : \E v \in Watcher : IsQueued(v) /\ w <= v /\ v <= born

ComputedKept ==
    \A c \in Computed : (c <= born => c \in active) /\ c \notin dropped /\ (c \in didThrow => c \in dirty)

FreshInv(rank) ==
    /\ SubscriptionInv(rank)
    /\ DOMAIN data = Cell /\ DOMAIN contents = Obj /\ DOMAIN value = Watcher
    /\ FreshIn(Memory, stack)
    /\ \A w \in Evaluating(stack) : ~IsQueued(w) => w \in dirty
    /\ RunsInTime(stack)
    /\ ComputedKept

\* What a step keeps of that.
Refreshes ==
    /\ DOMAIN data' = Cell /\ DOMAIN contents' = Obj /\ DOMAIN value' = Watcher
    /\ FreshIn(Memory', stack')
    /\ \A w \in Evaluating(stack') : ~IsQueued(w) => w \in dirty'
    /\ RunsInTime(stack)'
    /\ ComputedKept'

LEMMA NoneEvaluating ==
    ASSUME NEW st, NoGetter(st)
    PROVE  Evaluating(st) = {}
BY DEF NoGetter, Evaluating

LEMMA HasIsQueued ==
    ASSUME Scheduled, NEW w \in has
    PROVE  IsQueued(w)
BY DEF Scheduled, Awaits

\* No getter runs before or after, and nothing changes what one would read.
LEMMA QuietRefreshes ==
    ASSUME NEW rank, FreshInv(rank), NoGetter(stack), NoGetter(stack'),
           UNCHANGED <<heapVars, deps, value>>,
           Clean' \subseteq Clean, Clean \intersect Computed \subseteq Clean',
           ComputedKept'
    PROVE  Refreshes
<1>1. Evaluating(stack') = {}
    <2>1. \A t : t = stack' => Evaluating(t) = {}
        BY NoneEvaluating
    <2> QED  BY <2>1
<1>2. RunsInTime(stack)'
    BY <1>1 DEF RunsInTime
<1>3. /\ Memory'.cells = Memory.cells /\ Memory'.cellDeps = Memory.cellDeps
      /\ Memory'.value = Memory.value /\ Memory'.deps = Memory.deps
      /\ Memory'.clean = Clean' /\ Memory.clean = Clean
    BY DEF Memory, CellValue, CellDeps, heapVars
<1>4. FreshIn(Memory', stack')
    <2>1. \A n, t : n = Memory' /\ t = stack' => FreshIn(n, t)
        <3> TAKE n, t
        <3> HAVE n = Memory' /\ t = stack'
        <3>1. FreshIn(Memory, stack) /\ NoGetter(t)
            BY DEF FreshInv
        <3> QED  BY <1>3, <3>1, FreshStays DEF NoGetter
    <2> QED  BY <2>1
<1> QED  BY <1>1, <1>2, <1>4 DEF FreshInv, Refreshes, heapVars

LEMMA FlushRefreshes ==
    ASSUME NEW rank, FreshInv(rank),
           FlushStarts \/ FlushBefore \/ FlushAfter \/ FlushEnds \/ UpdatedHooks
    PROVE  Refreshes
<1>1. SchedulerInv /\ Stacked(stack) /\ Scheduled /\ ComputedKept
    BY DEF FreshInv, SubscriptionInv, SchedulerInv
<1>2. UNCHANGED <<heapVars, deps, value, born, didThrow, active, dirty>>
    BY DEF FlushStarts, FlushBefore, FlushAfter, FlushEnds, UpdatedHooks, ResetScheduler, watcherVars
<1>3. NoGetter(stack) /\ NoGetter(stack')
    BY <1>1, FlushRunsNone
<1>4. has' \union dropped' = has \union dropped /\ dropped' \subseteq dropped \union has
    <2>1. CASE FlushEnds
        <3>1. index > Len(queue) /\ has' = {} /\ dropped' = dropped /\ Flushes("before")
            BY <2>1 DEF FlushEnds, ResetScheduler
        <3>2. /\ Awaits(queue, has, From("before"), index)
              /\ index \in Nat /\ Len(queue) \in Nat /\ DOMAIN queue = 1 .. Len(queue)
            BY <1>1, <3>1, FlushIs
        <3>3. From("before") = index
            BY DEF From
        <3>4. \A i \in DOMAIN queue : ~(index <= i)
            BY <3>1, <3>2
        <3>5. has = {}
            BY <3>2, <3>3, <3>4 DEF Awaits
        <3> QED  BY <3>1, <3>5
    <2>2. CASE FlushAfter
        BY <2>2 DEF FlushAfter, ResetScheduler, queueVars
    <2>3. CASE FlushStarts \/ FlushBefore \/ UpdatedHooks
        BY <2>3 DEF FlushStarts, FlushBefore, UpdatedHooks, queueVars, flushVars
    <2> QED  BY <2>1, <2>2, <2>3
<1>5. Clean' = Clean
    <2>1. \A t : t = stack' => Evaluating(t) = {}
        BY <1>3, NoneEvaluating
    <2>2. Evaluating(stack) = {}
        BY <1>3, NoneEvaluating
    <2> QED  BY <1>2, <1>4, <2>1, <2>2 DEF Clean
<1>6. ComputedKept'
    <2>1. \A c \in Computed : c \notin has
        BY <1>1, HasIsQueued DEF Computed, IsQueued
    <2> QED  BY <1>1, <1>2, <1>4, <2>1 DEF ComputedKept
<1> QED  BY <1>2, <1>3, <1>5, <1>6, QuietRefreshes

\* Of a change, all that read what changed are told: a dep is notified that is among those
\* of every read that would now be different.
LEMMA WriteChanges ==
    ASSUME DOMAIN data = Cell, DOMAIN contents = Obj, NEW x, Write(x)
    PROVE  /\ DOMAIN data' = Cell /\ DOMAIN contents' = Obj
           /\ \/ UNCHANGED <<heapVars, dirty, queueVars>>
              \/ \E d \in Dep : /\ Notify(d)
                                /\ \A c \in Cell : d \notin CellDeps(c) =>
                                       CellValue(c)' = CellValue(c) /\ CellDeps(c)' = CellDeps(c)
<1>1. CASE SetCell(x)
    <2>1. x.id \in Dep
        BY <1>1 DEF SetCell, Dep
    <2>2. CASE data' = [data EXCEPT ![x.id] = x.to] /\ Notify(x.id) /\ UNCHANGED contents
        <3>1. \A c \in Cell : c # x.id => data'[c] = data[c]
            BY <2>2
        <3>2. \A c \in Cell : x.id \notin CellDeps(c) => c # x.id
            BY DEF CellDeps
        <3>3. \A c \in Cell : x.id \notin CellDeps(c) =>
                  CellValue(c)' = CellValue(c) /\ CellDeps(c)' = CellDeps(c)
            BY <2>2, <3>1, <3>2 DEF CellValue, CellDeps
        <3> QED  BY <2>1, <2>2, <3>3
    <2>3. CASE UNCHANGED <<heapVars, dirty, queueVars>>
        BY <2>3 DEF heapVars
    <2> QED  BY <1>1, <2>2, <2>3 DEF SetCell
<1>2. CASE ChangeObject(x)
    <2>1. /\ x.id \in Dep /\ Notify(x.id) /\ UNCHANGED data
          /\ contents' = [contents EXCEPT ![x.id] = contents[x.id] + 1]
        BY <1>2 DEF ChangeObject, Dep
    <2>2. DOMAIN contents' = Obj /\ \A o \in Obj : o # x.id => contents'[o] = contents[o]
        BY <2>1
    <2>3. \A c \in Cell : x.id \notin CellDeps(c) => (data[c] \in Obj => data[c] # x.id)
        BY DEF CellDeps
    <2>4. \A c \in Cell : x.id \notin CellDeps(c) =>
              CellValue(c)' = CellValue(c) /\ CellDeps(c)' = CellDeps(c)
        BY <2>1, <2>2, <2>3 DEF CellValue, CellDeps
    <2> QED  BY <2>1, <2>2, <2>4
<1> QED  BY <1>1, <1>2 DEF Write

\* A callback, a hook or a task writes.
LEMMA WriteRefreshes ==
    ASSUME NEW rank, FreshInv(rank), NoGetter(stack), NoGetter(stack'), SchedulerInv',
           NEW x, Write(x), UNCHANGED <<subs, watcherVars, dropped>>
    PROVE  Refreshes
<1>1. /\ SubscribedBy(subs, deps, active, stack) /\ Scheduled /\ Scheduled' /\ ComputedKept
      /\ subs \in [Dep -> Seq(Watcher)] /\ DOMAIN data = Cell /\ DOMAIN contents = Obj
      /\ UNCHANGED <<deps, value, active, born, didThrow, dropped>>
    BY SubscribedIs DEF FreshInv, SubscriptionInv, SchedulerInv, watcherVars
<1>2. Evaluating(stack') = {} /\ Evaluating(stack) = {}
    <2>1. \A t : t = stack' => Evaluating(t) = {}
        BY NoneEvaluating
    <2> QED  BY <2>1, NoneEvaluating
<1>3. CASE UNCHANGED <<heapVars, dirty, queueVars>>
    <2>1. Clean' = Clean /\ ComputedKept'
        BY <1>1, <1>2, <1>3 DEF Clean, ComputedKept, queueVars
    <2> QED  BY <1>1, <1>3, <2>1, QuietRefreshes
<1>4. ASSUME NEW d \in Dep, Notify(d),
             \A c \in Cell : d \notin CellDeps(c) => CellValue(c)' = CellValue(c) /\ CellDeps(c)' = CellDeps(c)
      PROVE  FreshIn(Memory', stack') /\ ComputedKept'
    <2>1. /\ dirty' = dirty \union {w \in Range(subs[d]) : ~IsQueued(w)}
          /\ has \subseteq has' /\ \A w \in Range(subs[d]) : IsQueued(w) => w \in has'
        BY <1>1, <1>4, ToldAreQueued DEF Notify
    <2>2. ComputedKept'
        BY <1>1, <2>1 DEF ComputedKept
    <2>3. \A c \in Computed : c \notin has'
        <3>1. \A w \in has' : IsQueued(w)
            BY <1>1 DEF Scheduled, Awaits
        <3> QED  BY <3>1 DEF Computed, IsQueued
    <2>4. Clean' \subseteq Clean
        BY <1>1, <1>2, <2>1 DEF Clean
    <2>5. \A w \in Clean' : d \notin deps[w]
        BY <1>1, <1>2, <2>1 DEF Clean, SubscribedBy
    <2>6. \A c \in Clean \intersect Computed : d \notin deps[c] => c \in Clean'
        <3>1. \A w \in Range(subs[d]) : d \in deps[w]
            BY <1>1 DEF SubscribedBy, Collects, NoGetter
        <3> QED  BY <1>1, <1>2, <2>1, <2>3, <3>1 DEF Clean
    <2>7. /\ Memory'.value = Memory.value /\ Memory'.deps = Memory.deps
          /\ Memory'.clean = Clean' /\ Memory.clean = Clean /\ Memory.deps = deps
          /\ \A c \in Cell : d \notin Memory.cellDeps[c] =>
                 Memory'.cells[c] = Memory.cells[c] /\ Memory'.cellDeps[c] = Memory.cellDeps[c]
        BY <1>1, <1>4 DEF Memory
    <2>8. \A n, t : n = Memory' /\ t = stack' => FreshIn(n, t)
        <3> TAKE n, t
        <3> HAVE n = Memory' /\ t = stack'
        <3>1. FreshIn(Memory, stack) /\ NoGetter(t)
            BY DEF FreshInv
        <3> QED  BY <2>4, <2>5, <2>6, <2>7, <3>1, FreshAfterWrite
    <2> QED  BY <2>2, <2>8
<1>5. ASSUME FreshIn(Memory', stack'), ComputedKept'
      PROVE  Refreshes
    <2>1. RunsInTime(stack)'
        BY <1>2 DEF RunsInTime
    <2>2. DOMAIN data' = Cell /\ DOMAIN contents' = Obj
        BY <1>1, WriteChanges
    <2> QED  BY <1>1, <1>2, <1>5, <2>1, <2>2 DEF Refreshes, FreshInv
<1> QED  BY <1>1, <1>3, <1>4, <1>5, WriteChanges

LEMMA WritesRefresh ==
    ASSUME NEW rank, FreshInv(rank), SchedulerInv', Writes
    PROVE  Refreshes
<1>1. NoGetter(stack) /\ NoGetter(stack') /\ UNCHANGED <<subs, watcherVars, dropped>>
    BY WritesRunNone DEF FreshInv, SubscriptionInv, SchedulerInv, Writes, flushVars
<1>2. CASE Write(Head(Top.list))
    BY <1>1, <1>2, WriteRefreshes
<1>3. CASE UNCHANGED <<heapVars, dirty, queueVars>>
    <2>1. Evaluating(stack) = {} /\ \A t : t = stack' => Evaluating(t) = {}
        BY <1>1, NoneEvaluating
    <2>2. Clean' = Clean /\ ComputedKept'
        BY <1>1, <1>3, <2>1 DEF Clean, FreshInv, ComputedKept, watcherVars, queueVars
    <2> QED  BY <1>1, <1>3, <2>2, QuietRefreshes DEF watcherVars
<1> QED  BY <1>2, <1>3 DEF Writes

LEMMA TaskRefreshes ==
    ASSUME KeepsComputed, NEW rank, FreshInv(rank), SchedulerInv', TaskDoes
    PROVE  Refreshes
<1>1. NoGetter(stack) /\ NoGetter(stack') /\ UNCHANGED <<stack, dropped>>
    BY DEF TaskDoes, NoGetter, flushVars
<1>2. PICK x \in Change(data) : \/ Write(x) /\ UNCHANGED <<subs, watcherVars>>
                                \/ x.op = "teardown" /\ Teardown(x.id)
    BY DEF TaskDoes
<1>3. CASE Write(x) /\ UNCHANGED <<subs, watcherVars>>
    BY <1>1, <1>3, WriteRefreshes
<1>4. CASE x.op = "teardown" /\ Teardown(x.id)
    <2>1. IsQueued(x.id)
        BY <1>4 DEF KeepsComputed
    <2>2. active' = active \ {x.id} /\ UNCHANGED <<heapVars, deps, value, born, didThrow, dirty, queueVars>>
        BY <1>4 DEF Teardown
    <2>3. \A c \in Computed : c # x.id
        BY <2>1 DEF Computed, IsQueued
    <2>4. Clean' \subseteq Clean /\ Clean \intersect Computed \subseteq Clean'
        BY <1>1, <2>2, <2>3 DEF Clean, queueVars
    <2>5. ComputedKept'
        BY <1>1, <2>2, <2>3 DEF FreshInv, ComputedKept
    <2> QED  BY <1>1, <2>2, <2>4, <2>5, QuietRefreshes
<1> QED  BY <1>2, <1>3, <1>4

\* A getter starts, of a watcher that is not clean.
LEMMA StartRefreshes ==
    ASSUME NEW rank, FreshInv(rank), NEW w, NEW then,
           \A i \in DOMAIN stack' : stack'[i].at = "get" =>
               stack'[i] = GetFrame(w, then) \/ \E j \in DOMAIN stack : stack[j] = stack'[i],
           UNCHANGED <<heapVars, deps, value>>,
           Clean' \subseteq Clean, Clean \intersect Computed \subseteq Clean', ComputedKept',
           dirty \subseteq dirty', ~IsQueued(w) => w \in dirty',
           \E v \in Watcher : IsQueued(v) /\ w <= v /\ v <= born',
           \A v \in Watcher : v <= born => v <= born'
    PROVE  Refreshes
<1>1. \A u \in Evaluating(stack') : u = w \/ u \in Evaluating(stack)
    <2>1. GetFrame(w, then).w = w
        BY DEF GetFrame
    <2> QED  BY <2>1 DEF Evaluating
<1>2. RunsInTime(stack)'
    BY <1>1 DEF RunsInTime, FreshInv
<1>3. /\ Memory'.cells = Memory.cells /\ Memory'.cellDeps = Memory.cellDeps
      /\ Memory'.value = Memory.value /\ Memory'.deps = Memory.deps
      /\ Memory'.clean = Clean' /\ Memory.clean = Clean
    BY DEF Memory, CellValue, CellDeps, heapVars
<1>4. FreshIn(Memory', stack')
    <2>1. \A n, t : n = Memory' /\ t = stack' => FreshIn(n, t)
        <3> TAKE n, t
        <3> HAVE n = Memory' /\ t = stack'
        <3> DEFINE f == GetFrame(w, then)
        <3>1. f.seen = <<>> /\ f.new = {}
            BY DEF GetFrame
        <3>2. \A i \in DOMAIN t : t[i].at = "get" => t[i] = f \/ \E j \in DOMAIN stack : stack[j] = t[i]
            OBVIOUS
        <3> HIDE DEF f
        <3>3. \A i \in DOMAIN t : t[i].at = "get" =>
                  (t[i].seen = <<>> /\ t[i].new = {}) \/ \E j \in DOMAIN stack : stack[j] = t[i]
            BY <3>1, <3>2
        <3>4. FreshIn(Memory, stack)
            BY DEF FreshInv
        <3> QED  BY <1>3, <3>3, <3>4, FreshStays
    <2> QED  BY <2>1
<1> QED  BY <1>1, <1>2, <1>4 DEF FreshInv, Refreshes, heapVars

LEMMA CreateRefreshes ==
    ASSUME NEW rank, FreshInv(rank), Create
    PROVE  Refreshes
<1> DEFINE n == born + 1
<1>1. /\ Born /\ ComputedKept /\ stack = <<>> /\ born < LastWatcher /\ born' = n
      /\ active' = active \union {n} /\ UNCHANGED <<heapVars, deps, value, didThrow, dropped, has>>
    BY DEF FreshInv, SubscriptionInv, Create, queueVars, flushVars
<1>2. n \in Watcher /\ born \in Nat /\ n \notin active /\ \A c \in Watcher : c <= n => c <= born \/ c = n
    BY <1>1, LastWatcherAssumption DEF Born, Watcher
<1>3. Evaluating(stack) = {} /\ NoGetter(stack)
    BY <1>1 DEF Evaluating, NoGetter
<1>4. dirty \subseteq dirty' /\ dirty' \subseteq dirty \union {n}
    BY DEF Create
<1> HIDE DEF n
<1>5. ComputedKept'
    BY <1>1, <1>2, <1>4 DEF ComputedKept, Computed
<1>6. CASE Kind[n] = "lazy"
    <2>1. UNCHANGED stack /\ n \in dirty'
        BY <1>6 DEF Create, n
    <2>2. NoGetter(stack') /\ Evaluating(stack') = {}
        BY <1>3, <2>1
    <2>3. Clean' = Clean
        BY <1>1, <1>2, <1>3, <1>4, <2>1, <2>2 DEF Clean
    <2> QED  BY <1>1, <1>3, <1>5, <2>2, <2>3, QuietRefreshes
<1>7. CASE Kind[n] # "lazy"
    <2> DEFINE f == GetFrame(n, "create")
    <2>1. stack' = <<f>> \o stack
        BY <1>7 DEF Create, Push, n
    <2>2. f.at = "get" /\ f.w = n
        BY DEF GetFrame
    <2> HIDE DEF f
    <2>3. DOMAIN stack' = 1 .. 1 /\ stack'[1] = f
        BY <1>1, <2>1
    <2>4. 1 \in DOMAIN stack' /\ \A i \in DOMAIN stack' : i = 1
        BY <2>3
    <2>5. Evaluating(stack') = {n}
        BY <2>2, <2>3, <2>4 DEF Evaluating
    <2>6. Clean' = Clean
        BY <1>1, <1>2, <1>3, <1>4, <2>5 DEF Clean
    <2>7. \A i \in DOMAIN stack' : stack'[i].at = "get" =>
              stack'[i] = GetFrame(n, "create") \/ \E j \in DOMAIN stack : stack[j] = stack'[i]
        BY <2>3, <2>4 DEF f
    <2>8. IsQueued(n) /\ n <= born' /\ n <= n /\ \A v \in Watcher : v <= born => v <= born'
        BY <1>1, <1>2, <1>7, LastWatcherAssumption DEF IsQueued, Watcher, n
    <2> QED  BY <1>1, <1>2, <1>4, <1>5, <2>6, <2>7, <2>8, StartRefreshes
<1> QED  BY <1>6, <1>7

LEMMA FlushRunRefreshes ==
    ASSUME NEW rank, FreshInv(rank), FlushRun
    PROVE  Refreshes
<1>1. /\ SchedulerInv /\ Born /\ ComputedKept /\ Flushes("run")
      /\ UNCHANGED <<heapVars, deps, value, didThrow, dirty, active, born>>
      /\ has' = has \ {Running} /\ dropped' = dropped \ {Running}
    BY DEF FreshInv, SubscriptionInv, FlushRun, watcherVars
<1>2. /\ Stacked(stack) /\ IsOuter(Top) /\ Top.at = "flush" /\ stack # <<>> /\ Tail(stack) = <<>>
      /\ Awaits(queue, has, From("run"), index) /\ index \in DOMAIN queue /\ index \in Nat
      /\ queue \in Seq(Watcher)
    BY <1>1, FlushIs
<1>3. Running \in Watcher /\ IsQueued(Running) /\ Running \in has
    <2>1. From("run") = index /\ index <= index
        BY <1>2 DEF From
    <2> QED  BY <1>2, <2>1 DEF Awaits, Running
<1>4. Evaluating(stack) = {} /\ NoGetter(stack)
    BY <1>2, OuterAlone, NoneEvaluating
<1>5. ComputedKept'
    BY <1>1 DEF ComputedKept
<1> DEFINE f == [Top EXCEPT !.phase = "after"]
           g == GetFrame(Running, "run")
<1>6. IsOuter(f)
    BY <1>2 DEF IsOuter
<1>7. stack' = (IF Running \in active THEN <<g>> ELSE <<>>) \o <<f>>
    BY DEF FlushRun
<1>8. g.at = "get" /\ g.w = Running
    BY DEF GetFrame
<1> HIDE DEF f, g
<1>9. CASE Running \notin active
    <2>1. stack' = <<f>>
        BY <1>7, <1>9
    <2>2. NoGetter(stack')
        BY <1>6, <2>1, OuterRunsNone
    <2>3. Evaluating(stack') = {}
        <3>1. \A t : t = stack' => Evaluating(t) = {}
            BY <2>2, NoneEvaluating
        <3> QED  BY <3>1
    <2>4. Clean' = Clean
        BY <1>1, <1>3, <1>4, <1>9, <2>3 DEF Clean
    <2> QED  BY <1>1, <1>4, <1>5, <2>2, <2>4, QuietRefreshes
<1>10. CASE Running \in active
    <2>1. DOMAIN stack' = 1 .. 2 /\ stack'[1] = g /\ stack'[2] = f
        <3> DEFINE t == <<g>> \o <<f>>
        <3>1. DOMAIN t = 1 .. 2 /\ t[1] = g /\ t[2] = f
            OBVIOUS
        <3>2. stack' = t
            BY <1>7, <1>10
        <3> HIDE DEF t
        <3> QED  BY <3>1, <3>2
    <2>2. 1 \in DOMAIN stack' /\ \A i \in DOMAIN stack' : i = 1 \/ i = 2
        BY <2>1
    <2>3. f.at # "get"
        BY <1>6 DEF IsOuter
    <2>4. Evaluating(stack') = {Running}
        BY <1>8, <2>1, <2>2, <2>3 DEF Evaluating
    <2>5. Clean' = Clean
        BY <1>1, <1>3, <1>4, <2>4 DEF Clean
    <2>6. \A i \in DOMAIN stack' : stack'[i].at = "get" =>
              stack'[i] = GetFrame(Running, "run") \/ \E j \in DOMAIN stack : stack[j] = stack'[i]
        BY <2>1, <2>2, <2>3 DEF g
    <2>7. Running <= Running /\ Running <= born
        <3>1. Running \in 1 .. born
            BY <1>1, <1>10 DEF Born
        <3>2. Running \in Int
            BY <1>3 DEF Watcher
        <3> QED  BY <3>1, <3>2
    <2> HIDE DEF Running
    <2> QED  BY <1>1, <1>3, <1>5, <2>5, <2>6, <2>7, StartRefreshes
<1> QED  BY <1>9, <1>10

\* A getter reads a property, or a computed property that is clean.
LEMMA SeenRefreshes ==
    ASSUME NEW rank, FreshInv(rank), stack # <<>>, Top.at = "get",
           NEW do, do = Read(Top.w, Top.seen), NEW v, NEW es,
           \/ do.op = "cell" /\ do.id \in Cell /\ v = CellValue(do.id) /\ es = CellDeps(do.id)
           \/ do.op = "computed" /\ do.id \in Clean \intersect Computed /\ v = value[do.id] /\ es = deps[do.id],
           See(v, es), UNCHANGED <<heapVars, watcherVars, dirty, has, dropped>>
    PROVE  Refreshes
<1>1. Stacked(stack)
    BY DEF FreshInv, SubscriptionInv, SchedulerInv
<1> DEFINE g == [Top EXCEPT !.seen = Append(@, v), !.new = @ \union es]
<1>2. /\ GetsSame(Top, g) /\ g.new = Top.new \union es /\ Replaced(stack, g, stack')
      /\ Top = stack[1] /\ FrameFits(stack, 1) /\ 1 \in DOMAIN stack
      /\ stack \in Seq(Range(stack)) /\ Len(stack) \in Nat \ {0} /\ DOMAIN stack = 1 .. Len(stack)
    BY <1>1, SeeIs, TopIs
<1>3. g.seen = Append(stack[1].seen, v)
    BY <1>2 DEF FrameFits
<1> HIDE DEF g
<1>4. Evaluating(stack') = Evaluating(stack)
    <2>1. DOMAIN stack' = DOMAIN stack
        BY <1>2 DEF Replaced
    <2>2. \A i \in DOMAIN stack : stack'[i].at = stack[i].at /\ (stack[i].at = "get" => stack'[i].w = stack[i].w)
        <3> TAKE i \in DOMAIN stack
        <3>1. CASE i = 1
            BY <1>2, <3>1 DEF Replaced, GetsSame
        <3>2. CASE i # 1
            BY <1>2, <3>2 DEF Replaced
        <3> QED  BY <3>1, <3>2
    <2> QED  BY <2>1, <2>2 DEF Evaluating
<1>5. UNCHANGED <<data, contents, deps, value, active, born, didThrow, dirty, has, dropped>>
    BY DEF heapVars, watcherVars
<1>6. Clean' = Clean
    BY <1>4, <1>5 DEF Clean
<1>7. Memory' = Memory
    BY <1>5, <1>6 DEF Memory, CellValue, CellDeps
<1>8. FreshIn(Memory, stack')
    <2>1. \A t : t = stack' => FreshIn(Memory, t)
        <3> TAKE t
        <3> HAVE t = stack'
        <3>1. /\ FreshIn(Memory, stack) /\ do = Read(stack[1].w, stack[1].seen)
              /\ stack[1].at = "get" /\ GetsSame(stack[1], g) /\ g.new = stack[1].new \union es
              /\ Replaced(stack, g, t)
            BY <1>2 DEF FreshInv
        <3> DEFINE m == Memory
        <3>2. \/ do.op = "cell" /\ do.id \in Cell /\ v = m.cells[do.id] /\ es = m.cellDeps[do.id]
              \/ /\ do.op = "computed" /\ do.id \in m.clean \intersect Computed
                 /\ v = m.value[do.id] /\ es = m.deps[do.id]
            BY DEF Memory
        <3> HIDE DEF m
        <3>3. FreshIn(m, stack)
            BY <3>1 DEF m
        <3>4. FreshIn(m, t)
            BY <1>2, <1>3, <3>1, <3>2, <3>3, FreshAfterRead
        <3> QED  BY <3>4 DEF m
    <2> QED  BY <2>1
<1>9. RunsInTime(stack)'
    BY <1>4, <1>5 DEF RunsInTime, FreshInv
<1> QED  BY <1>4, <1>5, <1>7, <1>8, <1>9 DEF Refreshes, FreshInv, ComputedKept

LEMMA ReadRefreshes ==
    ASSUME CreatedInTime, NEW rank, FreshInv(rank), stack # <<>>, Top.at = "get", ReadCell \/ ReadComputed
    PROVE  Refreshes
<1>1. /\ Stacked(stack) /\ Scheduled /\ Born /\ ComputedKept /\ RunsInTime(stack)
      /\ \A w \in Evaluating(stack) : ~IsQueued(w) => w \in dirty
    BY DEF FreshInv, SubscriptionInv, SchedulerInv
<1>2. /\ Top = stack[1] /\ 1 \in DOMAIN stack /\ FrameFits(stack, 1) /\ stack \in Seq(Range(stack))
      /\ Len(stack) \in Nat \ {0} /\ DOMAIN stack = 1 .. Len(stack)
    BY <1>1, TopIs
<1>3. UNCHANGED <<heapVars, watcherVars, dirty, has, dropped>>
    BY DEF ReadCell, ReadComputed, queueVars, flushVars
<1> DEFINE do == Read(Top.w, Top.seen)
<1>4. CASE ReadCell
    <2>1. do.op = "cell" /\ do.id \in Cell /\ See(CellValue(do.id), CellDeps(do.id))
        BY <1>4 DEF ReadCell
    <2> HIDE DEF do
    <2>2. do = Read(Top.w, Top.seen)
        BY DEF do
    <2> QED  BY <1>3, <2>1, <2>2, SeenRefreshes
<1>5. CASE ReadComputed
    <2> DEFINE c == do.id
    <2>1. do.op = "computed" /\ c \in Computed /\ c \in Watcher /\ ~IsQueued(c)
        BY <1>5 DEF ReadComputed, Computed, IsQueued
    <2>2. Top.w \in Evaluating(stack) /\ Top.w \in Watcher
        BY <1>2 DEF Evaluating, FrameFits
    <2>3. PICK v \in Watcher : IsQueued(v) /\ Top.w <= v /\ v <= born
        BY <1>1, <2>2 DEF RunsInTime
    <2>4. c < v
        BY <2>1, <2>2, <2>3 DEF CreatedInTime
    <2>5. c <= v /\ c <= born /\ c \in active
        <3>1. c \in Int /\ v \in Int /\ born \in Int
            BY <1>1, <2>1, LastWatcherAssumption DEF Watcher, Born
        <3> HIDE DEF c
        <3>2. c <= v /\ c <= born
            BY <2>3, <2>4, <3>1
        <3> QED  BY <1>1, <2>1, <3>2 DEF ComputedKept
    <2>6. CASE c \in dirty
        <3>1. stack' = <<GetFrame(c, "evaluate")>> \o stack
            BY <1>5, <2>6 DEF ReadComputed, Push
        <3> DEFINE f == GetFrame(c, "evaluate")
        <3>2. f.at = "get" /\ f.w = c
            BY DEF GetFrame
        <3> HIDE DEF f, c
        <3>3. Pushed(stack, f, stack')
            <4>1. stack' = <<f>> \o stack
                BY <3>1 DEF f
            <4> QED  BY <1>2, <4>1, PushIs
        <3>4. /\ DOMAIN stack' = 1 .. Len(stack) + 1 /\ stack'[1] = f
              /\ \A i \in 1 .. Len(stack) : stack'[i + 1] = stack[i]
            BY <3>3 DEF Pushed
        <3>5. ASSUME NEW i \in DOMAIN stack'
              PROVE  stack'[i] = f \/ \E j \in DOMAIN stack : stack[j] = stack'[i]
            <4>1. i = 1 \/ (i - 1 \in 1 .. Len(stack) /\ (i - 1) + 1 = i)
                BY <1>2, <3>4
            <4> QED  BY <1>2, <3>4, <4>1
        <3>6. \A i \in DOMAIN stack : \E j \in DOMAIN stack' : stack'[j] = stack[i]
            <4>1. \A i \in 1 .. Len(stack) : i + 1 \in 1 .. Len(stack) + 1
                BY <1>2
            <4> QED  BY <1>2, <3>4, <4>1
        <3>7. Evaluating(stack') = Evaluating(stack) \union {c}
            <4>1. 1 \in DOMAIN stack'
                BY <1>2, <3>4
            <4>2. \A u \in Evaluating(stack') : u \in Evaluating(stack) \union {c}
                BY <3>2, <3>5 DEF Evaluating
            <4>3. \A u \in Evaluating(stack) : u \in Evaluating(stack')
                BY <3>6 DEF Evaluating
            <4>4. c \in Evaluating(stack')
                BY <3>2, <3>4, <4>1 DEF Evaluating
            <4> QED  BY <4>2, <4>3, <4>4
        <3>8. Clean' = Clean /\ ComputedKept'
            BY <1>1, <1>3, <2>6, <3>7 DEF Clean, ComputedKept, watcherVars
        <3>9. \A i \in DOMAIN stack' : stack'[i].at = "get" =>
                  stack'[i] = GetFrame(c, "evaluate") \/ \E j \in DOMAIN stack : stack[j] = stack'[i]
            BY <3>5 DEF f
        <3>10. UNCHANGED <<heapVars, deps, value, dirty, born>>
            BY <1>3 DEF watcherVars
        <3> QED  BY <2>3, <2>5, <2>6, <3>8, <3>9, <3>10, StartRefreshes
    <2>7. CASE c \notin dirty
        <3>1. See(value[c], deps[c])
            BY <1>5, <2>7 DEF ReadComputed
        <3>2. c \in Clean
            <4>1. c \notin has
                BY <1>1, <2>1, HasIsQueued
            <4>2. c \notin Evaluating(stack)
                BY <1>1, <2>1, <2>7
            <4> QED  BY <1>1, <2>1, <2>5, <2>7, <4>1, <4>2 DEF Clean, ComputedKept
        <3>3. do.op = "computed" /\ do.id \in Clean \intersect Computed /\ See(value[do.id], deps[do.id])
            BY <2>1, <3>1, <3>2
        <3> HIDE DEF do, c
        <3>4. do = Read(Top.w, Top.seen)
            BY DEF do
        <3> QED  BY <1>3, <3>3, <3>4, SeenRefreshes
    <2> QED  BY <2>6, <2>7
<1> QED  BY <1>4, <1>5

\* The innermost getter is done or throws.
LEMMA GetEndsRefreshes ==
    ASSUME NEW rank, RanksReaders(rank), FreshInv(rank), stack # <<>>, Top.at = "get", GetDone \/ GetThrows
    PROVE  Refreshes
<1> DEFINE w == Top.w
<1>1. /\ Stacked(stack) /\ Evaluates(rank, stack) /\ Born /\ ComputedKept
      /\ \A u \in Evaluating(stack) : ~IsQueued(u) => u \in dirty
    BY DEF FreshInv, SubscriptionInv, SchedulerInv
<1>2. /\ Top = stack[1] /\ 1 \in DOMAIN stack /\ FrameFits(stack, 1) /\ stack \in Seq(Range(stack))
      /\ Len(stack) \in Nat \ {0} /\ DOMAIN stack = 1 .. Len(stack)
    BY <1>1, TopIs
<1>3. w \in Watcher /\ w \in Evaluating(stack)
    BY <1>2 DEF FrameFits, Evaluating
<1>4. ASSUME NEW i \in DOMAIN stack, i # 1, stack[i].at = "get"
      PROVE  stack[i].w # w
    <2>1. rank[w] < rank[stack[i].w]
        <3>1. 1 < i
            BY <1>2, <1>4
        <3> QED  BY <1>1, <1>2, <1>4, <3>1 DEF Evaluates
    <2>2. rank[w] \in Nat
        BY <1>3 DEF RanksReaders
    <2> HIDE DEF w
    <2> QED  BY <2>1, <2>2
<1>5. Leaves(stack, stack') /\ CleanupDeps /\ UNCHANGED <<active, born, has, dropped, heapVars>>
    BY <1>1, GetterLeaves DEF GetDone, GetThrows, queueVars, flushVars
<1>6. /\ \A i \in DOMAIN stack' : stack'[i].at = "get" =>
             /\ i + 1 \in DOMAIN stack /\ stack[i + 1].at = "get" /\ stack'[i].w = stack[i + 1].w
             /\ stack'[i].seen = stack[i + 1].seen /\ stack'[i].new = stack[i + 1].new
      /\ \A i \in DOMAIN stack : i # 1 /\ stack[i].at = "get" =>
             \E j \in DOMAIN stack' : stack'[j].at = "get" /\ stack'[j].w = stack[i].w
    <2>1. \A t : t = stack' =>
              /\ \A i \in DOMAIN t : t[i].at = "get" =>
                     /\ i + 1 \in DOMAIN stack /\ stack[i + 1].at = "get" /\ t[i].w = stack[i + 1].w
                     /\ t[i].seen = stack[i + 1].seen /\ t[i].new = stack[i + 1].new
              /\ \A i \in DOMAIN stack : i # 1 /\ stack[i].at = "get" =>
                     \E j \in DOMAIN t : t[j].at = "get" /\ t[j].w = stack[i].w
        <3> TAKE t
        <3> HAVE t = stack'
        <3>1. Leaves(stack, t) /\ stack[1].at = "get"
            BY <1>2, <1>5
        <3> QED  BY <1>1, <3>1, LeavesRest
    <2> QED  BY <2>1
<1>7. Evaluating(stack') = Evaluating(stack) \ {w}
    <2>1. ASSUME NEW i \in DOMAIN stack', stack'[i].at = "get"
          PROVE  stack'[i].w \in Evaluating(stack) \ {w}
        <3>1. i + 1 \in DOMAIN stack /\ i + 1 # 1 /\ stack[i + 1].at = "get" /\ stack'[i].w = stack[i + 1].w
            <4>1. i \in 1 .. Len(stack')
                <5>1. stack' \in Seq(Range(stack'))
                    <6>1. \A t : t = stack' => t \in Seq(Range(t))
                        BY <1>1, <1>2, <1>5, LeavesFits DEF Stacked
                    <6> QED  BY <6>1
                <5> QED  BY <5>1
            <4> QED  BY <1>6, <2>1, <4>1
        <3> QED  BY <1>4, <3>1 DEF Evaluating
    <2>2. ASSUME NEW i \in DOMAIN stack, stack[i].at = "get", stack[i].w # w
          PROVE  stack[i].w \in Evaluating(stack')
        <3>1. i # 1
            BY <1>2, <2>2
        <3> QED  BY <1>6, <2>2, <3>1 DEF Evaluating
    <2> HIDE DEF w
    <2> QED  BY <2>1, <2>2 DEF Evaluating
<1>8. /\ deps' = [deps EXCEPT ![w] = Top.new] /\ deps \in [Watcher -> SUBSET Dep]
      /\ DOMAIN value = Watcher /\ DOMAIN value' = Watcher
      /\ \A u \in Watcher : u # w => value'[u] = value[u] /\ deps'[u] = deps[u]
    <2>1. deps' = [deps EXCEPT ![w] = Top.new] /\ deps \in [Watcher -> SUBSET Dep] /\ DOMAIN value = Watcher
        BY <1>1, <1>5 DEF CleanupDeps, Born, FreshInv
    <2>2. value' = value \/ \E v : value' = [value EXCEPT ![w] = v]
        BY DEF GetDone, GetThrows, Returns
    <2> HIDE DEF w
    <2> QED  BY <2>1, <2>2
<1>9. /\ dirty \ {w} \subseteq dirty' /\ dirty' \subseteq dirty
      /\ didThrow \ {w} \subseteq didThrow' /\ didThrow' \subseteq didThrow \union {w}
    BY DEF GetDone, GetThrows
<1>10. w \notin didThrow' => value'[w] = Top.seen /\ deps'[w] = Top.new /\ Read(w, Top.seen).op = "done"
    <2>1. CASE GetDone
        BY <1>3, <1>8, <2>1 DEF GetDone, Returns
    <2>2. CASE GetThrows
        BY <2>2 DEF GetThrows
    <2> QED  BY <2>1, <2>2
<1>11. \A c \in didThrow' : ~IsQueued(c) /\ (c # w => c \in dirty) => c \in dirty'
    <2>1. CASE GetDone
        BY <1>9, <2>1 DEF GetDone
    <2>2. CASE GetThrows
        <3>1. dirty' = dirty
            BY <2>2 DEF GetThrows
        <3> QED  BY <1>1, <1>3, <3>1
    <2> QED  BY <2>1, <2>2
<1> HIDE DEF w
<1>12. /\ w \notin Clean /\ Clean \subseteq Clean' /\ Clean' \subseteq Clean \union {w}
       /\ w \notin didThrow' \/ w \notin Clean'
    BY <1>3, <1>5, <1>7, <1>9 DEF Clean
<1>13. ComputedKept'
    <2> SUFFICES ASSUME NEW c \in Computed, c \in didThrow' PROVE c \in dirty'
        BY <1>1, <1>5 DEF ComputedKept
    <2>1. ~IsQueued(c) /\ (c # w => c \in dirty)
        BY <1>1, <1>9 DEF ComputedKept, Computed, IsQueued
    <2> QED  BY <1>11, <2>1
<1>14. \A u \in Evaluating(stack') : ~IsQueued(u) => u \in dirty'
    BY <1>1, <1>7, <1>9
<1>15. RunsInTime(stack)'
    BY <1>5, <1>7 DEF RunsInTime, FreshInv
<1>16. /\ Memory'.cells = Memory.cells /\ Memory'.cellDeps = Memory.cellDeps
       /\ Memory'.value = value' /\ Memory'.deps = deps' /\ Memory.value = value /\ Memory.deps = deps
       /\ Memory'.clean = Clean' /\ Memory.clean = Clean
    BY <1>5 DEF Memory, CellValue, CellDeps, heapVars
<1>17. FreshIn(Memory', stack')
    <2>1. \A n, t : n = Memory' /\ t = stack' => FreshIn(n, t)
        <3> TAKE n, t
        <3> HAVE n = Memory' /\ t = stack'
        <3> DEFINE m == Memory
        <3>1. FreshIn(m, stack)
            BY DEF FreshInv
        <3>2. /\ w = stack[1].w /\ stack[1].at = "get" /\ w \notin m.clean
              /\ m.clean \subseteq n.clean /\ n.clean \subseteq m.clean \union {w}
              /\ n.cells = m.cells /\ n.cellDeps = m.cellDeps
            BY <1>2, <1>12, <1>16 DEF w
        <3>3. \A u \in m.clean : n.value[u] = m.value[u] /\ n.deps[u] = m.deps[u]
            <4>1. Clean \subseteq Watcher
                <5>1. 1 .. born \subseteq Watcher
                    BY <1>1, LastWatcherAssumption DEF Born, Watcher
                <5> QED  BY <1>1, <5>1 DEF Clean, Born
            <4> QED  BY <1>8, <1>12, <1>16, <4>1
        <3>4. w \in n.clean =>
                  n.value[w] = stack[1].seen /\ n.deps[w] = stack[1].new /\ Read(w, stack[1].seen).op = "done"
            BY <1>2, <1>10, <1>12, <1>16
        <3>5. \A i \in DOMAIN t : t[i].at = "get" =>
                  \E j \in DOMAIN stack : /\ stack[j].at = "get" /\ t[i].w = stack[j].w
                                          /\ t[i].seen = stack[j].seen /\ t[i].new = stack[j].new
            BY <1>6
        <3> HIDE DEF m
        <3> QED  BY <1>2, <3>1, <3>2, <3>3, <3>4, <3>5, FreshAfterGet
    <2> QED  BY <2>1
<1> QED  BY <1>5, <1>8, <1>13, <1>14, <1>15, <1>17 DEF Refreshes, FreshInv, heapVars

\* The patch of a component fails: what its render function read is forgotten.
LEMMA PatchThrowsRefreshes ==
    ASSUME NEW rank, RanksReaders(rank), FreshInv(rank), stack # <<>>, Top.at = "get", PatchThrows
    PROVE  Refreshes
<1> DEFINE w == Top.w
<1>1. /\ Stacked(stack) /\ Born /\ ComputedKept
    BY DEF FreshInv, SubscriptionInv, SchedulerInv
<1>2. /\ Top = stack[1] /\ 1 \in DOMAIN stack /\ FrameFits(stack, 1)
    BY <1>1, TopIs
<1>3. w \in Watcher /\ w \in Evaluating(stack) /\ IsQueued(w)
    BY <1>2 DEF FrameFits, Evaluating, PatchThrows, IsQueued
<1>4. /\ stack' = <<>> /\ CleanupDeps /\ didThrow' = didThrow \union {w}
      /\ UNCHANGED <<heapVars, value, dirty, active, born, has, dropped>>
    BY DEF PatchThrows, queueVars, flushVars
<1>5. Evaluating(stack) = {w}
    <2>1. \A i \in DOMAIN stack : i # 1 => stack[i].at # "get"
        BY <1>1, RenderAlone DEF PatchThrows
    <2> QED  BY <1>2, <2>1 DEF Evaluating
<1>6. NoGetter(stack') /\ Evaluating(stack') = {}
    <2>1. DOMAIN stack' = {}
        BY <1>4
    <2> QED  BY <2>1 DEF NoGetter, Evaluating
<1> HIDE DEF w
<1>7. w \notin Clean /\ Clean' = Clean
    BY <1>4, <1>5, <1>6 DEF Clean
<1>8. \A u \in Watcher : u # w => deps'[u] = deps[u]
    BY <1>1, <1>4 DEF CleanupDeps, Born, w
<1>9. Clean \subseteq Watcher
    <2>1. 1 .. born \subseteq Watcher
        BY <1>1, LastWatcherAssumption DEF Born, Watcher
    <2> QED  BY <1>1, <2>1 DEF Clean, Born
<1>10. /\ Memory'.cells = Memory.cells /\ Memory'.cellDeps = Memory.cellDeps
       /\ Memory'.value = value /\ Memory'.deps = deps' /\ Memory.value = value /\ Memory.deps = deps
       /\ Memory'.clean = Clean /\ Memory.clean = Clean
    BY <1>4, <1>7 DEF Memory, CellValue, CellDeps, heapVars
<1>11. FreshIn(Memory', stack')
    <2>1. \A n, t : n = Memory' /\ t = stack' => FreshIn(n, t)
        <3> TAKE n, t
        <3> HAVE n = Memory' /\ t = stack'
        <3> DEFINE m == Memory
        <3>1. FreshIn(m, stack)
            BY DEF FreshInv
        <3>2. /\ w = stack[1].w /\ stack[1].at = "get" /\ w \notin m.clean
              /\ m.clean = n.clean /\ n.cells = m.cells /\ n.cellDeps = m.cellDeps
              /\ \A u \in m.clean : n.value[u] = m.value[u] /\ n.deps[u] = m.deps[u]
            BY <1>2, <1>7, <1>8, <1>9, <1>10 DEF w
        <3>3. \A i \in DOMAIN t : t[i].at # "get"
            BY <1>6 DEF NoGetter
        <3> HIDE DEF m
        <3> QED  BY <1>2, <3>1, <3>2, <3>3, FreshAfterGet
    <2> QED  BY <2>1
<1>12. ComputedKept'
    <2>1. w \notin Computed
        BY <1>3 DEF Computed, IsQueued
    <2> QED  BY <1>1, <1>4, <2>1 DEF ComputedKept
<1> QED  BY <1>4, <1>6, <1>11, <1>12 DEF Refreshes, FreshInv, RunsInTime, heapVars

LEMMA FreshStep ==
    ASSUME CreatedInTime, KeepsComputed, NEW rank, RanksReaders(rank)
    PROVE  FreshInv(rank) /\ [ReactNext]_reactVars => FreshInv(rank)'
<1> SUFFICES ASSUME FreshInv(rank), [ReactNext]_reactVars
             PROVE  FreshInv(rank)'
    OBVIOUS
<1>1. SubscriptionInv(rank)' /\ SchedulerInv'
    BY SubscriptionStep DEF FreshInv, SubscriptionInv
<1>2. ASSUME Refreshes PROVE FreshInv(rank)'
    BY <1>1, <1>2 DEF Refreshes, FreshInv
<1>3. CASE Get
    <2>1. stack # <<>> /\ Top.at = "get"
        BY <1>3 DEF Get
    <2>2. CASE GetDone \/ GetThrows
        BY <1>2, <2>1, <2>2, GetEndsRefreshes
    <2>3. CASE ReadCell \/ ReadComputed
        BY <1>2, <2>1, <2>3, ReadRefreshes
    <2>4. CASE PatchThrows
        BY <1>2, <2>1, <2>4, PatchThrowsRefreshes
    <2> QED  BY <1>3, <2>2, <2>3, <2>4 DEF Get
<1>4. CASE ReactNext /\ ~Get
    BY <1>1, <1>2, <1>4, CreateRefreshes, WritesRefresh, FlushRefreshes, FlushRunRefreshes, TaskRefreshes
    DEF ReactNext, Goes
<1>5. CASE UNCHANGED reactVars
    <2>1. /\ UNCHANGED <<data, contents, deps, value, active, born, didThrow, dirty, has, dropped, stack>>
        BY <1>5 DEF reactVars, heapVars, watcherVars, queueVars, flushVars
    <2>2. Clean' = Clean /\ Memory' = Memory /\ RunsInTime(stack)' /\ ComputedKept'
        BY <2>1 DEF Clean, Memory, CellValue, CellDeps, RunsInTime, ComputedKept, FreshInv
    <2> QED  BY <1>1, <2>1, <2>2 DEF FreshInv
<1> QED  BY <1>3, <1>4, <1>5

-----------------------------------------------------------------------------
(* A flush that an error in a patch broke off. *)

\* A watcher that is created has not thrown before, the flush runs the watcher at its
\* position, and a flush with no call of its own was broken off by the one there.
FlushBroken ==
    /\ didThrow \subseteq 1 .. born
    /\ \A i \in DOMAIN stack : stack[i].at = "get" =>
           /\ stack[i].then = "create" => stack[i].w \notin didThrow
           /\ stack[i].then = "run" => stack[i].w = Running
    /\ flushing /\ PhaseOf(stack) = "none" => Kind[Running] = "render" /\ Running \in didThrow

\* No getter is left.
LEMMA QuietBreaks ==
    ASSUME FlushBroken, NoGetter(stack'), UNCHANGED <<didThrow, born>>, BreaksNothing
    PROVE  FlushBroken'
<1>1. \A i \in DOMAIN stack' : stack'[i].at # "get"
    BY DEF NoGetter
<1>2. flushing' /\ PhaseOf(stack') = "none" => Kind[Running'] = "render" /\ Running' \in didThrow'
    BY DEF BreaksNothing, FlushBroken
<1> QED  BY <1>1, <1>2 DEF FlushBroken, PhaseOf

LEMMA CreateBreaks ==
    ASSUME SchedulerInv, Born, FlushBroken, Create
    PROVE  FlushBroken'
<1> DEFINE n == born + 1
<1>1. /\ BreaksNothing /\ stack = <<>> /\ born' = n /\ UNCHANGED didThrow
    BY CreateFits DEF Create, Born
<1>2. born \in Nat /\ didThrow \subseteq 1 .. born
    BY LastWatcherAssumption DEF Born, FlushBroken
<1>3. n \notin didThrow /\ didThrow' \subseteq 1 .. born'
    BY <1>1, <1>2
<1>4. stack' = <<>> \/ stack' = <<GetFrame(n, "create")>>
    <2>1. <<GetFrame(n, "create")>> \o <<>> = <<GetFrame(n, "create")>>
        OBVIOUS
    <2> QED  BY <1>1, <2>1 DEF Create, Push
<1> DEFINE f == GetFrame(n, "create")
<1>5. f.at = "get" /\ f.w = n /\ f.then = "create"
    BY DEF GetFrame
<1> HIDE DEF f, n
<1>6. \A i \in DOMAIN stack' : stack'[i] = f
    <2>1. CASE stack' = <<>>
        BY <2>1
    <2>2. CASE stack' = <<f>>
        <3>1. DOMAIN stack' = 1 .. 1 /\ stack'[1] = f
            BY <2>2
        <3>2. \A i \in 1 .. 1 : i = 1
            OBVIOUS
        <3> QED  BY <3>1, <3>2
    <2> QED  BY <1>4, <2>1, <2>2 DEF f
<1>7. \A i \in DOMAIN stack' : stack'[i].then = "create" /\ stack'[i].w \notin didThrow'
    BY <1>1, <1>3, <1>5, <1>6
<1>8. flushing' /\ PhaseOf(stack') = "none" => Kind[Running'] = "render" /\ Running' \in didThrow'
    BY <1>1 DEF BreaksNothing, FlushBroken
<1> QED  BY <1>3, <1>7, <1>8 DEF FlushBroken, PhaseOf

LEMMA ReadBreaks ==
    ASSUME SchedulerInv, FlushBroken, stack # <<>>, Top.at = "get", ReadCell \/ ReadComputed
    PROVE  FlushBroken'
<1>1. /\ Stacked(stack) /\ Top = stack[1] /\ FrameFits(stack, 1) /\ 1 \in DOMAIN stack
      /\ stack \in Seq(Range(stack)) /\ DOMAIN stack = 1 .. Len(stack) /\ Len(stack) \in Nat
    BY TopIs DEF SchedulerInv
<1>2. BreaksNothing /\ UNCHANGED <<didThrow, born, queue, index>>
    BY <1>1, ReadFits, ReadIs DEF queueVars, watcherVars
<1>3. ASSUME NEW i \in DOMAIN stack', stack'[i].at = "get"
      PROVE  \/ stack'[i].then = "evaluate"
             \/ \E j \in DOMAIN stack : stack[j].at = "get" /\ stack[j].then = stack'[i].then /\ stack[j].w = stack'[i].w
    <2>1. ASSUME NEW v, NEW ds, See(v, ds)
          PROVE  \E j \in DOMAIN stack :
                     stack[j].at = "get" /\ stack[j].then = stack'[i].then /\ stack[j].w = stack'[i].w
        <3> DEFINE g == [Top EXCEPT !.seen = Append(@, v), !.new = @ \union ds]
        <3>1. GetsSame(Top, g) /\ Replaced(stack, g, stack')
            BY <1>1, <2>1, SeeIs
        <3> HIDE DEF g
        <3>2. DOMAIN stack' = DOMAIN stack /\ stack'[1] = g
            BY <1>1, <3>1 DEF Replaced
        <3>3. i = 1 \/ stack'[i] = stack[i]
            BY <1>1, <3>1, <3>2 DEF Replaced
        <3> QED  BY <1>1, <1>3, <3>1, <3>2, <3>3 DEF GetsSame
    <2>2. ASSUME NEW do, EvaluatesFirst(do)
          PROVE  stack'[i].then = "evaluate" \/ \E j \in DOMAIN stack : stack[j] = stack'[i]
        <3> DEFINE f == GetFrame(do.id, "evaluate")
        <3>1. f.then = "evaluate" /\ Pushed(stack, f, stack')
            BY <2>2 DEF GetFrame, EvaluatesFirst
        <3> HIDE DEF f
        <3>2. i = 1 \/ (i - 1 \in 1 .. Len(stack) /\ (i - 1) + 1 = i)
            BY <1>1, <3>1 DEF Pushed
        <3> QED  BY <1>1, <3>1, <3>2 DEF Pushed
    <2> QED  BY <1>1, <1>3, <2>1, <2>2, ReadIs
<1>4. flushing' /\ PhaseOf(stack') = "none" => Kind[Running'] = "render" /\ Running' \in didThrow'
    BY <1>2 DEF BreaksNothing, FlushBroken
<1>5. \A i \in DOMAIN stack' : stack'[i].at = "get" =>
          /\ stack'[i].then = "create" => stack'[i].w \notin didThrow'
          /\ stack'[i].then = "run" => stack'[i].w = Running'
    BY <1>2, <1>3 DEF FlushBroken, Running
<1> QED  BY <1>2, <1>4, <1>5 DEF FlushBroken, PhaseOf

\* A getter that is done is not that of the watcher which broke a flush off.
LEMMA GetEndsBreaks ==
    ASSUME NEW rank, SubscriptionInv(rank), FlushBroken, stack # <<>>, Top.at = "get", GetDone \/ GetThrows
    PROVE  FlushBroken'
<1> DEFINE w == Top.w
<1>1. /\ SchedulerInv /\ Stacked(stack) /\ Top = stack[1] /\ FrameFits(stack, 1) /\ 1 \in DOMAIN stack
      /\ Born /\ Evaluates(rank, stack) /\ DOMAIN stack = 1 .. Len(stack) /\ Len(stack) \in Nat
    BY TopIs DEF SubscriptionInv, SchedulerInv
<1>2. /\ BreaksNothing /\ Leaves(stack, stack') /\ UNCHANGED <<queue, index, flushing, born>>
    BY <1>1, GetEndsFits, GetterLeaves DEF queueVars
<1>3. didThrow' \subseteq didThrow \union {w} /\ didThrow \ {w} \subseteq didThrow'
    BY DEF GetDone, GetThrows
<1>4. didThrow' \subseteq 1 .. born'
    <2>1. w \in Watcher /\ w <= born
        BY <1>1 DEF FrameFits, Evaluates
    <2>2. w \in 1 .. born
        BY <1>1, <2>1, LastWatcherAssumption DEF Watcher, Born
    <2> HIDE DEF w
    <2> QED  BY <1>2, <1>3, <2>2 DEF FlushBroken
<1>5. ASSUME NEW i \in DOMAIN stack', stack'[i].at = "get", stack'[i].then # "evaluate"
      PROVE  /\ stack'[i].then = "create" => stack'[i].w \notin didThrow'
             /\ stack'[i].then = "run" => stack'[i].w = Running'
    <2>1. \A t : t = stack' => /\ i \in Nat \ {0} /\ i + 1 \in DOMAIN stack /\ stack[i + 1].at = "get"
                                /\ t[i].w = stack[i + 1].w /\ t[i].then = stack[i + 1].then
        <3> TAKE t
        <3> HAVE t = stack'
        <3>1. Leaves(stack, t) /\ stack[1].at = "get"
            BY <1>1, <1>2
        <3>2. t \in Seq(Range(t))
            BY <1>1, <3>1, LeavesFits DEF Stacked
        <3>3. i \in Nat \ {0}
            BY <3>2
        <3> QED  BY <1>1, <1>5, <3>1, <3>3, LeavesRest
    <2>2. /\ i \in Nat \ {0} /\ i + 1 \in DOMAIN stack /\ stack[i + 1].at = "get"
          /\ stack'[i].w = stack[i + 1].w /\ stack'[i].then = stack[i + 1].then
        BY <2>1
    <2>3. FrameFits(stack, i + 1) /\ i + 1 # 1
        BY <1>1, <2>2 DEF Stacked
    <2>4. Top.then = "evaluate"
        <3>1. CASE Top.then = "create"
            <4>1. Len(stack) = 1
                BY <1>1, <3>1 DEF FrameFits
            <4> QED  BY <1>1, <2>2, <4>1
        <3>2. CASE Top.then = "run"
            <4>1. 1 + 1 = Len(stack) /\ stack[Len(stack)].at = "flush"
                BY <1>1, <3>2 DEF FrameFits
            <4>2. Len(stack) = 2
                BY <4>1
            <4>3. i + 1 = 2
                BY <1>1, <2>2, <4>2
            <4> QED  BY <2>2, <4>1, <4>2, <4>3
        <3> QED  BY <1>1, <3>1, <3>2 DEF FrameFits
    <2>5. stack[i + 1].w # w
        BY <1>1, <1>5, <2>2, <2>3, <2>4 DEF FrameFits
    <2> HIDE DEF w
    <2> QED  BY <1>2, <1>3, <2>2, <2>5 DEF FlushBroken, Running
<1>6. ASSUME flushing', PhaseOf(stack') = "none"
      PROVE  Kind[Running'] = "render" /\ Running' \in didThrow'
    <2>1. /\ PhaseOf(stack) = "none" /\ Running' = Running
          /\ Kind[Running] = "render" /\ Running \in didThrow
        BY <1>2, <1>6 DEF BreaksNothing, FlushBroken
    <2>2. Running # w
        <3>1. CASE Top.then = "create"
            BY <1>1, <2>1, <3>1 DEF FlushBroken
        <3>2. CASE Top.then = "run"
            <4>1. stack[Len(stack)].at = "flush" /\ stack[Len(stack)].phase = "after"
                BY <1>1, <3>2 DEF FrameFits
            <4> QED  BY <2>1, <4>1 DEF PhaseOf
        <3>3. CASE Top.then = "evaluate"
            BY <1>1, <2>1, <3>3 DEF FrameFits, IsQueued
        <3> QED  BY <1>1, <3>1, <3>2, <3>3 DEF FrameFits
    <2> HIDE DEF w
    <2> QED  BY <1>3, <2>1, <2>2
<1> QED  BY <1>4, <1>5, <1>6 DEF FlushBroken, PhaseOf

\* An error in a patch breaks the flush off at the watcher that runs, or takes place
\* while none runs.
LEMMA PatchThrowsBreaks ==
    ASSUME NEW rank, SubscriptionInv(rank), FlushBroken, stack # <<>>, Top.at = "get", PatchThrows
    PROVE  FlushBroken'
<1>1. /\ Stacked(stack) /\ Top = stack[1] /\ FrameFits(stack, 1) /\ 1 \in DOMAIN stack
      /\ Born /\ Evaluates(rank, stack)
    BY TopIs DEF SubscriptionInv, SchedulerInv
<1>2. /\ Kind[Top.w] = "render" /\ stack' = <<>> /\ didThrow' = didThrow \union {Top.w}
      /\ UNCHANGED <<queue, index, flushing, born>>
    BY DEF PatchThrows, queueVars, flushVars
<1>3. didThrow' \subseteq 1 .. born'
    <2>1. Top.w \in Watcher /\ Top.w <= born
        BY <1>1 DEF FrameFits, Evaluates
    <2>2. Top.w \in 1 .. born
        BY <1>1, <2>1, LastWatcherAssumption DEF Watcher, Born
    <2> QED  BY <1>2, <2>2 DEF FlushBroken
<1>4. flushing => Kind[Running] = "render" /\ Running \in didThrow'
    <2>1. CASE Top.then = "create" /\ PhaseOf(stack) = "none"
        BY <1>2, <2>1 DEF FlushBroken
    <2>2. CASE Top.then = "run"
        <3>1. Top.w = Running
            BY <1>1, <2>2 DEF FlushBroken
        <3> QED  BY <1>2, <3>1
    <2> QED  BY <1>1, <1>2, <2>1, <2>2, RenderIs
<1>5. DOMAIN stack' = {} /\ Running' = Running
    BY <1>2 DEF Running
<1> QED  BY <1>2, <1>3, <1>4, <1>5 DEF FlushBroken

LEMMA FlushRunBreaks ==
    ASSUME SchedulerInv, FlushBroken, FlushRun
    PROVE  FlushBroken'
<1>1. /\ BreaksNothing /\ Flushes("run") /\ UNCHANGED <<queue, index, didThrow, born>>
    BY FlushRunFits DEF FlushRun, watcherVars
<1>2. Tail(stack) = <<>> /\ Top.at = "flush"
    BY <1>1, FlushIs
<1> DEFINE f == [Top EXCEPT !.phase = "after"]
           g == GetFrame(Running, "run")
<1>3. stack' = <<g>> \o <<f>> \/ stack' = <<>> \o <<f>>
    BY DEF FlushRun
<1>4. g.at = "get" /\ g.w = Running /\ g.then = "run" /\ f.at = "flush"
    BY <1>2 DEF GetFrame
<1> HIDE DEF f, g
<1>5. \A i \in DOMAIN stack' : stack'[i] = g \/ stack'[i] = f
    <2>1. CASE stack' = <<g>> \o <<f>>
        <3> DEFINE st == <<g>> \o <<f>>
        <3>1. DOMAIN st = 1 .. 2 /\ st[1] = g /\ st[2] = f
            OBVIOUS
        <3>2. \A i \in 1 .. 2 : i = 1 \/ i = 2
            OBVIOUS
        <3>3. stack' = st
            BY <2>1
        <3> HIDE DEF st
        <3> QED  BY <3>1, <3>2, <3>3
    <2>2. CASE stack' = <<>> \o <<f>>
        <3> DEFINE st == <<>> \o <<f>>
        <3>1. DOMAIN st = 1 .. 1 /\ st[1] = f
            OBVIOUS
        <3>2. \A i \in 1 .. 1 : i = 1
            OBVIOUS
        <3>3. stack' = st
            BY <2>2
        <3> HIDE DEF st
        <3> QED  BY <3>1, <3>2, <3>3
    <2> QED  BY <1>3, <2>1, <2>2
<1>6. \A i \in DOMAIN stack' : stack'[i].at = "get" => stack'[i].then = "run" /\ stack'[i].w = Running'
    BY <1>1, <1>4, <1>5 DEF Running
<1>7. flushing' /\ PhaseOf(stack') = "none" => Kind[Running'] = "render" /\ Running' \in didThrow'
    BY <1>1 DEF BreaksNothing, FlushBroken
<1> QED  BY <1>1, <1>6, <1>7 DEF FlushBroken, PhaseOf

LEMMA BreaksStep ==
    ASSUME NEW rank, SubscriptionInv(rank), FlushBroken, [ReactNext]_reactVars
    PROVE  FlushBroken'
<1>1. SchedulerInv /\ Stacked(stack) /\ Born
    BY DEF SubscriptionInv, SchedulerInv
<1>2. CASE Create
    BY <1>1, <1>2, CreateBreaks
<1>3. CASE Get
    <2>1. /\ stack # <<>> /\ Top.at = "get"
          /\ (GetDone \/ GetThrows) \/ (ReadCell \/ ReadComputed) \/ PatchThrows
        BY <1>3 DEF Get
    <2> QED  BY <1>1, <2>1, GetEndsBreaks, ReadBreaks, PatchThrowsBreaks
<1>4. CASE Writes
    <2>1. NoGetter(stack') /\ UNCHANGED <<didThrow, born>> /\ BreaksNothing
        BY <1>1, <1>4, WritesRunNone, WritesFits DEF Writes, watcherVars
    <2> QED  BY <2>1, QuietBreaks
<1>5. CASE FlushStarts \/ FlushBefore \/ FlushAfter \/ FlushEnds \/ UpdatedHooks
    <2>1. NoGetter(stack')
        BY <1>1, <1>5, FlushRunsNone
    <2>2. UNCHANGED <<didThrow, born>>
        BY <1>5 DEF FlushStarts, FlushBefore, FlushAfter, FlushEnds, UpdatedHooks, ResetScheduler, watcherVars
    <2>3. BreaksNothing
        <3>1. FlushEnds => Flushes("before") /\ ResetScheduler
            BY DEF FlushEnds
        <3> QED  BY <1>1, <1>5, <3>1, FlushStartsFits, FlushBeforeFits, FlushAfterFits, ResetFits, UpdatedHooksFits
    <2> QED  BY <2>1, <2>2, <2>3, QuietBreaks
<1>6. CASE FlushRun
    BY <1>1, <1>6, FlushRunBreaks
<1>7. CASE TaskDoes
    <2>1. stack' = <<>> /\ UNCHANGED <<didThrow, born>> /\ BreaksNothing
        BY <1>1, <1>7, TaskFits DEF TaskDoes, Teardown, watcherVars
    <2>2. NoGetter(stack')
        BY <2>1 DEF NoGetter
    <2> QED  BY <2>1, <2>2, QuietBreaks
<1>8. CASE UNCHANGED reactVars
    BY <1>8 DEF FlushBroken, PhaseOf, Running, reactVars, watcherVars, queueVars, flushVars
<1> QED  BY <1>2, <1>3, <1>4, <1>5, <1>6, <1>7, <1>8 DEF ReactNext, Goes

-----------------------------------------------------------------------------

LEMMA FreshStart ==
    ASSUME NEW rank
    PROVE  ReactInit => FreshInv(rank)
<1> SUFFICES ASSUME ReactInit PROVE FreshInv(rank)
    OBVIOUS
<1>1. SubscriptionInv(rank)
    BY SubscriptionStart
<1>2. DOMAIN data = Cell /\ DOMAIN contents = Obj /\ DOMAIN value = Watcher
    BY StartAssumption DEF ReactInit
<1>3. /\ active = {} /\ dropped = {} /\ didThrow = {} /\ born = 0 /\ stack = <<>>
    BY DEF ReactInit
<1>4. NoGetter(stack)
    BY <1>3 DEF NoGetter
<1>5. Evaluating(stack) = {}
    BY <1>4, NoneEvaluating
<1>6. FreshIn(Memory, stack)
    BY <1>3, <1>4 DEF FreshIn, Memory, Clean, NoGetter
<1>7. ComputedKept
    BY <1>3, LastWatcherAssumption DEF ComputedKept, Computed, Watcher
<1> QED  BY <1>1, <1>2, <1>5, <1>6, <1>7 DEF FreshInv, RunsInTime

\* At rest no watcher waits, unless a flush was broken off.
LEMMA NoneWaits ==
    ASSUME SchedulerInv, FlushBroken, AtRest
    PROVE  has = {} \/ BrokenOff
<1>1. Scheduled /\ stack = <<>> /\ pending = FALSE
    BY DEF AtRest, SchedulerInv, Scheduled
<1>2. PhaseOf(stack) = "none"
    BY <1>1, Idle
<1>3. CASE flushing
    BY <1>1, <1>2, <1>3 DEF FlushBroken, BrokenOff
<1>4. CASE ~flushing
    <2>1. queue = <<>> /\ Awaits(queue, has, 1, index)
        BY <1>1, <1>2, <1>4 DEF Scheduled, Position, From
    <2>2. DOMAIN queue = {}
        BY <2>1
    <2> QED  BY <2>1, <2>2 DEF Awaits
<1> QED  BY <1>3, <1>4

\* At rest who is up to date is clean.
LEMMA FreshAtRest ==
    ASSUME NEW rank, FreshInv(rank), FlushBroken
    PROVE  NothingStale
<1> SUFFICES ASSUME AtRest
             PROVE  /\ has = {} \/ BrokenOff
                    /\ \A w \in UpToDate : ReadsTheSame(w, UpToDate)
    BY DEF NothingStale
<1>1. has = {} \/ BrokenOff
    BY NoneWaits DEF FreshInv, SubscriptionInv
<1> SUFFICES ASSUME NEW w \in UpToDate
             PROVE  ReadsTheSame(w, UpToDate)
    BY <1>1
<1>4. Evaluating(stack) = {}
    BY DEF AtRest, Evaluating
<1>5. UpToDate = Clean
    BY <1>4 DEF UpToDate, Clean
<1> DEFINE m == Memory
           do(i) == Read(w, SubSeq(value[w], 1, i - 1))
           of(i) == IF do(i).op = "cell" THEN m.cellDeps[do(i).id] ELSE m.deps[do(i).id]
           on(i) == IF do(i).op = "cell" THEN CellDeps(do(i).id) ELSE deps[do(i).id]
<1>6. /\ m.clean = UpToDate /\ m.value = value /\ m.deps = deps
      /\ \A c \in Cell : m.cells[c] = CellValue(c) /\ m.cellDeps[c] = CellDeps(c)
    BY <1>5 DEF Memory
<1>7. Sees(m, w, value[w], deps[w]) /\ Read(w, value[w]).op = "done"
    BY <1>5, <1>6 DEF FreshInv, FreshIn
<1> HIDE DEF m
<1>8. /\ \A i \in DOMAIN value[w] :
             \/ do(i).op = "cell" /\ do(i).id \in Cell /\ value[w][i] = m.cells[do(i).id]
             \/ /\ do(i).op = "computed" /\ do(i).id \in m.clean \intersect Computed
                /\ value[w][i] = m.value[do(i).id]
      /\ deps[w] = UNION {of(i) : i \in DOMAIN value[w]}
    BY <1>7 DEF Sees
<1> HIDE DEF do
<1>9. \A i \in DOMAIN value[w] : of(i) = on(i)
    BY <1>6, <1>8
<1>10. deps[w] = UNION {on(i) : i \in DOMAIN value[w]}
    BY <1>8, <1>9
<1>11. \A i \in DOMAIN value[w] :
           \/ do(i).op = "cell" /\ value[w][i] = CellValue(do(i).id)
           \/ do(i).op = "computed" /\ do(i).id \in UpToDate /\ value[w][i] = value[do(i).id]
    BY <1>6, <1>8
<1> QED  BY <1>7, <1>10, <1>11 DEF ReadsTheSame, do

\* Nothing on the page is stale at rest: what every watcher read is what it would read,
\* from computed properties that are not stale either, whatever was written meanwhile and
\* by whom (notify, queueWatcher, flushSchedulerQueue, computedGetter, cleanupDeps).
THEOREM NothingIsStale ==
    ASSUME Acyclic, CreatedInTime, KeepsComputed
    PROVE  ReactSpec => []NothingStale
<1>1. PICK rank : RanksReaders(rank)
    BY DEF Acyclic
<1> DEFINE Inv == FreshInv(rank) /\ FlushBroken
<1>2. ReactInit => Inv
    <2>1. ReactInit => FlushBroken
        BY DEF ReactInit, FlushBroken
    <2> QED  BY <2>1, FreshStart
<1>3. Inv /\ [ReactNext]_reactVars => Inv'
    <2> SUFFICES ASSUME Inv, [ReactNext]_reactVars PROVE Inv'
        OBVIOUS
    <2>1. SubscriptionInv(rank) /\ FlushBroken
        BY DEF FreshInv
    <2>2. FlushBroken'
        BY <2>1, BreaksStep
    <2>3. FreshInv(rank)'
        BY <1>1, FreshStep
    <2> QED  BY <2>2, <2>3
<1>4. Inv => NothingStale
    BY FreshAtRest
<1> HIDE DEF Inv
<1> QED  BY <1>2, <1>3, <1>4, PTL DEF ReactSpec

=============================================================================
