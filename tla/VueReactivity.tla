--------------------------- MODULE VueReactivity ---------------------------
(***************************************************************************)
(* static/js/common/vue.js, the library that renders the chat page: deps,    *)
(* watchers and the queue that runs them (Dep, Observer, Watcher,            *)
(* computedGetter, queueWatcher, flushSchedulerQueue, nextTick).  JavaScript *)
(* runs to completion; the call stack is a variable, and a step is one read, *)
(* one write or one turn of the flush loop.  What a getter reads and what a  *)
(* callback writes is a parameter.  Watchers are their ids, created in order.*)
(***************************************************************************)
EXTENDS Integers, FiniteSets, SequencesExt

CONSTANTS
    Cell,             \* reactive properties
    Obj,              \* observed arrays and objects, that a property may hold
    Start,            \* Start[c]: what the property holds at first
    LastWatcher,      \* watchers are 1 .. LastWatcher
    Kind,             \* Kind[w]: "lazy" for a computed property, "user" or "render"
    Read(_, _),       \* Read(w, seen): what the getter of w does next: read a property,
                      \* read a computed property, throw, be done, or, after the
                      \* reads of a component's render function, fail in the patch
    CallbackDoes(_, _), \* CallbackDoes(w, seen): the writes of a user watcher's callback
    BeforeUpdate(_),  \* the writes of the hooks of the component that w renders
    Updated(_),
    MaxUpdateCount,   \* MAX_UPDATE_COUNT
    Change(_),        \* what a task may do: [op, id, ...], see TaskDoes
    MaxTaskSteps      \* bound: the writes of tasks

ASSUME LastWatcherAssumption == LastWatcher \in Nat
ASSUME StartAssumption == DOMAIN Start = Cell

VARIABLES
    data,             \* data[c]: the value of the property, or the object it holds
    contents,         \* contents[o]: how often o was changed
    subs,             \* subs[d]: the subscribers of a dep, of a property or of an object
    deps,             \* deps[w]
    value, dirty,     \* value[w]: what the getter read last
    active, born,
    stack,            \* the calls that run, the innermost first
    queue, has, index, waiting, flushing, circular, pending,   \* of the scheduler
    didThrow,         \* history: the watchers whose last run ended in an exception
    dropped,          \* history: the watchers left in a queue that was given up
    steps             \* counts the writes of tasks

heapVars == <<data, contents>>
watcherVars == <<deps, value, active, born, didThrow>>
queueVars == <<queue, has, waiting, pending>>
flushVars == <<index, flushing, circular, dropped>>
reactVars == <<heapVars, subs, watcherVars, dirty, stack, queueVars, flushVars, steps>>

Watcher == 1 .. LastWatcher
Computed == {w \in Watcher : Kind[w] = "lazy"}
Dep == Cell \union Obj

Top == Head(stack)
Push(frame) == stack' = <<frame>> \o stack
Pop == stack' = Tail(stack)
Replace(frame) == stack' = <<frame>> \o Tail(stack)

-----------------------------------------------------------------------------

ReactInit ==
    /\ data = Start /\ contents = [o \in Obj |-> 0]
    /\ subs = [d \in Dep |-> <<>>]
    /\ deps = [w \in Watcher |-> {}] /\ value = [w \in Watcher |-> <<>>]
    /\ dirty = {} /\ active = {} /\ born = 0 /\ stack = <<>>
    /\ queue = <<>> /\ has = {} /\ waiting = FALSE /\ pending = FALSE
    /\ index = 0 /\ flushing = FALSE /\ circular = [w \in Watcher |-> 0]
    /\ didThrow = {} /\ dropped = {} /\ steps = 0

-----------------------------------------------------------------------------
(* Scheduling. *)

\* Faulty: always at the end.
AtEnd(q, w) == Append(q, w)

\* Into the queue; while it is flushed, behind the watcher that runs and all
\* with smaller ids.
Place(q, w) ==
    IF ~flushing THEN Append(q, w)
    ELSE InsertAt(q, 1 + Max({index} \union {j \in index + 1 .. Len(q) : q[j] <= w}), w)

\* Watcher.update: a computed property becomes dirty, any other watcher is queued.
IsQueued(w) == Kind[w] # "lazy"

\* queueWatcher.
Queued(s, w) ==
    IF IsQueued(w) /\ w \notin s.has
    THEN [queue |-> Place(s.queue, w), has |-> s.has \union {w}]
    ELSE s

\* For every subscriber of ws in turn; the first that is queued has a flush come.
QueueWatchers(ws) ==
    LET turn[i \in 0 .. Len(ws)] ==
            IF i = 0 THEN [queue |-> queue, has |-> has] ELSE Queued(turn[i - 1], ws[i])
        end == turn[Len(ws)]
    IN  /\ queue' = end.queue /\ has' = end.has
        /\ waiting' = (waiting \/ end.has # has)
        /\ pending' = (pending \/ (end.has # has /\ ~waiting))

\* Faulty: computed properties are not told.
NotifyQueued(d) == QueueWatchers(subs[d]) /\ UNCHANGED dirty

\* Dep.notify.
Notify(d) ==
    /\ dirty' = dirty \union {w \in Range(subs[d]) : ~IsQueued(w)}
    /\ QueueWatchers(subs[d])

\* reactiveSetter.
SetCell(x) ==
    /\ x.op = "set" /\ x.id \in Cell
    /\ \/ /\ data[x.id] # x.to
          /\ data' = [data EXCEPT ![x.id] = x.to]
          /\ Notify(x.id)
          /\ UNCHANGED contents
       \/ /\ data[x.id] = x.to
          /\ UNCHANGED <<heapVars, dirty, queueVars>>

\* Vue.set and Vue.delete, and the methods that change an observed array.
ChangeObject(x) ==
    /\ x.op = "change" /\ x.id \in Obj
    /\ contents' = [contents EXCEPT ![x.id] = @ + 1]
    /\ Notify(x.id)
    /\ UNCHANGED data

Write(x) == SetCell(x) \/ ChangeObject(x)

-----------------------------------------------------------------------------
(* Evaluating a watcher. *)

GetFrame(w, then) == [at |-> "get", w |-> w, seen |-> <<>>, new |-> {}, then |-> then,
                     thrown |-> FALSE]

\* addDep for every dep of ds, of the watcher on top of the target stack.
Subscribe(ds) ==
    subs' = [d \in Dep |-> IF d \in ds \ (Top.new \union deps[Top.w])
                           THEN Append(subs[d], Top.w) ELSE subs[d]]

\* What a read of property c gives and depends on: an object it holds has a
\* dep of its own.
CellValue(c) == <<data[c], IF data[c] \in Obj THEN contents[data[c]] ELSE 0>>
CellDeps(c) == IF data[c] \in Obj THEN {c, data[c]} ELSE {c}

See(v, ds) ==
    /\ Subscribe(ds)
    /\ Replace([Top EXCEPT !.seen = Append(@, v), !.new = @ \union ds])

\* reactiveGetter.
ReadCell ==
    LET do == Read(Top.w, Top.seen)
    IN  /\ do.op = "cell" /\ do.id \in Cell
        /\ See(CellValue(do.id), CellDeps(do.id))
        /\ UNCHANGED <<heapVars, watcherVars, dirty, queueVars, flushVars, steps>>

\* computedGetter: evaluated when dirty, and its deps become the reader's.
ReadComputed ==
    LET do == Read(Top.w, Top.seen)
    IN  /\ do.op = "computed" /\ do.id \in Computed
        /\ IF do.id \in dirty
           THEN Push(GetFrame(do.id, "evaluate")) /\ UNCHANGED subs
           ELSE See(value[do.id], deps[do.id])
        /\ UNCHANGED <<heapVars, watcherVars, dirty, queueVars, flushVars, steps>>

\* removeSub: the first in the list.
RemoveSub(s, w) ==
    IF w \in Range(s) THEN RemoveAt(s, Min({i \in DOMAIN s : s[i] = w})) ELSE s

\* Faulty: nothing is unsubscribed.
KeepSubs == UNCHANGED subs /\ deps' = [deps EXCEPT ![Top.w] = Top.new]

\* cleanupDeps.
CleanupDeps ==
    /\ subs' = [d \in Dep |-> IF d \in deps[Top.w] \ Top.new THEN RemoveSub(subs[d], Top.w) ELSE subs[d]]
    /\ deps' = [deps EXCEPT ![Top.w] = Top.new]

HasObject(seen) == \E i \in DOMAIN seen : seen[i][1] \in Obj

Undefined == <<>>

\* Watcher.get returned v.  In run, a user watcher whose value changed, or is
\* an object, has its callback called.
Returns(v) ==
    /\ value' = [value EXCEPT ![Top.w] = v]
    /\ IF /\ Top.then = "run" /\ Kind[Top.w] = "user"
          /\ v # value[Top.w] \/ HasObject(v)
       THEN Replace([at |-> "writes", list |-> CallbackDoes(Top.w, v)])
       ELSE Pop

GetDone ==
    /\ Read(Top.w, Top.seen).op = "done"
    /\ CleanupDeps
    /\ Returns(Top.seen)
    /\ dirty' = IF Top.then = "evaluate" THEN dirty \ {Top.w} ELSE dirty
    /\ didThrow' = didThrow \ {Top.w}
    /\ UNCHANGED <<heapVars, active, born, queueVars, flushVars, steps>>

Thrown == Top.thrown

\* The getter throws: the deps are cleaned up all the same.  The error of a
\* computed property goes on to its reader; that of a user watcher makes its
\* value undefined, and _render catches that of a render function.
GetThrows ==
    /\ Thrown \/ Read(Top.w, Top.seen).op = "throw"
    /\ CleanupDeps
    /\ didThrow' = didThrow \union {Top.w}
    /\ IF Kind[Top.w] = "lazy"
       THEN /\ stack' = [Tail(stack) EXCEPT ![1].thrown = TRUE]
            /\ UNCHANGED value
       ELSE Returns(Undefined)
    /\ UNCHANGED <<heapVars, dirty, active, born, queueVars, flushVars, steps>>

\* What a component rendered cannot be patched in: nothing catches that on the way
\* out, so run keeps the old value, and a flush stops where it is: flushing and waiting
\* stay true, and the rest of the queue in place.
PatchThrows ==
    /\ Kind[Top.w] = "render" /\ Read(Top.w, Top.seen).op = "patch throws"
    /\ CleanupDeps
    /\ didThrow' = didThrow \union {Top.w}
    /\ stack' = <<>>
    /\ UNCHANGED <<heapVars, value, dirty, active, born, queueVars, flushVars, steps>>

Get ==
    /\ stack # <<>> /\ Top.at = "get"
    /\ GetThrows \/ (~Thrown /\ (ReadCell \/ ReadComputed \/ GetDone \/ PatchThrows))

\* A callback or a hook writes.
Writes ==
    /\ stack # <<>> /\ Top.at = "writes"
    /\ IF Top.list = <<>>
       THEN Pop /\ UNCHANGED <<heapVars, dirty, queueVars>>
       ELSE Write(Head(Top.list)) /\ Replace([Top EXCEPT !.list = Tail(@)])
    /\ UNCHANGED <<subs, watcherVars, flushVars, steps>>

-----------------------------------------------------------------------------
(* flushSchedulerQueue. *)

Running == queue[index]

\* flushCallbacks starts the flush: the queue is sorted.
FlushStarts ==
    /\ stack = <<>> /\ pending
    /\ pending' = FALSE /\ flushing' = TRUE /\ index' = 1
    /\ \E p \in Bijection(DOMAIN queue, DOMAIN queue) :
           queue' = [i \in DOMAIN queue |-> queue[p[i]]]
    /\ \A i, j \in DOMAIN queue' : i < j => queue'[i] <= queue'[j]
    /\ Push([at |-> "flush", phase |-> "before"])
    /\ UNCHANGED <<heapVars, subs, watcherVars, dirty, has, waiting, circular, dropped, steps>>

Flushes(phase) == stack # <<>> /\ Top.at = "flush" /\ Top.phase = phase

\* watcher.before: the hook of the component.
FlushBefore ==
    /\ Flushes("before") /\ index <= Len(queue)
    /\ stack' = (IF Kind[Running] = "render" THEN <<[at |-> "writes", list |-> BeforeUpdate(Running)]>>
                 ELSE <<>>) \o <<[Top EXCEPT !.phase = "run"]>>
    /\ UNCHANGED <<heapVars, subs, watcherVars, dirty, queueVars, flushVars, steps>>

\* watcher.run: nothing when it was torn down since.
FlushRun ==
    /\ Flushes("run")
    /\ has' = has \ {Running}
    /\ dropped' = dropped \ {Running}
    /\ stack' = (IF Running \in active THEN <<GetFrame(Running, "run")>> ELSE <<>>)
                \o <<[Top EXCEPT !.phase = "after"]>>
    /\ UNCHANGED <<heapVars, subs, watcherVars, dirty, queue, waiting, pending,
                   index, flushing, circular, steps>>

\* Faulty: a flush is still thought to come.
ResetButWaiting ==
    /\ index' = 0 /\ queue' = <<>> /\ has' = {} /\ circular' = [w \in Watcher |-> 0]
    /\ flushing' = FALSE
    /\ Replace([at |-> "updated", ws |-> queue])
    /\ UNCHANGED <<heapVars, subs, watcherVars, dirty, waiting, pending, steps>>

\* resetSchedulerState; then the hooks, from the end.
ResetScheduler ==
    /\ index' = 0 /\ queue' = <<>> /\ has' = {} /\ circular' = [w \in Watcher |-> 0]
    /\ waiting' = FALSE /\ flushing' = FALSE
    /\ Replace([at |-> "updated", ws |-> queue])
    /\ UNCHANGED <<heapVars, subs, watcherVars, dirty, pending, steps>>

TooOften == Running \in has /\ circular[Running] >= MaxUpdateCount

\* The watcher was queued again by its own run: after too often, the rest of
\* the queue is given up.
FlushAfter ==
    /\ Flushes("after")
    /\ IF TooOften
       THEN ResetScheduler /\ dropped' = dropped \union has
       ELSE /\ circular' = [circular EXCEPT ![Running] = IF Running \in has THEN @ + 1 ELSE @]
            /\ index' = index + 1
            /\ Replace([Top EXCEPT !.phase = "before"])
            /\ UNCHANGED <<heapVars, subs, watcherVars, dirty, queueVars, flushing, dropped, steps>>

FlushEnds ==
    /\ Flushes("before") /\ index > Len(queue)
    /\ ResetScheduler /\ UNCHANGED dropped

\* callUpdatedHooks, for the components that are still there.
UpdatedHooks ==
    /\ stack # <<>> /\ Top.at = "updated"
    /\ stack' = IF Top.ws = <<>> THEN <<>>
                ELSE LET w == Last(Top.ws)
                     IN  (IF Kind[w] = "render" /\ w \in active
                          THEN <<[at |-> "writes", list |-> Updated(w)]>> ELSE <<>>)
                         \o <<[Top EXCEPT !.ws = Front(@)]>>
    /\ UNCHANGED <<heapVars, subs, watcherVars, dirty, queueVars, flushVars, steps>>

-----------------------------------------------------------------------------
(* Tasks. *)

\* new Watcher: a lazy one is dirty, any other is evaluated.
Create ==
    /\ stack = <<>> /\ born < LastWatcher
    /\ born' = born + 1 /\ active' = active \union {born + 1}
    /\ IF Kind[born + 1] = "lazy"
       THEN dirty' = dirty \union {born + 1} /\ UNCHANGED stack
       ELSE Push(GetFrame(born + 1, "create")) /\ UNCHANGED dirty
    /\ UNCHANGED <<heapVars, subs, deps, value, didThrow, queueVars, flushVars, steps>>

\* teardown, of a watcher that may wait in the queue.
Teardown(w) ==
    /\ active' = active \ {w}
    /\ subs' = [d \in Dep |-> IF d \in deps[w] THEN RemoveSub(subs[d], w) ELSE subs[d]]
    /\ UNCHANGED <<heapVars, deps, value, born, didThrow, dirty, queueVars>>

\* An event handler, an answer or a timer; the microtask comes after it.
TaskDoes ==
    /\ stack = <<>> /\ born = LastWatcher /\ steps < MaxTaskSteps
    /\ steps' = steps + 1
    /\ \E x \in Change(data) :
           \/ Write(x) /\ UNCHANGED <<subs, watcherVars>>
           \/ x.op = "teardown" /\ x.id \in active /\ Teardown(x.id)
    /\ UNCHANGED <<stack, flushVars>>

-----------------------------------------------------------------------------

\* What goes on by itself once it was started.
Goes ==
    \/ Create \/ Get \/ Writes
    \/ FlushStarts \/ FlushBefore \/ FlushRun \/ FlushAfter \/ FlushEnds \/ UpdatedHooks

ReactNext == Goes \/ TaskDoes

ReactSpec == ReactInit /\ [][ReactNext]_reactVars

\* Microtasks run, and JavaScript does not stop in the middle.
FairReactSpec == ReactSpec /\ WF_reactVars(Goes)

-----------------------------------------------------------------------------

\* The deps of the frames that evaluate w now.
Collecting(w) == UNION {stack[i].new : i \in {j \in DOMAIN stack : stack[j].at = "get" /\ stack[j].w = w}}

\* The flags of the scheduler tell what the queue holds: has the watchers still
\* to run, once each and, while a flush runs, in the order of their ids; and a
\* flush is under way or on its way exactly when there is one to run.
QueueTellsTruth ==
    LET rest == IF flushing THEN SubSeq(queue, index + 1, Len(queue)) ELSE queue
        now == IF flushing /\ index <= Len(queue) THEN {Running} ELSE {}
    IN  /\ IsInjective(rest)
        /\ has \ now = Range(rest) \ now
        /\ flushing => \A i, j \in DOMAIN rest : i < j => rest[i] <= rest[j]
        /\ waiting = (flushing \/ pending)
        /\ ~waiting => queue = <<>>

\* Nothing runs or is to come; the watchers that are expected to be up to date.
\* Excepted are those whose getter or patch threw (a reader of a computed property
\* that threw is not subscribed to what that read), those dropped when a flush was
\* given up, those that wait in a queue whose flush an error in a patch broke off,
\* and computed properties that nobody read since they became dirty.
AtRest == stack = <<>> /\ ~pending
UpToDate == active \ (didThrow \union dropped \union has \union dirty)

\* An error in the patch of the watcher that ran broke the flush off.
BrokenOff == flushing /\ stack = <<>> /\ Kind[Running] = "render" /\ Running \in didThrow

\* A watcher is among the subscribers of a dep once if it read the dep in its
\* last evaluation or has in the one that runs, and otherwise not at all; one that was
\* torn down is among none, unless it is a computed property that is still read
\* (addDep, cleanupDeps, teardown).
SubscribedToWhatItRead ==
    \A d \in Dep :
        /\ IsInjective(subs[d])
        /\ \A w \in Range(subs[d]) :
               d \in deps[w] \union Collecting(w) /\ (IsQueued(w) => w \in active)
        /\ \A w \in active : d \in deps[w] \union Collecting(w) => w \in Range(subs[d])

\* The getter of w, run now, would read what it read last and collect the same deps; the
\* computed properties among that are of ws.
ReadsTheSame(w, ws) ==
    LET do(i) == Read(w, SubSeq(value[w], 1, i - 1))
    IN  /\ \A i \in DOMAIN value[w] :
               \/ do(i).op = "cell" /\ value[w][i] = CellValue(do(i).id)
               \/ do(i).op = "computed" /\ do(i).id \in ws /\ value[w][i] = value[do(i).id]
        /\ Read(w, value[w]).op = "done"
        /\ deps[w] = UNION {IF do(i).op = "cell" THEN CellDeps(do(i).id) ELSE deps[do(i).id] :
                                i \in DOMAIN value[w]}

\* At rest, every watcher read what it would read now, from computed properties of which
\* that is true as well: nothing on the page is stale, and a clean computed property never
\* is (notify, queueWatcher, flushSchedulerQueue, computedGetter).  A watcher waits at
\* rest only where an error in the patch of the one that ran broke the flush off; then
\* it waits for ever.
NothingStale ==
    AtRest =>
        /\ has = {} \/ BrokenOff
        /\ \A w \in UpToDate : ReadsTheSame(w, UpToDate)

\* Every change is flushed, and a flush ends, though callbacks may go on
\* writing what their own watchers read; unless an error in a patch breaks the flush
\* off, after which nothing is flushed any more.
FlushesEnd == waiting ~> (stack = <<>> /\ (~waiting \/ BrokenOff))

=============================================================================
