---------------------------- MODULE VueKeepAlive ----------------------------
(***************************************************************************)
(* static/js/common/vue.js, component instances and the component KeepAlive:  *)
(* one in the root, with max and include, and one in some of the components   *)
(* it holds.  What each shows is changed by handlers, also while it is not on  *)
(* the screen itself.  An instance is its place in the sequence of all; the    *)
(* keep-alive inside instance i is i, that in the root is 0.  Their render     *)
(* watchers run in this order (the queue is in VueReactivity).  Props, slots,  *)
(* transitions and hooks that change what is shown are left out.              *)
(***************************************************************************)
EXTENDS Integers, FiniteSets, SequencesExt

CONSTANTS
    Null,
    Keys,             \* what the keep-alive in the root may show
    Inner,            \* what those inside may show
    First,            \* of Inner: what they show at first
    TagOf(_),         \* the component of a key
    Nests(_),         \* whether a component has a keep-alive inside
    MaxCached,        \* max of the keep-alive in the root
    MaxSelections     \* bound: the changes

ASSUME KeysAssumption ==
    /\ Null \notin Keys \union Inner /\ Null \notin BOOLEAN
    /\ \A key \in Keys \union Inner : TagOf(key) # Null

\* Bound: two levels.
ASSUME LevelsAssumption == First \in Inner /\ \A key \in Inner : ~Nests(TagOf(key))

ASSUME MaxAssumption == MaxCached \in Nat \ {0}

VARIABLES
    heap,             \* instances and keep-alives, see Empty
    wants,            \* wants[k]: the key that keep-alive k is to show, or Null
    include,          \* the tags that the keep-alive in the root keeps
    unrendered,       \* the keep-alives to be rendered
    watches,          \* the watcher of include is queued
    flushes,          \* a flush runs
    selections

keepVars == <<heap, wants, include, unrendered, watches, flushes, selections>>

With(f, x, v) == [y \in DOMAIN f \union {x} |-> IF y = x THEN v ELSE f[y]]

Empty ==
    [inst |-> <<>>,                      \* the instances, see Instance
     active |-> {}, inactive |-> {},     \* _inactive is false, is true; neither: it is null
     direct |-> {},                      \* _directInactive
     destroyed |-> {},                   \* _isDestroyed
     told |-> {},                        \* history: activated was called, and not deactivated since
     cache |-> [k \in {0} |-> <<>>],     \* cache[k][key]: an instance
     keys |-> [k \in {0} |-> <<>>],      \* the keys of the cache, the freshest last
     shown |-> [k \in {0} |-> 0],        \* the instance of _vnode
     kept |-> [k \in {0} |-> FALSE],     \* data.keepAlive of _vnode
     activated |-> <<>>,                 \* activatedChildren
     spared |-> {},                      \* history: taken from a cache and not destroyed
     late |-> {},                        \* history: put in a cache when shown already
     wrong |-> {}]                       \* history: told twice the same

\* An instance of the component of key, in keep-alive k.
Instance(key, k) == [key |-> key, parent |-> k]

ParentOf(h, i) == h.inst[i].parent
ComponentOf(h, i) == TagOf(h.inst[i].key)

\* The instances inside, which have none inside themselves.
ChildrenOf(h, i) == {j \in DOMAIN h.inst \ h.destroyed : ParentOf(h, j) = i}

-----------------------------------------------------------------------------
(* activated and deactivated. *)

\* Only the next instance around may be inactive, the root is not.
IsInInactiveTree(h, i) == ParentOf(h, i) \in h.inactive

Switched(s, is, on) == IF on THEN s \union is ELSE s \ is

\* The hook activated, or deactivated, of the instances is.
Tell(h, is, on) ==
    [h EXCEPT !.active = Switched(@, is, on), !.inactive = Switched(@, is, ~on),
              !.told = Switched(@, is, on),
              !.wrong = @ \union {i \in is : (i \in h.told) = on}]

\* Faulty: one that its own keep-alive does not show is activated too.
IgnoreDirect(h, i) == FALSE

\* Not shown by its own keep-alive.
StaysInactive(h, i) == i \in h.direct

Wakes(h, i) == ~StaysInactive(h, i) /\ i \notin h.active

\* An instance and, of those inside, each that is to change.
ActivateChild(h, i) ==
    IF Wakes(h, i) THEN Tell(h, {i} \union {j \in ChildrenOf(h, i) : Wakes(h, j)}, TRUE) ELSE h

DeactivateChild(h, i) ==
    IF i \in h.inactive THEN h ELSE Tell(h, {i} \union (ChildrenOf(h, i) \ h.inactive), FALSE)

\* activateChildComponent(vm, true).
Activate(h, i) ==
    LET direct == [h EXCEPT !.direct = @ \ {i}]
    IN  IF IsInInactiveTree(h, i) THEN direct ELSE ActivateChild(direct, i)

\* deactivateChildComponent(vm, true).
Deactivate(h, i) ==
    LET direct == [h EXCEPT !.direct = @ \union {i}]
    IN  IF IsInInactiveTree(h, i) THEN direct ELSE DeactivateChild(direct, i)

\* queueActivatedComponent.
QueueActivated(h, i) ==
    [h EXCEPT !.active = @ \union {i}, !.inactive = @ \ {i}, !.activated = Append(@, i)]

ActivateQueued(h, i) == Activate([h EXCEPT !.active = @ \ {i}, !.inactive = @ \union {i}], i)

CallActivatedHooks(h) ==
    LET after[n \in 0 .. Len(h.activated)] ==
            IF n = 0 THEN [h EXCEPT !.activated = <<>>] ELSE ActivateQueued(after[n - 1], h.activated[n])
    IN  after[Len(h.activated)]

-----------------------------------------------------------------------------
(* Destroying. *)

\* $destroy: the keep-alive inside goes too.  What that shows, it keeps: the hook of
\* its vnode deactivates it, and then all that is in the cache is destroyed.
Destroy(h, i) ==
    LET gone == [h EXCEPT !.destroyed = @ \union {i}]
        inside == h.shown[i]
        left == IF inside = 0 \/ inside \in h.destroyed THEN gone ELSE Deactivate(gone, inside)
    IN  IF i \in h.destroyed THEN h
        ELSE IF ~Nests(ComponentOf(h, i)) THEN gone
        ELSE [left EXCEPT !.destroyed = @ \union Range(h.cache[i]),
                          !.cache[i] = <<>>, !.keys[i] = <<>>, !.shown[i] = 0]

\* componentVNodeHooks.destroy, of what keep-alive k shows.
DestroyHook(h, k) ==
    LET i == h.shown[k]
    IN  IF i = 0 \/ i \in h.destroyed THEN h
        ELSE IF h.kept[k] THEN Deactivate(h, i) ELSE Destroy(h, i)

\* pruneCacheEntry: of the same component as the one shown, it is not destroyed.
PruneEntry(h, k, key, current) ==
    LET i == h.cache[k][key]
        spares == current # Null /\ TagOf(key) = current
        out == IF spares THEN [h EXCEPT !.spared = @ \union {i}] ELSE Destroy(h, i)
    IN  [out EXCEPT !.cache[k] = [x \in DOMAIN @ \ {key} |-> @[x]], !.keys[k] = RemoveFirst(@, key)]

-----------------------------------------------------------------------------
(* Rendering. *)

CurrentTag(h, k) == IF h.shown[k] = 0 THEN Null ELSE ComponentOf(h, h.shown[k])

Keeps(k, key) == k # 0 \/ TagOf(key) \in include

\* A new instance, and what it has inside: in its first patch insert hooks wait for
\* those of the parent, and come before the instance is mounted.
CreateInstance(h, k, key) ==
    LET i == Len(h.inst) + 1
        made == [h EXCEPT !.inst = Append(@, Instance(key, k))]
    IN  IF ~Nests(TagOf(key)) THEN made
        ELSE [made EXCEPT !.inst = Append(@, Instance(First, i)),
                  !.cache = With(@, i, [x \in {First} |-> i + 1]), !.keys = With(@, i, <<First>>),
                  !.shown = With(@, i, i + 1), !.kept = With(@, i, TRUE)]

\* KeepAlive.render, of a key that is kept: [h, instance], 0 for a new one.
Cached(h, k, key) ==
    LET fresh == [h EXCEPT !.keys[k] = Append(RemoveFirst(@, key), key)]
        over == k = 0 /\ Len(fresh.keys[k]) > MaxCached
    IN  IF key \in DOMAIN h.cache[k]
        THEN [h |-> fresh, instance |-> h.cache[k][key]]
        ELSE [h |-> IF over THEN PruneEntry(fresh, k, fresh.keys[k][1], CurrentTag(h, k)) ELSE fresh,
              instance |-> 0]

\* componentVNodeHooks.init: one that is kept is taken again.
Init(c, k, key) ==
    IF c.instance # 0 THEN c ELSE [h |-> CreateInstance(c.h, k, key), instance |-> Len(c.h.inst) + 1]

\* componentVNodeHooks.insert, of a new instance after those inside it.
Insert(h, i, new, kept, mounted) ==
    LET inside == IF new /\ Nests(ComponentOf(h, i)) THEN Activate(h, i + 1) ELSE h
    IN  IF ~kept THEN inside
        ELSE IF mounted THEN QueueActivated(inside, i) ELSE Activate(inside, i)

Same(h, k, key) == h.shown[k] # 0 /\ h.inst[h.shown[k]].key = key

\* One turn of the render watcher of keep-alive k.
RenderKeepAlive(h, k, key, mounted) ==
    LET kept == key # Null /\ Keeps(k, key)
        c == IF kept THEN Cached(h, k, key) ELSE [h |-> h, instance |-> 0]
        old == h.shown[k]
        now == IF Same(h, k, key) THEN [h |-> c.h, instance |-> old]   \* prepatch
               ELSE IF key = Null THEN c ELSE Init(c, k, key)
        i == now.instance
        put == IF kept /\ key \notin DOMAIN now.h.cache[k]
               THEN [now.h EXCEPT !.cache[k] = With(@, key, i), !.late = IF i = old THEN @ \union {i} ELSE @]
               ELSE now.h
        shows(g) == [g EXCEPT !.shown[k] = i, !.kept[k] = kept]
    IN  IF i = old THEN shows(put)
        ELSE IF i = 0 THEN shows(DestroyHook(put, k))
        ELSE Insert(shows(DestroyHook(put, k)), i, c.instance = 0, kept, mounted)

-----------------------------------------------------------------------------

KeepInit ==
    /\ heap = Empty /\ wants = <<>> /\ include = {TagOf(key) : key \in Keys}
    /\ unrendered = {} /\ watches = FALSE /\ flushes = FALSE /\ selections = 0

\* A new instance wants to show First.
WithNew(w, h) == [k \in DOMAIN h.shown |-> IF k \in DOMAIN w THEN w[k] ELSE First]

\* The first render, before the root is mounted.
MountRoot ==
    /\ wants = <<>>
    /\ \E key \in Keys \union {Null} :
          /\ heap' = RenderKeepAlive(heap, 0, key, FALSE)
          /\ wants' = WithNew([k \in {0} |-> key], heap')
    /\ UNCHANGED <<include, unrendered, watches, flushes, selections>>

Handler == wants # <<>> /\ ~flushes /\ selections < MaxSelections /\ selections' = selections + 1

Alive(k) == k \notin heap.destroyed

\* A handler selects what a keep-alive is to show.
Select ==
    /\ Handler
    /\ \E k \in {x \in DOMAIN wants : Alive(x)} :
          \E key \in (IF k = 0 THEN Keys ELSE Inner) \union {Null} :
             key # wants[k] /\ wants' = [wants EXCEPT ![k] = key] /\ unrendered' = unrendered \union {k}
    /\ UNCHANGED <<heap, include, watches, flushes>>

\* A handler sets include.
SetInclude ==
    /\ Handler
    /\ include' \in SUBSET {TagOf(key) : key \in Keys} \ {include}
    /\ unrendered' = unrendered \union {0} /\ watches' = TRUE
    /\ UNCHANGED <<heap, wants, flushes>>

\* The keep-alives of destroyed instances have no watcher any more.
Living(h, ks) == ks \ h.destroyed

FlushRender ==
    /\ unrendered # {}
    /\ flushes' = TRUE
    /\ LET k == Min(unrendered)
       IN  /\ heap' = RenderKeepAlive(heap, k, wants[k], TRUE)
           /\ unrendered' = Living(heap', unrendered \ {k})
    /\ wants' = WithNew(wants, heap')
    /\ UNCHANGED <<include, watches, selections>>

PruneCache(h) ==
    LET keys == h.keys[0]
        after[n \in 0 .. Len(keys)] ==
            IF n = 0 THEN h
            ELSE IF TagOf(keys[n]) \in include THEN after[n - 1]
            ELSE PruneEntry(after[n - 1], 0, keys[n], CurrentTag(h, 0))
    IN  after[Len(keys)]

\* By the watcher of include, whose id is higher than that of the render watcher, and
\* than those of some of the keep-alives inside.
FlushPrune ==
    /\ flushes /\ watches /\ 0 \notin unrendered
    /\ watches' = FALSE
    /\ heap' = PruneCache(heap)
    /\ unrendered' = Living(heap', unrendered)
    /\ UNCHANGED <<wants, include, flushes, selections>>

FlushActivated ==
    /\ flushes /\ unrendered = {} /\ ~watches
    /\ heap' = CallActivatedHooks(heap) /\ flushes' = FALSE
    /\ UNCHANGED <<wants, include, unrendered, watches, selections>>

KeepNext == MountRoot \/ Select \/ SetInclude \/ FlushRender \/ FlushPrune \/ FlushActivated

KeepSpec == KeepInit /\ [][KeepNext]_keepVars

-----------------------------------------------------------------------------

\* On the screen: shown by its keep-alive, and so is the instance around.
OnScreen(i) ==
    LET p == ParentOf(heap, i)
    IN  heap.shown[p] = i /\ (p # 0 => Alive(p) /\ heap.shown[ParentOf(heap, p)] = p)

InCache(i) == \E k \in DOMAIN heap.cache : Alive(k) /\ i \in Range(heap.cache[k])

\* Between flushes, an instance that a keep-alive holds was told that it is active
\* if and only if it is on the screen, and never twice the same, though the one
\* around it comes and goes meanwhile; none that was destroyed is shown or cached,
\* and none that was not is out of reach; the cache has the keys it lists, at most
\* as many as it may.  Excepted: one that is cached when it is shown already is not
\* told, and one that is pruned while another of its component is shown is not
\* destroyed, nor what it holds.
KeptAreTold ==
    (wants # <<>> /\ ~flushes /\ unrendered = {} /\ ~watches) =>
    LET living == DOMAIN heap.inst \ heap.destroyed
        exempt(i, s) == {i, ParentOf(heap, i)} \intersect s # {}
    IN  /\ \A i \in living : ~exempt(i, heap.late \union heap.spared) =>
              /\ i \notin heap.wrong
              /\ InCache(i) => (i \in heap.told <=> OnScreen(i))
        /\ \A i \in heap.destroyed : ~OnScreen(i) /\ ~InCache(i)
        /\ \A i \in living : OnScreen(i) \/ InCache(i) \/ exempt(i, heap.spared)
        /\ \A k \in DOMAIN heap.keys : IsInjective(heap.keys[k]) /\ Range(heap.keys[k]) = DOMAIN heap.cache[k]
        /\ Len(heap.keys[0]) <= MaxCached

=============================================================================
