------------------------- MODULE VueKeepAliveProofs -------------------------
(***************************************************************************)
(* Proofs about VueKeepAlive, for any keys, components and number of changes: *)
(* KeptAreTold.  A turn of JavaScript makes several heaps one of the other,   *)
(* so what is invariant is stated of a heap h (Fits): an instance new is on   *)
(* its way, -1 if none; the hooks of those in queue are about to be called.   *)
(***************************************************************************)
EXTENDS VueKeepAlive, NaturalsInduction, WellFoundedInduction, TLAPS

LiveIn(h) == DOMAIN h.inst \ h.destroyed

KeepAlives(h) == {0} \union {i \in DOMAIN h.inst : Nests(ComponentOf(h, i))}

\* The cache of its keep-alive holds i.
IsCached(h, i) ==
    LET c == h.cache[ParentOf(h, i)] IN h.inst[i].key \in DOMAIN c /\ c[h.inst[i].key] = i

\* The sets of a heap and the functions; instances are in the root, or in one of these.
Typed(h) ==
    /\ DOMAIN h = DOMAIN Empty
    /\ h.inst \in Seq([key : Keys \union Inner, parent : Nat])
    /\ UNION {h.active, h.inactive, h.direct, h.destroyed, h.told, h.spared, h.late, h.wrong} \subseteq DOMAIN h.inst
    /\ h.active \intersect h.inactive = {}
    /\ \A i \in DOMAIN h.inst :
          IF ParentOf(h, i) = 0 THEN h.inst[i].key \in Keys
          ELSE /\ h.inst[i].key \in Inner
               /\ ParentOf(h, i) \in KeepAlives(h) /\ ParentOf(h, ParentOf(h, i)) = 0
    /\ DOMAIN h.cache = KeepAlives(h) /\ DOMAIN h.keys = KeepAlives(h)
    /\ DOMAIN h.shown = KeepAlives(h) /\ DOMAIN h.kept = KeepAlives(h)
    /\ h.activated \in Seq(DOMAIN h.inst)

\* What is shown or cached lives, and what lives is in reach, but for new, which is on
\* its way.
Placed(h, new) ==
    /\ \A k \in KeepAlives(h) :
          /\ h.shown[k] # 0 => h.shown[k] \in LiveIn(h) /\ ParentOf(h, h.shown[k]) = k
          /\ h.shown[k] # 0 /\ h.kept[k] => IsCached(h, h.shown[k]) \/ (k = 0 /\ h.shown[k] \in h.spared)
          /\ h.shown[k] # 0 /\ k # 0 => h.kept[k]
          /\ \A key \in DOMAIN h.cache[k] :
                /\ h.cache[k][key] \in LiveIn(h)
                /\ h.inst[h.cache[k][key]] = Instance(key, k)
    /\ \A i \in LiveIn(h) :
          /\ ParentOf(h, i) \notin h.destroyed
          /\ \/ i = new \/ IsCached(h, i)
             \/ ParentOf(h, i) = 0 /\ (h.shown[0] = i \/ i \in h.spared)

\* A keep-alive lists the keys of its cache, and keep-alive at lists key as well.
Listed(h, at, key) ==
    \A k \in KeepAlives(h) :
        /\ h.keys[k] \in Seq(Range(h.keys[k])) /\ IsInjective(h.keys[k])
        /\ Range(h.keys[k]) = DOMAIN h.cache[k] \union (IF k = at THEN {key} ELSE {})

\* Nobody speaks of new, nor of what is excepted.
Judged(h, new) ==
    {i \in LiveIn(h) : {i, ParentOf(h, i)} \intersect (h.late \union h.spared \union {new}) = {}}

\* What instance i was told, if those of queue will be activated.
Hears(h, i, queue) ==
    LET p == ParentOf(h, i)
    IN  /\ i \notin h.wrong
        /\ i \in h.active <=> i \in h.told \union queue
        /\ ~(i \in h.told /\ i \in queue)
        /\ i \in h.direct => h.shown[p] # i \/ i \in queue
        /\ h.shown[p] # i => i \in h.direct /\ i \notin h.active
        /\ IsCached(h, i) => i \in h.active \union h.inactive
        /\ p = 0 => IF IsCached(h, i) THEN h.shown[0] = i => i \in h.active
                    ELSE i \notin h.active \union h.inactive
        /\ p # 0 => /\ p \in h.inactive => i \notin h.told
                    /\ h.shown[p] = i /\ p \notin h.inactive \union queue => i \in h.active

Told(h, new, queue) == \A i \in Judged(h, new) : Hears(h, i, queue)

\* A heap between two steps of a turn.
Fits(h, new, queue) ==
    /\ Typed(h) /\ Placed(h, new) /\ Told(h, new, queue)
    /\ Listed(h, -1, Null) /\ Len(h.keys[0]) <= MaxCached

\* Between turns: hooks wait only in a flush, and after those who show them were
\* rendered; what may not be kept any more is about to be rendered or pruned.
Mounted ==
    /\ Fits(heap, -1, Range(heap.activated))
    /\ IsInjective(heap.activated)
    /\ DOMAIN wants = KeepAlives(heap)
    /\ \A k \in DOMAIN wants : wants[k] \in (IF k = 0 THEN Keys ELSE Inner) \union {Null}
    /\ unrendered \subseteq KeepAlives(heap) \ heap.destroyed
    /\ heap.activated # <<>> => flushes /\ 0 \notin unrendered
    /\ \A i \in Range(heap.activated) : ParentOf(heap, i) \notin unrendered
    /\ \A key \in DOMAIN heap.cache[0] : TagOf(key) \notin include => watches
    /\ heap.shown[0] # 0 =>
          /\ heap.kept[0] => IsCached(heap, heap.shown[0])
          /\ ~heap.kept[0] /\ heap.inst[heap.shown[0]].key \in DOMAIN heap.cache[0] => 0 \notin unrendered /\ flushes
          /\ 0 \notin unrendered => (heap.kept[0] <=> ComponentOf(heap, heap.shown[0]) \in include)

KeepInv ==
    IF wants = <<>>
    THEN /\ heap = Empty /\ unrendered = {} /\ ~watches /\ ~flushes
         /\ include = {TagOf(key) : key \in Keys}
    ELSE Mounted

-----------------------------------------------------------------------------
(* What the operators change. *)

\* g is h but for the fields fs.
Leaves(g, h, fs) == DOMAIN g = DOMAIN h /\ \A f \in DOMAIN h \ fs : g[f] = h[f]

\* The fields of a heap.
LEMMA FieldsAre ==
    DOMAIN Empty = {"inst", "active", "inactive", "direct", "destroyed", "told", "cache", "keys",
                    "shown", "kept", "activated", "spared", "late", "wrong"}
BY DEF Empty

\* The hooks: what they set.
LEMMA TellIs ==
    ASSUME NEW h, DOMAIN h = DOMAIN Empty, NEW is, NEW on \in BOOLEAN
    PROVE  LET g == Tell(h, is, on)
           IN  /\ Leaves(g, h, {"active", "inactive", "told", "wrong"})
               /\ g.active = Switched(h.active, is, on) /\ g.inactive = Switched(h.inactive, is, ~on)
               /\ g.told = Switched(h.told, is, on)
               /\ g.wrong = h.wrong \union {i \in is : (i \in h.told) = on}
BY FieldsAre DEF Tell, Leaves

\* Whom deactivating i concerns.
Sleepers(h, i) ==
    IF IsInInactiveTree(h, i) \/ i \in h.inactive THEN {} ELSE {i} \union (ChildrenOf(h, i) \ h.inactive)

\* Whom it concerns is inactive after it, and has heard so.
LEMMA DeactivateIs ==
    ASSUME NEW h, Typed(h), NEW i
    PROVE  LET g == Deactivate(h, i)
               is == Sleepers(h, i)
           IN  /\ Leaves(g, h, {"active", "inactive", "direct", "told", "wrong"})
               /\ g.direct = h.direct \union {i}
               /\ g.active = h.active \ is /\ g.inactive = h.inactive \union is /\ g.told = h.told \ is
               /\ g.wrong = h.wrong \union (is \ h.told)
<1> DEFINE d == [h EXCEPT !.direct = @ \union {i}]
           is == Sleepers(h, i)
           g == Deactivate(h, i)
<1>1. /\ Leaves(d, h, {"direct"}) /\ d.direct = h.direct \union {i} /\ DOMAIN d = DOMAIN Empty
      /\ d.inst = h.inst /\ d.inactive = h.inactive /\ d.destroyed = h.destroyed
      /\ d.active = h.active /\ d.told = h.told /\ d.wrong = h.wrong
  BY FieldsAre DEF Typed, Leaves
<1> HIDE DEF d
<1>2. ChildrenOf(d, i) = ChildrenOf(h, i)
  BY <1>1 DEF ChildrenOf, ParentOf
<1>3. g = IF IsInInactiveTree(h, i) THEN d ELSE DeactivateChild(d, i)
  BY DEF Deactivate, d
<1>4. CASE IsInInactiveTree(h, i) \/ i \in h.inactive
  <2>1. g = d /\ is = {}
    BY <1>1, <1>2, <1>3, <1>4 DEF DeactivateChild, Sleepers
  <2> QED  BY <1>1, <2>1, FieldsAre DEF Leaves
<1>5. CASE ~(IsInInactiveTree(h, i) \/ i \in h.inactive)
  <2>1. g = Tell(d, is, FALSE)
    BY <1>1, <1>2, <1>3, <1>5 DEF DeactivateChild, Sleepers
  <2> HIDE DEF is, g
  <2>2. /\ Leaves(g, d, {"active", "inactive", "told", "wrong"})
        /\ g.active = d.active \ is /\ g.inactive = d.inactive \union is /\ g.told = d.told \ is
        /\ g.wrong = d.wrong \union (is \ d.told)
    <3>1. /\ Leaves(g, d, {"active", "inactive", "told", "wrong"})
          /\ g.active = Switched(d.active, is, FALSE) /\ g.inactive = Switched(d.inactive, is, ~FALSE)
          /\ g.told = Switched(d.told, is, FALSE)
          /\ g.wrong = d.wrong \union {j \in is : (j \in d.told) = FALSE}
      BY <1>1, <2>1, TellIs, ZenonT(60)
    <3>2. {j \in is : (j \in d.told) = FALSE} = is \ d.told
      OBVIOUS
    <3> QED  BY <3>1, <3>2 DEF Switched
  <2> QED  BY <1>1, <2>2, FieldsAre DEF Leaves, is, g
<1> QED  BY <1>4, <1>5

\* Whom activating i concerns.
Wakers(h, i) ==
    IF IsInInactiveTree(h, i) \/ i \in h.active THEN {}
    ELSE {i} \union {j \in ChildrenOf(h, i) \ h.active : j \notin h.direct \/ j = i}

\* Whom it concerns is active after it, and has heard so.
LEMMA ActivateIs ==
    ASSUME NEW h, Typed(h), NEW i
    PROVE  LET g == Activate(h, i)
               is == Wakers(h, i)
           IN  /\ Leaves(g, h, {"active", "inactive", "direct", "told", "wrong"})
               /\ g.direct = h.direct \ {i}
               /\ g.active = h.active \union is /\ g.inactive = h.inactive \ is /\ g.told = h.told \union is
               /\ g.wrong = h.wrong \union (is \intersect h.told)
<1> DEFINE d == [h EXCEPT !.direct = @ \ {i}]
           is == Wakers(h, i)
           g == Activate(h, i)
<1>1. /\ Leaves(d, h, {"direct"}) /\ d.direct = h.direct \ {i} /\ DOMAIN d = DOMAIN Empty
      /\ d.inst = h.inst /\ d.inactive = h.inactive /\ d.destroyed = h.destroyed
      /\ d.active = h.active /\ d.told = h.told /\ d.wrong = h.wrong
  BY FieldsAre DEF Typed, Leaves
<1> HIDE DEF d
<1>2. ChildrenOf(d, i) = ChildrenOf(h, i)
  BY <1>1 DEF ChildrenOf, ParentOf
<1>3. g = IF IsInInactiveTree(h, i) THEN d ELSE ActivateChild(d, i)
  BY DEF Activate, d
<1>4. CASE IsInInactiveTree(h, i) \/ i \in h.active
  <2>1. g = d /\ is = {}
    BY <1>1, <1>2, <1>3, <1>4 DEF ActivateChild, Wakes, Wakers
  <2> QED  BY <1>1, <2>1, FieldsAre DEF Leaves
<1>5. CASE ~(IsInInactiveTree(h, i) \/ i \in h.active)
  <2>1. {i} \union {j \in ChildrenOf(d, i) : Wakes(d, j)} = is
    BY <1>1, <1>2, <1>5 DEF Wakes, StaysInactive, Wakers
  <2>2. g = Tell(d, is, TRUE)
    BY <1>1, <1>2, <1>3, <1>5, <2>1 DEF ActivateChild, Wakes, StaysInactive
  <2> HIDE DEF is, g
  <2>3. /\ Leaves(g, d, {"active", "inactive", "told", "wrong"})
        /\ g.active = d.active \union is /\ g.inactive = d.inactive \ is /\ g.told = d.told \union is
        /\ g.wrong = d.wrong \union (is \intersect d.told)
    <3>1. /\ Leaves(g, d, {"active", "inactive", "told", "wrong"})
          /\ g.active = Switched(d.active, is, TRUE) /\ g.inactive = Switched(d.inactive, is, ~TRUE)
          /\ g.told = Switched(d.told, is, TRUE)
          /\ g.wrong = d.wrong \union {j \in is : (j \in d.told) = TRUE}
      BY <1>1, <2>2, TellIs, ZenonT(60)
    <3>2. {j \in is : (j \in d.told) = TRUE} = is \intersect d.told
      OBVIOUS
    <3> QED  BY <3>1, <3>2 DEF Switched
  <2> QED  BY <1>1, <2>3, FieldsAre DEF Leaves, is, g
<1> QED  BY <1>4, <1>5

\* What a hook changes.
Feelings == {"active", "inactive", "direct", "told", "wrong"}

\* A hook creates and destroys nothing.
LEMMA FeelingsOnly ==
    ASSUME NEW h, Typed(h), NEW g, Leaves(g, h, Feelings),
           UNION {g.active, g.inactive, g.direct, g.told, g.wrong} \subseteq DOMAIN h.inst,
           g.active \intersect g.inactive = {}
    PROVE  /\ Typed(g)
           /\ g.inst = h.inst /\ g.destroyed = h.destroyed /\ g.cache = h.cache /\ g.keys = h.keys
           /\ g.shown = h.shown /\ g.kept = h.kept /\ g.activated = h.activated
           /\ g.spared = h.spared /\ g.late = h.late
           /\ LiveIn(g) = LiveIn(h) /\ KeepAlives(g) = KeepAlives(h)
           /\ \A i : ParentOf(g, i) = ParentOf(h, i)
           /\ \A i : IsCached(g, i) <=> IsCached(h, i)
<1>1. /\ g.inst = h.inst /\ g.destroyed = h.destroyed /\ g.cache = h.cache /\ g.keys = h.keys
      /\ g.shown = h.shown /\ g.kept = h.kept /\ g.activated = h.activated
      /\ g.spared = h.spared /\ g.late = h.late /\ DOMAIN g = DOMAIN Empty
  BY FieldsAre DEF Typed, Leaves, Feelings
<1>2. /\ LiveIn(g) = LiveIn(h) /\ KeepAlives(g) = KeepAlives(h)
      /\ \A i : ParentOf(g, i) = ParentOf(h, i)
      /\ \A i : IsCached(g, i) <=> IsCached(h, i)
  BY <1>1 DEF LiveIn, KeepAlives, ComponentOf, ParentOf, IsCached
<1>3. UNION {g.active, g.inactive, g.direct, g.destroyed, g.told, g.spared, g.late, g.wrong} \subseteq DOMAIN g.inst
  BY <1>1 DEF Typed
<1> QED  BY <1>1, <1>2, <1>3 DEF Typed, ParentOf

\* Nor does it move anything.
LEMMA FeelingsKeepPlaces ==
    ASSUME NEW h, Typed(h), NEW g, Leaves(g, h, Feelings), NEW new, NEW at, NEW key
    PROVE  /\ Placed(h, new) => Placed(g, new)
           /\ Listed(h, at, key) => Listed(g, at, key)
           /\ Judged(g, new) = Judged(h, new)
<1>1. /\ g.inst = h.inst /\ g.destroyed = h.destroyed /\ g.cache = h.cache /\ g.keys = h.keys
      /\ g.shown = h.shown /\ g.kept = h.kept /\ g.activated = h.activated
      /\ g.spared = h.spared /\ g.late = h.late
  BY FieldsAre DEF Typed, Leaves, Feelings
<1>2. /\ LiveIn(g) = LiveIn(h) /\ KeepAlives(g) = KeepAlives(h)
      /\ \A i : ParentOf(g, i) = ParentOf(h, i)
      /\ \A i : IsCached(g, i) <=> IsCached(h, i)
  BY <1>1 DEF LiveIn, KeepAlives, ComponentOf, ParentOf, IsCached
<1>3. Placed(h, new) => Placed(g, new)
  BY <1>1, <1>2 DEF Placed
<1>4. Listed(h, at, key) => Listed(g, at, key)
  BY <1>1, <1>2 DEF Listed
<1>5. Judged(g, new) = Judged(h, new)
  BY <1>1, <1>2 DEF Judged
<1> QED  BY <1>3, <1>4, <1>5

-----------------------------------------------------------------------------
(* What a keep-alive shows goes. *)

\* An instance is inside at most one other, which is in the root.
LEMMA TwoLevels ==
    ASSUME NEW h, Typed(h), NEW i \in DOMAIN h.inst
    PROVE  /\ ParentOf(h, i) \in KeepAlives(h) /\ ParentOf(h, i) # i /\ i # 0 /\ i # -1
           /\ ParentOf(h, i) # 0 => /\ ParentOf(h, i) \in DOMAIN h.inst /\ ParentOf(h, ParentOf(h, i)) = 0
                                    /\ ~Nests(ComponentOf(h, i)) /\ i \notin KeepAlives(h)
           /\ \A j \in DOMAIN h.inst : ParentOf(h, j) = i => ParentOf(h, i) = 0
<1>1. DOMAIN h.inst = 1 .. Len(h.inst) /\ i # 0 /\ i # -1
  BY DEF Typed
<1>2. ParentOf(h, i) \in KeepAlives(h)
  BY DEF Typed, KeepAlives
<1>3. \A j \in DOMAIN h.inst : ParentOf(h, j) # 0 =>
         /\ ParentOf(h, j) \in DOMAIN h.inst /\ ParentOf(h, ParentOf(h, j)) = 0 /\ h.inst[j].key \in Inner
  BY DEF Typed, KeepAlives
<1>4. ParentOf(h, i) # 0 => ~Nests(ComponentOf(h, i))
  BY <1>3, LevelsAssumption DEF ComponentOf
<1> QED  BY <1>1, <1>2, <1>3, <1>4 DEF KeepAlives

\* It is such a hook.
LEMMA DeactivateKeeps ==
    ASSUME NEW h, Typed(h), NEW i \in DOMAIN h.inst
    PROVE  LET g == Deactivate(h, i)
           IN  /\ Leaves(g, h, Feelings) /\ g.active \intersect g.inactive = {}
               /\ UNION {g.active, g.inactive, g.direct, g.told, g.wrong} \subseteq DOMAIN h.inst
<1> DEFINE g == Deactivate(h, i)
           is == Sleepers(h, i)
<1>1. is \subseteq DOMAIN h.inst
  BY DEF Sleepers, ChildrenOf
<1>2. /\ Leaves(g, h, Feelings) /\ g.direct = h.direct \union {i}
      /\ g.active = h.active \ is /\ g.inactive = h.inactive \union is /\ g.told = h.told \ is
      /\ g.wrong = h.wrong \union (is \ h.told)
  BY DeactivateIs DEF Feelings
<1> HIDE DEF g, is
<1>3. UNION {g.active, g.inactive, g.direct, g.told, g.wrong} \subseteq DOMAIN h.inst
  BY <1>1, <1>2 DEF Typed
<1>4. g.active \intersect g.inactive = {}
  BY <1>2 DEF Typed
<1> QED  BY <1>2, <1>3, <1>4 DEF g

\* What keep-alive k shows is now i.
Showing(h, k, i, kept) == [h EXCEPT !.shown[k] = i, !.kept[k] = kept]

Emptying(h, k) == Showing(h, k, 0, FALSE)

\* g is h but for what k shows.
Shows(g, h, k, i, kept) ==
    /\ Typed(g)
    /\ g.shown[k] = i /\ g.kept[k] = kept
    /\ \A x \in KeepAlives(h) \ {k} : g.shown[x] = h.shown[x] /\ g.kept[x] = h.kept[x]
    /\ g.inst = h.inst /\ g.active = h.active /\ g.inactive = h.inactive /\ g.direct = h.direct
    /\ g.destroyed = h.destroyed /\ g.told = h.told /\ g.cache = h.cache /\ g.keys = h.keys
    /\ g.activated = h.activated /\ g.spared = h.spared /\ g.late = h.late /\ g.wrong = h.wrong
    /\ LiveIn(g) = LiveIn(h) /\ KeepAlives(g) = KeepAlives(h)
    /\ \A j : ParentOf(g, j) = ParentOf(h, j)
    /\ \A j : IsCached(g, j) <=> IsCached(h, j)
    /\ \A new : Judged(g, new) = Judged(h, new)
    /\ \A at, key : Listed(h, at, key) => Listed(g, at, key)

\* Showing another instance changes nothing else.
LEMMA ShowingIs ==
    ASSUME NEW h, Typed(h), NEW k \in KeepAlives(h), NEW i, NEW kept
    PROVE  Shows(Showing(h, k, i, kept), h, k, i, kept)
<1> DEFINE g == Showing(h, k, i, kept)
<1>1. /\ Leaves(g, h, {"shown", "kept"})
      /\ DOMAIN g = DOMAIN Empty
      /\ g.shown = [h.shown EXCEPT ![k] = i] /\ g.kept = [h.kept EXCEPT ![k] = kept]
  BY FieldsAre DEF Typed, Showing, Leaves
<1> HIDE DEF g
<1>2. /\ g.inst = h.inst /\ g.active = h.active /\ g.inactive = h.inactive /\ g.direct = h.direct
      /\ g.destroyed = h.destroyed /\ g.told = h.told /\ g.cache = h.cache /\ g.keys = h.keys
      /\ g.activated = h.activated /\ g.spared = h.spared /\ g.late = h.late /\ g.wrong = h.wrong
  BY <1>1, FieldsAre DEF Typed, Leaves
<1>3. /\ LiveIn(g) = LiveIn(h) /\ KeepAlives(g) = KeepAlives(h)
      /\ \A j : ParentOf(g, j) = ParentOf(h, j)
      /\ \A j : IsCached(g, j) <=> IsCached(h, j)
  BY <1>2 DEF LiveIn, KeepAlives, ComponentOf, ParentOf, IsCached
<1>4. \A new : Judged(g, new) = Judged(h, new)
  BY <1>2, <1>3 DEF Judged
<1>5. \A at, key : Listed(h, at, key) => Listed(g, at, key)
  BY <1>2, <1>3 DEF Listed
<1>6. Typed(g)
  BY <1>1, <1>2, <1>3 DEF Typed
<1>7. /\ g.shown[k] = i /\ g.kept[k] = kept
      /\ \A x \in KeepAlives(h) \ {k} : g.shown[x] = h.shown[x] /\ g.kept[x] = h.kept[x]
  BY <1>1 DEF Typed
<1> QED  BY <1>2, <1>3, <1>4, <1>5, <1>6, <1>7 DEF Shows, g

\* Nothing that was told of j differs.
Alike(g, h, j, r, queue) ==
    LET p == ParentOf(h, j)
    IN  /\ ParentOf(g, j) = p
        /\ j \in g.wrong <=> j \in h.wrong
        /\ j \in g.active <=> j \in h.active
        /\ j \in g.inactive <=> j \in h.inactive
        /\ j \in g.told <=> j \in h.told
        /\ j \in g.direct <=> j \in h.direct
        /\ j \in r <=> j \in queue
        /\ g.shown[p] = j <=> h.shown[p] = j
        /\ IsCached(g, j) <=> IsCached(h, j)
        /\ p # 0 => (p \in g.inactive <=> p \in h.inactive) /\ (p \in r <=> p \in queue)

\* What Hears says of an instance depends on these only.
LEMMA HearAlike ==
    ASSUME NEW g, NEW h, NEW j, NEW r, NEW queue, Alike(g, h, j, r, queue), Hears(h, j, queue)
    PROVE  Hears(g, j, r)
<1> DEFINE p == ParentOf(h, j)
<1>1. ParentOf(g, j) = p
  BY DEF Alike
<1>2. /\ j \notin g.wrong
      /\ j \in g.active <=> j \in g.told \union r
      /\ ~(j \in g.told /\ j \in r)
  BY DEF Alike, Hears
<1>3. /\ j \in g.direct => g.shown[p] # j \/ j \in r
      /\ g.shown[p] # j => j \in g.direct /\ j \notin g.active
  BY DEF Alike, Hears
<1>4. IsCached(g, j) => j \in g.active \union g.inactive
  BY DEF Alike, Hears
<1>5. p = 0 => IF IsCached(g, j) THEN g.shown[0] = j => j \in g.active
               ELSE j \notin g.active \union g.inactive
  BY DEF Alike, Hears
<1>6. p # 0 => /\ p \in g.inactive => j \notin g.told
               /\ g.shown[p] = j /\ p \notin g.inactive \union r => j \in g.active
  BY DEF Alike, Hears
<1> QED  BY <1>1, <1>2, <1>3, <1>4, <1>5, <1>6 DEF Hears

\* One that is kept is deactivated when it goes.
LEMMA HiddenFits ==
    ASSUME NEW h, NEW new, NEW queue, Fits(h, new, queue),
           NEW k \in KeepAlives(h) \ h.destroyed, h.shown[k] # 0, h.shown[k] # new, h.kept[k],
           k = 0 => queue = {}, h.shown[k] \notin queue
    PROVE  Fits(Emptying(Deactivate(h, h.shown[k]), k), new, queue)
<1> DEFINE i == h.shown[k]
           d == Deactivate(h, i)
           g == Emptying(d, k)
           is == Sleepers(h, i)
<1>1. Typed(h) /\ Placed(h, new) /\ Told(h, new, queue) /\ Listed(h, -1, Null)
  BY DEF Fits
<1>2. i \in LiveIn(h) /\ i \in DOMAIN h.inst /\ ParentOf(h, i) = k
      /\ (IsCached(h, i) \/ (k = 0 /\ i \in h.spared))
  BY <1>1 DEF Placed, LiveIn
<1> HIDE DEF d
<1>3. /\ Leaves(d, h, Feelings) /\ d.active \intersect d.inactive = {}
      /\ UNION {d.active, d.inactive, d.direct, d.told, d.wrong} \subseteq DOMAIN h.inst
  BY <1>1, <1>2, DeactivateKeeps DEF d
<1>4. /\ d.direct = h.direct \union {i}
      /\ d.active = h.active \ is /\ d.inactive = h.inactive \union is /\ d.told = h.told \ is
      /\ d.wrong = h.wrong \union (is \ h.told)
  BY <1>1, DeactivateIs DEF d
<1>5. /\ Typed(d) /\ d.inst = h.inst /\ d.destroyed = h.destroyed /\ d.cache = h.cache /\ d.keys = h.keys
      /\ d.shown = h.shown /\ d.kept = h.kept /\ d.spared = h.spared /\ d.late = h.late
      /\ LiveIn(d) = LiveIn(h) /\ KeepAlives(d) = KeepAlives(h)
      /\ \A j : ParentOf(d, j) = ParentOf(h, j)
      /\ \A j : IsCached(d, j) <=> IsCached(h, j)
  BY <1>1, <1>3, FeelingsOnly
<1>6. /\ Placed(d, new) /\ Listed(d, -1, Null) /\ Judged(d, new) = Judged(h, new)
  BY <1>1, <1>3, FeelingsKeepPlaces
<1> HIDE DEF g, is, i
<1>7. /\ Typed(g) /\ g.shown[k] = 0 /\ g.kept[k] = FALSE
      /\ \A x \in KeepAlives(d) \ {k} : g.shown[x] = d.shown[x] /\ g.kept[x] = d.kept[x]
      /\ g.inst = d.inst /\ g.active = d.active /\ g.inactive = d.inactive /\ g.direct = d.direct
      /\ g.destroyed = d.destroyed /\ g.told = d.told /\ g.cache = d.cache /\ g.keys = d.keys
      /\ g.activated = d.activated /\ g.spared = d.spared /\ g.late = d.late /\ g.wrong = d.wrong
      /\ LiveIn(g) = LiveIn(d) /\ KeepAlives(g) = KeepAlives(d)
      /\ \A j : ParentOf(g, j) = ParentOf(d, j)
      /\ \A j : IsCached(g, j) <=> IsCached(d, j)
      /\ \A n : Judged(g, n) = Judged(d, n)
      /\ \A at, key : Listed(d, at, key) => Listed(g, at, key)
  <2>1. k \in KeepAlives(d) /\ Typed(d)
    BY <1>5
  <2>2. Shows(g, d, k, 0, FALSE)
    BY <2>1, ShowingIs DEF g, Emptying
  <2> QED  BY <2>2 DEF Shows
<1>8. Placed(g, new)
  <2>1. \A j \in LiveIn(h) : h.shown[0] = j /\ g.shown[0] # j => j = i /\ k = 0
    BY <1>5, <1>7 DEF i, KeepAlives
  <2> QED  BY <1>1, <1>2, <1>5, <1>7, <2>1 DEF Placed
<1>9. Told(g, new, queue)
  <2> SUFFICES ASSUME NEW j \in Judged(h, new) PROVE Hears(g, j, queue)
    BY <1>6, <1>7 DEF Told
  <2> DEFINE p == ParentOf(h, j)
  <2>1. j \in LiveIn(h) /\ j \in DOMAIN h.inst /\ Hears(h, j, queue)
    BY <1>1 DEF Told, Judged, LiveIn
  <2>2. /\ p \in KeepAlives(h) /\ p # j /\ j # 0 /\ i # 0
        /\ p # 0 => p \in DOMAIN h.inst /\ ParentOf(h, p) = 0
        /\ 0 \notin h.inactive
    BY <1>1, <1>2, <2>1, TwoLevels DEF Typed
  <2>3. CASE j = i
    <3>1. /\ IsInInactiveTree(h, j) <=> k \in h.inactive
          /\ j \in is <=> k \notin h.inactive /\ j \notin h.inactive
      BY <1>2, <2>3 DEF is, Sleepers, IsInInactiveTree, ChildrenOf
    <3>2. p = k /\ j \notin queue /\ h.shown[k] = j /\ IsCached(h, j)
      BY <1>2, <2>3 DEF i, Judged
    <3>3. j \notin g.active
      <4>1. CASE k \in h.inactive
        <5>1. j \notin h.active
          BY <2>1, <2>2, <3>2, <4>1 DEF Hears
        <5> QED  BY <1>4, <1>5, <1>7, <5>1
      <4>2. CASE k \notin h.inactive
        BY <1>1, <1>4, <1>7, <3>1, <4>2 DEF Typed
      <4> QED  BY <4>1, <4>2
    <3>4. j \notin g.told /\ j \in g.direct /\ j \notin g.wrong
      BY <1>4, <1>7, <2>1, <2>3, <3>1, <3>2, <3>3 DEF Hears
    <3>5. j \in g.inactive
      BY <1>4, <1>7, <2>1, <2>2, <3>1, <3>2, <3>3 DEF Hears
    <3>6. g.shown[p] = 0 /\ ParentOf(g, j) = p
      BY <1>5, <1>7, <3>2
    <3>7. IsCached(g, j)
      BY <1>5, <1>7, <3>2
    <3> QED  BY <2>2, <3>2, <3>3, <3>4, <3>5, <3>6, <3>7 DEF Hears
  <2>4. CASE j # i /\ p = i
    <3>1. k = 0 /\ queue = {} /\ i \in DOMAIN h.inst /\ ~IsInInactiveTree(h, i)
      BY <1>2, <2>2, <2>4 DEF IsInInactiveTree
    <3>2. /\ i \in g.inactive
          /\ j \in is <=> i \notin h.inactive /\ j \notin h.inactive
      BY <1>4, <1>5, <1>7, <2>1, <2>4, <3>1 DEF is, Sleepers, ChildrenOf, LiveIn
    <3>3. j \notin g.active /\ j \notin g.told
      <4>1. j \in h.active <=> j \in h.told
        BY <2>1, <3>1 DEF Hears
      <4>2. j \in h.inactive => j \notin h.active
        BY <1>1 DEF Typed
      <4>3. i \in h.inactive => j \notin h.told
        BY <2>1, <2>2, <2>4 DEF Hears
      <4> QED  BY <1>4, <1>5, <1>7, <3>2, <4>1, <4>2, <4>3
    <3>4. j \notin g.wrong
      <4>1. IsCached(h, j)
        BY <1>1, <2>1, <2>2, <2>4, <3>1 DEF Placed, Judged
      <4>2. j \in is => j \in h.told
        BY <2>1, <3>1, <3>2, <4>1 DEF Hears
      <4>3. j \notin h.wrong
        BY <2>1 DEF Hears
      <4> QED  BY <1>4, <1>7, <4>2, <4>3
    <3>5. /\ j \in g.direct <=> j \in h.direct
          /\ IsCached(g, j) <=> IsCached(h, j)
          /\ IsCached(g, j) => j \in g.inactive
      BY <1>4, <1>5, <1>7, <2>1, <2>4, <3>2, <3>3 DEF Hears
    <3>6. g.shown[p] = h.shown[p] /\ ParentOf(g, j) = p
      BY <1>5, <1>7, <2>2, <2>4, <3>1, ZenonT(60)
    <3> QED  BY <2>1, <2>2, <2>4, <3>1, <3>2, <3>3, <3>4, <3>5, <3>6 DEF Hears
  <2>5. CASE j # i /\ p # i
    <3>1. j \notin is /\ (p # 0 => p \notin is)
      BY <1>2, <2>2, <2>5 DEF is, Sleepers, ChildrenOf
    <3>2. (g.shown[p] = j <=> h.shown[p] = j) /\ ParentOf(g, j) = p
      BY <1>5, <1>7, <2>2, <2>5 DEF i
    <3>3. Alike(g, h, j, queue, queue)
      BY <1>4, <1>5, <1>7, <2>5, <3>1, <3>2 DEF Alike
    <3> QED  BY <2>1, <3>3, HearAlike
  <2> QED  BY <2>3, <2>4, <2>5
<1>10. Len(g.keys[0]) <= MaxCached
  BY <1>5, <1>7 DEF Fits
<1> QED  BY <1>1, <1>6, <1>7, <1>8, <1>9, <1>10 DEF Fits, Emptying, g, d, i

-----------------------------------------------------------------------------
(* What is destroyed. *)

\* g is h without i and what i has inside.
Without(g, h, i) ==
    LET gone == {i} \union ChildrenOf(h, i)
    IN  /\ Typed(g)
        /\ g.inst = h.inst /\ g.kept = h.kept /\ g.activated = h.activated
        /\ g.spared = h.spared /\ g.late = h.late
        /\ g.destroyed = h.destroyed \union gone
        /\ KeepAlives(g) = KeepAlives(h)
        /\ \A j : ParentOf(g, j) = ParentOf(h, j)
        /\ \A j : j \notin gone => /\ j \in g.wrong <=> j \in h.wrong
                                   /\ j \in g.active <=> j \in h.active
                                   /\ j \in g.inactive <=> j \in h.inactive
                                   /\ j \in g.told <=> j \in h.told
                                   /\ j \in g.direct <=> j \in h.direct
        /\ \A x \in KeepAlives(h) \ {i} :
              g.cache[x] = h.cache[x] /\ g.keys[x] = h.keys[x] /\ g.shown[x] = h.shown[x]
        /\ i \in KeepAlives(h) => g.cache[i] = <<>> /\ g.keys[i] = <<>> /\ g.shown[i] = 0

\* An instance of the root goes with those inside, and with their cache.
LEMMA DestroyIs ==
    ASSUME NEW h, NEW new, Typed(h), Placed(h, new), new = -1 \/ ParentOf(h, new) = 0,
           NEW i \in LiveIn(h), ParentOf(h, i) = 0
    PROVE  Without(Destroy(h, i), h, i)
<1> DEFINE gone == [h EXCEPT !.destroyed = @ \union {i}]
           inside == h.shown[i]
           left == IF inside = 0 \/ inside \in h.destroyed THEN gone ELSE Deactivate(gone, inside)
           g == Destroy(h, i)
           kids == ChildrenOf(h, i)
<1>1. /\ i \in DOMAIN h.inst /\ i \notin h.destroyed /\ i # 0
      /\ \A j \in kids : j \in DOMAIN h.inst /\ ParentOf(h, j) = i /\ ~Nests(ComponentOf(h, j))
  BY TwoLevels DEF LiveIn, ChildrenOf
<1>2. /\ DOMAIN gone = DOMAIN Empty /\ gone.destroyed = h.destroyed \union {i}
      /\ gone.inst = h.inst /\ gone.kept = h.kept /\ gone.activated = h.activated
      /\ gone.spared = h.spared /\ gone.late = h.late
      /\ gone.cache = h.cache /\ gone.keys = h.keys /\ gone.shown = h.shown
      /\ gone.wrong = h.wrong /\ gone.active = h.active /\ gone.inactive = h.inactive
      /\ gone.told = h.told /\ gone.direct = h.direct
  BY FieldsAre DEF Typed
<1> HIDE DEF gone
<1>3. /\ KeepAlives(gone) = KeepAlives(h) /\ \A j : ParentOf(gone, j) = ParentOf(h, j)
      /\ Typed(gone)
  <2>1. KeepAlives(gone) = KeepAlives(h) /\ \A j : ParentOf(gone, j) = ParentOf(h, j)
    BY <1>2 DEF KeepAlives, ComponentOf, ParentOf
  <2>2. UNION {gone.active, gone.inactive, gone.direct, gone.destroyed, gone.told, gone.spared, gone.late, gone.wrong}
           \subseteq DOMAIN gone.inst
    BY <1>1, <1>2 DEF Typed
  <2> QED  BY <1>2, <2>1, <2>2 DEF Typed
<1>4. CASE ~Nests(ComponentOf(h, i))
  <2>1. kids = {}
    BY <1>1, <1>4, TwoLevels DEF ChildrenOf, KeepAlives
  <2>2. g = gone
    BY <1>1, <1>4 DEF Destroy, gone
  <2>3. i \notin KeepAlives(h)
    BY <1>1, <1>4 DEF KeepAlives
  <2> QED  BY <1>2, <1>3, <2>1, <2>2, <2>3 DEF Without, g
<1>5. CASE Nests(ComponentOf(h, i))
  <2>1. i \in KeepAlives(h) /\ DOMAIN h.cache = KeepAlives(h) /\ DOMAIN h.keys = KeepAlives(h) /\ DOMAIN h.shown = KeepAlives(h)
    BY <1>1, <1>5 DEF KeepAlives, Typed
  <2>2. Range(h.cache[i]) = kids
    <3>1. ASSUME NEW key \in DOMAIN h.cache[i] PROVE h.cache[i][key] \in kids
      <4>1. h.cache[i][key] \in LiveIn(h) /\ h.inst[h.cache[i][key]] = Instance(key, i)
        BY <2>1 DEF Placed
      <4> QED  BY <4>1 DEF ChildrenOf, LiveIn, Instance, ParentOf
    <3>2. ASSUME NEW j \in kids PROVE j \in Range(h.cache[i])
      <4>1. j \in LiveIn(h) /\ ParentOf(h, j) = i /\ j # 0 /\ j # -1
        BY <1>1, TwoLevels DEF LiveIn, ChildrenOf
      <4>2. IsCached(h, j)
        BY <1>1, <4>1 DEF Placed
      <4> QED  BY <4>1, <4>2 DEF IsCached, Range
    <3> QED  BY <3>1, <3>2 DEF Range
  <2>3. inside # 0 => inside \in kids
    BY <2>1 DEF Placed, ChildrenOf, LiveIn
  <2>4. /\ DOMAIN left = DOMAIN Empty /\ left.destroyed = gone.destroyed
        /\ left.inst = gone.inst /\ left.kept = gone.kept /\ left.activated = gone.activated
        /\ left.spared = gone.spared /\ left.late = gone.late
        /\ left.cache = gone.cache /\ left.keys = gone.keys /\ left.shown = gone.shown
        /\ Typed(left)
        /\ \A j : j \notin kids => /\ j \in left.wrong <=> j \in h.wrong
                                   /\ j \in left.active <=> j \in h.active
                                   /\ j \in left.inactive <=> j \in h.inactive
                                   /\ j \in left.told <=> j \in h.told
                                   /\ j \in left.direct <=> j \in h.direct
    <3>1. CASE left = gone
      BY <1>2, <1>3, <3>1
    <3>2. CASE left # gone
      <4>1. left = Deactivate(gone, inside) /\ inside # 0
        BY <3>2
      <4>2. inside \in kids /\ inside \in DOMAIN gone.inst
        BY <1>1, <1>2, <2>3, <4>1
      <4> HIDE DEF left, inside
      <4>3. /\ Leaves(left, gone, Feelings) /\ left.active \intersect left.inactive = {}
            /\ UNION {left.active, left.inactive, left.direct, left.told, left.wrong} \subseteq DOMAIN gone.inst
        BY <1>3, <4>1, <4>2, DeactivateKeeps
      <4>4. Sleepers(gone, inside) \subseteq kids
        <5>1. ChildrenOf(gone, inside) = {}
          <6> SUFFICES ASSUME NEW j \in DOMAIN h.inst, ParentOf(h, j) = inside PROVE FALSE
            BY <1>2, <1>3 DEF ChildrenOf
          <6> QED  BY <1>1, <4>2, TwoLevels
        <5> QED  BY <4>2, <5>1 DEF Sleepers
      <4>5. /\ left.direct = gone.direct \union {inside}
            /\ left.active = gone.active \ Sleepers(gone, inside)
            /\ left.inactive = gone.inactive \union Sleepers(gone, inside)
            /\ left.told = gone.told \ Sleepers(gone, inside)
            /\ left.wrong = gone.wrong \union (Sleepers(gone, inside) \ gone.told)
        BY <1>3, <4>1, DeactivateIs
      <4>6. \A j : j \notin kids =>
               /\ j \in left.wrong <=> j \in h.wrong
               /\ j \in left.active <=> j \in h.active
               /\ j \in left.inactive <=> j \in h.inactive
               /\ j \in left.told <=> j \in h.told
               /\ j \in left.direct <=> j \in h.direct
        <5> SUFFICES ASSUME NEW j, j \notin kids
                     PROVE  /\ j \in left.wrong <=> j \in h.wrong
                            /\ j \in left.active <=> j \in h.active
                            /\ j \in left.inactive <=> j \in h.inactive
                            /\ j \in left.told <=> j \in h.told
                            /\ j \in left.direct <=> j \in h.direct
          OBVIOUS
        <5>1. j \notin Sleepers(gone, inside) /\ j # inside
          BY <4>2, <4>4
        <5> QED  BY <1>2, <4>5, <5>1
      <4>7. DOMAIN left = DOMAIN Empty
        BY <1>2, <4>3 DEF Leaves
      <4>8. /\ Typed(left)
            /\ left.inst = gone.inst /\ left.destroyed = gone.destroyed /\ left.cache = gone.cache
            /\ left.keys = gone.keys /\ left.shown = gone.shown /\ left.kept = gone.kept
            /\ left.activated = gone.activated /\ left.spared = gone.spared /\ left.late = gone.late
        BY <1>3, <4>3, FeelingsOnly
      <4> QED  BY <4>6, <4>7, <4>8
    <3> QED  BY <3>1, <3>2
  <2>5. g = [left EXCEPT !.destroyed = @ \union Range(h.cache[i]),
                         !.cache[i] = <<>>, !.keys[i] = <<>>, !.shown[i] = 0]
    BY <1>1, <1>5 DEF Destroy, gone
  <2> HIDE DEF left, g
  <2>6. /\ DOMAIN g = DOMAIN Empty /\ g.destroyed = h.destroyed \union ({i} \union kids)
        /\ g.inst = h.inst /\ g.kept = h.kept /\ g.activated = h.activated
        /\ g.spared = h.spared /\ g.late = h.late
        /\ g.wrong = left.wrong /\ g.active = left.active /\ g.inactive = left.inactive
        /\ g.told = left.told /\ g.direct = left.direct
    BY <1>2, <2>2, <2>4, <2>5, FieldsAre
  <2>7. /\ g.cache = [h.cache EXCEPT ![i] = <<>>] /\ g.keys = [h.keys EXCEPT ![i] = <<>>]
        /\ g.shown = [h.shown EXCEPT ![i] = 0]
    BY <1>2, <2>4, <2>5, FieldsAre
  <2>8. KeepAlives(g) = KeepAlives(h) /\ \A j : ParentOf(g, j) = ParentOf(h, j)
    BY <2>6 DEF KeepAlives, ComponentOf, ParentOf
  <2>9. Typed(g)
    <3>1. UNION {g.active, g.inactive, g.direct, g.destroyed, g.told, g.spared, g.late, g.wrong} \subseteq DOMAIN g.inst
      BY <1>1, <1>2, <2>4, <2>6 DEF Typed
    <3> QED  BY <2>1, <2>4, <2>6, <2>7, <2>8, <3>1 DEF Typed
  <2> QED  BY <1>1, <2>1, <2>4, <2>6, <2>7, <2>8, <2>9 DEF Without, g
<1> QED  BY <1>4, <1>5

\* As Placed, but that i may be referred to though it does not live, or live though
\* it is out of reach.
PlacedBut(h, new, i) ==
    /\ \A k \in KeepAlives(h) :
          /\ h.shown[k] \notin {0, i} =>
                /\ h.shown[k] \in LiveIn(h) /\ ParentOf(h, h.shown[k]) = k
                /\ h.kept[k] => IsCached(h, h.shown[k]) \/ (k = 0 /\ h.shown[k] \in h.spared)
                /\ k # 0 => h.kept[k]
          /\ \A key \in DOMAIN h.cache[k] : h.cache[k][key] # i =>
                h.cache[k][key] \in LiveIn(h) /\ h.inst[h.cache[k][key]] = Instance(key, k)
    /\ \A j \in LiveIn(h) \ {i} :
          /\ ParentOf(h, j) \notin h.destroyed
          /\ \/ j = new \/ IsCached(h, j)
             \/ ParentOf(h, j) = 0 /\ (h.shown[0] = j \/ j \in h.spared)

\* Those that stay are where they were, and hear the same.
LEMMA GoneKeeps ==
    ASSUME NEW h, NEW new, NEW queue, Typed(h), Placed(h, new), Told(h, new, queue),
           new = -1 \/ ParentOf(h, new) = 0,
           NEW i \in LiveIn(h) \ {new}, ParentOf(h, i) = 0, NEW g, Without(g, h, i)
    PROVE  /\ PlacedBut(g, new, i) /\ Told(g, new, queue)
           /\ LiveIn(g) \subseteq LiveIn(h) \ {i}
           /\ \A j \in LiveIn(g) : IsCached(g, j) <=> IsCached(h, j)
           /\ \A at, key : at \in {-1, 0} /\ Listed(h, at, key) => Listed(g, at, key)
<1> DEFINE kids == ChildrenOf(h, i)
<1>1. /\ i \in DOMAIN h.inst /\ i \notin h.destroyed /\ i # 0 /\ i # new
      /\ \A j \in kids : j \in DOMAIN h.inst /\ ParentOf(h, j) = i /\ j # i
  BY TwoLevels DEF LiveIn, ChildrenOf
<1>2. /\ g.inst = h.inst /\ g.destroyed = h.destroyed \union ({i} \union kids) /\ g.kept = h.kept
      /\ g.spared = h.spared /\ g.late = h.late
      /\ KeepAlives(g) = KeepAlives(h)
      /\ \A j : ParentOf(g, j) = ParentOf(h, j)
      /\ \A x \in KeepAlives(h) \ {i} :
            g.cache[x] = h.cache[x] /\ g.keys[x] = h.keys[x] /\ g.shown[x] = h.shown[x]
      /\ i \in KeepAlives(h) => g.cache[i] = <<>> /\ g.keys[i] = <<>> /\ g.shown[i] = 0
  BY DEF Without
<1>3. LiveIn(g) = LiveIn(h) \ ({i} \union kids)
  BY <1>2 DEF LiveIn
<1>4. \A j \in LiveIn(g) : /\ j \in DOMAIN h.inst /\ j # 0 /\ ParentOf(h, j) # i
                           /\ ParentOf(h, j) \in KeepAlives(h) /\ ParentOf(h, j) \notin kids
  BY <1>1, <1>3, TwoLevels DEF LiveIn, ChildrenOf
<1>5. \A j \in LiveIn(g) : IsCached(g, j) <=> IsCached(h, j)
  BY <1>2, <1>4 DEF IsCached
<1> HIDE DEF kids
<1>6. ASSUME NEW k \in KeepAlives(g)
      PROVE  /\ g.shown[k] \notin {0, i} =>
                  /\ g.shown[k] \in LiveIn(g) /\ ParentOf(g, g.shown[k]) = k
                  /\ g.kept[k] => IsCached(g, g.shown[k]) \/ (k = 0 /\ g.shown[k] \in g.spared)
                  /\ k # 0 => g.kept[k]
             /\ \A key \in DOMAIN g.cache[k] : g.cache[k][key] # i =>
                  g.cache[k][key] \in LiveIn(g) /\ g.inst[g.cache[k][key]] = Instance(key, k)
  <2>1. CASE k = i
    BY <1>2, <2>1
  <2>2. CASE k # i
    <3>1. k \in KeepAlives(h) /\ g.shown[k] = h.shown[k] /\ g.cache[k] = h.cache[k] /\ g.kept[k] = h.kept[k]
      BY <1>2, <2>2
    <3>2. ASSUME g.shown[k] \notin {0, i}
          PROVE  /\ g.shown[k] \in LiveIn(g) /\ ParentOf(g, g.shown[k]) = k
                 /\ g.kept[k] => IsCached(g, g.shown[k]) \/ (k = 0 /\ g.shown[k] \in g.spared)
                 /\ k # 0 => g.kept[k]
      <4>1. /\ h.shown[k] \in LiveIn(h) /\ ParentOf(h, h.shown[k]) = k
            /\ h.kept[k] => IsCached(h, h.shown[k]) \/ (k = 0 /\ h.shown[k] \in h.spared)
            /\ k # 0 => h.kept[k]
        BY <3>1, <3>2 DEF Placed
      <4>2. g.shown[k] \in LiveIn(g)
        BY <1>1, <1>3, <2>2, <3>1, <3>2, <4>1
      <4> QED  BY <1>2, <1>5, <3>1, <4>1, <4>2
    <3>3. ASSUME NEW key \in DOMAIN g.cache[k], g.cache[k][key] # i
          PROVE  g.cache[k][key] \in LiveIn(g) /\ g.inst[g.cache[k][key]] = Instance(key, k)
      <4>1. h.cache[k][key] \in LiveIn(h) /\ h.inst[h.cache[k][key]] = Instance(key, k)
        BY <3>1 DEF Placed
      <4>2. ParentOf(h, h.cache[k][key]) = k
        BY <4>1 DEF ParentOf, Instance
      <4> QED  BY <1>1, <1>2, <1>3, <2>2, <3>1, <3>3, <4>1, <4>2
    <3> QED  BY <3>2, <3>3
  <2> QED  BY <2>1, <2>2
<1>7. ASSUME NEW j \in LiveIn(g) \ {i}
      PROVE  /\ ParentOf(g, j) \notin g.destroyed
             /\ \/ j = new \/ IsCached(g, j)
                \/ ParentOf(g, j) = 0 /\ (g.shown[0] = j \/ j \in g.spared)
  <2>1. /\ ParentOf(h, j) \notin h.destroyed
        /\ \/ j = new \/ IsCached(h, j)
           \/ ParentOf(h, j) = 0 /\ (h.shown[0] = j \/ j \in h.spared)
    BY <1>3 DEF Placed
  <2>2. g.shown[0] = h.shown[0]
    BY <1>1, <1>2 DEF KeepAlives
  <2> QED  BY <1>2, <1>4, <1>5, <2>1, <2>2
<1>8. PlacedBut(g, new, i)
  BY <1>6, <1>7 DEF PlacedBut
<1>9. Told(g, new, queue)
  <2> SUFFICES ASSUME NEW j \in Judged(g, new) PROVE Hears(g, j, queue)
    BY DEF Told
  <2>1. j \in LiveIn(g) /\ j \in Judged(h, new)
    BY <1>2, <1>3 DEF Judged
  <2>2. Hears(h, j, queue)
    BY <2>1 DEF Told
  <2>3. Alike(g, h, j, queue, queue)
    <3> DEFINE p == ParentOf(h, j)
    <3>1. j \notin {i} \union kids /\ p \notin {i} \union kids /\ p \in KeepAlives(h)
      BY <1>3, <1>4, <2>1
    <3>2. /\ j \in g.wrong <=> j \in h.wrong
          /\ j \in g.active <=> j \in h.active
          /\ j \in g.inactive <=> j \in h.inactive
          /\ j \in g.told <=> j \in h.told
          /\ j \in g.direct <=> j \in h.direct
          /\ p \in g.inactive <=> p \in h.inactive
      BY <3>1 DEF Without, kids
    <3>3. g.shown[p] = h.shown[p] /\ ParentOf(g, j) = p /\ (IsCached(g, j) <=> IsCached(h, j))
      BY <1>2, <1>5, <2>1, <3>1
    <3> HIDE DEF p
    <3>4. p = ParentOf(h, j)
      BY DEF p
    <3> QED  BY <3>2, <3>3, <3>4 DEF Alike
  <2> QED  BY <2>2, <2>3, HearAlike
<1>10. ASSUME NEW at \in {-1, 0}, NEW key, Listed(h, at, key) PROVE Listed(g, at, key)
  <2> SUFFICES ASSUME NEW k \in KeepAlives(g)
               PROVE  /\ g.keys[k] \in Seq(Range(g.keys[k])) /\ IsInjective(g.keys[k])
                      /\ Range(g.keys[k]) = DOMAIN g.cache[k] \union (IF k = at THEN {key} ELSE {})
    BY DEF Listed
  <2>1. CASE k = i
    <3>1. g.keys[k] = <<>> /\ g.cache[k] = <<>> /\ k # at
      BY <1>1, <1>2, <2>1 DEF LiveIn, Typed
    <3> QED  BY <3>1 DEF Range, IsInjective
  <2>2. CASE k # i
    BY <1>2, <1>10, <2>2 DEF Listed
  <2> QED  BY <2>1, <2>2
<1> QED  BY <1>3, <1>5, <1>8, <1>9, <1>10

\* One that is not kept is destroyed when it goes.
LEMMA RemovedFits ==
    ASSUME NEW h, NEW new, NEW queue, Fits(h, new, queue), new = -1 \/ ParentOf(h, new) = 0,
           h.shown[0] \notin {0, new}, ~IsCached(h, h.shown[0])
    PROVE  Fits(Emptying(Destroy(h, h.shown[0]), 0), new, queue)
<1> DEFINE i == h.shown[0]
           d == Destroy(h, i)
           g == Emptying(d, 0)
<1>1. Typed(h) /\ Placed(h, new) /\ Told(h, new, queue) /\ Listed(h, -1, Null) /\ Len(h.keys[0]) <= MaxCached
  BY DEF Fits
<1>2. i \in LiveIn(h) \ {new} /\ ParentOf(h, i) = 0 /\ i # 0 /\ i \in DOMAIN h.inst /\ 0 \in KeepAlives(h)
  BY <1>1 DEF Placed, KeepAlives, LiveIn
<1> HIDE DEF i, d
<1>3. Without(d, h, i)
  BY <1>1, <1>2, DestroyIs DEF d
<1>4. /\ PlacedBut(d, new, i) /\ Told(d, new, queue)
      /\ LiveIn(d) \subseteq LiveIn(h) \ {i}
      /\ \A j \in LiveIn(d) : IsCached(d, j) <=> IsCached(h, j)
      /\ Listed(d, -1, Null)
  BY <1>1, <1>2, <1>3, GoneKeeps
<1>5. /\ Typed(d) /\ d.inst = h.inst /\ KeepAlives(d) = KeepAlives(h) /\ d.spared = h.spared
      /\ d.shown[0] = i /\ d.cache[0] = h.cache[0] /\ d.keys[0] = h.keys[0]
      /\ \A j : ParentOf(d, j) = ParentOf(h, j)
      /\ i \in d.destroyed
  BY <1>2, <1>3 DEF Without, i
<1>6. Shows(g, d, 0, 0, FALSE)
  BY <1>2, <1>5, ShowingIs DEF Emptying
<1> HIDE DEF g
<1>7. /\ g.shown[0] = 0 /\ KeepAlives(g) = KeepAlives(d) /\ LiveIn(g) = LiveIn(d)
      /\ \A x \in KeepAlives(d) \ {0} : g.shown[x] = d.shown[x] /\ g.kept[x] = d.kept[x]
      /\ g.inst = d.inst /\ g.cache = d.cache /\ g.keys = d.keys /\ g.destroyed = d.destroyed /\ g.spared = d.spared
      /\ \A j : ParentOf(g, j) = ParentOf(d, j)
      /\ \A j : IsCached(g, j) <=> IsCached(d, j)
      /\ Typed(g) /\ Listed(g, -1, Null) /\ Judged(g, new) = Judged(d, new)
  BY <1>4, <1>6 DEF Shows
<1>8. ASSUME NEW k \in KeepAlives(g)
      PROVE  /\ g.shown[k] # 0 => g.shown[k] # i
             /\ \A key \in DOMAIN g.cache[k] : g.cache[k][key] # i
  <2>1. CASE k = 0
    <3> SUFFICES ASSUME NEW key \in DOMAIN h.cache[0], h.cache[0][key] = i PROVE FALSE
      BY <1>5, <1>7, <2>1
    <3>1. h.inst[i] = Instance(key, 0)
      BY <1>1, <1>2 DEF Placed
    <3> QED  BY <1>2, <3>1 DEF IsCached, Instance, i
  <2>2. CASE k # 0
    <3>1. k \in KeepAlives(h) /\ ParentOf(h, i) # k
      BY <1>2, <1>5, <1>7, <2>2
    <3>2. k # i => h.shown[k] # i /\ \A key \in DOMAIN h.cache[k] : h.cache[k][key] # i
      <4>1. h.shown[k] # i
        BY <1>1, <1>2, <3>1 DEF Placed
      <4>2. ASSUME NEW key \in DOMAIN h.cache[k], h.cache[k][key] = i PROVE FALSE
        <5>1. h.inst[i] = Instance(key, k)
          BY <1>1, <3>1, <4>2 DEF Placed
        <5> QED  BY <3>1, <5>1 DEF Instance, ParentOf
      <4> QED  BY <4>1, <4>2
    <3>3. k # i => d.shown[k] = h.shown[k] /\ d.cache[k] = h.cache[k]
      BY <1>3, <3>1 DEF Without
    <3>4. k = i => d.shown[k] = 0 /\ d.cache[k] = <<>>
      BY <1>3, <3>1 DEF Without
    <3> QED  BY <1>7, <2>2, <3>2, <3>3, <3>4
  <2> QED  BY <2>1, <2>2
<1>9. Placed(g, new)
  <2>1. i \notin LiveIn(d)
    BY <1>4
  <2> QED  BY <1>4, <1>5, <1>7, <1>8, <2>1 DEF Placed, PlacedBut
<1>10. Told(g, new, queue)
  <2> SUFFICES ASSUME NEW j \in Judged(d, new) PROVE Hears(g, j, queue)
    BY <1>7 DEF Told
  <2>1. j \in LiveIn(d) /\ j # i /\ Hears(d, j, queue) /\ j \in DOMAIN h.inst
    BY <1>4 DEF Told, Judged, LiveIn
  <2>2. ParentOf(d, j) \in KeepAlives(d) /\ j # 0
    BY <1>1, <1>5, <2>1, TwoLevels
  <2>3. g.shown[ParentOf(d, j)] = j <=> d.shown[ParentOf(d, j)] = j
    BY <1>5, <1>7, <2>1, <2>2
  <2>4. Alike(g, d, j, queue, queue)
    BY <1>6, <2>3 DEF Alike, Shows
  <2> QED  BY <2>1, <2>4, HearAlike
<1> QED  BY <1>1, <1>5, <1>7, <1>9, <1>10 DEF Fits, Emptying, g, d, i

\* Whom it concerns that keep-alive k changes what it shows.
Leaving(h, k) == IF h.shown[k] = 0 THEN {} ELSE {h.shown[k]} \union ChildrenOf(h, h.shown[k])

\* What is not one of is was told nothing.
Untouched(g, h, is) ==
    \A j : j \notin is => /\ j \in g.wrong <=> j \in h.wrong
                          /\ j \in g.active <=> j \in h.active
                          /\ j \in g.inactive <=> j \in h.inactive
                          /\ j \in g.told <=> j \in h.told
                          /\ j \in g.direct <=> j \in h.direct

\* g is h after what k shows has gone.
Emptied(g, h, k) ==
    /\ g.inst = h.inst /\ g.activated = h.activated /\ g.spared = h.spared /\ g.late = h.late
    /\ KeepAlives(g) = KeepAlives(h)
    /\ \A j : ParentOf(g, j) = ParentOf(h, j)
    /\ h.destroyed \subseteq g.destroyed /\ g.destroyed \subseteq h.destroyed \union Leaving(h, k)
    /\ Untouched(g, h, Leaving(h, k))
    /\ \A x \in KeepAlives(h) : x = 0 \/ x # h.shown[k] =>
          /\ g.cache[x] = h.cache[x] /\ g.keys[x] = h.keys[x]
          /\ x # k => g.shown[x] = h.shown[x] /\ g.kept[x] = h.kept[x]
    /\ g.shown[k] = 0
    /\ k # 0 => g.destroyed = h.destroyed

\* What k shows may go: no hook waits for it, and if it is not kept, nor does a cache.
MayGo(h, k, new, queue) ==
    h.shown[k] # 0 =>
       /\ h.shown[k] # new /\ h.shown[k] \notin queue
       /\ k = 0 => /\ queue = {} /\ (new = -1 \/ ParentOf(h, new) = 0)
                   /\ h.kept[0] \/ ~IsCached(h, h.shown[0])

\* What a keep-alive shows may go, kept or destroyed: the hook destroy of its vnode.
LEMMA EmptiedFits ==
    ASSUME NEW h, NEW new, NEW queue, Fits(h, new, queue), NEW k \in KeepAlives(h) \ h.destroyed,
           MayGo(h, k, new, queue)
    PROVE  Fits(Emptying(DestroyHook(h, k), k), new, queue) /\ Emptied(Emptying(DestroyHook(h, k), k), h, k)
<1> DEFINE i == h.shown[k]
           d == DestroyHook(h, k)
           g == Emptying(d, k)
<1>1. Typed(h) /\ Placed(h, new) /\ Told(h, new, queue) /\ Listed(h, -1, Null) /\ Len(h.keys[0]) <= MaxCached
  BY DEF Fits
<1>2. CASE i = 0
  <2>1. d = h
    BY <1>2 DEF DestroyHook
  <2> HIDE DEF d
  <2>2. Shows(g, h, k, 0, FALSE)
    BY <1>1, <2>1, ShowingIs DEF Emptying
  <2> HIDE DEF g
  <2>3. \A x \in KeepAlives(h) : g.shown[x] = h.shown[x]
    BY <1>2, <2>2 DEF Shows
  <2>4. /\ Typed(g) /\ Listed(g, -1, Null) /\ Len(g.keys[0]) <= MaxCached /\ Judged(g, new) = Judged(h, new)
    BY <1>1, <2>2 DEF Shows
  <2>5. Placed(g, new)
    <3>1. /\ LiveIn(g) = LiveIn(h) /\ KeepAlives(g) = KeepAlives(h)
          /\ g.inst = h.inst /\ g.cache = h.cache /\ g.destroyed = h.destroyed /\ g.spared = h.spared
          /\ \A j : ParentOf(g, j) = ParentOf(h, j)
          /\ \A j : IsCached(g, j) <=> IsCached(h, j)
          /\ \A x \in KeepAlives(h) : g.shown[x] # 0 => g.kept[x] = h.kept[x]
      BY <1>2, <2>2, <2>3 DEF Shows
    <3>2. 0 \in KeepAlives(h)
      BY DEF KeepAlives
    <3> QED  BY <1>1, <2>3, <3>1, <3>2 DEF Placed
  <2>6. Told(g, new, queue)
    <3> SUFFICES ASSUME NEW j \in Judged(h, new) PROVE Hears(g, j, queue)
      BY <2>4 DEF Told
    <3>1. Hears(h, j, queue)
      BY <1>1 DEF Told
    <3>2. ParentOf(h, j) \in KeepAlives(h)
      BY <1>1, TwoLevels DEF Judged, LiveIn
    <3>3. Alike(g, h, j, queue, queue)
      BY <2>2, <2>3, <3>2 DEF Alike, Shows
    <3> QED  BY <3>1, <3>3, HearAlike
  <2>7. Emptied(g, h, k)
    <3>1. Untouched(g, h, Leaving(h, k))
      BY <2>2 DEF Untouched, Shows
    <3> QED  BY <1>2, <2>2, <2>3, <3>1 DEF Emptied, Shows
  <2> QED  BY <2>4, <2>5, <2>6, <2>7 DEF Fits, g, d
<1>3. CASE i # 0
  <2>1. /\ i \in LiveIn(h) \ {new} /\ i \in DOMAIN h.inst /\ i \notin h.destroyed /\ ParentOf(h, i) = k
        /\ Leaving(h, k) = {i} \union ChildrenOf(h, i)
        /\ 0 \notin h.destroyed /\ 0 \in KeepAlives(h)
    BY <1>1, <1>3, TwoLevels DEF Placed, Leaving, LiveIn, Typed, KeepAlives, MayGo
  <2>2. CASE h.kept[k]
    <3>1. d = Deactivate(h, i)
      BY <1>3, <2>1, <2>2 DEF DestroyHook
    <3> HIDE DEF d, i
    <3>2. Fits(g, new, queue)
      BY <1>3, <2>2, <3>1, HiddenFits DEF i, MayGo
    <3>3. /\ Leaves(d, h, Feelings) /\ d.active \intersect d.inactive = {}
          /\ UNION {d.active, d.inactive, d.direct, d.told, d.wrong} \subseteq DOMAIN h.inst
      BY <1>1, <2>1, <3>1, DeactivateKeeps
    <3>4. /\ d.direct = h.direct \union {i}
          /\ d.active = h.active \ Sleepers(h, i) /\ d.inactive = h.inactive \union Sleepers(h, i)
          /\ d.told = h.told \ Sleepers(h, i)
          /\ d.wrong = h.wrong \union (Sleepers(h, i) \ h.told)
      BY <1>1, <3>1, DeactivateIs
    <3>5. /\ Typed(d)
          /\ d.inst = h.inst /\ d.destroyed = h.destroyed /\ d.cache = h.cache /\ d.keys = h.keys
          /\ d.shown = h.shown /\ d.kept = h.kept /\ d.activated = h.activated
          /\ d.spared = h.spared /\ d.late = h.late
          /\ KeepAlives(d) = KeepAlives(h)
          /\ \A j : ParentOf(d, j) = ParentOf(h, j)
      BY <1>1, <3>3, FeelingsOnly
    <3>6. Shows(g, d, k, 0, FALSE)
      BY <3>5, ShowingIs DEF Emptying
    <3> HIDE DEF g
    <3>7. ASSUME NEW j, j \notin Leaving(h, k)
          PROVE  /\ j \in g.wrong <=> j \in h.wrong
                 /\ j \in g.active <=> j \in h.active
                 /\ j \in g.inactive <=> j \in h.inactive
                 /\ j \in g.told <=> j \in h.told
                 /\ j \in g.direct <=> j \in h.direct
      <4>1. j # i /\ j \notin Sleepers(h, i)
        BY <2>1, <3>7 DEF Sleepers
      <4> QED  BY <3>4, <3>6, <4>1 DEF Shows
    <3>8. Untouched(g, h, Leaving(h, k))
      BY <3>7 DEF Untouched
    <3>9. Emptied(g, h, k)
      BY <3>5, <3>6, <3>8 DEF Emptied, Shows
    <3> QED  BY <3>2, <3>9 DEF g, d
  <2>3. CASE ~h.kept[k]
    <3>1. k = 0 /\ d = Destroy(h, i)
      BY <1>1, <1>3, <2>1, <2>3 DEF DestroyHook, Placed
    <3> HIDE DEF d, i
    <3>a. new = -1 \/ ParentOf(h, new) = 0
      BY <1>3, <3>1 DEF i, MayGo
    <3>2. Fits(g, new, queue)
      <4>2. h.shown[0] \notin {0, new} /\ ~IsCached(h, h.shown[0])
        BY <1>3, <2>3, <3>1 DEF i, MayGo
      <4>3. Fits(Emptying(Destroy(h, h.shown[0]), 0), new, queue)
        BY <3>a, <4>2, RemovedFits
      <4> QED  BY <3>1, <4>3 DEF i
    <3>3. Without(d, h, i)
      BY <1>1, <1>3, <2>1, <3>1, <3>a, DestroyIs
    <3>4. Shows(g, d, k, 0, FALSE)
      BY <3>3, ShowingIs DEF Without, Emptying
    <3> HIDE DEF g
    <3>5. Emptied(g, h, k)
      <4>1. /\ g.inst = h.inst /\ g.activated = h.activated /\ g.spared = h.spared /\ g.late = h.late
            /\ KeepAlives(g) = KeepAlives(h)
            /\ \A j : ParentOf(g, j) = ParentOf(h, j)
            /\ g.destroyed = h.destroyed \union Leaving(h, k)
            /\ g.shown[k] = 0
        BY <2>1, <3>3, <3>4 DEF Shows, Without
      <4>2. \A x \in KeepAlives(h) \ {i} :
              /\ g.cache[x] = h.cache[x] /\ g.keys[x] = h.keys[x]
              /\ x # k => g.shown[x] = h.shown[x] /\ g.kept[x] = h.kept[x]
        BY <3>3, <3>4 DEF Shows, Without
      <4>a. 0 # i
        BY <1>3 DEF i
      <4>3. Untouched(g, h, Leaving(h, k))
        BY <2>1, <3>3, <3>4 DEF Shows, Without, Untouched
      <4> QED  BY <3>1, <4>1, <4>2, <4>3, <4>a DEF Emptied, i
    <3> QED  BY <3>2, <3>5 DEF g, d
  <2> QED  BY <2>2, <2>3
<1> QED  BY <1>2, <1>3

-----------------------------------------------------------------------------
(* The cache of the keep-alive in the root is pruned. *)

\* A sequence, by its elements.
LEMMA IsASeq ==
    ASSUME NEW S, NEW n \in Nat, NEW s, s = [x \in 1 .. n |-> s[x]], \A x \in 1 .. n : s[x] \in S
    PROVE  s \in Seq(S)
<1>1. [x \in 1 .. n |-> s[x]] \in Seq(S)
  OBVIOUS
<1> QED  BY <1>1

\* What RemoveAt leaves, and where.
LEMMA RemoveAtIs ==
    ASSUME NEW S, NEW s \in Seq(S), NEW i \in DOMAIN s
    PROVE  LET r == RemoveAt(s, i)
           IN  /\ r \in Seq(S) /\ DOMAIN r = 1 .. Len(s) - 1 /\ Len(r) = Len(s) - 1
               /\ \A a \in DOMAIN r : r[a] = s[IF a < i THEN a ELSE a + 1]
<1> DEFINE p == SubSeq(s, 1, i - 1)
           q == SubSeq(s, i + 1, Len(s))
           r == p \o q
<1>1. Len(s) \in Nat /\ DOMAIN s = 1 .. Len(s) /\ i \in 1 .. Len(s)
  OBVIOUS
<1>2. /\ p \in Seq(S) /\ Len(p) = i - 1 /\ DOMAIN p = 1 .. i - 1
      /\ \A a \in 1 .. i - 1 : p[a] = s[a]
  BY <1>1
<1>3. /\ q \in Seq(S) /\ Len(q) = Len(s) - i /\ DOMAIN q = 1 .. Len(s) - i
      /\ \A a \in 1 .. Len(s) - i : q[a] = s[a + i]
  BY <1>1
<1>4. RemoveAt(s, i) = r
  BY DEF RemoveAt
<1> HIDE DEF p, q
<1>5. /\ r \in Seq(S) /\ Len(r) = Len(s) - 1 /\ DOMAIN r = 1 .. Len(s) - 1
      /\ \A a \in 1 .. Len(s) - 1 : r[a] = IF a < i THEN p[a] ELSE q[a - i + 1]
  <2>1. /\ r \in Seq(S) /\ Len(r) = Len(p) + Len(q)
        /\ \A a \in 1 .. Len(p) + Len(q) : r[a] = IF a <= Len(p) THEN p[a] ELSE q[a - Len(p)]
    BY <1>2, <1>3
  <2>2. Len(p) + Len(q) = Len(s) - 1
    BY <1>1, <1>2, <1>3
  <2>3. DOMAIN r = 1 .. Len(s) - 1
    BY <2>1, <2>2
  <2>4. \A a \in 1 .. Len(s) - 1 : (a <= Len(p) <=> a < i) /\ a - Len(p) = a - i + 1
    BY <1>1, <1>2
  <2> HIDE DEF r
  <2> QED  BY <2>1, <2>2, <2>3, <2>4
<1> HIDE DEF r
<1>6. \A a \in DOMAIN r : r[a] = s[IF a < i THEN a ELSE a + 1]
  <2> TAKE a \in DOMAIN r
  <2>1. CASE a < i
    BY <1>1, <1>2, <1>5, <2>1
  <2>2. CASE ~ (a < i)
    <3>1. a - i + 1 \in 1 .. Len(s) - i /\ (a - i + 1) + i = a + 1
      BY <1>1, <1>5, <2>2
    <3> QED  BY <1>3, <1>5, <2>2, <3>1
  <2> QED  BY <2>1, <2>2
<1> QED  BY <1>4, <1>5, <1>6

\* Of a sequence without duplicates.
LEMMA RemoveFirstIs ==
    ASSUME NEW s, s \in Seq(Range(s)), IsInjective(s), NEW e
    PROVE  LET t == RemoveFirst(s, e)
           IN  /\ t \in Seq(Range(t)) /\ IsInjective(t)
               /\ Range(t) = Range(s) \ {e}
               /\ Len(t) = IF e \in Range(s) THEN Len(s) - 1 ELSE Len(s)
<1> DEFINE t == RemoveFirst(s, e)
<1>1. /\ Len(s) \in Nat /\ DOMAIN s = 1 .. Len(s)
      /\ \A a, b \in 1 .. Len(s) : s[a] = s[b] => a = b
      /\ Range(s) = {s[x] : x \in 1 .. Len(s)}
  BY DEF IsInjective, Range
<1>2. CASE e \notin Range(s)
  <2>1. ~\E x \in 1 .. Len(s) : s[x] = e
    BY <1>1, <1>2
  <2>2. t = s
    BY <2>1 DEF RemoveFirst
  <2>3. Range(s) = Range(s) \ {e}
    BY <1>2
  <2> QED  BY <1>2, <2>2, <2>3
<1>3. CASE e \in Range(s)
  <2>1. PICK n \in 1 .. Len(s) : s[n] = e
    BY <1>1, <1>3
  <2>2. {x \in 1 .. Len(s) : s[x] = e} = {n}
    BY <1>1, <2>1
  <2>3. Min({n}) = n
    BY <2>1 DEF Min
  <2>4. SelectInSeq(s, LAMBDA v : v = e) = n
    BY <2>2, <2>3 DEF SelectInSeq
  <2>5. t = RemoveAt(s, n)
    BY <2>1, <2>4 DEF RemoveFirst
  <2> HIDE DEF t
  <2>6. /\ t \in Seq(Range(s)) /\ Len(t) = Len(s) - 1 /\ DOMAIN t = 1 .. Len(s) - 1
        /\ \A x \in DOMAIN t : t[x] = s[IF x < n THEN x ELSE x + 1]
    <3> DEFINE S == Range(s)
    <3>1. s \in Seq(S) /\ n \in DOMAIN s
      BY <1>1, <2>1
    <3> HIDE DEF S
    <3>2. /\ t \in Seq(S) /\ DOMAIN t = 1 .. Len(s) - 1 /\ Len(t) = Len(s) - 1
          /\ \A x \in DOMAIN t : t[x] = s[IF x < n THEN x ELSE x + 1]
      BY <2>5, <3>1, RemoveAtIs
    <3> QED  BY <3>2 DEF S
  <2> DEFINE len == Len(s)
  <2>a. len \in Nat /\ n \in 1 .. len /\ DOMAIN s = 1 .. len /\ DOMAIN t = 1 .. len - 1
    BY <1>1, <2>1, <2>6
  <2> HIDE DEF len
  <2>7. \A x \in DOMAIN t : (IF x < n THEN x ELSE x + 1) \in DOMAIN s \ {n}
    BY <2>a
  <2>8. \A x, y \in DOMAIN t : (IF x < n THEN x ELSE x + 1) = (IF y < n THEN y ELSE y + 1) => x = y
    BY <2>a
  <2>9. ASSUME NEW x \in DOMAIN s \ {n}
        PROVE  \E y \in DOMAIN t : x = IF y < n THEN y ELSE y + 1
    <3>1. CASE x < n
      <4>1. x \in DOMAIN t
        BY <1>1, <2>1, <2>6, <3>1
      <4> QED  BY <3>1, <4>1
    <3>2. CASE ~(x < n)
      <4>1. x - 1 \in DOMAIN t /\ ~(x - 1 < n) /\ x = (x - 1) + 1
        BY <2>a, <3>2
      <4> QED  BY <4>1
    <3> QED  BY <3>1, <3>2
  <2>10. IsInjective(t)
    BY <1>1, <2>6, <2>7, <2>8 DEF IsInjective
  <2>11. Range(t) = Range(s) \ {e}
    <3>1. ASSUME NEW x \in DOMAIN t PROVE t[x] \in Range(s) \ {e}
      <4>1. PICK y \in DOMAIN s \ {n} : t[x] = s[y]
        BY <2>6, <2>7
      <4>2. s[y] # e
        BY <1>1, <2>1, <4>1
      <4> QED  BY <4>1, <4>2 DEF Range
    <3>2. ASSUME NEW x \in DOMAIN s, s[x] # e PROVE \E y \in DOMAIN t : t[y] = s[x]
      BY <1>1, <2>1, <2>6, <2>9, <3>2
    <3> QED  BY <3>1, <3>2 DEF Range
  <2>12. t \in Seq(Range(t))
    <3>1. \A x \in 1 .. Len(t) : t[x] \in Range(t)
      BY <2>6 DEF Range
    <3>2. t = [x \in 1 .. Len(t) |-> t[x]] /\ Len(t) \in Nat
      BY <2>6
    <3> HIDE DEF t
    <3> QED  BY <3>1, <3>2, IsASeq
  <2> QED  BY <1>3, <2>6, <2>10, <2>11, <2>12 DEF t
<1> QED  BY <1>2, <1>3

\* No keep-alive inside has an instance of the root.
LEMMA OnlyRootHolds ==
    ASSUME NEW h, NEW new, Typed(h), Placed(h, new), NEW i \in LiveIn(h), ParentOf(h, i) = 0,
           NEW k \in KeepAlives(h) \ {0}
    PROVE  h.shown[k] # i /\ \A key \in DOMAIN h.cache[k] : h.cache[k][key] # i
<1>1. i \in DOMAIN h.inst /\ i # 0
  BY TwoLevels DEF LiveIn
<1>2. h.shown[k] # i
  BY <1>1 DEF Placed
<1>3. ASSUME NEW key \in DOMAIN h.cache[k], h.cache[k][key] = i PROVE FALSE
  <2>1. h.inst[i] = Instance(key, k)
    BY <1>3 DEF Placed
  <2> QED  BY <2>1 DEF Instance, ParentOf
<1> QED  BY <1>2, <1>3

\* What pruning the entry of key leaves of h.
Pruned(g, h, key) ==
    /\ g.inst = h.inst /\ KeepAlives(g) = KeepAlives(h) /\ \A j : ParentOf(g, j) = ParentOf(h, j)
    /\ g.kept = h.kept /\ g.activated = h.activated /\ g.late = h.late
    /\ g.shown[0] = h.shown[0]
    /\ h.spared \subseteq g.spared /\ h.destroyed \subseteq g.destroyed
    /\ DOMAIN g.cache[0] = DOMAIN h.cache[0] \ {key}
    /\ \A x \in DOMAIN h.cache[0] \ {key} : g.cache[0][x] = h.cache[0][x]
    /\ g.keys[0] = RemoveFirst(h.keys[0], key) /\ Len(g.keys[0]) = Len(h.keys[0]) - 1

\* pruneCacheEntry.
LEMMA PruneFits ==
    ASSUME NEW h, NEW new, NEW queue, NEW at \in {-1, 0}, NEW next,
           Typed(h), Placed(h, new), Told(h, new, queue), Listed(h, at, next),
           new = -1 \/ ParentOf(h, new) = 0,
           NEW key \in DOMAIN h.cache[0], at = 0 => next # key, h.cache[0][key] # new
    PROVE  LET g == PruneEntry(h, 0, key, CurrentTag(h, 0))
           IN  /\ Typed(g) /\ Placed(g, new) /\ Told(g, new, queue) /\ Listed(g, at, next)
               /\ Pruned(g, h, key)
<1> DEFINE i == h.cache[0][key]
           current == CurrentTag(h, 0)
           spares == current # Null /\ TagOf(key) = current
           out == IF spares THEN [h EXCEPT !.spared = @ \union {i}] ELSE Destroy(h, i)
           g == PruneEntry(h, 0, key, current)
<1>1. /\ 0 \in KeepAlives(h) /\ i \in LiveIn(h) \ {new} /\ i \in DOMAIN h.inst /\ h.inst[i] = Instance(key, 0)
      /\ ParentOf(h, i) = 0 /\ i # 0 /\ h.inst[i].key = key /\ TagOf(key) # Null /\ 0 \notin h.destroyed
  <2>1. 0 \in KeepAlives(h) /\ i \in LiveIn(h) /\ h.inst[i] = Instance(key, 0)
    BY DEF Placed, KeepAlives
  <2>2. h.inst[i].key = key /\ ParentOf(h, i) = 0 /\ i \in DOMAIN h.inst
    BY <2>1 DEF Instance, ParentOf, LiveIn
  <2>3. key \in Keys /\ 0 \notin h.destroyed
    BY <2>2 DEF Typed
  <2> QED  BY <2>1, <2>2, <2>3, KeysAssumption, TwoLevels
<1> HIDE DEF i
<1>2. /\ Typed(out) /\ PlacedBut(out, new, i) /\ Told(out, new, queue) /\ Listed(out, at, next)
      /\ out.inst = h.inst /\ KeepAlives(out) = KeepAlives(h) /\ \A j : ParentOf(out, j) = ParentOf(h, j)
      /\ out.kept = h.kept /\ out.activated = h.activated /\ out.late = h.late
      /\ out.shown[0] = h.shown[0] /\ out.cache[0] = h.cache[0] /\ out.keys[0] = h.keys[0]
      /\ h.spared \subseteq out.spared /\ h.destroyed \subseteq out.destroyed
      /\ i \in LiveIn(out) => i \in out.spared
      /\ h.shown[0] = i => i \in LiveIn(out)
      /\ 0 \notin out.destroyed
      /\ \A k \in KeepAlives(h) \ {0} : out.shown[k] # i /\ \A x \in DOMAIN out.cache[k] : out.cache[k][x] # i
  <2>0. \A k \in KeepAlives(h) \ {0} : h.shown[k] # i /\ \A x \in DOMAIN h.cache[k] : h.cache[k][x] # i
    BY <1>1, OnlyRootHolds
  <2>1. CASE spares
    <3>1. out = [h EXCEPT !.spared = @ \union {i}]
      BY <2>1
    <3> HIDE DEF out
    <3>2. /\ DOMAIN out = DOMAIN Empty /\ out.spared = h.spared \union {i}
          /\ out.inst = h.inst /\ out.active = h.active /\ out.inactive = h.inactive /\ out.direct = h.direct
          /\ out.destroyed = h.destroyed /\ out.told = h.told /\ out.cache = h.cache /\ out.keys = h.keys
          /\ out.shown = h.shown /\ out.kept = h.kept /\ out.activated = h.activated
          /\ out.late = h.late /\ out.wrong = h.wrong
      BY <3>1, FieldsAre DEF Typed
    <3>3. /\ LiveIn(out) = LiveIn(h) /\ KeepAlives(out) = KeepAlives(h)
          /\ \A j : ParentOf(out, j) = ParentOf(h, j)
          /\ \A j : IsCached(out, j) <=> IsCached(h, j)
      BY <3>2 DEF LiveIn, KeepAlives, ComponentOf, ParentOf, IsCached
    <3>4. Typed(out)
      <4>1. UNION {out.active, out.inactive, out.direct, out.destroyed, out.told, out.spared, out.late, out.wrong}
               \subseteq DOMAIN out.inst
        BY <1>1, <3>2 DEF Typed
      <4> QED  BY <3>2, <3>3, <4>1 DEF Typed
    <3>5. PlacedBut(out, new, i)
      BY <3>2, <3>3 DEF Placed, PlacedBut
    <3>6. Told(out, new, queue)
      <4> SUFFICES ASSUME NEW j \in Judged(out, new) PROVE Hears(out, j, queue)
        BY DEF Told
      <4>1. j \in Judged(h, new)
        BY <3>2, <3>3 DEF Judged
      <4>2. Hears(h, j, queue)
        BY <4>1 DEF Told
      <4>3. Alike(out, h, j, queue, queue)
        BY <3>2, <3>3 DEF Alike
      <4> QED  BY <4>2, <4>3, HearAlike
    <3>7. Listed(out, at, next)
      BY <3>2, <3>3 DEF Listed
    <3> QED  BY <1>1, <2>0, <3>2, <3>3, <3>4, <3>5, <3>6, <3>7
  <2>2. CASE ~spares
    <3>1. out = Destroy(h, i)
      BY <2>2
    <3>2. h.shown[0] # i
      BY <1>1, <2>2 DEF CurrentTag, ComponentOf
    <3> HIDE DEF out
    <3>3. Without(out, h, i)
      BY <1>1, <3>1, DestroyIs
    <3>4. /\ PlacedBut(out, new, i) /\ Told(out, new, queue) /\ Listed(out, at, next)
          /\ LiveIn(out) \subseteq LiveIn(h) \ {i}
      BY <1>1, <3>3, GoneKeeps
    <3>5. /\ Typed(out)
          /\ out.inst = h.inst /\ KeepAlives(out) = KeepAlives(h) /\ \A j : ParentOf(out, j) = ParentOf(h, j)
          /\ out.kept = h.kept /\ out.activated = h.activated /\ out.late = h.late
          /\ out.shown[0] = h.shown[0] /\ out.cache[0] = h.cache[0] /\ out.keys[0] = h.keys[0]
          /\ h.spared \subseteq out.spared /\ h.destroyed \subseteq out.destroyed
      BY <1>1, <3>3 DEF Without
    <3>6. 0 \notin out.destroyed
      BY <1>1, <3>5, TwoLevels DEF Typed
    <3>7. ASSUME NEW k \in KeepAlives(h) \ {0}
          PROVE  out.shown[k] # i /\ \A x \in DOMAIN out.cache[k] : out.cache[k][x] # i
      <4>1. CASE k = i
        BY <1>1, <3>3, <4>1 DEF Without
      <4>2. CASE k # i
        BY <2>0, <3>3, <4>2 DEF Without
      <4> QED  BY <4>1, <4>2
    <3> QED  BY <3>2, <3>4, <3>5, <3>6, <3>7
  <2> QED  BY <2>1, <2>2
<1>3. g = [out EXCEPT !.cache[0] = [x \in DOMAIN @ \ {key} |-> @[x]], !.keys[0] = RemoveFirst(@, key)]
  BY DEF PruneEntry, i
<1> HIDE DEF out, g, current
<1>4. /\ DOMAIN g = DOMAIN Empty
      /\ g.inst = out.inst /\ g.active = out.active /\ g.inactive = out.inactive /\ g.direct = out.direct
      /\ g.destroyed = out.destroyed /\ g.told = out.told
      /\ g.shown = out.shown /\ g.kept = out.kept /\ g.activated = out.activated
      /\ g.spared = out.spared /\ g.late = out.late /\ g.wrong = out.wrong
      /\ g.cache = [out.cache EXCEPT ![0] = [x \in DOMAIN @ \ {key} |-> @[x]]]
      /\ g.keys = [out.keys EXCEPT ![0] = RemoveFirst(@, key)]
  BY <1>2, <1>3, FieldsAre DEF Typed
<1>5. /\ DOMAIN g.cache = KeepAlives(h) /\ DOMAIN g.keys = KeepAlives(h)
      /\ DOMAIN g.cache[0] = DOMAIN h.cache[0] \ {key}
      /\ \A x \in DOMAIN h.cache[0] \ {key} : g.cache[0][x] = h.cache[0][x]
      /\ g.keys[0] = RemoveFirst(h.keys[0], key)
      /\ \A k \in KeepAlives(h) \ {0} : g.cache[k] = out.cache[k] /\ g.keys[k] = out.keys[k]
  BY <1>1, <1>2, <1>4 DEF Typed
<1>6. /\ LiveIn(g) = LiveIn(out) /\ KeepAlives(g) = KeepAlives(out)
      /\ \A j : ParentOf(g, j) = ParentOf(out, j)
  BY <1>4 DEF LiveIn, KeepAlives, ComponentOf, ParentOf
<1>7. Typed(g)
  BY <1>2, <1>4, <1>5, <1>6 DEF Typed
<1>8. \A j \in DOMAIN h.inst : j # i => (IsCached(g, j) <=> IsCached(out, j))
  <2> SUFFICES ASSUME NEW j \in DOMAIN h.inst, j # i PROVE IsCached(g, j) <=> IsCached(out, j)
    OBVIOUS
  <2>1. ParentOf(h, j) \in KeepAlives(h) /\ ParentOf(g, j) = ParentOf(h, j) /\ ParentOf(out, j) = ParentOf(h, j)
        /\ g.inst = h.inst /\ out.inst = h.inst
    BY <1>2, <1>4, <1>6, TwoLevels
  <2>2. CASE ParentOf(h, j) # 0
    BY <1>5, <2>1, <2>2 DEF IsCached
  <2>3. CASE ParentOf(h, j) = 0
    <3>1. out.cache[0] = h.cache[0] /\ h.cache[0][key] # j
      BY <1>2 DEF i
    <3> QED  BY <1>5, <2>1, <2>3, <3>1 DEF IsCached
  <2> QED  BY <2>2, <2>3
<1>9. Placed(g, new)
  <2>1. ASSUME NEW k \in KeepAlives(g)
        PROVE  /\ g.shown[k] # 0 => g.shown[k] \in LiveIn(g) /\ ParentOf(g, g.shown[k]) = k
               /\ g.shown[k] # 0 /\ g.kept[k] => IsCached(g, g.shown[k]) \/ (k = 0 /\ g.shown[k] \in g.spared)
               /\ g.shown[k] # 0 /\ k # 0 => g.kept[k]
    <3>1. CASE g.shown[k] = i
      <4>1. k = 0 /\ i \in LiveIn(out) /\ i \in out.spared
        BY <1>2, <1>4, <1>6, <3>1
      <4> QED  BY <1>1, <1>2, <1>4, <1>6, <3>1, <4>1
    <3>2. CASE g.shown[k] \notin {0, i}
      <4>1. /\ out.shown[k] \in LiveIn(out) /\ ParentOf(out, out.shown[k]) = k
            /\ out.kept[k] => IsCached(out, out.shown[k]) \/ (k = 0 /\ out.shown[k] \in out.spared)
            /\ k # 0 => out.kept[k]
        BY <1>2, <1>4, <1>6, <3>2 DEF PlacedBut
      <4>2. out.shown[k] \in DOMAIN h.inst
        BY <1>2, <4>1 DEF LiveIn
      <4> QED  BY <1>4, <1>6, <1>8, <3>2, <4>1, <4>2
    <3> QED  BY <3>1, <3>2
  <2>2. ASSUME NEW k \in KeepAlives(g), NEW x \in DOMAIN g.cache[k]
        PROVE  g.cache[k][x] \in LiveIn(g) /\ g.inst[g.cache[k][x]] = Instance(x, k)
    <3>1. k \in KeepAlives(h) /\ x \in DOMAIN out.cache[k] /\ g.cache[k][x] = out.cache[k][x]
      BY <1>2, <1>5, <1>6, <2>2
    <3>2. out.cache[k][x] # i
      <4>1. CASE k = 0
        <5>1. x # key /\ h.inst[h.cache[0][x]] = Instance(x, 0)
          BY <1>1, <1>2, <1>5, <2>2, <3>1, <4>1 DEF Placed
        <5> QED  BY <1>1, <1>2, <4>1, <5>1 DEF Instance
      <4>2. CASE k # 0
        BY <1>2, <3>1, <4>2
      <4> QED  BY <4>1, <4>2
    <3> QED  BY <1>2, <1>4, <1>6, <3>1, <3>2 DEF PlacedBut
  <2>3. ASSUME NEW j \in LiveIn(g)
        PROVE  /\ ParentOf(g, j) \notin g.destroyed
               /\ \/ j = new \/ IsCached(g, j)
                  \/ ParentOf(g, j) = 0 /\ (g.shown[0] = j \/ j \in g.spared)
    <3>1. CASE j = i
      BY <1>1, <1>2, <1>4, <1>6, <2>3, <3>1
    <3>2. CASE j # i
      <4>1. j \in LiveIn(out) \ {i} /\ j \in DOMAIN h.inst
        BY <1>2, <1>6, <3>2 DEF LiveIn
      <4>2. /\ ParentOf(out, j) \notin out.destroyed
            /\ \/ j = new \/ IsCached(out, j)
               \/ ParentOf(out, j) = 0 /\ (out.shown[0] = j \/ j \in out.spared)
        BY <1>2, <4>1 DEF PlacedBut
      <4> QED  BY <1>4, <1>6, <1>8, <3>2, <4>1, <4>2
    <3> QED  BY <3>1, <3>2
  <2> QED  BY <2>1, <2>2, <2>3 DEF Placed
<1>10. Told(g, new, queue)
  <2> SUFFICES ASSUME NEW j \in Judged(g, new) PROVE Hears(g, j, queue)
    BY DEF Told
  <2>1. j \in Judged(out, new) /\ j \in LiveIn(out) /\ j \notin out.spared
    BY <1>4, <1>6 DEF Judged
  <2>2. Hears(out, j, queue) /\ j # i /\ j \in DOMAIN h.inst
    BY <1>2, <2>1 DEF Told, LiveIn
  <2>3. Alike(g, out, j, queue, queue)
    BY <1>4, <1>6, <1>8, <2>2 DEF Alike
  <2> QED  BY <2>2, <2>3, HearAlike
<1>11. Listed(g, at, next) /\ Len(g.keys[0]) = Len(h.keys[0]) - 1
  <2>1. /\ h.keys[0] \in Seq(Range(h.keys[0])) /\ IsInjective(h.keys[0])
        /\ Range(h.keys[0]) = DOMAIN h.cache[0] \union (IF 0 = at THEN {next} ELSE {})
    BY <1>1 DEF Listed
  <2>2. /\ g.keys[0] \in Seq(Range(g.keys[0])) /\ IsInjective(g.keys[0])
        /\ Range(g.keys[0]) = Range(h.keys[0]) \ {key}
        /\ Len(g.keys[0]) = Len(h.keys[0]) - 1
    <3>1. key \in Range(h.keys[0])
      BY <2>1
    <3> QED  BY <1>5, <2>1, <3>1, RemoveFirstIs
  <2>3. Range(g.keys[0]) = DOMAIN g.cache[0] \union (IF 0 = at THEN {next} ELSE {})
    BY <1>5, <2>1, <2>2
  <2>4. ASSUME NEW k \in KeepAlives(g) \ {0}
        PROVE  /\ g.keys[k] \in Seq(Range(g.keys[k])) /\ IsInjective(g.keys[k])
               /\ Range(g.keys[k]) = DOMAIN g.cache[k] \union (IF k = at THEN {next} ELSE {})
    <3>1. k \in KeepAlives(out) /\ g.keys[k] = out.keys[k] /\ g.cache[k] = out.cache[k]
      BY <1>2, <1>5, <1>6
    <3>2. Listed(out, at, next)
      BY <1>2
    <3> QED  BY <3>1, <3>2 DEF Listed
  <2>5. 0 \in KeepAlives(g)
    BY DEF KeepAlives
  <2> QED  BY <2>2, <2>3, <2>4, <2>5 DEF Listed
<1>12. Pruned(g, h, key)
  BY <1>2, <1>4, <1>5, <1>6, <1>11 DEF Pruned
<1> QED  BY <1>7, <1>9, <1>10, <1>11, <1>12 DEF g, current

-----------------------------------------------------------------------------
(* A keep-alive looks for an instance of what it is to show. *)

\* It stays without duplicates.
LEMMA AppendIs ==
    ASSUME NEW s, s \in Seq(Range(s)), IsInjective(s), NEW e, e \notin Range(s)
    PROVE  LET t == Append(s, e)
           IN  /\ t \in Seq(Range(t)) /\ IsInjective(t) /\ Range(t) = Range(s) \union {e}
               /\ Len(t) = Len(s) + 1 /\ (Len(s) > 0 => t[1] = s[1] /\ s[1] \in Range(s))
<1> DEFINE t == Append(s, e)
           S == Range(s) \union {e}
           n == Len(s)
<1>1. n \in Nat /\ DOMAIN s = 1 .. n /\ \A a \in 1 .. n : s[a] \in Range(s)
  BY DEF Range
<1>2. s \in Seq(S)
  BY <1>1
<1> HIDE DEF S
<1>3. e \in S
  BY DEF S
<1>4. /\ t \in Seq(S) /\ Len(t) = n + 1 /\ DOMAIN t = 1 .. n + 1
      /\ t[n + 1] = e /\ \A a \in 1 .. n : t[a] = s[a]
  BY <1>1, <1>2, <1>3
<1> HIDE DEF t, n
<1>5. \A a \in 1 .. n + 1 : a = n + 1 \/ a \in 1 .. n
  BY <1>1
<1>6. Range(t) = S
  <2>1. \A a \in 1 .. n + 1 : t[a] \in S
    BY <1>1, <1>4, <1>5 DEF S
  <2>2. \A a \in 1 .. n : s[a] = t[a] /\ a \in 1 .. n + 1
    BY <1>1, <1>4
  <2>3. Range(t) = {t[a] : a \in 1 .. n + 1} /\ Range(s) = {s[a] : a \in 1 .. n} /\ n + 1 \in 1 .. n + 1
    BY <1>1, <1>4 DEF Range
  <2>4. Range(s) \subseteq Range(t) /\ e \in Range(t)
    BY <1>4, <2>2, <2>3
  <2>5. Range(t) \subseteq S
    BY <2>1, <2>3
  <2> QED  BY <2>4, <2>5 DEF S
<1>7. IsInjective(t)
  <2> SUFFICES ASSUME NEW a \in 1 .. n + 1, NEW b \in 1 .. n + 1, t[a] = t[b] PROVE a = b
    BY <1>4 DEF IsInjective
  <2>1. CASE a \in 1 .. n /\ b \in 1 .. n
    BY <1>1, <1>4, <2>1 DEF IsInjective
  <2>2. CASE a = n + 1 /\ b \in 1 .. n
    BY <1>1, <1>4, <2>2
  <2>3. CASE b = n + 1 /\ a \in 1 .. n
    BY <1>1, <1>4, <2>3
  <2> QED  BY <1>5, <2>1, <2>2, <2>3
<1>8. n > 0 => t[1] = s[1] /\ s[1] \in Range(s)
  BY <1>1, <1>4
<1> QED  BY <1>4, <1>6, <1>7, <1>8 DEF S, t, n

\* g is h but for what keep-alive k lists.
Lists(g, h, k, s) ==
    /\ Leaves(g, h, {"keys"}) /\ g.keys[k] = s
    /\ \A x \in KeepAlives(h) \ {k} : g.keys[x] = h.keys[x]
    /\ KeepAlives(g) = KeepAlives(h) /\ \A j : ParentOf(g, j) = ParentOf(h, j)

\* The list of the keys is no concern of the instances.
LEMMA KeysOnly ==
    ASSUME NEW h, NEW new, NEW queue, Typed(h), Placed(h, new), Told(h, new, queue), NEW k \in KeepAlives(h), NEW s
    PROVE  LET g == [h EXCEPT !.keys[k] = s]
           IN  Typed(g) /\ Placed(g, new) /\ Told(g, new, queue) /\ Lists(g, h, k, s)
<1> DEFINE g == [h EXCEPT !.keys[k] = s]
<1>1. Leaves(g, h, {"keys"}) /\ g.keys = [h.keys EXCEPT ![k] = s]
  BY FieldsAre DEF Typed, Leaves
<1> HIDE DEF g
<1>2. /\ DOMAIN g = DOMAIN Empty
      /\ g.inst = h.inst /\ g.active = h.active /\ g.inactive = h.inactive /\ g.direct = h.direct
      /\ g.destroyed = h.destroyed /\ g.told = h.told /\ g.cache = h.cache
      /\ g.shown = h.shown /\ g.kept = h.kept /\ g.activated = h.activated
      /\ g.spared = h.spared /\ g.late = h.late /\ g.wrong = h.wrong
  BY <1>1, FieldsAre DEF Typed, Leaves
<1>3. /\ LiveIn(g) = LiveIn(h) /\ KeepAlives(g) = KeepAlives(h)
      /\ \A j : ParentOf(g, j) = ParentOf(h, j)
      /\ \A j : IsCached(g, j) <=> IsCached(h, j)
  BY <1>2 DEF LiveIn, KeepAlives, ComponentOf, ParentOf, IsCached
<1>4. /\ DOMAIN g.keys = KeepAlives(h) /\ g.keys[k] = s
      /\ \A x \in KeepAlives(h) \ {k} : g.keys[x] = h.keys[x]
  BY <1>1 DEF Typed
<1>5. Typed(g)
  BY <1>2, <1>3, <1>4 DEF Typed
<1>6. Placed(g, new)
  BY <1>2, <1>3 DEF Placed
<1>7. Told(g, new, queue)
  <2> SUFFICES ASSUME NEW j \in Judged(g, new) PROVE Hears(g, j, queue)
    BY DEF Told
  <2>1. j \in Judged(h, new)
    BY <1>2, <1>3 DEF Judged
  <2>2. Hears(h, j, queue)
    BY <2>1 DEF Told
  <2>3. Alike(g, h, j, queue, queue)
    BY <1>2, <1>3 DEF Alike
  <2> QED  BY <2>2, <2>3, HearAlike
<1> QED  BY <1>1, <1>3, <1>4, <1>5, <1>6, <1>7 DEF Lists, g

\* What the search for an instance leaves of h.
Searched(g, h, k, key) ==
    /\ g.inst = h.inst /\ KeepAlives(g) = KeepAlives(h) /\ \A j : ParentOf(g, j) = ParentOf(h, j)
    /\ g.kept = h.kept /\ g.activated = h.activated /\ g.late = h.late
    /\ g.shown[k] = h.shown[k] /\ g.shown[0] = h.shown[0]
    /\ h.destroyed \subseteq g.destroyed
    /\ DOMAIN g.cache[0] \subseteq DOMAIN h.cache[0]
    /\ \A x \in DOMAIN g.cache[0] : g.cache[0][x] = h.cache[0][x]
    /\ key \in DOMAIN g.cache[k] <=> key \in DOMAIN h.cache[k]
    /\ k # 0 \/ key \in DOMAIN h.cache[k] => g.cache = h.cache /\ g.shown = h.shown /\ g.destroyed = h.destroyed

\* The key is made the freshest, and the oldest entry goes if there are too many.
LEMMA CachedFits ==
    ASSUME NEW h, NEW queue, Fits(h, -1, queue), NEW k \in KeepAlives(h), NEW key
    PROVE  LET c == Cached(h, k, key)
           IN  /\ Typed(c.h) /\ Placed(c.h, -1) /\ Told(c.h, -1, queue) /\ Listed(c.h, k, key)
               /\ Len(c.h.keys[0]) <= MaxCached
               /\ Searched(c.h, h, k, key)
               /\ c.instance = IF key \in DOMAIN h.cache[k] THEN h.cache[k][key] ELSE 0
<1> DEFINE s == Append(RemoveFirst(h.keys[k], key), key)
           fresh == [h EXCEPT !.keys[k] = s]
           over == k = 0 /\ Len(fresh.keys[k]) > MaxCached
           oldest == fresh.keys[k][1]
           c == Cached(h, k, key)
<1>1. /\ Typed(h) /\ Placed(h, -1) /\ Told(h, -1, queue) /\ Listed(h, -1, Null) /\ Len(h.keys[0]) <= MaxCached
      /\ 0 \in KeepAlives(h)
  BY DEF Fits, KeepAlives
<1>2. k # -1
  BY <1>1 DEF Typed, KeepAlives
<1>3. \A x \in KeepAlives(h) :
         h.keys[x] \in Seq(Range(h.keys[x])) /\ IsInjective(h.keys[x]) /\ Range(h.keys[x]) = DOMAIN h.cache[x]
  <2>1. ASSUME NEW x \in KeepAlives(h) PROVE x # -1
    BY <1>1 DEF Typed, KeepAlives
  <2> QED  BY <1>1, <2>1 DEF Listed
<1>4. /\ s \in Seq(Range(s)) /\ IsInjective(s) /\ Range(s) = DOMAIN h.cache[k] \union {key}
      /\ Len(s) = IF key \in DOMAIN h.cache[k] THEN Len(h.keys[k]) ELSE Len(h.keys[k]) + 1
      /\ key \notin DOMAIN h.cache[k] /\ Len(h.keys[k]) > 0 => s[1] \in DOMAIN h.cache[k]
      /\ Len(h.keys[k]) \in Nat
  <2> DEFINE old == h.keys[k]
             r == RemoveFirst(old, key)
  <2>1. old \in Seq(Range(old)) /\ IsInjective(old) /\ Range(old) = DOMAIN h.cache[k] /\ Len(old) \in Nat
    BY <1>3
  <2> HIDE DEF old
  <2>2. /\ r \in Seq(Range(r)) /\ IsInjective(r) /\ Range(r) = Range(old) \ {key}
        /\ Len(r) = IF key \in Range(old) THEN Len(old) - 1 ELSE Len(old)
    BY <2>1, RemoveFirstIs
  <2> HIDE DEF r
  <2>3. /\ s = Append(r, key) /\ key \notin Range(r)
    BY <2>2 DEF r, old
  <2> HIDE DEF s
  <2>4. /\ s \in Seq(Range(s)) /\ IsInjective(s) /\ Range(s) = Range(r) \union {key}
        /\ Len(s) = Len(r) + 1 /\ (Len(r) > 0 => s[1] = r[1] /\ r[1] \in Range(r))
    BY <2>2, <2>3, AppendIs
  <2> QED  BY <2>1, <2>2, <2>4 DEF old
<1> HIDE DEF s
<1>5. /\ Typed(fresh) /\ Placed(fresh, -1) /\ Told(fresh, -1, queue)
      /\ Leaves(fresh, h, {"keys"}) /\ fresh.keys[k] = s
      /\ \A x \in KeepAlives(h) \ {k} : fresh.keys[x] = h.keys[x]
      /\ KeepAlives(fresh) = KeepAlives(h) /\ \A j : ParentOf(fresh, j) = ParentOf(h, j)
  <2>1. Typed(fresh) /\ Placed(fresh, -1) /\ Told(fresh, -1, queue) /\ Lists(fresh, h, k, s)
    BY <1>1, KeysOnly
  <2> QED  BY <2>1 DEF Lists
<1> HIDE DEF fresh
<1>6. /\ fresh.inst = h.inst /\ fresh.kept = h.kept /\ fresh.activated = h.activated /\ fresh.late = h.late
      /\ fresh.shown = h.shown /\ fresh.destroyed = h.destroyed /\ fresh.cache = h.cache
  BY <1>1, <1>5, FieldsAre DEF Typed, Leaves
<1>7. Listed(fresh, k, key)
  <2> SUFFICES ASSUME NEW x \in KeepAlives(h)
               PROVE  /\ fresh.keys[x] \in Seq(Range(fresh.keys[x])) /\ IsInjective(fresh.keys[x])
                      /\ Range(fresh.keys[x]) = DOMAIN fresh.cache[x] \union (IF x = k THEN {key} ELSE {})
    BY <1>5 DEF Listed
  <2>1. CASE x = k
    BY <1>4, <1>5, <1>6, <2>1
  <2>2. CASE x # k
    BY <1>3, <1>5, <1>6, <2>2
  <2> QED  BY <2>1, <2>2
<1>8. CASE key \in DOMAIN h.cache[k] \/ ~over
  <2>1. c.h = fresh /\ c.instance = IF key \in DOMAIN h.cache[k] THEN h.cache[k][key] ELSE 0
    BY <1>8 DEF Cached, fresh, s
  <2>2. Len(fresh.keys[0]) <= MaxCached
    <3>1. CASE k # 0
      BY <1>1, <1>5, <3>1
    <3>2. CASE k = 0 /\ key \in DOMAIN h.cache[k]
      BY <1>1, <1>4, <1>5, <3>2
    <3>3. CASE k = 0 /\ ~over
      BY <1>4, <1>5, <3>3, MaxAssumption
    <3> QED  BY <1>8, <3>1, <3>2, <3>3
  <2>3. Searched(fresh, h, k, key)
    BY <1>5, <1>6 DEF Searched
  <2> QED  BY <1>5, <1>7, <2>1, <2>2, <2>3
<1>9. CASE key \notin DOMAIN h.cache[k] /\ over
  <2>1. c.h = PruneEntry(fresh, k, oldest, CurrentTag(h, k)) /\ c.instance = 0
    BY <1>9 DEF Cached, fresh, s
  <2>2. k = 0 /\ oldest \in DOMAIN fresh.cache[0] /\ oldest # key
    <3>1. k = 0 /\ Len(h.keys[k]) > 0
      BY <1>1, <1>4, <1>5, <1>9, MaxAssumption
    <3> QED  BY <1>4, <1>5, <1>6, <1>9, <3>1
  <2>3. CurrentTag(h, k) = CurrentTag(fresh, 0)
    BY <1>6, <2>2 DEF CurrentTag, ComponentOf
  <2>4. fresh.cache[0][oldest] # -1
    <3>1. fresh.cache[0][oldest] \in LiveIn(fresh)
      BY <1>1, <1>5, <2>2 DEF Placed
    <3> QED  BY <1>5, <3>1, TwoLevels DEF LiveIn
  <2> HIDE DEF oldest, c
  <2>5. /\ Typed(c.h) /\ Placed(c.h, -1) /\ Told(c.h, -1, queue) /\ Listed(c.h, 0, key)
        /\ Pruned(c.h, fresh, oldest)
    BY <1>5, <1>7, <2>1, <2>2, <2>3, <2>4, PruneFits
  <2>6. Len(c.h.keys[0]) <= MaxCached
    BY <1>1, <1>4, <1>5, <1>9, <2>2, <2>5, MaxAssumption DEF Pruned
  <2>7. Searched(c.h, h, k, key)
    BY <1>5, <1>6, <1>9, <2>2, <2>5 DEF Searched, Pruned
  <2> QED  BY <1>9, <2>1, <2>2, <2>5, <2>6, <2>7 DEF c
<1> QED  BY <1>8, <1>9

-----------------------------------------------------------------------------
(* A new instance. *)

\* r is g with an instance of the component of key, in keep-alive k.
Created(r, g, k, key) ==
    LET i == Len(g.inst) + 1
        nests == Nests(TagOf(key))
    IN  /\ i \in Nat /\ i # 0 /\ i \notin DOMAIN g.inst /\ i + 1 \notin DOMAIN g.inst
        /\ DOMAIN r.inst = DOMAIN g.inst \union {i} \union (IF nests THEN {i + 1} ELSE {})
        /\ \A j \in DOMAIN g.inst : r.inst[j] = g.inst[j]
        /\ r.inst[i] = Instance(key, k) /\ (nests => r.inst[i + 1] = Instance(First, i))
        /\ KeepAlives(r) = KeepAlives(g) \union (IF nests THEN {i} ELSE {})
        /\ r.active = g.active /\ r.inactive = g.inactive /\ r.direct = g.direct
        /\ r.destroyed = g.destroyed /\ r.told = g.told /\ r.activated = g.activated
        /\ r.spared = g.spared /\ r.late = g.late /\ r.wrong = g.wrong
        /\ \A x \in KeepAlives(g) : /\ r.cache[x] = g.cache[x] /\ r.keys[x] = g.keys[x]
                                    /\ r.shown[x] = g.shown[x] /\ r.kept[x] = g.kept[x]
        /\ nests => /\ r.cache[i] = [x \in {First} |-> i + 1] /\ r.keys[i] = <<First>>
                    /\ r.shown[i] = i + 1 /\ r.kept[i] = TRUE

\* What a new instance and the one inside it add to a heap.
LEMMA CreateIs ==
    ASSUME NEW g, Typed(g), NEW k \in KeepAlives(g), NEW key, key \in IF k = 0 THEN Keys ELSE Inner
    PROVE  Typed(CreateInstance(g, k, key)) /\ Created(CreateInstance(g, k, key), g, k, key)
<1> DEFINE i == Len(g.inst) + 1
           one == Append(g.inst, Instance(key, k))
           two == Append(one, Instance(First, i))
           nests == Nests(TagOf(key))
           made == [g EXCEPT !.inst = one]
           r == CreateInstance(g, k, key)
           I == [key : Keys \union Inner, parent : Nat]
<1>1. /\ Len(g.inst) \in Nat /\ DOMAIN g.inst = 1 .. Len(g.inst) /\ g.inst \in Seq(I)
      /\ i \in Nat /\ i # 0 /\ i \notin DOMAIN g.inst /\ i + 1 \notin DOMAIN g.inst
  BY DEF Typed
<1>2. k \in Nat /\ Instance(key, k) \in I /\ Instance(First, i) \in I
  BY <1>1, LevelsAssumption DEF KeepAlives, Instance
<1>3. /\ one \in Seq(I) /\ Len(one) = i /\ DOMAIN one = DOMAIN g.inst \union {i}
      /\ \A j \in DOMAIN g.inst : one[j] = g.inst[j]
      /\ one[i] = Instance(key, k)
  BY <1>1, <1>2
<1> HIDE DEF one
<1>4. /\ two \in Seq(I) /\ DOMAIN two = DOMAIN one \union {i + 1}
      /\ \A j \in DOMAIN one : two[j] = one[j]
      /\ two[i + 1] = Instance(First, i)
  <2>1. Len(one) = i /\ i \in Nat /\ one \in Seq(I)
    BY <1>1, <1>3
  <2> HIDE DEF i, I
  <2>2. Instance(First, i) \in I
    BY <1>2
  <2> DEFINE e == Instance(First, i)
  <2> HIDE DEF e
  <2>3. /\ Append(one, e) \in Seq(I) /\ DOMAIN Append(one, e) = DOMAIN one \union {i + 1}
        /\ \A j \in DOMAIN one : Append(one, e)[j] = one[j]
        /\ Append(one, e)[i + 1] = e
    BY <2>1, <2>2 DEF e
  <2> QED  BY <2>3 DEF e
<1> HIDE DEF two, i
<1>5. k # 0 => ~nests /\ ParentOf(g, k) = 0 /\ k \in DOMAIN g.inst
  <2> SUFFICES ASSUME k # 0 PROVE ~nests /\ ParentOf(g, k) = 0 /\ k \in DOMAIN g.inst
    OBVIOUS
  <2>1. k \in DOMAIN g.inst /\ Nests(ComponentOf(g, k))
    BY DEF KeepAlives
  <2> QED  BY <2>1, LevelsAssumption, TwoLevels
<1>6. /\ DOMAIN made = DOMAIN Empty /\ made.inst = one
      /\ made.active = g.active /\ made.inactive = g.inactive /\ made.direct = g.direct
      /\ made.destroyed = g.destroyed /\ made.told = g.told /\ made.activated = g.activated
      /\ made.spared = g.spared /\ made.late = g.late /\ made.wrong = g.wrong
      /\ made.cache = g.cache /\ made.keys = g.keys /\ made.shown = g.shown /\ made.kept = g.kept
  BY FieldsAre DEF Typed
<1>7. r = IF ~nests THEN made
          ELSE [made EXCEPT !.inst = two,
                   !.cache = With(@, i, [x \in {First} |-> i + 1]), !.keys = With(@, i, <<First>>),
                   !.shown = With(@, i, i + 1), !.kept = With(@, i, TRUE)]
  BY <1>6 DEF CreateInstance, two, one, i
<1> HIDE DEF made, r
<1>8. /\ DOMAIN r = DOMAIN Empty
      /\ r.inst = IF nests THEN two ELSE one
      /\ r.active = g.active /\ r.inactive = g.inactive /\ r.direct = g.direct
      /\ r.destroyed = g.destroyed /\ r.told = g.told /\ r.activated = g.activated
      /\ r.spared = g.spared /\ r.late = g.late /\ r.wrong = g.wrong
  BY <1>6, <1>7, FieldsAre
<1>9. /\ r.cache = IF nests THEN With(g.cache, i, [x \in {First} |-> i + 1]) ELSE g.cache
      /\ r.keys = IF nests THEN With(g.keys, i, <<First>>) ELSE g.keys
      /\ r.shown = IF nests THEN With(g.shown, i, i + 1) ELSE g.shown
      /\ r.kept = IF nests THEN With(g.kept, i, TRUE) ELSE g.kept
  BY <1>6, <1>7, FieldsAre
<1>10. /\ DOMAIN r.inst = DOMAIN g.inst \union {i} \union (IF nests THEN {i + 1} ELSE {})
       /\ \A j \in DOMAIN g.inst : r.inst[j] = g.inst[j]
       /\ r.inst[i] = Instance(key, k) /\ (nests => r.inst[i + 1] = Instance(First, i))
       /\ r.inst \in Seq(I)
  <2>1. CASE nests
    BY <1>3, <1>4, <1>8, <2>1
  <2>2. CASE ~nests
    BY <1>3, <1>8, <2>2
  <2> QED  BY <2>1, <2>2
<1>11. KeepAlives(r) = KeepAlives(g) \union (IF nests THEN {i} ELSE {})
  <2>1. \A j \in DOMAIN g.inst : ComponentOf(r, j) = ComponentOf(g, j)
    BY <1>10 DEF ComponentOf
  <2>2. ComponentOf(r, i) = TagOf(key)
    BY <1>10 DEF ComponentOf, Instance
  <2>3. nests => ~Nests(ComponentOf(r, i + 1))
    BY <1>10, LevelsAssumption DEF ComponentOf, Instance
  <2> QED  BY <1>10, <2>1, <2>2, <2>3 DEF KeepAlives
<1>12. i \notin KeepAlives(g)
  BY <1>1 DEF KeepAlives, i
<1>13. /\ \A x \in KeepAlives(g) : /\ r.cache[x] = g.cache[x] /\ r.keys[x] = g.keys[x]
                                   /\ r.shown[x] = g.shown[x] /\ r.kept[x] = g.kept[x]
       /\ nests => /\ r.cache[i] = [x \in {First} |-> i + 1] /\ r.keys[i] = <<First>>
                   /\ r.shown[i] = i + 1 /\ r.kept[i] = TRUE
       /\ DOMAIN r.cache = KeepAlives(r) /\ DOMAIN r.keys = KeepAlives(r)
       /\ DOMAIN r.shown = KeepAlives(r) /\ DOMAIN r.kept = KeepAlives(r)
  <2>1. CASE nests
    BY <1>9, <1>11, <1>12, <2>1 DEF With, Typed
  <2>2. CASE ~nests
    BY <1>9, <1>11, <2>2 DEF Typed
  <2> QED  BY <2>1, <2>2
<1>14. Created(r, g, k, key)
  BY <1>1, <1>8, <1>10, <1>11, <1>13 DEF Created, i
<1>15. Typed(r)
  <2>1. \A j \in DOMAIN r.inst :
          IF ParentOf(r, j) = 0 THEN r.inst[j].key \in Keys
          ELSE /\ r.inst[j].key \in Inner
               /\ ParentOf(r, j) \in KeepAlives(r) /\ ParentOf(r, ParentOf(r, j)) = 0
    <3> SUFFICES ASSUME NEW j \in DOMAIN r.inst
                 PROVE  IF ParentOf(r, j) = 0 THEN r.inst[j].key \in Keys
                        ELSE /\ r.inst[j].key \in Inner
                             /\ ParentOf(r, j) \in KeepAlives(r) /\ ParentOf(r, ParentOf(r, j)) = 0
      OBVIOUS
    <3>1. \A x \in DOMAIN g.inst : ParentOf(r, x) = ParentOf(g, x)
      BY <1>10 DEF ParentOf
    <3>2. CASE j \in DOMAIN g.inst
      <4>1. /\ ParentOf(r, j) = ParentOf(g, j) /\ r.inst[j].key = g.inst[j].key
            /\ ParentOf(g, j) \in KeepAlives(g)
            /\ ParentOf(g, j) # 0 => ParentOf(g, j) \in DOMAIN g.inst /\ ParentOf(g, ParentOf(g, j)) = 0
        BY <1>10, <3>1, <3>2, TwoLevels
      <4>2. IF ParentOf(g, j) = 0 THEN g.inst[j].key \in Keys ELSE g.inst[j].key \in Inner
        BY <3>2 DEF Typed
      <4> QED  BY <1>11, <3>1, <4>1, <4>2
    <3>3. CASE j = i
      <4>1. ParentOf(r, j) = k /\ r.inst[j].key = key
        BY <1>10, <3>3 DEF ParentOf, Instance
      <4>2. k # 0 => ParentOf(r, k) = 0
        BY <1>5, <3>1
      <4> QED  BY <1>11, <4>1, <4>2
    <3>4. CASE nests /\ j = i + 1
      <4>1. ParentOf(r, j) = i /\ r.inst[j].key = First /\ ParentOf(r, i) = k
        BY <1>10, <3>4 DEF ParentOf, Instance
      <4>2. k = 0
        BY <1>5, <3>4
      <4> QED  BY <1>1, <1>11, <3>4, <4>1, <4>2, LevelsAssumption DEF i
    <3> QED  BY <1>10, <3>2, <3>3, <3>4
  <2>2. UNION {r.active, r.inactive, r.direct, r.destroyed, r.told, r.spared, r.late, r.wrong} \subseteq DOMAIN r.inst
    BY <1>8, <1>10 DEF Typed
  <2>3. r.active \intersect r.inactive = {}
    BY <1>8 DEF Typed
  <2>4. r.activated \in Seq(DOMAIN r.inst)
    <3> DEFINE A == DOMAIN g.inst
               B == DOMAIN r.inst
    <3>1. g.activated \in Seq(A) /\ A \subseteq B
      BY <1>10 DEF Typed
    <3> HIDE DEF A, B
    <3>2. g.activated \in Seq(B)
      BY <3>1
    <3> QED  BY <1>8, <3>2 DEF B
  <2> QED  BY <1>8, <1>10, <1>13, <2>1, <2>2, <2>3, <2>4 DEF Typed
<1> QED  BY <1>14, <1>15 DEF r

\* They fit, but for the new one, which nobody shows yet.
LEMMA CreateFits ==
    ASSUME NEW g, NEW queue, Typed(g), Placed(g, -1), Told(g, -1, queue), queue \subseteq DOMAIN g.inst,
           NEW k \in KeepAlives(g) \ g.destroyed, NEW r, NEW key, Typed(r), Created(r, g, k, key)
    PROVE  LET i == Len(g.inst) + 1
           IN  /\ Placed(r, i) /\ Told(r, i, queue)
               /\ \A at \in {-1} \union KeepAlives(g) : \A x : Listed(g, at, x) => Listed(r, at, x)
               /\ ParentOf(r, i) = k /\ i \in LiveIn(r)
               /\ \A j \in DOMAIN g.inst : ParentOf(r, j) = ParentOf(g, j) /\ (IsCached(r, j) <=> IsCached(g, j))
<1> DEFINE i == Len(g.inst) + 1
           nests == Nests(TagOf(key))
<1>1. /\ i \in Nat /\ i # 0 /\ i \notin DOMAIN g.inst /\ i + 1 \notin DOMAIN g.inst
      /\ DOMAIN r.inst = DOMAIN g.inst \union {i} \union (IF nests THEN {i + 1} ELSE {})
      /\ \A j \in DOMAIN g.inst : r.inst[j] = g.inst[j]
      /\ r.inst[i] = Instance(key, k) /\ (nests => r.inst[i + 1] = Instance(First, i))
      /\ KeepAlives(r) = KeepAlives(g) \union (IF nests THEN {i} ELSE {})
      /\ r.active = g.active /\ r.inactive = g.inactive /\ r.direct = g.direct
      /\ r.destroyed = g.destroyed /\ r.told = g.told
      /\ r.spared = g.spared /\ r.late = g.late /\ r.wrong = g.wrong
      /\ \A x \in KeepAlives(g) : /\ r.cache[x] = g.cache[x] /\ r.keys[x] = g.keys[x]
                                  /\ r.shown[x] = g.shown[x] /\ r.kept[x] = g.kept[x]
      /\ nests => /\ r.cache[i] = [x \in {First} |-> i + 1] /\ r.keys[i] = <<First>>
                  /\ r.shown[i] = i + 1 /\ r.kept[i] = TRUE
  BY DEF Created
<1> HIDE DEF i
<1>2. /\ \A j \in DOMAIN g.inst : ParentOf(r, j) = ParentOf(g, j)
      /\ ParentOf(r, i) = k /\ (nests => ParentOf(r, i + 1) = i)
  BY <1>1 DEF ParentOf, Instance
<1>3. \A j \in DOMAIN g.inst : IsCached(r, j) <=> IsCached(g, j)
  <2> SUFFICES ASSUME NEW j \in DOMAIN g.inst PROVE IsCached(r, j) <=> IsCached(g, j)
    OBVIOUS
  <2>1. ParentOf(g, j) \in KeepAlives(g)
    BY TwoLevels
  <2> QED  BY <1>1, <1>2, <2>1 DEF IsCached
<1>4. nests => IsCached(r, i + 1)
  BY <1>1, <1>2 DEF IsCached, Instance
<1>5. g.destroyed \subseteq DOMAIN g.inst /\ 0 \in KeepAlives(g) /\ 0 \notin DOMAIN g.inst
  BY DEF Typed, KeepAlives
<1>6. LiveIn(r) = LiveIn(g) \union {i} \union (IF nests THEN {i + 1} ELSE {})
  BY <1>1, <1>5 DEF LiveIn
<1>7. LiveIn(g) \subseteq DOMAIN g.inst
  BY DEF LiveIn
<1>8. nests => k = 0
  <2> SUFFICES ASSUME nests, k # 0 PROVE FALSE
    OBVIOUS
  <2>1. i \in DOMAIN r.inst /\ Nests(ComponentOf(r, i))
    BY <1>1 DEF ComponentOf, Instance
  <2> QED  BY <1>2, <2>1, TwoLevels
<1>9. Placed(r, i)
  <2>1. ASSUME NEW x \in KeepAlives(r)
        PROVE  /\ r.shown[x] # 0 => r.shown[x] \in LiveIn(r) /\ ParentOf(r, r.shown[x]) = x
               /\ r.shown[x] # 0 /\ r.kept[x] => IsCached(r, r.shown[x]) \/ (x = 0 /\ r.shown[x] \in r.spared)
               /\ r.shown[x] # 0 /\ x # 0 => r.kept[x]
    <3>1. CASE x \in KeepAlives(g)
      <4>1. /\ g.shown[x] # 0 => g.shown[x] \in LiveIn(g) /\ ParentOf(g, g.shown[x]) = x
            /\ g.shown[x] # 0 /\ g.kept[x] => IsCached(g, g.shown[x]) \/ (x = 0 /\ g.shown[x] \in g.spared)
            /\ g.shown[x] # 0 /\ x # 0 => g.kept[x]
        BY <3>1 DEF Placed
      <4> QED  BY <1>1, <1>2, <1>3, <1>6, <1>7, <3>1, <4>1
    <3>2. CASE nests /\ x = i
      BY <1>1, <1>2, <1>4, <1>6, <3>2
    <3> QED  BY <1>1, <3>1, <3>2
  <2>2. ASSUME NEW x \in KeepAlives(r), NEW y \in DOMAIN r.cache[x]
        PROVE  r.cache[x][y] \in LiveIn(r) /\ r.inst[r.cache[x][y]] = Instance(y, x)
    <3>1. CASE x \in KeepAlives(g)
      <4>1. g.cache[x][y] \in LiveIn(g) /\ g.inst[g.cache[x][y]] = Instance(y, x)
        BY <1>1, <2>2, <3>1 DEF Placed
      <4> QED  BY <1>1, <1>6, <1>7, <3>1, <4>1
    <3>2. CASE nests /\ x = i
      BY <1>1, <1>6, <2>2, <3>2
    <3> QED  BY <1>1, <3>1, <3>2
  <2>3. ASSUME NEW j \in LiveIn(r)
        PROVE  /\ ParentOf(r, j) \notin r.destroyed
               /\ \/ j = i \/ IsCached(r, j)
                  \/ ParentOf(r, j) = 0 /\ (r.shown[0] = j \/ j \in r.spared)
    <3>1. CASE j \in LiveIn(g)
      <4>1. /\ ParentOf(g, j) \notin g.destroyed /\ j # 0
            /\ \/ j = -1 \/ IsCached(g, j)
               \/ ParentOf(g, j) = 0 /\ (g.shown[0] = j \/ j \in g.spared)
        BY <1>5, <1>7, <3>1 DEF Placed
      <4>2. j # -1 /\ g.shown[0] = r.shown[0]
        BY <1>1, <1>5, <1>7, <3>1, TwoLevels
      <4> QED  BY <1>1, <1>2, <1>3, <1>5, <1>7, <3>1, <4>1, <4>2
    <3>2. CASE j = i
      BY <1>1, <1>2, <3>2
    <3>3. CASE nests /\ j = i + 1
      BY <1>1, <1>2, <1>4, <1>5, <3>3
    <3> QED  BY <1>6, <3>1, <3>2, <3>3
  <2> QED  BY <2>1, <2>2, <2>3 DEF Placed
<1>10. Told(r, i, queue)
  <2> SUFFICES ASSUME NEW j \in Judged(r, i) PROVE Hears(r, j, queue)
    BY DEF Told
  <2>1. j \in LiveIn(r) /\ j # i /\ ParentOf(r, j) # i
    BY DEF Judged
  <2>2. j \in LiveIn(g) /\ j \in DOMAIN g.inst
    BY <1>2, <1>6, <1>7, <2>1
  <2>3. /\ ParentOf(r, j) = ParentOf(g, j) /\ ParentOf(g, j) \in KeepAlives(g)
        /\ ParentOf(g, j) # i /\ ParentOf(g, j) # i + 1 /\ j # i + 1
        /\ j # -1 /\ ParentOf(g, j) # -1
    <3>1. ParentOf(g, j) \in KeepAlives(g) /\ (ParentOf(g, j) # 0 => ParentOf(g, j) \in DOMAIN g.inst)
      BY <2>2, TwoLevels
    <3>2. \A x \in DOMAIN g.inst : x # -1
      BY TwoLevels
    <3> QED  BY <1>1, <1>2, <2>2, <3>1, <3>2
  <2>4. j \in Judged(g, -1)
    BY <1>1, <2>1, <2>2, <2>3 DEF Judged
  <2>5. Hears(g, j, queue)
    BY <2>4 DEF Told
  <2>6. Alike(r, g, j, queue, queue)
    BY <1>1, <1>3, <2>2, <2>3 DEF Alike
  <2> QED  BY <2>5, <2>6, HearAlike
<1>11. ASSUME NEW at \in {-1} \union KeepAlives(g), NEW x, Listed(g, at, x) PROVE Listed(r, at, x)
  <2> SUFFICES ASSUME NEW y \in KeepAlives(r)
               PROVE  /\ r.keys[y] \in Seq(Range(r.keys[y])) /\ IsInjective(r.keys[y])
                      /\ Range(r.keys[y]) = DOMAIN r.cache[y] \union (IF y = at THEN {x} ELSE {})
    BY DEF Listed
  <2>1. CASE y \in KeepAlives(g)
    BY <1>1, <1>11, <2>1 DEF Listed
  <2>2. CASE nests /\ y = i
    <3>1. y # at
      BY <1>1, <2>2 DEF KeepAlives
    <3>2. r.keys[y] = <<First>> /\ DOMAIN r.cache[y] = {First}
      BY <1>1, <2>2
    <3>3. DOMAIN <<First>> = {1} /\ Range(<<First>>) = {First}
      BY DEF Range
    <3>4. IsInjective(<<First>>) /\ <<First>> \in Seq({First})
      BY <3>3 DEF IsInjective
    <3> QED  BY <3>1, <3>2, <3>3, <3>4
  <2> QED  BY <1>1, <2>1, <2>2
<1>12. i \in LiveIn(r)
  BY <1>6
<1> QED  BY <1>2, <1>3, <1>9, <1>10, <1>11, <1>12 DEF i

-----------------------------------------------------------------------------
(* An instance is put in the cache. *)

Put(g, k, key, i, late) == [g EXCEPT !.cache[k] = With(@, key, i), !.late = IF late THEN @ \union {i} ELSE @]

PutNew(g, k, key, i) == Put(g, k, key, i, FALSE)
PutLate(g, k, key, i) == Put(g, k, key, i, TRUE)

\* p is g but for the entry of key.
PutIn(p, g, k, key) ==
    /\ p.inst = g.inst /\ p.active = g.active /\ p.inactive = g.inactive /\ p.direct = g.direct
    /\ p.destroyed = g.destroyed /\ p.told = g.told /\ p.keys = g.keys
    /\ p.shown = g.shown /\ p.kept = g.kept /\ p.activated = g.activated /\ p.spared = g.spared /\ p.wrong = g.wrong
    /\ KeepAlives(p) = KeepAlives(g) /\ LiveIn(p) = LiveIn(g)
    /\ \A j : ParentOf(p, j) = ParentOf(g, j)
    /\ DOMAIN p.cache[k] = DOMAIN g.cache[k] \union {key}
    /\ \A x \in DOMAIN g.cache[k] \ {key} : p.cache[k][x] = g.cache[k][x]
    /\ \A y \in KeepAlives(g) \ {k} : p.cache[y] = g.cache[y]

\* The new one gets its place, or one shown already is cached late.
LEMMA PutFits ==
    ASSUME NEW g, NEW new, NEW queue, NEW k \in KeepAlives(g), NEW key,
           Typed(g), Placed(g, new), Told(g, new, queue), Listed(g, k, key), Len(g.keys[0]) <= MaxCached,
           key \notin DOMAIN g.cache[k], NEW i \in LiveIn(g), g.inst[i] = Instance(key, k),
           NEW late \in BOOLEAN, late \/ i = new
    PROVE  LET p == Put(g, k, key, i, late)
           IN  Fits(p, new, queue) /\ IsCached(p, i) /\ PutIn(p, g, k, key)
<1> DEFINE p == Put(g, k, key, i, late)
<1>1. /\ DOMAIN p = DOMAIN Empty
      /\ p.inst = g.inst /\ p.active = g.active /\ p.inactive = g.inactive /\ p.direct = g.direct
      /\ p.destroyed = g.destroyed /\ p.told = g.told /\ p.keys = g.keys
      /\ p.shown = g.shown /\ p.kept = g.kept /\ p.activated = g.activated
      /\ p.spared = g.spared /\ p.wrong = g.wrong
      /\ p.late = IF late THEN g.late \union {i} ELSE g.late
      /\ p.cache = [g.cache EXCEPT ![k] = With(@, key, i)]
  BY FieldsAre DEF Typed, Put
<1> HIDE DEF p
<1>2. /\ KeepAlives(p) = KeepAlives(g) /\ LiveIn(p) = LiveIn(g)
      /\ \A j : ParentOf(p, j) = ParentOf(g, j)
  BY <1>1 DEF KeepAlives, LiveIn, ComponentOf, ParentOf
<1>3. /\ DOMAIN p.cache = KeepAlives(g)
      /\ DOMAIN p.cache[k] = DOMAIN g.cache[k] \union {key} /\ p.cache[k][key] = i
      /\ \A x \in DOMAIN g.cache[k] : p.cache[k][x] = g.cache[k][x]
      /\ \A y \in KeepAlives(g) \ {k} : p.cache[y] = g.cache[y]
  BY <1>1 DEF Typed, With
<1>4. PutIn(p, g, k, key)
  BY <1>1, <1>2, <1>3 DEF PutIn
<1>5. i \in DOMAIN g.inst /\ ParentOf(g, i) = k /\ g.inst[i].key = key
  BY DEF LiveIn, ParentOf, Instance
<1>6. IsCached(p, i)
  BY <1>1, <1>2, <1>3, <1>5 DEF IsCached
<1>7. ASSUME NEW j \in DOMAIN g.inst, j # i PROVE IsCached(p, j) <=> IsCached(g, j)
  <2>1. ParentOf(g, j) \in KeepAlives(g)
    BY TwoLevels
  <2>2. CASE ParentOf(g, j) = k
    BY <1>1, <1>2, <1>3, <1>7, <2>2 DEF IsCached
  <2>3. CASE ParentOf(g, j) # k
    BY <1>1, <1>2, <1>3, <2>1, <2>3 DEF IsCached
  <2> QED  BY <2>2, <2>3
<1>8. Typed(p)
  <2>1. UNION {p.active, p.inactive, p.direct, p.destroyed, p.told, p.spared, p.late, p.wrong} \subseteq DOMAIN p.inst
    BY <1>1, <1>5 DEF Typed
  <2> QED  BY <1>1, <1>2, <1>3, <2>1 DEF Typed
<1>9. Placed(p, new)
  <2>1. ASSUME NEW x \in KeepAlives(p)
        PROVE  /\ p.shown[x] # 0 => p.shown[x] \in LiveIn(p) /\ ParentOf(p, p.shown[x]) = x
               /\ p.shown[x] # 0 /\ p.kept[x] => IsCached(p, p.shown[x]) \/ (x = 0 /\ p.shown[x] \in p.spared)
               /\ p.shown[x] # 0 /\ x # 0 => p.kept[x]
    <3>1. p.shown[x] # 0 => p.shown[x] \in LiveIn(g) /\ p.shown[x] \in DOMAIN g.inst /\ ParentOf(g, p.shown[x]) = x
      BY <1>1, <1>2 DEF Placed, LiveIn
    <3>2. /\ p.shown[x] # 0 /\ p.kept[x] => IsCached(g, p.shown[x]) \/ (x = 0 /\ p.shown[x] \in p.spared)
          /\ p.shown[x] # 0 /\ x # 0 => p.kept[x]
      BY <1>1, <1>2 DEF Placed
    <3> QED  BY <1>2, <1>6, <1>7, <3>1, <3>2
  <2>2. ASSUME NEW x \in KeepAlives(p), NEW y \in DOMAIN p.cache[x]
        PROVE  p.cache[x][y] \in LiveIn(p) /\ p.inst[p.cache[x][y]] = Instance(y, x)
    <3>1. CASE x = k /\ y = key
      BY <1>1, <1>2, <1>3, <3>1
    <3>2. CASE ~(x = k /\ y = key)
      <4>1. x \in KeepAlives(g) /\ y \in DOMAIN g.cache[x] /\ p.cache[x][y] = g.cache[x][y]
        BY <1>2, <1>3, <2>2, <3>2
      <4> QED  BY <1>1, <1>2, <4>1 DEF Placed
    <3> QED  BY <3>1, <3>2
  <2>3. ASSUME NEW j \in LiveIn(p)
        PROVE  /\ ParentOf(p, j) \notin p.destroyed
               /\ \/ j = new \/ IsCached(p, j)
                  \/ ParentOf(p, j) = 0 /\ (p.shown[0] = j \/ j \in p.spared)
    <3>1. j \in LiveIn(g) /\ j \in DOMAIN g.inst
      BY <1>2 DEF LiveIn
    <3>2. /\ ParentOf(g, j) \notin g.destroyed
          /\ \/ j = new \/ IsCached(g, j)
             \/ ParentOf(g, j) = 0 /\ (g.shown[0] = j \/ j \in g.spared)
      BY <3>1 DEF Placed
    <3> QED  BY <1>1, <1>2, <1>6, <1>7, <3>1, <3>2
  <2> QED  BY <2>1, <2>2, <2>3 DEF Placed
<1>10. Told(p, new, queue)
  <2> SUFFICES ASSUME NEW j \in Judged(p, new) PROVE Hears(p, j, queue)
    BY DEF Told
  <2>1. j \in Judged(g, new) /\ j # i /\ j \in DOMAIN g.inst
    BY <1>1, <1>2 DEF Judged, LiveIn
  <2>2. Hears(g, j, queue)
    BY <2>1 DEF Told
  <2>3. Alike(p, g, j, queue, queue)
    BY <1>1, <1>2, <1>7, <2>1 DEF Alike
  <2> QED  BY <2>2, <2>3, HearAlike
<1>11. Listed(p, -1, Null)
  <2> SUFFICES ASSUME NEW x \in KeepAlives(g)
               PROVE  /\ p.keys[x] \in Seq(Range(p.keys[x])) /\ IsInjective(p.keys[x])
                      /\ Range(p.keys[x]) = DOMAIN p.cache[x] \union (IF x = -1 THEN {Null} ELSE {})
    BY <1>2 DEF Listed
  <2>1. x # -1
    BY DEF KeepAlives, Typed
  <2>2. CASE x = k
    BY <1>1, <1>3, <2>1, <2>2 DEF Listed
  <2>3. CASE x # k
    BY <1>1, <1>3, <2>1, <2>3 DEF Listed
  <2> QED  BY <2>2, <2>3
<1> QED  BY <1>1, <1>4, <1>6, <1>8, <1>9, <1>10, <1>11 DEF Fits, p

\* The cache has the key that is listed.
LEMMA ListedAlready ==
    ASSUME NEW g, Typed(g), NEW k \in KeepAlives(g), NEW key, Listed(g, k, key), key \in DOMAIN g.cache[k]
    PROVE  Listed(g, -1, Null)
<1> SUFFICES ASSUME NEW x \in KeepAlives(g)
             PROVE  /\ g.keys[x] \in Seq(Range(g.keys[x])) /\ IsInjective(g.keys[x])
                    /\ Range(g.keys[x]) = DOMAIN g.cache[x] \union (IF x = -1 THEN {Null} ELSE {})
  BY DEF Listed
<1>1. x # -1
  BY DEF KeepAlives, Typed
<1>2. CASE x = k
  BY <1>1, <1>2 DEF Listed
<1>3. CASE x # k
  BY <1>1, <1>3 DEF Listed
<1> QED  BY <1>2, <1>3

-----------------------------------------------------------------------------
(* An instance comes. *)

\* It is active before it has heard so.
LEMMA QueueActivatedIs ==
    ASSUME NEW h, Typed(h), NEW i \in DOMAIN h.inst
    PROVE  LET g == QueueActivated(h, i)
           IN  /\ Typed(g)
               /\ Leaves(g, h, {"active", "inactive", "activated"})
               /\ g.active = h.active \union {i} /\ g.inactive = h.inactive \ {i}
               /\ g.activated = Append(h.activated, i)
<1> DEFINE g == QueueActivated(h, i)
<1>1. /\ Leaves(g, h, {"active", "inactive", "activated"}) /\ DOMAIN g = DOMAIN Empty
      /\ g.active = h.active \union {i} /\ g.inactive = h.inactive \ {i}
      /\ g.activated = Append(h.activated, i)
  BY FieldsAre DEF QueueActivated, Leaves, Typed
<1> HIDE DEF g
<1>2. /\ g.inst = h.inst /\ g.direct = h.direct /\ g.destroyed = h.destroyed /\ g.told = h.told
      /\ g.cache = h.cache /\ g.keys = h.keys /\ g.shown = h.shown /\ g.kept = h.kept
      /\ g.spared = h.spared /\ g.late = h.late /\ g.wrong = h.wrong
  BY <1>1, FieldsAre DEF Typed, Leaves
<1>3. KeepAlives(g) = KeepAlives(h) /\ \A j : ParentOf(g, j) = ParentOf(h, j)
  BY <1>2 DEF KeepAlives, ComponentOf, ParentOf
<1>4. UNION {g.active, g.inactive, g.direct, g.destroyed, g.told, g.spared, g.late, g.wrong} \subseteq DOMAIN g.inst
  BY <1>1, <1>2 DEF Typed
<1>5. g.active \intersect g.inactive = {}
  BY <1>1 DEF Typed
<1>6. g.activated \in Seq(DOMAIN g.inst)
  <2> DEFINE D == DOMAIN h.inst
             s == h.activated
  <2>1. s \in Seq(D) /\ i \in D
    BY DEF Typed
  <2> HIDE DEF D, s
  <2>2. Append(s, i) \in Seq(D)
    BY <2>1
  <2> QED  BY <1>1, <1>2, <2>2 DEF D, s
<1>7. Typed(g)
  BY <1>1, <1>2, <1>3, <1>4, <1>5, <1>6 DEF Typed
<1> QED  BY <1>1, <1>7 DEF g

\* Keep-alive k shows i, and only feelings differ from e otherwise.
Entered(g, e, k, i, kept) ==
    /\ g.inst = e.inst /\ g.destroyed = e.destroyed /\ g.cache = e.cache /\ g.keys = e.keys
    /\ g.spared = e.spared /\ g.late = e.late
    /\ g.shown[k] = i /\ g.kept[k] = kept
    /\ \A x \in KeepAlives(e) \ {k} : g.shown[x] = e.shown[x] /\ g.kept[x] = e.kept[x]

\* As Entered, of one that is new, or kept and cached.
LEMMA EnteredPlaces ==
    ASSUME NEW e, NEW new, Typed(e), Placed(e, new), Listed(e, -1, Null), NEW k \in KeepAlives(e),
           e.shown[k] = 0, NEW i \in LiveIn(e), ParentOf(e, i) = k, NEW kept \in BOOLEAN,
           IF kept THEN IsCached(e, i) ELSE k = 0, new \in {i, -1},
           NEW g, Entered(g, e, k, i, kept)
    PROVE  /\ Placed(g, -1) /\ Listed(g, -1, Null)
           /\ KeepAlives(g) = KeepAlives(e) /\ LiveIn(g) = LiveIn(e)
           /\ \A j : ParentOf(g, j) = ParentOf(e, j)
           /\ \A j : IsCached(g, j) <=> IsCached(e, j)
<1>1. /\ g.inst = e.inst /\ g.destroyed = e.destroyed /\ g.cache = e.cache /\ g.keys = e.keys
      /\ g.spared = e.spared /\ g.late = e.late
      /\ g.shown[k] = i /\ g.kept[k] = kept
      /\ \A x \in KeepAlives(e) \ {k} : g.shown[x] = e.shown[x] /\ g.kept[x] = e.kept[x]
  BY DEF Entered
<1>2. /\ KeepAlives(g) = KeepAlives(e) /\ LiveIn(g) = LiveIn(e)
      /\ \A j : ParentOf(g, j) = ParentOf(e, j)
      /\ \A j : IsCached(g, j) <=> IsCached(e, j)
  BY <1>1 DEF KeepAlives, LiveIn, ComponentOf, ParentOf, IsCached
<1>3. Listed(g, -1, Null)
  BY <1>1, <1>2 DEF Listed
<1>4. ASSUME NEW x \in KeepAlives(g)
      PROVE  /\ g.shown[x] # 0 => g.shown[x] \in LiveIn(g) /\ ParentOf(g, g.shown[x]) = x
             /\ g.shown[x] # 0 /\ g.kept[x] => IsCached(g, g.shown[x]) \/ (x = 0 /\ g.shown[x] \in g.spared)
             /\ g.shown[x] # 0 /\ x # 0 => g.kept[x]
  <2>1. CASE x = k
    BY <1>1, <1>2, <2>1
  <2>2. CASE x # k
    BY <1>1, <1>2, <2>2 DEF Placed
  <2> QED  BY <2>1, <2>2
<1>5. ASSUME NEW x \in KeepAlives(g), NEW y \in DOMAIN g.cache[x]
      PROVE  g.cache[x][y] \in LiveIn(g) /\ g.inst[g.cache[x][y]] = Instance(y, x)
  BY <1>1, <1>2, <1>5 DEF Placed
<1>6. ASSUME NEW j \in LiveIn(g)
      PROVE  /\ ParentOf(g, j) \notin g.destroyed
             /\ \/ j = -1 \/ IsCached(g, j)
                \/ ParentOf(g, j) = 0 /\ (g.shown[0] = j \/ j \in g.spared)
  <2>1. j \in LiveIn(e) /\ j # 0 /\ j # -1
    BY <1>2, TwoLevels DEF LiveIn
  <2>2. /\ ParentOf(e, j) \notin e.destroyed
        /\ \/ j = new \/ IsCached(e, j)
           \/ ParentOf(e, j) = 0 /\ (e.shown[0] = j \/ j \in e.spared)
    BY <2>1 DEF Placed
  <2>3. CASE j = i
    BY <1>1, <1>2, <2>2, <2>3
  <2>4. CASE j # i
    <3>1. e.shown[0] = j => g.shown[0] = j
      BY <1>1, <2>1 DEF KeepAlives
    <3> QED  BY <1>1, <1>2, <2>1, <2>2, <2>4, <3>1
  <2> QED  BY <2>3, <2>4
<1>7. Placed(g, -1)
  BY <1>4, <1>5, <1>6 DEF Placed
<1> QED  BY <1>2, <1>3, <1>7

\* g is e after i came; if it is kept, and the root is mounted, a hook waits for it.
Came(g, e, queue, k, i, kept, mounted) ==
    /\ Fits(g, -1, IF kept /\ mounted THEN queue \union {i} ELSE queue)
    /\ Entered(g, e, k, i, kept)
    /\ g.activated = IF kept /\ mounted THEN Append(e.activated, i) ELSE e.activated

\* One that was kept comes back.
LEMMA EnterKept ==
    ASSUME NEW e, NEW queue, Fits(e, -1, queue), NEW k \in KeepAlives(e), e.shown[k] = 0,
           NEW i \in LiveIn(e), ParentOf(e, i) = k, IsCached(e, i), i \notin queue,
           NEW kept \in BOOLEAN, NEW mounted \in BOOLEAN, kept /\ mounted
    PROVE  Came(QueueActivated(Showing(e, k, i, kept), i), e, queue, k, i, kept, mounted)
<1> DEFINE s == Showing(e, k, i, kept)
           g == QueueActivated(s, i)
           r == queue \union {i}
<1>1. /\ Typed(e) /\ Placed(e, -1) /\ Told(e, -1, queue) /\ Listed(e, -1, Null) /\ Len(e.keys[0]) <= MaxCached
      /\ i \in DOMAIN e.inst /\ 0 \in KeepAlives(e)
  BY DEF Fits, LiveIn, KeepAlives
<1>2. Shows(s, e, k, i, kept)
  BY <1>1, ShowingIs
<1> HIDE DEF s
<1>3. i \in DOMAIN s.inst /\ Typed(s)
  BY <1>1, <1>2 DEF Shows
<1>4. /\ Typed(g)
      /\ Leaves(g, s, {"active", "inactive", "activated"})
      /\ g.active = s.active \union {i} /\ g.inactive = s.inactive \ {i}
      /\ g.activated = Append(s.activated, i)
  BY <1>3, QueueActivatedIs
<1> HIDE DEF g
<1>5. /\ g.inst = s.inst /\ g.direct = s.direct /\ g.destroyed = s.destroyed /\ g.told = s.told
      /\ g.cache = s.cache /\ g.keys = s.keys /\ g.shown = s.shown /\ g.kept = s.kept
      /\ g.spared = s.spared /\ g.late = s.late /\ g.wrong = s.wrong
  BY <1>3, <1>4, FieldsAre DEF Typed, Leaves
<1>6. Entered(g, e, k, i, kept)
  BY <1>2, <1>5, ZenonT(60) DEF Entered, Shows
<1>7. /\ Placed(g, -1) /\ Listed(g, -1, Null)
      /\ KeepAlives(g) = KeepAlives(e) /\ LiveIn(g) = LiveIn(e)
      /\ \A j : ParentOf(g, j) = ParentOf(e, j)
      /\ \A j : IsCached(g, j) <=> IsCached(e, j)
  BY <1>1, <1>6, EnteredPlaces
<1>8. /\ g.active = e.active \union {i} /\ g.inactive = e.inactive \ {i} /\ g.direct = e.direct
      /\ g.told = e.told /\ g.wrong = e.wrong /\ g.spared = e.spared /\ g.late = e.late
      /\ g.activated = Append(e.activated, i)
      /\ g.shown[k] = i /\ \A x \in KeepAlives(e) \ {k} : g.shown[x] = e.shown[x]
  BY <1>2, <1>4, <1>5 DEF Shows
<1>9. Told(g, -1, r)
  <2> SUFFICES ASSUME NEW j \in Judged(g, -1) PROVE Hears(g, j, r)
    BY DEF Told
  <2> DEFINE p == ParentOf(e, j)
  <2>1. j \in Judged(e, -1)
    BY <1>7, <1>8 DEF Judged
  <2>2. Hears(e, j, queue) /\ j \in DOMAIN e.inst
    BY <1>1, <2>1 DEF Told, Judged, LiveIn
  <2>3. /\ p \in KeepAlives(e) /\ p # j /\ j # 0 /\ ParentOf(g, j) = p
        /\ IsCached(g, j) <=> IsCached(e, j)
    BY <1>1, <1>7, <2>2, TwoLevels
  <2>4. CASE j = i
    <3>1. p = k /\ e.shown[p] # j
      BY <2>3, <2>4
    <3>2. j \notin e.wrong /\ j \in e.direct /\ j \notin e.active /\ j \notin e.told
      BY <2>2, <3>1 DEF Hears
    <3>3. p # 0 => p \notin g.inactive \/ j \notin g.told
      BY <1>8, <3>2
    <3> QED  BY <1>8, <2>3, <2>4, <3>1, <3>2, <3>3 DEF Hears
  <2>5. CASE j # i /\ p = i
    <3>1. p # 0 /\ g.shown[p] = e.shown[p]
      BY <1>1, <1>8, <2>3, <2>5, TwoLevels
    <3>2. p \notin g.inactive /\ p \in r
      BY <1>8, <2>5
    <3>3. /\ j \notin g.wrong /\ (j \in g.active <=> j \in e.active) /\ (j \in g.inactive <=> j \in e.inactive)
          /\ (j \in g.told <=> j \in e.told) /\ (j \in g.direct <=> j \in e.direct) /\ (j \in r <=> j \in queue)
      BY <1>8, <2>2, <2>5 DEF Hears
    <3> HIDE DEF p, r
    <3>4. p = ParentOf(e, j)
      BY DEF p
    <3>5. /\ j \in g.active <=> j \in g.told \union r
          /\ ~(j \in g.told /\ j \in r)
          /\ j \in g.direct => g.shown[p] # j \/ j \in r
          /\ g.shown[p] # j => j \in g.direct /\ j \notin g.active
          /\ IsCached(g, j) => j \in g.active \union g.inactive
      BY <2>2, <2>3, <3>1, <3>3, <3>4 DEF Hears
    <3> QED  BY <2>3, <3>1, <3>2, <3>3, <3>5 DEF Hears
  <2>6. CASE j # i /\ p # i
    <3>1. g.shown[p] = j <=> e.shown[p] = j
      BY <1>8, <2>3, <2>6
    <3>2. Alike(g, e, j, r, queue)
      BY <1>7, <1>8, <2>6, <3>1 DEF Alike
    <3> QED  BY <2>2, <3>2, HearAlike
  <2> QED  BY <2>4, <2>5, <2>6
<1>10. Len(g.keys[0]) <= MaxCached
  BY <1>1, <1>2, <1>5 DEF Shows
<1> QED  BY <1>4, <1>6, <1>7, <1>8, <1>9, <1>10 DEF Fits, Came, g, s

\* An instance that nobody has told anything.
Fresh(h, i, queue) == i \notin h.active \union h.inactive \union h.direct \union h.told \union h.wrong \union queue

\* The only one inside i is as new as i.
HoldsFresh(h, i, queue) ==
    Nests(ComponentOf(h, i)) =>
       /\ i + 1 \in LiveIn(h) /\ ParentOf(h, i + 1) = i /\ h.shown[i] = i + 1
       /\ Fresh(h, i + 1, queue) /\ \A j \in LiveIn(h) : ParentOf(h, j) = i => j = i + 1

InsertNew(h, i, kept, mounted) == Insert(h, i, TRUE, kept, mounted)

\* A new one comes, after the one inside it.
LEMMA EnterNew ==
    ASSUME NEW e, NEW queue, NEW i, Fits(e, i, queue), NEW k \in KeepAlives(e), e.shown[k] = 0,
           i \in LiveIn(e), ParentOf(e, i) = k, Fresh(e, i, queue),
           NEW kept \in BOOLEAN, IF kept THEN IsCached(e, i) ELSE k = 0 /\ ~IsCached(e, i),
           HoldsFresh(e, i, queue),
           NEW mounted \in BOOLEAN, ~mounted => k = 0
    PROVE  Came(InsertNew(Showing(e, k, i, kept), i, kept, mounted), e, queue, k, i, kept, mounted)
<1> DEFINE s == Showing(e, k, i, kept)
           g == InsertNew(s, i, kept, mounted)
           nests == Nests(ComponentOf(e, i))
           kid == IF nests THEN {i + 1} ELSE {}
           inside == IF nests THEN Activate(s, i + 1) ELSE s
           r == IF kept /\ mounted THEN queue \union {i} ELSE queue
           now == IF kept /\ ~mounted THEN {i} ELSE {}
<1> USE DEF HoldsFresh
<1>1. /\ Typed(e) /\ Placed(e, i) /\ Told(e, i, queue) /\ Listed(e, -1, Null) /\ Len(e.keys[0]) <= MaxCached
      /\ i \in DOMAIN e.inst /\ 0 \in KeepAlives(e)
  BY DEF Fits, LiveIn, KeepAlives
<1>2. Shows(s, e, k, i, kept)
  BY <1>1, ShowingIs
<1>3. /\ k # i /\ i # 0
      /\ nests => i + 1 \in DOMAIN e.inst /\ i + 1 # 0 /\ i + 1 # i /\ k = 0 /\ i \in KeepAlives(e)
      /\ \A j \in LiveIn(e) : ParentOf(e, j) = i => j \in kid
      /\ 0 \notin e.inactive
  <2>1. k # i /\ i # 0 /\ 0 \notin e.inactive
    BY <1>1, TwoLevels DEF Typed
  <2>2. nests => i + 1 \in DOMAIN e.inst /\ i + 1 # 0 /\ i + 1 # i /\ k = 0 /\ i \in KeepAlives(e)
    BY <1>1, TwoLevels DEF LiveIn, KeepAlives
  <2>3. ASSUME NEW j \in LiveIn(e), ParentOf(e, j) = i PROVE j \in kid
    <3>1. nests
      BY <1>1, <2>1, <2>3, TwoLevels DEF LiveIn, KeepAlives
    <3> QED  BY <2>3, <3>1
  <2> QED  BY <2>1, <2>2, <2>3
<1>4. \A j \in DOMAIN e.inst : nests => ParentOf(e, j) # i + 1
  BY <1>1, <1>3, TwoLevels
<1> HIDE DEF s
<1>5. /\ s.inst = e.inst /\ s.active = e.active /\ s.inactive = e.inactive /\ s.direct = e.direct
      /\ s.destroyed = e.destroyed /\ s.told = e.told /\ s.wrong = e.wrong /\ s.activated = e.activated /\ Typed(s)
      /\ \A j : ParentOf(s, j) = ParentOf(e, j)
      /\ ComponentOf(s, i) = ComponentOf(e, i)
      /\ LiveIn(s) = LiveIn(e)
  BY <1>2 DEF Shows, ComponentOf
<1>6. /\ Typed(inside) /\ Entered(inside, e, k, i, kept) /\ inside.activated = e.activated
      /\ inside.active = e.active \union kid /\ inside.inactive = e.inactive /\ inside.direct = e.direct
      /\ inside.told = e.told \union kid /\ inside.wrong = e.wrong
  <2>1. CASE ~nests
    <3>1. inside = s /\ kid = {}
      BY <2>1
    <3> QED  BY <1>2, <1>5, <3>1 DEF Shows, Entered
  <2>2. CASE nests
    <3>1. Wakers(s, i + 1) = {i + 1}
      <4>1. ~IsInInactiveTree(s, i + 1) /\ i + 1 \notin s.active
        BY <1>5, <2>2 DEF IsInInactiveTree, Fresh
      <4>2. ChildrenOf(s, i + 1) = {}
        BY <1>4, <1>5, <2>2 DEF ChildrenOf
      <4> QED  BY <4>1, <4>2 DEF Wakers
    <3> DEFINE x == i + 1
    <3>2. inside = Activate(s, x) /\ kid = {x} /\ x \in DOMAIN s.inst
      BY <1>3, <1>5, <2>2
    <3> HIDE DEF inside, kid
    <3>3. /\ Leaves(inside, s, {"active", "inactive", "direct", "told", "wrong"})
          /\ inside.direct = s.direct \ {x}
          /\ inside.active = s.active \union Wakers(s, x) /\ inside.inactive = s.inactive \ Wakers(s, x)
          /\ inside.told = s.told \union Wakers(s, x)
          /\ inside.wrong = s.wrong \union (Wakers(s, x) \intersect s.told)
      BY <1>5, <3>2, ActivateIs
    <3>4. x \notin e.active /\ x \notin e.inactive /\ x \notin e.direct /\ x \notin e.told /\ x \notin e.wrong
      BY <2>2 DEF Fresh
    <3>5. /\ inside.active = e.active \union kid /\ inside.inactive = e.inactive /\ inside.direct = e.direct
          /\ inside.told = e.told \union kid /\ inside.wrong = e.wrong
      <4>1. Wakers(s, x) = kid
        BY <3>1, <3>2
      <4> HIDE DEF x
      <4>2. inside.active = e.active \union kid /\ inside.told = e.told \union kid
        BY <1>5, <3>3, <4>1
      <4>3. inside.inactive = e.inactive /\ inside.direct = e.direct
        BY <1>5, <3>2, <3>3, <3>4, <4>1
      <4>4. inside.wrong = e.wrong
        BY <1>5, <3>2, <3>3, <3>4, <4>1
      <4> QED  BY <4>2, <4>3, <4>4
    <3>6. /\ UNION {inside.active, inside.inactive, inside.direct, inside.told, inside.wrong} \subseteq DOMAIN s.inst
          /\ inside.active \intersect inside.inactive = {}
      BY <1>5, <3>2, <3>4, <3>5 DEF Typed
    <3>7. /\ Typed(inside)
          /\ inside.inst = s.inst /\ inside.destroyed = s.destroyed /\ inside.cache = s.cache
          /\ inside.keys = s.keys /\ inside.shown = s.shown /\ inside.kept = s.kept
          /\ inside.activated = s.activated /\ inside.spared = s.spared /\ inside.late = s.late
      BY <1>5, <3>3, <3>6, FeelingsOnly DEF Feelings
    <3>8. Entered(inside, e, k, i, kept)
      BY <1>2, <3>7 DEF Entered, Shows
    <3> QED  BY <1>5, <3>5, <3>7, <3>8
  <2> QED  BY <2>1, <2>2
<1>7. g = IF ~kept THEN inside ELSE IF mounted THEN QueueActivated(inside, i) ELSE Activate(inside, i)
  BY <1>5 DEF Insert, InsertNew
<1> HIDE DEF inside, g
<1>8. /\ inside.inst = e.inst /\ inside.destroyed = e.destroyed
      /\ \A j : ParentOf(inside, j) = ParentOf(e, j)
  BY <1>6 DEF Entered, ParentOf
<1>9. /\ Typed(g) /\ Entered(g, e, k, i, kept)
      /\ g.activated = IF kept /\ mounted THEN Append(e.activated, i) ELSE e.activated
      /\ g.active = e.active \union kid \union (IF kept THEN {i} ELSE {})
      /\ g.inactive = e.inactive /\ g.direct = e.direct
      /\ g.told = e.told \union kid \union now /\ g.wrong = e.wrong
  <2>0. i \notin e.active /\ i \notin e.inactive /\ i \notin e.direct /\ i \notin e.told /\ i \notin e.wrong
        /\ i \notin kid
    BY <1>3 DEF Fresh
  <2>1. CASE ~kept
    BY <1>6, <1>7, <2>1
  <2>2. CASE kept /\ mounted
    <3>1. g = QueueActivated(inside, i) /\ Typed(inside) /\ i \in DOMAIN inside.inst
      BY <1>1, <1>6, <1>7, <1>8, <2>2
    <3>2. /\ Typed(g)
          /\ Leaves(g, inside, {"active", "inactive", "activated"})
          /\ g.active = inside.active \union {i} /\ g.inactive = inside.inactive \ {i}
          /\ g.activated = Append(inside.activated, i)
      BY <3>1, QueueActivatedIs
    <3>3. /\ g.inst = inside.inst /\ g.direct = inside.direct /\ g.destroyed = inside.destroyed /\ g.told = inside.told
          /\ g.cache = inside.cache /\ g.keys = inside.keys /\ g.shown = inside.shown /\ g.kept = inside.kept
          /\ g.spared = inside.spared /\ g.late = inside.late /\ g.wrong = inside.wrong
      BY <3>1, <3>2, FieldsAre DEF Typed, Leaves
    <3>4. Entered(g, e, k, i, kept)
      BY <1>6, <3>3 DEF Entered
    <3> QED  BY <1>6, <2>0, <2>2, <3>2, <3>3, <3>4
  <2>3. CASE kept /\ ~mounted
    <3>1. g = Activate(inside, i) /\ Typed(inside) /\ i \in DOMAIN inside.inst /\ k = 0
      BY <1>1, <1>6, <1>7, <1>8, <2>3
    <3>2. Wakers(inside, i) = {i}
      <4>1. ~IsInInactiveTree(inside, i) /\ i \notin inside.active
        BY <1>3, <1>6, <1>8, <2>0, <3>1 DEF IsInInactiveTree
      <4>2. ChildrenOf(inside, i) \subseteq kid
        BY <1>3, <1>8 DEF ChildrenOf, LiveIn
      <4> QED  BY <1>6, <4>1, <4>2 DEF Wakers
    <3>3. /\ Leaves(g, inside, {"active", "inactive", "direct", "told", "wrong"})
          /\ g.direct = inside.direct \ {i}
          /\ g.active = inside.active \union Wakers(inside, i) /\ g.inactive = inside.inactive \ Wakers(inside, i)
          /\ g.told = inside.told \union Wakers(inside, i)
          /\ g.wrong = inside.wrong \union (Wakers(inside, i) \intersect inside.told)
      BY <3>1, ActivateIs
    <3>4. /\ g.active = e.active \union kid \union {i} /\ g.inactive = e.inactive /\ g.direct = e.direct
          /\ g.told = e.told \union kid \union {i} /\ g.wrong = e.wrong
      BY <1>6, <2>0, <3>2, <3>3
    <3>5. /\ UNION {g.active, g.inactive, g.direct, g.told, g.wrong} \subseteq DOMAIN inside.inst
          /\ g.active \intersect g.inactive = {}
      BY <1>6, <2>0, <3>1, <3>4 DEF Typed
    <3>6. /\ Typed(g)
          /\ g.inst = inside.inst /\ g.destroyed = inside.destroyed /\ g.cache = inside.cache
          /\ g.keys = inside.keys /\ g.shown = inside.shown /\ g.kept = inside.kept
          /\ g.activated = inside.activated /\ g.spared = inside.spared /\ g.late = inside.late
      BY <1>6, <3>3, <3>5, FeelingsOnly DEF Feelings
    <3>7. Entered(g, e, k, i, kept)
      BY <1>6, <3>6 DEF Entered
    <3> QED  BY <1>6, <2>3, <3>4, <3>6, <3>7
  <2> QED  BY <2>1, <2>2, <2>3
<1>10. /\ Placed(g, -1) /\ Listed(g, -1, Null)
       /\ KeepAlives(g) = KeepAlives(e) /\ LiveIn(g) = LiveIn(e)
       /\ \A j : ParentOf(g, j) = ParentOf(e, j)
       /\ \A j : IsCached(g, j) <=> IsCached(e, j)
  BY <1>1, <1>9, EnteredPlaces
<1>11. /\ g.spared = e.spared /\ g.late = e.late /\ g.keys = e.keys
       /\ g.shown[k] = i /\ \A x \in KeepAlives(e) \ {k} : g.shown[x] = e.shown[x]
  BY <1>9 DEF Entered
<1>12. Told(g, -1, r)
  <2> SUFFICES ASSUME NEW j \in Judged(g, -1) PROVE Hears(g, j, r)
    BY DEF Told
  <2> DEFINE p == ParentOf(e, j)
  <2>1. j \in LiveIn(e) /\ j \in DOMAIN e.inst /\ {j, p} \intersect (e.late \union e.spared) = {}
    BY <1>10, <1>11 DEF Judged, LiveIn
  <2>2. /\ p \in KeepAlives(e) /\ p # j /\ j # 0 /\ ParentOf(g, j) = p
        /\ IsCached(g, j) <=> IsCached(e, j)
    BY <1>1, <1>10, <2>1, TwoLevels
  <2>3. CASE j = i
    <3>1. p = k /\ g.shown[p] = j
      BY <1>11, <2>3
    <3>2. /\ j \notin g.wrong /\ (j \in g.active <=> kept) /\ (j \in g.told <=> kept /\ ~mounted)
          /\ (j \in r <=> kept /\ mounted) /\ j \notin g.direct /\ j \notin g.inactive
      BY <1>3, <1>9, <2>3 DEF Fresh
    <3>3. IsCached(g, j) <=> kept
      BY <1>10, <2>3
    <3>4. p # 0 => kept /\ mounted
      BY <3>1
    <3> HIDE DEF p, r
    <3> QED  BY <2>2, <3>1, <3>2, <3>3, <3>4 DEF Hears
  <2>4. CASE j # i /\ p = i
    <3>1. nests /\ j = i + 1
      BY <1>3, <2>1, <2>4
    <3>2. p # 0 /\ g.shown[p] = j
      BY <1>3, <1>11, <2>4, <3>1
    <3>3. /\ j \notin g.wrong /\ j \in g.active /\ j \in g.told /\ j \notin g.inactive
          /\ j \notin r /\ j \notin g.direct
      BY <1>3, <1>9, <3>1 DEF Fresh
    <3>4. p \notin g.inactive
      BY <1>9, <2>4 DEF Fresh
    <3> HIDE DEF p, r
    <3> QED  BY <2>2, <3>2, <3>3, <3>4 DEF Hears
  <2>5. CASE j # i /\ p # i
    <3>1. j \in Judged(e, i)
      BY <2>1, <2>5 DEF Judged
    <3>2. Hears(e, j, queue)
      BY <1>1, <3>1 DEF Told
    <3>3. j \notin kid /\ p \notin kid
      <4>1. nests => ParentOf(e, i + 1) = i /\ p # i + 1
        BY <1>4, <2>1
      <4> QED  BY <2>5, <4>1
    <3>4. g.shown[p] = j <=> e.shown[p] = j
      BY <1>11, <2>2, <2>5
    <3>5. Alike(g, e, j, r, queue)
      BY <1>9, <1>10, <2>5, <3>3, <3>4 DEF Alike
    <3> QED  BY <3>2, <3>5, HearAlike
  <2> QED  BY <2>3, <2>4, <2>5
<1> QED  BY <1>1, <1>9, <1>10, <1>11, <1>12 DEF Fits, Came, g, s

-----------------------------------------------------------------------------
(* A turn of a render watcher. *)

\* To show nothing in between makes no difference.
LEMMA ShowingTwice ==
    ASSUME NEW d, NEW k, NEW i, NEW kept
    PROVE  Showing(d, k, i, kept) = Showing(Emptying(d, k), k, i, kept)
BY DEF Showing, Emptying

\* Keep-alive k may be rendered.
Ready(h, k) ==
    /\ k \in KeepAlives(h) \ h.destroyed
    /\ IsInjective(h.activated) /\ \A i \in Range(h.activated) : ParentOf(h, i) # k
    /\ k = 0 => /\ h.activated = <<>>
                /\ h.shown[0] # 0 /\ ~h.kept[0] => h.inst[h.shown[0]].key \notin DOMAIN h.cache[0]

\* What rendering keep-alive k makes of h.
Rendered(g, h, k, key, kept, mounted) ==
    /\ KeepAlives(h) \subseteq KeepAlives(g)
    /\ DOMAIN h.inst \subseteq DOMAIN g.inst /\ \A j \in DOMAIN h.inst : g.inst[j] = h.inst[j]
    /\ h.destroyed \subseteq g.destroyed
    /\ \/ g.activated = h.activated
       \/ mounted /\ \E i \in DOMAIN g.inst : ParentOf(g, i) = k /\ g.activated = Append(h.activated, i)
    /\ IsInjective(g.activated)
    /\ g.shown[k] # 0 => key # Null /\ g.inst[g.shown[k]].key = key
    /\ g.shown[k] # 0 => g.kept[k] = kept
    /\ kept /\ g.shown[k] # 0 => IsCached(g, g.shown[k])
    /\ DOMAIN g.cache[0] \subseteq DOMAIN h.cache[0] \union (IF k = 0 /\ kept THEN {key} ELSE {})
    /\ k # 0 => g.shown[0] = h.shown[0] /\ g.kept[0] = h.kept[0] /\ g.cache[0] = h.cache[0]

\* One more waits for its hook.
LEMMA QueueIs ==
    ASSUME NEW h, Typed(h), IsInjective(h.activated), NEW i, i \notin Range(h.activated)
    PROVE  /\ Range(Append(h.activated, i)) = Range(h.activated) \union {i}
           /\ IsInjective(Append(h.activated, i))
<1> DEFINE s == h.activated
           D == DOMAIN h.inst
<1>1. s \in Seq(D)
  BY DEF Typed
<1> HIDE DEF s, D
<1>2. Len(s) \in Nat /\ s = [x \in 1 .. Len(s) |-> s[x]] /\ DOMAIN s = 1 .. Len(s)
  BY <1>1
<1>3. \A x \in 1 .. Len(s) : s[x] \in Range(s)
  BY <1>2 DEF Range
<1>4. s \in Seq(Range(s))
  BY <1>2, <1>3, IsASeq
<1>5. IsInjective(s) /\ i \notin Range(s)
  BY DEF s
<1>6. Range(Append(s, i)) = Range(s) \union {i} /\ IsInjective(Append(s, i))
  BY <1>4, <1>5, AppendIs
<1> QED  BY <1>6 DEF s

\* A new instance comes.
LEMMA RenderNew ==
    ASSUME NEW h, NEW k, Ready(h, k), NEW key \in IF k = 0 THEN Keys ELSE Inner, NEW kept \in BOOLEAN,
           Typed(h), Placed(h, -1), Told(h, -1, Range(h.activated)), Len(h.keys[0]) <= MaxCached,
           IF kept THEN Listed(h, k, key) /\ key \notin DOMAIN h.cache[k]
           ELSE Listed(h, -1, Null) /\ k = 0,
           ~Same(h, k, key), NEW mounted \in BOOLEAN, ~mounted => k = 0
    PROVE  LET r == CreateInstance(h, k, key)
               i == Len(h.inst) + 1
               put == IF kept THEN PutNew(r, k, key, i) ELSE r
               g == InsertNew(Showing(DestroyHook(put, k), k, i, kept), i, kept, mounted)
           IN  Fits(g, -1, Range(g.activated)) /\ Rendered(g, h, k, key, kept, mounted)
<1> DEFINE r == CreateInstance(h, k, key)
           i == Len(h.inst) + 1
           put == IF kept THEN PutNew(r, k, key, i) ELSE r
           e == Emptying(DestroyHook(put, k), k)
           g == InsertNew(Showing(DestroyHook(put, k), k, i, kept), i, kept, mounted)
           queue == Range(h.activated)
           nests == Nests(TagOf(key))
           old == h.shown[k]
<1>1. k \in KeepAlives(h) \ h.destroyed /\ k \in KeepAlives(h) /\ 0 \in KeepAlives(h)
  BY DEF Ready, KeepAlives
<1>2. queue \subseteq DOMAIN h.inst /\ Len(h.inst) \in Nat
  <2> DEFINE s == h.activated
             D == DOMAIN h.inst
  <2>1. s \in Seq(D) /\ Len(h.inst) \in Nat
    BY DEF Typed
  <2> HIDE DEF s, D
  <2>2. \A x \in DOMAIN s : s[x] \in D
    BY <2>1
  <2> QED  BY <2>1, <2>2 DEF Range, s, D
<1> HIDE DEF r, queue
<1>3. Typed(r) /\ Created(r, h, k, key)
  BY <1>1, CreateIs DEF r
<1>4. /\ i \in Nat /\ i # 0 /\ i \notin DOMAIN h.inst /\ i + 1 \notin DOMAIN h.inst
      /\ DOMAIN r.inst = DOMAIN h.inst \union {i} \union (IF nests THEN {i + 1} ELSE {})
      /\ \A j \in DOMAIN h.inst : r.inst[j] = h.inst[j]
      /\ r.inst[i] = Instance(key, k) /\ (nests => r.inst[i + 1] = Instance(First, i))
      /\ KeepAlives(r) = KeepAlives(h) \union (IF nests THEN {i} ELSE {})
      /\ r.active = h.active /\ r.inactive = h.inactive /\ r.direct = h.direct
      /\ r.destroyed = h.destroyed /\ r.told = h.told /\ r.activated = h.activated
      /\ r.spared = h.spared /\ r.late = h.late /\ r.wrong = h.wrong
      /\ \A x \in KeepAlives(h) : /\ r.cache[x] = h.cache[x] /\ r.keys[x] = h.keys[x]
                                  /\ r.shown[x] = h.shown[x] /\ r.kept[x] = h.kept[x]
      /\ nests => /\ r.cache[i] = [x \in {First} |-> i + 1] /\ r.keys[i] = <<First>>
                  /\ r.shown[i] = i + 1 /\ r.kept[i] = TRUE
  BY <1>3 DEF Created
<1>5. /\ Placed(r, i) /\ Told(r, i, queue)
      /\ \A at \in {-1} \union KeepAlives(h) : \A x : Listed(h, at, x) => Listed(r, at, x)
      /\ ParentOf(r, i) = k /\ i \in LiveIn(r)
      /\ \A j \in DOMAIN h.inst : ParentOf(r, j) = ParentOf(h, j) /\ (IsCached(r, j) <=> IsCached(h, j))
  BY <1>1, <1>2, <1>3, CreateFits DEF queue
<1> HIDE DEF i
<1>6. i # k /\ i \notin KeepAlives(h) /\ (k # 0 => k \in DOMAIN h.inst) /\ 0 \notin DOMAIN h.inst
  BY <1>1, <1>4 DEF KeepAlives, Typed
<1>7. old # 0 => old \in DOMAIN h.inst /\ ParentOf(h, old) = k /\ h.inst[old].key # key /\ old # k
  <2> SUFFICES ASSUME old # 0 PROVE old \in DOMAIN h.inst /\ ParentOf(h, old) = k /\ h.inst[old].key # key /\ old # k
    OBVIOUS
  <2>1. old \in LiveIn(h) /\ ParentOf(h, old) = k
    BY <1>1 DEF Placed
  <2>2. old \in DOMAIN h.inst
    BY <2>1 DEF LiveIn
  <2> QED  BY <2>1, <2>2, TwoLevels DEF Same
<1>8. /\ Fits(put, i, queue)
      /\ put.inst = r.inst /\ put.active = r.active /\ put.inactive = r.inactive /\ put.direct = r.direct
      /\ put.destroyed = r.destroyed /\ put.told = r.told /\ put.wrong = r.wrong
      /\ put.shown = r.shown /\ put.kept = r.kept /\ put.activated = r.activated
      /\ KeepAlives(put) = KeepAlives(r) /\ LiveIn(put) = LiveIn(r)
      /\ \A j : ParentOf(put, j) = ParentOf(r, j)
      /\ DOMAIN put.cache[0] \subseteq DOMAIN h.cache[0] \union (IF k = 0 /\ kept THEN {key} ELSE {})
      /\ k # 0 => put.cache[0] = h.cache[0]
      /\ nests => put.cache[i] = r.cache[i]
      /\ IF kept THEN IsCached(put, i) ELSE ~IsCached(put, i)
  <2>1. CASE kept
    <3>1. k \in KeepAlives(r) /\ Listed(r, k, key) /\ key \notin DOMAIN r.cache[k] /\ Len(r.keys[0]) <= MaxCached
      BY <1>1, <1>4, <1>5, <2>1
    <3>2. put = Put(r, k, key, i, FALSE)
      BY <2>1 DEF PutNew
    <3> HIDE DEF put
    <3>3. Fits(put, i, queue) /\ IsCached(put, i) /\ PutIn(put, r, k, key)
      BY <1>3, <1>4, <1>5, <3>1, <3>2, PutFits
    <3>4. DOMAIN put.cache[0] \subseteq DOMAIN h.cache[0] \union (IF k = 0 /\ kept THEN {key} ELSE {})
      BY <1>1, <1>4, <2>1, <3>3 DEF PutIn
    <3>5. (k # 0 => put.cache[0] = h.cache[0]) /\ (nests => put.cache[i] = r.cache[i])
      BY <1>1, <1>4, <1>6, <3>3 DEF PutIn
    <3> QED  BY <2>1, <3>3, <3>4, <3>5 DEF PutIn
  <2>2. CASE ~kept
    <3>1. put = r /\ k = 0
      BY <2>2
    <3>2. Fits(r, i, queue)
      BY <1>1, <1>3, <1>4, <1>5, <2>2 DEF Fits
    <3>3. ~IsCached(r, i)
      <4>1. \A x \in DOMAIN h.cache[0] : h.cache[0][x] \in DOMAIN h.inst
        BY <1>1 DEF Placed, LiveIn
      <4> QED  BY <1>1, <1>4, <1>5, <3>1, <4>1 DEF IsCached
    <3> QED  BY <1>1, <1>4, <2>2, <3>1, <3>2, <3>3
  <2> QED  BY <2>1, <2>2
<1> HIDE DEF put
<1>9. Fits(e, i, queue) /\ Emptied(e, put, k)
  <2>1. k \in KeepAlives(put) \ put.destroyed
    BY <1>1, <1>4, <1>8
  <2>2. ASSUME put.shown[k] # 0
        PROVE  /\ put.shown[k] # i /\ put.shown[k] \notin queue
               /\ k = 0 => /\ queue = {} /\ (i = -1 \/ ParentOf(put, i) = 0)
                           /\ put.kept[0] \/ ~IsCached(put, put.shown[0])
    <3>1. put.shown[k] = old /\ old # 0
      BY <1>1, <1>4, <1>8, <2>2
    <3>2. old # i /\ old \notin queue
      BY <1>4, <1>7, <3>1 DEF Ready, queue
    <3>3. k = 0 => queue = {} /\ ParentOf(put, i) = 0
      BY <1>5, <1>8 DEF Ready, queue, Range
    <3>4. ASSUME k = 0, ~put.kept[0] PROVE ~IsCached(put, old)
      <4>1. h.inst[old].key \notin DOMAIN h.cache[0]
        BY <1>1, <1>4, <1>8, <3>1, <3>4 DEF Ready
      <4>2. put.inst[old] = h.inst[old] /\ ParentOf(put, old) = 0
        BY <1>4, <1>5, <1>7, <1>8, <3>1, <3>4
      <4>3. h.inst[old].key # key
        BY <1>7, <3>1
      <4> QED  BY <1>8, <4>1, <4>2, <4>3 DEF IsCached
    <3> QED  BY <3>1, <3>2, <3>3, <3>4
  <2>3. MayGo(put, k, i, queue)
    BY <2>2 DEF MayGo
  <2>4. Fits(put, i, queue)
    BY <1>8
  <2> QED  BY <2>1, <2>3, <2>4, EmptiedFits
<1>10. g = InsertNew(Showing(e, k, i, kept), i, kept, mounted)
  <2>1. Showing(DestroyHook(put, k), k, i, kept) = Showing(Emptying(DestroyHook(put, k), k), k, i, kept)
    BY ShowingTwice
  <2> QED  BY <2>1 DEF g, e
<1> HIDE DEF e, g
<1>11. /\ e.inst = r.inst /\ e.activated = h.activated
       /\ KeepAlives(e) = KeepAlives(r)
       /\ \A j : ParentOf(e, j) = ParentOf(r, j)
       /\ h.destroyed \subseteq e.destroyed /\ e.destroyed \subseteq h.destroyed \union Leaving(put, k)
       /\ e.shown[k] = 0
       /\ k # 0 => e.shown[0] = h.shown[0] /\ e.kept[0] = h.kept[0]
       /\ e.cache[0] = put.cache[0] /\ e.cache[k] = put.cache[k]
       /\ nests => e.shown[i] = i + 1 /\ e.cache[i] = put.cache[i]
  <2>1. put.shown[k] = old
    BY <1>1, <1>4, <1>8
  <2>2. old # 0 => 0 # old /\ k # old /\ i # old
    BY <1>4, <1>7
  <2>3. /\ e.inst = put.inst /\ e.activated = put.activated
        /\ KeepAlives(e) = KeepAlives(put)
        /\ \A j : ParentOf(e, j) = ParentOf(put, j)
        /\ put.destroyed \subseteq e.destroyed /\ e.destroyed \subseteq put.destroyed \union Leaving(put, k)
        /\ \A x \in KeepAlives(put) : x = 0 \/ x # old =>
              /\ e.cache[x] = put.cache[x]
              /\ x # k => e.shown[x] = put.shown[x] /\ e.kept[x] = put.kept[x]
        /\ e.shown[k] = 0
    BY <1>9, <2>1 DEF Emptied
  <2>4. (k = 0 \/ k # old) /\ (nests => i # old /\ i # k /\ i \in KeepAlives(put))
    BY <1>4, <1>6, <1>7, <1>8
  <2>5. e.cache[0] = put.cache[0] /\ e.cache[k] = put.cache[k]
    BY <1>1, <1>4, <1>8, <2>3, <2>4
  <2>6. k # 0 => e.shown[0] = put.shown[0] /\ e.kept[0] = put.kept[0]
    BY <1>1, <1>4, <1>8, <2>3
  <2>7. nests => e.cache[i] = put.cache[i] /\ e.shown[i] = put.shown[i]
    BY <2>3, <2>4
  <2> QED  BY <1>1, <1>4, <1>8, <2>3, <2>5, <2>6, <2>7
<1>12. \A j \in {i, i + 1} : j \notin h.destroyed /\ j \notin Leaving(put, k)
  <2>1. put.shown[k] = old
    BY <1>1, <1>4, <1>8
  <2>2. h.destroyed \subseteq DOMAIN h.inst
    BY DEF Typed
  <2>3. CASE old = 0
    BY <1>4, <2>1, <2>2, <2>3 DEF Leaving
  <2>4. CASE old # 0
    <3>1. ParentOf(put, i) = k /\ (i + 1 \in DOMAIN r.inst => ParentOf(put, i + 1) = i)
      <4>1. i + 1 \in DOMAIN r.inst => nests
        BY <1>4
      <4> QED  BY <1>4, <1>5, <1>8, <4>1 DEF ParentOf, Instance
    <3>2. old \in DOMAIN h.inst /\ old # k /\ old # i /\ old # i + 1
      BY <1>4, <1>7, <2>4
    <3> QED  BY <1>4, <1>8, <2>1, <2>2, <2>4, <3>1, <3>2 DEF Leaving, ChildrenOf
  <2> QED  BY <2>3, <2>4
<1>13. /\ i \in LiveIn(e) /\ (nests => i + 1 \in LiveIn(e)) /\ LiveIn(e) \subseteq LiveIn(r)
       /\ ParentOf(e, i) = k /\ ComponentOf(e, i) = TagOf(key)
       /\ nests => ParentOf(e, i + 1) = i
  BY <1>4, <1>5, <1>11, <1>12 DEF LiveIn, ComponentOf, ParentOf, Instance
<1>14. Fresh(e, i, queue) /\ Fresh(e, i + 1, queue)
  <2> SUFFICES ASSUME NEW j \in {i, i + 1} PROVE Fresh(e, j, queue)
    OBVIOUS
  <2>1. j \notin h.active /\ j \notin h.inactive /\ j \notin h.direct /\ j \notin h.told /\ j \notin h.wrong /\ j \notin queue
    BY <1>2, <1>4 DEF Typed
  <2>2. Untouched(e, put, Leaving(put, k))
    BY <1>9 DEF Emptied
  <2> QED  BY <1>4, <1>8, <1>12, <2>1, <2>2 DEF Untouched, Fresh
<1>15. IF kept THEN IsCached(e, i) ELSE k = 0 /\ ~IsCached(e, i)
  <2>1. IsCached(e, i) <=> IsCached(put, i)
    BY <1>5, <1>8, <1>11, <1>13 DEF IsCached
  <2> QED  BY <1>8, <2>1
<1>16. HoldsFresh(e, i, queue)
  <2> SUFFICES ASSUME nests, NEW j \in LiveIn(e), ParentOf(e, j) = i PROVE j = i + 1
    BY <1>11, <1>13, <1>14 DEF HoldsFresh
  <2>1. j \in DOMAIN r.inst /\ ParentOf(r, j) = i
    BY <1>11 DEF LiveIn
  <2>2. j \notin DOMAIN h.inst
    <3> SUFFICES ASSUME j \in DOMAIN h.inst PROVE FALSE
      OBVIOUS
    <3>1. ParentOf(h, j) = i /\ ParentOf(h, j) \in KeepAlives(h)
      BY <1>5, <2>1, TwoLevels
    <3> QED  BY <1>6, <3>1
  <2>3. j # i
    BY <1>5, <1>6, <2>1
  <2> QED  BY <1>4, <2>1, <2>2, <2>3
<1>17. /\ Fits(g, -1, IF kept /\ mounted THEN queue \union {i} ELSE queue)
       /\ Entered(g, e, k, i, kept)
       /\ g.activated = IF kept /\ mounted THEN Append(e.activated, i) ELSE e.activated
  <2>1. k \in KeepAlives(e) /\ e.shown[k] = 0
    BY <1>1, <1>4, <1>11
  <2>2. Fits(e, i, queue) /\ i \in LiveIn(e) /\ ParentOf(e, i) = k /\ Fresh(e, i, queue) /\ HoldsFresh(e, i, queue)
    BY <1>9, <1>13, <1>14, <1>16
  <2>3. IF kept THEN IsCached(e, i) ELSE k = 0 /\ ~IsCached(e, i)
    BY <1>15
  <2>4. Came(g, e, queue, k, i, kept, mounted)
    BY <1>10, <2>1, <2>2, <2>3, EnterNew
  <2> QED  BY <2>4 DEF Came
<1>18. /\ IsInjective(g.activated)
       /\ Range(g.activated) = IF kept /\ mounted THEN queue \union {i} ELSE queue
  <2>1. i \notin queue
    BY <1>14 DEF Fresh
  <2>2. IsInjective(h.activated)
    BY DEF Ready
  <2>3. CASE kept /\ mounted
    <3>1. g.activated = Append(h.activated, i)
      BY <1>11, <1>17, <2>3
    <3>2. Range(Append(h.activated, i)) = Range(h.activated) \union {i} /\ IsInjective(Append(h.activated, i))
      BY <2>1, <2>2, QueueIs DEF queue
    <3> QED  BY <2>3, <3>1, <3>2 DEF queue
  <2>4. CASE ~(kept /\ mounted)
    <3>1. g.activated = h.activated
      BY <1>11, <1>17, <2>4
    <3> QED  BY <2>2, <2>4, <3>1 DEF queue
  <2> QED  BY <2>3, <2>4
<1>19. Rendered(g, h, k, key, kept, mounted)
  <2>1. /\ g.inst = e.inst /\ g.destroyed = e.destroyed /\ g.cache = e.cache
        /\ g.shown[k] = i /\ g.kept[k] = kept
        /\ \A x \in KeepAlives(e) \ {k} : g.shown[x] = e.shown[x] /\ g.kept[x] = e.kept[x]
    BY <1>17 DEF Entered
  <2>2. KeepAlives(g) = KeepAlives(e) /\ ParentOf(g, i) = k /\ (IsCached(g, i) <=> IsCached(e, i))
    BY <1>13, <2>1 DEF KeepAlives, ComponentOf, ParentOf, IsCached
  <2>3. KeepAlives(h) \subseteq KeepAlives(g)
    BY <1>4, <1>11, <2>2
  <2>4. DOMAIN h.inst \subseteq DOMAIN g.inst /\ \A j \in DOMAIN h.inst : g.inst[j] = h.inst[j]
    BY <1>4, <1>11, <2>1
  <2>5. \/ g.activated = h.activated
        \/ mounted /\ \E j \in DOMAIN g.inst : ParentOf(g, j) = k /\ g.activated = Append(h.activated, j)
    BY <1>4, <1>11, <1>17, <2>1, <2>2
  <2>6. key # Null /\ g.inst[i].key = key
    <3>1. g.inst[i] = Instance(key, k)
      BY <1>4, <1>11, <2>1
    <3> QED  BY <3>1, KeysAssumption DEF Instance
  <2>7. kept => IsCached(g, i)
    BY <1>15, <2>2
  <2>8. DOMAIN g.cache[0] \subseteq DOMAIN h.cache[0] \union (IF k = 0 /\ kept THEN {key} ELSE {})
    BY <1>8, <1>11, <2>1
  <2>9. k # 0 => g.shown[0] = h.shown[0] /\ g.kept[0] = h.kept[0] /\ g.cache[0] = h.cache[0]
    BY <1>1, <1>4, <1>8, <1>11, <2>1
  <2> QED  BY <1>11, <1>18, <2>1, <2>3, <2>4, <2>5, <2>6, <2>7, <2>8, <2>9 DEF Rendered
<1> QED  BY <1>17, <1>18, <1>19 DEF g, put, r, i

\* An instance that the cache holds comes back.
LEMMA RenderKept ==
    ASSUME NEW h, NEW k, Ready(h, k), NEW key \in IF k = 0 THEN Keys ELSE Inner,
           NEW kept \in BOOLEAN, NEW mounted \in BOOLEAN, kept /\ mounted,
           Fits(h, -1, Range(h.activated)), key \in DOMAIN h.cache[k], ~Same(h, k, key)
    PROVE  LET i == h.cache[k][key]
               g == QueueActivated(Showing(DestroyHook(h, k), k, i, kept), i)
           IN  Fits(g, -1, Range(g.activated)) /\ Rendered(g, h, k, key, kept, mounted)
<1> DEFINE i == h.cache[k][key]
           e == Emptying(DestroyHook(h, k), k)
           g == QueueActivated(Showing(DestroyHook(h, k), k, i, kept), i)
           queue == Range(h.activated)
           old == h.shown[k]
<1>1. /\ Typed(h) /\ Placed(h, -1) /\ k \in KeepAlives(h) \ h.destroyed /\ 0 \in KeepAlives(h)
  BY DEF Fits, Ready, KeepAlives
<1>2. /\ i \in LiveIn(h) /\ h.inst[i] = Instance(key, k) /\ i \in DOMAIN h.inst /\ ParentOf(h, i) = k
      /\ h.inst[i].key = key /\ IsCached(h, i) /\ i # 0
  <2>1. i \in LiveIn(h) /\ h.inst[i] = Instance(key, k)
    BY <1>1 DEF Placed
  <2>2. i \in DOMAIN h.inst /\ ParentOf(h, i) = k /\ h.inst[i].key = key
    BY <2>1 DEF LiveIn, ParentOf, Instance
  <2> QED  BY <1>1, <2>1, <2>2, TwoLevels DEF IsCached
<1> HIDE DEF i, queue
<1>3. old # 0 => old \in DOMAIN h.inst /\ ParentOf(h, old) = k /\ old # k /\ old # -1 /\ old # i /\ 0 # old
  <2> SUFFICES ASSUME old # 0 PROVE old \in DOMAIN h.inst /\ ParentOf(h, old) = k /\ old # k /\ old # -1 /\ old # i
    OBVIOUS
  <2>1. old \in LiveIn(h) /\ ParentOf(h, old) = k
    BY <1>1 DEF Placed
  <2>2. old \in DOMAIN h.inst
    BY <2>1 DEF LiveIn
  <2> QED  BY <1>1, <1>2, <2>1, <2>2, TwoLevels DEF Same
<1>4. MayGo(h, k, -1, queue)
  <2> SUFFICES ASSUME old # 0
               PROVE  /\ old # -1 /\ old \notin queue
                      /\ k = 0 => queue = {} /\ (h.kept[0] \/ ~IsCached(h, h.shown[0]))
    BY DEF MayGo
  <2>1. old \notin queue
    BY <1>3 DEF Ready, queue
  <2>2. k = 0 => queue = {}
    BY DEF Ready, queue, Range
  <2>3. ASSUME k = 0, ~h.kept[0] PROVE ~IsCached(h, old)
    <3>1. h.inst[old].key \notin DOMAIN h.cache[0]
      BY <2>3 DEF Ready
    <3> QED  BY <1>3, <2>3, <3>1 DEF IsCached
  <2> QED  BY <1>3, <2>1, <2>2, <2>3
<1>5. Fits(e, -1, queue) /\ Emptied(e, h, k)
  BY <1>1, <1>4, EmptiedFits DEF queue
<1>6. g = QueueActivated(Showing(e, k, i, kept), i)
  <2>1. Showing(DestroyHook(h, k), k, i, kept) = Showing(Emptying(DestroyHook(h, k), k), k, i, kept)
    BY ShowingTwice, ZenonT(60)
  <2> QED  BY <2>1 DEF g, e
<1> HIDE DEF e, g
<1>7. /\ e.inst = h.inst /\ e.activated = h.activated /\ KeepAlives(e) = KeepAlives(h)
      /\ \A j : ParentOf(e, j) = ParentOf(h, j)
      /\ h.destroyed \subseteq e.destroyed /\ e.destroyed \subseteq h.destroyed \union Leaving(h, k)
      /\ e.shown[k] = 0 /\ e.cache[0] = h.cache[0] /\ e.cache[k] = h.cache[k]
      /\ k # 0 => e.shown[0] = h.shown[0] /\ e.kept[0] = h.kept[0]
  <2>1. k = 0 \/ k # h.shown[k]
    BY <1>3
  <2> QED  BY <1>1, <1>5, <2>1 DEF Emptied
<1>8. i \in LiveIn(e) /\ ParentOf(e, i) = k /\ IsCached(e, i)
  <2>1. i \notin Leaving(h, k)
    BY <1>2, <1>3 DEF Leaving, ChildrenOf
  <2>2. i \in LiveIn(e)
    BY <1>2, <1>7, <2>1 DEF LiveIn
  <2> QED  BY <1>2, <1>7, <2>2 DEF IsCached
<1>9. i \notin queue
  BY <1>2 DEF Ready, queue
<1>10. Came(g, e, queue, k, i, kept, mounted)
  BY <1>1, <1>5, <1>6, <1>7, <1>8, <1>9, EnterKept
<1>11. /\ Fits(g, -1, queue \union {i})
       /\ Entered(g, e, k, i, kept)
       /\ g.activated = Append(h.activated, i)
  BY <1>7, <1>10 DEF Came
<1>12. IsInjective(g.activated) /\ Range(g.activated) = queue \union {i}
  <2>1. IsInjective(h.activated)
    BY DEF Ready
  <2>2. Range(Append(h.activated, i)) = Range(h.activated) \union {i} /\ IsInjective(Append(h.activated, i))
    BY <1>1, <1>9, <2>1, QueueIs DEF queue
  <2> QED  BY <1>11, <2>2 DEF queue
<1>13. Rendered(g, h, k, key, kept, mounted)
  <2>1. /\ g.inst = e.inst /\ g.destroyed = e.destroyed /\ g.cache = e.cache
        /\ g.shown[k] = i /\ g.kept[k] = kept
        /\ \A x \in KeepAlives(e) \ {k} : g.shown[x] = e.shown[x] /\ g.kept[x] = e.kept[x]
    BY <1>11 DEF Entered
  <2>2. KeepAlives(g) = KeepAlives(e) /\ ParentOf(g, i) = k /\ (IsCached(g, i) <=> IsCached(e, i))
    BY <1>8, <2>1 DEF KeepAlives, ComponentOf, ParentOf, IsCached
  <2>3. \E j \in DOMAIN g.inst : ParentOf(g, j) = k /\ g.activated = Append(h.activated, j)
    BY <1>2, <1>7, <1>11, <2>1, <2>2
  <2>4. key # Null /\ g.inst[i].key = key
    BY <1>2, <1>7, <2>1, KeysAssumption
  <2>5. k # 0 => g.shown[0] = h.shown[0] /\ g.kept[0] = h.kept[0] /\ g.cache[0] = h.cache[0]
    BY <1>1, <1>7, <2>1
  <2> QED  BY <1>7, <1>8, <1>12, <2>1, <2>2, <2>3, <2>4, <2>5 DEF Rendered
<1> QED  BY <1>11, <1>12, <1>13 DEF g, i

\* What is shown stays, but it may be kept from now on, or no more.
LEMMA ReshowFits ==
    ASSUME NEW h, NEW queue, Fits(h, -1, queue), NEW k \in KeepAlives(h), h.shown[k] # 0,
           NEW kept \in BOOLEAN, IF kept THEN IsCached(h, h.shown[k]) ELSE k = 0
    PROVE  LET g == Showing(h, k, h.shown[k], kept)
           IN  Fits(g, -1, queue) /\ Shows(g, h, k, h.shown[k], kept)
<1> DEFINE i == h.shown[k]
           g == Showing(h, k, i, kept)
<1>1. Typed(h) /\ Placed(h, -1) /\ Told(h, -1, queue) /\ Listed(h, -1, Null) /\ Len(h.keys[0]) <= MaxCached
  BY DEF Fits
<1>2. Shows(g, h, k, i, kept)
  BY <1>1, ShowingIs
<1> HIDE DEF g, i
<1>3. /\ Typed(g) /\ Listed(g, -1, Null) /\ Len(g.keys[0]) <= MaxCached /\ Judged(g, -1) = Judged(h, -1)
      /\ LiveIn(g) = LiveIn(h) /\ KeepAlives(g) = KeepAlives(h)
      /\ g.inst = h.inst /\ g.cache = h.cache /\ g.destroyed = h.destroyed /\ g.spared = h.spared
      /\ \A j : ParentOf(g, j) = ParentOf(h, j)
      /\ \A j : IsCached(g, j) <=> IsCached(h, j)
      /\ \A x \in KeepAlives(h) : g.shown[x] = h.shown[x]
      /\ g.kept[k] = kept /\ \A x \in KeepAlives(h) \ {k} : g.kept[x] = h.kept[x]
  BY <1>1, <1>2 DEF Shows, i
<1>4. Placed(g, -1)
  <2>1. ASSUME NEW x \in KeepAlives(g)
        PROVE  /\ g.shown[x] # 0 => g.shown[x] \in LiveIn(g) /\ ParentOf(g, g.shown[x]) = x
               /\ g.shown[x] # 0 /\ g.kept[x] => IsCached(g, g.shown[x]) \/ (x = 0 /\ g.shown[x] \in g.spared)
               /\ g.shown[x] # 0 /\ x # 0 => g.kept[x]
    <3>1. CASE x = k
      BY <1>1, <1>3, <3>1 DEF Placed
    <3>2. CASE x # k
      BY <1>1, <1>3, <3>2 DEF Placed
    <3> QED  BY <3>1, <3>2
  <2>2. 0 \in KeepAlives(h)
    BY DEF KeepAlives
  <2> QED  BY <1>1, <1>3, <2>1, <2>2 DEF Placed
<1>5. Told(g, -1, queue)
  <2> SUFFICES ASSUME NEW j \in Judged(h, -1) PROVE Hears(g, j, queue)
    BY <1>3 DEF Told
  <2>1. Hears(h, j, queue)
    BY <1>1 DEF Told
  <2>2. ParentOf(h, j) \in KeepAlives(h)
    BY <1>1, TwoLevels DEF Judged, LiveIn
  <2>3. Alike(g, h, j, queue, queue)
    BY <1>2, <1>3, <2>2 DEF Alike, Shows
  <2> QED  BY <2>1, <2>3, HearAlike
<1> QED  BY <1>2, <1>3, <1>4, <1>5 DEF Fits, g, i

\* What is shown stays, patched; if it is kept, the cache has it from now on.
LEMMA RenderSame ==
    ASSUME NEW h, NEW k, Ready(h, k), NEW key, Same(h, k, key), Fits(h, -1, Range(h.activated)),
           k = 0 /\ h.kept[0] => IsCached(h, h.shown[0]),
           NEW kept \in BOOLEAN, k # 0 => kept, NEW mounted
    PROVE  LET c == IF kept THEN Cached(h, k, key).h ELSE h
               put == IF kept /\ key \notin DOMAIN c.cache[k] THEN PutLate(c, k, key, h.shown[k]) ELSE c
               g == Showing(put, k, h.shown[k], kept)
           IN  Fits(g, -1, Range(g.activated)) /\ Rendered(g, h, k, key, kept, mounted)
<1> DEFINE c == IF kept THEN Cached(h, k, key).h ELSE h
           old == h.shown[k]
           put == IF kept /\ key \notin DOMAIN c.cache[k] THEN PutLate(c, k, key, old) ELSE c
           g == Showing(put, k, old, kept)
           queue == Range(h.activated)
<1>1. /\ Typed(h) /\ Placed(h, -1) /\ Listed(h, -1, Null) /\ k \in KeepAlives(h) /\ 0 \in KeepAlives(h)
      /\ old # 0 /\ h.inst[old].key = key /\ old \in LiveIn(h) /\ ParentOf(h, old) = k
  <2>1. /\ Typed(h) /\ Placed(h, -1) /\ Listed(h, -1, Null) /\ k \in KeepAlives(h) /\ 0 \in KeepAlives(h)
        /\ old # 0 /\ h.inst[old].key = key
    BY DEF Fits, Ready, KeepAlives, Same
  <2> QED  BY <2>1 DEF Placed
<1>2. old \in DOMAIN h.inst /\ h.inst[old] = Instance(key, k) /\ key \in Keys \union Inner
  <2>1. old \in DOMAIN h.inst
    BY <1>1 DEF LiveIn
  <2>2. h.inst[old] \in [key : Keys \union Inner, parent : Nat]
    <3> DEFINE I == [key : Keys \union Inner, parent : Nat]
    <3>1. h.inst \in Seq(I)
      BY <1>1 DEF Typed
    <3> HIDE DEF I
    <3>2. h.inst[old] \in I
      BY <2>1, <3>1
    <3> QED  BY <3>2 DEF I
  <2> QED  BY <1>1, <2>1, <2>2 DEF Instance, ParentOf
<1>3. key \in DOMAIN h.cache[k] => IsCached(h, old)
  <2>1. CASE k = 0
    BY <1>1, <2>1 DEF Ready
  <2>2. CASE k # 0
    BY <1>1, <2>2 DEF Placed
  <2> QED  BY <2>1, <2>2
<1> HIDE DEF c, old, queue
<1>4. /\ Typed(c) /\ Placed(c, -1) /\ Told(c, -1, queue) /\ Len(c.keys[0]) <= MaxCached
      /\ Searched(c, h, k, key)
      /\ IF kept THEN Listed(c, k, key) ELSE Fits(c, -1, queue) /\ c = h
  <2>1. CASE kept
    <3>1. c = Cached(h, k, key).h
      BY <2>1 DEF c
    <3>2. Fits(h, -1, queue)
      BY DEF queue
    <3>3. LET n == Cached(h, k, key)
          IN  /\ Typed(n.h) /\ Placed(n.h, -1) /\ Told(n.h, -1, queue) /\ Listed(n.h, k, key)
              /\ Len(n.h.keys[0]) <= MaxCached
              /\ Searched(n.h, h, k, key)
      BY <1>1, <3>2, CachedFits
    <3> QED  BY <2>1, <3>1, <3>3
  <2>2. CASE ~kept
    <3>1. c = h
      BY <2>2 DEF c
    <3>2. Fits(h, -1, queue)
      BY DEF queue
    <3> QED  BY <2>2, <3>1, <3>2 DEF Searched, Fits
  <2> QED  BY <2>1, <2>2
<1>5. /\ c.inst = h.inst /\ KeepAlives(c) = KeepAlives(h) /\ (\A j : ParentOf(c, j) = ParentOf(h, j))
      /\ c.kept = h.kept /\ c.activated = h.activated
      /\ c.shown[k] = old /\ c.shown[0] = h.shown[0]
      /\ h.destroyed \subseteq c.destroyed
      /\ DOMAIN c.cache[0] \subseteq DOMAIN h.cache[0]
      /\ key \in DOMAIN c.cache[k] <=> key \in DOMAIN h.cache[k]
      /\ k # 0 \/ key \in DOMAIN h.cache[k] => c.cache = h.cache
  BY <1>4 DEF Searched, old
<1>6. old \in LiveIn(c) /\ c.inst[old] = Instance(key, k)
  BY <1>1, <1>2, <1>4, <1>5 DEF Placed
<1>7. /\ Fits(put, -1, queue) /\ (kept => IsCached(put, old))
      /\ put.inst = c.inst /\ put.shown = c.shown /\ put.kept = c.kept /\ put.activated = c.activated
      /\ put.destroyed = c.destroyed /\ KeepAlives(put) = KeepAlives(c)
      /\ DOMAIN put.cache[0] \subseteq DOMAIN c.cache[0] \union (IF k = 0 /\ kept THEN {key} ELSE {})
      /\ k # 0 => put.cache[0] = c.cache[0]
  <2>1. CASE kept /\ key \notin DOMAIN c.cache[k]
    <3>1. put = Put(c, k, key, old, TRUE)
      BY <2>1 DEF PutLate
    <3> HIDE DEF put
    <3>2. Fits(put, -1, queue) /\ IsCached(put, old) /\ PutIn(put, c, k, key)
      BY <1>1, <1>4, <1>5, <1>6, <2>1, <3>1, PutFits
    <3> QED  BY <1>1, <1>5, <2>1, <3>2 DEF PutIn
  <2>2. CASE kept /\ key \in DOMAIN c.cache[k]
    <3>1. put = c
      BY <2>2
    <3> HIDE DEF put
    <3>2. Fits(c, -1, queue)
      BY <1>1, <1>4, <1>5, <2>2, ListedAlready DEF Fits
    <3>3. IsCached(c, old)
      BY <1>1, <1>3, <1>5, <2>2 DEF IsCached
    <3> QED  BY <2>2, <3>1, <3>2, <3>3
  <2>3. CASE ~kept
    BY <1>4, <2>3
  <2> QED  BY <2>1, <2>2, <2>3
<1> HIDE DEF put
<1>8. Fits(g, -1, queue) /\ Shows(g, put, k, old, kept)
  <2>1. put.shown[k] = old
    BY <1>5, <1>7
  <2>2. k \in KeepAlives(put) /\ old # 0
    BY <1>1, <1>5, <1>7 DEF old
  <2>3. Fits(Showing(put, k, put.shown[k], kept), -1, queue) /\ Shows(Showing(put, k, put.shown[k], kept), put, k, put.shown[k], kept)
    BY <1>7, <2>1, <2>2, ReshowFits
  <2> QED  BY <2>1, <2>3
<1> HIDE DEF g
<1>9. /\ g.inst = put.inst /\ g.destroyed = put.destroyed /\ g.cache = put.cache /\ g.activated = put.activated
      /\ g.shown[k] = old /\ g.kept[k] = kept /\ KeepAlives(g) = KeepAlives(put)
      /\ \A x \in KeepAlives(put) \ {k} : g.shown[x] = put.shown[x] /\ g.kept[x] = put.kept[x]
      /\ IsCached(g, old) <=> IsCached(put, old)
  BY <1>8 DEF Shows
<1>10. Range(g.activated) = queue
  BY <1>5, <1>7, <1>9 DEF queue
<1>11. Rendered(g, h, k, key, kept, mounted)
  <2>1. g.activated = h.activated /\ IsInjective(g.activated)
    BY <1>5, <1>7, <1>9 DEF Ready
  <2>2. key # Null /\ g.inst[old].key = key
    BY <1>2, <1>5, <1>7, <1>9, KeysAssumption DEF Instance
  <2>3. k # 0 => g.shown[0] = h.shown[0] /\ g.kept[0] = h.kept[0] /\ g.cache[0] = h.cache[0]
    BY <1>1, <1>5, <1>7, <1>9
  <2>4. DOMAIN g.cache[0] \subseteq DOMAIN h.cache[0] \union (IF k = 0 /\ kept THEN {key} ELSE {})
    BY <1>5, <1>7, <1>9
  <2> QED  BY <1>5, <1>7, <1>9, <2>1, <2>2, <2>3, <2>4 DEF Rendered
<1> QED  BY <1>8, <1>10, <1>11 DEF g, put, c, old

\* Nothing is shown any more.
LEMMA RenderNone ==
    ASSUME NEW h, NEW k, Ready(h, k), Fits(h, -1, Range(h.activated)),
           NEW kept \in BOOLEAN, ~kept, NEW mounted
    PROVE  LET g == Emptying(DestroyHook(h, k), k)
           IN  Fits(g, -1, Range(g.activated)) /\ Rendered(g, h, k, Null, kept, mounted)
<1> DEFINE g == Emptying(DestroyHook(h, k), k)
           queue == Range(h.activated)
           old == h.shown[k]
<1> HIDE DEF queue
<1>1. /\ Typed(h) /\ Placed(h, -1) /\ k \in KeepAlives(h) \ h.destroyed /\ 0 \in KeepAlives(h)
      /\ Fits(h, -1, queue)
  BY DEF Fits, Ready, KeepAlives, queue
<1>2. old # 0 => old \in DOMAIN h.inst /\ ParentOf(h, old) = k /\ old # k /\ old # -1 /\ 0 # old
  <2> SUFFICES ASSUME old # 0 PROVE old \in DOMAIN h.inst /\ ParentOf(h, old) = k /\ old # k /\ old # -1
    OBVIOUS
  <2>1. old \in LiveIn(h) /\ ParentOf(h, old) = k
    BY <1>1 DEF Placed
  <2>2. old \in DOMAIN h.inst
    BY <2>1 DEF LiveIn
  <2> QED  BY <1>1, <2>1, <2>2, TwoLevels
<1>3. MayGo(h, k, -1, queue)
  <2> SUFFICES ASSUME old # 0
               PROVE  /\ old # -1 /\ old \notin queue
                      /\ k = 0 => queue = {} /\ (h.kept[0] \/ ~IsCached(h, h.shown[0]))
    BY DEF MayGo
  <2>1. old \notin queue
    BY <1>2 DEF Ready, queue
  <2>2. k = 0 => queue = {}
    BY DEF Ready, queue, Range
  <2>3. ASSUME k = 0, ~h.kept[0] PROVE ~IsCached(h, old)
    <3>1. h.inst[old].key \notin DOMAIN h.cache[0]
      BY <2>3 DEF Ready
    <3> QED  BY <1>2, <2>3, <3>1 DEF IsCached
  <2> QED  BY <1>2, <2>1, <2>2, <2>3
<1>4. Fits(g, -1, queue) /\ Emptied(g, h, k)
  BY <1>1, <1>3, EmptiedFits
<1> HIDE DEF g
<1>5. /\ g.inst = h.inst /\ g.activated = h.activated /\ KeepAlives(g) = KeepAlives(h)
      /\ h.destroyed \subseteq g.destroyed
      /\ g.shown[k] = 0 /\ g.cache[0] = h.cache[0]
      /\ k # 0 => g.shown[0] = h.shown[0] /\ g.kept[0] = h.kept[0]
  BY <1>1, <1>4 DEF Emptied
<1>6. Rendered(g, h, k, Null, kept, mounted)
  BY <1>5 DEF Rendered, Ready
<1>7. Range(g.activated) = queue
  BY <1>5 DEF queue
<1> QED  BY <1>4, <1>6, <1>7 DEF g

\* After the search a keep-alive may be rendered as before it,
LEMMA SearchedIsReady ==
    ASSUME NEW h, NEW k, NEW key, Ready(h, k), NEW c, Typed(c), Searched(c, h, k, key)
    PROVE  Ready(c, k)
<1>1. /\ c.inst = h.inst /\ KeepAlives(c) = KeepAlives(h) /\ \A j : ParentOf(c, j) = ParentOf(h, j)
      /\ c.kept = h.kept /\ c.activated = h.activated
      /\ c.shown[0] = h.shown[0]
      /\ DOMAIN c.cache[0] \subseteq DOMAIN h.cache[0]
      /\ k # 0 => c.destroyed = h.destroyed
  BY DEF Searched
<1>2. k \notin c.destroyed
  <2>1. CASE k = 0
    BY <2>1 DEF Typed
  <2>2. CASE k # 0
    BY <1>1, <2>2 DEF Ready
  <2> QED  BY <2>1, <2>2
<1> QED  BY <1>1, <1>2 DEF Ready

\* and then it is rendered from what was there before it.
LEMMA SearchedIsRendered ==
    ASSUME NEW h, NEW k, NEW key, NEW kept, NEW mounted, NEW c, Searched(c, h, k, key), NEW g, Rendered(g, c, k, key, kept, mounted)
    PROVE  Rendered(g, h, k, key, kept, mounted)
<1>1. /\ c.inst = h.inst /\ KeepAlives(c) = KeepAlives(h)
      /\ c.kept = h.kept /\ c.activated = h.activated
      /\ c.shown[0] = h.shown[0] /\ h.destroyed \subseteq c.destroyed
      /\ DOMAIN c.cache[0] \subseteq DOMAIN h.cache[0]
      /\ k # 0 => c.cache = h.cache
  BY DEF Searched
<1> QED  BY <1>1 DEF Rendered

\* A turn of the render watcher of keep-alive k.
LEMMA RenderFits ==
    ASSUME NEW h, NEW k, Ready(h, k), NEW key \in (IF k = 0 THEN Keys ELSE Inner) \union {Null},
           Fits(h, -1, Range(h.activated)), k = 0 /\ h.shown[0] # 0 /\ h.kept[0] => IsCached(h, h.shown[0]),
           NEW mounted \in BOOLEAN, ~mounted => k = 0 /\ DOMAIN h.cache[0] = {}
    PROVE  LET g == RenderKeepAlive(h, k, key, mounted)
           IN  /\ Fits(g, -1, Range(g.activated))
               /\ Rendered(g, h, k, key, key # Null /\ Keeps(k, key), mounted)
<1> DEFINE kept == key # Null /\ Keeps(k, key)
           old == h.shown[k]
           g == RenderKeepAlive(h, k, key, mounted)
           Goal(x) == Fits(x, -1, Range(x.activated)) /\ Rendered(x, h, k, key, kept, mounted)
<1>1. /\ Typed(h) /\ Placed(h, -1) /\ k \in KeepAlives(h) /\ kept \in BOOLEAN /\ (k # 0 /\ key # Null => kept)
      /\ old # 0 => old \in DOMAIN h.inst /\ h.inst[old].key # Null
  <2>1. Typed(h) /\ Placed(h, -1) /\ k \in KeepAlives(h)
    BY DEF Fits, Ready
  <2>2. ASSUME old # 0 PROVE old \in DOMAIN h.inst /\ h.inst[old].key # Null
    <3>1. old \in DOMAIN h.inst
      BY <2>1, <2>2 DEF Placed, LiveIn
    <3>2. h.inst[old].key \in Keys \union Inner
      BY <2>1, <3>1 DEF Typed
    <3> QED  BY <3>1, <3>2, KeysAssumption
  <2> QED  BY <2>1, <2>2 DEF Keeps
<1>2. CASE Same(h, k, key)
  <2>1. key # Null
    BY <1>1, <1>2 DEF Same
  <2> DEFINE c == IF kept THEN Cached(h, k, key).h ELSE h
             put == IF kept /\ key \notin DOMAIN c.cache[k] THEN PutLate(c, k, key, h.shown[k]) ELSE c
             n == Showing(put, k, h.shown[k], kept)
  <2>2. g = n
    BY <1>2, <2>1 DEF RenderKeepAlive, Showing, PutLate, Put
  <2> HIDE DEF kept
  <2>3. k # 0 => kept
    BY <1>1, <2>1
  <2>4. k = 0 /\ h.kept[0] => IsCached(h, h.shown[0])
    BY <1>2 DEF Same
  <2>5. Fits(n, -1, Range(n.activated)) /\ Rendered(n, h, k, key, kept, mounted)
    BY <1>1, <1>2, <2>3, <2>4, RenderSame
  <2> HIDE DEF n, g
  <2>6. Goal(g)
    BY <2>2, <2>5
  <2> QED  BY <2>6 DEF g, kept
<1>3. CASE key = Null
  <2> DEFINE n == Emptying(DestroyHook(h, k), k)
  <2>1. ~Same(h, k, key) /\ ~kept
    BY <1>1, <1>3 DEF Same
  <2>2. g = n
    <3>1. CASE old = 0
      BY <1>3, <2>1, <3>1 DEF RenderKeepAlive, Emptying, Showing, DestroyHook
    <3>2. CASE old # 0
      BY <1>3, <2>1, <3>2 DEF RenderKeepAlive, Emptying, Showing
    <3> QED  BY <3>1, <3>2
  <2> HIDE DEF kept
  <2>3. Fits(n, -1, Range(n.activated)) /\ Rendered(n, h, k, Null, kept, mounted)
    BY <1>1, <2>1, RenderNone
  <2> HIDE DEF n, g
  <2>4. Goal(g)
    BY <1>3, <2>2, <2>3
  <2> QED  BY <2>4 DEF g, kept
<1>4. CASE ~Same(h, k, key) /\ key # Null
  <2> DEFINE c == IF kept THEN Cached(h, k, key).h ELSE h
             found == IF kept /\ key \in DOMAIN h.cache[k] THEN h.cache[k][key] ELSE 0
  <2>1. key \in IF k = 0 THEN Keys ELSE Inner
    BY <1>4
  <2>2. /\ Typed(c) /\ Placed(c, -1) /\ Told(c, -1, Range(h.activated)) /\ Len(c.keys[0]) <= MaxCached
        /\ Searched(c, h, k, key)
        /\ IF kept THEN Listed(c, k, key) ELSE Listed(c, -1, Null)
        /\ kept => Cached(h, k, key).instance = found
    <3>1. CASE kept
      BY <1>1, <3>1, CachedFits
    <3>2. CASE ~kept
      BY <3>2 DEF Searched, Fits
    <3> QED  BY <3>1, <3>2
  <2> HIDE DEF c
  <2>3. /\ Ready(c, k) /\ c.activated = h.activated /\ ~Same(c, k, key) /\ c.shown[k] = old
        /\ key \in DOMAIN c.cache[k] <=> key \in DOMAIN h.cache[k]
        /\ key \in DOMAIN h.cache[k] => c.cache = h.cache
    <3>1. Ready(c, k)
      BY <2>2, SearchedIsReady
    <3> QED  BY <1>4, <2>2, <3>1 DEF Searched, Same
  <2>4. CASE kept /\ key \in DOMAIN h.cache[k]
    <3> DEFINE i == c.cache[k][key]
               n == QueueActivated(Showing(DestroyHook(c, k), k, i, kept), i)
    <3>1. Fits(c, -1, Range(c.activated))
      BY <1>1, <2>2, <2>3, <2>4, ListedAlready DEF Fits, Searched
    <3>2. found = i /\ i # 0 /\ i # old /\ mounted
      <4>1. found = i /\ k \in KeepAlives(c) /\ key \in DOMAIN c.cache[k]
        BY <1>1, <2>2, <2>3, <2>4 DEF Searched
      <4>2. i \in LiveIn(c) /\ c.inst[i] = Instance(key, k)
        BY <2>2, <4>1 DEF Placed
      <4>3. i \in DOMAIN c.inst /\ c.inst[i].key = key
        BY <4>2 DEF LiveIn, Instance
      <4>4. i # 0
        BY <2>2, <4>3, TwoLevels
      <4>5. i # old
        BY <2>3, <4>3, <4>4 DEF Same
      <4> QED  BY <2>4, <4>1, <4>4, <4>5
    <3>3. g = n
      <4>1. c = Cached(h, k, key).h
        BY <2>4 DEF c
      <4> HIDE DEF kept, i, found
      <4>2. Cached(h, k, key).instance = i /\ i # 0 /\ i # old
        BY <2>2, <2>4, <3>2
      <4>3. key \in DOMAIN c.cache[k] /\ ~Same(h, k, key) /\ key # Null /\ kept /\ mounted
        BY <1>4, <2>3, <2>4, <3>2
      <4> USE DEF kept
      <4> QED  BY <4>1, <4>2, <4>3 DEF RenderKeepAlive, Showing, Init, Insert
    <3> HIDE DEF kept
    <3>4. Fits(n, -1, Range(n.activated)) /\ Rendered(n, c, k, key, kept, mounted)
      BY <2>1, <2>3, <2>4, <3>1, <3>2, RenderKept
    <3> HIDE DEF n, g
    <3>5. Rendered(n, h, k, key, kept, mounted)
      BY <2>2, <3>4, SearchedIsRendered
    <3>6. Goal(g)
      BY <3>3, <3>4, <3>5
    <3> QED  BY <3>6 DEF g, kept
  <2>5. CASE ~(kept /\ key \in DOMAIN h.cache[k])
    <3> DEFINE r == CreateInstance(c, k, key)
               i == Len(c.inst) + 1
               put == IF kept THEN PutNew(r, k, key, i) ELSE r
               n == InsertNew(Showing(DestroyHook(put, k), k, i, kept), i, kept, mounted)
    <3>1. k \in KeepAlives(c) /\ Typed(c)
      BY <1>1, <2>2 DEF Searched
    <3>2. Typed(r) /\ Created(r, c, k, key)
      BY <2>1, <3>1, CreateIs
    <3>3. i # 0 /\ i \notin DOMAIN c.inst /\ r.cache[k] = c.cache[k]
      BY <3>1, <3>2 DEF Created
    <3>4. i # old
      <4>1. old # 0 => old \in DOMAIN c.inst
        BY <1>1, <2>2 DEF Searched
      <4> QED  BY <3>3, <4>1
    <3>5. found = 0 /\ (kept => key \notin DOMAIN r.cache[k])
      BY <2>3, <2>5, <3>3
    <3>6. g = n
      <4> HIDE DEF r, i, found
      <4> DEFINE from == IF kept THEN Cached(h, k, key) ELSE [h |-> h, instance |-> 0]
                 now == IF Same(h, k, key) THEN [h |-> from.h, instance |-> old]
                        ELSE IF key = Null THEN from ELSE Init(from, k, key)
                 left == IF kept /\ key \notin DOMAIN now.h.cache[k]
                         THEN [now.h EXCEPT !.cache[k] = With(@, key, now.instance),
                                            !.late = IF now.instance = old THEN @ \union {now.instance} ELSE @]
                         ELSE now.h
                 shows(x) == [x EXCEPT !.shown[k] = now.instance, !.kept[k] = kept]
      <4>1. g = IF now.instance = old THEN shows(left)
                ELSE IF now.instance = 0 THEN shows(DestroyHook(left, k))
                ELSE Insert(shows(DestroyHook(left, k)), now.instance, from.instance = 0, kept, mounted)
        BY Zenon DEF RenderKeepAlive
      <4> HIDE DEF g
      <4>2. from.h = c /\ from.instance = 0
        <5>1. CASE kept
          BY <2>2, <3>5, <5>1 DEF c
        <5>2. CASE ~kept
          BY <5>2 DEF c
        <5> QED  BY <5>1, <5>2
      <4> HIDE DEF from
      <4>3. now = [h |-> r, instance |-> i]
        BY <1>4, <4>2 DEF Init, r, i
      <4> HIDE DEF now
      <4>4. now.h = r /\ now.instance = i
        BY <4>3
      <4>5. left = put
        BY <3>4, <3>5, <4>4 DEF PutNew, Put
      <4>6. shows(DestroyHook(left, k)) = Showing(DestroyHook(put, k), k, i, kept)
        BY <4>4, <4>5 DEF Showing
      <4> HIDE DEF left, put, shows
      <4>7. g = Insert(Showing(DestroyHook(put, k), k, i, kept), i, from.instance = 0, kept, mounted)
        BY <3>3, <3>4, <4>1, <4>4, <4>6 DEF Insert
      <4> QED  BY <4>2, <4>7 DEF InsertNew, Insert
    <3> HIDE DEF kept
    <3>7. IF kept THEN Listed(c, k, key) /\ key \notin DOMAIN c.cache[k]
          ELSE Listed(c, -1, Null) /\ k = 0
      BY <1>1, <1>4, <2>2, <2>3, <2>5
    <3>8. Told(c, -1, Range(c.activated)) /\ (~mounted => k = 0)
      BY <2>2, <2>3
    <3>9. Fits(n, -1, Range(n.activated)) /\ Rendered(n, c, k, key, kept, mounted)
      BY <1>1, <2>1, <2>2, <2>3, <3>7, <3>8, RenderNew
    <3> HIDE DEF n, g
    <3>10. Rendered(n, h, k, key, kept, mounted)
      BY <2>2, <3>9, SearchedIsRendered
    <3>11. Goal(g)
      BY <3>6, <3>9, <3>10
    <3> QED  BY <3>11 DEF g, kept
  <2> QED  BY <2>4, <2>5
<1> QED  BY <1>2, <1>3, <1>4

-----------------------------------------------------------------------------
(* The hooks that wait for the end of the flush. *)

\* One of those who wait is activated, or it is not, as the instance around went.
LEMMA ActivateQueuedFits ==
    ASSUME NEW h, NEW queue, Fits(h, -1, queue), NEW i \in DOMAIN h.inst, i \in queue
    PROVE  LET g == ActivateQueued(h, i)
           IN  Fits(g, -1, queue \ {i}) /\ Leaves(g, h, Feelings)
<1> DEFINE d == [h EXCEPT !.active = @ \ {i}, !.inactive = @ \union {i}]
           g == ActivateQueued(h, i)
           is == Wakers(d, i)
           r == queue \ {i}
<1>1. Typed(h) /\ Placed(h, -1) /\ Told(h, -1, queue) /\ Listed(h, -1, Null) /\ Len(h.keys[0]) <= MaxCached
  BY DEF Fits
<1>2. /\ Leaves(d, h, Feelings)
      /\ d.active = h.active \ {i} /\ d.inactive = h.inactive \union {i} /\ d.direct = h.direct
      /\ d.told = h.told /\ d.wrong = h.wrong
  BY <1>1, FieldsAre DEF Typed, Leaves, Feelings
<1> HIDE DEF d
<1>3. UNION {d.active, d.inactive, d.direct, d.told, d.wrong} \subseteq DOMAIN h.inst
  BY <1>1, <1>2 DEF Typed
<1>4. d.active \intersect d.inactive = {}
  BY <1>1, <1>2 DEF Typed
<1>5. /\ Typed(d) /\ d.inst = h.inst /\ d.destroyed = h.destroyed
      /\ \A j : ParentOf(d, j) = ParentOf(h, j)
  BY <1>1, <1>2, <1>3, <1>4, FeelingsOnly
<1>6. is = IF ParentOf(h, i) \in d.inactive THEN {}
           ELSE {i} \union {j \in ChildrenOf(h, i) : j \notin h.active /\ j \notin h.direct}
  <2>1. ParentOf(h, i) # i /\ i \notin ChildrenOf(h, i)
    BY <1>1, TwoLevels DEF ChildrenOf
  <2>2. ChildrenOf(d, i) = ChildrenOf(h, i)
    BY <1>5 DEF ChildrenOf
  <2> QED  BY <1>2, <1>5, <2>1, <2>2 DEF Wakers, IsInInactiveTree
<1>7. ParentOf(h, i) \in d.inactive <=> ParentOf(h, i) \in h.inactive
  BY <1>1, <1>2, TwoLevels
<1>8. /\ Leaves(g, d, Feelings)
      /\ g.direct = d.direct \ {i}
      /\ g.active = d.active \union is /\ g.inactive = d.inactive \ is /\ g.told = d.told \union is
      /\ g.wrong = d.wrong \union (is \intersect d.told)
  BY <1>5, ActivateIs DEF Feelings, ActivateQueued, d
<1> HIDE DEF g
<1>9. is \subseteq DOMAIN h.inst
  BY <1>6 DEF ChildrenOf
<1> HIDE DEF is
<1>10. Leaves(g, h, Feelings)
  BY <1>2, <1>8 DEF Leaves
<1>11. /\ g.direct = h.direct \ {i}
       /\ g.active = (h.active \ {i}) \union is /\ g.inactive = (h.inactive \union {i}) \ is
       /\ g.told = h.told \union is
       /\ g.wrong = h.wrong \union (is \intersect h.told)
  BY <1>2, <1>8
<1>12. UNION {g.active, g.inactive, g.direct, g.told, g.wrong} \subseteq DOMAIN h.inst
  BY <1>1, <1>9, <1>11 DEF Typed
<1>13. g.active \intersect g.inactive = {}
  BY <1>1, <1>11 DEF Typed
<1>14. /\ Typed(g)
       /\ g.inst = h.inst /\ g.shown = h.shown /\ g.keys = h.keys
       /\ g.spared = h.spared /\ g.late = h.late /\ KeepAlives(g) = KeepAlives(h)
       /\ \A j : ParentOf(g, j) = ParentOf(h, j)
       /\ \A j : IsCached(g, j) <=> IsCached(h, j)
  BY <1>1, <1>10, <1>12, <1>13, FeelingsOnly
<1>15. Placed(g, -1) /\ Listed(g, -1, Null) /\ Judged(g, -1) = Judged(h, -1)
  BY <1>1, <1>10, FeelingsKeepPlaces
<1>16. Told(g, -1, r)
  <2> SUFFICES ASSUME NEW j \in Judged(h, -1) PROVE Hears(g, j, r)
    BY <1>15 DEF Told
  <2> DEFINE p == ParentOf(h, j)
  <2>1. j \in LiveIn(h) /\ j \in DOMAIN h.inst /\ Hears(h, j, queue)
    BY <1>1 DEF Told, Judged, LiveIn
  <2>2. /\ p \in KeepAlives(h) /\ p # j /\ j # 0 /\ ParentOf(g, j) = p /\ 0 \notin h.inactive
        /\ IsCached(g, j) <=> IsCached(h, j)
        /\ g.shown = h.shown
    BY <1>1, <1>14, <2>1, TwoLevels DEF Typed
  <2>3. CASE j = i
    <3>1. /\ j \in queue /\ j \in h.active /\ j \notin h.told /\ j \notin h.wrong /\ h.shown[p] = j
          /\ p = 0 => IsCached(h, j)
      BY <2>1, <2>3 DEF Hears
    <3>2. CASE p \in h.inactive
      <4>1. is = {} /\ p # 0
        BY <1>6, <1>7, <2>2, <2>3, <3>2
      <4>2. /\ j \notin g.active /\ j \in g.inactive /\ j \notin g.told /\ j \notin g.wrong /\ j \notin g.direct
            /\ j \notin r /\ p \in g.inactive
        BY <1>11, <2>3, <3>1, <3>2, <4>1
      <4> HIDE DEF p, r
      <4>3. p = ParentOf(g, j)
        BY <2>2
      <4> QED  BY <2>2, <3>1, <4>1, <4>2, <4>3 DEF Hears
    <3>3. CASE p \notin h.inactive
      <4>1. j \in is /\ p \notin is
        BY <1>1, <1>6, <1>7, <2>1, <2>2, <2>3, <3>3, TwoLevels DEF ChildrenOf
      <4>2. /\ j \in g.active /\ j \notin g.inactive /\ j \in g.told /\ j \notin g.wrong /\ j \notin g.direct
            /\ j \notin r /\ p \notin g.inactive
        BY <1>11, <2>2, <2>3, <3>1, <3>3, <4>1
      <4> HIDE DEF p, r
      <4>3. p = ParentOf(g, j)
        BY <2>2
      <4> QED  BY <2>2, <3>1, <4>2, <4>3 DEF Hears
    <3> QED  BY <3>2, <3>3
  <2>4. CASE j # i /\ p = i
    <3>1. p # 0 /\ ParentOf(h, i) = 0
      BY <1>1, <2>1, <2>4, TwoLevels
    <3>2. is = {i} \union {x \in ChildrenOf(h, i) : x \notin h.active /\ x \notin h.direct}
      BY <1>6, <1>7, <2>2, <3>1
    <3>3. j \in is <=> j \notin h.active /\ j \notin h.direct
      BY <2>1, <2>4, <3>2 DEF ChildrenOf, LiveIn
    <3>4. p \in is /\ p \notin g.inactive
      BY <1>11, <2>4, <3>2
    <3>5. CASE j \in is
      <4>1. /\ j \notin h.told /\ j \notin queue /\ j \notin h.wrong /\ h.shown[p] = j
        BY <2>1, <3>3, <3>5 DEF Hears
      <4>2. /\ j \in g.active /\ j \notin g.inactive /\ j \in g.told /\ j \notin g.wrong /\ j \notin g.direct
            /\ j \notin r
        BY <1>11, <3>3, <3>5, <4>1
      <4> HIDE DEF p, r
      <4>3. p = ParentOf(g, j)
        BY <2>2
      <4> QED  BY <2>2, <3>1, <3>4, <4>1, <4>2, <4>3 DEF Hears
    <3>6. CASE j \notin is
      <4>1. /\ j \in g.active <=> j \in h.active
            /\ j \in g.inactive <=> j \in h.inactive
            /\ j \in g.told <=> j \in h.told
            /\ j \in g.direct <=> j \in h.direct
            /\ j \in r <=> j \in queue
            /\ j \notin g.wrong
        BY <1>11, <2>1, <2>4, <3>6 DEF Hears
      <4>2. h.shown[p] = j => j \in g.active
        BY <2>1, <3>3, <3>6, <4>1 DEF Hears
      <4> HIDE DEF r
      <4>3. /\ j \in g.active <=> j \in g.told \union r
            /\ ~(j \in g.told /\ j \in r)
            /\ j \in g.direct => g.shown[p] # j \/ j \in r
            /\ g.shown[p] # j => j \in g.direct /\ j \notin g.active
            /\ IsCached(g, j) => j \in g.active \union g.inactive
        BY <2>1, <2>2, <4>1 DEF Hears
      <4> HIDE DEF p
      <4>4. p = ParentOf(g, j)
        BY <2>2
      <4> QED  BY <2>2, <3>1, <3>4, <4>1, <4>2, <4>3, <4>4 DEF Hears
    <3> QED  BY <3>5, <3>6
  <2>5. CASE j # i /\ p # i
    <3>1. j \notin is /\ p \notin is
      <4>1. p \notin ChildrenOf(h, i)
        BY <1>1, <2>1, TwoLevels DEF ChildrenOf
      <4> QED  BY <1>6, <2>5, <4>1 DEF ChildrenOf
    <3>2. Alike(g, h, j, r, queue)
      BY <1>11, <1>14, <2>5, <3>1 DEF Alike
    <3> QED  BY <2>1, <3>2, HearAlike
  <2> QED  BY <2>3, <2>4, <2>5
<1> QED  BY <1>1, <1>10, <1>14, <1>15, <1>16 DEF Fits, g

-----------------------------------------------------------------------------
(* The loops. *)

\* A set of numbers that is not empty has a smallest one.
LEMMA HasLeast ==
    ASSUME NEW S, S \subseteq Nat, S # {}
    PROVE  \E x \in S : \A y \in S : x =< y
<1> DEFINE R == OpToRel(<, Nat)
<1>1. IsWellFoundedOn(R, Nat)
  BY NatLessThanWellFounded
<1>2. \A x, y \in Nat : x < y => <<x, y>> \in R
  BY DEF OpToRel
<1> HIDE DEF R
<1>3. PICK x \in S : \A y \in S : ~(<<y, x>> \in R)
  BY <1>1, WFMin
<1>4. ASSUME NEW y \in S PROVE x =< y
  <2>1. x \in Nat /\ y \in Nat /\ ~(y < x)
    BY <1>2, <1>3
  <2> QED  BY <2>1
<1> QED  BY <1>3, <1>4

\* The two loops over a heap: what the loop starts from, and what turn n makes of g.
StartOf(h, loop) == IF loop = "prune" THEN h ELSE [h EXCEPT !.activated = <<>>]

TurnOf(h, loop, n, g) ==
    IF loop = "prune"
    THEN IF TagOf(h.keys[0][n]) \in include THEN g ELSE PruneEntry(g, 0, h.keys[0][n], CurrentTag(h, 0))
    ELSE ActivateQueued(g, h.activated[n])

\* f[n] is the heap after n turns, of m.
Turns(f, h, loop, m) ==
    f = [n \in 0 .. m |-> IF n = 0 THEN StartOf(h, loop) ELSE TurnOf(h, loop, n, f[n - 1])]

\* There is such a function, for there is no least m without one.
LEMMA TurnsExist ==
    ASSUME NEW h, NEW loop, NEW m \in Nat
    PROVE  \E f : Turns(f, h, loop, m)
<1> DEFINE S == {k \in Nat : ~ \E f : Turns(f, h, loop, k)}
<1> SUFFICES ASSUME S # {} PROVE FALSE
  OBVIOUS
<1>1. PICK k \in S : \A j \in S : k =< j
  <2>1. S \subseteq Nat
    OBVIOUS
  <2> HIDE DEF S
  <2> QED  BY <2>1, HasLeast
<1>2. k # 0
  <2>1. Turns([i \in 0 .. 0 |-> StartOf(h, loop)], h, loop, 0)
    BY DEF Turns
  <2> QED  BY <1>1, <2>1
<1>3. k \in Nat /\ k - 1 \in Nat
  BY <1>1, <1>2
<1>4. PICK g : Turns(g, h, loop, k - 1)
  BY <1>1, <1>3
<1> DEFINE f == [i \in 0 .. k |-> IF i = k THEN TurnOf(h, loop, k, g[k - 1]) ELSE g[i]]
<1>5. \A i \in 0 .. k : f[i] = IF i = 0 THEN StartOf(h, loop) ELSE TurnOf(h, loop, i, f[i - 1])
  <2> TAKE i \in 0 .. k
  <2>1. CASE i = 0
    <3>1. f[i] = g[0] /\ 0 \in 0 .. k - 1
      BY <1>2, <1>3, <2>1
    <3> QED  BY <1>4, <2>1, <3>1 DEF Turns
  <2>2. CASE i = k
    <3>1. f[i] = TurnOf(h, loop, k, g[k - 1]) /\ f[i - 1] = g[k - 1]
      BY <1>2, <1>3, <2>2
    <3> QED  BY <1>2, <2>2, <3>1
  <2>3. CASE i # 0 /\ i # k
    <3>1. f[i] = g[i] /\ f[i - 1] = g[i - 1] /\ i \in 0 .. k - 1
      BY <1>3, <2>3
    <3>2. g[i] = TurnOf(h, loop, i, g[i - 1])
      BY <1>4, <2>3, <3>1 DEF Turns
    <3> QED  BY <2>3, <3>1, <3>2
  <2> QED  BY <2>1, <2>2, <2>3
<1>6. f = [i \in 0 .. k |-> f[i]]
  OBVIOUS
<1> HIDE DEF f
<1>7. Turns(f, h, loop, k)
  BY <1>5, <1>6 DEF Turns
<1> QED  BY <1>1, <1>7

\* The loop of callActivatedHooks is these turns,
LEMMA HooksAreTurns ==
    ASSUME NEW h, Len(h.activated) \in Nat
    PROVE  \E f : Turns(f, h, "activate", Len(h.activated)) /\ CallActivatedHooks(h) = f[Len(h.activated)]
<1> DEFINE m == Len(h.activated)
           F == CHOOSE f : f = [n \in 0 .. m |-> IF n = 0 THEN [h EXCEPT !.activated = <<>>]
                                                ELSE ActivateQueued(f[n - 1], h.activated[n])]
<1>1. \E f : Turns(f, h, "activate", m)
  BY TurnsExist
<1>2. Turns(F, h, "activate", m)
  BY <1>1 DEF Turns, StartOf, TurnOf
<1>3. CallActivatedHooks(h) = F[m]
  BY DEF CallActivatedHooks
<1> HIDE DEF F, m
<1> QED  BY <1>2, <1>3 DEF m

\* and so is that of pruneCache.
LEMMA PruningIsTurns ==
    ASSUME NEW h, Len(h.keys[0]) \in Nat
    PROVE  \E f : Turns(f, h, "prune", Len(h.keys[0])) /\ PruneCache(h) = f[Len(h.keys[0])]
<1> DEFINE m == Len(h.keys[0])
           F == CHOOSE f : f = [n \in 0 .. m |->
                                  IF n = 0 THEN h
                                  ELSE IF TagOf(h.keys[0][n]) \in include THEN f[n - 1]
                                  ELSE PruneEntry(f[n - 1], 0, h.keys[0][n], CurrentTag(h, 0))]
<1>1. \E f : Turns(f, h, "prune", m)
  BY TurnsExist
<1>2. Turns(F, h, "prune", m)
  BY <1>1 DEF Turns, StartOf, TurnOf
<1>3. PruneCache(h) = F[m]
  BY DEF PruneCache
<1> HIDE DEF F, m
<1> QED  BY <1>2, <1>3 DEF m

\* What g and h have in common, after the hooks.
Calls(g, h) ==
    /\ g.inst = h.inst /\ g.destroyed = h.destroyed /\ g.cache = h.cache
    /\ g.shown = h.shown /\ g.kept = h.kept
    /\ g.activated = <<>>

\* The queue is copied and emptied first.
LEMMA UnqueuedFits ==
    ASSUME NEW h, NEW queue, Fits(h, -1, queue)
    PROVE  LET g == [h EXCEPT !.activated = <<>>]
           IN  Fits(g, -1, queue) /\ Calls(g, h)
<1> DEFINE g == [h EXCEPT !.activated = <<>>]
<1>1. Leaves(g, h, {"activated"}) /\ g.activated = <<>> /\ DOMAIN g = DOMAIN Empty
  BY FieldsAre DEF Fits, Typed, Leaves
<1> HIDE DEF g
<1>2. /\ g.inst = h.inst /\ g.active = h.active /\ g.inactive = h.inactive /\ g.direct = h.direct
      /\ g.destroyed = h.destroyed /\ g.told = h.told /\ g.cache = h.cache /\ g.keys = h.keys
      /\ g.shown = h.shown /\ g.kept = h.kept /\ g.spared = h.spared /\ g.late = h.late /\ g.wrong = h.wrong
  BY <1>1, FieldsAre DEF Fits, Typed, Leaves
<1>3. /\ LiveIn(g) = LiveIn(h) /\ KeepAlives(g) = KeepAlives(h)
      /\ \A j : ParentOf(g, j) = ParentOf(h, j)
      /\ \A j : IsCached(g, j) <=> IsCached(h, j)
  BY <1>2 DEF LiveIn, KeepAlives, ComponentOf, ParentOf, IsCached
<1>4. Typed(g)
  BY <1>1, <1>2, <1>3 DEF Fits, Typed
<1>5. Placed(g, -1)
  BY <1>2, <1>3 DEF Fits, Placed
<1>6. Listed(g, -1, Null)
  BY <1>2, <1>3 DEF Fits, Listed
<1>7. Told(g, -1, queue)
  <2> SUFFICES ASSUME NEW j \in Judged(g, -1) PROVE Hears(g, j, queue)
    BY DEF Told
  <2>1. j \in Judged(h, -1)
    BY <1>2, <1>3 DEF Judged
  <2>2. Hears(h, j, queue)
    BY <2>1 DEF Fits, Told
  <2>3. Alike(g, h, j, queue, queue)
    BY <1>2, <1>3 DEF Alike
  <2> QED  BY <2>2, <2>3, HearAlike
<1> QED  BY <1>1, <1>2, <1>4, <1>5, <1>6, <1>7 DEF Fits, Calls, g

\* Those of s from n on.
From(s, n) == {s[x] : x \in {y \in DOMAIN s : y > n}}

\* At the end of the flush, all who wait have been told.
LEMMA HooksFit ==
    ASSUME NEW h, Fits(h, -1, Range(h.activated)), IsInjective(h.activated)
    PROVE  LET g == CallActivatedHooks(h) IN Fits(g, -1, {}) /\ Calls(g, h)
<1> DEFINE s == h.activated
           m == Len(s)
           D == DOMAIN h.inst
<1>1. s \in Seq(D) /\ IsInjective(s)
  BY DEF Fits, Typed
<1> HIDE DEF D
<1>2. m \in Nat /\ DOMAIN s = 1 .. m /\ \A x \in 1 .. m : s[x] \in D
  BY <1>1
<1>3. \A x, y \in 1 .. m : s[x] = s[y] => x = y
  BY <1>1, <1>2 DEF IsInjective
<1>4. PICK f : Turns(f, h, "activate", m) /\ CallActivatedHooks(h) = f[m]
  <2>1. Len(h.activated) \in Nat
    BY <1>2
  <2>2. \E f : Turns(f, h, "activate", Len(h.activated)) /\ CallActivatedHooks(h) = f[Len(h.activated)]
    BY <2>1, HooksAreTurns
  <2> QED  BY <2>2
<1>5. f[0] = [h EXCEPT !.activated = <<>>] /\ \A n \in 1 .. m : f[n] = ActivateQueued(f[n - 1], s[n])
  <2> HIDE DEF m
  <2>1. 0 \in 0 .. m /\ \A n \in 1 .. m : n \in 0 .. m /\ n # 0
    BY <1>2
  <2>2. f[0] = StartOf(h, "activate") /\ \A n \in 1 .. m : f[n] = TurnOf(h, "activate", n, f[n - 1])
    BY <1>4, <2>1 DEF Turns
  <2> QED  BY <2>2 DEF StartOf, TurnOf
<1>6. Fits(h, -1, Range(s))
  OBVIOUS
<1> HIDE DEF s, m
<1> DEFINE P(n) == Fits(f[n], -1, From(s, n)) /\ Calls(f[n], h)
           S == {n \in 0 .. m : ~P(n)}
<1>7. S = {}
  <2> SUFFICES ASSUME S # {} PROVE FALSE
    OBVIOUS
  <2>1. PICK n \in S : \A j \in S : n =< j
    <3>1. S \subseteq Nat
      OBVIOUS
    <3> HIDE DEF S
    <3> QED  BY <3>1, HasLeast
  <2>2. n \in 0 .. m /\ ~P(n)
    BY <2>1
  <2>3. P(0)
    <3>1. From(s, 0) = Range(s)
      BY <1>2 DEF From, Range
    <3>2. Fits(f[0], -1, Range(s)) /\ Calls(f[0], h)
      BY <1>5, <1>6, UnqueuedFits
    <3> QED  BY <3>1, <3>2
  <2>4. n \in 1 .. m /\ n - 1 \in 0 .. m /\ n - 1 < n
    BY <1>2, <2>2, <2>3
  <2>5. P(n - 1)
    <3>1. n - 1 \notin S
      BY <1>2, <2>1, <2>4
    <3> QED  BY <2>4, <3>1
  <2> DEFINE g == f[n - 1]
  <2>6. Fits(g, -1, From(s, n - 1)) /\ Calls(g, h)
    BY <2>5
  <2>7. f[n] = ActivateQueued(g, s[n]) /\ s[n] \in D
    BY <1>2, <1>5, <2>4
  <2>8. s[n] \in From(s, n - 1) /\ From(s, n) = From(s, n - 1) \ {s[n]}
    <3>1. \A x \in 1 .. m : x > n - 1 <=> x > n \/ x = n
      BY <1>2, <2>4
    <3>2. n \in {y \in DOMAIN s : y > n - 1}
      BY <1>2, <2>4
    <3>3. \A x \in 1 .. m : x > n => x # n
      BY <1>2, <2>4
    <3> QED  BY <1>2, <1>3, <2>4, <3>1, <3>2, <3>3 DEF From
  <2> HIDE DEF g
  <2>9. s[n] \in DOMAIN g.inst
    BY <2>6, <2>7 DEF Calls, D
  <2>10. Fits(f[n], -1, From(s, n)) /\ Leaves(f[n], g, Feelings)
    BY <2>6, <2>7, <2>8, <2>9, ActivateQueuedFits
  <2>11. Typed(g)
    BY <2>6 DEF Fits
  <2>12. Calls(f[n], h)
    BY <2>6, <2>10, <2>11, FieldsAre DEF Calls, Leaves, Feelings, Typed
  <2> QED  BY <2>2, <2>10, <2>12
<1>8. P(m)
  <2>1. m \in 0 .. m
    BY <1>2
  <2> QED  BY <1>7, <2>1
<1>9. From(s, m) = {}
  BY <1>2 DEF From
<1> QED  BY <1>4, <1>8, <1>9

\* What the turns of the loop over keys have left of h.
Thinned(g, h, gone) ==
    /\ g.inst = h.inst /\ KeepAlives(g) = KeepAlives(h)
    /\ g.kept = h.kept /\ g.activated = h.activated /\ g.shown[0] = h.shown[0]
    /\ h.destroyed \subseteq g.destroyed
    /\ DOMAIN g.cache[0] = DOMAIN h.cache[0] \ gone
    /\ \A x \in DOMAIN g.cache[0] : g.cache[0][x] = h.cache[0][x]

\* The keys that the first n turns prune.
Outside(s, n) == {s[x] : x \in {y \in DOMAIN s : y =< n /\ TagOf(s[y]) \notin include}}

\* One turn of the loop.
LEMMA PruneTurn ==
    ASSUME NEW h, NEW queue, NEW g, Fits(g, -1, queue), NEW gone, Thinned(g, h, gone),
           NEW key \in DOMAIN h.cache[0] \ gone
    PROVE  LET r == PruneEntry(g, 0, key, CurrentTag(h, 0))
           IN  Fits(r, -1, queue) /\ Thinned(r, h, gone \union {key})
<1> DEFINE r == PruneEntry(g, 0, key, CurrentTag(h, 0))
<1>1. CurrentTag(h, 0) = CurrentTag(g, 0)
  BY DEF Thinned, CurrentTag, ComponentOf
<1>2. r = PruneEntry(g, 0, key, CurrentTag(g, 0))
  BY <1>1
<1> HIDE DEF r
<1>3. key \in DOMAIN g.cache[0] /\ 0 \in KeepAlives(g)
  BY DEF Thinned, KeepAlives
<1>4. g.cache[0][key] # -1
  <2>1. g.cache[0][key] \in LiveIn(g)
    BY <1>3 DEF Fits, Placed
  <2> QED  BY <2>1, TwoLevels DEF Fits, LiveIn
<1>5. Typed(g) /\ Placed(g, -1) /\ Told(g, -1, queue) /\ Listed(g, -1, Null) /\ Len(g.keys[0]) <= MaxCached
  BY DEF Fits
<1>6. /\ Typed(r) /\ Placed(r, -1) /\ Told(r, -1, queue) /\ Listed(r, -1, Null) /\ Pruned(r, g, key)
  BY <1>2, <1>3, <1>4, <1>5, PruneFits
<1>7. Len(r.keys[0]) <= MaxCached
  <2>1. Len(r.keys[0]) = Len(g.keys[0]) - 1
    BY <1>6 DEF Pruned
  <2>2. Len(g.keys[0]) \in Nat
    BY <1>3, <1>5 DEF Listed
  <2> QED  BY <1>5, <2>1, <2>2, MaxAssumption
<1>8. Thinned(r, h, gone \union {key})
  BY <1>6 DEF Thinned, Pruned
<1> QED  BY <1>6, <1>7, <1>8 DEF Fits, r

\* The watcher of include prunes what is not to be kept.
LEMMA PruningFits ==
    ASSUME NEW h, NEW queue, Fits(h, -1, queue)
    PROVE  LET g == PruneCache(h)
           IN  /\ Fits(g, -1, queue)
               /\ Thinned(g, h, {key \in DOMAIN h.cache[0] : TagOf(key) \notin include})
<1> DEFINE s == h.keys[0]
           m == Len(s)
<1>1. /\ s \in Seq(Range(s)) /\ IsInjective(s) /\ Range(s) = DOMAIN h.cache[0]
  <2>1. 0 \in KeepAlives(h) /\ 0 # -1
    BY DEF KeepAlives
  <2> QED  BY <2>1 DEF Fits, Listed
<1>2. m \in Nat /\ DOMAIN s = 1 .. m /\ \A x \in 1 .. m : s[x] \in DOMAIN h.cache[0]
  BY <1>1
<1>3. \A x, y \in 1 .. m : s[x] = s[y] => x = y
  BY <1>1, <1>2 DEF IsInjective
<1>4. PICK f : Turns(f, h, "prune", m) /\ PruneCache(h) = f[m]
  <2>1. Len(h.keys[0]) \in Nat
    BY <1>2
  <2>2. \E f : Turns(f, h, "prune", Len(h.keys[0])) /\ PruneCache(h) = f[Len(h.keys[0])]
    BY <2>1, PruningIsTurns
  <2> QED  BY <2>2
<1>5. f[0] = h /\ \A n \in 1 .. m : f[n] = IF TagOf(s[n]) \in include THEN f[n - 1]
                                          ELSE PruneEntry(f[n - 1], 0, s[n], CurrentTag(h, 0))
  <2> HIDE DEF m
  <2>1. 0 \in 0 .. m /\ \A n \in 1 .. m : n \in 0 .. m /\ n # 0
    BY <1>2
  <2>2. f[0] = StartOf(h, "prune") /\ \A n \in 1 .. m : f[n] = TurnOf(h, "prune", n, f[n - 1])
    BY <1>4, <2>1 DEF Turns
  <2> QED  BY <2>2 DEF StartOf, TurnOf
<1> HIDE DEF s, m
<1> DEFINE P(n) == Fits(f[n], -1, queue) /\ Thinned(f[n], h, Outside(s, n))
           S == {n \in 0 .. m : ~P(n)}
<1>6. S = {}
  <2> SUFFICES ASSUME S # {} PROVE FALSE
    OBVIOUS
  <2>1. PICK n \in S : \A j \in S : n =< j
    <3>1. S \subseteq Nat
      OBVIOUS
    <3> HIDE DEF S
    <3> QED  BY <3>1, HasLeast
  <2>2. n \in 0 .. m /\ ~P(n)
    BY <2>1
  <2>3. P(0)
    <3>1. Outside(s, 0) = {}
      BY <1>2 DEF Outside
    <3> QED  BY <1>5, <3>1 DEF Thinned
  <2>4. n \in 1 .. m /\ n - 1 \in 0 .. m /\ n - 1 < n
    BY <1>2, <2>2, <2>3
  <2>5. P(n - 1)
    <3>1. n - 1 \notin S
      BY <1>2, <2>1, <2>4
    <3> QED  BY <2>4, <3>1
  <2> DEFINE g == f[n - 1]
             gone == Outside(s, n - 1)
  <2>6. Fits(g, -1, queue) /\ Thinned(g, h, gone)
    BY <2>5
  <2>7. s[n] \in DOMAIN h.cache[0] \ gone
    <3>1. \A x \in 1 .. m : x =< n - 1 => x # n
      BY <1>2, <2>4
    <3> QED  BY <1>2, <1>3, <2>4, <3>1 DEF Outside
  <2>8. Outside(s, n) = IF TagOf(s[n]) \in include THEN gone ELSE gone \union {s[n]}
    <3>1. \A x \in 1 .. m : x =< n <=> x =< n - 1 \/ x = n
      BY <1>2, <2>4
    <3> QED  BY <1>2, <2>4, <3>1 DEF Outside
  <2> HIDE DEF g, gone
  <2>9. CASE TagOf(s[n]) \in include
    <3>1. f[n] = g
      BY <1>5, <2>4, <2>9 DEF g
    <3> QED  BY <2>2, <2>6, <2>8, <2>9, <3>1
  <2>10. CASE TagOf(s[n]) \notin include
    <3>1. f[n] = PruneEntry(g, 0, s[n], CurrentTag(h, 0))
      BY <1>5, <2>4, <2>10 DEF g
    <3>2. Fits(f[n], -1, queue) /\ Thinned(f[n], h, gone \union {s[n]})
      BY <2>6, <2>7, <3>1, PruneTurn
    <3> QED  BY <2>2, <2>8, <2>10, <3>2
  <2> QED  BY <2>9, <2>10
<1>7. P(m)
  <2>1. m \in 0 .. m
    BY <1>2
  <2> QED  BY <1>6, <2>1
<1>8. Outside(s, m) = {key \in DOMAIN h.cache[0] : TagOf(key) \notin include}
  <2>1. \A x \in 1 .. m : x =< m
    BY <1>2
  <2>2. \A key : key \in DOMAIN h.cache[0] <=> \E x \in 1 .. m : s[x] = key
    BY <1>1, <1>2 DEF Range
  <2> QED  BY <1>2, <2>1, <2>2 DEF Outside
<1> QED  BY <1>4, <1>7, <1>8

-----------------------------------------------------------------------------
(* The actions. *)

\* An empty heap may be rendered.
LEMMA EmptyFits ==
    Fits(Empty, -1, {}) /\ Ready(Empty, 0) /\ KeepAlives(Empty) = {0}
<1> DEFINE h == Empty
<1>1. /\ h.inst = <<>> /\ h.active = {} /\ h.inactive = {} /\ h.direct = {} /\ h.destroyed = {} /\ h.told = {}
      /\ h.cache = [k \in {0} |-> <<>>] /\ h.keys = [k \in {0} |-> <<>>]
      /\ h.shown = [k \in {0} |-> 0] /\ h.kept = [k \in {0} |-> FALSE]
      /\ h.activated = <<>> /\ h.spared = {} /\ h.late = {} /\ h.wrong = {}
  BY DEF Empty
<1> HIDE DEF h
<1>2. DOMAIN h.inst = {} /\ KeepAlives(h) = {0} /\ LiveIn(h) = {}
  BY <1>1 DEF KeepAlives, LiveIn
<1>3. DOMAIN h.cache[0] = {} /\ h.keys[0] = <<>> /\ h.shown[0] = 0
  BY <1>1
<1>4. Typed(h)
  <2>1. DOMAIN h = DOMAIN Empty
    BY DEF h
  <2>2. h.inst \in Seq([key : Keys \union Inner, parent : Nat]) /\ h.activated \in Seq(DOMAIN h.inst)
    BY <1>1
  <2>3. /\ DOMAIN h.cache = KeepAlives(h) /\ DOMAIN h.keys = KeepAlives(h)
        /\ DOMAIN h.shown = KeepAlives(h) /\ DOMAIN h.kept = KeepAlives(h)
    BY <1>1, <1>2
  <2>4. UNION {h.active, h.inactive, h.direct, h.destroyed, h.told, h.spared, h.late, h.wrong} \subseteq DOMAIN h.inst
    BY <1>1
  <2>5. h.active \intersect h.inactive = {}
    BY <1>1
  <2> QED  BY <1>2, <2>1, <2>2, <2>3, <2>4, <2>5 DEF Typed
<1>5. Placed(h, -1)
  BY <1>2, <1>3 DEF Placed
<1>6. Told(h, -1, {})
  BY <1>2 DEF Told, Judged
<1>7. Listed(h, -1, Null)
  <2>1. h.keys[0] \in Seq(Range(h.keys[0])) /\ IsInjective(h.keys[0]) /\ Range(h.keys[0]) = {}
    BY <1>3 DEF IsInjective, Range
  <2>2. ASSUME NEW k \in KeepAlives(h)
        PROVE  /\ h.keys[k] \in Seq(Range(h.keys[k])) /\ IsInjective(h.keys[k])
               /\ Range(h.keys[k]) = DOMAIN h.cache[k] \union (IF k = -1 THEN {Null} ELSE {})
    <3>1. k = 0 /\ k # -1
      BY <1>2
    <3> QED  BY <1>3, <2>1, <3>1
  <2> QED  BY <2>2 DEF Listed
<1>8. Len(h.keys[0]) <= MaxCached
  BY <1>3, MaxAssumption
<1>9. Ready(h, 0)
  <2>1. IsInjective(h.activated) /\ Range(h.activated) = {}
    BY <1>1 DEF IsInjective, Range
  <2> QED  BY <1>1, <1>2, <1>3, <2>1 DEF Ready
<1> QED  BY <1>2, <1>4, <1>5, <1>6, <1>7, <1>8, <1>9 DEF Fits, h

\* At first.
LEMMA InitHolds == KeepInit => KeepInv
BY DEF KeepInit, KeepInv

\* One lemma for each action.
LEMMA MountRootKeeps == ASSUME KeepInv, MountRoot PROVE KeepInv'
<1>1. heap = Empty /\ include = {TagOf(key) : key \in Keys} /\ unrendered = {} /\ ~watches /\ ~flushes
  BY DEF KeepInv, MountRoot
<1>2. PICK key \in Keys \union {Null} :
         heap' = RenderKeepAlive(heap, 0, key, FALSE) /\ wants' = WithNew([k \in {0} |-> key], heap')
  BY DEF MountRoot
<1>3. include' = include /\ unrendered' = {} /\ watches' = watches /\ flushes' = flushes
  BY <1>1 DEF MountRoot
<1> DEFINE mounted == FALSE
           kept == key # Null /\ Keeps(0, key)
           h == Empty
<1>4. ~mounted /\ mounted \in BOOLEAN /\ heap' = RenderKeepAlive(h, 0, key, mounted)
  BY <1>1, <1>2
<1> HIDE DEF mounted
<1>5. /\ Fits(h, -1, Range(h.activated)) /\ Ready(h, 0) /\ KeepAlives(h) = {0}
      /\ h.activated = <<>> /\ DOMAIN h.cache[0] = {} /\ ~h.kept[0]
  <2>1. h.activated = <<>> /\ DOMAIN h.cache[0] = {} /\ ~h.kept[0]
    BY DEF Empty
  <2>2. Range(h.activated) = {}
    BY <2>1 DEF Range
  <2> QED  BY <2>1, <2>2, EmptyFits
<1> HIDE DEF h
<1>6. Fits(heap', -1, Range(heap'.activated)) /\ Rendered(heap', h, 0, key, kept, mounted)
  <2>1. key \in (IF 0 = 0 THEN Keys ELSE Inner) \union {Null}
    OBVIOUS
  <2>2. 0 = 0 /\ h.shown[0] # 0 /\ h.kept[0] => IsCached(h, h.shown[0])
    BY <1>5
  <2> QED  BY <1>4, <1>5, <2>1, <2>2, RenderFits
<1> HIDE DEF kept
<1>7. /\ heap'.activated = <<>>
      /\ heap'.shown[0] # 0 => /\ key # Null /\ heap'.inst[heap'.shown[0]].key = key /\ heap'.kept[0] = kept
                               /\ kept => IsCached(heap', heap'.shown[0])
      /\ DOMAIN heap'.cache[0] \subseteq IF kept THEN {key} ELSE {}
      /\ IsInjective(heap'.activated)
  BY <1>4, <1>5, <1>6 DEF Rendered
<1>8. kept => TagOf(key) \in include
  BY DEF kept, Keeps
<1>9. Typed(heap') /\ 0 \in KeepAlives(heap')
  BY <1>6 DEF Fits, KeepAlives
<1>10. DOMAIN wants' = KeepAlives(heap')
  BY <1>2, <1>9 DEF WithNew, Typed
<1>11. \A k \in DOMAIN wants' : wants'[k] \in (IF k = 0 THEN Keys ELSE Inner) \union {Null}
  BY <1>2, <1>10, LevelsAssumption DEF WithNew
<1>12. Mounted'
  <2>1. Range(heap'.activated) = {}
    BY <1>7 DEF Range
  <2>2. \A y \in DOMAIN heap'.cache[0] : TagOf(y) \in include'
    BY <1>3, <1>7, <1>8
  <2>3. heap'.shown[0] # 0 =>
           /\ heap'.kept[0] => IsCached(heap', heap'.shown[0])
           /\ heap'.kept[0] <=> ComponentOf(heap', heap'.shown[0]) \in include'
           /\ ~heap'.kept[0] => DOMAIN heap'.cache[0] = {}
    <3> SUFFICES ASSUME heap'.shown[0] # 0
                 PROVE  /\ heap'.kept[0] => IsCached(heap', heap'.shown[0])
                        /\ heap'.kept[0] <=> ComponentOf(heap', heap'.shown[0]) \in include'
                        /\ ~heap'.kept[0] => DOMAIN heap'.cache[0] = {}
      OBVIOUS
    <3>1. ComponentOf(heap', heap'.shown[0]) = TagOf(key)
      BY <1>7 DEF ComponentOf
    <3>2. kept <=> TagOf(key) \in include
      BY <1>7 DEF kept, Keeps
    <3> QED  BY <1>3, <1>7, <3>1, <3>2
  <2> QED  BY <1>3, <1>6, <1>7, <1>9, <1>10, <1>11, <2>1, <2>2, <2>3 DEF Mounted
<1>13. wants' # <<>>
  BY <1>9, <1>10
<1> QED  BY <1>12, <1>13 DEF KeepInv

LEMMA SelectKeeps == ASSUME KeepInv, Select PROVE KeepInv'
<1>1. Mounted /\ wants # <<>> /\ ~flushes
  BY DEF KeepInv, Select, Handler
<1>2. PICK k \in DOMAIN wants : /\ Alive(k)
                                /\ \E key \in (IF k = 0 THEN Keys ELSE Inner) \union {Null} :
                                      wants' = [wants EXCEPT ![k] = key] /\ unrendered' = unrendered \union {k}
  BY DEF Select
<1>3. PICK key \in (IF k = 0 THEN Keys ELSE Inner) \union {Null} :
         wants' = [wants EXCEPT ![k] = key] /\ unrendered' = unrendered \union {k}
  BY <1>2
<1>4. heap' = heap /\ include' = include /\ watches' = watches /\ flushes' = flushes
  BY DEF Select
<1>5. heap.activated = <<>> /\ Range(heap.activated) = {}
  BY <1>1 DEF Mounted, Range
<1>6. DOMAIN wants' = DOMAIN wants /\ wants' # <<>>
  BY <1>2, <1>3
<1>7. \A x \in DOMAIN wants' : wants'[x] \in (IF x = 0 THEN Keys ELSE Inner) \union {Null}
  BY <1>1, <1>2, <1>3 DEF Mounted
<1>8. unrendered' \subseteq KeepAlives(heap) \ heap.destroyed
  BY <1>1, <1>2, <1>3 DEF Mounted, Alive
<1>9. Mounted'
  BY <1>1, <1>3, <1>4, <1>5, <1>6, <1>7, <1>8 DEF Mounted
<1> QED  BY <1>6, <1>9 DEF KeepInv

LEMMA SetIncludeKeeps == ASSUME KeepInv, SetInclude PROVE KeepInv'
<1>1. Mounted /\ wants # <<>> /\ ~flushes
  BY DEF KeepInv, SetInclude, Handler
<1>2. /\ heap' = heap /\ wants' = wants /\ flushes' = flushes
      /\ unrendered' = unrendered \union {0} /\ watches' = TRUE
  BY DEF SetInclude
<1>3. heap.activated = <<>> /\ Range(heap.activated) = {}
  BY <1>1 DEF Mounted, Range
<1>4. 0 \in KeepAlives(heap) \ heap.destroyed
  BY <1>1 DEF Mounted, Fits, Typed, KeepAlives
<1>5. Mounted'
  BY <1>1, <1>2, <1>3, <1>4 DEF Mounted
<1> QED  BY <1>1, <1>2, <1>5 DEF KeepInv

\* It has the elements of the sequence and one more.
LEMMA AppendRange ==
    ASSUME NEW D, NEW s \in Seq(D), NEW e
    PROVE  Range(Append(s, e)) \subseteq Range(s) \union {e}
<1>1. /\ Len(s) \in Nat /\ DOMAIN s = 1 .. Len(s) /\ DOMAIN Append(s, e) = 1 .. Len(s) + 1
      /\ Append(s, e)[Len(s) + 1] = e /\ \A x \in 1 .. Len(s) : Append(s, e)[x] = s[x]
  OBVIOUS
<1>2. \A x \in 1 .. Len(s) + 1 : x \in 1 .. Len(s) \/ x = Len(s) + 1
  BY <1>1
<1> QED  BY <1>1, <1>2 DEF Range

LEMMA FlushRenderKeeps == ASSUME KeepInv, FlushRender PROVE KeepInv'
<1> DEFINE k == Min(unrendered)
           h == heap
           g == heap'
           key == wants[k]
           mounted == TRUE
           kept == key # Null /\ Keeps(k, key)
<1>1. wants # <<>> /\ Mounted /\ unrendered # {}
  BY DEF KeepInv, FlushRender
<1>2. /\ g = RenderKeepAlive(h, k, key, mounted) /\ mounted \in BOOLEAN /\ mounted
      /\ unrendered' = (unrendered \ {k}) \ g.destroyed
      /\ wants' = WithNew(wants, g) /\ flushes' = TRUE /\ include' = include /\ watches' = watches
  BY DEF FlushRender, Living
<1>3. k \in unrendered /\ (0 \in unrendered => k = 0)
  <2>1. unrendered \subseteq Nat
    BY <1>1 DEF Mounted, Fits, Typed, KeepAlives
  <2>2. \E x \in unrendered : \A y \in unrendered : x =< y
    BY <1>1, <2>1, HasLeast
  <2>3. k \in unrendered /\ \A y \in unrendered : k =< y
    BY <2>2 DEF Min
  <2> HIDE DEF k
  <2>4. ASSUME 0 \in unrendered PROVE k = 0
    <3>1. k =< 0 /\ k \in Nat
      BY <2>1, <2>3, <2>4
    <3> QED  BY <3>1
  <2> QED  BY <2>3, <2>4
<1> HIDE DEF k, mounted
<1>4. /\ Fits(h, -1, Range(h.activated)) /\ Typed(h) /\ IsInjective(h.activated)
      /\ DOMAIN wants = KeepAlives(h)
      /\ \A x \in DOMAIN wants : wants[x] \in (IF x = 0 THEN Keys ELSE Inner) \union {Null}
      /\ unrendered \subseteq KeepAlives(h) \ h.destroyed
      /\ h.activated # <<>> => 0 \notin unrendered
      /\ \A i \in Range(h.activated) : ParentOf(h, i) \notin unrendered
      /\ \A y \in DOMAIN h.cache[0] : TagOf(y) \notin include => watches
      /\ h.shown[0] # 0 =>
           /\ h.kept[0] => IsCached(h, h.shown[0])
           /\ ~h.kept[0] /\ h.inst[h.shown[0]].key \in DOMAIN h.cache[0] => 0 \notin unrendered
           /\ 0 \notin unrendered => (h.kept[0] <=> ComponentOf(h, h.shown[0]) \in include)
  BY <1>1 DEF Mounted, Fits
<1>5. key \in (IF k = 0 THEN Keys ELSE Inner) \union {Null} /\ k \in KeepAlives(h) /\ 0 \in KeepAlives(h)
  BY <1>3, <1>4 DEF KeepAlives
<1>6. Ready(h, k)
  BY <1>3, <1>4 DEF Ready
<1> HIDE DEF key
<1>7. Fits(g, -1, Range(g.activated)) /\ Rendered(g, h, k, key, kept, mounted)
  <2>1. k = 0 /\ h.shown[0] # 0 /\ h.kept[0] => IsCached(h, h.shown[0])
    BY <1>4
  <2>2. ~mounted => k = 0 /\ DOMAIN h.cache[0] = {}
    BY <1>2
  <2> QED  BY <1>2, <1>4, <1>5, <1>6, <2>1, <2>2, RenderFits
<1> HIDE DEF kept, g
<1>8. /\ KeepAlives(h) \subseteq KeepAlives(g) /\ IsInjective(g.activated) /\ Typed(g)
      /\ DOMAIN h.inst \subseteq DOMAIN g.inst /\ \A j \in DOMAIN h.inst : g.inst[j] = h.inst[j]
      /\ h.destroyed \subseteq g.destroyed
  BY <1>7 DEF Rendered, Fits
<1>9. DOMAIN wants' = KeepAlives(g)
  BY <1>2, <1>8 DEF WithNew, Typed
<1>10. \A x \in DOMAIN wants' : wants'[x] \in (IF x = 0 THEN Keys ELSE Inner) \union {Null}
  <2> SUFFICES ASSUME NEW x \in KeepAlives(g)
               PROVE  wants'[x] \in (IF x = 0 THEN Keys ELSE Inner) \union {Null}
    BY <1>9
  <2>1. wants'[x] = IF x \in DOMAIN wants THEN wants[x] ELSE First
    BY <1>2, <1>8 DEF WithNew, Typed
  <2> QED  BY <1>4, <1>5, <2>1, LevelsAssumption
<1>11. 0 \notin unrendered' /\ k \notin unrendered' /\ unrendered' \subseteq unrendered
  BY <1>2, <1>3
<1>12. unrendered' \subseteq KeepAlives(g) \ g.destroyed
  BY <1>2, <1>4, <1>8
<1>13. \A i \in Range(g.activated) : ParentOf(g, i) \notin unrendered'
  <2> DEFINE D == DOMAIN h.inst
             s == h.activated
  <2>1. s \in Seq(D)
    BY <1>4 DEF Typed
  <2> HIDE DEF D, s
  <2>2. \A i \in Range(s) : i \in D
    BY <2>1 DEF Range
  <2>3. \A i \in Range(s) : ParentOf(g, i) = ParentOf(h, i) /\ ParentOf(h, i) \notin unrendered'
    BY <1>4, <1>8, <1>11, <2>2 DEF D, s, ParentOf
  <2>4. CASE g.activated = s
    BY <2>3, <2>4
  <2>5. ASSUME NEW i \in DOMAIN g.inst, ParentOf(g, i) = k, g.activated = Append(s, i)
        PROVE  \A j \in Range(g.activated) : ParentOf(g, j) \notin unrendered'
    <3>1. Range(g.activated) \subseteq Range(s) \union {i}
      BY <2>1, <2>5, AppendRange
    <3> QED  BY <1>11, <2>3, <2>5, <3>1
  <2> QED  BY <1>7, <2>4, <2>5 DEF Rendered, s
<1>14. kept /\ k = 0 => TagOf(key) \in include
  BY DEF kept, Keeps
<1>15. \A y \in DOMAIN g.cache[0] : TagOf(y) \notin include => watches
  BY <1>4, <1>7, <1>14 DEF Rendered
<1>16. g.shown[0] # 0 =>
          /\ g.kept[0] => IsCached(g, g.shown[0])
          /\ g.kept[0] <=> ComponentOf(g, g.shown[0]) \in include
  <2> SUFFICES ASSUME g.shown[0] # 0
               PROVE  /\ g.kept[0] => IsCached(g, g.shown[0])
                      /\ g.kept[0] <=> ComponentOf(g, g.shown[0]) \in include
    OBVIOUS
  <2>1. CASE k = 0
    <3>1. /\ key # Null /\ g.inst[g.shown[0]].key = key /\ g.kept[0] = kept
          /\ kept => IsCached(g, g.shown[0])
      BY <1>7, <2>1 DEF Rendered
    <3>2. kept <=> TagOf(key) \in include
      BY <2>1, <3>1 DEF kept, Keeps
    <3> QED  BY <3>1, <3>2 DEF ComponentOf
  <2>2. CASE k # 0
    <3>1. g.shown[0] = h.shown[0] /\ g.kept[0] = h.kept[0] /\ g.cache[0] = h.cache[0]
      BY <1>7, <2>2 DEF Rendered
    <3>2. h.shown[0] \in DOMAIN h.inst /\ ParentOf(h, h.shown[0]) = 0
      BY <1>4, <1>5, <3>1 DEF Fits, Placed, LiveIn
    <3>3. g.inst[h.shown[0]] = h.inst[h.shown[0]]
      BY <1>8, <3>2
    <3>4. 0 \notin unrendered
      BY <1>3, <2>2
    <3>5. /\ h.kept[0] => IsCached(h, h.shown[0])
          /\ h.kept[0] <=> ComponentOf(h, h.shown[0]) \in include
      BY <1>4, <3>1, <3>4
    <3> QED  BY <3>1, <3>2, <3>3, <3>5 DEF ComponentOf, ParentOf, IsCached
  <2> QED  BY <2>1, <2>2
<1>17. Mounted'
  BY <1>2, <1>7, <1>8, <1>9, <1>10, <1>11, <1>12, <1>13, <1>15, <1>16 DEF Mounted, g
<1>18. wants' # <<>>
  BY <1>5, <1>8, <1>9
<1> QED  BY <1>17, <1>18 DEF KeepInv

LEMMA FlushPruneKeeps == ASSUME KeepInv, FlushPrune PROVE KeepInv'
<1> DEFINE h == heap
           g == heap'
           gone == {key \in DOMAIN h.cache[0] : TagOf(key) \notin include}
           queue == Range(h.activated)
<1>1. wants # <<>> /\ Mounted /\ flushes /\ 0 \notin unrendered
  <2>1. flushes /\ 0 \notin unrendered
    BY DEF FlushPrune
  <2> QED  BY <2>1 DEF KeepInv
<1>2. /\ g = PruneCache(h) /\ unrendered' = unrendered \ g.destroyed
      /\ wants' = wants /\ flushes' = flushes /\ include' = include
  BY DEF FlushPrune, Living
<1>3. /\ Fits(h, -1, queue) /\ Typed(h) /\ Placed(h, -1) /\ IsInjective(h.activated)
      /\ DOMAIN wants = KeepAlives(h) /\ 0 \in KeepAlives(h)
      /\ \A x \in DOMAIN wants : wants[x] \in (IF x = 0 THEN Keys ELSE Inner) \union {Null}
      /\ unrendered \subseteq KeepAlives(h) \ h.destroyed
      /\ \A i \in Range(h.activated) : ParentOf(h, i) \notin unrendered
      /\ h.shown[0] # 0 =>
           /\ h.kept[0] => IsCached(h, h.shown[0])
           /\ h.kept[0] <=> ComponentOf(h, h.shown[0]) \in include
  BY <1>1 DEF Mounted, Fits, KeepAlives
<1> HIDE DEF queue
<1>4. Fits(g, -1, queue) /\ Thinned(g, h, gone)
  BY <1>2, <1>3, PruningFits
<1> HIDE DEF g
<1>5. /\ g.inst = h.inst /\ KeepAlives(g) = KeepAlives(h)
      /\ g.kept = h.kept /\ g.activated = h.activated /\ g.shown[0] = h.shown[0]
      /\ h.destroyed \subseteq g.destroyed
      /\ DOMAIN g.cache[0] = DOMAIN h.cache[0] \ gone
      /\ \A x \in DOMAIN g.cache[0] : g.cache[0][x] = h.cache[0][x]
  BY <1>4 DEF Thinned
<1>6. Fits(g, -1, Range(g.activated)) /\ IsInjective(g.activated)
  BY <1>3, <1>4, <1>5 DEF queue
<1>7. unrendered' \subseteq KeepAlives(g) \ g.destroyed /\ 0 \notin unrendered' /\ unrendered' \subseteq unrendered
  BY <1>1, <1>2, <1>3, <1>5
<1>8. \A i \in Range(g.activated) : ParentOf(g, i) \notin unrendered'
  BY <1>3, <1>5, <1>7 DEF ParentOf
<1>9. \A key \in DOMAIN g.cache[0] : TagOf(key) \in include
  BY <1>5
<1>10. g.shown[0] # 0 /\ g.kept[0] => IsCached(g, g.shown[0])
  <2> SUFFICES ASSUME g.shown[0] # 0, g.kept[0] PROVE IsCached(g, g.shown[0])
    OBVIOUS
  <2> DEFINE i == h.shown[0]
  <2>1. i # 0 /\ IsCached(h, i) /\ ComponentOf(h, i) \in include /\ g.shown[0] = i
    BY <1>3, <1>5
  <2>2. ParentOf(h, i) = 0 /\ ParentOf(g, i) = 0
    BY <1>3, <1>5, <2>1 DEF Placed, ParentOf
  <2>3. h.inst[i].key \in DOMAIN h.cache[0] /\ h.inst[i].key \notin gone
    BY <2>1, <2>2 DEF IsCached, ComponentOf
  <2> QED  BY <1>5, <2>1, <2>2, <2>3 DEF IsCached
<1>11. g.shown[0] # 0 => (g.kept[0] <=> ComponentOf(g, g.shown[0]) \in include)
  BY <1>3, <1>5 DEF ComponentOf
<1>12. Mounted'
  BY <1>1, <1>2, <1>3, <1>5, <1>6, <1>7, <1>8, <1>9, <1>10, <1>11 DEF Mounted, g
<1> QED  BY <1>1, <1>2, <1>12 DEF KeepInv

LEMMA FlushActivatedKeeps == ASSUME KeepInv, FlushActivated PROVE KeepInv'
<1> DEFINE h == heap
           g == heap'
<1>1. wants # <<>> /\ Mounted /\ unrendered = {} /\ ~watches
  <2>1. flushes /\ unrendered = {} /\ ~watches
    BY DEF FlushActivated
  <2> QED  BY <2>1 DEF KeepInv
<1>2. /\ g = CallActivatedHooks(h) /\ flushes' = FALSE
      /\ wants' = wants /\ include' = include /\ unrendered' = unrendered /\ watches' = watches
  BY DEF FlushActivated
<1>3. /\ Fits(h, -1, Range(h.activated)) /\ IsInjective(h.activated)
      /\ DOMAIN wants = KeepAlives(h)
      /\ \A x \in DOMAIN wants : wants[x] \in (IF x = 0 THEN Keys ELSE Inner) \union {Null}
      /\ \A key \in DOMAIN h.cache[0] : TagOf(key) \in include
      /\ h.shown[0] # 0 =>
           /\ h.kept[0] => IsCached(h, h.shown[0])
           /\ h.kept[0] <=> ComponentOf(h, h.shown[0]) \in include
  BY <1>1 DEF Mounted
<1>4. Fits(g, -1, {}) /\ Calls(g, h)
  BY <1>2, <1>3, HooksFit
<1> HIDE DEF g
<1>5. /\ g.inst = h.inst /\ g.destroyed = h.destroyed /\ g.cache = h.cache
      /\ g.shown = h.shown /\ g.kept = h.kept /\ g.activated = <<>>
  BY <1>4 DEF Calls
<1>6. /\ KeepAlives(g) = KeepAlives(h) /\ \A i : ComponentOf(g, i) = ComponentOf(h, i)
      /\ \A i : IsCached(g, i) <=> IsCached(h, i)
  BY <1>5 DEF KeepAlives, ComponentOf, ParentOf, IsCached
<1>7. Range(g.activated) = {} /\ IsInjective(g.activated)
  BY <1>5 DEF Range, IsInjective
<1>8. g.shown[0] # 0 /\ ~g.kept[0] => g.inst[g.shown[0]].key \notin DOMAIN g.cache[0]
  BY <1>3, <1>5 DEF ComponentOf
<1>9. Mounted'
  BY <1>1, <1>2, <1>3, <1>4, <1>5, <1>6, <1>7, <1>8 DEF Mounted, g
<1> QED  BY <1>1, <1>2, <1>9 DEF KeepInv

\* What the invariant says between flushes.
LEMMA InvTells == KeepInv => KeptAreTold
<1> DEFINE h == heap
           except == h.late \union h.spared
<1> SUFFICES ASSUME KeepInv, wants # <<>>, ~flushes, unrendered = {}, ~watches
             PROVE  LET living == DOMAIN heap.inst \ heap.destroyed
                        exempt(i, s) == {i, ParentOf(heap, i)} \intersect s # {}
                    IN  /\ \A i \in living : ~exempt(i, heap.late \union heap.spared) =>
                              /\ i \notin heap.wrong
                              /\ InCache(i) => (i \in heap.told <=> OnScreen(i))
                        /\ \A i \in heap.destroyed : ~OnScreen(i) /\ ~InCache(i)
                        /\ \A i \in living : OnScreen(i) \/ InCache(i) \/ exempt(i, heap.spared)
                        /\ \A k \in DOMAIN heap.keys :
                              IsInjective(heap.keys[k]) /\ Range(heap.keys[k]) = DOMAIN heap.cache[k]
                        /\ Len(heap.keys[0]) <= MaxCached
  BY DEF KeptAreTold
<1>1. /\ Fits(h, -1, {}) /\ Typed(h) /\ Placed(h, -1) /\ Listed(h, -1, Null)
      /\ Told(h, -1, {}) /\ Len(h.keys[0]) <= MaxCached
  <2>1. Mounted
    BY DEF KeepInv
  <2>2. Range(h.activated) = {}
    BY <2>1 DEF Mounted, Range
  <2> QED  BY <2>1, <2>2 DEF Mounted, Fits
<1>2. ASSUME NEW i \in DOMAIN h.inst, InCache(i)
      PROVE  IsCached(h, i) /\ i \in LiveIn(h)
  <2>1. PICK k \in DOMAIN h.cache : i \in Range(h.cache[k])
    BY <1>2 DEF InCache
  <2>2. PICK key \in DOMAIN h.cache[k] : h.cache[k][key] = i
    BY <2>1 DEF Range
  <2>3. h.inst[i] = Instance(key, k) /\ i \in LiveIn(h)
    BY <1>1, <2>1, <2>2 DEF Placed, Typed
  <2> QED  BY <2>2, <2>3 DEF IsCached, ParentOf, Instance
<1>3. ASSUME NEW i \in LiveIn(h), IsCached(h, i)
      PROVE  InCache(i)
  <2>1. ParentOf(h, i) \in DOMAIN h.cache /\ ParentOf(h, i) \notin h.destroyed
    BY <1>1, TwoLevels DEF LiveIn, Placed, Typed
  <2>2. i \in Range(h.cache[ParentOf(h, i)])
    BY <1>3 DEF IsCached, Range
  <2> QED  BY <2>1, <2>2 DEF InCache, Alive
<1>4. ASSUME NEW i \in LiveIn(h), {i, ParentOf(h, i)} \intersect except = {}
      PROVE  i \notin h.wrong /\ (InCache(i) => (i \in h.told <=> OnScreen(i)))
  <2> DEFINE p == ParentOf(h, i)
  <2>1. /\ i \in DOMAIN h.inst /\ i # 0 /\ i # -1 /\ p \in KeepAlives(h)
        /\ p # 0 => p \in DOMAIN h.inst /\ ParentOf(h, p) = 0
    BY <1>1, TwoLevels DEF LiveIn
  <2>2. p \notin h.destroyed /\ p # -1 /\ 0 \notin except /\ -1 \notin except
    BY <1>1, <2>1 DEF Placed, Typed, KeepAlives
  <2>3. Hears(h, i, {})
    BY <1>1, <1>4, <2>1, <2>2 DEF Told, Judged
  <2>4. ASSUME p # 0
        PROVE  p \in h.inactive <=> h.shown[0] # p
    <3>1. p \in LiveIn(h) /\ ParentOf(h, p) = 0
      BY <2>1, <2>2, <2>4 DEF LiveIn
    <3>2. Hears(h, p, {})
      BY <1>1, <1>4, <2>2, <3>1 DEF Told, Judged
    <3>3. IsCached(h, p) \/ h.shown[0] = p
      BY <1>1, <1>4, <2>2, <3>1 DEF Placed
    <3>4. h.active \intersect h.inactive = {}
      BY <1>1 DEF Typed
    <3> QED  BY <3>1, <3>2, <3>3, <3>4 DEF Hears
  <2>5. i \notin h.wrong /\ (i \in h.told <=> i \in h.active) /\ (h.shown[p] # i => i \notin h.active)
    BY <2>3 DEF Hears
  <2>6. ASSUME InCache(i) PROVE i \in h.told <=> OnScreen(i)
    <3>1. IsCached(h, i)
      BY <1>2, <2>1, <2>6
    <3>2. CASE p = 0
      <4>1. h.shown[p] = i => i \in h.active
        BY <2>3, <3>1, <3>2 DEF Hears
      <4> QED  BY <2>5, <3>2, <4>1 DEF OnScreen
    <3>3. CASE p # 0
      <4>1. /\ p \in h.inactive => i \notin h.told
            /\ h.shown[p] = i /\ p \notin h.inactive => i \in h.active
        BY <2>3, <3>3 DEF Hears
      <4>2. OnScreen(i) <=> h.shown[p] = i /\ h.shown[0] = p
        BY <2>1, <2>2, <3>3 DEF OnScreen, Alive
      <4> QED  BY <2>4, <2>5, <3>3, <4>1, <4>2
    <3> QED  BY <3>2, <3>3
  <2> QED  BY <2>5, <2>6
<1>5. ASSUME NEW i \in h.destroyed PROVE ~OnScreen(i) /\ ~InCache(i)
  <2>1. i \in DOMAIN h.inst /\ i \notin LiveIn(h)
    BY <1>1 DEF Typed, LiveIn
  <2>2. ParentOf(h, i) \in KeepAlives(h) /\ i # 0
    BY <1>1, <2>1, TwoLevels
  <2>3. h.shown[ParentOf(h, i)] # i
    BY <1>1, <2>1, <2>2 DEF Placed
  <2> QED  BY <1>2, <2>1, <2>3 DEF OnScreen
<1>6. ASSUME NEW i \in LiveIn(h)
      PROVE  OnScreen(i) \/ InCache(i) \/ {i, ParentOf(h, i)} \intersect h.spared # {}
  <2>1. i \in DOMAIN h.inst /\ i # -1
    BY <1>1, TwoLevels DEF LiveIn
  <2>2. CASE IsCached(h, i)
    BY <1>3, <2>2
  <2>3. CASE ~IsCached(h, i)
    <3>1. ParentOf(h, i) = 0 /\ (h.shown[0] = i \/ i \in h.spared)
      BY <1>1, <2>1, <2>3 DEF Placed
    <3> QED  BY <3>1 DEF OnScreen
  <2> QED  BY <2>2, <2>3
<1>7. ASSUME NEW k \in DOMAIN h.keys
      PROVE  IsInjective(h.keys[k]) /\ Range(h.keys[k]) = DOMAIN h.cache[k]
  <2>1. k \in KeepAlives(h) /\ k # -1
    BY <1>1 DEF Typed, KeepAlives
  <2> QED  BY <1>1, <2>1 DEF Listed
<1> QED  BY <1>1, <1>4, <1>5, <1>6, <1>7 DEF LiveIn

\* At every moment between flushes, for any keys and components, any max and any
\* number of changes: who is kept was told whether it is on the screen, once;
\* nothing destroyed is shown or kept, nothing else is lost; the keys listed are
\* those kept, at most max of them.
THEOREM KeptKnowTheScreen == KeepSpec => []KeptAreTold
<1>1. KeepInit => KeepInv
  BY InitHolds
<1>2. KeepInv /\ [KeepNext]_keepVars => KeepInv'
  <2> SUFFICES ASSUME KeepInv, [KeepNext]_keepVars PROVE KeepInv'
    OBVIOUS
  <2>1. CASE MountRoot
    BY <2>1, MountRootKeeps
  <2>2. CASE Select
    BY <2>2, SelectKeeps
  <2>3. CASE SetInclude
    BY <2>3, SetIncludeKeeps
  <2>4. CASE FlushRender
    BY <2>4, FlushRenderKeeps
  <2>5. CASE FlushPrune
    BY <2>5, FlushPruneKeeps
  <2>6. CASE FlushActivated
    BY <2>6, FlushActivatedKeeps
  <2>7. CASE UNCHANGED keepVars
    BY <2>7 DEF keepVars, KeepInv, Mounted
  <2> QED  BY <2>1, <2>2, <2>3, <2>4, <2>5, <2>6, <2>7 DEF KeepNext
<1>3. KeepInv => KeptAreTold
  BY InvTells
<1> QED  BY <1>1, <1>2, <1>3, PTL DEF KeepSpec

=============================================================================
