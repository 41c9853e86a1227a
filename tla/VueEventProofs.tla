--------------------------- MODULE VueEventProofs ---------------------------
(***************************************************************************)
(* Proofs about what the page does with events: VueListeners, for any number *)
(* of elements, renders, events and readings of the clock; and MessageBox,   *)
(* the message box that composes text, for any number of characters.         *)
(***************************************************************************)
EXTENDS VueListeners, MessageBox, FiniteSetTheorems, TLAPS

Listener == [name : Name, order : Nat, since : Nat, fn : Nat]
Heard == [el : Element, lis : Listener, latest : Nat]
Event == [stamp : Nat, matches : BOOLEAN, after : Nat, at : Element,
          left : Seq(Listener), heard : SUBSET Heard]

Types ==
    /\ on \in [Element -> SUBSET Name] /\ listeners \in [Element -> Seq(Listener)]
    /\ ran \in [Element -> Nat]
    /\ renders \in Nat /\ now \in Nat /\ flushedAt \in Nat /\ pendingFlush \in BOOLEAN
    /\ event \in Event \union {NoEvent}

\* A listener is there for a handler of the last render, of which it has the
\* function, unless it is of .once; such a one has not run yet.
Attaches(l, e) ==
    /\ l.name \in on[e] /\ l.order <= renders
    /\ l.fn = (IF l.name = "click" THEN renders ELSE l.order)
    /\ l.name = "~click" => ran[e] = 0

\* No name has two listeners.
OnePerName(ls) == \A i, j \in DOMAIN ls : ls[i].name = ls[j].name => i = j

Lists ==
    \A e \in Element :
        /\ ran[e] <= 1
        /\ \A i \in DOMAIN listeners[e] : Attaches(listeners[e][i], e)
        /\ OnePerName(listeners[e])

\* What is to hear the event at this element: those there when it was reached.
Snapshot ==
    /\ OnePerName(event.left)
    /\ event.at = 1 => \A i \in DOMAIN event.left : event.left[i].order <= event.after
    /\ \A h \in event.heard : h.el = event.at => \A i \in DOMAIN event.left : event.left[i].name # h.lis.name

\* What heard it so far.
HeardRightly ==
    \A h \in event.heard :
        /\ h.el <= event.at
        /\ h.lis.fn = (IF h.lis.name = "click" THEN h.latest ELSE h.lis.order)
        /\ h.lis.order > event.after => h.lis.since = event.stamp
        /\ \A o \in event.heard : h.el = o.el /\ h.lis.name = o.lis.name => h = o

\* A listener that the event is for heard it, or is still to hear it.
Reaches(l, e) ==
    l.order <= event.after /\ (e = 1 \/ l.since <= event.stamp)
    => \/ \E h \in event.heard : h.el = e /\ SameListener(h.lis, l)
       \/ e = event.at /\ \E j \in DOMAIN event.left : SameListener(event.left[j], l)

Climbs ==
    /\ event.stamp <= now /\ event.after <= renders
    /\ \A e \in Element : \A i \in DOMAIN listeners[e] :
           /\ listeners[e][i].order > event.after => listeners[e][i].since >= event.stamp
           /\ e <= event.at => Reaches(listeners[e][i], e)
    /\ Snapshot /\ HeardRightly

ListenInv == Types /\ Lists /\ (event # NoEvent => Climbs)

-----------------------------------------------------------------------------
(* The list of an element after a render. *)

\* A set of numbers that is not empty has a smallest one.
LEMMA HasLeast ==
    ASSUME NEW S, S \subseteq Nat, S # {}
    PROVE  \E x \in S : \A y \in S : x =< y
<1> DEFINE R == OpToRel(<, Nat)
<1>1. IsWellFoundedOn(R, Nat)
  BY NatLessThanWellFounded
<1>2. \A x, y \in Nat : x < y => <<x, y>> \in R
  BY DEF OpToRel
<1> HIDE DEF R
<1>3. PICK x \in S : \A y \in S : ~ (<<y, x>> \in R)
  BY <1>1, WFMin
<1>4. \A y \in S : x =< y
  <2> TAKE y \in S
  <2>1. x \in Nat /\ y \in Nat /\ ~ (y < x)
    BY <1>2, <1>3
  <2> QED
    BY <2>1
<1> QED
  BY <1>3, <1>4

\* What a step of the loop over the old listeners makes of the list so far.
Turn(had, names, n, i, list) == IF had[i].name \in names THEN Append(list, NewFn(had[i], n)) ELSE list

\* f[i] is the list after the first i old listeners, of m.
KeptBy(f, had, names, n, m) ==
    f = [i \in 0 .. m |-> IF i = 0 THEN <<>> ELSE Turn(had, names, n, i, f[i - 1])]

LEMMA KeptExists ==
    ASSUME NEW had, NEW names, NEW n, NEW m \in Nat
    PROVE  \E f : KeptBy(f, had, names, n, m)
<1> DEFINE S == {k \in Nat : ~ \E f : KeptBy(f, had, names, n, k)}
<1> SUFFICES ASSUME S # {}
             PROVE  FALSE
  OBVIOUS
<1>1. PICK k \in S : \A j \in S : k =< j
  <2>1. S \subseteq Nat
    OBVIOUS
  <2> HIDE DEF S
  <2> QED
    BY <2>1, HasLeast
<1>2. k # 0
  <2>1. KeptBy([i \in 0 .. 0 |-> <<>>], had, names, n, 0)
    BY DEF KeptBy
  <2> QED
    BY <1>1, <2>1
<1>3. k \in Nat /\ k - 1 \in Nat
  BY <1>1, <1>2
<1>4. PICK g : KeptBy(g, had, names, n, k - 1)
  BY <1>1, <1>3
<1> DEFINE f == [i \in 0 .. k |-> IF i = k THEN Turn(had, names, n, k, g[k - 1]) ELSE g[i]]
<1>5. \A i \in 0 .. k : f[i] = IF i = 0 THEN <<>> ELSE Turn(had, names, n, i, f[i - 1])
  <2> TAKE i \in 0 .. k
  <2>1. CASE i = 0
    <3>1. f[i] = g[0] /\ 0 \in 0 .. k - 1
      BY <1>2, <1>3, <2>1
    <3> QED
      BY <1>4, <2>1, <3>1 DEF KeptBy
  <2>2. CASE i = k
    <3>1. f[i] = Turn(had, names, n, k, g[k - 1]) /\ f[i - 1] = g[k - 1]
      BY <1>2, <1>3, <2>2
    <3> QED
      BY <1>2, <2>2, <3>1
  <2>3. CASE i # 0 /\ i # k
    <3>1. f[i] = g[i] /\ f[i - 1] = g[i - 1] /\ i \in 0 .. k - 1
      BY <1>3, <2>3
    <3>2. g[i] = Turn(had, names, n, i, g[i - 1])
      BY <1>4, <2>3, <3>1 DEF KeptBy
    <3> QED
      BY <2>3, <3>1, <3>2
  <2> QED
    BY <2>1, <2>2, <2>3
<1>6. f = [i \in 0 .. k |-> f[i]]
  OBVIOUS
<1> HIDE DEF f
<1>7. KeptBy(f, had, names, n, k)
  BY <1>5, <1>6 DEF KeptBy
<1> QED
  BY <1>1, <1>7

\* Each listener of list is one of the first i of had, perhaps with another function.
Keeps(list, had, names, n, i) ==
    /\ list \in Seq(Listener) /\ OnePerName(list)
    /\ \A a \in DOMAIN list : \E j \in 1 .. i : had[j].name \in names /\ list[a] = NewFn(had[j], n)

LEMMA NewFnIs ==
    ASSUME NEW l \in Listener, NEW n \in Nat
    PROVE  /\ NewFn(l, n) \in Listener
           /\ NewFn(l, n).name = l.name /\ NewFn(l, n).order = l.order /\ NewFn(l, n).since = l.since
           /\ NewFn(l, n).fn = (IF l.name = "click" THEN n ELSE l.fn)
BY DEF NewFn, Listener

LEMMA KeptKeeps ==
    ASSUME NEW had \in Seq(Listener), OnePerName(had), NEW names, NEW n \in Nat,
           NEW f, KeptBy(f, had, names, n, Len(had))
    PROVE  Keeps(f[Len(had)], had, names, n, Len(had))
<1> DEFINE m == Len(had)
           P(k) == Keeps(f[k], had, names, n, k)
           S == {k \in 0 .. m : ~P(k)}
<1>1. m \in Nat /\ DOMAIN had = 1 .. m
  OBVIOUS
<1>2. f[0] = <<>> /\ \A k \in 1 .. m : f[k] = Turn(had, names, n, k, f[k - 1])
  BY <1>1 DEF KeptBy
<1> HIDE DEF m
<1>3. S = {}
  <2> SUFFICES ASSUME S # {}
               PROVE  FALSE
    OBVIOUS
  <2>1. PICK k \in S : \A j \in S : k =< j
    <3>1. S \subseteq Nat
      OBVIOUS
    <3> HIDE DEF S
    <3> QED
      BY <3>1, HasLeast
  <2>2. k \in 0 .. m /\ ~P(k)
    BY <2>1
  <2>3. P(0)
    BY <1>2 DEF Keeps, OnePerName
  <2>4. k # 0
    BY <2>2, <2>3
  <2>5. k \in 1 .. m /\ k - 1 \in 0 .. m /\ k - 1 < k
    BY <1>1, <2>2, <2>4
  <2>6. P(k - 1)
    <3>1. k - 1 \notin S
      BY <1>1, <2>1, <2>5
    <3> QED
      BY <2>5, <3>1
  <2> DEFINE g == f[k - 1]
             l == NewFn(had[k], n)
  <2>7. /\ g \in Seq(Listener) /\ OnePerName(g)
        /\ \A a \in DOMAIN g : \E j \in 1 .. k - 1 : had[j].name \in names /\ g[a] = NewFn(had[j], n)
    BY <2>6 DEF Keeps
  <2>8. \A j \in 1 .. m : had[j] \in Listener
    BY <1>1
  <2>9. l \in Listener /\ l.name = had[k].name
    BY <2>5, <2>8, NewFnIs
  <2>10. \A j \in 1 .. k - 1 : j \in 1 .. m /\ j \in 1 .. k /\ j # k
    BY <1>1, <2>5
  <2>11. CASE had[k].name \notin names
    <3>1. f[k] = g
      BY <1>2, <2>5, <2>11 DEF Turn
    <3> HIDE DEF g
    <3> QED
      BY <2>2, <2>7, <2>10, <3>1 DEF Keeps
  <2>12. CASE had[k].name \in names
    <3>1. f[k] = Append(g, l)
      BY <1>2, <2>5, <2>12 DEF Turn
    <3> HIDE DEF g, l
    <3> DEFINE r == Append(g, l)
    <3>2. /\ r \in Seq(Listener) /\ DOMAIN r = DOMAIN g \union {Len(g) + 1} /\ r[Len(g) + 1] = l
          /\ \A a \in DOMAIN g : r[a] = g[a]
      BY <2>7, <2>9
    <3>3. \A a \in DOMAIN g : g[a].name # l.name
      <4> TAKE a \in DOMAIN g
      <4>1. PICK j \in 1 .. k - 1 : g[a] = NewFn(had[j], n)
        BY <2>7
      <4>2. g[a].name = had[j].name
        BY <2>8, <2>10, <4>1, NewFnIs
      <4> QED
        BY <1>1, <2>5, <2>9, <2>10, <4>2 DEF OnePerName
    <3> HIDE DEF r
    <3>4. OnePerName(r)
      BY <2>7, <3>2, <3>3 DEF OnePerName
    <3>5. \A a \in DOMAIN r : \E j \in 1 .. k : had[j].name \in names /\ r[a] = NewFn(had[j], n)
      <4> TAKE a \in DOMAIN r
      <4>1. CASE a \in DOMAIN g
        BY <2>7, <2>10, <3>2, <4>1
      <4>2. CASE a = Len(g) + 1
        <5>1. k \in 1 .. k
          BY <1>1, <2>5
        <5> QED
          BY <2>12, <3>2, <4>2, <5>1 DEF l
      <4> QED
        BY <3>2, <4>1, <4>2
    <3> QED
      BY <2>2, <3>1, <3>2, <3>4, <3>5 DEF Keeps, r
  <2> QED
    BY <2>11, <2>12
<1>4. P(m)
  <2>1. m \in 0 .. m
    BY <1>1
  <2> QED
    BY <1>3, <2>1
<1> QED
  BY <1>4 DEF m

\* SetToSeq lists the elements of a finite set, each once.
LEMMA SetToSeqLists ==
    ASSUME NEW S, IsFiniteSet(S)
    PROVE  /\ SetToSeq(S) \in Seq(S)
           /\ \A i, j \in DOMAIN SetToSeq(S) : SetToSeq(S)[i] = SetToSeq(S)[j] => i = j
<1> DEFINE n == Cardinality(S)
           s == SetToSeq(S)
<1>1. n \in Nat /\ ExistsBijection(1 .. n, S)
  BY FS_CardinalityType
<1>2. \E f \in [1 .. n -> S] : IsInjective(f)
  BY <1>1 DEF ExistsBijection, Bijection, Injection
<1>3. s \in [1 .. n -> S] /\ IsInjective(s)
  BY <1>2 DEF SetToSeq
<1> HIDE DEF n, s
<1>4. s \in Seq(S)
  BY <1>1, <1>3
<1>5. \A i, j \in DOMAIN s : s[i] = s[j] => i = j
  BY <1>3 DEF IsInjective
<1> QED
  BY <1>4, <1>5 DEF s

\* A listener of e that the render left attached, and one that it attached.
Stays(l, e, names, n) ==
    \E j \in DOMAIN listeners[e] :
        LET old == listeners[e][j]
        IN  /\ l.name \in names /\ l.name = old.name /\ l.order = old.order /\ l.since = old.since
            /\ l.fn = (IF l.name = "click" THEN n ELSE old.fn)

Comes(l, e, names, n) ==
    l.name \in names \ on[e] /\ l.order = n /\ l.fn = n /\ l.since = flushedAt'

Updated(list, e, names, n) ==
    /\ list \in Seq(Listener) /\ OnePerName(list)
    /\ \A a \in DOMAIN list : Stays(list[a], e, names, n) \/ Comes(list[a], e, names, n)

LEMMA UpdateIs ==
    ASSUME Types, Lists, NEW e \in Element, NEW names \in SUBSET Name, NEW n \in Nat, flushedAt' \in Nat
    PROVE  Updated(UpdateListeners(e, names, n), e, names, n)
<1> DEFINE had == listeners[e]
           New == {Attached(name, n) : name \in names \ on[e]}
           new == SetToSeq(New)
<1>1. had \in Seq(Listener) /\ OnePerName(had) /\ \A i \in DOMAIN had : had[i].name \in on[e]
  BY DEF Types, Lists, Attaches
<1>2. PICK f : KeptBy(f, had, names, n, Len(had)) /\ UpdateListeners(e, names, n) = f[Len(had)] \o new
  <2> DEFINE g == CHOOSE f : KeptBy(f, had, names, n, Len(had))
  <2>1. KeptBy(g, had, names, n, Len(had))
    <3>1. Len(had) \in Nat
      BY <1>1
    <3>2. \E f : KeptBy(f, had, names, n, Len(had))
      BY <3>1, KeptExists
    <3> QED
      BY <3>2
  <2>2. UpdateListeners(e, names, n) = g[Len(had)] \o new
    BY DEF UpdateListeners, KeptBy, Turn
  <2> HIDE DEF g
  <2> QED
    BY <2>1, <2>2
<1> DEFINE kept == f[Len(had)]
<1>3. Keeps(kept, had, names, n, Len(had))
  BY <1>1, <1>2, KeptKeeps
<1>4. \A name \in names \ on[e] :
         /\ Attached(name, n) \in Listener /\ Attached(name, n).name = name
         /\ Comes(Attached(name, n), e, names, n)
  BY DEF Attached, Listener, Comes
<1>5. IsFiniteSet(New)
  <2> DEFINE All == {Attached("click", n)} \union {Attached("~click", n)}
  <2>1. IsFiniteSet(All)
    BY FS_Singleton, FS_Union
  <2>2. New \subseteq All
    BY DEF Name
  <2> HIDE DEF New, All
  <2> QED
    BY <2>1, <2>2, FS_Subset
<1>6. new \in Seq(New) /\ \A i, j \in DOMAIN new : new[i] = new[j] => i = j
  BY <1>5, SetToSeqLists
<1>7. \A x \in New : x \in Listener /\ Comes(x, e, names, n)
  BY <1>4
<1>8. \A x, y \in New : x.name = y.name => x = y
  BY <1>4
<1> HIDE DEF New, new, had
<1>9. \A i \in DOMAIN new : new[i] \in New
  BY <1>6
<1>10. new \in Seq(Listener) /\ OnePerName(new) /\ \A i \in DOMAIN new : Comes(new[i], e, names, n)
  <2>1. New \subseteq Listener
    BY <1>7
  <2> QED
    BY <1>6, <1>7, <1>8, <1>9, <2>1 DEF OnePerName
<1>11. ASSUME NEW i \in DOMAIN kept
       PROVE  Stays(kept[i], e, names, n) /\ kept[i].name \in on[e]
  <2>1. PICK j \in 1 .. Len(had) : had[j].name \in names /\ kept[i] = NewFn(had[j], n)
    BY <1>3, <1>11 DEF Keeps
  <2>2. j \in DOMAIN had /\ had[j] \in Listener
    BY <1>1
  <2>3. /\ kept[i].name = had[j].name /\ kept[i].order = had[j].order /\ kept[i].since = had[j].since
        /\ kept[i].fn = (IF had[j].name = "click" THEN n ELSE had[j].fn)
    BY <2>1, <2>2, NewFnIs
  <2> QED
    BY <1>1, <2>1, <2>2, <2>3 DEF Stays, had
<1>12. kept \in Seq(Listener) /\ OnePerName(kept)
  BY <1>3 DEF Keeps
<1> HIDE DEF kept
<1> DEFINE r == kept \o new
<1>13. /\ r \in Seq(Listener)
       /\ \A a \in DOMAIN r : \/ a \in DOMAIN kept /\ r[a] = kept[a]
                              \/ a - Len(kept) \in DOMAIN new /\ r[a] = new[a - Len(kept)]
       /\ DOMAIN r \subseteq Nat /\ Len(kept) \in Nat
  BY <1>10, <1>12
<1> HIDE DEF r
<1>14. \A i \in DOMAIN kept, j \in DOMAIN new : kept[i].name # new[j].name
  BY <1>10, <1>11 DEF Comes
<1>15. OnePerName(r)
  <2> SUFFICES ASSUME NEW a \in DOMAIN r, NEW b \in DOMAIN r, r[a].name = r[b].name
               PROVE  a = b
    BY DEF OnePerName
  <2>1. CASE a \in DOMAIN kept /\ r[a] = kept[a] /\ b \in DOMAIN kept /\ r[b] = kept[b]
    BY <1>12, <2>1 DEF OnePerName
  <2>2. CASE /\ a - Len(kept) \in DOMAIN new /\ r[a] = new[a - Len(kept)]
             /\ b - Len(kept) \in DOMAIN new /\ r[b] = new[b - Len(kept)]
    <3>1. a - Len(kept) = b - Len(kept)
      BY <1>10, <2>2 DEF OnePerName
    <3> QED
      BY <1>13, <3>1
  <2> QED
    BY <1>13, <1>14, <2>1, <2>2
<1>16. \A a \in DOMAIN r : Stays(r[a], e, names, n) \/ Comes(r[a], e, names, n)
  BY <1>10, <1>11, <1>13
<1> QED
  BY <1>2, <1>13, <1>15, <1>16 DEF Updated, r, kept

-----------------------------------------------------------------------------
(* ListenInv holds at first, and every action keeps it. *)

LEMMA ListenInitInv ==
    ListenInit => ListenInv
<1> SUFFICES ASSUME ListenInit
             PROVE  ListenInv
  OBVIOUS
<1>1. Types
  <2>1. <<>> \in Seq(Listener)
    OBVIOUS
  <2> QED
    BY <2>1 DEF ListenInit, Types
<1>2. Lists
  BY DEF ListenInit, Lists, OnePerName
<1> QED
  BY <1>1, <1>2 DEF ListenInit, ListenInv

\* What is true of a listener after a flush, whether it stays or comes.
LEMMA FlushKeepsListener ==
    ASSUME ListenInv, NEW e \in Element, NEW names \in SUBSET Name, NEW l \in Listener,
           flushedAt' = now, renders' = renders + 1, event' = event,
           on'[e] = names, ran'[e] = (IF "~click" \in names \ on[e] THEN 0 ELSE ran[e]),
           Stays(l, e, names, renders') \/ Comes(l, e, names, renders')
    PROVE  /\ Attaches(l, e)'
           /\ event # NoEvent => /\ l.order > event.after => l.since >= event.stamp
                                 /\ e <= event.at => Reaches(l, e)'
<1>1. Types /\ Lists /\ (event # NoEvent => Climbs)
  BY DEF ListenInv
<1>2. renders \in Nat /\ now \in Nat /\ listeners[e] \in Seq(Listener) /\ ran[e] \in Nat
  BY <1>1 DEF Types
<1>3. event # NoEvent => /\ event.stamp \in Nat /\ event.after \in Nat /\ event.at \in Nat
                         /\ event.stamp <= now /\ event.after <= renders
  BY <1>1 DEF Types, Event, Climbs, Element
<1>4. l.order \in Nat /\ l.since \in Nat
  BY DEF Listener
<1>5. CASE Stays(l, e, names, renders')
  <2>1. PICK j \in DOMAIN listeners[e] :
            /\ l.name \in names /\ l.name = listeners[e][j].name
            /\ l.order = listeners[e][j].order /\ l.since = listeners[e][j].since
            /\ l.fn = (IF l.name = "click" THEN renders' ELSE listeners[e][j].fn)
    BY <1>5 DEF Stays
  <2>2. Attaches(listeners[e][j], e)
    BY <1>1 DEF Lists
  <2>3. Attaches(l, e)'
    BY <1>2, <1>4, <2>1, <2>2 DEF Attaches
  <2>4. ASSUME event # NoEvent
        PROVE  /\ l.order > event.after => l.since >= event.stamp
               /\ e <= event.at => Reaches(l, e)'
    <3>1. /\ listeners[e][j].order > event.after => listeners[e][j].since >= event.stamp
          /\ e <= event.at => Reaches(listeners[e][j], e)
      BY <1>1, <2>4 DEF Climbs
    <3>2. e <= event.at => Reaches(l, e)
      BY <2>1, <3>1 DEF Reaches, SameListener
    <3> QED
      BY <2>1, <3>1, <3>2 DEF Reaches
  <2> QED
    BY <2>3, <2>4
<1>6. CASE Comes(l, e, names, renders')
  <2>1. l.name \in names \ on[e] /\ l.order = renders' /\ l.fn = renders' /\ l.since = now
    BY <1>6 DEF Comes
  <2>2. Attaches(l, e)'
    BY <1>2, <2>1 DEF Attaches
  <2>3. event # NoEvent => l.since >= event.stamp /\ ~ (l.order <= event.after)
    BY <1>2, <1>3, <2>1
  <2> QED
    BY <2>2, <2>3 DEF Reaches
<1> QED
  BY <1>5, <1>6

LEMMA FlushInv ==
    ListenInv /\ Flush => ListenInv'
<1> SUFFICES ASSUME ListenInv, Flush
             PROVE  ListenInv'
  OBVIOUS
<1>1. Types /\ Lists /\ (event # NoEvent => Climbs)
  BY DEF ListenInv
<1>2. PICK names \in [Element -> SUBSET Name] :
          /\ on' = names
          /\ listeners' = [e \in Element |-> UpdateListeners(e, names[e], renders')]
          /\ ran' = [e \in Element |-> IF "~click" \in names[e] \ on[e] THEN 0 ELSE ran[e]]
  BY DEF Flush
<1>3. /\ pendingFlush' = FALSE /\ flushedAt' = now /\ renders' = renders + 1
      /\ now' = now /\ event' = event
  BY DEF Flush
<1>4. now \in Nat /\ renders \in Nat /\ renders' \in Nat /\ flushedAt' \in Nat
  BY <1>1, <1>3 DEF Types
<1>5. \A e \in Element : Updated(listeners'[e], e, names[e], renders')
  <2> TAKE e \in Element
  <2>1. Updated(UpdateListeners(e, names[e], renders'), e, names[e], renders')
    BY <1>1, <1>4, UpdateIs
  <2>2. listeners'[e] = UpdateListeners(e, names[e], renders')
    BY <1>2
  <2> QED
    BY <2>1, <2>2
<1>6. \A e \in Element : listeners'[e] \in Seq(Listener) /\ OnePerName(listeners'[e])
  BY <1>5 DEF Updated
<1>7. \A e \in Element : ran'[e] \in Nat /\ ran'[e] <= 1
  BY <1>1, <1>2 DEF Types, Lists
<1>8. ASSUME NEW e \in Element, NEW i \in DOMAIN listeners'[e], NEW l, l = listeners'[e][i]
      PROVE  /\ Attaches(l, e)'
             /\ event # NoEvent => /\ l.order > event.after => l.since >= event.stamp
                                   /\ e <= event.at => Reaches(l, e)'
  <2>1. l \in Listener
    BY <1>6, <1>8
  <2>2. Stays(l, e, names[e], renders') \/ Comes(l, e, names[e], renders')
    BY <1>5, <1>8 DEF Updated
  <2>3. on'[e] = names[e] /\ ran'[e] = (IF "~click" \in names[e] \ on[e] THEN 0 ELSE ran[e])
    BY <1>2
  <2> QED
    BY <1>3, <2>1, <2>2, <2>3, FlushKeepsListener
<1>9. Types'
  <2>1. listeners' = [e \in Element |-> listeners'[e]] /\ ran' = [e \in Element |-> ran'[e]]
    BY <1>2
  <2>2. listeners' \in [Element -> Seq(Listener)] /\ ran' \in [Element -> Nat]
    BY <1>6, <1>7, <2>1
  <2> QED
    BY <1>1, <1>2, <1>3, <1>4, <2>2 DEF Types
<1>10. Lists'
  <2>1. ASSUME NEW e \in Element, NEW i \in DOMAIN listeners'[e]
        PROVE  Attaches(listeners[e][i], e)'
    BY <1>8 DEF Attaches
  <2> QED
    BY <1>6, <1>7, <2>1 DEF Lists, OnePerName
<1>11. ASSUME event # NoEvent
       PROVE  Climbs'
  <2>1. event.stamp <= now /\ event.after <= renders /\ Snapshot /\ HeardRightly
    BY <1>1, <1>11 DEF Climbs
  <2>2. event'.stamp <= now' /\ event'.after <= renders'
    BY <1>1, <1>3, <1>4, <1>11, <2>1 DEF Types, Event
  <2>3. Snapshot' /\ HeardRightly'
    BY <1>3, <2>1 DEF Snapshot, HeardRightly, OnePerName
  <2>4. ASSUME NEW e \in Element, NEW i \in DOMAIN listeners'[e]
        PROVE  /\ listeners'[e][i].order > event'.after => listeners'[e][i].since >= event'.stamp
               /\ e <= event'.at => Reaches(listeners[e][i], e)'
    BY <1>3, <1>8, <1>11 DEF Reaches, SameListener
  <2> QED
    BY <2>2, <2>3, <2>4 DEF Climbs
<1> QED
  BY <1>3, <1>9, <1>10, <1>11 DEF ListenInv

\* The actions that leave the listeners and the event alone.
LEMMA IdleInv ==
    ListenInv /\ (DataChanges \/ Tick \/ UNCHANGED listenVars) => ListenInv'
<1> SUFFICES ASSUME ListenInv, DataChanges \/ Tick \/ UNCHANGED listenVars
             PROVE  ListenInv'
  OBVIOUS
<1>1. Types /\ Lists /\ (event # NoEvent => Climbs)
  BY DEF ListenInv
<1>2. /\ on' = on /\ renders' = renders /\ listeners' = listeners /\ ran' = ran
      /\ flushedAt' = flushedAt /\ event' = event /\ now' \in Nat /\ now <= now'
      /\ pendingFlush' \in BOOLEAN
  <2>1. now \in Nat /\ pendingFlush \in BOOLEAN
    BY <1>1 DEF Types
  <2>2. CASE DataChanges
    BY <2>1, <2>2 DEF DataChanges
  <2>3. CASE Tick
    BY <2>1, <2>3 DEF Tick
  <2>4. CASE UNCHANGED listenVars
    BY <2>1, <2>4 DEF listenVars
  <2> QED
    BY <2>2, <2>3, <2>4
<1>3. Types'
  BY <1>1, <1>2 DEF Types
<1>4. Lists'
  BY <1>1, <1>2 DEF Lists, Attaches, OnePerName
<1>5. ASSUME event # NoEvent
      PROVE  Climbs'
  <2>1. event.stamp \in Nat /\ now \in Nat
    BY <1>1, <1>5 DEF Types, Event
  <2>2. event'.stamp <= now' /\ event'.after <= renders'
    BY <1>1, <1>2, <1>5, <2>1 DEF Climbs
  <2>3. Snapshot' /\ HeardRightly'
    BY <1>1, <1>2, <1>5 DEF Climbs, Snapshot, HeardRightly, OnePerName
  <2>4. \A e \in Element : \A i \in DOMAIN listeners'[e] :
           /\ listeners'[e][i].order > event'.after => listeners'[e][i].since >= event'.stamp
           /\ e <= event'.at => Reaches(listeners[e][i], e)'
    BY <1>1, <1>2, <1>5 DEF Climbs, Reaches, SameListener
  <2> QED
    BY <2>2, <2>3, <2>4 DEF Climbs
<1> QED
  BY <1>2, <1>3, <1>4, <1>5 DEF ListenInv

LEMMA FireInv ==
    ListenInv /\ Fire => ListenInv'
<1> SUFFICES ASSUME ListenInv, Fire
             PROVE  ListenInv'
  OBVIOUS
<1>1. Types /\ Lists
  BY DEF ListenInv
<1>2. /\ on' = on /\ renders' = renders /\ listeners' = listeners /\ ran' = ran
      /\ now' = now /\ flushedAt' = flushedAt /\ pendingFlush' = pendingFlush
  BY DEF Fire
<1>3. PICK stamp \in 1 .. now, matches \in BOOLEAN :
          event' = [stamp |-> stamp, matches |-> matches, after |-> renders,
                    at |-> 1, left |-> listeners[1], heard |-> {}]
  BY DEF Fire
<1>4. 1 \in Element /\ listeners[1] \in Seq(Listener) /\ renders \in Nat /\ now \in Nat
  BY <1>1, OutermostAssumption DEF Element, Types
<1>5. /\ event'.stamp = stamp /\ event'.after = renders /\ event'.at = 1
      /\ event'.left = listeners[1] /\ event'.heard = {}
  BY <1>3
<1>6. Types'
  <2>1. event' \in Event
    BY <1>3, <1>4 DEF Event
  <2> QED
    BY <1>1, <1>2, <2>1 DEF Types
<1>7. Lists'
  BY <1>1, <1>2 DEF Lists, Attaches, OnePerName
<1>8. \A e \in Element : \A i \in DOMAIN listeners[e] :
         listeners[e][i].order \in Nat /\ listeners[e][i].order <= renders
  <2> TAKE e \in Element
  <2> TAKE i \in DOMAIN listeners[e]
  <2>1. listeners[e] \in Seq(Listener)
    BY <1>1 DEF Types
  <2>2. listeners[e][i] \in Listener
    BY <2>1
  <2> QED
    BY <1>1, <2>2 DEF Lists, Attaches, Listener
<1>9. Snapshot' /\ HeardRightly'
  BY <1>1, <1>4, <1>5, <1>8 DEF Snapshot, HeardRightly, OnePerName, Lists
<1>10. ASSUME NEW e \in Element, NEW i \in DOMAIN listeners'[e]
       PROVE  /\ listeners'[e][i].order > event'.after => listeners'[e][i].since >= event'.stamp
              /\ e <= event'.at => Reaches(listeners[e][i], e)'
  <2>1. listeners'[e][i].order \in Nat /\ listeners'[e][i].order <= event'.after
    BY <1>2, <1>5, <1>8
  <2>2. ~ (listeners'[e][i].order > event'.after)
    BY <1>4, <1>5, <2>1
  <2>3. e <= 1 => e = 1
    BY DEF Element
  <2> QED
    BY <1>2, <1>5, <2>2, <2>3 DEF Reaches, SameListener
<1>11. event'.stamp <= now' /\ event'.after <= renders'
  BY <1>2, <1>3, <1>4, <1>5
<1> QED
  BY <1>6, <1>7, <1>9, <1>10, <1>11 DEF ListenInv, Climbs

LEMMA ClimbInv ==
    ListenInv /\ Climb => ListenInv'
<1> SUFFICES ASSUME ListenInv, Climb
             PROVE  ListenInv'
  OBVIOUS
<1>1. Types /\ Lists /\ Climbs
  BY DEF ListenInv, Climb
<1>2. /\ on' = on /\ renders' = renders /\ listeners' = listeners /\ ran' = ran
      /\ now' = now /\ flushedAt' = flushedAt /\ pendingFlush' = pendingFlush
      /\ event.left = <<>> /\ event.at < Outermost
      /\ event' = [event EXCEPT !.at = @ + 1, !.left = listeners[event.at + 1]]
  BY DEF Climb
<1>3. event \in Event
  BY <1>1 DEF Types, Climb
<1> DEFINE up == event.at + 1
<1>4. event.at \in Element /\ event.at \in Nat /\ up \in Element /\ up # 1 /\ listeners[up] \in Seq(Listener)
  BY <1>1, <1>2, <1>3, OutermostAssumption DEF Types, Event, Element
<1>5. /\ event'.stamp = event.stamp /\ event'.after = event.after /\ event'.at = up
      /\ event'.left = listeners[up] /\ event'.heard = event.heard /\ event'.matches = event.matches
  BY <1>2, <1>3 DEF Event
<1>6. Types'
  <2>1. event' \in Event
    BY <1>2, <1>3, <1>4 DEF Event
  <2> QED
    BY <1>1, <1>2, <2>1 DEF Types
<1> HIDE DEF up
<1>7. Lists'
  BY <1>1, <1>2 DEF Lists, Attaches, OnePerName
<1>8. \A h \in event.heard : h.el \in Nat /\ h.el <= event.at /\ h.el # up /\ h.el <= up
  BY <1>1, <1>3, <1>4 DEF Climbs, HeardRightly, Event, Heard, Element, up
<1>9. Snapshot' /\ HeardRightly'
  <2>1. OnePerName(listeners[up])
    BY <1>1, <1>4 DEF Lists
  <2>2. Snapshot'
    BY <1>4, <1>5, <1>8, <2>1 DEF Snapshot, OnePerName
  <2>3. HeardRightly'
    BY <1>1, <1>5, <1>8 DEF HeardRightly, Climbs
  <2> QED
    BY <2>2, <2>3
<1>10. ASSUME NEW e \in Element, NEW i \in DOMAIN listeners'[e]
       PROVE  /\ listeners'[e][i].order > event'.after => listeners'[e][i].since >= event'.stamp
              /\ e <= event'.at => Reaches(listeners[e][i], e)'
  <2>1. /\ listeners[e][i].order > event.after => listeners[e][i].since >= event.stamp
        /\ e <= event.at => Reaches(listeners[e][i], e)
    BY <1>1, <1>2 DEF Climbs
  <2>2. e <= up => e <= event.at \/ e = up
    BY <1>4 DEF Element, up
  <2>3. CASE e <= event.at
    BY <1>2, <1>5, <2>1, <2>3 DEF Reaches
  <2>4. CASE e = up
    BY <1>2, <1>5, <2>1, <2>4 DEF Reaches, SameListener
  <2> QED
    BY <1>2, <1>5, <2>1, <2>2, <2>3, <2>4
<1>11. event'.stamp <= now' /\ event'.after <= renders'
  BY <1>1, <1>2, <1>5 DEF Climbs
<1> QED
  BY <1>6, <1>7, <1>9, <1>10, <1>11 DEF ListenInv, Climbs

LEMMA EventEndsInv ==
    ListenInv /\ EventEnds => ListenInv'
<1> SUFFICES ASSUME ListenInv, EventEnds
             PROVE  ListenInv'
  OBVIOUS
<1>1. Types' /\ event' = NoEvent
  BY DEF ListenInv, Types, EventEnds
<1>2. Lists'
  BY DEF ListenInv, EventEnds, Lists, Attaches, OnePerName
<1> QED
  BY <1>1, <1>2 DEF ListenInv

\* A list without one of its listeners.
Without(r, s, i) ==
    /\ r \in Seq(Listener) /\ OnePerName(r)
    /\ \A a \in DOMAIN r : \E b \in DOMAIN s : b # i /\ r[a] = s[b]

LEMMA RemoveAtIs ==
    ASSUME NEW s \in Seq(Listener), OnePerName(s), NEW i \in DOMAIN s
    PROVE  Without(RemoveAt(s, i), s, i)
<1> DEFINE p == SubSeq(s, 1, i - 1)
           q == SubSeq(s, i + 1, Len(s))
           r == p \o q
<1>1. Len(s) \in Nat /\ DOMAIN s = 1 .. Len(s) /\ i \in 1 .. Len(s)
  OBVIOUS
<1>2. /\ p \in Seq(Listener) /\ Len(p) = i - 1 /\ DOMAIN p = 1 .. i - 1
      /\ \A a \in 1 .. i - 1 : p[a] = s[a]
  BY <1>1
<1>3. /\ q \in Seq(Listener) /\ Len(q) = Len(s) - i /\ DOMAIN q = 1 .. Len(s) - i
      /\ \A a \in 1 .. Len(s) - i : q[a] = s[a + i]
  BY <1>1
<1>4. RemoveAt(s, i) = r
  BY DEF RemoveAt
<1> HIDE DEF p, q
<1>5. /\ r \in Seq(Listener) /\ DOMAIN r = 1 .. Len(s) - 1
      /\ \A a \in 1 .. Len(s) - 1 : r[a] = IF a < i THEN p[a] ELSE q[a - i + 1]
  <2>1. /\ r \in Seq(Listener) /\ Len(r) = Len(p) + Len(q)
        /\ \A a \in 1 .. Len(p) + Len(q) : r[a] = IF a <= Len(p) THEN p[a] ELSE q[a - Len(p)]
    BY <1>2, <1>3
  <2>2. Len(p) + Len(q) = Len(s) - 1
    BY <1>1, <1>2, <1>3
  <2>3. DOMAIN r = 1 .. Len(s) - 1
    BY <2>1, <2>2
  <2>4. \A a \in 1 .. Len(s) - 1 : (a <= Len(p) <=> a < i) /\ a - Len(p) = a - i + 1
    BY <1>1, <1>2
  <2> HIDE DEF r
  <2> QED
    BY <2>1, <2>2, <2>3, <2>4
<1> HIDE DEF r
<1>6. \A a \in DOMAIN r : r[a] = s[IF a < i THEN a ELSE a + 1]
  <2> TAKE a \in DOMAIN r
  <2>1. CASE a < i
    BY <1>1, <1>2, <1>5, <2>1
  <2>2. CASE ~ (a < i)
    <3>1. a - i + 1 \in 1 .. Len(s) - i /\ (a - i + 1) + i = a + 1
      BY <1>1, <1>5, <2>2
    <3> QED
      BY <1>3, <1>5, <2>2, <3>1
  <2> QED
    BY <2>1, <2>2
<1>7. \A a \in DOMAIN r : (IF a < i THEN a ELSE a + 1) \in DOMAIN s \ {i}
  BY <1>1, <1>5
<1>8. \A a, b \in DOMAIN r : (IF a < i THEN a ELSE a + 1) = (IF b < i THEN b ELSE b + 1) => a = b
  BY <1>1, <1>5
<1>9. OnePerName(r)
  BY <1>6, <1>7, <1>8 DEF OnePerName
<1> QED
  BY <1>4, <1>5, <1>6, <1>7, <1>9 DEF Without

\* The first listener in a list and the others.
LEMMA HeadAndTail ==
    ASSUME NEW s \in Seq(Listener), s # <<>>, OnePerName(s)
    PROVE  /\ Head(s) = s[1] /\ 1 \in DOMAIN s /\ Head(s) \in Listener
           /\ Tail(s) \in Seq(Listener) /\ OnePerName(Tail(s))
           /\ \A a \in DOMAIN Tail(s) : a + 1 \in DOMAIN s /\ Tail(s)[a] = s[a + 1] /\ a + 1 # 1
           /\ \A a \in DOMAIN s : a # 1 => a - 1 \in DOMAIN Tail(s) /\ Tail(s)[a - 1] = s[a]
<1> DEFINE t == Tail(s)
<1>1. Len(s) \in Nat /\ Len(s) # 0 /\ DOMAIN s = 1 .. Len(s) /\ Head(s) = s[1]
  OBVIOUS
<1>2. /\ t \in Seq(Listener) /\ DOMAIN t = 1 .. Len(s) - 1
      /\ \A a \in 1 .. Len(s) - 1 : t[a] = s[a + 1]
  BY <1>1
<1> HIDE DEF t
<1>3. \A a \in DOMAIN t : a + 1 \in DOMAIN s /\ t[a] = s[a + 1] /\ a + 1 # 1
  BY <1>1, <1>2
<1>4. \A a \in DOMAIN s : a # 1 => a - 1 \in DOMAIN t /\ t[a - 1] = s[a]
  <2> TAKE a \in DOMAIN s
  <2>1. CASE a # 1
    <3>1. a - 1 \in 1 .. Len(s) - 1 /\ (a - 1) + 1 = a
      BY <1>1, <2>1
    <3>2. t[a - 1] = s[(a - 1) + 1]
      BY <1>2, <3>1
    <3> QED
      BY <1>2, <3>1, <3>2
  <2> QED
    BY <2>1
<1>5. OnePerName(t)
  <2> SUFFICES ASSUME NEW a \in DOMAIN t, NEW b \in DOMAIN t, t[a].name = t[b].name
               PROVE  a = b
    BY DEF OnePerName
  <2>1. a + 1 = b + 1
    BY <1>3 DEF OnePerName
  <2> QED
    BY <1>1, <1>2, <2>1
<1>6. 1 \in DOMAIN s /\ s[1] \in Listener
  BY <1>1
<1> QED
  BY <1>1, <1>2, <1>3, <1>4, <1>5, <1>6 DEF t

LEMMA SkipInv ==
    ListenInv /\ Skip => ListenInv'
<1> SUFFICES ASSUME ListenInv, Skip
             PROVE  ListenInv'
  OBVIOUS
<1>1. Types /\ Lists /\ Climbs
  BY DEF ListenInv, Skip
<1>2. /\ on' = on /\ renders' = renders /\ listeners' = listeners /\ ran' = ran
      /\ now' = now /\ flushedAt' = flushedAt /\ pendingFlush' = pendingFlush
      /\ event.left # <<>> /\ Hearing = {}
      /\ event' = [event EXCEPT !.left = Tail(@)]
  BY DEF Skip
<1>3. event \in Event
  BY <1>1 DEF Types, Skip
<1> DEFINE left == event.left
<1>4. left \in Seq(Listener) /\ left # <<>> /\ OnePerName(left) /\ event.at \in Element
  BY <1>1, <1>2, <1>3 DEF Event, Climbs, Snapshot
<1>5. /\ Head(left) = left[1] /\ 1 \in DOMAIN left
      /\ Tail(left) \in Seq(Listener) /\ OnePerName(Tail(left))
      /\ \A a \in DOMAIN Tail(left) : a + 1 \in DOMAIN left /\ Tail(left)[a] = left[a + 1]
      /\ \A a \in DOMAIN left : a # 1 => a - 1 \in DOMAIN Tail(left) /\ Tail(left)[a - 1] = left[a]
  BY <1>4, HeadAndTail
<1>6. /\ event'.stamp = event.stamp /\ event'.after = event.after /\ event'.at = event.at
      /\ event'.left = Tail(left) /\ event'.heard = event.heard /\ event'.matches = event.matches
  BY <1>2, <1>3 DEF Event
<1>7. Types'
  <2>1. event' \in Event
    BY <1>2, <1>3, <1>5 DEF Event
  <2> QED
    BY <1>1, <1>2, <2>1 DEF Types
<1>8. Lists'
  BY <1>1, <1>2 DEF Lists, Attaches, OnePerName
<1>9. Snapshot' /\ HeardRightly'
  <2>1. Snapshot'
    BY <1>1, <1>5, <1>6 DEF Snapshot, Climbs, OnePerName
  <2>2. HeardRightly'
    BY <1>1, <1>6 DEF HeardRightly, Climbs
  <2> QED
    BY <2>1, <2>2
<1>10. ASSUME NEW i \in DOMAIN listeners[event.at], SameListener(left[1], listeners[event.at][i])
       PROVE  event.at # 1 /\ ~ (listeners[event.at][i].since <= event.stamp)
  <2>1. SameListener(listeners[event.at][i], Head(event.left))
    BY <1>5, <1>10 DEF SameListener
  <2>2. ~ Hears(listeners[event.at][i])
    BY <1>2, <2>1 DEF Hearing
  <2>3. listeners[event.at] \in Seq(Listener)
    BY <1>1, <1>4 DEF Types
  <2>4. listeners[event.at][i] \in Listener
    BY <2>3
  <2>5. listeners[event.at][i].since \in Nat /\ event.stamp \in Nat
    BY <1>3, <2>4 DEF Listener, Event
  <2> QED
    BY <2>2, <2>5 DEF Hears
<1>11. ASSUME NEW e \in Element, NEW i \in DOMAIN listeners'[e]
       PROVE  /\ listeners'[e][i].order > event'.after => listeners'[e][i].since >= event'.stamp
              /\ e <= event'.at => Reaches(listeners[e][i], e)'
  <2>1. /\ listeners[e][i].order > event.after => listeners[e][i].since >= event.stamp
        /\ e <= event.at => Reaches(listeners[e][i], e)
    BY <1>1, <1>2 DEF Climbs
  <2>2. CASE e <= event.at
    <3>1. SUFFICES ASSUME listeners[e][i].order <= event.after,
                          e = 1 \/ listeners[e][i].since <= event.stamp
                   PROVE  \/ \E h \in event.heard : h.el = e /\ SameListener(h.lis, listeners[e][i])
                          \/ e = event.at /\ \E j \in DOMAIN Tail(left) : SameListener(Tail(left)[j], listeners[e][i])
      BY <1>2, <1>6, <2>1 DEF Reaches, SameListener
    <3>2. CASE \E h \in event.heard : h.el = e /\ SameListener(h.lis, listeners[e][i])
      BY <3>2
    <3>3. CASE e = event.at /\ \E j \in DOMAIN left : SameListener(left[j], listeners[e][i])
      <4>1. PICK j \in DOMAIN left : SameListener(left[j], listeners[e][i])
        BY <3>3
      <4>2. j # 1
        BY <1>2, <1>10, <3>1, <3>3, <4>1
      <4>3. j - 1 \in DOMAIN Tail(left) /\ Tail(left)[j - 1] = left[j]
        BY <1>5, <4>2
      <4> QED
        BY <3>3, <4>1, <4>3
    <3> QED
      BY <2>1, <2>2, <3>1, <3>2, <3>3 DEF Reaches
  <2> QED
    BY <1>2, <1>6, <2>1, <2>2
<1>12. event'.stamp <= now' /\ event'.after <= renders'
  BY <1>1, <1>2, <1>6 DEF Climbs
<1> QED
  BY <1>7, <1>8, <1>9, <1>11, <1>12 DEF ListenInv, Climbs

\* What the listener i of the element that the event reached does to the lists.
Heeds(i) ==
    LET e == event.at
        l == listeners[e][i]
        once == Passes /\ l.name = "~click"
    IN  /\ event' = [event EXCEPT !.left = Tail(@),
                         !.heard = @ \union {[el |-> e, lis |-> l, latest |-> renders]}]
        /\ listeners' = IF once THEN [listeners EXCEPT ![e] = RemoveAt(@, i)] ELSE listeners
        /\ ran' = IF once THEN [ran EXCEPT ![e] = @ + 1] ELSE ran

\* The listeners after it are some of those before, without one of .once that ran.
LEMMA HeedsLists ==
    ASSUME Types, Lists, event # NoEvent, event \in Event, on' = on, renders' = renders,
           NEW i \in DOMAIN listeners[event.at], Heeds(i)
    PROVE  /\ listeners' \in [Element -> Seq(Listener)] /\ ran' \in [Element -> Nat] /\ Lists'
           /\ \A e \in Element : \A a \in DOMAIN listeners'[e] :
                 \E b \in DOMAIN listeners[e] : listeners'[e][a] = listeners[e][b]
<1> DEFINE at == event.at
           l == listeners[at][i]
           once == Passes /\ l.name = "~click"
<1>1. at \in Element /\ listeners[at] \in Seq(Listener) /\ OnePerName(listeners[at])
  BY DEF Types, Event, Lists
<1>2. CASE ~once
  <2>1. listeners' = listeners /\ ran' = ran
    BY <1>2 DEF Heeds
  <2>2. Lists'
    BY <2>1 DEF Lists, Attaches, OnePerName
  <2> QED
    BY <2>1, <2>2 DEF Types
<1>3. CASE once
  <2> DEFINE r == RemoveAt(listeners[at], i)
  <2>1. listeners' = [listeners EXCEPT ![at] = r] /\ ran' = [ran EXCEPT ![at] = @ + 1]
    BY <1>3 DEF Heeds
  <2>2. /\ r \in Seq(Listener) /\ OnePerName(r)
        /\ \A a \in DOMAIN r : \E b \in DOMAIN listeners[at] : b # i /\ r[a] = listeners[at][b]
    BY <1>1, RemoveAtIs DEF Without
  <2>3. Attaches(l, at) /\ l.name = "~click"
    BY <1>1, <1>3 DEF Lists
  <2> HIDE DEF r
  <2>4. listeners'[at] = r /\ \A e \in Element : e # at => listeners'[e] = listeners[e]
    BY <1>1, <2>1 DEF Types
  <2>5. ran'[at] = 1 /\ \A e \in Element : e # at => ran'[e] = ran[e]
    BY <1>1, <2>1, <2>3 DEF Types, Attaches
  <2>6. listeners' \in [Element -> Seq(Listener)] /\ ran' \in [Element -> Nat]
    BY <1>1, <2>1, <2>2 DEF Types
  <2>7. ASSUME NEW e \in Element, NEW a \in DOMAIN listeners'[e]
        PROVE  /\ Attaches(listeners[e][a], e)'
               /\ \E b \in DOMAIN listeners[e] : listeners'[e][a] = listeners[e][b]
    <3>1. CASE e # at
      BY <2>4, <2>5, <2>7, <3>1 DEF Lists, Attaches
    <3>2. CASE e = at
      <4>1. PICK b \in DOMAIN listeners[at] : b # i /\ r[a] = listeners[at][b]
        BY <2>2, <2>4, <2>7, <3>2
      <4>2. Attaches(listeners[at][b], at)
        BY <1>1 DEF Lists
      <4>3. listeners[at][b].name # "~click"
        BY <1>1, <2>3, <4>1 DEF OnePerName
      <4> QED
        BY <2>4, <3>2, <4>1, <4>2, <4>3 DEF Attaches
    <3> QED
      BY <3>1, <3>2
  <2>8. \A e \in Element : ran'[e] <= 1 /\ OnePerName(listeners'[e])
    BY <2>2, <2>4, <2>5 DEF Lists
  <2>9. Lists'
    BY <2>7, <2>8 DEF Lists, OnePerName
  <2> QED
    BY <2>6, <2>7, <2>9
<1> QED
  BY <1>2, <1>3

LEMMA HearInv ==
    ListenInv /\ Hear => ListenInv'
<1> SUFFICES ASSUME ListenInv, Hear
             PROVE  ListenInv'
  OBVIOUS
<1>1. Types /\ Lists /\ Climbs
  BY DEF ListenInv, Hear
<1>2. /\ on' = on /\ renders' = renders /\ now' = now /\ flushedAt' = flushedAt
      /\ pendingFlush' \in BOOLEAN /\ event # NoEvent /\ event.left # <<>>
  BY DEF Hear
<1>3. event \in Event /\ renders \in Nat
  BY <1>1, <1>2 DEF Types
<1> DEFINE at == event.at
           left == event.left
<1>4. PICK i \in Hearing : Heeds(i)
  BY DEF Hear, Heeds
<1> DEFINE l == listeners[at][i]
           new == [el |-> at, lis |-> l, latest |-> renders]
<1>5. i \in DOMAIN listeners[at] /\ SameListener(l, Head(left)) /\ Hears(l)
  BY <1>4 DEF Hearing
<1>6. left \in Seq(Listener) /\ left # <<>> /\ OnePerName(left) /\ at \in Element
  BY <1>1, <1>2, <1>3 DEF Event, Climbs, Snapshot
<1>7. /\ Head(left) = left[1] /\ 1 \in DOMAIN left
      /\ Tail(left) \in Seq(Listener) /\ OnePerName(Tail(left))
      /\ \A a \in DOMAIN Tail(left) : a + 1 \in DOMAIN left /\ Tail(left)[a] = left[a + 1] /\ a + 1 # 1
      /\ \A a \in DOMAIN left : a # 1 => a - 1 \in DOMAIN Tail(left) /\ Tail(left)[a - 1] = left[a]
  BY <1>6, HeadAndTail
<1>8. listeners[at] \in Seq(Listener) /\ OnePerName(listeners[at]) /\ l \in Listener /\ Attaches(l, at)
  BY <1>1, <1>5, <1>6 DEF Types, Lists
<1>9. event' = [event EXCEPT !.left = Tail(left), !.heard = event.heard \union {new}]
  BY <1>4 DEF Heeds
<1>10. /\ event'.stamp = event.stamp /\ event'.after = event.after /\ event'.at = at
       /\ event'.left = Tail(left) /\ event'.heard = event.heard \union {new}
  BY <1>3, <1>9 DEF Event
<1>11. new \in Heard /\ new.el = at /\ new.lis = l /\ new.latest = renders
  BY <1>3, <1>6, <1>8 DEF Heard
<1>12. event' \in Event
  BY <1>3, <1>7, <1>9, <1>11 DEF Event
<1>13. /\ listeners' \in [Element -> Seq(Listener)] /\ ran' \in [Element -> Nat] /\ Lists'
       /\ \A e \in Element : \A a \in DOMAIN listeners'[e] :
             \E b \in DOMAIN listeners[e] : listeners'[e][a] = listeners[e][b]
  BY <1>1, <1>2, <1>3, <1>4, <1>5, HeedsLists
<1>14. Types'
  BY <1>1, <1>2, <1>12, <1>13 DEF Types
<1>15. /\ l.order > event.after => l.since = event.stamp
       /\ l.fn = (IF l.name = "click" THEN renders ELSE l.order)
  <2>1. l.order > event.after => l.since >= event.stamp
    BY <1>1, <1>5, <1>6 DEF Climbs
  <2>2. event.stamp \in Nat /\ event.after \in Nat /\ l.since \in Nat /\ l.order \in Nat
    BY <1>3, <1>8 DEF Event, Listener
  <2>3. at = 1 => l.order <= event.after
    BY <1>1, <1>5, <1>7 DEF Climbs, Snapshot, SameListener
  <2>4. at # 1 => event.stamp >= l.since
    BY <1>5 DEF Hears
  <2>5. l.fn = (IF l.name = "click" THEN renders ELSE l.order)
    BY <1>8 DEF Attaches
  <2> HIDE DEF l
  <2> QED
    BY <2>1, <2>2, <2>3, <2>4, <2>5
<1>16. l.name = left[1].name /\ \A h \in event.heard : h.el = at => h.lis.name # l.name
  BY <1>1, <1>5, <1>7 DEF Climbs, Snapshot, SameListener
<1> HIDE DEF new, l
<1>17. Snapshot'
  <2>1. \A a \in DOMAIN Tail(left) : Tail(left)[a].name # l.name
    BY <1>6, <1>7, <1>16 DEF OnePerName
  <2>2. \A h \in event.heard : h.el = at => \A a \in DOMAIN Tail(left) : Tail(left)[a].name # h.lis.name
    BY <1>1, <1>7 DEF Climbs, Snapshot
  <2>3. at = 1 => \A a \in DOMAIN Tail(left) : Tail(left)[a].order <= event.after
    BY <1>1, <1>7 DEF Climbs, Snapshot
  <2> QED
    BY <1>7, <1>10, <1>11, <2>1, <2>2, <2>3 DEF Snapshot, OnePerName
<1>18. HeardRightly'
  <2>1. at <= at
    BY <1>6 DEF Element
  <2>2. /\ new.el <= at /\ new.lis.fn = (IF new.lis.name = "click" THEN new.latest ELSE new.lis.order)
        /\ new.lis.order > event.after => new.lis.since = event.stamp
    BY <1>11, <1>15, <2>1
  <2>3. \A h \in event.heard : ~ (h.el = new.el /\ h.lis.name = new.lis.name)
    BY <1>11, <1>16
  <2>4. HeardRightly
    BY <1>1 DEF Climbs
  <2> QED
    BY <1>10, <2>2, <2>3, <2>4 DEF HeardRightly
<1>19. ASSUME NEW e \in Element, NEW b \in DOMAIN listeners[e],
              NEW x, x = listeners[e][b]
       PROVE  /\ x.order > event'.after => x.since >= event'.stamp
              /\ e <= event'.at => Reaches(x, e)'
  <2>1. /\ x.order > event.after => x.since >= event.stamp
        /\ e <= event.at => Reaches(x, e)
    BY <1>1, <1>19 DEF Climbs
  <2>2. CASE e <= event.at
    <3>1. SUFFICES ASSUME x.order <= event.after, e = 1 \/ x.since <= event.stamp
                   PROVE  \/ \E h \in event'.heard : h.el = e /\ SameListener(h.lis, x)
                          \/ e = at /\ \E j \in DOMAIN Tail(left) : SameListener(Tail(left)[j], x)
      BY <1>10, <2>1 DEF Reaches, SameListener
    <3>2. CASE \E h \in event.heard : h.el = e /\ SameListener(h.lis, x)
      BY <1>10, <3>2
    <3>3. CASE e = event.at /\ \E j \in DOMAIN left : SameListener(left[j], x)
      <4>1. PICK j \in DOMAIN left : SameListener(left[j], x)
        BY <3>3
      <4>2. CASE j = 1
        <5>1. x.name = l.name
          BY <1>16, <4>1, <4>2 DEF SameListener
        <5>2. b = i
          BY <1>5, <1>8, <1>19, <3>3, <5>1 DEF OnePerName, l
        <5>3. x = l
          BY <1>19, <3>3, <5>2 DEF l
        <5>4. new \in event'.heard /\ new.el = e /\ SameListener(new.lis, x)
          BY <1>10, <1>11, <3>3, <5>3 DEF SameListener
        <5> QED
          BY <5>4
      <4>3. CASE j # 1
        <5>1. j - 1 \in DOMAIN Tail(left) /\ Tail(left)[j - 1] = left[j]
          BY <1>7, <4>3
        <5> QED
          BY <3>3, <4>1, <5>1
      <4> QED
        BY <4>2, <4>3
    <3> QED
      BY <2>1, <2>2, <3>1, <3>2, <3>3 DEF Reaches
  <2> QED
    BY <1>10, <2>1, <2>2
<1>20. ASSUME NEW e \in Element, NEW a \in DOMAIN listeners'[e]
       PROVE  /\ listeners'[e][a].order > event'.after => listeners'[e][a].since >= event'.stamp
              /\ e <= event'.at => Reaches(listeners[e][a], e)'
  <2>1. PICK b \in DOMAIN listeners[e] : listeners'[e][a] = listeners[e][b]
    BY <1>13
  <2>2. \A x : x = listeners[e][b] =>
           /\ x.order > event'.after => x.since >= event'.stamp
           /\ e <= event'.at => Reaches(x, e)'
    BY <1>19
  <2> QED
    BY <2>1, <2>2 DEF Reaches, SameListener
<1>21. event'.stamp <= now' /\ event'.after <= renders'
  BY <1>1, <1>2, <1>10 DEF Climbs
<1> QED
  BY <1>13, <1>14, <1>17, <1>18, <1>20, <1>21 DEF ListenInv, Climbs

-----------------------------------------------------------------------------

\* Every listener of an element is that of a handler which the last render gave,
\* with the function of that render unless it is of .once, and no two are of one
\* name; an event that climbs was heard only by listeners with the function they
\* had to have, and is still to be heard, or was, by each that it is for
\* (updateListeners, add$1, createOnceHandler$1).
THEOREM ListenersFollowRenders ==
    ListenSpec => []ListenInv
<1>1. ListenInv /\ [ListenNext]_listenVars => ListenInv'
  BY FlushInv, IdleInv, FireInv, HearInv, SkipInv, ClimbInv, EventEndsInv DEF ListenNext
<1> QED
  BY <1>1, ListenInitInv, PTL DEF ListenSpec

LEMMA ListenInvHearing ==
    ListenInv => HandlersHearTheirEvents
<1> SUFFICES ASSUME ListenInv
             PROVE  HandlersHearTheirEvents
  OBVIOUS
<1>1. Types /\ Lists /\ (event # NoEvent => Climbs)
  BY DEF ListenInv
<1>2. \A e \in Element : ran[e] <= 1
  BY <1>1 DEF Lists
<1>3. ASSUME event # NoEvent, NEW h \in event.heard
      PROVE  /\ h.lis.fn = (IF h.lis.name = "click" THEN h.latest ELSE h.lis.order)
             /\ h.lis.order > event.after => h.lis.since = event.stamp
             /\ \A o \in event.heard : h.el = o.el /\ SameListener(h.lis, o.lis) => h = o
  BY <1>1, <1>3 DEF Climbs, HeardRightly, SameListener
<1>4. ASSUME event # NoEvent, NEW e \in 1 .. event.at, NEW i \in DOMAIN listeners[e],
             e < event.at \/ event.left = <<>>, listeners[e][i].order <= event.after,
             e = 1 \/ listeners[e][i].since <= event.stamp
      PROVE  \E h \in event.heard : h.el = e /\ SameListener(h.lis, listeners[e][i])
  <2>1. event.at \in 1 .. Outermost
    BY <1>1, <1>4 DEF Types, Event, Element
  <2>2. e \in Element /\ e <= event.at /\ (e < event.at => e # event.at)
    BY <2>1, OutermostAssumption DEF Element
  <2>3. Reaches(listeners[e][i], e)
    BY <1>1, <1>4, <2>2 DEF Climbs
  <2> QED
    BY <1>4, <2>2, <2>3 DEF Reaches
<1> QED
  BY <1>2, <1>3, <1>4 DEF HandlersHearTheirEvents

\* Whatever renders come between the listeners of an event that climbs: a handler
\* hears it once and with the right function, each that was there when it was made
\* hears it, and one of .once runs once (updateListeners, add$1,
\* createOnceHandler$1).
THEOREM EventsAreHeard ==
    ListenSpec => []HandlersHearTheirEvents
BY ListenersFollowRenders, ListenInvHearing, PTL

-----------------------------------------------------------------------------
(* The message box. *)

\* What does not count left out, s increases strictly.
Increases(s, dub) == \A i, j \in DOMAIN s : i < j /\ {s[i], s[j]} \cap dub = {} => s[i] < s[j]

\* The text as the page has it: what is composed counts, and what the page has
\* emptied does not.
Area == IF composing THEN boxValue \o preedit ELSE charInputArea

BoxTypes ==
    /\ typed \in Nat /\ composing \in BOOLEAN /\ pendingRender \in BOOLEAN
    /\ {sent, boxValue, preedit, charInputArea} \subseteq Seq(1 .. typed)
    /\ doubtful \subseteq 1 .. typed /\ taken \subseteq 1 .. typed

BoxInv ==
    /\ BoxTypes
    /\ ~composing => preedit = <<>>
    /\ Range(charInputArea) \subseteq Range(boxValue)
    /\ ~composing /\ ~pendingRender => boxValue = charInputArea
    /\ Increases(sent \o Area, doubtful)
    /\ Range(sent \o Area) \ doubtful = (1 .. typed) \ (taken \union doubtful)

-----------------------------------------------------------------------------

\* What two texts hold, one after the other.
LEMMA RangeOfTwo ==
    ASSUME NEW S, NEW s \in Seq(S), NEW t \in Seq(S)
    PROVE  /\ s \o t \in Seq(S)
           /\ Range(s \o t) = Range(s) \union Range(t)
<1>1. s \o t \in Seq(S) /\ Len(s \o t) = Len(s) + Len(t)
    OBVIOUS
<1>2. \A i \in 1 .. Len(s) : (s \o t)[i] = s[i] /\ i \in DOMAIN (s \o t)
    BY <1>1
<1>3. \A i \in 1 .. Len(t) : (s \o t)[Len(s) + i] = t[i] /\ Len(s) + i \in DOMAIN (s \o t)
    BY <1>1
<1>4. ASSUME NEW i \in DOMAIN (s \o t)
      PROVE  (s \o t)[i] \in Range(s) \union Range(t)
    <2>1. CASE i <= Len(s)
        BY <1>1, <1>2, <2>1 DEF Range
    <2>2. CASE i > Len(s)
        <3>1. i - Len(s) \in 1 .. Len(t) /\ Len(s) + (i - Len(s)) = i
            BY <1>1, <2>2
        <3> QED  BY <1>3, <3>1 DEF Range
    <2> QED  BY <1>1, <2>1, <2>2
<1>5. Range(s \o t) \subseteq Range(s) \union Range(t)
    BY <1>4 DEF Range
<1>6. \A x \in Range(s) : x \in Range(s \o t)
    <2> SUFFICES ASSUME NEW i \in 1 .. Len(s) PROVE s[i] \in Range(s \o t)
        BY DEF Range
    <2> QED  BY <1>2 DEF Range
<1>7. \A x \in Range(t) : x \in Range(s \o t)
    <2> SUFFICES ASSUME NEW i \in 1 .. Len(t) PROVE t[i] \in Range(s \o t)
        BY DEF Range
    <2> QED  BY <1>3 DEF Range
<1> QED  BY <1>1, <1>5, <1>6, <1>7

\* One more is typed.
LEMMA OneMore ==
    ASSUME NEW n \in Nat, NEW s \in Seq(1 .. n), NEW dub \in SUBSET (1 .. n), Increases(s, dub)
    PROVE  /\ Append(s, n + 1) \in Seq(1 .. n + 1)
           /\ Increases(Append(s, n + 1), dub)
           /\ Range(Append(s, n + 1)) = Range(s) \union {n + 1}
<1> DEFINE a == Append(s, n + 1)
<1>1. a \in Seq(1 .. n + 1) /\ Len(a) = Len(s) + 1 /\ a[Len(s) + 1] = n + 1
    BY SMT
<1>2. \A i \in 1 .. Len(s) : a[i] = s[i] /\ s[i] \in 1 .. n
    OBVIOUS
<1>3. DOMAIN a = 1 .. Len(s) + 1 /\ DOMAIN s = 1 .. Len(s)
    BY <1>1
<1> HIDE DEF a
<1>4. ASSUME NEW i \in DOMAIN a, NEW j \in DOMAIN a, i < j, {a[i], a[j]} \cap dub = {}
      PROVE  a[i] < a[j]
    <2>1. i \in 1 .. Len(s)
        BY <1>3, <1>4
    <2>2. CASE j = Len(s) + 1
        BY <1>1, <1>2, <2>1, <2>2
    <2>3. CASE j \in 1 .. Len(s)
        BY <1>2, <1>3, <1>4, <2>1, <2>3 DEF Increases
    <2> QED  BY <1>3, <2>2, <2>3
<1>5. Increases(a, dub)
    BY <1>4 DEF Increases
<1>6. Range(a) = Range(s) \union {n + 1}
    BY <1>1, <1>2, <1>3 DEF Range
<1> QED  BY <1>1, <1>5, <1>6 DEF a

\* The end of the text is taken.
LEMMA EndTaken ==
    ASSUME NEW n \in Nat, NEW s \in Seq(1 .. n), NEW t \in Seq(1 .. n), NEW dub \in SUBSET (1 .. n),
           Increases(s \o t, dub)
    PROVE  /\ Increases(s, dub)
           /\ Range(s) \ dub = (Range(s \o t) \ dub) \ Range(t)
<1>1. s \o t \in Seq(1 .. n) /\ Len(s \o t) = Len(s) + Len(t)
    OBVIOUS
<1>2. \A i \in 1 .. Len(s) : (s \o t)[i] = s[i] /\ i \in DOMAIN (s \o t)
    BY <1>1
<1>3. \A i \in 1 .. Len(t) : (s \o t)[Len(s) + i] = t[i] /\ Len(s) + i \in DOMAIN (s \o t)
    BY <1>1
<1>4. Increases(s, dub)
    <2> SUFFICES ASSUME NEW i \in 1 .. Len(s), NEW j \in 1 .. Len(s), i < j, {s[i], s[j]} \cap dub = {}
                 PROVE  s[i] < s[j]
        <3>1. DOMAIN s = 1 .. Len(s)
            OBVIOUS
        <3> QED  BY <3>1 DEF Increases
    <2> QED  BY <1>2 DEF Increases
<1>5. ASSUME NEW x \in Range(s) \ dub PROVE x \notin Range(t)
    <2> SUFFICES ASSUME x \in Range(t) PROVE FALSE
        OBVIOUS
    <2>1. PICK i \in 1 .. Len(s) : s[i] = x
        BY DEF Range
    <2>2. PICK j \in 1 .. Len(t) : t[j] = x
        BY DEF Range
    <2>3. i < Len(s) + j
        OBVIOUS
    <2>4. (s \o t)[i] < (s \o t)[Len(s) + j]
        BY <1>2, <1>3, <1>5, <2>1, <2>2, <2>3 DEF Increases
    <2>5. x \in Int
        BY <2>1
    <2> QED  BY <1>2, <1>3, <2>1, <2>2, <2>4, <2>5
<1> QED  BY <1>4, <1>5, RangeOfTwo

\* What is sent stays in the text area, and counts no longer.
LEMMA SentAndKept ==
    ASSUME NEW n \in Nat, NEW s \in Seq(1 .. n), NEW c \in Seq(1 .. n), NEW t \in Seq(1 .. n),
           NEW dub \in SUBSET (1 .. n), Increases(s \o t, dub)
    PROVE  Increases((s \o c) \o t, dub \union Range(c))
<1> DEFINE all == (s \o c) \o t
           old(k) == IF k <= Len(s) THEN k ELSE k - Len(c)
<1>1. /\ all \in Seq(1 .. n) /\ DOMAIN all = 1 .. (Len(s) + Len(c) + Len(t))
      /\ s \o t \in Seq(1 .. n) /\ DOMAIN (s \o t) = 1 .. (Len(s) + Len(t))
    OBVIOUS
<1>2. ASSUME NEW k \in DOMAIN all, all[k] \notin Range(c)
      PROVE  /\ old(k) \in DOMAIN (s \o t) /\ (s \o t)[old(k)] = all[k]
             /\ k <= Len(s) \/ k > Len(s) + Len(c)
    <2>1. CASE k <= Len(s)
        BY <1>1, <2>1
    <2>2. CASE k > Len(s) /\ k <= Len(s) + Len(c)
        <3>1. all[k] = c[k - Len(s)] /\ k - Len(s) \in 1 .. Len(c)
            BY <1>1, <2>2
        <3> QED  BY <1>2, <3>1 DEF Range
    <2>3. CASE k > Len(s) + Len(c)
        <3>1. k - Len(s) - Len(c) \in 1 .. Len(t) /\ all[k] = t[k - Len(s) - Len(c)]
            BY <1>1, <2>3
        <3>2. old(k) = k - Len(c) /\ old(k) > Len(s) /\ old(k) \in DOMAIN (s \o t)
            BY <1>1, <2>3
        <3>3. (s \o t)[k - Len(c)] = t[k - Len(c) - Len(s)]
            BY <1>1, <3>1, <3>2
        <3>4. k - Len(c) - Len(s) = k - Len(s) - Len(c)
            BY <1>1
        <3> QED  BY <2>3, <3>1, <3>2, <3>3, <3>4
    <2> QED  BY <1>1, <2>1, <2>2, <2>3
<1> HIDE DEF all
<1>3. ASSUME NEW i \in DOMAIN all, NEW j \in DOMAIN all, i < j,
             {all[i], all[j]} \cap (dub \union Range(c)) = {}
      PROVE  all[i] < all[j]
    <2>1. /\ all[i] \notin Range(c) /\ all[j] \notin Range(c)
          /\ all[i] \notin dub /\ all[j] \notin dub
        BY <1>3
    <2>2. /\ i \in Nat /\ j \in Nat /\ Len(s) \in Nat /\ Len(c) \in Nat
          /\ i <= Len(s) \/ i > Len(s) + Len(c)
          /\ j <= Len(s) \/ j > Len(s) + Len(c)
        BY <1>1, <1>2, <2>1
    <2>3. old(i) < old(j)
        BY <1>3, <2>2
    <2>4. /\ old(i) \in DOMAIN (s \o t) /\ (s \o t)[old(i)] = all[i]
          /\ old(j) \in DOMAIN (s \o t) /\ (s \o t)[old(j)] = all[j]
        BY <1>2, <2>1
    <2> HIDE DEF old
    <2> QED  BY <2>1, <2>3, <2>4 DEF Increases
<1> QED  BY <1>3 DEF Increases, all

-----------------------------------------------------------------------------

LEMMA BoxStart == BoxInit => BoxInv
<1> SUFFICES ASSUME BoxInit PROVE BoxInv
    OBVIOUS
<1> DEFINE none == <<>>
<1>1. none \in Seq({}) /\ none \o none = none /\ DOMAIN none = {} /\ none \in Seq(1 .. 0) /\ 1 .. 0 = {}
    OBVIOUS
<1>2. BoxTypes
    BY <1>1 DEF BoxInit, BoxTypes
<1>3. Area = none /\ sent = none /\ Range(none) = {}
    BY <1>1 DEF BoxInit, Area, Range
<1> HIDE DEF none
<1> QED  BY <1>1, <1>2, <1>3 DEF BoxInit, BoxInv, Increases, none

LEMMA TypeInv == BoxInv /\ Type => BoxInv'
<1> SUFFICES ASSUME BoxInv, Type PROVE BoxInv'
    OBVIOUS
<1>1. /\ ~pendingRender /\ ~composing /\ composing' = composing /\ boxValue = charInputArea
      /\ preedit = <<>> /\ typed' = typed + 1 /\ boxValue' = Append(boxValue, typed + 1)
      /\ charInputArea' = boxValue' /\ pendingRender' \in BOOLEAN
      /\ preedit' = preedit /\ sent' = sent /\ taken' = taken /\ doubtful' = doubtful
    BY DEF BoxInv, BoxTypes, Type, Task, OnInput, SetData
<1>2. typed \in Nat /\ sent \in Seq(1 .. typed) /\ boxValue \in Seq(1 .. typed) /\ doubtful \subseteq 1 .. typed
    BY DEF BoxInv, BoxTypes
<1>3. Area = boxValue /\ Area' = Append(boxValue, typed + 1)
    BY <1>1 DEF Area
<1> DEFINE s == sent \o boxValue
<1>4. s \in Seq(1 .. typed) /\ sent \o Append(boxValue, typed + 1) = Append(s, typed + 1)
    BY <1>2
<1> HIDE DEF s
<1>5. Increases(s, doubtful) /\ Range(s) \ doubtful = (1 .. typed) \ (taken \union doubtful)
    BY <1>3 DEF BoxInv, s
<1>6. /\ Increases(Append(s, typed + 1), doubtful)
      /\ Range(Append(s, typed + 1)) = Range(s) \union {typed + 1}
    BY <1>2, <1>4, <1>5, OneMore
<1>7. BoxTypes'
    BY <1>1, <1>2 DEF BoxInv, BoxTypes
<1>8. typed + 1 \notin taken \union doubtful /\ 1 .. typed + 1 = (1 .. typed) \union {typed + 1}
    BY <1>2 DEF BoxInv, BoxTypes
<1> QED  BY <1>1, <1>3, <1>4, <1>5, <1>6, <1>7, <1>8 DEF BoxInv

LEMMA CompositionStartInv == BoxInv /\ CompositionStart => BoxInv'
<1> SUFFICES ASSUME BoxInv, CompositionStart PROVE BoxInv'
    OBVIOUS
<1>1. /\ ~composing /\ composing' /\ boxValue = charInputArea /\ preedit = <<>>
      /\ UNCHANGED <<charInputArea, boxValue, preedit, pendingRender, typed, sent, taken, doubtful>>
    BY DEF BoxInv, CompositionStart, Task
<1>2. boxValue \in Seq(1 .. typed)
    BY DEF BoxInv, BoxTypes
<1>3. boxValue \o <<>> = boxValue
    BY <1>2
<1>4. Area' = Area
    BY <1>1, <1>3 DEF Area
<1>5. BoxTypes'
    BY <1>1 DEF BoxInv, BoxTypes, CompositionStart
<1> QED  BY <1>1, <1>4, <1>5 DEF BoxInv

LEMMA ComposeInv == BoxInv /\ Compose => BoxInv'
<1> SUFFICES ASSUME BoxInv, Compose PROVE BoxInv'
    OBVIOUS
<1>1. /\ composing /\ composing' = composing
      /\ typed' = typed + 1 /\ preedit' = Append(preedit, typed + 1)
      /\ UNCHANGED <<charInputArea, boxValue, pendingRender, sent, taken, doubtful>>
    BY DEF Compose, OnInput
<1>2. /\ typed \in Nat /\ sent \in Seq(1 .. typed) /\ boxValue \in Seq(1 .. typed)
      /\ preedit \in Seq(1 .. typed) /\ doubtful \subseteq 1 .. typed
    BY DEF BoxInv, BoxTypes
<1>3. Area = boxValue \o preedit /\ Area' = boxValue \o Append(preedit, typed + 1)
    BY <1>1 DEF Area
<1> DEFINE s == sent \o (boxValue \o preedit)
<1>4. boxValue \o preedit \in Seq(1 .. typed) /\ boxValue \o Append(preedit, typed + 1) = Append(boxValue \o preedit, typed + 1)
    BY <1>2
<1>5. s \in Seq(1 .. typed) /\ sent \o Append(boxValue \o preedit, typed + 1) = Append(s, typed + 1)
    BY <1>2, <1>4
<1> HIDE DEF s
<1>6. Increases(s, doubtful) /\ Range(s) \ doubtful = (1 .. typed) \ (taken \union doubtful)
    BY <1>3 DEF BoxInv, s
<1>7. /\ Increases(Append(s, typed + 1), doubtful)
      /\ Range(Append(s, typed + 1)) = Range(s) \union {typed + 1}
    BY <1>2, <1>5, <1>6, OneMore
<1>8. BoxTypes'
    BY <1>1, <1>2 DEF BoxInv, BoxTypes
<1>9. typed + 1 \notin taken \union doubtful /\ 1 .. typed + 1 = (1 .. typed) \union {typed + 1}
    BY <1>2 DEF BoxInv, BoxTypes
<1> QED  BY <1>1, <1>3, <1>4, <1>5, <1>6, <1>7, <1>8, <1>9 DEF BoxInv

LEMMA CompositionEndInv == BoxInv /\ CompositionEnd => BoxInv'
<1> SUFFICES ASSUME BoxInv, CompositionEnd PROVE BoxInv'
    OBVIOUS
<1>1. /\ composing /\ composing' = FALSE /\ preedit' = <<>>
      /\ charInputArea' = boxValue' /\ pendingRender' \in BOOLEAN
      /\ UNCHANGED <<typed, sent, doubtful>>
    BY DEF CompositionEnd, OnInput, SetData, BoxInv, BoxTypes
<1>2. /\ typed \in Nat /\ sent \in Seq(1 .. typed) /\ boxValue \in Seq(1 .. typed)
      /\ preedit \in Seq(1 .. typed) /\ doubtful \subseteq 1 .. typed /\ taken \subseteq 1 .. typed
    BY DEF BoxInv, BoxTypes
<1>3. Area = boxValue \o preedit /\ Area' = boxValue'
    BY <1>1 DEF Area
<1>4. boxValue \o preedit \in Seq(1 .. typed) /\ <<>> \in Seq(1 .. typed)
    BY <1>2
<1>5. CASE boxValue' = boxValue \o preedit /\ UNCHANGED taken
    <2>1. BoxTypes'
        BY <1>1, <1>2, <1>4, <1>5 DEF BoxTypes
    <2>2. Area' = Area
        BY <1>3, <1>5
    <2> QED  BY <1>1, <1>5, <2>1, <2>2 DEF BoxInv
<1>6. CASE boxValue' = boxValue /\ taken' = taken \union Range(preedit)
    <2> DEFINE s == sent \o boxValue
    <2>1. s \in Seq(1 .. typed) /\ sent \o (boxValue \o preedit) = s \o preedit
        BY <1>2
    <2> HIDE DEF s
    <2>2. /\ Increases(s \o preedit, doubtful)
          /\ Range(s \o preedit) \ doubtful = (1 .. typed) \ (taken \union doubtful)
        BY <1>3, <2>1 DEF BoxInv
    <2>3. Increases(s, doubtful) /\ Range(s) \ doubtful = (Range(s \o preedit) \ doubtful) \ Range(preedit)
        BY <1>2, <2>1, <2>2, EndTaken
    <2>4. Range(s) \ doubtful = (1 .. typed) \ (taken' \union doubtful)
        BY <1>6, <2>2, <2>3
    <2>5. Range(preedit) \subseteq 1 .. typed
        BY <1>2 DEF Range
    <2>6. BoxTypes'
        BY <1>1, <1>2, <1>4, <1>6, <2>5 DEF BoxTypes
    <2>7. sent' \o Area' = s
        BY <1>1, <1>3, <1>6 DEF s
    <2> QED  BY <1>1, <1>6, <2>3, <2>4, <2>6, <2>7 DEF BoxInv
<1> QED  BY <1>5, <1>6 DEF CompositionEnd

LEMMA SendTextInv == BoxInv /\ SendText => BoxInv'
<1> SUFFICES ASSUME BoxInv, SendText PROVE BoxInv'
    OBVIOUS
<1>1. /\ ~pendingRender /\ sent' = sent \o charInputArea
      /\ charInputArea' = <<>> /\ pendingRender' = TRUE
      /\ doubtful' = IF composing THEN doubtful \union Range(charInputArea) ELSE doubtful
      /\ UNCHANGED <<boxValue, preedit, composing, typed, taken>>
    BY DEF SendText, SetData, Task
<1>2. /\ typed \in Nat /\ sent \in Seq(1 .. typed) /\ boxValue \in Seq(1 .. typed) /\ preedit \in Seq(1 .. typed)
      /\ charInputArea \in Seq(1 .. typed) /\ doubtful \subseteq 1 .. typed /\ taken \subseteq 1 .. typed
    BY DEF BoxInv, BoxTypes
<1>3. sent' \in Seq(1 .. typed) /\ <<>> \in Seq(1 .. typed) /\ Range(charInputArea) \subseteq 1 .. typed
      /\ Range(<<>>) = {}
    BY <1>1, <1>2 DEF Range
<1>4. BoxTypes'
    BY <1>1, <1>2, <1>3 DEF BoxInv, BoxTypes
<1>5. CASE ~composing
    <2>1. Area = charInputArea /\ Area' = <<>> /\ doubtful' = doubtful
        BY <1>1, <1>5 DEF Area
    <2>2. sent' \o <<>> = sent'
        BY <1>3
    <2> QED  BY <1>1, <1>3, <1>4, <1>5, <2>1, <2>2 DEF BoxInv
<1>6. CASE composing
    <2> DEFINE a == boxValue \o preedit
    <2>1. Area = a /\ Area' = a /\ doubtful' = doubtful \union Range(charInputArea)
        BY <1>1, <1>6 DEF Area
    <2>2. a \in Seq(1 .. typed) /\ Range(a) = Range(boxValue) \union Range(preedit)
        BY <1>2, RangeOfTwo
    <2> HIDE DEF a
    <2>3. Increases(sent \o a, doubtful) /\ Range(sent \o a) \ doubtful = (1 .. typed) \ (taken \union doubtful)
        BY <2>1 DEF BoxInv
    <2>4. Increases((sent \o charInputArea) \o a, doubtful')
        BY <1>2, <2>1, <2>2, <2>3, SentAndKept
    <2>5. /\ Range(sent \o a) = Range(sent) \union Range(a)
          /\ Range(sent' \o a) = (Range(sent) \union Range(charInputArea)) \union Range(a)
        <3>1. Range(sent \o a) = Range(sent) \union Range(a)
            BY <1>2, <2>2, RangeOfTwo
        <3>2. Range(sent \o charInputArea) = Range(sent) \union Range(charInputArea)
            BY <1>2, RangeOfTwo
        <3>3. Range(sent' \o a) = Range(sent') \union Range(a)
            BY <1>3, <2>2, RangeOfTwo
        <3> QED  BY <1>1, <3>1, <3>2, <3>3
    <2>6. Range(sent' \o a) \ doubtful' = (1 .. typed) \ (taken \union doubtful')
        BY <2>1, <2>3, <2>5
    <2>7. Range(<<>>) \subseteq Range(boxValue)
        BY <1>3
    <2> QED  BY <1>1, <1>4, <1>6, <2>1, <2>4, <2>6, <2>7 DEF BoxInv
<1> QED  BY <1>5, <1>6

LEMMA SendEmojiInv == BoxInv /\ SendEmoji => BoxInv'
<1> SUFFICES ASSUME BoxInv, SendEmoji PROVE BoxInv'
    OBVIOUS
<1>1. /\ ~composing /\ taken' = taken \union Range(charInputArea) /\ charInputArea' = <<>>
      /\ pendingRender' \in BOOLEAN /\ (pendingRender' \/ charInputArea = <<>>)
      /\ ~pendingRender
      /\ UNCHANGED <<boxValue, preedit, composing, typed, sent, doubtful>>
    BY DEF SendEmoji, SetData, Task, BoxInv, BoxTypes
<1>2. /\ typed \in Nat /\ sent \in Seq(1 .. typed)
      /\ charInputArea \in Seq(1 .. typed) /\ doubtful \subseteq 1 .. typed /\ taken \subseteq 1 .. typed
    BY DEF BoxInv, BoxTypes
<1>3. /\ <<>> \in Seq(1 .. typed) /\ Range(charInputArea) \subseteq 1 .. typed
      /\ Range(<<>>) = {} /\ sent \o <<>> = sent
    BY <1>2 DEF Range
<1>4. BoxTypes'
    BY <1>1, <1>3 DEF BoxInv, BoxTypes
<1>5. Area = charInputArea /\ Area' = <<>>
    BY <1>1 DEF Area
<1>6. /\ Increases(sent, doubtful)
      /\ Range(sent) \ doubtful = (Range(sent \o charInputArea) \ doubtful) \ Range(charInputArea)
    BY <1>2, <1>5, EndTaken DEF BoxInv
<1>7. Range(sent) \ doubtful = (1 .. typed) \ (taken' \union doubtful)
    BY <1>1, <1>5, <1>6 DEF BoxInv
<1>8. sent' \o Area' = sent
    BY <1>1, <1>3, <1>5
<1>9. Range(<<>>) \subseteq Range(boxValue) /\ (~pendingRender' => boxValue = <<>>)
    BY <1>1, <1>3 DEF BoxInv
<1> QED  BY <1>1, <1>4, <1>6, <1>7, <1>8, <1>9 DEF BoxInv

LEMMA RenderInv == BoxInv /\ (RestChanges \/ Render) => BoxInv'
<1> SUFFICES ASSUME BoxInv, RestChanges \/ Render PROVE BoxInv'
    OBVIOUS
<1>1. /\ pendingRender' \in BOOLEAN
      /\ UNCHANGED <<charInputArea, composing, typed, sent, taken, doubtful>>
    BY DEF RestChanges, Render
<1>2. /\ {sent, boxValue, preedit, charInputArea} \subseteq Seq(1 .. typed)
      /\ boxValue \o <<>> = boxValue
    BY DEF BoxInv, BoxTypes
<1>3. CASE RestChanges \/ ~ShouldUpdateValue
    <2>1. UNCHANGED <<boxValue, preedit>>
        BY <1>3 DEF RestChanges, Render
    <2>2. Area' = Area /\ BoxTypes'
        BY <1>1, <2>1 DEF Area, BoxInv, BoxTypes
    <2>3. ~composing /\ ~pendingRender' => boxValue = charInputArea
        <3>1. CASE RestChanges
            BY <3>1 DEF RestChanges
        <3>2. CASE ~ShouldUpdateValue
            BY <1>2, <3>2 DEF ShouldUpdateValue, BoxInv
        <3> QED  BY <1>3, <3>1, <3>2
    <2> QED  BY <1>1, <2>1, <2>2, <2>3 DEF BoxInv
<1>4. CASE Render /\ ShouldUpdateValue
    <2>1. ~composing /\ boxValue' = charInputArea /\ preedit' = <<>>
        BY <1>4 DEF Render, ShouldUpdateValue
    <2>2. Area' = Area
        BY <1>1, <2>1 DEF Area
    <2>3. <<>> \in Seq(1 .. typed)
        OBVIOUS
    <2>4. BoxTypes'
        BY <1>1, <1>2, <2>1, <2>3 DEF BoxInv, BoxTypes
    <2> QED  BY <1>1, <2>1, <2>2, <2>4 DEF BoxInv
<1> QED  BY <1>3, <1>4

LEMMA BoxStep == BoxInv /\ [BoxNext]_boxVars => BoxInv'
<1> SUFFICES ASSUME BoxInv, [BoxNext]_boxVars PROVE BoxInv'
    OBVIOUS
<1>1. CASE UNCHANGED boxVars
    BY <1>1 DEF boxVars, BoxInv, BoxTypes, Area, Increases
<1> QED  BY <1>1, TypeInv, CompositionStartInv, ComposeInv, CompositionEndInv, SendTextInv,
            SendEmojiInv, RenderInv DEF BoxNext

LEMMA TypedKept == BoxInv => TypedIsKept
<1> SUFFICES ASSUME BoxInv PROVE TypedIsKept
    OBVIOUS
<1> DEFINE s == sent \o boxValue \o preedit
           all == (1 .. typed) \ (taken \union doubtful)
<1>1. {sent, boxValue, preedit, charInputArea} \subseteq Seq(1 .. typed)
    BY DEF BoxInv, BoxTypes
<1>2. /\ boxValue \o preedit \in Seq(1 .. typed) /\ s = sent \o (boxValue \o preedit)
      /\ boxValue \o <<>> = boxValue
    BY <1>1
<1>3. /\ Range(s) = Range(sent) \union Range(boxValue \o preedit)
      /\ Range(boxValue \o preedit) = Range(boxValue) \union Range(preedit)
      /\ Range(sent \o charInputArea) = Range(sent) \union Range(charInputArea)
    <2> HIDE DEF s
    <2>1. Range(sent \o (boxValue \o preedit)) = Range(sent) \union Range(boxValue \o preedit)
        <3>1. sent \in Seq(1 .. typed) /\ boxValue \o preedit \in Seq(1 .. typed)
            BY <1>1, <1>2
        <3> DEFINE a == boxValue \o preedit
        <3> HIDE DEF a
        <3>2. a \in Seq(1 .. typed)
            BY <3>1 DEF a
        <3>3. Range(sent \o a) = Range(sent) \union Range(a)
            BY <3>1, <3>2, RangeOfTwo
        <3> QED  BY <3>3 DEF a
    <2>2. Range(boxValue \o preedit) = Range(boxValue) \union Range(preedit)
        BY <1>1, RangeOfTwo
    <2>3. Range(sent \o charInputArea) = Range(sent) \union Range(charInputArea)
        BY <1>1, RangeOfTwo
    <2> QED  BY <1>2, <2>1, <2>2, <2>3
<1>4. CASE composing \/ ~pendingRender
    <2>1. Area = boxValue \o preedit
        BY <1>2, <1>4 DEF Area, BoxInv
    <2>2. Increases(s, doubtful) /\ Range(s) \ doubtful = all
        BY <1>2, <2>1 DEF BoxInv
    <2>3. ~pendingRender /\ ~composing => boxValue = charInputArea
        BY DEF BoxInv
    <2> QED  BY <2>2, <2>3 DEF TypedIsKept, InOrder, Increases
<1>5. CASE ~composing /\ pendingRender
    <2>1. Range(sent \o charInputArea) \ doubtful = all /\ Range(charInputArea) \subseteq Range(boxValue)
        BY <1>5 DEF BoxInv, Area
    <2>2. all \subseteq Range(s)
        BY <1>3, <2>1
    <2> QED  BY <1>5, <2>2 DEF TypedIsKept
<1> QED  BY <1>4, <1>5 DEF BoxInv, BoxTypes

\* Whatever is rendered while an input method composes, nothing typed is lost, sent
\* twice or out of order, and the page holds what the text area shows
\* (v-model, shouldUpdateValue, sendMessage).
THEOREM TextIsKept == BoxSpec => []TypedIsKept
<1>1. BoxSpec => []BoxInv
    BY BoxStart, BoxStep, PTL DEF BoxSpec
<1> QED  BY <1>1, TypedKept, PTL

=============================================================================
