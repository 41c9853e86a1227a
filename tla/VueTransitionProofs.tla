------------------------ MODULE VueTransitionProofs ------------------------
(***************************************************************************)
(* Proofs about VueTransition, for any transitions, number of properties and *)
(* changes.  A state of the functions of the model is a record s, as Now is;  *)
(* the invariant is stated of such a record, since a turn passes through      *)
(* several of them.                                                           *)
(***************************************************************************)
EXTENDS VueTransition, FiniteSetTheorems, TLAPS

Element == 1 .. MaxToggles + 1
Way == {"enter", "leave"}
Class == Way \X {"start", "active", "to"}
Call == [way : Way, el : Element, frame : BOOLEAN, timer : BOOLEAN, listens : BOOLEAN,
         ended : Nat, called : BOOLEAN, cancelled : BOOLEAN, early : BOOLEAN]
State == [inner : SUBSET Element, displayed : SUBSET Element,
          classes : [Element -> SUBSET Class], leaving : Nat \union {Undef},
          calls : Seq(Call)]

\* The calls whose callback is to come.
OpenIn(s) == {i \in DOMAIN s.calls : ~s.calls[i].called}

\* While the frame of a call is to come it has no timer and no listener; and one
\* that is over before its frame was cancelled, or told early by a hook, or its
\* element is gone.
Calls(s, tp) ==
    \A i \in DOMAIN s.calls :
        LET c == s.calls[i]
        IN  /\ c.el <= tp
            /\ c.timer \/ c.listens => ~c.frame
            /\ c.frame /\ c.called /\ ~c.cancelled => c.early \/ c.el \notin s.inner

\* What accounts for a class of e in s: it is active as long as a call of e is
\* open, starts until the next frame, and goes to its end while the call is open.
Accounts(c, i, e, s) ==
    /\ s.calls[i].el = e
    /\ c[2] = "active" => s.calls[i].way = c[1] /\ ~s.calls[i].called
    /\ c[2] = "start" => s.calls[i].way = c[1] /\ s.calls[i].frame
    /\ c[2] = "to" => \/ s.calls[i].way = c[1] /\ ~s.calls[i].called
                      \/ s.calls[i].early \/ e \notin s.inner

Classes(s) ==
    \A e \in Element : \A c \in s.classes[e] : \E i \in DOMAIN s.calls : Accounts(c, i, e, s)

Sound(s, tp) ==
    /\ s \in State /\ s.leaving \in DOMAIN s.calls \union {Undef}
    /\ Calls(s, tp)
    /\ Classes(s)
    /\ kind.show => s.inner = {1} /\ tp = 1

\* At most one call is open; it is for the element tp and goes where sh says, and
\* what is in the parent, or displayed, is what sh and that call ask for.
Shows(s, sh, tp) ==
    /\ \A i, j \in OpenIn(s) : i = j
    /\ \A i \in OpenIn(s) : s.calls[i].el = tp /\ (s.calls[i].way = "enter") = sh
    /\ kind.show => (1 \in s.displayed <=> sh \/ OpenIn(s) # {})
    /\ ~kind.show =>
          /\ s.inner = (IF sh \/ OpenIn(s) # {} THEN {tp} ELSE {})
          /\ s.inner \subseteq s.displayed
          /\ \A i \in OpenIn(s) : s.calls[i].way = "leave" => s.leaving = i

Fits(s, sh, tp) == Sound(s, tp) /\ Shows(s, sh, tp)

Unmounted == TransInit

Mounted ==
    /\ kind \in Kinds /\ shown \in BOOLEAN
    /\ top \in 0 .. Len(calls) + 1
    /\ Len(calls) <= MaxToggles
    /\ Fits(Now, shown, top)

TransInv == IF kind = Undef THEN Unmounted ELSE Mounted

-----------------------------------------------------------------------------
(* What the functions of the model do to a state. *)

Ends(c, cancelled) == [c EXCEPT !.called = TRUE, !.cancelled = cancelled]

Gone(c, cancelled) ==
    {<<c.way, "to">>, <<c.way, "active">>} \union (IF cancelled THEN {<<c.way, "start">>} ELSE {})

\* t is what the callback of call i makes of s.
AfterCallback(s, i, x, t) ==
    LET c == s.calls[i]
        removed == c.way = "leave" /\ ~x
    IN  /\ t \in State
        /\ t.calls = [s.calls EXCEPT ![i] = Ends(c, x)] /\ Ends(c, x) \in Call
        /\ t.classes = [s.classes EXCEPT ![c.el] = @ \ Gone(c, x)]
        /\ t.leaving \in {s.leaving, Undef} /\ (c.way = "enter" => t.leaving = s.leaving)
        /\ t.inner = (IF removed /\ ~kind.show THEN s.inner \ {c.el} ELSE s.inner)
        /\ t.displayed = (IF removed /\ kind.show THEN s.displayed \ {c.el} ELSE s.displayed)

\* Writing one element of the sequence of calls.
LEMMA OneCallChanges ==
    ASSUME NEW s \in State, NEW t, NEW i \in DOMAIN s.calls, NEW d \in Call,
           t.calls = [s.calls EXCEPT ![i] = d]
    PROVE  /\ t.calls \in Seq(Call) /\ Len(t.calls) = Len(s.calls)
           /\ DOMAIN t.calls = DOMAIN s.calls
           /\ t.calls[i] = d /\ s.calls[i] \in Call
           /\ \A j \in DOMAIN s.calls : j # i => t.calls[j] = s.calls[j]
<1>1. s.calls \in Seq(Call)
  BY DEF State
<1> QED
  BY <1>1

\* A callback that is to come ends its call, takes the classes of the transition
\* away, and removes or hides an element that left.
LEMMA CallbackIs ==
    ASSUME kind \in Kinds, NEW s \in State, NEW i \in OpenIn(s), NEW x \in BOOLEAN
    PROVE  AfterCallback(s, i, x, Callback(s, i, x))
<1> DEFINE c == s.calls[i]
           over == [s EXCEPT !.calls[i].called = TRUE, !.calls[i].cancelled = x,
                             !.classes[c.el] = @ \ Gone(c, x)]
           freed == IF c.way = "leave" /\ c.el \in s.inner THEN [over EXCEPT !.leaving = Undef] ELSE over
<1>1. s.calls \in Seq(Call) /\ i \in DOMAIN s.calls /\ ~c.called /\ c \in Call
  BY DEF OpenIn, State
<1>2. /\ Ends(c, x) \in Call
      /\ [s.calls EXCEPT ![i] = Ends(c, x)] \in Seq(Call)
  <2>1. Ends(c, x) \in Call
    BY <1>1 DEF Ends, Call
  <2> QED
    BY <1>1, <2>1
<1>3. over = [s EXCEPT !.calls = [s.calls EXCEPT ![i] = Ends(c, x)],
                       !.classes = [s.classes EXCEPT ![c.el] = @ \ Gone(c, x)]]
  BY <1>1 DEF Ends, State
<1>4. [s.classes EXCEPT ![c.el] = @ \ Gone(c, x)] \in [Element -> SUBSET Class]
  BY <1>1 DEF State, Call
<1> HIDE DEF over
<1>5. /\ over \in State
      /\ over.calls = [s.calls EXCEPT ![i] = Ends(c, x)]
      /\ over.classes = [s.classes EXCEPT ![c.el] = @ \ Gone(c, x)]
      /\ over.inner = s.inner /\ over.displayed = s.displayed /\ over.leaving = s.leaving
  BY <1>2, <1>3, <1>4 DEF State
<1>6. /\ freed \in State
      /\ freed.calls = over.calls /\ freed.classes = over.classes
      /\ freed.inner = s.inner /\ freed.displayed = s.displayed
      /\ freed.leaving \in {s.leaving, Undef} /\ (c.way = "enter" => freed.leaving = s.leaving)
  BY <1>5 DEF State
<1>7. Callback(s, i, x) = IF c.way = "leave" /\ ~x THEN Rm(freed, c.el) ELSE freed
  BY <1>1 DEF Callback, Gone, over
<1> HIDE DEF freed
<1>8. /\ Rm(freed, c.el) \in State
      /\ Rm(freed, c.el).leaving = freed.leaving
      /\ Rm(freed, c.el).calls = freed.calls /\ Rm(freed, c.el).classes = freed.classes
      /\ Rm(freed, c.el).inner = IF kind.show THEN s.inner ELSE s.inner \ {c.el}
      /\ Rm(freed, c.el).displayed = IF kind.show THEN s.displayed \ {c.el} ELSE s.displayed
  BY <1>6 DEF Rm, State
<1> HIDE DEF c
<1> QED
  BY <1>2, <1>5, <1>6, <1>7, <1>8 DEF AfterCallback, c

\* What a callback leaves is sound, if a call whose frame is to come was
\* cancelled, told early, or loses its element.
LEMMA CallbackSound ==
    ASSUME kind \in Kinds, NEW s, NEW tp, Sound(s, tp), NEW i \in OpenIn(s), NEW x \in BOOLEAN,
           \/ x \/ ~s.calls[i].frame \/ s.calls[i].early
           \/ s.calls[i].el \notin Callback(s, i, x).inner
    PROVE  Sound(Callback(s, i, x), tp) /\ OpenIn(Callback(s, i, x)) = OpenIn(s) \ {i}
<1> DEFINE c == s.calls[i]
           t == Callback(s, i, x)
           d == Ends(c, x)
<1>1. s \in State /\ i \in DOMAIN s.calls /\ c \in Call
  BY DEF Sound, OpenIn, State
<1>2. /\ t \in State
      /\ t.calls = [s.calls EXCEPT ![i] = d] /\ d \in Call
      /\ t.classes = [s.classes EXCEPT ![c.el] = @ \ Gone(c, x)]
      /\ t.leaving \in {s.leaving, Undef}
      /\ t.inner = (IF c.way = "leave" /\ ~x /\ ~kind.show THEN s.inner \ {c.el} ELSE s.inner)
  <2>1. AfterCallback(s, i, x, t)
    BY <1>1, CallbackIs
  <2> HIDE DEF t
  <2> QED
    BY <2>1 DEF AfterCallback
<1>2a. t.inner \subseteq s.inner /\ (kind.show => t.inner = s.inner)
  BY <1>2
<1>3. /\ DOMAIN t.calls = DOMAIN s.calls /\ t.calls[i] = d
      /\ \A j \in DOMAIN s.calls : j # i => t.calls[j] = s.calls[j]
  BY <1>1, <1>2, OneCallChanges
<1>4. /\ d.way = c.way /\ d.el = c.el /\ d.frame = c.frame /\ d.timer = c.timer
      /\ d.listens = c.listens /\ d.early = c.early /\ d.called = TRUE /\ d.cancelled = x
  BY <1>1 DEF Ends, Call
<1>5. \/ x \/ ~c.frame \/ c.early \/ c.el \notin t.inner
  OBVIOUS
<1> HIDE DEF t, d
<1>6. OpenIn(t) = OpenIn(s) \ {i}
  BY <1>3, <1>4 DEF OpenIn
<1>7. Calls(t, tp)
  <2> SUFFICES ASSUME NEW j \in DOMAIN s.calls
               PROVE  /\ t.calls[j].el <= tp
                      /\ t.calls[j].timer \/ t.calls[j].listens => ~t.calls[j].frame
                      /\ t.calls[j].frame /\ t.calls[j].called /\ ~t.calls[j].cancelled
                         => t.calls[j].early \/ t.calls[j].el \notin t.inner
    BY <1>3 DEF Calls
  <2>1. /\ s.calls[j].el <= tp
        /\ s.calls[j].timer \/ s.calls[j].listens => ~s.calls[j].frame
        /\ s.calls[j].frame /\ s.calls[j].called /\ ~s.calls[j].cancelled
           => s.calls[j].early \/ s.calls[j].el \notin s.inner
    BY DEF Sound, Calls
  <2>2. CASE j = i
    BY <1>3, <1>4, <1>5, <2>1, <2>2
  <2>3. CASE j # i
    BY <1>2, <1>3, <2>1, <2>3
  <2> QED
    BY <2>2, <2>3
<1>8. Classes(t)
  <2> SUFFICES ASSUME NEW e \in Element, NEW k \in t.classes[e]
               PROVE  \E j \in DOMAIN t.calls : Accounts(k, j, e, t)
    BY DEF Classes
  <2>1. k \in s.classes[e] /\ (e = c.el => k \notin Gone(c, x))
    BY <1>1, <1>2 DEF State
  <2>2. PICK j \in DOMAIN s.calls : Accounts(k, j, e, s)
    BY <2>1 DEF Sound, Classes
  <2>3. CASE j # i
    BY <1>2a, <1>3, <2>2, <2>3 DEF Accounts
  <2>4. CASE j = i
    <3>1. e = c.el
      BY <2>2, <2>4 DEF Accounts
    <3>2. k \in Class
      BY <1>1, <2>1 DEF State
    <3>3. k = <<k[1], k[2]>> /\ k[2] \in {"start", "active", "to"}
          /\ k[1] \in Way /\ c.way \in Way
      BY <1>1, <3>2 DEF Class, Call
    <3>4. CASE k[2] = "active"
      BY <2>1, <2>2, <2>4, <3>1, <3>3, <3>4 DEF Accounts, Gone
    <3>5. CASE k[2] = "start"
      BY <1>3, <1>4, <2>2, <2>4, <3>1, <3>5 DEF Accounts
    <3>6. CASE k[2] = "to"
      <4>1. k[1] # c.way
        BY <2>1, <3>1, <3>3, <3>6 DEF Gone
      <4>2. c.early \/ e \notin s.inner
        BY <2>2, <2>4, <3>6, <4>1 DEF Accounts
      <4> QED
        BY <1>2a, <1>3, <1>4, <2>2, <2>4, <3>6, <4>2 DEF Accounts
    <3> QED
      BY <3>3, <3>4, <3>5, <3>6
  <2> QED
    BY <2>3, <2>4
<1> QED
  BY <1>2, <1>2a, <1>3, <1>6, <1>7, <1>8 DEF Sound, t

\* The callback of a transition that comes to its end leaves what is shown.
LEMMA CallbackFits ==
    ASSUME kind \in Kinds, NEW s, NEW sh \in BOOLEAN, NEW tp, Fits(s, sh, tp),
           NEW i \in DOMAIN s.calls,
           s.calls[i].called \/ ~s.calls[i].frame \/ s.calls[i].early
    PROVE  Fits(Callback(s, i, FALSE), sh, tp)
<1> DEFINE c == s.calls[i]
           t == Callback(s, i, FALSE)
<1>1. CASE c.called
  <2>1. t = s
    BY <1>1 DEF Callback
  <2> QED
    BY <2>1
<1>2. CASE ~c.called
  <2>1. i \in OpenIn(s)
    BY <1>2 DEF OpenIn
  <2>2. Sound(t, tp) /\ OpenIn(t) = OpenIn(s) \ {i}
    BY <1>2, <2>1, CallbackSound DEF Fits
  <2>3. s \in State /\ c \in Call
    BY DEF Fits, Sound, State
  <2>4. AfterCallback(s, i, FALSE, t)
    BY <2>1, <2>3, CallbackIs
  <2> HIDE DEF t
  <2>5. OpenIn(s) = {i} /\ OpenIn(t) = {}
    BY <2>1, <2>2 DEF Fits, Shows
  <2>6. c.el = tp /\ (c.way = "enter") = sh /\ c.way \in Way
    BY <2>1, <2>3 DEF Fits, Shows, Call
  <2>7. kind.show => tp = 1 /\ (1 \in t.displayed <=> sh)
    <3> SUFFICES ASSUME kind.show
                 PROVE  tp = 1 /\ (1 \in t.displayed <=> sh)
      OBVIOUS
    <3>1. tp = 1 /\ 1 \in s.displayed
      BY <2>5 DEF Fits, Sound, Shows
    <3>2. CASE sh
      BY <2>4, <2>6, <3>1, <3>2 DEF AfterCallback
    <3>3. CASE ~sh
      BY <2>4, <2>6, <3>1, <3>3 DEF AfterCallback, Way
    <3> QED
      BY <3>1, <3>2, <3>3
  <2>8. ~kind.show => t.inner = (IF sh THEN {tp} ELSE {}) /\ t.inner \subseteq t.displayed
    <3> SUFFICES ASSUME ~kind.show
                 PROVE  t.inner = (IF sh THEN {tp} ELSE {}) /\ t.inner \subseteq t.displayed
      OBVIOUS
    <3>1. s.inner = {tp} /\ s.inner \subseteq s.displayed
      BY <2>5 DEF Fits, Shows
    <3>2. CASE sh
      BY <2>4, <2>6, <3>1, <3>2 DEF AfterCallback
    <3>3. CASE ~sh
      BY <2>4, <2>6, <3>1, <3>3 DEF AfterCallback, Way
    <3> QED
      BY <3>2, <3>3
  <2>9. Shows(t, sh, tp)
    BY <2>5, <2>7, <2>8 DEF Shows
  <2> QED
    BY <2>2, <2>9 DEF Fits, t
<1> QED
  BY <1>1, <1>2

\* t is s with d for its call i, where the way and the callback are left alone.  Its
\* frame may run, which takes away the class of the start and puts on that of the
\* end.
Touched(s, t, i, d) ==
    LET c == s.calls[i]
    IN  /\ t.calls = [s.calls EXCEPT ![i] = d]
        /\ d.way = c.way /\ d.el = c.el /\ d.called = c.called /\ d.cancelled = c.cancelled
        /\ d.timer \/ d.listens => ~d.frame
        /\ d.frame => c.frame
        /\ c.early => d.early
        /\ t.inner = s.inner /\ t.displayed = s.displayed /\ t.leaving = s.leaving
        /\ \A e \in Element : \A k \in t.classes[e] :
              \/ /\ k \in s.classes[e]
                 /\ e = d.el /\ k = <<d.way, "start">> => d.frame = c.frame
              \/ /\ e = d.el /\ k = <<d.way, "to">>
                 /\ ~d.called \/ d.early \/ e \notin s.inner

LEMMA TouchFits ==
    ASSUME NEW s, NEW sh, NEW tp, Fits(s, sh, tp),
           NEW t \in State, NEW i \in DOMAIN s.calls, NEW d \in Call, Touched(s, t, i, d)
    PROVE  Fits(t, sh, tp)
<1> USE DEF Touched
<1> DEFINE c == s.calls[i]
<1>1. s \in State /\ Sound(s, tp) /\ Shows(s, sh, tp)
  BY DEF Fits, Sound
<1>2. /\ DOMAIN t.calls = DOMAIN s.calls /\ t.calls[i] = d /\ c \in Call
      /\ \A j \in DOMAIN s.calls : j # i => t.calls[j] = s.calls[j]
  BY <1>1, OneCallChanges
<1>3. /\ OpenIn(t) = OpenIn(s)
      /\ \A j \in DOMAIN s.calls : t.calls[j].way = s.calls[j].way /\ t.calls[j].el = s.calls[j].el
  BY <1>2 DEF OpenIn
<1>4. Calls(t, tp)
  <2> SUFFICES ASSUME NEW j \in DOMAIN s.calls
               PROVE  /\ t.calls[j].el <= tp
                      /\ t.calls[j].timer \/ t.calls[j].listens => ~t.calls[j].frame
                      /\ t.calls[j].frame /\ t.calls[j].called /\ ~t.calls[j].cancelled
                         => t.calls[j].early \/ t.calls[j].el \notin t.inner
    BY <1>2 DEF Calls
  <2>1. /\ s.calls[j].el <= tp
        /\ s.calls[j].timer \/ s.calls[j].listens => ~s.calls[j].frame
        /\ s.calls[j].frame /\ s.calls[j].called /\ ~s.calls[j].cancelled
           => s.calls[j].early \/ s.calls[j].el \notin s.inner
    BY <1>1 DEF Sound, Calls
  <2>2. CASE j = i
    BY <1>2, <2>1, <2>2
  <2>3. CASE j # i
    BY <1>2, <2>1, <2>3
  <2> QED
    BY <2>2, <2>3
<1>5. Classes(t)
  <2> SUFFICES ASSUME NEW e \in Element, NEW k \in t.classes[e]
               PROVE  \E j \in DOMAIN t.calls : Accounts(k, j, e, t)
    BY DEF Classes
  <2>1. CASE /\ e = d.el /\ k = <<d.way, "to">>
             /\ ~d.called \/ d.early \/ e \notin s.inner
    <3>1. k[1] = d.way /\ k[2] = "to"
      BY <2>1
    <3>2. Accounts(k, i, e, t)
      BY <1>2, <2>1, <3>1 DEF Accounts
    <3> QED
      BY <1>2, <3>2
  <2>2. CASE /\ k \in s.classes[e]
             /\ e = d.el /\ k = <<d.way, "start">> => d.frame = c.frame
    <3>1. PICK j \in DOMAIN s.calls : Accounts(k, j, e, s)
      BY <1>1, <2>2 DEF Sound, Classes
    <3>2. CASE j # i
      BY <1>2, <3>1, <3>2 DEF Accounts
    <3>3. CASE j = i
      <4>1. e = d.el
        BY <3>1, <3>3 DEF Accounts
      <4>2. k = <<k[1], k[2]>>
        BY <1>1, <2>2 DEF State, Class
      <4>3. k[2] = "start" => k[1] = d.way /\ d.frame
        BY <2>2, <3>1, <3>3, <4>1, <4>2 DEF Accounts
      <4>4. /\ k[2] = "active" => d.way = k[1] /\ ~d.called
            /\ k[2] = "to" => (d.way = k[1] /\ ~d.called) \/ d.early \/ e \notin t.inner
        BY <3>1, <3>3 DEF Accounts
      <4> QED
        BY <1>2, <4>1, <4>3, <4>4 DEF Accounts
    <3> QED
      BY <3>2, <3>3
  <2> QED
    BY <2>1, <2>2
<1>6. Sound(t, tp)
  BY <1>1, <1>2, <1>4, <1>5 DEF Sound
<1>7. Shows(t, sh, tp)
  <2>1. OpenIn(s) \subseteq DOMAIN s.calls
    BY DEF OpenIn
  <2> QED
    BY <1>1, <1>3, <2>1 DEF Shows
<1> QED
  BY <1>6, <1>7 DEF Fits

\* t is s after the call that was open is cancelled.
AfterCancel(s, tp, t) ==
    /\ Sound(t, tp) /\ OpenIn(t) = {}
    /\ t.inner = s.inner /\ t.displayed = s.displayed
    /\ Len(t.calls) = Len(s.calls)

\* Cancelling the call that is open closes it and moves no element.
LEMMA CancelIs ==
    ASSUME kind \in Kinds, NEW s, NEW tp, Sound(s, tp), \A i, j \in OpenIn(s) : i = j, NEW e, NEW w,
           \A i \in OpenIn(s) : s.calls[i].el = e /\ s.calls[i].way = w
    PROVE  AfterCancel(s, tp, CancelOther(s, e, w))
<1> DEFINE t == CancelOther(s, e, w)
<1>1. Open(s, e, w) = OpenIn(s)
  BY DEF Open, OpenIn
<1>2. CASE OpenIn(s) = {}
  <2>1. t = s
    BY <1>1, <1>2 DEF CancelOther
  <2> QED
    BY <1>2, <2>1 DEF AfterCancel
<1>3. CASE OpenIn(s) # {}
  <2>1. PICK i \in OpenIn(s) : TRUE
    BY <1>3
  <2>2. OpenIn(s) = {i} /\ i \in DOMAIN s.calls /\ s \in State
    BY <2>1 DEF OpenIn, Sound
  <2>3. i \in Int
    BY <2>2 DEF State
  <2>4. Max({i}) = i
    BY <2>3 DEF Max
  <2>5. t = Callback(s, i, TRUE)
    BY <1>1, <2>2, <2>4 DEF CancelOther
  <2>6. Sound(t, tp) /\ OpenIn(t) = {}
    <3>1. Sound(Callback(s, i, TRUE), tp) /\ OpenIn(Callback(s, i, TRUE)) = OpenIn(s) \ {i}
      BY <2>1, CallbackSound
    <3> QED
      BY <2>2, <2>5, <3>1
  <2>7. AfterCallback(s, i, TRUE, t)
    BY <2>1, <2>2, <2>5, CallbackIs
  <2> HIDE DEF t
  <2>8. /\ t.inner = s.inner /\ t.displayed = s.displayed
        /\ t.calls = [s.calls EXCEPT ![i] = Ends(s.calls[i], TRUE)] /\ Ends(s.calls[i], TRUE) \in Call
    BY <2>7 DEF AfterCallback
  <2>9. Len(t.calls) = Len(s.calls)
    BY <2>2, <2>8, OneCallChanges
  <2> QED
    BY <2>6, <2>8, <2>9 DEF t, AfterCancel
<1> QED
  BY <1>2, <1>3

\* t is s after a call for e began.
AfterStart(s, w, e, t) ==
    LET n == Len(s.calls) + 1
    IN  /\ Sound(t, e)
        /\ OpenIn(t) = OpenIn(s) \union {n} /\ n \notin OpenIn(s)
        /\ n \in DOMAIN t.calls /\ Len(t.calls) = n /\ t.calls[n] = Began(w, e)
        /\ \A i \in DOMAIN s.calls : t.calls[i] = s.calls[i]
        /\ t.inner = s.inner /\ t.displayed = s.displayed /\ t.leaving = s.leaving

\* A call that begins is open and accounts for the classes it puts on.
LEMMA StartsIs ==
    ASSUME kind \in Kinds, NEW s, NEW tp, Sound(s, tp), tp \in Nat, NEW e \in Element, NEW w \in Way,
           tp <= e, kind.show => e = 1
    PROVE  AfterStart(s, w, e, Starts(s, w, e))
<1> DEFINE t == Starts(s, w, e)
           n == Len(s.calls) + 1
           put == IF kind.css THEN s.classes[e] \union {<<w, "start">>, <<w, "active">>} ELSE s.classes[e]
<1>1. s \in State /\ s.calls \in Seq(Call) /\ Len(s.calls) \in Nat
  BY DEF Sound, State
<1>2. kind.css \in BOOLEAN
  BY KindsAssumption
<1>3. Began(w, e) \in Call
  BY <1>2 DEF Began, Call
<1>4. /\ Began(w, e).el = e /\ Began(w, e).way = w /\ Began(w, e).frame = kind.css
      /\ Began(w, e).timer = FALSE /\ Began(w, e).listens = FALSE /\ Began(w, e).called = FALSE
  BY DEF Began
<1>5. t = [s EXCEPT !.calls = Append(s.calls, Began(w, e)), !.classes = [s.classes EXCEPT ![e] = put]]
  BY <1>1 DEF Starts, State
<1>6. put \in SUBSET Class
  BY <1>1 DEF State, Class
<1>7. /\ Append(s.calls, Began(w, e)) \in Seq(Call)
      /\ [s.classes EXCEPT ![e] = put] \in [Element -> SUBSET Class]
  BY <1>1, <1>3, <1>6 DEF State
<1> HIDE DEF t, put
<1>8. /\ t \in State
      /\ t.calls = Append(s.calls, Began(w, e))
      /\ t.classes = [s.classes EXCEPT ![e] = put]
      /\ t.inner = s.inner /\ t.displayed = s.displayed /\ t.leaving = s.leaving
  BY <1>1, <1>5, <1>7 DEF State
<1>9. /\ n \in Nat /\ Len(t.calls) = n /\ t.calls[n] = Began(w, e)
      /\ DOMAIN t.calls = DOMAIN s.calls \union {n} /\ n \notin DOMAIN s.calls
      /\ \A i \in DOMAIN s.calls : t.calls[i] = s.calls[i]
  <2> HIDE DEF Began
  <2> QED
    BY <1>1, <1>3, <1>8
<1> HIDE DEF n
<1>10. OpenIn(t) = OpenIn(s) \union {n} /\ n \notin OpenIn(s)
  BY <1>4, <1>9 DEF OpenIn
<1>11. Calls(t, e)
  <2> SUFFICES ASSUME NEW j \in DOMAIN t.calls
               PROVE  /\ t.calls[j].el <= e
                      /\ t.calls[j].timer \/ t.calls[j].listens => ~t.calls[j].frame
                      /\ t.calls[j].frame /\ t.calls[j].called /\ ~t.calls[j].cancelled
                         => t.calls[j].early \/ t.calls[j].el \notin t.inner
    BY DEF Calls
  <2>1. CASE j = n
    <3>1. e <= e
      BY DEF Element
    <3> QED
      BY <1>4, <1>9, <2>1, <3>1
  <2>2. CASE j # n
    <3>1. j \in DOMAIN s.calls /\ t.calls[j] = s.calls[j]
      BY <1>9, <2>2
    <3>2. /\ s.calls[j].el <= tp
          /\ s.calls[j].timer \/ s.calls[j].listens => ~s.calls[j].frame
          /\ s.calls[j].frame /\ s.calls[j].called /\ ~s.calls[j].cancelled
             => s.calls[j].early \/ s.calls[j].el \notin s.inner
      BY <3>1 DEF Sound, Calls
    <3>3. s.calls[j].el \in Int /\ e \in Int /\ tp \in Int
      <4>1. s.calls[j] \in Call
        BY <1>1, <3>1
      <4> QED
        BY <4>1 DEF Call, Element
    <3>4. s.calls[j].el <= e
      BY <3>2, <3>3
    <3> QED
      BY <1>8, <3>1, <3>2, <3>4
  <2> QED
    BY <2>1, <2>2
<1>12. Classes(t)
  <2> SUFFICES ASSUME NEW o \in Element, NEW k \in t.classes[o]
               PROVE  \E j \in DOMAIN t.calls : Accounts(k, j, o, t)
    BY DEF Classes
  <2>1. CASE k \in s.classes[o]
    <3>1. PICK j \in DOMAIN s.calls : Accounts(k, j, o, s)
      BY <2>1 DEF Sound, Classes
    <3>2. Accounts(k, j, o, t)
      BY <1>8, <1>9, <3>1 DEF Accounts
    <3> QED
      BY <1>9, <3>2
  <2>2. CASE k \notin s.classes[o]
    <3>1. o = e /\ k \in put
      BY <1>1, <1>8, <2>2 DEF State
    <3>2. kind.css /\ k \in {<<w, "start">>, <<w, "active">>}
      BY <2>2, <3>1 DEF put
    <3>3. k[1] = w /\ k[2] \in {"start", "active"}
      BY <3>2
    <3>4. Accounts(k, n, o, t)
      BY <1>4, <1>9, <3>1, <3>2, <3>3 DEF Accounts
    <3> QED
      BY <1>9, <3>4
  <2> QED
    BY <2>1, <2>2
<1>13. Sound(t, e)
  BY <1>8, <1>9, <1>11, <1>12 DEF Sound
<1> QED
  BY <1>8, <1>9, <1>10, <1>13 DEF t, n, AfterStart

\* A callback adds no call, and no frame.
LEMMA CallbackKeeps ==
    ASSUME kind \in Kinds, NEW s \in State, NEW i \in DOMAIN s.calls
    PROVE  LET t == Callback(s, i, FALSE)
           IN  /\ t \in State /\ Len(t.calls) = Len(s.calls) /\ DOMAIN t.calls = DOMAIN s.calls
               /\ \A j \in DOMAIN s.calls : t.calls[j].frame = s.calls[j].frame
<1> DEFINE t == Callback(s, i, FALSE)
<1>1. CASE s.calls[i].called
  BY <1>1 DEF Callback
<1>2. CASE ~s.calls[i].called
  <2>1. i \in OpenIn(s)
    BY <1>2 DEF OpenIn
  <2>2. AfterCallback(s, i, FALSE, t)
    BY <2>1, CallbackIs
  <2> HIDE DEF t
  <2> DEFINE d == Ends(s.calls[i], FALSE)
  <2>3. t \in State /\ d \in Call /\ t.calls = [s.calls EXCEPT ![i] = d]
    BY <2>2 DEF AfterCallback
  <2> HIDE DEF d
  <2>4. /\ Len(t.calls) = Len(s.calls) /\ DOMAIN t.calls = DOMAIN s.calls
        /\ t.calls[i] = d /\ s.calls[i] \in Call
        /\ \A j \in DOMAIN s.calls : j # i => t.calls[j] = s.calls[j]
    BY <2>3, OneCallChanges
  <2>5. t.calls[i].frame = s.calls[i].frame
    BY <2>4 DEF Ends, Call, d
  <2> QED
    BY <2>3, <2>4, <2>5 DEF t
<1> QED
  BY <1>1, <1>2

\* Without classes and done the transition ends at once, and that fits too.
LEMMA EndsFits ==
    ASSUME kind \in Kinds, NEW s, NEW sh \in BOOLEAN, NEW tp, Fits(s, sh, tp),
           Len(s.calls) \in DOMAIN s.calls, ~kind.css => ~s.calls[Len(s.calls)].frame
    PROVE  Fits(EndsAtOnce(s), sh, tp) /\ Len(EndsAtOnce(s).calls) = Len(s.calls)
<1>1. CASE ~kind.css /\ ~kind.user
  <2>1. Fits(Callback(s, Len(s.calls), FALSE), sh, tp)
    BY <1>1, CallbackFits
  <2>2. s \in State
    BY DEF Fits, Sound
  <2>3. Len(Callback(s, Len(s.calls), FALSE).calls) = Len(s.calls)
    BY <2>2, CallbackKeeps
  <2> QED
    BY <1>1, <2>1, <2>3 DEF EndsAtOnce
<1>2. CASE ~ (~kind.css /\ ~kind.user)
  BY <1>2 DEF EndsAtOnce
<1> QED
  BY <1>1, <1>2

\* leave: the call that entered is cancelled, and the element leaves.
LEMMA LeaveFits ==
    ASSUME kind \in Kinds, NEW s, NEW tp \in Nat, Fits(s, TRUE, tp)
    PROVE  Fits(Leave(s, tp), FALSE, tp) /\ Len(Leave(s, tp).calls) = Len(s.calls) + 1
<1> DEFINE free == CancelOther(s, tp, "enter")
           began == Starts(free, "leave", tp)
           u == IF kind.show THEN began ELSE [began EXCEPT !.leaving = Len(began.calls)]
           n == Len(s.calls) + 1
<1>1. \A i \in OpenIn(s) : s.calls[i].el = tp /\ s.calls[i].way = "enter"
  BY DEF Fits, Shows
<1>2. /\ Sound(free, tp) /\ OpenIn(free) = {}
      /\ free.inner = s.inner /\ free.displayed = s.displayed /\ Len(free.calls) = Len(s.calls)
  <2>1. Sound(s, tp) /\ \A i, j \in OpenIn(s) : i = j
    BY DEF Fits, Shows
  <2>2. AfterCancel(s, tp, free)
    BY <1>1, <2>1, CancelIs
  <2> HIDE DEF free
  <2> QED
    BY <2>2 DEF AfterCancel
<1>3. s \in State /\ free \in State
  BY <1>2 DEF Fits, Sound
<1>4. tp \in Element
  <2>1. CASE kind.show
    BY <2>1, CountsAssumption DEF Fits, Sound, Element
  <2>2. CASE ~kind.show
    <3>1. s.inner = {tp}
      BY <2>2 DEF Fits, Shows
    <3> QED
      BY <1>3, <3>1 DEF State
  <2> QED
    BY <2>1, <2>2
<1>5. kind.show => tp = 1
  BY DEF Fits, Sound
<1>6. Open(free, tp, "leave") = {}
  BY <1>2 DEF Open, OpenIn
<1>7. Leave(s, tp) = EndsAtOnce(u)
  BY <1>6 DEF Leave
<1>8. /\ Sound(began, tp) /\ OpenIn(began) = {n}
      /\ n \in DOMAIN began.calls /\ Len(began.calls) = n /\ began.calls[n] = Began("leave", tp)
      /\ began.inner = s.inner /\ began.displayed = s.displayed
  <2>1. tp <= tp /\ "leave" \in Way
    BY DEF Way
  <2>2. AfterStart(free, "leave", tp, began)
    BY <1>2, <1>4, <1>5, <2>1, StartsIs
  <2> HIDE DEF free, began
  <2> QED
    BY <1>2, <2>2 DEF AfterStart
<1> HIDE DEF free, began
<1>9. n \in Nat
  BY <1>3 DEF State
<1>10. /\ u.calls = began.calls /\ u.inner = s.inner /\ u.displayed = s.displayed
       /\ u.classes = began.classes /\ u \in State
       /\ kind.show => u = began
       /\ ~kind.show => u.leaving = n
  <2>1. began \in State
    BY <1>8 DEF Sound
  <2>2. CASE kind.show
    BY <1>8, <2>1, <2>2
  <2>3. CASE ~kind.show
    BY <1>8, <1>9, <2>1, <2>3 DEF State
  <2> QED
    BY <2>2, <2>3
<1> HIDE DEF u
<1>11. Sound(u, tp)
  <2>1. u.leaving \in DOMAIN u.calls \union {Undef}
    BY <1>8, <1>10 DEF Sound
  <2>2. Calls(u, tp) /\ Classes(u)
    BY <1>8, <1>10 DEF Sound, Calls, Classes, Accounts
  <2>3. kind.show => u.inner = {1} /\ tp = 1
    BY <1>10 DEF Fits, Sound
  <2> QED
    BY <1>10, <2>1, <2>2, <2>3 DEF Sound
<1>12. OpenIn(u) = {n} /\ u.calls[n].el = tp /\ u.calls[n].way = "leave"
       /\ u.calls[n].frame = kind.css
  BY <1>8, <1>10 DEF OpenIn, Began
<1>13. Shows(u, FALSE, tp)
  <2>1. kind.show => 1 \in u.displayed
    BY <1>10 DEF Fits, Shows
  <2>2. ~kind.show => u.inner = {tp} /\ u.inner \subseteq u.displayed /\ u.leaving = n
    BY <1>10 DEF Fits, Shows
  <2> QED
    BY <1>12, <2>1, <2>2 DEF Shows
<1>14. Fits(u, FALSE, tp)
  BY <1>11, <1>13 DEF Fits
<1>15. Len(u.calls) = n /\ n \in DOMAIN u.calls
  BY <1>8, <1>10
<1> HIDE DEF n
<1>16. Fits(EndsAtOnce(u), FALSE, tp) /\ Len(EndsAtOnce(u).calls) = n
  BY <1>12, <1>14, <1>15, EndsFits
<1> QED
  BY <1>7, <1>16 DEF n

\* enter under v-show: the call that left is cancelled, and the element displayed.
LEMMA EnterShowFits ==
    ASSUME kind \in Kinds, kind.show, NEW s, Fits(s, FALSE, 1)
    PROVE  Fits(Enter(s, 1), TRUE, 1) /\ Len(Enter(s, 1).calls) = Len(s.calls) + 1
<1> DEFINE free == CancelOther(s, 1, "leave")
           began == Starts(free, "enter", 1)
           u == [began EXCEPT !.displayed = @ \union {1}]
           n == Len(s.calls) + 1
<1>1. \A i \in OpenIn(s) : s.calls[i].el = 1 /\ s.calls[i].way = "leave"
  <2> TAKE i \in OpenIn(s)
  <2>1. s.calls[i] \in Call
    BY DEF Fits, Sound, State, OpenIn
  <2> QED
    BY <2>1 DEF Fits, Shows, Call, Way
<1>2. /\ Sound(free, 1) /\ OpenIn(free) = {}
      /\ free.inner = s.inner /\ free.displayed = s.displayed /\ Len(free.calls) = Len(s.calls)
  <2>1. Sound(s, 1) /\ \A i, j \in OpenIn(s) : i = j
    BY DEF Fits, Shows
  <2>2. AfterCancel(s, 1, free)
    BY <1>1, <2>1, CancelIs
  <2> HIDE DEF free
  <2> QED
    BY <2>2 DEF AfterCancel
<1>3. 1 \in Element
  BY CountsAssumption DEF Element
<1>4. Open(free, 1, "enter") = {}
  BY <1>2 DEF Open, OpenIn
<1>5. Enter(s, 1) = EndsAtOnce(u)
  BY <1>4 DEF Enter
<1>6. /\ Sound(began, 1) /\ OpenIn(began) = {n}
      /\ n \in DOMAIN began.calls /\ Len(began.calls) = n /\ began.calls[n] = Began("enter", 1)
      /\ began.inner = s.inner
  <2>1. 1 <= 1 /\ "enter" \in Way
    BY DEF Way
  <2>2. AfterStart(free, "enter", 1, began)
    BY <1>2, <1>3, <2>1, StartsIs
  <2> HIDE DEF free, began
  <2> QED
    BY <1>2, <2>2 DEF AfterStart
<1> HIDE DEF free, began
<1>7. /\ u.calls = began.calls /\ u.inner = began.inner /\ 1 \in u.displayed
      /\ u.classes = began.classes /\ u.leaving = began.leaving /\ u \in State
  <2>1. began \in State
    BY <1>6 DEF Sound
  <2> QED
    BY <1>3, <2>1 DEF State
<1> HIDE DEF u
<1>8. Sound(u, 1)
  <2>1. u.leaving \in DOMAIN u.calls \union {Undef}
    BY <1>6, <1>7 DEF Sound
  <2>2. Calls(u, 1) /\ Classes(u)
    BY <1>6, <1>7 DEF Sound, Calls, Classes, Accounts
  <2>3. u.inner = {1}
    BY <1>6, <1>7 DEF Fits, Sound
  <2> QED
    BY <1>7, <2>1, <2>2, <2>3 DEF Sound
<1>9. /\ OpenIn(u) = {n} /\ u.calls[n].el = 1 /\ u.calls[n].way = "enter"
      /\ u.calls[n].frame = kind.css
  BY <1>6, <1>7 DEF OpenIn, Began
<1>10. Fits(u, TRUE, 1)
  BY <1>7, <1>8, <1>9 DEF Fits, Shows
<1>11. Len(u.calls) = n /\ n \in DOMAIN u.calls
  BY <1>6, <1>7
<1> HIDE DEF n
<1>12. Fits(EndsAtOnce(u), TRUE, 1) /\ Len(EndsAtOnce(u).calls) = n
  BY <1>9, <1>10, <1>11, EndsFits
<1> QED
  BY <1>5, <1>12 DEF n

\* enter under v-if: a new element comes into the parent, and the one that is
\* still leaving goes.
LEMMA EnterIfFits ==
    ASSUME kind \in Kinds, ~kind.show, NEW s, NEW tp \in Nat, Fits(s, FALSE, tp), tp + 1 \in Element
    PROVE  LET into == [s EXCEPT !.inner = @ \union {tp + 1}, !.displayed = @ \union {tp + 1}]
           IN  /\ Fits(Enter(into, tp + 1), TRUE, tp + 1)
               /\ Len(Enter(into, tp + 1).calls) = Len(s.calls) + 1
<1> DEFINE e == tp + 1
           into == [s EXCEPT !.inner = @ \union {e}, !.displayed = @ \union {e}]
           began == Starts(into, "enter", e)
           u == EndsAtOnce(began)
           t == RemovePending(u)
           n == Len(s.calls) + 1
<1>1. s \in State /\ Sound(s, tp) /\ Shows(s, FALSE, tp)
  BY DEF Fits, Sound
<1>2. /\ into \in State /\ into.calls = s.calls /\ into.classes = s.classes
      /\ into.leaving = s.leaving /\ into.inner = s.inner \union {e}
      /\ into.displayed = s.displayed \union {e}
  BY <1>1 DEF State
<1> HIDE DEF into
<1>3. \A i \in DOMAIN s.calls : s.calls[i] \in Call /\ s.calls[i].el # e
  <2> TAKE i \in DOMAIN s.calls
  <2>1. s.calls[i] \in Call /\ s.calls[i].el <= tp
    BY <1>1 DEF State, Sound, Calls
  <2>2. s.calls[i].el \in Int
    BY <2>1 DEF Call, Element
  <2> QED
    BY <2>1, <2>2
<1>4. Sound(into, tp)
  <2>1. Calls(into, tp)
    BY <1>1, <1>2, <1>3 DEF Sound, Calls
  <2>2. Classes(into)
    <3> SUFFICES ASSUME NEW o \in Element, NEW k \in s.classes[o]
                 PROVE  \E j \in DOMAIN s.calls : Accounts(k, j, o, into)
      BY <1>2 DEF Classes
    <3>1. PICK j \in DOMAIN s.calls : Accounts(k, j, o, s)
      BY <1>1 DEF Sound, Classes
    <3>2. o # e
      BY <1>3, <3>1 DEF Accounts
    <3> QED
      BY <1>2, <3>1, <3>2 DEF Accounts
  <2> QED
    BY <1>1, <1>2, <2>1, <2>2 DEF Sound
<1>5. OpenIn(into) = OpenIn(s)
  BY <1>2 DEF OpenIn
<1>6. Enter(into, e) = t
  <2>1. Open(into, e, "leave") = {} /\ Open(into, e, "enter") = {}
    BY <1>2, <1>3 DEF Open
  <2> QED
    BY <2>1 DEF Enter, CancelOther
<1>7. /\ Sound(began, e) /\ OpenIn(began) = OpenIn(s) \union {n} /\ n \notin OpenIn(s)
      /\ n \in DOMAIN began.calls /\ Len(began.calls) = n /\ began.calls[n] = Began("enter", e)
      /\ \A i \in DOMAIN s.calls : began.calls[i] = s.calls[i]
      /\ began.inner = into.inner /\ began.displayed = into.displayed /\ began.leaving = s.leaving
  <2>1. tp <= e /\ "enter" \in Way
    BY DEF Way
  <2>2. AfterStart(into, "enter", e, began)
    BY <1>4, <2>1, StartsIs
  <2> HIDE DEF began
  <2> QED
    BY <1>2, <1>5, <2>2 DEF AfterStart
<1> HIDE DEF began
<1>8. began \in State /\ n \in Nat
  BY <1>1, <1>7 DEF Sound, State
<1> HIDE DEF n
<1>9. /\ began.calls[n].el = e /\ began.calls[n].way = "enter" /\ began.calls[n].frame = kind.css
  BY <1>7 DEF Began
\* The new call may be over at once.
<1>10. /\ Sound(u, e) /\ OpenIn(s) \subseteq OpenIn(u) /\ OpenIn(u) \subseteq OpenIn(s) \union {n}
       /\ DOMAIN u.calls = DOMAIN began.calls /\ Len(u.calls) = n
       /\ u.calls[n].el = e /\ u.calls[n].way = "enter"
       /\ \A i \in DOMAIN s.calls : u.calls[i] = s.calls[i]
       /\ u.inner = into.inner /\ into.displayed \subseteq u.displayed
       /\ u.leaving = s.leaving
  <2>1. CASE ~ (~kind.css /\ ~kind.user)
    <3>1. u = began
      BY <2>1 DEF EndsAtOnce
    <3> QED
      BY <1>7, <1>9, <3>1
  <2>2. CASE ~kind.css /\ ~kind.user
    <3>1. u = Callback(began, n, FALSE) /\ n \in OpenIn(began) /\ ~began.calls[n].frame
      BY <1>7, <1>9, <2>2 DEF EndsAtOnce
    <3> HIDE DEF u
    <3>2. Sound(u, e) /\ OpenIn(u) = OpenIn(began) \ {n}
      BY <1>7, <3>1, CallbackSound
    <3>3. AfterCallback(began, n, FALSE, u)
      BY <1>8, <3>1, CallbackIs
    <3> DEFINE d == Ends(began.calls[n], FALSE)
    <3>4. /\ d \in Call /\ u.calls = [began.calls EXCEPT ![n] = d]
          /\ u.leaving = began.leaving /\ u.inner = began.inner /\ u.displayed = began.displayed
      BY <1>9, <3>3 DEF AfterCallback
    <3> HIDE DEF d
    <3>5. /\ DOMAIN u.calls = DOMAIN began.calls /\ Len(u.calls) = Len(began.calls)
          /\ u.calls[n] = d /\ began.calls[n] \in Call
          /\ \A j \in DOMAIN began.calls : j # n => u.calls[j] = began.calls[j]
      BY <1>7, <1>8, <3>4, OneCallChanges
    <3>6. u.calls[n].el = e /\ u.calls[n].way = "enter"
      BY <1>9, <3>5 DEF Ends, Call, d
    <3>7. \A i \in DOMAIN s.calls : i \in DOMAIN began.calls /\ i # n
      BY <1>1, <1>7, <1>8 DEF State, n
    <3>8. \A i \in DOMAIN s.calls : u.calls[i] = s.calls[i]
      BY <1>7, <3>5, <3>7
    <3> QED
      BY <1>7, <3>2, <3>4, <3>5, <3>6, <3>8
  <2> QED
    BY <2>1, <2>2
<1> HIDE DEF u
<1>11. e \in Nat /\ e # tp /\ n \notin DOMAIN s.calls /\ n \in DOMAIN u.calls /\ u \in State
  BY <1>1, <1>7, <1>8, <1>10 DEF State, n, Sound
<1>12. /\ Sound(t, e) /\ OpenIn(t) \subseteq {n} /\ t.calls[n] = u.calls[n]
       /\ t.inner = {e} /\ e \in t.displayed /\ Len(t.calls) = n
  <2>1. CASE OpenIn(s) = {}
    <3>1. s.leaving \in DOMAIN s.calls \union {Undef} /\ s.inner = {}
      BY <1>1, <2>1 DEF Sound, Shows
    <3>2. s.leaving # Undef => s.leaving \in DOMAIN u.calls /\ s.leaving # n
      BY <1>1, <1>7, <1>10, <1>11, <3>1 DEF State, n
    <3>3. ~ (u.leaving # Undef /\ ~u.calls[u.leaving].called)
      BY <1>10, <2>1, <3>2 DEF OpenIn
    <3>4. t = u
      BY <3>3 DEF RemovePending
    <3> QED
      BY <1>2, <1>10, <2>1, <3>1, <3>4
  <2>2. CASE OpenIn(s) # {}
    <3>1. PICK j \in OpenIn(s) : TRUE
      BY <2>2
    <3>2. OpenIn(s) = {j} /\ j \in DOMAIN s.calls /\ ~s.calls[j].called
      BY <1>1, <3>1 DEF Shows, OpenIn
    <3>3. s.calls[j].el = tp /\ s.calls[j].way = "leave"
      <4>1. s.calls[j].way \in Way
        BY <1>3, <3>2 DEF Call
      <4> QED
        BY <1>1, <3>1, <4>1 DEF Shows, Way
    <3>4. s.leaving = j /\ s.inner = {tp} /\ s.inner \subseteq s.displayed
      BY <1>1, <2>2, <3>1, <3>3 DEF Shows
    <3>5. j # Undef
      <4>1. j \in Nat
        BY <1>1, <3>2 DEF State
      <4> QED
        BY <4>1, KindsAssumption
    <3>6. t = Callback(u, j, FALSE)
      BY <1>10, <3>2, <3>4, <3>5 DEF RemovePending
    <3>7. j \in OpenIn(u) /\ u.calls[j] = s.calls[j]
      BY <1>10, <3>1, <3>2
    <3> HIDE DEF t
    <3>8. AfterCallback(u, j, FALSE, t)
      BY <1>11, <3>6, <3>7, CallbackIs
    <3> DEFINE d == Ends(u.calls[j], FALSE)
    <3>9. /\ d \in Call /\ t.calls = [u.calls EXCEPT ![j] = d]
          /\ t.inner = u.inner \ {tp} /\ t.displayed = u.displayed
      BY <3>3, <3>7, <3>8 DEF AfterCallback
    <3> HIDE DEF d
    <3>10. t.inner = {e} /\ e \in t.displayed
      BY <1>2, <1>10, <1>11, <3>4, <3>9
    <3>11. u.calls[j].el \notin Callback(u, j, FALSE).inner
      BY <1>11, <3>3, <3>6, <3>7, <3>10
    <3>12. Sound(t, e) /\ OpenIn(t) = OpenIn(u) \ {j}
      BY <1>10, <3>6, <3>7, <3>11, CallbackSound
    <3>13. j \in DOMAIN u.calls /\ j # n
      BY <1>11, <3>2, <3>7 DEF OpenIn
    <3>14. /\ Len(t.calls) = Len(u.calls)
           /\ \A i \in DOMAIN u.calls : i # j => t.calls[i] = u.calls[i]
      BY <1>11, <3>9, <3>13, OneCallChanges
    <3> QED
      BY <1>10, <1>11, <3>2, <3>10, <3>12, <3>13, <3>14
  <2> QED
    BY <2>1, <2>2
<1> HIDE DEF t
<1>13. Shows(t, TRUE, e)
  BY <1>10, <1>12 DEF Shows
<1> QED
  BY <1>6, <1>12, <1>13 DEF Fits, into, n

LEMMA MountedIs ==
    ASSUME Mounted
    PROVE  /\ Fits(Now, shown, top) /\ Now \in State /\ kind \in Kinds /\ shown \in BOOLEAN
           /\ calls \in Seq(Call) /\ classes \in [Element -> SUBSET Class]
           /\ Now.calls = calls /\ Now.classes = classes /\ Now.inner = inner
           /\ Now.displayed = displayed /\ Now.leaving = leaving
<1>1. Fits(Now, shown, top) /\ Now \in State /\ kind \in Kinds /\ shown \in BOOLEAN
  BY DEF Mounted, Fits, Sound
<1>2. /\ Now.calls = calls /\ Now.classes = classes /\ Now.inner = inner
      /\ Now.displayed = displayed /\ Now.leaving = leaving
  BY DEF Now
<1> QED
  BY <1>1, <1>2 DEF State

\* The state that a step makes is the record given to Become.
LEMMA BecomeIs ==
    ASSUME NEW t \in State, Become(t)
    PROVE  Now' = t /\ calls' = t.calls
<1>1. t = [inner |-> t.inner, displayed |-> t.displayed, classes |-> t.classes,
           leaving |-> t.leaving, calls |-> t.calls]
  BY DEF State
<1> QED
  BY <1>1 DEF Become, Now

\* The frame of a call runs.
LEMMA FrameFits ==
    ASSUME Mounted, Frame
    PROVE  kind' = kind /\ shown' = shown /\ top' = top /\ Len(calls') = Len(calls) /\ Fits(Now', shown, top)
<1>1. /\ Fits(Now, shown, top) /\ Now \in State /\ kind \in Kinds /\ shown \in BOOLEAN
      /\ calls \in Seq(Call) /\ classes \in [Element -> SUBSET Class]
      /\ Now.calls = calls /\ Now.classes = classes /\ Now.inner = inner
      /\ Now.displayed = displayed /\ Now.leaving = leaving
  BY MountedIs
<1>2. PICK i \in DOMAIN calls :
        LET began == [Now EXCEPT !.calls[i].frame = FALSE,
                                 !.classes[calls[i].el] = @ \ {<<calls[i].way, "start">>}]
            to == [began EXCEPT !.classes[calls[i].el] = @ \union {<<calls[i].way, "to">>}]
        IN  /\ calls[i].frame
            /\ Become(IF ~GoesOn(Now, i) THEN began
                      ELSE IF kind.user THEN to
                      ELSE IF kind.ends = "at once" \/ (kind.ends = "events" /\ calls[i].el \notin inner)
                      THEN Callback(to, i, FALSE)
                      ELSE [to EXCEPT !.calls[i].timer = TRUE, !.calls[i].listens = kind.ends = "events"])
            /\ UNCHANGED <<kind, shown, top>>
  BY DEF Frame
<1> DEFINE c == calls[i]
           d == [c EXCEPT !.frame = FALSE]
           began == [Now EXCEPT !.calls[i].frame = FALSE, !.classes[c.el] = @ \ {<<c.way, "start">>}]
           to == [began EXCEPT !.classes[c.el] = @ \union {<<c.way, "to">>}]
           waits == [to EXCEPT !.calls[i].timer = TRUE, !.calls[i].listens = kind.ends = "events"]
           w == [d EXCEPT !.timer = TRUE, !.listens = kind.ends = "events"]
<1>3. c \in Call /\ c.frame
  <2>1. c \in Call
    BY <1>1
  <2>2. c.frame
    BY <1>2
  <2> QED
    BY <2>1, <2>2
<1>4. /\ d \in Call /\ d.way = c.way /\ d.el = c.el /\ d.called = c.called /\ d.cancelled = c.cancelled
      /\ d.early = c.early /\ d.timer = c.timer /\ d.listens = c.listens /\ ~d.frame
  BY <1>3 DEF Call
<1>5. /\ began = [Now EXCEPT !.calls = [calls EXCEPT ![i] = d],
                             !.classes = [classes EXCEPT ![c.el] = @ \ {<<c.way, "start">>}]]
      /\ [calls EXCEPT ![i] = d] \in Seq(Call)
      /\ [classes EXCEPT ![c.el] = @ \ {<<c.way, "start">>}] \in [Element -> SUBSET Class]
  <2>1. began = [Now EXCEPT !.calls = [calls EXCEPT ![i] = d],
                            !.classes = [classes EXCEPT ![c.el] = @ \ {<<c.way, "start">>}]]
    BY <1>1 DEF State
  <2>2. [calls EXCEPT ![i] = d] \in Seq(Call)
    <3> HIDE DEF d, c
    <3> QED
      BY <1>1, <1>4
  <2>3. [classes EXCEPT ![c.el] = @ \ {<<c.way, "start">>}] \in [Element -> SUBSET Class]
    BY <1>1, <1>3 DEF Call
  <2> QED
    BY <2>1, <2>2, <2>3
<1> HIDE DEF began, d
<1>6. /\ began \in State /\ began.calls = [calls EXCEPT ![i] = d]
      /\ began.classes = [classes EXCEPT ![c.el] = @ \ {<<c.way, "start">>}]
      /\ began.inner = inner /\ began.displayed = displayed /\ began.leaving = leaving
  BY <1>1, <1>5 DEF State
<1>7. /\ to \in State /\ to.calls = [calls EXCEPT ![i] = d]
      /\ to.classes = [began.classes EXCEPT ![c.el] = @ \union {<<c.way, "to">>}]
      /\ to.inner = inner /\ to.displayed = displayed /\ to.leaving = leaving
  <2>1. [began.classes EXCEPT ![c.el] = @ \union {<<c.way, "to">>}] \in [Element -> SUBSET Class]
    BY <1>3, <1>6 DEF State, Call, Class
  <2> QED
    BY <1>6, <2>1 DEF State
<1> HIDE DEF to
<1>8. Fits(began, shown, top)
  <2>1. ASSUME NEW e \in Element, NEW k \in began.classes[e]
        PROVE  k \in Now.classes[e] /\ ~ (e = d.el /\ k = <<d.way, "start">>)
    <3>1. CASE e = c.el
      BY <1>1, <1>4, <1>6, <2>1, <3>1
    <3>2. CASE e # c.el
      BY <1>1, <1>4, <1>6, <2>1, <3>2
    <3> QED
      BY <3>1, <3>2
  <2>2. Touched(Now, began, i, d)
    BY <1>1, <1>3, <1>4, <1>6, <2>1 DEF Touched
  <2> QED
    BY <1>1, <1>4, <1>6, <2>2, TouchFits
<1>9. GoesOn(Now, i) => ~c.cancelled
  BY <1>1 DEF GoesOn
<1>10. ASSUME GoesOn(Now, i), NEW e \in Element, NEW k \in to.classes[e]
       PROVE  \/ k \in Now.classes[e] /\ ~ (e = d.el /\ k = <<d.way, "start">>)
              \/ /\ e = d.el /\ k = <<d.way, "to">>
                 /\ ~d.called \/ d.early \/ e \notin inner
  <2>1. ~c.called \/ c.early \/ c.el \notin inner
    BY <1>1, <1>3, <1>9, <1>10 DEF Fits, Sound, Calls
  <2>2. CASE e = c.el /\ k = <<c.way, "to">>
    BY <1>4, <2>1, <2>2
  <2>3. CASE ~ (e = c.el /\ k = <<c.way, "to">>)
    <3>1. k \in began.classes[e]
      <4>1. began.classes \in [Element -> SUBSET Class]
        BY <1>6 DEF State
      <4> QED
        BY <1>7, <1>10, <2>3, <4>1
    <3>2. k \in classes[e] /\ ~ (e = c.el /\ k = <<c.way, "start">>)
      <4>1. CASE e = c.el
        BY <1>1, <1>6, <3>1, <4>1
      <4>2. CASE e # c.el
        BY <1>1, <1>6, <3>1, <4>2
      <4> QED
        BY <4>1, <4>2
    <3> QED
      BY <1>1, <1>4, <3>2
  <2> QED
    BY <2>2, <2>3
<1>11. GoesOn(Now, i) => Fits(to, shown, top)
  <2> SUFFICES ASSUME GoesOn(Now, i)
               PROVE  Fits(to, shown, top)
    OBVIOUS
  <2>1. \A e \in Element : \A k \in to.classes[e] :
           \/ k \in Now.classes[e] /\ (e = d.el /\ k = <<d.way, "start">> => d.frame = c.frame)
           \/ /\ e = d.el /\ k = <<d.way, "to">>
              /\ ~d.called \/ d.early \/ e \notin Now.inner
    BY <1>1, <1>10
  <2>2. Touched(Now, to, i, d)
    BY <1>1, <1>3, <1>4, <1>7, <2>1 DEF Touched
  <2> QED
    BY <1>1, <1>4, <1>7, <2>2, TouchFits
<1>12. /\ Len(began.calls) = Len(calls) /\ Len(to.calls) = Len(calls)
       /\ i \in DOMAIN to.calls /\ to.calls[i] = d
  BY <1>1, <1>4, <1>6, <1>7, OneCallChanges
<1>13. GoesOn(Now, i) => /\ Fits(Callback(to, i, FALSE), shown, top)
                         /\ Len(Callback(to, i, FALSE).calls) = Len(calls)
  <2> SUFFICES ASSUME GoesOn(Now, i)
               PROVE  /\ Fits(Callback(to, i, FALSE), shown, top)
                      /\ Len(Callback(to, i, FALSE).calls) = Len(calls)
    OBVIOUS
  <2>1. Fits(Callback(to, i, FALSE), shown, top)
    BY <1>1, <1>4, <1>11, <1>12, CallbackFits
  <2>2. Len(Callback(to, i, FALSE).calls) = Len(to.calls)
    BY <1>1, <1>7, <1>12, CallbackKeeps
  <2> QED
    BY <1>12, <2>1, <2>2
<1>14. /\ w \in Call /\ w.way = c.way /\ w.el = c.el /\ w.called = c.called
       /\ w.cancelled = c.cancelled /\ w.early = c.early /\ ~w.frame
  BY <1>4 DEF Call
<1>15. /\ waits \in State /\ waits.calls = [calls EXCEPT ![i] = w] /\ waits.classes = to.classes
       /\ waits.inner = inner /\ waits.displayed = displayed /\ waits.leaving = leaving
  <2>1. waits = [to EXCEPT !.calls = [to.calls EXCEPT ![i] = w]]
    BY <1>7, <1>12 DEF State
  <2> HIDE DEF w, waits
  <2>2. [to.calls EXCEPT ![i] = w] = [calls EXCEPT ![i] = w]
    BY <1>7
  <2>3. [calls EXCEPT ![i] = w] \in Seq(Call)
    <3> HIDE DEF c
    <3> QED
      BY <1>1, <1>14
  <2> QED
    BY <1>7, <2>1, <2>2, <2>3 DEF State
<1> HIDE DEF waits, w
<1>16. GoesOn(Now, i) => Fits(waits, shown, top)
  <2> SUFFICES ASSUME GoesOn(Now, i)
               PROVE  Fits(waits, shown, top)
    OBVIOUS
  <2>1. \A e \in Element : \A k \in waits.classes[e] :
           \/ k \in Now.classes[e] /\ (e = w.el /\ k = <<w.way, "start">> => w.frame = c.frame)
           \/ /\ e = w.el /\ k = <<w.way, "to">>
              /\ ~w.called \/ w.early \/ e \notin Now.inner
    BY <1>1, <1>4, <1>10, <1>14, <1>15
  <2>2. Touched(Now, waits, i, w)
    BY <1>1, <1>3, <1>14, <1>15, <2>1 DEF Touched
  <2> QED
    BY <1>1, <1>14, <1>15, <2>2, TouchFits
<1>17. Len(waits.calls) = Len(calls)
  BY <1>1, <1>14, <1>15, OneCallChanges
<1>18. UNCHANGED <<kind, shown, top>>
  BY <1>2
<1>19. \E t \in {began, to, Callback(to, i, FALSE), waits} :
          Become(t) /\ Fits(t, shown, top) /\ Len(t.calls) = Len(calls)
  <2>1. CASE ~GoesOn(Now, i)
    <3>1. Become(began)
      BY <1>2, <2>1 DEF began
    <3> QED
      BY <1>8, <1>12, <3>1
  <2>2. CASE GoesOn(Now, i) /\ kind.user
    <3>1. Become(to)
      BY <1>2, <2>2 DEF to, began
    <3> QED
      BY <1>11, <1>12, <2>2, <3>1
  <2>3. CASE /\ GoesOn(Now, i) /\ ~kind.user
             /\ kind.ends = "at once" \/ (kind.ends = "events" /\ calls[i].el \notin inner)
    <3>1. Become(Callback(to, i, FALSE))
      BY <1>2, <2>3 DEF to, began
    <3> QED
      BY <1>13, <2>3, <3>1
  <2>4. CASE /\ GoesOn(Now, i) /\ ~kind.user
             /\ ~ (kind.ends = "at once" \/ (kind.ends = "events" /\ calls[i].el \notin inner))
    <3>1. Become(waits)
      BY <1>2, <2>4 DEF to, began, waits
    <3> QED
      BY <1>16, <1>17, <2>4, <3>1
  <2> QED
    BY <2>1, <2>2, <2>3, <2>4
<1>20. PICK t \in {began, to, Callback(to, i, FALSE), waits} :
          Become(t) /\ Fits(t, shown, top) /\ Len(t.calls) = Len(calls)
  BY <1>19
<1>21. t \in State
  BY <1>20 DEF Fits, Sound
<1>22. Now' = t /\ calls' = t.calls
  BY <1>20, <1>21, BecomeIs
<1> QED
  BY <1>18, <1>20, <1>22

\* s with d for its call i.
Written(s, i, d) == [s EXCEPT !.calls = [s.calls EXCEPT ![i] = d]]

\* Another timer, listener, count or mark of early for call c.
Rewrites(c, d) ==
    /\ d.way = c.way /\ d.el = c.el /\ d.called = c.called /\ d.cancelled = c.cancelled
    /\ d.frame = c.frame /\ (c.early => d.early) /\ (d.timer \/ d.listens => ~d.frame)

AfterWrite(s, i, d, sh, tp, t) ==
    /\ Fits(t, sh, tp) /\ Len(t.calls) = Len(s.calls)
    /\ i \in DOMAIN t.calls /\ t.calls[i] = d
    /\ d.called \/ ~d.frame \/ d.early
       => Fits(Callback(t, i, FALSE), sh, tp) /\ Len(Callback(t, i, FALSE).calls) = Len(s.calls)

\* A timer, a listener, a count or a mark of a call changes: what is shown is as
\* it was, and the call may come to its end if its frame ran or it is told early.
LEMMA WriteFits ==
    ASSUME kind \in Kinds, NEW s, NEW sh \in BOOLEAN, NEW tp, Fits(s, sh, tp), NEW i \in DOMAIN s.calls,
           NEW d \in Call, Rewrites(s.calls[i], d)
    PROVE  AfterWrite(s, i, d, sh, tp, Written(s, i, d))
<1> DEFINE t == Written(s, i, d)
<1>1. s \in State
  BY DEF Fits, Sound
<1>2. [s.calls EXCEPT ![i] = d] \in Seq(Call)
  BY <1>1 DEF State
<1>3. /\ t \in State /\ t.calls = [s.calls EXCEPT ![i] = d] /\ t.classes = s.classes
      /\ t.inner = s.inner /\ t.displayed = s.displayed /\ t.leaving = s.leaving
  BY <1>1, <1>2 DEF State, Written
<1> HIDE DEF t
<1>4. Len(t.calls) = Len(s.calls) /\ i \in DOMAIN t.calls /\ t.calls[i] = d
  BY <1>1, <1>3, OneCallChanges
<1>5. Touched(s, t, i, d)
  BY <1>3 DEF Touched, Rewrites
<1>6. Fits(t, sh, tp)
  BY <1>3, <1>5, TouchFits
<1>7. d.called \/ ~d.frame \/ d.early => Fits(Callback(t, i, FALSE), sh, tp)
  BY <1>4, <1>6, CallbackFits
<1>8. Len(Callback(t, i, FALSE).calls) = Len(t.calls)
  BY <1>3, <1>4, CallbackKeeps
<1> QED
  BY <1>4, <1>6, <1>7, <1>8 DEF AfterWrite, t

\* A timer of a call ends.
LEMMA TimerFits ==
    ASSUME Mounted, Timer
    PROVE  kind' = kind /\ shown' = shown /\ top' = top /\ Len(calls') = Len(calls) /\ Fits(Now', shown, top)
<1>1. /\ Fits(Now, shown, top) /\ Now \in State /\ kind \in Kinds /\ shown \in BOOLEAN
      /\ calls \in Seq(Call) /\ Now.calls = calls
  BY MountedIs
<1>2. PICK i \in DOMAIN calls :
        LET rang == [Now EXCEPT !.calls[i].timer = FALSE]
        IN  /\ calls[i].timer
            /\ Become(IF calls[i].ended >= PropCount THEN rang
                      ELSE Callback([rang EXCEPT !.calls[i].listens = FALSE], i, FALSE))
            /\ UNCHANGED <<kind, shown, top>>
  BY DEF Timer
<1> DEFINE c == calls[i]
           d == [c EXCEPT !.timer = FALSE]
           f == [d EXCEPT !.listens = FALSE]
           rang == [Now EXCEPT !.calls[i].timer = FALSE]
           quiet == [rang EXCEPT !.calls[i].listens = FALSE]
<1>3. c \in Call /\ c.timer /\ ~c.frame
  <2>1. c \in Call /\ c.timer
    BY <1>1, <1>2
  <2> QED
    BY <1>1, <2>1 DEF Fits, Sound, Calls
<1>4. /\ d \in Call /\ d.way = c.way /\ d.el = c.el /\ d.called = c.called /\ d.cancelled = c.cancelled
      /\ d.early = c.early /\ d.listens = c.listens /\ d.frame = c.frame
  BY <1>3 DEF Call
<1>5. /\ f \in Call /\ f.way = d.way /\ f.el = d.el /\ f.called = d.called /\ f.cancelled = d.cancelled
      /\ f.early = d.early /\ f.frame = d.frame /\ ~f.listens /\ f.timer = d.timer
  BY <1>4 DEF Call
<1>6. rang = Written(Now, i, d)
  BY <1>1 DEF Written, State
<1> HIDE DEF rang, d
<1>7. /\ Fits(rang, shown, top) /\ Len(rang.calls) = Len(calls)
      /\ i \in DOMAIN rang.calls /\ rang.calls[i] = d
  <2>1. Rewrites(Now.calls[i], d)
    BY <1>1, <1>3, <1>4 DEF Rewrites
  <2>2. AfterWrite(Now, i, d, shown, top, Written(Now, i, d))
    BY <1>1, <1>4, <2>1, WriteFits
  <2> QED
    BY <1>1, <1>6, <2>2 DEF AfterWrite
<1>8. quiet = Written(rang, i, f)
  BY <1>7 DEF Written, Fits, Sound, State
<1> HIDE DEF quiet, f
<1>9. Fits(Callback(quiet, i, FALSE), shown, top) /\ Len(Callback(quiet, i, FALSE).calls) = Len(rang.calls)
  <2>1. Rewrites(rang.calls[i], f)
    BY <1>3, <1>4, <1>5, <1>7 DEF Rewrites
  <2>2. ~f.frame
    BY <1>3, <1>4, <1>5
  <2>3. AfterWrite(rang, i, f, shown, top, Written(rang, i, f))
    BY <1>1, <1>5, <1>7, <2>1, WriteFits
  <2> QED
    BY <1>8, <2>2, <2>3 DEF AfterWrite
<1>10. PICK t \in {rang, Callback(quiet, i, FALSE)} : Become(t)
  BY <1>2 DEF rang, quiet
<1>11. Fits(t, shown, top) /\ Len(t.calls) = Len(calls) /\ t \in State
  BY <1>7, <1>9, <1>10 DEF Fits, Sound
<1>12. Now' = t /\ calls' = t.calls
  BY <1>10, <1>11, BecomeIs
<1> QED
  BY <1>2, <1>11, <1>12

\* A hook of the page calls done.
LEMMA DoneFits ==
    ASSUME Mounted, Done
    PROVE  kind' = kind /\ shown' = shown /\ top' = top /\ Len(calls') = Len(calls) /\ Fits(Now', shown, top)
<1>1. /\ Fits(Now, shown, top) /\ Now \in State /\ kind \in Kinds /\ shown \in BOOLEAN
      /\ calls \in Seq(Call) /\ Now.calls = calls
  BY MountedIs
<1>2. PICK i \in DOMAIN calls :
        Become(Callback([Now EXCEPT !.calls[i].early = @ \/ (calls[i].frame /\ ~calls[i].called)], i, FALSE))
  BY DEF Done
<1> DEFINE c == calls[i]
           d == [c EXCEPT !.early = c.early \/ (c.frame /\ ~c.called)]
           told == [Now EXCEPT !.calls[i].early = @ \/ (calls[i].frame /\ ~calls[i].called)]
<1>3. c \in Call /\ (c.timer \/ c.listens => ~c.frame)
  <2>1. c \in Call
    BY <1>1
  <2> QED
    BY <1>1, <2>1 DEF Fits, Sound, Calls
<1>4. /\ d \in Call /\ d.way = c.way /\ d.el = c.el /\ d.called = c.called /\ d.cancelled = c.cancelled
      /\ d.frame = c.frame /\ d.listens = c.listens /\ d.timer = c.timer
  BY <1>3 DEF Call
<1>5. d.early = (c.early \/ (c.frame /\ ~c.called))
  BY <1>3 DEF Call
<1>6. told = Written(Now, i, d)
  BY <1>1 DEF Written, State
<1> HIDE DEF told, d
<1>7. Fits(Callback(told, i, FALSE), shown, top) /\ Len(Callback(told, i, FALSE).calls) = Len(calls)
  <2>1. Rewrites(Now.calls[i], d)
    BY <1>1, <1>3, <1>4, <1>5 DEF Rewrites
  <2>2. d.called \/ ~d.frame \/ d.early
    BY <1>4, <1>5
  <2>3. AfterWrite(Now, i, d, shown, top, Written(Now, i, d))
    BY <1>1, <1>4, <2>1, WriteFits
  <2> QED
    BY <1>1, <1>6, <2>2, <2>3 DEF AfterWrite
<1>8. Become(Callback(told, i, FALSE))
  BY <1>2 DEF told
<1>9. Callback(told, i, FALSE) \in State
  BY <1>7 DEF Fits, Sound
<1>10. UNCHANGED <<kind, shown, top>>
  BY DEF Done
<1> QED
  BY <1>7, <1>8, <1>9, <1>10, BecomeIs

\* A listener hears an event of e.
LEMMA HearsFits ==
    ASSUME kind \in Kinds, NEW s, NEW sh \in BOOLEAN, NEW tp, Fits(s, sh, tp), NEW i \in DOMAIN s.calls, NEW e
    PROVE  Fits(HearsEnd(s, i, e), sh, tp) /\ Len(HearsEnd(s, i, e).calls) = Len(s.calls)
<1> DEFINE c == s.calls[i]
           d == [c EXCEPT !.ended = @ + 1]
           f == [d EXCEPT !.listens = FALSE]
           counted == [s EXCEPT !.calls[i].ended = @ + 1]
           quiet == [s EXCEPT !.calls[i].ended = @ + 1, !.calls[i].listens = FALSE]
<1>1. CASE ~ (c.el = e /\ c.listens)
  <2>1. HearsEnd(s, i, e) = s
    BY <1>1 DEF HearsEnd
  <2> QED
    BY <2>1
<1>2. CASE c.el = e /\ c.listens
  <2>1. s \in State /\ c \in Call
    BY DEF Fits, Sound, State
  <2>2. ~c.frame
    BY <1>2 DEF Fits, Sound, Calls
  <2>3. /\ d \in Call /\ d.way = c.way /\ d.el = c.el /\ d.called = c.called /\ d.cancelled = c.cancelled
        /\ d.early = c.early /\ d.frame = c.frame
    BY <2>1, <2>2 DEF Call
  <2>4. /\ f \in Call /\ f.way = c.way /\ f.el = c.el /\ f.called = c.called /\ f.cancelled = c.cancelled
        /\ f.early = c.early /\ f.frame = c.frame
    BY <2>3 DEF Call
  <2>5. counted = Written(s, i, d)
    BY <2>1 DEF Written, State
  <2>6. quiet = Written(s, i, f)
    BY <2>1 DEF Written, State
  <2> HIDE DEF counted, quiet, d, f
  <2>7. Fits(counted, sh, tp) /\ Len(counted.calls) = Len(s.calls)
    <3>1. Rewrites(s.calls[i], d)
      BY <2>2, <2>3 DEF Rewrites
    <3>2. AfterWrite(s, i, d, sh, tp, Written(s, i, d))
      BY <2>3, <3>1, WriteFits
    <3> QED
      BY <2>5, <3>2 DEF AfterWrite
  <2>8. Fits(Callback(quiet, i, FALSE), sh, tp) /\ Len(Callback(quiet, i, FALSE).calls) = Len(s.calls)
    <3>1. Rewrites(s.calls[i], f) /\ ~f.frame
      BY <2>2, <2>4 DEF Rewrites
    <3>2. AfterWrite(s, i, f, sh, tp, Written(s, i, f))
      BY <2>4, <3>1, WriteFits
    <3> QED
      BY <2>6, <3>1, <3>2 DEF AfterWrite
  <2>9. HearsEnd(s, i, e) \in {counted, Callback(quiet, i, FALSE)}
    BY <1>2 DEF HearsEnd, counted, quiet
  <2> QED
    BY <2>7, <2>8, <2>9
<1> QED
  BY <1>1, <1>2

\* A set of numbers that is not empty has a smallest one.
LEMMA HasLeast ==
    ASSUME NEW S, S \subseteq Nat, S # {}
    PROVE  \E x \in S : \A y \in S : x =< y
<1> DEFINE R == OpToRel(<, Nat)
<1>1. IsWellFoundedOn(R, Nat)
  BY NatLessThanWellFounded
<1>2. \A x, y \in Nat : x < y => <<x, y>> \in R
  BY DEF OpToRel
<1> HIDE DEF R
<1>3. PICK x \in S : \A y \in S : ~ (<<y, x>> \in R)
  BY <1>1, WFMin
<1>4. \A y \in S : x =< y
  <2> TAKE y \in S
  <2>1. x \in Nat /\ y \in Nat /\ ~ (y < x)
    BY <1>2, <1>3
  <2> QED
    BY <2>1
<1> QED
  BY <1>3, <1>4

\* f[n] is the state after the first n calls heard the event.
HeardBy(f, m, s, e) == f = [n \in 0 .. m |-> IF n = 0 THEN s ELSE HearsEnd(f[n - 1], n, e)]

\* There is such a function for any number of calls.
LEMMA HeardExists ==
    ASSUME NEW m \in Nat, NEW s, NEW e
    PROVE  \E f : HeardBy(f, m, s, e)
<1> DEFINE S == {k \in Nat : ~ \E f : HeardBy(f, k, s, e)}
<1> SUFFICES ASSUME S # {}
             PROVE  FALSE
  OBVIOUS
<1>1. PICK k \in S : \A j \in S : k =< j
  <2>1. S \subseteq Nat
    OBVIOUS
  <2> HIDE DEF S
  <2> QED
    BY <2>1, HasLeast
<1>2. k # 0
  <2>1. HeardBy([n \in 0 .. 0 |-> s], 0, s, e)
    BY DEF HeardBy
  <2> QED
    BY <1>1, <2>1
<1>3. k \in Nat /\ k - 1 \in Nat
  BY <1>1, <1>2
<1>4. PICK g : HeardBy(g, k - 1, s, e)
  BY <1>1, <1>3
<1> DEFINE f == [n \in 0 .. k |-> IF n = k THEN HearsEnd(g[k - 1], k, e) ELSE g[n]]
<1>5. \A n \in 0 .. k : f[n] = IF n = 0 THEN s ELSE HearsEnd(f[n - 1], n, e)
  <2> TAKE n \in 0 .. k
  <2>1. CASE n = 0
    <3>1. f[n] = g[0] /\ 0 \in 0 .. k - 1
      BY <1>2, <1>3, <2>1
    <3> QED
      BY <1>4, <2>1, <3>1 DEF HeardBy
  <2>2. CASE n = k
    <3>1. f[n] = HearsEnd(g[k - 1], k, e) /\ f[n - 1] = g[k - 1]
      BY <1>2, <1>3, <2>2
    <3> QED
      BY <1>2, <2>2, <3>1
  <2>3. CASE n # 0 /\ n # k
    <3>1. f[n] = g[n] /\ f[n - 1] = g[n - 1] /\ n \in 0 .. k - 1
      BY <1>3, <2>3
    <3>2. g[n] = HearsEnd(g[n - 1], n, e)
      BY <1>4, <2>3, <3>1 DEF HeardBy
    <3> QED
      BY <2>3, <3>1, <3>2
  <2> QED
    BY <2>1, <2>2, <2>3
<1>6. f = [n \in 0 .. k |-> f[n]]
  OBVIOUS
<1> HIDE DEF f
<1>7. HeardBy(f, k, s, e)
  BY <1>5, <1>6 DEF HeardBy
<1> QED
  BY <1>1, <1>7

\* Whatever calls heard it, the state fits.
LEMMA HeardFits ==
    ASSUME kind \in Kinds, NEW s, NEW sh \in BOOLEAN, NEW tp, Fits(s, sh, tp), NEW e,
           NEW f, HeardBy(f, Len(s.calls), s, e)
    PROVE  Fits(f[Len(s.calls)], sh, tp) /\ Len(f[Len(s.calls)].calls) = Len(s.calls)
<1> DEFINE m == Len(s.calls)
           P(k) == Fits(f[k], sh, tp) /\ Len(f[k].calls) = m
           S == {k \in 0 .. m : ~P(k)}
<1>1. m \in Nat
  BY DEF Fits, Sound, State
<1>2. f[0] = s /\ \A k \in 1 .. m : f[k] = HearsEnd(f[k - 1], k, e)
  BY <1>1 DEF HeardBy
<1> HIDE DEF m
<1>3. S = {}
  <2> SUFFICES ASSUME S # {}
               PROVE  FALSE
    OBVIOUS
  <2>1. PICK k \in S : \A j \in S : k =< j
    <3>1. S \subseteq Nat
      OBVIOUS
    <3> HIDE DEF S
    <3> QED
      BY <3>1, HasLeast
  <2>2. k \in 0 .. m /\ ~P(k)
    BY <2>1
  <2>3. P(0)
    BY <1>2 DEF m
  <2>4. k # 0
    BY <2>2, <2>3
  <2>5. k \in 1 .. m /\ k - 1 \in 0 .. m /\ k - 1 < k
    BY <1>1, <2>2, <2>4
  <2>6. P(k - 1)
    <3>1. k - 1 \notin S
      BY <1>1, <2>1, <2>5
    <3> QED
      BY <2>5, <3>1
  <2>7. k \in DOMAIN f[k - 1].calls
    <3>1. f[k - 1].calls \in Seq(Call)
      BY <2>6 DEF Fits, Sound, State
    <3> QED
      BY <2>5, <2>6, <3>1
  <2>8. Fits(HearsEnd(f[k - 1], k, e), sh, tp) /\ Len(HearsEnd(f[k - 1], k, e).calls) = m
    BY <2>6, <2>7, HearsFits
  <2> QED
    BY <1>2, <2>2, <2>5, <2>8
<1>4. P(m)
  <2>1. m \in 0 .. m
    BY <1>1
  <2> QED
    BY <1>3, <2>1
<1> QED
  BY <1>4 DEF m

LEMMA TransitionEndFits ==
    ASSUME Mounted, TransitionEnd
    PROVE  kind' = kind /\ shown' = shown /\ top' = top /\ Len(calls') = Len(calls) /\ Fits(Now', shown, top)
<1>1. Fits(Now, shown, top) /\ kind \in Kinds /\ shown \in BOOLEAN /\ calls \in Seq(Call) /\ Now.calls = calls
  BY MountedIs
<1>2. PICK e \in inner : Become(AllHear(e))
  BY DEF TransitionEnd
<1>3. PICK f : HeardBy(f, Len(calls), Now, e) /\ AllHear(e) = f[Len(calls)]
  <2> DEFINE g == CHOOSE f : HeardBy(f, Len(calls), Now, e)
  <2>1. HeardBy(g, Len(calls), Now, e)
    <3>1. \E f : HeardBy(f, Len(calls), Now, e)
      BY <1>1, HeardExists
    <3> QED
      BY <3>1
  <2>2. AllHear(e) = g[Len(calls)]
    BY DEF AllHear, HeardBy
  <2> HIDE DEF g
  <2> QED
    BY <2>1, <2>2
<1>4. Fits(AllHear(e), shown, top) /\ Len(AllHear(e).calls) = Len(calls)
  <2>1. HeardBy(f, Len(Now.calls), Now, e)
    BY <1>1, <1>3
  <2>2. Fits(f[Len(Now.calls)], shown, top) /\ Len(f[Len(Now.calls)].calls) = Len(Now.calls)
    BY <1>1, <2>1, HeardFits
  <2> QED
    BY <1>1, <1>3, <2>2
<1>5. AllHear(e) \in State
  BY <1>4 DEF Fits, Sound
<1>6. UNCHANGED <<kind, shown, top>>
  BY DEF TransitionEnd
<1> QED
  BY <1>2, <1>4, <1>5, <1>6, BecomeIs

\* The condition changes.
AfterToggle ==
    /\ kind' = kind /\ shown' = ~shown /\ top' \in {top, top + 1} /\ Len(calls) < MaxToggles
    /\ Len(calls') = Len(calls) + 1 /\ Fits(Now', ~shown, top')

LEMMA ToggleShowFits ==
    ASSUME Mounted, ToggleShow
    PROVE  AfterToggle
<1>1. Fits(Now, shown, top) /\ kind \in Kinds /\ shown \in BOOLEAN /\ Now.calls = calls
  BY MountedIs
<1>2. /\ kind.show /\ Len(calls) < MaxToggles
      /\ kind' = kind /\ top' = top /\ shown' = ~shown
      /\ Become(IF shown THEN Leave(Now, 1) ELSE Enter(Now, 1))
  BY DEF ToggleShow, Toggles
<1>3. top = 1
  BY <1>1, <1>2 DEF Fits, Sound
<1>4. CASE shown = TRUE
  <2>1. Fits(Now, TRUE, 1)
    BY <1>1, <1>3, <1>4
  <2>2. Fits(Leave(Now, 1), FALSE, 1) /\ Len(Leave(Now, 1).calls) = Len(Now.calls) + 1
    BY <1>1, <2>1, LeaveFits
  <2>3. Leave(Now, 1) \in State /\ Become(Leave(Now, 1))
    BY <1>2, <1>4, <2>2 DEF Fits, Sound
  <2>4. Now' = Leave(Now, 1) /\ calls' = Leave(Now, 1).calls
    BY <2>3, BecomeIs
  <2>5. ~shown = FALSE
    BY <1>4
  <2> QED
    BY <1>1, <1>2, <1>3, <2>2, <2>4, <2>5 DEF AfterToggle
<1>5. CASE shown = FALSE
  <2>1. Fits(Now, FALSE, 1)
    BY <1>1, <1>3, <1>5
  <2>2. Fits(Enter(Now, 1), TRUE, 1) /\ Len(Enter(Now, 1).calls) = Len(Now.calls) + 1
    BY <1>1, <1>2, <2>1, EnterShowFits
  <2>3. Enter(Now, 1) \in State /\ Become(Enter(Now, 1))
    BY <1>2, <1>5, <2>2 DEF Fits, Sound
  <2>4. Now' = Enter(Now, 1) /\ calls' = Enter(Now, 1).calls
    BY <2>3, BecomeIs
  <2>5. ~shown = TRUE
    BY <1>5
  <2> QED
    BY <1>1, <1>2, <1>3, <2>2, <2>4, <2>5 DEF AfterToggle
<1> QED
  BY <1>1, <1>4, <1>5

LEMMA ToggleIfFits ==
    ASSUME Mounted, ToggleIf
    PROVE  AfterToggle
<1> DEFINE into == [Now EXCEPT !.inner = @ \union {top + 1}, !.displayed = @ \union {top + 1}]
<1>1. Fits(Now, shown, top) /\ kind \in Kinds /\ shown \in BOOLEAN /\ Now.calls = calls /\ calls \in Seq(Call)
  BY MountedIs
<1>2. /\ ~kind.show /\ Len(calls) < MaxToggles /\ kind' = kind /\ shown' = ~shown
      /\ IF shown THEN Become(Leave(Now, top)) /\ UNCHANGED top
                  ELSE top' = top + 1 /\ Become(Enter(into, top + 1))
  BY DEF ToggleIf, Toggles
<1> HIDE DEF into
<1>3. top \in Nat /\ top + 1 \in Element
  <2>1. top \in 0 .. Len(calls) + 1 /\ Len(calls) \in Nat
    BY <1>1 DEF Mounted
  <2>2. CASE top <= Len(calls)
    BY <1>2, <2>1, <2>2, CountsAssumption DEF Element
  <2>3. CASE top = Len(calls) + 1
    BY <1>2, <2>1, <2>3, CountsAssumption DEF Element
  <2> QED
    BY <2>1, <2>2, <2>3
<1>4. CASE shown = TRUE
  <2>1. Fits(Now, TRUE, top)
    BY <1>1, <1>4
  <2>2. Fits(Leave(Now, top), FALSE, top) /\ Len(Leave(Now, top).calls) = Len(Now.calls) + 1
    BY <1>1, <1>3, <2>1, LeaveFits
  <2>3. Leave(Now, top) \in State /\ Become(Leave(Now, top)) /\ top' = top
    BY <1>2, <1>4, <2>2 DEF Fits, Sound
  <2>4. Now' = Leave(Now, top) /\ calls' = Leave(Now, top).calls
    BY <2>3, BecomeIs
  <2>5. ~shown = FALSE
    BY <1>4
  <2> QED
    BY <1>1, <1>2, <2>2, <2>3, <2>4, <2>5 DEF AfterToggle
<1>5. CASE shown = FALSE
  <2>1. Fits(Now, FALSE, top)
    BY <1>1, <1>5
  <2>2. Fits(Enter(into, top + 1), TRUE, top + 1) /\ Len(Enter(into, top + 1).calls) = Len(Now.calls) + 1
    BY <1>1, <1>2, <1>3, <2>1, EnterIfFits DEF into
  <2>3. Enter(into, top + 1) \in State /\ Become(Enter(into, top + 1)) /\ top' = top + 1
    BY <1>2, <1>5, <2>2 DEF Fits, Sound
  <2>4. Now' = Enter(into, top + 1) /\ calls' = Enter(into, top + 1).calls
    BY <2>3, BecomeIs
  <2>5. ~shown = TRUE
    BY <1>5
  <2> QED
    BY <1>1, <1>2, <2>2, <2>3, <2>4, <2>5 DEF AfterToggle
<1> QED
  BY <1>1, <1>4, <1>5

\* The first render.
LEMMA MountFits ==
    ASSUME Unmounted, Mount
    PROVE  Mounted' /\ kind' \in Kinds
<1>1. PICK k \in Kinds, b \in BOOLEAN :
        /\ kind' = k /\ shown' = b
        /\ top' = IF k.show \/ b THEN 1 ELSE 0
        /\ inner' = IF k.show \/ b THEN {1} ELSE {}
        /\ displayed' = IF b THEN {1} ELSE {}
        /\ classes' = [e \in 1 .. MaxToggles + 1 |-> {}]
  BY DEF Mount
<1>2. leaving' = Undef /\ calls' = <<>> /\ k.show \in BOOLEAN
  BY KindsAssumption DEF Mount, Unmounted, TransInit
<1>3. /\ Now'.inner = inner' /\ Now'.displayed = displayed' /\ Now'.classes = classes'
      /\ Now'.leaving = Undef /\ Now'.calls = <<>>
  BY <1>2 DEF Now
<1>4. Now' \in State
  <2>1. inner' \in SUBSET Element /\ displayed' \in SUBSET Element
    BY <1>1, CountsAssumption DEF Element
  <2>2. classes' \in [Element -> SUBSET Class]
    BY <1>1 DEF Element
  <2>3. calls' \in Seq(Call) /\ leaving' \in Nat \union {Undef}
    BY <1>2
  <2> QED
    BY <2>1, <2>2, <2>3 DEF State, Now
<1>5. DOMAIN Now'.calls = {} /\ OpenIn(Now)' = {}
  BY <1>3 DEF OpenIn
<1>6. Calls(Now, top)' /\ Classes(Now)'
  <2>1. \A e \in Element : Now'.classes[e] = {}
    BY <1>1, <1>3 DEF Element
  <2> QED
    BY <1>5, <2>1 DEF Calls, Classes
<1>7. kind'.show => Now'.inner = {1} /\ top' = 1
  BY <1>1, <1>3
<1>8. Sound(Now, top)'
  BY <1>3, <1>4, <1>6, <1>7 DEF Sound
<1>9. kind'.show => (1 \in Now'.displayed <=> shown')
  BY <1>1, <1>3
<1>10. ~kind'.show => Now'.inner = (IF shown' THEN {top'} ELSE {}) /\ Now'.inner \subseteq Now'.displayed
  BY <1>1, <1>3
<1>11. Shows(Now, shown, top)'
  BY <1>5, <1>9, <1>10 DEF Shows
<1>12. top' \in 0 .. Len(calls') + 1 /\ Len(calls') <= MaxToggles
  BY <1>1, <1>2, CountsAssumption
<1> QED
  BY <1>1, <1>8, <1>11, <1>12 DEF Mounted, Fits

-----------------------------------------------------------------------------

LEMMA TransStart ==
    ASSUME TransInit
    PROVE  TransInv
BY DEF TransInit, TransInv, Unmounted

LEMMA TransStep ==
    ASSUME TransInv, [TransNext]_transVars
    PROVE  TransInv'
<1>1. CASE UNCHANGED transVars
  BY <1>1 DEF transVars, TransInv, Unmounted, TransInit, Mounted, Fits, Sound, Shows, Now, OpenIn, Calls,
              Classes, Accounts
<1>2. CASE kind = Undef /\ TransNext
  <2>1. Unmounted /\ calls = <<>>
    BY <1>2 DEF TransInv, Unmounted, TransInit
  <2>2. Mount
    BY <1>2, <2>1 DEF TransNext, ToggleShow, ToggleIf, Frame, Timer, TransitionEnd, Done
  <2>3. Mounted' /\ kind' # Undef
    BY <2>1, <2>2, MountFits, KindsAssumption
  <2> QED
    BY <2>3 DEF TransInv
<1>3. CASE kind # Undef /\ TransNext
  <2>1. Mounted
    BY <1>3 DEF TransInv
  <2>2. CASE ToggleShow \/ ToggleIf
    <3>1. AfterToggle
      BY <2>1, <2>2, ToggleShowFits, ToggleIfFits
    <3>2. Fits(Now, shown, top)'
      BY <3>1 DEF AfterToggle, Fits, Sound, Shows, OpenIn, Calls, Classes, Accounts
    <3>3. top' \in 0 .. Len(calls') + 1 /\ Len(calls') <= MaxToggles
      <4>1. top \in 0 .. Len(calls) + 1 /\ Len(calls) \in Nat
        BY <2>1, MountedIs DEF Mounted
      <4> QED
        BY <3>1, <4>1, CountsAssumption DEF AfterToggle
    <3> QED
      BY <1>3, <2>1, <3>1, <3>2, <3>3 DEF AfterToggle, TransInv, Mounted
  <2>3. CASE Frame \/ Timer \/ TransitionEnd \/ Done
    <3>1. kind' = kind /\ shown' = shown /\ top' = top /\ Len(calls') = Len(calls) /\ Fits(Now', shown, top)
      BY <2>1, <2>3, FrameFits, TimerFits, TransitionEndFits, DoneFits
    <3>2. Fits(Now, shown, top)'
      BY <3>1 DEF Fits, Sound, Shows, OpenIn, Calls, Classes, Accounts
    <3> QED
      BY <1>3, <2>1, <3>1, <3>2 DEF TransInv, Mounted
  <2> QED
    BY <1>3, <2>2, <2>3 DEF TransNext, Mount
<1> QED
  BY <1>1, <1>2, <1>3

LEMMA TransAlways == TransSpec => []TransInv
<1>1. TransInit => TransInv
  BY TransStart
<1>2. TransInv /\ [TransNext]_transVars => TransInv'
  BY TransStep
<1> QED
  BY <1>1, <1>2, PTL DEF TransSpec

LEMMA OneAtMost ==
    ASSUME NEW S, \A i, j \in S : i = j
    PROVE  Cardinality(S) <= 1
<1>1. CASE S = {}
  BY <1>1, FS_EmptySet
<1>2. CASE S # {}
  <2>1. PICK x \in S : TRUE
    BY <1>2
  <2>2. S = {x}
    BY <2>1
  <2> QED
    BY <2>2, FS_Singleton
<1> QED
  BY <1>1, <1>2

LEMMA TakeTurns ==
    ASSUME TransInv
    PROVE  OneTransitionAtATime
<1> DEFINE open == {i \in DOMAIN calls : ~calls[i].called}
           left == {i \in open : calls[i].way = "leave"}
<1>1. CASE kind = Undef
  <2>1. calls = <<>> /\ inner = {}
    BY <1>1 DEF TransInv, Unmounted, TransInit
  <2>2. open = {} /\ left = {}
    BY <2>1
  <2> QED
    BY <2>1, <2>2, FS_EmptySet DEF OneTransitionAtATime
<1>2. CASE kind # Undef
  <2>1. Mounted
    BY <1>2 DEF TransInv
  <2>2. Fits(Now, shown, top) /\ Now.calls = calls /\ Now.inner = inner
    BY <2>1, MountedIs
  <2>3. open = OpenIn(Now)
    BY <2>2 DEF OpenIn
  <2>4. /\ \A i, j \in open : i = j
        /\ \A i \in open : calls[i].el = top /\ (calls[i].way = "enter") = shown
    BY <2>2, <2>3 DEF Fits, Shows
  <2>5. \A i, j \in inner : i = j
    BY <2>2 DEF Fits, Sound, Shows
  <2>6. \A i, j \in left : i = j
    BY <2>4
  <2>7. Cardinality(inner) <= 1 /\ Cardinality(left) <= 1
    <3> HIDE DEF left
    <3> QED
      BY <2>5, <2>6, OneAtMost
  <2> QED
    BY <2>4, <2>7 DEF OneTransitionAtATime
<1> QED
  BY <1>1, <1>2

LEMMA Rest ==
    ASSUME TransInv
    PROVE  RestsAsShown
<1> SUFFICES ASSUME kind # Undef,
                    \A i \in DOMAIN calls : calls[i].called /\ ~calls[i].frame /\ ~calls[i].timer
             PROVE  /\ inner = (IF kind.show THEN {1} ELSE IF shown THEN {top} ELSE {})
                    /\ shown <=> inner \intersect displayed # {}
                    /\ \A e \in inner : \/ classes[e] = {}
                                       \/ \E i \in DOMAIN calls : calls[i].early /\ calls[i].el = e
  BY DEF RestsAsShown
<1>1. /\ Fits(Now, shown, top) /\ Now \in State /\ kind \in Kinds /\ shown \in BOOLEAN
      /\ Now.calls = calls /\ Now.classes = classes /\ Now.inner = inner /\ Now.displayed = displayed
  BY MountedIs DEF TransInv
<1>2. OpenIn(Now) = {}
  BY <1>1 DEF OpenIn
<1>3. inner = (IF kind.show THEN {1} ELSE IF shown THEN {top} ELSE {})
  BY <1>1, <1>2 DEF Fits, Sound, Shows
<1>4. shown <=> inner \intersect displayed # {}
  <2>1. CASE kind.show
    <3>1. inner = {1} /\ (1 \in displayed <=> shown)
      BY <1>1, <1>2, <2>1 DEF Fits, Sound, Shows
    <3> QED
      BY <3>1
  <2>2. CASE ~kind.show
    <3>1. inner = (IF shown THEN {top} ELSE {}) /\ inner \subseteq displayed
      BY <1>1, <1>2, <2>2 DEF Fits, Shows
    <3> QED
      BY <1>1, <3>1
  <2> QED
    BY <2>1, <2>2
<1>5. ASSUME NEW e \in inner, NEW k \in classes[e]
      PROVE  \E i \in DOMAIN calls : calls[i].early /\ calls[i].el = e
  <2>1. e \in Element /\ k \in Class
    BY <1>1, <1>5 DEF State
  <2>2. PICK i \in DOMAIN calls : Accounts(k, i, e, Now)
    BY <1>1, <1>5, <2>1 DEF Fits, Sound, Classes
  <2>3. k[2] \in {"active", "start", "to"}
    BY <2>1 DEF Class
  <2> QED
    BY <1>1, <1>5, <2>2, <2>3 DEF Accounts
<1> QED
  BY <1>3, <1>4, <1>5

\* Transitions take turns: however often the condition changes while frames,
\* timers, events and done callbacks of earlier transitions are still to come, at
\* most one transition of an element runs, it goes where the condition says, and
\* never are there two elements of one key in the parent (enter, leave, and their
\* callbacks _enterCb, _leaveCb and _pending).
THEOREM TransitionsTakeTurns == TransSpec => []OneTransitionAtATime
<1>1. TransInv => OneTransitionAtATime
  BY TakeTurns
<1> QED
  BY <1>1, TransAlways, PTL

\* When nothing is to come any more, the parent holds what the condition shows,
\* displayed, and without a class of a transition, but after an early done.
THEOREM TransitionsLeaveWhatIsShown == TransSpec => []RestsAsShown
<1>1. TransInv => RestsAsShown
  BY Rest
<1> QED
  BY <1>1, TransAlways, PTL

=============================================================================
