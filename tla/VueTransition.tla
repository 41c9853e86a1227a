--------------------------- MODULE VueTransition ---------------------------
(***************************************************************************)
(* static/js/common/vue.js, the module "transition": an element comes and     *)
(* goes by v-if, or is shown and hidden by v-show, while the transitions of    *)
(* earlier turns still run.  Frames, timers, events of the document and the    *)
(* done callbacks of the page's hooks come in between.  Modes, appear, and      *)
(* what the page's hooks do but for done are left out.                          *)
(***************************************************************************)
EXTENDS Integers, FiniteSets, SequencesExt

CONSTANTS
    Undef,
    Kinds,            \* the transitions that may be declared: [show: v-show, otherwise v-if;
                      \* css: with classes; user: the hooks take done; ends: how it ends
                      \* by itself: "duration", "events" or "at once"]
    PropCount,        \* how many properties have a transition
    MaxToggles        \* bound: how often the condition changes

ASSUME KindsAssumption ==
    /\ Kinds \subseteq [show : BOOLEAN, css : BOOLEAN, user : BOOLEAN,
                        ends : {"duration", "events", "at once"}]
    /\ Undef \notin Kinds /\ Undef \notin Nat

ASSUME CountsAssumption == PropCount \in Nat /\ MaxToggles \in Nat

VARIABLES
    kind,             \* of Kinds, Undef before the first render
    shown,            \* the condition of the directive
    inner,            \* the elements in the parent; the last one rendered is top
    top,
    displayed,        \* the elements whose style lets them show
    classes,          \* classes[e]: the transition classes of element e
    leaving,          \* parent._pending: the call to leave of the element recorded, or Undef
    calls             \* the calls to enter and leave, in order, see Began

transVars == <<kind, shown, inner, top, displayed, classes, leaving, calls>>

\* A call to enter or leave that went on: its frame, timer and listener are still
\* to come, called says that its callback ran (_enterCb or _leaveCb is null again).
Began(way, e) ==
    [way |-> way, el |-> e, frame |-> kind.css, timer |-> FALSE, listens |-> FALSE, ended |-> 0,
     called |-> FALSE, cancelled |-> FALSE, early |-> FALSE]

\* The part of the state that the functions below change.
Now == [inner |-> inner, displayed |-> displayed, classes |-> classes, leaving |-> leaving, calls |-> calls]

Become(s) ==
    /\ inner' = s.inner /\ displayed' = s.displayed /\ classes' = s.classes
    /\ leaving' = s.leaving /\ calls' = s.calls

\* el._enterCb and el._leaveCb.
Open(s, e, way) == {i \in DOMAIN s.calls : s.calls[i].el = e /\ s.calls[i].way = way /\ ~s.calls[i].called}

\* What rm does for an element that leaves: it goes, or is no longer displayed.
Rm(s, e) ==
    IF kind.show THEN [s EXCEPT !.displayed = @ \ {e}] ELSE [s EXCEPT !.inner = @ \ {e}]

\* The callbacks _enterCb and _leaveCb, which do something once.
Callback(s, i, cancelled) ==
    LET c == s.calls[i]
        gone == {<<c.way, "to">>, <<c.way, "active">>} \union (IF cancelled THEN {<<c.way, "start">>} ELSE {})
        over == [s EXCEPT !.calls[i].called = TRUE, !.calls[i].cancelled = cancelled,
                          !.classes[c.el] = @ \ gone]
        freed == IF c.way = "leave" /\ c.el \in s.inner THEN [over EXCEPT !.leaving = Undef] ELSE over
    IN  IF c.called THEN s
        ELSE IF c.way = "leave" /\ ~cancelled THEN Rm(freed, c.el) ELSE freed

\* The callback of the opposite transition, which the field holds, is called now.
CancelOther(s, e, way) ==
    LET open == Open(s, e, way)
    IN  IF open = {} THEN s ELSE Callback(s, Max(open), TRUE)

\* What enter and leave have in common once they went on: classes, and the frame.
Starts(s, way, e) ==
    [s EXCEPT !.calls = Append(@, Began(way, e)),
              !.classes[e] = IF kind.css THEN @ \union {<<way, "start">>, <<way, "active">>} ELSE @]

\* Without classes and without done there is nothing to wait for.
EndsAtOnce(s) == IF ~kind.css /\ ~kind.user THEN Callback(s, Len(s.calls), FALSE) ELSE s

\* Faulty: an element of the same key that leaves is left where it is.
LeaveBe(s) == s

\* The insert hook: the element of the same key that leaves is removed now.
RemovePending(s) ==
    IF s.leaving # Undef /\ ~s.calls[s.leaving].called THEN Callback(s, s.leaving, FALSE) ELSE s

Enter(s, e) ==
    LET free == CancelOther(s, e, "leave")
        began == Starts(free, "enter", e)
    IN  IF Open(free, e, "enter") # {} THEN free
        ELSE IF kind.show THEN EndsAtOnce([began EXCEPT !.displayed = @ \union {e}])
        ELSE RemovePending(EndsAtOnce(began))

\* performLeave is part of it.
Leave(s, e) ==
    LET free == CancelOther(s, e, "enter")
        began == Starts(free, "leave", e)
    IN  IF Open(free, e, "leave") # {} THEN free
        ELSE EndsAtOnce(IF kind.show THEN began ELSE [began EXCEPT !.leaving = Len(began.calls)])

-----------------------------------------------------------------------------

TransInit ==
    /\ kind = Undef /\ shown = FALSE /\ inner = {} /\ top = 0 /\ displayed = {}
    /\ classes = <<>> /\ leaving = Undef /\ calls = <<>>

\* The first render, which has no transitions (isAppear).
Mount ==
    /\ kind = Undef
    /\ \E k \in Kinds, b \in BOOLEAN :
          /\ kind' = k /\ shown' = b
          /\ top' = IF k.show \/ b THEN 1 ELSE 0
          /\ inner' = IF k.show \/ b THEN {1} ELSE {}
          /\ displayed' = IF b THEN {1} ELSE {}
          /\ classes' = [e \in 1 .. MaxToggles + 1 |-> {}]
    /\ UNCHANGED <<leaving, calls>>

Toggles == Len(calls) < MaxToggles

\* v-show, its update hook.
ToggleShow ==
    /\ kind # Undef /\ kind.show /\ Toggles
    /\ shown' = ~shown
    /\ Become(IF shown THEN Leave(Now, 1) ELSE Enter(Now, 1))
    /\ UNCHANGED <<kind, top>>

\* v-if: the patch makes another element, or removes the one there is.
ToggleIf ==
    /\ kind # Undef /\ ~kind.show /\ Toggles
    /\ shown' = ~shown
    /\ IF shown
       THEN Become(Leave(Now, top)) /\ UNCHANGED top
       ELSE /\ top' = top + 1
            /\ Become(Enter([Now EXCEPT !.inner = @ \union {top + 1}, !.displayed = @ \union {top + 1}], top + 1))
    /\ UNCHANGED kind

\* Faulty: a cancelled transition goes on.
GoOn(s, i) == TRUE

GoesOn(s, i) == ~s.calls[i].cancelled

\* The function given to nextFrame; frames come in the order they were asked for.
Frame ==
    \E i \in DOMAIN calls :
        LET began == [Now EXCEPT !.calls[i].frame = FALSE, !.classes[calls[i].el] = @ \ {<<calls[i].way, "start">>}]
            to == [began EXCEPT !.classes[calls[i].el] = @ \union {<<calls[i].way, "to">>}]
        IN  /\ calls[i].frame /\ \A j \in 1 .. i - 1 : ~calls[j].frame
            /\ Become(IF ~GoesOn(Now, i) THEN began
                      ELSE IF kind.user THEN to
                      ELSE IF kind.ends = "at once" \/ (kind.ends = "events" /\ calls[i].el \notin inner)
                      THEN Callback(to, i, FALSE)
                      ELSE [to EXCEPT !.calls[i].timer = TRUE, !.calls[i].listens = kind.ends = "events"])
            /\ UNCHANGED <<kind, shown, top>>

\* The timer of the explicit duration, or of whenTransitionEnds, which has an
\* effect unless all the events came.
Timer ==
    \E i \in DOMAIN calls :
        LET rang == [Now EXCEPT !.calls[i].timer = FALSE]
        IN  /\ calls[i].timer
            /\ Become(IF calls[i].ended >= PropCount THEN rang
                      ELSE Callback([rang EXCEPT !.calls[i].listens = FALSE], i, FALSE))
            /\ UNCHANGED <<kind, shown, top>>

\* The listener of call i, when the event is e's.
HearsEnd(s, i, e) ==
    IF ~(s.calls[i].el = e /\ s.calls[i].listens) THEN s
    ELSE IF s.calls[i].ended + 1 < PropCount THEN [s EXCEPT !.calls[i].ended = @ + 1]
    ELSE Callback([s EXCEPT !.calls[i].ended = @ + 1, !.calls[i].listens = FALSE], i, FALSE)

\* Every listener of e counts an event, in order, those of earlier transitions too.
AllHear(e) ==
    LET after[n \in 0 .. Len(calls)] == IF n = 0 THEN Now ELSE HearsEnd(after[n - 1], n, e)
    IN  after[Len(calls)]

\* transitionend.
TransitionEnd ==
    \E e \in inner :
        /\ \E i \in DOMAIN calls : calls[i].el = e /\ calls[i].listens
        /\ Become(AllHear(e))
        /\ UNCHANGED <<kind, shown, top>>

\* A hook of the page calls done, at any time; early when the frame is still to
\* come.
Done ==
    /\ kind # Undef /\ kind.user
    /\ \E i \in DOMAIN calls :
           Become(Callback([Now EXCEPT !.calls[i].early = @ \/ (calls[i].frame /\ ~calls[i].called)], i, FALSE))
    /\ UNCHANGED <<kind, shown, top>>

TransNext == Mount \/ ToggleShow \/ ToggleIf \/ Frame \/ Timer \/ TransitionEnd \/ Done

TransSpec == TransInit /\ [][TransNext]_transVars

-----------------------------------------------------------------------------

\* When no frame, timer or done is to come, the parent holds the element that is
\* shown and no other, it is displayed if and only if that is the condition, and
\* no class of a transition is left on it, however often the condition changed
\* while transitions ran (enter, leave, their cancelled callbacks, _pending).
\* Excepted is a class put on after an early done.
RestsAsShown ==
    LET rests == kind # Undef /\ \A i \in DOMAIN calls : calls[i].called /\ ~calls[i].frame /\ ~calls[i].timer
    IN  rests => /\ inner = (IF kind.show THEN {1} ELSE IF shown THEN {top} ELSE {})
                 /\ shown <=> inner \intersect displayed # {}
                 /\ \A e \in inner : classes[e] = {} \/ \E i \in DOMAIN calls : calls[i].early /\ calls[i].el = e

\* Transitions of an element never overlap: one is told that it is over or
\* cancelled before the next begins; the one that runs goes where the condition
\* says; and of one key there is never more than one element in the parent, nor
\* one that leaves.
OneTransitionAtATime ==
    LET open == {i \in DOMAIN calls : ~calls[i].called}
    IN  /\ \A i, j \in open : calls[i].el = calls[j].el => i = j
        /\ \A i \in open : calls[i].el = top => (calls[i].way = "enter") = shown
        /\ Cardinality(inner) <= 1
        /\ Cardinality({i \in open : calls[i].way = "leave"}) <= 1

=============================================================================
