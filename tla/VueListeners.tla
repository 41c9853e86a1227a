--------------------------- MODULE VueListeners ---------------------------
(***************************************************************************)
(* static/js/common/vue.js, the module "events": the listeners that v-on puts *)
(* on elements, while an event climbs from an element to those around it and   *)
(* the page is rendered again in between, for browsers run microtasks after    *)
(* every listener.  Capture, passive listeners and the modifiers that change    *)
(* the event are left out.                                                     *)
(***************************************************************************)
EXTENDS Integers, FiniteSets, SequencesExt

CONSTANTS
    NoEvent,          \* model value
    Outermost,        \* elements are 1 .. Outermost, each in the next
    MaxRenders, MaxEvents, MaxTime     \* bounds

ASSUME OutermostAssumption == Outermost \in Nat \ {0}

VARIABLES
    on,               \* on[e]: the names of the handlers that the last render gave
    renders,          \* how often the page was rendered again
    listeners,        \* listeners[e]: in order, those attached, see Attached
    ran,              \* history: ran[e]: how often the handler with .once ran since
                      \* renders began to give it
    now,              \* the clock, coarse enough to stand still
    flushedAt,        \* currentFlushTimestamp
    pendingFlush,     \* a flush is to come
    event,            \* the one that climbs: see Fire
    events

listenVars == <<on, renders, listeners, ran, now, flushedAt, pendingFlush, event, events>>

Element == 1 .. Outermost
Name == {"click", "~click"}     \* the second has .once

\* The listener that render n attaches; its invoker calls the handler of render fn.
Attached(name, n) == [name |-> name, order |-> n, since |-> flushedAt', fn |-> n]

SameListener(a, b) == a.name = b.name /\ a.order = b.order

-----------------------------------------------------------------------------

ListenInit ==
    /\ on = [e \in Element |-> {}] /\ renders = 0 /\ listeners = [e \in Element |-> <<>>]
    /\ ran = [e \in Element |-> 0]
    /\ now = 1 /\ flushedAt = 0 /\ pendingFlush = FALSE /\ event = NoEvent /\ events = 0

\* A render gives a handler that is attached already another function; the
\* listener of .once does not take it.
NewFn(l, n) == IF l.name = "click" THEN [l EXCEPT !.fn = n] ELSE l

\* updateListeners, for the vnode of e.
UpdateListeners(e, names, n) ==
    LET had == listeners[e]
        kept[i \in 0 .. Len(had)] ==
            IF i = 0 THEN <<>>
            ELSE IF had[i].name \in names THEN Append(kept[i - 1], NewFn(had[i], n)) ELSE kept[i - 1]
        new == {Attached(name, n) : name \in names \ on[e]}
    IN  kept[Len(had)] \o SetToSeq(new)

\* flushSchedulerQueue, and the patch of every element.
Flush ==
    /\ pendingFlush /\ pendingFlush' = FALSE
    /\ flushedAt' = now
    /\ renders' = renders + 1
    /\ \E names \in [Element -> SUBSET Name] :
          /\ on' = names
          /\ listeners' = [e \in Element |-> UpdateListeners(e, names[e], renders')]
          /\ ran' = [e \in Element |-> IF "~click" \in names[e] \ on[e] THEN 0 ELSE ran[e]]
    /\ UNCHANGED <<now, event, events>>

\* A timer or an answer changes the data.
DataChanges ==
    /\ event = NoEvent /\ ~pendingFlush /\ renders < MaxRenders
    /\ pendingFlush' = TRUE
    /\ UNCHANGED <<on, renders, listeners, ran, now, flushedAt, event, events>>

Tick ==
    /\ now < MaxTime /\ now' = now + 1
    /\ UNCHANGED <<on, renders, listeners, ran, flushedAt, pendingFlush, event, events>>

\* The browser dispatches an event, stamped when it was made; with a key or a
\* button that the handlers ask for, or without.
Fire ==
    /\ event = NoEvent /\ ~pendingFlush /\ events < MaxEvents /\ renders > 0
    /\ events' = events + 1
    /\ \E stamp \in 1 .. now, matches \in BOOLEAN :
          event' = [stamp |-> stamp, matches |-> matches, after |-> renders,
                    at |-> 1, left |-> listeners[1], heard |-> {}]
    /\ UNCHANGED <<on, renders, listeners, ran, now, flushedAt, pendingFlush>>

\* Faulty: a handler hears whatever passes.
HearsAll(l) == TRUE

\* The wrapper of add$1: at its target, or when it was made after the listener.
Hears(l) == event.at = 1 \/ event.stamp >= l.since

\* genKeyFilter and genGuard: another key or button, and the handler returns null.
Passes == event.matches

\* Where the next listener of the event is in the list of its element, if it was
\* not removed since the element was reached and hears it.
Hearing ==
    {i \in DOMAIN listeners[event.at] : /\ SameListener(listeners[event.at][i], Head(event.left))
                                       /\ Hears(listeners[event.at][i])}

\* A handler whose guards pass runs, and may change data; then the one with .once
\* is removed.
Hear ==
    /\ event # NoEvent /\ ~pendingFlush /\ event.left # <<>> /\ Hearing # {}
    /\ \E i \in Hearing :
          LET e == event.at
              l == listeners[e][i]
              once == Passes /\ l.name = "~click"
          IN  /\ event' = [event EXCEPT !.left = Tail(@),
                               !.heard = @ \union {[el |-> e, lis |-> l, latest |-> renders]}]
              /\ listeners' = IF once THEN [listeners EXCEPT ![e] = RemoveAt(@, i)] ELSE listeners
              /\ ran' = IF once THEN [ran EXCEPT ![e] = @ + 1] ELSE ran
    /\ pendingFlush' \in (IF Passes /\ renders < MaxRenders THEN BOOLEAN ELSE {FALSE})
    /\ UNCHANGED <<on, renders, now, flushedAt, events>>

\* The next listener is gone, or does not hear the event.
Skip ==
    /\ event # NoEvent /\ ~pendingFlush /\ event.left # <<>> /\ Hearing = {}
    /\ event' = [event EXCEPT !.left = Tail(@)]
    /\ UNCHANGED <<on, renders, listeners, ran, now, flushedAt, pendingFlush, events>>

Climb ==
    /\ event # NoEvent /\ ~pendingFlush /\ event.left = <<>> /\ event.at < Outermost
    /\ event' = [event EXCEPT !.at = @ + 1, !.left = listeners[event.at + 1]]
    /\ UNCHANGED <<on, renders, listeners, ran, now, flushedAt, pendingFlush, events>>

EventEnds ==
    /\ event # NoEvent /\ ~pendingFlush /\ event.left = <<>> /\ event.at = Outermost
    /\ event' = NoEvent
    /\ UNCHANGED <<on, renders, listeners, ran, now, flushedAt, pendingFlush, events>>

ListenNext == Flush \/ DataChanges \/ Tick \/ Fire \/ Hear \/ Skip \/ Climb \/ EventEnds

ListenSpec == ListenInit /\ [][ListenNext]_listenVars

-----------------------------------------------------------------------------

\* A handler hears an event once and with the function of the last render (one
\* with .once: of the render that attached it), and none that a patch attached
\* while that event climbed, unless the clock stood still; every handler that was
\* there when the event was made hears it when it passes; and .once runs once,
\* however often the page is rendered again (updateListeners, add$1,
\* createOnceHandler$1).
HandlersHearTheirEvents ==
    /\ \A e \in Element : ran[e] <= 1
    /\ event # NoEvent =>
          /\ \A h \in event.heard :
                /\ h.lis.fn = (IF h.lis.name = "click" THEN h.latest ELSE h.lis.order)
                /\ h.lis.order > event.after => h.lis.since = event.stamp
                /\ \A o \in event.heard : h.el = o.el /\ SameListener(h.lis, o.lis) => h = o
          /\ \A e \in 1 .. event.at : \A i \in DOMAIN listeners[e] :
                LET l == listeners[e][i]
                    passed == e < event.at \/ event.left = <<>>
                IN  passed /\ l.order <= event.after /\ (e = 1 \/ l.since <= event.stamp)
                    => \E h \in event.heard : h.el = e /\ SameListener(h.lis, l)

=============================================================================
