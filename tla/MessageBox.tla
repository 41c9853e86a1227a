----------------------------- MODULE MessageBox -----------------------------
(***************************************************************************)
(* The text area of chatroom-vue.html: v-model of static/js/common/vue.js     *)
(* (genDefaultModel, the directive "model", updateDOMProps) and sendMessage    *)
(* of the page.  Text is a sequence of what was typed, numbered; an input       *)
(* method composes some of it, while the page may be rendered again.  Whether  *)
(* the socket is open when a message is sent is in ChatClient.                 *)
(***************************************************************************)
EXTENDS Integers, FiniteSets, SequencesExt

CONSTANTS MaxTyped, MaxSent, MaxRerenders    \* bounds

VARIABLES
    charInputArea,    \* the data of the page
    boxValue,         \* el.value without what is being composed
    preedit,          \* what is being composed, at the end of it
    composing,        \* el.composing: an input method composes
    pendingRender,    \* the page is to be rendered
    typed,            \* how much was typed
    sent,             \* the text of the messages, in order
    messages,         \* how many they are
    taken,            \* history: what the sending of an emoji, or the user, took
    doubtful,         \* history: what was sent while composing
    rerenders         \* how often something else of the page changed

boxVars == <<charInputArea, boxValue, preedit, composing, pendingRender, typed, sent, messages,
             taken, doubtful, rerenders>>

BoxInit ==
    /\ charInputArea = <<>> /\ boxValue = <<>> /\ preedit = <<>>
    /\ composing = FALSE /\ pendingRender = FALSE
    /\ typed = 0 /\ sent = <<>> /\ messages = 0 /\ taken = {} /\ doubtful = {} /\ rerenders = 0

\* Setting the data has the page rendered.
SetData(v) ==
    /\ charInputArea' = v
    /\ pendingRender' = (pendingRender \/ v # charInputArea)

\* The handler of v-model, once the text area holds v.
OnInput(v) ==
    IF composing' THEN UNCHANGED <<charInputArea, pendingRender>> ELSE SetData(v)

\* No task runs before the microtasks.
Task == ~pendingRender

Type ==
    /\ Task /\ ~composing /\ typed < MaxTyped
    /\ typed' = typed + 1
    /\ boxValue' = Append(boxValue, typed')
    /\ UNCHANGED composing
    /\ OnInput(boxValue')
    /\ UNCHANGED <<preedit, sent, messages, taken, doubtful, rerenders>>

\* onCompositionStart.
CompositionStart ==
    /\ Task /\ ~composing
    /\ composing' = TRUE
    /\ UNCHANGED <<charInputArea, boxValue, preedit, pendingRender, typed, sent, messages, taken, doubtful, rerenders>>

\* The input method shows more, and input is fired.
Compose ==
    /\ Task /\ composing /\ typed < MaxTyped
    /\ typed' = typed + 1 /\ preedit' = Append(preedit, typed')
    /\ UNCHANGED composing
    /\ OnInput(boxValue \o preedit')
    /\ UNCHANGED <<boxValue, sent, messages, taken, doubtful, rerenders>>

\* onCompositionEnd, after compositionend, or after change where the browser fires
\* no other: triggers input.  The user may have taken back what was composed.
CompositionEnd ==
    /\ Task /\ composing
    /\ composing' = FALSE
    /\ preedit' = <<>>
    /\ \/ boxValue' = boxValue \o preedit /\ UNCHANGED taken
       \/ boxValue' = boxValue /\ taken' = taken \union Range(preedit)
    /\ OnInput(boxValue')
    /\ UNCHANGED <<typed, sent, messages, doubtful, rerenders>>

\* sendMessage('text'), by the button, or when Enter is released: that may be
\* after the next composition began.
SendText ==
    /\ Task /\ charInputArea # <<>> /\ messages < MaxSent
    /\ messages' = messages + 1 /\ sent' = sent \o charInputArea
    /\ doubtful' = IF composing THEN doubtful \union Range(charInputArea) ELSE doubtful
    /\ SetData(<<>>)
    /\ UNCHANGED <<boxValue, preedit, composing, typed, taken, rerenders>>

\* sendMessage('emoji', item): the text area is emptied too.
SendEmoji ==
    /\ Task /\ ~composing
    /\ taken' = taken \union Range(charInputArea)
    /\ SetData(<<>>)
    /\ UNCHANGED <<boxValue, preedit, composing, typed, sent, messages, doubtful, rerenders>>

\* Anything else that is rendered changes, as when a message arrives.
RestChanges ==
    /\ Task /\ rerenders < MaxRerenders /\ rerenders' = rerenders + 1
    /\ pendingRender' = TRUE
    /\ UNCHANGED <<charInputArea, boxValue, preedit, composing, typed, sent, messages, taken, doubtful>>

\* Faulty: a composition is overwritten.
UpdateAnyValue == boxValue \o preedit # charInputArea

ShouldUpdateValue == ~composing /\ boxValue \o preedit # charInputArea

\* updateDOMProps, for the property value.
Render ==
    /\ pendingRender /\ pendingRender' = FALSE
    /\ IF ShouldUpdateValue THEN boxValue' = charInputArea /\ preedit' = <<>> ELSE UNCHANGED <<boxValue, preedit>>
    /\ UNCHANGED <<charInputArea, composing, typed, sent, messages, taken, doubtful, rerenders>>

BoxNext ==
    \/ Type \/ CompositionStart \/ Compose \/ CompositionEnd \/ SendText \/ SendEmoji
    \/ RestChanges \/ Render

BoxSpec == BoxInit /\ [][BoxNext]_boxVars

-----------------------------------------------------------------------------

\* What counts is not doubtful.
InOrder(s) == \A i, j \in DOMAIN s : i < j /\ {s[i], s[j]} \cap doubtful = {} => s[i] < s[j]

\* Everything typed is in the text area or was sent, in the order it was typed, and
\* not twice, whatever is rendered while an input method composes; and when it does
\* not, the page's data is what the text area shows (v-model, shouldUpdateValue).
\* Excepted are the drafts that the sending of an emoji takes, and text that is
\* sent during a composition, which stays in the text area and is sent again.
TypedIsKept ==
    LET s == sent \o boxValue \o preedit
        all == (1 .. typed) \ (taken \union doubtful)
    IN  /\ all \subseteq Range(s)
        /\ ~pendingRender => InOrder(s) /\ Range(s) \ doubtful = all
        /\ ~pendingRender /\ ~composing => boxValue = charInputArea

=============================================================================
