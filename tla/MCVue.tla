------------------------------- MODULE MCVue -------------------------------
(***************************************************************************)
(* Small instances of the modules about vue.js.  They never run together:    *)
(* chosen is one of them.                                                    *)
(***************************************************************************)
EXTENDS VueTransition, VueListeners, VueReactivity, MessageBox, VueKeepAlive

CONSTANTS
    obj, MaxPatches, MaxTokens

VARIABLES
    chosen,
    vnode, doc, patches,
    ast, tokens, parsed, code

WatcherKinds == <<"lazy", "lazy", "user", "user", "render", "user">>

Do(op, id) == [op |-> op, id |-> id]
End == Do("done", 0)

Script(list, seen) == IF Len(seen) < Len(list) THEN list[Len(seen) + 1] ELSE End

\* 1: a = 1 ? b : a, and throws when a is 2.  2: the first and the list.  3: the
\* first.  4: b, and throws when that is 3.  5: renders b and the second, and fails
\* in the patch when the list is no list.  6, of a component inside: the list.
WatcherReads(w, seen) ==
    LET first == IF seen # <<>> THEN seen[1][1] ELSE 0
    IN  CASE w = 1 /\ first = 2 -> Do("throw", 0)
          [] w = 1 /\ first = 1 -> Script(<<Do("cell", "a"), Do("cell", "b")>>, seen)
          [] w = 1 -> Script(<<Do("cell", "a")>>, seen)
          [] w = 2 -> Script(<<Do("computed", 1), Do("cell", "list")>>, seen)
          [] w = 3 -> Script(<<Do("computed", 1)>>, seen)
          [] w = 4 /\ first = 3 -> Do("throw", 0)
          [] w = 4 -> Script(<<Do("cell", "b")>>, seen)
          [] w = 5 /\ Len(seen) = 2 /\ seen[2][2][1] = 0 -> Do("patch throws", 0)
          [] w = 5 -> Script(<<Do("cell", "b"), Do("computed", 2)>>, seen)
          [] w = 6 -> Script(<<Do("cell", "list")>>, seen)

Set(c, v) == [op |-> "set", id |-> c, to |-> v]

\* 3 sets b when a is 1.  4 sets a, which 3 read before; at 4 and 5 it writes
\* what it reads, for ever.
CallbackWrites(w, seen) ==
    CASE w = 3 /\ seen # <<>> /\ Len(seen[1]) = 2 -> <<Set("b", 1)>>
      [] w = 4 /\ seen # <<>> /\ seen[1][1] = 2 -> <<Set("a", 1), Set("a", 0)>>
      [] w = 4 /\ seen # <<>> /\ seen[1][1] >= 4 -> <<Set("b", 9 - seen[1][1])>>
      [] OTHER -> <<>>

Cells == {"a", "b", "list"}
Observed == {obj}
AtFirst == [c \in Cells |-> IF c = "list" THEN obj ELSE 0]
NoWrites(w) == <<>>
SetsA(w) == <<Set("a", 0)>>
Changes(d) == {Set("a", 0), Set("a", 1), Set("a", 2), Set("b", 2), Set("b", 3), Set("b", 4),
               Set("list", 0), Do("change", obj), Do("teardown", 3), Do("teardown", 5)}

Node(key, tag, mods, kids) == [key |-> key, tag |-> tag, data |-> mods, text |-> "", kids |-> kids]
Text(t) == [Node("no key", "no tag", {}, <<>>) EXCEPT !.text = t]

\* Four kinds of children: two with keys, of which one leaves slowly and one holds a
\* text, one with a key and without hooks, and one without a key.
Children == {Node("k1", "li", {"leaves"}, <<>>), Node("k2", "li", {"on"}, <<Text("x")>>),
             Node("k3", "li", {}, <<>>), Node("no key", "li", {"on"}, <<Text("y")>>)}

Lists == {Node("no key", "div", {"on"}, ks) :
             ks \in UNION {{s \in [1 .. n -> Children] : IsInjective(s)} : n \in 0 .. 4}}
Others == {Node("no key", "div", {"on"}, <<Text("z"), Node("k1", "p", {}, <<>>)>>),
           Node("no key", "p", {"leaves"}, <<Text("x")>>)}
Trees == Lists \union Others

Patching == INSTANCE VuePatch WITH Tree <- Trees

Tag(tag, attrs) == [tag |-> tag, attrs |-> attrs]

\* Loops, branches, static trees, trees under v-pre and tags left open, in a page that
\* begins with an element, a repeated template, a v-pre or an element with v-if.
OpenTags == {Tag("li", {"for"}), Tag("li", {"if"}), Tag("li", {"else"}), Tag("li", {"else-if", "for"}),
             Tag("template", {"for"}), Tag("template", {"if"}), Tag("p", {}), Tag("div", {"lit"}),
             Tag("div", {"pre"}), Tag("img", {"bind"})}
CloseTags == {"li", "div", "p", "template"}
AllTexts == {"text", "expr", "space"}
Openings == {<<Tag("div", {})>>, <<Tag("div", {}), Tag("template", {"for"})>>,
             <<Tag("div", {}), Tag("div", {"pre"})>>, <<Tag("div", {"if"}), Tag("p", {})>>}
Instances == {[list |-> 2, case |-> 1, show |-> 1], [list |-> 0, case |-> 2, show |-> 2],
              [list |-> 2, case |-> 3, show |-> 2]}

Template == INSTANCE VueCodegen WITH
    StartTags <- OpenTags, EndTags <- CloseTags, Texts <- AllTexts, Beginnings <- Openings, Env <- Instances

Transition(show, css, user, ends) == [show |-> show, css |-> css, user |-> user, ends |-> ends]

AllTransitions ==
    {Transition(s, TRUE, FALSE, e) : s \in BOOLEAN, e \in {"duration", "events", "at once"}}
    \union {Transition(s, FALSE, FALSE, "at once") : s \in BOOLEAN}
    \union {Transition(s, c, TRUE, "at once") : s \in BOOLEAN, c \in BOOLEAN}

\* Three instances to show, two of one component, which holds a keep-alive.
KeptComponent(key) == IF key \in {"a1", "a2"} THEN "a" ELSE key
HoldsKeepAlive(tag) == tag = "a"

patchVars == <<vnode, doc, patches>>
templateVars == <<ast, tokens, parsed, code>>

MCInit ==
    /\ chosen \in {"react", "patch", "template", "transition", "listeners", "box", "keepalive"}
    /\ ReactInit
    /\ Patching!PatchInit
    /\ Template!CodegenInit
    /\ TransInit
    /\ ListenInit
    /\ BoxInit
    /\ KeepInit

MCNext ==
    /\ UNCHANGED chosen
    /\ \/ /\ chosen = "react" /\ ReactNext
          /\ UNCHANGED <<patchVars, templateVars, transVars, listenVars, boxVars, keepVars>>
       \/ /\ chosen = "patch" /\ Patching!PatchNext
          /\ UNCHANGED <<reactVars, templateVars, transVars, listenVars, boxVars, keepVars>>
       \/ /\ chosen = "template" /\ Template!CodegenNext
          /\ UNCHANGED <<reactVars, patchVars, transVars, listenVars, boxVars, keepVars>>
       \/ /\ chosen = "transition" /\ TransNext
          /\ UNCHANGED <<reactVars, patchVars, templateVars, listenVars, boxVars, keepVars>>
       \/ /\ chosen = "listeners" /\ ListenNext
          /\ UNCHANGED <<reactVars, patchVars, templateVars, transVars, boxVars, keepVars>>
       \/ /\ chosen = "box" /\ BoxNext
          /\ UNCHANGED <<reactVars, patchVars, templateVars, transVars, listenVars, keepVars>>
       \/ /\ chosen = "keepalive" /\ KeepNext
          /\ UNCHANGED <<reactVars, patchVars, templateVars, transVars, listenVars, boxVars>>

allVars == <<chosen, reactVars, patchVars, templateVars, transVars, listenVars, boxVars, keepVars>>

ReactGoes ==
    /\ chosen = "react" /\ Goes
    /\ UNCHANGED <<chosen, patchVars, templateVars, transVars, listenVars, boxVars, keepVars>>

\* JavaScript runs to its end, and microtasks run; nothing else is assumed.
MCSpec == MCInit /\ [][MCNext]_allVars /\ WF_allVars(ReactGoes)

-----------------------------------------------------------------------------

\* VuePatch: after a patch the document shows the tree.
DocumentShowsTree == Patching!DocumentShowsTree

\* VuePatch: the hooks of an element run once each.
HooksRunOnce == Patching!HooksRunOnce

\* VuePatch: children with keys keep their elements.
KeyedChildrenKept == Patching!KeyedChildrenKept

\* VueParser: no element of a template is lost or moved.
TreeKeepsTemplate == Template!TreeKeepsTemplate

\* VueCodegen: the generated code renders what the template means.
RendersWhatItMeans == Template!RendersWhatItMeans

\* VueCodegen: siblings have different keys.
SiblingKeysDiffer == Template!SiblingKeysDiffer

=============================================================================
