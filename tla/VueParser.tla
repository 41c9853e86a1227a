----------------------------- MODULE VueParser -----------------------------
(***************************************************************************)
(* static/js/common/vue.js, parseHTML and parse: the template of the page     *)
(* becomes a tree.  The template is read token by token, any token may come   *)
(* next, and tags may be left open or closed twice, as in HTML.  Nodes are     *)
(* their places in the sequence of all nodes, in the order they were made.    *)
(* Attributes are a set of names; how they are written, entities, namespaces, *)
(* slots, pre, kept comments and the contents of script, style and textarea    *)
(* are left out.                                                             *)
(***************************************************************************)
EXTENDS Integers, FiniteSets, SequencesExt

CONSTANTS
    StartTags,        \* [tag, attrs]: the start tags a template may hold
    EndTags,
    Texts,            \* "text", "expr" (with an interpolation), "space"
    Beginnings,       \* the sequences of start tags a template may begin with
    MaxTokens         \* bound: the tokens after them

VARIABLES
    ast,              \* what parse and parseHTML know, see NoTree
    tokens,           \* the tokens read after the beginning
    parsed            \* the end was reached

parseVars == <<ast, tokens, parsed>>

\* Of the tags of HTML, those that the templates here use.
NonPhrasing == {"div", "li"}
CanBeLeftOpen == {"li", "p"}
Unary == {"img", "br"}

NoTree == [nodes |-> <<>>,    \* the nodes
           tags |-> <<>>,     \* the open tags of parseHTML; lastTag is the last
           open |-> <<>>,     \* the open elements of parse; currentParent is the last
           root |-> 0, inVPre |-> FALSE,
           lost |-> {}]       \* history: the elements that were left out with a warning

\* An attribute that was not taken as raw, below v-pre.
Has(n, a) == a \in n.attrs /\ ~n.raw

IsElse(n) == Has(n, "else") \/ Has(n, "else-if")

-----------------------------------------------------------------------------
(* The callbacks of parse. *)

TrimEndingWhitespace(t, e) ==
    [t EXCEPT !.nodes[e].kids =
        SubSeq(@, 1, Max({0} \union {i \in DOMAIN @ : t.nodes[@[i]].type # "space"}))]

AddIfCondition(t, to, e) ==
    LET exp == IF Has(t.nodes[e], "else") THEN "else" ELSE "else-if"
    IN  [t EXCEPT !.nodes[to].conds = Append(@, [exp |-> exp, block |-> e])]

\* findPrevElement takes the text before an else away.
DropText(t, parent) ==
    [t EXCEPT !.nodes[parent].kids =
        SubSeq(@, 1, Max({0} \union {i \in DOMAIN @ : t.nodes[@[i]].type = "element"}))]

\* processIfConditions: joins the element before, when that has v-if.
ProcessIfConditions(t, e, parent) ==
    LET found == DropText(t, parent)
        ks == found.nodes[parent].kids
    IN  IF ks # <<>> /\ t.nodes[Last(ks)].type = "element" /\ Has(t.nodes[Last(ks)], "if")
        THEN AddIfCondition(found, Last(ks), e)
        ELSE [found EXCEPT !.lost = @ \union {e}]

\* Where a closed element goes: to its parent, to the element with v-if before,
\* or nowhere: after the root only its else branches may follow.
PlaceElement(t, e) ==
    IF t.open # <<>>
    THEN IF IsElse(t.nodes[e]) THEN ProcessIfConditions(t, e, Last(t.open))
         ELSE [t EXCEPT !.nodes[Last(t.open)].kids = Append(@, e)]
    ELSE IF e = t.root THEN t
    ELSE IF Has(t.nodes[t.root], "if") /\ IsElse(t.nodes[e]) THEN AddIfCondition(t, t.root, e)
    ELSE [t EXCEPT !.lost = @ \union {e}]

CloseElement(t, e) ==
    LET placed == PlaceElement(TrimEndingWhitespace(t, e), e)
    IN  [placed EXCEPT !.inVPre = @ /\ ~t.nodes[e].pre]

\* processPre.
ProcessPre(t, attrs) == ~t.inVPre /\ "pre" \in attrs

\* processRawAttrs is called in place of all that looks for directives.
ProcessRawAttrs(t, attrs) == t.inVPre \/ ProcessPre(t, attrs)

\* processIf.
ProcessIf(attrs, e) == IF "if" \in attrs THEN <<[exp |-> "if", block |-> e]>> ELSE <<>>

CreateASTElement(t, tag, attrs) ==
    [type |-> "element", tag |-> tag, attrs |-> attrs \ {"pre"}, pre |-> ProcessPre(t, attrs),
     raw |-> ProcessRawAttrs(t, attrs), parent |-> IF t.open = <<>> THEN 0 ELSE Last(t.open),
     kids |-> <<>>, conds |-> ProcessIf(attrs, Len(t.nodes) + 1)]

\* options.start.
StartElement(t, tag, attrs, unary) ==
    LET e == Len(t.nodes) + 1
        made == [t EXCEPT !.nodes = Append(@, CreateASTElement(t, tag, attrs)),
                          !.inVPre = ProcessRawAttrs(t, attrs), !.root = IF @ = 0 THEN e ELSE @]
    IN  IF unary THEN CloseElement(made, e) ELSE [made EXCEPT !.open = Append(@, e)]

\* options.end.
EndElement(t) == CloseElement([t EXCEPT !.open = Front(@)], Last(t.open))

\* options.chars: space is kept once, and not as the first child; in v-pre an
\* interpolation is plain text.
Chars(t, text) ==
    LET ks == t.nodes[Last(t.open)].kids
        node == [type |-> IF text = "expr" /\ t.inVPre THEN "text" ELSE text, parent |-> Last(t.open)]
    IN  IF \/ t.open = <<>>
           \/ text = "space" /\ (ks = <<>> \/ t.nodes[Last(ks)].type = "space")
        THEN t
        ELSE [t EXCEPT !.nodes = Append([@ EXCEPT ![Last(t.open)].kids = Append(@, Len(t.nodes) + 1)], node)]

-----------------------------------------------------------------------------
(* parseHTML. *)

\* Faulty: the open tags inside are forgotten, not closed.
ForgetInner(t, pos) == [EndElement(t) EXCEPT !.tags = SubSeq(@, 1, pos - 1)]

\* Closes all the open elements up the stack.
CloseDownTo(t, pos) ==
    LET closed == FoldLeft(LAMBDA acc, i : EndElement(acc), t, SubSeq(t.tags, pos, Len(t.tags)))
    IN  [closed EXCEPT !.tags = SubSeq(@, 1, pos - 1)]

\* parseEndTag: a stray </br> or </p> makes an element.
ParseEndTag(t, tag) ==
    LET at == {i \in DOMAIN t.tags : t.tags[i] = tag}
    IN  IF at # {} THEN CloseDownTo(t, Max(at))
        ELSE IF tag = "br" THEN StartElement(t, tag, {}, TRUE)
        ELSE IF tag = "p" THEN EndElement(StartElement(t, tag, {}, FALSE))
        ELSE t

LastTag(t) == IF t.tags = <<>> THEN "none" ELSE Last(t.tags)

\* handleStartTag: a paragraph ends before a block, an item before the next.
HandleStartTag(t, tag, attrs) ==
    LET block == IF LastTag(t) = "p" /\ tag \in NonPhrasing THEN ParseEndTag(t, "p") ELSE t
        next == IF tag \in CanBeLeftOpen /\ LastTag(block) = tag THEN ParseEndTag(block, tag) ELSE block
        unary == tag \in Unary
    IN  StartElement([next EXCEPT !.tags = IF unary THEN @ ELSE Append(@, tag)], tag, attrs, unary)

-----------------------------------------------------------------------------

ParseInit == ast = NoTree /\ tokens = 0 /\ parsed = FALSE

ReadBeginning ==
    /\ ast = NoTree
    /\ \E b \in Beginnings : ast' = FoldLeft(LAMBDA t, s : HandleStartTag(t, s.tag, s.attrs), NoTree, b)
    /\ UNCHANGED <<tokens, parsed>>

Reads == ast # NoTree /\ ~parsed /\ tokens < MaxTokens /\ tokens' = tokens + 1 /\ UNCHANGED parsed

ReadStartTag == Reads /\ \E s \in StartTags : ast' = HandleStartTag(ast, s.tag, s.attrs)

ReadEndTag == Reads /\ \E tag \in EndTags : ast' = ParseEndTag(ast, tag)

ReadText == Reads /\ \E text \in Texts : ast' = Chars(ast, text)

\* The clean-up at the end of the template.
EndTemplate ==
    /\ ast # NoTree /\ ~parsed /\ parsed' = TRUE
    /\ ast' = IF ast.tags = <<>> THEN ast ELSE CloseDownTo(ast, 1)
    /\ UNCHANGED tokens

ParseNext == ReadBeginning \/ ReadStartTag \/ ReadEndTag \/ ReadText \/ EndTemplate

ParseSpec == ParseInit /\ [][ParseNext]_parseVars

-----------------------------------------------------------------------------

Elements == {i \in DOMAIN ast.nodes : ast.nodes[i].type = "element"}

RECURSIVE Reading(_)

\* The elements below and at e as a reader of the tree meets them: its children,
\* then its other branches.
Reading(e) ==
    LET n == ast.nodes[e]
        inner == FlattenSeq([i \in DOMAIN n.kids |-> IF n.kids[i] \in Elements THEN Reading(n.kids[i]) ELSE <<>>])
        others == SelectSeq(n.conds, LAMBDA c : c.block # e)
    IN  <<e>> \o inner \o FlattenSeq([i \in DOMAIN others |-> Reading(others[i].block)])

RECURSIVE Within(_, _)
Within(e, set) == e # 0 /\ (e \in set \/ Within(ast.nodes[e].parent, set))

\* parse never loses track of what parseHTML has open, and at the end the tree
\* holds every element once, in the order of the template, save those that a
\* warning was given of and what was in them, whatever was left open, closed
\* twice or closed crosswise.
TreeKeepsTemplate ==
    /\ ast.tags = [i \in DOMAIN ast.open |-> ast.nodes[ast.open[i]].tag]
    /\ parsed => /\ ~ast.inVPre
                 /\ LET kept == {e \in Elements : ~Within(e, ast.lost)}
                    IN  Reading(ast.root) = SetToSortSeq(kept, <)

=============================================================================
