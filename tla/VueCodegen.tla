----------------------------- MODULE VueCodegen -----------------------------
(***************************************************************************)
(* static/js/common/vue.js, optimize and generate, and what the generated     *)
(* code calls (_c, _l, _m, _v, _e and the normalization of children): what a   *)
(* template that was parsed renders.  Generated code is a tree of calls.      *)
(* Static trees are named by their elements and cached by the instance.       *)
(* Components, slots, v-once and the data of an element but for what its      *)
(* bindings show are left out.                                               *)
(***************************************************************************)
EXTENDS VueParser

CONSTANT Env          \* what the template reads: [list: how long the list of a v-for
                      \* is, case: which condition is true, show: what a binding shows]

VARIABLE code         \* the render function and the static ones

codegenVars == <<parseVars, code>>

N(i) == ast.nodes[i]
Kids(i) == Range(N(i).kids)

-----------------------------------------------------------------------------
(* optimize. *)

RECURSIVE DirectChildOfTemplateFor(_)
DirectChildOfTemplateFor(i) ==
    LET parent == N(i).parent
    IN  /\ parent # 0 /\ N(parent).tag = "template"
        /\ Has(N(parent), "for") \/ DirectChildOfTemplateFor(parent)

\* Faulty: what a loop repeats may be static.
StaticAnywhere(i) ==
    \/ N(i).type \in {"text", "space"}
    \/ N(i).type = "element" /\ (N(i).pre \/ N(i).raw \/ N(i).attrs \subseteq {"lit"})

\* isStatic: no bindings, no v-if, no v-for, and no other branch.
IsStatic(i) ==
    \/ N(i).type \in {"text", "space"}
    \/ /\ N(i).type = "element"
       /\ N(i).pre \/ ((N(i).raw \/ N(i).attrs \subseteq {"lit"}) /\ ~DirectChildOfTemplateFor(i))

RECURSIVE Static(_)

\* markStatic: and so is all that is in it.
Static(i) == IsStatic(i) /\ (N(i).type = "element" => \A k \in Kids(i) : Static(k))

RECURSIVE InFor(_)
InFor(i) == LET parent == N(i).parent IN parent # 0 /\ (Has(N(parent), "for") \/ InFor(parent))

\* markStaticRoots: a lone text is not worth it.
StaticRoot(i) ==
    /\ Static(i) /\ N(i).kids # <<>>
    /\ ~(Len(N(i).kids) = 1 /\ N(N(i).kids[1]).type # "element")

-----------------------------------------------------------------------------
(* generate. *)

NeedsNormalization(i) == N(i).type = "element" /\ (Has(N(i), "for") \/ (N(i).tag = "template"))

\* Faulty: looks at the first branch only.
NormalizeFirst(i) == \E k \in Kids(i) : NeedsNormalization(k)

\* getNormalizationType, of children that are no components.
Normalize(i) ==
    \E k \in Kids(i) :
        \/ NeedsNormalization(k)
        \/ N(k).type = "element" /\ \E c \in Range(N(k).conds) : NeedsNormalization(c.block)

RECURSIVE GenElement(_, _, _), GenConditions(_, _, _, _), GenStatic(_, _), GenFor(_, _, _)

GenText(i) == [op |-> "v", type |-> N(i).type]

GenNode(i, hoisted) == IF N(i).type = "element" THEN GenElement(i, {}, hoisted) ELSE GenText(i)

\* genChildren: a single v-for gives the array itself.
GenChildren(i, hoisted) ==
    LET ks == N(i).kids
    IN  IF ks = <<>> THEN [op |-> "void"]
        ELSE IF Len(ks) = 1 /\ N(ks[1]).type = "element" /\ Has(N(ks[1]), "for") /\ N(ks[1]).tag # "template"
        THEN [op |-> "only", item |-> GenElement(ks[1], {}, hoisted)]
        ELSE [op |-> "array", items |-> [k \in DOMAIN ks |-> GenNode(ks[k], hoisted)], full |-> Normalize(i)]

\* genIfConditions.
GenConditions(i, conds, done, hoisted) ==
    IF conds = <<>> THEN [op |-> "e"]
    ELSE LET b == Head(conds).block
             then == GenElement(b, IF b = i THEN done \union {"if"} ELSE {}, hoisted)
         IN  IF Head(conds).exp = "else" THEN then
             ELSE [op |-> "?", exp |-> Head(conds).exp, then |-> then,
                   else |-> GenConditions(i, Tail(conds), done, hoisted)]

\* genStatic: the tree becomes a static render function of its own; state.pre is set
\* when its root is under v-pre.
GenStatic(i, done) ==
    [op |-> "m", of |-> i, inFor |-> InFor(i),
     tree |-> GenElement(i, done, IF N(i).raw THEN "pre" ELSE "static")]

GenFor(i, done, hoisted) == [op |-> "l", body |-> GenElement(i, done \union {"for"}, hoisted)]

\* genElement: hoists a static root, then the loop, then the conditions, then
\* the element.  done is what was generated already (forProcessed, ifProcessed),
\* hoisted whether this is in a static root ("no", "static"), and that this one is
\* under v-pre ("pre", which is state.pre): only then a template stays one.
GenElement(i, done, hoisted) ==
    IF StaticRoot(i) /\ hoisted = "no"
    THEN GenStatic(i, done)
    ELSE IF Has(N(i), "for") /\ "for" \notin done
    THEN GenFor(i, done, hoisted)
    ELSE IF Has(N(i), "if") /\ "if" \notin done
    THEN GenConditions(i, N(i).conds, done, hoisted)
    ELSE IF N(i).tag = "template" /\ hoisted # "pre"
    THEN GenChildren(i, hoisted)
    ELSE [op |-> "c", tag |-> N(i).tag, bound |-> Has(N(i), "bind"), kids |-> GenChildren(i, hoisted)]

-----------------------------------------------------------------------------
(* What the generated code does. *)

NoKey == <<>>
Node(tag, text, kids) == [is |-> "node", tag |-> tag, key |-> NoKey, text |-> text, kids |-> kids]
TextNode(text) == Node("text", text, <<>>)
Comment == Node("comment", <<>>, <<>>)
IsText(v) == v.is = "node" /\ v.tag = "text"

Merged(a, b) == TextNode(a.text \o b.text)

RECURSIVE NormalizeArray(_, _)

\* normalizeArrayChildren: arrays are flattened, adjacent texts become one, and
\* what a loop made gets a key from where it is.
NormalizeArray(array, path) ==
    LET put(res, v) == IF res # <<>> /\ IsText(v) /\ IsText(Last(res))
                       THEN Append(Front(res), Merged(Last(res), v)) ELSE Append(res, v)
        keyed(v, i) == IF array.vlist /\ path # <<>> /\ ~IsText(v) /\ v.tag # "comment" /\ v.key = NoKey
                       THEN [v EXCEPT !.key = Append(path, i)] ELSE v
        add(res, i) == LET v == array.items[i]
                       IN  CASE v.is = "undefined" -> res
                             [] v.is = "array" ->
                                LET inner == NormalizeArray(v, Append(path, i))
                                IN  IF inner = <<>> THEN res ELSE put(res, Head(inner)) \o Tail(inner)
                             [] OTHER -> put(res, keyed(v, i))
    IN  FoldLeft(add, <<>>, [i \in DOMAIN array.items |-> i])

\* simpleNormalizeChildren leaves an array that has none within as it is.
Array(items, vlist) == [is |-> "array", items |-> items, vlist |-> vlist]

Holds(exp, env) == env.case = (IF exp = "if" THEN 1 ELSE 2)

\* What an expression shows: of the instance, and of the loops around.
Shown(env, at) == <<[show |-> env.show, at |-> at]>>
Literal == <<[show |-> 0, at |-> <<>>]>>

RECURSIVE Exec(_, _, _, _), RenderStatic(_, _, _), RenderList(_, _, _, _), CreateElement(_, _, _, _)

\* _m: cached, but in a loop it is rendered afresh; the key tells which it is.
RenderStatic(c, env, first) ==
    [Exec(c.tree, IF c.inFor THEN env ELSE first, first, <<>>) EXCEPT !.key = <<0, c.of>>]

\* _l.
RenderList(c, env, first, at) ==
    Array([k \in 1 .. env.list |-> Exec(c.body, env, first, Append(at, k))], TRUE)

\* _c.
CreateElement(c, env, first, at) ==
    LET kids == Exec(c.kids, env, first, at)
    IN  Node(c.tag, IF c.bound THEN Shown(env, at) ELSE <<>>,
             IF kids.is = "undefined" THEN <<>>
             ELSE IF c.kids.op = "array" /\ c.kids.full THEN NormalizeArray(kids, <<>>)
             ELSE kids.items)

\* Runs code for what the instance holds now; at is the index of every loop
\* around, and first what the instance held when a static tree was rendered first.
Exec(c, env, first, at) ==
    CASE c.op = "void" -> [is |-> "undefined"]
      [] c.op = "v" -> TextNode(IF c.type = "expr" THEN Shown(env, at) ELSE Literal)
      [] c.op = "e" -> Comment
      [] c.op = "?" -> Exec(IF Holds(c.exp, env) THEN c.then ELSE c.else, env, first, at)
      [] c.op = "m" -> RenderStatic(c, env, first)
      [] c.op = "l" -> RenderList(c, env, first, at)
      [] c.op = "only" -> Exec(c.item, env, first, at)
      [] c.op = "array" -> Array([k \in DOMAIN c.items |-> Exec(c.items[k], env, first, at)], FALSE)
      [] c.op = "c" -> CreateElement(c, env, first, at)

-----------------------------------------------------------------------------

CodegenInit == ParseInit /\ code = [op |-> "void"]

Parse == ParseNext /\ UNCHANGED code

\* compile: parse, optimize, generate.
Generate ==
    /\ parsed /\ code = [op |-> "void"]
    /\ code' = GenElement(ast.root, {}, "no")
    /\ UNCHANGED parseVars

CodegenNext == Parse \/ Generate

CodegenSpec == CodegenInit /\ [][CodegenNext]_codegenVars

-----------------------------------------------------------------------------

RECURSIVE Meaning(_, _, _), Plain(_)

\* What node i of the template stands for: a loop repeats, the first true branch
\* stands for all, a template for its children; below v-pre all is as it is
\* written.
Meaning(i, env, at) ==
    LET body(e, in) ==
            LET kids == FlattenSeq([k \in DOMAIN N(e).kids |-> Meaning(N(e).kids[k], env, in)])
            IN  IF N(e).tag = "template" /\ ~N(e).raw THEN kids
                ELSE <<Node(N(e).tag, IF Has(N(e), "bind") THEN Shown(env, in) ELSE <<>>, kids)>>
        branch(in) ==
            LET open == {k \in DOMAIN N(i).conds :
                            N(i).conds[k].exp = "else" \/ Holds(N(i).conds[k].exp, env)}
                b == N(i).conds[Min(open)].block
            IN  IF N(i).conds = <<>> \/ N(i).raw THEN body(i, in)
                ELSE IF open = {} THEN <<Comment>>
                ELSE IF b = i THEN body(i, in) ELSE Meaning(b, env, in)
    IN  IF N(i).type # "element"
        THEN <<TextNode(IF N(i).type = "expr" THEN Shown(env, at) ELSE Literal)>>
        ELSE IF Has(N(i), "for")
        THEN FlattenSeq([k \in 1 .. env.list |-> branch(Append(at, k))])
        ELSE branch(at)

\* Without keys, and adjacent texts as one.
Plain(vs) ==
    IF vs = <<>> THEN <<>>
    ELSE LET v == [Head(vs) EXCEPT !.key = NoKey, !.kids = Plain(Head(vs).kids)]
             rest == Plain(Tail(vs))
         IN  IF rest # <<>> /\ IsText(v) /\ IsText(Head(rest))
             THEN <<Merged(v, Head(rest))>> \o Tail(rest) ELSE <<v>> \o rest

RECURSIVE HoistedWith(_)

\* The root of the static tree that i is rendered with, if any.
HoistedWith(i) ==
    LET above == IF N(i).parent = 0 THEN {} ELSE HoistedWith(N(i).parent)
    IN  IF above = {} /\ StaticRoot(i) THEN {i} ELSE above

\* A template below v-pre is shown as it is written; but markStaticRoots stops at
\* the largest static tree, and if that begins above the v-pre, genStatic never
\* sets state.pre, although a comment there (line 10992) says that all v-pre nodes are
\* static roots.
LosesRawTemplate ==
    \E e \in Elements : N(e).tag = "template" /\ N(e).raw /\ ~(\E r \in HoistedWith(e) : N(r).raw)

\* The compiled template renders what the template means, whatever the instance
\* held when the static trees were cached, and no array is left among the
\* children (optimize, genElement, getNormalizationType, renderStatic).  The root
\* is to be one node: of others _render warns.  Excepted is a template below v-pre
\* that the code takes for its children, see LosesRawTemplate.
RendersWhatItMeans ==
    code.op # "void" /\ ~LosesRawTemplate =>
        \A now \in Env :
            LET meant == Plain(Meaning(ast.root, now, <<>>))
            IN  \A first \in Env :
                    LET v == Exec(code, now, first, <<>>)
                    IN  v.is = "node" => Plain(<<v>>) = meant

RECURSIVE KeysDiffer(_)
KeysDiffer(v) ==
    /\ \A a, b \in DOMAIN v.kids : v.kids[a].key = v.kids[b].key /\ a # b => v.kids[a].key = NoKey
    /\ \A a \in DOMAIN v.kids : KeysDiffer(v.kids[a])

\* Siblings never get the same key, which patching relies on: static trees in
\* loops, loops beside loops and in templates (isDirectChildOfTemplateFor,
\* normalizeArrayChildren).  Excepted is a v-pre that a template repeats: isStatic
\* asks for that first, and all copies of the static tree get one key.
SiblingKeysDiffer ==
    code.op # "void" /\ ~(\E e \in Elements : N(e).pre /\ DirectChildOfTemplateFor(e)) =>
        \A now \in Env : LET v == Exec(code, now, now, <<>>) IN v.is = "node" => KeysDiffer(v)

=============================================================================
