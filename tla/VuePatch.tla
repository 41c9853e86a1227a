----------------------------- MODULE VuePatch -----------------------------
(***************************************************************************)
(* static/js/common/vue.js, createPatchFunction: the tree of elements is     *)
(* changed into what a render function returned.  Elements are numbers, given *)
(* out in order; an element that is removed may stay in the document while    *)
(* its leave transition runs, and further patches meet it there.  Components, *)
(* hydration of a page rendered by a server and async placeholders are left   *)
(* out.                                                                      *)
(***************************************************************************)
EXTENDS Integers, FiniteSets, SequencesExt

CONSTANTS
    Undef,
    Tree,             \* what the render function may return
    MaxPatches        \* bound: the patches

\* A vnode is a record [key, tag, data, text, kids]; once it is rendered it has
\* the field elm too.
NoKey == "no key"
NoTag == "no tag"        \* of a text node

VARIABLES
    vnode,            \* the rendered tree
    doc,              \* the document, see below
    patches

patchVars == <<vnode, doc, patches>>

\* sameVnode (isComment is a tag here, and inputs of other types are other tags).
SameVnode(a, b) == a.key = b.key /\ a.tag = b.tag /\ (a.data = {}) = (b.data = {})

-----------------------------------------------------------------------------
(* The document: kids[e] the child nodes, shows[e] what the modules made of the *)
(* vnode, next the next element, made, mounted and destroyed the elements whose *)
(* create, insert and destroy hooks ran, in order, pending the vnodes whose      *)
(* insert hooks are still to run, rm[e] the listeners of a leaving element.      *)

Body == 0

EmptyDoc == [kids |-> (Body :> <<>>), shows |-> (Body :> {}), next |-> 1, made |-> <<>>,
             mounted |-> <<>>, destroyed |-> <<>>, pending |-> <<>>, rm |-> <<>>]

ParentOf(d, e) == CHOOSE p \in DOMAIN d.kids : e \in Range(d.kids[p])
HasParent(d, e) == \E p \in DOMAIN d.kids : e \in Range(d.kids[p])

IndexIn(s, x) == CHOOSE i \in DOMAIN s : s[i] = x

\* Faulty: what goes behind an element goes before it.
NoFurther(d, e) == e

NextSibling(d, e) ==
    LET ks == d.kids[ParentOf(d, e)]
        i == IndexIn(ks, e)
    IN  IF i = Len(ks) THEN Undef ELSE ks[i + 1]

Detach(d, e) == [d EXCEPT !.kids = [p \in DOMAIN @ |-> SelectSeq(@[p], LAMBDA k : k # e)]]

AppendChild(d, p, e) == [Detach(d, e) EXCEPT !.kids[p] = Append(@, e)]

InsertBefore(d, p, e, ref) ==
    IF ref = Undef THEN AppendChild(d, p, e)
    ELSE LET apart == Detach(d, e)
         IN  [apart EXCEPT !.kids[p] = InsertAt(@, IndexIn(@, ref), e)]

\* insert: before ref, when that is still in the parent.
Insert(d, p, e, ref) ==
    IF ref # Undef /\ ref \notin Range(d.kids[p]) THEN d ELSE InsertBefore(d, p, e, ref)

RemoveNode(d, e) == Detach(d, e)

-----------------------------------------------------------------------------
(* Creating and removing. *)

InvokeCreateHooks(d, v, e) ==
    IF v.data = {} THEN d ELSE [d EXCEPT !.made = Append(@, e), !.pending = Append(@, e)]

RECURSIVE CreateElm(_, _, _, _), CreateChildren(_, _, _)

\* createElm: children first, then the hooks, then the element is put in its
\* parent.  [doc, vnode].
CreateElm(d, v, p, ref) ==
    LET e == d.next
        new == [d EXCEPT !.next = e + 1, !.kids = @ @@ (e :> <<>>), !.shows = @ @@ (e :> v.data \union {v.text})]
        full == CreateChildren(new, v, e)
    IN  [doc |-> Insert(InvokeCreateHooks(full.doc, v, e), p, e, ref),
         vnode |-> [elm |-> e, kids |-> full.kids] @@ v]

CreateChildren(d, v, e) ==
    LET child(acc, k) == LET c == CreateElm(acc.doc, k, e, Undef)
                         IN  [doc |-> c.doc, kids |-> Append(acc.kids, c.vnode)]
    IN  FoldLeft(child, [doc |-> d, kids |-> <<>>], v.kids)

\* addVnodes.  [doc, kids].
AddVnodes(d, p, ref, vs) ==
    LET add(acc, v) == LET c == CreateElm(acc.doc, v, p, ref)
                       IN  [doc |-> c.doc, kids |-> Append(acc.kids, c.vnode)]
    IN  FoldLeft(add, [doc |-> d, kids |-> <<>>], vs)

\* Faulty: the elements inside are forgotten.
DestroyOuter(d, v) == IF v.data = {} THEN d ELSE [d EXCEPT !.destroyed = Append(@, v.elm)]

RECURSIVE InvokeDestroyHook(_, _)
InvokeDestroyHook(d, v) ==
    FoldLeft(InvokeDestroyHook,
             IF v.data = {} THEN d ELSE [d EXCEPT !.destroyed = Append(@, v.elm)], v.kids)

\* remove$$1 of createRmCb: the last listener removes the element.
CallRm(d, e) ==
    IF d.rm[e] = 1
    THEN RemoveNode([d EXCEPT !.rm = [x \in DOMAIN @ \ {e} |-> @[x]]], e)
    ELSE [d EXCEPT !.rm[e] = @ - 1]

\* removeAndInvokeRemoveHook: the leave transition and the caller are the
\* listeners; without a transition both are done at once.
RemoveAndInvokeRemoveHook(d, v) ==
    IF v.data = {} THEN RemoveNode(d, v.elm)
    ELSE LET asked == [d EXCEPT !.rm = @ @@ (v.elm :> 2)]
             left == IF "leaves" \in v.data THEN asked ELSE CallRm(asked, v.elm)
         IN  CallRm(left, v.elm)

\* removeVnodes: holes are vnodes that were moved.
RemoveVnodes(d, vs) ==
    LET remove(acc, v) ==
            IF v = Undef THEN acc
            ELSE IF v.tag = NoTag THEN RemoveNode(acc, v.elm)
            ELSE InvokeDestroyHook(RemoveAndInvokeRemoveHook(acc, v), v)
    IN  FoldLeft(remove, d, vs)

-----------------------------------------------------------------------------
(* Patching. *)

\* createKeyToOldIdx.
CreateKeyToOldIdx(children, first, last) ==
    [k \in {children[i].key : i \in first .. last} \ {NoKey} |->
        Max({i \in first .. last : children[i].key = k})]

\* findIdxInOld: the last was compared before.
FindIdxInOld(v, old, first, last) ==
    {i \in first .. last - 1 : old[i] # Undef /\ SameVnode(v, old[i])}

\* Faulty: only the ends are compared.
NoLookup(v, u) == 0

\* Where the old vnode for a new one is, 0 for nowhere.
IdxInOld(v, u) ==
    IF v.key # NoKey THEN (IF v.key \in DOMAIN u.keys THEN u.keys[v.key] ELSE 0)
    ELSE LET at == FindIdxInOld(v, u.old, u.oldStart, u.oldEnd) IN IF at = {} THEN 0 ELSE Min(at)

RECURSIVE PatchVnode(_, _, _), UpdateChildren(_, _)

\* patchVnode: the element is kept, the modules update it.  [doc, vnode].
PatchVnode(d, old, v) ==
    LET shown == [d EXCEPT !.shows[old.elm] = v.data \union {v.text}]
        end == IF old.kids # <<>> /\ v.kids # <<>>
               THEN UpdateChildren([doc |-> shown, old |-> old.kids, new |-> v.kids,
                                    oldStart |-> 1, oldEnd |-> Len(old.kids),
                                    newStart |-> 1, newEnd |-> Len(v.kids), keys |-> Undef], old.elm)
               ELSE IF v.kids # <<>> THEN AddVnodes(shown, old.elm, Undef, v.kids)
               ELSE [doc |-> RemoveVnodes(shown, old.kids), kids |-> <<>>]
    IN  [doc |-> end.doc, vnode |-> [elm |-> old.elm, kids |-> end.kids] @@ v]

\* Patches old vnode i into new vnode j.
PatchAt(u, i, j) ==
    LET p == PatchVnode(u.doc, u.old[i], u.new[j])
    IN  [u EXCEPT !.doc = p.doc, !.new[j] = p.vnode]

CreateAt(u, j, parent) ==
    LET c == CreateElm(u.doc, u.new[j], parent, u.old[u.oldStart].elm)
    IN  [u EXCEPT !.doc = c.doc, !.new[j] = c.vnode]

\* A node that no end matches: found by its key, or for want of one by its kind,
\* it is moved to the front; otherwise, or when another kind of element had the
\* key, it is made.
PlaceNew(u, parent) ==
    LET v == u.new[u.newStart]
        keyed == IF u.keys = Undef
                 THEN [u EXCEPT !.keys = CreateKeyToOldIdx(u.old, u.oldStart, u.oldEnd)] ELSE u
        i == IdxInOld(v, keyed)
        placed == IF i # 0 /\ SameVnode(u.old[i], v)
                  THEN LET p == PatchAt(keyed, i, u.newStart)
                       IN  [p EXCEPT !.doc = InsertBefore(@, parent, u.old[i].elm, u.old[u.oldStart].elm),
                                     !.old[i] = Undef]
                  ELSE CreateAt(keyed, u.newStart, parent)
    IN  [placed EXCEPT !.newStart = @ + 1]

\* updateChildren: one turn of the loop, or its end.  [doc, kids].
UpdateChildren(u, parent) ==
    LET oldS == u.old[u.oldStart]  oldE == u.old[u.oldEnd]
        newS == u.new[u.newStart]  newE == u.new[u.newEnd]
    IN  IF u.oldStart > u.oldEnd
        THEN LET after == IF u.newEnd = Len(u.new) THEN Undef ELSE u.new[u.newEnd + 1].elm
                 added == AddVnodes(u.doc, parent, after, SubSeq(u.new, u.newStart, u.newEnd))
             IN  [doc |-> added.doc,
                  kids |-> SubSeq(u.new, 1, u.newStart - 1) \o added.kids \o SubSeq(u.new, u.newEnd + 1, Len(u.new))]
        ELSE IF u.newStart > u.newEnd
        THEN [doc |-> RemoveVnodes(u.doc, SubSeq(u.old, u.oldStart, u.oldEnd)), kids |-> u.new]
        ELSE IF oldS = Undef THEN UpdateChildren([u EXCEPT !.oldStart = @ + 1], parent)
        ELSE IF oldE = Undef THEN UpdateChildren([u EXCEPT !.oldEnd = @ - 1], parent)
        ELSE IF SameVnode(oldS, newS)
        THEN UpdateChildren([PatchAt(u, u.oldStart, u.newStart) EXCEPT !.oldStart = @ + 1, !.newStart = @ + 1],
                            parent)
        ELSE IF SameVnode(oldE, newE)
        THEN UpdateChildren([PatchAt(u, u.oldEnd, u.newEnd) EXCEPT !.oldEnd = @ - 1, !.newEnd = @ - 1], parent)
        ELSE IF SameVnode(oldS, newE)   \* moved right
        THEN LET p == PatchAt(u, u.oldStart, u.newEnd)
             IN  UpdateChildren([p EXCEPT !.doc = InsertBefore(@, parent, oldS.elm, NextSibling(@, oldE.elm)),
                                          !.oldStart = @ + 1, !.newEnd = @ - 1], parent)
        ELSE IF SameVnode(oldE, newS)   \* moved left
        THEN LET p == PatchAt(u, u.oldEnd, u.newStart)
             IN  UpdateChildren([p EXCEPT !.doc = InsertBefore(@, parent, oldE.elm, oldS.elm),
                                          !.oldEnd = @ - 1, !.newStart = @ + 1], parent)
        ELSE UpdateChildren(PlaceNew(u, parent), parent)

\* invokeInsertHook.
InvokeInsertHook(d) == [d EXCEPT !.mounted = @ \o d.pending, !.pending = <<>>]

\* patch: a root of the same kind is patched, any other is replaced.
Patch(v) ==
    LET end == IF SameVnode(vnode, v) THEN PatchVnode(doc, vnode, v)
               ELSE LET c == CreateElm(doc, v, Body, NextSibling(doc, vnode.elm))
                    IN  [doc |-> RemoveVnodes(c.doc, <<vnode>>), vnode |-> c.vnode]
    IN  doc' = InvokeInsertHook(end.doc) /\ vnode' = end.vnode

-----------------------------------------------------------------------------

Host == [key |-> NoKey, tag |-> "host", data |-> {}, text |-> "", kids |-> <<>>]

\* A document that holds an element to mount on and a script.
PatchInit ==
    /\ vnode = Undef /\ patches = 0
    /\ doc = AddVnodes(EmptyDoc, Body, Undef, <<Host, [Host EXCEPT !.tag = "script"]>>).doc

\* The first patch replaces the element.
Mount ==
    /\ vnode = Undef
    /\ \E v \in Tree :
          LET c == CreateElm(doc, v, Body, NextSibling(doc, 1))
          IN  doc' = InvokeInsertHook(RemoveNode(c.doc, 1)) /\ vnode' = c.vnode
    /\ UNCHANGED patches

Render ==
    /\ vnode # Undef /\ patches < MaxPatches
    /\ patches' = patches + 1
    /\ \E v \in Tree : Patch(v)

\* The end of a leave transition calls rm.
LeaveEnds ==
    /\ \E e \in DOMAIN doc.rm : doc' = CallRm(doc, e)
    /\ UNCHANGED <<vnode, patches>>

PatchNext == Mount \/ Render \/ LeaveEnds

PatchSpec == PatchInit /\ [][PatchNext]_patchVars

-----------------------------------------------------------------------------

RECURSIVE Shape(_), Elms(_)

\* The elements of a rendered vnode as they should be in the document, and those
\* that have hooks.
Shape(v) == [elm |-> v.elm, shows |-> v.data \union {v.text}, kids |-> [i \in DOMAIN v.kids |-> Shape(v.kids[i])]]
Elms(v) == (IF v.data = {} THEN {} ELSE {v.elm}) \union UNION {Elms(v.kids[i]) : i \in DOMAIN v.kids}

RECURSIVE InDocument(_)

\* The element as it is, but for what leaves.
InDocument(e) ==
    LET ks == SelectSeq(doc.kids[e], LAMBDA k : k \notin DOMAIN doc.rm)
    IN  [elm |-> e, shows |-> doc.shows[e], kids |-> [i \in DOMAIN ks |-> InDocument(ks[i])]]

\* After every patch the document shows the rendered tree, in its order, next to
\* the script: whatever was moved, made or removed before, and whatever leaves
\* among it (updateChildren, removeVnodes, createRmCb).
DocumentShowsTree ==
    vnode # Undef =>
    LET ks == InDocument(Body).kids
    IN  Len(ks) = 2 /\ ks[1] = Shape(vnode) /\ ks[2].elm = 2

\* The hooks of an element run once each: create and insert for every element
\* that has them, destroy for those that are no longer in the tree and for no
\* other (createElm, invokeInsertHook, invokeDestroyHook).
HooksRunOnce ==
    vnode # Undef =>
    /\ IsInjective(doc.made) /\ IsInjective(doc.mounted) /\ IsInjective(doc.destroyed)
    /\ Range(doc.made) = Range(doc.mounted)
    /\ Elms(vnode) = Range(doc.made) \ Range(doc.destroyed)

RECURSIVE KeyedKept(_, _)
KeyedKept(old, new) ==
    old.elm = new.elm =>
        \A i \in DOMAIN old.kids, j \in DOMAIN new.kids :
            LET a == old.kids[i]  b == new.kids[j]
            IN  /\ (a.key # NoKey /\ SameVnode(a, b)) => a.elm = b.elm
                /\ KeyedKept(a, b)

\* A child with a key keeps its element, wherever it goes among its siblings.
KeyedChildrenKept == [][vnode # Undef => KeyedKept(vnode, vnode')]_vnode

=============================================================================
