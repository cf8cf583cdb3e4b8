-------------------------------- MODULE Html --------------------------------
(***************************************************************************)
(* The builder of html/html.go.  A page is made of nodes that are made of  *)
(* arguments: children, texts, attributes, lists of those (Ch), nil and    *)
(* the empty Nil().  Nodes are pointers, and a node made once may be used  *)
(* in many pages, as the package's DaisyUI and HTMX are by every request,  *)
(* so they are numbers in a heap here.  RenderCtx gives a sequence of      *)
(* tokens; the order of attributes, which map iteration leaves open, and   *)
(* escaping are left out, as are the fields locator and baseURL of a node, *)
(* which nothing sets, and lists inside lists.                             *)
(***************************************************************************)
EXTENDS Naturals, Sequences, SequencesExt, Functions

CONSTANTS
    Tags,        \* names of elements
    Words,       \* texts and values of attributes
    Keys,        \* names of attributes
    Urls,        \* what URL attributes are given
    Local,       \* those that begin with "/"
    Root,        \* the baseURL Render puts in the context; Render() has none
    MaxNodes, MaxList

\* An element has a name: the empty one is Nil()'s.
ASSUME HtmlAssumption == "" \notin Tags

VARIABLES
    heap,        \* heap[n]: the fields of node n
    made         \* made[n]: the tag and arguments n was made of (history)

\* Nodes that transform their parent, and nodes that are children of it.
Text(s) == [op |-> "text", s |-> s]
Raw(s) == [op |-> "raw", s |-> s]
Attr(k, v) == [op |-> "attr", k |-> k, v |-> v]
UrlAttr(k, u) == [op |-> "url", k |-> k, v |-> u]
Ch(c) == [op |-> "list", c |-> c]
Child(n) == [op |-> "child", n |-> n]
nil == [op |-> "nil"]

NoAttrs == [k \in {} |-> ""]
EmptyNode(tag) ==
    [Name |-> tag, Attrs |-> NoAttrs, DynamicAttrs |-> NoAttrs,
     Children |-> <<>>, text |-> "", raw |-> ""]
Nil == EmptyNode("")

Assigned(attrs, k, v) == [x \in DOMAIN attrs \cup {k} |-> IF x = k THEN v ELSE attrs[x]]

Plain(s, o) ==
    CASE o.op = "nil"   -> s
      [] o.op = "text"  -> [s EXCEPT !.text = o.s]
      [] o.op = "raw"   -> [s EXCEPT !.raw = o.s]
      [] o.op = "attr"  -> [s EXCEPT !.Attrs = Assigned(@, o.k, o.v)]
      [] o.op = "url"   -> [s EXCEPT !.DynamicAttrs = Assigned(@, o.k, o.v)]
      [] o.op = "child" -> [s EXCEPT !.Children = Append(@, o.n)]

\* Mutant: the elements of a list are taken for children, whatever they are.
InitListOfChildren(s, o) ==
    IF o.op = "list"
    THEN [s EXCEPT !.Children = @ \o
             [i \in DOMAIN SelectSeq(o.c, LAMBDA x : x.op = "child") |->
                 SelectSeq(o.c, LAMBDA x : x.op = "child")[i].n]]
    ELSE Plain(s, o)

\* Node.Init, with the transform of Ch, which calls it for each element.
NodeInit(s, o) == IF o.op = "list" THEN FoldLeft(Plain, s, o.c) ELSE Plain(s, o)

NewNode(tag, args) == FoldLeft(NodeInit, EmptyNode(tag), args)

-----------------------------------------------------------------------------
\* A URL attribute is computed from the context when it is rendered.
Resolved(base, u) == IF u \in Local THEN base \o <<u>> ELSE <<u>>

Shown(kind, s) == IF s = "" THEN <<>> ELSE <<[tok |-> kind, s |-> s]>>

\* The value of an attribute, and whether a constructor of URL attributes gave it:
\* a plain one may begin with "/" as well (ws-connect of home.go) and is not rooted.
ShownAttr(s, base, k) ==
    IF k \in DOMAIN s.Attrs
    THEN [by |-> "plain", v |-> <<s.Attrs[k]>>]
    ELSE [by |-> "url", v |-> Resolved(base, s.DynamicAttrs[k])]

AttrsShown(s, base) ==
    [k \in DOMAIN s.Attrs \cup DOMAIN s.DynamicAttrs |-> ShownAttr(s, base, k)]
Enclosed(s, attrs, c) ==
    <<[tok |-> "open", tag |-> s.Name, attrs |-> attrs]>> \o c \o <<[tok |-> "close", tag |-> s.Name]>>

\* Mutant: an element is left out unless it has attributes or text of its own.
TaggedByOwnContent(s, base, c) ==
    LET attrs == AttrsShown(s, base)
    IN  IF DOMAIN attrs = {} /\ s.text = "" /\ s.raw = "" THEN <<>> ELSE Enclosed(s, attrs, c)

Tagged(s, base, c) ==
    LET attrs == AttrsShown(s, base)
    IN  IF DOMAIN attrs = {} /\ c = <<>> THEN <<>> ELSE Enclosed(s, attrs, c)

\* Mutant: the children are rendered with Render(), without the context.
RenderCtxTopOnly(base) ==
    LET r[n \in DOMAIN heap, b \in {base, <<>>}] ==
            LET s == heap[n]
                inside == [i \in DOMAIN s.Children |-> r[s.Children[i], <<>>]]
            IN  Tagged(s, b, Shown("text", s.text) \o Shown("raw", s.raw) \o FlattenSeq(inside))
    IN  [n \in DOMAIN heap |-> r[n, base]]

\* A node refers only to nodes made before it.
RenderCtx(base) ==
    LET r[n \in DOMAIN heap] ==
            LET s == heap[n]
                inside == [i \in DOMAIN s.Children |-> r[s.Children[i]]]
            IN  Tagged(s, base, Shown("text", s.text) \o Shown("raw", s.raw) \o FlattenSeq(inside))
    IN  r

-----------------------------------------------------------------------------
\* Nil() is node 1 of every heap.
HtmlInit == heap = <<Nil>> /\ made = <<[tag |-> "", args |-> <<>>]>>

PlainArgs ==
    {nil} \cup {Text(s) : s \in Words} \cup {Raw(s) : s \in Words}
    \cup {Attr(k, v) : k \in Keys, v \in Words} \cup {UrlAttr(k, u) : k \in Keys, u \in Urls}
    \cup {Child(n) : n \in DOMAIN heap}

\* A list, as DefaultLayout gives to Body, or an argument before a shorter one,
\* as in Div(Class(...), Ch(cards)).
Arguments ==
    {<<>>} \cup {<<p>> : p \in PlainArgs}
    \cup {<<Ch(c)>> : c \in BoundedSeq(PlainArgs, MaxList)}
    \cup {<<p, Ch(c)>> : p \in PlainArgs, c \in BoundedSeq(PlainArgs, MaxList - 1)}

Make(tag, args) ==
    /\ Len(heap) < MaxNodes
    /\ heap' = Append(heap, NewNode(tag, args))
    /\ made' = Append(made, [tag |-> tag, args |-> args])

HtmlStep == \E tag \in Tags, args \in Arguments : Make(tag, args)

-----------------------------------------------------------------------------
\* Lists, nil and Nil() leave no trace: a node shows what it would show had
\* its arguments been given one by one without them (If(..., Nil()), Ch(rows)).
IsNothing(o) == o.op = "nil" \/ (o.op = "child" /\ made[o.n].tag = "")
OneByOne(args) ==
    FlattenSeq([i \in DOMAIN args |-> IF args[i].op = "list" THEN args[i].c ELSE <<args[i]>>])
KeepSome(ops, o) == IF IsNothing(o) THEN ops ELSE Append(ops, o)
Unrolled(args) == FoldLeft(KeepSome, <<>>, OneByOne(args))
ListsLeaveNoTrace ==
    LET page == RenderCtx(<<Root>>)
    IN  \A n \in DOMAIN heap :
            LET s == NewNode(made[n].tag, Unrolled(made[n].args))
            IN  page[n] = Tagged(s, <<Root>>, Shown("text", s.text) \o Shown("raw", s.raw)
                              \o FlattenSeq([i \in DOMAIN s.Children |-> page[s.Children[i]]]))

\* Rendered under a root, a page is what it is without one, but that every local
\* URL given to Action, Src, Href or one of the Hx constructors has the root before
\* it, once, at any depth; texts and plain attributes stay, whatever they hold.
RootedAttr(a) ==
    IF a.by = "url" /\ Head(a.v) \in Local
    THEN [by |-> "url", v |-> <<Root>> \o a.v] ELSE a
Rooted(t) ==
    IF t.tok # "open" THEN t
    ELSE [t EXCEPT !.attrs = [k \in DOMAIN @ |-> RootedAttr(@[k])]]
RootReachesAll ==
    LET bare == RenderCtx(<<>>)
    IN  RenderCtx(<<Root>>) =
            [n \in DOMAIN heap |-> [i \in DOMAIN bare[n] |-> Rooted(bare[n][i])]]

\* An element disappears only if neither it nor anything inside it has a text
\* or an attribute: what a page was given is never dropped with its parent.
Inside ==
    LET in[n \in DOMAIN heap] == {n} \cup UNION {in[c] : c \in Range(heap[n].Children)}
    IN  in
Bare(s) == s.text = "" /\ s.raw = "" /\ DOMAIN s.Attrs = {} /\ DOMAIN s.DynamicAttrs = {}
OnlyEmptyDisappears ==
    LET page == RenderCtx(<<Root>>)
        in == Inside
    IN  \A n \in DOMAIN heap : page[n] = <<>> <=> \A m \in in[n] : Bare(heap[m])
=============================================================================
