---------------------------- MODULE MCUnrolling -----------------------------
(* Small documents: a root m, in a loop or not, calls t(x, n), which may call
   u(y, n) in turn, with objects and indices handed on in all ways; functions given
   twice, keys left out, and documents that do not load. *)
EXTENDS Unrolling

Lit(n)    == <<[sign |-> 1, var |-> "", lit |-> n]>>
Var(v)    == <<[sign |-> 1, var |-> v, lit |-> 0]>>
Less(v,n) == Var(v) \o <<[sign |-> -1, var |-> "", lit |-> n]>>
Sum(v, w) == Var(v) \o Var(w)

A == <<"global", "a">>
B == <<"global", "b">>
X == <<"t", "x">>
Y == <<"u", "y">>

Array(id, expr, op) == [type |-> "Array", object |-> id, op |-> op,
                        access_path |-> <<[kind |-> "index", value |-> expr]>>]
Named(id, op)    == [type |-> "Scalar", name |-> id, op |-> op]
Whole(id, op)    == [type |-> "Array", object |-> id, op |-> op]
Loop(v, n, body) == [type |-> "Loop", var |-> v, start |-> 0, bound |-> n, body |-> body]
Call(f, args)    == [type |-> "Call", callee |-> f, arg_objects |-> args]
ObjectArg(id)    == [is_object |-> TRUE, object |-> id, expr |-> << >>]
IndexArg(expr)   == [is_object |-> FALSE, object |-> A, expr |-> expr]

\* What u(y, n) does: its own loop may have the name of a parameter of its own or
\* of a loop above it; the caller's loop i is not its to name.
UBodies ==
  {<<Array(Y, Var("n"), "load")>>,
   <<Loop("i", 2, <<Array(Y, Sum("i", "n"), "store")>>)>>,
   <<Loop("n", 2, <<Array(Y, Var("n"), "store")>>)>>,
   <<Array(Y, Var("i"), "load")>>}

\* What t(x, n) does around its call of u.
TBodies ==
  {<<Array(X, Less("n", 1), "load")>>} \cup
  {<<Loop("j", 2, <<Call("u", <<o, e>>)>>), Named(B, "store")>> :
     o \in {ObjectArg(X), ObjectArg(A), ObjectArg(<<"global", "gone">>)},
     e \in {IndexArg(Sum("j", "n")), IndexArg(Lit(1)), IndexArg(<< >>)}}

\* What the root m does: calls in a loop, in no loop, in a loop without iterations.
MBodies ==
  {<<Loop("i", n, <<Call("t", <<ObjectArg(B), IndexArg(e)>>)>>), Whole(A, "load")>> :
     n \in {0, 2}, e \in {Var("i"), Lit(2)}} \cup
  {<<Call("t", <<ObjectArg(A), IndexArg(Lit(1))>>), [type |-> "Call", callee |-> "printf"]>>,
   <<Call("t", <<ObjectArg(A)>>)>>,
   <<Loop("i", 1, << >>), Named(A, "load")>>}

M(body) == [function |-> "m", body |-> body, annotations |-> <<"inline", "yard.analyze">>]
T(body) == [function |-> "t", body |-> body, params |-> <<"x", "n">>]
U(body) == [function |-> "u", body |-> body, params |-> <<"y", "n">>, annotations |-> << >>]

Layout == [elem_size |-> 4, shape |-> <<4>>]
Document(functions) ==
  [metadata |-> [objects |-> [id \in {A, B, X, Y} |-> Layout]], functions |-> functions]

Modules == {<<M(m), T(t), U(u)>> : m \in MBodies, t \in TBodies, u \in UBodies}

\* A function may be given again, with another body, parameters or annotation.
MBody == <<Call("t", <<ObjectArg(A), IndexArg(Lit(1))>>)>>
Repeated ==
  {<<M(<<Named(B, "load")>>), T(t), U(u), M(m)>> : m \in MBodies, t \in TBodies, u \in UBodies}
    \cup {<<M(MBody), T(t), [T(<<Named(B, "store")>>) EXCEPT !.params = <<"n", "x">>]>> :
            t \in TBodies}

\* Keys missing or of another kind, and a node of a type there is none.
BadNodes ==
  {[type |-> "While"], [var |-> "i"], [type |-> "Loop", var |-> "i", start |-> 0, body |-> << >>],
   Loop("i", Malformed, << >>), Loop("i", 0, <<[type |-> "Call"]>>),
   [type |-> "Scalar", object |-> Malformed, op |-> "load"],
   [type |-> "Array", object |-> A, op |-> "load", access_path |-> <<[kind |-> "index"]>>]}

BadDocuments ==
  {Document(<<M(<<Named(B, "load"), n>>)>>) : n \in BadNodes} \cup
  {Document(<<M(<< >>), [T(<< >>) EXCEPT !.params = <<Malformed>>]>>),
   Document(<<[function |-> "m"]>>), [functions |-> <<M(<< >>)>>],
   [metadata |-> [structs |-> [S |-> [size |-> 4]]], functions |-> <<M(<< >>)>>],
   [metadata |-> [structs |-> [S |-> [fields |-> <<[offset |-> Malformed]>>]]], functions |-> <<M(<< >>)>>],
   [metadata |-> [objects |-> [o |-> [elem_size |-> Malformed]]], functions |-> <<M(<< >>)>>]}

SmallDocuments == {Document(fns) : fns \in Modules \cup Repeated} \cup BadDocuments

RECURSIVE DepthOf(_), NodesIn(_)
DepthOf(n) == 1 + Max({0} \cup {DepthOf(c) : c \in Range(ValueOr(n, "body", << >>))})
NodesIn(n) == {n} \cup UNION {NodesIn(c) : c \in Range(ValueOr(n, "body", << >>))}

SmallDepth ==
  [n \in UNION {NodesIn(top_node) :
           top_node \in UNION {Range(ValueOr(fn, "body", << >>)) :
                                 fn \in UNION {Range(doc.functions) : doc \in SmallDocuments}}}
     |-> DepthOf(n)]
=============================================================================
