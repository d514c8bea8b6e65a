----------------------------- MODULE Unrolling ------------------------------
(***************************************************************************)
(* What a document means: the visits execution makes to its nodes, each in a  *)
(* scope, in the order of the text and of the iterations.  The scope of a     *)
(* function holds its parameters and its own loops, and nothing of its        *)
(* caller.  The loader and the builder are held against it.                   *)
(***************************************************************************)
EXTENDS ApLoader

CONSTANT Deepest  \* loops and calls, and types, nest less deep than this

ASSUME DeepestAssumption == Deepest \in Nat

\* A scope: the values of the variables, the objects of the parameters, and
\* where the program is.
OuterScope == [vars |-> << >>, subst |-> << >>, path |-> << >>, loops |-> << >>]

Enter(scope, loop, iter) ==
  [scope EXCEPT !.vars  = [v \in DOMAIN @ \cup {loop.var} |-> IF v = loop.var THEN iter ELSE @[v]],
                !.loops = Append(@, [var |-> loop.var, iter |-> iter])]

IsDefined(name) == \E fn \in Range(document.functions) : fn.function = name

\* A name stands for what was said of it last.
FunctionNamed(name) ==
  LET fns == document.functions
  IN  fns[CHOOSE k \in DOMAIN fns : fns[k].function = name
                                      /\ \A l \in (k + 1) .. Len(fns) : fns[l].function # name]

Parameters(name) == ValueOr(FunctionNamed(name), "params", << >>)
ArgObjects(call) == ValueOr(call, "arg_objects", << >>)

\* The positions at which a call binds a parameter.
Matched(call) == DOMAIN Parameters(call.callee) \cap DOMAIN ArgObjects(call)

\* The parameter a position binds, and what the argument there stands for.
Arguments(call) == {[name |-> Parameters(call.callee)[k], arg |-> ArgObjects(call)[k]] :
                      k \in Matched(call)}

NamesObject(arg, scope) ==
  arg.is_object /\ ResolveObject(arg.object, scope.subst) \in DOMAIN Objects(document.metadata)

CalleeScope(scope, call) ==
  LET args    == Arguments(call)
      objects == {a \in args : NamesObject(a.arg, scope)}
      One(S)  == CHOOSE x \in S : TRUE
  IN  [vars  |-> [p \in {a.name : a \in args \ objects} |->
                    EvalIndex(One({a \in args : a.name = p}).arg.expr, scope.vars)],
       subst |-> [id \in {<<call.callee, a.name>> : a \in objects} |->
                    ResolveObject(One({a \in args : a.name = id[2]}).arg.object, scope.subst)],
       path  |-> Append(scope.path, call.callee),
       loops |-> scope.loops]

\* The steps of an access in a scope; a scalar takes none.
StepsOf(n, scope) ==
  LET path == IF n.type = "Array" THEN ValueOr(n, "access_path", << >>) ELSE << >>
  IN  [k \in DOMAIN path |->
         IF path[k].kind = "field" THEN [field |-> ValueOr(path[k], "index", 0)]
         ELSE [index |-> EvalIndex(path[k].value, scope.vars)]]

\* Every index of a node can be computed in a scope.
StepsInScope(n, scope) ==
  \A s \in Range(ValueOr(n, "access_path", << >>)) :
    s.kind = "field" \/ Evaluates(s.value, scope.vars)

\* A scalar may be known by its name alone.
ObjectNamed(n) ==
  ValueOr(n, "object", IF n.type = "Scalar" THEN ValueOr(n, "name", NoObject) ELSE NoObject)

\* The iterations of a loop; anything else is done once.
Iterations(n) == IF n.type = "Loop" THEN n.start .. (n.bound - 1) ELSE {0}

\* The visits to the nodes of a list in a scope.
Visits(nodes, scope) ==
  UNION {{[at |-> k, iter |-> i, node |-> nodes[k], scope |-> scope] : i \in Iterations(nodes[k])} :
           k \in DOMAIN nodes}

\* Every variable that is named is in scope, every object argument registered, the
\* parameters of a function have names of their own, and no loop takes one of them.
InScope(v) ==
  LET n == v.node
  IN  CASE n.type = "Array" -> StepsInScope(n, v.scope)
        [] n.type = "Loop"  -> n.var \notin Range(Parameters(Last(v.scope.path)))
        [] n.type = "Call" /\ IsDefined(n.callee) ->
             /\ IsInjective(Parameters(n.callee))
             /\ \A a \in Arguments(n) :
                  NamesObject(a.arg, v.scope)
                    \/ (~a.arg.is_object /\ Evaluates(a.arg.expr, v.scope.vars))
        [] OTHER -> TRUE

\* The visits a visit in scope makes in turn, to the body of a loop or of a function.
VisitsIn(v) ==
  IF ~InScope(v) THEN {}
  ELSE CASE v.node.type = "Loop" -> Visits(v.node.body, Enter(v.scope, v.node, v.iter))
         [] v.node.type = "Call" /\ IsDefined(v.node.callee) ->
              Visits(FunctionNamed(v.node.callee).body, CalleeScope(v.scope, v.node))
         [] OTHER -> {}

\* The functions to analyze are called without arguments, as often as they are
\* said to be analyzed.
Main ==
  LET fns == document.functions
  IN  [k \in {k \in DOMAIN fns : IsRoot(fns[k])} |-> [type |-> "Call", callee |-> fns[k].function]]

\* The ways into the program: a visit, one that it makes, and so on, so deep.
TrailsOf[d \in 0 .. Deepest] ==
  IF d = 0 THEN {<< >>}
  ELSE UNION {{Append(t, v) : v \in IF t = << >> THEN Visits(Main, OuterScope) ELSE VisitsIn(Last(t))} :
                t \in TrailsOf[d - 1]}

Trails == UNION {TrailsOf[d] : d \in 1 .. Deepest}

\* Execution is on one trail before it is on another.
Before(t, u) ==
  \E k \in DOMAIN t \cap DOMAIN u :
    /\ \A i \in 1 .. (k - 1) : t[i] = u[i]
    /\ t[k].at < u[k].at \/ (t[k].at = u[k].at /\ t[k].iter < u[k].iter)

AccessTrails == {t \in Trails : Last(t).node.type \in {"Scalar", "Array"}}

\* The access at the end of a trail.
AccessOf(t) ==
  LET n     == Last(t).node
      scope == Last(t).scope
  IN  [object_name |-> ResolveObject(ObjectNamed(n), scope.subst), path |-> StepsOf(n, scope),
       op |-> ValueOr(n, "op", NoName), region_path |-> scope.path, loop_stack |-> scope.loops]

-----------------------------------------------------------------------------
\* The program is without recursion, and all of it is in scope.
ProgramIsScoped == TrailsOf[Deepest] = {} /\ \A t \in Trails : InScope(Last(t))

\* What an event says apart from its offset.
Accesses(events) ==
  [k \in DOMAIN events |-> [f \in DOMAIN events[k] \ {"byte_offset"} |-> events[k][f]]]

\* A document is unrolled into the accesses its text means, in their order and to
\* the last, whatever of its keys are left to their defaults and however often a
\* function is given: no loop variable or parameter of one function is seen by
\* another, although all of them share one vector of loops and the objects of a
\* call are replaced through every call above it (parse_node_v2, visit_v2).
\* Only an access to what no layout has ends it early, and a document that does not
\* load leaves no event behind.
EventsAsWritten ==
  IF ~Loads(document) THEN out = << >> /\ status # "done"
  ELSE ProgramIsScoped =>
         LET trails == AccessTrails
         IN  /\ \A k \in DOMAIN out :
                  \E t \in trails : /\ Cardinality({u \in trails : Before(u, t)}) = k - 1
                                   /\ Accesses(out)[k] = AccessOf(t)
             /\ status = "done" => Len(out) = Cardinality(trails)
             /\ status = "failed" =>
                  \E t \in trails : LET a == AccessOf(t)
                                    IN  ~Resolves(LayoutOf(a.object_name), a.path, program.structs)
=============================================================================
