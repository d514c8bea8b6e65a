---------------------------- MODULE EventBuilder ----------------------------
(***************************************************************************)
(* EventBuilder: a program is unrolled into its access events, loops run      *)
(* iteration by iteration and calls expanded in place.  The recursion of       *)
(* visit_v2 is a stack of frames, one for every loop body and every function   *)
(* body being visited; loop_stack is the one vector all the calls share.       *)
(*                                                                         *)
(* A node is a record with the fields of its struct; an object id is a pair    *)
(* <<scope, name>>, <<callee, param>> standing for "function:callee::param:    *)
(* param"; an index expression is the sequence of its signed terms.  An event  *)
(* keeps, beside its offset, the path of values it was computed from.          *)
(***************************************************************************)
EXTENDS AddressResolver

VARIABLES program,     \* the ApProgram
          roots_left,  \* roots still to visit
          stack,       \* frames of visit_v2, the innermost first
          loop_stack,  \* the active loops, the innermost last
          out,         \* the events so far
          status       \* "loading", "running", "done", or "failed" after an exception

builderVars == <<program, roots_left, stack, loop_stack, out, status>>

NoLoop == [kind |-> "None"]

NoProgram == [functions |-> << >>, params |-> << >>, roots |-> << >>,
              objects |-> << >>, structs |-> << >>]

\* A frame: the nodes left to visit, and what the recursion passes along.
FunctionFrame(body, path, bindings, subst) ==
  [todo |-> body, path |-> path, bindings |-> bindings, subst |-> subst, loop |-> NoLoop]

-----------------------------------------------------------------------------
\* The loops by the names of their variables, inner ones over outer ones.
LoopVars(loops) ==
  [v \in {f.var : f \in Range(loops)} |->
     loops[Max({k \in DOMAIN loops : loops[k].var = v})].iter]

\* The variables an index may name: the loops, and the bound parameters over all
\* of them.
Vars(loops, bindings) ==
  LET iters == LoopVars(loops)
  IN  [v \in DOMAIN bindings \cup DOMAIN iters |->
         IF v \in DOMAIN bindings THEN bindings[v] ELSE iters[v]]

IsLiteral(term) == term.var = NoName

\* eval_index throws on an empty expression and on a variable it does not know.
Evaluates(expr, vars) ==
  expr # << >> /\ \A t \in Range(expr) : IsLiteral(t) \/ t.var \in DOMAIN vars

EvalIndex(expr, vars) ==
  LET Value(t) == t.sign * (IF IsLiteral(t) THEN t.lit ELSE vars[t.var])
  IN  FoldFunction(+, 0, [k \in DOMAIN expr |-> Value(expr[k])])

PathEvaluates(path, vars) ==
  \A step \in Range(path) : IsField(step) \/ Evaluates(step.expr, vars)

\* The path with its indices evaluated.
EvalPath(path, vars) ==
  [k \in DOMAIN path |-> IF IsField(path[k]) THEN path[k]
                         ELSE [index |-> EvalIndex(path[k].expr, vars)]]

\* The object an id stands for once the parameters are replaced.
ResolveObject(id, subst) == IF id \in DOMAIN subst THEN subst[id] ELSE id

-----------------------------------------------------------------------------
top  == Head(stack)
node == Head(top.todo)

\* The stack once the node at hand is visited.
Visited == <<[top EXCEPT !.todo = Tail(@)]>> \o Tail(stack)

Visiting(kind) ==
  /\ status = "running" /\ stack # << >>
  /\ top.todo # << >> /\ node.kind = kind

BuilderInit ==
  /\ program = NoProgram /\ roots_left = << >>
  /\ stack = << >> /\ loop_stack = << >> /\ out = << >>
  /\ status = "loading"

\* build_program is called.
Begin(p) ==
  /\ status = "loading"
  /\ program' = p /\ roots_left' = p.roots
  /\ status' = "running"
  /\ UNCHANGED <<stack, loop_stack, out>>

\* build_program's loop: the body of the next root, if there is such a function.
VisitRoot ==
  /\ status = "running" /\ stack = << >> /\ roots_left # << >>
  /\ roots_left' = Tail(roots_left)
  /\ stack' = LET root == Head(roots_left)
              IN  IF root \in DOMAIN program.functions
                  THEN <<FunctionFrame(program.functions[root], <<root>>, << >>, << >>)>>
                  ELSE << >>
  /\ UNCHANGED <<program, loop_stack, out, status>>

Finish ==
  /\ status = "running" /\ stack = << >> /\ roots_left = << >>
  /\ status' = "done"
  /\ UNCHANGED <<program, roots_left, stack, loop_stack, out>>

\* An event of the node at hand.
Event(path, byte_offset) ==
  [object_name |-> ResolveObject(node.object, top.subst), path |-> path,
   byte_offset |-> byte_offset, op |-> node.op,
   region_path |-> top.path, loop_stack |-> loop_stack]

VisitScalar ==
  /\ Visiting("Scalar")
  /\ out' = Append(out, Event(<< >>, 0))
  /\ stack' = Visited
  /\ UNCHANGED <<program, roots_left, loop_stack, status>>

\* An exception leaves build_program: the events are lost and the run ends.
Throw ==
  /\ status' = "failed"
  /\ UNCHANGED <<program, roots_left, stack, loop_stack, out>>

LayoutOf(id) == IF id \in DOMAIN program.objects THEN program.objects[id] ELSE NoLayout

VisitArray ==
  LET vars   == Vars(loop_stack, top.bindings)
      path   == EvalPath(node.access_path, vars)
      layout == LayoutOf(ResolveObject(node.object, top.subst))
  IN  /\ Visiting("Array")
      /\ IF PathEvaluates(node.access_path, vars) /\ Resolves(layout, path, program.structs)
         THEN /\ out' = Append(out, Event(path, resolve_offset(layout, path, program.structs)))
              /\ stack' = Visited
              /\ UNCHANGED <<program, roots_left, loop_stack, status>>
         ELSE Throw

\* The loop's first iteration; a loop without one is passed over.
VisitLoop ==
  /\ Visiting("Loop")
  /\ IF node.start < node.bound
     THEN /\ stack' = <<[top EXCEPT !.todo = node.body, !.loop = node]>> \o Visited
          /\ loop_stack' = Append(loop_stack, [var |-> node.var, iter |-> node.start])
     ELSE stack' = Visited /\ UNCHANGED loop_stack
  /\ UNCHANGED <<program, roots_left, out, status>>

\* A variant of NextIteration: the iteration is begun again.
NextIterationAgain ==
  /\ status = "running" /\ stack # << >>
  /\ top.todo = << >> /\ top.loop # NoLoop
  /\ IF Last(loop_stack).iter < top.loop.bound
     THEN stack' = <<[top EXCEPT !.todo = top.loop.body]>> \o Tail(stack) /\ UNCHANGED loop_stack
     ELSE stack' = Tail(stack) /\ loop_stack' = Front(loop_stack)
  /\ UNCHANGED <<program, roots_left, out, status>>

\* A variant of NextIteration: the last iteration of a loop is left active.
NextIterationLeaving ==
  LET iter == Last(loop_stack).iter + 1
  IN  /\ status = "running" /\ stack # << >>
      /\ top.todo = << >> /\ top.loop # NoLoop
      /\ IF iter < top.loop.bound
         THEN /\ stack' = <<[top EXCEPT !.todo = top.loop.body]>> \o Tail(stack)
              /\ loop_stack' = Append(Front(loop_stack), [var |-> top.loop.var, iter |-> iter])
         ELSE stack' = Tail(stack) /\ UNCHANGED loop_stack
      /\ UNCHANGED <<program, roots_left, out, status>>

\* The next iteration once the body is visited, or the end of the loop.
NextIteration ==
  LET iter == Last(loop_stack).iter + 1
  IN  /\ status = "running" /\ stack # << >>
      /\ top.todo = << >> /\ top.loop # NoLoop
      /\ IF iter < top.loop.bound
         THEN /\ stack' = <<[top EXCEPT !.todo = top.loop.body]>> \o Tail(stack)
              /\ loop_stack' = Append(Front(loop_stack), [var |-> top.loop.var, iter |-> iter])
         ELSE stack' = Tail(stack) /\ loop_stack' = Front(loop_stack)
      /\ UNCHANGED <<program, roots_left, out, status>>

\* The positions of the arguments that bind a parameter of the callee.
Bound(call) ==
  IF call.callee \in DOMAIN program.params
  THEN 1 .. Min({Len(program.params[call.callee]), Len(call.arg_objects)})
  ELSE {}

\* An argument that resolves to a registered object replaces the parameter's
\* object; any other argument is evaluated as an index, in the caller's scope.
IsObjectArg(arg, subst) == arg.is_object /\ ResolveObject(arg.object, subst) \in DOMAIN program.objects

ObjectArgs(call, subst) == {k \in Bound(call) : IsObjectArg(call.arg_objects[k], subst)}

\* The last of some positions that binds a parameter.
Binding(call, positions, param) ==
  Max({k \in positions : program.params[call.callee][k] = param})

\* A variant of CalleeSubst: what the caller replaced stays replaced.
CalleeSubstOver(call, subst) ==
  LET args == ObjectArgs(call, subst)
  IN  [id \in {<<call.callee, program.params[call.callee][k]>> : k \in args} |->
         call.arg_objects[Binding(call, args, id[2])].object]

CalleeSubst(call, subst) ==
  LET args == ObjectArgs(call, subst)
  IN  [id \in {<<call.callee, program.params[call.callee][k]>> : k \in args} |->
         ResolveObject(call.arg_objects[Binding(call, args, id[2])].object, subst)]

CalleeBindings(call, subst, vars) ==
  LET args == Bound(call) \ ObjectArgs(call, subst)
  IN  [p \in {program.params[call.callee][k] : k \in args} |->
         EvalIndex(call.arg_objects[Binding(call, args, p)].expr, vars)]

\* A call of a function the module does not define is passed over.
VisitCall ==
  LET vars == Vars(loop_stack, top.bindings)
  IN  /\ Visiting("Call")
      /\ IF node.callee \notin DOMAIN program.functions
         THEN stack' = Visited /\ UNCHANGED <<program, roots_left, loop_stack, out, status>>
         ELSE IF \A k \in Bound(node) :
                   LET arg == node.arg_objects[k]
                   IN  IsObjectArg(arg, top.subst) \/ (~arg.is_object /\ Evaluates(arg.expr, vars))
         THEN /\ stack' = <<FunctionFrame(program.functions[node.callee],
                                          Append(top.path, node.callee),
                                          CalleeBindings(node, top.subst, vars),
                                          CalleeSubst(node, top.subst))>> \o Visited
              /\ UNCHANGED <<program, roots_left, loop_stack, out, status>>
         ELSE Throw

\* The end of a function's body.
Return ==
  /\ status = "running" /\ stack # << >>
  /\ top.todo = << >> /\ top.loop = NoLoop
  /\ stack' = Tail(stack)
  /\ UNCHANGED <<program, roots_left, loop_stack, out, status>>

\* One step of the call, from its start to its return or an exception.
BuilderStep ==
  \/ VisitRoot \/ Finish
  \/ VisitScalar \/ VisitArray \/ VisitLoop \/ NextIteration \/ VisitCall \/ Return

-----------------------------------------------------------------------------
\* The frames, the outermost first, and those of loops among the first d of them.
Frames        == Reverse(stack)
LoopsAmong(d) == {k \in 1..d : Frames[k].loop # NoLoop}

\* The shared vector of loops is the one the frames on the stack describe, with
\* an iteration of each loop that the loop really has: every return, whether from
\* a loop or from a call in the middle of one, leaves the caller's loops as they
\* were (visit_v2, push_back and pop_back around the recursion).
LoopsNest ==
  /\ Len(loop_stack) = Cardinality(LoopsAmong(Len(stack)))
  /\ \A d \in LoopsAmong(Len(stack)) :
       LET active == loop_stack[Cardinality(LoopsAmong(d))]
           loop   == Frames[d].loop
       IN  active.var = loop.var /\ active.iter \in loop.start .. (loop.bound - 1)

\* A program without recursion is unrolled to its end, or rejected: no loop and
\* no call keeps the builder going for ever (build_program returns or throws).
Terminates == <>(status \in {"done", "failed"})
=============================================================================
