--------------------------- MODULE UnrollingProofs --------------------------
(***************************************************************************)
(* The events are what the document says.  Every step of an execution is       *)
(* shown to go from one place of the document's text to the next, and what is  *)
(* recorded on the way to be the accesses before it; so the events are the      *)
(* accesses of the text, in their order and to the last, and a run ends early   *)
(* only at an access to what is not there.                                  *)
(***************************************************************************)
EXTENDS ProgramProofs

-----------------------------------------------------------------------------
(* Trails. *)

\* The visits a trail can go on with.
Onward(t) == IF t = << >> THEN Visits(Main, OuterScope) ELSE VisitsIn(Last(t))

\* The trails a step longer than some.
Longer(ts) == UNION {{Append(t, v) : v \in Onward(t)} : t \in ts}

\* The trails of one length are those one shorter, and a visit more.
LEMMA TrailsGrow ==
  /\ DOMAIN TrailsOf = 0 .. Deepest /\ TrailsOf[0] = {<< >>}
  /\ \A d \in 1 .. Deepest : TrailsOf[d] = Longer(TrailsOf[d - 1])
<1> DEFINE Level(g, d) == IF d = 0 THEN {<< >>} ELSE Longer(g[d - 1])
           Solves(g, n) == g = [d \in 0 .. n |-> Level(g, d)]
           S == {n \in Nat : \E g : Solves(g, n)}
<1>1. 0 \in S
  <2> DEFINE g == [d \in 0 .. 0 |-> {<< >>}]
  <2>1. g = [d \in 0 .. 0 |-> Level(g, d)]
    <3>1. \A d \in 0 .. 0 : d = 0
      OBVIOUS
    <3> QED BY <3>1
  <2> QED BY <2>1
<1>2. ASSUME NEW n \in Nat, n \in S PROVE n + 1 \in S
  <2>1. PICK g : Solves(g, n)
    BY <1>2
  <2> DEFINE h == [d \in 0 .. (n + 1) |-> Level(g, d)]
  <2>2. \A d \in 0 .. n : g[d] = Level(g, d)
    BY <2>1, Zenon
  <2> HIDE DEF Level
  <2>3. \A d \in 0 .. n : h[d] = g[d]
    BY <2>2
  <2>4. h = [d \in 0 .. (n + 1) |-> Level(g, d)]
    OBVIOUS
  <2> HIDE DEF h
  <2>5. ASSUME NEW d \in 0 .. (n + 1) PROVE Level(h, d) = Level(g, d)
    <3>1. d = 0 \/ d - 1 \in 0 .. n
      OBVIOUS
    <3>2. d = 0 \/ h[d - 1] = g[d - 1]
      BY <2>3, <3>1
    <3> QED BY <3>2 DEF Level
  <2>6. h = [d \in 0 .. (n + 1) |-> Level(h, d)]
    BY <2>4, <2>5, Zenon
  <2> QED BY <2>6 DEF Level
<1>3. \A n \in Nat : n \in S
  <2> HIDE DEF S
  <2> QED BY <1>1, <1>2, AllNumbers
<1>4. PICK g : Solves(g, Deepest)
  BY <1>3, DeepestAssumption
<1>5. TrailsOf = [d \in 0 .. Deepest |-> Level(TrailsOf, d)]
  BY <1>4 DEF TrailsOf, Longer, Onward
<1>6. \A d \in 0 .. Deepest : TrailsOf[d] = Level(TrailsOf, d)
  BY <1>5, Zenon
<1>7. DOMAIN TrailsOf = 0 .. Deepest
  BY <1>5, Zenon
<1>8. TrailsOf[0] = {<< >>}
  <2>1. 0 \in 0 .. Deepest
    BY DeepestAssumption
  <2> QED BY <1>6, <2>1, Zenon
<1>9. ASSUME NEW d \in 1 .. Deepest PROVE TrailsOf[d] = Longer(TrailsOf[d - 1])
  <2>1. d \in 0 .. Deepest /\ d # 0
    BY DeepestAssumption
  <2> QED BY <1>6, <2>1, Zenon
<1> QED BY <1>7, <1>8, <1>9

\* A way into the program, a visit at a time.
Way(t) ==
  /\ IsArray(t)
  /\ t # << >> => t[1] \in Visits(Main, OuterScope)
  /\ \A k \in 2 .. Len(t) : t[k] \in VisitsIn(t[k - 1])

\* Trails are such ways.
LEMMA TrailsAreWays ==
  ASSUME NEW d \in 0 .. Deepest, NEW t \in TrailsOf[d]
  PROVE  Way(t) /\ Len(t) = d
<1> DEFINE S == {n \in Nat : n <= Deepest => \A u \in TrailsOf[n] : Way(u) /\ Len(u) = n}
<1>1. 0 \in S
  <2>1. TrailsOf[0] = {<< >>}
    BY TrailsGrow
  <2>2. Way(<< >>) /\ Len(<< >>) = 0
    BY DEF Way, IsArray
  <2> QED BY <2>1, <2>2
<1>2. ASSUME NEW n \in Nat, n \in S PROVE n + 1 \in S
  <2> SUFFICES ASSUME n + 1 <= Deepest, NEW u \in TrailsOf[n + 1]
               PROVE  Way(u) /\ Len(u) = n + 1
    OBVIOUS
  <2>1. n <= Deepest /\ n + 1 \in 1 .. Deepest /\ (n + 1) - 1 = n
    BY DeepestAssumption
  <2>2. TrailsOf[n + 1] = Longer(TrailsOf[n])
    BY <2>1, TrailsGrow
  <2>3. PICK w \in TrailsOf[n] : \E v \in Onward(w) : u = Append(w, v)
    BY <2>2 DEF Longer
  <2>4. PICK v \in Onward(w) : u = Append(w, v)
    BY <2>3
  <2>5. Way(w) /\ Len(w) = n
    BY <1>2, <2>1
  <2>6. /\ IsArray(u) /\ u # << >> /\ Len(u) = n + 1 /\ u[n + 1] = v
        /\ \A i \in 1 .. n : u[i] = w[i]
    BY <2>4, <2>5, Appended DEF Way
  <2>7. CASE n = 0
    <3>1. w = << >>
      BY <2>5, <2>7 DEF Way, IsArray
    <3> QED BY <2>4, <2>6, <2>7, <3>1 DEF Way, Onward
  <2>8. CASE n # 0
    <3>1. w # << >> /\ Last(w) = w[n]
      BY <2>5, <2>8 DEF Last
    <3>2. u[n + 1] \in VisitsIn(u[n])
      BY <2>4, <2>6, <2>8, <3>1 DEF Onward
    <3>3. \A k \in 2 .. n : u[k] = w[k] /\ u[k - 1] = w[k - 1]
      BY <2>6
    <3>4. \A k \in 2 .. n : u[k] \in VisitsIn(u[k - 1])
      BY <2>5, <3>3 DEF Way
    <3>5. u[1] \in Visits(Main, OuterScope)
      BY <2>5, <2>6, <2>8, <3>1 DEF Way
    <3>6. \A k \in 2 .. (n + 1) : u[k] \in VisitsIn(u[k - 1])
      <4>1. \A k \in 2 .. (n + 1) : k \in 2 .. n \/ (k = n + 1 /\ k - 1 = n)
        OBVIOUS
      <4> QED BY <3>2, <3>4, <4>1
    <3> QED BY <2>6, <3>5, <3>6 DEF Way
  <2> QED BY <2>7, <2>8
<1>3. \A n \in Nat : n \in S
  <2> HIDE DEF S
  <2> QED BY <1>1, <1>2, AllNumbers
<1>4. d \in Nat /\ d <= Deepest
  BY DeepestAssumption
<1> QED BY <1>3, <1>4

\* A trail goes on, one visit deeper, unless it is deepest.
LEMMA TrailsGoOn ==
  ASSUME TrailsOf[Deepest] = {}, NEW d \in 0 .. Deepest, NEW t \in TrailsOf[d], NEW v \in Onward(t)
  PROVE  d + 1 \in 1 .. Deepest /\ Append(t, v) \in TrailsOf[d + 1] /\ Append(t, v) \in Trails
<1>1. d # Deepest
  OBVIOUS
<1>2. d + 1 \in 1 .. Deepest /\ (d + 1) - 1 = d
  BY <1>1, DeepestAssumption
<1>3. TrailsOf[d + 1] = Longer(TrailsOf[d])
  BY <1>2, TrailsGrow
<1>4. Append(t, v) \in TrailsOf[d + 1]
  BY <1>3 DEF Longer
<1> QED BY <1>2, <1>4 DEF Trails

\* Without its last visit a trail is one.
LEMMA TrailsBack ==
  ASSUME NEW d \in 1 .. Deepest, NEW t \in TrailsOf[d]
  PROVE  /\ d - 1 \in 0 .. Deepest /\ Front(t) \in TrailsOf[d - 1]
         /\ Last(t) \in Onward(Front(t)) /\ t = Append(Front(t), Last(t)) /\ t # << >>
<1>1. d - 1 \in 0 .. Deepest /\ TrailsOf[d] = Longer(TrailsOf[d - 1])
  BY TrailsGrow, DeepestAssumption
<1>2. PICK w \in TrailsOf[d - 1] : \E v \in Onward(w) : t = Append(w, v)
  BY <1>1 DEF Longer
<1>3. PICK v \in Onward(w) : t = Append(w, v)
  BY <1>2
<1>4. IsArray(w)
  BY <1>1, TrailsAreWays DEF Way
<1>5. Front(t) = w /\ Last(t) = v /\ t # << >>
  BY <1>3, <1>4, Appended
<1> QED BY <1>1, <1>3, <1>5

-----------------------------------------------------------------------------
(* The order of execution. *)

\* A visit is one by its place in the list and its iteration.
LEMMA VisitsOfList ==
  ASSUME NEW nodes, NEW scope, NEW v
  PROVE  v \in Visits(nodes, scope) <=>
           /\ v.at \in DOMAIN nodes /\ v.iter \in Iterations(nodes[v.at])
           /\ v = [at |-> v.at, iter |-> v.iter, node |-> nodes[v.at], scope |-> scope]
<1>1. ASSUME NEW k \in DOMAIN nodes, NEW i \in Iterations(nodes[k]),
             v = [at |-> k, iter |-> i, node |-> nodes[k], scope |-> scope]
      PROVE  v.at = k /\ v.iter = i
  BY <1>1
<1> QED BY <1>1 DEF Visits

\* Numbers a visit.
Numbered(v) == v.at \in Int /\ v.iter \in Int

\* A trail goes on from another, or is it.
Through(t, Q) == Len(Q) <= Len(t) /\ \A i \in 1 .. Len(Q) : t[i] = Q[i]

\* A visit is made before another of the same list.
Earlier(v, w) == v.at < w.at \/ (v.at = w.at /\ v.iter < w.iter)

\* A trail that leaves another to be earlier.
Outer(t, Q) ==
  \E k \in 1 .. Len(Q) :
    k <= Len(t) /\ (\A i \in 1 .. (k - 1) : t[i] = Q[i]) /\ Earlier(t[k], Q[k])

\* The trail is before the node at a in the list that Q leads to.
Passed(t, Q, a) ==
  Outer(t, Q) \/ (Through(t, Q) /\ Len(Q) < Len(t) /\ t[Len(Q) + 1].at < a)

\* With one visit more.
LEMMA OneVisitMore ==
  ASSUME NEW t, IsArray(t), NEW Q, IsArray(Q), NEW v
  PROVE  LET R == Append(Q, v)
             n == Len(Q)
         IN  /\ Through(t, R) <=> Through(t, Q) /\ n < Len(t) /\ t[n + 1] = v
             /\ Outer(t, R) <=> Outer(t, Q) \/ (Through(t, Q) /\ n < Len(t) /\ Earlier(t[n + 1], v))
             /\ Len(R) = n + 1 /\ n \in Nat /\ Len(t) \in Nat
<1> DEFINE R == Append(Q, v)
           n == Len(Q)
<1>1. /\ n \in Nat /\ Len(R) = n + 1 /\ R[n + 1] = v /\ \A i \in 1 .. n : R[i] = Q[i]
      /\ Len(t) \in Nat
  <2>1. Len(t) \in Nat
    BY DEF IsArray
  <2> QED BY <2>1, Appended
<1> HIDE DEF R, n
<1>2. Through(t, R) <=> Through(t, Q) /\ n < Len(t) /\ t[n + 1] = v
  <2>1. \A i \in 1 .. (n + 1) : i \in 1 .. n \/ i = n + 1
    BY <1>1
  <2> QED BY <1>1, <2>1 DEF Through, n
<1>3. ASSUME Outer(t, R)
      PROVE  Outer(t, Q) \/ (Through(t, Q) /\ n < Len(t) /\ Earlier(t[n + 1], v))
  <2>1. PICK k \in 1 .. (n + 1) :
          k <= Len(t) /\ (\A i \in 1 .. (k - 1) : t[i] = R[i]) /\ Earlier(t[k], R[k])
    BY <1>1, <1>3 DEF Outer
  <2>2. CASE k = n + 1
    <3>1. k - 1 = n /\ \A i \in 1 .. n : t[i] = R[i]
      BY <1>1, <2>1, <2>2
    <3> QED BY <1>1, <2>1, <2>2, <3>1 DEF Through, n
  <2>3. CASE k # n + 1
    <3>1. k \in 1 .. n /\ \A i \in 1 .. (k - 1) : i \in 1 .. n
      BY <1>1, <2>3
    <3> QED BY <1>1, <2>1, <3>1 DEF Outer, n
  <2> QED BY <2>2, <2>3
<1>4. ASSUME Outer(t, Q)
      PROVE  Outer(t, R)
  <2>1. PICK k \in 1 .. n :
          k <= Len(t) /\ (\A i \in 1 .. (k - 1) : t[i] = Q[i]) /\ Earlier(t[k], Q[k])
    BY <1>4 DEF Outer, n
  <2>2. k \in 1 .. (n + 1) /\ \A i \in 1 .. (k - 1) : i \in 1 .. n
    BY <1>1
  <2> QED BY <1>1, <2>1, <2>2 DEF Outer
<1>5. ASSUME Through(t, Q), n < Len(t), Earlier(t[n + 1], v)
      PROVE  Outer(t, R)
  <2>1. n + 1 \in 1 .. (n + 1) /\ n + 1 <= Len(t) /\ (n + 1) - 1 = n
    BY <1>1, <1>5
  <2>2. \A i \in 1 .. n : t[i] = R[i]
    BY <1>1, <1>5 DEF Through, n
  <2> QED BY <1>1, <1>5, <2>1, <2>2 DEF Outer
<1> QED BY <1>1, <1>2, <1>3, <1>4, <1>5 DEF R, n

\* Past a node are the trails through it, and those before it.
LEMMA PassedNext ==
  ASSUME NEW t, NEW Q, NEW a \in Int, \A i \in 1 .. Len(t) : Numbered(t[i]),
         Len(t) \in Nat, Len(Q) \in Nat
  PROVE  Passed(t, Q, a + 1) <=>
           Passed(t, Q, a) \/ (Through(t, Q) /\ Len(Q) < Len(t) /\ t[Len(Q) + 1].at = a)
<1>1. Len(Q) < Len(t) => t[Len(Q) + 1].at \in Int
  BY DEF Numbered
<1> QED BY <1>1 DEF Passed

\* Into a node, in its first iteration, nothing is passed.
LEMMA PassedInto ==
  ASSUME NEW t, IsArray(t), NEW Q, IsArray(Q), NEW v, Numbered(v),
         \A i \in 1 .. Len(t) : Numbered(t[i]),
         Through(t, Q) /\ Len(Q) < Len(t) /\ t[Len(Q) + 1].at = v.at => t[Len(Q) + 1].iter >= v.iter,
         Through(t, Append(Q, v)) /\ Len(Q) + 1 < Len(t) => t[Len(Q) + 2].at >= 1
  PROVE  Passed(t, Append(Q, v), 1) <=> Passed(t, Q, v.at)
<1> DEFINE n == Len(Q)
<1>1. /\ n \in Nat /\ Len(t) \in Nat /\ Len(Append(Q, v)) = n + 1 /\ (n + 1) + 1 = n + 2
      /\ Through(t, Append(Q, v)) <=> Through(t, Q) /\ n < Len(t) /\ t[n + 1] = v
      /\ Outer(t, Append(Q, v)) <=> Outer(t, Q) \/ (Through(t, Q) /\ n < Len(t) /\ Earlier(t[n + 1], v))
  BY OneVisitMore
<1>2. n < Len(t) => Numbered(t[n + 1])
  BY <1>1
<1>3. n + 1 < Len(t) => Numbered(t[n + 2])
  BY <1>1
<1>4. Passed(t, Append(Q, v), 1) <=> Outer(t, Append(Q, v))
  BY <1>1, <1>3 DEF Passed, Numbered
<1> QED BY <1>1, <1>2, <1>4 DEF Passed, Earlier, Numbered

\* At the end of what is in a visit, all trails through it are passed.
LEMMA PassedThrough ==
  ASSUME NEW t, IsArray(t), NEW Q, IsArray(Q), NEW v, Numbered(v), NEW b \in Int,
         \A i \in 1 .. Len(t) : Numbered(t[i]),
         Through(t, Append(Q, v)) => Len(Q) + 1 < Len(t) /\ t[Len(Q) + 2].at < b,
         Through(t, Q) /\ Len(Q) < Len(t) /\ t[Len(Q) + 1].at = v.at /\ t[Len(Q) + 1].iter = v.iter
           => t[Len(Q) + 1] = v
  PROVE  Passed(t, Append(Q, v), b) <=>
           \/ Outer(t, Q)
           \/ /\ Through(t, Q) /\ Len(Q) < Len(t)
              /\ \/ t[Len(Q) + 1].at < v.at
                 \/ t[Len(Q) + 1].at = v.at /\ t[Len(Q) + 1].iter < v.iter + 1
<1> DEFINE n == Len(Q)
<1>1. /\ n \in Nat /\ Len(t) \in Nat /\ Len(Append(Q, v)) = n + 1 /\ (n + 1) + 1 = n + 2
      /\ Through(t, Append(Q, v)) <=> Through(t, Q) /\ n < Len(t) /\ t[n + 1] = v
      /\ Outer(t, Append(Q, v)) <=> Outer(t, Q) \/ (Through(t, Q) /\ n < Len(t) /\ Earlier(t[n + 1], v))
  BY OneVisitMore
<1>2. n < Len(t) => Numbered(t[n + 1])
  BY <1>1
<1>3. Passed(t, Append(Q, v), b) <=> Outer(t, Append(Q, v)) \/ Through(t, Append(Q, v))
  BY <1>1 DEF Passed
<1> QED BY SMTT(30), <1>1, <1>2, <1>3 DEF Earlier, Numbered


-----------------------------------------------------------------------------
(* The functions of a document. *)

\* The document is one that loads.
Loadable == document \in Documents /\ Loads(document)

\* A name is that of the function the loader takes, and it parses.
LEMMA NamedFunction ==
  ASSUME Loadable, NEW name, IsDefined(name)
  PROVE  /\ IsArray(document.functions) /\ FunctionNamed(name) = Defining(document.functions, name)
         /\ GoodList(FunctionNamed(name).body) /\ IsArray(Parameters(name))
<1> DEFINE fns == document.functions
           n   == Len(fns)
           Chosen(k) == k \in DOMAIN fns /\ fns[k].function = name
                          /\ \A l \in (k + 1) .. n : fns[l].function # name
<1>1. name \in {fn.function : fn \in Range(fns)}
  BY DEF IsDefined
<1>2. /\ IsArray(fns) /\ GoodList(Defining(fns, name).body) /\ IsArray(ValueOr(Defining(fns, name), "params", << >>))
      /\ \E k \in DOMAIN fns : /\ Defining(fns, name) = fns[k] /\ fns[k].function = name
                               /\ \A l \in (k + 1) .. Len(fns) : fns[l].function # name
  BY <1>1, LoadedFunction DEF Loadable
<1>3. n \in Nat /\ DOMAIN fns = 1 .. n
  BY <1>2 DEF IsArray
<1>4. PICK k : Chosen(k) /\ Defining(fns, name) = fns[k]
  BY <1>2
<1> DEFINE c == CHOOSE l \in DOMAIN fns : fns[l].function = name
                                          /\ \A m \in (l + 1) .. Len(fns) : fns[m].function # name
<1>5. FunctionNamed(name) = fns[c]
  BY DEF FunctionNamed
<1>6. Chosen(c)
  BY <1>4
<1> HIDE DEF c
<1>7. c = k
  BY <1>3, <1>4, <1>6
<1>8. FunctionNamed(name) = Defining(fns, name)
  BY <1>4, <1>5, <1>7
<1> QED BY <1>2, <1>8, Zenon DEF Parameters

\* What the program knows of a function.
LEMMA ProgramFunctions ==
  ASSUME Loadable, Ready
  PROVE  /\ \A name : name \in DOMAIN program.functions <=> IsDefined(name)
         /\ \A name : IsDefined(name) =>
              /\ program.functions[name] = ParsedList(FunctionNamed(name).body)
              /\ name \in DOMAIN program.params /\ program.params[name] = Parameters(name)
         /\ program.roots = RootsFrom(document.functions)[1]
         /\ DOMAIN program.objects = DOMAIN Objects(document.metadata)
<1> DEFINE fns   == document.functions
           names == {fn.function : fn \in Range(fns)}
<1>1. DOMAIN program.functions = names /\ DOMAIN program.params = names
  BY DEF Ready, load_program_string
<1>2. \A name : name \in names <=> IsDefined(name)
  BY DEF IsDefined
<1>3. ASSUME NEW name, IsDefined(name)
      PROVE  /\ program.functions[name] = ParsedList(FunctionNamed(name).body)
             /\ program.params[name] = Parameters(name)
  <2>1. name \in names
    BY <1>2, <1>3
  <2>2. FunctionNamed(name) = Defining(fns, name)
    BY <1>3, NamedFunction
  <2>3. program.functions[name] = ParsedList(Defining(fns, name).body)
    BY <2>1 DEF Ready, load_program_string, ParsedList
  <2>4. program.params[name] = ValueOr(Defining(fns, name), "params", << >>)
    BY <2>1 DEF Ready, load_program_string
  <2> QED BY <2>2, <2>3, <2>4, Zenon DEF Parameters
<1>4. program.roots = RootsFrom(fns)[1] /\ DOMAIN program.objects = DOMAIN Objects(document.metadata)
  BY DEF Ready, load_program_string
<1> QED BY <1>1, <1>2, <1>3, <1>4

-----------------------------------------------------------------------------
(* Visits. *)

\* What a visit opens: the list of a loop's body or of a function's, and its scope.
Open(v)    == v.node.type = "Loop" \/ (v.node.type = "Call" /\ IsDefined(v.node.callee))
ListOf(v)  == IF v.node.type = "Loop" THEN v.node.body ELSE FunctionNamed(v.node.callee).body
ScopeOf(v) == IF v.node.type = "Loop" THEN Enter(v.scope, v.node, v.iter) ELSE CalleeScope(v.scope, v.node)

\* A visit makes those to the list it opens, and others none.
LEMMA VisitsOfVisit ==
  ASSUME NEW v
  PROVE  /\ VisitsIn(v) # {} => Open(v) /\ InScope(v)
         /\ Open(v) /\ InScope(v) => VisitsIn(v) = Visits(ListOf(v), ScopeOf(v))
         /\ VisitsIn(v) # {} => VisitsIn(v) = Visits(ListOf(v), ScopeOf(v))
<1>1. CASE ~ InScope(v)
  BY <1>1 DEF VisitsIn
<1>2. CASE InScope(v) /\ v.node.type = "Loop"
  BY <1>2 DEF VisitsIn, Open, ListOf, ScopeOf
<1>3. CASE InScope(v) /\ v.node.type = "Call" /\ IsDefined(v.node.callee)
  BY <1>3 DEF VisitsIn, Open, ListOf, ScopeOf
<1>4. CASE InScope(v) /\ ~ Open(v)
  <2>1. VisitsIn(v) = {}
    BY <1>4 DEF VisitsIn, Open
  <2> QED BY <1>4, <2>1
<1> QED BY <1>1, <1>2, <1>3, <1>4 DEF Open

\* A visit to a node that parses, or to a function to analyze.
GoodVisit(v) ==
  /\ v.at \in Nat \ {0} /\ v.iter \in Int /\ v.iter \in Iterations(v.node)
  /\ Good(v.node) \/ (v.node.type = "Call" /\ IsDefined(v.node.callee))

\* A visit to a list of nodes that parse is such a visit.
LEMMA GoodVisitsOfList ==
  ASSUME NEW nodes, GoodList(nodes), NEW scope, NEW v \in Visits(nodes, scope)
  PROVE  GoodVisit(v) /\ v.scope = scope /\ v.at \in 1 .. Len(nodes) /\ v.node = nodes[v.at]
<1>1. /\ v.at \in DOMAIN nodes /\ v.iter \in Iterations(nodes[v.at])
      /\ v = [at |-> v.at, iter |-> v.iter, node |-> nodes[v.at], scope |-> scope]
  BY VisitsOfList
<1>2. DOMAIN nodes = 1 .. Len(nodes) /\ Len(nodes) \in Nat /\ Good(nodes[v.at])
  BY <1>1 DEF GoodList
<1> DEFINE j == nodes[v.at]
<1>3. v.node = j /\ v.scope = scope
  BY <1>1
<1>4. v.iter \in Int
  <2>1. CASE j.type = "Loop"
    <3>1. KeysParse(j) /\ j \in Nodes
      BY <1>2, GoodNode DEF Good
    <3>2. j.start \in Int /\ j.bound \in Int
      BY <2>1, <3>1, JsonAssumption
    <3>3. v.iter \in j.start .. (j.bound - 1)
      BY <1>1, <2>1 DEF Iterations
    <3> HIDE DEF j
    <3> QED BY <3>2, <3>3
  <2>2. CASE j.type # "Loop"
    BY <1>1, <2>2 DEF Iterations
  <2> QED BY <2>1, <2>2
<1> QED BY <1>1, <1>2, <1>3, <1>4 DEF GoodVisit

\* What a visit opens parses.
LEMMA OpenVisit ==
  ASSUME Loadable, NEW v, GoodVisit(v), Open(v)
  PROVE  GoodList(ListOf(v))
<1>1. CASE v.node.type = "Loop"
  <2>1. Good(v.node)
    BY <1>1 DEF GoodVisit
  <2>2. GoodList(Body(v.node)) /\ Body(v.node) = v.node.body
    BY <1>1, <2>1, GoodNode DEF Body
  <2> QED BY <1>1, <2>2 DEF ListOf
<1>2. CASE v.node.type # "Loop"
  <2>1. IsDefined(v.node.callee)
    BY <1>2 DEF Open
  <2> QED BY <1>2, <2>1, NamedFunction DEF ListOf
<1> QED BY <1>1, <1>2

\* The functions to analyze.
LEMMA MainVisits ==
  ASSUME Loadable, NEW v
  PROVE  /\ IsArray(document.functions)
         /\ v \in Visits(Main, OuterScope) <=>
              LET fns == document.functions
              IN  /\ v.at \in 1 .. Len(fns) /\ IsRoot(fns[v.at])
                  /\ v = [at |-> v.at, iter |-> 0, node |-> [type |-> "Call", callee |-> fns[v.at].function],
                          scope |-> OuterScope]
         /\ v \in Visits(Main, OuterScope) =>
              GoodVisit(v) /\ Open(v) /\ v.scope = OuterScope /\ v.iter = 0
<1> DEFINE fns == document.functions
           call == [type |-> "Call", callee |-> fns[v.at].function]
<1>1. IsArray(fns)
  BY JsonAssumption DEF Loadable, Loads
<1>2. DOMAIN fns = 1 .. Len(fns) /\ Len(fns) \in Nat
  BY <1>1 DEF IsArray
<1>3. DOMAIN Main = {k \in DOMAIN fns : IsRoot(fns[k])}
      /\ \A k \in DOMAIN Main : Main[k] = [type |-> "Call", callee |-> fns[k].function]
  BY DEF Main
<1>4. ASSUME NEW k \in DOMAIN Main PROVE Iterations(Main[k]) = {0}
  <2> DEFINE n == Main[k]
  <2>1. n = [type |-> "Call", callee |-> fns[k].function]
    BY <1>3
  <2> HIDE DEF n
  <2>2. n.type = "Call"
    BY <2>1
  <2> QED BY <2>2 DEF Iterations, n
<1>5. v \in Visits(Main, OuterScope) <=>
        /\ v.at \in 1 .. Len(fns) /\ IsRoot(fns[v.at])
        /\ v = [at |-> v.at, iter |-> 0, node |-> call, scope |-> OuterScope]
  <2>1. v \in Visits(Main, OuterScope) <=>
          /\ v.at \in DOMAIN Main /\ v.iter \in {0}
          /\ v = [at |-> v.at, iter |-> v.iter, node |-> Main[v.at], scope |-> OuterScope]
    BY <1>4, VisitsOfList
  <2>2. v = [at |-> v.at, iter |-> 0, node |-> call, scope |-> OuterScope] => v.iter = 0
    OBVIOUS
  <2>3. v.at \in DOMAIN Main => Main[v.at] = call
    BY <1>3
  <2>4. v.at \in DOMAIN Main <=> v.at \in 1 .. Len(fns) /\ IsRoot(fns[v.at])
    BY <1>2, <1>3
  <2> HIDE DEF call
  <2> QED BY <2>1, <2>2, <2>3, <2>4
<1>6. ASSUME v \in Visits(Main, OuterScope)
      PROVE  GoodVisit(v) /\ Open(v) /\ v.scope = OuterScope /\ v.iter = 0
  <2>1. /\ v.at \in 1 .. Len(fns)
        /\ v = [at |-> v.at, iter |-> 0, node |-> call, scope |-> OuterScope]
    BY <1>5, <1>6
  <2>2. v.iter = 0 /\ v.node = call /\ v.scope = OuterScope
    BY <2>1
  <2>3. call.type = "Call" /\ call.callee = fns[v.at].function
    OBVIOUS
  <2>4. IsDefined(call.callee)
    BY <1>2, <2>1, <2>3 DEF IsDefined, Range
  <2> HIDE DEF call, fns
  <2>5. v.at \in Nat \ {0}
    BY <1>2, <2>1
  <2> QED BY <2>2, <2>3, <2>4, <2>5 DEF GoodVisit, Open, Iterations
<1> QED BY <1>1, <1>5, <1>6

-----------------------------------------------------------------------------
(* Trails of a document. *)

\* A trail visits nodes that parse, each of all but the last in the list it opens.
Journey(t) ==
  /\ IsArray(t) /\ \A i \in 1 .. Len(t) : GoodVisit(t[i])
  /\ t # << >> => t[1] \in Visits(Main, OuterScope)
  /\ \A i \in 2 .. Len(t) :
       /\ Open(t[i - 1]) /\ InScope(t[i - 1]) /\ GoodList(ListOf(t[i - 1]))
       /\ t[i] \in Visits(ListOf(t[i - 1]), ScopeOf(t[i - 1]))
       /\ t[i].at \in 1 .. Len(ListOf(t[i - 1])) /\ t[i].node = ListOf(t[i - 1])[t[i].at]
       /\ t[i].scope = ScopeOf(t[i - 1])

\* A way into a document is such a journey.
LEMMA JourneyOfWay ==
  ASSUME Loadable, NEW t, Way(t)
  PROVE  Journey(t)
<1> DEFINE n == Len(t)
           T == {m \in Nat : m + 1 <= n => GoodVisit(t[m + 1])}
<1>0. n \in Nat /\ IsArray(t)
  BY DEF Way, IsArray
<1>1. t # << >> => t[1] \in Visits(Main, OuterScope) /\ GoodVisit(t[1])
  BY MainVisits DEF Way
<1>2. ASSUME NEW i \in 2 .. n, GoodVisit(t[i - 1])
      PROVE  /\ Open(t[i - 1]) /\ InScope(t[i - 1]) /\ GoodList(ListOf(t[i - 1]))
             /\ t[i] \in Visits(ListOf(t[i - 1]), ScopeOf(t[i - 1])) /\ GoodVisit(t[i])
             /\ t[i].at \in 1 .. Len(ListOf(t[i - 1])) /\ t[i].node = ListOf(t[i - 1])[t[i].at]
             /\ t[i].scope = ScopeOf(t[i - 1])
  <2>1. t[i] \in VisitsIn(t[i - 1])
    BY DEF Way
  <2>2. /\ Open(t[i - 1]) /\ InScope(t[i - 1]) /\ t[i] \in Visits(ListOf(t[i - 1]), ScopeOf(t[i - 1]))
    BY <2>1, VisitsOfVisit
  <2>3. GoodList(ListOf(t[i - 1]))
    BY <1>2, <2>2, OpenVisit
  <2> QED BY <2>2, <2>3, GoodVisitsOfList
<1>3. 0 \in T
  <2>1. n >= 1 => t # << >>
    BY <1>0
  <2> QED BY <1>0, <1>1, <2>1
<1>4. ASSUME NEW m \in Nat, m \in T PROVE m + 1 \in T
  <2> SUFFICES ASSUME (m + 1) + 1 <= n PROVE GoodVisit(t[(m + 1) + 1])
    OBVIOUS
  <2>1. (m + 1) + 1 \in 2 .. n /\ m + 1 <= n /\ (m + 1) + 1 - 1 = m + 1
    BY <1>0
  <2> QED BY <1>2, <1>4, <2>1
<1>5. \A m \in Nat : m \in T
  <2> HIDE DEF T
  <2> QED BY <1>3, <1>4, AllNumbers
<1>6. ASSUME NEW i \in 1 .. n PROVE GoodVisit(t[i])
  <2>1. i - 1 \in Nat /\ (i - 1) + 1 = i
    BY <1>0
  <2>2. i - 1 \in T /\ i <= n
    BY <1>5, <2>1
  <2> QED BY <2>1, <2>2
<1>7. \A i \in 2 .. n : i - 1 \in 1 .. n
  BY <1>0
<1> QED BY <1>0, <1>1, <1>2, <1>6, <1>7 DEF Journey

\* So are trails.
LEMMA TrailJourney ==
  ASSUME Loadable, NEW d \in 0 .. Deepest, NEW t \in TrailsOf[d]
  PROVE  Journey(t) /\ Len(t) = d
BY TrailsAreWays, JourneyOfWay

\* An access is where nothing is opened.
LEMMA AccessJourney ==
  ASSUME Loadable, NEW t \in AccessTrails
  PROVE  /\ Journey(t) /\ Len(t) \in 1 .. Deepest /\ t # << >> /\ t \in TrailsOf[Len(t)] /\ t \in Trails
         /\ Last(t) = t[Len(t)] /\ ~ Open(t[Len(t)])
<1>1. PICK d \in 1 .. Deepest : t \in TrailsOf[d]
  BY DEF AccessTrails, Trails
<1>2. d \in 0 .. Deepest
  BY DeepestAssumption
<1>3. Journey(t) /\ Len(t) = d
  BY <1>1, <1>2, TrailJourney
<1>4. t # << >> /\ Last(t) = t[Len(t)]
  BY <1>1, <1>3, DeepestAssumption DEF Last
<1>5. ~ Open(Last(t))
  BY DEF AccessTrails, Open
<1> QED BY <1>1, <1>3, <1>4, <1>5 DEF AccessTrails

\* A visit is known by its place and its iteration.
LEMMA SameVisit ==
  ASSUME NEW Q, NEW u \in Onward(Q), NEW v \in Onward(Q), u.at = v.at
  PROVE  u.node = v.node /\ u.scope = v.scope /\ (u.iter = v.iter => u = v)
<1>1. \E nodes, scope : Onward(Q) = Visits(nodes, scope)
  <2>1. CASE Q = << >>
    BY <2>1 DEF Onward
  <2>2. CASE Q # << >>
    <3>1. VisitsIn(Last(Q)) # {}
      BY <2>2 DEF Onward
    <3> QED BY <2>2, <3>1, VisitsOfVisit DEF Onward
  <2> QED BY <2>1, <2>2
<1>2. PICK nodes, scope : Onward(Q) = Visits(nodes, scope)
  BY <1>1
<1>3. u = [at |-> u.at, iter |-> u.iter, node |-> nodes[u.at], scope |-> scope]
  BY <1>2, VisitsOfList
<1>4. v = [at |-> v.at, iter |-> v.iter, node |-> nodes[v.at], scope |-> scope]
  BY <1>2, VisitsOfList
<1>5. u.node = nodes[u.at] /\ u.scope = scope
  BY <1>3
<1>6. v.node = nodes[v.at] /\ v.scope = scope
  BY <1>4
<1>7. ASSUME u.iter = v.iter PROVE u = v
  BY <1>3, <1>4, <1>7
<1> QED BY <1>5, <1>6, <1>7

\* A visit from a trail on is to a node that parses.
LEMMA OnwardVisit ==
  ASSUME Loadable, NEW Q, Journey(Q), NEW v \in Onward(Q)
  PROVE  GoodVisit(v)
<1>1. CASE Q = << >>
  BY <1>1, MainVisits DEF Onward
<1>2. CASE Q # << >>
  <2>1. Q \in Seq(Range(Q))
    BY DEF Journey, IsArray
  <2>2. Last(Q) = Q[Len(Q)] /\ Len(Q) \in 1 .. Len(Q)
    BY <1>2, <2>1 DEF Last
  <2>3. GoodVisit(Last(Q))
    BY <2>2 DEF Journey
  <2>4. VisitsIn(Last(Q)) # {} /\ v \in VisitsIn(Last(Q))
    BY <1>2 DEF Onward
  <2>5. Open(Last(Q)) /\ v \in Visits(ListOf(Last(Q)), ScopeOf(Last(Q)))
    BY <2>4, VisitsOfVisit
  <2> QED BY <2>3, <2>5, OpenVisit, GoodVisitsOfList
<1> QED BY <1>1, <1>2

\* A trail through another goes on with a visit from there.
LEMMA OnwardFrom ==
  ASSUME NEW t, Way(t), NEW Q, IsArray(Q), Through(t, Q), Len(Q) < Len(t)
  PROVE  t[Len(Q) + 1] \in Onward(Q)
<1>1. Len(Q) \in Nat /\ Len(t) \in Nat
  BY DEF Way, IsArray
<1>2. CASE Q = << >>
  <2>1. Len(Q) = 0
    BY <1>2
  <2>2. t # << >>
    BY <1>1, <2>1
  <2> QED BY <1>2, <2>1, <2>2 DEF Way, Onward
<1>3. CASE Q # << >>
  <2>1. Q \in Seq(Range(Q))
    BY DEF IsArray
  <2>2. Last(Q) = Q[Len(Q)] /\ Len(Q) \in 1 .. Len(Q) /\ Len(Q) + 1 \in 2 .. Len(t) /\ Len(Q) + 1 - 1 = Len(Q)
    BY <1>1, <1>3, <2>1 DEF Last
  <2>3. t[Len(Q)] = Last(Q)
    BY <2>2 DEF Through
  <2>4. t[Len(Q) + 1] \in VisitsIn(t[Len(Q)])
    BY <2>2 DEF Way
  <2> QED BY <1>3, <2>3, <2>4 DEF Onward
<1> QED BY <1>2, <1>3

-----------------------------------------------------------------------------
(* The accesses before a place in a document. *)

\* All accesses before the node at a of the list a trail leads to.
Done(Q, a) == {t \in AccessTrails : Passed(t, Q, a)}

\* What there is to know of a trail of an access.
LEMMA AccessFacts ==
  ASSUME Loadable, NEW t \in AccessTrails
  PROVE  /\ IsArray(t) /\ Len(t) \in Nat /\ Way(t)
         /\ \A i \in 1 .. Len(t) : Numbered(t[i]) /\ t[i].at >= 1
<1>1. Journey(t) /\ t \in TrailsOf[Len(t)] /\ Len(t) \in 0 .. Deepest
  BY AccessJourney, DeepestAssumption
<1>2. Way(t)
  BY <1>1, TrailsAreWays
<1>3. \A i \in 1 .. Len(t) : GoodVisit(t[i])
  BY <1>1 DEF Journey
<1> QED BY <1>1, <1>2, <1>3, DeepestAssumption DEF Journey, GoodVisit, Numbered

\* There is none before the first function.
LEMMA NoneDone ==
  ASSUME Loadable
  PROVE  Done(<< >>, 1) = {}
<1> SUFFICES ASSUME NEW t \in AccessTrails, Passed(t, << >>, 1) PROVE FALSE
  BY DEF Done
<1>1. Len(<< >>) = 0
  OBVIOUS
<1>2. ~ Outer(t, << >>)
  BY <1>1 DEF Outer
<1>3. 0 < Len(t) /\ t[0 + 1].at < 1
  BY <1>1, <1>2 DEF Passed
<1>4. \A i \in 1 .. Len(t) : Numbered(t[i]) /\ t[i].at >= 1
  BY AccessFacts
<1>5. Len(t) \in Nat
  BY AccessFacts
<1>6. 1 \in 1 .. Len(t) /\ 0 + 1 = 1
  BY <1>3, <1>5
<1> QED BY <1>3, <1>4, <1>6 DEF Numbered

\* Past a node without accesses.
LEMMA NothingDone ==
  ASSUME Loadable, NEW Q, IsArray(Q), NEW a \in Int,
         \A t \in AccessTrails : ~ (Through(t, Q) /\ Len(Q) < Len(t) /\ t[Len(Q) + 1].at = a)
  PROVE  Done(Q, a + 1) = Done(Q, a)
<1>1. Len(Q) \in Nat
  BY DEF IsArray
<1>2. ASSUME NEW t \in AccessTrails PROVE Passed(t, Q, a + 1) <=> Passed(t, Q, a)
  <2>1. Len(t) \in Nat /\ \A i \in 1 .. Len(t) : Numbered(t[i])
    BY AccessFacts
  <2> QED BY <1>1, <2>1, PassedNext
<1> QED BY <1>2 DEF Done

\* Into a loop or a function.
LEMMA DoneInto ==
  ASSUME Loadable, NEW Q, Journey(Q), NEW v \in Onward(Q),
         \A w \in Onward(Q) : w.at = v.at => w.iter >= v.iter
  PROVE  Done(Append(Q, v), 1) = Done(Q, v.at)
<1>1. IsArray(Q) /\ GoodVisit(v) /\ Len(Q) \in Nat
  BY OnwardVisit DEF Journey, IsArray
<1>2. ASSUME NEW t \in AccessTrails PROVE Passed(t, Append(Q, v), 1) <=> Passed(t, Q, v.at)
  <2>1. /\ IsArray(t) /\ Len(t) \in Nat /\ Way(t) /\ \A i \in 1 .. Len(t) : Numbered(t[i]) /\ t[i].at >= 1
    BY AccessFacts
  <2>2. Through(t, Q) /\ Len(Q) < Len(t) /\ t[Len(Q) + 1].at = v.at => t[Len(Q) + 1].iter >= v.iter
    BY <1>1, <2>1, OnwardFrom
  <2>3. Through(t, Append(Q, v)) /\ Len(Q) + 1 < Len(t) => t[Len(Q) + 2].at >= 1
    BY <1>1, <2>1
  <2>4. Numbered(v)
    BY <1>1 DEF GoodVisit, Numbered
  <2> QED BY <1>1, <2>1, <2>2, <2>3, <2>4, PassedInto
<1> QED BY <1>2 DEF Done


\* A trail to an access does not end where something is opened.
LEMMA GoesOn ==
  ASSUME Loadable, NEW t \in AccessTrails, NEW k \in 1 .. Len(t)
  PROVE  Open(t[k]) <=> k < Len(t)
<1>1. Journey(t) /\ Len(t) \in Nat /\ ~ Open(t[Len(t)])
  BY AccessJourney, DeepestAssumption
<1>2. CASE k = Len(t)
  BY <1>1, <1>2
<1>3. CASE k # Len(t)
  <2>1. k < Len(t) /\ k + 1 \in 2 .. Len(t) /\ (k + 1) - 1 = k
    BY <1>1, <1>3
  <2>2. \A i \in 2 .. Len(t) : Open(t[i - 1])
    BY <1>1 DEF Journey
  <2>3. Open(t[(k + 1) - 1])
    BY <2>1, <2>2
  <2> QED BY <2>1, <2>3
<1> QED BY <1>2, <1>3

\* A sequence with the elements of another, and one more, is the other with one more.
LEMMA SameTrail ==
  ASSUME NEW t, IsArray(t), NEW Q, IsArray(Q), Through(t, Q), Len(t) = Len(Q) + 1
  PROVE  t = Append(Q, t[Len(Q) + 1])
<1> DEFINE r == Append(Q, t[Len(Q) + 1])
           S == Range(t) \cup Range(r)
<1>1. /\ IsArray(r) /\ Len(r) = Len(Q) + 1 /\ Len(Q) \in Nat
      /\ r[Len(Q) + 1] = t[Len(Q) + 1] /\ \A i \in 1 .. Len(Q) : r[i] = Q[i]
  BY Appended
<1>2. \A i \in 1 .. Len(Q) : t[i] = Q[i]
  BY DEF Through
<1> HIDE DEF r
<1>3. \A i \in 1 .. Len(t) : t[i] = r[i]
  BY <1>1, <1>2
<1>4. t \in Seq(Range(t)) /\ r \in Seq(Range(r))
  BY <1>1 DEF IsArray
<1>5. t \in Seq(S) /\ r \in Seq(S)
  BY <1>4
<1>6. t = r
  BY <1>1, <1>3, <1>5, SeqEqual
<1> QED BY <1>6 DEF r

\* Past an access there is that one more, and those before it are the ones passed.
LEMMA AccessDone ==
  ASSUME Loadable, TrailsOf[Deepest] = {}, NEW Q, Len(Q) \in 0 .. Deepest, Q \in TrailsOf[Len(Q)],
         NEW v \in Onward(Q), v.node.type \in {"Scalar", "Array"}
  PROVE  LET t == Append(Q, v)
         IN  /\ t \in AccessTrails /\ t \notin Done(Q, v.at) /\ Last(t) = v
             /\ Done(Q, v.at + 1) = Done(Q, v.at) \cup {t}
             /\ {u \in AccessTrails : Before(u, t)} = Done(Q, v.at)
<1> DEFINE n == Len(Q)
           t == Append(Q, v)
<1>1. Journey(Q) /\ IsArray(Q) /\ n \in Nat
  BY TrailJourney DEF Journey, IsArray
<1>2. /\ IsArray(t) /\ Len(t) = n + 1 /\ t[n + 1] = v /\ \A i \in 1 .. n : t[i] = Q[i]
      /\ Last(t) = v
  BY <1>1, Appended
<1>3. t \in AccessTrails
  <2>1. t \in Trails
    BY TrailsGoOn
  <2> QED BY <1>2, <2>1 DEF AccessTrails
<1>4. GoodVisit(v) /\ Numbered(v) /\ v.iter = 0
  <2>1. GoodVisit(v)
    BY <1>1, OnwardVisit
  <2>2. v.iter \in {0}
    BY <2>1 DEF GoodVisit, Iterations
  <2> QED BY <2>1, <2>2 DEF GoodVisit, Numbered
<1> HIDE DEF t
<1>5. ASSUME NEW u \in AccessTrails, Through(u, Q), n < Len(u), u[n + 1].at = v.at
      PROVE  u = t
  <2>1. Way(u) /\ IsArray(u) /\ Len(u) \in Nat
    BY AccessFacts
  <2>2. u[n + 1] \in Onward(Q)
    BY <1>1, <1>5, <2>1, OnwardFrom
  <2>3. u[n + 1].node = v.node
    BY <1>5, <2>2, SameVisit
  <2>4. GoodVisit(u[n + 1])
    BY <1>1, <2>2, OnwardVisit
  <2>5. u[n + 1].iter \in {0}
    BY <2>3, <2>4 DEF GoodVisit, Iterations
  <2>6. u[n + 1] = v
    BY <1>4, <1>5, <2>2, <2>5, SameVisit
  <2>7. ~ Open(v)
    BY DEF Open
  <2>8. n + 1 \in 1 .. Len(u)
    BY <1>1, <1>5, <2>1
  <2>9. Len(u) = n + 1
    BY <1>5, <2>1, <2>6, <2>7, <2>8, GoesOn
  <2> QED BY <1>1, <1>5, <2>1, <2>6, <2>9, SameTrail DEF t
<1>6. /\ \A i \in 1 .. (n + 1) : Numbered(t[i])
      /\ Through(t, Q)
  BY <1>1, <1>2, <1>3, AccessFacts DEF Through
<1>7. ~ Passed(t, Q, v.at)
  BY <1>1, <1>2, <1>4, <1>6 DEF Passed, Outer, Earlier, Numbered
<1>8. ASSUME NEW u \in AccessTrails
      PROVE  /\ Passed(u, Q, v.at + 1) <=> Passed(u, Q, v.at) \/ u = t
             /\ Before(u, t) <=> Passed(u, Q, v.at)
  <2>1. Len(u) \in Nat /\ IsArray(u) /\ \A i \in 1 .. Len(u) : Numbered(u[i])
    BY AccessFacts
  <2>2. Passed(u, Q, v.at + 1) <=>
          Passed(u, Q, v.at) \/ (Through(u, Q) /\ n < Len(u) /\ u[n + 1].at = v.at)
    BY <1>1, <1>4, <2>1, PassedNext DEF Numbered
  <2>3. Through(t, Q) /\ n < Len(t) /\ t[n + 1].at = v.at
    BY <1>1, <1>2, <1>6
  <2>4. Passed(u, Q, v.at + 1) <=> Passed(u, Q, v.at) \/ u = t
    BY <1>5, <2>2, <2>3
  <2>5. Before(u, t) <=> Outer(u, t)
    <3>1. DOMAIN u = 1 .. Len(u) /\ DOMAIN t = 1 .. Len(t) /\ Len(t) \in Nat
      BY <1>1, <1>2, <2>1 DEF IsArray
    <3> QED BY <2>1, <3>1 DEF Before, Outer, Earlier
  <2>6. Outer(u, t) <=> Outer(u, Q) \/ (Through(u, Q) /\ n < Len(u) /\ Earlier(u[n + 1], v))
    BY <1>1, <2>1, OneVisitMore DEF t
  <2>7. ASSUME Through(u, Q), n < Len(u)
        PROVE  Earlier(u[n + 1], v) <=> u[n + 1].at < v.at
    <3>1. n + 1 \in 1 .. Len(u)
      BY <1>1, <2>1, <2>7
    <3>2. Numbered(u[n + 1])
      BY <2>1, <3>1
    <3>3. ASSUME u[n + 1].at = v.at PROVE u[n + 1].iter = 0
      BY <1>2, <1>4, <1>5, <2>7, <3>3
    <3> QED BY <1>4, <3>2, <3>3 DEF Earlier, Numbered
  <2>8. Before(u, t) <=> Passed(u, Q, v.at)
    BY <2>5, <2>6, <2>7 DEF Passed
  <2> QED BY <2>4, <2>8
<1>9. Done(Q, v.at + 1) = Done(Q, v.at) \cup {t}
  BY <1>3, <1>8 DEF Done
<1>10. {u \in AccessTrails : Before(u, t)} = Done(Q, v.at)
  BY <1>8 DEF Done
<1>11. t \notin Done(Q, v.at)
  BY <1>7 DEF Done
<1> QED BY <1>2, <1>3, <1>9, <1>10, <1>11 DEF t


\* What is in a visit is passed at the end of the list it opens.
LEMMA ThroughList ==
  ASSUME Loadable, NEW P, Journey(P), NEW v \in Onward(P), Open(v), NEW t \in AccessTrails
  PROVE  Passed(t, Append(P, v), Len(ListOf(v)) + 1) <=>
           \/ Outer(t, P)
           \/ /\ Through(t, P) /\ Len(P) < Len(t)
              /\ \/ t[Len(P) + 1].at < v.at
                 \/ t[Len(P) + 1].at = v.at /\ t[Len(P) + 1].iter < v.iter + 1
<1> DEFINE n == Len(P)
           b == Len(ListOf(v)) + 1
<1>1. /\ IsArray(P) /\ n \in Nat /\ GoodVisit(v) /\ Numbered(v)
      /\ b \in Int
  <2>1. GoodVisit(v) /\ IsArray(P)
    BY OnwardVisit DEF Journey
  <2>2. GoodList(ListOf(v))
    BY <2>1, OpenVisit
  <2>3. Len(ListOf(v)) \in Nat
    BY <2>2 DEF GoodList
  <2> QED BY <2>1, <2>3 DEF IsArray, GoodVisit, Numbered
<1>2. /\ IsArray(t) /\ Len(t) \in Nat /\ Way(t) /\ Journey(t)
      /\ \A i \in 1 .. Len(t) : Numbered(t[i])
  BY AccessFacts, AccessJourney
<1>3. ASSUME Through(t, Append(P, v))
      PROVE  n + 1 < Len(t) /\ t[n + 2].at < b
  <2>1. n < Len(t) /\ t[n + 1] = v
    BY <1>1, <1>2, <1>3, OneVisitMore
  <2>2. n + 1 \in 1 .. Len(t)
    BY <1>1, <1>2, <2>1
  <2>3. n + 1 < Len(t)
    BY <2>1, <2>2, GoesOn
  <2>4. n + 2 \in 2 .. Len(t) /\ n + 2 - 1 = n + 1
    BY <1>1, <1>2, <2>3
  <2>5. \A i \in 2 .. Len(t) : t[i].at \in 1 .. Len(ListOf(t[i - 1]))
    BY <1>2 DEF Journey
  <2>6. t[n + 2].at \in 1 .. Len(ListOf(t[n + 2 - 1]))
    BY <2>4, <2>5
  <2>7. t[n + 2].at \in 1 .. Len(ListOf(v))
    BY <2>1, <2>4, <2>6
  <2> HIDE DEF n
  <2> QED BY <1>1, <2>3, <2>7
<1>4. ASSUME Through(t, P), n < Len(t), t[n + 1].at = v.at, t[n + 1].iter = v.iter
      PROVE  t[n + 1] = v
  <2>1. t[n + 1] \in Onward(P)
    BY <1>1, <1>2, <1>4, OnwardFrom
  <2> QED BY <1>4, <2>1, SameVisit
<1> QED BY <1>1, <1>2, <1>3, <1>4, PassedThrough

\* At the end of an iteration that is not the last.
LEMMA DoneIteration ==
  ASSUME Loadable, NEW P, Journey(P), NEW v \in Onward(P), Open(v),
         NEW w \in Onward(P), w.at = v.at, w.iter = v.iter + 1
  PROVE  Done(Append(P, v), Len(ListOf(v)) + 1) = Done(Append(P, w), 1)
<1> DEFINE n == Len(P)
<1>1. IsArray(P) /\ n \in Nat /\ GoodVisit(v) /\ GoodVisit(w)
  <2>1. GoodVisit(v) /\ GoodVisit(w)
    BY OnwardVisit
  <2> QED BY <2>1 DEF Journey, IsArray
<1>2. ASSUME NEW t \in AccessTrails
      PROVE  Passed(t, Append(P, v), Len(ListOf(v)) + 1) <=> Passed(t, Append(P, w), 1)
  <2>1. /\ IsArray(t) /\ Len(t) \in Nat /\ Way(t)
        /\ \A i \in 1 .. Len(t) : Numbered(t[i]) /\ t[i].at >= 1
    BY AccessFacts
  <2>2. /\ Outer(t, Append(P, w)) <=>
             Outer(t, P) \/ (Through(t, P) /\ n < Len(t) /\ Earlier(t[n + 1], w))
        /\ Len(Append(P, w)) = n + 1
    BY <1>1, <2>1, OneVisitMore
  <2>3. n + 1 < Len(t) => ~ (t[(n + 1) + 1].at < 1)
    <3>1. n + 1 < Len(t) => (n + 1) + 1 \in 1 .. Len(t)
      BY <1>1, <2>1
    <3>2. \A i \in 1 .. Len(t) : ~ (t[i].at < 1)
      BY <2>1 DEF Numbered
    <3> QED BY <3>1, <3>2
  <2>4. Passed(t, Append(P, w), 1) <=> Outer(t, Append(P, w))
    BY <2>2, <2>3 DEF Passed
  <2>5. Earlier(t[n + 1], w) <=>
          \/ t[n + 1].at < v.at
          \/ t[n + 1].at = v.at /\ t[n + 1].iter < v.iter + 1
    BY DEF Earlier
  <2> QED BY <2>2, <2>4, <2>5, ThroughList
<1> QED BY <1>2 DEF Done

\* At the end of the last iteration, or of a function.
LEMMA DoneVisit ==
  ASSUME Loadable, NEW P, Journey(P), NEW v \in Onward(P), Open(v),
         \A w \in Onward(P) : w.at = v.at => w.iter <= v.iter
  PROVE  Done(Append(P, v), Len(ListOf(v)) + 1) = Done(P, v.at + 1)
<1> DEFINE n == Len(P)
<1>1. IsArray(P) /\ n \in Nat /\ GoodVisit(v)
  BY OnwardVisit DEF Journey, IsArray
<1>2. ASSUME NEW t \in AccessTrails
      PROVE  Passed(t, Append(P, v), Len(ListOf(v)) + 1) <=> Passed(t, P, v.at + 1)
  <2>1. /\ IsArray(t) /\ Len(t) \in Nat /\ Way(t) /\ \A i \in 1 .. Len(t) : Numbered(t[i])
    BY AccessFacts
  <2>0. v.at \in Int
    BY <1>1 DEF GoodVisit
  <2>2. Passed(t, P, v.at + 1) <=>
          Passed(t, P, v.at) \/ (Through(t, P) /\ n < Len(t) /\ t[n + 1].at = v.at)
    BY <1>1, <2>0, <2>1, PassedNext
  <2>3. ASSUME Through(t, P), n < Len(t), t[n + 1].at = v.at
        PROVE  t[n + 1].iter < v.iter + 1
    <3>1. t[n + 1] \in Onward(P)
      BY <1>1, <2>1, <2>3, OnwardFrom
    <3>2. t[n + 1].iter <= v.iter /\ n + 1 \in 1 .. Len(t)
      BY <1>1, <2>1, <2>3, <3>1
    <3>3. t[n + 1].iter \in Int /\ v.iter \in Int
      BY <1>1, <2>1, <3>2 DEF Numbered, GoodVisit
    <3> QED BY <3>2, <3>3
  <2>4. Passed(t, P, v.at) <=> Outer(t, P) \/ (Through(t, P) /\ n < Len(t) /\ t[n + 1].at < v.at)
    BY DEF Passed
  <2> QED BY <2>2, <2>3, <2>4, ThroughList
<1> QED BY <1>2 DEF Done

\* Between one function and another, if none of those in between is analyzed.
LEMMA DoneFunctions ==
  ASSUME Loadable, NEW a \in Nat \ {0}, NEW b \in Nat, a <= b, b <= Len(document.functions) + 1,
         \A k \in a .. (b - 1) : ~ IsRoot(document.functions[k])
  PROVE  Done(<< >>, a) = Done(<< >>, b)
<1>1. ASSUME NEW t \in AccessTrails PROVE Passed(t, << >>, a) <=> Passed(t, << >>, b)
  <2>1. Journey(t) /\ t # << >> /\ Len(t) \in Nat
    BY AccessJourney, AccessFacts
  <2>2. t[1] \in Visits(Main, OuterScope)
    BY <2>1 DEF Journey
  <2>3. /\ t[1].at \in 1 .. Len(document.functions) /\ IsRoot(document.functions[t[1].at])
        /\ Len(document.functions) \in Nat
    BY <2>2, MainVisits DEF IsArray
  <2>4. t[1].at \notin a .. (b - 1) /\ t[1].at \in Nat
    BY <2>3
  <2>5. t[1].at < a <=> t[1].at < b
    BY <2>4
  <2>6. Len(<< >>) = 0 /\ 0 + 1 = 1
    OBVIOUS
  <2> QED BY <2>5, <2>6 DEF Passed, Outer, Through
<1> QED BY <1>1 DEF Done

\* After the last function all accesses are passed.
LEMMA AllDone ==
  ASSUME Loadable
  PROVE  Done(<< >>, Len(document.functions) + 1) = AccessTrails
<1>1. ASSUME NEW t \in AccessTrails PROVE Passed(t, << >>, Len(document.functions) + 1)
  <2>1. Journey(t) /\ t # << >> /\ Len(t) \in Nat /\ IsArray(t)
    BY AccessJourney, AccessFacts
  <2>2. t[1] \in Visits(Main, OuterScope)
    BY <2>1 DEF Journey
  <2>3. t[1].at \in 1 .. Len(document.functions) /\ Len(document.functions) \in Nat
    BY <2>2, MainVisits DEF IsArray
  <2>4. Len(<< >>) = 0 /\ 0 + 1 = 1
    OBVIOUS
  <2>5. Len(t) # 0
    BY <2>1 DEF IsArray
  <2>6. t[1].at < Len(document.functions) + 1 /\ 0 < Len(t)
    BY <2>1, <2>3, <2>5
  <2> QED BY <2>4, <2>6 DEF Passed, Through
<1> QED BY <1>1 DEF Done


-----------------------------------------------------------------------------
(* The functions to analyze, one after the other. *)

\* The functions to analyze are found one after the other.
LEMMA RootsUnfold ==
  ASSUME NEW fns, IsArray(fns)
  PROVE  /\ Len(fns) \in Nat /\ RootsFrom(fns)[Len(fns) + 1] = << >>
         /\ \A k \in 1 .. Len(fns) :
              RootsFrom(fns)[k] = IF IsRoot(fns[k]) THEN <<fns[k].function>> \o RootsFrom(fns)[k + 1]
                                  ELSE RootsFrom(fns)[k + 1]
         /\ \A k \in 1 .. (Len(fns) + 1) : IsArray(RootsFrom(fns)[k])
<1> DEFINE n == Len(fns)
           From(g, k) == IF k > n THEN << >>
                         ELSE IF IsRoot(fns[k]) THEN <<fns[k].function>> \o g[k + 1] ELSE g[k + 1]
           Solves(g, m) == g = [k \in (n + 1 - m) .. (n + 1) |-> From(g, k)]
           S == {m \in Nat : m <= n => \E g : Solves(g, m)}
<1>0. n \in Nat
  BY DEF IsArray
<1> HIDE DEF n
<1>1. 0 \in S
  <2> DEFINE g == [k \in (n + 1) .. (n + 1) |-> << >>]
  <2>1. \A k \in (n + 1) .. (n + 1) : k > n
    BY <1>0
  <2>2. n + 1 - 0 = n + 1
    BY <1>0
  <2>3. g = [k \in (n + 1 - 0) .. (n + 1) |-> From(g, k)]
    BY <2>1, <2>2
  <2> QED BY <2>3
<1>2. ASSUME NEW m \in Nat, m \in S PROVE m + 1 \in S
  <2> SUFFICES ASSUME m + 1 <= n PROVE \E g : Solves(g, m + 1)
    OBVIOUS
  <2>1. PICK g : Solves(g, m)
    BY <1>0, <1>2
  <2> DEFINE h == [k \in (n + 1 - (m + 1)) .. (n + 1) |-> From(g, k)]
  <2>2. \A k \in (n + 1 - m) .. (n + 1) : g[k] = From(g, k)
    BY <2>1, Zenon
  <2>3. \A k \in (n + 1 - m) .. (n + 1) : k \in (n + 1 - (m + 1)) .. (n + 1)
    BY <1>0
  <2> HIDE DEF From
  <2>4. \A k \in (n + 1 - m) .. (n + 1) : h[k] = g[k]
    BY <2>2, <2>3
  <2>5. h = [k \in (n + 1 - (m + 1)) .. (n + 1) |-> From(g, k)]
    OBVIOUS
  <2> HIDE DEF h
  <2>6. ASSUME NEW k \in (n + 1 - (m + 1)) .. (n + 1) PROVE From(h, k) = From(g, k)
    <3>1. k > n \/ k + 1 \in (n + 1 - m) .. (n + 1)
      BY <1>0
    <3>2. k > n \/ h[k + 1] = g[k + 1]
      BY <2>4, <3>1
    <3> QED BY <3>2 DEF From
  <2>7. h = [k \in (n + 1 - (m + 1)) .. (n + 1) |-> From(h, k)]
    BY <2>5, <2>6, Zenon
  <2> QED BY <2>7 DEF From
<1>3. \A m \in Nat : m \in S
  <2> HIDE DEF S
  <2> QED BY <1>1, <1>2, AllNumbers
<1>4. n + 1 - n = 1 /\ n <= n
  BY <1>0
<1>5. PICK g : g = [k \in 1 .. (n + 1) |-> From(g, k)]
  BY <1>0, <1>3, <1>4
<1> HIDE DEF From
<1> DEFINE from == RootsFrom(fns)
<1>6. from = [k \in 1 .. (n + 1) |-> From(from, k)]
  <2>1. RootsFrom(fns) = CHOOSE f : f = [k \in 1 .. (n + 1) |-> From(f, k)]
    BY Zenon DEF RootsFrom, n, From
  <2> QED BY <1>5, <2>1
<1> HIDE DEF from
<1>7. \A k \in 1 .. (n + 1) : from[k] = From(from, k)
  BY <1>6, Zenon
<1>8. from[n + 1] = << >>
  <2>1. n + 1 \in 1 .. (n + 1) /\ n + 1 > n
    BY <1>0
  <2>2. From(from, n + 1) = << >>
    BY <2>1 DEF From
  <2> QED BY <1>7, <2>1, <2>2
<1>9. \A k \in 1 .. n : k \in 1 .. (n + 1) /\ ~ (k > n)
  BY <1>0
<1>10. \A k \in 1 .. n :
          from[k] = IF IsRoot(fns[k]) THEN <<fns[k].function>> \o from[k + 1] ELSE from[k + 1]
  BY <1>7, <1>9 DEF From
<1>11. \A k \in 1 .. (n + 1) : IsArray(from[k])
  <2> DEFINE T == {m \in Nat : m <= n => IsArray(from[n + 1 - m])}
  <2>1. 0 \in T
    <3>1. n + 1 - 0 = n + 1 /\ IsArray(<< >>)
      BY <1>0 DEF IsArray
    <3> QED BY <1>8, <3>1
  <2>2. ASSUME NEW m \in Nat, m \in T PROVE m + 1 \in T
    <3> SUFFICES ASSUME m + 1 <= n PROVE IsArray(from[n + 1 - (m + 1)])
      OBVIOUS
    <3> DEFINE k == n + 1 - (m + 1)
    <3>1. k \in 1 .. n /\ k + 1 = n + 1 - m /\ m <= n
      BY <1>0
    <3>2. IsArray(from[k + 1])
      BY <2>2, <3>1
    <3> DEFINE f == fns[k].function
               r == from[k + 1]
    <3>3. from[k] = <<f>> \o r \/ from[k] = r
      BY <1>10, <3>1
    <3> HIDE DEF f, r
    <3>4. IsArray(<<f>> \o r)
      <4>1. r \in Seq(Range(r) \cup {f}) /\ <<f>> \in Seq(Range(r) \cup {f})
        <5>1. r \in Seq(Range(r))
          BY <3>2 DEF IsArray, r
        <5> QED BY <5>1
      <4>2. <<f>> \o r \in Seq(Range(r) \cup {f})
        BY <4>1
      <4> QED BY <4>2, SeqIsArray
    <3> QED BY <3>2, <3>3, <3>4 DEF r
  <2>3. \A m \in Nat : m \in T
    <3> HIDE DEF T
    <3> QED BY <2>1, <2>2, AllNumbers
  <2>4. \A k \in 1 .. (n + 1) : n + 1 - k \in Nat /\ n + 1 - k <= n /\ n + 1 - (n + 1 - k) = k
    BY <1>0
  <2> QED BY <2>3, <2>4
<1> QED BY <1>0, <1>8, <1>10, <1>11 DEF from, n

\* From one function to the next to analyze, or to the end.
LEMMA NextRoot ==
  ASSUME Loadable, NEW a \in 1 .. (Len(document.functions) + 1)
  PROVE  LET fns == document.functions
         IN  /\ RootsFrom(fns)[a] = << >> => \A k \in a .. Len(fns) : ~ IsRoot(fns[k])
             /\ RootsFrom(fns)[a] # << >> =>
                  \E k \in a .. Len(fns) :
                    /\ IsRoot(fns[k]) /\ \A l \in a .. (k - 1) : ~ IsRoot(fns[l])
                    /\ Head(RootsFrom(fns)[a]) = fns[k].function
                    /\ Tail(RootsFrom(fns)[a]) = RootsFrom(fns)[k + 1]
<1> DEFINE fns == document.functions
           n == Len(fns)
           from == RootsFrom(fns)
           Between(k) == \A l \in a .. (k - 1) : ~ IsRoot(fns[l])
           T == {d \in Nat : a + d <= n + 1 /\ Between(a + d) => from[a] = from[a + d]}
<1>0. IsArray(fns)
  BY MainVisits
<1>1. /\ n \in Nat /\ from[n + 1] = << >>
      /\ \A k \in 1 .. n : from[k] = IF IsRoot(fns[k]) THEN <<fns[k].function>> \o from[k + 1] ELSE from[k + 1]
      /\ \A k \in 1 .. (n + 1) : IsArray(from[k])
  BY <1>0, RootsUnfold
<1> HIDE DEF from, n, fns
<1>2. 0 \in T
  BY DEF n, fns
<1>3. ASSUME NEW d \in Nat, d \in T PROVE d + 1 \in T
  <2> SUFFICES ASSUME a + (d + 1) <= n + 1, Between(a + (d + 1)) PROVE from[a] = from[a + (d + 1)]
    OBVIOUS
  <2>1. a + d \in 1 .. n /\ a + d \in a .. ((a + (d + 1)) - 1) /\ (a + d) + 1 = a + (d + 1) /\ a \in Nat
    BY <1>1 DEF n, fns
  <2>2. ~ IsRoot(fns[a + d])
    BY <2>1
  <2>3. Between(a + d)
    BY <2>1
  <2>4. from[a] = from[a + d]
    BY <1>1, <1>3, <2>1, <2>3
  <2> QED BY <1>1, <2>1, <2>2, <2>4
<1>4. \A d \in Nat : d \in T
  <2> HIDE DEF T
  <2> QED BY <1>2, <1>3, AllNumbers
<1>5. ASSUME NEW k \in a .. (n + 1), Between(k) PROVE from[a] = from[k]
  <2>1. k - a \in Nat /\ a + (k - a) = k
    BY <1>1 DEF n, fns
  <2>2. k - a \in T
    BY <1>4, <2>1
  <2> QED BY <1>5, <2>1, <2>2
<1>6. CASE \E k \in a .. n : IsRoot(fns[k])
  <2> DEFINE R == {k \in a .. n : IsRoot(fns[k])}
  <2>1. R # {} /\ R \subseteq Nat
    BY <1>1, <1>6 DEF n, fns
  <2>2. PICK k \in R : \A l \in R : k <= l
    <3> HIDE DEF R
    <3> QED BY <2>1, LeastNatural
  <2>3. k \in a .. n /\ IsRoot(fns[k]) /\ k \in a .. (n + 1) /\ k \in 1 .. n
    BY <1>1 DEF n, fns
  <2>4. Between(k)
    BY <1>1, <2>2, <2>3
  <2>5. from[a] = <<fns[k].function>> \o from[k + 1]
    BY <1>1, <1>5, <2>3, <2>4
  <2>6. IsArray(from[k + 1])
    BY <1>1, <2>3
  <2>7. from[a] # << >> /\ Head(from[a]) = fns[k].function /\ Tail(from[a]) = from[k + 1]
    <3> DEFINE f == fns[k].function
               s == from[k + 1]
    <3> HIDE DEF f, s
    <3>1. <<f>> \o s # << >> /\ Head(<<f>> \o s) = f /\ Tail(<<f>> \o s) = s
      BY <2>6, OnTop DEF s
    <3> QED BY <2>5, <3>1 DEF f, s
  <2> QED BY <2>3, <2>4, <2>7 DEF n, fns, from
<1>7. CASE \A k \in a .. n : ~ IsRoot(fns[k])
  <2>1. n + 1 \in a .. (n + 1) /\ (n + 1) - 1 = n
    BY <1>1 DEF n, fns
  <2>2. Between(n + 1)
    BY <1>7, <2>1
  <2>3. from[a] = << >>
    BY <1>1, <1>5, <2>1, <2>2
  <2> QED BY <1>7, <2>3 DEF n, fns, from
<1> QED BY <1>6, <1>7

-----------------------------------------------------------------------------
(* Indices in a scope and in the builder. *)

\* The variables of loops, and of one loop more.
LEMMA LoopVarsNext ==
  ASSUME NEW ls, IsArray(ls), NEW l
  PROVE  LET vars == LoopVars(ls)
             more == LoopVars(Append(ls, l))
         IN  /\ DOMAIN more = DOMAIN vars \cup {l.var} /\ more[l.var] = l.iter
             /\ \A x \in DOMAIN vars : x # l.var => more[x] = vars[x]
<1> DEFINE n == Len(ls)
           m == Append(ls, l)
           more == LoopVars(m)
           Of(s, x) == {k \in DOMAIN s : s[k].var = x}
<1>1. /\ IsArray(m) /\ Len(m) = n + 1 /\ n \in Nat /\ m[n + 1] = l /\ \A k \in 1 .. n : m[k] = ls[k]
      /\ DOMAIN m = 1 .. (n + 1) /\ DOMAIN ls = 1 .. n
  <2>1. IsArray(m) /\ Len(m) = n + 1 /\ n \in Nat /\ m[n + 1] = l /\ \A k \in 1 .. n : m[k] = ls[k]
    BY Appended
  <2> QED BY <2>1 DEF IsArray
<1> HIDE DEF m
<1>2. DOMAIN LoopVars(ls) = {f.var : f \in Range(ls)}
      /\ \A x \in DOMAIN LoopVars(ls) : LoopVars(ls)[x] = ls[Max(Of(ls, x))].iter
  BY Zenon DEF LoopVars
<1>3. DOMAIN more = {f.var : f \in Range(m)} /\ \A x \in DOMAIN more : more[x] = m[Max(Of(m, x))].iter
  BY Zenon DEF LoopVars
<1>4. DOMAIN more = DOMAIN LoopVars(ls) \cup {l.var}
  BY <1>1, <1>2, <1>3 DEF Range
<1> HIDE DEF more
<1>5. more[l.var] = l.iter
  <2> DEFINE S == Of(m, l.var)
  <2>1. n + 1 \in S /\ S \subseteq 1 .. (n + 1) /\ n + 1 \in Nat
    BY <1>1
  <2>2. more[l.var] = m[Max(S)].iter
    BY <1>3, <1>4
  <2> HIDE DEF S
  <2>3. Max(S) \in S /\ \A k \in S : k <= Max(S)
    BY <2>1, MaxOfPlaces
  <2> DEFINE m1 == Max(S)
  <2>4. m1 \in 1 .. (n + 1) /\ n + 1 <= m1
    BY <2>1, <2>3
  <2> HIDE DEF m1
  <2>5. m1 = n + 1
    BY <1>1, <2>4
  <2> QED BY <1>1, <2>2, <2>5 DEF m1
<1>6. ASSUME NEW x \in DOMAIN LoopVars(ls), x # l.var
      PROVE  more[x] = LoopVars(ls)[x]
  <2> DEFINE S == Of(ls, x)
  <2>1. Of(m, x) = S
    BY <1>1, <1>6
  <2>2. S # {} /\ S \subseteq 1 .. n
    BY <1>1, <1>2 DEF Range
  <2>3. more[x] = m[Max(S)].iter /\ LoopVars(ls)[x] = ls[Max(S)].iter
    BY <1>2, <1>3, <1>4, <2>1
  <2> HIDE DEF S
  <2>4. Max(S) \in 1 .. n
    BY <1>1, <2>2, MaxOfPlaces
  <2> QED BY <1>1, <2>3, <2>4
<1> QED BY <1>4, <1>5, <1>6 DEF m, more

\* What an index is computed from in a scope has the same values in the builder.
Agree(vars, env) == \A x \in DOMAIN env : x \in DOMAIN vars /\ vars[x] = env[x]

\* An index that has a value in the scope has the same in the builder.
LEMMA SameIndex ==
  ASSUME NEW vars, NEW env, Agree(vars, env), NEW expr, Evaluates(expr, env)
  PROVE  Evaluates(expr, vars) /\ EvalIndex(expr, vars) = EvalIndex(expr, env)
<1>1. \A t \in Range(expr) : IsLiteral(t) \/ (t.var \in DOMAIN env /\ t.var \in DOMAIN vars /\ vars[t.var] = env[t.var])
  BY Zenon DEF Evaluates, Agree
<1>2. Evaluates(expr, vars)
  BY <1>1, Zenon DEF Evaluates
<1>3. ASSUME NEW k \in DOMAIN expr
      PROVE  expr[k].sign * (IF IsLiteral(expr[k]) THEN expr[k].lit ELSE vars[expr[k].var])
               = expr[k].sign * (IF IsLiteral(expr[k]) THEN expr[k].lit ELSE env[expr[k].var])
  <2>1. expr[k] \in Range(expr)
    BY DEF Range
  <2> QED BY <1>1, <2>1, Zenon
<1>4. [k \in DOMAIN expr |-> expr[k].sign * (IF IsLiteral(expr[k]) THEN expr[k].lit ELSE vars[expr[k].var])]
        = [k \in DOMAIN expr |-> expr[k].sign * (IF IsLiteral(expr[k]) THEN expr[k].lit ELSE env[expr[k].var])]
  BY <1>3, Zenon
<1>5. EvalIndex(expr, vars) = EvalIndex(expr, env)
  BY <1>4, Zenon DEF EvalIndex
<1> QED BY <1>2, <1>5

\* A variable of the scope whose loop is entered has its iteration, and the others
\* stay as they were.
LEMMA VarsNext ==
  ASSUME NEW ls, IsArray(ls), NEW bindings, NEW env, Agree(Vars(ls, bindings), env),
         NEW l, l.var \notin DOMAIN bindings
  PROVE  Agree(Vars(Append(ls, l), bindings),
               [v \in DOMAIN env \cup {l.var} |-> IF v = l.var THEN l.iter ELSE env[v]])
<1> DEFINE vars == LoopVars(ls)
           more == LoopVars(Append(ls, l))
           now  == Vars(Append(ls, l), bindings)
           old  == Vars(ls, bindings)
           E    == [v \in DOMAIN env \cup {l.var} |-> IF v = l.var THEN l.iter ELSE env[v]]
<1>1. /\ DOMAIN more = DOMAIN vars \cup {l.var} /\ more[l.var] = l.iter
      /\ \A x \in DOMAIN vars : x # l.var => more[x] = vars[x]
  BY LoopVarsNext
<1>2. /\ DOMAIN now = DOMAIN bindings \cup DOMAIN more
      /\ \A x \in DOMAIN now : now[x] = IF x \in DOMAIN bindings THEN bindings[x] ELSE more[x]
  BY Zenon DEF Vars
<1>3. /\ DOMAIN old = DOMAIN bindings \cup DOMAIN vars
      /\ \A x \in DOMAIN old : old[x] = IF x \in DOMAIN bindings THEN bindings[x] ELSE vars[x]
  BY Zenon DEF Vars
<1>4. \A x \in DOMAIN env : x \in DOMAIN old /\ old[x] = env[x]
  BY DEF Agree
<1>5. DOMAIN E = DOMAIN env \cup {l.var} /\ \A x \in DOMAIN E : E[x] = IF x = l.var THEN l.iter ELSE env[x]
  BY Zenon
<1> HIDE DEF vars, more, now, old, E
<1>6. ASSUME NEW x \in DOMAIN E PROVE x \in DOMAIN now /\ now[x] = E[x]
  <2>1. CASE x = l.var
    BY <1>1, <1>2, <1>5, <2>1
  <2>2. CASE x # l.var
    <3>1. x \in DOMAIN env /\ E[x] = env[x]
      BY <1>5, <1>6, <2>2
    <3>2. x \in DOMAIN old /\ old[x] = env[x]
      BY <1>4, <3>1
    <3>3. x \in DOMAIN now /\ now[x] = old[x]
      BY <1>1, <1>2, <1>3, <2>2, <3>2
    <3> QED BY <3>1, <3>2, <3>3
  <2> QED BY <2>1, <2>2
<1>7. Agree(now, E)
  BY <1>6 DEF Agree
<1> QED BY <1>7 DEF now, E

-----------------------------------------------------------------------------
(* The lists that are being visited. *)

\* What is left of a list from a node on, parsed.
RestOf(list, a) == [k \in 1 .. (Len(list) + 1 - a) |-> parse_node_v2[list[a + k - 1]]]

\* The rest of a list is a list, and its first node is the one at hand.
LEMMA RestOfList ==
  ASSUME NEW list, GoodList(list), NEW a \in 1 .. (Len(list) + 1)
  PROVE  /\ RestOf(list, 1) = ParsedList(list)
         /\ RestOf(list, a) = << >> <=> a = Len(list) + 1
         /\ a <= Len(list) => /\ RestOf(list, a) # << >> /\ Head(RestOf(list, a)) = parse_node_v2[list[a]]
                              /\ Tail(RestOf(list, a)) = RestOf(list, a + 1)
                              /\ a + 1 \in 1 .. (Len(list) + 1)
<1> DEFINE n == Len(list)
           S == {parse_node_v2[j] : j \in Nodes}
           R(b) == RestOf(list, b)
<1>1. n \in Nat /\ DOMAIN list = 1 .. n /\ \A k \in 1 .. n : list[k] \in Nodes
  BY DEF GoodList
<1> HIDE DEF n
<1>2. ASSUME NEW b \in 1 .. (n + 1)
      PROVE  /\ R(b) \in Seq(S) /\ Len(R(b)) = (n + 1) - b
             /\ \A k \in 1 .. ((n + 1) - b) : R(b)[k] = parse_node_v2[list[b + k - 1]]
  <2> DEFINE m == (n + 1) - b
  <2>1. m \in Nat /\ 1 .. (n + 1 - b) = 1 .. m
    BY <1>1
  <2>2. R(b) = [k \in 1 .. m |-> parse_node_v2[list[b + k - 1]]]
    BY <2>1, Zenon DEF RestOf, n
  <2>3. \A k \in 1 .. m : b + k - 1 \in 1 .. n
    BY <1>1
  <2>4. \A k \in 1 .. m : parse_node_v2[list[b + k - 1]] \in S
    BY <1>1, <2>3
  <2> HIDE DEF S, m
  <2>5. R(b) \in [1 .. m -> S]
    BY <2>2, <2>4
  <2>6. R(b) \in Seq(S) /\ Len(R(b)) = m
    BY <2>1, <2>5
  <2> QED BY <2>2, <2>6, Zenon DEF m
<1> HIDE DEF R
<1>3. R(1) = ParsedList(list)
  <2>1. (n + 1) - 1 = n /\ \A k \in 1 .. n : 1 + k - 1 = k
    BY <1>1
  <2>2. ParsedList(list) = [k \in 1 .. n |-> parse_node_v2[list[k]]]
    BY <1>1, Zenon DEF ParsedList
  <2>3. R(1) = [k \in 1 .. (n + 1 - 1) |-> parse_node_v2[list[1 + k - 1]]]
    BY Zenon DEF R, RestOf, n
  <2>4. 1 .. (n + 1 - 1) = 1 .. n
    BY <1>1
  <2>5. \A k \in 1 .. n : parse_node_v2[list[1 + k - 1]] = parse_node_v2[list[k]]
    BY <2>1
  <2> QED BY <2>2, <2>3, <2>4, <2>5, Zenon
<1>4. R(a) = << >> <=> a = n + 1
  <2>1. R(a) \in Seq(S) /\ Len(R(a)) = (n + 1) - a
    BY <1>2 DEF n
  <2>2. a \in Nat /\ n + 1 \in Nat
    BY <1>1 DEF n
  <2> HIDE DEF S
  <2>3. R(a) = << >> <=> Len(R(a)) = 0
    BY <2>1
  <2> QED BY <2>1, <2>2, <2>3
<1>5. ASSUME a <= n
      PROVE  R(a) # << >> /\ Head(R(a)) = parse_node_v2[list[a]] /\ Tail(R(a)) = R(a + 1) /\ a + 1 \in 1 .. (n + 1)
  <2>1. a \in 1 .. n /\ a + 1 \in 1 .. (n + 1) /\ a \in 1 .. (n + 1) /\ (n + 1) - (a + 1) = ((n + 1) - a) - 1
        /\ 1 \in 1 .. ((n + 1) - a) /\ a + 1 - 1 = a /\ (n + 1) - a \in Nat \ {0}
    BY <1>1, <1>5 DEF n
  <2>2. /\ R(a) \in Seq(S) /\ Len(R(a)) = (n + 1) - a
        /\ \A k \in 1 .. ((n + 1) - a) : R(a)[k] = parse_node_v2[list[a + k - 1]]
    BY <1>2, <2>1
  <2>3. /\ R(a + 1) \in Seq(S) /\ Len(R(a + 1)) = ((n + 1) - a) - 1
        /\ \A k \in 1 .. (((n + 1) - a) - 1) : R(a + 1)[k] = parse_node_v2[list[(a + 1) + k - 1]]
    BY <1>2, <2>1
  <2> HIDE DEF S
  <2>4. R(a) # << >> /\ Head(R(a)) = R(a)[1] /\ Tail(R(a)) \in Seq(S) /\ Len(Tail(R(a))) = ((n + 1) - a) - 1
        /\ \A k \in 1 .. (((n + 1) - a) - 1) : Tail(R(a))[k] = R(a)[k + 1]
    BY <2>1, <2>2
  <2>5. ASSUME NEW k \in 1 .. (((n + 1) - a) - 1) PROVE Tail(R(a))[k] = R(a + 1)[k]
    <3>1. k + 1 \in 1 .. ((n + 1) - a) /\ a + (k + 1) - 1 = (a + 1) + k - 1
      BY <2>1
    <3> QED BY <2>2, <2>3, <2>4, <3>1
  <2> DEFINE x == Tail(R(a))
             y == R(a + 1)
             m == ((n + 1) - a) - 1
  <2>6. x \in Seq(S) /\ y \in Seq(S) /\ Len(x) = m /\ Len(y) = m /\ \A k \in 1 .. m : x[k] = y[k]
    BY <2>3, <2>4, <2>5
  <2> HIDE DEF x, y, m
  <2>7. x = y
    BY <2>6, SeqEqual
  <2> QED BY <2>1, <2>2, <2>4, <2>7 DEF x, y
<1> QED BY <1>3, <1>4, <1>5 DEF R, n

-----------------------------------------------------------------------------
(* The stack and the trail. *)

\* A frame is at the node a of the list a visit opens, in the scope it opens.
InFrame(f, v, a) ==
  LET scope == ScopeOf(v)
  IN  /\ DOMAIN f = {"todo", "path", "bindings", "subst", "loop"}
      /\ a \in 1 .. (Len(ListOf(v)) + 1) /\ f.todo = RestOf(ListOf(v), a)
      /\ DOMAIN scope = {"vars", "subst", "path", "loops"}
      /\ f.path = scope.path /\ f.subst = scope.subst
      /\ IsArray(scope.path) /\ scope.path # << >> /\ IsArray(scope.loops)
      /\ DOMAIN f.bindings \subseteq Range(Parameters(Last(scope.path)))
      /\ Agree(Vars(scope.loops, f.bindings), scope.vars)
      /\ v.node.type = "Loop" =>
           /\ f.loop = parse_node_v2[v.node] /\ Good(v.node) /\ v.node.var \notin DOMAIN f.bindings
           /\ IsArray(v.scope.loops) /\ Agree(Vars(v.scope.loops, f.bindings), v.scope.vars)
      /\ v.node.type # "Loop" => f.loop = NoLoop

\* The node a visit of a trail is past, or at if it is the last one.
NextIn(Q, k, a) == IF k = Len(Q) THEN a ELSE Q[k + 1].at + 1

\* The frames of a stack are at the nodes a trail goes through, and at the node a.
OnStack(s, Q, a) ==
  /\ IsArray(s) /\ Len(s) = Len(Q)
  /\ \A k \in 1 .. Len(Q) : InFrame(s[(Len(Q) + 1) - k], Q[k], NextIn(Q, k, a))

\* The frame on top, and those below.
LEMMA StackTop ==
  ASSUME NEW P, IsArray(P), NEW v, NEW a, NEW s, OnStack(s, Append(P, v), a)
  PROVE  /\ s # << >> /\ IsArray(Tail(s)) /\ s = <<Head(s)>> \o Tail(s)
         /\ InFrame(Head(s), v, a) /\ OnStack(Tail(s), P, v.at + 1)
<1> DEFINE Q == Append(P, v)
           n == Len(P)
<1>1. Len(Q) = n + 1 /\ n \in Nat /\ Q[n + 1] = v /\ \A i \in 1 .. n : Q[i] = P[i]
  BY Appended
<1> HIDE DEF Q, n
<1>2. /\ IsArray(s) /\ Len(s) = n + 1
      /\ \A k \in 1 .. (n + 1) : InFrame(s[((n + 1) + 1) - k], Q[k], NextIn(Q, k, a))
  BY <1>1 DEF OnStack, Q
<1>3. s # << >>
  BY <1>1, <1>2
<1>4. /\ IsArray(Tail(s)) /\ Len(Tail(s)) = n /\ Head(s) = s[1] /\ s = <<Head(s)>> \o Tail(s)
      /\ \A k \in 1 .. n : Tail(s)[k] = s[k + 1]
  <2>1. /\ IsArray(Tail(s)) /\ Len(Tail(s)) = Len(s) - 1 /\ Head(s) = s[1] /\ s = <<Head(s)>> \o Tail(s)
        /\ \A k \in 1 .. Len(Tail(s)) : Tail(s)[k] = s[k + 1]
    BY <1>2, <1>3, Below
  <2> QED BY <1>1, <1>2, <2>1
<1>5. InFrame(Head(s), v, a)
  <2>1. n + 1 \in 1 .. (n + 1) /\ ((n + 1) + 1) - (n + 1) = 1
    BY <1>1
  <2>2. NextIn(Q, n + 1, a) = a
    BY <1>1 DEF NextIn
  <2> QED BY <1>1, <1>2, <1>4, <2>1, <2>2
<1>6. ASSUME NEW k \in 1 .. n PROVE InFrame(Tail(s)[(n + 1) - k], P[k], NextIn(P, k, v.at + 1))
  <2>1. k \in 1 .. (n + 1) /\ (n + 1) - k \in 1 .. n /\ ((n + 1) - k) + 1 = ((n + 1) + 1) - k
    BY <1>1
  <2>2. Tail(s)[(n + 1) - k] = s[((n + 1) + 1) - k]
    BY <1>4, <2>1
  <2>3. NextIn(Q, k, a) = NextIn(P, k, v.at + 1)
    <3>1. CASE k = n
      BY <1>1, <3>1 DEF NextIn, n
    <3>2. CASE k # n
      <4>1. k # n + 1 /\ k + 1 \in 1 .. n
        BY <1>1, <3>2
      <4> QED BY <1>1, <3>2, <4>1 DEF NextIn, n
    <3> QED BY <3>1, <3>2
  <2>4. Q[k] = P[k]
    BY <1>1
  <2>5. InFrame(s[((n + 1) + 1) - k], Q[k], NextIn(Q, k, a))
    BY <1>2, <2>1
  <2> QED BY <2>2, <2>3, <2>4, <2>5
<1>7. OnStack(Tail(s), P, v.at + 1)
  BY <1>4, <1>6 DEF OnStack, n
<1> QED BY <1>3, <1>4, <1>5, <1>7

\* A frame more.
LEMMA StackMore ==
  ASSUME NEW P, IsArray(P), NEW v, NEW a, NEW s, OnStack(s, P, v.at + 1), NEW f, InFrame(f, v, a)
  PROVE  OnStack(<<f>> \o s, Append(P, v), a)
<1> DEFINE Q == Append(P, v)
           n == Len(P)
           t == <<f>> \o s
<1>1. Len(Q) = n + 1 /\ n \in Nat /\ Q[n + 1] = v /\ \A i \in 1 .. n : Q[i] = P[i]
  BY Appended
<1>2. /\ IsArray(s) /\ Len(s) = n
      /\ \A k \in 1 .. n : InFrame(s[(n + 1) - k], P[k], NextIn(P, k, v.at + 1))
  BY DEF OnStack
<1>3. /\ IsArray(t) /\ Len(t) = Len(s) + 1 /\ t[1] = f /\ \A k \in 1 .. Len(s) : t[k + 1] = s[k]
  BY ZenonT(40), <1>2, OnTop
<1> HIDE DEF Q, n, t
<1>4. ASSUME NEW k \in 1 .. (n + 1) PROVE InFrame(t[((n + 1) + 1) - k], Q[k], NextIn(Q, k, a))
  <2>1. CASE k = n + 1
    <3>1. ((n + 1) + 1) - k = 1 /\ NextIn(Q, k, a) = a
      BY <1>1, <2>1 DEF NextIn
    <3> QED BY <1>1, <1>3, <2>1, <3>1
  <2>2. CASE k # n + 1
    <3>1. k \in 1 .. n /\ (n + 1) - k \in 1 .. n /\ ((n + 1) - k) + 1 = ((n + 1) + 1) - k
      BY <1>1, <2>2
    <3>2. t[((n + 1) + 1) - k] = s[(n + 1) - k]
      BY <1>2, <1>3, <3>1
    <3>3. NextIn(Q, k, a) = NextIn(P, k, v.at + 1)
      <4>1. CASE k = n
        BY <1>1, <4>1 DEF NextIn, n
      <4>2. CASE k # n
        <5>1. k # n + 1 /\ k + 1 \in 1 .. n
          BY <1>1, <3>1, <4>2
        <5> QED BY <1>1, <4>2, <5>1 DEF NextIn, n
      <4> QED BY <4>1, <4>2
    <3>4. InFrame(s[(n + 1) - k], P[k], NextIn(P, k, v.at + 1)) /\ Q[k] = P[k]
      BY <1>1, <1>2, <3>1
    <3> QED BY <3>2, <3>3, <3>4
  <2> QED BY <2>1, <2>2
<1>5. OnStack(t, Q, a)
  BY <1>1, <1>2, <1>3, <1>4 DEF OnStack
<1> QED BY <1>5 DEF t, Q

\* There is a frame for each visit.
LEMMA StackEmpty ==
  ASSUME NEW Q, IsArray(Q), NEW a, NEW s, OnStack(s, Q, a)
  PROVE  s = << >> <=> Q = << >>
<1>1. s \in Seq(Range(s)) /\ Q \in Seq(Range(Q)) /\ Len(s) = Len(Q)
  BY DEF OnStack, IsArray
<1> QED BY <1>1

\* Nothing is visited yet.
LEMMA NoStack ==
  ASSUME NEW a
  PROVE  OnStack(<< >>, << >>, a)
<1>1. << >> \in Seq(Range(<< >>)) /\ Len(<< >>) = 0
  OBVIOUS
<1> QED BY <1>1 DEF OnStack, IsArray

\* A frame once its node is visited.
Shortened(f) == [f EXCEPT !.todo = Tail(@)]

\* The node at hand, and the frame once it is visited.
LEMMA FrameNode ==
  ASSUME Loadable, NEW v, GoodVisit(v), Open(v), NEW a, NEW f, InFrame(f, v, a)
  PROVE  LET list == ListOf(v)
         IN  /\ f.todo = << >> <=> a = Len(list) + 1
             /\ f.todo # << >> =>
                  /\ a \in 1 .. Len(list) /\ a \in DOMAIN list
                  /\ Good(list[a]) /\ Head(f.todo) = parse_node_v2[list[a]]
                  /\ InFrame(Shortened(f), v, a + 1)
             /\ a \in Nat /\ (f.loop # NoLoop <=> v.node.type = "Loop")
<1> DEFINE list == ListOf(v)
           g    == Shortened(f)
<1>1. GoodList(list)
  BY OpenVisit
<1>2. DOMAIN list = 1 .. Len(list) /\ Len(list) \in Nat /\ \A k \in DOMAIN list : Good(list[k])
  BY <1>1 DEF GoodList
<1>3. a \in 1 .. (Len(list) + 1) /\ f.todo = RestOf(list, a)
      /\ DOMAIN f = {"todo", "path", "bindings", "subst", "loop"}
  BY DEF InFrame
<1> HIDE DEF list
<1>4. /\ f.todo = << >> <=> a = Len(list) + 1
      /\ a <= Len(list) => /\ Head(f.todo) = parse_node_v2[list[a]]
                           /\ Tail(f.todo) = RestOf(list, a + 1) /\ a + 1 \in 1 .. (Len(list) + 1)
  BY <1>1, <1>3, RestOfList
<1>5. ASSUME f.todo # << >>
      PROVE  /\ a \in 1 .. Len(list) /\ Good(list[a]) /\ Head(f.todo) = parse_node_v2[list[a]]
             /\ a \in DOMAIN list /\ InFrame(g, v, a + 1)
  <2>1. a \in 1 .. Len(list)
    BY <1>2, <1>3, <1>4, <1>5
  <2>2. a <= Len(list)
    BY <1>2, <2>1
  <2>3. /\ DOMAIN g = DOMAIN f /\ g.todo = Tail(f.todo) /\ g.path = f.path /\ g.bindings = f.bindings
        /\ g.subst = f.subst /\ g.loop = f.loop
    BY <1>3 DEF Shortened
  <2> HIDE DEF g
  <2>4. InFrame(g, v, a + 1)
    BY <1>4, <2>2, <2>3 DEF InFrame, list
  <2> QED BY <1>2, <1>4, <2>1, <2>2, <2>4
<1>6. f.loop # NoLoop <=> v.node.type = "Loop"
  <2>1. CASE v.node.type = "Loop"
    <3>1. f.loop = parse_node_v2[v.node] /\ Good(v.node)
      BY <2>1 DEF InFrame
    <3>2. f.loop.kind = "Loop"
      BY <2>1, <3>1, NodeFrom
    <3>3. NoLoop.kind = "None"
      BY DEF NoLoop
    <3>4. f.loop # NoLoop
      BY <3>2, <3>3
    <3> QED BY <2>1, <3>4
  <2>2. CASE v.node.type # "Loop"
    BY <2>2 DEF InFrame
  <2> QED BY <2>1, <2>2
<1>7. a \in Nat
  BY <1>3
<1> QED BY <1>4, <1>5, <1>6, <1>7 DEF list, g

\* The visits from a trail on are to the nodes of the list that its last one opens.
LEMMA NodeOfVisit ==
  ASSUME NEW v, Open(v), InScope(v), NEW Q, Q # << >>, Last(Q) = v, NEW w \in Onward(Q)
  PROVE  /\ w.at \in DOMAIN ListOf(v) /\ w.node = ListOf(v)[w.at] /\ w.scope = ScopeOf(v)
         /\ w.iter \in Iterations(w.node)
<1>1. Onward(Q) = Visits(ListOf(v), ScopeOf(v))
  BY VisitsOfVisit DEF Onward
<1>2. /\ w.at \in DOMAIN ListOf(v) /\ w.iter \in Iterations(ListOf(v)[w.at])
      /\ w = [at |-> w.at, iter |-> w.iter, node |-> ListOf(v)[w.at], scope |-> ScopeOf(v)]
  BY <1>1, VisitsOfList
<1>3. w.node = ListOf(v)[w.at] /\ w.scope = ScopeOf(v)
  BY <1>2
<1> QED BY <1>2, <1>3

\* Each iteration of a node of that list is visited.
LEMMA VisitsOfNode ==
  ASSUME NEW v, Open(v), InScope(v), NEW Q, Q # << >>, Last(Q) = v, NEW a \in DOMAIN ListOf(v),
         NEW i \in Iterations(ListOf(v)[a])
  PROVE  LET w == [at |-> a, iter |-> i, node |-> ListOf(v)[a], scope |-> ScopeOf(v)]
         IN  w \in Onward(Q) /\ w.at = a /\ w.iter = i /\ w.node = ListOf(v)[a] /\ w.scope = ScopeOf(v)
<1> DEFINE w == [at |-> a, iter |-> i, node |-> ListOf(v)[a], scope |-> ScopeOf(v)]
<1>1. Onward(Q) = Visits(ListOf(v), ScopeOf(v))
  BY VisitsOfVisit DEF Onward
<1>2. w.at = a /\ w.iter = i /\ w.node = ListOf(v)[a] /\ w.scope = ScopeOf(v)
      /\ w = [at |-> a, iter |-> i, node |-> ListOf(v)[a], scope |-> ScopeOf(v)]
  OBVIOUS
<1> HIDE DEF w
<1>3. w \in Visits(ListOf(v), ScopeOf(v))
  BY <1>2, VisitsOfList
<1> QED BY <1>1, <1>2, <1>3 DEF w

-----------------------------------------------------------------------------
(* Accesses. *)

\* What a scalar's node says.
LEMMA ScalarNode ==
  ASSUME NEW j, Good(j), j.type = "Scalar", NEW n, n = parse_node_v2[j], NEW scope
  PROVE  n.object = ObjectNamed(j) /\ n.op = ValueOr(j, "op", NoName) /\ StepsOf(j, scope) = << >>
<1>1. n = NodeOf(j, ParsedList(Body(j)))
  BY GoodNode
<1>2. n = [kind |-> "Scalar", object |-> ValueOr(j, "object", ValueOr(j, "name", NoObject)),
           op |-> ValueOr(j, "op", NoName)]
  BY <1>1 DEF NodeOf
<1>3. ObjectNamed(j) = ValueOr(j, "object", ValueOr(j, "name", NoObject))
  BY DEF ObjectNamed
<1>4. StepsOf(j, scope) = << >>
  <2> DEFINE E(p) == [k \in DOMAIN p |-> IF p[k].kind = "field" THEN [field |-> ValueOr(p[k], "index", 0)]
                                          ELSE [index |-> EvalIndex(p[k].value, scope.vars)]]
  <2>1. StepsOf(j, scope) = E(<< >>)
    BY DEF StepsOf
  <2>2. DOMAIN E(<< >>) = {} /\ \A k \in DOMAIN E(<< >>) : FALSE
    OBVIOUS
  <2>3. E(<< >>) = << >>
    OBVIOUS
  <2> QED BY <2>1, <2>3
<1> QED BY <1>2, <1>3, <1>4

\* What an array's node says, and its path in a scope.
LEMMA ArrayNode ==
  ASSUME NEW j, Good(j), j.type = "Array", NEW n, n = parse_node_v2[j],
         NEW scope, StepsInScope(j, scope), NEW vars, Agree(vars, scope.vars)
  PROVE  /\ n.object = ObjectNamed(j) /\ n.op = ValueOr(j, "op", NoName)
         /\ PathEvaluates(n.access_path, vars) /\ EvalPath(n.access_path, vars) = StepsOf(j, scope)
<1> DEFINE path == ValueOr(j, "access_path", << >>)
           parsed == [k \in DOMAIN path |-> parse_step(path[k])]
<1>1. n = NodeOf(j, ParsedList(Body(j)))
  BY GoodNode
<1>2. n = [kind |-> "Array", object |-> ValueOr(j, "object", NoObject),
           op |-> ValueOr(j, "op", NoName), access_path |-> parsed]
  BY <1>1 DEF NodeOf
<1>3. n.object = ValueOr(j, "object", NoObject) /\ n.op = ValueOr(j, "op", NoName) /\ n.access_path = parsed
  BY <1>2
<1>4. ObjectNamed(j) = ValueOr(j, "object", NoObject)
  BY DEF ObjectNamed
<1>5. DOMAIN parsed = DOMAIN path /\ \A k \in DOMAIN path : parsed[k] = parse_step(path[k])
  OBVIOUS
<1>6. \A k \in DOMAIN path : path[k].kind = "field" \/ Evaluates(path[k].value, scope.vars)
  BY DEF StepsInScope, Range
<1>7. StepsOf(j, scope) = [k \in DOMAIN path |->
                             IF path[k].kind = "field" THEN [field |-> ValueOr(path[k], "index", 0)]
                             ELSE [index |-> EvalIndex(path[k].value, scope.vars)]]
  BY Zenon DEF StepsOf
<1> HIDE DEF parsed, path
<1>8. ASSUME NEW k \in DOMAIN path
      PROVE  /\ IsField(parsed[k]) \/ Evaluates(parsed[k].expr, vars)
             /\ (IF IsField(parsed[k]) THEN parsed[k] ELSE [index |-> EvalIndex(parsed[k].expr, vars)])
                  = IF path[k].kind = "field" THEN [field |-> ValueOr(path[k], "index", 0)]
                    ELSE [index |-> EvalIndex(path[k].value, scope.vars)]
  <2>1. CASE path[k].kind = "field"
    <3>1. parsed[k] = [field |-> ValueOr(path[k], "index", 0)]
      BY <1>5, <2>1 DEF parse_step
    <3>2. IsField(parsed[k])
      BY <3>1 DEF IsField
    <3> QED BY <2>1, <3>1, <3>2
  <2>2. CASE path[k].kind # "field"
    <3>1. parsed[k] = [expr |-> path[k].value]
      BY <1>5, <2>2 DEF parse_step
    <3>2. ~ IsField(parsed[k]) /\ parsed[k].expr = path[k].value
      BY <3>1 DEF IsField
    <3>3. Evaluates(path[k].value, scope.vars)
      BY <1>6, <2>2
    <3>4. Evaluates(path[k].value, vars) /\ EvalIndex(path[k].value, vars) = EvalIndex(path[k].value, scope.vars)
      BY <3>3, SameIndex
    <3> QED BY <2>2, <3>2, <3>4
  <2> QED BY <2>1, <2>2
<1>9. PathEvaluates(parsed, vars)
  BY <1>5, <1>8, Zenon DEF PathEvaluates, Range
<1>10. EvalPath(parsed, vars) = StepsOf(j, scope)
  <2>1. EvalPath(parsed, vars) = [k \in DOMAIN path |-> IF IsField(parsed[k]) THEN parsed[k]
                                                        ELSE [index |-> EvalIndex(parsed[k].expr, vars)]]
    BY <1>5, Zenon DEF EvalPath
  <2> QED BY <1>7, <1>8, <2>1, Zenon
<1> QED BY <1>3, <1>4, <1>9, <1>10

\* The accesses an execution has made so far are those before the place it is at.
Recorded(events, done) ==
  /\ IsArray(events) /\ IsFiniteSet(done) /\ Len(events) = Cardinality(done)
  /\ \A k \in DOMAIN events :
       \E t \in AccessTrails : /\ Cardinality({u \in AccessTrails : Before(u, t)}) = k - 1
                               /\ Accesses(events)[k] = AccessOf(t)

\* What an event says apart from its offset.
Apart(e) == [f \in DOMAIN e \ {"byte_offset"} |-> e[f]]

\* One access more is recorded.
LEMMA RecordedMore ==
  ASSUME NEW events, NEW done, Recorded(events, done), NEW t \in AccessTrails, t \notin done,
         {u \in AccessTrails : Before(u, t)} = done,
         NEW e, Apart(e) = AccessOf(t)
  PROVE  Recorded(Append(events, e), done \cup {t})
<1> DEFINE es == Append(events, e)
           n  == Len(events)
<1>1. /\ IsArray(es) /\ Len(es) = n + 1 /\ n \in Nat /\ es[n + 1] = e /\ \A k \in 1 .. n : es[k] = events[k]
  BY Appended DEF Recorded
<1>2. DOMAIN es = 1 .. (n + 1) /\ DOMAIN events = 1 .. n
  BY <1>1 DEF IsArray, Recorded
<1>3. IsFiniteSet(done \cup {t}) /\ Cardinality(done \cup {t}) = n + 1 /\ Cardinality(done) = n
  BY FS_AddElement DEF Recorded
<1> HIDE DEF es
<1>4. /\ \A k \in DOMAIN es : Accesses(es)[k] = Apart(es[k])
      /\ \A k \in DOMAIN events : Accesses(events)[k] = Apart(events[k])
  BY Zenon DEF Accesses, Apart
<1>5. ASSUME NEW k \in DOMAIN es
      PROVE  \E u \in AccessTrails : /\ Cardinality({w \in AccessTrails : Before(w, u)}) = k - 1
                                     /\ Accesses(es)[k] = AccessOf(u)
  <2>1. CASE k = n + 1
    <3>1. Accesses(es)[k] = AccessOf(t)
      BY <1>1, <1>4, <2>1
    <3>2. k - 1 = n
      BY <1>1, <2>1
    <3> QED BY <1>3, <3>1, <3>2
  <2>2. CASE k # n + 1
    <3>1. k \in DOMAIN events /\ es[k] = events[k]
      BY <1>1, <1>2, <2>2
    <3>2. Accesses(es)[k] = Accesses(events)[k]
      BY <1>4, <3>1
    <3> QED BY <3>1, <3>2 DEF Recorded
  <2> QED BY <2>1, <2>2
<1> QED BY <1>1, <1>3, <1>5 DEF Recorded, es

\* The event of the node at hand is the access at the end of the trail.
LEMMA EventOfAccess ==
  ASSUME NEW t, NEW v, Last(t) = v, NEW path, NEW offset,
         node.object = ObjectNamed(v.node), node.op = ValueOr(v.node, "op", NoName),
         path = StepsOf(v.node, v.scope),
         top.subst = v.scope.subst, top.path = v.scope.path, loop_stack = v.scope.loops
  PROVE  LET e == Event(path, offset)
         IN  /\ Apart(e) = AccessOf(t)
             /\ e.object_name = AccessOf(t).object_name /\ path = AccessOf(t).path
             /\ ResolveObject(node.object, top.subst) = AccessOf(t).object_name
<1> DEFINE e == Event(path, offset)
           name == ResolveObject(node.object, top.subst)
           r == [object_name |-> name, path |-> path, op |-> node.op,
                 region_path |-> top.path, loop_stack |-> loop_stack]
<1>1. e = [object_name |-> name, path |-> path, byte_offset |-> offset, op |-> node.op,
           region_path |-> top.path, loop_stack |-> loop_stack]
  BY DEF Event
<1>2. AccessOf(t) = r
  BY DEF AccessOf
<1> DEFINE g == Apart(e)
<1>3. DOMAIN e \ {"byte_offset"} = {"object_name", "path", "op", "region_path", "loop_stack"}
  BY <1>1
<1>4. DOMAIN g = {"object_name", "path", "op", "region_path", "loop_stack"}
      /\ \A f \in DOMAIN g : g[f] = e[f]
  BY <1>3 DEF Apart
<1> HIDE DEF g
<1>5. /\ g["object_name"] = e.object_name /\ g["path"] = e.path /\ g["op"] = e.op
      /\ g["region_path"] = e.region_path /\ g["loop_stack"] = e.loop_stack
      /\ g = [f \in {"object_name", "path", "op", "region_path", "loop_stack"} |-> g[f]]
  BY <1>3, <1>4 DEF g, Apart
<1>6. e.object_name = name /\ e.path = path /\ e.op = node.op /\ e.region_path = top.path /\ e.loop_stack = loop_stack
  BY <1>1
<1> HIDE DEF e, name
<1>7. g = r
  BY <1>5, <1>6
<1>8. r.object_name = name /\ r.path = path
  OBVIOUS
<1> HIDE DEF r
<1> QED BY <1>2, <1>6, <1>7, <1>8 DEF e, g, name

-----------------------------------------------------------------------------
(* Calls. *)

\* The positions a call binds, and the one that binds a parameter.
LEMMA BoundPositions ==
  ASSUME Loadable, Ready, NEW j, Good(j), j.type = "Call", IsDefined(j.callee),
         IsInjective(Parameters(j.callee)), NEW n, n = parse_node_v2[j]
  PROVE  /\ n.callee = j.callee /\ n.arg_objects = ArgObjects(j)
         /\ program.params[n.callee] = Parameters(j.callee) /\ Bound(n) = Matched(j)
         /\ \A k \in Matched(j) : k \in DOMAIN Parameters(j.callee) /\ k \in DOMAIN ArgObjects(j)
         /\ \A S : S \subseteq Matched(j) => \A k \in S : Binding(n, S, Parameters(j.callee)[k]) = k
<1> DEFINE params == Parameters(j.callee)
           args   == ArgObjects(j)
<1>1. n = [kind |-> "Call", callee |-> j.callee, arg_objects |-> args]
  <2>1. n = NodeOf(j, ParsedList(Body(j)))
    BY GoodNode
  <2> QED BY <2>1 DEF NodeOf, ArgObjects
<1>2. IsArray(args)
  <2>1. KeysParse(j) /\ j \in Nodes
    BY GoodNode DEF Good
  <2> QED BY <2>1, JsonAssumption DEF ArgObjects
<1>3. IsArray(params) /\ program.params[j.callee] = params /\ j.callee \in DOMAIN program.params
  BY NamedFunction, ProgramFunctions
<1>4. n.callee = j.callee /\ n.arg_objects = args
  BY <1>1
<1>5. /\ DOMAIN params = 1 .. Len(params) /\ Len(params) \in Nat
      /\ DOMAIN args = 1 .. Len(args) /\ Len(args) \in Nat
  BY <1>2, <1>3 DEF IsArray
<1> HIDE DEF params, args
<1>6. Bound(n) = 1 .. Min({Len(params), Len(args)})
  BY <1>3, <1>4 DEF Bound
<1>7. 1 .. Min({Len(params), Len(args)}) = DOMAIN params \cap DOMAIN args
  <2> DEFINE T == {Len(params), Len(args)}
             m == Min(T)
  <2>1. T \subseteq Nat /\ T # {}
    BY <1>5
  <2>2. m \in T /\ \A y \in T : m <= y
    BY <2>1, LeastOf
  <2>3. (m = Len(params) \/ m = Len(args)) /\ m <= Len(params) /\ m <= Len(args)
    BY <2>2
  <2> HIDE DEF m
  <2>4. 1 .. m = DOMAIN params \cap DOMAIN args
    BY <1>5, <2>3
  <2> QED BY <2>4 DEF m
<1>8. Matched(j) = DOMAIN params \cap DOMAIN args
  BY DEF Matched, params, args
<1>9. ASSUME NEW S, S \subseteq Matched(j), NEW k \in S
      PROVE  Binding(n, S, params[k]) = k
  <2> DEFINE T == {i \in S : params[i] = params[k]}
  <2>1. \A i \in S : i \in DOMAIN params
    BY <1>8, <1>9
  <2>2. \A i \in S : params[i] = params[k] => i = k
    BY <1>9, <2>1 DEF IsInjective, params
  <2>3. k \in T /\ \A i \in T : i = k
    BY <1>9, <2>2
  <2>4. T # {} /\ T \subseteq 1 .. Len(params)
    BY <1>5, <2>1, <2>3
  <2>5. Binding(n, S, params[k]) = Max(T)
    BY <1>3, <1>4 DEF Binding
  <2> HIDE DEF T
  <2>6. Max(T) \in T
    BY <1>5, <2>4, MaxOfPlaces
  <2> QED BY <2>3, <2>5, <2>6
<1> QED BY <1>3, <1>4, <1>6, <1>7, <1>8, <1>9 DEF params, args

\* The argument for a parameter is the only one of its name.
LEMMA OneArgument ==
  ASSUME NEW j, IsInjective(Parameters(j.callee)), NEW k \in Matched(j)
  PROVE  (CHOOSE x \in {a \in Arguments(j) : a.name = Parameters(j.callee)[k]} : TRUE)
           = [name |-> Parameters(j.callee)[k], arg |-> ArgObjects(j)[k]]
<1> DEFINE params == Parameters(j.callee)
           args   == ArgObjects(j)
           A(i)   == [name |-> params[i], arg |-> args[i]]
           S      == {a \in Arguments(j) : a.name = params[k]}
<1>1. Arguments(j) = {A(i) : i \in Matched(j)} /\ \A i \in Matched(j) : i \in DOMAIN params
  BY DEF Arguments, Matched
<1>2. A(k).name = params[k]
  OBVIOUS
<1>3. A(k) \in S
  BY <1>1, <1>2
<1>4. ASSUME NEW a \in S PROVE a = A(k)
  <2>1. PICK i \in Matched(j) : a = A(i)
    BY <1>1
  <2>2. A(i).name = params[i]
    OBVIOUS
  <2>3. params[i] = params[k] /\ i \in DOMAIN params /\ k \in DOMAIN params
    BY <1>1, <2>1, <2>2
  <2>4. i = k
    BY <2>3 DEF IsInjective
  <2> QED BY <2>1, <2>4
<1> HIDE DEF S, A
<1>5. (CHOOSE x \in S : TRUE) = A(k)
  BY <1>3, <1>4
<1> QED BY <1>5 DEF S, A

\* What is bound of a parameter in the builder is what the scope of the callee has.
LEMMA CalleeMatches ==
  ASSUME Loadable, Ready, NEW j, Good(j), j.type = "Call", IsDefined(j.callee),
         IsInjective(Parameters(j.callee)), NEW n, n = parse_node_v2[j],
         NEW scope, NEW vars, Agree(vars, scope.vars),
         \A a \in Arguments(j) :
           NamesObject(a.arg, scope) \/ (~a.arg.is_object /\ Evaluates(a.arg.expr, scope.vars))
  PROVE  /\ \A k \in Bound(n) : LET arg == n.arg_objects[k]
                                IN  \/ IsObjectArg(arg, scope.subst)
                                    \/ ~arg.is_object /\ Evaluates(arg.expr, vars)
         /\ CalleeSubst(n, scope.subst) = CalleeScope(scope, j).subst
         /\ CalleeBindings(n, scope.subst, vars) = CalleeScope(scope, j).vars
         /\ DOMAIN CalleeScope(scope, j).vars \subseteq Range(Parameters(j.callee))
<1> DEFINE params == Parameters(j.callee)
           args   == ArgObjects(j)
           A(k)   == [name |-> params[k], arg |-> args[k]]
           M      == Matched(j)
           One(p) == CHOOSE x \in {a \in Arguments(j) : a.name = p} : TRUE
           obj    == ObjectArgs(n, scope.subst)
           rest   == M \ obj
           objects == {a \in Arguments(j) : NamesObject(a.arg, scope)}
           callee == CalleeScope(scope, j)
<1>1. /\ n.callee = j.callee /\ n.arg_objects = args /\ program.params[n.callee] = params /\ Bound(n) = M
      /\ \A k \in M : k \in DOMAIN params /\ k \in DOMAIN args
      /\ \A S : S \subseteq M => \A k \in S : Binding(n, S, params[k]) = k
  BY BoundPositions
<1>2. \A k \in M : One(params[k]) = A(k)
  BY OneArgument
<1>3. Arguments(j) = {A(k) : k \in M}
  BY DEF Arguments
<1>4. \A k \in M : A(k).name = params[k] /\ A(k).arg = args[k]
  OBVIOUS
<1>5. \A arg : NamesObject(arg, scope) <=> IsObjectArg(arg, scope.subst)
  <2>1. DOMAIN program.objects = DOMAIN Objects(document.metadata)
    BY ProgramFunctions
  <2> QED BY <2>1 DEF NamesObject, IsObjectArg
<1>6. obj = {k \in M : NamesObject(args[k], scope)} /\ obj \subseteq M /\ rest \subseteq M
  BY <1>1, <1>5 DEF ObjectArgs
<1>7. callee.subst = [id \in {<<j.callee, a.name>> : a \in objects} |->
                        ResolveObject(One(id[2]).arg.object, scope.subst)]
      /\ callee.vars = [p \in {a.name : a \in Arguments(j) \ objects} |-> EvalIndex(One(p).arg.expr, scope.vars)]
  BY DEF CalleeScope
<1>8. CalleeSubst(n, scope.subst) =
        [id \in {<<n.callee, program.params[n.callee][k]>> : k \in obj} |->
           ResolveObject(n.arg_objects[Binding(n, obj, id[2])].object, scope.subst)]
  BY DEF CalleeSubst
<1>9. CalleeBindings(n, scope.subst, vars) =
        [p \in {program.params[n.callee][k] : k \in Bound(n) \ obj} |->
           EvalIndex(n.arg_objects[Binding(n, Bound(n) \ obj, p)].expr, vars)]
  BY DEF CalleeBindings
<1> HIDE DEF A, One, M, obj, params, args, callee
<1>10. ASSUME NEW k \in M
       PROVE  \/ k \in obj /\ A(k) \in objects
              \/ k \in rest /\ A(k) \in Arguments(j) \ objects /\ ~ args[k].is_object
                   /\ Evaluates(args[k].expr, scope.vars)
  <2>1. A(k) \in Arguments(j)
    BY <1>3
  <2>2. NamesObject(A(k).arg, scope) \/ (~A(k).arg.is_object /\ Evaluates(A(k).arg.expr, scope.vars))
    BY <2>1
  <2> QED BY <1>4, <1>6, <2>1, <2>2
<1>11. objects = {A(k) : k \in obj} /\ Arguments(j) \ objects = {A(k) : k \in rest}
  BY <1>3, <1>4, <1>6
<1>12. {<<j.callee, a.name>> : a \in objects} = {<<j.callee, params[k]>> : k \in obj}
  BY <1>4, <1>6, <1>11
<1>13. {a.name : a \in Arguments(j) \ objects} = {params[k] : k \in rest}
  BY <1>4, <1>6, <1>11
<1> HIDE DEF objects
<1>14. CalleeSubst(n, scope.subst) = callee.subst
  <2> DEFINE D == {<<j.callee, params[k]>> : k \in obj}
             F(id) == ResolveObject(One(id[2]).arg.object, scope.subst)
             G(id) == ResolveObject(args[Binding(n, obj, id[2])].object, scope.subst)
  <2>1. ASSUME NEW id \in D PROVE F(id) = G(id)
    <3>1. PICK k \in obj : id = <<j.callee, params[k]>>
      OBVIOUS
    <3>2. id[2] = params[k] /\ k \in M
      BY <1>6, <3>1
    <3>3. Binding(n, obj, params[k]) = k /\ One(params[k]).arg = args[k]
      BY <1>1, <1>2, <1>4, <1>6, <3>2
    <3> QED BY <3>2, <3>3
  <2> HIDE DEF F, G, D
  <2>2. [id \in D |-> F(id)] = [id \in D |-> G(id)]
    BY <2>1, Zenon
  <2>3. callee.subst = [id \in D |-> F(id)]
    BY <1>7, <1>12, Zenon DEF D, F
  <2>4. {<<n.callee, program.params[n.callee][k]>> : k \in obj} = D
    BY <1>1 DEF D
  <2>5. CalleeSubst(n, scope.subst) = [id \in D |-> G(id)]
    BY <1>1, <1>8, <2>4, Zenon DEF G
  <2> QED BY <2>2, <2>3, <2>5
<1>15. CalleeBindings(n, scope.subst, vars) = callee.vars
  <2> DEFINE D == {params[k] : k \in rest}
             F(p) == EvalIndex(One(p).arg.expr, scope.vars)
             G(p) == EvalIndex(args[Binding(n, rest, p)].expr, vars)
  <2>1. ASSUME NEW p \in D PROVE F(p) = G(p)
    <3>1. PICK k \in rest : p = params[k]
      OBVIOUS
    <3>2. k \in M /\ k \notin obj
      BY <1>6
    <3>3. Binding(n, rest, params[k]) = k /\ One(params[k]).arg = args[k]
      BY <1>1, <1>2, <1>4, <1>6, <3>2
    <3>4. Evaluates(args[k].expr, scope.vars)
      BY <1>10, <3>2
    <3>5. EvalIndex(args[k].expr, vars) = EvalIndex(args[k].expr, scope.vars)
      BY <3>4, SameIndex
    <3> QED BY <3>1, <3>3, <3>5
  <2> HIDE DEF F, G, D
  <2>2. [p \in D |-> F(p)] = [p \in D |-> G(p)]
    BY <2>1, Zenon
  <2>3. callee.vars = [p \in D |-> F(p)]
    BY <1>7, <1>13, Zenon DEF D, F
  <2>4. {program.params[n.callee][k] : k \in Bound(n) \ obj} = D /\ Bound(n) \ obj = rest
    BY <1>1 DEF D
  <2>5. CalleeBindings(n, scope.subst, vars) = [p \in D |-> G(p)]
    BY <1>1, <1>9, <2>4, Zenon DEF G
  <2> QED BY <2>2, <2>3, <2>5
<1>16. DOMAIN callee.vars \subseteq Range(params)
  <2>1. DOMAIN callee.vars = {params[k] : k \in rest}
    BY <1>7, <1>13
  <2> QED BY <1>1, <1>6, <2>1 DEF Range
<1>17. ASSUME NEW k \in Bound(n)
       PROVE  LET arg == n.arg_objects[k]
              IN  IsObjectArg(arg, scope.subst) \/ (~arg.is_object /\ Evaluates(arg.expr, vars))
  <2>1. k \in M /\ n.arg_objects[k] = args[k]
    BY <1>1
  <2>2. \/ NamesObject(args[k], scope)
        \/ ~ args[k].is_object /\ Evaluates(args[k].expr, scope.vars)
    BY <1>6, <1>10, <2>1
  <2> QED BY <1>5, <2>1, <2>2, SameIndex
<1> QED BY <1>14, <1>15, <1>16, <1>17 DEF params, args, callee

-----------------------------------------------------------------------------
(* The frames of functions and of loops. *)

\* A function's body is begun in the scope of the call.
LEMMA BodyFrame ==
  ASSUME Loadable, Ready, NEW v, v.node.type = "Call", IsDefined(v.node.callee),
         IsArray(v.scope.path), IsArray(v.scope.loops),
         NEW bindings, bindings = ScopeOf(v).vars, NEW subst, subst = ScopeOf(v).subst,
         DOMAIN bindings \subseteq Range(Parameters(v.node.callee))
  PROVE  /\ InFrame(FunctionFrame(program.functions[v.node.callee], Append(v.scope.path, v.node.callee),
                                  bindings, subst), v, 1)
         /\ ScopeOf(v).loops = v.scope.loops
<1> DEFINE callee == v.node.callee
           path   == Append(v.scope.path, callee)
           scope  == ScopeOf(v)
           body   == FunctionNamed(callee).body
           f      == FunctionFrame(program.functions[callee], path, bindings, subst)
<1>1. /\ DOMAIN scope = {"vars", "subst", "path", "loops"}
      /\ scope.path = path /\ scope.loops = v.scope.loops
  BY DEF ScopeOf, CalleeScope
<1>2. ListOf(v) = body
  BY DEF ListOf
<1>3. GoodList(body) /\ program.functions[callee] = ParsedList(body)
  BY NamedFunction, ProgramFunctions
<1>4. IsArray(path) /\ path # << >> /\ Last(path) = callee
  BY Appended
<1>5. /\ DOMAIN f = {"todo", "path", "bindings", "subst", "loop"}
      /\ f.todo = program.functions[callee] /\ f.path = path /\ f.bindings = bindings
      /\ f.subst = subst /\ f.loop = NoLoop
  BY DEF FunctionFrame
<1> HIDE DEF body, callee, path, f, scope
<1>6. Len(body) \in Nat
  BY <1>3 DEF GoodList
<1>7. 1 \in 1 .. (Len(body) + 1)
  BY <1>6
<1>8. ParsedList(body) = RestOf(body, 1)
  BY <1>3, <1>7, RestOfList
<1>9. Agree(Vars(v.scope.loops, bindings), bindings)
  BY Zenon DEF Agree, Vars
<1>10. InFrame(f, v, 1)
  BY <1>1, <1>2, <1>3, <1>4, <1>5, <1>7, <1>8, <1>9 DEF InFrame, scope, callee
<1> QED BY <1>1, <1>10 DEF f, scope, path, callee

\* An iteration of a loop is begun in its scope.
LEMMA LoopFrame ==
  ASSUME Loadable, NEW w, w.node.type = "Loop", Good(w.node), NEW n, n = parse_node_v2[w.node],
         DOMAIN w.scope = {"vars", "subst", "path", "loops"},
         IsArray(w.scope.path), w.scope.path # << >>, IsArray(w.scope.loops),
         NEW g, DOMAIN g = {"todo", "path", "bindings", "subst", "loop"},
         g.todo = n.body, g.loop = n, g.path = w.scope.path, g.subst = w.scope.subst,
         DOMAIN g.bindings \subseteq Range(Parameters(Last(w.scope.path))),
         w.node.var \notin DOMAIN g.bindings, Agree(Vars(w.scope.loops, g.bindings), w.scope.vars)
  PROVE  /\ InFrame(g, w, 1)
         /\ ScopeOf(w).loops = Append(w.scope.loops, [var |-> n.var, iter |-> w.iter])
<1> DEFINE j     == w.node
           old   == w.scope
           scope == ScopeOf(w)
           l     == [var |-> j.var, iter |-> w.iter]
           vars  == [v \in DOMAIN old.vars \cup {j.var} |-> IF v = j.var THEN w.iter ELSE old.vars[v]]
<1>1. n.kind = "Loop" /\ n.var = j.var /\ n.body = ParsedList(j.body) /\ GoodList(j.body)
  <2>1. KeysParse(j) /\ GoodList(Body(j)) /\ n = NodeOf(j, ParsedList(Body(j)))
    BY GoodNode
  <2>2. Body(j) = j.body
    BY DEF Body
  <2> QED BY <2>1, <2>2 DEF NodeOf
<1>2. scope = [old EXCEPT !.vars = vars, !.loops = Append(old.loops, l)]
  BY DEF ScopeOf, Enter
<1>3. ListOf(w) = j.body
  BY DEF ListOf
<1>4. l.var = j.var /\ l.iter = w.iter
  OBVIOUS
<1> HIDE DEF vars, l, scope
<1>5. /\ DOMAIN scope = {"vars", "subst", "path", "loops"} /\ scope.vars = vars
      /\ scope.loops = Append(old.loops, l) /\ scope.path = old.path /\ scope.subst = old.subst
  BY <1>2
<1>6. Len(j.body) \in Nat
  BY <1>1 DEF GoodList
<1>7. 1 \in 1 .. (Len(j.body) + 1)
  BY <1>6
<1>8. ParsedList(j.body) = RestOf(j.body, 1)
  BY <1>1, <1>7, RestOfList
<1>9. Agree(Vars(Append(old.loops, l), g.bindings), vars)
  <2> DEFINE E == [v \in DOMAIN old.vars \cup {l.var} |-> IF v = l.var THEN l.iter ELSE old.vars[v]]
  <2>1. E = vars
    BY <1>4 DEF vars
  <2> HIDE DEF E
  <2>2. Agree(Vars(Append(old.loops, l), g.bindings), E)
    <3> DEFINE env == old.vars
    <3> HIDE DEF env
    <3>1. Agree(Vars(old.loops, g.bindings), env) /\ l.var \notin DOMAIN g.bindings /\ IsArray(old.loops)
      BY <1>4 DEF env
    <3>2. Agree(Vars(Append(old.loops, l), g.bindings),
                [v \in DOMAIN env \cup {l.var} |-> IF v = l.var THEN l.iter ELSE env[v]])
      BY <3>1, VarsNext
    <3> QED BY <3>2 DEF env, E
  <2> QED BY <2>1, <2>2
<1>10. IsArray(Append(old.loops, l))
  BY Appended
<1>11. InFrame(g, w, 1)
  BY <1>1, <1>3, <1>5, <1>7, <1>8, <1>9, <1>10 DEF InFrame, scope
<1>12. scope.loops = Append(w.scope.loops, [var |-> n.var, iter |-> w.iter])
  BY <1>1, <1>5 DEF l
<1> QED BY <1>11, <1>12 DEF scope

-----------------------------------------------------------------------------
(* Where an execution is. *)

\* A trail that opens something with each of its visits.
Inside(Q) == Len(Q) \in 0 .. Deepest /\ Q \in TrailsOf[Len(Q)] /\ \A k \in 1 .. Len(Q) : Open(Q[k])

\* The loops around what a trail leads to.
LoopsAround(Q) == IF Q = << >> THEN << >> ELSE ScopeOf(Last(Q)).loops

\* The first of the functions that are not begun.
FirstLeft(Q, a) == IF Q = << >> THEN a ELSE Q[1].at + 1

\* An execution is at the node a of the list that a trail leads to: so are its stack,
\* its loops and the functions left, and the accesses before are recorded.
AtNode(Q, a, s, ls, rl, es) ==
  /\ Inside(Q) /\ OnStack(s, Q, a) /\ ls = LoopsAround(Q)
  /\ FirstLeft(Q, a) \in 1 .. (Len(document.functions) + 1)
  /\ rl = RootsFrom(document.functions)[FirstLeft(Q, a)]
  /\ Recorded(es, Done(Q, a))

\* It is at some node of some list.
Somewhere(s, ls, rl, es) == \E Q, a : AtNode(Q, a, s, ls, rl, es)

\* What there is to know of such a trail.
LEMMA InsideTrail ==
  ASSUME Loadable, NEW Q, Inside(Q)
  PROVE  IsArray(Q) /\ Len(Q) \in Nat /\ Journey(Q) /\ Way(Q)
<1>1. Journey(Q) /\ Way(Q)
  BY TrailJourney, TrailsAreWays DEF Inside
<1> QED BY <1>1 DEF Journey, IsArray

\* A visit more.
LEMMA InsideMore ==
  ASSUME Loadable, ProgramIsScoped, NEW Q, Inside(Q), NEW v \in Onward(Q)
  PROVE  /\ InScope(v) /\ GoodVisit(v) /\ Last(Append(Q, v)) = v /\ Append(Q, v) # << >>
         /\ Open(v) => Inside(Append(Q, v))
         /\ \A b : FirstLeft(Append(Q, v), b) = FirstLeft(Q, v.at + 1)
         /\ LoopsAround(Append(Q, v)) = ScopeOf(v).loops
<1> DEFINE R == Append(Q, v)
           n == Len(Q)
<1>1. IsArray(Q) /\ Journey(Q) /\ n \in Nat /\ n \in 0 .. Deepest /\ Q \in TrailsOf[n]
  BY InsideTrail DEF Inside
<1>2. TrailsOf[Deepest] = {} /\ \A t \in Trails : InScope(Last(t))
  BY DEF ProgramIsScoped
<1>3. n + 1 \in 1 .. Deepest /\ R \in TrailsOf[n + 1] /\ R \in Trails
  BY <1>1, <1>2, TrailsGoOn
<1>4. Last(R) = v /\ R # << >> /\ Len(R) = n + 1 /\ R[n + 1] = v /\ \A i \in 1 .. n : R[i] = Q[i]
  BY <1>1, Appended
<1>5. InScope(v) /\ GoodVisit(v)
  BY <1>1, <1>2, <1>3, <1>4, OnwardVisit
<1> HIDE DEF R
<1>6. ASSUME Open(v) PROVE Inside(R)
  <2>1. \A k \in 1 .. (n + 1) : Open(R[k])
    BY <1>1, <1>4, <1>6 DEF Inside
  <2>2. n + 1 \in 0 .. Deepest
    BY <1>3, DeepestAssumption
  <2> QED BY <1>3, <1>4, <2>1, <2>2 DEF Inside
<1>7. ASSUME NEW b PROVE FirstLeft(R, b) = FirstLeft(Q, v.at + 1)
  <2>0. Q = << >> <=> n = 0
    BY <1>1 DEF IsArray
  <2>1. CASE n = 0
    BY <1>4, <2>0, <2>1 DEF FirstLeft
  <2>2. CASE n # 0
    <3>1. 1 \in 1 .. n
      BY <1>1, <2>2
    <3> QED BY <1>4, <2>0, <2>2, <3>1 DEF FirstLeft
  <2> QED BY <2>1, <2>2
<1>8. LoopsAround(R) = ScopeOf(v).loops
  BY <1>4 DEF LoopsAround
<1> QED BY <1>4, <1>5, <1>6, <1>7, <1>8 DEF R

\* A visit less.
LEMMA InsideBack ==
  ASSUME Loadable, NEW Q, Inside(Q), Q # << >>
  PROVE  \E P, v : Q = Append(P, v) /\ Inside(P) /\ v \in Onward(P) /\ Open(v)
<1> DEFINE n == Len(Q)
           P == Front(Q)
           v == Last(Q)
<1>1. IsArray(Q) /\ n \in 0 .. Deepest /\ Q \in TrailsOf[n]
  BY InsideTrail DEF Inside
<1>2. n \in 1 .. Deepest
  <2>1. n # 0
    BY <1>1 DEF IsArray
  <2> QED BY <1>1, <2>1, DeepestAssumption
<1>3. n - 1 \in 0 .. Deepest /\ P \in TrailsOf[n - 1] /\ v \in Onward(P) /\ Q = Append(P, v)
  BY <1>1, <1>2, TrailsBack
<1>4. IsArray(P) /\ Len(P) = n - 1
  BY <1>3, TrailsAreWays DEF Way
<1> HIDE DEF P, v
<1>5. /\ Len(Append(P, v)) = Len(P) + 1 /\ Append(P, v)[Len(P) + 1] = v /\ Len(P) \in Nat
      /\ \A i \in 1 .. Len(P) : Append(P, v)[i] = P[i]
  BY <1>4, Appended
<1>6. \A k \in 1 .. n : Open(Q[k])
  BY DEF Inside
<1>7. Open(v) /\ \A k \in 1 .. Len(P) : Open(P[k])
  <2>1. n = Len(P) + 1
    BY <1>3, <1>5
  <2>2. n \in 1 .. n /\ \A k \in 1 .. Len(P) : k \in 1 .. n
    BY <1>5, <2>1
  <2> QED BY <1>3, <1>5, <1>6, <2>1, <2>2
<1>8. Inside(P)
  BY <1>3, <1>4, <1>7 DEF Inside
<1> QED BY <1>3, <1>7, <1>8

\* The frame on top is that of the last visit.
LEMMA AtTop ==
  ASSUME Loadable, ProgramIsScoped, NEW Q, NEW a, NEW s, NEW ls, NEW rl, NEW es,
         AtNode(Q, a, s, ls, rl, es), s # << >>
  PROVE  \E P, v :
           /\ Q = Append(P, v) /\ Inside(P) /\ v \in Onward(P) /\ Open(v) /\ InScope(v) /\ GoodVisit(v)
           /\ InFrame(Head(s), v, a) /\ OnStack(Tail(s), P, v.at + 1) /\ IsArray(Tail(s))
           /\ ls = ScopeOf(v).loops /\ Last(Q) = v /\ Q # << >> /\ FirstLeft(Q, a) = FirstLeft(P, v.at + 1)
<1>1. IsArray(Q) /\ Inside(Q) /\ OnStack(s, Q, a) /\ ls = LoopsAround(Q)
  BY InsideTrail DEF AtNode
<1>2. Q # << >>
  BY <1>1, StackEmpty
<1>3. PICK P, v : Q = Append(P, v) /\ Inside(P) /\ v \in Onward(P) /\ Open(v)
  BY <1>1, <1>2, InsideBack
<1>4. IsArray(P)
  BY <1>3, InsideTrail
<1>5. InFrame(Head(s), v, a) /\ OnStack(Tail(s), P, v.at + 1) /\ IsArray(Tail(s))
  BY <1>1, <1>3, <1>4, StackTop
<1>6. /\ InScope(v) /\ GoodVisit(v) /\ Last(Append(P, v)) = v
      /\ FirstLeft(Append(P, v), a) = FirstLeft(P, v.at + 1) /\ LoopsAround(Append(P, v)) = ScopeOf(v).loops
  BY <1>3, InsideMore
<1> QED BY <1>1, <1>2, <1>3, <1>5, <1>6

\* A frame on top of those of a trail, at a node of what the visit opens.
LEMMA AtInner ==
  ASSUME Loadable, ProgramIsScoped, NEW P, Inside(P), NEW v \in Onward(P), Open(v),
         NEW s, OnStack(s, P, v.at + 1), NEW b, NEW f, InFrame(f, v, b),
         NEW ls, ls = ScopeOf(v).loops,
         FirstLeft(P, v.at + 1) \in 1 .. (Len(document.functions) + 1),
         NEW rl, rl = RootsFrom(document.functions)[FirstLeft(P, v.at + 1)],
         NEW es, Recorded(es, Done(Append(P, v), b))
  PROVE  AtNode(Append(P, v), b, <<f>> \o s, ls, rl, es)
<1>1. IsArray(P)
  BY InsideTrail
<1>2. OnStack(<<f>> \o s, Append(P, v), b)
  BY <1>1, StackMore
<1>3. /\ Inside(Append(P, v)) /\ FirstLeft(Append(P, v), b) = FirstLeft(P, v.at + 1)
      /\ LoopsAround(Append(P, v)) = ScopeOf(v).loops
  BY InsideMore
<1> QED BY <1>2, <1>3, Zenon DEF AtNode

-----------------------------------------------------------------------------
(* The steps of an execution. *)

\* Before the first function.
LEMMA AtStart ==
  ASSUME Loadable
  PROVE  Somewhere(<< >>, << >>, RootsFrom(document.functions)[1], << >>)
<1>1. Len(<< >>) = 0 /\ 0 \in 0 .. Deepest /\ << >> \in TrailsOf[0] /\ 1 .. 0 = {}
  BY TrailsGrow, DeepestAssumption
<1>2. Inside(<< >>)
  BY <1>1 DEF Inside
<1>3. OnStack(<< >>, << >>, 1)
  BY NoStack
<1>4. Recorded(<< >>, Done(<< >>, 1))
  <2>1. IsArray(<< >>) /\ Len(<< >>) = 0 /\ DOMAIN << >> = {}
    BY DEF IsArray
  <2>2. IsFiniteSet({}) /\ Cardinality({}) = 0
    BY FS_EmptySet
  <2> QED BY <2>1, <2>2, NoneDone DEF Recorded
<1>5. 1 \in 1 .. (Len(document.functions) + 1)
  <2>1. IsArray(document.functions)
    BY MainVisits
  <2>2. Len(document.functions) \in Nat
    BY <2>1 DEF IsArray
  <2> QED BY <2>2
<1>6. FirstLeft(<< >>, 1) = 1 /\ LoopsAround(<< >>) = << >>
  BY DEF FirstLeft, LoopsAround
<1>7. AtNode(<< >>, 1, << >>, << >>, RootsFrom(document.functions)[1], << >>)
  BY <1>2, <1>3, <1>4, <1>5, <1>6 DEF AtNode
<1> QED BY <1>7 DEF Somewhere

\* The scope of a function to analyze is empty.
LEMMA RootScope ==
  ASSUME Loadable, NEW v \in Visits(Main, OuterScope)
  PROVE  /\ v.node.type = "Call" /\ IsDefined(v.node.callee)
         /\ ScopeOf(v).vars = << >> /\ ScopeOf(v).subst = << >> /\ ScopeOf(v).loops = << >>
         /\ IsArray(v.scope.path) /\ IsArray(v.scope.loops) /\ Append(v.scope.path, v.node.callee) = <<v.node.callee>>
<1> DEFINE call == v.node
           fns  == document.functions
<1>1. /\ v.at \in 1 .. Len(fns)
      /\ v = [at |-> v.at, iter |-> 0, node |-> [type |-> "Call", callee |-> fns[v.at].function],
              scope |-> OuterScope]
      /\ Open(v)
  BY MainVisits
<1>2. call = [type |-> "Call", callee |-> fns[v.at].function] /\ v.scope = OuterScope
  BY <1>1
<1> HIDE DEF fns, call
<1>3. call.type = "Call" /\ DOMAIN call = {"type", "callee"}
  BY <1>2
<1>4. OuterScope.path = << >> /\ OuterScope.loops = << >> /\ IsArray(<< >>)
  BY DEF OuterScope, IsArray
<1>5. IsDefined(call.callee) /\ ScopeOf(v) = CalleeScope(OuterScope, call)
  BY <1>1, <1>2, <1>3 DEF Open, ScopeOf, call
<1>6. ArgObjects(call) = << >>
  BY <1>3 DEF ArgObjects, ValueOr
<1>7. Matched(call) = {}
  BY <1>6 DEF Matched
<1>8. Arguments(call) = {}
  BY <1>7 DEF Arguments
<1> DEFINE scope == CalleeScope(OuterScope, call)
<1>9. DOMAIN scope.vars = {} /\ DOMAIN scope.subst = {} /\ scope.loops = << >>
  BY <1>4, <1>8 DEF CalleeScope
<1>10. scope.vars = << >> /\ scope.subst = << >>
  <2>1. scope.vars = [p \in DOMAIN scope.vars |-> scope.vars[p]] /\ scope.subst = [p \in DOMAIN scope.subst |-> scope.subst[p]]
    BY DEF CalleeScope
  <2> HIDE DEF scope
  <2> QED BY <1>9, <2>1
<1> HIDE DEF scope
<1>11. Append(<< >>, call.callee) = <<call.callee>>
  OBVIOUS
<1> QED BY <1>2, <1>3, <1>4, <1>5, <1>9, <1>10, <1>11 DEF scope, call

\* The next function is begun (build_program's loop).
LEMMA RootStep ==
  ASSUME Loadable, Ready, ProgramIsScoped, Somewhere(stack, loop_stack, roots_left, out), VisitRoot
  PROVE  Somewhere(stack', loop_stack', roots_left', out')
<1> DEFINE fns == document.functions
<1>1. /\ stack = << >> /\ roots_left # << >> /\ roots_left' = Tail(roots_left)
      /\ loop_stack' = loop_stack /\ out' = out
      /\ stack' = IF Head(roots_left) \in DOMAIN program.functions
                  THEN <<FunctionFrame(program.functions[Head(roots_left)], <<Head(roots_left)>>, << >>, << >>)>>
                  ELSE << >>
  BY DEF VisitRoot
<1>2. PICK Q, a : AtNode(Q, a, stack, loop_stack, roots_left, out)
  BY DEF Somewhere
<1>3. IsArray(Q) /\ Inside(Q) /\ OnStack(stack, Q, a)
  BY <1>2, InsideTrail DEF AtNode
<1>4. Q = << >>
  BY <1>1, <1>3, StackEmpty
<1>5. /\ a \in 1 .. (Len(fns) + 1) /\ roots_left = RootsFrom(fns)[a] /\ loop_stack = << >>
      /\ Recorded(out, Done(<< >>, a))
  BY <1>2, <1>4 DEF AtNode, FirstLeft, LoopsAround
<1>6. IsArray(fns) /\ Len(fns) \in Nat /\ DOMAIN fns = 1 .. Len(fns)
  BY MainVisits DEF IsArray
<1>7. PICK k \in a .. Len(fns) :
        /\ IsRoot(fns[k]) /\ \A l \in a .. (k - 1) : ~ IsRoot(fns[l])
        /\ Head(roots_left) = fns[k].function /\ Tail(roots_left) = RootsFrom(fns)[k + 1]
  BY <1>1, <1>5, NextRoot
<1> DEFINE call == [type |-> "Call", callee |-> fns[k].function]
           v    == [at |-> k, iter |-> 0, node |-> call, scope |-> OuterScope]
<1>8. v.at = k /\ v.iter = 0 /\ v.node = call /\ v.scope = OuterScope
      /\ v = [at |-> k, iter |-> 0, node |-> [type |-> "Call", callee |-> fns[k].function], scope |-> OuterScope]
      /\ call.callee = fns[k].function
  OBVIOUS
<1> HIDE DEF v, call
<1>9. k \in 1 .. Len(fns) /\ k \in Nat /\ k + 1 \in 1 .. (Len(fns) + 1) /\ a \in Nat \ {0} /\ a <= k /\ k <= Len(fns) + 1
  BY <1>5, <1>6, <1>7
<1>10. v \in Visits(Main, OuterScope)
  <2>1. \A u : u \in Visits(Main, OuterScope) <=>
                 /\ u.at \in 1 .. Len(fns) /\ IsRoot(fns[u.at])
                 /\ u = [at |-> u.at, iter |-> 0, node |-> [type |-> "Call", callee |-> fns[u.at].function],
                         scope |-> OuterScope]
    BY MainVisits
  <2> QED BY <1>7, <1>8, <1>9, <2>1
<1>11. v \in Onward(<< >>) /\ Onward(<< >>) = Visits(Main, OuterScope)
  BY <1>10 DEF Onward
<1>12. Open(v)
  BY <1>10, MainVisits
<1>13. /\ v.node.type = "Call" /\ IsDefined(v.node.callee)
       /\ ScopeOf(v).vars = << >> /\ ScopeOf(v).subst = << >> /\ ScopeOf(v).loops = << >>
       /\ IsArray(v.scope.path) /\ IsArray(v.scope.loops) /\ Append(v.scope.path, v.node.callee) = <<v.node.callee>>
  BY <1>10, RootScope
<1> DEFINE f == FunctionFrame(program.functions[v.node.callee], <<v.node.callee>>, << >>, << >>)
<1>14. InFrame(f, v, 1)
  <2>1. DOMAIN << >> \subseteq Range(Parameters(v.node.callee))
    OBVIOUS
  <2>2. InFrame(FunctionFrame(program.functions[v.node.callee], Append(v.scope.path, v.node.callee), << >>, << >>), v, 1)
    BY <1>13, <2>1, BodyFrame
  <2> QED BY <1>13, <2>2
<1>15. Head(roots_left) = v.node.callee /\ v.node.callee \in DOMAIN program.functions
  BY <1>7, <1>8, <1>13, ProgramFunctions
<1>16. stack' = <<f>> \o << >>
  <2>1. stack' = <<f>>
    BY <1>1, <1>15
  <2> HIDE DEF f
  <2>2. <<f>> = <<f>> \o << >>
    OBVIOUS
  <2> QED BY <2>1, <2>2
<1> HIDE DEF f
<1>17. Done(Append(<< >>, v), 1) = Done(<< >>, a)
  <2>1. Done(<< >>, a) = Done(<< >>, k)
    BY <1>7, <1>9, DoneFunctions
  <2>2. \A w \in Onward(<< >>) : w.iter = 0
    BY <1>11, MainVisits
  <2>3. Journey(<< >>)
    BY <1>3, <1>4, InsideTrail
  <2>4. Done(Append(<< >>, v), 1) = Done(<< >>, v.at)
    <3>1. \A w \in Onward(<< >>) : w.at = v.at => w.iter >= v.iter
      BY <1>8, <2>2
    <3> QED BY <1>11, <2>3, <3>1, DoneInto
  <2> QED BY <1>8, <2>1, <2>4
<1>18. AtNode(Append(<< >>, v), 1, <<f>> \o << >>, << >>, Tail(roots_left), out)
  <2>1. Inside(<< >>) /\ OnStack(<< >>, << >>, v.at + 1)
    BY <1>3, <1>4, NoStack
  <2>2. FirstLeft(<< >>, v.at + 1) = k + 1
    BY <1>8 DEF FirstLeft
  <2> QED BY <1>5, <1>7, <1>9, <1>11, <1>12, <1>13, <1>14, <1>17, <2>1, <2>2, AtInner
<1> QED BY <1>1, <1>5, <1>16, <1>18 DEF Somewhere

\* After the last function.
LEMMA FinishStep ==
  ASSUME Loadable, Somewhere(stack, loop_stack, roots_left, out), Finish
  PROVE  /\ Somewhere(stack', loop_stack', roots_left', out')
         /\ IsFiniteSet(AccessTrails) /\ Len(out) = Cardinality(AccessTrails)
<1> DEFINE fns == document.functions
<1>1. stack = << >> /\ roots_left = << >> /\ UNCHANGED <<roots_left, stack, loop_stack, out>>
  BY DEF Finish
<1>2. PICK Q, a : AtNode(Q, a, stack, loop_stack, roots_left, out)
  BY DEF Somewhere
<1>3. IsArray(Q) /\ Inside(Q) /\ OnStack(stack, Q, a)
  BY <1>2, InsideTrail DEF AtNode
<1>4. Q = << >>
  BY <1>1, <1>3, StackEmpty
<1>5. a \in 1 .. (Len(fns) + 1) /\ roots_left = RootsFrom(fns)[a] /\ Recorded(out, Done(<< >>, a))
  BY <1>2, <1>4 DEF AtNode, FirstLeft, LoopsAround
<1>6. \A k \in a .. Len(fns) : ~ IsRoot(fns[k])
  BY <1>1, <1>5, NextRoot
<1>7. Len(fns) \in Nat
  BY MainVisits DEF IsArray
<1>8. a \in Nat \ {0} /\ Len(fns) + 1 \in Nat /\ a <= Len(fns) + 1 /\ (Len(fns) + 1) - 1 = Len(fns)
  BY <1>5, <1>7
<1>9. Done(<< >>, a) = Done(<< >>, Len(fns) + 1)
  <2> DEFINE b == Len(fns) + 1
  <2>1. \A k \in a .. (b - 1) : ~ IsRoot(fns[k])
    BY <1>6, <1>8
  <2>2. b \in Nat /\ a <= b /\ b <= Len(fns) + 1
    BY <1>8
  <2> HIDE DEF b
  <2>3. Done(<< >>, a) = Done(<< >>, b)
    BY <1>8, <2>1, <2>2, DoneFunctions
  <2> QED BY <2>3 DEF b
<1>10. Done(<< >>, a) = AccessTrails
  BY <1>9, AllDone
<1>11. Somewhere(stack', loop_stack', roots_left', out')
  BY <1>1 DEF Somewhere
<1> QED BY <1>5, <1>10, <1>11 DEF Recorded

\* At a node to visit.
LEMMA AtVisiting ==
  ASSUME Loadable, ProgramIsScoped, Somewhere(stack, loop_stack, roots_left, out), stack # << >>, top.todo # << >>
  PROVE  \E P, v, a :
           /\ AtNode(Append(P, v), a, stack, loop_stack, roots_left, out)
           /\ Inside(P) /\ v \in Onward(P) /\ Open(v) /\ InScope(v) /\ GoodVisit(v)
           /\ Inside(Append(P, v)) /\ Append(P, v) # << >> /\ Last(Append(P, v)) = v
           /\ InFrame(top, v, a) /\ OnStack(Tail(stack), P, v.at + 1) /\ IsArray(Tail(stack))
           /\ loop_stack = ScopeOf(v).loops
           /\ a \in Nat /\ a \in 1 .. Len(ListOf(v)) /\ a \in DOMAIN ListOf(v) /\ Good(ListOf(v)[a])
           /\ node = parse_node_v2[ListOf(v)[a]]
           /\ InFrame(Shortened(top), v, a + 1)
           /\ node.kind = ListOf(v)[a].type
           /\ OnStack(Visited, Append(P, v), a + 1)
<1>1. PICK Q, a : AtNode(Q, a, stack, loop_stack, roots_left, out)
  BY DEF Somewhere
<1>2. PICK P, v :
        /\ Q = Append(P, v) /\ Inside(P) /\ v \in Onward(P) /\ Open(v) /\ InScope(v) /\ GoodVisit(v)
        /\ InFrame(Head(stack), v, a) /\ OnStack(Tail(stack), P, v.at + 1) /\ IsArray(Tail(stack))
        /\ loop_stack = ScopeOf(v).loops /\ Last(Q) = v /\ Q # << >> /\ FirstLeft(Q, a) = FirstLeft(P, v.at + 1)
  BY <1>1, AtTop
<1>3. InFrame(top, v, a)
  BY <1>2 DEF top
<1>4. /\ a \in 1 .. Len(ListOf(v)) /\ a \in DOMAIN ListOf(v) /\ Good(ListOf(v)[a])
      /\ Head(top.todo) = parse_node_v2[ListOf(v)[a]]
      /\ InFrame(Shortened(top), v, a + 1) /\ a \in Nat
  <2> DEFINE list == ListOf(v)
  <2>1. GoodVisit(v) /\ Open(v)
    BY <1>2
  <2>2. /\ top.todo = << >> <=> a = Len(list) + 1
        /\ top.todo # << >> =>
             /\ a \in 1 .. Len(list) /\ a \in DOMAIN list
             /\ Good(list[a]) /\ Head(top.todo) = parse_node_v2[list[a]]
             /\ InFrame(Shortened(top), v, a + 1)
        /\ a \in Nat /\ (top.loop # NoLoop <=> v.node.type = "Loop")
    BY <1>3, <2>1, FrameNode, Zenon
  <2> QED BY <2>2
<1>5. node = parse_node_v2[ListOf(v)[a]]
  BY <1>4 DEF node
<1>6. node.kind = ListOf(v)[a].type
  BY <1>4, <1>5, NodeFrom
<1>7. Inside(Q)
  BY <1>1 DEF AtNode
<1>8. OnStack(Visited, Append(P, v), a + 1)
  <2>1. IsArray(P)
    BY <1>2, InsideTrail
  <2>2. OnStack(<<Shortened(top)>> \o Tail(stack), Append(P, v), a + 1)
    BY <1>2, <1>4, <2>1, StackMore
  <2> QED BY <2>2 DEF Visited, Shortened
<1> QED BY <1>1, <1>2, <1>3, <1>4, <1>5, <1>6, <1>7, <1>8

\* Past a node, with what is recorded by then.
LEMMA AtNext ==
  ASSUME Loadable, ProgramIsScoped, NEW Q, Q # << >>, NEW a, NEW s, NEW ls, NEW rl, NEW es,
         AtNode(Q, a, s, ls, rl, es), NEW t, OnStack(t, Q, a + 1), NEW fs, Recorded(fs, Done(Q, a + 1))
  PROVE  AtNode(Q, a + 1, t, ls, rl, fs)
BY Zenon DEF AtNode, FirstLeft

\* An access is recorded where it is made.
LEMMA AccessMade ==
  ASSUME Loadable, ProgramIsScoped, NEW Q, Inside(Q), NEW v \in Onward(Q), v.node.type \in {"Scalar", "Array"},
         Recorded(out, Done(Q, v.at)), NEW path, NEW offset,
         node.object = ObjectNamed(v.node), node.op = ValueOr(v.node, "op", NoName),
         path = StepsOf(v.node, v.scope),
         top.subst = v.scope.subst, top.path = v.scope.path, loop_stack = v.scope.loops
  PROVE  /\ Recorded(Append(out, Event(path, offset)), Done(Q, v.at + 1))
         /\ \E t \in AccessTrails : /\ ResolveObject(node.object, top.subst) = AccessOf(t).object_name
                                    /\ path = AccessOf(t).path
<1> DEFINE t == Append(Q, v)
           e == Event(path, offset)
<1>1. TrailsOf[Deepest] = {} /\ Len(Q) \in 0 .. Deepest /\ Q \in TrailsOf[Len(Q)]
  BY DEF ProgramIsScoped, Inside
<1>2. /\ t \in AccessTrails /\ t \notin Done(Q, v.at) /\ Last(t) = v
      /\ Done(Q, v.at + 1) = Done(Q, v.at) \cup {t}
      /\ {u \in AccessTrails : Before(u, t)} = Done(Q, v.at)
  BY <1>1, AccessDone
<1> HIDE DEF t
<1>3. /\ Apart(e) = AccessOf(t)
      /\ path = AccessOf(t).path /\ ResolveObject(node.object, top.subst) = AccessOf(t).object_name
  BY <1>2, EventOfAccess
<1> HIDE DEF e
<1>4. Recorded(Append(out, e), Done(Q, v.at) \cup {t})
  BY <1>2, <1>3, RecordedMore
<1>5. Recorded(Append(out, e), Done(Q, v.at + 1))
  BY <1>2, <1>4
<1> QED BY <1>2, <1>3, <1>5 DEF e

\* A scalar is accessed (visit_v2).
LEMMA ScalarStep ==
  ASSUME Loadable, ProgramIsScoped, Somewhere(stack, loop_stack, roots_left, out), VisitScalar
  PROVE  Somewhere(stack', loop_stack', roots_left', out')
<1>1. /\ stack # << >> /\ top.todo # << >> /\ node.kind = "Scalar"
      /\ out' = Append(out, Event(<< >>, 0)) /\ stack' = Visited
      /\ loop_stack' = loop_stack /\ roots_left' = roots_left
  BY DEF VisitScalar, Visiting
<1>2. PICK P, u, a :
        /\ AtNode(Append(P, u), a, stack, loop_stack, roots_left, out)
        /\ Inside(P) /\ u \in Onward(P) /\ Open(u) /\ InScope(u) /\ GoodVisit(u)
        /\ Inside(Append(P, u)) /\ Append(P, u) # << >> /\ Last(Append(P, u)) = u
        /\ InFrame(top, u, a) /\ OnStack(Tail(stack), P, u.at + 1) /\ IsArray(Tail(stack))
        /\ loop_stack = ScopeOf(u).loops
        /\ a \in Nat /\ a \in 1 .. Len(ListOf(u)) /\ a \in DOMAIN ListOf(u) /\ Good(ListOf(u)[a])
        /\ node = parse_node_v2[ListOf(u)[a]]
        /\ InFrame(Shortened(top), u, a + 1)
        /\ node.kind = ListOf(u)[a].type
        /\ OnStack(Visited, Append(P, u), a + 1)
  BY <1>1, AtVisiting
<1> DEFINE Q == Append(P, u)
           j == ListOf(u)[a]
           v == [at |-> a, iter |-> 0, node |-> j, scope |-> ScopeOf(u)]
<1>3. j.type = "Scalar" /\ Good(j) /\ node = parse_node_v2[j]
  BY <1>1, <1>2
<1>4. Iterations(j) = {0}
  BY <1>3 DEF Iterations
<1>5. v \in Onward(Q) /\ v.at = a /\ v.node = j /\ v.scope = ScopeOf(u)
  BY <1>2, <1>4, VisitsOfNode
<1> HIDE DEF v, j
<1>6. node.object = ObjectNamed(j) /\ node.op = ValueOr(j, "op", NoName) /\ StepsOf(j, v.scope) = << >>
  BY <1>3, ScalarNode
<1>7. top.subst = v.scope.subst /\ top.path = v.scope.path /\ loop_stack = v.scope.loops
  BY <1>2, <1>5 DEF InFrame
<1> HIDE DEF Q
<1>8. Recorded(out, Done(Q, v.at))
  BY <1>2, <1>5 DEF AtNode, Q
<1>9. Inside(Q) /\ v.node.type \in {"Scalar", "Array"}
  BY <1>2, <1>3, <1>5 DEF Q
<1>10. << >> = StepsOf(v.node, v.scope) /\ node.object = ObjectNamed(v.node)
       /\ node.op = ValueOr(v.node, "op", NoName)
  BY <1>5, <1>6
<1>11. Recorded(Append(out, Event(<< >>, 0)), Done(Q, v.at + 1))
  BY <1>5, <1>7, <1>8, <1>9, <1>10, AccessMade
<1>12. AtNode(Q, a + 1, Visited, loop_stack, roots_left, out')
  BY <1>1, <1>2, <1>5, <1>11, AtNext DEF Q
<1> QED BY <1>1, <1>12 DEF Somewhere

\* An array is accessed, or its object has no layout its path resolves in (visit_v2).
LEMMA ArrayStep ==
  ASSUME Loadable, ProgramIsScoped, Somewhere(stack, loop_stack, roots_left, out), VisitArray
  PROVE  \/ Somewhere(stack', loop_stack', roots_left', out') /\ status' = status
         \/ /\ Throw /\ Somewhere(stack', loop_stack', roots_left', out')
            /\ \E t \in AccessTrails : LET a == AccessOf(t)
                                       IN  ~Resolves(LayoutOf(a.object_name), a.path, program.structs)
<1> DEFINE vars   == Vars(loop_stack, top.bindings)
           path   == EvalPath(node.access_path, vars)
           name   == ResolveObject(node.object, top.subst)
           layout == LayoutOf(name)
           offset == resolve_offset(layout, path, program.structs)
<1>1. /\ stack # << >> /\ top.todo # << >> /\ node.kind = "Array"
      /\ IF PathEvaluates(node.access_path, vars) /\ Resolves(layout, path, program.structs)
         THEN /\ out' = Append(out, Event(path, offset))
              /\ stack' = Visited
              /\ UNCHANGED <<program, roots_left, loop_stack, status>>
         ELSE Throw
  BY DEF VisitArray, Visiting
<1> HIDE DEF vars, path, name, layout, offset
<1>2. PICK P, u, a :
        /\ AtNode(Append(P, u), a, stack, loop_stack, roots_left, out)
        /\ Inside(P) /\ u \in Onward(P) /\ Open(u) /\ InScope(u) /\ GoodVisit(u)
        /\ Inside(Append(P, u)) /\ Append(P, u) # << >> /\ Last(Append(P, u)) = u
        /\ InFrame(top, u, a) /\ OnStack(Tail(stack), P, u.at + 1) /\ IsArray(Tail(stack))
        /\ loop_stack = ScopeOf(u).loops
        /\ a \in Nat /\ a \in 1 .. Len(ListOf(u)) /\ a \in DOMAIN ListOf(u) /\ Good(ListOf(u)[a])
        /\ node = parse_node_v2[ListOf(u)[a]]
        /\ InFrame(Shortened(top), u, a + 1)
        /\ node.kind = ListOf(u)[a].type
        /\ OnStack(Visited, Append(P, u), a + 1)
  BY <1>1, AtVisiting
<1> DEFINE Q == Append(P, u)
           j == ListOf(u)[a]
           v == [at |-> a, iter |-> 0, node |-> j, scope |-> ScopeOf(u)]
<1>3. j.type = "Array" /\ Good(j) /\ node = parse_node_v2[j]
  BY <1>1, <1>2
<1>4. Iterations(j) = {0}
  BY <1>3 DEF Iterations
<1>5. v \in Onward(Q) /\ v.at = a /\ v.node = j /\ v.scope = ScopeOf(u)
  BY <1>2, <1>4, VisitsOfNode
<1> HIDE DEF v, j, Q
<1>6. Inside(Q) /\ v.node.type \in {"Scalar", "Array"} /\ Recorded(out, Done(Q, v.at))
  BY <1>2, <1>3, <1>5 DEF Q, AtNode
<1>7. top.subst = v.scope.subst /\ top.path = v.scope.path /\ loop_stack = v.scope.loops
      /\ Agree(vars, v.scope.vars)
  BY <1>2, <1>5 DEF InFrame, vars
<1>8. InScope(v)
  BY <1>5, <1>6, InsideMore
<1>9. StepsInScope(v.node, v.scope)
  BY <1>3, <1>5, <1>8 DEF InScope
<1>10. /\ node.object = ObjectNamed(v.node) /\ node.op = ValueOr(v.node, "op", NoName)
       /\ PathEvaluates(node.access_path, vars) /\ path = StepsOf(v.node, v.scope)
  <2> DEFINE n == node
             scope == v.scope
             jj == v.node
  <2>1. jj.type = "Array" /\ Good(jj) /\ n = parse_node_v2[jj]
    BY <1>3, <1>5
  <2>2. StepsInScope(jj, scope) /\ Agree(vars, scope.vars)
    BY <1>7, <1>9
  <2> HIDE DEF n, jj, scope
  <2>3. /\ n.object = ObjectNamed(jj) /\ n.op = ValueOr(jj, "op", NoName)
        /\ PathEvaluates(n.access_path, vars) /\ EvalPath(n.access_path, vars) = StepsOf(jj, scope)
    BY <2>1, <2>2, ArrayNode
  <2> QED BY <2>3 DEF path, n, jj, scope
<1>11. /\ Recorded(Append(out, Event(path, offset)), Done(Q, v.at + 1))
       /\ \E t \in AccessTrails : name = AccessOf(t).object_name /\ path = AccessOf(t).path
  BY <1>5, <1>6, <1>7, <1>10, AccessMade DEF name
<1>12. CASE Resolves(layout, path, program.structs)
  <2>1. /\ out' = Append(out, Event(path, offset)) /\ stack' = Visited
        /\ loop_stack' = loop_stack /\ roots_left' = roots_left /\ status' = status
    BY <1>1, <1>10, <1>12
  <2>2. AtNode(Q, a + 1, Visited, loop_stack, roots_left, out')
    BY <1>2, <1>5, <1>11, <2>1, AtNext DEF Q
  <2> QED BY <2>1, <2>2 DEF Somewhere
<1>13. CASE ~ Resolves(layout, path, program.structs)
  <2>1. Throw
    BY <1>1, <1>13
  <2>2. Somewhere(stack', loop_stack', roots_left', out')
    BY <2>1 DEF Throw, Somewhere
  <2>3. PICK t \in AccessTrails : name = AccessOf(t).object_name /\ path = AccessOf(t).path
    BY <1>11
  <2>4. ~ Resolves(LayoutOf(AccessOf(t).object_name), AccessOf(t).path, program.structs)
    BY <1>13, <2>3 DEF layout
  <2> QED BY <2>1, <2>2, <2>4
<1> QED BY <1>12, <1>13

\* A loop is begun, or passed over (visit_v2).
LEMMA LoopStep ==
  ASSUME Loadable, ProgramIsScoped, Somewhere(stack, loop_stack, roots_left, out), VisitLoop
  PROVE  Somewhere(stack', loop_stack', roots_left', out')
<1> DEFINE g == [top EXCEPT !.todo = node.body, !.loop = node]
           l == [var |-> node.var, iter |-> node.start]
<1>1. /\ stack # << >> /\ top.todo # << >> /\ node.kind = "Loop"
      /\ IF node.start < node.bound
         THEN stack' = <<g>> \o Visited /\ loop_stack' = Append(loop_stack, l)
         ELSE stack' = Visited /\ loop_stack' = loop_stack
      /\ out' = out /\ roots_left' = roots_left
  BY DEF VisitLoop, Visiting
<1>2. PICK P, u, a :
        /\ AtNode(Append(P, u), a, stack, loop_stack, roots_left, out)
        /\ Inside(P) /\ u \in Onward(P) /\ Open(u) /\ InScope(u) /\ GoodVisit(u)
        /\ Inside(Append(P, u)) /\ Append(P, u) # << >> /\ Last(Append(P, u)) = u
        /\ InFrame(top, u, a) /\ OnStack(Tail(stack), P, u.at + 1) /\ IsArray(Tail(stack))
        /\ loop_stack = ScopeOf(u).loops
        /\ a \in Nat /\ a \in 1 .. Len(ListOf(u)) /\ a \in DOMAIN ListOf(u) /\ Good(ListOf(u)[a])
        /\ node = parse_node_v2[ListOf(u)[a]]
        /\ InFrame(Shortened(top), u, a + 1)
        /\ node.kind = ListOf(u)[a].type
        /\ OnStack(Visited, Append(P, u), a + 1)
  BY <1>1, AtVisiting
<1> DEFINE Q == Append(P, u)
           j == ListOf(u)[a]
<1>3. j.type = "Loop" /\ Good(j) /\ node = parse_node_v2[j]
  BY <1>1, <1>2
<1>4. node.var = j.var /\ node.start = j.start /\ node.bound = j.bound /\ j.start \in Int /\ j.bound \in Int
  <2>1. KeysParse(j) /\ j \in Nodes /\ node = NodeOf(j, ParsedList(Body(j)))
    BY <1>3, GoodNode DEF Good
  <2> QED BY <1>3, <2>1, JsonAssumption DEF NodeOf
<1>5. \A w \in Onward(Q) : w.at = a => w.node = j /\ w.iter \in Iterations(j)
  <2>1. \A w \in Onward(Q) : w.node = ListOf(u)[w.at] /\ w.iter \in Iterations(w.node)
    BY <1>2, NodeOfVisit
  <2> QED BY <2>1
<1>6. Iterations(j) = j.start .. (j.bound - 1)
  BY <1>3 DEF Iterations
<1>7. Journey(Q) /\ IsArray(Q)
  BY <1>2, InsideTrail
<1>8. CASE node.start < node.bound
  <2> DEFINE v == [at |-> a, iter |-> j.start, node |-> j, scope |-> ScopeOf(u)]
  <2>1. j.start \in Iterations(j)
    BY <1>4, <1>6, <1>8
  <2>2. v \in Onward(Q) /\ v.at = a /\ v.iter = j.start /\ v.node = j /\ v.scope = ScopeOf(u)
    BY <1>2, <2>1, VisitsOfNode
  <2> HIDE DEF v, j, Q, g
  <2>3. Open(v) /\ InScope(v)
    BY <1>2, <1>3, <2>2, InsideMore DEF Open, Q
  <2>4. v.node.var \notin Range(Parameters(Last(v.scope.path)))
    BY <1>3, <2>2, <2>3 DEF InScope
  <2>5. DOMAIN top = {"todo", "path", "bindings", "subst", "loop"}
    BY <1>2 DEF InFrame
  <2>6. /\ DOMAIN g = {"todo", "path", "bindings", "subst", "loop"}
        /\ g.todo = node.body /\ g.loop = node /\ g.path = top.path /\ g.subst = top.subst
        /\ g.bindings = top.bindings
    BY <2>5 DEF g
  <2>7. InFrame(g, v, 1) /\ ScopeOf(v).loops = Append(v.scope.loops, [var |-> node.var, iter |-> v.iter])
    <3>1. /\ v.node.type = "Loop" /\ Good(v.node) /\ node = parse_node_v2[v.node]
          /\ DOMAIN v.scope = {"vars", "subst", "path", "loops"}
          /\ IsArray(v.scope.path) /\ v.scope.path # << >> /\ IsArray(v.scope.loops)
          /\ g.path = v.scope.path /\ g.subst = v.scope.subst
          /\ DOMAIN g.bindings \subseteq Range(Parameters(Last(v.scope.path)))
          /\ Agree(Vars(v.scope.loops, g.bindings), v.scope.vars)
      BY <1>2, <1>3, <2>2, <2>6 DEF InFrame
    <3>2. v.node.var \notin DOMAIN g.bindings
      BY <2>4, <3>1
    <3> QED BY <2>6, <3>1, <3>2, LoopFrame
  <2>8. ScopeOf(v).loops = Append(loop_stack, l)
    BY <1>2, <1>4, <2>2, <2>7
  <2>9. Done(Append(Q, v), 1) = Done(Q, a)
    <3>1. \A w \in Onward(Q) : w.at = v.at => w.iter >= v.iter
      <4> TAKE w \in Onward(Q)
      <4> HAVE w.at = v.at
      <4>1. w.iter \in j.start .. (j.bound - 1)
        BY <1>5, <1>6, <2>2
      <4> QED BY <1>4, <2>2, <4>1
    <3> QED BY <1>7, <2>2, <3>1, DoneInto
  <2>10. /\ Recorded(out, Done(Q, a)) /\ FirstLeft(Q, v.at + 1) = FirstLeft(Q, a)
         /\ FirstLeft(Q, a) \in 1 .. (Len(document.functions) + 1)
         /\ roots_left = RootsFrom(document.functions)[FirstLeft(Q, a)]
    BY <1>2 DEF AtNode, FirstLeft, Q
  <2>11. OnStack(Visited, Q, v.at + 1) /\ Inside(Q)
    BY <1>2, <2>2 DEF Q
  <2>12. AtNode(Append(Q, v), 1, <<g>> \o Visited, Append(loop_stack, l), roots_left, out)
    BY <2>2, <2>3, <2>7, <2>8, <2>9, <2>10, <2>11, AtInner
  <2>13. stack' = <<g>> \o Visited /\ loop_stack' = Append(loop_stack, l)
    BY <1>1, <1>8 DEF g
  <2> QED BY <1>1, <2>12, <2>13 DEF Somewhere
<1>9. CASE ~ (node.start < node.bound)
  <2> HIDE DEF j, Q, g
  <2>1. Iterations(j) = {}
    BY <1>4, <1>6, <1>9
  <2>2. Done(Q, a + 1) = Done(Q, a)
    <3>1. ASSUME NEW t \in AccessTrails, Through(t, Q), Len(Q) < Len(t), t[Len(Q) + 1].at = a
          PROVE  FALSE
      <4>1. Way(t)
        BY AccessFacts
      <4>2. t[Len(Q) + 1] \in Onward(Q)
        BY <1>7, <3>1, <4>1, OnwardFrom
      <4> QED BY <1>5, <2>1, <3>1, <4>2
    <3> QED BY <1>2, <1>7, <3>1, NothingDone
  <2>3. Recorded(out, Done(Q, a + 1))
    BY <1>2, <2>2 DEF AtNode, Q
  <2>4. AtNode(Q, a + 1, Visited, loop_stack, roots_left, out)
    BY <1>2, <2>3, AtNext DEF Q
  <2> QED BY <1>1, <1>9, <2>4 DEF Somewhere
<1> QED BY <1>8, <1>9

\* At the end of a list.
LEMMA AtEnd ==
  ASSUME Loadable, ProgramIsScoped, Somewhere(stack, loop_stack, roots_left, out), stack # << >>, top.todo = << >>
  PROVE  \E P, v :
           /\ Inside(P) /\ v \in Onward(P) /\ Open(v) /\ InScope(v) /\ GoodVisit(v) /\ Journey(P) /\ IsArray(P)
           /\ InFrame(top, v, Len(ListOf(v)) + 1) /\ OnStack(Tail(stack), P, v.at + 1)
           /\ loop_stack = ScopeOf(v).loops /\ (top.loop # NoLoop <=> v.node.type = "Loop")
           /\ FirstLeft(P, v.at + 1) \in 1 .. (Len(document.functions) + 1)
           /\ roots_left = RootsFrom(document.functions)[FirstLeft(P, v.at + 1)]
           /\ Recorded(out, Done(Append(P, v), Len(ListOf(v)) + 1))
<1>1. PICK Q, a : AtNode(Q, a, stack, loop_stack, roots_left, out)
  BY DEF Somewhere
<1>2. PICK P, v :
        /\ Q = Append(P, v) /\ Inside(P) /\ v \in Onward(P) /\ Open(v) /\ InScope(v) /\ GoodVisit(v)
        /\ InFrame(Head(stack), v, a) /\ OnStack(Tail(stack), P, v.at + 1) /\ IsArray(Tail(stack))
        /\ loop_stack = ScopeOf(v).loops /\ Last(Q) = v /\ Q # << >> /\ FirstLeft(Q, a) = FirstLeft(P, v.at + 1)
  BY <1>1, AtTop
<1>3. InFrame(top, v, a)
  BY <1>2 DEF top
<1>4. GoodVisit(v) /\ Open(v)
  BY <1>2
<1>5. /\ top.todo = << >> <=> a = Len(ListOf(v)) + 1
      /\ top.loop # NoLoop <=> v.node.type = "Loop"
  BY <1>3, <1>4, FrameNode, Zenon
<1>6. a = Len(ListOf(v)) + 1
  BY <1>5
<1>7. Journey(P) /\ IsArray(P)
  BY <1>2, InsideTrail
<1>8. /\ FirstLeft(Q, a) \in 1 .. (Len(document.functions) + 1)
      /\ roots_left = RootsFrom(document.functions)[FirstLeft(Q, a)] /\ Recorded(out, Done(Q, a))
  BY <1>1 DEF AtNode
<1> QED BY <1>2, <1>3, <1>5, <1>6, <1>7, <1>8

\* What is around the loop or the call just left.
LEMMA AtOuter ==
  ASSUME Loadable, ProgramIsScoped, NEW P, Inside(P), NEW v \in Onward(P), Open(v), GoodVisit(v),
         NEW s, OnStack(s, P, v.at + 1), NEW ls, ls = LoopsAround(P),
         FirstLeft(P, v.at + 1) \in 1 .. (Len(document.functions) + 1),
         NEW rl, rl = RootsFrom(document.functions)[FirstLeft(P, v.at + 1)],
         \A w \in Onward(P) : w.at = v.at => w.iter <= v.iter,
         NEW es, Recorded(es, Done(Append(P, v), Len(ListOf(v)) + 1))
  PROVE  Somewhere(s, ls, rl, es)
<1>1. Journey(P)
  BY InsideTrail
<1>2. Done(Append(P, v), Len(ListOf(v)) + 1) = Done(P, v.at + 1)
  BY <1>1, DoneVisit
<1>3. AtNode(P, v.at + 1, s, ls, rl, es)
  BY <1>2, Zenon DEF AtNode
<1> QED BY <1>3 DEF Somewhere

\* A visit is in the scope that the one before it opens.
LEMMA ScopeAround ==
  ASSUME Loadable, ProgramIsScoped, NEW P, Inside(P), NEW v \in Onward(P), P # << >>
  PROVE  /\ v.scope = ScopeOf(Last(P)) /\ LoopsAround(P) = v.scope.loops
         /\ v.at \in DOMAIN ListOf(Last(P)) /\ v.node = ListOf(Last(P))[v.at]
         /\ \A w \in Onward(P) : w.at = v.at => w.node = v.node /\ w.iter \in Iterations(v.node)
         /\ \A i \in Iterations(v.node) :
              \E w \in Onward(P) : w.at = v.at /\ w.iter = i /\ w.node = v.node /\ w.scope = v.scope
<1>1. PICK O, u : P = Append(O, u) /\ Inside(O) /\ u \in Onward(O) /\ Open(u)
  BY InsideBack
<1>2. InScope(u) /\ Last(P) = u
  BY <1>1, InsideMore
<1>3. /\ v.at \in DOMAIN ListOf(u) /\ v.node = ListOf(u)[v.at] /\ v.scope = ScopeOf(u)
  BY <1>1, <1>2, NodeOfVisit
<1>4. ASSUME NEW w \in Onward(P), w.at = v.at PROVE w.node = v.node /\ w.iter \in Iterations(v.node)
  <2>1. w.node = ListOf(u)[w.at] /\ w.iter \in Iterations(w.node)
    BY <1>1, <1>2, NodeOfVisit
  <2> QED BY <1>3, <1>4, <2>1
<1>5. ASSUME NEW i \in Iterations(v.node)
      PROVE  \E w \in Onward(P) : w.at = v.at /\ w.iter = i /\ w.node = v.node /\ w.scope = v.scope
  <2> DEFINE a == v.at
             w == [at |-> a, iter |-> i, node |-> ListOf(u)[a], scope |-> ScopeOf(u)]
  <2>1. w \in Onward(P) /\ w.at = a /\ w.iter = i /\ w.node = ListOf(u)[a] /\ w.scope = ScopeOf(u)
    BY <1>1, <1>2, <1>3, <1>5, VisitsOfNode
  <2> HIDE DEF w
  <2> QED BY <1>3, <2>1
<1>6. LoopsAround(P) = v.scope.loops
  BY <1>2, <1>3 DEF LoopsAround
<1> QED BY <1>2, <1>3, <1>4, <1>5, <1>6

\* Another iteration of a loop, or its end (visit_v2).
LEMMA IterationStep ==
  ASSUME Loadable, ProgramIsScoped, Somewhere(stack, loop_stack, roots_left, out), NextIteration
  PROVE  Somewhere(stack', loop_stack', roots_left', out')
<1> DEFINE iter == Last(loop_stack).iter + 1
           g    == [top EXCEPT !.todo = top.loop.body]
<1>1. /\ stack # << >> /\ top.todo = << >> /\ top.loop # NoLoop
      /\ IF iter < top.loop.bound
         THEN /\ stack' = <<g>> \o Tail(stack)
              /\ loop_stack' = Append(Front(loop_stack), [var |-> top.loop.var, iter |-> iter])
         ELSE stack' = Tail(stack) /\ loop_stack' = Front(loop_stack)
      /\ out' = out /\ roots_left' = roots_left
  BY DEF NextIteration
<1>2. PICK P, v :
        /\ Inside(P) /\ v \in Onward(P) /\ Open(v) /\ InScope(v) /\ GoodVisit(v) /\ Journey(P) /\ IsArray(P)
        /\ InFrame(top, v, Len(ListOf(v)) + 1) /\ OnStack(Tail(stack), P, v.at + 1)
        /\ loop_stack = ScopeOf(v).loops /\ (top.loop # NoLoop <=> v.node.type = "Loop")
        /\ FirstLeft(P, v.at + 1) \in 1 .. (Len(document.functions) + 1)
        /\ roots_left = RootsFrom(document.functions)[FirstLeft(P, v.at + 1)]
        /\ Recorded(out, Done(Append(P, v), Len(ListOf(v)) + 1))
  BY <1>1, AtEnd
<1> DEFINE j == v.node
           n == parse_node_v2[j]
<1>3. j.type = "Loop" /\ Good(j) /\ top.loop = n
  BY <1>1, <1>2 DEF InFrame
<1>4. P # << >>
  <2>1. ASSUME P = << >> PROVE FALSE
    <3>1. v \in Visits(Main, OuterScope)
      BY <1>2, <2>1 DEF Onward
    <3>2. j.type = "Call"
      BY <3>1, RootScope
    <3> QED BY <1>3, <3>2
  <2> QED BY <2>1
<1>5. n.var = j.var /\ n.bound = j.bound /\ j.start \in Int /\ j.bound \in Int
  <2>1. KeysParse(j) /\ j \in Nodes /\ n = NodeOf(j, ParsedList(Body(j)))
    BY <1>3, GoodNode DEF Good
  <2> QED BY <1>3, <2>1, JsonAssumption DEF NodeOf
<1>6. /\ LoopsAround(P) = v.scope.loops
      /\ \A w \in Onward(P) : w.at = v.at => w.node = v.node /\ w.iter \in Iterations(v.node)
      /\ \A i \in Iterations(v.node) :
           \E w \in Onward(P) : w.at = v.at /\ w.iter = i /\ w.node = v.node /\ w.scope = v.scope
  BY <1>2, <1>4, ScopeAround
<1>7. Iterations(j) = j.start .. (j.bound - 1) /\ v.iter \in Iterations(j) /\ v.iter \in Int
  BY <1>2, <1>3 DEF Iterations, GoodVisit
<1>8. /\ DOMAIN v.scope = {"vars", "subst", "path", "loops"}
      /\ IsArray(v.scope.path) /\ v.scope.path # << >> /\ IsArray(v.scope.loops)
      /\ ScopeOf(v).path = v.scope.path /\ ScopeOf(v).subst = v.scope.subst
      /\ ScopeOf(v).loops = Append(v.scope.loops, [var |-> j.var, iter |-> v.iter])
  <2>1. ScopeOf(v) = Enter(v.scope, j, v.iter)
    BY <1>3 DEF ScopeOf
  <2>2. DOMAIN ScopeOf(v) = {"vars", "subst", "path", "loops"} /\ IsArray(ScopeOf(v).path)
        /\ ScopeOf(v).path # << >> /\ IsArray(v.scope.loops)
    BY <1>2, <1>3 DEF InFrame
  <2>3. DOMAIN v.scope = {"vars", "subst", "path", "loops"}
    BY <2>1, <2>2 DEF Enter
  <2>4. /\ ScopeOf(v).path = v.scope.path /\ ScopeOf(v).subst = v.scope.subst
        /\ ScopeOf(v).loops = Append(v.scope.loops, [var |-> j.var, iter |-> v.iter])
    BY <2>1, <2>3 DEF Enter
  <2> QED BY <2>2, <2>3, <2>4
<1>9. Front(loop_stack) = v.scope.loops /\ iter = v.iter + 1
  <2> DEFINE l == [var |-> j.var, iter |-> v.iter]
  <2>1. l.iter = v.iter /\ loop_stack = Append(v.scope.loops, l)
    BY <1>2, <1>8
  <2> HIDE DEF l
  <2>2. Front(Append(v.scope.loops, l)) = v.scope.loops /\ Last(Append(v.scope.loops, l)) = l
    BY <1>8, Appended
  <2> QED BY <2>1, <2>2
<1> HIDE DEF iter, g, j, n
<1>10. CASE iter < top.loop.bound
  <2>1. v.iter + 1 \in Iterations(j)
    BY <1>3, <1>5, <1>7, <1>9, <1>10
  <2>2. PICK w \in Onward(P) : w.at = v.at /\ w.iter = v.iter + 1 /\ w.node = v.node /\ w.scope = v.scope
    BY <1>6, <2>1 DEF j
  <2>3. Done(Append(P, v), Len(ListOf(v)) + 1) = Done(Append(P, w), 1)
    BY <1>2, <2>2, DoneIteration
  <2>4. /\ DOMAIN g = {"todo", "path", "bindings", "subst", "loop"}
        /\ g.todo = n.body /\ g.loop = n /\ g.path = top.path /\ g.subst = top.subst
        /\ g.bindings = top.bindings
    <3>1. DOMAIN top = {"todo", "path", "bindings", "subst", "loop"}
      BY <1>2 DEF InFrame
    <3> QED BY <1>3, <3>1 DEF g
  <2>5. InFrame(g, w, 1) /\ ScopeOf(w).loops = Append(w.scope.loops, [var |-> n.var, iter |-> w.iter])
    <3>1. /\ w.node.type = "Loop" /\ Good(w.node) /\ n = parse_node_v2[w.node]
          /\ DOMAIN w.scope = {"vars", "subst", "path", "loops"}
          /\ IsArray(w.scope.path) /\ w.scope.path # << >> /\ IsArray(w.scope.loops)
      BY <1>3, <1>8, <2>2 DEF j, n
    <3>2. /\ g.path = w.scope.path /\ g.subst = w.scope.subst
          /\ DOMAIN g.bindings \subseteq Range(Parameters(Last(w.scope.path)))
          /\ w.node.var \notin DOMAIN g.bindings /\ Agree(Vars(w.scope.loops, g.bindings), w.scope.vars)
      BY <1>2, <1>3, <1>8, <2>2, <2>4 DEF InFrame, j
    <3> QED BY <2>4, <3>1, <3>2, LoopFrame
  <2>6. loop_stack' = ScopeOf(w).loops
    BY <1>1, <1>3, <1>9, <1>10, <2>2, <2>5
  <2>7. Open(w) /\ OnStack(Tail(stack), P, w.at + 1) /\ FirstLeft(P, w.at + 1) = FirstLeft(P, v.at + 1)
    BY <1>2, <1>3, <2>2 DEF Open, j
  <2>8. AtNode(Append(P, w), 1, <<g>> \o Tail(stack), ScopeOf(w).loops, roots_left, out)
    BY <1>2, <2>3, <2>5, <2>7, AtInner
  <2>9. stack' = <<g>> \o Tail(stack)
    BY <1>1, <1>10
  <2> QED BY <1>1, <2>6, <2>8, <2>9 DEF Somewhere
<1>11. CASE ~ (iter < top.loop.bound)
  <2>1. \A w \in Onward(P) : w.at = v.at => w.iter <= v.iter
    <3> TAKE w \in Onward(P)
    <3> HAVE w.at = v.at
    <3>1. w.iter \in j.start .. (j.bound - 1)
      BY <1>6, <1>7 DEF j
    <3> QED BY <1>3, <1>5, <1>7, <1>9, <1>11, <3>1
  <2>2. stack' = Tail(stack) /\ loop_stack' = LoopsAround(P)
    BY <1>1, <1>6, <1>9, <1>11
  <2>3. Somewhere(Tail(stack), LoopsAround(P), roots_left, out)
    BY <1>2, <2>1, AtOuter
  <2> QED BY <1>1, <2>2, <2>3
<1> QED BY <1>10, <1>11

\* A function returns (visit_v2).
LEMMA ReturnStep ==
  ASSUME Loadable, ProgramIsScoped, Somewhere(stack, loop_stack, roots_left, out), Return
  PROVE  Somewhere(stack', loop_stack', roots_left', out')
<1>1. /\ stack # << >> /\ top.todo = << >> /\ top.loop = NoLoop /\ stack' = Tail(stack)
      /\ loop_stack' = loop_stack /\ out' = out /\ roots_left' = roots_left
  BY DEF Return
<1>2. PICK P, v :
        /\ Inside(P) /\ v \in Onward(P) /\ Open(v) /\ InScope(v) /\ GoodVisit(v) /\ Journey(P) /\ IsArray(P)
        /\ InFrame(top, v, Len(ListOf(v)) + 1) /\ OnStack(Tail(stack), P, v.at + 1)
        /\ loop_stack = ScopeOf(v).loops /\ (top.loop # NoLoop <=> v.node.type = "Loop")
        /\ FirstLeft(P, v.at + 1) \in 1 .. (Len(document.functions) + 1)
        /\ roots_left = RootsFrom(document.functions)[FirstLeft(P, v.at + 1)]
        /\ Recorded(out, Done(Append(P, v), Len(ListOf(v)) + 1))
  BY <1>1, AtEnd
<1>3. v.node.type # "Loop"
  BY <1>1, <1>2
<1>4. v.iter = 0
  BY <1>2, <1>3 DEF GoodVisit, Iterations
<1>5. ScopeOf(v).loops = v.scope.loops
  <2>1. ScopeOf(v) = CalleeScope(v.scope, v.node)
    BY <1>3 DEF ScopeOf
  <2> QED BY <2>1 DEF CalleeScope
<1>6. loop_stack = LoopsAround(P) /\ \A w \in Onward(P) : w.at = v.at => w.iter <= v.iter
  <2>1. CASE P = << >>
    <3>1. Onward(P) = Visits(Main, OuterScope)
      BY <2>1 DEF Onward
    <3>2. \A w \in Onward(P) : w.iter = 0
      BY <3>1, MainVisits
    <3>3. ScopeOf(v).loops = << >>
      BY <1>2, <3>1, RootScope
    <3> QED BY <1>2, <1>4, <2>1, <3>2, <3>3 DEF LoopsAround
  <2>2. CASE P # << >>
    <3>1. /\ LoopsAround(P) = v.scope.loops
          /\ \A w \in Onward(P) : w.at = v.at => w.iter \in Iterations(v.node)
      BY <1>2, <2>2, ScopeAround
    <3>2. Iterations(v.node) = {0}
      BY <1>3 DEF Iterations
    <3> QED BY <1>2, <1>4, <1>5, <3>1, <3>2
  <2> QED BY <2>1, <2>2
<1>7. Somewhere(Tail(stack), loop_stack, roots_left, out)
  BY <1>2, <1>6, AtOuter
<1> QED BY <1>1, <1>7

\* A function is called, or passed over if it is not defined (visit_v2).
LEMMA CallStep ==
  ASSUME Loadable, Ready, ProgramIsScoped, Somewhere(stack, loop_stack, roots_left, out), VisitCall
  PROVE  Somewhere(stack', loop_stack', roots_left', out') /\ status' = status
<1> DEFINE vars == Vars(loop_stack, top.bindings)
           f    == FunctionFrame(program.functions[node.callee], Append(top.path, node.callee),
                                 CalleeBindings(node, top.subst, vars), CalleeSubst(node, top.subst))
           Binds == \A k \in Bound(node) : LET arg == node.arg_objects[k]
                                           IN  IsObjectArg(arg, top.subst) \/ (~arg.is_object /\ Evaluates(arg.expr, vars))
<1>1. /\ stack # << >> /\ top.todo # << >> /\ node.kind = "Call"
      /\ node.callee \notin DOMAIN program.functions =>
           stack' = Visited /\ UNCHANGED <<program, roots_left, loop_stack, out, status>>
      /\ node.callee \in DOMAIN program.functions /\ Binds =>
           stack' = <<f>> \o Visited /\ UNCHANGED <<program, roots_left, loop_stack, out, status>>
  BY DEF VisitCall, Visiting
<1> HIDE DEF vars, f, Binds
<1>2. PICK P, u, a :
        /\ AtNode(Append(P, u), a, stack, loop_stack, roots_left, out)
        /\ Inside(P) /\ u \in Onward(P) /\ Open(u) /\ InScope(u) /\ GoodVisit(u)
        /\ Inside(Append(P, u)) /\ Append(P, u) # << >> /\ Last(Append(P, u)) = u
        /\ InFrame(top, u, a) /\ OnStack(Tail(stack), P, u.at + 1) /\ IsArray(Tail(stack))
        /\ loop_stack = ScopeOf(u).loops
        /\ a \in Nat /\ a \in 1 .. Len(ListOf(u)) /\ a \in DOMAIN ListOf(u) /\ Good(ListOf(u)[a])
        /\ node = parse_node_v2[ListOf(u)[a]]
        /\ InFrame(Shortened(top), u, a + 1)
        /\ node.kind = ListOf(u)[a].type
        /\ OnStack(Visited, Append(P, u), a + 1)
  BY <1>1, AtVisiting
<1> DEFINE Q == Append(P, u)
           j == ListOf(u)[a]
           v == [at |-> a, iter |-> 0, node |-> j, scope |-> ScopeOf(u)]
<1>3. j.type = "Call" /\ Good(j) /\ node = parse_node_v2[j]
  BY <1>1, <1>2
<1>4. node.callee = j.callee
  <2>1. node = NodeOf(j, ParsedList(Body(j)))
    BY <1>3, GoodNode
  <2> QED BY <1>3, <2>1 DEF NodeOf
<1>5. node.callee \in DOMAIN program.functions <=> IsDefined(j.callee)
  BY <1>4, ProgramFunctions
<1>6. Iterations(j) = {0}
  BY <1>3 DEF Iterations
<1>7. \A w \in Onward(Q) : w.at = a => w.node = j /\ w.iter = 0
  <2>1. \A w \in Onward(Q) : w.node = ListOf(u)[w.at] /\ w.iter \in Iterations(w.node)
    BY <1>2, NodeOfVisit
  <2> QED BY <1>6, <2>1
<1>8. v \in Onward(Q) /\ v.at = a /\ v.iter = 0 /\ v.node = j /\ v.scope = ScopeOf(u)
  BY <1>2, <1>6, VisitsOfNode
<1>9. Journey(Q) /\ IsArray(Q) /\ Inside(Q)
  BY <1>2, InsideTrail
<1> HIDE DEF v, j, Q
<1>10. CASE node.callee \notin DOMAIN program.functions
  <2>1. Done(Q, a + 1) = Done(Q, a)
    <3>1. ASSUME NEW t \in AccessTrails, Through(t, Q), Len(Q) < Len(t), t[Len(Q) + 1].at = a
          PROVE  FALSE
      <4>1. Way(t) /\ Len(t) \in Nat /\ Len(Q) \in Nat
        BY <1>9, AccessFacts, InsideTrail
      <4>2. t[Len(Q) + 1] \in Onward(Q)
        BY <1>9, <3>1, <4>1, OnwardFrom
      <4>3. t[Len(Q) + 1].node = j
        BY <1>7, <3>1, <4>2
      <4>4. ~ Open(t[Len(Q) + 1])
        BY <1>3, <1>5, <1>10, <4>3 DEF Open
      <4>5. Len(Q) + 1 \in 1 .. Len(t)
        BY <3>1, <4>1
      <4>6. Len(t) = Len(Q) + 1
        BY <3>1, <4>1, <4>4, <4>5, GoesOn
      <4>7. Last(t).node.type \in {"Scalar", "Array"}
        BY DEF AccessTrails
      <4>8. Last(t) = t[Len(t)]
        BY AccessJourney
      <4> QED BY <1>3, <4>3, <4>6, <4>7, <4>8
    <3> QED BY SMTT(30), <1>2, <1>9, <3>1, NothingDone
  <2>2. Recorded(out, Done(Q, a + 1))
    BY <1>2, <2>1 DEF AtNode, Q
  <2>3. AtNode(Q, a + 1, Visited, loop_stack, roots_left, out)
    BY <1>2, <2>2, AtNext DEF Q
  <2> QED BY <1>1, <1>10, <2>3 DEF Somewhere
<1>11. CASE node.callee \in DOMAIN program.functions
  <2>1. IsDefined(j.callee) /\ Open(v) /\ InScope(v)
    <3>1. InScope(v)
      BY <1>8, <1>9, InsideMore
    <3> QED BY <1>3, <1>5, <1>8, <1>11, <3>1 DEF Open
  <2>2. /\ IsInjective(Parameters(j.callee))
        /\ \A b \in Arguments(j) :
             NamesObject(b.arg, v.scope) \/ (~b.arg.is_object /\ Evaluates(b.arg.expr, v.scope.vars))
    BY <1>3, <1>8, <2>1 DEF InScope
  <2>3. top.subst = v.scope.subst /\ top.path = v.scope.path /\ loop_stack = v.scope.loops
        /\ Agree(vars, v.scope.vars) /\ IsArray(v.scope.path) /\ IsArray(v.scope.loops)
    BY <1>2, <1>8 DEF InFrame, vars
  <2>4. /\ \A k \in Bound(node) : LET arg == node.arg_objects[k]
                                  IN  \/ IsObjectArg(arg, v.scope.subst)
                                      \/ ~arg.is_object /\ Evaluates(arg.expr, vars)
        /\ CalleeSubst(node, v.scope.subst) = CalleeScope(v.scope, j).subst
        /\ CalleeBindings(node, v.scope.subst, vars) = CalleeScope(v.scope, j).vars
        /\ DOMAIN CalleeScope(v.scope, j).vars \subseteq Range(Parameters(j.callee))
    <3> DEFINE n == node
               scope == v.scope
    <3>1. n = parse_node_v2[j] /\ Agree(vars, scope.vars)
      BY <1>3, <2>3
    <3>2. \A b \in Arguments(j) :
            NamesObject(b.arg, scope) \/ (~b.arg.is_object /\ Evaluates(b.arg.expr, scope.vars))
      BY <2>2
    <3> HIDE DEF n, scope
    <3>3. /\ \A k \in Bound(n) : LET arg == n.arg_objects[k]
                                 IN  \/ IsObjectArg(arg, scope.subst)
                                     \/ ~arg.is_object /\ Evaluates(arg.expr, vars)
          /\ CalleeSubst(n, scope.subst) = CalleeScope(scope, j).subst
          /\ CalleeBindings(n, scope.subst, vars) = CalleeScope(scope, j).vars
          /\ DOMAIN CalleeScope(scope, j).vars \subseteq Range(Parameters(j.callee))
      BY <1>3, <2>1, <2>2, <3>1, <3>2, CalleeMatches
    <3> QED BY <3>3 DEF n, scope
  <2>5. Binds
    BY <2>3, <2>4 DEF Binds
  <2>6. ScopeOf(v) = CalleeScope(v.scope, j)
    BY <1>3, <1>8 DEF ScopeOf
  <2> DEFINE bindings == CalleeBindings(node, top.subst, vars)
             subst    == CalleeSubst(node, top.subst)
  <2>7. bindings = ScopeOf(v).vars /\ subst = ScopeOf(v).subst
        /\ DOMAIN bindings \subseteq Range(Parameters(v.node.callee))
    BY <1>8, <2>3, <2>4, <2>6
  <2> HIDE DEF bindings, subst
  <2>8. /\ InFrame(FunctionFrame(program.functions[v.node.callee], Append(v.scope.path, v.node.callee), bindings, subst), v, 1)
        /\ ScopeOf(v).loops = v.scope.loops
    BY <1>3, <1>8, <2>1, <2>3, <2>7, BodyFrame
  <2>9. InFrame(f, v, 1)
    BY <1>4, <1>8, <2>3, <2>8 DEF f, bindings, subst
  <2>10. Done(Append(Q, v), 1) = Done(Q, a)
    <3>1. \A w \in Onward(Q) : w.at = v.at => w.iter >= v.iter
      BY <1>7, <1>8
    <3> QED BY <1>8, <1>9, <3>1, DoneInto
  <2>11. /\ Recorded(out, Done(Q, a)) /\ FirstLeft(Q, v.at + 1) = FirstLeft(Q, a)
         /\ FirstLeft(Q, a) \in 1 .. (Len(document.functions) + 1)
         /\ roots_left = RootsFrom(document.functions)[FirstLeft(Q, a)]
    BY <1>2 DEF AtNode, FirstLeft, Q
  <2>12. OnStack(Visited, Q, v.at + 1)
    BY <1>2, <1>8 DEF Q
  <2>13. AtNode(Append(Q, v), 1, <<f>> \o Visited, loop_stack, roots_left, out)
    BY <1>8, <1>9, <2>1, <2>3, <2>8, <2>9, <2>10, <2>11, <2>12, AtInner
  <2> QED BY <1>1, <1>11, <2>5, <2>13 DEF Somewhere
<1> QED BY <1>10, <1>11

-----------------------------------------------------------------------------
(* A document that stays the same says the same. *)

\* The scope of a callee whose arguments, and those of them that are objects, are known.
ScopeWith(scope, call, args, objects) ==
  LET One(S) == CHOOSE x \in S : TRUE
  IN  [vars  |-> [p \in {a.name : a \in args \ objects} |->
                    EvalIndex(One({a \in args : a.name = p}).arg.expr, scope.vars)],
       subst |-> [id \in {<<call.callee, a.name>> : a \in objects} |->
                    ResolveObject(One({a \in args : a.name = id[2]}).arg.object, scope.subst)],
       path  |-> Append(scope.path, call.callee),
       loops |-> scope.loops]

\* The scopes of its calls are the same.
LEMMA SameCalleeScope ==
  document' = document => \A scope, call : CalleeScope(scope, call)' = CalleeScope(scope, call)
<1> DEFINE Known == \A scope, call : \E args, objects :
                      /\ args = Arguments(call) /\ \A a : a \in objects <=> a \in args /\ NamesObject(a.arg, scope)
                      /\ CalleeScope(scope, call) = ScopeWith(scope, call, args, objects)
<1>1. Known
  <2> SUFFICES ASSUME NEW scope, NEW call
               PROVE  \E args, objects :
                        /\ args = Arguments(call) /\ \A a : a \in objects <=> a \in args /\ NamesObject(a.arg, scope)
                        /\ CalleeScope(scope, call) = ScopeWith(scope, call, args, objects)
    OBVIOUS
  <2> WITNESS Arguments(call), {a \in Arguments(call) : NamesObject(a.arg, scope)}
  <2> QED BY Zenon DEF CalleeScope, ScopeWith
<1> HIDE DEF Known
<1>2. Known'
  BY <1>1, PTL
<1> SUFFICES ASSUME document' = document, NEW scope, NEW call
             PROVE  CalleeScope(scope, call)' = CalleeScope(scope, call)
  OBVIOUS
<1>3. Arguments(call)' = Arguments(call)
  BY Zenon DEF Arguments, ArgObjects, ValueOr, Matched, Parameters, FunctionNamed
<1>4. \A arg : NamesObject(arg, scope)' = NamesObject(arg, scope)
  BY Zenon DEF NamesObject, Objects, ValueOr, ResolveObject
<1>5. PICK A, O : /\ A = Arguments(call) /\ \A a : a \in O <=> a \in A /\ NamesObject(a.arg, scope)
                  /\ CalleeScope(scope, call) = ScopeWith(scope, call, A, O)
  BY <1>1 DEF Known
<1>6. PICK B, P : /\ B = Arguments(call)' /\ \A a : a \in P <=> a \in B /\ NamesObject(a.arg, scope)'
                  /\ CalleeScope(scope, call)' = ScopeWith(scope, call, B, P)
  BY <1>2 DEF Known
<1>7. A = B /\ \A a : a \in O <=> a \in P
  BY <1>3, <1>4, <1>5, <1>6
<1>8. O = P
  BY <1>7
<1> QED BY <1>5, <1>6, <1>7, <1>8

\* So are the visits to its nodes.
LEMMA SameVisits ==
  ASSUME document' = document
  PROVE  /\ Main' = Main
         /\ \A v : VisitsIn(v)' = VisitsIn(v) /\ Open(v)' = Open(v) /\ InScope(v)' = InScope(v)
         /\ \A v : ListOf(v)' = ListOf(v) /\ ScopeOf(v)' = ScopeOf(v)
         /\ \A name : Parameters(name)' = Parameters(name)
<1>1. Main' = Main
  BY Zenon DEF Main
<1>2. \A name : FunctionNamed(name)' = FunctionNamed(name)
  BY Zenon DEF FunctionNamed
<1>3. \A name : IsDefined(name)' = IsDefined(name)
  BY Zenon DEF IsDefined, Range
<1>4. \A name : Parameters(name)' = Parameters(name)
  BY <1>2 DEF Parameters, ValueOr
<1>5. \A call : Arguments(call)' = Arguments(call)
  BY ZenonT(40) DEF Arguments, ArgObjects, ValueOr, Matched, Parameters, FunctionNamed
<1>6. \A arg, scope : NamesObject(arg, scope)' = NamesObject(arg, scope)
  BY Zenon DEF NamesObject, Objects, ValueOr, ResolveObject
<1>7. \A scope, call : CalleeScope(scope, call)' = CalleeScope(scope, call)
  BY SameCalleeScope
<1>8. \A v : InScope(v)' = InScope(v)
  BY <1>3, <1>4, <1>5, <1>6 DEF InScope
<1>9. \A v : VisitsIn(v)' = VisitsIn(v)
  BY <1>2, <1>3, <1>7, <1>8 DEF VisitsIn
<1>10. \A v : Open(v)' = Open(v)
  BY <1>3 DEF Open
<1>11. \A v : ListOf(v)' = ListOf(v)
  BY <1>2 DEF ListOf
<1>12. \A v : ScopeOf(v)' = ScopeOf(v)
  BY <1>7 DEF ScopeOf
<1> QED BY <1>1, <1>4, <1>8, <1>9, <1>10, <1>11, <1>12

\* So are its trails.
LEMMA SameTrails ==
  document' = document =>
    (\A d \in 0 .. Deepest : (TrailsOf[d])' = TrailsOf[d]) /\ AccessTrails' = AccessTrails /\ (ProgramIsScoped <=> ProgramIsScoped')
<1> DEFINE Known == /\ DOMAIN TrailsOf = 0 .. Deepest /\ TrailsOf[0] = {<< >>}
                    /\ \A d \in 1 .. Deepest : TrailsOf[d] = Longer(TrailsOf[d - 1])
<1>1. Known
  BY TrailsGrow
<1> HIDE DEF Known
<1>2. Known'
  BY <1>1, PTL
<1> SUFFICES ASSUME document' = document
             PROVE  /\ \A d \in 0 .. Deepest : (TrailsOf[d])' = TrailsOf[d]
                    /\ AccessTrails' = AccessTrails /\ (ProgramIsScoped <=> ProgramIsScoped')
  OBVIOUS
<1>3. \A t : Onward(t)' = Onward(t)
  BY SameVisits DEF Onward
<1>4. \A ts : Longer(ts)' = Longer(ts)
  BY <1>3 DEF Longer
<1> DEFINE S == {n \in Nat : n <= Deepest => (TrailsOf[n])' = TrailsOf[n]}
<1>5. 0 \in S
  BY <1>1, <1>2 DEF Known
<1>6. ASSUME NEW n \in Nat, n \in S PROVE n + 1 \in S
  <2> SUFFICES ASSUME n + 1 <= Deepest PROVE (TrailsOf[n + 1])' = TrailsOf[n + 1]
    OBVIOUS
  <2>1. n + 1 \in 1 .. Deepest /\ (n + 1) - 1 = n /\ n <= Deepest
    BY DeepestAssumption
  <2>2. TrailsOf[n + 1] = Longer(TrailsOf[n])
    BY <1>1, <2>1 DEF Known
  <2>3. (TrailsOf[n + 1])' = Longer(TrailsOf[n])'
    BY <1>2, <2>1 DEF Known
  <2>4. (TrailsOf[n])' = TrailsOf[n]
    BY <1>6, <2>1
  <2> QED BY <1>3, <2>2, <2>3, <2>4 DEF Longer
<1>7. \A d \in 0 .. Deepest : (TrailsOf[d])' = TrailsOf[d]
  <2> HIDE DEF S
  <2>1. \A n \in Nat : n \in S
    BY <1>5, <1>6, AllNumbers
  <2> QED BY <2>1, DeepestAssumption DEF S
<1>8. Trails' = Trails
  <2>1. \A d \in 1 .. Deepest : (TrailsOf[d])' = TrailsOf[d]
    BY <1>7, DeepestAssumption
  <2> QED BY <2>1 DEF Trails
<1>9. AccessTrails' = AccessTrails
  BY <1>8 DEF AccessTrails
<1>10. ProgramIsScoped <=> ProgramIsScoped'
  <2>1. (TrailsOf[Deepest])' = TrailsOf[Deepest]
    BY <1>7, DeepestAssumption
  <2> QED BY <1>8, <2>1, SameVisits DEF ProgramIsScoped
<1> QED BY <1>7, <1>9, <1>10

\* So is a place in it: the frame it is in,
LEMMA SameFrame ==
  document' = document => \A f, v, a : InFrame(f, v, a) <=> InFrame(f, v, a)'
<1> DEFINE Holds(f, v, a, scope, list, params) ==
             /\ DOMAIN f = {"todo", "path", "bindings", "subst", "loop"}
             /\ a \in 1 .. (Len(list) + 1) /\ f.todo = RestOf(list, a)
             /\ DOMAIN scope = {"vars", "subst", "path", "loops"}
             /\ f.path = scope.path /\ f.subst = scope.subst
             /\ IsArray(scope.path) /\ scope.path # << >> /\ IsArray(scope.loops)
             /\ DOMAIN f.bindings \subseteq Range(params)
             /\ Agree(Vars(scope.loops, f.bindings), scope.vars)
             /\ v.node.type = "Loop" =>
                  /\ f.loop = parse_node_v2[v.node] /\ Good(v.node) /\ v.node.var \notin DOMAIN f.bindings
                  /\ IsArray(v.scope.loops) /\ Agree(Vars(v.scope.loops, f.bindings), v.scope.vars)
             /\ v.node.type # "Loop" => f.loop = NoLoop
           Known == \A f, v, a : \E scope, list, params :
                      /\ scope = ScopeOf(v) /\ list = ListOf(v) /\ params = Parameters(Last(scope.path))
                      /\ InFrame(f, v, a) <=> Holds(f, v, a, scope, list, params)
<1>1. Known
  <2> SUFFICES ASSUME NEW f, NEW v, NEW a
               PROVE  \E scope, list, params :
                        /\ scope = ScopeOf(v) /\ list = ListOf(v) /\ params = Parameters(Last(scope.path))
                        /\ InFrame(f, v, a) <=> Holds(f, v, a, scope, list, params)
    OBVIOUS
  <2> WITNESS ScopeOf(v), ListOf(v), Parameters(Last(ScopeOf(v).path))
  <2> QED BY Zenon DEF InFrame
<1> HIDE DEF Holds
<1> HIDE DEF Known
<1>2. Known'
  BY <1>1, PTL
<1> SUFFICES ASSUME document' = document, NEW f, NEW v, NEW a PROVE InFrame(f, v, a) <=> InFrame(f, v, a)'
  OBVIOUS
<1>3. PICK scope, list, params :
        /\ scope = ScopeOf(v) /\ list = ListOf(v) /\ params = Parameters(Last(scope.path))
        /\ InFrame(f, v, a) <=> Holds(f, v, a, scope, list, params)
  BY <1>1 DEF Known
<1>4. PICK s, l, p :
        /\ s = ScopeOf(v)' /\ l = ListOf(v)' /\ p = Parameters(Last(s.path))'
        /\ InFrame(f, v, a)' <=> Holds(f, v, a, s, l, p)
  BY <1>2 DEF Known
<1>5. s = scope /\ l = list /\ p = params
  BY <1>3, <1>4, SameVisits
<1> QED BY <1>3, <1>4, <1>5

\* what is recorded there,
LEMMA SameRecord ==
  document' = document => \A events, done : Recorded(events, done) <=> Recorded(events, done)'
<1> DEFINE Holds(events, done, trails) ==
             /\ IsArray(events) /\ IsFiniteSet(done) /\ Len(events) = Cardinality(done)
             /\ \A k \in DOMAIN events :
                  \E t \in trails : /\ Cardinality({u \in trails : Before(u, t)}) = k - 1
                                    /\ Accesses(events)[k] = AccessOf(t)
           Known == \A events, done : \E trails :
                      trails = AccessTrails /\ (Recorded(events, done) <=> Holds(events, done, trails))
<1>1. Known
  <2> SUFFICES ASSUME NEW events, NEW done
               PROVE  \E trails : trails = AccessTrails /\ (Recorded(events, done) <=> Holds(events, done, trails))
    OBVIOUS
  <2> WITNESS AccessTrails
  <2> QED BY Zenon DEF Recorded
<1> HIDE DEF Holds
<1> HIDE DEF Known
<1>2. Known'
  BY <1>1, PTL
<1> SUFFICES ASSUME document' = document, NEW events, NEW done
             PROVE  Recorded(events, done) <=> Recorded(events, done)'
  OBVIOUS
<1>3. PICK trails : trails = AccessTrails /\ (Recorded(events, done) <=> Holds(events, done, trails))
  BY <1>1 DEF Known
<1>4. PICK later : later = AccessTrails' /\ (Recorded(events, done)' <=> Holds(events, done, later))
  BY <1>2 DEF Known
<1> QED BY <1>3, <1>4, SameTrails

\* and where the stack and the loops say it is.
LEMMA SamePlace ==
  document' = document =>
    \A s, ls, rl, es : Somewhere(s, ls, rl, es) <=> Somewhere(s, ls, rl, es)'
<1> DEFINE Holds(Q, a, ls, rl, fns, around) ==
             /\ ls = around /\ FirstLeft(Q, a) \in 1 .. (Len(fns) + 1)
             /\ rl = RootsFrom(fns)[FirstLeft(Q, a)]
           Known == \A Q, a, s, ls, rl, es : \E fns, around, done :
                      /\ fns = document.functions /\ around = LoopsAround(Q) /\ done = Done(Q, a)
                      /\ AtNode(Q, a, s, ls, rl, es) <=>
                           Inside(Q) /\ OnStack(s, Q, a) /\ Holds(Q, a, ls, rl, fns, around) /\ Recorded(es, done)
<1>1. Known
  <2> SUFFICES ASSUME NEW Q, NEW a, NEW s, NEW ls, NEW rl, NEW es
               PROVE  \E fns, around, done :
                        /\ fns = document.functions /\ around = LoopsAround(Q) /\ done = Done(Q, a)
                        /\ AtNode(Q, a, s, ls, rl, es) <=>
                             Inside(Q) /\ OnStack(s, Q, a) /\ Holds(Q, a, ls, rl, fns, around) /\ Recorded(es, done)
    OBVIOUS
  <2> WITNESS document.functions, LoopsAround(Q), Done(Q, a)
  <2> QED BY Zenon DEF AtNode
<1> HIDE DEF Holds
<1> HIDE DEF Known
<1>2. Known'
  BY <1>1, PTL
<1> SUFFICES ASSUME document' = document, NEW s, NEW ls, NEW rl, NEW es
             PROVE  Somewhere(s, ls, rl, es) <=> Somewhere(s, ls, rl, es)'
  OBVIOUS
<1>3. ASSUME NEW Q PROVE (Inside(Q) <=> Inside(Q)') /\ LoopsAround(Q)' = LoopsAround(Q)
  <2>1. Len(Q) \in 0 .. Deepest => (TrailsOf[Len(Q)])' = TrailsOf[Len(Q)]
    BY SameTrails
  <2>2. \A v : Open(v)' = Open(v)
    BY SameVisits
  <2>3. Inside(Q) <=> Inside(Q)'
    BY <2>1, <2>2 DEF Inside
  <2>4. ScopeOf(Last(Q))' = ScopeOf(Last(Q))
    BY SameVisits
  <2> QED BY <2>3, <2>4 DEF LoopsAround
<1>4. ASSUME NEW Q, NEW a PROVE (OnStack(s, Q, a) <=> OnStack(s, Q, a)') /\ Done(Q, a)' = Done(Q, a)
  <2>1. OnStack(s, Q, a) <=> OnStack(s, Q, a)'
    BY SameFrame DEF OnStack
  <2>2. AccessTrails' = AccessTrails
    BY SameTrails
  <2> QED BY <2>1, <2>2 DEF Done
<1>5. ASSUME NEW Q, NEW a PROVE AtNode(Q, a, s, ls, rl, es) <=> AtNode(Q, a, s, ls, rl, es)'
  <2>1. PICK fns, around, done :
          /\ fns = document.functions /\ around = LoopsAround(Q) /\ done = Done(Q, a)
          /\ AtNode(Q, a, s, ls, rl, es) <=>
               Inside(Q) /\ OnStack(s, Q, a) /\ Holds(Q, a, ls, rl, fns, around) /\ Recorded(es, done)
    BY <1>1 DEF Known
  <2>2. PICK f, l, d :
          /\ f = (document.functions)' /\ l = LoopsAround(Q)' /\ d = Done(Q, a)'
          /\ AtNode(Q, a, s, ls, rl, es)' <=>
               Inside(Q)' /\ OnStack(s, Q, a)' /\ Holds(Q, a, ls, rl, f, l) /\ Recorded(es, d)'
    BY <1>2 DEF Known
  <2>3. f = fns /\ l = around /\ d = done
    BY <1>3, <1>4, <2>1, <2>2
  <2> QED BY <1>3, <1>4, <2>1, <2>2, <2>3, SameRecord
<1> QED BY <1>5 DEF Somewhere

-----------------------------------------------------------------------------
(* An execution. *)

\* The stack, the loops, the functions left and the events are those of a place.
InPlace ==
  \E s, ls, rl, es : /\ s = stack /\ ls = loop_stack /\ rl = roots_left /\ es = out
                     /\ Somewhere(s, ls, rl, es)

\* All accesses are made.
AllMade == \E trails : trails = AccessTrails /\ Len(out) = Cardinality(trails)

\* An access is to what no layout has.
Refused == \E t \in AccessTrails : \E layout, structs :
             /\ layout = LayoutOf(AccessOf(t).object_name) /\ structs = program.structs
             /\ ~ Resolves(layout, AccessOf(t).path, structs)

\* From the first function on there is a place, until all accesses are made.
Executed ==
  /\ document \in Documents /\ status \in {"loading", "running", "done", "failed"}
  /\ ~ Loads(document) => out = << >> /\ status \in {"loading", "failed"}
  /\ Loads(document) /\ ProgramIsScoped =>
       /\ status = "loading" => stack = << >> /\ loop_stack = << >> /\ out = << >>
       /\ status # "loading" => InPlace
       /\ status = "done" => AllMade

\* Where nothing moves, the place is the same.
LEMMA PlaceKept ==
  ASSUME document' = document, UNCHANGED <<stack, loop_stack, roots_left, out>>
  PROVE  (InPlace => InPlace') /\ (AllMade => AllMade')
<1>1. ASSUME InPlace PROVE InPlace'
  <2>1. PICK s, ls, rl, es : /\ s = stack /\ ls = loop_stack /\ rl = roots_left /\ es = out
                             /\ Somewhere(s, ls, rl, es)
    BY <1>1 DEF InPlace
  <2>2. Somewhere(s, ls, rl, es)'
    BY <2>1, SamePlace
  <2> QED BY <2>1, <2>2 DEF InPlace
<1>2. ASSUME AllMade PROVE AllMade'
  BY <1>2, SameTrails DEF AllMade
<1> QED BY <1>1, <1>2

\* Where something moves, it moves to a place.
LEMMA PlaceReached ==
  ASSUME document' = document, NEW s, NEW ls, NEW rl, NEW es,
         s = stack', ls = loop_stack', rl = roots_left', es = out', Somewhere(s, ls, rl, es)
  PROVE  InPlace'
<1>1. Somewhere(s, ls, rl, es)'
  BY SamePlace
<1> QED BY <1>1 DEF InPlace

\* A step of the builder moves from a place to a place, or stops at an access to what
\* no layout has.
LEMMA BuilderMoves ==
  ASSUME Loadable, Ready, ProgramIsScoped, InPlace, BuilderStep, document' = document
  PROVE  /\ InPlace' /\ status' \in {"running", "done", "failed"}
         /\ status' = "done" => AllMade'
         /\ status' = "failed" => Refused
<1>1. Somewhere(stack, loop_stack, roots_left, out)
  BY DEF InPlace
<1>2. status = "running" /\ status' \in {"running", "done", "failed"} /\ program' = program
  BY StepsKeepProgram
<1>3. ASSUME Somewhere(stack', loop_stack', roots_left', out') PROVE InPlace'
  BY <1>3, PlaceReached
<1>4. CASE VisitRoot
  <2>1. status' = status
    BY <1>4 DEF VisitRoot
  <2> QED BY <1>1, <1>2, <1>3, <1>4, <2>1, RootStep
<1>5. CASE Finish
  <2>1. status' = "done" /\ out' = out
    BY <1>5 DEF Finish
  <2>2. Len(out) = Cardinality(AccessTrails) /\ Somewhere(stack', loop_stack', roots_left', out')
    BY <1>1, <1>5, FinishStep
  <2>3. AllMade'
    BY <2>1, <2>2, SameTrails DEF AllMade
  <2> QED BY <1>3, <2>1, <2>2, <2>3
<1>6. CASE VisitScalar
  <2>1. status' = status
    BY <1>6 DEF VisitScalar
  <2> QED BY <1>1, <1>2, <1>3, <1>6, <2>1, ScalarStep
<1>7. CASE VisitArray
  <2>1. \/ Somewhere(stack', loop_stack', roots_left', out') /\ status' = status
        \/ /\ Somewhere(stack', loop_stack', roots_left', out')
           /\ \E t \in AccessTrails : LET a == AccessOf(t)
                                      IN  ~Resolves(LayoutOf(a.object_name), a.path, program.structs)
    BY <1>1, <1>7, ArrayStep
  <2>2. status' # status => Refused
    BY <2>1 DEF Refused
  <2> QED BY <1>2, <1>3, <1>7, <2>1, <2>2 DEF VisitArray, Throw
<1>8. CASE VisitLoop
  <2>1. status' = status
    BY <1>8 DEF VisitLoop
  <2> QED BY <1>1, <1>2, <1>3, <1>8, <2>1, LoopStep
<1>9. CASE NextIteration
  <2>1. status' = status
    BY <1>9 DEF NextIteration
  <2> QED BY <1>1, <1>2, <1>3, <1>9, <2>1, IterationStep
<1>10. CASE VisitCall
  BY <1>1, <1>2, <1>3, <1>10, CallStep
<1>11. CASE Return
  <2>1. status' = status
    BY <1>11 DEF Return
  <2> QED BY <1>1, <1>2, <1>3, <1>11, <2>1, ReturnStep
<1> QED BY <1>4, <1>5, <1>6, <1>7, <1>8, <1>9, <1>10, <1>11 DEF BuilderStep

\* Loading and building go from place to place.
LEMMA ExecutedStep ==
  ASSUME Unrolled, Executed,
         \/ Load
         \/ BuilderStep /\ UNCHANGED document
         \/ UNCHANGED <<document, stack, loop_stack, roots_left, out>> /\ status' = status
         \/ UNCHANGED <<document, stack, loop_stack, roots_left, out>> /\ status = "done" /\ status' = "failed"
  PROVE  /\ Executed'
         /\ BuilderStep /\ status' = "failed" /\ Loads(document) /\ ProgramIsScoped => Refused
<1>1. /\ document' = document /\ document \in Documents
      /\ Loads(document)' <=> Loads(document)
      /\ ProgramIsScoped' <=> ProgramIsScoped
  <2>1. document' = document
    BY DEF Load
  <2>2. Loads(document)' <=> Loads(document)
    BY <2>1, Zenon DEF Loads, Structs, Objects, ValueOr
  <2> QED BY <2>1, <2>2, SameTrails DEF Executed
<1>2. ASSUME Load, Loads(document) PROVE Executed'
  <2>1. /\ status = "loading" /\ status' = "running" /\ stack' = stack /\ loop_stack' = loop_stack /\ out' = out
        /\ roots_left' = load_program_string(document).roots
    BY <1>2 DEF Load, Begin
  <2>2. roots_left' = RootsFrom(document.functions)[1]
    BY <2>1 DEF load_program_string
  <2>3. ASSUME ProgramIsScoped PROVE InPlace'
    <3>1. stack' = << >> /\ loop_stack' = << >> /\ out' = << >>
      BY <1>2, <2>1, <2>3 DEF Executed
    <3>2. Somewhere(<< >>, << >>, RootsFrom(document.functions)[1], << >>)
      BY <1>1, <1>2, AtStart DEF Loadable
    <3> DEFINE rl == RootsFrom(document.functions)[1]
    <3>3. roots_left' = rl /\ Somewhere(<< >>, << >>, rl, << >>)
      BY <2>2, <3>2
    <3> HIDE DEF rl
    <3>4. Somewhere(stack', loop_stack', roots_left', out')
      BY <3>1, <3>3
    <3> QED BY <1>1, <3>4, PlaceReached
  <2> QED BY <1>1, <1>2, <2>1, <2>3 DEF Executed
<1>3. ASSUME Load, ~ Loads(document) PROVE Executed'
  BY <1>1, <1>3 DEF Executed, Load, Throw
<1>4. ASSUME BuilderStep, document' = document
      PROVE  Executed' /\ (status' = "failed" /\ Loads(document) /\ ProgramIsScoped => Refused)
  <2>1. program' = program /\ status = "running" /\ status' \in {"running", "done", "failed"}
    BY <1>4, StepsKeepProgram
  <2>2. Ready /\ Loads(document)
    BY <2>1 DEF Unrolled, Ready
  <2>3. ASSUME ProgramIsScoped
        PROVE  InPlace' /\ (status' = "done" => AllMade') /\ (status' = "failed" => Refused)
    BY <1>1, <1>4, <2>1, <2>2, <2>3, BuilderMoves DEF Executed, Loadable
  <2> QED BY <1>1, <2>1, <2>2, <2>3 DEF Executed
<1>5. ASSUME UNCHANGED <<document, stack, loop_stack, roots_left, out>>,
             status' = status \/ (status = "done" /\ status' = "failed")
      PROVE  Executed'
  BY <1>1, <1>5, PlaceKept DEF Executed
<1>6. BuilderStep => ~ (Load \/ (status' = status /\ status' = "failed"))
                       /\ ~ (status = "done" /\ status' = "failed")
  BY StepsKeepProgram DEF Load, Begin, Throw
<1> QED BY <1>2, <1>3, <1>4, <1>5, <1>6 DEF Load

\* What is recorded at a place is as written.
LEMMA RecordedAsWritten ==
  ASSUME InPlace
  PROVE  /\ IsArray(out)
         /\ \A k \in DOMAIN out : \E t \in AccessTrails :
              Cardinality({u \in AccessTrails : Before(u, t)}) = k - 1 /\ Accesses(out)[k] = AccessOf(t)
<1>1. PICK Q, a : AtNode(Q, a, stack, loop_stack, roots_left, out)
  BY DEF InPlace, Somewhere
<1> QED BY <1>1 DEF AtNode, Recorded

\* An execution that ends early ends at an access to what no layout has.
Rejected == status = "failed" /\ Loads(document) /\ ProgramIsScoped => Refused

\* Refused stays, where nothing is loaded anew.
LEMMA RefusedKept ==
  ASSUME document' = document, program' = program
  PROVE  Refused => Refused'
<1> SUFFICES ASSUME Refused PROVE Refused'
  OBVIOUS
<1>1. PICK t \in AccessTrails : ~ Resolves(LayoutOf(AccessOf(t).object_name), AccessOf(t).path, program.structs)
  BY DEF Refused
<1>2. t \in AccessTrails'
  BY <1>1, SameTrails
<1> DEFINE id == AccessOf(t).object_name
<1>3. LayoutOf(id)' = LayoutOf(id)
  BY DEF LayoutOf
<1> QED BY <1>1, <1>2, <1>3 DEF Refused

\* The events are as written where an execution is.
LEMMA ExecutedIsWritten ==
  ASSUME Unrolled, Executed, Rejected
  PROVE  EventsAsWritten
<1>1. CASE ~ Loads(document)
  BY <1>1 DEF Executed, EventsAsWritten
<1>2. CASE Loads(document) /\ ~ ProgramIsScoped
  BY <1>2 DEF EventsAsWritten
<1>3. CASE Loads(document) /\ ProgramIsScoped
  <2>1. \A k \in DOMAIN out : \E t \in AccessTrails :
              Cardinality({u \in AccessTrails : Before(u, t)}) = k - 1 /\ Accesses(out)[k] = AccessOf(t)
    <3>1. CASE status = "loading"
      BY <1>3, <3>1 DEF Executed
    <3>2. CASE status # "loading"
      BY <1>3, <3>2, RecordedAsWritten DEF Executed
    <3> QED BY <3>1, <3>2
  <2>2. status = "done" => Len(out) = Cardinality(AccessTrails)
    BY <1>3 DEF Executed, AllMade
  <2>3. status = "failed" => \E t \in AccessTrails :
              ~ Resolves(LayoutOf(AccessOf(t).object_name), AccessOf(t).path, program.structs)
    BY <1>3 DEF Rejected, Refused
  <2> QED BY <1>3, <2>1, <2>2, <2>3, Zenon DEF EventsAsWritten
<1> QED BY <1>1, <1>2, <1>3

\* Before anything is loaded nothing is built.
LEMMA NothingUnrolled ==
  ASSUME program = NoProgram, stack = << >>, out = << >>, status = "loading"
  PROVE  Unrolled
<1>1. DocumentStack(<< >>) /\ IsArray(<< >>) /\ DOMAIN << >> = {}
  BY DEF DocumentStack, IsArray
<1>2. BuiltFrom(program.functions, program.objects, program.structs, stack, out)
  BY <1>1 DEF BuiltFrom, NoProgram
<1> QED BY <1>2 DEF Unrolled, Built

\* A document is unrolled into the accesses its text means, in their order and to the
\* last (parse_node_v2, visit_v2).
THEOREM EventsAreAsWritten == LoaderSpec => []EventsAsWritten
<1> DEFINE Inv == Unrolled /\ Executed /\ Rejected
<1>1. LoaderInit => Inv
  <2> SUFFICES ASSUME LoaderInit PROVE Inv
    OBVIOUS
  <2>1. /\ document \in Documents /\ program = NoProgram /\ status = "loading"
        /\ stack = << >> /\ loop_stack = << >> /\ out = << >>
    BY DEF LoaderInit, BuilderInit
  <2>2. Unrolled
    BY <2>1, NothingUnrolled
  <2> QED BY <2>1, <2>2 DEF Executed, Rejected
<1>2. Inv /\ [LoaderNext]_loaderVars => Inv'
  <2> SUFFICES ASSUME Inv, [LoaderNext]_loaderVars PROVE Inv'
    OBVIOUS
  <2>1. \/ Load
        \/ BuilderStep /\ UNCHANGED document
        \/ UNCHANGED loaderVars
    BY DEF LoaderNext
  <2>2. Unrolled'
    BY <2>1, UnrolledStep DEF Executed
  <2>3. /\ Executed'
        /\ BuilderStep /\ status' = "failed" /\ Loads(document) /\ ProgramIsScoped => Refused
    BY <2>1, ExecutedStep DEF loaderVars, builderVars
  <2>4. /\ document' = document
        /\ Loads(document)' <=> Loads(document)
        /\ ProgramIsScoped' <=> ProgramIsScoped
    <3>1. document' = document
      BY <2>1 DEF Load, loaderVars
    <3> QED BY <3>1, SameTrails, Zenon DEF Loads, Structs, Objects, ValueOr
  <2>5. Rejected'
    <3> SUFFICES ASSUME status' = "failed", Loads(document), ProgramIsScoped PROVE Refused'
      BY <2>4 DEF Rejected
    <3>1. CASE BuilderStep
      BY <2>3, <2>4, <3>1, RefusedKept, StepsKeepProgram
    <3>2. CASE UNCHANGED loaderVars
      <4>1. Refused /\ program' = program
        BY <3>2 DEF Rejected, loaderVars, builderVars
      <4> QED BY <2>4, <4>1, RefusedKept
    <3>3. CASE Load
      BY <3>3 DEF Load, Begin
    <3> QED BY <2>1, <3>1, <3>2, <3>3
  <2> QED BY <2>2, <2>3, <2>5
<1>3. Inv => EventsAsWritten
  BY ExecutedIsWritten
<1> QED BY <1>1, <1>2, <1>3, PTL DEF LoaderSpec

-----------------------------------------------------------------------------
(* Why a run ends early. *)

\* An access that is not of an element of a registered object.
Astray == \E t \in AccessTrails :
            ~ IsRegistered(AccessOf(t).object_name) \/ PlacesOf(AccessOf(t)) = {}

\* All objects are placed before an event is mapped, and only such an access ends a run.
Ended ==
  /\ status = "done" => DOMAIN program.objects \subseteq DOMAIN bases
  /\ status = "failed" /\ Loads(document) /\ ProgramIsScoped => Astray

\* The path of an access is a sequence.
LEMMA AccessPath ==
  ASSUME Loadable, NEW t \in AccessTrails
  PROVE  IsArray(AccessOf(t).path)
<1> DEFINE v == Last(t)
           n == v.node
           path == IF n.type = "Array" THEN ValueOr(n, "access_path", << >>) ELSE << >>
<1>1. /\ Journey(t) /\ Len(t) \in 1 .. Deepest /\ v = t[Len(t)] /\ ~ Open(v)
      /\ n.type \in {"Scalar", "Array"}
  BY AccessJourney DEF AccessTrails
<1>2. GoodVisit(v)
  <2>1. Len(t) \in 1 .. Len(t)
    BY <1>1, DeepestAssumption
  <2> HIDE DEF v
  <2> QED BY <1>1, <2>1 DEF Journey
<1>3. Good(n)
  BY <1>1, <1>2 DEF GoodVisit, Open
<1>4. IsArray(path)
  <2>1. IsArray(<< >>)
    BY DEF IsArray
  <2>2. n.type = "Array" => IsArray(ValueOr(n, "access_path", << >>))
    <3>1. n \in Nodes /\ KeysParse(n)
      BY <1>3, GoodNode DEF Good
    <3> QED BY <3>1, JsonAssumption
  <2> QED BY <2>1, <2>2
<1> DEFINE steps == StepsOf(n, v.scope)
<1>5. DOMAIN steps = DOMAIN path
  BY DEF StepsOf
<1>6. AccessOf(t).path = steps
  BY DEF AccessOf
<1>7. \E k \in Nat : DOMAIN steps = 1 .. k
  <2> HIDE DEF path, steps
  <2>1. path \in Seq(Range(path))
    BY <1>4 DEF IsArray
  <2> QED BY <1>5, <2>1
<1>8. steps = [k \in DOMAIN steps |-> steps[k]]
  BY DEF StepsOf
<1> HIDE DEF steps
<1>9. steps \in Seq(Range(steps))
  <2>1. PICK k \in Nat : DOMAIN steps = 1 .. k
    BY <1>7
  <2>2. \A i \in 1 .. k : steps[i] \in Range(steps)
    BY <2>1 DEF Range
  <2>3. steps \in [1 .. k -> Range(steps)]
    BY <1>8, <2>1, <2>2
  <2> QED BY <2>1, <2>3
<1> QED BY <1>6, <1>9 DEF IsArray

\* An access no layout has is of no element of a registered object.
LEMMA RefusedIsAstray ==
  ASSUME Loadable, Ready, Refused
  PROVE  Astray
<1> DEFINE structs == Structs(document.metadata)
<1>1. PICK t \in AccessTrails : ~ Resolves(LayoutOf(AccessOf(t).object_name), AccessOf(t).path, program.structs)
  BY DEF Refused
<1> DEFINE id   == AccessOf(t).object_name
           path == AccessOf(t).path
<1>2. ASSUME IsRegistered(id), NEW at \in PlacesOf(AccessOf(t)) PROVE FALSE
  <2>1. document \in Documents /\ Loaded
    BY DEF Loadable, Ready, Loaded
  <2>2. DOMAIN program.objects = DOMAIN Objects(document.metadata) /\ program.structs = LayoutsOf(structs)
    BY <2>1, WhatIsLoaded DEF Ready
  <2>3. id \in DOMAIN program.objects
    BY <1>2, <2>2 DEF IsRegistered
  <2>4. program.objects[id] = parse_object_layout(TypeOf(id), DOMAIN structs)
    BY <2>1, <2>3, LoadedObject
  <2>5. LayoutOf(id) = parse_object_layout(TypeOf(id), DOMAIN structs)
    BY <2>3, <2>4 DEF LayoutOf
  <2>6. Typed(TypeOf(id), structs) /\ FieldsTyped(structs)
    <3>1. /\ \A i \in DOMAIN Objects(document.metadata) : Typed(TypeOf(i), structs)
          /\ \A name \in DOMAIN structs : \A field \in Range(structs[name].fields) : Typed(field, structs)
      BY TypesAreTyped DEF Ready, Loadable
    <3>2. FieldsTyped(structs)
      BY <3>1 DEF FieldsTyped, Range
    <3> QED BY <1>2, <3>1, <3>2 DEF IsRegistered
  <2>7. at \in Places(TypeOf(id), path, structs)
    BY <1>2 DEF PlacesOf
  <2>8. IsArray(path)
    BY AccessPath
  <2> HIDE DEF id, path, structs
  <2>9. Resolves(parse_object_layout(TypeOf(id), DOMAIN structs), path, LayoutsOf(structs))
    BY <2>6, <2>7, <2>8, ElementResolves
  <2> QED BY <1>1, <2>2, <2>5, <2>9 DEF id, path
<1>3. IsRegistered(id) => PlacesOf(AccessOf(t)) = {}
  BY <1>2
<1> QED BY <1>3 DEF Astray

\* It stays one.
LEMMA AstrayKept ==
  ASSUME document' = document
  PROVE  Astray => Astray'
<1>1. AccessTrails' = AccessTrails
  BY SameTrails
<1>2. \A id : IsRegistered(id)' <=> IsRegistered(id)
  BY Zenon DEF IsRegistered, Objects, ValueOr
<1>3. \A access : PlacesOf(access)' = PlacesOf(access)
  BY DEF PlacesOf, TypeOf, Structs, ValueOr
<1>4. \A t : /\ IsRegistered(AccessOf(t).object_name)' <=> IsRegistered(AccessOf(t).object_name)
             /\ PlacesOf(AccessOf(t))' = PlacesOf(AccessOf(t))
  BY <1>2, <1>3
<1> QED BY <1>1, <1>4 DEF Astray

\* Every step of a placement keeps Ended.
LEMMA EndedStep ==
  ASSUME Placed, Unrolled, Mapped, Executed, Ended, PlacementNext
  PROVE  Ended'
<1>1. document' = document /\ document \in Documents
  BY DEF PlacementNext, LoadProgram, Load, AddObject, BuildEvents, MapEvent, UnknownObject, loaderVars, Executed
<1>2. /\ Loads(document)' <=> Loads(document)
      /\ ProgramIsScoped' <=> ProgramIsScoped
  BY <1>1, SameTrails, Zenon DEF Loads, Structs, Objects, ValueOr
<1>3. Astray => Astray'
  BY <1>1, AstrayKept
<1>4. CASE LoadProgram
  BY <1>2, <1>4 DEF LoadProgram, Load, Begin, Throw, Ended
<1>5. CASE AddObject
  BY <1>2, <1>3, <1>5 DEF AddObject, Ended, loaderVars, builderVars
<1>6. CASE BuildEvents
  <2>1. Unplaced = {} /\ BuilderStep /\ bases' = bases
    BY <1>6 DEF BuildEvents
  <2>2. program' = program /\ status = "running"
    BY <2>1, StepsKeepProgram
  <2>3. Ready
    BY <2>2 DEF Unrolled
  <2>4. DOMAIN program.objects \subseteq DOMAIN bases
    <3> SUFFICES ASSUME NEW id \in DOMAIN program.objects, id \notin DOMAIN bases PROVE FALSE
      OBVIOUS
    <3>1. id \in DOMAIN Objects(document.metadata)
      BY <1>1, <2>3, WhatIsLoaded DEF Ready
    <3>2. id \in Range(Ids)
      BY <1>1, <2>3, <3>1, PlacementAssumption DEF Ready
    <3>3. PICK k \in DOMAIN Ids : Ids[k] = id
      BY <3>2 DEF Range
    <3> QED BY <2>1, <3>3 DEF Unplaced
  <2>5. status' = "failed" /\ Loads(document) /\ ProgramIsScoped => Refused
    BY <1>1, <2>1, ExecutedStep
  <2>6. status' = "failed" /\ Loads(document) /\ ProgramIsScoped => Astray
    BY <1>1, <2>3, <2>5, RefusedIsAstray DEF Loadable
  <2> QED BY <1>2, <1>3, <2>1, <2>2, <2>4, <2>6 DEF Ended
<1>7. CASE MapEvent
  BY <1>2, <1>3, <1>7 DEF MapEvent, Ended, loaderVars, builderVars
<1>8. CASE UnknownObject
  <2> DEFINE k == Len(lines) + 1
  <2>1. /\ status = "done" /\ Len(lines) < Len(out) /\ out[k].object_name \notin DOMAIN bases
        /\ status' = "failed" /\ program' = program
    BY <1>8 DEF UnknownObject, Mapping, Throw
  <2> SUFFICES ASSUME Loads(document), ProgramIsScoped PROVE Astray
    BY <1>2, <1>3, <2>1 DEF Ended
  <2>2. Ready /\ InPlace
    BY <2>1 DEF Unrolled, Executed
  <2>3. k \in DOMAIN out
    <3>1. lines \in Seq(Range(lines)) /\ out \in Seq(Range(out))
      BY <2>2, RecordedAsWritten DEF Mapped, IsArray
    <3> QED BY <2>1, <3>1
  <2>4. PICK t \in AccessTrails : Accesses(out)[k] = AccessOf(t)
    BY <2>2, <2>3, RecordedAsWritten
  <2>5. AccessOf(t).object_name = out[k].object_name
    <3> DEFINE e == out[k]
               r == AccessOf(t)
    <3>1. r = [f \in DOMAIN e \ {"byte_offset"} |-> e[f]]
      BY <2>3, <2>4 DEF Accesses
    <3>2. "object_name" \in DOMAIN r
      BY DEF AccessOf
    <3> HIDE DEF e, r
    <3>3. r.object_name = e.object_name
      BY <3>1, <3>2
    <3> QED BY <3>3 DEF e, r
  <2>6. ~ IsRegistered(AccessOf(t).object_name)
    <3>1. DOMAIN program.objects = DOMAIN Objects(document.metadata)
      BY <1>1, <2>2, WhatIsLoaded DEF Ready
    <3> QED BY <2>1, <2>5, <3>1 DEF IsRegistered, Ended
  <2> QED BY <2>6 DEF Astray
<1> QED BY <1>4, <1>5, <1>6, <1>7, <1>8 DEF PlacementNext

\* A document whose accesses all are of elements of registered objects is placed and
\* mapped to the end (resolve_offset, base_of, ApLoader).
THEOREM AccessesAreResolved == PlacementSpec => []AccessesResolve
<1> DEFINE Inv == Executed /\ Ended
<1>1. PlacementInit => Inv
  BY DEF PlacementInit, LoaderInit, BuilderInit, Executed, Ended
<1>2. Placed /\ Unrolled /\ Mapped /\ Inv /\ [PlacementNext]_placementVars => Inv'
  <2> SUFFICES ASSUME Placed, Unrolled, Mapped, Inv, [PlacementNext]_placementVars PROVE Inv'
    OBVIOUS
  <2>1. CASE PlacementNext
    <3>1. \/ Load
          \/ BuilderStep /\ UNCHANGED document
          \/ UNCHANGED <<document, stack, loop_stack, roots_left, out>> /\ status' = status
          \/ UNCHANGED <<document, stack, loop_stack, roots_left, out>> /\ status = "done" /\ status' = "failed"
      BY <2>1 DEF PlacementNext, LoadProgram, AddObject, BuildEvents, MapEvent, UnknownObject, Mapping, Throw,
                  loaderVars, builderVars
    <3>2. Executed'
      BY <3>1, ExecutedStep
    <3> QED BY <2>1, <3>2, EndedStep
  <2>2. CASE UNCHANGED placementVars
    <3>1. UNCHANGED <<document, stack, loop_stack, roots_left, out, status, program, bases>>
      BY <2>2 DEF placementVars, loaderVars, builderVars
    <3>2. Executed'
      BY <3>1, ExecutedStep
    <3>3. /\ Loads(document)' <=> Loads(document)
          /\ ProgramIsScoped' <=> ProgramIsScoped
      BY <3>1, SameTrails, Zenon DEF Loads, Structs, Objects, ValueOr
    <3>4. Astray => Astray'
      BY <3>1, AstrayKept
    <3> QED BY <3>1, <3>2, <3>3, <3>4 DEF Ended
  <2> QED BY <2>1, <2>2
<1>3. Inv => AccessesResolve
  BY Zenon DEF Ended, Astray, AccessesResolve
<1> QED BY <1>1, <1>2, <1>3, PlacedAlways, UnrolledAlways, MappedAlways, PTL DEF PlacementSpec

-----------------------------------------------------------------------------
(* The loops of a document. *)

\* The nodes there may be in a program.
LoadedNodes == {parse_node_v2[j] : j \in {n \in Nodes : Good(n)}}

\* A list from a document is one of them.
LEMMA ListOfNodes ==
  ASSUME NEW list, FromDocument(list)
  PROVE  list \in Seq(LoadedNodes)
<1>1. Range(list) \subseteq LoadedNodes
  BY DEF FromDocument, LoadedNodes, Range, Good
<1>2. list \in Seq(Range(list))
  BY DEF FromDocument, IsArray
<1> QED BY <1>1, <1>2

\* A loop that is loaded runs from a number to a number, over nodes that are loaded.
LEMMA LoadedLoop ==
  ASSUME NEW n \in LoadedNodes, n.kind = "Loop"
  PROVE  n.start \in Int /\ n.bound \in Int /\ n.body \in Seq(LoadedNodes)
<1>1. PICK j : Good(j) /\ n = parse_node_v2[j]
  BY DEF LoadedNodes
<1>2. j.type = "Loop" /\ FromDocument(n.body)
  BY <1>1, NodeFrom
<1>3. j \in Nodes /\ KeysParse(j) /\ n = NodeOf(j, ParsedList(Body(j)))
  BY <1>1, GoodNode DEF Good
<1>4. n.start = j.start /\ n.bound = j.bound
  BY <1>2, <1>3 DEF NodeOf
<1>5. {j.start, j.bound} \subseteq Int
  BY <1>2, <1>3, JsonAssumption
<1> QED BY <1>2, <1>4, <1>5, ListOfNodes

\* A step of the loader is one of the builder alone, for the document's program.
LEMMA LoaderNests ==
  ASSUME document \in Documents, BuilderInv(LoadedNodes), [LoaderNext]_loaderVars
  PROVE  BuilderInv(LoadedNodes)'
<1>1. PICK Programs : Programs = IF Loads(document) THEN {load_program_string(document)} ELSE {}
  OBVIOUS
<1>2. ProgramsOf(LoadedNodes, Programs)
  <2>1. ASSUME NEW p \in Programs, NEW f \in DOMAIN p.functions PROVE p.functions[f] \in Seq(LoadedNodes)
    <3>1. Loads(document) /\ p = load_program_string(document)
      BY <1>1
    <3>2. FromDocument(p.functions[f])
      BY <3>1, WhatIsLoaded
    <3> QED BY <3>2, ListOfNodes
  <2> QED BY <2>1, LoadedLoop DEF ProgramsOf
<1>3. [BuilderNext(Programs)]_builderVars
  <2>1. CASE Load
    <3>1. CASE Loads(document)
      <4> DEFINE p == load_program_string(document)
      <4>1. p \in Programs /\ Begin(p)
        BY <1>1, <2>1, <3>1 DEF Load
      <4> HIDE DEF p
      <4> QED BY <4>1 DEF BuilderNext
    <3>2. CASE ~ Loads(document)
      BY <2>1, <3>2 DEF Load, BuilderNext
    <3> QED BY <3>1, <3>2
  <2>2. CASE BuilderStep
    BY <2>2 DEF BuilderNext
  <2>3. CASE UNCHANGED loaderVars
    BY <2>3 DEF loaderVars
  <2> QED BY <2>1, <2>2, <2>3 DEF LoaderNext
<1> QED BY <1>2, <1>3, BuilderStepInv

\* The loops that are active are those being visited, whatever the document (visit_v2).
THEOREM LoopsOfDocumentsNest == LoaderSpec => []LoopsNest
<1> DEFINE Inv == document \in Documents /\ BuilderInv(LoadedNodes)
<1>1. LoaderInit => Inv
  BY BuilderInitInv DEF LoaderInit
<1>2. Inv /\ [LoaderNext]_loaderVars => Inv'
  <2>1. [LoaderNext]_loaderVars => document' = document
    BY DEF LoaderNext, Load, loaderVars
  <2> QED BY <2>1, LoaderNests
<1>3. Inv => LoopsNest
  BY InvNests
<1> QED BY <1>1, <1>2, <1>3, PTL DEF LoaderSpec
=============================================================================
