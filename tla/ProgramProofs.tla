--------------------------- MODULE ProgramProofs ----------------------------
(***************************************************************************)
(* What is proved of programs, from the document to the line of an access.    *)
(* First the builder alone, for any program: the loops that are active are    *)
(* those being visited.  Then documents: what the loader makes of their nodes  *)
(* and types, where objects are placed, and where the elements that accesses    *)
(* name are.                                                                *)
(***************************************************************************)
EXTENDS Elements, SequenceTheorems, FiniteSetTheorems, WellFoundedInduction, TLAPS

\* Programs of these nodes; a loop runs from a number to a number, over nodes again.
ProgramsOf(NodeSet, Programs) ==
  /\ \A n \in NodeSet : n.kind = "Loop" =>
       n.start \in Int /\ n.bound \in Int /\ n.body \in Seq(NodeSet)
  /\ \A p \in Programs : \A f \in DOMAIN p.functions : p.functions[f] \in Seq(NodeSet)

\* ApLoader's LoaderSpec, but for what the loader computes, and without fairness.
BuilderNext(Programs) ==
  \/ \E p \in Programs : Begin(p)
  \/ status = "loading" /\ Throw
  \/ BuilderStep

BuilderSpec(Programs) == BuilderInit /\ [][BuilderNext(Programs)]_builderVars

-----------------------------------------------------------------------------
(* The inductive invariant. *)

\* A frame has nodes left to visit, and its loop is one of them.
FrameOf(NodeSet, f) ==
  /\ DOMAIN f = {"todo", "path", "bindings", "subst", "loop"}
  /\ f.todo \in Seq(NodeSet)
  /\ f.loop # NoLoop => f.loop \in NodeSet /\ f.loop.kind = "Loop"

\* The frames of loops among the first d.
Loops(fs, d) == {k \in 1..d : fs[k].loop # NoLoop}

\* An iteration the loop has.
Active(iteration, loop) ==
  iteration.var = loop.var /\ iteration.iter \in loop.start .. (loop.bound - 1)

\* The loops of the frames fs, the outermost first, are those of the vector ls.
Nested(fs, ls) ==
  /\ Len(ls) = Cardinality(Loops(fs, Len(fs)))
  /\ \A d \in Loops(fs, Len(fs)) : Active(ls[Cardinality(Loops(fs, d))], fs[d].loop)

\* The stack s, with the innermost frame first, and the vector ls.
Framed(NodeSet, s, ls) ==
  /\ IsArray(s) /\ \A i \in DOMAIN s : FrameOf(NodeSet, s[i])
  /\ Nested(Reverse(s), ls)

\* Functions and frames are of these nodes, and the loops are nested.
BuilderInv(NodeSet) ==
  /\ \A f \in DOMAIN program.functions : program.functions[f] \in Seq(NodeSet)
  /\ IsArray(loop_stack)
  /\ Framed(NodeSet, stack, loop_stack)

-----------------------------------------------------------------------------
(* Frames and loops on paper. *)

\* A sequence over any set is a sequence over its elements.
LEMMA OwnElements ==
  ASSUME NEW S, NEW s \in Seq(S)
  PROVE  IsArray(s)
BY DEF IsArray, Range

\* Reversed, the first element is the last.
LEMMA ReverseHead ==
  ASSUME NEW S, NEW x \in S, NEW s \in Seq(S)
  PROVE  /\ Reverse(<<x>> \o s) = Append(Reverse(s), x)
         /\ Reverse(s) \in Seq(S) /\ Len(Reverse(s)) = Len(s)
<1>1. Reverse(s) \in Seq(S) /\ Len(Reverse(s)) = Len(s)
  <2>1. Reverse(s) \in [1..Len(s) -> S] /\ Len(s) \in Nat
    BY DEF Reverse
  <2> QED BY <2>1
<1> DEFINE n == Len(s)
           t == <<x>> \o s
<1>2. n \in Nat /\ t \in Seq(S) /\ Len(t) = n + 1 /\ t[1] = x /\ \A i \in 1..n : t[i + 1] = s[i]
  OBVIOUS
<1>3. /\ Append(Reverse(s), x) \in Seq(S) /\ Len(Append(Reverse(s), x)) = n + 1
      /\ Append(Reverse(s), x)[n + 1] = x
      /\ \A i \in 1..n : Append(Reverse(s), x)[i] = Reverse(s)[i]
  BY <1>1
<1> HIDE DEF t
<1>4. Reverse(t) \in Seq(S) /\ Len(Reverse(t)) = n + 1
  <2>1. Reverse(t) \in [1..(n + 1) -> S]
    BY <1>2 DEF Reverse
  <2> QED BY <1>2, <2>1
<1>5. Reverse(t)[n + 1] = x
  BY <1>2 DEF Reverse
<1>6. ASSUME NEW i \in 1..n PROVE Reverse(t)[i] = Reverse(s)[i]
  <2>1. Reverse(t)[i] = t[(n + 1 - i) + 1]
    BY <1>2 DEF Reverse
  <2>2. Reverse(s)[i] = s[(n - i) + 1]
    BY <1>2 DEF Reverse
  <2>3. (n - i) + 1 \in 1..n /\ (n + 1 - i) + 1 = ((n - i) + 1) + 1
    BY <1>2
  <2> QED BY <1>2, <2>1, <2>2, <2>3
<1>7. Reverse(t) = Append(Reverse(s), x)
  <2> DEFINE a == Reverse(t)
             b == Append(Reverse(s), x)
  <2>1. a \in Seq(S) /\ b \in Seq(S) /\ Len(a) = n + 1 /\ Len(b) = n + 1
    BY <1>3, <1>4
  <2>2. \A i \in 1..(n + 1) : a[i] = b[i]
    BY <1>2, <1>3, <1>5, <1>6
  <2> HIDE DEF a, b
  <2>3. a = b
    BY <1>2, <2>1, <2>2
  <2> QED BY <2>3 DEF a, b
<1> QED BY <1>1, <1>7 DEF t

\* The loops of the outer frames do not depend on the innermost.
LEMMA LoopsOfOuter ==
  ASSUME NEW F, NEW fs \in Seq(F), NEW g \in F
  PROVE  LET gs == Append(fs, g)
             n  == Len(fs)
         IN  /\ n \in Nat /\ Len(gs) = n + 1 /\ gs[n + 1] = g
             /\ \A d \in 1..n : gs[d] = fs[d]
             /\ \A d \in 0..n : Loops(gs, d) = Loops(fs, d)
             /\ Loops(gs, n + 1) = Loops(fs, n) \cup (IF g.loop # NoLoop THEN {n + 1} ELSE {})
             /\ \A d \in 0..n : IsFiniteSet(Loops(fs, d)) /\ Cardinality(Loops(fs, d)) \in 0..d
<1> DEFINE gs == Append(fs, g)
           n  == Len(fs)
<1>1. n \in Nat /\ Len(gs) = n + 1 /\ gs[n + 1] = g /\ \A d \in 1..n : gs[d] = fs[d]
  OBVIOUS
<1> HIDE DEF gs, n
<1>2. \A d \in 0..n : Loops(gs, d) = Loops(fs, d)
  BY <1>1 DEF Loops
<1>3. Loops(gs, n + 1) = Loops(fs, n) \cup (IF g.loop # NoLoop THEN {n + 1} ELSE {})
  BY <1>1 DEF Loops
<1>4. ASSUME NEW d \in 0..n
      PROVE  IsFiniteSet(Loops(fs, d)) /\ Cardinality(Loops(fs, d)) \in 0..d
  <2>1. d \in Nat
    BY <1>1
  <2>2. IsFiniteSet(1..d) /\ Cardinality(1..d) = d
    BY <2>1, FS_Interval
  <2>3. Loops(fs, d) \subseteq 1..d
    BY DEF Loops
  <2>4. /\ IsFiniteSet(Loops(fs, d)) /\ Cardinality(Loops(fs, d)) <= d
        /\ Cardinality(Loops(fs, d)) \in Nat
    BY <2>2, <2>3, FS_Subset, FS_CardinalityType
  <2> QED BY <2>1, <2>4
<1> QED BY <1>1, <1>2, <1>3, <1>4 DEF gs, n

\* A loop's place in the vector is among those of the frames around it.
LEMMA PlacesOfLoops ==
  ASSUME NEW F, NEW fs \in Seq(F), NEW d \in Loops(fs, Len(fs))
  PROVE  Cardinality(Loops(fs, d)) \in 1..Cardinality(Loops(fs, Len(fs)))
<1> DEFINE n == Len(fs)
<1>1. n \in Nat /\ d \in 1..n /\ fs[d].loop # NoLoop
  BY DEF Loops
<1>2. Loops(fs, d) \subseteq Loops(fs, n) /\ d \in Loops(fs, d)
  BY <1>1 DEF Loops
<1>3. /\ IsFiniteSet(Loops(fs, n)) /\ IsFiniteSet(Loops(fs, d))
      /\ Cardinality(Loops(fs, n)) \in Nat /\ Cardinality(Loops(fs, d)) \in Nat
  <2>1. fs[d] \in F
    BY <1>1
  <2>2. \A k \in 0..n : IsFiniteSet(Loops(fs, k)) /\ Cardinality(Loops(fs, k)) \in 0..k
    BY <2>1, LoopsOfOuter
  <2> QED BY <1>1, <2>2
<1>4. Cardinality(Loops(fs, d)) <= Cardinality(Loops(fs, n))
  BY <1>2, <1>3, FS_Subset
<1>5. Cardinality(Loops(fs, d)) # 0
  BY <1>2, <1>3, FS_EmptySet
<1> QED BY <1>3, <1>4, <1>5

\* The frame of a function body has no part in the loops.
LEMMA BodyNested ==
  ASSUME NEW F, NEW fs \in Seq(F), NEW g \in F, g.loop = NoLoop, NEW ls
  PROVE  Nested(Append(fs, g), ls) <=> Nested(fs, ls)
<1> DEFINE gs == Append(fs, g)
           n  == Len(fs)
<1>1. /\ n \in Nat /\ Len(gs) = n + 1
      /\ \A d \in 1..n : gs[d] = fs[d]
      /\ \A d \in 0..n : Loops(gs, d) = Loops(fs, d)
      /\ Loops(gs, n + 1) = Loops(fs, n) \cup (IF g.loop # NoLoop THEN {n + 1} ELSE {})
  <2>1. /\ n \in Nat /\ Len(gs) = n + 1 /\ gs[n + 1] = g
        /\ \A d \in 1..n : gs[d] = fs[d]
        /\ \A d \in 0..n : Loops(gs, d) = Loops(fs, d)
        /\ Loops(gs, n + 1) = Loops(fs, n) \cup (IF g.loop # NoLoop THEN {n + 1} ELSE {})
        /\ \A d \in 0..n : IsFiniteSet(Loops(fs, d)) /\ Cardinality(Loops(fs, d)) \in 0..d
    BY LoopsOfOuter
  <2> HIDE DEF gs, n
  <2> QED BY <2>1
<1> HIDE DEF gs, n
<1>2. Loops(gs, n + 1) = Loops(fs, n)
  BY <1>1
<1>3. \A d \in Loops(fs, n) : d \in 1..n
  BY DEF Loops
<1>4. \A d \in Loops(fs, n) : gs[d] = fs[d] /\ Loops(gs, d) = Loops(fs, d)
  BY <1>1, <1>3
<1>5. Nested(gs, ls) <=> Nested(fs, ls)
  BY <1>1, <1>2, <1>4 DEF Nested, n
<1> QED BY <1>5 DEF gs

\* Only a frame's loop matters.
LEMMA SameLoopNested ==
  ASSUME NEW F, NEW fs \in Seq(F), NEW f \in F, NEW g \in F, f.loop = g.loop, NEW ls,
         Nested(Append(fs, f), ls)
  PROVE  Nested(Append(fs, g), ls)
<1> DEFINE a == Append(fs, f)
           b == Append(fs, g)
           n == Len(fs)
<1>1. /\ n \in Nat /\ Len(a) = n + 1 /\ Len(b) = n + 1
      /\ \A d \in 1..(n + 1) : a[d].loop = b[d].loop
  OBVIOUS
<1> HIDE DEF a, b, n
<1>2. \A d \in 1..(n + 1) : Loops(a, d) = Loops(b, d)
  BY <1>1 DEF Loops
<1>3. Loops(a, n + 1) = Loops(b, n + 1) /\ \A d \in Loops(b, n + 1) : d \in 1..(n + 1)
  BY <1>1, <1>2 DEF Loops
<1>4. Nested(a, ls)
  BY DEF a
<1>5. Nested(b, ls)
  BY <1>1, <1>2, <1>3, <1>4 DEF Nested
<1> QED BY <1>5 DEF b

\* push_back: a loop is entered, or begins another iteration.
LEMMA PushNested ==
  ASSUME NEW F, NEW fs \in Seq(F), NEW g \in F, g.loop # NoLoop,
         NEW I, NEW ls \in Seq(I), NEW it \in I, Active(it, g.loop), Nested(fs, ls)
  PROVE  Nested(Append(fs, g), Append(ls, it))
<1> DEFINE gs == Append(fs, g)
           n  == Len(fs)
           m  == Len(ls)
           l2 == Append(ls, it)
<1>1. /\ n \in Nat /\ Len(gs) = n + 1 /\ gs[n + 1] = g
      /\ \A d \in 1..n : gs[d] = fs[d]
      /\ \A d \in 0..n : Loops(gs, d) = Loops(fs, d)
      /\ Loops(gs, n + 1) = Loops(fs, n) \cup (IF g.loop # NoLoop THEN {n + 1} ELSE {})
      /\ \A d \in 0..n : IsFiniteSet(Loops(fs, d)) /\ Cardinality(Loops(fs, d)) \in 0..d
  BY LoopsOfOuter
<1>2. m \in Nat /\ Len(l2) = m + 1 /\ l2[m + 1] = it /\ \A k \in 1..m : l2[k] = ls[k]
  OBVIOUS
<1>3. m = Cardinality(Loops(fs, n))
  BY DEF Nested
<1>4. ASSUME NEW d \in Loops(fs, n)
      PROVE  Active(ls[Cardinality(Loops(fs, d))], fs[d].loop) /\ Cardinality(Loops(fs, d)) \in 1..m
  BY <1>3, PlacesOfLoops DEF Nested
<1> HIDE DEF gs, n, m, l2
<1>5. Loops(gs, n + 1) = Loops(fs, n) \cup {n + 1} /\ n + 1 \notin Loops(fs, n)
  BY <1>1 DEF Loops
<1>6. Cardinality(Loops(gs, n + 1)) = m + 1
  <2>1. IsFiniteSet(Loops(fs, n))
    BY <1>1
  <2>2. Cardinality(Loops(fs, n) \cup {n + 1}) = Cardinality(Loops(fs, n)) + 1
    BY <1>5, <2>1, FS_AddElement
  <2> QED BY <1>3, <1>5, <2>2
<1>7. ASSUME NEW d \in Loops(gs, n + 1)
      PROVE  Active(l2[Cardinality(Loops(gs, d))], gs[d].loop)
  <2>1. CASE d = n + 1
    BY <1>1, <1>2, <1>6, <2>1
  <2>2. CASE d \in Loops(fs, n)
    <3>1. d \in 1..n /\ Loops(gs, d) = Loops(fs, d) /\ gs[d] = fs[d]
      BY <1>1, <2>2 DEF Loops
    <3> QED BY <1>2, <1>4, <2>2, <3>1
  <2> QED BY <1>5, <2>1, <2>2
<1>8. Nested(gs, l2)
  BY <1>1, <1>2, <1>6, <1>7 DEF Nested
<1> QED BY <1>8 DEF gs, l2

\* pop_back: the innermost loop's iteration is the last of the vector.
LEMMA PopNested ==
  ASSUME NEW F, NEW fs \in Seq(F), NEW g \in F, g.loop # NoLoop,
         NEW I, NEW ls \in Seq(I), Nested(Append(fs, g), ls)
  PROVE  /\ ls # << >> /\ Last(ls) \in I /\ Active(Last(ls), g.loop)
         /\ Front(ls) \in Seq(I) /\ Nested(fs, Front(ls))
<1> DEFINE gs == Append(fs, g)
           n  == Len(fs)
           m  == Cardinality(Loops(fs, n))
           l2 == Front(ls)
<1>1. /\ n \in Nat /\ Len(gs) = n + 1 /\ gs[n + 1] = g
      /\ \A d \in 1..n : gs[d] = fs[d]
      /\ \A d \in 0..n : Loops(gs, d) = Loops(fs, d)
      /\ Loops(gs, n + 1) = Loops(fs, n) \cup (IF g.loop # NoLoop THEN {n + 1} ELSE {})
      /\ \A d \in 0..n : IsFiniteSet(Loops(fs, d)) /\ Cardinality(Loops(fs, d)) \in 0..d
  BY LoopsOfOuter
<1>2. ASSUME NEW d \in Loops(fs, n)
      PROVE  Cardinality(Loops(fs, d)) \in 1..m
  BY PlacesOfLoops
<1> HIDE DEF gs, n, m
<1>3. Loops(gs, n + 1) = Loops(fs, n) \cup {n + 1} /\ n + 1 \notin Loops(fs, n)
  BY <1>1 DEF Loops
<1>4. m \in Nat /\ Cardinality(Loops(gs, n + 1)) = m + 1
  <2>1. IsFiniteSet(Loops(fs, n)) /\ m \in Nat
    BY <1>1 DEF m
  <2>2. Cardinality(Loops(fs, n) \cup {n + 1}) = Cardinality(Loops(fs, n)) + 1
    BY <1>3, <2>1, FS_AddElement
  <2> QED BY <1>3, <2>1, <2>2 DEF m
<1>5. /\ Len(ls) = m + 1
      /\ \A d \in Loops(gs, n + 1) : Active(ls[Cardinality(Loops(gs, d))], gs[d].loop)
  BY <1>1, <1>4 DEF Nested, gs
<1>6. ls # << >> /\ Last(ls) = ls[m + 1] /\ ls[m + 1] \in I
  BY <1>4, <1>5 DEF Last
<1>7. Active(Last(ls), g.loop)
  <2>1. n + 1 \in Loops(gs, n + 1)
    BY <1>3
  <2>2. Active(ls[Cardinality(Loops(gs, n + 1))], gs[n + 1].loop)
    BY <1>5, <2>1
  <2> QED BY <1>1, <1>4, <1>6, <2>2
<1>8. l2 \in Seq(I) /\ Len(l2) = m /\ \A k \in 1..m : l2[k] = ls[k]
  BY <1>4, <1>5 DEF Front
<1> HIDE DEF l2
<1>9. ASSUME NEW d \in Loops(fs, n)
      PROVE  Active(l2[Cardinality(Loops(fs, d))], fs[d].loop)
  <2>1. d \in 1..n /\ d \in Loops(gs, n + 1)
    BY <1>3 DEF Loops
  <2>2. Active(ls[Cardinality(Loops(fs, d))], fs[d].loop)
    <3>1. Loops(gs, d) = Loops(fs, d) /\ gs[d] = fs[d]
      BY <1>1, <2>1
    <3>2. Active(ls[Cardinality(Loops(gs, d))], gs[d].loop)
      BY <1>5, <2>1
    <3> QED BY <3>1, <3>2
  <2> QED BY <1>2, <1>8, <2>2
<1>10. Nested(fs, l2)
  BY <1>8, <1>9 DEF Nested, n, m
<1> QED BY <1>6, <1>7, <1>8, <1>10 DEF l2

-----------------------------------------------------------------------------
(* The stack and the vector of loops. *)

\* The innermost frame and those around it.
LEMMA FramedTop ==
  ASSUME NEW NodeSet, NEW s, s # << >>, NEW ls, Framed(NodeSet, s, ls)
  PROVE  /\ Tail(s) \in Seq(Range(s)) /\ Head(s) \in Range(s)
         /\ FrameOf(NodeSet, Head(s)) /\ \A i \in DOMAIN Tail(s) : FrameOf(NodeSet, Tail(s)[i])
         /\ Reverse(Tail(s)) \in Seq(Range(s))
         /\ Nested(Append(Reverse(Tail(s)), Head(s)), ls)
<1> DEFINE S == Range(s)
           x == Head(s)
           t == Tail(s)
<1>1. s \in Seq(S) /\ Nested(Reverse(s), ls) /\ \A i \in DOMAIN s : FrameOf(NodeSet, s[i])
  BY DEF Framed, IsArray
<1> HIDE DEF S
<1>2. t \in Seq(S) /\ x \in S /\ s = <<x>> \o t /\ x = s[1] /\ 1 \in DOMAIN s
  BY <1>1
<1>3. \A i \in DOMAIN t : i + 1 \in DOMAIN s /\ t[i] = s[i + 1]
  BY <1>1
<1>4. FrameOf(NodeSet, x) /\ \A i \in DOMAIN t : FrameOf(NodeSet, t[i])
  BY <1>1, <1>2, <1>3
<1> HIDE DEF x, t
<1>5. Reverse(t) \in Seq(S) /\ Reverse(<<x>> \o t) = Append(Reverse(t), x)
  BY <1>2, ReverseHead
<1>6. Nested(Append(Reverse(t), x), ls)
  BY <1>1, <1>2, <1>5
<1> QED BY <1>2, <1>4, <1>5, <1>6 DEF x, t, S

\* A frame put on those of t.
LEMMA FramedPut ==
  ASSUME NEW NodeSet, NEW F, NEW t \in Seq(F), NEW g \in F, NEW ls,
         FrameOf(NodeSet, g), \A i \in DOMAIN t : FrameOf(NodeSet, t[i]),
         Nested(Append(Reverse(t), g), ls)
  PROVE  Framed(NodeSet, <<g>> \o t, ls)
<1> DEFINE s == <<g>> \o t
<1>1. s \in Seq(F) /\ DOMAIN s = 1..(Len(t) + 1) /\ DOMAIN t = 1..Len(t) /\ Len(t) \in Nat
      /\ s[1] = g /\ \A i \in 1..Len(t) : s[i + 1] = t[i]
  OBVIOUS
<1>2. Reverse(s) = Append(Reverse(t), g)
  BY ReverseHead
<1> HIDE DEF s
<1>3. ASSUME NEW i \in DOMAIN s PROVE FrameOf(NodeSet, s[i])
  <2>1. CASE i = 1
    BY <1>1, <2>1
  <2>2. CASE i # 1
    <3>1. i - 1 \in 1..Len(t) /\ s[(i - 1) + 1] = t[i - 1] /\ (i - 1) + 1 = i
      BY <1>1, <1>3, <2>2
    <3> QED BY <1>1, <3>1
  <2> QED BY <2>1, <2>2
<1>4. IsArray(s)
  BY <1>1, OwnElements
<1>5. Framed(NodeSet, s, ls)
  BY <1>2, <1>3, <1>4 DEF Framed
<1> QED BY <1>5 DEF s

\* A frame goes on in another of the same loop.
LEMMA FramedReplace ==
  ASSUME NEW NodeSet, NEW s, s # << >>, NEW ls, Framed(NodeSet, s, ls),
         NEW g, FrameOf(NodeSet, g), g.loop = Head(s).loop
  PROVE  Framed(NodeSet, <<g>> \o Tail(s), ls)
<1> DEFINE F  == Range(s) \cup {g}
           fs == Reverse(Tail(s))
<1>1. /\ Tail(s) \in Seq(Range(s)) /\ Head(s) \in Range(s)
      /\ \A i \in DOMAIN Tail(s) : FrameOf(NodeSet, Tail(s)[i])
      /\ fs \in Seq(Range(s))
      /\ Nested(Append(fs, Head(s)), ls)
  BY FramedTop
<1>2. Tail(s) \in Seq(F) /\ fs \in Seq(F) /\ Head(s) \in F /\ g \in F
  <2> HIDE DEF fs
  <2> QED BY <1>1
<1> HIDE DEF F, fs
<1>3. Nested(Append(fs, g), ls)
  BY <1>1, <1>2, SameLoopNested
<1> QED BY <1>1, <1>2, <1>3, FramedPut DEF fs

\* A function's body is begun.
LEMMA FramedBody ==
  ASSUME NEW NodeSet, NEW s, NEW ls, Framed(NodeSet, s, ls),
         NEW g, FrameOf(NodeSet, g), g.loop = NoLoop
  PROVE  Framed(NodeSet, <<g>> \o s, ls)
<1> DEFINE F == Range(s) \cup {g}
<1>1. s \in Seq(F) /\ g \in F
  BY DEF Framed, IsArray
<1> HIDE DEF F
<1>2. Reverse(s) \in Seq(F) /\ Nested(Reverse(s), ls) /\ \A i \in DOMAIN s : FrameOf(NodeSet, s[i])
  BY <1>1, ReverseHead DEF Framed
<1>3. Nested(Append(Reverse(s), g), ls)
  BY <1>1, <1>2, BodyNested
<1> QED BY <1>1, <1>2, <1>3, FramedPut

\* A function returns.
LEMMA FramedReturn ==
  ASSUME NEW NodeSet, NEW s, s # << >>, NEW ls, Framed(NodeSet, s, ls), Head(s).loop = NoLoop
  PROVE  Framed(NodeSet, Tail(s), ls)
<1> DEFINE fs == Reverse(Tail(s))
<1>1. /\ Tail(s) \in Seq(Range(s)) /\ Head(s) \in Range(s)
      /\ \A i \in DOMAIN Tail(s) : FrameOf(NodeSet, Tail(s)[i])
      /\ fs \in Seq(Range(s))
      /\ Nested(Append(fs, Head(s)), ls)
  BY FramedTop
<1> HIDE DEF fs
<1>2. Nested(fs, ls)
  BY <1>1, BodyNested
<1>3. IsArray(Tail(s))
  BY <1>1, OwnElements
<1> QED BY <1>1, <1>2, <1>3 DEF Framed, fs

\* An iteration begins.
LEMMA FramedLoop ==
  ASSUME NEW NodeSet, NEW s, NEW ls, Framed(NodeSet, s, ls), IsArray(ls),
         NEW g, FrameOf(NodeSet, g), g.loop # NoLoop, NEW it, Active(it, g.loop)
  PROVE  Framed(NodeSet, <<g>> \o s, Append(ls, it)) /\ IsArray(Append(ls, it))
<1> DEFINE F == Range(s) \cup {g}
           I == Range(ls) \cup {it}
<1>1. s \in Seq(F) /\ g \in F /\ ls \in Seq(I) /\ it \in I /\ Append(ls, it) \in Seq(I)
  BY DEF Framed, IsArray
<1> HIDE DEF F, I
<1>2. Reverse(s) \in Seq(F) /\ Nested(Reverse(s), ls) /\ \A i \in DOMAIN s : FrameOf(NodeSet, s[i])
  BY <1>1, ReverseHead DEF Framed
<1>3. Nested(Append(Reverse(s), g), Append(ls, it))
  BY <1>1, <1>2, PushNested
<1>4. IsArray(Append(ls, it))
  BY <1>1, OwnElements
<1> QED BY <1>1, <1>2, <1>3, <1>4, FramedPut

\* An iteration ends.
LEMMA FramedEnd ==
  ASSUME NEW NodeSet, NEW s, s # << >>, NEW ls, Framed(NodeSet, s, ls), IsArray(ls),
         Head(s).loop # NoLoop
  PROVE  /\ Active(Last(ls), Head(s).loop)
         /\ IsArray(Front(ls)) /\ Framed(NodeSet, Tail(s), Front(ls))
<1> DEFINE fs == Reverse(Tail(s))
<1>1. /\ Tail(s) \in Seq(Range(s)) /\ Head(s) \in Range(s)
      /\ \A i \in DOMAIN Tail(s) : FrameOf(NodeSet, Tail(s)[i])
      /\ fs \in Seq(Range(s))
      /\ Nested(Append(fs, Head(s)), ls)
  BY FramedTop
<1>2. ls \in Seq(Range(ls))
  BY DEF IsArray
<1> HIDE DEF fs
<1>3. Active(Last(ls), Head(s).loop) /\ Front(ls) \in Seq(Range(ls)) /\ Nested(fs, Front(ls))
  BY <1>1, <1>2, PopNested
<1>4. IsArray(Front(ls)) /\ IsArray(Tail(s))
  BY <1>1, <1>3, OwnElements
<1> QED BY <1>1, <1>3, <1>4 DEF Framed, fs

-----------------------------------------------------------------------------
(* The builder. *)

\* Nothing is visited yet.
LEMMA BuilderInitInv ==
  ASSUME NEW NodeSet, BuilderInit
  PROVE  BuilderInv(NodeSet)
<1>1. stack = << >> /\ loop_stack = << >> /\ DOMAIN program.functions = {}
  BY DEF BuilderInit, NoProgram
<1>2. IsArray(<< >>)
  <2>1. << >> \in Seq({})
    OBVIOUS
  <2> QED BY <2>1, OwnElements
<1>3. Reverse(<< >>) = << >>
  BY DEF Reverse
<1>4. Loops(<< >>, 0) = {} /\ Len(<< >>) = 0
  BY DEF Loops
<1>5. Nested(<< >>, << >>)
  BY <1>4, FS_EmptySet DEF Nested
<1> QED BY <1>1, <1>2, <1>3, <1>5 DEF BuilderInv, Framed

\* A node visited leaves a frame of the same loop.
LEMMA VisitedFramed ==
  ASSUME NEW NodeSet, BuilderInv(NodeSet), stack # << >>, top.todo # << >>
  PROVE  /\ Framed(NodeSet, Visited, loop_stack)
         /\ node \in NodeSet
         /\ FrameOf(NodeSet, top)
<1>1. Framed(NodeSet, stack, loop_stack)
  BY DEF BuilderInv
<1>2. FrameOf(NodeSet, top)
  BY <1>1, FramedTop DEF top
<1> DEFINE g == [top EXCEPT !.todo = Tail(@)]
<1>3. FrameOf(NodeSet, g) /\ g.loop = top.loop /\ node \in NodeSet
  BY <1>2 DEF FrameOf, node
<1>4. Visited = <<g>> \o Tail(stack)
  BY DEF Visited
<1> HIDE DEF g
<1>5. Framed(NodeSet, <<g>> \o Tail(stack), loop_stack)
  BY <1>1, <1>3, FramedReplace DEF top
<1> QED BY <1>2, <1>3, <1>4, <1>5

\* Every step keeps the loops nested.
LEMMA BuilderStepInv ==
  ASSUME NEW NodeSet, NEW Programs, ProgramsOf(NodeSet, Programs), BuilderInv(NodeSet),
         [BuilderNext(Programs)]_builderVars
  PROVE  BuilderInv(NodeSet)'
<1>1. /\ \A f \in DOMAIN program.functions : program.functions[f] \in Seq(NodeSet)
      /\ IsArray(loop_stack) /\ Framed(NodeSet, stack, loop_stack)
  BY DEF BuilderInv
<1>2. ASSUME program' = program, IsArray(loop_stack'), Framed(NodeSet, stack', loop_stack')
      PROVE  BuilderInv(NodeSet)'
  BY <1>1, <1>2 DEF BuilderInv
<1>3. CASE UNCHANGED builderVars
  BY <1>1, <1>2, <1>3 DEF builderVars
<1>4. ASSUME NEW p \in Programs, Begin(p) PROVE BuilderInv(NodeSet)'
  <2>1. program' = p /\ stack' = stack /\ loop_stack' = loop_stack
    BY <1>4 DEF Begin
  <2>2. \A f \in DOMAIN p.functions : p.functions[f] \in Seq(NodeSet)
    BY DEF ProgramsOf
  <2> QED BY <1>1, <2>1, <2>2 DEF BuilderInv
<1>5. ASSUME Throw PROVE BuilderInv(NodeSet)'
  BY <1>1, <1>2, <1>5 DEF Throw
<1>6. ASSUME VisitRoot PROVE BuilderInv(NodeSet)'
  <2> DEFINE root == Head(roots_left)
             g    == FunctionFrame(program.functions[root], <<root>>, << >>, << >>)
  <2>1. program' = program /\ loop_stack' = loop_stack /\ stack = << >>
        /\ stack' = IF root \in DOMAIN program.functions THEN <<g>> ELSE << >>
    BY <1>6 DEF VisitRoot
  <2>2. CASE root \in DOMAIN program.functions
    <3>1. FrameOf(NodeSet, g) /\ g.loop = NoLoop
      BY <1>1, <2>2 DEF FunctionFrame, FrameOf
    <3>2. <<g>> = <<g>> \o << >>
      OBVIOUS
    <3> HIDE DEF g
    <3>3. Framed(NodeSet, <<g>> \o stack, loop_stack)
      BY <1>1, <3>1, FramedBody
    <3>4. stack' = <<g>> \o stack
      BY <2>1, <2>2, <3>2
    <3> QED BY <1>1, <1>2, <2>1, <3>3, <3>4
  <2>3. CASE root \notin DOMAIN program.functions
    BY <1>1, <1>2, <2>1, <2>3
  <2> QED BY <2>2, <2>3
<1>7. ASSUME Finish PROVE BuilderInv(NodeSet)'
  BY <1>1, <1>2, <1>7 DEF Finish
<1>8. ASSUME VisitScalar PROVE BuilderInv(NodeSet)'
  <2>1. /\ stack # << >> /\ top.todo # << >>
        /\ program' = program /\ loop_stack' = loop_stack /\ stack' = Visited
    BY <1>8 DEF VisitScalar, Visiting
  <2>2. Framed(NodeSet, Visited, loop_stack)
    BY <2>1, VisitedFramed
  <2> QED BY <1>1, <1>2, <2>1, <2>2
<1>9. ASSUME VisitArray PROVE BuilderInv(NodeSet)'
  <2>1. CASE Throw
    BY <1>5, <2>1
  <2>2. CASE ~Throw
    <3>1. /\ stack # << >> /\ top.todo # << >>
          /\ program' = program /\ loop_stack' = loop_stack /\ stack' = Visited
      BY <1>9, <2>2 DEF VisitArray, Visiting
    <3>2. Framed(NodeSet, Visited, loop_stack)
      BY <3>1, VisitedFramed
    <3> QED BY <1>1, <1>2, <3>1, <3>2
  <2> QED BY <2>1, <2>2
<1>10. ASSUME VisitLoop PROVE BuilderInv(NodeSet)'
  <2> DEFINE g  == [top EXCEPT !.todo = node.body, !.loop = node]
             it == [var |-> node.var, iter |-> node.start]
  <2>1. /\ stack # << >> /\ top.todo # << >> /\ node.kind = "Loop" /\ program' = program
        /\ IF node.start < node.bound
           THEN stack' = <<g>> \o Visited /\ loop_stack' = Append(loop_stack, it)
           ELSE stack' = Visited /\ loop_stack' = loop_stack
    BY <1>10 DEF VisitLoop, Visiting
  <2>2. Framed(NodeSet, Visited, loop_stack) /\ node \in NodeSet /\ FrameOf(NodeSet, top)
    BY <2>1, VisitedFramed
  <2>3. node.start \in Int /\ node.bound \in Int /\ node.body \in Seq(NodeSet)
    BY <2>1, <2>2 DEF ProgramsOf
  <2>4. CASE node.start < node.bound
    <3>1. node # NoLoop
      BY <2>1 DEF NoLoop
    <3>2. FrameOf(NodeSet, g) /\ g.loop = node
      BY <2>1, <2>2, <2>3 DEF FrameOf
    <3>3. Active(it, node)
      BY <2>3, <2>4 DEF Active
    <3> HIDE DEF g, it
    <3>4. /\ Framed(NodeSet, <<g>> \o Visited, Append(loop_stack, it))
          /\ IsArray(Append(loop_stack, it))
      BY <1>1, <2>2, <3>1, <3>2, <3>3, FramedLoop
    <3> QED BY <1>2, <2>1, <2>4, <3>4
  <2>5. CASE ~(node.start < node.bound)
    BY <1>1, <1>2, <2>1, <2>2, <2>5
  <2> QED BY <2>4, <2>5
<1>11. ASSUME NextIteration PROVE BuilderInv(NodeSet)'
  <2> DEFINE iter == Last(loop_stack).iter + 1
             it   == [var |-> top.loop.var, iter |-> iter]
             g    == [top EXCEPT !.todo = top.loop.body]
  <2>1. /\ stack # << >> /\ top.loop # NoLoop /\ program' = program
        /\ IF iter < top.loop.bound
           THEN stack' = <<g>> \o Tail(stack) /\ loop_stack' = Append(Front(loop_stack), it)
           ELSE stack' = Tail(stack) /\ loop_stack' = Front(loop_stack)
    BY <1>11 DEF NextIteration
  <2>2. /\ Active(Last(loop_stack), top.loop)
        /\ IsArray(Front(loop_stack)) /\ Framed(NodeSet, Tail(stack), Front(loop_stack))
    BY <1>1, <2>1, FramedEnd DEF top
  <2>3. FrameOf(NodeSet, top)
    BY <1>1, <2>1, FramedTop DEF top
  <2>4. top.loop.start \in Int /\ top.loop.bound \in Int /\ top.loop.body \in Seq(NodeSet)
    BY <2>1, <2>3 DEF ProgramsOf, FrameOf
  <2>5. CASE iter < top.loop.bound
    <3>1. FrameOf(NodeSet, g) /\ g.loop = top.loop
      BY <2>3, <2>4 DEF FrameOf
    <3>2. Active(it, top.loop)
      BY <2>2, <2>4, <2>5 DEF Active
    <3> HIDE DEF g, it
    <3>3. /\ Framed(NodeSet, <<g>> \o Tail(stack), Append(Front(loop_stack), it))
          /\ IsArray(Append(Front(loop_stack), it))
      BY <2>1, <2>2, <3>1, <3>2, FramedLoop
    <3> QED BY <1>2, <2>1, <2>5, <3>3
  <2>6. CASE ~(iter < top.loop.bound)
    BY <1>2, <2>1, <2>2, <2>6
  <2> QED BY <2>5, <2>6
<1>12. ASSUME VisitCall PROVE BuilderInv(NodeSet)'
  <2> DEFINE vars == Vars(loop_stack, top.bindings)
             g    == FunctionFrame(program.functions[node.callee], Append(top.path, node.callee),
                                   CalleeBindings(node, top.subst, vars),
                                   CalleeSubst(node, top.subst))
  <2>1. stack # << >> /\ top.todo # << >>
    BY <1>12 DEF VisitCall, Visiting
  <2>2. Framed(NodeSet, Visited, loop_stack)
    BY <2>1, VisitedFramed
  <2>3. CASE Throw
    BY <1>5, <2>3
  <2>4. CASE node.callee \notin DOMAIN program.functions
    <3>1. program' = program /\ loop_stack' = loop_stack /\ stack' = Visited
      BY <1>12, <2>4 DEF VisitCall
    <3> QED BY <1>1, <1>2, <2>2, <3>1
  <2>5. CASE ~Throw /\ node.callee \in DOMAIN program.functions
    <3>1. program' = program /\ loop_stack' = loop_stack /\ stack' = <<g>> \o Visited
      BY <1>12, <2>5 DEF VisitCall
    <3>2. FrameOf(NodeSet, g) /\ g.loop = NoLoop
      BY <1>1, <2>5 DEF FunctionFrame, FrameOf
    <3> HIDE DEF g
    <3>3. Framed(NodeSet, <<g>> \o Visited, loop_stack)
      BY <2>2, <3>2, FramedBody
    <3> QED BY <1>1, <1>2, <3>1, <3>3
  <2> QED BY <2>3, <2>4, <2>5
<1>13. ASSUME Return PROVE BuilderInv(NodeSet)'
  <2>1. /\ stack # << >> /\ top.loop = NoLoop /\ program' = program
        /\ loop_stack' = loop_stack /\ stack' = Tail(stack)
    BY <1>13 DEF Return
  <2>2. Framed(NodeSet, Tail(stack), loop_stack)
    BY <1>1, <2>1, FramedReturn DEF top
  <2> QED BY <1>1, <1>2, <2>1, <2>2
<1> QED BY <1>3, <1>4, <1>5, <1>6, <1>7, <1>8, <1>9, <1>10, <1>11, <1>12, <1>13
        DEF BuilderNext, BuilderStep

\* The invariant is LoopsNest of the builder's stack, and more.
LEMMA InvNests ==
  ASSUME NEW NodeSet, BuilderInv(NodeSet)
  PROVE  LoopsNest /\ (stack = << >> => loop_stack = << >>)
<1>1. stack \in Seq(Range(stack)) /\ Nested(Reverse(stack), loop_stack)
  BY DEF BuilderInv, Framed, IsArray
<1>2. Len(Reverse(stack)) = Len(stack)
  BY <1>1, ReverseHead DEF Reverse
<1>3. LoopsNest
  BY <1>1, <1>2 DEF LoopsNest, Nested, Frames, LoopsAmong, Loops, Active
<1>4. ASSUME stack = << >> PROVE loop_stack = << >>
  <2>1. Loops(Reverse(stack), Len(Reverse(stack))) = {}
    BY <1>2, <1>4 DEF Loops
  <2>2. Len(loop_stack) = 0
    BY <1>1, <2>1, FS_EmptySet DEF Nested
  <2>3. loop_stack \in Seq(Range(loop_stack))
    BY DEF BuilderInv, IsArray
  <2> QED BY <2>2, <2>3
<1> QED BY <1>3, <1>4

\* visit_v2 keeps the shared vector of loops that of the loops it is in, each in an
\* iteration the loop has, in every program, recursive ones included.
THEOREM LoopsAlwaysNest ==
  ASSUME NEW NodeSet, NEW Programs, ProgramsOf(NodeSet, Programs)
  PROVE  BuilderSpec(Programs) => []LoopsNest
<1>1. BuilderInit => BuilderInv(NodeSet)
  BY BuilderInitInv
<1>2. BuilderInv(NodeSet) /\ [BuilderNext(Programs)]_builderVars => BuilderInv(NodeSet)'
  BY BuilderStepInv
<1>3. BuilderInv(NodeSet) => LoopsNest
  BY InvNests
<1> QED BY <1>1, <1>2, <1>3, PTL DEF BuilderSpec

\* build_program begins every root, and returns, with no loop active.
THEOREM NoLoopIsLeft ==
  ASSUME NEW NodeSet, NEW Programs, ProgramsOf(NodeSet, Programs)
  PROVE  BuilderSpec(Programs) => [](stack = << >> => loop_stack = << >>)
<1>1. BuilderInit => BuilderInv(NodeSet)
  BY BuilderInitInv
<1>2. BuilderInv(NodeSet) /\ [BuilderNext(Programs)]_builderVars => BuilderInv(NodeSet)'
  BY BuilderStepInv
<1>3. BuilderInv(NodeSet) => (stack = << >> => loop_stack = << >>)
  BY InvNests
<1> QED BY <1>1, <1>2, <1>3, PTL DEF BuilderSpec

-----------------------------------------------------------------------------
(* Numbers and sequences. *)

\* A set of natural numbers has a least one.
LEMMA LeastNatural ==
  ASSUME NEW T, T \subseteq Nat, T # {}
  PROVE  \E x \in T : \A y \in T : x <= y
<1> DEFINE R == {ss \in Nat \X Nat : ss[1] < ss[2]}
<1>1. IsWellFoundedOn(R, Nat)
  BY NatLessThanWellFounded DEF OpToRel
<1>2. R = {ss \in Nat \X Nat : ss[1] < ss[2]}
  OBVIOUS
<1> HIDE DEF R
<1>3. PICK x \in T : \A y \in T : ~ (<<y, x>> \in R)
  BY <1>1, WFMin
<1>4. ASSUME NEW y \in T
      PROVE  x <= y
  <2>1. x \in Nat /\ y \in Nat
    OBVIOUS
  <2>2. ~ (y < x)
    BY <1>2, <1>3, <2>1
  <2> QED BY <2>1, <2>2
<1> QED BY <1>3, <1>4

\* Induction, over a set of numbers.
LEMMA AllNumbers ==
  ASSUME NEW S, 0 \in S, \A n \in Nat : n \in S => n + 1 \in S
  PROVE  \A n \in Nat : n \in S
<1> SUFFICES ASSUME NEW n \in Nat, n \notin S PROVE FALSE
  OBVIOUS
<1> DEFINE T == Nat \ S
<1>1. T \subseteq Nat /\ T # {}
  OBVIOUS
<1>2. PICK x \in T : \A y \in T : x <= y
  BY <1>1, LeastNatural
<1>3. x # 0 /\ x \in Nat /\ x - 1 \in Nat /\ x - 1 \notin T
  BY <1>2
<1>4. (x - 1) + 1 = x
  BY <1>3
<1>5. x \in S
  BY <1>3, <1>4
<1> QED BY <1>2, <1>5

\* A sequence is one of its own elements.
LEMMA SeqIsArray ==
  ASSUME NEW S, NEW s \in Seq(S)
  PROVE  IsArray(s)
BY DEF IsArray, Range

\* A sequence, and one element more.
LEMMA Appended ==
  ASSUME NEW t, IsArray(t), NEW v
  PROVE  /\ IsArray(Append(t, v)) /\ Append(t, v) # << >>
         /\ Len(t) \in Nat /\ Len(Append(t, v)) = Len(t) + 1
         /\ Append(t, v)[Len(t) + 1] = v /\ \A i \in 1 .. Len(t) : Append(t, v)[i] = t[i]
         /\ Last(Append(t, v)) = v /\ Front(Append(t, v)) = t
<1> DEFINE S == Range(t) \cup {v}
           u == Append(t, v)
<1>1. t \in Seq(S) /\ v \in S
  <2>1. t \in Seq(Range(t))
    BY DEF IsArray
  <2> QED BY <2>1
<1>2. /\ u \in Seq(S) /\ Len(t) \in Nat /\ Len(u) = Len(t) + 1
      /\ u[Len(t) + 1] = v /\ \A i \in 1 .. Len(t) : u[i] = t[i]
  BY <1>1
<1>3. IsArray(u)
  <2> HIDE DEF u
  <2> QED BY <1>2 DEF IsArray, Range
<1>4. u # << >> /\ Last(u) = v /\ Front(u) = t
  <2>1. u # << >>
    BY <1>2
  <2>2. Last(u) = v
    <3> HIDE DEF u
    <3> QED BY <1>2 DEF Last
  <2>3. Front(u) = t
    <3>1. Front(u) = SubSeq(u, 1, Len(t))
      <4> HIDE DEF u
      <4> QED BY <1>2 DEF Front
    <3>2. SubSeq(u, 1, Len(t)) = t
      BY <1>1, <1>2
    <3> QED BY <3>1, <3>2
  <2> QED BY <2>1, <2>2, <2>3
<1> HIDE DEF u
<1> QED BY <1>2, <1>3, <1>4 DEF u

-----------------------------------------------------------------------------
(* The loader's nodes. *)

\* What becomes of a node, if f says what becomes of those in it.
ParsedBy(f, j) ==
  LET body == [k \in DOMAIN Body(j) |-> f[Body(j)[k]]]
  IN  IF ~KeysParse(j) \/ Thrown \in Range(body) THEN Thrown ELSE NodeOf(j, body)

\* A node is parsed from what the nodes less deep are parsed to.
LEMMA ParsedBySame ==
  ASSUME NEW j \in Nodes, NEW f, NEW g,
         \A c \in Nodes : Depth[c] < Depth[j] => f[c] = g[c]
  PROVE  ParsedBy(f, j) = ParsedBy(g, j)
<1>1. CASE ~KeysParse(j)
  BY <1>1 DEF ParsedBy
<1>2. CASE KeysParse(j)
  <2>1. Body(j) \in Seq(Nodes) /\ \A child \in Range(Body(j)) : Depth[child] < Depth[j]
    BY <1>2, JsonAssumption
  <2>2. \A k \in DOMAIN Body(j) : Body(j)[k] \in Nodes /\ Body(j)[k] \in Range(Body(j))
    BY <2>1 DEF Range
  <2>3. \A k \in DOMAIN Body(j) : f[Body(j)[k]] = g[Body(j)[k]]
    BY <2>1, <2>2
  <2>4. [k \in DOMAIN Body(j) |-> f[Body(j)[k]]] = [k \in DOMAIN Body(j) |-> g[Body(j)[k]]]
    BY <2>3, Zenon
  <2> QED BY <2>4, Zenon DEF ParsedBy
<1> QED BY <1>1, <1>2

\* A node is parsed from its keys and from the nodes in it.
LEMMA ParsedNode ==
  \A j \in Nodes : parse_node_v2[j] = ParsedBy(parse_node_v2, j)
<1> DEFINE Solves(g, n) == g = [j \in Nodes |-> IF Depth[j] < n THEN ParsedBy(g, j) ELSE Thrown]
           S == {n \in Nat : \E g : Solves(g, n)}
           Solution(n) == CHOOSE g : Solves(g, n)
           f == [j \in Nodes |-> Solution(Depth[j] + 1)[j]]
<1>0. \A j \in Nodes : Depth[j] \in Nat
  BY JsonAssumption
<1>1. 0 \in S
  <2> DEFINE g == [j \in Nodes |-> Thrown]
  <2>1. \A j \in Nodes : ~ (Depth[j] < 0)
    BY <1>0
  <2>2. g = [j \in Nodes |-> IF Depth[j] < 0 THEN ParsedBy(g, j) ELSE Thrown]
    BY <2>1
  <2> QED BY <2>2
<1>2. ASSUME NEW n \in Nat, n \in S PROVE n + 1 \in S
  <2>1. PICK g : Solves(g, n)
    BY <1>2
  <2> DEFINE h == [j \in Nodes |-> IF Depth[j] < n + 1 THEN ParsedBy(g, j) ELSE Thrown]
  <2>2. \A j \in Nodes : Depth[j] < n => g[j] = ParsedBy(g, j)
    BY <2>1, Zenon
  <2>3. \A j \in Nodes : Depth[j] < n => Depth[j] < n + 1
    BY <1>0
  <2>4. \A j \in Nodes : Depth[j] < n => h[j] = g[j]
    BY <2>2, <2>3
  <2> HIDE DEF h
  <2>5. ASSUME NEW j \in Nodes, Depth[j] < n + 1 PROVE ParsedBy(h, j) = ParsedBy(g, j)
    <3>1. \A c \in Nodes : Depth[c] < Depth[j] => Depth[c] < n
      BY <1>0, <2>5
    <3>2. \A c \in Nodes : Depth[c] < Depth[j] => h[c] = g[c]
      BY <2>4, <3>1
    <3> QED BY <3>2, ParsedBySame
  <2>6. h = [j \in Nodes |-> IF Depth[j] < n + 1 THEN ParsedBy(h, j) ELSE Thrown]
    BY <2>5, Zenon DEF h
  <2> QED BY <2>6
<1>3. \A n \in Nat : n \in S
  <2> HIDE DEF S
  <2> QED BY <1>1, <1>2, AllNumbers
<1>4. ASSUME NEW g, NEW h, NEW a \in Nat, NEW b \in Nat, Solves(g, a), Solves(h, b)
      PROVE  \A j \in Nodes : Depth[j] < a /\ Depth[j] < b => g[j] = h[j]
  <2> DEFINE T == {n \in Nat : \A j \in Nodes : Depth[j] < n /\ Depth[j] < a /\ Depth[j] < b => g[j] = h[j]}
  <2>1. 0 \in T
    BY <1>0
  <2>2. ASSUME NEW n \in Nat, n \in T PROVE n + 1 \in T
    <3> SUFFICES ASSUME NEW j \in Nodes, Depth[j] < n + 1, Depth[j] < a, Depth[j] < b
                 PROVE  g[j] = h[j]
      OBVIOUS
    <3>1. g[j] = ParsedBy(g, j) /\ h[j] = ParsedBy(h, j)
      BY <1>4, Zenon
    <3>2. \A c \in Nodes : Depth[c] < Depth[j] => Depth[c] < n /\ Depth[c] < a /\ Depth[c] < b
      BY <1>0
    <3>3. \A c \in Nodes : Depth[c] < Depth[j] => g[c] = h[c]
      BY <2>2, <3>2
    <3> QED BY <3>1, <3>3, ParsedBySame
  <2>3. \A n \in Nat : n \in T
    <3> HIDE DEF T
    <3> QED BY <2>1, <2>2, AllNumbers
  <2>4. \A j \in Nodes : Depth[j] + 1 \in Nat /\ Depth[j] < Depth[j] + 1
    BY <1>0
  <2> QED BY <2>3, <2>4
<1>5. \A n \in Nat : Solves(Solution(n), n)
  BY <1>3, Zenon
<1>6. ASSUME NEW j \in Nodes PROVE f[j] = ParsedBy(f, j)
  <2> DEFINE g == Solution(Depth[j] + 1)
  <2>1. Depth[j] + 1 \in Nat /\ Depth[j] < Depth[j] + 1
    BY <1>0
  <2>2. Solves(g, Depth[j] + 1)
    BY <1>5, <2>1
  <2>3. g[j] = ParsedBy(g, j)
    BY <2>1, <2>2, Zenon
  <2>4. ASSUME NEW c \in Nodes, Depth[c] < Depth[j] PROVE f[c] = g[c]
    <3>1. Depth[c] + 1 \in Nat /\ Depth[c] < Depth[c] + 1 /\ Depth[c] < Depth[j] + 1
      BY <1>0, <2>4
    <3>2. Solves(Solution(Depth[c] + 1), Depth[c] + 1)
      BY <1>5, <3>1
    <3> HIDE DEF Solution, Solves
    <3>3. Solution(Depth[c] + 1)[c] = g[c]
      BY <1>4, <2>1, <2>2, <3>1, <3>2
    <3> QED BY <3>3
  <2> HIDE DEF g
  <2>5. f[j] = g[j]
    BY DEF g
  <2> HIDE DEF f
  <2>6. ParsedBy(f, j) = ParsedBy(g, j)
    BY <2>4, ParsedBySame
  <2> QED BY <2>3, <2>5, <2>6
<1>7. f = [j \in Nodes |-> ParsedBy(f, j)]
  <2>1. f = [j \in Nodes |-> f[j]]
    OBVIOUS
  <2> HIDE DEF f
  <2> QED BY <1>6, <2>1, Zenon
<1>8. parse_node_v2 = [j \in Nodes |-> ParsedBy(parse_node_v2, j)]
  <2> HIDE DEF f
  <2> QED BY <1>7 DEF parse_node_v2, ParsedBy
<1> QED BY <1>8, Zenon

\* A node that parses.
Good(n) == n \in Nodes /\ parse_node_v2[n] # Thrown

\* What a list of nodes is parsed to.
ParsedList(nodes) == [k \in DOMAIN nodes |-> parse_node_v2[nodes[k]]]

\* A list of nodes that parse.
GoodList(nodes) == nodes \in Seq(Nodes) /\ \A k \in DOMAIN nodes : Good(nodes[k])

\* A node that parses has its keys, and nodes in it that parse.
LEMMA GoodNode ==
  ASSUME NEW n, Good(n)
  PROVE  /\ KeysParse(n) /\ GoodList(Body(n))
         /\ parse_node_v2[n] = NodeOf(n, ParsedList(Body(n)))
<1>1. n \in Nodes /\ parse_node_v2[n] = ParsedBy(parse_node_v2, n) /\ parse_node_v2[n] # Thrown
  BY ParsedNode DEF Good
<1>2. KeysParse(n) /\ Thrown \notin Range(ParsedList(Body(n)))
      /\ parse_node_v2[n] = NodeOf(n, ParsedList(Body(n)))
  BY <1>1 DEF ParsedBy, ParsedList
<1>3. Body(n) \in Seq(Nodes)
  BY <1>1, <1>2, JsonAssumption
<1>4. ASSUME NEW k \in DOMAIN Body(n) PROVE Good(Body(n)[k])
  <2>1. Body(n)[k] \in Nodes
    BY <1>3
  <2>2. parse_node_v2[Body(n)[k]] \in Range(ParsedList(Body(n)))
    BY DEF ParsedList, Range
  <2> QED BY <1>2, <2>1, <2>2 DEF Good
<1> QED BY <1>2, <1>3, <1>4 DEF GoodList

\* Places in a list have a last among them.
LEMMA MaxOfPlaces ==
  ASSUME NEW n \in Nat, NEW S, S \subseteq 1..n, S # {}
  PROVE  Max(S) \in S /\ \A k \in S : k <= Max(S)
<1> DEFINE T == {n - k : k \in S}
<1>1. T \subseteq Nat /\ T # {}
  <2>1. \A k \in S : n - k \in Nat
    OBVIOUS
  <2> QED BY <2>1
<1>2. PICK x \in T : \A y \in T : x <= y
  BY <1>1, LeastNatural
<1>3. PICK m \in S : x = n - m
  BY <1>2
<1>4. ASSUME NEW k \in S
      PROVE  m >= k
  <2>1. n - m <= n - k
    BY <1>2, <1>3
  <2> QED BY <2>1
<1>5. Max(S) \in S /\ \A k \in S : Max(S) >= k
  BY <1>4 DEF Max
<1> QED BY <1>5

-----------------------------------------------------------------------------
(* Products and multiples. *)

\* A multiple of a size.
LEMMA Multiples ==
  ASSUME NEW n \in Nat \ {0}, NEW q \in Int
  PROVE  (n * q) % n = 0 /\ (n * q) \div n = q
OBVIOUS

\* Division with a remainder (the \div and % of align_up and of the line numbers).
LEMMA Remainders ==
  ASSUME NEW n \in Nat \ {0}, NEW x \in Int
  PROVE  /\ x \div n \in Int /\ x % n \in 0 .. (n - 1)
         /\ x = n * (x \div n) + (x % n)
OBVIOUS

\* The first multiple from a number on (align_up).
LEMMA AlignedUp ==
  ASSUME NEW n \in Nat \ {0}, NEW x \in Nat
  PROVE  /\ AlignUp(x, n) \in Nat /\ AlignUp(x, n) % n = 0
         /\ AlignUp(x, n) - x \in 0 .. (n - 1)
<1> DEFINE a == x + n - 1
           q == a \div n
<1>1. q \in Int /\ a % n \in 0 .. (n - 1) /\ a = n * q + (a % n)
  BY Remainders
<1>2. AlignUp(x, n) = a - (a % n)
  BY DEF AlignUp
<1> HIDE DEF q
<1>3. AlignUp(x, n) = n * q
  BY <1>1, <1>2
<1>4. (n * q) % n = 0
  BY <1>1, Multiples
<1> QED BY <1>1, <1>2, <1>3, <1>4

\* Products of natural numbers are natural.
LEMMA TimesNat ==
  ASSUME NEW a \in Nat, NEW b \in Nat
  PROVE  a * b \in Nat
OBVIOUS

\* A product is taken from the last factor on.
LEMMA ProductUnfolds ==
  ASSUME NEW s, IsArray(s)
  PROVE  \E from : /\ Product(s) = from[1] /\ from[Len(s) + 1] = 1
                   /\ \A k \in 1 .. Len(s) : from[k] = s[k] * from[k + 1]
<1> DEFINE n == Len(s)
           From(g, k) == IF k > n THEN 1 ELSE s[k] * g[k + 1]
           Solves(g, m) == g = [k \in (n + 1 - m) .. (n + 1) |-> From(g, k)]
           S == {m \in Nat : m <= n => \E g : Solves(g, m)}
<1>0. n \in Nat
  BY DEF IsArray
<1> HIDE DEF n
<1>1. 0 \in S
  <2> DEFINE g == [k \in (n + 1) .. (n + 1) |-> 1]
  <2>1. \A k \in (n + 1) .. (n + 1) : k > n
    BY <1>0
  <2>2. n + 1 - 0 = n + 1
    BY <1>0
  <2>3. g = [k \in (n + 1 - 0) .. (n + 1) |-> From(g, k)]
    BY <2>1, <2>2
  <2> QED BY <2>3
<1>2. ASSUME NEW m \in Nat, m \in S PROVE m + 1 \in S
  <2> SUFFICES ASSUME m + 1 <= n PROVE \E g : Solves(g, m + 1)
    OBVIOUS
  <2>1. PICK g : Solves(g, m)
    BY <1>0, <1>2
  <2> DEFINE h == [k \in (n + 1 - (m + 1)) .. (n + 1) |-> From(g, k)]
  <2>2. \A k \in (n + 1 - m) .. (n + 1) : g[k] = From(g, k)
    BY <2>1, Zenon
  <2>3. \A k \in (n + 1 - m) .. (n + 1) : k \in (n + 1 - (m + 1)) .. (n + 1)
    BY <1>0
  <2> HIDE DEF From
  <2>4. \A k \in (n + 1 - m) .. (n + 1) : h[k] = g[k]
    BY <2>2, <2>3
  <2>5. h = [k \in (n + 1 - (m + 1)) .. (n + 1) |-> From(g, k)]
    OBVIOUS
  <2> HIDE DEF h
  <2>6. ASSUME NEW k \in (n + 1 - (m + 1)) .. (n + 1) PROVE From(h, k) = From(g, k)
    <3>1. k > n \/ k + 1 \in (n + 1 - m) .. (n + 1)
      BY <1>0
    <3>2. k > n \/ h[k + 1] = g[k + 1]
      BY <2>4, <3>1
    <3> QED BY <3>2 DEF From
  <2>7. h = [k \in (n + 1 - (m + 1)) .. (n + 1) |-> From(h, k)]
    BY <2>5, <2>6, Zenon
  <2> QED BY <2>7 DEF From
<1>3. \A m \in Nat : m \in S
  <2> HIDE DEF S
  <2> QED BY <1>1, <1>2, AllNumbers
<1>4. n + 1 - n = 1 /\ n <= n
  BY <1>0
<1>5. PICK g : g = [k \in 1 .. (n + 1) |-> From(g, k)]
  BY <1>0, <1>3, <1>4
<1> HIDE DEF From
<1> DEFINE from == CHOOSE f : f = [k \in 1 .. (n + 1) |-> From(f, k)]
<1>6. Product(s) = from[1]
  BY Zenon DEF Product, n, From
<1>7. from = [k \in 1 .. (n + 1) |-> From(from, k)]
  BY <1>5
<1> HIDE DEF from
<1>8. \A k \in 1 .. (n + 1) : from[k] = From(from, k)
  BY <1>7, Zenon
<1>9. n + 1 \in 1 .. (n + 1) /\ n + 1 > n /\ \A k \in 1 .. n : k \in 1 .. (n + 1) /\ ~ (k > n)
  BY <1>0
<1>10. from[n + 1] = 1
  BY <1>8, <1>9 DEF From
<1>11. \A k \in 1 .. n : from[k] = s[k] * from[k + 1]
  BY <1>8, <1>9 DEF From
<1> QED BY <1>6, <1>10, <1>11 DEF n

\* What is left of a product, from each of its factors on.
Factors(p, s) == p[Len(s) + 1] = 1 /\ \A k \in 1 .. Len(s) : p[k] = s[k] * p[k + 1]

\* The product of the last dimensions is a product on the way from the last factor.
LEMMA ProductsOfRests ==
  ASSUME NEW s \in Seq(Nat), NEW t \in Seq(Nat), NEW p, NEW q, NEW i \in 0 .. Len(s),
         Len(s) = Len(t) + i, \A k \in 1 .. Len(t) : t[k] = s[k + i], Factors(p, s), Factors(q, t)
  PROVE  \A k \in 1 .. (Len(t) + 1) : q[k] = p[k + i] /\ q[k] \in Nat
<1> DEFINE n == Len(t)
           T == {m \in Nat : m <= n => q[n + 1 - m] = p[n + 1 - m + i] /\ q[n + 1 - m] \in Nat}
<1>0. n \in Nat /\ Len(s) = n + i /\ i \in Nat /\ \A k \in 1 .. n : t[k] \in Nat
  <2>1. \A k \in 1 .. Len(t) : t[k] \in Nat
    BY ElementOfSeq
  <2>2. Len(t) \in Nat /\ Len(s) \in Nat /\ i \in Nat
    OBVIOUS
  <2> QED BY <2>1, <2>2
<1> HIDE DEF n
<1>1. 0 \in T
  <2>1. n + 1 - 0 = n + 1 /\ n + 1 + i = Len(s) + 1
    BY DEF n
  <2>2. q[n + 1] = 1 /\ p[n + 1 + i] = 1
    BY <2>1 DEF n, Factors
  <2> QED BY <2>1, <2>2
<1>2. ASSUME NEW m \in Nat, m \in T PROVE m + 1 \in T
  <2> SUFFICES ASSUME m + 1 <= n
               PROVE  q[n + 1 - (m + 1)] = p[n + 1 - (m + 1) + i] /\ q[n + 1 - (m + 1)] \in Nat
    OBVIOUS
  <2> DEFINE k == n + 1 - (m + 1)
  <2>1. /\ k \in 1 .. n /\ k + 1 = n + 1 - m /\ k + 1 + i = (k + i) + 1
        /\ k + i \in 1 .. Len(s) /\ m <= n
    BY <1>0
  <2> HIDE DEF k
  <2>2. q[k + 1] = p[(k + i) + 1] /\ q[k + 1] \in Nat
    BY <1>2, <2>1
  <2>3. q[k] = t[k] * q[k + 1] /\ p[k + i] = s[k + i] * p[(k + i) + 1] /\ t[k] = s[k + i]
    BY <2>1 DEF n, Factors
  <2>4. t[k] \in Nat
    BY <1>0, <2>1
  <2>5. q[k] \in Nat
    BY <2>2, <2>3, <2>4, TimesNat
  <2> QED BY <2>2, <2>3, <2>5 DEF k
<1>3. \A m \in Nat : m \in T
  <2> HIDE DEF T
  <2> QED BY <1>1, <1>2, AllNumbers
<1>4. \A k \in 1 .. (n + 1) : n + 1 - k \in Nat /\ n + 1 - k <= n /\ n + 1 - (n + 1 - k) = k
  BY <1>0
<1> QED BY <1>3, <1>4 DEF n

\* A product of no dimensions is one, of others the first times the product of
\* the rest.
LEMMA Products ==
  /\ Product(<< >>) = 1
  /\ \A s \in Seq(Nat) : s # << >> => Product(s) = Head(s) * Product(Tail(s))
  /\ \A s \in Seq(Nat) : Product(s) \in Nat
<1>1. Product(<< >>) = 1
  <2>1. IsArray(<< >>) /\ Len(<< >>) + 1 = 1
    BY DEF IsArray
  <2> QED BY <2>1, ProductUnfolds
<1>2. \A s \in Seq(Nat) : IsArray(s)
  BY SeqIsArray
<1>3. ASSUME NEW s \in Seq(Nat) PROVE Product(s) \in Nat
  <2>1. PICK p : /\ Product(s) = p[1] /\ Factors(p, s)
    BY <1>2, ProductUnfolds DEF Factors
  <2>2. Len(s) = Len(s) + 0 /\ 0 \in 0 .. Len(s) /\ (\A k \in 1 .. Len(s) : k + 0 = k)
        /\ 1 \in 1 .. (Len(s) + 1)
    OBVIOUS
  <2>3. \A k \in 1 .. (Len(s) + 1) : p[k] \in Nat
    BY <2>1, <2>2, ProductsOfRests
  <2> QED BY <2>1, <2>2, <2>3
<1>4. ASSUME NEW s \in Seq(Nat), s # << >> PROVE Product(s) = Head(s) * Product(Tail(s))
  <2> DEFINE t == Tail(s)
  <2>1. /\ t \in Seq(Nat) /\ Len(s) = Len(t) + 1 /\ 1 \in 0 .. Len(s)
        /\ \A k \in 1 .. Len(t) : t[k] = s[k + 1]
    BY <1>4
  <2> HIDE DEF t
  <2>2. PICK p : /\ Product(s) = p[1] /\ Factors(p, s)
    BY <1>2, ProductUnfolds DEF Factors
  <2>3. PICK q : /\ Product(t) = q[1] /\ Factors(q, t)
    BY <1>2, <2>1, ProductUnfolds DEF Factors
  <2>4. \A k \in 1 .. (Len(t) + 1) : q[k] = p[k + 1]
    BY <2>1, <2>2, <2>3, ProductsOfRests
  <2>5. 1 \in 1 .. (Len(t) + 1) /\ 1 \in 1 .. Len(s) /\ Head(s) = s[1]
    BY <2>1, <1>4
  <2>6. q[1] = p[1 + 1] /\ p[1] = s[1] * p[1 + 1]
    BY <2>2, <2>4, <2>5 DEF Factors
  <2> QED BY <2>2, <2>3, <2>5, <2>6 DEF t
<1> QED BY <1>1, <1>3, <1>4

-----------------------------------------------------------------------------
(* What is loaded. *)

\* There is no program before the document is loaded, and then it is the document's.
Loaded == \/ program = NoProgram
          \/ Loads(document) /\ program = load_program_string(document)

\* The layout of an object, and that its type is one of a compiler's.
LEMMA LoadedObject ==
  ASSUME document \in Documents, Loaded, NEW id \in DOMAIN program.objects
  PROVE  /\ Loads(document) /\ id \in DOMAIN Objects(document.metadata)
         /\ program.objects[id] = parse_object_layout(TypeOf(id), DOMAIN Structs(document.metadata))
         /\ program = load_program_string(document)
<1>1. program # NoProgram
  BY DEF NoProgram
<1>2. Loads(document) /\ program = load_program_string(document)
  BY <1>1 DEF Loaded
<1>3. program.objects = [o \in DOMAIN Objects(document.metadata) |->
                           parse_object_layout(TypeOf(o), DOMAIN Structs(document.metadata))]
  BY <1>2 DEF load_program_string, TypeOf
<1> QED BY <1>2, <1>3

\* A type of a compiler's: nothing in it is negative, and each field of a
\* structure has its room.
Typed(type, structs) ==
  /\ Dims(type) \in Seq(Nat) /\ ValueOr(type, "elem_size", 0) \in Nat
  /\ IsStructure(type, structs) =>
       \A field \in Range(FieldsOf(type, structs)) :
         /\ ValueOr(field, "offset", 0) \in Nat
         /\ ValueOr(field, "offset", 0) + SizeOf(field) <= ValueOr(type, "elem_size", 0)

\* The types of a document's objects and of its structures' fields are typed.
LEMMA TypesAreTyped ==
  ASSUME document \in Documents, Loads(document), NEW structs, structs = Structs(document.metadata)
  PROVE  /\ \A id \in DOMAIN Objects(document.metadata) : Typed(TypeOf(id), structs)
         /\ \A name \in DOMAIN structs : \A field \in Range(structs[name].fields) : Typed(field, structs)
<1> DEFINE types == Range(Objects(document.metadata)) \cup
                    UNION {Range(structs[name].fields) : name \in DOMAIN structs}
<1>1. \A type \in types : Typed(type, structs)
  BY TypesAssumption DEF Typed
<1>2. ASSUME NEW id \in DOMAIN Objects(document.metadata) PROVE TypeOf(id) \in types
  <2>1. "objects" \in DOMAIN document.metadata
    <3>1. CASE "objects" \notin DOMAIN document.metadata
      <4>1. Objects(document.metadata) = << >>
        BY <3>1 DEF Objects, ValueOr
      <4> QED BY <4>1
    <3> QED BY <3>1
  <2>2. TypeOf(id) = Objects(document.metadata)[id]
    BY <2>1 DEF TypeOf, Objects, ValueOr
  <2> QED BY <2>2 DEF Range
<1>3. ASSUME NEW name \in DOMAIN structs, NEW field \in Range(structs[name].fields)
      PROVE  field \in types
  OBVIOUS
<1> HIDE DEF types
<1> QED BY <1>1, <1>2, <1>3

\* The size of a type, and the room its object is given.
LEMMA Sizes ==
  ASSUME NEW type, NEW structs, Typed(type, structs)
  PROVE  /\ SizeOf(type) \in Nat
         /\ TotalBytes(parse_object_layout(type, DOMAIN structs)) \in Nat
         /\ (IsStructure(type, structs) => Dims(type) = << >>) =>
              TotalBytes(parse_object_layout(type, DOMAIN structs)) = SizeOf(type)
<1> DEFINE layout == parse_object_layout(type, DOMAIN structs)
           p == Product(Dims(type))
           s == ValueOr(type, "elem_size", 0)
<1>1. p \in Nat /\ s \in Nat /\ (Dims(type) = << >> => p = 1)
  BY Products DEF Typed
<1>2. /\ layout.shape = Dims(type) /\ layout.elem_size = s
      /\ layout.struct_type = StructTypeOf(type, DOMAIN structs)
  BY DEF parse_object_layout, Dims
<1>3. SizeOf(type) = p * s
  BY DEF SizeOf
<1>4. TotalBytes(layout) = IF StructTypeOf(type, DOMAIN structs) # NoName THEN s ELSE p * s
  BY <1>2, Zenon DEF TotalBytes
<1>5. StructTypeOf(type, DOMAIN structs) # NoName => IsStructure(type, structs)
  BY Zenon DEF StructTypeOf, IsStructure
<1> DEFINE single == StructTypeOf(type, DOMAIN structs) # NoName
<1> HIDE DEF p, s, layout, single
<1>6. p * s \in Nat /\ 1 * s = s
  BY <1>1, TimesNat
<1>7. TotalBytes(layout) = s \/ TotalBytes(layout) = p * s
  BY <1>4, Zenon
<1>8. TotalBytes(layout) = p * s \/ IsStructure(type, structs)
  BY <1>4, <1>5, Zenon
<1>9. (IsStructure(type, structs) => Dims(type) = << >>) => TotalBytes(layout) = p * s
  BY <1>1, <1>6, <1>7, <1>8
<1> HIDE DEF SizeOf, TotalBytes
<1> QED BY <1>1, <1>3, <1>6, <1>7, <1>9 DEF layout

-----------------------------------------------------------------------------
(* Objects side by side. *)

\* Where the room of a placed object ends.
EndOf(id) == AlignUp(bases[id] + TotalBytes(program.objects[id]), line_size)

\* Objects are placed one after the other, each where another ends.
Placed ==
  /\ document \in Documents /\ Loaded /\ (status = "loading" => program = NoProgram)
  /\ line_size \in Nat \ {0}
  /\ next_base \in Nat /\ next_base % line_size = 0
  /\ DOMAIN bases \subseteq DOMAIN program.objects
  /\ \A id \in DOMAIN bases :
       /\ bases[id] \in Nat /\ bases[id] % line_size = 0 /\ EndOf(id) <= next_base
       /\ EndOf(id) = next_base \/ \E other \in DOMAIN bases : bases[other] = EndOf(id)
  /\ \A id, other \in DOMAIN bases :
       id = other \/ EndOf(id) <= bases[other] \/ EndOf(other) <= bases[id]

\* A placed object has a size, and its room is the size rounded up.
LEMMA RoomOfObject ==
  ASSUME Placed, NEW id \in DOMAIN program.objects, NEW base \in Nat
  PROVE  LET total == TotalBytes(program.objects[id])
             end   == AlignUp(base + total, line_size)
         IN  /\ total \in Nat /\ end \in Nat /\ end % line_size = 0
             /\ end - (base + total) \in 0 .. (line_size - 1)
<1> DEFINE total == TotalBytes(program.objects[id])
<1>1. document \in Documents /\ Loaded /\ line_size \in Nat \ {0}
  BY DEF Placed
<1>2. /\ Loads(document) /\ id \in DOMAIN Objects(document.metadata)
      /\ program.objects[id] = parse_object_layout(TypeOf(id), DOMAIN Structs(document.metadata))
  BY <1>1, LoadedObject
<1>3. Typed(TypeOf(id), Structs(document.metadata))
  BY <1>1, <1>2, TypesAreTyped
<1>4. total \in Nat
  BY <1>2, <1>3, Sizes
<1> HIDE DEF total
<1>5. base + total \in Nat
  BY <1>4
<1> QED BY <1>1, <1>4, <1>5, AlignedUp DEF total

\* Unrolling does not touch what is loaded.
LEMMA StepsKeepProgram ==
  BuilderStep => program' = program /\ status = "running" /\ status' \in {"running", "done", "failed"}
<1> SUFFICES ASSUME BuilderStep
             PROVE  program' = program /\ status = "running" /\ status' \in {"running", "done", "failed"}
  OBVIOUS
<1>1. CASE VisitRoot BY <1>1 DEF VisitRoot
<1>2. CASE Finish BY <1>2 DEF Finish
<1>3. CASE VisitScalar BY <1>3 DEF VisitScalar, Visiting
<1>4. CASE VisitArray BY <1>4 DEF VisitArray, Visiting, Throw
<1>5. CASE VisitLoop BY <1>5 DEF VisitLoop, Visiting
<1>6. CASE NextIteration BY <1>6 DEF NextIteration
<1>7. CASE VisitCall BY <1>7 DEF VisitCall, Visiting, Throw
<1>8. CASE Return BY <1>8 DEF Return
<1> QED BY <1>1, <1>2, <1>3, <1>4, <1>5, <1>6, <1>7, <1>8 DEF BuilderStep

\* Min of a set of natural numbers is its least element.
LEMMA LeastOf ==
  ASSUME NEW T, T \subseteq Nat, T # {}
  PROVE  Min(T) \in T /\ \A y \in T : Min(T) <= y
BY LeastNatural DEF Min

\* Where an object ends in the next state, written out.
LEMMA EndNext ==
  \A o : EndOf(o)' = AlignUp(bases'[o] + TotalBytes(program'.objects[o]), line_size')
BY Zenon DEF EndOf, AlignUp, TotalBytes, Product, NoName

\* The next object goes where the last one ends.
LEMMA PlacedAdded ==
  ASSUME Placed, AddObject
  PROVE  Placed'
<1> DEFINE id    == Ids[Min(Unplaced)]
           total == TotalBytes(program.objects[id])
           end   == AlignUp(next_base + total, line_size)
<1>1. /\ Loaded /\ document \in Documents /\ line_size \in Nat \ {0} /\ next_base \in Nat
      /\ next_base % line_size = 0 /\ DOMAIN bases \subseteq DOMAIN program.objects
  BY DEF Placed
<1>2. id \in DOMAIN program.objects /\ id \notin DOMAIN bases
  <2>1. Unplaced \subseteq Nat /\ Unplaced # {}
    <3>1. DOMAIN Ids \subseteq Nat
      BY PlacementAssumption
    <3> QED BY <3>1 DEF Unplaced, AddObject
  <2>2. Min(Unplaced) \in Unplaced
    BY <2>1, LeastOf
  <2> QED BY <2>2 DEF Unplaced
<1>3. /\ bases' = [o \in DOMAIN bases \cup {id} |-> IF o = id THEN next_base ELSE bases[o]] /\ next_base' = end /\ line_size' = line_size
      /\ program' = program /\ document' = document /\ status' = status /\ status = "running"
  BY DEF AddObject, loaderVars, builderVars
<1> HIDE DEF id
<1>4. total \in Nat /\ end \in Nat /\ end % line_size = 0 /\ next_base <= end
  <2>1. /\ total \in Nat /\ end \in Nat /\ end % line_size = 0
        /\ end - (next_base + total) \in 0 .. (line_size - 1)
    BY <1>1, <1>2, RoomOfObject
  <2> HIDE DEF total, end
  <2> QED BY <1>1, <2>1
<1>5. DOMAIN bases' = DOMAIN bases \cup {id}
  BY <1>3
<1>6. \A o \in DOMAIN bases : bases'[o] = bases[o]
  BY <1>2, <1>3
<1>7. bases'[id] = next_base
  BY <1>2, <1>3
<1> DEFINE ends == [o \in DOMAIN bases' |-> AlignUp(bases'[o] + TotalBytes(program.objects[o]), line_size)]
<1>8. /\ \A o \in DOMAIN bases' : EndOf(o)' = ends[o]
      /\ \A o \in DOMAIN bases : ends[o] = EndOf(o)
      /\ ends[id] = end
  <2>1. \A o \in DOMAIN bases' : EndOf(o)' = ends[o]
    BY <1>3, EndNext
  <2>2. \A o \in DOMAIN bases : ends[o] = EndOf(o)
    BY <1>5, <1>6 DEF EndOf
  <2>3. ends[id] = end
    BY <1>5, <1>7
  <2> QED BY <2>1, <2>2, <2>3
<1> HIDE DEF total, end, ends
<1>9. \A o \in DOMAIN bases :
        /\ bases[o] \in Nat /\ bases[o] % line_size = 0 /\ EndOf(o) <= next_base /\ EndOf(o) \in Int
        /\ EndOf(o) = next_base \/ \E other \in DOMAIN bases : bases[other] = EndOf(o)
  <2>1. \A o \in DOMAIN bases : bases[o] \in Nat /\ o \in DOMAIN program.objects
    BY <1>1 DEF Placed
  <2>2. \A o \in DOMAIN bases : EndOf(o) \in Nat
    BY <2>1, RoomOfObject DEF EndOf
  <2> QED BY <2>2 DEF Placed
<1>10. ASSUME NEW o \in DOMAIN bases'
       PROVE  /\ bases'[o] \in Nat /\ bases'[o] % line_size = 0 /\ ends[o] <= end
              /\ ends[o] = end \/ \E other \in DOMAIN bases' : bases'[other] = ends[o]
  <2>1. CASE o = id
    BY <1>1, <1>4, <1>7, <1>8, <2>1
  <2>2. CASE o \in DOMAIN bases
    <3>1. bases'[o] \in Nat /\ bases'[o] % line_size = 0 /\ ends[o] <= end
      BY <1>1, <1>4, <1>6, <1>8, <1>9, <2>2
    <3>2. EndOf(o) = next_base => bases'[id] = ends[o]
      BY <1>7, <1>8, <2>2
    <3>3. EndOf(o) # next_base => \E other \in DOMAIN bases : bases'[other] = ends[o]
      BY <1>6, <1>8, <1>9, <2>2
    <3> QED BY <1>5, <3>1, <3>2, <3>3
  <2> QED BY <1>5, <2>1, <2>2
<1>11. ASSUME NEW o \in DOMAIN bases', NEW other \in DOMAIN bases'
       PROVE  o = other \/ ends[o] <= bases'[other] \/ ends[other] <= bases'[o]
  <2>1. CASE o \in DOMAIN bases /\ other \in DOMAIN bases
    <3>1. o = other \/ EndOf(o) <= bases[other] \/ EndOf(other) <= bases[o]
      BY <2>1 DEF Placed
    <3> QED BY <1>6, <1>8, <2>1, <3>1
  <2>2. CASE o \in DOMAIN bases /\ other = id
    BY <1>7, <1>8, <1>9, <2>2
  <2>3. CASE o = id /\ other \in DOMAIN bases
    BY <1>7, <1>8, <1>9, <2>3
  <2> QED BY <1>5, <2>1, <2>2, <2>3
<1>12. document' \in Documents /\ Loaded' /\ (status' = "loading" => program' = NoProgram)
  BY <1>1, <1>3 DEF Loaded
<1>13. DOMAIN bases' \subseteq DOMAIN program'.objects
  BY <1>1, <1>2, <1>3, <1>5
<1>14. /\ line_size' \in Nat \ {0} /\ next_base' \in Nat /\ next_base' % line_size' = 0
  BY <1>1, <1>3, <1>4
<1> HIDE DEF EndOf
<1>15. \A o \in DOMAIN bases' :
         /\ bases'[o] \in Nat /\ bases'[o] % line_size' = 0 /\ EndOf(o)' <= next_base'
         /\ EndOf(o)' = next_base' \/ \E other \in DOMAIN bases' : bases'[other] = EndOf(o)'
  BY <1>3, <1>8, <1>10
<1>16. \A o, other \in DOMAIN bases' :
         o = other \/ EndOf(o)' <= bases'[other] \/ EndOf(other)' <= bases'[o]
  BY <1>8, <1>11
<1> QED BY <1>12, <1>13, <1>14, <1>15, <1>16 DEF Placed

\* Nothing else moves an object.
LEMMA PlacedKept ==
  ASSUME Placed, document' = document, line_size' = line_size, bases' = bases,
         next_base' = next_base,
         \/ program' = program /\ (status' = "loading" => status = "loading")
         \/ /\ status = "loading" /\ status' # "loading"
            /\ Loads(document) /\ program' = load_program_string(document)
  PROVE  Placed'
<1>1. CASE program' = program
  <2>1. \A id : EndOf(id)' = EndOf(id)
    BY <1>1 DEF EndOf
  <2>2. Loaded'
    BY <1>1 DEF Loaded, Placed
  <2>3. status' = "loading" => program' = NoProgram
    BY <1>1 DEF Placed
  <2> QED BY <1>1, <2>1, <2>2, <2>3 DEF Placed
<1>2. CASE program' # program
  <2>1. program.objects = << >>
    BY <1>2 DEF Placed, NoProgram
  <2>2. DOMAIN bases = {}
    BY <2>1 DEF Placed
  <2>3. Loaded' /\ status' # "loading"
    BY <1>2 DEF Loaded, Placed
  <2> QED BY <2>2, <2>3 DEF Placed
<1> QED BY <1>1, <1>2

\* Every step of load, layout and mapping keeps objects placed (run_simulation).
LEMMA PlacedStep ==
  ASSUME Placed, [PlacementNext]_placementVars
  PROVE  Placed'
<1>1. CASE LoadProgram
  BY <1>1, PlacedKept DEF LoadProgram, Load, Begin, Throw
<1>2. CASE AddObject
  BY <1>2, PlacedAdded
<1>3. CASE BuildEvents
  BY <1>3, PlacedKept, StepsKeepProgram DEF BuildEvents
<1>4. CASE MapEvent
  BY <1>4, PlacedKept DEF MapEvent, Mapping, loaderVars, builderVars
<1>5. CASE UnknownObject
  BY <1>5, PlacedKept DEF UnknownObject, Mapping, Throw
<1>6. CASE UNCHANGED placementVars
  BY <1>6, PlacedKept DEF placementVars, loaderVars, builderVars
<1> QED BY <1>1, <1>2, <1>3, <1>4, <1>5, <1>6 DEF PlacementNext

\* Objects are placed side by side (run, align_up).
THEOREM PlacedAlways == PlacementSpec => []Placed
<1>1. PlacementInit => Placed
  <2> SUFFICES ASSUME PlacementInit PROVE Placed
    OBVIOUS
  <2>1. document \in Documents /\ program = NoProgram /\ bases = << >> /\ next_base = 0
    BY DEF PlacementInit, LoaderInit, BuilderInit
  <2>2. line_size \in Nat \ {0}
    BY PlacementAssumption DEF PlacementInit
  <2>3. 0 % line_size = 0
    BY <2>2, Multiples
  <2> QED BY <2>1, <2>2, <2>3 DEF Placed, Loaded
<1>2. Placed /\ [PlacementNext]_placementVars => Placed'
  BY PlacedStep
<1> QED BY <1>1, <1>2, PTL DEF PlacementSpec

\* Each object is given the lines its size takes, and no line more.
LEMMA FilledWherePlaced ==
  ASSUME Placed
  PROVE  LinesAreFilled
<1> SUFFICES ASSUME NoStructArrays, NEW id \in DOMAIN bases
             PROVE  /\ bases[id] % line_size = 0
                    /\ SizeOf(TypeOf(id)) > 0 =>
                         After(id) - bases[id] - SizeOf(TypeOf(id)) \in 0 .. (line_size - 1)
  BY DEF LinesAreFilled
<1> DEFINE size  == SizeOf(TypeOf(id))
           total == TotalBytes(program.objects[id])
           end   == EndOf(id)
           later == {bases[other] : other \in DOMAIN bases \ {id}} \cup {next_base}
           above == {b \in later : b > bases[id]} \cup {next_base}
<1>1. /\ document \in Documents /\ Loaded /\ line_size \in Nat \ {0}
      /\ id \in DOMAIN program.objects /\ bases[id] \in Nat /\ bases[id] % line_size = 0
      /\ next_base \in Nat /\ end <= next_base
      /\ end = next_base \/ \E other \in DOMAIN bases : bases[other] = end
  BY DEF Placed
<1>2. size \in Nat /\ total = size
  <2>1. /\ Loads(document) /\ id \in DOMAIN Objects(document.metadata)
        /\ program.objects[id] = parse_object_layout(TypeOf(id), DOMAIN Structs(document.metadata))
    BY <1>1, LoadedObject
  <2>2. Typed(TypeOf(id), Structs(document.metadata))
    BY <1>1, <2>1, TypesAreTyped
  <2>3. IsStructure(TypeOf(id), Structs(document.metadata)) => Dims(TypeOf(id)) = << >>
    BY <2>1 DEF NoStructArrays
  <2> QED BY <2>1, <2>2, <2>3, Sizes
<1>3. end \in Nat /\ end - (bases[id] + total) \in 0 .. (line_size - 1)
  BY <1>1, RoomOfObject DEF EndOf
<1> HIDE DEF size, total, end
<1>4. ASSUME size > 0 PROVE After(id) = end
  <2>1. end > bases[id]
    BY <1>1, <1>2, <1>3, <1>4
  <2>2. end \in above
    <3>1. CASE end = next_base
      BY <3>1
    <3>2. CASE end # next_base
      <4>1. PICK other \in DOMAIN bases : bases[other] = end
        BY <1>1, <3>2
      <4>2. other # id
        BY <1>1, <2>1, <4>1
      <4> QED BY <2>1, <4>1, <4>2
    <3> QED BY <3>1, <3>2
  <2>3. ASSUME NEW b \in above PROVE end <= b
    <3>1. CASE b = next_base
      BY <1>1, <3>1
    <3>2. CASE b # next_base
      <4>1. PICK other \in DOMAIN bases \ {id} : bases[other] = b
        BY <3>2
      <4>2. b > bases[id]
        BY <3>2
      <4>3. end <= b \/ EndOf(other) <= bases[id]
        BY <4>1 DEF Placed, end
      <4>4. bases[other] \in Nat /\ other \in DOMAIN program.objects
        BY <4>1 DEF Placed
      <4>5. bases[other] <= EndOf(other) /\ EndOf(other) \in Nat
        <5> DEFINE t == TotalBytes(program.objects[other])
        <5>1. /\ t \in Nat /\ EndOf(other) \in Nat
              /\ EndOf(other) - (bases[other] + t) \in 0 .. (line_size - 1)
          BY <4>4, RoomOfObject DEF EndOf
        <5> HIDE DEF t
        <5> QED BY <1>1, <4>4, <5>1
      <4> QED BY <1>1, <4>1, <4>2, <4>3, <4>4, <4>5
    <3> QED BY <3>1, <3>2
  <2>4. above \subseteq Nat
    BY <1>1 DEF Placed
  <2>5. Min(above) = end
    <3> HIDE DEF above
    <3>1. Min(above) \in above /\ Min(above) <= end
      BY <2>2, <2>4, LeastOf
    <3>2. end <= Min(above) /\ Min(above) \in Nat
      BY <2>3, <2>4, <3>1
    <3> QED BY <1>3, <3>1, <3>2
  <2> QED BY <2>5 DEF After
<1>5. ASSUME size > 0 PROVE After(id) - bases[id] - size \in 0 .. (line_size - 1)
  BY <1>1, <1>2, <1>3, <1>4, <1>5
<1> QED BY <1>1, <1>5 DEF size

\* Every object starts a line, and the next one the line after its last
\* (align_up).
THEOREM LinesAreFilledAlways == PlacementSpec => []LinesAreFilled
<1>1. Placed => LinesAreFilled
  BY FilledWherePlaced
<1> QED BY <1>1, PlacedAlways, PTL

-----------------------------------------------------------------------------
(* Walks along a path. *)

\* A walk goes a step at a time (resolve_offset).
LEMMA WalkUnfolds ==
  ASSUME NEW object, NEW path, NEW structs, IsArray(path)
  PROVE  \E after : /\ Walk(object, path, structs) = after[Len(path)] /\ after[0] = [offset |-> 0, context |-> object, thrown |-> FALSE]
                    /\ \A k \in 1 .. Len(path) : after[k] = Walked(path, k, after[k - 1], structs)
<1> DEFINE n == Len(path)
           From(g, k) == IF k = 0 THEN [offset |-> 0, context |-> object, thrown |-> FALSE]
                         ELSE Walked(path, k, g[k - 1], structs)
           Solves(g, m) == g = [k \in 0 .. m |-> From(g, k)]
           S == {m \in Nat : \E g : Solves(g, m)}
<1>0. n \in Nat
  BY DEF IsArray
<1> HIDE DEF n
<1>1. 0 \in S
  <2> DEFINE g == [k \in 0 .. 0 |-> [offset |-> 0, context |-> object, thrown |-> FALSE]]
  <2>1. \A k \in 0 .. 0 : k = 0
    OBVIOUS
  <2>2. g = [k \in 0 .. 0 |-> From(g, k)]
    BY <2>1, Zenon
  <2> QED BY <2>2
<1>2. ASSUME NEW m \in Nat, m \in S PROVE m + 1 \in S
  <2>1. PICK g : Solves(g, m)
    BY <1>2
  <2> DEFINE h == [k \in 0 .. (m + 1) |-> From(g, k)]
  <2>2. \A k \in 0 .. m : g[k] = From(g, k)
    BY <2>1, Zenon
  <2> HIDE DEF From
  <2>3. \A k \in 0 .. m : h[k] = g[k]
    BY <2>2
  <2>4. h = [k \in 0 .. (m + 1) |-> From(g, k)]
    OBVIOUS
  <2> HIDE DEF h
  <2>5. ASSUME NEW k \in 0 .. (m + 1) PROVE From(h, k) = From(g, k)
    <3>1. k = 0 \/ k - 1 \in 0 .. m
      OBVIOUS
    <3>2. k = 0 \/ h[k - 1] = g[k - 1]
      BY <2>3, <3>1
    <3> QED BY <3>2, Zenon DEF From
  <2>6. h = [k \in 0 .. (m + 1) |-> From(h, k)]
    BY <2>4, <2>5, Zenon
  <2> QED BY <2>6 DEF From
<1>3. \A m \in Nat : m \in S
  <2> HIDE DEF S
  <2> QED BY <1>1, <1>2, AllNumbers
<1>4. PICK g : g = [k \in 0 .. n |-> From(g, k)]
  BY <1>0, <1>3
<1> HIDE DEF From
<1> DEFINE after == CHOOSE f : f = [k \in 0 .. n |-> From(f, k)]
<1>5. Walk(object, path, structs) = after[n]
  BY Zenon DEF Walk, n, From
<1>6. after = [k \in 0 .. n |-> From(after, k)]
  BY <1>4
<1> HIDE DEF after
<1>7. \A k \in 0 .. n : after[k] = From(after, k)
  BY <1>6, Zenon
<1>8. 0 \in 0 .. n /\ \A k \in 1 .. n : k \in 0 .. n /\ k # 0
  BY <1>0
<1>9. after[0] = [offset |-> 0, context |-> object, thrown |-> FALSE]
  BY <1>7, <1>8, Zenon DEF From
<1>10. \A k \in 1 .. n : after[k] = Walked(path, k, after[k - 1], structs)
  BY <1>7, <1>8, Zenon DEF From
<1> QED BY <1>5, <1>9, <1>10 DEF n

\* So does the way through a type.
Reaches(after, places, path, structs) ==
  /\ after[0] = places
  /\ \A k \in 1 .. Len(path) :
       after[k] = UNION {StepInto(place, path[k], structs) : place \in after[k - 1]}

\* What a path reaches is computed step by step, from the places it starts at.
LEMMA ReachedUnfolds ==
  ASSUME NEW places, NEW path, NEW structs, IsArray(path)
  PROVE  \E after : Reached(places, path, structs) = after[Len(path)] /\ Reaches(after, places, path, structs)
<1> DEFINE n == Len(path)
           From(g, k) == IF k = 0 THEN places
                         ELSE UNION {StepInto(place, path[k], structs) : place \in g[k - 1]}
           Solves(g, m) == g = [k \in 0 .. m |-> From(g, k)]
           S == {m \in Nat : \E g : Solves(g, m)}
<1>0. n \in Nat
  BY DEF IsArray
<1> HIDE DEF n
<1>1. 0 \in S
  <2> DEFINE g == [k \in 0 .. 0 |-> places]
  <2>1. \A k \in 0 .. 0 : k = 0
    OBVIOUS
  <2>2. g = [k \in 0 .. 0 |-> From(g, k)]
    BY <2>1, Zenon
  <2> QED BY <2>2
<1>2. ASSUME NEW m \in Nat, m \in S PROVE m + 1 \in S
  <2>1. PICK g : Solves(g, m)
    BY <1>2
  <2> DEFINE h == [k \in 0 .. (m + 1) |-> From(g, k)]
  <2>2. \A k \in 0 .. m : g[k] = From(g, k)
    BY <2>1, Zenon
  <2> HIDE DEF From
  <2>3. \A k \in 0 .. m : h[k] = g[k]
    BY <2>2
  <2>4. h = [k \in 0 .. (m + 1) |-> From(g, k)]
    OBVIOUS
  <2> HIDE DEF h
  <2>5. ASSUME NEW k \in 0 .. (m + 1) PROVE From(h, k) = From(g, k)
    <3>1. k = 0 \/ k - 1 \in 0 .. m
      OBVIOUS
    <3>2. k = 0 \/ h[k - 1] = g[k - 1]
      BY <2>3, <3>1
    <3> QED BY <3>2, Zenon DEF From
  <2>6. Solves(h, m + 1)
    BY <2>4, <2>5, Zenon
  <2> HIDE DEF Solves
  <2> QED BY <2>6
<1>3. \A m \in Nat : m \in S
  <2> HIDE DEF S
  <2> QED BY <1>1, <1>2, AllNumbers
<1>4. PICK g : g = [k \in 0 .. n |-> From(g, k)]
  BY <1>0, <1>3
<1> HIDE DEF From
<1> DEFINE after == CHOOSE f : f = [k \in 0 .. n |-> From(f, k)]
<1>5. Reached(places, path, structs) = after[n]
  BY Zenon DEF Reached, n, From
<1>6. after = [k \in 0 .. n |-> From(after, k)]
  BY <1>4
<1> HIDE DEF after
<1>7. \A k \in 0 .. n : after[k] = From(after, k)
  BY <1>6, Zenon
<1>8. 0 \in 0 .. n /\ \A k \in 1 .. n : k \in 0 .. n /\ k # 0
  BY <1>0
<1>9. after[0] = places
  BY <1>7, <1>8, Zenon DEF From
<1>10. \A k \in 1 .. n : after[k] = UNION {StepInto(place, path[k], structs) : place \in after[k - 1]}
  BY <1>7, <1>8, Zenon DEF From
<1>11. Reaches(after, places, path, structs)
  BY <1>9, <1>10, Zenon DEF Reaches, n
<1> QED BY <1>5, <1>11 DEF n

\* The run of indices after a step is over, or it begins with the next step.
LEMMA Followed ==
  ASSUME NEW path, IsArray(path), NEW i \in 0 .. Len(path)
  PROVE  /\ i = Len(path) => Following(path, i) = 0
         /\ i < Len(path) /\ IsField(path[i + 1]) => Following(path, i) = 0
         /\ i < Len(path) /\ ~ IsField(path[i + 1]) =>
              i + 1 \in 1 .. Len(path) /\ Following(path, i) = Following(path, i + 1) + 1
<1> DEFINE n == Len(path)
           Run(l) == {k \in (l + 1) .. Len(path) : \A j \in (l + 1) .. k : ~ IsField(path[j])}
<1>0. n \in Nat /\ i \in Nat /\ i <= n
  BY DEF IsArray
<1>1. \A l : Following(path, l) = Cardinality(Run(l))
  BY DEF Following
<1> HIDE DEF Run
<1>2. Cardinality({}) = 0
  BY FS_EmptySet
<1>3. ASSUME i = n PROVE Following(path, i) = 0
  <2>1. Run(i) = {}
    BY <1>0, <1>3 DEF Run
  <2> QED BY <1>1, <1>2, <2>1
<1>4. ASSUME i < n, IsField(path[i + 1]) PROVE Following(path, i) = 0
  <2>1. \A k \in (i + 1) .. n : i + 1 \in (i + 1) .. k
    BY <1>0
  <2>2. Run(i) = {}
    BY <1>4, <2>1 DEF Run
  <2> QED BY <1>1, <1>2, <2>2
<1>5. ASSUME i < n, ~ IsField(path[i + 1])
      PROVE  i + 1 \in 1 .. n /\ Following(path, i) = Following(path, i + 1) + 1
  <2>1. i + 1 \in 1 .. n
    BY <1>0, <1>5
  <2>2. Run(i) = Run(i + 1) \cup {i + 1}
    <3>1. \A k \in (i + 1) .. n : k = i + 1 \/ k \in (i + 1 + 1) .. n
      BY <1>0
    <3>2. \A k \in (i + 1 + 1) .. n : k \in (i + 1) .. n
      BY <1>0
    <3>3. \A k, j : j \in (i + 1) .. k => j = i + 1 \/ j \in (i + 1 + 1) .. k
      BY <1>0
    <3>4. \A k, j : j \in (i + 1 + 1) .. k => j \in (i + 1) .. k
      BY <1>0
    <3>5. i + 1 \in (i + 1) .. n /\ \A j \in (i + 1) .. (i + 1) : j = i + 1
      BY <1>0, <2>1
    <3>6. Run(i) \subseteq Run(i + 1) \cup {i + 1}
      BY <3>1, <3>4 DEF Run
    <3>7. Run(i + 1) \subseteq Run(i)
      BY <1>5, <3>2, <3>3 DEF Run
    <3>8. i + 1 \in Run(i)
      BY <1>5, <3>5 DEF Run
    <3> QED BY <3>6, <3>7, <3>8
  <2>3. i + 1 \notin Run(i + 1)
    BY <1>0 DEF Run
  <2>4. IsFiniteSet(Run(i + 1))
    <3>1. Run(i + 1) \subseteq (i + 1 + 1) .. n
      BY DEF Run
    <3>2. IsFiniteSet((i + 1 + 1) .. n)
      BY <1>0, FS_Interval
    <3> QED BY <3>1, <3>2, FS_Subset
  <2>5. Cardinality(Run(i)) = Cardinality(Run(i + 1)) + 1
    BY <2>2, <2>3, <2>4, FS_AddElement
  <2> QED BY <1>1, <2>1, <2>5
<1> QED BY <1>3, <1>4, <1>5

\* A way along a path, from a position on: a place after each step.
Trace(q, path, from, structs) ==
  \A i \in (from + 1) .. Len(path) : q[i] \in StepInto(q[i - 1], path[i], structs)

\* A place that a path reaches is at the end of a trace of places, one for each step.
LEMMA TraceOf ==
  ASSUME NEW path, IsArray(path), NEW start, NEW structs, NEW place \in Reached({start}, path, structs)
  PROVE  \E q : q[0] = start /\ q[Len(path)] = place /\ Trace(q, path, 0, structs)
<1> DEFINE n == Len(path)
           Leads(q, m, p) == /\ q[0] = start /\ q[m] = p
                             /\ \A i \in 1 .. m : q[i] \in StepInto(q[i - 1], path[i], structs)
<1>0. n \in Nat
  BY DEF IsArray
<1>way. PICK after : Reached({start}, path, structs) = after[n] /\ Reaches(after, {start}, path, structs)
  BY ReachedUnfolds
<1>1. /\ Reached({start}, path, structs) = after[n] /\ after[0] = {start}
      /\ \A k \in 1 .. n : after[k] = UNION {StepInto(p, path[k], structs) : p \in after[k - 1]}
  BY <1>way, Zenon DEF Reaches
<1> HIDE DEF n
<1> DEFINE T == {m \in Nat : m <= n => \A p \in after[m] : \E q : Leads(q, m, p)}
<1>2. 0 \in T
  <2>1. ASSUME NEW p \in after[0] PROVE \E q : Leads(q, 0, p)
    <3>1. p = start
      BY <1>1, <2>1
    <3> DEFINE q == [k \in {0} |-> start]
    <3>2. q[0] = start
      OBVIOUS
    <3> HIDE DEF q
    <3>3. Leads(q, 0, p)
      BY <3>1, <3>2
    <3> QED BY <3>3
  <2> QED BY <2>1
<1>3. ASSUME NEW m \in Nat, m \in T PROVE m + 1 \in T
  <2> SUFFICES ASSUME m + 1 <= n, NEW p \in after[m + 1] PROVE \E q : Leads(q, m + 1, p)
    OBVIOUS
  <2>1. m + 1 \in 1 .. n /\ m <= n /\ (m + 1) - 1 = m
    BY <1>0
  <2>2. PICK r \in after[m] : p \in StepInto(r, path[m + 1], structs)
    BY <1>1, <2>1
  <2>3. PICK f : Leads(f, m, r)
    BY <1>3, <2>1
  <2> DEFINE q == [k \in 0 .. (m + 1) |-> IF k = m + 1 THEN p ELSE f[k]]
  <2>4. \A k \in 0 .. m : k \in 0 .. (m + 1) /\ k # m + 1
    OBVIOUS
  <2>5. q[m + 1] = p /\ \A k \in 0 .. m : q[k] = f[k]
    BY <2>4
  <2> HIDE DEF q
  <2>6. q[0] = start /\ q[m] = r
    BY <2>3, <2>5
  <2>7. ASSUME NEW i \in 1 .. (m + 1) PROVE q[i] \in StepInto(q[i - 1], path[i], structs)
    <3>1. CASE i = m + 1
      BY <2>1, <2>2, <2>5, <2>6, <3>1
    <3>2. CASE i # m + 1
      <4>1. i \in 1 .. m /\ i \in 0 .. m /\ i - 1 \in 0 .. m
        BY <3>2
      <4>2. f[i] \in StepInto(f[i - 1], path[i], structs)
        BY <2>3, <4>1
      <4> QED BY <2>5, <4>1, <4>2
    <3> QED BY <3>1, <3>2
  <2>8. Leads(q, m + 1, p)
    BY <2>5, <2>6, <2>7
  <2> HIDE DEF Leads
  <2> QED BY <2>8
<1>4. \A m \in Nat : m \in T
  <2> HIDE DEF T
  <2> QED BY <1>2, <1>3, AllNumbers
<1>5. PICK q : Leads(q, n, place)
  <2> HIDE DEF Leads
  <2>1. n \in T /\ n <= n /\ place \in after[n]
    BY <1>0, <1>1, <1>4 DEF n
  <2> QED BY <2>1
<1>6. \A i : i \in (0 + 1) .. n <=> i \in 1 .. n
  OBVIOUS
<1> QED BY <1>5, <1>6 DEF Trace, n

-----------------------------------------------------------------------------
(* The resolver keeps to the types. *)

\* So are the fields of all structures.
FieldsTyped(structs) ==
  \A name \in DOMAIN structs : \A k \in DOMAIN structs[name].fields : Typed(structs[name].fields[k], structs)

\* A step into an array is to one of its elements, a step into a structure to one
\* of its fields.
LEMMA StepsOfTypes ==
  ASSUME NEW place, NEW step, NEW structs, NEW to \in StepInto(place, step, structs),
         Typed(place.type, structs), FieldsTyped(structs)
  PROVE  /\ Typed(to.type, structs)
         /\ Dims(place.type) # << >> =>
              /\ ~ IsField(step) /\ Dims(to.type) = Tail(Dims(place.type))
              /\ ValueOr(to.type, "elem_size", 0) = ValueOr(place.type, "elem_size", 0)
              /\ ValueOr(to.type, "elem_type", NoName) = ValueOr(place.type, "elem_type", NoName)
              /\ to.at = place.at + step.index * SizeOf(to.type)
         /\ Dims(place.type) = << >> =>
              /\ IsField(step) /\ IsStructure(place.type, structs)
              /\ step.field + 1 \in DOMAIN FieldsOf(place.type, structs)
              /\ to.type = FieldsOf(place.type, structs)[step.field + 1]
              /\ to.at = place.at + ValueOr(to.type, "offset", 0)
<1> DEFINE type == place.type
           elem == ElementOf(type)
<1>1. CASE Dims(type) # << >>
  <2>1. ~ IsField(step) /\ to = [type |-> elem, at |-> place.at + step.index * SizeOf(elem)]
    BY <1>1 DEF StepInto
  <2>2. "shape" \in DOMAIN type /\ Dims(type) = type.shape
    BY <1>1 DEF Dims, ValueOr
  <2>3. /\ DOMAIN elem = DOMAIN type /\ elem.shape = Tail(type.shape)
        /\ \A key \in DOMAIN type \ {"shape"} : elem[key] = type[key]
    BY <2>2 DEF ElementOf
  <2>4. Dims(elem) = Tail(Dims(type))
    BY <2>2, <2>3 DEF Dims, ValueOr
  <2>5. ValueOr(elem, "elem_size", 0) = ValueOr(type, "elem_size", 0)
    BY <2>3 DEF ValueOr
  <2>6. ValueOr(elem, "elem_type", NoName) = ValueOr(type, "elem_type", NoName)
    BY <2>3 DEF ValueOr
  <2>7. IsStructure(elem, structs) <=> IsStructure(type, structs)
    BY <2>6, Zenon DEF IsStructure
  <2>8. FieldsOf(elem, structs) = FieldsOf(type, structs)
    BY <2>6, Zenon DEF FieldsOf
  <2>9. Dims(elem) \in Seq(Nat)
    BY <1>1, <2>4 DEF Typed
  <2>10. Typed(elem, structs)
    BY <2>5, <2>7, <2>8, <2>9, Zenon DEF Typed
  <2>11. to.type = elem /\ to.at = place.at + step.index * SizeOf(elem)
    BY <2>1
  <2> HIDE DEF elem
  <2> QED BY <1>1, <2>1, <2>4, <2>5, <2>6, <2>10, <2>11
<1>2. CASE Dims(type) = << >>
  <2> DEFINE fields == FieldsOf(type, structs)
             k      == step.field + 1
  <2>1. IsStructure(type, structs) /\ IsField(step)
    BY <1>2 DEF StepInto
  <2>2. k \in DOMAIN fields /\ to = [type |-> fields[k], at |-> place.at + ValueOr(fields[k], "offset", 0)]
    BY <1>2, <2>1 DEF StepInto
  <2>3. Typed(fields[k], structs)
    BY <2>1, <2>2 DEF IsStructure, FieldsOf, FieldsTyped
  <2>4. to.type = fields[k] /\ to.at = place.at + ValueOr(fields[k], "offset", 0)
    BY <2>2
  <2> HIDE DEF fields, k
  <2> QED BY <1>2, <2>1, <2>2, <2>3, <2>4 DEF fields, k
<1> QED BY <1>1, <1>2

\* All places of a trace are of types of a compiler's, and the run of indices to
\* come steps through what is left of the dimensions.
LEMMA TraceFollows ==
  ASSUME NEW path, IsArray(path), NEW structs, FieldsTyped(structs),
         NEW q, NEW from \in 0 .. Len(path), Trace(q, path, from, structs),
         Typed(q[from].type, structs), Dims(q[Len(path)].type) = << >>
  PROVE  \A i \in from .. Len(path) :
           Typed(q[i].type, structs) /\ Following(path, i) = Len(Dims(q[i].type))
<1> DEFINE n == Len(path)
           Down == {m \in Nat : from + m <= n => Typed(q[from + m].type, structs)}
           Up   == {m \in Nat : m <= n - from => Following(path, n - m) = Len(Dims(q[n - m].type))}
<1>0. n \in Nat /\ from \in Nat /\ from <= n
  BY DEF IsArray
<1> HIDE DEF n
<1>1. 0 \in Down
  BY <1>0
<1>2. ASSUME NEW m \in Nat, m \in Down PROVE m + 1 \in Down
  <2> SUFFICES ASSUME from + (m + 1) <= n PROVE Typed(q[from + (m + 1)].type, structs)
    OBVIOUS
  <2>1. /\ from + (m + 1) \in (from + 1) .. n /\ from + (m + 1) - 1 = from + m /\ from + m <= n
    BY <1>0
  <2>2. Typed(q[from + m].type, structs)
    BY <1>2, <2>1
  <2>3. q[from + (m + 1)] \in StepInto(q[from + m], path[from + (m + 1)], structs)
    BY <2>1 DEF Trace, n
  <2> QED BY <2>2, <2>3, StepsOfTypes
<1>3. \A m \in Nat : m \in Down
  <2> HIDE DEF Down
  <2> QED BY <1>1, <1>2, AllNumbers
<1>4. ASSUME NEW i \in from .. n PROVE Typed(q[i].type, structs)
  <2>1. i - from \in Nat /\ from + (i - from) = i /\ i <= n
    BY <1>0
  <2>2. i - from \in Down
    BY <1>3, <2>1
  <2> QED BY <2>1, <2>2
<1>5. 0 \in Up
  <2>1. n - 0 = n /\ n \in 0 .. n
    BY <1>0
  <2>2. Following(path, n) = 0
    BY <2>1, Followed DEF n
  <2>3. Len(Dims(q[n].type)) = 0
    BY DEF n
  <2> QED BY <2>1, <2>2, <2>3
<1>6. ASSUME NEW m \in Nat, m \in Up PROVE m + 1 \in Up
  <2> SUFFICES ASSUME m + 1 <= n - from
               PROVE  Following(path, n - (m + 1)) = Len(Dims(q[n - (m + 1)].type))
    OBVIOUS
  <2> DEFINE i == n - (m + 1)
  <2>1. /\ i \in 0 .. n /\ i \in from .. n /\ i < n /\ i + 1 = n - m /\ i + 1 \in (from + 1) .. n
        /\ i + 1 - 1 = i /\ m <= n - from
    BY <1>0
  <2> HIDE DEF i
  <2>2. Following(path, i + 1) = Len(Dims(q[i + 1].type))
    BY <1>6, <2>1
  <2>3. Typed(q[i].type, structs)
    BY <1>4, <2>1
  <2>4. q[i + 1] \in StepInto(q[i], path[i + 1], structs)
    BY <2>1 DEF Trace, n
  <2>5. CASE Dims(q[i].type) # << >>
    <3>1. ~ IsField(path[i + 1]) /\ Dims(q[i + 1].type) = Tail(Dims(q[i].type))
      BY <2>3, <2>4, <2>5, StepsOfTypes
    <3>2. Following(path, i) = Following(path, i + 1) + 1
      BY <2>1, <3>1, Followed DEF n
    <3>3. Dims(q[i].type) \in Seq(Nat)
      BY <2>3 DEF Typed
    <3>4. Len(Tail(Dims(q[i].type))) + 1 = Len(Dims(q[i].type))
      BY <2>5, <3>3
    <3> QED BY <2>2, <3>1, <3>2, <3>4 DEF i
  <2>6. CASE Dims(q[i].type) = << >>
    <3>1. IsField(path[i + 1])
      BY <2>3, <2>4, <2>6, StepsOfTypes
    <3>2. Following(path, i) = 0
      BY <2>1, <3>1, Followed DEF n
    <3> QED BY <2>6, <3>2 DEF i
  <2> QED BY <2>5, <2>6
<1>7. \A m \in Nat : m \in Up
  <2> HIDE DEF Up
  <2> QED BY <1>5, <1>6, AllNumbers
<1>8. ASSUME NEW i \in from .. n PROVE Following(path, i) = Len(Dims(q[i].type))
  <2>1. n - i \in Nat /\ n - (n - i) = i /\ n - i <= n - from
    BY <1>0
  <2>2. n - i \in Up
    BY <1>7, <2>1
  <2> QED BY <2>1, <2>2
<1> QED BY <1>4, <1>8 DEF n

\* The last so many of some dimensions.
LEMMA LastDims ==
  ASSUME NEW s \in Seq(Nat), NEW d \in 0 .. Len(s)
  PROVE  LET last == SubSeq(s, Len(s) - d + 1, Len(s))
         IN  /\ last \in Seq(Nat) /\ Len(last) = d
             /\ d = Len(s) => last = s
             /\ d > 0 => Tail(last) = SubSeq(s, Len(s) - (d - 1) + 1, Len(s))
<1> DEFINE n == Len(s)
           m == n - d + 1
           last == SubSeq(s, m, n)
<1>1. n \in Nat /\ d \in Nat /\ d <= n
  OBVIOUS
<1>2. last \in Seq(Nat) /\ Len(last) = d
  <2>1. last \in Seq(Nat)
    OBVIOUS
  <2>2. Len(last) = d
    BY <1>1
  <2> QED BY <2>1, <2>2
<1>3. ASSUME d = n PROVE last = s
  <2>1. m = 1
    BY <1>1, <1>3
  <2>2. SubSeq(s, 1, n) = s
    BY SubSeqFull
  <2> QED BY <2>1, <2>2
<1>4. ASSUME d > 0 PROVE Tail(last) = SubSeq(s, n - (d - 1) + 1, n)
  <2>1. m \in 1 .. n /\ n \in m .. n /\ m + 1 = n - (d - 1) + 1
    BY <1>1, <1>4
  <2>2. Tail(last) = SubSeq(s, m + 1, n)
    <3> HIDE DEF m
    <3> QED BY <2>1, HeadTailOfSubSeq
  <2> HIDE DEF m
  <2> QED BY <2>1, <2>2
<1> QED BY <1>2, <1>3, <1>4

\* What the walk knows of the place it is at: the offset, the element, and in
\* the end of the dimensions those that are left.
Fits(at, place, structs) ==
  LET dims  == Dims(place.type)
      shape == at.context.shape
  IN  /\ at.thrown = FALSE /\ at.offset = place.at
      /\ {"shape", "elem_size", "struct_type"} \subseteq DOMAIN at.context
      /\ at.context.elem_size = ValueOr(place.type, "elem_size", 0)
      /\ at.context.struct_type = StructTypeOf(place.type, DOMAIN structs)
      /\ dims = << >> \/
           /\ shape \in Seq(Nat) /\ Len(dims) \in 0 .. Len(shape)
           /\ dims = SubSeq(shape, Len(shape) - Len(dims) + 1, Len(shape))

\* What the loader makes of the structures.
LayoutsOf(structs) == [name \in DOMAIN structs |-> parse_struct_layout(structs[name], DOMAIN structs)]

\* Of whole types the walk knows all the dimensions.
LEMMA FitsWhole ==
  ASSUME NEW at, NEW place, NEW structs, Typed(place.type, structs),
         at.thrown = FALSE, at.offset = place.at,
         {"shape", "elem_size", "struct_type"} \subseteq DOMAIN at.context,
         at.context.elem_size = ValueOr(place.type, "elem_size", 0),
         at.context.struct_type = StructTypeOf(place.type, DOMAIN structs),
         at.context.shape = Dims(place.type)
  PROVE  Fits(at, place, structs)
<1> DEFINE dims == Dims(place.type)
<1>1. dims \in Seq(Nat)
  BY DEF Typed
<1> HIDE DEF dims
<1>2. Len(dims) \in 0 .. Len(dims) /\ dims = SubSeq(dims, Len(dims) - Len(dims) + 1, Len(dims))
  BY <1>1, LastDims
<1> QED BY <1>1, <1>2 DEF Fits, dims

\* An index strides over what is below the dimension it is an index of.
LEMMA StrideOver ==
  ASSUME NEW path, NEW i, NEW context, NEW type, NEW structs, Typed(type, structs),
         Following(path, i) = Len(Dims(type)),
         context.elem_size = ValueOr(type, "elem_size", 0), context.shape \in Seq(Nat),
         Len(Dims(type)) \in 0 .. Len(context.shape),
         Dims(type) = SubSeq(context.shape, Len(context.shape) - Len(Dims(type)) + 1, Len(context.shape))
  PROVE  Stride(path, i, context) = SizeOf(type)
<1> DEFINE d == Len(Dims(type))
           n == Len(context.shape)
           e == ValueOr(type, "elem_size", 0)
           p == Product(Dims(type))
<1>1. d \in Nat /\ n \in Nat /\ d <= n /\ e \in Nat /\ p \in Nat
  BY Products DEF Typed
<1>2. Min({Following(path, i), n}) = d
  <2> HIDE DEF d, n
  <2>1. {d, n} \subseteq Nat /\ {d, n} # {} /\ d \in {d, n}
    BY <1>1
  <2>2. Min({d, n}) \in {d, n} /\ Min({d, n}) <= d
    BY <2>1, LeastOf
  <2>3. Min({d, n}) = d
    BY <1>1, <2>2
  <2> QED BY <2>3 DEF d
<1>3. Stride(path, i, context) = e * p
  BY <1>2, Zenon DEF Stride
<1>4. SizeOf(type) = p * e
  BY DEF SizeOf
<1> HIDE DEF e, p
<1> QED BY <1>1, <1>3, <1>4

\* The walk and the way through the types stay together for a step.
LEMMA WalkFits ==
  ASSUME NEW path, NEW i, NEW structs, FieldsTyped(structs), NEW at, NEW place, NEW to,
         Fits(at, place, structs), Typed(place.type, structs),
         to \in StepInto(place, path[i], structs), Following(path, i) = Len(Dims(to.type))
  PROVE  Fits(Walked(path, i, at, LayoutsOf(structs)), to, structs)
<1> DEFINE after == Walked(path, i, at, LayoutsOf(structs))
           dims  == Dims(place.type)
           shape == at.context.shape
           d     == Len(dims)
<1>1. Typed(to.type, structs) /\ dims \in Seq(Nat) /\ Dims(to.type) \in Seq(Nat)
  BY StepsOfTypes DEF Typed
<1>2. CASE dims # << >>
  <2>1. /\ ~ IsField(path[i]) /\ Dims(to.type) = Tail(dims)
        /\ ValueOr(to.type, "elem_size", 0) = ValueOr(place.type, "elem_size", 0)
        /\ ValueOr(to.type, "elem_type", NoName) = ValueOr(place.type, "elem_type", NoName)
        /\ to.at = place.at + path[i].index * SizeOf(to.type)
    BY <1>2, StepsOfTypes
  <2>2. StructTypeOf(to.type, DOMAIN structs) = StructTypeOf(place.type, DOMAIN structs)
    BY <2>1, Zenon DEF StructTypeOf
  <2>3. /\ shape \in Seq(Nat) /\ d \in 0 .. Len(shape)
        /\ dims = SubSeq(shape, Len(shape) - d + 1, Len(shape))
    BY <1>2 DEF Fits
  <2>4. d > 0 /\ Len(Tail(dims)) = d - 1 /\ d - 1 \in 0 .. Len(shape) /\ Len(shape) \in Nat
    <3>1. d \in Nat /\ d > 0 /\ Len(Tail(dims)) = d - 1
      BY <1>1, <1>2
    <3>2. Len(shape) \in Nat
      BY <2>3
    <3> HIDE DEF d, dims, shape
    <3> QED BY <2>3, <3>1, <3>2
  <2>5. Tail(dims) = SubSeq(shape, Len(shape) - (d - 1) + 1, Len(shape))
    <3>1. Tail(SubSeq(shape, Len(shape) - d + 1, Len(shape)))
            = SubSeq(shape, Len(shape) - (d - 1) + 1, Len(shape))
      <4> HIDE DEF d, dims, shape
      <4> QED BY <2>3, <2>4, LastDims
    <3> HIDE DEF d, dims, shape
    <3> QED BY <2>3, <3>1
  <2>6. at.context.elem_size = ValueOr(to.type, "elem_size", 0)
    BY <2>1 DEF Fits
  <2>7. Len(Dims(to.type)) = d - 1
    BY <2>1, <2>4
  <2>8. Dims(to.type) = SubSeq(shape, Len(shape) - Len(Dims(to.type)) + 1, Len(shape))
    BY <2>1, <2>5, <2>7, Zenon
  <2>9. Stride(path, i, at.context) = SizeOf(to.type)
    <3>1. Len(Dims(to.type)) \in 0 .. Len(shape)
      BY <2>4, <2>7
    <3> QED BY <1>1, <2>3, <2>6, <2>8, <3>1, StrideOver
  <2>10. after = Step(path, i, at, LayoutsOf(structs))
    BY <2>1 DEF Walked, Fits
  <2> DEFINE context == IF Following(path, i) = 0 THEN [at.context EXCEPT !.shape = << >>] ELSE at.context
  <2>11. /\ after.thrown = FALSE /\ after.context = context
         /\ after.offset = at.offset + path[i].index * Stride(path, i, at.context)
    <3>1. after = [offset  |-> at.offset + path[i].index * Stride(path, i, at.context),
                   context |-> context, thrown |-> FALSE]
      BY <2>1, <2>10, Zenon DEF Step
    <3> HIDE DEF after, context
    <3> QED BY <3>1
  <2>12. after.offset = to.at
    BY <2>1, <2>9, <2>11 DEF Fits
  <2>13. /\ {"shape", "elem_size", "struct_type"} \subseteq DOMAIN context
         /\ context.elem_size = at.context.elem_size /\ context.struct_type = at.context.struct_type
         /\ Following(path, i) # 0 => context = at.context
    BY DEF Fits
  <2>14. Following(path, i) = 0 => Dims(to.type) = << >>
    <3> DEFINE rest == Dims(to.type)
    <3>1. rest \in Seq(Nat)
      BY <1>1
    <3> HIDE DEF rest
    <3>2. Len(rest) = 0 => rest = << >>
      BY <3>1
    <3> QED BY <3>2 DEF rest
  <2>15. /\ after.context.elem_size = ValueOr(to.type, "elem_size", 0)
         /\ after.context.struct_type = StructTypeOf(to.type, DOMAIN structs)
    BY <2>2, <2>6, <2>11, <2>13 DEF Fits
  <2>16. Following(path, i) # 0 => after.context.shape = shape
    BY <2>11, <2>13
  <2>17. Len(Dims(to.type)) \in 0 .. Len(shape)
    BY <2>4, <2>7
  <2>18. Dims(to.type) = << >> \/
           /\ after.context.shape \in Seq(Nat) /\ Len(Dims(to.type)) \in 0 .. Len(after.context.shape)
           /\ Dims(to.type) = SubSeq(after.context.shape,
                 Len(after.context.shape) - Len(Dims(to.type)) + 1, Len(after.context.shape))
    <3>1. CASE Following(path, i) = 0
      BY <2>14, <3>1
    <3>2. CASE Following(path, i) # 0
      BY <2>3, <2>8, <2>16, <2>17, <3>2, Zenon
    <3> QED BY <3>1, <3>2
  <2>19. {"shape", "elem_size", "struct_type"} \subseteq DOMAIN after.context
    BY <2>11, <2>13
  <2>20. after.thrown = FALSE
    BY <2>11
  <2> HIDE DEF after
  <2>21. Fits(after, to, structs)
    BY <2>12, <2>15, <2>18, <2>19, <2>20, Zenon DEF Fits
  <2> QED BY <2>21 DEF after
<1>3. CASE dims = << >>
  <2> DEFINE k    == path[i].field + 1
             name == ValueOr(place.type, "elem_type", NoName)
             type == structs[name].fields[k]
  <2>1. /\ IsField(path[i]) /\ name \in DOMAIN structs /\ k \in DOMAIN structs[name].fields
        /\ to.type = type /\ to.at = place.at + ValueOr(type, "offset", 0)
    BY <1>3, StepsOfTypes DEF IsStructure, FieldsOf
  <2>2. at.context.struct_type = name
    <3>1. StructTypeOf(place.type, DOMAIN structs) = name
      BY <2>1, Zenon DEF StructTypeOf
    <3> QED BY <3>1 DEF Fits
  <2> HIDE DEF name
  <2>3. LayoutsOf(structs)[name] = parse_struct_layout(structs[name], DOMAIN structs)
    BY <2>1 DEF LayoutsOf
  <2> DEFINE f == LayoutsOf(structs)[name].fields[k]
  <2>4. /\ DOMAIN LayoutsOf(structs)[name].fields = DOMAIN structs[name].fields
        /\ f.offset = ValueOr(type, "offset", 0)
        /\ f.shape = Dims(type) /\ f.elem_size = ValueOr(type, "elem_size", 0)
        /\ f.struct_type = StructTypeOf(type, DOMAIN structs)
        /\ {"shape", "elem_size", "struct_type"} \subseteq DOMAIN f
    <3> HIDE DEF k
    <3> QED BY <2>1, <2>3 DEF parse_struct_layout, parse_object_layout, Dims
  <2>5. HasField(at.context, path[i], LayoutsOf(structs))
    BY <2>1, <2>2, <2>4 DEF HasField, LayoutsOf
  <2>6. after = Step(path, i, at, LayoutsOf(structs))
    BY <2>5 DEF Walked, Fits
  <2>7. after = [offset |-> at.offset + f.offset, context |-> f, thrown |-> FALSE]
    <3> HIDE DEF after
    <3> QED BY <2>1, <2>2, <2>6 DEF Step
  <2>8. after.offset = at.offset + f.offset /\ after.context = f /\ after.thrown = FALSE
    BY <2>7
  <2>9. after.offset = to.at
    BY <2>1, <2>4, <2>8 DEF Fits
  <2> HIDE DEF after, f, type
  <2>10. Fits(after, to, structs)
    BY <1>1, <2>1, <2>4, <2>8, <2>9, FitsWhole
  <2> QED BY <2>10 DEF after
<1> QED BY <1>2, <1>3

\* The resolver walks along a trace: where its layout and offset fit the place of the
\* trace at one step, they do at the last (AddressResolver::resolve_offset).
LEMMA WalkAlong ==
  ASSUME NEW path, IsArray(path), NEW structs, FieldsTyped(structs),
         NEW q, NEW from \in 0 .. Len(path), Trace(q, path, from, structs),
         Typed(q[from].type, structs), Dims(q[Len(path)].type) = << >>,
         NEW after, \A k \in 1 .. Len(path) : after[k] = Walked(path, k, after[k - 1], LayoutsOf(structs)),
         Fits(after[from], q[from], structs)
  PROVE  Fits(after[Len(path)], q[Len(path)], structs)
<1> DEFINE n == Len(path)
           T == {m \in Nat : from + m <= n => Fits(after[from + m], q[from + m], structs)}
<1>0. n \in Nat /\ from \in Nat /\ from <= n
  BY DEF IsArray
<1>1. \A i \in from .. n : Typed(q[i].type, structs) /\ Following(path, i) = Len(Dims(q[i].type))
  BY TraceFollows
<1> HIDE DEF n
<1>2. 0 \in T
  BY <1>0
<1>3. ASSUME NEW m \in Nat, m \in T PROVE m + 1 \in T
  <2> SUFFICES ASSUME from + (m + 1) <= n PROVE Fits(after[from + (m + 1)], q[from + (m + 1)], structs)
    OBVIOUS
  <2> DEFINE i == from + (m + 1)
  <2>1. /\ i \in 1 .. n /\ i \in (from + 1) .. n /\ i \in from .. n /\ i - 1 = from + m
        /\ i - 1 \in from .. n /\ from + m <= n
    BY <1>0
  <2> HIDE DEF i
  <2>2. Fits(after[i - 1], q[i - 1], structs)
    BY <1>3, <2>1
  <2>3. Typed(q[i - 1].type, structs) /\ Following(path, i) = Len(Dims(q[i].type))
    BY <1>1, <2>1
  <2>4. q[i] \in StepInto(q[i - 1], path[i], structs)
    BY <2>1 DEF Trace, n
  <2>5. after[i] = Walked(path, i, after[i - 1], LayoutsOf(structs))
    BY <2>1 DEF n
  <2>6. Fits(after[i], q[i], structs)
    BY <2>2, <2>3, <2>4, <2>5, WalkFits
  <2> QED BY <2>6 DEF i
<1>4. \A m \in Nat : m \in T
  <2> HIDE DEF T
  <2> QED BY <1>2, <1>3, AllNumbers
<1>5. n - from \in Nat /\ from + (n - from) = n /\ n <= n
  BY <1>0
<1>6. n - from \in T
  BY <1>4, <1>5
<1>7. Fits(after[n], q[n], structs)
  BY <1>5, <1>6
<1> QED BY <1>7 DEF n

\* What a path names is where the resolver arrives.
LEMMA ElementResolves ==
  ASSUME NEW path, IsArray(path), NEW structs, FieldsTyped(structs), NEW type, Typed(type, structs),
         NEW at \in Places(type, path, structs)
  PROVE  LET layout == parse_object_layout(type, DOMAIN structs)
         IN  /\ Resolves(layout, path, LayoutsOf(structs))
             /\ resolve_offset(layout, path, LayoutsOf(structs)) = at
<1> DEFINE n      == Len(path)
           layout == parse_object_layout(type, DOMAIN structs)
           start  == [type |-> type, at |-> 0]
           first  == [start EXCEPT !.at = @ + Head(path).index * SizeOf(type)]
           begin  == [offset |-> 0, context |-> layout, thrown |-> FALSE]
           size   == SizeOf(type)
<1>0. n \in Nat
  BY DEF IsArray
<1>1. PICK after : /\ Walk(layout, path, LayoutsOf(structs)) = after[n] /\ after[0] = begin
                   /\ \A k \in 1 .. n : after[k] = Walked(path, k, after[k - 1], LayoutsOf(structs))
  BY WalkUnfolds
<1>2. /\ layout.shape = Dims(type) /\ layout.elem_size = ValueOr(type, "elem_size", 0)
      /\ layout.struct_type = StructTypeOf(type, DOMAIN structs)
      /\ {"shape", "elem_size", "struct_type"} \subseteq DOMAIN layout
  BY DEF parse_object_layout, Dims
<1> HIDE DEF layout
<1>3. begin.offset = 0 /\ begin.context = layout /\ begin.thrown = FALSE
  OBVIOUS
<1>4. start.type = type /\ start.at = 0
  OBVIOUS
<1>5. Fits(begin, start, structs)
  <2> HIDE DEF begin, start
  <2> QED BY <1>2, <1>3, <1>4, FitsWhole
<1>6. PICK p : /\ p.at = at /\ IsElement(p.type, structs)
               /\ \/ p \in Reached({start}, path, structs)
                  \/ /\ path # << >> /\ ~ IsField(Head(path))
                     /\ p \in Reached({first}, Tail(path), structs)
  BY DEF Places
<1>7. Dims(p.type) = << >>
  BY <1>6 DEF IsElement
<1> HIDE DEF begin, start
<1> SUFFICES Fits(after[n], p, structs)
  <2>1. ASSUME Fits(after[n], p, structs)
        PROVE  after[n].thrown = FALSE /\ after[n].offset = at
    BY <1>6, <2>1 DEF Fits
  <2> QED BY <1>1, <2>1 DEF Resolves, resolve_offset, layout
<1>8. CASE p \in Reached({start}, path, structs)
  <2>1. PICK q : q[0] = start /\ q[n] = p /\ Trace(q, path, 0, structs)
    BY <1>8, TraceOf
  <2>2. 0 \in 0 .. n
    BY <1>0
  <2>3. Fits(after[0], q[0], structs) /\ Typed(q[0].type, structs)
    BY <1>1, <1>4, <1>5, <2>1
  <2>4. Dims(q[n].type) = << >>
    BY <1>7, <2>1
  <2>5. Fits(after[n], q[n], structs)
    BY <1>1, <2>1, <2>2, <2>3, <2>4, WalkAlong
  <2> QED BY <2>1, <2>5
<1>9. CASE path # << >> /\ ~ IsField(Head(path)) /\ p \in Reached({first}, Tail(path), structs)
  <2>1. /\ IsArray(Tail(path)) /\ Len(Tail(path)) = n - 1 /\ n - 1 \in Nat /\ Head(path) = path[1]
        /\ \A i \in 1 .. (n - 1) : Tail(path)[i] = path[i + 1]
    <3>1. path \in Seq(Range(path))
      BY DEF IsArray
    <3>2. Tail(path) \in Seq(Range(path))
      BY <1>9, <3>1
    <3>3. IsArray(Tail(path))
      BY <3>2, SeqIsArray
    <3>4. Len(path) # 0
      BY <1>9, <3>1
    <3>5. Len(Tail(path)) = n - 1 /\ Head(path) = path[1]
      BY <1>9, <3>1
    <3>6. \A i \in 1 .. (n - 1) : Tail(path)[i] = path[i + 1]
      BY <1>9, <3>1
    <3>7. n - 1 \in Nat
      BY <1>0, <3>4
    <3> QED BY <3>3, <3>5, <3>6, <3>7
  <2> HIDE DEF first
  <2>2. PICK f : f[0] = first /\ f[n - 1] = p /\ Trace(f, Tail(path), 0, structs)
    <3> DEFINE rest == Tail(path)
    <3> HIDE DEF rest
    <3>1. IsArray(rest) /\ p \in Reached({first}, rest, structs)
      BY <1>9, <2>1 DEF rest
    <3>2. \E f : f[0] = first /\ f[Len(rest)] = p /\ Trace(f, rest, 0, structs)
      BY <3>1, TraceOf
    <3> HIDE DEF n
    <3> QED BY <2>1, <3>2, Zenon DEF rest
  <2> DEFINE q == [i \in 1 .. n |-> f[i - 1]]
  <2>3. q[1] = first /\ q[n] = p /\ 1 \in 0 .. n /\ 1 \in 1 .. n
    <3>1. 1 \in 1 .. n /\ n \in 1 .. n /\ 1 - 1 = 0
      BY <2>1
    <3> QED BY <2>2, <3>1
  <2>4. Trace(q, path, 1, structs)
    <3> SUFFICES ASSUME NEW i \in (1 + 1) .. n PROVE q[i] \in StepInto(q[i - 1], path[i], structs)
      BY DEF Trace
    <3>1. /\ i \in 1 .. n /\ i - 1 \in 1 .. n /\ i - 1 \in (0 + 1) .. (n - 1) /\ i - 1 \in 1 .. (n - 1)
          /\ (i - 1) + 1 = i
      BY <2>1
    <3>2. f[i - 1] \in StepInto(f[(i - 1) - 1], Tail(path)[i - 1], structs)
      BY <2>1, <2>2, <3>1 DEF Trace
    <3>3. Tail(path)[i - 1] = path[i] /\ q[i] = f[i - 1] /\ q[i - 1] = f[(i - 1) - 1]
      BY <2>1, <3>1
    <3> QED BY <3>2, <3>3
  <2> HIDE DEF q
  <2>5. first.type = type /\ first.at = 0 + Head(path).index * size
    BY DEF first, start
  <2> HIDE DEF size
  <2>6. Typed(q[1].type, structs) /\ Dims(q[n].type) = << >>
    BY <1>7, <2>3, <2>5
  <2>7. Following(path, 1) = Len(Dims(type))
    <3>1. 1 \in 1 .. n
      BY <2>3
    <3>2. \A i \in 1 .. n : Following(path, i) = Len(Dims(q[i].type))
      BY <2>3, <2>4, <2>6, TraceFollows
    <3> QED BY <2>3, <2>5, <3>1, <3>2
  <2>8. Dims(type) \in Seq(Nat)
    BY DEF Typed
  <2>9. Stride(path, 1, layout) = size
    <3>1. /\ Len(Dims(type)) \in 0 .. Len(Dims(type))
          /\ Dims(type) = SubSeq(Dims(type), Len(Dims(type)) - Len(Dims(type)) + 1, Len(Dims(type)))
      <4> DEFINE d == Dims(type)
      <4> HIDE DEF d
      <4>1. Len(d) \in 0 .. Len(d) /\ d = SubSeq(d, Len(d) - Len(d) + 1, Len(d))
        BY <2>8, LastDims DEF d
      <4> QED BY <4>1 DEF d
    <3>2. /\ layout.shape \in Seq(Nat) /\ Len(Dims(type)) \in 0 .. Len(layout.shape)
          /\ Dims(type) = SubSeq(layout.shape, Len(layout.shape) - Len(Dims(type)) + 1, Len(layout.shape))
      BY <1>2, <2>8, <3>1, Zenon
    <3> QED BY <1>2, <2>7, <3>2, StrideOver DEF size
  <2> DEFINE context == IF Following(path, 1) = 0 THEN [layout EXCEPT !.shape = << >>] ELSE layout
  <2>10. after[1] = [offset |-> 0 + path[1].index * size, context |-> context, thrown |-> FALSE]
    <3>1. after[1] = Walked(path, 1, begin, LayoutsOf(structs))
      BY <1>1, <2>3
    <3>2. ~ IsField(path[1])
      BY <1>9, <2>1
    <3>3. Walked(path, 1, begin, LayoutsOf(structs)) = Step(path, 1, begin, LayoutsOf(structs))
      BY <1>3, <3>2 DEF Walked
    <3> QED BY <1>3, <2>9, <3>1, <3>2, <3>3, Zenon DEF Step
  <2>11. /\ {"shape", "elem_size", "struct_type"} \subseteq DOMAIN context
         /\ context.elem_size = layout.elem_size /\ context.struct_type = layout.struct_type
         /\ context.shape = Dims(type)
    <3>1. Following(path, 1) = 0 => Dims(type) = << >>
      <4> DEFINE d == Dims(type)
      <4> HIDE DEF d
      <4>1. Len(d) = 0 => d = << >>
        BY <2>8 DEF d
      <4> QED BY <2>7, <4>1 DEF d
    <3> QED BY <1>2, <3>1
  <2> HIDE DEF context
  <2>12. after[1].offset = 0 + path[1].index * size /\ after[1].context = context /\ after[1].thrown = FALSE
    BY <2>10
  <2>13. Fits(after[1], q[1], structs)
    BY <1>2, <2>1, <2>3, <2>5, <2>6, <2>11, <2>12, FitsWhole
  <2>14. Fits(after[n], q[n], structs)
    BY <1>1, <2>3, <2>4, <2>6, <2>13, WalkAlong
  <2> QED BY <2>3, <2>14
<1> QED BY <1>6, <1>8, <1>9

-----------------------------------------------------------------------------
(* What is unrolled is what was parsed. *)

\* A function of a document that loads has a body that parses.
LEMMA LoadedFunction ==
  ASSUME document \in Documents, Loads(document),
         NEW name \in {fn.function : fn \in Range(document.functions)}
  PROVE  LET fns == document.functions
             fn  == Defining(fns, name)
         IN  /\ IsArray(fns) /\ GoodList(fn.body) /\ IsArray(ValueOr(fn, "params", << >>))
             /\ \E k \in DOMAIN fns : /\ fn = fns[k] /\ fns[k].function = name
                                      /\ \A l \in (k + 1) .. Len(fns) : fns[l].function # name
<1> DEFINE fns == document.functions
           fn  == Defining(fns, name)
           S   == {k \in DOMAIN fns : fns[k].function = name}
           n   == Len(fns)
<1>1. "functions" \in DOMAIN document /\ \A f \in Range(fns) : FunctionParses(f)
  BY DEF Loads
<1>2. /\ IsArray(fns)
      /\ \A f \in Range(fns) : Reads(f, {"body"}, {"params"}) =>
           f.body \in Seq(Nodes) /\ IsArray(ValueOr(f, "params", << >>))
  BY <1>1, JsonAssumption
<1>3. n \in Nat /\ DOMAIN fns = 1 .. n
  BY <1>2 DEF IsArray
<1>4. S \subseteq 1 .. n /\ S # {}
  BY <1>3 DEF Range
<1> DEFINE k == Max(S)
<1>5. k \in S /\ \A l \in S : l <= k
  BY <1>3, <1>4, MaxOfPlaces
<1>6. fn = fns[k]
  BY DEF Defining
<1> HIDE DEF k
<1>7. k \in DOMAIN fns /\ fns[k].function = name
  BY <1>5
<1>8. \A l \in (k + 1) .. n : fns[l].function # name
  <2> SUFFICES ASSUME NEW l \in (k + 1) .. n, fns[l].function = name PROVE FALSE
    OBVIOUS
  <2>1. l \in S /\ l > k
    BY <1>3, <1>7
  <2> HIDE DEF S
  <2> QED BY <1>3, <1>4, <1>5, <2>1
<1>9. fn \in Range(fns)
  BY <1>6, <1>7 DEF Range
<1> HIDE DEF fn
<1>10. Reads(fn, {"body"}, {"params"}) /\ \A j \in Range(fn.body) : parse_node_v2[j] # Thrown
  BY <1>1, <1>9 DEF FunctionParses, Reads
<1>11. fn.body \in Seq(Nodes) /\ IsArray(ValueOr(fn, "params", << >>))
  BY <1>2, <1>9, <1>10
<1>12. GoodList(fn.body)
  BY <1>10, <1>11 DEF GoodList, Good, Range
<1> QED BY <1>2, <1>6, <1>7, <1>8, <1>11, <1>12 DEF fn

\* A list of nodes that were parsed.
FromDocument(list) ==
  IsArray(list) /\ \A k \in DOMAIN list : \E j : Good(j) /\ list[k] = parse_node_v2[j]

\* The nodes a list is parsed to are from the document.
LEMMA ParsedListFrom ==
  ASSUME NEW nodes, GoodList(nodes)
  PROVE  FromDocument(ParsedList(nodes))
<1> DEFINE list == ParsedList(nodes)
<1>1. DOMAIN list = DOMAIN nodes /\ \A k \in DOMAIN nodes : list[k] = parse_node_v2[nodes[k]]
  BY DEF ParsedList
<1>2. IsArray(list)
  <2>1. DOMAIN nodes = 1 .. Len(nodes) /\ Len(nodes) \in Nat
    BY DEF GoodList
  <2>2. list = [k \in 1 .. Len(nodes) |-> list[k]]
    BY <2>1 DEF ParsedList
  <2> HIDE DEF list
  <2>3. list \in Seq(Range(list))
    BY <1>1, <2>1, <2>2 DEF Range
  <2> QED BY <2>3 DEF IsArray
<1> HIDE DEF list
<1>3. FromDocument(list)
  BY <1>1, <1>2 DEF FromDocument, GoodList
<1> QED BY <1>3 DEF list

\* What a node of each kind is made of.
LEMMA NodeFrom ==
  ASSUME NEW j, Good(j), NEW n, n = parse_node_v2[j]
  PROVE  /\ n.kind = j.type /\ n.kind \in {"Loop", "Array", "Scalar", "Call"}
         /\ n.kind = "Loop" => FromDocument(n.body)
         /\ n.kind = "Array" => IsArray(n.access_path)
<1>1. KeysParse(j) /\ GoodList(Body(j)) /\ n = NodeOf(j, ParsedList(Body(j)))
  BY GoodNode
<1>2. j.type \in {"Loop", "Array", "Scalar", "Call"}
  BY <1>1 DEF KeysParse
<1>3. n.kind = j.type
  BY <1>1, <1>2 DEF NodeOf
<1>4. ASSUME j.type = "Loop" PROVE n.body = ParsedList(Body(j))
  BY <1>1, <1>4 DEF NodeOf
<1>5. ASSUME j.type = "Array" PROVE IsArray(n.access_path)
  <2> DEFINE path == ValueOr(j, "access_path", << >>)
             parsed == [k \in DOMAIN path |-> parse_step(path[k])]
  <2>1. n.access_path = parsed
    BY <1>1, <1>5 DEF NodeOf
  <2>2. IsArray(path)
    BY <1>1, <1>5, JsonAssumption DEF Good
  <2>3. DOMAIN path = 1 .. Len(path) /\ Len(path) \in Nat
    BY <2>2 DEF IsArray
  <2>4. parsed \in Seq(Range(parsed))
    <3>1. DOMAIN parsed = 1 .. Len(path)
      BY <2>3
    <3>2. parsed = [k \in 1 .. Len(path) |-> parsed[k]]
      BY <2>3
    <3> HIDE DEF parsed
    <3> QED BY <2>3, <3>1, <3>2 DEF Range
  <2> QED BY <2>1, <2>4 DEF IsArray
<1> QED BY <1>1, <1>2, <1>3, <1>4, <1>5, ParsedListFrom

-----------------------------------------------------------------------------
(* What is on the stack. *)

\* A stack, and one element more.
LEMMA OnTop ==
  ASSUME NEW s, IsArray(s), NEW f
  PROVE  /\ IsArray(<<f>> \o s) /\ <<f>> \o s # << >> /\ Len(s) \in Nat /\ Len(<<f>> \o s) = Len(s) + 1
         /\ (<<f>> \o s)[1] = f /\ \A k \in 1 .. Len(s) : (<<f>> \o s)[k + 1] = s[k]
         /\ Head(<<f>> \o s) = f /\ Tail(<<f>> \o s) = s
<1> DEFINE S == Range(s) \cup {f}
           t == <<f>> \o s
<1>1. s \in Seq(S) /\ <<f>> \in Seq(S)
  BY DEF IsArray
<1>2. t \in Seq(S) /\ Len(s) \in Nat /\ Len(t) = Len(s) + 1 /\ t[1] = f /\ \A k \in 1 .. Len(s) : t[k + 1] = s[k]
  BY <1>1
<1>3. t # << >> /\ Head(t) = f /\ Tail(t) = s
  BY <1>1
<1> HIDE DEF t
<1>4. IsArray(t)
  BY <1>2, SeqIsArray
<1> QED BY <1>2, <1>3, <1>4 DEF t

\* A stack, and one element less.
LEMMA Below ==
  ASSUME NEW s, IsArray(s), s # << >>
  PROVE  /\ IsArray(Tail(s)) /\ Len(s) \in Nat \ {0} /\ Len(Tail(s)) = Len(s) - 1 /\ DOMAIN s = 1 .. Len(s)
         /\ Head(s) = s[1] /\ (\A k \in 1 .. Len(Tail(s)) : Tail(s)[k] = s[k + 1] /\ k + 1 \in 1 .. Len(s))
         /\ s = <<Head(s)>> \o Tail(s)
<1> DEFINE t == Tail(s)
<1>1. s \in Seq(Range(s))
  BY DEF IsArray
<1>2. /\ t \in Seq(Range(s)) /\ Len(s) \in Nat \ {0} /\ Len(t) = Len(s) - 1 /\ DOMAIN s = 1 .. Len(s)
      /\ Head(s) = s[1] /\ \A k \in 1 .. Len(t) : t[k] = s[k + 1] /\ k + 1 \in 1 .. Len(s)
  BY <1>1
<1>3. s = <<Head(s)>> \o t
  BY <1>1
<1> HIDE DEF t
<1>4. IsArray(t)
  BY <1>2, SeqIsArray
<1> QED BY <1>2, <1>3, <1>4 DEF t

\* A frame of nodes of the document.
DocumentFrame(f) ==
  /\ DOMAIN f = {"todo", "path", "bindings", "subst", "loop"}
  /\ FromDocument(f.todo) /\ (f.loop # NoLoop => FromDocument(f.loop.body))

\* A stack of such frames.
DocumentStack(s) == IsArray(s) /\ \A k \in DOMAIN s : DocumentFrame(s[k])

\* A frame of the document is put on the stack.
LEMMA StackPushed ==
  ASSUME NEW s, DocumentStack(s), NEW f, DocumentFrame(f)
  PROVE  DocumentStack(<<f>> \o s)
<1> DEFINE t == <<f>> \o s
<1>1. /\ IsArray(t) /\ Len(s) \in Nat /\ Len(t) = Len(s) + 1
      /\ t[1] = f /\ \A k \in 1 .. Len(s) : t[k + 1] = s[k]
  BY OnTop DEF DocumentStack
<1> HIDE DEF t
<1>2. DOMAIN t = 1 .. (Len(s) + 1) /\ DOMAIN s = 1 .. Len(s)
  BY <1>1 DEF IsArray, DocumentStack
<1>3. ASSUME NEW k \in DOMAIN t PROVE DocumentFrame(t[k])
  <2>1. CASE k = 1
    BY <1>1, <2>1
  <2>2. CASE k # 1
    <3>1. k - 1 \in 1 .. Len(s) /\ (k - 1) + 1 = k
      BY <1>1, <1>2, <2>2
    <3>2. t[k] = s[k - 1]
      BY <1>1, <3>1
    <3> QED BY <1>2, <3>1, <3>2 DEF DocumentStack
  <2> QED BY <2>1, <2>2
<1>4. DocumentStack(t)
  BY <1>1, <1>3 DEF DocumentStack
<1> QED BY <1>4 DEF t

\* A frame is taken off the stack.
LEMMA StackPopped ==
  ASSUME NEW s, DocumentStack(s), s # << >>
  PROVE  DocumentStack(Tail(s)) /\ DocumentFrame(Head(s))
<1> DEFINE t == Tail(s)
<1>1. /\ IsArray(t) /\ Len(s) \in Nat \ {0} /\ DOMAIN s = 1 .. Len(s) /\ Head(s) = s[1]
      /\ \A k \in 1 .. Len(t) : t[k] = s[k + 1] /\ k + 1 \in 1 .. Len(s)
  BY Below DEF DocumentStack
<1> HIDE DEF t
<1>2. DOMAIN t = 1 .. Len(t) /\ 1 \in 1 .. Len(s)
  BY <1>1 DEF IsArray
<1>3. DocumentStack(t) /\ DocumentFrame(Head(s))
  BY <1>1, <1>2 DEF DocumentStack
<1> QED BY <1>3 DEF t

\* The nodes left are of the document, and so is the next one.
LEMMA ListShortened ==
  ASSUME NEW list, FromDocument(list), list # << >>
  PROVE  FromDocument(Tail(list)) /\ \E j : Good(j) /\ Head(list) = parse_node_v2[j]
<1> DEFINE t == Tail(list)
<1>1. /\ IsArray(t) /\ Len(list) \in Nat \ {0} /\ DOMAIN list = 1 .. Len(list) /\ Head(list) = list[1]
      /\ \A k \in 1 .. Len(t) : t[k] = list[k + 1] /\ k + 1 \in 1 .. Len(list)
  BY Below DEF FromDocument
<1> HIDE DEF t
<1>2. DOMAIN t = 1 .. Len(t) /\ 1 \in 1 .. Len(list)
  BY <1>1 DEF IsArray
<1>3. FromDocument(t)
  BY <1>1, <1>2 DEF FromDocument
<1>4. \E j : Good(j) /\ list[1] = parse_node_v2[j]
  BY <1>1, <1>2 DEF FromDocument
<1> QED BY <1>1, <1>3, <1>4 DEF t

\* A frame whose nodes are replaced.
LEMMA FrameWith ==
  ASSUME NEW f, DocumentFrame(f), NEW list, FromDocument(list)
  PROVE  DocumentFrame([f EXCEPT !.todo = list])
<1> DEFINE g == [f EXCEPT !.todo = list]
<1>1. DOMAIN g = DOMAIN f /\ g.todo = list /\ g.loop = f.loop
  BY DEF DocumentFrame
<1> HIDE DEF g
<1>2. DocumentFrame(g)
  BY <1>1 DEF DocumentFrame
<1> QED BY <1>2 DEF g

\* The node at hand is one of the document, and so is what is left when it is visited.
LEMMA StackVisited ==
  ASSUME DocumentStack(stack), stack # << >>, top.todo # << >>
  PROVE  DocumentStack(Visited) /\ DocumentFrame(top) /\ \E j : Good(j) /\ node = parse_node_v2[j]
<1>1. DocumentFrame(top) /\ DocumentStack(Tail(stack))
  BY StackPopped DEF top
<1>2. FromDocument(Tail(top.todo)) /\ \E j : Good(j) /\ node = parse_node_v2[j]
  BY <1>1, ListShortened DEF DocumentFrame, node
<1>3. DocumentFrame([top EXCEPT !.todo = Tail(top.todo)])
  BY <1>1, <1>2, FrameWith
<1>4. DocumentStack(<<[top EXCEPT !.todo = Tail(top.todo)]>> \o Tail(stack))
  BY <1>1, <1>3, StackPushed
<1> QED BY <1>1, <1>2, <1>4 DEF Visited

-----------------------------------------------------------------------------
(* What has been computed. *)

\* LayoutOf, in some objects.
LayoutIn(objects, id) == IF id \in DOMAIN objects THEN objects[id] ELSE NoLayout

\* The offset of an event is the one its path resolves to.
Computed(objects, structs, e) ==
  IsArray(e.path) /\ e.byte_offset = resolve_offset(LayoutIn(objects, e.object_name), e.path, structs)

\* The functions are the document's, so are the nodes on the stack, and the events
\* are computed.
BuiltFrom(functions, objects, structs, frames, events) ==
  /\ \A name \in DOMAIN functions : FromDocument(functions[name])
  /\ DocumentStack(frames)
  /\ IsArray(events) /\ \A k \in DOMAIN events : Computed(objects, structs, events[k])

\* So it is with the program, the stack and the events there are.
Built ==
  \E functions, objects, structs, frames, events :
    /\ functions = program.functions /\ objects = program.objects /\ structs = program.structs
    /\ frames = stack /\ events = out
    /\ BuiltFrom(functions, objects, structs, frames, events)

\* A path of no steps is at the start.
LEMMA NoSteps ==
  ASSUME NEW object, NEW structs
  PROVE  resolve_offset(object, << >>, structs) = 0
<1>1. IsArray(<< >>)
  BY DEF IsArray
<1>2. PICK after : /\ Walk(object, << >>, structs) = after[Len(<< >>)]
                   /\ after[0] = [offset |-> 0, context |-> object, thrown |-> FALSE]
  BY <1>1, WalkUnfolds
<1>3. Len(<< >>) = 0 /\ after[0].offset = 0
  BY <1>2
<1> QED BY <1>2, <1>3 DEF resolve_offset

\* An evaluated path is a sequence of steps.
LEMMA PathEvaluated ==
  ASSUME NEW path, IsArray(path), NEW vars
  PROVE  IsArray(EvalPath(path, vars))
<1> DEFINE e == EvalPath(path, vars)
<1>1. DOMAIN path = 1 .. Len(path) /\ Len(path) \in Nat
  BY DEF IsArray
<1>2. DOMAIN e = 1 .. Len(path) /\ e = [k \in 1 .. Len(path) |-> e[k]]
  BY <1>1 DEF EvalPath
<1> HIDE DEF e
<1>3. e \in Seq(Range(e))
  BY <1>1, <1>2 DEF Range
<1>4. IsArray(e)
  BY <1>3 DEF IsArray
<1> QED BY <1>4 DEF e

\* An event more.
LEMMA ComputedNext ==
  ASSUME NEW functions, NEW objects, NEW structs, NEW frames, NEW events,
         BuiltFrom(functions, objects, structs, frames, events),
         NEW e, Computed(objects, structs, e), NEW s, DocumentStack(s)
  PROVE  BuiltFrom(functions, objects, structs, s, Append(events, e))
<1> DEFINE more == Append(events, e)
<1>1. /\ IsArray(more) /\ Len(events) \in Nat /\ Len(more) = Len(events) + 1
      /\ more[Len(events) + 1] = e /\ \A i \in 1 .. Len(events) : more[i] = events[i]
  BY Appended DEF BuiltFrom
<1> HIDE DEF more
<1>2. DOMAIN more = 1 .. (Len(events) + 1) /\ DOMAIN events = 1 .. Len(events)
  BY <1>1 DEF IsArray, BuiltFrom
<1>3. ASSUME NEW k \in DOMAIN more PROVE Computed(objects, structs, more[k])
  <2>1. CASE k = Len(events) + 1
    BY <1>1, <2>1
  <2>2. CASE k # Len(events) + 1
    <3>1. k \in 1 .. Len(events)
      BY <1>1, <1>2, <2>2
    <3> QED BY <1>1, <1>2, <3>1 DEF BuiltFrom
  <2> QED BY <2>1, <2>2
<1>4. BuiltFrom(functions, objects, structs, s, more)
  BY <1>1, <1>3 DEF BuiltFrom
<1> QED BY <1>4 DEF more

\* Every step of the builder keeps Built (visit_v2 and its callees).
LEMMA BuiltStep ==
  ASSUME Built, BuilderStep
  PROVE  Built'
<1> DEFINE functions == program.functions
           objects   == program.objects
           structs   == program.structs
<1>0. BuiltFrom(functions, objects, structs, stack, out)
  BY DEF Built
<1>1. program' = program
  BY StepsKeepProgram
<1> SUFFICES BuiltFrom(functions, objects, structs, stack', out')
  BY <1>1 DEF Built
<1>2. DocumentStack(stack) /\ \A name \in DOMAIN functions : FromDocument(functions[name])
  BY <1>0 DEF BuiltFrom
<1> HIDE DEF functions, objects, structs
<1>3. ASSUME DocumentStack(stack'), out' = out
      PROVE  BuiltFrom(functions, objects, structs, stack', out')
  BY <1>0, <1>3 DEF BuiltFrom
<1>4. ASSUME NEW name \in DOMAIN functions, NEW path, NEW bindings, NEW subst
      PROVE  DocumentFrame(FunctionFrame(functions[name], path, bindings, subst))
  BY <1>2 DEF DocumentFrame, FunctionFrame
<1>5. CASE VisitRoot
  <2>1. DocumentStack(<< >>)
    BY DEF DocumentStack, IsArray
  <2>2. ASSUME NEW f, DocumentFrame(f) PROVE DocumentStack(<<f>>)
    <3>1. DocumentStack(<<f>> \o << >>)
      BY <2>1, <2>2, StackPushed
    <3>2. <<f>> \o << >> = <<f>>
      <4>1. <<f>> \in Seq({f})
        OBVIOUS
      <4> QED BY <4>1
    <3> QED BY <3>1, <3>2
  <2>3. DocumentStack(stack')
    BY <1>4, <1>5, <2>1, <2>2 DEF VisitRoot, functions
  <2> QED BY <1>3, <1>5, <2>3 DEF VisitRoot
<1>6. CASE Finish
  BY <1>2, <1>3, <1>6 DEF Finish
<1>7. CASE VisitScalar
  <2>1. DocumentStack(stack')
    BY <1>2, <1>7, StackVisited DEF VisitScalar, Visiting
  <2>2. Computed(objects, structs, Event(<< >>, 0))
    <3>1. Event(<< >>, 0).path = << >> /\ Event(<< >>, 0).byte_offset = 0
      BY DEF Event
    <3> DEFINE e == Event(<< >>, 0)
    <3> HIDE DEF Event, e
    <3>2. e.path = << >> /\ e.byte_offset = 0
      BY <3>1 DEF e
    <3>3. IsArray(<< >>)
      BY DEF IsArray
    <3>4. Computed(objects, structs, e)
      BY <3>2, <3>3, NoSteps DEF Computed
    <3> QED BY <3>4 DEF e
  <2> QED BY <1>0, <1>7, <2>1, <2>2, ComputedNext DEF VisitScalar
<1>8. CASE VisitArray
  <2> DEFINE vars   == Vars(loop_stack, top.bindings)
             path   == EvalPath(node.access_path, vars)
             id     == ResolveObject(node.object, top.subst)
             offset == resolve_offset(LayoutOf(id), path, structs)
  <2>1. CASE out' = out /\ stack' = stack
    BY <1>2, <1>3, <2>1
  <2>2. CASE out' = Append(out, Event(path, offset)) /\ stack' = Visited
    <3>1. DocumentStack(Visited) /\ \E j : Good(j) /\ node = parse_node_v2[j]
      BY <1>2, <1>8, StackVisited DEF VisitArray, Visiting
    <3>2. IsArray(node.access_path)
      BY <1>8, <3>1, NodeFrom DEF VisitArray, Visiting
    <3>3. IsArray(path)
      BY <3>2, PathEvaluated
    <3> HIDE DEF path
    <3>4. Event(path, offset).path = path /\ Event(path, offset).byte_offset = offset
          /\ Event(path, offset).object_name = id
      BY DEF Event
    <3>5. LayoutOf(id) = LayoutIn(objects, id)
      BY DEF LayoutOf, LayoutIn, objects
    <3> HIDE DEF id
    <3>6. Computed(objects, structs, Event(path, offset))
      <4> HIDE DEF Event
      <4> QED BY <3>3, <3>4, <3>5 DEF Computed
    <3> QED BY <1>0, <2>2, <3>1, <3>6, ComputedNext
  <2> QED BY <1>8, <2>1, <2>2 DEF VisitArray, Throw, structs
<1>9. CASE VisitLoop
  <2>1. DocumentStack(Visited) /\ DocumentFrame(top) /\ node.kind = "Loop" /\ \E j : Good(j) /\ node = parse_node_v2[j]
    BY <1>2, <1>9, StackVisited DEF VisitLoop, Visiting
  <2>2. FromDocument(node.body)
    BY <2>1, NodeFrom
  <2> DEFINE f == [top EXCEPT !.todo = node.body, !.loop = node]
  <2>3. DocumentFrame(f)
    <3>1. DOMAIN f = DOMAIN top /\ f.todo = node.body /\ f.loop = node
      BY <2>1 DEF DocumentFrame
    <3> HIDE DEF f
    <3> QED BY <2>1, <2>2, <3>1 DEF DocumentFrame
  <2> HIDE DEF f
  <2>4. DocumentStack(<<f>> \o Visited)
    BY <2>1, <2>3, StackPushed
  <2> QED BY <1>3, <1>9, <2>1, <2>4 DEF VisitLoop, f
<1>10. CASE NextIteration
  <2>1. DocumentFrame(top) /\ DocumentStack(Tail(stack)) /\ FromDocument(top.loop.body)
    BY <1>2, <1>10, StackPopped DEF NextIteration, top, DocumentFrame
  <2>2. DocumentFrame([top EXCEPT !.todo = top.loop.body])
    BY <2>1, FrameWith
  <2>3. DocumentStack(<<[top EXCEPT !.todo = top.loop.body]>> \o Tail(stack))
    BY <2>1, <2>2, StackPushed
  <2> QED BY <1>3, <1>10, <2>1, <2>3 DEF NextIteration
<1>11. CASE VisitCall
  <2>1. DocumentStack(Visited)
    BY <1>2, <1>11, StackVisited DEF VisitCall, Visiting
  <2>2. CASE stack' = stack
    BY <1>2, <1>3, <1>11, <2>2 DEF VisitCall, Throw
  <2>3. CASE stack' = Visited
    BY <1>3, <1>11, <2>1, <2>3 DEF VisitCall, Throw
  <2>4. CASE node.callee \in DOMAIN functions /\ stack' # stack /\ stack' # Visited
    <3> DEFINE f == FunctionFrame(functions[node.callee], Append(top.path, node.callee),
                                  CalleeBindings(node, top.subst, Vars(loop_stack, top.bindings)),
                                  CalleeSubst(node, top.subst))
    <3>1. DocumentFrame(f)
      BY <1>4, <2>4
    <3>2. stack' = <<f>> \o Visited /\ out' = out
      BY <1>11, <2>4 DEF VisitCall, Throw, functions
    <3> HIDE DEF f
    <3>3. DocumentStack(<<f>> \o Visited)
      BY <2>1, <3>1, StackPushed
    <3> QED BY <1>3, <3>2, <3>3
  <2> QED BY <1>11, <2>2, <2>3, <2>4 DEF VisitCall, functions
<1>12. CASE Return
  BY <1>2, <1>3, <1>12, StackPopped DEF Return
<1> QED BY <1>5, <1>6, <1>7, <1>8, <1>9, <1>10, <1>11, <1>12 DEF BuilderStep

-----------------------------------------------------------------------------
(* Offsets. *)

\* The program is the document's.
Ready == Loads(document) /\ program = load_program_string(document)

\* Before that there is none, and nothing is built.
Unrolled ==
  /\ Built
  /\ \/ Ready /\ status # "loading"
     \/ program = NoProgram /\ stack = << >> /\ out = << >> /\ status \in {"loading", "failed"}

\* What the program knows of functions, objects and structures.
LEMMA WhatIsLoaded ==
  ASSUME document \in Documents, Loads(document), NEW p, p = load_program_string(document)
  PROVE  /\ \A name \in DOMAIN p.functions : FromDocument(p.functions[name])
         /\ DOMAIN p.objects = DOMAIN Objects(document.metadata)
         /\ p.structs = LayoutsOf(Structs(document.metadata))
<1> DEFINE names   == {fn.function : fn \in Range(document.functions)}
           structs == Structs(document.metadata)
<1>1. ASSUME NEW name \in DOMAIN p.functions PROVE FromDocument(p.functions[name])
  <2> DEFINE fn == Defining(document.functions, name)
  <2>1. DOMAIN p.functions = names
    BY DEF load_program_string
  <2>2. p.functions[name] = ParsedList(fn.body)
    BY <2>1 DEF load_program_string, ParsedList
  <2>3. GoodList(fn.body)
    BY <2>1, LoadedFunction
  <2> HIDE DEF fn
  <2> QED BY <2>2, <2>3, ParsedListFrom
<1>2. DOMAIN p.objects = DOMAIN Objects(document.metadata)
  BY DEF load_program_string
<1>3. p.structs = [name \in DOMAIN structs |->
                           parse_struct_layout(document.metadata.structs[name], DOMAIN structs)]
  BY DEF load_program_string
<1>4. ASSUME NEW name \in DOMAIN structs PROVE document.metadata.structs[name] = structs[name]
  <2>1. CASE "structs" \notin DOMAIN document.metadata
    <3>1. structs = << >>
      BY <2>1 DEF Structs, ValueOr
    <3> QED BY <3>1
  <2>2. CASE "structs" \in DOMAIN document.metadata
    BY <2>2 DEF Structs, ValueOr
  <2> QED BY <2>1, <2>2
<1>5. p.structs = LayoutsOf(structs)
  BY <1>3, <1>4, Zenon DEF LayoutsOf
<1> QED BY <1>1, <1>2, <1>5

\* Every step of a loader keeps Unrolled, whatever of a run comes after it.
LEMMA UnrolledStep ==
  ASSUME document \in Documents, Unrolled,
         \/ Load
         \/ BuilderStep /\ UNCHANGED document
         \/ Throw /\ status # "loading" /\ UNCHANGED document
         \/ UNCHANGED loaderVars
  PROVE  Unrolled'
<1>1. CASE program' = program /\ document' = document /\ stack' = stack /\ out' = out
           /\ (status' = "failed" \/ status' = status)
  BY <1>1 DEF Unrolled, Ready, Built
<1>2. CASE Load /\ Loads(document)
  <2>1. /\ program' = load_program_string(document) /\ document' = document /\ stack' = stack /\ out' = out
        /\ status = "loading"
    BY <1>2 DEF Load, Begin
  <2>2. \A name \in DOMAIN program'.functions : FromDocument(program'.functions[name])
    BY <1>2, <2>1, WhatIsLoaded
  <2>3. DocumentStack(<< >>) /\ IsArray(<< >>) /\ DOMAIN << >> = {}
    BY DEF DocumentStack, IsArray
  <2>4. stack' = << >> /\ out' = << >>
    BY <2>1 DEF Unrolled
  <2>5. BuiltFrom(program'.functions, program'.objects, program'.structs, stack', out')
    BY <2>2, <2>3, <2>4 DEF BuiltFrom
  <2>6. Built'
    BY <2>5 DEF Built
  <2> QED BY <1>2, <2>1, <2>6 DEF Unrolled, Ready, Load, Begin
<1>3. CASE BuilderStep /\ document' = document
  <2>1. program' = program /\ status = "running" /\ status' # "loading"
    BY <1>3, StepsKeepProgram
  <2>2. Built'
    BY <1>3, BuiltStep DEF Unrolled
  <2> QED BY <1>3, <2>1, <2>2 DEF Unrolled, Ready
<1> QED BY <1>1, <1>2, <1>3 DEF Load, Throw, loaderVars, builderVars

\* Over the whole of the run.
LEMMA UnrolledAlways == PlacementSpec => []Unrolled
<1>1. PlacementInit => Unrolled
  <2> SUFFICES ASSUME PlacementInit PROVE Unrolled
    OBVIOUS
  <2>1. program = NoProgram /\ stack = << >> /\ out = << >> /\ status = "loading"
    BY DEF PlacementInit, LoaderInit, BuilderInit
  <2>2. DocumentStack(<< >>) /\ IsArray(<< >>) /\ DOMAIN << >> = {}
    BY DEF DocumentStack, IsArray
  <2>3. BuiltFrom(program.functions, program.objects, program.structs, stack, out)
    BY <2>1, <2>2 DEF BuiltFrom, NoProgram
  <2> QED BY <2>1, <2>3 DEF Unrolled, Built
<1>2. Placed /\ Unrolled /\ [PlacementNext]_placementVars => Unrolled'
  <2> SUFFICES ASSUME Placed, Unrolled, [PlacementNext]_placementVars PROVE Unrolled'
    OBVIOUS
  <2>1. document \in Documents
    BY DEF Placed
  <2> QED BY <2>1, UnrolledStep DEF PlacementNext, LoadProgram, AddObject, BuildEvents, MapEvent,
             UnknownObject, Mapping, placementVars
<1> QED BY <1>1, <1>2, PlacedAlways, PTL DEF PlacementSpec

\* An access of a registered object resolves to the place of the element its path
\* names, if it names one.
LEMMA ComputedOffset ==
  ASSUME document \in Documents, Unrolled, NEW k \in DOMAIN out, IsRegistered(out[k].object_name),
         NEW at \in PlacesOf(out[k])
  PROVE  out[k].byte_offset = at
<1> DEFINE id      == out[k].object_name
           path    == out[k].path
           structs == Structs(document.metadata)
<1>1. Ready /\ BuiltFrom(program.functions, program.objects, program.structs, stack, out)
  BY DEF Unrolled, Built
<1>2. DOMAIN program.objects = DOMAIN Objects(document.metadata) /\ program.structs = LayoutsOf(structs)
  BY <1>1, WhatIsLoaded DEF Ready
<1>3. IsArray(path) /\ out[k].byte_offset = resolve_offset(LayoutIn(program.objects, id), path, program.structs)
  BY <1>1 DEF BuiltFrom, Computed
<1>4. id \in DOMAIN program.objects /\ LayoutIn(program.objects, id) = program.objects[id]
  BY <1>2 DEF IsRegistered, LayoutIn
<1>5. program.objects[id] = parse_object_layout(TypeOf(id), DOMAIN structs)
  BY <1>1, <1>4, LoadedObject DEF Ready, Loaded
<1>6. Typed(TypeOf(id), structs) /\ FieldsTyped(structs)
  <2>1. /\ \A i \in DOMAIN Objects(document.metadata) : Typed(TypeOf(i), structs)
        /\ \A name \in DOMAIN structs : \A field \in Range(structs[name].fields) : Typed(field, structs)
    BY <1>1, TypesAreTyped DEF Ready
  <2>2. FieldsTyped(structs)
    BY <2>1 DEF FieldsTyped, Range
  <2> QED BY <1>2, <1>4, <2>1, <2>2
<1>7. at \in Places(TypeOf(id), path, structs)
  BY DEF PlacesOf
<1> HIDE DEF id, path, structs
<1>8. resolve_offset(parse_object_layout(TypeOf(id), DOMAIN structs), path, LayoutsOf(structs)) = at
  BY <1>3, <1>6, <1>7, ElementResolves
<1> QED BY <1>2, <1>3, <1>4, <1>5, <1>8

\* An access lands on the element its path names (resolve_offset).
THEOREM OffsetsAreElements == PlacementSpec => []OffsetIsElement
<1>1. Placed /\ Unrolled => OffsetIsElement
  <2> SUFFICES ASSUME Placed, Unrolled, out # << >>, IsRegistered(Last(out).object_name),
                      NEW at \in PlacesOf(Last(out))
               PROVE  at = Last(out).byte_offset
    BY DEF OffsetIsElement
  <2>1. document \in Documents /\ IsArray(out)
    BY DEF Placed, Unrolled, Built, BuiltFrom
  <2>2. Len(out) \in DOMAIN out /\ Last(out) = out[Len(out)]
    <3>1. out \in Seq(Range(out))
      BY <2>1 DEF IsArray
    <3> QED BY <3>1 DEF Last
  <2> QED BY <2>1, <2>2, ComputedOffset
<1> QED BY <1>1, PlacedAlways, UnrolledAlways, PTL

-----------------------------------------------------------------------------
(* The elements of an object. *)

\* A step more is a step from where the path leads.
LEMMA ReachedNext ==
  ASSUME NEW start, NEW path, IsArray(path), NEW structs, NEW step,
         NEW place \in Reached({start}, path, structs), NEW to \in StepInto(place, step, structs)
  PROVE  IsArray(Append(path, step)) /\ to \in Reached({start}, Append(path, step), structs)
<1> DEFINE n == Len(path)
           longer == Append(path, step)
<1>1. /\ IsArray(longer) /\ n \in Nat /\ Len(longer) = n + 1
      /\ longer[n + 1] = step /\ \A i \in 1 .. n : longer[i] = path[i]
  BY Appended
<1> HIDE DEF longer
<1>2. PICK f : Reached({start}, path, structs) = f[n] /\ Reaches(f, {start}, path, structs)
  BY ReachedUnfolds
<1>3. PICK g : Reached({start}, longer, structs) = g[Len(longer)] /\ Reaches(g, {start}, longer, structs)
  BY <1>1, ReachedUnfolds
<1>4. /\ f[0] = {start} /\ g[0] = {start}
      /\ \A k \in 1 .. n : f[k] = UNION {StepInto(p, path[k], structs) : p \in f[k - 1]}
      /\ \A k \in 1 .. Len(longer) : g[k] = UNION {StepInto(p, longer[k], structs) : p \in g[k - 1]}
  BY <1>2, <1>3, Zenon DEF Reaches, n
<1> HIDE DEF n
<1> DEFINE T == {m \in Nat : m <= n => g[m] = f[m]}
<1>5. 0 \in T
  BY <1>4
<1>6. ASSUME NEW m \in Nat, m \in T PROVE m + 1 \in T
  <2> SUFFICES ASSUME m + 1 <= n PROVE g[m + 1] = f[m + 1]
    OBVIOUS
  <2>1. m + 1 \in 1 .. n /\ m + 1 \in 1 .. Len(longer) /\ m <= n /\ (m + 1) - 1 = m
    BY <1>1
  <2>2. g[m] = f[m] /\ longer[m + 1] = path[m + 1]
    BY <1>1, <1>6, <2>1
  <2>3. f[m + 1] = UNION {StepInto(p, path[m + 1], structs) : p \in f[m]}
    BY <1>4, <2>1
  <2>4. g[m + 1] = UNION {StepInto(p, longer[m + 1], structs) : p \in g[m]}
    BY <1>4, <2>1
  <2> QED BY <2>2, <2>3, <2>4
<1>7. \A m \in Nat : m \in T
  <2> HIDE DEF T
  <2> QED BY <1>5, <1>6, AllNumbers
<1>8. g[n] = f[n] /\ n + 1 \in 1 .. Len(longer) /\ (n + 1) - 1 = n
  BY <1>1, <1>7
<1>9. g[n + 1] = UNION {StepInto(p, step, structs) : p \in f[n]}
  BY <1>1, <1>4, <1>8
<1>10. to \in g[n + 1]
  BY <1>2, <1>9 DEF n
<1> QED BY <1>1, <1>3, <1>10 DEF longer

\* The parts of parts.
PartsBelow(parts, structs) ==
  UNION {UNION {{[path |-> Append(p.path, s), place |-> q] : q \in StepInto(p.place, s, structs)} :
                  s \in StepsInto(p.place.type, structs)} : p \in parts}

\* The whole of an object: no step into it is taken yet.
IsWhole(type) == [path |-> << >>, place |-> [type |-> type, at |-> 0]]

\* The elements are found a level at a time.
LEMMA ElementsUnfold ==
  ASSUME NEW type, NEW structs, NEW e \in Elements(type, structs)
  PROVE  \E parts, d, p :
           /\ parts[0] = {IsWhole(type)} /\ \A k \in 1 .. Deepest : parts[k] = PartsBelow(parts[k - 1], structs)
           /\ d \in 0 .. Deepest /\ p \in parts[d] /\ IsElement(p.place.type, structs)
           /\ e = [path |-> p.path, at |-> p.place.at, bytes |-> ValueOr(p.place.type, "elem_size", 0)]
<1> DEFINE n == Deepest
           From(g, k) == IF k = 0 THEN {IsWhole(type)} ELSE PartsBelow(g[k - 1], structs)
           Solves(g, m) == g = [k \in 0 .. m |-> From(g, k)]
           S == {m \in Nat : \E g : Solves(g, m)}
<1>0. n \in Nat
  BY DeepestAssumption
<1> HIDE DEF n
<1>1. 0 \in S
  <2> DEFINE g == [k \in 0 .. 0 |-> {IsWhole(type)}]
  <2>1. \A k \in 0 .. 0 : k = 0
    OBVIOUS
  <2>2. g = [k \in 0 .. 0 |-> From(g, k)]
    BY <2>1, Zenon
  <2> QED BY <2>2
<1>2. ASSUME NEW m \in Nat, m \in S PROVE m + 1 \in S
  <2>1. PICK g : Solves(g, m)
    BY <1>2
  <2> DEFINE h == [k \in 0 .. (m + 1) |-> From(g, k)]
  <2>2. \A k \in 0 .. m : g[k] = From(g, k)
    BY <2>1, Zenon
  <2> HIDE DEF From
  <2>3. \A k \in 0 .. m : h[k] = g[k]
    BY <2>2
  <2>4. h = [k \in 0 .. (m + 1) |-> From(g, k)]
    OBVIOUS
  <2> HIDE DEF h
  <2>5. ASSUME NEW k \in 0 .. (m + 1) PROVE From(h, k) = From(g, k)
    <3>1. k = 0 \/ k - 1 \in 0 .. m
      OBVIOUS
    <3>2. k = 0 \/ h[k - 1] = g[k - 1]
      BY <2>3, <3>1
    <3> QED BY <3>2, Zenon DEF From
  <2>6. Solves(h, m + 1)
    BY <2>4, <2>5, Zenon
  <2> HIDE DEF Solves
  <2> QED BY <2>6
<1>3. \A m \in Nat : m \in S
  <2> HIDE DEF S
  <2> QED BY <1>1, <1>2, AllNumbers
<1>4. PICK g : g = [k \in 0 .. n |-> From(g, k)]
  BY <1>0, <1>3
<1> HIDE DEF From
<1> DEFINE parts == CHOOSE f : f = [k \in 0 .. n |-> From(f, k)]
<1>5. \E p \in UNION {parts[d] : d \in 0 .. n} :
        /\ IsElement(p.place.type, structs)
        /\ e = [path |-> p.path, at |-> p.place.at, bytes |-> ValueOr(p.place.type, "elem_size", 0)]
  BY SMTT(30) DEF Elements, n, From, PartsBelow, IsWhole
<1>6. parts = [k \in 0 .. n |-> From(parts, k)]
  BY <1>4
<1> HIDE DEF parts
<1>7. \A k \in 0 .. n : parts[k] = From(parts, k)
  BY <1>6, Zenon
<1>8. 0 \in 0 .. n /\ \A k \in 1 .. n : k \in 0 .. n /\ k # 0
  BY <1>0
<1>9. parts[0] = {IsWhole(type)}
  BY <1>7, <1>8, Zenon DEF From
<1>10. \A k \in 1 .. n : parts[k] = PartsBelow(parts[k - 1], structs)
  BY <1>7, <1>8, Zenon DEF From
<1>11. PICK d \in 0 .. n : \E p \in parts[d] :
         /\ IsElement(p.place.type, structs)
         /\ e = [path |-> p.path, at |-> p.place.at, bytes |-> ValueOr(p.place.type, "elem_size", 0)]
  BY <1>5
<1> QED BY <1>9, <1>10, <1>11 DEF n

\* So many of a size, and one more of it.
LEMMA OneMoreFits ==
  ASSUME NEW a \in Nat, NEW b \in Nat, a < b, NEW s \in Nat
  PROVE  a * s \in Nat /\ a * s + s <= b * s
<1> DEFINE c == b - a - 1
<1>1. c \in Nat /\ b = a + c + 1
  OBVIOUS
<1> HIDE DEF c
<1>2. b * s = a * s + c * s + s
  BY <1>1
<1>3. a * s \in Nat /\ c * s \in Nat
  BY <1>1, TimesNat
<1> DEFINE x == a * s
           y == c * s
           z == b * s
<1>4. z = x + y + s /\ x \in Nat /\ y \in Nat
  BY <1>2, <1>3
<1> HIDE DEF x, y, z
<1>5. x \in Nat /\ x + s <= z
  BY <1>4
<1> QED BY <1>5 DEF x, z

\* An array is as large as its first dimension of its elements.
LEMMA SizeOfArray ==
  ASSUME NEW type, NEW structs, Typed(type, structs), Dims(type) # << >>
  PROVE  LET elem == ElementOf(type)
         IN  /\ Dims(type) = type.shape /\ Head(type.shape) \in Nat
             /\ SizeOf(elem) \in Nat /\ SizeOf(type) = Head(type.shape) * SizeOf(elem)
<1> DEFINE elem == ElementOf(type)
           s == ValueOr(type, "elem_size", 0)
           d == Dims(type)
           p == Product(Tail(d))
           h == Head(d)
<1>1. "shape" \in DOMAIN type /\ d = type.shape
  BY DEF Dims, ValueOr
<1>2. DOMAIN elem = DOMAIN type /\ elem.shape = Tail(type.shape)
      /\ \A key \in DOMAIN type \ {"shape"} : elem[key] = type[key]
  BY <1>1 DEF ElementOf
<1>3. Dims(elem) = Tail(d) /\ ValueOr(elem, "elem_size", 0) = s
  BY <1>1, <1>2 DEF Dims, ValueOr
<1>4. d \in Seq(Nat) /\ s \in Nat
  BY DEF Typed
<1>5. h \in Nat /\ Tail(d) \in Seq(Nat)
  <2>1. d # << >>
    OBVIOUS
  <2> HIDE DEF d
  <2> QED BY <1>4, <2>1
<1>6. Product(d) = h * p /\ p \in Nat
  <2>1. d # << >>
    OBVIOUS
  <2> HIDE DEF d
  <2> QED BY <1>4, <1>5, <2>1, Products
<1>7. SizeOf(elem) = p * s /\ SizeOf(type) = Product(d) * s
  BY <1>3 DEF SizeOf
<1> HIDE DEF elem, s, d, p, h
<1>8. (h * p) * s = h * (p * s) /\ p * s \in Nat
  BY <1>4, <1>5, <1>6, TimesNat
<1>9. SizeOf(elem) \in Nat /\ SizeOf(type) = h * SizeOf(elem)
  BY <1>6, <1>7, <1>8
<1>10. h = Head(type.shape)
  BY <1>1 DEF h
<1> QED BY <1>1, <1>5, <1>9, <1>10 DEF elem, d

\* A part of a type is in its bounds, and on the way the path names.
Part(p, type, structs) ==
  /\ IsArray(p.path) /\ Typed(p.place.type, structs)
  /\ p.place.at \in Nat /\ p.place.at + SizeOf(p.place.type) <= SizeOf(type)
  /\ p.place \in Reached({IsWhole(type).place}, p.path, structs)

\* A step into a part of a type leads to a part of that type.
LEMMA PartOfPart ==
  ASSUME NEW type, NEW structs, Typed(type, structs), FieldsTyped(structs),
         NEW p, Part(p, type, structs), NEW s \in StepsInto(p.place.type, structs),
         NEW q \in StepInto(p.place, s, structs)
  PROVE  Part([path |-> Append(p.path, s), place |-> q], type, structs)
<1> DEFINE r == [path |-> Append(p.path, s), place |-> q]
           start == IsWhole(type).place
<1>1. IsArray(p.path) /\ p.place \in Reached({start}, p.path, structs)
  BY DEF Part
<1> HIDE DEF start
<1>2. IsArray(Append(p.path, s)) /\ q \in Reached({start}, Append(p.path, s), structs)
  BY <1>1, ReachedNext
<1>3. Typed(q.type, structs) /\ Typed(p.place.type, structs)
  BY StepsOfTypes DEF Part
<1>4. p.place.at \in Nat /\ SizeOf(p.place.type) \in Nat /\ SizeOf(q.type) \in Nat /\ SizeOf(type) \in Nat
      /\ p.place.at + SizeOf(p.place.type) <= SizeOf(type)
  BY <1>3, Sizes DEF Part
<1>5. q.at \in Nat /\ q.at + SizeOf(q.type) <= p.place.at + SizeOf(p.place.type)
  <2>1. CASE Dims(p.place.type) # << >>
    <3> DEFINE t == p.place.type
               elem == ElementOf(t)
               h == Head(t.shape)
    <3>1. h \in Nat /\ SizeOf(elem) \in Nat /\ SizeOf(t) = h * SizeOf(elem)
      BY <1>3, <2>1, SizeOfArray
    <3>2. PICK i \in 0 .. (h - 1) : s = [index |-> i]
      BY <2>1 DEF StepsInto
    <3>3. q = [type |-> elem, at |-> p.place.at + i * SizeOf(elem)]
      BY <2>1, <3>2 DEF StepInto
    <3>4. q.type = elem /\ q.at = p.place.at + i * SizeOf(elem)
      BY <3>3
    <3> HIDE DEF t, elem, h
    <3>5. i \in Nat /\ i < h
      BY <3>1, <3>2
    <3> DEFINE z == SizeOf(elem)
               a == i * z
               b == h * z
    <3>6. a \in Nat /\ a + z <= b
      <4> HIDE DEF z
      <4> QED BY <3>1, <3>5, OneMoreFits DEF z
    <3>7. q.at = p.place.at + a /\ SizeOf(q.type) = z /\ SizeOf(p.place.type) = b
      BY <3>1, <3>4 DEF t
    <3>8. b \in Nat /\ z \in Nat
      BY <1>4, <3>7
    <3> HIDE DEF a, b, z
    <3> QED BY <1>4, <3>6, <3>7, <3>8
  <2>2. CASE Dims(p.place.type) = << >>
    <3> DEFINE fields == FieldsOf(p.place.type, structs)
               k == s.field + 1
    <3>1. /\ IsStructure(p.place.type, structs) /\ k \in DOMAIN fields /\ q.type = fields[k]
          /\ q.at = p.place.at + ValueOr(q.type, "offset", 0)
      BY <1>3, <2>2, StepsOfTypes
    <3>2. q.type \in Range(fields)
      BY <3>1 DEF Range
    <3>3. /\ ValueOr(q.type, "offset", 0) \in Nat
          /\ ValueOr(q.type, "offset", 0) + SizeOf(q.type) <= ValueOr(p.place.type, "elem_size", 0)
      BY <1>3, <3>1, <3>2 DEF Typed
    <3>4. ValueOr(p.place.type, "elem_size", 0) \in Nat
      BY <1>3 DEF Typed
    <3>5. SizeOf(p.place.type) = 1 * ValueOr(p.place.type, "elem_size", 0)
      BY <2>2, Products DEF SizeOf
    <3> DEFINE o == ValueOr(q.type, "offset", 0)
               e == ValueOr(p.place.type, "elem_size", 0)
    <3> HIDE DEF o, e, fields, k
    <3>6. q.at = p.place.at + o /\ o \in Nat /\ e \in Nat /\ o + SizeOf(q.type) <= e /\ SizeOf(p.place.type) = e
      BY <3>1, <3>3, <3>4, <3>5 DEF o, e
    <3> QED BY <1>4, <3>6
  <2> QED BY <2>1, <2>2
<1>6. q.at + SizeOf(q.type) <= SizeOf(type)
  BY <1>4, <1>5
<1>7. r.path = Append(p.path, s) /\ r.place = q
  OBVIOUS
<1> HIDE DEF r
<1>8. Part(r, type, structs)
  BY <1>2, <1>3, <1>5, <1>6, <1>7 DEF Part, start
<1> QED BY <1>8 DEF r

\* An element is within its object, where its path leads.
LEMMA ElementWithin ==
  ASSUME NEW type, NEW structs, Typed(type, structs), FieldsTyped(structs), NEW e \in Elements(type, structs)
  PROVE  /\ e.at \in Nat /\ e.bytes \in Nat /\ e.at + e.bytes <= SizeOf(type)
         /\ IsArray(e.path) /\ e.at \in Places(type, e.path, structs)
<1>1. PICK parts, d, p :
        /\ parts[0] = {IsWhole(type)} /\ \A k \in 1 .. Deepest : parts[k] = PartsBelow(parts[k - 1], structs)
        /\ d \in 0 .. Deepest /\ p \in parts[d] /\ IsElement(p.place.type, structs)
        /\ e = [path |-> p.path, at |-> p.place.at, bytes |-> ValueOr(p.place.type, "elem_size", 0)]
  BY ElementsUnfold
<1> DEFINE T == {m \in Nat : m <= Deepest => \A r \in parts[m] : Part(r, type, structs)}
           start == IsWhole(type).place
<1>2. 0 \in T
  <2>1. start.type = type /\ start.at = 0 /\ IsWhole(type).path = << >>
    BY DEF IsWhole
  <2>2. IsArray(<< >>) /\ start \in Reached({start}, << >>, structs)
    <3>1. IsArray(<< >>) /\ Len(<< >>) = 0
      BY DEF IsArray
    <3> HIDE DEF start
    <3>2. PICK f : Reached({start}, << >>, structs) = f[Len(<< >>)] /\ Reaches(f, {start}, << >>, structs)
      BY <3>1, ReachedUnfolds
    <3> QED BY <3>1, <3>2 DEF Reaches
  <2>3. SizeOf(type) \in Nat
    BY Sizes
  <2>4. Part(IsWhole(type), type, structs)
    BY <2>1, <2>2, <2>3 DEF Part
  <2> QED BY <1>1, <2>4
<1>3. ASSUME NEW m \in Nat, m \in T PROVE m + 1 \in T
  <2> SUFFICES ASSUME m + 1 <= Deepest, NEW r \in parts[m + 1] PROVE Part(r, type, structs)
    OBVIOUS
  <2>1. m + 1 \in 1 .. Deepest /\ m <= Deepest /\ (m + 1) - 1 = m
    BY DeepestAssumption
  <2>2. parts[m + 1] = PartsBelow(parts[m], structs)
    BY <1>1, <2>1
  <2>3. PICK w \in parts[m] : \E s \in StepsInto(w.place.type, structs) :
                                \E q \in StepInto(w.place, s, structs) : r = [path |-> Append(w.path, s), place |-> q]
    BY <2>2 DEF PartsBelow
  <2>4. Part(w, type, structs)
    BY <1>3, <2>1
  <2> QED BY <2>3, <2>4, PartOfPart
<1>4. \A m \in Nat : m \in T
  <2> HIDE DEF T
  <2> QED BY <1>2, <1>3, AllNumbers
<1>5. Part(p, type, structs)
  <2>1. d \in Nat /\ d <= Deepest
    BY <1>1, DeepestAssumption
  <2> QED BY <1>1, <1>4, <2>1
<1>6. e.path = p.path /\ e.at = p.place.at /\ e.bytes = ValueOr(p.place.type, "elem_size", 0)
  BY <1>1
<1>7. e.bytes \in Nat /\ SizeOf(p.place.type) = e.bytes
  <2>1. ValueOr(p.place.type, "elem_size", 0) \in Nat
    BY <1>5 DEF Part, Typed
  <2>2. SizeOf(p.place.type) = 1 * ValueOr(p.place.type, "elem_size", 0)
    BY <1>1, Products DEF IsElement, SizeOf
  <2> QED BY <1>6, <2>1, <2>2
<1>8. e.at \in Places(type, e.path, structs)
  <2>1. start = [type |-> type, at |-> 0]
    BY DEF IsWhole
  <2>2. p.place \in Reached({[type |-> type, at |-> 0]}, p.path, structs)
    BY <1>5, <2>1 DEF Part
  <2> QED BY <1>1, <1>6, <2>2, Zenon DEF Places
<1> QED BY <1>5, <1>6, <1>7, <1>8 DEF Part

-----------------------------------------------------------------------------
(* The lines of the accesses. *)

\* The last line is that of the access it was found for, once all are unrolled.
Mapped ==
  /\ IsArray(lines) /\ Len(lines) <= Len(out)
  /\ lines # << >> =>
       LET access == out[Len(lines)]
       IN  /\ status \in {"done", "failed"} /\ access.object_name \in DOMAIN bases
           /\ Last(lines) = CacheLine((bases[access.object_name] + access.byte_offset) % AddressSpace)

\* Every step keeps what is mapped so far in its lines (map_to_cache_line).
LEMMA MappedStep ==
  ASSUME Mapped, IsArray(out), IsArray(out'), [PlacementNext]_placementVars
  PROVE  Mapped'
<1>1. CASE UNCHANGED <<lines, line_size, bases, out>> /\ (status \in {"done", "failed"} => status' \in {"done", "failed"})
  BY <1>1 DEF Mapped, CacheLine, IsArray
<1>2. CASE LoadProgram
  <2>1. status = "loading" /\ UNCHANGED <<lines, line_size, bases, out>>
    BY <1>2 DEF LoadProgram, Load, Begin, Throw
  <2> QED BY <1>1, <2>1
<1>3. CASE AddObject
  <2>1. lines = << >> /\ lines' = lines /\ out' = out
    BY <1>3 DEF Mapped, AddObject, loaderVars, builderVars
  <2> QED BY <2>1 DEF Mapped, IsArray
<1>4. CASE BuildEvents
  <2>1. lines = << >> /\ lines' = lines
    BY <1>4, StepsKeepProgram DEF Mapped, BuildEvents
  <2>2. Len(out') \in Nat /\ Len(lines) = 0
    BY <2>1 DEF IsArray
  <2> QED BY <2>1, <2>2 DEF Mapped, IsArray
<1>5. CASE MapEvent
  <2> DEFINE e == out[Len(lines) + 1]
             l == CacheLine((bases[e.object_name] + e.byte_offset) % AddressSpace)
             more == Append(lines, l)
  <2>1. /\ lines' = more /\ e.object_name \in DOMAIN bases /\ status = "done" /\ Len(lines) < Len(out)
        /\ out' = out /\ bases' = bases /\ line_size' = line_size /\ status' = status
    BY <1>5 DEF MapEvent, Mapping, loaderVars, builderVars
  <2>2. IsArray(more) /\ Len(lines) \in Nat /\ Len(more) = Len(lines) + 1 /\ Last(more) = l
    BY Appended DEF Mapped
  <2>3. Len(out) \in Nat
    BY DEF IsArray
  <2> HIDE DEF more
  <2>4. Len(lines') <= Len(out') /\ out'[Len(lines')] = e
    BY <2>1, <2>2, <2>3
  <2> QED BY <2>1, <2>2, <2>4 DEF Mapped, CacheLine, IsArray
<1>6. CASE UnknownObject
  BY <1>1, <1>6 DEF UnknownObject, Mapping, Throw
<1>7. CASE UNCHANGED placementVars
  BY <1>1, <1>7 DEF placementVars, loaderVars, builderVars
<1> QED BY <1>2, <1>3, <1>4, <1>5, <1>6, <1>7 DEF PlacementNext

\* An address in the room of an object, and the line it is in.
InRoom(line, id) == line \in Int /\ (line + 1) * line_size > bases[id] /\ line * line_size < EndOf(id)

\* An address that leaves no remainder is at the start of a line.
LEMMA WholeLines ==
  ASSUME NEW b \in Int, NEW s \in Nat \ {0}, b % s = 0
  PROVE  \E q \in Int : b = s * q
<1> DEFINE q == b \div s
           r == b % s
<1>1. q \in Int /\ b = s * q + r
  BY Remainders
<1>2. r = 0
  OBVIOUS
<1> HIDE DEF q, r
<1>3. s * q \in Int
  BY <1>1
<1> QED BY <1>1, <1>2, <1>3

\* Rooms have no line in common, and there is none behind them.
LEMMA RoomsApart ==
  ASSUME Placed, NEW id \in DOMAIN bases, NEW line, InRoom(line, id)
  PROVE  /\ line * line_size < next_base
         /\ \A other \in DOMAIN bases \ {id} : ~ InRoom(line, other)
<1> DEFINE s == line_size
<1>1. /\ s \in Nat \ {0} /\ next_base \in Nat /\ line \in Int
      /\ \A o \in DOMAIN bases : bases[o] \in Nat /\ bases[o] % s = 0 /\ EndOf(o) <= next_base
  BY DEF Placed, InRoom
<1>2. \A o \in DOMAIN bases : EndOf(o) \in Nat
  <2>1. \A o \in DOMAIN bases : o \in DOMAIN program.objects
    BY DEF Placed
  <2> QED BY <1>1, <2>1, RoomOfObject DEF EndOf
<1>3. line * s \in Int
  BY <1>1
<1>4. line * s < next_base
  <2> DEFINE x == line * s
             e == EndOf(id)
  <2>1. x < e /\ e <= next_base /\ e \in Nat /\ x \in Int
    BY <1>1, <1>2, <1>3 DEF InRoom
  <2> HIDE DEF x, e
  <2>2. x < next_base
    BY <1>1, <2>1
  <2> QED BY <2>2 DEF x
<1>5. ASSUME NEW low \in DOMAIN bases, NEW high \in DOMAIN bases, EndOf(low) <= bases[high],
             InRoom(line, low), InRoom(line, high)
      PROVE  FALSE
  <2> DEFINE b == bases[high]
  <2>1. b \in Int /\ s \in Nat \ {0} /\ b % s = 0
    BY <1>1
  <2> HIDE DEF b, s
  <2>2. PICK q \in Int : b = s * q
    BY <2>1, WholeLines
  <2>3. (line + 1) * s > s * q /\ line * s < s * q
    <3>1. (line + 1) * s > b /\ line * s < EndOf(low) /\ EndOf(low) <= b
      BY <1>5 DEF InRoom, b, s
    <3>2. line * s < b
      BY <1>2, <1>3, <2>1, <3>1
    <3> QED BY <2>2, <3>1, <3>2
  <2>4. line < q
    BY <1>1, <2>1, <2>3
  <2>5. line + 1 <= q
    BY <1>1, <2>1, <2>4
  <2>6. (line + 1) * s <= s * q
    BY <1>1, <2>1, <2>5
  <2>7. (line + 1) * s \in Int /\ s * q \in Int
    BY <1>1, <2>1
  <2> QED BY <2>3, <2>6, <2>7
<1>6. ASSUME NEW other \in DOMAIN bases \ {id}, InRoom(line, other) PROVE FALSE
  <2>1. EndOf(id) <= bases[other] \/ EndOf(other) <= bases[id]
    BY <1>6 DEF Placed
  <2> QED BY <1>5, <1>6, <2>1
<1> QED BY <1>4, <1>6 DEF s

\* Where an address is.
LEMMA LineOfAddress ==
  ASSUME Placed, NEW a \in Int
  PROVE  LET line == CacheLine(a)
         IN  /\ line \in Int /\ a - line * line_size \in 0 .. (line_size - 1)
             /\ line * line_size <= a /\ a < (line + 1) * line_size
<1> DEFINE s == line_size
           q == a \div s
<1>1. s \in Nat \ {0}
  BY DEF Placed
<1>2. q \in Int /\ a % s \in 0 .. (s - 1) /\ a = s * q + (a % s)
  BY <1>1, Remainders
<1>3. CacheLine(a) = q
  BY DEF CacheLine
<1> HIDE DEF q
<1>4. q * s = s * q /\ (q + 1) * s = s * q + s /\ s * q \in Int
  BY <1>1, <1>2
<1> DEFINE x == s * q
           r == a % s
<1>5. /\ q * s = x /\ (q + 1) * s = x + s /\ x \in Int /\ r \in 0 .. (s - 1) /\ a = x + r
  BY <1>2, <1>4
<1> HIDE DEF x, r
<1>6. a - q * s \in 0 .. (s - 1) /\ q * s <= a /\ a < (q + 1) * s
  BY <1>1, <1>5
<1> QED BY <1>2, <1>3, <1>6 DEF s

\* Products with a natural number keep the order.
LEMMA TimesMonotone ==
  ASSUME NEW a \in Int, NEW b \in Int, a <= b, NEW s \in Nat
  PROVE  a * s \in Int /\ b * s \in Int /\ a * s <= b * s
OBVIOUS

\* What is known of an object that is placed.
LEMMA PlacedObject ==
  ASSUME Placed, NoStructArrays, NEW id \in DOMAIN bases
  PROVE  LET structs == Structs(document.metadata)
             end     == EndOf(id)
         IN  /\ Typed(TypeOf(id), structs) /\ FieldsTyped(structs) /\ IsRegistered(id)
             /\ SizeOf(TypeOf(id)) \in Nat /\ bases[id] \in Nat /\ end \in Nat
             /\ bases[id] + SizeOf(TypeOf(id)) <= end /\ end <= next_base
<1> DEFINE structs == Structs(document.metadata)
           total   == TotalBytes(program.objects[id])
           end     == EndOf(id)
           size    == SizeOf(TypeOf(id))
<1>1. /\ document \in Documents /\ Loaded /\ line_size \in Nat \ {0}
      /\ id \in DOMAIN program.objects /\ bases[id] \in Nat /\ end <= next_base
  BY DEF Placed
<1>2. /\ Loads(document) /\ id \in DOMAIN Objects(document.metadata)
      /\ program.objects[id] = parse_object_layout(TypeOf(id), DOMAIN structs)
  BY <1>1, LoadedObject
<1>3. /\ \A i \in DOMAIN Objects(document.metadata) : Typed(TypeOf(i), structs)
      /\ \A name \in DOMAIN structs : \A field \in Range(structs[name].fields) : Typed(field, structs)
  BY <1>1, <1>2, TypesAreTyped
<1>4. FieldsTyped(structs) /\ Typed(TypeOf(id), structs)
  BY <1>2, <1>3 DEF FieldsTyped, Range
<1>5. IsStructure(TypeOf(id), structs) => Dims(TypeOf(id)) = << >>
  BY <1>2 DEF NoStructArrays
<1>6. size \in Nat /\ total = size
  BY <1>2, <1>4, <1>5, Sizes
<1>7. end \in Nat /\ end - (bases[id] + total) \in 0 .. (line_size - 1)
  BY <1>1, RoomOfObject DEF EndOf
<1> HIDE DEF structs, total, end, size
<1>8. bases[id] + size <= end
  BY <1>1, <1>6, <1>7
<1> QED BY <1>1, <1>2, <1>4, <1>6, <1>7, <1>8 DEF IsRegistered, structs, size, end

\* The lines of an object are in its room.
LEMMA LinesInRoom ==
  ASSUME Placed, NoStructArrays, NEW id \in DOMAIN bases, NEW line \in LinesOf(id)
  PROVE  InRoom(line, id)
<1> DEFINE base == bases[id]
           s    == line_size
           end  == EndOf(id)
           size == SizeOf(TypeOf(id))
<1>1. PICK e \in ElementsOf(id) : line \in CacheLine(base + e.at) .. CacheLine(base + e.at + e.bytes - 1)
  BY DEF LinesOf
<1>2. /\ Typed(TypeOf(id), Structs(document.metadata)) /\ FieldsTyped(Structs(document.metadata))
      /\ size \in Nat /\ base \in Nat /\ end \in Nat /\ base + size <= end
  BY PlacedObject
<1>3. e.at \in Nat /\ e.bytes \in Nat /\ e.at + e.bytes <= size
  BY <1>2, ElementWithin DEF ElementsOf
<1>4. s \in Nat \ {0}
  BY DEF Placed
<1> HIDE DEF base, s, end, size
<1> DEFINE low  == CacheLine(base + e.at)
           high == CacheLine(base + e.at + e.bytes - 1)
<1>5. base + e.at \in Int /\ base + e.at + e.bytes - 1 \in Int
  BY <1>2, <1>3
<1>6. low \in Int /\ base + e.at < (low + 1) * s /\ high \in Int /\ high * s <= base + e.at + e.bytes - 1
  BY <1>5, LineOfAddress DEF s
<1> HIDE DEF low, high
<1>7. line \in Int /\ low + 1 <= line + 1 /\ line <= high /\ low + 1 \in Int /\ line + 1 \in Int
  BY <1>1, <1>6 DEF low, high
<1>8. /\ (low + 1) * s \in Int /\ (line + 1) * s \in Int /\ (low + 1) * s <= (line + 1) * s
      /\ line * s \in Int /\ high * s \in Int /\ line * s <= high * s
  BY <1>4, <1>6, <1>7, TimesMonotone
<1> DEFINE a == (low + 1) * s
           b == (line + 1) * s
           c == line * s
           d == high * s
<1>9. /\ a \in Int /\ b \in Int /\ a <= b /\ c \in Int /\ d \in Int /\ c <= d
      /\ base + e.at < a /\ d <= base + e.at + e.bytes - 1
  BY <1>6, <1>8
<1> HIDE DEF a, b, c, d
<1>10. b > base /\ c < end
  BY <1>2, <1>3, <1>9
<1> QED BY <1>7, <1>10 DEF InRoom, a, b, c, d, base, end, s

\* What is placed, unrolled and mapped so is in lines of its own.
LEMMA OwnLinesWhereMapped ==
  ASSUME Placed, Unrolled, Mapped
  PROVE  OwnLines
<1> DEFINE access == out[Len(lines)]
           id     == access.object_name
           base   == bases[id]
           s      == line_size
           A      == AddressSpace
           line   == Last(lines)
<1> SUFFICES ASSUME lines # << >>, NoStructArrays, NEW at \in PlacesOf(access),
                    base + at \in (next_base - A) .. (A - 1)
             PROVE  /\ IF base + at >= 0 THEN (base + at) - line * s \in 0 .. (s - 1)
                       ELSE \A placed \in DOMAIN bases : line \notin LinesOf(placed)
                    /\ (\E e \in ElementsOf(id) : e.path = access.path /\ e.bytes > 0)
                         => \A other \in DOMAIN bases \ {id} : line \notin LinesOf(other)
  BY DEF OwnLines
<1>1. /\ id \in DOMAIN bases /\ line = CacheLine((base + access.byte_offset) % A)
      /\ IsArray(lines) /\ IsArray(out) /\ Len(lines) <= Len(out)
  BY DEF Mapped, Unrolled, Built, BuiltFrom
<1>2. Len(lines) \in DOMAIN out
  <2>1. lines \in Seq(Range(lines)) /\ out \in Seq(Range(out))
    BY <1>1 DEF IsArray
  <2>2. Len(lines) # 0
    BY <2>1
  <2>3. DOMAIN out = 1 .. Len(out) /\ Len(lines) \in Nat /\ Len(out) \in Nat
    BY <2>1
  <2> QED BY <1>1, <2>2, <2>3
<1>3. /\ Typed(TypeOf(id), Structs(document.metadata)) /\ FieldsTyped(Structs(document.metadata))
      /\ IsRegistered(id) /\ SizeOf(TypeOf(id)) \in Nat /\ base \in Nat /\ EndOf(id) \in Nat
      /\ base + SizeOf(TypeOf(id)) <= EndOf(id)
  BY <1>1, PlacedObject
<1>4. access.byte_offset = at
  BY <1>2, <1>3, ComputedOffset DEF Placed
<1>5. s \in Nat \ {0} /\ next_base \in Nat /\ A \in Nat \ {0}
  BY PlacementAssumption DEF Placed
<1>6. base + at \in Int /\ next_base - A <= base + at /\ base + at < A
  <2> DEFINE x == base + at
  <2>1. x \in (next_base - A) .. (A - 1)
    OBVIOUS
  <2> HIDE DEF x
  <2>2. x \in Int /\ next_base - A <= x /\ x < A
    BY <1>5, <2>1
  <2> QED BY <2>2 DEF x
<1> DEFINE x == base + at
<1>7. line = CacheLine(x % A) /\ x \in Int /\ next_base - A <= x /\ x < A
  BY <1>1, <1>4, <1>6
<1> HIDE DEF x, line, base, access
<1>8. ASSUME x >= 0
      PROVE  x - line * s \in 0 .. (s - 1) /\ line \in Int /\ line * s <= x /\ x < (line + 1) * s
  <2>1. x % A = x
    BY <1>5, <1>7, <1>8
  <2> QED BY <1>7, <2>1, LineOfAddress
<1>9. ASSUME x < 0, NEW placed \in DOMAIN bases, line \in LinesOf(placed)
      PROVE  FALSE
  <2>1. x % A = x + A
    <3>1. x + A \in 0 .. (A - 1)
      BY <1>5, <1>7, <1>9
    <3> QED BY <1>5, <1>7, <3>1
  <2>2. x + A \in Int /\ next_base <= x + A
    BY <1>5, <1>7
  <2>3. line \in Int /\ x + A < (line + 1) * s
    BY <1>7, <2>1, <2>2, LineOfAddress
  <2>4. InRoom(line, placed)
    BY <1>9, LinesInRoom
  <2>5. line * s < next_base
    BY <2>4, RoomsApart
  <2>6. PICK q \in Int : next_base = s * q
    <3>1. next_base % s = 0 /\ next_base \in Int
      BY DEF Placed
    <3> HIDE DEF s
    <3> QED BY <1>5, <3>1, WholeLines
  <2> HIDE DEF s
  <2>7. line < q
    BY <1>5, <2>3, <2>5, <2>6
  <2>8. (line + 1) * s <= q * s /\ (line + 1) * s \in Int /\ q * s \in Int
    <3>1. line + 1 \in Int /\ line + 1 <= q
      BY <2>3, <2>7
    <3> QED BY <1>5, <3>1, TimesMonotone
  <2>9. q * s = next_base
    BY <1>5, <2>6
  <2> QED BY <1>5, <2>2, <2>3, <2>8, <2>9
<1>10. ASSUME NEW e \in ElementsOf(id), e.path = access.path, e.bytes > 0,
              NEW other \in DOMAIN bases \ {id}, line \in LinesOf(other)
       PROVE  FALSE
  <2>1. /\ e.at \in Nat /\ e.bytes \in Nat /\ e.at + e.bytes <= SizeOf(TypeOf(id))
        /\ e.at \in PlacesOf(access)
    BY <1>3, <1>10, ElementWithin DEF ElementsOf, PlacesOf
  <2>2. e.at = at
    BY <1>2, <1>3, <1>4, <2>1, ComputedOffset DEF Placed, access
  <2>3. x >= 0 /\ x >= base /\ x < EndOf(id)
    BY <1>3, <1>10, <2>1, <2>2 DEF x
  <2>4. line \in Int /\ line * s <= x /\ x < (line + 1) * s
    BY <1>8, <2>3
  <2>5. InRoom(line, id)
    <3>1. line * s \in Int /\ (line + 1) * s \in Int
      BY <1>5, <2>4
    <3> DEFINE a == line * s
               b == (line + 1) * s
    <3>2. a \in Int /\ b \in Int /\ a <= x /\ x < b
      BY <2>4, <3>1
    <3> HIDE DEF a, b
    <3>3. b > base /\ a < EndOf(id)
      BY <1>3, <1>7, <2>3, <3>2
    <3> QED BY <2>4, <3>3 DEF InRoom, a, b, base
  <2>6. InRoom(line, other)
    BY <1>10, LinesInRoom
  <2> QED BY <1>1, <1>10, <2>5, <2>6, RoomsApart
<1>11. x >= 0 \/ x < 0
  BY <1>7
<1>12. IF x >= 0 THEN x - line * s \in 0 .. (s - 1)
       ELSE \A placed \in DOMAIN bases : line \notin LinesOf(placed)
  <2> HIDE DEF s
  <2> QED BY <1>8, <1>9, <1>11
<1>13. (\E e \in ElementsOf(id) : e.path = access.path /\ e.bytes > 0)
         => \A other \in DOMAIN bases \ {id} : line \notin LinesOf(other)
  BY <1>10
<1> HIDE DEF s
<1> QED BY <1>12, <1>13, Zenon DEF x

\* Over the whole of the run.
LEMMA MappedAlways == PlacementSpec => []Mapped
<1>1. PlacementInit => Mapped
  BY DEF PlacementInit, Mapped, LoaderInit, BuilderInit, IsArray
<1>2. Unrolled => IsArray(out)
  BY DEF Unrolled, Built, BuiltFrom
<1>3. Unrolled' => IsArray(out')
  BY DEF Unrolled, Built, BuiltFrom
<1>4. Mapped /\ Unrolled /\ Unrolled' /\ [PlacementNext]_placementVars => Mapped'
  BY <1>2, <1>3, MappedStep
<1> QED BY <1>1, <1>4, UnrolledAlways, PTL DEF PlacementSpec

\* An access is charged to the line of its byte, and inside its object that is no
\* other object's (run, align_up).
THEOREM OwnLinesAlways == PlacementSpec => []OwnLines
<1>1. Placed /\ Unrolled /\ Mapped => OwnLines
  BY OwnLinesWhereMapped
<1> QED BY <1>1, PlacedAlways, UnrolledAlways, MappedAlways, PTL
=============================================================================
