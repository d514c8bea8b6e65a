--------------------------- MODULE LruLevelProofs ---------------------------
(***************************************************************************)
(* A cache level keeps the promise of least-recently-used replacement, for   *)
(* any lines, any number of sets and any number of ways.                    *)
(***************************************************************************)
EXTENDS LruLevel, CacheLevelProofs, FiniteSetTheorems

\* The geometry of the level.
NumSets == geometry.num_sets
NumWays == geometry.num_ways

\* The places of a set's list that are taken.
Places(si) == 1..Len(sets[si])

\* A level holds only lines that were used.
HeldIsUsed ==
  \A si \in SetIndices(geometry) : \A i \in DOMAIN sets[si] : LineAt(si, i) \in used

\* A used line that is not in the level left it to make room: its set is full, and
\* of lines that were all used after it.
AbsentIsOlder ==
  \A x \in used : ~Holds(sets, geometry, x) =>
    LET si == SetIndexOf(x, NumSets)
    IN  Len(sets[si]) = NumWays /\ \A i \in DOMAIN sets[si] : <<LineAt(si, i), x>> \in newer

\* Of two lines one was used last, not both.
NewerIsStrict == \A a, b : <<a, b>> \in newer => a # b /\ <<b, a>> \notin newer

\* The types of the level and of its history.
LruTypeOK ==
  /\ geometry \in Geometries
  /\ sets \in Levels(geometry)
  /\ WellFormedLevel(sets, geometry)
  /\ used \subseteq Lines
  /\ newer \subseteq used \X used

\* The invariant of the proofs: the order of every list, with what is known of the
\* lines that are in the level and of those that left it.
LruInv ==
  /\ LruTypeOK
  /\ OrderedByUse
  /\ HeldIsUsed /\ AbsentIsOlder
  /\ NewerIsStrict
  /\ IsFiniteSet(used)

-----------------------------------------------------------------------------
(* What a use of a line makes of the list of its set. *)

\* The line is in front, the others are lines the list had, in their old order, and
\* only the last of a full list without the line is gone.
UsedList(s, s2, t, w) ==
  /\ Len(s2) \in Nat /\ 1 <= Len(s2)
  /\ s2[1].tag = t
  /\ \A i \in 2..Len(s2) : s2[i].tag # t
  /\ \A i \in 2..Len(s2) : \E k \in 1..Len(s) : s2[i].tag = s[k].tag
  /\ \A i, j \in 2..Len(s2) : i < j =>
       \E k, m \in 1..Len(s) : k < m /\ s2[i].tag = s[k].tag /\ s2[j].tag = s[m].tag
  /\ \A k \in 1..Len(s) :
       \/ s[k].tag = t
       \/ \E i \in 2..Len(s2) : s2[i].tag = s[k].tag
       \/ k = Len(s) /\ Len(s) = w
  /\ Len(s) = w => Len(s2) = w

\* A hit and a fill both leave such a list (CacheSet::access).
LEMMA UseShape ==
  ASSUME NEW Tag, NEW s \in Seq(Entries(Tag)), NEW t \in Tag,
         NEW o \in CacheAccessOptions, NEW w \in Nat \ {0}, WellFormedSet(s, w),
         t \in TagsOf(s) \/ o.allocate_on_miss
  PROVE  UsedList(s, SetAfter(s, t, o, w), t, w)
<1> DEFINE s2 == SetAfter(s, t, o, w)
<1>0. DOMAIN s = 1..Len(s) /\ Len(s) \in Nat /\ Len(s) <= w
  BY DEF WellFormedSet
<1>3. \A i, j \in 1..Len(s) : s[i].tag = s[j].tag => i = j
  BY DEF WellFormedSet
<1>1. CASE t \in TagsOf(s)
  <2>1. PICK p \in 1..Len(s) : s[p].tag = t
    BY <1>0, <1>1 DEF TagsOf
  <2>2. s2 = Promote(s, t, o)
    BY <1>1 DEF SetAfter
  <2>3. /\ Promote(s, t, o) \in Seq(Entries(Tag))
        /\ Len(Promote(s, t, o)) = Len(s)
        /\ Promote(s, t, o)[1] = [tag |-> t, dirty |-> s[p].dirty \/ MarksDirty(o)]
        /\ \A i \in 2..Len(s) :
             Promote(s, t, o)[i] = IF i <= p THEN s[i - 1] ELSE s[i]
    BY <1>3, <2>1, PromoteShape
  <2> HIDE DEF s2
  <2> DEFINE from(i) == IF i <= p THEN i - 1 ELSE i
  <2>4. Len(s2) = Len(s) /\ Len(s) >= 1 /\ s2[1].tag = t
    BY <1>0, <2>1, <2>2, <2>3
  <2>5. \A i \in 2..Len(s2) : from(i) \in 1..Len(s) /\ from(i) # p /\ s2[i] = s[from(i)]
    BY <1>0, <2>1, <2>2, <2>3
  <2>6. \A i, j \in 2..Len(s2) : i < j => from(i) < from(j)
    BY <1>0, <2>1, <2>4
  <2>7. ASSUME NEW k \in 1..Len(s), k # p
        PROVE  \E i \in 2..Len(s2) : s2[i].tag = s[k].tag
    <3> DEFINE i == IF k < p THEN k + 1 ELSE k
    <3>1. i \in 2..Len(s2) /\ from(i) = k
      BY <1>0, <2>1, <2>4, <2>7
    <3> QED BY <2>5, <3>1
  <2> HIDE DEF from
  <2>8. ASSUME NEW i \in 2..Len(s2)
        PROVE  s2[i].tag # t
    <3>1. from(i) \in 1..Len(s) /\ from(i) # p /\ s2[i] = s[from(i)]
      BY <2>5
    <3>2. s[from(i)].tag # s[p].tag
      BY <1>3, <3>1
    <3> QED BY <2>1, <3>1, <3>2
  <2>9. \A i \in 2..Len(s2) : \E k \in 1..Len(s) : s2[i].tag = s[k].tag
    BY <2>5
  <2>10. \A i, j \in 2..Len(s2) : i < j =>
           \E k, m \in 1..Len(s) : k < m /\ s2[i].tag = s[k].tag /\ s2[j].tag = s[m].tag
    BY <2>5, <2>6
  <2>11. \A k \in 1..Len(s) : s[k].tag = t \/ \E i \in 2..Len(s2) : s2[i].tag = s[k].tag
    BY <2>1, <2>7
  <2>12. UsedList(s, s2, t, w)
    <3>1. Len(s2) \in Nat /\ 1 <= Len(s2) /\ s2[1].tag = t /\ (Len(s) = w => Len(s2) = w)
      <4>1. Len(s) \in Nat
        BY <1>0
      <4>2. Len(s2) = Len(s) /\ Len(s) >= 1 /\ s2[1].tag = t
        BY <2>4
      <4> QED BY <4>1, <4>2
    <3>2. \A k \in 1..Len(s) :
            \/ s[k].tag = t
            \/ \E i \in 2..Len(s2) : s2[i].tag = s[k].tag
            \/ k = Len(s) /\ Len(s) = w
      BY <2>11
    <3>3. \A i \in 2..Len(s2) : s2[i].tag # t
      BY <2>8
    <3> QED BY <2>9, <2>10, <3>1, <3>2, <3>3, Zenon DEF UsedList
  <2> QED BY <2>12 DEF s2
<1>2. CASE t \notin TagsOf(s)
  <2>1. s2 = Fill(s, t, o, w)
    BY <1>2 DEF SetAfter
  <2>2. /\ Fill(s, t, o, w) \in Seq(Entries(Tag))
        /\ Len(Fill(s, t, o, w)) = IF Evicts(s, w) THEN Len(s) ELSE Len(s) + 1
        /\ Fill(s, t, o, w)[1] = [tag |-> t, dirty |-> MarksDirty(o)]
        /\ \A i \in 2..Len(Fill(s, t, o, w)) : Fill(s, t, o, w)[i] = s[i - 1]
    BY <1>0, FillShape
  <2> HIDE DEF s2
  <2>3. /\ Len(s2) \in Nat /\ 1 <= Len(s2) /\ Len(s2) <= Len(s) + 1
        /\ Len(s) = w => Len(s2) = w
        /\ Len(s) < w => Len(s2) = Len(s) + 1
    BY <1>0, <2>1, <2>2 DEF Evicts
  <2>4. s2[1].tag = t
    BY <2>1, <2>2
  <2>5. \A i \in 2..Len(s2) : i - 1 \in 1..Len(s) /\ s2[i].tag = s[i - 1].tag
    <3>1. \A i \in 2..Len(s2) : i - 1 \in 1..Len(s)
      <4>1. Len(s) \in Nat
        BY <1>0
      <4> QED BY <2>3, <4>1
    <3> QED BY <2>1, <2>2, <3>1
  <2>6. \A k \in 1..Len(s) : s[k].tag # t
    BY <1>0, <1>2 DEF TagsOf
  <2>7. \A k \in 1..Len(s) : k + 1 \in 2..Len(s2) \/ (k = Len(s) /\ Len(s) = w)
    <3> DEFINE n == Len(s)
               m == Len(s2)
    <3>1. n \in Nat /\ m \in Nat /\ w \in Nat /\ n <= w
      <4>1. w \in Nat
        OBVIOUS
      <4>2. Len(s) \in Nat /\ Len(s) <= w
        BY <1>0
      <4>3. Len(s2) \in Nat
        BY <2>3
      <4> QED BY <4>1, <4>2, <4>3
    <3>2. m = n + 1 \/ (n = w /\ m = w)
      BY <2>3, <3>1
    <3> HIDE DEF n, m
    <3>3. \A k \in 1..n : k + 1 \in 2..m \/ (k = n /\ n = w)
      BY <3>1, <3>2
    <3> QED BY <3>3 DEF n, m
  <2>8. \A k \in 1..Len(s) : k + 1 \in 2..Len(s2) => s2[k + 1].tag = s[k].tag
    BY <1>0, <2>1, <2>2
  <2>9. \A i \in 2..Len(s2) : s2[i].tag # t
    BY <2>5, <2>6
  <2>10. \A i, j \in 2..Len(s2) : i < j =>
           \E k, m \in 1..Len(s) : k < m /\ s2[i].tag = s[k].tag /\ s2[j].tag = s[m].tag
    <3>1. \A i, j \in 2..Len(s2) : i < j => i - 1 < j - 1
      BY <2>3
    <3> QED BY <2>5, <3>1
  <2>11. \A i \in 2..Len(s2) : \E k \in 1..Len(s) : s2[i].tag = s[k].tag
    BY <2>5
  <2>12. \A k \in 1..Len(s) :
           (\E i \in 2..Len(s2) : s2[i].tag = s[k].tag) \/ (k = Len(s) /\ Len(s) = w)
    BY <2>7, <2>8
  <2> QED BY <2>3, <2>4, <2>9, <2>10, <2>11, <2>12 DEF UsedList, s2
<1> QED BY <1>1, <1>2

-----------------------------------------------------------------------------
(* What the invariant says, list by list and line by line. *)

\* The parameters are those of a level.
LEMMA GeometryFacts ==
  ASSUME geometry \in Geometries
  PROVE  /\ IsGeometry(geometry)
         /\ NumSets \in Nat \ {0} /\ NumWays \in Nat \ {0}
         /\ SetIndices(geometry) = 0..(NumSets - 1)
BY GeometriesAssumption DEF IsGeometry, NumSets, NumWays, SetIndices

\* The list of one set.
LEMMA ListFacts ==
  ASSUME LruInv, NEW si \in SetIndices(geometry)
  PROVE  /\ sets[si] \in Seq(Entries(Nat)) /\ WellFormedSet(sets[si], NumWays)
         /\ DOMAIN sets[si] = Places(si) /\ Len(sets[si]) \in Nat /\ Len(sets[si]) <= NumWays
         /\ \A i \in Places(si) : /\ LineAt(si, i) \in used /\ LineAt(si, i) \in Nat
                                 /\ SetIndexOf(LineAt(si, i), NumSets) = si
                                 /\ TagOf(LineAt(si, i), NumSets) = sets[si][i].tag
         /\ \A i, j \in Places(si) : i < j => <<LineAt(si, i), LineAt(si, j)>> \in newer
         /\ \A x \in Nat : SetIndexOf(x, NumSets) = si =>
              (Holds(sets, geometry, x) <=> \E i \in Places(si) : LineAt(si, i) = x)
<1>1. geometry \in Geometries /\ sets \in Levels(geometry) /\ WellFormedLevel(sets, geometry)
  BY DEF LruInv, LruTypeOK
<1>2. NumSets \in Nat \ {0} /\ NumWays \in Nat \ {0} /\ si \in 0..(NumSets - 1)
  BY <1>1, GeometryFacts
<1>3. sets[si] \in Seq(Entries(Nat)) /\ WellFormedSet(sets[si], NumWays)
  BY <1>1 DEF Levels, WellFormedLevel, NumWays
<1>4. DOMAIN sets[si] = Places(si) /\ Len(sets[si]) \in Nat /\ Len(sets[si]) <= NumWays
  BY <1>3 DEF Places, WellFormedSet
<1>5. \A i \in Places(si) : sets[si][i].tag \in Nat
  <2>1. \A i \in 1..Len(sets[si]) : sets[si][i] \in Entries(Nat)
    BY <1>3
  <2> QED BY <2>1 DEF Places, Entries
<1>6. \A i \in Places(si) : LineAt(si, i) = LineOf(sets[si][i].tag, si, NumSets)
  BY DEF LineAt, NumSets
<1>7. \A i \in Places(si) : /\ LineAt(si, i) \in Nat
                           /\ SetIndexOf(LineAt(si, i), NumSets) = si
                           /\ TagOf(LineAt(si, i), NumSets) = sets[si][i].tag
  <2> TAKE i \in Places(si)
  <2> DEFINE u == sets[si][i].tag
  <2>1. u \in Nat /\ LineAt(si, i) = LineOf(u, si, NumSets)
    BY <1>5, <1>6
  <2> HIDE DEF u
  <2>2. /\ LineOf(u, si, NumSets) \in Nat
        /\ SetIndexOf(LineOf(u, si, NumSets), NumSets) = si
        /\ TagOf(LineOf(u, si, NumSets), NumSets) = u
    BY <1>2, <2>1, LineOfIsInverse
  <2> QED BY <2>1, <2>2 DEF u
<1>8. \A i \in Places(si) : LineAt(si, i) \in used
  BY <1>4 DEF LruInv, HeldIsUsed
<1>9. \A i, j \in Places(si) : i < j => <<LineAt(si, i), LineAt(si, j)>> \in newer
  BY <1>4 DEF LruInv, OrderedByUse
<1>10. ASSUME NEW x \in Nat, SetIndexOf(x, NumSets) = si
       PROVE  Holds(sets, geometry, x) <=> \E i \in Places(si) : LineAt(si, i) = x
  <2>1. LineOf(TagOf(x, NumSets), si, NumSets) = x
    BY <1>2, <1>10, LineOfIsInverse
  <2>2. Holds(sets, geometry, x) <=> \E i \in Places(si) : sets[si][i].tag = TagOf(x, NumSets)
    BY <1>4, <1>10 DEF Holds, TagsOf, NumSets
  <2> QED BY <1>6, <1>7, <2>1, <2>2
<1> QED BY <1>3, <1>4, <1>7, <1>8, <1>9, <1>10

\* A line that was used and left is older than all of its full set.
LEMMA AbsentFacts ==
  ASSUME LruInv, NEW x \in used, ~Holds(sets, geometry, x),
         NEW si, si = SetIndexOf(x, NumSets)
  PROVE  /\ x \in Nat /\ si \in SetIndices(geometry)
         /\ Len(sets[si]) = NumWays
         /\ \A i \in Places(si) : <<LineAt(si, i), x>> \in newer
<1>1. geometry \in Geometries /\ x \in Nat
  BY LruLinesAssumption DEF LruInv, LruTypeOK
<1>2. si \in SetIndices(geometry)
  BY <1>1, GeometryFacts, LineOfIsInverse
<1>3. DOMAIN sets[si] = Places(si)
  BY <1>2, ListFacts
<1> QED BY <1>1, <1>2, <1>3 DEF LruInv, AbsentIsOlder

-----------------------------------------------------------------------------
\* An empty level satisfies the invariant.
LEMMA LruInit == Init => LruInv
<1> SUFFICES ASSUME Init PROVE LruInv
  OBVIOUS
<1>1. geometry \in Geometries /\ sets = EmptyLevel(geometry) /\ used = {} /\ newer = {}
  BY DEF Init
<1>2. sets \in Levels(geometry) /\ WellFormedLevel(sets, geometry)
  BY <1>1, GeometryFacts, EmptyLevelFacts
<1>3. \A si \in SetIndices(geometry) : DOMAIN sets[si] = {}
  BY <1>1 DEF EmptyLevel
<1>4. LruTypeOK
  BY <1>1, <1>2 DEF LruTypeOK
<1>5. OrderedByUse /\ HeldIsUsed
  BY <1>3 DEF OrderedByUse, HeldIsUsed
<1>6. AbsentIsOlder /\ NewerIsStrict
  BY <1>1 DEF AbsentIsOlder, NewerIsStrict
<1>7. IsFiniteSet(used)
  BY <1>1, FS_EmptySet
<1> QED BY <1>4, <1>5, <1>6, <1>7 DEF LruInv

\* The order of last uses after a use of line, pair by pair.
LEMMA NewerAfter ==
  ASSUME NEW line, NEW options, Use(line, options), NEW a, NEW b
  PROVE  <<a, b>> \in newer' <=>
           \/ <<a, b>> \in newer /\ a # line /\ b # line
           \/ a = line /\ b \in used /\ b # line
<1>1. newer' = {p \in newer : p[1] # line /\ p[2] # line} \cup ({line} \X (used \ {line}))
  BY DEF Use, UseNow
<1> QED BY <1>1

\* The lists after a use: the one of the line's set is a used list of the old one,
\* the others are the same.
LEMMA ListsAfter ==
  ASSUME LruInv, NEW line \in Lines, NEW options \in CacheAccessOptions, Use(line, options)
  PROVE  LET si == SetIndexOf(line, NumSets)
         IN  /\ si \in SetIndices(geometry) /\ line \in Nat
             /\ UsedList(sets[si], sets'[si], TagOf(line, NumSets), NumWays)
             /\ \A sj \in SetIndices(geometry) : sj # si => sets'[sj] = sets[sj]
<1> DEFINE si == SetIndexOf(line, NumSets)
           t  == TagOf(line, NumSets)
           s  == sets[si]
           s2 == SetAfter(s, t, options, NumWays)
<1>1. geometry \in Geometries /\ line \in Nat /\ sets \in Levels(geometry)
  BY LruLinesAssumption DEF LruInv, LruTypeOK
<1>2. si \in SetIndices(geometry) /\ t \in Nat /\ NumWays \in Nat \ {0}
  BY <1>1, GeometryFacts, LineOfIsInverse
<1>3. sets' = [sets EXCEPT ![si] = s2] /\ DOMAIN sets = SetIndices(geometry)
  BY <1>1 DEF Use, LevelAfter, Levels, NumSets, NumWays
<1>4. s \in Seq(Entries(Nat)) /\ WellFormedSet(s, NumWays)
  BY <1>2, ListFacts
<1>5. t \in TagsOf(s) \/ options.allocate_on_miss
  BY DEF Use, Holds, NumSets
<1> HIDE DEF t, s, s2
<1>6. UsedList(s, SetAfter(s, t, options, NumWays), t, NumWays)
  BY <1>2, <1>4, <1>5, UseShape
<1>7. sets'[si] = s2 /\ \A sj \in SetIndices(geometry) : sj # si => sets'[sj] = sets[sj]
  <2> HIDE DEF si
  <2> QED BY <1>2, <1>3
<1> QED BY <1>1, <1>2, <1>6, <1>7 DEF t, s, s2

\* A use of a line preserves the invariant.
LEMMA UseKeeps ==
  ASSUME LruInv, NEW line \in Lines, NEW options \in CacheAccessOptions, Use(line, options)
  PROVE  LruInv'
<1> DEFINE si == SetIndexOf(line, NumSets)
           t  == TagOf(line, NumSets)
           s  == sets[si]
           s2 == sets'[si]
           At(sj, i) == LineOf(sets'[sj][i].tag, sj, NumSets)
<1>1. /\ geometry \in Geometries /\ sets \in Levels(geometry) /\ WellFormedLevel(sets, geometry)
      /\ used \subseteq Lines /\ newer \subseteq used \X used /\ line \in Nat
  BY LruLinesAssumption DEF LruInv, LruTypeOK
<1>2. IsGeometry(geometry) /\ NumSets \in Nat \ {0} /\ NumWays \in Nat \ {0}
  BY <1>1, GeometryFacts
<1>3. geometry' = geometry /\ NumSets' = NumSets /\ NumWays' = NumWays /\ used' = used \cup {line}
  BY DEF Use, NumSets, NumWays
<1>4. sets' = LevelAfter(sets, geometry, line, options)
  BY DEF Use
<1>5. /\ LevelAfter(sets, geometry, line, options) \in Levels(geometry)
      /\ WellFormedLevel(LevelAfter(sets, geometry, line, options), geometry)
  BY <1>1, <1>2, LevelAccess
<1>6. LruTypeOK'
  <2>1. newer' \subseteq used' \X used'
    BY <1>1, <1>3 DEF Use, UseNow
  <2> QED BY <1>1, <1>3, <1>4, <1>5, <2>1 DEF LruTypeOK
<1>7. /\ si \in SetIndices(geometry)
      /\ UsedList(s, s2, t, NumWays)
      /\ \A sj \in SetIndices(geometry) : sj # si => sets'[sj] = sets[sj]
  BY ListsAfter
<1>8. \A a, b : <<a, b>> \in newer' <=>
        \/ <<a, b>> \in newer /\ a # line /\ b # line
        \/ a = line /\ b \in used /\ b # line
  BY NewerAfter, Zenon
<1>9. /\ DOMAIN s = 1..Len(s) /\ Len(s) \in Nat
      /\ \A i \in 1..Len(s) : /\ LineAt(si, i) \in used
                              /\ LineAt(si, i) = LineOf(s[i].tag, si, NumSets)
      /\ \A i, j \in 1..Len(s) : i < j => <<LineAt(si, i), LineAt(si, j)>> \in newer
  <2>1. \A i : LineAt(si, i) = LineOf(s[i].tag, si, NumSets)
    BY DEF LineAt, NumSets
  <2> QED BY <1>7, <2>1, ListFacts DEF Places
<1>10. /\ s2 \in Seq(Entries(Nat)) /\ DOMAIN s2 = 1..Len(s2) /\ Len(s2) \in Nat
       /\ \A i \in 1..Len(s2) : s2[i].tag \in Nat
  <2>1. s2 \in Seq(Entries(Nat))
    BY <1>4, <1>5, <1>7 DEF Levels
  <2>2. DOMAIN s2 = 1..Len(s2) /\ Len(s2) \in Nat /\ \A i \in 1..Len(s2) : s2[i] \in Entries(Nat)
    BY <2>1
  <2> QED BY <2>1, <2>2 DEF Entries
<1>11. LineOf(t, si, NumSets) = line
  BY <1>1, <1>2, LineOfIsInverse
<1>12. \A i \in 1..Len(s2) : At(si, i) = line <=> s2[i].tag = t
  <2>1. \A u \in Nat : TagOf(LineOf(u, si, NumSets), NumSets) = u
    BY <1>2, <1>7, LineOfIsInverse DEF SetIndices, NumSets
  <2> QED BY <1>10, <1>11, <2>1
<1>13. At(si, 1) = line /\ \A i \in 2..Len(s2) : At(si, i) # line /\ i \in 1..Len(s2)
  BY <1>7, <1>10, <1>12 DEF UsedList
<1>14. \A i \in 2..Len(s2) : \E k \in 1..Len(s) : At(si, i) = LineAt(si, k)
  BY <1>7, <1>9 DEF UsedList
<1>15. \A i, j \in 2..Len(s2) : i < j =>
         \E k, m \in 1..Len(s) : k < m /\ At(si, i) = LineAt(si, k) /\ At(si, j) = LineAt(si, m)
  BY <1>7, <1>9 DEF UsedList
<1>16. \A k \in 1..Len(s) :
         \/ LineAt(si, k) = line
         \/ \E i \in 2..Len(s2) : At(si, i) = LineAt(si, k)
         \/ k = Len(s) /\ Len(s) = NumWays
  BY <1>7, <1>9, <1>11 DEF UsedList
<1>17. \A sj \in SetIndices(geometry) : \A i : LineAt(sj, i)' = At(sj, i)
  BY <1>3 DEF LineAt, NumSets
<1>18. ASSUME NEW sj \in SetIndices(geometry), sj # si
       PROVE  /\ DOMAIN sets'[sj] = Places(sj) /\ Places(sj) = DOMAIN sets[sj]
              /\ \A i \in Places(sj) : /\ At(sj, i) = LineAt(sj, i) /\ At(sj, i) # line
                                      /\ At(sj, i) \in used
  <2>1. sets'[sj] = sets[sj]
    BY <1>7, <1>18
  <2>2. \A i : At(sj, i) = LineAt(sj, i)
    BY <2>1 DEF LineAt, NumSets
  <2> QED BY <1>18, <2>1, <2>2, ListFacts
<1> HIDE DEF si, t, s, s2, At
<1>20. \A i \in 1..Len(s2) : i = 1 \/ i \in 2..Len(s2)
  BY <1>10
<1>21. OrderedByUse'
  <2> SUFFICES ASSUME NEW sj \in SetIndices(geometry), NEW i \in DOMAIN sets'[sj],
                      NEW j \in DOMAIN sets'[sj], i < j
               PROVE  <<At(sj, i), At(sj, j)>> \in newer'
    BY <1>3, <1>17 DEF OrderedByUse
  <2>1. CASE sj # si
    <3>1. <<LineAt(sj, i), LineAt(sj, j)>> \in newer
      BY <1>18, <2>1, ListFacts
    <3> QED BY <1>8, <1>18, <2>1, <3>1
  <2>2. CASE sj = si
    <3>1. i \in 1..Len(s2) /\ j \in 1..Len(s2)
      BY <1>10, <2>2 DEF s2
    <3>2. j \in 2..Len(s2)
      BY <1>10, <3>1
    <3>3. CASE i = 1
      <4>1. At(si, j) \in used /\ At(si, j) # line
        BY <1>9, <1>13, <1>14, <3>2
      <4> QED BY <1>8, <1>13, <2>2, <3>3, <4>1
    <3>4. CASE i \in 2..Len(s2)
      <4>1. <<At(si, i), At(si, j)>> \in newer
        BY <1>9, <1>15, <3>2, <3>4
      <4> QED BY <1>8, <1>13, <2>2, <3>2, <3>4, <4>1
    <3> QED BY <1>20, <3>1, <3>3, <3>4
  <2> QED BY <2>1, <2>2
<1>22. ASSUME NEW sj \in SetIndices(geometry), NEW i \in DOMAIN sets'[sj]
       PROVE  At(sj, i) \in used'
  <2>1. CASE sj # si
    BY <1>3, <1>18, <2>1
  <2>2. CASE sj = si
    <3>1. i \in 1..Len(s2)
      BY <1>10, <2>2 DEF s2
    <3> QED BY <1>3, <1>9, <1>13, <1>14, <1>20, <2>2, <3>1
  <2> QED BY <2>1, <2>2
<1>23. HeldIsUsed'
  BY <1>3, <1>17, <1>22 DEF HeldIsUsed
<1>24. AbsentIsOlder'
  <2> SUFFICES ASSUME NEW x \in used', ~Holds(sets', geometry, x)
               PROVE  LET sj == SetIndexOf(x, NumSets)
                      IN  /\ Len(sets'[sj]) = NumWays
                          /\ \A i \in DOMAIN sets'[sj] : <<At(sj, i), x>> \in newer'
    <3>1. \A x : SetIndexOf(x, NumSets)' = SetIndexOf(x, NumSets)
      BY <1>3 DEF NumSets
    <3>2. \A x \in used' : SetIndexOf(x, NumSets) \in SetIndices(geometry)
      BY <1>1, <1>2, <1>3, LruLinesAssumption, LineOfIsInverse DEF SetIndices, NumSets
    <3> QED BY <1>3, <1>17, <3>1, <3>2 DEF AbsentIsOlder, Holds, NumSets, NumWays
  <2> DEFINE sj == SetIndexOf(x, NumSets)
  <2>1. x \in Nat /\ sj \in SetIndices(geometry)
    BY <1>1, <1>2, <1>3, LruLinesAssumption, LineOfIsInverse DEF SetIndices, NumSets
  <2>2. Holds(sets', geometry, x) <=> \E i \in DOMAIN sets'[sj] : sets'[sj][i].tag = TagOf(x, NumSets)
    BY DEF Holds, TagsOf, NumSets
  <2>3. \A i \in DOMAIN sets'[sj] : At(sj, i) # x
    <3> TAKE i \in DOMAIN sets'[sj]
    <3>1. sets'[sj] \in Seq(Entries(Nat))
      BY <1>4, <1>5, <2>1 DEF Levels
    <3>2. sets'[sj][i].tag \in Nat
      <4>1. sets'[sj][i] \in Entries(Nat)
        BY <3>1
      <4> QED BY <4>1 DEF Entries
    <3>3. TagOf(At(sj, i), NumSets) = sets'[sj][i].tag
      <4> DEFINE u == sets'[sj][i].tag
      <4> HIDE DEF u, sj
      <4>1. TagOf(LineOf(u, sj, NumSets), NumSets) = u
        BY <1>2, <2>1, <3>2, LineOfIsInverse DEF u, SetIndices, NumSets
      <4> QED BY <4>1 DEF u, At
    <3> QED BY <2>2, <3>3
  <2> HIDE DEF sj
  <2>4. x # line
    <3>1. 1 \in DOMAIN s2
      BY <1>7, <1>10 DEF UsedList
    <3> QED BY <1>13, <2>3, <3>1 DEF sj, si, s2
  <2>5. x \in used
    BY <1>3, <2>4
  <2>6. CASE sj # si
    <3>1. sets'[sj] = sets[sj]
      BY <1>7, <2>1, <2>6
    <3>2. ~Holds(sets, geometry, x)
      BY <3>1 DEF Holds, sj, NumSets
    <3>3. Len(sets[sj]) = NumWays /\ \A i \in Places(sj) : <<LineAt(sj, i), x>> \in newer
      BY <2>5, <3>2, AbsentFacts DEF sj
    <3> QED BY <1>8, <1>18, <2>1, <2>4, <2>6, <3>1, <3>3 DEF sj
  <2>7. CASE sj = si
    <3>1. \A i \in 1..Len(s2) : At(si, i) # x
      BY <1>10, <2>3, <2>7 DEF s2
    <3>2. Len(s2) = NumWays /\ \A i \in 2..Len(s2) : <<At(si, i), x>> \in newer
      <4>1. CASE \E k \in 1..Len(s) : LineAt(si, k) = x
        <5>1. PICK k \in 1..Len(s) : LineAt(si, k) = x
          BY <4>1
        <5>2. k = Len(s) /\ Len(s) = NumWays
          BY <1>16, <1>20, <2>4, <3>1, <5>1, <1>13
        <5>3. Len(s2) = NumWays
          BY <1>7, <5>2 DEF UsedList
        <5>4. ASSUME NEW i \in 2..Len(s2)
              PROVE  <<At(si, i), x>> \in newer
          <6>1. PICK m \in 1..Len(s) : At(si, i) = LineAt(si, m)
            BY <1>14
          <6>2. m # k
            BY <1>13, <3>1, <5>1, <6>1
          <6>3. m < k
            BY <1>9, <5>2, <6>2
          <6> QED BY <1>9, <5>1, <6>1, <6>3
        <5> QED BY <5>3, <5>4
      <4>2. CASE \A k \in 1..Len(s) : LineAt(si, k) # x
        <5>1. ~Holds(sets, geometry, x)
          BY <1>7, <2>1, <2>7, <4>2, ListFacts DEF sj, s, Places
        <5>2. Len(s) = NumWays /\ \A i \in 1..Len(s) : <<LineAt(si, i), x>> \in newer
          BY <2>5, <2>7, <5>1, AbsentFacts DEF sj, s, Places
        <5> QED BY <1>7, <1>14, <5>2 DEF UsedList
      <4> QED BY <4>1, <4>2
    <3>3. \A i \in 1..Len(s2) : <<At(si, i), x>> \in newer'
      BY <1>8, <1>13, <1>20, <2>4, <2>5, <3>2
    <3> QED BY <1>10, <2>7, <3>2, <3>3 DEF s2, sj
  <2> QED BY <2>6, <2>7
<1>25. NewerIsStrict'
  BY <1>8 DEF NewerIsStrict, LruInv
<1>26. IsFiniteSet(used')
  BY <1>3, FS_AddElement DEF LruInv
<1> QED BY <1>6, <1>21, <1>23, <1>24, <1>25, <1>26 DEF LruInv

\* A miss that does not allocate changes nothing.
LEMMA PassByKeeps ==
  ASSUME LruInv, NEW line \in Lines, NEW options \in CacheAccessOptions, PassBy(line, options)
  PROVE  UNCHANGED lruVars
<1> DEFINE si == SetIndexOf(line, geometry.num_sets)
<1>1. sets \in Levels(geometry)
  BY DEF LruInv, LruTypeOK
<1>2. LevelAfter(sets, geometry, line, options) = [sets EXCEPT ![si] = sets[si]]
  BY DEF PassBy, Holds, LevelAfter, SetAfter
<1>3. [sets EXCEPT ![si] = sets[si]] = sets
  BY <1>1 DEF Levels
<1> QED BY <1>2, <1>3 DEF PassBy, lruVars

\* The invariant holds throughout.
THEOREM LruInvHolds == Spec => []LruInv
<1>1. ASSUME LruInv, UNCHANGED lruVars
      PROVE  LruInv'
  BY <1>1 DEF lruVars, LruInv, LruTypeOK, OrderedByUse, HeldIsUsed, AbsentIsOlder,
              NewerIsStrict, LineAt, NumSets, NumWays
<1>2. ASSUME LruInv, Next
      PROVE  LruInv'
  <2>1. PICK line \in Lines, options \in CacheAccessOptions :
          Use(line, options) \/ PassBy(line, options)
    BY <1>2 DEF Next
  <2>2. CASE Use(line, options)
    BY <1>2, <2>2, UseKeeps
  <2>3. CASE PassBy(line, options)
    BY <1>1, <1>2, <2>3, PassByKeeps
  <2> QED BY <2>1, <2>2, <2>3
<1> QED BY LruInit, <1>1, <1>2, PTL DEF Spec

\* Every set lists its lines from the last used to the first used, whatever was
\* accessed: the back of entries_ is the line to evict.
THEOREM ListsStayOrdered == Spec => []OrderedByUse
<1>1. LruInv => OrderedByUse
  BY DEF LruInv
<1> QED BY LruInvHolds, <1>1, PTL

-----------------------------------------------------------------------------
\* The i-th line of a list was used more recently than those behind it only: at most
\* i - 1 lines of its set were used since.
LEMMA FewUsedSince ==
  ASSUME LruInv, NEW si \in SetIndices(geometry), NEW i \in Places(si)
  PROVE  /\ IsFiniteSet(UsedSince(LineAt(si, i)))
         /\ Cardinality(UsedSince(LineAt(si, i))) < NumWays
<1> DEFINE a == LineAt(si, i)
           front == [j \in 1..(i - 1) |-> LineAt(si, j)]
<1>1. /\ i \in Nat /\ i >= 1 /\ i <= NumWays /\ NumWays \in Nat
      /\ \A j \in 1..(i - 1) : j \in Places(si) /\ j < i
  BY ListFacts, GeometryFacts DEF Places, LruInv, LruTypeOK
<1>2. /\ \A j \in Places(si) : /\ LineAt(si, j) \in used
                              /\ SetIndexOf(LineAt(si, j), NumSets) = si
      /\ \A j, k \in Places(si) : j < k => <<LineAt(si, j), LineAt(si, k)>> \in newer
      /\ \A x \in Nat : SetIndexOf(x, NumSets) = si =>
           (Holds(sets, geometry, x) <=> \E j \in Places(si) : LineAt(si, j) = x)
  BY ListFacts
<1>3. IsFiniteSet(UsedSince(a))
  BY FS_Subset DEF LruInv, UsedSince
<1>4. ASSUME NEW b \in UsedSince(a)
      PROVE  \E j \in 1..(i - 1) : front[j] = b
  <2>1. b \in used /\ b \in Nat /\ SetIndexOf(b, NumSets) = si /\ <<b, a>> \in newer
    BY <1>2, LruLinesAssumption DEF UsedSince, SameSet, NumSets, LruInv, LruTypeOK
  <2>2. b # a /\ <<a, b>> \notin newer
    BY <2>1 DEF LruInv, NewerIsStrict
  <2>3. Holds(sets, geometry, b)
    BY <2>1, <2>2, AbsentFacts
  <2>4. PICK j \in Places(si) : LineAt(si, j) = b
    BY <1>2, <2>1, <2>3
  <2>5. ~(i < j) /\ i # j
    BY <1>2, <2>2, <2>4
  <2>6. j \in 1..(i - 1)
    BY <1>1, <2>5 DEF Places
  <2> QED BY <2>4, <2>6
<1>5. \A j \in 1..(i - 1) : front[j] \in UsedSince(a)
  BY <1>1, <1>2 DEF UsedSince, SameSet, NumSets
<1> HIDE DEF a
<1>6. front \in Surjection(1..(i - 1), UsedSince(a))
  <2>1. front \in [1..(i - 1) -> UsedSince(a)]
    BY <1>5
  <2> HIDE DEF front
  <2> QED BY <1>4, <2>1 DEF Surjection
<1>7. IsFiniteSet(1..(i - 1)) /\ Cardinality(1..(i - 1)) = i - 1
  <2>1. 1 \in Int /\ i - 1 \in Int
    BY <1>1
  <2>2. /\ IsFiniteSet(1..(i - 1))
        /\ Cardinality(1..(i - 1)) = IF 1 > i - 1 THEN 0 ELSE (i - 1) - 1 + 1
    BY <2>1, FS_Interval
  <2> QED BY <1>1, <2>2
<1>8. Cardinality(UsedSince(a)) <= Cardinality(1..(i - 1))
  BY <1>6, <1>7, FS_Surjection
<1>9. Cardinality(UsedSince(a)) \in Nat
  BY <1>3, FS_CardinalityType
<1>10. Cardinality(UsedSince(a)) < NumWays
  BY <1>1, <1>7, <1>8, <1>9
<1> QED BY <1>3, <1>10 DEF a

\* Since a line left the level, at least as many lines of its set as there are ways
\* were used.
LEMMA ManyUsedSince ==
  ASSUME LruInv, NEW x \in used, ~Holds(sets, geometry, x)
  PROVE  ~(Cardinality(UsedSince(x)) < NumWays)
<1> DEFINE si  == SetIndexOf(x, NumSets)
           all == [i \in 1..NumWays |-> LineAt(si, i)]
<1>1. /\ x \in Nat /\ si \in SetIndices(geometry)
      /\ Len(sets[si]) = NumWays
      /\ \A i \in Places(si) : <<LineAt(si, i), x>> \in newer
  BY AbsentFacts
<1>2. NumWays \in Nat /\ Places(si) = 1..NumWays
  BY <1>1, GeometryFacts DEF Places, LruInv, LruTypeOK
<1>3. /\ \A j \in Places(si) : LineAt(si, j) \in used /\ SetIndexOf(LineAt(si, j), NumSets) = si
      /\ \A j, k \in Places(si) : j < k => <<LineAt(si, j), LineAt(si, k)>> \in newer
  BY <1>1, ListFacts
<1>4. \A i \in 1..NumWays : all[i] \in UsedSince(x)
  BY <1>1, <1>2, <1>3 DEF UsedSince, SameSet, NumSets
<1>5. \A i, j \in 1..NumWays : i < j => all[i] # all[j]
  BY <1>2, <1>3 DEF LruInv, NewerIsStrict
<1>6. all \in Injection(1..NumWays, UsedSince(x))
  <2>1. all \in [1..NumWays -> UsedSince(x)]
    BY <1>4
  <2> HIDE DEF all
  <2>2. \A i, j \in 1..NumWays : all[i] = all[j] => i = j
    BY <1>2, <1>5
  <2> QED BY <2>1, <2>2 DEF Injection, IsInjective
<1>7. IsFiniteSet(UsedSince(x)) /\ Cardinality(UsedSince(x)) \in Nat
  BY FS_Subset, FS_CardinalityType DEF LruInv, UsedSince
<1>8. IsFiniteSet(1..NumWays) /\ Cardinality(1..NumWays) = NumWays
  <2>1. 1 \in Int /\ NumWays \in Int
    BY <1>2
  <2>2. IsFiniteSet(1..NumWays) /\ Cardinality(1..NumWays) = IF 1 > NumWays THEN 0 ELSE NumWays - 1 + 1
    BY <2>1, FS_Interval
  <2> QED BY <1>2, <2>2
<1>9. Cardinality(1..NumWays) <= Cardinality(UsedSince(x))
  BY <1>6, <1>7, FS_Injection
<1> QED BY <1>2, <1>7, <1>8, <1>9

\* A level holds, for each of its sets, exactly the num_ways lines of that set used
\* most recently: splice, pop_back and push_front keep the promise of LRU for every
\* number of sets and ways and every sequence of accesses.
THEOREM LevelIsLru == Spec => []HoldsMostRecent
<1>1. ASSUME LruInv
      PROVE  HoldsMostRecent
  <2> SUFFICES ASSUME NEW line \in Lines
               PROVE  Holds(sets, geometry, line)
                        <=> line \in used /\ Cardinality(UsedSince(line)) < NumWays
    BY DEF HoldsMostRecent, NumWays
  <2> DEFINE si == SetIndexOf(line, NumSets)
  <2>1. line \in Nat /\ si \in SetIndices(geometry)
    BY <1>1, LruLinesAssumption, GeometryFacts, LineOfIsInverse DEF LruInv, LruTypeOK
  <2>2. CASE Holds(sets, geometry, line)
    <3>1. PICK i \in Places(si) : LineAt(si, i) = line
      BY <1>1, <2>1, <2>2, ListFacts
    <3>2. line \in used
      BY <1>1, <2>1, <3>1, ListFacts
    <3>3. Cardinality(UsedSince(line)) < NumWays
      BY <1>1, <2>1, <3>1, FewUsedSince
    <3> QED BY <2>2, <3>2, <3>3
  <2>3. CASE ~Holds(sets, geometry, line)
    BY <1>1, <2>3, ManyUsedSince
  <2> QED BY <2>2, <2>3
<1> QED BY LruInvHolds, <1>1, PTL

\* A line leaves a level only while another one is filled, and the line reported is
\* the one that left (CacheLevel::access, evicted_cache_line).
THEOREM EvictionsAreReported == Spec => EvictedIsReported
<1>1. ASSUME LruInv, NEW line \in Lines, NEW options \in CacheAccessOptions,
             Use(line, options)
      PROVE  LET r == LevelResult(sets, geometry, line, options)
             IN  {a \in Lines : Holds(sets, geometry, a) /\ ~Holds(sets', geometry, a)}
                   = IF r.has_eviction THEN {r.evicted_cache_line} ELSE {}
  <2> DEFINE r == LevelResult(sets, geometry, line, options)
             s2 == LevelAfter(sets, geometry, line, options)
  <2>1. IsGeometry(geometry) /\ sets \in Levels(geometry) /\ WellFormedLevel(sets, geometry)
    BY <1>1, GeometryFacts DEF LruInv, LruTypeOK
  <2>2. line \in Nat /\ Lines \subseteq Nat
    BY LruLinesAssumption
  <2>3. /\ r.hit <=> Holds(sets, geometry, line)
        /\ r.has_eviction =>
             /\ r.evicted_cache_line \in Nat /\ r.evicted_cache_line # line
             /\ Holds(sets, geometry, r.evicted_cache_line)
        /\ \A M \in Nat :
             Holds(s2, geometry, M) <=>
               IF M = line THEN r.hit \/ options.allocate_on_miss
               ELSE Holds(sets, geometry, M) /\ ~(r.has_eviction /\ r.evicted_cache_line = M)
    BY <2>1, <2>2, LevelAccess
  <2>4. sets' = s2 /\ (Holds(sets, geometry, line) \/ options.allocate_on_miss)
    BY <1>1 DEF Use
  <2>5. ASSUME NEW x \in Nat, Holds(sets, geometry, x)
        PROVE  x \in Lines
    <3> DEFINE si == SetIndexOf(x, NumSets)
    <3>1. si \in SetIndices(geometry)
      BY <1>1, GeometryFacts, LineOfIsInverse DEF LruInv, LruTypeOK
    <3>2. \E i \in Places(si) : LineAt(si, i) = x /\ LineAt(si, i) \in used
      BY <1>1, <2>5, <3>1, ListFacts
    <3> QED BY <1>1, <3>2 DEF LruInv, LruTypeOK
  <2> HIDE DEF r, s2
  <2>6. \A a \in Lines : Holds(sets, geometry, a) /\ ~Holds(sets', geometry, a)
                           <=> r.has_eviction /\ a = r.evicted_cache_line
    BY <2>2, <2>3, <2>4
  <2>7. r.has_eviction => r.evicted_cache_line \in Lines
    BY <2>3, <2>5
  <2> QED BY <2>6, <2>7 DEF r
<1>2. ASSUME LruInv, [Next]_lruVars
      PROVE  [ \A line \in Lines, options \in CacheAccessOptions :
                 Use(line, options) =>
                   LET r == LevelResult(sets, geometry, line, options)
                   IN  {a \in Lines : Holds(sets, geometry, a) /\ ~Holds(sets', geometry, a)}
                         = IF r.has_eviction THEN {r.evicted_cache_line} ELSE {} ]_lruVars
  BY <1>1, <1>2
<1> QED BY LruInvHolds, <1>2, PTL DEF Spec, EvictedIsReported
=============================================================================
