------------------------ MODULE MissClassifierProofs ------------------------
(***************************************************************************)
(* The miss classifier implements the reuse-distance classification, for any  *)
(* lines and any capacity.  RemoveShape is cited from CacheLevelProofs.      *)
(***************************************************************************)
EXTENDS MissClassifier, CacheLevelProofs, FiniteSetTheorems

\* The parts of the classifier.
Lru      == classifier.fa_lru
Capacity == classifier.fa_capacity
Seen     == classifier.ever_seen

\* Of two lines one was used last, not both.
NewerIsStrict == \A a, b : <<a, b>> \in newer => a # b /\ <<b, a>> \notin newer

\* The strengthening: only finitely many lines were seen, all the lines of the
\* list among them.
ClassifierInv ==
  /\ ClassifierTypeOK /\ MapMatchesList /\ ShadowIsLru
  /\ NewerIsStrict
  /\ IsFiniteSet(Seen)
  /\ ToSet(Lru) \subseteq Seen

-----------------------------------------------------------------------------
\* What the invariant says of the list, position by position.
LEMMA ListFacts ==
  ASSUME ClassifierInv
  PROVE  /\ Lru \in Seq(Lines) /\ DOMAIN Lru = 1..Len(Lru) /\ Len(Lru) \in Nat
         /\ Capacity \in Nat \ {0} /\ Len(Lru) <= Capacity
         /\ \A i, j \in 1..Len(Lru) : Lru[i] = Lru[j] => i = j
         /\ classifier.fa_map = {Lru[i] : i \in 1..Len(Lru)}
         /\ \A i \in 1..Len(Lru) : Lru[i] \in Seen
         /\ \A i, j \in 1..Len(Lru) : i < j => <<Lru[j], Lru[i]>> \in newer
         /\ \A x \in Seen : (\A i \in 1..Len(Lru) : x # Lru[i]) =>
              /\ Len(Lru) = Capacity
              /\ \A i \in 1..Len(Lru) : <<Lru[i], x>> \in newer
<1>1. Lru \in Seq(Lines) /\ Capacity \in Capacities
  BY DEF ClassifierInv, ClassifierTypeOK, Lru, Capacity
<1>2. DOMAIN Lru = 1..Len(Lru) /\ Len(Lru) \in Nat /\ Capacity \in Nat \ {0}
  BY <1>1, CapacitiesAssumption
<1>3. ToSet(Lru) = {Lru[i] : i \in 1..Len(Lru)}
  BY <1>2 DEF ToSet
<1>4. \A i \in 1..Len(Lru) : Lru[i] \in ToSet(Lru)
  BY <1>3
<1> QED BY <1>1, <1>2, <1>3, <1>4
        DEF ClassifierInv, MapMatchesList, ShadowIsLru, Lru, Capacity, Seen

\* fa_access has to give up the first line of a full list.
Evicting(line) == ~FaHit(classifier, line) /\ FaFull(classifier)

\* What fa_access keeps of the list before it appends the line.
Kept(line) ==
  IF FaHit(classifier, line) THEN RemoveAt(Lru, NodeOf(classifier, line))
  ELSE IF FaFull(classifier) THEN Tail(Lru) ELSE Lru

\* q is what is left of the list when it makes room for line: part of it, in
\* order, without line, and without the first of a full list that had no line.
KeepsOf(q, line) ==
  /\ q \in Seq(Lines) /\ Len(q) \in Nat /\ Len(q) + 1 <= Capacity
  /\ \A i \in 1..Len(q) : q[i] # line /\ \E k \in 1..Len(Lru) : q[i] = Lru[k]
  /\ \A i, j \in 1..Len(q) : i < j =>
       \E k, m \in 1..Len(Lru) : k < m /\ q[i] = Lru[k] /\ q[j] = Lru[m]
  /\ \A k \in 1..Len(Lru) :
       \/ Lru[k] = line
       \/ \E i \in 1..Len(q) : q[i] = Lru[k]
       \/ k = 1 /\ Evicting(line)
  /\ Len(Lru) = Capacity => Len(q) + 1 = Capacity
  /\ Evicting(line) => \A i \in 1..Len(q) : q[i] # Lru[1]

\* The same, with the places in the list that the places of q came from.
Picks(q, from, line) ==
  /\ q \in Seq(Lines) /\ Len(q) \in Nat /\ Len(q) + 1 <= Capacity
  /\ Len(Lru) = Capacity => Len(q) + 1 = Capacity
  /\ \A i \in 1..Len(q) : from[i] \in 1..Len(Lru) /\ q[i] = Lru[from[i]] /\ q[i] # line
  /\ \A i, j \in 1..Len(q) : i < j => from[i] < from[j]
  /\ \A k \in 1..Len(Lru) :
       \/ Lru[k] = line
       \/ \E i \in 1..Len(q) : from[i] = k
       \/ k = 1 /\ Evicting(line)
  /\ Evicting(line) => \A i \in 1..Len(q) : from[i] # 1

\* Named places or not, the list keeps the same.
LEMMA PicksKeep ==
  ASSUME ClassifierInv, NEW q, NEW from, NEW line, Picks(q, from, line)
  PROVE  KeepsOf(q, line)
<1>1. \A i \in 1..Len(q) : q[i] # line /\ \E k \in 1..Len(Lru) : q[i] = Lru[k]
  BY DEF Picks
<1>2. \A i, j \in 1..Len(q) : i < j =>
        \E k, m \in 1..Len(Lru) : k < m /\ q[i] = Lru[k] /\ q[j] = Lru[m]
  BY DEF Picks
<1>3. \A k \in 1..Len(Lru) :
        \/ Lru[k] = line
        \/ \E i \in 1..Len(q) : q[i] = Lru[k]
        \/ k = 1 /\ Evicting(line)
  BY DEF Picks
<1>4. Evicting(line) => \A i \in 1..Len(q) : q[i] # Lru[1]
  <2>1. \A i, j \in 1..Len(Lru) : Lru[i] = Lru[j] => i = j
    BY ListFacts
  <2>2. \A i \in 1..Len(q) : 1 \in 1..Len(Lru)
    BY ListFacts DEF Picks
  <2> QED BY <2>1, <2>2 DEF Picks
<1> QED BY <1>1, <1>2, <1>3, <1>4 DEF Picks, KeepsOf

\* The list keeps its lines in order whichever way fa_access goes.
LEMMA KeptIsPart ==
  ASSUME ClassifierInv, NEW line \in Lines
  PROVE  KeepsOf(Kept(line), line)
<1> DEFINE n == Len(Lru)
           q == Kept(line)
<1>1. Lru \in Seq(Lines) /\ n \in Nat /\ Capacity \in Nat /\ Capacity > 0 /\ n <= Capacity
  BY ListFacts
<1>2. \A i, j \in 1..n : Lru[i] = Lru[j] => i = j
  BY ListFacts
<1>3. FaHit(classifier, line) <=> \E i \in 1..n : Lru[i] = line
  BY ListFacts DEF FaHit
<1>5. CASE FaHit(classifier, line)
  <2> DEFINE k == NodeOf(classifier, line)
             from == [i \in 1..Len(q) |-> IF i < k THEN i ELSE i + 1]
  <2>1. k \in 1..n /\ Lru[k] = line
    BY <1>1, <1>3, <1>5 DEF NodeOf, Lru
  <2>2. q = RemoveAt(Lru, k)
    BY <1>5 DEF Kept
  <2> HIDE DEF k, q
  <2>3. q \in Seq(Lines) /\ Len(q) = n - 1
        /\ \A i \in 1..(n - 1) : q[i] = IF i < k THEN Lru[i] ELSE Lru[i + 1]
    BY <1>1, <2>1, <2>2, RemoveShape
  <2> HIDE DEF n
  <2>4. \A i \in 1..Len(q) : from[i] \in 1..n /\ from[i] # k /\ q[i] = Lru[from[i]]
    BY <1>1, <2>1, <2>3
  <2>5. \A i, j \in 1..Len(q) : i < j => from[i] < from[j]
    BY <1>1, <2>1, <2>3
  <2>6. ASSUME NEW m \in 1..n, m # k
        PROVE  \E i \in 1..Len(q) : from[i] = m
    <3> DEFINE i == IF m < k THEN m ELSE m - 1
    <3>1. i \in 1..Len(q)
      BY <1>1, <2>1, <2>3, <2>6
    <3>2. from[i] = m
      BY <1>1, <2>1, <2>6, <3>1
    <3> QED BY <3>1, <3>2
  <2> HIDE DEF from
  <2>7. \A i \in 1..Len(q) : q[i] # line
    BY <1>2, <2>1, <2>4 DEF n
  <2>8. Len(q) \in Nat /\ Len(q) + 1 <= Capacity /\ (n = Capacity => Len(q) + 1 = Capacity)
    BY <1>1, <2>1, <2>3
  <2>9. \A m \in 1..n : Lru[m] = line \/ \E i \in 1..Len(q) : from[i] = m
    BY <2>1, <2>6
  <2>10. \A i \in 1..Len(q) : from[i] \in 1..n /\ q[i] = Lru[from[i]] /\ q[i] # line
    BY <2>4, <2>7
  <2>11. Picks(q, from, line)
    BY <1>5, <2>3, <2>5, <2>8, <2>9, <2>10 DEF Picks, n, Evicting
  <2> QED BY <2>11, PicksKeep DEF q
<1>6. CASE ~FaHit(classifier, line)
  <2>0. \A i \in 1..n : Lru[i] # line
    BY <1>3, <1>6
  <2>1. CASE n >= Capacity
    <3> DEFINE from == [i \in 1..Len(q) |-> i + 1]
    <3>1. n = Capacity /\ n > 0
      BY <1>1, <2>1
    <3>2. Lru # << >>
      BY <1>1, <3>1
    <3>3. q = Tail(Lru)
      BY <1>6, <2>1 DEF Kept, FaFull, Lru, Capacity
    <3> HIDE DEF q
    <3>4. q \in Seq(Lines) /\ Len(q) = n - 1 /\ \A i \in 1..(n - 1) : q[i] = Lru[i + 1]
      BY <1>1, <3>2, <3>3, HeadTailProperties
    <3> HIDE DEF n
    <3>5. \A i \in 1..Len(q) : from[i] \in 1..n /\ q[i] = Lru[from[i]] /\ q[i] # line
      BY <1>1, <2>0, <3>4
    <3>6. \A m \in 1..n : m = 1 \/ \E i \in 1..Len(q) : from[i] = m
      <4>1. \A m \in 1..n : m = 1 \/ (m - 1 \in 1..Len(q) /\ from[m - 1] = m)
        BY <1>1, <3>4
      <4> QED BY <4>1
    <3>7. Len(q) \in Nat /\ Len(q) + 1 = Capacity /\ Len(q) + 1 <= Capacity
      BY <1>1, <3>1, <3>4
    <3>8. \A i, j \in 1..Len(q) : i < j => from[i] < from[j]
      BY <1>1, <3>4
    <3>9. Evicting(line) /\ \A i \in 1..Len(q) : from[i] # 1
      BY <1>1, <1>6, <2>1, <3>4 DEF Evicting, FaFull, n, Lru, Capacity
    <3> HIDE DEF from
    <3>10. Picks(q, from, line)
      BY <3>4, <3>5, <3>6, <3>7, <3>8, <3>9 DEF Picks, n
    <3> QED BY <3>10, PicksKeep DEF q
  <2>2. CASE n < Capacity
    <3> DEFINE from == [i \in 1..Len(q) |-> i]
    <3>1. q = Lru
      BY <1>1, <1>6, <2>2 DEF Kept, FaFull, Lru, Capacity
    <3>2. Len(q) + 1 <= Capacity /\ n # Capacity
      BY <1>1, <2>2, <3>1
    <3>3. q \in Seq(Lines) /\ Len(q) = n
      BY <1>1, <3>1
    <3> HIDE DEF n
    <3> HIDE DEF q
    <3>4. \A i \in 1..Len(q) : from[i] \in 1..n /\ q[i] = Lru[from[i]] /\ q[i] # line
      BY <2>0, <3>1, <3>3
    <3>5. \A i, j \in 1..Len(q) : i < j => from[i] < from[j]
      OBVIOUS
    <3>6. \A m \in 1..n : \E i \in 1..Len(q) : from[i] = m
      BY <3>3
    <3>7. Len(q) \in Nat
      BY <1>1, <3>3
    <3>8. ~Evicting(line)
      BY <1>1, <2>2 DEF Evicting, FaFull, n, Lru, Capacity
    <3> HIDE DEF from
    <3>9. Picks(q, from, line)
      BY <3>2, <3>3, <3>4, <3>5, <3>6, <3>7, <3>8 DEF Picks, n
    <3> QED BY <3>9, PicksKeep DEF q
  <2> QED BY <1>1, <2>1, <2>2
<1> QED BY <1>5, <1>6

\* The list and the map fa_access leaves behind.
LEMMA FaAccessShape ==
  ASSUME ClassifierInv, NEW line \in Lines
  PROVE  LET c2 == Classified(classifier, line)
         IN  /\ c2.fa_lru = Append(Kept(line), line)
             /\ c2.fa_map = (IF Evicting(line) THEN classifier.fa_map \ {Head(Lru)}
                             ELSE classifier.fa_map) \cup {line}
             /\ c2.ever_seen = Seen \cup {line}
             /\ c2.fa_capacity = Capacity
<1> DEFINE rest  == Kept(line)
           known == IF Evicting(line) THEN classifier.fa_map \ {Head(Lru)} ELSE classifier.fa_map
<1>1. classifier \in [fa_capacity : Capacities, fa_lru : Seq(Lines),
                      fa_map : SUBSET Lines, ever_seen : SUBSET Lines]
  BY DEF ClassifierInv, ClassifierTypeOK
<1>2. FaAccess(classifier, line)
        = [classifier EXCEPT !.fa_lru = Append(rest, line), !.fa_map = known \cup {line}]
  BY DEF FaAccess, Kept, Lru, Evicting
<1> HIDE DEF rest, known
<1> QED BY <1>1, <1>2 DEF Classified, Capacity, Seen, rest, known

-----------------------------------------------------------------------------
\* The initial states satisfy the invariant.
LEMMA ClassifierInit == Init => ClassifierInv
<1> SUFFICES ASSUME Init PROVE ClassifierInv
  OBVIOUS
<1>1. PICK capacity \in Capacities : classifier = NewClassifier(capacity)
  BY DEF Init
<1>2. /\ classifier \in [fa_capacity : Capacities, fa_lru : Seq(Lines),
                         fa_map : SUBSET Lines, ever_seen : SUBSET Lines]
      /\ Lru = << >> /\ classifier.fa_map = {} /\ Seen = {} /\ Capacity = capacity
  BY <1>1 DEF NewClassifier, Lru, Seen, Capacity
<1>3. DOMAIN Lru = {} /\ Len(Lru) = 0 /\ ToSet(Lru) = {} /\ Capacity \in Nat \ {0}
  BY <1>2, CapacitiesAssumption DEF ToSet
<1>4. newer = {} /\ verdict = "None"
  BY DEF Init
<1>5. ClassifierTypeOK
  BY <1>2, <1>4 DEF ClassifierTypeOK
<1>6. MapMatchesList
  BY <1>2, <1>3 DEF MapMatchesList, Lru, Capacity
<1>7. ShadowIsLru
  BY <1>2, <1>3 DEF ShadowIsLru, Lru, Seen
<1>8. NewerIsStrict
  BY <1>4 DEF NewerIsStrict
<1>9. IsFiniteSet(Seen)
  BY <1>2, FS_EmptySet
<1> QED BY <1>2, <1>3, <1>5, <1>6, <1>7, <1>8, <1>9 DEF ClassifierInv

\* The order of last uses after a use of line, pair by pair.
LEMMA NewerAfter ==
  ASSUME NEW line, NEW missed, Classify(line, missed), ClassifierInv, NEW a, NEW b
  PROVE  <<a, b>> \in newer' <=>
           \/ <<a, b>> \in newer /\ a # line /\ b # line
           \/ a = line /\ b \in Seen /\ b # line
BY DEF Classify, Seen

\* classify() preserves the invariant.
LEMMA ClassifyKeeps ==
  ASSUME ClassifierInv, NEW line \in Lines, NEW missed \in BOOLEAN, Classify(line, missed)
  PROVE  ClassifierInv'
<1> DEFINE q == Kept(line)
           n == Len(q)
<1>1. KeepsOf(q, line)
  BY KeptIsPart
<1>2. q \in Seq(Lines) /\ n \in Nat /\ n + 1 <= Capacity /\ Capacity \in Nat \ {0}
  BY <1>1, ListFacts DEF KeepsOf
<1>3. /\ Lru' = Append(q, line)
      /\ classifier'.fa_map = (IF Evicting(line) THEN classifier.fa_map \ {Head(Lru)}
                               ELSE classifier.fa_map) \cup {line}
      /\ Seen' = Seen \cup {line}
      /\ Capacity' = Capacity
  BY FaAccessShape DEF Classify, Lru, Seen, Capacity
<1>4. classifier' \in [fa_capacity : Capacities, fa_lru : Seq(Lines),
                       fa_map : SUBSET Lines, ever_seen : SUBSET Lines]
  <2> DEFINE known == (IF Evicting(line) THEN classifier.fa_map \ {Head(Lru)}
                      ELSE classifier.fa_map) \cup {line}
  <2>1. Append(q, line) \in Seq(Lines)
    BY <1>2, AppendProperties
  <2>2. classifier \in [fa_capacity : Capacities, fa_lru : Seq(Lines),
                        fa_map : SUBSET Lines, ever_seen : SUBSET Lines]
    BY DEF ClassifierInv, ClassifierTypeOK
  <2>3. known \in SUBSET Lines
    BY <2>2
  <2>4. FaAccess(classifier, line)
          = [classifier EXCEPT !.fa_lru = Append(q, line), !.fa_map = known]
    BY DEF FaAccess, Kept, Lru, Evicting
  <2> HIDE DEF q, known
  <2> QED BY <2>1, <2>2, <2>3, <2>4 DEF Classify, Classified
<1>5. \A a, b : <<a, b>> \in newer' <=>
        \/ <<a, b>> \in newer /\ a # line /\ b # line
        \/ a = line /\ b \in Seen /\ b # line
  BY NewerAfter, Zenon
<1>6. /\ Lru' \in Seq(Lines) /\ Len(Lru') = n + 1 /\ DOMAIN Lru' = 1..(n + 1)
      /\ \A i \in 1..n : Lru'[i] = q[i]
      /\ Lru'[n + 1] = line
  BY <1>2, <1>3, AppendProperties
<1>7. \A i \in 1..n : q[i] # line /\ q[i] \in Seen /\ \E k \in 1..Len(Lru) : q[i] = Lru[k]
  BY <1>1, ListFacts DEF KeepsOf
<1>8. ClassifierTypeOK'
  <2>1. verdict' \in MissTypes \cup {"None"}
    BY DEF Classify, MissType, MissTypes
  <2>2. newer' \subseteq Seen' \X Seen'
    BY <1>3 DEF Classify, ClassifierInv, ClassifierTypeOK, Seen
  <2> QED BY <1>4, <2>1, <2>2 DEF ClassifierTypeOK, Seen
<1>9. ToSet(Lru') = {q[i] : i \in 1..n} \cup {line}
  <2> HIDE DEF q, n
  <2>1. ToSet(Lru') = {Lru'[i] : i \in 1..(n + 1)}
    BY <1>6 DEF ToSet
  <2>2. \A i \in 1..(n + 1) : i \in 1..n \/ i = n + 1
    BY <1>2
  <2>3. \A i \in 1..n : i \in 1..(n + 1)
    BY <1>2
  <2>4. n + 1 \in 1..(n + 1)
    BY <1>2
  <2> QED BY <1>6, <2>1, <2>2, <2>3, <2>4
<1>10. MapMatchesList'
  <2>1. Evicting(line) => Head(Lru) = Lru[1] /\ 1 \in 1..Len(Lru)
    BY ListFacts DEF Evicting, FaFull, Lru, Capacity
  <2>2. ASSUME NEW x \in classifier'.fa_map
        PROVE  x \in ToSet(Lru')
    <3>1. CASE x = line
      BY <3>1, <1>9
    <3>2. CASE x # line
      <4>1. PICK k \in 1..Len(Lru) : x = Lru[k]
        BY <1>3, <2>2, <3>2, ListFacts
      <4>2. ~(k = 1 /\ Evicting(line))
        BY <1>3, <2>1, <2>2, <3>2, <4>1
      <4>3. PICK i \in 1..n : q[i] = x
        BY <1>1, <3>2, <4>1, <4>2 DEF KeepsOf
      <4> QED BY <4>3, <1>9
    <3> QED BY <3>1, <3>2
  <2>3. ASSUME NEW i \in 1..n
        PROVE  q[i] \in classifier'.fa_map
    <3>1. q[i] \in classifier.fa_map
      BY <1>7, ListFacts
    <3>2. Evicting(line) => q[i] # Head(Lru)
      BY <1>1, <2>1 DEF KeepsOf
    <3> QED BY <1>3, <3>1, <3>2
  <2>4. classifier'.fa_map = ToSet(Lru')
    <3> HIDE DEF q
    <3> QED BY <1>3, <1>9, <2>2, <2>3
  <2>5. ASSUME NEW i \in 1..n, NEW j \in 1..n, i < j
        PROVE  q[i] # q[j]
    <3>1. PICK k, m \in 1..Len(Lru) : k < m /\ q[i] = Lru[k] /\ q[j] = Lru[m]
      BY <1>1, <2>5 DEF KeepsOf
    <3> QED BY <3>1, ListFacts
  <2>6. \A i, j \in 1..(n + 1) : i < j => Lru'[i] # Lru'[j]
    <3> HIDE DEF q, n
    <3> QED BY <1>2, <1>6, <1>7, <2>5
  <2>7. \A i, j \in 1..(n + 1) : Lru'[i] = Lru'[j] => i = j
    <3> HIDE DEF q, n
    <3> QED BY <1>2, <2>6
  <2> QED BY <1>2, <1>3, <1>6, <2>4, <2>7 DEF MapMatchesList, Lru, Capacity
<1>11. ShadowIsLru'
  <2>1. ASSUME NEW i \in 1..(n + 1), NEW j \in 1..(n + 1), i < j
        PROVE  <<Lru'[j], Lru'[i]>> \in newer'
    <3>1. i \in 1..n
      BY <1>2, <2>1
    <3>2. CASE j = n + 1
      BY <1>5, <1>6, <1>7, <3>1, <3>2
    <3>3. CASE j # n + 1
      <4>1. j \in 1..n
        BY <1>2, <3>3
      <4>2. PICK k, m \in 1..Len(Lru) : k < m /\ q[i] = Lru[k] /\ q[j] = Lru[m]
        BY <1>1, <2>1, <3>1, <4>1 DEF KeepsOf
      <4>3. <<q[j], q[i]>> \in newer
        BY <4>2, ListFacts
      <4> QED BY <1>5, <1>6, <1>7, <3>1, <4>1, <4>3
    <3> QED BY <3>2, <3>3
  <2>2. ASSUME NEW x \in Seen' \ ToSet(Lru')
        PROVE  n + 1 = Capacity /\ \A i \in 1..(n + 1) : <<Lru'[i], x>> \in newer'
    <3>1. x # line /\ x \in Seen /\ \A i \in 1..n : x # q[i]
      BY <1>3, <1>9
    <3>2. n + 1 = Capacity /\ \A i \in 1..n : <<q[i], x>> \in newer
      <4>1. CASE \A k \in 1..Len(Lru) : x # Lru[k]
        BY <1>1, <1>7, <3>1, <4>1, ListFacts DEF KeepsOf
      <4>2. CASE \E k \in 1..Len(Lru) : x = Lru[k]
        <5>1. x = Lru[1] /\ Evicting(line)
          BY <1>1, <3>1, <4>2 DEF KeepsOf
        <5>2. Len(Lru) = Capacity
          BY <5>1, ListFacts DEF Evicting, FaFull, Lru, Capacity
        <5>3. n + 1 = Capacity
          BY <1>1, <5>2 DEF KeepsOf
        <5>4. ASSUME NEW i \in 1..n
              PROVE  <<q[i], x>> \in newer
          <6>1. PICK k \in 1..Len(Lru) : q[i] = Lru[k]
            BY <1>7
          <6>2. 1 < k /\ 1 \in 1..Len(Lru)
            BY <3>1, <5>1, <6>1, ListFacts
          <6> QED BY <5>1, <6>1, <6>2, ListFacts
        <5> QED BY <5>3, <5>4
      <4> QED BY <4>1, <4>2
    <3>3. \A i \in 1..n : <<Lru'[i], x>> \in newer'
      BY <1>5, <1>6, <1>7, <3>1, <3>2
    <3>4. <<Lru'[n + 1], x>> \in newer'
      BY <1>5, <1>6, <3>1
    <3>5. \A i \in 1..(n + 1) : i \in 1..n \/ i = n + 1
      BY <1>2
    <3> QED BY <3>2, <3>3, <3>4, <3>5
  <2> QED BY <1>3, <1>6, <2>1, <2>2 DEF ShadowIsLru, Lru, Seen, Capacity
<1>12. NewerIsStrict'
  BY <1>5 DEF NewerIsStrict, ClassifierInv
<1>13. IsFiniteSet(Seen')
  BY <1>3, FS_AddElement DEF ClassifierInv
<1>14. ToSet(Lru') \subseteq Seen'
  BY <1>3, <1>7, <1>9
<1> QED BY <1>8, <1>10, <1>11, <1>12, <1>13, <1>14 DEF ClassifierInv

\* The invariant holds throughout.
THEOREM ClassifierInvHolds == Spec => []ClassifierInv
<1>1. ASSUME ClassifierInv, [Next]_classifierVars
      PROVE  ClassifierInv'
  <2>1. CASE Next
    BY <1>1, <2>1, ClassifyKeeps DEF Next
  <2>2. CASE UNCHANGED classifierVars
    BY <1>1, <2>2
       DEF classifierVars, ClassifierInv, ClassifierTypeOK, MapMatchesList, ShadowIsLru,
           NewerIsStrict, Lru, Seen
  <2> QED BY <1>1, <2>1, <2>2
<1> QED BY ClassifierInit, <1>1, PTL DEF Spec

\* The classifier's fields and answers keep their types.
THEOREM ClassifierTypeCorrect == Spec => []ClassifierTypeOK
<1>1. ClassifierInv => ClassifierTypeOK
  BY DEF ClassifierInv
<1> QED BY ClassifierInvHolds, <1>1, PTL

\* The list and the map never drift apart.
THEOREM MapNeverDrifts == Spec => []MapMatchesList
<1>1. ClassifierInv => MapMatchesList
  BY DEF ClassifierInv
<1> QED BY ClassifierInvHolds, <1>1, PTL

\* The shadow is a least-recently-used cache of its capacity.
THEOREM ShadowStaysLru == Spec => []ShadowIsLru
<1>1. ClassifierInv => ShadowIsLru
  BY DEF ClassifierInv
<1> QED BY ClassifierInvHolds, <1>1, PTL

-----------------------------------------------------------------------------
\* The lines used since line was.
Since(line) == {x \in Seen : <<x, line>> \in newer}

\* A hit in the shadow is a reuse distance below its capacity: the lines used
\* since line are those behind it in the list, or the whole list when it is gone.
LEMMA HitByDistance ==
  ASSUME ClassifierInv, NEW line \in Seen
  PROVE  FaHit(classifier, line) <=> Cardinality(Since(line)) < Capacity
<1> DEFINE n == Len(Lru)
<1>1. /\ n \in Nat /\ Capacity \in Nat /\ n <= Capacity
      /\ \A i, j \in 1..n : Lru[i] = Lru[j] => i = j
      /\ \A i \in 1..n : Lru[i] \in Seen
  BY ListFacts
<1>2. IsFiniteSet(Since(line)) /\ Cardinality(Since(line)) \in Nat
  BY FS_Subset, FS_CardinalityType DEF ClassifierInv, Since
<1>3. FaHit(classifier, line) <=> \E i \in 1..n : Lru[i] = line
  BY ListFacts DEF FaHit
<1>4. CASE FaHit(classifier, line)
  <2>1. PICK i \in 1..n : Lru[i] = line
    BY <1>3, <1>4
  <2> DEFINE behind == [j \in (i + 1)..n |-> Lru[j]]
  <2>2. ASSUME NEW x \in Since(line)
        PROVE  \E j \in (i + 1)..n : behind[j] = x
    <3>1. PICK j \in 1..n : x = Lru[j]
      BY <2>1, <2>2, ListFacts DEF Since, ClassifierInv, NewerIsStrict
    <3>2. x # line /\ <<line, x>> \notin newer
      BY <2>2 DEF Since, ClassifierInv, NewerIsStrict
    <3>3. i # j /\ ~(j < i)
      <4>1. j < i => <<line, x>> \in newer
        BY <2>1, <3>1, ListFacts
      <4> QED BY <2>1, <3>1, <3>2, <4>1
    <3> QED BY <1>1, <2>1, <3>1, <3>3
  <2>3. \A j \in (i + 1)..n : behind[j] \in Since(line)
    <3>1. \A j \in (i + 1)..n : j \in 1..n /\ i < j
      BY <1>1, <2>1
    <3> QED BY <2>1, <3>1, ListFacts DEF Since
  <2>4. behind \in Surjection((i + 1)..n, Since(line))
    <3> HIDE DEF n
    <3>1. behind \in [(i + 1)..n -> Since(line)]
      BY <2>3
    <3> HIDE DEF behind
    <3> QED BY <2>2, <3>1 DEF Surjection
  <2>5. IsFiniteSet((i + 1)..n) /\ Cardinality((i + 1)..n) < Capacity
    <3> HIDE DEF n
    <3>1. i + 1 \in Int /\ n \in Int
      BY <1>1, <2>1
    <3>2. /\ IsFiniteSet((i + 1)..n)
          /\ Cardinality((i + 1)..n) = IF i + 1 > n THEN 0 ELSE n - (i + 1) + 1
      BY <3>1, FS_Interval
    <3> QED BY <1>1, <2>1, <3>2
  <2>6. Cardinality(Since(line)) <= Cardinality((i + 1)..n)
    BY <2>4, <2>5, FS_Surjection
  <2>7. Cardinality((i + 1)..n) \in Nat
    BY <2>5, FS_CardinalityType
  <2> HIDE DEF n
  <2> QED BY <1>1, <1>2, <1>4, <2>5, <2>6, <2>7
<1>5. CASE ~FaHit(classifier, line)
  <2>1. \A i \in 1..n : line # Lru[i]
    BY <1>3, <1>5
  <2>2. n = Capacity /\ \A i \in 1..n : <<Lru[i], line>> \in newer
    BY <2>1, ListFacts
  <2> DEFINE all == [i \in 1..n |-> Lru[i]]
  <2>3. all \in Injection(1..n, Since(line))
    <3>1. \A i \in 1..n : all[i] \in Since(line)
      BY <1>1, <2>2 DEF Since
    <3>2. \A i, j \in 1..n : all[i] = all[j] => i = j
      BY <1>1
    <3> HIDE DEF n
    <3>3. all \in [1..n -> Since(line)]
      BY <3>1
    <3> HIDE DEF all
    <3> QED BY <3>2, <3>3 DEF Injection, IsInjective
  <2>4. IsFiniteSet(1..n) /\ Cardinality(1..n) = n
    <3> HIDE DEF n
    <3>1. 1 \in Int /\ n \in Int
      BY <1>1
    <3>2. IsFiniteSet(1..n) /\ Cardinality(1..n) = IF 1 > n THEN 0 ELSE n - 1 + 1
      BY <3>1, FS_Interval
    <3> QED BY <1>1, <3>2
  <2>5. Cardinality(1..n) <= Cardinality(Since(line))
    BY <1>2, <2>3, FS_Injection
  <2> HIDE DEF n
  <2> QED BY <1>1, <1>2, <1>5, <2>2, <2>4, <2>5
<1> QED BY <1>4, <1>5

\* The classifier implements the classification by reuse distance.
THEOREM ClassifierImplements == Spec => ImplementsReuseDistance
<1>1. Init => Abstract!Init
  <2> SUFFICES ASSUME Init PROVE Abstract!Init
    OBVIOUS
  <2>1. PICK capacity \in Capacities : classifier = NewClassifier(capacity)
    BY DEF Init
  <2>2. Capacity = capacity /\ Seen = {}
    BY <2>1 DEF NewClassifier, Capacity, Seen
  <2> QED BY <2>2, CapacitiesAssumption DEF Init, Abstract!Init, Capacity, Seen
<1>2. ASSUME ClassifierInv, [Next]_classifierVars
      PROVE  [Abstract!Next]_(Abstract!distanceVars)
  <2>1. ASSUME NEW line \in Lines, NEW missed \in BOOLEAN, Classify(line, missed)
        PROVE  Abstract!Use(line, missed)
    <3>1. Seen' = Seen \cup {line} /\ Capacity' = Capacity
      BY <1>2, <2>1, FaAccessShape DEF Classify, Seen, Capacity
    <3>2. newer' = Abstract!Renew(line)
      BY <2>1 DEF Classify, Abstract!Renew
    <3>3. Abstract!Distance(line) = Cardinality(Since(line))
      BY DEF Abstract!Distance, Since, Seen, Cardinality, Abstract!Cardinality
    <3>4. line \in Seen => (FaHit(classifier, line) <=> Abstract!Distance(line) < Capacity)
      BY <1>2, <3>3, HitByDistance
    <3>5. verdict' = Abstract!Verdict(line, missed)
      BY <2>1, <3>4 DEF Classify, MissType, Abstract!Verdict, Seen, Capacity
    <3> QED BY <3>1, <3>2, <3>5 DEF Abstract!Use, Seen, Capacity
  <2>2. CASE Next
    BY <2>1, <2>2 DEF Next, Abstract!Next
  <2>3. CASE UNCHANGED classifierVars
    BY <2>3 DEF classifierVars, Abstract!distanceVars
  <2> QED BY <1>2, <2>2, <2>3
<1> QED BY ClassifierInvHolds, <1>1, <1>2, PTL DEF Spec, Abstract!Spec, ImplementsReuseDistance

=============================================================================
