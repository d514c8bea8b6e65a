-------------------------- MODULE CacheLevelProofs --------------------------
(***************************************************************************)
(* What one access does to a set and to a level, for every geometry: the     *)
(* facts the proofs about whole hierarchies cite by name.                   *)
(***************************************************************************)
EXTENDS CacheLevel, SequenceTheorems, TLAPS

\* A tag is dirty in a set.
DirtyTag(entries, tag) ==
  \E i \in DOMAIN entries : entries[i].tag = tag /\ entries[i].dirty

\* The entries of a set, whatever their order.
EntrySet(entries) == {entries[i] : i \in DOMAIN entries}

-----------------------------------------------------------------------------
(* Shapes of the lists the operations build. *)

\* Removing the k-th entry of a list (entries_.splice takes it out).
LEMMA RemoveShape ==
  ASSUME NEW S, NEW s \in Seq(S), NEW k \in 1..Len(s)
  PROVE  /\ RemoveAt(s, k) \in Seq(S)
         /\ Len(RemoveAt(s, k)) = Len(s) - 1
         /\ \A i \in 1..(Len(s) - 1) :
              RemoveAt(s, k)[i] = IF i < k THEN s[i] ELSE s[i + 1]
<1> DEFINE a == SubSeq(s, 1, k - 1)
           b == SubSeq(s, k + 1, Len(s))
<1>1. a \in Seq(S) /\ Len(a) = k - 1 /\ \A i \in 1..(k - 1) : a[i] = s[i]
  OBVIOUS
<1>2. b \in Seq(S) /\ Len(b) = Len(s) - k /\ \A i \in 1..(Len(s) - k) : b[i] = s[k + i]
  OBVIOUS
<1>3. RemoveAt(s, k) = a \o b
  BY DEF RemoveAt
<1> HIDE DEF a, b
<1>4. /\ a \o b \in Seq(S)
      /\ Len(a \o b) = Len(a) + Len(b)
      /\ \A i \in 1..(Len(a) + Len(b)) :
           (a \o b)[i] = IF i <= Len(a) THEN a[i] ELSE b[i - Len(a)]
  BY <1>1, <1>2, ConcatProperties
<1>5. ASSUME NEW i \in 1..(Len(s) - 1)
      PROVE  (a \o b)[i] = IF i < k THEN s[i] ELSE s[i + 1]
  <2>1. CASE i < k
    <3>1. i \in 1..(k - 1) /\ i \in 1..(Len(a) + Len(b)) /\ i <= Len(a)
      BY <1>1, <1>2, <2>1
    <3>2. (a \o b)[i] = a[i]
      BY <1>4, <3>1
    <3>3. a[i] = s[i]
      BY <1>1, <3>1
    <3> QED BY <2>1, <3>2, <3>3
  <2>2. CASE ~(i < k)
    <3>1. (a \o b)[i] = b[i - (k - 1)]
      BY <1>1, <1>2, <1>4, <2>2
    <3>2. i - (k - 1) \in 1..(Len(s) - k) /\ k + (i - (k - 1)) = i + 1
      BY <2>2
    <3> QED BY <1>2, <2>2, <3>1, <3>2
  <2> QED BY <2>1, <2>2
<1> QED BY <1>1, <1>2, <1>3, <1>4, <1>5

\* A hit: the entry moves to the front and the ones before it step back
\* (CacheSet::access, the splice).
LEMMA PromoteShape ==
  ASSUME NEW Tag, NEW s \in Seq(Entries(Tag)), NEW t \in Tag,
         NEW o \in CacheAccessOptions, NEW k \in 1..Len(s), s[k].tag = t,
         \A i, j \in 1..Len(s) : s[i].tag = s[j].tag => i = j
  PROVE  /\ Promote(s, t, o) \in Seq(Entries(Tag))
         /\ Len(Promote(s, t, o)) = Len(s)
         /\ Promote(s, t, o)[1] = [tag |-> t, dirty |-> s[k].dirty \/ MarksDirty(o)]
         /\ \A i \in 2..Len(s) :
              Promote(s, t, o)[i] = IF i <= k THEN s[i - 1] ELSE s[i]
<1> DEFINE e == [tag |-> t, dirty |-> s[k].dirty \/ MarksDirty(o)]
           r == RemoveAt(s, k)
<1>0. DOMAIN s = 1..Len(s)
  OBVIOUS
<1>1. Find(s, t) = k
  <2>1. \A j \in 1..(k - 1) : s[j].tag # t
    OBVIOUS
  <2>2. \A i \in DOMAIN s : s[i].tag = t => i = k
    BY <1>0
  <2> QED BY <1>0, <2>1, <2>2 DEF Find
<1>2. e \in Entries(Tag)
  BY DEF Entries, MarksDirty, CacheAccessOptions
<1>3. r \in Seq(Entries(Tag)) /\ Len(r) = Len(s) - 1
      /\ \A i \in 1..(Len(s) - 1) : r[i] = IF i < k THEN s[i] ELSE s[i + 1]
  BY RemoveShape
<1>4. Promote(s, t, o) = <<e>> \o r
  BY <1>1 DEF Promote, Cons
<1> HIDE DEF e, r
<1>5. <<e>> \o r \in Seq(Entries(Tag)) /\ Len(<<e>> \o r) = Len(s)
      /\ (<<e>> \o r)[1] = e
  BY <1>2, <1>3
<1>6. \A i \in 2..Len(s) : (<<e>> \o r)[i] = r[i - 1]
  BY <1>2, <1>3
<1>7. \A i \in 2..Len(s) : r[i - 1] = IF i <= k THEN s[i - 1] ELSE s[i]
  BY <1>3
<1> QED BY <1>4, <1>5, <1>6, <1>7 DEF e

\* A fill: the last entry leaves a full set and every other steps back
\* (CacheSet::access, pop_back and push_front).
LEMMA FillShape ==
  ASSUME NEW Tag, NEW s \in Seq(Entries(Tag)), NEW t \in Tag,
         NEW o \in CacheAccessOptions, NEW w \in Nat \ {0}, Len(s) <= w
  PROVE  /\ Fill(s, t, o, w) \in Seq(Entries(Tag))
         /\ Len(Fill(s, t, o, w)) = IF Evicts(s, w) THEN Len(s) ELSE Len(s) + 1
         /\ Fill(s, t, o, w)[1] = [tag |-> t, dirty |-> MarksDirty(o)]
         /\ \A i \in 2..Len(Fill(s, t, o, w)) : Fill(s, t, o, w)[i] = s[i - 1]
<1> DEFINE e == [tag |-> t, dirty |-> MarksDirty(o)]
           r == IF Evicts(s, w) THEN Front(s) ELSE s
<1>1. e \in Entries(Tag)
  BY DEF Entries, MarksDirty, CacheAccessOptions
<1>2. /\ r \in Seq(Entries(Tag))
      /\ Len(r) = (IF Evicts(s, w) THEN Len(s) - 1 ELSE Len(s))
      /\ \A i \in 1..Len(r) : r[i] = s[i]
  BY DEF Front, Evicts
<1>3. Fill(s, t, o, w) = <<e>> \o r
  BY DEF Fill, Cons
<1> QED BY <1>1, <1>2, <1>3 DEF Evicts

-----------------------------------------------------------------------------
(* What an access does to a set. *)

\* A set stays a set of entries, well formed, whatever the options are.
LEMMA SetAfterWellFormed ==
  ASSUME NEW Tag, NEW s \in Seq(Entries(Tag)), NEW t \in Tag,
         NEW o \in CacheAccessOptions, NEW w \in Nat \ {0}, WellFormedSet(s, w)
  PROVE  /\ SetAfter(s, t, o, w) \in Seq(Entries(Tag))
         /\ WellFormedSet(SetAfter(s, t, o, w), w)
<1>0. DOMAIN s = 1..Len(s) /\ Len(s) \in Nat /\ Len(s) <= w
      /\ \A i, j \in 1..Len(s) : s[i].tag = s[j].tag => i = j
  BY DEF WellFormedSet
<1>1. CASE t \in TagsOf(s)
  <2>1. PICK k \in 1..Len(s) : s[k].tag = t
    BY <1>0, <1>1 DEF TagsOf
  <2> DEFINE p == Promote(s, t, o)
  <2>2. /\ p \in Seq(Entries(Tag))
        /\ Len(p) = Len(s)
        /\ p[1] = [tag |-> t, dirty |-> s[k].dirty \/ MarksDirty(o)]
        /\ \A i \in 2..Len(s) : p[i] = IF i <= k THEN s[i - 1] ELSE s[i]
    BY <1>0, <2>1, PromoteShape
  <2> HIDE DEF p
  <2>3. DOMAIN p = 1..Len(s)
    BY <2>2
  <2>4. p[1].tag = t
    BY <2>2
  <2>5. \A i \in 2..Len(s) : p[i].tag # t
    BY <1>0, <2>1, <2>2
  <2>6. ASSUME NEW i \in 2..Len(s), NEW j \in 2..Len(s), p[i].tag = p[j].tag
        PROVE  i = j
    <3> DEFINE from(n) == IF n <= k THEN n - 1 ELSE n
    <3>1. from(i) \in 1..Len(s) /\ from(j) \in 1..Len(s)
      BY <1>0
    <3>2. p[i] = s[from(i)] /\ p[j] = s[from(j)]
      BY <2>2
    <3>3. from(i) = from(j)
      BY <1>0, <2>6, <3>1, <3>2
    <3> QED BY <3>3, <1>0
  <2>7. \A i, j \in 1..Len(s) : p[i].tag = p[j].tag => i = j
    BY <1>0, <2>4, <2>5, <2>6
  <2>8. SetAfter(s, t, o, w) = p
    BY <1>1 DEF SetAfter, p
  <2> QED BY <1>0, <2>2, <2>3, <2>7, <2>8 DEF WellFormedSet
<1>2. CASE t \notin TagsOf(s) /\ o.allocate_on_miss
  <2> DEFINE f == Fill(s, t, o, w)
  <2>1. /\ f \in Seq(Entries(Tag))
        /\ Len(f) = IF Evicts(s, w) THEN Len(s) ELSE Len(s) + 1
        /\ f[1] = [tag |-> t, dirty |-> MarksDirty(o)]
        /\ \A i \in 2..Len(f) : f[i] = s[i - 1]
    BY <1>0, FillShape
  <2> HIDE DEF f
  <2>2. Len(f) <= w /\ Len(f) <= Len(s) + 1 /\ Len(f) \in Nat /\ DOMAIN f = 1..Len(f)
    BY <1>0, <2>1 DEF Evicts
  <2>3. \A i \in 2..Len(f) : f[i].tag # t
    <3>1. \A i \in 1..Len(s) : s[i].tag # t
      BY <1>0, <1>2 DEF TagsOf
    <3>2. \A i \in 2..Len(f) : i - 1 \in 1..Len(s)
      BY <1>0, <2>2
    <3> QED BY <2>1, <3>1, <3>2
  <2>4. \A i, j \in 2..Len(f) : f[i].tag = f[j].tag => i = j
    BY <1>0, <2>1, <2>2
  <2>5. \A i, j \in 1..Len(f) : f[i].tag = f[j].tag => i = j
    BY <2>1, <2>2, <2>3, <2>4
  <2>6. SetAfter(s, t, o, w) = f
    BY <1>2 DEF SetAfter, f
  <2> QED BY <2>1, <2>2, <2>5, <2>6 DEF WellFormedSet
<1>3. CASE t \notin TagsOf(s) /\ ~o.allocate_on_miss
  BY <1>3 DEF SetAfter
<1> QED BY <1>1, <1>2, <1>3

\* A hit replaces the entry of its tag and keeps all the others.
LEMMA PromoteEntries ==
  ASSUME NEW Tag, NEW s \in Seq(Entries(Tag)), NEW t \in Tag,
         NEW o \in CacheAccessOptions, NEW k \in 1..Len(s), s[k].tag = t,
         \A i, j \in 1..Len(s) : s[i].tag = s[j].tag => i = j
  PROVE  EntrySet(Promote(s, t, o)) =
           {e \in EntrySet(s) : e.tag # t}
             \cup {[tag |-> t, dirty |-> s[k].dirty \/ MarksDirty(o)]}
<1> DEFINE p == Promote(s, t, o)
           new == [tag |-> t, dirty |-> s[k].dirty \/ MarksDirty(o)]
<1>1. /\ p \in Seq(Entries(Tag))
      /\ Len(p) = Len(s)
      /\ p[1] = new
      /\ \A i \in 2..Len(s) : p[i] = IF i <= k THEN s[i - 1] ELSE s[i]
  BY PromoteShape
<1>2. DOMAIN s = 1..Len(s) /\ DOMAIN p = 1..Len(s) /\ Len(s) \in Nat
  BY <1>1
<1> HIDE DEF p, new
<1>3. ASSUME NEW i \in 1..Len(s)
      PROVE  p[i] = new \/ p[i] \in {e \in EntrySet(s) : e.tag # t}
  <2>1. CASE i = 1
    BY <1>1, <2>1
  <2>2. CASE i # 1
    <3> DEFINE m == IF i <= k THEN i - 1 ELSE i
    <3>1. m \in 1..Len(s) /\ m # k
      BY <1>2, <2>2
    <3>2. p[i] = s[m]
      BY <1>1, <1>2, <2>2
    <3>3. s[m].tag # t
      BY <3>1
    <3> QED BY <1>2, <3>1, <3>2, <3>3 DEF EntrySet
  <2> QED BY <2>1, <2>2
<1>4. ASSUME NEW i \in 1..Len(s), s[i].tag # t
      PROVE  \E j \in 1..Len(s) : p[j] = s[i]
  <2> DEFINE m == IF i < k THEN i + 1 ELSE i
  <2>1. m \in 2..Len(s) /\ (IF m <= k THEN m - 1 ELSE m) = i
    BY <1>2, <1>4
  <2>2. p[m] = s[i]
    BY <1>1, <2>1
  <2> QED BY <2>1, <2>2, <1>2
<1>5. new \in EntrySet(p)
  BY <1>1, <1>2 DEF EntrySet
<1>6. EntrySet(p) \subseteq {e \in EntrySet(s) : e.tag # t} \cup {new}
  BY <1>2, <1>3 DEF EntrySet
<1>7. {e \in EntrySet(s) : e.tag # t} \subseteq EntrySet(p)
  <2> SUFFICES ASSUME NEW i \in 1..Len(s), s[i].tag # t
               PROVE  s[i] \in EntrySet(p)
    BY <1>2 DEF EntrySet
  <2>1. PICK j \in 1..Len(s) : p[j] = s[i]
    BY <1>4
  <2> QED BY <1>2, <2>1 DEF EntrySet
<1> QED BY <1>5, <1>6, <1>7 DEF p, new

\* A fill adds its entry and gives up the last one of a full set, no other.
LEMMA FillEntries ==
  ASSUME NEW Tag, NEW s \in Seq(Entries(Tag)), NEW t \in Tag,
         NEW o \in CacheAccessOptions, NEW w \in Nat \ {0}, WellFormedSet(s, w)
  PROVE  EntrySet(Fill(s, t, o, w)) =
           {e \in EntrySet(s) : Evicts(s, w) => e.tag # Last(s).tag}
             \cup {[tag |-> t, dirty |-> MarksDirty(o)]}
<1> DEFINE f == Fill(s, t, o, w)
           new == [tag |-> t, dirty |-> MarksDirty(o)]
           kept == {e \in EntrySet(s) : Evicts(s, w) => e.tag # Last(s).tag}
<1>0. DOMAIN s = 1..Len(s) /\ Len(s) \in Nat /\ Len(s) <= w
      /\ \A i, j \in 1..Len(s) : s[i].tag = s[j].tag => i = j
  BY DEF WellFormedSet
<1>1. /\ f \in Seq(Entries(Tag))
      /\ Len(f) = IF Evicts(s, w) THEN Len(s) ELSE Len(s) + 1
      /\ f[1] = new
      /\ \A i \in 2..Len(f) : f[i] = s[i - 1]
  BY <1>0, FillShape
<1>2. DOMAIN f = 1..Len(f) /\ Len(f) \in Nat /\ 1 \in 1..Len(f)
  BY <1>0, <1>1 DEF Evicts
<1>3. Evicts(s, w) => Len(s) \in 1..Len(s) /\ Last(s) = s[Len(s)]
  BY <1>0 DEF Evicts, Last
<1> HIDE DEF f, new
<1>4. ASSUME NEW i \in 2..Len(f)
      PROVE  f[i] \in kept
  <2>1. i - 1 \in 1..Len(s) /\ (Evicts(s, w) => i - 1 # Len(s))
    BY <1>0, <1>1, <1>2
  <2>2. f[i] = s[i - 1]
    BY <1>1
  <2>3. Evicts(s, w) => s[i - 1].tag # Last(s).tag
    BY <1>0, <1>3, <2>1
  <2> QED BY <1>0, <2>1, <2>2, <2>3 DEF EntrySet
<1>5. ASSUME NEW i \in 1..Len(s), Evicts(s, w) => s[i].tag # Last(s).tag
      PROVE  s[i] \in EntrySet(f)
  <2>1. i + 1 \in 2..Len(f)
    BY <1>0, <1>1, <1>3, <1>5
  <2>2. f[i + 1] = s[(i + 1) - 1]
    BY <1>1, <2>1
  <2>3. (i + 1) - 1 = i
    OBVIOUS
  <2> QED BY <1>2, <2>1, <2>2, <2>3 DEF EntrySet
<1>6. EntrySet(f) \subseteq kept \cup {new}
  <2> SUFFICES ASSUME NEW i \in 1..Len(f)
               PROVE  f[i] \in kept \cup {new}
    BY <1>2 DEF EntrySet
  <2>1. CASE i = 1
    BY <1>1, <2>1
  <2>2. CASE i \in 2..Len(f)
    BY <1>4, <2>2
  <2> QED BY <1>2, <2>1, <2>2
<1>7. kept \subseteq EntrySet(f)
  BY <1>0, <1>5 DEF EntrySet
<1>8. new \in EntrySet(f)
  BY <1>1, <1>2 DEF EntrySet
<1> QED BY <1>6, <1>7, <1>8 DEF f, new

\* What SetAccessResult says, and who is in the set and who is dirty after an
\* access: the line accessed, if it hit or was filled, and every other line but
\* the one reported as evicted, with the dirty bit it had.
LEMMA SetAccess ==
  ASSUME NEW Tag, NEW s \in Seq(Entries(Tag)), NEW t \in Tag,
         NEW o \in CacheAccessOptions, NEW w \in Nat \ {0}, WellFormedSet(s, w)
  PROVE  LET r  == SetResult(s, t, o, w)
             s2 == SetAfter(s, t, o, w)
         IN  /\ r.hit <=> t \in TagsOf(s)
             /\ r.hit \in BOOLEAN /\ r.has_eviction \in BOOLEAN /\ r.evicted_dirty \in BOOLEAN
             /\ r.has_eviction =>
                  /\ ~r.hit /\ o.allocate_on_miss
                  /\ r.evicted_tag \in Tag /\ r.evicted_tag \in TagsOf(s)
                  /\ r.evicted_tag # t
                  /\ r.evicted_dirty <=> DirtyTag(s, r.evicted_tag)
             /\ \A u \in Tag :
                  u \in TagsOf(s2) <=>
                    IF u = t THEN r.hit \/ o.allocate_on_miss
                    ELSE u \in TagsOf(s) /\ ~(r.has_eviction /\ r.evicted_tag = u)
             /\ \A u \in Tag :
                  DirtyTag(s2, u) <=>
                    IF u = t
                    THEN DirtyTag(s, t)
                           \/ ((r.hit \/ o.allocate_on_miss) /\ MarksDirty(o))
                    ELSE DirtyTag(s, u) /\ ~(r.has_eviction /\ r.evicted_tag = u)
<1> DEFINE r  == SetResult(s, t, o, w)
           s2 == SetAfter(s, t, o, w)
           tags(q) == {e.tag : e \in EntrySet(q)}
<1>0. DOMAIN s = 1..Len(s) /\ Len(s) \in Nat /\ Len(s) <= w
      /\ \A i, j \in 1..Len(s) : s[i].tag = s[j].tag => i = j
  BY DEF WellFormedSet
<1>1. \A i \in 1..Len(s) : s[i] \in Entries(Tag)
  OBVIOUS
<1>2. \A e, f \in EntrySet(s) : e.tag = f.tag => e = f
  BY <1>0 DEF EntrySet
<1>3. \A q, u : u \in TagsOf(q) <=> \E e \in EntrySet(q) : e.tag = u
  BY DEF TagsOf, EntrySet
<1>4. \A q, u : DirtyTag(q, u) <=> \E e \in EntrySet(q) : e.tag = u /\ e.dirty
  BY DEF DirtyTag, EntrySet
<1>5. o.allocate_on_miss \in BOOLEAN /\ MarksDirty(o) \in BOOLEAN
  BY DEF CacheAccessOptions, MarksDirty
<1>9. r.hit \in BOOLEAN /\ r.has_eviction \in BOOLEAN /\ r.evicted_dirty \in BOOLEAN
  <2>1. Evicts(s, w) => Last(s).dirty \in BOOLEAN
    BY <1>0, <1>1 DEF Evicts, Last, Entries
  <2>2. Evicts(s, w) \in BOOLEAN
    BY DEF Evicts
  <2>3. (t \in TagsOf(s)) \in BOOLEAN
    OBVIOUS
  <2>4. r.hit \in BOOLEAN
    BY <2>3 DEF SetResult
  <2>5. r.has_eviction \in BOOLEAN
    BY <1>5, <2>2, <2>3 DEF SetResult
  <2>6. r.evicted_dirty \in BOOLEAN
    BY <2>1 DEF SetResult
  <2> QED BY <2>4, <2>5, <2>6
<1>6. CASE t \in TagsOf(s)
  <2>1. PICK k \in 1..Len(s) : s[k].tag = t
    BY <1>0, <1>6 DEF TagsOf
  <2> DEFINE new == [tag |-> t, dirty |-> s[k].dirty \/ MarksDirty(o)]
  <2>2. EntrySet(s2) = {e \in EntrySet(s) : e.tag # t} \cup {new}
    BY <1>0, <1>6, <2>1, PromoteEntries DEF SetAfter
  <2>3. r.hit /\ ~r.has_eviction /\ ~r.evicted_dirty
    BY <1>6 DEF SetResult
  <2>4. s[k] \in EntrySet(s) /\ s[k].dirty \in BOOLEAN
    BY <1>0, <1>1 DEF EntrySet, Entries
  <2>5. DirtyTag(s, t) <=> s[k].dirty
    BY <1>2, <1>4, <2>1, <2>4
  <2>6. new.tag = t /\ (new.dirty <=> s[k].dirty \/ MarksDirty(o))
    OBVIOUS
  <2> HIDE DEF new, r, s2
  <2>7. \A u : u \in TagsOf(s2) <=> (u = t \/ u \in TagsOf(s))
    BY <1>3, <2>2, <2>6
  <2>8. DirtyTag(s2, t) <=> DirtyTag(s, t) \/ MarksDirty(o)
    BY <1>4, <2>2, <2>5, <2>6
  <2>9. \A u : u # t => (DirtyTag(s2, u) <=> DirtyTag(s, u))
    BY <1>4, <2>2, <2>6
  <2> QED BY <1>5, <1>6, <1>9, <2>3, <2>7, <2>8, <2>9 DEF r, s2
<1>7. CASE t \notin TagsOf(s) /\ o.allocate_on_miss
  <2> DEFINE new == [tag |-> t, dirty |-> MarksDirty(o)]
  <2>1. EntrySet(s2) = {e \in EntrySet(s) : Evicts(s, w) => e.tag # Last(s).tag} \cup {new}
    BY <1>7, FillEntries DEF SetAfter
  <2>2. /\ ~r.hit
        /\ r.has_eviction <=> Evicts(s, w)
        /\ Evicts(s, w) => r.evicted_tag = Last(s).tag /\ r.evicted_dirty = Last(s).dirty
        /\ ~Evicts(s, w) => ~r.evicted_dirty
    BY <1>7 DEF SetResult
  <2>3. Evicts(s, w) => Last(s) \in EntrySet(s) /\ Last(s) \in Entries(Tag)
    BY <1>0, <1>1 DEF Evicts, Last, EntrySet
  <2>4. Evicts(s, w) => (DirtyTag(s, Last(s).tag) <=> Last(s).dirty)
    BY <1>2, <1>4, <2>3
  <2>6. Evicts(s, w) => Last(s).tag \in TagsOf(s) /\ Last(s).tag \in Tag
                          /\ Last(s).dirty \in BOOLEAN
    BY <1>3, <2>3 DEF Entries
  <2>7. new.tag = t /\ (new.dirty <=> MarksDirty(o))
    OBVIOUS
  <2>8. ~DirtyTag(s, t)
    BY <1>3, <1>4, <1>7
  <2> HIDE DEF new, r, s2
  <2>9. \A u : u \in TagsOf(s2)
                 <=> u = t \/ (u \in TagsOf(s) /\ ~(Evicts(s, w) /\ Last(s).tag = u))
    BY <1>3, <2>1, <2>7
  <2>10. DirtyTag(s2, t) <=> MarksDirty(o)
    BY <1>3, <1>4, <1>7, <2>1, <2>7
  <2>11. \A u : u # t => (DirtyTag(s2, u)
                 <=> DirtyTag(s, u) /\ ~(Evicts(s, w) /\ Last(s).tag = u))
    BY <1>4, <2>1, <2>7
  <2>12. \A u \in Tag :
           u \in TagsOf(s2) <=>
             IF u = t THEN r.hit \/ o.allocate_on_miss
             ELSE u \in TagsOf(s) /\ ~(r.has_eviction /\ r.evicted_tag = u)
    BY <1>7, <2>2, <2>9
  <2>13. \A u \in Tag :
           DirtyTag(s2, u) <=>
             IF u = t THEN DirtyTag(s, t) \/ ((r.hit \/ o.allocate_on_miss) /\ MarksDirty(o))
             ELSE DirtyTag(s, u) /\ ~(r.has_eviction /\ r.evicted_tag = u)
    BY <1>5, <1>7, <2>2, <2>8, <2>10, <2>11
  <2>14. r.hit <=> t \in TagsOf(s)
    BY <1>7, <2>2
  <2>16. r.has_eviction =>
           /\ ~r.hit /\ o.allocate_on_miss
           /\ r.evicted_tag \in Tag /\ r.evicted_tag \in TagsOf(s)
           /\ r.evicted_tag # t
           /\ r.evicted_dirty <=> DirtyTag(s, r.evicted_tag)
    BY <1>7, <2>2, <2>4, <2>6
  <2> QED BY <1>9, <2>12, <2>13, <2>14, <2>16 DEF r, s2
<1>8. CASE t \notin TagsOf(s) /\ ~o.allocate_on_miss
  <2>1. s2 = s /\ ~r.hit /\ ~r.has_eviction /\ ~r.evicted_dirty
    BY <1>8 DEF SetAfter, SetResult
  <2>2. ~DirtyTag(s, t)
    BY <1>3, <1>4, <1>8
  <2> HIDE DEF r, s2
  <2> QED BY <1>5, <1>8, <1>9, <2>1, <2>2 DEF r, s2
<1> QED BY <1>6, <1>7, <1>8

-----------------------------------------------------------------------------
(* What an access does to a level. *)

\* A line is the tag and the set it is split into, and only that line is: what
\* CacheLevel::access relies on when it rebuilds an evicted line.
LEMMA LineOfIsInverse ==
  ASSUME NEW n \in Nat \ {0}
  PROVE  /\ \A L \in Nat : /\ SetIndexOf(L, n) \in 0..(n - 1)
                          /\ TagOf(L, n) \in Nat
                          /\ LineOf(TagOf(L, n), SetIndexOf(L, n), n) = L
         /\ \A t \in Nat, si \in 0..(n - 1) :
              /\ LineOf(t, si, n) \in Nat
              /\ SetIndexOf(LineOf(t, si, n), n) = si
              /\ TagOf(LineOf(t, si, n), n) = t
<1>1. \A L \in Nat : /\ SetIndexOf(L, n) \in 0..(n - 1)
                   /\ TagOf(L, n) \in Nat
                   /\ LineOf(TagOf(L, n), SetIndexOf(L, n), n) = L
  BY DEF SetIndexOf, TagOf, LineOf
<1>2. \A t \in Nat, si \in 0..(n - 1) : LineOf(t, si, n) \in Nat
  BY DEF LineOf
<1>3. \A t \in Nat, si \in 0..(n - 1) : (t * n + si) % n = si /\ (t * n + si) \div n = t
  OBVIOUS
<1> QED BY <1>1, <1>2, <1>3 DEF SetIndexOf, TagOf, LineOf

\* A geometry is all a level needs of its parameters.
IsGeometry(g) == g.num_sets \in Nat \ {0} /\ g.num_ways \in Nat \ {0}

\* The empty level of the constructor.
LEMMA EmptyLevelFacts ==
  ASSUME NEW g, IsGeometry(g)
  PROVE  /\ EmptyLevel(g) \in Levels(g)
         /\ WellFormedLevel(EmptyLevel(g), g)
         /\ \A L \in Nat : ~Holds(EmptyLevel(g), g, L) /\ ~HoldsDirty(EmptyLevel(g), g, L)
<1>1. EmptyLevel(g) \in Levels(g)
  BY DEF EmptyLevel, Levels
<1>2. WellFormedLevel(EmptyLevel(g), g)
  BY DEF EmptyLevel, WellFormedLevel, WellFormedSet, IsGeometry
<1>3. \A L \in Nat : SetIndexOf(L, g.num_sets) \in SetIndices(g)
  BY LineOfIsInverse DEF IsGeometry, SetIndices
<1>4. \A L \in Nat : EmptyLevel(g)[SetIndexOf(L, g.num_sets)] = << >>
  BY <1>3 DEF EmptyLevel
<1> QED BY <1>1, <1>2, <1>4 DEF Holds, HoldsDirty, TagsOf

\* What LevelAccessResult says, and which lines are in the level and dirty after
\* an access, in terms of lines.
LEMMA LevelAccess ==
  ASSUME NEW g, IsGeometry(g), NEW sets \in Levels(g), WellFormedLevel(sets, g),
         NEW L \in Nat, NEW o \in CacheAccessOptions
  PROVE  LET r  == LevelResult(sets, g, L, o)
             s2 == LevelAfter(sets, g, L, o)
         IN  /\ s2 \in Levels(g) /\ WellFormedLevel(s2, g)
             /\ r.hit <=> Holds(sets, g, L)
             /\ r.hit \in BOOLEAN /\ r.has_eviction \in BOOLEAN /\ r.evicted_dirty \in BOOLEAN
             /\ r.has_eviction =>
                  /\ ~r.hit /\ o.allocate_on_miss
                  /\ r.evicted_cache_line \in Nat
                  /\ r.evicted_cache_line # L
                  /\ Holds(sets, g, r.evicted_cache_line)
                  /\ r.evicted_dirty <=> HoldsDirty(sets, g, r.evicted_cache_line)
             /\ \A M \in Nat :
                  Holds(s2, g, M) <=>
                    IF M = L THEN r.hit \/ o.allocate_on_miss
                    ELSE Holds(sets, g, M) /\ ~(r.has_eviction /\ r.evicted_cache_line = M)
             /\ \A M \in Nat :
                  HoldsDirty(s2, g, M) <=>
                    IF M = L
                    THEN HoldsDirty(sets, g, L)
                           \/ ((r.hit \/ o.allocate_on_miss) /\ MarksDirty(o))
                    ELSE HoldsDirty(sets, g, M)
                           /\ ~(r.has_eviction /\ r.evicted_cache_line = M)
<1> DEFINE n  == g.num_sets
           w  == g.num_ways
           si == SetIndexOf(L, n)
           t  == TagOf(L, n)
           e  == sets[si]
           q  == SetResult(e, t, o, w)
           q2 == SetAfter(e, t, o, w)
           r  == LevelResult(sets, g, L, o)
           s2 == LevelAfter(sets, g, L, o)
<1>1. /\ n \in Nat \ {0} /\ w \in Nat \ {0} /\ si \in SetIndices(g) /\ t \in Nat
      /\ SetIndices(g) = 0..(n - 1)
  BY LineOfIsInverse DEF IsGeometry, SetIndices
<1>2. e \in Seq(Entries(Nat)) /\ WellFormedSet(e, w)
  BY <1>1 DEF Levels, WellFormedLevel
<1>3. q2 \in Seq(Entries(Nat)) /\ WellFormedSet(q2, w)
  BY <1>1, <1>2, SetAfterWellFormed
<1>4. s2 = [sets EXCEPT ![si] = q2] /\ DOMAIN sets = SetIndices(g)
  BY DEF LevelAfter, Levels
<1>5. s2[si] = q2 /\ \A sj \in SetIndices(g) : sj # si => s2[sj] = sets[sj]
  BY <1>1, <1>4
<1>6. s2 \in Levels(g) /\ WellFormedLevel(s2, g)
  BY <1>3, <1>4, <1>5 DEF Levels, WellFormedLevel
<1>7. /\ r.hit = q.hit /\ r.has_eviction = q.has_eviction /\ r.evicted_dirty = q.evicted_dirty
      /\ q.has_eviction => r.evicted_cache_line = LineOf(q.evicted_tag, si, n)
  BY DEF LevelResult
<1>8. /\ q.hit <=> t \in TagsOf(e)
      /\ q.hit \in BOOLEAN /\ q.has_eviction \in BOOLEAN /\ q.evicted_dirty \in BOOLEAN
      /\ q.has_eviction =>
           /\ ~q.hit /\ o.allocate_on_miss
           /\ q.evicted_tag \in Nat /\ q.evicted_tag \in TagsOf(e)
           /\ q.evicted_tag # t
           /\ q.evicted_dirty <=> DirtyTag(e, q.evicted_tag)
      /\ \A u \in Nat :
           u \in TagsOf(q2) <=>
             IF u = t THEN q.hit \/ o.allocate_on_miss
             ELSE u \in TagsOf(e) /\ ~(q.has_eviction /\ q.evicted_tag = u)
      /\ \A u \in Nat :
           DirtyTag(q2, u) <=>
             IF u = t
             THEN DirtyTag(e, t)
                    \/ ((q.hit \/ o.allocate_on_miss) /\ MarksDirty(o))
             ELSE DirtyTag(e, u) /\ ~(q.has_eviction /\ q.evicted_tag = u)
  <2> HIDE DEF n, w, si, t, e
  <2> QED BY <1>1, <1>2, SetAccess
<1>9. \A M \in Nat :
        /\ TagOf(M, n) \in Nat /\ SetIndexOf(M, n) \in SetIndices(g)
        /\ LineOf(TagOf(M, n), SetIndexOf(M, n), n) = M
  BY <1>1, LineOfIsInverse
<1>10. \A u \in Nat : /\ LineOf(u, si, n) \in Nat
                     /\ SetIndexOf(LineOf(u, si, n), n) = si /\ TagOf(LineOf(u, si, n), n) = u
  BY <1>1, LineOfIsInverse
<1>11. \A p, M : Holds(p, g, M) <=> TagOf(M, n) \in TagsOf(p[SetIndexOf(M, n)])
  BY DEF Holds
<1>12. \A p, M : HoldsDirty(p, g, M) <=> DirtyTag(p[SetIndexOf(M, n)], TagOf(M, n))
  BY DEF HoldsDirty, DirtyTag
<1> HIDE DEF n, w, si, t, e, q, q2, r, s2
<1>13. LineOf(t, si, n) = L
  BY <1>9 DEF t, si
<1>14. r.has_eviction =>
         /\ r.evicted_cache_line \in Nat
         /\ SetIndexOf(r.evicted_cache_line, n) = si
         /\ TagOf(r.evicted_cache_line, n) = q.evicted_tag
  BY <1>7, <1>8, <1>10
<1>15. r.hit <=> Holds(sets, g, L)
  BY <1>7, <1>8, <1>11 DEF t, si, e
<1>16. r.has_eviction =>
         /\ ~r.hit /\ o.allocate_on_miss
         /\ r.evicted_cache_line \in Nat
         /\ r.evicted_cache_line # L
         /\ Holds(sets, g, r.evicted_cache_line)
         /\ r.evicted_dirty <=> HoldsDirty(sets, g, r.evicted_cache_line)
  BY <1>7, <1>8, <1>11, <1>12, <1>14 DEF t, e
<1>17. ASSUME NEW M \in Nat, SetIndexOf(M, n) # si
       PROVE  /\ M # L /\ ~(r.has_eviction /\ r.evicted_cache_line = M)
              /\ Holds(s2, g, M) <=> Holds(sets, g, M)
              /\ HoldsDirty(s2, g, M) <=> HoldsDirty(sets, g, M)
  BY <1>5, <1>9, <1>11, <1>12, <1>14, <1>17 DEF si
<1>18. ASSUME NEW M \in Nat, SetIndexOf(M, n) = si
       PROVE  /\ M = L <=> TagOf(M, n) = t
              /\ r.has_eviction => (r.evicted_cache_line = M <=> q.evicted_tag = TagOf(M, n))
              /\ Holds(s2, g, M) <=> TagOf(M, n) \in TagsOf(q2)
              /\ HoldsDirty(s2, g, M) <=> DirtyTag(q2, TagOf(M, n))
              /\ Holds(sets, g, M) <=> TagOf(M, n) \in TagsOf(e)
              /\ HoldsDirty(sets, g, M) <=> DirtyTag(e, TagOf(M, n))
  <2>1. M = L <=> TagOf(M, n) = t
    BY <1>9, <1>13, <1>18 DEF t
  <2>2. r.has_eviction => (r.evicted_cache_line = M <=> q.evicted_tag = TagOf(M, n))
    BY <1>7, <1>9, <1>14, <1>18
  <2>3. s2[SetIndexOf(M, n)] = q2
    BY <1>5, <1>18
  <2> QED BY <1>11, <1>12, <1>18, <2>1, <2>2, <2>3 DEF e
<1>19. \A M \in Nat :
         Holds(s2, g, M) <=>
           IF M = L THEN r.hit \/ o.allocate_on_miss
           ELSE Holds(sets, g, M) /\ ~(r.has_eviction /\ r.evicted_cache_line = M)
  <2> TAKE M \in Nat
  <2>1. CASE SetIndexOf(M, n) # si
    BY <1>17, <2>1
  <2>2. CASE SetIndexOf(M, n) = si
    BY <1>7, <1>8, <1>9, <1>18, <2>2
  <2> QED BY <2>1, <2>2
<1>20. \A M \in Nat :
         HoldsDirty(s2, g, M) <=>
           IF M = L
           THEN HoldsDirty(sets, g, L) \/ ((r.hit \/ o.allocate_on_miss) /\ MarksDirty(o))
           ELSE HoldsDirty(sets, g, M) /\ ~(r.has_eviction /\ r.evicted_cache_line = M)
  <2> TAKE M \in Nat
  <2>1. CASE SetIndexOf(M, n) # si
    BY <1>17, <2>1
  <2>2. CASE SetIndexOf(M, n) = si
    BY <1>7, <1>8, <1>9, <1>18, <2>2
  <2> QED BY <2>1, <2>2
<1> QED BY <1>6, <1>7, <1>8, <1>15, <1>16, <1>19, <1>20 DEF r, s2
=============================================================================
