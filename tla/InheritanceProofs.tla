--------------------------- MODULE InheritanceProofs ---------------------------
(***************************************************************************)
(* What becomes of a configuration document of any length, with any limits:   *)
(* the caches are the ones it means, it is rejected only for what is wrong in  *)
(* it, and the shadow of a core fits its L1.                                 *)
(***************************************************************************)
EXTENDS Inheritance, SequenceTheorems, FiniteSetTheorems, WellFoundedInduction, TLAPS

-----------------------------------------------------------------------------
(* Numbers. *)

\* Numbers have a least among them: what induction is made of here.
LEMMA LeastNatural ==
  ASSUME NEW T, T \subseteq Nat, T # {}
  PROVE  \E x \in T : \A y \in T : x <= y
<1> DEFINE R == {ss \in Nat \X Nat : ss[1] < ss[2]}
<1>1. IsWellFoundedOn(R, Nat)
  BY NatLessThanWellFounded DEF OpToRel
<1>2. R = {ss \in Nat \X Nat : ss[1] < ss[2]}
  OBVIOUS
<1> HIDE DEF R
<1>3. PICK x \in T : \A y \in T : ~ (<<y, x>> \in R)
  BY <1>1, WFMin
<1>4. ASSUME NEW y \in T
      PROVE  x <= y
  <2>1. x \in Nat /\ y \in Nat
    OBVIOUS
  <2>2. ~ (<<y, x>> \in R)
    BY <1>3
  <2>3. <<y, x>> \in R <=> y < x
    BY <1>2, <2>1
  <2> QED BY <2>1, <2>2, <2>3
<1> QED BY <1>4

\* Places in a list have a first and a last among them.
LEMMA MaxOfPlaces ==
  ASSUME NEW n \in Nat, NEW S, S \subseteq 1..n, S # {}
  PROVE  Max(S) \in S
<1> DEFINE T == {n - k : k \in S}
<1>1. T \subseteq Nat /\ T # {}
  <2>1. \A k \in S : n - k \in Nat
    OBVIOUS
  <2> QED BY <2>1
<1>2. PICK x \in T : \A y \in T : x <= y
  BY <1>1, LeastNatural
<1>3. PICK m \in S : x = n - m
  BY <1>2
<1>4. ASSUME NEW k \in S
      PROVE  m >= k
  <2>1. n - m <= n - k
    BY <1>2, <1>3
  <2> QED BY <2>1
<1> QED BY <1>4 DEF Max

\* The least of some places in a list is one of them.
LEMMA MinOfPlaces ==
  ASSUME NEW n \in Nat, NEW S, S \subseteq 1..n, S # {}
  PROVE  Min(S) \in S
<1>1. S \subseteq Nat
  OBVIOUS
<1>2. PICK m \in S : \A k \in S : m <= k
  BY <1>1, LeastNatural
<1> QED BY <1>2 DEF Min

\* A product that fits is computed exactly in 64 bits.
LEMMA ProductFits ==
  ASSUME NEW n \in Nat \ {0}, NEW m \in Nat \ {0}, NEW max \in Nat, n <= max \div m
  PROVE  /\ n * m \in 1..max /\ m <= max
         /\ (n * (m % (max + 1))) % (max + 1) = n * m
         /\ (n * m) \div m = n /\ (n * m) % m = 0
<1>1. max = m * (max \div m) + (max % m) /\ max \div m \in Nat /\ max % m \in Nat
  OBVIOUS
<1>2. n * m <= (max \div m) * m
  <2> DEFINE q == max \div m
  <2>1. q \in Nat /\ n <= q
    BY <1>1
  <2> HIDE DEF q
  <2>2. n * m <= q * m
    BY <2>1
  <2> QED BY <2>2 DEF q
<1>3. n * m \in Nat /\ n * m >= m
  OBVIOUS
<1>4. n * m <= max /\ m <= max /\ n * m >= 1
  <2> DEFINE q == max \div m
  <2>1. q \in Nat /\ max = m * q + (max % m) /\ n * m <= q * m /\ max % m \in Nat
    BY <1>1, <1>2
  <2> HIDE DEF q
  <2>2. q * m = m * q
    BY <2>1
  <2> QED BY <1>3, <2>1, <2>2
<1>5. m % (max + 1) = m
  BY <1>4
<1>6. (n * m) % (max + 1) = n * m
  <2> DEFINE p == n * m
  <2>1. p \in Nat /\ p <= max
    BY <1>3, <1>4
  <2> HIDE DEF p
  <2>2. p % (max + 1) = p
    BY <2>1
  <2> QED BY <2>2 DEF p
<1>7. (n * m) \div m = n /\ (n * m) % m = 0
  OBVIOUS
<1> QED BY <1>3, <1>4, <1>5, <1>6, <1>7

\* The units are positive numbers.
LEMMA UnitFacts ==
  ASSUME NEW text, text.unit \in DOMAIN Multiplier \cup {NoText}
  PROVE  MultiplierOf(text) \in Nat \ {0}
<1>1. \A unit \in DOMAIN Multiplier : Multiplier[unit] \in Nat \ {0}
  BY DEF Multiplier
<1> QED BY <1>1 DEF MultiplierOf

\* A byte quantity that converts is exact (parse_byte_quantity).
LEMMA QuantityExact ==
  ASSUME NEW text, QuantityParses(text)
  PROVE  /\ Quantity(text) \in 1..MaxUint64
         /\ Quantity(text) \div MultiplierOf(text) = text.count
         /\ Quantity(text) % MultiplierOf(text) = 0
<1> DEFINE m == MultiplierOf(text)
           n == text.count
<1>1. m \in Nat \ {0}
  BY UnitFacts DEF QuantityParses
<1>2. n \in Nat \ {0} /\ n <= MaxUint64 \div m /\ MaxUint64 \in Nat
  BY LimitsAssumption DEF QuantityParses
<1>3. Quantity(text) = (n * (m % (MaxUint64 + 1))) % (MaxUint64 + 1)
  BY DEF Quantity
<1> HIDE DEF m, n
<1>4. /\ n * m \in 1..MaxUint64
      /\ (n * (m % (MaxUint64 + 1))) % (MaxUint64 + 1) = n * m
      /\ (n * m) \div m = n /\ (n * m) % m = 0
  BY <1>1, <1>2, ProductFits
<1> QED BY <1>3, <1>4 DEF m, n

\* An int that fits stays as it is.
LEMMA AsIntKeeps ==
  ASSUME NEW n \in 0..MaxInt
  PROVE  AsInt(n) = n
<1>1. MaxInt \in Nat
  BY LimitsAssumption
<1> DEFINE h == MaxInt + 1
           x == n + h
<1>2. h \in Nat \ {0} /\ x \in Nat /\ x < 2 * h
  BY <1>1
<1>3. AsInt(n) = (x % (2 * h)) - h
  BY <1>1 DEF AsInt
<1> HIDE DEF h
<1>4. x % (2 * h) = x
  BY <1>2
<1> QED BY <1>2, <1>3, <1>4

\* Dividing by the bytes of a set, or by those of a line and then by the ways.
LEMMA WaysDivide ==
  ASSUME NEW s \in Nat, NEW l \in Nat \ {0}, NEW a \in Nat \ {0}
  PROVE  /\ s \div (l * a) \in Nat /\ s \div l \in Nat
         /\ s \div (l * a) <= s \div l
         /\ (s \div l) - (s \div (l * a)) * a \in 0..(a - 1)
<1> DEFINE q == s \div l
           k == s \div (l * a)
           d == l * a
<1>1. q \in Nat /\ l * q <= s /\ s < l * (q + 1)
  OBVIOUS
<1>2. d \in Nat \ {0}
  OBVIOUS
<1>3. k \in Nat /\ d * k <= s /\ s < d * (k + 1)
  <2> HIDE DEF d
  <2>1. s \div d \in Nat /\ d * (s \div d) <= s /\ s < d * ((s \div d) + 1)
    BY <1>2
  <2> QED BY <2>1 DEF d
<1> HIDE DEF q, k
<1>4. d * k = l * (a * k) /\ d * (k + 1) = l * (a * (k + 1)) /\ a * k \in Nat /\ a * (k + 1) \in Nat
  BY <1>3
<1> HIDE DEF d
<1>5. ASSUME NEW x \in Nat, NEW y \in Nat, l * x < l * y
      PROVE  x < y
  <2>1. SUFFICES ASSUME y <= x PROVE FALSE
    OBVIOUS
  <2>2. l * y <= l * x
    BY <2>1
  <2>3. l * x \in Nat /\ l * y \in Nat
    OBVIOUS
  <2> QED BY <1>5, <2>2, <2>3
<1>6. l * (a * k) < l * (q + 1) /\ l * q < l * (a * (k + 1))
  <2>1. l * (a * k) \in Nat /\ l * (q + 1) \in Nat /\ l * q \in Nat /\ l * (a * (k + 1)) \in Nat
    BY <1>1, <1>4
  <2> QED BY <1>1, <1>3, <1>4, <2>1
<1>7. a * k < q + 1 /\ q < a * (k + 1)
  <2>1. q + 1 \in Nat /\ q \in Nat
    BY <1>1
  <2> QED BY <1>4, <1>5, <1>6, <2>1
<1>8. a * (k + 1) = a * k + a /\ k * a = a * k /\ k <= a * k
  BY <1>3
<1>9. k <= q /\ q - k * a \in 0..(a - 1)
  <2> DEFINE ak == a * k
  <2>1. ak \in Nat /\ ak < q + 1 /\ q < ak + a /\ k * a = ak /\ k <= ak
    BY <1>4, <1>7, <1>8
  <2> HIDE DEF ak
  <2>2. q - ak \in 0..(a - 1) /\ k <= q
    BY <1>1, <1>3, <2>1
  <2> QED BY <2>1, <2>2
<1> QED BY <1>1, <1>3, <1>9 DEF q, k


-----------------------------------------------------------------------------
(* What is made of an entry. *)

\* A field's value, by who says it: the entry, the one it is like, or nobody.
Spoken(node, f)       == IF f \in DOMAIN node THEN Parsed(f, node[f]) ELSE Defaults[f]
SpokenOver(base, node, f) == IF f \in DOMAIN node THEN Parsed(f, node[f]) ELSE Spoken(base, f)

\* Every field has a default but the size.
LEMMA DefaultFields ==
  /\ DOMAIN Defaults \cup {"size_bytes"} = Fields
  /\ {"role", "private_to", "line_size", "associativity", "size_bytes"} \subseteq Fields
  /\ Defaults.private_to = -1 /\ Defaults.line_size = 64 /\ Defaults.associativity = 8
BY DEF Fields, Defaults

\* parse_entry() gives every field, of an entry that has a size.
LEMMA ParsedEntry ==
  ASSUME NEW node, "size_bytes" \in DOMAIN node
  PROVE  parse_entry(node) = [f \in Fields |-> Spoken(node, f)]
<1>1. "size_bytes" \in Fields /\ DOMAIN Defaults \cup {"size_bytes"} = Fields
  BY DefaultFields
<1>2. (Fields \cap DOMAIN node) \cup DOMAIN Defaults = Fields
  BY <1>1
<1>3. parse_entry(node) =
        [f \in (Fields \cap DOMAIN node) \cup DOMAIN Defaults |->
           IF f \in Fields \cap DOMAIN node
           THEN [g \in Fields \cap DOMAIN node |-> Parsed(g, node[g])][f] ELSE Defaults[f]]
  BY DEF parse_entry, ParsedFields, Given, Over
<1> QED BY <1>2, <1>3 DEF Spoken

\* apply_like() gives every field, of a base that has a size.
LEMMA AppliedLike ==
  ASSUME NEW base, NEW node, "size_bytes" \in DOMAIN base
  PROVE  apply_like(base, node) = [f \in Fields |-> SpokenOver(base, node, f)]
<1>1. parse_entry(base) = [f \in Fields |-> Spoken(base, f)]
  BY ParsedEntry
<1>2. apply_like(base, node) =
        [f \in (Fields \cap DOMAIN node) \cup Fields |->
           IF f \in Fields \cap DOMAIN node
           THEN [g \in Fields \cap DOMAIN node |-> Parsed(g, node[g])][f] ELSE Spoken(base, f)]
  BY <1>1 DEF apply_like, ParsedFields, Given, Over
<1>3. (Fields \cap DOMAIN node) \cup Fields = Fields
  OBVIOUS
<1> QED BY <1>2, <1>3 DEF SpokenOver

\* The base of an entry, as parse() finds it, and whether the entry is accepted.
Found(i) == Entries[Max(BaseIndex(i))]

\* The i-th entry parses, if it is like another then with what it takes from that.
Accepted(i) ==
  IF IsLike(i) THEN BaseIndex(i) # {} /\ EntryParses(Found(i)) /\ FieldsParse(Entries[i])
  ELSE EntryParses(Entries[i])

\* The cache that it makes.
CacheOf(i) ==
  IF IsLike(i) THEN apply_like(Found(i), Entries[i]) ELSE parse_entry(Entries[i])

\* Every field of an accepted entry comes from a text that converts, its own or its
\* base's, or is the default.
LEMMA FieldComesFrom ==
  ASSUME NEW i, Accepted(i), NEW f \in Fields
  PROVE  /\ DOMAIN CacheOf(i) = Fields
         /\ \/ CacheOf(i)[f] = Defaults[f] /\ f # "size_bytes"
            \/ \E node \in {Entries[i], Found(i)} :
                 /\ node = Entries[i] \/ IsLike(i)
                 /\ f \in DOMAIN node /\ ParsesAs(f, node[f])
                 /\ CacheOf(i)[f] = Parsed(f, node[f])
<1>1. CASE IsLike(i)
  <2>1. /\ EntryParses(Found(i)) /\ FieldsParse(Entries[i])
        /\ CacheOf(i) = [g \in Fields |-> SpokenOver(Found(i), Entries[i], g)]
    BY <1>1, AppliedLike DEF Accepted, CacheOf, EntryParses
  <2>2. DOMAIN CacheOf(i) = Fields /\ CacheOf(i)[f] = SpokenOver(Found(i), Entries[i], f)
    BY <2>1
  <2>3. CASE f \in DOMAIN Entries[i]
    <3>1. ParsesAs(f, Entries[i][f]) /\ CacheOf(i)[f] = Parsed(f, Entries[i][f])
      BY <2>1, <2>2, <2>3 DEF FieldsParse, Given, SpokenOver
    <3> QED BY <2>2, <2>3, <3>1
  <2>4. CASE f \notin DOMAIN Entries[i] /\ f \in DOMAIN Found(i)
    <3>1. ParsesAs(f, Found(i)[f]) /\ CacheOf(i)[f] = Parsed(f, Found(i)[f])
      BY <2>1, <2>2, <2>4 DEF FieldsParse, EntryParses, Given, SpokenOver, Spoken
    <3> QED BY <1>1, <2>2, <2>4, <3>1
  <2>5. CASE f \notin DOMAIN Entries[i] /\ f \notin DOMAIN Found(i)
    <3>1. f # "size_bytes" /\ CacheOf(i)[f] = Defaults[f]
      BY <2>1, <2>2, <2>5 DEF EntryParses, SpokenOver, Spoken
    <3> QED BY <2>2, <3>1
  <2> QED BY <2>3, <2>4, <2>5
<1>2. CASE ~IsLike(i)
  <2>1. /\ EntryParses(Entries[i])
        /\ CacheOf(i) = [g \in Fields |-> Spoken(Entries[i], g)]
    BY <1>2, ParsedEntry DEF Accepted, CacheOf, EntryParses
  <2>2. DOMAIN CacheOf(i) = Fields /\ CacheOf(i)[f] = Spoken(Entries[i], f)
    BY <2>1
  <2>3. CASE f \in DOMAIN Entries[i]
    <3>1. ParsesAs(f, Entries[i][f]) /\ CacheOf(i)[f] = Parsed(f, Entries[i][f])
      BY <2>1, <2>2, <2>3 DEF FieldsParse, EntryParses, Given, Spoken
    <3> QED BY <2>2, <2>3, <3>1
  <2>4. CASE f \notin DOMAIN Entries[i]
    <3>1. f # "size_bytes" /\ CacheOf(i)[f] = Defaults[f]
      BY <2>1, <2>2, <2>4 DEF EntryParses, Spoken
    <3> QED BY <2>2, <3>1
  <2> QED BY <2>3, <2>4
<1> QED BY <1>1, <1>2


\* The caches of a document have their types, with line sizes that fit an int.
IsCache(c) ==
  /\ DOMAIN c = Fields
  /\ c.size_bytes \in 1..MaxUint64 /\ c.line_size \in 1..MaxInt
  /\ c.private_to \in Int /\ c.associativity \in Nat \ {0}

\* A line size that is accepted fits the int it is cast to.
LEMMA LineSizeFits ==
  ASSUME NEW text, ParsesAs("line_size", text)
  PROVE  /\ QuantityParses(text) /\ Quantity(text) \in 1..MaxInt
         /\ Parsed("line_size", text) = Quantity(text)
<1>1. QuantityParses(text) /\ Quantity(text) <= MaxInt
  BY DEF ParsesAs
<1>2. Quantity(text) \in 1..MaxInt
  BY <1>1, QuantityExact, LimitsAssumption
<1>3. Parsed("line_size", text) = AsInt(Quantity(text))
  BY DEF Parsed
<1>4. AsInt(Quantity(text)) = Quantity(text)
  <2>1. Quantity(text) \in 0..MaxInt
    BY <1>2, LimitsAssumption
  <2> QED BY <2>1, AsIntKeeps
<1> QED BY <1>1, <1>2, <1>3, <1>4

\* A text that converts has the type of its field.
LEMMA ParsedTypes ==
  ASSUME document \in Documents, NEW node \in Range(Entries), NEW f \in DOMAIN node, ParsesAs(f, node[f])
  PROVE  /\ f = "size_bytes" => Parsed(f, node[f]) \in 1..MaxUint64
         /\ f = "line_size" => Parsed(f, node[f]) \in 1..MaxInt
         /\ f = "private_to" => Parsed(f, node[f]) \in Int
         /\ f = "associativity" => Parsed(f, node[f]) \in Nat \ {0}
<1>1. CASE f = "size_bytes"
  <2>1. QuantityParses(node[f]) /\ Parsed(f, node[f]) = Quantity(node[f])
    BY <1>1 DEF ParsesAs, Parsed
  <2> QED BY <1>1, <2>1, QuantityExact
<1>2. CASE f = "line_size"
  <2>1. QuantityParses(node[f]) /\ Quantity(node[f]) \in 1..MaxInt
    BY <1>2, LineSizeFits
  <2>2. Parsed(f, node[f]) = Quantity(node[f])
    BY <1>2, <2>1, LineSizeFits
  <2> QED BY <1>2, <2>1, <2>2
<1>3. CASE f = "private_to"
  <2>1. node[f] # Malformed /\ Parsed(f, node[f]) = node[f]
    BY <1>3 DEF ParsesAs, Parsed
  <2>2. node.private_to \in Int \cup {Malformed}
    BY <1>3, DocumentsAssumption DEF Entries
  <2> QED BY <1>3, <2>1, <2>2
<1>4. CASE f = "associativity"
  <2>1. node[f] # Malformed /\ Parsed(f, node[f]) = node[f]
    BY <1>4 DEF ParsesAs, Parsed
  <2>2. node.associativity \in (Nat \ {0}) \cup {Malformed}
    BY <1>4, DocumentsAssumption DEF Entries
  <2> QED BY <1>4, <2>1, <2>2
<1> QED BY <1>1, <1>2, <1>3, <1>4

\* The base that is found is an entry of that name.
LEMMA FoundIsEntry ==
  ASSUME document \in Documents, NEW i \in DOMAIN Entries, BaseIndex(i) # {}
  PROVE  Max(BaseIndex(i)) \in BaseIndex(i) /\ Found(i) \in Range(Entries)
<1> DEFINE S == BaseIndex(i)
<1>1. Entries \in Seq(Range(Entries))
  BY DocumentsAssumption DEF Entries
<1>2. DOMAIN Entries = 1..Len(Entries) /\ Len(Entries) \in Nat
  BY <1>1
<1>3. S \subseteq 1..Len(Entries)
  BY <1>2 DEF BaseIndex
<1>6. Max(S) \in S
  BY <1>2, <1>3, MaxOfPlaces
<1>7. Max(S) \in DOMAIN Entries
  BY <1>2, <1>3, <1>6
<1> QED BY <1>6, <1>7 DEF Found, Range

\* An entry that is accepted makes a cache.
LEMMA CacheTypes ==
  ASSUME document \in Documents, NEW i \in DOMAIN Entries, Accepted(i)
  PROVE  IsCache(CacheOf(i))
<1>1. \A node \in {Entries[i], Found(i)} : (node = Entries[i] \/ IsLike(i)) => node \in Range(Entries)
  BY FoundIsEntry DEF Accepted, Range
<1>2. ASSUME NEW f \in Fields
      PROVE  \/ CacheOf(i)[f] = Defaults[f] /\ f # "size_bytes"
             \/ \E node \in Range(Entries) :
                  f \in DOMAIN node /\ ParsesAs(f, node[f]) /\ CacheOf(i)[f] = Parsed(f, node[f])
  BY <1>1, FieldComesFrom
<1>3. DOMAIN CacheOf(i) = Fields
  BY FieldComesFrom, DefaultFields
<1>4. CacheOf(i).size_bytes \in 1..MaxUint64
  BY <1>2, ParsedTypes, DefaultFields
<1>5. CacheOf(i).line_size \in 1..MaxInt
  BY <1>2, ParsedTypes, DefaultFields, LimitsAssumption
<1>6. CacheOf(i).private_to \in Int
  BY <1>2, ParsedTypes, DefaultFields
<1>7. CacheOf(i).associativity \in Nat \ {0}
  BY <1>2, ParsedTypes, DefaultFields
<1> QED BY <1>3, <1>4, <1>5, <1>6, <1>7 DEF IsCache


-----------------------------------------------------------------------------
(* What a document means. *)

\* With unique names the base that is found is the one that is meant.
LEMMA BaseIsFound ==
  ASSUME document \in Documents, NamesAreUnique, NEW i \in DOMAIN Entries, BaseIndex(i) # {}
  PROVE  HasBase(i) /\ Base(i) \in DOMAIN Entries /\ Found(i) = Entries[Base(i)]
<1>1. PICK k \in BaseIndex(i) : TRUE
  OBVIOUS
<1>2. k \in DOMAIN Entries /\ "name" \in DOMAIN Entries[k] /\ Entries[k].name = Entries[i].like
  BY <1>1 DEF BaseIndex
<1>3. /\ Base(i) \in DOMAIN Entries /\ "name" \in DOMAIN Entries[Base(i)]
      /\ Entries[Base(i)].name = Entries[i].like
  BY <1>2 DEF Base
<1>4. Max(BaseIndex(i)) \in BaseIndex(i)
  BY FoundIsEntry
<1>5. /\ Max(BaseIndex(i)) \in DOMAIN Entries /\ "name" \in DOMAIN Entries[Max(BaseIndex(i))]
      /\ Entries[Max(BaseIndex(i))].name = Entries[i].like
  BY <1>4 DEF BaseIndex
<1>6. Max(BaseIndex(i)) = Base(i)
  BY <1>3, <1>5 DEF NamesAreUnique
<1> QED BY <1>2, <1>3, <1>6 DEF HasBase, Found

\* An accepted entry has the settings its text means.
LEMMA CacheAsMeant ==
  ASSUME document \in Documents, NamesAreUnique, NEW i \in DOMAIN Entries, Accepted(i)
  PROVE  CacheOf(i) = Settings(i)
<1>1. CASE ~IsLike(i)
  BY <1>1 DEF CacheOf, Settings, Text, parse_entry
<1>2. CASE IsLike(i)
  <2> DEFINE node == Entries[i]
             base == Entries[Base(i)]
             text == Over(node, base)
  <2>1. BaseIndex(i) # {} /\ EntryParses(Found(i)) /\ CacheOf(i) = apply_like(Found(i), node)
    BY <1>2 DEF Accepted, CacheOf
  <2>2. HasBase(i) /\ Found(i) = base
    BY <2>1, BaseIsFound
  <2>3. Text(i) = text
    BY <1>2, <2>2 DEF Text
  <2>4. "size_bytes" \in DOMAIN base
    BY <2>1, <2>2 DEF EntryParses
  <2>5. /\ DOMAIN text = DOMAIN node \cup DOMAIN base
        /\ \A f \in DOMAIN text : text[f] = IF f \in DOMAIN node THEN node[f] ELSE base[f]
    BY DEF Over
  <2> HIDE DEF text, node, base
  <2>6. Settings(i) = parse_entry(text)
    BY <2>3 DEF Settings, parse_entry
  <2>7. parse_entry(text) = [f \in Fields |-> Spoken(text, f)]
    BY <2>4, <2>5, ParsedEntry
  <2>8. CacheOf(i) = [f \in Fields |-> SpokenOver(base, node, f)]
    BY <2>1, <2>2, <2>4, AppliedLike
  <2>9. ASSUME NEW f \in Fields
        PROVE  Spoken(text, f) = SpokenOver(base, node, f)
    BY <2>5 DEF Spoken, SpokenOver
  <2> QED BY <2>6, <2>7, <2>8, <2>9
<1> QED BY <1>1, <1>2

\* The parser and the document agree on what is wrong.
LEMMA AcceptedIsSound ==
  ASSUME document \in Documents, NamesAreUnique, NEW i \in DOMAIN Entries, Accepted(i)
  PROVE  Sound(i)
<1>1. CASE ~IsLike(i)
  BY <1>1 DEF Accepted, EntryParses, Sound, Text
<1>2. CASE IsLike(i)
  <2>1. BaseIndex(i) # {} /\ EntryParses(Found(i)) /\ FieldsParse(Entries[i])
    BY <1>2 DEF Accepted
  <2>2. HasBase(i) /\ Found(i) = Entries[Base(i)]
    BY <2>1, BaseIsFound
  <2>3. "size_bytes" \in DOMAIN Over(Entries[i], Entries[Base(i)])
    BY <2>1, <2>2 DEF Over, EntryParses
  <2>4. Text(i) = Over(Entries[i], Entries[Base(i)])
    BY <1>2, <2>2 DEF Text
  <2> QED BY <2>1, <2>2, <2>3, <2>4 DEF Sound
<1> QED BY <1>1, <1>2

\* Where no base inherits, an entry is rejected only if some entry is unsound.
LEMMA RejectedIsUnsound ==
  ASSUME document \in Documents, NamesAreUnique, NoChains, NEW i \in DOMAIN Entries, ~Accepted(i)
  PROVE  \E k \in DOMAIN Entries : ~Sound(k)
<1> SUFFICES ASSUME \A k \in DOMAIN Entries : Sound(k)
             PROVE  FALSE
  OBVIOUS
<1>1. CASE ~IsLike(i)
  BY <1>1 DEF Accepted, EntryParses, Sound, Text
<1>2. CASE IsLike(i)
  <2>1. HasBase(i) /\ FieldsParse(Entries[i])
    BY <1>2 DEF Sound
  <2>2. BaseIndex(i) # {}
    BY <2>1 DEF HasBase, BaseIndex
  <2>3. Base(i) \in DOMAIN Entries /\ Found(i) = Entries[Base(i)]
    BY <2>2, BaseIsFound
  <2>4. ~IsLike(Base(i))
    BY <1>2, <2>1 DEF NoChains
  <2>5. EntryParses(Found(i))
    BY <2>3, <2>4 DEF Sound, EntryParses, Text
  <2> QED BY <1>2, <2>1, <2>2, <2>5 DEF Accepted
<1> QED BY <1>1, <1>2

-----------------------------------------------------------------------------
(* The inductive invariant. *)

\* The caches of all the entries that are accepted.
AcceptedCaches == {CacheOf(i) : i \in {k \in DOMAIN Entries : Accepted(k)}}

\* What was parsed is what the entries make; a document is done when all of them
\* are, and fails for one of them or for its memory.
ParseInv ==
  /\ document \in Documents
  /\ caches \in Seq(AcceptedCaches) /\ Len(caches) <= Len(Entries)
  /\ \A i \in DOMAIN caches : Accepted(i) /\ caches[i] = CacheOf(i)
  /\ status \in {"parsing", "done", "failed"}
  /\ status = "done" => Len(caches) = Len(Entries) /\ MemoryIsSound
  /\ status = "failed" => (\E i \in DOMAIN Entries : ~Accepted(i)) \/ ~MemoryIsSound

\* An L1 that was built is there for its core, unless another one of that core is.
BuildInv ==
  /\ setup \in {"building", "built", "failed"}
  /\ built \in 0 .. Len(caches)
  /\ setup = "built" => status = "done" /\ built = Len(caches)
  /\ DOMAIN l1s \subseteq Nat
  /\ \A core \in DOMAIN l1s : DOMAIN l1s[core] = DOMAIN EmptyEntry
  /\ \A i \in 1 .. built : caches[i].role = "L1" =>
       /\ caches[i].private_to \in DOMAIN l1s
       /\ \E k \in 1 .. built : /\ IsL1Of(caches[k], caches[i].private_to)
                                /\ l1s[caches[i].private_to] = LevelEntry(caches[k])

\* The inductive invariant.
SetupInv == ParseInv /\ BuildInv

\* It holds before anything is parsed.
LEMMA SetupInitInv == SetupInit => SetupInv
<1> SUFFICES ASSUME SetupInit PROVE SetupInv
  OBVIOUS
<1>1. document \in Documents /\ caches = << >> /\ status = "parsing"
      /\ l1s = << >> /\ built = 0 /\ setup = "building"
  BY DEF SetupInit, YamlInit
<1>2. Len(caches) = 0 /\ DOMAIN caches = {} /\ DOMAIN l1s = {}
  BY <1>1
<1>3. Len(Entries) \in Nat
  BY <1>1, DocumentsAssumption DEF Entries
<1>4. ParseInv
  <2>1. caches \in Seq(AcceptedCaches)
    BY <1>1
  <2> QED BY <1>1, <1>2, <1>3, <2>1 DEF ParseInv
<1>5. BuildInv
  BY <1>1, <1>2 DEF BuildInv
<1> QED BY <1>4, <1>5 DEF SetupInv


\* The parser adds the cache of the next entry.
LEMMA NextCache ==
  ASSUME ParseInv, status = "parsing", Len(caches) + 1 \in DOMAIN Entries,
         Accepted(Len(caches) + 1), caches' = Append(caches, CacheOf(Len(caches) + 1)),
         UNCHANGED <<document, memory, status>>
  PROVE  /\ ParseInv' /\ Len(caches) \in Nat /\ Len(caches') = Len(caches) + 1
         /\ \A i \in 1 .. Len(caches) : caches'[i] = caches[i]
<1> DEFINE n == Len(caches)
           C == AcceptedCaches
<1>1. /\ document' = document /\ status' = status /\ Entries' = Entries /\ C' = C
      /\ \A i : CacheOf(i)' = CacheOf(i) /\ (Accepted(i)' <=> Accepted(i))
  BY DEF Entries, CacheOf, Accepted, AcceptedCaches, Found, IsLike, BaseIndex
<1>2. caches \in Seq(C) /\ n \in Nat /\ CacheOf(n + 1) \in C
  BY DEF ParseInv, AcceptedCaches
<1>3. DOMAIN Entries = 1 .. Len(Entries) /\ Len(Entries) \in Nat
  <2>1. Entries \in Seq(Range(Entries))
    BY DocumentsAssumption DEF Entries, ParseInv
  <2> QED BY <2>1
<1>4. caches' \in Seq(C) /\ Len(caches') = n + 1 /\ DOMAIN caches' = 1 .. (n + 1)
      /\ \A i \in 1 .. n : caches'[i] = caches[i]
      /\ caches'[n + 1] = CacheOf(n + 1)
  <2> HIDE DEF C
  <2> QED BY <1>2, AppendProperties
<1>5. n + 1 <= Len(Entries) /\ DOMAIN caches = 1 .. n
  BY <1>2, <1>3
<1>6. ASSUME NEW i \in DOMAIN caches'
      PROVE  Accepted(i)' /\ caches'[i] = CacheOf(i)'
  <2>1. i \in 1 .. n \/ i = n + 1
    BY <1>2, <1>4
  <2>2. \A k \in 1 .. n : Accepted(k) /\ caches[k] = CacheOf(k)
    BY <1>5 DEF ParseInv
  <2> QED BY <1>1, <1>4, <2>1, <2>2
<1>7. ParseInv'
  BY <1>1, <1>4, <1>5, <1>6 DEF ParseInv
<1> QED BY <1>2, <1>4, <1>7

\* A step of the parser keeps the invariant, and the caches that are there.
LEMMA ParseKeeps ==
  ASSUME SetupInv, Parse
  PROVE  SetupInv'
<1> DEFINE n == Len(caches)
<1>0. /\ ParseInv /\ BuildInv /\ UNCHANGED <<l1s, l2, built, setup>> /\ status = "parsing"
      /\ document' = document
      /\ Entries' = Entries /\ \A i : CacheOf(i)' = CacheOf(i) /\ (Accepted(i)' <=> Accepted(i))
      /\ AcceptedCaches' = AcceptedCaches /\ (MemoryIsSound' <=> MemoryIsSound)
  BY DEF SetupInv, Parse, YamlNext, ParseEntry, ParseLike, ParseMemory, Throw, Entries, CacheOf,
         Accepted, AcceptedCaches, Found, IsLike, BaseIndex, MemoryIsSound
<1>1. DOMAIN Entries = 1 .. Len(Entries) /\ Len(Entries) \in Nat /\ n \in Nat /\ n <= Len(Entries)
  <2>1. Entries \in Seq(Range(Entries))
    BY <1>0, DocumentsAssumption DEF Entries, ParseInv
  <2> QED BY <1>0, <2>1 DEF ParseInv
<1>2. ASSUME caches' = caches, status' = "failed",
             (\E i \in DOMAIN Entries : ~Accepted(i)) \/ ~MemoryIsSound
      PROVE  ParseInv'
  BY <1>0, <1>2 DEF ParseInv
<1>3. /\ ParseInv' /\ Len(caches') \in Nat /\ n <= Len(caches')
      /\ \A i \in 1 .. n : caches'[i] = caches[i]
  <2>1. CASE ParseEntry \/ ParseLike
    <3>1. n + 1 \in DOMAIN Entries
      BY <2>1 DEF ParseEntry, ParseLike, current
    <3>2. \/ /\ Accepted(n + 1) /\ caches' = Append(caches, CacheOf(n + 1))
             /\ UNCHANGED <<document, memory, status>>
          \/ ~Accepted(n + 1) /\ Throw
      <4>1. CASE ParseEntry
        BY <4>1 DEF ParseEntry, current, IsLike, Accepted, CacheOf
      <4>2. CASE ParseLike
        BY <4>2 DEF ParseLike, current, IsLike, Accepted, CacheOf, Found
      <4> QED BY <2>1, <4>1, <4>2
    <3>3. CASE Accepted(n + 1) /\ caches' = Append(caches, CacheOf(n + 1))
               /\ UNCHANGED <<document, memory, status>>
      <4>1. /\ ParseInv' /\ Len(caches') = n + 1
            /\ \A i \in 1 .. n : caches'[i] = caches[i]
        BY <1>0, <3>1, <3>3, NextCache
      <4> QED BY <1>1, <4>1
    <3>4. CASE ~Accepted(n + 1) /\ Throw
      <4>1. caches' = caches /\ status' = "failed"
        BY <3>4 DEF Throw
      <4> QED BY <1>1, <1>2, <3>1, <3>4, <4>1
    <3> QED BY <3>2, <3>3, <3>4
  <2>2. CASE ParseMemory
    <3>1. n = Len(Entries) /\ caches' = caches
      BY <1>1, <2>2 DEF ParseMemory, current, Throw
    <3>2. CASE status' = "done"
      <4>1. MemoryIsSound
        BY <2>2, <3>2 DEF ParseMemory, Throw, MemoryIsSound
      <4> QED BY <1>0, <3>1, <3>2, <4>1 DEF ParseInv
    <3>3. CASE status' # "done"
      <4>1. status' = "failed" /\ ~MemoryIsSound
        BY <2>2, <3>3 DEF ParseMemory, Throw, MemoryIsSound
      <4> QED BY <1>2, <3>1, <4>1
    <3>4. ParseInv'
      BY <3>2, <3>3
    <3> QED BY <1>1, <3>1, <3>4
  <2> QED BY <2>1, <2>2 DEF Parse, YamlNext
<1>4. BuildInv'
  <2>1. setup # "built" /\ built \in 0 .. n
    BY <1>0 DEF BuildInv
  <2>2. \A i \in 1 .. built : i \in 1 .. n /\ caches'[i] = caches[i]
    BY <1>1, <1>3, <2>1
  <2>3. built' \in 0 .. Len(caches') /\ setup' \in {"building", "built", "failed"} /\ setup' # "built"
    BY <1>0, <1>1, <1>3, <2>1 DEF BuildInv
  <2>4. \A i \in 1 .. built' : caches'[i].role = "L1" =>
          /\ caches'[i].private_to \in DOMAIN l1s'
          /\ \E k \in 1 .. built' : /\ IsL1Of(caches'[k], caches'[i].private_to)
                                    /\ l1s'[caches'[i].private_to] = LevelEntry(caches'[k])
    BY <1>0, <2>2 DEF BuildInv
  <2> QED BY <1>0, <2>3, <2>4 DEF BuildInv
<1> QED BY <1>3, <1>4 DEF SetupInv


\* The parser's variables are as they were.
LEMMA ParsedStays ==
  ASSUME ParseInv, UNCHANGED yamlVars
  PROVE  ParseInv' /\ caches' = caches /\ status' = status
<1>1. /\ document' = document /\ caches' = caches /\ status' = status /\ Entries' = Entries
  BY DEF yamlVars, Entries
<1>2. /\ \A i : CacheOf(i)' = CacheOf(i) /\ (Accepted(i)' <=> Accepted(i))
      /\ AcceptedCaches' = AcceptedCaches /\ (MemoryIsSound' <=> MemoryIsSound)
  BY <1>1 DEF Entries, CacheOf, Accepted, AcceptedCaches, Found, IsLike, BaseIndex, MemoryIsSound
<1> QED BY <1>1, <1>2 DEF ParseInv

\* An L1 that is built is there for its core, whichever was there before.
LEMMA BuildL1Keeps ==
  ASSUME SetupInv, BuildL1
  PROVE  SetupInv'
<1> DEFINE n == built + 1
           core == cache.private_to
<1>1. /\ ParseInv /\ BuildInv /\ UNCHANGED yamlVars /\ setup' = setup /\ built' = n
      /\ status = "done" /\ setup = "building" /\ built < Len(caches) /\ core >= 0
      /\ cache.role = "L1" /\ l1s' = WithL1(l1s, core, LevelEntry(cache))
  BY DEF SetupInv, BuildL1, Building
<1>2. ParseInv' /\ caches' = caches /\ status' = status
  BY <1>1, ParsedStays
<1>3. built \in Nat /\ Len(caches) \in Nat /\ n \in DOMAIN caches /\ DOMAIN caches = 1 .. Len(caches)
      /\ n \in 1 .. n /\ \A i \in 1 .. n : i \in 1 .. built \/ i = n
  BY <1>1 DEF BuildInv, ParseInv
<1>4. core \in Nat
  <2>1. n \in DOMAIN Entries
    <3>1. Entries \in Seq(Range(Entries)) /\ Len(caches) <= Len(Entries)
      BY <1>1, DocumentsAssumption DEF Entries, ParseInv
    <3> QED BY <1>3, <3>1
  <2>2. IsCache(cache)
    BY <1>1, <1>3, <2>1, CacheTypes DEF ParseInv, cache
  <2> QED BY <1>1, <2>2 DEF IsCache
<1>5. /\ DOMAIN l1s' = DOMAIN l1s \cup 0 .. core
      /\ l1s'[core] = LevelEntry(cache) /\ core \in DOMAIN l1s'
      /\ \A k \in DOMAIN l1s' : l1s'[k] = IF k = core THEN LevelEntry(cache)
                                          ELSE IF k \in DOMAIN l1s THEN l1s[k] ELSE EmptyEntry
  BY <1>1, <1>4 DEF WithL1
<1>6. DOMAIN LevelEntry(cache) = DOMAIN EmptyEntry
  BY DEF LevelEntry, EmptyEntry
<1>7. DOMAIN l1s' \subseteq Nat /\ \A k \in DOMAIN l1s' : DOMAIN l1s'[k] = DOMAIN EmptyEntry
  BY <1>1, <1>4, <1>5, <1>6 DEF BuildInv
<1>8. ASSUME NEW i \in 1 .. n, caches[i].role = "L1"
      PROVE  /\ caches[i].private_to \in DOMAIN l1s'
             /\ \E k \in 1 .. n : /\ IsL1Of(caches[k], caches[i].private_to)
                                  /\ l1s'[caches[i].private_to] = LevelEntry(caches[k])
  <2>1. CASE caches[i].private_to = core
    <3>1. IsL1Of(caches[n], core) /\ l1s'[core] = LevelEntry(caches[n])
      BY <1>1, <1>5 DEF IsL1Of, cache
    <3> QED BY <1>3, <1>5, <2>1, <3>1
  <2>2. CASE caches[i].private_to # core
    <3>1. i \in 1 .. built
      BY <1>3, <2>2 DEF cache
    <3>2. PICK k \in 1 .. built : /\ IsL1Of(caches[k], caches[i].private_to)
                                  /\ l1s[caches[i].private_to] = LevelEntry(caches[k])
      BY <1>1, <1>8, <3>1 DEF BuildInv
    <3>3. caches[i].private_to \in DOMAIN l1s
      BY <1>1, <1>8, <3>1 DEF BuildInv
    <3>4. k \in 1 .. n
      BY <1>3
    <3> QED BY <1>5, <2>2, <3>2, <3>3, <3>4
  <2> QED BY <2>1, <2>2
<1>9. BuildInv'
  <2>1. n \in 0 .. Len(caches)
    BY <1>3
  <2> QED BY <1>1, <1>2, <1>7, <1>8, <2>1 DEF BuildInv
<1> QED BY <1>2, <1>9 DEF SetupInv

\* The L2 is no core's.
LEMMA BuildL2Keeps ==
  ASSUME SetupInv, BuildL2
  PROVE  SetupInv'
<1> DEFINE n == built + 1
<1>1. /\ ParseInv /\ BuildInv /\ UNCHANGED yamlVars /\ setup' = setup /\ built' = n
      /\ setup = "building" /\ built < Len(caches) /\ cache.role # "L1" /\ l1s' = l1s
  BY DEF SetupInv, BuildL2, Building
<1>2. ParseInv' /\ caches' = caches /\ status' = status
  BY <1>1, ParsedStays
<1>3. built \in Nat /\ Len(caches) \in Nat /\ \A i \in 1 .. n : i \in 1 .. built \/ i = n
  BY <1>1 DEF BuildInv, ParseInv
<1>4. ASSUME NEW i \in 1 .. n, caches[i].role = "L1"
      PROVE  /\ caches[i].private_to \in DOMAIN l1s
             /\ \E k \in 1 .. n : /\ IsL1Of(caches[k], caches[i].private_to)
                                  /\ l1s[caches[i].private_to] = LevelEntry(caches[k])
  <2>1. i \in 1 .. built
    BY <1>1, <1>3, <1>4 DEF cache
  <2>2. PICK k \in 1 .. built : /\ IsL1Of(caches[k], caches[i].private_to)
                                /\ l1s[caches[i].private_to] = LevelEntry(caches[k])
    BY <1>1, <1>4, <2>1 DEF BuildInv
  <2>3. k \in 1 .. n
    BY <1>3
  <2> QED BY <1>1, <1>4, <2>1, <2>2, <2>3 DEF BuildInv
<1>5. BuildInv'
  <2>1. n \in 0 .. Len(caches)
    BY <1>1, <1>3
  <2> QED BY <1>1, <1>2, <1>4, <2>1 DEF BuildInv
<1> QED BY <1>2, <1>5 DEF SetupInv

\* The parser's and the constructor's steps keep the invariant.
THEOREM SetupInvHolds == SetupSpec => []SetupInv
<1>1. SetupInit => SetupInv
  BY SetupInitInv
<1>2. SetupInv /\ [SetupNext]_setupVars => SetupInv'
  <2> SUFFICES ASSUME SetupInv, [SetupNext]_setupVars
               PROVE  SetupInv'
    OBVIOUS
  <2>1. CASE Parse
    BY <2>1, ParseKeeps
  <2>2. CASE BuildL1
    BY <2>2, BuildL1Keeps
  <2>3. CASE BuildL2
    BY <2>3, BuildL2Keeps
  <2>4. CASE RejectCache
    <3>1. ParseInv' /\ caches' = caches /\ status' = status
      BY <2>4, ParsedStays DEF SetupInv, RejectCache
    <3>2. BuildInv'
      BY <2>4, <3>1 DEF SetupInv, RejectCache, BuildInv
    <3> QED BY <3>1, <3>2 DEF SetupInv
  <2>5. CASE FinishSetup
    <3>1. ParseInv' /\ caches' = caches /\ status' = status
      BY <2>5, ParsedStays DEF SetupInv, FinishSetup
    <3>2. BuildInv'
      BY <2>5, <3>1 DEF SetupInv, FinishSetup, BuildInv
    <3> QED BY <3>1, <3>2 DEF SetupInv
  <2>6. CASE UNCHANGED setupVars
    <3>1. ParseInv' /\ caches' = caches /\ status' = status
      BY <2>6, ParsedStays DEF SetupInv, setupVars
    <3>2. BuildInv'
      BY <2>6, <3>1 DEF SetupInv, setupVars, BuildInv
    <3> QED BY <3>1, <3>2 DEF SetupInv
  <2> QED BY <2>1, <2>2, <2>3, <2>4, <2>5, <2>6 DEF SetupNext
<1> QED BY <1>1, <1>2, PTL DEF SetupSpec


-----------------------------------------------------------------------------
(* What follows from it. *)

\* The entries, the caches and what each is made of.
LEMMA SetupFacts ==
  ASSUME SetupInv
  PROVE  /\ document \in Documents
         /\ DOMAIN Entries = 1 .. Len(Entries) /\ Len(Entries) \in Nat
         /\ DOMAIN caches = 1 .. Len(caches) /\ Len(caches) \in Nat /\ Len(caches) <= Len(Entries)
         /\ \A i \in DOMAIN caches : /\ i \in DOMAIN Entries /\ Accepted(i)
                                     /\ caches[i] = CacheOf(i) /\ IsCache(caches[i])
<1>1. Entries \in Seq(Range(Entries))
  BY DocumentsAssumption DEF Entries, SetupInv, ParseInv
<1>2. /\ DOMAIN Entries = 1 .. Len(Entries) /\ Len(Entries) \in Nat
      /\ DOMAIN caches = 1 .. Len(caches) /\ Len(caches) \in Nat /\ Len(caches) <= Len(Entries)
  BY <1>1 DEF SetupInv, ParseInv
<1>3. \A i \in DOMAIN caches : i \in DOMAIN Entries
  BY <1>2
<1>4. document \in Documents /\ \A i \in DOMAIN caches : Accepted(i) /\ caches[i] = CacheOf(i)
  BY DEF SetupInv, ParseInv
<1> QED BY <1>2, <1>3, <1>4, CacheTypes

\* Every cache of a document has a size and a line that fit their types, and every L1
\* is a core's.
THEOREM SetupTypeCorrect == SetupSpec => []SetupTypeOK
<1>1. ASSUME SetupInv
      PROVE  SetupTypeOK
  <2>1. \A c \in Range(caches) : IsCache(c)
    BY <1>1, SetupFacts DEF Range
  <2>2. \A c \in Range(caches) : DOMAIN c = Fields /\ c.size_bytes \in 1..MaxUint64
                                   /\ c.line_size \in 1..MaxInt
    BY <2>1 DEF IsCache
  <2> QED BY <1>1, <2>2, SetupFacts DEF SetupTypeOK, SetupInv, ParseInv, BuildInv
<1> QED BY <1>1, SetupInvHolds, PTL

\* An entry like a plain one has that one's settings but for its own, in documents of
\* any length and order (parse, apply_like).
THEOREM SettingsAreInherited == SetupSpec => []InheritsFromPlain
<1>1. ASSUME SetupInv
      PROVE  InheritsFromPlain
  BY <1>1, SetupFacts, CacheAsMeant DEF InheritsFromPlain
<1> QED BY <1>1, SetupInvHolds, PTL

\* Of documents with unique names none with an unsound entry or memory is taken over, and
\* where no base inherits none is rejected for anything else, at any length and in any
\* order (parse).
THEOREM OnlyTheUnsoundIsRejected == SetupSpec => []RejectsTheUnsoundOnly
<1>1. ASSUME SetupInv, NamesAreUnique, status = "done"
      PROVE  (\A i \in DOMAIN Entries : Sound(i)) /\ MemoryIsSound
  <2>1. DOMAIN caches = DOMAIN Entries /\ MemoryIsSound
    BY <1>1, SetupFacts DEF SetupInv, ParseInv
  <2>2. \A i \in DOMAIN Entries : Sound(i)
    BY <1>1, <2>1, SetupFacts, AcceptedIsSound
  <2> QED BY <2>1, <2>2
<1>2. ASSUME SetupInv, NamesAreUnique, NoChains, status = "failed"
      PROVE  (\E i \in DOMAIN Entries : ~Sound(i)) \/ ~MemoryIsSound
  <2>1. (\E i \in DOMAIN Entries : ~Accepted(i)) \/ ~MemoryIsSound
    BY <1>2 DEF SetupInv, ParseInv
  <2> QED BY <1>2, <2>1, SetupFacts, RejectedIsUnsound
<1>3. ASSUME SetupInv
      PROVE  RejectsTheUnsoundOnly
  BY <1>1, <1>2, <1>3 DEF RejectsTheUnsoundOnly
<1> QED BY <1>3, SetupInvHolds, PTL

\* What is converted as a number of bytes is the number its text denotes.
LEMMA BytesDenoted ==
  ASSUME NEW f \in {"size_bytes", "line_size"}, NEW text, ParsesAs(f, text)
  PROVE  Denotes(Parsed(f, text), text)
<1>1. QuantityParses(text) /\ Parsed(f, text) = Quantity(text)
  <2>1. CASE f = "size_bytes"
    BY <2>1 DEF ParsesAs, Parsed
  <2>2. CASE f = "line_size"
    BY <2>2, LineSizeFits
  <2> QED BY <2>1, <2>2
<1> QED BY <1>1, QuantityExact DEF Denotes

\* A field of an accepted entry that its text gives, on its own or through its base, is
\* that text converted.
LEMMA FieldIsText ==
  ASSUME document \in Documents, NEW i \in DOMAIN Entries, Accepted(i),
         NEW f \in Fields, f \in DOMAIN Text(i), f \in DOMAIN Entries[i] \/ NamesAreUnique
  PROVE  ParsesAs(f, Text(i)[f]) /\ CacheOf(i)[f] = Parsed(f, Text(i)[f])
<1>1. CASE ~IsLike(i)
  <2>1. EntryParses(Entries[i]) /\ CacheOf(i) = parse_entry(Entries[i]) /\ Text(i) = Entries[i]
    BY <1>1 DEF Accepted, CacheOf, Text
  <2>2. CacheOf(i) = [g \in Fields |-> Spoken(Entries[i], g)]
    BY <2>1, ParsedEntry DEF EntryParses
  <2> QED BY <2>1, <2>2 DEF EntryParses, FieldsParse, Given, Spoken
<1>2. CASE IsLike(i)
  <2> DEFINE node == Entries[i]
  <2>1. /\ BaseIndex(i) # {} /\ EntryParses(Found(i)) /\ FieldsParse(node)
        /\ CacheOf(i) = apply_like(Found(i), node)
    BY <1>2 DEF Accepted, CacheOf
  <2>2. CacheOf(i)[f] = SpokenOver(Found(i), node, f)
    <3>1. CacheOf(i) = [g \in Fields |-> SpokenOver(Found(i), node, g)]
      BY <2>1, AppliedLike DEF EntryParses
    <3> QED BY <3>1
  <2>3. CASE f \in DOMAIN node
    <3>1. Text(i)[f] = node[f]
      BY <2>3 DEF Text, Over
    <3>2. ParsesAs(f, node[f]) /\ CacheOf(i)[f] = Parsed(f, node[f])
      BY <2>1, <2>2, <2>3 DEF FieldsParse, Given, SpokenOver
    <3> QED BY <3>1, <3>2
  <2>4. CASE f \notin DOMAIN node
    <3>1. HasBase(i) /\ Found(i) = Entries[Base(i)]
      BY <2>1, <2>4, BaseIsFound
    <3>2. Text(i) = Over(node, Found(i))
      BY <1>2, <3>1 DEF Text
    <3>3. f \in DOMAIN Found(i) /\ Text(i)[f] = Found(i)[f]
      BY <2>4, <3>2 DEF Over
    <3>4. ParsesAs(f, Found(i)[f]) /\ CacheOf(i)[f] = Parsed(f, Found(i)[f])
      BY <2>1, <2>2, <2>4, <3>3 DEF EntryParses, FieldsParse, Given, SpokenOver, Spoken
    <3> QED BY <3>3, <3>4
  <2> QED BY <2>3, <2>4
<1> QED BY <1>1, <1>2

\* Every accepted size and line size is the number of bytes its text denotes, whether the
\* entry's or, where names are unique, the one of what it is like, for any widths
\* (parse_byte_quantity, parse_line_size, apply_like).
THEOREM SizesStayExact == SetupSpec => []SizesAreExact
<1>1. ASSUME SetupInv, NEW i \in DOMAIN caches,
             NEW f \in {"size_bytes", "line_size"} \cap DOMAIN Text(i),
             f \in DOMAIN Entries[i] \/ NamesAreUnique
      PROVE  Denotes(caches[i][f], Text(i)[f])
  <2>1. /\ document \in Documents /\ i \in DOMAIN Entries /\ Accepted(i) /\ caches[i] = CacheOf(i)
        /\ f \in Fields
    BY <1>1, SetupFacts, DefaultFields
  <2>2. ParsesAs(f, Text(i)[f]) /\ CacheOf(i)[f] = Parsed(f, Text(i)[f])
    BY <1>1, <2>1, FieldIsText
  <2> QED BY <2>1, <2>2, BytesDenoted
<1>2. ASSUME SetupInv
      PROVE  SizesAreExact
  BY <1>1, <1>2 DEF SizesAreExact
<1> QED BY <1>2, SetupInvHolds, PTL

\* A core's shadow has as many lines as the L1 that is built for it, but for a remainder
\* of less than a way in every set (the constructor of CacheHierarchy, classifier_for).
THEOREM ShadowFits == SetupSpec => []ShadowFitsItsL1
<1>1. ASSUME SetupInv, setup = "built", NEW core \in DOMAIN l1s,
             Cardinality({i \in DOMAIN caches : IsL1Of(caches[i], core)}) = 1,
             \A c \in Range(caches) : IsL1Of(c, core) => LinesFitInt(c)
      PROVE  ShadowLines(core) - l1s[core].num_sets * l1s[core].num_ways
               \in 0 .. (l1s[core].num_ways - 1)
  <2> DEFINE S == L1sOf(core)
  <2>1. Cardinality(S) = 1 /\ S \subseteq DOMAIN caches /\ DOMAIN caches = 1 .. Len(caches)
        /\ Len(caches) \in Nat
    BY <1>1, SetupFacts DEF L1sOf
  <2>2. IsFiniteSet(S)
    <3>1. IsFiniteSet(1 .. Len(caches))
      BY <2>1, FS_Interval
    <3>2. S \in SUBSET (1 .. Len(caches))
      BY <2>1
    <3> QED BY <3>1, <3>2, FS_Subset
  <2>3. PICK i : S = {i}
    BY <2>1, <2>2, FS_Singleton
  <2>4. i \in DOMAIN caches /\ IsL1Of(caches[i], core)
    BY <2>3 DEF L1sOf
  <2> DEFINE c == caches[i]
             s == c.size_bytes
             l == c.line_size
             a == c.associativity
  <2>5. s \in Nat /\ l \in Nat \ {0} /\ a \in Nat \ {0} /\ s \div l <= MaxInt
    <3>1. IsCache(c) /\ c \in Range(caches)
      BY <1>1, <2>4, SetupFacts DEF Range
    <3>2. s \div l <= MaxInt
      BY <1>1, <2>4, <3>1 DEF LinesFitInt
    <3> QED BY <3>1, <3>2, LimitsAssumption DEF IsCache
  <2>6. l1s[core] = LevelEntry(c)
    <3>1. i \in 1 .. built /\ built = Len(caches) /\ c.role = "L1" /\ c.private_to = core
      BY <1>1, <2>1, <2>4 DEF SetupInv, BuildInv, IsL1Of
    <3>2. PICK k \in 1 .. built : IsL1Of(caches[k], core) /\ l1s[core] = LevelEntry(caches[k])
      BY <1>1, <3>1 DEF SetupInv, BuildInv
    <3>3. k \in S
      BY <2>1, <3>1, <3>2 DEF L1sOf
    <3> QED BY <2>3, <3>2, <3>3
  <2>7. ShadowLines(core) = AsInt(s \div l)
    <3>1. Min(S) = i
      BY <2>1, <2>3, MinOfPlaces
    <3> QED BY <2>3, <3>1 DEF ShadowLines, LinesOfFirst
  <2>8. l1s[core].num_sets = AsInt(s \div (l * a)) /\ l1s[core].num_ways = a
    BY <2>6 DEF LevelEntry
  <2> HIDE DEF S, c, s, l, a
  <2>9. /\ s \div (l * a) \in Nat /\ s \div l \in Nat /\ s \div (l * a) <= s \div l
        /\ (s \div l) - (s \div (l * a)) * a \in 0 .. (a - 1)
    BY <2>5, WaysDivide
  <2>10. s \div l \in 0 .. MaxInt /\ s \div (l * a) \in 0 .. MaxInt
    <3>1. MaxInt \in Nat
      BY LimitsAssumption
    <3> QED BY <2>5, <2>9, <3>1
  <2>11. AsInt(s \div l) = s \div l /\ AsInt(s \div (l * a)) = s \div (l * a)
    BY <2>10, AsIntKeeps
  <2> QED BY <2>7, <2>8, <2>9, <2>11
<1>2. ASSUME SetupInv
      PROVE  ShadowFitsItsL1
  BY <1>1, <1>2 DEF ShadowFitsItsL1
<1> QED BY <1>2, SetupInvHolds, PTL
=============================================================================
