----------------------------- MODULE YamlConfig -----------------------------
(***************************************************************************)
(* YamlConfigParser: the cache entries of a document are turned into cache    *)
(* configurations one by one, an entry with a `like' on top of another one.   *)
(* An entry is a record of the fields its text has, their order being of no    *)
(* consequence; the text of a byte quantity is a record of the count in front  *)
(* and the unit after it, and other texts are what they denote or Malformed.   *)
(***************************************************************************)
EXTENDS Integers, SequencesExt

CONSTANTS Documents,  \* the documents, [caches, memory]
          MaxUint64,  \* the largest uint64_t
          MaxInt,     \* the largest int
          Malformed   \* a text that does not convert

\* A text that converts has a value of its field's type.  The associativity and the
\* limits are what the code survives: nothing checks the ways of a cache, and an
\* int holds the default line size.
ASSUME LimitsAssumption == MaxUint64 \in Nat /\ MaxInt \in Nat /\ MaxInt >= 64

ASSUME DocumentsAssumption ==
  \A d \in Documents :
    /\ d.has_caches \in BOOLEAN
    /\ d.caches \in Seq(Range(d.caches))
    /\ \A e \in Range(d.caches) :
         /\ "private_to" \in DOMAIN e => e.private_to \in Int \cup {Malformed}
         /\ "associativity" \in DOMAIN e => e.associativity \in (Nat \ {0}) \cup {Malformed}

VARIABLES document,  \* the document, fixed
          caches,    \* HierarchyConfig::caches so far
          memory,    \* the memory's delay
          status     \* "parsing", "done", or "failed" after an exception

yamlVars == <<document, caches, memory, status>>

NoText == ""

\* What an entry has where its text says nothing.  Without a size it is no entry.
Defaults ==
  [name |-> NoText, role |-> NoText, private_to |-> -1, line_size |-> 64, associativity |-> 8,
   replacement |-> "LRU", write_policy |-> "write-back", write_allocate |-> TRUE,
   delay_cycles |-> 0, next |-> NoText]

Fields == DOMAIN Defaults \cup {"size_bytes"}

-----------------------------------------------------------------------------
Multiplier == [B |-> 1, KB |-> 1000, MB |-> 1000000, GB |-> 1000000000,
               KiB |-> 1024, MiB |-> 1048576, GiB |-> 1073741824]

MultiplierOf(text) == IF text.unit = NoText THEN 1 ELSE Multiplier[text.unit]

\* A variant of QuantityParses: nothing is a quantity, too.
QuantityParsesZero(text) ==
  /\ text # Malformed /\ text.count \in 0..MaxUint64
  /\ text.unit \in DOMAIN Multiplier \cup {NoText}
  /\ text.count <= MaxUint64 \div MultiplierOf(text)

\* parse_byte_quantity throws on no count, on 0, on an unknown unit, and when the
\* product does not fit.
QuantityParses(text) ==
  /\ text # Malformed /\ text.count \in 1..MaxUint64
  /\ text.unit \in DOMAIN Multiplier \cup {NoText}
  /\ text.count <= MaxUint64 \div MultiplierOf(text)

\* The product is computed in 64 bits.
Quantity(text) ==
  LET m == MultiplierOf(text)
  IN  (text.count * (m % (MaxUint64 + 1))) % (MaxUint64 + 1)

\* A conversion to int.
AsInt(n) == ((n + MaxInt + 1) % (2 * (MaxInt + 1))) - (MaxInt + 1)

ParsesAs(field, text) ==
  CASE field = "size_bytes"   -> QuantityParses(text)
    [] field = "line_size"    -> QuantityParses(text) /\ Quantity(text) <= MaxInt
    [] field = "replacement"  -> text = "LRU"
    [] field = "write_policy" -> text \in {"write-back", "write-through"}
    [] OTHER                  -> text # Malformed

Parsed(field, text) ==
  CASE field = "size_bytes" -> Quantity(text)
    [] field = "line_size"  -> AsInt(Quantity(text))
    [] OTHER                -> text

Given(node) == Fields \cap DOMAIN node

FieldsParse(node) == \A f \in Given(node) : ParsesAs(f, node[f])

ParsedFields(node) == [f \in Given(node) |-> Parsed(f, node[f])]

-----------------------------------------------------------------------------
\* Some fields, and others' where these say nothing.
Over(fields, others) ==
  [f \in DOMAIN fields \cup DOMAIN others |-> IF f \in DOMAIN fields THEN fields[f] ELSE others[f]]

EntryParses(node) == "size_bytes" \in DOMAIN node /\ FieldsParse(node)

parse_entry(node) == Over(ParsedFields(node), Defaults)

\* A variant of apply_like: what the base says nothing of is the default.
ApplyLikeForgetting(base, node) == Over(parse_entry(base), ParsedFields(node))

\* A variant of apply_like: the base's size is copied through an int.
ApplyLikeNarrowing(base, node) ==
  Over(ParsedFields(node), [parse_entry(base) EXCEPT !.size_bytes = @ % (MaxInt + 1)])

\* The fields the entry gives, over the base's.
apply_like(base, node) == Over(ParsedFields(node), parse_entry(base))

Entries == document.caches

\* A variant of BaseIndex: a base is found only before the entry.
BaseIndexBefore(i) ==
  {k \in 1 .. (i - 1) : "name" \in DOMAIN Entries[k] /\ Entries[k].name = Entries[i].like}

\* The entries of a name; index_map keeps the last of them.
BaseIndex(i) ==
  {k \in DOMAIN Entries : "name" \in DOMAIN Entries[k] /\ Entries[k].name = Entries[i].like}

YamlInit ==
  /\ document \in Documents
  /\ caches = << >> /\ memory = 120
  /\ status = "parsing"

current == Len(caches) + 1

Throw == status' = "failed" /\ UNCHANGED <<document, caches, memory>>

ParseEntry ==
  /\ status = "parsing" /\ current \in DOMAIN Entries
  /\ "like" \notin DOMAIN Entries[current]
  /\ IF EntryParses(Entries[current])
     THEN caches' = Append(caches, parse_entry(Entries[current]))
          /\ UNCHANGED <<document, memory, status>>
     ELSE Throw

ParseLike ==
  LET node == Entries[current]
      base == Entries[Max(BaseIndex(current))]
  IN  /\ status = "parsing" /\ current \in DOMAIN Entries
      /\ "like" \in DOMAIN node
      /\ IF BaseIndex(current) # {} /\ EntryParses(base) /\ FieldsParse(node)
         THEN caches' = Append(caches, apply_like(base, node))
              /\ UNCHANGED <<document, memory, status>>
         ELSE Throw

\* The memory's delay is read last.  Without any caches the document is not
\* looked at any further.
ParseMemory ==
  /\ status = "parsing" /\ current = Len(Entries) + 1
  /\ IF document.has_caches /\ "delay_cycles" \in DOMAIN document.memory
     THEN IF document.memory.delay_cycles = Malformed THEN Throw
          ELSE /\ memory' = document.memory.delay_cycles
               /\ status' = "done"
               /\ UNCHANGED <<document, caches>>
     ELSE status' = "done" /\ UNCHANGED <<document, caches, memory>>

YamlNext == ParseEntry \/ ParseLike \/ ParseMemory

YamlSpec == YamlInit /\ [][YamlNext]_yamlVars
=============================================================================
