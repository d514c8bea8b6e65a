----------------------------- MODULE Inheritance ----------------------------
(***************************************************************************)
(* What a configuration document means: the fields of an entry are its own,   *)
(* or else those of the entry it is like.  YamlConfig and HierarchySetup are   *)
(* held against it; LikeChains goes on for entries like others that are like   *)
(* others.                                                                 *)
(***************************************************************************)
EXTENDS HierarchySetup

\* Names are unique: every `like' means one entry at most.
NamesAreUnique ==
  \A i, k \in DOMAIN Entries :
    "name" \in DOMAIN Entries[i] \cap DOMAIN Entries[k] /\ Entries[i].name = Entries[k].name
      => i = k

Base(i) == CHOOSE k \in DOMAIN Entries :
             "name" \in DOMAIN Entries[k] /\ Entries[k].name = Entries[i].like

IsLike(i) == "like" \in DOMAIN Entries[i]

HasBase(i) == \E k \in DOMAIN Entries : "name" \in DOMAIN Entries[k] /\ Entries[k].name = Entries[i].like

\* No entry is like one that is like another.
NoChains == \A i \in DOMAIN Entries : IsLike(i) /\ HasBase(i) => ~IsLike(Base(i))

\* All that is said of an entry, itself first, where what it is like is plain.
Text(i) == IF IsLike(i) /\ HasBase(i) THEN Over(Entries[i], Entries[Base(i)]) ELSE Entries[i]

\* An entry is sound if all it says converts and somebody says its size.
Sound(i) ==
  /\ FieldsParse(Entries[i])
  /\ IsLike(i) => HasBase(i)
  /\ "size_bytes" \in DOMAIN Text(i)

Settings(i) == Over(ParsedFields(Text(i)), Defaults)

-----------------------------------------------------------------------------
SetupTypeOK ==
  /\ status \in {"parsing", "done", "failed"} /\ setup \in {"building", "built", "failed"}
  /\ built \in 0 .. Len(caches) /\ Len(caches) <= Len(Entries)
  /\ \A c \in Range(caches) : DOMAIN c = Fields /\ c.size_bytes \in 1..MaxUint64
                                 /\ c.line_size \in 1..MaxInt
  /\ \A core \in DOMAIN l1s : core \in Nat /\ DOMAIN l1s[core] = DOMAIN EmptyEntry

\* An entry like a plain one has that one's settings, whichever of the two comes
\* first, but for what it says itself; what neither says is the default, never
\* what another entry says (parse and apply_like).
InheritsFromPlain ==
  NamesAreUnique =>
    \A i \in DOMAIN caches : (IsLike(i) => ~IsLike(Base(i))) => caches[i] = Settings(i)

\* The memory's delay converts; nobody asks for it in a document without caches.
MemoryIsSound ==
  document.has_caches /\ "delay_cycles" \in DOMAIN document.memory =>
    document.memory.delay_cycles # Malformed

\* Of documents whose names are unique none is taken over with anything wrong in one of
\* its entries or in its memory, wherever in it that is.  None is rejected for anything
\* else, if no entry is like one that is itself like another: an entry may come before
\* the one it is like (the index of names is complete before the first entry).  With such
\* a chain the code asks for more: a size of the base itself, even where the entry
\* has one (apply_like).
RejectsTheUnsoundOnly ==
  NamesAreUnique =>
    /\ status = "done" => (\A i \in DOMAIN Entries : Sound(i)) /\ MemoryIsSound
    /\ status = "failed" /\ NoChains => (\E i \in DOMAIN Entries : ~Sound(i)) \/ ~MemoryIsSound

\* The number is that of the bytes the text denotes.
Denotes(bytes, text) ==
  bytes \div MultiplierOf(text) = text.count /\ bytes % MultiplierOf(text) = 0

\* A size and a line size that are accepted are the numbers of bytes their texts denote,
\* of which neither 64 bits nor an int dropped anything: the entry's own text, or,
\* where names are unique, that of the entry it is like, through both conversions
\* and the copy between them (parse_byte_quantity, parse_line_size, apply_like).
SizesAreExact ==
  \A i \in DOMAIN caches : \A f \in {"size_bytes", "line_size"} \cap DOMAIN Text(i) :
    f \in DOMAIN Entries[i] \/ NamesAreUnique => Denotes(caches[i][f], Text(i)[f])

LinesFitInt(c) == c.size_bytes \div c.line_size <= MaxInt

\* A core with one L1 has the cache of that entry simulated and shadowed: where
\* its size is a whole number of sets, the shadow has as many lines, and
\* otherwise fewer than num_ways more (the constructor of CacheHierarchy against
\* classifier_for, each with a division and a search of its own), as long as the
\* lines can be counted in an int.  It is what Simulation starts from.
ShadowFitsItsL1 ==
  setup = "built" =>
    \A core \in DOMAIN l1s :
      (/\ Cardinality({i \in DOMAIN caches : IsL1Of(caches[i], core)}) = 1
       /\ \A c \in Range(caches) : IsL1Of(c, core) => LinesFitInt(c)) =>
        LET kept == l1s[core].num_sets * l1s[core].num_ways
        IN  ShadowLines(core) - kept \in 0 .. (l1s[core].num_ways - 1)
=============================================================================
