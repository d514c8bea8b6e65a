--------------------------- MODULE HierarchySetup ---------------------------
(***************************************************************************)
(* What becomes of a parsed configuration: the constructor of CacheHierarchy  *)
(* builds one L1 for a core and one L2, cache by cache, and Pipeline picks     *)
(* for each core the cache its miss classifier is to shadow.  Both look the     *)
(* L1 of a core up in the same list, each in its own way.                       *)
(***************************************************************************)
EXTENDS YamlConfig

VARIABLES l1s,    \* the L1s built, by core; a core below another's has an empty one
          l2,     \* the L2 built
          built,  \* how many caches the constructor has been through
          setup   \* "building", "built", or "failed" after an exception

setupVars == <<yamlVars, l1s, l2, built, setup>>

\* The state of a CacheLevel that was never constructed.
EmptyEntry == [num_sets |-> 0, num_ways |-> 0, delay_cycles |-> 0,
               write_policy |-> "write-back", write_allocate |-> TRUE]

LevelEntry(c) ==
  [num_sets       |-> AsInt(c.size_bytes \div (c.line_size * c.associativity)),
   num_ways       |-> c.associativity,
   delay_cycles   |-> c.delay_cycles,
   write_policy   |-> c.write_policy,
   write_allocate |-> c.write_allocate]

\* The vector of L1s grown to hold the core, and the core's entry in it.
WithL1(entries, core, entry) ==
  [k \in DOMAIN entries \cup 0..core |->
     IF k = core THEN entry ELSE IF k \in DOMAIN entries THEN entries[k] ELSE EmptyEntry]

SetupInit ==
  /\ YamlInit
  /\ l1s = << >> /\ l2 = EmptyEntry
  /\ built = 0
  /\ setup = "building"

Parse == YamlNext /\ UNCHANGED <<l1s, l2, built, setup>>

cache == caches[built + 1]

Building == status = "done" /\ setup = "building" /\ built < Len(caches)

\* A level of a negative number of sets cannot reserve them.
Constructible(c) == LevelEntry(c).num_sets >= 0

BuildL1 ==
  /\ Building /\ Constructible(cache)
  /\ cache.role = "L1" /\ cache.private_to >= 0
  /\ l1s' = WithL1(l1s, cache.private_to, LevelEntry(cache))
  /\ built' = built + 1
  /\ UNCHANGED <<yamlVars, l2, setup>>

\* Every other role is the L2's, and the last one wins.
BuildL2 ==
  /\ Building /\ Constructible(cache)
  /\ cache.role # "L1"
  /\ l2' = LevelEntry(cache)
  /\ built' = built + 1
  /\ UNCHANGED <<yamlVars, l1s, setup>>

\* The constructor throws on an L1 of no core and on a level it cannot build.
RejectCache ==
  /\ Building
  /\ ~Constructible(cache) \/ (cache.role = "L1" /\ cache.private_to < 0)
  /\ setup' = "failed"
  /\ UNCHANGED <<yamlVars, l1s, l2, built>>

FinishSetup ==
  /\ status = "done" /\ setup = "building" /\ built = Len(caches)
  /\ setup' = "built"
  /\ UNCHANGED <<yamlVars, l1s, l2, built>>

SetupNext == Parse \/ BuildL1 \/ BuildL2 \/ RejectCache \/ FinishSetup

SetupSpec == SetupInit /\ [][SetupNext]_setupVars

-----------------------------------------------------------------------------
IsL1Of(c, core) == c.role = "L1" /\ c.private_to = core

\* The caches of a list for a core; the first of them is the one that is taken.
L1sOf(core) == {i \in DOMAIN caches : IsL1Of(caches[i], core)}

LinesOfFirst(places) ==
  IF places = {} THEN 0
  ELSE LET c == caches[Min(places)] IN AsInt(c.size_bytes \div c.line_size)

\* A variant of ShadowLines: any L1 will do.
ShadowLinesOfAny(core) == LinesOfFirst({i \in DOMAIN caches : caches[i].role = "L1"})

\* The lines of the shadow classifier_for makes: those of the first L1 of the
\* core, and none without one.
ShadowLines(core) == LinesOfFirst(L1sOf(core))
=============================================================================
