------------------------------ MODULE LruLevel ------------------------------
(***************************************************************************)
(* One cache level under any sequence of accesses with any options, against  *)
(* what least-recently-used replacement promises.  The history variable      *)
(* newer orders the lines by their last use: <<a, b>> is in it when a was     *)
(* used, and b was not used since.  A store miss that does not allocate uses  *)
(* no line.                                                                *)
(***************************************************************************)
EXTENDS CacheLevel, FiniteSetsExt

CONSTANTS Lines,      \* the cache lines accessed
          Geometries  \* the geometries of the level

ASSUME LruLinesAssumption == Lines \subseteq Nat
ASSUME GeometriesAssumption ==
  Geometries \subseteq [num_sets : Nat \ {0}, num_ways : Nat \ {0}]

VARIABLES geometry,  \* of the level, fixed
          sets,      \* its contents
          used,      \* the lines ever used
          newer      \* which of two lines was used last

lruVars == <<geometry, sets, used, newer>>

Init ==
  /\ geometry \in Geometries
  /\ sets = EmptyLevel(geometry)
  /\ used = {}
  /\ newer = {}

\* The order of last uses once line is the last one used.
UseNow(line) ==
  {p \in newer : p[1] # line /\ p[2] # line} \cup ({line} \X (used \ {line}))

\* A hit or a fill.
Use(line, options) ==
  /\ Holds(sets, geometry, line) \/ options.allocate_on_miss
  /\ sets' = LevelAfter(sets, geometry, line, options)
  /\ used' = used \cup {line}
  /\ newer' = UseNow(line)
  /\ UNCHANGED geometry

\* A miss that does not allocate leaves the level as it was.
PassBy(line, options) ==
  /\ ~Holds(sets, geometry, line) /\ ~options.allocate_on_miss
  /\ sets' = LevelAfter(sets, geometry, line, options)
  /\ UNCHANGED <<geometry, used, newer>>

Next == \E line \in Lines, options \in CacheAccessOptions :
          Use(line, options) \/ PassBy(line, options)

Spec == Init /\ [][Next]_lruVars

-----------------------------------------------------------------------------
LineAt(si, i) == LineOf(sets[si][i].tag, si, geometry.num_sets)

SameSet(a, b) == SetIndexOf(a, geometry.num_sets) = SetIndexOf(b, geometry.num_sets)

\* The lines of a's set used since a was.
UsedSince(a) == {b \in used : SameSet(a, b) /\ <<b, a>> \in newer}

\* A level holds exactly, for each of its sets, the num_ways lines of that set
\* used most recently: a line is there if and only if fewer than num_ways other
\* lines of its set were used since (the promise of LRU that splice, pop_back and
\* push_front in CacheSet::access have to keep together).
HoldsMostRecent ==
  \A line \in Lines :
    Holds(sets, geometry, line)
      <=> line \in used /\ Cardinality(UsedSince(line)) < geometry.num_ways

\* Every set lists its lines from the last used to the first used, so that the
\* back of the list is the line to evict (CacheSet.hpp, front = MRU, back = LRU).
OrderedByUse ==
  \A si \in SetIndices(geometry) : \A i, j \in DOMAIN sets[si] :
    i < j => <<LineAt(si, i), LineAt(si, j)>> \in newer

\* A line leaves the level only while another line of its set is filled, and the
\* line reported as evicted is the one that left: rebuilding the line from its
\* tag and set loses nothing (CacheLevel::access, evicted_cache_line).
EvictedIsReported ==
  [][ \A line \in Lines, options \in CacheAccessOptions :
        Use(line, options) =>
          LET r == LevelResult(sets, geometry, line, options)
          IN  {a \in Lines : Holds(sets, geometry, a) /\ ~Holds(sets', geometry, a)}
                = IF r.has_eviction THEN {r.evicted_cache_line} ELSE {} ]_lruVars
=============================================================================
