----------------------------- MODULE CacheLevel -----------------------------
(***************************************************************************)
(* A cache level (class CacheLevel): num_sets sets, a line living in the    *)
(* set of its remainder under the tag of its quotient.  The state of a     *)
(* level is the function from set indices to sets; its geometry is passed   *)
(* in as a record with the fields num_sets and num_ways.                   *)
(***************************************************************************)
EXTENDS CacheSet

SetIndexOf(cache_line, num_sets) == cache_line % num_sets

\* A variant of TagOf: lines are counted from one.
TagOfNext(cache_line, num_sets) == (cache_line - 1) \div num_sets

TagOf(cache_line, num_sets) == cache_line \div num_sets

\* A variant of LineOf: the set index is left out.
LineOfTag(tag, si, num_sets) == tag * num_sets

\* The line an entry of set si stands for, as access() rebuilds it from an
\* evicted tag.
LineOf(tag, si, num_sets) == tag * num_sets + si

SetIndices(geometry) == 0 .. (geometry.num_sets - 1)

\* The contents a level of this geometry may have.
Levels(geometry) == [SetIndices(geometry) -> Seq(Entries(Nat))]

\* The level the constructor builds.
EmptyLevel(geometry) == [si \in SetIndices(geometry) |-> << >>]

\* The level CacheLevel::access leaves behind.
LevelAfter(sets, geometry, cache_line, options) ==
  LET si == SetIndexOf(cache_line, geometry.num_sets)
  IN  [sets EXCEPT ![si] =
         SetAfter(@, TagOf(cache_line, geometry.num_sets), options, geometry.num_ways)]

\* The LevelAccessResult it returns.
LevelResult(sets, geometry, cache_line, options) ==
  LET si == SetIndexOf(cache_line, geometry.num_sets)
      r  == SetResult(sets[si], TagOf(cache_line, geometry.num_sets), options,
                      geometry.num_ways)
  IN  [hit                |-> r.hit,
       has_eviction       |-> r.has_eviction,
       evicted_dirty      |-> r.evicted_dirty,
       evicted_cache_line |-> IF r.has_eviction
                              THEN LineOf(r.evicted_tag, si, geometry.num_sets)
                              ELSE 0]

-----------------------------------------------------------------------------
(* What the properties ask of a level. *)

\* cache_line is in the level.
Holds(sets, geometry, cache_line) ==
  TagOf(cache_line, geometry.num_sets)
    \in TagsOf(sets[SetIndexOf(cache_line, geometry.num_sets)])

\* cache_line is in the level with its dirty bit set.
HoldsDirty(sets, geometry, cache_line) ==
  LET entries == sets[SetIndexOf(cache_line, geometry.num_sets)]
  IN  \E i \in DOMAIN entries :
        entries[i].tag = TagOf(cache_line, geometry.num_sets) /\ entries[i].dirty

\* A set keeps one entry for a tag and no more entries than ways.
WellFormedSet(entries, num_ways) ==
  /\ Len(entries) <= num_ways
  /\ \A i, j \in DOMAIN entries : entries[i].tag = entries[j].tag => i = j

WellFormedLevel(sets, geometry) ==
  \A si \in SetIndices(geometry) : WellFormedSet(sets[si], geometry.num_ways)
=============================================================================
