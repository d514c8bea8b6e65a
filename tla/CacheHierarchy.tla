--------------------------- MODULE CacheHierarchy ---------------------------
(***************************************************************************)
(* Private L1 caches in front of one shared L2 in front of memory (class   *)
(* CacheHierarchy).  The program keeps no data, only tags and dirty bits,   *)
(* and never keeps the L1s coherent nor the L2 inclusive.  One call of      *)
(* CacheHierarchy::access is one step; its three outcomes (a hit the L1     *)
(* absorbs, a store hit it writes through, a miss) are the three actions.   *)
(***************************************************************************)
EXTENDS CacheLevel, FiniteSetsExt

CONSTANTS Cores,   \* the cores that own an L1
          Lines,   \* the cache lines the cores access
          Configs  \* the hierarchies the constructor may have built

WritePolicies == {"WriteBack", "WriteThrough"}

\* LevelEntry without its contents: geometry, delay and policies of a level.
LevelParams == [num_sets : Nat \ {0}, num_ways : Nat \ {0}, delay_cycles : Nat,
                write_policy : WritePolicies, write_allocate : BOOLEAN]

HierarchyParams == [l1 : [Cores -> LevelParams], l2 : LevelParams, mem_delay : Nat]

ASSUME ConfigsAssumption == Configs \subseteq HierarchyParams
ASSUME LinesAssumption   == Lines \subseteq Nat

VARIABLES config,   \* the levels' parameters, fixed by the constructor
          l1s,      \* contents of the L1 of every core
          l2,       \* contents of the L2
          request,  \* arguments of the last call of access()
          result    \* the HierarchyAccessResult it returned

vars == <<config, l1s, l2, request, result>>

Requests == [core : Cores, cache_line : Lines, is_store : BOOLEAN]
NoRequest == [is_store |-> FALSE]

Results == [delay_cycles : Nat, miss_level : 0..2, write_through_writes : 0..1,
            writebacks : Nat, dirty_evictions : Nat, writeback_cycles : Nat]
NoResult == [delay_cycles |-> 0, miss_level |-> 0, write_through_writes |-> 0,
             writebacks |-> 0, dirty_evictions |-> 0, writeback_cycles |-> 0]

-----------------------------------------------------------------------------
\* A variant of OptionsFor: every store marks its line dirty.
OptionsForMarking(is_store, params) ==
  [is_store |-> is_store, allocate_on_miss |-> ~is_store \/ params.write_allocate,
   mark_dirty_on_store |-> is_store]

\* A store fills on a miss only where the level allocates on writes, and marks
\* its line dirty only where the level writes back.
OptionsFor(is_store, params) ==
  [is_store            |-> is_store,
   allocate_on_miss    |-> ~is_store \/ params.write_allocate,
   mark_dirty_on_store |-> is_store /\ params.write_policy = "WriteBack"]

WritesThrough(params) == params.write_policy = "WriteThrough"

\* An eviction that has to be written to the level below.
DirtyEviction(r) == r.has_eviction /\ r.evicted_dirty

\* What an event costs or counts when it happens.
Times(happens, amount) == IF happens THEN amount ELSE 0

L1After(core, cache_line, is_store) ==
  LevelAfter(l1s[core], config.l1[core], cache_line, OptionsFor(is_store, config.l1[core]))
L1Result(core, cache_line, is_store) ==
  LevelResult(l1s[core], config.l1[core], cache_line, OptionsFor(is_store, config.l1[core]))

L2After(sets, cache_line, is_store) ==
  LevelAfter(sets, config.l2, cache_line, OptionsFor(is_store, config.l2))
L2Result(sets, cache_line, is_store) ==
  LevelResult(sets, config.l2, cache_line, OptionsFor(is_store, config.l2))

\* A variant of L2AfterVictim: a victim is a whole line, and taken in without a fetch.
L2AfterVictimTaken(r1) ==
  IF DirtyEviction(r1)
  THEN LevelAfter(l2, config.l2, r1.evicted_cache_line,
                  OptionsFor(TRUE, [config.l2 EXCEPT !.write_allocate = TRUE]))
  ELSE l2

\* The L2 once the L1's dirty victim, if there is one, was stored into it; a
\* miss sends the victim down before it asks for its own line.
L2AfterVictim(r1) ==
  IF DirtyEviction(r1) THEN L2After(l2, r1.evicted_cache_line, TRUE) ELSE l2

\* A variant of ForwardsStore: only an L1 that writes through passes stores on.
ForwardsStoreThrough(core, is_store) == is_store /\ WritesThrough(config.l1[core])

\* An L1 miss reaches the L2 as a store when the L1 keeps no copy to hold it.
ForwardsStore(core, is_store) ==
  is_store /\ (WritesThrough(config.l1[core]) \/ ~config.l1[core].write_allocate)

\* A variant of DemandCycles: a miss in the L2 does not pay the L2.
DemandCyclesOfAnswer(core, r2) ==
  config.l1[core].delay_cycles + IF r2.hit THEN config.l2.delay_cycles ELSE config.mem_delay

\* What asking the L2 costs: both levels, and the memory when the L2 misses.
DemandCycles(core, r2) ==
  config.l1[core].delay_cycles + config.l2.delay_cycles + Times(~r2.hit, config.mem_delay)

\* A dirty line the L2 gives up is one write to memory.
MemoryWriteCycles(r2) == Times(DirtyEviction(r2), config.mem_delay)

\* Storing the victim of r1 into the L2: the L2's delay, the memory's when the
\* L2 misses, and the write of whatever dirty line the L2 gives up for it.
VictimCycles(r1) ==
  LET rv == L2Result(l2, r1.evicted_cache_line, TRUE)
  IN  Times(DirtyEviction(r1),
            config.l2.delay_cycles + Times(~rv.hit, config.mem_delay)
              + MemoryWriteCycles(rv))

\* A variant of VictimEvictions: what the victim displaces in the L2 is not counted.
VictimEvictionsOfL1(r1) == Times(DirtyEviction(r1), 1)

\* The dirty evictions storing the victim of r1 accounts for: its own, and the
\* one it may cause in the L2.
VictimEvictions(r1) ==
  Times(DirtyEviction(r1),
        1 + Times(DirtyEviction(L2Result(l2, r1.evicted_cache_line, TRUE)), 1))

-----------------------------------------------------------------------------
Init ==
  /\ config \in Configs
  /\ l1s = [core \in Cores |-> EmptyLevel(config.l1[core])]
  /\ l2 = EmptyLevel(config.l2)
  /\ request = NoRequest
  /\ result = NoResult

\* Every access first touches the core's L1.
TouchL1(core, cache_line, is_store) ==
  /\ l1s' = [l1s EXCEPT ![core] = L1After(core, cache_line, is_store)]
  /\ request' = [core |-> core, cache_line |-> cache_line, is_store |-> is_store]
  /\ UNCHANGED config

\* A load, or a store the L1 keeps to itself, hits.
AbsorbedHit(core, cache_line, is_store) ==
  /\ L1Result(core, cache_line, is_store).hit
  /\ ~(is_store /\ WritesThrough(config.l1[core]))
  /\ TouchL1(core, cache_line, is_store)
  /\ result' = [NoResult EXCEPT !.delay_cycles = config.l1[core].delay_cycles]
  /\ UNCHANGED l2

\* A store hits an L1 that writes through: the L2 is stored to as well, and may
\* itself miss, fill and evict, although the access counts as an L1 hit.
WriteThroughHit(core, cache_line, is_store) ==
  LET r2 == L2Result(l2, cache_line, TRUE)
  IN  /\ L1Result(core, cache_line, is_store).hit
      /\ is_store /\ WritesThrough(config.l1[core])
      /\ TouchL1(core, cache_line, is_store)
      /\ l2' = L2After(l2, cache_line, TRUE)
      /\ result' =
           [delay_cycles         |-> DemandCycles(core, r2) + MemoryWriteCycles(r2),
            miss_level           |-> 0,
            write_through_writes |-> 1,
            writebacks           |-> Times(DirtyEviction(r2), 1),
            dirty_evictions      |-> Times(DirtyEviction(r2), 1),
            writeback_cycles     |-> MemoryWriteCycles(r2)]

\* An L1 miss: the dirty victim goes down first, then the L2 is accessed.
Miss(core, cache_line, is_store) ==
  LET r1 == L1Result(core, cache_line, is_store)
      l2v == L2AfterVictim(r1)
      l2_store == ForwardsStore(core, is_store)
      r2 == L2Result(l2v, cache_line, l2_store)
      evictions == VictimEvictions(r1) + Times(DirtyEviction(r2), 1)
      writeback_cycles == VictimCycles(r1) + MemoryWriteCycles(r2)
  IN  /\ ~r1.hit
      /\ TouchL1(core, cache_line, is_store)
      /\ l2' = L2After(l2v, cache_line, l2_store)
      /\ result' =
           [delay_cycles         |-> DemandCycles(core, r2) + writeback_cycles,
            miss_level           |-> IF r2.hit THEN 1 ELSE 2,
            write_through_writes |->
              Times(is_store /\ WritesThrough(config.l1[core]), 1),
            writebacks           |-> evictions,
            dirty_evictions      |-> evictions,
            writeback_cycles     |-> writeback_cycles]

Access(core, cache_line, is_store) ==
  \/ AbsorbedHit(core, cache_line, is_store)
  \/ WriteThroughHit(core, cache_line, is_store)
  \/ Miss(core, cache_line, is_store)

Next == \E core \in Cores, cache_line \in Lines, is_store \in BOOLEAN :
          Access(core, cache_line, is_store)

Spec == Init /\ [][Next]_vars

-----------------------------------------------------------------------------
\* The dirty lines of a level.
DirtyLines(sets, params) == {line \in Lines : HoldsDirty(sets, params, line)}
Residents(sets, params) == {line \in Lines : Holds(sets, params, line)}

\* Every variable has its type; in particular access() only asks for sets the
\* constructor made.
TypeOK ==
  /\ config \in Configs
  /\ DOMAIN l1s = Cores
  /\ \A core \in Cores : l1s[core] \in Levels(config.l1[core])
  /\ l2 \in Levels(config.l2)
  /\ request \in Requests \cup {NoRequest}
  /\ result \in Results

\* No line is ever in a set twice and no set outgrows its ways, although hits
\* splice, fills push and evictions pop the same list (CacheSet::access).
SetsWellFormed ==
  /\ \A core \in Cores : WellFormedLevel(l1s[core], config.l1[core])
  /\ WellFormedLevel(l2, config.l2)

\* A level that writes through never holds a dirty line, whatever the other
\* level's policies send to it (options_for, mark_dirty_on_store).
CleanLevel(sets, params) ==
  WritesThrough(params) =>
    \A si \in SetIndices(params) : \A i \in DOMAIN sets[si] : ~sets[si][i].dirty

WriteThroughStaysClean ==
  /\ \A core \in Cores : CleanLevel(l1s[core], config.l1[core])
  /\ CleanLevel(l2, config.l2)

\* The README's rule for write_allocate: false: a store that misses loads no line into
\* that level.  For an L1 it is the store of its core.  For the L2 it is every store
\* that reaches it: one forwarded by an L1 of either policy, on a hit or on a miss, and
\* the dirty victim of a load or of a store.  So all that such an L2 takes in is the line
\* asked for, and that only for the L1 to take it in, not to pass a store on
\* (options_for, writeback_l1_victim_to_l2, CacheHierarchy::access).
StoreMissNeverFills ==
  [][ LET core == request'.core
          into_l1 == Residents(l1s'[core], config.l1[core]) \ Residents(l1s[core], config.l1[core])
          into_l2 == Residents(l2', config.l2) \ Residents(l2, config.l2)
      IN  /\ request'.is_store /\ ~config.l1[core].write_allocate => into_l1 = {}
          /\ ~config.l2.write_allocate =>
               /\ into_l2 \subseteq into_l1 \cap {request'.cache_line}
               /\ request'.is_store /\ WritesThrough(config.l1[core]) => into_l2 = {} ]_vars

\* A dirty copy that leaves a cache during an access, in the L1 or in the L2, is
\* reported as a dirty eviction of that access: write traffic is never
\* undercounted (writeback_l1_victim_to_l2, record_dirty_l2_eviction).
DirtyLossReported ==
  [][ Cardinality(UNION {{core} \X (DirtyLines(l1s[core], config.l1[core])
                                       \ DirtyLines(l1s'[core], config.l1[core])) : core \in Cores})
        + Cardinality(DirtyLines(l2, config.l2) \ DirtyLines(l2', config.l2))
          <= result'.dirty_evictions ]_vars
=============================================================================
