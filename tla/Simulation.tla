----------------------------- MODULE Simulation -----------------------------
(***************************************************************************)
(* Pipeline::simulate: the loop that sends every access event through the    *)
(* cache hierarchy and through its core's miss classifier and counts what     *)
(* comes back in three places, the MissStats and the Attribution of the       *)
(* misses and the SimulationStats of all accesses.  One iteration is one      *)
(* step; the step takes whichever action of CacheHierarchy the access is.     *)
(***************************************************************************)
EXTENDS CacheHierarchy, FaShadow

CONSTANTS Events,    \* the access events a program may consist of
          MaxEvents  \* bound on the events of one simulation

Ops == {"load", "store"}

\* A region path is the sequence of its segments, a root and the callees under
\* it.  Calls are unrolled, so a function is never below itself.
ASSUME EventsAssumption ==
  \A e \in Events :
    /\ e.core_id \in Cores /\ e.cache_line \in Lines /\ e.op \in Ops
    /\ e.region_path \in Seq(ToSet(e.region_path)) /\ e.region_path # << >>
    /\ IsInjective(e.region_path)

VARIABLES l1_lines,     \* per core, size_bytes / line_size of its L1
          classifiers,  \* the classifiers made so far, by core
          stats,        \* MissStats
          cache_stats,  \* SimulationStats
          attribution   \* Attribution

simVars == <<vars, l1_lines, classifiers, stats, cache_stats, attribution>>

\* map[key] = value.
Put(map, key, value) == [k \in DOMAIN map \cup {key} |-> IF k = key THEN value ELSE map[k]]

\* Adds one to the named counters.
Bump(counters, names) ==
  [n \in DOMAIN counters |-> counters[n] + IF n \in names THEN 1 ELSE 0]

-----------------------------------------------------------------------------
(* SimulationStats: totals, the traffic summed up from the results of the     *)
(* accesses, and a row of counters for every object met.                     *)

Totals == {"total_accesses", "load_accesses", "store_accesses", "l1_hits", "l1_misses",
           "l2_hits", "l2_misses", "memory_accesses"}
ObjectCounters == {"accesses", "hits", "misses", "load_accesses", "store_accesses",
                   "load_misses", "store_misses"}
Traffic == {"delay_cycles", "write_through_writes", "writebacks", "dirty_evictions",
            "writeback_cycles"}

Zero(names) == [n \in names |-> 0]

NewSimulationStats == [totals |-> Zero(Totals), traffic |-> Zero(Traffic), objects |-> << >>]

TotalsOf(is_store, miss_level) ==
  {"total_accesses", IF is_store THEN "store_accesses" ELSE "load_accesses"} \cup
  CASE miss_level = 0 -> {"l1_hits"}
    [] miss_level = 1 -> {"l1_misses", "l2_hits"}
    [] OTHER          -> {"l1_misses", "l2_misses", "memory_accesses"}

CountersOf(is_store, miss_level) ==
  {"accesses", IF is_store THEN "store_accesses" ELSE "load_accesses"} \cup
  IF miss_level = 0 THEN {"hits"}
  ELSE {"misses", IF is_store THEN "store_misses" ELSE "load_misses"}

\* The row of an object; the table makes it when the object is first met.
RowOf(objects, name) == IF name \in DOMAIN objects THEN objects[name] ELSE Zero(ObjectCounters)

\* record_access.
RecordAccess(s, e, res) ==
  LET is_store == e.op = "store"
  IN  [totals  |-> Bump(s.totals, TotalsOf(is_store, res.miss_level)),
       traffic |-> [t \in Traffic |-> s.traffic[t] + res[t]],
       objects |-> Put(s.objects, e.object_name,
                       Bump(RowOf(s.objects, e.object_name), CountersOf(is_store, res.miss_level)))]

-----------------------------------------------------------------------------
(* MissStats and Attribution; their maps are counters of objects and regions. *)

NewMissStats == [Cold |-> 0, Capacity |-> 0, Conflict |-> 0, load |-> 0, store |-> 0,
                 by_object |-> << >>]

\* The counter of a key, zero for one the map does not have.
CountOf(map, key) == IF key \in DOMAIN map THEN map[key] ELSE 0

\* One more of a key; a counter is made when it is first asked for.
CountOne(map, key) == Put(map, key, CountOf(map, key) + 1)

\* One more for every segment of a path.
CountPath(map, path) ==
  [region \in DOMAIN map \cup ToSet(path) |->
     CountOf(map, region) + Cardinality({i \in DOMAIN path : path[i] = region})]

\* What was counted in a map, one by one.
CountedIn(map) == UNION {{key} \X (1..map[key]) : key \in DOMAIN map}

\* The tail of the loop, for a miss of the given type.
CountMiss(s, e, miss_type) ==
  LET op == IF e.op = "store" THEN "store" ELSE "load"
  IN  [n \in DOMAIN s |->
         IF n = "by_object" THEN CountOne(s.by_object, e.object_name)
         ELSE s[n] + IF n \in {op, miss_type} THEN 1 ELSE 0]

NewAttribution == [inclusive |-> << >>, exclusive |-> << >>, objects |-> << >>,
                   load |-> 0, store |-> 0]

\* A variant of Record: the last segment counts as outer region only.
RecordOuter(a, e) ==
  [inclusive |-> CountPath(a.inclusive, Front(e.region_path)),
   exclusive |-> CountOne(a.exclusive, Last(e.region_path)),
   objects   |-> CountOne(a.objects, e.object_name),
   load      |-> a.load + IF e.op = "store" THEN 0 ELSE 1,
   store     |-> a.store + IF e.op = "store" THEN 1 ELSE 0]

\* A variant of Record: the miss is every region's own.
RecordEverywhere(a, e) ==
  [inclusive |-> CountPath(a.inclusive, e.region_path),
   exclusive |-> CountPath(a.exclusive, e.region_path),
   objects   |-> CountOne(a.objects, e.object_name),
   load      |-> a.load + IF e.op = "store" THEN 0 ELSE 1,
   store     |-> a.store + IF e.op = "store" THEN 1 ELSE 0]

\* Attribution::record.
Record(a, e) ==
  [inclusive |-> CountPath(a.inclusive, e.region_path),
   exclusive |-> CountOne(a.exclusive, Last(e.region_path)),
   objects   |-> CountOne(a.objects, e.object_name),
   load      |-> a.load + IF e.op = "store" THEN 0 ELSE 1,
   store     |-> a.store + IF e.op = "store" THEN 1 ELSE 0]

-----------------------------------------------------------------------------
(* Diagnostics with its default threshold of a half, on what run_command has at *)
(* the end of the simulation.                                                *)

\* A variant of Exceeds: the threshold itself is enough.
Reaches(count, total) == total > 0 /\ 2 * count >= total

Exceeds(count, total) == total > 0 /\ 2 * count > total

\* The hints on a share of the misses.
ShareHints(s) ==
  LET typed == s.Cold + s.Capacity + s.Conflict
  IN  {h \in {<<"conflict_padding", s.Conflict, typed>>, <<"capacity_blocking", s.Capacity, typed>>,
             <<"store_write_policy", s.store, s.load + s.store>>} : Exceeds(h[2], h[3])}

\* The objects max_element may find in a map without an order.
Leaders(by_object) ==
  {o \in DOMAIN by_object : \A p \in DOMAIN by_object : by_object[p] <= by_object[o]}

\* The hints generate() may return: an object is named if it has its share.
Generated(s) ==
  LET kinds == {h[1] : h \in ShareHints(s)}
      named(o) == IF Exceeds(s.by_object[o], Cardinality(CountedIn(s.by_object))) THEN {o} ELSE {}
  IN  IF s.by_object = << >> THEN {[kinds |-> kinds, object_targeted |-> {}]}
      ELSE {[kinds |-> kinds, object_targeted |-> named(o)] : o \in Leaders(s.by_object)}

-----------------------------------------------------------------------------
\* The constructor of the hierarchy divides the lines of an L1 by its ways and
\* drops the remainder: the lines there may have been.
LinesOf(params) ==
  LET kept == params.num_sets * params.num_ways
  IN  kept .. (kept + params.num_ways - 1)

\* A variant of ClassifierFor: every event makes a classifier.
ClassifierForAnew(core) == NewClassifier(l1_lines[core])

\* classifier_for: a core's classifier is made for its first event.
ClassifierFor(core) ==
  IF core \in DOMAIN classifiers THEN classifiers[core] ELSE NewClassifier(l1_lines[core])

SimInit ==
  /\ Init
  /\ l1_lines \in {f \in [Cores -> UNION {LinesOf(config.l1[core]) : core \in Cores}] :
                     \A core \in Cores : f[core] \in LinesOf(config.l1[core])}
  /\ classifiers = << >>
  /\ stats = NewMissStats
  /\ cache_stats = NewSimulationStats
  /\ attribution = NewAttribution

\* One event of the loop.
Simulate(e) ==
  LET l1_miss   == result'.miss_level >= 1
      miss_type == MissType(ClassifierFor(e.core_id), e.cache_line, l1_miss)
  IN  /\ cache_stats.totals["total_accesses"] < MaxEvents
      /\ Access(e.core_id, e.cache_line, e.op = "store")
      /\ cache_stats' = RecordAccess(cache_stats, e, result')
      /\ classifiers' =
           Put(classifiers, e.core_id, Classified(ClassifierFor(e.core_id), e.cache_line))
      /\ attribution' = IF l1_miss THEN Record(attribution, e) ELSE attribution
      /\ stats' = IF l1_miss THEN CountMiss(stats, e, miss_type) ELSE stats
      /\ UNCHANGED l1_lines

SimNext == \E e \in Events : Simulate(e)

SimSpec == SimInit /\ [][SimNext]_simVars

-----------------------------------------------------------------------------
totals  == cache_stats.totals
traffic == cache_stats.traffic

\* The three tables of a report agree on every miss: its type, its operation, its
\* object and its region are each counted exactly once, and so is its level
\* (record_access, Attribution::record and the tail of the loop count apart).
ReportsAgree ==
  LET misses == totals["l1_misses"]
  IN  /\ stats.Cold + stats.Capacity + stats.Conflict = misses
      /\ stats.load + stats.store = misses
      /\ <<stats.load, stats.store>> = <<attribution.load, attribution.store>>
      /\ stats.by_object = attribution.objects
      /\ Cardinality(CountedIn(attribution.exclusive)) = misses
      /\ \A name \in DOMAIN cache_stats.objects :
           LET row == cache_stats.objects[name]
           IN  /\ CountOf(stats.by_object, name) = row["misses"]
               /\ row["hits"] + row["misses"] = row["accesses"]
      /\ totals["l1_hits"] + misses = totals["total_accesses"]
      /\ totals["l2_hits"] + totals["memory_accesses"] = misses

\* Every region's own misses are among those of the regions above it: no region
\* has more misses than the program, nor fewer than its own (Attribution.hpp,
\* exclusive for the last segment, inclusive for all of them).
RegionsNest ==
  \A region \in DOMAIN attribution.exclusive \cup DOMAIN attribution.inclusive :
    /\ CountOf(attribution.exclusive, region) <= CountOf(attribution.inclusive, region)
    /\ CountOf(attribution.inclusive, region) <= totals["l1_misses"]

\* Each line a core ever touched, with the core.
Footprint == UNION {{core} \X classifiers[core].ever_seen : core \in DOMAIN classifiers}

\* The cold misses are the footprint: one for each line a core ever touched.  A
\* cache that held a line its core never asked for, as a stray victim or a wrong
\* line rebuilt from a tag would be, would hide one (MissClassifier::classify).
ColdIsFootprint == stats.Cold = Cardinality(Footprint)

\* Where all L1s write back and take as long, the cycles add up: every access pays
\* the L1, every L1 miss the L2, every L2 miss the memory, and the rest is the
\* write-backs' (the delay_cycles of CacheHierarchy::access against the levels
\* record_access counts).  An L1 that writes through adds, for its store hits, the
\* L2's delay and at most the memory's.
CyclesAddUp ==
  \A p \in {config.l1[core] : core \in Cores} :
    (\A core \in Cores : config.l1[core] = p) =>
      LET through_hits == traffic["write_through_writes"] - stats.store
          extra == traffic["delay_cycles"] - traffic["writeback_cycles"]
                     - totals["total_accesses"] * p.delay_cycles
                     - totals["l1_misses"] * config.l2.delay_cycles
                     - totals["memory_accesses"] * config.mem_delay
      IN  IF WritesThrough(p)
          THEN /\ through_hits * config.l2.delay_cycles <= extra
               /\ extra <= through_hits * (config.l2.delay_cycles + config.mem_delay)
          ELSE extra = 0

\* An L1 of a single set that allocates on stores is its own shadow, line for
\* line in the order of use, when its size is a whole number of ways.
Mirrored(core) ==
  config.l1[core].num_sets = 1 /\ config.l1[core].write_allocate
    /\ l1_lines[core] = config.l1[core].num_ways

ShadowMirrorsL1 ==
  \A core \in DOMAIN classifiers : Mirrored(core) =>
    Reverse(classifiers[core].fa_lru) = [i \in DOMAIN l1s[core][0] |-> l1s[core][0][i].tag]

\* Where all L1s are their own shadows there is no conflict to find: the hint to
\* pad a layout is never raised by a fully associative cache (Pipeline::simulate,
\* the conflict count against CacheSet's replacement).
FullyAssociativeHasNoConflict ==
  (\A core \in Cores : Mirrored(core)) => stats.Conflict = 0

\* A run gives the same hints every time: they do not depend on the order in which
\* an unordered_map happens to be iterated, also when objects are equally bad, and
\* never ask for padding and for blocking at once (Diagnostics::generate).
HintsAreDetermined ==
  /\ Cardinality(Generated(stats)) = 1
  /\ \A hints \in Generated(stats) :
       ~({"conflict_padding", "capacity_blocking"} \subseteq hints.kinds)

-----------------------------------------------------------------------------
(* What the documentation says, and the code does not do. *)

\* MissClassifier.hpp: a conflict miss is one of the placement in sets, so there
\* is none in caches of a single set.
ConflictIsPlacement ==
  (\A core \in Cores : config.l1[core].num_sets = 1) => stats.Conflict = 0
=============================================================================
