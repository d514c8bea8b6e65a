# Formal model of APEX-Cache

APEX-Cache takes the access patterns a compiler plugin extracts from a C program
(an APE JSON file), unrolls them into a stream of memory accesses, places the
program's objects in memory, sends every access through a simulated hierarchy of
caches, classifies the misses and writes reports. This directory holds TLA+ modules
that model that code, TLC configurations that check them on small instances, and
proofs, checked by TLAPS, of what holds at every size.

Paths below are relative to the repository, which the project map (`PROJECT.json`)
calls `src/`: its C++ is in `src/src` and `src/include`, its Python in
`src/pipeline.py` and `src/backend`. `PROJECT.json` also holds, for every definition,
the lines it models.

## 1. Inventory

| Component | State it keeps | Operations | Model |
|---|---|---|---|
| Cache set (`cache/CacheSet`) | `entries_`, an MRU-first list of tags and dirty bits | `access` | `CacheSet`, `LruLevel` |
| Cache level (`cache/CacheLevel`) | its sets | `access` (index, tag, line of the victim) | `CacheLevel`, `LruLevel` |
| Hierarchy (`cache/CacheHierarchy`) | an L1 per core, one L2, delays and policies | `access`; the constructor | `CacheHierarchy`, `StoreFlow`; `HierarchySetup` |
| Miss classifier (`analysis/MissClassifier`) | `fa_lru_`, `fa_map_`, `ever_seen_` | `classify` | `FaShadow`, `MissClassifier`, `ReuseDistance` |
| Simulation loop (`pipeline/Pipeline`, `analysis/*`) | classifiers by core, `MissStats`, `SimulationStats`, `Attribution` | one iteration per event; `Diagnostics::generate` at the end | `Simulation` |
| APE loader (`ap/ApLoader`) | none | JSON to `ApProgram` | `ApLoader` |
| Event builder (`ap/EventBuilder`, `ap/IndexExpr`) | the recursion, `loop_stack`, the events so far | `build_program`, `visit_v2` | `EventBuilder`, `Unrolling` |
| Placement (`ap/AddressResolver`, `ap/AccessLayout`, `memory/*`, `Pipeline::run`) | base addresses, the next free one | offsets, layout, lines | `AddressResolver`, `Placement`, `Elements` |
| Cache configuration (`cache/YamlConfigParser`) | the parsed entries | `parse`, `like` inheritance, byte quantities | `YamlConfig`, `HierarchySetup`, `Inheritance`, `LikeChains` |
| Command line (`main.cpp`, `cli/*`) | report files on disk | `main`, `run_command` | `CommandLine`, `ReportFiles`, `Reports` (partly: the log's text is left out) |
| Python driver (`pipeline.py`) | `.ll` and APE JSON files on disk, `had_error` | loop over the sources | `SourcePipeline` (partly) |
| Report writers (`report/*`) | none | CSV and JSON of the counters | `Reports` (partly: Markdown is left out) |
| Report loading and plots (`backend/`) | none | pairing, loading and ranking | `ReportFiles`, `Reports` (partly: drawing is left out) |
| Region tree (`ap/Region.hpp`) | none | none; nothing uses it | not modelled |

How they interact. `run_command` calls the configuration parser, the loader, and
`Pipeline::run`, which calls the event builder, places the objects, rewrites every
event with its cache line, builds the hierarchy, and loops over the events. In each
iteration the hierarchy's answer goes to `SimulationStats`, the classifier of the
event's core is asked whatever the answer was, and, for a miss only, `Attribution` and
`MissStats` are updated. The reports are written at the end. `pipeline.py` runs clang,
opt and the simulator as subprocesses, one source after the other; files are all they
share. The plots in `backend/` find reports by the names that are on disk.

What is hard here. The simulator has one thread, so nothing interleaves inside it but
the accesses of several cores. What makes it hard to get right are:

* *state that several steps must keep together*: two lists of the same lines kept in
  opposite orders by unrelated code (`CacheSet`, `MissClassifier`), a list and a map of
  iterators into it, one vector of loops shared by a whole recursion, three tables of
  counters updated apart;
* *order within one access*: a miss may write a victim down before it asks for its own
  line, and each of the two may push out the other or a third line of the L2;
* *policies that combine*: two write policies and two allocation policies in each level,
  of which some leave a store nowhere;
* *numbers*: remainders dropped by two divisions that should agree, bytes that do not
  fit, offsets of nested types and of accesses outside their object;
* *names in several places*: columns and their values, keys and those the plots read,
  structures described after they are used, functions given twice, options that look like
  values;
* *files that outlive a run*: failures, kills, edits and stale files between runs.

`PROJECT.json` lists these one by one ("hazards"), each at its line and with the
properties that would catch it going wrong, or, for a few, with the reason why no property
can (section 5).

What makes each component correct:

* set and level: exactly the most recently used lines are held, in order, and the victim
  that is reported is the line that left;
* hierarchy: no store is lost, no dirty bit is spurious, and write-back traffic is
  counted completely;
* classifier: its verdicts are those of the reuse distance;
* simulation: the tables agree with each other, with the caches and the classifiers;
* loader and event builder: the events are those the document's text means, in order, and
  it ends;
* placement: an access that type-checks resolves, falls on the element it names, in a line no
  other object shares;
* configuration: accepted and rejected as it means, with exact sizes, and the shadow fits
  the cache it shadows;
* reports: what is read back is what was counted, and the log, the plot and the hints agree
  on the worst objects;
* command line and files: a command does what it is meant to, a whole report of the right
  version for each source that was not reported as failed, and pairs of one run unless the
  last failed.

## 2. Modules

```
CacheSet -> CacheLevel -> CacheHierarchy -> StoreFlow -> MCStoreFlow
                      \-> LruLevel -> MCLruLevel
            CacheHierarchy + FaShadow -> Simulation -> Reports -> MCSimulation
            FaShadow -> MissClassifier (refines ReuseDistance) -> MCMissClassifier
AddressResolver -> EventBuilder -> ApLoader -> Unrolling -> MCUnrolling
                                   ApLoader -> Placement
                                               Placement + Unrolling -> Elements -> MCPlacement
YamlConfig -> HierarchySetup -> Inheritance -> LikeChains -> MCInheritance
ReportFiles -> CommandLine -> SourcePipeline -> MCSourcePipeline

proofs:   CacheLevel     -> CacheLevelProofs -> LruLevelProofs (of LruLevel)
          StoreFlow, Reports -> SimulationProofs (of CacheHierarchy, StoreFlow, Simulation and
                            Reports; uses CacheLevelProofs)
          MissClassifier -> MissClassifierProofs
          Elements       -> ProgramProofs (of EventBuilder, ApLoader, Placement, Elements)
                            -> UnrollingProofs (of Unrolling and EventBuilder)
          Inheritance    -> InheritanceProofs
          SourcePipeline -> SourcePipelineProofs
```

An operator named for a code function that changes an object takes the object's state
and gives the state it leaves. Operators called "a variant of X" say how X could plausibly
have been written wrongly. No specification uses them; `PROJECT.json` ("mutants") names,
for every property, the variant that breaks it.

**CacheSet, CacheLevel.** A set is a sequence, front first, like `entries_`. `SetAfter`
and `SetResult` are the two halves of `CacheSet::access`, `LevelAfter` and `LevelResult`
of `CacheLevel::access`; the line of a victim is rebuilt from its tag as the code does it.

**CacheHierarchy.** The variables are the parameters, the L1s, the L2 and the last call
with its result. One call of `access()` is one step. Its three ways through the code are
three actions: `AbsorbedHit`, `WriteThroughHit` and `Miss`. `Miss` makes every call the
code makes, in its order: the L1, the victim's store into the L2, the demand, with the
evictions of each.

**StoreFlow.** The simulator keeps no data, so what a dirty bit promises cannot be read
off its state. Two history variables follow the stores through the calls and the evictions
that are reported, never through dirty bits: `undelivered` (by core, lines whose last store
the L2 has not seen) and `unwritten` (lines the L2 was given and memory was not).

**LruLevel** is a level alone with the order of last uses as a history variable, and every
combination of access options.

**FaShadow, MissClassifier, ReuseDistance.** `FaShadow` has the classifier's operations,
`MissClassifier` their specification under any sequence of calls. `ReuseDistance` says what
a classification promises without any cache: cold is a first use, conflict is a miss with
fewer than the capacity of other lines since the last use, capacity any other. The
refinement maps the capacity and `ever_seen` over and keeps the order of uses.

**Simulation** composes the hierarchy and the classifiers with the loop's counters. An
event takes the one action of `CacheHierarchy` that is enabled and, in the same step, all
the loop's updates. Tables keyed by name are maps from the names met so far to counters,
like the code's, in which a name that is not there counts zero. `Generated` is `Diagnostics::generate`
with its default threshold; because `std::max_element` runs over an `unordered_map`, it is
the set of the results any iteration order can give.

**Reports** adds what is told of the simulation's counters, after every event: the rows and
names of `CsvWriter`, the keys of `JsonWriter`, what `backend/reports.py` reads from both, and
the objects `RunLogger` lists. A CSV file is its columns' names and the values of each row,
apart, as the code writes them; a rate is the fraction it is computed from. The table of
objects is an `unordered_map`, so its order is any. Sorting is by rank, not by an algorithm: a
row's place is the number of the rows ahead of it, those the comparison puts before it and,
since `sorted` is stable, earlier ones it ties with. `std::sort` is not stable; the comparison
of the log leaves no ties between objects of different names, so that it makes no difference.

**AddressResolver, EventBuilder, ApLoader, Unrolling.** The recursion of `visit_v2` is a
stack of frames and each node visited is a step; exceptions are the status "failed".
`resolve_offset` goes along the path with an object's layout as the context that shrinks.
`ApLoader` takes a JSON document, with keys missing or of the wrong kind (`Malformed`), and
makes the program the builder gets; its `LoaderSpec` is loading and building. `Unrolling` gives
the meaning of the document and never looks at the loaded program: a visit is a node, the
iteration it is made in and the scope it is made in, and a trail is a visit, one that it makes,
and so on. The accesses of a document are the trails that end at one, in the order of the first
visit in which two of them differ; `EventsAsWritten` compares them with the events. An index
expression is its sequence of signed terms, its characters are left out.

**Placement, Elements.** The steps are those of `Pipeline::run` before `simulate()`, from the
document on: loading, an object placed in each step, the builder, and an event mapped in each
step, its offset added as an unsigned number. `Elements` enumerates the elements of a type as
the document gives it, a step below it at a time, with their places; what the loader, the
resolver and the placement make of it is held against that. `align_up` clears the bits of a mask;
for powers of two, which is what its comment asks for, that leaves out a remainder, and so it is
modelled.

Recursion over data, in nodes, paths and types, is written as functions over a bounded domain
(`parse_node_v2` over the JSON nodes there may be, the rest over lengths and depths), for the
proofs; only `LikeChains` and the `MC` modules have RECURSIVE operators.

**YamlConfig, HierarchySetup, Inheritance.** The entries of a document are parsed one by
one, in order, with the exceptions of each conversion; then the constructor of the hierarchy
goes through the caches. `ShadowLines` is the lookup `Pipeline` makes for the classifier.
`Inheritance` says what a document means where bases inherit from nobody: an entry's own
fields, or else its base's. `LikeChains` goes on along `like` by recursion, for the one run that
needs it. The YAML library is external: a text is what it converts to, or `Malformed`.

**ReportFiles, CommandLine, SourcePipeline.** `ReportFiles` is one run of `apex-cache`: four
streams opened one by one, each truncating its file, written when they are destroyed. A run may
fail before or between two of them, or be killed. `CommandLine` is what comes before: `main`,
the options, and whether there is a run at all. `SourcePipeline` is the loop of `pipeline.py`
around both: clang and opt may fail, and opt may succeed with either of the two names the plugin
may write or with nothing; the command line it builds goes through `CommandLine`. Between
invocations sources may be edited and `apex-cache` run by hand. What clang, opt and the plugin
do is external.

## 3. Runs

All constants of a run are in its `.cfg` and in the `MC` module.

| Run | Instance | What it shows |
|---|---|---|
| `StoreFlow_one_core` | 1 core; L1 and L2 of two lines, as one set of two ways or two sets of one; 4 lines; all 16 policies | `StoresNotLost`, `DirtyMeansPending`, `WriteThroughStaysClean`, `SetsWellFormed`, `StoreMissNeverFills`, `DirtyLossReported`, types |
| `StoreFlow_two_cores` | 2 cores; one-line L1s of different policies over a two-way L2; 3 lines | the first two when cores share lines and an L2, and policies differ |
| `LruLevel` | five geometries of 1 to 4 lines; 5 lines | `HoldsMostRecent`, `OrderedByUse`, `EvictedIsReported` |
| `MissClassifier` | capacities 1 to 4; 5 lines | `MapMatchesList`, `ShadowIsLru`, and that it implements `ReuseDistance` |
| `Simulation` | 1 core; L1 of one or two lines, also with a remainder dropped, over a two-way L2; all policies; 3 lines of an object each; up to 4 events; log and plot of 2 objects | the tables (`ReportsAgree`, `RegionsNest`, `ColdIsFootprint`, `CyclesAddUp`), `ShadowMirrorsL1`, `FullyAssociativeHasNoConflict`, `HintsAreDetermined`, and what is told of them: `ReportsRoundTrip`, `TopsAgree` |
| `Unrolling` | documents of three functions with calls, loops of 0 to 2 iterations, objects and indices handed on, unknown names, functions given twice, missing and malformed keys | `LoopsNest`, `EventsAsWritten`, `Terminates` |
| `Placement` | documents of three objects of seven types, scalars, arrays, nested structures in either order of description, an object without bytes; every element accessed, and places before and past each object; lines of 1 to 32 bytes | `AccessesResolve`, `OffsetIsElement`, `OwnLines`, `LinesAreFilled` |
| `Inheritance` | documents of up to three entries in either order, sizes at the limits of their types, malformed fields | `InheritsFromPlain`, `RejectsTheUnsoundOnly`, `SizesAreExact`, `ShadowFitsItsL1` |
| `SourcePipeline` | two invocations, of the wrapper or of `apex-cache` by hand with its options in any order or some missing; two sources that share a name, a file that is skipped, one edit of each source | `CommandsUnderstood`, `PairsMixAfterFailureOnly`, `EverySourceAccounted` |

Why the bounds are enough. A miss in this hierarchy involves at most three lines, the one
asked for, the victim of the L1 and the victim of the L2; two lines in each level and one
or two lines more make every combination of them occur, also the victim that pushes out the
demanded line and the one that is itself pushed out. The claims about the hierarchy and the
classifier are proved for all sizes besides. Within four events the simulation has every
type of miss, a hit after each, and each hint at and beyond its threshold. Three functions
give a parameter handed on twice, which is the shortest chain in which a substitution can
be lost. Two invocations are what a stale file takes. Among the hierarchies of
`StoreFlow_one_core` an L1 of either kind that passes stores on is above an L2 that does not
allocate for them, and so is one whose dirty victims miss that L2: `StoreMissNeverFills` asks of
such an L2 that nothing enters it but the line that the L1 takes in with the same access.

Widths are scaled: `MaxUint64` is 2^23 - 1 and `MaxInt` 2^15 - 1, so that the
products that overflow stay in TLC's integers, and the documents have sizes on either side of
both limits. `AddressSpace` is 256 for 2^64, more than three small objects take, so that only
a negative address wraps. `LogLimit` and `PlotLimit` are 2 for 3 and 10: with three objects both
lists leave one out, and a tie may be at the cut.

`Depth` of the two runs on documents is computed from them. `Deepest`, how deep trails and types are
followed, is 8 and 6. Only calls that are recursive go that deep: a document with a trail of that
length is taken for recursive (`ProgramIsScoped`), and all others are followed to their leaves.

Deadlock is checked where the system can always go on (`StoreFlow`, `LruLevel`,
`MissClassifier`). The others are programs that end: their configurations say so.

### Where the code and its documents differ

Three runs end in a counterexample. Each checks one sentence of the repository.

* `Simulation_conflict` / `ConflictIsPlacement`. `MissClassifier.hpp:23` calls a conflict
  miss a collision of placement in sets. The shadow is filled by stores that an L1 without
  write-allocate does not take in, so a load that follows misses a cache of a single line
  "in conflict". With an L1 that allocates, `FullyAssociativeHasNoConflict` shows there are
  none.
* `Placement_struct_array` / `ObjectsGetTheirBytes`. `total_bytes()` gives an array of
  structures the bytes of one element, because the loader sets `struct_type` for it too;
  `AccessLayout.hpp:46` says an array has the product of its shape and its element's size.
  The next object overlaps it. `OwnLines` and `LinesAreFilled` hold for programs without such
  arrays, which is what the `Placement` run has.
* `Inheritance_chain` / `InheritsSettings`. `YamlConfigParser.hpp:9` says an entry can
  inherit the settings of another. `apply_like()` does not look at the base's own `like`, so
  what the base inherited is lost. `InheritsFromPlain` shows it is right for bases that
  inherit from nobody.

### Fairness

Only `LoaderSpec` has any: weak fairness of its whole next-state relation. Loading and building
are one sequential call, which the process runs to its end as long as it runs at all; no choice
of what it does is left to fairness. `Terminates` follows for programs without recursive
calls, the only ones the frontend expands. Everything else is safety.

## 4. Proofs

All theorems hold for every value of the constants under the assumptions below. Each is named
in the module that declares its constants, and TLC evaluates it on the runs of that module.

| Assumption | What it says, and why the code has it so |
|---|---|
| `ConfigsAssumption`, `GeometriesAssumption` | A level has at least one set and one way. No sets is a division by zero in `CacheLevel::access`; no ways pops an empty list. |
| `LinesAssumption`, `LruLinesAssumption` | Lines are natural numbers: they are unsigned. |
| `CapacitiesAssumption` | A shadow has room for a line, as the L1 it stands for has. |
| `EventsAssumption` | An event is of a core there is and on a path of regions, none twice: calls are unrolled, and a function that is below itself never ends. |
| `NamesAssumption` | Objects have names that can be told apart; log and plot list at least one object. |
| `LimitsAssumption` | The largest `int` is not less than 64, the line size an entry has by default. |
| `DocumentsAssumption` | An associativity that converts is positive; a zero divides by zero in the constructor. |
| `JsonAssumption` | What has a key and does not throw is of the kind asked for: arrays are sequences, bounds integers. Documents are finite: a node is deeper than the nodes in it. |
| `DeepestAssumption` | The depth to which trails and types are followed is a number. |
| `PlacementAssumption` | Line sizes are powers of two, which `MemoryLayout.hpp:11` asks for; a document's objects have ids; the address space is not empty. |
| `TypesAssumption` | Types are those of a compiler: no size, dimension or offset is negative, and a structure has room for each field. |
| `SourcesAssumption` | No `.ll` source is what clang makes of a `.c` source; the wrapper would compile over it. |
| `ArgumentsAssumption` | The wrapper is given a list of sources. |
| `CommandLinesAssumption` | What is meant by a command line follows the usage, and no input is called `..._objects`: the summary of one would be the table of the other. |

**CacheLevelProofs** is about the operators alone. `SetAfterWellFormed` and `SetAccess` say
what one access does to a list; `LineOfIsInverse` that a line and its set index and tag
determine each other; `LevelAccess` puts them together in terms of lines: the level stays
well-formed, the line asked for is in it exactly if it hit or was allocated, the one line
that leaves is the one reported, with its dirty bit, and every other line stays as it was. The
hierarchy's proofs use nothing else of lists.

**LruLevelProofs** proves `OrderedByUse`, `HoldsMostRecent` and `EvictedIsReported`. `LruInv`
says that the order of last uses is strict, that a list is ordered by it, and that a line that
was used and is out was used before every line of its set, which is full. That exactly the last
`num_ways` are held is then a count: the lines used since one that is in are among those before
it in its list, fewer than the ways; those used since one that is out include the full list.

**MissClassifierProofs** proves `ClassifierTypeCorrect`, `MapNeverDrifts`, `ShadowStaysLru`
and `ClassifierImplements`. `ClassifierInv` adds to the three invariants that the order of
uses is strict, that the lines seen are finitely many, and that those of the list are among
them. `HitByDistance` is the heart of the
refinement: a line is in the shadow exactly if its reuse distance is below the capacity. The
lines used since are those behind it in the list when it is there, and include the whole
full list when it is not; the cardinality of each is that of an interval of positions.

**SimulationProofs** begins with the hierarchy. It proves `TypeCorrect`, `WellFormed` and
`CleanWriteThrough` of the hierarchy alone. The inductive invariant `Inv` is the conjunction of
the three: the type needs tags that are natural numbers, uniqueness of a tag needs the search to
find the only entry, and a write-through level is clean because neither a fill nor a hit marks its
line, which goes entry by entry and so needs the shape of the list. A step touches one L1 and up
to twice the L2; a lemma for each (`TouchSound`, `L2Sound`, `VictimSound`) leaves one line per
action.

Then the stores: `FlowTypeCorrect`, `NoStoreLost` and `NoSpuriousDirty`. The
invariant `FlowInv` adds to `Inv` that the histories *equal* the dirty lines, and that no
level holds a line that was never accessed, so that a victim is one of `Lines`. Neither half is
inductive alone: that no store is lost at an eviction depends on the victim being reported dirty
exactly when it is pending. `PolicyAccess` restates `LevelAccess` under the options the policies
give, and `L2FlowExact` and `L1Flow` say that one access of a level keeps the equality; `Miss`
chains two accesses of the L2, the victim's and the demand's. `EveryDirtyLossReported` and
`StoreMissesNeverFill` are the two action properties: a step is unfolded into its accesses, and
what leaves or enters is what `LevelAccess` says of each. For an L2 without write-allocate that
is nothing for the victim and nothing for a store passed on; the L2 is asked otherwise only on an
L1 miss that fills (`MissFills`), and takes in at most the line asked for (`OnlyTheLineEnters`),
which is new in the L1 as well. `FlowIsHierarchy` shows that the histories restrict nothing.

On top of it is every invariant the `Simulation` run checks. `SimInv` has the tables
against one another, counter by counter; that every line of a core's L1 is among those its
classifier has seen (`HeldIsSeen`: without it a hit could be the first use of a line, and
`ColdIsFootprint` would not be inductive); and that where an L1 has a single set and allocates,
its list and the shadow's are each other's mirror image, entry by entry (`ShadowsMirror`), from which
`NoConflictWithoutSets` follows: a line that is not in the L1 is not in the shadow. Every event is
one access of the hierarchy, so that of the caches only `LevelAccess` is used. The maps of
counters are counted as finite sets of units, which turns sums over a table into cardinalities.
`HintsHaveOneAnswer` rests on `LeadersShare`: two objects with the same count, the largest,
have at most half of the total each, and a hint takes more than half.

For the reports, `RowsInv` adds that a row's misses are those of its loads and of its stores.
`WhatIsReadWasCounted` is that columns have different names and each value is at its column's
place, and that the bars of the objects' plot, whatever the order of the rows, count what the
objects missed. `WorstObjectsAgree` is about sorting by rank. `SortingSorts`: ranks are a
permutation, by counting, so that a list sorted by rank is in order and complete. `NoneBefore`:
of two lists of the same things in the same order none has a k-th that comes before the other's
k-th, or the first k would be among the other's first k - 1. With it the log is the same for
every order of the table, because its comparison ties no two objects, and log and plot
have the same misses at each place, because the log's order refines the plot's.

**ProgramProofs** is about the way from a document to cache lines. `LoopsAlwaysNest` is about
the builder alone, `BuilderSpec(Programs)`, begun with any programs whose functions are sequences
of nodes. `BuilderInv` says that `loop_stack` has an iteration for
every frame of a loop, in the order of the frames, and within the loop's bounds; it is inductive
because only the innermost frame is ever pushed, advanced or popped. `NoLoopIsLeft` is what
`build_program` needs of it between roots.

The rest is about documents. `parse_node_v2` is a recursive function; that it is what its
recursion says (`ParsedNode`) comes from the depth of nodes: there are functions that
parse all nodes of a depth, and two of them agree. The trails of a depth, the walk along a
path, products, the places a path reaches and the parts of a type are unfolded alike. From
that on, a document that loads has only nodes that parse, and types with `Typed` dimensions.

* Placement. `Placed` is inductive: objects are at multiples of the line size, apart from each
  other with the whole room that `align_up` gives them, and each ends where the next begins.
  `LinesAreFilledAlways` follows, as the room is the size rounded up (`AlignedUp`).
* Offsets. `ElementResolves` is the heart: where the document's types have a place for a path, the
  resolver does not throw and its offset is that place. A run of indices is strided by
  products of dimensions that start from the last one, while the type takes its dimensions from the
  first; the invariant of the walk (`Fits`) relates the two at every step, and pointers, with
  an index more, are a first step over the whole object. `Unrolled` adds that every
  event's path and offset belong together in the program loaded; `OffsetsAreElements` follows.
* Lines. An element of a type lies within the type's bytes (`ElementWithin`), hence in the
  object's room, and rooms do not share lines (`RoomsApart`). `Mapped` says that the lines so far
  are those of the events so far, and `OwnLinesAlways` puts the three together, with the
  accesses outside their object, which wrap around below the first address.

**UnrollingProofs** proves `EventsAreAsWritten`, `AccessesAreResolved` and `LoopsOfDocumentsNest`.
What a document means is stated by trails: a trail is the list of functions, calls and
iterations that lead to a node of the text, and the trails of accesses have an order, that of the
text. The builder knows nothing of trails. It has a stack of frames, a vector of loops that
all frames share, and what is left of the list of roots.

* `AtNode` relates the two. An execution is at the node `a` of the list a trail `Q` leads to; then
  the frames are those of the visits of `Q`, each with what is left of its list behind the visit, its
  parameters bound to what the trail's scope says (`InFrame`); the loops are those around the node, the
  roots left those behind the first visit, and the events recorded are the accesses whose trails
  come before (`Recorded`, `Done`).
* Every action of the builder leads from one such place to another: `RootStep` and `FinishStep`,
  `ScalarStep` and `ArrayStep`, which add the one access that comes next, `LoopStep`,
  `IterationStep` and `ReturnStep`, which add none because a loop, an iteration or a list that has
  ended has no further trail (`DoneInto`, `DoneIteration`, `DoneVisit`), and `CallStep`. The last
  rests on `CalleeMatches`: what the loop over the parameters binds, from first to last, is what
  the text hands to each, by name, wherever names repeat or arguments are missing.
* `Executed` says that a running execution is always somewhere. At the end all trails are done
  (`AllDone`), so that the events are as many as the accesses. When it fails before, the node it
  is at is an access the layout refuses (`Rejected`).
* In `PlacementSpec` mapping goes on after the builder. `Ended` says that a run which fails does so
  for an access that is not of an element of a registered object: by `ElementResolves` the resolver
  never refuses one, and by `Placed` every object of the document has its base by then.

Trails are defined from `document`, a variable, so that no definition of them is the same formula in
the next state. `SamePlace` and the lemmas before it (`SameVisits`, `SameTrails`) show that they
do not change while the document does not. `LoopsOfDocumentsNest` takes `BuilderInv` over to
documents: whatever is loaded has only nodes that the loader made (`LoadedNodes`).

**InheritanceProofs** proves the five invariants of the `Inheritance` run. `SetupInv` says that the
caches are those that the accepted entries make so far, and the levels those of the caches
built so far.

* Sizes. A size in bytes is a product that is exact if it was not rejected, whatever the width, and
  a line size that was accepted is the same number as an int (`BytesDenoted`). `FieldIsText` says
  that a field of a cache is that of the entry's own text or, where names are unique, of its base's;
  with the two, `SizesStayExact` holds for inherited sizes as for given ones.
* Rejection. The two halves of `OnlyTheUnsoundIsRejected` have different conditions. Both need unique
  names, without which a `like` may mean any of several entries. That nothing unsound is taken
  over, in the entries or in the memory, needs no more. That nothing sound is rejected needs also that
  no base is itself like another: of such a base the code asks for a size of its own, even
  where the entry has one. The memory of a document without caches is not looked at
  (`MemoryIsSound`).
* Shadows. That the constructor and `classifier_for` agree on a size they divide in different
  orders is arithmetic of two divisions. The L1 of a core is the first that is found, as the entry a
  name means is the last of that name; that there is a first and a last follows from `LeastNatural`.

**SourcePipelineProofs** proves `CommandsUnderstood`, `PairsMixAfterFailureOnly` and
`EverySourceAccounted`, for any number of invocations. The names of files are sequences of parts, and
that the four reports of one name share no file with those of another is the first lemma.
`RunsInv` says how far the run under way got: what it opened is truncated and its own, in the order
it opens them, and that no summary is newer than its table of objects. `AccountInv` carries what
is known of each source behind the wrapper through the rest of its loop, which opens no file of
theirs unless the name is the same.

**Induction over data** is out of reach of the library's induction theorems here, because no
prover instantiates their operator parameter; taking a least counterexample from
`WellFoundedInduction`'s `WFMin` is not, and takes its place above.

**Model-checked only.** `Terminates` is liveness, which the prover does not reach. Every other
property of a passing run, invariant, action property or refinement, is also a theorem.

## 5. What is not modelled, and limits of what is

* The text of the run log and its colours, usage, the Markdown of the hints, drawing, and the
  overloads of the writers that only tests call: layout, from which nothing is read back. In
  `Reports` rates are exact; the decimals a stream prints are fewer.
* The JSON and YAML libraries and `csv.DictReader` are external: a value converts or throws.
  `RawIndexStep`s are parsed already, so that an expression's characters are left out.
* `Simulation` has one core, since the builder gives every event core 0. Several cores are
  in `StoreFlow_two_cores`.
* Thresholds of diagnostics other than the default, and a plot of no objects (`--top 0`).
* Inputs whose names end in `_objects`, whose summary CSV is the table of objects of the input
  without the ending, and a `.ll` source that is what clang makes of another source of the same
  invocation: assumptions exclude both (section 4).
* Associativities of zero, line sizes that are not a power of two, a core without an L1 or with
  one of no sets, and the capacity of 0 its classifier gets: nothing checks for them and the
  code's behaviour is undefined or meaningless. They are listed as hazards; `HierarchySetup` makes
  the entries without sets that the constructor makes, and no property is about their use.
* Two L1s of one core, and an L2 with a line size of its own: the model has what the code
  does, and no property, because no document says what should happen.
* Objects without bytes in `OwnLines`: they have the base of the next object, and no line.
* An interrupt of `pipeline.py` itself, and a full disk: `run_command` does not look at its
  streams after opening them.
* `EverySourceAccounted` leaves out a source that took a stale APE JSON file after opt ended
  well without writing one, and one whose reports another source of the same name overwrote.
  Both do happen in the model, and are hazards that no property covers.
* A loop named like a parameter of its own function (`InScope`): the builder binds the parameter over
  the loop's variable, and the text means the loop. Loops and parameters named like a loop
  of a caller are covered.
* `RejectsTheUnsoundOnly` where two entries have one name, and its second half where a base is
  like another entry (section 4).

## 6. Plan

Done, in this order: sets, levels and hierarchy with `StoreFlow` and their proofs; the
classifier with its abstract specification and proofs; the simulation loop; the event builder;
placement; configuration; report files and the driver; then the loader, so that the builder
and placement run on documents; the reports and what is read back from them; the command line.

Then the proofs of the level alone, of the hierarchy's action properties, the
simulation, the event builder, the configuration, the files and the reports; for them `Inheritance` was
split from its recursive part, and sorting in `Reports` stated by rank.

For the proofs about programs the loader, `Unrolling`, `Placement` and `Elements` were stated
without RECURSIVE and bitwise operators.

Then the trails of a document and the stack of the builder: `EventsAsWritten`, `AccessesResolve` and
`LoopsNest` for documents. In the course of that `StepsOf` in `Unrolling` was corrected: an access to
a scalar takes no steps, whatever keys of an array node it has, as `visit_v2` has it.

Left open: the full text of the run log and the Markdown hints, an interrupt of the wrapper, and
configurations the code accepts without a meaning for them (section 5).
