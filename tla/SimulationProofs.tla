-------------------------- MODULE SimulationProofs --------------------------
(***************************************************************************)
(* The caches and what is counted of them, for every hierarchy the constructor *)
(* may build and every program.  First the hierarchy: no store is lost in it,   *)
(* the dirty bits are exactly the stores a level has not passed on.  Then what   *)
(* Pipeline::simulate counts agrees with what the caches did: the tables agree   *)
(* with each other, the cold misses are the footprint, the cycles add up, a     *)
(* fully associative L1 is its own shadow cache, what is read back from the     *)
(* reports is what was counted, and log and plot name the same worst objects.  *)
(***************************************************************************)
EXTENDS StoreFlow, Reports, CacheLevelProofs, FiniteSetTheorems

-----------------------------------------------------------------------------
(* The hierarchy. *)

\* A level that has its type, is well formed and is clean if it writes through.
SoundLevel(sets, params) ==
  /\ sets \in Levels(params)
  /\ WellFormedLevel(sets, params)
  /\ CleanLevel(sets, params)

\* The inductive invariant: the levels are sound together.
Inv == TypeOK /\ SetsWellFormed /\ WriteThroughStaysClean

-----------------------------------------------------------------------------
\* A level of a configuration has sets and ways, and its delay is a number.
LEMMA ParamsAreGeometry ==
  ASSUME NEW p \in LevelParams
  PROVE  IsGeometry(p) /\ p.delay_cycles \in Nat /\ p.write_allocate \in BOOLEAN
BY DEF LevelParams, IsGeometry

\* options_for makes access options.
LEMMA OptionsType ==
  ASSUME NEW p \in LevelParams, NEW is_store \in BOOLEAN
  PROVE  /\ OptionsFor(is_store, p) \in CacheAccessOptions
         /\ MarksDirty(OptionsFor(is_store, p)) <=> is_store /\ ~WritesThrough(p)
         /\ OptionsFor(is_store, p).allocate_on_miss <=> ~is_store \/ p.write_allocate
<1> DEFINE o == OptionsFor(is_store, p)
<1>1. o.is_store = is_store /\ (o.allocate_on_miss <=> ~is_store \/ p.write_allocate)
      /\ (o.mark_dirty_on_store <=> is_store /\ p.write_policy = "WriteBack")
  BY DEF OptionsFor
<1>2. o \in CacheAccessOptions
  BY DEF OptionsFor, CacheAccessOptions, LevelParams
<1>3. p.write_policy = "WriteBack" <=> ~WritesThrough(p)
  BY DEF WritesThrough, LevelParams, WritePolicies
<1> QED BY <1>1, <1>2, <1>3 DEF MarksDirty

\* A level is clean when none of its lines is dirty: entries and lines are the
\* same things.
LEMMA CleanMeansNoDirtyLine ==
  ASSUME NEW p \in LevelParams, NEW sets \in Levels(p)
  PROVE  CleanLevel(sets, p)
           <=> (WritesThrough(p) => \A L \in Nat : ~HoldsDirty(sets, p, L))
<1> DEFINE n == p.num_sets
<1>0. n \in Nat \ {0} /\ SetIndices(p) = 0..(n - 1)
  BY DEF LevelParams, SetIndices
<1>1. ASSUME CleanLevel(sets, p), WritesThrough(p), NEW L \in Nat
      PROVE  ~HoldsDirty(sets, p, L)
  <2>1. SetIndexOf(L, n) \in SetIndices(p)
    BY <1>0, LineOfIsInverse
  <2> QED BY <1>1, <2>1 DEF CleanLevel, HoldsDirty
<1>2. ASSUME WritesThrough(p), \A L \in Nat : ~HoldsDirty(sets, p, L),
             NEW si \in SetIndices(p), NEW i \in DOMAIN sets[si]
      PROVE  ~sets[si][i].dirty
  <2> DEFINE L == LineOf(sets[si][i].tag, si, n)
             e == sets[si]
  <2>1. e \in Seq(Entries(Nat)) /\ i \in DOMAIN e
    BY DEF Levels
  <2>2. sets[si][i].tag \in Nat
    <3> HIDE DEF e
    <3>1. i \in 1..Len(e) /\ e[i] \in Entries(Nat)
      BY <2>1
    <3>2. e[i].tag \in Nat
      BY <3>1 DEF Entries
    <3> QED BY <3>2 DEF e
  <2>3. L \in Nat /\ SetIndexOf(L, n) = si /\ TagOf(L, n) = sets[si][i].tag
    BY <1>0, <2>2, LineOfIsInverse
  <2> HIDE DEF L
  <2>4. ~HoldsDirty(sets, p, L)
    BY <1>2, <2>3
  <2> QED BY <2>3, <2>4 DEF HoldsDirty
<1> QED BY <1>1, <1>2 DEF CleanLevel

\* What the constructor builds is sound.
LEMMA EmptyLevelSound ==
  ASSUME NEW p \in LevelParams
  PROVE  SoundLevel(EmptyLevel(p), p)
BY ParamsAreGeometry, EmptyLevelFacts, CleanMeansNoDirtyLine DEF SoundLevel

\* An access under the options the hierarchy chooses keeps a level sound.
LEMMA AccessKeepsLevelSound ==
  ASSUME NEW p \in LevelParams, NEW sets, SoundLevel(sets, p),
         NEW L \in Nat, NEW is_store \in BOOLEAN
  PROVE  SoundLevel(LevelAfter(sets, p, L, OptionsFor(is_store, p)), p)
<1> DEFINE o  == OptionsFor(is_store, p)
           s2 == LevelAfter(sets, p, L, o)
           r  == LevelResult(sets, p, L, o)
<1>1. IsGeometry(p) /\ sets \in Levels(p) /\ WellFormedLevel(sets, p) /\ o \in CacheAccessOptions
  BY ParamsAreGeometry, OptionsType DEF SoundLevel
<1>2. s2 \in Levels(p) /\ WellFormedLevel(s2, p)
      /\ \A M \in Nat :
           HoldsDirty(s2, p, M) <=>
             IF M = L
             THEN HoldsDirty(sets, p, L) \/ ((r.hit \/ o.allocate_on_miss) /\ MarksDirty(o))
             ELSE HoldsDirty(sets, p, M) /\ ~(r.has_eviction /\ r.evicted_cache_line = M)
  <2> HIDE DEF o
  <2> QED BY <1>1, LevelAccess
<1>3. WritesThrough(p) => ~MarksDirty(o) /\ \A M \in Nat : ~HoldsDirty(sets, p, M)
  BY <1>1, OptionsType, CleanMeansNoDirtyLine DEF SoundLevel
<1> HIDE DEF o, s2, r
<1>4. WritesThrough(p) => \A M \in Nat : ~HoldsDirty(s2, p, M)
  BY <1>2, <1>3
<1>5. CleanLevel(s2, p)
  BY <1>2, <1>4, CleanMeansNoDirtyLine
<1> QED BY <1>2, <1>5 DEF SoundLevel, s2, o

\* What an access of a sound level reports.
LEMMA AccessResult ==
  ASSUME NEW p \in LevelParams, NEW sets, SoundLevel(sets, p),
         NEW L \in Nat, NEW is_store \in BOOLEAN
  PROVE  LET r == LevelResult(sets, p, L, OptionsFor(is_store, p))
         IN  /\ r.hit \in BOOLEAN /\ DirtyEviction(r) \in BOOLEAN
             /\ DirtyEviction(r) => r.evicted_cache_line \in Nat
<1> DEFINE o == OptionsFor(is_store, p)
           r == LevelResult(sets, p, L, o)
<1>1. IsGeometry(p) /\ sets \in Levels(p) /\ WellFormedLevel(sets, p) /\ o \in CacheAccessOptions
  BY ParamsAreGeometry, OptionsType DEF SoundLevel
<1>2. /\ r.hit \in BOOLEAN /\ r.has_eviction \in BOOLEAN /\ r.evicted_dirty \in BOOLEAN
      /\ r.has_eviction => r.evicted_cache_line \in Nat
  <2> HIDE DEF o
  <2> QED BY <1>1, LevelAccess
<1> QED BY <1>2 DEF DirtyEviction

\* A dirty line is in the level.
LEMMA DirtyIsResident ==
  ASSUME NEW sets, NEW params, NEW L, HoldsDirty(sets, params, L)
  PROVE  Holds(sets, params, L)
BY DEF HoldsDirty, Holds, TagsOf

\* What one access under the options the hierarchy chooses does to a level: r is
\* its result and s2 the level it leaves, line by line.
PolicyEffect(sets, s2, r, p, L, is_store) ==
  /\ r.hit <=> Holds(sets, p, L)
  /\ r.hit \in BOOLEAN /\ r.has_eviction \in BOOLEAN /\ r.evicted_dirty \in BOOLEAN
  /\ r.has_eviction =>
       /\ ~r.hit
       /\ r.evicted_cache_line \in Nat
       /\ r.evicted_cache_line # L
       /\ Holds(sets, p, r.evicted_cache_line)
       /\ r.evicted_dirty <=> HoldsDirty(sets, p, r.evicted_cache_line)
  /\ \A M \in Nat :
       Holds(s2, p, M) <=>
         IF M = L THEN r.hit \/ ~is_store \/ p.write_allocate
         ELSE Holds(sets, p, M) /\ ~(r.has_eviction /\ r.evicted_cache_line = M)
  /\ \A M \in Nat :
       HoldsDirty(s2, p, M) <=>
         IF M = L
         THEN \/ HoldsDirty(sets, p, L)
              \/ /\ r.hit \/ ~is_store \/ p.write_allocate
                 /\ is_store /\ ~WritesThrough(p)
         ELSE HoldsDirty(sets, p, M) /\ ~(r.has_eviction /\ r.evicted_cache_line = M)

\* LevelAccess under the options the hierarchy chooses.
LEMMA PolicyAccess ==
  ASSUME NEW p \in LevelParams, NEW sets, SoundLevel(sets, p),
         NEW L \in Nat, NEW is_store \in BOOLEAN
  PROVE  PolicyEffect(sets, LevelAfter(sets, p, L, OptionsFor(is_store, p)),
                      LevelResult(sets, p, L, OptionsFor(is_store, p)), p, L, is_store)
<1> DEFINE o  == OptionsFor(is_store, p)
           r  == LevelResult(sets, p, L, o)
           s2 == LevelAfter(sets, p, L, o)
<1>1. IsGeometry(p) /\ sets \in Levels(p) /\ WellFormedLevel(sets, p)
      /\ o \in CacheAccessOptions
  BY ParamsAreGeometry, OptionsType DEF SoundLevel
<1>2. /\ r.hit <=> Holds(sets, p, L)
      /\ r.hit \in BOOLEAN /\ r.has_eviction \in BOOLEAN /\ r.evicted_dirty \in BOOLEAN
      /\ r.has_eviction =>
           /\ ~r.hit
           /\ r.evicted_cache_line \in Nat
           /\ r.evicted_cache_line # L
           /\ Holds(sets, p, r.evicted_cache_line)
           /\ r.evicted_dirty <=> HoldsDirty(sets, p, r.evicted_cache_line)
      /\ \A M \in Nat :
           Holds(s2, p, M) <=>
             IF M = L THEN r.hit \/ o.allocate_on_miss
             ELSE Holds(sets, p, M) /\ ~(r.has_eviction /\ r.evicted_cache_line = M)
      /\ \A M \in Nat :
           HoldsDirty(s2, p, M) <=>
             IF M = L
             THEN HoldsDirty(sets, p, L) \/ ((r.hit \/ o.allocate_on_miss) /\ MarksDirty(o))
             ELSE HoldsDirty(sets, p, M) /\ ~(r.has_eviction /\ r.evicted_cache_line = M)
  <2> HIDE DEF o
  <2> QED BY <1>1, LevelAccess
<1>3. /\ MarksDirty(o) <=> is_store /\ ~WritesThrough(p)
      /\ o.allocate_on_miss <=> ~is_store \/ p.write_allocate
  BY OptionsType
<1> HIDE DEF o, r, s2
<1>4. PolicyEffect(sets, s2, r, p, L, is_store)
  BY <1>2, <1>3 DEF PolicyEffect
<1> QED BY <1>4 DEF o, r, s2

-----------------------------------------------------------------------------
(* The invariant. *)

\* What the invariant says of every level.
LEMMA InvLevels ==
  ASSUME Inv
  PROVE  /\ config \in HierarchyParams
         /\ config.l2 \in LevelParams /\ SoundLevel(l2, config.l2)
         /\ \A core \in Cores :
              config.l1[core] \in LevelParams /\ SoundLevel(l1s[core], config.l1[core])
<1>1. config \in HierarchyParams
  BY ConfigsAssumption DEF Inv, TypeOK
<1>2. config.l2 \in LevelParams /\ \A core \in Cores : config.l1[core] \in LevelParams
  BY <1>1 DEF HierarchyParams
<1> QED BY <1>1, <1>2 DEF Inv, TypeOK, SetsWellFormed, WriteThroughStaysClean, SoundLevel

\* Sound levels, a request and a result make the invariant, whatever step led
\* there: the levels' parameters never change.
LEMMA InvFromLevels ==
  ASSUME Inv, UNCHANGED config,
         DOMAIN l1s' = Cores,
         \A core \in Cores : SoundLevel(l1s'[core], config.l1[core]),
         SoundLevel(l2', config.l2),
         request' \in Requests \cup {NoRequest}, result' \in Results
  PROVE  Inv'
BY DEF Inv, TypeOK, SetsWellFormed, WriteThroughStaysClean, SoundLevel

\* The initial states satisfy the invariant.
LEMMA InitInv == Init => Inv
<1> SUFFICES ASSUME Init PROVE Inv
  OBVIOUS
<1>1. config \in Configs /\ config \in HierarchyParams
  BY ConfigsAssumption DEF Init
<1>2. config.l2 \in LevelParams /\ \A core \in Cores : config.l1[core] \in LevelParams
  BY <1>1 DEF HierarchyParams
<1>3. SoundLevel(l2, config.l2) /\ \A core \in Cores : SoundLevel(l1s[core], config.l1[core])
  BY <1>2, EmptyLevelSound DEF Init
<1>4. NoResult \in Results
  BY DEF NoResult, Results
<1> QED BY <1>1, <1>3, <1>4
        DEF Init, Inv, TypeOK, SetsWellFormed, WriteThroughStaysClean, SoundLevel

\* Touching a core's L1 leaves every L1 sound.
LEMMA TouchSound ==
  ASSUME Inv, NEW core \in Cores, NEW cache_line \in Lines, NEW is_store \in BOOLEAN,
         TouchL1(core, cache_line, is_store)
  PROVE  /\ UNCHANGED config
         /\ DOMAIN l1s' = Cores
         /\ \A c \in Cores : SoundLevel(l1s'[c], config.l1[c])
         /\ request' \in Requests \cup {NoRequest}
<1>1. cache_line \in Nat
  BY LinesAssumption
<1>2. SoundLevel(L1After(core, cache_line, is_store), config.l1[core])
  BY <1>1, InvLevels, AccessKeepsLevelSound DEF L1After
<1>3. DOMAIN l1s = Cores
  BY DEF Inv, TypeOK
<1> QED BY <1>2, <1>3, InvLevels DEF TouchL1, Requests

\* Every access of the L2 leaves it sound.
LEMMA L2Sound ==
  ASSUME Inv, NEW sets, SoundLevel(sets, config.l2), NEW L \in Nat, NEW is_store \in BOOLEAN
  PROVE  /\ SoundLevel(L2After(sets, L, is_store), config.l2)
         /\ L2Result(sets, L, is_store).hit \in BOOLEAN
         /\ DirtyEviction(L2Result(sets, L, is_store)) \in BOOLEAN
BY InvLevels, AccessKeepsLevelSound, AccessResult DEF L2After, L2Result

\* Counts and cycles are numbers whether or not their event happens.
LEMMA TimesNat ==
  ASSUME NEW b, NEW n \in Nat
  PROVE  Times(b, n) \in Nat
BY DEF Times

\* What a miss sends down before its own line leaves the L2 sound, and costs
\* some number of cycles and evictions.
LEMMA VictimSound ==
  ASSUME Inv, NEW core \in Cores, NEW cache_line \in Lines, NEW is_store \in BOOLEAN
  PROVE  LET r1 == L1Result(core, cache_line, is_store)
         IN  /\ SoundLevel(L2AfterVictim(r1), config.l2)
             /\ VictimCycles(r1) \in Nat /\ VictimEvictions(r1) \in Nat
<1> DEFINE r1 == L1Result(core, cache_line, is_store)
<1>1. cache_line \in Nat
  BY LinesAssumption
<1>2. DirtyEviction(r1) => r1.evicted_cache_line \in Nat
  BY <1>1, InvLevels, AccessResult DEF L1Result
<1>3. config.l2.delay_cycles \in Nat /\ config.mem_delay \in Nat
  BY InvLevels, ParamsAreGeometry DEF HierarchyParams
<1> HIDE DEF r1
<1>4. SoundLevel(L2AfterVictim(r1), config.l2)
  BY <1>2, InvLevels, L2Sound DEF L2AfterVictim
<1>5. VictimCycles(r1) \in Nat
  <2> DEFINE rv == L2Result(l2, r1.evicted_cache_line, TRUE)
             a  == Times(~rv.hit, config.mem_delay)
             b  == MemoryWriteCycles(rv)
  <2>1. a \in Nat /\ b \in Nat
    BY <1>3, TimesNat DEF MemoryWriteCycles
  <2>2. config.l2.delay_cycles + a + b \in Nat
    <3> HIDE DEF a, b
    <3> QED BY <1>3, <2>1
  <2> QED BY <2>2, TimesNat DEF VictimCycles
<1>6. VictimEvictions(r1) \in Nat
  BY DEF VictimEvictions, Times
<1> QED BY <1>4, <1>5, <1>6 DEF r1

\* Every access preserves the invariant, whichever of its three outcomes it has.
LEMMA StepInv == Inv /\ [Next]_vars => Inv'
<1> SUFFICES ASSUME Inv, [Next]_vars PROVE Inv'
  OBVIOUS
<1>1. CASE UNCHANGED vars
  BY <1>1 DEF vars, Inv, TypeOK, SetsWellFormed, WriteThroughStaysClean
<1>2. ASSUME NEW core \in Cores, NEW cache_line \in Lines, NEW is_store \in BOOLEAN,
             Access(core, cache_line, is_store)
      PROVE  Inv'
  <2> DEFINE d1 == config.l1[core].delay_cycles
             d2 == config.l2.delay_cycles
             dm == config.mem_delay
  <2>0. cache_line \in Nat /\ d1 \in Nat /\ d2 \in Nat /\ dm \in Nat
    BY LinesAssumption, InvLevels, ParamsAreGeometry DEF HierarchyParams
  <2>1. CASE AbsorbedHit(core, cache_line, is_store)
    <3>1. result' \in Results
      BY <2>0, <2>1 DEF AbsorbedHit, Results, NoResult
    <3> QED BY <2>1, <3>1, InvLevels, InvFromLevels, TouchSound DEF AbsorbedHit
  <2>2. CASE WriteThroughHit(core, cache_line, is_store)
    <3> DEFINE r2 == L2Result(l2, cache_line, TRUE)
               a  == Times(~r2.hit, dm)
               b  == MemoryWriteCycles(r2)
               e  == Times(DirtyEviction(r2), 1)
    <3>1. a \in Nat /\ b \in Nat /\ e \in Nat
      BY <2>0, TimesNat DEF MemoryWriteCycles
    <3>2. result' = [delay_cycles |-> d1 + d2 + a + b, miss_level |-> 0,
                     write_through_writes |-> 1, writebacks |-> e,
                     dirty_evictions |-> e, writeback_cycles |-> b]
      BY <2>2 DEF WriteThroughHit, DemandCycles
    <3>3. SoundLevel(l2', config.l2)
      BY <2>0, <2>2, InvLevels, L2Sound DEF WriteThroughHit
    <3> HIDE DEF a, b, e, d1, d2
    <3>4. result' \in Results
      BY <2>0, <3>1, <3>2 DEF Results
    <3> QED BY <2>2, <3>3, <3>4, InvFromLevels, TouchSound DEF WriteThroughHit
  <2>3. CASE Miss(core, cache_line, is_store)
    <3> DEFINE r1  == L1Result(core, cache_line, is_store)
               l2v == L2AfterVictim(r1)
               fs  == ForwardsStore(core, is_store)
               r2  == L2Result(l2v, cache_line, fs)
               a   == Times(~r2.hit, dm)
               b   == VictimCycles(r1) + MemoryWriteCycles(r2)
               e   == VictimEvictions(r1) + Times(DirtyEviction(r2), 1)
               t   == Times(is_store /\ WritesThrough(config.l1[core]), 1)
               m   == IF r2.hit THEN 1 ELSE 2
    <3>1. SoundLevel(l2v, config.l2) /\ VictimCycles(r1) \in Nat /\ VictimEvictions(r1) \in Nat
      BY VictimSound
    <3>2. a \in Nat /\ b \in Nat /\ e \in Nat /\ t \in 0..1 /\ m \in 0..2
      <4>1. MemoryWriteCycles(r2) \in Nat /\ Times(DirtyEviction(r2), 1) \in Nat /\ a \in Nat
        BY <2>0, TimesNat DEF MemoryWriteCycles
      <4> QED BY <3>1, <4>1 DEF Times
    <3>3. result' = [delay_cycles |-> d1 + d2 + a + b, miss_level |-> m,
                     write_through_writes |-> t, writebacks |-> e,
                     dirty_evictions |-> e, writeback_cycles |-> b]
      BY <2>3 DEF Miss, DemandCycles
    <3>4. fs \in BOOLEAN
      BY InvLevels, ParamsAreGeometry DEF ForwardsStore, WritesThrough
    <3>5. l2' = L2After(l2v, cache_line, fs)
      BY <2>3 DEF Miss
    <3> HIDE DEF l2v, fs, a, b, e, t, m, d1, d2
    <3>6. SoundLevel(l2', config.l2)
      BY <2>0, <3>1, <3>4, <3>5, L2Sound
    <3>7. result' \in Results
      BY <2>0, <3>2, <3>3 DEF Results
    <3> QED BY <2>3, <3>6, <3>7, InvFromLevels, TouchSound DEF Miss
  <2> QED BY <1>2, <2>1, <2>2, <2>3 DEF Access
<1> QED BY <1>1, <1>2 DEF Next

\* The invariant holds throughout.
THEOREM InvHolds == Spec => []Inv
BY InitInv, StepInv, PTL DEF Spec

-----------------------------------------------------------------------------
\* Every variable keeps its type, for any hierarchy the constructor may build: no
\* access asks for a set that does not exist.
THEOREM TypeCorrect == Spec => []TypeOK
BY InvHolds, PTL DEF Inv

\* CacheSet::access never keeps a tag twice nor more entries than ways.
THEOREM WellFormed == Spec => []SetsWellFormed
BY InvHolds, PTL DEF Inv

\* A level configured to write through never holds a dirty line, in any mix of
\* policies between the levels.
THEOREM CleanWriteThrough == Spec => []WriteThroughStaysClean
BY InvHolds, PTL DEF Inv

-----------------------------------------------------------------------------
(* What one access may do to the lines of a level. *)

\* The dirty line an access gives up, if it gives one up.
LostTo(r) == IF DirtyEviction(r) THEN {r.evicted_cache_line} ELSE {}

\* A level loses no dirty line but the one it reports.
LEMMA LevelLoses ==
  ASSUME NEW p \in LevelParams, NEW sets, SoundLevel(sets, p),
         NEW L \in Nat, NEW is_store \in BOOLEAN
  PROVE  LET r == LevelResult(sets, p, L, OptionsFor(is_store, p))
         IN  /\ DirtyLines(sets, p)
                  \ DirtyLines(LevelAfter(sets, p, L, OptionsFor(is_store, p)), p) \subseteq LostTo(r)
             /\ r.hit => ~DirtyEviction(r)
<1> DEFINE r  == LevelResult(sets, p, L, OptionsFor(is_store, p))
           s2 == LevelAfter(sets, p, L, OptionsFor(is_store, p))
<1>1. PolicyEffect(sets, s2, r, p, L, is_store)
  BY PolicyAccess
<1> HIDE DEF r, s2
<1>2. ASSUME NEW M \in DirtyLines(sets, p), M \notin DirtyLines(s2, p)
      PROVE  M \in LostTo(r)
  <2>1. M \in Nat /\ HoldsDirty(sets, p, M) /\ ~HoldsDirty(s2, p, M)
    BY <1>2, LinesAssumption DEF DirtyLines
  <2>2. M # L
    BY <1>1, <2>1 DEF PolicyEffect
  <2>3. r.has_eviction /\ r.evicted_cache_line = M
    BY <1>1, <2>1, <2>2 DEF PolicyEffect
  <2>4. r.evicted_dirty
    BY <1>1, <2>1, <2>3 DEF PolicyEffect
  <2> QED BY <2>3, <2>4 DEF LostTo, DirtyEviction
<1>3. r.hit => ~DirtyEviction(r)
  BY <1>1 DEF PolicyEffect, DirtyEviction
<1> QED BY <1>2, <1>3 DEF r, s2

\* A store fills no level that does not allocate on writes.
LEMMA StoreKeepsResidents ==
  ASSUME NEW p \in LevelParams, NEW sets, SoundLevel(sets, p), NEW L \in Nat, ~p.write_allocate
  PROVE  Residents(LevelAfter(sets, p, L, OptionsFor(TRUE, p)), p) \subseteq Residents(sets, p)
<1> DEFINE r  == LevelResult(sets, p, L, OptionsFor(TRUE, p))
           s2 == LevelAfter(sets, p, L, OptionsFor(TRUE, p))
<1>1. PolicyEffect(sets, s2, r, p, L, TRUE)
  BY PolicyAccess
<1> HIDE DEF r, s2
<1>2. \A M \in Nat : Holds(s2, p, M) => Holds(sets, p, M)
  BY <1>1 DEF PolicyEffect
<1> QED BY <1>2, LinesAssumption DEF Residents, s2

\* At most one line is lost to an access: a set of those is as small as its count.
LEMMA LossCounts ==
  ASSUME NEW b, NEW x, NEW S, S \subseteq (IF b THEN {x} ELSE {})
  PROVE  IsFiniteSet(S) /\ Cardinality(S) \in Nat /\ Cardinality(S) <= Times(b, 1)
<1>1. CASE b
  <2>1. IsFiniteSet({x}) /\ Cardinality({x}) = 1 /\ S \in SUBSET {x}
    BY <1>1, FS_Singleton
  <2>2. IsFiniteSet(S) /\ Cardinality(S) <= 1
    BY <2>1, FS_Subset
  <2> QED BY <1>1, <2>2, FS_CardinalityType DEF Times
<1>2. CASE ~b
  <2>1. S = {}
    BY <1>2
  <2> QED BY <1>2, <2>1, FS_EmptySet DEF Times
<1> QED BY <1>1, <1>2

\* The dirty lines the L1s lost in a step.
L1Losses == UNION {{core} \X (DirtyLines(l1s[core], config.l1[core])
                                \ DirtyLines(l1s'[core], config.l1[core])) : core \in Cores}

\* Only the L1 touched loses a line, and only the one its access reports.
LEMMA L1LossCounts ==
  ASSUME Inv, NEW core \in Cores, NEW L \in Lines, NEW is_store \in BOOLEAN,
         TouchL1(core, L, is_store)
  PROVE  LET r1 == L1Result(core, L, is_store)
         IN  /\ Cardinality(L1Losses) \in Nat
             /\ Cardinality(L1Losses) <= Times(DirtyEviction(r1), 1)
             /\ r1.hit => ~DirtyEviction(r1)
<1> DEFINE r1 == L1Result(core, L, is_store)
           p  == config.l1[core]
<1>1. DirtyLines(l1s[core], p) \ DirtyLines(L1After(core, L, is_store), p) \subseteq LostTo(r1)
      /\ (r1.hit => ~DirtyEviction(r1))
  BY InvLevels, LevelLoses, LinesAssumption DEF L1Result, L1After
<1>2. \A c \in Cores : l1s'[c] = IF c = core THEN L1After(core, L, is_store) ELSE l1s[c]
  BY DEF TouchL1, Inv, TypeOK
<1> HIDE DEF r1
<1>3. ASSUME NEW x \in L1Losses
      PROVE  x \in (IF DirtyEviction(r1) THEN {<<core, r1.evicted_cache_line>>} ELSE {})
  <2>1. PICK c \in Cores : x \in {c} \X (DirtyLines(l1s[c], config.l1[c])
                                           \ DirtyLines(l1s'[c], config.l1[c]))
    BY <1>3 DEF L1Losses
  <2>2. c = core
    BY <1>2, <2>1
  <2>3. PICK y \in DirtyLines(l1s[core], p) \ DirtyLines(L1After(core, L, is_store), p) :
          x = <<core, y>>
    BY <1>2, <2>1, <2>2
  <2>4. y \in LostTo(r1)
    BY <1>1, <2>3
  <2> QED BY <2>3, <2>4 DEF LostTo
<1>4. L1Losses \subseteq (IF DirtyEviction(r1) THEN {<<core, r1.evicted_cache_line>>} ELSE {})
  BY <1>3
<1>5. Cardinality(L1Losses) \in Nat /\ Cardinality(L1Losses) <= Times(DirtyEviction(r1), 1)
  BY <1>4, LossCounts
<1> QED BY <1>1, <1>5 DEF r1

\* One access of the L2 loses at most the line it reports.
LEMMA L2LossCounts ==
  ASSUME Inv, NEW sets, SoundLevel(sets, config.l2), NEW L \in Nat, NEW is_store \in BOOLEAN
  PROVE  LET lost == DirtyLines(sets, config.l2) \ DirtyLines(L2After(sets, L, is_store), config.l2)
         IN  /\ IsFiniteSet(lost) /\ Cardinality(lost) \in Nat
             /\ Cardinality(lost) <= Times(DirtyEviction(L2Result(sets, L, is_store)), 1)
<1> DEFINE r == L2Result(sets, L, is_store)
<1>1. DirtyLines(sets, config.l2) \ DirtyLines(L2After(sets, L, is_store), config.l2)
        \subseteq LostTo(r)
  BY InvLevels, LevelLoses DEF L2Result, L2After
<1> HIDE DEF r
<1> QED BY <1>1, LossCounts DEF LostTo, r

-----------------------------------------------------------------------------
(* The action properties. *)

\* The dirty lines a step takes out of the L2.
L2Losses == DirtyLines(l2, config.l2) \ DirtyLines(l2', config.l2)

\* A step reports every dirty line it loses.
LossesReported == Cardinality(L1Losses) + Cardinality(L2Losses) <= result'.dirty_evictions

\* A hit that the L1 keeps to itself loses no dirty line.
LEMMA AbsorbedReports ==
  ASSUME Inv, NEW core \in Cores, NEW L \in Lines, NEW is_store \in BOOLEAN,
         AbsorbedHit(core, L, is_store)
  PROVE  LossesReported
<1>1. /\ TouchL1(core, L, is_store) /\ L1Result(core, L, is_store).hit
      /\ l2' = l2 /\ result'.dirty_evictions = 0
  BY DEF AbsorbedHit, NoResult
<1>2. Cardinality(L1Losses) = 0
  BY <1>1, L1LossCounts DEF Times
<1>3. Cardinality(L2Losses) = 0
  <2>1. L2Losses = {}
    BY <1>1 DEF L2Losses
  <2> QED BY <2>1, FS_EmptySet
<1> QED BY <1>1, <1>2, <1>3 DEF LossesReported

\* A store that hits and is forwarded loses at most the L2's victim.
LEMMA WriteThroughReports ==
  ASSUME Inv, NEW core \in Cores, NEW L \in Lines, NEW is_store \in BOOLEAN,
         WriteThroughHit(core, L, is_store)
  PROVE  LossesReported
<1> DEFINE r2 == L2Result(l2, L, TRUE)
<1>1. /\ TouchL1(core, L, is_store) /\ L1Result(core, L, is_store).hit
      /\ l2' = L2After(l2, L, TRUE)
      /\ result'.dirty_evictions = Times(DirtyEviction(r2), 1)
  BY DEF WriteThroughHit
<1>2. Cardinality(L1Losses) = 0
  BY <1>1, L1LossCounts DEF Times
<1>3. Cardinality(L2Losses) \in Nat /\ Cardinality(L2Losses) <= Times(DirtyEviction(r2), 1)
  <2>1. SoundLevel(l2, config.l2) /\ L \in Nat
    BY InvLevels, LinesAssumption
  <2> QED BY <1>1, <2>1, L2LossCounts DEF L2Losses
<1> HIDE DEF r2
<1>4. Times(DirtyEviction(r2), 1) \in Nat
  BY TimesNat
<1> QED BY <1>1, <1>2, <1>3, <1>4 DEF LossesReported

\* A miss reports the victim of the L1, what storing it displaces in the L2, and what
\* its own fill displaces there.
LEMMA MissReports ==
  ASSUME Inv, NEW core \in Cores, NEW L \in Lines, NEW is_store \in BOOLEAN,
         Miss(core, L, is_store)
  PROVE  LossesReported
<1> DEFINE r1  == L1Result(core, L, is_store)
           rv  == L2Result(l2, r1.evicted_cache_line, TRUE)
           l2v == L2AfterVictim(r1)
           fs  == ForwardsStore(core, is_store)
           r2  == L2Result(l2v, L, fs)
           lostv == DirtyLines(l2, config.l2) \ DirtyLines(l2v, config.l2)
           lost2 == DirtyLines(l2v, config.l2) \ DirtyLines(L2After(l2v, L, fs), config.l2)
           n1 == Times(DirtyEviction(r1), 1)
           nv == Times(DirtyEviction(rv), 1)
           n2 == Times(DirtyEviction(r2), 1)
<1>1. /\ TouchL1(core, L, is_store)
      /\ l2' = L2After(l2v, L, fs)
      /\ result'.dirty_evictions = VictimEvictions(r1) + n2
  BY DEF Miss
<1>2. VictimEvictions(r1) = IF DirtyEviction(r1) THEN 1 + nv ELSE 0
  BY DEF VictimEvictions, Times
<1>3. n1 \in Nat /\ nv \in Nat /\ n2 \in Nat /\ (n1 = IF DirtyEviction(r1) THEN 1 ELSE 0)
  BY TimesNat DEF Times
<1>4. L \in Nat /\ SoundLevel(l2, config.l2) /\ SoundLevel(l2v, config.l2) /\ fs \in BOOLEAN
  BY InvLevels, VictimSound, LinesAssumption, ParamsAreGeometry DEF ForwardsStore, WritesThrough
<1>5. DirtyEviction(r1) => r1.evicted_cache_line \in Nat
  BY <1>4, InvLevels, AccessResult DEF L1Result
<1>6. Cardinality(L1Losses) \in Nat /\ Cardinality(L1Losses) <= n1
  BY <1>1, L1LossCounts
<1> HIDE DEF r1
<1>7. /\ IsFiniteSet(lostv) /\ Cardinality(lostv) \in Nat
      /\ Cardinality(lostv) <= IF DirtyEviction(r1) THEN nv ELSE 0
  <2>1. CASE DirtyEviction(r1)
    BY <1>4, <1>5, <2>1, L2LossCounts DEF L2AfterVictim
  <2>2. CASE ~DirtyEviction(r1)
    <3>1. lostv = {}
      BY <2>2 DEF L2AfterVictim
    <3> QED BY <2>2, <3>1, FS_EmptySet
  <2> QED BY <2>1, <2>2
<1>8. IsFiniteSet(lost2) /\ Cardinality(lost2) \in Nat /\ Cardinality(lost2) <= n2
  <2> HIDE DEF l2v, fs
  <2> QED BY <1>4, L2LossCounts
<1>9. L2Losses \subseteq lostv \cup lost2
  BY <1>1 DEF L2Losses
<1> HIDE DEF rv, l2v, fs, r2, lostv, lost2, n1, nv, n2
<1>10. /\ IsFiniteSet(lostv \cup lost2) /\ IsFiniteSet(lostv \cap lost2)
       /\ Cardinality(lostv \cup lost2)
            = Cardinality(lostv) + Cardinality(lost2) - Cardinality(lostv \cap lost2)
  BY <1>7, <1>8, FS_Union, FS_Subset
<1>11. Cardinality(lostv \cap lost2) \in Nat
  BY <1>10, FS_CardinalityType
<1>12. /\ IsFiniteSet(L2Losses)
       /\ Cardinality(L2Losses) <= Cardinality(lostv \cup lost2)
  BY <1>9, <1>10, FS_Subset
<1>13. Cardinality(L2Losses) \in Nat
  BY <1>12, FS_CardinalityType
<1>14. Cardinality(L2Losses) <= (IF DirtyEviction(r1) THEN nv ELSE 0) + n2
  BY <1>3, <1>7, <1>8, <1>10, <1>11, <1>12, <1>13
<1> QED BY <1>1, <1>2, <1>3, <1>6, <1>13, <1>14 DEF LossesReported

\* Write traffic is never undercounted: whatever the policies, every dirty copy that
\* leaves the L1 touched or the L2 in an access is among its dirty evictions.
THEOREM EveryDirtyLossReported == Spec => DirtyLossReported
<1>1. ASSUME Inv, [Next]_vars
      PROVE  [LossesReported]_vars
  BY <1>1, AbsorbedReports, WriteThroughReports, MissReports DEF Next, Access
<1>2. ASSUME [LossesReported]_vars
      PROVE  [ Cardinality(UNION {{core} \X (DirtyLines(l1s[core], config.l1[core])
                                        \ DirtyLines(l1s'[core], config.l1[core])) : core \in Cores})
                 + Cardinality(DirtyLines(l2, config.l2) \ DirtyLines(l2', config.l2))
                   <= result'.dirty_evictions ]_vars
  BY <1>2 DEF LossesReported, L1Losses, L2Losses
<1> QED BY InvHolds, <1>1, <1>2, PTL DEF Spec, DirtyLossReported

\* What an access brings into the L1 of its core and into the L2, for every access of any
\* core: StoreMissNeverFills without its brackets.
FillsNothingByStores ==
  LET core == request'.core
      into_l1 == Residents(l1s'[core], config.l1[core]) \ Residents(l1s[core], config.l1[core])
      into_l2 == Residents(l2', config.l2) \ Residents(l2, config.l2)
  IN  /\ request'.is_store /\ ~config.l1[core].write_allocate => into_l1 = {}
      /\ ~config.l2.write_allocate =>
           /\ into_l2 \subseteq into_l1 \cap {request'.cache_line}
           /\ request'.is_store /\ WritesThrough(config.l1[core]) => into_l2 = {}

\* A level takes in at most the line it is asked for.
LEMMA OnlyTheLineEnters ==
  ASSUME NEW p \in LevelParams, NEW sets, SoundLevel(sets, p), NEW L \in Nat,
         NEW is_store \in BOOLEAN
  PROVE  Residents(LevelAfter(sets, p, L, OptionsFor(is_store, p)), p)
           \subseteq Residents(sets, p) \cup {L}
<1> DEFINE r  == LevelResult(sets, p, L, OptionsFor(is_store, p))
           s2 == LevelAfter(sets, p, L, OptionsFor(is_store, p))
<1>1. PolicyEffect(sets, s2, r, p, L, is_store)
  BY PolicyAccess
<1> HIDE DEF r, s2
<1>2. \A M \in Nat : M # L /\ Holds(s2, p, M) => Holds(sets, p, M)
  BY <1>1 DEF PolicyEffect
<1> QED BY <1>2, LinesAssumption DEF Residents, s2

\* A miss brings its line into a level, unless it is a store the level does not allocate for.
LEMMA MissFills ==
  ASSUME NEW p \in LevelParams, NEW sets, SoundLevel(sets, p), NEW L \in Lines,
         NEW is_store \in BOOLEAN, ~is_store \/ p.write_allocate,
         ~LevelResult(sets, p, L, OptionsFor(is_store, p)).hit
  PROVE  L \in Residents(LevelAfter(sets, p, L, OptionsFor(is_store, p)), p)
                 \ Residents(sets, p)
<1> DEFINE r  == LevelResult(sets, p, L, OptionsFor(is_store, p))
           s2 == LevelAfter(sets, p, L, OptionsFor(is_store, p))
<1>1. PolicyEffect(sets, s2, r, p, L, is_store)
  BY LinesAssumption, PolicyAccess
<1>2. ~r.hit /\ L \in Nat
  BY LinesAssumption
<1> HIDE DEF r, s2
<1>3. Holds(s2, p, L) /\ ~Holds(sets, p, L)
  BY <1>1, <1>2 DEF PolicyEffect
<1> QED BY <1>3 DEF Residents, s2

\* No access brings in a line by a store that misses without write-allocate: not by the
\* program's store, not by the one the L1 passes on, and not by the L1's victim.
LEMMA AccessNeverFills ==
  ASSUME Inv, NEW core \in Cores, NEW L \in Lines, NEW is_store \in BOOLEAN,
         Access(core, L, is_store)
  PROVE  FillsNothingByStores
<1> DEFINE into_l1 == Residents(l1s'[core], config.l1[core])
                        \ Residents(l1s[core], config.l1[core])
           into_l2 == Residents(l2', config.l2) \ Residents(l2, config.l2)
           r1      == L1Result(core, L, is_store)
           l2v     == L2AfterVictim(r1)
<1>1. TouchL1(core, L, is_store) /\ L \in Nat
  BY LinesAssumption DEF Access, AbsorbedHit, WriteThroughHit, Miss
<1>2. request'.is_store = is_store /\ request'.core = core /\ request'.cache_line = L
  BY <1>1 DEF TouchL1
<1>3. l1s'[core] = L1After(core, L, is_store)
  BY <1>1 DEF TouchL1, Inv, TypeOK
<1>4. is_store /\ ~config.l1[core].write_allocate => into_l1 = {}
  BY <1>1, <1>3, InvLevels, StoreKeepsResidents DEF L1After
<1>5. ASSUME NEW sets, SoundLevel(sets, config.l2), NEW M \in Nat, ~config.l2.write_allocate
      PROVE  Residents(L2After(sets, M, TRUE), config.l2) \subseteq Residents(sets, config.l2)
  BY <1>5, InvLevels, StoreKeepsResidents DEF L2After
<1>6. ASSUME ~config.l2.write_allocate
      PROVE  /\ into_l2 \subseteq into_l1 \cap {L}
             /\ is_store /\ WritesThrough(config.l1[core]) => into_l2 = {}
  <2>1. CASE AbsorbedHit(core, L, is_store)
    <3>1. into_l2 = {}
      BY <2>1 DEF AbsorbedHit
    <3> QED BY <3>1
  <2>2. CASE WriteThroughHit(core, L, is_store)
    <3>1. into_l2 = {}
      BY <1>1, <1>5, <1>6, <2>2, InvLevels DEF WriteThroughHit
    <3> QED BY <3>1
  <2>3. CASE Miss(core, L, is_store)
    <3>1. l2' = L2After(l2v, L, ForwardsStore(core, is_store))
      BY <2>3 DEF Miss
    <3>2. SoundLevel(l2v, config.l2) /\ SoundLevel(l2, config.l2)
      BY InvLevels, VictimSound
    <3>3. DirtyEviction(r1) => r1.evicted_cache_line \in Nat
      BY <1>1, InvLevels, AccessResult DEF L1Result
    <3>4. Residents(l2v, config.l2) \subseteq Residents(l2, config.l2)
      <4> HIDE DEF r1
      <4> QED BY <1>5, <1>6, <3>2, <3>3 DEF L2AfterVictim
    <3> HIDE DEF l2v
    <3>5. CASE ForwardsStore(core, is_store)
      <4>1. ForwardsStore(core, is_store) = TRUE
        BY <3>5 DEF ForwardsStore
      <4>2. into_l2 = {}
        BY <1>1, <1>5, <1>6, <3>1, <3>2, <3>4, <4>1
      <4> QED BY <4>2
    <3>6. CASE ~ForwardsStore(core, is_store)
      <4>1. into_l2 \subseteq {L}
        BY <1>1, <3>1, <3>2, <3>4, <3>6, InvLevels, OnlyTheLineEnters DEF L2After, ForwardsStore
      <4>2. ~is_store \/ config.l1[core].write_allocate
        BY <3>6, InvLevels DEF ForwardsStore
      <4>3. L \in into_l1
        BY <1>3, <2>3, <4>2, InvLevels, MissFills DEF Miss, L1Result, L1After
      <4>4. ~(is_store /\ WritesThrough(config.l1[core]))
        BY <3>6 DEF ForwardsStore
      <4> QED BY <4>1, <4>3, <4>4
    <3> QED BY <3>5, <3>6
  <2> QED BY <2>1, <2>2, <2>3 DEF Access
<1> QED BY <1>2, <1>4, <1>6 DEF FillsNothingByStores

\* A store that misses loads no line into a level with write_allocate: false, in any mix
\* of policies: an L1 takes in nothing for its core's stores, and the L2 nothing for the
\* stores and the dirty victims that reach it, only the line the L1 then takes in itself.
THEOREM StoreMissesNeverFill == Spec => StoreMissNeverFills
<1>1. ASSUME Inv, [Next]_vars
      PROVE  [FillsNothingByStores]_vars
  BY <1>1, AccessNeverFills DEF Next
<1> QED BY InvHolds, <1>1, PTL DEF Spec, StoreMissNeverFills, FillsNothingByStores

-----------------------------------------------------------------------------
(* The stores that are on their way (StoreFlow). *)

\* The dirty and the resident lines of a level, among all lines there could be.
AllDirty(sets, params) == {L \in Nat : HoldsDirty(sets, params, L)}
OnlyLines(sets, params) == \A L \in Nat : Holds(sets, params, L) => L \in Lines

\* The strengthening: equality instead of two inclusions, and no level holds a
\* line that was never accessed (a victim is one of Lines).
FlowInv ==
  /\ Inv
  /\ undelivered = [core \in Cores |-> AllDirty(l1s[core], config.l1[core])]
  /\ unwritten = AllDirty(l2, config.l2)
  /\ \A core \in Cores : OnlyLines(l1s[core], config.l1[core])
  /\ OnlyLines(l2, config.l2)

-----------------------------------------------------------------------------
\* One access of the L2: what L2Flow leaves pending is what is dirty afterwards,
\* and the L2 holds no line it was not asked for.
LEMMA L2FlowExact ==
  ASSUME Inv, NEW sets, SoundLevel(sets, config.l2), OnlyLines(sets, config.l2),
         NEW L \in Lines, NEW is_store \in BOOLEAN
  PROVE  /\ L2Flow(AllDirty(sets, config.l2), L2Result(sets, L, is_store), L, is_store)
              = AllDirty(L2After(sets, L, is_store), config.l2)
         /\ OnlyLines(L2After(sets, L, is_store), config.l2)
         /\ SoundLevel(L2After(sets, L, is_store), config.l2)
<1> DEFINE p  == config.l2
           r  == LevelResult(sets, p, L, OptionsFor(is_store, p))
           s2 == LevelAfter(sets, p, L, OptionsFor(is_store, p))
<1>0. r = L2Result(sets, L, is_store) /\ s2 = L2After(sets, L, is_store)
  BY DEF L2Result, L2After
<1>1. p \in LevelParams /\ L \in Nat /\ SoundLevel(sets, p) /\ OnlyLines(sets, p)
  BY InvLevels, LinesAssumption
<1>2. PolicyEffect(sets, s2, r, p, L, is_store)
  BY <1>1, PolicyAccess
<1> HIDE DEF p, r, s2
<1>3. WritesThrough(p) => ~HoldsDirty(sets, p, L)
  BY <1>1, CleanMeansNoDirtyLine DEF SoundLevel
<1>4. HoldsDirty(sets, p, L) => r.hit
  BY <1>2, DirtyIsResident DEF PolicyEffect
<1>5. DirtyEviction(r) <=> r.has_eviction /\ r.evicted_dirty
  BY DEF DirtyEviction
<1>6. PassesL2(r) <=> WritesThrough(p) \/ (~r.hit /\ ~p.write_allocate)
  BY DEF PassesL2, p
<1>7. ASSUME NEW M
      PROVE  M \in L2Flow(AllDirty(sets, p), r, L, is_store) <=> M \in AllDirty(s2, p)
  <2>1. M \in L2Flow(AllDirty(sets, p), r, L, is_store)
          <=> /\ M \in AllDirty(sets, p) \/ (is_store /\ M = L)
              /\ ~(DirtyEviction(r) /\ M = r.evicted_cache_line)
              /\ ~(is_store /\ PassesL2(r) /\ M = L)
    BY DEF L2Flow, SetIf
  <2>2. CASE M = L
    BY <1>1, <1>2, <1>3, <1>4, <1>5, <1>6, <2>1, <2>2 DEF AllDirty, PolicyEffect
  <2>3. CASE M # L
    BY <1>2, <1>5, <2>1, <2>3 DEF AllDirty, PolicyEffect
  <2> QED BY <2>2, <2>3
<1>8. L2Flow(AllDirty(sets, p), r, L, is_store) = AllDirty(s2, p)
  BY <1>7
<1>9. OnlyLines(s2, p)
  BY <1>1, <1>2 DEF OnlyLines, PolicyEffect
<1> QED BY <1>0, <1>1, <1>8, <1>9, L2Sound DEF p

\* The L1 of the core, after an access that hit or missed.
LEMMA L1Flow ==
  ASSUME Inv, NEW core \in Cores, OnlyLines(l1s[core], config.l1[core]),
         NEW L \in Lines, NEW is_store \in BOOLEAN
  PROVE  LET r  == L1Result(core, L, is_store)
             s2 == L1After(core, L, is_store)
             p  == config.l1[core]
             D  == AllDirty(l1s[core], p)
         IN  /\ OnlyLines(s2, p)
             /\ DirtyEviction(r) => r.evicted_cache_line \in Lines
             /\ r.hit /\ ~(is_store /\ WritesThrough(p)) =>
                  AllDirty(s2, p) = D \cup SetIf(is_store, L)
             /\ r.hit /\ is_store /\ WritesThrough(p) => AllDirty(s2, p) = D \ {L}
             /\ ~r.hit =>
                  AllDirty(s2, p) =
                    (D \cup SetIf(is_store, L))
                      \ (SetIf(DirtyEviction(r), r.evicted_cache_line)
                            \cup SetIf(ForwardsStore(core, is_store), L))
<1> DEFINE p  == config.l1[core]
           sets == l1s[core]
           D  == AllDirty(sets, p)
           r  == LevelResult(sets, p, L, OptionsFor(is_store, p))
           s2 == LevelAfter(sets, p, L, OptionsFor(is_store, p))
<1>0. r = L1Result(core, L, is_store) /\ s2 = L1After(core, L, is_store)
  BY DEF L1Result, L1After
<1>1. p \in LevelParams /\ L \in Nat /\ SoundLevel(sets, p) /\ OnlyLines(sets, p)
  BY InvLevels, LinesAssumption
<1>2. PolicyEffect(sets, s2, r, p, L, is_store)
  BY <1>1, PolicyAccess
<1>5. ForwardsStore(core, is_store) <=> is_store /\ (WritesThrough(p) \/ ~p.write_allocate)
  BY DEF ForwardsStore
<1> HIDE DEF p, sets, r, s2
<1>3. WritesThrough(p) => \A M \in Nat : ~HoldsDirty(sets, p, M)
  BY <1>1, CleanMeansNoDirtyLine DEF SoundLevel
<1>4. HoldsDirty(sets, p, L) => r.hit
  BY <1>2, DirtyIsResident DEF PolicyEffect
<1>6. DirtyEviction(r) <=> r.has_eviction /\ r.evicted_dirty
  BY DEF DirtyEviction
<1>7. p.write_allocate \in BOOLEAN
  BY <1>1, ParamsAreGeometry
<1>8. OnlyLines(s2, p) /\ (DirtyEviction(r) => r.evicted_cache_line \in Lines)
  BY <1>1, <1>2, <1>6 DEF OnlyLines, PolicyEffect
<1>9. ASSUME r.hit, ~(is_store /\ WritesThrough(p))
      PROVE  AllDirty(s2, p) = D \cup SetIf(is_store, L)
  <2> SUFFICES ASSUME NEW M PROVE M \in AllDirty(s2, p) <=> M \in D \cup SetIf(is_store, L)
    OBVIOUS
  <2>1. ~r.has_eviction
    BY <1>2, <1>9 DEF PolicyEffect
  <2> QED BY <1>1, <1>2, <1>9, <2>1 DEF AllDirty, SetIf, PolicyEffect
<1>10. ASSUME r.hit, is_store, WritesThrough(p)
       PROVE  AllDirty(s2, p) = D \ {L}
  BY <1>2, <1>3, <1>10 DEF AllDirty, PolicyEffect
<1>11. ASSUME ~r.hit
       PROVE  AllDirty(s2, p) =
                (D \cup SetIf(is_store, L))
                  \ (SetIf(DirtyEviction(r), r.evicted_cache_line)
                        \cup SetIf(ForwardsStore(core, is_store), L))
  <2> SUFFICES ASSUME NEW M
               PROVE  M \in AllDirty(s2, p)
                        <=> /\ M \in D \/ (is_store /\ M = L)
                            /\ ~(DirtyEviction(r) /\ M = r.evicted_cache_line)
                            /\ ~(ForwardsStore(core, is_store) /\ M = L)
    BY DEF SetIf
  <2>2. CASE M = L
    BY <1>1, <1>2, <1>4, <1>5, <1>6, <1>7, <1>11, <2>2 DEF AllDirty, PolicyEffect
  <2>3. CASE M # L
    BY <1>2, <1>6, <2>3 DEF AllDirty, PolicyEffect
  <2> QED BY <2>2, <2>3
<1> QED BY <1>0, <1>8, <1>9, <1>10, <1>11 DEF p, sets

-----------------------------------------------------------------------------
(* The invariant. *)

\* The initial states satisfy the invariant: nothing was stored yet.
LEMMA FlowInitInv == FlowInit => FlowInv
<1> SUFFICES ASSUME FlowInit PROVE FlowInv
  OBVIOUS
<1>1. Inv
  BY InitInv DEF FlowInit
<1>2. \A p \in LevelParams :
        /\ AllDirty(EmptyLevel(p), p) = {}
        /\ OnlyLines(EmptyLevel(p), p)
  BY ParamsAreGeometry, EmptyLevelFacts DEF AllDirty, OnlyLines
<1>3. config.l2 \in LevelParams /\ \A core \in Cores : config.l1[core] \in LevelParams
  BY <1>1, InvLevels
<1> QED BY <1>1, <1>2, <1>3 DEF FlowInit, Init, FlowInv

\* Every step of the flow is a step of the hierarchy.
LEMMA FlowStepIsStep ==
  ASSUME [FlowNext]_flowVars
  PROVE  [Next]_vars
<1>1. CASE FlowNext
  <2>1. PICK core \in Cores, L \in Lines, is_store \in BOOLEAN :
          \/ FlowAbsorbed(core, L, is_store)
          \/ FlowWriteThrough(core, L, is_store)
          \/ FlowMiss(core, L, is_store)
    BY <1>1 DEF FlowNext
  <2>2. Access(core, L, is_store)
    BY <2>1 DEF FlowAbsorbed, FlowWriteThrough, FlowMiss, Access
  <2> QED BY <2>2 DEF Next
<1>2. CASE UNCHANGED flowVars
  BY <1>2 DEF flowVars
<1> QED BY <1>1, <1>2

\* The history variables only watch: with them the hierarchy is still the hierarchy,
\* so whatever holds of Spec holds of every behaviour of FlowSpec.
THEOREM FlowIsHierarchy == FlowSpec => Spec
<1>1. FlowInit => Init
  BY DEF FlowInit
<1> QED BY <1>1, FlowStepIsStep, PTL DEF FlowSpec, Spec

\* So every step of the flow keeps Inv.
LEMMA FlowStepKeepsInv ==
  ASSUME Inv, [FlowNext]_flowVars
  PROVE  Inv'
BY FlowStepIsStep, StepInv

\* The L1s after a step that touches one of them, and what is undelivered then.
LEMMA FlowL1s ==
  ASSUME FlowInv, NEW core \in Cores, NEW L \in Lines, NEW is_store \in BOOLEAN,
         TouchL1(core, L, is_store),
         undelivered' = [undelivered EXCEPT
                           ![core] = AllDirty(L1After(core, L, is_store), config.l1[core])]
  PROVE  /\ undelivered' = [c \in Cores |-> AllDirty(l1s'[c], config'.l1[c])]
         /\ \A c \in Cores : OnlyLines(l1s'[c], config'.l1[c])
<1>1. /\ l1s' = [l1s EXCEPT ![core] = L1After(core, L, is_store)]
      /\ config' = config
      /\ DOMAIN l1s = Cores
  BY DEF TouchL1, FlowInv, Inv, TypeOK
<1>2. undelivered = [c \in Cores |-> AllDirty(l1s[c], config.l1[c])]
      /\ \A c \in Cores : OnlyLines(l1s[c], config.l1[c])
  BY DEF FlowInv
<1>3. OnlyLines(L1After(core, L, is_store), config.l1[core])
  BY <1>2, L1Flow DEF FlowInv
<1>4. \A c \in Cores : l1s'[c] = IF c = core THEN L1After(core, L, is_store) ELSE l1s[c]
  BY <1>1
<1> QED BY <1>1, <1>2, <1>3, <1>4

\* Every access preserves the invariant, whichever of its three outcomes it has.
LEMMA FlowStepInv == FlowInv /\ [FlowNext]_flowVars => FlowInv'
<1> SUFFICES ASSUME FlowInv, [FlowNext]_flowVars PROVE FlowInv'
  OBVIOUS
<1>1. Inv /\ Inv'
  BY FlowStepKeepsInv DEF FlowInv
<1>2. /\ undelivered = [core \in Cores |-> AllDirty(l1s[core], config.l1[core])]
      /\ unwritten = AllDirty(l2, config.l2)
      /\ \A core \in Cores : OnlyLines(l1s[core], config.l1[core])
      /\ OnlyLines(l2, config.l2)
      /\ SoundLevel(l2, config.l2)
  BY <1>1, InvLevels DEF FlowInv
<1>3. CASE UNCHANGED flowVars
  BY <1>1, <1>2, <1>3 DEF flowVars, vars, FlowInv
<1>4. ASSUME NEW core \in Cores, NEW L \in Lines, NEW is_store \in BOOLEAN,
             FlowAbsorbed(core, L, is_store)
      PROVE  FlowInv'
  <2>1. undelivered' = [undelivered EXCEPT
                          ![core] = AllDirty(L1After(core, L, is_store), config.l1[core])]
    <3> DEFINE D == AllDirty(l1s[core], config.l1[core])
    <3>1. AllDirty(L1After(core, L, is_store), config.l1[core]) = D \cup SetIf(is_store, L)
      BY <1>1, <1>2, <1>4, L1Flow DEF FlowAbsorbed, AbsorbedHit
    <3>2. undelivered' = [undelivered EXCEPT ![core] = undelivered[core] \cup SetIf(is_store, L)]
      BY <1>4 DEF FlowAbsorbed
    <3>3. undelivered[core] = D
      BY <1>2
    <3> QED BY <3>1, <3>2, <3>3
  <2>2. unwritten' = unwritten /\ l2' = l2 /\ config' = config
    BY <1>4 DEF FlowAbsorbed, AbsorbedHit, TouchL1
  <2>3. TouchL1(core, L, is_store)
    BY <1>4 DEF FlowAbsorbed, AbsorbedHit
  <2>4. /\ undelivered' = [c \in Cores |-> AllDirty(l1s'[c], config'.l1[c])]
        /\ \A c \in Cores : OnlyLines(l1s'[c], config'.l1[c])
    BY <2>1, <2>3, FlowL1s
  <2> QED BY <1>1, <1>2, <2>2, <2>4 DEF FlowInv
<1>5. ASSUME NEW core \in Cores, NEW L \in Lines, NEW is_store \in BOOLEAN,
             FlowWriteThrough(core, L, is_store)
      PROVE  FlowInv'
  <2>1. undelivered' = [undelivered EXCEPT
                          ![core] = AllDirty(L1After(core, L, is_store), config.l1[core])]
    <3> DEFINE D == AllDirty(l1s[core], config.l1[core])
    <3>1. AllDirty(L1After(core, L, is_store), config.l1[core]) = D \ {L}
      <4>1. L1Result(core, L, is_store).hit /\ is_store /\ WritesThrough(config.l1[core])
        BY <1>5 DEF FlowWriteThrough, WriteThroughHit
      <4>2. Inv /\ OnlyLines(l1s[core], config.l1[core])
        BY <1>1, <1>2
      <4>3. L1Result(core, L, is_store).hit /\ is_store /\ WritesThrough(config.l1[core])
              => AllDirty(L1After(core, L, is_store), config.l1[core]) = D \ {L}
        BY ONLY <4>2, L1Flow, is_store \in BOOLEAN, L \in Lines, core \in Cores, ZenonT(40)
      <4> QED BY <4>1, <4>3
    <3>2. undelivered' = [undelivered EXCEPT ![core] = undelivered[core] \ {L}]
      BY <1>5 DEF FlowWriteThrough
    <3>3. undelivered[core] = D
      BY <1>2
    <3> QED BY <3>1, <3>2, <3>3
  <2>2. config' = config /\ l2' = L2After(l2, L, TRUE)
        /\ unwritten' = L2Flow(unwritten, L2Result(l2, L, TRUE), L, TRUE)
    BY <1>5 DEF FlowWriteThrough, WriteThroughHit, TouchL1
  <2>3. unwritten' = AllDirty(l2', config'.l2) /\ OnlyLines(l2', config'.l2)
    BY <1>1, <1>2, <2>2, L2FlowExact
  <2>4. TouchL1(core, L, is_store)
    BY <1>5 DEF FlowWriteThrough, WriteThroughHit
  <2>5. /\ undelivered' = [c \in Cores |-> AllDirty(l1s'[c], config'.l1[c])]
        /\ \A c \in Cores : OnlyLines(l1s'[c], config'.l1[c])
    BY <2>1, <2>4, FlowL1s
  <2> QED BY <1>1, <1>2, <2>3, <2>5 DEF FlowInv
<1>6. ASSUME NEW core \in Cores, NEW L \in Lines, NEW is_store \in BOOLEAN,
             FlowMiss(core, L, is_store)
      PROVE  FlowInv'
  <2> DEFINE r1  == L1Result(core, L, is_store)
             fs  == ForwardsStore(core, is_store)
             l2v == L2AfterVictim(r1)
             uv  == IF DirtyEviction(r1)
                    THEN L2Flow(unwritten, L2Result(l2, r1.evicted_cache_line, TRUE),
                                r1.evicted_cache_line, TRUE)
                    ELSE unwritten
  <2>1. undelivered' = [undelivered EXCEPT
                          ![core] = AllDirty(L1After(core, L, is_store), config.l1[core])]
    <3> DEFINE D    == AllDirty(l1s[core], config.l1[core])
               sent == SetIf(DirtyEviction(r1), r1.evicted_cache_line) \cup SetIf(fs, L)
    <3>1. AllDirty(L1After(core, L, is_store), config.l1[core])
            = (D \cup SetIf(is_store, L)) \ sent
      BY <1>1, <1>2, <1>6, L1Flow DEF FlowMiss, Miss
    <3>2. undelivered' =
            [undelivered EXCEPT ![core] = (undelivered[core] \cup SetIf(is_store, L)) \ sent]
      BY <1>6 DEF FlowMiss
    <3>3. undelivered[core] = D
      BY <1>2
    <3> QED BY <3>1, <3>2, <3>3
  <2>2. config' = config /\ l2' = L2After(l2v, L, fs)
        /\ unwritten' = L2Flow(uv, L2Result(l2v, L, fs), L, fs)
    BY <1>6 DEF FlowMiss, Miss, TouchL1
  <2>3. DirtyEviction(r1) => r1.evicted_cache_line \in Lines
    BY <1>1, <1>2, L1Flow
  <2>4. fs \in BOOLEAN
    BY <1>1, InvLevels, ParamsAreGeometry DEF ForwardsStore, WritesThrough
  <2> HIDE DEF r1, fs
  <2>5. uv = AllDirty(l2v, config.l2) /\ OnlyLines(l2v, config.l2) /\ SoundLevel(l2v, config.l2)
    BY <1>1, <1>2, <2>3, L2FlowExact DEF L2AfterVictim
  <2> HIDE DEF l2v, uv
  <2>6. unwritten' = AllDirty(l2', config'.l2) /\ OnlyLines(l2', config'.l2)
    BY <1>1, <2>2, <2>4, <2>5, L2FlowExact
  <2>7. TouchL1(core, L, is_store)
    BY <1>6 DEF FlowMiss, Miss
  <2>8. /\ undelivered' = [c \in Cores |-> AllDirty(l1s'[c], config'.l1[c])]
        /\ \A c \in Cores : OnlyLines(l1s'[c], config'.l1[c])
    BY <2>1, <2>7, FlowL1s
  <2> QED BY <1>1, <1>2, <2>6, <2>8 DEF FlowInv
<1> QED BY <1>3, <1>4, <1>5, <1>6 DEF FlowNext

\* The invariant holds throughout.
THEOREM FlowInvHolds == FlowSpec => []FlowInv
BY FlowInitInv, FlowStepInv, PTL DEF FlowSpec

-----------------------------------------------------------------------------
\* Only lines the cores access are ever dirty.
LEMMA DirtyAreLines ==
  ASSUME NEW sets, NEW params, OnlyLines(sets, params)
  PROVE  AllDirty(sets, params) = DirtyLines(sets, params)
BY DirtyIsResident, LinesAssumption DEF AllDirty, OnlyLines, DirtyLines

\* What the runs check follows from the invariant.
LEMMA FlowInvGives == FlowInv => FlowTypeOK /\ StoresNotLost /\ DirtyMeansPending
<1> SUFFICES ASSUME FlowInv PROVE FlowTypeOK /\ StoresNotLost /\ DirtyMeansPending
  OBVIOUS
<1>1. /\ unwritten = DirtyLines(l2, config.l2)
      /\ undelivered = [core \in Cores |-> DirtyLines(l1s[core], config.l1[core])]
  BY DirtyAreLines DEF FlowInv
<1>2. TypeOK
  BY DEF FlowInv, Inv
<1> QED BY <1>1, <1>2 DEF FlowTypeOK, StoresNotLost, DirtyMeansPending, DirtyLines

\* The type of the hierarchy with its history variables.
THEOREM FlowTypeCorrect == FlowSpec => []FlowTypeOK
BY FlowInvHolds, FlowInvGives, PTL

\* No store is lost on its way to memory, whatever the mix of write policies,
\* geometries and cores: forwarded stores, victims written back and lines given
\* up by either level.
THEOREM NoStoreLost == FlowSpec => []StoresNotLost
BY FlowInvHolds, FlowInvGives, PTL

\* No dirty bit is spurious: only data the level below has not seen is ever
\* written back.
THEOREM NoSpuriousDirty == FlowSpec => []DirtyMeansPending
BY FlowInvHolds, FlowInvGives, PTL

-----------------------------------------------------------------------------
(* The inductive invariant of the simulation. *)

\* The counters of a miss, by type and by operation.
MissCounters == {"Cold", "Capacity", "Conflict", "load", "store"}

\* A counter map has no zeros.
IsCounts(map) == map \in [DOMAIN map -> Nat \ {0}]

\* The counters are numbers.
CountersTyped ==
  /\ DOMAIN stats = MissCounters \cup {"by_object"}
  /\ \A n \in MissCounters : stats[n] \in Nat
  /\ IsCounts(stats.by_object)
  /\ DOMAIN attribution = {"inclusive", "exclusive", "objects", "load", "store"}
  /\ attribution.load \in Nat /\ attribution.store \in Nat
  /\ IsCounts(attribution.inclusive) /\ IsCounts(attribution.exclusive)
  /\ totals \in [Totals -> Nat] /\ traffic \in [Traffic -> Nat]
  /\ \A name \in DOMAIN cache_stats.objects :
       cache_stats.objects[name] \in [ObjectCounters -> Nat]

\* The fields of a classifier.
ClassifierFields == {"fa_capacity", "fa_lru", "fa_map", "ever_seen"}

\* Classifiers are the cores' and have the size of their L1.
ClassifiersTyped ==
  /\ DOMAIN classifiers \subseteq Cores
  /\ \A core \in DOMAIN classifiers :
       /\ DOMAIN classifiers[core] = ClassifierFields
       /\ classifiers[core].fa_capacity = l1_lines[core]

\* What a core's L1 holds its classifier has seen.
HeldIsSeen ==
  \A core \in Cores : \A line \in Nat :
    Holds(l1s[core], config.l1[core], line) =>
      core \in DOMAIN classifiers /\ line \in classifiers[core].ever_seen

\* There is a row for every object that missed.
RowsCoverMisses == DOMAIN stats.by_object \subseteq DOMAIN cache_stats.objects

\* A map that counts finitely much, whose largest count max_element finds.
Countable(bag) == IsFiniteSet(CountedIn(bag)) /\ (bag = << >> \/ Leaders(bag) # {})

\* The shadow c has the lines of the set, in the opposite order.
Mirrors(Tag, c, entries) ==
  /\ c.fa_lru \in Seq(Tag) /\ Len(c.fa_lru) = Len(entries)
  /\ \A i \in 1..Len(entries) : c.fa_lru[Len(entries) + 1 - i] = entries[i].tag
  /\ c.fa_map = TagsOf(entries)

\* Every L1 that can mirror its shadow does.
ShadowsMirror ==
  \A core \in DOMAIN classifiers : Mirrored(core) => Mirrors(Nat, classifiers[core], l1s[core][0])

\* The inductive invariant.
SimInv ==
  /\ Inv
  /\ CountersTyped /\ ClassifiersTyped
  /\ HeldIsSeen /\ IsFiniteSet(Footprint) /\ ColdIsFootprint
  /\ RowsCoverMisses /\ Countable(stats.by_object) /\ IsFiniteSet(CountedIn(attribution.exclusive))
  /\ ReportsAgree /\ RegionsNest
  /\ CyclesAddUp
  /\ ShadowsMirror /\ FullyAssociativeHasNoConflict

-----------------------------------------------------------------------------
(* What one event does. *)

\* The access misses its L1.
Missed == result'.miss_level >= 1

\* The type of miss the event is, if it is one.
MissedAs(e) == MissType(ClassifierFor(e.core_id), e.cache_line, Missed)

\* An event is an access of the hierarchy, which misses when the L1 does not hold
\* the line.
LEMMA EventFacts ==
  ASSUME Inv, NEW e \in Events, Simulate(e)
  PROVE  /\ e.core_id \in Cores /\ e.cache_line \in Lines /\ e.cache_line \in Nat
         /\ e.op \in Ops /\ (e.op = "store") \in BOOLEAN
         /\ Access(e.core_id, e.cache_line, e.op = "store")
         /\ Inv'
         /\ config' = config /\ l1_lines' = l1_lines
         /\ result' \in Results /\ result'.miss_level \in 0..2
         /\ Missed <=> ~Holds(l1s[e.core_id], config.l1[e.core_id], e.cache_line)
<1> DEFINE core == e.core_id
           L    == e.cache_line
           st   == e.op = "store"
<1>1. core \in Cores /\ L \in Lines /\ L \in Nat /\ e.op \in Ops /\ st \in BOOLEAN
  BY EventsAssumption, LinesAssumption
<1>2. Access(core, L, st) /\ l1_lines' = l1_lines
  BY DEF Simulate
<1>3. Next
  BY <1>1, <1>2 DEF Next
<1>4. Inv'
  BY <1>3, StepInv
<1>5. result' \in Results /\ config' = config
  BY <1>2, <1>4 DEF Inv, TypeOK, Access, AbsorbedHit, WriteThroughHit, Miss, TouchL1
<1>6. result'.miss_level \in 0..2
  BY <1>5 DEF Results
<1>7. L1Result(core, L, st).hit <=> Holds(l1s[core], config.l1[core], L)
  <2>1. config.l1[core] \in LevelParams /\ SoundLevel(l1s[core], config.l1[core])
    BY <1>1, InvLevels
  <2> QED BY <1>1, <2>1, PolicyAccess DEF PolicyEffect, L1Result
<1>8. Missed <=> ~L1Result(core, L, st).hit
  <2>1. CASE AbsorbedHit(core, L, st)
    BY <2>1 DEF AbsorbedHit, Missed, NoResult
  <2>2. CASE WriteThroughHit(core, L, st)
    BY <2>2 DEF WriteThroughHit, Missed
  <2>3. CASE Miss(core, L, st)
    <3>1. result'.miss_level \in {1, 2} /\ ~L1Result(core, L, st).hit
      BY <2>3 DEF Miss
    <3> QED BY <3>1 DEF Missed
  <2> QED BY <1>2, <2>1, <2>2, <2>3 DEF Access
<1> QED BY <1>1, <1>2, <1>4, <1>5, <1>6, <1>7, <1>8

\* The levels of an access are counted once each (record_access).
LEMMA LevelCounts ==
  ASSUME CountersTyped, NEW e \in Events, Simulate(e), result'.miss_level \in 0..2
  PROVE  /\ totals' \in [Totals -> Nat]
         /\ totals'["total_accesses"] = totals["total_accesses"] + 1
         /\ totals'["l1_hits"] = totals["l1_hits"] + Times(~Missed, 1)
         /\ totals'["l1_misses"] = totals["l1_misses"] + Times(Missed, 1)
         /\ totals'["l2_hits"] = totals["l2_hits"] + Times(result'.miss_level = 1, 1)
         /\ totals'["memory_accesses"] = totals["memory_accesses"] + Times(result'.miss_level = 2, 1)
<1> DEFINE names == TotalsOf(e.op = "store", result'.miss_level)
<1>1. totals \in [Totals -> Nat]
  BY DEF CountersTyped
<1>2. totals' = Bump(totals, names)
  BY DEF Simulate, RecordAccess, totals
<1>3. /\ "total_accesses" \in names
      /\ "l1_hits" \in names <=> ~Missed
      /\ "l1_misses" \in names <=> Missed
      /\ "l2_hits" \in names <=> result'.miss_level = 1
      /\ "memory_accesses" \in names <=> result'.miss_level = 2
  BY DEF TotalsOf, Missed
<1> HIDE DEF names
<1>4. \A n \in Totals : totals'[n] = totals[n] + (IF n \in names THEN 1 ELSE 0) /\ totals'[n] \in Nat
  BY <1>1, <1>2 DEF Bump
<1>5. totals' \in [Totals -> Nat]
  BY <1>1, <1>2, <1>4 DEF Bump
<1> QED BY <1>3, <1>4, <1>5 DEF Totals, Times

\* A miss adds one to its type, to its operation and to its object; a hit counts
\* in neither table.
LEMMA MissCounts ==
  ASSUME CountersTyped, NEW e \in Events, Simulate(e), e.op \in Ops
  PROVE  /\ DOMAIN stats' = DOMAIN stats
         /\ \A n \in MissCounters :
              /\ stats[n] \in Nat /\ stats'[n] \in Nat
              /\ stats'[n] = stats[n] + Times(Missed /\ n \in {e.op, MissedAs(e)}, 1)
         /\ stats'.by_object = IF Missed THEN CountOne(stats.by_object, e.object_name)
                               ELSE stats.by_object
         /\ Missed => MissedAs(e) \in MissTypes
<1>1. /\ DOMAIN stats = MissCounters \cup {"by_object"}
      /\ \A n \in MissCounters : stats[n] \in Nat
  BY DEF CountersTyped
<1>2. stats' = IF Missed THEN CountMiss(stats, e, MissedAs(e)) ELSE stats
  BY DEF Simulate, Missed, MissedAs
<1>3. (IF e.op = "store" THEN "store" ELSE "load") = e.op
  BY DEF Ops
<1>4. Missed => MissedAs(e) \in MissTypes
  BY DEF MissedAs, MissType, MissTypes
<1>5. CASE Missed
  <2>1. stats' = [n \in DOMAIN stats |->
                    IF n = "by_object" THEN CountOne(stats.by_object, e.object_name)
                    ELSE stats[n] + IF n \in {e.op, MissedAs(e)} THEN 1 ELSE 0]
    BY <1>2, <1>3, <1>5 DEF CountMiss
  <2> QED BY <1>1, <1>4, <1>5, <2>1 DEF MissCounters, Times
<1>6. CASE ~Missed
  BY <1>1, <1>2, <1>6 DEF Times
<1> QED BY <1>5, <1>6

-----------------------------------------------------------------------------
(* The counter maps. *)

\* A key counts a number, and counts when the map has it.
LEMMA CountsAreNumbers ==
  ASSUME NEW B, IsCounts(B), NEW x
  PROVE  /\ CountOf(B, x) \in Nat
         /\ x \in DOMAIN B <=> CountOf(B, x) > 0
BY DEF IsCounts, CountOf

\* Counting x once more changes no other counter.
LEMMA CountOneCounts ==
  ASSUME NEW B, IsCounts(B), NEW x
  PROVE  /\ IsCounts(CountOne(B, x))
         /\ DOMAIN CountOne(B, x) = DOMAIN B \cup {x}
         /\ \A y : CountOf(CountOne(B, x), y) = CountOf(B, y) + (IF y = x THEN 1 ELSE 0)
<1>1. /\ DOMAIN CountOne(B, x) = DOMAIN B \cup {x}
      /\ \A y \in DOMAIN B \cup {x} :
           CountOne(B, x)[y] = (IF y \in DOMAIN B THEN B[y] ELSE 0) + (IF y = x THEN 1 ELSE 0)
  BY DEF CountOne, Put, CountOf, IsCounts
<1>2. \A y \in DOMAIN B \cup {x} : CountOne(B, x)[y] \in Nat \ {0}
  BY <1>1 DEF IsCounts
<1>3. CountOne(B, x) = [y \in DOMAIN CountOne(B, x) |-> CountOne(B, x)[y]]
  BY DEF CountOne, Put
<1>4. IsCounts(CountOne(B, x))
  BY <1>1, <1>2, <1>3 DEF IsCounts
<1> QED BY <1>1, <1>4 DEF CountOf, IsCounts

\* What was counted is one more.
LEMMA CountOneMore ==
  ASSUME NEW B, IsCounts(B), NEW x, IsFiniteSet(CountedIn(B))
  PROVE  /\ IsFiniteSet(CountedIn(CountOne(B, x)))
         /\ Cardinality(CountedIn(B)) \in Nat
         /\ Cardinality(CountedIn(CountOne(B, x))) = Cardinality(CountedIn(B)) + 1
<1> DEFINE A == CountOne(B, x)
           new == <<x, CountOf(B, x) + 1>>
<1>1. /\ DOMAIN A = DOMAIN B \cup {x}
      /\ \A y : CountOf(A, y) = CountOf(B, y) + (IF y = x THEN 1 ELSE 0)
      /\ IsCounts(A)
  BY CountOneCounts
<1>2. ASSUME NEW C, IsCounts(C), NEW p
      PROVE  p \in CountedIn(C) <=> \E y \in DOMAIN C : \E n \in 1..CountOf(C, y) : p = <<y, n>>
  BY DEF CountedIn, CountOf
<1>3. \A y : CountOf(B, y) \in Nat /\ (y \in DOMAIN B <=> CountOf(B, y) > 0)
  BY CountsAreNumbers
<1> HIDE DEF A
<1>4. new \notin CountedIn(B)
  BY <1>2, <1>3
<1>5. CountedIn(A) = CountedIn(B) \cup {new}
  <2>1. ASSUME NEW p \in CountedIn(A)
        PROVE  p \in CountedIn(B) \cup {new}
    <3>1. PICK y \in DOMAIN A : \E n \in 1..CountOf(A, y) : p = <<y, n>>
      BY <1>1, <1>2
    <3>2. PICK n \in 1..CountOf(A, y) : p = <<y, n>>
      BY <3>1
    <3>3. n \in 1..CountOf(B, y) \/ p = new
      BY <1>1, <1>3, <3>2
    <3>4. n \in 1..CountOf(B, y) => y \in DOMAIN B
      BY <1>3
    <3> QED BY <1>2, <3>2, <3>3, <3>4
  <2>2. ASSUME NEW p \in CountedIn(B)
        PROVE  p \in CountedIn(A)
    <3>1. PICK y \in DOMAIN B : \E n \in 1..CountOf(B, y) : p = <<y, n>>
      BY <1>2
    <3>2. PICK n \in 1..CountOf(B, y) : p = <<y, n>>
      BY <3>1
    <3>3. y \in DOMAIN A /\ n \in 1..CountOf(A, y)
      BY <1>1, <1>3
    <3> QED BY <1>1, <1>2, <3>2, <3>3
  <2>3. new \in CountedIn(A)
    <3>1. x \in DOMAIN A /\ CountOf(B, x) + 1 \in 1..CountOf(A, x)
      BY <1>1, <1>3
    <3> QED BY <1>1, <1>2, <3>1
  <2> QED BY <2>1, <2>2, <2>3
<1> QED BY <1>4, <1>5, FS_AddElement, FS_CardinalityType DEF A

\* The map still has a largest counter.
LEMMA CountOneLeads ==
  ASSUME NEW B, IsCounts(B), NEW x, B = << >> \/ Leaders(B) # {}
  PROVE  Leaders(CountOne(B, x)) # {}
<1> DEFINE A == CountOne(B, x)
<1>1. /\ DOMAIN A = DOMAIN B \cup {x}
      /\ \A y : CountOf(A, y) = CountOf(B, y) + (IF y = x THEN 1 ELSE 0)
  BY CountOneCounts
<1>2. \A y : CountOf(B, y) \in Nat
  BY CountsAreNumbers
<1>3. ASSUME NEW C
      PROVE  \A o : o \in Leaders(C) <=>
                o \in DOMAIN C /\ \A p \in DOMAIN C : CountOf(C, p) <= CountOf(C, o)
  BY DEF Leaders, CountOf
<1> HIDE DEF A
<1>4. CASE B = << >>
  <2>1. DOMAIN A = {x}
    BY <1>1, <1>4
  <2>2. x \in Leaders(A)
    BY <1>1, <1>2, <1>3, <2>1
  <2> QED BY <2>2 DEF A
<1>5. CASE Leaders(B) # {}
  <2>1. PICK o : o \in Leaders(B)
    BY <1>5
  <2>2. o \in DOMAIN B /\ \A p \in DOMAIN B : CountOf(B, p) <= CountOf(B, o)
    BY <1>3, <2>1
  <2>3. CASE CountOf(A, x) >= CountOf(A, o)
    <3>1. ASSUME NEW p \in DOMAIN A
          PROVE  CountOf(A, p) <= CountOf(A, x)
      BY <1>1, <1>2, <2>2, <2>3
    <3>2. x \in Leaders(A)
      BY <1>1, <1>3, <3>1
    <3> QED BY <3>2 DEF A
  <2>4. CASE ~(CountOf(A, x) >= CountOf(A, o))
    <3>1. ASSUME NEW p \in DOMAIN A
          PROVE  CountOf(A, p) <= CountOf(A, o)
      BY <1>1, <1>2, <2>2, <2>4
    <3>2. o \in Leaders(A)
      BY <1>1, <1>3, <2>2, <3>1
    <3> QED BY <3>2 DEF A
  <2> QED BY <2>3, <2>4
<1> QED BY <1>4, <1>5

\* A path without repetition counts once each of its segments, of which the last is one.
LEMMA CountPathCounts ==
  ASSUME NEW B, IsCounts(B), NEW path, path \in Seq(ToSet(path)), path # << >>, IsInjective(path)
  PROVE  /\ IsCounts(CountPath(B, path))
         /\ DOMAIN CountPath(B, path) = DOMAIN B \cup ToSet(path)
         /\ \A y : CountOf(CountPath(B, path), y) = CountOf(B, y) + (IF y \in ToSet(path) THEN 1 ELSE 0)
         /\ Last(path) \in ToSet(path)
<1> DEFINE U == CountPath(B, path)
<1>1. ASSUME NEW y \in ToSet(path)
      PROVE  Cardinality({i \in DOMAIN path : path[i] = y}) = 1
  <2>1. PICK k \in DOMAIN path : path[k] = y
    BY DEF ToSet
  <2>2. {i \in DOMAIN path : path[i] = y} = {k}
    BY <2>1 DEF IsInjective
  <2>3. Cardinality({k}) = 1
    BY FS_Singleton
  <2> QED BY <2>2, <2>3
<1>2. ASSUME NEW y, y \notin ToSet(path)
      PROVE  Cardinality({i \in DOMAIN path : path[i] = y}) = 0
  <2>1. {i \in DOMAIN path : path[i] = y} = {}
    BY <1>2 DEF ToSet
  <2> QED BY <2>1, FS_EmptySet
<1>3. /\ DOMAIN U = DOMAIN B \cup ToSet(path)
      /\ \A y \in DOMAIN U : U[y] = CountOf(B, y) + (IF y \in ToSet(path) THEN 1 ELSE 0)
      /\ U = [y \in DOMAIN U |-> U[y]]
  BY <1>1, <1>2 DEF CountPath
<1>4. \A y : CountOf(B, y) \in Nat /\ (y \in DOMAIN B <=> CountOf(B, y) > 0)
  BY CountsAreNumbers
<1> HIDE DEF U
<1>5. \A y \in DOMAIN U : U[y] \in Nat \ {0}
  BY <1>3, <1>4
<1>6. IsCounts(U)
  BY <1>3, <1>5 DEF IsCounts
<1>7. \A y : CountOf(U, y) = CountOf(B, y) + (IF y \in ToSet(path) THEN 1 ELSE 0)
  BY <1>3, <1>4 DEF CountOf
<1>8. Last(path) = path[Len(path)] /\ Len(path) \in DOMAIN path
  BY DEF Last
<1>9. Last(path) \in ToSet(path)
  BY <1>8 DEF ToSet
<1> QED BY <1>3, <1>6, <1>7, <1>9 DEF U

-----------------------------------------------------------------------------
(* The tables after an event. *)

\* A miss is recorded for its path, its object and its operation; a hit is not.
LEMMA AttributionCounts ==
  ASSUME CountersTyped, NEW e \in Events, Simulate(e), e.op \in Ops
  PROVE  /\ DOMAIN attribution' = DOMAIN attribution
         /\ attribution'.inclusive = IF Missed THEN CountPath(attribution.inclusive, e.region_path)
                                     ELSE attribution.inclusive
         /\ attribution'.exclusive = IF Missed THEN CountOne(attribution.exclusive, Last(e.region_path))
                                     ELSE attribution.exclusive
         /\ attribution'.objects = IF Missed THEN CountOne(attribution.objects, e.object_name)
                                   ELSE attribution.objects
         /\ attribution'.load = attribution.load + Times(Missed /\ e.op = "load", 1)
         /\ attribution'.store = attribution.store + Times(Missed /\ e.op = "store", 1)
<1>1. /\ DOMAIN attribution = {"inclusive", "exclusive", "objects", "load", "store"}
      /\ attribution.load \in Nat /\ attribution.store \in Nat
  BY DEF CountersTyped
<1>2. attribution' = IF Missed THEN Record(attribution, e) ELSE attribution
  BY DEF Simulate, Missed
<1>3. CASE Missed
  BY <1>1, <1>2, <1>3 DEF Record, Ops, Times
<1>4. CASE ~Missed
  BY <1>1, <1>2, <1>4 DEF Times
<1> QED BY <1>3, <1>4

\* The row of the event's object counts the access, and the hit or the miss; the
\* other rows are left alone.
LEMMA RowCounts ==
  ASSUME CountersTyped, NEW e \in Events, Simulate(e), result'.miss_level \in 0..2
  PROVE  LET rows  == cache_stats.objects
             rows2 == cache_stats'.objects
             o     == e.object_name
             old   == RowOf(rows, o)
         IN  /\ DOMAIN rows2 = DOMAIN rows \cup {o}
             /\ \A name \in DOMAIN rows \ {o} : rows2[name] = rows[name]
             /\ old \in [ObjectCounters -> Nat] /\ rows2[o] \in [ObjectCounters -> Nat]
             /\ rows2[o]["accesses"] = old["accesses"] + 1
             /\ rows2[o]["hits"] = old["hits"] + Times(~Missed, 1)
             /\ rows2[o]["misses"] = old["misses"] + Times(Missed, 1)
             /\ rows2[o]["load_misses"] + rows2[o]["store_misses"]
                  = old["load_misses"] + old["store_misses"] + Times(Missed, 1)
<1> DEFINE rows  == cache_stats.objects
           o     == e.object_name
           old   == RowOf(rows, o)
           names == CountersOf(e.op = "store", result'.miss_level)
           new   == Bump(old, names)
<1>1. cache_stats'.objects = Put(rows, o, new)
  BY DEF Simulate, RecordAccess
<1>2. old \in [ObjectCounters -> Nat]
  BY DEF CountersTyped, RowOf, Zero
<1>3. /\ "accesses" \in names
      /\ "hits" \in names <=> ~Missed
      /\ "misses" \in names <=> Missed
      /\ "load_misses" \in names <=> Missed /\ e.op # "store"
      /\ "store_misses" \in names <=> Missed /\ e.op = "store"
  BY DEF CountersOf, Missed
<1> HIDE DEF names, old
<1>4. /\ new = [n \in ObjectCounters |-> new[n]]
      /\ \A n \in ObjectCounters : new[n] = old[n] + (IF n \in names THEN 1 ELSE 0)
  BY <1>2 DEF Bump
<1>5. \A n \in ObjectCounters : new[n] \in Nat
  BY <1>2, <1>4
<1> HIDE DEF new
<1>6. new \in [ObjectCounters -> Nat]
  BY <1>4, <1>5
<1>7. /\ new["accesses"] = old["accesses"] + 1
      /\ new["hits"] = old["hits"] + Times(~Missed, 1)
      /\ new["misses"] = old["misses"] + Times(Missed, 1)
      /\ new["load_misses"] + new["store_misses"]
           = old["load_misses"] + old["store_misses"] + Times(Missed, 1)
  BY <1>2, <1>3, <1>4 DEF ObjectCounters, Times
<1>8. /\ DOMAIN cache_stats'.objects = DOMAIN rows \cup {o}
      /\ cache_stats'.objects[o] = new
      /\ \A name \in DOMAIN rows \ {o} : cache_stats'.objects[name] = rows[name]
  BY <1>1 DEF Put
<1> QED BY <1>2, <1>6, <1>7, <1>8 DEF old

\* The classifier of the event's core has seen its line, whatever came of it; the
\* other cores' are left alone.
LEMMA ClassifierAfter ==
  ASSUME ClassifiersTyped, NEW e \in Events, Simulate(e), e.core_id \in Cores
  PROVE  LET core == e.core_id
             c    == ClassifierFor(core)
         IN  /\ DOMAIN classifiers' = DOMAIN classifiers \cup {core}
             /\ \A other \in DOMAIN classifiers \ {core} : classifiers'[other] = classifiers[other]
             /\ DOMAIN c = ClassifierFields /\ c.fa_capacity = l1_lines[core]
             /\ DOMAIN classifiers'[core] = ClassifierFields
             /\ classifiers'[core].fa_capacity = c.fa_capacity
             /\ classifiers'[core].fa_lru = FaAccess(c, e.cache_line).fa_lru
             /\ classifiers'[core].fa_map = FaAccess(c, e.cache_line).fa_map
             /\ classifiers'[core].ever_seen = c.ever_seen \cup {e.cache_line}
<1> DEFINE core == e.core_id
           c    == ClassifierFor(core)
           L    == e.cache_line
<1>1. classifiers' = Put(classifiers, core, Classified(c, L))
  BY DEF Simulate
<1>2. DOMAIN c = ClassifierFields /\ c.fa_capacity = l1_lines[core]
  BY DEF ClassifierFor, NewClassifier, ClassifiersTyped, ClassifierFields
<1> HIDE DEF c
<1>3. /\ DOMAIN FaAccess(c, L) = ClassifierFields
      /\ FaAccess(c, L).fa_capacity = c.fa_capacity
      /\ FaAccess(c, L).ever_seen = c.ever_seen
  BY <1>2 DEF FaAccess, ClassifierFields
<1>4. /\ DOMAIN Classified(c, L) = ClassifierFields
      /\ Classified(c, L).fa_capacity = c.fa_capacity
      /\ Classified(c, L).fa_lru = FaAccess(c, L).fa_lru
      /\ Classified(c, L).fa_map = FaAccess(c, L).fa_map
      /\ Classified(c, L).ever_seen = c.ever_seen \cup {L}
  BY <1>3 DEF Classified, ClassifierFields
<1>5. /\ DOMAIN classifiers' = DOMAIN classifiers \cup {core}
      /\ classifiers'[core] = Classified(c, L)
      /\ \A other \in DOMAIN classifiers \ {core} : classifiers'[other] = classifiers[other]
  BY <1>1 DEF Put
<1> QED BY <1>2, <1>4, <1>5 DEF c

-----------------------------------------------------------------------------
(* An event keeps the invariant, part by part. *)

\* The counters stay numbers, the classifiers the cores'.
LEMMA TypesKeep ==
  ASSUME SimInv, NEW e \in Events, Simulate(e)
  PROVE  CountersTyped' /\ ClassifiersTyped'
<1>1. /\ e.core_id \in Cores /\ e.op \in Ops
      /\ result' \in Results /\ result'.miss_level \in 0..2 /\ l1_lines' = l1_lines
      /\ CountersTyped /\ ClassifiersTyped
  BY EventFacts DEF SimInv
<1>2. /\ DOMAIN stats' = MissCounters \cup {"by_object"}
      /\ \A n \in MissCounters : stats'[n] \in Nat
      /\ IsCounts(stats'.by_object)
  <2>1. /\ DOMAIN stats = MissCounters \cup {"by_object"}
        /\ IsCounts(stats.by_object)
    BY <1>1 DEF CountersTyped
  <2>2. /\ DOMAIN stats' = DOMAIN stats
        /\ \A n \in MissCounters : stats'[n] \in Nat
        /\ stats'.by_object = IF Missed THEN CountOne(stats.by_object, e.object_name)
                              ELSE stats.by_object
    BY <1>1, MissCounts
  <2>3. IsCounts(CountOne(stats.by_object, e.object_name))
    BY <2>1, CountOneCounts
  <2> QED BY <2>1, <2>2, <2>3
<1>3. /\ DOMAIN attribution' = {"inclusive", "exclusive", "objects", "load", "store"}
      /\ attribution'.load \in Nat /\ attribution'.store \in Nat
  BY <1>1, AttributionCounts DEF CountersTyped, Times
<1>4. IsCounts(attribution'.inclusive) /\ IsCounts(attribution'.exclusive)
  <2>1. /\ e.region_path \in Seq(ToSet(e.region_path)) /\ e.region_path # << >>
        /\ IsInjective(e.region_path)
    BY EventsAssumption
  <2>2. /\ IsCounts(CountPath(attribution.inclusive, e.region_path))
        /\ IsCounts(CountOne(attribution.exclusive, Last(e.region_path)))
    BY <1>1, <2>1, CountPathCounts, CountOneCounts DEF CountersTyped
  <2> QED BY <1>1, <2>2, AttributionCounts DEF CountersTyped
<1>5. totals' \in [Totals -> Nat]
  BY <1>1, LevelCounts
<1>6. traffic' \in [Traffic -> Nat]
  <2>1. traffic' = [t \in Traffic |-> traffic[t] + result'[t]]
    BY DEF Simulate, RecordAccess, traffic
  <2>2. \A t \in Traffic : result'[t] \in Nat
    BY <1>1 DEF Results, Traffic
  <2> QED BY <1>1, <2>1, <2>2 DEF CountersTyped
<1>7. \A name \in DOMAIN cache_stats'.objects :
        cache_stats'.objects[name] \in [ObjectCounters -> Nat]
  BY <1>1, RowCounts DEF CountersTyped
<1>8. CountersTyped'
  BY <1>2, <1>3, <1>4, <1>5, <1>6, <1>7 DEF CountersTyped
<1>9. ClassifiersTyped'
  <2>1. /\ DOMAIN classifiers' = DOMAIN classifiers \cup {e.core_id}
        /\ \A other \in DOMAIN classifiers \ {e.core_id} : classifiers'[other] = classifiers[other]
        /\ DOMAIN classifiers'[e.core_id] = ClassifierFields
        /\ classifiers'[e.core_id].fa_capacity = l1_lines[e.core_id]
    BY <1>1, ClassifierAfter
  <2> QED BY <1>1, <2>1 DEF ClassifiersTyped
<1> QED BY <1>8, <1>9

\* A miss counts in every table, a hit in none but the level's and the object's row.
LEMMA TablesKeep ==
  ASSUME SimInv, NEW e \in Events, Simulate(e)
  PROVE  /\ RowsCoverMisses' /\ Countable(stats'.by_object)
         /\ IsFiniteSet(CountedIn(attribution'.exclusive))
         /\ ReportsAgree'
<1> DEFINE o     == e.object_name
           rows  == cache_stats.objects
           rows2 == cache_stats'.objects
<1>1. /\ e.core_id \in Cores /\ e.op \in Ops
      /\ result' \in Results /\ result'.miss_level \in 0..2
      /\ CountersTyped /\ ReportsAgree /\ RowsCoverMisses
      /\ IsCounts(stats.by_object) /\ IsCounts(attribution.exclusive)
  BY EventFacts DEF SimInv, CountersTyped
<1>2. RowsCoverMisses'
  <2>1. stats'.by_object = IF Missed THEN CountOne(stats.by_object, o) ELSE stats.by_object
    BY <1>1, MissCounts
  <2>2. DOMAIN rows2 = DOMAIN rows \cup {o}
    BY <1>1, RowCounts
  <2>3. DOMAIN CountOne(stats.by_object, o) = DOMAIN stats.by_object \cup {o}
    BY <1>1, CountOneCounts
  <2> QED BY <1>1, <2>1, <2>2, <2>3 DEF RowsCoverMisses
<1>3. Countable(stats'.by_object)
  <2>1. CASE Missed
    BY <1>1, <2>1, MissCounts, CountOneMore, CountOneLeads DEF SimInv, Countable
  <2>2. CASE ~Missed
    BY <1>1, <2>2, MissCounts DEF SimInv
  <2> QED BY <2>1, <2>2
<1>4. /\ IsFiniteSet(CountedIn(attribution'.exclusive))
      /\ Cardinality(CountedIn(attribution'.exclusive))
           = Cardinality(CountedIn(attribution.exclusive)) + Times(Missed, 1)
  <2>1. IsFiniteSet(CountedIn(attribution.exclusive))
        /\ Cardinality(CountedIn(attribution.exclusive)) \in Nat
    BY FS_CardinalityType DEF SimInv
  <2>2. CASE Missed
    BY <1>1, <2>1, <2>2, AttributionCounts, CountOneMore DEF Times
  <2>3. CASE ~Missed
    BY <1>1, <2>1, <2>3, AttributionCounts DEF Times
  <2> QED BY <2>2, <2>3
<1>5. /\ totals'["l1_hits"] = totals["l1_hits"] + Times(~Missed, 1)
      /\ totals'["l1_misses"] = totals["l1_misses"] + Times(Missed, 1)
      /\ totals'["l2_hits"] + totals'["memory_accesses"]
           = totals["l2_hits"] + totals["memory_accesses"] + Times(Missed, 1)
      /\ totals'["total_accesses"] = totals["total_accesses"] + 1
      /\ \A n \in Totals : totals[n] \in Nat
  <2>1. Times(result'.miss_level = 1, 1) + Times(result'.miss_level = 2, 1) = Times(Missed, 1)
    BY <1>1 DEF Times, Missed
  <2>2. \A n \in Totals : totals[n] \in Nat
    BY <1>1 DEF CountersTyped
  <2> QED BY <1>1, <2>1, <2>2, LevelCounts DEF Totals, Times
<1>6. /\ stats'.Cold + stats'.Capacity + stats'.Conflict
           = stats.Cold + stats.Capacity + stats.Conflict + Times(Missed, 1)
      /\ stats'.load = stats.load + Times(Missed /\ e.op = "load", 1)
      /\ stats'.store = stats.store + Times(Missed /\ e.op = "store", 1)
      /\ stats'.load + stats'.store = stats.load + stats.store + Times(Missed, 1)
  <2>1. \A n \in MissCounters :
          /\ stats[n] \in Nat
          /\ stats'[n] = stats[n] + Times(Missed /\ n \in {e.op, MissedAs(e)}, 1)
    BY <1>1, MissCounts
  <2>2. Missed => MissedAs(e) \in {"Cold", "Capacity", "Conflict"}
    BY <1>1, MissCounts DEF MissTypes
  <2>3. e.op \in {"load", "store"}
    BY <1>1 DEF Ops
  <2> QED BY <2>1, <2>2, <2>3 DEF MissCounters, Times
<1>7. stats'.by_object = attribution'.objects
  BY <1>1, MissCounts, AttributionCounts DEF ReportsAgree
<1>8. <<stats'.load, stats'.store>> = <<attribution'.load, attribution'.store>>
  BY <1>1, <1>6, AttributionCounts DEF ReportsAgree
<1>9. ASSUME NEW name \in DOMAIN rows2
      PROVE  /\ CountOf(stats'.by_object, name) = rows2[name]["misses"]
             /\ rows2[name]["hits"] + rows2[name]["misses"] = rows2[name]["accesses"]
  <2>1. CountOf(stats'.by_object, name)
          = CountOf(stats.by_object, name) + Times(Missed /\ name = o, 1)
        /\ CountOf(stats.by_object, name) \in Nat
    <3>1. CountOf(stats.by_object, name) \in Nat
      BY <1>1, CountsAreNumbers
    <3>2. stats'.by_object = IF Missed THEN CountOne(stats.by_object, o) ELSE stats.by_object
      BY <1>1, MissCounts
    <3>3. \A y : CountOf(CountOne(stats.by_object, o), y)
                  = CountOf(stats.by_object, y) + (IF y = o THEN 1 ELSE 0)
      BY <1>1, CountOneCounts
    <3> QED BY <3>1, <3>2, <3>3 DEF Times
  <2>2. CASE name # o
    <3>1. name \in DOMAIN rows /\ rows2[name] = rows[name]
      BY <1>1, <2>2, RowCounts
    <3> QED BY <1>1, <2>1, <2>2, <3>1 DEF ReportsAgree, Times
  <2>3. CASE name = o
    <3>1. /\ RowOf(rows, o) \in [ObjectCounters -> Nat]
          /\ rows2[o]["accesses"] = RowOf(rows, o)["accesses"] + 1
          /\ rows2[o]["hits"] = RowOf(rows, o)["hits"] + Times(~Missed, 1)
          /\ rows2[o]["misses"] = RowOf(rows, o)["misses"] + Times(Missed, 1)
      BY <1>1, RowCounts
    <3>2. /\ CountOf(stats.by_object, o) = RowOf(rows, o)["misses"]
          /\ RowOf(rows, o)["hits"] + RowOf(rows, o)["misses"] = RowOf(rows, o)["accesses"]
      <4>1. CASE o \in DOMAIN rows
        BY <1>1, <4>1 DEF ReportsAgree, RowOf
      <4>2. CASE o \notin DOMAIN rows
        <5>1. o \notin DOMAIN stats.by_object
          BY <1>1, <4>2 DEF RowsCoverMisses
        <5> QED BY <4>2, <5>1 DEF RowOf, Zero, ObjectCounters, CountOf
      <4> QED BY <4>1, <4>2
    <3>3. \A n \in {"accesses", "hits", "misses"} : RowOf(rows, o)[n] \in Nat
      BY <3>1 DEF ObjectCounters
    <3> QED BY <2>1, <2>3, <3>1, <3>2, <3>3 DEF Times
  <2> QED BY <2>2, <2>3
<1>10. ReportsAgree'
  <2>1. Times(Missed, 1) + Times(~Missed, 1) = 1 /\ Times(Missed, 1) \in Nat
    BY DEF Times
  <2>2. /\ stats.Cold + stats.Capacity + stats.Conflict = totals["l1_misses"]
        /\ stats.load + stats.store = totals["l1_misses"]
        /\ Cardinality(CountedIn(attribution.exclusive)) = totals["l1_misses"]
        /\ totals["l1_hits"] + totals["l1_misses"] = totals["total_accesses"]
        /\ totals["l2_hits"] + totals["memory_accesses"] = totals["l1_misses"]
    BY <1>1 DEF ReportsAgree
  <2>3. totals'["l1_hits"] + totals'["l1_misses"] = totals'["total_accesses"]
    BY <1>5, <2>1, <2>2 DEF Totals, Times
  <2> QED BY <1>4, <1>5, <1>6, <1>7, <1>8, <1>9, <2>2, <2>3 DEF ReportsAgree
<1> QED BY <1>2, <1>3, <1>4, <1>10

\* A miss counts once for each region of its path, the last one's own among them.
LEMMA RegionsKeep ==
  ASSUME SimInv, NEW e \in Events, Simulate(e)
  PROVE  RegionsNest'
<1> DEFINE path == e.region_path
           inc  == attribution.inclusive
           exc  == attribution.exclusive
<1>1. /\ e.op \in Ops /\ result'.miss_level \in 0..2
      /\ CountersTyped /\ RegionsNest /\ IsCounts(inc) /\ IsCounts(exc)
      /\ totals["l1_misses"] \in Nat
  BY EventFacts DEF SimInv, CountersTyped, Totals
<1>2. /\ attribution'.inclusive = IF Missed THEN CountPath(inc, path) ELSE inc
      /\ attribution'.exclusive = IF Missed THEN CountOne(exc, Last(path)) ELSE exc
  BY <1>1, AttributionCounts
<1>3. totals'["l1_misses"] = totals["l1_misses"] + Times(Missed, 1)
  BY <1>1, LevelCounts
<1>4. path \in Seq(ToSet(path)) /\ path # << >> /\ IsInjective(path)
  BY EventsAssumption
<1>5. /\ DOMAIN CountPath(inc, path) = DOMAIN inc \cup ToSet(path)
      /\ \A y : CountOf(CountPath(inc, path), y)
                  = CountOf(inc, y) + (IF y \in ToSet(path) THEN 1 ELSE 0)
      /\ Last(path) \in ToSet(path)
  BY <1>1, <1>4, CountPathCounts
<1>6. /\ DOMAIN CountOne(exc, Last(path)) = DOMAIN exc \cup {Last(path)}
      /\ \A y : CountOf(CountOne(exc, Last(path)), y)
                  = CountOf(exc, y) + (IF y = Last(path) THEN 1 ELSE 0)
  BY <1>1, CountOneCounts
<1>7. \A y : CountOf(inc, y) \in Nat /\ CountOf(exc, y) \in Nat
  BY <1>1, CountsAreNumbers
<1>8. \A y : /\ CountOf(exc, y) <= CountOf(inc, y)
             /\ CountOf(inc, y) <= totals["l1_misses"]
  <2> TAKE y
  <2>1. CASE y \in DOMAIN exc \cup DOMAIN inc
    BY <1>1, <2>1 DEF RegionsNest
  <2>2. CASE y \notin DOMAIN exc \cup DOMAIN inc
    BY <1>1, <2>2 DEF CountOf
  <2> QED BY <2>1, <2>2
<1>9. ASSUME NEW y
      PROVE  /\ CountOf(attribution'.exclusive, y) <= CountOf(attribution'.inclusive, y)
             /\ CountOf(attribution'.inclusive, y) <= totals'["l1_misses"]
  <2>1. CASE Missed
    BY <1>1, <1>2, <1>3, <1>5, <1>6, <1>7, <1>8, <2>1 DEF Times
  <2>2. CASE ~Missed
    BY <1>1, <1>2, <1>3, <1>8, <2>2 DEF Times
  <2> QED BY <2>1, <2>2
<1> QED BY <1>9 DEF RegionsNest

\* A line is new to its core's classifier exactly when its miss is cold, and a hit is
\* never on a new line.
LEMMA FootprintKeeps ==
  ASSUME SimInv, NEW e \in Events, Simulate(e)
  PROVE  HeldIsSeen' /\ IsFiniteSet(Footprint') /\ ColdIsFootprint'
<1> DEFINE core == e.core_id
           L    == e.cache_line
           seen == ClassifierFor(core).ever_seen
<1>1. /\ core \in Cores /\ L \in Lines /\ L \in Nat /\ e.op \in Ops
      /\ Access(core, L, e.op = "store") /\ config' = config
      /\ (Missed <=> ~Holds(l1s[core], config.l1[core], L))
      /\ Inv /\ CountersTyped /\ ClassifiersTyped
      /\ HeldIsSeen /\ IsFiniteSet(Footprint) /\ ColdIsFootprint
  BY EventFacts DEF SimInv
<1>2. /\ DOMAIN classifiers' = DOMAIN classifiers \cup {core}
      /\ \A other \in DOMAIN classifiers \ {core} : classifiers'[other] = classifiers[other]
      /\ classifiers'[core].ever_seen = seen \cup {L}
  BY <1>1, ClassifierAfter
<1>3. seen = IF core \in DOMAIN classifiers THEN classifiers[core].ever_seen ELSE {}
  BY DEF ClassifierFor, NewClassifier
<1>4. HeldIsSeen'
  <2>1. /\ l1s' = [l1s EXCEPT ![core] = L1After(core, L, e.op = "store")]
        /\ DOMAIN l1s = Cores
    BY <1>1 DEF Access, AbsorbedHit, WriteThroughHit, Miss, TouchL1, Inv, TypeOK
  <2>2. ASSUME NEW M \in Nat, Holds(l1s'[core], config.l1[core], M)
        PROVE  M = L \/ Holds(l1s[core], config.l1[core], M)
    <3>1. config.l1[core] \in LevelParams /\ SoundLevel(l1s[core], config.l1[core])
      BY <1>1, InvLevels
    <3>2. PolicyEffect(l1s[core], L1After(core, L, e.op = "store"), L1Result(core, L, e.op = "store"),
                       config.l1[core], L, e.op = "store")
      BY <1>1, <3>1, PolicyAccess DEF L1After, L1Result
    <3>3. l1s'[core] = L1After(core, L, e.op = "store")
      BY <1>1, <2>1
    <3> QED BY <2>2, <3>2, <3>3 DEF PolicyEffect
  <2>3. ASSUME NEW c \in Cores, NEW M \in Nat, Holds(l1s'[c], config.l1[c], M)
        PROVE  c \in DOMAIN classifiers' /\ M \in classifiers'[c].ever_seen
    <3>1. CASE c = core
      BY <1>1, <1>2, <1>3, <2>2, <2>3, <3>1 DEF HeldIsSeen
    <3>2. CASE c # core
      <4>1. l1s'[c] = l1s[c]
        BY <2>1, <3>2
      <4> QED BY <1>1, <1>2, <2>3, <3>2, <4>1 DEF HeldIsSeen
    <3> QED BY <3>1, <3>2
  <2> QED BY <1>1, <2>3 DEF HeldIsSeen
<1>5. Footprint' = Footprint \cup {<<core, L>>}
  <2>1. \A p : p \in Footprint <=>
          \E c \in DOMAIN classifiers : \E M \in classifiers[c].ever_seen : p = <<c, M>>
    BY DEF Footprint
  <2>2. \A p : p \in Footprint' <=>
          \E c \in DOMAIN classifiers' : \E M \in classifiers'[c].ever_seen : p = <<c, M>>
    BY DEF Footprint
  <2>3. ASSUME NEW p \in Footprint
        PROVE  p \in Footprint'
    <3>1. PICK c \in DOMAIN classifiers : \E M \in classifiers[c].ever_seen : p = <<c, M>>
      BY <2>1
    <3>2. classifiers[c].ever_seen \subseteq classifiers'[c].ever_seen
      BY <1>2, <1>3
    <3> QED BY <1>2, <2>2, <3>1, <3>2
  <2>4. ASSUME NEW p \in Footprint', p # <<core, L>>
        PROVE  p \in Footprint
    <3>1. PICK c \in DOMAIN classifiers' : \E M \in classifiers'[c].ever_seen : p = <<c, M>>
      BY <2>2
    <3>2. PICK M \in classifiers'[c].ever_seen : p = <<c, M>>
      BY <3>1
    <3>3. c \in DOMAIN classifiers /\ M \in classifiers[c].ever_seen
      BY <1>2, <1>3, <2>4, <3>2
    <3> QED BY <2>1, <3>2, <3>3
  <2>5. <<core, L>> \in Footprint'
    BY <1>2, <2>2
  <2> QED BY <2>3, <2>4, <2>5
<1>6. <<core, L>> \in Footprint <=> L \in seen
  BY <1>3 DEF Footprint
<1>7. /\ IsFiniteSet(Footprint')
      /\ Cardinality(Footprint) \in Nat
      /\ Cardinality(Footprint') = Cardinality(Footprint) + Times(L \notin seen, 1)
  <2>1. /\ IsFiniteSet(Footprint \cup {<<core, L>>})
        /\ Cardinality(Footprint \cup {<<core, L>>})
             = IF <<core, L>> \in Footprint THEN Cardinality(Footprint) ELSE Cardinality(Footprint) + 1
    BY <1>1, FS_AddElement
  <2>2. Cardinality(Footprint) \in Nat
    BY <1>1, FS_CardinalityType
  <2> QED BY <1>5, <1>6, <2>1, <2>2 DEF Times
<1>8. Missed /\ MissedAs(e) = "Cold" <=> L \notin seen
  <2>1. CASE Missed
    BY <2>1 DEF MissedAs, MissType
  <2>2. CASE ~Missed
    BY <1>1, <1>3, <2>2 DEF HeldIsSeen
  <2> QED BY <2>1, <2>2
<1>9. stats'.Cold = stats.Cold + Times(L \notin seen, 1)
  <2>1. stats'.Cold = stats.Cold + Times(Missed /\ "Cold" \in {e.op, MissedAs(e)}, 1)
    BY <1>1, MissCounts DEF MissCounters
  <2>2. "Cold" # e.op
    BY <1>1 DEF Ops
  <2> QED BY <1>8, <2>1, <2>2 DEF Times
<1>10. ColdIsFootprint'
  BY <1>1, <1>7, <1>9 DEF ColdIsFootprint
<1> QED BY <1>4, <1>7, <1>10

-----------------------------------------------------------------------------
(* Cycles. *)

\* The cycles that remain when the levels' shares are taken from the total.
Remaining(delay, wb, accesses, misses, memory, d1, d2, dm) ==
  delay - wb - accesses * d1 - misses * d2 - memory * dm

\* One more of a factor.
LEMMA OneMoreTimes ==
  ASSUME NEW n \in Nat, NEW d \in Nat, NEW k \in {0, 1}
  PROVE  n * d \in Nat /\ (n + k) * d = n * d + (IF k = 1 THEN d ELSE 0)
OBVIOUS

\* What the hierarchy charges beside the write-backs: for a hit the L1, with the L2
\* and perhaps the memory when the hit is written through; for a miss the L1 and the
\* L2, and the memory when the L2 misses.
LEMMA EventCycles ==
  ASSUME Inv, NEW core \in Cores, NEW L \in Lines, NEW is_store \in BOOLEAN,
         Access(core, L, is_store), result' \in Results
  PROVE  LET p  == config.l1[core]
             d2 == config.l2.delay_cycles
             dm == config.mem_delay
             w  == result'.writeback_cycles
             through == is_store /\ WritesThrough(p)
         IN  /\ p.delay_cycles \in Nat /\ d2 \in Nat /\ dm \in Nat /\ w \in Nat
             /\ result'.write_through_writes = Times(through, 1)
             /\ \E x \in Nat :
                  /\ result'.delay_cycles = x + w
                  /\ IF Missed
                     THEN x = p.delay_cycles + d2 + Times(result'.miss_level = 2, dm)
                     ELSE IF through THEN x \in {p.delay_cycles + d2, p.delay_cycles + d2 + dm}
                     ELSE x = p.delay_cycles
             /\ Missed => result'.miss_level \in {1, 2}
             /\ ~Missed => result'.miss_level # 2
<1> DEFINE p  == config.l1[core]
           d1 == p.delay_cycles
           d2 == config.l2.delay_cycles
           dm == config.mem_delay
           w  == result'.writeback_cycles
<1>1. d1 \in Nat /\ d2 \in Nat /\ dm \in Nat
  BY InvLevels, ParamsAreGeometry DEF HierarchyParams
<1>2. w \in Nat
  BY DEF Results
<1>3. CASE AbsorbedHit(core, L, is_store)
  <2>1. /\ ~(is_store /\ WritesThrough(p))
        /\ result'.delay_cycles = d1 + 0 /\ w = 0
        /\ result'.write_through_writes = 0 /\ result'.miss_level = 0
    BY <1>1, <1>3 DEF AbsorbedHit, NoResult
  <2> QED BY <1>1, <2>1 DEF Missed, Times
<1>4. CASE WriteThroughHit(core, L, is_store)
  <2> DEFINE r2 == L2Result(l2, L, TRUE)
             x  == d1 + d2 + Times(~r2.hit, dm)
  <2>1. /\ is_store /\ WritesThrough(p)
        /\ result'.delay_cycles = DemandCycles(core, r2) + MemoryWriteCycles(r2)
        /\ w = MemoryWriteCycles(r2)
        /\ result'.write_through_writes = 1 /\ result'.miss_level = 0
    BY <1>4 DEF WriteThroughHit
  <2>2. result'.delay_cycles = x + w
    BY <2>1 DEF DemandCycles
  <2>3. x \in Nat /\ (x = d1 + d2 \/ x = d1 + d2 + dm)
    <3> DEFINE t == Times(~r2.hit, dm)
    <3>1. t = 0 \/ t = dm
      BY DEF Times
    <3> HIDE DEF t
    <3>2. d1 + d2 + t \in Nat /\ (d1 + d2 + t = d1 + d2 \/ d1 + d2 + t = d1 + d2 + dm)
      BY <1>1, <3>1
    <3> QED BY <3>2 DEF t
  <2>4. ~Missed /\ result'.miss_level # 2 /\ result'.write_through_writes = Times(TRUE, 1)
    BY <2>1 DEF Missed, Times
  <2>5. is_store /\ WritesThrough(p)
    BY <2>1
  <2> HIDE DEF x, d1, d2, dm, w, p
  <2>6. \E y \in Nat : result'.delay_cycles = y + w /\ y \in {d1 + d2, d1 + d2 + dm}
    BY <2>2, <2>3
  <2>7. (is_store /\ WritesThrough(p)) = TRUE
    BY <2>5
  <2> QED BY <1>1, <1>2, <2>4, <2>5, <2>6, <2>7 DEF p, d1, d2, dm, w
<1>5. CASE Miss(core, L, is_store)
  <2> DEFINE r1 == L1Result(core, L, is_store)
             r2 == L2Result(L2AfterVictim(r1), L, ForwardsStore(core, is_store))
             x  == d1 + d2 + Times(~r2.hit, dm)
  <2>1. /\ result'.delay_cycles = DemandCycles(core, r2) + w
        /\ result'.miss_level = IF r2.hit THEN 1 ELSE 2
        /\ result'.write_through_writes = Times(is_store /\ WritesThrough(p), 1)
    BY <1>5 DEF Miss
  <2>2. result'.delay_cycles = x + w
    BY <2>1 DEF DemandCycles
  <2>3. x = d1 + d2 + Times(result'.miss_level = 2, dm) /\ x \in Nat
    BY <1>1, <2>1 DEF Times
  <2>4. Missed /\ result'.miss_level \in {1, 2}
    BY <2>1 DEF Missed
  <2> HIDE DEF x
  <2> QED BY <1>1, <1>2, <2>1, <2>2, <2>3, <2>4
<1> QED BY <1>3, <1>4, <1>5 DEF Access

\* Every event leaves nothing of its cycles unaccounted for, but what the L2 and the
\* memory took for a store that an L1 wrote through on a hit.
LEMMA CyclesKeep ==
  ASSUME SimInv, NEW e \in Events, Simulate(e)
  PROVE  CyclesAddUp'
<1>1. /\ e.core_id \in Cores /\ e.cache_line \in Lines /\ e.op \in Ops
      /\ (e.op = "store") \in BOOLEAN /\ Access(e.core_id, e.cache_line, e.op = "store")
      /\ config' = config /\ result' \in Results /\ result'.miss_level \in 0..2
      /\ Inv /\ CountersTyped /\ CyclesAddUp
  BY EventFacts DEF SimInv
<1>2. SUFFICES ASSUME NEW p \in {config.l1[core] : core \in Cores},
                      \A core \in Cores : config.l1[core] = p
               PROVE  LET through_hits == traffic'["write_through_writes"] - stats'.store
                          extra == traffic'["delay_cycles"] - traffic'["writeback_cycles"]
                                     - totals'["total_accesses"] * p.delay_cycles
                                     - totals'["l1_misses"] * config.l2.delay_cycles
                                     - totals'["memory_accesses"] * config.mem_delay
                      IN  IF WritesThrough(p)
                          THEN /\ through_hits * config.l2.delay_cycles <= extra
                               /\ extra <= through_hits * (config.l2.delay_cycles + config.mem_delay)
                          ELSE extra = 0
  BY <1>1 DEF CyclesAddUp
<1> DEFINE d1 == p.delay_cycles
           d2 == config.l2.delay_cycles
           dm == config.mem_delay
           w  == result'.writeback_cycles
           through == e.op = "store" /\ WritesThrough(p)
           hits == traffic["write_through_writes"] - stats.store
           hits2 == traffic'["write_through_writes"] - stats'.store
           extra == Remaining(traffic["delay_cycles"], traffic["writeback_cycles"],
                              totals["total_accesses"], totals["l1_misses"],
                              totals["memory_accesses"], d1, d2, dm)
           extra2 == Remaining(traffic'["delay_cycles"], traffic'["writeback_cycles"],
                               totals'["total_accesses"], totals'["l1_misses"],
                               totals'["memory_accesses"], d1, d2, dm)
<1>3. p = config.l1[e.core_id]
  BY <1>1, <1>2
<1>4. /\ d1 \in Nat /\ d2 \in Nat /\ dm \in Nat /\ w \in Nat
      /\ result'.write_through_writes = Times(through, 1)
      /\ Missed => result'.miss_level \in {1, 2}
      /\ ~Missed => result'.miss_level # 2
  BY <1>1, <1>3, EventCycles
<1>5. PICK x \in Nat :
        /\ result'.delay_cycles = x + w
        /\ IF Missed THEN x = d1 + d2 + Times(result'.miss_level = 2, dm)
           ELSE IF through THEN x \in {d1 + d2, d1 + d2 + dm}
           ELSE x = d1
  BY <1>1, <1>3, EventCycles
<1>6. /\ \A t \in Traffic : traffic[t] \in Nat
      /\ \A n \in Totals : totals[n] \in Nat
      /\ stats.store \in Nat
  BY <1>1 DEF CountersTyped, MissCounters
<1>7. /\ traffic'["delay_cycles"] = traffic["delay_cycles"] + x + w
      /\ traffic'["writeback_cycles"] = traffic["writeback_cycles"] + w
      /\ traffic'["write_through_writes"] = traffic["write_through_writes"] + Times(through, 1)
  <2>1. traffic' = [t \in Traffic |-> traffic[t] + result'[t]]
    BY DEF Simulate, RecordAccess, traffic
  <2> QED BY <1>4, <1>5, <1>6, <2>1 DEF Traffic
<1>8. /\ totals'["total_accesses"] = totals["total_accesses"] + 1
      /\ totals'["l1_misses"] = totals["l1_misses"] + Times(Missed, 1)
      /\ totals'["memory_accesses"] = totals["memory_accesses"] + Times(result'.miss_level = 2, 1)
  BY <1>1, LevelCounts
<1>9. stats'.store = stats.store + Times(Missed /\ e.op = "store", 1)
  <2>1. stats'.store = stats.store + Times(Missed /\ "store" \in {e.op, MissedAs(e)}, 1)
    BY <1>1, MissCounts DEF MissCounters
  <2>2. Missed => MissedAs(e) # "store"
    BY <1>1, MissCounts DEF MissTypes
  <2> QED BY <2>1, <2>2 DEF Times
<1>10. /\ Missed => Times(Missed, 1) = 1
       /\ ~Missed => Times(Missed, 1) = 0
       /\ result'.miss_level = 2 => Times(result'.miss_level = 2, 1) = 1
       /\ result'.miss_level # 2 => Times(result'.miss_level = 2, 1) = 0
  BY DEF Times
<1>11. extra2 = extra + x - d1 - (IF Missed THEN d2 ELSE 0) - (IF result'.miss_level = 2 THEN dm ELSE 0)
  <2> DEFINE m == Times(Missed, 1)
             a == Times(result'.miss_level = 2, 1)
             T == totals["total_accesses"]
             M == totals["l1_misses"]
             A == totals["memory_accesses"]
             D == traffic["delay_cycles"]
             W == traffic["writeback_cycles"]
  <2>1. D \in Nat /\ W \in Nat /\ T \in Nat /\ M \in Nat /\ A \in Nat
    BY <1>6 DEF Traffic, Totals
  <2>2. m \in {0, 1} /\ a \in {0, 1} /\ (m = 1 <=> Missed) /\ (a = 1 <=> result'.miss_level = 2)
    BY <1>10
  <2>3. /\ extra2 = (D + x + w) - (W + w) - (T + 1) * d1 - (M + m) * d2 - (A + a) * dm
        /\ extra = D - W - T * d1 - M * d2 - A * dm
    BY <1>7, <1>8 DEF Remaining
  <2> HIDE DEF m, a, D, W, T, M, A, extra, extra2, d1, d2, dm, w
  <2>4. /\ (T + 1) * d1 = T * d1 + d1 /\ T * d1 \in Nat
        /\ (M + m) * d2 = M * d2 + (IF m = 1 THEN d2 ELSE 0) /\ M * d2 \in Nat
        /\ (A + a) * dm = A * dm + (IF a = 1 THEN dm ELSE 0) /\ A * dm \in Nat
    BY <1>4, <2>1, <2>2, OneMoreTimes
  <2>5. extra2 = extra + x - d1 - (IF m = 1 THEN d2 ELSE 0) - (IF a = 1 THEN dm ELSE 0)
    BY <1>4, <2>1, <2>3, <2>4
  <2> QED BY <2>2, <2>5
<1>12. extra \in Int /\ hits \in Int
  BY <1>4, <1>6 DEF Remaining, Traffic, Totals
<1>13. IF WritesThrough(p) THEN hits * d2 <= extra /\ extra <= hits * (d2 + dm) ELSE extra = 0
  BY <1>1, <1>2 DEF CyclesAddUp, Remaining
<1>14. WritesThrough(p) => hits2 = hits + (IF through /\ ~Missed THEN 1 ELSE 0)
  <2>1. traffic["write_through_writes"] \in Nat
    BY <1>6 DEF Traffic
  <2> QED BY <1>6, <1>7, <1>9, <2>1 DEF Times
<1> HIDE DEF extra, extra2, hits, hits2, d1, d2, dm, through
<1>15. IF WritesThrough(p) THEN hits2 * d2 <= extra2 /\ extra2 <= hits2 * (d2 + dm) ELSE extra2 = 0
  <2>1. (hits + 1) * d2 = hits * d2 + d2 /\ (hits + 1) * (d2 + dm) = hits * (d2 + dm) + (d2 + dm)
    BY <1>4, <1>12
  <2>2. hits * d2 \in Int /\ hits * (d2 + dm) \in Int
    BY <1>4, <1>12
  <2>3. CASE Missed
    <3>1. extra2 = extra
      BY <1>4, <1>5, <1>10, <1>11, <1>12, <2>3 DEF Times
    <3> QED BY <1>13, <1>14, <1>12, <2>3, <3>1
  <2>4. CASE ~Missed /\ through
    <3>1. WritesThrough(p)
      BY <2>4 DEF through
    <3>2. extra2 \in {extra + d2, extra + d2 + dm} /\ hits2 = hits + 1
      BY <1>4, <1>5, <1>11, <1>12, <1>14, <2>4, <3>1
    <3> QED BY <1>4, <1>12, <1>13, <2>1, <2>2, <3>1, <3>2
  <2>5. CASE ~Missed /\ ~through
    <3>1. extra2 = extra
      BY <1>4, <1>5, <1>11, <1>12, <2>5 DEF Times
    <3> QED BY <1>12, <1>13, <1>14, <2>5, <3>1
  <2> QED BY <2>3, <2>4, <2>5
<1> QED BY <1>15 DEF extra2, hits2, d1, d2, dm, Remaining

-----------------------------------------------------------------------------
(* The shadow of a fully associative L1. *)

\* Append adds one element behind the others.
LEMMA AppendShape ==
  ASSUME NEW S, NEW q \in Seq(S), NEW x \in S
  PROVE  /\ Append(q, x) \in Seq(S) /\ Len(q) \in Nat /\ Len(Append(q, x)) = Len(q) + 1
         /\ Append(q, x)[Len(q) + 1] = x
         /\ \A j \in 1..Len(q) : Append(q, x)[j] = q[j]
OBVIOUS

\* An access that fills on a miss leaves set and shadow mirrors of each other: a hit
\* moves the same line, a miss gives up the same one.
LEMMA AccessMirrors ==
  ASSUME NEW Tag, NEW s \in Seq(Entries(Tag)), NEW w \in Nat \ {0}, WellFormedSet(s, w),
         NEW L \in Tag, NEW o \in CacheAccessOptions, o.allocate_on_miss,
         NEW c, DOMAIN c = ClassifierFields, Mirrors(Tag, c, s), c.fa_capacity = w,
         NEW c2, c2.fa_lru = FaAccess(c, L).fa_lru, c2.fa_map = FaAccess(c, L).fa_map
  PROVE  Mirrors(Tag, c2, SetAfter(s, L, o, w))
<1> DEFINE n  == Len(s)
           f  == c.fa_lru
           s2 == SetAfter(s, L, o, w)
           r  == SetResult(s, L, o, w)
<1>1. /\ n \in Nat /\ w \in Nat /\ DOMAIN s = 1..n /\ n <= w
      /\ \A i, j \in 1..n : s[i].tag = s[j].tag => i = j
      /\ \A i \in 1..n : s[i].tag \in Tag
  <2>1. \A i \in 1..n : s[i] \in Entries(Tag)
    OBVIOUS
  <2> QED BY <2>1 DEF WellFormedSet, Entries
<1>2. /\ f \in Seq(Tag) /\ Len(f) = n
      /\ \A i \in 1..n : f[n + 1 - i] = s[i].tag
      /\ \A u : u \in c.fa_map <=> u \in TagsOf(s)
  BY DEF Mirrors
<1>3. \A j \in 1..n : f[j] = s[n + 1 - j].tag
  <2> TAKE j \in 1..n
  <2>1. n + 1 - j \in 1..n /\ n + 1 - (n + 1 - j) = j
    BY <1>1
  <2> QED BY <1>2, <2>1
<1>4. \A u : u \in TagsOf(s) <=> \E i \in 1..n : s[i].tag = u
  BY <1>1 DEF TagsOf
<1>5. \A u : u \in TagsOf(s2) <=>
        IF u = L THEN TRUE
        ELSE u \in TagsOf(s) /\ ~(r.has_eviction /\ r.evicted_tag = u)
  <2>1. /\ s2 \in Seq(Entries(Tag))
        /\ \A u \in Tag :
             u \in TagsOf(s2) <=>
               IF u = L THEN r.hit \/ o.allocate_on_miss
               ELSE u \in TagsOf(s) /\ ~(r.has_eviction /\ r.evicted_tag = u)
    BY SetAccess, SetAfterWellFormed
  <2>2. \A i \in DOMAIN s2 : s2[i] \in Entries(Tag)
    BY <2>1
  <2>3. \A u \in TagsOf(s2) : u \in Tag
    BY <2>2 DEF TagsOf, Entries
  <2>4. \A u \in TagsOf(s) : u \in Tag
    BY <1>1, <1>4
  <2> QED BY <2>1, <2>3, <2>4
<1>6. CASE L \in TagsOf(s)
  <2>1. PICK k \in 1..n : s[k].tag = L
    BY <1>4, <1>6
  <2> DEFINE m == n + 1 - k
             p == Promote(s, L, o)
             q == RemoveAt(f, m)
  <2>2. s2 = p
    BY <1>6 DEF SetAfter
  <2>3. /\ p \in Seq(Entries(Tag)) /\ Len(p) = n
        /\ p[1].tag = L
        /\ \A i \in 2..n : p[i] = IF i <= k THEN s[i - 1] ELSE s[i]
    <3>1. /\ p \in Seq(Entries(Tag)) /\ Len(p) = n
          /\ p[1] = [tag |-> L, dirty |-> s[k].dirty \/ MarksDirty(o)]
          /\ \A i \in 2..n : p[i] = IF i <= k THEN s[i - 1] ELSE s[i]
      BY <1>1, <2>1, PromoteShape
    <3> QED BY <3>1
  <2>4. m \in 1..n /\ f[m] = L /\ \A j \in 1..n : f[j] = L => j = m
    <3>1. m \in 1..n /\ f[m] = L
      BY <1>1, <1>2, <2>1
    <3>2. ASSUME NEW j \in 1..n, f[j] = L
          PROVE  j = m
      <4>1. s[n + 1 - j].tag = s[k].tag /\ n + 1 - j \in 1..n
        BY <1>1, <1>3, <2>1, <3>2
      <4>2. n + 1 - j = k
        BY <1>1, <4>1
      <4> QED BY <1>1, <4>2
    <3> QED BY <3>1, <3>2
  <2>5. NodeOf(c, L) = m
    <3>1. DOMAIN f = 1..n
      BY <1>2
    <3> QED BY <2>4, <3>1 DEF NodeOf
  <2>6. FaHit(c, L)
    BY <1>2, <1>6 DEF FaHit
  <2>7. c2.fa_lru = Append(q, L) /\ c2.fa_map = c.fa_map \cup {L}
    BY <2>5, <2>6 DEF FaAccess, ClassifierFields
  <2>8. /\ q \in Seq(Tag) /\ Len(q) = n - 1
        /\ \A j \in 1..(n - 1) : q[j] = IF j < m THEN f[j] ELSE f[j + 1]
    <3>1. m \in 1..Len(f) /\ f \in Seq(Tag) /\ Len(f) = n
      BY <1>2, <2>4
    <3> HIDE DEF m, f
    <3>2. /\ q \in Seq(Tag) /\ Len(q) = Len(f) - 1
          /\ \A j \in 1..(Len(f) - 1) : q[j] = IF j < m THEN f[j] ELSE f[j + 1]
      BY <3>1, RemoveShape
    <3> QED BY <3>1, <3>2
  <2> HIDE DEF p, q
  <2>9. /\ Append(q, L) \in Seq(Tag) /\ Len(Append(q, L)) = n
        /\ Append(q, L)[n] = L
        /\ \A j \in 1..(n - 1) : Append(q, L)[j] = q[j]
    <3>1. /\ Append(q, L) \in Seq(Tag) /\ Len(Append(q, L)) = Len(q) + 1
          /\ Append(q, L)[Len(q) + 1] = L
          /\ \A j \in 1..Len(q) : Append(q, L)[j] = q[j]
      BY <2>8, AppendShape
    <3>2. Len(q) + 1 = n
      BY <1>1, <2>8
    <3> QED BY <2>8, <3>1, <3>2
  <2>10. ASSUME NEW i \in 1..n
         PROVE  Append(q, L)[n + 1 - i] = p[i].tag
    <3>1. CASE i = 1
      BY <1>1, <2>3, <2>9, <3>1
    <3>2. CASE i # 1
      <4>1. n + 1 - i \in 1..(n - 1) /\ i \in 2..n /\ i - 1 \in 1..n
        BY <1>1, <3>2
      <4>2. Append(q, L)[n + 1 - i] = IF n + 1 - i < m THEN f[n + 1 - i] ELSE f[(n + 1 - i) + 1]
        BY <2>8, <2>9, <4>1
      <4>3. CASE i <= k
        <5>1. ~(n + 1 - i < m) /\ (n + 1 - i) + 1 = n + 1 - (i - 1)
          BY <1>1, <4>1, <4>3
        <5>2. f[n + 1 - (i - 1)] = s[i - 1].tag
          BY <1>2, <4>1
        <5> QED BY <2>3, <4>1, <4>2, <4>3, <5>1, <5>2
      <4>4. CASE ~(i <= k)
        <5>1. n + 1 - i < m
          BY <1>1, <4>1, <4>4
        <5>2. f[n + 1 - i] = s[i].tag
          BY <1>2
        <5> QED BY <2>3, <4>1, <4>2, <4>4, <5>1, <5>2
      <4> QED BY <4>3, <4>4
    <3> QED BY <3>1, <3>2
  <2>11. ~r.has_eviction
    BY <1>6 DEF SetResult
  <2>12. c2.fa_map = TagsOf(s2)
    BY <1>2, <1>5, <2>7, <2>11
  <2> HIDE DEF s2
  <2>13. /\ c2.fa_lru \in Seq(Tag) /\ Len(c2.fa_lru) = Len(s2)
         /\ \A i \in 1..Len(s2) : c2.fa_lru[Len(s2) + 1 - i] = s2[i].tag
    BY <2>2, <2>3, <2>7, <2>9, <2>10
  <2> QED BY <2>12, <2>13 DEF Mirrors, s2
<1>7. CASE L \notin TagsOf(s)
  <2> DEFINE p  == Fill(s, L, o, w)
             ev == n >= w
             q  == IF ev THEN Tail(f) ELSE f
  <2>1. s2 = p
    BY <1>7 DEF SetAfter
  <2>2. /\ p \in Seq(Entries(Tag)) /\ Len(p) = IF ev THEN n ELSE n + 1
        /\ p[1].tag = L
        /\ \A i \in 2..Len(p) : p[i] = s[i - 1]
    <3>1. /\ p \in Seq(Entries(Tag)) /\ Len(p) = IF Evicts(s, w) THEN n ELSE n + 1
          /\ p[1] = [tag |-> L, dirty |-> MarksDirty(o)]
          /\ \A i \in 2..Len(p) : p[i] = s[i - 1]
      BY <1>1, FillShape
    <3> QED BY <3>1 DEF Evicts
  <2>3. ~FaHit(c, L) /\ (FaFull(c) <=> ev)
    BY <1>2, <1>7 DEF FaHit, FaFull
  <2>4. /\ c2.fa_lru = Append(q, L)
        /\ c2.fa_map = (IF ev THEN c.fa_map \ {Head(f)} ELSE c.fa_map) \cup {L}
    BY <2>3 DEF FaAccess, ClassifierFields
  <2>5. /\ q \in Seq(Tag) /\ Len(q) = IF ev THEN n - 1 ELSE n
        /\ \A j \in 1..Len(q) : q[j] = IF ev THEN f[j + 1] ELSE f[j]
    BY <1>1, <1>2
  <2>6. ev => n \in 1..n /\ 1 \in 1..n /\ Head(f) = s[n].tag
    BY <1>1, <1>2, <1>3
  <2>7. /\ r.has_eviction <=> ev
        /\ ev => r.evicted_tag = s[n].tag
    BY <1>1, <1>7 DEF SetResult, Evicts, Last
  <2>8. c2.fa_map = TagsOf(s2)
    BY <1>2, <1>5, <2>4, <2>6, <2>7
  <2> HIDE DEF p, q
  <2>9. /\ Append(q, L) \in Seq(Tag) /\ Len(Append(q, L)) = Len(p) /\ Len(p) = Len(q) + 1
        /\ Append(q, L)[Len(p)] = L
        /\ \A j \in 1..Len(q) : Append(q, L)[j] = q[j]
    <3>1. /\ Append(q, L) \in Seq(Tag) /\ Len(Append(q, L)) = Len(q) + 1
          /\ Append(q, L)[Len(q) + 1] = L
          /\ \A j \in 1..Len(q) : Append(q, L)[j] = q[j]
      BY <2>5, AppendShape
    <3>2. Len(q) + 1 = Len(p)
      <4>1. n \in Nat /\ Len(p) = (IF ev THEN n ELSE n + 1) /\ Len(q) = (IF ev THEN n - 1 ELSE n)
        BY <1>1, <2>2, <2>5, Zenon
      <4> QED BY <4>1
    <3> QED BY <3>1, <3>2
  <2>10. ASSUME NEW i \in 1..Len(p)
         PROVE  Append(q, L)[Len(p) + 1 - i] = p[i].tag
    <3>0. Len(p) \in Nat /\ Len(q) \in Nat
      BY <2>2, <2>5
    <3>1. CASE i = 1
      <4>1. Len(p) + 1 - i = Len(p)
        BY <3>0, <3>1
      <4> QED BY <2>2, <2>9, <3>1, <4>1
    <3>2. CASE i # 1
      <4>1. Len(p) + 1 - i \in 1..Len(q) /\ i \in 2..Len(p) /\ i - 1 \in 1..n
        <5>1. Len(p) = Len(q) + 1 /\ Len(p) = (IF ev THEN n ELSE n + 1) /\ n \in Nat
          BY <1>1, <2>2, <2>9, Zenon
        <5> QED BY <3>0, <3>2, <5>1, SMTT(30)
      <4>2. Append(q, L)[Len(p) + 1 - i]
              = IF ev THEN f[(Len(p) + 1 - i) + 1] ELSE f[Len(p) + 1 - i]
        BY <2>5, <2>9, <4>1
      <4>3. /\ i \in Nat
            /\ ev => (Len(p) + 1 - i) + 1 = n + 1 - (i - 1)
            /\ ~ev => Len(p) + 1 - i = n + 1 - (i - 1)
        BY <1>1, <2>2, <3>0
      <4>4. f[n + 1 - (i - 1)] = s[i - 1].tag
        BY <1>2, <4>1
      <4> QED BY <2>2, <4>1, <4>2, <4>3, <4>4
    <3> QED BY <3>1, <3>2
  <2> HIDE DEF s2
  <2>11. /\ c2.fa_lru \in Seq(Tag) /\ Len(c2.fa_lru) = Len(s2)
         /\ \A i \in 1..Len(s2) : c2.fa_lru[Len(s2) + 1 - i] = s2[i].tag
    BY <2>1, <2>4, <2>9, <2>10
  <2> QED BY <2>8, <2>11 DEF Mirrors, s2
<1> QED BY <1>6, <1>7

\* A mirrored core's L1 is one set, in which a line is its own tag.
LEMMA MirroredSet ==
  ASSUME SimInv, NEW core \in Cores, Mirrored(core)
  PROVE  LET p == config.l1[core]
         IN  /\ p \in LevelParams /\ p.num_sets = 1 /\ p.num_ways \in Nat \ {0} /\ p.write_allocate
             /\ l1_lines[core] = p.num_ways
             /\ SoundLevel(l1s[core], p)
             /\ l1s[core][0] \in Seq(Entries(Nat)) /\ WellFormedSet(l1s[core][0], p.num_ways)
             /\ \A line \in Nat : /\ TagOf(line, p.num_sets) = line /\ SetIndexOf(line, p.num_sets) = 0
                                  /\ Holds(l1s[core], p, line) <=> line \in TagsOf(l1s[core][0])
<1> DEFINE p == config.l1[core]
<1>1. p \in LevelParams /\ SoundLevel(l1s[core], p)
  BY InvLevels DEF SimInv
<1>2. p.num_sets = 1 /\ p.write_allocate /\ l1_lines[core] = p.num_ways
  BY DEF Mirrored
<1>3. p.num_ways \in Nat \ {0}
  BY <1>1 DEF LevelParams
<1>4. SetIndices(p) = {0}
  BY <1>2 DEF SetIndices
<1>5. l1s[core][0] \in Seq(Entries(Nat)) /\ WellFormedSet(l1s[core][0], p.num_ways)
  <2>1. l1s[core] \in Levels(p) /\ WellFormedLevel(l1s[core], p)
    BY <1>1 DEF SoundLevel
  <2> QED BY <1>4, <2>1 DEF Levels, WellFormedLevel
<1>6. \A line \in Nat : TagOf(line, p.num_sets) = line /\ SetIndexOf(line, p.num_sets) = 0
  BY <1>2 DEF TagOf, SetIndexOf
<1>7. \A line \in Nat : Holds(l1s[core], p, line) <=> line \in TagsOf(l1s[core][0])
  BY <1>6 DEF Holds
<1> QED BY <1>1, <1>2, <1>3, <1>5, <1>6, <1>7

\* The classifier an event finds or makes mirrors the L1 it finds.
LEMMA FoundMirror ==
  ASSUME SimInv, NEW core \in Cores, Mirrored(core)
  PROVE  Mirrors(Nat, ClassifierFor(core), l1s[core][0])
<1>1. CASE core \in DOMAIN classifiers
  BY <1>1 DEF ClassifierFor, SimInv, ShadowsMirror
<1>2. CASE core \notin DOMAIN classifiers
  <2> DEFINE s == l1s[core][0]
  <2>1. /\ s \in Seq(Entries(Nat))
        /\ \A line \in Nat : Holds(l1s[core], config.l1[core], line) <=> line \in TagsOf(s)
    BY MirroredSet
  <2>2. \A line \in Nat : line \notin TagsOf(s)
    BY <1>2, <2>1 DEF SimInv, HeldIsSeen
  <2>3. Len(s) = 0
    <3>1. SUFFICES ASSUME Len(s) # 0 PROVE FALSE
      OBVIOUS
    <3>2. 1 \in DOMAIN s /\ s[1] \in Entries(Nat)
      BY <2>1, <3>1
    <3>3. s[1].tag \in Nat /\ s[1].tag \in TagsOf(s)
      BY <3>2 DEF Entries, TagsOf
    <3> QED BY <2>2, <3>3
  <2>4. s = << >>
    BY <2>1, <2>3
  <2>5. TagsOf(s) = {}
    BY <2>4 DEF TagsOf
  <2>6. /\ ClassifierFor(core).fa_lru = << >> /\ ClassifierFor(core).fa_map = {}
    BY <1>2 DEF ClassifierFor, NewClassifier
  <2> QED BY <2>3, <2>5, <2>6 DEF Mirrors
<1> QED BY <1>1, <1>2

\* An event leaves every fully associative L1 and its shadow mirrors, and finds no
\* conflict in a mirrored one.
LEMMA MirrorKeeps ==
  ASSUME SimInv, NEW e \in Events, Simulate(e)
  PROVE  ShadowsMirror' /\ FullyAssociativeHasNoConflict'
<1> DEFINE core == e.core_id
           L    == e.cache_line
           st   == e.op = "store"
           p    == config.l1[core]
           o    == OptionsFor(st, p)
<1>1. /\ core \in Cores /\ L \in Lines /\ L \in Nat /\ st \in BOOLEAN /\ e.op \in Ops
      /\ Access(core, L, st) /\ config' = config /\ l1_lines' = l1_lines
      /\ (Missed <=> ~Holds(l1s[core], p, L))
      /\ Inv /\ CountersTyped /\ ClassifiersTyped /\ ShadowsMirror /\ FullyAssociativeHasNoConflict
  BY EventFacts DEF SimInv
<1>2. \A c : Mirrored(c)' <=> Mirrored(c)
  BY <1>1 DEF Mirrored
<1>3. /\ l1s' = [l1s EXCEPT ![core] = L1After(core, L, st)]
      /\ DOMAIN l1s = Cores
  BY <1>1 DEF Access, AbsorbedHit, WriteThroughHit, Miss, TouchL1, Inv, TypeOK
<1>4. /\ DOMAIN classifiers' = DOMAIN classifiers \cup {core}
      /\ \A other \in DOMAIN classifiers \ {core} : classifiers'[other] = classifiers[other]
      /\ DOMAIN ClassifierFor(core) = ClassifierFields
      /\ ClassifierFor(core).fa_capacity = l1_lines[core]
      /\ classifiers'[core].fa_lru = FaAccess(ClassifierFor(core), L).fa_lru
      /\ classifiers'[core].fa_map = FaAccess(ClassifierFor(core), L).fa_map
  BY <1>1, ClassifierAfter
<1>5. ASSUME Mirrored(core)
      PROVE  Mirrors(Nat, classifiers'[core], l1s'[core][0])
  <2> DEFINE s == l1s[core][0]
             w == p.num_ways
  <2>1. /\ p \in LevelParams /\ p.num_sets = 1 /\ w \in Nat \ {0} /\ p.write_allocate
        /\ l1_lines[core] = w
        /\ l1s[core] \in Levels(p)
        /\ s \in Seq(Entries(Nat)) /\ WellFormedSet(s, w)
        /\ TagOf(L, p.num_sets) = L /\ SetIndexOf(L, p.num_sets) = 0
    BY <1>1, <1>5, MirroredSet DEF SoundLevel
  <2>2. o \in CacheAccessOptions /\ o.allocate_on_miss
    BY <1>1, <2>1, OptionsType
  <2>3. Mirrors(Nat, ClassifierFor(core), s)
    BY <1>1, <1>5, FoundMirror
  <2>4. l1s'[core][0] = SetAfter(s, L, o, w)
    <3>1. l1s'[core] = LevelAfter(l1s[core], p, L, o)
      BY <1>1, <1>3 DEF L1After
    <3>2. 0 \in DOMAIN l1s[core]
      BY <2>1 DEF Levels, SetIndices
    <3> QED BY <2>1, <3>1, <3>2 DEF LevelAfter
  <2> HIDE DEF s, w, o
  <2>5. Mirrors(Nat, classifiers'[core], SetAfter(s, L, o, w))
    BY <1>1, <1>4, <2>1, <2>2, <2>3, AccessMirrors
  <2> QED BY <2>4, <2>5
<1>6. ShadowsMirror'
  <2>1. ASSUME NEW c \in DOMAIN classifiers', Mirrored(c)
        PROVE  Mirrors(Nat, classifiers'[c], l1s'[c][0])
    <3>1. CASE c = core
      BY <1>5, <2>1, <3>1
    <3>2. CASE c # core
      <4>1. c \in DOMAIN classifiers /\ classifiers'[c] = classifiers[c]
        BY <1>4, <2>1, <3>2
      <4>2. c \in Cores
        BY <1>1, <4>1 DEF ClassifiersTyped
      <4>3. l1s'[c] = l1s[c]
        BY <1>3, <3>2, <4>2
      <4> QED BY <1>1, <2>1, <4>1, <4>3 DEF ShadowsMirror
    <3> QED BY <3>1, <3>2
  <2> QED BY <1>2, <2>1 DEF ShadowsMirror
<1>7. ASSUME \A c \in Cores : Mirrored(c)
      PROVE  stats'.Conflict = 0
  <2>1. stats.Conflict = 0
    BY <1>1, <1>7 DEF FullyAssociativeHasNoConflict
  <2>2. stats'.Conflict = stats.Conflict + Times(Missed /\ "Conflict" \in {e.op, MissedAs(e)}, 1)
    BY <1>1, MissCounts DEF MissCounters
  <2>3. Missed => MissedAs(e) # "Conflict"
    <3>1. Mirrors(Nat, ClassifierFor(core), l1s[core][0])
      BY <1>1, <1>7, FoundMirror
    <3>2. Holds(l1s[core], p, L) <=> L \in TagsOf(l1s[core][0])
      BY <1>1, <1>7, MirroredSet
    <3>3. Missed => ~FaHit(ClassifierFor(core), L)
      BY <1>1, <3>1, <3>2 DEF Mirrors, FaHit
    <3> QED BY <3>3 DEF MissedAs, MissType
  <2>4. "Conflict" # e.op
    BY <1>1 DEF Ops
  <2> QED BY <2>1, <2>2, <2>3, <2>4 DEF Times
<1>8. FullyAssociativeHasNoConflict'
  BY <1>2, <1>7 DEF FullyAssociativeHasNoConflict
<1> QED BY <1>6, <1>8

-----------------------------------------------------------------------------
\* The simulation starts with empty tables, no classifiers and empty caches.
LEMMA SimInitInv == SimInit => SimInv
<1> SUFFICES ASSUME SimInit PROVE SimInv
  OBVIOUS
<1>1. /\ Init /\ Inv /\ classifiers = << >> /\ stats = NewMissStats
      /\ cache_stats = NewSimulationStats /\ attribution = NewAttribution
  BY InitInv DEF SimInit
<1>2. DOMAIN classifiers = {} /\ Footprint = {}
  BY <1>1 DEF Footprint
<1>3. /\ stats.by_object = << >> /\ DOMAIN stats.by_object = {} /\ stats.Conflict = 0
      /\ \A n \in MissCounters : stats[n] = 0
      /\ DOMAIN stats = MissCounters \cup {"by_object"}
  BY <1>1 DEF NewMissStats, MissCounters
<1>4. /\ DOMAIN attribution = {"inclusive", "exclusive", "objects", "load", "store"}
      /\ attribution.inclusive = << >> /\ attribution.exclusive = << >>
      /\ attribution.objects = << >> /\ attribution.load = 0 /\ attribution.store = 0
      /\ DOMAIN attribution.inclusive = {} /\ DOMAIN attribution.exclusive = {}
  BY <1>1 DEF NewAttribution
<1>5. /\ totals = [n \in Totals |-> 0] /\ traffic = [n \in Traffic |-> 0]
      /\ DOMAIN cache_stats.objects = {}
  BY <1>1 DEF NewSimulationStats, totals, traffic, Zero
<1>6. IsFiniteSet({}) /\ Cardinality({}) = 0
  BY FS_EmptySet
<1>7. CountedIn(stats.by_object) = {} /\ CountedIn(attribution.exclusive) = {}
  BY <1>3, <1>4 DEF CountedIn
<1>8. IsCounts(stats.by_object) /\ IsCounts(attribution.inclusive) /\ IsCounts(attribution.exclusive)
  BY <1>3, <1>4 DEF IsCounts
<1>9. CountersTyped /\ ClassifiersTyped /\ RowsCoverMisses
  BY <1>2, <1>3, <1>4, <1>5, <1>8 DEF CountersTyped, ClassifiersTyped, RowsCoverMisses
<1>10. HeldIsSeen
  <2>1. ASSUME NEW core \in Cores, NEW line \in Nat
        PROVE  ~Holds(l1s[core], config.l1[core], line)
    <3>1. config.l1[core] \in LevelParams
      BY <1>1, InvLevels
    <3>2. l1s[core] = EmptyLevel(config.l1[core])
      BY <1>1 DEF Init
    <3> QED BY <3>1, <3>2, ParamsAreGeometry, EmptyLevelFacts
  <2> QED BY <2>1 DEF HeldIsSeen
<1>11. IsFiniteSet(Footprint) /\ ColdIsFootprint
  BY <1>2, <1>3, <1>6 DEF ColdIsFootprint, MissCounters
<1>12. Countable(stats.by_object) /\ IsFiniteSet(CountedIn(attribution.exclusive))
  BY <1>3, <1>6, <1>7 DEF Countable
<1>13. ReportsAgree
  <2>1. /\ stats.Cold = 0 /\ stats.Capacity = 0 /\ stats.Conflict = 0
        /\ stats.load = 0 /\ stats.store = 0
        /\ totals["l1_misses"] = 0 /\ totals["l1_hits"] = 0 /\ totals["total_accesses"] = 0
        /\ totals["l2_hits"] = 0 /\ totals["memory_accesses"] = 0
    BY <1>3, <1>5 DEF MissCounters, Totals
  <2>2. stats.by_object = attribution.objects /\ stats.load = attribution.load
        /\ stats.store = attribution.store
    BY <2>1, <1>3, <1>4
  <2>3. Cardinality(CountedIn(attribution.exclusive)) = 0
    BY <1>6, <1>7
  <2> QED BY <2>1, <2>2, <2>3, <1>5 DEF ReportsAgree
<1>14. RegionsNest
  BY <1>4 DEF RegionsNest
<1>15. CyclesAddUp
  <2>1. /\ traffic["write_through_writes"] = 0 /\ traffic["delay_cycles"] = 0
        /\ traffic["writeback_cycles"] = 0 /\ stats.store = 0
        /\ totals["l1_misses"] = 0 /\ totals["total_accesses"] = 0
        /\ totals["memory_accesses"] = 0
    BY <1>3, <1>5 DEF MissCounters, Totals, Traffic
  <2>2. ASSUME NEW core \in Cores
        PROVE  /\ config.l1[core].delay_cycles \in Nat /\ config.l2.delay_cycles \in Nat
               /\ config.mem_delay \in Nat
    BY <1>1, InvLevels, ParamsAreGeometry DEF HierarchyParams
  <2> QED BY <2>1, <2>2 DEF CyclesAddUp
<1>16. ShadowsMirror /\ FullyAssociativeHasNoConflict
  BY <1>2, <1>3 DEF ShadowsMirror, FullyAssociativeHasNoConflict
<1> QED BY <1>1, <1>9, <1>10, <1>11, <1>12, <1>13, <1>14, <1>15, <1>16 DEF SimInv

\* An event keeps the invariant.
LEMMA SimStepInv == SimInv /\ [SimNext]_simVars => SimInv'
<1> SUFFICES ASSUME SimInv, [SimNext]_simVars PROVE SimInv'
  OBVIOUS
<1>1. CASE UNCHANGED simVars
  <2>1. Inv'
    BY <1>1, StepInv DEF SimInv, simVars
  <2>2. /\ l1s' = l1s /\ config' = config /\ l1_lines' = l1_lines /\ classifiers' = classifiers
        /\ stats' = stats /\ cache_stats' = cache_stats /\ attribution' = attribution
    BY <1>1 DEF simVars, vars
  <2>3. totals' = totals /\ traffic' = traffic /\ Footprint' = Footprint
    BY <2>2 DEF totals, traffic, Footprint
  <2>4. CountersTyped' /\ ClassifiersTyped' /\ HeldIsSeen' /\ RowsCoverMisses'
    BY <2>2, <2>3 DEF SimInv, CountersTyped, ClassifiersTyped, HeldIsSeen, RowsCoverMisses
  <2>5. IsFiniteSet(Footprint') /\ ColdIsFootprint'
    BY <2>2, <2>3 DEF SimInv, ColdIsFootprint
  <2>6. Countable(stats'.by_object) /\ IsFiniteSet(CountedIn(attribution'.exclusive))
    BY <2>2 DEF SimInv
  <2>7. ReportsAgree' /\ RegionsNest'
    BY <2>2, <2>3 DEF SimInv, ReportsAgree, RegionsNest
  <2>8. CyclesAddUp'
    BY <2>2, <2>3 DEF SimInv, CyclesAddUp
  <2>9. ShadowsMirror' /\ FullyAssociativeHasNoConflict'
    BY <2>2 DEF SimInv, ShadowsMirror, FullyAssociativeHasNoConflict, Mirrored
  <2> QED BY <2>1, <2>4, <2>5, <2>6, <2>7, <2>8, <2>9 DEF SimInv
<1>2. ASSUME NEW e \in Events, Simulate(e) PROVE SimInv'
  <2>1. Inv'
    BY <1>2, EventFacts DEF SimInv
  <2>2. CountersTyped' /\ ClassifiersTyped'
    BY <1>2, TypesKeep
  <2>3. /\ RowsCoverMisses' /\ Countable(stats'.by_object)
        /\ IsFiniteSet(CountedIn(attribution'.exclusive)) /\ ReportsAgree'
    BY <1>2, TablesKeep
  <2>4. RegionsNest'
    BY <1>2, RegionsKeep
  <2>5. HeldIsSeen' /\ IsFiniteSet(Footprint') /\ ColdIsFootprint'
    BY <1>2, FootprintKeeps
  <2>6. CyclesAddUp'
    BY <1>2, CyclesKeep
  <2>7. ShadowsMirror' /\ FullyAssociativeHasNoConflict'
    BY <1>2, MirrorKeeps
  <2> QED BY <2>1, <2>2, <2>3, <2>4, <2>5, <2>6, <2>7 DEF SimInv
<1> QED BY <1>1, <1>2 DEF SimNext

\* The invariant holds throughout the loop.
THEOREM SimInvHolds == SimSpec => []SimInv
BY SimInitInv, SimStepInv, PTL DEF SimSpec

-----------------------------------------------------------------------------
(* What a report may rely on. *)

\* MissStats, Attribution and SimulationStats, each counted by code of its own,
\* agree on every miss, whatever the program and the hierarchy.
THEOREM TablesAgree == SimSpec => []ReportsAgree
BY SimInvHolds, PTL DEF SimInv

\* Attribution::record never gives a region more misses of its own than it has
\* with the regions below it, nor more than the program has.
THEOREM RegionsAreNested == SimSpec => []RegionsNest
BY SimInvHolds, PTL DEF SimInv

\* The cold misses MissClassifier finds are the lines the cores ever touched, one
\* each, however the caches replace and whatever the policies.
THEOREM ColdMissesAreFootprint == SimSpec => []ColdIsFootprint
BY SimInvHolds, PTL DEF SimInv

\* The delay cycles CacheHierarchy::access adds up are those of the levels
\* record_access counts, but for the write-backs and the stores written through.
THEOREM CyclesAreAccounted == SimSpec => []CyclesAddUp
BY SimInvHolds, PTL DEF SimInv

\* No conflict is found where every L1 is its own shadow.
THEOREM NoConflictWithoutSets == SimSpec => []FullyAssociativeHasNoConflict
BY SimInvHolds, PTL DEF SimInv

\* The list of a MissClassifier and the one set of a fully associative L1 hold the
\* same lines, the oldest first in the one and last in the other.
THEOREM ShadowIsL1 == SimSpec => []ShadowMirrorsL1
<1>1. SimInv => ShadowMirrorsL1
  <2> SUFFICES ASSUME SimInv, NEW core \in DOMAIN classifiers, Mirrored(core)
               PROVE  Reverse(classifiers[core].fa_lru)
                        = [i \in DOMAIN l1s[core][0] |-> l1s[core][0][i].tag]
    BY DEF ShadowMirrorsL1
  <2> DEFINE q == classifiers[core].fa_lru
             s == l1s[core][0]
  <2>1. core \in Cores
    BY DEF SimInv, ClassifiersTyped
  <2>2. s \in Seq(Entries(Nat))
    BY <2>1, MirroredSet
  <2>3. /\ Len(q) = Len(s)
        /\ \A i \in 1..Len(s) : q[Len(s) + 1 - i] = s[i].tag
    BY DEF SimInv, ShadowsMirror, Mirrors
  <2>4. DOMAIN s = 1..Len(s) /\ Len(s) \in Nat
    BY <2>2
  <2> HIDE DEF q, s
  <2>5. \A i \in 1..Len(s) : q[(Len(s) - i) + 1] = s[i].tag
    <3>1. \A i \in 1..Len(s) : (Len(s) - i) + 1 = Len(s) + 1 - i
      BY <2>4
    <3> QED BY <2>3, <3>1
  <2>6. Reverse(q) = [i \in 1..Len(s) |-> s[i].tag]
    BY <2>3, <2>5 DEF Reverse
  <2> QED BY <2>4, <2>6 DEF q, s
<1> QED BY <1>1, SimInvHolds, PTL

-----------------------------------------------------------------------------
(* The hints. *)

\* Pairs of one thing with each of several others are as many as the others.
LEMMA SingletonProduct ==
  ASSUME NEW x, NEW T, IsFiniteSet(T)
  PROVE  IsFiniteSet({x} \X T) /\ Cardinality({x} \X T) = Cardinality(T)
<1>1. IsFiniteSet({x}) /\ Cardinality({x}) = 1
  BY FS_Singleton
<1>2. IsFiniteSet({x} \X T) /\ Cardinality({x} \X T) = Cardinality({x}) * Cardinality(T)
  BY <1>1, FS_Product
<1>3. Cardinality(T) \in Nat
  BY FS_CardinalityType
<1> QED BY <1>1, <1>2, <1>3

\* Two objects with as many misses as any have no more than half of them each.
LEMMA LeadersShare ==
  ASSUME NEW B, IsCounts(B), IsFiniteSet(CountedIn(B)),
         NEW o \in Leaders(B), NEW p \in Leaders(B), o # p
  PROVE  2 * B[o] <= Cardinality(CountedIn(B))
<1> DEFINE total == Cardinality(CountedIn(B))
           n     == B[o]
           mine  == {o} \X (1..n)
           other == {p} \X (1..n)
<1>1. o \in DOMAIN B /\ p \in DOMAIN B /\ B[o] = B[p] /\ n \in Nat
  BY DEF Leaders, IsCounts
<1>2. mine \subseteq CountedIn(B) /\ other \subseteq CountedIn(B) /\ mine \cap other = {}
  BY <1>1 DEF CountedIn
<1>3. IsFiniteSet(1..n) /\ Cardinality(1..n) = n
  BY <1>1, FS_Interval
<1>4. IsFiniteSet(mine) /\ Cardinality(mine) = n
  BY <1>3, SingletonProduct
<1>5. IsFiniteSet(other) /\ Cardinality(other) = n
  BY <1>3, SingletonProduct
<1>6. IsFiniteSet(mine \cup other) /\ Cardinality(mine \cup other) = n + n
  <2>1. Cardinality(mine \cup other) = n + n - Cardinality({}) /\ IsFiniteSet(mine \cup other)
    BY <1>2, <1>4, <1>5, FS_Union
  <2> QED BY <1>1, <2>1, FS_EmptySet
<1>7. total \in Nat /\ Cardinality(mine \cup other) <= total
  BY <1>2, FS_Subset, FS_CardinalityType
<1> QED BY <1>1, <1>6, <1>7

\* The hints of any counters whose objects can be counted.
LEMMA OneAnswer ==
  ASSUME CountersTyped, Countable(stats.by_object)
  PROVE  HintsAreDetermined
<1> DEFINE B     == stats.by_object
           typed == stats.Cold + stats.Capacity + stats.Conflict
           total == Cardinality(CountedIn(B))
           kinds == {h[1] : h \in ShareHints(stats)}
           named(o)  == IF Exceeds(B[o], total) THEN {o} ELSE {}
           answer(o) == [kinds |-> kinds, object_targeted |-> named(o)]
<1>1. /\ IsCounts(B) /\ IsFiniteSet(CountedIn(B)) /\ (B = << >> \/ Leaders(B) # {})
      /\ stats.Cold \in Nat /\ stats.Capacity \in Nat /\ stats.Conflict \in Nat
  BY DEF CountersTyped, Countable, MissCounters
<1>2. total \in Nat
  BY <1>1, FS_CardinalityType
<1>3. Generated(stats) = IF B = << >> THEN {[kinds |-> kinds, object_targeted |-> {}]}
                         ELSE {answer(o) : o \in Leaders(B)}
  BY DEF Generated
<1>4. ASSUME NEW o \in Leaders(B), NEW p \in Leaders(B) PROVE named(p) = named(o)
  <2>1. CASE o # p
    <3>1. 2 * B[o] <= total /\ 2 * B[p] <= total
      BY <1>1, <1>4, <2>1, LeadersShare
    <3>2. B[o] \in Nat /\ B[p] \in Nat
      BY <1>1 DEF Leaders, IsCounts
    <3>3. ~Exceeds(B[o], total) /\ ~Exceeds(B[p], total)
      BY <1>2, <3>1, <3>2 DEF Exceeds
    <3> QED BY <3>3
  <2> QED BY <2>1
<1>5. \E a : Generated(stats) = {a} /\ a.kinds = kinds
  <2> HIDE DEF kinds, named, total, B
  <2>1. CASE B = << >>
    <3> DEFINE a == [kinds |-> kinds, object_targeted |-> {}]
    <3>1. Generated(stats) = {a} /\ a.kinds = kinds
      BY <1>3, <2>1
    <3> QED BY <3>1
  <2>2. CASE B # << >>
    <3>1. PICK o \in Leaders(B) : TRUE
      BY <1>1, <2>2
    <3>2. \A p \in Leaders(B) : answer(p) = answer(o)
      BY <1>4
    <3>3. answer(o).kinds = kinds
      OBVIOUS
    <3> HIDE DEF answer
    <3>4. {answer(p) : p \in Leaders(B)} = {answer(o)}
      BY <3>2
    <3>5. Generated(stats) = {answer(o)}
      BY <1>3, <2>2, <3>4
    <3> QED BY <3>3, <3>5
  <2> QED BY <2>1, <2>2
<1>6. ~({"conflict_padding", "capacity_blocking"} \subseteq kinds)
  <2>1. SUFFICES ASSUME "conflict_padding" \in kinds, "capacity_blocking" \in kinds
                 PROVE  FALSE
    OBVIOUS
  <2>2. Exceeds(stats.Conflict, typed)
    BY <2>1 DEF ShareHints
  <2>3. Exceeds(stats.Capacity, typed)
    BY <2>1 DEF ShareHints
  <2> QED BY <1>1, <2>2, <2>3 DEF Exceeds
<1>7. PICK a : Generated(stats) = {a} /\ a.kinds = kinds
  BY <1>5
<1>8. Cardinality(Generated(stats)) = 1
  BY <1>7, FS_Singleton
<1> HIDE DEF kinds
<1>9. \A hints \in Generated(stats) : hints.kinds = kinds
  BY <1>7
<1> QED BY <1>6, <1>8, <1>9 DEF HintsAreDetermined

\* Diagnostics::generate has one answer, however the misses' unordered_map is
\* iterated: objects with equally many misses are both below the threshold.
THEOREM HintsHaveOneAnswer == SimSpec => []HintsAreDetermined
<1>1. SimInv => HintsAreDetermined
  BY OneAnswer DEF SimInv
<1> QED BY <1>1, SimInvHolds, PTL

-----------------------------------------------------------------------------
(* Sorting.  A relation is a set of pairs; it is a weak order when what it does *)
(* not tell apart it does not tell apart from anything else either.            *)

IsWeakOrder(R, N) ==
  /\ \A a, b \in N : <<a, b>> \in R => <<b, a>> \notin R
  /\ \A a, b, c \in N : <<a, c>> \in R => <<a, b>> \in R \/ <<b, c>> \in R

\* All of N, each once.
Enumerates(f, n, N) == f \in Bijection(1..n, N)

\* Nothing comes after what it is before.
InOrder(f, n, R) == \A i, j \in 1..n : i < j => <<f[j], f[i]>> \notin R

\* The places are related as their names are.
Relates(before, n, f, R) ==
  \A p \in (1..n) \X (1..n) : p \in before <=> <<f[p[1]], f[p[2]]>> \in R

\* The rows, sorted, are those of the names in their order.
Sorts(at, rows, before, n, f, N, R) ==
  /\ SortedBy(rows, before) = [k \in 1..n |-> rows[at[k]]]
  /\ Enumerates([k \in 1..n |-> f[at[k]]], n, N)
  /\ InOrder([k \in 1..n |-> f[at[k]]], n, R)

\* The k-th of a sorted list is not before the k-th of another.
LEMMA NoneBefore ==
  ASSUME NEW N, NEW R, IsWeakOrder(R, N), NEW n \in Nat,
         NEW f, NEW g, Enumerates(f, n, N), Enumerates(g, n, N),
         InOrder(f, n, R), InOrder(g, n, R), NEW k \in 1..n
  PROVE  <<f[k], g[k]>> \notin R
<1> SUFFICES ASSUME <<f[k], g[k]>> \in R PROVE FALSE
  OBVIOUS
<1> DEFINE h == [i \in 1..k |-> CHOOSE j \in 1..n : g[j] = f[i]]
<1>1. /\ f \in [1..n -> N] /\ g \in [1..n -> N] /\ \A a \in N : \E j \in 1..n : g[j] = a
      /\ \A i, j \in 1..n : f[i] = f[j] => i = j
  BY DEF Enumerates, Bijection, Injection, Surjection, IsInjective
<1>2. ASSUME NEW i \in 1..k PROVE h[i] \in 1..(k - 1) /\ g[h[i]] = f[i]
  <2>1. i \in 1..n /\ f[i] \in N /\ k \in Nat /\ 1 <= k /\ f[k] \in N /\ g[k] \in N
    BY <1>1
  <2>2. h[i] \in 1..n /\ g[h[i]] = f[i]
    BY <1>1, <2>1
  <2>3. <<f[i], g[k]>> \in R
    <3>1. CASE i = k
      BY <3>1
    <3>2. CASE i < k
      BY <1>1, <2>1, <3>2 DEF InOrder, IsWeakOrder
    <3> QED BY <3>1, <3>2
  <2>4. h[i] # k
    BY <2>1, <2>2, <2>3 DEF IsWeakOrder
  <2>5. ~(k < h[i])
    BY <2>1, <2>2, <2>3 DEF InOrder
  <2> HIDE DEF h
  <2> QED BY <2>1, <2>2, <2>4, <2>5
<1>3. h \in [1..k -> 1..(k - 1)]
  BY <1>2
<1>4. IsFiniteSet(1..k) /\ IsFiniteSet(1..(k - 1)) /\ Cardinality(1..(k - 1)) < Cardinality(1..k)
  <2>1. 1 \in Int /\ k \in Int /\ k - 1 \in Int /\ k >= 1
    OBVIOUS
  <2>2. /\ IsFiniteSet(1..k) /\ Cardinality(1..k) = IF 1 > k THEN 0 ELSE k - 1 + 1
        /\ IsFiniteSet(1..(k - 1))
        /\ Cardinality(1..(k - 1)) = IF 1 > k - 1 THEN 0 ELSE (k - 1) - 1 + 1
    BY <2>1, FS_Interval
  <2> QED BY <2>1, <2>2
<1> HIDE DEF h
<1>5. PICK i, j \in 1..k : i # j /\ h[i] = h[j]
  BY <1>3, <1>4, FS_PigeonHole
<1>6. f[i] = f[j] /\ i \in 1..n /\ j \in 1..n
  BY <1>2, <1>5
<1> QED BY <1>1, <1>5, <1>6

\* Rows whose places are related as their names are come out in the names' order,
\* each once: the rows ahead of each are fewer than those ahead of the ones after it.
LEMMA SortingSorts ==
  ASSUME NEW N, NEW R, IsWeakOrder(R, N), NEW n \in Nat, NEW f, Enumerates(f, n, N),
         NEW rows, DOMAIN rows = 1..n,
         NEW before, Relates(before, n, f, R)
  PROVE  \E at \in [1..n -> 1..n] : Sorts(at, rows, before, n, f, N, R)
<1> DEFINE ahead(i) == Ahead(rows, before, i)
           rank == [i \in 1..n |-> Cardinality(ahead(i))]
           at   == [k \in 1..n |-> CHOOSE i \in 1..n : Cardinality(ahead(i)) = k - 1]
           new  == [k \in 1..n |-> f[at[k]]]
<1>1. /\ f \in [1..n -> N] /\ \A a \in N : \E j \in 1..n : f[j] = a
      /\ \A i, j \in 1..n : f[i] = f[j] => i = j
  BY DEF Enumerates, Bijection, Injection, Surjection, IsInjective
<1>2. ASSUME NEW i \in 1..n, NEW j \in 1..n
      PROVE  j \in ahead(i) <=> <<f[j], f[i]>> \in R \/ (<<f[i], f[j]>> \notin R /\ j < i)
  <2>1. /\ <<i, j>> \in before <=> <<f[i], f[j]>> \in R
        /\ <<j, i>> \in before <=> <<f[j], f[i]>> \in R
    BY DEF Relates
  <2>2. j \in ahead(i) <=> <<j, i>> \in before \/ (<<i, j>> \notin before /\ j < i)
    BY DEF Ahead
  <2> HIDE DEF ahead
  <2> QED BY <2>1, <2>2
<1>3. ASSUME NEW i \in 1..n PROVE ahead(i) \subseteq 1..n /\ i \notin ahead(i)
  <2>1. ahead(i) \subseteq 1..n
    BY DEF Ahead
  <2>2. f[i] \in N /\ <<f[i], f[i]>> \notin R
    BY <1>1 DEF IsWeakOrder
  <2> HIDE DEF ahead
  <2> QED BY <1>2, <2>1, <2>2
<1>4. \A i, j \in 1..n : i = j \/ i \in ahead(j) \/ j \in ahead(i)
  <2>1. \A i, j \in 1..n : i < j \/ i = j \/ j < i
    OBVIOUS
  <2> HIDE DEF ahead
  <2> QED BY <1>2, <2>1
<1>5. ASSUME NEW i \in 1..n, NEW j \in 1..n, NEW k \in 1..n, i \in ahead(j), j \in ahead(k)
      PROVE  i \in ahead(k)
  <2> HIDE DEF ahead
  <2> DEFINE a == f[i]
             b == f[j]
             c == f[k]
  <2>1. a \in N /\ b \in N /\ c \in N
    BY <1>1
  <2>2. /\ <<a, b>> \in R => <<b, a>> \notin R
        /\ <<b, c>> \in R => <<c, b>> \notin R
        /\ <<a, c>> \in R => <<c, a>> \notin R
    BY <2>1 DEF IsWeakOrder
  <2>3. /\ <<c, a>> \in R => <<c, b>> \in R \/ <<b, a>> \in R
        /\ <<a, b>> \in R => <<a, c>> \in R \/ <<c, b>> \in R
        /\ <<b, c>> \in R => <<b, a>> \in R \/ <<a, c>> \in R
    BY <2>1 DEF IsWeakOrder
  <2>4. <<a, b>> \in R \/ (<<b, a>> \notin R /\ i < j)
    BY <1>2, <1>5
  <2>5. <<b, c>> \in R \/ (<<c, b>> \notin R /\ j < k)
    BY <1>2, <1>5
  <2>6. <<a, c>> \in R \/ (<<c, a>> \notin R /\ i < k)
    <3> HIDE DEF a, b, c
    <3> QED BY <2>2, <2>3, <2>4, <2>5
  <2> QED BY <1>2, <2>6
<1> HIDE DEF ahead
<1>6. IsFiniteSet(1..n) /\ Cardinality(1..n) = n
  BY FS_Interval
<1>7. \A i \in 1..n : IsFiniteSet(ahead(i)) /\ Cardinality(ahead(i)) \in Nat
  BY <1>3, <1>6, FS_Subset, FS_CardinalityType
<1>8. ASSUME NEW i \in 1..n, NEW j \in 1..n, j \in ahead(i)
      PROVE  Cardinality(ahead(j)) < Cardinality(ahead(i))
  <2>1. ahead(j) \subseteq ahead(i) /\ j \notin ahead(j)
    BY <1>3, <1>5, <1>8
  <2>2. ahead(j) # ahead(i)
    BY <1>8, <2>1
  <2> QED BY <1>7, <2>1, <2>2, FS_Subset
<1>9. \A i \in 1..n : Cardinality(ahead(i)) \in 0..(n - 1)
  <2>1. ASSUME NEW i \in 1..n PROVE Cardinality(ahead(i)) < n
    <3>1. ahead(i) \subseteq 1..n /\ ahead(i) # 1..n
      BY <1>3
    <3> QED BY <1>6, <1>7, <3>1, FS_Subset
  <2> QED BY <1>7, <2>1
<1>10. rank \in Injection(1..n, 0..(n - 1))
  <2>1. \A i, j \in 1..n : Cardinality(ahead(i)) = Cardinality(ahead(j)) => i = j
    BY <1>4, <1>7, <1>8
  <2> QED BY <1>9, <2>1 DEF Injection, IsInjective
<1>11. \A k \in 1..n : \E i \in 1..n : Cardinality(ahead(i)) = k - 1
  <2>1. IsFiniteSet(0..(n - 1)) /\ Cardinality(0..(n - 1)) = n
    <3>1. Cardinality(0..(n - 1)) = IF 0 > n - 1 THEN 0 ELSE (n - 1) - 0 + 1
      BY FS_Interval
    <3> QED BY <3>1, FS_Interval
  <2>2. rank \in Surjection(1..n, 0..(n - 1))
    BY <1>6, <1>10, <2>1, FS_Injection
  <2>3. \A r \in 0..(n - 1) : \E i \in 1..n : rank[i] = r
    BY <2>2 DEF Surjection
  <2> QED BY <2>3
<1>12. \A k \in 1..n : at[k] \in 1..n /\ Cardinality(ahead(at[k])) = k - 1
  BY <1>11
<1>13. SortedBy(rows, before) = [k \in 1..n |-> rows[at[k]]]
  BY DEF SortedBy, ahead
<1> HIDE DEF at
<1>14. ASSUME NEW i \in 1..n, NEW j \in 1..n, i < j
       PROVE  at[i] \in ahead(at[j])
  <2>1. at[i] # at[j] /\ at[j] \notin ahead(at[i])
    BY <1>8, <1>12, <1>14
  <2> QED BY <1>4, <1>12, <2>1
<1>15. InOrder(new, n, R)
  <2>1. ASSUME NEW i \in 1..n, NEW j \in 1..n, i < j
        PROVE  <<new[j], new[i]>> \notin R
    <3>1. <<f[at[i]], f[at[j]]>> \in R \/ <<f[at[j]], f[at[i]]>> \notin R
      BY <1>2, <1>12, <1>14, <2>1
    <3>2. f[at[i]] \in N /\ f[at[j]] \in N
      BY <1>1, <1>12
    <3> QED BY <3>1, <3>2 DEF IsWeakOrder
  <2> QED BY <2>1 DEF InOrder
<1>16. new \in [1..n -> N] /\ \A i, j \in 1..n : new[i] = new[j] => i = j
  <2>1. \A i \in 1..n : at[i] \in 1..n /\ f[at[i]] \in N
    BY <1>1, <1>12
  <2>2. ASSUME NEW i \in 1..n, NEW j \in 1..n, new[i] = new[j] PROVE i = j
    <3>1. f[at[i]] = f[at[j]]
      BY <2>2
    <3>2. at[i] = at[j]
      BY <1>1, <2>1, <3>1
    <3> QED BY <1>12, <3>2
  <2> QED BY <2>1, <2>2
<1>17. ASSUME NEW a \in N PROVE \E k \in 1..n : new[k] = a
  <2>1. PICK i \in 1..n : f[i] = a
    BY <1>1
  <2> DEFINE k == Cardinality(ahead(i)) + 1
  <2>2. k \in 1..n /\ Cardinality(ahead(i)) = k - 1
    BY <1>9
  <2>3. at[k] \in 1..n /\ Cardinality(ahead(at[k])) = Cardinality(ahead(i))
    BY <1>7, <1>12, <2>2
  <2>4. at[k] \notin ahead(i) /\ i \notin ahead(at[k])
    BY <1>7, <1>8, <2>3
  <2>5. at[k] = i
    BY <1>4, <2>3, <2>4
  <2> QED BY <2>1, <2>2, <2>5
<1>18. Enumerates(new, n, N)
  BY <1>16, <1>17 DEF Enumerates, Bijection, Injection, Surjection, IsInjective
<1>19. at \in [1..n -> 1..n]
  BY <1>12 DEF at
<1> QED BY <1>13, <1>15, <1>18, <1>19 DEF Sorts

-----------------------------------------------------------------------------
(* The rows of the reports. *)

\* The objects that have a row.
Objects == DOMAIN cache_stats.objects

\* Objects have names, the misses of an object are those of its loads and its
\* stores, and those of all objects are those of the L1s.
RowsInv ==
  /\ Objects \subseteq ToSet(ObjectNames)
  /\ \A name \in Objects :
       cache_stats.objects[name]["load_misses"] + cache_stats.objects[name]["store_misses"]
         = cache_stats.objects[name]["misses"]
  /\ Cardinality(CountedIn(stats.by_object)) = totals["l1_misses"]

\* Before the first event there are no rows.
LEMMA RowsInitInv == SimInit => RowsInv
<1> SUFFICES ASSUME SimInit PROVE RowsInv
  OBVIOUS
<1>1. stats = NewMissStats /\ cache_stats = NewSimulationStats
  BY DEF SimInit
<1>2. Objects = {} /\ totals["l1_misses"] = 0
  BY <1>1 DEF Objects, NewSimulationStats, totals, Zero, Totals
<1>3. CountedIn(stats.by_object) = {}
  BY <1>1 DEF NewMissStats, CountedIn
<1> QED BY <1>2, <1>3, FS_EmptySet DEF RowsInv

\* A miss adds one to the row and the counter of its object, in the column of its
\* operation.
LEMMA RowsStepInv == SimInv /\ RowsInv /\ [SimNext]_simVars => RowsInv'
<1> SUFFICES ASSUME SimInv, RowsInv, [SimNext]_simVars PROVE RowsInv'
  OBVIOUS
<1>1. CASE UNCHANGED simVars
  BY <1>1 DEF RowsInv, Objects, totals, simVars
<1>2. ASSUME NEW e \in Events, Simulate(e) PROVE RowsInv'
  <2> DEFINE o     == e.object_name
             rows  == cache_stats.objects
             rows2 == cache_stats'.objects
             B     == stats.by_object
  <2>1. /\ e.op \in Ops /\ result'.miss_level \in 0..2 /\ CountersTyped
        /\ IsCounts(B) /\ IsFiniteSet(CountedIn(B)) /\ ReportsAgree /\ RowsCoverMisses
    BY <1>2, EventFacts DEF SimInv, CountersTyped, Countable
  <2>2. /\ DOMAIN rows2 = DOMAIN rows \cup {o}
        /\ \A name \in DOMAIN rows \ {o} : rows2[name] = rows[name]
        /\ RowOf(rows, o) \in [ObjectCounters -> Nat]
        /\ rows2[o]["misses"] = RowOf(rows, o)["misses"] + Times(Missed, 1)
        /\ rows2[o]["load_misses"] + rows2[o]["store_misses"]
             = RowOf(rows, o)["load_misses"] + RowOf(rows, o)["store_misses"] + Times(Missed, 1)
    BY <1>2, <2>1, RowCounts
  <2>3. DOMAIN rows2 \subseteq ToSet(ObjectNames)
    BY <2>2, NamesAssumption DEF RowsInv, Objects
  <2>4. RowOf(rows, o)["load_misses"] + RowOf(rows, o)["store_misses"] = RowOf(rows, o)["misses"]
    BY DEF RowsInv, Objects, RowOf, Zero, ObjectCounters
  <2>5. \A name \in DOMAIN rows2 :
          rows2[name]["load_misses"] + rows2[name]["store_misses"] = rows2[name]["misses"]
    BY <2>2, <2>4 DEF RowsInv, Objects
  <2>6. Cardinality(CountedIn(stats'.by_object)) = totals'["l1_misses"]
    <3>1. totals'["l1_misses"] = totals["l1_misses"] + Times(Missed, 1)
      BY <1>2, <2>1, LevelCounts
    <3>2. stats'.by_object = IF Missed THEN CountOne(B, o) ELSE B
      BY <1>2, <2>1, MissCounts
    <3>3. Cardinality(CountedIn(B)) \in Nat
          /\ Cardinality(CountedIn(CountOne(B, o))) = Cardinality(CountedIn(B)) + 1
      BY <2>1, CountOneMore
    <3>4. Cardinality(CountedIn(B)) = totals["l1_misses"]
      BY DEF RowsInv
    <3> HIDE DEF B
    <3> QED BY <3>1, <3>2, <3>3, <3>4 DEF Times
  <2> QED BY <2>3, <2>5, <2>6 DEF RowsInv, Objects
<1> QED BY <1>1, <1>2 DEF SimNext

\* Every row of the tables of objects that CsvWriter and JsonWriter write has a name
\* the program gave it, and its misses are those of its loads and of its stores, in
\* all programs.
THEOREM RowsInvHolds == SimSpec => []RowsInv
<1>1. (SimInv /\ RowsInv) /\ [SimNext]_simVars => (SimInv /\ RowsInv)'
  BY SimStepInv, RowsStepInv
<1>2. SimInit => SimInv /\ RowsInv
  BY SimInitInv, RowsInitInv
<1> QED BY <1>1, <1>2, PTL DEF SimSpec

\* An order of the table has every object once.
LEMMA OrdersEnumerate ==
  ASSUME RowsInv, NEW order \in Orders
  PROVE  /\ IsFiniteSet(Objects) /\ Cardinality(Objects) \in Nat
         /\ DOMAIN order = 1..Cardinality(Objects)
         /\ Enumerates(order, Cardinality(Objects), Objects)
<1> DEFINE n == Cardinality(Objects)
           m == Len(ObjectNames)
           T == ToSet(ObjectNames)
<1>1. m \in Nat /\ DOMAIN ObjectNames = 1..m /\ ObjectNames \in Seq(T)
  BY NamesAssumption
<1>2. ObjectNames \in Surjection(1..m, T)
  <2>1. ObjectNames \in [1..m -> T] /\ T = {ObjectNames[i] : i \in 1..m}
    BY <1>1 DEF ToSet
  <2>2. \A t \in T : \E i \in 1..m : ObjectNames[i] = t
    BY <2>1
  <2> HIDE DEF T, m
  <2> QED BY <2>1, <2>2 DEF Surjection
<1>3. IsFiniteSet(T)
  BY <1>1, <1>2, FS_Interval, FS_Surjection
<1>4. IsFiniteSet(Objects) /\ n \in Nat
  BY <1>3, FS_Subset, FS_CardinalityType DEF RowsInv
<1>5. order \in [1..n -> Objects] /\ IsInjective(order)
  BY DEF Orders, Objects
<1>6. order \in Injection(1..n, Objects)
  BY <1>5 DEF Injection
<1>7. IsFiniteSet(1..n) /\ Cardinality(1..n) = n
  BY <1>4, FS_Interval
<1>8. order \in Surjection(1..n, Objects)
  BY <1>4, <1>6, <1>7, FS_Injection
<1> QED BY <1>4, <1>5, <1>6, <1>8 DEF Enumerates, Bijection

\* The value of a column, when no two columns have one name.
LEMMA ColumnValue ==
  ASSUME NEW columns, IsInjective(columns), NEW row, NEW k \in DOMAIN columns
  PROVE  ByColumn(columns, row)[columns[k]] = row[k]
<1>1. columns[k] \in Range(columns)
  BY DEF Range
<1>2. (CHOOSE i \in DOMAIN columns : columns[i] = columns[k]) = k
  BY DEF IsInjective
<1> QED BY <1>1, <1>2 DEF ByColumn

\* The columns of either file have names of their own.
LEMMA ColumnsDiffer ==
  /\ DOMAIN ObjectColumns = 1..9 /\ IsInjective(ObjectColumns)
  /\ DOMAIN SummaryColumns = 1..21 /\ IsInjective(SummaryColumns)
<1>1. DOMAIN ObjectColumns = 1..9 /\ DOMAIN SummaryColumns = 1..21
  BY DEF ObjectColumns, SummaryColumns
<1>2. \A i \in 1..9 : \/ i = 1 \/ i = 2 \/ i = 3 \/ i = 4 \/ i = 5 \/ i = 6 \/ i = 7
                      \/ i = 8 \/ i = 9
  OBVIOUS
<1>3. \A i \in 1..21 : \/ i = 1 \/ i = 2 \/ i = 3 \/ i = 4 \/ i = 5 \/ i = 6 \/ i = 7
                       \/ i = 8 \/ i = 9 \/ i = 10 \/ i = 11 \/ i = 12 \/ i = 13 \/ i = 14
                       \/ i = 15 \/ i = 16 \/ i = 17 \/ i = 18 \/ i = 19 \/ i = 20 \/ i = 21
  OBVIOUS
<1>4. \A i, j \in 1..9 : ObjectColumns[i] = ObjectColumns[j] => i = j
  BY <1>2 DEF ObjectColumns
<1>5. \A i, j \in 1..21 : SummaryColumns[i] = SummaryColumns[j] => i = j
  BY <1>3 DEF SummaryColumns
<1> QED BY <1>1, <1>4, <1>5 DEF IsInjective

\* What is read of a row is the row of its object.
LEMMA RowsReadBack ==
  ASSUME RowsInv, NEW order \in Orders
  PROVE  LET rows == load_objects(ObjectColumns, ObjectRows(order))
         IN  /\ DOMAIN rows = 1..Cardinality(Objects)
             /\ \A k \in 1..Cardinality(Objects) :
                  /\ rows[k].object = order[k]
                  /\ \A f \in ObjectFields \ {"object", "miss_rate"} :
                       rows[k][f] = cache_stats.objects[order[k]][f]
<1> DEFINE n      == Cardinality(Objects)
           o(k)   == cache_stats.objects[order[k]]
           val(k) == ObjectValues(order[k], o(k))
           row(k) == ByColumn(ObjectColumns, val(k))
<1>1. DOMAIN order = 1..n
  BY OrdersEnumerate
<1>2. load_objects(ObjectColumns, ObjectRows(order)) = [k \in 1..n |-> [f \in ObjectFields |-> row(k)[f]]]
  BY <1>1 DEF load_objects, ObjectRows
<1>3. ASSUME NEW k \in 1..n
      PROVE  /\ row(k)["object"] = order[k]
             /\ \A f \in ObjectFields \ {"object", "miss_rate"} : row(k)[f] = o(k)[f]
  <2>1. /\ val(k)[1] = order[k] /\ val(k)[2] = o(k)["accesses"] /\ val(k)[3] = o(k)["hits"]
        /\ val(k)[4] = o(k)["misses"] /\ val(k)[8] = o(k)["load_misses"]
        /\ val(k)[9] = o(k)["store_misses"]
    BY DEF ObjectValues
  <2>2. /\ ObjectColumns[1] = "object" /\ ObjectColumns[2] = "accesses"
        /\ ObjectColumns[3] = "hits" /\ ObjectColumns[4] = "misses"
        /\ ObjectColumns[8] = "load_misses" /\ ObjectColumns[9] = "store_misses"
    BY DEF ObjectColumns
  <2> HIDE DEF val, o
  <2>3. \A i \in 1..9 : row(k)[ObjectColumns[i]] = val(k)[i]
    BY ColumnsDiffer, ColumnValue
  <2> HIDE DEF row
  <2>4. /\ row(k)[ObjectColumns[1]] = val(k)[1] /\ row(k)[ObjectColumns[2]] = val(k)[2]
        /\ row(k)[ObjectColumns[3]] = val(k)[3] /\ row(k)[ObjectColumns[4]] = val(k)[4]
        /\ row(k)[ObjectColumns[8]] = val(k)[8] /\ row(k)[ObjectColumns[9]] = val(k)[9]
    BY <2>3
  <2> QED BY <2>1, <2>2, <2>4 DEF ObjectFields
<1> HIDE DEF row, o
<1>4. "object" \in ObjectFields
  BY DEF ObjectFields
<1> QED BY <1>2, <1>3, <1>4 DEF o

\* A bar for each object, in any order, makes up what the objects were counted.
LEMMA BarsCount ==
  ASSUME NEW B, IsCounts(B), IsFiniteSet(CountedIn(B)), NEW N, DOMAIN B \subseteq N,
         NEW n \in Nat, NEW order, Enumerates(order, n, N),
         NEW bars, DOMAIN bars = 1..n, \A k \in 1..n : bars[k] = CountOf(B, order[k])
  PROVE  Cardinality(CountedIn(bars)) = Cardinality(CountedIn(B))
<1> DEFINE S == CountedIn(bars)
           T == CountedIn(B)
           h == [p \in S |-> <<order[p[1]], p[2]>>]
<1>1. /\ order \in [1..n -> N] /\ \A a \in N : \E k \in 1..n : order[k] = a
      /\ \A i, j \in 1..n : order[i] = order[j] => i = j
  BY DEF Enumerates, Bijection, Injection, Surjection, IsInjective
<1>2. \A y : CountOf(B, y) \in Nat /\ (y \in DOMAIN B <=> CountOf(B, y) > 0)
  BY CountsAreNumbers
<1>3. ASSUME NEW p \in S
      PROVE  \E k \in 1..n : \E i \in 1..CountOf(B, order[k]) : p = <<k, i>>
  BY DEF CountedIn
<1>4. ASSUME NEW k \in 1..n, NEW i \in 1..CountOf(B, order[k])
      PROVE  <<k, i>> \in S
  BY DEF CountedIn
<1>5. ASSUME NEW p \in T
      PROVE  \E y \in DOMAIN B : \E i \in 1..CountOf(B, y) : p = <<y, i>>
  BY DEF CountedIn, CountOf
<1>6. ASSUME NEW y \in DOMAIN B, NEW i \in 1..CountOf(B, y)
      PROVE  <<y, i>> \in T
  BY DEF CountedIn, CountOf
<1> HIDE DEF S, T
<1>7. ASSUME NEW p \in S PROVE h[p] \in T
  <2>1. PICK k \in 1..n : \E i \in 1..CountOf(B, order[k]) : p = <<k, i>>
    BY <1>3
  <2>2. PICK i \in 1..CountOf(B, order[k]) : p = <<k, i>>
    BY <2>1
  <2>3. order[k] \in DOMAIN B
    BY <1>2, <2>2
  <2> QED BY <1>6, <2>2, <2>3
<1>8. ASSUME NEW p \in S, NEW q \in S, h[p] = h[q] PROVE p = q
  <2>1. PICK k \in 1..n : \E i \in 1..CountOf(B, order[k]) : p = <<k, i>>
    BY <1>3
  <2>2. PICK l \in 1..n : \E j \in 1..CountOf(B, order[l]) : q = <<l, j>>
    BY <1>3
  <2>3. PICK i \in 1..CountOf(B, order[k]) : p = <<k, i>>
    BY <2>1
  <2>4. PICK j \in 1..CountOf(B, order[l]) : q = <<l, j>>
    BY <2>2
  <2>5. order[k] = order[l] /\ i = j
    BY <1>8, <2>3, <2>4
  <2> QED BY <1>1, <2>3, <2>4, <2>5
<1>9. ASSUME NEW t \in T PROVE \E p \in S : h[p] = t
  <2>1. PICK y \in DOMAIN B : \E i \in 1..CountOf(B, y) : t = <<y, i>>
    BY <1>5
  <2>2. PICK i \in 1..CountOf(B, y) : t = <<y, i>>
    BY <2>1
  <2>3. PICK k \in 1..n : order[k] = y
    BY <1>1
  <2>4. <<k, i>> \in S
    BY <1>4, <2>3
  <2> QED BY <2>2, <2>3, <2>4
<1>10. h \in Injection(S, T) /\ h \in Surjection(S, T)
  <2>1. h \in [S -> T]
    BY <1>7
  <2> HIDE DEF h
  <2> QED BY <2>1, <1>8, <1>9 DEF Injection, Surjection, IsInjective
<1> HIDE DEF h
<1> QED BY <1>10, FS_Injection DEF S, T

\* What is read of the summary's columns is what was counted.
LEMMA SummaryReadBack ==
  LET csv == ByColumn(SummaryColumns, SummaryValues(stats, cache_stats))
  IN  /\ \A c \in Totals : csv[c] = totals[c]
      /\ \A t \in Traffic \ {"delay_cycles"} : csv[t] = traffic[t]
      /\ csv["cold"] = stats.Cold /\ csv["capacity"] = stats.Capacity
      /\ csv["conflict"] = stats.Conflict
      /\ csv["l1_hit_rate"] = Rate(totals["l1_hits"], totals["total_accesses"])
      /\ csv["l2_hit_rate"] = Rate(totals["l2_hits"], totals["l1_misses"])
<1> DEFINE val == SummaryValues(stats, cache_stats)
           csv == ByColumn(SummaryColumns, val)
<1>1. /\ val[1] = stats.Cold /\ val[2] = stats.Capacity /\ val[3] = stats.Conflict
      /\ val[6] = totals["total_accesses"] /\ val[7] = totals["load_accesses"]
      /\ val[8] = totals["store_accesses"] /\ val[9] = totals["l1_hits"]
      /\ val[10] = totals["l1_misses"]
      /\ val[11] = Rate(totals["l1_hits"], totals["total_accesses"])
      /\ val[12] = totals["l2_hits"] /\ val[13] = totals["l2_misses"]
      /\ val[14] = Rate(totals["l2_hits"], totals["l1_misses"])
      /\ val[15] = totals["memory_accesses"]
      /\ val[18] = traffic["write_through_writes"] /\ val[19] = traffic["writebacks"]
      /\ val[20] = traffic["dirty_evictions"] /\ val[21] = traffic["writeback_cycles"]
  BY DEF SummaryValues, totals, traffic
<1>2. /\ SummaryColumns[1] = "cold" /\ SummaryColumns[2] = "capacity"
      /\ SummaryColumns[3] = "conflict" /\ SummaryColumns[6] = "total_accesses"
      /\ SummaryColumns[7] = "load_accesses" /\ SummaryColumns[8] = "store_accesses"
      /\ SummaryColumns[9] = "l1_hits" /\ SummaryColumns[10] = "l1_misses"
      /\ SummaryColumns[11] = "l1_hit_rate" /\ SummaryColumns[12] = "l2_hits"
      /\ SummaryColumns[13] = "l2_misses" /\ SummaryColumns[14] = "l2_hit_rate"
      /\ SummaryColumns[15] = "memory_accesses" /\ SummaryColumns[18] = "write_through_writes"
      /\ SummaryColumns[19] = "writebacks" /\ SummaryColumns[20] = "dirty_evictions"
      /\ SummaryColumns[21] = "writeback_cycles"
  BY DEF SummaryColumns
<1> HIDE DEF val
<1>3. \A i \in 1..21 : csv[SummaryColumns[i]] = val[i]
  BY ColumnsDiffer, ColumnValue
<1> HIDE DEF csv
<1>4. /\ csv["cold"] = val[1] /\ csv["capacity"] = val[2] /\ csv["conflict"] = val[3]
      /\ csv["total_accesses"] = val[6] /\ csv["load_accesses"] = val[7]
      /\ csv["store_accesses"] = val[8] /\ csv["l1_hits"] = val[9]
      /\ csv["l1_misses"] = val[10] /\ csv["l1_hit_rate"] = val[11]
  BY <1>2, <1>3
<1>5. /\ csv["l2_hits"] = val[12] /\ csv["l2_misses"] = val[13] /\ csv["l2_hit_rate"] = val[14]
      /\ csv["memory_accesses"] = val[15] /\ csv["write_through_writes"] = val[18]
      /\ csv["writebacks"] = val[19] /\ csv["dirty_evictions"] = val[20]
      /\ csv["writeback_cycles"] = val[21]
  BY <1>2, <1>3
<1>6. \A c \in Totals : csv[c] = totals[c]
  BY <1>1, <1>4, <1>5 DEF Totals
<1>7. \A t \in Traffic \ {"delay_cycles"} : csv[t] = traffic[t]
  BY <1>1, <1>5 DEF Traffic
<1> QED BY <1>1, <1>4, <1>5, <1>6, <1>7 DEF csv, val

\* What is read of the other summary, by the names of its keys.
LEMMA JsonReadBack ==
  LET json == SummaryJson(stats, cache_stats)
  IN  /\ miss_breakdown(json) = [cold |-> stats.Cold, capacity |-> stats.Capacity,
                                 conflict |-> stats.Conflict]
      /\ write_traffic(json) = <<traffic["write_through_writes"], traffic["writebacks"],
                                 traffic["dirty_evictions"], traffic["writeback_cycles"]>>
      /\ hit_miss_rates(json)["L1"].hit = Rate(totals["l1_hits"], totals["total_accesses"])
      /\ hit_miss_rates(json)["L2"].hit = Rate(totals["l2_hits"], totals["l1_misses"])
<1> DEFINE json == SummaryJson(stats, cache_stats)
           told == json.write_traffic
<1>1. json["cold"] = stats.Cold /\ json["capacity"] = stats.Capacity
      /\ json["conflict"] = stats.Conflict
  BY DEF SummaryJson
<1>2. /\ told = [write_through_writes |-> traffic["write_through_writes"],
                 writebacks |-> traffic["writebacks"],
                 dirty_evictions |-> traffic["dirty_evictions"],
                 writeback_cycles |-> traffic["writeback_cycles"]]
      /\ json.levels["L1"].hit_rate = Rate(totals["l1_hits"], totals["total_accesses"])
      /\ json.levels["L2"].hit_rate = Rate(totals["l2_hits"], totals["l1_misses"])
  BY DEF SummaryJson, totals, traffic
<1> HIDE DEF json
<1>3. miss_breakdown(json) = [cold |-> stats.Cold, capacity |-> stats.Capacity,
                              conflict |-> stats.Conflict]
  BY <1>1 DEF miss_breakdown
<1>4. DOMAIN WriteTrafficFields = 1..4
      /\ WriteTrafficFields[1] = "write_through_writes" /\ WriteTrafficFields[2] = "writebacks"
      /\ WriteTrafficFields[3] = "dirty_evictions" /\ WriteTrafficFields[4] = "writeback_cycles"
  BY DEF WriteTrafficFields
<1>5. write_traffic(json) = [k \in 1..4 |-> IF WriteTrafficFields[k] \in DOMAIN told
                                            THEN told[WriteTrafficFields[k]] ELSE 0]
  BY <1>4 DEF write_traffic
<1> HIDE DEF told
<1>6. write_traffic(json)[1] = traffic["write_through_writes"]
      /\ write_traffic(json)[2] = traffic["writebacks"]
      /\ write_traffic(json)[3] = traffic["dirty_evictions"]
      /\ write_traffic(json)[4] = traffic["writeback_cycles"]
      /\ DOMAIN write_traffic(json) = 1..4
  BY <1>2, <1>4, <1>5
<1>7. write_traffic(json) = <<traffic["write_through_writes"], traffic["writebacks"],
                              traffic["dirty_evictions"], traffic["writeback_cycles"]>>
  <2>1. write_traffic(json) = [k \in 1..4 |-> write_traffic(json)[k]]
    BY <1>5
  <2>2. \A k \in 1..4 : k = 1 \/ k = 2 \/ k = 3 \/ k = 4
    OBVIOUS
  <2> QED BY <1>6, <2>1, <2>2
<1>8. /\ hit_miss_rates(json)["L1"].hit = json.levels["L1"].hit_rate
      /\ hit_miss_rates(json)["L2"].hit = json.levels["L2"].hit_rate
  BY DEF hit_miss_rates
<1> QED BY <1>2, <1>3, <1>7, <1>8 DEF json

\* What the backend reads of the reports, after any event of any program, is what
\* was counted: no column or key is another's, and the bars of the objects add up
\* to those of the types of misses, in whatever order the objects were written.
THEOREM WhatIsReadWasCounted == SimSpec => []ReportsRoundTrip
<1>1. SimInv /\ RowsInv => ReportsRoundTrip
  <2> SUFFICES ASSUME SimInv, RowsInv PROVE ReportsRoundTrip
    OBVIOUS
  <2> DEFINE n       == Cardinality(Objects)
             json    == SummaryJson(stats, cache_stats)
             plotted == miss_breakdown(json)
             csv     == ByColumn(SummaryColumns, SummaryValues(stats, cache_stats))
             read(order) == load_objects(ObjectColumns, ObjectRows(order))
             bars(order) == [k \in DOMAIN read(order) |->
                               read(order)[k].load_misses + read(order)[k].store_misses]
  <2>1. plotted = [cold |-> stats.Cold, capacity |-> stats.Capacity, conflict |-> stats.Conflict]
    BY JsonReadBack
  <2>2. stats.Cold + stats.Capacity + stats.Conflict = totals["l1_misses"]
    BY DEF SimInv, ReportsAgree
  <2>3. ASSUME NEW order \in Orders
        PROVE  /\ \A r \in Range(read(order)) : \A f \in ObjectFields \ {"object", "miss_rate"} :
                    r[f] = cache_stats.objects[r.object][f]
               /\ Cardinality(CountedIn(bars(order))) = totals["l1_misses"]
    <3>1. /\ DOMAIN read(order) = 1..n
          /\ \A k \in 1..n :
               /\ read(order)[k].object = order[k]
               /\ \A f \in ObjectFields \ {"object", "miss_rate"} :
                    read(order)[k][f] = cache_stats.objects[order[k]][f]
      BY RowsReadBack
    <3> HIDE DEF read
    <3>2. ASSUME NEW r \in Range(read(order)), NEW f \in ObjectFields \ {"object", "miss_rate"}
          PROVE  r[f] = cache_stats.objects[r.object][f]
      <4>1. PICK k \in 1..n : r = read(order)[k]
        BY <3>1 DEF Range
      <4> QED BY <3>1, <4>1
    <3>3. n \in Nat /\ Enumerates(order, n, Objects)
      BY OrdersEnumerate
    <3>4. /\ IsCounts(stats.by_object) /\ IsFiniteSet(CountedIn(stats.by_object))
          /\ DOMAIN stats.by_object \subseteq Objects
      BY DEF SimInv, CountersTyped, Countable, RowsCoverMisses, Objects
    <3>5. ASSUME NEW k \in 1..n
          PROVE  bars(order)[k] = CountOf(stats.by_object, order[k])
      <4>1. order[k] \in Objects
        BY <3>3 DEF Enumerates, Bijection, Injection
      <4>2. {"load_misses", "store_misses"} \subseteq ObjectFields \ {"object", "miss_rate"}
        BY DEF ObjectFields
      <4>3. bars(order)[k] = cache_stats.objects[order[k]]["load_misses"]
                               + cache_stats.objects[order[k]]["store_misses"]
        BY <3>1, <4>2
      <4>4. cache_stats.objects[order[k]]["misses"] = CountOf(stats.by_object, order[k])
        BY <4>1 DEF SimInv, ReportsAgree, Objects
      <4> HIDE DEF bars
      <4> QED BY <4>1, <4>3, <4>4 DEF RowsInv
    <3>6. DOMAIN bars(order) = 1..n
      BY <3>1
    <3> HIDE DEF bars
    <3>7. Cardinality(CountedIn(bars(order))) = Cardinality(CountedIn(stats.by_object))
      BY <3>3, <3>4, <3>5, <3>6, BarsCount
    <3> QED BY <3>2, <3>7 DEF RowsInv
  <2>4. plotted["cold"] + plotted["capacity"] + plotted["conflict"] = totals["l1_misses"]
    BY <2>1, <2>2
  <2>5. \A m \in DOMAIN plotted : csv[m] = plotted[m]
    BY <2>1, SummaryReadBack
  <2> QED BY <2>3, <2>4, <2>5, SummaryReadBack, JsonReadBack DEF ReportsRoundTrip
<1> QED BY <1>1, SimInvHolds, RowsInvHolds, PTL

-----------------------------------------------------------------------------
(* The worst objects. *)

\* A row as the log reads it.
LogRow(name) ==
  [f \in ObjectCounters \cup {"object"} |->
     IF f = "object" THEN name ELSE cache_stats.objects[name][f]]

\* The two orders of objects, the plot's and the log's.
MissesBefore == {p \in Objects \X Objects :
                   cache_stats.objects[p[1]]["misses"] > cache_stats.objects[p[2]]["misses"]}

LogBefore == {p \in Objects \X Objects : WorseInLog(LogRow(p[1]), LogRow(p[2]))}

\* The log's order tells all objects apart, and is the plot's where that does.
LEMMA OrdersOfObjects ==
  ASSUME SimInv, RowsInv
  PROVE  /\ IsWeakOrder(MissesBefore, Objects) /\ IsWeakOrder(LogBefore, Objects)
         /\ \A a, b \in Objects : a = b \/ <<a, b>> \in LogBefore \/ <<b, a>> \in LogBefore
         /\ MissesBefore \subseteq LogBefore
<1> DEFINE m(a) == cache_stats.objects[a]["misses"]
           c(a) == cache_stats.objects[a]["accesses"]
           q(a) == Position(a)
<1>1. \A a \in Objects : m(a) \in Nat /\ c(a) \in Nat
  BY DEF SimInv, CountersTyped, Objects, ObjectCounters
<1>2. \A a \in Objects : q(a) \in Nat /\ ObjectNames[q(a)] = a
  <2>1. ASSUME NEW a \in Objects PROVE q(a) \in Nat /\ ObjectNames[q(a)] = a
    <3>1. a \in ToSet(ObjectNames)
      BY DEF RowsInv
    <3>2. \E k \in DOMAIN ObjectNames : ObjectNames[k] = a
      BY <3>1 DEF ToSet
    <3>3. q(a) \in DOMAIN ObjectNames /\ ObjectNames[q(a)] = a
      BY <3>2 DEF Position
    <3>4. DOMAIN ObjectNames \subseteq Nat
      BY NamesAssumption
    <3> QED BY <3>3, <3>4
  <2> QED BY <2>1
<1> HIDE DEF m, c, q
<1>3. ASSUME NEW a \in Objects, NEW b \in Objects
      PROVE  /\ <<a, b>> \in MissesBefore <=> m(a) > m(b)
             /\ <<a, b>> \in LogBefore
                  <=> \/ m(a) > m(b)
                      \/ m(a) = m(b) /\ c(a) > c(b)
                      \/ m(a) = m(b) /\ c(a) = c(b) /\ q(a) < q(b)
  <2>1. <<a, b>> \in MissesBefore <=> m(a) > m(b)
    BY DEF MissesBefore, m
  <2>2. <<a, b>> \in LogBefore <=> WorseInLog(LogRow(a), LogRow(b))
    BY DEF LogBefore
  <2>3. /\ LogRow(a).misses = m(a) /\ LogRow(a).accesses = c(a) /\ LogRow(a).object = a
        /\ LogRow(b).misses = m(b) /\ LogRow(b).accesses = c(b) /\ LogRow(b).object = b
    BY DEF LogRow, ObjectCounters, m, c
  <2>4. WorseInLog(LogRow(a), LogRow(b))
          <=> IF m(a) # m(b) THEN m(a) > m(b)
              ELSE IF c(a) # c(b) THEN c(a) > c(b) ELSE q(a) < q(b)
    BY <2>3 DEF WorseInLog, q
  <2>5. m(a) \in Nat /\ m(b) \in Nat /\ c(a) \in Nat /\ c(b) \in Nat /\ q(a) \in Nat /\ q(b) \in Nat
    BY <1>1, <1>2
  <2> QED BY <2>1, <2>2, <2>4, <2>5
<1>4. IsWeakOrder(MissesBefore, Objects)
  BY <1>1, <1>3 DEF IsWeakOrder
<1>5. IsWeakOrder(LogBefore, Objects)
  BY <1>1, <1>2, <1>3 DEF IsWeakOrder
<1>6. ASSUME NEW a \in Objects, NEW b \in Objects
      PROVE  a = b \/ <<a, b>> \in LogBefore \/ <<b, a>> \in LogBefore
  <2>1. q(a) = q(b) => a = b
    BY <1>2
  <2> QED BY <1>1, <1>2, <1>3, <2>1
<1>7. MissesBefore \subseteq LogBefore
  <2>1. ASSUME NEW p \in MissesBefore PROVE p \in LogBefore
    <3>1. p[1] \in Objects /\ p[2] \in Objects /\ p = <<p[1], p[2]>>
      BY DEF MissesBefore
    <3> QED BY <1>3, <3>1
  <2> QED BY <2>1
<1> QED BY <1>4, <1>5, <1>6, <1>7

\* The first rows of a list.
LEMMA FirstRows ==
  ASSUME NEW n \in Nat, NEW limit \in Nat \ {0}, NEW s, DOMAIN s = 1..n, s = [k \in 1..n |-> s[k]]
  PROVE  LET m == IF limit <= n THEN limit ELSE n
         IN  /\ FirstOf(s, limit) = [k \in 1..m |-> s[k]] /\ Len(FirstOf(s, limit)) = m
<1> DEFINE m == IF limit <= n THEN limit ELSE n
           S == {s[k] : k \in 1..n}
<1>1. s \in [1..n -> S]
  OBVIOUS
<1>2. s \in Seq(S) /\ Len(s) = n
  <2> HIDE DEF S
  <2> QED BY <1>1
<1>3. Min({limit, Len(s)}) = m
  BY <1>2 DEF Min
<1>4. m \in Nat /\ m <= n
  OBVIOUS
<1> HIDE DEF m, S
<1>5. SubSeq(s, 1, m) = [k \in 1..m |-> s[k]] /\ Len(SubSeq(s, 1, m)) = m
  <2>1. /\ SubSeq(s, 1, m) \in Seq(S) /\ Len(SubSeq(s, 1, m)) = m
        /\ \A k \in 1..m : SubSeq(s, 1, m)[k] = s[k]
    BY <1>2, <1>4
  <2> QED BY <1>4, <2>1
<1> QED BY <1>3, <1>5 DEF FirstOf, m

\* The log lists objects in its order, the plot in one that agrees on the misses.
LEMMA LogIsSorted ==
  ASSUME SimInv, RowsInv, NEW order \in Orders
  PROVE  LET n == Cardinality(Objects)
             m == IF LogLimit <= n THEN LogLimit ELSE n
         IN  \E names : /\ Enumerates(names, n, Objects) /\ InOrder(names, n, LogBefore)
                        /\ LogTop(order) = [k \in 1..m |-> LogRow(names[k])]
                        /\ Len(LogTop(order)) = m
<1> DEFINE n    == Cardinality(Objects)
           m    == IF LogLimit <= n THEN LogLimit ELSE n
           rows == LogRows(order)
<1>1. n \in Nat /\ DOMAIN order = 1..n /\ Enumerates(order, n, Objects)
  BY OrdersEnumerate
<1>2. DOMAIN rows = 1..n /\ \A k \in 1..n : rows[k] = LogRow(order[k])
  BY <1>1 DEF LogRows, LogRow
<1> HIDE DEF rows, n
<1>3. \A k \in 1..n : order[k] \in Objects
  BY <1>1 DEF Enumerates, Bijection, Injection
<1> DEFINE before == Worse(rows)
<1>4. Relates(before, n, order, LogBefore)
  <2> SUFFICES ASSUME NEW p \in (1..n) \X (1..n)
               PROVE  p \in before <=> <<order[p[1]], order[p[2]]>> \in LogBefore
    BY DEF Relates
  <2> DEFINE i == p[1]
             j == p[2]
  <2>1. p \in Worse(rows) <=> WorseInLog(rows[i], rows[j])
    BY <1>2 DEF Worse
  <2>2. <<order[i], order[j]>> \in LogBefore <=> WorseInLog(LogRow(order[i]), LogRow(order[j]))
    BY <1>3 DEF LogBefore
  <2> QED BY <1>2, <2>1, <2>2
<1>5. IsWeakOrder(LogBefore, Objects)
  BY OrdersOfObjects
<1> HIDE DEF before
<1>6. PICK at \in [1..n -> 1..n] : Sorts(at, rows, before, n, order, Objects, LogBefore)
  BY <1>1, <1>2, <1>4, <1>5, SortingSorts
<1> DEFINE s     == SortedBy(rows, before)
           names == [k \in 1..n |-> order[at[k]]]
<1>7. DOMAIN s = 1..n /\ s = [k \in 1..n |-> s[k]] /\ \A k \in 1..n : s[k] = LogRow(names[k])
  BY <1>2, <1>6 DEF Sorts
<1>8. LogTop(order) = FirstOf(s, LogLimit)
  BY DEF LogTop, rows, before
<1> HIDE DEF s, names
<1>9. FirstOf(s, LogLimit) = [k \in 1..m |-> s[k]] /\ Len(FirstOf(s, LogLimit)) = m
  BY <1>1, <1>7, FirstRows, NamesAssumption
<1>10. [k \in 1..m |-> s[k]] = [k \in 1..m |-> LogRow(names[k])]
  <2>1. \A k \in 1..m : k \in 1..n
    BY <1>1, NamesAssumption
  <2> HIDE DEF m
  <2> QED BY <1>7, <2>1
<1>11. Enumerates(names, n, Objects) /\ InOrder(names, n, LogBefore)
  BY <1>6 DEF names, Sorts
<1> HIDE DEF m
<1>12. \E f : /\ Enumerates(f, n, Objects) /\ InOrder(f, n, LogBefore)
              /\ LogTop(order) = [k \in 1..m |-> LogRow(f[k])] /\ Len(LogTop(order)) = m
  BY <1>8, <1>9, <1>10, <1>11
<1> QED BY <1>12 DEF n, m

\* The plot takes its objects from the front of a list in the plot's order.
LEMMA PlotIsSorted ==
  ASSUME SimInv, RowsInv, NEW order \in Orders
  PROVE  LET n    == Cardinality(Objects)
             m    == IF PlotLimit <= n THEN PlotLimit ELSE n
             plot == top_objects_by_misses(load_objects(ObjectColumns, ObjectRows(order)), PlotLimit)
         IN  \E names : /\ Enumerates(names, n, Objects) /\ InOrder(names, n, MissesBefore)
                        /\ DOMAIN plot = 1..m /\ Len(plot) = m
                        /\ \A k \in 1..m :
                             /\ plot[k].object = names[k]
                             /\ plot[k].misses = cache_stats.objects[names[k]]["misses"]
<1> DEFINE n    == Cardinality(Objects)
           m    == IF PlotLimit <= n THEN PlotLimit ELSE n
           rows == load_objects(ObjectColumns, ObjectRows(order))
           plot == top_objects_by_misses(rows, PlotLimit)
<1>1. n \in Nat /\ DOMAIN order = 1..n /\ Enumerates(order, n, Objects)
  BY OrdersEnumerate
<1>2. /\ DOMAIN rows = 1..n
      /\ \A k \in 1..n : /\ rows[k].object = order[k]
                         /\ rows[k].misses = cache_stats.objects[order[k]]["misses"]
  <2>1. "misses" \in ObjectFields \ {"object", "miss_rate"}
    BY DEF ObjectFields
  <2> QED BY <2>1, RowsReadBack
<1> HIDE DEF rows, n
<1>3. \A k \in 1..n : order[k] \in Objects
  BY <1>1 DEF Enumerates, Bijection, Injection
<1> DEFINE before == MoreMisses(rows)
<1>4. Relates(before, n, order, MissesBefore)
  <2> SUFFICES ASSUME NEW p \in (1..n) \X (1..n)
               PROVE  p \in before <=> <<order[p[1]], order[p[2]]>> \in MissesBefore
    BY DEF Relates
  <2> DEFINE i == p[1]
             j == p[2]
  <2>1. p \in MoreMisses(rows) <=> rows[i].misses > rows[j].misses
    BY <1>2 DEF MoreMisses
  <2>2. <<order[i], order[j]>> \in MissesBefore
          <=> cache_stats.objects[order[i]]["misses"] > cache_stats.objects[order[j]]["misses"]
    BY <1>3 DEF MissesBefore
  <2> QED BY <1>2, <2>1, <2>2
<1>5. IsWeakOrder(MissesBefore, Objects)
  BY OrdersOfObjects
<1> HIDE DEF before
<1>6. PICK at \in [1..n -> 1..n] : Sorts(at, rows, before, n, order, Objects, MissesBefore)
  BY <1>1, <1>2, <1>4, <1>5, SortingSorts
<1> DEFINE s     == SortedBy(rows, before)
           names == [k \in 1..n |-> order[at[k]]]
<1>7. /\ DOMAIN s = 1..n /\ s = [k \in 1..n |-> s[k]]
      /\ \A k \in 1..n : /\ s[k].object = names[k]
                         /\ s[k].misses = cache_stats.objects[names[k]]["misses"]
  BY <1>2, <1>6 DEF Sorts
<1>8. plot = FirstOf(s, PlotLimit)
  BY DEF top_objects_by_misses, before
<1> HIDE DEF s, names, plot
<1>9. FirstOf(s, PlotLimit) = [k \in 1..m |-> s[k]] /\ Len(FirstOf(s, PlotLimit)) = m
  BY <1>1, <1>7, FirstRows, NamesAssumption
<1>10. \A k \in 1..m : k \in 1..n
  BY <1>1, NamesAssumption
<1>11. Enumerates(names, n, Objects) /\ InOrder(names, n, MissesBefore)
  BY <1>6 DEF names, Sorts
<1> HIDE DEF m
<1>12. /\ DOMAIN plot = 1..m /\ Len(plot) = m
       /\ \A k \in 1..m : /\ plot[k].object = names[k]
                          /\ plot[k].misses = cache_stats.objects[names[k]]["misses"]
  BY <1>7, <1>8, <1>9, <1>10
<1> QED BY <1>11, <1>12 DEF n, m, plot, rows

\* The object a hint targets has more misses than any other.
LEMMA TargetLeads ==
  ASSUME SimInv, NEW hints \in Generated(stats), NEW o \in hints.object_targeted
  PROVE  /\ o \in Objects
         /\ \A p \in Objects : p # o => <<o, p>> \in MissesBefore
<1> DEFINE B        == stats.by_object
           total    == Cardinality(CountedIn(B))
           kinds    == {h[1] : h \in ShareHints(stats)}
           named(l) == IF Exceeds(B[l], total) THEN {l} ELSE {}
<1>1. /\ IsCounts(B) /\ IsFiniteSet(CountedIn(B)) /\ DOMAIN B \subseteq Objects
  BY DEF SimInv, CountersTyped, Countable, RowsCoverMisses, Objects
<1>2. total \in Nat
  BY <1>1, FS_CardinalityType
<1>3. o \in Leaders(B) /\ 2 * B[o] > total
  <2>1. Generated(stats) = IF B = << >> THEN {[kinds |-> kinds, object_targeted |-> {}]}
                           ELSE {[kinds |-> kinds, object_targeted |-> named(l)] : l \in Leaders(B)}
    BY DEF Generated
  <2> HIDE DEF kinds, B, total
  <2>2. B # << >>
    BY <2>1
  <2>3. PICK l \in Leaders(B) : hints = [kinds |-> kinds, object_targeted |-> named(l)]
    BY <2>1, <2>2
  <2>4. o \in named(l)
    BY <2>3
  <2> QED BY <2>4 DEF Exceeds
<1>4. o \in DOMAIN B /\ \A p \in DOMAIN B : B[p] <= B[o] /\ B[p] \in Nat /\ B[p] > 0
  BY <1>1, <1>3 DEF Leaders, IsCounts
<1>5. ASSUME NEW p \in Objects, p # o PROVE <<o, p>> \in MissesBefore
  <2>1. /\ cache_stats.objects[p]["misses"] = CountOf(B, p)
        /\ cache_stats.objects[o]["misses"] = CountOf(B, o)
    BY <1>1, <1>4 DEF SimInv, ReportsAgree, Objects
  <2>2. CountOf(B, p) < CountOf(B, o)
    <3>1. CASE p \notin DOMAIN B
      BY <1>4, <3>1 DEF CountOf
    <3>2. CASE p \in DOMAIN B
      <4>1. B[p] # B[o]
        <5>1. ASSUME B[p] = B[o] PROVE FALSE
          <6>1. p \in Leaders(B)
            BY <1>3, <3>2, <5>1 DEF Leaders
          <6>2. 2 * B[o] <= total
            BY <1>1, <1>3, <1>5, <6>1, LeadersShare
          <6> HIDE DEF total, B
          <6> QED BY <1>2, <1>3, <1>4, <6>2
        <5> QED BY <5>1
      <4> QED BY <1>4, <3>2, <4>1 DEF CountOf
    <3> QED BY <3>1, <3>2
  <2>3. CountOf(B, p) \in Nat /\ CountOf(B, o) \in Nat /\ o \in Objects
    BY <1>1, <1>4, CountsAreNumbers
  <2> QED BY <2>1, <2>2, <2>3 DEF MissesBefore
<1> QED BY <1>1, <1>4, <1>5

\* What comes before all others comes first.
LEMMA LeaderIsFirst ==
  ASSUME NEW N, NEW R, NEW n \in Nat, NEW f, Enumerates(f, n, N), InOrder(f, n, R),
         NEW o \in N, \A p \in N : p # o => <<o, p>> \in R
  PROVE  n >= 1 /\ f[1] = o
<1>1. f \in [1..n -> N] /\ \A a \in N : \E j \in 1..n : f[j] = a
  BY DEF Enumerates, Bijection, Injection, Surjection
<1>2. PICK j \in 1..n : f[j] = o
  BY <1>1
<1>3. 1 \in 1..n /\ f[1] \in N
  BY <1>1, <1>2
<1>4. CASE j = 1
  BY <1>2, <1>4
<1>5. CASE 1 < j
  <2>1. <<f[j], f[1]>> \notin R
    BY <1>3, <1>5 DEF InOrder
  <2>2. f[1] = o
    BY <1>2, <1>3, <2>1
  <2> QED BY <1>3, <2>2
<1> QED BY <1>2, <1>3, <1>4, <1>5

\* Two lists in one order that tells all apart are the same list.
LEMMA OneOrder ==
  ASSUME NEW N, NEW R, IsWeakOrder(R, N), \A a, b \in N : a = b \/ <<a, b>> \in R \/ <<b, a>> \in R,
         NEW n \in Nat, NEW f, NEW g, Enumerates(f, n, N), Enumerates(g, n, N),
         InOrder(f, n, R), InOrder(g, n, R), NEW k \in 1..n
  PROVE  f[k] = g[k]
<1>1. f[k] \in N /\ g[k] \in N
  BY DEF Enumerates, Bijection, Injection
<1>2. <<f[k], g[k]>> \notin R /\ <<g[k], f[k]>> \notin R
  BY NoneBefore
<1> QED BY <1>1, <1>2

\* Lists that start the same way start the same way.
LEMMA SamePrefix ==
  ASSUME NEW a \in Nat, NEW b \in Nat, NEW s \in [1..a -> Nat], NEW t \in [1..b -> Nat],
         \A k \in 1..a : k <= b => s[k] = t[k]
  PROVE  LET n == Min({a, b}) IN SubSeq(s, 1, n) = SubSeq(t, 1, n)
<1> DEFINE n == Min({a, b})
<1>1. n \in Nat /\ n <= a /\ n <= b
  <2>1. n = IF a <= b THEN a ELSE b
    BY DEF Min
  <2> HIDE DEF n
  <2> QED BY <2>1
<1> HIDE DEF n
<1>2. s \in Seq(Nat) /\ Len(s) = a /\ t \in Seq(Nat) /\ Len(t) = b
  OBVIOUS
<1>3. /\ SubSeq(s, 1, n) \in Seq(Nat) /\ Len(SubSeq(s, 1, n)) = n
      /\ \A k \in 1..n : SubSeq(s, 1, n)[k] = s[k]
  BY <1>1, <1>2
<1>4. /\ SubSeq(t, 1, n) \in Seq(Nat) /\ Len(SubSeq(t, 1, n)) = n
      /\ \A k \in 1..n : SubSeq(t, 1, n)[k] = t[k]
  BY <1>1, <1>2
<1>5. \A k \in 1..n : s[k] = t[k]
  BY <1>1
<1>6. SubSeq(s, 1, n) = [k \in 1..n |-> s[k]] /\ SubSeq(t, 1, n) = [k \in 1..n |-> t[k]]
  BY <1>1, <1>3, <1>4
<1> QED BY <1>5, <1>6 DEF n

\* TopsAgree, for every program and every limit: the log and the plot name the same
\* worst objects, whatever the order of the table (RunLogger::format,
\* top_objects_by_misses, DiagnosticsGenerator::generate).
THEOREM WorstObjectsAgree == SimSpec => []TopsAgree
<1>1. SimInv /\ RowsInv => TopsAgree
  <2> SUFFICES ASSUME SimInv, RowsInv, NEW order \in Orders
      PROVE LET log  == LogTop(order)
                plot == top_objects_by_misses(load_objects(ObjectColumns, ObjectRows(order)), PlotLimit)
                n    == Min({Len(log), Len(plot)})
            IN  /\ \A other \in Orders : LogTop(other) = log
                /\ SubSeq(Misses(log), 1, n) = SubSeq(Misses(plot), 1, n)
                /\ \A hints \in Generated(stats) : \A o \in hints.object_targeted :
                     Head(log).object = o /\ Head(plot).object = o
    BY DEF TopsAgree
  <2> DEFINE log  == LogTop(order)
             plot == top_objects_by_misses(load_objects(ObjectColumns, ObjectRows(order)), PlotLimit)
             n    == Cardinality(Objects)
             a    == IF LogLimit <= n THEN LogLimit ELSE n
             b    == IF PlotLimit <= n THEN PlotLimit ELSE n
             count(x) == cache_stats.objects[x]["misses"]
  <2>1. n \in Nat
    BY OrdersEnumerate
  <2>2. PICK L : /\ Enumerates(L, n, Objects) /\ InOrder(L, n, LogBefore)
                 /\ log = [k \in 1..a |-> LogRow(L[k])] /\ Len(log) = a
    BY LogIsSorted
  <2>3. PICK P : /\ Enumerates(P, n, Objects) /\ InOrder(P, n, MissesBefore)
                 /\ DOMAIN plot = 1..b /\ Len(plot) = b
                 /\ \A k \in 1..b : plot[k].object = P[k] /\ plot[k].misses = count(P[k])
    BY PlotIsSorted
  <2>4. ASSUME NEW other \in Orders PROVE LogTop(other) = log
    <3>1. PICK K : /\ Enumerates(K, n, Objects) /\ InOrder(K, n, LogBefore)
                   /\ LogTop(other) = [k \in 1..a |-> LogRow(K[k])]
      BY LogIsSorted
    <3>2. \A k \in 1..n : K[k] = L[k]
      BY <2>1, <2>2, <3>1, OrdersOfObjects, OneOrder
    <3>3. \A k \in 1..a : k \in 1..n
      BY <2>1, NamesAssumption
    <3> HIDE DEF a, n, log
    <3> QED BY <2>2, <3>1, <3>2, <3>3
  <2>5. InOrder(L, n, MissesBefore)
    BY <2>2, OrdersOfObjects DEF InOrder
  <2>6. a \in Nat /\ b \in Nat /\ \A k \in 1..a : k \in 1..n
    BY <2>1, NamesAssumption
  <2>7. \A k \in 1..b : k \in 1..n
    BY <2>1, NamesAssumption
  <2>8. \A x \in Objects : count(x) \in Nat
    BY DEF SimInv, CountersTyped, Objects, ObjectCounters
  <2>9. \A k \in 1..n : L[k] \in Objects /\ P[k] \in Objects
    BY <2>2, <2>3 DEF Enumerates, Bijection, Injection
  <2>10. \A k \in 1..n : count(L[k]) = count(P[k])
    <3>1. ASSUME NEW k \in 1..n PROVE count(L[k]) = count(P[k])
      <4>1. <<L[k], P[k]>> \notin MissesBefore /\ <<P[k], L[k]>> \notin MissesBefore
        BY <2>1, <2>2, <2>3, <2>5, OrdersOfObjects, NoneBefore
      <4>2. ~(count(L[k]) > count(P[k])) /\ ~(count(P[k]) > count(L[k]))
        BY <2>9, <4>1 DEF MissesBefore
      <4> HIDE DEF count
      <4> QED BY <2>8, <2>9, <4>2
    <3> QED BY <3>1
  <2>11. \A x : LogRow(x).misses = count(x) /\ LogRow(x).object = x
    BY DEF LogRow, ObjectCounters
  <2> HIDE DEF n, a, b, count, log, plot
  <2>12. /\ Misses(log) \in [1..a -> Nat] /\ Misses(plot) \in [1..b -> Nat]
         /\ \A k \in 1..a : k <= b => Misses(log)[k] = Misses(plot)[k]
    <3>1. /\ DOMAIN Misses(log) = 1..a /\ Misses(log) = [k \in 1..a |-> Misses(log)[k]]
          /\ \A k \in 1..a : Misses(log)[k] = count(L[k])
      BY <2>2, <2>11 DEF Misses
    <3>2. /\ DOMAIN Misses(plot) = 1..b /\ Misses(plot) = [k \in 1..b |-> Misses(plot)[k]]
          /\ \A k \in 1..b : Misses(plot)[k] = count(P[k])
      BY <2>3 DEF Misses
    <3>3. \A k \in 1..a : Misses(log)[k] \in Nat
      BY <2>6, <2>8, <2>9, <3>1
    <3>4. \A k \in 1..b : Misses(plot)[k] \in Nat
      BY <2>7, <2>8, <2>9, <3>2
    <3>5. \A k \in 1..a : k <= b => Misses(log)[k] = Misses(plot)[k]
      BY <2>6, <2>10, <3>1, <3>2
    <3> QED BY <3>1, <3>2, <3>3, <3>4, <3>5
  <2>13. LET c == Min({Len(log), Len(plot)})
         IN  SubSeq(Misses(log), 1, c) = SubSeq(Misses(plot), 1, c)
    <3>1. SubSeq(Misses(log), 1, Min({a, b})) = SubSeq(Misses(plot), 1, Min({a, b}))
      <4> DEFINE s == Misses(log)
                 t == Misses(plot)
      <4>1. s \in [1..a -> Nat] /\ t \in [1..b -> Nat] /\ \A k \in 1..a : k <= b => s[k] = t[k]
        BY <2>12
      <4> HIDE DEF s, t
      <4>2. SubSeq(s, 1, Min({a, b})) = SubSeq(t, 1, Min({a, b}))
        BY <2>6, <4>1, SamePrefix
      <4> QED BY <4>2 DEF s, t
    <3>2. Min({Len(log), Len(plot)}) = Min({a, b})
      BY <2>2, <2>3
    <3> QED BY <3>1, <3>2
  <2>14. ASSUME NEW hints \in Generated(stats), NEW o \in hints.object_targeted
         PROVE  Head(log).object = o /\ Head(plot).object = o
    <3>1. o \in Objects /\ \A p \in Objects : p # o => <<o, p>> \in MissesBefore
      BY TargetLeads
    <3>2. n >= 1 /\ L[1] = o /\ P[1] = o
      BY <2>1, <2>2, <2>3, <2>5, <3>1, LeaderIsFirst
    <3>3. 1 \in 1..a /\ 1 \in 1..b
      BY <2>1, <3>2, NamesAssumption DEF a, b
    <3>4. Head(log) = log[1] /\ Head(plot) = plot[1]
      BY DEF Head
    <3> QED BY <2>2, <2>3, <2>11, <3>2, <3>3, <3>4
  <2> QED BY <2>4, <2>13, <2>14 DEF log, plot
<1> QED BY <1>1, SimInvHolds, RowsInvHolds, PTL
=============================================================================
