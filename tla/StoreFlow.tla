----------------------------- MODULE StoreFlow ------------------------------
(***************************************************************************)
(* Where the data of every store is.  The simulator keeps no data, so what   *)
(* its dirty bits promise is stated with two history variables that follow   *)
(* the stores the caches are sent and the lines they give up, never the      *)
(* dirty bits themselves: a store is the core's until the L2 is stored to,   *)
(* and the L2's until it is written to memory.                               *)
(***************************************************************************)
EXTENDS CacheHierarchy

VARIABLES undelivered,  \* per core, the lines whose last store has not reached the L2
          unwritten     \* the lines stored to the L2 and not yet written to memory

flowVars == <<vars, undelivered, unwritten>>

\* The L2 hands a store straight to memory when it writes through, or misses
\* and does not allocate.
PassesL2(r2) ==
  \/ WritesThrough(config.l2)
  \/ ~r2.hit /\ ~config.l2.write_allocate

SetIf(condition, element) == IF condition THEN {element} ELSE {}

\* One access of the L2 and what it leaves unwritten: the dirty line it gives up
\* and a store it passes on are in memory.
L2Flow(pending, r2, cache_line, is_store) ==
  (pending \cup SetIf(is_store, cache_line))
    \ (SetIf(DirtyEviction(r2), r2.evicted_cache_line)
         \cup SetIf(is_store /\ PassesL2(r2), cache_line))

FlowInit ==
  /\ Init
  /\ undelivered = [core \in Cores |-> {}]
  /\ unwritten = {}

FlowAbsorbed(core, cache_line, is_store) ==
  /\ AbsorbedHit(core, cache_line, is_store)
  /\ undelivered' = [undelivered EXCEPT ![core] = @ \cup SetIf(is_store, cache_line)]
  /\ UNCHANGED unwritten

FlowWriteThrough(core, cache_line, is_store) ==
  /\ WriteThroughHit(core, cache_line, is_store)
  /\ undelivered' = [undelivered EXCEPT ![core] = @ \ {cache_line}]
  /\ unwritten' = L2Flow(unwritten, L2Result(l2, cache_line, TRUE), cache_line, TRUE)

FlowMiss(core, cache_line, is_store) ==
  LET r1 == L1Result(core, cache_line, is_store)
      victim == DirtyEviction(r1)
      forwarded == ForwardsStore(core, is_store)
      unwritten_v ==
        IF victim
        THEN L2Flow(unwritten, L2Result(l2, r1.evicted_cache_line, TRUE),
                    r1.evicted_cache_line, TRUE)
        ELSE unwritten
  IN  /\ Miss(core, cache_line, is_store)
      /\ undelivered' =
           [undelivered EXCEPT ![core] =
              (@ \cup SetIf(is_store, cache_line))
                \ (SetIf(victim, r1.evicted_cache_line) \cup SetIf(forwarded, cache_line))]
      /\ unwritten' =
           L2Flow(unwritten_v, L2Result(L2AfterVictim(r1), cache_line, forwarded),
                  cache_line, forwarded)

FlowNext ==
  \E core \in Cores, cache_line \in Lines, is_store \in BOOLEAN :
    \/ FlowAbsorbed(core, cache_line, is_store)
    \/ FlowWriteThrough(core, cache_line, is_store)
    \/ FlowMiss(core, cache_line, is_store)

FlowSpec == FlowInit /\ [][FlowNext]_flowVars

-----------------------------------------------------------------------------
FlowTypeOK ==
  /\ TypeOK
  /\ undelivered \in [Cores -> SUBSET Lines]
  /\ unwritten \subseteq Lines

\* No store is lost: a line whose data has not reached the L2 is dirty in the
\* L1 of the core that stored it, and one whose data the L2 keeps from memory is
\* dirty in the L2.  The victim's write-back, the forwarded store and both
\* evictions of one miss all have to agree for it (CacheHierarchy::access).
StoresNotLost ==
  /\ \A core \in Cores :
       undelivered[core] \subseteq DirtyLines(l1s[core], config.l1[core])
  /\ unwritten \subseteq DirtyLines(l2, config.l2)

\* No dirty bit is spurious: every line that would be written back holds a store
\* the level below has not seen, so write-back traffic is never overcounted.
DirtyMeansPending ==
  /\ \A core \in Cores :
       DirtyLines(l1s[core], config.l1[core]) \subseteq undelivered[core]
  /\ DirtyLines(l2, config.l2) \subseteq unwritten
=============================================================================
