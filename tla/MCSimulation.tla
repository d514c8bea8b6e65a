---------------------------- MODULE MCSimulation ----------------------------
(* Simulation of short programs on one core, the only one events run on. *)
EXTENDS Reports, SmallHierarchies

SmallNames == <<"a", "b", "c">>

\* A root function f loads, and a function g it calls stores, three objects of a
\* line each.
ProgramEvents ==
  {[core_id     |-> core,
    cache_line  |-> line,
    op          |-> op,
    object_name |-> SmallNames[line + 1],
    region_path |-> IF op = "load" THEN <<"f">> ELSE <<"f", "g">>] :
     core \in Cores, line \in Lines, op \in Ops}

\* L1s of one line, of one set and of two sets before a two-way L2.
SmallConfigs == Hierarchies(Cores, OneLine \cup TwoLines, OneSet)

\* L1s of a single line, of which the constructor drops no remainder.
OneLineConfigs == Hierarchies(Cores, OneLine, OneSet)
=============================================================================
