---------------------------- MODULE MCStoreFlow -----------------------------
(* StoreFlow over small hierarchies. *)
EXTENDS StoreFlow, SmallHierarchies

\* One core, L1 and L2 of two lines each.
OneCoreConfigs == Hierarchies(Cores, TwoLines, TwoLines)

\* Two one-line L1s of differing policies, sharing a two-way L2.  The cores are
\* alike, so that one order of the two is enough.
Rank(p) == (IF p.write_policy = "WriteBack" THEN 2 ELSE 0) + (IF p.write_allocate THEN 1 ELSE 0)

TwoCoreConfigs ==
  {c \in Hierarchies(Cores, OneLine, OneSet) : Rank(c.l1[0]) < Rank(c.l1[1])}
=============================================================================
