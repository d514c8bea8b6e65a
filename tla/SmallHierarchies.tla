-------------------------- MODULE SmallHierarchies --------------------------
(***************************************************************************)
(* The small cache hierarchies the model-checking runs are given: every      *)
(* combination of write policy and write allocation, over a few geometries.  *)
(* Delays are 1, 10 and 100, so that no two sums the program can charge for  *)
(* one access coincide.                                                    *)
(***************************************************************************)
LOCAL INSTANCE Integers

\* Geometries are pairs <<num_sets, num_ways>>.
OneLine  == {<<1, 1>>}
OneSet   == {<<1, 2>>}
TwoLines == {<<1, 2>>, <<2, 1>>}

Params(geometries, delay) ==
  {[num_sets |-> g[1], num_ways |-> g[2], delay_cycles |-> delay,
    write_policy |-> policy, write_allocate |-> allocate] :
     g \in geometries, policy \in {"WriteBack", "WriteThrough"}, allocate \in BOOLEAN}

\* Every core may have an L1 of its own kind.
Hierarchies(cores, l1_geometries, l2_geometries) ==
  {[l1 |-> f, l2 |-> p2, mem_delay |-> 100] :
     f \in [cores -> Params(l1_geometries, 1)], p2 \in Params(l2_geometries, 10)}
=============================================================================
