----------------------------- MODULE MCLruLevel -----------------------------
(* LruLevel over the shapes of a set-associative cache of up to four lines. *)
EXTENDS LruLevel

SmallGeometries ==
  {[num_sets |-> g[1], num_ways |-> g[2]] : g \in {<<1, 1>>, <<1, 3>>, <<2, 1>>, <<2, 2>>, <<3, 1>>}}
=============================================================================
