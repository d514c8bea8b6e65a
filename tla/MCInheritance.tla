--------------------------- MODULE MCInheritance ----------------------------
(* Documents of two L1s and an L2 in either order, some like others, with sizes  *)
(* at the limits of their types.                                             *)
EXTENDS LikeChains

Bytes(count, unit) == [count |-> count, unit |-> unit]
Sizes == {Bytes(2, "KiB"), Bytes(100, ""), Bytes(8, "MiB"), Bytes(7, "MiB"), Bytes(3, "TB"), Bytes(0, "B")}

\* Entries given by what they say on top of a name and a size.
First(size) == [name |-> "A", role |-> "L1", size_bytes |-> size]

Firsts ==
  {First(size) @@ more :
     size \in Sizes,
     more \in {[private_to |-> 0, line_size |-> Bytes(32, "B"), associativity |-> 2, delay_cycles |-> 1],
               [private_to |-> 1, write_policy |-> "write-through", write_allocate |-> FALSE,
                line_size |-> Bytes(16, "")],
               [private_to |-> 0, line_size |-> Bytes(33, "KiB")],
               [delay_cycles |-> 2]}}

Seconds ==
  {[name |-> "B", like |-> base] @@ more :
     base \in {"A", "C", "Z"},
     more \in {[private_to |-> 1], [private_to |-> 0, associativity |-> 1],
               [private_to |-> 1, replacement |-> "FIFO"],
               [private_to |-> 1, size_bytes |-> Bytes(1, "KB"), write_policy |-> "write-back"]}}

Thirds ==
  {[name |-> "C", role |-> "LLC", size_bytes |-> Bytes(4, "KiB"), associativity |-> 4],
   [name |-> "C", role |-> "LLC", size_bytes |-> Bytes(4, "KiB"), associativity |-> Malformed],
   [name |-> "C", role |-> "L1", private_to |-> 2, associativity |-> 4],
   [name |-> "C", role |-> "LLC", like |-> "B", size_bytes |-> Bytes(1, "KiB")]}

Memories == {<< >>, [delay_cycles |-> 40], [delay_cycles |-> Malformed]}

SmallDocuments ==
  {[has_caches |-> TRUE, caches |-> order, memory |-> m] :
     order \in UNION {{<<a, b, c>>, <<c, b, a>>, <<b, a>>} : a \in Firsts, b \in Seconds, c \in Thirds},
     m \in Memories}
  \cup {[has_caches |-> FALSE, caches |-> << >>, memory |-> m] : m \in Memories}
=============================================================================
