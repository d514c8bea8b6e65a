------------------------------ MODULE CacheSet ------------------------------
(***************************************************************************)
(* One N-way LRU set (class CacheSet).  A set is the sequence of its       *)
(* entries, the most recently used first, exactly like the std::list       *)
(* entries_: front = MRU, back = LRU.  An operation is a pair of           *)
(* operators, the set it leaves behind and the result it returns.          *)
(***************************************************************************)
EXTENDS Integers, SequencesExt

\* CacheAccessOptions: what an access may do to the set.
CacheAccessOptions ==
  [is_store : BOOLEAN, allocate_on_miss : BOOLEAN, mark_dirty_on_store : BOOLEAN]

\* CacheSet::Entry.
Entries(Tag) == [tag : Tag, dirty : BOOLEAN]

TagsOf(entries) == {entries[i].tag : i \in DOMAIN entries}

\* The dirty bit an access leaves on a line it fills.
MarksDirty(options) == options.is_store /\ options.mark_dirty_on_store

\* The first entry the search loop meets.
Find(entries, tag) ==
  CHOOSE i \in DOMAIN entries :
    entries[i].tag = tag /\ \A j \in 1..(i - 1) : entries[j].tag # tag

\* A variant of Promote: a load that hits cleans the line it hits.
PromoteCleaning(entries, tag, options) ==
  Cons([tag |-> tag, dirty |-> MarksDirty(options)], RemoveAt(entries, Find(entries, tag)))

\* A variant of Promote: the entry it pushes to the front is a copy.
PromoteCopying(entries, tag, options) ==
  Cons([tag |-> tag, dirty |-> entries[Find(entries, tag)].dirty \/ MarksDirty(options)], entries)

\* A variant of Promote: a hit leaves the order of the list alone.
PromoteInPlace(entries, tag, options) ==
  [entries EXCEPT ![Find(entries, tag)].dirty = @ \/ MarksDirty(options)]

\* A hit: a store may set the dirty bit, nothing clears it, and the entry is
\* spliced to the front.
Promote(entries, tag, options) ==
  LET i == Find(entries, tag)
  IN  Cons([tag |-> tag, dirty |-> entries[i].dirty \/ MarksDirty(options)],
           RemoveAt(entries, i))

\* A miss in a full set gives up its last entry.
Evicts(entries, num_ways) == Len(entries) >= num_ways

\* A variant of Fill: the new entry goes to the back of the list.
FillAtBack(entries, tag, options, num_ways) ==
  Append(IF Evicts(entries, num_ways) THEN Front(entries) ELSE entries,
         [tag |-> tag, dirty |-> MarksDirty(options)])

\* A miss that allocates: the last entry leaves a full set, then the new one is
\* pushed to the front.
Fill(entries, tag, options, num_ways) ==
  Cons([tag |-> tag, dirty |-> MarksDirty(options)],
       IF Evicts(entries, num_ways) THEN Front(entries) ELSE entries)

\* The set CacheSet::access leaves behind.
SetAfter(entries, tag, options, num_ways) ==
  IF tag \in TagsOf(entries) THEN Promote(entries, tag, options)
  ELSE IF options.allocate_on_miss THEN Fill(entries, tag, options, num_ways)
  ELSE entries

\* The SetAccessResult it returns; the evicted fields keep their defaults when
\* nothing is evicted.
SetResult(entries, tag, options, num_ways) ==
  LET hit     == tag \in TagsOf(entries)
      evicts  == ~hit /\ options.allocate_on_miss /\ Evicts(entries, num_ways)
  IN  [hit           |-> hit,
       has_eviction  |-> evicts,
       evicted_tag   |-> IF evicts THEN Last(entries).tag ELSE 0,
       evicted_dirty |-> IF evicts THEN Last(entries).dirty ELSE FALSE]
=============================================================================
