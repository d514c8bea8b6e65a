------------------------------ MODULE FaShadow ------------------------------
(***************************************************************************)
(* The fully associative shadow cache of class MissClassifier: the list      *)
(* fa_lru of its lines, the least recently used FIRST (the other way round    *)
(* from CacheSet), the keys of fa_map, which points each line at its node in  *)
(* the list, and every line ever seen.                                      *)
(***************************************************************************)
EXTENDS Integers, SequencesExt

MissTypes == {"Cold", "Capacity", "Conflict"}

\* A variant of NewClassifier: one line short.
NewClassifierShort(fa_capacity_lines) ==
  [fa_capacity |-> fa_capacity_lines - 1, fa_lru |-> << >>, fa_map |-> {}, ever_seen |-> {}]

\* The constructor.
NewClassifier(fa_capacity_lines) ==
  [fa_capacity |-> fa_capacity_lines, fa_lru |-> << >>, fa_map |-> {}, ever_seen |-> {}]

\* The shadow cache hits when the map knows the line.
FaHit(c, cache_line) == cache_line \in c.fa_map

\* A variant of FaFull: the shadow takes a line too many.
FaFullLate(c) == Len(c.fa_lru) > c.fa_capacity

FaFull(c) == Len(c.fa_lru) >= c.fa_capacity

\* The node the map's iterator for a line points at.
NodeOf(c, cache_line) == CHOOSE i \in DOMAIN c.fa_lru : c.fa_lru[i] = cache_line

\* A variant of FaAccess: the map still knows the line that was given up.
FaAccessRemembering(c, cache_line) ==
  LET rest == IF FaHit(c, cache_line) THEN RemoveAt(c.fa_lru, NodeOf(c, cache_line))
              ELSE IF FaFull(c) THEN Tail(c.fa_lru) ELSE c.fa_lru
  IN  [c EXCEPT !.fa_lru = Append(rest, cache_line), !.fa_map = @ \cup {cache_line}]

\* A variant of FaAccess: a hit leaves the order of the list alone.
FaAccessInPlace(c, cache_line) ==
  IF FaHit(c, cache_line) THEN c
  ELSE [c EXCEPT !.fa_lru = Append(IF FaFull(c) THEN Tail(@) ELSE @, cache_line),
                 !.fa_map = (IF FaFull(c) THEN @ \ {Head(c.fa_lru)} ELSE @) \cup {cache_line}]

\* fa_access: a hit takes the line's node out of the list, a miss in a full
\* shadow gives up the oldest line; either way the line becomes the newest.
FaAccess(c, cache_line) ==
  LET hit   == FaHit(c, cache_line)
      evict == ~hit /\ FaFull(c)
      rest  == IF hit THEN RemoveAt(c.fa_lru, NodeOf(c, cache_line))
               ELSE IF evict THEN Tail(c.fa_lru) ELSE c.fa_lru
      known == IF evict THEN c.fa_map \ {Head(c.fa_lru)} ELSE c.fa_map
  IN  [c EXCEPT !.fa_lru = Append(rest, cache_line), !.fa_map = known \cup {cache_line}]

\* The classifier after classify(): the shadow is accessed whether or not the
\* real cache missed.
Classified(c, cache_line) ==
  [FaAccess(c, cache_line) EXCEPT !.ever_seen = @ \cup {cache_line}]

\* A variant of MissType: the shadow is asked after it was given the line.
MissTypeAfterwards(c, cache_line, is_actual_miss) ==
  IF ~is_actual_miss THEN "None"
  ELSE IF cache_line \notin c.ever_seen THEN "Cold" ELSE "Conflict"

\* What classify() answers; "None" stands for std::nullopt.
MissType(c, cache_line, is_actual_miss) ==
  IF ~is_actual_miss THEN "None"
  ELSE IF cache_line \notin c.ever_seen THEN "Cold"
  ELSE IF FaHit(c, cache_line) THEN "Conflict"
  ELSE "Capacity"
=============================================================================
