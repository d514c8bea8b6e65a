------------------------------- MODULE Reports -------------------------------
(***************************************************************************)
(* What a run tells of its counters: the CSV and JSON reports CsvWriter and   *)
(* JsonWriter write, what the plots read back from them (backend/reports.py),  *)
(* and the objects RunLogger lists.  A CSV file is its columns' names and, per  *)
(* row, their values; rates are fractions, <<part, of>>.                       *)
(***************************************************************************)
EXTENDS Simulation

CONSTANTS ObjectNames,  \* the names of the objects, in the order of strings
          LogLimit,     \* objects the log lists, 3 in the program
          PlotLimit     \* objects a plot shows, 10 by default

\* Objects have names that can be told apart, and of the limits only those of the code
\* and of a plot of something are of interest.
ASSUME NamesAssumption ==
  /\ ObjectNames \in Seq(ToSet(ObjectNames)) /\ IsInjective(ObjectNames)
  /\ \A e \in Events : e.object_name \in ToSet(ObjectNames)
  /\ LogLimit \in Nat \ {0} /\ PlotLimit \in Nat \ {0}

Rate(part, total) == IF total = 0 THEN <<0, 1>> ELSE <<part, total>>

-----------------------------------------------------------------------------
(* CsvWriter: the names in one place, the values in another. *)

SummaryColumns ==
  <<"cold", "capacity", "conflict", "load", "store", "total_accesses", "load_accesses",
    "store_accesses", "l1_hits", "l1_misses", "l1_hit_rate", "l2_hits", "l2_misses",
    "l2_hit_rate", "memory_accesses", "total_cycles", "average_cycles_per_access",
    "write_through_writes", "writebacks", "dirty_evictions", "writeback_cycles">>

SummaryValues(s, c) ==
  LET n == c.totals
      t == c.traffic
  IN  <<s.Cold, s.Capacity, s.Conflict, s.load, s.store, n["total_accesses"], n["load_accesses"],
        n["store_accesses"], n["l1_hits"], n["l1_misses"], Rate(n["l1_hits"], n["total_accesses"]),
        n["l2_hits"], n["l2_misses"], Rate(n["l2_hits"], n["l1_misses"]), n["memory_accesses"],
        t["delay_cycles"], Rate(t["delay_cycles"], n["total_accesses"]),
        t["write_through_writes"], t["writebacks"], t["dirty_evictions"], t["writeback_cycles"]>>

ObjectColumns ==
  <<"object", "accesses", "hits", "misses", "miss_rate", "load_accesses", "store_accesses",
    "load_misses", "store_misses">>

\* A variant of ObjectValues: the operations are listed by operation.
ObjectValuesByOp(name, o) ==
  <<name, o["accesses"], o["hits"], o["misses"], Rate(o["misses"], o["accesses"]),
    o["load_accesses"], o["load_misses"], o["store_accesses"], o["store_misses"]>>

ObjectValues(name, o) ==
  <<name, o["accesses"], o["hits"], o["misses"], Rate(o["misses"], o["accesses"]),
    o["load_accesses"], o["store_accesses"], o["load_misses"], o["store_misses"]>>

\* The rows come in the order in which the table of objects is iterated.
ObjectRows(order) ==
  [k \in DOMAIN order |-> ObjectValues(order[k], cache_stats.objects[order[k]])]

\* JsonWriter.
SummaryJson(s, c) ==
  LET n == c.totals
      t == c.traffic
  IN  [cold |-> s.Cold, capacity |-> s.Capacity, conflict |-> s.Conflict,
       load |-> s.load, store |-> s.store,
       accesses |-> [total |-> n["total_accesses"], load |-> n["load_accesses"],
                     store |-> n["store_accesses"]],
       levels |-> [L1 |-> [hits |-> n["l1_hits"], misses |-> n["l1_misses"],
                           hit_rate |-> Rate(n["l1_hits"], n["total_accesses"])],
                   L2 |-> [hits |-> n["l2_hits"], misses |-> n["l2_misses"],
                           hit_rate |-> Rate(n["l2_hits"], n["l1_misses"])],
                   Memory |-> [accesses |-> n["memory_accesses"]]],
       cycles |-> [total |-> t["delay_cycles"],
                   average_per_access |-> Rate(t["delay_cycles"], n["total_accesses"])],
       write_traffic |-> [write_through_writes |-> t["write_through_writes"],
                          writebacks |-> t["writebacks"], dirty_evictions |-> t["dirty_evictions"],
                          writeback_cycles |-> t["writeback_cycles"]]]

-----------------------------------------------------------------------------
(* reports.py. *)

\* csv.DictReader: a row by the names of its columns.
ByColumn(columns, row) ==
  [c \in Range(columns) |-> row[CHOOSE k \in DOMAIN columns : columns[k] = c]]

ObjectFields == {"object", "miss_rate", "accesses", "hits", "misses", "load_misses", "store_misses"}

load_objects(columns, rows) ==
  [k \in DOMAIN rows |-> [f \in ObjectFields |-> ByColumn(columns, rows[k])[f]]]

miss_breakdown(summary) == [k \in {"cold", "capacity", "conflict"} |-> summary[k]]

hit_miss_rates(summary) ==
  [name \in {"L1", "L2"} |->
     LET hit == summary.levels[name].hit_rate
     IN  [hit |-> hit, miss |-> <<hit[2] - hit[1], hit[2]>>]]

\* The keys of the counters a plot shows, in the order of its labels.
WriteTrafficFields == <<"write_through_writes", "writebacks", "dirty_evictions", "writeback_cycles">>

\* A counter the summary does not have is 0.
write_traffic(summary) ==
  [k \in DOMAIN WriteTrafficFields |->
     IF WriteTrafficFields[k] \in DOMAIN summary.write_traffic
     THEN summary.write_traffic[WriteTrafficFields[k]] ELSE 0]

-----------------------------------------------------------------------------
(* The worst objects. *)

\* The rows ahead of the i-th when they are sorted by a relation of their places:
\* those it puts before it and, as they stay as they are, earlier ones it ties with.
Ahead(rows, before, i) ==
  {j \in DOMAIN rows : <<j, i>> \in before \/ (<<i, j>> \notin before /\ j < i)}

\* The rows sorted: the k-th is the one that has k - 1 others ahead.
SortedBy(rows, before) ==
  [k \in DOMAIN rows |->
     rows[CHOOSE i \in DOMAIN rows : Cardinality(Ahead(rows, before, i)) = k - 1]]

FirstOf(rows, n) == SubSeq(rows, 1, Min({n, Len(rows)}))

MoreMisses(rows) == {p \in (DOMAIN rows) \X (DOMAIN rows) : rows[p[1]].misses > rows[p[2]].misses}

\* reports.top_objects_by_misses: the order of the file breaks ties.
top_objects_by_misses(rows, n) == FirstOf(SortedBy(rows, MoreMisses(rows)), n)

Position(name) == CHOOSE k \in DOMAIN ObjectNames : ObjectNames[k] = name

\* A variant of WorseInLog: a tie is left to the order of the table.
WorseInLogOrTied(a, b) == a.misses > b.misses \/ (a.misses = b.misses /\ a.accesses > b.accesses)

\* RunLogger's comparison.
WorseInLog(a, b) ==
  IF a.misses # b.misses THEN a.misses > b.misses
  ELSE IF a.accesses # b.accesses THEN a.accesses > b.accesses
  ELSE Position(a.object) < Position(b.object)

\* The pairs of the table, an object with its counters, in the order it is iterated.
LogRows(order) ==
  [k \in DOMAIN order |->
     [f \in ObjectCounters \cup {"object"} |->
        IF f = "object" THEN order[k] ELSE cache_stats.objects[order[k]][f]]]

Worse(rows) == {p \in (DOMAIN rows) \X (DOMAIN rows) : WorseInLog(rows[p[1]], rows[p[2]])}

\* The objects RunLogger::format lists.
LogTop(order) == FirstOf(SortedBy(LogRows(order), Worse(LogRows(order))), LogLimit)

-----------------------------------------------------------------------------
\* The orders an unordered_map of the objects may have.
Orders == {order \in [1 .. Cardinality(DOMAIN cache_stats.objects) -> DOMAIN cache_stats.objects] :
             IsInjective(order)}

Misses(rows) == [k \in DOMAIN rows |-> rows[k].misses]

\* What is read back from a report is what was counted, under the name it was
\* counted under, and a name means the same in both summaries: the columns named
\* in one place and filled in another stay together, no key is misspelt into a
\* zero, and the bars of two plots made from two files add up to the same misses
\* (write_summary, write_object_breakdown against backend/reports.py).
ReportsRoundTrip ==
  LET csv     == ByColumn(SummaryColumns, SummaryValues(stats, cache_stats))
      json    == SummaryJson(stats, cache_stats)
      plotted == miss_breakdown(json)
  IN  /\ \A c \in Totals : csv[c] = totals[c]
      /\ \A t \in Traffic \ {"delay_cycles"} : csv[t] = traffic[t]
      /\ \A m \in DOMAIN plotted : csv[m] = plotted[m]
      /\ write_traffic(json) = <<traffic["write_through_writes"], traffic["writebacks"],
                                 traffic["dirty_evictions"], traffic["writeback_cycles"]>>
      /\ hit_miss_rates(json)["L1"].hit = csv["l1_hit_rate"]
      /\ hit_miss_rates(json)["L2"].hit = csv["l2_hit_rate"]
      /\ \A order \in Orders :
           LET rows == load_objects(ObjectColumns, ObjectRows(order))
               bars == [k \in DOMAIN rows |-> rows[k].load_misses + rows[k].store_misses]
           IN  /\ \A r \in Range(rows) : \A f \in ObjectFields \ {"object", "miss_rate"} :
                    r[f] = cache_stats.objects[r.object][f]
               /\ Cardinality(CountedIn(bars))
                    = plotted["cold"] + plotted["capacity"] + plotted["conflict"]

\* The log, the plot and the hints agree on the worst objects, and the log says the
\* same whatever the order of the table: its list depends on nothing else, the plot
\* shows the same misses from the top, and an object the hints target heads both
\* (RunLogger's comparison, top_objects_by_misses, max_element of generate()).
TopsAgree ==
  \A order \in Orders :
    LET log  == LogTop(order)
        plot == top_objects_by_misses(load_objects(ObjectColumns, ObjectRows(order)), PlotLimit)
        n    == Min({Len(log), Len(plot)})
    IN  /\ \A other \in Orders : LogTop(other) = log
        /\ SubSeq(Misses(log), 1, n) = SubSeq(Misses(plot), 1, n)
        /\ \A hints \in Generated(stats) : \A o \in hints.object_targeted :
             Head(log).object = o /\ Head(plot).object = o
=============================================================================
