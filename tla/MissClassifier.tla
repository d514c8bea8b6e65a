---------------------------- MODULE MissClassifier ----------------------------
(***************************************************************************)
(* The miss classifier (class MissClassifier) under any sequence of calls of  *)
(* classify().  The history variable newer orders the lines by their last     *)
(* use; with it the classifier is shown to implement ReuseDistance.           *)
(***************************************************************************)
EXTENDS FaShadow, FiniteSets

CONSTANTS Lines,      \* the cache lines accessed
          Capacities  \* the sizes, in lines, of the shadow cache

\* The hierarchy cannot be accessed at all through an L1 without a single line,
\* so the capacity handed to the classifier is positive.
ASSUME CapacitiesAssumption == Capacities \subseteq Nat \ {0}

VARIABLES classifier,  \* the object's state
          verdict,     \* what the last call answered
          newer        \* history: which of two lines was used last

classifierVars == <<classifier, verdict, newer>>

Init ==
  /\ \E capacity \in Capacities : classifier = NewClassifier(capacity)
  /\ verdict = "None"
  /\ newer = {}

Classify(cache_line, is_actual_miss) ==
  /\ classifier' = Classified(classifier, cache_line)
  /\ verdict' = MissType(classifier, cache_line, is_actual_miss)
  /\ newer' = {p \in newer : p[1] # cache_line /\ p[2] # cache_line}
                \cup ({cache_line} \X (classifier.ever_seen \ {cache_line}))

Next == \E cache_line \in Lines, is_actual_miss \in BOOLEAN :
          Classify(cache_line, is_actual_miss)

Spec == Init /\ [][Next]_classifierVars

-----------------------------------------------------------------------------
ClassifierTypeOK ==
  /\ classifier \in [fa_capacity : Capacities, fa_lru : Seq(Lines),
                     fa_map : SUBSET Lines, ever_seen : SUBSET Lines]
  /\ verdict \in MissTypes \cup {"None"}
  /\ newer \subseteq classifier.ever_seen \X classifier.ever_seen

\* The list and the map never drift apart: the map knows exactly the lines of
\* the list, each of which is there once, and they are no more than the capacity
\* (MissClassifier::fa_access updates the two by hand, in three places).
MapMatchesList ==
  /\ classifier.fa_map = ToSet(classifier.fa_lru)
  /\ \A i, j \in DOMAIN classifier.fa_lru :
       classifier.fa_lru[i] = classifier.fa_lru[j] => i = j
  /\ Len(classifier.fa_lru) <= classifier.fa_capacity

\* The list is in the order of last use, and everything it has given up was used
\* before anything it still holds, of which it then holds as much as it can.
ShadowIsLru ==
  LET lru == classifier.fa_lru
  IN  /\ \A i, j \in DOMAIN lru : i < j => <<lru[j], lru[i]>> \in newer
      /\ \A line \in classifier.ever_seen \ ToSet(lru) :
           /\ Len(lru) = classifier.fa_capacity
           /\ \A i \in DOMAIN lru : <<lru[i], line>> \in newer

\* The classifier answers by reuse distance: cold on a first use, conflict
\* when fewer than the capacity of other lines were used since the last use,
\* capacity otherwise (the definitions of MissClassifier.hpp).
Abstract == INSTANCE ReuseDistance
              WITH capacity <- classifier.fa_capacity, used <- classifier.ever_seen

ImplementsReuseDistance == Abstract!Spec
=============================================================================
