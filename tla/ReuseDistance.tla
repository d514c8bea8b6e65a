---------------------------- MODULE ReuseDistance ----------------------------
(***************************************************************************)
(* What the classification of misses promises, without any cache: the reuse   *)
(* distance of a line, the number of other lines used since its last use,     *)
(* tells a miss that a larger cache would have avoided from one that a better  *)
(* placement would have.  newer holds <<a, b>> when a was used since b was.    *)
(***************************************************************************)
EXTENDS Integers, FiniteSets

CONSTANTS Lines

VARIABLES capacity,  \* lines the cache holds
          used,      \* lines used so far
          newer,     \* the order of their last uses
          verdict    \* what the last use was

distanceVars == <<capacity, used, newer, verdict>>

Distance(line) == Cardinality({x \in used : <<x, line>> \in newer})

\* The order of last uses once line is the last one used.
Renew(line) ==
  {p \in newer : p[1] # line /\ p[2] # line} \cup ({line} \X (used \ {line}))

Verdict(line, missed) ==
  IF ~missed THEN "None"
  ELSE IF line \notin used THEN "Cold"
  ELSE IF Distance(line) < capacity THEN "Conflict"
  ELSE "Capacity"

Init ==
  /\ capacity \in Nat \ {0}
  /\ used = {}
  /\ newer = {}
  /\ verdict = "None"

Use(line, missed) ==
  /\ verdict' = Verdict(line, missed)
  /\ used' = used \cup {line}
  /\ newer' = Renew(line)
  /\ UNCHANGED capacity

Next == \E line \in Lines, missed \in BOOLEAN : Use(line, missed)

Spec == Init /\ [][Next]_distanceVars
=============================================================================
