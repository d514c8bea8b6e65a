------------------------------ MODULE LikeChains ------------------------------
(***************************************************************************)
(* What a configuration document means when an entry may be like one that is  *)
(* like another: the fields nobody nearer gives are those of the last.         *)
(* RECURSIVE, for TLC.                                                      *)
(***************************************************************************)
EXTENDS Inheritance

RECURSIVE ChainText(_)
\* All that is said of an entry, itself first.
ChainText(i) == IF IsLike(i) THEN Over(Entries[i], ChainText(Base(i))) ELSE Entries[i]

\* What the documentation says, and the code does not do.  YamlConfigParser.hpp:
\* an entry inherits the settings of another.
InheritsSettings ==
  status = "done" /\ NamesAreUnique =>
    \A i \in DOMAIN caches : caches[i] = Over(ParsedFields(ChainText(i)), Defaults)
=============================================================================
