---------------------------- MODULE CommandLine -----------------------------
(***************************************************************************)
(* main() and run_command up to the try block: what a command line of         *)
(* apex-cache asks for.  An argument is the sequence of its parts, a stem's    *)
(* joined by `_'; argv[0] is the first of the sequence.                       *)
(***************************************************************************)
EXTENDS ReportFiles

Word(word)   == <<word>>
Option(name) == <<"--", name>>

\* A variant of find_opt: options are taken to come in pairs with their values.
find_opt_paired(argv, flag) ==
  LET at == {i \in 1 .. (Len(argv) - 1) : argv[i] = flag /\ i % 2 = 0}
  IN  IF at = {} THEN << >> ELSE argv[Min(at) + 1]

\* What follows the first occurrence of the flag, whatever that is.
find_opt(argv, flag) ==
  LET at == {i \in 1 .. (Len(argv) - 1) : argv[i] = flag}
  IN  IF at = {} THEN << >> ELSE argv[Min(at) + 1]

has_flag(argv, flag) == Contains(argv, flag)

HelpFlags == {Option("help"), <<"-", "h">>}

\* run_command: an answer without a run, or the run to make.
run_command(argv) ==
  LET output == find_opt(argv, Option("output"))
  IN  IF \E flag \in HelpFlags : has_flag(argv, flag) THEN [runs |-> FALSE, exit |-> 0]
      ELSE IF Len(argv) < 3 \/ find_opt(argv, Option("cache")) = << >>
      THEN [runs |-> FALSE, exit |-> 2]
      ELSE [runs |-> TRUE, input |-> argv[3], cache |-> find_opt(argv, Option("cache")),
            output |-> IF output = << >> THEN Word("results") ELSE output]

main(argv) ==
  IF Len(argv) < 2 THEN [runs |-> FALSE, exit |-> 2]
  ELSE IF argv[2] \in HelpFlags \cup {Word("help")} THEN [runs |-> FALSE, exit |-> 0]
  ELSE IF argv[2] = Word("run") THEN run_command(argv)
  ELSE [runs |-> FALSE, exit |-> 2]

-----------------------------------------------------------------------------
(* The usage: what a command line asks for, whatever the order of its options. *)

\* The option is given once, with this value, and its name is nowhere a value itself.
Gives(argv, flag, value) ==
  \E i \in 1 .. (Len(argv) - 1) :
    /\ argv[i] = flag /\ argv[i + 1] = value /\ value # << >>
    /\ \A j \in DOMAIN argv : argv[j] = flag => j = i

AsksForRun(argv, asked) ==
  /\ Len(argv) >= 3 /\ argv[2] = Word("run") /\ argv[3] = asked.input
  /\ ~\E flag \in HelpFlags : Contains(argv, flag)
  /\ Gives(argv, Option("cache"), asked.cache)
  /\ IF Contains(argv, Option("output")) THEN Gives(argv, Option("output"), asked.output)
     ELSE asked.output = Word("results")

AsksForNone(argv) ==
  \/ Len(argv) < 3 \/ argv[2] # Word("run")
  \/ \E flag \in HelpFlags : Contains(argv, flag)
  \/ ~Contains(Front(argv), Option("cache"))

-----------------------------------------------------------------------------
\* A command line is answered without a run, no file is touched, or its run begins.
Answer(argv) ==
  /\ ~running.active /\ ~main(argv).runs
  /\ exit' = main(argv).exit
  /\ UNCHANGED <<reports, runs, running, broken>>

Run(argv, Read(_)) ==
  /\ main(argv).runs
  /\ LET asked == main(argv)
     IN  StartRun(asked.input, asked.cache, asked.output, Read(asked.input))
=============================================================================
