--------------------------- MODULE SourcePipeline ---------------------------
(***************************************************************************)
(* pipeline.py: each source given is compiled with clang if it is C, turned   *)
(* into an APE JSON file by the frontend's plugin under opt, and handed to    *)
(* apex-cache.  A source that fails is left for the next one.  APE JSON files *)
(* stay where they are written, beside the sources, from one invocation to    *)
(* the next, in which the sources may have been edited.  Between invocations    *)
(* apex-cache may be run by hand.                                           *)
(***************************************************************************)
EXTENDS CommandLine

CONSTANTS Sources,         \* the files there are, [stem, suffix]
          Arguments,       \* what the wrapper may be given, [files, ape_only]
          CommandLines,    \* given to apex-cache by hand, [argv, meant]
          PluginWrites,    \* what a successful opt may leave: "ape", "lat" or "nothing"
          MaxInvocations,  \* bound on invocations
          MaxVersion       \* bound on the versions of a source

\* The LLVM IR clang makes of a source is not itself a source: it would be written over.
ASSUME SourcesAssumption ==
  \A s \in Sources :
    /\ s.stem \in Seq(Range(s.stem))
    /\ s.suffix = ".c" => ~\E t \in Sources : t.suffix = ".ll" /\ t.stem = Append(s.stem, "g")

ASSUME ArgumentsAssumption ==
  \A a \in Arguments : a.files \in Seq(Sources) /\ a.ape_only \in BOOLEAN

\* What is meant by hand follows the usage, and no input's name ends in _objects: its
\* table would be the objects of another.
ASSUME CommandLinesAssumption ==
  \A c \in CommandLines :
    /\ c.argv \in Seq(Range(c.argv)) /\ c.meant.runs \in BOOLEAN
    /\ IF c.meant.runs THEN AsksForRun(c.argv, c.meant) ELSE AsksForNone(c.argv)
    /\ c.meant.runs => /\ c.meant.input \in Seq(Range(c.meant.input)) /\ c.meant.input # << >>
                       /\ Last(c.meant.input) # "objects"

VARIABLES version,      \* of each source
          ape,          \* APE JSON files, by stem: what they were made of
          invocations,  \* so far
          given,        \* the arguments of the invocation
          files,        \* those still to be processed
          stage,        \* of the first of them, "idle", or "by_hand"
          json,         \* the APE JSON file picked for it, by stem
          had_error,    \* the variable of main()
          failed,       \* the sources reported as failed in this invocation
          outdated,     \* the sources whose APE JSON was not of this invocation
          meant         \* what the last command line for apex-cache was to do

wrapperVars ==
  <<version, ape, invocations, given, files, stage, json, had_error, failed, outdated, meant>>
allVars == <<runVars, wrapperVars>>

source == Head(files)

Content(s) == [source |-> s, version |-> version[s]]

\* compile_c names the .ll after the source, with "_g"; a .ll is used as it is.
LlStem(s) == IF s.suffix = ".c" THEN Append(s.stem, "g") ELSE s.stem

Candidates(s) == <<Append(LlStem(s), "ape"), Append(LlStem(s), "lat")>>

NoArguments == [files |-> << >>, ape_only |-> FALSE]

\* What a command line is to do: a run, or nothing with files.
NothingMeant == [runs |-> FALSE]

\* What there is to read in an APE JSON file.
Read(stem) == IF stem \in DOMAIN ape THEN ape[stem] ELSE NoInput

\* The command line the wrapper builds, all of its paths absolute.
run_apex_cache(json_path, cache_yaml, output_dir, flags) ==
  <<Word("apex-cache"), Word("run"), json_path, Option("cache"), cache_yaml,
    Option("output"), output_dir>> \o flags

-----------------------------------------------------------------------------
WrapperInit ==
  /\ RunInit
  /\ version = [s \in Sources |-> 1] /\ ape = << >>
  /\ invocations = 0 /\ given = NoArguments
  /\ files = << >> /\ stage = "idle" /\ json = << >>
  /\ had_error = FALSE /\ failed = {} /\ outdated = {}
  /\ meant = NothingMeant

\* A source is edited between two invocations; of a file that is skipped nothing is read.
Edit(s) ==
  /\ stage = "idle" /\ invocations > 0 /\ version[s] < MaxVersion
  /\ s.suffix \in {".c", ".ll"}
  /\ version' = [version EXCEPT ![s] = @ + 1]
  /\ UNCHANGED <<runVars, ape, invocations, given, files, stage, json, had_error, failed, outdated, meant>>

Invoke(arguments) ==
  /\ stage = "idle" /\ invocations < MaxInvocations
  /\ invocations' = invocations + 1
  /\ given' = arguments /\ files' = arguments.files
  /\ stage' = "next"
  /\ had_error' = FALSE /\ failed' = {} /\ outdated' = {}
  /\ meant' = NothingMeant
  /\ UNCHANGED <<runVars, version, ape, json>>

\* A path the invocation needs does not exist: main() returns before the loop.
Reject ==
  /\ stage = "idle" /\ invocations < MaxInvocations
  /\ invocations' = invocations + 1
  /\ UNCHANGED <<runVars, version, ape, given, files, stage, json, had_error, failed, outdated, meant>>

\* A variant of Fail: the loop is left.
FailStopping ==
  /\ had_error' = TRUE /\ failed' = failed \cup {source}
  /\ files' = << >> /\ stage' = "next"

\* The loop goes on with the next source after an error.
Fail ==
  /\ had_error' = TRUE /\ failed' = failed \cup {source}
  /\ files' = Tail(files) /\ stage' = "next"

SkipSource ==
  /\ stage = "next" /\ files # << >>
  /\ source.suffix \notin {".c", ".ll"}
  /\ Fail
  /\ UNCHANGED <<runVars, version, ape, invocations, given, json, outdated, meant>>

\* to_ll: clang for C, nothing for LLVM IR.
ToLl ==
  /\ stage = "next" /\ files # << >>
  /\ source.suffix \in {".c", ".ll"}
  /\ stage' = "ape"
  /\ UNCHANGED <<runVars, version, ape, invocations, given, files, json, had_error, failed, outdated, meant>>

\* clang or opt exits with an error.
ToolFails ==
  /\ \/ stage = "next" /\ files # << >> /\ source.suffix = ".c"
     \/ stage = "ape"
  /\ Fail
  /\ UNCHANGED <<runVars, version, ape, invocations, given, json, outdated, meant>>

\* run_ape: opt succeeds, and the first candidate that exists is taken.
RunApe(written) ==
  LET stem  == Append(LlStem(source), written)
      ape1  == IF written = "nothing" THEN ape ELSE Put(ape, stem, Content(source))
      found == {k \in 1..2 : Candidates(source)[k] \in DOMAIN ape1}
      first == Candidates(source)[Min(found)]
  IN  /\ stage = "ape"
      /\ ape' = ape1
      /\ IF found = {} THEN Fail /\ UNCHANGED <<json, outdated>>
         ELSE /\ json' = first
              /\ outdated' = IF ape1[first] = Content(source) THEN outdated
                             ELSE outdated \cup {source}
              /\ IF given.ape_only THEN files' = Tail(files) /\ stage' = "next"
                 ELSE stage' = "apex" /\ UNCHANGED files
              /\ UNCHANGED <<had_error, failed>>
      /\ UNCHANGED <<runVars, version, invocations, given, meant>>

StartApex(flags) ==
  LET output_dir == Word("results")
      cache_yaml == Word("cache.yaml")
  IN  /\ stage = "apex"
      /\ Run(run_apex_cache(json, cache_yaml, output_dir, flags), Read)
      /\ meant' = [runs |-> TRUE, input |-> json, cache |-> cache_yaml, output |-> output_dir]
      /\ stage' = "running"
      /\ UNCHANGED <<version, ape, invocations, given, files, json, had_error, failed, outdated>>

\* Someone runs apex-cache between two invocations.
ByHand(command) ==
  /\ stage = "idle" /\ invocations < MaxInvocations
  /\ invocations' = invocations + 1
  /\ meant' = command.meant
  /\ \/ Run(command.argv, Read) /\ stage' = "by_hand"
     \/ Answer(command.argv) /\ UNCHANGED stage
  /\ UNCHANGED <<version, ape, given, files, json, had_error, failed, outdated>>

ByHandEnded ==
  /\ stage = "by_hand" /\ ~running.active
  /\ stage' = "idle" /\ meant' = NothingMeant
  /\ UNCHANGED <<runVars, version, ape, invocations, given, files, json, had_error, failed, outdated>>

Apex == RunStep /\ UNCHANGED wrapperVars

\* run_apex_cache checks the exit code.
ApexEnded ==
  /\ stage = "running" /\ ~running.active
  /\ IF exit = 0 THEN files' = Tail(files) /\ stage' = "next" /\ UNCHANGED <<had_error, failed>>
     ELSE Fail
  /\ meant' = NothingMeant
  /\ UNCHANGED <<runVars, version, ape, invocations, given, json, outdated>>

\* main() returns had_error as the exit code, and its variables are gone.
Finish ==
  /\ stage = "next" /\ files = << >>
  /\ stage' = "idle" /\ json' = << >> /\ given' = NoArguments
  /\ had_error' = FALSE /\ failed' = {} /\ outdated' = {}
  /\ UNCHANGED <<runVars, version, ape, invocations, files, meant>>

WrapperNext ==
  \/ \E s \in Sources : Edit(s)
  \/ \E arguments \in Arguments : Invoke(arguments)
  \/ Reject \/ SkipSource \/ ToLl \/ ToolFails
  \/ \E written \in PluginWrites : RunApe(written)
  \/ \E flags \in {<<Option("verbose"), Option("no-color")>>, << >>} : StartApex(flags)
  \/ Apex \/ ApexEnded \/ Finish
  \/ (\E command \in CommandLines : ByHand(command)) \/ ByHandEnded

WrapperSpec == WrapperInit /\ [][WrapperNext]_allVars

-----------------------------------------------------------------------------
\* A command line of the form the usage gives, its options in any order and the
\* wrapper's among them, starts a run of that input into that directory with that
\* cache; anything else is answered, and no report is touched (main, run_command,
\* find_opt, which looks at values and flags alike, and run_apex_cache).
CommandsUnderstood ==
  /\ running.active =>
       /\ meant.runs
       /\ running.base = output_basename(meant.input)
       /\ <<running.cache, running.dir>> = <<meant.cache, meant.output>>
  /\ meant.runs => stage \in {"running", "by_hand"}

\* The names the README gives the reports of a source, of the one frontend or the
\* other: that of the input, without the _g of an APE JSON file.
DocumentedBases(s) ==
  LET ll == LlStem(s)
  IN  {Append(IF ll # << >> /\ Last(ll) = "g" THEN Front(ll) ELSE ll, "ape"), Append(ll, "lat")}

\* The sources whose reports another source given after them has overwritten.
Overwritten(s) ==
  \E t \in Range(given.files) \ {s} :
    {output_basename(c) : c \in Range(Candidates(s))} \cap
    {output_basename(c) : c \in Range(Candidates(t))} # {}

\* When the wrapper has returned, every source given was reported as failed or has
\* four whole reports of the version it was invoked on, under its name: no failure
\* keeps another source from being run, and no earlier run's report passes for a
\* new one, as long as the plugin wrote the file that is read and no two sources
\* share a name (the loop of main(), run_ape, and run_command's exit code).
EverySourceAccounted ==
  stage = "next" /\ files = << >> /\ ~given.ape_only =>
    \A s \in Range(given.files) \ (failed \cup outdated) :
      Overwritten(s) \/
        \E base \in DocumentedBases(s) : \A f \in Range(ReportNames(Word("results"), base)) :
          /\ f \in DOMAIN reports
          /\ reports[f].input = Content(s) /\ reports[f].whole
=============================================================================
