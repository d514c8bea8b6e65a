---------------------------- MODULE ReportFiles -----------------------------
(***************************************************************************)
(* run_command: one run of apex-cache on an APE JSON file.  It loads, parses  *)
(* and simulates, and writes four reports named after the file into a         *)
(* directory that keeps those of earlier runs.  The streams are opened one    *)
(* after the other, and their buffers reach the disk when they are destroyed, *)
(* at the end of the try block or as an exception leaves it.                  *)
(*                                                                         *)
(* A stem is the sequence of its parts, which `_' joins in the file's name.   *)
(***************************************************************************)
EXTENDS Integers, SequencesExt

VARIABLES reports,  \* the report files there are: the run, and what it read, or not yet whole
          runs,     \* runs started so far
          running,  \* the run under way: what it reads and the files it has still to open
          broken,   \* directory and name of reports whose last run did not end well
          exit      \* of the last run

runVars == <<reports, runs, running, broken, exit>>

NoRun == [active |-> FALSE]

\* What there is to read in a file that does not exist.
NoInput == << >>

\* The stem of the input, "_g_ape" at its end shortened to "_ape".
output_basename(stem) ==
  IF IsSuffix(<<"g", "ape">>, stem) THEN Append(SubSeq(stem, 1, Len(stem) - 2), "ape") ELSE stem

Summary(dir, base) == [dir |-> dir, stem |-> base, ext |-> "json"]
Objects(dir, base) == [dir |-> dir, stem |-> Append(base, "objects"), ext |-> "csv"]
Others(dir, base)  == <<[dir |-> dir, stem |-> base, ext |-> "csv"],
                        [dir |-> dir, stem |-> Append(base, "diagnostics"), ext |-> "md"]>>

\* A variant of ReportNames: the objects come last.
ReportNamesObjectsLast(dir, base) ==
  <<Others(dir, base)[1], Summary(dir, base), Others(dir, base)[2], Objects(dir, base)>>

\* The reports in the order they are opened.
ReportNames(dir, base) ==
  <<Others(dir, base)[1], Objects(dir, base), Summary(dir, base), Others(dir, base)[2]>>

\* A file, in a set of files, gets a new content.
Put(contents, file, content) ==
  [f \in DOMAIN contents \cup {file} |-> IF f = file THEN content ELSE contents[f]]

-----------------------------------------------------------------------------
RunInit ==
  /\ reports = << >> /\ runs = 0
  /\ running = NoRun /\ broken = {} /\ exit = 0

\* The run begins; until the first file is opened it only reads.
StartRun(stem, cache, dir, input) ==
  LET base == output_basename(stem)
  IN  /\ ~running.active
      /\ runs' = runs + 1
      /\ running' = [active |-> TRUE, base |-> base, cache |-> cache, dir |-> dir,
                      input |-> input, left |-> ReportNames(dir, base)]
      /\ UNCHANGED <<reports, broken, exit>>

\* The next stream is opened, its file truncated, and its report is buffered; of an
\* input that cannot be opened there is nothing to report.
WriteReport ==
  /\ running.active /\ running.left # << >> /\ running.input # NoInput
  /\ reports' = Put(reports, Head(running.left),
                    [run |-> runs, input |-> running.input, whole |-> FALSE])
  /\ running' = [running EXCEPT !.left = Tail(@)]
  /\ UNCHANGED <<runs, broken, exit>>

\* Destroying the streams of this run writes what they hold.
Flushed ==
  [f \in DOMAIN reports |-> [reports[f] EXCEPT !.whole = @ \/ reports[f].run = runs]]

EndRun ==
  /\ running.active /\ running.left = << >>
  /\ reports' = Flushed
  /\ running' = NoRun /\ exit' = 0
  /\ broken' = broken \ {<<running.dir, running.base>>}
  /\ UNCHANGED runs

\* An exception: of the loader, the parser or the simulation before the first
\* file, or of a file that cannot be opened.
FailRun ==
  /\ running.active /\ running.left # << >>
  /\ reports' = Flushed
  /\ running' = NoRun /\ exit' = 1
  /\ broken' = broken \cup {<<running.dir, running.base>>}
  /\ UNCHANGED runs

\* The process is killed, and no stream is destroyed.
KillRun ==
  /\ running.active
  /\ running' = NoRun /\ exit' = 1
  /\ broken' = broken \cup {<<running.dir, running.base>>}
  /\ UNCHANGED <<reports, runs>>

RunStep == WriteReport \/ EndRun \/ FailRun \/ KillRun

-----------------------------------------------------------------------------
\* What the plots of a directory are made of: the names with a summary and an
\* objects file.
find_report_pairs(dir) ==
  {base \in {f.stem : f \in {g \in DOMAIN reports : g.dir = dir /\ g.ext = "json"}} :
     Objects(dir, base) \in DOMAIN reports}

\* The two reports of a name that are plotted together come from one run, unless
\* the last run for that name has not ended well; and even then the summary is
\* never the newer one, so a mixed pair is told by the objects being newer
\* (run_command's order of opening against find_report_pairs).
PairsMixAfterFailureOnly ==
  \A dir \in {f.dir : f \in DOMAIN reports} : \A base \in find_report_pairs(dir) :
    LET summary == reports[Summary(dir, base)]
        objects == reports[Objects(dir, base)]
    IN  /\ summary.run <= objects.run
        /\ summary # objects \/ ~summary.whole =>
             <<dir, base>> \in broken \/ (running.active /\ <<running.dir, running.base>> = <<dir, base>>)
=============================================================================
