------------------------ MODULE SourcePipelineProofs ------------------------
(***************************************************************************)
(* pipeline.py and apex-cache, for any sources, arguments and command lines:   *)
(* a command does what the usage says, reports that are plotted together are of *)
(* one run unless the last run failed, and every source is accounted for.      *)
(***************************************************************************)
EXTENDS SourcePipeline, FiniteSetTheorems, TLAPS

-----------------------------------------------------------------------------
(* Names. *)

\* A name is a sequence of parts, whatever they are.
IsName(s) == s \in Seq(Range(s))

\* The name of reports that are not another name's objects.
Plain(base) == IsName(base) /\ base # << >> /\ Last(base) # "objects"

\* A part is added at the end, and may be taken off again.
LEMMA AppendName ==
  ASSUME NEW s, IsName(s), NEW w
  PROVE  /\ IsName(Append(s, w)) /\ Append(s, w) # << >>
         /\ Last(Append(s, w)) = w /\ Front(Append(s, w)) = s
<1> DEFINE W == Range(s) \cup {w}
           a == Append(s, w)
           n == Len(s)
<1>1. s \in Seq(W) /\ w \in W
  BY DEF IsName
<1> HIDE DEF W
<1>2. n \in Nat /\ a \in Seq(W) /\ Len(a) = n + 1 /\ a[n + 1] = w /\ \A i \in 1..n : a[i] = s[i]
  BY <1>1
<1> HIDE DEF a
<1>3. Last(a) = w /\ a # << >>
  BY <1>2 DEF Last
<1>4. IsName(a)
  BY <1>2 DEF IsName, Range
<1>5. Front(a) = s
  <2>1. Front(a) \in Seq(W) /\ Len(Front(a)) = n /\ \A i \in 1..n : Front(a)[i] = a[i]
    BY <1>2 DEF Front
  <2> HIDE DEF n
  <2> DEFINE f == Front(a)
  <2>2. f \in Seq(W) /\ s \in Seq(W) /\ Len(f) = Len(s) /\ \A i \in 1..Len(s) : f[i] = s[i]
    BY <1>1, <1>2, <2>1 DEF n
  <2> HIDE DEF f
  <2>3. f = s
    BY <2>2
  <2> QED BY <2>3 DEF f
<1> QED BY <1>3, <1>4, <1>5 DEF a

\* The first two words of a line.
LEMMA FirstTwo ==
  ASSUME NEW W, NEW s \in Seq(W), Len(s) >= 2
  PROVE  /\ SubSeq(s, 1, 2) \in Seq(W) /\ Len(SubSeq(s, 1, 2)) = 2
         /\ SubSeq(s, 1, 2)[1] = s[1] /\ SubSeq(s, 1, 2)[2] = s[2]
<1> DEFINE n == Len(s)
<1>1. n \in Nat /\ n >= 2
  OBVIOUS
<1> QED BY <1>1

\* "_g_ape" at the end of a stem.
LEMMA SuffixGApe ==
  ASSUME NEW s, IsName(s)
  PROVE  /\ IsSuffix(<<"g", "ape">>, s)
              <=> Len(s) >= 2 /\ s[Len(s) - 1] = "g" /\ s[Len(s)] = "ape"
         /\ Len(s) \in Nat
<1> DEFINE n == Len(s)
           r == Reverse(s)
           q == Reverse(<<"g", "ape">>)
<1>1. n \in Nat /\ Len(r) = n /\ (\A i \in 1..n : r[i] = s[(n - i) + 1]) /\ r \in Seq(Range(s))
  <2>1. n \in Nat /\ s \in Seq(Range(s))
    BY DEF IsName
  <2>2. r \in [1..n -> Range(s)]
    BY <2>1 DEF Reverse
  <2> QED BY <2>1, <2>2 DEF Reverse
<1>2. Len(q) = 2 /\ q[1] = "ape" /\ q[2] = "g" /\ q \in Seq({"g", "ape"})
  BY DEF Reverse
<1>3. IsSuffix(<<"g", "ape">>, s) <=> 2 <= n /\ SubSeq(q, 1, 2) = SubSeq(r, 1, 2)
  BY <1>1, <1>2 DEF IsSuffix, IsPrefix
<1> HIDE DEF r, q, n
<1>4. n >= 2 => r[1] = s[n] /\ r[2] = s[n - 1]
  <2>1. SUFFICES ASSUME n >= 2 PROVE r[1] = s[n] /\ r[2] = s[n - 1]
    OBVIOUS
  <2>2. r[1] = s[(n - 1) + 1] /\ r[2] = s[(n - 2) + 1] /\ (n - 1) + 1 = n /\ (n - 2) + 1 = n - 1
    BY <1>1, <2>1
  <2> QED BY <2>2
<1>5. ASSUME n >= 2 PROVE SubSeq(q, 1, 2) = SubSeq(r, 1, 2) <=> q[1] = r[1] /\ q[2] = r[2]
  <2> DEFINE u == SubSeq(q, 1, 2)
             v == SubSeq(r, 1, 2)
             W == Range(s) \cup {"g", "ape"}
  <2>1. u \in Seq(W) /\ Len(u) = 2 /\ u[1] = q[1] /\ u[2] = q[2]
    <3>1. q \in Seq(W) /\ Len(q) >= 2
      BY <1>2
    <3> HIDE DEF W
    <3> QED BY <3>1, FirstTwo
  <2>2. v \in Seq(W) /\ Len(v) = 2 /\ v[1] = r[1] /\ v[2] = r[2]
    <3>1. r \in Seq(W) /\ Len(r) >= 2
      BY <1>1, <1>5
    <3> HIDE DEF W
    <3> QED BY <3>1, FirstTwo
  <2> HIDE DEF u, v, W
  <2>3. u[1] = v[1] /\ u[2] = v[2] => u = v
    <3>1. SUFFICES ASSUME u[1] = v[1], u[2] = v[2] PROVE \A i \in 1..2 : u[i] = v[i]
      BY <2>1, <2>2
    <3> QED BY <3>1
  <2> QED BY <2>1, <2>2, <2>3 DEF u, v
<1> QED BY <1>1, <1>2, <1>3, <1>4, <1>5 DEF n

\* What output_basename gives.
LEMMA BaseName ==
  ASSUME NEW s, IsName(s), s # << >>
  PROVE  /\ IsName(output_basename(s)) /\ output_basename(s) # << >>
         /\ Last(output_basename(s)) = Last(s)
<1>1. CASE IsSuffix(<<"g", "ape">>, s)
  <2> DEFINE front == SubSeq(s, 1, Len(s) - 2)
             b     == Append(front, "ape")
  <2>1. Len(s) >= 2 /\ Len(s) \in Nat /\ s[Len(s)] = "ape"
    BY <1>1, SuffixGApe
  <2>2. IsName(front)
    <3>1. front \in Seq(Range(s))
      BY <2>1 DEF IsName
    <3> HIDE DEF front
    <3> QED BY <3>1 DEF IsName, Range
  <2> HIDE DEF front
  <2>3. IsName(b) /\ b # << >> /\ Last(b) = "ape"
    BY <2>2, AppendName
  <2>4. output_basename(s) = b
    BY <1>1 DEF output_basename, front
  <2> QED BY <2>1, <2>3, <2>4 DEF Last
<1>2. CASE ~IsSuffix(<<"g", "ape">>, s)
  BY <1>2 DEF output_basename
<1> QED BY <1>1, <1>2

\* The base name of an input that is not called ..._objects is not either.
LEMMA BaseIsPlain ==
  ASSUME NEW s, IsName(s), s # << >>, Last(s) # "objects"
  PROVE  Plain(output_basename(s))
BY BaseName DEF Plain

\* The four files of a name.
LEMMA FourNames ==
  ASSUME NEW d, NEW b
  PROVE  /\ ReportNames(d, b) \in Seq(Range(ReportNames(d, b))) /\ Len(ReportNames(d, b)) = 4
         /\ ReportNames(d, b)[1] = [dir |-> d, stem |-> b, ext |-> "csv"]
         /\ ReportNames(d, b)[2] = Objects(d, b)
         /\ ReportNames(d, b)[3] = Summary(d, b)
         /\ ReportNames(d, b)[4] = [dir |-> d, stem |-> Append(b, "diagnostics"), ext |-> "md"]
<1> DEFINE x1 == [dir |-> d, stem |-> b, ext |-> "csv"]
           x2 == Objects(d, b)
           x3 == Summary(d, b)
           x4 == [dir |-> d, stem |-> Append(b, "diagnostics"), ext |-> "md"]
<1>1. ReportNames(d, b) = <<x1, x2, x3, x4>>
  BY DEF ReportNames, Others
<1> HIDE DEF x1, x2, x3, x4
<1> DEFINE q == <<x1, x2, x3, x4>>
<1>2. Len(q) = 4 /\ q[1] = x1 /\ q[2] = x2 /\ q[3] = x3 /\ q[4] = x4 /\ DOMAIN q = 1..4
  OBVIOUS
<1>3. q \in Seq({x1, x2, x3, x4})
  OBVIOUS
<1>4. q \in Seq(Range(q))
  BY <1>3 DEF Range
<1> QED BY <1>1, <1>2, <1>4 DEF x1, x2, x3, x4

\* The same with each file's name in full.
LEMMA NamedFiles ==
  ASSUME NEW d, NEW b
  PROVE  /\ ReportNames(d, b)[1] = [dir |-> d, stem |-> b, ext |-> "csv"]
         /\ ReportNames(d, b)[2] = [dir |-> d, stem |-> Append(b, "objects"), ext |-> "csv"]
         /\ ReportNames(d, b)[3] = [dir |-> d, stem |-> b, ext |-> "json"]
         /\ ReportNames(d, b)[4] = [dir |-> d, stem |-> Append(b, "diagnostics"), ext |-> "md"]
<1>1. ReportNames(d, b)[2] = Objects(d, b) /\ ReportNames(d, b)[3] = Summary(d, b)
  BY FourNames
<1>2. Objects(d, b) = [dir |-> d, stem |-> Append(b, "objects"), ext |-> "csv"]
  BY DEF Objects
<1>3. Summary(d, b) = [dir |-> d, stem |-> b, ext |-> "json"]
  BY DEF Summary
<1>4. /\ ReportNames(d, b)[1] = [dir |-> d, stem |-> b, ext |-> "csv"]
      /\ ReportNames(d, b)[4] = [dir |-> d, stem |-> Append(b, "diagnostics"), ext |-> "md"]
  BY FourNames
<1> QED BY <1>1, <1>2, <1>3, <1>4, Zenon

\* The reports of a name are the four it lists.
LEMMA NamesAreFour ==
  ASSUME NEW d, NEW b, NEW f \in Range(ReportNames(d, b))
  PROVE  \E i \in 1..4 : f = ReportNames(d, b)[i]
<1> DEFINE q == ReportNames(d, b)
<1>1. q \in Seq(Range(q)) /\ Len(q) = 4
  BY FourNames
<1> HIDE DEF q
<1>2. DOMAIN q = 1..4
  BY <1>1
<1>3. f \in Range(q)
  BY DEF q
<1>4. \E i \in 1..4 : f = q[i]
  BY <1>2, <1>3 DEF Range
<1> QED BY <1>4 DEF q

\* Two names share no file.
LEMMA NamesApart ==
  ASSUME NEW d, NEW b, NEW e, NEW c, Plain(b), Plain(c), <<d, b>> # <<e, c>>
  PROVE  \A i, j \in 1..4 : ReportNames(d, b)[i] # ReportNames(e, c)[j]
<1> DEFINE x == ReportNames(d, b)
           y == ReportNames(e, c)
           bo == Append(b, "objects")
           co == Append(c, "objects")
           bd == Append(b, "diagnostics")
           cd == Append(c, "diagnostics")
<1>1. /\ IsName(b) /\ IsName(c) /\ Last(b) # "objects" /\ Last(c) # "objects"
  BY DEF Plain
<1>2. Last(bo) = "objects" /\ Last(co) = "objects" /\ Front(bo) = b /\ Front(co) = c
  BY <1>1, AppendName
<1>3. Front(bd) = b /\ Front(cd) = c
  BY <1>1, AppendName
<1>4. x[1] = [dir |-> d, stem |-> b, ext |-> "csv"] /\ x[2] = [dir |-> d, stem |-> bo, ext |-> "csv"]
      /\ x[3] = [dir |-> d, stem |-> b, ext |-> "json"] /\ x[4] = [dir |-> d, stem |-> bd, ext |-> "md"]
  BY NamedFiles
<1>5. y[1] = [dir |-> e, stem |-> c, ext |-> "csv"] /\ y[2] = [dir |-> e, stem |-> co, ext |-> "csv"]
      /\ y[3] = [dir |-> e, stem |-> c, ext |-> "json"] /\ y[4] = [dir |-> e, stem |-> cd, ext |-> "md"]
  BY NamedFiles
<1>6. d # e \/ b # c
  OBVIOUS
<1> HIDE DEF x, y, bo, co, bd, cd
<1>7. b # co /\ c # bo /\ (bo = co => b = c) /\ (bd = cd => b = c)
  BY <1>1, <1>2, <1>3
<1>8. ASSUME NEW i \in 1..4, NEW j \in 1..4 PROVE x[i] # y[j]
  <2>1. i \in {1, 2, 3, 4} /\ j \in {1, 2, 3, 4}
    BY <1>8
  <2>2. CASE i = 1
    BY <1>4, <1>5, <1>6, <1>7, <2>1, <2>2
  <2>3. CASE i = 2
    BY <1>4, <1>5, <1>6, <1>7, <2>1, <2>3
  <2>4. CASE i = 3
    BY <1>4, <1>5, <1>6, <1>7, <2>1, <2>4
  <2>5. CASE i = 4
    BY <1>4, <1>5, <1>6, <1>7, <2>1, <2>5
  <2> QED BY <2>1, <2>2, <2>3, <2>4, <2>5
<1> QED BY <1>8 DEF x, y

\* Of the four only the summary is JSON, and it has the very name.
FileOf(f, d, b) ==
  f = [dir |-> f.dir, stem |-> f.stem, ext |-> f.ext] /\ f.dir = d /\ (f.ext = "json" => f.stem = b)

\* Each of the four is of its directory and base name.
LEMMA NameFacts ==
  ASSUME NEW d, NEW b, NEW i \in 1..4
  PROVE  FileOf(ReportNames(d, b)[i], d, b)
<1> DEFINE q == ReportNames(d, b)
           f == q[i]
<1>1. /\ q[1] = [dir |-> d, stem |-> b, ext |-> "csv"]
      /\ q[2] = [dir |-> d, stem |-> Append(b, "objects"), ext |-> "csv"]
      /\ q[3] = [dir |-> d, stem |-> b, ext |-> "json"]
      /\ q[4] = [dir |-> d, stem |-> Append(b, "diagnostics"), ext |-> "md"]
  BY NamedFiles
<1>2. \/ f = [dir |-> d, stem |-> b, ext |-> "csv"]
      \/ f = [dir |-> d, stem |-> Append(b, "objects"), ext |-> "csv"]
      \/ f = [dir |-> d, stem |-> b, ext |-> "json"]
      \/ f = [dir |-> d, stem |-> Append(b, "diagnostics"), ext |-> "md"]
  <2>1. i = 1 \/ i = 2 \/ i = 3 \/ i = 4
    OBVIOUS
  <2>2. f = q[1] \/ f = q[2] \/ f = q[3] \/ f = q[4]
    BY <2>1
  <2> HIDE DEF q, f
  <2> QED BY <1>1, <2>2
<1> HIDE DEF f
<1>3. FileOf(f, d, b)
  BY <1>2 DEF FileOf
<1> QED BY <1>3 DEF f

\* Nor does a name have a file twice.
LEMMA NamesDiffer ==
  ASSUME NEW d, NEW b, Plain(b)
  PROVE  \A i, j \in 1..4 : i # j => ReportNames(d, b)[i] # ReportNames(d, b)[j]
<1> DEFINE x == ReportNames(d, b)
           bo == Append(b, "objects")
           bd == Append(b, "diagnostics")
<1>1. IsName(b) /\ Last(b) # "objects" /\ Last(bo) = "objects"
  BY AppendName DEF Plain
<1>2. x[1] = [dir |-> d, stem |-> b, ext |-> "csv"] /\ x[2] = [dir |-> d, stem |-> bo, ext |-> "csv"]
      /\ x[3] = [dir |-> d, stem |-> b, ext |-> "json"] /\ x[4] = [dir |-> d, stem |-> bd, ext |-> "md"]
  BY NamedFiles
<1> HIDE DEF x, bo, bd
<1>3. b # bo
  BY <1>1
<1>4. ASSUME NEW i \in 1..4, NEW j \in 1..4, i # j PROVE x[i] # x[j]
  <2>1. i \in {1, 2, 3, 4} /\ j \in {1, 2, 3, 4}
    BY <1>4
  <2> QED BY <1>2, <1>3, <1>4, <2>1
<1> QED BY <1>4 DEF x

-----------------------------------------------------------------------------
(* The invariant, part by part. *)

\* The reports of a run, in the order it opens them.
Names(dir, base) == ReportNames(dir, base)

\* How many files the run under way has opened.
Opened == 4 - Len(running.left)

\* A run is of a name that is no other's objects, and has opened its files up to a point.
RunningInv ==
  \/ running = NoRun
  \/ /\ running = [active |-> TRUE, base |-> running.base, cache |-> running.cache,
                   dir |-> running.dir, input |-> running.input, left |-> running.left]
     /\ Plain(running.base)
     /\ running.left \in Seq(Range(Names(running.dir, running.base))) /\ Len(running.left) <= 4
     /\ \A i \in 1 .. Len(running.left) :
          running.left[i] = Names(running.dir, running.base)[Opened + i]
     /\ \A i \in 1 .. Opened :
          LET f == Names(running.dir, running.base)[i]
          IN  f \in DOMAIN reports /\ reports[f].run = runs /\ reports[f].input = running.input

\* Every report is of a run there has been, and of a name that is no other's objects.
ReportsInv ==
  /\ runs \in Nat
  /\ \A f \in DOMAIN reports :
       /\ reports[f] = [run |-> reports[f].run, input |-> reports[f].input, whole |-> reports[f].whole]
       /\ reports[f].run \in 0 .. runs /\ reports[f].whole \in BOOLEAN
       /\ f = [dir |-> f.dir, stem |-> f.stem, ext |-> f.ext]
       /\ f.ext = "json" => Plain(f.stem)

\* The run under way writes the reports of this name.
Current(dir, base) == running.active /\ <<running.dir, running.base>> = <<dir, base>>

\* PairsMixAfterFailureOnly, of one name.
PairInv(dir, base) ==
  Summary(dir, base) \in DOMAIN reports /\ Objects(dir, base) \in DOMAIN reports =>
    LET summary == reports[Summary(dir, base)]
        objects == reports[Objects(dir, base)]
    IN  /\ summary.run <= objects.run
        /\ \/ summary = objects /\ summary.whole
           \/ <<dir, base>> \in broken
           \/ Current(dir, base)

\* What is known of the report files.
FilesInv == RunningInv /\ ReportsInv /\ \A dir, base : PairInv(dir, base)

\* The sources that are left to be processed, and what each stage has found out.
StageInv ==
  /\ given.files \in Seq(Sources) /\ given.ape_only \in BOOLEAN
  /\ files \in Seq(Sources)
  /\ stage \in {"idle", "next", "ape", "apex", "running", "by_hand"}
  /\ stage \in {"ape", "apex", "running"} => files # << >>
  /\ stage \in {"apex", "running"} => json \in Range(Candidates(source))

\* The run under way is the one that was asked for, on the command line or by the wrapper.
CommandInv ==
  /\ running.active =>
       /\ meant.runs
       /\ running.base = output_basename(meant.input)
       /\ running.cache = meant.cache /\ running.dir = meant.output
  /\ meant.runs => stage \in {"running", "by_hand"}

\* The four reports of a name are whole, and of this content.
Whole(base, content) ==
  \A i \in 1 .. 4 :
    LET f == Names(Word("results"), base)[i]
    IN  f \in DOMAIN reports /\ reports[f].input = content /\ reports[f].whole

\* The base names a source's reports may have.
Bases(s) == {output_basename(c) : c \in Range(Candidates(s))}

\* The sources behind the wrapper.
Behind == {given.files[i] : i \in 1 .. (Len(given.files) - Len(files))}

\* The wrapper is in its loop.
Busy == stage \in {"next", "ape", "apex", "running"}

\* What is left is the end of what was given.
PlaceInv ==
  Busy => /\ Len(files) <= Len(given.files)
          /\ \A i \in 1 .. Len(files) :
               files[i] = given.files[(Len(given.files) - Len(files)) + i]

\* The file picked is there, and of this invocation unless the source is known not to be.
PickedInv ==
  stage \in {"apex", "running"} =>
    json \in DOMAIN ape /\ (source \in outdated \/ ape[json] = Content(source))

\* The wrapper's run reads the file picked, and has written its reports when it exits with 0.
OwnRunInv ==
  stage = "running" =>
    /\ meant.input = json /\ meant.output = Word("results")
    /\ running.active => running.input = ape[json]
    /\ ~running.active /\ exit = 0 => Whole(output_basename(json), ape[json])

\* EverySourceAccounted, of the sources behind.
Accounted(s) ==
  \/ Overwritten(s)
  \/ stage = "running" /\ s = source
  \/ \E base \in Bases(s) : Whole(base, Content(s))

\* Every source behind the wrapper has its reports or was reported as failed.
DoneInv ==
  Busy /\ ~given.ape_only => \A s \in Behind \ (failed \cup outdated) : Accounted(s)

\* What is known of the sources of the invocation.
AccountInv == PlaceInv /\ PickedInv /\ OwnRunInv /\ DoneInv

-----------------------------------------------------------------------------
(* Command lines. *)

\* An option that is given has the value it is given.
LEMMA FindGiven ==
  ASSUME NEW argv, IsName(argv), NEW flag, NEW value, Gives(argv, flag, value)
  PROVE  find_opt(argv, flag) = value /\ value # << >>
<1> DEFINE at == {i \in 1 .. (Len(argv) - 1) : argv[i] = flag}
<1>1. Len(argv) \in Nat /\ DOMAIN argv = 1 .. Len(argv)
  BY DEF IsName
<1>2. PICK i \in 1 .. (Len(argv) - 1) :
        argv[i] = flag /\ argv[i + 1] = value /\ value # << >> /\ \A j \in DOMAIN argv : argv[j] = flag => j = i
  BY DEF Gives
<1>3. at = {i}
  BY <1>1, <1>2
<1>4. Min(at) = i
  BY <1>2, <1>3 DEF Min
<1>5. find_opt(argv, flag) = argv[Min(at) + 1]
  BY <1>3 DEF find_opt
<1> QED BY <1>2, <1>4, <1>5

\* An option that is not given has none.
LEMMA FindNone ==
  ASSUME NEW argv, NEW flag, ~\E i \in 1 .. (Len(argv) - 1) : argv[i] = flag
  PROVE  find_opt(argv, flag) = << >>
BY DEF find_opt

\* The word run is no request for help.
LEMMA RunIsNoHelp == Word("run") \notin HelpFlags \cup {Word("help")}
BY DEF Word, HelpFlags, Option

\* What the usage asks for is what is made of it.
LEMMA RunsWhatIsAsked ==
  ASSUME NEW argv, IsName(argv), NEW asked, AsksForRun(argv, asked)
  PROVE  /\ main(argv).runs /\ main(argv).input = asked.input
         /\ main(argv).cache = asked.cache /\ main(argv).output = asked.output
<1> DEFINE output == find_opt(argv, Option("output"))
<1>1. /\ Len(argv) >= 3 /\ argv[2] = Word("run") /\ argv[3] = asked.input /\ Len(argv) \in Nat
      /\ ~\E flag \in HelpFlags : has_flag(argv, flag)
  BY DEF AsksForRun, IsName, has_flag
<1>2. find_opt(argv, Option("cache")) = asked.cache /\ asked.cache # << >>
  BY FindGiven DEF AsksForRun
<1>3. (IF output = << >> THEN Word("results") ELSE output) = asked.output
  <2>1. CASE Contains(argv, Option("output"))
    BY <2>1, FindGiven DEF AsksForRun
  <2>2. CASE ~Contains(argv, Option("output"))
    <3>1. ~\E i \in 1 .. (Len(argv) - 1) : argv[i] = Option("output")
      BY <1>1, <2>2 DEF Contains
    <3>2. output = << >>
      BY <3>1, FindNone
    <3> QED BY <2>2, <3>2 DEF AsksForRun
  <2> QED BY <2>1, <2>2
<1> HIDE DEF output
<1>4. main(argv) = run_command(argv)
  BY <1>1, RunIsNoHelp DEF main
<1>5. run_command(argv) = [runs |-> TRUE, input |-> argv[3], cache |-> find_opt(argv, Option("cache")),
                           output |-> IF output = << >> THEN Word("results") ELSE output]
  BY <1>1, <1>2 DEF run_command, output
<1> QED BY <1>1, <1>2, <1>3, <1>4, <1>5

\* A command line that asks for no run starts none.
LEMMA RunsNothingElse ==
  ASSUME NEW argv, IsName(argv), AsksForNone(argv)
  PROVE  ~main(argv).runs
<1>1. Len(argv) \in Nat
  BY DEF IsName
<1>2. SUFFICES ASSUME Len(argv) >= 2, argv[2] = Word("run"), argv[2] \notin HelpFlags \cup {Word("help")}
               PROVE  ~run_command(argv).runs
  BY <1>1 DEF main
<1>3. SUFFICES ASSUME Len(argv) >= 3, ~\E flag \in HelpFlags : has_flag(argv, flag)
               PROVE  find_opt(argv, Option("cache")) = << >>
  BY <1>1 DEF run_command
<1>4. ~Contains(Front(argv), Option("cache"))
  BY <1>1, <1>2, <1>3 DEF AsksForNone, has_flag
<1>5. Len(Front(argv)) = Len(argv) - 1 /\ \A i \in 1 .. (Len(argv) - 1) : Front(argv)[i] = argv[i]
  <2>1. argv \in Seq(Range(argv))
    BY DEF IsName
  <2> QED BY <1>1, <1>3, <2>1 DEF Front
<1>6. ~\E i \in 1 .. (Len(argv) - 1) : argv[i] = Option("cache")
  BY <1>1, <1>4, <1>5 DEF Contains
<1> QED BY <1>6, FindNone

\* The places of two sequences in the one they make.
LEMMA Joined ==
  ASSUME NEW W, NEW p \in Seq(W), NEW q \in Seq(W)
  PROVE  /\ p \o q \in Seq(W) /\ Len(p \o q) = Len(p) + Len(q) /\ Len(p) \in Nat /\ Len(q) \in Nat
         /\ \A i \in 1 .. Len(p) : (p \o q)[i] = p[i]
         /\ \A i \in (Len(p) + 1) .. (Len(p) + Len(q)) : (p \o q)[i] = q[i - Len(p)]
OBVIOUS

\* The wrapper's command line, of a file whose name is not an option's: its last part
\* is neither of those of an option.
LEMMA WrapperAsks ==
  ASSUME NEW input, NEW cache, NEW dir, NEW flags,
         flags \in {<<Option("verbose"), Option("no-color")>>, << >>},
         IsName(input), Last(input) \in {"ape", "lat"}, Len(cache) = 1, Len(dir) = 1, cache # << >>
  PROVE  LET argv == run_apex_cache(input, cache, dir, flags)
         IN  IsName(argv) /\ AsksForRun(argv, [runs |-> TRUE, input |-> input, cache |-> cache, output |-> dir])
<1> DEFINE argv == run_apex_cache(input, cache, dir, flags)
           exe == Word("apex-cache")
           run == Word("run")
           c   == Option("cache")
           o   == Option("output")
           v   == Option("verbose")
           nc  == Option("no-color")
           h   == Option("help")
           hh  == <<"-", "h">>
           q   == <<exe, run, input, c, cache, o, dir>>
           W   == {exe, run, input, c, cache, o, dir, v, nc}
<1>1. c \notin {exe, run, input, cache, o, dir, v, nc} /\ o \notin {exe, run, input, c, cache, dir, v, nc}
  <2>1. Len(c) = 2 /\ Len(o) = 2 /\ Len(exe) = 1 /\ Len(run) = 1
    BY DEF Option, Word
  <2>2. c # o /\ c # v /\ c # nc /\ o # v /\ o # nc
    BY DEF Option
  <2>3. input # c /\ input # o
    <3>1. Last(c) = "cache" /\ Last(o) = "output"
      BY DEF Last, Option
    <3> QED BY <3>1
  <2> HIDE DEF c, o, v, nc, exe, run
  <2> QED BY <2>1, <2>2, <2>3
<1>2. h \notin W /\ hh \notin W
  <2>1. Len(h) = 2 /\ Len(hh) = 2 /\ Len(exe) = 1 /\ Len(run) = 1
    BY DEF Option, Word
  <2>2. h # o /\ h # v /\ h # nc /\ h # c /\ hh # o /\ hh # v /\ hh # nc /\ hh # c
    BY DEF Option
  <2>3. input # h /\ input # hh
    <3>1. Last(h) = "help" /\ Last(hh) = "h"
      BY DEF Last, Option
    <3> QED BY <3>1
  <2> HIDE DEF c, o, v, nc, exe, run, h, hh
  <2> QED BY <2>1, <2>2, <2>3
<1>3. HelpFlags = {h, hh}
  BY DEF HelpFlags
<1>4. argv = q \o flags /\ (flags = <<v, nc>> \/ flags = << >>)
  BY DEF run_apex_cache
<1>5. run = Word("run") /\ c = Option("cache") /\ o = Option("output")
  OBVIOUS
<1> HIDE DEF c, o, v, nc, exe, run, h, hh, argv
<1>6. q \in Seq(W) /\ Len(q) = 7 /\ q[1] = exe /\ q[2] = run /\ q[3] = input /\ q[4] = c /\ q[5] = cache /\ q[6] = o /\ q[7] = dir
  OBVIOUS
<1>7. flags \in Seq(W) /\ \A i \in 1 .. Len(flags) : flags[i] \in {v, nc}
  <2>1. v \in W /\ nc \in W
    OBVIOUS
  <2> HIDE DEF W
  <2>2. CASE flags = << >>
    BY <2>2
  <2>3. CASE flags = <<v, nc>>
    <3>1. <<v, nc>> \in Seq(W) /\ Len(<<v, nc>>) = 2 /\ <<v, nc>>[1] = v /\ <<v, nc>>[2] = nc
      BY <2>1
    <3> QED BY <2>3, <3>1
  <2> QED BY <1>4, <2>2, <2>3
<1> DEFINE n == Len(argv)
<1>8. /\ argv \in Seq(W) /\ Len(argv) \in Nat /\ Len(argv) >= 7 /\ \A i \in 1 .. 7 : argv[i] = q[i]
      /\ \A i \in 8 .. Len(argv) : argv[i] \in {v, nc}
  <2>1. flags \in Seq(W) /\ q \in Seq(W) /\ Len(q) = 7 /\ argv = q \o flags /\ \A i \in 1 .. Len(flags) : flags[i] \in {v, nc}
    BY <1>4, <1>6, <1>7
  <2> HIDE DEF W, q
  <2>2. argv \in Seq(W) /\ Len(argv) = Len(q) + Len(flags) /\ Len(flags) \in Nat /\ \A i \in 1 .. Len(q) : argv[i] = q[i]
    <3>1. /\ q \o flags \in Seq(W) /\ Len(q \o flags) = Len(q) + Len(flags) /\ Len(flags) \in Nat
          /\ \A i \in 1 .. Len(q) : (q \o flags)[i] = q[i]
      <4>1. flags \in Seq(W) /\ q \in Seq(W)
        BY <2>1
      <4> QED BY ONLY <4>1, Joined
    <3> QED BY <2>1, <3>1, Zenon
  <2>3. \A i \in 8 .. Len(argv) : argv[i] = flags[i - 7] /\ i - 7 \in 1 .. Len(flags)
    BY <2>1, <2>2, Joined
  <2> QED BY <2>1, <2>2, <2>3
<1>9. /\ argv[1] = exe /\ argv[2] = run /\ argv[3] = input /\ argv[4] = c /\ argv[5] = cache
      /\ argv[6] = o /\ argv[7] = dir
  BY <1>6, <1>8
<1> HIDE DEF q
<1>10. DOMAIN argv = 1 .. Len(argv) /\ \A i \in DOMAIN argv : i \in {1, 2, 3, 4, 5, 6, 7} \/ i \in 8 .. Len(argv)
  BY <1>8
<1>11. IsName(argv)
  BY <1>8 DEF IsName, Range
<1>12. ~\E flag \in HelpFlags : Contains(argv, flag)
  BY <1>2, <1>3, <1>8 DEF Contains
<1>13. Gives(argv, c, cache)
  <2>1. \A j \in DOMAIN argv : argv[j] = c => j = 4
    BY <1>1, <1>8, <1>9, <1>10
  <2> QED BY <1>8, <1>9, <2>1 DEF Gives
<1>14. Gives(argv, o, dir) /\ Contains(argv, o)
  <2>1. \A j \in DOMAIN argv : argv[j] = o => j = 6
    BY <1>1, <1>8, <1>9, <1>10
  <2>2. dir # << >>
    OBVIOUS
  <2> QED BY <1>8, <1>9, <2>1, <2>2 DEF Gives, Contains
<1> QED BY <1>5, <1>8, <1>9, <1>11, <1>12, <1>13, <1>14 DEF AsksForRun, argv

-----------------------------------------------------------------------------
(* The stages. *)

\* The APE JSON files looked for have names that are no run's objects and no option.
LEMMA CandidateNames ==
  ASSUME NEW s \in Sources
  PROVE  /\ IsName(LlStem(s))
         /\ Range(Candidates(s)) = {Append(LlStem(s), "ape"), Append(LlStem(s), "lat")}
         /\ \A k \in 1 .. 2 : Candidates(s)[k] \in Range(Candidates(s))
         /\ \A c \in Range(Candidates(s)) :
              IsName(c) /\ c # << >> /\ Last(c) \in {"ape", "lat"} /\ Plain(output_basename(c))
<1> DEFINE a == Append(LlStem(s), "ape")
           l == Append(LlStem(s), "lat")
<1>1. IsName(LlStem(s))
  <2>1. IsName(s.stem)
    BY SourcesAssumption DEF IsName
  <2> QED BY <2>1, AppendName DEF LlStem
<1>2. /\ IsName(a) /\ a # << >> /\ Last(a) = "ape"
      /\ IsName(l) /\ l # << >> /\ Last(l) = "lat"
  BY <1>1, AppendName
<1>3. Candidates(s) = <<a, l>>
  BY DEF Candidates
<1> HIDE DEF a, l
<1>4. Range(<<a, l>>) = {a, l} /\ <<a, l>>[1] = a /\ <<a, l>>[2] = l
  BY DEF Range
<1>5. Plain(output_basename(a)) /\ Plain(output_basename(l))
  BY <1>2, BaseIsPlain
<1>6. \A k \in 1 .. 2 : k = 1 \/ k = 2
  OBVIOUS
<1> QED BY <1>1, <1>2, <1>3, <1>4, <1>5, <1>6 DEF a, l

\* The first of the candidates there are.
LEMMA FirstFound ==
  ASSUME NEW found, found \subseteq 1 .. 2, found # {}
  PROVE  Min(found) \in found
<1>1. \E x \in found : \A y \in found : x <= y
  <2>1. CASE 1 \in found
    BY <2>1
  <2>2. CASE 1 \notin found
    <3>1. \A x \in found : x = 2
      BY <2>2
    <3>2. PICK x \in found : TRUE
      OBVIOUS
    <3>3. \A y \in found : x <= y
      BY <3>1
    <3> QED BY <3>2, <3>3
  <2> QED BY <2>1, <2>2
<1> QED BY <1>1 DEF Min

\* The rest of a sequence.
LEMMA TailFacts ==
  ASSUME NEW S, NEW q \in Seq(S), q # << >>
  PROVE  /\ Head(q) \in S /\ Tail(q) \in Seq(S) /\ Len(q) \in Nat
         /\ Head(q) = q[1] /\ Len(q) >= 1 /\ Len(Tail(q)) = Len(q) - 1
         /\ \A i \in 1 .. Len(Tail(q)) : Tail(q)[i] = q[i + 1]
OBVIOUS

\* The stages of the wrapper stay in their order.
LEMMA StageStep ==
  ASSUME StageInv, [WrapperNext]_allVars
  PROVE  StageInv'
<1> USE DEF StageInv, source
<1>1. ASSUME NEW s \in Sources, Edit(s) PROVE StageInv'
  BY <1>1 DEF Edit
<1>2. ASSUME NEW arguments \in Arguments, Invoke(arguments) PROVE StageInv'
  BY <1>2, ArgumentsAssumption DEF Invoke
<1>3. CASE Reject
  BY <1>3 DEF Reject
<1>4. CASE SkipSource
  BY <1>4, TailFacts DEF SkipSource, Fail
<1>5. CASE ToLl
  BY <1>5 DEF ToLl
<1>6. CASE ToolFails
  BY <1>6, TailFacts DEF ToolFails, Fail
<1>7. ASSUME NEW written \in PluginWrites, RunApe(written) PROVE StageInv'
  <2> DEFINE ape1  == IF written = "nothing" THEN ape
                      ELSE Put(ape, Append(LlStem(source), written), Content(source))
             found == {k \in 1 .. 2 : Candidates(source)[k] \in DOMAIN ape1}
             first == Candidates(source)[Min(found)]
  <2>1. stage = "ape" /\ files # << >> /\ Head(files) \in Sources /\ Tail(files) \in Seq(Sources)
    BY <1>7, TailFacts DEF RunApe
  <2>2. CASE found = {}
    <3>1. Fail /\ json' = json /\ given' = given
      BY <1>7, <2>2 DEF RunApe
    <3> QED BY <2>1, <3>1 DEF Fail
  <2>3. CASE found # {}
    <3>1. first \in Range(Candidates(source))
      <4>1. Min(found) \in 1 .. 2
        <5>1. found \subseteq 1 .. 2
          OBVIOUS
        <5> HIDE DEF found
        <5> QED BY <2>3, <5>1, FirstFound
      <4> HIDE DEF found
      <4> QED BY <2>1, <4>1, CandidateNames
    <3>2. /\ json' = first /\ given' = given
          /\ \/ files' = Tail(files) /\ stage' = "next"
             \/ stage' = "apex" /\ files' = files
      BY <1>7, <2>3 DEF RunApe
    <3> QED BY <2>1, <3>1, <3>2
  <2> QED BY <2>2, <2>3
<1>8. ASSUME NEW flags, StartApex(flags) PROVE StageInv'
  BY <1>8 DEF StartApex
<1>9. CASE Apex
  BY <1>9 DEF Apex, wrapperVars
<1>10. CASE ApexEnded
  BY <1>10, TailFacts DEF ApexEnded, Fail
<1>11. CASE Finish
  BY <1>11 DEF Finish, NoArguments
<1>12. ASSUME NEW command \in CommandLines, ByHand(command) PROVE StageInv'
  BY <1>12 DEF ByHand
<1>13. CASE ByHandEnded
  BY <1>13 DEF ByHandEnded
<1>14. CASE UNCHANGED allVars
  BY <1>14 DEF allVars, wrapperVars
<1> QED BY <1>1, <1>2, <1>3, <1>4, <1>5, <1>6, <1>7, <1>8, <1>9, <1>10, <1>11, <1>12, <1>13, <1>14 DEF WrapperNext

-----------------------------------------------------------------------------
(* Commands and runs. *)

\* What a run by hand or of the wrapper begins.
LEMMA RunBegins ==
  ASSUME NEW argv, IsName(argv), NEW asked, AsksForRun(argv, asked), Run(argv, Read)
  PROVE  /\ ~running.active
         /\ running' = [active |-> TRUE, base |-> output_basename(asked.input), cache |-> asked.cache,
                        dir |-> asked.output, input |-> Read(asked.input),
                        left |-> ReportNames(asked.output, output_basename(asked.input))]
         /\ runs' = runs + 1 /\ UNCHANGED <<reports, broken, exit>>
<1>1. /\ main(argv).input = asked.input
      /\ main(argv).cache = asked.cache /\ main(argv).output = asked.output
  BY RunsWhatIsAsked
<1> QED BY <1>1 DEF Run, StartRun

\* The wrapper's run is of the file it picked.
LEMMA WrapperRuns ==
  ASSUME NEW flags \in {<<Option("verbose"), Option("no-color")>>, << >>},
         StageInv, StartApex(flags)
  PROVE  /\ stage = "apex" /\ ~running.active
         /\ running' = [active |-> TRUE, base |-> output_basename(json), cache |-> Word("cache.yaml"),
                        dir |-> Word("results"), input |-> Read(json),
                        left |-> ReportNames(Word("results"), output_basename(json))]
         /\ runs' = runs + 1 /\ UNCHANGED <<reports, broken, exit>>
         /\ Plain(output_basename(json))
<1> DEFINE argv  == run_apex_cache(json, Word("cache.yaml"), Word("results"), flags)
           asked == [runs |-> TRUE, input |-> json, cache |-> Word("cache.yaml"), output |-> Word("results")]
<1>1. stage = "apex" /\ Run(argv, Read)
  BY DEF StartApex
<1>2. IsName(json) /\ Last(json) \in {"ape", "lat"} /\ Plain(output_basename(json))
  <2>1. source \in Sources /\ json \in Range(Candidates(source))
    BY <1>1, TailFacts DEF StageInv, source
  <2> QED BY <2>1, CandidateNames
<1>3. Len(Word("cache.yaml")) = 1 /\ Len(Word("results")) = 1 /\ Word("cache.yaml") # << >>
  BY DEF Word
<1>4. IsName(argv) /\ AsksForRun(argv, asked)
  BY <1>2, <1>3, WrapperAsks
<1>5. asked.input = json /\ asked.cache = Word("cache.yaml") /\ asked.output = Word("results")
  OBVIOUS
<1> HIDE DEF argv, asked
<1> QED BY <1>1, <1>2, <1>4, <1>5, RunBegins

\* A command line by hand runs what is meant, or nothing.
LEMMA ByHandRuns ==
  ASSUME NEW command \in CommandLines, ByHand(command)
  PROVE  \/ /\ command.meant.runs /\ ~running.active /\ stage' = "by_hand"
            /\ running' = [active |-> TRUE, base |-> output_basename(command.meant.input),
                           cache |-> command.meant.cache, dir |-> command.meant.output,
                           input |-> Read(command.meant.input),
                           left |-> ReportNames(command.meant.output, output_basename(command.meant.input))]
            /\ runs' = runs + 1 /\ UNCHANGED <<reports, broken, exit>>
            /\ Plain(output_basename(command.meant.input))
         \/ /\ ~command.meant.runs /\ ~running.active
            /\ UNCHANGED <<reports, runs, running, broken, stage>>
<1>1. /\ IsName(command.argv) /\ command.meant.runs \in BOOLEAN
      /\ command.meant.runs => /\ AsksForRun(command.argv, command.meant)
                               /\ IsName(command.meant.input) /\ command.meant.input # << >>
                               /\ Last(command.meant.input) # "objects"
      /\ ~command.meant.runs => AsksForNone(command.argv)
  BY CommandLinesAssumption DEF IsName
<1>2. CASE command.meant.runs
  <2>1. main(command.argv).runs
    BY <1>1, <1>2, RunsWhatIsAsked
  <2>2. Run(command.argv, Read) /\ stage' = "by_hand"
    BY <2>1 DEF ByHand, Answer
  <2>3. Plain(output_basename(command.meant.input))
    BY <1>1, <1>2, BaseIsPlain
  <2> QED BY <1>1, <1>2, <2>2, <2>3, RunBegins
<1>3. CASE ~command.meant.runs
  <2>1. ~main(command.argv).runs
    BY <1>1, <1>3, RunsNothingElse
  <2>2. Answer(command.argv) /\ UNCHANGED stage
    BY <2>1 DEF ByHand, Run
  <2> QED BY <1>3, <2>2 DEF Answer
<1> QED BY <1>1, <1>2, <1>3

\* A run that starts is the one asked for, and stays so.
LEMMA CommandStep ==
  ASSUME StageInv, RunningInv, CommandInv, [WrapperNext]_allVars
  PROVE  CommandInv'
<1> USE DEF CommandInv
<1>1. ASSUME UNCHANGED runVars, meant' = meant, ~meant.runs \/ stage' = stage PROVE CommandInv'
  BY <1>1 DEF runVars
<1>2. ASSUME UNCHANGED runVars, ~running.active, meant' = NothingMeant PROVE CommandInv'
  BY <1>2 DEF runVars, NothingMeant
<1>3. ASSUME NEW s \in Sources, Edit(s) PROVE CommandInv'
  BY <1>1, <1>3 DEF Edit
<1>4. ASSUME NEW arguments \in Arguments, Invoke(arguments) PROVE CommandInv'
  BY <1>2, <1>4 DEF Invoke
<1>5. CASE Reject
  BY <1>1, <1>5 DEF Reject
<1>6. CASE SkipSource
  BY <1>1, <1>6 DEF SkipSource, Fail
<1>7. CASE ToLl
  BY <1>1, <1>7 DEF ToLl
<1>8. CASE ToolFails
  BY <1>1, <1>8 DEF ToolFails, Fail
<1>9. ASSUME NEW written \in PluginWrites, RunApe(written) PROVE CommandInv'
  BY <1>1, <1>9 DEF RunApe
<1>10. ASSUME NEW flags \in {<<Option("verbose"), Option("no-color")>>, << >>}, StartApex(flags)
       PROVE  CommandInv'
  <2>1. meant' = [runs |-> TRUE, input |-> json, cache |-> Word("cache.yaml"), output |-> Word("results")]
        /\ stage' = "running"
    BY <1>10 DEF StartApex
  <2> QED BY <1>10, <2>1, WrapperRuns
<1>11. CASE Apex
  <2>1. running.active /\ UNCHANGED <<meant, stage>>
    BY <1>11 DEF Apex, RunStep, WriteReport, EndRun, FailRun, KillRun, wrapperVars
  <2>2. \/ running' = NoRun
        \/ /\ running'.base = running.base /\ running'.cache = running.cache
           /\ running'.dir = running.dir
    BY <1>11, <2>1 DEF Apex, RunStep, WriteReport, EndRun, FailRun, KillRun, RunningInv, NoRun
  <2>3. ~NoRun.active
    BY DEF NoRun
  <2> QED BY <2>1, <2>2, <2>3
<1>12. CASE ApexEnded
  BY <1>2, <1>12 DEF ApexEnded
<1>13. CASE Finish
  BY <1>1, <1>13 DEF Finish
<1>14. ASSUME NEW command \in CommandLines, ByHand(command) PROVE CommandInv'
  <2>1. meant' = command.meant
    BY <1>14 DEF ByHand
  <2> QED BY <1>14, <2>1, ByHandRuns
<1>15. CASE ByHandEnded
  BY <1>2, <1>15 DEF ByHandEnded
<1>16. CASE UNCHANGED allVars
  BY <1>1, <1>16 DEF allVars, wrapperVars
<1> QED BY <1>3, <1>4, <1>5, <1>6, <1>7, <1>8, <1>9, <1>10, <1>11, <1>12, <1>13, <1>14, <1>15, <1>16 DEF WrapperNext

-----------------------------------------------------------------------------
(* The files of a directory. *)

\* Where no file is touched, the same is known of the files.
LEMMA FilesSame ==
  ASSUME FilesInv, UNCHANGED <<reports, runs, running, broken>>
  PROVE  FilesInv'
BY DEF FilesInv, RunningInv, ReportsInv, PairInv, Opened, Current

\* A run that starts has opened no file yet.
LEMMA FilesStart ==
  ASSUME FilesInv, ~running.active, NEW dir, NEW base, NEW cache, NEW input, Plain(base),
         running' = [active |-> TRUE, base |-> base, cache |-> cache, dir |-> dir, input |-> input,
                     left |-> ReportNames(dir, base)],
         runs' = runs + 1, UNCHANGED <<reports, broken>>
  PROVE  FilesInv'
<1> DEFINE names == ReportNames(dir, base)
<1>1. names \in Seq(Range(names)) /\ Len(names) = 4
  BY FourNames
<1> HIDE DEF names
<1>2. running' = [active |-> TRUE, base |-> base, cache |-> cache, dir |-> dir, input |-> input,
                  left |-> names] /\ ReportNames(dir, base) = names
  BY DEF names
<1>3. RunningInv'
  <2>1. Opened' = 0
    BY <1>1, <1>2 DEF Opened
  <2>2. /\ running'.left = names /\ running'.dir = dir /\ running'.base = base
        /\ running' = [active |-> TRUE, base |-> running'.base, cache |-> running'.cache,
                       dir |-> running'.dir, input |-> running'.input, left |-> running'.left]
    BY <1>2
  <2>3. Names(running'.dir, running'.base) = names
    BY <1>2, <2>2 DEF Names
  <2>4. \A i \in 1 .. Len(running'.left) : running'.left[i] = Names(running'.dir, running'.base)[Opened' + i]
    <3>1. \A i \in 1 .. Len(names) : names[i] = names[0 + i]
      BY <1>1
    <3> QED BY <2>1, <2>2, <2>3, <3>1
  <2>5. \A i \in 1 .. Opened' : FALSE
    BY <2>1
  <2>6. running'.left \in Seq(Range(Names(running'.dir, running'.base))) /\ Len(running'.left) <= 4
    <3>1. Len(names) <= 4
      BY <1>1
    <3> QED BY <1>1, <2>2, <2>3, <3>1, Zenon
  <2>7. Plain(running'.base)
    BY <2>2
  <2> HIDE DEF Names, Opened
  <2> QED BY <2>2, <2>4, <2>5, <2>6, <2>7 DEF RunningInv
<1>4. ReportsInv'
  <2>1. ReportsInv
    BY DEF FilesInv
  <2>2. runs \in Nat /\ runs' \in Nat /\ \A n \in 1 .. runs : n \in 1 .. runs'
    BY <2>1 DEF ReportsInv
  <2> QED BY <2>1, <2>2 DEF ReportsInv
<1>5. ASSUME NEW d, NEW b PROVE PairInv(d, b)'
  BY DEF FilesInv, PairInv, Current
<1> QED BY <1>3, <1>4, <1>5 DEF FilesInv

\* What is known of a run under way.
LEMMA RunningFacts ==
  ASSUME FilesInv, running.active
  PROVE  /\ Plain(running.base) /\ Len(running.left) \in 0 .. 4 /\ Opened \in 0 .. 4
         /\ Len(running.left) = 4 - Opened
         /\ running = [active |-> TRUE, base |-> running.base, cache |-> running.cache,
                       dir |-> running.dir, input |-> running.input, left |-> running.left]
         /\ running.left \in Seq(Range(Names(running.dir, running.base)))
         /\ \A i \in 1 .. Len(running.left) :
              running.left[i] = Names(running.dir, running.base)[Opened + i]
         /\ \A i \in 1 .. Opened :
              LET f == Names(running.dir, running.base)[i]
              IN  f \in DOMAIN reports /\ reports[f].run = runs /\ reports[f].input = running.input
         /\ runs \in Nat
         /\ running.left = << >> => Opened = 4
<1>1. RunningInv /\ running # NoRun /\ runs \in Nat
  BY DEF FilesInv, ReportsInv, NoRun
<1>2. running.left \in Seq(Range(Names(running.dir, running.base))) /\ Len(running.left) <= 4
  BY <1>1 DEF RunningInv
<1>3. Len(running.left) \in 0 .. 4 /\ (running.left = << >> => Len(running.left) = 0)
  <2> DEFINE left == running.left
             S == Range(Names(running.dir, running.base))
  <2>1. left \in Seq(S) /\ Len(left) <= 4
    BY <1>2
  <2> HIDE DEF left, S
  <2>2. Len(left) \in 0 .. 4 /\ (left = << >> => Len(left) = 0)
    <3>1. Len(left) \in Nat /\ Len(<< >>) = 0
      BY <2>1
    <3>2. Len(left) \in 0 .. 4
      <4> DEFINE n == Len(left)
      <4>1. n \in Nat /\ n <= 4
        BY <2>1, <3>1
      <4> HIDE DEF n
      <4>2. n \in 0 .. 4
        BY <4>1
      <4> QED BY <4>2 DEF n
    <3> QED BY <3>1, <3>2, Zenon
  <2> QED BY <2>2 DEF left
<1>4. Opened \in 0 .. 4 /\ Len(running.left) = 4 - Opened /\ (running.left = << >> => Opened = 4)
  <2> DEFINE n == Len(running.left)
  <2>1. n \in 0 .. 4 /\ (running.left = << >> => n = 0) /\ Opened = 4 - n
    BY <1>3 DEF Opened
  <2> HIDE DEF n
  <2>2. Opened \in 0 .. 4 /\ n = 4 - Opened /\ (running.left = << >> => Opened = 4)
    BY <2>1
  <2> QED BY <2>2 DEF n
<1> QED BY <1>1, <1>2, <1>3, <1>4 DEF RunningInv

\* The next file is opened: a pair of another name is not touched, and of its own the
\* objects come before the summary.
LEMMA FilesWrite ==
  ASSUME FilesInv, WriteReport
  PROVE  FilesInv'
<1> DEFINE d == running.dir
           b == running.base
           o == Opened
           left == running.left
           S == Range(Names(d, b))
           f == Head(left)
           new == [run |-> runs, input |-> running.input, whole |-> FALSE]
<1>1. /\ running.active /\ left # << >> /\ reports' = Put(reports, f, new)
      /\ running' = [running EXCEPT !.left = Tail(left)] /\ UNCHANGED <<runs, broken>>
  BY DEF WriteReport
<1>2. /\ Plain(b) /\ o \in 0 .. 4 /\ Len(left) = 4 - o /\ left \in Seq(S) /\ runs \in Nat
      /\ running = [active |-> TRUE, base |-> b, cache |-> running.cache,
                    dir |-> d, input |-> running.input, left |-> left]
      /\ \A i \in 1 .. Len(left) : left[i] = Names(d, b)[o + i]
      /\ \A i \in 1 .. o : /\ Names(d, b)[i] \in DOMAIN reports /\ reports[Names(d, b)[i]].run = runs
                           /\ reports[Names(d, b)[i]].input = running.input
  BY <1>1, RunningFacts
<1>3. /\ running' = [active |-> TRUE, base |-> b, cache |-> running.cache,
                     dir |-> d, input |-> running.input, left |-> Tail(left)]
      /\ running'.left = Tail(left) /\ running'.dir = d /\ running'.base = b /\ running'.active = TRUE
      /\ running'.input = running.input /\ running'.cache = running.cache
  BY <1>1, <1>2
<1> HIDE DEF left, S, o
<1>4. o \in 0 .. 3 /\ Len(Tail(left)) = 4 - (o + 1) /\ Tail(left) \in Seq(S) /\ f = left[1]
      /\ \A i \in 1 .. Len(Tail(left)) : Tail(left)[i] = left[i + 1] /\ i + 1 \in 1 .. Len(left)
  <2>1. /\ Len(left) \in Nat /\ Len(left) >= 1 /\ Tail(left) \in Seq(S) /\ Len(Tail(left)) = Len(left) - 1
        /\ f = left[1] /\ \A i \in 1 .. Len(Tail(left)) : Tail(left)[i] = left[i + 1]
    BY <1>1, <1>2, TailFacts
  <2> DEFINE n == Len(left)
             m == Len(Tail(left))
  <2>2. n = 4 - o /\ n >= 1 /\ o \in 0 .. 4 /\ m = n - 1
    BY <1>2, <2>1
  <2> HIDE DEF n, m
  <2>3. o \in 0 .. 3 /\ m = 4 - (o + 1) /\ \A i \in 1 .. m : i + 1 \in 1 .. n
    BY <2>2
  <2> QED BY <2>1, <2>3 DEF n, m
<1>5. f = Names(d, b)[o + 1]
  <2>1. 1 \in 1 .. Len(left)
    BY <1>2, <1>4
  <2> QED BY <1>2, <1>4, <2>1
<1>6. /\ DOMAIN reports' = DOMAIN reports \cup {f} /\ reports'[f] = new
      /\ \A g \in DOMAIN reports : g # f => reports'[g] = reports[g]
  BY <1>1 DEF Put
<1>7. Opened' = o + 1
  <2> DEFINE m == Len(Tail(left))
  <2>1. m = 4 - (o + 1) /\ o \in 0 .. 3 /\ Opened' = 4 - m
    BY <1>3, <1>4 DEF Opened
  <2> HIDE DEF m
  <2> QED BY <2>1
<1> HIDE DEF f, d, b
<1>8. \A i, j \in 1 .. 4 : i # j => Names(d, b)[i] # Names(d, b)[j]
  BY <1>2, NamesDiffer DEF Names
<1>9. new.run = runs /\ new.input = running.input /\ new.whole = FALSE
      /\ new = [run |-> new.run, input |-> new.input, whole |-> new.whole]
  OBVIOUS
<1> HIDE DEF new
<1>10. RunningInv'
  <2>1. \A i \in 1 .. Len(Tail(left)) : Tail(left)[i] = Names(d, b)[(o + 1) + i]
    <3>1. \A i \in 1 .. Len(Tail(left)) : Tail(left)[i] = Names(d, b)[o + (i + 1)]
      BY <1>2, <1>4
    <3>2. \A i \in 1 .. Len(Tail(left)) : o + (i + 1) = (o + 1) + i
      BY <1>4
    <3> QED BY <3>1, <3>2
  <2>2. ASSUME NEW i \in 1 .. (o + 1)
        PROVE  LET g == Names(d, b)[i]
               IN  g \in DOMAIN reports' /\ reports'[g].run = runs /\ reports'[g].input = running.input
    <3>1. CASE i = o + 1
      BY <1>5, <1>6, <1>9, <3>1
    <3>2. CASE i # o + 1
      <4>1. i \in 1 .. o /\ i \in 1 .. 4 /\ o + 1 \in 1 .. 4
        BY <1>4, <2>2, <3>2
      <4>2. Names(d, b)[i] # f
        BY <1>5, <1>8, <3>2, <4>1
      <4> QED BY <1>2, <1>6, <4>1, <4>2
    <3> QED BY <3>1, <3>2
  <2>3. Len(Tail(left)) <= 4
    <3> DEFINE m == Len(Tail(left))
    <3>1. m = 4 - (o + 1) /\ o \in 0 .. 3
      BY <1>4
    <3> HIDE DEF m
    <3>2. m <= 4
      BY <3>1
    <3> QED BY <3>2 DEF m
  <2>4. Tail(left) \in Seq(Range(Names(d, b)))
    BY <1>4 DEF S
  <2>5. UNCHANGED runs
    BY <1>1
  <2>6. running' = [active |-> TRUE, base |-> running'.base, cache |-> running'.cache, dir |-> running'.dir,
                    input |-> running'.input, left |-> running'.left]
    BY <1>3
  <2>7. /\ running'.left \in Seq(Range(Names(running'.dir, running'.base))) /\ Len(running'.left) <= 4
        /\ \A i \in 1 .. Len(running'.left) : running'.left[i] = Names(running'.dir, running'.base)[Opened' + i]
    BY <1>3, <1>7, <2>1, <2>3, <2>4
  <2>8. \A i \in 1 .. Opened' :
          LET g == Names(running'.dir, running'.base)[i]
          IN  g \in DOMAIN reports' /\ reports'[g].run = runs' /\ reports'[g].input = running'.input
    BY <1>3, <1>7, <2>2, <2>5
  <2>9. Plain(running'.base)
    BY <1>2, <1>3
  <2> HIDE DEF Names, Opened
  <2> QED BY <2>6, <2>7, <2>8, <2>9 DEF RunningInv
<1>11. ReportsInv'
  <2>1. runs' = runs /\ runs \in Nat /\ runs \in 0 .. runs
    BY <1>1, <1>2
  <2>2. ReportsInv
    BY DEF FilesInv
  <2>3. f = [dir |-> f.dir, stem |-> f.stem, ext |-> f.ext] /\ (f.ext = "json" => Plain(f.stem))
    <3>1. o + 1 \in 1 .. 4
      BY <1>4
    <3>2. FileOf(f, d, b)
      BY <1>5, <3>1, NameFacts DEF Names
    <3>3. f = [dir |-> f.dir, stem |-> f.stem, ext |-> f.ext] /\ (f.ext = "json" => f.stem = b)
      BY <3>2 DEF FileOf
    <3>4. Plain(b)
      BY <1>2
    <3> QED BY <3>3, <3>4
  <2>4. ASSUME NEW g \in DOMAIN reports', g = f
        PROVE  reports'[g].run \in 0 .. runs /\ reports'[g].whole \in BOOLEAN /\ reports'[g] = new
    BY <1>6, <1>9, <2>1, <2>4
  <2>5. ASSUME NEW g \in DOMAIN reports', g # f
        PROVE  g \in DOMAIN reports /\ reports'[g] = reports[g]
    BY <1>6, <2>5
  <2> QED BY <1>9, <2>1, <2>2, <2>3, <2>4, <2>5 DEF ReportsInv
<1>12. ASSUME NEW e, NEW c PROVE PairInv(e, c)'
  <2>1. SUFFICES ASSUME Summary(e, c) \in DOMAIN reports', Objects(e, c) \in DOMAIN reports'
                 PROVE  /\ reports'[Summary(e, c)].run <= reports'[Objects(e, c)].run
                        /\ \/ reports'[Summary(e, c)] = reports'[Objects(e, c)] /\ reports'[Summary(e, c)].whole
                           \/ <<e, c>> \in broken
                           \/ <<d, b>> = <<e, c>>
    BY <1>1, <1>3 DEF PairInv, Current
  <2>2. /\ Names(e, c)[2] = Objects(e, c) /\ Names(e, c)[3] = Summary(e, c)
    BY FourNames DEF Names
  <2>3. PairInv(e, c) /\ ReportsInv
    BY DEF FilesInv
  <2>4. CASE <<d, b>> = <<e, c>>
    <3>1. d = e /\ b = c
      BY <2>4
    <3>2. CASE o + 1 = 2
      <4>1. f = Objects(e, c) /\ Summary(e, c) # f
        BY <1>5, <1>8, <2>2, <3>1, <3>2
      <4>2. Summary(e, c) \in DOMAIN reports /\ reports'[Summary(e, c)] = reports[Summary(e, c)]
        BY <1>6, <2>1, <4>1
      <4>3. reports[Summary(e, c)].run <= runs
        BY <2>3, <4>2 DEF ReportsInv
      <4> QED BY <1>6, <1>9, <2>4, <4>1, <4>2, <4>3
    <3>3. CASE o + 1 = 3
      <4>1. f = Summary(e, c) /\ Objects(e, c) # f /\ 2 \in 1 .. o
        BY <1>4, <1>5, <1>8, <2>2, <3>1, <3>3
      <4>2. reports[Objects(e, c)].run = runs /\ reports'[Objects(e, c)] = reports[Objects(e, c)]
        BY <1>2, <1>6, <2>1, <2>2, <3>1, <4>1
      <4> QED BY <1>2, <1>6, <1>9, <2>4, <4>1, <4>2
    <3>4. CASE o + 1 # 2 /\ o + 1 # 3
      <4>1. o + 1 \in 1 .. 4 /\ 2 \in 1 .. 4 /\ 3 \in 1 .. 4
        BY <1>4
      <4>2. Summary(e, c) # f /\ Objects(e, c) # f
        BY <1>5, <1>8, <2>2, <3>1, <3>4, <4>1
      <4>3. Summary(e, c) \in DOMAIN reports /\ Objects(e, c) \in DOMAIN reports
            /\ reports'[Summary(e, c)] = reports[Summary(e, c)] /\ reports'[Objects(e, c)] = reports[Objects(e, c)]
        BY <1>6, <2>1, <4>2
      <4> QED BY <2>3, <2>4, <4>3 DEF PairInv
    <3> QED BY <3>2, <3>3, <3>4
  <2>5. CASE <<d, b>> # <<e, c>>
    <3>1. Plain(c)
      <4>1. Summary(e, c).ext = "json" /\ Summary(e, c).stem = c
        BY DEF Summary
      <4> QED BY <1>11, <2>1, <4>1 DEF ReportsInv
    <3>2. Summary(e, c) # f /\ Objects(e, c) # f
      <4>1. o + 1 \in 1 .. 4 /\ 2 \in 1 .. 4 /\ 3 \in 1 .. 4
        BY <1>4
      <4> QED BY <1>2, <1>5, <2>2, <2>5, <3>1, <4>1, NamesApart DEF Names
    <3>3. Summary(e, c) \in DOMAIN reports /\ Objects(e, c) \in DOMAIN reports
          /\ reports'[Summary(e, c)] = reports[Summary(e, c)] /\ reports'[Objects(e, c)] = reports[Objects(e, c)]
      BY <1>6, <2>1, <3>2
    <3>4. ~Current(e, c)
      BY <2>5 DEF Current, d, b
    <3> QED BY <2>3, <3>3, <3>4 DEF PairInv
  <2> QED BY <2>4, <2>5
<1> QED BY <1>10, <1>11, <1>12 DEF FilesInv

\* Flushing makes the run's own reports whole and is nothing to the others.
LEMMA FlushFacts ==
  ASSUME ReportsInv, reports' = Flushed, runs' = runs
  PROVE  /\ ReportsInv' /\ DOMAIN reports' = DOMAIN reports
         /\ \A f \in DOMAIN reports :
              /\ reports'[f].run = reports[f].run /\ reports'[f].input = reports[f].input
              /\ reports[f].whole \/ reports[f].run = runs => reports'[f].whole
         /\ \A f, g \in DOMAIN reports : reports[f] = reports[g] => reports'[f] = reports'[g]
<1>1. /\ DOMAIN reports' = DOMAIN reports
      /\ \A f \in DOMAIN reports :
           reports'[f] = [run |-> reports[f].run, input |-> reports[f].input,
                          whole |-> reports[f].whole \/ reports[f].run = runs]
  BY DEF Flushed, ReportsInv
<1>2. ASSUME NEW f \in DOMAIN reports
      PROVE  /\ reports'[f].run = reports[f].run /\ reports'[f].input = reports[f].input
             /\ reports'[f].whole = (reports[f].whole \/ reports[f].run = runs)
             /\ reports'[f].whole \in BOOLEAN
  <2> DEFINE w == reports[f].whole \/ reports[f].run = runs
  <2>1. w \in BOOLEAN /\ reports'[f] = [run |-> reports[f].run, input |-> reports[f].input, whole |-> w]
    BY <1>1
  <2> HIDE DEF w
  <2>2. reports'[f].run = reports[f].run /\ reports'[f].input = reports[f].input /\ reports'[f].whole = w
    BY <2>1
  <2> QED BY <2>1, <2>2, Zenon DEF w
<1>3. ASSUME NEW f \in DOMAIN reports, NEW g \in DOMAIN reports, reports[f] = reports[g]
      PROVE  reports'[f] = reports'[g]
  BY <1>1, <1>3
<1>4. \A f \in DOMAIN reports :
        /\ reports'[f] = [run |-> reports'[f].run, input |-> reports'[f].input, whole |-> reports'[f].whole]
        /\ reports'[f].run \in 0 .. runs
        /\ f = [dir |-> f.dir, stem |-> f.stem, ext |-> f.ext]
        /\ f.ext = "json" => Plain(f.stem)
  BY <1>1, <1>2 DEF ReportsInv
<1>5. runs' \in Nat
  BY DEF ReportsInv
<1>6. ReportsInv'
  BY <1>1, <1>2, <1>4, <1>5 DEF ReportsInv
<1> QED BY <1>1, <1>2, <1>3, <1>6, Zenon

\* After a flush a summary is no newer than its table of objects, and both are of one
\* whole run unless their name is broken or still being written.
LEMMA FilesFlushed ==
  ASSUME FilesInv, reports' = Flushed, runs' = runs,
         NEW e, NEW c, Summary(e, c) \in DOMAIN reports', Objects(e, c) \in DOMAIN reports'
  PROVE  /\ reports'[Summary(e, c)].run <= reports'[Objects(e, c)].run
         /\ \/ reports'[Summary(e, c)] = reports'[Objects(e, c)] /\ reports'[Summary(e, c)].whole
            \/ <<e, c>> \in broken
            \/ Current(e, c)
<1> DEFINE x == Summary(e, c)
           y == Objects(e, c)
<1>1. ReportsInv /\ PairInv(e, c)
  BY DEF FilesInv
<1>2. /\ x \in DOMAIN reports /\ y \in DOMAIN reports
      /\ reports'[x].run = reports[x].run /\ reports'[y].run = reports[y].run
      /\ reports[x].whole => reports'[x].whole
      /\ reports[x] = reports[y] => reports'[x] = reports'[y]
  <2> HIDE DEF x, y
  <2> QED BY <1>1, FlushFacts DEF x, y
<1>3. /\ reports[x].run <= reports[y].run
      /\ (reports[x] = reports[y] /\ reports[x].whole) \/ <<e, c>> \in broken \/ Current(e, c)
  BY <1>1, <1>2 DEF PairInv
<1> HIDE DEF x, y
<1>4. reports'[x].run <= reports'[y].run
  BY <1>2, <1>3
<1> QED BY <1>2, <1>3, <1>4 DEF x, y

\* A run that ends well leaves four whole reports of its own.
LEMMA RunWrote ==
  ASSUME FilesInv, EndRun
  PROVE  \A i \in 1 .. 4 :
           LET f == Names(running.dir, running.base)[i]
           IN  f \in DOMAIN reports' /\ reports'[f].run = runs /\ reports'[f].input = running.input
               /\ reports'[f].whole
<1>1. running.active /\ running.left = << >> /\ reports' = Flushed /\ runs' = runs
  BY DEF EndRun
<1>2. Opened = 4
  BY <1>1, RunningFacts
<1>3. \A i \in 1 .. 4 :
        LET f == Names(running.dir, running.base)[i]
        IN  f \in DOMAIN reports /\ reports[f].run = runs /\ reports[f].input = running.input
  BY <1>1, <1>2, RunningFacts
<1>4. ReportsInv
  BY DEF FilesInv
<1> QED BY <1>1, <1>3, <1>4, FlushFacts

\* A run that ends well leaves whole reports, all of them its own.
LEMMA FilesEnd ==
  ASSUME FilesInv, EndRun
  PROVE  FilesInv'
<1>1. /\ running.active /\ reports' = Flushed /\ runs' = runs /\ running' = NoRun
      /\ broken' = broken \ {<<running.dir, running.base>>}
  BY DEF EndRun
<1>2. ReportsInv /\ ReportsInv'
  BY <1>1, FlushFacts DEF FilesInv
<1>3. RunningInv'
  BY <1>1 DEF RunningInv
<1>4. ASSUME NEW e, NEW c PROVE PairInv(e, c)'
  <2>1. SUFFICES ASSUME Summary(e, c) \in DOMAIN reports', Objects(e, c) \in DOMAIN reports'
                 PROVE  /\ reports'[Summary(e, c)].run <= reports'[Objects(e, c)].run
                        /\ \/ reports'[Summary(e, c)] = reports'[Objects(e, c)] /\ reports'[Summary(e, c)].whole
                           \/ <<e, c>> \in broken'
    BY DEF PairInv
  <2>2. CASE <<running.dir, running.base>> = <<e, c>>
    <3>1. Names(running.dir, running.base)[2] = Objects(e, c)
          /\ Names(running.dir, running.base)[3] = Summary(e, c)
      <4>1. running.dir = e /\ running.base = c
        BY <2>2
      <4> QED BY <4>1, FourNames DEF Names
    <3>2. /\ reports'[Objects(e, c)].run = runs /\ reports'[Objects(e, c)].input = running.input
          /\ reports'[Objects(e, c)].whole
          /\ reports'[Summary(e, c)].run = runs /\ reports'[Summary(e, c)].input = running.input
          /\ reports'[Summary(e, c)].whole
      <4>1. 2 \in 1 .. 4 /\ 3 \in 1 .. 4
        OBVIOUS
      <4> QED BY <3>1, <4>1, RunWrote, Zenon
    <3>3. reports'[Objects(e, c)].whole \in BOOLEAN /\ reports'[Summary(e, c)].whole \in BOOLEAN
          /\ reports'[Objects(e, c)] = [run |-> reports'[Objects(e, c)].run, input |-> reports'[Objects(e, c)].input,
                                        whole |-> reports'[Objects(e, c)].whole]
          /\ reports'[Summary(e, c)] = [run |-> reports'[Summary(e, c)].run, input |-> reports'[Summary(e, c)].input,
                                        whole |-> reports'[Summary(e, c)].whole]
          /\ runs \in Nat
      BY <1>2, <2>1 DEF ReportsInv
    <3> QED BY <3>2, <3>3
  <2>3. CASE <<running.dir, running.base>> # <<e, c>>
    <3>1. ~Current(e, c) /\ (<<e, c>> \in broken => <<e, c>> \in broken')
      BY <1>1, <2>3 DEF Current
    <3> QED BY <1>1, <2>1, <3>1, FilesFlushed
  <2> QED BY <2>2, <2>3
<1> QED BY <1>2, <1>3, <1>4 DEF FilesInv

\* A run that fails or is killed leaves a name that is known to be broken.
LEMMA FilesFail ==
  ASSUME FilesInv, FailRun \/ KillRun
  PROVE  FilesInv'
<1>1. /\ running.active /\ reports' \in {Flushed, reports} /\ runs' = runs /\ running' = NoRun
      /\ broken' = broken \cup {<<running.dir, running.base>>}
  BY DEF FailRun, KillRun
<1>2. ReportsInv'
  BY <1>1, FlushFacts DEF FilesInv, ReportsInv
<1>3. RunningInv'
  BY <1>1 DEF RunningInv
<1>4. ASSUME NEW e, NEW c PROVE PairInv(e, c)'
  <2>1. SUFFICES ASSUME Summary(e, c) \in DOMAIN reports', Objects(e, c) \in DOMAIN reports'
                 PROVE  /\ reports'[Summary(e, c)].run <= reports'[Objects(e, c)].run
                        /\ \/ reports'[Summary(e, c)] = reports'[Objects(e, c)] /\ reports'[Summary(e, c)].whole
                           \/ <<e, c>> \in broken'
    BY DEF PairInv
  <2>2. /\ reports'[Summary(e, c)].run <= reports'[Objects(e, c)].run
        /\ \/ reports'[Summary(e, c)] = reports'[Objects(e, c)] /\ reports'[Summary(e, c)].whole
           \/ <<e, c>> \in broken
           \/ Current(e, c)
    <3>1. CASE reports' = Flushed
      BY <1>1, <2>1, <3>1, FilesFlushed
    <3>2. CASE reports' = reports
      BY <2>1, <3>2 DEF FilesInv, PairInv
    <3> QED BY <1>1, <3>1, <3>2
  <2> QED BY <1>1, <2>2 DEF Current
<1> QED BY <1>2, <1>3, <1>4 DEF FilesInv

\* Every step keeps what is known of the files.
LEMMA FilesStep ==
  ASSUME StageInv, FilesInv, [WrapperNext]_allVars
  PROVE  FilesInv'
<1>1. ASSUME UNCHANGED runVars PROVE FilesInv'
  BY <1>1, FilesSame DEF runVars
<1>2. ASSUME NEW s \in Sources, Edit(s) PROVE FilesInv'
  BY <1>1, <1>2 DEF Edit
<1>3. ASSUME NEW arguments \in Arguments, Invoke(arguments) PROVE FilesInv'
  BY <1>1, <1>3 DEF Invoke
<1>4. CASE Reject
  BY <1>1, <1>4 DEF Reject
<1>5. CASE SkipSource
  BY <1>1, <1>5 DEF SkipSource
<1>6. CASE ToLl
  BY <1>1, <1>6 DEF ToLl
<1>7. CASE ToolFails
  BY <1>1, <1>7 DEF ToolFails
<1>8. ASSUME NEW written \in PluginWrites, RunApe(written) PROVE FilesInv'
  BY <1>1, <1>8 DEF RunApe
<1>9. ASSUME NEW flags \in {<<Option("verbose"), Option("no-color")>>, << >>}, StartApex(flags)
      PROVE  FilesInv'
  BY <1>9, WrapperRuns, FilesStart
<1>10. CASE Apex
  BY <1>10, FilesWrite, FilesEnd, FilesFail DEF Apex, RunStep
<1>11. CASE ApexEnded
  BY <1>1, <1>11 DEF ApexEnded
<1>12. CASE Finish
  BY <1>1, <1>12 DEF Finish
<1>13. ASSUME NEW command \in CommandLines, ByHand(command) PROVE FilesInv'
  <2>1. CASE /\ command.meant.runs /\ ~running.active
             /\ running' = [active |-> TRUE, base |-> output_basename(command.meant.input),
                           cache |-> command.meant.cache, dir |-> command.meant.output,
                           input |-> Read(command.meant.input),
                           left |-> ReportNames(command.meant.output, output_basename(command.meant.input))]
             /\ runs' = runs + 1 /\ UNCHANGED <<reports, broken, exit>>
             /\ Plain(output_basename(command.meant.input))
    BY <2>1, FilesStart
  <2>2. CASE UNCHANGED <<reports, runs, running, broken>>
    BY <2>2, FilesSame
  <2> QED BY <1>13, <2>1, <2>2, ByHandRuns
<1>14. CASE ByHandEnded
  BY <1>1, <1>14 DEF ByHandEnded
<1>15. CASE UNCHANGED allVars
  BY <1>1, <1>15 DEF allVars
<1> QED BY <1>2, <1>3, <1>4, <1>5, <1>6, <1>7, <1>8, <1>9, <1>10, <1>11, <1>12, <1>13, <1>14, <1>15 DEF WrapperNext

-----------------------------------------------------------------------------
(* What apex-cache is run for, and what it leaves. *)

\* The inductive invariant of the runs.
RunsInv == StageInv /\ FilesInv /\ CommandInv

\* It holds before the first invocation.
LEMMA RunsInvInit ==
  ASSUME WrapperInit
  PROVE  RunsInv
<1>1. StageInv
  BY DEF WrapperInit, StageInv, NoArguments
<1>2. FilesInv
  <2>1. runs = 0 /\ DOMAIN reports = {} /\ running = NoRun
    <3>1. DOMAIN << >> = {}
      OBVIOUS
    <3> QED BY <3>1 DEF WrapperInit, RunInit
  <2> QED BY <2>1 DEF FilesInv, RunningInv, ReportsInv, PairInv
<1>3. CommandInv
  BY DEF WrapperInit, RunInit, CommandInv, NoRun, NothingMeant
<1> QED BY <1>1, <1>2, <1>3 DEF RunsInv

\* It is inductive.
LEMMA RunsInvStep ==
  ASSUME RunsInv, [WrapperNext]_allVars
  PROVE  RunsInv'
<1>1. RunningInv
  BY DEF RunsInv, FilesInv
<1> QED BY <1>1, StageStep, FilesStep, CommandStep DEF RunsInv

\* The stages of the wrapper, the run under way and the reports there are agree at every
\* step, whatever fails, is killed or is run by hand (pipeline.py's main and run_command).
THEOREM RunsInvHolds == WrapperSpec => []RunsInv
<1>1. WrapperInit => RunsInv
  BY RunsInvInit
<1>2. RunsInv /\ [WrapperNext]_allVars => RunsInv'
  BY RunsInvStep
<1> QED BY <1>1, <1>2, PTL DEF WrapperSpec

\* A run under way is the one that was asked for: the wrapper's command line and every
\* one of the usage's form, in any order of the options, is understood, and nothing else
\* starts a run (main, run_command, find_opt, run_apex_cache).
THEOREM EveryCommandUnderstood == WrapperSpec => []CommandsUnderstood
<1>1. RunsInv => CommandsUnderstood
  BY DEF RunsInv, CommandInv, CommandsUnderstood
<1> QED BY <1>1, RunsInvHolds, PTL

\* With it, pairs are of one run unless their name is broken.
LEMMA PairsOfOneRun ==
  ASSUME FilesInv
  PROVE  PairsMixAfterFailureOnly
<1> DEFINE Pair(dir, base) ==
             LET summary == reports[Summary(dir, base)]
                 objects == reports[Objects(dir, base)]
             IN  /\ summary.run <= objects.run
                 /\ summary # objects \/ ~summary.whole =>
                      <<dir, base>> \in broken \/ Current(dir, base)
<1> SUFFICES ASSUME NEW dir, NEW base \in find_report_pairs(dir) PROVE Pair(dir, base)
  <2> HIDE DEF Pair
  <2>1. \A dir \in {f.dir : f \in DOMAIN reports} : \A base \in find_report_pairs(dir) : Pair(dir, base)
    BY Zenon
  <2> QED BY <2>1, Zenon DEF Pair, PairsMixAfterFailureOnly, Current
<1>1. Objects(dir, base) \in DOMAIN reports
  BY DEF find_report_pairs
<1>2. PICK f \in DOMAIN reports : f.dir = dir /\ f.ext = "json" /\ f.stem = base
  BY DEF find_report_pairs
<1>3. f = Summary(dir, base)
  BY <1>2 DEF FilesInv, ReportsInv, Summary
<1> QED BY <1>1, <1>2, <1>3 DEF FilesInv, PairInv

\* The summary and the objects that find_report_pairs puts together come from one
\* finished run, unless the last run for their name has not ended well; the summary is
\* never the newer of the two.
THEOREM PairsOnlyMixAfterFailure == WrapperSpec => []PairsMixAfterFailureOnly
<1>1. RunsInv => PairsMixAfterFailureOnly
  BY PairsOfOneRun DEF RunsInv
<1> QED BY <1>1, RunsInvHolds, PTL

-----------------------------------------------------------------------------
(* Every source is accounted for. *)

\* The names of a source's reports are those the README gives.
LEMMA BasesAreDocumented ==
  ASSUME NEW s \in Sources
  PROVE  Bases(s) = DocumentedBases(s)
<1> DEFINE ll == LlStem(s)
           n == Len(ll)
           a == Append(ll, "ape")
           l == Append(ll, "lat")
           W == Range(ll) \cup {"ape", "lat"}
<1>1. IsName(ll) /\ Range(Candidates(s)) = {a, l}
  BY CandidateNames
<1>2. /\ IsName(a) /\ Last(a) = "ape" /\ IsName(l) /\ Last(l) = "lat"
  BY <1>1, AppendName
<1>3. ll \in Seq(W) /\ n \in Nat /\ "ape" \in W /\ "lat" \in W
  BY <1>1 DEF IsName
<1> HIDE DEF ll, W
<1>4. Len(a) = n + 1 /\ Len(l) = n + 1 /\ \A i \in 1 .. n : a[i] = ll[i] /\ l[i] = ll[i]
  BY <1>3
<1>5. a[n + 1] = "ape" /\ l[n + 1] = "lat"
  BY <1>2, <1>3, <1>4 DEF Last
<1>6. output_basename(l) = l
  <2>1. ~IsSuffix(<<"g", "ape">>, l)
    BY <1>2, <1>4, <1>5, SuffixGApe
  <2> QED BY <2>1 DEF output_basename
<1>7. output_basename(a) = Append(IF ll # << >> /\ Last(ll) = "g" THEN Front(ll) ELSE ll, "ape")
  <2>1. CASE ll # << >> /\ Last(ll) = "g"
    <3>1. n >= 1 /\ ll[n] = "g"
      BY <1>3, <2>1 DEF Last
    <3>2. a[n] = "g" /\ (n + 1) - 1 = n /\ n + 1 >= 2
      BY <1>3, <1>4, <3>1
    <3>3. IsSuffix(<<"g", "ape">>, a)
      <4> HIDE DEF a, n
      <4>1. Len(a) >= 2 /\ a[Len(a) - 1] = "g" /\ a[Len(a)] = "ape"
        BY <1>4, <1>5, <3>2
      <4> QED BY <1>2, <4>1, SuffixGApe
    <3>4. output_basename(a) = Append(SubSeq(a, 1, n - 1), "ape")
      <4>1. (n + 1) - 2 = n - 1
        BY <1>3
      <4> HIDE DEF n, a
      <4> QED BY <1>4, <3>3, <4>1 DEF output_basename
    <3>5. SubSeq(a, 1, n - 1) = SubSeq(ll, 1, n - 1)
      <4>1. a \in Seq(W) /\ Len(a) >= n - 1 /\ Len(ll) >= n - 1 /\ n - 1 \in Nat
        BY <1>3, <1>4, <3>1
      <4>2. \A i \in 1 .. (n - 1) : a[i] = ll[i]
        BY <1>3, <1>4
      <4> DEFINE m == n - 1
                 x == SubSeq(a, 1, m)
                 y == SubSeq(ll, 1, m)
      <4> HIDE DEF a, m
      <4>3. m \in Nat /\ Len(a) >= m /\ Len(ll) >= m /\ \A i \in 1 .. m : a[i] = ll[i]
        BY <4>1, <4>2 DEF m
      <4>4. /\ x \in Seq(W) /\ Len(x) = m /\ y \in Seq(W) /\ Len(y) = m
            /\ \A i \in 1 .. m : x[i] = y[i]
        BY <1>3, <4>1, <4>3
      <4> HIDE DEF x, y
      <4>5. x = y
        BY <4>4
      <4> QED BY <4>5 DEF x, y, m
    <3>6. Front(ll) = SubSeq(ll, 1, n - 1)
      BY DEF Front
    <3> QED BY <2>1, <3>4, <3>5, <3>6
  <2>2. CASE ~(ll # << >> /\ Last(ll) = "g")
    <3>1. ~IsSuffix(<<"g", "ape">>, a)
      <4>1. SUFFICES ASSUME n + 1 >= 2, a[(n + 1) - 1] = "g" PROVE FALSE
        BY <1>2, <1>4, <1>5, SuffixGApe
      <4>2. n >= 1 /\ a[n] = ll[n] /\ (n + 1) - 1 = n /\ ll # << >>
        BY <1>3, <1>4, <4>1
      <4> QED BY <2>2, <4>1, <4>2 DEF Last
    <3> QED BY <2>2, <3>1 DEF output_basename
  <2> QED BY <2>1, <2>2
<1>8. Bases(s) = {output_basename(a), output_basename(l)}
  BY <1>1 DEF Bases
<1> QED BY <1>6, <1>7, <1>8 DEF DocumentedBases, ll

\* The wrapper is at one of its sources, the ones behind it are sources too.
LEMMA PlaceFacts ==
  ASSUME StageInv, PlaceInv, Busy
  PROVE  /\ Len(files) \in Nat /\ Len(given.files) \in Nat /\ Len(files) <= Len(given.files)
         /\ Behind \subseteq Range(given.files) /\ Range(given.files) \subseteq Sources
         /\ files # << >> => source \in Range(given.files) /\ source \in Sources
         /\ files = << >> => Behind = Range(given.files)
<1> DEFINE q == files
           g == given.files
           n == Len(q)
           m == Len(g)
<1>1. q \in Seq(Sources) /\ g \in Seq(Sources) /\ n <= m /\ \A i \in 1 .. n : q[i] = g[(m - n) + i]
  BY DEF StageInv, PlaceInv
<1>2. Behind = {g[i] : i \in 1 .. (m - n)}
  BY DEF Behind
<1> HIDE DEF q, g
<1>3. n \in Nat /\ m \in Nat /\ Range(g) = {g[i] : i \in 1 .. m} /\ (\A i \in 1 .. m : g[i] \in Sources)
  BY <1>1 DEF Range
<1>4. Behind \subseteq Range(g) /\ Range(g) \subseteq Sources
  <2> HIDE DEF n, m
  <2>1. \A i \in 1 .. (m - n) : i \in 1 .. m
    BY <1>1, <1>3
  <2> QED BY <1>2, <1>3, <2>1
<1>5. q # << >> => Head(q) \in Range(g) /\ Head(q) \in Sources
  <2>1. SUFFICES ASSUME q # << >> PROVE Head(q) \in Range(g)
    BY <1>4
  <2>2. Head(q) = q[1] /\ n >= 1
    BY <1>1, <2>1, TailFacts
  <2> HIDE DEF n, m
  <2>3. q[1] = g[(m - n) + 1] /\ (m - n) + 1 \in 1 .. m
    BY <1>1, <1>3, <2>2
  <2> QED BY <1>3, <2>2, <2>3
<1>6. q = << >> => Behind = Range(g)
  <2>1. SUFFICES ASSUME q = << >> PROVE Behind = Range(g)
    OBVIOUS
  <2>2. n = 0
    BY <2>1
  <2> HIDE DEF n, m
  <2>3. m - n = m
    BY <1>3, <2>2
  <2> QED BY <1>2, <1>3, <2>3
<1> QED BY <1>1, <1>3, <1>4, <1>5, <1>6 DEF q, g, source

\* The wrapper goes on with the next source.
LEMMA NextPlace ==
  ASSUME StageInv, PlaceInv, Busy, files # << >>, files' = Tail(files), given' = given
  PROVE  PlaceInv' /\ Behind' = Behind \cup {source}
<1> DEFINE q == files
           t == Tail(files)
           g == given.files
           n == Len(q)
           k == Len(t)
           m == Len(g)
<1>1. q \in Seq(Sources) /\ g \in Seq(Sources) /\ n <= m /\ \A i \in 1 .. n : q[i] = g[(m - n) + i]
  BY DEF StageInv, PlaceInv
<1>2. /\ n \in Nat /\ n >= 1 /\ k = n - 1 /\ Head(q) = q[1] /\ m \in Nat
      /\ \A i \in 1 .. k : t[i] = q[i + 1]
  BY <1>1, TailFacts
<1>3. Behind = {g[i] : i \in 1 .. (m - n)} /\ Behind' = {g[i] : i \in 1 .. (m - k)}
  BY DEF Behind
<1> HIDE DEF q, t, g, n, k, m
<1>4. \A i \in 1 .. k : t[i] = g[(m - k) + i]
  <2>1. ASSUME NEW i \in 1 .. k PROVE t[i] = g[(m - k) + i]
    <3>1. i + 1 \in 1 .. n /\ (m - n) + (i + 1) = (m - k) + i
      BY <1>1, <1>2
    <3> QED BY <1>1, <1>2, <3>1
  <2> QED BY <2>1
<1>5. Head(q) = g[m - k]
  <2>1. 1 \in 1 .. n /\ (m - n) + 1 = m - k
    BY <1>1, <1>2
  <2> QED BY <1>1, <1>2, <2>1
<1>6. Behind' = Behind \cup {Head(q)}
  <2>1. \A i : i \in 1 .. (m - k) <=> i \in 1 .. (m - n) \/ i = m - k
    BY <1>1, <1>2
  <2> QED BY <1>3, <1>5, <2>1
<1>7. k <= m
  BY <1>1, <1>2
<1>8. PlaceInv'
  BY <1>4, <1>7 DEF PlaceInv, t, k, g, m
<1> QED BY <1>6, <1>8 DEF q, source

\* A run touches the reports of no other name.
LEMMA OthersAreKept ==
  ASSUME FilesInv, RunStep, NEW dir, NEW base, Plain(base), <<dir, base>> # <<running.dir, running.base>>
  PROVE  \A i \in 1 .. 4 :
           LET f == Names(dir, base)[i]
           IN  f \in DOMAIN reports =>
                 /\ f \in DOMAIN reports' /\ reports'[f].input = reports[f].input
                 /\ reports[f].whole => reports'[f].whole
<1> SUFFICES ASSUME NEW i \in 1 .. 4, Names(dir, base)[i] \in DOMAIN reports
             PROVE  LET f == Names(dir, base)[i]
                    IN  /\ f \in DOMAIN reports' /\ reports'[f].input = reports[f].input
                        /\ reports[f].whole => reports'[f].whole
  BY Zenon
<1> DEFINE f == Names(dir, base)[i]
           g == Head(running.left)
<1>1. CASE WriteReport
  <2>1. /\ running.active /\ running.left # << >>
        /\ reports' = Put(reports, g, [run |-> runs, input |-> running.input, whole |-> FALSE])
    BY <1>1 DEF WriteReport
  <2>2. /\ Plain(running.base) /\ Opened \in 0 .. 4 /\ Len(running.left) = 4 - Opened
        /\ running.left \in Seq(Range(Names(running.dir, running.base)))
        /\ \A j \in 1 .. Len(running.left) :
             running.left[j] = Names(running.dir, running.base)[Opened + j]
    BY <2>1, RunningFacts
  <2> DEFINE o == Opened
             n == Len(running.left)
  <2>3. g = running.left[1] /\ n >= 1 /\ n \in Nat
    <3> DEFINE left == running.left
               S == Range(Names(running.dir, running.base))
    <3>1. left \in Seq(S) /\ left # << >>
      BY <2>1, <2>2
    <3> HIDE DEF left, S
    <3>2. Head(left) = left[1] /\ Len(left) >= 1 /\ Len(left) \in Nat
      BY <3>1, TailFacts
    <3> QED BY <3>2 DEF left
  <2>4. o \in 0 .. 4 /\ n = 4 - o
    BY <2>2
  <2> HIDE DEF o, n
  <2>5. 1 \in 1 .. n /\ o + 1 \in 1 .. 4
    BY <2>3, <2>4
  <2>6. g = Names(running.dir, running.base)[o + 1]
    BY <2>2, <2>3, <2>5 DEF o, n
  <2>7. f # g
    BY <2>2, <2>5, <2>6, NamesApart DEF Names
  <2> HIDE DEF f, g
  <2>8. f \in DOMAIN reports
    BY DEF f
  <2>9. f \in DOMAIN reports' /\ reports'[f] = reports[f]
    BY <2>1, <2>7, <2>8 DEF Put
  <2> QED BY <2>9 DEF f
<1>2. CASE reports' = Flushed /\ runs' = runs
  <2>1. ReportsInv
    BY DEF FilesInv
  <2> HIDE DEF Names
  <2> QED BY <1>2, <2>1, FlushFacts, Zenon
<1>3. CASE reports' = reports
  BY <1>3
<1> QED BY <1>1, <1>2, <1>3 DEF RunStep, EndRun, FailRun, KillRun

\* The wrapper takes its sources one after the other.
LEMMA PlaceStep ==
  ASSUME StageInv, PlaceInv, [WrapperNext]_allVars
  PROVE  PlaceInv'
<1>1. ASSUME UNCHANGED <<files, given>>, Busy' => Busy PROVE PlaceInv'
  BY <1>1 DEF PlaceInv
<1>2. ASSUME NEW s \in Sources, Edit(s) PROVE PlaceInv'
  BY <1>1, <1>2 DEF Edit, Busy
<1>3. ASSUME NEW arguments \in Arguments, Invoke(arguments) PROVE PlaceInv'
  <2>1. files' = given'.files /\ files' \in Seq(Sources)
    BY <1>3, StageStep DEF Invoke, WrapperNext, StageInv
  <2> DEFINE q == files'
  <2>2. q \in Seq(Sources)
    BY <2>1
  <2> HIDE DEF q
  <2>3. Len(q) <= Len(q) /\ \A i \in 1 .. Len(q) : q[i] = q[(Len(q) - Len(q)) + i]
    BY <2>2
  <2> QED BY <2>1, <2>3 DEF PlaceInv, q
<1>4. CASE Reject
  BY <1>1, <1>4 DEF Reject, Busy
<1>5. ASSUME Busy, files # << >>, given' = given, files' = files \/ files' = Tail(files) PROVE PlaceInv'
  BY <1>1, <1>5, NextPlace
<1>6. CASE SkipSource
  BY <1>5, <1>6 DEF SkipSource, Fail, Busy
<1>7. CASE ToLl
  BY <1>1, <1>7 DEF ToLl, Busy
<1>8. CASE ToolFails
  BY <1>5, <1>8 DEF ToolFails, Fail, Busy, StageInv
<1>9. ASSUME NEW written \in PluginWrites, RunApe(written) PROVE PlaceInv'
  BY <1>5, <1>9 DEF RunApe, Fail, Busy, StageInv
<1>10. ASSUME NEW flags, StartApex(flags) PROVE PlaceInv'
  BY <1>1, <1>10 DEF StartApex, Busy
<1>11. CASE Apex
  BY <1>1, <1>11 DEF Apex, wrapperVars, Busy
<1>12. CASE ApexEnded
  BY <1>5, <1>12 DEF ApexEnded, Fail, Busy, StageInv
<1>13. CASE Finish
  BY <1>13 DEF Finish, PlaceInv, Busy
<1>14. ASSUME NEW command \in CommandLines, ByHand(command) PROVE PlaceInv'
  BY <1>1, <1>14 DEF ByHand, Busy
<1>15. CASE ByHandEnded
  BY <1>1, <1>15 DEF ByHandEnded, Busy
<1>16. CASE UNCHANGED allVars
  BY <1>1, <1>16 DEF allVars, wrapperVars, Busy
<1> QED BY <1>2, <1>3, <1>4, <1>6, <1>7, <1>8, <1>9, <1>10, <1>11, <1>12, <1>13, <1>14, <1>15, <1>16 DEF WrapperNext

\* What run_ape finds.
LEMMA ApeFound ==
  ASSUME StageInv, NEW written \in PluginWrites, RunApe(written)
  PROVE  /\ stage = "ape" /\ files # << >> /\ UNCHANGED <<runVars, version, given>>
         /\ \/ Fail /\ UNCHANGED <<json, outdated>>
            \/ /\ json' \in DOMAIN ape' /\ UNCHANGED <<had_error, failed>>
               /\ outdated \subseteq outdated'
               /\ source \in outdated' \/ ape'[json'] = Content(source)
               /\ IF given.ape_only THEN files' = Tail(files) /\ stage' = "next"
                  ELSE stage' = "apex" /\ UNCHANGED files
<1> DEFINE ape1  == IF written = "nothing" THEN ape
                    ELSE Put(ape, Append(LlStem(source), written), Content(source))
           found == {k \in 1 .. 2 : Candidates(source)[k] \in DOMAIN ape1}
           first == Candidates(source)[Min(found)]
<1>1. stage = "ape" /\ files # << >> /\ UNCHANGED <<runVars, version, given>> /\ ape' = ape1
  BY DEF RunApe, StageInv
<1>2. CASE found = {}
  <2>1. Fail /\ UNCHANGED <<json, outdated>>
    BY <1>2 DEF RunApe
  <2> QED BY <1>1, <2>1
<1>3. CASE found # {}
  <2>1. first \in DOMAIN ape1
    <3>1. found \subseteq 1 .. 2 /\ \A k \in found : Candidates(source)[k] \in DOMAIN ape1
      OBVIOUS
    <3> HIDE DEF found, ape1
    <3> QED BY <1>3, <3>1, FirstFound
  <2>2. /\ json' = first /\ UNCHANGED <<had_error, failed>>
        /\ outdated' = IF ape1[first] = Content(source) THEN outdated ELSE outdated \cup {source}
        /\ IF given.ape_only THEN files' = Tail(files) /\ stage' = "next"
           ELSE stage' = "apex" /\ UNCHANGED files
    BY <1>3 DEF RunApe
  <2> HIDE DEF first, ape1
  <2> QED BY <1>1, <2>1, <2>2
<1> QED BY <1>2, <1>3

\* What the wrapper has found for its source stays what it found.
LEMMA PickedStep ==
  ASSUME StageInv, PickedInv, [WrapperNext]_allVars
  PROVE  PickedInv'
<1>1. ASSUME UNCHANGED <<json, ape, files, outdated, version>>,
             stage' \in {"apex", "running"} => stage \in {"apex", "running"}
      PROVE  PickedInv'
  BY <1>1 DEF PickedInv, Content, source
<1>2. ASSUME stage' \notin {"apex", "running"} PROVE PickedInv'
  BY <1>2 DEF PickedInv
<1>3. ASSUME NEW s \in Sources, Edit(s) PROVE PickedInv'
  BY <1>2, <1>3 DEF Edit
<1>4. ASSUME NEW arguments \in Arguments, Invoke(arguments) PROVE PickedInv'
  BY <1>2, <1>4 DEF Invoke
<1>5. CASE Reject
  BY <1>1, <1>5 DEF Reject
<1>6. CASE SkipSource
  BY <1>2, <1>6 DEF SkipSource, Fail
<1>7. CASE ToLl
  BY <1>2, <1>7 DEF ToLl
<1>8. CASE ToolFails
  BY <1>2, <1>8 DEF ToolFails, Fail
<1>9. ASSUME NEW written \in PluginWrites, RunApe(written) PROVE PickedInv'
  <2>1. CASE stage' = "next"
    BY <1>2, <2>1
  <2>2. CASE stage' # "next"
    <3>1. /\ json' \in DOMAIN ape' /\ (source \in outdated' \/ ape'[json'] = Content(source))
          /\ files' = files /\ version' = version
      BY <1>9, <2>2, ApeFound DEF Fail
    <3> QED BY <3>1 DEF PickedInv, Content, source
  <2> QED BY <2>1, <2>2
<1>10. ASSUME NEW flags, StartApex(flags) PROVE PickedInv'
  BY <1>1, <1>10 DEF StartApex
<1>11. CASE Apex
  BY <1>1, <1>11 DEF Apex, wrapperVars
<1>12. CASE ApexEnded
  BY <1>2, <1>12 DEF ApexEnded, Fail
<1>13. CASE Finish
  BY <1>2, <1>13 DEF Finish
<1>14. ASSUME NEW command \in CommandLines, ByHand(command) PROVE PickedInv'
  BY <1>2, <1>14 DEF ByHand
<1>15. CASE ByHandEnded
  BY <1>2, <1>15 DEF ByHandEnded
<1>16. CASE UNCHANGED allVars
  BY <1>1, <1>16 DEF allVars, wrapperVars
<1> QED BY <1>3, <1>4, <1>5, <1>6, <1>7, <1>8, <1>9, <1>10, <1>11, <1>12, <1>13, <1>14, <1>15, <1>16 DEF WrapperNext

\* The run under way is that of the wrapper's source.
LEMMA OwnRunStep ==
  ASSUME StageInv, FilesInv, CommandInv, PickedInv, OwnRunInv, [WrapperNext]_allVars
  PROVE  OwnRunInv'
<1>1. ASSUME stage' # "running" PROVE OwnRunInv'
  BY <1>1 DEF OwnRunInv
<1>2. ASSUME NEW s \in Sources, Edit(s) PROVE OwnRunInv'
  BY <1>1, <1>2 DEF Edit
<1>3. ASSUME NEW arguments \in Arguments, Invoke(arguments) PROVE OwnRunInv'
  BY <1>1, <1>3 DEF Invoke
<1>4. CASE Reject
  BY <1>1, <1>4 DEF Reject
<1>5. CASE SkipSource
  BY <1>1, <1>5 DEF SkipSource, Fail
<1>6. CASE ToLl
  BY <1>1, <1>6 DEF ToLl
<1>7. CASE ToolFails
  BY <1>1, <1>7 DEF ToolFails, Fail
<1>8. ASSUME NEW written \in PluginWrites, RunApe(written) PROVE OwnRunInv'
  BY <1>1, <1>8, ApeFound DEF Fail
<1>9. ASSUME NEW flags \in {<<Option("verbose"), Option("no-color")>>, << >>}, StartApex(flags)
      PROVE  OwnRunInv'
  <2>1. meant' = [runs |-> TRUE, input |-> json, cache |-> Word("cache.yaml"), output |-> Word("results")]
        /\ UNCHANGED <<ape, json>>
    BY <1>9 DEF StartApex
  <2>2. meant'.input = json /\ meant'.output = Word("results")
    BY <2>1
  <2>3. stage = "apex" /\ running'.active = TRUE /\ running'.input = Read(json)
    BY <1>9, WrapperRuns
  <2>4. Read(json) = ape[json]
    BY <2>3 DEF PickedInv, Read
  <2> QED BY <2>1, <2>2, <2>3, <2>4 DEF OwnRunInv
<1>10. CASE Apex
  <2>1. SUFFICES ASSUME stage = "running" PROVE OwnRunInv'
    BY <1>1, <1>10 DEF Apex, wrapperVars
  <2>2. /\ running.active /\ UNCHANGED <<stage, meant, json, ape>>
        /\ meant.input = json /\ meant.output = Word("results") /\ running.input = ape[json]
    BY <1>10, <2>1 DEF Apex, wrapperVars, RunStep, WriteReport, EndRun, FailRun, KillRun, OwnRunInv
  <2>3. CASE WriteReport
    <3>1. running'.active = TRUE /\ running'.input = running.input
      BY <2>2, <2>3, RunningFacts DEF WriteReport
    <3> QED BY <2>2, <3>1 DEF OwnRunInv
  <2>4. CASE EndRun
    <3>1. running.dir = Word("results") /\ running.base = output_basename(json)
      BY <2>2 DEF CommandInv
    <3>2. \A i \in 1 .. 4 :
            LET f == Names(Word("results"), output_basename(json))[i]
            IN  f \in DOMAIN reports' /\ reports'[f].input = ape[json] /\ reports'[f].whole
      BY <2>2, <2>4, <3>1, RunWrote
    <3>3. Whole(output_basename(json), ape[json])'
      BY <2>2, <3>2 DEF Whole
    <3>4. ~running'.active
      BY <2>4 DEF EndRun, NoRun
    <3> QED BY <2>2, <3>3, <3>4 DEF OwnRunInv
  <2>5. CASE FailRun \/ KillRun
    <3>1. exit' = 1 /\ ~running'.active
      BY <2>5 DEF FailRun, KillRun, NoRun
    <3> QED BY <2>2, <3>1 DEF OwnRunInv
  <2> QED BY <1>10, <2>3, <2>4, <2>5 DEF Apex, RunStep
<1>11. CASE ApexEnded
  BY <1>1, <1>11 DEF ApexEnded, Fail
<1>12. CASE Finish
  BY <1>1, <1>12 DEF Finish
<1>13. ASSUME NEW command \in CommandLines, ByHand(command) PROVE OwnRunInv'
  BY <1>1, <1>13 DEF ByHand
<1>14. CASE ByHandEnded
  BY <1>1, <1>14 DEF ByHandEnded
<1>15. CASE UNCHANGED allVars
  BY <1>15 DEF allVars, runVars, wrapperVars, OwnRunInv, Whole
<1> QED BY <1>2, <1>3, <1>4, <1>5, <1>6, <1>7, <1>8, <1>9, <1>10, <1>11, <1>12, <1>13, <1>14, <1>15 DEF WrapperNext

\* A source that is accounted for stays so, and one that is left becomes so.
LEMMA DoneStep ==
  ASSUME StageInv, FilesInv, CommandInv, AccountInv, [WrapperNext]_allVars
  PROVE  DoneInv'
<1> USE DEF AccountInv
<1> DEFINE Same(s) == \/ Overwritten(s)
                      \/ \E base \in Bases(s) : Whole(base, Content(s))
<1>1. ASSUME ~Busy' \/ given'.ape_only PROVE DoneInv'
  BY <1>1 DEF DoneInv
\* What is accounted for stays so while no report is written.
<1>2. ASSUME UNCHANGED <<reports, version, given>>, NEW s, Same(s) PROVE Accounted(s)'
  BY <1>2 DEF Accounted, Overwritten, Whole, Content
<1>3. ASSUME Busy, ~given.ape_only, stage # "running", NEW s \in Behind \ (failed \cup outdated)
      PROVE  Same(s)
  BY <1>3 DEF DoneInv, Accounted
\* The source is left with an error.
<1>4. ASSUME Busy, files # << >>, Fail, UNCHANGED <<reports, version, given, outdated>>
      PROVE  DoneInv'
  <2>1. SUFFICES ASSUME ~given.ape_only, NEW s \in Behind' \ (failed' \cup outdated')
                 PROVE  Accounted(s)'
    BY <1>4 DEF DoneInv
  <2>2. Behind' = Behind \cup {source} /\ failed' = failed \cup {source} /\ outdated' = outdated
    BY <1>4, NextPlace DEF Fail
  <2>3. s # source /\ s \in Behind \ (failed \cup outdated)
    BY <2>1, <2>2
  <2>4. Same(s)
    BY <1>4, <2>1, <2>3 DEF DoneInv, Accounted
  <2> QED BY <1>2, <1>4, <2>4
\* Nothing is behind the wrapper that was not.
<1>5. ASSUME Busy, stage # "running", UNCHANGED <<reports, version, given, files, failed>>,
             outdated \subseteq outdated'
      PROVE  DoneInv'
  <2>1. SUFFICES ASSUME ~given.ape_only, NEW s \in Behind' \ (failed' \cup outdated')
                 PROVE  Accounted(s)'
    BY <1>5 DEF DoneInv
  <2>2. s \in Behind \ (failed \cup outdated)
    BY <1>5, <2>1 DEF Behind
  <2> QED BY <1>2, <1>3, <1>5, <2>1, <2>2
<1>6. ASSUME NEW s \in Sources, Edit(s) PROVE DoneInv'
  BY <1>1, <1>6 DEF Edit, Busy
<1>7. ASSUME NEW arguments \in Arguments, Invoke(arguments) PROVE DoneInv'
  <2>1. files' = given'.files /\ given'.files \in Seq(Sources)
    BY <1>7, ArgumentsAssumption DEF Invoke
  <2> DEFINE n == Len(files')
  <2>2. n \in Nat /\ Behind' = {given'.files[i] : i \in 1 .. (n - n)}
    BY <2>1 DEF Behind
  <2> HIDE DEF n
  <2>3. Behind' = {}
    BY <2>2
  <2> QED BY <2>3 DEF DoneInv
<1>8. CASE Reject
  BY <1>1, <1>8 DEF Reject, Busy
<1>9. CASE SkipSource
  BY <1>4, <1>9 DEF SkipSource, Busy, runVars
<1>10. CASE ToLl
  BY <1>5, <1>10 DEF ToLl, Busy, runVars
<1>11. CASE ToolFails
  BY <1>4, <1>11 DEF ToolFails, Busy, runVars, StageInv
<1>12. ASSUME NEW written \in PluginWrites, RunApe(written) PROVE DoneInv'
  <2>1. stage = "ape" /\ files # << >> /\ UNCHANGED <<reports, version, given>>
    BY <1>12, ApeFound DEF runVars
  <2>2. CASE Fail /\ UNCHANGED outdated
    BY <1>4, <2>1, <2>2 DEF Busy
  <2>3. CASE given.ape_only
    BY <1>1, <2>1, <2>3
  <2>4. CASE ~given.ape_only /\ ~(Fail /\ UNCHANGED outdated)
    <3>1. UNCHANGED <<files, failed>> /\ outdated \subseteq outdated'
      BY <1>12, <2>4, ApeFound
    <3> QED BY <1>5, <2>1, <3>1 DEF Busy
  <2> QED BY <2>2, <2>3, <2>4
<1>13. ASSUME NEW flags \in {<<Option("verbose"), Option("no-color")>>, << >>}, StartApex(flags)
       PROVE  DoneInv'
  <2>1. stage = "apex" /\ UNCHANGED <<reports, version, given, files, failed, outdated>>
    BY <1>13, WrapperRuns DEF StartApex
  <2> QED BY <1>5, <2>1 DEF Busy
<1>14. CASE Apex
  <2>1. RunStep /\ UNCHANGED <<version, ape, given, files, stage, json, failed, outdated, meant>>
    BY <1>14 DEF Apex, wrapperVars
  <2>2. SUFFICES ASSUME Busy, ~given.ape_only, NEW s \in Behind \ (failed \cup outdated)
                 PROVE  Accounted(s)'
    BY <2>1 DEF DoneInv, Busy, Behind
  <2>3. stage = "running" /\ running.active
    BY <2>1, <2>2 DEF RunStep, WriteReport, EndRun, FailRun, KillRun, CommandInv, Busy
  <2>4. running.base = output_basename(json) /\ running.dir = Word("results")
    BY <2>3 DEF CommandInv, OwnRunInv
  <2>5. source \in Range(given.files) /\ source \in Sources /\ s \in Sources
    BY <2>2, <2>3, PlaceFacts DEF StageInv
  <2>6. running.base \in Bases(source)
    BY <2>3, <2>4 DEF StageInv, Bases
  <2>7. CASE Overwritten(s) \/ s = source
    BY <2>1, <2>3, <2>7 DEF Accounted, Overwritten, source
  <2>8. CASE ~Overwritten(s) /\ s # source
    <3>1. PICK base \in Bases(s) : Whole(base, Content(s))
      BY <2>2, <2>8 DEF DoneInv, Accounted
    <3>2. base # running.base
      BY <2>5, <2>6, <2>8, <3>1 DEF Overwritten, Bases
    <3>3. Plain(base)
      BY <2>5, <3>1, CandidateNames DEF Bases
    <3>4. <<Word("results"), base>> # <<running.dir, running.base>>
      BY <3>2
    <3>5. \A i \in 1 .. 4 :
            LET f == Names(Word("results"), base)[i]
            IN  f \in DOMAIN reports' /\ reports'[f].input = Content(s) /\ reports'[f].whole
      BY <2>1, <3>1, <3>3, <3>4, OthersAreKept DEF Whole
    <3>6. Content(s)' = Content(s)
      BY <2>1 DEF Content
    <3> QED BY <3>1, <3>5, <3>6 DEF Accounted, Whole
  <2> QED BY <2>7, <2>8
<1>15. CASE ApexEnded
  <2>1. stage = "running" /\ ~running.active /\ files # << >> /\ UNCHANGED <<reports, version, given, outdated>>
    BY <1>15 DEF ApexEnded, runVars, StageInv
  <2>2. CASE exit # 0
    BY <1>4, <1>15, <2>1, <2>2 DEF ApexEnded, Busy
  <2>3. CASE exit = 0
    <3>1. files' = Tail(files) /\ failed' = failed
      BY <1>15, <2>3 DEF ApexEnded
    <3>2. Behind' = Behind \cup {source}
      BY <2>1, <3>1, NextPlace DEF Busy
    <3>3. SUFFICES ASSUME ~given.ape_only, NEW s \in Behind' \ (failed' \cup outdated')
                   PROVE  Accounted(s)'
      BY <2>1 DEF DoneInv
    <3>4. CASE s = source
      <4>1. Whole(output_basename(json), ape[json]) /\ ape[json] = Content(s)
        BY <2>1, <2>3, <3>1, <3>3, <3>4 DEF OwnRunInv, PickedInv
      <4>2. output_basename(json) \in Bases(s)
        BY <2>1, <3>4 DEF StageInv, Bases
      <4>3. Same(s)
        BY <4>1, <4>2
      <4> QED BY <1>2, <2>1, <4>3
    <3>5. CASE s # source
      <4>1. s \in Behind \ (failed \cup outdated)
        BY <2>1, <3>1, <3>2, <3>3, <3>5
      <4>2. Same(s)
        BY <2>1, <3>3, <3>5, <4>1 DEF DoneInv, Accounted, Busy
      <4> QED BY <1>2, <2>1, <4>2
    <3> QED BY <3>4, <3>5
  <2> QED BY <2>2, <2>3
<1>16. CASE Finish
  BY <1>1, <1>16 DEF Finish, Busy
<1>17. ASSUME NEW command \in CommandLines, ByHand(command) PROVE DoneInv'
  BY <1>1, <1>17 DEF ByHand, Busy
<1>18. CASE ByHandEnded
  BY <1>1, <1>18 DEF ByHandEnded, Busy
<1>19. CASE UNCHANGED allVars
  <2>1. UNCHANGED <<reports, version, given, files, stage, failed, outdated>>
    BY <1>19 DEF allVars, runVars, wrapperVars
  <2>2. SUFFICES ASSUME Busy, ~given.ape_only, NEW s \in Behind \ (failed \cup outdated)
                 PROVE  Accounted(s)'
    BY <2>1 DEF DoneInv, Busy, Behind
  <2>3. CASE stage = "running" /\ s = source
    BY <2>1, <2>3 DEF Accounted, source
  <2>4. CASE Same(s)
    BY <1>2, <2>1, <2>4
  <2> QED BY <2>2, <2>3, <2>4 DEF DoneInv, Accounted
<1> QED BY <1>6, <1>7, <1>8, <1>9, <1>10, <1>11, <1>12, <1>13, <1>14, <1>15, <1>16, <1>17, <1>18, <1>19 DEF WrapperNext

\* Before the first invocation there is no source to account for.
LEMMA AccountInvInit ==
  ASSUME WrapperInit
  PROVE  AccountInv
BY DEF WrapperInit, AccountInv, PlaceInv, PickedInv, OwnRunInv, DoneInv, Busy

\* The reports of the sources behind the wrapper are what it was given them for: no
\* later step of the invocation takes that away.
THEOREM AccountInvHolds == WrapperSpec => []AccountInv
<1>1. WrapperInit => AccountInv
  BY AccountInvInit
<1>2. RunsInv /\ AccountInv /\ [WrapperNext]_allVars => AccountInv'
  BY PlaceStep, PickedStep, OwnRunStep, DoneStep DEF RunsInv, AccountInv
<1> QED BY <1>1, <1>2, RunsInvHolds, PTL DEF WrapperSpec

\* At the end of the list all sources are behind the wrapper.
LEMMA AllAccounted ==
  ASSUME StageInv, AccountInv
  PROVE  EverySourceAccounted
<1>1. SUFFICES ASSUME stage = "next", files = << >>, ~given.ape_only,
                      NEW s \in Range(given.files) \ (failed \cup outdated), ~Overwritten(s)
               PROVE  \E base \in DocumentedBases(s) : \A f \in Range(ReportNames(Word("results"), base)) :
                        f \in DOMAIN reports /\ reports[f].input = Content(s) /\ reports[f].whole
  BY Zenon DEF EverySourceAccounted
<1>2. Behind = Range(given.files) /\ Range(given.files) \subseteq Sources
  BY <1>1, PlaceFacts DEF AccountInv, Busy
<1>3. PICK base \in Bases(s) : Whole(base, Content(s))
  BY <1>1, <1>2 DEF AccountInv, DoneInv, Accounted, Busy
<1>4. base \in DocumentedBases(s)
  BY <1>2, <1>3, BasesAreDocumented
<1>5. \A f \in Range(ReportNames(Word("results"), base)) : \E i \in 1 .. 4 : f = ReportNames(Word("results"), base)[i]
  BY NamesAreFour
<1> QED BY <1>3, <1>4, <1>5 DEF Whole, Names

\* When the wrapper's loop is over, every source was reported as failed or has four whole
\* reports of its present content under the name the README gives, unless another source
\* given has that name or the plugin left the file that is read as it was.
THEOREM SourcesAreAccounted == WrapperSpec => []EverySourceAccounted
<1>1. RunsInv /\ AccountInv => EverySourceAccounted
  BY AllAccounted DEF RunsInv
<1> QED BY <1>1, RunsInvHolds, AccountInvHolds, PTL
=============================================================================
