---------------------------- MODULE PilotProofs ----------------------------
(***************************************************************************)
(* Theorems about PilotJobs, for every set of jobs and every number of     *)
(* rows, polls and faults: what protects the rows of a pilot, and what a   *)
(* frozen manifest is worth.                                               *)
(***************************************************************************)
EXTENDS PilotJobs, FiniteSetTheorems, TLAPS

LEMMA AppendLine ==
  ASSUME NEW s \in Seq(Lines), NEW j \in Jobs, NEW good \in BOOLEAN
  PROVE  Append(s, Line(j, good)) \in Seq(Lines)
<1>1. Line(j, good) \in Lines
  BY DEF Line, Lines
<1> QED BY <1>1

\* The steps of a job, the watcher and stop_and_freeze that write files.
LEMMA JobTypes ==
  ASSUME TypeOK, NEW j \in Jobs, Job(j), UNCHANGED pair
  PROVE  TypeOK'
<1> USE JobsAssumption DEF TypeOK, Known, Terminal, files, watchVars, freezeVars
<1>0. \A s \in Seq(Lines), good \in BOOLEAN : Append(s, Line(j, good)) \in Seq(Lines)
  BY AppendLine
<1>a. \A s \in Seq(Lines) :
         /\ Append(s, Line(j, TRUE)) \in Seq(Lines)
         /\ Append(s, Line(j, FALSE)) \in Seq(Lines)
  BY AppendLine
<1>1. CASE Check(j)
  BY <1>1 DEF Check
<1>2. CASE Submit(j)
  BY <1>2 DEF Submit
<1>3. CASE Unlink(j)
  BY <1>3 DEF Unlink, NoFile
<1>4. CASE Warmup(j)
  BY <1>0, <1>4 DEF Warmup
<1>5. CASE AppendRow(j)
  <2>1. out' \in Seq(Lines)
    BY <1>a, <1>5 DEF AppendRow
  <2>2. written[j] + 1 \in 0..Variants
    BY <1>5 DEF AppendRow
  <2>3. written' \in [Jobs -> 0..Variants]
    BY <1>5, <2>2 DEF AppendRow
  <2> QED BY <1>5, <2>1, <2>3 DEF AppendRow
<1>6. CASE Exit(j)
  BY <1>6 DEF Exit
<1>7. Torn(j) => out' \in Seq(Lines) /\ warm' \in Seq(Lines)
  BY <1>a DEF Torn
<1>8. CASE Dies(j)
  BY <1>7, <1>8 DEF Dies
<1>9. CASE Stopped(j)
  BY <1>7, <1>9 DEF Stopped
<1> QED BY <1>1, <1>2, <1>3, <1>4, <1>5, <1>6, <1>8, <1>9 DEF Job

LEMMA ListedTypes ==
  ASSUME TypeOK
  PROVE  /\ Listed(warm) \in SUBSET Seq(Lines) /\ Listed(out) \in SUBSET Seq(Lines)
         /\ Listed(log) \in SUBSET Seq(Nat) /\ Nothing \in Manifests
         /\ Copied(warm) \in SUBSET Seq(Lines) /\ Copied(out) \in SUBSET Seq(Lines)
BY DEF TypeOK, Listed, Copied, Nothing, Manifests

LEMMA WatchTypes ==
  ASSUME TypeOK, StartWatch \/ WatchStep \/ WatchDies, UNCHANGED pair
  PROVE  TypeOK'
<1> USE JobsAssumption, ListedTypes DEF TypeOK, jobVars, files, freezeVars
<1>1. CASE StartWatch
  BY <1>1 DEF StartWatch
<1>2. ASSUME NEW said \in Says, WatchPoll(said) PROVE TypeOK'
  BY <1>2 DEF WatchPoll, Misreads
<1>3. CASE WatchLog
  BY <1>3 DEF WatchLog, SaveLog, Truncated
<1>4. CASE HashWarm
  BY <1>4 DEF HashWarm, Manifests
<1>5. CASE HashOut
  BY <1>5 DEF HashOut, Manifests
<1>6. CASE HashLog
  BY <1>6 DEF HashLog, Manifests
<1>7. CASE OpenMarker \/ Mark
  BY <1>7 DEF OpenMarker, Mark
<1>8. CASE WatchDies
  <2>1. Faults < MaxFaults => deaths + 1 \in 0..MaxFaults
    <3>1. Cardinality(misled) \in Nat
      <4>1. IsFiniteSet({"watch"} \cup {"freezer"})
        BY FS_Singleton, FS_Union
      <4>2. misled \subseteq {"watch"} \cup {"freezer"}
        OBVIOUS
      <4>3. IsFiniteSet(misled)
        BY <4>1, <4>2, FS_Subset
      <4> QED BY <4>3, FS_CardinalityType
    <3> QED BY <3>1 DEF Faults
  <2> QED BY <1>8, <2>1 DEF WatchDies
<1> QED BY <1>1, <1>2, <1>3, <1>4, <1>5, <1>6, <1>7, <1>8 DEF WatchStep, Freeze

LEMMA FreezeTypes ==
  ASSUME TypeOK, Status \/ FreezeStep, UNCHANGED pair
  PROVE  TypeOK'
<1> USE JobsAssumption, ListedTypes DEF TypeOK, jobVars, files, watchVars
<1>1. CASE Status
  <2>1. PICK said \in Says :
           /\ Misreads("freezer", said)
           /\ freezer' = CASE said \in {"PENDING", "RUNNING"} -> "stop"
                           [] said \in Terminal -> "poll"
                           [] said = "none" -> "gave_up"
    BY <1>1 DEF Status
  <2>2. said \in {"PENDING", "RUNNING"} \/ said \in Terminal \/ said = "none"
    BY <1>1 DEF Status, Says, Known, Terminal
  <2>3. freezer' \in {"stop", "poll", "gave_up"}
    BY <2>1, <2>2
  <2>4. misled' \subseteq {"watch", "freezer"}
    BY <2>1 DEF Misreads
  <2> QED BY <1>1, <2>3, <2>4 DEF Status
<1>2. CASE Stop
  BY <1>2 DEF Stop
<1>3. CASE FreezePoll
  <2>1. PICK said \in Says :
           /\ Misreads("freezer", said)
           /\ freezer' = IF GoesOn(said) THEN "log" ELSE "poll"
    BY <1>3 DEF FreezePoll
  <2>2. misled' \subseteq {"watch", "freezer"}
    BY <2>1 DEF Misreads
  <2>3. /\ polls' \in 0..MaxPolls /\ freezer' \in {"log", "poll"}
        /\ freezer' = "poll" => polls' < MaxPolls
    BY <1>3, <2>1 DEF FreezePoll, GoesOn
  <2> QED BY <1>3, <2>2, <2>3 DEF FreezePoll
<1>4. CASE FreezeLog
  BY <1>4 DEF FreezeLog, SaveLog
<1>5. CASE CopyWarm
  BY <1>5 DEF CopyWarm, Manifests
<1>6. CASE CopyOutAndHash
  BY <1>6 DEF CopyOutAndHash, Manifests
<1> QED BY <1>1, <1>2, <1>3, <1>4, <1>5, <1>6 DEF FreezeStep

LEMMA TypeStep == TypeOK /\ [Next]_vars => TypeOK'
<1> SUFFICES ASSUME TypeOK, [Next]_vars PROVE TypeOK'
  OBVIOUS
<1>1. ASSUME NEW j \in Jobs, Job(j), UNCHANGED pair PROVE TypeOK'
  BY <1>1, JobTypes
<1>2. CASE (StartWatch \/ WatchStep \/ WatchDies) /\ UNCHANGED pair
  BY <1>2, WatchTypes
<1>3. CASE (Status \/ FreezeStep) /\ UNCHANGED pair
  BY <1>3, FreezeTypes
<1>4. CASE UNCHANGED vars
  BY <1>4 DEF vars, jobVars, files, watchVars, freezeVars, TypeOK
<1> QED BY <1>1, <1>2, <1>3, <1>4 DEF Next

\* The variables keep their types, however many polls and faults there are.
THEOREM TypeCorrect == Spec => []TypeOK
<1>1. Init => TypeOK
  <2>1. Nothing \in Manifests
    BY DEF Nothing, Manifests
  <2>2. NoFile \in Seq(Lines) /\ NoFile \in Seq(Nat)
    BY DEF NoFile
  <2> SUFFICES ASSUME Init PROVE TypeOK
    OBVIOUS
  <2> USE DEF Init
  <2>3. /\ ray \in [Jobs -> Known \cup {"unsubmitted", "checked", "refused"}]
        /\ at \in [Jobs -> {"unlink", "warmup", "rows"}]
        /\ early \in [Jobs -> SUBSET Jobs]
    OBVIOUS
  <2>4. written \in [Jobs -> 0..Variants]
    BY JobsAssumption
  <2>5. out \in Seq(Lines) /\ warm \in Seq(Lines) /\ log \in Seq(Nat)
    BY <2>2
  <2>6. deaths \in 0..MaxFaults /\ polls \in 0..MaxPolls /\ polls < MaxPolls
    BY JobsAssumption
  <2>7. manifest \in Manifests /\ sums \in Manifests
    BY <2>1
  <2>8. /\ pair \in Pairs /\ stopping \subseteq Jobs /\ misled \subseteq {"watch", "freezer"}
        /\ watch = "off" /\ freezer = "off" /\ marker \in {"none", "partial", "whole"}
    OBVIOUS
  <2> QED
    <3> HIDE DEF Init
    <3> QED BY <2>3, <2>4, <2>5, <2>6, <2>7, <2>8 DEF TypeOK
<1> QED BY <1>1, TypeStep, PTL DEF Spec
-----------------------------------------------------------------------------
\* The rows.  A job that got past its warm-up left a line that stays, so that a
\* job whose submission passed the check was checked before any such job.
WarmupStays == (\E k \in Jobs : at[k] = "rows") => warm # NoFile

ChecksSeeNothing ==
    \A j \in Jobs : ray[j] \in {"checked", "PENDING"} => early[j] = Jobs

EvidenceInv == WarmupStays /\ ChecksSeeNothing

LEMMA AppendNotEmpty ==
  ASSUME TypeOK, NEW j \in Jobs, NEW good \in BOOLEAN
  PROVE  Append(warm, Line(j, good)) # NoFile
<1>1. warm \in Seq(Lines) /\ Line(j, good) \in Lines
  BY DEF TypeOK, Line, Lines
<1> QED BY <1>1 DEF NoFile

LEMMA TornKeepsWarmup ==
  ASSUME TypeOK, NEW j \in Jobs, Torn(j), warm # NoFile
  PROVE  warm' # NoFile
BY AppendNotEmpty DEF Torn, files

LEMMA JobKeepsEvidence ==
  ASSUME TypeOK, EvidenceInv, NEW j \in Jobs, Job(j)
  PROVE  EvidenceInv'
<1> USE DEF TypeOK, EvidenceInv, WarmupStays, ChecksSeeNothing, files
<1>1. CASE Check(j)
  <2>1. CASE Passes
    <3>1. {k \in Jobs : at[k] # "rows"} = Jobs \/ pair # "own"
      BY <2>1 DEF Passes, NoEvidence, Pairs
    <3>2. early'[j] = Jobs
      BY <1>1, <3>1 DEF Check
    <3> QED BY <1>1, <3>2 DEF Check
  <2>2. CASE ~Passes
    <3>1. ray'[j] = "refused"
      BY <1>1, <2>2 DEF Check
    <3> QED BY <1>1, <3>1 DEF Check
  <2> QED BY <2>1, <2>2
<1>2. CASE Submit(j)
  BY <1>2 DEF Submit
<1>3. CASE Unlink(j)
  BY <1>3 DEF Unlink
<1>4. CASE Warmup(j)
  <2>1. warm' # NoFile
    BY <1>4, AppendNotEmpty DEF Warmup
  <2>2. ChecksSeeNothing'
    BY <1>4 DEF Warmup
  <2> QED BY <2>1, <2>2
<1>5. CASE AppendRow(j)
  BY <1>5 DEF AppendRow
<1>6. CASE Exit(j)
  BY <1>6 DEF Exit
<1>7. CASE Dies(j)
  BY <1>7, TornKeepsWarmup DEF Dies
<1>8. CASE Stopped(j)
  BY <1>8, TornKeepsWarmup DEF Stopped
<1> QED BY <1>1, <1>2, <1>3, <1>4, <1>5, <1>6, <1>7, <1>8 DEF Job

\* The evidence scripts write neither the files nor the states of the jobs.
LEMMA ScriptsOnlyRead ==
  ASSUME StartWatch \/ WatchStep \/ WatchDies \/ Status \/ FreezeStep
  PROVE  UNCHANGED <<ray, at, written, early, out, warm>>
<1> USE DEF jobVars, files
<1>1. CASE StartWatch \/ WatchDies
  BY <1>1 DEF StartWatch, WatchDies
<1>2. CASE WatchStep
  BY <1>2 DEF WatchStep, Freeze, WatchPoll, WatchLog, HashWarm, HashOut, HashLog, OpenMarker, Mark
<1>3. CASE Status \/ FreezeStep
  BY <1>3 DEF Status, FreezeStep, Stop, FreezePoll, FreezeLog, CopyWarm, CopyOutAndHash
<1> QED BY <1>1, <1>2, <1>3

LEMMA EvidenceStep == TypeOK /\ EvidenceInv /\ [Next]_vars => EvidenceInv'
<1> SUFFICES ASSUME TypeOK, EvidenceInv, [Next]_vars PROVE EvidenceInv'
  OBVIOUS
<1>1. ASSUME NEW j \in Jobs, Job(j) PROVE EvidenceInv'
  BY <1>1, JobKeepsEvidence
<1>2. CASE UNCHANGED <<ray, at, written, early, out, warm>>
  BY <1>2 DEF EvidenceInv, WarmupStays, ChecksSeeNothing
<1>3. UNCHANGED vars => UNCHANGED <<ray, at, written, early, out, warm>>
  BY DEF vars, jobVars, files
<1> QED BY <1>1, <1>2, <1>3, ScriptsOnlyRead DEF Next

\* A job takes away no row of a job that had passed its warm-up when it was
\* checked itself, for any number of jobs and in any order of their steps.
THEOREM RowsAreGuarded == Spec => OnlyOverlapsLoseRows
<1>1. Init => EvidenceInv
  BY DEF Init, EvidenceInv, WarmupStays, ChecksSeeNothing
<1>2. TypeOK /\ EvidenceInv =>
        (\A j \in Jobs : ray[j] = "PENDING" /\ ray'[j] = "RUNNING" =>
           \A i \in DOMAIN out : out[i].job \in early[j])
  <2>1. TypeOK => \A i \in DOMAIN out : out[i] \in Lines
    BY DEF TypeOK
  <2>2. TypeOK => \A i \in DOMAIN out : out[i].job \in Jobs
    BY <2>1 DEF Lines
  <2> QED BY <2>2 DEF EvidenceInv, ChecksSeeNothing
<1> QED BY <1>1, <1>2, EvidenceStep, TypeCorrect, PTL DEF Spec, OnlyOverlapsLoseRows
-----------------------------------------------------------------------------
\* The state of a job that ended is final.
LEMMA EndIsFinal ==
  ASSUME TypeOK, [Next]_vars, Ended(Watched)
  PROVE  ray'[Watched] = ray[Watched] /\ Ended(Watched)'
<1> USE JobsAssumption DEF Ended, Terminal
<1> SUFFICES ray'[Watched] = ray[Watched]
  OBVIOUS
<1>1. ASSUME NEW j \in Jobs, Job(j) PROVE ray'[Watched] = ray[Watched]
  <2> USE DEF TypeOK
  <2>1. j = Watched => FALSE
    BY <1>1 DEF Job, Check, Submit, Unlink, Warmup, AppendRow, Exit, Dies, Stopped
  <2>2. j # Watched => ray'[Watched] = ray[Watched]
    BY <1>1 DEF Job, Check, Submit, Unlink, Warmup, AppendRow, Exit, Dies, Stopped
  <2> QED BY <2>1, <2>2
<1>2. UNCHANGED vars => UNCHANGED ray
  BY DEF vars, jobVars
<1> QED BY <1>1, <1>2, ScriptsOnlyRead DEF Next

\* A script that goes on was told so truly, or was misled.
LEMMA MisledOrEnded ==
  ASSUME NEW script, NEW said, Misreads(script, said), said \in Terminal
  PROVE  (Ended(Watched) \/ script \in misled') /\ misled \subseteq misled'
BY DEF Misreads

LEMMA FrozenStep == TypeOK /\ FrozenWhenOver /\ [Next]_vars => FrozenWhenOver'
<1> SUFFICES ASSUME TypeOK, FrozenWhenOver, [Next]_vars, ~Ended(Watched)'
             PROVE  /\ watch' \notin {"off", "poll", "dead"} => "watch" \in misled'
                    /\ freezer' \in {"log", "copy_warm", "copy_out", "done"} =>
                          "freezer" \in misled' \/ polls' = MaxPolls
  BY DEF FrozenWhenOver
<1>0. /\ ~Ended(Watched)
      /\ watch \notin {"off", "poll", "dead"} => "watch" \in misled
      /\ freezer \in {"log", "copy_warm", "copy_out", "done"} =>
            "freezer" \in misled \/ polls = MaxPolls
  BY EndIsFinal DEF FrozenWhenOver
<1> USE <1>0 DEF watchVars, freezeVars
<1>1. ASSUME NEW j \in Jobs, Job(j)
      PROVE  UNCHANGED <<watch, freezer, polls, misled>>
  BY <1>1 DEF Job, Check, Submit, Unlink, Warmup, AppendRow, Exit, Dies, Stopped
<1>2. CASE StartWatch \/ WatchDies
  BY <1>2 DEF StartWatch, WatchDies
<1>3. ASSUME NEW said \in Says, WatchPoll(said)
      PROVE  "watch" \in misled' /\ misled \subseteq misled' /\ UNCHANGED <<freezer, polls>>
  BY <1>3, MisledOrEnded DEF WatchPoll, EndsWatch
<1>4. CASE Freeze
  BY <1>4 DEF Freeze, WatchLog, HashWarm, HashOut, HashLog, OpenMarker, Mark
<1>5. CASE Status
  <2>1. PICK said \in Says :
           /\ Misreads("freezer", said)
           /\ freezer' = CASE said \in {"PENDING", "RUNNING"} -> "stop"
                           [] said \in Terminal -> "poll"
                           [] said = "none" -> "gave_up"
    BY <1>5 DEF Status
  <2>2. said \in {"PENDING", "RUNNING"} \/ said \in Terminal \/ said = "none"
    BY <1>5 DEF Status, Says, Known, Terminal
  <2>3. freezer' \in {"stop", "poll", "gave_up"} /\ misled \subseteq misled'
    BY <2>1, <2>2 DEF Misreads
  <2>4. watch' = watch
    BY <1>5 DEF Status
  <2> QED BY <2>3, <2>4
<1>6. CASE FreezePoll
  <2>1. PICK said \in Says :
           /\ Misreads("freezer", said)
           /\ freezer' = IF GoesOn(said) THEN "log" ELSE "poll"
    BY <1>6 DEF FreezePoll
  <2>2. watch' = watch /\ polls' = polls + 1 /\ misled \subseteq misled'
    BY <1>6, <2>1 DEF FreezePoll, Misreads
  <2>3. freezer' = "log" => "freezer" \in misled' \/ polls' = MaxPolls
    BY <2>1, <2>2, MisledOrEnded DEF GoesOn
  <2> QED BY <2>1, <2>2, <2>3
<1>7. CASE Stop \/ FreezeLog \/ CopyWarm \/ CopyOutAndHash
  BY <1>7 DEF Stop, FreezeLog, CopyWarm, CopyOutAndHash
<1>8. CASE UNCHANGED vars
  BY <1>8 DEF vars
<1> QED BY <1>1, <1>2, <1>3, <1>4, <1>5, <1>6, <1>7, <1>8 DEF Next, WatchStep, FreezeStep

\* Neither script freezes the evidence of a job that may still write, unless it
\* was misled or gave up, for any number of polls.
THEOREM FrozenIsOver == Spec => []FrozenWhenOver
<1>1. Init => FrozenWhenOver
  BY DEF Init, FrozenWhenOver
<1> QED BY <1>1, FrozenStep, TypeCorrect, PTL DEF Spec
-----------------------------------------------------------------------------
\* The manifests.  Between the end of the job and the last hash nothing moves:
\* the files are still, and each phase of a script has listed what it passed.
StopsWatched == stopping \subseteq {Watched}

LogSaved ==
    /\ watch \notin {"off", "poll", "log", "dead"} => log # NoFile
    /\ freezer \in {"copy_warm", "copy_out", "done"} => log # NoFile

LogIsFree == freezer \in {"off", "stop", "poll", "log", "gave_up"}

WatchListed ==
    Alone /\ "watch" \notin misled =>
        /\ watch = "warm" => manifest = Nothing
        /\ watch \in {"out", "sum", "mark", "marking", "done"} => manifest.warm = Listed(warm)
        /\ watch = "out" => manifest.out = {}
        /\ watch \in {"sum", "mark", "marking", "done"} => manifest.out = Listed(out)
        /\ watch \in {"out", "sum"} => manifest.log = {}
        /\ watch \in {"mark", "marking", "done"} /\ LogIsFree => manifest.log = {log}

FreezerCopied ==
    Alone /\ "freezer" \notin misled /\ polls < MaxPolls =>
        /\ freezer \in {"copy_out", "done"} => sums.warm = Copied(warm)
        /\ freezer = "done" => sums.out = Copied(out)
        /\ freezer = "done" /\ watch \in {"off", "poll", "log", "dead"} /\ deaths = 0 =>
              sums.log = {log}

VouchInv == /\ StopsWatched /\ LogSaved /\ WatchListed /\ FreezerCopied
            /\ marker = "whole" => watch = "done"

\* Once the watched job ended, an undisturbed pair of files is still.
LEMMA Quiet ==
  ASSUME TypeOK, StopsWatched, [Next]_vars, Alone'
  PROVE  Alone /\ (Ended(Watched) => UNCHANGED <<out, warm>>)
<1> USE JobsAssumption DEF Alone, Ended, Terminal
<1>1. ASSUME NEW j \in Jobs, Job(j)
      PROVE  Alone /\ (Ended(Watched) => UNCHANGED <<out, warm>>)
  <2> USE DEF TypeOK, files
  <2>1. CASE Check(j) \/ Submit(j) \/ Exit(j)
    BY <2>1 DEF Check, Submit, Exit
  <2>2. CASE Unlink(j)
    <3>1. at'[j] = "warmup" /\ ray[j] = "PENDING" /\ \A k \in Jobs \ {j} : at'[k] = at[k]
      BY <2>2 DEF Unlink
    <3>2. j = Watched
      BY <3>1
    <3> QED BY <3>1, <3>2
  <2>3. CASE Warmup(j)
    <3>1. at'[j] = "rows" /\ ray[j] = "RUNNING" /\ \A k \in Jobs \ {j} : at'[k] = at[k]
      BY <2>3 DEF Warmup
    <3>2. j = Watched
      BY <3>1
    <3> QED BY <3>1, <3>2
  <2>4. CASE AppendRow(j)
    <3>1. at[j] = "rows" /\ ray[j] = "RUNNING" /\ at' = at
      BY <2>4 DEF AppendRow
    <3>2. j = Watched
      BY <3>1
    <3> QED BY <3>1, <3>2
  <2>5. CASE Dies(j) \/ Stopped(j)
    <3>1. ray[j] \in {"PENDING", "RUNNING"} /\ at' = at /\ Torn(j)
      BY <2>5 DEF Dies, Stopped
    <3>2. CASE j = Watched
      BY <3>1, <3>2
    <3>3. CASE j # Watched
      BY <3>1, <3>3 DEF Torn
    <3> QED BY <3>2, <3>3
  <2> QED BY <1>1, <2>1, <2>2, <2>3, <2>4, <2>5 DEF Job
<1>2. UNCHANGED vars => UNCHANGED <<ray, at, written, early, out, warm>>
  BY DEF vars, jobVars, files
<1> QED BY <1>1, <1>2, ScriptsOnlyRead DEF Next

LEMMA StopsStep == StopsWatched /\ [Next]_vars => StopsWatched'
<1> SUFFICES ASSUME StopsWatched, [Next]_vars PROVE stopping' \subseteq {Watched}
  BY DEF StopsWatched
<1> USE DEF StopsWatched, jobVars
<1>1. ASSUME NEW j \in Jobs, Job(j) PROVE UNCHANGED stopping
  BY <1>1 DEF Job, Check, Submit, Unlink, Warmup, AppendRow, Exit, Dies, Stopped
<1>2. CASE StartWatch \/ WatchStep \/ WatchDies
  BY <1>2 DEF StartWatch, WatchStep, WatchDies, Freeze, WatchPoll, WatchLog, HashWarm,
              HashOut, HashLog, OpenMarker, Mark
<1>3. CASE Status \/ FreezePoll \/ FreezeLog \/ CopyWarm \/ CopyOutAndHash
  BY <1>3 DEF Status, FreezePoll, FreezeLog, CopyWarm, CopyOutAndHash
<1>4. CASE Stop
  BY <1>4 DEF Stop
<1>5. CASE UNCHANGED vars
  BY <1>5 DEF vars
<1> QED BY <1>1, <1>2, <1>3, <1>4, <1>5 DEF Next, FreezeStep
\* What is listed of a log that was saved is that log.
LEMMA SavedIsListed == log # NoFile => Listed(log) = {log}
BY DEF Listed

\* A step that moves neither script nor log, and files only as a job does.
LEMMA VouchedAtRest ==
  ASSUME TypeOK, FrozenWhenOver, VouchInv, [Next]_vars,
         UNCHANGED <<pair, log, watch, deaths, manifest, marker, freezer, polls, sums, misled>>
  PROVE  LogSaved' /\ WatchListed' /\ FreezerCopied' /\ (marker = "whole" => watch = "done")'
<1> USE DEF VouchInv
<1>1. LogSaved' /\ (marker = "whole" => watch = "done")'
  BY DEF LogSaved
<1>2. Alone' => Alone /\ (Ended(Watched) => UNCHANGED <<out, warm>>)
  BY Quiet
<1>3. Alone' /\ "watch" \notin misled /\ watch \notin {"off", "poll", "dead"}
        => UNCHANGED <<out, warm>>
  BY <1>2 DEF FrozenWhenOver
<1>4. Alone' /\ "freezer" \notin misled /\ polls < MaxPolls /\ freezer \in {"copy_out", "done"}
        => UNCHANGED <<out, warm>>
  BY <1>2 DEF FrozenWhenOver, TypeOK
<1>5. WatchListed'
  <2> SUFFICES ASSUME Alone', "watch" \notin misled PROVE WatchListed'
    BY DEF WatchListed
  <2>1. CASE watch \in {"off", "poll", "dead"}
    BY <2>1 DEF WatchListed
  <2>2. CASE watch \notin {"off", "poll", "dead"}
    <3>1. UNCHANGED <<out, warm>> /\ Alone
      BY <1>2, <1>3, <2>2
    <3> QED BY <3>1 DEF WatchListed, Listed, LogIsFree, Nothing
  <2> QED BY <2>1, <2>2
<1>6. FreezerCopied'
  <2> SUFFICES ASSUME Alone', "freezer" \notin misled, polls < MaxPolls PROVE FreezerCopied'
    BY DEF FreezerCopied
  <2>1. CASE freezer \notin {"copy_out", "done"}
    BY <2>1 DEF FreezerCopied
  <2>2. CASE freezer \in {"copy_out", "done"}
    <3>1. UNCHANGED <<out, warm>> /\ Alone
      BY <1>2, <1>4, <2>2
    <3> QED BY <3>1 DEF FreezerCopied, Copied, Listed
  <2> QED BY <2>1, <2>2
<1> QED BY <1>1, <1>5, <1>6

LEMMA VouchedByWatch ==
  ASSUME TypeOK, VouchInv, StartWatch \/ WatchStep \/ WatchDies, UNCHANGED pair
  PROVE  LogSaved' /\ WatchListed' /\ FreezerCopied' /\ (marker = "whole" => watch = "done")'
<1>0. Alone' => Alone
  BY ScriptsOnlyRead DEF Alone
<1> USE <1>0, ScriptsOnlyRead
        DEF VouchInv, LogSaved, WatchListed, FreezerCopied, jobVars, files, freezeVars,
            Listed, Copied, LogIsFree
<1>1. CASE StartWatch
  BY <1>1 DEF StartWatch
<1>2. ASSUME NEW said \in Says, WatchPoll(said)
      PROVE  LogSaved' /\ WatchListed' /\ FreezerCopied' /\ (marker = "whole" => watch = "done")'
  <2>1. misled \subseteq misled'
    BY <1>2 DEF WatchPoll, Misreads
  <2> QED BY <1>2, <2>1 DEF WatchPoll
<1>3. CASE WatchLog
  <2>1. log' # NoFile
    BY <1>3 DEF WatchLog, SaveLog, NoFile
  <2> QED BY <1>3, <2>1 DEF WatchLog, Truncated
<1>4. CASE HashWarm
  BY <1>4 DEF HashWarm, Nothing
<1>5. CASE HashOut
  BY <1>5 DEF HashOut, TypeOK, Manifests
<1>6. CASE HashLog
  BY <1>6, SavedIsListed DEF HashLog, TypeOK, Manifests
<1>7. CASE OpenMarker \/ Mark
  BY <1>7 DEF OpenMarker, Mark
<1>8. CASE WatchDies
  BY <1>8 DEF WatchDies, TypeOK
<1> QED BY <1>1, <1>2, <1>3, <1>4, <1>5, <1>6, <1>7, <1>8 DEF WatchStep, Freeze

LEMMA VouchedByFreezer ==
  ASSUME TypeOK, VouchInv, Status \/ FreezeStep, UNCHANGED pair
  PROVE  LogSaved' /\ WatchListed' /\ FreezerCopied' /\ (marker = "whole" => watch = "done")'
<1>0. Alone' => Alone
  BY ScriptsOnlyRead DEF Alone
<1> USE <1>0, ScriptsOnlyRead
        DEF VouchInv, LogSaved, WatchListed, FreezerCopied, jobVars, files, watchVars,
            Listed, Copied, LogIsFree
<1>1. CASE Status
  <2>1. PICK said \in Says :
           /\ Misreads("freezer", said)
           /\ freezer' = CASE said \in {"PENDING", "RUNNING"} -> "stop"
                           [] said \in Terminal -> "poll"
                           [] said = "none" -> "gave_up"
    BY <1>1 DEF Status
  <2>2. said \in {"PENDING", "RUNNING"} \/ said \in Terminal \/ said = "none"
    BY <1>1 DEF Status, Says, Known, Terminal
  <2>3. freezer' \in {"stop", "poll", "gave_up"} /\ misled \subseteq misled'
    BY <2>1, <2>2 DEF Misreads
  <2> QED BY <1>1, <2>3 DEF Status
<1>2. CASE Stop
  BY <1>2 DEF Stop
<1>3. CASE FreezePoll
  <2>1. freezer = "poll" /\ freezer' \in {"log", "poll"} /\ misled \subseteq misled'
    BY <1>3 DEF FreezePoll, Misreads
  <2> QED BY <1>3, <2>1 DEF FreezePoll
<1>4. CASE FreezeLog
  <2>1. log' # NoFile
    BY <1>4 DEF FreezeLog, SaveLog, NoFile
  <2> QED BY <1>4, <2>1 DEF FreezeLog
<1>5. CASE CopyWarm
  BY <1>5 DEF CopyWarm, TypeOK, Manifests
<1>6. CASE CopyOutAndHash
  BY <1>6, SavedIsListed DEF CopyOutAndHash, TypeOK, Manifests
<1> QED BY <1>1, <1>2, <1>3, <1>4, <1>5, <1>6 DEF FreezeStep

LEMMA VouchStep == TypeOK /\ FrozenWhenOver /\ VouchInv /\ [Next]_vars => VouchInv'
<1> SUFFICES ASSUME TypeOK, FrozenWhenOver, VouchInv, [Next]_vars
             PROVE  /\ LogSaved' /\ WatchListed' /\ FreezerCopied'
                    /\ (marker = "whole" => watch = "done")'
  BY StopsStep DEF VouchInv
<1>1. ASSUME NEW j \in Jobs, Job(j), UNCHANGED pair
      PROVE  UNCHANGED <<pair, log, watch, deaths, manifest, marker, freezer, polls, sums, misled>>
  BY <1>1 DEF Job, Check, Submit, Unlink, Warmup, AppendRow, Exit, Dies, Stopped,
              watchVars, freezeVars
<1>2. CASE UNCHANGED vars
  BY <1>2, VouchedAtRest DEF vars, watchVars, freezeVars
<1> QED BY <1>1, <1>2, VouchedAtRest, VouchedByWatch, VouchedByFreezer DEF Next

\* What a finished script vouches for is what the job left, each file once and with
\* its present content, wherever the watcher was killed before and for any number
\* of other submissions that never started.
THEOREM ManifestsAreTrue == Spec => []ManifestsVouch
<1>1. Init => FrozenWhenOver /\ VouchInv
  BY DEF Init, FrozenWhenOver, VouchInv, StopsWatched, LogSaved, WatchListed, FreezerCopied
<1>2. VouchInv => ManifestsVouch
  BY DEF VouchInv, WatchListed, FreezerCopied, ManifestsVouch, LogIsFree, Copied
<1> QED BY <1>1, <1>2, FrozenStep, VouchStep, TypeCorrect, PTL DEF Spec
=============================================================================
