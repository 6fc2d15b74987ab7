----------------------------- MODULE PilotJobs -----------------------------
(***************************************************************************)
(* Hardware pilots as Ray jobs on one pair of evidence files: the submit   *)
(* scripts (scripts/submit_hardware_pilot_gemini38*.sh), the job           *)
(* (scripts/run_real_hardware_pilot.py), the watcher that freezes the      *)
(* evidence of a finished job (scripts/watch_ray_job_evidence.sh) and the  *)
(* script that stops a job and freezes what it left                        *)
(* (scripts/stop_and_freeze_ray_job.sh).  Each is a process of its own;    *)
(* they meet in the files, in the log of the job and in its Ray state.     *)
(***************************************************************************)
EXTENDS Naturals, Sequences, FiniteSets

CONSTANTS
    Jobs,        \* submissions
    Watched,     \* the job both evidence scripts are called for
    Variants,    \* rows of a complete pilot
    Mortal,      \* bound: jobs whose warm-up fails, that raise or lose their node
    MaxPolls,    \* polls of stop_and_freeze
    MaxFaults    \* bound: misled scripts and killed watchers

ASSUME JobsAssumption ==
    /\ Watched \in Jobs /\ Mortal \subseteq Jobs
    /\ Variants \in Nat \ {0} /\ MaxPolls \in Nat \ {0} /\ MaxFaults \in Nat

VARIABLES
    pair,      \* which names the files have: one of Pairs
    ray,       \* the state of each job; before that, where its submit script is
    at,        \* where run_real_hardware_pilot.py is in each job
    written,   \* rows each job has written
    stopping,  \* jobs that ray job stop was accepted for
    out,       \* the rows of --output; the file is there iff not empty
    warm,      \* the lines of --warmup-output; the file is there iff not empty
    log,       \* logs/<job>.log: which call saved it
    watch,     \* where the watcher is
    deaths,    \* watchers killed
    manifest,  \* its SHA-256 manifest: the contents listed for each file
    marker,    \* its marker: not there, partly written, or whole
    freezer,   \* where stop_and_freeze is
    polls,     \* its polls
    sums,      \* its manifest: the contents of the copies and the log it listed
    early,     \* ghost: jobs still before their rows when a job was submitted
    misled     \* ghost: evidence scripts that took an error text for a state

jobVars == <<ray, at, written, stopping, early>>
files == <<out, warm>>
watchVars == <<watch, deaths, manifest, marker>>
freezeVars == <<freezer, polls, sums>>
vars == <<pair, jobVars, files, log, watchVars, freezeVars, misled>>

\* "default": the files run_real_hardware_pilot.py writes unless told otherwise,
\* which are the ones stop_and_freeze copies; "own": those a submit script names,
\* and guards.
Pairs == {"default", "own"}

\* "FINISHED" stands for SUCCEEDED and FAILED, which the scripts treat alike.
Terminal == {"FINISHED", "STOPPED"}

Known == {"PENDING", "RUNNING"} \cup Terminal

Ended(j) == ray[j] \in Terminal

NoFile == << >>

\* A line of a job: a passing warm-up or a whole row, or one that is neither.
Lines == [job : Jobs, good : BOOLEAN]

Line(j, good) == [job |-> j, good |-> good]

\* A manifest: the contents it lists.
Manifests == [warm : SUBSET Seq(Lines), out : SUBSET Seq(Lines), log : SUBSET Seq(Nat)]

Nothing == [warm |-> {}, out |-> {}, log |-> {}]

Init ==
    /\ pair \in Pairs
    /\ ray = [j \in Jobs |-> "unsubmitted"] /\ at = [j \in Jobs |-> "unlink"]
    /\ written = [j \in Jobs |-> 0] /\ stopping = {} /\ early = [j \in Jobs |-> {}]
    /\ out = NoFile /\ warm = NoFile /\ log = NoFile
    /\ watch = "off" /\ deaths = 0 /\ manifest = Nothing /\ marker = "none"
    /\ freezer = "off" /\ polls = 0 /\ sums = Nothing
    /\ misled = {}

-----------------------------------------------------------------------------
\* A submit script looks for the two files, and submits later.  A job on the
\* default files is submitted by hand, without a look.

\* Mutant of NoEvidence: only the rows are looked for.
LooksForRowsOnly == out = NoFile

NoEvidence == out = NoFile /\ warm = NoFile

Passes == pair = "default" \/ NoEvidence

Check(j) ==
    /\ ray[j] = "unsubmitted"
    /\ ray' = [ray EXCEPT ![j] = IF Passes THEN "checked" ELSE "refused"]
    /\ early' = [early EXCEPT ![j] =
                     IF pair = "own" THEN {k \in Jobs : at[k] # "rows"} ELSE Jobs]
    /\ UNCHANGED <<at, written, stopping, files, log, watchVars, freezeVars, misled>>

Submit(j) ==
    /\ ray[j] = "checked"
    /\ ray' = [ray EXCEPT ![j] = "PENDING"]
    /\ UNCHANGED <<at, written, stopping, early, files, log, watchVars, freezeVars, misled>>

-----------------------------------------------------------------------------
\* The job

\* The rows of a former job are removed without a look; its warm-up line stays.
Unlink(j) ==
    /\ ray[j] = "PENDING"
    /\ ray' = [ray EXCEPT ![j] = "RUNNING"]
    /\ at' = [at EXCEPT ![j] = "warmup"]
    /\ out' = NoFile
    /\ UNCHANGED <<written, stopping, early, warm, log, watchVars, freezeVars, misled>>

\* A warm-up that fails ends the job.
Warmup(j) ==
    /\ ray[j] = "RUNNING" /\ at[j] = "warmup"
    /\ \E passed \in BOOLEAN :
          /\ passed \/ j \in Mortal
          /\ warm' = Append(warm, Line(j, passed))
          /\ at' = [at EXCEPT ![j] = "rows"]
          /\ ray' = IF passed THEN ray ELSE [ray EXCEPT ![j] = "FINISHED"]
    /\ UNCHANGED <<written, stopping, early, out, log, watchVars, freezeVars, misled>>

AppendRow(j) ==
    /\ ray[j] = "RUNNING" /\ at[j] = "rows" /\ written[j] < Variants
    /\ out' = Append(out, Line(j, TRUE))
    /\ written' = [written EXCEPT ![j] = @ + 1]
    /\ UNCHANGED <<ray, at, stopping, early, warm, log, watchVars, freezeVars, misled>>

\* Successful or not: the exit code tells whether every row was.
Exit(j) ==
    /\ ray[j] = "RUNNING" /\ written[j] = Variants
    /\ ray' = [ray EXCEPT ![j] = "FINISHED"]
    /\ UNCHANGED <<at, written, stopping, early, files, log, watchVars, freezeVars, misled>>

\* The last line may be left half written.
Torn(j) ==
    \/ UNCHANGED files
    \/ at[j] = "warmup" /\ warm' = Append(warm, Line(j, FALSE)) /\ UNCHANGED out
    \/ /\ at[j] = "rows" /\ written[j] < Variants
       /\ out' = Append(out, Line(j, FALSE)) /\ UNCHANGED warm

\* A proposal raises, or the node is lost.
Dies(j) ==
    /\ ray[j] = "RUNNING" /\ j \in Mortal
    /\ ray' = [ray EXCEPT ![j] = "FINISHED"]
    /\ Torn(j)
    /\ UNCHANGED <<at, written, stopping, early, log, watchVars, freezeVars, misled>>

\* Ray carries out a stop it accepted, unless the job ended before.
Stopped(j) ==
    /\ j \in stopping /\ ray[j] \in {"PENDING", "RUNNING"}
    /\ ray' = [ray EXCEPT ![j] = "STOPPED"]
    /\ Torn(j)
    /\ UNCHANGED <<at, written, stopping, early, log, watchVars, freezeVars, misled>>

Job(j) == \/ Check(j) \/ Submit(j) \/ Unlink(j) \/ Warmup(j) \/ AppendRow(j)
          \/ Exit(j) \/ Dies(j) \/ Stopped(j)

-----------------------------------------------------------------------------
\* Both evidence scripts ask for the state and the log of a job by the Ray CLI.
\* The text of a failed call may hold no state, or the word "failed".

Says == {ray[Watched], "none", "FINISHED"}

Faults == deaths + Cardinality(misled)

Misreads(script, said) ==
    /\ misled' = IF said \in Terminal /\ ~Ended(Watched) THEN misled \cup {script} ELSE misled
    /\ misled' = misled \/ Faults < MaxFaults

\* ray job logs: each call may print another text, of a part of the log or of an
\* error, so each of them is named by its own call.
SaveLog(call) == log' = <<call>>

\* A file that is not there is not listed.
Listed(content) == IF content = NoFile THEN {} ELSE {content}

-----------------------------------------------------------------------------
\* watch_ray_job_evidence.sh; a poll that finds no terminal state is a stutter.

\* Mutant of EndsWatch: a stopped job is waited for.
ForgetsStopped(said) == said = "FINISHED"

\* Mutant of EndsWatch: what is not running has ended.
TakesUnknownForEnded(said) == said \notin {"PENDING", "RUNNING"}

EndsWatch(said) == said \in Terminal

\* Started by hand, for the first time or after a watcher was killed: no script
\* starts it again.
StartWatch ==
    /\ watch \in {"off", "dead"} /\ ray[Watched] \in Known
    /\ watch' = "poll"
    /\ UNCHANGED <<jobVars, files, log, deaths, manifest, marker, freezeVars, misled>>

WatchPoll(said) ==
    /\ watch = "poll"
    /\ EndsWatch(said) /\ Misreads("watch", said)
    /\ watch' = "log"
    /\ UNCHANGED <<jobVars, files, log, deaths, manifest, marker, freezeVars>>

\* Mutant of Truncated: the manifest of a watcher that was killed is continued.
KeepsEntries == manifest

Truncated == Nothing

WatchLog ==
    /\ watch = "log" /\ watch' = "warm"
    /\ SaveLog(deaths)
    /\ manifest' = Truncated
    /\ UNCHANGED <<jobVars, files, deaths, marker, freezeVars, misled>>

HashWarm ==
    /\ watch = "warm" /\ watch' = "out"
    /\ manifest' = [manifest EXCEPT !.warm = @ \cup Listed(warm)]
    /\ UNCHANGED <<jobVars, files, log, deaths, marker, freezeVars, misled>>

HashOut ==
    /\ watch = "out" /\ watch' = "sum"
    /\ manifest' = [manifest EXCEPT !.out = @ \cup Listed(out)]
    /\ UNCHANGED <<jobVars, files, log, deaths, marker, freezeVars, misled>>

HashLog ==
    /\ watch = "sum" /\ watch' = "mark"
    /\ manifest' = [manifest EXCEPT !.log = @ \cup Listed(log)]
    /\ UNCHANGED <<jobVars, files, log, deaths, marker, freezeVars, misled>>

\* The redirection truncates the marker before its four lines are written.
OpenMarker ==
    /\ watch = "mark" /\ watch' = "marking"
    /\ marker' = "partial"
    /\ UNCHANGED <<jobVars, files, log, deaths, manifest, freezeVars, misled>>

Mark ==
    /\ watch = "marking" /\ watch' = "done"
    /\ marker' = "whole"
    /\ UNCHANGED <<jobVars, files, log, deaths, manifest, freezeVars, misled>>

Freeze == WatchLog \/ HashWarm \/ HashOut \/ HashLog \/ OpenMarker \/ Mark

WatchStep == Freeze \/ \E said \in Says : WatchPoll(said)

\* The watcher is killed, with its host or its session, and stays dead unless
\* someone starts it again.
WatchDies ==
    /\ watch \notin {"off", "dead", "done"} /\ Faults < MaxFaults
    /\ watch' = "dead" /\ deaths' = deaths + 1
    /\ UNCHANGED <<jobVars, files, log, manifest, marker, freezeVars, misled>>

-----------------------------------------------------------------------------
\* stop_and_freeze_ray_job.sh

Status ==
    /\ freezer = "off" /\ ray[Watched] \in Known
    /\ \E said \in Says :
          /\ Misreads("freezer", said)
          /\ freezer' = CASE said \in {"PENDING", "RUNNING"} -> "stop"
                          [] said \in Terminal -> "poll"
                          [] said = "none" -> "gave_up"
    /\ UNCHANGED <<jobVars, files, log, watchVars, polls, sums>>

\* ray job stop is accepted, or fails and ends the script.
Stop ==
    /\ freezer = "stop"
    /\ \/ freezer' = "poll" /\ stopping' = stopping \cup {Watched}
       \/ freezer' = "gave_up" /\ UNCHANGED stopping
    /\ UNCHANGED <<ray, at, written, early, files, log, watchVars, polls, sums, misled>>

\* Mutant of GoesOn: a stop that was accepted is not waited for.
GoesOnAtOnce(said) == TRUE

GoesOn(said) == said \in Terminal \/ polls + 1 = MaxPolls

FreezePoll ==
    /\ freezer = "poll"
    /\ polls' = polls + 1
    /\ \E said \in Says :
          /\ Misreads("freezer", said)
          /\ freezer' = IF GoesOn(said) THEN "log" ELSE "poll"
    /\ UNCHANGED <<jobVars, files, log, watchVars, sums>>

FreezeLog ==
    /\ freezer = "log" /\ freezer' = "copy_warm"
    /\ SaveLog(MaxFaults + 1)
    /\ UNCHANGED <<jobVars, files, watchVars, polls, sums, misled>>

\* stop_and_freeze copies the default files, whatever the job writes.  A copy
\* stays as it is: its hash is that of the file at this moment.
Copied(content) == IF pair = "default" THEN Listed(content) ELSE {}

CopyWarm ==
    /\ freezer = "copy_warm" /\ freezer' = "copy_out"
    /\ sums' = [sums EXCEPT !.warm = Copied(warm)]
    /\ UNCHANGED <<jobVars, files, log, watchVars, polls, misled>>

CopyOutAndHash ==
    /\ freezer = "copy_out" /\ freezer' = "done"
    /\ sums' = [sums EXCEPT !.out = Copied(out), !.log = Listed(log)]
    /\ UNCHANGED <<jobVars, files, log, watchVars, polls, misled>>

FreezeStep == Stop \/ FreezePoll \/ FreezeLog \/ CopyWarm \/ CopyOutAndHash

-----------------------------------------------------------------------------
Next == /\ \/ \E j \in Jobs : Job(j)
           \/ StartWatch \/ WatchStep \/ WatchDies
           \/ Status \/ FreezeStep
        /\ UNCHANGED pair

Spec == Init /\ [][Next]_vars

\* The watcher is scheduled, and Ray answers sooner or later: a poll that fails
\* is a poll that is not taken.
Answered == Freeze \/ WatchPoll(ray[Watched])

FairSpec == Spec /\ WF_vars(Answered /\ UNCHANGED pair)

-----------------------------------------------------------------------------
\* Type invariant of the module.
TypeOK ==
    /\ pair \in Pairs
    /\ ray \in [Jobs -> Known \cup {"unsubmitted", "checked", "refused"}]
    /\ at \in [Jobs -> {"unlink", "warmup", "rows"}]
    /\ written \in [Jobs -> 0..Variants]
    /\ stopping \subseteq Jobs /\ early \in [Jobs -> SUBSET Jobs]
    /\ out \in Seq(Lines) /\ warm \in Seq(Lines) /\ log \in Seq(Nat)
    /\ manifest \in Manifests /\ sums \in Manifests
    /\ watch \in {"off", "poll", "log", "warm", "out", "sum", "mark", "marking",
                 "done", "dead"}
    /\ deaths \in 0..MaxFaults /\ marker \in {"none", "partial", "whole"}
    /\ freezer \in {"off", "stop", "poll", "log", "copy_warm", "copy_out", "done", "gave_up"}
    /\ polls \in 0..MaxPolls /\ (freezer \in {"off", "stop", "poll"} => polls < MaxPolls)
    /\ misled \subseteq {"watch", "freezer"}

\* Neither script freezes a job that may still write, except that an error text
\* of the Ray CLI read like a failure, or that the job outlived every poll of
\* stop_and_freeze (watch_ray_job_evidence.sh:25-38, stop_and_freeze:26-56).
FrozenWhenOver ==
    Ended(Watched) \/
        /\ watch \notin {"off", "poll", "dead"} => "watch" \in misled
        /\ freezer \in {"log", "copy_warm", "copy_out", "done"} =>
              "freezer" \in misled \/ polls = MaxPolls

\* The only job that has touched the files.
Alone == \A j \in Jobs \ {Watched} : at[j] = "unlink"

\* What a finished script vouches for is what the job left: every file that is
\* there, once, with its present content, also when a watcher was killed halfway,
\* in its marker too, and another one was started
\* (watch_ray_job_evidence.sh:39-51, stop_and_freeze:62-86).  Both scripts save
\* the log of the job under one name, so its hash holds until the other one does.
ManifestsVouch ==
    /\ marker = "whole" /\ "watch" \notin misled /\ Alone =>
          /\ manifest.warm = Listed(warm) /\ manifest.out = Listed(out)
          /\ freezer \in {"off", "stop", "poll", "log", "gave_up"} => manifest.log = {log}
    /\ freezer = "done" /\ "freezer" \notin misled /\ polls < MaxPolls /\ Alone =>
          /\ pair = "default" => sums.warm = Listed(warm) /\ sums.out = Listed(out)
          /\ watch \in {"off", "poll", "log"} /\ deaths = 0 => sums.log = {log}

\* The files a submit script guards lose rows in one case only: a job removes
\* rows of a job that had passed no warm-up yet when it was submitted itself.  The
\* rows of all others are protected by the warm-up line, which no job removes, also
\* when an overlapping job took the rows away that the submit script looks for, and
\* when a job was stopped or died before its first row
\* (submit_hardware_pilot_gemini38.sh:20-25, run_real_hardware_pilot.py:34-35).
OnlyOverlapsLoseRows ==
    [][\A j \in Jobs : ray[j] = "PENDING" /\ ray'[j] = "RUNNING" =>
          \A i \in DOMAIN out : out[i].job \in early[j]]_vars

\* A watcher that is not killed writes the marker of a job that ended, however
\* often the status call failed, whatever a killed watcher left behind, and
\* though the marker may be there in part (watch_ray_job_evidence.sh:24-59).
TerminalIsMarked ==
    watch \notin {"off", "dead"} /\ Ended(Watched) ~> marker = "whole" \/ watch = "dead"
=============================================================================
