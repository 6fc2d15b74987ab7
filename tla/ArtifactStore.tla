--------------------------- MODULE ArtifactStore ---------------------------
(***************************************************************************)
(* The write-once, hash-indexed artifact store of one run directory        *)
(* (src/chia_work/council/artifacts.py), and how grounding classifies an   *)
(* artifact (runtime_grounding.py, _artifact_state).  write_json and       *)
(* write_text are the same protocol: check that the path is free, open it  *)
(* for writing (which creates it empty), fill it, append its reference to  *)
(* the index.  The writer may raise or be killed between any two of these  *)
(* steps, and in the middle of the append.  A directory has one writer at  *)
(* a time; the module that EXTENDS this one says what it writes.  The      *)
(* digest of a content is the content itself.                              *)
(***************************************************************************)
EXTENDS Naturals, Sequences

CONSTANTS
    Partial,    \* the content of a file that is not completely written
    Torn        \* an index line that is not one JSON object

\* What an artifact is: the files of the hierarchy of a run directory.
Kinds == {"mission", "cycle", "direction", "decision", "role", "agent", "task",
          "result", "analysis", "evidence", "l3_manifest",
          "report", "summary", "evidence_refs", "l2_manifest",
          "state", "task_graph", "open_questions", "active_vetoes", "cycle_summary",
          "l1_manifest"}

\* A path: what the artifact is, and the numbers of what it belongs to.
Names == Kinds \X Seq(Nat)

\* A reference, one line of the index.
References == [path : Names, digest : Nat, lineage : SUBSET Names]

ASSUME StoreAssumption == Partial \notin Nat /\ Torn \notin References

VARIABLES
    file,      \* content of each file: its domain is the paths that exist
    index,     \* lines of ledger/artifact-index.jsonl, oldest first
    unended,   \* the last of them has no newline
    step,      \* where the write in progress is
    job        \* the reference it will index: path, content, lineage

storeVars == <<file, index, unended, step, job>>

NoJob == [path |-> << >>, digest |-> Partial, lineage |-> {}]

StoreInit ==
    /\ file = << >>
    /\ index = << >>
    /\ unended = FALSE
    /\ step = "idle"
    /\ job = NoJob

Exists(p) == p \in DOMAIN file

Matching(p) == {i \in DOMAIN index : index[i] # Torn /\ index[i].path = p}

\* Mutant of AllRefsReads: lines that do not parse are skipped.
SkipsTornLines == TRUE

\* all_refs parses every line: one that is torn makes it raise.
AllRefsReads == \A i \in DOMAIN index : index[i] # Torn

\* Mutants of Free: no exists() check; the index is asked.
AlwaysFree(p) == TRUE
FreeIfUnindexed(p) == Matching(p) = {}

Free(p) == ~Exists(p)

\* _write_once finds the path free; it raises, changing nothing, when it is not.
Begin(ref) ==
    /\ step = "idle" /\ Free(ref.path)
    /\ step' = "free" /\ job' = ref
    /\ UNCHANGED <<file, index, unended>>

Fills(p, content) ==
    file' = [q \in DOMAIN file \cup {p} |-> IF q = p THEN content ELSE file[q]]

\* write_bytes, first half: the file is created or truncated.
Open ==
    /\ step = "free"
    /\ Fills(job.path, Partial)
    /\ step' = "open"
    /\ UNCHANGED <<index, unended, job>>

Fill ==
    /\ step = "open"
    /\ Fills(job.path, job.digest)
    /\ step' = "filled"
    /\ UNCHANGED <<index, unended, job>>

\* Text appended after a line without a newline spoils that line, and is lost in it.
Appended(line) ==
    IF unended THEN [index EXCEPT ![Len(index)] = Torn] ELSE Append(index, line)

\* Mutant of Index: the reference is indexed while the file is being written.
IndexesEarly ==
    /\ step \in {"open", "filled"}
    /\ index' = Appended(job) /\ unended' = FALSE
    /\ step' = "idle"
    /\ UNCHANGED <<file, job>>

\* _index
Index ==
    /\ step = "filled"
    /\ index' = Appended(job) /\ unended' = FALSE
    /\ step' = "idle"
    /\ UNCHANGED <<file, job>>

\* The write ends early; nothing of it is undone.
Interrupted ==
    /\ step # "idle"
    /\ step' = "idle"
    /\ UNCHANGED <<file, index, unended, job>>

\* The append ends early: a part of the line, or all of it but the newline.
IndexTorn ==
    /\ step = "filled"
    /\ \E line \in {Torn, job} : index' = Appended(line)
    /\ unended' = TRUE
    /\ step' = "idle"
    /\ UNCHANGED <<file, job>>
-----------------------------------------------------------------------------
\* _artifact_state, for a path of the current cycle.
ArtifactState(p) ==
    IF Matching(p) = {} THEN IF Exists(p) THEN "UNINDEXED" ELSE "ABSENT"
    ELSE IF \E i, j \in Matching(p) : i # j THEN "AMBIGUOUS_INDEX"
    ELSE IF \E i \in Matching(p) : Exists(p) /\ file[p] = index[i].digest THEN "PRESENT"
    ELSE "UNVERIFIED"
=============================================================================
