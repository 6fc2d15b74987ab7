------------------------------ MODULE Lifecycle ------------------------------
(***************************************************************************)
(* ExecutionLifecycle (src/chia_work/observability.py): the hash-chained   *)
(* event stream of one run, shared through a file by the gate runner and   *)
(* its child process.  A step is what one process does between two points  *)
(* where another may interleave: a verified load, taking the flock, one    *)
(* os.write, one artifact write.  Calls that change nothing (events(),     *)
(* counters(), a terminal() that finds a terminal, a memoised persist())   *)
(* have no action.                                                         *)
(*                                                                         *)
(* A stored line is a record: its type, its sequence number, the digest it *)
(* carries for the previous line (0 for the first) and its own digest.     *)
(* Digests are drawn from a clock, because the hashed text holds a         *)
(* microsecond timestamp: two computed events never have the same digest.  *)
(***************************************************************************)
EXTENDS LifecycleEvents

CONSTANTS
    Procs,        \* processes that opened the stream
    NoProc,       \* the flock is free
    Keeper,       \* the process that owns the artifact store and may persist
    Jobs,         \* event types a process may append directly
    ShortWrites,  \* how a short os.write may end (see WriteShort)
    MaxCalls,     \* bound: API calls started in one behaviour
    MaxFaults     \* bound: storage faults and killed processes

ASSUME LifecycleAssumption ==
    /\ NoProc \notin Procs
    /\ Keeper \in Procs
    /\ "run_started" \in Jobs
    /\ Jobs \subseteq EventTypes \ {"terminal"}
    /\ ShortWrites \subseteq {"torn", "open"}
    /\ MaxCalls \in Nat /\ MaxFaults \in Nat

VARIABLES
    stream,  \* the readable lines of the stream file, oldest first
    tail,    \* how the file ends: "clean", "open" (the last line has no
             \* newline yet) or "torn" (followed by a fragment of a line)
    clock,   \* digests handed out so far
    lock,    \* holder of the flock on the .lock file, or NoProc
    pc,      \* where each process is inside a call
    job,     \* the event type a process is appending
    ev,      \* the event a process computed and is about to write
    seen,    \* the counters a process read for its terminal event
    ret,     \* where append() returns to: "idle", or "reload" in persist()
    sealed,  \* the counters embedded in the recorded terminal event
    memo,    \* _persisted_refs is set: persist() completed in this process
    snap,    \* the persisted artifacts
    index,   \* how the artifact index of the store ends: "clean", "unended"
             \* (its last line has no newline yet) or "torn" (it holds a line
             \* that does not parse)
    late,    \* ghost: the running persist() began after the terminal event
    acked,   \* ghost: digests of the appends that returned normally
    calls, faults

log == <<stream, tail, clock, sealed, acked>>
persisted == <<memo, snap, index, late>>
vars == <<log, persisted, lock, pc, job, ev, seen, ret, calls, faults>>

-----------------------------------------------------------------------------
Event == [type : EventTypes, seq : Nat, prev : Nat, dig : Nat]

NoEvent == [type |-> "run_started", seq |-> 0, prev |-> 0, dig |-> 0]

Artifacts == {"events", "counters", "interventions", "terminal"}

\* Where a process can be: outside a call, inside append(), terminal() or
\* persist(), or about to write one of the artifacts of persist().
Places == {"idle", "waiting", "locked", "writing", "counting", "reload"} \cup Artifacts

\* What persist() has left in the store: the paths that exist, the artifacts
\* that are complete, and what the first two of them say.
Snapshots == [taken : SUBSET Artifacts, parts : SUBSET Artifacts,
              events : Seq(EventTypes), torn : BOOLEAN,
              counters : [CountedTypes -> Nat]]

NoCounters == [t \in CountedTypes |-> 0]

Types(s) == [i \in DOMAIN s |-> s[i].type]

LastDigest(s) == IF s = << >> THEN 0 ELSE s[Len(s)].dig

\* What _load_verified demands of the readable lines.
Verified(s) ==
    \A i \in DOMAIN s : /\ s[i].seq = i
                        /\ s[i].prev = IF i = 1 THEN 0 ELSE s[i - 1].dig
                        /\ i < Len(s) => s[i].type # "terminal"

SkipsDamage == ~Verified(stream)   \* mutant: a reader skips what does not parse

\* _load_verified raises LifecycleIntegrityError.
Unreadable == tail = "torn" \/ ~Verified(stream)

Sealed == HasTerminal(Types(stream))

Init ==
    /\ stream = << >> /\ tail = "clean" /\ clock = 0
    /\ lock = NoProc
    /\ pc = [p \in Procs |-> "idle"]
    /\ job = [p \in Procs |-> "run_started"]
    /\ ev = [p \in Procs |-> NoEvent]
    /\ seen = [p \in Procs |-> NoCounters]
    /\ ret = [p \in Procs |-> "idle"]
    /\ sealed = NoCounters
    /\ memo = FALSE /\ late = FALSE
    /\ snap = [taken |-> {}, parts |-> {}, events |-> << >>, torn |-> FALSE,
               counters |-> NoCounters]
    /\ index = "clean"
    /\ acked = {}
    /\ calls = 0 /\ faults = 0

-----------------------------------------------------------------------------
\* Helpers for the control flow of one process.

Go(p, to) == pc' = [pc EXCEPT ![p] = to]

Starts(p) == pc[p] = "idle" /\ calls < MaxCalls /\ calls' = calls + 1

Fault == faults < MaxFaults /\ faults' = faults + 1

KeepsLock(p) == lock' = lock   \* mutant of Unlock: the error path leaks it

\* Leaving the `with` block of append(), normally or by an exception, closes
\* the lock file, which drops the flock.
Unlock(p) == lock' = NoProc

\* append() raises: persist() propagates it, so the whole call is over.
Raise(p) == Go(p, "idle") /\ UNCHANGED ret
-----------------------------------------------------------------------------
\* append(event_type)

CallAppend(p, type) ==
    /\ Starts(p)
    /\ Go(p, "waiting")
    /\ job' = [job EXCEPT ![p] = type]
    /\ ret' = [ret EXCEPT ![p] = "idle"]
    /\ UNCHANGED <<log, persisted, lock, ev, seen, faults>>

NoFlock == TRUE   \* mutant of FlockFree: append without LOCK_EX

FlockFree == lock = NoProc

Acquire(p) ==
    /\ pc[p] = "waiting"
    /\ FlockFree
    /\ lock' = p
    /\ Go(p, "locked")
    /\ UNCHANGED <<log, persisted, job, ev, seen, ret, calls, faults>>

RefusesOnlyDamaged == Unreadable   \* mutant: the terminal check is dropped

\* The check under the lock that keeps the stream closed.
RefusesAppend == Unreadable \/ Sealed

Refuse(p) ==
    /\ pc[p] = "locked"
    /\ RefusesAppend
    /\ Unlock(p)
    /\ Raise(p)
    /\ UNCHANGED <<log, persisted, job, ev, seen, calls, faults>>

Compute(p) ==
    /\ pc[p] = "locked"
    /\ ~RefusesAppend
    /\ clock' = clock + 1
    /\ ev' = [ev EXCEPT ![p] =
                [type |-> job[p], seq |-> Len(stream) + 1,
                 prev |-> LastDigest(stream), dig |-> clock + 1]]
    /\ Go(p, "writing")
    /\ UNCHANGED <<stream, tail, sealed, acked, persisted, lock, job, seen, ret,
                   calls, faults>>

\* The event becomes the last readable line; a terminal one seals the stream.
Records(p) ==
    /\ stream' = Append(stream, ev[p])
    /\ sealed' = IF job[p] = "terminal" THEN seen[p] ELSE sealed

\* If the last line is "open", the bytes written next share it, and it no
\* longer parses: the line that was there is lost to readers as well.
SpoilsLastLine ==
    /\ stream' = SubSeq(stream, 1, Len(stream) - 1)
    /\ tail' = "torn"
    /\ UNCHANGED sealed

\* Mutant of Lands: the stream is opened without O_APPEND and rewritten.
Truncates(p) ==
    /\ stream' = << ev[p] >>
    /\ tail' = "clean"
    /\ sealed' = IF job[p] = "terminal" THEN seen[p] ELSE sealed

\* The bytes of a complete line reach the file.
Lands(p) ==
    IF tail = "open" THEN SpoilsLastLine
    ELSE Records(p) /\ tail' = "clean"

Write(p) ==
    /\ pc[p] = "writing"
    /\ Lands(p)
    /\ acked' = acked \cup {ev[p].dig}
    /\ Unlock(p)
    /\ Go(p, ret[p])
    /\ UNCHANGED <<clock, persisted, job, ev, seen, ret, calls, faults>>

\* fsync raises after the whole line was written.
WriteUnsynced(p) ==
    /\ pc[p] = "writing"
    /\ Fault
    /\ Lands(p)
    /\ Unlock(p)
    /\ Raise(p)
    /\ UNCHANGED <<clock, acked, persisted, job, ev, seen, calls>>

\* os.write raises (no space, I/O error) and nothing is written.
WriteNothing(p) ==
    /\ pc[p] = "writing"
    /\ Fault
    /\ Unlock(p)
    /\ Raise(p)
    /\ UNCHANGED <<log, persisted, job, ev, seen, calls>>

\* os.write returns less than it was given.  append() raises OSError and
\* leaves the bytes in the file: a fragment ("torn"), or everything but the
\* newline ("open"), which still parses.
WriteShort(p) ==
    /\ pc[p] = "writing"
    /\ Fault
    /\ \E end \in ShortWrites :
          \/ tail = "open" /\ SpoilsLastLine
          \/ tail # "open" /\ end = "torn" /\ tail' = end /\ UNCHANGED <<stream, sealed>>
          \/ tail # "open" /\ end = "open" /\ tail' = end /\ Records(p)
    /\ Unlock(p)
    /\ Raise(p)
    /\ UNCHANGED <<clock, acked, persisted, job, ev, seen, calls>>
-----------------------------------------------------------------------------
\* terminal(): two loads outside the lock, then an append.

CallTerminal(p) ==
    /\ Starts(p)
    /\ ~Unreadable /\ ~Sealed
    /\ Go(p, "counting")
    /\ ret' = [ret EXCEPT ![p] = "idle"]
    /\ UNCHANGED <<log, persisted, lock, job, ev, seen, faults>>

\* Mutant of Derived: an event is counted when its request is, not when it is
\* in the stream.
Anticipated(s) == [t \in CountedTypes |-> Count(Types(s), t)
                     + (IF s # << >> /\ t = "execution_boundary_entered" THEN 1 ELSE 0)]

\* counters() for the terminal event.
Derived(s) == Counters(Types(s))

CountForTerminal(p) ==
    /\ pc[p] = "counting"
    /\ IF Unreadable
       THEN Raise(p) /\ UNCHANGED <<job, seen>>
       ELSE /\ seen' = [seen EXCEPT ![p] = Derived(stream)]
            /\ job' = [job EXCEPT ![p] = "terminal"]
            /\ Go(p, "waiting")
            /\ UNCHANGED ret
    /\ UNCHANGED <<log, persisted, lock, ev, calls, faults>>
-----------------------------------------------------------------------------
\* persist(store): four write-once artifacts, each from a read of its own.

CallPersist(p) ==
    /\ p = Keeper /\ ~memo
    /\ Starts(p)
    /\ ~Unreadable
    /\ late' = Sealed
    /\ IF stream = << >>
       THEN /\ job' = [job EXCEPT ![p] = "run_started"]
            /\ ret' = [ret EXCEPT ![p] = "reload"]
            /\ Go(p, "waiting")
       ELSE Go(p, "events") /\ UNCHANGED <<job, ret>>
    /\ UNCHANGED <<log, memo, snap, index, lock, ev, seen, faults>>

\* events() again, after the run_started that persist() had to append.
Reload(p) ==
    /\ pc[p] = "reload"
    /\ IF Unreadable THEN Raise(p) ELSE Go(p, "events") /\ UNCHANGED ret
    /\ UNCHANGED <<log, persisted, lock, job, ev, seen, calls, faults>>

\* The store refuses a path that already exists.
Taken(part) == part \in snap.taken

\* One more line in the artifact index; it shares the last one if that has no
\* newline, and then neither parses.
Indexed == IF index = "clean" THEN "clean" ELSE "torn"

\* What the index may be after a line was cut off.
Cut == IF index = "clean" THEN {"unended", "torn"} ELSE {"torn"}

\* The snapshot with one more complete artifact.
With(part) == [snap EXCEPT !.taken = @ \cup {part}, !.parts = @ \cup {part}]

\* Mutant of PersistEvents: an artifact of an earlier attempt is reused.
ReuseEvents(p) ==
    /\ pc[p] = "events"
    /\ IF Taken("events") THEN UNCHANGED <<snap, index>>
       ELSE /\ snap' = [With("events") EXCEPT !.events = Types(stream),
                                              !.torn = (tail = "torn")]
            /\ index' = Indexed
    /\ Go(p, "counters") /\ UNCHANGED ret
    /\ UNCHANGED <<log, memo, late, lock, job, ev, seen, calls, faults>>

\* events.jsonl is the raw text: it is not verified again when it is copied.
PersistEvents(p) ==
    /\ pc[p] = "events"
    /\ IF Taken("events")
       THEN Raise(p) /\ UNCHANGED <<snap, index>>
       ELSE /\ snap' = [With("events") EXCEPT !.events = Types(stream),
                                              !.torn = (tail = "torn")]
            /\ index' = Indexed
            /\ Go(p, "counters") /\ UNCHANGED ret
    /\ UNCHANGED <<log, memo, late, lock, job, ev, seen, calls, faults>>

PersistCounters(p) ==
    /\ pc[p] = "counters"
    /\ IF Unreadable \/ Taken("counters")
       THEN Raise(p) /\ UNCHANGED <<snap, index>>
       ELSE /\ snap' = [With("counters") EXCEPT !.counters = Counters(Types(stream))]
            /\ index' = Indexed
            /\ Go(p, "interventions") /\ UNCHANGED ret
    /\ UNCHANGED <<log, memo, late, lock, job, ev, seen, calls, faults>>

PersistInterventions(p) ==
    /\ pc[p] = "interventions"
    /\ IF Taken("interventions")
       THEN Raise(p) /\ UNCHANGED <<snap, index>>
       ELSE /\ snap' = With("interventions")
            /\ index' = Indexed
            /\ Go(p, "terminal") /\ UNCHANGED ret
    /\ UNCHANGED <<log, memo, late, lock, job, ev, seen, calls, faults>>

PersistTerminal(p) ==
    /\ pc[p] = "terminal"
    /\ IF Unreadable \/ (Sealed /\ Taken("terminal"))
       THEN UNCHANGED <<snap, index, memo>>
       ELSE /\ IF Sealed THEN snap' = With("terminal") /\ index' = Indexed
                         ELSE UNCHANGED <<snap, index>>
            /\ memo' = TRUE
    /\ Go(p, "idle")
    /\ UNCHANGED <<log, late, lock, job, ev, seen, ret, calls, faults>>

\* persist() gets as far as creating this artifact.
Creates(part) ==
    /\ ~Taken(part)
    /\ part \in {"counters", "terminal"} => ~Unreadable
    /\ part = "terminal" => Sealed

\* An artifact write that does not complete leaves nothing, or the path, with all
\* of its bytes or a part of them, and then perhaps a part of its index line.
LeavesBehind(part) ==
    \/ UNCHANGED <<snap, index>>
    \/ /\ Creates(part)
       /\ snap' = [snap EXCEPT !.taken = @ \cup {part}]
       /\ index' \in {index} \cup Cut

\* The store raises in the middle of persist(): what was written stays.
StoreFails(p) ==
    /\ pc[p] \in Artifacts
    /\ Fault
    /\ LeavesBehind(pc[p])
    /\ Raise(p)
    /\ UNCHANGED <<log, memo, late, lock, job, ev, seen, calls>>

\* A process is killed: the kernel drops its flock, its memo is gone.
Killed(p) ==
    /\ pc[p] # "idle"
    /\ Fault
    /\ lock' = IF lock = p THEN NoProc ELSE lock
    /\ IF pc[p] \in Artifacts THEN LeavesBehind(pc[p]) ELSE UNCHANGED <<snap, index>>
    /\ Raise(p)
    /\ memo' = (memo /\ p # Keeper)
    /\ UNCHANGED <<log, late, job, ev, seen, calls>>

\* The keeper stores something else between its calls, in the same index.
OtherArtifact(p) ==
    /\ p = Keeper /\ pc[p] = "idle"
    /\ index' = Indexed
    /\ UNCHANGED <<log, memo, snap, late, lock, pc, job, ev, seen, ret, calls, faults>>

\* Such a write raises, or its process is killed, with the index line half written.
OtherArtifactCut(p) ==
    /\ p = Keeper /\ pc[p] = "idle"
    /\ Fault
    /\ index' \in Cut
    /\ memo' \in {memo, FALSE}
    /\ UNCHANGED <<log, snap, late, lock, pc, job, ev, seen, ret, calls>>
-----------------------------------------------------------------------------
\* What a process does by itself once it is inside a call.
Step(p) ==
    \/ Acquire(p) \/ Refuse(p) \/ Compute(p) \/ Write(p)
    \/ CountForTerminal(p)
    \/ Reload(p) \/ PersistEvents(p) \/ PersistCounters(p)
    \/ PersistInterventions(p) \/ PersistTerminal(p)

Calls(p) == (\E type \in Jobs : CallAppend(p, type)) \/ CallTerminal(p) \/ CallPersist(p)

Faults(p) == WriteUnsynced(p) \/ WriteNothing(p) \/ WriteShort(p)
             \/ StoreFails(p) \/ Killed(p)

\* What else changes the index that persist() appends to.
Others(p) == OtherArtifact(p) \/ OtherArtifactCut(p)

Next == \E p \in Procs : Step(p) \/ Calls(p) \/ Faults(p) \/ Others(p)

Spec == Init /\ [][Next]_vars

\* A process that is scheduled makes progress; callers and faults owe nothing.
FairSpec == Spec /\ \A p \in Procs : WF_vars(Step(p))
-----------------------------------------------------------------------------
\* Type invariant of the module.
TypeOK ==
    /\ stream \in Seq(Event) /\ tail \in {"clean", "open", "torn"} /\ clock \in Nat
    /\ lock \in Procs \cup {NoProc}
    /\ pc \in [Procs -> Places]
    /\ job \in [Procs -> Jobs \cup {"terminal"}]
    /\ ev \in [Procs -> Event]
    /\ seen \in [Procs -> [CountedTypes -> Nat]]
    /\ ret \in [Procs -> {"idle", "reload"}]
    /\ sealed \in [CountedTypes -> Nat]
    /\ memo \in BOOLEAN /\ late \in BOOLEAN
    /\ snap \in Snapshots /\ index \in {"clean", "unended", "torn"}
    /\ acked \subseteq Nat
    /\ calls \in Nat /\ faults \in Nat

\* However the appends of several processes interleave, fail or are killed,
\* the readable lines form one unbroken hash chain with consecutive sequence
\* numbers and nothing after a terminal event: _load_verified raises only for
\* bytes a failed write left behind, never for what append() itself did.
ChainUnbroken == Verified(stream)

\* Exactly the process that is past flock() holds the lock.
HolderIsInside == \A p \in Procs : pc[p] \in {"locked", "writing"} <=> lock = p

\* An event that is about to be written still continues the stream it was
\* computed from, and that stream is neither damaged nor sealed.
WriterCurrent ==
    \A p \in Procs : pc[p] = "writing" =>
        /\ ev[p].seq = Len(stream) + 1 /\ ev[p].prev = LastDigest(stream)
        /\ ev[p].type = job[p]
        /\ ~Sealed /\ tail # "torn"

\* The inductive invariant behind ChainUnbroken and TerminalSeals: the check
\* made under the lock (observability.py:107-111) is still true at os.write.
ChainInv == HolderIsInside /\ ChainUnbroken /\ WriterCurrent

\* Once a terminal event is readable, no process ever changes the stream
\* again, not even one that computed its event before: the check under the
\* lock (observability.py:106-110) is not outrun.
TerminalSeals == [][Sealed => UNCHANGED <<stream, sealed>>]_vars

\* A reader that is answered is never answered short: when events() does not
\* raise, no read before it raised, it returns all that those returned, in the
\* same places, and every event whose append() returned normally.  What failed
\* writes do to the file makes every reader raise from then on, and none of them
\* takes an event away in silence (observability.py:63-100, 126-133).
ReadsOnlyGrow ==
    [][~Unreadable' =>
         /\ ~Unreadable
         /\ \A i \in DOMAIN stream : i \in DOMAIN stream' /\ stream'[i] = stream[i]
         /\ \A d \in acked' : \E i \in DOMAIN stream' : stream'[i].dig = d]_vars

\* "Durable, append-only event stream" (observability.py:47): an event whose
\* append() returned normally can be read from then on.
AckedReadable ==
    acked # {} => /\ ~Unreadable
                  /\ \A d \in acked : \E i \in DOMAIN stream : stream[i].dig = d

\* The counters inside the terminal event never claim a request, boundary
\* entry, completion or failure that the stream does not hold, although
\* terminal() reads them before it takes the lock (observability.py:156).
TerminalNeverOverclaims ==
    Sealed => \A t \in CountedTypes : sealed[t] <= Count(Types(stream), t)

\* Every line of the artifact index parses.  Files are written before they are
\* indexed and never change, so what is indexed also verifies.
IndexParses == index # "torn"

\* The persisted files are complete and say the same.
FilesAgree ==
    /\ snap.parts = Artifacts
    /\ ~snap.torn
    /\ snap.counters = Counters(snap.events)
    /\ HasTerminal(snap.events)

\* validate_lifecycle_artifacts raises nothing.
Validates == IndexParses /\ FilesAgree

\* A persist() that begins after the terminal event and completes leaves files
\* that validate_lifecycle_artifacts accepts, unless a line of the artifact index
\* was cut off: whatever an earlier persist(), failed or killed, left behind, it
\* is never mixed with it (observability.py:169-213).  persist() does not look at
\* the index, so with a damaged one it completes and the validator raises.
LatePersistValidates == memo /\ late /\ IndexParses => Validates

\* Every call returns: the lock is released on every path out of append(),
\* so no process waits for ever on the flock.
CallsReturn == \A p \in Procs : pc[p] # "idle" ~> pc[p] = "idle"

\* Lifecycle implements EvidenceLog: a reader sees an append-only log that a
\* terminal event closes.
Log == INSTANCE EvidenceLog WITH log <- Types(stream)
ImplementsEvidenceLog == Log!Spec
=============================================================================
