-------------------------- MODULE LifecycleProofs --------------------------
(***************************************************************************)
(* What holds of Lifecycle for every set of processes, every choice of     *)
(* appended events and any number of calls and faults.                     *)
(***************************************************************************)
EXTENDS Lifecycle, TLAPS, FiniteSetTheorems

-----------------------------------------------------------------------------
\* Facts about the operators the invariants are built from.

\* The types of the stored lines are a log of the same length.
LEMMA TypesOfStream ==
  ASSUME NEW s \in Seq(Event)
  PROVE  /\ Types(s) \in Seq(EventTypes)
         /\ Len(Types(s)) = Len(s)
         /\ \A i \in 1..Len(s) : Types(s)[i] = s[i].type
<1>1. ASSUME NEW i \in 1..Len(s) PROVE s[i].type \in EventTypes
  <2>1. s[i] \in Event
    OBVIOUS
  <2> QED
    BY <2>1 DEF Event
<1>2. Types(s) \in [1..Len(s) -> EventTypes]
  BY <1>1 DEF Types
<1> QED
  BY <1>2 DEF Types

\* A counter is a natural number.
LEMMA CountIsNat ==
  ASSUME NEW s \in Seq(EventTypes), NEW t
  PROVE  Count(s, t) \in Nat
<1>1. IsFiniteSet(1..Len(s))
  BY FS_Interval
<1>2. {i \in DOMAIN s : s[i] = t} \subseteq 1..Len(s)
  OBVIOUS
<1> QED
  BY <1>1, <1>2, FS_Subset, FS_CardinalityType DEF Count

LEMMA CountersType ==
  ASSUME NEW s \in Seq(EventTypes)
  PROVE  Counters(s) \in [CountedTypes -> Nat]
BY CountIsNat DEF Counters

\* Dropping the last line of a sequence leaves a sequence.
LEMMA ChoppedIsSeq ==
  ASSUME NEW S, NEW s \in Seq(S)
  PROVE  SubSeq(s, 1, Len(s) - 1) \in Seq(S)
OBVIOUS

\* The length of a prefix.
LEMMA PrefixLength ==
  ASSUME NEW S, NEW s \in Seq(S), NEW n \in Nat, n <= Len(s)
  PROVE  Len(SubSeq(s, 1, n)) = n
OBVIOUS

\* Type correctness, one step per action.

LEMMA InitCounters == NoCounters \in [CountedTypes -> Nat] /\ << >> \in Seq(EventTypes)
BY DEF NoCounters

LEMMA InitTypeOK == Init => TypeOK
<1> SUFFICES ASSUME Init PROVE TypeOK
  OBVIOUS
<1> USE LifecycleAssumption DEF Init
<1>1. NoEvent \in Event /\ NoCounters \in [CountedTypes -> Nat]
  BY DEF NoEvent, Event, NoCounters, EventTypes
<1>2. snap \in Snapshots
  BY <1>1 DEF Snapshots
<1>3. "idle" \in Places
  BY DEF Places
<1>4. stream \in Seq(Event)
  OBVIOUS
<1> QED
  BY <1>1, <1>2, <1>3, <1>4 DEF TypeOK

\* Moving a process, and leaving a call with an exception, keep its types.
LEMMA GoTyped ==
  ASSUME TypeOK, NEW p \in Procs, NEW to \in Places, Go(p, to)
  PROVE  pc' \in [Procs -> Places]
BY DEF TypeOK, Go

LEMMA RaiseTyped ==
  ASSUME TypeOK, NEW p \in Procs, Raise(p)
  PROVE  pc' \in [Procs -> Places] /\ ret' \in [Procs -> {"idle", "reload"}]
<1>1. "idle" \in Places
  BY DEF Places
<1> QED
  BY <1>1, GoTyped DEF Raise, TypeOK

\* The three ways in which bytes change the file keep its types.
LEMMA RecordsTyped ==
  ASSUME TypeOK, NEW p \in Procs, Records(p)
  PROVE  stream' \in Seq(Event) /\ sealed' \in [CountedTypes -> Nat]
BY DEF TypeOK, Records

LEMMA SpoilsTyped ==
  ASSUME TypeOK, SpoilsLastLine
  PROVE  stream' \in Seq(Event) /\ sealed' \in [CountedTypes -> Nat] /\ tail' = "torn"
BY ChoppedIsSeq DEF TypeOK, SpoilsLastLine

LEMMA LandsTyped ==
  ASSUME TypeOK, NEW p \in Procs, Lands(p)
  PROVE  /\ stream' \in Seq(Event)
         /\ sealed' \in [CountedTypes -> Nat]
         /\ tail' \in {"clean", "torn"}
BY RecordsTyped, SpoilsTyped DEF Lands

\* So do complete artifacts, and what an artifact write leaves that fails.
LEMMA WithTyped ==
  ASSUME TypeOK, NEW part \in Artifacts
  PROVE  With(part) \in Snapshots /\ Indexed \in {"clean", "unended", "torn"}
BY DEF TypeOK, With, Indexed, Snapshots

LEMMA BehindTyped ==
  ASSUME TypeOK, NEW part \in Artifacts, LeavesBehind(part)
  PROVE  snap' \in Snapshots /\ index' \in {"clean", "unended", "torn"}
<1>1. [snap EXCEPT !.taken = @ \cup {part}] \in Snapshots
  BY DEF TypeOK, Snapshots
<1> QED
  BY <1>1 DEF TypeOK, LeavesBehind, Cut

LEMMA StepTypeOK == TypeOK /\ [Next]_vars => TypeOK'
<1> SUFFICES ASSUME TypeOK, [Next]_vars PROVE TypeOK'
  OBVIOUS
<1> USE LifecycleAssumption
<1>1. ASSUME NEW p \in Procs, NEW type \in Jobs, CallAppend(p, type) PROVE TypeOK'
  BY <1>1 DEF TypeOK, CallAppend, Starts, Go, log, persisted, Places
<1>2. ASSUME NEW p \in Procs, Acquire(p) PROVE TypeOK'
  BY <1>2 DEF TypeOK, Acquire, Go, log, persisted, Places
<1>3. ASSUME NEW p \in Procs, Refuse(p) PROVE TypeOK'
  BY <1>3 DEF TypeOK, Refuse, Raise, Unlock, Go, log, persisted, Places
<1>4. ASSUME NEW p \in Procs, Compute(p) PROVE TypeOK'
  <2>1. LastDigest(stream) \in Nat
    <3>1. CASE stream = << >>
      BY <3>1 DEF LastDigest
    <3>2. CASE stream # << >>
      <4>1. stream[Len(stream)] \in Event
        BY <3>2 DEF TypeOK
      <4> QED
        BY <3>2, <4>1 DEF LastDigest, Event
    <3> QED
      BY <3>1, <3>2
  <2>2. job[p] \in EventTypes
    BY DEF TypeOK, EventTypes
  <2>3. [type |-> job[p], seq |-> Len(stream) + 1,
         prev |-> LastDigest(stream), dig |-> clock + 1] \in Event
    BY <2>1, <2>2 DEF TypeOK, Event
  <2>4. ev' \in [Procs -> Event]
    BY <1>4, <2>3 DEF TypeOK, Compute
  <2> QED
    BY <1>4, <2>4 DEF TypeOK, Compute, Go, persisted, Places
<1>5. ASSUME NEW p \in Procs, Write(p) PROVE TypeOK'
  <2>1. /\ stream' \in Seq(Event)
        /\ sealed' \in [CountedTypes -> Nat]
        /\ tail' \in {"clean", "torn"}
    BY <1>5, LandsTyped DEF Write
  <2>2. ev[p].dig \in Nat
    BY DEF TypeOK, Event
  <2>3. pc' \in [Procs -> Places]
    <3>1. ret[p] \in Places
      BY DEF TypeOK, Places
    <3> QED
      BY <1>5, <3>1, GoTyped DEF Write
  <2> QED
    BY <1>5, <2>1, <2>2, <2>3 DEF TypeOK, Write, Unlock, persisted, Places
<1>6. ASSUME NEW p \in Procs, WriteUnsynced(p) PROVE TypeOK'
  BY <1>6, LandsTyped DEF TypeOK, WriteUnsynced, Fault, Unlock, Raise, Go, log, persisted, Places
<1>7. ASSUME NEW p \in Procs, WriteNothing(p) PROVE TypeOK'
  BY <1>7 DEF TypeOK, WriteNothing, Fault, Unlock, Raise, Go, log, persisted, Places
<1>8. ASSUME NEW p \in Procs, WriteShort(p) PROVE TypeOK'
  <2>1. /\ stream' \in Seq(Event) /\ sealed' \in [CountedTypes -> Nat]
        /\ tail' \in {"open", "torn"}
    BY <1>8, RecordsTyped, SpoilsTyped DEF TypeOK, WriteShort
  <2> QED
    BY <1>8, <2>1 DEF TypeOK, WriteShort, Fault, Unlock, Raise, Go, log, persisted, Places
<1>9. ASSUME NEW p \in Procs, CallTerminal(p) PROVE TypeOK'
  BY <1>9 DEF TypeOK, CallTerminal, Starts, Go, log, persisted, Places
<1>10. ASSUME NEW p \in Procs, CountForTerminal(p) PROVE TypeOK'
  <2>1. CASE Unreadable
    BY <1>10, <2>1, RaiseTyped DEF TypeOK, CountForTerminal, log, persisted
  <2>2. CASE ~Unreadable
    <3>1. Derived(stream) \in [CountedTypes -> Nat]
      BY TypesOfStream, CountersType DEF TypeOK, Derived
    <3>2. "waiting" \in Places
      BY DEF Places
    <3>3. pc' \in [Procs -> Places]
      BY <1>10, <2>2, <3>2, GoTyped DEF CountForTerminal
    <3>4. /\ seen' = [seen EXCEPT ![p] = Derived(stream)]
          /\ job' = [job EXCEPT ![p] = "terminal"]
          /\ UNCHANGED <<log, persisted, lock, ev, ret, calls, faults>>
      BY <1>10, <2>2 DEF CountForTerminal
    <3> QED
      BY <3>1, <3>3, <3>4 DEF TypeOK, log, persisted
  <2> QED
    BY <2>1, <2>2
<1>11. ASSUME NEW p \in Procs, CallPersist(p) PROVE TypeOK'
  <2>1. late' \in BOOLEAN
    BY <1>11 DEF CallPersist, Sealed, HasTerminal
  <2>2. "waiting" \in Places /\ "events" \in Places
    BY DEF Places, Artifacts
  <2>3. /\ pc' \in [Procs -> Places]
        /\ job' \in [Procs -> Jobs \cup {"terminal"}]
        /\ ret' \in [Procs -> {"idle", "reload"}]
    <3>1. CASE stream = << >>
      <4>1. pc' \in [Procs -> Places]
        BY <1>11, <2>2, <3>1, GoTyped DEF CallPersist
      <4>2. job' = [job EXCEPT ![p] = "run_started"] /\ ret' = [ret EXCEPT ![p] = "reload"]
        BY <1>11, <3>1 DEF CallPersist
      <4> QED
        BY <4>1, <4>2 DEF TypeOK
    <3>2. CASE stream # << >>
      BY <1>11, <2>2, <3>2, GoTyped DEF TypeOK, CallPersist
    <3> QED
      BY <3>1, <3>2
  <2> QED
    BY <1>11, <2>1, <2>3 DEF TypeOK, CallPersist, Starts, log
<1>12. ASSUME NEW p \in Procs, Reload(p) PROVE TypeOK'
  BY <1>12 DEF TypeOK, Reload, Raise, Go, log, persisted, Artifacts, Places
<1>13. ASSUME NEW p \in Procs, PersistEvents(p) PROVE TypeOK'
  <2>1. CASE Taken("events")
    BY <1>13, <2>1, RaiseTyped DEF TypeOK, PersistEvents, log
  <2>2. CASE ~Taken("events")
    <3>1. "events" \in Artifacts /\ "counters" \in Places
      BY DEF Artifacts, Places
    <3>2. Types(stream) \in Seq(EventTypes) /\ snap \in Snapshots
      BY TypesOfStream DEF TypeOK
    <3>3. [With("events") EXCEPT !.events = Types(stream), !.torn = (tail = "torn")]
             \in Snapshots
      BY <3>1, <3>2, WithTyped DEF Snapshots
    <3>5. snap' \in Snapshots
      BY <1>13, <2>2, <3>3 DEF PersistEvents
    <3>6. index' \in {"clean", "unended", "torn"}
      BY <1>13, <2>2, <3>1, WithTyped DEF PersistEvents
    <3>4. pc' \in [Procs -> Places]
      BY <1>13, <2>2, <3>1, GoTyped DEF PersistEvents
    <3> QED
      BY <1>13, <2>2, <3>4, <3>5, <3>6 DEF TypeOK, PersistEvents, log
  <2> QED
    BY <2>1, <2>2
<1>14. ASSUME NEW p \in Procs, PersistCounters(p) PROVE TypeOK'
  <2>1. CASE Unreadable \/ Taken("counters")
    BY <1>14, <2>1, RaiseTyped DEF TypeOK, PersistCounters, log
  <2>2. CASE ~(Unreadable \/ Taken("counters"))
    <3>1. "counters" \in Artifacts /\ "interventions" \in Places
      BY DEF Artifacts, Places
    <3>2. Types(stream) \in Seq(EventTypes) /\ snap \in Snapshots
      BY TypesOfStream DEF TypeOK
    <3>3. [With("counters") EXCEPT !.counters = Counters(Types(stream))] \in Snapshots
      BY <3>1, <3>2, WithTyped, CountersType DEF Snapshots
    <3>5. snap' \in Snapshots
      BY <1>14, <2>2, <3>3 DEF PersistCounters
    <3>6. index' \in {"clean", "unended", "torn"}
      BY <1>14, <2>2, <3>1, WithTyped DEF PersistCounters
    <3>4. pc' \in [Procs -> Places]
      BY <1>14, <2>2, <3>1, GoTyped DEF PersistCounters
    <3> QED
      BY <1>14, <2>2, <3>4, <3>5, <3>6 DEF TypeOK, PersistCounters, log
  <2> QED
    BY <2>1, <2>2
<1>15. ASSUME NEW p \in Procs, PersistInterventions(p) PROVE TypeOK'
  <2>1. CASE Taken("interventions")
    BY <1>15, <2>1, RaiseTyped DEF TypeOK, PersistInterventions, log
  <2>2. CASE ~Taken("interventions")
    <3>1. "interventions" \in Artifacts /\ "terminal" \in Places
      BY DEF Artifacts, Places
    <3>2. snap' \in Snapshots /\ index' \in {"clean", "unended", "torn"}
      BY <1>15, <2>2, <3>1, WithTyped DEF PersistInterventions
    <3>3. pc' \in [Procs -> Places]
      BY <1>15, <2>2, <3>1, GoTyped DEF PersistInterventions
    <3> QED
      BY <1>15, <2>2, <3>2, <3>3 DEF TypeOK, PersistInterventions, log
  <2> QED
    BY <2>1, <2>2
<1>16. ASSUME NEW p \in Procs, PersistTerminal(p) PROVE TypeOK'
  <2>1. "terminal" \in Artifacts /\ "idle" \in Places
    BY DEF Artifacts, Places
  <2>2. snap' \in Snapshots /\ index' \in {"clean", "unended", "torn"}
    BY <1>16, <2>1, WithTyped DEF TypeOK, PersistTerminal
  <2>3. pc' \in [Procs -> Places] /\ memo' \in BOOLEAN
    BY <1>16, <2>1, GoTyped DEF TypeOK, PersistTerminal
  <2> QED
    BY <1>16, <2>2, <2>3 DEF TypeOK, PersistTerminal, log
<1>17. ASSUME NEW p \in Procs, StoreFails(p) PROVE TypeOK'
  <2>1. snap' \in Snapshots /\ index' \in {"clean", "unended", "torn"}
    BY <1>17, BehindTyped DEF StoreFails
  <2> QED
    BY <1>17, <2>1 DEF TypeOK, StoreFails, Fault, Raise, Go, log, Places
<1>18. ASSUME NEW p \in Procs, Killed(p) PROVE TypeOK'
  <2>1. snap' \in Snapshots /\ index' \in {"clean", "unended", "torn"}
    BY <1>18, BehindTyped DEF Killed, TypeOK
  <2> QED
    BY <1>18, <2>1 DEF TypeOK, Killed, Fault, Raise, Go, log, Places
<1>19. CASE UNCHANGED vars
  BY <1>19 DEF TypeOK, vars, log, persisted
<1>20. ASSUME NEW p \in Procs, Others(p) PROVE TypeOK'
  <2>1. CASE OtherArtifact(p)
    BY <2>1 DEF TypeOK, OtherArtifact, Indexed, log
  <2>2. CASE OtherArtifactCut(p)
    <3>1. index' \in {"unended", "torn"}
      BY <2>2 DEF OtherArtifactCut, Cut
    <3>2. memo' \in BOOLEAN
      BY <2>2 DEF TypeOK, OtherArtifactCut
    <3>3. faults' \in Nat
      BY <2>2 DEF TypeOK, OtherArtifactCut, Fault
    <3> QED
      BY <2>2, <3>1, <3>2, <3>3 DEF TypeOK, OtherArtifactCut, log
  <2> QED
    BY <1>20, <2>1, <2>2 DEF Others
<1> QED
  BY <1>1, <1>2, <1>3, <1>4, <1>5, <1>6, <1>7, <1>8, <1>9, <1>10, <1>11, <1>12, <1>13,
     <1>14, <1>15, <1>16, <1>17, <1>18, <1>19, <1>20 DEF Next, Step, Calls, Faults

\* Every variable of the model keeps its type.
THEOREM TypeCorrect == Spec => []TypeOK
BY InitTypeOK, StepTypeOK, PTL DEF Spec
-----------------------------------------------------------------------------
\* The hash chain.

\* A verified, unsealed stream stays verified when the event that continues it
\* is appended, and when its last line is lost.
LEMMA VerifiedAppend ==
  ASSUME NEW s \in Seq(Event), NEW e \in Event, Verified(s), ~HasTerminal(Types(s)),
         e.seq = Len(s) + 1, e.prev = LastDigest(s)
  PROVE  Verified(Append(s, e))
<1> DEFINE t == Append(s, e)
<1>1. t \in Seq(Event) /\ Len(t) = Len(s) + 1 /\ DOMAIN t = 1..(Len(s) + 1)
  OBVIOUS
<1>2. \A i \in 1..Len(s) : t[i] = s[i] /\ s[i].type # "terminal"
  BY TypesOfStream DEF HasTerminal
<1>3. t[Len(s) + 1] = e
  OBVIOUS
<1>4. ASSUME NEW i \in 1..Len(s)
      PROVE  t[i].seq = i /\ t[i].prev = IF i = 1 THEN 0 ELSE t[i - 1].dig
  <2>1. s[i].seq = i /\ s[i].prev = IF i = 1 THEN 0 ELSE s[i - 1].dig
    BY DEF Verified
  <2>2. i # 1 => i - 1 \in 1..Len(s)
    OBVIOUS
  <2> QED
    BY <1>2, <2>1, <2>2
<1>5. t[Len(s) + 1].prev = IF Len(s) + 1 = 1 THEN 0 ELSE t[Len(s)].dig
  <2>1. CASE s = << >>
    BY <1>3, <2>1 DEF LastDigest
  <2>2. CASE s # << >>
    <3>1. Len(s) \in 1..Len(s) /\ Len(s) + 1 # 1
      BY <2>2
    <3> QED
      BY <1>2, <1>3, <2>2, <3>1 DEF LastDigest
  <2> QED
    BY <2>1, <2>2
<1>6. ASSUME NEW i \in DOMAIN t
      PROVE  /\ t[i].seq = i
             /\ t[i].prev = IF i = 1 THEN 0 ELSE t[i - 1].dig
             /\ i < Len(t) => t[i].type # "terminal"
  <2>1. CASE i \in 1..Len(s)
    BY <1>2, <1>4, <2>1
  <2>2. CASE i = Len(s) + 1
    BY <1>1, <1>3, <1>5, <2>2
  <2> QED
    BY <1>1, <2>1, <2>2
<1> QED
  BY <1>6 DEF Verified

LEMMA VerifiedChop ==
  ASSUME NEW s \in Seq(Event), Verified(s)
  PROVE  Verified(SubSeq(s, 1, Len(s) - 1))
<1> DEFINE t == SubSeq(s, 1, Len(s) - 1)
<1>1. CASE s = << >>
  BY <1>1 DEF Verified
<1>2. CASE s # << >>
  <2>1. Len(s) \in Nat /\ Len(s) >= 1
    BY <1>2
  <2>2. Len(t) = Len(s) - 1 /\ DOMAIN t = 1..(Len(s) - 1)
    <3>1. Len(t) = Len(s) - 1
      <4>1. Len(s) - 1 \in Nat /\ Len(s) - 1 <= Len(s)
        BY <2>1
      <4> HIDE DEF t
      <4>2. Len(SubSeq(s, 1, Len(s) - 1)) = Len(s) - 1
        BY <4>1, PrefixLength
      <4> QED
        BY <4>2 DEF t
    <3>2. t \in Seq(Event)
      BY ChoppedIsSeq
    <3>3. DOMAIN t = 1..Len(t)
      BY <3>2
    <3> QED
      BY <3>1, <3>3
  <2>3. \A i \in 1..(Len(s) - 1) : t[i] = s[i]
    BY <2>1
  <2> QED
    BY <2>1, <2>2, <2>3 DEF Verified
<1> QED
  BY <1>1, <1>2

\* What the writing process puts into the file leaves a verified stream.
LEMMA LandsVerified ==
  ASSUME TypeOK, ChainInv, NEW p \in Procs, pc[p] = "writing", Records(p) \/ SpoilsLastLine
  PROVE  Verified(stream')
<1>1. stream \in Seq(Event) /\ ev[p] \in Event /\ Verified(stream)
  BY DEF TypeOK, ChainInv, ChainUnbroken
<1>2. CASE Records(p)
  <2>1. /\ ev[p].seq = Len(stream) + 1 /\ ev[p].prev = LastDigest(stream)
        /\ ~HasTerminal(Types(stream))
    BY DEF ChainInv, WriterCurrent, Sealed
  <2> QED
    BY <1>1, <1>2, <2>1, VerifiedAppend DEF Records
<1>3. CASE SpoilsLastLine
  BY <1>1, <1>3, VerifiedChop DEF SpoilsLastLine
<1> QED
  BY <1>2, <1>3

\* A process that leaves append() after it wrote: the lock is free and nobody
\* writes, so only the chain itself has to be checked.
LEMMA WriterLeaves ==
  ASSUME TypeOK, ChainInv, NEW p \in Procs, NEW to, pc[p] = "writing", Go(p, to),
         to \notin {"locked", "writing"}, Unlock(p), Verified(stream')
  PROVE  ChainInv'
<1>1. \A q \in Procs : pc'[q] \notin {"locked", "writing"}
  BY DEF TypeOK, ChainInv, HolderIsInside, Go
<1>2. \A q \in Procs : lock' # q
  BY LifecycleAssumption DEF Unlock
<1> QED
  BY <1>1, <1>2 DEF ChainInv, HolderIsInside, ChainUnbroken, WriterCurrent

\* A step that leaves the file alone and does not move a process past flock().
LEMMA QuietStep ==
  ASSUME TypeOK, ChainInv, NEW p \in Procs, NEW to, Go(p, to),
         to \notin {"locked", "writing"}, UNCHANGED <<stream, tail>>,
         IF lock = p THEN lock' = NoProc ELSE lock' = lock,
         \A q \in Procs \ {p} : ev'[q] = ev[q] /\ job'[q] = job[q]
  PROVE  ChainInv'
<1>1. pc'[p] = to /\ \A q \in Procs \ {p} : pc'[q] = pc[q]
  BY DEF TypeOK, Go
<1>2. HolderIsInside'
  BY <1>1, LifecycleAssumption DEF ChainInv, HolderIsInside
<1>3. WriterCurrent'
  BY <1>1 DEF ChainInv, WriterCurrent, Sealed
<1> QED
  BY <1>2, <1>3 DEF ChainInv, ChainUnbroken

LEMMA InitChainInv == Init => ChainInv
<1> SUFFICES ASSUME Init PROVE ChainInv
  OBVIOUS
<1>1. HolderIsInside /\ WriterCurrent
  BY LifecycleAssumption DEF Init, HolderIsInside, WriterCurrent
<1>2. ChainUnbroken
  BY DEF Init, ChainUnbroken, Verified
<1> QED
  BY <1>1, <1>2 DEF ChainInv

LEMMA StepChainInv == TypeOK /\ ChainInv /\ [Next]_vars => ChainInv'
<1> SUFFICES ASSUME TypeOK, ChainInv, [Next]_vars PROVE ChainInv'
  OBVIOUS
<1>1. ASSUME NEW p \in Procs, NEW type \in Jobs, CallAppend(p, type) PROVE ChainInv'
  <2>1. lock # p /\ \A q \in Procs \ {p} : ev'[q] = ev[q] /\ job'[q] = job[q]
    BY <1>1 DEF TypeOK, CallAppend, Starts, ChainInv, HolderIsInside
  <2> QED
    BY <1>1, <2>1, QuietStep DEF CallAppend, log
<1>2. ASSUME NEW p \in Procs, Acquire(p) PROVE ChainInv'
  <2>1. pc'[p] = "locked" /\ \A q \in Procs \ {p} : pc'[q] = pc[q]
    BY <1>2 DEF TypeOK, Acquire, Go
  <2>2. HolderIsInside'
    BY <1>2, <2>1, LifecycleAssumption DEF Acquire, FlockFree, ChainInv, HolderIsInside
  <2>3. WriterCurrent'
    BY <1>2, <2>1 DEF Acquire, ChainInv, WriterCurrent, Sealed, log
  <2> QED
    BY <1>2, <2>2, <2>3 DEF Acquire, ChainInv, ChainUnbroken, log
<1>3. ASSUME NEW p \in Procs, Refuse(p) PROVE ChainInv'
  <2>1. lock = p
    BY <1>3 DEF Refuse, ChainInv, HolderIsInside
  <2> QED
    BY <1>3, <2>1, QuietStep DEF Refuse, Unlock, Raise, log
<1>4. ASSUME NEW p \in Procs, Compute(p) PROVE ChainInv'
  <2>1. pc'[p] = "writing" /\ \A q \in Procs \ {p} : pc'[q] = pc[q] /\ ev'[q] = ev[q]
    BY <1>4 DEF TypeOK, Compute, Go
  <2>2. /\ ev'[p].type = job[p] /\ ev'[p].seq = Len(stream) + 1
        /\ ev'[p].prev = LastDigest(stream)
    BY <1>4 DEF TypeOK, Compute
  <2>3. ~Sealed /\ tail # "torn"
    BY <1>4 DEF Compute, RefusesAppend, Unreadable
  <2>4. HolderIsInside'
    BY <1>4, <2>1 DEF Compute, ChainInv, HolderIsInside
  <2>5. WriterCurrent'
    BY <1>4, <2>1, <2>2, <2>3 DEF Compute, ChainInv, WriterCurrent, Sealed
  <2> QED
    BY <1>4, <2>4, <2>5 DEF Compute, ChainInv, ChainUnbroken
<1>5. ASSUME NEW p \in Procs, Write(p) PROVE ChainInv'
  <2>1. Verified(stream')
    BY <1>5, LandsVerified DEF Write, Lands
  <2>2. ret[p] \notin {"locked", "writing"}
    BY DEF TypeOK
  <2> QED
    BY <1>5, <2>1, <2>2, WriterLeaves DEF Write
<1>6. ASSUME NEW p \in Procs, WriteUnsynced(p) PROVE ChainInv'
  <2>1. Verified(stream')
    BY <1>6, LandsVerified DEF WriteUnsynced, Lands
  <2> QED
    BY <1>6, <2>1, WriterLeaves DEF WriteUnsynced, Raise
<1>7. ASSUME NEW p \in Procs, WriteNothing(p) PROVE ChainInv'
  <2>1. Verified(stream')
    BY <1>7 DEF WriteNothing, log, ChainInv, ChainUnbroken
  <2> QED
    BY <1>7, <2>1, WriterLeaves DEF WriteNothing, Raise
<1>8. ASSUME NEW p \in Procs, WriteShort(p) PROVE ChainInv'
  <2>1. Records(p) \/ SpoilsLastLine \/ UNCHANGED stream
    BY <1>8 DEF WriteShort
  <2>2. Verified(stream')
    BY <1>8, <2>1, LandsVerified DEF WriteShort, ChainInv, ChainUnbroken
  <2> QED
    BY <1>8, <2>2, WriterLeaves DEF WriteShort, Raise
<1>9. ASSUME NEW p \in Procs, CallTerminal(p) PROVE ChainInv'
  <2>1. lock # p
    BY <1>9 DEF CallTerminal, Starts, ChainInv, HolderIsInside
  <2> QED
    BY <1>9, <2>1, QuietStep DEF CallTerminal, log
<1>10. ASSUME NEW p \in Procs, CountForTerminal(p) PROVE ChainInv'
  <2>1. lock # p /\ \A q \in Procs \ {p} : ev'[q] = ev[q] /\ job'[q] = job[q]
    BY <1>10 DEF TypeOK, CountForTerminal, ChainInv, HolderIsInside
  <2>2. \E to \in {"idle", "waiting"} : Go(p, to)
    BY <1>10 DEF CountForTerminal, Raise
  <2> QED
    BY <1>10, <2>1, <2>2, QuietStep DEF CountForTerminal, log
<1>11. ASSUME NEW p \in Procs, CallPersist(p) PROVE ChainInv'
  <2>1. lock # p /\ \A q \in Procs \ {p} : ev'[q] = ev[q] /\ job'[q] = job[q]
    BY <1>11 DEF TypeOK, CallPersist, Starts, ChainInv, HolderIsInside
  <2>2. \E to \in {"waiting", "events"} : Go(p, to)
    BY <1>11 DEF CallPersist
  <2> QED
    BY <1>11, <2>1, <2>2, QuietStep DEF CallPersist, log
<1>12. ASSUME NEW p \in Procs, Reload(p) PROVE ChainInv'
  <2>1. lock # p /\ \E to \in {"idle", "events"} : Go(p, to)
    BY <1>12 DEF Reload, Raise, ChainInv, HolderIsInside
  <2> QED
    BY <1>12, <2>1, QuietStep DEF Reload, log
<1>13. ASSUME NEW p \in Procs, PersistEvents(p) PROVE ChainInv'
  <2>1. lock # p /\ \E to \in {"idle", "counters"} : Go(p, to)
    BY <1>13 DEF PersistEvents, Raise, ChainInv, HolderIsInside
  <2> QED
    BY <1>13, <2>1, QuietStep DEF PersistEvents, log
<1>14. ASSUME NEW p \in Procs, PersistCounters(p) PROVE ChainInv'
  <2>1. lock # p /\ \E to \in {"idle", "interventions"} : Go(p, to)
    BY <1>14 DEF PersistCounters, Raise, ChainInv, HolderIsInside
  <2> QED
    BY <1>14, <2>1, QuietStep DEF PersistCounters, log
<1>15. ASSUME NEW p \in Procs, PersistInterventions(p) PROVE ChainInv'
  <2>1. lock # p /\ \E to \in {"idle", "terminal"} : Go(p, to)
    BY <1>15 DEF PersistInterventions, Raise, ChainInv, HolderIsInside
  <2> QED
    BY <1>15, <2>1, QuietStep DEF PersistInterventions, log
<1>16. ASSUME NEW p \in Procs, PersistTerminal(p) PROVE ChainInv'
  <2>1. lock # p
    BY <1>16 DEF PersistTerminal, ChainInv, HolderIsInside
  <2> QED
    BY <1>16, <2>1, QuietStep DEF PersistTerminal, log
<1>17. ASSUME NEW p \in Procs, StoreFails(p) PROVE ChainInv'
  <2>1. lock # p
    BY <1>17 DEF StoreFails, Artifacts, ChainInv, HolderIsInside
  <2> QED
    BY <1>17, <2>1, QuietStep DEF StoreFails, Raise, log
<1>18. ASSUME NEW p \in Procs, Killed(p) PROVE ChainInv'
  BY <1>18, QuietStep DEF Killed, Raise, log
<1>19. CASE UNCHANGED vars
  BY <1>19 DEF vars, log, ChainInv, HolderIsInside, ChainUnbroken, WriterCurrent, Sealed
<1>20. ASSUME NEW p \in Procs, Others(p) PROVE ChainInv'
  BY <1>20 DEF Others, OtherArtifact, OtherArtifactCut, log, ChainInv, HolderIsInside,
     ChainUnbroken, WriterCurrent, Sealed
<1> QED
  BY <1>1, <1>2, <1>3, <1>4, <1>5, <1>6, <1>7, <1>8, <1>9, <1>10, <1>11, <1>12, <1>13,
     <1>14, <1>15, <1>16, <1>17, <1>18, <1>19, <1>20 DEF Next, Step, Calls, Faults

\* Types and the inductive invariant, together in every state.
LEMMA Invariants == Spec => [](TypeOK /\ ChainInv)
<1>1. Init => TypeOK /\ ChainInv
  BY InitTypeOK, InitChainInv
<1>2. TypeOK /\ ChainInv /\ [Next]_vars => (TypeOK /\ ChainInv)'
  BY StepTypeOK, StepChainInv
<1> QED
  BY <1>1, <1>2, PTL DEF Spec

\* The check that append() makes under the lock is still true when it writes:
\* the lock has one holder, the chain is whole and a writer's event fits it.
THEOREM InvariantHolds == Spec => []ChainInv
BY Invariants, PTL

\* The hash chain is never broken by what append() does, however many
\* processes share the stream and whatever fails.
THEOREM ChainHolds == Spec => []ChainUnbroken
<1>1. ChainInv => ChainUnbroken
  BY DEF ChainInv
<1> QED
  BY <1>1, Invariants, PTL

\* A sealed stream is never touched again, by any process.
THEOREM SealHolds == Spec => TerminalSeals
<1>1. TypeOK /\ ChainInv /\ [Next]_vars => [Sealed => UNCHANGED <<stream, sealed>>]_vars
  <2> SUFFICES ASSUME TypeOK, ChainInv, Next, Sealed PROVE UNCHANGED <<stream, sealed>>
    BY DEF vars, log
  <2>1. \A p \in Procs : pc[p] # "writing"
    BY DEF ChainInv, WriterCurrent
  <2> QED
    BY <2>1 DEF Next, Step, Calls, Faults, CallAppend, Acquire, Refuse, Compute, Write,
       WriteUnsynced, WriteNothing, WriteShort, CallTerminal, CountForTerminal, CallPersist,
       Reload, PersistEvents, PersistCounters, PersistInterventions, PersistTerminal,
       StoreFails, Killed, Others, OtherArtifact, OtherArtifactCut, log
<1> QED
  BY <1>1, Invariants, PTL DEF Spec, TerminalSeals

-----------------------------------------------------------------------------
\* How long a call can last.

\* How far a place is from the end of the call.
Left(place) ==
    CASE place = "idle"          -> 0
      [] place = "terminal"      -> 1
      [] place = "interventions" -> 2
      [] place = "counters"      -> 3
      [] place = "events"        -> 4
      [] place = "reload"        -> 5
      [] place = "writing"       -> 6
      [] place = "locked"        -> 7
      [] place = "waiting"       -> 8
      [] place = "counting"      -> 9

\* Every step and every fault of a process brings its own call nearer to its end and
\* moves no other process.
LEMMA StepDescends ==
  ASSUME TypeOK, NEW p \in Procs, Step(p) \/ Faults(p)
  PROVE  /\ Left(pc'[p]) < Left(pc[p])
         /\ \A q \in Procs \ {p} : pc'[q] = pc[q]
<1>1. pc \in [Procs -> Places] /\ ret[p] \in {"idle", "reload"}
  BY DEF TypeOK
<1>2. CASE Acquire(p) \/ Compute(p)
  BY <1>1, <1>2 DEF Acquire, Compute, Go, Left
<1>3. CASE Refuse(p)
  BY <1>1, <1>3 DEF Refuse, Raise, Go, Left
<1>4. CASE Write(p)
  <2>1. pc'[p] = ret[p] /\ pc[p] = "writing" /\ \A q \in Procs \ {p} : pc'[q] = pc[q]
    BY <1>1, <1>4 DEF Write, Go
  <2> QED
    BY <1>1, <2>1 DEF Left
<1>5. CASE CountForTerminal(p)
  BY <1>1, <1>5 DEF CountForTerminal, Raise, Go, Left
<1>6. CASE Reload(p) \/ PersistEvents(p) \/ PersistCounters(p)
  BY <1>1, <1>6 DEF Reload, PersistEvents, PersistCounters, Raise, Go, Left
<1>7. CASE PersistInterventions(p) \/ PersistTerminal(p)
  BY <1>1, <1>7 DEF PersistInterventions, PersistTerminal, Raise, Go, Left
<1>8. CASE Faults(p)
  <2>1. pc[p] # "idle" /\ pc'[p] = "idle" /\ \A q \in Procs \ {p} : pc'[q] = pc[q]
    BY <1>1, <1>8 DEF Faults, WriteUnsynced, WriteNothing, WriteShort, StoreFails, Killed,
       Artifacts, Raise, Go
  <2> QED
    BY <1>1, <2>1 DEF Left, Places, Artifacts
<1> QED
  BY <1>2, <1>3, <1>4, <1>5, <1>6, <1>7, <1>8 DEF Step

\* A call is over after at most 9 steps of its process, whatever fails, and while it
\* waits for the flock the holder is nearer to its own end than the waiter: the
\* processes cannot wait for each other in a circle, and every path out of append()
\* drops the lock (observability.py:102-131).  It is what of CallsReturn does not
\* rest on the scheduler.
THEOREM CallsDescend ==
  Spec => /\ [](\A p \in Procs : Left(pc[p]) \in 0..9)
          /\ [](\A p \in Procs : pc[p] = "waiting" =>
                  lock = NoProc \/ (lock \in Procs /\ Left(pc[lock]) < Left(pc[p])))
          /\ [][\A p \in Procs : Step(p) \/ Faults(p) =>
                  /\ Left(pc'[p]) < Left(pc[p])
                  /\ \A q \in Procs \ {p} : pc'[q] = pc[q]]_vars
<1>1. TypeOK => \A p \in Procs : Left(pc[p]) \in 0..9
  BY DEF TypeOK, Left, Places, Artifacts
<1>2. TypeOK /\ ChainInv => \A p \in Procs : pc[p] = "waiting" =>
         lock = NoProc \/ (lock \in Procs /\ Left(pc[lock]) < Left(pc[p]))
  <2> SUFFICES ASSUME TypeOK, ChainInv, NEW p \in Procs, pc[p] = "waiting", lock # NoProc
               PROVE  lock \in Procs /\ Left(pc[lock]) < Left(pc[p])
    OBVIOUS
  <2>1. lock \in Procs /\ pc[lock] \in {"locked", "writing"}
    BY DEF TypeOK, ChainInv, HolderIsInside
  <2>2. Left("locked") = 7 /\ Left("writing") = 6 /\ Left("waiting") = 8
    BY DEF Left
  <2> QED
    BY <2>1, <2>2
<1>3. TypeOK => \A p \in Procs : Step(p) \/ Faults(p) =>
         /\ Left(pc'[p]) < Left(pc[p])
         /\ \A q \in Procs \ {p} : pc'[q] = pc[q]
  BY StepDescends
<1> QED
  BY <1>1, <1>2, <1>3, Invariants, PTL DEF Spec
=============================================================================
