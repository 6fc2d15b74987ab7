------------------------- MODULE LifecyclePromises -------------------------
(***************************************************************************)
(* What the readers of a lifecycle stream rely on, for every value of the  *)
(* constants: no reader is ever answered short, a terminal event never     *)
(* overclaims and the files of a late persist() agree, whatever happens;   *)
(* the stream implements EvidenceLog as long as no short write leaves a    *)
(* readable line without its newline.                                      *)
(***************************************************************************)
EXTENDS LifecycleProofs

\* No last line lacks its newline.
NeverOpen == tail # "open"

\* A process on its way to write a terminal event.
Terminating(p) == job[p] = "terminal" /\ pc[p] \in {"waiting", "locked", "writing"}

\* The counters such a process read are still backed by the stream, unless
\* the stream was damaged, and then the append is refused.
SeenBacked ==
    \A p \in Procs : Terminating(p) /\ tail # "torn" =>
        \A t \in CountedTypes : seen[p][t] <= Count(Types(stream), t)

-----------------------------------------------------------------------------
\* Every step is the step of one process.
Acts(p) == Step(p) \/ Calls(p) \/ Faults(p) \/ Others(p)

\* It changes the file in one of four ways.
Keeps == UNCHANGED <<stream, sealed, tail, acked>>
Tears(p) == pc[p] = "writing" /\ UNCHANGED <<stream, sealed, acked>> /\ tail' = "torn"
Extends(p) == /\ pc[p] = "writing" /\ Records(p)
              /\ tail' = "open" => "open" \in ShortWrites
              /\ acked' \subseteq acked \cup {ev[p].dig}
Spoils(p) == /\ pc[p] = "writing" /\ tail = "open" /\ SpoilsLastLine
             /\ acked' \subseteq acked \cup {ev[p].dig}

LEMMA FileStep ==
  ASSUME NEW p \in Procs, Acts(p)
  PROVE  Keeps \/ Tears(p) \/ Extends(p) \/ Spoils(p)
<1> USE DEF Keeps, Tears, Extends, Spoils, log
<1>1. CASE Step(p)
  <2>1. CASE Write(p)
    BY <2>1 DEF Write, Lands
  <2> QED
    BY <1>1, <2>1 DEF Step, Acquire, Refuse, Compute, CountForTerminal, Reload,
       PersistEvents, PersistCounters, PersistInterventions, PersistTerminal
<1>2. CASE Calls(p)
  BY <1>2 DEF Calls, CallAppend, CallTerminal, CallPersist
<1>3. CASE Faults(p)
  <2>1. CASE WriteUnsynced(p)
    BY <2>1 DEF WriteUnsynced, Lands
  <2>2. CASE WriteShort(p)
    BY <2>2 DEF WriteShort
  <2> QED
    BY <1>3, <2>1, <2>2 DEF Faults, WriteNothing, StoreFails, Killed
<1>4. CASE Others(p)
  BY <1>4 DEF Others, OtherArtifact, OtherArtifactCut
<1> QED
  BY <1>1, <1>2, <1>3, <1>4 DEF Acts

\* How processes get on their way to write a terminal event: they just counted
\* a stream they left alone, or they were on their way before.
LEMMA TerminatingStep ==
  ASSUME TypeOK, NEW p \in Procs, Acts(p), NEW q \in Procs,
         Terminating(q)'
  PROVE  \/ Terminating(q) /\ seen'[q] = seen[q]
         \/ seen'[q] = Derived(stream) /\ UNCHANGED <<stream, tail>>
<1> USE DEF TypeOK, Terminating, Go, Raise
<1>1. CASE Step(p)
  <2>1. CASE CountForTerminal(p)
    BY <2>1 DEF CountForTerminal, log
  <2>2. CASE Write(p)
    BY <2>2 DEF Write
  <2>3. CASE Acquire(p) \/ Refuse(p) \/ Compute(p)
    BY <2>3 DEF Acquire, Refuse, Compute
  <2>4. CASE Reload(p) \/ PersistEvents(p) \/ PersistCounters(p)
              \/ PersistInterventions(p) \/ PersistTerminal(p)
    BY <2>4 DEF Reload, PersistEvents, PersistCounters, PersistInterventions, PersistTerminal
  <2> QED
    BY <1>1, <2>1, <2>2, <2>3, <2>4 DEF Step
<1>2. CASE Calls(p)
  BY <1>2, LifecycleAssumption DEF Calls, CallAppend, CallTerminal, CallPersist, Starts
<1>3. CASE Faults(p)
  BY <1>3 DEF Faults, WriteUnsynced, WriteNothing, WriteShort, StoreFails, Killed
<1>4. CASE Others(p)
  BY <1>4 DEF Others, OtherArtifact, OtherArtifactCut
<1> QED
  BY <1>1, <1>2, <1>3, <1>4 DEF Acts
-----------------------------------------------------------------------------
\* Facts about logs.

LEMMA TypesAppend ==
  ASSUME NEW s \in Seq(Event), NEW e \in Event
  PROVE  Types(Append(s, e)) = Append(Types(s), e.type)
<1>1. Append(s, e) \in Seq(Event) /\ Len(Append(s, e)) = Len(s) + 1
  OBVIOUS
<1>2. e.type \in EventTypes
  BY DEF Event
<1>3. /\ Types(s) \in Seq(EventTypes) /\ Len(Types(s)) = Len(s)
      /\ \A i \in 1..Len(s) : Types(s)[i] = s[i].type
  BY TypesOfStream
<1>4. /\ Types(Append(s, e)) \in Seq(EventTypes)
      /\ Len(Types(Append(s, e))) = Len(s) + 1
      /\ \A i \in 1..(Len(s) + 1) : Types(Append(s, e))[i] = Append(s, e)[i].type
  BY <1>1, TypesOfStream
<1>5. /\ Append(Types(s), e.type) \in Seq(EventTypes)
      /\ Len(Append(Types(s), e.type)) = Len(s) + 1
  BY <1>2, <1>3
<1>6. ASSUME NEW i \in 1..(Len(s) + 1)
      PROVE  Types(Append(s, e))[i] = Append(Types(s), e.type)[i]
  <2>1. CASE i \in 1..Len(s)
    BY <1>3, <1>4, <2>1
  <2>2. CASE i = Len(s) + 1
    BY <1>3, <1>4, <2>2
  <2>3. i \in 1..Len(s) \/ i = Len(s) + 1
    OBVIOUS
  <2> QED
    BY <2>1, <2>2, <2>3
<1> QED
  BY <1>4, <1>5, <1>6

\* A longer log never counts less.
LEMMA CountGrows ==
  ASSUME NEW s \in Seq(EventTypes), NEW e \in EventTypes, NEW t
  PROVE  Count(s, t) <= Count(Append(s, e), t)
<1> DEFINE A == {i \in DOMAIN s : s[i] = t}
           B == {i \in DOMAIN Append(s, e) : Append(s, e)[i] = t}
<1>1. A \subseteq B
  OBVIOUS
<1>2. B \subseteq 1..(Len(s) + 1)
  OBVIOUS
<1>3. IsFiniteSet(B)
  <2>1. IsFiniteSet(1..(Len(s) + 1))
    BY FS_Interval
  <2> QED
    BY <1>2, <2>1, FS_Subset
<1>4. Cardinality(A) <= Cardinality(B)
  BY <1>1, <1>3, FS_Subset
<1> QED
  BY <1>4 DEF Count

\* Dropping a line cannot close a log.
LEMMA ChopUnseals ==
  ASSUME NEW s \in Seq(Event), ~HasTerminal(Types(s))
  PROVE  ~HasTerminal(Types(SubSeq(s, 1, Len(s) - 1)))
<1> DEFINE t == SubSeq(s, 1, Len(s) - 1)
<1>1. CASE s = << >>
  <2>1. t = << >>
    BY <1>1
  <2> HIDE DEF t
  <2>2. \A i \in DOMAIN t : FALSE
    BY <2>1
  <2>3. ~HasTerminal(Types(t))
    BY <2>2 DEF HasTerminal, Types
  <2> QED
    BY <2>3 DEF t
<1>2. CASE s # << >>
  <2>1. t \in Seq(Event) /\ Len(s) - 1 \in Nat /\ Len(s) - 1 <= Len(s)
    BY <1>2, ChoppedIsSeq
  <2>2. Len(t) = Len(s) - 1
    <3> HIDE DEF t
    <3>1. Len(SubSeq(s, 1, Len(s) - 1)) = Len(s) - 1
      BY <2>1, PrefixLength
    <3> QED
      BY <3>1 DEF t
  <2>3. \A i \in 1..Len(t) : t[i] = s[i] /\ i \in 1..Len(s)
    BY <2>1, <2>2
  <2> HIDE DEF t
  <2>4. ~HasTerminal(Types(t))
    BY <2>1, <2>3, TypesOfStream DEF HasTerminal
  <2> QED
    BY <2>4 DEF t
<1> QED
  BY <1>1, <1>2
-----------------------------------------------------------------------------
\* Readers.

\* What a reader that is not refused has to be shown.
ShowsAcked == ~Unreadable => \A d \in acked : \E i \in DOMAIN stream : stream[i].dig = d

\* One step, from what the readers have seen before it.
LEMMA ReadStep ==
  ASSUME TypeOK, ChainInv, ShowsAcked, [Next]_vars, ~Unreadable'
  PROVE  /\ ~Unreadable
         /\ \A i \in DOMAIN stream : i \in DOMAIN stream' /\ stream'[i] = stream[i]
         /\ \A d \in acked' : \E i \in DOMAIN stream' : stream'[i].dig = d
<1> DEFINE Goal == /\ ~Unreadable
                   /\ \A i \in DOMAIN stream : i \in DOMAIN stream' /\ stream'[i] = stream[i]
                   /\ \A d \in acked' : \E i \in DOMAIN stream' : stream'[i].dig = d
<1>1. ASSUME NEW p \in Procs, Extends(p) PROVE Goal
  <2>1. stream \in Seq(Event) /\ ev[p] \in Event /\ stream' = Append(stream, ev[p])
    BY <1>1 DEF TypeOK, Extends, Records
  <2>2. ~Unreadable
    BY <1>1 DEF Extends, ChainInv, ChainUnbroken, WriterCurrent, Unreadable
  <2>3. \A i \in DOMAIN stream : i \in DOMAIN stream' /\ stream'[i] = stream[i]
    BY <2>1
  <2>4. Len(stream) + 1 \in DOMAIN stream' /\ stream'[Len(stream) + 1] = ev[p]
    BY <2>1
  <2>5. \A d \in acked' : d \in acked \/ d = ev[p].dig
    BY <1>1 DEF Extends
  <2> QED
    BY <2>2, <2>3, <2>4, <2>5 DEF ShowsAcked
<1>2. ASSUME UNCHANGED <<stream, tail, acked>> PROVE Goal
  BY <1>2 DEF Unreadable, ShowsAcked
<1>3. ASSUME NEW p \in Procs, Tears(p) \/ Spoils(p) PROVE FALSE
  BY <1>3 DEF Tears, Spoils, SpoilsLastLine, Unreadable
<1>4. ASSUME NEW p \in Procs, Acts(p) PROVE Goal
  BY <1>1, <1>2, <1>3, <1>4, FileStep DEF Keeps
<1>5. CASE UNCHANGED vars
  BY <1>2, <1>5 DEF vars, log
<1> QED
  BY <1>4, <1>5 DEF Next, Acts

\* No reader is ever answered short, whatever writes fail and whoever is killed:
\* it gets what every former reader got and all that was acknowledged, or it
\* raises (observability.py:63-100, 126-133).
THEOREM ReadersNeverLose == Spec => ReadsOnlyGrow
<1>1. Init => ShowsAcked
  BY DEF Init, ShowsAcked
<1>2. TypeOK /\ ChainInv /\ ShowsAcked /\ [Next]_vars => ShowsAcked'
  BY ReadStep DEF ShowsAcked
<1>3. TypeOK /\ ChainInv /\ ShowsAcked /\ [Next]_vars =>
        (~Unreadable' =>
           /\ ~Unreadable
           /\ \A i \in DOMAIN stream : i \in DOMAIN stream' /\ stream'[i] = stream[i]
           /\ \A d \in acked' : \E i \in DOMAIN stream' : stream'[i].dig = d)
  BY ReadStep
<1>4. Spec => [](TypeOK /\ ChainInv)
  BY Invariants
<1> QED
  BY <1>1, <1>2, <1>3, <1>4, PTL DEF Spec, ReadsOnlyGrow
-----------------------------------------------------------------------------
\* Without short writes that leave an unterminated line, no line is lost.

LEMMA NeverOpenStep ==
  ASSUME "open" \notin ShortWrites, NeverOpen, [Next]_vars
  PROVE  NeverOpen'
<1>1. ASSUME NEW p \in Procs, Acts(p) PROVE NeverOpen'
  BY <1>1, FileStep DEF NeverOpen, Keeps, Tears, Extends, Spoils
<1>2. CASE UNCHANGED vars
  BY <1>2 DEF vars, log, NeverOpen
<1> QED
  BY <1>1, <1>2 DEF Next, Acts

LEMMA NeverOpenHolds ==
  ASSUME "open" \notin ShortWrites
  PROVE  Spec => []NeverOpen
<1>1. Init => NeverOpen
  BY DEF Init, NeverOpen
<1>2. NeverOpen /\ [Next]_vars => NeverOpen'
  BY NeverOpenStep
<1> QED
  BY <1>1, <1>2, PTL DEF Spec

\* The stream is an append-only log that a terminal event closes: each step of
\* a process is a Record of EvidenceLog or leaves the log as it is.
THEOREM Implementation ==
  ASSUME "open" \notin ShortWrites
  PROVE  Spec => ImplementsEvidenceLog
<1>1. Init => Log!Init
  <2>1. Types(<< >>) = << >>
    BY DEF Types
  <2> QED
    BY <2>1 DEF Init, Log!Init
<1>2. TypeOK /\ ChainInv /\ NeverOpen /\ [Next]_vars => [Log!Next]_(Types(stream))
  <2> SUFFICES ASSUME TypeOK, ChainInv, NeverOpen, [Next]_vars
               PROVE  Log!Next \/ Types(stream') = Types(stream)
    OBVIOUS
  <2>1. ASSUME NEW p \in Procs, Extends(p) PROVE Log!Next
    <3>1. stream \in Seq(Event) /\ ev[p] \in Event /\ stream' = Append(stream, ev[p])
      BY <2>1 DEF TypeOK, Extends, Records
    <3>2. ~HasTerminal(Types(stream)) /\ ev[p].type \in EventTypes
      BY <2>1, <3>1 DEF Extends, ChainInv, WriterCurrent, Sealed, Event
    <3>3. Types(stream') = Append(Types(stream), ev[p].type)
      BY <3>1, TypesAppend
    <3> QED
      BY <3>2, <3>3 DEF Log!Next, Log!Record, Log!HasTerminal, HasTerminal,
         Log!EventTypes, EventTypes, Log!CountedTypes, CountedTypes
  <2>2. ASSUME NEW p \in Procs, Acts(p)
        PROVE  Log!Next \/ Types(stream') = Types(stream)
    BY <2>1, <2>2, FileStep DEF NeverOpen, Spoils, Keeps, Tears
  <2>3. CASE UNCHANGED vars
    BY <2>3 DEF vars, log
  <2> QED
    BY <2>2, <2>3 DEF Next, Acts
<1>3. Spec => [](TypeOK /\ ChainInv)
  BY Invariants
<1>4. Spec => []NeverOpen
  BY NeverOpenHolds
<1> QED
  BY <1>1, <1>2, <1>3, <1>4, PTL DEF Spec, ImplementsEvidenceLog, Log!Spec
-----------------------------------------------------------------------------
\* The terminal event.

LEMMA SealedBacked ==
  ASSUME TypeOK, ChainInv, SeenBacked, TerminalNeverOverclaims, [Next]_vars
  PROVE  (SeenBacked /\ TerminalNeverOverclaims)'
<1> DEFINE Backed(s, c) == \A t \in CountedTypes : c[t] <= Count(Types(s), t)
<1>1. ASSUME NEW p \in Procs, Acts(p)
      PROVE  (SeenBacked /\ TerminalNeverOverclaims)'
  <2>1. ASSUME Extends(p), NEW c \in [CountedTypes -> Nat], Backed(stream, c)
        PROVE  Backed(stream', c)
    <3>1. stream \in Seq(Event) /\ ev[p] \in Event /\ stream' = Append(stream, ev[p])
      BY <2>1 DEF TypeOK, Extends, Records
    <3>2. Types(stream) \in Seq(EventTypes) /\ ev[p].type \in EventTypes
      BY <3>1, TypesOfStream DEF Event
    <3>3. Types(stream') = Append(Types(stream), ev[p].type)
      BY <3>1, TypesAppend
    <3>4. ASSUME NEW t \in CountedTypes PROVE c[t] <= Count(Types(stream'), t)
      <4>1. Count(Types(stream), t) <= Count(Types(stream'), t)
        BY <3>2, <3>3, CountGrows
      <4>2. Count(Types(stream), t) \in Nat /\ Count(Types(stream'), t) \in Nat
        <5>1. Types(stream') \in Seq(EventTypes)
          BY <3>2, <3>3
        <5> QED
          BY <3>2, <5>1, CountIsNat
      <4> QED
        BY <2>1, <4>1, <4>2
    <3> QED
      BY <3>4
  <2>2. SeenBacked'
    <3> SUFFICES ASSUME NEW q \in Procs, Terminating(q)', tail' # "torn"
                 PROVE  Backed(stream', seen'[q])
      BY DEF SeenBacked
    <3>1. CASE seen'[q] = Derived(stream) /\ UNCHANGED <<stream, tail>>
      <4>1. Types(stream) \in Seq(EventTypes)
        BY TypesOfStream DEF TypeOK
      <4>2. \A t \in CountedTypes : Count(Types(stream), t) \in Nat
        BY <4>1, CountIsNat
      <4> QED
        BY <3>1, <4>2 DEF Derived, Counters
    <3>2. CASE Terminating(q) /\ seen'[q] = seen[q]
      <4>1. seen[q] \in [CountedTypes -> Nat]
        BY DEF TypeOK
      <4>2. CASE Keeps
        BY <3>2, <4>2 DEF Keeps, SeenBacked
      <4>3. CASE Extends(p)
        <5>1. tail # "torn"
          BY <4>3 DEF Extends, ChainInv, WriterCurrent
        <5>2. Backed(stream, seen[q])
          BY <3>2, <5>1 DEF SeenBacked
        <5> QED
          BY <2>1, <3>2, <4>1, <4>3, <5>2
      <4> QED
        BY <1>1, <4>2, <4>3, FileStep DEF Tears, Spoils, SpoilsLastLine
    <3> QED
      BY <1>1, <3>1, <3>2, TerminatingStep
  <2>3. TerminalNeverOverclaims'
    <3>1. CASE Keeps \/ Tears(p)
      BY <3>1 DEF Keeps, Tears, TerminalNeverOverclaims, Sealed
    <3>2. CASE Spoils(p)
      <4>1. ~Sealed
        BY <3>2 DEF Spoils, ChainInv, WriterCurrent
      <4>2. ~Sealed'
        BY <3>2, <4>1, ChopUnseals DEF TypeOK, Spoils, SpoilsLastLine, Sealed
      <4> QED
        BY <4>2 DEF TerminalNeverOverclaims
    <3>3. CASE Extends(p)
      <4>1. ~Sealed /\ tail # "torn" /\ ev[p].type = job[p]
        BY <3>3 DEF Extends, ChainInv, WriterCurrent
      <4>2. CASE job[p] = "terminal"
        <5>1. Backed(stream, seen[p]) /\ seen[p] \in [CountedTypes -> Nat]
          BY <3>3, <4>1, <4>2 DEF SeenBacked, Terminating, Extends, TypeOK
        <5>2. sealed' = seen[p]
          BY <3>3, <4>2 DEF Extends, Records
        <5> QED
          BY <2>1, <3>3, <5>1, <5>2 DEF TerminalNeverOverclaims
      <4>3. CASE job[p] # "terminal"
        <5>1. stream \in Seq(Event) /\ ev[p] \in Event /\ stream' = Append(stream, ev[p])
          BY <3>3 DEF TypeOK, Extends, Records
        <5>2. Types(stream') = Append(Types(stream), ev[p].type)
          BY <5>1, TypesAppend
        <5>3. Types(stream) \in Seq(EventTypes)
          BY <5>1, TypesOfStream
        <5>4. ~HasTerminal(Types(stream'))
          BY <4>1, <4>3, <5>2, <5>3 DEF HasTerminal, Sealed
        <5> QED
          BY <5>4 DEF TerminalNeverOverclaims, Sealed
      <4> QED
        BY <4>2, <4>3
    <3> QED
      BY <1>1, <3>1, <3>2, <3>3, FileStep
  <2> QED
    BY <2>2, <2>3
<1>2. CASE UNCHANGED vars
  BY <1>2 DEF vars, log, SeenBacked, Terminating, TerminalNeverOverclaims, Sealed
<1> QED
  BY <1>1, <1>2 DEF Next, Acts

\* Whatever else is appended between the count and the terminal event, and
\* however writes fail, the terminal event claims nothing the stream lacks.
THEOREM NeverOverclaims == Spec => []TerminalNeverOverclaims
<1>1. Init => SeenBacked /\ TerminalNeverOverclaims
  <2>1. ~HasTerminal(Types(<< >>))
    BY DEF HasTerminal, Types
  <2> QED
    BY <2>1 DEF Init, SeenBacked, Terminating, TerminalNeverOverclaims, Sealed
<1>2. /\ TypeOK /\ ChainInv /\ SeenBacked /\ TerminalNeverOverclaims /\ [Next]_vars
      => (SeenBacked /\ TerminalNeverOverclaims)'
  BY SealedBacked
<1>3. Spec => [](TypeOK /\ ChainInv)
  BY Invariants
<1> QED
  BY <1>1, <1>2, <1>3, PTL DEF Spec
-----------------------------------------------------------------------------
\* The persisted artifacts.

\* A process on its way back from the append() of run_started to persist().
Reloading(p) == \/ pc[p] = "reload"
                \/ ret[p] = "reload" /\ pc[p] \in {"counting", "waiting", "locked", "writing"}

Writing(p) == pc[p] \in Artifacts

\* What a persist() that began after the terminal event has done so far.
LateProgress(p) ==
    /\ Sealed /\ tail # "torn"
    /\ pc[p] \in {"counters", "interventions", "terminal"} =>
          "events" \in snap.parts /\ snap.events = Types(stream) /\ ~snap.torn
    /\ pc[p] \in {"interventions", "terminal"} =>
          "counters" \in snap.parts /\ snap.counters = Counters(Types(stream))
    /\ pc[p] = "terminal" => "interventions" \in snap.parts

PersistInv ==
    /\ \A p \in Procs \ {Keeper} : ret[p] = "idle" /\ ~Reloading(p) /\ ~Writing(p)
    /\ Reloading(Keeper) => ~late /\ ~memo
    /\ Writing(Keeper) => ~memo /\ (late => LateProgress(Keeper))
    /\ memo /\ late => FilesAgree

\* What persist() has completed stays, and completes nothing.
Shelved == /\ UNCHANGED late
           /\ snap'.parts = snap.parts /\ snap'.events = snap.events
           /\ snap'.torn = snap.torn /\ snap'.counters = snap.counters
           /\ memo' => memo

\* An artifact write that fails completes nothing.
LEMMA BehindShelved ==
  ASSUME TypeOK, NEW part, LeavesBehind(part), UNCHANGED late, memo' => memo
  PROVE  Shelved
<1>1. CASE UNCHANGED snap
  BY <1>1 DEF Shelved
<1>2. CASE snap' = [snap EXCEPT !.taken = @ \cup {part}]
  BY <1>2 DEF Shelved, TypeOK, Snapshots
<1> QED
  BY <1>1, <1>2 DEF LeavesBehind

\* While a persist() that began late runs, the file stands still.
LEMMA SealedStands ==
  ASSUME ChainInv, Sealed, NEW p \in Procs, Acts(p)
  PROVE  Keeps
BY FileStep DEF ChainInv, WriterCurrent, Tears, Extends, Spoils

\* A step that persists nothing and takes nobody into persist().
LEMMA PersistFrame ==
  ASSUME TypeOK, ChainInv, PersistInv, Shelved, Sealed => Keeps,
         \A q \in Procs : /\ Reloading(q)' => Reloading(q)
                          /\ Writing(q)' => pc[q] = pc'[q]
                          /\ ret'[q] = ret[q] \/ ret'[q] = "idle"
  PROVE  PersistInv'
<1> USE DEF PersistInv, Shelved
<1>1. (memo /\ late => FilesAgree)'
  BY DEF FilesAgree
<1>2. Writing(Keeper)' => ~memo' /\ (late' => LateProgress(Keeper)')
  <2> SUFFICES ASSUME Writing(Keeper)' PROVE ~memo' /\ (late' => LateProgress(Keeper)')
    OBVIOUS
  <2>1. Writing(Keeper) /\ pc'[Keeper] = pc[Keeper]
    BY LifecycleAssumption DEF Writing, Reloading
  <2>2. ASSUME late PROVE LateProgress(Keeper)'
    <3>1. LateProgress(Keeper)
      BY <2>1, <2>2
    <3>2. Keeps
      BY <3>1 DEF LateProgress
    <3> QED
      BY <2>1, <3>1, <3>2 DEF LateProgress, Keeps, Sealed
  <2> QED
    BY <2>1, <2>2
<1>3. \A q \in Procs \ {Keeper} : ret'[q] = "idle" /\ ~Reloading(q)' /\ ~Writing(q)'
  BY DEF Writing, Reloading
<1>4. Reloading(Keeper)' => ~late' /\ ~memo'
  BY LifecycleAssumption DEF Reloading
<1> QED
  BY <1>1, <1>2, <1>3, <1>4

\* The keeper enters persist(), moves on in it or leaves it.
LEMMA KeeperMoves ==
  ASSUME TypeOK, PersistInv, NEW to, Go(Keeper, to), to # "reload",
         \A q \in Procs \ {Keeper} : ret'[q] = ret[q],
         Reloading(Keeper)' => ~late' /\ ~memo',
         to \in Artifacts => ~memo' /\ (late' => LateProgress(Keeper)'),
         (memo /\ late => FilesAgree)'
  PROVE  PersistInv'
<1>1. pc'[Keeper] = to /\ \A q \in Procs \ {Keeper} : pc'[q] = pc[q]
  BY LifecycleAssumption DEF TypeOK, Go
<1>2. \A q \in Procs \ {Keeper} : ret'[q] = "idle" /\ ~Reloading(q)' /\ ~Writing(q)'
  BY <1>1 DEF PersistInv, Reloading, Writing
<1>3. Writing(Keeper)' => ~memo' /\ (late' => LateProgress(Keeper)')
  BY <1>1 DEF Writing
<1> QED
  BY <1>2, <1>3 DEF PersistInv

LEMMA PersistStep ==
  ASSUME TypeOK, ChainInv, PersistInv, NEW p \in Procs, Acts(p)
  PROVE  PersistInv'
<1>1. Sealed => Keeps
  BY SealedStands
<1> USE LifecycleAssumption DEF Go, Raise
<1>2. ASSUME Shelved,
             \/ \E type \in Jobs : CallAppend(p, type)
             \/ Acquire(p) \/ Refuse(p) \/ Compute(p) \/ Write(p)
             \/ CallTerminal(p) \/ CountForTerminal(p) \/ StoreFails(p)
             \/ WriteUnsynced(p) \/ WriteNothing(p) \/ WriteShort(p) \/ Others(p)
      PROVE  PersistInv'
  <2>1. ASSUME NEW q \in Procs
        PROVE  /\ Reloading(q)' => Reloading(q)
               /\ Writing(q)' => pc[q] = pc'[q]
               /\ ret'[q] = ret[q] \/ ret'[q] = "idle"
    <3> USE DEF TypeOK, Reloading, Writing, Artifacts
    <3>1. CASE \/ \E type \in Jobs : CallAppend(p, type)
               \/ Acquire(p) \/ Refuse(p) \/ Compute(p) \/ Write(p)
      BY <3>1 DEF CallAppend, Acquire, Refuse, Compute, Write, Starts
    <3>2. CASE CallTerminal(p) \/ CountForTerminal(p) \/ StoreFails(p) \/ Others(p)
      BY <3>2 DEF CallTerminal, CountForTerminal, StoreFails, Starts, Others, OtherArtifact,
                  OtherArtifactCut
    <3>3. CASE WriteUnsynced(p) \/ WriteNothing(p) \/ WriteShort(p)
      BY <3>3 DEF WriteUnsynced, WriteNothing, WriteShort
    <3> QED BY <1>2, <3>1, <3>2, <3>3
  <2> QED
    BY <1>1, <1>2, <2>1, PersistFrame
<1>3. CASE CallPersist(p)
  <2>1. p = Keeper /\ ~memo /\ ~memo' /\ late' = Sealed /\ tail # "torn"
    BY <1>3 DEF CallPersist, Unreadable
  <2>2. (memo /\ late => FilesAgree)'
    BY <2>1
  <2>3. UNCHANGED <<stream, tail>> /\ \A q \in Procs \ {Keeper} : ret'[q] = ret[q]
    BY <1>3, <2>1 DEF TypeOK, CallPersist, log
  <2>4. CASE stream = << >>
    <3>1. ~late'
      BY <2>1, <2>4 DEF Sealed, HasTerminal, Types
    <3>2. Go(Keeper, "waiting")
      BY <1>3, <2>1, <2>4 DEF CallPersist
    <3> QED
      BY <2>1, <2>2, <2>3, <3>1, <3>2, KeeperMoves DEF Artifacts
  <2>5. CASE stream # << >>
    <3>1. Go(Keeper, "events") /\ pc'[Keeper] = "events"
      BY <1>3, <2>1, <2>5 DEF CallPersist, TypeOK
    <3>2. late' => LateProgress(Keeper)'
      BY <2>1, <2>3, <3>1 DEF LateProgress, Sealed
    <3>3. ~Reloading(Keeper)'
      BY <3>1 DEF Reloading
    <3> QED
      BY <2>1, <2>2, <2>3, <3>1, <3>2, <3>3, KeeperMoves
  <2> QED
    BY <2>4, <2>5
<1>4. CASE Reload(p)
  BY <1>4 DEF TypeOK, Reload, PersistInv, Reloading, Writing, Artifacts,
     FilesAgree, persisted
<1>5. CASE PersistEvents(p)
  <2>1. p = Keeper /\ pc[p] = "events" /\ ~memo /\ UNCHANGED <<memo, late, stream, tail, ret>>
    BY <1>5 DEF PersistEvents, PersistInv, Writing, Artifacts, log
  <2>2. (memo /\ late => FilesAgree)'
    BY <2>1
  <2>3. PICK to \in {"idle", "counters"} : Go(Keeper, to) /\ pc'[Keeper] = to
    BY <1>5, <2>1 DEF PersistEvents, TypeOK
  <2>4. ~Reloading(Keeper)'
    BY <2>3 DEF Reloading
  <2>5. ASSUME late, to = "counters" PROVE LateProgress(Keeper)'
    <3>1. LateProgress(Keeper)
      BY <2>1, <2>5 DEF PersistInv, Writing, Artifacts
    <3>2. /\ snap'.parts = snap.parts \cup {"events"}
          /\ snap'.events = Types(stream) /\ snap'.torn = (tail = "torn")
      <4>1. snap' = [With("events") EXCEPT !.events = Types(stream),
                                           !.torn = (tail = "torn")]
        BY <1>5, <2>1, <2>3, <2>5 DEF PersistEvents, TypeOK
      <4> QED
        BY <4>1 DEF TypeOK, Snapshots, With
    <3> QED
      BY <2>1, <2>3, <2>5, <3>1, <3>2 DEF LateProgress, Sealed
  <2> QED
    BY <2>1, <2>2, <2>3, <2>4, <2>5, KeeperMoves DEF Artifacts
<1>6. CASE PersistCounters(p)
  <2>1. p = Keeper /\ pc[p] = "counters" /\ ~memo /\ UNCHANGED <<memo, late, stream, tail, ret>>
    BY <1>6 DEF PersistCounters, PersistInv, Writing, Artifacts, log
  <2>2. (memo /\ late => FilesAgree)'
    BY <2>1
  <2>3. PICK to \in {"idle", "interventions"} : Go(Keeper, to) /\ pc'[Keeper] = to
    BY <1>6, <2>1 DEF PersistCounters, TypeOK
  <2>4. ~Reloading(Keeper)'
    BY <2>3 DEF Reloading
  <2>5. ASSUME late, to = "interventions" PROVE LateProgress(Keeper)'
    <3>1. LateProgress(Keeper)
      BY <2>1, <2>5 DEF PersistInv, Writing, Artifacts
    <3>2. /\ snap'.parts = snap.parts \cup {"counters"}
          /\ snap'.counters = Counters(Types(stream))
          /\ snap'.events = snap.events /\ snap'.torn = snap.torn
      <4>1. snap' = [With("counters") EXCEPT !.counters = Counters(Types(stream))]
        BY <1>6, <2>1, <2>3, <2>5 DEF PersistCounters, TypeOK
      <4> QED
        BY <4>1 DEF TypeOK, Snapshots, With
    <3> QED
      BY <2>1, <2>3, <2>5, <3>1, <3>2 DEF LateProgress, Sealed
  <2> QED
    BY <2>1, <2>2, <2>3, <2>4, <2>5, KeeperMoves DEF Artifacts
<1>7. CASE PersistInterventions(p)
  <2>1. /\ p = Keeper /\ pc[p] = "interventions" /\ ~memo
        /\ UNCHANGED <<memo, late, stream, tail, ret>>
    BY <1>7 DEF PersistInterventions, PersistInv, Writing, Artifacts, log
  <2>2. (memo /\ late => FilesAgree)'
    BY <2>1
  <2>3. PICK to \in {"idle", "terminal"} : Go(Keeper, to) /\ pc'[Keeper] = to
    BY <1>7, <2>1 DEF PersistInterventions, TypeOK
  <2>4. ~Reloading(Keeper)'
    BY <2>3 DEF Reloading
  <2>5. ASSUME late, to = "terminal" PROVE LateProgress(Keeper)'
    <3>1. LateProgress(Keeper)
      BY <2>1, <2>5 DEF PersistInv, Writing, Artifacts
    <3>2. /\ snap'.parts = snap.parts \cup {"interventions"}
          /\ snap'.counters = snap.counters
          /\ snap'.events = snap.events /\ snap'.torn = snap.torn
      <4>1. snap' = With("interventions")
        BY <1>7, <2>1, <2>3, <2>5 DEF PersistInterventions, TypeOK
      <4> QED
        BY <4>1 DEF TypeOK, Snapshots, With
    <3> QED
      BY <2>1, <2>3, <2>5, <3>1, <3>2 DEF LateProgress, Sealed
  <2> QED
    BY <2>1, <2>2, <2>3, <2>4, <2>5, KeeperMoves DEF Artifacts
<1>8. CASE PersistTerminal(p)
  <2>1. /\ p = Keeper /\ pc[p] = "terminal" /\ UNCHANGED <<late, stream, tail, ret>>
        /\ Go(Keeper, "idle") /\ pc'[Keeper] = "idle"
    BY <1>8 DEF TypeOK, PersistTerminal, PersistInv, Writing, Artifacts, log
  <2>2. ~Reloading(Keeper)'
    BY <2>1 DEF Reloading
  <2>3. (memo /\ late => FilesAgree)'
    <3>1. CASE Unreadable \/ (Sealed /\ Taken("terminal"))
      BY <1>8, <2>1, <3>1 DEF PersistTerminal, PersistInv, Writing, Artifacts
    <3>2. ASSUME ~(Unreadable \/ (Sealed /\ Taken("terminal"))), late
          PROVE  FilesAgree'
      <4>1. LateProgress(Keeper)
        BY <2>1, <3>2 DEF PersistInv, Writing, Artifacts
      <4>2. snap' = With("terminal")
        BY <1>8, <3>2, <4>1 DEF PersistTerminal, LateProgress
      <4>3. /\ snap'.parts = snap.parts \cup {"terminal"} /\ snap.parts \subseteq Artifacts
            /\ snap'.counters = snap.counters
            /\ snap'.events = snap.events /\ snap'.torn = snap.torn
        BY <4>2 DEF TypeOK, Snapshots, With
      <4> QED
        BY <2>1, <4>1, <4>3 DEF FilesAgree, LateProgress, Sealed, Artifacts
    <3> QED
      BY <2>1, <3>1, <3>2
  <2> QED
    BY <2>1, <2>2, <2>3, KeeperMoves DEF Artifacts
<1>9. CASE Killed(p)
  <2>1. Shelved
    BY <1>9, BehindShelved DEF Killed, Shelved
  <2>2. ASSUME NEW q \in Procs
        PROVE  /\ Reloading(q)' => Reloading(q)
               /\ Writing(q)' => pc[q] = pc'[q]
               /\ ret'[q] = ret[q] \/ ret'[q] = "idle"
    BY <1>9 DEF TypeOK, Killed, Reloading, Writing, Artifacts
  <2> QED
    BY <1>1, <2>1, <2>2, PersistFrame
<1>10. CASE /\ ~CallPersist(p) /\ ~Reload(p) /\ ~PersistEvents(p) /\ ~PersistCounters(p)
            /\ ~PersistInterventions(p) /\ ~PersistTerminal(p) /\ ~Killed(p)
  <2>1. CASE StoreFails(p)
    <3>1. Shelved
      BY <2>1, BehindShelved DEF StoreFails
    <3> QED
      BY <1>2, <2>1, <3>1
  <2>2. CASE Others(p)
    <3>1. Shelved
      <4>1. memo' => memo
        BY <2>2, Zenon DEF Others, OtherArtifact, OtherArtifactCut
      <4> QED
        BY <2>2, <4>1 DEF Shelved, Others, OtherArtifact, OtherArtifactCut
    <3> QED
      BY <1>2, <2>2, <3>1
  <2>3. CASE ~StoreFails(p) /\ ~Others(p)
    <3>1. UNCHANGED persisted
      BY <1>10, <2>3 DEF Acts, Step, Calls, Faults, CallAppend, Acquire, Refuse, Compute, Write,
         CallTerminal, CountForTerminal, WriteUnsynced, WriteNothing, WriteShort
    <3>2. Shelved
      BY <3>1 DEF persisted, Shelved
    <3> QED
      BY <1>2, <1>10, <2>3, <3>2 DEF Acts, Step, Calls, Faults
  <2> QED
    BY <2>1, <2>2, <2>3
<1> QED
  BY <1>3, <1>4, <1>5, <1>6, <1>7, <1>8, <1>9, <1>10

\* A persist() that began after the terminal event and completed has left files
\* that agree, whatever failed or was killed before it; they validate unless a
\* line of the artifact index was cut off (observability.py:169-241).
THEOREM LatePersistHolds == Spec => []LatePersistValidates
<1>1. Init => PersistInv
  BY LifecycleAssumption DEF Init, PersistInv, Reloading, Writing, Artifacts
<1>2. TypeOK /\ ChainInv /\ PersistInv /\ [Next]_vars => PersistInv'
  <2> SUFFICES ASSUME TypeOK, ChainInv, PersistInv, [Next]_vars PROVE PersistInv'
    OBVIOUS
  <2>1. CASE UNCHANGED vars
    BY <2>1 DEF vars, log, persisted, PersistInv, Reloading, Writing, LateProgress,
       FilesAgree, Sealed
  <2> QED
    BY <2>1, PersistStep DEF Next, Acts
<1>3. PersistInv => LatePersistValidates
  BY DEF PersistInv, LatePersistValidates, Validates
<1>4. Spec => [](TypeOK /\ ChainInv)
  BY Invariants
<1> QED
  BY <1>1, <1>2, <1>3, <1>4, PTL DEF Spec
=============================================================================
