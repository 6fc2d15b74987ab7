----------------------------- MODULE ModelCall -----------------------------
(***************************************************************************)
(* The model calls of one gate run: ADKJsonAgent.call                      *)
(* (src/chia_work/council/agents.py) with its schema and service retries,  *)
(* under the budget and the wall time that GateRunner._call checks         *)
(* (src/chia_work/takeover_gate.py).  The gate is one thread; its agents   *)
(* share the class attribute _last_call_at.  Time is a number of seconds   *)
(* that a step adds to; nothing interrupts a request.                      *)
(***************************************************************************)
EXTENDS Integers, Sequences, FiniteSets

CONSTANTS
    MaxModelCalls,     \* TAKEOVER_LIMITS["max_model_calls"]
    MaxWallTime,       \* TAKEOVER_LIMITS["max_wall_time"]
    MaxSchemaRetries,  \* TAKEOVER_LIMITS["max_retries_per_task"]
    Interval,          \* call_interval_seconds
    Backoffs,          \* service_backoffs
    LongestBackoff,    \* the largest of them
    Latencies,         \* how long a request, or a step of other work, takes
    LongestLatency,    \* bound on these: a property of the service, not of the code
    LastWork           \* bound: when the gate may still begin other work

ASSUME CallAssumption ==
    /\ MaxModelCalls \in Nat /\ MaxWallTime \in Nat /\ MaxSchemaRetries \in Nat
    /\ Interval \in Nat \ {0}
    /\ LongestBackoff \in Nat /\ Backoffs \in Seq(0..LongestBackoff)
    /\ LongestLatency \in Nat /\ Latencies \subseteq 0..LongestLatency
    /\ LastWork \in Nat

VARIABLES
    now,             \* time.monotonic(), 0 when the run started
    lastCallAt,      \* ADKJsonAgent._last_call_at; -Interval stands for None
    at,              \* where the gate is
    modelCalls,      \* self.model_calls
    schemaAttempts,  \* local variables of call()
    serviceRetries,
    replies,         \* ghost: what the requests of this call came to
    callAt,          \* ghost: when this call was let through
    requestAt,       \* ghost: when the last request was sent
    sent             \* ghost: requests sent in the run

clocks == <<now, lastCallAt, requestAt>>
retries == <<schemaAttempts, serviceRetries>>
vars == <<clocks, at, modelCalls, retries, replies, callAt, sent>>

\* Where call() is between its try and its return or raise.
InCall == {"pace", "request", "backoff"}

\* The ends of a call that failed: TemplateError, TransientServiceError, or an
\* error when the trace is written.
Failed == {"template", "transient", "trace"}

\* The ends of a run, as _call raises them; "limit" is that of _check_limits.
Raised == Failed \cup {"limit"}

\* What a request comes to: the answer, or the exception, and what closing the
\* runner raises in the finally block.
Replies == [answer : {"valid", "invalid", "transient", "permanent"},
            close : {"fine", "transient", "permanent"}]

Init ==
    /\ now = 0 /\ lastCallAt = -Interval /\ at = "idle"
    /\ modelCalls = 0 /\ schemaAttempts = 0 /\ serviceRetries = 0
    /\ replies = << >> /\ callAt = 0 /\ requestAt = -Interval /\ sent = 0

-----------------------------------------------------------------------------
\* GateRunner._check_limits and _call

Overtime == now > MaxWallTime

BudgetSpent == modelCalls >= MaxModelCalls

\* Mutant of LimitsAllow: the wall time is not looked at.
IgnoresTime == ~BudgetSpent

LimitsAllow == ~Overtime /\ ~BudgetSpent

\* Mutant of Call: the counters of the agent's last call are kept.
KeepsCounters ==
    /\ at = "idle" /\ LimitsAllow
    /\ at' = "pace" /\ modelCalls' = modelCalls + 1
    /\ replies' = << >> /\ callAt' = now
    /\ UNCHANGED <<clocks, retries, sent>>

Call ==
    /\ at = "idle" /\ LimitsAllow
    /\ at' = "pace" /\ modelCalls' = modelCalls + 1
    /\ schemaAttempts' = 0 /\ serviceRetries' = 0
    /\ replies' = << >> /\ callAt' = now
    /\ UNCHANGED <<clocks, sent>>

Refuse ==
    /\ at = "idle" /\ ~LimitsAllow
    /\ at' = "limit"
    /\ UNCHANGED <<clocks, modelCalls, retries, replies, callAt, sent>>

\* The gate does something else: it writes artifacts, decides, or waits for its
\* child, for as long as it takes and whether or not the time is over.
Work ==
    /\ at = "idle" /\ now <= LastWork
    /\ \E d \in Latencies : now' = now + d
    /\ UNCHANGED <<lastCallAt, requestAt, at, modelCalls, retries, replies, callAt, sent>>

-----------------------------------------------------------------------------
\* ADKJsonAgent.call

Later(s, t) == IF s > t THEN s ELSE t

\* Mutant of Stamp: the time is taken before the sleep.
StampsBeforeSleep(wakes) == now

Stamp(wakes) == wakes

\* Mutant of SendPaced: the rest of the interval is waited out in a loop that
\* does not read the clock again.
WaitsOnStaleTime ==
    /\ at = "pace" /\ at' = "request"
    /\ now >= lastCallAt + Interval
    /\ lastCallAt' = now /\ requestAt' = now
    /\ sent' = sent + 1
    /\ UNCHANGED <<now, modelCalls, retries, replies, callAt>>

\* _pace_calls, then the request is sent.
SendPaced ==
    /\ at = "pace" /\ at' = "request"
    /\ LET wakes == Later(now, lastCallAt + Interval)
       IN  /\ now' = wakes
           /\ lastCallAt' = Stamp(wakes)
           /\ requestAt' = wakes
    /\ sent' = sent + 1
    /\ UNCHANGED <<modelCalls, retries, replies, callAt>>

\* Mutant of Verdict: only the exception that arrives is looked at.
TopmostOnly(r) == IF r.close # "fine" THEN r.close ELSE r.answer

\* is_transient_service_error follows __cause__ and __context__: an exception of
\* close() hides neither a service error before it nor its own.
Verdict(r) ==
    IF r.close = "fine" THEN r.answer
    ELSE IF "transient" \in {r.close, r.answer} THEN "transient" ELSE "permanent"

\* Mutant of SchemaRetriesLeft: one retry too many.
SchemaRetriesLeftLate == schemaAttempts <= MaxSchemaRetries

SchemaRetriesLeft == schemaAttempts < MaxSchemaRetries

ServiceRetriesLeft == serviceRetries < Len(Backoffs)

\* Mutant of Rejected: a schema retry begins a new series of service retries.
RestartsBackoff ==
    IF SchemaRetriesLeft
    THEN at' = "pace" /\ schemaAttempts' = schemaAttempts + 1 /\ serviceRetries' = 0
    ELSE at' = "template" /\ UNCHANGED retries

\* The answer breaks the schema.
Rejected ==
    IF SchemaRetriesLeft
    THEN at' = "pace" /\ schemaAttempts' = schemaAttempts + 1 /\ UNCHANGED serviceRetries
    ELSE at' = "template" /\ UNCHANGED retries

Unavailable ==
    IF ServiceRetriesLeft THEN at' = "backoff" /\ UNCHANGED retries
    ELSE at' = "transient" /\ UNCHANGED retries

Respond ==
    /\ at = "request"
    /\ \E d \in Latencies : now' = now + d
    /\ \E r \in Replies :
          /\ replies' = Append(replies, r)
          /\ CASE Verdict(r) = "valid" -> at' \in {"idle", "trace"} /\ UNCHANGED retries
               [] Verdict(r) = "invalid" -> Rejected
               [] Verdict(r) = "transient" -> Unavailable
               [] Verdict(r) = "permanent" -> at' = "template" /\ UNCHANGED retries
    /\ UNCHANGED <<lastCallAt, requestAt, modelCalls, callAt, sent>>

Backoff ==
    /\ at = "backoff" /\ at' = "pace"
    /\ now' = now + Backoffs[serviceRetries + 1]
    /\ serviceRetries' = serviceRetries + 1
    /\ UNCHANGED <<lastCallAt, requestAt, modelCalls, schemaAttempts, replies, callAt, sent>>

CallStep == SendPaced \/ Respond \/ Backoff

Next == Call \/ Refuse \/ Work \/ CallStep

Spec == Init /\ [][Next]_vars

\* A call that was begun goes on: sleeps end, and the service answers or the
\* connection fails.  The client sets no timeout of its own.
FairSpec == Spec /\ WF_vars(CallStep)

-----------------------------------------------------------------------------
\* Type invariant of the module; the backoff that is slept is one of the series.
TypeOK ==
    /\ now \in Nat /\ lastCallAt \in Int /\ requestAt \in Int /\ callAt \in Nat
    /\ at \in InCall \cup Raised \cup {"idle"}
    /\ modelCalls \in 0..MaxModelCalls /\ sent \in Nat
    /\ schemaAttempts \in 0..MaxSchemaRetries
    /\ serviceRetries \in 0..Len(Backoffs)
    /\ at = "backoff" => serviceRetries + 1 \in DOMAIN Backoffs
    /\ replies \in Seq(Replies)

\* The most requests one call sends, and the longest it may last.
RequestsPerCall == 1 + MaxSchemaRetries + Len(Backoffs)

CallBound == RequestsPerCall * (Interval + LongestLatency) + Len(Backoffs) * LongestBackoff

\* However schema and service errors alternate, one budgeted call sends at most
\* 1 + max_retries + len(service_backoffs) requests, so that max_model_calls
\* does bound what the service is asked (takeover_gate.py:220-225,
\* agents.py:113-134).
RequestsBounded ==
    /\ Len(replies) <= RequestsPerCall
    /\ sent <= modelCalls * RequestsPerCall

\* max_wall_time bounds the asking, though _check_limits looks at it only before
\* a call (takeover_gate.py:214-222): however long the gate works in between, no
\* call begins after it, and a call that was let through in time has sent its
\* last request, and failed if it fails, within CallBound of it.  It does not
\* bound the run: after the last call, or between two, nothing looks at it.
OvertimeBounded ==
    /\ callAt <= MaxWallTime
    /\ requestAt <= MaxWallTime + CallBound
    /\ at \in InCall \cup Failed => now <= MaxWallTime + CallBound

\* Requests of all agents of a process start at least the interval apart,
\* retries included, however long requests and sleeps take (agents.py:170-178).
RequestsPaced == [][requestAt' # requestAt => requestAt' - requestAt >= Interval]_vars

\* What the service reported, whether a failing close hides it or not.
WasTransient(r) == "transient" \in {r.answer, r.close}

WasInvalid(r) == r.answer = "invalid" /\ r.close = "fine"

WasPermanent(r) == "permanent" \in {r.answer, r.close} /\ ~WasTransient(r)

Transients == Cardinality({i \in DOMAIN replies : WasTransient(replies[i])})

Invalids == Cardinality({i \in DOMAIN replies : WasInvalid(replies[i])})

\* Hidden behind a failing close or not, what the service reported decides: a
\* permanent error is never asked again, a transient one is given up on only
\* when the backoffs are spent, a bad answer when the schema retries are
\* (agents.py:122-134, 181-195).
RetriesAreEarned ==
    /\ \A i \in 1..(Len(replies) - 1) : WasTransient(replies[i]) \/ WasInvalid(replies[i])
    /\ at = "transient" => Transients = Len(Backoffs) + 1
    /\ at = "template" => \/ Invalids = MaxSchemaRetries + 1
                          \/ WasPermanent(replies[Len(replies)])

\* The loop "while True" of call() ends, whatever the service keeps answering
\* (agents.py:117).
CallEnds == at \in InCall ~> at \notin InCall
=============================================================================
