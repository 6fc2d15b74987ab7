-------------------------- MODULE ModelCallProofs --------------------------
(***************************************************************************)
(* What holds of ModelCall for every budget, interval, series of backoffs  *)
(* and latency of the service.  The bounds are products of two unknowns:   *)
(* the three lemmas on products are all the arithmetic beyond the linear   *)
(* that the steps need.                                                    *)
(***************************************************************************)
EXTENDS ModelCall, FiniteSetTheorems, TLAPS

\* A product with one more of its first factor.
LEMMA OneMore == \A a, b \in Nat : (a + 1) * b = a * b + b /\ a * b \in Nat
  BY SMT

\* A product grows with its first factor.
LEMMA TimesMonotone ==
  ASSUME NEW a \in Nat, NEW b \in Nat, NEW c \in Nat, a <= c
  PROVE  a * b <= c * b
<1>1. PICK d \in Nat : c = a + d
  <2>1. c - a \in Nat /\ c = a + (c - a)
    OBVIOUS
  <2> QED BY <2>1
<1>2. c * b = a * b + d * b
  BY <1>1, SMT
<1>3. d * b \in Nat /\ a * b \in Nat
  BY OneMore
<1> QED BY <1>2, <1>3

\* The parameters as natural numbers, which is all that the arithmetic uses.
LEMMA Bounds ==
  /\ RequestsPerCall \in Nat /\ Len(Backoffs) \in Nat
  /\ Interval + LongestLatency \in Nat
  /\ RequestsPerCall = 1 + MaxSchemaRetries + Len(Backoffs)
  BY CallAssumption DEF RequestsPerCall

\* The verdict on a reply, by what was reported in it.
LEMMA VerdictCases ==
  ASSUME NEW r \in Replies
  PROVE  /\ Verdict(r) \in {"valid", "invalid", "transient", "permanent"}
         /\ Verdict(r) = "transient" <=> r.answer = "transient" \/ r.close = "transient"
         /\ Verdict(r) = "invalid" <=> r.answer = "invalid" /\ r.close = "fine"
  BY DEF Verdict, Replies

\* The four ways a request ends, without the CASE of Respond.
LEMMA RespondCases ==
  ASSUME Respond
  PROVE  /\ at = "request"
         /\ \E d \in Latencies : now' = now + d
         /\ UNCHANGED <<lastCallAt, requestAt, modelCalls, callAt, sent>>
         /\ \E r \in Replies :
               /\ replies' = Append(replies, r)
               /\ \/ Verdict(r) = "valid" /\ at' \in {"idle", "trace"} /\ UNCHANGED retries
                  \/ Verdict(r) = "invalid" /\ Rejected
                  \/ Verdict(r) = "transient" /\ Unavailable
                  \/ Verdict(r) = "permanent" /\ at' = "template" /\ UNCHANGED retries
<1>1. PICK r \in Replies :
         /\ replies' = Append(replies, r)
         /\ CASE Verdict(r) = "valid" -> at' \in {"idle", "trace"} /\ UNCHANGED retries
              [] Verdict(r) = "invalid" -> Rejected
              [] Verdict(r) = "transient" -> Unavailable
              [] Verdict(r) = "permanent" -> at' = "template" /\ UNCHANGED retries
  BY DEF Respond
<1>2. Verdict(r) \in {"valid", "invalid", "transient", "permanent"}
  BY VerdictCases
<1>3. \/ Verdict(r) = "valid" /\ at' \in {"idle", "trace"} /\ UNCHANGED retries
      \/ Verdict(r) = "invalid" /\ Rejected
      \/ Verdict(r) = "transient" /\ Unavailable
      \/ Verdict(r) = "permanent" /\ at' = "template" /\ UNCHANGED retries
  BY <1>1, <1>2
<1> QED BY <1>1, <1>3 DEF Respond

-----------------------------------------------------------------------------
\* The type invariant holds in every reachable state.
THEOREM TypeCorrect == Spec => []TypeOK
<1> USE CallAssumption
<1>1. Init => TypeOK
  BY DEF Init, TypeOK, InCall, Raised, Failed
<1>2. TypeOK /\ [Next]_vars => TypeOK'
  <2> SUFFICES ASSUME TypeOK, [Next]_vars PROVE TypeOK'
    OBVIOUS
  <2> USE DEF TypeOK, InCall, Raised, Failed
  <2>1. CASE Call
    BY <2>1 DEF Call, clocks, LimitsAllow, BudgetSpent
  <2>2. CASE Refuse
    BY <2>2 DEF Refuse, clocks, retries
  <2>3. CASE Work
    BY <2>3 DEF Work, retries
  <2>4. CASE SendPaced
    BY <2>4 DEF SendPaced, Later, Stamp, retries
  <2>5. CASE Respond
    <3>1. PICK d \in Latencies : now' = now + d
      BY <2>5, RespondCases
    <3>2. PICK r \in Replies :
             /\ replies' = Append(replies, r)
             /\ \/ Verdict(r) = "valid" /\ at' \in {"idle", "trace"} /\ UNCHANGED retries
                \/ Verdict(r) = "invalid" /\ Rejected
                \/ Verdict(r) = "transient" /\ Unavailable
                \/ Verdict(r) = "permanent" /\ at' = "template" /\ UNCHANGED retries
      BY <2>5, RespondCases
    <3>3. now' \in Nat /\ replies' \in Seq(Replies)
      BY <3>1, <3>2
    <3>4. /\ at' \in InCall \cup Raised \cup {"idle"}
          /\ schemaAttempts' \in 0..MaxSchemaRetries
          /\ serviceRetries' \in 0..Len(Backoffs)
          /\ at' = "backoff" => serviceRetries' + 1 \in DOMAIN Backoffs
      BY <3>2
         DEF Rejected, Unavailable, SchemaRetriesLeft, ServiceRetriesLeft, retries
    <3> QED BY <2>5, <3>3, <3>4, RespondCases
  <2>6. CASE Backoff
    BY <2>6 DEF Backoff
  <2>7. CASE UNCHANGED vars
    BY <2>7 DEF vars, clocks, retries
  <2> QED BY <2>1, <2>2, <2>3, <2>4, <2>5, <2>6, <2>7 DEF Next, CallStep
<1> QED BY <1>1, <1>2, PTL DEF Spec

-----------------------------------------------------------------------------
\* What the counters say of the requests of this call: every reply but the last
\* was counted as a retry of one kind or the other.
RepliesCounted ==
    /\ at \in {"pace", "request"} => Len(replies) = schemaAttempts + serviceRetries
    /\ at = "backoff" => Len(replies) = schemaAttempts + serviceRetries + 1
    /\ Len(replies) <= RequestsPerCall

\* Requests sent, against those of the calls before and of this one.
SentCounted ==
    IF at \in InCall
    THEN /\ modelCalls >= 1
         /\ sent <= (modelCalls - 1) * RequestsPerCall
                       + Len(replies) + (IF at = "request" THEN 1 ELSE 0)
    ELSE sent <= modelCalls * RequestsPerCall

\* Every step keeps the count of the replies.
LEMMA RepliesCountedStep == TypeOK /\ RepliesCounted /\ [Next]_vars => RepliesCounted'
<1> USE CallAssumption, Bounds
<1> SUFFICES ASSUME TypeOK, RepliesCounted, [Next]_vars PROVE RepliesCounted'
  OBVIOUS
<1> USE DEF TypeOK, RepliesCounted
<1>0. RequestsPerCall' = RequestsPerCall
  BY DEF RequestsPerCall
<1>1. CASE Call
  BY <1>0, <1>1 DEF Call
<1>2. CASE Refuse
  BY <1>0, <1>2 DEF Refuse, retries
<1>3. CASE Work
  BY <1>0, <1>3 DEF Work, retries
<1>4. CASE SendPaced
  BY <1>0, <1>4 DEF SendPaced, retries
<1>5. CASE Respond
  <2>1. PICK r \in Replies :
           /\ replies' = Append(replies, r)
           /\ \/ Verdict(r) = "valid" /\ at' \in {"idle", "trace"} /\ UNCHANGED retries
              \/ Verdict(r) = "invalid" /\ Rejected
              \/ Verdict(r) = "transient" /\ Unavailable
              \/ Verdict(r) = "permanent" /\ at' = "template" /\ UNCHANGED retries
    BY <1>5, RespondCases
  <2>2. at = "request" /\ Len(replies') = Len(replies) + 1
    BY <1>5, <2>1, RespondCases
  <2>3. \/ at' \notin InCall /\ UNCHANGED retries
        \/ at' = "pace" /\ schemaAttempts' = schemaAttempts + 1 /\ serviceRetries' = serviceRetries
        \/ at' = "backoff" /\ UNCHANGED retries
    BY <2>1 DEF Rejected, Unavailable, InCall
  <2> QED BY <1>0, <2>2, <2>3 DEF retries, InCall
<1>6. CASE Backoff
  BY <1>0, <1>6 DEF Backoff
<1>7. CASE UNCHANGED vars
  BY <1>0, <1>7 DEF vars, retries
<1> QED BY <1>1, <1>2, <1>3, <1>4, <1>5, <1>6, <1>7 DEF Next, CallStep

\* Every step keeps the count of the requests of the run.
LEMMA SentCountedStep ==
  TypeOK /\ RepliesCounted /\ RepliesCounted' /\ SentCounted /\ [Next]_vars => SentCounted'
<1> USE CallAssumption, Bounds
<1> SUFFICES ASSUME TypeOK, RepliesCounted, RepliesCounted', SentCounted, [Next]_vars
             PROVE  SentCounted'
  OBVIOUS
<1> USE DEF TypeOK, SentCounted, InCall
<1>0. RequestsPerCall' = RequestsPerCall
  BY DEF RequestsPerCall
<1> DEFINE K == RequestsPerCall
<1>a. ASSUME modelCalls >= 1
      PROVE  modelCalls * K = (modelCalls - 1) * K + K /\ (modelCalls - 1) * K \in Nat
  <2>1. modelCalls - 1 \in Nat /\ (modelCalls - 1) + 1 = modelCalls
    BY <1>a
  <2> QED BY <2>1, OneMore
<1>b. modelCalls * K \in Nat
  BY OneMore
<1>1. CASE Call
  <2>1. at' = "pace" /\ modelCalls' = modelCalls + 1 /\ replies' = << >> /\ sent' = sent
    BY <1>1 DEF Call
  <2>2. (modelCalls' - 1) * K = modelCalls * K /\ sent <= modelCalls * K
    <3>1. modelCalls' - 1 = modelCalls
      BY <2>1
    <3>2. sent <= modelCalls * K
      BY <1>1 DEF Call
    <3> QED BY <3>1, <3>2
  <2> HIDE DEF K
  <2> QED BY <1>0, <1>b, <2>1, <2>2 DEF K
<1>2. CASE Refuse
  BY <1>0, <1>2 DEF Refuse, clocks, retries
<1>3. CASE Work
  BY <1>0, <1>3 DEF Work, retries
<1>4. CASE SendPaced
  <2>1. /\ at = "pace" /\ at' = "request" /\ sent' = sent + 1
        /\ UNCHANGED <<modelCalls, replies>>
    BY <1>4 DEF SendPaced
  <2> DEFINE before == (modelCalls - 1) * K
  <2>2. sent <= before + Len(replies) /\ before \in Nat /\ modelCalls >= 1
    BY <1>a, <2>1
  <2>3. (modelCalls' - 1) * RequestsPerCall' = before
    BY <1>0, <2>1
  <2> HIDE DEF before
  <2> QED BY <2>1, <2>2, <2>3
<1>5. CASE Respond
  <2>1. /\ at = "request" /\ at' # "request"
        /\ at' \in {"idle", "pace", "backoff", "trace", "template", "transient"}
        /\ Len(replies') = Len(replies) + 1 /\ Len(replies') <= K
        /\ UNCHANGED <<modelCalls, sent>>
    <3>1. PICK r \in Replies :
             /\ replies' = Append(replies, r)
             /\ \/ Verdict(r) = "valid" /\ at' \in {"idle", "trace"} /\ UNCHANGED retries
                \/ Verdict(r) = "invalid" /\ Rejected
                \/ Verdict(r) = "transient" /\ Unavailable
                \/ Verdict(r) = "permanent" /\ at' = "template" /\ UNCHANGED retries
      BY <1>5, RespondCases
    <3>2. at = "request" /\ Len(replies') = Len(replies) + 1 /\ UNCHANGED <<modelCalls, sent>>
      BY <1>5, <3>1, RespondCases
    <3>3. at' \in {"idle", "pace", "backoff", "trace", "template", "transient"}
      BY <3>1 DEF Rejected, Unavailable
    <3>4. Len(replies') <= K
      BY <1>0 DEF RepliesCounted
    <3> QED BY <3>2, <3>3, <3>4
  <2> DEFINE before == (modelCalls - 1) * K
  <2>2. sent <= before + Len(replies) + 1 /\ before \in Nat /\ modelCalls >= 1
    BY <1>a, <2>1
  <2>3. (modelCalls' - 1) * RequestsPerCall' = before
    BY <1>0, <2>1
  <2>4. modelCalls' * RequestsPerCall' = before + K
    BY <1>0, <1>a, <2>1, <2>2
  <2> HIDE DEF before, K
  <2> QED BY <2>1, <2>2, <2>3, <2>4, Bounds DEF K
<1>6. CASE Backoff
  BY <1>0, <1>6 DEF Backoff
<1>7. CASE UNCHANGED vars
  BY <1>0, <1>7 DEF vars, clocks, retries
<1> QED BY <1>1, <1>2, <1>3, <1>4, <1>5, <1>6, <1>7 DEF Next, CallStep

\* One budgeted call sends at most 1 + MaxSchemaRetries + Len(Backoffs) requests
\* and a run at most that many for each call of its budget: GateRunner._call and
\* ADKJsonAgent.call, for every budget and every series of backoffs.
THEOREM RequestsAreBounded == Spec => []RequestsBounded
<1>1. Init => RepliesCounted /\ SentCounted
  <2>1. 0 * RequestsPerCall = 0
    BY Bounds
  <2> QED BY <2>1, Bounds, CallAssumption DEF Init, RepliesCounted, SentCounted, InCall
<1>2. TypeOK /\ RepliesCounted /\ SentCounted => RequestsBounded
  <2> SUFFICES ASSUME TypeOK, RepliesCounted, SentCounted PROVE RequestsBounded
    OBVIOUS
  <2> USE Bounds, CallAssumption DEF TypeOK
  <2>1. CASE at \in InCall
    <3> DEFINE before == (modelCalls - 1) * RequestsPerCall
    <3>1. modelCalls - 1 \in Nat /\ modelCalls = (modelCalls - 1) + 1
      BY <2>1 DEF SentCounted
    <3>2. modelCalls * RequestsPerCall = before + RequestsPerCall /\ before \in Nat
      BY <3>1, OneMore
    <3>3. sent <= before + RequestsPerCall
      <4>1. Len(replies) + (IF at = "request" THEN 1 ELSE 0) <= RequestsPerCall
        BY <2>1 DEF RepliesCounted, InCall
      <4> HIDE DEF before
      <4>2. sent <= before + Len(replies) + (IF at = "request" THEN 1 ELSE 0)
        BY <2>1 DEF SentCounted, before
      <4> QED BY <3>2, <4>1, <4>2
    <3> QED BY <3>2, <3>3 DEF RepliesCounted, RequestsBounded
  <2> QED BY <2>1 DEF RepliesCounted, SentCounted, RequestsBounded
<1> QED BY <1>1, <1>2, RepliesCountedStep, SentCountedStep, TypeCorrect, PTL DEF Spec

-----------------------------------------------------------------------------
\* The time this call has taken, against the requests it sent and the sleeps.
Request == Interval + LongestLatency

Spent == Len(replies) * Request + serviceRetries * LongestBackoff

TimeCounted ==
    /\ lastCallAt <= now /\ requestAt = lastCallAt
    /\ callAt <= MaxWallTime
    /\ at \in InCall \cup Failed =>
          now <= callAt + Spent + (IF at = "request" THEN Interval ELSE 0)

\* Every step keeps the account of the time.
LEMMA TimeCountedStep == TypeOK /\ TimeCounted /\ [Next]_vars => TimeCounted'
<1> USE CallAssumption, Bounds
<1> SUFFICES ASSUME TypeOK, TimeCounted, [Next]_vars PROVE TimeCounted'
  OBVIOUS
<1> USE DEF TypeOK, TimeCounted, InCall, Failed
<1>0. Request \in Nat /\ Spent \in Nat
  <2>1. Request \in Nat
    BY DEF Request
  <2>2. Len(replies) * Request \in Nat /\ serviceRetries * LongestBackoff \in Nat
    BY <2>1, OneMore
  <2>3. \A a, b \in Nat : a + b \in Nat
    OBVIOUS
  <2>4. Spent \in Nat
    BY ONLY <2>2, <2>3 DEF Spent
  <2> QED BY <2>1, <2>4
<1>1. CASE Call
  <2>1. /\ replies' = << >> /\ serviceRetries' = 0 /\ at' = "pace"
        /\ callAt' = now /\ now <= MaxWallTime
        /\ UNCHANGED <<now, lastCallAt, requestAt>>
    BY <1>1 DEF Call, LimitsAllow, Overtime, clocks
  <2>2. Spent' = 0 * Request + 0 * LongestBackoff
    BY <2>1 DEF Spent, Request
  <2>3. 0 * Request = 0 /\ 0 * LongestBackoff = 0
    BY <1>0
  <2> QED BY <2>1, <2>2, <2>3
<1>2. CASE Refuse
  BY <1>2 DEF Refuse, clocks
<1>3. CASE Work
  BY <1>3 DEF Work
<1>4. CASE SendPaced
  <2>1. /\ at = "pace" /\ at' = "request" /\ UNCHANGED callAt
        /\ now' = Later(now, lastCallAt + Interval)
        /\ lastCallAt' = now' /\ requestAt' = now'
        /\ Spent' = Spent
    BY <1>4 DEF SendPaced, Stamp, retries, Spent, Request
  <2>2. now' <= now + Interval
    BY <2>1 DEF Later
  <2> QED BY <1>0, <2>1, <2>2 DEF Later
<1>5. CASE Respond
  <2>1. PICK d \in Latencies : now' = now + d
    BY <1>5, RespondCases
  <2>2. /\ at = "request" /\ at' \notin {"request", "limit"}
        /\ Len(replies') = Len(replies) + 1
        /\ serviceRetries' = serviceRetries
        /\ UNCHANGED <<lastCallAt, requestAt, callAt>>
    <3>1. PICK r \in Replies :
             /\ replies' = Append(replies, r)
             /\ \/ Verdict(r) = "valid" /\ at' \in {"idle", "trace"} /\ UNCHANGED retries
                \/ Verdict(r) = "invalid" /\ Rejected
                \/ Verdict(r) = "transient" /\ Unavailable
                \/ Verdict(r) = "permanent" /\ at' = "template" /\ UNCHANGED retries
      BY <1>5, RespondCases
    <3>2. at' \notin {"request", "limit"} /\ serviceRetries' = serviceRetries
      BY <3>1 DEF Rejected, Unavailable, retries
    <3> QED BY <1>5, <3>1, <3>2, RespondCases
  <2>3. Spent' = Spent + Request
    <3>1. (Len(replies) + 1) * Request = Len(replies) * Request + Request
      BY <1>0, OneMore
    <3>2. Len(replies) * Request \in Nat /\ serviceRetries * LongestBackoff \in Nat
      BY <1>0, OneMore
    <3> QED BY <1>0, <2>2, <3>1, <3>2 DEF Spent, Request
  <2>4. d \in Nat /\ d <= LongestLatency
    OBVIOUS
  <2> QED BY <1>0, <2>1, <2>2, <2>3, <2>4 DEF Request
<1>6. CASE Backoff
  <2>1. /\ at = "backoff" /\ at' = "pace"
        /\ now' = now + Backoffs[serviceRetries + 1]
        /\ serviceRetries' = serviceRetries + 1
        /\ UNCHANGED <<lastCallAt, requestAt, replies, callAt>>
    BY <1>6 DEF Backoff
  <2>2. Backoffs[serviceRetries + 1] \in 0..LongestBackoff
    BY <2>1
  <2>3. Spent' = Spent + LongestBackoff
    <3>1. (serviceRetries + 1) * LongestBackoff
              = serviceRetries * LongestBackoff + LongestBackoff
      BY OneMore
    <3>2. Len(replies) * Request \in Nat /\ serviceRetries * LongestBackoff \in Nat
      BY <1>0, OneMore
    <3>3. /\ Spent = Len(replies) * Request + serviceRetries * LongestBackoff
          /\ Spent' = Len(replies) * Request + (serviceRetries + 1) * LongestBackoff
      BY <2>1 DEF Spent, Request
    <3>4. \A a, b, c \in Nat : a + (b + c) = (a + b) + c
      OBVIOUS
    <3> QED BY <1>0, <3>1, <3>2, <3>3, <3>4
  <2>4. now <= callAt + Spent /\ callAt <= MaxWallTime
    BY <1>0, <2>1
  <2>5. now' <= callAt + Spent' /\ Spent' \in Nat
    BY <1>0, <2>1, <2>2, <2>3, <2>4
  <2>6. lastCallAt' <= now' /\ requestAt' = lastCallAt'
    BY <2>1, <2>2
  <2> QED BY <2>1, <2>4, <2>5, <2>6
<1>7. CASE UNCHANGED vars
  BY <1>7 DEF vars, clocks, retries, Spent, Request
<1> QED BY <1>1, <1>2, <1>3, <1>4, <1>5, <1>6, <1>7 DEF Next, CallStep

\* The account of the time holds in every reachable state.
LEMMA TimeCountedAlways == Spec => []TimeCounted
<1>1. Init => TimeCounted
  BY CallAssumption DEF Init, TimeCounted, InCall, Failed
<1> QED BY <1>1, TimeCountedStep, TypeCorrect, PTL DEF Spec

\* While a call lasts, and when it fails, it is at most the longest call since
\* the wall time was over.
CallsShort == at \in InCall \cup Failed => now <= MaxWallTime + CallBound

\* The account of the time, against the most requests and sleeps of a call.
LEMMA CallsAreShort == TypeOK /\ RepliesCounted /\ TimeCounted => CallsShort
<1> SUFFICES ASSUME TypeOK, RepliesCounted, TimeCounted, at \in InCall \cup Failed
             PROVE  now <= MaxWallTime + CallBound
  BY DEF CallsShort
<1> USE CallAssumption, Bounds DEF TypeOK
<1>1. Request \in Nat
  BY DEF Request
<1>2. Len(replies) * Request <= RequestsPerCall * Request
  BY <1>1, TimesMonotone DEF RepliesCounted
<1>3. serviceRetries * LongestBackoff <= Len(Backoffs) * LongestBackoff
  <2>1. /\ serviceRetries \in Nat /\ Len(Backoffs) \in Nat /\ LongestBackoff \in Nat
        /\ serviceRetries <= Len(Backoffs)
    OBVIOUS
  <2> HIDE DEF TypeOK
  <2> QED BY <2>1, TimesMonotone
<1>4. at = "request" => (Len(replies) + 1) * Request <= RequestsPerCall * Request
  <2>1. at = "request" => Len(replies) + 1 \in Nat /\ Len(replies) + 1 <= RequestsPerCall
    BY DEF RepliesCounted
  <2> QED BY <1>1, <2>1, TimesMonotone
<1>5. (Len(replies) + 1) * Request = Len(replies) * Request + Request
  BY <1>1, OneMore
<1>6. /\ Len(replies) * Request \in Nat /\ RequestsPerCall * Request \in Nat
      /\ serviceRetries * LongestBackoff \in Nat /\ Len(Backoffs) * LongestBackoff \in Nat
  BY <1>1, OneMore
<1>7. CallBound = RequestsPerCall * Request + Len(Backoffs) * LongestBackoff
  BY DEF CallBound, Request
<1>8. /\ callAt <= MaxWallTime
      /\ now <= callAt + (Len(replies) * Request + serviceRetries * LongestBackoff)
                  + (IF at = "request" THEN Interval ELSE 0)
  BY DEF TimeCounted, Spent
<1>9. Interval <= Request
  BY DEF Request
<1> DEFINE asked == Len(replies) * Request
           most == RequestsPerCall * Request
           slept == serviceRetries * LongestBackoff
           longest == Len(Backoffs) * LongestBackoff
<1> HIDE DEF asked, most, slept, longest
<1>10. /\ asked \in Nat /\ most \in Nat /\ slept \in Nat /\ longest \in Nat
       /\ asked <= most /\ slept <= longest
       /\ at = "request" => asked + Request <= most
       /\ now <= callAt + (asked + slept) + (IF at = "request" THEN Interval ELSE 0)
       /\ CallBound = most + longest
  BY <1>2, <1>3, <1>4, <1>5, <1>6, <1>7, <1>8 DEF asked, most, slept, longest
<1> QED BY <1>1, <1>8, <1>9, <1>10

\* The last request of the run, against the longest call.
LastAsked == requestAt <= MaxWallTime + CallBound

\* A request is sent at the time at which the call waits for its answer.
LEMMA LastAskedStep == LastAsked /\ CallsShort' /\ [Next]_vars => LastAsked'
<1> SUFFICES ASSUME LastAsked, CallsShort', [Next]_vars PROVE LastAsked'
  OBVIOUS
<1>1. CallBound' = CallBound
  BY DEF CallBound, RequestsPerCall
<1>2. CASE SendPaced
  <2>1. at' = "request" /\ requestAt' = now'
    BY <1>2 DEF SendPaced
  <2> QED BY <2>1 DEF LastAsked, CallsShort, InCall
<1>3. CASE ~SendPaced
  <2>1. requestAt' = requestAt
    BY <1>3 DEF Next, CallStep, Call, Refuse, Work, Respond, Backoff, vars, clocks
  <2> QED BY <1>1, <2>1 DEF LastAsked
<1> QED BY <1>2, <1>3

\* However long the gate works between its calls, no call begins after
\* max_wall_time, and none asks, waits or fails later than the longest call after
\* it: _check_limits, for every wall time, interval, series of backoffs and bound
\* on the latency.
THEOREM OvertimeIsBounded == Spec => []OvertimeBounded
<1>1. Init => RepliesCounted
  BY Bounds, CallAssumption DEF Init, RepliesCounted
<1>2. Init => LastAsked
  <2>1. CallBound \in Nat
    <3>1. RequestsPerCall * (Interval + LongestLatency) \in Nat
      BY Bounds, OneMore
    <3>2. Len(Backoffs) * LongestBackoff \in Nat
      BY Bounds, OneMore, CallAssumption
    <3>3. \A a, b \in Nat : a + b \in Nat
      OBVIOUS
    <3> QED BY ONLY <3>1, <3>2, <3>3 DEF CallBound
  <2> QED BY <2>1, CallAssumption DEF Init, LastAsked
<1>3. TypeOK /\ RepliesCounted /\ TimeCounted /\ LastAsked => OvertimeBounded
  BY CallsAreShort DEF CallsShort, OvertimeBounded, TimeCounted, LastAsked
<1> QED
  BY <1>1, <1>2, <1>3, RepliesCountedStep, CallsAreShort, LastAskedStep, TimeCountedAlways,
     TypeCorrect, PTL DEF Spec

\* Two requests of a process start at least the interval apart: _pace_calls.
THEOREM RequestsArePaced == Spec => RequestsPaced
<1>1. TypeOK /\ TimeCounted /\ [Next]_vars
        => (requestAt' # requestAt => requestAt' - requestAt >= Interval)
  <2> SUFFICES ASSUME TypeOK, TimeCounted, [Next]_vars, requestAt' # requestAt
               PROVE  requestAt' - requestAt >= Interval
    OBVIOUS
  <2>1. CASE SendPaced
    BY <2>1, CallAssumption DEF SendPaced, Later, Stamp, TypeOK, TimeCounted
  <2>2. CASE Respond
    BY <2>2, RespondCases
  <2> QED BY <2>1, <2>2 DEF Next, CallStep, Call, Refuse, Work, Backoff, clocks, vars
<1>2. TypeOK /\ TimeCounted /\ [Next]_vars
        => [requestAt' # requestAt => requestAt' - requestAt >= Interval]_vars
  BY <1>1
<1> QED BY <1>2, TypeCorrect, TimeCountedAlways, PTL DEF Spec, RequestsPaced

-----------------------------------------------------------------------------
\* What the counters say of the kinds of the replies: while a call goes on, each
\* of its replies was a reason to ask again and is counted as what it was.
Earned ==
    /\ at \in InCall =>
         /\ \A i \in DOMAIN replies : WasTransient(replies[i]) \/ WasInvalid(replies[i])
         /\ Invalids = schemaAttempts
         /\ Transients = serviceRetries + (IF at = "backoff" THEN 1 ELSE 0)
    /\ RetriesAreEarned

\* Counting the elements of a range that have a property, one more at a time.
LEMMA CountNext ==
    ASSUME NEW n \in Nat, NEW S, NEW T, S \subseteq 1..n,
           T = S \/ T = S \cup {n + 1}
    PROVE  /\ Cardinality(S) \in Nat
           /\ Cardinality(T) = Cardinality(S) + (IF n + 1 \in T THEN 1 ELSE 0)
<1>1. IsFiniteSet(S)
  <2>1. 1 \in Int /\ n \in Int
    OBVIOUS
  <2>2. IsFiniteSet(1..n)
    BY <2>1, FS_Interval
  <2> QED
    BY <2>2, FS_Subset
<1>2. Cardinality(S) \in Nat
  BY <1>1, FS_CardinalityType
<1>3. n + 1 \notin S
  OBVIOUS
<1>4. CASE T = S
  BY <1>2, <1>3, <1>4
<1>5. CASE T = S \cup {n + 1}
  <2>1. Cardinality(T) = Cardinality(S) + 1
    BY <1>1, <1>3, <1>5, FS_AddElement
  <2>2. n + 1 \in T
    BY <1>5
  <2> QED
    BY <1>2, <2>1, <2>2
<1> QED
  BY <1>4, <1>5

\* What one more reply adds to the two counts.
LEMMA ReplyCounts ==
    ASSUME TypeOK, NEW r \in Replies, replies' = Append(replies, r)
    PROVE  /\ Len(replies) \in Nat /\ DOMAIN replies = 1..Len(replies)
           /\ Len(replies') = Len(replies) + 1 /\ DOMAIN replies' = 1..(Len(replies) + 1)
           /\ \A i \in 1..Len(replies) : replies'[i] = replies[i]
           /\ replies'[Len(replies) + 1] = r
           /\ \A i \in 1..(Len(replies) + 1) : i \in 1..Len(replies) \/ i = Len(replies) + 1
           /\ Transients \in Nat /\ Invalids \in Nat
           /\ Transients' = Transients + (IF WasTransient(r) THEN 1 ELSE 0)
           /\ Invalids' = Invalids + (IF WasInvalid(r) THEN 1 ELSE 0)
<1> DEFINE n == Len(replies)
<1>1. /\ n \in Nat /\ DOMAIN replies = 1..n
      /\ Len(replies') = n + 1 /\ DOMAIN replies' = 1..(n + 1)
      /\ \A i \in 1..n : replies'[i] = replies[i]
      /\ replies'[n + 1] = r
      /\ \A i \in 1..(n + 1) : i \in 1..n \/ i = n + 1
  BY DEF TypeOK
<1>2. n + 1 \in 1..(n + 1) /\ \A i \in 1..n : i \in 1..(n + 1) /\ i # n + 1
  BY <1>1
<1> HIDE DEF n
<1>3. Transients \in Nat /\ Transients' = Transients + (IF WasTransient(r) THEN 1 ELSE 0)
  <2> DEFINE S == {i \in 1..n : WasTransient(replies[i])}
             T == {i \in 1..(n + 1) : WasTransient(replies'[i])}
  <2>1. S \subseteq 1..n
    OBVIOUS
  <2>2. n + 1 \in T <=> WasTransient(r)
    BY <1>1, <1>2
  <2>3. T = S \/ T = S \cup {n + 1}
    BY <1>1, <1>2
  <2>4. Transients = Cardinality(S) /\ Transients' = Cardinality(T)
    BY <1>1 DEF Transients, WasTransient
  <2> HIDE DEF S, T
  <2>5. n \in Nat
    BY <1>1
  <2>6. /\ Cardinality(S) \in Nat
        /\ Cardinality(T) = Cardinality(S) + (IF n + 1 \in T THEN 1 ELSE 0)
    BY <2>1, <2>3, <2>5, CountNext
  <2> QED
    BY <2>2, <2>4, <2>6
<1>4. Invalids \in Nat /\ Invalids' = Invalids + (IF WasInvalid(r) THEN 1 ELSE 0)
  <2> DEFINE S == {i \in 1..n : WasInvalid(replies[i])}
             T == {i \in 1..(n + 1) : WasInvalid(replies'[i])}
  <2>1. S \subseteq 1..n
    OBVIOUS
  <2>2. n + 1 \in T <=> WasInvalid(r)
    BY <1>1, <1>2
  <2>3. T = S \/ T = S \cup {n + 1}
    BY <1>1, <1>2
  <2>4. Invalids = Cardinality(S) /\ Invalids' = Cardinality(T)
    BY <1>1 DEF Invalids, WasInvalid
  <2> HIDE DEF S, T
  <2>5. n \in Nat
    BY <1>1
  <2>6. /\ Cardinality(S) \in Nat
        /\ Cardinality(T) = Cardinality(S) + (IF n + 1 \in T THEN 1 ELSE 0)
    BY <2>1, <2>3, <2>5, CountNext
  <2> QED
    BY <2>2, <2>4, <2>6
<1> QED
  BY <1>1, <1>3, <1>4 DEF n

\* Every step keeps it; only Respond adds a reply.
LEMMA EarnedStep == TypeOK /\ Earned /\ [Next]_vars => Earned'
<1> SUFFICES ASSUME TypeOK, Earned, [Next]_vars PROVE Earned'
  OBVIOUS
<1>1. CASE Call
  <2>1. at' = "pace" /\ replies' = << >> /\ schemaAttempts' = 0 /\ serviceRetries' = 0
    BY <1>1 DEF Call
  <2>2. /\ {i \in DOMAIN replies' : WasTransient(replies'[i])} = {}
        /\ {i \in DOMAIN replies' : WasInvalid(replies'[i])} = {}
        /\ \A i \in DOMAIN replies' : FALSE
        /\ \A i \in 1..(Len(replies') - 1) : FALSE
    BY <2>1
  <2>3. Transients' = 0 /\ Invalids' = 0
    BY <2>2, FS_EmptySet DEF Transients, Invalids, WasTransient, WasInvalid
  <2> QED
    BY <2>1, <2>2, <2>3 DEF Earned, RetriesAreEarned
<1>2. CASE Refuse \/ Work
  <2>1. at' \in {"limit", "idle"} /\ replies' = replies
    BY <1>2 DEF Refuse, Work
  <2> QED
    BY <2>1 DEF Earned, RetriesAreEarned, InCall, WasTransient, WasInvalid
<1>3. CASE SendPaced
  <2>1. at = "pace" /\ at' = "request" /\ UNCHANGED <<replies, schemaAttempts, serviceRetries>>
    BY <1>3 DEF SendPaced, retries
  <2> QED
    BY <2>1 DEF Earned, RetriesAreEarned, InCall, WasTransient, WasInvalid, Transients, Invalids
<1>4. CASE Respond
  <2> DEFINE n == Len(replies)
  <2>1. PICK r \in Replies :
           /\ replies' = Append(replies, r)
           /\ \/ Verdict(r) = "valid" /\ at' \in {"idle", "trace"} /\ UNCHANGED retries
              \/ Verdict(r) = "invalid" /\ Rejected
              \/ Verdict(r) = "transient" /\ Unavailable
              \/ Verdict(r) = "permanent" /\ at' = "template" /\ UNCHANGED retries
    BY <1>4, RespondCases
  <2>2. /\ n \in Nat /\ DOMAIN replies = 1..n
        /\ Len(replies') = n + 1 /\ DOMAIN replies' = 1..(n + 1)
        /\ \A i \in 1..n : replies'[i] = replies[i]
        /\ replies'[n + 1] = r
        /\ \A i \in 1..(n + 1) : i \in 1..n \/ i = n + 1
        /\ Transients \in Nat /\ Invalids \in Nat
        /\ Transients' = Transients + (IF WasTransient(r) THEN 1 ELSE 0)
        /\ Invalids' = Invalids + (IF WasInvalid(r) THEN 1 ELSE 0)
    BY <2>1, ReplyCounts
  <2>3. /\ \A i \in 1..n : WasTransient(replies[i]) \/ WasInvalid(replies[i])
        /\ Invalids = schemaAttempts /\ Transients = serviceRetries
    BY <1>4, <2>2, RespondCases DEF Earned, InCall, TypeOK
  <2>4. /\ Verdict(r) = "transient" <=> WasTransient(r)
        /\ Verdict(r) = "invalid" <=> WasInvalid(r)
        /\ Verdict(r) = "permanent" => WasPermanent(r)
        /\ ~(WasTransient(r) /\ WasInvalid(r))
    BY DEF Verdict, Replies, WasTransient, WasInvalid, WasPermanent
  <2>5. \A i \in 1..n : WasTransient(replies'[i]) \/ WasInvalid(replies'[i])
    BY <2>2, <2>3
  <2>6. \A i \in 1..(Len(replies') - 1) : WasTransient(replies'[i]) \/ WasInvalid(replies'[i])
    BY <2>2, <2>5
  <2>7. /\ schemaAttempts \in Nat /\ serviceRetries \in Nat /\ Len(Backoffs) \in Nat
        /\ schemaAttempts <= MaxSchemaRetries /\ serviceRetries <= Len(Backoffs)
        /\ MaxSchemaRetries \in Nat
    BY CallAssumption DEF TypeOK
  <2>8. CASE Verdict(r) = "valid" /\ at' \in {"idle", "trace"}
    BY <2>6, <2>8 DEF Earned, RetriesAreEarned, InCall, WasTransient, WasInvalid
  <2>9. CASE Verdict(r) = "invalid" /\ Rejected
    <3>1. Invalids' = schemaAttempts + 1 /\ Transients' = serviceRetries /\ WasInvalid(r)
      BY <2>2, <2>3, <2>4, <2>7, <2>9
    <3>2. \A i \in DOMAIN replies' : WasTransient(replies'[i]) \/ WasInvalid(replies'[i])
      BY <2>2, <2>5, <3>1
    <3>3. CASE SchemaRetriesLeft
      <4>1. at' = "pace" /\ schemaAttempts' = schemaAttempts + 1 /\ serviceRetries' = serviceRetries
        BY <2>9, <3>3 DEF Rejected
      <4> QED
        BY <2>6, <2>7, <3>1, <3>2, <4>1 DEF Earned, RetriesAreEarned, WasTransient, WasInvalid
    <3>4. CASE ~SchemaRetriesLeft
      <4>1. at' = "template"
        BY <2>9, <3>4 DEF Rejected
      <4>2. Invalids' = MaxSchemaRetries + 1
        BY <2>7, <3>1, <3>4 DEF SchemaRetriesLeft
      <4> QED
        BY <2>6, <4>1, <4>2 DEF Earned, RetriesAreEarned, InCall, WasTransient, WasInvalid
    <3> QED
      BY <3>3, <3>4
  <2>10. CASE Verdict(r) = "transient" /\ Unavailable
    <3>1. Transients' = serviceRetries + 1 /\ Invalids' = schemaAttempts /\ WasTransient(r)
      BY <2>2, <2>3, <2>4, <2>7, <2>10
    <3>2. \A i \in DOMAIN replies' : WasTransient(replies'[i]) \/ WasInvalid(replies'[i])
      BY <2>2, <2>5, <3>1
    <3>3. schemaAttempts' = schemaAttempts /\ serviceRetries' = serviceRetries
      BY <2>10 DEF Unavailable, retries
    <3>4. CASE ServiceRetriesLeft
      <4>1. at' = "backoff"
        BY <2>10, <3>4 DEF Unavailable
      <4> QED
        BY <2>6, <3>1, <3>2, <3>3, <4>1 DEF Earned, RetriesAreEarned, WasTransient, WasInvalid
    <3>5. CASE ~ServiceRetriesLeft
      <4>1. at' = "transient"
        BY <2>10, <3>5 DEF Unavailable
      <4>2. Transients' = Len(Backoffs) + 1
        BY <2>7, <3>1, <3>5 DEF ServiceRetriesLeft
      <4> QED
        BY <2>6, <4>1, <4>2 DEF Earned, RetriesAreEarned, InCall, WasTransient, WasInvalid
    <3> QED
      BY <3>4, <3>5
  <2>11. CASE Verdict(r) = "permanent" /\ at' = "template"
    <3>1. WasPermanent(replies'[Len(replies')])
      BY <2>2, <2>4, <2>11
    <3> QED
      BY <2>6, <2>11, <3>1
         DEF Earned, RetriesAreEarned, InCall, WasTransient, WasInvalid, WasPermanent
  <2> QED
    BY <2>1, <2>8, <2>9, <2>10, <2>11
<1>5. CASE Backoff
  <2>1. /\ at = "backoff" /\ at' = "pace" /\ replies' = replies
        /\ serviceRetries' = serviceRetries + 1 /\ schemaAttempts' = schemaAttempts
    BY <1>5 DEF Backoff
  <2>2. Transients' = Transients /\ Invalids' = Invalids
    BY <2>1 DEF Transients, Invalids, WasTransient, WasInvalid
  <2>3. /\ \A i \in DOMAIN replies : WasTransient(replies[i]) \/ WasInvalid(replies[i])
        /\ Invalids = schemaAttempts /\ Transients = serviceRetries + 1
    BY <2>1 DEF Earned, InCall
  <2>4. serviceRetries' \in Nat /\ serviceRetries' + 0 = serviceRetries'
    BY <2>1 DEF TypeOK
  <2> QED
    BY <2>1, <2>2, <2>3, <2>4 DEF Earned, RetriesAreEarned, WasTransient, WasInvalid
<1>6. CASE UNCHANGED vars
  BY <1>6 DEF vars, retries, Earned, RetriesAreEarned, WasTransient, WasInvalid, WasPermanent,
              Transients, Invalids
<1> QED
  BY <1>1, <1>2, <1>3, <1>4, <1>5, <1>6 DEF Next, CallStep

\* Whatever closing a runner hides, a permanent error is never asked again, and a
\* call gives up only when the retries of the kind it met are spent: for every
\* number of schema retries and every series of backoffs (agents.py:113-134,
\* 181-195).
THEOREM EveryRetryIsEarned == Spec => []RetriesAreEarned
<1>1. Init => Earned
  BY DEF Init, Earned, RetriesAreEarned, InCall
<1>2. Earned => RetriesAreEarned
  BY DEF Earned
<1> QED BY <1>1, <1>2, EarnedStep, TypeCorrect, PTL DEF Spec
-----------------------------------------------------------------------------
\* Why a call ends: a measure that every step of call() lowers.  A request that is
\* left takes a pacing, an answer and perhaps a backoff.
CallMeasure ==
    CASE at = "pace"    -> 3 * (RequestsPerCall - Len(replies))
      [] at = "request" -> 3 * (RequestsPerCall - Len(replies)) - 1
      [] at = "backoff" -> 3 * (RequestsPerCall - Len(replies)) + 1
      [] OTHER          -> 0

\* Every step of call() lowers the measure, which stays a natural number.
LEMMA CallStepLowers ==
    ASSUME TypeOK, RepliesCounted, RepliesCounted', CallStep
    PROVE  CallMeasure \in Nat /\ CallMeasure' \in Nat /\ CallMeasure' < CallMeasure
<1>1. /\ RequestsPerCall \in Nat /\ RequestsPerCall' = RequestsPerCall
      /\ RequestsPerCall = 1 + MaxSchemaRetries + Len(Backoffs)
      /\ MaxSchemaRetries \in Nat /\ Len(Backoffs) \in Nat /\ Len(replies) \in Nat
      /\ schemaAttempts \in 0..MaxSchemaRetries /\ serviceRetries \in 0..Len(Backoffs)
  BY Bounds, CallAssumption DEF TypeOK, RequestsPerCall
<1>2. /\ Len(replies) <= RequestsPerCall
      /\ at \in {"pace", "request"} => Len(replies) < RequestsPerCall
  BY <1>1 DEF RepliesCounted
<1>3. CASE SendPaced
  <2>1. at = "pace" /\ at' = "request" /\ replies' = replies
    BY <1>3 DEF SendPaced
  <2> DEFINE left == RequestsPerCall - Len(replies)
  <2>2. left \in Nat /\ left > 0
    BY <1>1, <1>2, <2>1
  <2>3. CallMeasure = 3 * left /\ CallMeasure' = 3 * left - 1
    BY <2>1 DEF CallMeasure
  <2> HIDE DEF left
  <2> QED
    BY <2>2, <2>3
<1>4. CASE Respond
  <2>1. PICK r \in Replies :
           /\ replies' = Append(replies, r)
           /\ \/ Verdict(r) = "valid" /\ at' \in {"idle", "trace"} /\ UNCHANGED retries
              \/ Verdict(r) = "invalid" /\ Rejected
              \/ Verdict(r) = "transient" /\ Unavailable
              \/ Verdict(r) = "permanent" /\ at' = "template" /\ UNCHANGED retries
    BY <1>4, RespondCases
  <2>2. at = "request" /\ Len(replies') = Len(replies) + 1
    BY <1>4, <2>1, RespondCases DEF TypeOK
  <2>3. at' \in {"pace", "backoff", "idle", "trace", "template", "transient"}
    BY <2>1 DEF Rejected, Unavailable
  <2>4. Len(replies) + 1 <= RequestsPerCall
    BY <1>1, <1>2, <2>2
  <2> DEFINE left == RequestsPerCall - (Len(replies) + 1)
  <2>5. left \in Nat /\ RequestsPerCall - Len(replies) = left + 1
        /\ RequestsPerCall - Len(replies') = left
    BY <1>1, <2>2, <2>4
  <2>6. CallMeasure = 3 * (left + 1) - 1
    BY <2>2, <2>5 DEF CallMeasure
  <2> HIDE DEF left
  <2>7. CallMeasure' \in {3 * left, 3 * left + 1, 0}
    BY <1>1, <2>3, <2>5 DEF CallMeasure
  <2> QED
    BY <2>5, <2>6, <2>7
<1>5. CASE Backoff
  <2>1. at = "backoff" /\ at' = "pace" /\ replies' = replies
    BY <1>5 DEF Backoff
  <2> DEFINE left == RequestsPerCall - Len(replies)
  <2>2. left \in Nat
    BY <1>1, <1>2
  <2>3. CallMeasure = 3 * left + 1 /\ CallMeasure' = 3 * left
    BY <2>1 DEF CallMeasure
  <2> HIDE DEF left
  <2> QED
    BY <2>2, <2>3
<1> QED
  BY <1>3, <1>4, <1>5 DEF CallStep

\* The loop "while True" of call() makes boundedly many steps: each lowers a natural
\* number, which only a new call raises (agents.py:117).  That it makes them is the
\* fairness of the service and of the sleeps.
THEOREM CallDescends ==
    Spec => [][CallStep => CallMeasure' < CallMeasure /\ CallMeasure' \in Nat]_vars
<1>1. Init => RepliesCounted
  BY Bounds, CallAssumption DEF Init, RepliesCounted
<1>2. TypeOK /\ RepliesCounted /\ RepliesCounted' /\ [Next]_vars
         => [CallStep => CallMeasure' < CallMeasure /\ CallMeasure' \in Nat]_vars
  BY CallStepLowers
<1> QED BY <1>1, <1>2, RepliesCountedStep, TypeCorrect, PTL DEF Spec
=============================================================================
