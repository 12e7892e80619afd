-------------------------- MODULE LLMClientProofs --------------------------
(***************************************************************************)
(* What holds of the upstream client for every number of callers, every    *)
(* set of kinds, every number of exits and every retry budget.  All of it  *)
(* is about one request record, so the invariant is a predicate of one     *)
(* record, Sound, and the work is in what one answer does to it.  The last *)
(* section carries the breaker's theorems over the refinement.             *)
(***************************************************************************)
EXTENDS LLMClient, TLAPS

RequestType ==
    [phase : Phases, kind : Kinds, probe : BOOLEAN,
     retries : 0..MaxRetries, failovers : 0..ExitCount,
     limitSeen : BOOLEAN, final : Answers]

(* No retry beyond the configured ones.                                    *)
WithinRetries(q) == q.retries < MaxAttempts(q.kind)

OneAttempt(q) == q.probe => q.retries = 0 /\ q.failovers = 0

(* A request that has moved on after a rate limit is one that may.         *)
LimitSeenInWalk(q) == q.limitSeen => ~q.probe /\ q.kind.call # "stream"

BestAnswer(q) ==
    q.phase = "ending" /\ q.limitSeen =>
        /\ q.final # "unavailable"
        /\ q.kind.call = "raw" => q.final # "transport"

(* Who may hold the half-open token, and who is charged for a rate limit.  *)
TokenHolder(q) ==
    /\ q.probe => ~q.kind.discovery /\ q.phase \notin {"idle", "backoff"}
    /\ q.phase = "charging" => ~q.kind.discovery

Sound(q) ==
    /\ WithinRetries(q) /\ OneAttempt(q) /\ LimitSeenInWalk(q)
    /\ BestAnswer(q) /\ TokenHolder(q)

IInv ==
    /\ req \in [Requests -> RequestType]
    /\ \A r \in Requests : Sound(req[r])

-----------------------------------------------------------------------------
(* There is always one attempt, and never more than the retries allow.     *)
LEMMA AttemptsBounded ==
    ASSUME NEW k \in Kinds
    PROVE  MaxAttempts(k) \in 1..(MaxRetries + 1)
BY ClientAssumption DEF MaxAttempts

(* One answer keeps a request sound, whatever it is and whatever exits are *)
(* left: the budgets hold, a probe ends, and a rate limit stays the best   *)
(* answer.                                                                 *)
LEMMA AnswerKeeps ==
    ASSUME NEW q \in RequestType, Sound(q), q.phase = "sent",
           NEW a \in Answers, NEW u \in BOOLEAN
    PROVE  AfterAnswer(q, a, u) \in RequestType /\ Sound(AfterAnswer(q, a, u))
<1> DEFINE final == \/ q.kind.call = "stream" \/ q.probe
                    \/ a \notin {"unavailable", "limited", "transport"}
           moves == ~final /\ a # "transport" /\ CanFailOver(q, u)
           waits == ~final /\ ~moves /\ a # "limited" /\ CanRetry(q)
           best  == IF a = "transport" /\ q.kind.call = "passthrough" THEN a ELSE Surfaced(q, a)
<1> USE ClientAssumption DEF RequestType, Phases, Sound
<1>1. MaxAttempts(q.kind) \in 1..(MaxRetries + 1)
  BY AttemptsBounded
<1>2. CASE final
  <2>1. AfterAnswer(q, a, u) = End(q, a)
    BY <1>2 DEF AfterAnswer
  <2>2. QED
    BY <1>2, <2>1 DEF End, WithinRetries, OneAttempt, LimitSeenInWalk, BestAnswer,
           TokenHolder
<1>3. CASE moves
  <2>1. PICK seen \in BOOLEAN : seen = (q.limitSeen \/ a = "limited")
    BY Zenon
  <2> DEFINE n == FailOver([q EXCEPT !.limitSeen = seen])
  <2>2. AfterAnswer(q, a, u) = n
    BY <1>3, <2>1 DEF AfterAnswer
  <2>3. n \in RequestType
    <3>1. q.failovers + 1 \in 0..ExitCount
      BY <1>3 DEF CanFailOver
    <3> HIDE DEF moves
    <3>2. QED
      BY <3>1 DEF FailOver
  <2>4. ~q.probe /\ q.kind.call # "stream"
    BY <1>3
  <2>5. /\ n.phase = "sent" /\ n.kind = q.kind /\ n.probe = q.probe
        /\ n.retries = q.retries
    BY DEF FailOver
  <2>6. Sound(n)
    BY <2>4, <2>5 DEF WithinRetries, OneAttempt, LimitSeenInWalk, BestAnswer,
           TokenHolder
  <2>7. QED
    BY <2>2, <2>3, <2>6
<1>4. CASE waits
  <2> DEFINE n == Backoff(q)
  <2>1. AfterAnswer(q, a, u) = n
    BY <1>4 DEF AfterAnswer
  <2>2. q.retries + 1 \in 0..MaxRetries /\ q.retries + 1 < MaxAttempts(q.kind)
    BY <1>1, <1>4 DEF CanRetry
  <2>3. ~q.probe
    BY <1>4
  <2> HIDE DEF waits
  <2>4. n \in RequestType
    BY <2>2 DEF Backoff
  <2>5. /\ n.phase = "backoff" /\ n.kind = q.kind /\ n.probe = q.probe
        /\ n.retries = q.retries + 1 /\ n.limitSeen = q.limitSeen
    BY DEF Backoff
  <2>6. Sound(n)
    BY <2>2, <2>3, <2>5 DEF WithinRetries, OneAttempt, LimitSeenInWalk, BestAnswer,
           TokenHolder
  <2>7. QED
    BY <2>1, <2>4, <2>6
<1>5. CASE ~final /\ ~moves /\ ~waits
  <2>1. AfterAnswer(q, a, u) = End(q, best)
    BY <1>5 DEF AfterAnswer
  <2>2. best \in Answers /\ (q.limitSeen /\ ~(a = "transport" /\ q.kind.call = "passthrough")
                              => best = "limited")
    BY DEF Surfaced, Answers
  <2>3. QED
    BY <1>5, <2>1, <2>2 DEF End, WithinRetries, OneAttempt, LimitSeenInWalk, BestAnswer,
           TokenHolder
<1>6. QED
  BY <1>2, <1>3, <1>4, <1>5

(* A request that rests, or has just begun, is sound.                      *)
LEMMA FreshIsSound ==
    ASSUME NEW ph \in {"idle", "sent"}, NEW k \in Kinds, NEW p \in BOOLEAN,
           p => ph = "sent" /\ ~k.discovery
    PROVE  Fresh(ph, k, p) \in RequestType /\ Sound(Fresh(ph, k, p))
<1>1. Fresh(ph, k, p) \in RequestType
  BY ClientAssumption DEF Fresh, RequestType, Phases, Answers
<1>2. Sound(Fresh(ph, k, p))
  BY AttemptsBounded DEF Fresh, Sound, WithinRetries, OneAttempt, LimitSeenInWalk, BestAnswer,
           TokenHolder
<1>3. QED
  BY <1>1, <1>2

LEMMA RestIsSound == Resting \in RequestType /\ Sound(Resting)
<1>1. (CHOOSE k \in Kinds : TRUE) \in Kinds
  BY KindAssumption
<1>2. QED
  BY <1>1, FreshIsSound DEF Resting

-----------------------------------------------------------------------------
(* The invariant is kept by every step: a step replaces at most one record *)
(* by one that is resting, begun, or the outcome of an answer.             *)
LEMMA StepOfOne ==
    ASSUME IInv, NEW r \in Requests, NEW q \in RequestType, Sound(q),
           req' = [req EXCEPT ![r] = q]
    PROVE  IInv'
BY DEF IInv

THEOREM Invariance == SafeSpec => []IInv
<1>1. Init => IInv
  BY RestIsSound DEF Init, IInv
<1>2. IInv /\ [Next]_vars => IInv'
  <2> SUFFICES ASSUME IInv, [Next]_vars PROVE IInv'
    OBVIOUS
  <2>1. ASSUME NEW r \in Requests, NEW k \in Kinds, Begin(r, k) PROVE IInv'
    <3>1. PICK p \in BOOLEAN :
             /\ k.discovery => ~p
             /\ req' = [req EXCEPT ![r] = Fresh("sent", k, p)]
      BY <2>1 DEF Begin
    <3>2. QED
      BY <3>1, FreshIsSound, StepOfOne
  <2>2. ASSUME NEW r \in Requests, NEW a \in Answers, Answer(r, a) PROVE IInv'
    <3>1. PICK u \in BOOLEAN : req' = [req EXCEPT ![r] = AfterAnswer(@, a, u)]
      BY <2>2 DEF Answer
    <3>2. req[r] \in RequestType /\ Sound(req[r]) /\ req[r].phase = "sent"
      BY <2>2 DEF Answer, IInv
    <3>3. QED
      BY <3>1, <3>2, AnswerKeeps, StepOfOne
  <2>3. ASSUME NEW r \in Requests, Rest(r) PROVE IInv'
    BY <2>3, RestIsSound, StepOfOne DEF Rest
  <2>4. ASSUME NEW r \in Requests, BackoffEnds(r) PROVE IInv'
    <3> DEFINE q == [req[r] EXCEPT !.phase = "sent"]
    <3>1. req[r] \in RequestType /\ Sound(req[r])
      BY DEF IInv
    <3>2. q \in RequestType
      BY <3>1 DEF RequestType, Phases
    <3>3. Sound(q)
      BY <3>1 DEF RequestType, Sound, WithinRetries, OneAttempt, LimitSeenInWalk, BestAnswer,
           TokenHolder
    <3>4. req' = [req EXCEPT ![r] = q]
      BY <2>4 DEF BackoffEnds
    <3>5. QED
      BY <3>2, <3>3, <3>4, StepOfOne
  <2>5. ASSUME NEW r \in Requests, CompleteLimited(r) PROVE IInv'
    <3> DEFINE q == [req[r] EXCEPT !.phase = "charging"]
    <3>1. req[r] \in RequestType /\ Sound(req[r]) /\ ~req[r].kind.discovery
      BY <2>5 DEF IInv, CompleteLimited
    <3>2. q \in RequestType
      BY <3>1 DEF RequestType, Phases
    <3>3. /\ q.phase = "charging" /\ q.kind = req[r].kind /\ q.probe = req[r].probe
          /\ q.retries = req[r].retries /\ q.failovers = req[r].failovers
          /\ q.limitSeen = req[r].limitSeen
      BY <3>1 DEF RequestType
    <3>4. Sound(q)
      BY <3>1, <3>3 DEF Sound, WithinRetries, OneAttempt, LimitSeenInWalk, BestAnswer,
                        TokenHolder
    <3>5. req' = [req EXCEPT ![r] = q] \/ Rest(r)
      BY <2>5 DEF CompleteLimited
    <3>6. QED
      BY <3>2, <3>4, <3>5, <2>3, StepOfOne
  <2>6. CASE UNCHANGED req
    BY <2>6 DEF IInv
  <2>7. QED
    BY <2>1, <2>2, <2>3, <2>4, <2>5, <2>6
       DEF Next, Progress, CompleteSuccess, CompleteFailure, ChargeRateLimit,
           CompleteDiscovery, BuildError, CancelInBackoff, TimeoutPasses, vars
<1>3. QED
  BY <1>1, <1>2, PTL DEF SafeSpec

(* Type correctness of the requests.                                       *)
THEOREM TypeCorrect == SafeSpec => []TypeOK
<1>1. Init => leaked \in BOOLEAN
  BY DEF Init
<1>2. leaked \in BOOLEAN /\ [Next]_vars => (leaked \in BOOLEAN)'
  BY Zenon DEF Next, Begin, Progress, BackoffEnds, Answer, CompleteSuccess, CompleteFailure,
               CompleteLimited, CompleteDiscovery, ChargeRateLimit, BuildError,
               CancelInBackoff, TimeoutPasses, vars
<1>3. IInv /\ leaked \in BOOLEAN => TypeOK
  BY DEF IInv, RequestType, TypeOK
<1>4. QED
  BY <1>1, <1>2, <1>3, Invariance, PTL DEF SafeSpec

(* DoRaw and DoPassthrough never leave their loop by its bound: what says  *)
(* "request failed after retries" (client.go:360) is unreachable.          *)
THEOREM LoopBudget == SafeSpec => []LoopBudgetLeft
<1>1. IInv => LoopBudgetLeft
  <2> SUFFICES ASSUME IInv, NEW r \in Requests
               PROVE  req[r].retries + req[r].failovers < MaxAttempts(req[r].kind) + ExitCount
    BY DEF LoopBudgetLeft
  <2>1. req[r] \in RequestType /\ WithinRetries(req[r])
    BY DEF IInv, RequestType, Sound
  <2>2. req[r].retries \in Nat /\ req[r].failovers \in 0..ExitCount /\ ExitCount \in Nat
    BY <2>1, ClientAssumption DEF RequestType
  <2>3. MaxAttempts(req[r].kind) \in Nat
    BY <2>1, AttemptsBounded, ClientAssumption DEF RequestType
  <2>4. QED
    BY <2>1, <2>2, <2>3 DEF WithinRetries
<1>2. QED
  BY <1>1, Invariance, PTL

(* A half-open probe is one attempt, however it fails.                     *)
THEOREM ProbeOnce == SafeSpec => []ProbeSendsOnce
<1>1. IInv => ProbeSendsOnce
  BY DEF IInv, Sound, OneAttempt, ProbeSendsOnce
<1>2. QED
  BY <1>1, Invariance, PTL

(* A walk over the exits that saw a rate limit does not end on a broken    *)
(* exit's 502, 503 or 504.                                                 *)
THEOREM LimitSurfaces == SafeSpec => []RateLimitSurfaces
<1>1. IInv => RateLimitSurfaces
  BY DEF IInv, Sound, BestAnswer, RateLimitSurfaces
<1>2. QED
  BY <1>1, Invariance, PTL

-----------------------------------------------------------------------------
(* The client implements the breaker's view of its requests.               *)

SeenPhase == [r \in Requests |-> Seen(req[r])]
SeenProbe == [r \in Requests |-> req[r].probe]

(* One step of a request changes at most what the breaker sees of it.      *)
LEMMA SeenStep ==
    ASSUME IInv, NEW r \in Requests, NEW q, req' = [req EXCEPT ![r] = q]
    PROVE  /\ SeenPhase' = [SeenPhase EXCEPT ![r] = Seen(q)]
           /\ SeenProbe' = [SeenProbe EXCEPT ![r] = q.probe]
BY DEF SeenPhase, SeenProbe, IInv

(* An answer that is not the last leaves the request under way, and no     *)
(* answer changes what it is.                                              *)
LEMMA AnswerSeen ==
    ASSUME NEW q \in RequestType, q.phase = "sent", NEW a \in Answers, NEW u \in BOOLEAN
    PROVE  LET n == AfterAnswer(q, a, u)
           IN  /\ n.kind = q.kind /\ n.probe = q.probe
               /\ n.phase \in {"sent", "backoff", "ending"}
               /\ n.phase = "backoff" => ~q.probe
BY DEF AfterAnswer, End, FailOver, Backoff, RequestType

(* A step that does not change what the breaker sees of a request.         *)
LEMMA SeenSame ==
    ASSUME IInv, NEW r \in Requests, NEW q, req' = [req EXCEPT ![r] = q],
           Seen(q) = Seen(req[r]), q.probe = req[r].probe
    PROVE  SeenPhase' = SeenPhase /\ SeenProbe' = SeenProbe
BY DEF SeenPhase, SeenProbe, IInv

(* A request that is over is idle, and no probe, for the breaker.          *)
LEMMA SeenRest ==
    ASSUME IInv, NEW r \in Requests, Rest(r)
    PROVE  /\ SeenPhase' = [SeenPhase EXCEPT ![r] = "idle"]
           /\ SeenProbe' = [SeenProbe EXCEPT ![r] = FALSE]
<1>1. Seen(Resting) = "idle" /\ Resting.probe = FALSE
  BY DEF Resting, Fresh, Seen
<1>2. /\ SeenPhase' = [SeenPhase EXCEPT ![r] = Seen(Resting)]
      /\ SeenProbe' = [SeenProbe EXCEPT ![r] = Resting.probe]
  BY SeenStep DEF Rest
<1>3. QED
  BY <1>1, <1>2

(* The end of a discovery request changes nothing for the breaker.         *)
LEMMA SeenDiscovery ==
    ASSUME IInv, NEW r \in Requests, Rest(r), req[r].kind.discovery
    PROVE  SeenPhase' = SeenPhase /\ SeenProbe' = SeenProbe
<1>1. req[r] \in RequestType /\ ~req[r].probe
  BY DEF IInv, Sound, TokenHolder
<1>2. Resting.probe = req[r].probe
  BY <1>1, Zenon DEF RequestType, Resting, Fresh
<1>3. Seen(Resting) = Seen(req[r])
  BY DEF Seen, Resting, Fresh
<1>4. QED
  BY <1>2, <1>3, SeenSame DEF Rest

(* Every step of the client is a step of its breaker or leaves it alone.   *)
LEMMA StepRefines == IInv /\ leaked \in BOOLEAN /\ [Next]_vars => [CB!Next]_(CB!vars)
<1> SUFFICES ASSUME IInv, leaked \in BOOLEAN, [Next]_vars
             PROVE  CB!Next \/ UNCHANGED CB!vars
  OBVIOUS
<1>0. ASSUME UNCHANGED cbVars, UNCHANGED leaked, SeenPhase' = SeenPhase, SeenProbe' = SeenProbe
      PROVE  UNCHANGED CB!vars
  BY <1>0 DEF CB!vars, CB!cbVars, cbVars, SeenPhase, SeenProbe
<1>1. ASSUME NEW r \in Requests, NEW k \in Kinds, Begin(r, k)
      PROVE  CB!Next \/ UNCHANGED CB!vars
  <2>1. PICK p \in BOOLEAN :
           /\ IF k.discovery THEN ~p /\ UNCHANGED cbVars ELSE CB!Acquire(p)
           /\ req' = [req EXCEPT ![r] = Fresh("sent", k, p)]
    BY <1>1 DEF Begin
  <2>2. req[r].phase = "idle" /\ ~req[r].probe /\ UNCHANGED leaked
    BY <1>1 DEF Begin, IInv, Sound, TokenHolder
  <2>3. CASE k.discovery
    <3>1. Seen(Fresh("sent", k, p)) = Seen(req[r])
      BY <2>2, <2>3 DEF Seen, Fresh
    <3>2. ~p /\ req[r].probe \in BOOLEAN
      BY <2>1, <2>3 DEF IInv, RequestType
    <3>3. Fresh("sent", k, p).probe = req[r].probe
      BY <2>2, <3>2, Zenon DEF Fresh
    <3>4. QED
      BY <1>0, <2>1, <2>2, <2>3, <3>1, <3>3, SeenSame
  <2>4. CASE ~k.discovery
    <3>1. /\ SeenPhase' = [SeenPhase EXCEPT ![r] = "sent"]
          /\ SeenProbe' = [SeenProbe EXCEPT ![r] = p]
      <4>1. Seen(Fresh("sent", k, p)) = "sent" /\ Fresh("sent", k, p).probe = p
        BY <2>4 DEF Seen, Fresh
      <4>2. /\ SeenPhase' = [SeenPhase EXCEPT ![r] = Seen(Fresh("sent", k, p))]
            /\ SeenProbe' = [SeenProbe EXCEPT ![r] = Fresh("sent", k, p).probe]
        BY <2>1, SeenStep
      <4>3. QED
        BY <4>1, <4>2
    <3>2. CB!Acquire(p)
      BY <2>1, <2>4
    <3>3. SeenPhase[r] = "idle"
      BY <2>2 DEF SeenPhase, Seen
    <3>4. CB!Begin(r)
      BY <2>2, <3>1, <3>2, <3>3 DEF CB!Begin, SeenPhase, SeenProbe
    <3>5. QED
      BY <3>4 DEF CB!Next
  <2>5. QED
    BY <2>3, <2>4
<1>2. ASSUME NEW r \in Requests, BackoffEnds(r)
      PROVE  UNCHANGED CB!vars
  <2> DEFINE q == [req[r] EXCEPT !.phase = "sent"]
  <2>1. req[r] \in RequestType /\ req[r].phase = "backoff"
    BY <1>2 DEF IInv, BackoffEnds
  <2>2. Seen(q) = Seen(req[r]) /\ q.probe = req[r].probe
    BY <2>1 DEF Seen, RequestType
  <2>3. QED
    BY <1>0, <1>2, <2>2, SeenSame DEF BackoffEnds
<1>3. ASSUME NEW r \in Requests, NEW a \in Answers, Answer(r, a)
      PROVE  UNCHANGED CB!vars
  <2>1. PICK u \in BOOLEAN : req' = [req EXCEPT ![r] = AfterAnswer(@, a, u)]
    BY <1>3 DEF Answer
  <2>2. req[r] \in RequestType /\ req[r].phase = "sent"
    BY <1>3 DEF IInv, Answer
  <2> DEFINE q == AfterAnswer(req[r], a, u)
  <2>3. Seen(q) = Seen(req[r]) /\ q.probe = req[r].probe
    BY <2>2, AnswerSeen DEF Seen
  <2>4. QED
    BY <1>0, <1>3, <2>1, <2>3, SeenSame DEF Answer
<1>4. ASSUME NEW r \in Requests, CompleteSuccess(r) PROVE CB!Succeed(r)
  <2>1. SeenPhase[r] = "sent"
    BY <1>4 DEF CompleteSuccess, SeenPhase, Seen
  <2>2. QED
    BY <1>4, <2>1, SeenRest
       DEF CompleteSuccess, CB!Succeed, CB!LeaveHeard, CB!Leave, SeenPhase, SeenProbe
<1>5. ASSUME NEW r \in Requests, CompleteFailure(r) PROVE CB!Fail(r)
  <2>1. SeenPhase[r] = "sent"
    BY <1>5 DEF CompleteFailure, SeenPhase, Seen
  <2>2. QED
    BY <1>5, <2>1, SeenRest
       DEF CompleteFailure, CB!Fail, CB!LeaveHeard, CB!Leave, SeenPhase, SeenProbe
<1>6. ASSUME NEW r \in Requests, CompleteLimited(r)
      PROVE  CB!RateLimitedHalfOpen(r) \/ CB!RateLimitedOtherwise(r)
  <2>1. SeenPhase[r] = "sent" /\ UNCHANGED <<cbVars, leaked>>
    BY <1>6 DEF CompleteLimited, SeenPhase, Seen
  <2>2. CASE CB!IsHalfOpen
    <3> DEFINE q == [req[r] EXCEPT !.phase = "charging"]
    <3>1. req[r] \in RequestType /\ ~req[r].kind.discovery /\ req' = [req EXCEPT ![r] = q]
      BY <1>6, <2>2 DEF CompleteLimited, IInv
    <3>2. Seen(q) = "charging" /\ q.probe = req[r].probe
      BY <3>1 DEF Seen, RequestType
    <3>3. SeenPhase' = [SeenPhase EXCEPT ![r] = "charging"] /\ SeenProbe' = SeenProbe
      <4>1. /\ SeenPhase' = [SeenPhase EXCEPT ![r] = Seen(q)]
            /\ SeenProbe' = [SeenProbe EXCEPT ![r] = q.probe]
        BY <3>1, SeenStep
      <4>2. [SeenProbe EXCEPT ![r] = req[r].probe] = SeenProbe
        BY DEF SeenProbe
      <4>3. QED
        BY <3>2, <4>1, <4>2
    <3>4. QED
      BY <2>1, <2>2, <3>3
         DEF CB!RateLimitedHalfOpen, CB!cbVars, cbVars, SeenPhase, SeenProbe
  <2>3. CASE ~CB!IsHalfOpen
    <3>1. Rest(r)
      BY <1>6, <2>3 DEF CompleteLimited
    <3>2. QED
      BY <2>1, <2>3, <3>1, SeenRest
         DEF CB!RateLimitedOtherwise, CB!LeaveHeard, CB!Leave, CB!cbVars, cbVars, SeenPhase,
             SeenProbe
  <2>4. QED
    BY <2>2, <2>3
<1>7. ASSUME NEW r \in Requests, ChargeRateLimit(r) PROVE CB!ChargeRateLimit(r)
  <2>1. SeenPhase[r] = "charging"
    BY <1>7 DEF ChargeRateLimit, SeenPhase, Seen, IInv, Sound, TokenHolder
  <2>2. QED
    BY <1>7, <2>1, SeenRest
       DEF ChargeRateLimit, CB!ChargeRateLimit, CB!LeaveHeard, CB!Leave, SeenPhase, SeenProbe
<1>8. ASSUME NEW r \in Requests, CompleteDiscovery(r) PROVE UNCHANGED CB!vars
  BY <1>0, <1>8, SeenDiscovery DEF CompleteDiscovery
<1>9. ASSUME NEW r \in Requests, BuildError(r)
      PROVE  CB!BuildError(r) \/ UNCHANGED CB!vars
  <2>1. CASE req[r].kind.discovery
    <3>1. ~req[r].probe
      BY <2>1 DEF IInv, Sound, TokenHolder
    <3>2. leaked' = leaked
      BY <1>9, <3>1, Zenon DEF BuildError
    <3>3. QED
      BY <1>0, <1>9, <2>1, <3>2, SeenDiscovery DEF BuildError
  <2>2. CASE ~req[r].kind.discovery
    <3>1. SeenPhase[r] = "sent" /\ SeenProbe[r] = req[r].probe
      BY <1>9, <2>2 DEF BuildError, SeenPhase, SeenProbe, Seen
    <3>2. QED
      BY <1>9, <3>1, SeenRest
         DEF BuildError, CB!BuildError, CB!Leave, CB!cbVars, cbVars, SeenPhase, SeenProbe
  <2>3. QED
    BY <2>1, <2>2
<1>10. ASSUME NEW r \in Requests, CancelInBackoff(r)
       PROVE  CB!CancelInBackoff(r) \/ UNCHANGED CB!vars
  <2>1. CASE req[r].kind.discovery
    BY <1>0, <1>10, <2>1, SeenDiscovery DEF CancelInBackoff
  <2>2. CASE ~req[r].kind.discovery
    <3>1. SeenPhase[r] = "sent" /\ ~SeenProbe[r]
      BY <1>10, <2>2
         DEF CancelInBackoff, SeenPhase, SeenProbe, Seen, IInv, Sound, TokenHolder
    <3>2. QED
      BY <1>10, <3>1, SeenRest
         DEF CancelInBackoff, CB!CancelInBackoff, CB!LeaveHeard, CB!Leave, CB!cbVars, cbVars,
             SeenPhase, SeenProbe
  <2>3. QED
    BY <2>1, <2>2
<1>11. CASE TimeoutPasses
  BY <1>11 DEF TimeoutPasses, CB!TimeoutPasses, CB!Next
<1>12. CASE UNCHANGED vars
  BY <1>0, <1>12 DEF vars, SeenPhase, SeenProbe
<1>13. QED
  BY <1>1, <1>2, <1>3, <1>4, <1>5, <1>6, <1>7, <1>8, <1>9, <1>10, <1>11, <1>12
     DEF Next, Progress, CB!Next, CB!Finish, CB!Answer

(* Whatever retries, failovers and rate limits do inside the requests, the *)
(* breaker lives through a run of CircuitBreaker: what is proved there     *)
(* holds of the breaker of this client.                                    *)
THEOREM Refinement == SafeSpec => ImplementsBreaker
<1>1. Init => CB!Init
  <2> SUFFICES ASSUME Init PROVE CB!Init
    OBVIOUS
  <2>1. /\ [r \in Requests |-> Seen(req[r])] = [r \in Requests |-> "idle"]
        /\ [r \in Requests |-> req[r].probe] = [r \in Requests |-> FALSE]
    BY DEF Init, Seen, Resting, Fresh
  <2>2. QED
    BY <2>1 DEF Init, CB!Init
<1>2. TypeOK => leaked \in BOOLEAN
  BY DEF TypeOK
<1>3. QED
  BY <1>1, <1>2, StepRefines, Invariance, TypeCorrect, PTL
     DEF ImplementsBreaker, SafeSpec, CB!SafeSpec

-----------------------------------------------------------------------------
(* The theorems about the breaker, said of the breaker in this client.     *)
CBP == INSTANCE CircuitBreakerProofs
       WITH Malformed <- Requests, faulty <- TRUE,
            phase <- [r \in Requests |-> Seen(req[r])],
            probe <- [r \in Requests |-> req[r].probe]

LEMMA BreakerConstants ==
    /\ FailureThreshold \in Nat \ {0}
    /\ SuccessThreshold \in Nat \ {0}
    /\ Requests \subseteq Requests
BY ClientAssumption

(* The breaker module and the module of its proofs are two instances of    *)
(* one specification.                                                      *)
LEMMA SameBreaker ==
    /\ CB!Init => CBP!Init
    /\ [CB!Next]_(CB!vars) => [CBP!Next]_(CBP!vars)
<1>1. CB!Init => CBP!Init
  BY DEF CB!Init, CBP!Init
<1>2. CB!vars = CBP!vars /\ CB!vars' = CBP!vars'
  BY DEF CB!vars, CBP!vars, CB!cbVars, CBP!cbVars
<1>3. CB!Next => CBP!Next
  BY Zenon
     DEF CB!Next, CB!Begin, CB!Finish, CB!Answer, CB!Succeed, CB!Fail,
         CB!RateLimitedHalfOpen, CB!RateLimitedOtherwise, CB!ChargeRateLimit,
         CB!BuildError, CB!CancelInBackoff, CB!TimeoutPasses, CB!Upstream,
         CB!Acquire, CB!AcquireClosed, CB!AcquireReopening, CB!AcquireHalfOpen,
         CB!RecordSuccess, CB!RecordFailure, CB!NoteSuccess, CB!NoteFailure,
         CB!IsHalfOpen, CB!Leave,
         CB!LeaveHeard, CB!cbVars,
         CBP!Next, CBP!Begin, CBP!Finish, CBP!Answer, CBP!Succeed, CBP!Fail,
         CBP!RateLimitedHalfOpen, CBP!RateLimitedOtherwise, CBP!ChargeRateLimit,
         CBP!BuildError, CBP!CancelInBackoff, CBP!TimeoutPasses, CBP!Upstream,
         CBP!Acquire, CBP!AcquireClosed, CBP!AcquireReopening,
         CBP!AcquireHalfOpen, CBP!RecordSuccess, CBP!RecordFailure, CBP!NoteSuccess, CBP!NoteFailure,
         CBP!IsHalfOpen, CBP!Leave, CBP!LeaveHeard, CBP!cbVars
<1>4. QED
  BY <1>1, <1>2, <1>3

LEMMA SamePromises ==
    /\ CB!HerdBound <=> CBP!HerdBound
    /\ CB!ProbeTokenHeld <=> CBP!ProbeTokenHeld
BY DEF CB!HerdBound, CBP!HerdBound,
       CB!ProbeTokenHeld, CBP!ProbeTokenHeld, CB!Probes, CBP!Probes, CB!InFlight, CBP!InFlight

(* Behind real requests, each with its retries, failovers, backoffs and a  *)
(* 429 that surfaces late, a half-open episode admits no herd, and the     *)
(* token is out only with a request that will return it, unless a probe    *)
(* could not be built (circuit_breaker.go:61, client.go:528).              *)
BreakerGuards == CB!HerdBound /\ CB!ProbeTokenHeld

THEOREM ClientBreakerGuards == SafeSpec => []BreakerGuards
<1>1. CBP!SafeSpec => []CBP!HerdBound
  BY BreakerConstants, CBP!Herd, Zenon
<1>2. CBP!SafeSpec => []CBP!ProbeTokenHeld
  BY BreakerConstants, CBP!TokenHeld, Zenon
<1>3. QED
  BY <1>1, <1>2, Refinement, SameBreaker, SamePromises, PTL
     DEF ImplementsBreaker, CB!SafeSpec, CBP!SafeSpec, BreakerGuards

(* However many attempts a request makes, it costs the budget one failure  *)
(* at most: the client's breaker opens with exactly the FailureThreshold-  *)
(* th request in a row that it hears failed (circuit_breaker.go:105).      *)
THEOREM ClientWholeBudget == SafeSpec => CB!WholeBudget
<1>1. CBP!SafeSpec => CBP!WholeBudget
  BY BreakerConstants, CBP!FreshBudget, Zenon
<1>2. [state = "closed" => (state' = "open" <=> charged' = FailureThreshold)]_(CBP!vars)
        => [state = "closed" => (state' = "open" <=> charged' = FailureThreshold)]_(CB!vars)
  BY DEF CB!vars, CBP!vars, CB!cbVars, CBP!cbVars
<1>3. QED
  BY <1>1, <1>2, Refinement, SameBreaker, PTL
     DEF ImplementsBreaker, CB!SafeSpec, CBP!SafeSpec, CB!WholeBudget, CBP!WholeBudget

(* No answer, however late and after however many attempts, closes an open *)
(* breaker: it goes through half-open first (circuit_breaker.go:78).       *)
THEOREM ClientOpenThenHalfOpen == SafeSpec => CB!OpenNeverClosesDirectly
<1>1. CBP!SafeSpec => CBP!OpenNeverClosesDirectly
  BY BreakerConstants, CBP!OpenThenHalfOpen, Zenon
<1>2. [state = "open" => state' # "closed"]_(CBP!vars)
        => [state = "open" => state' # "closed"]_(CB!vars)
  BY DEF CB!vars, CBP!vars, CB!cbVars, CBP!cbVars
<1>3. QED
  BY <1>1, <1>2, Refinement, SameBreaker, PTL
     DEF ImplementsBreaker, CB!SafeSpec, CBP!SafeSpec,
         CB!OpenNeverClosesDirectly, CBP!OpenNeverClosesDirectly
=============================================================================
