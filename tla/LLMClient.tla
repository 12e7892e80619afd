----------------------------- MODULE LLMClient -----------------------------
(***************************************************************************)
(* The upstream client (src/internal/language_model_client/client.go): one *)
(* logical request makes several attempts, some of them retries after a    *)
(* backoff, some of them failovers to another exit, behind one circuit     *)
(* breaker that hears of the request once.  DoRaw, DoStream and            *)
(* DoPassthrough differ in what they retry and in which answer they hand   *)
(* to the caller in the end.                                               *)
(*                                                                         *)
(* The breaker is the one of CircuitBreaker, whose requests these refine.  *)
(* Whether an untried exit is left when a request asks (HasAlternative of  *)
(* Egress) is up to every other request of the provider and to the clock:  *)
(* cool-downs come and go between any two steps, and a Pick that finds no  *)
(* fresh exit falls back to a tried one.  So the answer is arbitrary here  *)
(* whenever there is more than one exit, and the exits are only counted.   *)
(***************************************************************************)
EXTENDS Integers

CONSTANTS
    Requests,           \* concurrent callers
    Kinds,              \* the requests they send, see KindAssumption
    ExitCount,          \* exits of the provider; 1 also without a registry
    MaxRetries,         \* Config.Retry.MaxRetries
    FailureThreshold, SuccessThreshold

(* oneShot: the body is a RawBodyReader.  replaySafe: canRetryPassthrough. *)
(* discovery: a GET of .../models.  malformed: buildRequest refuses it.    *)
RequestKinds ==
    {k \in [call : {"raw", "stream", "passthrough"}, oneShot : BOOLEAN,
            replaySafe : BOOLEAN, discovery : BOOLEAN, malformed : BOOLEAN] :
        k.oneShot => ~k.replaySafe}

ASSUME KindAssumption == Kinds # {} /\ Kinds \subseteq RequestKinds

ASSUME ClientAssumption ==
    /\ MaxRetries \in Nat
    /\ ExitCount \in Nat \ {0}
    /\ FailureThreshold \in Nat \ {0} /\ SuccessThreshold \in Nat \ {0}

VARIABLES
    state, failures, successes, halfOpenAllowed, timeoutElapsed, admitted, charged,
    leaked,
    req                 \* the request each caller has under way

cbVars == <<state, failures, successes, halfOpenAllowed, timeoutElapsed, admitted, charged>>
vars   == <<cbVars, leaked, req>>

(* Any status below 500 but 429; 502, 503 or 504; any other 5xx; 429; a    *)
(* transport error; the timeout of the HTTP client.                        *)
Answers == {"ok", "unavailable", "serverError", "limited", "transport", "timeout"}

(* Where a request is, as the breaker sees it.  Discovery goes round it.   *)
Seen(q) ==
    IF q.phase = "idle" \/ q.kind.discovery THEN "idle"
    ELSE IF q.phase = "charging" THEN "charging" ELSE "sent"

CB == INSTANCE CircuitBreaker
      WITH Malformed <- Requests, faulty <- TRUE,
           phase <- [r \in Requests |-> Seen(req[r])],
           probe <- [r \in Requests |-> req[r].probe]

-----------------------------------------------------------------------------
(* One attempt after another.                                              *)

(* maxAttempts in each of the three entry points.                          *)
MaxAttempts(k) ==
    CASE k.call = "stream" \/ k.oneShot               -> 1
      [] k.call = "passthrough" /\ ~k.replaySafe      -> 1
      [] OTHER                                        -> MaxRetries + 1

(* A failover that needs another exit and no budget.                       *)
CanFailOverFreely(q, untriedLeft) == untriedLeft

(* failovers < failoverBudget && hasUntriedExit                            *)
CanFailOver(q, untriedLeft) == q.failovers < ExitCount /\ untriedLeft

(* ">" for ">=": one retry more than configured.                           *)
CanRetryOnceMore(q) == q.retries <= MaxAttempts(q.kind) - 1

CanRetry(q) == q.retries < MaxAttempts(q.kind) - 1

End(q, a) == [q EXCEPT !.phase = "ending", !.final = a]

(* A retry that is not counted.                                            *)
BackoffUncounted(q) == [q EXCEPT !.phase = "backoff"]

Backoff(q)  == [q EXCEPT !.phase = "backoff", !.retries = @ + 1]
FailOver(q) == [q EXCEPT !.phase = "sent", !.failovers = @ + 1]

(* The last failure is the answer, whatever was seen before it.            *)
SurfacedLast(q, a) == a

(* A rate limit seen on the way is a better answer than the last failure.  *)
Surfaced(q, a) == IF q.limitSeen THEN "limited" ELSE a

(* A half-open probe that may fail over and retry like any other request.  *)
AfterAnswerProbesToo(q, a, untriedLeft) ==
    IF q.kind.call = "stream" \/ a \notin {"unavailable", "limited", "transport"}
    THEN End(q, a)
    ELSE IF a # "transport" /\ CanFailOver(q, untriedLeft)
    THEN FailOver([q EXCEPT !.limitSeen = @ \/ a = "limited"])
    ELSE IF a # "limited" /\ CanRetry(q)
    THEN Backoff(q)
    ELSE End(q, IF q.limitSeen THEN "limited" ELSE a)

(* What the loop makes of answer a.  A walk that cannot go on ends with    *)
(* the best answer, but for the transport error of a proxied request.      *)
AfterAnswer(q, a, untriedLeft) ==
    IF \/ q.kind.call = "stream" \/ q.probe
       \/ a \notin {"unavailable", "limited", "transport"}
    THEN End(q, a)
    ELSE IF a # "transport" /\ CanFailOver(q, untriedLeft)
    THEN FailOver([q EXCEPT !.limitSeen = @ \/ a = "limited"])
    ELSE IF a # "limited" /\ CanRetry(q)
    THEN Backoff(q)
    ELSE End(q, IF a = "transport" /\ q.kind.call = "passthrough" THEN a ELSE Surfaced(q, a))

-----------------------------------------------------------------------------
Fresh(ph, k, isProbe) ==
    [phase |-> ph, kind |-> k, probe |-> isProbe, retries |-> 0, failovers |-> 0,
     limitSeen |-> FALSE, final |-> "ok"]

Resting == Fresh("idle", CHOOSE k \in Kinds : TRUE, FALSE)

Init ==
    /\ state = "closed" /\ failures = 0 /\ successes = 0 /\ admitted = 0 /\ charged = 0
    /\ halfOpenAllowed = TRUE /\ timeoutElapsed = FALSE /\ leaked = FALSE
    /\ req = [r \in Requests |-> Resting]

(* beginRequest, when the breaker admits the request.                      *)
Begin(r, k) ==
    /\ req[r].phase = "idle"
    /\ \E isProbe \in BOOLEAN :
          /\ IF k.discovery THEN ~isProbe /\ UNCHANGED cbVars ELSE CB!Acquire(isProbe)
          /\ req' = [req EXCEPT ![r] = Fresh("sent", k, isProbe)]
    /\ UNCHANGED leaked

(* The backoff is over and the next attempt is sent.                       *)
BackoffEnds(r) ==
    /\ req[r].phase = "backoff"
    /\ req' = [req EXCEPT ![r].phase = "sent"]
    /\ UNCHANGED <<cbVars, leaked>>

(* The answer of the attempt and the decision of the loop.                 *)
Answer(r, a) ==
    /\ req[r].phase = "sent" /\ ~req[r].kind.malformed
    /\ \E untriedLeft \in BOOLEAN :
          /\ untriedLeft => ExitCount > 1
          /\ req' = [req EXCEPT ![r] = AfterAnswer(@, a, untriedLeft)]
    /\ UNCHANGED <<cbVars, leaked>>

Rest(r) == req' = [req EXCEPT ![r] = Resting]

(* completeScope for an outcome that counts as a success of the provider.  *)
CompleteSuccess(r) ==
    /\ req[r].phase = "ending" /\ ~req[r].kind.discovery
    /\ req[r].final = "ok"
    /\ CB!RecordSuccess
    /\ Rest(r) /\ UNCHANGED leaked

CompleteFailure(r) ==
    /\ req[r].phase = "ending" /\ ~req[r].kind.discovery
    /\ req[r].final \in {"transport", "timeout", "unavailable", "serverError"}
    /\ CB!RecordFailure
    /\ Rest(r) /\ UNCHANGED leaked

CompleteLimited(r) ==
    /\ req[r].phase = "ending" /\ ~req[r].kind.discovery
    /\ req[r].final = "limited"
    /\ IF CB!IsHalfOpen THEN req' = [req EXCEPT ![r].phase = "charging"] ELSE Rest(r)
    /\ UNCHANGED <<cbVars, leaked>>

ChargeRateLimit(r) ==
    /\ req[r].phase = "charging"
    /\ CB!RecordFailure
    /\ Rest(r) /\ UNCHANGED leaked

(* A failed listing of the models is charged to the breaker.               *)
CompleteDiscoveryCharged(r) ==
    /\ req[r].phase = "ending" /\ req[r].kind.discovery
    /\ IF req[r].final = "transport" THEN CB!RecordFailure ELSE UNCHANGED cbVars
    /\ Rest(r) /\ UNCHANGED leaked

(* Model discovery is excluded from the breaker's accounting.              *)
CompleteDiscovery(r) ==
    /\ req[r].phase = "ending" /\ req[r].kind.discovery
    /\ Rest(r) /\ UNCHANGED <<cbVars, leaked>>

(* buildRequest failed: the breaker hears nothing of the request.          *)
BuildError(r) ==
    /\ req[r].phase = "sent" /\ req[r].kind.malformed
    /\ leaked' = (leaked \/ req[r].probe)
    /\ Rest(r) /\ UNCHANGED cbVars

CancelInBackoff(r) ==
    /\ req[r].phase = "backoff"
    /\ Rest(r) /\ UNCHANGED <<cbVars, leaked>>

TimeoutPasses ==
    /\ ~timeoutElapsed /\ timeoutElapsed' = TRUE
    /\ UNCHANGED <<state, failures, successes, halfOpenAllowed, admitted, charged, leaked, req>>

Progress(r) ==
    \/ BackoffEnds(r) \/ \E a \in Answers : Answer(r, a)
    \/ CompleteSuccess(r) \/ CompleteFailure(r) \/ CompleteLimited(r)
    \/ CompleteDiscovery(r) \/ ChargeRateLimit(r) \/ BuildError(r)

Next ==
    \/ \E r \in Requests : \/ \E k \in Kinds : Begin(r, k)
                           \/ Progress(r) \/ CancelInBackoff(r)
    \/ TimeoutPasses

SafeSpec == Init /\ [][Next]_vars

(* Attempts end: the HTTP client has a timeout.  Nobody has to call.       *)
Spec == SafeSpec /\ \A r \in Requests : WF_vars(Progress(r))

-----------------------------------------------------------------------------
(* The shape of the state.  A discovery request is never a probe.          *)
Phases == {"idle", "sent", "backoff", "ending", "charging"}

TypeOK ==
    /\ leaked \in BOOLEAN
    /\ req \in [Requests -> [phase : Phases, kind : Kinds, probe : BOOLEAN,
                             retries : 0..MaxRetries, failovers : 0..ExitCount,
                             limitSeen : BOOLEAN, final : Answers]]

(* The loop of DoRaw and DoPassthrough never leaves by its bound of        *)
(* maxAttempts+failoverBudget: every turn is paid from one of two budgets, *)
(* so the last answer always decides, and "request failed after retries"   *)
(* (client.go:360) is never what a caller is told.                         *)
LoopBudgetLeft ==
    \A r \in Requests :
        req[r].phase \in {"sent", "backoff"} =>
            req[r].retries + req[r].failovers < MaxAttempts(req[r].kind) + ExitCount

(* The half-open breaker is told the outcome of one attempt: a probe has   *)
(* no second one, however it fails and whatever exits are left.            *)
ProbeSendsOnce ==
    \A r \in Requests : req[r].probe => req[r].retries + req[r].failovers = 0

(* client.go:490 "When a walk over the exits ends on a server error, the   *)
(* rate limit that was seen on the way is what the caller gets": where the *)
(* walk ends with no exit and no retry left.                               *)
RateLimitSurfaces ==
    \A r \in Requests :
        req[r].phase = "ending" /\ req[r].limitSeen =>
            /\ req[r].final # "unavailable"
            /\ req[r].kind.call = "raw" => req[r].final # "transport"

(* The same sentence as it stands, for every way the walk can end.         *)
RateLimitAnswered ==
    \A r \in Requests :
        req[r].phase = "ending" /\ req[r].limitSeen =>
            req[r].final \notin {"unavailable", "serverError", "timeout", "transport"}

(* client.go:257 "It is intended for one-shot passthrough requests and is  *)
(* not replayable for retries": a streamed body is sent at most once.      *)
NotReplayed ==
    \A r \in Requests : req[r].kind.oneShot => req[r].retries + req[r].failovers = 0

(* Whatever the attempts and the exits do, the breaker sees one request    *)
(* per caller and one outcome for it, and nothing of model discovery.      *)
ImplementsBreaker == CB!SafeSpec

(* Every request comes to an end: retries and failovers are both finite,   *)
(* also when the exits keep going in and out of rotation.                  *)
EveryRequestEnds ==
    \A r \in Requests : req[r].phase # "idle" ~> req[r].phase = "idle"
=============================================================================
