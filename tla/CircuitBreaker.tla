--------------------------- MODULE CircuitBreaker ---------------------------
(***************************************************************************)
(* The per-provider circuit breaker of the upstream client                 *)
(* (src/internal/language_model_client/circuit_breaker.go) together with   *)
(* the requests that go through it.  Every method of the breaker runs      *)
(* under its mutex and is one step here; a request is two or three steps,  *)
(* because it asks the breaker for admission (acquire), is away for an     *)
(* arbitrary time at the upstream, and reports its outcome afterwards.     *)
(* Retries inside one request are invisible at this level: LLMClient       *)
(* refines it.                                                             *)
(*                                                                         *)
(* A caller in Requests sends one request after another.  Those in         *)
(* Malformed also send requests that fail in buildRequest, before anything *)
(* reaches the upstream.                                                   *)
(***************************************************************************)
EXTENDS Integers, FiniteSets

CONSTANTS
    Requests,           \* concurrent callers of one llmclient.Client
    Malformed,          \* the callers some of whose requests cannot be built
    FailureThreshold,   \* CIRCUIT_BREAKER_FAILURE_THRESHOLD
    SuccessThreshold    \* CIRCUIT_BREAKER_SUCCESS_THRESHOLD

(* The breaker exists only when FailureThreshold > 0 (client.go:170), and  *)
(* the settings handler refuses thresholds below one.                      *)
ASSUME ThresholdAssumption ==
    /\ FailureThreshold \in Nat \ {0}
    /\ SuccessThreshold \in Nat \ {0}
    /\ Malformed \subseteq Requests

VARIABLES
    state,              \* circuitBreaker.state
    failures,           \* circuitBreaker.failures, saturated at the threshold
    successes,          \* circuitBreaker.successes
    halfOpenAllowed,    \* circuitBreaker.halfOpenAllowed, the probe token
    timeoutElapsed,     \* time.Since(lastFailure) > timeout
    admitted,           \* history: probes admitted in this half-open episode
    charged,            \* history: failures heard in a row while closed
    phase,              \* where each request is
    probe,              \* requestScope.halfOpenProbe of each request
    leaked,             \* history: a probe ended without telling the breaker
    faulty              \* whether the upstream may answer with failures now

cbVars == <<state, failures, successes, halfOpenAllowed, timeoutElapsed, admitted, charged>>
vars   == <<cbVars, phase, probe, leaked, faulty>>

States == {"closed", "open", "half-open"}
Phases == {"idle", "sent", "charging"}

InFlight == {r \in Requests : phase[r] # "idle"}
Probes   == {r \in InFlight : probe[r]}

(* What the history keeps of an outcome: the failures in a row of a closed *)
(* breaker, forgotten with its next success and when it closes again.      *)
NoteSuccess == charged' = IF state' = "closed" THEN 0 ELSE charged
NoteFailure == charged' = IF state = "closed" THEN charged + 1 ELSE charged

-----------------------------------------------------------------------------
(* Plausible defects of the methods below; the checks above each of them   *)
(* must notice.                                                            *)

(* A probe admitted while half-open leaves the token behind.               *)
AcquireHalfOpenTokenKept ==
    /\ state = "half-open" /\ halfOpenAllowed
    /\ admitted' = admitted + 1
    /\ UNCHANGED <<state, failures, successes, halfOpenAllowed, timeoutElapsed, charged>>

(* The successful probe does not give the token back.                      *)
RecordSuccessTokenLost ==
    /\ successes' = IF state = "half-open" THEN successes + 1 ELSE successes
    /\ state' = IF state = "half-open" /\ successes + 1 >= SuccessThreshold
                THEN "closed" ELSE state
    /\ failures' = IF state = "closed" \/ state' = "closed" THEN 0 ELSE failures
    /\ NoteSuccess
    /\ UNCHANGED <<halfOpenAllowed, timeoutElapsed, admitted>>

(* Closing keeps the failures that opened the breaker.                     *)
RecordSuccessBudgetKept ==
    /\ successes' = IF state = "half-open" THEN successes + 1 ELSE successes
    /\ halfOpenAllowed' = (halfOpenAllowed \/ state = "half-open")
    /\ state' = IF state = "half-open" /\ successes + 1 >= SuccessThreshold
                THEN "closed" ELSE state
    /\ failures' = IF state = "closed" THEN 0 ELSE failures
    /\ NoteSuccess
    /\ UNCHANGED <<timeoutElapsed, admitted>>

(* ">" for ">=" when the successes are compared.                           *)
RecordSuccessOffByOne ==
    /\ successes' = IF state = "half-open" THEN successes + 1 ELSE successes
    /\ halfOpenAllowed' = (halfOpenAllowed \/ state = "half-open")
    /\ state' = IF state = "half-open" /\ successes + 1 > SuccessThreshold
                THEN "closed" ELSE state
    /\ failures' = IF state = "closed" \/ state' = "closed" THEN 0 ELSE failures
    /\ NoteSuccess
    /\ UNCHANGED <<timeoutElapsed, admitted>>

(* Any success counts as a recovery, also one reported to an open breaker. *)
RecordSuccessClosesOpen ==
    /\ successes' = IF state # "closed" THEN successes + 1 ELSE successes
    /\ halfOpenAllowed' = TRUE
    /\ state' = IF successes' >= SuccessThreshold THEN "closed" ELSE state
    /\ failures' = IF state' = "closed" THEN 0 ELSE failures
    /\ NoteSuccess
    /\ UNCHANGED <<timeoutElapsed, admitted>>

(* The half-open case is missing: a failed probe changes nothing.          *)
RecordFailureProbeIgnored ==
    /\ failures' = IF failures < FailureThreshold THEN failures + 1 ELSE failures
    /\ timeoutElapsed' = FALSE
    /\ state' = IF state = "closed" /\ failures' >= FailureThreshold
                THEN "open" ELSE state
    /\ NoteFailure
    /\ UNCHANGED <<successes, halfOpenAllowed, admitted>>

-----------------------------------------------------------------------------
(* The methods of the breaker.                                             *)

AcquireClosed ==
    /\ state = "closed"
    /\ UNCHANGED cbVars

(* An open breaker whose timeout has passed turns half-open and admits the *)
(* caller as its first probe in the same critical section.                 *)
AcquireReopening ==
    /\ state = "open" /\ timeoutElapsed
    /\ state' = "half-open"
    /\ successes' = 0
    /\ halfOpenAllowed' = FALSE
    /\ admitted' = 1
    /\ UNCHANGED <<failures, timeoutElapsed, charged>>

AcquireHalfOpen ==
    /\ state = "half-open" /\ halfOpenAllowed
    /\ halfOpenAllowed' = FALSE
    /\ admitted' = admitted + 1
    /\ UNCHANGED <<state, failures, successes, timeoutElapsed, charged>>

(* acquire() returning (true, isProbe).  A refusal changes nothing.        *)
Acquire(isProbe) ==
    \/ ~isProbe /\ AcquireClosed
    \/ isProbe /\ (AcquireReopening \/ AcquireHalfOpen)

RecordSuccess ==
    /\ successes' = IF state = "half-open" THEN successes + 1 ELSE successes
    /\ halfOpenAllowed' = (halfOpenAllowed \/ state = "half-open")
    /\ state' = IF state = "half-open" /\ successes + 1 >= SuccessThreshold
                THEN "closed" ELSE state
    /\ failures' = IF state = "closed" \/ state' = "closed" THEN 0 ELSE failures
    /\ NoteSuccess
    /\ UNCHANGED <<timeoutElapsed, admitted>>

(* The counter is compared only while closed, where it is below the        *)
(* threshold, and is cleared on closing: saturating it loses nothing.      *)
RecordFailure ==
    /\ failures' = IF failures < FailureThreshold THEN failures + 1 ELSE failures
    /\ timeoutElapsed' = FALSE
    /\ state' = IF state = "half-open" \/ failures' >= FailureThreshold
                THEN "open" ELSE state
    /\ successes' = IF state = "half-open" THEN 0 ELSE successes
    /\ halfOpenAllowed' = (halfOpenAllowed \/ state = "half-open")
    /\ NoteFailure
    /\ UNCHANGED admitted

IsHalfOpen == state = "half-open"

-----------------------------------------------------------------------------
(* The life of a request around the breaker.                               *)

Init ==
    /\ state = "closed"
    /\ failures = 0 /\ successes = 0 /\ admitted = 0 /\ charged = 0
    /\ halfOpenAllowed = TRUE
    /\ timeoutElapsed = FALSE
    /\ phase = [r \in Requests |-> "idle"]
    /\ probe = [r \in Requests |-> FALSE]
    /\ leaked = FALSE /\ faulty = TRUE

Begin(r) ==
    /\ phase[r] = "idle"
    /\ \E isProbe \in BOOLEAN :
          /\ Acquire(isProbe)
          /\ probe' = [probe EXCEPT ![r] = isProbe]
    /\ phase' = [phase EXCEPT ![r] = "sent"]
    /\ UNCHANGED <<leaked, faulty>>

Leave(r) ==
    /\ phase' = [phase EXCEPT ![r] = "idle"]
    /\ probe' = [probe EXCEPT ![r] = FALSE]
    /\ UNCHANGED faulty

(* The breaker hears the outcome, or is not owed one.                      *)
LeaveHeard(r) == Leave(r) /\ UNCHANGED leaked

(* Any answer that is not a 429 or a 5xx counts as a success, a 4xx too.   *)
Succeed(r) ==
    /\ phase[r] = "sent"
    /\ RecordSuccess
    /\ LeaveHeard(r)

(* A transport error, a timeout or a 5xx.                                  *)
Fail(r) ==
    /\ phase[r] = "sent" /\ faulty
    /\ RecordFailure
    /\ LeaveHeard(r)

(* A final 429: IsHalfOpen and RecordFailure are two critical sections.    *)
RateLimitedHalfOpen(r) ==
    /\ phase[r] = "sent" /\ faulty
    /\ IsHalfOpen
    /\ phase' = [phase EXCEPT ![r] = "charging"]
    /\ UNCHANGED <<cbVars, probe, leaked, faulty>>

RateLimitedOtherwise(r) ==
    /\ phase[r] = "sent" /\ faulty
    /\ ~IsHalfOpen
    /\ LeaveHeard(r)
    /\ UNCHANGED cbVars

ChargeRateLimit(r) ==
    /\ phase[r] = "charging"
    /\ RecordFailure
    /\ LeaveHeard(r)

(* buildRequest failed: OnRequestEnd only, the breaker hears nothing.      *)
BuildError(r) ==
    /\ phase[r] = "sent" /\ r \in Malformed
    /\ leaked' = (leaked \/ probe[r])
    /\ Leave(r)
    /\ UNCHANGED cbVars

(* The caller's context ended during a backoff.  A probe never backs off.  *)
CancelInBackoff(r) ==
    /\ phase[r] = "sent" /\ ~probe[r]
    /\ LeaveHeard(r)
    /\ UNCHANGED cbVars

TimeoutPasses ==
    /\ ~timeoutElapsed
    /\ timeoutElapsed' = TRUE
    /\ UNCHANGED <<state, failures, successes, halfOpenAllowed, admitted, charged, phase, probe,
                   leaked, faulty>>

(* The upstream breaks or recovers.                                        *)
Upstream ==
    /\ faulty' = ~faulty
    /\ UNCHANGED <<cbVars, phase, probe, leaked>>

Answer(r) ==
    Succeed(r) \/ Fail(r) \/ RateLimitedHalfOpen(r) \/ RateLimitedOtherwise(r)

Finish(r) ==
    Answer(r) \/ ChargeRateLimit(r) \/ BuildError(r) \/ CancelInBackoff(r)

Next ==
    \/ \E r \in Requests : Begin(r) \/ Finish(r)
    \/ TimeoutPasses
    \/ Upstream

SafeSpec == Init /\ [][Next]_vars

(* Clients keep calling; the HTTP timeout ends every attempt; time passes. *)
Fairness ==
    /\ \A r \in Requests : WF_vars(Begin(r)) /\ WF_vars(Finish(r))
    /\ WF_vars(TimeoutPasses)

Spec == SafeSpec /\ Fairness

-----------------------------------------------------------------------------
(* The shape of the state: counters stay within their thresholds.          *)
TypeOK ==
    /\ state \in States
    /\ failures \in 0..FailureThreshold
    /\ successes \in 0..SuccessThreshold
    /\ admitted \in 0..SuccessThreshold
    /\ charged \in 0..FailureThreshold
    /\ halfOpenAllowed \in BOOLEAN
    /\ timeoutElapsed \in BOOLEAN
    /\ phase \in [Requests -> Phases]
    /\ probe \in [Requests -> BOOLEAN]
    /\ leaked \in BOOLEAN /\ faulty \in BOOLEAN

(* A closed breaker opens with exactly the FailureThreshold-th failure it  *)
(* has heard in a row since it closed: what was reported before, while it  *)
(* was open or half-open, takes nothing from the budget, and a success     *)
(* gives all of it back.  A failure that arrives after the closing counts  *)
(* like any other, also one of a request sent before the trip and a 429    *)
(* that found the breaker half-open and charges it later.                  *)
WholeBudget == [][state = "closed" => (state' = "open" <=> charged' = FailureThreshold)]_vars

(* The herd bound.  However late the answers of older requests arrive, one *)
(* half-open episode admits at most one request more than it has recorded  *)
(* successes, so never more than SuccessThreshold of them.  It is what     *)
(* holds instead of OneProbeAtATime.                                       *)
HerdBound ==
    state = "half-open" =>
        /\ admitted <= successes + 1
        /\ halfOpenAllowed => admitted <= successes
        /\ admitted <= SuccessThreshold

(* circuit_breaker.go:60 "Only allow one request through at a time in      *)
(* half-open state": the next probe goes when the last one has answered.   *)
OneProbeAtATime == state = "half-open" => \A p, q \in Probes : p = q

(* Unless a probe ended without telling it, a half-open breaker that has   *)
(* handed out its token has a probe under way whose outcome, whatever it   *)
(* is, gives the token back.                                               *)
ProbeTokenHeld ==
    state = "half-open" /\ ~halfOpenAllowed /\ ~leaked => Probes # {}

(* What a late success of a request sent before the trip must not do: an   *)
(* open breaker closes only by way of half-open, after its timeout.        *)
OpenNeverClosesDirectly == [][state = "open" => state' # "closed"]_vars

(* Once the upstream answers every request, traffic closes the breaker and *)
(* keeps it closed, whatever was in flight at the time of the recovery,    *)
(* as long as every probe reports its outcome.                             *)
Recovers == [](~leaked) /\ <>[](~faulty) => <>[](state = "closed")

(* client.go:77 "prevents cascading failures by stopping requests to an    *)
(* unhealthy provider until it recovers": only until then.                 *)
StopsOnlyUntilRecovery == <>[](~faulty) => []<>(state = "closed")
=============================================================================
