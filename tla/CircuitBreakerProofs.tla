------------------------ MODULE CircuitBreakerProofs ------------------------
(***************************************************************************)
(* What holds of the circuit breaker for every number of callers and every *)
(* pair of thresholds.  HerdBound is not inductive by itself: it needs     *)
(* that a half-open breaker is still short of the successes that close it. *)
(* WholeBudget needs that the breaker's own counter says, while it is      *)
(* closed, what the history says.                                          *)
(* The last section shows that a lost probe token is lost for good.        *)
(***************************************************************************)
EXTENDS CircuitBreaker, TLAPS

ShortOfClosing == state = "half-open" => successes < SuccessThreshold

(* Whatever the counter held before, closed it counts this period only.    *)
BudgetCounted == state = "closed" => failures = charged /\ charged < FailureThreshold

(* TypeOK in three parts: the breaker's counters, its flags, the requests. *)
CountersOK ==
    /\ state \in States
    /\ failures \in 0..FailureThreshold
    /\ successes \in 0..SuccessThreshold
    /\ admitted \in 0..SuccessThreshold
    /\ charged \in 0..FailureThreshold

FlagsOK == halfOpenAllowed \in BOOLEAN /\ timeoutElapsed \in BOOLEAN

RequestsOK ==
    /\ phase \in [Requests -> Phases]
    /\ probe \in [Requests -> BOOLEAN]
    /\ leaked \in BOOLEAN /\ faulty \in BOOLEAN

CBInv == CountersOK /\ FlagsOK /\ BudgetCounted /\ ShortOfClosing /\ HerdBound

IInv == CBInv /\ RequestsOK

-----------------------------------------------------------------------------
(* The parts make up the type invariant.                                   *)
LEMMA TypeParts == CountersOK /\ FlagsOK /\ RequestsOK => TypeOK
BY DEF TypeOK, CountersOK, FlagsOK, RequestsOK

(* RecordSuccess keeps the thresholds, the budget and the herd bound: it   *)
(* gives the token back together with the success that pays for it.        *)
LEMMA SuccessKeeps == CBInv /\ RecordSuccess => CBInv'
<1> SUFFICES ASSUME CBInv, RecordSuccess PROVE CBInv'
  OBVIOUS
<1> USE ThresholdAssumption DEF CBInv
<1>1. FlagsOK'
  BY Zenon DEF RecordSuccess, FlagsOK
<1>2. CountersOK'
  BY DEF RecordSuccess, NoteSuccess, CountersOK, States, ShortOfClosing
<1>3. BudgetCounted'
  BY DEF RecordSuccess, NoteSuccess, BudgetCounted, CountersOK
<1>4. ShortOfClosing'
  BY DEF RecordSuccess, CountersOK, ShortOfClosing
<1>5. HerdBound'
  BY DEF RecordSuccess, CountersOK, HerdBound, ShortOfClosing
<1>6. QED
  BY <1>1, <1>2, <1>3, <1>4, <1>5

(* RecordFailure keeps them as well: it never leaves the breaker half-open.*)
LEMMA FailureKeeps == CBInv /\ RecordFailure => CBInv'
<1> SUFFICES ASSUME CBInv, RecordFailure PROVE CBInv'
  OBVIOUS
<1> USE ThresholdAssumption DEF CBInv
<1>1. FlagsOK'
  BY Zenon DEF RecordFailure, FlagsOK
<1>2. CountersOK'
  BY DEF RecordFailure, NoteFailure, BudgetCounted, CountersOK, States
<1>3. BudgetCounted'
  BY DEF RecordFailure, NoteFailure, BudgetCounted, CountersOK
<1>4. ShortOfClosing' /\ HerdBound'
  BY DEF RecordFailure, ShortOfClosing, HerdBound, CountersOK
<1>5. QED
  BY <1>1, <1>2, <1>3, <1>4

(* A step that leaves the breaker's variables alone keeps CBInv.           *)
LEMMA IdleKeeps == CBInv /\ UNCHANGED cbVars => CBInv'
<1> SUFFICES ASSUME CBInv, UNCHANGED cbVars PROVE CBInv'
  OBVIOUS
<1> USE DEF CBInv, cbVars
<1>1. CountersOK'
  BY DEF CountersOK
<1>2. FlagsOK'
  BY DEF FlagsOK
<1>3. (BudgetCounted /\ ShortOfClosing /\ HerdBound)'
  BY DEF BudgetCounted, ShortOfClosing, HerdBound
<1>4. QED
  BY <1>1, <1>2, <1>3

(* acquire keeps them: a probe is admitted only with the token, when the   *)
(* probes so far are covered by successes.                                 *)
LEMMA AcquireKeeps ==
    ASSUME NEW isProbe \in BOOLEAN, CBInv, Acquire(isProbe)
    PROVE  CBInv'
<1> USE ThresholdAssumption DEF CBInv
<1>1. CASE AcquireClosed
  BY <1>1, IdleKeeps DEF AcquireClosed
<1>2. CASE AcquireReopening
  <2>1. FlagsOK'
    BY <1>2, Zenon DEF AcquireReopening, FlagsOK
  <2>2. CountersOK'
    BY <1>2 DEF AcquireReopening, CountersOK, States
  <2>3. (BudgetCounted /\ ShortOfClosing /\ HerdBound)'
    BY <1>2 DEF AcquireReopening, BudgetCounted, ShortOfClosing, HerdBound
  <2>4. QED
    BY <2>1, <2>2, <2>3
<1>3. CASE AcquireHalfOpen
  <2>1. FlagsOK'
    BY <1>3, Zenon DEF AcquireHalfOpen, FlagsOK
  <2>2. CountersOK'
    BY <1>3 DEF AcquireHalfOpen, CountersOK, ShortOfClosing, HerdBound
  <2>3. (BudgetCounted /\ ShortOfClosing /\ HerdBound)'
    BY <1>3
    DEF AcquireHalfOpen, CountersOK, BudgetCounted, ShortOfClosing, HerdBound
  <2>4. QED
    BY <2>1, <2>2, <2>3
<1>4. QED
  BY <1>1, <1>2, <1>3, Zenon DEF Acquire

-----------------------------------------------------------------------------
(* The initial state, circuit_breaker.go:29-37, satisfies the invariant.   *)
LEMMA InitInv == Init => IInv
<1> SUFFICES ASSUME Init PROVE IInv
  OBVIOUS
<1>1. CountersOK /\ BudgetCounted /\ ShortOfClosing
  BY ThresholdAssumption DEF Init, CountersOK, States, BudgetCounted, ShortOfClosing
<1>2. FlagsOK
  BY Zenon DEF Init, FlagsOK
<1>3. HerdBound
  BY DEF Init, HerdBound
<1>4. RequestsOK
  BY DEF Init, RequestsOK, Phases
<1>5. QED
  BY <1>1, <1>2, <1>3, <1>4 DEF IInv, CBInv

(* Every step of every caller keeps the invariant.                         *)
LEMMA NextInv == IInv /\ [Next]_vars => IInv'
<1> SUFFICES ASSUME IInv, [Next]_vars PROVE IInv'
  OBVIOUS
<1>0. CBInv /\ RequestsOK
  BY DEF IInv
<1>1. ASSUME NEW r \in Requests, Begin(r) PROVE IInv'
  <2>1. PICK isProbe \in BOOLEAN : Acquire(isProbe) /\ probe' = [probe EXCEPT ![r] = isProbe]
    BY <1>1 DEF Begin
  <2>2. CBInv'
    BY <1>0, <2>1, AcquireKeeps
  <2>3. RequestsOK'
    BY <1>0, <1>1, <2>1 DEF Begin, Phases, RequestsOK
  <2>4. QED
    BY <2>2, <2>3 DEF IInv
<1>2. ASSUME NEW r \in Requests, Finish(r) PROVE IInv'
  <2>1. CBInv'
    <3>1. CASE Succeed(r)
      BY <1>0, <3>1, SuccessKeeps DEF Succeed
    <3>2. CASE Fail(r) \/ ChargeRateLimit(r)
      BY <1>0, <3>2, FailureKeeps DEF Fail, ChargeRateLimit
    <3>3. CASE \/ RateLimitedHalfOpen(r) \/ RateLimitedOtherwise(r)
               \/ BuildError(r) \/ CancelInBackoff(r)
      BY <1>0, <3>3, IdleKeeps
      DEF RateLimitedHalfOpen, RateLimitedOtherwise, BuildError, CancelInBackoff
    <3>4. QED
      BY <1>2, <3>1, <3>2, <3>3 DEF Finish, Answer
  <2>2. RequestsOK'
    BY <1>0, <1>2
    DEF RequestsOK, Finish, Answer, Succeed, Fail, RateLimitedHalfOpen,
        RateLimitedOtherwise, ChargeRateLimit, BuildError, CancelInBackoff, LeaveHeard, Leave,
        Phases
  <2>3. QED
    BY <2>1, <2>2 DEF IInv
<1>3. CASE TimeoutPasses
  <2>1. FlagsOK'
    BY <1>0, <1>3, Zenon DEF TimeoutPasses, CBInv, FlagsOK
  <2>2. QED
    BY <1>0, <1>3, <2>1
    DEF TimeoutPasses, IInv, CBInv, CountersOK, BudgetCounted, ShortOfClosing,
        HerdBound, RequestsOK
<1>4. CASE Upstream
  <2>1. leaked' \in BOOLEAN /\ faulty' \in BOOLEAN
    BY <1>0, <1>4, Zenon DEF Upstream, RequestsOK
  <2>2. QED
    BY <1>0, <1>4, <2>1, IdleKeeps DEF Upstream, IInv, RequestsOK
<1>5. CASE UNCHANGED vars
  BY <1>0, <1>5, IdleKeeps DEF vars, IInv, RequestsOK
<1>6. QED
  BY <1>1, <1>2, <1>3, <1>4, <1>5 DEF Next

(* The inductive invariant holds in every reachable state.                 *)
THEOREM Invariance == SafeSpec => []IInv
BY InitInv, NextInv, PTL DEF SafeSpec

(* Every variable keeps its type: no counter passes its threshold.         *)
THEOREM TypeCorrect == SafeSpec => []TypeOK
<1>1. IInv => TypeOK
  BY TypeParts DEF IInv, CBInv
<1>2. QED
  BY <1>1, Invariance, PTL

(* The counter that closing and every success clear is the one that trips  *)
(* the breaker: a whole budget of failures in a row, heard while closed.   *)
THEOREM FreshBudget == SafeSpec => WholeBudget
<1>1. IInv /\ IInv' /\ [Next]_vars
        => [state = "closed" => (state' = "open" <=> charged' = FailureThreshold)]_vars
  <2> SUFFICES ASSUME IInv, IInv', Next, state = "closed"
               PROVE  state' = "open" <=> charged' = FailureThreshold
    OBVIOUS
  <2>1. /\ failures = charged /\ charged \in Nat /\ charged < FailureThreshold
        /\ FailureThreshold \in Nat
        /\ state' = "closed" => charged' < FailureThreshold /\ charged' \in Nat
    BY ThresholdAssumption DEF IInv, CBInv, CountersOK, BudgetCounted
  <2>2. CASE UNCHANGED cbVars
    BY <2>1, <2>2 DEF cbVars
  <2>3. CASE RecordSuccess
    BY <2>1, <2>3 DEF RecordSuccess
  <2>4. CASE RecordFailure
    BY <2>1, <2>4 DEF RecordFailure, NoteFailure
  <2>5. CASE \E r \in Requests : Begin(r)
    BY <2>1, <2>2, <2>5
    DEF Begin, Acquire, AcquireClosed, AcquireReopening, AcquireHalfOpen
  <2>6. CASE \E r \in Requests : Finish(r)
    BY <2>2, <2>3, <2>4, <2>6
    DEF Finish, Answer, Succeed, Fail, RateLimitedHalfOpen, RateLimitedOtherwise,
        ChargeRateLimit, BuildError, CancelInBackoff
  <2>7. CASE TimeoutPasses \/ Upstream
    BY <2>1, <2>2, <2>7 DEF TimeoutPasses, Upstream
  <2>8. QED
    BY <2>5, <2>6, <2>7 DEF Next
<1>2. QED
  BY <1>1, Invariance, PTL DEF SafeSpec, WholeBudget

(* acquire lets at most SuccessThreshold probes out per half-open episode. *)
THEOREM Herd == SafeSpec => []HerdBound
<1>1. IInv => HerdBound
  BY DEF IInv, CBInv
<1>2. QED
  BY <1>1, Invariance, PTL

-----------------------------------------------------------------------------
(* No method takes an open breaker to closed in one step.                  *)
THEOREM OpenThenHalfOpen == SafeSpec => OpenNeverClosesDirectly
<1>1. IInv /\ [Next]_vars => [state = "open" => state' # "closed"]_vars
  <2> SUFFICES ASSUME IInv, Next, state = "open" PROVE state' # "closed"
    OBVIOUS
  <2>1. CASE \E r \in Requests : Begin(r)
    BY <2>1 DEF Begin, Acquire, AcquireClosed, AcquireReopening, AcquireHalfOpen
  <2>2. CASE \E r \in Requests : Finish(r)
    BY <2>2
    DEF Finish, Answer, Succeed, Fail, RateLimitedHalfOpen, RateLimitedOtherwise,
        ChargeRateLimit, BuildError, CancelInBackoff, RecordSuccess, RecordFailure, cbVars
  <2>3. CASE TimeoutPasses \/ Upstream
    BY <2>3 DEF TimeoutPasses, Upstream, cbVars
  <2>4. QED
    BY <2>1, <2>2, <2>3 DEF Next
<1>2. QED
  BY <1>1, Invariance, PTL DEF SafeSpec, OpenNeverClosesDirectly

-----------------------------------------------------------------------------
(* While no probe stays silent, the token always comes back.  A probe  *)
(* leaves the breaker only through an outcome that re-arms the token or    *)
(* ends the episode, so a spent token has a probe in flight.               *)
LEMMA TokenStep ==
    ASSUME IInv, ProbeTokenHeld, [Next]_vars
    PROVE  ProbeTokenHeld'
<1> SUFFICES ASSUME state' = "half-open", ~halfOpenAllowed', ~leaked'
             PROVE  \E r \in Requests : phase'[r] # "idle" /\ probe'[r]
  BY DEF ProbeTokenHeld, Probes, InFlight
<1> USE DEF IInv, RequestsOK, Phases
<1>1. ASSUME NEW r \in Requests, Begin(r)
      PROVE  \E q \in Requests : phase'[q] # "idle" /\ probe'[q]
  <2>1. PICK isProbe \in BOOLEAN : Acquire(isProbe) /\ probe' = [probe EXCEPT ![r] = isProbe]
    BY <1>1 DEF Begin
  <2>2. isProbe
    BY <2>1 DEF Acquire, AcquireClosed, cbVars
  <2>3. phase'[r] = "sent" /\ probe'[r]
    BY <1>1, <2>1, <2>2 DEF Begin
  <2>4. QED
    BY <2>3
<1>2. ASSUME NEW r \in Requests, Finish(r)
      PROVE  \E q \in Requests : phase'[q] # "idle" /\ probe'[q]
  <2>1. CASE Succeed(r) \/ Fail(r) \/ ChargeRateLimit(r)
    BY <2>1 DEF Succeed, Fail, ChargeRateLimit, RecordSuccess, RecordFailure
  <2>2. CASE RateLimitedHalfOpen(r)
    <3>1. PICK q \in Requests : phase[q] # "idle" /\ probe[q]
      BY <2>2 DEF RateLimitedHalfOpen, cbVars, ProbeTokenHeld, Probes, InFlight
    <3>2. phase'[q] # "idle" /\ probe'[q]
      BY <2>2, <3>1 DEF RateLimitedHalfOpen
    <3>3. QED
      BY <3>2
  <2>3. CASE RateLimitedOtherwise(r)
    BY <2>3 DEF RateLimitedOtherwise, cbVars, IsHalfOpen
  <2>4. CASE CancelInBackoff(r) \/ BuildError(r)
    <3>1. /\ phase[r] # "idle" /\ ~probe[r]
          /\ UNCHANGED cbVars /\ ~leaked
          /\ phase' = [phase EXCEPT ![r] = "idle"]
          /\ probe' = [probe EXCEPT ![r] = FALSE]
      BY <2>4 DEF CancelInBackoff, BuildError, LeaveHeard, Leave
    <3>2. PICK q \in Requests : phase[q] # "idle" /\ probe[q]
      BY <3>1 DEF cbVars, ProbeTokenHeld, Probes, InFlight
    <3>3. phase'[q] # "idle" /\ probe'[q]
      BY <3>1, <3>2
    <3>4. QED
      BY <3>3
  <2>5. QED
    BY <1>2, <2>1, <2>2, <2>3, <2>4 DEF Finish, Answer
<1>3. CASE TimeoutPasses \/ Upstream \/ UNCHANGED vars
  BY <1>3 DEF TimeoutPasses, Upstream, vars, cbVars, ProbeTokenHeld, Probes, InFlight
<1>4. QED
  BY <1>1, <1>2, <1>3 DEF Next

(* The half-open token is lost only by a probe that tells nothing.         *)
THEOREM TokenHeld == SafeSpec => []ProbeTokenHeld
<1>1. Init => ProbeTokenHeld
  BY DEF Init, ProbeTokenHeld
<1>2. IInv /\ ProbeTokenHeld /\ [Next]_vars => ProbeTokenHeld'
  BY TokenStep
<1>3. QED
  BY <1>1, <1>2, Invariance, PTL DEF SafeSpec

-----------------------------------------------------------------------------
(* A half-open breaker whose token is out while nobody is under way stays  *)
(* so for good: acquire refuses every caller, and no timeout is looked at  *)
(* any more (circuit_breaker.go:62).  By TokenHeld the only way there is a *)
(* probe that ended without telling the breaker (client.go:528).           *)
Wedged == state = "half-open" /\ ~halfOpenAllowed /\ InFlight = {}

WedgedForGood == [][Wedged => Wedged']_vars

THEOREM WedgeIsForGood == SafeSpec => WedgedForGood
<1>1. [Next]_vars => [Wedged => Wedged']_vars
  <2> SUFFICES ASSUME Next, Wedged PROVE Wedged'
    OBVIOUS
  <2>1. \A r \in Requests : phase[r] = "idle"
    BY DEF Wedged, InFlight
  <2>2. ASSUME NEW r \in Requests PROVE ~Begin(r)
    BY DEF Wedged, Begin, Acquire, AcquireClosed, AcquireReopening, AcquireHalfOpen
  <2>3. ASSUME NEW r \in Requests PROVE ~Finish(r)
    BY <2>1
       DEF Finish, Answer, Succeed, Fail, RateLimitedHalfOpen, RateLimitedOtherwise,
           ChargeRateLimit, BuildError, CancelInBackoff
  <2>4. CASE TimeoutPasses \/ Upstream
    BY <2>4 DEF TimeoutPasses, Upstream, cbVars, Wedged, InFlight
  <2>5. QED
    BY <2>2, <2>3, <2>4 DEF Next
<1>2. QED
  BY <1>1, PTL DEF SafeSpec, WedgedForGood

(* And it is a probe that went silent that brings the breaker there.       *)
THEOREM OnlySilentProbesWedge == SafeSpec => [](Wedged => leaked)
<1>1. ProbeTokenHeld /\ IInv => (Wedged => leaked)
  BY DEF ProbeTokenHeld, Probes, Wedged, IInv, RequestsOK
<1>2. QED
  BY <1>1, TokenHeld, Invariance, PTL
=============================================================================
