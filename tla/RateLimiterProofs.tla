------------------------- MODULE RateLimiterProofs -------------------------
(***************************************************************************)
(* What the two limiters of an API key guarantee for any number of         *)
(* requests, any limits and any lengths of the windows: whatever the delay *)
(* between the reading of the clock and the decision, and whatever the     *)
(* replicas interleave, no window is overdrawn; and the in-memory limiter  *)
(* refuses no request without a window that is spent.                      *)
(***************************************************************************)
EXTENDS KeyRateLimiter, RedisRateLimiter, FiniteSetTheorems, TLAPS

-----------------------------------------------------------------------------
(* Arithmetic of the windows *)

LEMMA DivBelow == \A n \in Nat, L \in Nat : L > 0 => (n \div L) \in Nat /\ (n \div L) * L <= n
OBVIOUS

LEMMA DivAbove == \A n \in Nat, L \in Nat : L > 0 => n < (n \div L) * L + L
OBVIOUS

LEMMA MultipleIsLonger == \A n \in Nat, L \in Nat : L > 0 /\ n > 0 /\ n % L = 0 => L <= n
OBVIOUS

LEMMA Distribute == \A k \in Nat, L \in Nat : (k + 1) * L = k * L + L
OBVIOUS

LEMMA Lengths == \A s \in Scopes : Length(s) \in Nat /\ Length(s) > 0 /\ Length(s) <= Day
<1>1. Minute \in Nat /\ Minute > 0 /\ Day \in Nat /\ Day > 0 /\ Minute <= Day
  BY RateAssumption, MultipleIsLonger
<1>2. QED
  BY <1>1 DEF Length

\* A window ends after the time it is read at, and no later than a day after.
LEMMA WindowEnd ==
  ASSUME NEW s \in Scopes, NEW now \in Clock
  PROVE End(s, now) \in Ends /\ End(s, now) > now
<1> DEFINE L == Length(s)
<1> DEFINE k == now \div L
<1>1. L \in Nat /\ L > 0 /\ L <= Day /\ now \in Nat /\ now <= MaxClock
      /\ MaxClock \in Nat /\ Day \in Nat
  BY Lengths, RateAssumption DEF Clock
<1>2. k \in Nat /\ k * L <= now /\ now < k * L + L
  BY <1>1, DivBelow, DivAbove
<1>3. End(s, now) = k * L + L
  BY <1>1, <1>2, Distribute DEF End
<1> DEFINE m == k * L
<1>4. m \in Nat
  BY <1>1, <1>2
<1> HIDE DEF m, k, L
<1>5. QED
  BY <1>1, <1>2, <1>3, <1>4 DEF Ends, m

LEMMA Costs ==
  ASSUME NEW s \in Scopes, NEW t \in Tokens
  PROVE Cost(s, t) \in Nat /\ Limit[s] \in Nat
BY RateAssumption DEF Cost

-----------------------------------------------------------------------------
(* The in-memory limiter: its invariant *)

Counter == [count : Nat, resetAt : Ends]
Request == [state : {"gone", "waiting", "refused", "allowed"}, now : Clock, tokens : Nat]

LimiterTypes ==
  /\ clock \in Clock
  /\ counters \in [Scopes -> Counter]
  /\ caller \in [Callers -> Request]
  /\ \A c \in Callers : caller[c].state = "waiting" => caller[c].tokens \in Tokens
  /\ spent \in [Scopes -> [Ends -> Nat]]

\* A counter counts what its window was charged, and no window after it has
\* been charged anything: that is why a window left is never entered again.
CounterExact ==
  \A s \in Scopes :
    Limit[s] > 0 =>
      /\ counters[s].count = spent[s][counters[s].resetAt]
      /\ \A e \in Ends : e > counters[s].resetAt => spent[s][e] = 0

LimiterInv == LimiterTypes /\ CounterExact /\ NoOverdraw

LEMMA LimiterInvInit == LimiterInit => LimiterInv
<1> SUFFICES ASSUME LimiterInit PROVE LimiterInv
  OBVIOUS
<1>1. 0 \in Clock /\ 0 \in Ends
  BY RateAssumption DEF Clock, Ends
<1>2. \A s \in Scopes : Limit[s] \in Nat
  BY RateAssumption
<1>3. spent \in [Scopes -> [Ends -> Nat]] /\ \A s \in Scopes, e \in Ends : spent[s][e] = 0
  BY DEF LimiterInit, NothingSpent
<1>4. counters \in [Scopes -> Counter] /\ \A s \in Scopes : counters[s] = Unused
  BY <1>1 DEF LimiterInit, Unused, Counter
<1>5. caller \in [Callers -> Request] /\ \A c \in Callers : caller[c].state # "waiting"
  BY <1>1 DEF LimiterInit, Gone, Request
<1>6. clock \in Clock
  BY <1>1 DEF LimiterInit
<1>7. CounterExact /\ NoOverdraw
  BY <1>1, <1>2, <1>3, <1>4 DEF CounterExact, NoOverdraw, Unused
<1>8. QED
  BY <1>3, <1>4, <1>5, <1>6, <1>7 DEF LimiterInv, LimiterTypes

\* The counter a request that read now goes by: of a window that has not ended
\* then, with what that window was charged, and the last window charged.
LEMMA CurrentExact ==
  ASSUME LimiterInv, NEW s \in Scopes, NEW now \in Clock
  PROVE /\ Current(s, now) \in Counter
        /\ Current(s, now).resetAt > now
        /\ Limit[s] > 0 =>
             /\ Current(s, now).count = spent[s][Current(s, now).resetAt]
             /\ \A e \in Ends : e > Current(s, now).resetAt => spent[s][e] = 0
<1>1. End(s, now) \in Ends /\ End(s, now) > now
  BY WindowEnd
<1>2. now \in Nat /\ Ends \subseteq Nat
  BY RateAssumption DEF Clock, Ends
<1>3. /\ counters[s] \in Counter
      /\ counters[s].resetAt \in Ends /\ counters[s].count \in Nat
  BY DEF LimiterInv, LimiterTypes, Counter
<1>4. Limit[s] > 0 =>
        /\ counters[s].count = spent[s][counters[s].resetAt]
        /\ \A e \in Ends : e > counters[s].resetAt => spent[s][e] = 0
  BY DEF LimiterInv, CounterExact
<1> DEFINE c == counters[s]
<1> DEFINE r == c.resetAt
<1> DEFINE x == End(s, now)
<1>5. r \in Nat /\ x \in Nat /\ now \in Nat
  BY <1>1, <1>2, <1>3, Zenon
<1>6. CASE r = 0 \/ now >= r
  <2>1. Current(s, now) = [count |-> 0, resetAt |-> x]
    BY <1>6, Zenon DEF Current
  <2>2. x > r /\ x > now
    <3> HIDE DEF r, x
    <3>1. x > now
      BY <1>1 DEF x
    <3>2. QED
      BY <3>1, <1>5, <1>6
  <2>3. Limit[s] > 0 => spent[s][x] = 0 /\ \A e \in Ends : e > x => spent[s][e] = 0
    <3> SUFFICES ASSUME Limit[s] > 0 PROVE spent[s][x] = 0 /\ \A e \in Ends : e > x => spent[s][e] = 0
      OBVIOUS
    <3>1. \A e \in Ends : e > r => spent[s][e] = 0
      BY <1>4, Zenon
    <3>2. x \in Ends
      BY <1>1
    <3> HIDE DEF r, x
    <3>3. \A e \in Ends : e > x => e > r
      BY <2>2, <1>2, <1>5
    <3>4. QED
      BY <3>1, <3>2, <3>3, <2>2
  <2>4. [count |-> 0, resetAt |-> x] \in Counter
    BY <1>1 DEF Counter
  <2> HIDE DEF r, x
  <2>5. QED
    BY <2>1, <2>2, <2>3, <2>4
<1>7. CASE ~(r = 0 \/ now >= r)
  <2>1. Current(s, now) = c
    BY <1>7, Zenon DEF Current
  <2>2. r > now
    <3> HIDE DEF r
    <3>1. QED
      BY <1>5, <1>7
  <2>3. QED
    BY <2>1, <2>2, <1>3, <1>4, Zenon
<1>8. QED
  BY <1>6, <1>7

-----------------------------------------------------------------------------
(* The steps *)

\* A step that only changes the callers keeps the invariant.
LEMMA CallersOnly ==
  ASSUME LimiterInv, clock' \in Clock, UNCHANGED <<counters, spent>>,
         caller' \in [Callers -> Request],
         \A c \in Callers : caller'[c].state = "waiting" => caller'[c].tokens \in Tokens
  PROVE LimiterInv'
BY DEF LimiterInv, LimiterTypes, CounterExact, NoOverdraw

\* One scope of the counters and of the charges, after a request let through.
CounterAfter(s, now, t) ==
  IF Checked(s, t) THEN [Current(s, now) EXCEPT !.count = @ + Cost(s, t)] ELSE counters[s]

SpentAfter(s, now, t) ==
  IF Checked(s, t) THEN [spent[s] EXCEPT ![Current(s, now).resetAt] = @ + Cost(s, t)]
  ELSE spent[s]

ScopeKept(s, c, f) ==
  /\ c \in Counter /\ f \in [Ends -> Nat]
  /\ Limit[s] > 0 =>
       /\ c.count = f[c.resetAt]
       /\ \A e \in Ends : e > c.resetAt => f[e] = 0
       /\ \A e \in Ends : f[e] <= Limit[s]

LEMMA OneScope ==
  ASSUME LimiterInv, NEW s \in Scopes, NEW now \in Clock, NEW t \in Tokens,
         Refusing(now, t) = {}
  PROVE ScopeKept(s, CounterAfter(s, now, t), SpentAfter(s, now, t))
<1> DEFINE cs == CounterAfter(s, now, t)
<1> DEFINE sp == SpentAfter(s, now, t)
<1> DEFINE cur == Current(s, now)
<1> DEFINE k == Cost(s, t)
<1>1. k \in Nat /\ Limit[s] \in Nat
  BY Costs
<1>2. /\ cur \in Counter
      /\ Limit[s] > 0 =>
           /\ cur.count = spent[s][cur.resetAt]
           /\ \A e \in Ends : e > cur.resetAt => spent[s][e] = 0
  BY CurrentExact
<1>3. counters[s] \in Counter /\ spent[s] \in [Ends -> Nat]
  BY DEF LimiterInv, LimiterTypes
<1>4. Limit[s] > 0 => \A e \in Ends : spent[s][e] <= Limit[s]
  BY DEF LimiterInv, NoOverdraw
<1>5. CASE Checked(s, t)
  <2>1. Limit[s] > 0
    BY <1>5 DEF Checked
  <2>2. ~(cur.count + k > Limit[s])
    BY <1>5 DEF Refusing
  <2>3. cs = [cur EXCEPT !.count = @ + k] /\ sp = [spent[s] EXCEPT ![cur.resetAt] = @ + k]
    BY <1>5 DEF CounterAfter, SpentAfter
  <2> HIDE DEF cur, k, cs, sp
  <2>4. cur.count \in Nat /\ cur.resetAt \in Ends
    BY <1>2 DEF Counter
  <2>5. cs \in Counter /\ cs.count = cur.count + k /\ cs.resetAt = cur.resetAt
    <3> DEFINE n == cur.count + k
    <3>1. n \in Nat
      BY <2>4, <1>1
    <3>2. cs = [cur EXCEPT !.count = n]
      BY <2>3, Zenon
    <3> HIDE DEF n
    <3>3. cs = [count |-> n, resetAt |-> cur.resetAt]
      BY <3>1, <3>2, <1>2 DEF Counter
    <3>4. QED
      BY <3>1, <3>3, <2>4 DEF Counter, n
  <2>6. /\ sp \in [Ends -> Nat] /\ sp[cur.resetAt] = cur.count + k
        /\ \A e \in Ends : e # cur.resetAt => sp[e] = spent[s][e]
    <3> DEFINE f == spent[s]
    <3> DEFINE r == cur.resetAt
    <3> DEFINE v == f[r] + k
    <3>1. r \in Ends /\ f \in [Ends -> Nat] /\ sp = [f EXCEPT ![r] = v]
      BY <2>3, <2>4, <1>3, Zenon
    <3>2. f[r] = cur.count
      BY <2>1, <1>2, Zenon
    <3>3. v = cur.count + k /\ v \in Nat
      BY <3>2, <2>4, <1>1
    <3> HIDE DEF f, v, r
    <3>4. sp \in [Ends -> Nat] /\ sp[r] = v /\ \A e \in Ends : e # r => sp[e] = f[e]
      BY <3>1, <3>3
    <3>5. QED
      BY <3>3, <3>4, Zenon DEF f, r
  <2>7. \A e \in Ends : e > cur.resetAt => e # cur.resetAt
    BY <2>4, RateAssumption DEF Ends
  <2>8. cur.count + k <= Limit[s]
    BY <2>2, <2>4, <1>1
  <2>9. QED
    <3>1. ScopeKept(s, cs, sp)
      BY <2>1, <2>5, <2>6, <2>7, <2>8, <1>2, <1>4 DEF ScopeKept
    <3>2. QED
      BY <3>1 DEF cs, sp
<1>6. CASE ~Checked(s, t)
  <2>1. cs = counters[s] /\ sp = spent[s]
    BY <1>6 DEF CounterAfter, SpentAfter
  <2>2. QED
    BY <2>1, <1>3, <1>4 DEF ScopeKept, LimiterInv, CounterExact
<1>7. QED
  BY <1>5, <1>6

LEMMA AllowKeeps ==
  ASSUME LimiterInv, NEW c \in Callers, Allow(c)
  PROVE LimiterInv'
<1> DEFINE now == caller[c].now
<1> DEFINE t == caller[c].tokens
<1> DEFINE cs(s) == CounterAfter(s, now, t)
<1> DEFINE sp(s) == SpentAfter(s, now, t)
<1>1. now \in Clock /\ t \in Tokens
  BY DEF Allow, LimiterInv, LimiterTypes, Request
<1>2. Refusing(now, t) = {}
  BY DEF Allow
<1>3. counters' = [s \in Scopes |-> cs(s)]
  BY DEF Allow, Counted, CounterAfter
<1>4. spent' = [s \in Scopes |-> sp(s)]
  BY DEF Allow, Charged, SpentAfter
<1>5. \A s \in Scopes : ScopeKept(s, cs(s), sp(s))
  BY <1>1, <1>2, OneScope
<1> DEFINE gone == [Gone EXCEPT !.state = "allowed"]
<1>6. caller' = [caller EXCEPT ![c] = gone] /\ clock' = clock
  BY DEF Allow, Decide
<1>7. gone \in Request /\ gone.state = "allowed"
  BY RateAssumption DEF Gone, Request, Clock
<1> HIDE DEF cs, sp, gone
<1>8. counters' \in [Scopes -> Counter] /\ spent' \in [Scopes -> [Ends -> Nat]]
  BY <1>3, <1>4, <1>5 DEF ScopeKept
<1>9. CounterExact' /\ NoOverdraw'
  <2>1. \A s \in Scopes : counters'[s] = cs(s) /\ spent'[s] = sp(s)
    BY <1>3, <1>4
  <2>2. QED
    BY <2>1, <1>5 DEF ScopeKept, CounterExact, NoOverdraw
<1>10. /\ caller' \in [Callers -> Request]
       /\ \A d \in Callers : caller'[d].state = "waiting" => caller'[d].tokens \in Tokens
  BY <1>6, <1>7 DEF LimiterInv, LimiterTypes
<1>11. QED
  BY <1>6, <1>8, <1>9, <1>10 DEF LimiterInv, LimiterTypes

LEMMA LimiterInvStep == LimiterInv /\ [LimiterNext]_limiterVars => LimiterInv'
<1> SUFFICES ASSUME LimiterInv, [LimiterNext]_limiterVars PROVE LimiterInv'
  OBVIOUS
<1>1. /\ clock \in Clock /\ caller \in [Callers -> Request]
      /\ \A c \in Callers : caller[c].state = "waiting" => caller[c].tokens \in Tokens
  BY DEF LimiterInv, LimiterTypes
<1>2. CASE PassTime
  <2>1. clock' \in Clock
    BY <1>1, <1>2, RateAssumption DEF PassTime, Clock
  <2>2. QED
    BY <1>1, <1>2, <2>1, CallersOnly DEF PassTime
<1>3. ASSUME NEW c \in Callers, NEW t \in Tokens, Arrive(c, t) PROVE LimiterInv'
  <2> DEFINE r == [state |-> "waiting", now |-> clock, tokens |-> t]
  <2>1. r \in Request /\ r.tokens \in Tokens
    BY <1>1, RateAssumption DEF Request
  <2>2. caller' = [caller EXCEPT ![c] = r] /\ UNCHANGED <<clock, counters, spent>>
    BY <1>3 DEF Arrive
  <2> HIDE DEF r
  <2>3. /\ caller' \in [Callers -> Request]
        /\ \A d \in Callers : caller'[d].state = "waiting" => caller'[d].tokens \in Tokens
    BY <1>1, <2>1, <2>2
  <2>4. QED
    BY <1>1, <2>2, <2>3, CallersOnly
<1>4. ASSUME NEW c \in Callers, Refuse(c) PROVE LimiterInv'
  <2> DEFINE r == [Gone EXCEPT !.state = "refused"]
  <2>1. r \in Request /\ r.state = "refused"
    BY RateAssumption DEF Gone, Request, Clock
  <2>2. caller' = [caller EXCEPT ![c] = r] /\ UNCHANGED <<clock, counters, spent>>
    BY <1>4 DEF Refuse, Decide
  <2> HIDE DEF r
  <2>3. /\ caller' \in [Callers -> Request]
        /\ \A d \in Callers : caller'[d].state = "waiting" => caller'[d].tokens \in Tokens
    BY <1>1, <2>1, <2>2
  <2>4. QED
    BY <1>1, <2>2, <2>3, CallersOnly
<1>5. ASSUME NEW c \in Callers, Allow(c) PROVE LimiterInv'
  BY <1>5, AllowKeeps
<1>6. CASE UNCHANGED limiterVars
  BY <1>1, <1>6, CallersOnly DEF limiterVars
<1>7. QED
  BY <1>2, <1>3, <1>4, <1>5, <1>6 DEF LimiterNext

-----------------------------------------------------------------------------
\* The invariant of the limiter, which the two theorems below are read off.
THEOREM LimiterInvariant == LimiterSpec => []LimiterInv
BY LimiterInvInit, LimiterInvStep, PTL DEF LimiterSpec

\* However late requests are decided, no window is overdrawn
\* (auth_key_rate_limit_support.go:189).
THEOREM LimiterNoOverdraw == LimiterSpec => []NoOverdraw
<1>1. LimiterInv => NoOverdraw
  BY DEF LimiterInv
<1>2. QED
  BY <1>1, LimiterInvariant, PTL

\* A refusal names a window the requests let through have spent
\* (auth_key_rate_limit_support.go:95).
THEOREM LimiterRefusesForCause == LimiterSpec => RefusedForCause
<1> DEFINE Cause(c) ==
      \E s \in Scopes, e \in Ends :
        /\ e > caller[c].now /\ Checked(s, caller[c].tokens)
        /\ spent[s][e] + Cost(s, caller[c].tokens) > Limit[s]
<1> DEFINE Refused(c) == caller[c].state = "waiting" /\ caller'[c].state = "refused"
<1>1. LimiterInv /\ [LimiterNext]_limiterVars => \A c \in Callers : Refused(c) => Cause(c)
  <2> SUFFICES ASSUME LimiterInv, [LimiterNext]_limiterVars, NEW c \in Callers, Refused(c)
               PROVE Cause(c)
    OBVIOUS
  <2> DEFINE now == caller[c].now
  <2> DEFINE t == caller[c].tokens
  <2>1. now \in Clock /\ t \in Tokens /\ caller \in [Callers -> Request]
    BY DEF LimiterInv, LimiterTypes, Request
  <2>2. Refuse(c)
    <3>1. CASE PassTime \/ UNCHANGED limiterVars
      BY <3>1 DEF PassTime, limiterVars
    <3>2. ASSUME NEW d \in Callers, NEW u \in Tokens, Arrive(d, u) PROVE FALSE
      BY <2>1, <3>2 DEF Arrive
    <3>3. ASSUME NEW d \in Callers, Allow(d) PROVE FALSE
      BY <2>1, <3>3 DEF Allow, Decide, Gone
    <3>4. ASSUME NEW d \in Callers, Refuse(d) PROVE d = c
      BY <2>1, <3>4 DEF Refuse, Decide
    <3>5. QED
      BY <3>1, <3>2, <3>3, <3>4 DEF LimiterNext
  <2>3. PICK s \in Scopes :
          Checked(s, t) /\ Current(s, now).count + Cost(s, t) > Limit[s]
    BY <2>2 DEF Refuse, Refusing
  <2>4. /\ Current(s, now).resetAt \in Ends /\ Current(s, now).resetAt > now
        /\ Current(s, now).count = spent[s][Current(s, now).resetAt]
    BY <2>1, <2>3, CurrentExact DEF Checked, Counter
  <2>5. QED
    BY <2>3, <2>4
<1>2. QED
  BY <1>1, LimiterInvariant, PTL DEF LimiterSpec, RefusedForCause

-----------------------------------------------------------------------------
(* The Redis limiter.  A counter that has not passed its limit is read as   *)
(* a strip of numbered tickets: every request that has passed the window    *)
(* owns as many as it costs, those let through before own the charges, and  *)
(* no ticket has two owners.  So the charges are bounded without a sum over *)
(* the requests under way.                                                  *)

TicketSet(L, n) == {i \in 1..L : i <= n}

Distinct(G, own) ==
  \A c \in Clients : /\ own[c] \cap G = {}
                     /\ \A d \in Clients : d # c => own[c] \cap own[d] = {}

\* n tickets of a strip of L have been torn off; g are spent for good and
\* request c owns need[c] more.
Fits(L, n, g, need) ==
  \E G \in SUBSET TicketSet(L, n), own \in [Clients -> SUBSET TicketSet(L, n)] :
    /\ Distinct(G, own)
    /\ Cardinality(G) = g
    /\ \A c \in Clients : need[c] > 0 => Cardinality(own[c]) = need[c]

LEMMA TicketsFinite ==
  ASSUME NEW L \in Nat, NEW n
  PROVE IsFiniteSet(TicketSet(L, n)) /\ Cardinality(TicketSet(L, n)) <= L
<1>1. IsFiniteSet(1..L) /\ Cardinality(1..L) = L
  BY FS_Interval
<1>2. TicketSet(L, n) \in SUBSET (1..L)
  BY DEF TicketSet
<1>3. QED
  BY <1>1, <1>2, FS_Subset

\* What is spent for good is no more than there are tickets.
LEMMA FitsBound ==
  ASSUME NEW L \in Nat, NEW n \in Nat, NEW g, NEW need, Fits(L, n, g, need)
  PROVE g <= L
<1>1. PICK G \in SUBSET TicketSet(L, n) : Cardinality(G) = g
  BY DEF Fits
<1>2. IsFiniteSet(G) /\ Cardinality(G) <= Cardinality(TicketSet(L, n))
  BY TicketsFinite, FS_Subset
<1>3. Cardinality(G) \in Nat /\ Cardinality(TicketSet(L, n)) \in Nat
  BY <1>2, TicketsFinite, FS_CardinalityType
<1>4. QED
  BY <1>1, <1>2, <1>3, TicketsFinite

\* More tickets may be torn off and requests may give theirs up.
LEMMA FitsGrow ==
  ASSUME NEW L \in Nat, NEW n \in Nat, NEW g, NEW need, Fits(L, n, g, need),
         NEW m \in Nat, n <= m, NEW now,
         \A c \in Clients : now[c] = 0 \/ now[c] = need[c]
  PROVE Fits(L, m, g, now)
<1>1. PICK G \in SUBSET TicketSet(L, n), own \in [Clients -> SUBSET TicketSet(L, n)] :
         /\ Distinct(G, own) /\ Cardinality(G) = g
         /\ \A c \in Clients : need[c] > 0 => Cardinality(own[c]) = need[c]
  BY DEF Fits
<1>2. TicketSet(L, n) \subseteq TicketSet(L, m)
  BY DEF TicketSet
<1>3. G \in SUBSET TicketSet(L, m) /\ own \in [Clients -> SUBSET TicketSet(L, m)]
  BY <1>2
<1>4. \A c \in Clients : now[c] > 0 => Cardinality(own[c]) = now[c]
  BY <1>1
<1>5. QED
  BY <1>1, <1>3, <1>4 DEF Fits

\* A request that fits takes the next k tickets.
LEMMA FitsTake ==
  ASSUME NEW L \in Nat, NEW n \in Nat, NEW g, NEW need, Fits(L, n, g, need),
         NEW k \in Nat, n + k <= L, NEW c \in Clients, NEW now,
         now[c] = k, \A d \in Clients \ {c} : now[d] = need[d]
  PROVE Fits(L, n + k, g, now)
<1>1. PICK G \in SUBSET TicketSet(L, n), own \in [Clients -> SUBSET TicketSet(L, n)] :
         /\ Distinct(G, own) /\ Cardinality(G) = g
         /\ \A d \in Clients : need[d] > 0 => Cardinality(own[d]) = need[d]
  BY DEF Fits
<1> DEFINE new == (n + 1)..(n + k)
<1> DEFINE owns == [own EXCEPT ![c] = new]
<1>2. /\ TicketSet(L, n) \subseteq TicketSet(L, n + k) /\ new \subseteq TicketSet(L, n + k)
      /\ new \cap TicketSet(L, n) = {}
  BY DEF TicketSet
<1>3. IsFiniteSet(new) /\ Cardinality(new) = k
  BY FS_Interval
<1> HIDE DEF new
<1>4. owns[c] = new /\ \A d \in Clients \ {c} : owns[d] = own[d]
  OBVIOUS
<1>5. G \in SUBSET TicketSet(L, n + k) /\ owns \in [Clients -> SUBSET TicketSet(L, n + k)]
  BY <1>2
<1> HIDE DEF owns
<1>6. Distinct(G, owns)
  BY <1>1, <1>2, <1>4 DEF Distinct
<1>7. \A d \in Clients : now[d] > 0 => Cardinality(owns[d]) = now[d]
  BY <1>1, <1>3, <1>4
<1>8. QED
  BY <1>1, <1>5, <1>6, <1>7 DEF Fits

\* A request let through hands its tickets over to the charges.
LEMMA FitsGrant ==
  ASSUME NEW L \in Nat, NEW n \in Nat, NEW g \in Nat, NEW need, Fits(L, n, g, need),
         NEW k \in Nat, k > 0, NEW c \in Clients, need[c] = k, NEW now,
         now[c] = 0, \A d \in Clients \ {c} : now[d] = need[d]
  PROVE Fits(L, n, g + k, now)
<1>1. PICK G \in SUBSET TicketSet(L, n), own \in [Clients -> SUBSET TicketSet(L, n)] :
         /\ Distinct(G, own) /\ Cardinality(G) = g
         /\ \A d \in Clients : need[d] > 0 => Cardinality(own[d]) = need[d]
  BY DEF Fits
<1> DEFINE G2 == G \cup own[c]
<1> DEFINE owns == [own EXCEPT ![c] = {}]
<1>2. IsFiniteSet(G) /\ IsFiniteSet(own[c]) /\ G \cap own[c] = {}
  BY <1>1, TicketsFinite, FS_Subset DEF Distinct
<1>3. Cardinality(own[c]) = k
  BY <1>1
<1>4. Cardinality(G2) = g + k
  <2>1. Cardinality(G2) = Cardinality(G) + Cardinality(own[c]) - Cardinality(G \cap own[c])
    BY <1>2, FS_Union
  <2>2. Cardinality(G \cap own[c]) = 0
    BY <1>2, FS_EmptySet
  <2>3. QED
    BY <2>1, <2>2, <1>1, <1>3
<1>5. owns[c] = {} /\ \A d \in Clients \ {c} : owns[d] = own[d]
  OBVIOUS
<1>6. G2 \in SUBSET TicketSet(L, n) /\ owns \in [Clients -> SUBSET TicketSet(L, n)]
  OBVIOUS
<1>7. Distinct(G2, owns)
  BY <1>1, <1>5 DEF Distinct
<1> HIDE DEF owns, G2
<1>8. \A d \in Clients : now[d] > 0 => Cardinality(owns[d]) = now[d]
  BY <1>1, <1>5
<1>9. QED
  BY <1>4, <1>6, <1>7, <1>8 DEF Fits

-----------------------------------------------------------------------------
(* The Redis limiter: its invariant *)

RedisRequest == [left : SUBSET Scopes, now : Clock, tokens : Nat, busy : BOOLEAN]

RedisTypes ==
  /\ wall \in Clock
  /\ redis \in [Scopes -> [Ends -> Nat]]
  /\ request \in [Clients -> RedisRequest]
  /\ \A c \in Clients : request[c].busy => request[c].tokens \in Tokens
  /\ granted \in [Scopes -> [Ends -> Nat]]

\* A counter is at most one above its limit, and a request under way has only
\* windows to pass that are checked.
Bounded ==
  /\ \A s \in Scopes, e \in Ends : redis[s][e] <= Limit[s] + 1
  /\ \A c \in Clients : \A s \in request[c].left :
       request[c].busy /\ Checked(s, request[c].tokens)

\* The request has passed the window e of scope s, and may yet be let through.
Holds(c, s, e) ==
  /\ request[c].busy /\ s \notin request[c].left
  /\ Checked(s, request[c].tokens) /\ End(s, request[c].now) = e

Need(s, e) == [c \in Clients |-> IF Holds(c, s, e) THEN Cost(s, request[c].tokens) ELSE 0]

\* What was let through and what may yet be let through fit the counter.
Covered ==
  \A s \in Scopes, e \in Ends :
    Limit[s] > 0 => Fits(Limit[s], redis[s][e], granted[s][e], Need(s, e))

RedisInv == RedisTypes /\ Bounded /\ Covered

LEMMA RedisInvInit == RedisInit => RedisInv
<1> SUFFICES ASSUME RedisInit PROVE RedisInv
  OBVIOUS
<1>1. 0 \in Clock /\ \A s \in Scopes : Limit[s] \in Nat
  BY RateAssumption DEF Clock
<1>2. /\ redis \in [Scopes -> [Ends -> Nat]] /\ granted \in [Scopes -> [Ends -> Nat]]
      /\ \A s \in Scopes, e \in Ends : redis[s][e] = 0 /\ granted[s][e] = 0
  BY DEF RedisInit, NothingSpent
<1>3. /\ request \in [Clients -> RedisRequest]
      /\ \A c \in Clients : ~request[c].busy /\ request[c].left = {}
  BY <1>1 DEF RedisInit, Idle, RedisRequest
<1>4. RedisTypes /\ Bounded
  BY <1>1, <1>2, <1>3 DEF RedisTypes, Bounded, RedisInit
<1>5. ASSUME NEW s \in Scopes, NEW e \in Ends
      PROVE Fits(Limit[s], redis[s][e], granted[s][e], Need(s, e))
  <2> DEFINE own == [c \in Clients |-> {}]
  <2>1. \A c \in Clients : Need(s, e)[c] = 0
    BY <1>3 DEF Need, Holds
  <2>2. Cardinality({}) = 0
    BY FS_EmptySet
  <2>3. Distinct({}, own) /\ own \in [Clients -> SUBSET TicketSet(Limit[s], redis[s][e])]
    BY DEF Distinct
  <2> HIDE DEF own
  <2>4. QED
    BY <1>2, <2>1, <2>2, <2>3 DEF Fits
<1>6. QED
  BY <1>4, <1>5 DEF RedisInv, Covered

LEMMA RedisFacts ==
  ASSUME RedisInv, NEW c \in Clients, NEW s \in Scopes
  PROVE /\ request[c].left \subseteq Scopes /\ request[c].now \in Clock
        /\ request[c].busy \in BOOLEAN /\ Limit[s] \in Nat
        /\ request[c].busy => request[c].tokens \in Tokens /\ Cost(s, request[c].tokens) \in Nat
        /\ End(s, request[c].now) \in Ends
BY Costs, WindowEnd, RateAssumption DEF RedisInv, RedisTypes, RedisRequest

\* A step that charges nothing, lowers no counter, and after which no request
\* has passed a window it had not passed, keeps the cover.
LEMMA CoverGrows ==
  ASSUME RedisInv, granted' = granted, redis' \in [Scopes -> [Ends -> Nat]],
         NEW s \in Scopes, NEW e \in Ends, Limit[s] > 0,
         redis[s][e] <= redis'[s][e],
         \A c \in Clients : Holds(c, s, e)' =>
            Holds(c, s, e) /\ request'[c].tokens = request[c].tokens
  PROVE Fits(Limit[s], redis'[s][e], granted'[s][e], Need(s, e)')
<1>1. Limit[s] \in Nat /\ redis[s][e] \in Nat /\ redis'[s][e] \in Nat
  BY RateAssumption DEF RedisInv, RedisTypes
<1>2. Fits(Limit[s], redis[s][e], granted[s][e], Need(s, e))
  BY DEF RedisInv, Covered
<1>3. \A c \in Clients : Need(s, e)'[c] = 0 \/ Need(s, e)'[c] = Need(s, e)[c]
  BY DEF Need
<1> DEFINE now == Need(s, e)'
<1> HIDE DEF now
<1>4. Fits(Limit[s], redis'[s][e], granted[s][e], now)
  BY <1>1, <1>2, <1>3, FitsGrow DEF now
<1>5. QED
  BY <1>4 DEF now

-----------------------------------------------------------------------------
(* The Redis limiter: its steps *)

LEMMA SubmitKeeps ==
  ASSUME RedisInv, NEW c \in Clients, NEW t \in Tokens, Submit(c, t)
  PROVE RedisInv'
<1> DEFINE r == [left |-> {s \in Scopes : Checked(s, t)}, now |-> wall, tokens |-> t, busy |-> TRUE]
<1>1. request' = [request EXCEPT ![c] = r] /\ UNCHANGED <<wall, redis, granted>>
  BY DEF Submit
<1>2. r \in RedisRequest /\ r.tokens \in Tokens
  BY RateAssumption DEF RedisRequest, RedisInv, RedisTypes
<1>3. \A s \in r.left : s \in Scopes /\ r.busy /\ Checked(s, r.tokens)
  OBVIOUS
<1>4. \A s \in Scopes : ~(s \notin r.left /\ Checked(s, r.tokens))
  OBVIOUS
<1> HIDE DEF r
<1>5. request'[c] = r /\ \A d \in Clients \ {c} : request'[d] = request[d]
  BY <1>1 DEF RedisInv, RedisTypes
<1>6. RedisTypes' /\ Bounded'
  BY <1>1, <1>2, <1>3, <1>5 DEF RedisInv, RedisTypes, Bounded
<1>7. ASSUME NEW s \in Scopes, NEW e \in Ends, Limit[s] > 0
      PROVE Fits(Limit[s], redis'[s][e], granted'[s][e], Need(s, e)')
  <2>1. \A d \in Clients : Holds(d, s, e)' =>
            Holds(d, s, e) /\ request'[d].tokens = request[d].tokens
    BY <1>4, <1>5 DEF Holds
  <2>2. redis[s][e] <= redis'[s][e] /\ redis' \in [Scopes -> [Ends -> Nat]]
    BY <1>1 DEF RedisInv, RedisTypes
  <2>3. QED
    BY <1>1, <1>7, <2>1, <2>2, CoverGrows
<1>8. QED
  BY <1>6, <1>7 DEF RedisInv, Covered

\* One counter after INCRBY.
LEMMA CounterGrows ==
  ASSUME RedisInv, NEW s \in Scopes, NEW e \in Ends, NEW k \in Nat,
         redis' = [redis EXCEPT ![s][e] = Incremented(s, e, k)]
  PROVE /\ redis' \in [Scopes -> [Ends -> Nat]]
        /\ \A r \in Scopes, f \in Ends : redis[r][f] <= redis'[r][f] /\ redis'[r][f] <= Limit[r] + 1
        /\ \A r \in Scopes, f \in Ends : r # s \/ f # e => redis'[r][f] = redis[r][f]
        /\ Passed(s, e, k) => redis'[s][e] = redis[s][e] + k
<1>1. /\ redis[s][e] \in Nat /\ redis[s][e] <= Limit[s] + 1 /\ Limit[s] \in Nat
      /\ redis \in [Scopes -> [Ends -> Nat]]
  BY RateAssumption DEF RedisInv, RedisTypes, Bounded
<1> DEFINE v == Incremented(s, e, k)
<1>2. /\ v \in Nat /\ redis[s][e] <= v /\ v <= Limit[s] + 1
      /\ Passed(s, e, k) => v = redis[s][e] + k
  BY <1>1 DEF Incremented, Passed
<1> HIDE DEF v
<1>3. redis' = [redis EXCEPT ![s] = [redis[s] EXCEPT ![e] = v]]
  BY DEF v
<1>4. /\ redis' \in [Scopes -> [Ends -> Nat]] /\ redis'[s][e] = v
      /\ \A r \in Scopes, f \in Ends : r # s \/ f # e => redis'[r][f] = redis[r][f]
  BY <1>1, <1>2, <1>3
<1>5. \A r \in Scopes, f \in Ends :
        redis[r][f] \in Nat /\ Limit[r] \in Nat /\ redis[r][f] <= Limit[r] + 1
  BY RateAssumption DEF RedisInv, RedisTypes, Bounded
<1>6. \A r \in Scopes, f \in Ends : redis[r][f] <= redis'[r][f] /\ redis'[r][f] <= Limit[r] + 1
  <2> SUFFICES ASSUME NEW r \in Scopes, NEW f \in Ends
               PROVE redis[r][f] <= redis'[r][f] /\ redis'[r][f] <= Limit[r] + 1
    OBVIOUS
  <2>1. CASE r = s /\ f = e
    BY <2>1, <1>2, <1>4
  <2>2. CASE r # s \/ f # e
    BY <2>2, <1>4, <1>5
  <2>3. QED
    BY <2>1, <2>2
<1>7. QED
  BY <1>2, <1>4, <1>6

LEMMA CheckWindowKeeps ==
  ASSUME RedisInv, NEW c \in Clients, NEW s \in Scopes, CheckWindow(c, s)
  PROVE RedisInv'
<1> DEFINE q == request[c]
<1> DEFINE e == End(s, q.now)
<1> DEFINE k == Cost(s, q.tokens)
<1> DEFINE through == [q EXCEPT !.left = @ \ {s}]
<1>1. s \in q.left /\ q.busy /\ Checked(s, q.tokens)
  BY DEF CheckWindow, RedisInv, Bounded
<1>2. q \in RedisRequest /\ q.tokens \in Tokens /\ k \in Nat /\ k > 0 /\ e \in Ends
      /\ Limit[s] \in Nat /\ Limit[s] > 0
  <2>1. q \in RedisRequest
    BY DEF RedisInv, RedisTypes
  <2>2. QED
    BY <1>1, <2>1, RedisFacts DEF Checked
<1>3. UNCHANGED <<wall, granted>>
  BY DEF CheckWindow
<1>4. \/ redis' = redis
      \/ redis' = [redis EXCEPT ![s][e] = Incremented(s, e, k)]
  BY DEF CheckWindow
<1>5. \/ request' = [request EXCEPT ![c] = Idle]
      \/ request' = request
      \/ /\ redis' = [redis EXCEPT ![s][e] = Incremented(s, e, k)] /\ Passed(s, e, k)
         /\ request' = [request EXCEPT ![c].left = @ \ {s}]
  BY DEF CheckWindow
<1>6. /\ through \in RedisRequest /\ through.busy /\ through.tokens = q.tokens
      /\ through.now = q.now /\ through.left = q.left \ {s}
  BY <1>1, <1>2 DEF RedisRequest
<1>7. request \in [Clients -> RedisRequest] /\ redis \in [Scopes -> [Ends -> Nat]]
  BY DEF RedisInv, RedisTypes
<1>8. /\ redis' \in [Scopes -> [Ends -> Nat]]
      /\ \A r \in Scopes, f \in Ends : redis[r][f] <= redis'[r][f] /\ redis'[r][f] <= Limit[r] + 1
  <2>1. CASE redis' = redis
    BY <2>1, <1>7, RateAssumption DEF RedisInv, Bounded
  <2>2. CASE redis' = [redis EXCEPT ![s][e] = Incremented(s, e, k)]
    BY <2>2, <1>2, CounterGrows
  <2>3. QED
    BY <1>4, <2>1, <2>2
<1>9. CASE request' = [request EXCEPT ![c] = Idle]
  <2>1. request'[c] = Idle /\ \A d \in Clients \ {c} : request'[d] = request[d]
    BY <1>7, <1>9
  <2>2. Idle \in RedisRequest /\ ~Idle.busy /\ Idle.left = {}
    BY RateAssumption DEF Idle, RedisRequest, Clock
  <2>3. RedisTypes' /\ Bounded'
    BY <1>3, <1>7, <1>8, <1>9, <2>1, <2>2 DEF RedisInv, RedisTypes, Bounded
  <2>4. \A r \in Scopes, f \in Ends, d \in Clients :
          Holds(d, r, f)' => Holds(d, r, f) /\ request'[d].tokens = request[d].tokens
    BY <2>1, <2>2 DEF Holds
  <2>5. QED
    BY <1>3, <1>8, <2>3, <2>4, CoverGrows DEF RedisInv, Covered
<1>10. CASE /\ redis' = [redis EXCEPT ![s][e] = Incremented(s, e, k)] /\ Passed(s, e, k)
            /\ request' = [request EXCEPT ![c].left = @ \ {s}]
  <2>1. request'[c] = through /\ \A d \in Clients \ {c} : request'[d] = request[d]
    BY <1>7, <1>10
  <2>2. request' \in [Clients -> RedisRequest]
    BY <1>6, <1>7, <1>10
  <2>3. redis'[s][e] = redis[s][e] + k
    BY <1>2, <1>10, CounterGrows
  <2> HIDE DEF through
  <2>4. RedisTypes' /\ Bounded'
    BY <1>2, <1>3, <1>6, <1>8, <2>1, <2>2 DEF RedisInv, RedisTypes, Bounded
  <2>5. ASSUME NEW r \in Scopes, NEW f \in Ends, Limit[r] > 0
        PROVE Fits(Limit[r], redis'[r][f], granted'[r][f], Need(r, f)')
    <3>1. CASE r = s /\ f = e
      <4> DEFINE now == Need(r, f)'
      <4>1. Holds(c, r, f)' /\ now[c] = k
        BY <1>1, <1>6, <2>1, <3>1 DEF Holds, Need
      <4>2. \A d \in Clients \ {c} : now[d] = Need(r, f)[d]
        BY <2>1 DEF Holds, Need
      <4>3. redis[r][f] + k <= Limit[r] /\ redis[r][f] \in Nat /\ Limit[r] \in Nat
        BY <1>2, <1>7, <1>10, <3>1 DEF Passed
      <4>4. Fits(Limit[r], redis[r][f], granted[r][f], Need(r, f))
        BY <2>5 DEF RedisInv, Covered
      <4>5. redis'[r][f] = redis[r][f] + k /\ granted'[r][f] = granted[r][f]
        BY <1>3, <2>3, <3>1
      <4> HIDE DEF now, q, e, k
      <4>6. Fits(Limit[r], redis[r][f] + k, granted[r][f], now)
        BY <1>2, <4>1, <4>2, <4>3, <4>4, FitsTake
      <4>7. QED
        BY <4>5, <4>6 DEF now
    <3>2. CASE r # s \/ f # e
      <4>1. \A d \in Clients : Holds(d, r, f)' =>
              Holds(d, r, f) /\ request'[d].tokens = request[d].tokens
        <5>1. ~(Holds(c, r, f)' /\ ~Holds(c, r, f))
          BY <1>1, <1>6, <2>1, <3>2 DEF Holds
        <5>2. request'[c].tokens = request[c].tokens
          BY <1>6, <2>1
        <5>3. ASSUME NEW d \in Clients \ {c}
              PROVE Holds(d, r, f)' => Holds(d, r, f) /\ request'[d].tokens = request[d].tokens
          BY <2>1 DEF Holds
        <5>4. QED
          BY <5>1, <5>2, <5>3
      <4>2. QED
        BY <1>3, <1>8, <2>5, <4>1, CoverGrows
    <3>3. QED
      BY <3>1, <3>2
  <2>6. QED
    BY <2>4, <2>5 DEF RedisInv, Covered
<1>11. CASE request' = request
  <2>1. RedisTypes' /\ Bounded'
    BY <1>3, <1>7, <1>8, <1>11 DEF RedisInv, RedisTypes, Bounded
  <2>2. \A r \in Scopes, f \in Ends, d \in Clients :
          Holds(d, r, f)' => Holds(d, r, f) /\ request'[d].tokens = request[d].tokens
    BY <1>11 DEF Holds
  <2>3. QED
    BY <1>3, <1>8, <2>1, <2>2, CoverGrows DEF RedisInv, Covered
<1>12. QED
  BY <1>5, <1>9, <1>10, <1>11

LEMMA GrantKeeps ==
  ASSUME RedisInv, NEW c \in Clients, Grant(c)
  PROVE RedisInv'
<1> DEFINE q == request[c]
<1> DEFINE at == [s \in Scopes |-> End(s, q.now)]
<1>1. q.busy /\ q.left = {} /\ granted' = Charged(granted, at, q.tokens)
      /\ request' = [request EXCEPT ![c] = Idle] /\ UNCHANGED <<wall, redis>>
  BY DEF Grant
<1>2. /\ q \in RedisRequest /\ q.tokens \in Tokens
      /\ request \in [Clients -> RedisRequest] /\ redis \in [Scopes -> [Ends -> Nat]]
      /\ granted \in [Scopes -> [Ends -> Nat]]
  BY <1>1 DEF RedisInv, RedisTypes
<1>3. request'[c] = Idle /\ \A d \in Clients \ {c} : request'[d] = request[d]
  BY <1>1, <1>2
<1>4. Idle \in RedisRequest /\ ~Idle.busy /\ Idle.left = {}
  BY RateAssumption DEF Idle, RedisRequest, Clock
<1>5. \A s \in Scopes : at[s] \in Ends /\ at[s] = End(s, q.now) /\ Cost(s, q.tokens) \in Nat
  BY <1>1, RedisFacts
<1>6. \A s \in Scopes :
        granted'[s] = IF Checked(s, q.tokens)
                      THEN [granted[s] EXCEPT ![at[s]] = @ + Cost(s, q.tokens)]
                      ELSE granted[s]
  BY <1>1 DEF Charged
<1> HIDE DEF at
<1>7. granted' \in [Scopes -> [Ends -> Nat]]
  <2>1. \A s \in Scopes : granted'[s] \in [Ends -> Nat]
    <3> SUFFICES ASSUME NEW s \in Scopes PROVE granted'[s] \in [Ends -> Nat]
      OBVIOUS
    <3>1. granted[s] \in [Ends -> Nat] /\ granted[s][at[s]] + Cost(s, q.tokens) \in Nat
      BY <1>2, <1>5
    <3> HIDE DEF q
    <3>2. QED
      BY <1>5, <1>6, <3>1
  <2>2. granted' = [s \in Scopes |-> granted'[s]]
    BY <1>1 DEF Charged
  <2>3. QED
    BY <2>1, <2>2
<1>8. RedisTypes' /\ Bounded'
  BY <1>1, <1>2, <1>3, <1>4, <1>7 DEF RedisInv, RedisTypes, Bounded
<1>9. ASSUME NEW s \in Scopes, NEW e \in Ends, Limit[s] > 0
      PROVE Fits(Limit[s], redis'[s][e], granted'[s][e], Need(s, e)')
  <2> DEFINE k == Cost(s, q.tokens)
  <2> DEFINE now == Need(s, e)'
  <2>1. now[c] = 0 /\ \A d \in Clients \ {c} : now[d] = Need(s, e)[d]
    BY <1>3, <1>4 DEF Need, Holds
  <2>2. /\ Limit[s] \in Nat /\ redis[s][e] \in Nat /\ granted[s][e] \in Nat /\ k \in Nat
        /\ redis'[s][e] = redis[s][e]
        /\ Fits(Limit[s], redis[s][e], granted[s][e], Need(s, e))
    BY <1>1, <1>2, <1>5, <1>9, RateAssumption DEF RedisInv, Covered
  <2>3. CASE Checked(s, q.tokens) /\ at[s] = e
    <3>1. Holds(c, s, e) /\ Need(s, e)[c] = k
      BY <1>1, <1>5, <2>3 DEF Holds, Need
    <3>2. k > 0
      BY <2>2, <2>3 DEF Checked
    <3>3. granted'[s][e] = granted[s][e] + k
      BY <1>2, <1>6, <2>3
    <3> HIDE DEF k, q, now
    <3>4. Fits(Limit[s], redis[s][e], granted[s][e] + k, now)
      BY <2>1, <2>2, <3>1, <3>2, FitsGrant
    <3>5. QED
      BY <2>2, <3>3, <3>4 DEF now
  <2>4. CASE ~(Checked(s, q.tokens) /\ at[s] = e)
    <3>1. granted'[s][e] = granted[s][e]
      BY <1>2, <1>5, <1>6, <2>4
    <3> HIDE DEF k, q, now
    <3>2. \A d \in Clients : now[d] = 0 \/ now[d] = Need(s, e)[d]
      BY <2>1
    <3>3. Fits(Limit[s], redis[s][e], granted[s][e], now)
      BY <2>2, <3>2, FitsGrow
    <3>4. QED
      BY <2>2, <3>1, <3>3 DEF now
  <2>5. QED
    BY <2>3, <2>4
<1>10. QED
  BY <1>8, <1>9 DEF RedisInv, Covered

LEMMA RedisRestKeeps ==
  ASSUME RedisInv, wall' \in Clock, UNCHANGED <<redis, request, granted>>
  PROVE RedisInv'
BY DEF RedisInv, RedisTypes, Bounded, Covered, Need, Holds

LEMMA RedisInvStep == RedisInv /\ [RedisNext]_redisVars => RedisInv'
<1> SUFFICES ASSUME RedisInv, [RedisNext]_redisVars PROVE RedisInv'
  OBVIOUS
<1>1. wall \in Clock
  BY DEF RedisInv, RedisTypes
<1>2. CASE WallTick
  <2>1. wall' \in Clock
    BY <1>1, <1>2, RateAssumption DEF WallTick, Clock
  <2>2. QED
    BY <1>2, <2>1, RedisRestKeeps DEF WallTick
<1>3. CASE \E c \in Clients : Grant(c)
  BY <1>3, GrantKeeps
<1>4. CASE \E c \in Clients, s \in Scopes : CheckWindow(c, s)
  BY <1>4, CheckWindowKeeps
<1>5. CASE \E c \in Clients, t \in Tokens : Submit(c, t)
  BY <1>5, SubmitKeeps
<1>6. CASE UNCHANGED redisVars
  BY <1>1, <1>6, RedisRestKeeps DEF redisVars
<1>7. QED
  BY <1>2, <1>3, <1>4, <1>5, <1>6 DEF RedisNext

\* The invariant of the shared limiter, which the theorem below is read off.
THEOREM RedisInvariant == RedisSpec => []RedisInv
BY RedisInvInit, RedisInvStep, PTL DEF RedisSpec

\* Whatever the replicas interleave and whichever calls to Redis fail, the
\* requests let through stay within every window
\* (auth_key_rate_limit_redis.go:132).
THEOREM RedisNeverOverdraws == RedisSpec => []ReplicasNeverOverdraw
<1>1. RedisInv => ReplicasNeverOverdraw
  <2> SUFFICES ASSUME RedisInv, NEW s \in Scopes, NEW e \in Ends, Limit[s] > 0
               PROVE granted[s][e] <= Limit[s]
    BY DEF ReplicasNeverOverdraw
  <2>1. Limit[s] \in Nat /\ redis[s][e] \in Nat
    BY RateAssumption DEF RedisInv, RedisTypes
  <2>2. Fits(Limit[s], redis[s][e], granted[s][e], Need(s, e))
    BY DEF RedisInv, Covered
  <2>3. QED
    BY <2>1, <2>2, FitsBound
<1>2. QED
  BY <1>1, RedisInvariant, PTL
=============================================================================
