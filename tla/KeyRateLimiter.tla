--------------------------- MODULE KeyRateLimiter ---------------------------
(***************************************************************************)
(* The in-memory limiter of one API key (auth_key_rate_limit_support.go).  *)
(* A request reads the clock, waits for the limiter's mutex and is decided *)
(* by the time it read, which may lie in a window that has ended: requests *)
(* are decided in another order than they arrived, with the clock running  *)
(* on.  Every key has counters of its own, so one key is modelled.         *)
(***************************************************************************)
EXTENDS RateWindows

CONSTANT Callers     \* requests under way at a time

VARIABLES
  clock,      \* the wall clock
  counters,   \* l.counters: count and end of the window last counted, by scope
  caller,     \* each request: not there, waiting with what it has read, answered
  spent       \* history: what the requests let through were charged, by window

limiterVars == <<clock, counters, caller, spent>>

Unused == [count |-> 0, resetAt |-> 0]
Gone == [state |-> "gone", now |-> 0, tokens |-> 0]

LimiterInit ==
  /\ clock = 0
  /\ counters = [s \in Scopes |-> Unused]
  /\ caller = [c \in Callers |-> Gone]
  /\ spent = NothingSpent

PassTime ==
  /\ clock < MaxClock
  /\ clock' = clock + 1
  /\ UNCHANGED <<counters, caller, spent>>

\* enforceAuthKeyRateLimit reads the clock before Allow takes the mutex.
Arrive(c, t) ==
  /\ caller[c].state # "waiting"
  /\ caller' = [caller EXCEPT ![c] = [state |-> "waiting", now |-> clock, tokens |-> t]]
  /\ UNCHANGED <<clock, counters, spent>>

\* A window that is not the reader's own is taken for an old one.
CurrentByName(s, now) ==
  IF counters[s].resetAt # End(s, now) THEN [count |-> 0, resetAt |-> End(s, now)]
  ELSE counters[s]

\* checkWindow: a counter whose window has ended, by the reader's time, starts
\* again in the reader's window.
Current(s, now) ==
  IF counters[s].resetAt = 0 \/ now >= counters[s].resetAt
  THEN [count |-> 0, resetAt |-> End(s, now)]
  ELSE counters[s]

\* The windows that cannot take the request.
Refusing(now, t) ==
  {s \in Scopes : Checked(s, t) /\ Current(s, now).count + Cost(s, t) > Limit[s]}

\* The counters with the request counted in the windows of S.
Counted(S, now, t) ==
  [s \in Scopes |-> IF s \in S /\ Checked(s, t)
                    THEN [Current(s, now) EXCEPT !.count = @ + Cost(s, t)]
                    ELSE counters[s]]

Decide(c, a) == caller' = [caller EXCEPT ![c] = [Gone EXCEPT !.state = a]]

\* The windows passed before the refusal stay charged.
RefuseCharged(c) ==
  LET now == caller[c].now  t == caller[c].tokens
  IN  /\ caller[c].state = "waiting" /\ Refusing(now, t) # {}
      /\ counters' = Counted(Scopes \ Refusing(now, t), now, t)
      /\ Decide(c, "refused")
      /\ UNCHANGED <<clock, spent>>

\* Allow refuses: the counters are what they were, the windows checked before
\* the one that refused included.
Refuse(c) ==
  /\ caller[c].state = "waiting"
  /\ Refusing(caller[c].now, caller[c].tokens) # {}
  /\ Decide(c, "refused")
  /\ UNCHANGED <<clock, counters, spent>>

\* Allow lets the request through and counts it in every window.
Allow(c) ==
  LET now == caller[c].now  t == caller[c].tokens
      at == [s \in Scopes |-> Current(s, now).resetAt]
  IN  /\ caller[c].state = "waiting" /\ Refusing(now, t) = {}
      /\ counters' = Counted(Scopes, now, t)
      /\ spent' = Charged(spent, at, t)
      /\ Decide(c, "allowed")
      /\ UNCHANGED clock

LimiterNext ==
  \/ PassTime
  \/ \E c \in Callers : Refuse(c) \/ Allow(c) \/ \E t \in Tokens : Arrive(c, t)

LimiterSpec == LimiterInit /\ [][LimiterNext]_limiterVars

-----------------------------------------------------------------------------
(* Properties *)

\* However late the requests are decided, none of the windows is overdrawn: a
\* window that has been left is never opened again with a count of its own
\* (auth_key_rate_limit_support.go:189).
NoOverdraw == \A s \in Scopes, e \in Ends : Limit[s] > 0 => spent[s][e] <= Limit[s]

\* A request is refused for cause: some window that had not ended when it came
\* is spent by requests that were let through.  The refused ones, and what they
\* passed before the window that refused them, count for nothing
\* (auth_key_rate_limit_support.go:95).
RefusedForCause ==
  [][\A c \in Callers :
       caller[c].state = "waiting" /\ caller'[c].state = "refused" =>
         \E s \in Scopes, e \in Ends :
           /\ e > caller[c].now /\ Checked(s, caller[c].tokens)
           /\ spent[s][e] + Cost(s, caller[c].tokens) > Limit[s]]_limiterVars
=============================================================================
