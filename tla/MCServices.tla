----------------------------- MODULE MCServices -----------------------------
(* The circuit breaker, the two rate limiters, the cache's write queue and   *)
(* the asynchronous logger, which share no state: a behaviour looks at one   *)
(* of them, chosen at the start, and the others rest.                        *)
EXTENDS CircuitBreaker, KeyRateLimiter, RedisRateLimiter, CacheWriter, AsyncLogger

CONSTANTS r1, r2, r3, c1, c2, c3, e1, e2, e3

VARIABLE focus

\* One request a minute, three tokens a day, and two windows without a limit.
MCLimit == [s \in Scopes |-> CASE s = "rpm" -> 1 [] s = "tpd" -> 3 [] OTHER -> 0]

all == <<vars, limiterVars, redisVars, cacheVars, loggerVars, focus>>

ServicesInit ==
  /\ focus \in {"breaker", "limiter", "redis", "cache", "logger"}
  /\ Init /\ LimiterInit /\ RedisInit /\ CacheInit /\ LoggerInit

ServicesNext ==
  /\ UNCHANGED focus
  /\ \/ /\ focus = "breaker" /\ Next
        /\ UNCHANGED <<limiterVars, redisVars, cacheVars, loggerVars>>
     \/ /\ focus = "limiter" /\ LimiterNext
        /\ UNCHANGED <<vars, redisVars, cacheVars, loggerVars>>
     \/ /\ focus = "redis" /\ RedisNext
        /\ UNCHANGED <<vars, limiterVars, cacheVars, loggerVars>>
     \/ /\ focus = "cache" /\ CacheNext
        /\ UNCHANGED <<vars, limiterVars, redisVars, loggerVars>>
     \/ /\ focus = "logger" /\ LoggerNext
        /\ UNCHANGED <<vars, limiterVars, redisVars, cacheVars>>

\* Fairness, CacheFairness and LoggerFairness, of the component that moves.
ServicesFairness ==
  /\ \A r \in Requests : /\ WF_vars(focus = "breaker" /\ Begin(r))
                         /\ WF_vars(focus = "breaker" /\ Finish(r))
  /\ WF_vars(focus = "breaker" /\ TimeoutPasses)
  /\ \A h \in Handlers : WF_cacheVars(focus = "cache" /\ (CheckStopped(h) \/ Send(h)))
  /\ \A w \in Workers : WF_cacheVars(focus = "cache" /\ Work(w))
  /\ \A k \in Closers : WF_cacheVars(focus = "cache" /\ Close(k))
  /\ \A e \in Entries : WF_loggerVars(focus = "logger" /\ write[e] # "new" /\ WriteStep(e))
  /\ WF_loggerVars(focus = "logger" /\ CloseStep)
  /\ WF_loggerVars(focus = "logger" /\ LoopStep)
  /\ WF_loggerVars(focus = "logger" /\ Ticker)

ServicesSpec == ServicesInit /\ [][ServicesNext]_all /\ ServicesFairness

\* Time passes for the breaker and callers call it only when it is looked at.
BreakerRecovers == focus = "breaker" => Recovers
=============================================================================
