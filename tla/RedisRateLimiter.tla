-------------------------- MODULE RedisRateLimiter --------------------------
(***************************************************************************)
(* The Redis limiter of one API key (auth_key_rate_limit_redis.go), shared *)
(* by the replicas of the gateway.  Each window has a key of its own; a    *)
(* request increments the keys one after the other and is refused by the   *)
(* first whose counter passes the limit, with the requests of other        *)
(* replicas in between.  What has been incremented stays, whatever comes   *)
(* of the request.  The keys outlive every window they are read for.       *)
(***************************************************************************)
EXTENDS RateWindows

CONSTANT Clients     \* requests under way at a time, at any of the replicas

VARIABLES
  wall,       \* the wall clock
  redis,      \* the counters in Redis, by scope and window
  request,    \* each request: what it has read, and the windows it has yet to pass
  granted     \* history: what the requests let through were charged

redisVars == <<wall, redis, request, granted>>

\* The order in which a request checks its windows.
WindowOrder == [rpm |-> 1, rpd |-> 2, tpm |-> 3, tpd |-> 4]
Idle == [left |-> {}, now |-> 0, tokens |-> 0, busy |-> FALSE]

RedisInit ==
  /\ wall = 0
  /\ redis = NothingSpent
  /\ request = [c \in Clients |-> Idle]
  /\ granted = NothingSpent

WallTick ==
  /\ wall < MaxClock
  /\ wall' = wall + 1
  /\ UNCHANGED <<redis, request, granted>>

\* The request reads the clock; left are the windows it has yet to pass, those
\* without a limit left out.
Submit(c, t) ==
  /\ ~request[c].busy
  /\ request' = [request EXCEPT ![c] =
       [left |-> {s \in Scopes : Checked(s, t)}, now |-> wall,
        tokens |-> t, busy |-> TRUE]]
  /\ UNCHANGED <<wall, redis, granted>>

\* A counter is only compared with the limit: it stops one above it.
Incremented(s, e, k) ==
  LET n == redis[s][e] + k IN IF n > Limit[s] THEN Limit[s] + 1 ELSE n

\* The counter is read first and the request counted once it has passed.
PassedStale(s, e, k) == redis[s][e] <= Limit[s]

\* The window has room for the request, the request included.
Passed(s, e, k) == redis[s][e] + k <= Limit[s]

\* INCRBY on the key of the window that contains the time the request read, s
\* being the next in order; the pipeline may fail, before or after Redis has
\* counted, and the client library may send it again: it has counted then, and
\* the request is where it was.
CheckWindow(c, s) ==
  LET q == request[c]
      e == End(s, q.now)
      k == Cost(s, q.tokens)
      Count == redis' = [redis EXCEPT ![s][e] = Incremented(s, e, k)]
      Finish == request' = [request EXCEPT ![c] = Idle]
  IN  /\ s \in q.left /\ \A r \in q.left : WindowOrder[s] <= WindowOrder[r]
      /\ \/ Count /\ Passed(s, e, k) /\ request' = [request EXCEPT ![c].left = @ \ {s}]
         \/ Count /\ UNCHANGED request
         \/ Count /\ Finish
         \/ UNCHANGED redis /\ Finish
      /\ UNCHANGED <<wall, granted>>

\* Every window has let the request through.
Grant(c) ==
  LET q == request[c]
  IN  /\ q.busy /\ q.left = {}
      /\ granted' = Charged(granted, [s \in Scopes |-> End(s, q.now)], q.tokens)
      /\ request' = [request EXCEPT ![c] = Idle]
      /\ UNCHANGED <<wall, redis>>

RedisNext ==
  \/ WallTick
  \/ \E c \in Clients :
       \/ Grant(c)
       \/ \E s \in Scopes : CheckWindow(c, s)
       \/ \E t \in Tokens : Submit(c, t)

RedisSpec == RedisInit /\ [][RedisNext]_redisVars

-----------------------------------------------------------------------------
(* Properties *)

\* Whatever the replicas interleave and whichever calls to Redis fail, the
\* requests let through stay within every window
\* (auth_key_rate_limit_redis.go:132).
ReplicasNeverOverdraw ==
  \A s \in Scopes, e \in Ends : Limit[s] > 0 => granted[s][e] <= Limit[s]
=============================================================================
