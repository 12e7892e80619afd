# AuroraX: a verification of the gateway's request path

AuroraX is a gateway for language models: clients speak one API to it, and it
sends their requests to the configured providers. This directory holds TLA+
models of the parts of it in which concurrency, failure and order decide
whether it works, the TLC configurations that check them on small instances,
and proofs, checked by TLAPS, of what holds for every instance.

Paths below are relative to the repository (`src/` in PROJECT.json). Every
definition that models code is listed there under `map` with its lines.

## 1. The system

A request passes the HTTP server, authentication and its rate limits, the
workflow policy and the guardrails, is resolved to a model, and is executed by
the gateway's orchestrator, which may try fallback models. The router resolves
each model to a provider, or to a pool of providers and then to one member after
another. The provider's adapter translates the request and hands it to the
upstream client, which sends it through one of the provider's exits, behind the
provider's circuit breaker. The answer travels back, is stored in the response
cache, and leaves an audit entry and a usage entry with the asynchronous
loggers. An administrator may change the configuration at any time; providers,
pools and exits are then rebuilt under the requests that use them.

| Component | State | Operations | Hard behaviours | What makes it correct |
|---|---|---|---|---|
| Circuit breaker (`internal/language_model_client/circuit_breaker.go`) | state, failure and success counters, probe token, time of the last failure | acquire, RecordSuccess, RecordFailure, IsHalfOpen | answers of old requests arriving in a later state; a probe that ends without an outcome | the probes of one recovery are bounded; the token always comes back; closing restores the whole budget; it closes when the provider is well |
| Upstream client (`client.go`, `egress.go` there) | per request: attempts, failovers, exits tried, probe flag | DoRaw, DoStream, DoPassthrough around beginRequest and completeScope | retries and failovers in one loop with two budgets; cancellation in a backoff; three variants of one loop | one outcome per request for the breaker; bounded attempts; the best error is returned; a body is not sent twice |
| Egress registry (`internal/egress/egress.go`) | per provider: exits, disabled exits, cool-downs, tier demotions | SetCore, SetDisabled, Remove, Pick, HasAlternative, ExitCount, Report | health read without the lock; reports of concurrent requests in any order; reconfiguration in between | a request gets an exit if one stays enabled while it picks; failover is not promised in vain; disabled exits are not used; everything comes back |
| Egress configuration sync (`internal/application/egress.go`) | the cached offer of the extensions | syncEgress, the extension source | two registry calls per provider with picks in between | as above |
| Audit and usage log writers (`internal/audit_logging/logger.go`, `internal/usage/logger.go`) | buffer, batch, closed flag, WaitGroup of the writes | Write, Close, flushLoop | Write against Close; drain at shutdown; full buffer | what was taken is stored once and in order; Close leaves nothing and returns; Write never blocks |
| Provider pools and their registry (`internal/providers/pool`) | members with counters, round-robin index; map of pools | Pick, release, Replace, SaveCounters, LoadCounters | rebuild under requests; health from probes rather than the breaker | every healthy member is tried before a transient failure is returned; counters add up |
| Router (`internal/providers/router.go`) | reference to the pools, hidden providers | routePooledModelCall and its siblings | the pool's failover loop | as above |
| Model registry (`internal/providers/registry*.go`, `rebuild.go`, `cache_registry.go`) | provider instances, the inventory per provider and the index of unqualified ids, settings, the refresh semaphore, the cache on disk | Initialize, the background loop, LoadFromCache, SaveToCache, ReplaceProviders | a sweep that started before a replacement; a refresh that fails after the reset; a restart between any two steps; three writers of the cache | a listed model belongs to a registered instance, whatever sweep lands; an unqualified id leads to a provider that lists it; a failed refresh leaves models served; registry and cache settle |
| Gateway fallback (`internal/gateway`, `internal/failover`) | the swappable resolver | tryFallbackResponse, tryFallbackStream, combo fallback | the loop over selectors on top of pool, client and breaker | each selector once; an error that cannot be helped by fallback ends it |
| Key rate limits (`internal/server/auth_key_rate_limit_*.go`) | counters per key and window, in memory or in Redis | Allow, Snapshot | the clock read before the mutex; four windows charged one after another, with and without rollback; concurrent gateways on one Redis | no window is overdrawn; in memory a refused request consumes nothing |
| Response cache (`internal/response_cache`) | write queue, workers, stores | TryHit, StoreAfter, close | enqueue against close; asynchronous semantic writes | accepted writes are stored before close returns |
| Application (`internal/application`) | all of the above, refresh semaphore, retry timer | start, rebuild, shutdown | order of shutdown; rebuild retries | nothing is used after it was closed |

Other parts (adapters, guardrails, stores and reports, administration,
streaming conversion, configuration, extensions, the dashboard) are data
transformation, I/O, or snapshots behind one lock. PROJECT.json lists each of
them with the reason it is not modelled.

How the modelled parts interact: the client asks the breaker for admission and
reports one outcome per request (`beginRequest`, `completeScope`); it asks the
egress registry for an exit per attempt (`selectEgress`: Pick), asks whether a
failover is worth an attempt (HasAlternative), and reports each attempt
(Report). The application's sync calls the registry's Remove or SetCore and then
SetDisabled. The server's middleware calls Write of both loggers; the
application's shutdown calls their Close.

## 2. Modules

| Module | Models | State and steps |
|---|---|---|
| `CircuitBreaker` | the breaker and the requests around it | One variable per field. Every method holds the mutex and is one step; a request is admitted in one step and reports in a later one, so every order of old and new answers occurs. A final 429 is two steps (`RateLimitedHalfOpen`, `ChargeRateLimit`), as in the code. `admitted` and `charged` are history: the probes of the current half-open episode, and the failures heard in a row since the breaker last closed or heard a success. |
| `LLMClient` | the loops of DoRaw, DoStream and DoPassthrough | A record per caller: phase, kind, retries, failovers, whether a rate limit was seen, final answer. `AfterAnswer` is the decision the loop takes. `CB == INSTANCE CircuitBreaker` supplies the breaker's methods, and `ImplementsBreaker` is the refinement. |
| `CircuitBreakerProofs`, `LLMClientProofs`, `AsyncLoggerProofs`, `PoolProofs`, `EgressProofs`, `ModelRegistryProofs`, `RateLimiterProofs`, `CacheWriterProofs` | | theorems, section 5 |
| `Egress` | the registry, `selectEgress` and `syncEgress` | Pick is two steps (the copy under the read lock, the choice without it), and so is HasAlternative; Report is two steps; a sync is two steps. Cool-downs are the time left, lowered by `Tick`. A tier is any integer. A Pick or HasAlternative whose provider is removed under it goes on with the state it took (`lost`, `view`). `steady` and `good` are history: the exits that have been enabled since the copy, and those HasAlternative answered for that have been fit ever since. |
| `AsyncLogger` | both loggers | Every atomic operation of Write, Close and flushLoop is one step. The WaitGroup is the one of Go's `sync`: the Done that reaches zero wakes the waiter in a later step, and the waiter looks once more. |
| `LogSink` | what the loggers promise | entries refused, queued, handed over; `Take`, `Refuse`, `Hand`, `Shut` |
| `Pool` | a pool, the router's loop over its members, and Replace | A request keeps the pool it found. `Examine` is one member of `eligibleMembers`, `Choose` the rotation and the count, then the call ends in one of three ways, each with its release. `CarryRequests` and `CarryErrors` are the atomic loads of the merge, and `Begin` waits while Replace has the lock. `steady` and `glimpsed` are history. |
| `ModelRegistry` | the registry with its first refresh, its background loop and the administrator's rebuild | One `pc` per goroutine; each has its own `sweep`: Acquire, `CopyLists`, `CopySwitches`, `FetchAll`, `Apply`, one per lock section. `ReplaceProviders` is `CaptureSnapshot`, `Reset`, then `Register`, `Configure` and `SwitchOff` for each name, then a sweep, then `RestoreModels` if that failed or `RestoreSnapshot` if nothing could be registered. An instance is a name and a generation. After a sweep comes the download of the model list and a second save (`SkipList`, `AcquireForList`, `Enrich`), in the loop even when the acquire of the sweep timed out. `Restart` may come at any time and leaves the cache, which is `None` until first written. `settled` is history: since the last reset a sweep over the registered instances has landed. Only a reset or a restart clears it. |
| `RateWindows`, `KeyRateLimiter`, `RedisRateLimiter` | the windows, and the two limiters over them | In memory a request reads the clock (`Arrive`) and is decided later in one step, under the mutex; in Redis every window is a step, with the other replicas in between, and may fail before or after it counted. `spent` and `granted` are history: what the requests let through cost. |
| `CacheWriter` | the write queue of the exact cache | `enqueueWrite` under the read lock in three steps, the workers, `close` in four; the RWMutex keeps new readers out while a closer waits. |
| `MCServices` | the breaker, both limiters, the cache's queue and the logger | They share no state. A variable `focus`, chosen at the start and never changed, says which one moves, so the state space is the sum of theirs and not the product. |
| `MCEgress`, `MCModelRegistry` and the other `MC...` | instances for TLC | `MCEgress` chooses a scene at the start: who acts, which reloads there are, and what the extension offers. |

`LLMClient` composes with `CircuitBreaker` as its implementation;
`AsyncLogger` implements `LogSink`. Between `LLMClient` and `Egress` the
interface is HasAlternative: because other requests and the clock change the
health of the exits between any two steps, its answer is arbitrary in
`LLMClient` whenever there is more than one exit, which makes what is shown of
the client independent of what the registry does.

Abstractions: bodies, headers, metrics, log lines and lengths of time are left
out. `failures` of the breaker saturates at the threshold and an exit's failures
at `BadAfter`, since the code only compares them with it there. The strategy
that picks among the exits of a tier is any choice. A caller sends one request
at a time; several callers stand for concurrency. A call of Write is named by
its entry. The list of a pool's members keeps one order over rebuilds (`Rank`);
round robin is the weighted strategy with weights of one, position `idx % len`
being the share the remainder falls into. A member that fails transiently and
one that turns out not to have the model end in the same step, as the loop
treats them alike; a member without a reranker is a definite failure.

Definitions called after a bug (`AcquireHalfOpenTokenKept`, `SendOverfull`, ...)
are not part of the models: each is a plausible mistake in the definition that
follows it, and PROJECT.json pairs it with the property that notices.

## 3. The runs

| Run | Instance | Shows |
|---|---|---|
| `breaker_two_probes` (violation) | 3 callers, thresholds 2 and 2 | a success admitted before the trip gives the token back while a probe is out, and a second probe goes out beside it |
| `breaker_wedge` (violation) | the same, one caller may send malformed requests | a malformed probe never returns the token, and the breaker refuses everything for ever although the provider is well |
| `egress` | two source addresses and an extension exit in the fallback tier; four scenes: one worker under reloads with an extension that comes and goes; two workers on a tier of two; two workers while a reload takes the address away; one worker with its only exit turned off | a Pick comes back empty only if no exit stayed enabled all through it; the failover HasAlternative allows gets an untried, fit exit, unless every exit it answered for was turned off, cooled down or demoted before that Pick chose; cool-downs are earned; a demotion is made by a report whose listing was limited throughout, and outlasts no cool-down; once the exits answer, all of them return |
| `egress_disabled` (violation) | exits of an extension only, turned off | a Pick between the two halves of a sync takes an exit that is off |
| `client` | 2 callers, 2 exits, 1 retry, thresholds 1, five kinds of request | the loop never leaves by its bound; a probe sends once; a rate limit seen is the answer where the walk runs out; the client implements the breaker's model; every request ends |
| `client_replay` (violation) | streamed bodies | a one-shot body is sent again by a failover |
| `client_limit` (violation) | chat requests | a 500 or a timeout hides a rate limit that was seen |
| `logger_panic` (violation) | 3 entries, buffer 2, batch 2, one Close | a late Write's `Add` meets the waking `Wait` and panics |
| `pool` | 2 members with weights 1 and 2, 2 requests of which one fits a single member, 1 rebuild that may take it out | every usable member that stayed healthy is tried before the router gives up; no choice goes by an earlier pass; counters lose and double nothing over a rebuild; every request is answered |
| `services` | breaker: 3 callers, thresholds 2 and 2, one of them malformed; limiters: four windows, one request a minute and three tokens a day, a day of two minutes, 3 callers in memory and 2 clients of Redis; cache: 3 handlers, 2 workers, 2 closers, a queue of 1; logger: 3 entries, buffer 2, batch 2, one Close | one half-open episode admits at most one request more than it has recorded successes (`HerdBound`); the closed breaker opens with exactly the FailureThreshold-th failure it hears in a row, counted from its closing (`WholeBudget`); an open one closes only through half-open; the token is held by a probe unless one leaked; after the upstream recovers the breaker closes for good; no window is overdrawn, late requests and replicas included; in memory nothing is refused without cause; nobody sends to a closed queue, and `close` flushes and returns; when the logger's loop has ended every answered entry is in the store or among the refused, never both; batches are bounded; the loggers implement `LogSink`; Close returns and taken entries are written, unless the WaitGroup panics |
| `registry` | 2 providers that share a model, the second with a configured list and discovery switched off by its pool and by itself, 3 generations of instances, 1 fault | once settled, and until the next reset, the listed models belong to registered instances whatever sweep lands (`SettledBound`); an unqualified id leads to a provider that lists it, under the same instance (`IndexAgrees`); a replacement keeps some model listed; registry and cache settle on the registered instances |
| `registry_pools` (violation) | registry with 2 models, 2 generations, no fault | a rebuild forgets the pools' discovery switches before it lists the models |

Why the bounds are enough. The breaker's hazards need a probe, a straggler from
before the trip and a second probe: three callers. Two successes and two
failures distinguish "at" from "below" the thresholds, and two failures after a
closing a whole budget from one that a straggler has already spent. For the
exits: a tier of two is the least in which one of them is limited and the other
is not, and the third exit gives a second tier; the address that a reload gives
back lets an exit come between a report's listing and its demotion; two workers
let one's report demote or cool down what the other's HasAlternative has just
answered for, or reach an exit that the other's report has reset. Every kind of
change at once with two workers is out of reach, so the scenes take them in
turns, and the proofs (section 5) take them together, for every number of
workers, exits and tiers. Cool-downs of one tick suffice because only zero and
non-zero are compared, and the proofs hold for any length. The client's two
budgets interact with two exits and one retry; two callers suffice for its
breaker because the refinement to `CircuitBreaker`, checked there with three, is
proved for every number. Three entries are one more than the buffer and the
batch hold; the panic needs two calls, one that is finishing and one that is
late. Two members are the least with a failover and a rotation, one rebuild the
least in which a request's pool is not the current one, and two requests the
least that count on one member; the safety properties of the pool are proved for
every number of each.

For the registry, two names are the least with an owner and a second holder of
an id, which one shared model gives; three generations allow a rebuild with a
restart or a second rebuild, and one fault a failed call, a failed instance, a
timeout or a lost write in any place. The limiters need a window that ends while
a request waits, and a limit of a day that outlives it: three ticks. The queue
of one is full with the second of three responses.

CHECK_DEADLOCK is off for `logger_panic` and for `services`, whose logger, cache
and limiters stop: when every call has returned and Close too, or the bounded clock
has run out, the system has stopped as it should.

### Fairness

- `CircuitBreaker`: callers keep calling and every attempt ends (the HTTP client
  has a timeout, and the caller a context); the clock moves. Nothing is assumed
  of which caller is admitted. `Recovers` (in `services`, `BreakerRecovers`) holds
  for upstreams that recover.
- `LLMClient`: only that a request under way takes its next step. Nobody has to
  call, no exit has to come back.
- `Egress`: a request under way goes on and a started sync is completed. `Tick`
  is strongly fair because a Pick between its two steps holds the clock still
  (it reads `time.Now` once), and time passes all the same. `ReturnsToDirect` has
  as premises that again and again nobody is inside Pick or HasAlternative, which
  take microseconds, and that from some time on no attempt fails or is limited.
- `Pool`: a request goes on, a member's call ends one way or another, and
  Replace, once it has the lock, finishes. Rebuilds need not happen and health may
  flap for ever. The number of rebuilds is bounded (`MaxRebuilds`), so nobody
  waits for the lock again and again.
- `ModelRegistry`: the runtime schedules every goroutine, the loop's timer fires
  again and again, and a rebuild that has begun runs on. Nobody has to begin one,
  and faults are bounded (`MaxFaults`), as are the generations (`MaxGen`).
- `CacheWriter`: goroutines that can run do, and a closer that waits for the
  RWMutex gets it, which Go's writer preference gives it. A write ends because
  `store.Set` has five seconds. In `MCServices` the same fairness is stated for
  the component that moves. The limiters need none.
- `AsyncLogger`: goroutines that can run do, and the ticker ticks. A Write comes
  and the server shuts down only if something makes them.

## 4. Findings

Each is a run that TLC ends with a counterexample; PROJECT.json quotes the line.

1. **Two probes at once** (`circuit_breaker.go:85`): `RecordSuccess` gives the token
   back for every success it hears while half-open, also for one admitted before
   the trip, although line 60 says "Only allow one request through at a time in
   half-open state". What the code does keep is `HerdBound`: at most
   SuccessThreshold probes in one episode.
2. **A malformed probe wedges the breaker** (`client.go:528`): a request that
   cannot be built ends with `finishRequest` only. If it held the half-open
   token the token is gone and only a restart closes the breaker.
3. **A disabled exit is used during a sync** (`application/egress.go:50`):
   `Remove` forgets the disabled set and `SetDisabled` restores it later.
4. **A rebuild forgets the pools' discovery settings** (`registry_reconfigure.go:51`):
   `Rebuild` writes them into the registry "BEFORE provider replacement", which
   then clears them before it lists the models; so does the rebuild at start-up.
5. **A one-shot body is replayed** (`client.go:769`, `584`): failover does not
   ask whether the body can be sent again.
6. **A rate limit that was seen is not returned** (`client.go:602`, `535`) when
   the walk ends on a 500 or a timeout.
7. **Write against Close can panic** (`logger.go:65`): `Add` is called while
   `Wait` is being woken. Depending on the order the request or Close panics.

Seen while modelling, and not the subject of a run:

- `Pick` and `HasAlternative` read the health maps after `RUnlock`
  (`egress.go:481`) while `Report` writes them: a data race on Go maps, although
  `egress.go:198` says the registry is safe for concurrent use.
- `restoreSnapshot` says the registry is "exactly as it was"
  (`registry_reconfigure.go:97`), but the configured lists and the discovery
  settings the reset cleared are not part of the snapshot.
- A rebuild whose refresh fails keeps its instances and pools but returns before
  `SetHiddenProviders` (`rebuild.go:50`), so a provider that has just become
  pool-only stays public.
- The Redis limiter counts a refused request in the windows it passed, and tells
  the client to come back in 72 hours whatever the window is
  (`auth_key_rate_limit_redis.go:138`). The limit itself holds.

## 5. What is proved

The theorems hold for every value of the constants under the assumptions the
modules name: thresholds of at least one (the breaker exists only then), at
least one exit, a buffer and a batch of at least one, a finite set of entries.

**`CircuitBreakerProofs`.** `TypeCorrect`, `FreshBudget`, `Herd`,
`OpenThenHalfOpen`, `TokenHeld`. `FreshBudget` is `WholeBudget`, for every order
of answers, stragglers from before the closing included: their failures are
heard and counted like any other, so the budget is spent by what was reported
after the closing and by nothing else. It follows from `BudgetCounted`, that the
failures of a closed breaker are those `charged`. The herd bound is not
inductive alone: `CBInv` adds that the successes are below their threshold while
half-open, and that the token's presence lowers the bound on admissions by one.
With it a late success that hands out a second token also raises the number of
recorded successes, which is why the bound survives every order of answers.
`TokenHeld` is proved on top of that invariant from the requests: a probe that
leaves either reports, and returns the token, or is recorded as leaked.
`WedgeIsForGood` and `OnlySilentProbesWedge` are finding 2 for any number of
callers: a half-open breaker whose token is out while nobody is under way never
leaves that state, whatever the callers and the clock do, and only a probe that
ended without an outcome leads to it.

**`LLMClientProofs`.** `TypeCorrect`, `LoopBudget`, `ProbeOnce`, `LimitSurfaces`
and `Refinement`. All of it is about one request record: `Sound` collects what
holds of each (retries within the budget, a probe made one attempt, a rate limit
seen only by requests that may move on, who may hold the token), `AnswerKeeps`
shows that one answer preserves it, and the steps lift it to all callers.
`Refinement` shows `SafeSpec => CB!SafeSpec`: retries and failovers are stutters,
completions are the breaker's answers, discovery is invisible. Through it the
theorems of `CircuitBreakerProofs`, instantiated with the client's callers, become
theorems about the client: `ClientBreakerGuards` (herd bound, token),
`ClientWholeBudget` and `ClientOpenThenHalfOpen`.

**`AsyncLoggerProofs`.** `TypeCorrect`, `BatchStaysSmall`, `NothingLeft`,
`StoredOnce`, `NothingAfterClose`, `Refinement`. The heart is
`SendingHoldsClose`: a call past its second look at `closed` keeps Close before
the end of its Wait. It alone does not carry the invariant, because a Done that
wakes the waiter moves Close on later: `WakingAlone` says there is at most one
such Done, that Close still waits for it, and that a call counted since is
explained by an `Add` that panicked. Together with `LoopAfterSignal` no entry
can reach the buffer after the final drain. The refinement adds `Fresh`, the
entry of a call not yet past its send is nowhere, and lemmas on sequences. That
no entry is lost or stored twice is `Accounted`, about one sequence, the trail:
what was handed over, then the batch, then the buffer. The loop only moves the
lines between the three, and Write appends an entry that is `Fresh`, so the
trail never repeats one; an answered entry is on it or refused, not both. When
the loop has ended the trail is the store, which is `NothingLeft`. All of this
includes the behaviours in which the WaitGroup panics: entries stay in order and
are not duplicated even then.

**`PoolProofs`.** `TypeCorrect`, `NoHealthyMemberMissed`, `NoStaleChoiceMade`
and `CountsKept`, for finite sets of members and requests. `Sound` says of a
request in a pass that a usable member healthy throughout is tried, still to be
examined or eligible (`Tracked`), that what it tried belongs to its pool
(`Placed`), and relates the history to the present health (`Observed`). At the
loop's bound as many members are tried as the pool has, hence all of them
(`NoneLeft`). The bounds on the counters are proved once for counters and events
in general (`CountingKeeps`, `CarryingKeeps`); what makes them inductive is
`NotYetCarried`, that the next pool has nothing yet of the members Replace has
still to carry.

**`EgressProofs`.** `EgressTypeCorrect`, `EgressNeverStranded`,
`EgressKeepsPromise`, `EgressDownIsEarned`, `EgressDemotesJustly`, for any finite
set of exits in any integer tiers and any number of workers. Types and cool-downs
are inductive with `HoldsExit`: an attempt that reports has an exit. The two about
selection are action properties of the step in which a Pick chooses, and rest on
an invariant of their own, `Hopes` (theorem `EgressHopes`): of every attempt, what
stayed enabled since it took its copy is still among what it will list, and what
is left of HasAlternative's answer is untried, enabled and fit, in the health it
will read, its own if the provider was removed. Every step of every other worker,
reload, switch and tick either keeps an exit so or takes it out of the history.
`LowestTier` gives the choice: a nonempty finite set of exits has a lowest tier,
by the well-foundedness of inclusion among finite sets. What is not true, and not
stated, is that a request always gets an exit: when the one exit of its copy goes
while another comes, its Pick lists neither. The last is an action
property: who demotes a tier, and that the demotion stays `Backed` by an exit whose
cool-down is as long, until a reload forgets cool-downs. The stronger reading, that
every enabled exit of a demoted tier was limited when it was demoted, is false:
`Report` lists the enabled exits under one lock (`egress.go:310`) and demotes under
the next (`egress.go:319`), and a reload in between can add an exit that nobody
has tried; it is then passed over for as long as the demotion lasts.

**`ModelRegistryProofs`.** `RegistryTypeCorrect`, `RegistrySettledBound`,
`RegistryIndexAgrees` and `RegistryKeepsService`. `SettledBound` alone does not
survive a step: an older sweep may land while names are being registered, and
`settled` stays TRUE when one lands afterwards. `OneSweep` says the semaphore
keeps sweeps apart, hence what was fetched is bound to what was copied
(`FetchedBound`), and once settled a sweep still under way, however early it
began, copied no instance but a registered one (`SettledSweep`): a sweep from
before the reset would have had to land before the one that settled could
acquire. Without the semaphore TLC finds the stale installation (a mutant in
PROJECT.json). `Unregistered` and `SettledEarly` say that a replacement under
way only gives instances to names without one, and that a sweep that landed in
the middle found an instance, so that `RestoreSnapshot` never follows it.
`IndexAgrees` is one direction only: an id without an owner may still be listed
by a provider, since `restoreModels` drops the owner's entry and looks for no
other. It is about `BareOf` and about rebinding (`ReboundKeeps`). That a set of
names has a first one is derived from the well-foundedness of inclusion among
finite sets (`LeastName`). The steps are grouped by what they leave alone
(`QuietMove`, `SweepMove`, `AdminMove`). That a replacement keeps models listed
is an action property: of the ways out of `ReplaceProviders`, each leaves a
model listed if there was one before. It rests on `JobFits`: between the capture
and the restore the sweep that runs is the rebuild's, so its error leads to the
restore.

**`RateLimiterProofs`.** `LimiterNoOverdraw`, `LimiterRefusesForCause` and
`RedisNeverOverdraws`, for any window lengths of which one divides the other.
`CounterExact` carries both: a counter counts what its window was charged, and
no later window has been charged anything. A request that read the clock before
the window now counted began is charged to that window, which is why a window
left is never entered again. The assumption is that the clock does not run
backwards.

For the replicas on Redis the invariant has to bound what is let through plus
what every request under way may still be granted: a sum, which would be defined
by recursion. `Covered` says the same without one. A counter that has not passed
its limit is a strip of that many tickets; each request that has passed the window
owns as many as it costs, what was granted owns its own, and no ticket has two
owners (`Fits`). An increment tears off new tickets for its request (`FitsGrow`,
`FitsTake`), a grant moves a request's tickets to the spent ones (`FitsGrant`), and
a strip has no more tickets than the limit (`FitsBound`). `Bounded` says how far a
counter may pass its limit, and that a request is under way while it has windows
left. Increments by other replicas, failed calls and the end of windows in between
are all included.

**`CacheWriterProofs`.** `QueueNeverSentToClosed` and `StoreClosedLast` need no
counting: the read lock keeps the channel open while a handler is between its
check and its send (`Exclusive`), and a worker is gone only when the channel is
closed and empty, and then it stays empty (`GoneWhenEmpty`). `WaitGroupExact` and
`WaitingCloseCanEnd` count: `pending` is what is queued, about to be sent and being
written (`CountExact`). Handlers and workers may be infinitely many; those that
hold a count are finitely many, for each took a step to get there. So a closer that
waits is done waiting, or a worker is writing or can take its next step: the safety
half of `CacheCloseReturns`.

Every safety and action property of a passing run is stated by a theorem, and so
are both refinements. Only model-checked: the liveness properties
(`BreakerRecovers`; `EveryRequestEnds`, of the pool and of the client;
`ReturnsToDirect`, `CloseReturns`, `TakenIsHanded`, `SettlesOnLive`,
`CacheCloseReturns`), since liveness under fairness is out of the prover's
reach. The seven findings are counterexamples, and need no more than TLC.

## 6. Plan

Done: `CircuitBreaker`, `Egress`, `LLMClient` with the refinement, `AsyncLogger`
with `LogSink`, `Pool`, `ModelRegistry`, the two limiters, `CacheWriter`, and the
proof modules named above. Next, in this order:

1. The rest of the pool registry: counters saved at an orderly shutdown and
   restored at the start, over a crash and over a start whose overrides fail to
   apply at first. Abstract specification of `Pool`: one provider that fails only
   when its members do.
2. `PooledClients`: pools over `CircuitBreaker` instances, one per member, for
   what a pool does while a member's breaker is open (pool.go:8 says it is
   skipped; its health comes from availability probes).
3. `Fallback`: the loop over selectors, with the errors of 1 and 2 below it.
4. `Lifecycle`: start-up, the retry of a failed start-up rebuild, and the order of
   shutdown over the loggers, the cache and the pools' counters.

Not modelled: what section 1 calls data transformation and I/O. PROJECT.json
gives the reason for each component. Most of the repository is of this kind:
translation between the dialects of providers, SQL and document stores, the
administration's handlers, and the dashboard.
