---------------------------- MODULE CacheWriter ----------------------------
(***************************************************************************)
(* The write queue of the exact response cache (exact_cache.go): request   *)
(* handlers queue a captured response without waiting, a few workers write *)
(* the queue to the store, and close stops them.  Closing the queue under  *)
(* a handler that is about to send would end the process, and a store      *)
(* closed under a worker would lose what the cache had accepted; the       *)
(* RWMutex and the two WaitGroups are there to prevent both.               *)
(***************************************************************************)
EXTENDS Naturals, FiniteSets

CONSTANTS
  Handlers,       \* requests, each with a response to store
  Workers,        \* the pool of writers
  Closers,        \* calls of close, which may overlap
  QueueDepth      \* capacity of the channel

ASSUME CacheAssumption == QueueDepth \in Nat /\ Workers # {}

VARIABLES
  queued,       \* m.jobs: responses in the channel
  open,         \* the channel has not been closed
  stopped,      \* m.closed
  locked,       \* who holds m.mu exclusively, if anybody
  pending,      \* m.wg: responses accepted and not yet written
  handler,      \* each handler: where in enqueueWrite it is
  worker,       \* each worker: waiting for a job, or writing one, or gone
  closer,       \* each call of close: where it is
  storeOpen     \* the store has not been closed

cacheVars == <<queued, open, stopped, locked, pending, handler, worker, closer, storeOpen>>

CacheInit ==
  /\ queued = 0 /\ open = TRUE /\ stopped = FALSE /\ locked = {} /\ pending = 0
  /\ handler = [h \in Handlers |-> "serving"]
  /\ worker = [w \in Workers |-> "waiting"]
  /\ closer = [k \in Closers |-> "out"]
  /\ storeOpen = TRUE

\* Who holds the read lock.
Readers == {h \in Handlers : handler[h] \in {"checking", "sending"}}

\* A closer that waits for m.mu keeps new readers out.
WriterWaits == \E k \in Closers : closer[k] = "locking"

Step(f, x, there) == [f EXCEPT ![x] = there]

-----------------------------------------------------------------------------
(* enqueueWrite                                                             *)

TakeReadLock(h) ==
  /\ handler[h] = "serving" /\ locked = {} /\ ~WriterWaits
  /\ handler' = Step(handler, h, "checking")
  /\ UNCHANGED <<queued, open, stopped, locked, pending, worker, closer, storeOpen>>

\* A closed cache takes nothing; an open one counts the response as pending.
CheckStopped(h) ==
  /\ handler[h] = "checking"
  /\ IF stopped
     THEN handler' = Step(handler, h, "done") /\ UNCHANGED pending
     ELSE handler' = Step(handler, h, "sending") /\ pending' = pending + 1
  /\ UNCHANGED <<queued, open, stopped, locked, worker, closer, storeOpen>>

\* The count is left as it is when the queue is full.
SendLeaking(h) ==
  /\ handler[h] = "sending" /\ open
  /\ queued' = IF queued < QueueDepth THEN queued + 1 ELSE queued
  /\ handler' = Step(handler, h, "done")
  /\ UNCHANGED <<open, stopped, locked, pending, worker, closer, storeOpen>>

\* The select: the response goes into the queue, or the queue is full, the
\* count is taken back and the response is not cached.
Send(h) ==
  /\ handler[h] = "sending" /\ open
  /\ IF queued < QueueDepth
     THEN queued' = queued + 1 /\ UNCHANGED pending
     ELSE pending' = pending - 1 /\ UNCHANGED queued
  /\ handler' = Step(handler, h, "done")
  /\ UNCHANGED <<open, stopped, locked, worker, closer, storeOpen>>

-----------------------------------------------------------------------------
(* The workers                                                              *)

Receive(w) ==
  /\ worker[w] = "waiting" /\ queued > 0
  /\ queued' = queued - 1
  /\ worker' = Step(worker, w, "writing")
  /\ UNCHANGED <<open, stopped, locked, pending, handler, closer, storeOpen>>

\* store.Set returns, within its five seconds, and the response is accounted
\* for whether it was written or not.
FinishWrite(w) ==
  /\ worker[w] = "writing"
  /\ pending' = pending - 1
  /\ worker' = Step(worker, w, "waiting")
  /\ UNCHANGED <<queued, open, stopped, locked, handler, closer, storeOpen>>

\* The range loop ends when the channel is closed and empty.
LeaveLoop(w) ==
  /\ worker[w] = "waiting" /\ ~open /\ queued = 0
  /\ worker' = Step(worker, w, "gone")
  /\ UNCHANGED <<queued, open, stopped, locked, pending, handler, closer, storeOpen>>

-----------------------------------------------------------------------------
(* close                                                                    *)

CallClose(k) ==
  /\ closer[k] = "out"
  /\ closer' = Step(closer, k, "locking")
  /\ UNCHANGED <<queued, open, stopped, locked, pending, handler, worker, storeOpen>>

\* Only another closer is waited for.
LockFreeOfClosers == locked = {}

\* The writer lock is free for a closer.
LockFree == locked = {} /\ Readers = {}

TakeLock(k) ==
  /\ closer[k] = "locking" /\ LockFree
  /\ locked' = {k}
  /\ closer' = Step(closer, k, "inside")
  /\ UNCHANGED <<queued, open, stopped, pending, handler, worker, storeOpen>>

\* The first closer closes the channel; both release the lock.
CloseQueue(k) ==
  /\ closer[k] = "inside"
  /\ stopped' = TRUE /\ open' = FALSE
  /\ locked' = {}
  /\ closer' = Step(closer, k, "waiting")
  /\ UNCHANGED <<queued, pending, handler, worker, storeOpen>>

\* The queue is waited for, not the writes.
DrainedQueue == queued = 0

\* workers.Wait() and wg.Wait() return.
Drained == pending = 0 /\ \A w \in Workers : worker[w] = "gone"

CloseStore(k) ==
  /\ closer[k] = "waiting" /\ Drained
  /\ storeOpen' = FALSE
  /\ closer' = Step(closer, k, "returned")
  /\ UNCHANGED <<queued, open, stopped, locked, pending, handler, worker>>

Handle(h) == TakeReadLock(h) \/ CheckStopped(h) \/ Send(h)
Work(w) == Receive(w) \/ FinishWrite(w) \/ LeaveLoop(w)
Close(k) == TakeLock(k) \/ CloseQueue(k) \/ CloseStore(k)

CacheNext ==
  \/ \E h \in Handlers : Handle(h)
  \/ \E w \in Workers : Work(w)
  \/ \E k \in Closers : CallClose(k) \/ Close(k)

\* Goroutines that can run do, and a writer waiting for the lock gets it once
\* the readers that were there have left.
CacheFairness ==
  /\ \A h \in Handlers : WF_cacheVars(CheckStopped(h) \/ Send(h))
  /\ \A w \in Workers : WF_cacheVars(Work(w))
  /\ \A k \in Closers : WF_cacheVars(Close(k))

CacheSpec == CacheInit /\ [][CacheNext]_cacheVars /\ CacheFairness

-----------------------------------------------------------------------------
(* Properties *)

\* No handler is left between its look at m.closed and its send when the
\* channel is closed: the send would panic (exact_cache.go:202).
NeverSendsOnClosed == ~open => \A h \in Handlers : handler[h] # "sending"

\* The store is closed only when everything the cache accepted has been
\* written: nothing is queued, no write is under way (exact_cache.go:164).
FlushedBeforeClosed ==
  ~storeOpen => queued = 0 /\ \A w \in Workers : worker[w] # "writing"

\* A close that has begun returns, whatever is queued and whoever else closes:
\* there is always a time again when no close is under way
\* (exact_cache.go:155).
CacheCloseReturns == []<>(\A k \in Closers : closer[k] \in {"out", "returned"})
=============================================================================
