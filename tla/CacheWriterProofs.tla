------------------------- MODULE CacheWriterProofs -------------------------
(***************************************************************************)
(* What holds of the cache's write queue for any number of handlers,       *)
(* workers and closers.  That the queue is safe needs no counting: the     *)
(* read lock keeps the channel open while a handler is between its check   *)
(* and its send, and a worker leaves only an empty, closed channel, which  *)
(* stays empty.  That close is not held up for ever by its WaitGroup does: *)
(* the counter is what is queued, being written and about to be sent.      *)
(***************************************************************************)
EXTENDS CacheWriter, FiniteSetTheorems, TLAPS

CacheTypes ==
  /\ queued \in Nat /\ open \in BOOLEAN /\ stopped \in BOOLEAN /\ storeOpen \in BOOLEAN
  /\ handler \in [Handlers -> {"serving", "checking", "sending", "done"}]
  /\ worker \in [Workers -> {"waiting", "writing", "gone"}]
  /\ closer \in [Closers -> {"out", "locking", "inside", "waiting", "returned"}]

\* m.mu: one closer holds it or the readers do.
Exclusive ==
  /\ \A k \in Closers : closer[k] = "inside" => locked = {k}
  /\ locked # {} => \A h \in Handlers : handler[h] \notin {"checking", "sending"}

\* The flag and the channel agree, and a closer past the lock has closed it.
ClosedOnce ==
  /\ stopped <=> ~open
  /\ \A k \in Closers : closer[k] \in {"waiting", "returned"} => ~open

\* A worker is gone only when there is nothing more to come.
GoneWhenEmpty == \A w \in Workers : worker[w] = "gone" => ~open /\ queued = 0

StoreLast == ~storeOpen => \A w \in Workers : worker[w] = "gone"

CacheInv ==
  CacheTypes /\ Exclusive /\ ClosedOnce /\ NeverSendsOnClosed /\ GoneWhenEmpty /\ StoreLast

LEMMA CacheInvInit == CacheInit => CacheInv
<1> SUFFICES ASSUME CacheInit PROVE CacheInv
  OBVIOUS
<1>1. CacheTypes
  BY DEF CacheInit, CacheTypes
<1>2. Exclusive /\ GoneWhenEmpty
  BY DEF CacheInit, Exclusive, GoneWhenEmpty
<1>3. ClosedOnce
  BY Zenon DEF CacheInit, ClosedOnce
<1>4. NeverSendsOnClosed /\ StoreLast
  BY Zenon DEF CacheInit, NeverSendsOnClosed, StoreLast
<1>5. QED
  BY <1>1, <1>2, <1>3, <1>4 DEF CacheInv

LEMMA CacheInvStep == CacheInv /\ [CacheNext]_cacheVars => CacheInv'
<1> SUFFICES ASSUME CacheInv, [CacheNext]_cacheVars PROVE CacheInv'
  OBVIOUS
<1> USE CacheAssumption DEF CacheInv, CacheTypes, Exclusive, ClosedOnce,
   NeverSendsOnClosed, GoneWhenEmpty, StoreLast, Step
<1>1. ASSUME NEW h \in Handlers, TakeReadLock(h) PROVE CacheInv'
  BY <1>1 DEF TakeReadLock
<1>2. ASSUME NEW h \in Handlers, CheckStopped(h) PROVE CacheInv'
  BY <1>2 DEF CheckStopped
<1>3. ASSUME NEW h \in Handlers, Send(h) PROVE CacheInv'
  BY <1>3 DEF Send
<1>4. ASSUME NEW w \in Workers, Receive(w) PROVE CacheInv'
  BY <1>4 DEF Receive
<1>5. ASSUME NEW w \in Workers, FinishWrite(w) PROVE CacheInv'
  BY <1>5 DEF FinishWrite
<1>6. ASSUME NEW w \in Workers, LeaveLoop(w) PROVE CacheInv'
  BY <1>6 DEF LeaveLoop
<1>7. ASSUME NEW k \in Closers, CallClose(k) PROVE CacheInv'
  BY <1>7 DEF CallClose
<1>8. ASSUME NEW k \in Closers, TakeLock(k) PROVE CacheInv'
  BY <1>8 DEF TakeLock, LockFree, Readers
<1>9. ASSUME NEW k \in Closers, CloseQueue(k) PROVE CacheInv'
  BY <1>9 DEF CloseQueue
<1>10. ASSUME NEW k \in Closers, CloseStore(k) PROVE CacheInv'
  BY <1>10 DEF CloseStore, Drained
<1>11. ASSUME UNCHANGED cacheVars PROVE CacheInv'
  BY <1>11 DEF cacheVars
<1>12. QED
  BY <1>1, <1>2, <1>3, <1>4, <1>5, <1>6, <1>7, <1>8, <1>9, <1>10, <1>11
     DEF CacheNext, Handle, Work, Close

\* The invariant of the queue, which the two theorems below are read off.
THEOREM QueueInvariant == CacheSpec => []CacheInv
BY CacheInvInit, CacheInvStep, PTL DEF CacheSpec

\* No handler sends on the channel after close has closed it, whatever the
\* number of handlers and of calls of close (exact_cache.go:202).
THEOREM QueueNeverSentToClosed == CacheSpec => []NeverSendsOnClosed
<1>1. CacheInv => NeverSendsOnClosed
  BY DEF CacheInv
<1>2. QED
  BY <1>1, QueueInvariant, PTL

\* The store is closed behind the last write of what the cache accepted
\* (exact_cache.go:164).
THEOREM StoreClosedLast == CacheSpec => []FlushedBeforeClosed
<1>1. CacheInv => FlushedBeforeClosed
  BY CacheAssumption DEF CacheInv, StoreLast, GoneWhenEmpty, FlushedBeforeClosed
<1>2. QED
  BY <1>1, QueueInvariant, PTL

-----------------------------------------------------------------------------
(* What m.wg counts                                                         *)

Sending == {h \in Handlers : handler[h] = "sending"}
Writing == {w \in Workers : worker[w] = "writing"}

\* Handlers and workers may be without number: those that hold a count are
\* finitely many, for each took a step to get there.
CountExact ==
  /\ IsFiniteSet(Sending) /\ IsFiniteSet(Writing)
  /\ pending = queued + Cardinality(Sending) + Cardinality(Writing)

LEMMA CountInit == CacheInit => CountExact
<1> SUFFICES ASSUME CacheInit PROVE CountExact
  OBVIOUS
<1>1. Sending = {} /\ Writing = {} /\ queued = 0 /\ pending = 0
  BY DEF CacheInit, Sending, Writing
<1>2. QED
  BY <1>1, FS_EmptySet DEF CountExact

\* A handler or a worker takes its place in one of the two sets, or leaves it.
LEMMA Enters ==
  ASSUME NEW S, IsFiniteSet(S), NEW x, x \notin S
  PROVE /\ IsFiniteSet(S \cup {x}) /\ Cardinality(S) \in Nat
        /\ Cardinality(S \cup {x}) = Cardinality(S) + 1
BY FS_AddElement, FS_CardinalityType

LEMMA Leaves ==
  ASSUME NEW S, IsFiniteSet(S), NEW x, x \in S
  PROVE /\ IsFiniteSet(S \ {x}) /\ Cardinality(S \ {x}) \in Nat
        /\ Cardinality(S) = Cardinality(S \ {x}) + 1
<1>1. IsFiniteSet(S \ {x}) /\ Cardinality(S \ {x}) = Cardinality(S) - 1
  BY FS_RemoveElement
<1>2. Cardinality(S) \in Nat /\ Cardinality(S \ {x}) \in Nat
  BY <1>1, FS_CardinalityType
<1>3. QED
  BY <1>1, <1>2

LEMMA CountStep == CacheInv /\ CountExact /\ [CacheNext]_cacheVars => CountExact'
<1> SUFFICES ASSUME CacheInv, CountExact, [CacheNext]_cacheVars PROVE CountExact'
  OBVIOUS
<1>0. /\ handler \in [Handlers -> {"serving", "checking", "sending", "done"}]
      /\ worker \in [Workers -> {"waiting", "writing", "gone"}]
      /\ queued \in Nat
      /\ IsFiniteSet(Sending) /\ IsFiniteSet(Writing)
      /\ Cardinality(Sending) \in Nat /\ Cardinality(Writing) \in Nat
      /\ pending = queued + Cardinality(Sending) + Cardinality(Writing)
  BY FS_CardinalityType DEF CacheInv, CacheTypes, CountExact
\* Most steps touch neither the queue nor who holds a count.
<1>1. ASSUME queued' = queued, pending' = pending, Sending' = Sending, Writing' = Writing
      PROVE CountExact'
  BY <1>0, <1>1 DEF CountExact
<1>2. ASSUME NEW h \in Handlers, TakeReadLock(h) PROVE CountExact'
  BY <1>0, <1>1, <1>2 DEF TakeReadLock, Step, Sending, Writing
<1>3. ASSUME NEW h \in Handlers, CheckStopped(h) PROVE CountExact'
  <2>1. queued' = queued /\ Writing' = Writing
    BY <1>3 DEF CheckStopped, Writing
  <2>2. CASE stopped
    BY <1>0, <1>1, <1>3, <2>1, <2>2 DEF CheckStopped, Step, Sending
  <2>3. CASE ~stopped
    <3>1. h \notin Sending /\ Sending' = Sending \cup {h}
      BY <1>0, <1>3, <2>3 DEF CheckStopped, Step, Sending
    <3>2. pending' = pending + 1
      BY <1>3, <2>3 DEF CheckStopped
    <3>3. QED
      BY <1>0, <2>1, <3>1, <3>2, Enters DEF CountExact
  <2>4. QED
    BY <2>2, <2>3
<1>4. ASSUME NEW h \in Handlers, Send(h) PROVE CountExact'
  <2>1. h \in Sending /\ Sending' = Sending \ {h} /\ Writing' = Writing
    BY <1>0, <1>4 DEF Send, Step, Sending, Writing
  <2>2. \/ queued' = queued + 1 /\ pending' = pending
        \/ queued' = queued /\ pending' = pending - 1
    BY <1>4 DEF Send
  <2>3. /\ IsFiniteSet(Sending \ {h}) /\ Cardinality(Sending \ {h}) \in Nat
        /\ Cardinality(Sending) = Cardinality(Sending \ {h}) + 1
    BY <1>0, <2>1, Leaves, Zenon
  <2>4. QED
    BY <1>0, <2>1, <2>2, <2>3 DEF CountExact
<1>5. ASSUME NEW w \in Workers, Receive(w) PROVE CountExact'
  <2>1. w \notin Writing /\ Writing' = Writing \cup {w} /\ Sending' = Sending
    BY <1>0, <1>5 DEF Receive, Step, Sending, Writing
  <2>2. queued' = queued - 1 /\ pending' = pending
    BY <1>5 DEF Receive
  <2>3. QED
    BY <1>0, <2>1, <2>2, Enters DEF CountExact
<1>6. ASSUME NEW w \in Workers, FinishWrite(w) PROVE CountExact'
  <2>1. w \in Writing /\ Writing' = Writing \ {w} /\ Sending' = Sending
    BY <1>0, <1>6 DEF FinishWrite, Step, Sending, Writing
  <2>2. queued' = queued /\ pending' = pending - 1
    BY <1>6 DEF FinishWrite
  <2>3. /\ IsFiniteSet(Writing \ {w}) /\ Cardinality(Writing \ {w}) \in Nat
        /\ Cardinality(Writing) = Cardinality(Writing \ {w}) + 1
    BY <1>0, <2>1, Leaves, Zenon
  <2>4. QED
    BY <1>0, <2>1, <2>2, <2>3 DEF CountExact
<1>7. ASSUME NEW w \in Workers, LeaveLoop(w) PROVE CountExact'
  BY <1>0, <1>1, <1>7 DEF LeaveLoop, Step, Sending, Writing
<1>8. ASSUME NEW k \in Closers, CallClose(k) \/ Close(k) PROVE CountExact'
  BY <1>1, <1>8 DEF CallClose, Close, TakeLock, CloseQueue, CloseStore, Sending, Writing
<1>9. CASE UNCHANGED cacheVars
  BY <1>1, <1>9 DEF cacheVars, Sending, Writing
<1>10. QED
  BY <1>2, <1>3, <1>4, <1>5, <1>6, <1>7, <1>8, <1>9 DEF CacheNext, Handle, Work

\* The counter of accepted responses is exact at every moment: each is in the
\* channel, with a worker, or with the handler that is about to send it.  So
\* m.wg never goes below zero, which would panic (exact_cache.go:181, 205).
THEOREM WaitGroupExact == CacheSpec => [](pending \in Nat /\ CountExact)
<1>1. CacheInv /\ CountExact => pending \in Nat
  BY FS_CardinalityType DEF CacheInv, CacheTypes, CountExact
<1>2. QED
  BY <1>1, CacheInvInit, CountInit, CacheInvStep, CountStep, PTL DEF CacheSpec

\* A close past the lock is never stuck: both waits are over, or some worker is
\* at work or can take a step.  In particular m.wg does not outlive the last
\* worker, so what is left of CacheCloseReturns is that workers that can run do
\* (exact_cache.go:155).
CloseNeverStuck ==
  \A k \in Closers : closer[k] = "waiting" =>
    \/ Drained
    \/ \E w \in Workers : worker[w] = "writing"
    \/ \E w \in Workers : worker[w] = "waiting" /\ (queued > 0 \/ ~open)

THEOREM WaitingCloseCanEnd == CacheSpec => []CloseNeverStuck
<1>1. CacheInv /\ CountExact => CloseNeverStuck
  <2> SUFFICES ASSUME CacheInv, CountExact, NEW k \in Closers, closer[k] = "waiting",
                      \A w \in Workers : worker[w] = "gone"
               PROVE Drained
    <3>1. CacheInv /\ (\E k \in Closers : closer[k] = "waiting") => ~open
      BY DEF CacheInv, ClosedOnce
    <3>2. CacheInv =>
            \A w \in Workers : worker[w] = "waiting" \/ worker[w] = "writing" \/ worker[w] = "gone"
      BY DEF CacheInv, CacheTypes
    <3>3. QED
      BY <3>1, <3>2 DEF CloseNeverStuck
  <2>1. ~open /\ queued = 0
    BY CacheAssumption DEF CacheInv, ClosedOnce, GoneWhenEmpty
  <2>2. Sending = {} /\ Writing = {}
    BY <2>1 DEF CacheInv, NeverSendsOnClosed, Sending, Writing
  <2>3. pending = 0
    BY <2>1, <2>2, FS_EmptySet DEF CountExact
  <2>4. QED
    BY <2>3 DEF Drained
<1>2. QED
  BY <1>1, CacheInvInit, CountInit, CacheInvStep, CountStep, PTL DEF CacheSpec
=============================================================================
