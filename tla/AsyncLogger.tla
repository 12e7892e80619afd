---------------------------- MODULE AsyncLogger ----------------------------
(***************************************************************************)
(* The asynchronous loggers: src/internal/audit_logging/logger.go and, the *)
(* same but for the type of an entry, src/internal/usage/logger.go.  Write *)
(* runs on the goroutines of the requests, Close on the one that shuts the *)
(* server down, flushLoop on its own.  Every entry is written by one call, *)
(* so the calls of Write are named by their entries.                       *)
(*                                                                         *)
(* Write and Close are kept apart by an atomic flag and a WaitGroup,       *)
(* modelled as the sync package has it.  The Done that brings the counter  *)
(* to zero wakes the waiter in a second step; an Add in between panics     *)
(* ("Add called concurrently with Wait") and so does that Done.  The woken *)
(* waiter looks at the counter once more and panics if an Add came since   *)
(* ("reused before previous Wait has returned").                           *)
(***************************************************************************)
EXTENDS Integers, Sequences, FiniteSets, Functions

CONSTANTS
    Entries,            \* the entries that are ever written
    BufferSize,         \* Config.BufferSize
    Threshold           \* BatchFlushThreshold

ASSUME LoggerAssumption ==
    BufferSize \in Nat \ {0} /\ Threshold \in Nat \ {0} /\ IsFiniteSet(Entries)

VARIABLES
    write,              \* where the call of Write for each entry is
    refused,            \* entries whose call returned without taking them
    buffer,             \* Logger.buffer
    batch,              \* what flushLoop has received and not yet written
    handed,             \* what was given to store.WriteBatch, in order
    closed,             \* Logger.closed
    close,              \* where Close is
    loop,               \* where flushLoop is
    panicked            \* history: a WaitGroup operation panicked

callVars   == <<write, refused>>
loggerVars     == <<callVars, buffer, batch, handed, closed, close, loop, panicked>>

Calls  == {"new", "checked", "registered", "sending", "done", "waking",
           "returned", "leaked", "donePanicked"}
Closes == {"open", "swapped", "waiting", "woken", "waited", "signalled", "returned", "panicked"}
Loops  == {"running", "draining", "exited"}

(* The calls counted by Logger.writes.  An Add that panics has counted,    *)
(* and its Done was not deferred yet: such a call is over and leaked.      *)
Registered == {e \in Entries : write[e] \in {"registered", "sending", "done", "leaked"}}

(* A Done has brought the counter to zero and not yet woken the waiter.    *)
Waking == \E e \in Entries : write[e] = "waking"

Goes(e, where) == write' = [write EXCEPT ![e] = where]

-----------------------------------------------------------------------------
LoggerInit ==
    /\ write = [e \in Entries |-> "new"]
    /\ refused = {}
    /\ buffer = <<>> /\ batch = <<>> /\ handed = <<>>
    /\ closed = FALSE /\ close = "open" /\ loop = "running"
    /\ panicked = FALSE

(* Write: the first look at closed.                                        *)
CheckClosed(e) ==
    /\ write[e] = "new"
    /\ IF closed THEN Goes(e, "returned") /\ refused' = refused \cup {e}
                 ELSE Goes(e, "checked") /\ UNCHANGED refused
    /\ UNCHANGED <<buffer, batch, handed, closed, close, loop, panicked>>

(* writes.Add(1).                                                          *)
RegisterWrite(e) ==
    /\ write[e] = "checked"
    /\ IF Waking /\ Registered = {}
       THEN Goes(e, "leaked") /\ panicked' = TRUE
       ELSE Goes(e, "registered") /\ UNCHANGED panicked
    /\ UNCHANGED <<refused, buffer, batch, handed, closed, close, loop>>

(* The look after registering is taken to be superfluous.                  *)
CheckAgainSkipped(e) ==
    /\ write[e] = "registered"
    /\ Goes(e, "sending")
    /\ UNCHANGED <<refused, buffer, batch, handed, closed, close, loop, panicked>>

(* Done is deferred only after the second look.                            *)
CheckAgainLeaks(e) ==
    /\ write[e] = "registered"
    /\ IF closed THEN Goes(e, "leaked") /\ refused' = refused \cup {e}
                 ELSE Goes(e, "sending") /\ UNCHANGED refused
    /\ UNCHANGED <<buffer, batch, handed, closed, close, loop, panicked>>

(* The second look at closed, once registered.                             *)
CheckAgain(e) ==
    /\ write[e] = "registered"
    /\ IF closed THEN Goes(e, "done") /\ refused' = refused \cup {e}
                 ELSE Goes(e, "sending") /\ UNCHANGED refused
    /\ UNCHANGED <<buffer, batch, handed, closed, close, loop, panicked>>

(* The channel is made one larger than Config.BufferSize.                  *)
SendOverfull(e) ==
    /\ write[e] = "sending"
    /\ IF Len(buffer) <= BufferSize
       THEN buffer' = Append(buffer, e) /\ UNCHANGED refused
       ELSE refused' = refused \cup {e} /\ UNCHANGED buffer
    /\ Goes(e, "done")
    /\ UNCHANGED <<batch, handed, closed, close, loop, panicked>>

(* The non-blocking send: a full buffer refuses the entry.                 *)
SendEntry(e) ==
    /\ write[e] = "sending"
    /\ IF Len(buffer) < BufferSize
       THEN buffer' = Append(buffer, e) /\ UNCHANGED refused
       ELSE refused' = refused \cup {e} /\ UNCHANGED buffer
    /\ Goes(e, "done")
    /\ UNCHANGED <<batch, handed, closed, close, loop, panicked>>

(* The deferred writes.Done().  The last one of a waiting Close wakes it.  *)
Done(e) ==
    /\ write[e] = "done"
    /\ Goes(e, IF close = "waiting" /\ Registered = {e} THEN "waking" ELSE "returned")
    /\ UNCHANGED <<refused, buffer, batch, handed, closed, close, loop, panicked>>

(* It finds the counter as it left it, or panics and wakes nobody.         *)
Wake(e) ==
    /\ write[e] = "waking"
    /\ IF Registered = {}
       THEN Goes(e, "returned") /\ close' = "woken" /\ UNCHANGED panicked
       ELSE Goes(e, "donePanicked") /\ panicked' = TRUE /\ UNCHANGED close
    /\ UNCHANGED <<refused, buffer, batch, handed, closed, loop>>

-----------------------------------------------------------------------------
(* Close: closed.Swap(true).  A second Close returns at once.              *)
Swap ==
    /\ close = "open"
    /\ closed' = TRUE /\ close' = "swapped"
    /\ UNCHANGED <<callVars, buffer, batch, handed, loop, panicked>>

(* The calls under way are not waited for.                                 *)
WaitSkipped ==
    /\ close = "swapped"
    /\ close' = "waited"
    /\ UNCHANGED <<callVars, buffer, batch, handed, closed, loop, panicked>>

(* writes.Wait() returns at once or becomes the waiter.                    *)
Wait ==
    /\ close = "swapped"
    /\ close' = IF Registered = {} THEN "waited" ELSE "waiting"
    /\ UNCHANGED <<callVars, buffer, batch, handed, closed, loop, panicked>>

(* The woken waiter returns if the counter is still zero.                  *)
Resume ==
    /\ close = "woken"
    /\ IF Registered = {} THEN close' = "waited" /\ UNCHANGED panicked
                        ELSE close' = "panicked" /\ panicked' = TRUE
    /\ UNCHANGED <<callVars, buffer, batch, handed, closed, loop>>

(* close(done).                                                            *)
Signal ==
    /\ close = "waited"
    /\ close' = "signalled"
    /\ UNCHANGED <<callVars, buffer, batch, handed, closed, loop, panicked>>

(* wg.Wait() and store.Close().                                            *)
ReturnFromClose ==
    /\ close = "signalled" /\ loop = "exited"
    /\ close' = "returned"
    /\ UNCHANGED <<callVars, buffer, batch, handed, closed, loop, panicked>>

-----------------------------------------------------------------------------
(* flushLoop.  Its select takes any ready case.                            *)

(* A batch that reaches the threshold is kept, with what comes after it.   *)
ReceiveOnly ==
    /\ loop = "running" /\ buffer # <<>>
    /\ batch' = Append(batch, Head(buffer)) /\ buffer' = Tail(buffer)
    /\ UNCHANGED <<callVars, handed, closed, close, loop, panicked>>

ReceiveEntry ==
    /\ loop = "running" /\ buffer # <<>>
    /\ LET received == Append(batch, Head(buffer))
       IN  IF Len(received) >= Threshold
           THEN handed' = handed \o received /\ batch' = <<>>
           ELSE batch' = received /\ UNCHANGED handed
    /\ buffer' = Tail(buffer)
    /\ UNCHANGED <<callVars, closed, close, loop, panicked>>

(* The ticker leaves a single entry for the next batch.                    *)
TickerSparing ==
    /\ loop = "running" /\ Len(batch) > 1
    /\ handed' = handed \o batch /\ batch' = <<>>
    /\ UNCHANGED <<callVars, buffer, closed, close, loop, panicked>>

Ticker ==
    /\ loop = "running" /\ batch # <<>>
    /\ handed' = handed \o batch /\ batch' = <<>>
    /\ UNCHANGED <<callVars, buffer, closed, close, loop, panicked>>

Stop ==
    /\ loop = "running" /\ close = "signalled"
    /\ loop' = "draining"
    /\ UNCHANGED <<callVars, buffer, batch, handed, closed, close, panicked>>

DrainOne ==
    /\ loop = "draining" /\ buffer # <<>>
    /\ batch' = Append(batch, Head(buffer)) /\ buffer' = Tail(buffer)
    /\ UNCHANGED <<callVars, handed, closed, close, loop, panicked>>

FinalFlush ==
    /\ loop = "draining" /\ buffer = <<>>
    /\ handed' = handed \o batch /\ batch' = <<>>
    /\ loop' = "exited"
    /\ UNCHANGED <<callVars, buffer, closed, close, panicked>>

-----------------------------------------------------------------------------
WriteStep(e) ==
    \/ CheckClosed(e) \/ RegisterWrite(e) \/ CheckAgain(e)
    \/ SendEntry(e) \/ Done(e) \/ Wake(e)

CloseStep == Wait \/ Resume \/ Signal \/ ReturnFromClose

LoopStep == ReceiveEntry \/ Stop \/ DrainOne \/ FinalFlush

LoggerNext ==
    \/ \E e \in Entries : WriteStep(e)
    \/ Swap \/ CloseStep
    \/ LoopStep \/ Ticker

LoggerSafeSpec == LoggerInit /\ [][LoggerNext]_loggerVars

(* Goroutines that can run do, and the ticker ticks.  A call of Write      *)
(* comes, and the server shuts down, only if something makes them.         *)
LoggerFairness ==
    /\ \A e \in Entries : WF_loggerVars(write[e] # "new" /\ WriteStep(e))
    /\ WF_loggerVars(CloseStep) /\ WF_loggerVars(LoopStep) /\ WF_loggerVars(Ticker)

LoggerSpec == LoggerSafeSpec /\ LoggerFairness

-----------------------------------------------------------------------------
(* The shape of the state.                                                 *)
LoggerTypeOK ==
    /\ write \in [Entries -> Calls] /\ refused \subseteq Entries
    /\ buffer \in Seq(Entries) /\ Len(buffer) <= BufferSize
    /\ batch \in Seq(Entries) /\ handed \in Seq(Entries)
    /\ closed \in BOOLEAN /\ panicked \in BOOLEAN
    /\ close \in Closes /\ loop \in Loops

(* logger.go:116 "Close stops the logger and flushes remaining entries":   *)
(* no call that passed its checks before the swap can still put an entry   *)
(* into the buffer once flushLoop has looked there for the last time, and  *)
(* every entry that was sent or refused by then is in the store or among   *)
(* the refused, never in both and never in neither.                        *)
Answered(e) == write[e] \in {"done", "waking", "returned", "donePanicked"}

NothingLeftBehind ==
    loop = "exited" =>
        /\ buffer = <<>> /\ batch = <<>>
        /\ \A e \in Entries : write[e] # "sending"
        /\ \A e \in Entries : Answered(e) => ((e \in refused) <=> (e \notin Range(handed)))

(* A batch is written at the threshold: until the final drain what the     *)
(* loop holds back stays below it.                                         *)
BatchBounded == loop = "running" => Len(batch) < Threshold

(* Entries are handed over once, in the order taken, none after Close.     *)
Sink == INSTANCE LogSink WITH queue <- batch \o buffer, shut <- close = "returned"

ImplementsSink == Sink!Spec

(* logger.go:116 "Close stops the logger and flushes remaining entries":   *)
(* Close returns, as long as the WaitGroup never panics.                   *)
CloseReturns == [](~panicked) => (close = "swapped" ~> close = "returned")

(* logger.go:52 "If the buffer is full or the logger is closed, the entry  *)
(* is dropped": a Write that meets Close does no worse than that.          *)
NeverPanics == ~panicked

(* An entry that was taken is handed to the store by a later batch, a tick *)
(* of the ticker or the final drain, as long as no panic ends the process. *)
TakenIsHanded ==
    [](~panicked) => \A e \in Entries : e \in Range(buffer) ~> e \in Range(handed)
=============================================================================
