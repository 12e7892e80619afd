------------------------- MODULE AsyncLoggerProofs -------------------------
(***************************************************************************)
(* What holds of the asynchronous loggers for every set of entries, buffer *)
(* size and threshold: the types, the batch bound, that every answered     *)
(* entry is stored once or refused, that nothing is stored after Close     *)
(* has returned, and that the loggers implement LogSink.                   *)
(***************************************************************************)
EXTENDS AsyncLogger, TLAPS

(* Close has begun exactly when the flag is set.                           *)
FlagMeansClosing == closed = (close # "open")

(* A call past its second look holds Close up.                             *)
SendingHoldsClose ==
    \A e \in Entries : write[e] = "sending" => close \in {"open", "swapped", "waiting"}

(* A Done that found zero is the only one, and Close still waits for it; a *)
(* call counted since then is accounted for by an Add that panicked.       *)
WakingAlone ==
    \A e \in Entries : write[e] = "waking" =>
        /\ close = "waiting"
        /\ \A f \in Entries : write[f] = "waking" => f = e
        /\ Registered = {} \/ \E f \in Entries : write[f] = "leaked"

(* The loop stops once it was signalled, and only drained.                 *)
LoopAfterSignal ==
    /\ loop # "running" => close \in {"signalled", "returned"}
    /\ loop = "exited" => buffer = <<>> /\ batch = <<>>
    /\ close = "returned" => loop = "exited"

Sound ==
    /\ LoggerTypeOK
    /\ FlagMeansClosing /\ SendingHoldsClose /\ WakingAlone /\ LoopAfterSignal
    /\ BatchBounded

-----------------------------------------------------------------------------
LEMMA InitSound == LoggerInit => Sound
  <1> SUFFICES ASSUME LoggerInit PROVE Sound
    OBVIOUS
  <1> USE LoggerAssumption DEF LoggerInit
  <1>1. LoggerTypeOK
    <2>1. buffer \in Seq(Entries) /\ batch \in Seq(Entries) /\ handed \in Seq(Entries)
      OBVIOUS
    <2>2. Len(buffer) = 0 /\ 0 <= BufferSize
      OBVIOUS
    <2> QED
      BY <2>1, <2>2 DEF LoggerTypeOK, Calls, Closes, Loops
  <1>2. FlagMeansClosing /\ SendingHoldsClose /\ WakingAlone
    BY DEF FlagMeansClosing, SendingHoldsClose, WakingAlone
  <1>3. LoopAfterSignal /\ BatchBounded
    BY DEF LoopAfterSignal, BatchBounded
  <1> QED
    BY <1>1, <1>2, <1>3 DEF Sound

(* Every step of a call of Write keeps the invariant.                      *)
LEMMA WriteSound ==
    ASSUME NEW e \in Entries, Sound, WriteStep(e)
    PROVE  Sound'
  <1> USE LoggerAssumption DEF Sound, Goes, callVars
  <1>0. write \in [Entries -> Calls]
    BY DEF LoggerTypeOK
  <1>1. CASE CheckClosed(e)
    <2>1. LoggerTypeOK'
      BY <1>1 DEF CheckClosed, LoggerTypeOK, Calls, Closes, Loops
    <2>2. FlagMeansClosing' /\ SendingHoldsClose'
      BY <1>0, <1>1 DEF CheckClosed, FlagMeansClosing, SendingHoldsClose
    <2>3. WakingAlone'
      BY <1>0, <1>1 DEF CheckClosed, WakingAlone, Registered
    <2>4. LoopAfterSignal' /\ BatchBounded'
      BY <1>1 DEF CheckClosed, LoopAfterSignal, BatchBounded
    <2> QED
      BY <2>1, <2>2, <2>3, <2>4
  <1>2. CASE RegisterWrite(e)
    <2>1. LoggerTypeOK'
      BY <1>2 DEF RegisterWrite, LoggerTypeOK, Calls, Closes, Loops
    <2>2. FlagMeansClosing' /\ SendingHoldsClose'
      BY <1>0, <1>2 DEF RegisterWrite, FlagMeansClosing, SendingHoldsClose
    <2>3. WakingAlone'
      BY <1>0, <1>2 DEF RegisterWrite, WakingAlone, Registered, Waking
    <2>4. LoopAfterSignal' /\ BatchBounded'
      BY <1>2 DEF RegisterWrite, LoopAfterSignal, BatchBounded
    <2> QED
      BY <2>1, <2>2, <2>3, <2>4
  <1>3. CASE CheckAgain(e)
    <2>1. LoggerTypeOK'
      BY <1>3 DEF CheckAgain, LoggerTypeOK, Calls, Closes, Loops
    <2>2. FlagMeansClosing' /\ SendingHoldsClose'
      BY <1>0, <1>3 DEF CheckAgain, FlagMeansClosing, SendingHoldsClose
    <2>3. WakingAlone'
      BY <1>0, <1>3 DEF CheckAgain, WakingAlone, Registered
    <2>4. LoopAfterSignal' /\ BatchBounded'
      BY <1>3 DEF CheckAgain, LoopAfterSignal, BatchBounded
    <2> QED
      BY <2>1, <2>2, <2>3, <2>4
  <1>4. CASE SendEntry(e)
    <2>1. LoggerTypeOK'
      <3>0. buffer \in Seq(Entries) /\ Append(buffer, e) \in Seq(Entries)
        BY DEF LoggerTypeOK
      <3>1. buffer' \in Seq(Entries) /\ refused' \subseteq Entries
        BY <1>4, <3>0, Zenon DEF SendEntry, LoggerTypeOK
      <3>2. Len(buffer') <= BufferSize
        BY <1>4, <3>0 DEF SendEntry, LoggerTypeOK
      <3>3. write' \in [Entries -> Calls]
        BY <1>4 DEF SendEntry, LoggerTypeOK, Calls
      <3>4. batch' = batch /\ handed' = handed /\ closed' = closed
            /\ close' = close /\ loop' = loop /\ panicked' = panicked
        BY <1>4 DEF SendEntry
      <3> QED
        BY <3>1, <3>2, <3>3, <3>4, Zenon DEF LoggerTypeOK
    <2>2. FlagMeansClosing' /\ SendingHoldsClose'
      BY <1>0, <1>4 DEF SendEntry, FlagMeansClosing, SendingHoldsClose
    <2>3. WakingAlone'
      BY <1>0, <1>4 DEF SendEntry, WakingAlone, Registered
    <2>4. loop = "running"
      BY <1>4 DEF SendEntry, SendingHoldsClose, LoopAfterSignal, LoggerTypeOK, Closes
    <2>5. LoopAfterSignal' /\ BatchBounded'
      BY <1>4, <2>4 DEF SendEntry, LoopAfterSignal, BatchBounded
    <2> QED
      BY <2>1, <2>2, <2>3, <2>5
  <1>5. CASE Done(e)
    <2>1. LoggerTypeOK'
      BY <1>5 DEF Done, LoggerTypeOK, Calls, Closes, Loops
    <2>2. FlagMeansClosing' /\ SendingHoldsClose'
      BY <1>0, <1>5 DEF Done, FlagMeansClosing, SendingHoldsClose
    <2>3. WakingAlone'
      BY <1>0, <1>5 DEF Done, WakingAlone, Registered
    <2>4. LoopAfterSignal' /\ BatchBounded'
      BY <1>5 DEF Done, LoopAfterSignal, BatchBounded
    <2> QED
      BY <2>1, <2>2, <2>3, <2>4
  <1>6. CASE Wake(e)
    <2>1. LoggerTypeOK'
      BY <1>6 DEF Wake, LoggerTypeOK, Calls, Closes, Loops
    <2>2. close = "waiting"
      BY <1>6 DEF Wake, WakingAlone
    <2>3. FlagMeansClosing' /\ SendingHoldsClose'
      BY <1>0, <1>6, <2>2 DEF Wake, FlagMeansClosing, SendingHoldsClose, Registered
    <2>4. WakingAlone'
      BY <1>0, <1>6 DEF Wake, WakingAlone, Registered
    <2>5. LoopAfterSignal' /\ BatchBounded'
      BY <1>6, <2>2 DEF Wake, LoopAfterSignal, BatchBounded
    <2> QED
      BY <2>1, <2>3, <2>4, <2>5
  <1> QED
    BY <1>1, <1>2, <1>3, <1>4, <1>5, <1>6 DEF WriteStep

(* So does every step of Close and of the loop.                            *)
LEMMA CloseSound ==
    ASSUME Sound, Swap \/ CloseStep
    PROVE  Sound'
  <1> USE LoggerAssumption DEF Sound, callVars
  <1>1. LoggerTypeOK'
    BY DEF Swap, CloseStep, Wait, Resume, Signal, ReturnFromClose, LoggerTypeOK, Closes
  <1>2. FlagMeansClosing'
    BY DEF Swap, CloseStep, Wait, Resume, Signal, ReturnFromClose, FlagMeansClosing
  <1>3. SendingHoldsClose'
    BY DEF Swap, CloseStep, Wait, Resume, Signal, ReturnFromClose, SendingHoldsClose, Registered
  <1>4. WakingAlone'
    BY DEF Swap, CloseStep, Wait, Resume, Signal, ReturnFromClose, WakingAlone, Registered
  <1>5. LoopAfterSignal' /\ BatchBounded'
    BY DEF Swap, CloseStep, Wait, Resume, Signal, ReturnFromClose, LoopAfterSignal, BatchBounded
  <1> QED
    BY <1>1, <1>2, <1>3, <1>4, <1>5

LEMMA LoopSound ==
    ASSUME Sound, LoopStep \/ Ticker
    PROVE  Sound'
  <1> USE LoggerAssumption DEF Sound, callVars
  <1>1. LoggerTypeOK'
    <2>0. batch \in Seq(Entries) /\ buffer \in Seq(Entries) /\ handed \in Seq(Entries)
      BY DEF LoggerTypeOK
    <2>1. CASE ReceiveEntry
      <3>1. Head(buffer) \in Entries /\ Tail(buffer) \in Seq(Entries)
        BY <2>0, <2>1 DEF ReceiveEntry
      <3>2. Append(batch, Head(buffer)) \in Seq(Entries)
        BY <2>0, <3>1
      <3>3. handed \o Append(batch, Head(buffer)) \in Seq(Entries)
        BY <2>0, <3>2
      <3>4. batch' \in Seq(Entries) /\ handed' \in Seq(Entries)
        <4>1. << >> \in Seq(Entries)
          OBVIOUS
        <4> QED
          BY <2>0, <2>1, <3>2, <3>3, <4>1, Zenon DEF ReceiveEntry
      <3>5. buffer' \in Seq(Entries) /\ Len(buffer') <= BufferSize
        BY <2>0, <2>1, <3>1 DEF ReceiveEntry, LoggerTypeOK
      <3>6. closed' = closed /\ close' = close /\ loop' = loop /\ panicked' = panicked
            /\ write' = write /\ refused' = refused
        BY <2>1 DEF ReceiveEntry
      <3> QED
        BY <3>4, <3>5, <3>6, Zenon DEF LoggerTypeOK
    <2>2. CASE DrainOne
      <3>1. Head(buffer) \in Entries /\ Tail(buffer) \in Seq(Entries)
        BY <2>0, <2>2 DEF DrainOne
      <3>2. batch' \in Seq(Entries)
        BY <2>0, <2>2, <3>1 DEF DrainOne
      <3>3. buffer' \in Seq(Entries) /\ Len(buffer') <= BufferSize
        BY <2>0, <2>2, <3>1 DEF DrainOne, LoggerTypeOK
      <3>4. closed' = closed /\ close' = close /\ loop' = loop /\ panicked' = panicked
            /\ write' = write /\ refused' = refused /\ handed' = handed
        BY <2>2 DEF DrainOne
      <3> QED
        BY <3>2, <3>3, <3>4, Zenon DEF LoggerTypeOK
    <2>3. CASE Ticker \/ FinalFlush
      <3>0. handed \o batch \in Seq(Entries) /\ << >> \in Seq(Entries)
        BY <2>0
      <3>1. handed' \in Seq(Entries) /\ batch' \in Seq(Entries)
        BY <2>3, <3>0, Zenon DEF Ticker, FinalFlush
      <3> QED
        BY <2>3, <3>1 DEF Ticker, FinalFlush, LoggerTypeOK, Loops
    <2>4. CASE Stop
      BY <2>4 DEF Stop, LoggerTypeOK, Loops
    <2> QED
      BY <2>1, <2>2, <2>3, <2>4 DEF LoopStep
  <1>2. FlagMeansClosing' /\ SendingHoldsClose' /\ WakingAlone'
    BY DEF LoopStep, ReceiveEntry, Ticker, Stop, DrainOne, FinalFlush,
           FlagMeansClosing, SendingHoldsClose, WakingAlone, Registered
  <1>3. LoopAfterSignal'
    BY DEF LoopStep, ReceiveEntry, Ticker, Stop, DrainOne, FinalFlush, LoopAfterSignal,
           LoggerTypeOK, Loops
  <1>4. BatchBounded'
    BY DEF LoopStep, ReceiveEntry, Ticker, Stop, DrainOne, FinalFlush, BatchBounded, LoggerTypeOK
  <1> QED
    BY <1>1, <1>2, <1>3, <1>4

LEMMA Invariance == LoggerSafeSpec => []Sound
  <1>1. LoggerInit => Sound
    BY InitSound
  <1>2. Sound /\ [LoggerNext]_loggerVars => Sound'
    <2> SUFFICES ASSUME Sound, [LoggerNext]_loggerVars PROVE Sound'
      OBVIOUS
    <2>1. CASE \E e \in Entries : WriteStep(e)
      BY <2>1, WriteSound
    <2>2. CASE Swap \/ CloseStep
      BY <2>2, CloseSound
    <2>3. CASE LoopStep \/ Ticker
      BY <2>3, LoopSound
    <2>4. CASE UNCHANGED loggerVars
      BY <2>4 DEF loggerVars, callVars, Sound, LoggerTypeOK, FlagMeansClosing, SendingHoldsClose,
                  WakingAlone, LoopAfterSignal, BatchBounded, Registered
    <2> QED
      BY <2>1, <2>2, <2>3, <2>4 DEF LoggerNext
  <1> QED
    BY <1>1, <1>2, PTL DEF LoggerSafeSpec

(* The variables keep their types, and the channel its capacity.           *)
THEOREM TypeCorrect == LoggerSafeSpec => []LoggerTypeOK
  BY Invariance, PTL DEF Sound

(* A batch is written when it reaches BatchFlushThreshold.                 *)
THEOREM BatchStaysSmall == LoggerSafeSpec => []BatchBounded
  BY Invariance, PTL DEF Sound

-----------------------------------------------------------------------------
(* Sequences: what Append, Tail and \o do to the members, and the two ways *)
(* in which the loop moves entries along.                                  *)
LEMMA RangeOfAppend ==
    ASSUME NEW S, NEW s \in Seq(S), NEW x \in S
    PROVE  Range(Append(s, x)) = Range(s) \cup {x}
  <1>1. \A i \in DOMAIN Append(s, x) : Append(s, x)[i] \in Range(s) \cup {x}
    BY DEF Range
  <1>2. \A i \in DOMAIN s : i \in DOMAIN Append(s, x) /\ Append(s, x)[i] = s[i]
    OBVIOUS
  <1>3. Len(s) + 1 \in DOMAIN Append(s, x) /\ Append(s, x)[Len(s) + 1] = x
    OBVIOUS
  <1> QED
    BY <1>1, <1>2, <1>3, Zenon DEF Range

LEMMA RangeOfConcat ==
    ASSUME NEW S, NEW s \in Seq(S), NEW t \in Seq(S)
    PROVE  Range(s \o t) = Range(s) \cup Range(t)
  <1>1. Range(s \o t) \subseteq Range(s) \cup Range(t)
    BY DEF Range
  <1>2. Range(s) \subseteq Range(s \o t)
    <2> SUFFICES ASSUME NEW i \in DOMAIN s PROVE s[i] \in Range(s \o t)
      BY DEF Range
    <2>1. i \in DOMAIN (s \o t) /\ (s \o t)[i] = s[i]
      OBVIOUS
    <2> QED
      BY <2>1 DEF Range
  <1>3. Range(t) \subseteq Range(s \o t)
    <2> SUFFICES ASSUME NEW i \in DOMAIN t PROVE t[i] \in Range(s \o t)
      BY DEF Range
    <2>1. Len(s) + i \in DOMAIN (s \o t) /\ (s \o t)[Len(s) + i] = t[i]
      OBVIOUS
    <2> QED
      BY <2>1 DEF Range
  <1> QED
    BY <1>1, <1>2, <1>3

LEMMA RangeOfTail ==
    ASSUME NEW S, NEW s \in Seq(S), s # <<>>
    PROVE  Head(s) \in Range(s) /\ Range(Tail(s)) \subseteq Range(s)
  <1>1. Head(s) \in Range(s)
    BY DEF Range
  <1>2. ASSUME NEW i \in DOMAIN Tail(s) PROVE Tail(s)[i] \in Range(s)
    <2>1. i + 1 \in DOMAIN s /\ Tail(s)[i] = s[i + 1]
      OBVIOUS
    <2> QED
      BY <2>1 DEF Range
  <1> QED
    BY <1>1, <1>2 DEF Range

LEMMA ConcatAppend ==
    ASSUME NEW S, NEW s \in Seq(S), NEW t \in Seq(S), NEW x \in S
    PROVE  s \o Append(t, x) = Append(s \o t, x)
  OBVIOUS

LEMMA MoveOne ==
    ASSUME NEW S, NEW s \in Seq(S), NEW t \in Seq(S), t # <<>>
    PROVE  Append(s, Head(t)) \o Tail(t) = s \o t
  OBVIOUS

LEMMA SplitConcat ==
    ASSUME NEW S, NEW s \in Seq(S), NEW t \in Seq(S)
    PROVE  /\ SubSeq(s \o t, 1, Len(s)) = s
           /\ SubSeq(s \o t, Len(s) + 1, Len(s \o t)) = t
  OBVIOUS

LEMMA EmptyConcat ==
    ASSUME NEW S, NEW s \in Seq(S)
    PROVE  s \o <<>> = s /\ <<>> \o s = s
  OBVIOUS

-----------------------------------------------------------------------------
(* The loggers implement LogSink.                                          *)

(* The entry of a call that has not sent or refused it yet is nowhere.     *)
Fresh ==
    \A e \in Entries : write[e] \in {"new", "checked", "registered", "sending"} =>
        /\ e \notin refused
        /\ e \notin Range(batch) \cup Range(buffer)
        /\ e \notin Range(handed)

LEMMA WriteFresh ==
    ASSUME NEW e \in Entries, Sound, Fresh, WriteStep(e)
    PROVE  Fresh'
  <1> USE DEF callVars
  <1>0. write \in [Entries -> Calls]
    BY DEF Sound, LoggerTypeOK
  <1>1. CASE SendEntry(e)
    <2>1. buffer \in Seq(Entries) /\ Range(Append(buffer, e)) = Range(buffer) \cup {e}
      BY RangeOfAppend DEF Sound, LoggerTypeOK
    <2>2. write' = [write EXCEPT ![e] = "done"] /\ batch' = batch /\ handed' = handed
      BY <1>1 DEF SendEntry, Goes
    <2>3. Range(buffer') \subseteq Range(buffer) \cup {e} /\ refused' \subseteq refused \cup {e}
      BY <1>1, <2>1, Zenon DEF SendEntry
    <2> QED
      BY <1>0, <2>2, <2>3 DEF Fresh
  <1>2. CASE ~SendEntry(e)
    <2>1. write' \in {[write EXCEPT ![e] = "returned"], [write EXCEPT ![e] = "checked"],
                      [write EXCEPT ![e] = "leaked"], [write EXCEPT ![e] = "registered"],
                      [write EXCEPT ![e] = "done"], [write EXCEPT ![e] = "sending"],
                      [write EXCEPT ![e] = "waking"], [write EXCEPT ![e] = "donePanicked"]}
      BY <1>2 DEF WriteStep, CheckClosed, RegisterWrite, CheckAgain, Done, Wake, Goes
    <2>2. batch' = batch /\ buffer' = buffer /\ handed' = handed
      BY <1>2 DEF WriteStep, CheckClosed, RegisterWrite, CheckAgain, Done, Wake
    <2>3. \/ refused' = refused
          \/ refused' = refused \cup {e} /\ write'[e] \in {"returned", "done"}
      BY <1>0, <1>2 DEF WriteStep, CheckClosed, RegisterWrite, CheckAgain, Done, Wake, Goes
    <2>4. write'[e] \in {"checked", "registered", "sending"}
             => write[e] \in {"new", "checked", "registered", "sending"}
      BY <1>0, <1>2 DEF WriteStep, CheckClosed, RegisterWrite, CheckAgain, Done, Wake, Goes
    <2> QED
      BY <1>0, <2>1, <2>2, <2>3, <2>4 DEF Fresh
  <1> QED
    BY <1>1, <1>2

LEMMA LoopFresh ==
    ASSUME Sound, Fresh, LoopStep \/ Ticker
    PROVE  Fresh'
  <1> USE DEF callVars
  <1>0. batch \in Seq(Entries) /\ buffer \in Seq(Entries) /\ handed \in Seq(Entries)
    BY DEF Sound, LoggerTypeOK
  <1>1. Range(<<>>) = {}
    BY DEF Range
  <1>2. Range(handed \o batch) = Range(handed) \cup Range(batch)
    BY <1>0, RangeOfConcat
  <1>3. ASSUME buffer # <<>>
        PROVE  /\ Range(Append(batch, Head(buffer))) \subseteq Range(batch) \cup Range(buffer)
               /\ Range(handed \o Append(batch, Head(buffer)))
                    \subseteq Range(handed) \cup Range(batch) \cup Range(buffer)
               /\ Range(Tail(buffer)) \subseteq Range(buffer)
    <2>1. Head(buffer) \in Range(buffer) /\ Range(Tail(buffer)) \subseteq Range(buffer)
      BY <1>0, <1>3, RangeOfTail
    <2>2. Head(buffer) \in Entries /\ Append(batch, Head(buffer)) \in Seq(Entries)
      BY <1>0, <1>3
    <2>3. Range(Append(batch, Head(buffer))) = Range(batch) \cup {Head(buffer)}
      BY <1>0, <2>2, RangeOfAppend
    <2>4. Range(handed \o Append(batch, Head(buffer)))
            = Range(handed) \cup Range(Append(batch, Head(buffer)))
      BY <1>0, <2>2, RangeOfConcat
    <2> QED
      BY <2>1, <2>3, <2>4
  <1>4. /\ write' = write /\ refused' = refused
        /\ Range(batch') \subseteq Range(batch) \cup Range(buffer)
        /\ Range(buffer') \subseteq Range(buffer)
        /\ Range(handed') \subseteq Range(handed) \cup Range(batch) \cup Range(buffer)
    <2>1. CASE ReceiveEntry
      <3>1. write' = write /\ refused' = refused /\ buffer # <<>> /\ buffer' = Tail(buffer)
        BY <2>1 DEF ReceiveEntry
      <3>2. \/ handed' = handed \o Append(batch, Head(buffer)) /\ batch' = <<>>
            \/ batch' = Append(batch, Head(buffer)) /\ handed' = handed
        BY <2>1, Zenon DEF ReceiveEntry
      <3> QED
        BY <1>1, <1>3, <3>1, <3>2
    <2>2. CASE Stop
      BY <2>2 DEF Stop
    <2>3. CASE DrainOne
      <3>1. write' = write /\ refused' = refused /\ buffer # <<>> /\ buffer' = Tail(buffer)
            /\ batch' = Append(batch, Head(buffer)) /\ handed' = handed
        BY <2>3 DEF DrainOne
      <3> QED
        BY <1>3, <3>1
    <2>4. CASE FinalFlush \/ Ticker
      <3>1. write' = write /\ refused' = refused /\ buffer' = buffer
            /\ batch' = <<>> /\ handed' = handed \o batch
        BY <2>4 DEF FinalFlush, Ticker
      <3> QED
        BY <1>1, <1>2, <3>1
    <2> QED
      BY <2>1, <2>2, <2>3, <2>4 DEF LoopStep
  <1> QED
    BY <1>4 DEF Fresh

LEMMA FreshInvariance == LoggerSafeSpec => [](Sound /\ Fresh)
  <1>1. LoggerInit => Sound /\ Fresh
    <2>1. Range(<<>>) = {}
      BY DEF Range
    <2> QED
      BY <2>1, InitSound DEF LoggerInit, Fresh
  <1>2. Sound /\ Fresh /\ Sound' /\ [LoggerNext]_loggerVars => Fresh'
    <2> SUFFICES ASSUME Sound, Fresh, [LoggerNext]_loggerVars PROVE Fresh'
      OBVIOUS
    <2>1. CASE \E e \in Entries : WriteStep(e)
      BY <2>1, WriteFresh
    <2>2. CASE Swap \/ CloseStep \/ UNCHANGED loggerVars
      <3>1. write' = write /\ refused' = refused /\ batch' = batch /\ buffer' = buffer
            /\ handed' = handed
        BY <2>2 DEF Swap, CloseStep, Wait, Resume, Signal, ReturnFromClose, loggerVars, callVars
      <3> QED
        BY <3>1, Zenon DEF Fresh
    <2>3. CASE LoopStep \/ Ticker
      BY <2>3, LoopFresh
    <2> QED
      BY <2>1, <2>2, <2>3 DEF LoggerNext
  <1> QED
    BY <1>1, <1>2, Invariance, PTL DEF LoggerSafeSpec

-----------------------------------------------------------------------------
(* Every entry is accounted for.  The trail is what was handed over, what  *)
(* the loop holds and what waits in the buffer: the loop only moves its    *)
(* two dividing lines, and Write appends to its end.                       *)
Queue == batch \o buffer
Trail == handed \o Queue

Injective(s) == \A i, j \in DOMAIN s : s[i] = s[j] => i = j

Accounted ==
    /\ Injective(Trail)
    /\ refused \cap Range(Trail) = {}
    /\ \A e \in Entries : Answered(e) => e \in refused \cup Range(Trail)

LEMMA ConcatAssoc ==
    ASSUME NEW S, NEW s \in Seq(S), NEW t \in Seq(S), NEW u \in Seq(S)
    PROVE  (s \o t) \o u = s \o (t \o u)
  OBVIOUS

LEMMA AppendInjective ==
    ASSUME NEW S, NEW s \in Seq(S), NEW x \in S, Injective(s), x \notin Range(s)
    PROVE  Injective(Append(s, x))
  <1>1. \A i \in DOMAIN s : s[i] # x
    BY DEF Range
  <1> QED
    BY <1>1 DEF Injective

LEMMA TrailRange ==
    ASSUME Sound
    PROVE  /\ Trail \in Seq(Entries)
           /\ Range(Trail) = Range(handed) \cup Range(batch) \cup Range(buffer)
  <1>1. batch \in Seq(Entries) /\ buffer \in Seq(Entries) /\ handed \in Seq(Entries)
    BY DEF Sound, LoggerTypeOK
  <1>2. Queue \in Seq(Entries) /\ Range(Queue) = Range(batch) \cup Range(buffer)
    BY <1>1, RangeOfConcat DEF Queue
  <1>3. Range(Trail) = Range(handed) \cup Range(Queue)
    BY <1>1, <1>2, RangeOfConcat DEF Trail
  <1> QED
    BY <1>1, <1>2, <1>3 DEF Trail

LEMMA LoopKeepsTrail ==
    ASSUME Sound, LoopStep \/ Ticker
    PROVE  Trail' = Trail /\ write' = write /\ refused' = refused
  <1> USE DEF callVars
  <1>0. batch \in Seq(Entries) /\ buffer \in Seq(Entries) /\ handed \in Seq(Entries)
        /\ <<>> \in Seq(Entries)
    BY DEF Sound, LoggerTypeOK
  <1>1. ASSUME buffer # <<>>
        PROVE  /\ Append(batch, Head(buffer)) \in Seq(Entries) /\ Tail(buffer) \in Seq(Entries)
               /\ Append(batch, Head(buffer)) \o Tail(buffer) = Queue
    BY <1>0, <1>1, MoveOne DEF Queue
  <1>2. CASE ReceiveEntry
    <2>1. write' = write /\ refused' = refused /\ buffer # <<>> /\ buffer' = Tail(buffer)
      BY <1>2 DEF ReceiveEntry
    <2>2. CASE handed' = handed \o Append(batch, Head(buffer)) /\ batch' = <<>>
      <3>1. Queue' = Tail(buffer)
        BY <1>1, <2>1, <2>2, EmptyConcat DEF Queue
      <3>2. Trail' = (handed \o Append(batch, Head(buffer))) \o Tail(buffer)
        BY <2>2, <3>1, Zenon DEF Trail
      <3>3. (handed \o Append(batch, Head(buffer))) \o Tail(buffer)
              = handed \o (Append(batch, Head(buffer)) \o Tail(buffer))
        <4> DEFINE more == Append(batch, Head(buffer))
        <4> DEFINE rest == Tail(buffer)
        <4>1. more \in Seq(Entries) /\ rest \in Seq(Entries) /\ handed \in Seq(Entries)
          BY <1>0, <1>1, <2>1
        <4> HIDE DEF more, rest
        <4>2. (handed \o more) \o rest = handed \o (more \o rest)
          BY <4>1, ConcatAssoc
        <4> QED
          BY <4>2 DEF more, rest
      <3> QED
        BY <1>1, <2>1, <3>2, <3>3, Zenon DEF Trail
    <2>3. CASE batch' = Append(batch, Head(buffer)) /\ handed' = handed
      BY <1>1, <2>1, <2>3, Zenon DEF Trail, Queue
    <2> QED
      BY <1>2, <2>2, <2>3, Zenon DEF ReceiveEntry
  <1>3. CASE Stop
    BY <1>3 DEF Stop, Trail, Queue
  <1>4. CASE DrainOne
    <2>1. write' = write /\ refused' = refused /\ buffer # <<>> /\ buffer' = Tail(buffer)
          /\ batch' = Append(batch, Head(buffer)) /\ handed' = handed
      BY <1>4 DEF DrainOne
    <2> QED
      BY <1>1, <2>1, Zenon DEF Trail, Queue
  <1>5. CASE FinalFlush \/ Ticker
    <2>1. write' = write /\ refused' = refused /\ buffer' = buffer
          /\ batch' = <<>> /\ handed' = handed \o batch
      BY <1>5 DEF FinalFlush, Ticker
    <2>2. Queue' = buffer
      BY <1>0, <2>1, EmptyConcat DEF Queue
    <2>3. Trail' = (handed \o batch) \o buffer
      BY <2>1, <2>2, Zenon DEF Trail
    <2>4. Trail' = handed \o (batch \o buffer)
      BY <1>0, <2>3, ConcatAssoc
    <2> QED
      BY <2>1, <2>4, Zenon DEF Trail, Queue
  <1> QED
    BY <1>2, <1>3, <1>4, <1>5 DEF LoopStep

LEMMA WriteAccounted ==
    ASSUME NEW e \in Entries, Sound, Fresh, Accounted, WriteStep(e)
    PROVE  Accounted'
  <1> USE DEF callVars
  <1>0. write \in [Entries -> Calls]
    BY DEF Sound, LoggerTypeOK
  <1>1. Trail \in Seq(Entries) /\ Range(Trail) = Range(handed) \cup Range(batch) \cup Range(buffer)
    BY TrailRange
  <1>2. ASSUME write[e] \in {"new", "checked", "registered", "sending"}
        PROVE  e \notin refused /\ e \notin Range(Trail)
    BY <1>1, <1>2 DEF Fresh
  <1>3. \A f \in Entries \ {e} : write'[f] = write[f]
    BY <1>0, Zenon DEF WriteStep, CheckClosed, RegisterWrite, CheckAgain, SendEntry, Done, Wake, Goes
  (* The call refuses its entry ...                                        *)
  <1>4. ASSUME Trail' = Trail, refused' = refused \cup {e}, e \notin Range(Trail)
        PROVE  Accounted'
    BY <1>3, <1>4 DEF Accounted, Answered
  (* ... or puts it at the end of the trail ...                            *)
  <1>5. ASSUME Trail' = Append(Trail, e), refused' = refused,
               e \notin refused, e \notin Range(Trail)
        PROVE  Accounted'
    <2>1. Range(Trail') = Range(Trail) \cup {e} /\ Injective(Trail')
      BY <1>1, <1>5, RangeOfAppend, AppendInjective DEF Accounted
    <2> QED
      BY <1>3, <1>5, <2>1 DEF Accounted, Answered
  (* ... or has done so before, or not yet.                                *)
  <1>6. ASSUME Trail' = Trail, refused' = refused, Answered(e)' => Answered(e)
        PROVE  Accounted'
    BY <1>3, <1>6 DEF Accounted, Answered
  <1>7. CASE SendEntry(e)
    <2>1. e \notin refused /\ e \notin Range(Trail)
      BY <1>2, <1>7 DEF SendEntry
    <2>2. batch' = batch /\ handed' = handed
      BY <1>7 DEF SendEntry
    <2>3. CASE buffer' = Append(buffer, e) /\ refused' = refused
      <3>1. batch \in Seq(Entries) /\ buffer \in Seq(Entries) /\ handed \in Seq(Entries)
            /\ Queue \in Seq(Entries)
        BY DEF Sound, LoggerTypeOK, Queue
      <3>2. Queue' = Append(Queue, e)
        BY <2>2, <2>3, <3>1, ConcatAppend DEF Queue
      <3>3. Trail' = handed \o Append(Queue, e)
        BY <2>2, <3>2, Zenon DEF Trail
      <3>4. Trail' = Append(Trail, e)
        BY <3>1, <3>3, ConcatAppend DEF Trail
      <3> QED
        BY <1>5, <2>1, <2>3, <3>4
    <2>4. CASE buffer' = buffer /\ refused' = refused \cup {e}
      <3>1. Trail' = Trail
        BY <2>2, <2>4, Zenon DEF Trail, Queue
      <3> QED
        BY <1>4, <2>1, <2>4, <3>1
    <2> QED
      BY <1>7, <2>3, <2>4, Zenon DEF SendEntry
  <1>8. CASE ~SendEntry(e)
    <2>1. batch' = batch /\ buffer' = buffer /\ handed' = handed
      BY <1>8 DEF WriteStep, CheckClosed, RegisterWrite, CheckAgain, Done, Wake
    <2>2. Trail' = Trail
      BY <2>1, Zenon DEF Trail, Queue
    <2>3. CASE /\ refused' = refused \cup {e}
               /\ write[e] \in {"new", "checked", "registered", "sending"}
      BY <1>2, <1>4, <2>2, <2>3
    <2>4. CASE refused' = refused /\ (Answered(e)' => Answered(e))
      BY <1>6, <2>2, <2>4
    <2> QED
      BY <1>0, <1>8, <2>3, <2>4
         DEF WriteStep, CheckClosed, RegisterWrite, CheckAgain, Done, Wake, Goes, Answered
  <1> QED
    BY <1>7, <1>8

LEMMA AccountedInvariance == LoggerSafeSpec => [](Sound /\ Accounted)
  <1>1. LoggerInit => Accounted
    BY DEF LoggerInit, Accounted, Injective, Trail, Queue, Answered, Range
  <1>2. Sound /\ Fresh /\ Accounted /\ [LoggerNext]_loggerVars => Accounted'
    <2> SUFFICES ASSUME Sound, Fresh, Accounted, [LoggerNext]_loggerVars PROVE Accounted'
      OBVIOUS
    <2>1. CASE \E e \in Entries : WriteStep(e)
      BY <2>1, WriteAccounted
    <2>2. CASE Swap \/ CloseStep \/ UNCHANGED loggerVars
      <3>1. write' = write /\ refused' = refused /\ batch' = batch /\ buffer' = buffer
            /\ handed' = handed
        BY <2>2 DEF Swap, CloseStep, Wait, Resume, Signal, ReturnFromClose, loggerVars, callVars
      <3> QED
        BY <3>1, Zenon DEF Accounted, Trail, Queue, Answered
    <2>3. CASE LoopStep \/ Ticker
      <3>1. Trail' = Trail /\ write' = write /\ refused' = refused
        BY <2>3, LoopKeepsTrail
      <3> QED
        BY <3>1, Zenon DEF Accounted, Answered
    <2> QED
      BY <2>1, <2>2, <2>3 DEF LoggerNext
  <1> QED
    BY <1>1, <1>2, FreshInvariance, PTL DEF LoggerSafeSpec

(* When flushLoop has returned, nothing taken is still in the buffer or in *)
(* the batch, no call of Write can put anything there, and every entry     *)
(* whose call got as far as an answer is in the store or was refused, not  *)
(* both (logger.go:116).                                                   *)
THEOREM NothingLeft == LoggerSafeSpec => []NothingLeftBehind
  <1>1. ASSUME Sound, Accounted, loop = "exited"
        PROVE  \A e \in Entries : Answered(e) => ((e \in refused) <=> (e \notin Range(handed)))
    <2>1. buffer = <<>> /\ batch = <<>> /\ handed \in Seq(Entries)
      BY <1>1 DEF Sound, LoopAfterSignal, LoggerTypeOK
    <2>2. Range(<<>>) = {}
      BY DEF Range
    <2>3. Range(Trail) = Range(handed)
      BY <1>1, <2>1, <2>2, TrailRange
    <2> QED
      BY <1>1, <2>3 DEF Accounted
  <1>2. Sound /\ Accounted => NothingLeftBehind
    BY <1>1 DEF Sound, SendingHoldsClose, LoopAfterSignal, NothingLeftBehind
  <1> QED
    BY <1>2, AccountedInvariance, PTL

(* No entry is handed to the store twice, whatever batches it went         *)
(* through, and none that Write reported as dropped (logger.go:52).        *)
HandedOnce == Injective(handed) /\ refused \cap Range(handed) = {}

THEOREM StoredOnce == LoggerSafeSpec => []HandedOnce
  <1>1. Sound /\ Accounted => HandedOnce
    <2> SUFFICES ASSUME Sound, Accounted PROVE HandedOnce
      OBVIOUS
    <2>1. handed \in Seq(Entries) /\ Queue \in Seq(Entries)
      BY DEF Sound, LoggerTypeOK, Queue
    <2>2. \A i \in DOMAIN handed : i \in DOMAIN Trail /\ Trail[i] = handed[i]
      BY <2>1 DEF Trail
    <2>3. Injective(handed)
      BY <2>2, Zenon DEF Accounted, Injective
    <2> QED
      BY <2>3, TrailRange DEF HandedOnce, Accounted
  <1> QED
    BY <1>1, AccountedInvariance, PTL

(* Once Close has returned the store has seen its last batch: it is closed *)
(* by then (logger.go:135).                                                *)
LateNothing == [][close = "returned" => handed' = handed]_loggerVars

THEOREM NothingAfterClose == LoggerSafeSpec => LateNothing
  <1>1. Sound /\ [LoggerNext]_loggerVars => [close = "returned" => handed' = handed]_loggerVars
    <2> SUFFICES ASSUME Sound, [LoggerNext]_loggerVars, close = "returned" PROVE handed' = handed
      OBVIOUS
    <2>1. loop = "exited"
      BY DEF Sound, LoopAfterSignal
    <2> QED
      BY <2>1, Zenon DEF LoggerNext, WriteStep, CheckClosed, RegisterWrite, CheckAgain, SendEntry, Done, Wake,
         Swap, CloseStep, Wait, Resume, Signal, ReturnFromClose, LoopStep, ReceiveEntry, Stop, DrainOne,
         FinalFlush, Ticker, loggerVars
  <1> QED
    BY <1>1, Invariance, PTL DEF LoggerSafeSpec, LateNothing

-----------------------------------------------------------------------------
(* What the store side sees of a step.                                     *)
Shut  == close = "returned"

LEMMA InitRefines == LoggerInit => Sink!Init
  <1>1. <<>> \o <<>> = <<>>
    OBVIOUS
  <1> QED
    BY <1>1 DEF LoggerInit, Sink!Init

(* A step that keeps the observed state is a stutter.                      *)
LEMMA Stutters ==
    ASSUME refused' = refused, Queue' = Queue, handed' = handed, Shut' = Shut
    PROVE  UNCHANGED Sink!vars
  BY DEF Sink!vars, Queue, Shut

LEMMA WriteRefines ==
    ASSUME NEW e \in Entries, Sound, Fresh, WriteStep(e)
    PROVE  [Sink!Next]_(Sink!vars)
  <1> USE DEF callVars
  <1>1. batch \in Seq(Entries) /\ buffer \in Seq(Entries)
    BY DEF Sound, LoggerTypeOK
  <1>2. write[e] \in {"new", "registered", "sending"} => Sink!Unseen(e)
    <2>1. Range(batch \o buffer) = Range(batch) \cup Range(buffer)
      BY <1>1, RangeOfConcat
    <2> QED
      BY <2>1 DEF Fresh, Sink!Unseen, Sink!Range, Range
  <1>3. ASSUME batch' = batch, buffer' = buffer, handed' = handed, Shut' = Shut,
               refused' = refused \/ (Sink!Unseen(e) /\ refused' = refused \cup {e})
        PROVE  [Sink!Next]_(Sink!vars)
    <2>1. CASE refused' = refused
      BY <1>3, <2>1, Stutters DEF Queue
    <2>2. CASE Sink!Unseen(e) /\ refused' = refused \cup {e}
      <3>1. Sink!Refuse(e)
        BY <1>3, <2>2, Zenon DEF Sink!Refuse, Shut
      <3> QED
        BY <3>1 DEF Sink!Next
    <2> QED
      BY <1>3, <2>1, <2>2
  <1>4. CASE CheckClosed(e) \/ RegisterWrite(e) \/ CheckAgain(e) \/ Done(e)
    <2>1. batch' = batch /\ buffer' = buffer /\ handed' = handed /\ close' = close
      BY <1>4 DEF CheckClosed, RegisterWrite, CheckAgain, Done
    <2>2. refused' = refused \/ (Sink!Unseen(e) /\ refused' = refused \cup {e})
      BY <1>2, <1>4 DEF CheckClosed, RegisterWrite, CheckAgain, Done
    <2> QED
      BY <1>3, <2>1, <2>2 DEF Shut
  <1>5. CASE Wake(e)
    <2>1. close = "waiting" /\ close' # "returned"
      BY <1>5 DEF Wake, Sound, WakingAlone
    <2>2. batch' = batch /\ buffer' = buffer /\ handed' = handed /\ refused' = refused
      BY <1>5 DEF Wake
    <2> QED
      BY <1>3, <2>1, <2>2 DEF Shut
  <1>6. CASE SendEntry(e)
    <2>1. Sink!Unseen(e) /\ ~Shut /\ close' = close /\ batch' = batch /\ handed' = handed
      BY <1>2, <1>6 DEF SendEntry, Sound, SendingHoldsClose, Shut
    <2>2. CASE buffer' = buffer /\ refused' = refused \cup {e}
      BY <1>3, <2>1, <2>2 DEF Shut
    <2>3. CASE buffer' = Append(buffer, e) /\ refused' = refused
      <3>1. batch' \o buffer' = Append(batch \o buffer, e)
        BY <1>1, <2>1, <2>3, ConcatAppend
      <3>2. Sink!Take(e)
        BY <2>1, <2>3, <3>1, Zenon DEF Sink!Take, Shut
      <3> QED
        BY <3>2 DEF Sink!Next
    <2> QED
      BY <1>6, <2>2, <2>3 DEF SendEntry
  <1> QED
    BY <1>4, <1>5, <1>6 DEF WriteStep

LEMMA CloseRefines ==
    ASSUME Sound, Swap \/ CloseStep
    PROVE  [Sink!Next]_(Sink!vars)
  <1> USE DEF callVars
  <1>0. refused' = refused /\ batch' = batch /\ buffer' = buffer /\ handed' = handed
    BY DEF Swap, CloseStep, Wait, Resume, Signal, ReturnFromClose
  <1>1. CASE ReturnFromClose
    <2>1. batch = <<>> /\ buffer = <<>> /\ close # "returned" /\ close' = "returned"
      BY <1>1 DEF ReturnFromClose, Sound, LoopAfterSignal
    <2>2. batch \o buffer = <<>> /\ batch' \o buffer' = batch \o buffer
      BY <1>0, <2>1
    <2>3. Sink!Shut
      BY <1>0, <2>1, <2>2, Zenon DEF Sink!Shut
    <2> QED
      BY <2>3 DEF Sink!Next
  <1>2. CASE ~ReturnFromClose
    <2>1. close # "returned" /\ close' # "returned"
      BY <1>2 DEF Swap, CloseStep, Wait, Resume, Signal
    <2> QED
      BY <1>0, <2>1, Stutters DEF Queue, Shut
  <1> QED
    BY <1>1, <1>2

(* The loop hands over the batch it had, or the one it completes.          *)
LEMMA HandsPrefix ==
    ASSUME NEW s \in Seq(Entries), NEW t \in Seq(Entries), s # <<>>,
           s \o t = Queue, handed' = handed \o s, Queue' = t,
           refused' = refused, Shut' = Shut
    PROVE  Sink!Next
  <1>1. Len(s) \in 1..Len(Queue)
    BY DEF Queue
  <1>2. SubSeq(Queue, 1, Len(s)) = s /\ SubSeq(Queue, Len(s) + 1, Len(Queue)) = t
    BY SplitConcat
  <1>3. Sink!Hand(Len(s))
    BY <1>2, Zenon DEF Sink!Hand, Queue, Shut
  <1> QED
    BY <1>1, <1>3 DEF Sink!Next, Queue

LEMMA LoopRefines ==
    ASSUME Sound, LoopStep \/ Ticker
    PROVE  [Sink!Next]_(Sink!vars)
  <1> USE DEF callVars
  <1>0. batch \in Seq(Entries) /\ buffer \in Seq(Entries) /\ handed \in Seq(Entries)
    BY DEF Sound, LoggerTypeOK
  <1>1. refused' = refused /\ Shut' = Shut
    BY DEF LoopStep, ReceiveEntry, Ticker, Stop, DrainOne, FinalFlush, Shut
  <1>2. ASSUME buffer # <<>>
        PROVE  /\ Append(batch, Head(buffer)) \in Seq(Entries) /\ Tail(buffer) \in Seq(Entries)
               /\ Append(batch, Head(buffer)) # <<>>
               /\ Append(batch, Head(buffer)) \o Tail(buffer) = Queue
    BY <1>0, <1>2, MoveOne DEF Queue
  <1>3. ASSUME buffer # <<>>, buffer' = Tail(buffer), handed' = handed,
               batch' = Append(batch, Head(buffer))
        PROVE  UNCHANGED Sink!vars
    <2>1. Queue' = Queue
      BY <1>2, <1>3 DEF Queue
    <2> QED
      BY <1>1, <1>3, <2>1, Stutters
  <1>4. CASE ReceiveEntry
    <2>1. buffer # <<>> /\ buffer' = Tail(buffer)
      BY <1>4 DEF ReceiveEntry
    <2>2. CASE batch' = Append(batch, Head(buffer)) /\ handed' = handed
      BY <1>3, <2>1, <2>2
    <2>3. CASE batch' = <<>> /\ handed' = handed \o Append(batch, Head(buffer))
      <3>1. Queue' = Tail(buffer)
        BY <1>2, <2>1, <2>3, EmptyConcat DEF Queue
      <3> QED
        BY <1>1, <1>2, <2>1, <2>3, <3>1, HandsPrefix
    <2> QED
      BY <1>4, <2>2, <2>3, Zenon DEF ReceiveEntry
  <1>5. CASE DrainOne
    BY <1>3, <1>5 DEF DrainOne
  <1>6. CASE Stop
    BY <1>1, <1>6, Stutters DEF Stop, Queue
  <1>7. CASE FinalFlush \/ Ticker
    <2>1. buffer' = buffer /\ batch' = <<>> /\ handed' = handed \o batch
      BY <1>7 DEF FinalFlush, Ticker
    <2>2. Queue' = buffer
      BY <1>0, <2>1, EmptyConcat DEF Queue
    <2>3. CASE batch = <<>>
      <3>1. Queue' = Queue /\ handed' = handed
        BY <1>0, <2>1, <2>2, <2>3, EmptyConcat DEF Queue
      <3> QED
        BY <1>1, <3>1, Stutters
    <2>4. CASE batch # <<>>
      BY <1>0, <1>1, <2>1, <2>2, <2>4, HandsPrefix DEF Queue
    <2> QED
      BY <2>3, <2>4
  <1> QED
    BY <1>4, <1>5, <1>6, <1>7 DEF LoopStep

(* Entries are taken or refused once, handed over in the order taken, and  *)
(* Close returns only when nothing taken is left.                          *)
THEOREM Refinement == LoggerSafeSpec => ImplementsSink
  <1>1. LoggerInit => Sink!Init
    BY InitRefines
  <1>2. Sound /\ Fresh /\ [LoggerNext]_loggerVars => [Sink!Next]_(Sink!vars)
    <2> SUFFICES ASSUME Sound, Fresh, [LoggerNext]_loggerVars PROVE [Sink!Next]_(Sink!vars)
      OBVIOUS
    <2>1. CASE \E e \in Entries : WriteStep(e)
      BY <2>1, WriteRefines
    <2>2. CASE Swap \/ CloseStep
      BY <2>2, CloseRefines
    <2>3. CASE LoopStep \/ Ticker
      BY <2>3, LoopRefines
    <2>4. CASE UNCHANGED loggerVars
      BY <2>4, Stutters DEF loggerVars, callVars, Queue, Shut
    <2> QED
      BY <2>1, <2>2, <2>3, <2>4 DEF LoggerNext
  <1> QED
    BY <1>1, <1>2, FreshInvariance, PTL DEF LoggerSafeSpec, ImplementsSink, Sink!Spec
=============================================================================
