------------------------------ MODULE LogSink ------------------------------
(***************************************************************************)
(* What the request paths are promised by the asynchronous loggers of the  *)
(* audit trail and of the usage records: an entry is taken or refused on   *)
(* the spot; what was taken reaches the store once, in the order taken;    *)
(* and when Close has returned nothing taken is left behind and nothing    *)
(* will be taken any more.                                                 *)
(***************************************************************************)
EXTENDS Integers, Sequences, Functions

CONSTANT Entries

VARIABLES
    refused,            \* entries turned away
    queue,              \* entries taken and not yet handed to the store
    handed,             \* entries handed to the store, in order
    shut                \* Close has returned

vars == <<refused, queue, handed, shut>>

Init == refused = {} /\ queue = <<>> /\ handed = <<>> /\ shut = FALSE

Unseen(e) == e \notin refused \cup Range(queue) \cup Range(handed)

Take(e) ==
    /\ Unseen(e) /\ ~shut
    /\ queue' = Append(queue, e)
    /\ UNCHANGED <<refused, handed, shut>>

Refuse(e) ==
    /\ Unseen(e)
    /\ refused' = refused \cup {e}
    /\ UNCHANGED <<queue, handed, shut>>

(* A batch is some of the oldest entries.                                  *)
Hand(n) ==
    /\ handed' = handed \o SubSeq(queue, 1, n)
    /\ queue' = SubSeq(queue, n + 1, Len(queue))
    /\ UNCHANGED <<refused, shut>>

Shut ==
    /\ ~shut /\ queue = <<>>
    /\ shut' = TRUE
    /\ UNCHANGED <<refused, queue, handed>>

Next ==
    \/ \E e \in Entries : Take(e) \/ Refuse(e)
    \/ \E n \in 1..Len(queue) : Hand(n)
    \/ Shut

Spec == Init /\ [][Next]_vars
=============================================================================
