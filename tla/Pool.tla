-------------------------------- MODULE Pool --------------------------------
(***************************************************************************)
(* One provider pool (src/internal/providers/pool), the router's loop over *)
(* its members (src/internal/providers/router.go) and the rebuild that     *)
(* replaces the pool under the requests that use it.                       *)
(*                                                                         *)
(* A request holds on to the pool it found first.  Pick reads the health   *)
(* of the members one by one, each under the model registry's lock, and    *)
(* then chooses and counts: a step per member and a step for the choice.   *)
(* Replace carries the counters over one atomic load at a time, with the   *)
(* pool registry locked for those who look a pool up but not for those     *)
(* who already have one.                                                   *)
(***************************************************************************)
EXTENDS Integers, FiniteSets, Functions

CONSTANTS
    Members,            \* names of the configured providers
    Requests,           \* requests addressed to the pool, each sent once
    Capable,            \* the members that support what a request asks for
    Rank,               \* the place of a member in the pool's list
    Weight,             \* effectiveWeight; 1 for every member is round robin
    Shapes,             \* the member sets the configuration may give the pool
    MaxRebuilds,        \* bound on the number of rebuilds
    NoMember            \* no member chosen yet

Pools == 1..(MaxRebuilds + 1)

ASSUME PoolAssumption ==
    /\ IsFiniteSet(Members) /\ NoMember \notin Members
    /\ IsFiniteSet(Requests)
    /\ Capable \in [Requests -> SUBSET Members]
    /\ Rank \in [Members -> Nat] /\ \A m, k \in Members : Rank[m] = Rank[k] => m = k
    /\ Weight \in [Members -> Nat \ {0}]
    /\ Shapes # {} /\ Shapes \subseteq (SUBSET Members) \ {{}}
    /\ MaxRebuilds \in Nat

VARIABLES
    current,            \* the pool the registry maps the name to
    members,            \* Pool.members of every pool built so far
    totalRequests,      \* Member.totalRequests, by pool and member
    totalErrors,        \* Member.totalErrors
    rrIndex,            \* Pool.rrIndex
    healthy,            \* members whose last availability probe succeeded
    replace,            \* how far a Replace under way has come
    req,                \* what each request is doing
    steady,             \* history: members healthy since the request began, until it ends
    glimpsed            \* history: members seen healthy since this Pick began, until it ends

counters == <<totalRequests, totalErrors>>
history  == <<steady, glimpsed>>
vars     == <<current, members, counters, rrIndex, healthy, replace, req, history>>

Answers == {"none", "ok", "definite", "lastErr", "unavailable"}
Waiting == [phase |-> "new", pool |-> 1, tried |-> {}, left |-> {}, eligible |-> {},
            member |-> NoMember, lastErr |-> FALSE, answer |-> "none"]

(* The member of S that comes first in the pool's list.                    *)
IsFirst(m, S) == m \in S /\ \A k \in S : Rank[m] <= Rank[k]

-----------------------------------------------------------------------------
(* Selection.                                                              *)

WeightOf(S) == FoldFunctionOnSet(+, 0, Weight, S)

(* The counter's remainder falls into m's share of the total weight.  With *)
(* equal weights this is position idx % len of the list of eligible ones.  *)
HasTurn(m, eligible, idx) ==
    LET before == {k \in eligible : Rank[k] < Rank[m]}
        r      == idx % WeightOf(eligible)
    IN WeightOf(before) <= r /\ r < WeightOf(before) + Weight[m]

Advanced(eligible, idx) == IF Cardinality(eligible) = 1 THEN idx ELSE idx + 1

-----------------------------------------------------------------------------
Init ==
    /\ current = 1
    /\ \E s \in Shapes : members = [g \in Pools |-> IF g = 1 THEN s ELSE {}]
    /\ totalRequests = [g \in Pools |-> [m \in Members |-> 0]]
    /\ totalErrors = [g \in Pools |-> [m \in Members |-> 0]]
    /\ rrIndex = [g \in Pools |-> 0]
    /\ healthy = Members
    /\ replace = [step |-> "idle", left |-> {}]
    /\ req = [q \in Requests |-> Waiting]
    /\ steady = [q \in Requests |-> {}]
    /\ glimpsed = [q \in Requests |-> {}]

-----------------------------------------------------------------------------
(* A request in the router's loop.                                         *)

(* The eligible list of the first pass serves all the later ones.          *)
PickingFromList(r) ==
    IF r.tried = {}
      THEN [r EXCEPT !.phase = "picking", !.left = members[r.pool], !.member = NoMember]
      ELSE [r EXCEPT !.phase = "picking", !.eligible = @ \ r.tried, !.member = NoMember]

(* A fresh pass over the members: the next call of Pick.                   *)
Picking(r) == [r EXCEPT !.phase = "picking", !.left = members[r.pool],
                        !.eligible = {}, !.member = NoMember]

Ended(r, answer) == [r EXCEPT !.phase = "done", !.left = {}, !.eligible = {},
                              !.lastErr = FALSE, !.answer = answer]

(* The lookup waits for the lock while a Replace holds it.                 *)
Begin(q) ==
    /\ req[q].phase = "new"
    /\ replace.step = "idle"
    /\ req' = [req EXCEPT ![q] = Picking([@ EXCEPT !.pool = current])]
    /\ steady' = [steady EXCEPT ![q] = healthy]
    /\ glimpsed' = [glimpsed EXCEPT ![q] = healthy]
    /\ UNCHANGED <<current, members, counters, rrIndex, healthy, replace>>

IsEligible(q, m) == m \notin req[q].tried /\ m \in healthy /\ m \in Capable[q]

(* eligibleMembers looks at the next member of the list.                   *)
Examine(q) ==
    /\ req[q].phase = "picking"
    /\ \E m \in req[q].left :
         /\ IsFirst(m, req[q].left)
         /\ req' = [req EXCEPT ![q].left = @ \ {m},
                               ![q].eligible = IF IsEligible(q, m) THEN @ \cup {m} ELSE @]
    /\ UNCHANGED <<current, members, counters, rrIndex, healthy, replace, history>>

(* The choice is counted but the caller is not told of it.                 *)
ChooseUnnamed(q) ==
    LET g == req[q].pool
        eligible == req[q].eligible
    IN /\ req[q].phase = "picking" /\ req[q].left = {}
       /\ \E m \in eligible :
            /\ HasTurn(m, eligible, rrIndex[g])
            /\ totalRequests' = [totalRequests EXCEPT ![g][m] = @ + 1]
            /\ req' = [req EXCEPT ![q].phase = "calling", ![q].tried = @ \cup {m}]
       /\ rrIndex' = [rrIndex EXCEPT ![g] = Advanced(eligible, @)]
       /\ glimpsed' = [glimpsed EXCEPT ![q] = {}]
       /\ UNCHANGED <<current, members, totalErrors, healthy, replace, steady>>

Choose(q) ==
    LET g == req[q].pool
        eligible == req[q].eligible
    IN /\ req[q].phase = "picking" /\ req[q].left = {}
       /\ \E m \in eligible :
            /\ HasTurn(m, eligible, rrIndex[g])
            /\ totalRequests' = [totalRequests EXCEPT ![g][m] = @ + 1]
            /\ req' = [req EXCEPT ![q].phase = "calling", ![q].member = m,
                                  ![q].tried = @ \cup {m}]
       /\ rrIndex' = [rrIndex EXCEPT ![g] = Advanced(eligible, @)]
       /\ glimpsed' = [glimpsed EXCEPT ![q] = {}]
       /\ UNCHANGED <<current, members, totalErrors, healthy, replace, steady>>

(* With nobody to offer the loop goes round again, waiting for recovery.   *)
NothingEligibleWaits(q) ==
    /\ req[q].phase = "picking" /\ req[q].left = {} /\ req[q].eligible = {}
    /\ req' = [req EXCEPT ![q] = Picking(@)]
    /\ glimpsed' = [glimpsed EXCEPT ![q] = healthy]
    /\ UNCHANGED <<current, members, counters, rrIndex, healthy, replace, steady>>

(* Pick has nobody to offer.                                               *)
NothingEligible(q) ==
    /\ req[q].phase = "picking" /\ req[q].left = {} /\ req[q].eligible = {}
    /\ req' = [req EXCEPT ![q] =
                 Ended(@, IF @.lastErr THEN "lastErr" ELSE "unavailable")]
    /\ steady' = [steady EXCEPT ![q] = {}]
    /\ glimpsed' = [glimpsed EXCEPT ![q] = {}]
    /\ UNCHANGED <<current, members, counters, rrIndex, healthy, replace>>

(* Without the released flag a deferred second call counts again.          *)
ReleaseTwice(q, success) ==
    totalErrors' = IF success THEN totalErrors
                   ELSE [totalErrors EXCEPT ![req[q].pool][req[q].member] = @ + 2]

(* release(success)                                                        *)
Release(q, success) ==
    totalErrors' = IF success THEN totalErrors
                   ELSE [totalErrors EXCEPT ![req[q].pool][req[q].member] = @ + 1]

Succeed(q) ==
    /\ req[q].phase = "calling"
    /\ Release(q, TRUE)
    /\ req' = [req EXCEPT ![q] = Ended(@, "ok")]
    /\ steady' = [steady EXCEPT ![q] = {}]
    /\ UNCHANGED <<current, members, totalRequests, rrIndex, healthy, replace, glimpsed>>

(* An error no other member would answer differently.                      *)
FailDefinitely(q) ==
    /\ req[q].phase = "calling"
    /\ Release(q, FALSE)
    /\ req' = [req EXCEPT ![q] = Ended(@, "definite")]
    /\ steady' = [steady EXCEPT ![q] = {}]
    /\ UNCHANGED <<current, members, totalRequests, rrIndex, healthy, replace, glimpsed>>

(* The first attempt is not counted as one: the loop ends a member early.  *)
AttemptsLeftButOne(r) == Cardinality(r.tried) + 1 < Cardinality(members[r.pool])

(* The loop makes as many attempts as the pool has members; each attempt   *)
(* that got this far has put a member into tried.                          *)
AttemptsLeft(r) == Cardinality(r.tried) < Cardinality(members[r.pool])

Again(r) ==
    IF AttemptsLeft(r) THEN Picking([r EXCEPT !.lastErr = TRUE]) ELSE Ended(r, "lastErr")

(* A transient error, or a member that turns out not to have the model or  *)
(* not to be registered any more: the loop goes on.                        *)
TryAnother(q) ==
    /\ req[q].phase = "calling"
    /\ Release(q, FALSE)
    /\ req' = [req EXCEPT ![q] = Again(@)]
    /\ steady' = [steady EXCEPT ![q] = IF AttemptsLeft(req[q]) THEN @ ELSE {}]
    /\ glimpsed' = [glimpsed EXCEPT ![q] = IF AttemptsLeft(req[q]) THEN healthy ELSE {}]
    /\ UNCHANGED <<current, members, totalRequests, rrIndex, healthy, replace>>

-----------------------------------------------------------------------------
(* The rest of the gateway.                                                *)

(* RecordAvailabilityCheck                                                 *)
ProbeFails(m) ==
    /\ m \in healthy
    /\ healthy' = healthy \ {m}
    /\ steady' = [q \in Requests |-> steady[q] \ {m}]
    /\ UNCHANGED <<current, members, counters, rrIndex, replace, req, glimpsed>>

ProbeSucceeds(m) ==
    /\ m \notin healthy
    /\ healthy' = healthy \cup {m}
    /\ glimpsed' = [q \in Requests |->
                    IF req[q].phase = "picking" THEN glimpsed[q] \cup {m} ELSE glimpsed[q]]
    /\ UNCHANGED <<current, members, counters, rrIndex, replace, req, steady>>

(* Replace takes the lock with the freshly built pool, all counters zero.  *)
StartReplace ==
    /\ replace.step = "idle"
    /\ current <= MaxRebuilds
    /\ \E s \in Shapes :
         /\ members' = [members EXCEPT ![current + 1] = s]
         /\ replace' = [step |-> "requests", left |-> members[current] \cap s]
    /\ UNCHANGED <<current, counters, rrIndex, healthy, req, history>>

(* mergePoolCounters: the requests of the next matching member, ...        *)
CarryRequests ==
    /\ replace.step = "requests"
    /\ \E m \in replace.left :
         /\ IsFirst(m, replace.left)
         /\ totalRequests' =
              [totalRequests EXCEPT ![current + 1][m] = @ + totalRequests[current][m]]
    /\ replace' = [replace EXCEPT !.step = "errors"]
    /\ UNCHANGED <<current, members, totalErrors, rrIndex, healthy, req, history>>

(* ... and then its errors.                                                *)
CarryErrors ==
    /\ replace.step = "errors"
    /\ \E m \in replace.left :
         /\ IsFirst(m, replace.left)
         /\ totalErrors' =
              [totalErrors EXCEPT ![current + 1][m] = @ + totalErrors[current][m]]
         /\ replace' = [step |-> "requests", left |-> replace.left \ {m}]
    /\ UNCHANGED <<current, members, totalRequests, rrIndex, healthy, req, history>>

Swap ==
    /\ replace.step = "requests" /\ replace.left = {}
    /\ current' = current + 1
    /\ replace' = [step |-> "idle", left |-> {}]
    /\ UNCHANGED <<members, counters, rrIndex, healthy, req, history>>

-----------------------------------------------------------------------------
Progress(q) ==
    \/ Begin(q)
    \/ Examine(q)
    \/ Choose(q)
    \/ NothingEligible(q)
    \/ Succeed(q)
    \/ FailDefinitely(q)
    \/ TryAnother(q)

Replacing == CarryRequests \/ CarryErrors \/ Swap

Probing == \E m \in Members : ProbeFails(m) \/ ProbeSucceeds(m)

Next ==
    \/ \E q \in Requests : Progress(q)
    \/ Replacing
    \/ StartReplace
    \/ Probing

(* A request's goroutine goes on, a member's call ends one way or another, *)
(* and so does Replace, which waits for nobody once it has the lock.       *)
Fairness ==
    /\ \A q \in Requests : WF_vars(Progress(q))
    /\ WF_vars(Replacing)

Spec == Init /\ [][Next]_vars /\ Fairness
-----------------------------------------------------------------------------
(* Properties.                                                             *)

RequestType ==
    [phase : {"new", "picking", "calling", "done"}, pool : Pools,
     tried : SUBSET Members, left : SUBSET Members, eligible : SUBSET Members,
     member : Members \cup {NoMember}, lastErr : BOOLEAN, answer : Answers]

(* The variables have their types; a call under way has the member it goes *)
(* to, and a pool that may be in use has its members.                      *)
TypeOK ==
    /\ current \in Pools
    /\ members \in [Pools -> SUBSET Members]
    /\ totalRequests \in [Pools -> [Members -> Nat]]
    /\ totalErrors \in [Pools -> [Members -> Nat]]
    /\ rrIndex \in [Pools -> Nat]
    /\ healthy \subseteq Members
    /\ replace \in [step : {"idle", "requests", "errors"}, left : SUBSET Members]
    /\ replace.step # "idle" => current + 1 \in Pools
    /\ req \in [Requests -> RequestType]
    /\ \A q \in Requests : req[q].phase = "calling" => req[q].member \in Members
    /\ steady \in [Requests -> SUBSET Members]
    /\ glimpsed \in [Requests -> SUBSET Members]

(* A request that ends without a verdict of a member (routePooledModelCall *)
(* and rerankWithPool at the end of their loops) has tried every member of *)
(* its pool that supports it and was healthy the whole time: neither the   *)
(* bound on the attempts nor a health change in the middle of a pass makes *)
(* it give up on one.                                                      *)
GivesUp(q) == req[q].answer = "none" /\
              req'[q].answer \in {"lastErr", "unavailable"}

EveryHealthyMemberTried ==
    [][\A q \in Requests :
         GivesUp(q) => members[req[q].pool] \cap Capable[q] \cap steady[q] \subseteq req[q].tried]_vars

(* Pick sends a request only to a member of its pool that supports it and  *)
(* that was healthy at some point of that very Pick, and never to one it   *)
(* has tried: a failover does not go by what an earlier pass saw.          *)
NoStaleChoice ==
    [][\A q \in Requests :
         req[q].phase = "picking" /\ req'[q].phase = "calling" =>
           req'[q].member \in
             (members[req[q].pool] \cap Capable[q] \cap glimpsed[q]) \ req[q].tried]_vars

(* The members that have failed q so far.                                  *)
Failed(q) ==
    IF req[q].phase = "calling" \/ req[q].answer = "ok"
      THEN req[q].tried \ {req[q].member}
      ELSE req[q].tried

Attempted == [m \in Members |-> {q \in Requests : m \in req[q].tried}]
FailedOn  == [m \in Members |-> {q \in Requests : m \in Failed(q)}]
UsersOf   == [g \in Pools |-> {q \in Requests : req[q].pool = g}]

Within(count, events, users) ==
    \A g \in Pools, m \in Members :
        /\ Cardinality(events[m] \cap users[g]) <= count[g][m]
        /\ count[g][m] <= Cardinality(events[m])

(* Of every pool, a member's counters are at least what this pool's own    *)
(* requests did to it and at most what all requests ever did: concurrent   *)
(* picks lose no count, release counts an error once, and Replace carries  *)
(* nothing over twice.                                                     *)
CountsOnce ==
    /\ Within(totalRequests, Attempted, UsersOf)
    /\ Within(totalErrors, FailedOn, UsersOf)

(* Every request is answered, however often the members' health changes    *)
(* and whatever is rebuilt around it.                                      *)
EveryRequestEnds == \A q \in Requests : <>(req[q].phase = "done")
=============================================================================
